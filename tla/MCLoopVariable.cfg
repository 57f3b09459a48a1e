CONSTANTS
    Name <- MCName
    Literal <- MCLiteral
    Expr <- LeakExpr
    Stmt <- LeakStmt
    Program <- LeakProgram
    Width = 12
    StackTop = 1200
    StackWords = 100
    Fuel = 100
SPECIFICATION FairSpec
INVARIANTS RemovesLoopVariable
CHECK_DEADLOCK FALSE
