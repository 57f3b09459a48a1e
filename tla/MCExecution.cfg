CONSTANTS
    Name <- MCName
    Literal <- MCLiteral
    Expr <- MCExpr
    Stmt <- MCStmt
    Program <- MCProgram
    Width = 12
    StackTop = 1200
    StackWords = 100
    Fuel = 100
SPECIFICATION FairSpec
INVARIANTS ComputesMeaning AccessesAllocated
PROPERTIES CallsRestore Terminates
CHECK_DEADLOCK FALSE
