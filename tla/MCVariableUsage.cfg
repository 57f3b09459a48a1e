CONSTANTS
    Name <- MCName
    Literal = {}
    Expr <- MCExpr
    Stmt <- MCStmt
    Program <- MCProgram
SPECIFICATION Spec
INVARIANTS TypeOK NoShadowing VerdictCorrect
CHECK_DEADLOCK FALSE
