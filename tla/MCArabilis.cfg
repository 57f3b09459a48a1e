CONSTANTS
    Name <- MCName
    Literal <- MCLiteral
    Expr <- MCExpr
    Stmt <- MCStmt
    Program <- MCProgram
SPECIFICATION FairSpec
INVARIANTS NeverTerminates Assembles
PROPERTIES Ends
CHECK_DEADLOCK FALSE
