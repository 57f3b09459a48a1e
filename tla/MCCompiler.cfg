CONSTANTS
    Name <- MCName
    Literal <- MCLiteral
    Expr <- MCExpr
    Stmt <- MCStmt
    Program <- MCProgram
    Base = 3
    MinWidth = 3
SPECIFICATION MCSpec
INVARIANTS TypeOK FrameLayout DefinedOnce LabelsResolved
CHECK_DEADLOCK FALSE
