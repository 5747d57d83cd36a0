SPECIFICATION Spec
CONSTANTS
    Symbol = {"l", "x", "c"}
    ProgramKind = {"globals"}
    Stmt <- MCStmt
    MaxStmts <- MCMaxStmts
    MaxFrags = 1
    Object = {}
    Placement <- OnePlacement
    MaxPartial = 0
    ExternValue = {98400}
INVARIANTS
    GlobalExact
CHECK_DEADLOCK FALSE
