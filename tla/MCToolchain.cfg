SPECIFICATION Spec
CONSTANTS
    Symbol = {"l", "x", "c"}
    ProgramKind = {"transfers", "addresses", "operands"}
    Stmt <- MCStmt
    MaxStmts <- MCMaxStmts
    MaxFrags = 3
    Object = {}
    Placement <- OnePlacement
    MaxPartial = 1
    ExternValue = {98400}
INVARIANTS
    LaidOutInOrder
    
    PairsExact
    LongsExact
    
    
CHECK_DEADLOCK FALSE
