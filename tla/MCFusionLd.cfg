SPECIFICATION ldSpec
CONSTANTS
    Object <- AllObjects
    Placement <- Placements
    MaxPartial = 2
INVARIANTS
    
    ldInv
    PartialLinkTransparent
    UndefinedReported
CHECK_DEADLOCK FALSE
