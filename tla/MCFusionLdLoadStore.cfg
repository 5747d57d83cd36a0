SPECIFICATION ldSpec
CONSTANTS
    Object <- AllObjects
    Placement <- Placements
    MaxPartial = 1
INVARIANTS
    LoadStoreLinkIsDirect
CHECK_DEADLOCK FALSE
