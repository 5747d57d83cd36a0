SPECIFICATION FairSpec
CONSTANTS
    Sym = 2
    Object = {"main", "m1", "m2", "m3"}
    Input <- MCInput
    IsArchive <- MCIsArchive
    Group = {2, 3}
    Tables <- MCTables
INVARIANTS ResolvedRightly DuplicatesReported UndefsSound LoadedOnce MembersNeeded
PROPERTIES SearchedThrough Finishes
CHECK_DEADLOCK FALSE
