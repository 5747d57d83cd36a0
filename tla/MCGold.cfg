SPECIFICATION Spec
CONSTANTS
    Inputs = 2
    Archive = {1}
    NeedsSearch = {1}
    Relobj = {1, 2, 3, 4}
    MustFollow = {1}
    ThreadCounts = {2}
    FileOf <- MCFileOf
    RoundOf <- MCRoundOf
    Task <- GoldTask
    Token <- GoldToken
    Blocker <- GoldBlocker
    WaitsFor <- GoldWaitsFor
    Locks <- GoldLocks
    Owns <- GoldOwns
    Program <- GoldProgram
    Main = Main
    NoTask = NoTask
    NoToken = NoToken
    MaxThreads = 1
INVARIANTS
    WritersExclusive
    AssertsHold
    FreedUnused
    AddedInOrder
    WrittenInOrder
