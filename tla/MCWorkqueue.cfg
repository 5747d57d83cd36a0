SPECIFICATION Spec
CONSTANTS
    Task <- MCTask
    Token <- MCToken
    Blocker <- MCBlocker
    WaitsFor <- MCWaitsFor
    Locks <- MCLocks
    Owns <- MCOwns
    Program <- MCProgram
    Main = Main
    NoTask = NoTask
    NoToken = NoToken
    MaxThreads = 3
INVARIANTS
    TasksAccounted
    WaitersBlocked
PROPERTY
    ThreadsExit
    ImplementsPool
