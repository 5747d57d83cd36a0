SPECIFICATION Spec
CONSTANTS
    Fns = 4
    MaxArcs = 5
    MaxOptionArcs = 3
    Profiles <- MCProfiles
INVARIANTS
    CyclesExact
    NumbersFall
    FirewallsHold
    
    TimesExact
CHECK_DEADLOCK FALSE
