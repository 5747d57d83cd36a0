SPECIFICATION Spec
CONSTANTS
    a = a
    b = b
    c = c
    d = d
    urandom = urandom
    out = out
    NoName = NoName
    File = {a, b, c, d, urandom, out}
    Writers = {out}
    Once = {urandom}
    Name <- MCName
    Fds = 5
    Limits = {4, 9}
    Slack = 2
    Floor = 2
    Threads = 2
SYMMETRY Inputs
CONSTRAINT Intact
INVARIANTS
    OwnDescriptor
    CountExact
    ReleasedClosable
    
CHECK_DEADLOCK FALSE
