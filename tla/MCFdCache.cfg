SPECIFICATION Spec
CONSTANTS
    w = w
    a = a
    s = s
    NoUser = NoUser
    File = {w, a, s}
    Writers = {w}
    Archive = {a}
    Streams = {s}
    Contents <- MCContents
    Byte = {1}
    max_open_files = 1
    Modulus = 64
    MaxPos = 13
    MaxSeek = 1
    MaxKnown = 2
    MaxRead = 2
INVARIANTS
    
    LimitKept
    
PROPERTIES
    ImplementsFiles
    ReadsExact
CHECK_DEADLOCK FALSE
