SPECIFICATION Spec
CONSTANTS
    a = a
    b = b
    slash = slash
    Name <- MCName
    Invalid = {slash}
    Data = {1, 2}
    Missing = missing
    Partial = partial
    Absent = absent
    Inode = {i1, i2, i3}
    Archive <- MCArchive
    Command <- MCCommand
    Request <- MCRequest
    MaxCommand = 2
    MaxRead = 1
    MaxCrash = 1
CHECK_DEADLOCK FALSE
INVARIANTS
    ReadsWhatWasThere
PROPERTIES
    UpdatesAreAtomic
