SPECIFICATION Spec
CONSTANTS
    main = main
    f = f
    g = g
    h = h
    Function <- MCFunction
    Program <- MCProgram
    RegionSize = 8
    MaxSerial = 4
CHECK_DEADLOCK FALSE
INVARIANTS
    SettledIsLeast
    CycleMeansCycle
    LiveActivationsDisjoint
    StoredBytesIntact
    RecursionIsReported
PROPERTIES
    LayoutTerminates
