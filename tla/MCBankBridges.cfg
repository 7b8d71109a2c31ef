SPECIFICATION Spec
CONSTANTS
    main = main
    a = a
    b = b
    c = c
    none = none
    Function <- MCFunction
    NBank = 8
    NoResult = none
    Program <- AutoProgram
INVARIANTS
    EveryCallBridged
CHECK_DEADLOCK FALSE
