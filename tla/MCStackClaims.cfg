SPECIFICATION Spec
CONSTANTS
    main = main
    a = a
    b = b
    c = c
    i = i
    fixed = fixed
    other = other
    Function <- LongFunction
    Bank <- MCBank
    Program <- ClaimProgram
    RegionSize = 12
INVARIANTS
    EveryPushReserved
CHECK_DEADLOCK FALSE
