SPECIFICATION Spec
CONSTANTS
    main = main
    a = a
    b = b
    c = c
    i = i
    fixed = fixed
    other = other
    Function <- MCFunction
    Bank <- MCBank
    Program <- MCProgram
    RegionSize = 8
CHECK_DEADLOCK FALSE
INVARIANTS
    StackFitsReserve
