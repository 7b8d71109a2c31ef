SPECIFICATION AsmSpec
CONSTANTS
    Source <- MCSource
    MaxPass = 6
    MaxTry = 4
    Back = 8
    Forth = 7
    Page = 16
INVARIANTS
    ZeroPageLegal
CHECK_DEADLOCK FALSE
