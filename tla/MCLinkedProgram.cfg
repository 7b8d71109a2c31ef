SPECIFICATION Spec
CONSTANTS
    Page = 4
    Top = 24
    VectorBase = 21
    Word = 72
    Hazard = {4, 5}
    Byte = 10
    Clobber = {0, 57}
    MaxReset = 1
    Program <- MCProgram
    Problem <- MCProblem
CHECK_DEADLOCK FALSE
INVARIANTS
    RegionAccounted
    ContractsKept
    MembersKeepOwn
    InitializedAtMain
    LiveIntact
    CalledOnceInOrder
PROPERTIES
    ProbesForFirst
    LinkEnds
    ReachesMain
