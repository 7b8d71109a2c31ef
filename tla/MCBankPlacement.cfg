SPECIFICATION Spec
CONSTANTS
    Page = 4
    Top = 20
    VectorBase = 20
    Word = 60
    Hazard = {}
    Banks = 3
    Link <- MCLink
INVARIANTS
    TiesKept
    AcceptedIsLaidOut
    NothingLeftToMove
PROPERTIES
    PlacementEnds
