CONSTANTS
    Object <- MCObject
    Symbol <- MCSymbol
    Link <- MCLink
    Job <- MCJob
    Profile = "profile"
    Helper = "helper"
    Figures <- MCFigures
    NoFigures = none
SPECIFICATION BuildSpec
CHECK_DEADLOCK FALSE
INVARIANTS
    NothingMissing
    PulledForNeed
    StartupSuits
    ShimKeptUnlessReselected
    FinalIsMeasured
    NoGainLeft
PROPERTIES
    BuildEnds
