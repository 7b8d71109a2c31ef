CONSTANTS
    fn = fn
    draw = draw
    vblank = vblank
    l1 = l1
    l2 = l2
    l3 = l3
    Context <- MCContext
    Arena <- MCArena
    Phase <- MCPhase
    Lease <- MCLease
    ArenaOf <- MCArenaOf
    PhaseOf <- MCPhaseOf
    MaxSlots = 2
    MaxSize = 2
    MaxAcquires = 3
SPECIFICATION Spec
SYMMETRY Leases
CHECK_DEADLOCK FALSE
INVARIANTS
    SlotsHaveOneHolder
    EmittedCovers
    OverlayOnlyPhased
