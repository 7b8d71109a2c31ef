--------------------------- MODULE MCScratchLease ---------------------------
(***************************************************************************)
(* Three contexts and three lease variables: a function, a hook of the     *)
(* visible frame expanded in it, which shares its arena, and a hook of     *)
(* vertical blank with an arena of its own.                                *)
(***************************************************************************)
EXTENDS ScratchLease, TLC

CONSTANTS fn, draw, vblank, l1, l2, l3

MCContext == {fn, draw, vblank}
MCArena == {"fn", "vblank"}
MCArenaOf == (fn :> "fn") @@ (draw :> "fn") @@ (vblank :> "vblank")
MCPhaseOf == (fn :> {}) @@ (draw :> {"visible"}) @@ (vblank :> {"vblank"})
MCPhase == {"vblank", "visible"}
MCLease == {l1, l2, l3}
Leases == Permutations(MCLease)
=============================================================================
