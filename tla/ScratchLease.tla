---------------------------- MODULE ScratchLease ----------------------------
(***************************************************************************)
(* The leases by which the compiler hands out its temporaries              *)
(* (compiler/compile_support.c).  There is no allocation at run time: a    *)
(* lease is a choice of a fixed slot made while code is generated, and the *)
(* slots are emitted as storage when the translation unit ends.            *)
(*                                                                         *)
(* A context is one function body or explicit expansion being lowered.     *)
(* Contexts with the same activation owner share an arena, one counter of  *)
(* nesting and one array of slots, so their leases may interleave in any   *)
(* order the lowering routines come up with.  A slot used by frame hooks   *)
(* only leaves its activation and is given to the linker's phase overlay.  *)
(***************************************************************************)
EXTENDS Naturals, FiniteSets, Sequences

CONSTANTS
    Context,    \* functions and expansions being lowered
    Arena,      \* activation owners
    Phase,      \* phases of a frame
    Lease,      \* the CompilerScratchLease variables of the lowering routines
    ArenaOf,    \* compiler_scratch_arena_name
    PhaseOf,    \* phase_mask of the context, empty outside of hooks
    MaxSlots,   \* COMPILER_SCRATCH_MAX_SLOTS
    MaxSize,    \* bound on the bytes a routine asks for
    MaxAcquires \* bound on the leases taken in a behaviour

ASSUME ContextsAssumption == ArenaOf \in [Context -> Arena]
                             /\ PhaseOf \in [Context -> SUBSET Phase]
ASSUME BoundsAssumption == MaxSlots \in Nat \ {0} /\ MaxSize \in Nat \ {0}
                            /\ MaxAcquires \in Nat

VARIABLES
    status,     \* generating code, storage emitted, or error_unreachable
    depth,      \* leases held in each arena
    slotCount,  \* slots each arena has used so far
    slots,      \* what is known of them
    lease,      \* the lease variables between their acquire and release
    active,     \* compiler_scratch_active_stack
    highWater,  \* locals_high_water of each context
    acquired,   \* acquisitions so far
    uses        \* history: who used each slot, and how much of it

codegen == <<depth, slotCount, slots, lease, active, highWater>>
vars == <<status, codegen, acquired, uses>>

Slot == 1..MaxSlots
Size == 0..MaxSize

SlotState == [size : Size, eligible : BOOLEAN, mask : SUBSET Phase]
LeaseState == [ctx : Context, slot : Slot, reserved : Size, used : Size,
               saved : Size]
Usage == [by : SUBSET Context, bytes : Size]

Larger(m, n) == IF m < n THEN n ELSE m

Held == DOMAIN lease
ArenaAt(l) == ArenaOf[lease[l].ctx]
HeldIn(a) == {l \in Held : ArenaAt(l) = a}
IsActive(l) == \E i \in DOMAIN active : active[i] = l
Top == active[Len(active)]

-----------------------------------------------------------------------------
Init == /\ status = "generating"
        /\ depth = [a \in Arena |-> 0]
        /\ slotCount = [a \in Arena |-> 0]
        /\ slots = [a \in Arena |-> [i \in Slot |->
                       [size |-> 0, eligible |-> FALSE, mask |-> {}]]]
        /\ lease = [l \in {} |-> 0]
        /\ active = <<>>
        /\ highWater = [c \in Context |-> 0]
        /\ acquired = 0
        /\ uses = [a \in Arena |-> [i \in Slot |-> [by |-> {}, bytes |-> 0]]]

Generating == status = "generating"

\* Mutant of Joined: a use outside of the phases is forgotten.
JoinedPhasesOnly(s, p) == [s EXCEPT !.mask = @ \cup p]

\* A slot becomes ineligible for good when a context without phases uses it.
Joined(s, p) == CASE p = {} -> [s EXCEPT !.eligible = FALSE]
                  [] p # {} /\ s.eligible -> [s EXCEPT !.mask = @ \cup p]
                  [] OTHER -> s

\* A slot that is new to the arena starts out eligible.
Created(s, fresh) == [s EXCEPT !.eligible = s.eligible \/ fresh]

\* The next slot of the arena, created on its first use.
Acquire(l, c, bytes) ==
    LET a == ArenaOf[c]
        i == depth[a] + 1
        fresh == i > slotCount[a]
    IN /\ Generating /\ l \notin Held /\ i \in Slot
       /\ acquired < MaxAcquires /\ acquired' = acquired + 1
       /\ depth' = [depth EXCEPT ![a] = i]
       /\ slotCount' = [slotCount EXCEPT ![a] = IF fresh THEN i ELSE @]
       /\ slots' = [slots EXCEPT ![a][i] = Joined(Created(@, fresh), PhaseOf[c])]
       /\ lease' = [m \in Held \cup {l} |->
                       IF m = l THEN [ctx |-> c, slot |-> i,
                                      reserved |-> Larger(bytes, 1),
                                      used |-> Larger(bytes, 1),
                                      saved |-> highWater[c]]
                                ELSE lease[m]]
       /\ UNCHANGED <<status, active, highWater, uses>>

\* An expansion asks for more when a later parameter is larger.
Widen(l, bytes) ==
    /\ Generating /\ l \in Held /\ ~IsActive(l) /\ bytes > lease[l].reserved
    /\ lease' = [lease EXCEPT ![l].reserved = bytes]
    /\ UNCHANGED <<status, depth, slotCount, slots, active, highWater, acquired, uses>>

MayActivate(l) == ~IsActive(l) /\ Len(active) < MaxSlots

Activate(l) ==
    /\ Generating /\ l \in Held /\ MayActivate(l)
    /\ active' = Append(active, l)
    /\ highWater' = [highWater EXCEPT ![lease[l].ctx] = lease[l].reserved]
    /\ UNCHANGED <<status, depth, slotCount, slots, lease, acquired, uses>>

\* Mutant of Noted: the high-water mark counts alone.
NotedMark(v, bytes) == Larger(v.used, bytes)

\* compiler_scratch_note_used never goes below what was asked for.
Noted(v, bytes) == Larger(v.used, Larger(bytes, v.reserved))

\* The slot grows to what lease l used of it.
Measured(l, bytes) ==
    [slots EXCEPT ![ArenaAt(l)][lease[l].slot].size =
        Larger(@, Noted(lease[l], bytes))]

MayDeactivate(l) == IsActive(l) /\ Top = l

\* The mark the context had when the lease was acquired comes back.
Deactivate(l) ==
    LET c == lease[l].ctx
    IN /\ Generating /\ l \in Held /\ MayDeactivate(l)
       /\ slots' = Measured(l, highWater[c])
       /\ lease' = [lease EXCEPT ![l].used = Noted(lease[l], highWater[c])]
       /\ active' = SubSeq(active, 1, Len(active) - 1)
       /\ highWater' = [highWater EXCEPT ![c] = lease[l].saved]
       /\ UNCHANGED <<status, depth, slotCount, acquired, uses>>

\* Mutant of MayRelease: in any order.
MayReleaseAny(l) == ~IsActive(l)

MayRelease(l) == ~IsActive(l) /\ lease[l].slot = depth[ArenaAt(l)]

Release(l) ==
    /\ Generating /\ l \in Held /\ MayRelease(l)
    /\ slots' = Measured(l, lease[l].used)
    /\ depth' = [depth EXCEPT ![ArenaAt(l)] = @ - 1]
    /\ lease' = [m \in Held \ {l} |-> lease[m]]
    /\ UNCHANGED <<status, slotCount, active, highWater, acquired, uses>>

\* Code that reads or writes the slot is generated, by the symbol of the lease
\* or by that of the active one.  A routine stays in what it has reserved, and
\* in the worst case uses it all.
Use(l) ==
    LET v == lease[l]
    IN /\ Generating /\ l \in Held
       /\ uses' = [uses EXCEPT ![ArenaAt(l)][v.slot] =
                      [by |-> @.by \cup {v.ctx},
                       bytes |-> Larger(@.bytes, v.reserved)]]
       /\ UNCHANGED <<status, depth, slotCount, slots, lease, active, acquired>>

Store(l) == Use(l) /\ UNCHANGED highWater

\* A copy through a pointer protects the bytes of the active lease meanwhile,
\* which raises the mark (ctx_set_locals).
Copy ==
    /\ active # <<>> /\ Use(Top)
    /\ highWater' = [highWater EXCEPT ![lease[Top].ctx] =
                        Larger(@, lease[Top].reserved)]

\* The storage is emitted when nothing is active or held any more.
MayEmit == active = <<>> /\ \A a \in Arena : depth[a] = 0

EmitBss == Generating /\ MayEmit /\ status' = "emitted"
           /\ UNCHANGED <<codegen, acquired, uses>>

\* error_unreachable stops the compiler: nesting too deep, or out of order.
Misused == \/ \E c \in Context : depth[ArenaOf[c]] = MaxSlots
           \/ \E l \in Held : \/ ~MayActivate(l)
                              \/ ~MayDeactivate(l)
                              \/ ~MayRelease(l)
           \/ ~MayEmit

Refuse == Generating /\ Misused /\ status' = "unreachable"
          /\ UNCHANGED <<codegen, acquired, uses>>

Next == \/ \E l \in Lease, c \in Context, n \in Size : Acquire(l, c, n)
        \/ \E l \in Lease, n \in Size : Widen(l, n)
        \/ \E l \in Lease : Activate(l) \/ Deactivate(l) \/ Release(l) \/ Store(l)
        \/ Copy
        \/ EmitBss
        \/ Refuse

Spec == Init /\ [][Next]_vars

-----------------------------------------------------------------------------
\* Types, and the two arrays of the source never overrun.
LeaseTypeOK ==
    /\ status \in {"generating", "emitted", "unreachable"}
    /\ depth \in [Arena -> 0..MaxSlots]
    /\ slotCount \in [Arena -> 0..MaxSlots]
    /\ slots \in [Arena -> [Slot -> SlotState]]
    /\ Held \in SUBSET Lease /\ lease \in [Held -> LeaseState]
    /\ active \in Seq(Lease) /\ Len(active) <= MaxSlots
    /\ highWater \in [Context -> Size]
    /\ acquired \in 0..MaxAcquires
    /\ uses \in [Arena -> [Slot -> Usage]]

\* In whatever order leases of several contexts are taken and given back, two
\* leases held at the same time never have the same slot, and no slot of the
\* counted nesting is without its holder (a leak would let depth grow for
\* ever): the slots held in an arena are exactly 1..depth.
SlotsHaveOneHolder ==
    \A a \in Arena :
        /\ {lease[l].slot : l \in HeldIn(a)} = 1..depth[a]
        /\ \A l, m \in HeldIn(a) : lease[l].slot = lease[m].slot => l = m

\* Code generated through the active symbol goes to a slot that is still
\* leased: every lease on the active stack is held, and there once.
ActiveAreHeld ==
    \A i, j \in DOMAIN active :
        active[i] \in Held /\ (active[i] = active[j] => i = j)

\* The storage emitted for a slot has every byte some lease of it used, be it
\* that the lease was widened after use, never activated, or deactivated with
\* the mark of another lease.
EmittedCovers ==
    status = "emitted" =>
        \A a \in Arena, i \in Slot :
            /\ uses[a][i].bytes <= slots[a][i].size
            /\ uses[a][i].by # {} => i <= slotCount[a]

\* A slot given to the phase overlay is used in its phases only: every context
\* that ever used it is a hook, and the recorded mask has the phases of all.
OverlayOnlyPhased ==
    status = "emitted" =>
        \A a \in Arena, i \in Slot :
            slots[a][i].eligible /\ slots[a][i].mask # {} =>
                \A c \in uses[a][i].by :
                    PhaseOf[c] # {} /\ PhaseOf[c] \subseteq slots[a][i].mask
=============================================================================
