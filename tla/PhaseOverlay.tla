---------------------------- MODULE PhaseOverlay ----------------------------
(***************************************************************************)
(* Storage that is shared by frame phases.  A frame runs through VSYNC,    *)
(* VBLANK, visible draw and overscan.  The compiler records in which       *)
(* phases an object is used, and some objects are declared workspace: what *)
(* they hold is disposable outside of the phases between their first and   *)
(* their last use.  vcsc-ld gives workspaces whose intervals are disjoint  *)
(* one slot, of the size of the largest, at the place of the first.        *)
(*                                                                         *)
(* The slots and the other objects are then what RegionLayout places.      *)
(***************************************************************************)
EXTENDS RegionProbe, Sequences

CONSTANTS
    Program    \* programs: [region, object, order]

Phase == 0..3

(***************************************************************************)
(* An object: the shape it asks for; its kind (code, data with an image in *)
(* ROM, or writable bss or zp without); whether it has the marker of an    *)
(* object of the compiler; whether it is scratch of the compiler, noinit,  *)
(* or declared workspace; the phases of each recorded use, {} for a use    *)
(* outside of any phase; and the bytes of the image.  order is the order   *)
(* of layout_objects.                                                      *)
(***************************************************************************)
ObjectType(o) ==
    /\ o.shape \in ShapeType
    /\ Top % o.shape.align = 0 /\ o.shape.phase < o.shape.align
    /\ o.kind # "code" => o.shape.branches = {}
    /\ o.kind \in {"code", "data", "bss", "zp"}
    /\ o.marked \in BOOLEAN /\ o.scratch \in BOOLEAN /\ o.noinit \in BOOLEAN
    /\ o.eligible \in BOOLEAN
    /\ o.uses \in Seq(SUBSET Phase)
    /\ o.image \in Seq(Nat \ {0})
    /\ o.kind = "data" => Len(o.image) = o.shape.size /\ ~o.noinit

\* Each object comes once in the order.
ASSUME ProgramAssumption ==
    \A p \in Program :
        /\ \A o \in DOMAIN p.object : ObjectType(p.object[o])
        /\ p.order \in Seq(DOMAIN p.object)
        /\ {p.order[i] : i \in DOMAIN p.order} = DOMAIN p.object
        /\ \A i, j \in DOMAIN p.order : p.order[i] = p.order[j] => i = j

VARIABLES
    program,   \* the program
    shared,    \* groups of objects that share a slot
    stage      \* "link", "members" if a member refuses the slot, "refused", "linked"

overlayVars == <<program, shared, stage, probeVars>>

-----------------------------------------------------------------------------
(* apply_phase_use_metadata *)

UsesOf(o) == {o.uses[i] : i \in DOMAIN o.uses}

\* Mutant of Unscoped: a later use in a phase makes up for it.
UnscopedLast(o) == o.uses # <<>> /\ o.uses[Len(o.uses)] = {}

Unscoped(o) == {} \in UsesOf(o)

\* Mutant of Closure: only the phases of the uses themselves.
ClosureNone(S) == S

\* phase_mask_interval_closure
Closure(S) == {p \in Phase : \E a, b \in S : a <= p /\ p <= b}

Mask(o) == IF Unscoped(o) THEN {} ELSE Closure(UNION UsesOf(o))

\* Mutant of Overlayable: every object that is only used in phases is taken.
OverlayableUnmarked(p, o) ==
    /\ p.object[o].kind \in {"bss", "zp"} /\ ~p.object[o].noinit
    /\ Mask(p.object[o]) # {} /\ p.region.bank = 0

Overlayable(p, o) ==
    /\ p.object[o].kind \in {"bss", "zp"} /\ ~p.object[o].noinit
    /\ p.object[o].eligible
    /\ Mask(p.object[o]) # {}
    /\ p.region.bank = 0

-----------------------------------------------------------------------------
(* layout_objects: the groups. *)

\* The elements of a sequence that are marked, in their order.
Marked(s, mark) ==
    LET marked[i \in 0..Len(s)] ==
            IF i = 0 THEN <<>>
            ELSE IF mark[s[i]] THEN Append(marked[i - 1], s[i]) ELSE marked[i - 1]
    IN  marked[Len(s)]

Candidates(p) == Marked(p.order, [o \in DOMAIN p.object |-> Overlayable(p, o)])

SizeOf(p, o) == p.object[o].shape.size

\* The selection sort: in round i the first of the largest comes to place i.
Swapped(s, i, j) == [s EXCEPT ![i] = s[j], ![j] = s[i]]

BySize(p) ==
    LET c == Candidates(p)
        LargestFrom(s, i) ==
            Least({j \in i..Len(s) : \A k \in i..Len(s) : SizeOf(p, s[k]) <= SizeOf(p, s[j])})
        sorted[i \in 0..Len(c)] ==
            IF i = 0 THEN c
            ELSE LET s == sorted[i - 1] IN Swapped(s, i, LargestFrom(s, i))
    IN  sorted[Len(c)]

GroupMask(p, g) == UNION {Mask(p.object[o]) : o \in g}

\* Mutant of Joins: the masks are not compared.
JoinsAny(p, g, o) == TRUE

Joins(p, g, o) == GroupMask(p, g) \cap Mask(p.object[o]) = {}

\* Each candidate joins the first group that is free in all of its phases.
Groups(p) ==
    LET s == BySize(p)
        groups[i \in 0..Len(s)] ==
            IF i = 0 THEN <<>>
            ELSE LET gs == groups[i - 1]
                     free == {j \in DOMAIN gs : Joins(p, gs[j], s[i])}
                 IN  IF free = {} THEN Append(gs, {s[i]})
                     ELSE [gs EXCEPT ![Least(free)] = @ \cup {s[i]}]
    IN  {groups[Len(s)][j] : j \in 1..Len(groups[Len(s)])}

\* A group of one keeps its place and its own shape.
Shared(p) == {g \in Groups(p) : Cardinality(g) > 1}

PlaceIn(p, o) == CHOOSE i \in DOMAIN p.order : p.order[i] = o
Leader(p, g) == CHOOSE o \in g : \A m \in g : PlaceIn(p, o) <= PlaceIn(p, m)

Largest(S) == CHOOSE x \in S : \A y \in S : y <= x

\* Mutant of SlotShape: the slot has the size of its leader.
SlotShapeOfLeader(p, g) == p.object[Leader(p, g)].shape

\* What is asked for the slot; the phase of the alignment is the leader's.
SlotShape(p, g) ==
    LET shapes == {p.object[o].shape : o \in g}
        whole == \E s \in shapes : s.page \/ s.window[2] > 0
    IN  [p.object[Leader(p, g)].shape EXCEPT
            !.size  = Largest({s.size : s \in shapes}),
            !.align = Largest({s.align : s \in shapes}),
            !.zp    = \E s \in shapes : s.zp,
            !.page  = whole,
            !.window = IF whole THEN <<0, 0>> ELSE @]

\* Every member has the address of the leader of its group G.
SlotOf(p, G, o) ==
    IF \E g \in G : o \in g THEN Leader(p, CHOOSE g \in G : o \in g) ELSE o

\* What is asked of the region.
Merged(p, G) ==
    [region |-> p.region,
     shape  |-> [o \in {SlotOf(p, G, q) : q \in DOMAIN p.object} |->
                   IF \E g \in G : o \in g
                   THEN SlotShape(p, CHOOSE g \in G : o \in g)
                   ELSE p.object[o].shape]]

-----------------------------------------------------------------------------
(* layout_objects: the addresses. *)

OverlayInit ==
    /\ ProbeInit
    /\ program \in {p \in Program : Merged(p, Shared(p)) = problem}
    /\ shared = Shared(program)
    /\ stage = "link"

\* object_page_constraints_hold and the alignment, for a member at the slot.
Suits(o, a) ==
    LET s == program.object[o].shape
    IN  PageConstraintsHold(s, a) /\ AlignedAt(s, a)

\* Mutant of MembersSuit: a member is not asked.
MembersSuitAlways(slot, a) == TRUE

MembersSuit(slot, a) ==
    \A g \in shared : slot \in g => \A o \in g : Suits(o, a)

\* One step of the layout; the members of a slot are asked as soon as it has
\* an address.
Link ==
    /\ stage = "link"
    /\ ProbeNext
    /\ UNCHANGED <<program, shared>>
    /\ stage' = IF verdict' # "linking" THEN "refused"
                ELSE IF \E o \in DOMAIN at' \ DOMAIN at : ~MembersSuit(o, at'[o])
                THEN "members"
                ELSE IF DOMAIN at' = Object THEN "linked"
                ELSE "link"

-----------------------------------------------------------------------------
AddressOf(o) == at[SlotOf(program, shared, o)]
OwnBytes(o) == AddressOf(o)..(AddressOf(o) + SizeOf(program, o) - 1)
Linked == stage \notin {"link", "members", "refused"}

(***************************************************************************)
(* linker/README.md, frame-phase overlay: "Page and alignment constraints  *)
(* still apply."  Every object has what it asked for, also where it shares *)
(* the slot of a larger or stricter one.                                   *)
(***************************************************************************)
MembersKeepOwn ==
    Linked => \A o \in DOMAIN program.object :
                 Kept(program.object[o].shape, AddressOf(o))
=============================================================================
