--------------------------- MODULE RegionAllocator ---------------------------
(***************************************************************************)
(* How vcsc-ld finds an address in a MEMORY region.                        *)
(*                                                                         *)
(* A region has a cursor: a high-water mark and the holes that alignment   *)
(* and page constraints left below it.  Objects that fit a page are put    *)
(* into the lowest hole that takes them, other objects at the high-water   *)
(* mark; a code layout that contains relative branches goes where it grows *)
(* the region least, then crosses the fewest pages.                        *)
(*                                                                         *)
(* Each of the two procedures has a dry-run copy, which answers instead of *)
(* stopping the linker.  They decide alike, with one exception: the dry    *)
(* run does not ask whether .same and .cross branches stay in the layout.  *)
(*                                                                         *)
(* The searches are stated by what they find: the first address of the     *)
(* probing order that satisfies every constraint.  Module RegionProbe has  *)
(* the probing loop itself.                                                *)
(***************************************************************************)
EXTENDS Integers, FiniteSets

CONSTANTS
    Page,       \* bytes of a 6502 page
    Top,        \* end of the 16-bit address space
    VectorBase, \* where the vectors start, which a region named ROM must spare
    Word,       \* modulus of the linker's uint32_t address arithmetic
    Hazard      \* operand addresses whose access reads a destructive register

ASSUME WidthAssumption ==
    /\ Page \in Nat \ {0}
    /\ Top \in Nat \ {0}
    /\ Word \in Nat
    /\ 3 * Top <= Word
    /\ Top % Page = 0
    /\ Word % Top = 0
    /\ VectorBase \in 0..Top
    /\ Hazard \subseteq 0..(Top - 1)

(***************************************************************************)
(* A region: its first byte and end, whether its name is ROM, and for      *)
(* swapram the size of a physical bank (0 for an ordinary region).         *)
(***************************************************************************)
RegionType == [start : Nat, end : Nat, rom : BOOLEAN, bank : Nat]

(***************************************************************************)
(* An object: bytes; alignment and phase; .pagecontain; index window (its  *)
(* first byte and length, length 0 for none); zero-page segment; offsets   *)
(* of operands that must not read a destructive register; branches, with   *)
(* offsets of source and target and a policy.                              *)
(***************************************************************************)
Branch == [source : Nat, target : Nat, policy : {"flex", "same", "cross"}]
ShapeType == [size : 1..Top, align : Nat \ {0}, phase : Nat, page : BOOLEAN,
              window : Nat \X Nat, zp : BOOLEAN, reads : SUBSET Nat,
              branches : SUBSET Branch]

(* A cursor: high-water mark and holes.  Zero-sized objects get no bytes   *)
(* and are left out.                                                       *)
Hole == [from : Nat, to : Nat]
CursorType == [cur : Nat, holes : SUBSET Hole]

-----------------------------------------------------------------------------
(* The conditions an address has to meet. *)

FitsOnePage(a, n) == n <= Page /\ (a % Page) + n <= Page

AlignedAt(o, a) == o.align = 1 \/ a % o.align = o.phase

PageConstraintsHold(o, a) ==
    /\ o.zp => a + o.size <= Page
    /\ o.page => FitsOnePage(a, o.size)
    /\ o.window[2] > 0 => FitsOnePage(a + o.window[1], o.window[2])
    /\ \A d \in o.reads : (a + d) % Top \notin Hazard

BankConstraintHolds(r, a, n) ==
    r.bank > 0 =>
        /\ n <= r.bank
        /\ r.start <= a
        /\ (a - r.start + n) % Word <= r.end - r.start
        /\ ((a - r.start) % r.bank) + n <= r.bank

Admissible(r, o, a) ==
    AlignedAt(o, a) /\ PageConstraintsHold(o, a) /\ BankConstraintHolds(r, a, o.size)

-----------------------------------------------------------------------------
(* Holes. *)

\* An interval that may be empty, as the holes it contributes.
Gap(from, to) == IF from < to THEN {[from |-> from, to |-> to]} ELSE {}

Within(h, a, n) == h.from <= a /\ a + n <= h.to

\* Mutant of Consume: the bytes behind the object are lost, the object stays.
ConsumeWhole(holes, a, n) ==
    UNION {IF Within(h, a, n) THEN Gap(h.from, a + n) ELSE {h} : h \in holes}

\* The hole that holds the range is replaced by what is left on both sides.
Consume(holes, a, n) ==
    UNION {IF Within(h, a, n) THEN Gap(h.from, a) \cup Gap(a + n, h.to) ELSE {h} :
             h \in holes}

\* Mutant of HoleAddresses: only the first byte has to be in the hole.
HoleAddressesStart(holes, n) ==
    UNION {h.from..(h.to - 1) : h \in holes}

\* Addresses in holes where a whole object may go.
HoleAddresses(holes, n) ==
    UNION {h.from..(h.to - n) : h \in holes}

Least(S) == CHOOSE x \in S : \A y \in S : x <= y

\* cursor_take_hole: an object of at most a page does not straddle a boundary.
HoleFits(r, c, o) ==
    {a \in HoleAddresses(c.holes, o.size) :
        Admissible(r, o, a) /\ (o.size <= Page => FitsOnePage(a, o.size))}

Constrained(o) == o.page \/ o.window[2] > 0 \/ o.reads # {}

-----------------------------------------------------------------------------
(* The high-water mark. *)

\* The distance of an address from the mark, in the order the loop probes.
Ahead(c, a) == (a - c.cur) % Word

\* A zero-page object is given up at the end of page zero.
TailFits(r, c, o) ==
    {a \in 0..(Word - 1) : Admissible(r, o, a) /\ (o.zp => c.cur <= a)}

TailAddress(r, c, o) ==
    LET fits == TailFits(r, c, o)
        nearest == Least({Ahead(c, b) : b \in fits})
    IN  CHOOSE a \in fits : Ahead(c, a) = nearest

Overflows(r, o, a) ==
    LET end == (a + o.size) % Word IN
    \/ r.bank = 0 /\ end > Top
    \/ end > r.end
    \/ r.rom /\ end > VectorBase

Placed(a, c) == [answer |-> "placed", at |-> a, cursor |-> c]
Refused(why, c) == [answer |-> why, at |-> 0, cursor |-> c]

AtTail(r, c, o, a) ==
    IF Overflows(r, o, a) THEN Refused("overflow", c)
    ELSE Placed(a, [cur |-> (a + o.size) % Word,
                    holes |-> c.holes \cup Gap(c.cur, a)])

Impossible(r, o) == (r.bank > 0 /\ o.size > r.bank) \/ (o.page /\ o.size > Page)

GoesIntoHole(r, c, o) ==
    (o.size <= Page \/ Constrained(o)) /\ HoleFits(r, c, o) # {}

(***************************************************************************)
(* alloc_from_region_policy.  "hangs": no address satisfies the            *)
(* constraints and the probing loop has no other exit.                     *)
(***************************************************************************)
Allocate(r, c, o) ==
    IF Impossible(r, o) THEN Refused("impossible", c)
    ELSE IF GoesIntoHole(r, c, o)
    THEN LET a == Least(HoleFits(r, c, o)) IN
         Placed(a, [c EXCEPT !.holes = Consume(@, a, o.size)])
    ELSE IF TailFits(r, c, o) = {}
    THEN Refused(IF o.zp THEN "overflow" ELSE "hangs", c)
    ELSE AtTail(r, c, o, TailAddress(r, c, o))

-----------------------------------------------------------------------------
(* Code with relative branches. *)

Inside(o, b) == b.target < o.size

\* A taken branch crosses if its target is not on the page of the next opcode.
Crosses(b, a) == (a + b.source + 2) \div Page # (a + b.target) \div Page

\* Mutant of ContractsHold: crossing is measured from the branch itself.
ContractsHoldFromSource(o, a) ==
    \A b \in o.branches : Inside(o, b) =>
        LET crosses == (a + b.source) \div Page # (a + b.target) \div Page IN
        /\ b.policy = "same" => ~crosses
        /\ b.policy = "cross" => crosses

ContractsHold(o, a) ==
    \A b \in o.branches : Inside(o, b) =>
        /\ b.policy = "same" => ~Crosses(b, a)
        /\ b.policy = "cross" => Crosses(b, a)

-----------------------------------------------------------------------------
BranchLimit(r) == IF r.rom /\ r.end > VectorBase THEN VectorBase ELSE r.end

\* Where a layout with branches may start: every hole, and one page's worth of
\* addresses from the high-water mark on.
BranchHoles(r, c, o) ==
    {a \in HoleAddresses(c.holes, o.size) :
        /\ AlignedAt(o, a) /\ PageConstraintsHold(o, a)
        /\ a + o.size <= BranchLimit(r)}

BranchTail(r, c, o) ==
    {a \in c.cur..(c.cur + Page - 1) :
        /\ AlignedAt(o, a) /\ PageConstraintsHold(o, a)
        /\ a + o.size <= BranchLimit(r)}

Crossings(o, a) ==
    Cardinality({b \in o.branches :
                    Inside(o, b) /\ b.policy = "flex" /\ Crosses(b, a)})

Growth(r, c, o, a) ==
    IF a \in BranchHoles(r, c, o) THEN 0 ELSE a + o.size - c.cur

Penalty(o, a) == IF FitsOnePage(a, o.size) THEN 0 ELSE 1

(* branch_placement_score_precedes: among the candidates the slimmest,     *)
(* among those the ones with the fewest crossings, and so on.              *)
Slimmest(r, c, o, S) ==
    {a \in S : Growth(r, c, o, a) = Least({Growth(r, c, o, b) : b \in S})}
Straightest(o, S) ==
    {a \in S : Crossings(o, a) = Least({Crossings(o, b) : b \in S})}
OnOnePage(o, S) ==
    {a \in S : Penalty(o, a) = Least({Penalty(o, b) : b \in S})}

BestOf(r, c, o, S) ==
    Least(OnOnePage(o, Straightest(o, Slimmest(r, c, o, S))))

(***************************************************************************)
(* simulate_alloc_code_branch_aware.  "contracts": no candidate keeps the  *)
(* policies of the branches within the layout; those that leave it have no *)
(* say.  The new mark is stored through a 16-bit cast.                     *)
(***************************************************************************)
SimulateCode(r, c, o) ==
    LET places == BranchHoles(r, c, o) \cup BranchTail(r, c, o)
        good == {a \in places : ContractsHold(o, a)}
    IN  IF o.branches = {} THEN Allocate(r, c, o)
        ELSE IF o.page /\ o.size > Page THEN Refused("impossible", c)
        ELSE IF good = {}
        THEN Refused(IF places = {} THEN "overflow" ELSE "contracts", c)
        ELSE LET a == BestOf(r, c, o, good) IN
             IF a \in BranchHoles(r, c, o)
             THEN Placed(a, [c EXCEPT !.holes = Consume(@, a, o.size)])
             ELSE Placed(a, [cur |-> (a + o.size) % Top,
                             holes |-> c.holes \cup Gap(c.cur, a)])

\* A .same or .cross branch leaves the layout.
OutOfScope(o) == \E b \in o.branches : b.policy # "flex" /\ ~Inside(o, b)

\* Mutant of AllocateCode: it asks no more than the dry run.
AllocateCodeUnscoped(r, c, o) == SimulateCode(r, c, o)

\* alloc_code_branch_aware.
AllocateCode(r, c, o) ==
    IF OutOfScope(o) THEN Refused("scope", c) ELSE SimulateCode(r, c, o)
=============================================================================
