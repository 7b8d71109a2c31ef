-------------------------- MODULE LinkedProgramProofs --------------------------
(***************************************************************************)
(* From the layout of a region to what a running program finds in its      *)
(* RAM, for every program and every region of ordinary memory.             *)
(*                                                                         *)
(* 1. Objects and holes partition what is below the high-water mark, and   *)
(*    every object keeps its contract: an answer of the allocator is sound *)
(*    if it takes a range of one hole or one behind the mark, and behind   *)
(*    the mark the search never returns an address below it (constraints   *)
(*    repeat with the address space, so an admissible address below the    *)
(*    mark has a nearer one above it).                                     *)
(* 2. The probing loop finds the first address that fits, so that a layout *)
(*    of probes is one of RegionLayout (ProbeInv).                         *)
(* 3. The members of a slot are used in different phases, and keep what    *)
(*    they asked for themselves (LinkInv).                                 *)
(* 4. The objects lie in the region, and only members of a slot share      *)
(*    bytes (LaidOut); ROM holds a record of each object that is to be     *)
(*    copied or cleared, each image, and each initializer (Booted).        *)
(* 5. Startup calls the initializers in order (CallInv), fills what the    *)
(*    tables say (WalkInv), and frames keep what is live (LiveInv).        *)
(***************************************************************************)
EXTENDS LinkedProgram, FiniteSetTheorems, WellFoundedInduction, TLAPS

-----------------------------------------------------------------------------
(* Arithmetic. *)

LEMMA ModRange ==
    ASSUME NEW u \in Int, NEW n \in Nat \ {0}
    PROVE  u % n \in 0..(n - 1) /\ u \div n \in Int /\ u = n * (u \div n) + (u % n)
OBVIOUS

LEMMA ModShift ==
    ASSUME NEW u \in Int, NEW n \in Nat \ {0}, NEW k \in Int
    PROVE  (u + n * k) % n = u % n
<1> DEFINE q == u \div n
           r == u % n
           q2 == (u + n * k) \div n
           r2 == (u + n * k) % n
<1>0. n * k \in Int OBVIOUS
<1>1. u = n * q + r /\ r \in 0..(n - 1) /\ q \in Int BY ModRange
<1>2. u + n * k = n * q2 + r2 /\ r2 \in 0..(n - 1) /\ q2 \in Int
  <2>1. u + n * k \in Int BY <1>0
  <2> QED BY <2>1, ModRange
<1> HIDE DEF q, r, q2, r2
<1> DEFINE d == q + k - q2
<1>3. n * d = r2 - r /\ d \in Int BY <1>1, <1>2
<1> HIDE DEF d
<1>4. d = 0
  <2>1. CASE d > 0
    <3>1. n * d >= n BY <2>1, <1>3
    <3> QED BY <3>1, <1>1, <1>2, <1>3
  <2>2. CASE d < 0
    <3>1. n * d <= -n BY <2>2, <1>3
    <3> QED BY <3>1, <1>1, <1>2, <1>3
  <2> QED BY <2>1, <2>2, <1>3
<1>5. r2 = r BY <1>3, <1>4, <1>1, <1>2
<1> QED BY <1>5 DEF r, r2

LEMMA ModSmall ==
    ASSUME NEW n \in Nat \ {0}, NEW u \in 0..(n - 1)
    PROVE  u % n = u
OBVIOUS

\* A divisor of the modulus does not see a step of the modulus.
LEMMA ModOfMultiple ==
    ASSUME NEW u \in Int, NEW n \in Nat \ {0}, NEW t \in Nat, t % n = 0
    PROVE  (u + t) % n = u % n /\ (u - t) % n = u % n
<1>1. t = n * (t \div n) /\ t \div n \in Int BY ModRange
<1> DEFINE k == t \div n
<1>2. (u + n * k) % n = u % n BY <1>1, ModShift
<1>3. (u + n * (-k)) % n = u % n
  <2>1. -k \in Int BY <1>1
  <2> QED BY <2>1, ModShift
<1>4. n * (-k) = -t BY <1>1
<1>5. u + n * (-k) = u - t BY <1>4, <1>1
<1> QED BY <1>1, <1>2, <1>3, <1>5

LEMMA LeastExists ==
    ASSUME NEW S \in SUBSET Nat, S # {}
    PROVE  Least(S) \in S /\ \A v \in S : Least(S) <= v
<1>1. PICK r \in S : \A m \in S : ~ (<<m, r>> \in OpToRel(<, Nat))
  BY NatLessThanWellFounded, WFMin
<1>2. OpToRel(<, Nat) = {ss \in Nat \X Nat : ss[1] < ss[2]} BY Zenon DEF OpToRel
<1>3. \A m \in S : ~ (<<m, r>> \in {ss \in Nat \X Nat : ss[1] < ss[2]})
  BY <1>1, <1>2, Zenon
<1>4. ASSUME NEW m \in S PROVE r <= m
  <2>1. r \in Nat /\ m \in Nat OBVIOUS
  <2>2. ~ (<<m, r>> \in {ss \in Nat \X Nat : ss[1] < ss[2]}) BY <1>3, Zenon
  <2>3. ~ (m < r) BY <2>1, <2>2
  <2> QED BY <2>1, <2>3
<1>5. \E u \in S : \A v \in S : u <= v BY <1>4
<1> QED BY <1>5 DEF Least

-----------------------------------------------------------------------------
(* The search behind the mark. *)

\* Every constraint repeats with the address space.
LEMMA ConstraintsRepeat ==
    ASSUME NEW o \in ShapeType, Top % o.align = 0, NEW a \in Nat, NEW b \in Nat,
           b = a + Top \/ b = a - Top, o.zp => b <= a,
           AlignedAt(o, a), PageConstraintsHold(o, a)
    PROVE  AlignedAt(o, b) /\ PageConstraintsHold(o, b)
<1>0. /\ o.size \in Nat /\ o.align \in Nat \ {0} /\ o.reads \in SUBSET Nat
      /\ o.window[1] \in Nat /\ o.window[2] \in Nat
  BY WidthAssumption DEF ShapeType
<1>1. Top \in Nat \ {0} /\ Page \in Nat \ {0} /\ Top % Page = 0 BY WidthAssumption
<1>2. ASSUME NEW n \in Nat \ {0}, Top % n = 0, NEW d \in Nat
      PROVE  (b + d) % n = (a + d) % n
  <2> DEFINE u == a + d
  <2>1. u \in Int /\ (b + d = u + Top \/ b + d = u - Top) BY <1>1
  <2>2. n \in Nat \ {0} /\ Top \in Nat /\ Top % n = 0 BY <1>1, <1>2
  <2> HIDE DEF u
  <2>3. (u + Top) % n = u % n /\ (u - Top) % n = u % n BY <2>1, <2>2, ModOfMultiple
  <2>4. (b + d) % n = u % n BY <2>1, <2>3
  <2> QED BY <2>4 DEF u
<1>3. b % o.align = a % o.align
  <2>1. (b + 0) % o.align = (a + 0) % o.align
    <3>1. o.align \in Nat \ {0} /\ 0 \in Nat BY <1>0
    <3> QED BY <3>1, <1>2
  <2> QED BY <2>1
<1>4. AlignedAt(o, b) BY <1>3 DEF AlignedAt
<1>5. ASSUME NEW d \in Nat, NEW n \in Nat, FitsOnePage(a + d, n) PROVE FitsOnePage(b + d, n)
  <2>1. (b + d) % Page = (a + d) % Page BY <1>1, <1>2
  <2>2. n <= Page /\ ((a + d) % Page) + n <= Page BY <1>5 DEF FitsOnePage
  <2> QED BY <2>1, <2>2 DEF FitsOnePage
<1>6. o.page => FitsOnePage(b, o.size)
  <2>1. a + 0 = a /\ b + 0 = b BY DEF PageConstraintsHold
  <2>2. FitsOnePage(a + 0, o.size) => FitsOnePage(b + 0, o.size) BY <1>0, <1>5
  <2> QED BY <2>1, <2>2 DEF PageConstraintsHold
<1>7. o.window[2] > 0 => FitsOnePage(b + o.window[1], o.window[2])
  BY <1>0, <1>5 DEF PageConstraintsHold
<1>8. ASSUME NEW d \in o.reads PROVE (b + d) % Top \notin Hazard
  <2>1. d \in Nat BY <1>0
  <2>2. Top % Top = 0 BY <1>1
  <2>3. (b + d) % Top = (a + d) % Top BY <1>1, <1>2, <2>1, <2>2
  <2> QED BY <2>3 DEF PageConstraintsHold
<1>9. o.zp => b + o.size <= Page BY <1>0, <1>1 DEF PageConstraintsHold
<1> QED BY <1>4, <1>6, <1>7, <1>8, <1>9 DEF PageConstraintsHold

LEMMA TailSound ==
    ASSUME NEW r \in RegionType, r.bank = 0, r.end <= Top,
           NEW c \in CursorType, c.cur <= r.end,
           NEW o \in ShapeType, Top % o.align = 0,
           TailFits(r, c, o) # {},
           ~Overflows(r, o, TailAddress(r, c, o))
    PROVE  LET a == TailAddress(r, c, o)
           IN  /\ a \in Nat
               /\ AlignedAt(o, a) /\ PageConstraintsHold(o, a)
               /\ c.cur <= a /\ a + o.size <= r.end
               /\ (a + o.size) % Word = a + o.size
<1> DEFINE S == TailFits(r, c, o)
           a == TailAddress(r, c, o)
<1>1. /\ Word \in Nat /\ Top \in Nat \ {0} /\ 3 * Top <= Word
      /\ c.cur \in Nat /\ r.end \in Nat /\ o.size \in 1..Top
  BY WidthAssumption DEF RegionType, CursorType, ShapeType
<1>2. Word \in Nat \ {0} BY <1>1
<1>3. \A b \in S : b \in 0..(Word - 1) BY DEF TailFits
<1>4. ASSUME NEW b \in 0..(Word - 1)
      PROVE  Ahead(c, b) = IF c.cur <= b THEN b - c.cur ELSE b - c.cur + Word
  <2>1. CASE c.cur <= b
    <3>1. b - c.cur \in 0..(Word - 1) BY <2>1, <1>1
    <3> QED BY <3>1, <2>1, <1>2, ModSmall DEF Ahead
  <2>2. CASE ~(c.cur <= b)
    <3>1. b - c.cur + Word \in 0..(Word - 1) BY <2>2, <1>1
    <3>2. (b - c.cur + Word) % Word = b - c.cur + Word BY <3>1, <1>2, ModSmall
    <3>3. b - c.cur \in Int /\ Word % Word = 0 BY <1>1, <1>2
    <3>4. (b - c.cur + Word) % Word = (b - c.cur) % Word
      BY <3>3, <1>2, ModOfMultiple
    <3> QED BY <3>2, <3>4, <2>2 DEF Ahead
  <2> QED BY <2>1, <2>2
<1>5. a \in S /\ \A b \in S : Ahead(c, a) <= Ahead(c, b)
  <2> DEFINE D == {Ahead(c, b) : b \in S}
  <2>1. D \in SUBSET Nat
    <3>1. ASSUME NEW b \in S PROVE Ahead(c, b) \in Nat
      BY <1>1, <1>3, <1>4
    <3> QED BY <3>1
  <2>5. D # {} OBVIOUS
  <2> HIDE DEF D
  <2>2. Least(D) \in D /\ \A v \in D : Least(D) <= v BY <2>1, <2>5, LeastExists
  <2> USE DEF D
  <2>3. \E b \in S : Ahead(c, b) = Least(D) BY <2>2
  <2>4. a \in S /\ Ahead(c, a) = Least(D) BY <2>3 DEF TailAddress
  <2> QED BY <2>2, <2>4
<1>6. /\ a \in 0..(Word - 1) /\ AlignedAt(o, a) /\ PageConstraintsHold(o, a)
      /\ o.zp => c.cur <= a
  BY <1>5 DEF TailFits, Admissible
<1>7. ASSUME NEW b \in 0..(Word - 1), AlignedAt(o, b), PageConstraintsHold(o, b),
             o.zp => c.cur <= b
      PROVE  b \in S
  BY <1>7 DEF TailFits, Admissible, BankConstraintHolds
<1> HIDE DEF a, S
<1>8. c.cur <= a
  <2> SUFFICES ASSUME a < c.cur PROVE FALSE BY <1>1, <1>6
  <2> DEFINE b == a + Top
  <2>1. b \in 0..(Word - 1) /\ c.cur <= b /\ a \in Nat BY <1>1, <1>6
  <2>2. ~o.zp BY <1>6, <1>1
  <2>3. AlignedAt(o, b) /\ PageConstraintsHold(o, b) BY <2>1, <2>2, <1>6, ConstraintsRepeat
  <2>4. b \in S BY <2>1, <2>2, <2>3, <1>7
  <2>5. Ahead(c, a) = a - c.cur + Word /\ Ahead(c, b) = b - c.cur BY <2>1, <1>1, <1>4, <1>6
  <2> QED BY <2>4, <2>5, <1>5, <1>1, <1>6
<1>9. a < c.cur + Top
  <2> SUFFICES ASSUME a >= c.cur + Top PROVE FALSE BY <1>1, <1>6
  <2> DEFINE b == a - Top
  <2>1. b \in 0..(Word - 1) /\ c.cur <= b /\ a \in Nat /\ b \in Nat /\ b <= a BY <1>1, <1>6
  <2>2. AlignedAt(o, b) /\ PageConstraintsHold(o, b) BY <2>1, <1>6, ConstraintsRepeat
  <2>3. b \in S BY <2>1, <2>2, <1>7
  <2>4. Ahead(c, a) = a - c.cur /\ Ahead(c, b) = b - c.cur BY <2>1, <1>1, <1>4, <1>6, <1>8
  <2> QED BY <2>3, <2>4, <1>5, <1>1, <1>6
<1>10. a + o.size \in 0..(Word - 1) BY <1>1, <1>6, <1>8, <1>9
<1>11. (a + o.size) % Word = a + o.size BY <1>10, <1>2, ModSmall
<1>12. a + o.size <= r.end
  <2>1. ~Overflows(r, o, a) BY DEF a
  <2> QED BY <2>1, <1>11, <1>10, <1>1 DEF Overflows
<1> QED BY <1>6, <1>8, <1>11, <1>12 DEF a

-----------------------------------------------------------------------------
(* What an answer of the allocator may be. *)

FromHole(c, a, n, c2) ==
    /\ \E h \in c.holes : Within(h, a, n)
    /\ c2 = [c EXCEPT !.holes = Consume(c.holes, a, n)]

FromTail(r, c, a, n, c2) ==
    /\ c.cur <= a /\ a + n <= r.end
    /\ c2 = [cur |-> a + n, holes |-> c.holes \cup Gap(c.cur, a)]

Sound(r, c, o, answer) ==
    /\ answer.at \in Nat
    /\ AlignedAt(o, answer.at) /\ PageConstraintsHold(o, answer.at)
    /\ \A b \in o.branches : b.policy # "flex" => Inside(o, b)
    /\ ContractsHold(o, answer.at)
    /\ \/ FromHole(c, answer.at, o.size, answer.cursor)
       \/ FromTail(r, c, answer.at, o.size, answer.cursor)

\* Ordinary memory whose code does not end with the address space.
Ordinary(r) == r.bank = 0 /\ BranchLimit(r) < Top

LEMMA HoleAddressWithin ==
    ASSUME NEW c \in CursorType, NEW n \in Nat, NEW a \in HoleAddresses(c.holes, n)
    PROVE  a \in Nat /\ \E h \in c.holes : Within(h, a, n)
<1>1. PICK h \in c.holes : a \in h.from..(h.to - n) BY DEF HoleAddresses
<1>2. h.from \in Nat /\ h.to \in Nat BY DEF CursorType, Hole
<1>3. a \in Nat /\ Within(h, a, n) BY <1>1, <1>2 DEF Within
<1> QED BY <1>3

LEMMA AllocateSound ==
    ASSUME NEW r \in RegionType, r.bank = 0, r.end <= Top,
           NEW c \in CursorType, c.cur <= r.end,
           NEW o \in ShapeType, Top % o.align = 0, o.branches = {},
           Allocate(r, c, o).answer = "placed"
    PROVE  Sound(r, c, o, Allocate(r, c, o))
<1>1. o.size \in Nat /\ c.cur \in Nat BY WidthAssumption DEF ShapeType, CursorType
<1>2. ContractsHold(o, Allocate(r, c, o).at) BY DEF ContractsHold
<1>3. ~Impossible(r, o) BY DEF Allocate, Refused
<1>4. CASE GoesIntoHole(r, c, o)
  <2> DEFINE a == Least(HoleFits(r, c, o))
  <2>1. HoleFits(r, c, o) # {} /\ HoleFits(r, c, o) \in SUBSET Nat
    BY <1>1, <1>4, HoleAddressWithin DEF GoesIntoHole, HoleFits
  <2> HIDE DEF a
  <2>2. a \in HoleFits(r, c, o) BY <2>1, LeastExists DEF a
  <2>3. /\ a \in HoleAddresses(c.holes, o.size)
        /\ AlignedAt(o, a) /\ PageConstraintsHold(o, a)
    BY <2>2 DEF HoleFits, Admissible
  <2>4. a \in Nat /\ \E h \in c.holes : Within(h, a, o.size)
    BY <1>1, <2>3, HoleAddressWithin
  <2>5. Allocate(r, c, o) = Placed(a, [c EXCEPT !.holes = Consume(@, a, o.size)])
    BY <1>3, <1>4 DEF Allocate, a
  <2> QED BY <1>2, <2>3, <2>4, <2>5 DEF Sound, FromHole, Placed
<1>5. CASE ~GoesIntoHole(r, c, o)
  <2> DEFINE a == TailAddress(r, c, o)
  <2>1. TailFits(r, c, o) # {}
    BY <1>3, <1>5 DEF Allocate, Refused
  <2>2. Allocate(r, c, o) = AtTail(r, c, o, a)
    BY <1>3, <1>5, <2>1 DEF Allocate
  <2>3. ~Overflows(r, o, a) BY <2>2 DEF AtTail, Refused
  <2>4. /\ a \in Nat
        /\ AlignedAt(o, a) /\ PageConstraintsHold(o, a)
        /\ c.cur <= a /\ a + o.size <= r.end
        /\ (a + o.size) % Word = a + o.size
    BY <2>1, <2>3, TailSound
  <2>5. Allocate(r, c, o) = Placed(a, [cur |-> a + o.size, holes |-> c.holes \cup Gap(c.cur, a)])
    BY <2>2, <2>3, <2>4 DEF AtTail
  <2> HIDE DEF a
  <2> QED BY <1>2, <2>4, <2>5 DEF Sound, FromTail, Placed
<1> QED BY <1>4, <1>5

LEMMA BestIsCandidate ==
    ASSUME NEW r \in RegionType, NEW c \in CursorType, NEW o \in ShapeType,
           IsFiniteSet(o.branches), NEW S \in SUBSET Nat, S # {},
           \A a \in S : a \in BranchHoles(r, c, o) \/ c.cur <= a
    PROVE  BestOf(r, c, o, S) \in S
<1>1. c.cur \in Nat /\ o.size \in Nat BY WidthAssumption DEF CursorType, ShapeType
<1> DEFINE S1 == Slimmest(r, c, o, S)
           S2 == Straightest(o, S1)
           S3 == OnOnePage(o, S2)
<1>2. S1 \subseteq S /\ S1 # {}
  <2>1. \A a \in S : Growth(r, c, o, a) \in Nat BY <1>1 DEF Growth
  <2> DEFINE D == {Growth(r, c, o, b) : b \in S}
  <2>2. D \in SUBSET Nat /\ D # {} BY <2>1
  <2> HIDE DEF D
  <2>3. Least(D) \in D BY <2>2, LeastExists
  <2>4. \E a \in S : Growth(r, c, o, a) = Least(D) BY <2>3 DEF D
  <2> QED BY <2>4 DEF Slimmest, D
<1>3. S2 \subseteq S1 /\ S2 # {}
  <2>1. \A a \in S1 : Crossings(o, a) \in Nat
    <3> SUFFICES ASSUME NEW a \in S1 PROVE Crossings(o, a) \in Nat OBVIOUS
    <3> DEFINE B == {b \in o.branches : Inside(o, b) /\ b.policy = "flex" /\ Crosses(b, a)}
    <3>1. IsFiniteSet(B) BY FS_Subset
    <3> HIDE DEF B
    <3>2. Cardinality(B) \in Nat BY <3>1, FS_CardinalityType
    <3> QED BY <3>2 DEF B, Crossings
  <2> HIDE DEF S1
  <2> DEFINE D == {Crossings(o, b) : b \in S1}
  <2>2. D \in SUBSET Nat /\ D # {} BY <1>2, <2>1
  <2> HIDE DEF D
  <2>3. Least(D) \in D BY <2>2, LeastExists
  <2>4. \E a \in S1 : Crossings(o, a) = Least(D) BY <2>3 DEF D
  <2> QED BY <2>4 DEF Straightest, D
<1>4. S3 \subseteq S2 /\ S3 # {}
  <2> HIDE DEF S2
  <2>1. \A a \in S2 : Penalty(o, a) \in Nat BY DEF Penalty
  <2> DEFINE D == {Penalty(o, b) : b \in S2}
  <2>2. D \in SUBSET Nat /\ D # {} BY <1>3, <2>1
  <2> HIDE DEF D
  <2>3. Least(D) \in D BY <2>2, LeastExists
  <2>4. \E a \in S2 : Penalty(o, a) = Least(D) BY <2>3 DEF D
  <2> QED BY <2>4 DEF OnOnePage, D
<1> HIDE DEF S1, S2, S3
<1>5. S3 \in SUBSET Nat /\ S3 \subseteq S BY <1>2, <1>3, <1>4
<1>6. Least(S3) \in S BY <1>4, <1>5, LeastExists
<1> QED BY <1>6 DEF BestOf, S1, S2, S3

LEMMA AllocateCodeSound ==
    ASSUME NEW r \in RegionType, Ordinary(r), r.end <= Top,
           NEW c \in CursorType, c.cur <= r.end,
           NEW o \in ShapeType, Top % o.align = 0, IsFiniteSet(o.branches),
           AllocateCode(r, c, o).answer = "placed"
    PROVE  Sound(r, c, o, AllocateCode(r, c, o))
<1>1. /\ o.size \in Nat /\ c.cur \in Nat /\ r.end \in Nat /\ r.bank = 0
      /\ Page \in Nat \ {0} /\ VectorBase \in Nat /\ Top \in Nat \ {0}
      /\ BranchLimit(r) < Top
  BY WidthAssumption DEF ShapeType, CursorType, RegionType, Ordinary
<1>2. BranchLimit(r) \in Nat /\ BranchLimit(r) <= r.end BY <1>1 DEF BranchLimit
<1>3. CASE o.branches = {}
  <2>1. AllocateCode(r, c, o) = Allocate(r, c, o) BY <1>3 DEF AllocateCode, SimulateCode, OutOfScope
  <2> QED BY <1>1, <1>3, <2>1, AllocateSound
<1>4. CASE o.branches # {}
  <2> DEFINE holes == BranchHoles(r, c, o)
             good == {a \in holes \cup BranchTail(r, c, o) : ContractsHold(o, a)}
             a == BestOf(r, c, o, good)
             answer == AllocateCode(r, c, o)
  <2>1. good # {} /\ \A b \in o.branches : b.policy # "flex" => Inside(o, b)
    BY <1>4 DEF AllocateCode, SimulateCode, OutOfScope, Refused
  <2>2. ~(o.page /\ o.size > Page) BY <1>4, <2>1 DEF AllocateCode, SimulateCode, OutOfScope, Refused
  <2>3. ASSUME NEW u \in holes
        PROVE  u \in Nat /\ \E h \in c.holes : Within(h, u, o.size)
    <3>1. u \in HoleAddresses(c.holes, o.size) BY DEF BranchHoles
    <3> QED BY <3>1, <1>1, HoleAddressWithin
  <2>4. ASSUME NEW u \in BranchTail(r, c, o)
        PROVE  u \in Nat /\ c.cur <= u /\ u + o.size <= BranchLimit(r)
    BY <1>1 DEF BranchTail
  <2>5. good \in SUBSET Nat /\ \A u \in good : u \in holes \/ c.cur <= u
    BY <2>3, <2>4
  <2>6. a \in good
    <3> HIDE DEF good
    <3> QED BY <2>1, <2>5, BestIsCandidate
  <2>7. answer = IF a \in holes
                 THEN Placed(a, [c EXCEPT !.holes = Consume(@, a, o.size)])
                 ELSE Placed(a, [cur |-> (a + o.size) % Top,
                                 holes |-> c.holes \cup Gap(c.cur, a)])
    BY <1>4, <2>1, <2>2 DEF AllocateCode, SimulateCode, OutOfScope
  <2> HIDE DEF a, answer
  <2>8. /\ a \in Nat /\ ContractsHold(o, a)
        /\ AlignedAt(o, a) /\ PageConstraintsHold(o, a)
    BY <2>5, <2>6 DEF BranchHoles, BranchTail
  <2>9. CASE a \in holes
    <3>1. \E h \in c.holes : Within(h, a, o.size) BY <2>3, <2>9
    <3>2. answer.at = a /\ FromHole(c, a, o.size, answer.cursor)
      BY <3>1, <2>7, <2>9 DEF FromHole, Placed
    <3> QED BY <2>1, <2>8, <3>2 DEF Sound, answer
  <2>10. CASE a \notin holes
    <3>1. c.cur <= a /\ a + o.size <= BranchLimit(r) BY <2>4, <2>6, <2>10
    <3>2. a + o.size \in 0..(Top - 1) BY <3>1, <2>8, <1>1, <1>2
    <3>3. (a + o.size) % Top = a + o.size BY <3>2, <1>1, ModSmall
    <3>4. a + o.size <= r.end BY <3>1, <1>1, <1>2, <2>8
    <3>5. answer.at = a /\ FromTail(r, c, a, o.size, answer.cursor)
      BY <3>1, <3>3, <3>4, <2>7, <2>10 DEF FromTail, Placed
    <3> QED BY <2>1, <2>8, <3>5 DEF Sound, answer
  <2> QED BY <2>9, <2>10 DEF answer
<1> QED BY <1>3, <1>4

-----------------------------------------------------------------------------
(* Holes and what is taken from them. *)

ProperHoles(holes) ==
    /\ holes \in SUBSET Hole
    /\ \A h \in holes : h.from < h.to
    /\ \A h, g \in holes : h = g \/ h.to <= g.from \/ g.to <= h.from

ByteOf(holes, u) == \E h \in holes : h.from <= u /\ u < h.to

LEMMA GapIs ==
    ASSUME NEW from \in Nat, NEW to \in Nat, NEW h \in Gap(from, to)
    PROVE  h \in Hole /\ h.from = from /\ h.to = to /\ from < to
BY DEF Gap, Hole

LEMMA ConsumeKeeps ==
    ASSUME NEW holes, ProperHoles(holes), NEW a \in Nat, NEW n \in Nat \ {0},
           \E h \in holes : Within(h, a, n)
    PROVE  /\ ProperHoles(Consume(holes, a, n))
           /\ \A g \in Consume(holes, a, n) :
                 /\ \E h \in holes : h.from <= g.from /\ g.to <= h.to
                 /\ g.to <= a \/ a + n <= g.from
           /\ \A u \in Nat : ByteOf(holes, u) <=>
                 ByteOf(Consume(holes, a, n), u) \/ (a <= u /\ u < a + n)
<1> DEFINE C == Consume(holes, a, n)
           From(g, h) == \/ ~Within(h, a, n) /\ g = h
                         \/ Within(h, a, n) /\ g \in Gap(h.from, a)
                         \/ Within(h, a, n) /\ g \in Gap(a + n, h.to)
<1>1. \A h \in holes : h.from \in Nat /\ h.to \in Nat /\ h.from < h.to /\ h \in Hole
  BY DEF ProperHoles, Hole
<1>2. \A g : g \in C <=> \E h \in holes : From(g, h) BY DEF Consume
<1>3. ASSUME NEW g, NEW h \in holes, From(g, h)
      PROVE  /\ g \in Hole /\ g.from \in Nat /\ g.to \in Nat /\ g.from < g.to
             /\ h.from <= g.from /\ g.to <= h.to
             /\ Within(h, a, n) => g.to <= a \/ a + n <= g.from
  <2>1. CASE ~Within(h, a, n) /\ g = h BY <2>1, <1>1
  <2>2. CASE Within(h, a, n) /\ g \in Gap(h.from, a)
    <3>1. g \in Hole /\ g.from = h.from /\ g.to = a /\ h.from < a BY <2>2, <1>1, GapIs
    <3> QED BY <3>1, <2>2, <1>1 DEF Within
  <2>3. CASE Within(h, a, n) /\ g \in Gap(a + n, h.to)
    <3>1. g \in Hole /\ g.from = a + n /\ g.to = h.to /\ a + n < h.to BY <2>3, <1>1, GapIs
    <3> QED BY <3>1, <2>3, <1>1 DEF Within
  <2> QED BY <1>3, <2>1, <2>2, <2>3
<1>4. ASSUME NEW g1, NEW g2, NEW h \in holes, From(g1, h), From(g2, h)
      PROVE  g1 = g2 \/ g1.to <= g2.from \/ g2.to <= g1.from
  <2>1. CASE ~Within(h, a, n) BY <2>1, <1>4
  <2>2. CASE Within(h, a, n)
    <3>1. \A g : g \in Gap(h.from, a) => g = [from |-> h.from, to |-> a] BY DEF Gap
    <3>2. \A g : g \in Gap(a + n, h.to) => g = [from |-> a + n, to |-> h.to] BY DEF Gap
    <3> QED BY <3>1, <3>2, <2>2, <1>4, <1>1
  <2> QED BY <2>1, <2>2
<1>5. PICK h0 \in holes : Within(h0, a, n) OBVIOUS
<1>6. ASSUME NEW h \in holes, h # h0 PROVE h.to <= a \/ a + n <= h.from
  <2>1. h.to <= h0.from \/ h0.to <= h.from BY <1>6, <1>5 DEF ProperHoles
  <2> QED BY <2>1, <1>5, <1>1 DEF Within
<1> HIDE DEF From
<1>7. ASSUME NEW g \in C
      PROVE  /\ \E h \in holes : h.from <= g.from /\ g.to <= h.to
             /\ g.to <= a \/ a + n <= g.from
  <2>1. PICK h \in holes : From(g, h) BY <1>2
  <2>2. CASE h = h0 BY <2>1, <2>2, <1>3, <1>5
  <2>3. CASE h # h0
    <3>1. h.to <= a \/ a + n <= h.from BY <2>3, <1>6
    <3> QED BY <3>1, <2>1, <1>3, <1>1
  <2> QED BY <2>2, <2>3
<1>8. ProperHoles(C)
  <2>1. C \in SUBSET Hole /\ \A g \in C : g.from < g.to BY <1>2, <1>3
  <2>2. ASSUME NEW g1 \in C, NEW g2 \in C
        PROVE  g1 = g2 \/ g1.to <= g2.from \/ g2.to <= g1.from
    <3>1. PICK h1 \in holes : From(g1, h1) BY <1>2
    <3>2. PICK h2 \in holes : From(g2, h2) BY <1>2
    <3>3. CASE h1 = h2 BY <3>1, <3>2, <3>3, <1>4
    <3>4. CASE h1 # h2
      <4>1. h1.to <= h2.from \/ h2.to <= h1.from BY <3>4 DEF ProperHoles
      <4>2. /\ h1.from <= g1.from /\ g1.to <= h1.to /\ g1.from \in Nat /\ g1.to \in Nat
            /\ h2.from <= g2.from /\ g2.to <= h2.to /\ g2.from \in Nat /\ g2.to \in Nat
        BY <3>1, <3>2, <1>3
      <4> QED BY <4>1, <4>2, <1>1
    <3> QED BY <3>3, <3>4
  <2> QED BY <2>1, <2>2 DEF ProperHoles
<1>9. ASSUME NEW u \in Nat
      PROVE  ByteOf(holes, u) <=> ByteOf(C, u) \/ (a <= u /\ u < a + n)
  <2>1. ASSUME ByteOf(holes, u), ~(a <= u /\ u < a + n) PROVE ByteOf(C, u)
    <3>1. PICK h \in holes : h.from <= u /\ u < h.to BY <2>1 DEF ByteOf
    <3>2. CASE ~Within(h, a, n)
      <4>1. h \in C BY <3>2, <1>2 DEF From
      <4> QED BY <3>1, <4>1 DEF ByteOf
    <3>3. CASE Within(h, a, n) /\ u < a
      <4> DEFINE g == [from |-> h.from, to |-> a]
      <4>1. g \in Gap(h.from, a) BY <3>1, <3>3, <1>1 DEF Gap
      <4>2. g \in C BY <4>1, <3>3, <1>2 DEF From
      <4>3. g.from <= u /\ u < g.to BY <3>1, <3>3
      <4> QED BY <4>2, <4>3 DEF ByteOf
    <3>4. CASE Within(h, a, n) /\ a + n <= u
      <4> DEFINE g == [from |-> a + n, to |-> h.to]
      <4>1. g \in Gap(a + n, h.to) BY <3>1, <3>4, <1>1 DEF Gap
      <4>2. g \in C BY <4>1, <3>4, <1>2 DEF From
      <4>3. g.from <= u /\ u < g.to BY <3>1, <3>4
      <4> QED BY <4>2, <4>3 DEF ByteOf
    <3> QED BY <2>1, <3>2, <3>3, <3>4
  <2>2. ASSUME ByteOf(C, u) PROVE ByteOf(holes, u)
    <3>1. PICK g \in C : g.from <= u /\ u < g.to BY <2>2 DEF ByteOf
    <3>2. PICK h \in holes : From(g, h) BY <1>2
    <3>3. /\ h.from <= g.from /\ g.to <= h.to /\ g.from \in Nat /\ g.to \in Nat
      BY <3>2, <1>3
    <3>4. h.from <= u /\ u < h.to BY <3>1, <3>3, <1>1
    <3> QED BY <3>4 DEF ByteOf
  <2>3. ASSUME a <= u /\ u < a + n PROVE ByteOf(holes, u)
    <3>1. h0.from <= u /\ u < h0.to BY <2>3, <1>5, <1>1 DEF Within
    <3> QED BY <3>1 DEF ByteOf
  <2> QED BY <2>1, <2>2, <2>3
<1> QED BY <1>7, <1>8, <1>9

\* The bytes an answer gives away were in a hole or behind the mark.
LEMMA AnswerKeeps ==
    ASSUME NEW r \in RegionType, NEW c \in CursorType, NEW c2,
           ProperHoles(c.holes), r.start <= c.cur, c.cur <= r.end,
           \A h \in c.holes : r.start <= h.from /\ h.to <= c.cur,
           NEW a \in Nat, NEW n \in Nat \ {0},
           FromHole(c, a, n, c2) \/ FromTail(r, c, a, n, c2)
    PROVE  /\ c2 \in CursorType /\ ProperHoles(c2.holes)
           /\ c.cur <= c2.cur /\ c2.cur <= r.end
           /\ r.start <= a /\ a + n <= c2.cur
           /\ \A h \in c2.holes :
                 /\ r.start <= h.from /\ h.to <= c2.cur
                 /\ h.to <= a \/ a + n <= h.from
                 /\ \/ \E g \in c.holes : g.from <= h.from /\ h.to <= g.to
                    \/ c.cur <= h.from
           /\ (\E h \in c.holes : Within(h, a, n)) \/ c.cur <= a
           /\ \A u \in Nat : ByteOf(c2.holes, u) \/ (a <= u /\ u < a + n)
                 <=> ByteOf(c.holes, u) \/ (c.cur <= u /\ u < c2.cur)
<1>1. /\ c.cur \in Nat /\ r.start \in Nat /\ r.end \in Nat /\ c.holes \in SUBSET Hole
      /\ \A h \in c.holes : h.from \in Nat /\ h.to \in Nat /\ h.from < h.to
  BY DEF CursorType, RegionType, ProperHoles, Hole
<1>2. CASE FromHole(c, a, n, c2)
  <2>1. PICK h0 \in c.holes : Within(h0, a, n) BY <1>2 DEF FromHole
  <2>2. c2 \in CursorType /\ c2.cur = c.cur /\ c2.holes = Consume(c.holes, a, n)
        /\ ProperHoles(c2.holes)
    <3>1. c2 = [cur |-> c.cur, holes |-> Consume(c.holes, a, n)]
      BY <1>2 DEF FromHole, CursorType
    <3>2. ProperHoles(Consume(c.holes, a, n)) BY <2>1, ConsumeKeeps
    <3> QED BY <3>1, <3>2, <1>1 DEF CursorType, ProperHoles
  <2>3. \A g \in c2.holes :
            /\ \E h \in c.holes : h.from <= g.from /\ g.to <= h.to
            /\ g.to <= a \/ a + n <= g.from
    BY <2>1, <2>2, ConsumeKeeps
  <2>4. \A u \in Nat : ByteOf(c.holes, u) <=>
                 ByteOf(c2.holes, u) \/ (a <= u /\ u < a + n)
    BY <2>1, <2>2, ConsumeKeeps
  <2>5. r.start <= a /\ a + n <= c2.cur BY <2>1, <2>2, <1>1 DEF Within
  <2>6. \A g \in c2.holes : r.start <= g.from /\ g.to <= c2.cur
    <3> SUFFICES ASSUME NEW g \in c2.holes PROVE r.start <= g.from /\ g.to <= c2.cur
      OBVIOUS
    <3>1. g.from \in Nat /\ g.to \in Nat BY <2>2 DEF CursorType, Hole
    <3>2. \E h \in c.holes : h.from <= g.from /\ g.to <= h.to BY <2>3, Zenon
    <3>3. PICK h \in c.holes : h.from <= g.from /\ g.to <= h.to BY <3>2
    <3> QED BY <3>1, <3>3, <2>2, <1>1
  <2>7. \A u \in Nat : ~(c.cur <= u /\ u < c2.cur) BY <2>2, <1>1
  <2>8. c.cur <= c2.cur BY <2>2, <1>1
  <2>9. c2.cur <= r.end BY <2>2
  <2>10. ASSUME NEW h \in c2.holes
         PROVE  /\ r.start <= h.from /\ h.to <= c2.cur
                /\ h.to <= a \/ a + n <= h.from
                /\ \/ \E g \in c.holes : g.from <= h.from /\ h.to <= g.to
                   \/ c.cur <= h.from
    BY <2>3, <2>6, Zenon
  <2>11. \A u \in Nat : ByteOf(c2.holes, u) \/ (a <= u /\ u < a + n)
                 <=> ByteOf(c.holes, u) \/ (c.cur <= u /\ u < c2.cur)
    BY <2>4, <2>7, Zenon
  <2> QED BY <2>1, <2>2, <2>5, <2>8, <2>9, <2>10, <2>11, Zenon
<1>3. CASE FromTail(r, c, a, n, c2)
  <2>1. /\ c.cur <= a /\ a + n <= r.end
        /\ c2.cur = a + n /\ c2.holes = c.holes \cup Gap(c.cur, a)
    BY <1>3 DEF FromTail
  <2>2. \A g \in Gap(c.cur, a) : g \in Hole /\ g.from = c.cur /\ g.to = a /\ c.cur < a
    BY <1>1, GapIs
  <2>3. Gap(c.cur, a) = IF c.cur < a THEN {[from |-> c.cur, to |-> a]} ELSE {} BY DEF Gap
  <2>4. c2 \in CursorType
    <3>1. c2 = [cur |-> a + n, holes |-> c.holes \cup Gap(c.cur, a)] BY <1>3 DEF FromTail
    <3>2. c.holes \cup Gap(c.cur, a) \in SUBSET Hole BY <1>1, <2>2
    <3> QED BY <3>1, <3>2 DEF CursorType
  <2>5. ProperHoles(c2.holes)
    <3>1. c2.holes \in SUBSET Hole /\ \A h \in c2.holes : h.from < h.to
      BY <1>1, <2>1, <2>2
    <3>2. ASSUME NEW h \in c2.holes, NEW g \in c2.holes
          PROVE  h = g \/ h.to <= g.from \/ g.to <= h.from
      <4>1. CASE h \in c.holes /\ g \in c.holes BY <4>1 DEF ProperHoles
      <4>2. CASE h \in c.holes /\ g \in Gap(c.cur, a) BY <4>2, <2>2
      <4>3. CASE h \in Gap(c.cur, a) /\ g \in c.holes BY <4>3, <2>2
      <4>4. CASE h \in Gap(c.cur, a) /\ g \in Gap(c.cur, a) BY <4>4, <2>3
      <4> QED BY <4>1, <4>2, <4>3, <4>4, <2>1
    <3> QED BY <3>1, <3>2 DEF ProperHoles
  <2>6. ASSUME NEW h \in c2.holes
        PROVE  /\ r.start <= h.from /\ h.to <= c2.cur
               /\ h.to <= a \/ a + n <= h.from
               /\ \/ \E g \in c.holes : g.from <= h.from /\ h.to <= g.to
                  \/ c.cur <= h.from
    <3>1. CASE h \in c.holes
      <4>1. h.from \in Nat /\ h.to \in Nat /\ r.start <= h.from /\ h.to <= c.cur
        BY <3>1, <1>1
      <4>2. h.to <= a /\ h.to <= c2.cur BY <4>1, <2>1, <1>1
      <4>3. h.from <= h.from /\ h.to <= h.to BY <4>1
      <4> QED BY <3>1, <4>1, <4>2, <4>3
    <3>2. CASE h \in Gap(c.cur, a)
      <4>1. h.from = c.cur /\ h.to = a BY <3>2, <2>2
      <4> QED BY <4>1, <2>1, <1>1
    <3> QED BY <3>1, <3>2, <2>1
  <2>7. ASSUME NEW u \in Nat
        PROVE  ByteOf(c2.holes, u) \/ (a <= u /\ u < a + n)
                 <=> ByteOf(c.holes, u) \/ (c.cur <= u /\ u < c2.cur)
    <3>1. ByteOf(c2.holes, u) <=> ByteOf(c.holes, u) \/ ByteOf(Gap(c.cur, a), u)
      BY <2>1 DEF ByteOf
    <3>2. ByteOf(Gap(c.cur, a), u) <=> c.cur <= u /\ u < a
      <4>1. CASE c.cur < a
        <5> DEFINE h == [from |-> c.cur, to |-> a]
        <5>1. Gap(c.cur, a) = {h} /\ h.from = c.cur /\ h.to = a BY <4>1, <2>3
        <5> HIDE DEF h
        <5> QED BY <5>1 DEF ByteOf
      <4>2. CASE ~(c.cur < a)
        <5>1. Gap(c.cur, a) = {} BY <4>2, <2>3
        <5> QED BY <5>1, <4>2, <1>1 DEF ByteOf
      <4> QED BY <4>1, <4>2
    <3>3. (c.cur <= u /\ u < a) \/ (a <= u /\ u < a + n) <=> c.cur <= u /\ u < c2.cur
      BY <2>1, <1>1
    <3> QED BY <3>1, <3>2, <3>3
  <2>8. c.cur <= c2.cur /\ r.start <= a BY <2>1, <1>1
  <2>9. c2.cur <= r.end /\ a + n <= c2.cur BY <2>1, <1>1
  <2> QED BY <2>1, <2>4, <2>5, <2>6, <2>7, <2>8, <2>9, Zenon
<1> QED BY <1>2, <1>3, Zenon

-----------------------------------------------------------------------------
(* What the constraints mean at the address an object got. *)

LEMMA SamePage ==
    ASSUME NEW u \in Nat, NEW n \in Nat \ {0}, FitsOnePage(u, n)
    PROVE  u \div Page = (u + n - 1) \div Page
<1> DEFINE v == u + n - 1
           d == u \div Page
           e == v \div Page
           m == u % Page
           k == v % Page
<1>1. Page \in Nat \ {0} /\ u \in Int /\ v \in Int BY WidthAssumption
<1>2. u = Page * d + m /\ m \in 0..(Page - 1) /\ d \in Int BY <1>1, ModRange
<1>3. v = Page * e + k /\ k \in 0..(Page - 1) /\ e \in Int BY <1>1, ModRange
<1>4. m + n <= Page BY DEF FitsOnePage
<1> HIDE DEF d, e, m, k
<1>5. v = Page * d + (m + n - 1) /\ m + n - 1 \in 0..(Page - 1) BY <1>1, <1>2, <1>4
<1> DEFINE z == d - e
<1>6. Page * z = k - (m + n - 1) /\ z \in Int BY <1>1, <1>2, <1>3, <1>5
<1> HIDE DEF z
<1>7. z = 0
  <2>1. CASE z > 0
    <3>1. Page * z >= Page BY <2>1, <1>1, <1>6
    <3> QED BY <3>1, <1>1, <1>3, <1>5, <1>6
  <2>2. CASE z < 0
    <3>1. Page * z <= -Page BY <2>2, <1>1, <1>6
    <3> QED BY <3>1, <1>1, <1>3, <1>5, <1>6
  <2> QED BY <2>1, <2>2, <1>6
<1>8. d = e BY <1>2, <1>3, <1>7 DEF z
<1> QED BY <1>8 DEF d, e

LEMMA SoundIsKept ==
    ASSUME NEW r, NEW c, NEW s \in ShapeType, s.phase < s.align,
           NEW answer, Sound(r, c, s, answer)
    PROVE  Kept(s, answer.at)
<1> DEFINE a == answer.at
<1>1. /\ a \in Nat /\ AlignedAt(s, a) /\ PageConstraintsHold(s, a)
      /\ \A b \in s.branches : b.policy # "flex" => Inside(s, b)
      /\ ContractsHold(s, a)
  BY DEF Sound
<1> HIDE DEF a
<1>2. /\ s.size \in Nat \ {0} /\ s.align \in Nat \ {0} /\ s.phase \in Nat
      /\ s.reads \in SUBSET Nat /\ s.branches \in SUBSET Branch
      /\ s.window[1] \in Nat /\ s.window[2] \in Nat
  BY WidthAssumption DEF ShapeType
<1>3. a % s.align = s.phase
  <2>1. CASE s.align = 1
    <3>1. s.phase = 0 BY <2>1, <1>2
    <3>2. a % 1 = 0 BY <1>1
    <3> QED BY <2>1, <3>1, <3>2
  <2>2. CASE s.align # 1 BY <2>2, <1>1 DEF AlignedAt
  <2> QED BY <2>1, <2>2
<1>4. s.page => a \div Page = (a + s.size - 1) \div Page
  BY <1>1, <1>2, SamePage DEF PageConstraintsHold
<1>5. s.window[2] > 0 =>
          (a + s.window[1]) \div Page = (a + s.window[1] + s.window[2] - 1) \div Page
  <2> SUFFICES ASSUME s.window[2] > 0
      PROVE (a + s.window[1]) \div Page = (a + s.window[1] + s.window[2] - 1) \div Page
    OBVIOUS
  <2>1. FitsOnePage(a + s.window[1], s.window[2]) BY <1>1 DEF PageConstraintsHold
  <2>2. a + s.window[1] \in Nat /\ s.window[2] \in Nat \ {0} BY <1>1, <1>2
  <2> QED BY <2>1, <2>2, SamePage
<1>6. ASSUME NEW d \in s.reads PROVE a + d \notin Hazard
  <2> SUFFICES ASSUME a + d \in Hazard PROVE FALSE OBVIOUS
  <2>1. a + d \in 0..(Top - 1) /\ Top \in Nat \ {0} BY WidthAssumption
  <2>2. (a + d) % Top = a + d BY <2>1, ModSmall
  <2> QED BY <2>2, <1>1 DEF PageConstraintsHold
<1>7. ASSUME NEW b \in s.branches, b.policy # "flex"
      PROVE  /\ b.target < s.size
             /\ b.policy = "same" <=>
                   (a + b.source + 2) \div Page = (a + b.target) \div Page
  <2>1. b.target \in Nat /\ b.policy \in {"same", "cross"} BY <1>2, <1>7 DEF Branch
  <2>2. Inside(s, b) BY <1>1, <1>7
  <2>3. b.policy = "same" <=> ~Crosses(b, a) BY <1>1, <2>1, <2>2 DEF ContractsHold
  <2> QED BY <2>1, <2>2, <2>3, <1>1, <1>2 DEF Inside, Crosses
<1>8. s.zp => a + s.size <= Page BY <1>1 DEF PageConstraintsHold
<1> QED BY <1>3, <1>4, <1>5, <1>6, <1>7, <1>8 DEF Kept, a

-----------------------------------------------------------------------------
(* The invariant. *)

\* Below the mark every byte is in an object or in a hole.
Covered ==
    \A u \in Nat :
        ByteOf(cursor.holes, u) \/ (\E p \in DOMAIN at : at[p] <= u /\ u < EndOf(p))
            <=> Region.start <= u /\ u < cursor.cur

RegionInv ==
    /\ problem \in Problem
    /\ Ordinary(Region) => /\ RegionTypeOK /\ RegionPartitioned
                           /\ Covered /\ ContractsKept

LEMMA ProblemFacts ==
    ASSUME NEW q \in Problem, Ordinary(q.region)
    PROVE  /\ q.region \in RegionType /\ q.region.end <= Top
           /\ q.region.start \in Nat /\ q.region.end \in Nat
           /\ q.region.start < q.region.end
           /\ \A o \in DOMAIN q.shape :
                 /\ q.shape[o] \in ShapeType
                 /\ q.shape[o].size \in Nat \ {0}
                 /\ Top % q.shape[o].align = 0
                 /\ q.shape[o].phase < q.shape[o].align
                 /\ IsFiniteSet(q.shape[o].branches)
<1>1. \A s \in ShapeType : s.size \in Nat \ {0} BY WidthAssumption DEF ShapeType
<1> QED BY <1>1, ProblemAssumption DEF Ordinary, RegionType

LEMMA InitRegionInv == RegionInit => RegionInv
<1> SUFFICES ASSUME RegionInit, Ordinary(Region) PROVE RegionInv
  BY DEF RegionInit, RegionInv
<1>1. /\ problem \in Problem /\ cursor.cur = Region.start /\ cursor.holes = {}
      /\ DOMAIN at = {} /\ verdict = "linking"
      /\ cursor = [cur |-> Region.start, holes |-> {}]
  BY DEF RegionInit, Region
<1>2. Region.start \in Nat /\ Region.end \in Nat /\ Region.start < Region.end
  BY <1>1, ProblemFacts DEF Region
<1>3. RegionTypeOK BY <1>1, <1>2 DEF RegionTypeOK, CursorType
<1>4. RegionPartitioned
  BY <1>1, <1>2 DEF RegionPartitioned, HolesApart, ObjectsApart, HolesAreFree
<1>5. Covered BY <1>1, <1>2 DEF Covered, ByteOf
<1> QED BY <1>1, <1>3, <1>4, <1>5 DEF RegionInv, ContractsKept

LEMMA PlaceKeeps ==
    ASSUME RegionInv, NEW o \in Object, Place(o)
    PROVE  RegionInv'
<1> SUFFICES ASSUME Ordinary(Region)'
    PROVE  (RegionTypeOK /\ RegionPartitioned /\ Covered /\ ContractsKept)'
  BY DEF RegionInv, Place, Accept
<1> DEFINE r == problem.region
           s == problem.shape[o]
           c == cursor
           a == Answer(o).at
           c2 == Answer(o).cursor
           n == s.size
<1>1. /\ problem' = problem /\ verdict' = verdict /\ verdict = "linking"
      /\ cursor' = c2 /\ o \notin DOMAIN at /\ o \in DOMAIN problem.shape
      /\ at' = [p \in DOMAIN at \cup {o} |-> IF p = o THEN a ELSE at[p]]
      /\ Answer(o).answer = "placed"
  BY DEF Place, Accept, Object
<1>2. Ordinary(r) /\ problem \in Problem BY <1>1 DEF Region, RegionInv
<1>3. RegionTypeOK /\ RegionPartitioned /\ Covered /\ ContractsKept
  BY <1>2 DEF RegionInv, Region
<1>4. /\ r \in RegionType /\ r.end <= Top /\ r.start \in Nat /\ r.end \in Nat /\ r.bank = 0
      /\ s \in ShapeType /\ n \in Nat \ {0} /\ Top % s.align = 0 /\ s.phase < s.align
      /\ IsFiniteSet(s.branches)
  BY <1>1, <1>2, ProblemFacts DEF Ordinary
<1>5. /\ c \in CursorType /\ c.cur \in Nat /\ r.start <= c.cur /\ c.cur <= r.end
      /\ ProperHoles(c.holes) /\ \A h \in c.holes : r.start <= h.from /\ h.to <= c.cur
  BY <1>3, <1>4 DEF RegionTypeOK, RegionPartitioned, HolesApart, ProperHoles, CursorType, Region
<1>6. \A p \in DOMAIN at : /\ at[p] \in Nat /\ r.start <= at[p]
                           /\ at[p] + problem.shape[p].size <= c.cur
                           /\ problem.shape[p].size \in Nat \ {0}
  <2>1. \A p \in DOMAIN at : p \in DOMAIN problem.shape /\ at[p] \in r.start..r.end
    BY <1>3 DEF RegionTypeOK, Object, Region
  <2>2. \A p \in DOMAIN problem.shape : problem.shape[p].size \in Nat \ {0}
    BY <1>2, ProblemFacts
  <2>3. \A p \in DOMAIN at : at[p] + problem.shape[p].size <= c.cur
    BY <1>3 DEF RegionPartitioned, ObjectsApart, EndOf, Shape
  <2> QED BY <2>1, <2>2, <2>3, <1>4
<1>7. Sound(r, c, s, Answer(o))
  <2>1. Answer(o) = AllocateCode(r, c, s) BY <1>4 DEF Answer, Region, Shape
  <2>2. AllocateCode(r, c, s).answer = "placed" BY <1>1, <2>1
  <2> QED BY <2>1, <2>2, <1>2, <1>4, <1>5, AllocateCodeSound
<1>8. a \in Nat /\ (FromHole(c, a, n, c2) \/ FromTail(r, c, a, n, c2))
  BY <1>7 DEF Sound
<1>9. Kept(s, a) BY <1>4, <1>7, SoundIsKept
<1> HIDE DEF a, c2, r, s, c, n
<1>10. /\ c2 \in CursorType /\ ProperHoles(c2.holes)
       /\ c.cur <= c2.cur /\ c2.cur <= r.end
       /\ r.start <= a /\ a + n <= c2.cur
       /\ \A h \in c2.holes :
             /\ r.start <= h.from /\ h.to <= c2.cur
             /\ h.to <= a \/ a + n <= h.from
             /\ \/ \E g \in c.holes : g.from <= h.from /\ h.to <= g.to
                \/ c.cur <= h.from
       /\ (\E h \in c.holes : Within(h, a, n)) \/ c.cur <= a
       /\ \A u \in Nat : ByteOf(c2.holes, u) \/ (a <= u /\ u < a + n)
             <=> ByteOf(c.holes, u) \/ (c.cur <= u /\ u < c2.cur)
  BY <1>4, <1>5, <1>8, AnswerKeeps
<1>11. /\ c2.cur \in Nat /\ c2.holes \in SUBSET Hole
       /\ \A h \in c2.holes : h.from \in Nat /\ h.to \in Nat /\ h.from < h.to
       /\ \A h \in c.holes : h.from \in Nat /\ h.to \in Nat /\ h.from < h.to
  BY <1>5, <1>10 DEF CursorType, ProperHoles, Hole
<1> DEFINE end(p) == at[p] + problem.shape[p].size
<1>12. /\ DOMAIN at' = DOMAIN at \cup {o} /\ at'[o] = a
       /\ \A p \in DOMAIN at : at'[p] = at[p] /\ p # o
       /\ EndOf(o)' = a + n /\ \A p \in DOMAIN at : EndOf(p)' = end(p) /\ EndOf(p) = end(p)
       /\ Region' = r /\ Region = r /\ cursor' = c2 /\ cursor = c
       /\ Shape(o)' = s /\ \A p : Shape(p)' = Shape(p) /\ Shape(p) = problem.shape[p]
  BY <1>1 DEF EndOf, Shape, Region, r, s, n, c
<1>13. ASSUME NEW h \in c.holes, NEW p \in DOMAIN at PROVE end(p) <= h.from \/ h.to <= at[p]
  BY <1>3, <1>12 DEF RegionPartitioned, HolesAreFree
<1>14. ASSUME NEW p \in DOMAIN at PROVE end(p) <= a \/ a + n <= at[p]
  <2>1. CASE c.cur <= a BY <2>1, <1>6, <1>8, <1>5
  <2>2. CASE \E h \in c.holes : Within(h, a, n)
    <3>1. PICK h \in c.holes : Within(h, a, n) BY <2>2
    <3>2. end(p) <= h.from \/ h.to <= at[p] BY <1>13
    <3> QED BY <3>1, <3>2, <1>6, <1>8, <1>11, <1>4 DEF Within
  <2> QED BY <2>1, <2>2, <1>10
<1>15. ASSUME NEW p \in DOMAIN at, NEW h \in c2.holes
       PROVE  end(p) <= h.from \/ h.to <= at[p]
  <2>1. CASE c.cur <= h.from BY <2>1, <1>6, <1>11, <1>5
  <2>2. CASE \E g \in c.holes : g.from <= h.from /\ h.to <= g.to
    <3>1. PICK g \in c.holes : g.from <= h.from /\ h.to <= g.to BY <2>2
    <3>2. end(p) <= g.from \/ g.to <= at[p] BY <1>13
    <3> QED BY <3>1, <3>2, <1>6, <1>11
  <2> QED BY <2>1, <2>2, <1>10
<1>16. RegionTypeOK'
  <2>1. c2.cur \in r.start..r.end BY <1>4, <1>5, <1>10, <1>11
  <2>2. a \in r.start..r.end BY <1>4, <1>8, <1>10, <1>11
  <2>3. \A p \in DOMAIN at : at[p] \in r.start..r.end
    BY <1>3, <1>12 DEF RegionTypeOK
  <2>4. DOMAIN at \subseteq Object /\ Object' = Object
    BY <1>1, <1>3 DEF RegionTypeOK, Object
  <2>5. \A p \in DOMAIN at' : at'[p] \in r.start..r.end BY <2>2, <2>3, <1>12
  <2> QED BY <1>1, <1>2, <1>10, <1>11, <1>12, <2>1, <2>4, <2>5 DEF RegionTypeOK
<1>17. HolesApart' BY <1>10, <1>12 DEF HolesApart, ProperHoles
<1>18. ObjectsApart'
  <2>1. \A p \in DOMAIN at' : r.start <= at'[p] /\ EndOf(p)' <= c2.cur
    <3>1. \A p \in DOMAIN at : r.start <= at[p] /\ end(p) <= c2.cur
      BY <1>6, <1>10, <1>11, <1>5
    <3> QED BY <3>1, <1>10, <1>12
  <2>2. \A p, q \in DOMAIN at : p = q \/ end(p) <= at[q] \/ end(q) <= at[p]
    BY <1>3, <1>12 DEF RegionPartitioned, ObjectsApart
  <2>3. ASSUME NEW p \in DOMAIN at', NEW q \in DOMAIN at'
        PROVE  p = q \/ EndOf(p)' <= at'[q] \/ EndOf(q)' <= at'[p]
    <3>1. CASE p \in DOMAIN at /\ q \in DOMAIN at BY <3>1, <2>2, <1>12
    <3>2. CASE p = o /\ q \in DOMAIN at BY <3>2, <1>14, <1>12
    <3>3. CASE p \in DOMAIN at /\ q = o BY <3>3, <1>14, <1>12
    <3> QED BY <3>1, <3>2, <3>3, <1>12
  <2> QED BY <2>1, <2>3, <1>10, <1>12 DEF ObjectsApart
<1>19. HolesAreFree'
  <2> SUFFICES ASSUME NEW p \in DOMAIN at', NEW h \in c2.holes
      PROVE EndOf(p)' <= h.from \/ h.to <= at'[p]
    BY <1>12 DEF HolesAreFree
  <2>1. CASE p \in DOMAIN at BY <2>1, <1>15, <1>12
  <2>2. CASE p = o BY <2>2, <1>10, <1>12
  <2> QED BY <2>1, <2>2, <1>12
<1>20. Covered'
  <2> SUFFICES ASSUME NEW u \in Nat
      PROVE  ByteOf(c2.holes, u) \/ (\E p \in DOMAIN at' : at'[p] <= u /\ u < EndOf(p)')
                <=> r.start <= u /\ u < c2.cur
    BY <1>12 DEF Covered
  <2> DEFINE old == \E p \in DOMAIN at : at[p] <= u /\ u < end(p)
  <2>1. (\E p \in DOMAIN at' : at'[p] <= u /\ u < EndOf(p)')
           <=> old \/ (a <= u /\ u < a + n)
    BY <1>12
  <2>2. ByteOf(c.holes, u) \/ old <=> r.start <= u /\ u < c.cur
    BY <1>3, <1>12 DEF Covered
  <2>3. ByteOf(c2.holes, u) \/ (a <= u /\ u < a + n)
           <=> ByteOf(c.holes, u) \/ (c.cur <= u /\ u < c2.cur)
    BY <1>10
  <2>4. (r.start <= u /\ u < c.cur) \/ (c.cur <= u /\ u < c2.cur)
           <=> r.start <= u /\ u < c2.cur
    BY <1>4, <1>5, <1>10, <1>11
  <2> HIDE DEF old
  <2> QED BY <2>1, <2>2, <2>3, <2>4
<1>21. ContractsKept'
  <2>1. \A p \in DOMAIN at : Kept(problem.shape[p], at[p])
    BY <1>3, <1>12 DEF ContractsKept
  <2> QED BY <2>1, <1>9, <1>12 DEF ContractsKept
<1> QED BY <1>16, <1>17, <1>18, <1>19, <1>20, <1>21 DEF RegionPartitioned

LEMMA RefuseKeeps ==
    ASSUME RegionInv, NEW o \in Object, Refuse(o)
    PROVE  RegionInv'
<1>1. /\ UNCHANGED <<problem, cursor, at>> /\ verdict' \in Refusals
  BY DEF Refuse, Stop
<1>2. RegionTypeOK => RegionTypeOK'
  BY <1>1 DEF RegionTypeOK, Region, Object
<1>3. RegionPartitioned => RegionPartitioned'
  BY <1>1 DEF RegionPartitioned, HolesApart, ObjectsApart, HolesAreFree, EndOf, Shape,
              Region
<1>4. /\ Covered => Covered'
      /\ ContractsKept => ContractsKept'
  BY <1>1 DEF Covered, ContractsKept, EndOf, Shape, Region
<1> QED BY <1>1, <1>2, <1>3, <1>4 DEF RegionInv, Region

LEMMA RegionInvHolds == RegionSpec => []RegionInv
<1>1. ASSUME RegionInv, [RegionNext]_regionVars PROVE RegionInv'
  <2>1. CASE RegionNext
    <3>1. PICK o \in Object : Place(o) \/ Refuse(o) BY <2>1 DEF RegionNext
    <3> QED BY <1>1, <3>1, PlaceKeeps, RefuseKeeps
  <2>2. CASE UNCHANGED regionVars
    BY <1>1, <2>2 DEF regionVars, RegionInv, RegionTypeOK, RegionPartitioned, HolesApart,
       ObjectsApart, HolesAreFree, Covered, ContractsKept, EndOf, Shape, Region, Object
  <2> QED BY <1>1, <2>1, <2>2
<1> QED BY <1>1, InitRegionInv, PTL DEF RegionSpec

-----------------------------------------------------------------------------
(* The theorems.  They are about links into ordinary memory: in a pool of  *)
(* banks the search behind the mark may run past the end of the pool, and  *)
(* code that ends with the address space has its mark cut to 16 bits.      *)

\* Types, and marks and addresses that lie in the region.
THEOREM RegionTypeCorrect == RegionSpec => [](Ordinary(Region) => RegionTypeOK)
<1>1. RegionInv => (Ordinary(Region) => RegionTypeOK) BY DEF RegionInv
<1> QED BY <1>1, RegionInvHolds, PTL

\* Objects and holes never overlap, whatever the objects ask for and in
\* whatever order they come (alloc_from_region_policy, alloc_code_branch_aware).
THEOREM RegionPartitionedHolds ==
    RegionSpec => [](Ordinary(Region) => RegionPartitioned)
<1>1. RegionInv => (Ordinary(Region) => RegionPartitioned) BY DEF RegionInv
<1> QED BY <1>1, RegionInvHolds, PTL

\* Every byte below the mark is in an object or in a hole that a later object
\* may take.
THEOREM NoByteLostHolds == RegionSpec => [](Ordinary(Region) => NoByteLost)
<1>1. RegionInv => (Ordinary(Region) => NoByteLost)
  <2> SUFFICES ASSUME RegionInv, Ordinary(Region) PROVE NoByteLost OBVIOUS
  <2>1. RegionTypeOK /\ Covered /\ problem \in Problem BY DEF RegionInv
  <2>2. /\ Region.start \in Nat /\ Region.end \in Nat /\ cursor.cur \in Nat
        /\ \A p \in DOMAIN at : at[p] \in Nat /\ Shape(p).size \in Nat
        /\ \A h \in cursor.holes : h.from \in Nat /\ h.to \in Nat
    <3>1. /\ Region.start \in Nat /\ Region.end \in Nat
          /\ \A p \in Object : Shape(p).size \in Nat
      BY <2>1, ProblemFacts DEF Region, Object, Shape
    <3> QED BY <3>1, <2>1 DEF RegionTypeOK, CursorType, Hole
  <2> DEFINE objects == UNION {BytesOf(p) : p \in DOMAIN at}
  <2>3. \A u : u \in objects <=> u \in Nat /\ \E p \in DOMAIN at : at[p] <= u /\ u < EndOf(p)
    <3>1. ASSUME NEW p \in DOMAIN at, NEW u
          PROVE  u \in BytesOf(p) <=> u \in Nat /\ at[p] <= u /\ u < EndOf(p)
      BY <2>2 DEF BytesOf, EndOf
    <3> QED BY <3>1
  <2>4. \A u : u \in HoleBytes <=> u \in Nat /\ ByteOf(cursor.holes, u)
    <3>1. ASSUME NEW h \in cursor.holes, NEW u
          PROVE  u \in h.from..(h.to - 1) <=> u \in Nat /\ h.from <= u /\ u < h.to
      BY <2>2
    <3> QED BY <3>1 DEF HoleBytes, ByteOf
  <2>5. \A u : u \in Region.start..(cursor.cur - 1) <=>
                 u \in Nat /\ Region.start <= u /\ u < cursor.cur
    BY <2>2
  <2> HIDE DEF objects
  <2>6. \A u : u \in objects \cup HoleBytes <=> u \in Region.start..(cursor.cur - 1)
    BY <2>1, <2>3, <2>4, <2>5 DEF Covered
  <2>7. objects \cup HoleBytes = Region.start..(cursor.cur - 1)
    <3> DEFINE below == Region.start..(cursor.cur - 1)
    <3>1. \A u : u \in objects \cup HoleBytes <=> u \in below BY <2>6
    <3> HIDE DEF below
    <3>2. objects \cup HoleBytes = below BY <3>1, Zenon
    <3> QED BY <3>2 DEF below
  <2> QED BY <2>7 DEF NoByteLost, objects
<1> QED BY <1>1, RegionInvHolds, PTL

\* Every byte below the mark belongs to one object or to one hole.
THEOREM RegionAccountedHolds == RegionSpec => [](Ordinary(Region) => RegionAccounted)
BY RegionPartitionedHolds, NoByteLostHolds, PTL DEF RegionAccounted

\* Every object has, at its final address, what it asked for.
THEOREM ContractsKeptHolds == RegionSpec => [](Ordinary(Region) => ContractsKept)
<1>1. RegionInv => (Ordinary(Region) => ContractsKept)
  BY DEF RegionInv
<1> QED BY <1>1, RegionInvHolds, PTL

-----------------------------------------------------------------------------
(* The probing loop. *)

\* Equal residues of numbers less than the modulus apart.
LEMMA SameResidue ==
    ASSUME NEW n \in Nat \ {0}, NEW a \in Int, NEW b \in Int,
           a % n = b % n, a <= b, b < a + n
    PROVE  a = b
<1> DEFINE i == a \div n
           j == b \div n
           k == a % n
<1>1. a = n * i + k /\ i \in Int /\ k \in 0..(n - 1) BY ModRange
<1>2. b = n * j + k /\ j \in Int BY ModRange
<1> HIDE DEF i, j, k
<1> DEFINE d == j - i
<1>3. n * d = b - a /\ d \in Int BY <1>1, <1>2
<1> HIDE DEF d
<1>4. d = 0
  <2>1. CASE d > 0
    <3>1. n * d >= n BY <2>1, <1>3
    <3> QED BY <3>1, <1>3
  <2>2. CASE d < 0
    <3>1. n * d <= -n BY <2>2, <1>3
    <3> QED BY <3>1, <1>3
  <2> QED BY <2>1, <2>2, <1>3
<1> QED BY <1>3, <1>4

\* Numbers with the same difference have the same difference of residues.
LEMMA ResidueOfDifference ==
    ASSUME NEW n \in Nat \ {0}, NEW a \in Int, NEW b \in Int
    PROVE  ((a % n) - b) % n = (a - b) % n /\ (a - (b % n)) % n = (a - b) % n
<1> DEFINE i == a \div n
           k == a % n
           j == b \div n
           l == b % n
<1>1. a = n * i + k /\ i \in Int /\ k \in Int BY ModRange
<1>2. b = n * j + l /\ j \in Int /\ l \in Int BY ModRange
<1> HIDE DEF i, k, j, l
<1>3. ((k - b) + n * i) % n = (k - b) % n
  <2>1. k - b \in Int BY <1>1
  <2> QED BY <2>1, <1>1, ModShift
<1>4. (k - b) + n * i = a - b BY <1>1
<1>5. ((a - b) + n * j) % n = (a - b) % n
  <2>1. a - b \in Int OBVIOUS
  <2> QED BY <2>1, <1>2, ModShift
<1>6. (a - b) + n * j = a - l BY <1>2
<1> QED BY <1>3, <1>4, <1>5, <1>6 DEF k, l

\* A divisor sees the same residue behind the modulus.
LEMMA ResidueThrough ==
    ASSUME NEW w \in Nat \ {0}, NEW n \in Nat \ {0}, w % n = 0, NEW a \in Int
    PROVE  (a % w) % n = a % n
<1> DEFINE i == w \div n
           j == a \div w
           k == a % w
<1>1. w = n * i /\ i \in Int BY ModRange
<1>2. a = w * j + k /\ j \in Int /\ k \in Int BY ModRange
<1> HIDE DEF i, j, k
<1>3. i * j \in Int /\ w * j = n * (i * j)
  <2>1. w * j = (n * i) * j BY <1>1
  <2>2. (n * i) * j = n * (i * j) BY <1>1, <1>2
  <2> QED BY <2>1, <2>2, <1>1, <1>2
<1>4. (k + n * (i * j)) % n = k % n BY <1>2, <1>3, ModShift
<1>5. k + n * (i * j) = a BY <1>2, <1>3
<1> QED BY <1>4, <1>5 DEF k

\* A mark in the address space and addresses that are 32 bits.
LEMMA AheadFacts ==
    ASSUME NEW c, c.cur \in 0..(Word - 1), NEW a \in 0..(Word - 1)
    PROVE  /\ Ahead(c, a) \in 0..(Word - 1)
           /\ Ahead(c, a) = IF c.cur <= a THEN a - c.cur ELSE a - c.cur + Word
<1>1. Word \in Nat \ {0} BY WidthAssumption
<1>2. a - c.cur \in Int /\ c.cur \in Int BY <1>1
<1>3. (a - c.cur) % Word \in 0..(Word - 1) BY <1>1, <1>2, ModRange
<1>4. CASE c.cur <= a
  <2>1. a - c.cur \in 0..(Word - 1) BY <1>4, <1>1
  <2>2. (a - c.cur) % Word = a - c.cur BY <2>1, <1>1, ModSmall
  <2> QED BY <2>2, <1>3, <1>4 DEF Ahead
<1>5. CASE ~(c.cur <= a)
  <2>1. a - c.cur + Word \in 0..(Word - 1) BY <1>5, <1>1
  <2>2. (a - c.cur + Word) % Word = a - c.cur + Word BY <2>1, <1>1, ModSmall
  <2>3. ((a - c.cur) + Word) % Word = (a - c.cur) % Word
    <3>1. 1 \in Int /\ a - c.cur \in Int BY <1>2
    <3>2. ((a - c.cur) + Word * 1) % Word = (a - c.cur) % Word BY <1>1, <3>1, ModShift
    <3>3. Word * 1 = Word BY <1>1
    <3> QED BY <3>2, <3>3
  <2> QED BY <2>2, <2>3, <1>3, <1>5, <1>1 DEF Ahead
<1> QED BY <1>4, <1>5

LEMMA AlignUpFacts ==
    ASSUME NEW o, o.align \in Nat \ {0}, o.phase \in Nat, o.phase < o.align,
           Top % o.align = 0, NEW a \in 0..(Word - 1)
    PROVE  /\ (o.phase - a) % o.align \in 0..(o.align - 1)
           /\ AlignUp(a, o) \in 0..(Word - 1)
           /\ AlignedAt(o, AlignUp(a, o))
           /\ AlignUp(a, o) % o.align = o.phase
           /\ Word % o.align = 0
           /\ a + o.align <= Word => AlignUp(a, o) = a + ((o.phase - a) % o.align)
<1> DEFINE d == (o.phase - a) % o.align
<1>1. Word \in Nat \ {0} /\ Top \in Nat \ {0} /\ Word % Top = 0 BY WidthAssumption
<1>2. d \in 0..(o.align - 1)
  <2>1. o.phase - a \in Int BY <1>1
  <2> QED BY <2>1, ModRange
<1>3. a + d \in Int BY <1>2, <1>1
<1>4. (a + d) % Word \in 0..(Word - 1) BY <1>1, <1>3, ModRange
<1>5. Word % o.align = 0
  <2> DEFINE i == Word \div Top
             j == Top \div o.align
  <2>1. Word = Top * i /\ i \in Int BY <1>1, ModRange
  <2>2. Top = o.align * j /\ j \in Int
    <3>1. Top \in Int /\ o.align \in Nat \ {0} BY <1>1
    <3>2. Top = o.align * (Top \div o.align) + (Top % o.align) /\ Top \div o.align \in Int
      BY <3>1, ModRange
    <3> QED BY <3>2, <3>1
  <2> HIDE DEF i, j
  <2>3. j * i \in Int /\ Word = o.align * (j * i)
    <3>1. Word = (o.align * j) * i BY <2>1, <2>2
    <3>2. (o.align * j) * i = o.align * (j * i) BY <2>1, <2>2
    <3> QED BY <3>1, <3>2, <2>1, <2>2
  <2>4. (0 + o.align * (j * i)) % o.align = 0 % o.align BY <2>3, ModShift
  <2>5. 0 % o.align = 0 BY ModSmall
  <2> QED BY <2>3, <2>4, <2>5
<1>6. (a + d) % o.align = o.phase
  <2> DEFINE e == o.phase - a
             q == e \div o.align
  <2>2. e \in Int BY <1>1
  <2>3. e = o.align * q + d /\ q \in Int BY <2>2, ModRange
  <2> HIDE DEF q, d
  <2>4. o.phase + o.align * (-q) = a + d BY <2>3, <1>2, <1>1
  <2>5. (o.phase + o.align * (-q)) % o.align = o.phase % o.align
    <3>1. -q \in Int BY <2>3
    <3> QED BY <3>1, ModShift
  <2>6. o.phase % o.align = o.phase BY ModSmall
  <2> QED BY <2>4, <2>5, <2>6
<1>7. ((a + d) % Word) % o.align = (a + d) % o.align BY <1>1, <1>3, <1>5, ResidueThrough
<1>8. a + o.align <= Word => (a + d) % Word = a + d
  <2> SUFFICES ASSUME a + o.align <= Word PROVE (a + d) % Word = a + d OBVIOUS
  <2>1. a + d \in 0..(Word - 1) BY <1>2, <1>1
  <2> QED BY <2>1, <1>1, ModSmall
<1> QED BY <1>2, <1>4, <1>5, <1>6, <1>7, <1>8 DEF AlignUp, AlignedAt

\* Aligning passes over no aligned address.
LEMMA AlignNearest ==
    ASSUME NEW c, c.cur \in 0..(Word - 1),
           NEW o, o.align \in Nat \ {0}, o.phase \in Nat, o.phase < o.align,
           Top % o.align = 0,
           NEW a \in 0..(Word - 1), NEW b \in 0..(Word - 1),
           b % o.align = o.phase, Ahead(c, a) <= Ahead(c, b)
    PROVE  Ahead(c, AlignUp(a, o)) <= Ahead(c, b)
<1> DEFINE d == (o.phase - a) % o.align
           m == Ahead(c, a)
           n == Ahead(c, b)
<1>1. /\ Word \in Nat \ {0} /\ Word % o.align = 0 /\ d \in 0..(o.align - 1)
      /\ AlignUp(a, o) \in 0..(Word - 1)
  BY WidthAssumption, AlignUpFacts
<1>2. m \in 0..(Word - 1) /\ n \in 0..(Word - 1) BY AheadFacts
<1>3. d <= n - m
  <2>1. (n - m) % o.align = d
    <3>1. m = (a - c.cur) % Word /\ n = (b - c.cur) % Word BY DEF Ahead
    <3>2. n % o.align = (b - c.cur) % o.align
      <4>1. b - c.cur \in Int BY <1>1
      <4> QED BY <4>1, <3>1, <1>1, ResidueThrough
    <3>3. m % o.align = (a - c.cur) % o.align
      <4>1. a - c.cur \in Int BY <1>1
      <4> QED BY <4>1, <3>1, <1>1, ResidueThrough
    <3> HIDE DEF m, n
    <3>4. (n - m) % o.align = ((n % o.align) - m) % o.align
      BY <1>2, ResidueOfDifference
    <3>5. ((b - c.cur) - m) % o.align = (((b - c.cur) % o.align) - m) % o.align
      <4>1. b - c.cur \in Int /\ m \in Int BY <1>1, <1>2
      <4> QED BY <4>1, ResidueOfDifference
    <3>6. ((b - c.cur) - m) % o.align = ((b - c.cur) - (m % o.align)) % o.align
      <4>1. b - c.cur \in Int /\ m \in Int BY <1>1, <1>2
      <4> QED BY <4>1, ResidueOfDifference
    <3>7. ((b - c.cur) - ((a - c.cur) % o.align)) % o.align = ((b - c.cur) - (a - c.cur)) % o.align
      <4>1. b - c.cur \in Int /\ a - c.cur \in Int BY <1>1
      <4> QED BY <4>1, ResidueOfDifference
    <3>8. (b - c.cur) - (a - c.cur) = b - a BY <1>1
    <3>9. (b - a) % o.align = ((b % o.align) - a) % o.align
      <4>1. b \in Int /\ a \in Int BY <1>1
      <4> QED BY <4>1, ResidueOfDifference
    <3> QED BY <3>2, <3>3, <3>4, <3>5, <3>6, <3>7, <3>8, <3>9
  <2> HIDE DEF d, m, n
  <2>2. n - m \in Nat BY <1>2 DEF m, n
  <2> DEFINE q == (n - m) \div o.align
  <2>3. n - m = o.align * q + d /\ q \in Int
    <3>1. n - m \in Int BY <2>2
    <3> QED BY <3>1, <2>1, ModRange
  <2> HIDE DEF q
  <2>4. q >= 0
    <3> SUFFICES ASSUME q <= -1 PROVE FALSE BY <2>3
    <3>1. o.align * q <= -o.align BY <2>3
    <3> QED BY <3>1, <2>3, <2>2, <1>1
  <2>5. o.align * q >= 0 BY <2>3, <2>4
  <2> QED BY <2>3, <2>5, <1>1
<1>4. Ahead(c, AlignUp(a, o)) = m + d
  <2>1. AlignUp(a, o) = (a + d) % Word BY DEF AlignUp
  <2>2. Ahead(c, AlignUp(a, o)) = (((a + d) % Word) - c.cur) % Word BY <2>1 DEF Ahead
  <2> HIDE DEF d, m, n
  <2>3. (((a + d) % Word) - c.cur) % Word = ((a + d) - c.cur) % Word
    <3>1. a + d \in Int /\ c.cur \in Int BY <1>1
    <3> QED BY <3>1, <1>1, ResidueOfDifference
  <2>4. m = IF c.cur <= a THEN a - c.cur ELSE a - c.cur + Word BY AheadFacts DEF m
  <2>5. m + d \in 0..(Word - 1) BY <1>1, <1>2, <1>3
  <2>6. (m + d) % Word = m + d BY <1>1, <2>5, ModSmall
  <2>7. ((a + d) - c.cur) % Word = m + d
    <3>1. CASE c.cur <= a
      <4>1. (a + d) - c.cur = m + d BY <3>1, <2>4, <1>1
      <4> QED BY <4>1, <2>6
    <3>2. CASE ~(c.cur <= a)
      <4>1. (m + d) + Word * (-1) = (a + d) - c.cur BY <3>2, <2>4, <1>1
      <4>2. ((m + d) + Word * (-1)) % Word = (m + d) % Word
        <5>1. m + d \in Int BY <2>5
        <5> QED BY <5>1, <1>1, ModShift
      <4> QED BY <4>1, <4>2, <2>6
    <3> QED BY <3>1, <3>2
  <2> QED BY <2>2, <2>3, <2>7
<1> QED BY <1>3, <1>4, <1>2, <1>1

LEMMA ProblemBounds ==
    ASSUME NEW q \in Problem
    PROVE  /\ q.region \in RegionType
           /\ q.region.start \in Nat /\ q.region.end \in Nat /\ q.region.bank \in Nat
           /\ q.region.start < q.region.end
           /\ q.region.bank = 0 => q.region.end <= Top
           /\ q.region.bank > 0 => /\ q.region.start = 0
                                   /\ q.region.end % q.region.bank = 0
                                   /\ 2 * (q.region.end + Top) <= Word
           /\ q.region.end \in 0..(Word - 1)
           /\ \A o \in DOMAIN q.shape :
                 /\ q.shape[o] \in ShapeType
                 /\ q.shape[o].size \in Nat \ {0} /\ q.shape[o].size <= Top
                 /\ q.shape[o].align \in Nat \ {0} /\ q.shape[o].phase \in Nat
                 /\ q.shape[o].align <= Top
                 /\ Top % q.shape[o].align = 0
                 /\ q.shape[o].phase < q.shape[o].align
                 /\ IsFiniteSet(q.shape[o].branches)
<1>1. /\ Top \in Nat \ {0} /\ Word \in Nat /\ 3 * Top <= Word
      /\ \A s \in ShapeType : /\ s.size \in Nat \ {0} /\ s.size <= Top
                              /\ s.align \in Nat \ {0} /\ s.phase \in Nat
  BY WidthAssumption DEF ShapeType
<1>2. /\ q.region \in RegionType /\ q.region.start < q.region.end
      /\ q.region.bank = 0 => q.region.end <= Top
      /\ q.region.bank > 0 => /\ q.region.start = 0
                              /\ q.region.end % q.region.bank = 0
                              /\ 2 * (q.region.end + Top) <= Word
  BY ProblemAssumption
<1>3. /\ q.region.start \in Nat /\ q.region.end \in Nat /\ q.region.bank \in Nat
  BY <1>2 DEF RegionType
<1>4. q.region.end \in 0..(Word - 1) BY <1>1, <1>2, <1>3
<1>5. ASSUME NEW o \in DOMAIN q.shape
      PROVE  /\ q.shape[o] \in ShapeType
             /\ Top % q.shape[o].align = 0
             /\ q.shape[o].phase < q.shape[o].align
             /\ IsFiniteSet(q.shape[o].branches)
             /\ q.shape[o].align <= Top
  <2>1. /\ q.shape[o] \in ShapeType
        /\ Top % q.shape[o].align = 0
        /\ q.shape[o].phase < q.shape[o].align
        /\ IsFiniteSet(q.shape[o].branches)
    BY <1>5, ProblemAssumption
  <2>2. PICK n \in Nat \ {0} : n = q.shape[o].align BY <2>1, <1>1
  <2>3. n <= Top
    <3> SUFFICES ASSUME Top < n PROVE FALSE BY <2>2, <1>1
    <3>1. Top \in 0..(n - 1) BY <1>1, <2>2
    <3>2. Top % n = Top BY <3>1, <2>2, ModSmall
    <3> QED BY <3>2, <2>1, <2>2, <1>1
  <2> QED BY <2>1, <2>2, <2>3
<1> QED BY <1>1, <1>2, <1>3, <1>4, <1>5

LEMMA ConsumeType ==
    ASSUME NEW holes \in SUBSET Hole, NEW a \in Nat, NEW n \in Nat
    PROVE  Consume(holes, a, n) \in SUBSET Hole
<1>1. ASSUME NEW h \in holes
      PROVE  (IF Within(h, a, n) THEN Gap(h.from, a) \cup Gap(a + n, h.to) ELSE {h})
                \in SUBSET Hole
  <2>1. h.from \in Nat /\ h.to \in Nat BY DEF Hole
  <2> QED BY <2>1 DEF Gap, Hole
<1> QED BY <1>1 DEF Consume

\* In any region the mark stays in it.
LEMMA AllocateCodeMark ==
    ASSUME NEW r \in RegionType, r.end \in 0..(Word - 1),
           NEW c \in CursorType, c.cur <= r.end,
           NEW o \in ShapeType, IsFiniteSet(o.branches),
           AllocateCode(r, c, o).answer = "placed"
    PROVE  /\ AllocateCode(r, c, o).cursor \in CursorType
           /\ AllocateCode(r, c, o).cursor.cur <= r.end
<1>1. /\ o.size \in Nat /\ c.cur \in Nat /\ r.end \in Nat /\ Word \in Nat \ {0}
      /\ Page \in Nat \ {0} /\ VectorBase \in Nat /\ Top \in Nat \ {0}
      /\ c.holes \in SUBSET Hole /\ c = [cur |-> c.cur, holes |-> c.holes]
  BY WidthAssumption DEF ShapeType, CursorType, RegionType
<1>2. ASSUME NEW a \in Nat PROVE
        LET c2 == [c EXCEPT !.holes = Consume(@, a, o.size)]
        IN  c2 \in CursorType /\ c2.cur <= r.end
  <2>1. [c EXCEPT !.holes = Consume(@, a, o.size)] =
            [cur |-> c.cur, holes |-> Consume(c.holes, a, o.size)]
    BY <1>1 DEF CursorType
  <2>2. Consume(c.holes, a, o.size) \in SUBSET Hole BY <1>1, ConsumeType
  <2> QED BY <2>1, <2>2, <1>1 DEF CursorType
<1>3. ASSUME NEW a \in Nat, NEW m \in Nat, m <= r.end PROVE
        LET c2 == [cur |-> m, holes |-> c.holes \cup Gap(c.cur, a)]
        IN  c2 \in CursorType /\ c2.cur <= r.end
  <2>1. Gap(c.cur, a) \in SUBSET Hole BY <1>1 DEF Gap, Hole
  <2> QED BY <2>1, <1>1, <1>3 DEF CursorType
<1>4. CASE o.branches = {}
  <2>1. AllocateCode(r, c, o) = Allocate(r, c, o) BY <1>4 DEF AllocateCode, SimulateCode, OutOfScope
  <2>2. ~Impossible(r, o) BY <2>1 DEF Allocate, Refused
  <2>3. CASE GoesIntoHole(r, c, o)
    <3> DEFINE a == Least(HoleFits(r, c, o))
    <3>1. HoleFits(r, c, o) # {} /\ HoleFits(r, c, o) \in SUBSET Nat
      BY <1>1, <2>3, HoleAddressWithin DEF GoesIntoHole, HoleFits
    <3>2. a \in Nat BY <3>1, LeastExists
    <3>3. Allocate(r, c, o) = Placed(a, [c EXCEPT !.holes = Consume(@, a, o.size)])
      BY <2>2, <2>3 DEF Allocate
    <3> HIDE DEF a
    <3> DEFINE e == [c EXCEPT !.holes = Consume(@, a, o.size)]
    <3>4. e \in CursorType /\ e.cur <= r.end BY <3>2, <1>2
    <3>5. Allocate(r, c, o) = Placed(a, e) BY <3>3
    <3> HIDE DEF e
    <3>6. Allocate(r, c, o).cursor = e BY <3>5 DEF Placed
    <3> QED BY <2>1, <3>4, <3>6
  <2>4. CASE ~GoesIntoHole(r, c, o)
    <3> DEFINE a == TailAddress(r, c, o)
    <3>1. TailFits(r, c, o) # {} BY <2>1, <2>2, <2>4 DEF Allocate, Refused
    <3>2. Allocate(r, c, o) = AtTail(r, c, o, a) BY <2>2, <2>4, <3>1 DEF Allocate
    <3>3. a \in 0..(Word - 1)
      <4> DEFINE fits == TailFits(r, c, o)
                 D == {Ahead(c, b) : b \in fits}
      <4>1. fits \subseteq 0..(Word - 1) BY DEF TailFits
      <4>2. D \in SUBSET Nat
        <5>1. ASSUME NEW b \in fits PROVE Ahead(c, b) \in Nat
          <6>1. b - c.cur \in Int BY <1>1, <4>1
          <6>2. (b - c.cur) % Word \in 0..(Word - 1) BY <6>1, <1>1, ModRange
          <6> QED BY <6>2, <1>1 DEF Ahead
        <5> QED BY <5>1
      <4> HIDE DEF fits
      <4>3. D # {} BY <3>1 DEF fits
      <4>4. Least(D) \in D
        <5> HIDE DEF D
        <5> QED BY <4>2, <4>3, LeastExists
      <4>5. \E b \in fits : Ahead(c, b) = Least(D) BY <4>4
      <4>6. a = CHOOSE b \in fits : Ahead(c, b) = Least(D) BY DEF TailAddress, fits
      <4> HIDE DEF D, a
      <4>7. a \in fits BY <4>5, <4>6
      <4> QED BY <4>7, <4>1
    <3> HIDE DEF a
    <3>4. ~Overflows(r, o, a) BY <2>1, <3>2 DEF AtTail, Refused
    <3> DEFINE m == (a + o.size) % Word
    <3>5. m \in Nat /\ m <= r.end
      <4>1. a + o.size \in Int BY <1>1, <3>3
      <4>2. m \in 0..(Word - 1) BY <4>1, <1>1, ModRange
      <4> QED BY <4>2, <3>4, <1>1 DEF Overflows
    <3>6. Allocate(r, c, o) = Placed(a, [cur |-> m, holes |-> c.holes \cup Gap(c.cur, a)])
      BY <3>2, <3>4 DEF AtTail
    <3> HIDE DEF m
    <3>7. a \in Nat BY <3>3
    <3> QED BY <2>1, <3>5, <3>6, <3>7, <1>3 DEF Placed
  <2> QED BY <2>3, <2>4
<1>5. CASE o.branches # {}
  <2> DEFINE holes == BranchHoles(r, c, o)
             good == {a \in holes \cup BranchTail(r, c, o) : ContractsHold(o, a)}
             a == BestOf(r, c, o, good)
             answer == AllocateCode(r, c, o)
  <2>1. good # {} /\ \A b \in o.branches : b.policy # "flex" => Inside(o, b)
    BY <1>5 DEF AllocateCode, SimulateCode, OutOfScope, Refused
  <2>2. ~(o.page /\ o.size > Page) BY <1>5, <2>1 DEF AllocateCode, SimulateCode, OutOfScope, Refused
  <2>3. ASSUME NEW u \in holes PROVE u \in Nat
    <3>1. u \in HoleAddresses(c.holes, o.size) BY DEF BranchHoles
    <3> QED BY <3>1, <1>1, HoleAddressWithin
  <2>4. ASSUME NEW u \in BranchTail(r, c, o)
        PROVE  u \in Nat /\ c.cur <= u /\ u + o.size <= BranchLimit(r)
    BY <1>1 DEF BranchTail
  <2>5. good \in SUBSET Nat /\ \A u \in good : u \in holes \/ c.cur <= u
    BY <2>3, <2>4
  <2>6. a \in good
    <3> HIDE DEF good
    <3> QED BY <2>1, <2>5, BestIsCandidate
  <2>7. answer = IF a \in holes
                 THEN Placed(a, [c EXCEPT !.holes = Consume(@, a, o.size)])
                 ELSE Placed(a, [cur |-> (a + o.size) % Top,
                                 holes |-> c.holes \cup Gap(c.cur, a)])
    BY <1>5, <2>1, <2>2 DEF AllocateCode, SimulateCode, OutOfScope
  <2>8. a \in Nat BY <2>5, <2>6
  <2>9. a \notin holes => a + o.size <= BranchLimit(r)
    <3> HIDE DEF a
    <3> QED BY <2>4, <2>6
  <2> HIDE DEF a, answer
  <2>10. CASE a \in holes
    <3> DEFINE e == [c EXCEPT !.holes = Consume(@, a, o.size)]
    <3>1. e \in CursorType /\ e.cur <= r.end BY <2>8, <1>2
    <3>2. answer = Placed(a, e) BY <2>7, <2>10
    <3> HIDE DEF e
    <3>3. answer.cursor = e BY <3>2 DEF Placed
    <3> QED BY <3>1, <3>3 DEF answer
  <2>11. CASE a \notin holes
    <3>1. BranchLimit(r) \in Nat /\ BranchLimit(r) <= r.end BY <1>1 DEF BranchLimit
    <3>2. PICK k \in Nat : k = a + o.size BY <2>8, <1>1
    <3>3. k % Top \in Nat /\ k % Top <= k BY <3>2, <1>1
    <3>4. k % Top <= r.end BY <3>1, <3>2, <3>3, <2>9, <2>11, <1>1
    <3> DEFINE e == [cur |-> k % Top, holes |-> c.holes \cup Gap(c.cur, a)]
    <3>5. e \in CursorType /\ e.cur <= r.end BY <3>3, <3>4, <2>8, <1>3
    <3>6. answer = Placed(a, e) BY <3>2, <2>7, <2>11
    <3> HIDE DEF e
    <3>7. answer.cursor = e BY <3>6 DEF Placed
    <3> QED BY <3>5, <3>7 DEF answer
  <2> QED BY <2>10, <2>11
<1> QED BY <1>4, <1>5

-----------------------------------------------------------------------------
(* The loop has passed by no address that fits: whatever fits is at or     *)
(* ahead of the candidate.  A zero-page object has not wrapped around.     *)
Searching(o, a) ==
    /\ o \notin DOMAIN at /\ verdict = "linking" /\ MustProbe(o)
    /\ a % Shape(o).align = Shape(o).phase
    /\ \A b \in TailFits(Region, cursor, Shape(o)) : Ahead(cursor, a) <= Ahead(cursor, b)
    /\ Shape(o).zp => cursor.cur <= a /\ (a < cursor.cur + Top \/ a < Page)

ProbeInv ==
    /\ problem \in Problem
    /\ cursor \in CursorType /\ cursor.cur <= Region.end
    /\ Probing => \E o \in Object, a \in 0..(Word - 1) : probe = <<o, a>> /\ Searching(o, a)

LEMMA ShapeFacts ==
    ASSUME problem \in Problem, NEW o \in Object
    PROVE  /\ Region \in RegionType
           /\ Shape(o) \in ShapeType
           /\ Shape(o).size \in Nat \ {0} /\ Shape(o).size <= Top
           /\ Shape(o).align \in Nat \ {0} /\ Shape(o).phase \in Nat
           /\ Shape(o).align <= Top
           /\ Top % Shape(o).align = 0
           /\ Shape(o).phase < Shape(o).align
           /\ IsFiniteSet(Shape(o).branches)
           /\ Word \in Nat \ {0} /\ Top \in Nat \ {0} /\ 3 * Top <= Word
           /\ Page \in Nat \ {0} /\ Page <= Top
           /\ Region.end \in 0..(Word - 1) /\ Region.start \in Nat /\ Region.bank \in Nat
           /\ Region.bank = 0 => Region.end <= Top
           /\ Region.bank > 0 => /\ Region.start = 0 /\ Region.bank <= Region.end
                                 /\ 2 * (Region.end + Top) <= Word
<1>1. /\ Word \in Nat \ {0} /\ Top \in Nat \ {0} /\ 3 * Top <= Word
      /\ Page \in Nat \ {0} /\ Top % Page = 0
  BY WidthAssumption
<1>2. Page <= Top
  <2> SUFFICES ASSUME Top < Page PROVE FALSE BY <1>1
  <2>1. Top \in 0..(Page - 1) BY <1>1
  <2>2. Top % Page = Top BY <2>1, <1>1, ModSmall
  <2> QED BY <2>2, <1>1
<1>3. Region.bank > 0 => Region.bank <= Region.end
  <2> SUFFICES ASSUME Region.bank > 0, Region.end < Region.bank PROVE FALSE
    BY ProblemBounds DEF Region
  <2>1. PICK n \in Nat \ {0}, e \in Nat : n = Region.bank /\ e = Region.end
    BY ProblemBounds DEF Region
  <2>2. e % n = 0 /\ e # 0 BY <2>1, ProblemBounds DEF Region
  <2>3. e \in 0..(n - 1) BY <2>1
  <2>4. e % n = e BY <2>3, <2>1, ModSmall
  <2> QED BY <2>2, <2>4
<1>4. o \in DOMAIN problem.shape BY DEF Object
<1> QED BY <1>1, <1>2, <1>3, <1>4, ProblemBounds DEF Region, Shape

LEMMA AlignedMeans ==
    ASSUME NEW s, s.align \in Nat \ {0}, s.phase \in Nat, s.phase < s.align, NEW a \in Int
    PROVE  AlignedAt(s, a) <=> a % s.align = s.phase
<1>1. CASE s.align = 1
  <2>1. s.phase = 0 BY <1>1
  <2>2. a % 1 = 0 OBVIOUS
  <2> QED BY <1>1, <2>1, <2>2 DEF AlignedAt
<1>2. CASE s.align # 1 BY <1>2 DEF AlignedAt
<1> QED BY <1>1, <1>2

\* The next candidate is at most as far ahead as any address that fits.
LEMMA NextCandidateNearest ==
    ASSUME problem \in Problem, cursor \in CursorType, cursor.cur <= Region.end,
           NEW o \in Object, NEW a \in 0..(Word - 1), Searching(o, a),
           ~(PageConstraintsHold(Shape(o), a)
               /\ BankConstraintHolds(Region, a, Shape(o).size))
    PROVE  LET n == NextCandidate(Region, Shape(o), a)
           IN  /\ n \in 0..(Word - 1)
               /\ \A b \in TailFits(Region, cursor, Shape(o)) : Ahead(cursor, n) <= Ahead(cursor, b)
               /\ a + 1 < Word => a < n
               /\ n <= a + 1 \/ n <= a + Region.bank
<1> DEFINE s == Shape(o)
           r == Region
           next == r.start + ((a - r.start) \div r.bank + 1) * r.bank
           n == NextCandidate(r, s, a)
<1>1. /\ s.size \in Nat \ {0} /\ s.align \in Nat \ {0} /\ s.phase \in Nat /\ s.phase < s.align
      /\ Word \in Nat \ {0} /\ r.end \in 0..(Word - 1) /\ r.start \in Nat /\ r.bank \in Nat
      /\ r.bank > 0 => r.start = 0
  BY ShapeFacts
<1>2. cursor.cur \in 0..(Word - 1) /\ cursor.cur \in Nat
  BY <1>1 DEF CursorType
<1>3. AlignedAt(s, a) BY <1>1, AlignedMeans DEF Searching
<1>4. a \notin TailFits(r, cursor, s) BY DEF TailFits, Admissible
<1>5. ASSUME NEW b \in TailFits(r, cursor, s)
      PROVE  /\ b \in 0..(Word - 1) /\ BankConstraintHolds(r, b, s.size)
             /\ Ahead(cursor, a) < Ahead(cursor, b)
  <2>1. b \in 0..(Word - 1) /\ BankConstraintHolds(r, b, s.size)
    BY DEF TailFits, Admissible
  <2>2. Ahead(cursor, a) <= Ahead(cursor, b) BY DEF Searching
  <2>3. Ahead(cursor, a) # Ahead(cursor, b)
    <3> SUFFICES ASSUME Ahead(cursor, a) = Ahead(cursor, b) PROVE FALSE OBVIOUS
    <3>1. a = b BY <2>1, <1>1, <1>2, AheadFacts
    <3> QED BY <3>1, <1>4
  <2>4. Ahead(cursor, a) \in Int /\ Ahead(cursor, b) \in Int
    BY <2>1, <1>2, AheadFacts
  <2> QED BY <2>1, <2>2, <2>3, <2>4
<1>6. /\ (a + 1) % Word \in 0..(Word - 1)
      /\ a + 1 < Word => (a + 1) % Word = a + 1
      /\ a + 1 = Word => (a + 1) % Word = 0
  <2>1. a + 1 < Word => (a + 1) % Word = a + 1
    <3> SUFFICES ASSUME a + 1 < Word PROVE (a + 1) % Word = a + 1 OBVIOUS
    <3>1. a + 1 \in 0..(Word - 1) BY <1>1
    <3> QED BY <3>1, <1>1, ModSmall
  <2>2. a + 1 = Word => (a + 1) % Word = 0 BY <1>1
  <2>3. a + 1 \in Int /\ a + 1 <= Word BY <1>1
  <2> QED BY <2>1, <2>2, <2>3, <1>1
<1>7. CASE n = (a + 1) % Word
  <2>1. ASSUME NEW b \in TailFits(r, cursor, s) PROVE Ahead(cursor, n) <= Ahead(cursor, b)
    <3>1. b \in 0..(Word - 1) /\ Ahead(cursor, a) < Ahead(cursor, b) BY <1>5
    <3>2. /\ Ahead(cursor, b) \in 0..(Word - 1)
          /\ Ahead(cursor, a) = IF cursor.cur <= a THEN a - cursor.cur
                                ELSE a - cursor.cur + Word
          /\ Ahead(cursor, n) = IF cursor.cur <= n THEN n - cursor.cur
                                ELSE n - cursor.cur + Word
      BY <3>1, <1>2, <1>6, <1>7, AheadFacts
    <3> QED BY <3>1, <3>2, <1>6, <1>7, <1>1, <1>2
  <2> QED BY <2>1, <1>6, <1>7, <1>1
<1>8. CASE n # (a + 1) % Word
  <2>1. /\ r.bank > 0 /\ ~BankConstraintHolds(r, a, s.size) /\ n = next /\ next < Word
    BY <1>8, <1>1 DEF NextCandidate
  <2>2. PICK k \in Nat \ {0} : k = r.bank BY <2>1, <1>1
  <2> DEFINE q == a \div k
             m == a % k
  <2>3. a = k * q + m /\ q \in Int /\ m \in 0..(k - 1)
    <3>1. a \in Int BY <1>1
    <3> QED BY <3>1, ModRange
  <2>4. next = k * q + k
    <3>1. next = (q + 1) * k
      <4>1. a - 0 = a /\ 0 + (q + 1) * k = (q + 1) * k BY <2>3, <1>1
      <4> QED BY <4>1, <2>1, <2>2, <1>1
    <3> HIDE DEF next, q
    <3> QED BY <3>1, <2>3
  <2>5. n \in 0..(Word - 1) /\ a < n /\ n <= a + k
    <3> HIDE DEF next, q, m, n
    <3> QED BY <2>1, <2>3, <2>4, <1>1
  <2>6. ASSUME NEW b \in TailFits(r, cursor, s), Ahead(cursor, b) < Ahead(cursor, n)
        PROVE  FALSE
    <3>1. /\ b \in 0..(Word - 1) /\ BankConstraintHolds(r, b, s.size)
          /\ Ahead(cursor, a) < Ahead(cursor, b)
      BY <1>5
    <3>2. /\ Ahead(cursor, a) = IF cursor.cur <= a THEN a - cursor.cur
                                ELSE a - cursor.cur + Word
          /\ Ahead(cursor, n) = IF cursor.cur <= n THEN n - cursor.cur
                                ELSE n - cursor.cur + Word
          /\ Ahead(cursor, b) = IF cursor.cur <= b THEN b - cursor.cur
                                ELSE b - cursor.cur + Word
      BY <3>1, <2>5, <1>2, AheadFacts
    <3>3. a < b /\ b < n
      <4> HIDE DEF n
      <4> QED BY <3>1, <3>2, <2>5, <2>6, <1>1, <1>2
    <3> DEFINE q2 == b \div k
               m2 == b % k
    <3>4. b = k * q2 + m2 /\ q2 \in Int /\ m2 \in 0..(k - 1)
      <4>1. b \in Int BY <3>1
      <4> QED BY <4>1, ModRange
    <3> HIDE DEF q, m, q2, m2, n, next
    <3>5. q2 = q
      <4>1. k * q <= k * q2 + m2 /\ k * q2 + m2 < k * q + k BY <3>3, <3>4, <2>1, <2>3, <2>4
      <4>2. PICK d \in Int : d = q2 - q BY <3>4, <2>3
      <4>3. k * d = k * q2 - k * q BY <4>2, <3>4, <2>3
      <4>4. ~(d >= 1)
        <5> SUFFICES ASSUME d >= 1 PROVE FALSE OBVIOUS
        <5>1. k * d >= k BY <4>2
        <5> QED BY <5>1, <4>1, <4>3, <3>4, <2>3
      <4>5. ~(d <= -1)
        <5> SUFFICES ASSUME d <= -1 PROVE FALSE OBVIOUS
        <5>1. k * d <= -k BY <4>2
        <5> QED BY <5>1, <4>1, <4>3, <3>4, <2>3
      <4> QED BY <4>2, <4>4, <4>5, <3>4, <2>3
    <3>6. m < m2 BY <3>3, <3>4, <3>5, <2>3
    <3>7. /\ s.size <= k /\ (b + s.size) % Word <= r.end /\ m2 + s.size <= k
      <4>1. b - 0 = b /\ a - 0 = a BY <3>1, <1>1
      <4> QED BY <4>1, <3>1, <2>1, <2>2, <1>1 DEF BankConstraintHolds, m2
    <3>8. b + s.size <= n BY <3>4, <3>5, <3>7, <2>1, <2>4, <2>3, <1>1
    <3>9. /\ b + s.size \in 0..(Word - 1) /\ a + s.size \in 0..(Word - 1)
          /\ a + s.size < b + s.size
      BY <3>8, <3>3, <2>5, <1>1, <3>1
    <3>10. (b + s.size) % Word = b + s.size /\ (a + s.size) % Word = a + s.size
      BY <3>9, <1>1, ModSmall
    <3>11. a + s.size <= r.end /\ m + s.size <= k
      <4> HIDE DEF s
      <4> QED BY <3>6, <3>7, <3>9, <3>10, <2>3, <3>4, <1>1
    <3>12. BankConstraintHolds(r, a, s.size)
      <4>1. a - 0 = a /\ r.start = 0 /\ 0 <= a /\ r.end - 0 = r.end BY <1>1, <2>1
      <4> QED BY <4>1, <3>7, <3>10, <3>11, <2>2 DEF BankConstraintHolds, m
    <3> QED BY <3>12, <2>1
  <2>7. ASSUME NEW b \in TailFits(r, cursor, s) PROVE Ahead(cursor, n) <= Ahead(cursor, b)
    <3>1. Ahead(cursor, n) \in Int /\ Ahead(cursor, b) \in Int
      BY <1>5, <2>5, <1>2, AheadFacts
    <3> QED BY <3>1, <2>6
  <2> QED BY <2>5, <2>7, <2>2
<1> QED BY <1>7, <1>8

\* An aligned address ahead of a candidate that is not far behind the mark.
LEMMA AlignedKeeps ==
    ASSUME problem \in Problem, cursor \in CursorType, cursor.cur <= Region.end,
           NEW o \in Object, NEW n \in 0..(Word - 1),
           o \notin DOMAIN at, verdict = "linking", MustProbe(o),
           \A b \in TailFits(Region, cursor, Shape(o)) : Ahead(cursor, n) <= Ahead(cursor, b),
           Shape(o).zp => /\ cursor.cur <= n
                          /\ \/ AlignUp(n, Shape(o)) < Page
                             \/ AlignUp(n, Shape(o)) < cursor.cur + Top
                          /\ n + Shape(o).align <= Word
    PROVE  /\ AlignUp(n, Shape(o)) \in 0..(Word - 1)
           /\ Searching(o, AlignUp(n, Shape(o)))
<1> DEFINE s == Shape(o)
           a == AlignUp(n, s)
<1>1. /\ s.align \in Nat \ {0} /\ s.phase \in Nat /\ s.phase < s.align /\ Top % s.align = 0
      /\ Word \in Nat \ {0} /\ Region.end \in 0..(Word - 1)
  BY ShapeFacts
<1>2. cursor.cur \in 0..(Word - 1) /\ cursor.cur \in Nat BY <1>1 DEF CursorType
<1>3. /\ a \in 0..(Word - 1) /\ a % s.align = s.phase
      /\ (s.phase - n) % s.align \in 0..(s.align - 1)
      /\ n + s.align <= Word => a = n + ((s.phase - n) % s.align)
  BY <1>1, AlignUpFacts
<1>4. ASSUME NEW b \in TailFits(Region, cursor, s)
      PROVE  Ahead(cursor, a) <= Ahead(cursor, b)
  <2>1. b \in 0..(Word - 1) /\ AlignedAt(s, b) BY DEF TailFits, Admissible
  <2>2. b % s.align = s.phase
    <3>1. b \in Int BY <2>1
    <3> QED BY <3>1, <2>1, <1>1, AlignedMeans
  <2> QED BY <2>1, <2>2, <1>1, <1>2, AlignNearest
<1>5. s.zp => cursor.cur <= a /\ (a < cursor.cur + Top \/ a < Page)
  <2> HIDE DEF a
  <2>1. s.zp => cursor.cur <= a BY <1>1, <1>2, <1>3
  <2> QED BY <2>1 DEF a
<1> QED BY <1>3, <1>4, <1>5 DEF Searching

\* It is about the layout only.
LEMMA SearchingStays ==
    ASSUME NEW o, NEW a, Searching(o, a),
           problem' = problem, cursor' = cursor, at' = at, verdict' = verdict
    PROVE  Searching(o, a)'
<1>1. Region' = Region BY DEF Region
<1>2. Shape(o)' = Shape(o) BY DEF Shape
<1>3. MustProbe(o)' <=> MustProbe(o) BY <1>1, <1>2 DEF MustProbe
<1>4. TailFits(Region, cursor, Shape(o))' = TailFits(Region, cursor, Shape(o))
  BY <1>1, <1>2 DEF TailFits
<1> QED BY <1>1, <1>2, <1>3, <1>4 DEF Searching

\* A placement leaves the mark in the region.
LEMMA PlaceKeepsMark ==
    ASSUME problem \in Problem, cursor \in CursorType, cursor.cur <= Region.end,
           NEW o \in Object, Place(o)
    PROVE  /\ problem' \in Problem
           /\ cursor' \in CursorType /\ cursor'.cur <= Region'.end
<1>1. /\ Answer(o).answer = "placed" /\ cursor' = Answer(o).cursor /\ problem' = problem
  BY DEF Place, Accept
<1>2. Answer(o) = AllocateCode(Region, cursor, Shape(o))
  BY <1>1 DEF Answer, Refused
<1>3. /\ Region \in RegionType /\ Region.end \in 0..(Word - 1)
      /\ Shape(o) \in ShapeType /\ IsFiniteSet(Shape(o).branches)
  BY ShapeFacts
<1>4. /\ AllocateCode(Region, cursor, Shape(o)).cursor \in CursorType
      /\ AllocateCode(Region, cursor, Shape(o)).cursor.cur <= Region.end
  BY <1>1, <1>2, <1>3, AllocateCodeMark
<1>5. Region' = Region BY <1>1 DEF Region
<1> QED BY <1>1, <1>2, <1>4, <1>5

LEMMA BeginKeeps ==
    ASSUME ProbeInv, NEW o \in Object, Begin(o)
    PROVE  ProbeInv'
<1> DEFINE s == Shape(o)
           a == AlignUp(cursor.cur, s)
<1>1. /\ problem \in Problem /\ cursor \in CursorType /\ cursor.cur <= Region.end
      /\ verdict = "linking" /\ o \notin DOMAIN at /\ MustProbe(o)
      /\ probe' = <<o, a>>
      /\ problem' = problem /\ cursor' = cursor /\ at' = at /\ verdict' = verdict
  BY DEF ProbeInv, Begin, regionVars
<1>2. /\ s.align \in Nat \ {0} /\ s.phase \in Nat /\ s.phase < s.align /\ Top % s.align = 0
      /\ s.align <= Top /\ Top \in Nat /\ 3 * Top <= Word
      /\ Word \in Nat \ {0} /\ Region.end \in 0..(Word - 1) /\ Region.bank \in Nat
      /\ Region.bank = 0 => Region.end <= Top
      /\ Region.bank > 0 => 2 * (Region.end + Top) <= Word
  BY <1>1, ShapeFacts
<1>3. cursor.cur \in 0..(Word - 1) /\ cursor.cur \in Nat BY <1>1, <1>2 DEF CursorType
<1>4. cursor.cur + s.align <= Word BY <1>1, <1>2, <1>3
<1>5. a = cursor.cur + ((s.phase - cursor.cur) % s.align)
      /\ (s.phase - cursor.cur) % s.align \in 0..(s.align - 1)
  BY <1>2, <1>3, <1>4, AlignUpFacts
<1>6. a < cursor.cur + Top
  <2> HIDE DEF a
  <2> QED BY <1>5, <1>2, <1>3
<1>7. \A b \in TailFits(Region, cursor, s) : Ahead(cursor, cursor.cur) <= Ahead(cursor, b)
  <2> SUFFICES ASSUME NEW b \in TailFits(Region, cursor, s)
      PROVE Ahead(cursor, cursor.cur) <= Ahead(cursor, b)
    OBVIOUS
  <2>1. b \in 0..(Word - 1) BY DEF TailFits
  <2>2. Ahead(cursor, b) \in 0..(Word - 1) BY <2>1, <1>3, AheadFacts
  <2>3. Ahead(cursor, cursor.cur) = IF cursor.cur <= cursor.cur THEN cursor.cur - cursor.cur
                                    ELSE cursor.cur - cursor.cur + Word
    BY <1>3, AheadFacts
  <2> QED BY <2>2, <2>3, <1>3, <1>2
<1>8. a \in 0..(Word - 1) /\ Searching(o, a)
  <2> HIDE DEF a
  <2> QED BY <1>1, <1>3, <1>4, <1>6, <1>7, AlignedKeeps DEF a
<1>9. PICK b \in 0..(Word - 1) : b = a BY <1>8
<1>10. probe' = <<o, b>> /\ Searching(o, b) BY <1>1, <1>8, <1>9
<1> HIDE DEF a
<1>11. Searching(o, b)' BY <1>1, <1>10, SearchingStays
<1>12. o \in Object' BY <1>1 DEF Object
<1>13. ~Probing' \/ \E p \in Object', e \in 0..(Word - 1) : probe' = <<p, e>> /\ Searching(p, e)'
  BY <1>9, <1>10, <1>11, <1>12
<1> QED BY <1>1, <1>13 DEF ProbeInv, Region, Probing

\* What a step of the loop is about.
LEMMA ProbingMeans ==
    ASSUME ProbeInv, Probing
    PROVE  \E o \in Object, a \in 0..(Word - 1) :
              /\ probe = <<o, a>> /\ Searching(o, a)
              /\ Wanted = Shape(o) /\ Candidate = a
              /\ cursor.cur \in Nat /\ cursor.cur \in 0..(Word - 1)
              /\ Answer(o) = LET found == Allocate(Region, cursor, Shape(o))
                             IN  IF found.answer = "placed" /\ Region.bank > 0
                                      /\ found.at >= Region.end
                                 THEN Refused("invalid", cursor) ELSE found
              /\ Allocate(Region, cursor, Shape(o)) =
                     IF TailFits(Region, cursor, Shape(o)) = {}
                     THEN Refused(IF Shape(o).zp THEN "overflow" ELSE "hangs", cursor)
                     ELSE AtTail(Region, cursor, Shape(o),
                                 TailAddress(Region, cursor, Shape(o)))
<1>1. PICK o \in Object, a \in 0..(Word - 1) : probe = <<o, a>> /\ Searching(o, a)
  BY DEF ProbeInv
<1>2. probe[1] = o /\ probe[2] = a BY <1>1
<1>3. problem \in Problem /\ cursor \in CursorType /\ cursor.cur <= Region.end
  BY DEF ProbeInv
<1>4. Word \in Nat \ {0} /\ Region.end \in 0..(Word - 1) BY <1>3, ShapeFacts
<1>5. cursor.cur \in Nat /\ cursor.cur \in 0..(Word - 1) BY <1>3, <1>4 DEF CursorType
<1>6. /\ Shape(o).branches = {} /\ ~Impossible(Region, Shape(o))
      /\ ~GoesIntoHole(Region, cursor, Shape(o))
  BY <1>1 DEF Searching, MustProbe
<1>7. AllocateCode(Region, cursor, Shape(o)) = Allocate(Region, cursor, Shape(o))
  BY <1>6 DEF AllocateCode, SimulateCode, OutOfScope
<1>8. Allocate(Region, cursor, Shape(o)) =
          IF TailFits(Region, cursor, Shape(o)) = {}
          THEN Refused(IF Shape(o).zp THEN "overflow" ELSE "hangs", cursor)
          ELSE AtTail(Region, cursor, Shape(o), TailAddress(Region, cursor, Shape(o)))
  BY <1>6 DEF Allocate
<1>9. Answer(o) = LET found == Allocate(Region, cursor, Shape(o))
                  IN  IF found.answer = "placed" /\ Region.bank > 0
                           /\ found.at >= Region.end
                      THEN Refused("invalid", cursor) ELSE found
  BY <1>7 DEF Answer
<1> QED BY <1>1, <1>2, <1>5, <1>8, <1>9 DEF Wanted, Candidate

\* The loop moves on, or gives up where nothing fits.
LEMMA StepKeeps ==
    ASSUME ProbeInv, Step
    PROVE  ProbeInv' /\ [RegionNext]_regionVars
<1>1. PICK o \in Object, a \in 0..(Word - 1) :
         /\ probe = <<o, a>> /\ Searching(o, a)
         /\ Wanted = Shape(o) /\ Candidate = a
         /\ cursor.cur \in Nat /\ cursor.cur \in 0..(Word - 1)
         /\ Answer(o) = LET found == Allocate(Region, cursor, Shape(o))
                        IN  IF found.answer = "placed" /\ Region.bank > 0
                                 /\ found.at >= Region.end
                            THEN Refused("invalid", cursor) ELSE found
         /\ Allocate(Region, cursor, Shape(o)) =
                IF TailFits(Region, cursor, Shape(o)) = {}
                THEN Refused(IF Shape(o).zp THEN "overflow" ELSE "hangs", cursor)
                ELSE AtTail(Region, cursor, Shape(o),
                            TailAddress(Region, cursor, Shape(o)))
  BY ProbingMeans DEF Step
<1> DEFINE s == Shape(o)
           n == NextCandidate(Region, s, a)
           next == AlignUp(n, s)
<1>2. problem \in Problem /\ cursor \in CursorType /\ cursor.cur <= Region.end
  BY DEF ProbeInv
<1>3. /\ s.align \in Nat \ {0} /\ s.phase \in Nat /\ s.phase < s.align /\ Top % s.align = 0
      /\ s.align <= Top /\ Top \in Nat /\ 3 * Top <= Word /\ Page <= Top /\ Page \in Nat
      /\ Word \in Nat \ {0} /\ Region.end \in 0..(Word - 1) /\ Region.bank \in Nat
      /\ Region.bank = 0 => Region.end <= Top
      /\ Region.bank > 0 => Region.bank <= Region.end /\ 2 * (Region.end + Top) <= Word
      /\ s.size \in Nat
  BY <1>2, ShapeFacts
<1>4. /\ n \in 0..(Word - 1)
      /\ \A b \in TailFits(Region, cursor, s) : Ahead(cursor, n) <= Ahead(cursor, b)
      /\ a + 1 < Word => a < n
      /\ n <= a + 1 \/ n <= a + Region.bank
  <2>1. ~(PageConstraintsHold(s, a) /\ BankConstraintHolds(Region, a, s.size))
    BY <1>1 DEF Step, Holds
  <2> QED BY <2>1, <1>1, <1>2, NextCandidateNearest
<1> HIDE DEF n
<1>5. s.zp => cursor.cur <= n /\ n + s.align <= Word
  <2> SUFFICES ASSUME s.zp PROVE cursor.cur <= n /\ n + s.align <= Word OBVIOUS
  <2>1. cursor.cur <= a /\ (a < cursor.cur + Top \/ a < Page) BY <1>1 DEF Searching
  <2>2. a < Region.end + Top BY <2>1, <1>1, <1>2, <1>3
  <2>3. CASE Region.bank = 0 BY <2>1, <2>2, <2>3, <1>1, <1>3, <1>4
  <2>4. CASE Region.bank > 0 BY <2>1, <2>2, <2>4, <1>1, <1>3, <1>4
  <2> QED BY <2>3, <2>4, <1>3
<1>6. next \in 0..(Word - 1) /\ (n + s.align <= Word => n <= next)
  <2>1. /\ next \in 0..(Word - 1)
        /\ (s.phase - n) % s.align \in 0..(s.align - 1)
        /\ n + s.align <= Word => next = n + ((s.phase - n) % s.align)
    BY <1>3, <1>4, AlignUpFacts
  <2>2. PICK d \in 0..(s.align - 1) : d = (s.phase - n) % s.align BY <2>1
  <2> HIDE DEF next
  <2>3. n + s.align <= Word => next = n + d BY <2>1, <2>2
  <2> HIDE DEF s
  <2> QED BY <2>1, <2>2, <2>3, <1>4
<1>7. /\ IF GivesUp(s, next)
         THEN /\ Stop(Refused("overflow", cursor))
              /\ probe' = <<>>
         ELSE /\ probe' = <<o, next>>
              /\ UNCHANGED regionVars
  <2>1. probe[1] = o BY <1>1
  <2> QED BY <1>1, <2>1 DEF Step, n
<1>8. CASE GivesUp(s, next)
  <2>1. s.zp /\ next >= Page BY <1>8 DEF GivesUp
  <2>2. TailFits(Region, cursor, s) = {}
    <3> SUFFICES ASSUME NEW b \in TailFits(Region, cursor, s) PROVE FALSE OBVIOUS
    <3>1. b \in 0..(Word - 1) /\ AlignedAt(s, b) /\ cursor.cur <= b /\ b + s.size <= Page
      BY <2>1 DEF TailFits, Admissible, PageConstraintsHold
    <3>2. b % s.align = s.phase
      <4>1. b \in Int BY <3>1
      <4> QED BY <4>1, <3>1, <1>3, AlignedMeans
    <3>3. Ahead(cursor, next) <= Ahead(cursor, b)
      BY <3>1, <3>2, <1>1, <1>3, <1>4, AlignNearest
    <3>4. Ahead(cursor, b) = b - cursor.cur BY <3>1, <1>1, AheadFacts
    <3> HIDE DEF next
    <3>5. PICK e \in 0..(Word - 1) : e = next BY <1>6
    <3>6. cursor.cur <= n /\ e >= n
      <4> HIDE DEF s, next
      <4> QED BY <3>5, <2>1, <1>5, <1>6, <1>4
    <3>7. cursor.cur <= e BY <3>6, <1>1, <1>4
    <3>8. Ahead(cursor, e) = e - cursor.cur BY <3>7, <1>1, AheadFacts
    <3>9. b < Page /\ e >= Page /\ Ahead(cursor, e) <= Ahead(cursor, b)
      <4>1. b < Page BY <3>1, <1>3, <1>2, ShapeFacts
      <4> QED BY <4>1, <2>1, <3>3, <3>5
    <3> QED BY <3>1, <3>4, <3>8, <3>9, <1>1, <1>3
  <2>3. Answer(o) = Refused("overflow", cursor)
    <3>1. Allocate(Region, cursor, Shape(o)) = Refused("overflow", cursor)
      BY <1>1, <2>1, <2>2
    <3> QED BY <3>1, <1>1 DEF Refused
  <2>4. Refuse(o)
    BY <2>3, <1>1, <1>7, <1>8 DEF Refuse, Searching
  <2>5. RegionNext BY <2>4 DEF RegionNext
  <2>6. ProbeInv'
    BY <1>2, <1>7, <1>8 DEF ProbeInv, Probing, Stop, Region
  <2> QED BY <2>5, <2>6
<1>9. CASE ~GivesUp(s, next)
  <2>1. PICK e \in 0..(Word - 1) : e = next
    <3> HIDE DEF next
    <3> QED BY <1>6
  <2>2. /\ probe' = <<o, e>>
        /\ problem' = problem /\ cursor' = cursor /\ at' = at /\ verdict' = verdict
    BY <1>7, <1>9, <2>1 DEF regionVars
  <2>3. s.zp => e < Page
    <3>1. ~(s.zp /\ e >= Page) BY <1>9, <2>1 DEF GivesUp
    <3> HIDE DEF s
    <3> QED BY <3>1, <1>3
  <2>4. Searching(o, e)
    <3>1. /\ o \notin DOMAIN at /\ verdict = "linking" /\ MustProbe(o)
      BY <1>1 DEF Searching
    <3> QED BY <3>1, <2>1, <2>3, <1>2, <1>4, <1>5, AlignedKeeps
  <2> HIDE DEF next
  <2>5. Searching(o, e)' BY <2>2, <2>4, SearchingStays
  <2>6. o \in Object' BY <2>2 DEF Object
  <2>7. ~Probing' \/ \E p \in Object', k \in 0..(Word - 1) : probe' = <<p, k>> /\ Searching(p, k)'
    BY <2>2, <2>5, <2>6
  <2>8. ProbeInv' BY <2>2, <2>7, <1>2 DEF ProbeInv, Region, Probing
  <2>9. UNCHANGED regionVars BY <2>2 DEF regionVars
  <2> QED BY <2>8, <2>9
<1> QED BY <1>8, <1>9

\* What the loop finds is what the layout says.
LEMMA FindKeeps ==
    ASSUME ProbeInv, Find, Probing
    PROVE  ProbeInv' /\ RegionNext
<1>1. PICK o \in Object, a \in 0..(Word - 1) :
         /\ probe = <<o, a>> /\ Searching(o, a)
         /\ Wanted = Shape(o) /\ Candidate = a
         /\ cursor.cur \in Nat /\ cursor.cur \in 0..(Word - 1)
         /\ Answer(o) = LET found == Allocate(Region, cursor, Shape(o))
                        IN  IF found.answer = "placed" /\ Region.bank > 0
                                 /\ found.at >= Region.end
                            THEN Refused("invalid", cursor) ELSE found
         /\ Allocate(Region, cursor, Shape(o)) =
                IF TailFits(Region, cursor, Shape(o)) = {}
                THEN Refused(IF Shape(o).zp THEN "overflow" ELSE "hangs", cursor)
                ELSE AtTail(Region, cursor, Shape(o),
                            TailAddress(Region, cursor, Shape(o)))
  BY ProbingMeans
<1> DEFINE s == Shape(o)
           fits == TailFits(Region, cursor, s)
           found == AtTail(Region, cursor, s, a)
<1>2. problem \in Problem /\ cursor \in CursorType /\ cursor.cur <= Region.end
      /\ o \notin DOMAIN at /\ verdict = "linking" /\ MustProbe(o)
  BY <1>1 DEF ProbeInv, Searching
<1>3. /\ s.align \in Nat \ {0} /\ s.phase \in Nat /\ s.phase < s.align
      /\ Word \in Nat \ {0}
  BY <1>2, ShapeFacts
<1>4. a \in fits
  <2>1. AlignedAt(s, a) BY <1>1, <1>3, AlignedMeans DEF Searching
  <2>2. PageConstraintsHold(s, a) /\ BankConstraintHolds(Region, a, s.size)
    BY <1>1 DEF Find, Holds
  <2>3. s.zp => cursor.cur <= a BY <1>1 DEF Searching
  <2> QED BY <2>1, <2>2, <2>3 DEF TailFits, Admissible
<1>5. TailAddress(Region, cursor, s) = a
  <2> DEFINE D == {Ahead(cursor, b) : b \in fits}
  <2>1. \A b \in fits : b \in 0..(Word - 1) /\ Ahead(cursor, b) \in Nat
    <3> SUFFICES ASSUME NEW b \in fits
        PROVE b \in 0..(Word - 1) /\ Ahead(cursor, b) \in Nat
      OBVIOUS
    <3>1. b \in 0..(Word - 1) BY DEF TailFits
    <3>2. Ahead(cursor, b) \in 0..(Word - 1) BY <3>1, <1>1, AheadFacts
    <3> QED BY <3>1, <3>2
  <2>2. \A b \in fits : Ahead(cursor, a) <= Ahead(cursor, b) BY <1>1 DEF Searching
  <2> HIDE DEF fits
  <2>3. D \in SUBSET Nat /\ Ahead(cursor, a) \in D /\ D # {} BY <2>1, <1>4
  <2>4. Least(D) \in D /\ \A u \in D : Least(D) <= u
    <3> HIDE DEF D
    <3> QED BY <2>3, LeastExists
  <2>5. Least(D) = Ahead(cursor, a)
    <3>1. Least(D) <= Ahead(cursor, a) BY <2>3, <2>4
    <3>2. Ahead(cursor, a) <= Least(D) BY <2>2, <2>4
    <3>3. Least(D) \in Nat /\ Ahead(cursor, a) \in Nat BY <2>1, <2>3, <2>4, <1>4
    <3> HIDE DEF D
    <3> QED BY <3>1, <3>2, <3>3
  <2>6. \A b \in fits : Ahead(cursor, b) = Ahead(cursor, a) => b = a
    <3> SUFFICES ASSUME NEW b \in fits, Ahead(cursor, b) = Ahead(cursor, a) PROVE b = a
      OBVIOUS
    <3>1. b \in 0..(Word - 1) BY <2>1
    <3> QED BY <3>1, <1>1, <1>3, AheadFacts
  <2>7. TailAddress(Region, cursor, s) = CHOOSE b \in fits : Ahead(cursor, b) = Least(D)
    BY DEF TailAddress, fits
  <2> HIDE DEF D
  <2> QED BY <1>4, <2>5, <2>6, <2>7
<1>6. Allocate(Region, cursor, s) = found
  <2>1. fits # {} BY <1>4
  <2> QED BY <2>1, <1>1, <1>5
<1>7. Answer(o) = IF found.answer = "placed" /\ Region.bank > 0 /\ found.at >= Region.end
                  THEN Refused("invalid", cursor) ELSE found
  <2> HIDE DEF found
  <2> QED BY <1>1, <1>6
<1>8. found.answer = "placed" => found.at = a
  BY DEF AtTail, Refused, Placed
<1> DEFINE beyond == Region.bank > 0 /\ a >= Region.end
<1>9. /\ IF found.answer = "placed" /\ ~beyond
         THEN Accept(o, found)
         ELSE Stop(IF beyond /\ found.answer = "placed"
                   THEN Refused("invalid", cursor) ELSE found)
      /\ probe' = <<>>
  <2>1. probe[1] = o BY <1>1
  <2> QED BY <1>1, <2>1 DEF Find
<1> HIDE DEF found
<1>10. CASE found.answer = "placed" /\ ~beyond
  <2>1. Accept(o, found) BY <1>9, <1>10
  <2>2. Answer(o) = found BY <1>7, <1>8, <1>10
  <2>3. Place(o) BY <2>1, <2>2, <1>2 DEF Place
  <2>4. RegionNext BY <2>3 DEF RegionNext
  <2>5. ProbeInv' BY <1>2, <1>9, <2>3, PlaceKeepsMark DEF ProbeInv, Probing
  <2> QED BY <2>4, <2>5
<1>11. CASE ~(found.answer = "placed" /\ ~beyond)
  <2>1. Stop(IF beyond /\ found.answer = "placed" THEN Refused("invalid", cursor) ELSE found)
    BY <1>9, <1>11
  <2>2. Answer(o) = IF beyond /\ found.answer = "placed" THEN Refused("invalid", cursor) ELSE found
    BY <1>7, <1>8, <1>11
  <2>3. Refuse(o) BY <2>1, <2>2, <1>2 DEF Refuse
  <2>4. RegionNext BY <2>3 DEF RegionNext
  <2>5. ProbeInv' BY <1>2, <1>9, <2>3 DEF ProbeInv, Probing, Refuse, Stop, Region
  <2> QED BY <2>4, <2>5
<1> QED BY <1>10, <1>11

LEMMA DirectKeeps ==
    ASSUME ProbeInv, NEW o \in Object, Direct(o)
    PROVE  ProbeInv' /\ RegionNext
<1>1. ~Probing /\ (Place(o) \/ Refuse(o)) /\ probe' = probe BY DEF Direct
<1>2. problem \in Problem /\ cursor \in CursorType /\ cursor.cur <= Region.end
  BY DEF ProbeInv
<1>3. ~Probing' BY <1>1 DEF Probing
<1>4. RegionNext BY <1>1 DEF RegionNext
<1>5. ProbeInv'
  <2>1. CASE Place(o) BY <2>1, <1>2, <1>3, PlaceKeepsMark DEF ProbeInv
  <2>2. CASE Refuse(o) BY <2>2, <1>2, <1>3 DEF ProbeInv, Refuse, Stop, Region
  <2> QED BY <1>1, <2>1, <2>2
<1> QED BY <1>4, <1>5

LEMMA ProbeNextKeeps ==
    ASSUME ProbeInv, ProbeNext
    PROVE  ProbeInv' /\ [RegionNext]_regionVars
<1>1. CASE Step BY <1>1, StepKeeps
<1>2. CASE Find
  <2>1. Probing BY <1>2 DEF Find
  <2> QED BY <1>2, <2>1, FindKeeps
<1>3. ASSUME NEW o \in Object, Direct(o) PROVE ProbeInv' /\ [RegionNext]_regionVars
  BY <1>3, DirectKeeps
<1>4. ASSUME NEW o \in Object, Begin(o) PROVE ProbeInv' /\ [RegionNext]_regionVars
  <2>1. UNCHANGED regionVars BY <1>4 DEF Begin
  <2> QED BY <2>1, <1>4, BeginKeeps
<1> QED BY <1>1, <1>2, <1>3, <1>4 DEF ProbeNext

-----------------------------------------------------------------------------
(* The steps of a program, as far as the layout is concerned. *)

LEMMA LayoutSteps ==
    ASSUME Next
    PROVE  ProbeNext \/ UNCHANGED probeVars
<1>1. CASE LinkStep BY <1>1 DEF LinkStep, Link
<1>2. CASE Boot BY <1>2 DEF Boot
<1>3. CASE StartupStep BY <1>3 DEF StartupStep, overlayVars
<1>4. CASE NextPhase BY <1>4 DEF NextPhase, overlayVars
<1>5. CASE Restart BY <1>5 DEF Restart, overlayVars
<1>6. ASSUME NEW o \in Objects, Write(o) PROVE UNCHANGED probeVars
  BY <1>6 DEF Write, overlayVars
<1> QED BY <1>1, <1>2, <1>3, <1>4, <1>5, <1>6 DEF Next

LEMMA ProbeInvStays ==
    ASSUME ProbeInv, UNCHANGED probeVars
    PROVE  ProbeInv'
<1>1. /\ problem' = problem /\ cursor' = cursor /\ at' = at /\ verdict' = verdict
      /\ probe' = probe
  BY DEF probeVars
<1>2. CASE Probing
  <2>1. PICK o \in Object, a \in 0..(Word - 1) : probe = <<o, a>> /\ Searching(o, a)
    BY <1>2 DEF ProbeInv
  <2>2. Searching(o, a)' BY <1>1, <2>1, SearchingStays
  <2>3. o \in Object' BY <1>1 DEF Object
  <2>4. \E p \in Object', k \in 0..(Word - 1) : probe' = <<p, k>> /\ Searching(p, k)'
    BY <1>1, <2>1, <2>2, <2>3
  <2> QED BY <1>1, <2>4 DEF ProbeInv, Region
<1>3. CASE ~Probing BY <1>1, <1>3 DEF ProbeInv, Probing, Region
<1> QED BY <1>2, <1>3

LEMMA ProbeInvHolds == Spec => []ProbeInv
<1>1. Init => ProbeInv
  <2> SUFFICES ASSUME Init PROVE ProbeInv OBVIOUS
  <2>1. /\ problem \in Problem /\ cursor = [cur |-> problem.region.start, holes |-> {}]
        /\ probe = <<>>
    BY DEF Init, OverlayInit, ProbeInit, RegionInit
  <2>2. /\ problem.region.start \in Nat /\ problem.region.end \in Nat
        /\ problem.region.start < problem.region.end
    BY <2>1, ProblemBounds
  <2>3. cursor \in CursorType BY <2>1, <2>2 DEF CursorType
  <2>4. cursor.cur <= Region.end BY <2>1, <2>2 DEF Region
  <2> QED BY <2>1, <2>3, <2>4 DEF ProbeInv, Probing
<1>2. ASSUME ProbeInv, [Next]_vars PROVE ProbeInv'
  <2>1. ProbeNext \/ UNCHANGED probeVars
    BY <1>2, LayoutSteps DEF vars, overlayVars
  <2> QED BY <1>2, <2>1, ProbeNextKeeps, ProbeInvStays
<1> QED BY <1>1, <1>2, PTL DEF Spec

\* The loop by which vcsc-ld looks for an address (align, test every constraint,
\* skip a bank that is too full) finds what RegionLayout says: the first address
\* that fits, and it refuses only where none does.  For every region, pools of
\* banks included.
THEOREM ProbesForFirstHolds == Spec => ProbesForFirst
<1>1. Init => RegionInit BY DEF Init, OverlayInit, ProbeInit
<1>2. ASSUME ProbeInv, [Next]_vars PROVE [RegionNext]_regionVars
  <2>1. ProbeNext \/ UNCHANGED probeVars
    BY <1>2, LayoutSteps DEF vars, overlayVars
  <2>2. UNCHANGED probeVars => UNCHANGED regionVars BY DEF probeVars, regionVars
  <2> QED BY <1>2, <2>1, <2>2, ProbeNextKeeps
<1> QED BY <1>1, <1>2, ProbeInvHolds, PTL DEF Spec, ProbesForFirst, RegionSpec

\* What RegionLayout guarantees holds of a program's layout.
THEOREM LayoutAccounted ==
    Spec => [](Ordinary(Region) => RegionAccounted /\ ContractsKept)
<1>1. Spec => RegionSpec BY ProbesForFirstHolds DEF ProbesForFirst
<1> QED BY <1>1, RegionAccountedHolds, ContractsKeptHolds, PTL

-----------------------------------------------------------------------------
(* Induction up to a number. *)

LEMMA UpTo ==
    ASSUME NEW n \in Nat, NEW S, 0 \in S, \A i \in 1..n : i - 1 \in S => i \in S
    PROVE  \A i \in 0..n : i \in S
<1> SUFFICES ASSUME NEW k \in 0..n, k \notin S PROVE FALSE OBVIOUS
<1> DEFINE Bad == {i \in 0..n : i \notin S}
<1>1. Bad \in SUBSET Nat /\ Bad # {} OBVIOUS
<1> HIDE DEF Bad
<1>2. Least(Bad) \in Bad /\ \A i \in Bad : Least(Bad) <= i BY <1>1, LeastExists
<1>3. PICK m \in 0..n : m = Least(Bad) /\ m \notin S /\ \A i \in Bad : m <= i
  BY <1>2 DEF Bad
<1>4. m # 0 BY <1>3
<1>5. m \in 1..n /\ m - 1 \in 0..n BY <1>4
<1>6. m - 1 \in S BY <1>3, <1>5 DEF Bad
<1> QED BY <1>3, <1>5, <1>6

\* A function defined by recursion exists.
Iterates(f, n, S, a, G) ==
    f \in [0..n -> S] /\ f[0] = a /\ \A i \in 1..n : f[i] = G[<<f[i - 1], i>>]

LEMMA Recursion ==
    ASSUME NEW n \in Nat, NEW S, NEW a \in S, NEW G \in [S \X (1..n) -> S]
    PROVE  \E f : Iterates(f, n, S, a, G)
<1> DEFINE P(m) == \E f \in [0..m -> S] : f = [i \in 0..m |-> IF i = 0 THEN a ELSE G[<<f[i - 1], i>>]]
           T == {m \in 0..n : P(m)}
<1>1. 0 \in T
  <2> DEFINE f == [i \in 0..0 |-> a]
  <2>1. f \in [0..0 -> S] /\ f = [i \in 0..0 |-> IF i = 0 THEN a ELSE G[<<f[i - 1], i>>]]
    OBVIOUS
  <2>2. P(0) BY <2>1
  <2> HIDE DEF P
  <2> QED BY <2>2
<1>2. ASSUME NEW m \in 1..n, m - 1 \in T PROVE m \in T
  <2>1. PICK f \in [0..(m - 1) -> S] :
            f = [i \in 0..(m - 1) |-> IF i = 0 THEN a ELSE G[<<f[i - 1], i>>]]
    BY <1>2
  <2> DEFINE g == [i \in 0..m |-> IF i = m THEN G[<<f[m - 1], m>>] ELSE f[i]]
  <2>2. f[m - 1] \in S BY <2>1
  <2>3. g \in [0..m -> S]
    <3>1. ASSUME NEW i \in 0..m PROVE g[i] \in S
      <4>1. CASE i = m BY <4>1, <2>2
      <4>2. CASE i # m
        <5>1. i \in 0..(m - 1) BY <4>2
        <5> QED BY <5>1, <4>2, <2>1
      <4> QED BY <4>1, <4>2
    <3> QED BY <3>1
  <2>4. ASSUME NEW i \in 0..m PROVE g[i] = IF i = 0 THEN a ELSE G[<<g[i - 1], i>>]
    <3>1. CASE i = m
      <4>1. i - 1 \in 0..m /\ i - 1 # m /\ i # 0 BY <3>1
      <4>2. g[i - 1] = f[m - 1] BY <4>1, <3>1
      <4> QED BY <3>1, <4>1, <4>2
    <3>2. CASE i # m
      <4>1. i \in 0..(m - 1) BY <3>2
      <4>2. f[i] = IF i = 0 THEN a ELSE G[<<f[i - 1], i>>] BY <4>1, <2>1
      <4>3. i # 0 => g[i - 1] = f[i - 1]
        <5> SUFFICES ASSUME i # 0 PROVE g[i - 1] = f[i - 1] OBVIOUS
        <5>1. i - 1 \in 0..m /\ i - 1 # m BY <4>1
        <5> QED BY <5>1
      <4>4. g[i] = f[i] BY <3>2
      <4> HIDE DEF g
      <4> QED BY <4>2, <4>3, <4>4
    <3> QED BY <3>1, <3>2
  <2> HIDE DEF g
  <2>5. g = [i \in 0..m |-> IF i = 0 THEN a ELSE G[<<g[i - 1], i>>]] BY <2>3, <2>4
  <2>6. P(m) BY <2>3, <2>5
  <2> HIDE DEF P
  <2> QED BY <2>6
<1> HIDE DEF T
<1>3. \A i \in 0..n : i \in T BY <1>1, <1>2, UpTo
<1>4. n \in T BY <1>3
<1>5. PICK f \in [0..n -> S] : f = [i \in 0..n |-> IF i = 0 THEN a ELSE G[<<f[i - 1], i>>]]
  BY <1>4 DEF T
<1>6. \A i \in 0..n : f[i] = IF i = 0 THEN a ELSE G[<<f[i - 1], i>>] BY <1>5
<1>7. f[0] = a
  <2>1. 0 \in 0..n OBVIOUS
  <2> QED BY <2>1, <1>6
<1>8. ASSUME NEW i \in 1..n PROVE f[i] = G[<<f[i - 1], i>>]
  <2>1. i \in 0..n /\ i # 0 OBVIOUS
  <2> QED BY <2>1, <1>6
<1> QED BY <1>5, <1>7, <1>8 DEF Iterates

-----------------------------------------------------------------------------
(* What is selected from a sequence. *)

OneTime(s) == \A i, j \in DOMAIN s : s[i] = s[j] => i = j

LEMMA AppendFacts ==
    ASSUME NEW T, NEW s \in Seq(T), NEW e \in T
    PROVE  /\ Append(s, e) \in Seq(T)
           /\ Len(Append(s, e)) = Len(s) + 1
           /\ \A i \in DOMAIN s : Append(s, e)[i] = s[i]
           /\ Append(s, e)[Len(s) + 1] = e
           /\ \A i \in DOMAIN Append(s, e) : i \in DOMAIN s \/ i = Len(s) + 1
           /\ Len(s) \in Nat /\ DOMAIN s = 1..Len(s)
           /\ DOMAIN Append(s, e) = 1..(Len(s) + 1)
OBVIOUS

LEMMA MarkedFacts ==
    ASSUME NEW T, NEW s \in Seq(T), NEW holds, \A o \in T : holds[o] \in BOOLEAN
    PROVE  LET r == Marked(s, holds)
           IN  /\ r \in Seq(T)
               /\ \A o : (\E k \in DOMAIN r : r[k] = o) <=> (\E i \in DOMAIN s : s[i] = o /\ holds[o])
               /\ OneTime(s) => OneTime(r)
<1> DEFINE n == Len(s)
           P(f) == f = [i \in 0..n |-> IF i = 0 THEN <<>>
                                       ELSE IF holds[s[i]] THEN Append(f[i - 1], s[i]) ELSE f[i - 1]]
<1>1. n \in Nat /\ DOMAIN s = 1..n /\ \A i \in 1..n : s[i] \in T OBVIOUS
<1>2. \E f : P(f)
  <2> DEFINE G == [t \in Seq(T) \X (1..n) |-> IF holds[s[t[2]]] THEN Append(t[1], s[t[2]]) ELSE t[1]]
  <2>1. \A q \in Seq(T), i \in 1..n :
           /\ G[<<q, i>>] = IF holds[s[i]] THEN Append(q, s[i]) ELSE q
           /\ G[<<q, i>>] \in Seq(T)
    BY <1>1, AppendFacts
  <2>2. <<>> \in Seq(T) OBVIOUS
  <2> HIDE DEF G, n
  <2>3. PICK f \in [0..n -> Seq(T)] :
           f[0] = <<>> /\ \A i \in 1..n : f[i] = G[<<f[i - 1], i>>]
    <3>1. G \in [Seq(T) \X (1..n) -> Seq(T)] BY <2>1 DEF G
    <3>2. PICK f : Iterates(f, n, Seq(T), <<>>, G) BY <2>2, <3>1, <1>1, Recursion
    <3> QED BY <3>2 DEF Iterates
  <2>4. ASSUME NEW i \in 0..n
        PROVE  f[i] = IF i = 0 THEN <<>>
                      ELSE IF holds[s[i]] THEN Append(f[i - 1], s[i]) ELSE f[i - 1]
    <3>1. CASE i = 0 BY <3>1, <2>3
    <3>2. CASE i # 0
      <4>1. i \in 1..n /\ i - 1 \in 0..n BY <3>2, <1>1
      <4>2. f[i - 1] \in Seq(T) /\ f[i] = G[<<f[i - 1], i>>] BY <4>1, <2>3
      <4> QED BY <4>1, <4>2, <2>1
    <3> QED BY <3>1, <3>2
  <2>6. P(f) BY <2>3, <2>4
  <2> HIDE DEF P
  <2> QED BY <2>6
<1> DEFINE F == CHOOSE f : P(f)
           r == Marked(s, holds)
<1>3. P(F) BY <1>2
<1>4. r = F[n] BY DEF Marked
<1>5. \A i \in 0..n : F[i] = IF i = 0 THEN <<>>
                             ELSE IF holds[s[i]] THEN Append(F[i - 1], s[i]) ELSE F[i - 1]
  <2> HIDE DEF F
  <2> QED BY <1>3
<1> HIDE DEF F, r
<1> DEFINE Is(i) == /\ F[i] \in Seq(T)
                    /\ \A k \in DOMAIN F[i] : \E j \in 1..i : F[i][k] = s[j] /\ holds[s[j]]
                    /\ \A j \in 1..i : holds[s[j]] => \E k \in DOMAIN F[i] : F[i][k] = s[j]
                    /\ OneTime(s) => OneTime(F[i])
           S == {i \in 0..n : Is(i)}
<1>6. 0 \in S
  <2>1. F[0] = <<>> BY <1>5, <1>1
  <2>2. Is(0) BY <2>1 DEF OneTime
  <2> HIDE DEF Is
  <2> QED BY <2>2, <1>1
<1>7. ASSUME NEW i \in 1..n, i - 1 \in S PROVE i \in S
  <2>1. Is(i - 1) /\ i - 1 \in 0..n BY <1>7
  <2>2. F[i] = IF holds[s[i]] THEN Append(F[i - 1], s[i]) ELSE F[i - 1] BY <1>5, <1>1
  <2>3. PICK q \in Seq(T) : q = F[i - 1] BY <2>1
  <2>4. /\ \A k \in DOMAIN q : \E j \in 1..(i - 1) : q[k] = s[j] /\ holds[s[j]]
        /\ \A j \in 1..(i - 1) : holds[s[j]] => \E k \in DOMAIN q : q[k] = s[j]
        /\ OneTime(s) => OneTime(q)
    BY <2>1, <2>3
  <2>5. CASE ~holds[s[i]]
    <3>1. F[i] = q BY <2>2, <2>3, <2>5
    <3>2. Is(i)
      <4>1. \A k \in DOMAIN q : \E j \in 1..i : q[k] = s[j] /\ holds[s[j]] BY <2>4
      <4>2. ASSUME NEW j \in 1..i, holds[s[j]] PROVE \E k \in DOMAIN q : q[k] = s[j]
        <5>1. j # i BY <2>5, <4>2
        <5>2. j \in 1..(i - 1) BY <5>1
        <5> QED BY <5>2, <4>2, <2>4
      <4> QED BY <3>1, <4>1, <4>2, <2>4
    <3> HIDE DEF Is
    <3> QED BY <3>2
  <2>6. CASE holds[s[i]]
    <3> DEFINE e == s[i]
               u == Append(q, e)
    <3>1. F[i] = u BY <2>2, <2>3, <2>6
    <3>2. e \in T BY <1>1
    <3>3. /\ u \in Seq(T) /\ Len(u) = Len(q) + 1
          /\ \A k \in DOMAIN q : u[k] = q[k]
          /\ u[Len(q) + 1] = e
          /\ \A k \in DOMAIN u : k \in DOMAIN q \/ k = Len(q) + 1
          /\ Len(q) \in Nat /\ DOMAIN q = 1..Len(q) /\ DOMAIN u = 1..(Len(q) + 1)
      <4> HIDE DEF e
      <4> QED BY <3>2, AppendFacts
    <3> HIDE DEF u
    <3>4. ASSUME NEW k \in DOMAIN u PROVE \E j \in 1..i : u[k] = s[j] /\ holds[s[j]]
      <4>1. CASE k \in DOMAIN q
        <5>1. PICK j \in 1..(i - 1) : q[k] = s[j] /\ holds[s[j]] BY <4>1, <2>4
        <5> QED BY <5>1, <4>1, <3>3
      <4>2. CASE k = Len(q) + 1
        <5>1. u[k] = s[i] /\ i \in 1..i BY <4>2, <3>3
        <5> QED BY <5>1, <2>6
      <4> QED BY <4>1, <4>2, <3>3
    <3>5. ASSUME NEW j \in 1..i, holds[s[j]] PROVE \E k \in DOMAIN u : u[k] = s[j]
      <4>1. CASE j = i
        <5>1. Len(q) + 1 \in DOMAIN u BY <3>3
        <5> QED BY <5>1, <4>1, <3>3
      <4>2. CASE j # i
        <5>1. j \in 1..(i - 1) BY <4>2
        <5>2. PICK k \in DOMAIN q : q[k] = s[j] BY <5>1, <3>5, <2>4
        <5>3. k \in DOMAIN u BY <3>3
        <5> QED BY <5>2, <5>3, <3>3
      <4> QED BY <4>1, <4>2
    <3>6. ASSUME OneTime(s) PROVE OneTime(u)
      <4> SUFFICES ASSUME NEW k \in DOMAIN u, NEW l \in DOMAIN u, u[k] = u[l] PROVE k = l
        BY DEF OneTime
      <4>1. \A m \in DOMAIN q : q[m] # e
        <5> SUFFICES ASSUME NEW m \in DOMAIN q, q[m] = s[i] PROVE FALSE OBVIOUS
        <5>1. PICK j \in 1..(i - 1) : q[m] = s[j] BY <2>4
        <5>2. j \in DOMAIN s /\ i \in DOMAIN s /\ s[i] = s[j] BY <5>1, <1>1
        <5>3. j = i BY <5>2, <3>6 DEF OneTime
        <5> QED BY <5>3
      <4> HIDE DEF e
      <4>2. CASE k \in DOMAIN q /\ l \in DOMAIN q
        <5>1. q[k] = q[l] BY <4>2, <3>3
        <5> QED BY <5>1, <4>2, <2>4, <3>6 DEF OneTime
      <4>3. CASE k \in DOMAIN q /\ l \notin DOMAIN q
        BY <4>1, <4>3, <3>3
      <4>4. CASE k \notin DOMAIN q /\ l \in DOMAIN q
        BY <4>1, <4>4, <3>3
      <4>5. CASE k \notin DOMAIN q /\ l \notin DOMAIN q
        BY <4>5, <3>3
      <4> QED BY <4>2, <4>3, <4>4, <4>5
    <3>7. Is(i) BY <3>1, <3>3, <3>4, <3>5, <3>6
    <3> HIDE DEF Is
    <3> QED BY <3>7
  <2> QED BY <2>5, <2>6
<1> HIDE DEF S
<1>8. \A i \in 0..n : i \in S BY <1>1, <1>6, <1>7, UpTo
<1>9. Is(n) BY <1>8, <1>1 DEF S
<1>10. DOMAIN s = 1..n BY <1>1
<1> HIDE DEF n
<1>11. ASSUME NEW o PROVE (\E k \in DOMAIN r : r[k] = o) <=> (\E i \in DOMAIN s : s[i] = o /\ holds[o])
  <2>1. ASSUME NEW k \in DOMAIN r, r[k] = o PROVE \E i \in DOMAIN s : s[i] = o /\ holds[o]
    BY <2>1, <1>4, <1>9, <1>10
  <2>2. ASSUME NEW i \in DOMAIN s, s[i] = o, holds[o] PROVE \E k \in DOMAIN r : r[k] = o
    BY <2>2, <1>4, <1>9, <1>10
  <2> QED BY <2>1, <2>2
<1> QED BY <1>4, <1>9, <1>11 DEF r

-----------------------------------------------------------------------------
(* The groups of layout_objects. *)

LEMMA LargestExists ==
    ASSUME NEW bound \in Nat, NEW S \in SUBSET (0..bound), S # {}
    PROVE  Largest(S) \in S /\ \A k \in S : k <= Largest(S)
<1> DEFINE D == {bound - k : k \in S}
<1>1. D \in SUBSET Nat /\ D # {}
  <2>1. \A k \in S : k \in 0..bound OBVIOUS
  <2>2. \A k \in S : bound - k \in Nat BY <2>1
  <2> QED BY <2>2
<1>2. Least(D) \in D /\ \A d \in D : Least(D) <= d
  <2> HIDE DEF D
  <2> QED BY <1>1, LeastExists
<1>3. PICK m \in S : Least(D) = bound - m BY <1>2
<1>4. ASSUME NEW k \in S PROVE k <= m
  <2>1. bound - k \in D OBVIOUS
  <2>2. bound - m <= bound - k
    <3> HIDE DEF D
    <3> QED BY <2>1, <1>2, <1>3
  <2> QED BY <2>2
<1>5. \E m2 \in S : \A k \in S : k <= m2 BY <1>4
<1> QED BY <1>5 DEF Largest

LEMMA ObjectFacts ==
    ASSUME NEW p \in Program, NEW o \in DOMAIN p.object
    PROVE  /\ p.object[o].shape \in ShapeType
           /\ p.object[o].shape.size \in 1..Top
           /\ p.object[o].shape.align \in Nat \ {0} /\ p.object[o].shape.align \in 0..Top
           /\ p.object[o].shape.phase \in Nat
           /\ Top % p.object[o].shape.align = 0
           /\ p.object[o].shape.phase < p.object[o].shape.align
           /\ SizeOf(p, o) = p.object[o].shape.size
           /\ Top \in Nat \ {0}
           /\ ObjectType(p.object[o])
<1>1. /\ ObjectType(p.object[o]) /\ Top \in Nat \ {0}
  BY ProgramAssumption, WidthAssumption
<1>2. /\ p.object[o].shape \in ShapeType
      /\ Top % p.object[o].shape.align = 0
      /\ p.object[o].shape.phase < p.object[o].shape.align
  BY <1>1 DEF ObjectType
<1>3. \A s \in ShapeType : /\ s.size \in 1..Top /\ s.align \in Nat \ {0} /\ s.phase \in Nat
  BY DEF ShapeType
<1>4. PICK n \in Nat \ {0} : n = p.object[o].shape.align BY <1>2, <1>3
<1>5. n <= Top
  <2> SUFFICES ASSUME Top < n PROVE FALSE BY <1>1, <1>4
  <2>1. Top \in 0..(n - 1) BY <1>1, <1>4
  <2>2. Top % n = Top BY <2>1, <1>4, ModSmall
  <2> QED BY <2>2, <1>1, <1>2, <1>4
<1>6. p.object[o].shape.align \in 0..Top BY <1>1, <1>4, <1>5
<1> QED BY <1>1, <1>2, <1>3, <1>6 DEF SizeOf

\* Sequences of the same elements, each once.
Arrangements(n, R) == {q \in [1..n -> R] : /\ OneTime(q) /\ \A o \in R : \E k \in 1..n : q[k] = o}

LEMMA SwapFacts ==
    ASSUME NEW n \in Nat, NEW R, NEW q \in Arrangements(n, R), NEW i \in 1..n, NEW j \in 1..n
    PROVE  Swapped(q, i, j) \in Arrangements(n, R)
<1> DEFINE w == Swapped(q, i, j)
           back(k) == IF k = i THEN j ELSE IF k = j THEN i ELSE k
<1>1. q \in [1..n -> R] /\ OneTime(q) /\ \A o \in R : \E k \in 1..n : q[k] = o
  BY DEF Arrangements
<1>2. w \in [1..n -> R] /\ \A k \in 1..n : w[k] = q[back(k)]
  <2>1. w = [[q EXCEPT ![i] = q[j]] EXCEPT ![j] = q[i]] BY DEF Swapped
  <2>2. \A k \in 1..n : [q EXCEPT ![i] = q[j]][k] = IF k = i THEN q[j] ELSE q[k]
    BY <1>1
  <2>3. [q EXCEPT ![i] = q[j]] \in [1..n -> R] BY <1>1
  <2>4. \A k \in 1..n : w[k] = IF k = j THEN q[i] ELSE [q EXCEPT ![i] = q[j]][k]
    BY <2>1, <2>3
  <2>5. w \in [1..n -> R] BY <2>1, <2>3, <1>1
  <2> QED BY <2>2, <2>4, <2>5
<1> HIDE DEF w
<1>3. \A k \in 1..n : back(k) \in 1..n /\ back(back(k)) = k OBVIOUS
<1>4. OneTime(w)
  <2> SUFFICES ASSUME NEW k \in 1..n, NEW l \in 1..n, w[k] = w[l] PROVE k = l
    BY <1>2 DEF OneTime
  <2> HIDE DEF back
  <2>1. q[back(k)] = q[back(l)] BY <1>2
  <2>2. back(k) = back(l) BY <2>1, <1>1, <1>3 DEF OneTime
  <2> QED BY <2>2, <1>3
<1>5. ASSUME NEW o \in R PROVE \E k \in 1..n : w[k] = o
  <2>1. PICK k \in 1..n : q[k] = o BY <1>1
  <2> HIDE DEF back
  <2>2. back(k) \in 1..n /\ w[back(k)] = q[back(back(k))] BY <1>2, <1>3
  <2> QED BY <2>1, <2>2, <1>3
<1> QED BY <1>2, <1>4, <1>5 DEF Arrangements, w

Overlaid(p) == {o \in DOMAIN p.object : Overlayable(p, o)}

LEMMA CandidatesFacts ==
    ASSUME NEW p \in Program
    PROVE  /\ Len(Candidates(p)) \in Nat
           /\ Candidates(p) \in Arrangements(Len(Candidates(p)), Overlaid(p))
<1> DEFINE c == Candidates(p)
           mark == [o \in DOMAIN p.object |-> Overlayable(p, o)]
<1>1. /\ p.order \in Seq(DOMAIN p.object) /\ OneTime(p.order)
      /\ {p.order[i] : i \in DOMAIN p.order} = DOMAIN p.object
  BY ProgramAssumption DEF OneTime
<1>2. \A o \in DOMAIN p.object : mark[o] = Overlayable(p, o) /\ Overlayable(p, o) \in BOOLEAN
  BY DEF Overlayable
<1> HIDE DEF mark
<1>3. /\ c \in Seq(DOMAIN p.object) /\ OneTime(c)
      /\ \A o : (\E k \in DOMAIN c : c[k] = o) <=> (\E i \in DOMAIN p.order : p.order[i] = o /\ mark[o])
  <2>1. \A o \in DOMAIN p.object : mark[o] \in BOOLEAN BY <1>2
  <2>2. c = Marked(p.order, mark) BY DEF Candidates, mark
  <2> HIDE DEF c
  <2> QED BY <1>1, <2>1, <2>2, MarkedFacts
<1> HIDE DEF c
<1>4. Len(c) \in Nat /\ DOMAIN c = 1..Len(c) /\ c \in [1..Len(c) -> DOMAIN p.object] BY <1>3
<1>5. ASSUME NEW k \in 1..Len(c) PROVE c[k] \in Overlaid(p)
  <2>1. c[k] \in DOMAIN p.object /\ mark[c[k]] BY <1>3, <1>4
  <2> QED BY <2>1, <1>2 DEF Overlaid
<1>6. ASSUME NEW o \in Overlaid(p) PROVE \E k \in 1..Len(c) : c[k] = o
  <2>1. o \in DOMAIN p.object /\ mark[o] BY <1>2 DEF Overlaid
  <2>2. \E i \in DOMAIN p.order : p.order[i] = o BY <1>1, <2>1
  <2> QED BY <2>1, <2>2, <1>3, <1>4
<1>7. c \in [1..Len(c) -> Overlaid(p)] BY <1>4, <1>5
<1> QED BY <1>3, <1>4, <1>6, <1>7 DEF Arrangements, c

\* The selection sort neither loses nor doubles a candidate.
LEMMA BySizeFacts ==
    ASSUME NEW p \in Program
    PROVE  \E n \in Nat : BySize(p) \in Arrangements(n, Overlaid(p))
<1> DEFINE c == Candidates(p)
           R == Overlaid(p)
           m == Len(c)
           A == Arrangements(m, R)
           LargestFrom(s, i) ==
             Least({j \in i..Len(s) : \A k \in i..Len(s) : SizeOf(p, s[k]) <= SizeOf(p, s[j])})
           P(f) == f = [i \in 0..m |-> IF i = 0 THEN c
                          ELSE LET s == f[i - 1] IN Swapped(s, i, LargestFrom(s, i))]
<1>1. m \in Nat /\ c \in A BY CandidatesFacts
<1>2. ASSUME NEW q \in A, NEW i \in 1..m PROVE Swapped(q, i, LargestFrom(q, i)) \in A
  <2>1. q \in [1..m -> R] BY DEF Arrangements
  <2>2. \A k \in 1..m : SizeOf(p, q[k]) \in 1..Top /\ Top \in Nat
    <3> SUFFICES ASSUME NEW k \in 1..m PROVE SizeOf(p, q[k]) \in 1..Top /\ Top \in Nat OBVIOUS
    <3>1. q[k] \in DOMAIN p.object BY <2>1 DEF Overlaid
    <3> QED BY <3>1, ObjectFacts
  <2>3. Len(q) = m
    <3>1. q \in Seq(R) BY <2>1, <1>1
    <3> QED BY <3>1, <2>1, <1>1
  <2> DEFINE J == {j \in i..m : \A k \in i..m : SizeOf(p, q[k]) <= SizeOf(p, q[j])}
             Z == {SizeOf(p, q[k]) : k \in i..m}
  <2>4. J # {}
    <3>1. Z \in SUBSET (0..Top) /\ Z # {} /\ Top \in Nat BY <2>2, <1>1
    <3>2. Largest(Z) \in Z /\ \A k \in Z : k <= Largest(Z)
      <4> HIDE DEF Z
      <4> QED BY <3>1, LargestExists
    <3>3. PICK j \in i..m : Largest(Z) = SizeOf(p, q[j]) BY <3>2
    <3>4. \A k \in i..m : SizeOf(p, q[k]) <= SizeOf(p, q[j]) BY <3>2, <3>3
    <3> QED BY <3>3, <3>4
  <2>5. J \in SUBSET Nat /\ J \in SUBSET (1..m) BY <1>1
  <2>6. Least(J) \in J
    <3> HIDE DEF J
    <3> QED BY <2>4, <2>5, LeastExists
  <2>7. LargestFrom(q, i) = Least(J) BY <2>3
  <2> HIDE DEF J, LargestFrom
  <2>8. LargestFrom(q, i) \in 1..m BY <2>5, <2>6, <2>7
  <2> QED BY <2>8, <1>1, SwapFacts
<1> DEFINE G == [t \in A \X (1..m) |-> Swapped(t[1], t[2], LargestFrom(t[1], t[2]))]
<1>3. /\ G \in [A \X (1..m) -> A]
      /\ \A q \in A, i \in 1..m : G[<<q, i>>] = Swapped(q, i, LargestFrom(q, i))
  <2> HIDE DEF A, LargestFrom, m
  <2> QED BY <1>2
<1> HIDE DEF G
<1>4. \E f : P(f)
  <2> HIDE DEF A, m, c
  <2>1. PICK f : Iterates(f, m, A, c, G) BY <1>1, <1>3, Recursion
  <2>2. f \in [0..m -> A] /\ f[0] = c /\ \A i \in 1..m : f[i] = G[<<f[i - 1], i>>]
    BY <2>1 DEF Iterates
  <2>3. ASSUME NEW i \in 0..m
        PROVE  f[i] = IF i = 0 THEN c
                      ELSE Swapped(f[i - 1], i, LargestFrom(f[i - 1], i))
    <3>1. CASE i = 0 BY <3>1, <2>2
    <3>2. CASE i # 0
      <4>1. i \in 1..m /\ i - 1 \in 0..m BY <3>2, <1>1
      <4>2. f[i - 1] \in A /\ f[i] = G[<<f[i - 1], i>>] BY <4>1, <2>2
      <4> HIDE DEF LargestFrom
      <4> QED BY <4>1, <4>2, <1>3
    <3> QED BY <3>1, <3>2
  <2> HIDE DEF LargestFrom
  <2>4. P(f) BY <2>2, <2>3
  <2> HIDE DEF P
  <2> QED BY <2>4
<1> DEFINE F == CHOOSE f : P(f)
<1>5. P(F) BY <1>4
<1>6. BySize(p) = F[m] BY DEF BySize
<1>7. \A i \in 0..m : F[i] = IF i = 0 THEN c ELSE Swapped(F[i - 1], i, LargestFrom(F[i - 1], i))
  <2> HIDE DEF F, LargestFrom, m, c
  <2> QED BY <1>5
<1> HIDE DEF F, LargestFrom, A, m, c
<1> DEFINE S == {i \in 0..m : F[i] \in A}
<1>8. 0 \in S BY <1>1, <1>7
<1>9. ASSUME NEW i \in 1..m, i - 1 \in S PROVE i \in S
  <2>1. F[i - 1] \in A BY <1>9
  <2>2. F[i] = Swapped(F[i - 1], i, LargestFrom(F[i - 1], i)) BY <1>1, <1>7
  <2> QED BY <2>1, <2>2, <1>2
<1> HIDE DEF S
<1>10. \A i \in 0..m : i \in S BY <1>1, <1>8, <1>9, UpTo
<1>11. F[m] \in A BY <1>1, <1>10 DEF S
<1> QED BY <1>1, <1>6, <1>11 DEF A

\* Two of a group never meet in a phase.
Compatible(p, g) ==
    \A o, q \in g : o # q => Mask(p.object[o]) \cap Mask(p.object[q]) = {}

\* What the candidate e does to the groups.
Grouped(p, gs, e) ==
    LET free == {j \in DOMAIN gs : Joins(p, gs[j], e)}
    IN  IF free = {} THEN Append(gs, {e})
        ELSE [gs EXCEPT ![Least(free)] = @ \cup {e}]

\* Members of the groups are those of older ones, or e.
FromOlder(gs, new, e) ==
    \A j \in DOMAIN new : \A o \in new[j] : o = e \/ \E k \in DOMAIN gs : o \in gs[k]

SoundGroups(p, gs) ==
    /\ \A j \in DOMAIN gs : Compatible(p, gs[j])
    /\ \A j, k \in DOMAIN gs : j # k => gs[j] \cap gs[k] = {}

LEMMA GroupedFacts ==
    ASSUME NEW p, NEW R, NEW gs \in Seq(SUBSET R), NEW e \in R
    PROVE  /\ Grouped(p, gs, e) \in Seq(SUBSET R)
           /\ FromOlder(gs, Grouped(p, gs, e), e)
           /\ SoundGroups(p, gs) /\ (\A j \in DOMAIN gs : e \notin gs[j])
                => SoundGroups(p, Grouped(p, gs, e))
<1> DEFINE free == {j \in DOMAIN gs : Joins(p, gs[j], e)}
           new == Grouped(p, gs, e)
<1>1. Len(gs) \in Nat /\ DOMAIN gs = 1..Len(gs) /\ \A j \in DOMAIN gs : gs[j] \in SUBSET R
  OBVIOUS
<1>2. CASE free = {}
  <2>1. new = Append(gs, {e}) BY <1>2 DEF Grouped
  <2>2. {e} \in SUBSET R OBVIOUS
  <2>3. /\ new \in Seq(SUBSET R)
        /\ \A i \in DOMAIN gs : new[i] = gs[i]
        /\ new[Len(gs) + 1] = {e}
        /\ \A i \in DOMAIN new : i \in DOMAIN gs \/ i = Len(gs) + 1
        /\ Len(gs) + 1 \notin DOMAIN gs
    <3>1. PICK T : T = SUBSET R OBVIOUS
    <3>2. gs \in Seq(T) /\ {e} \in T BY <2>2, <3>1
    <3> HIDE DEF new
    <3> QED BY <2>1, <3>1, <3>2, <1>1, AppendFacts
  <2> HIDE DEF new
  <2>4. ASSUME NEW j \in DOMAIN new, NEW o \in new[j]
        PROVE  o = e \/ \E k \in DOMAIN gs : o \in gs[k]
    BY <2>3
  <2>5. ASSUME SoundGroups(p, gs), \A j \in DOMAIN gs : e \notin gs[j]
        PROVE  SoundGroups(p, new)
    <3>1. ASSUME NEW j \in DOMAIN new PROVE Compatible(p, new[j])
      <4>1. CASE j \in DOMAIN gs BY <4>1, <2>3, <2>5 DEF SoundGroups
      <4>2. CASE j = Len(gs) + 1 BY <4>2, <2>3 DEF Compatible
      <4> QED BY <4>1, <4>2, <2>3
    <3>2. ASSUME NEW j \in DOMAIN new, NEW k \in DOMAIN new, j # k PROVE new[j] \cap new[k] = {}
      BY <2>3, <2>5, <3>2 DEF SoundGroups
    <3> QED BY <3>1, <3>2 DEF SoundGroups
  <2> QED BY <2>3, <2>4, <2>5 DEF new, FromOlder
<1>3. CASE free # {}
  <2>1. free \in SUBSET Nat BY <1>1
  <2>2. Least(free) \in free
    <3> HIDE DEF free
    <3> QED BY <1>3, <2>1, LeastExists
  <2>3. PICK m \in DOMAIN gs : m = Least(free) /\ Joins(p, gs[m], e) BY <2>2
  <2>4. new = [gs EXCEPT ![m] = @ \cup {e}] BY <1>3, <2>3 DEF Grouped
  <2> HIDE DEF free, new
  <2>5. gs[m] \cup {e} \in SUBSET R BY <1>1
  <2>6. /\ new \in Seq(SUBSET R) /\ DOMAIN new = DOMAIN gs
        /\ new[m] = gs[m] \cup {e}
        /\ \A j \in DOMAIN gs : j # m => new[j] = gs[j]
    <3>1. PICK T : T = SUBSET R OBVIOUS
    <3>2. PICK v : v = gs[m] \cup {e} OBVIOUS
    <3>3. gs \in Seq(T) /\ v \in T /\ new = [gs EXCEPT ![m] = v] BY <2>4, <2>5, <3>1, <3>2
    <3>4. new \in Seq(T) /\ DOMAIN new = DOMAIN gs /\ new[m] = v
          /\ \A j \in DOMAIN gs : j # m => new[j] = gs[j]
      BY <3>3
    <3> QED BY <3>1, <3>2, <3>4
  <2>7. ASSUME NEW j \in DOMAIN new, NEW o \in new[j]
        PROVE  o = e \/ \E k \in DOMAIN gs : o \in gs[k]
    <3>1. CASE j = m BY <3>1, <2>6
    <3>2. CASE j # m BY <3>2, <2>6
    <3> QED BY <3>1, <3>2
  <2>8. ASSUME SoundGroups(p, gs), \A j \in DOMAIN gs : e \notin gs[j]
        PROVE  SoundGroups(p, new)
    <3>1. ASSUME NEW j \in DOMAIN new PROVE Compatible(p, new[j])
      <4>1. CASE j = m
        <5>1. Compatible(p, gs[m]) BY <2>8 DEF SoundGroups
        <5>2. \A o \in gs[m] : Mask(p.object[o]) \cap Mask(p.object[e]) = {}
          BY <2>3 DEF Joins, GroupMask
        <5>3. ASSUME NEW o \in new[m], NEW q \in new[m], o # q
              PROVE  Mask(p.object[o]) \cap Mask(p.object[q]) = {}
          <6>1. CASE o \in gs[m] /\ q \in gs[m] BY <6>1, <5>1, <5>3 DEF Compatible
          <6>2. CASE o = e /\ q \in gs[m] BY <6>2, <5>2
          <6>3. CASE o \in gs[m] /\ q = e BY <6>3, <5>2
          <6> QED BY <6>1, <6>2, <6>3, <5>3, <2>6
        <5> QED BY <5>3, <4>1 DEF Compatible
      <4>2. CASE j # m BY <4>2, <2>6, <2>8 DEF SoundGroups
      <4> QED BY <4>1, <4>2
    <3>2. ASSUME NEW j \in DOMAIN new, NEW k \in DOMAIN new, j # k PROVE new[j] \cap new[k] = {}
      <4>1. gs[j] \cap gs[k] = {} /\ e \notin gs[j] /\ e \notin gs[k]
        BY <2>6, <2>8, <3>2 DEF SoundGroups
      <4>2. new[j] = gs[j] \/ (j = m /\ new[j] = gs[j] \cup {e}) BY <2>6
      <4>3. new[k] = gs[k] \/ (k = m /\ new[k] = gs[k] \cup {e}) BY <2>6
      <4> QED BY <4>1, <4>2, <4>3, <3>2
    <3> QED BY <3>1, <3>2 DEF SoundGroups
  <2> QED BY <2>6, <2>7, <2>8 DEF new, FromOlder
<1> QED BY <1>2, <1>3

\* Groups are apart, of candidates only, and no two of a group meet in a phase.
LEMMA GroupsFacts ==
    ASSUME NEW p \in Program
    PROVE  /\ \A g \in Groups(p) : g \subseteq Overlaid(p) /\ Compatible(p, g)
           /\ \A g, h \in Groups(p) : g = h \/ g \cap h = {}
<1> DEFINE s == BySize(p)
           R == Overlaid(p)
<1>1. PICK n \in Nat : s \in Arrangements(n, R) BY BySizeFacts
<1> DEFINE P(f) == f = [i \in 0..n |-> IF i = 0 THEN <<>>
              ELSE LET gs == f[i - 1]
                       free == {j \in DOMAIN gs : Joins(p, gs[j], s[i])}
                   IN  IF free = {} THEN Append(gs, {s[i]})
                       ELSE [gs EXCEPT ![Least(free)] = @ \cup {s[i]}]]
           F == CHOOSE f : P(f)
<1>2. s \in [1..n -> R] /\ OneTime(s) BY <1>1 DEF Arrangements
<1>3. Len(s) = n
  <2> HIDE DEF s, R
  <2>1. s \in Seq(R) BY <1>2
  <2> QED BY <2>1, <1>2
<1>4. Groups(p) = {F[n][j] : j \in 1..Len(F[n])}
  <2> HIDE DEF s
  <2>1. Groups(p) = LET f == CHOOSE f : P(f) IN {f[n][j] : j \in 1..Len(f[n])}
    BY <1>3 DEF Groups, s
  <2> QED BY <2>1
<1> HIDE DEF s, R
<1> DEFINE A == Seq(SUBSET R)
           G == [t \in A \X (1..n) |-> Grouped(p, t[1], s[t[2]])]
<1>5. /\ G \in [A \X (1..n) -> A]
      /\ \A q \in A, i \in 1..n : G[<<q, i>>] = Grouped(p, q, s[i])
  <2>1. \A q \in A, i \in 1..n : Grouped(p, q, s[i]) \in A BY <1>2, GroupedFacts
  <2> HIDE DEF A
  <2> QED BY <2>1
<1> HIDE DEF G
<1>6. \E f : P(f)
  <2>1. <<>> \in A OBVIOUS
  <2> HIDE DEF A
  <2>2. PICK f : Iterates(f, n, A, <<>>, G) BY <2>1, <1>5, Recursion
  <2>3. f \in [0..n -> A] /\ f[0] = <<>> /\ \A i \in 1..n : f[i] = G[<<f[i - 1], i>>]
    BY <2>2 DEF Iterates
  <2>4. ASSUME NEW i \in 0..n
        PROVE  f[i] = IF i = 0 THEN <<>> ELSE Grouped(p, f[i - 1], s[i])
    <3>1. CASE i = 0 BY <3>1, <2>3
    <3>2. CASE i # 0
      <4>1. i \in 1..n /\ i - 1 \in 0..n BY <3>2
      <4>2. f[i - 1] \in A /\ f[i] = G[<<f[i - 1], i>>] BY <4>1, <2>3
      <4> QED BY <4>1, <4>2, <1>5
    <3> QED BY <3>1, <3>2
  <2>5. f = [i \in 0..n |-> IF i = 0 THEN <<>> ELSE Grouped(p, f[i - 1], s[i])]
    BY <2>3, <2>4
  <2>6. P(f) BY <2>5 DEF Grouped
  <2> HIDE DEF P
  <2> QED BY <2>6
<1>7. P(F) BY <1>6
<1>8. \A i \in 0..n : F[i] = IF i = 0 THEN <<>> ELSE Grouped(p, F[i - 1], s[i])
  <2>1. F = [i \in 0..n |-> IF i = 0 THEN <<>> ELSE Grouped(p, F[i - 1], s[i])]
    <3> HIDE DEF F
    <3> QED BY <1>7 DEF Grouped
  <2> HIDE DEF F
  <2> QED BY <2>1
<1> HIDE DEF F
<1> DEFINE Is(i) == /\ F[i] \in A /\ SoundGroups(p, F[i])
                    /\ \A j \in DOMAIN F[i] : \A o \in F[i][j] : \E k \in 1..i : o = s[k]
           S == {i \in 0..n : Is(i)}
<1>9. 0 \in S
  <2>1. F[0] = <<>> BY <1>8
  <2>2. Is(0) BY <2>1 DEF SoundGroups
  <2> HIDE DEF Is
  <2> QED BY <2>2
<1>10. ASSUME NEW i \in 1..n, i - 1 \in S PROVE i \in S
  <2>1. Is(i - 1) BY <1>10
  <2>2. F[i] = Grouped(p, F[i - 1], s[i]) BY <1>8
  <2>3. \A j \in DOMAIN F[i - 1] : s[i] \notin F[i - 1][j]
    <3> SUFFICES ASSUME NEW j \in DOMAIN F[i - 1], s[i] \in F[i - 1][j] PROVE FALSE OBVIOUS
    <3>1. PICK k \in 1..(i - 1) : s[i] = s[k] BY <2>1
    <3>2. k \in 1..n /\ k # i OBVIOUS
    <3> QED BY <3>1, <3>2, <1>2 DEF OneTime
  <2>4. PICK gs \in A : gs = F[i - 1] BY <2>1
  <2>5. PICK e \in R : e = s[i] BY <1>2
  <2>6. /\ Grouped(p, gs, e) \in A /\ SoundGroups(p, Grouped(p, gs, e))
        /\ FromOlder(gs, Grouped(p, gs, e), e)
    <3>1. SoundGroups(p, gs) /\ \A j \in DOMAIN gs : e \notin gs[j] BY <2>1, <2>3, <2>4, <2>5
    <3>2. gs \in Seq(SUBSET R) BY <2>4
    <3> HIDE DEF A, Is, S
    <3>3. Grouped(p, gs, e) \in Seq(SUBSET R) /\ FromOlder(gs, Grouped(p, gs, e), e)
      BY ONLY <3>2, <2>5, GroupedFacts
    <3>4. SoundGroups(p, Grouped(p, gs, e)) BY ONLY <3>1, <3>2, <2>5, GroupedFacts
    <3> QED BY <3>3, <3>4 DEF A
  <2>7. F[i] = Grouped(p, gs, e) BY <2>2, <2>4, <2>5
  <2>8. ASSUME NEW j \in DOMAIN F[i], NEW o \in F[i][j] PROVE \E k \in 1..i : o = s[k]
    <3>1. CASE o = e BY <3>1, <2>5
    <3>2. CASE o # e
      <4>1. PICK k \in DOMAIN gs : o \in gs[k] BY <3>2, <2>6, <2>7 DEF FromOlder
      <4>2. PICK l \in 1..(i - 1) : o = s[l] BY <4>1, <2>1, <2>4
      <4> QED BY <4>2
    <3> QED BY <3>1, <3>2
  <2>9. Is(i) BY <2>6, <2>7, <2>8
  <2> HIDE DEF Is
  <2> QED BY <2>9
<1> HIDE DEF S
<1>11. \A i \in 0..n : i \in S BY <1>9, <1>10, UpTo
<1>12. Is(n) BY <1>11 DEF S
<1>13. DOMAIN F[n] = 1..Len(F[n]) /\ \A j \in DOMAIN F[n] : F[n][j] \in SUBSET R BY <1>12
<1> HIDE DEF A
<1>14. ASSUME NEW g \in Groups(p) PROVE g \subseteq R /\ Compatible(p, g)
  BY <1>4, <1>12, <1>13 DEF SoundGroups
<1>15. ASSUME NEW g \in Groups(p), NEW h \in Groups(p) PROVE g = h \/ g \cap h = {}
  <2>1. PICK j \in DOMAIN F[n] : g = F[n][j] BY <1>4, <1>13
  <2>2. PICK k \in DOMAIN F[n] : h = F[n][k] BY <1>4, <1>13
  <2> QED BY <2>1, <2>2, <1>12 DEF SoundGroups
<1> QED BY <1>14, <1>15 DEF R

-----------------------------------------------------------------------------
(* The slots. *)

LEMMA PlaceFacts ==
    ASSUME NEW p \in Program, NEW o \in DOMAIN p.object
    PROVE  PlaceIn(p, o) \in DOMAIN p.order /\ PlaceIn(p, o) \in Nat \ {0} /\ p.order[PlaceIn(p, o)] = o
<1>1. /\ p.order \in Seq(DOMAIN p.object)
      /\ {p.order[i] : i \in DOMAIN p.order} = DOMAIN p.object
  BY ProgramAssumption
<1>2. \E i \in DOMAIN p.order : p.order[i] = o BY <1>1
<1>3. PlaceIn(p, o) \in DOMAIN p.order /\ p.order[PlaceIn(p, o)] = o BY <1>2 DEF PlaceIn
<1> QED BY <1>1, <1>3

LEMMA LeaderFacts ==
    ASSUME NEW p \in Program, NEW g \in SUBSET (DOMAIN p.object), g # {}
    PROVE  Leader(p, g) \in g
<1> DEFINE S == {PlaceIn(p, o) : o \in g}
<1>1. S \in SUBSET Nat /\ S # {} BY PlaceFacts
<1>2. Least(S) \in S /\ \A k \in S : Least(S) <= k
  <2> HIDE DEF S
  <2> QED BY <1>1, LeastExists
<1>3. PICK o \in g : Least(S) = PlaceIn(p, o) BY <1>2
<1>4. ASSUME NEW m \in g PROVE PlaceIn(p, o) <= PlaceIn(p, m)
  <2>1. PlaceIn(p, m) \in S OBVIOUS
  <2> HIDE DEF S
  <2> QED BY <2>1, <1>2, <1>3
<1> QED BY <1>4 DEF Leader

LEMMA SharedFacts ==
    ASSUME NEW p \in Program, NEW g \in Shared(p)
    PROVE  /\ g \subseteq Overlaid(p) /\ Compatible(p, g)
           /\ \A h \in Shared(p) : g = h \/ g \cap h = {}
           /\ Leader(p, g) \in g
           /\ \A o \in g : /\ o \in DOMAIN p.object
                           /\ (CHOOSE h \in Shared(p) : o \in h) = g
                           /\ SlotOf(p, Shared(p), o) = Leader(p, g)
<1>1. g \in Groups(p) /\ Cardinality(g) > 1 /\ \A h \in Shared(p) : h \in Groups(p) BY DEF Shared
<1>2. g \subseteq Overlaid(p) /\ Compatible(p, g) BY <1>1, GroupsFacts
<1>3. \A h \in Shared(p) : g = h \/ g \cap h = {} BY <1>1, GroupsFacts
<1>4. g # {}
  <2> SUFFICES ASSUME g = {} PROVE FALSE OBVIOUS
  <2>1. Cardinality(g) = 0 BY FS_EmptySet
  <2> QED BY <1>1, <2>1
<1>5. g \in SUBSET (DOMAIN p.object) BY <1>2 DEF Overlaid
<1>6. Leader(p, g) \in g BY <1>4, <1>5, LeaderFacts
<1>7. ASSUME NEW o \in g
      PROVE  (CHOOSE h \in Shared(p) : o \in h) = g /\ SlotOf(p, Shared(p), o) = Leader(p, g)
  <2>1. \A h \in Shared(p) : o \in h => h = g BY <1>3
  <2>2. (CHOOSE h \in Shared(p) : o \in h) = g BY <2>1
  <2> QED BY <2>2 DEF SlotOf
<1> QED BY <1>2, <1>3, <1>5, <1>6, <1>7

Alone(p, o) == \A g \in Shared(p) : o \notin g

LEMMA AloneFacts ==
    ASSUME NEW p \in Program, NEW o \in DOMAIN p.object, Alone(p, o)
    PROVE  /\ SlotOf(p, Shared(p), o) = o
           /\ o \in DOMAIN Merged(p, Shared(p)).shape
           /\ Merged(p, Shared(p)).shape[o] = p.object[o].shape
<1>1. ~\E g \in Shared(p) : o \in g BY DEF Alone
<1>2. SlotOf(p, Shared(p), o) = o BY <1>1 DEF SlotOf
<1>3. o \in {SlotOf(p, Shared(p), q) : q \in DOMAIN p.object} BY <1>2
<1> QED BY <1>1, <1>2, <1>3 DEF Merged

LEMMA SlotFacts ==
    ASSUME NEW p \in Program, NEW g \in Shared(p)
    PROVE  /\ Leader(p, g) \in DOMAIN Merged(p, Shared(p)).shape
           /\ \A o \in g : SizeOf(p, o) <= Merged(p, Shared(p)).shape[Leader(p, g)].size
<1> DEFINE l == Leader(p, g)
           G == Shared(p)
           Z == {s.size : s \in {p.object[o].shape : o \in g}}
<1>1. l \in g /\ l \in DOMAIN p.object /\ SlotOf(p, G, l) = l /\ (CHOOSE h \in G : l \in h) = g
  BY SharedFacts
<1>2. l \in {SlotOf(p, G, q) : q \in DOMAIN p.object} BY <1>1
<1>3. Merged(p, G).shape[l] = SlotShape(p, g)
  <2>1. \E h \in G : l \in h BY <1>1
  <2> HIDE DEF l, G
  <2> QED BY <1>1, <1>2, <2>1 DEF Merged
<1>4. p.object[l].shape \in ShapeType BY <1>1, ObjectFacts
<1>5. SlotShape(p, g).size = Largest(Z)
  <2> HIDE DEF Z
  <2> QED BY <1>4 DEF SlotShape, ShapeType, Z
<1>6. \A o \in g : SizeOf(p, o) \in Z /\ SizeOf(p, o) \in 0..Top /\ Top \in Nat
  <2> SUFFICES ASSUME NEW o \in g PROVE SizeOf(p, o) \in Z /\ SizeOf(p, o) \in 0..Top /\ Top \in Nat
    OBVIOUS
  <2>1. o \in DOMAIN p.object BY SharedFacts
  <2>2. SizeOf(p, o) \in Z BY DEF SizeOf
  <2> QED BY <2>1, <2>2, ObjectFacts
<1>7. Z \in SUBSET (0..Top) /\ Z # {} /\ Top \in Nat BY <1>1, <1>6 DEF SizeOf
<1>8. \A k \in Z : k <= Largest(Z)
  <2> HIDE DEF Z
  <2> QED BY <1>7, LargestExists
<1>9. DOMAIN Merged(p, G).shape = {SlotOf(p, G, q) : q \in DOMAIN p.object} BY DEF Merged
<1> QED BY <1>2, <1>3, <1>5, <1>6, <1>8, <1>9

-----------------------------------------------------------------------------
(* Every member of a slot is asked. *)

LinkInv ==
    /\ program \in Program
    /\ shared = Shared(program)
    /\ problem = Merged(program, shared)
    /\ stage \in {"link", "members", "refused", "linked", "booted"}
    /\ (stage = "link" \/ Linked) => \A o \in DOMAIN at : MembersSuit(o, at[o])
    /\ Linked => DOMAIN at = Object

LEMMA PlacedStay ==
    ASSUME [RegionNext]_regionVars
    PROVE  /\ problem' = problem
           /\ \A o \in DOMAIN at : o \in DOMAIN at' /\ at'[o] = at[o]
<1>1. CASE UNCHANGED regionVars BY <1>1 DEF regionVars
<1>2. ASSUME NEW o \in Object, Place(o)
      PROVE  /\ problem' = problem
             /\ \A q \in DOMAIN at : q \in DOMAIN at' /\ at'[q] = at[q]
  BY <1>2 DEF Place, Accept
<1>3. ASSUME NEW o \in Object, Refuse(o)
      PROVE  problem' = problem /\ at' = at
  BY <1>3 DEF Refuse, Stop
<1> QED BY <1>1, <1>2, <1>3 DEF RegionNext

LEMMA StageSteps ==
    ASSUME [Next]_vars
    PROVE  \/ LinkStep
           \/ Boot
           \/ UNCHANGED overlayVars
<1>1. CASE LinkStep BY <1>1
<1>2. CASE Boot BY <1>2
<1>3. CASE StartupStep BY <1>3 DEF StartupStep
<1>4. CASE NextPhase BY <1>4 DEF NextPhase
<1>5. CASE Restart BY <1>5 DEF Restart
<1>6. ASSUME NEW o \in Objects, Write(o) PROVE UNCHANGED overlayVars
  BY <1>6 DEF Write
<1>7. CASE UNCHANGED vars BY <1>7 DEF vars
<1> QED BY <1>1, <1>2, <1>3, <1>4, <1>5, <1>6, <1>7 DEF Next

LEMMA LinkKeeps ==
    ASSUME ProbeInv, LinkInv, Link
    PROVE  LinkInv'
<1>1. /\ program' = program /\ shared' = shared /\ stage = "link" /\ ProbeNext
      /\ stage' = IF verdict' # "linking" THEN "refused"
                  ELSE IF \E o \in DOMAIN at' \ DOMAIN at : ~MembersSuit(o, at'[o])
                  THEN "members"
                  ELSE IF DOMAIN at' = Object THEN "linked"
                  ELSE "link"
  BY DEF Link
<1>2. /\ problem' = problem /\ Object' = Object
      /\ \A o \in DOMAIN at : o \in DOMAIN at' /\ at'[o] = at[o]
  <2>1. [RegionNext]_regionVars BY <1>1, ProbeNextKeeps
  <2> QED BY <2>1, PlacedStay DEF Object
<1>3. \A o, a : Suits(o, a)' <=> Suits(o, a) BY <1>1 DEF Suits
<1>4. \A slot, a : MembersSuit(slot, a)' <=> MembersSuit(slot, a)
  BY <1>1, <1>3 DEF MembersSuit
<1>5. ASSUME stage' \in {"link", "linked"}, NEW o \in DOMAIN at' PROVE MembersSuit(o, at'[o])
  <2>1. CASE o \in DOMAIN at BY <2>1, <1>1, <1>2 DEF LinkInv
  <2>2. CASE o \notin DOMAIN at BY <2>2, <1>1, <1>5
  <2> QED BY <2>1, <2>2
<1>6. ASSUME NEW o \in DOMAIN at', stage' \in {"link", "linked"} PROVE MembersSuit(o, at[o])'
  <2>1. MembersSuit(o, at'[o]) BY <1>5, <1>6
  <2> QED BY <2>1, <1>1, <1>3 DEF MembersSuit, Suits
<1>7. /\ program' \in Program /\ shared' = Shared(program') /\ problem' = Merged(program', shared')
      /\ stage' \in {"link", "members", "refused", "linked"}
      /\ stage' = "linked" => DOMAIN at' = Object'
  BY <1>1, <1>2 DEF LinkInv
<1> QED BY <1>6, <1>7 DEF LinkInv, Linked

LEMMA LinkInvHolds == Spec => []LinkInv
<1>1. Init => LinkInv
  <2> SUFFICES ASSUME Init PROVE LinkInv OBVIOUS
  <2>1. /\ program \in Program /\ shared = Shared(program)
        /\ problem = Merged(program, Shared(program)) /\ stage = "link" /\ at = <<>>
    BY DEF Init, OverlayInit, ProbeInit, RegionInit
  <2>2. DOMAIN at = {} BY <2>1
  <2> QED BY <2>1, <2>2 DEF LinkInv, Linked
<1>2. ASSUME ProbeInv, LinkInv, [Next]_vars PROVE LinkInv'
  <2>1. CASE LinkStep BY <1>2, <2>1, LinkKeeps DEF LinkStep
  <2>2. CASE Boot
    <3>1. /\ stage = "linked" /\ stage' = "booted"
          /\ program' = program /\ shared' = shared /\ problem' = problem /\ at' = at
      BY <2>2 DEF Boot, probeVars
    <3>2. \A o \in DOMAIN at : MembersSuit(o, at[o])' <=> MembersSuit(o, at[o])
      BY <3>1 DEF MembersSuit, Suits
    <3> QED BY <1>2, <3>1, <3>2 DEF LinkInv, Linked, Object
  <2>3. CASE UNCHANGED overlayVars
    <3>1. stage' = stage /\ program' = program /\ shared' = shared /\ problem' = problem /\ at' = at
      BY <2>3 DEF overlayVars, probeVars
    <3>2. \A o \in DOMAIN at : MembersSuit(o, at[o])' <=> MembersSuit(o, at[o])
      BY <3>1 DEF MembersSuit, Suits
    <3> QED BY <1>2, <3>1, <3>2 DEF LinkInv, Linked, Object
  <2> QED BY <1>2, <2>1, <2>2, <2>3, StageSteps
<1> QED BY <1>1, <1>2, ProbeInvHolds, PTL DEF Spec

LEMMA SuitsIsKept ==
    ASSUME program \in Program, NEW o \in Overlaid(program), NEW a \in Nat, Suits(o, a)
    PROVE  Kept(program.object[o].shape, a)
<1> DEFINE s == program.object[o].shape
<1>1. /\ s \in ShapeType /\ s.align \in Nat \ {0} /\ s.phase \in Nat /\ s.phase < s.align
      /\ ObjectType(program.object[o]) /\ program.object[o].kind \in {"bss", "zp"}
  BY ObjectFacts DEF Overlaid, Overlayable
<1>2. s.branches = {} BY <1>1 DEF ObjectType
<1>3. PageConstraintsHold(s, a) /\ AlignedAt(s, a) BY DEF Suits
<1> HIDE DEF s
<1>4. /\ s.size \in Nat \ {0} /\ s.reads \in SUBSET Nat
      /\ s.window[1] \in Nat /\ s.window[2] \in Nat
  BY <1>1, WidthAssumption DEF ShapeType
<1>5. a % s.align = s.phase BY <1>1, <1>3, AlignedMeans
<1>6. s.page => a \div Page = (a + s.size - 1) \div Page
  BY <1>3, <1>4, SamePage DEF PageConstraintsHold
<1>7. s.window[2] > 0 =>
          (a + s.window[1]) \div Page = (a + s.window[1] + s.window[2] - 1) \div Page
  <2> SUFFICES ASSUME s.window[2] > 0
      PROVE (a + s.window[1]) \div Page = (a + s.window[1] + s.window[2] - 1) \div Page
    OBVIOUS
  <2>1. FitsOnePage(a + s.window[1], s.window[2]) BY <1>3 DEF PageConstraintsHold
  <2>2. a + s.window[1] \in Nat /\ s.window[2] \in Nat \ {0} BY <1>4
  <2> QED BY <2>1, <2>2, SamePage
<1>8. ASSUME NEW d \in s.reads PROVE a + d \notin Hazard
  <2> SUFFICES ASSUME a + d \in Hazard PROVE FALSE OBVIOUS
  <2>1. a + d \in 0..(Top - 1) /\ Top \in Nat \ {0} BY WidthAssumption
  <2>2. (a + d) % Top = a + d BY <2>1, ModSmall
  <2> QED BY <2>2, <1>3 DEF PageConstraintsHold
<1>9. s.zp => a + s.size <= Page BY <1>3 DEF PageConstraintsHold
<1> QED BY <1>2, <1>5, <1>6, <1>7, <1>8, <1>9 DEF Kept, s

\* Types of the layout, too.
LEMMA RegionTypeHolds == Spec => [](Ordinary(Region) => RegionTypeOK)
<1>1. Spec => RegionSpec BY ProbesForFirstHolds DEF ProbesForFirst
<1> QED BY <1>1, RegionTypeCorrect, PTL

\* Whatever shares its slot, an object has the page, alignment, window and read
\* constraints it asked for itself: the members of a slot are asked as soon as
\* it has an address, and an object that shares has no branches.
THEOREM MembersKeepOwnHolds == Spec => [](Ordinary(Region) => MembersKeepOwn)
<1>1. ASSUME LinkInv, Ordinary(Region) => RegionTypeOK,
             Ordinary(Region) => RegionAccounted /\ ContractsKept
      PROVE  Ordinary(Region) => MembersKeepOwn
  <2> SUFFICES ASSUME Ordinary(Region), Linked, NEW o \in DOMAIN program.object
      PROVE  Kept(program.object[o].shape, AddressOf(o))
    BY DEF MembersKeepOwn
  <2>1. /\ program \in Program /\ shared = Shared(program) /\ problem = Merged(program, Shared(program))
        /\ \A l \in DOMAIN at : MembersSuit(l, at[l])
        /\ DOMAIN at = DOMAIN Merged(program, Shared(program)).shape
    BY <1>1 DEF LinkInv, Object
  <2>2. AddressOf(o) = at[SlotOf(program, Shared(program), o)] BY <2>1 DEF AddressOf
  <2>3. CASE Alone(program, o)
    <3>1. /\ SlotOf(program, Shared(program), o) = o /\ o \in DOMAIN at
          /\ Shape(o) = program.object[o].shape
      BY <2>1, <2>3, AloneFacts DEF Shape
    <3> QED BY <3>1, <2>2, <1>1 DEF ContractsKept
  <2>4. CASE ~Alone(program, o)
    <3>1. PICK g \in Shared(program) : o \in g BY <2>4 DEF Alone
    <3>2. /\ g \subseteq Overlaid(program)
          /\ SlotOf(program, Shared(program), o) = Leader(program, g)
          /\ Leader(program, g) \in g
      BY <2>1, <3>1, SharedFacts
    <3>3. Leader(program, g) \in DOMAIN at BY <2>1, <3>1, SlotFacts
    <3>4. PICK a : a = at[Leader(program, g)] OBVIOUS
    <3>5. a \in Nat BY <1>1, <3>3, <3>4, <2>1, ProblemFacts DEF RegionTypeOK, Region
    <3>6. Suits(o, a) BY <2>1, <3>1, <3>2, <3>3, <3>4 DEF MembersSuit
    <3>7. o \in Overlaid(program) BY <3>1, <3>2
    <3>8. Kept(program.object[o].shape, a) BY <2>1, <3>5, <3>6, <3>7, SuitsIsKept
    <3> QED BY <3>8, <3>4, <3>2, <2>2
  <2> QED BY <2>3, <2>4
<1> QED BY <1>1, LinkInvHolds, RegionTypeHolds, LayoutAccounted, PTL

-----------------------------------------------------------------------------
(* The bytes of the objects. *)

\* Every object lies in the region, and only members of one slot share bytes.
LaidOut ==
    /\ Region.start \in Nat /\ Region.end \in Nat /\ Region.end <= Top
    /\ \A o \in Objects :
          /\ AddressOf(o) \in Nat /\ Region.start <= AddressOf(o)
          /\ AddressOf(o) + SizeOf(program, o) <= Region.end
    /\ \A o, q \in Objects :
          \/ o = q
          \/ AddressOf(o) + SizeOf(program, o) <= AddressOf(q)
          \/ AddressOf(q) + SizeOf(program, q) <= AddressOf(o)
          \/ \E g \in shared : o \in g /\ q \in g

LEMMA SlotOfObject ==
    ASSUME NEW p \in Program, NEW o \in DOMAIN p.object
    PROVE  /\ SlotOf(p, Shared(p), o) \in DOMAIN Merged(p, Shared(p)).shape
           /\ SizeOf(p, o) <= Merged(p, Shared(p)).shape[SlotOf(p, Shared(p), o)].size
           /\ \A q \in DOMAIN p.object :
                 SlotOf(p, Shared(p), q) = SlotOf(p, Shared(p), o) =>
                    q = o \/ \E g \in Shared(p) : o \in g /\ q \in g
<1>1. CASE Alone(p, o)
  <2>1. /\ SlotOf(p, Shared(p), o) = o /\ o \in DOMAIN Merged(p, Shared(p)).shape
        /\ Merged(p, Shared(p)).shape[o] = p.object[o].shape
    BY <1>1, AloneFacts
  <2>2. SizeOf(p, o) \in Nat /\ SizeOf(p, o) = p.object[o].shape.size BY ObjectFacts
  <2>3. ASSUME NEW q \in DOMAIN p.object, SlotOf(p, Shared(p), q) = o PROVE q = o
    <3>1. CASE Alone(p, q) BY <3>1, <2>3, AloneFacts
    <3>2. CASE ~Alone(p, q)
      <4>1. PICK g \in Shared(p) : q \in g BY <3>2 DEF Alone
      <4>2. Leader(p, g) = o /\ Leader(p, g) \in g BY <4>1, <2>3, SharedFacts
      <4> QED BY <4>2, <1>1 DEF Alone
    <3> QED BY <3>1, <3>2
  <2> QED BY <2>1, <2>2, <2>3
<1>2. CASE ~Alone(p, o)
  <2>1. PICK g \in Shared(p) : o \in g BY <1>2 DEF Alone
  <2>2. SlotOf(p, Shared(p), o) = Leader(p, g) /\ Leader(p, g) \in g BY <2>1, SharedFacts
  <2>3. ASSUME NEW q \in DOMAIN p.object, SlotOf(p, Shared(p), q) = Leader(p, g) PROVE q \in g
    <3>1. CASE Alone(p, q)
      <4>1. q = Leader(p, g) BY <3>1, <2>3, AloneFacts
      <4> QED BY <4>1, <2>2
    <3>2. CASE ~Alone(p, q)
      <4>1. PICK h \in Shared(p) : q \in h BY <3>2 DEF Alone
      <4>2. Leader(p, h) = Leader(p, g) /\ Leader(p, h) \in h BY <4>1, <2>3, SharedFacts
      <4>3. g = h BY <4>2, <2>2, SharedFacts
      <4> QED BY <4>1, <4>3
    <3> QED BY <3>1, <3>2
  <2> QED BY <2>1, <2>2, <2>3, SlotFacts
<1> QED BY <1>1, <1>2

LEMMA LaidOutHolds ==
    ASSUME LinkInv, Linked, Ordinary(Region), problem \in Problem, RegionTypeOK, RegionAccounted
    PROVE  LaidOut
<1>1. /\ program \in Program /\ shared = Shared(program) /\ problem = Merged(program, Shared(program))
      /\ DOMAIN at = DOMAIN Merged(program, Shared(program)).shape
      /\ Object = DOMAIN Merged(program, Shared(program)).shape
      /\ \A l \in Object : Shape(l) = Merged(program, Shared(program)).shape[l]
  BY DEF LinkInv, Object, Shape
<1>2. /\ Region.start \in Nat /\ Region.end \in Nat /\ Region.end <= Top
      /\ \A l \in Object : Shape(l).size \in Nat
  BY ProblemFacts DEF Region, Object, Shape
<1> DEFINE slot(o) == SlotOf(program, Shared(program), o)
<1>3. ASSUME NEW o \in Objects
      PROVE  /\ slot(o) \in Object /\ slot(o) \in DOMAIN at /\ AddressOf(o) = at[slot(o)]
             /\ SizeOf(program, o) \in Nat /\ SizeOf(program, o) <= Shape(slot(o)).size
             /\ \A q \in Objects : slot(q) = slot(o) =>
                    q = o \/ \E g \in shared : o \in g /\ q \in g
  <2>1. o \in DOMAIN program.object BY DEF Objects
  <2>2. SizeOf(program, o) \in Nat BY <1>1, <2>1, ObjectFacts
  <2>3. AddressOf(o) = at[slot(o)] BY <1>1 DEF AddressOf
  <2> HIDE DEF slot
  <2>4. /\ slot(o) \in DOMAIN Merged(program, Shared(program)).shape
        /\ SizeOf(program, o) <= Merged(program, Shared(program)).shape[slot(o)].size
        /\ \A q \in DOMAIN program.object : slot(q) = slot(o) =>
                  q = o \/ \E g \in Shared(program) : o \in g /\ q \in g
    BY <1>1, <2>1, SlotOfObject DEF slot
  <2> QED BY <1>1, <2>2, <2>3, <2>4 DEF Objects
<1> HIDE DEF slot
<1>4. /\ cursor.cur \in Nat /\ cursor.cur <= Region.end
      /\ \A l \in DOMAIN at : /\ at[l] \in Nat /\ Region.start <= at[l]
                              /\ at[l] + Shape(l).size <= cursor.cur
      /\ \A l, m \in DOMAIN at :
            l = m \/ at[l] + Shape(l).size <= at[m] \/ at[m] + Shape(m).size <= at[l]
  <2>1. \A l \in DOMAIN at : at[l] \in Nat /\ cursor.cur \in Nat
    BY <1>2 DEF RegionTypeOK, CursorType
  <2>2. cursor.cur \in Nat BY <1>2 DEF RegionTypeOK, CursorType
  <2> QED BY <2>1, <2>2 DEF RegionAccounted, RegionPartitioned, ObjectsApart, EndOf
<1>5. ASSUME NEW o \in Objects
      PROVE  /\ AddressOf(o) \in Nat /\ Region.start <= AddressOf(o)
             /\ AddressOf(o) + SizeOf(program, o) <= Region.end
  <2>1. PICK n \in Nat : n = Shape(slot(o)).size BY <1>2, <1>3
  <2>2. /\ at[slot(o)] \in Nat /\ Region.start <= at[slot(o)] /\ at[slot(o)] + n <= cursor.cur
    BY <1>3, <1>4, <2>1
  <2> QED BY <1>2, <1>3, <1>4, <2>1, <2>2
<1>6. ASSUME NEW o \in Objects, NEW q \in Objects
      PROVE  \/ o = q
             \/ AddressOf(o) + SizeOf(program, o) <= AddressOf(q)
             \/ AddressOf(q) + SizeOf(program, q) <= AddressOf(o)
             \/ \E g \in shared : o \in g /\ q \in g
  <2>1. CASE slot(o) = slot(q) BY <2>1, <1>3
  <2>2. CASE slot(o) # slot(q)
    <3>1. PICK n \in Nat, m \in Nat : n = Shape(slot(o)).size /\ m = Shape(slot(q)).size
      BY <1>2, <1>3
    <3>2. at[slot(o)] + n <= at[slot(q)] \/ at[slot(q)] + m <= at[slot(o)]
      BY <1>3, <1>4, <2>2, <3>1
    <3>3. /\ AddressOf(o) = at[slot(o)] /\ AddressOf(q) = at[slot(q)]
          /\ AddressOf(o) \in Nat /\ AddressOf(q) \in Nat
          /\ SizeOf(program, o) \in Nat /\ SizeOf(program, o) <= n
          /\ SizeOf(program, q) \in Nat /\ SizeOf(program, q) <= m
      BY <1>3, <1>5, <3>1
    <3> QED BY <3>2, <3>3
  <2> QED BY <2>1, <2>2
<1> QED BY <1>2, <1>5, <1>6 DEF LaidOut

-----------------------------------------------------------------------------
(* Sequences one behind the other. *)

Joined(s, t) == s \o t

\* w is s followed by t.
IsJoin(w, s, t) ==
    /\ Len(w) = Len(s) + Len(t)
    /\ \A i \in 1..Len(s) : w[i] = s[i]
    /\ \A i \in 1..Len(t) : w[Len(s) + i] = t[i]
    /\ Len(s) \in Nat /\ Len(t) \in Nat

LEMMA JoinFacts ==
    ASSUME NEW T, NEW s \in Seq(T), NEW t \in Seq(T)
    PROVE  Joined(s, t) \in Seq(T) /\ IsJoin(Joined(s, t), s, t)
<1>1. Joined(s, t) \in Seq(T) BY DEF Joined
<1>2. Len(Joined(s, t)) = Len(s) + Len(t) /\ Len(s) \in Nat /\ Len(t) \in Nat BY DEF Joined
<1>3. \A i \in 1..Len(s) : Joined(s, t)[i] = s[i] BY DEF Joined
<1>4. \A i \in 1..Len(t) : Joined(s, t)[Len(s) + i] = t[i] BY DEF Joined
<1> QED BY <1>1, <1>2, <1>3, <1>4 DEF IsJoin

\* Where the pieces are in what they make up.
IsFlat(f, off, n, ss) ==
    /\ Len(f) = off[n]
    /\ \A i \in 1..n : \A j \in 1..Len(ss[i]) :
          f[off[i - 1] + j] = ss[i][j] /\ off[i - 1] + j \in 1..off[n]

LEMMA FlatFacts ==
    ASSUME NEW T, NEW n \in Nat, NEW ss \in [1..n -> Seq(T)],
           NEW off \in [0..n -> Nat], off[0] = 0,
           \A i \in 1..n : off[i] = off[i - 1] + Len(ss[i])
    PROVE  Flat(ss) \in Seq(T) /\ IsFlat(Flat(ss), off, n, ss)
<1>1. Len(ss) = n
  <2>1. ss \in Seq(Seq(T)) OBVIOUS
  <2> QED BY <2>1
<1> DEFINE A == Seq(T)
           P(f) == f = [i \in 0..n |-> IF i = 0 THEN <<>> ELSE Joined(f[i - 1], ss[i])]
           G == [t \in A \X (1..n) |-> Joined(t[1], ss[t[2]])]
           F == CHOOSE f : P(f)
<1>2. Flat(ss) = F[n]
  <2>1. Flat(ss) = LET f == CHOOSE f : P(f) IN f[n] BY <1>1 DEF Flat, Joined
  <2> QED BY <2>1
<1>3. <<>> \in A /\ \A i \in 1..n : ss[i] \in A OBVIOUS
<1>4. /\ G \in [A \X (1..n) -> A]
      /\ \A q \in A, i \in 1..n : G[<<q, i>>] = Joined(q, ss[i])
  <2>1. \A q \in A, i \in 1..n : Joined(q, ss[i]) \in A BY JoinFacts
  <2> HIDE DEF A
  <2> QED BY <2>1
<1>5. \E f : P(f)
  <2> HIDE DEF A, G
  <2>1. PICK f : Iterates(f, n, A, <<>>, G) BY <1>3, <1>4, Recursion
  <2>2. f \in [0..n -> A] /\ f[0] = <<>> /\ \A i \in 1..n : f[i] = G[<<f[i - 1], i>>]
    BY <2>1 DEF Iterates
  <2>3. ASSUME NEW i \in 0..n
        PROVE  f[i] = IF i = 0 THEN <<>> ELSE Joined(f[i - 1], ss[i])
    <3>1. CASE i = 0 BY <3>1, <2>2
    <3>2. CASE i # 0
      <4>1. i \in 1..n /\ i - 1 \in 0..n BY <3>2
      <4>2. f[i - 1] \in A /\ f[i] = G[<<f[i - 1], i>>] BY <4>1, <2>2
      <4> QED BY <4>1, <4>2, <1>4
    <3> QED BY <3>1, <3>2
  <2>4. P(f) BY <2>2, <2>3
  <2> HIDE DEF P
  <2> QED BY <2>4
<1>6. P(F) BY <1>5
<1>7. \A i \in 0..n : F[i] = IF i = 0 THEN <<>> ELSE Joined(F[i - 1], ss[i])
  <2> HIDE DEF F
  <2> QED BY <1>6
<1> HIDE DEF F, G, P
<1> DEFINE Is(i) == /\ F[i] \in A /\ Len(F[i]) = off[i]
                    /\ \A k \in 1..i : \A j \in 1..Len(ss[k]) :
                          F[i][off[k - 1] + j] = ss[k][j] /\ off[k - 1] + j \in 1..off[i]
           S == {i \in 0..n : Is(i)}
<1>8. 0 \in S
  <2>1. F[0] = <<>> BY <1>7
  <2>2. Is(0) BY <2>1
  <2> HIDE DEF Is
  <2> QED BY <2>2
<1>9. ASSUME NEW i \in 1..n, i - 1 \in S PROVE i \in S
  <2>1. Is(i - 1) BY <1>9
  <2>2. PICK q \in A : q = F[i - 1] BY <2>1
  <2>3. PICK t \in A : t = ss[i] BY <1>3
  <2>4. F[i] = Joined(q, t) BY <1>7, <2>2, <2>3
  <2>5. /\ F[i] \in A /\ Len(F[i]) = Len(q) + Len(t)
        /\ \A k \in 1..Len(q) : F[i][k] = q[k]
        /\ \A k \in 1..Len(t) : F[i][Len(q) + k] = t[k]
        /\ Len(q) \in Nat /\ Len(t) \in Nat
    <3>1. q \in Seq(T) /\ t \in Seq(T) OBVIOUS
    <3>2. Joined(q, t) \in Seq(T) /\ IsJoin(Joined(q, t), q, t)
      BY ONLY <3>1, JoinFacts
    <3>3. F[i] \in A /\ IsJoin(F[i], q, t) BY <3>2, <2>4
    <3> HIDE DEF A
    <3> QED BY <3>3 DEF IsJoin
  <2>6. Len(q) = off[i - 1] /\ off[i] = off[i - 1] + Len(t) /\ off[i - 1] \in Nat /\ off[i] \in Nat
    BY <2>1, <2>2, <2>3
  <2> HIDE DEF A
  <2>7. ASSUME NEW k \in 1..i, NEW j \in 1..Len(ss[k])
        PROVE  F[i][off[k - 1] + j] = ss[k][j] /\ off[k - 1] + j \in 1..off[i]
    <3>1. CASE k = i
      <4>1. j \in 1..Len(t) /\ ss[k][j] = t[j] /\ off[k - 1] = Len(q) BY <3>1, <2>3, <2>6
      <4>2. F[i][Len(q) + j] = t[j] BY <4>1, <2>5
      <4>3. F[i][off[k - 1] + j] = ss[k][j] BY <4>1, <4>2
      <4>4. off[i] = Len(q) + Len(t) BY <2>6
      <4>5. Len(q) + j \in 1..(Len(q) + Len(t)) BY <4>1, <2>5
      <4> QED BY <4>1, <4>3, <4>4, <4>5
    <3>2. CASE k # i
      <4>1. k \in 1..(i - 1) BY <3>2
      <4>2. q[off[k - 1] + j] = ss[k][j] /\ off[k - 1] + j \in 1..off[i - 1]
        BY <4>1, <2>1, <2>2
      <4>3. PICK k2 \in 1..off[i - 1] : k2 = off[k - 1] + j BY <4>2
      <4>4. k2 \in 1..Len(q) BY <2>6
      <4>5. F[i][k2] = q[k2] BY <4>4, <2>5
      <4>6. F[i][off[k - 1] + j] = ss[k][j] BY <4>2, <4>3, <4>5
      <4>7. k2 \in 1..off[i] BY <4>4, <2>5, <2>6
      <4> QED BY <4>3, <4>6, <4>7
    <3> QED BY <3>1, <3>2
  <2>8. Is(i) BY <2>5, <2>6, <2>7
  <2> HIDE DEF Is
  <2> QED BY <2>8
<1> HIDE DEF S
<1>10. n \in S
  <2>1. \A i \in 0..n : i \in S BY <1>8, <1>9, UpTo
  <2> QED BY <2>1
<1> QED BY <1>2, <1>10 DEF S, IsFlat

-----------------------------------------------------------------------------
(* The tables as bytes. *)

LEMMA PairFacts ==
    ASSUME NEW n \in Nat
    PROVE  /\ Pair(n) \in Seq(Nat) /\ Len(Pair(n)) = 2
           /\ Pair(n)[1] = Low(n) /\ Pair(n)[2] = High(n)
           /\ Low(n) \in 0..(Byte - 1) /\ High(n) \in Nat
           /\ Low(n) + Byte * High(n) = n
<1>1. Byte \in Nat \ {0} BY ByteAssumption
<1>2. n % Byte \in 0..(Byte - 1) /\ n \div Byte \in Int /\ n = Byte * (n \div Byte) + (n % Byte)
  BY <1>1, ModRange
<1>3. n \div Byte \in Nat BY <1>1
<1> QED BY <1>1, <1>2, <1>3 DEF Pair, Low, High

\* A table t of n records of l bytes each, whose bytes are those of the pieces.
IsTable(t, n, l, ss) ==
    /\ t \in Seq(Nat) /\ Len(t) = l * n + l
    /\ \A k \in 1..n : \A j \in 1..l : t[l * (k - 1) + j] = ss[k][j]
    /\ \A j \in 1..l : t[l * n + j] = 0

LEMMA TableFacts ==
    ASSUME NEW n \in Nat, NEW l \in {2, 4, 6}, NEW ss \in [1..n -> Seq(Nat)],
           \A k \in 1..n : Len(ss[k]) = l
    PROVE  IsTable(Terminated(Flat(ss), l), n, l, ss)
<1> DEFINE off == [i \in 0..n |-> l * i]
           f == Flat(ss)
           z == [i \in 1..l |-> 0]
           t == Terminated(Flat(ss), l)
<1>1. /\ off \in [0..n -> Nat] /\ off[0] = 0
      /\ \A i \in 1..n : off[i] = off[i - 1] + Len(ss[i])
  <2>1. \A i \in 0..n : off[i] = l * i /\ l * i \in Nat
    <3>1. CASE l = 2 BY <3>1
    <3>2. CASE l = 4 BY <3>2
    <3>3. CASE l = 6 BY <3>3
    <3> QED BY <3>1, <3>2, <3>3
  <2>2. ASSUME NEW i \in 1..n PROVE off[i] = off[i - 1] + Len(ss[i])
    <3>1. i \in 0..n /\ i - 1 \in 0..n BY DEF off
    <3>2. off[i] = l * i /\ off[i - 1] = l * (i - 1) BY <2>1, <3>1
    <3>3. Len(ss[i]) = l OBVIOUS
    <3> HIDE DEF off
    <3>4. CASE l = 2 BY <3>2, <3>3, <3>4
    <3>5. CASE l = 4 BY <3>2, <3>3, <3>5
    <3>6. CASE l = 6 BY <3>2, <3>3, <3>6
    <3> QED BY <3>4, <3>5, <3>6
  <2>3. off[0] = 0 BY <2>1
  <2> QED BY <2>1, <2>2, <2>3
<1>2. \A i \in 0..n : off[i] = l * i /\ l * i \in Nat
  <2>1. CASE l = 2 BY <2>1
  <2>2. CASE l = 4 BY <2>2
  <2>3. CASE l = 6 BY <2>3
  <2> QED BY <2>1, <2>2, <2>3
<1>3. \A i \in 1..n : i - 1 \in 0..n OBVIOUS
<1> HIDE DEF off, f
<1>4. /\ f \in Seq(Nat) /\ Len(f) = off[n]
      /\ \A i \in 1..n : \A j \in 1..Len(ss[i]) :
            f[off[i - 1] + j] = ss[i][j] /\ off[i - 1] + j \in 1..off[n]
  <2>1. Flat(ss) \in Seq(Nat) /\ IsFlat(Flat(ss), off, n, ss) BY <1>1, FlatFacts
  <2> QED BY <2>1 DEF f, IsFlat
<1>5. Len(f) = l * n /\ l * n \in Nat BY <1>2, <1>4
<1>6. z \in Seq(Nat) /\ Len(z) = l /\ \A j \in 1..l : z[j] = 0
  <2>1. CASE l = 2 BY <2>1
  <2>2. CASE l = 4 BY <2>2
  <2>3. CASE l = 6 BY <2>3
  <2> QED BY <2>1, <2>2, <2>3
<1> HIDE DEF z
<1>7. t = Joined(f, z) BY DEF Terminated, Joined, f, z
<1> HIDE DEF t
<1>8. t \in Seq(Nat) /\ IsJoin(t, f, z) BY <1>4, <1>6, <1>7, JoinFacts
<1>9. Len(t) = l * n + l BY <1>5, <1>6, <1>8 DEF IsJoin
<1>10. ASSUME NEW k \in 1..n, NEW j \in 1..l PROVE t[l * (k - 1) + j] = ss[k][j]
  <2>1. PICK m \in 1..off[n] : m = off[k - 1] + j /\ f[m] = ss[k][j] BY <1>4
  <2>2. m = l * (k - 1) + j BY <2>1, <1>2, <1>3
  <2>3. t[m] = f[m] BY <1>2, <1>4, <1>8 DEF IsJoin
  <2> QED BY <2>1, <2>2, <2>3
<1>11. ASSUME NEW j \in 1..l PROVE t[l * n + j] = 0
  BY <1>5, <1>6, <1>8 DEF IsJoin
<1> QED BY <1>8, <1>9, <1>10, <1>11 DEF IsTable, t

CopyRecord == [from : Nat, to : Nat, size : Nat]
ZeroRecord == [to : Nat, size : Nat]

LEMMA CopyBytesFacts ==
    ASSUME NEW n \in Nat, NEW rs \in [1..n -> CopyRecord]
    PROVE  /\ CopyBytes(rs) \in Seq(Nat) /\ Len(CopyBytes(rs)) = 6 * n + 6
           /\ \A k \in 1..n :
                 /\ CopyBytes(rs)[6 * (k - 1) + 1] = Low(rs[k].from)
                 /\ CopyBytes(rs)[6 * (k - 1) + 2] = High(rs[k].from)
                 /\ CopyBytes(rs)[6 * (k - 1) + 3] = Low(rs[k].to)
                 /\ CopyBytes(rs)[6 * (k - 1) + 4] = High(rs[k].to)
                 /\ CopyBytes(rs)[6 * (k - 1) + 5] = Low(rs[k].size)
                 /\ CopyBytes(rs)[6 * (k - 1) + 6] = High(rs[k].size)
           /\ \A j \in 1..6 : CopyBytes(rs)[6 * n + j] = 0
<1> DEFINE piece(r) == Pair(r.from) \o Pair(r.to) \o Pair(r.size)
           ss == [i \in 1..n |-> piece(rs[i])]
<1>1. ASSUME NEW r \in CopyRecord
      PROVE  /\ piece(r) \in Seq(Nat) /\ Len(piece(r)) = 6
             /\ piece(r)[1] = Low(r.from) /\ piece(r)[2] = High(r.from)
             /\ piece(r)[3] = Low(r.to) /\ piece(r)[4] = High(r.to)
             /\ piece(r)[5] = Low(r.size) /\ piece(r)[6] = High(r.size)
  <2>1. r.from \in Nat /\ r.to \in Nat /\ r.size \in Nat BY DEF CopyRecord
  <2>2. PICK a \in Nat, b \in Nat, c \in Nat, d \in Nat, e \in Nat, f \in Nat :
            /\ Pair(r.from) = <<a, b>> /\ Pair(r.to) = <<c, d>> /\ Pair(r.size) = <<e, f>>
            /\ a = Low(r.from) /\ b = High(r.from) /\ c = Low(r.to) /\ d = High(r.to)
            /\ e = Low(r.size) /\ f = High(r.size)
    <3>1. \A m \in Nat : Low(m) \in Nat /\ High(m) \in Nat /\ Pair(m) = <<Low(m), High(m)>>
      <4> SUFFICES ASSUME NEW m \in Nat
          PROVE Low(m) \in Nat /\ High(m) \in Nat /\ Pair(m) = <<Low(m), High(m)>> OBVIOUS
      <4>1. Low(m) \in 0..(Byte - 1) /\ High(m) \in Nat BY PairFacts
      <4>2. Byte \in Nat BY ByteAssumption
      <4> QED BY <4>1, <4>2 DEF Pair
    <3> QED BY <2>1, <3>1
  <2>3. piece(r) = <<a, b>> \o <<c, d>> \o <<e, f>> BY <2>2
  <2> HIDE DEF piece
  <2> DEFINE u == <<a, b>> \o <<c, d>>
             v == <<e, f>>
  <2>4. /\ u \in Seq(Nat) /\ Len(u) = 4
        /\ u[1] = a /\ u[2] = b /\ u[3] = c /\ u[4] = d
    OBVIOUS
  <2>5. v \in Seq(Nat) /\ Len(v) = 2 /\ v[1] = e /\ v[2] = f OBVIOUS
  <2>6. piece(r) = Joined(u, v) BY <2>3 DEF Joined
  <2> HIDE DEF u, v
  <2>7. piece(r) \in Seq(Nat) /\ IsJoin(piece(r), u, v) BY <2>4, <2>5, <2>6, JoinFacts
  <2>8. /\ Len(piece(r)) = 6
        /\ \A i \in 1..4 : piece(r)[i] = u[i]
        /\ \A i \in 1..2 : piece(r)[4 + i] = v[i]
    BY <2>4, <2>5, <2>7 DEF IsJoin
  <2> QED BY <2>2, <2>4, <2>5, <2>7, <2>8
<1> HIDE DEF piece
<1>2. ss \in [1..n -> Seq(Nat)] /\ \A k \in 1..n : Len(ss[k]) = 6 /\ ss[k] = piece(rs[k])
  BY <1>1
<1>3. CopyBytes(rs) = Terminated(Flat(ss), 6) BY DEF CopyBytes, piece
<1> HIDE DEF ss
<1>4. IsTable(CopyBytes(rs), n, 6, ss) BY <1>2, <1>3, TableFacts
<1>5. ASSUME NEW k \in 1..n, NEW j \in 1..6
      PROVE  CopyBytes(rs)[6 * (k - 1) + j] = piece(rs[k])[j]
  BY <1>2, <1>4 DEF IsTable
<1>6. ASSUME NEW k \in 1..n
      PROVE  /\ CopyBytes(rs)[6 * (k - 1) + 1] = Low(rs[k].from)
             /\ CopyBytes(rs)[6 * (k - 1) + 2] = High(rs[k].from)
             /\ CopyBytes(rs)[6 * (k - 1) + 3] = Low(rs[k].to)
             /\ CopyBytes(rs)[6 * (k - 1) + 4] = High(rs[k].to)
             /\ CopyBytes(rs)[6 * (k - 1) + 5] = Low(rs[k].size)
             /\ CopyBytes(rs)[6 * (k - 1) + 6] = High(rs[k].size)
  <2>1. rs[k] \in CopyRecord OBVIOUS
  <2>2. PICK r : r = rs[k] OBVIOUS
  <2>3. PICK t : t = CopyBytes(rs) OBVIOUS
  <2>4. \A j \in 1..6 : t[6 * (k - 1) + j] = piece(r)[j] BY <1>5, <2>2, <2>3
  <2>5. /\ t[6 * (k - 1) + 1] = piece(r)[1]
        /\ t[6 * (k - 1) + 2] = piece(r)[2]
        /\ t[6 * (k - 1) + 3] = piece(r)[3]
        /\ t[6 * (k - 1) + 4] = piece(r)[4]
        /\ t[6 * (k - 1) + 5] = piece(r)[5]
        /\ t[6 * (k - 1) + 6] = piece(r)[6]
    BY <2>4
  <2> QED BY <2>1, <2>2, <2>3, <2>5, <1>1
<1> QED BY <1>4, <1>6 DEF IsTable

LEMMA ZeroBytesFacts ==
    ASSUME NEW n \in Nat, NEW rs \in [1..n -> ZeroRecord]
    PROVE  /\ ZeroBytes(rs) \in Seq(Nat) /\ Len(ZeroBytes(rs)) = 4 * n + 4
           /\ \A k \in 1..n :
                 /\ ZeroBytes(rs)[4 * (k - 1) + 1] = Low(rs[k].to)
                 /\ ZeroBytes(rs)[4 * (k - 1) + 2] = High(rs[k].to)
                 /\ ZeroBytes(rs)[4 * (k - 1) + 3] = Low(rs[k].size)
                 /\ ZeroBytes(rs)[4 * (k - 1) + 4] = High(rs[k].size)
           /\ \A j \in 1..4 : ZeroBytes(rs)[4 * n + j] = 0
<1> DEFINE piece(r) == Pair(r.to) \o Pair(r.size)
           ss == [i \in 1..n |-> piece(rs[i])]
<1>1. ASSUME NEW r \in ZeroRecord
      PROVE  /\ piece(r) \in Seq(Nat) /\ Len(piece(r)) = 4
             /\ piece(r)[1] = Low(r.to) /\ piece(r)[2] = High(r.to)
             /\ piece(r)[3] = Low(r.size) /\ piece(r)[4] = High(r.size)
  <2>1. r.to \in Nat /\ r.size \in Nat BY DEF ZeroRecord
  <2>2. PICK c \in Nat, d \in Nat, e \in Nat, f \in Nat :
            /\ Pair(r.to) = <<c, d>> /\ Pair(r.size) = <<e, f>>
            /\ c = Low(r.to) /\ d = High(r.to) /\ e = Low(r.size) /\ f = High(r.size)
    <3>1. \A m \in Nat : Low(m) \in Nat /\ High(m) \in Nat /\ Pair(m) = <<Low(m), High(m)>>
      <4> SUFFICES ASSUME NEW m \in Nat
          PROVE Low(m) \in Nat /\ High(m) \in Nat /\ Pair(m) = <<Low(m), High(m)>> OBVIOUS
      <4>1. Low(m) \in 0..(Byte - 1) /\ High(m) \in Nat BY PairFacts
      <4>2. Byte \in Nat BY ByteAssumption
      <4> QED BY <4>1, <4>2 DEF Pair
    <3> QED BY <2>1, <3>1
  <2>3. piece(r) = <<c, d>> \o <<e, f>> BY <2>2
  <2> HIDE DEF piece
  <2>4. /\ piece(r) \in Seq(Nat) /\ Len(piece(r)) = 4
        /\ piece(r)[1] = c /\ piece(r)[2] = d /\ piece(r)[3] = e /\ piece(r)[4] = f
    BY <2>3
  <2> QED BY <2>2, <2>4
<1> HIDE DEF piece
<1>2. ss \in [1..n -> Seq(Nat)] /\ \A k \in 1..n : Len(ss[k]) = 4 /\ ss[k] = piece(rs[k])
  BY <1>1
<1>3. ZeroBytes(rs) = Terminated(Flat(ss), 4) BY DEF ZeroBytes, piece
<1> HIDE DEF ss
<1>4. IsTable(ZeroBytes(rs), n, 4, ss) BY <1>2, <1>3, TableFacts
<1>5. ASSUME NEW k \in 1..n, NEW j \in 1..4
      PROVE  ZeroBytes(rs)[4 * (k - 1) + j] = piece(rs[k])[j]
  BY <1>2, <1>4 DEF IsTable
<1>6. ASSUME NEW k \in 1..n
      PROVE  /\ ZeroBytes(rs)[4 * (k - 1) + 1] = Low(rs[k].to)
             /\ ZeroBytes(rs)[4 * (k - 1) + 2] = High(rs[k].to)
             /\ ZeroBytes(rs)[4 * (k - 1) + 3] = Low(rs[k].size)
             /\ ZeroBytes(rs)[4 * (k - 1) + 4] = High(rs[k].size)
  <2>1. rs[k] \in ZeroRecord OBVIOUS
  <2>2. PICK r : r = rs[k] OBVIOUS
  <2>3. PICK t : t = ZeroBytes(rs) OBVIOUS
  <2>4. \A j \in 1..4 : t[4 * (k - 1) + j] = piece(r)[j] BY <1>5, <2>2, <2>3
  <2>5. /\ t[4 * (k - 1) + 1] = piece(r)[1]
        /\ t[4 * (k - 1) + 2] = piece(r)[2]
        /\ t[4 * (k - 1) + 3] = piece(r)[3]
        /\ t[4 * (k - 1) + 4] = piece(r)[4]
    BY <2>4
  <2> QED BY <2>1, <2>2, <2>3, <2>5, <1>1
<1> QED BY <1>4, <1>6 DEF IsTable

LEMMA InitBytesFacts ==
    ASSUME NEW n \in Nat
    PROVE  /\ InitBytes(n) \in Seq(Nat) /\ Len(InitBytes(n)) = 2 * n + 2
           /\ \A k \in 1..n : /\ InitBytes(n)[2 * (k - 1) + 1] = Low(k)
                              /\ InitBytes(n)[2 * (k - 1) + 2] = High(k)
           /\ \A j \in 1..2 : InitBytes(n)[2 * n + j] = 0
<1> DEFINE ss == [i \in 1..n |-> Pair(i)]
<1>1. ss \in [1..n -> Seq(Nat)] /\ \A k \in 1..n : Len(ss[k]) = 2 /\ ss[k] = Pair(k)
  BY PairFacts
<1>2. InitBytes(n) = Terminated(Flat(ss), 2) BY DEF InitBytes
<1> HIDE DEF ss
<1>3. IsTable(InitBytes(n), n, 2, ss) BY <1>1, <1>2, TableFacts
<1>4. ASSUME NEW k \in 1..n, NEW j \in 1..2 PROVE InitBytes(n)[2 * (k - 1) + j] = Pair(k)[j]
  BY <1>1, <1>3 DEF IsTable
<1>5. ASSUME NEW k \in 1..n
      PROVE InitBytes(n)[2 * (k - 1) + 1] = Low(k) /\ InitBytes(n)[2 * (k - 1) + 2] = High(k)
  <2>1. PICK t : t = InitBytes(n) OBVIOUS
  <2>2. \A j \in 1..2 : t[2 * (k - 1) + j] = Pair(k)[j] BY <1>4, <2>1
  <2>3. t[2 * (k - 1) + 1] = Pair(k)[1] /\ t[2 * (k - 1) + 2] = Pair(k)[2] BY <2>2
  <2> QED BY <2>1, <2>3, PairFacts
<1> QED BY <1>3, <1>5 DEF IsTable

-----------------------------------------------------------------------------
(* The tables in ROM. *)

\* s is in the memory m from the address a on.
InRom(m, s, a) == \A j \in 1..Len(s) : m[a + j - 1] = s[j]

WordIn(m, a) == m[a] + Byte * m[a + 1]

\* A memory of n bytes that begins with the bytes b.
RomOf(b, n) == [a \in 0..(n - 1) |-> IF a < Len(b) THEN b[a + 1] ELSE 0]

InRomInTurn(m, im, c, i, z) ==
    /\ InRom(m, im, 0)
    /\ InRom(m, c, Len(im))
    /\ InRom(m, i, Len(im) + Len(c))
    /\ InRom(m, z, Len(im) + Len(c) + Len(i))
    /\ Len(im) \in Nat /\ Len(c) \in Nat /\ Len(i) \in Nat

InTurn(im, c, i, z) == im \o c \o i \o z

LEMMA RomFacts ==
    ASSUME NEW im \in Seq(Nat), NEW c \in Seq(Nat), NEW i \in Seq(Nat), NEW z \in Seq(Nat),
           NEW n \in Nat, Len(InTurn(im, c, i, z)) <= n
    PROVE  InRomInTurn(RomOf(InTurn(im, c, i, z), n), im, c, i, z)
<1>0. PICK bytes, m : /\ bytes = im \o c \o i \o z /\ Len(bytes) <= n
                      /\ m = [a \in 0..(n - 1) |-> IF a < Len(bytes) THEN bytes[a + 1] ELSE 0]
                      /\ m = RomOf(InTurn(im, c, i, z), n)
  BY DEF InTurn, RomOf
<1> DEFINE b1 == Joined(im, c)
           b2 == Joined(b1, i)
           b3 == Joined(b2, z)
<1>1. bytes = b3 BY <1>0 DEF Joined
<1>2. b1 \in Seq(Nat) /\ IsJoin(b1, im, c) BY JoinFacts
<1> HIDE DEF b1
<1>3. b2 \in Seq(Nat) /\ IsJoin(b2, b1, i) BY <1>2, JoinFacts
<1> HIDE DEF b2
<1>4. b3 \in Seq(Nat) /\ IsJoin(b3, b2, z) BY <1>3, JoinFacts
<1> HIDE DEF b3
<1>5. /\ Len(im) \in Nat /\ Len(c) \in Nat /\ Len(i) \in Nat /\ Len(z) \in Nat
      /\ Len(b1) = Len(im) + Len(c) /\ Len(b2) = Len(im) + Len(c) + Len(i)
      /\ Len(b3) = Len(im) + Len(c) + Len(i) + Len(z)
  BY <1>2, <1>3, <1>4 DEF IsJoin
<1>6. \A j \in 1..Len(b3) : m[j - 1] = b3[j]
  <2> SUFFICES ASSUME NEW j \in 1..Len(b3) PROVE m[j - 1] = b3[j] OBVIOUS
  <2>1. j - 1 \in 0..(n - 1) /\ j - 1 < Len(bytes) BY <1>0, <1>1, <1>5
  <2>2. m[j - 1] = bytes[(j - 1) + 1] BY <1>0, <2>1
  <2>3. (j - 1) + 1 = j BY <1>5
  <2> QED BY <2>2, <2>3, <1>1
<1>7. ASSUME NEW j \in 1..Len(im) PROVE m[0 + j - 1] = im[j]
  <2>1. b1[j] = im[j] BY <1>2 DEF IsJoin
  <2>2. j \in 1..Len(b1) BY <1>5
  <2>3. b2[j] = b1[j] BY <1>3, <2>2 DEF IsJoin
  <2>4. j \in 1..Len(b2) BY <1>5
  <2>5. b3[j] = b2[j] BY <1>4, <2>4 DEF IsJoin
  <2>6. j \in 1..Len(b3) /\ 0 + j - 1 = j - 1 BY <1>5
  <2>7. m[j - 1] = b3[j] BY <1>6, <2>6
  <2> QED BY <2>1, <2>3, <2>5, <2>6, <2>7
<1>8. ASSUME NEW j \in 1..Len(c) PROVE m[Len(im) + j - 1] = c[j]
  <2>1. PICK k \in Nat : k = Len(im) + j BY <1>5
  <2>2. b1[k] = c[j] BY <1>2, <2>1 DEF IsJoin
  <2>3. k \in 1..Len(b1) BY <1>5, <2>1
  <2>4. b2[k] = b1[k] BY <1>3, <2>3 DEF IsJoin
  <2>5. k \in 1..Len(b2) /\ k \in 1..Len(b3) BY <1>5, <2>1
  <2>6. b3[k] = b2[k] BY <1>4, <2>5 DEF IsJoin
  <2>7. m[k - 1] = b3[k] BY <1>6, <2>5
  <2>8. k - 1 = Len(im) + j - 1 BY <1>5, <2>1
  <2> QED BY <2>2, <2>4, <2>6, <2>7, <2>8
<1>9. ASSUME NEW j \in 1..Len(i) PROVE m[Len(im) + Len(c) + j - 1] = i[j]
  <2>1. PICK k \in Nat : k = Len(b1) + j BY <1>5
  <2>2. b2[k] = i[j] BY <1>3, <2>1 DEF IsJoin
  <2>3. k \in 1..Len(b2) /\ k \in 1..Len(b3) BY <1>5, <2>1
  <2>4. b3[k] = b2[k] BY <1>4, <2>3 DEF IsJoin
  <2>5. m[k - 1] = b3[k] BY <1>6, <2>3
  <2>6. k - 1 = Len(im) + Len(c) + j - 1 BY <1>5, <2>1
  <2> QED BY <2>2, <2>4, <2>5, <2>6
<1>10. ASSUME NEW j \in 1..Len(z) PROVE m[Len(im) + Len(c) + Len(i) + j - 1] = z[j]
  <2>1. PICK k \in Nat : k = Len(b2) + j BY <1>5
  <2>2. b3[k] = z[j] BY <1>4, <2>1 DEF IsJoin
  <2>3. k \in 1..Len(b3) BY <1>5, <2>1
  <2>4. m[k - 1] = b3[k] BY <1>6, <2>3
  <2>5. k - 1 = Len(im) + Len(c) + Len(i) + j - 1 BY <1>5, <2>1
  <2> QED BY <2>2, <2>4, <2>5
<1> QED BY <1>0, <1>5, <1>7, <1>8, <1>9, <1>10 DEF InRom, InRomInTurn

\* The table of the n records rs can be read at b.
CopyTableIs(m, b, n, rs) ==
    /\ \A k \in 1..n :
          /\ WordIn(m, b + 6 * (k - 1)) = rs[k].from
          /\ WordIn(m, b + 6 * (k - 1) + 2) = rs[k].to
          /\ WordIn(m, b + 6 * (k - 1) + 4) = rs[k].size
          /\ m[b + 6 * (k - 1) + 4] \in 0..(Byte - 1)
          /\ m[b + 6 * (k - 1) + 5] \in Nat
    /\ WordIn(m, b + 6 * n + 4) = 0

LEMMA CopyTableRead ==
    ASSUME NEW n \in Nat, NEW rs \in [1..n -> CopyRecord], NEW m, NEW b \in Nat,
           InRom(m, CopyBytes(rs), b)
    PROVE  CopyTableIs(m, b, n, rs)
<1> DEFINE t == CopyBytes(rs)
<1>1. /\ Len(t) = 6 * n + 6
      /\ \A k \in 1..n :
            /\ t[6 * (k - 1) + 1] = Low(rs[k].from) /\ t[6 * (k - 1) + 2] = High(rs[k].from)
            /\ t[6 * (k - 1) + 3] = Low(rs[k].to)   /\ t[6 * (k - 1) + 4] = High(rs[k].to)
            /\ t[6 * (k - 1) + 5] = Low(rs[k].size) /\ t[6 * (k - 1) + 6] = High(rs[k].size)
      /\ \A j \in 1..6 : t[6 * n + j] = 0
  BY CopyBytesFacts
<1> HIDE DEF t
<1>2. \A j \in 1..(6 * n + 6) : m[b + j - 1] = t[j] BY <1>1 DEF InRom, t
<1>3. ASSUME NEW k \in 1..n
      PROVE  /\ WordIn(m, b + 6 * (k - 1)) = rs[k].from
             /\ WordIn(m, b + 6 * (k - 1) + 2) = rs[k].to
             /\ WordIn(m, b + 6 * (k - 1) + 4) = rs[k].size
             /\ m[b + 6 * (k - 1) + 4] \in 0..(Byte - 1)
             /\ m[b + 6 * (k - 1) + 5] \in Nat
  <2>1. PICK q \in Nat : q = 6 * (k - 1) OBVIOUS
  <2>2. q + 6 <= 6 * n BY <2>1
  <2>3. \A j \in 1..6 : q + j \in 1..(6 * n + 6) /\ b + (q + j) - 1 = b + q + (j - 1)
    BY <2>2
  <2>4. \A j \in 1..6 : m[b + q + (j - 1)] = t[q + j] BY <1>2, <2>3
  <2>5. /\ m[b + q] = t[q + 1] /\ m[b + q + 1] = t[q + 2] /\ m[b + q + 2] = t[q + 3]
        /\ m[b + q + 3] = t[q + 4] /\ m[b + q + 4] = t[q + 5] /\ m[b + q + 5] = t[q + 6]
    <3>1. /\ m[b + q + (1 - 1)] = t[q + 1] /\ m[b + q + (2 - 1)] = t[q + 2]
          /\ m[b + q + (3 - 1)] = t[q + 3] /\ m[b + q + (4 - 1)] = t[q + 4]
          /\ m[b + q + (5 - 1)] = t[q + 5] /\ m[b + q + (6 - 1)] = t[q + 6]
      BY <2>4
    <3>2. /\ b + q + (1 - 1) = b + q /\ b + q + (2 - 1) = b + q + 1 /\ b + q + (3 - 1) = b + q + 2
          /\ b + q + (4 - 1) = b + q + 3 /\ b + q + (5 - 1) = b + q + 4 /\ b + q + (6 - 1) = b + q + 5
      OBVIOUS
    <3> QED BY <3>1, <3>2
  <2>6. PICK r \in CopyRecord : r = rs[k] OBVIOUS
  <2>7. r.from \in Nat /\ r.to \in Nat /\ r.size \in Nat BY DEF CopyRecord
  <2>8. /\ m[b + q] = Low(r.from) /\ m[b + q + 1] = High(r.from)
        /\ m[b + q + 2] = Low(r.to) /\ m[b + q + 3] = High(r.to)
        /\ m[b + q + 4] = Low(r.size) /\ m[b + q + 5] = High(r.size)
    BY <1>1, <2>1, <2>5, <2>6
  <2>9. /\ Low(r.from) + Byte * High(r.from) = r.from
        /\ Low(r.to) + Byte * High(r.to) = r.to
        /\ Low(r.size) + Byte * High(r.size) = r.size
        /\ Low(r.size) \in 0..(Byte - 1) /\ High(r.size) \in Nat
    BY <2>7, PairFacts
  <2>10. b + q + 2 + 1 = b + q + 3 /\ b + q + 4 + 1 = b + q + 5 OBVIOUS
  <2> QED BY <2>1, <2>6, <2>8, <2>9, <2>10 DEF WordIn
<1>4. WordIn(m, b + 6 * n + 4) = 0
  <2>1. PICK q \in Nat : q = 6 * n OBVIOUS
  <2>2. q + 5 \in 1..(6 * n + 6) /\ q + 6 \in 1..(6 * n + 6) BY <2>1
  <2>3. m[b + (q + 5) - 1] = t[q + 5] /\ m[b + (q + 6) - 1] = t[q + 6] BY <1>2, <2>2
  <2>4. t[q + 5] = 0 /\ t[q + 6] = 0 BY <1>1, <2>1
  <2>5. b + (q + 5) - 1 = b + q + 4 /\ b + (q + 6) - 1 = b + q + 4 + 1 OBVIOUS
  <2>6. m[b + q + 4] = 0 /\ m[b + q + 4 + 1] = 0 BY <2>3, <2>4, <2>5
  <2> QED BY <2>1, <2>6, ByteAssumption DEF WordIn
<1> QED BY <1>3, <1>4 DEF CopyTableIs

ZeroTableIs(m, b, n, rs) ==
    /\ \A k \in 1..n :
          /\ WordIn(m, b + 4 * (k - 1)) = rs[k].to
          /\ WordIn(m, b + 4 * (k - 1) + 2) = rs[k].size
          /\ m[b + 4 * (k - 1) + 2] \in 0..(Byte - 1)
          /\ m[b + 4 * (k - 1) + 3] \in Nat
    /\ WordIn(m, b + 4 * n + 2) = 0

LEMMA ZeroTableRead ==
    ASSUME NEW n \in Nat, NEW rs \in [1..n -> ZeroRecord], NEW m, NEW b \in Nat,
           InRom(m, ZeroBytes(rs), b)
    PROVE  ZeroTableIs(m, b, n, rs)
<1> DEFINE t == ZeroBytes(rs)
<1>1. /\ Len(t) = 4 * n + 4
      /\ \A k \in 1..n :
            /\ t[4 * (k - 1) + 1] = Low(rs[k].to)   /\ t[4 * (k - 1) + 2] = High(rs[k].to)
            /\ t[4 * (k - 1) + 3] = Low(rs[k].size) /\ t[4 * (k - 1) + 4] = High(rs[k].size)
      /\ \A j \in 1..4 : t[4 * n + j] = 0
  BY ZeroBytesFacts
<1> HIDE DEF t
<1>2. \A j \in 1..(4 * n + 4) : m[b + j - 1] = t[j] BY <1>1 DEF InRom, t
<1>3. ASSUME NEW k \in 1..n
      PROVE  /\ WordIn(m, b + 4 * (k - 1)) = rs[k].to
             /\ WordIn(m, b + 4 * (k - 1) + 2) = rs[k].size
             /\ m[b + 4 * (k - 1) + 2] \in 0..(Byte - 1)
             /\ m[b + 4 * (k - 1) + 3] \in Nat
  <2>1. PICK q \in Nat : q = 4 * (k - 1) OBVIOUS
  <2>2. q + 4 <= 4 * n BY <2>1
  <2>3. \A j \in 1..4 : q + j \in 1..(4 * n + 4) /\ b + (q + j) - 1 = b + q + (j - 1)
    BY <2>2
  <2>4. \A j \in 1..4 : m[b + q + (j - 1)] = t[q + j] BY <1>2, <2>3
  <2>5. /\ m[b + q] = t[q + 1] /\ m[b + q + 1] = t[q + 2] /\ m[b + q + 2] = t[q + 3]
        /\ m[b + q + 3] = t[q + 4]
    <3>1. /\ m[b + q + (1 - 1)] = t[q + 1] /\ m[b + q + (2 - 1)] = t[q + 2]
          /\ m[b + q + (3 - 1)] = t[q + 3] /\ m[b + q + (4 - 1)] = t[q + 4]
      BY <2>4
    <3> QED BY <3>1
  <2>6. PICK r \in ZeroRecord : r = rs[k] OBVIOUS
  <2>7. r.to \in Nat /\ r.size \in Nat BY DEF ZeroRecord
  <2>8. /\ m[b + q] = Low(r.to) /\ m[b + q + 1] = High(r.to)
        /\ m[b + q + 2] = Low(r.size) /\ m[b + q + 3] = High(r.size)
    BY <1>1, <2>1, <2>5, <2>6
  <2>9. /\ Low(r.to) + Byte * High(r.to) = r.to
        /\ Low(r.size) + Byte * High(r.size) = r.size
        /\ Low(r.size) \in 0..(Byte - 1) /\ High(r.size) \in Nat
    BY <2>7, PairFacts
  <2>10. b + q + 2 + 1 = b + q + 3 OBVIOUS
  <2> QED BY <2>1, <2>6, <2>8, <2>9, <2>10 DEF WordIn
<1>4. WordIn(m, b + 4 * n + 2) = 0
  <2>1. PICK q \in Nat : q = 4 * n OBVIOUS
  <2>2. q + 3 \in 1..(4 * n + 4) /\ q + 4 \in 1..(4 * n + 4) BY <2>1
  <2>3. m[b + (q + 3) - 1] = t[q + 3] /\ m[b + (q + 4) - 1] = t[q + 4] BY <1>2, <2>2
  <2>4. t[q + 3] = 0 /\ t[q + 4] = 0 BY <1>1, <2>1
  <2>5. b + (q + 3) - 1 = b + q + 2 /\ b + (q + 4) - 1 = b + q + 2 + 1 OBVIOUS
  <2>6. m[b + q + 2] = 0 /\ m[b + q + 2 + 1] = 0 BY <2>3, <2>4, <2>5
  <2> QED BY <2>1, <2>6, ByteAssumption DEF WordIn
<1> QED BY <1>3, <1>4 DEF ZeroTableIs

InitTableIs(m, b, n) ==
    /\ \A k \in 1..n : WordIn(m, b + 2 * (k - 1)) = k
    /\ WordIn(m, b + 2 * n) = 0

LEMMA InitTableRead ==
    ASSUME NEW n \in Nat, NEW m, NEW b \in Nat, InRom(m, InitBytes(n), b)
    PROVE  InitTableIs(m, b, n)
<1> DEFINE t == InitBytes(n)
<1>1. /\ Len(t) = 2 * n + 2
      /\ \A k \in 1..n : t[2 * (k - 1) + 1] = Low(k) /\ t[2 * (k - 1) + 2] = High(k)
      /\ \A j \in 1..2 : t[2 * n + j] = 0
  BY InitBytesFacts
<1> HIDE DEF t
<1>2. \A j \in 1..(2 * n + 2) : m[b + j - 1] = t[j] BY <1>1 DEF InRom, t
<1>3. ASSUME NEW k \in 1..n PROVE WordIn(m, b + 2 * (k - 1)) = k
  <2>1. PICK q \in Nat : q = 2 * (k - 1) OBVIOUS
  <2>2. q + 1 \in 1..(2 * n + 2) /\ q + 2 \in 1..(2 * n + 2) BY <2>1
  <2>3. m[b + (q + 1) - 1] = t[q + 1] /\ m[b + (q + 2) - 1] = t[q + 2] BY <1>2, <2>2
  <2>4. b + (q + 1) - 1 = b + q /\ b + (q + 2) - 1 = b + q + 1 OBVIOUS
  <2>5. m[b + q] = Low(k) /\ m[b + q + 1] = High(k) BY <1>1, <2>1, <2>3, <2>4
  <2>6. Low(k) + Byte * High(k) = k BY PairFacts
  <2> QED BY <2>1, <2>5, <2>6 DEF WordIn
<1>4. WordIn(m, b + 2 * n) = 0
  <2>1. PICK q \in Nat : q = 2 * n OBVIOUS
  <2>2. q + 1 \in 1..(2 * n + 2) /\ q + 2 \in 1..(2 * n + 2) BY <2>1
  <2>3. m[b + (q + 1) - 1] = t[q + 1] /\ m[b + (q + 2) - 1] = t[q + 2] BY <1>2, <2>2
  <2>4. b + (q + 1) - 1 = b + q /\ b + (q + 2) - 1 = b + q + 1 OBVIOUS
  <2>5. m[b + q] = 0 /\ m[b + q + 1] = 0 BY <1>1, <2>1, <2>3, <2>4
  <2> QED BY <2>1, <2>5, ByteAssumption DEF WordIn
<1> QED BY <1>3, <1>4 DEF InitTableIs

-----------------------------------------------------------------------------
(* The records of the tables. *)

LEMMA SelectedFacts ==
    ASSUME NEW p \in Program, NEW holds \in [DOMAIN p.object -> BOOLEAN]
    PROVE  \E n \in Nat : /\ Len(Marked(p.order, holds)) = n
                          /\ Marked(p.order, holds) \in [1..n -> DOMAIN p.object]
                          /\ \A o \in DOMAIN p.object :
                                (\E k \in 1..n : Marked(p.order, holds)[k] = o) <=> holds[o]
<1> DEFINE c == Marked(p.order, holds)
<1>1. /\ p.order \in Seq(DOMAIN p.object)
      /\ {p.order[i] : i \in DOMAIN p.order} = DOMAIN p.object
  BY ProgramAssumption
<1>2. \A o \in DOMAIN p.object : holds[o] \in BOOLEAN OBVIOUS
<1>3. /\ c \in Seq(DOMAIN p.object)
      /\ \A o : (\E k \in DOMAIN c : c[k] = o) <=> (\E i \in DOMAIN p.order : p.order[i] = o /\ holds[o])
  <2>1. PICK r : r = c OBVIOUS
  <2> HIDE DEF c
  <2>2. /\ r \in Seq(DOMAIN p.object)
        /\ \A o : (\E k \in DOMAIN r : r[k] = o) <=> (\E i \in DOMAIN p.order : p.order[i] = o /\ holds[o])
    BY <1>1, <1>2, <2>1, MarkedFacts DEF c
  <2> QED BY <2>1, <2>2
<1> HIDE DEF c
<1>4. Len(c) \in Nat /\ DOMAIN c = 1..Len(c) /\ c \in [1..Len(c) -> DOMAIN p.object] BY <1>3
<1>5. ASSUME NEW o \in DOMAIN p.object PROVE \E i \in DOMAIN p.order : p.order[i] = o BY <1>1
<1>6. \A o \in DOMAIN p.object : (\E k \in 1..Len(c) : c[k] = o) <=> holds[o]
  BY <1>3, <1>4, <1>5
<1> QED BY <1>4, <1>6 DEF c

LEMMA CopiedFacts ==
    ASSUME program \in Program
    PROVE  \E n \in Nat : /\ Len(Copied) = n /\ Copied \in [1..n -> Objects]
                          /\ \A o \in Objects : (\E k \in 1..n : Copied[k] = o) <=> Obj(o).kind = "data"
<1> DEFINE holds == [o \in Objects |-> Obj(o).kind = "data"]
<1>1. holds \in [DOMAIN program.object -> BOOLEAN] BY Zenon DEF Objects
<1>2. Copied = Marked(program.order, holds) BY DEF Copied
<1>3. \A o \in Objects : holds[o] <=> Obj(o).kind = "data" OBVIOUS
<1> HIDE DEF holds
<1> QED BY <1>1, <1>2, <1>3, SelectedFacts DEF Objects

Blank(o) == NeedsZero(Obj(o)) /\ ~Obj(o).noinit

LEMMA ClearedFacts ==
    ASSUME program \in Program
    PROVE  \E n \in Nat : /\ Len(Cleared) = n /\ Cleared \in [1..n -> Objects]
                          /\ \A o \in Objects : (\E k \in 1..n : Cleared[k] = o) <=> Blank(o)
<1> DEFINE holds == [o \in Objects |-> Blank(o)]
<1>1. \A o \in Objects : Blank(o) \in BOOLEAN BY DEF Blank, NeedsZero
<1>2. holds \in [DOMAIN program.object -> BOOLEAN] BY <1>1, Zenon DEF Objects
<1>3. Cleared = Marked(program.order, holds) BY DEF Cleared, Blank
<1>4. \A o \in Objects : holds[o] <=> Blank(o) BY <1>1
<1> HIDE DEF holds
<1> QED BY <1>2, <1>3, <1>4, SelectedFacts DEF Objects

LEMMA SizeFacts ==
    ASSUME program \in Program, NEW o \in Objects
    PROVE  /\ SizeOf(program, o) \in Nat \ {0}
           /\ Obj(o).image \in Seq(Nat)
           /\ Obj(o).kind = "data" => Len(Obj(o).image) = SizeOf(program, o)
<1>1. o \in DOMAIN program.object BY DEF Objects
<1>2. ObjectType(Obj(o)) /\ SizeOf(program, o) \in 1..Top /\ SizeOf(program, o) = Obj(o).shape.size
  BY <1>1, ObjectFacts DEF Obj
<1>3. Obj(o).image \in Seq(Nat \ {0}) /\ (Obj(o).kind = "data" => Len(Obj(o).image) = Obj(o).shape.size)
  BY <1>2 DEF ObjectType
<1>4. ASSUME NEW s \in Seq(Nat \ {0}) PROVE s \in Seq(Nat) OBVIOUS
<1> QED BY <1>2, <1>3, <1>4

\* The image of a copied object is where its record says.
LEMMA LoadFacts ==
    ASSUME program \in Program, NEW n \in Nat, Len(Copied) = n, Copied \in [1..n -> Objects]
    PROVE  \E off \in [0..n -> Nat] :
              /\ off[0] = 0
              /\ \A i \in 1..n : /\ off[i] = off[i - 1] + SizeOf(program, Copied[i])
                                 /\ LoadAt(i) = off[i - 1]
<1> DEFINE c == Copied
           P(f) == f = [j \in 0..n |-> IF j = 0 THEN 0 ELSE f[j - 1] + SizeOf(program, c[j])]
           G == [t \in Nat \X (1..n) |-> t[1] + SizeOf(program, c[t[2]])]
           F == CHOOSE f : P(f)
<1>1. \A i \in 1..n : c[i] \in Objects /\ SizeOf(program, c[i]) \in Nat BY SizeFacts
<1>2. ASSUME NEW i \in 1..n PROVE LoadAt(i) = F[i - 1] BY DEF LoadAt
<1> HIDE DEF c
<1>3. /\ G \in [Nat \X (1..n) -> Nat]
      /\ \A q \in Nat, i \in 1..n : G[<<q, i>>] = q + SizeOf(program, c[i])
  BY <1>1
<1> HIDE DEF G
<1>4. PICK f : Iterates(f, n, Nat, 0, G) BY <1>3, Recursion
<1>5. f \in [0..n -> Nat] /\ f[0] = 0 /\ \A i \in 1..n : f[i] = G[<<f[i - 1], i>>]
  BY <1>4 DEF Iterates
<1>6. ASSUME NEW j \in 0..n
      PROVE  f[j] = IF j = 0 THEN 0 ELSE f[j - 1] + SizeOf(program, c[j])
  <2>1. CASE j = 0 BY <2>1, <1>5
  <2>2. CASE j # 0
    <3>1. j \in 1..n /\ j - 1 \in 0..n BY <2>2
    <3>2. f[j - 1] \in Nat /\ f[j] = G[<<f[j - 1], j>>] BY <3>1, <1>5
    <3> QED BY <3>1, <3>2, <1>3
  <2> QED BY <2>1, <2>2
<1>7. P(f) BY <1>5, <1>6
<1>8. P(F)
  <2> HIDE DEF P
  <2> QED BY <1>7
<1>9. \A j \in 0..n : F[j] = IF j = 0 THEN 0 ELSE F[j - 1] + SizeOf(program, c[j])
  <2> HIDE DEF F
  <2> QED BY <1>8
<1>10. DOMAIN F = 0..n /\ F = [j \in 0..n |-> F[j]]
  <2> HIDE DEF F
  <2>1. F = [j \in 0..n |-> IF j = 0 THEN 0 ELSE F[j - 1] + SizeOf(program, c[j])] BY <1>8
  <2> QED BY <2>1
<1> HIDE DEF F, P
<1> DEFINE S == {i \in 0..n : F[i] \in Nat}
<1>11. 0 \in S BY <1>9
<1>12. ASSUME NEW i \in 1..n, i - 1 \in S PROVE i \in S BY <1>1, <1>9, <1>12
<1> HIDE DEF S
<1>13. \A i \in 0..n : i \in S BY <1>11, <1>12, UpTo
<1>14. F \in [0..n -> Nat] BY <1>10, <1>13 DEF S
<1>15. F[0] = 0 /\ \A i \in 1..n : F[i] = F[i - 1] + SizeOf(program, Copied[i])
  BY <1>9 DEF c
<1> QED BY <1>2, <1>14, <1>15

LEMMA ImagesFacts ==
    ASSUME program \in Program, NEW n \in Nat, Len(Copied) = n, Copied \in [1..n -> Objects],
           \A k \in 1..n : Obj(Copied[k]).kind = "data"
    PROVE  /\ Images \in Seq(Nat)
           /\ \A k \in 1..n :
                 /\ LoadAt(k) \in Nat
                 /\ \A j \in 1..SizeOf(program, Copied[k]) :
                       /\ Images[LoadAt(k) + j] = Obj(Copied[k]).image[j]
                       /\ LoadAt(k) + j \in 1..Len(Images)
<1> DEFINE ss == [i \in 1..n |-> Obj(Copied[i]).image]
<1>1. PICK off \in [0..n -> Nat] :
          /\ off[0] = 0
          /\ \A i \in 1..n : /\ off[i] = off[i - 1] + SizeOf(program, Copied[i])
                             /\ LoadAt(i) = off[i - 1]
  BY LoadFacts
<1>2. ss \in [1..n -> Seq(Nat)] /\ \A i \in 1..n : Len(ss[i]) = SizeOf(program, Copied[i])
  <2>1. \A i \in 1..n : /\ Obj(Copied[i]).image \in Seq(Nat)
                        /\ Len(Obj(Copied[i]).image) = SizeOf(program, Copied[i])
    BY SizeFacts
  <2> QED BY <2>1
<1>3. Images = Flat(ss) BY DEF Images
<1>4. \A i \in 1..n : ss[i] = Obj(Copied[i]).image OBVIOUS
<1> HIDE DEF ss
<1>5. \A i \in 1..n : off[i] = off[i - 1] + Len(ss[i]) BY <1>1, <1>2
<1>6. Images \in Seq(Nat) /\ IsFlat(Images, off, n, ss) BY <1>1, <1>2, <1>3, <1>5, FlatFacts
<1>7. ASSUME NEW k \in 1..n
      PROVE  /\ LoadAt(k) \in Nat
             /\ \A j \in 1..SizeOf(program, Copied[k]) :
                   /\ Images[LoadAt(k) + j] = Obj(Copied[k]).image[j]
                   /\ LoadAt(k) + j \in 1..Len(Images)
  <2>1. k - 1 \in 0..n /\ LoadAt(k) = off[k - 1] /\ off[k - 1] \in Nat BY <1>1
  <2>2. Len(ss[k]) = SizeOf(program, Copied[k]) /\ ss[k] = Obj(Copied[k]).image BY <1>2, <1>4
  <2>3. \A j \in 1..Len(ss[k]) :
           Images[off[k - 1] + j] = ss[k][j] /\ off[k - 1] + j \in 1..Len(Images)
    BY <1>6 DEF IsFlat
  <2> QED BY <2>1, <2>2, <2>3
<1> QED BY <1>6, <1>7

\* A range that is there already is not added, and every range is there.
LEMMA ZeroRecordsFacts ==
    ASSUME program \in Program, NEW m \in Nat, Len(Cleared) = m, Cleared \in [1..m -> Objects],
           \A o \in Objects : AddressOf(o) \in Nat
    PROVE  /\ ZeroRecords \in Seq(ZeroRecord)
           /\ \A k \in DOMAIN ZeroRecords : \E i \in 1..m :
                 ZeroRecords[k] = [to |-> AddressOf(Cleared[i]), size |-> SizeOf(program, Cleared[i])]
           /\ \A i \in 1..m : \E k \in DOMAIN ZeroRecords :
                 ZeroRecords[k] = [to |-> AddressOf(Cleared[i]), size |-> SizeOf(program, Cleared[i])]
<1> DEFINE c == Cleared
           rec(i) == [to |-> AddressOf(c[i]), size |-> SizeOf(program, c[i])]
           A == Seq(ZeroRecord)
           add(q, i) == IF Repeats(q, rec(i)) THEN q ELSE Append(q, rec(i))
           P(f) == f = [i \in 0..m |-> IF i = 0 THEN <<>> ELSE add(f[i - 1], i)]
           G == [t \in A \X (1..m) |-> add(t[1], t[2])]
           F == CHOOSE f : P(f)
<1>1. ZeroRecords = F[m]
  <2>1. ZeroRecords = LET f == CHOOSE f : P(f) IN f[m] BY DEF ZeroRecords
  <2> QED BY <2>1
<1>2. \A i \in 1..m : rec(i) \in ZeroRecord
  <2>1. \A i \in 1..m : AddressOf(c[i]) \in Nat /\ SizeOf(program, c[i]) \in Nat BY SizeFacts
  <2> QED BY <2>1 DEF ZeroRecord
<1> HIDE DEF c, rec
<1>3. ASSUME NEW q \in A, NEW i \in 1..m
      PROVE  /\ add(q, i) \in A
             /\ \A k \in DOMAIN q : k \in DOMAIN add(q, i) /\ add(q, i)[k] = q[k]
             /\ \A k \in DOMAIN add(q, i) : k \in DOMAIN q \/ add(q, i)[k] = rec(i)
             /\ \E k \in DOMAIN add(q, i) : add(q, i)[k] = rec(i)
  <2>1. CASE Repeats(q, rec(i))
    <3>1. add(q, i) = q BY <2>1
    <3>2. \E k \in DOMAIN q : q[k] = rec(i) BY <2>1 DEF Repeats
    <3> HIDE DEF add
    <3> QED BY <3>1, <3>2
  <2>2. CASE ~Repeats(q, rec(i))
    <3>1. add(q, i) = Append(q, rec(i)) BY <2>2
    <3>2. PICK w : w = Append(q, rec(i)) OBVIOUS
    <3>3. PICK e \in ZeroRecord : e = rec(i) BY <1>2
    <3>4. /\ w \in Seq(ZeroRecord) /\ Len(w) = Len(q) + 1
          /\ \A k \in DOMAIN q : w[k] = q[k]
          /\ w[Len(q) + 1] = e
          /\ Len(q) \in Nat /\ DOMAIN q = 1..Len(q) /\ DOMAIN w = 1..(Len(q) + 1)
      BY <3>2, <3>3
    <3>5. w \in A BY <3>4
    <3>6. /\ \A k \in DOMAIN q : k \in DOMAIN w /\ w[k] = q[k]
          /\ \A k \in DOMAIN w : k \in DOMAIN q \/ w[k] = e
          /\ \E k \in DOMAIN w : w[k] = e
      <4>1. \A k \in DOMAIN q : k \in DOMAIN w BY <3>4
      <4>2. \A k \in DOMAIN w : k \in DOMAIN q \/ k = Len(q) + 1 BY <3>4
      <4>3. Len(q) + 1 \in DOMAIN w BY <3>4
      <4> QED BY <3>4, <4>1, <4>2, <4>3
    <3> HIDE DEF add, A
    <3> QED BY <3>1, <3>2, <3>3, <3>5, <3>6
  <2> QED BY <2>1, <2>2
<1> HIDE DEF add
<1>4. /\ G \in [A \X (1..m) -> A] /\ \A q \in A, i \in 1..m : G[<<q, i>>] = add(q, i)
  <2> HIDE DEF A
  <2> QED BY <1>3
<1> HIDE DEF G
<1>5. <<>> \in A OBVIOUS
<1> HIDE DEF A
<1>6. PICK f : Iterates(f, m, A, <<>>, G) BY <1>4, <1>5, Recursion
<1>7. f \in [0..m -> A] /\ f[0] = <<>> /\ \A i \in 1..m : f[i] = G[<<f[i - 1], i>>]
  BY <1>6 DEF Iterates
<1>8. ASSUME NEW i \in 0..m PROVE f[i] = IF i = 0 THEN <<>> ELSE add(f[i - 1], i)
  <2>1. CASE i = 0 BY <2>1, <1>7
  <2>2. CASE i # 0
    <3>1. i \in 1..m /\ i - 1 \in 0..m BY <2>2
    <3>2. f[i - 1] \in A /\ f[i] = G[<<f[i - 1], i>>] BY <3>1, <1>7
    <3> QED BY <3>1, <3>2, <1>4
  <2> QED BY <2>1, <2>2
<1>9. P(f) BY <1>7, <1>8
<1>10. P(F)
  <2> HIDE DEF P
  <2> QED BY <1>9
<1>11. \A i \in 0..m : F[i] = IF i = 0 THEN <<>> ELSE add(F[i - 1], i)
  <2> HIDE DEF F
  <2> QED BY <1>10
<1> HIDE DEF F, P
<1> DEFINE Is(i) == /\ F[i] \in A
                    /\ \A k \in DOMAIN F[i] : \E j \in 1..m : F[i][k] = rec(j)
                    /\ \A j \in 1..i : \E k \in DOMAIN F[i] : F[i][k] = rec(j)
           S == {i \in 0..m : Is(i)}
<1>12. 0 \in S
  <2>1. F[0] = <<>> BY <1>11
  <2>2. Is(0) BY <2>1, <1>5
  <2> HIDE DEF Is
  <2> QED BY <2>2
<1>13. ASSUME NEW i \in 1..m, i - 1 \in S PROVE i \in S
  <2>1. Is(i - 1) BY <1>13
  <2>2. PICK q \in A : q = F[i - 1] BY <2>1
  <2>3. PICK w : w = add(q, i) /\ F[i] = w BY <1>11, <2>2
  <2>4. /\ w \in A
        /\ \A k \in DOMAIN q : k \in DOMAIN w /\ w[k] = q[k]
        /\ \A k \in DOMAIN w : k \in DOMAIN q \/ w[k] = rec(i)
        /\ \E k \in DOMAIN w : w[k] = rec(i)
    BY <2>3, <1>3
  <2>5. \A k \in DOMAIN w : \E j \in 1..m : w[k] = rec(j) BY <2>1, <2>2, <2>4
  <2>6. ASSUME NEW j \in 1..i PROVE \E k \in DOMAIN w : w[k] = rec(j)
    <3>1. CASE j = i BY <3>1, <2>4
    <3>2. CASE j # i
      <4>1. j \in 1..(i - 1) BY <3>2
      <4> QED BY <4>1, <2>1, <2>2, <2>4
    <3> QED BY <3>1, <3>2
  <2>7. Is(i) BY <2>3, <2>4, <2>5, <2>6
  <2> HIDE DEF Is
  <2> QED BY <2>7
<1> HIDE DEF S
<1>14. \A i \in 0..m : i \in S BY <1>12, <1>13, UpTo
<1>15. Is(m) BY <1>14 DEF S
<1> QED BY <1>1, <1>15 DEF A, rec, c

-----------------------------------------------------------------------------
(* What startup finds. *)

\* The objects a table is for, and its layout.
Of(t) == {o \in Objects : IF t = "copy" THEN Obj(o).kind = "data" ELSE Blank(o)}
RecordAt(t, k) == IF t = "copy" THEN tables.copy + 6 * (k - 1) ELSE tables.zero + 4 * (k - 1)
Toward(t) == IF t = "copy" THEN 2 ELSE 0
Counted(t) == IF t = "copy" THEN 4 ELSE 2

\* Record k of the table t is for the object o.
Serves(t, k, o) ==
    /\ o \in Of(t)
    /\ WordAt(RecordAt(t, k) + Toward(t)) = AddressOf(o)
    /\ WordAt(RecordAt(t, k) + Counted(t)) = SizeOf(program, o)
    /\ rom[RecordAt(t, k) + Counted(t)] \in 0..(Byte - 1)
    /\ rom[RecordAt(t, k) + Counted(t) + 1] \in Nat
    /\ t = "copy" => \A i \in 0..(SizeOf(program, o) - 1) :
                        rom[WordAt(RecordAt(t, k)) + i] = Obj(o).image[i + 1]

TableOf(t, n) ==
    /\ \A k \in 1..n : \E o \in Objects : Serves(t, k, o)
    /\ \A o \in Of(t) : \E k \in 1..n : Serves(t, k, o)
    /\ WordAt(RecordAt(t, n + 1) + Counted(t)) = 0

CallTable ==
    /\ \A k \in 1..program.inits : WordAt(tables.init + 2 * (k - 1)) = k
    /\ WordAt(tables.init + 2 * program.inits) = 0

Booted ==
    /\ stage = "booted"
    /\ startup = StartupKind
    /\ tables.copy \in Nat /\ tables.init \in Nat /\ tables.zero \in Nat
    /\ program.riot => tables.clear = Region.start..(Region.end - 1)
    /\ CallTable
    /\ \E n \in Nat : TableOf("copy", n)
    /\ \E n \in Nat : TableOf("zero", n)
    /\ DOMAIN ram = Region.start..(Region.end - 1)

\* What Boot does, in constants.
LEMMA BootReads ==
    ASSUME LinkInv, LaidOut, Boot
    PROVE  /\ tables'.copy \in Nat /\ tables'.init \in Nat /\ tables'.zero \in Nat
           /\ program.riot => tables'.clear = Region.start..(Region.end - 1)
           /\ InRom(rom', Images, 0)
           /\ InRom(rom', CopyBytes(CopyRecords), tables'.copy)
           /\ InRom(rom', InitBytes(program.inits), tables'.init)
           /\ InRom(rom', ZeroBytes(ZeroRecords), tables'.zero)
<1> DEFINE im == Images
           cb == CopyBytes(CopyRecords)
           ib == InitBytes(program.inits)
           zb == ZeroBytes(ZeroRecords)
           bytes == im \o cb \o ib \o zb
           N == Byte * Byte
<1>1. program \in Program BY DEF LinkInv
<1>2. \A o \in Objects : AddressOf(o) \in Nat BY DEF LaidOut
<1>3. PICK n \in Nat : /\ Len(Copied) = n /\ Copied \in [1..n -> Objects]
                       /\ \A o \in Objects : (\E k \in 1..n : Copied[k] = o) <=> Obj(o).kind = "data"
  BY <1>1, CopiedFacts
<1>4. \A k \in 1..n : Obj(Copied[k]).kind = "data" BY <1>3
<1>5. im \in Seq(Nat) /\ \A k \in 1..n : LoadAt(k) \in Nat BY <1>1, <1>3, <1>4, ImagesFacts
<1>6. CopyRecords \in [1..n -> CopyRecord]
  <2>1. \A k \in 1..n : AddressOf(Copied[k]) \in Nat /\ SizeOf(program, Copied[k]) \in Nat
    BY <1>1, <1>2, <1>3, SizeFacts
  <2>2. CopyRecords = [k \in 1..n |-> [from |-> LoadAt(k), to |-> AddressOf(Copied[k]),
                                       size |-> SizeOf(program, Copied[k])]]
    BY <1>3 DEF CopyRecords
  <2>3. \A k \in 1..n : [from |-> LoadAt(k), to |-> AddressOf(Copied[k]),
                         size |-> SizeOf(program, Copied[k])] \in CopyRecord
    BY <2>1, <1>5 DEF CopyRecord
  <2> QED BY <2>2, <2>3
<1>7. cb \in Seq(Nat) BY <1>6, CopyBytesFacts
<1>8. program.inits \in Nat /\ N \in Nat
  <2>1. Byte \in Nat BY ByteAssumption
  <2>2. Byte * Byte \in Nat BY <2>1
  <2>3. program.inits \in 0..(Byte * Byte - 1) BY <1>1, BootAssumption
  <2> QED BY <2>2, <2>3
<1>9. ib \in Seq(Nat) BY <1>8, InitBytesFacts
<1>10. ZeroRecords \in Seq(ZeroRecord)
  <2>1. PICK l \in Nat : Len(Cleared) = l /\ Cleared \in [1..l -> Objects]
    BY <1>1, ClearedFacts
  <2> QED BY <1>1, <1>2, <2>1, ZeroRecordsFacts
<1>11. zb \in Seq(Nat)
  <2>1. PICK l \in Nat : ZeroRecords \in [1..l -> ZeroRecord] BY <1>10
  <2> QED BY <2>1, ZeroBytesFacts
<1>12. /\ Len(bytes) <= N
       /\ rom' = [a \in 0..(N - 1) |-> IF a < Len(bytes) THEN bytes[a + 1] ELSE 0]
       /\ tables' = [copy |-> Len(im), init |-> Len(im) + Len(cb),
                     zero |-> Len(im) + Len(cb) + Len(ib),
                     clear |-> IF program.riot THEN Region.start..(Region.end - 1) ELSE {}]
  BY DEF Boot
<1>13. /\ tables'.copy = Len(im) /\ tables'.init = Len(im) + Len(cb)
       /\ tables'.zero = Len(im) + Len(cb) + Len(ib)
       /\ tables'.clear = IF program.riot THEN Region.start..(Region.end - 1) ELSE {}
  BY <1>12
<1> HIDE DEF im, cb, ib, zb, N
<1>14. /\ InRom(rom', im, 0) /\ InRom(rom', cb, Len(im))
       /\ InRom(rom', ib, Len(im) + Len(cb))
       /\ InRom(rom', zb, Len(im) + Len(cb) + Len(ib))
       /\ Len(im) \in Nat /\ Len(cb) \in Nat /\ Len(ib) \in Nat
  <2>1. rom' = RomOf(bytes, N) BY <1>12 DEF RomOf
  <2>2. bytes = InTurn(im, cb, ib, zb) BY DEF InTurn
  <2>3. Len(InTurn(im, cb, ib, zb)) <= N BY <1>12, <2>2
  <2>4. InRomInTurn(RomOf(InTurn(im, cb, ib, zb), N), im, cb, ib, zb)
    BY ONLY <2>3, <1>5, <1>7, <1>8, <1>9, <1>11, RomFacts
  <2>5. PICK m : m = rom' OBVIOUS
  <2>6. InRomInTurn(m, im, cb, ib, zb) BY <2>1, <2>2, <2>4, <2>5
  <2> QED BY <2>5, <2>6 DEF InRomInTurn
<1>15. /\ tables'.copy \in Nat /\ tables'.init \in Nat /\ tables'.zero \in Nat
       /\ program.riot => tables'.clear = Region.start..(Region.end - 1)
  BY <1>13, <1>14
<1> QED BY <1>13, <1>14, <1>15 DEF im, cb, ib, zb

LEMMA BootFrame ==
    ASSUME Boot
    PROVE  /\ program' = program /\ shared' = shared /\ problem' = problem /\ at' = at
           /\ Objects' = Objects /\ Region' = Region
           /\ \A o : Obj(o)' = Obj(o) /\ AddressOf(o)' = AddressOf(o) /\ (Blank(o)' <=> Blank(o))
           /\ \A t : Of(t)' = Of(t)
<1>1. program' = program /\ shared' = shared /\ problem' = problem /\ at' = at
  BY DEF Boot, probeVars
<1>2. /\ Objects' = Objects /\ Region' = Region
      /\ \A o : Obj(o)' = Obj(o) /\ AddressOf(o)' = AddressOf(o)
  BY <1>1 DEF Objects, Region, Obj, AddressOf
<1>3. \A o : Blank(o)' <=> Blank(o) BY <1>1 DEF Blank, NeedsZero, Obj
<1>4. \A t : Of(t)' = Of(t)
  <2> SUFFICES ASSUME NEW t PROVE Of(t)' = Of(t) OBVIOUS
  <2>1. \A o : o \in Of(t)' <=> o \in Of(t) BY <1>2, <1>3 DEF Of
  <2> QED BY <2>1
<1> QED BY <1>1, <1>2, <1>3, <1>4

LEMMA BootCopyTable ==
    ASSUME LinkInv, LaidOut, Boot
    PROVE  \E n \in Nat : TableOf("copy", n)'
<1>1. program \in Program BY DEF LinkInv
<1>2. \A o \in Objects : AddressOf(o) \in Nat BY DEF LaidOut
<1>3. PICK n \in Nat : /\ Len(Copied) = n /\ Copied \in [1..n -> Objects]
                       /\ \A o \in Objects : (\E k \in 1..n : Copied[k] = o) <=> Obj(o).kind = "data"
  BY <1>1, CopiedFacts
<1>4. \A k \in 1..n : Obj(Copied[k]).kind = "data" BY <1>3
<1>5. \A k \in 1..n :
         /\ LoadAt(k) \in Nat
         /\ \A j \in 1..SizeOf(program, Copied[k]) :
               /\ Images[LoadAt(k) + j] = Obj(Copied[k]).image[j]
               /\ LoadAt(k) + j \in 1..Len(Images)
  BY <1>1, <1>3, <1>4, ImagesFacts
<1>6. \A k \in 1..n : /\ AddressOf(Copied[k]) \in Nat
                      /\ SizeOf(program, Copied[k]) \in Nat \ {0} /\ Copied[k] \in Objects
  BY <1>1, <1>2, <1>3, SizeFacts
<1>7. PICK rs \in [1..n -> CopyRecord] :
         /\ rs = CopyRecords
         /\ \A k \in 1..n : /\ rs[k].from = LoadAt(k) /\ rs[k].to = AddressOf(Copied[k])
                            /\ rs[k].size = SizeOf(program, Copied[k])
  <2>1. CopyRecords = [k \in 1..n |-> [from |-> LoadAt(k), to |-> AddressOf(Copied[k]),
                                       size |-> SizeOf(program, Copied[k])]]
    BY <1>3 DEF CopyRecords
  <2>2. \A k \in 1..n : [from |-> LoadAt(k), to |-> AddressOf(Copied[k]),
                         size |-> SizeOf(program, Copied[k])] \in CopyRecord
    BY <1>5, <1>6 DEF CopyRecord
  <2> QED BY <2>1, <2>2
<1>0. PICK m, im : m = rom' /\ im = Images OBVIOUS
<1>8. PICK b \in Nat : /\ m = rom' /\ b = tables'.copy /\ im = Images
                       /\ InRom(m, im, 0) /\ InRom(m, CopyBytes(rs), b)
  BY <1>7, <1>0, BootReads
<1>9. /\ \A k \in 1..n :
            /\ WordIn(m, b + 6 * (k - 1)) = rs[k].from
            /\ WordIn(m, b + 6 * (k - 1) + 2) = rs[k].to
            /\ WordIn(m, b + 6 * (k - 1) + 4) = rs[k].size
            /\ m[b + 6 * (k - 1) + 4] \in 0..(Byte - 1)
            /\ m[b + 6 * (k - 1) + 5] \in Nat
      /\ WordIn(m, b + 6 * n + 4) = 0
  <2>1. CopyTableIs(m, b, n, rs) BY <1>8, CopyTableRead
  <2> QED BY <2>1 DEF CopyTableIs
<1>10. \A a : WordAt(a)' = WordIn(m, a) /\ rom'[a] = m[a] BY <1>8 DEF WordAt, WordIn
<1>11. \A k : RecordAt("copy", k)' = b + 6 * (k - 1) BY <1>8 DEF RecordAt
<1>12. Toward("copy") = 2 /\ Counted("copy") = 4 BY DEF Toward, Counted
<1>13. ASSUME NEW k \in 1..n, NEW o \in Objects, o = Copied[k] PROVE Serves("copy", k, o)'
  <2>1. o = Copied[k] BY <1>13
  <2>2. o \in Of("copy") BY <1>4, <2>1 DEF Of
  <2>3. PICK a \in Nat : a = b + 6 * (k - 1) OBVIOUS
  <2>4. /\ WordIn(m, a) = LoadAt(k) /\ WordIn(m, a + 2) = AddressOf(o)
        /\ WordIn(m, a + 4) = SizeOf(program, o)
        /\ m[a + 4] \in 0..(Byte - 1) /\ m[a + 4 + 1] \in Nat
    <3>1. a + 5 = a + 4 + 1 OBVIOUS
    <3> QED BY <3>1, <1>7, <1>9, <2>1, <2>3
  <2>5. ASSUME NEW i \in 0..(SizeOf(program, o) - 1)
        PROVE  m[LoadAt(k) + i] = Obj(o).image[i + 1]
    <3>1. PICK l \in Nat : l = LoadAt(k) BY <1>5
    <3>2. PICK s \in Nat : s = SizeOf(program, o) BY <1>6, <2>1
    <3>3. i \in 0..(s - 1) /\ i + 1 \in 1..s BY <3>2
    <3>4. im[l + (i + 1)] = Obj(o).image[i + 1] /\ l + (i + 1) \in 1..Len(im)
      BY <1>5, <1>8, <2>1, <3>1, <3>2, <3>3
    <3>5. m[0 + (l + (i + 1)) - 1] = im[l + (i + 1)] BY <1>8, <3>4 DEF InRom
    <3>6. 0 + (l + (i + 1)) - 1 = l + i BY <3>3
    <3> QED BY <3>1, <3>4, <3>5, <3>6
  <2>6. /\ o \in Of("copy")' /\ AddressOf(o)' = AddressOf(o) /\ Obj(o)' = Obj(o)
        /\ program' = program
    BY <2>2, BootFrame
  <2>7. /\ RecordAt("copy", k)' = a /\ WordAt(a)' = LoadAt(k) /\ WordAt(a + 2)' = AddressOf(o)
        /\ WordAt(a + 4)' = SizeOf(program, o)
        /\ rom'[a + 4] \in 0..(Byte - 1) /\ rom'[a + 4 + 1] \in Nat
        /\ \A i \in 0..(SizeOf(program, o) - 1) : rom'[LoadAt(k) + i] = Obj(o).image[i + 1]
    BY <1>8, <1>10, <1>11, <2>3, <2>4, <2>5
  <2>8. Serves("copy", k, o)' BY <1>12, <2>6, <2>7 DEF Serves
  <2> QED BY <2>8
<1>14. \A k \in 1..n : \E o \in Objects' : Serves("copy", k, o)'
  <2> SUFFICES ASSUME NEW k \in 1..n PROVE \E o \in Objects' : Serves("copy", k, o)' OBVIOUS
  <2>1. PICK o \in Objects : o = Copied[k] BY <1>6
  <2>2. Serves("copy", k, o)' BY <1>13, <2>1
  <2> QED BY <2>2, BootFrame
<1>15. ASSUME NEW o \in Of("copy")' PROVE \E k \in 1..n : Serves("copy", k, o)'
  <2>1. o \in Objects /\ Obj(o).kind = "data" BY BootFrame DEF Of
  <2>2. PICK k \in 1..n : Copied[k] = o BY <1>3, <2>1
  <2>3. Serves("copy", k, o)' BY <1>13, <2>1, <2>2
  <2> QED BY <2>3
<1>16. WordAt(RecordAt("copy", n + 1) + Counted("copy"))' = 0
  <2>1. (n + 1) - 1 = n OBVIOUS
  <2>2. RecordAt("copy", n + 1)' = b + 6 * n BY <1>8, <2>1 DEF RecordAt
  <2>3. WordAt(b + 6 * n + 4)' = 0 BY <1>9, <1>10
  <2> QED BY <2>2, <2>3, <1>12
<1>17. TableOf("copy", n)' BY <1>14, <1>15, <1>16 DEF TableOf
<1> QED BY <1>17

LEMMA BootZeroTable ==
    ASSUME LinkInv, LaidOut, Boot
    PROVE  \E n \in Nat : TableOf("zero", n)'
<1>1. program \in Program BY DEF LinkInv
<1>2. \A o \in Objects : AddressOf(o) \in Nat BY DEF LaidOut
<1>3. PICK l \in Nat : /\ Len(Cleared) = l /\ Cleared \in [1..l -> Objects]
                       /\ \A o \in Objects : (\E k \in 1..l : Cleared[k] = o) <=> Blank(o)
  BY <1>1, ClearedFacts
<1>4. PICK rs : rs = ZeroRecords OBVIOUS
<1>5. /\ rs \in Seq(ZeroRecord)
      /\ \A k \in DOMAIN rs : \E i \in 1..l :
            rs[k] = [to |-> AddressOf(Cleared[i]), size |-> SizeOf(program, Cleared[i])]
      /\ \A i \in 1..l : \E k \in DOMAIN rs :
            rs[k] = [to |-> AddressOf(Cleared[i]), size |-> SizeOf(program, Cleared[i])]
  BY <1>1, <1>2, <1>3, <1>4, ZeroRecordsFacts
<1>6. PICK n \in Nat : rs \in [1..n -> ZeroRecord] /\ DOMAIN rs = 1..n BY <1>5
<1>0. PICK m : m = rom' OBVIOUS
<1>7. PICK b \in Nat : m = rom' /\ b = tables'.zero /\ InRom(m, ZeroBytes(rs), b)
  BY <1>4, <1>0, BootReads
<1>8. /\ \A k \in 1..n :
            /\ WordIn(m, b + 4 * (k - 1)) = rs[k].to
            /\ WordIn(m, b + 4 * (k - 1) + 2) = rs[k].size
            /\ m[b + 4 * (k - 1) + 2] \in 0..(Byte - 1)
            /\ m[b + 4 * (k - 1) + 3] \in Nat
      /\ WordIn(m, b + 4 * n + 2) = 0
  <2>1. ZeroTableIs(m, b, n, rs) BY <1>6, <1>7, ZeroTableRead
  <2> QED BY <2>1 DEF ZeroTableIs
<1>9. \A a : WordAt(a)' = WordIn(m, a) /\ rom'[a] = m[a] BY <1>7 DEF WordAt, WordIn
<1>10. \A k : RecordAt("zero", k)' = b + 4 * (k - 1) BY <1>7 DEF RecordAt
<1>11. Toward("zero") = 0 /\ Counted("zero") = 2 BY DEF Toward, Counted
<1>12. ASSUME NEW k \in 1..n, NEW o \in Objects, Blank(o),
              rs[k] = [to |-> AddressOf(o), size |-> SizeOf(program, o)]
       PROVE  Serves("zero", k, o)'
  <2>1. o \in Of("zero") BY <1>12 DEF Of
  <2>2. PICK a \in Nat : a = b + 4 * (k - 1) OBVIOUS
  <2>3. rs[k].to = AddressOf(o) /\ rs[k].size = SizeOf(program, o) BY <1>12
  <2>4. /\ WordIn(m, a) = AddressOf(o) /\ WordIn(m, a + 2) = SizeOf(program, o)
        /\ m[a + 2] \in 0..(Byte - 1) /\ m[a + 2 + 1] \in Nat
    <3>1. a + 3 = a + 2 + 1 OBVIOUS
    <3> QED BY <3>1, <1>8, <2>2, <2>3
  <2>5. o \in Of("zero")' /\ AddressOf(o)' = AddressOf(o) /\ program' = program
    BY <2>1, BootFrame
  <2>6. /\ RecordAt("zero", k)' = a /\ WordAt(a + 0)' = AddressOf(o)
        /\ WordAt(a + 2)' = SizeOf(program, o)
        /\ rom'[a + 2] \in 0..(Byte - 1) /\ rom'[a + 2 + 1] \in Nat
    <3>1. a + 0 = a OBVIOUS
    <3> QED BY <3>1, <1>9, <1>10, <2>2, <2>4
  <2> QED BY <1>11, <2>5, <2>6 DEF Serves
<1>13. \A k \in 1..n : \E o \in Objects' : Serves("zero", k, o)'
  <2> SUFFICES ASSUME NEW k \in 1..n PROVE \E o \in Objects' : Serves("zero", k, o)' OBVIOUS
  <2>1. PICK i \in 1..l : rs[k] = [to |-> AddressOf(Cleared[i]), size |-> SizeOf(program, Cleared[i])]
    BY <1>5, <1>6
  <2>2. PICK o \in Objects : o = Cleared[i] BY <1>3
  <2>3. Blank(o) BY <1>3, <2>2
  <2>4. Serves("zero", k, o)' BY <1>12, <2>1, <2>2, <2>3
  <2> QED BY <2>4, BootFrame
<1>14. ASSUME NEW o \in Of("zero")' PROVE \E k \in 1..n : Serves("zero", k, o)'
  <2>1. o \in Objects /\ Blank(o) BY BootFrame DEF Of
  <2>2. PICK i \in 1..l : Cleared[i] = o BY <1>3, <2>1
  <2>3. PICK k \in 1..n : rs[k] = [to |-> AddressOf(o), size |-> SizeOf(program, o)]
    BY <1>5, <1>6, <2>2
  <2> QED BY <1>12, <2>1, <2>3
<1>15. WordAt(RecordAt("zero", n + 1) + Counted("zero"))' = 0
  <2>1. (n + 1) - 1 = n OBVIOUS
  <2>2. RecordAt("zero", n + 1)' = b + 4 * n BY <1>7, <2>1 DEF RecordAt
  <2>3. WordAt(b + 4 * n + 2)' = 0 BY <1>8, <1>9
  <2> QED BY <2>2, <2>3, <1>11
<1>16. TableOf("zero", n)' BY <1>13, <1>14, <1>15 DEF TableOf
<1> QED BY <1>16

LEMMA BootBooted ==
    ASSUME LinkInv, LaidOut, Boot
    PROVE  Booted'
<1>1. stage' = "booted" /\ startup' = StartupKind /\ DOMAIN ram' = Region.start..(Region.end - 1)
  BY DEF Boot
<1>2. /\ StartupKind' = StartupKind /\ Region' = Region /\ program' = program
  BY BootFrame DEF StartupKind, SimpleSafe, DataSafe, NeedsZero, Obj, Objects
<1>3. program.inits \in Nat
  <2>1. Byte \in Nat BY ByteAssumption
  <2>2. Byte * Byte \in Nat BY <2>1
  <2>3. program \in Program BY DEF LinkInv
  <2>4. program.inits \in 0..(Byte * Byte - 1) BY <2>3, BootAssumption
  <2> QED BY <2>2, <2>4
<1>0. PICK m : m = rom' OBVIOUS
<1>4. PICK b \in Nat, n \in Nat : /\ m = rom' /\ b = tables'.init /\ n = program.inits
                                  /\ InRom(m, InitBytes(n), b)
  BY <1>3, <1>0, BootReads
<1>5. /\ \A k \in 1..n : WordIn(m, b + 2 * (k - 1)) = k
      /\ WordIn(m, b + 2 * n) = 0
  <2>1. InitTableIs(m, b, n) BY <1>4, InitTableRead
  <2> QED BY <2>1 DEF InitTableIs
<1>6. \A a : WordAt(a)' = WordIn(m, a) BY <1>4 DEF WordAt, WordIn
<1>7. CallTable'
  <2>1. \A k \in 1..n : WordAt(b + 2 * (k - 1))' = k BY <1>5, <1>6
  <2>2. WordAt(b + 2 * n)' = 0 BY <1>5, <1>6
  <2> QED BY <2>1, <2>2, <1>2, <1>4 DEF CallTable
<1>8. /\ tables'.copy \in Nat /\ tables'.init \in Nat /\ tables'.zero \in Nat
      /\ program.riot => tables'.clear = Region.start..(Region.end - 1)
  BY BootReads
<1>9. (\E n2 \in Nat : TableOf("copy", n2)') /\ (\E n2 \in Nat : TableOf("zero", n2)')
  BY BootCopyTable, BootZeroTable
<1> QED BY <1>1, <1>2, <1>7, <1>8, <1>9 DEF Booted

-----------------------------------------------------------------------------
(* The steps of a program that is loaded. *)

LEMMA StartupFrame ==
    ASSUME StartupNext
    PROVE  UNCHANGED tableVars /\ DOMAIN ram' = DOMAIN ram /\ step \in Steps
<1>1. CASE ClearRam BY <1>1 DEF ClearRam, Continue, Steps
<1>2. CASE BeginRecord BY <1>2 DEF BeginRecord, Continue, Steps
<1>3. CASE EndTable BY <1>3 DEF EndTable, Continue, Steps
<1>4. CASE FullPage BY <1>4 DEF FullPage, Continue, Steps
<1>5. CASE LastPage BY <1>5 DEF LastPage, Continue, NextRecord, Steps
<1>6. CASE StoreFull BY <1>6 DEF StoreFull, Store, Continue, Steps
<1>7. CASE StoreTail BY <1>7 DEF StoreTail, Store, NextRecord, Continue, Steps
<1>8. CASE CallInitializer BY <1>8 DEF CallInitializer, Steps
<1>9. CASE ReturnInitializer BY <1>9 DEF ReturnInitializer, Continue, Steps
<1>10. CASE EnterMain BY <1>10 DEF EnterMain, Continue, Steps
<1> QED BY <1>1, <1>2, <1>3, <1>4, <1>5, <1>6, <1>7, <1>8, <1>9, <1>10 DEF StartupNext

\* Steps that change neither the layout nor the tables.
Loaded == UNCHANGED overlayVars /\ UNCHANGED tableVars /\ DOMAIN ram' = DOMAIN ram

LEMMA LoadedSteps ==
    ASSUME [Next]_vars
    PROVE  \/ LinkStep
           \/ Boot
           \/ StartupStep /\ Loaded
           \/ NextPhase /\ Loaded
           \/ Restart /\ Loaded
           \/ (\E o \in Objects : Write(o)) /\ Loaded
           \/ UNCHANGED vars
<1>1. CASE LinkStep BY <1>1
<1>2. CASE Boot BY <1>2
<1>3. CASE StartupStep BY <1>3, StartupFrame DEF StartupStep, Loaded
<1>4. CASE NextPhase BY <1>4 DEF NextPhase, Loaded
<1>5. CASE Restart BY <1>5 DEF Restart, Loaded
<1>6. ASSUME NEW o \in Objects, Write(o) PROVE Loaded
  BY <1>6 DEF Write, Loaded
<1>7. CASE UNCHANGED vars BY <1>7
<1> QED BY <1>1, <1>2, <1>3, <1>4, <1>5, <1>6, <1>7 DEF Next

LEMMA LoadedFrame ==
    ASSUME Loaded
    PROVE  /\ program' = program /\ shared' = shared /\ problem' = problem /\ at' = at
           /\ stage' = stage /\ startup' = startup /\ tables' = tables /\ rom' = rom
           /\ Objects' = Objects /\ Region' = Region
           /\ \A o : Obj(o)' = Obj(o) /\ AddressOf(o)' = AddressOf(o) /\ (Blank(o)' <=> Blank(o))
           /\ \A t : Of(t)' = Of(t)
           /\ \A a : WordAt(a)' = WordAt(a)
           /\ \A t, k : RecordAt(t, k)' = RecordAt(t, k)
<1>1. /\ program' = program /\ shared' = shared /\ problem' = problem /\ at' = at
      /\ stage' = stage /\ startup' = startup /\ tables' = tables /\ rom' = rom
  BY DEF Loaded, overlayVars, probeVars, tableVars
<1>2. /\ Objects' = Objects /\ Region' = Region
      /\ \A o : Obj(o)' = Obj(o) /\ AddressOf(o)' = AddressOf(o)
  BY <1>1 DEF Objects, Region, Obj, AddressOf
<1>3. \A o : Blank(o)' <=> Blank(o) BY <1>1 DEF Blank, NeedsZero, Obj
<1>4. \A t : Of(t)' = Of(t)
  <2> SUFFICES ASSUME NEW t PROVE Of(t)' = Of(t) OBVIOUS
  <2>1. \A o : o \in Of(t)' <=> o \in Of(t) BY <1>2, <1>3 DEF Of
  <2> QED BY <2>1
<1>5. \A a : WordAt(a)' = WordAt(a) BY <1>1 DEF WordAt
<1>6. \A t, k : RecordAt(t, k)' = RecordAt(t, k) BY <1>1 DEF RecordAt
<1> QED BY <1>1, <1>2, <1>3, <1>4, <1>5, <1>6

LEMMA TablesStay ==
    ASSUME Loaded
    PROVE  /\ \A t, k, o : Serves(t, k, o)' <=> Serves(t, k, o)
           /\ \A t, n : TableOf(t, n)' <=> TableOf(t, n)
           /\ CallTable' <=> CallTable
           /\ LaidOut' <=> LaidOut
           /\ StartupKind' = StartupKind
           /\ Booted' <=> Booted
<1>1. \A t, k, o : Serves(t, k, o)' <=> Serves(t, k, o)
  <2> SUFFICES ASSUME NEW t, NEW k, NEW o PROVE Serves(t, k, o)' <=> Serves(t, k, o) OBVIOUS
  <2>1. PICK a : a = RecordAt(t, k) OBVIOUS
  <2>2. RecordAt(t, k)' = a BY <2>1, LoadedFrame
  <2>3. /\ Of(t)' = Of(t) /\ AddressOf(o)' = AddressOf(o) /\ Obj(o)' = Obj(o)
        /\ program' = program /\ rom' = rom
    BY LoadedFrame
  <2>4. /\ WordAt(a)' = WordAt(a)
        /\ WordAt(a + Toward(t))' = WordAt(a + Toward(t))
        /\ WordAt(a + Counted(t))' = WordAt(a + Counted(t))
    BY LoadedFrame DEF Toward, Counted, WordAt
  <2> QED BY <2>1, <2>2, <2>3, <2>4 DEF Serves
<1>2. \A t, n : TableOf(t, n)' <=> TableOf(t, n)
  <2> SUFFICES ASSUME NEW t, NEW n PROVE TableOf(t, n)' <=> TableOf(t, n) OBVIOUS
  <2>1. RecordAt(t, n + 1)' = RecordAt(t, n + 1) BY LoadedFrame DEF RecordAt
  <2>2. WordAt(RecordAt(t, n + 1) + Counted(t))' = WordAt(RecordAt(t, n + 1) + Counted(t))
    BY <2>1, LoadedFrame DEF WordAt
  <2> QED BY <1>1, <2>2, LoadedFrame DEF TableOf
<1>3. CallTable' <=> CallTable BY LoadedFrame DEF CallTable, WordAt
<1>4. LaidOut' <=> LaidOut BY LoadedFrame DEF LaidOut
<1>5. StartupKind' = StartupKind
  BY LoadedFrame DEF StartupKind, SimpleSafe, DataSafe, NeedsZero, Obj, Objects
<1>6. Booted' <=> Booted
  BY <1>2, <1>3, <1>5, LoadedFrame DEF Booted, Loaded
<1> QED BY <1>1, <1>2, <1>3, <1>4, <1>5, <1>6

StepNames == {"off", "main", "frame"} \cup Steps

BootInv ==
    Ordinary(Region) =>
        /\ step # "off" => stage = "booted"
        /\ stage = "booted" => LaidOut /\ Booted

LEMMA BootInvKeeps ==
    ASSUME LinkInv, ProbeInv, BootInv, [Next]_vars,
           Ordinary(Region) => RegionTypeOK /\ RegionAccounted
    PROVE  BootInv'
<1>1. CASE LinkStep
  <2>1. stage = "link" /\ step' = step BY <1>1 DEF LinkStep, Link, startupVars
  <2>2. problem' = problem
    <3>1. ProbeNext BY <1>1 DEF LinkStep, Link
    <3> QED BY <3>1, ProbeNextKeeps, PlacedStay
  <2>3. stage' # "booted" BY <1>1 DEF LinkStep, Link
  <2> QED BY <2>1, <2>2, <2>3 DEF BootInv, Region
<1>2. CASE Boot
  <2> SUFFICES ASSUME Ordinary(Region)' PROVE (step # "off" => stage = "booted")' /\ (LaidOut /\ Booted)'
    BY DEF BootInv
  <2>1. Ordinary(Region) BY <1>2, BootFrame
  <2>2. Linked BY <1>2 DEF Boot, Linked
  <2>3. LaidOut BY <2>1, <2>2, LaidOutHolds DEF ProbeInv
  <2>4. Booted' BY <1>2, <2>3, BootBooted
  <2>5. LaidOut' BY <1>2, <2>3, BootFrame DEF LaidOut
  <2> QED BY <2>4, <2>5 DEF Booted
<1>3. CASE StartupStep /\ Loaded
  <2>1. step # "off" BY <1>3, StartupFrame DEF StartupStep, Steps
  <2> QED BY <1>3, <2>1, LoadedFrame, TablesStay DEF BootInv
<1>4. CASE NextPhase /\ Loaded
  <2>1. step # "off" BY <1>4 DEF NextPhase
  <2> QED BY <1>4, <2>1, LoadedFrame, TablesStay DEF BootInv
<1>5. CASE Restart /\ Loaded
  <2>1. step # "off" BY <1>5 DEF Restart
  <2> QED BY <1>5, <2>1, LoadedFrame, TablesStay DEF BootInv
<1>6. CASE (\E o \in Objects : Write(o)) /\ Loaded
  <2>1. step # "off" BY <1>6 DEF Write
  <2> QED BY <1>6, <2>1, LoadedFrame, TablesStay DEF BootInv
<1>7. CASE UNCHANGED vars
  <2>1. Loaded /\ step' = step BY <1>7 DEF vars, startupVars, Loaded
  <2> QED BY <2>1, LoadedFrame, TablesStay DEF BootInv
<1> QED BY <1>1, <1>2, <1>3, <1>4, <1>5, <1>6, <1>7, LoadedSteps

LEMMA BootInvHolds == Spec => []BootInv
<1>1. Init => BootInv BY DEF Init, OverlayInit, BootInv
<1>2. ASSUME LinkInv, ProbeInv, BootInv, [Next]_vars,
             Ordinary(Region) => RegionTypeOK,
             Ordinary(Region) => RegionAccounted /\ ContractsKept
      PROVE  BootInv'
  BY <1>2, BootInvKeeps
<1> QED BY <1>1, <1>2, LinkInvHolds, ProbeInvHolds, RegionTypeHolds, LayoutAccounted, PTL DEF Spec

-----------------------------------------------------------------------------
(* The initializers. *)

Walking == {"clear", "record", "page", "full", "tail"}

CalledTo(k) == called = [i \in 1..k |-> i]

\* The record in ptr0, or on the stack while an initializer runs, is the one
\* behind those of the initializers that were called.
CallInv ==
    /\ step \in StepNames
    /\ step \in Walking => called = <<>>
    /\ step = "init" => \E k \in 0..program.inits :
                           ptr0 = tables.init + 2 * k /\ CalledTo(k)
    /\ step = "called" => \E k \in 1..program.inits :
                             saved = tables.init + 2 * (k - 1) /\ CalledTo(k)
    /\ step = "main" /\ startup # "simple" => CalledTo(program.inits)

LEMMA CalledNext ==
    ASSUME NEW k \in Nat, NEW c, c = [i \in 1..k |-> i]
    PROVE  Append(c, k + 1) = [i \in 1..(k + 1) |-> i]
<1>1. c \in Seq(Nat) /\ Len(c) = k OBVIOUS
<1>2. PICK w : w = Append(c, k + 1) OBVIOUS
<1>3. /\ w \in Seq(Nat) /\ Len(w) = k + 1 /\ \A i \in DOMAIN c : w[i] = c[i]
      /\ w[k + 1] = k + 1
  BY <1>1, <1>2, AppendFacts
<1>4. \A i \in 1..(k + 1) : w[i] = i
  <2> SUFFICES ASSUME NEW i \in 1..(k + 1) PROVE w[i] = i OBVIOUS
  <2>1. CASE i = k + 1 BY <2>1, <1>3
  <2>2. CASE i # k + 1
    <3>1. i \in DOMAIN c BY <2>2
    <3> QED BY <3>1, <1>3
  <2> QED BY <2>1, <2>2
<1>5. DOMAIN w = 1..(k + 1) /\ w = [i \in DOMAIN w |-> w[i]] BY <1>3
<1> QED BY <1>2, <1>4, <1>5

LEMMA CallStep ==
    ASSUME CallInv, Booted, program.inits \in Nat, StartupStep, Loaded
    PROVE  CallInv'
<1>1. /\ program' = program /\ tables' = tables /\ startup' = startup
  BY LoadedFrame
<1>2. tables.init \in Nat /\ CallTable BY DEF Booted
<1>3. CASE ClearRam
  <2>1. /\ step \in Walking /\ called' = called /\ step' \in {"main", "record"}
        /\ step' = "main" => startup = "simple"
    BY <1>3 DEF ClearRam, Continue, Walking, callVars
  <2> QED BY <1>1, <2>1 DEF CallInv, Walking, StepNames, Steps
<1>4. CASE BeginRecord \/ FullPage \/ LastPage \/ StoreFull \/ StoreTail
  <2>1. step \in Walking /\ called' = called /\ step' \in {"record", "page", "full", "tail"}
    BY <1>4 DEF BeginRecord, FullPage, LastPage, StoreFull, StoreTail, NextRecord, Continue,
                Walking, callVars
  <2> QED BY <1>1, <2>1 DEF CallInv, Walking, StepNames, Steps
<1>5. CASE EndTable
  <2>1. /\ step \in Walking /\ called' = called
        /\ step' = "record" \/ (step' = "init" /\ ptr0' = tables.init)
    BY <1>5 DEF EndTable, Continue, Walking, callVars
  <2>2. called' = <<>> BY <2>1 DEF CallInv
  <2>3. CASE step' = "record" BY <1>1, <2>2, <2>3 DEF CallInv, Walking, StepNames, Steps
  <2>4. CASE step' = "init"
    <3>1. ptr0' = tables.init + 2 * 0 BY <1>2, <2>1, <2>4
    <3>2. called' = [i \in 1..0 |-> i]
      <4>1. <<>> = [i \in 1..0 |-> i] OBVIOUS
      <4> QED BY <4>1, <2>2
    <3>3. 0 \in 0..program.inits OBVIOUS
    <3>4. \E k \in 0..program'.inits : ptr0' = tables'.init + 2 * k /\ CalledTo(k)'
      BY <1>1, <3>1, <3>2, <3>3 DEF CalledTo
    <3> QED BY <2>4, <3>4 DEF CallInv, Walking, StepNames, Steps
  <2> QED BY <2>1, <2>3, <2>4
<1>6. CASE CallInitializer
  <2>1. /\ step = "init" /\ WordAt(ptr0) # 0 /\ called' = Append(called, WordAt(ptr0))
        /\ saved' = ptr0 /\ step' = "called"
    BY <1>6 DEF CallInitializer
  <2>2. PICK k \in 0..program.inits : ptr0 = tables.init + 2 * k /\ CalledTo(k)
    BY <2>1 DEF CallInv
  <2>3. k # program.inits BY <1>2, <2>1, <2>2 DEF CallTable
  <2>4. k + 1 \in 1..program.inits /\ (k + 1) - 1 = k BY <2>3
  <2>5. WordAt(ptr0) = k + 1
    <3>1. WordAt(tables.init + 2 * ((k + 1) - 1)) = k + 1 BY <1>2, <2>4 DEF CallTable
    <3> QED BY <3>1, <2>2, <2>4
  <2>6. called' = [i \in 1..(k + 1) |-> i] BY <2>1, <2>2, <2>5, CalledNext DEF CalledTo
  <2>7. \E l \in 1..program'.inits : saved' = tables'.init + 2 * (l - 1) /\ CalledTo(l)'
    BY <1>1, <2>1, <2>2, <2>4, <2>6 DEF CalledTo
  <2> QED BY <2>1, <2>7 DEF CallInv, Walking, StepNames, Steps
<1>7. CASE ReturnInitializer
  <2>1. /\ step = "called" /\ ptr0' = saved + 2 /\ step' = "init" /\ called' = called
    BY <1>7 DEF ReturnInitializer, Continue, callVars, Advanced
  <2>2. PICK k \in 1..program.inits : saved = tables.init + 2 * (k - 1) /\ CalledTo(k)
    BY <2>1 DEF CallInv
  <2>3. ptr0' = tables.init + 2 * k BY <1>2, <2>1, <2>2
  <2>4. k \in 0..program.inits OBVIOUS
  <2>5. \E l \in 0..program'.inits : ptr0' = tables'.init + 2 * l /\ CalledTo(l)'
    BY <1>1, <2>1, <2>2, <2>3, <2>4 DEF CalledTo
  <2> QED BY <2>1, <2>5 DEF CallInv, Walking, StepNames, Steps
<1>8. CASE EnterMain
  <2>1. step = "init" /\ WordAt(ptr0) = 0 /\ step' = "main" /\ called' = called
    BY <1>8 DEF EnterMain, Continue, callVars
  <2>2. PICK k \in 0..program.inits : ptr0 = tables.init + 2 * k /\ CalledTo(k)
    BY <2>1 DEF CallInv
  <2>3. k = program.inits
    <3> SUFFICES ASSUME k # program.inits PROVE FALSE OBVIOUS
    <3>1. k + 1 \in 1..program.inits /\ (k + 1) - 1 = k OBVIOUS
    <3>2. WordAt(tables.init + 2 * ((k + 1) - 1)) = k + 1 BY <1>2, <3>1 DEF CallTable
    <3> QED BY <3>1, <3>2, <2>1, <2>2
  <2>4. called' = [i \in 1..program.inits |-> i] BY <2>1, <2>2, <2>3 DEF CalledTo
  <2>5. (step = "main" /\ startup # "simple" => CalledTo(program.inits))' BY <1>1, <2>4 DEF CalledTo
  <2> QED BY <2>1, <2>5 DEF CallInv, Walking, StepNames, Steps
<1> QED BY <1>3, <1>4, <1>5, <1>6, <1>7, <1>8 DEF StartupStep, StartupNext

LEMMA InitsFacts ==
    ASSUME LinkInv
    PROVE  program.inits \in Nat
<1>1. Byte \in Nat BY ByteAssumption
<1>2. Byte * Byte \in Nat BY <1>1
<1>3. program \in Program BY DEF LinkInv
<1>4. program.inits \in 0..(Byte * Byte - 1) BY <1>3, BootAssumption
<1> QED BY <1>2, <1>4

\* Startup is entered with nothing called.
LEMMA EnterKeepsCalls ==
    ASSUME EnterStartup
    PROVE  CallInv'
<1>1. step' \in {"record", "clear"} /\ called' = <<>> BY DEF EnterStartup
<1> QED BY <1>1 DEF CallInv, Walking, StepNames, Steps

LEMMA CallInvHolds == Spec => [](Ordinary(Region) => CallInv)
<1>1. Init => CallInv BY DEF Init, CallInv, Walking, StepNames
<1>2. ASSUME LinkInv, ProbeInv, BootInv, Ordinary(Region) => CallInv, [Next]_vars
      PROVE  (Ordinary(Region) => CallInv)'
  <2> SUFFICES ASSUME Ordinary(Region)' PROVE CallInv' OBVIOUS
  <2>1. CASE LinkStep
    <3>1. ProbeNext /\ stage = "link" BY <2>1 DEF LinkStep, Link
    <3>2. Ordinary(Region) BY <3>1, <1>2, ProbeNextKeeps, PlacedStay DEF Region
    <3>3. step' = step /\ called' = called BY <2>1 DEF LinkStep, startupVars, callVars
    <3>4. step = "off" BY <1>2, <3>1, <3>2 DEF BootInv
    <3> QED BY <3>3, <3>4 DEF CallInv, Walking, StepNames
  <2>2. CASE Boot BY <2>2, EnterKeepsCalls DEF Boot
  <2>3. CASE StartupStep /\ Loaded
    <3>1. Ordinary(Region) BY <2>3, LoadedFrame
    <3>2. step # "off" BY <2>3, StartupFrame DEF StartupStep, Steps
    <3>3. Booted BY <1>2, <3>1, <3>2 DEF BootInv
    <3> QED BY <1>2, <2>3, <3>1, <3>3, InitsFacts, CallStep
  <2>4. CASE NextPhase /\ Loaded
    <3>1. step' = "frame" BY <2>4 DEF NextPhase
    <3> QED BY <3>1 DEF CallInv, Walking, StepNames
  <2>5. CASE Restart /\ Loaded BY <2>5, EnterKeepsCalls DEF Restart
  <2>6. CASE (\E o \in Objects : Write(o)) /\ Loaded
    <3>1. step' = "frame" BY <2>6 DEF Write
    <3> QED BY <3>1 DEF CallInv, Walking, StepNames
  <2>7. CASE UNCHANGED vars
    <3>1. Loaded /\ step' = step /\ called' = called /\ ptr0' = ptr0 /\ saved' = saved
      BY <2>7 DEF vars, startupVars, callVars, Loaded
    <3>2. /\ program' = program /\ tables' = tables /\ startup' = startup /\ Region' = Region
      BY <3>1, LoadedFrame
    <3> QED BY <1>2, <3>1, <3>2 DEF CallInv, CalledTo
  <2> QED BY <1>2, <2>1, <2>2, <2>3, <2>4, <2>5, <2>6, <2>7, LoadedSteps
<1> QED BY <1>1, <1>2, LinkInvHolds, ProbeInvHolds, BootInvHolds, PTL DEF Spec

\* Every initializer is called, once and in the order of the link, whatever the
\* ones before have left in ptr0.
THEOREM CalledOnceInOrderHolds == Spec => [](Ordinary(Region) => CalledOnceInOrder)
<1>1. (Ordinary(Region) => CallInv) => (Ordinary(Region) => CalledOnceInOrder)
  BY DEF CallInv, CalledTo, CalledOnceInOrder
<1> QED BY <1>1, CallInvHolds, PTL

-----------------------------------------------------------------------------
(* The bytes that startup stores. *)

Tables == {"copy", "zero"}
Offsets(o) == 0..(SizeOf(program, o) - 1)

\* The byte i of an object of table t has its initial value.
Wants(t, o, i) == IF t = "copy" THEN Obj(o).image[i + 1] ELSE Zero
Held(t, o, i) == ram[AddressOf(o) + i] = Wants(t, o, i)
Filled(t) == \A o \in Of(t) : \A i \in Offsets(o) : Held(t, o, i)

\* The records before k are done, and the first d bytes of record k.
Done(t, k, d) ==
    \A j \in 1..k : \A o \in Of(t) : \A i \in Offsets(o) :
        Serves(t, j, o) /\ (j < k \/ i < d) => Held(t, o, i)

\* Objects of the tables share bytes only if they are cleared.
LEMMA OnlyBlankShare ==
    ASSUME LinkInv, NEW g \in shared, NEW o \in g, NEW t \in Tables, o \in Of(t)
    PROVE  t = "zero"
<1>1. program \in Program /\ g \in Shared(program) BY DEF LinkInv
<1>2. o \in Overlaid(program) BY <1>1, SharedFacts
<1>3. Obj(o).kind \in {"bss", "zp"} BY <1>2 DEF Overlaid, Overlayable, Obj
<1> QED BY <1>3 DEF Of, Tables

\* An object is in one table.
LEMMA OneTable ==
    ASSUME NEW t \in Tables, NEW u \in Tables, NEW o, o \in Of(t), o \in Of(u)
    PROVE  t = u
<1>1. Blank(o) => Obj(o).kind # "data" BY DEF Blank, NeedsZero
<1> QED BY <1>1 DEF Of, Tables

\* A store of an initial value.
Puts(t, o, i) == ram' = [ram EXCEPT ![AddressOf(o) + i] = Wants(t, o, i)]

LEMMA PutKeeps ==
    ASSUME LinkInv, LaidOut, Loaded, NEW t \in Tables, NEW o \in Of(t), NEW i \in Offsets(o),
           Puts(t, o, i), DOMAIN ram = Region.start..(Region.end - 1)
    PROVE  /\ Held(t, o, i)'
           /\ \A u \in Tables : \A q \in Of(u) : \A j \in Offsets(q) : Held(u, q, j) => Held(u, q, j)'
<1>1. program \in Program BY DEF LinkInv
<1>2. \A q \in Objects : AddressOf(q) \in Nat /\ SizeOf(program, q) \in Nat
                         /\ Region.start <= AddressOf(q)
                         /\ AddressOf(q) + SizeOf(program, q) <= Region.end
  BY <1>1, SizeFacts DEF LaidOut
<1>3. \A u \in Tables : Of(u) \subseteq Objects BY DEF Of
<1>4. o \in Objects BY <1>3
<1>5. \A q : AddressOf(q)' = AddressOf(q) /\ Obj(q)' = Obj(q) BY LoadedFrame
<1>6. Region.start \in Nat /\ Region.end \in Nat BY DEF LaidOut
<1>7. AddressOf(o) + i \in DOMAIN ram BY <1>2, <1>4, <1>6 DEF Offsets
<1>8. \A a \in DOMAIN ram : ram'[a] = IF a = AddressOf(o) + i THEN Wants(t, o, i) ELSE ram[a]
  BY DEF Puts
<1>9. \A u, q, j : Wants(u, q, j)' = Wants(u, q, j) BY <1>5 DEF Wants
<1>10. Held(t, o, i)' BY <1>5, <1>7, <1>8, <1>9 DEF Held
<1>11. ASSUME NEW u \in Tables, NEW q \in Of(u), NEW j \in Offsets(q), Held(u, q, j)
       PROVE  Held(u, q, j)'
  <2>1. q \in Objects BY <1>3
  <2>2. AddressOf(q) + j \in DOMAIN ram BY <1>2, <1>6, <2>1 DEF Offsets
  <2>3. ram[AddressOf(q) + j] = Wants(u, q, j) BY <1>11 DEF Held
  <2>4. CASE AddressOf(q) + j # AddressOf(o) + i
    BY <1>5, <1>8, <1>9, <2>2, <2>3, <2>4 DEF Held
  <2>5. CASE AddressOf(q) + j = AddressOf(o) + i
    <3>1. Wants(t, o, i) = Wants(u, q, j)
      <4>1. CASE o = q
        <5>1. t = u BY <4>1, OneTable
        <5>2. i = j BY <1>2, <1>4, <2>5, <4>1 DEF Offsets
        <5> QED BY <4>1, <5>1, <5>2
      <4>2. CASE o # q
        <5>1. PICK g \in shared : o \in g /\ q \in g
          <6>1. ~(AddressOf(o) + SizeOf(program, o) <= AddressOf(q))
            BY <1>2, <1>4, <2>1, <2>5 DEF Offsets
          <6>2. ~(AddressOf(q) + SizeOf(program, q) <= AddressOf(o))
            BY <1>2, <1>4, <2>1, <2>5 DEF Offsets
          <6> QED BY <1>4, <2>1, <4>2, <6>1, <6>2 DEF LaidOut
        <5>2. t = "zero" /\ u = "zero" BY <5>1, OnlyBlankShare
        <5> QED BY <5>2 DEF Wants
      <4> QED BY <4>1, <4>2
    <3> QED BY <1>5, <1>8, <1>9, <2>2, <2>5, <3>1 DEF Held
  <2> QED BY <2>4, <2>5
<1> QED BY <1>10, <1>11

\* Whatever keeps RAM keeps what is filled.
LEMMA Undisturbed ==
    ASSUME Loaded, ram' = ram
    PROVE  /\ \A t : Filled(t)' <=> Filled(t)
           /\ \A t, k, d : Done(t, k, d)' <=> Done(t, k, d)
<1>1. /\ \A o : Offsets(o)' = Offsets(o) /\ \A t, i : Held(t, o, i)' <=> Held(t, o, i)
      /\ \A t : Of(t)' = Of(t)
  BY LoadedFrame DEF Offsets, Held, Wants
<1>2. \A t, k, o : Serves(t, k, o)' <=> Serves(t, k, o) BY TablesStay
<1>3. \A t : Filled(t)' <=> Filled(t) BY <1>1 DEF Filled
<1>4. ASSUME NEW t, NEW k, NEW d PROVE Done(t, k, d)' <=> Done(t, k, d)
  BY <1>1, <1>2 DEF Done
<1> QED BY <1>3, <1>4

-----------------------------------------------------------------------------
(* The walk through the tables. *)

LEMMA TimesFacts ==
    ASSUME NEW a \in Nat, NEW c \in Nat
    PROVE  /\ a * c \in Nat /\ (a + 1) * c = a * c + c /\ 0 * c = 0 /\ a * c = c * a
           /\ \A b \in Nat : a < b => a * c + c <= b * c
<1>1. a * c \in Nat /\ (a + 1) * c = a * c + c /\ 0 * c = 0 /\ a * c = c * a OBVIOUS
<1>2. ASSUME NEW b \in Nat, a < b PROVE a * c + c <= b * c
  <2>1. PICK e \in Nat : b = (a + 1) + e
    <3>1. b - (a + 1) \in Nat /\ b = (a + 1) + (b - (a + 1)) BY <1>2
    <3> QED BY <3>1
  <2>2. ((a + 1) + e) * c = (a + 1) * c + e * c OBVIOUS
  <2>3. e * c \in Nat OBVIOUS
  <2> QED BY <1>1, <2>1, <2>2, <2>3
<1> QED BY <1>1, <1>2

LEMMA RecordFacts ==
    ASSUME NEW t \in Tables, NEW k \in Nat, tables.copy \in Nat, tables.zero \in Nat
    PROVE  /\ Record[t].to = Toward(t) /\ Record[t].count = Counted(t)
           /\ RecordAt(t, k) + Record[t].length = RecordAt(t, k + 1)
           /\ RecordAt("copy", 1) = tables.copy /\ RecordAt("zero", 1) = tables.zero
<1>1. Record["copy"].to = 2 /\ Record["copy"].count = 4 /\ Record["copy"].length = 6
  BY DEF Record
<1>2. Record["zero"].to = 0 /\ Record["zero"].count = 2 /\ Record["zero"].length = 4
  BY DEF Record
<1>3. t = "copy" \/ t = "zero" BY DEF Tables
<1>4. 6 * (k - 1) + 6 = 6 * ((k + 1) - 1) /\ 4 * (k - 1) + 4 = 4 * ((k + 1) - 1) OBVIOUS
<1>5. 6 * (1 - 1) = 0 /\ 4 * (1 - 1) = 0 OBVIOUS
<1>6. RecordAt("copy", k) + 6 = RecordAt("copy", k + 1) BY <1>4 DEF RecordAt
<1>7. RecordAt("zero", k) + 4 = RecordAt("zero", k + 1) BY <1>4 DEF RecordAt
<1>8. RecordAt("copy", 1) = tables.copy /\ RecordAt("zero", 1) = tables.zero
  BY <1>5 DEF RecordAt
<1> QED BY <1>1, <1>2, <1>3, <1>6, <1>7, <1>8 DEF Toward, Counted

\* The record k of table t with n records is what ptr0 points to.
Reads(t, n, k) ==
    /\ t \in Tables /\ n \in Nat /\ k \in 1..n /\ TableOf(t, n)
    /\ table = t /\ ptr0 = RecordAt(t, k)

\* The count of a record: its full pages and its rest.
LEMMA CountFacts ==
    ASSUME LinkInv, Booted, NEW t, NEW n, NEW k, Reads(t, n, k)
    PROVE  /\ Pages \in Nat /\ Rest \in 0..(Byte - 1) /\ CountAt = Rest + Byte * Pages
           /\ CountAt \in Nat \ {0}
           /\ \A o \in Of(t) : Serves(t, k, o) => SizeOf(program, o) = CountAt
           /\ \E o \in Of(t) : Serves(t, k, o)
<1>1. /\ t \in Tables /\ n \in Nat /\ k \in 1..n /\ TableOf(t, n)
      /\ table = t /\ ptr0 = RecordAt(t, k) /\ k \in Nat
  BY DEF Reads
<1>2. tables.copy \in Nat /\ tables.zero \in Nat BY DEF Booted
<1>3. Record[table].count = Counted(t) BY <1>1, <1>2, RecordFacts
<1>4. PICK o \in Objects : Serves(t, k, o) BY <1>1 DEF TableOf
<1>5. /\ CountAt = WordAt(RecordAt(t, k) + Counted(t))
      /\ Rest = rom[RecordAt(t, k) + Counted(t)]
      /\ Pages = rom[RecordAt(t, k) + Counted(t) + 1]
  BY <1>1, <1>3 DEF CountAt, Rest, Pages
<1>6. CountAt = Rest + Byte * Pages BY <1>5 DEF WordAt
<1>7. Rest \in 0..(Byte - 1) /\ Pages \in Nat /\ SizeOf(program, o) = CountAt
  BY <1>4, <1>5 DEF Serves
<1>8. SizeOf(program, o) \in Nat \ {0}
  <2>1. program \in Program BY DEF LinkInv
  <2> QED BY <2>1, SizeFacts
<1>9. \A q \in Of(t) : Serves(t, k, q) => SizeOf(program, q) = CountAt BY <1>5 DEF Serves
<1>10. \E q \in Of(t) : Serves(t, k, q) BY <1>4 DEF Serves
<1> QED BY <1>6, <1>7, <1>8, <1>9, <1>10

\* Nothing is stored, or an initial value in its place.
Stores ==
    \/ ram' = ram
    \/ \E u \in Tables : \E o \in Of(u) : \E i \in Offsets(o) : Puts(u, o, i)

\* One store takes a record one byte further, and disturbs nothing.
LEMMA StoreStep ==
    ASSUME LinkInv, LaidOut, Booted, Loaded, NEW t, NEW n, NEW k, Reads(t, n, k),
           NEW pg, Store(pg), NEW d \in Nat, d = pg * Byte + y, d < CountAt, Done(t, k, d)
    PROVE  /\ Done(t, k, d + 1)' /\ Stores
           /\ \A u \in Tables : Filled(u) => Filled(u)'
<1>1. /\ t \in Tables /\ k \in Nat /\ table = t /\ ptr0 = RecordAt(t, k)
  BY DEF Reads
<1>2. tables.copy \in Nat /\ tables.zero \in Nat /\ DOMAIN ram = Region.start..(Region.end - 1)
  BY DEF Booted
<1>3. Record[table].to = Toward(t) BY <1>1, <1>2, RecordFacts
<1>4. ram' = [ram EXCEPT ![WordAt(RecordAt(t, k) + Toward(t)) + d] =
                 IF t = "copy" THEN rom[WordAt(RecordAt(t, k)) + d] ELSE Zero]
  BY <1>1, <1>3 DEF Store
<1>5. ASSUME NEW o \in Of(t), Serves(t, k, o) PROVE d \in Offsets(o) /\ Puts(t, o, d)
  <2>1. SizeOf(program, o) = CountAt /\ CountAt \in Nat BY <1>5, CountFacts
  <2>2. d \in Offsets(o) BY <2>1 DEF Offsets
  <2>3. WordAt(RecordAt(t, k) + Toward(t)) = AddressOf(o) BY <1>5 DEF Serves
  <2>4. (IF t = "copy" THEN rom[WordAt(RecordAt(t, k)) + d] ELSE Zero) = Wants(t, o, d)
    BY <1>5, <2>2 DEF Serves, Wants, Offsets
  <2> QED BY <1>4, <2>2, <2>3, <2>4 DEF Puts
<1>6. PICK o \in Of(t) : Serves(t, k, o) BY CountFacts
<1>7. \A u \in Tables : \A q \in Of(u) : \A j \in Offsets(q) : Held(u, q, j) => Held(u, q, j)'
  BY <1>1, <1>2, <1>5, <1>6, PutKeeps
<1>8. /\ \A q : Offsets(q)' = Offsets(q) /\ \A u : Of(u)' = Of(u)
      /\ \A j, q : Serves(t, j, q)' <=> Serves(t, j, q)
  BY LoadedFrame, TablesStay DEF Offsets
<1>9. ASSUME NEW j \in 1..k, NEW q \in Of(t)', NEW i \in Offsets(q)', Serves(t, j, q)',
             j < k \/ i < d + 1
      PROVE  Held(t, q, i)'
  <2>1. q \in Of(t) /\ i \in Offsets(q) /\ Serves(t, j, q) BY <1>8, <1>9
  <2>2. CASE j < k \/ i < d BY <1>1, <1>7, <2>1, <2>2 DEF Done
  <2>3. CASE ~(j < k \/ i < d)
    <3>1. i \in Int BY <2>1 DEF Offsets
    <3>2. i = d /\ j = k BY <1>1, <1>9, <2>3, <3>1
    <3>3. Puts(t, q, i) BY <1>5, <2>1, <3>2
    <3> QED BY <1>1, <1>2, <2>1, <3>3, PutKeeps
  <2> QED BY <2>2, <2>3
<1>10. Done(t, k, d + 1)' BY <1>9 DEF Done
<1>11. ASSUME NEW u \in Tables, Filled(u) PROVE Filled(u)'
  BY <1>7, <1>8, <1>11 DEF Filled
<1>12. Stores BY <1>1, <1>5, <1>6 DEF Stores
<1> QED BY <1>10, <1>11, <1>12

\* A record that is done to its end is done.
LEMMA NextDone ==
    ASSUME LinkInv, Booted, Loaded, NEW t, NEW n, NEW k, Reads(t, n, k),
           NEW d \in Nat, d = CountAt, Done(t, k, d)'
    PROVE  Done(t, k + 1, 0)'
<1>1. k \in Nat BY DEF Reads
<1>2. /\ Of(t)' = Of(t) /\ \A o : Offsets(o)' = Offsets(o)
      /\ \A j, o : Serves(t, j, o)' <=> Serves(t, j, o)
  BY LoadedFrame, TablesStay DEF Offsets
<1>3. ASSUME NEW j \in 1..(k + 1), NEW o \in Of(t)', NEW i \in Offsets(o)',
             Serves(t, j, o)', j < k + 1 \/ i < 0
      PROVE  Held(t, o, i)'
  <2>1. j \in 1..k BY <1>1, <1>2, <1>3 DEF Offsets
  <2>2. j < k \/ i < d
    <3>1. CASE j = k
      <4>1. SizeOf(program, o) = d BY <1>2, <1>3, <3>1, CountFacts
      <4>2. i \in Offsets(o) BY <1>2, <1>3
      <4>3. i \in 0..(d - 1) BY <4>1, <4>2 DEF Offsets
      <4> QED BY <4>3
    <3>2. CASE j # k BY <1>1, <2>1, <3>2
    <3> QED BY <3>1, <3>2
  <2> QED BY <1>3, <2>1, <2>2 DEF Done
<1> QED BY <1>3 DEF Done

\* A table of which all records are done has filled its objects.
LEMMA TableDone ==
    ASSUME NEW t, NEW n \in Nat, TableOf(t, n), Done(t, n + 1, 0)
    PROVE  Filled(t)
<1> SUFFICES ASSUME NEW o \in Of(t), NEW i \in Offsets(o) PROVE Held(t, o, i) BY DEF Filled
<1>1. PICK k \in 1..n : Serves(t, k, o) BY DEF TableOf
<1>2. k \in 1..(n + 1) /\ k < n + 1 OBVIOUS
<1> QED BY <1>1, <1>2 DEF Done

Moving == {"record", "page", "full", "tail"}

\* Startup stands at record k of table t with n records, d bytes of which are
\* done: X counts the full pages and then, down to one, the rest.
Stands(t, n, k, d) ==
    /\ t \in Tables /\ n \in Nat /\ k \in 1..(n + 1) /\ d \in Nat /\ TableOf(t, n)
    /\ table = t /\ ptr0 = RecordAt(t, k) /\ Done(t, k, d)
    /\ step # "record" => k \in 1..n
    /\ step = "record" => d = 0
    /\ step = "page" => x \in Nat /\ x <= Pages /\ d = x * Byte
    /\ step = "full" => x \in Nat /\ x < Pages /\ y \in 0..(Byte - 1) /\ d = x * Byte + y
    /\ step = "tail" => x \in 1..Rest /\ y = Rest - x /\ d = Pages * Byte + y

LEMMA SameRecord ==
    ASSUME Loaded, ptr0' = ptr0, table' = table
    PROVE  Pages' = Pages /\ Rest' = Rest /\ CountAt' = CountAt
BY LoadedFrame DEF Pages, Rest, CountAt, WordAt

LEMMA AdvanceStands ==
    ASSUME LinkInv, Booted, Loaded, NEW t, NEW n, NEW k, Reads(t, n, k),
           NEW d \in Nat, d = CountAt, Done(t, k, d)', NextRecord
    PROVE  Stands(t, n, k + 1, 0)'
<1>1. /\ t \in Tables /\ n \in Nat /\ k \in 1..n /\ k \in Nat /\ TableOf(t, n)
      /\ table = t /\ ptr0 = RecordAt(t, k)
  BY DEF Reads
<1>2. tables.copy \in Nat /\ tables.zero \in Nat BY DEF Booted
<1>3. step' = "record" /\ table' = table /\ ptr0' = ptr0 + Record[table].length
  BY DEF NextRecord, Continue, Advanced
<1>4. PICK l \in Nat : l = k + 1 BY <1>1
<1>5. l \in 1..(n + 1) BY <1>1, <1>4
<1>6. ptr0' = RecordAt(t, l) BY <1>1, <1>2, <1>3, <1>4, RecordFacts
<1>7. RecordAt(t, l)' = RecordAt(t, l) BY LoadedFrame
<1>8. TableOf(t, n)' BY <1>1, TablesStay
<1>9. Done(t, l, 0)' BY <1>4, NextDone
<1>10. Stands(t, n, l, 0)' BY <1>1, <1>3, <1>5, <1>6, <1>7, <1>8, <1>9 DEF Stands
<1> QED BY <1>4, <1>10

\* A step from a record to the bytes of one, or to the next.
RecordStep == BeginRecord \/ FullPage \/ LastPage \/ StoreFull \/ StoreTail

LEMMA WalkStep ==
    ASSUME LinkInv, LaidOut, Booted, Loaded, NEW t, NEW n, NEW k, NEW d, Stands(t, n, k, d),
           RecordStep
    PROVE  /\ \E l, e : Stands(t, n, l, e)'
           /\ \A u \in Tables : Filled(u) => Filled(u)'
           /\ table' = table /\ step' \in Moving /\ Stores
<1>1. /\ t \in Tables /\ n \in Nat /\ k \in 1..(n + 1) /\ d \in Nat /\ TableOf(t, n)
      /\ table = t /\ ptr0 = RecordAt(t, k) /\ Done(t, k, d)
  BY DEF Stands
<1>2. tables.copy \in Nat /\ tables.zero \in Nat BY DEF Booted
<1>3. Byte \in Nat /\ Byte > 6 BY ByteAssumption
<1>4. Reads(t, n, k)
  <2>1. k # n + 1
    <3>1. CASE step # "record" BY <1>1, <3>1 DEF Stands
    <3>2. CASE step = "record"
      <4>1. CountAt # 0
        BY <3>2 DEF RecordStep, BeginRecord, FullPage, LastPage, StoreFull, StoreTail
      <4>2. CountAt = WordAt(RecordAt(t, k) + Counted(t))
        BY <1>1, <1>2, RecordFacts DEF CountAt
      <4> QED BY <1>1, <4>1, <4>2 DEF TableOf
    <3> QED BY <3>1, <3>2
  <2> QED BY <1>1, <2>1 DEF Reads
<1>5. Pages \in Nat /\ Rest \in 0..(Byte - 1) /\ CountAt = Rest + Byte * Pages /\ CountAt \in Nat
  BY <1>4, CountFacts
<1>6. Pages * Byte \in Nat /\ CountAt = Rest + Pages * Byte BY <1>3, <1>5, TimesFacts
<1>7. ASSUME NEW e \in Nat, Done(t, k, e)', table' = table, ptr0' = ptr0,
             \/ step' = "page" /\ x' \in Nat /\ x' <= Pages /\ e = x' * Byte
             \/ step' = "full" /\ x' \in Nat /\ x' < Pages /\ y' \in 0..(Byte - 1) /\ e = x' * Byte + y'
             \/ step' = "tail" /\ x' \in 1..Rest /\ y' = Rest - x' /\ e = Pages * Byte + y'
      PROVE  Stands(t, n, k, e)'
  <2>1. Pages' = Pages /\ Rest' = Rest BY <1>7, SameRecord
  <2>2. TableOf(t, n)' /\ RecordAt(t, k)' = RecordAt(t, k) BY <1>1, TablesStay, LoadedFrame
  <2>3. k \in 1..n BY <1>4 DEF Reads
  <2> QED BY <1>1, <1>7, <2>1, <2>2, <2>3 DEF Stands
<1>8. CASE BeginRecord
  <2>1. /\ step = "record" /\ x' = 0 /\ step' = "page" /\ table' = table /\ ptr0' = ptr0
        /\ ram' = ram
    BY <1>8 DEF BeginRecord, Continue
  <2>2. d = 0 BY <2>1 DEF Stands
  <2>3. Done(t, k, 0)' BY <1>1, <2>1, <2>2, Undisturbed
  <2>4. 0 = x' * Byte BY <1>3, <2>1
  <2>5. Stands(t, n, k, 0)' BY <1>5, <1>7, <2>1, <2>3, <2>4
  <2> QED BY <2>1, <2>5, Undisturbed DEF Moving, Stores
<1>9. CASE FullPage
  <2>1. /\ step = "page" /\ x < Pages /\ y' = 0 /\ x' = x /\ step' = "full" /\ table' = table
        /\ ptr0' = ptr0 /\ ram' = ram
    BY <1>9 DEF FullPage, Continue
  <2>2. d = x * Byte /\ x \in Nat BY <2>1 DEF Stands
  <2>3. d = x' * Byte + y' BY <1>1, <2>1, <2>2
  <2>4. Done(t, k, d)' BY <1>1, <2>1, Undisturbed
  <2>5. Stands(t, n, k, d)' BY <1>1, <1>3, <1>7, <2>1, <2>2, <2>3, <2>4
  <2> QED BY <2>1, <2>5, Undisturbed DEF Moving, Stores
<1>10. CASE LastPage
  <2>1. step = "page" /\ x >= Pages /\ table' = table /\ ram' = ram
    BY <1>10 DEF LastPage, NextRecord
  <2>2. d = x * Byte /\ x = Pages BY <1>5, <2>1 DEF Stands
  <2>3. Done(t, k, d)' BY <1>1, <2>1, Undisturbed
  <2>4. CASE Rest = 0
    <3>1. NextRecord BY <1>10, <2>4 DEF LastPage
    <3>2. d = CountAt BY <1>1, <1>6, <2>2, <2>4
    <3>3. Stands(t, n, k + 1, 0)' BY <1>1, <1>4, <2>3, <3>1, <3>2, AdvanceStands
    <3>4. step' = "record" BY <3>1 DEF NextRecord, Continue
    <3> QED BY <2>1, <3>3, <3>4, Undisturbed DEF Moving, Stores
  <2>5. CASE Rest # 0
    <3>1. x' = Rest /\ y' = 0 /\ step' = "tail" /\ ptr0' = ptr0
      BY <1>10, <2>5 DEF LastPage, Continue
    <3>2. x' \in 1..Rest /\ y' = Rest - x' /\ d = Pages * Byte + y'
      BY <1>1, <1>5, <1>6, <2>2, <2>5, <3>1
    <3>3. Stands(t, n, k, d)' BY <1>1, <1>7, <2>1, <2>3, <3>1, <3>2
    <3> QED BY <2>1, <3>1, <3>3, Undisturbed DEF Moving, Stores
  <2> QED BY <2>4, <2>5
<1>11. CASE StoreFull
  <2>1. /\ step = "full" /\ Store(x) /\ y' = Low(y + 1) /\ table' = table /\ ptr0' = ptr0
        /\ IF y' = 0 THEN x' = x + 1 /\ step' = "page" ELSE x' = x /\ step' = "full"
    BY <1>11 DEF StoreFull, Continue
  <2>2. x \in Nat /\ x < Pages /\ y \in 0..(Byte - 1) /\ d = x * Byte + y
    BY <2>1 DEF Stands
  <2>3. x * Byte \in Nat /\ (x + 1) * Byte = x * Byte + Byte /\ x * Byte + Byte <= Pages * Byte
    BY <1>3, <1>5, <2>2, TimesFacts
  <2>4. d < CountAt BY <1>3, <1>5, <1>6, <2>2, <2>3
  <2>5. Done(t, k, d + 1)' /\ Stores /\ \A u \in Tables : Filled(u) => Filled(u)'
    BY <1>1, <1>4, <2>1, <2>2, <2>4, StoreStep
  <2>6. PICK e \in Nat : e = d + 1 BY <1>1
  <2>7. Done(t, k, e)' BY <2>5, <2>6
  <2>8. CASE y = Byte - 1
    <3>1. y + 1 = Byte BY <1>3, <2>8
    <3>2. y' = 0 BY <1>3, <2>1, <3>1 DEF Low
    <3>3. /\ x' = x + 1 /\ step' = "page" /\ x' \in Nat /\ x' <= Pages BY <1>5, <2>1, <2>2, <3>2
    <3>4. e = x' * Byte
      <4>1. x' * Byte = x * Byte + Byte BY <2>3, <3>3
      <4> QED BY <1>3, <2>2, <2>3, <2>6, <3>1, <4>1
    <3>5. Stands(t, n, k, e)' BY <1>7, <2>1, <2>7, <3>3, <3>4
    <3> QED BY <2>1, <2>5, <3>3, <3>5 DEF Moving
  <2>9. CASE y # Byte - 1
    <3>1. y + 1 \in 1..(Byte - 1) BY <1>3, <2>2, <2>9
    <3>2. y' = y + 1 BY <1>3, <2>1, <3>1 DEF Low
    <3>3. x' = x /\ step' = "full" /\ y' \in 0..(Byte - 1) BY <1>3, <2>1, <2>2, <3>1, <3>2
    <3>4. e = x' * Byte + y' BY <2>2, <2>3, <2>6, <3>2, <3>3
    <3>5. Stands(t, n, k, e)' BY <1>7, <2>1, <2>2, <2>7, <3>3, <3>4
    <3> QED BY <2>1, <2>5, <3>3, <3>5 DEF Moving
  <2> QED BY <2>8, <2>9
<1>12. CASE StoreTail
  <2>1. /\ step = "tail" /\ Store(Pages) /\ table' = table
        /\ IF x = 1 THEN NextRecord
           ELSE x' = Low(x - 1) /\ y' = Low(y + 1) /\ step' = "tail" /\ ptr0' = ptr0
    BY <1>12 DEF StoreTail, NextRecord, Continue
  <2>2. x \in 1..Rest /\ y = Rest - x /\ d = Pages * Byte + y BY <2>1 DEF Stands
  <2>3. d < CountAt BY <1>3, <1>5, <1>6, <2>2
  <2>4. Done(t, k, d + 1)' /\ Stores /\ \A u \in Tables : Filled(u) => Filled(u)'
    BY <1>1, <1>4, <2>1, <2>2, <2>3, StoreStep
  <2>5. PICK e \in Nat : e = d + 1 BY <1>1
  <2>6. Done(t, k, e)' BY <2>4, <2>5
  <2>7. CASE x = 1
    <3>1. NextRecord BY <2>1, <2>7
    <3>2. e = CountAt BY <1>5, <1>6, <2>2, <2>5, <2>7
    <3>3. Stands(t, n, k + 1, 0)' BY <1>4, <2>6, <3>1, <3>2, AdvanceStands
    <3>4. step' = "record" BY <3>1 DEF NextRecord, Continue
    <3> QED BY <2>1, <2>4, <3>3, <3>4 DEF Moving
  <2>8. CASE x # 1
    <3>1. x - 1 \in 1..(Byte - 1) /\ y + 1 \in 1..(Byte - 1) BY <1>3, <1>5, <2>2, <2>8
    <3>2. x' = x - 1 /\ y' = y + 1 /\ step' = "tail" /\ ptr0' = ptr0
      BY <1>3, <2>1, <2>8, <3>1 DEF Low
    <3>3. x' \in 1..Rest /\ y' = Rest - x' /\ e = Pages * Byte + y'
      BY <1>3, <1>5, <1>6, <2>2, <2>5, <2>8, <3>2
    <3>4. Stands(t, n, k, e)' BY <1>7, <2>1, <2>6, <3>2, <3>3
    <3> QED BY <2>1, <2>4, <3>2, <3>4 DEF Moving
  <2> QED BY <2>7, <2>8
<1> QED BY <1>8, <1>9, <1>10, <1>11, <1>12 DEF RecordStep

-----------------------------------------------------------------------------
(* What startup has filled. *)

\* The table that is walked is filled as far as the walk has come; the other is
\* filled once the walk, or the blanket clear, has left it behind.
WalkInv ==
    /\ table \in Tables
    /\ step \in Walking /\ startup # "full" => table = "copy"
    /\ step = "clear" => startup # "full"
    /\ step \in Moving => \E n, k, d : Stands(table, n, k, d)
    /\ step \in Moving /\ startup # "full" => Filled("zero")
    /\ step \in Moving /\ table = "zero" => Filled("copy")
    /\ step \in {"init", "called", "main"} => Filled("copy") /\ Filled("zero")

\* Startup begins with the first record of the table of copies.
LEMMA EnterWalk ==
    ASSUME EnterStartup, Booted', startup' # "full" => step' = "clear"
    PROVE  WalkInv'
<1>1. /\ step' = IF startup' = "full" THEN "record" ELSE "clear"
      /\ table' = "copy" /\ ptr0' = tables'.copy
  BY DEF EnterStartup
<1>2. CASE startup' # "full"
  BY <1>1, <1>2 DEF WalkInv, Tables, Walking, Moving
<1>3. CASE startup' = "full"
  <2>1. PICK n \in Nat : TableOf("copy", n)' BY DEF Booted
  <2>2. tables'.copy \in Nat BY DEF Booted
  <2>3. RecordAt("copy", 1)' = tables'.copy BY <2>2 DEF RecordAt
  <2>4. Done("copy", 1, 0)'
    <3>1. \A j \in 1..1 : \A i : ~(j < 1 \/ (i \in Nat /\ i < 0)) OBVIOUS
    <3>2. \A o, i : i \in Offsets(o)' => i \in Nat BY DEF Offsets
    <3> QED BY <3>1, <3>2 DEF Done
  <2>5. Stands("copy", n, 1, 0)' BY <1>1, <1>3, <2>1, <2>3, <2>4 DEF Stands, Tables
  <2>6. \E m, k, d : Stands(table, m, k, d)'
    <3>1. PICK t : t = table' /\ t = "copy" BY <1>1
    <3>2. Stands(t, n, 1, 0)' BY <2>5, <3>1
    <3> QED BY <1>1, <2>5, <3>1, <3>2
  <2> QED BY <1>1, <1>3, <2>6 DEF WalkInv, Tables, Walking, Moving
<1> QED BY <1>2, <1>3

\* Without the full startup the blanket clear reaches whatever is to be zero,
\* and the simple one has nothing to copy.
LEMMA ClearFills ==
    ASSUME LinkInv, LaidOut, Booted, Loaded, ClearRam, startup # "full"
    PROVE  Filled("zero")' /\ (startup = "simple" => Filled("copy")')
<1>1. program \in Program BY DEF LinkInv
<1>2. startup = StartupKind BY DEF Booted
<1>3. DataSafe /\ (startup = "simple" => SimpleSafe)
  BY <1>2 DEF StartupKind, SimpleSafe
<1>4. /\ Of("zero")' = Of("zero") /\ Of("copy")' = Of("copy") /\ Objects' = Objects
      /\ \A o : Offsets(o)' = Offsets(o) /\ AddressOf(o)' = AddressOf(o)
  BY LoadedFrame DEF Offsets
<1>5. ASSUME NEW o \in Of("zero"), NEW i \in Offsets(o) PROVE Held("zero", o, i)'
  <2>1. o \in Objects /\ Blank(o) BY DEF Of
  <2>2. program.riot BY <1>3, <2>1 DEF DataSafe, Blank
  <2>3. tables.clear = Region.start..(Region.end - 1) /\ DOMAIN ram = Region.start..(Region.end - 1)
    BY <2>2 DEF Booted
  <2>4. /\ AddressOf(o) \in Nat /\ Region.start <= AddressOf(o)
        /\ AddressOf(o) + SizeOf(program, o) <= Region.end
        /\ Region.start \in Nat /\ Region.end \in Nat /\ SizeOf(program, o) \in Nat
    BY <1>1, <2>1, SizeFacts DEF LaidOut
  <2>5. AddressOf(o) + i \in Region.start..(Region.end - 1) BY <2>4 DEF Offsets
  <2>6. ram'[AddressOf(o) + i] = Zero BY <2>3, <2>5 DEF ClearRam
  <2> QED BY <1>4, <2>6 DEF Held, Wants
<1>6. Filled("zero")' BY <1>4, <1>5 DEF Filled
<1>7. ASSUME startup = "simple" PROVE Filled("copy")'
  <2>1. Of("copy") = {} BY <1>3, <1>7 DEF Of, SimpleSafe
  <2> QED BY <1>4, <2>1 DEF Filled
<1> QED BY <1>6, <1>7

LEMMA WalkKeeps ==
    ASSUME LinkInv, LaidOut, Booted, Loaded, WalkInv, StartupNext
    PROVE  WalkInv'
<1>0. startup' = startup /\ table \in Tables /\ tables' = tables BY LoadedFrame DEF WalkInv
<1>1. CASE ClearRam
  <2>1. /\ step = "clear" /\ startup # "full" /\ table' = table
        /\ IF startup = "simple" THEN step' = "main"
           ELSE step' = "record" /\ ptr0' = tables.copy
    BY <1>1 DEF ClearRam, Continue, WalkInv
  <2>2. table = "copy" BY <2>1 DEF WalkInv, Walking
  <2>3. Filled("zero")' /\ (startup = "simple" => Filled("copy")') BY <1>1, <2>1, ClearFills
  <2>4. CASE startup = "simple"
    BY <1>0, <2>1, <2>2, <2>3, <2>4 DEF WalkInv, Walking, Moving
  <2>5. CASE startup # "simple"
    <3>1. PICK n \in Nat : TableOf("copy", n) BY DEF Booted
    <3>2. TableOf("copy", n)' BY <3>1, TablesStay
    <3>3. RecordAt("copy", 1)' = tables.copy
      <4>1. tables.copy \in Nat BY DEF Booted
      <4>2. RecordAt("copy", 1) = tables.copy BY <4>1 DEF RecordAt
      <4> QED BY <4>2, LoadedFrame
    <3>4. Done("copy", 1, 0)'
      <4>1. \A j \in 1..1 : \A i : ~(j < 1 \/ (i \in Nat /\ i < 0)) OBVIOUS
      <4>2. \A o, i : i \in Offsets(o)' => i \in Nat BY DEF Offsets
      <4> QED BY <4>1, <4>2 DEF Done
    <3>5. Stands("copy", n, 1, 0)' BY <2>1, <2>2, <2>5, <3>2, <3>3, <3>4 DEF Stands, Tables
    <3>6. (\E m, k, d : Stands(table, m, k, d))'
      <4>1. PICK t : t = table' /\ t = "copy" BY <2>1, <2>2
      <4>2. Stands(t, n, 1, 0)' BY <3>5, <4>1
      <4> QED BY <4>1, <4>2
    <3> QED BY <1>0, <2>1, <2>2, <2>3, <2>5, <3>6 DEF WalkInv, Walking, Moving, Tables
  <2> QED BY <2>4, <2>5
<1>2. CASE RecordStep
  <2>1. step \in Moving
    BY <1>2 DEF RecordStep, BeginRecord, FullPage, LastPage, StoreFull, StoreTail, Moving
  <2>2. PICK t, n, k, d : t \in Tables /\ t = table /\ Stands(t, n, k, d) BY <1>0, <2>1 DEF WalkInv
  <2>3. /\ \E l, e : Stands(t, n, l, e)'
        /\ \A u \in Tables : Filled(u) => Filled(u)'
        /\ table' = table /\ step' \in Moving
    BY <1>2, <2>2, WalkStep
  <2>4. (\E m, k2, e : Stands(table, m, k2, e))' BY <2>2, <2>3
  <2>5. (startup # "full" => table = "copy" /\ Filled("zero")) /\ (table = "zero" => Filled("copy"))
    BY <2>1 DEF WalkInv, Walking, Moving
  <2> QED BY <1>0, <2>3, <2>4, <2>5 DEF WalkInv, Walking, Moving, Tables
<1>3. CASE EndTable
  <2>1. /\ step = "record" /\ CountAt = 0 /\ ram' = ram
        /\ IF table = "copy" /\ startup = "full"
           THEN table' = "zero" /\ ptr0' = tables.zero /\ step' = "record"
           ELSE step' = "init" /\ table' = table
    BY <1>3 DEF EndTable, Continue
  <2>2. PICK t, n, k, d : t = table /\ Stands(t, n, k, d) BY <2>1 DEF WalkInv, Moving
  <2>3. k = n + 1
    <3> SUFFICES ASSUME k # n + 1 PROVE FALSE OBVIOUS
    <3>1. Reads(t, n, k) BY <2>2 DEF Stands, Reads
    <3> QED BY <2>1, <3>1, CountFacts
  <2>4. Filled(t)
    <3>1. n \in Nat /\ TableOf(t, n) /\ Done(t, n + 1, 0) BY <2>1, <2>2, <2>3 DEF Stands
    <3> QED BY <3>1, TableDone
  <2>5. \A u : Filled(u)' <=> Filled(u) BY <2>1, Undisturbed
  <2>6. /\ startup # "full" => table = "copy" /\ Filled("zero")
        /\ table = "zero" => Filled("copy")
    BY <2>1 DEF WalkInv, Walking, Moving
  <2>7. CASE table = "copy" /\ startup = "full"
    <3>1. PICK m \in Nat : TableOf("zero", m) BY DEF Booted
    <3>2. TableOf("zero", m)' BY <3>1, TablesStay
    <3>3. RecordAt("zero", 1)' = tables.zero
      <4>1. tables.zero \in Nat BY DEF Booted
      <4>2. RecordAt("zero", 1) = tables.zero BY <4>1 DEF RecordAt
      <4> QED BY <4>2, LoadedFrame
    <3>4. Done("zero", 1, 0)'
      <4>1. \A j \in 1..1 : \A i : ~(j < 1 \/ (i \in Nat /\ i < 0)) OBVIOUS
      <4>2. \A o, i : i \in Offsets(o)' => i \in Nat BY DEF Offsets
      <4> QED BY <4>1, <4>2 DEF Done
    <3>5. Stands("zero", m, 1, 0)' BY <2>1, <2>7, <3>2, <3>3, <3>4 DEF Stands, Tables
    <3>6. (\E n2, k2, e : Stands(table, n2, k2, e))'
      <4>1. PICK u : u = table' /\ u = "zero" BY <2>1, <2>7
      <4>2. Stands(u, m, 1, 0)' BY <3>5, <4>1
      <4> QED BY <4>1, <4>2
    <3>7. Filled("copy")' BY <2>2, <2>4, <2>5, <2>7
    <3> QED BY <1>0, <2>1, <2>7, <3>6, <3>7 DEF WalkInv, Walking, Moving, Tables
  <2>8. CASE ~(table = "copy" /\ startup = "full")
    <3>1. table = "copy" \/ table = "zero" BY <1>0 DEF Tables
    <3>2. Filled("copy") /\ Filled("zero") BY <2>2, <2>4, <2>6, <2>8, <3>1
    <3> QED BY <1>0, <2>1, <2>5, <2>8, <3>2 DEF WalkInv, Walking, Moving
  <2> QED BY <2>7, <2>8
<1>4. CASE CallInitializer \/ ReturnInitializer \/ EnterMain
  <2>1. /\ step \in {"init", "called"} /\ step' \in {"init", "called", "main"}
        /\ ram' = ram /\ table' = table
    BY <1>4 DEF CallInitializer, ReturnInitializer, EnterMain, Continue
  <2>2. Filled("copy") /\ Filled("zero") BY <2>1 DEF WalkInv
  <2>3. Filled("copy")' /\ Filled("zero")' BY <2>1, <2>2, Undisturbed
  <2> QED BY <1>0, <2>1, <2>3 DEF WalkInv, Walking, Moving
<1> QED BY <1>1, <1>2, <1>3, <1>4 DEF StartupNext, RecordStep

LEMMA WalkInvHolds == Spec => [](Ordinary(Region) => WalkInv)
<1>1. Init => WalkInv BY DEF Init, WalkInv, Walking, Moving, Tables
<1>2. ASSUME LinkInv, ProbeInv, BootInv, BootInv', Ordinary(Region) => WalkInv, [Next]_vars
      PROVE  (Ordinary(Region) => WalkInv)'
  <2> SUFFICES ASSUME Ordinary(Region)' PROVE WalkInv' OBVIOUS
  <2>1. CASE LinkStep
    <3>1. ProbeNext /\ stage = "link" BY <2>1 DEF LinkStep, Link
    <3>2. Ordinary(Region) BY <3>1, <1>2, ProbeNextKeeps, PlacedStay DEF Region
    <3>3. step' = step /\ table' = table BY <2>1 DEF LinkStep, startupVars
    <3>4. step = "off" /\ table \in Tables BY <1>2, <3>1, <3>2 DEF BootInv, WalkInv
    <3> QED BY <3>3, <3>4 DEF WalkInv, Walking, Moving
  <2>2. CASE Boot
    <3>1. EnterStartup /\ stage' = "booted" BY <2>2 DEF Boot
    <3>2. Booted' BY <1>2, <3>1 DEF BootInv
    <3>3. startup' # "full" => step' = "clear" BY <3>1 DEF EnterStartup
    <3> QED BY <3>1, <3>2, <3>3, EnterWalk
  <2>3. CASE StartupStep /\ Loaded
    <3>1. Ordinary(Region) BY <2>3, LoadedFrame
    <3>2. step # "off" BY <2>3, StartupFrame DEF StartupStep, Steps
    <3>3. LaidOut /\ Booted BY <1>2, <3>1, <3>2 DEF BootInv
    <3> QED BY <1>2, <2>3, <3>1, <3>3, WalkKeeps DEF StartupStep
  <2>4. CASE NextPhase /\ Loaded
    <3>1. step' = "frame" /\ table' = table BY <2>4 DEF NextPhase
    <3>2. table \in Tables BY <1>2, <2>4, LoadedFrame DEF WalkInv
    <3> QED BY <3>1, <3>2 DEF WalkInv, Walking, Moving
  <2>5. CASE Restart /\ Loaded
    <3>1. EnterStartup /\ step = "frame" BY <2>5 DEF Restart
    <3>2. stage' = "booted" BY <1>2, <2>5, <3>1, LoadedFrame DEF BootInv
    <3>3. Booted' BY <1>2, <3>2 DEF BootInv
    <3>4. startup' # "full" => step' = "clear" BY <3>1 DEF EnterStartup
    <3> QED BY <3>1, <3>3, <3>4, EnterWalk
  <2>6. CASE (\E o \in Objects : Write(o)) /\ Loaded
    <3>1. step' = "frame" /\ table' = table BY <2>6 DEF Write
    <3>2. table \in Tables BY <1>2, <2>6, LoadedFrame DEF WalkInv
    <3> QED BY <3>1, <3>2 DEF WalkInv, Walking, Moving
  <2>7. CASE UNCHANGED vars
    <3>1. /\ Loaded /\ step' = step /\ table' = table /\ ptr0' = ptr0 /\ ram' = ram
          /\ x' = x /\ y' = y
      BY <2>7 DEF vars, startupVars, Loaded
    <3>2. WalkInv BY <1>2, <3>1, LoadedFrame
    <3>3. /\ startup' = startup /\ \A u : Filled(u)' <=> Filled(u)
      BY <3>1, LoadedFrame, Undisturbed
    <3>4. step \in Moving => (\E n, k, d : Stands(table, n, k, d))'
      <4> SUFFICES ASSUME step \in Moving PROVE (\E n, k, d : Stands(table, n, k, d))' OBVIOUS
      <4>1. PICK t, n, k, d : t = table /\ Stands(t, n, k, d) BY <3>2 DEF WalkInv
      <4>2. /\ TableOf(t, n)' <=> TableOf(t, n)
            /\ Done(t, k, d)' <=> Done(t, k, d)
            /\ RecordAt(t, k)' = RecordAt(t, k) /\ Pages' = Pages /\ Rest' = Rest
        BY <3>1, TablesStay, LoadedFrame, Undisturbed, SameRecord
      <4>3. TableOf(t, n)' /\ Done(t, k, d)' BY <4>1, <4>2 DEF Stands
      <4>4. Stands(t, n, k, d)' BY <3>1, <4>1, <4>2, <4>3 DEF Stands
      <4> QED BY <3>1, <4>1, <4>4
    <3> QED BY <3>1, <3>2, <3>3, <3>4 DEF WalkInv
  <2> QED BY <1>2, <2>1, <2>2, <2>3, <2>4, <2>5, <2>6, <2>7, LoadedSteps
<1> QED BY <1>1, <1>2, LinkInvHolds, ProbeInvHolds, BootInvHolds, PTL DEF Spec

\* When an initializer or main is entered, after power-on and after every
\* restart, data objects hold their images and what is to be zero is zero.
THEOREM InitializedAtMainHolds == Spec => [](Ordinary(Region) => InitializedAtMain)
<1>1. ASSUME LinkInv, BootInv, Ordinary(Region), WalkInv PROVE InitializedAtMain
  <2> SUFFICES ASSUME step \in {"init", "called", "main"}, NEW o \in Objects,
                      NEW i \in 1..Largest({SizeOf(program, q) : q \in Objects}),
                      i <= SizeOf(program, o)
      PROVE  /\ Obj(o).kind = "data" => ram[AddressOf(o) + i - 1] = Obj(o).image[i]
             /\ NeedsZero(Obj(o)) /\ ~Obj(o).noinit => ram[AddressOf(o) + i - 1] = Zero
    BY <1>1 DEF InitializedAtMain
  <2>1. SizeOf(program, o) \in Nat
    <3>1. program \in Program BY <1>1 DEF LinkInv
    <3> QED BY <3>1, SizeFacts
  <2>2. PICK j \in Offsets(o) : i = j + 1
    <3>1. i - 1 \in Offsets(o) /\ i = (i - 1) + 1 BY <2>1 DEF Offsets
    <3> QED BY <3>1
  <2>3. Filled("copy") /\ Filled("zero") BY <1>1 DEF WalkInv
  <2>4. AddressOf(o) + i - 1 = AddressOf(o) + j
    <3>1. AddressOf(o) \in Nat BY <1>1 DEF BootInv, LaidOut
    <3>2. j \in Nat BY DEF Offsets
    <3> QED BY <2>2, <3>1, <3>2
  <2> QED BY <2>2, <2>3, <2>4 DEF Filled, Held, Wants, Of, Blank
<1>2. LinkInv /\ BootInv /\ (Ordinary(Region) => WalkInv) => (Ordinary(Region) => InitializedAtMain)
  BY <1>1
<1> QED BY <1>2, LinkInvHolds, BootInvHolds, WalkInvHolds, PTL

-----------------------------------------------------------------------------
(* What is live. *)

Shares(o) == \E g \in shared : o \in g

\* During startup, and until main writes, only noinit objects are live; during
\* a frame an object that shares its bytes is live only in a phase of its own.
LiveInv ==
    /\ live \subseteq Objects /\ phase \in Phase
    /\ step = "off" => live = {}
    /\ step # "frame" => \A o \in live : Obj(o).noinit
    /\ step = "frame" => \A o \in live : Shares(o) => phase \in Mask(Obj(o))
    /\ \A o \in live : \A a \in OwnBytes(o) : ram[a] = Mark(o)

\* An object that shares is a workspace: it is used in phases only, all of them
\* in its mask, and it is not noinit.
LEMMA SharesFacts ==
    ASSUME LinkInv, NEW o \in Objects, Shares(o)
    PROVE  /\ ~Obj(o).noinit /\ ~Anywhere(o) /\ Disposable(o)
           /\ Uses(o) \subseteq Phase /\ Uses(o) # {} /\ Uses(o) \subseteq Mask(Obj(o))
           /\ Mask(Obj(o)) = Closure(Uses(o))
<1>1. program \in Program /\ shared = Shared(program) BY DEF LinkInv
<1>2. PICK g \in shared : o \in g BY DEF Shares
<1>3. Overlayable(program, o) /\ o \in DOMAIN program.object
  BY <1>1, <1>2, SharedFacts DEF Overlaid
<1>4. ~Obj(o).noinit /\ Obj(o).eligible /\ Mask(Obj(o)) # {} BY <1>3 DEF Overlayable, Obj
<1>5. ~Anywhere(o) /\ Mask(Obj(o)) = Closure(Uses(o))
  BY <1>4 DEF Mask, Unscoped, Anywhere, Uses
<1>6. Uses(o) # {} BY <1>4, <1>5 DEF Closure
<1>7. Uses(o) \subseteq Phase
  <2>1. ObjectType(Obj(o)) BY <1>1, <1>3, ObjectFacts DEF Obj
  <2>2. Obj(o).uses \in Seq(SUBSET Phase) BY <2>1 DEF ObjectType
  <2>3. \A i \in DOMAIN Obj(o).uses : Obj(o).uses[i] \in SUBSET Phase BY <2>2
  <2> QED BY <2>3 DEF Uses, UsesOf
<1>8. \A p \in Uses(o) : p \in Closure(Uses(o)) BY <1>7 DEF Closure, Phase
<1> QED BY <1>4, <1>5, <1>6, <1>7, <1>8 DEF Disposable

\* Two objects that do not share a slot, or are used in the same phase, have no
\* byte in common.
LEMMA BytesApart ==
    ASSUME LinkInv, LaidOut, NEW o \in Objects, NEW q \in Objects, o # q,
           ~Shares(o) \/ ~Shares(q) \/ Mask(Obj(o)) \cap Mask(Obj(q)) # {}
    PROVE  OwnBytes(o) \cap OwnBytes(q) = {}
<1>1. program \in Program /\ shared = Shared(program) BY DEF LinkInv
<1>2. ASSUME NEW g \in shared, o \in g, q \in g PROVE FALSE
  <2>1. Shares(o) /\ Shares(q) BY <1>2 DEF Shares
  <2>2. Compatible(program, g) BY <1>1, SharedFacts
  <2>3. Mask(program.object[o]) \cap Mask(program.object[q]) = {} BY <1>2, <2>2 DEF Compatible
  <2> QED BY <2>1, <2>3 DEF Obj
<1>3. /\ AddressOf(o) \in Nat /\ SizeOf(program, o) \in Nat
      /\ AddressOf(q) \in Nat /\ SizeOf(program, q) \in Nat
  BY <1>1, SizeFacts DEF LaidOut
<1>4. \/ AddressOf(o) + SizeOf(program, o) <= AddressOf(q)
      \/ AddressOf(q) + SizeOf(program, q) <= AddressOf(o)
  BY <1>2 DEF LaidOut
<1> QED BY <1>3, <1>4 DEF OwnBytes

LEMMA LiveFrame ==
    ASSUME Loaded
    PROVE  \A o : /\ OwnBytes(o)' = OwnBytes(o) /\ Mark(o)' = Mark(o)
                  /\ Shares(o)' <=> Shares(o)
BY LoadedFrame DEF OwnBytes, Mark, Shares

\* What startup stores is not noinit.
LEMMA StoresKeepNoinit ==
    ASSUME LinkInv, LaidOut, Booted, Loaded, Stores, NEW o \in Objects, Obj(o).noinit,
           NEW a \in OwnBytes(o)
    PROVE  ram'[a] = ram[a]
<1>1. CASE ram' = ram BY <1>1
<1>2. CASE \E u \in Tables : \E q \in Of(u) : \E i \in Offsets(q) : Puts(u, q, i)
  <2>1. PICK u \in Tables : \E q \in Of(u) : \E i \in Offsets(q) : Puts(u, q, i) BY <1>2
  <2>1a. PICK q \in Of(u) : \E i \in Offsets(q) : Puts(u, q, i) BY <2>1
  <2>2. PICK i \in Offsets(q) : Puts(u, q, i) BY <2>1a
  <2>3. q \in Objects BY DEF Of
  <2>4. program \in Program BY DEF LinkInv
  <2>5. ~Obj(q).noinit
    <3>1. CASE Obj(q).kind = "data"
      <4>1. ObjectType(Obj(q)) BY <2>3, <2>4, ObjectFacts DEF Obj, Objects
      <4> QED BY <3>1, <4>1 DEF ObjectType
    <3>2. CASE Obj(q).kind # "data" BY <3>2 DEF Of, Blank
    <3> QED BY <3>1, <3>2
  <2>6. o # q BY <2>5
  <2>7. ~Shares(o) BY SharesFacts
  <2>8. OwnBytes(o) \cap OwnBytes(q) = {} BY <2>3, <2>6, <2>7, BytesApart
  <2>9. AddressOf(q) + i \in OwnBytes(q)
    <3>1. AddressOf(q) \in Nat /\ SizeOf(program, q) \in Nat BY <2>3, <2>4, SizeFacts DEF LaidOut
    <3> QED BY <3>1 DEF OwnBytes, Offsets
  <2>10. a # AddressOf(q) + i BY <2>8, <2>9
  <2>11. a \in DOMAIN ram
    <3>1. /\ AddressOf(o) \in Nat /\ Region.start <= AddressOf(o)
          /\ AddressOf(o) + SizeOf(program, o) <= Region.end
          /\ Region.start \in Nat /\ Region.end \in Nat /\ SizeOf(program, o) \in Nat
      BY <2>4, SizeFacts DEF LaidOut
    <3>2. DOMAIN ram = Region.start..(Region.end - 1) BY DEF Booted
    <3> QED BY <3>1, <3>2 DEF OwnBytes
  <2> QED BY <2>2, <2>10, <2>11 DEF Puts
<1> QED BY <1>1, <1>2 DEF Stores

LEMMA StartupStores ==
    ASSUME LinkInv, LaidOut, Booted, Loaded, WalkInv, StartupNext
    PROVE  Stores \/ ClearRam
<1>1. CASE RecordStep
  <2>1. step \in Moving
    BY <1>1 DEF RecordStep, BeginRecord, FullPage, LastPage, StoreFull, StoreTail, Moving
  <2>2. PICK t, n, k, d : t = table /\ Stands(t, n, k, d) BY <2>1 DEF WalkInv
  <2> QED BY <1>1, <2>2, WalkStep
<1>2. CASE EndTable BY <1>2 DEF EndTable, Stores
<1>3. CASE CallInitializer \/ ReturnInitializer \/ EnterMain
  BY <1>3 DEF CallInitializer, ReturnInitializer, EnterMain, Stores
<1>4. CASE ClearRam BY <1>4
<1> QED BY <1>1, <1>2, <1>3, <1>4 DEF StartupNext, RecordStep

\* Startup keeps what is live.
LEMMA StartupKeepsLive ==
    ASSUME LinkInv, LaidOut, Booted, Loaded, WalkInv, LiveInv, StartupNext,
           UNCHANGED frameVars, step' \in StepNames \ {"frame", "off"}
    PROVE  LiveInv'
<1>1. live' = live /\ phase' = phase BY DEF frameVars
<1>2. step # "frame" BY StartupFrame DEF Steps
<1>3. live \subseteq Objects /\ \A o \in live : Obj(o).noinit BY <1>2 DEF LiveInv
<1>4. ASSUME NEW o \in live, NEW a \in OwnBytes(o) PROVE ram'[a] = ram[a]
  <2>1. CASE Stores BY <1>3, <2>1, StoresKeepNoinit
  <2>2. CASE ClearRam
    <3>1. startup # "full" BY <2>2 DEF ClearRam, WalkInv
    <3>2. DataSafe BY <3>1 DEF Booted, StartupKind, SimpleSafe
    <3> QED BY <1>3, <3>2 DEF DataSafe
  <2> QED BY <2>1, <2>2, StartupStores
<1>5. \A o : /\ OwnBytes(o)' = OwnBytes(o) /\ Mark(o)' = Mark(o) /\ Obj(o)' = Obj(o)
  BY LiveFrame, LoadedFrame
<1>6. \A o \in live' : \A a \in OwnBytes(o)' : ram'[a] = Mark(o)' BY <1>1, <1>4, <1>5 DEF LiveInv
<1>7. Objects' = Objects BY LoadedFrame
<1>8. step' # "frame" /\ step' # "off" OBVIOUS
<1> QED BY <1>1, <1>3, <1>5, <1>6, <1>7, <1>8 DEF LiveInv

\* A write of an object in a phase of its own spares what is live.
LEMMA WriteKeepsLive ==
    ASSUME LinkInv, LaidOut, Booted, Loaded, LiveInv, NEW o \in Objects, Write(o)
    PROVE  LiveInv'
<1>1. /\ step \in {"main", "frame"} /\ (phase \in Uses(o) \/ Anywhere(o))
      /\ ram' = [a \in DOMAIN ram |-> IF a \in OwnBytes(o) THEN Mark(o) ELSE ram[a]]
      /\ live' = live \cup {o} /\ step' = "frame" /\ phase' = phase
  BY DEF Write
<1>2. /\ live \subseteq Objects /\ phase \in Phase
      /\ step # "frame" => \A q \in live : Obj(q).noinit
      /\ step = "frame" => \A q \in live : Shares(q) => phase \in Mask(Obj(q))
      /\ \A q \in live : \A a \in OwnBytes(q) : ram[a] = Mark(q)
  BY DEF LiveInv
<1>3. Shares(o) => phase \in Mask(Obj(o)) BY <1>1, SharesFacts
<1>4. ASSUME NEW q \in live PROVE Shares(q) => phase \in Mask(Obj(q))
  <2>1. CASE step = "frame" BY <1>2, <2>1
  <2>2. CASE step # "frame" BY <1>2, <2>2, SharesFacts
  <2> QED BY <2>1, <2>2
<1>5. ASSUME NEW q \in Objects, NEW a \in OwnBytes(q) PROVE a \in DOMAIN ram
  <2>1. program \in Program BY DEF LinkInv
  <2>2. /\ AddressOf(q) \in Nat /\ Region.start <= AddressOf(q)
        /\ AddressOf(q) + SizeOf(program, q) <= Region.end
        /\ Region.start \in Nat /\ Region.end \in Nat /\ SizeOf(program, q) \in Nat
    BY <2>1, SizeFacts DEF LaidOut
  <2>3. DOMAIN ram = Region.start..(Region.end - 1) BY DEF Booted
  <2> QED BY <2>2, <2>3 DEF OwnBytes
<1>6. ASSUME NEW q \in live', NEW a \in OwnBytes(q) PROVE ram'[a] = Mark(q)
  <2>1. q \in Objects BY <1>1, <1>2
  <2>2. a \in DOMAIN ram BY <1>5, <2>1
  <2>3. CASE q = o BY <1>1, <1>6, <2>2, <2>3
  <2>4. CASE q # o
    <3>1. q \in live BY <1>1, <1>6, <2>4
    <3>2. ~Shares(o) \/ ~Shares(q) \/ Mask(Obj(o)) \cap Mask(Obj(q)) # {}
      BY <1>3, <1>4, <3>1
    <3>3. OwnBytes(o) \cap OwnBytes(q) = {} BY <2>1, <2>4, <3>2, BytesApart
    <3>4. a \notin OwnBytes(o) BY <1>6, <3>3
    <3> QED BY <1>1, <1>2, <1>6, <2>2, <3>1, <3>4
  <2> QED BY <2>3, <2>4
<1>7. \A q : /\ OwnBytes(q)' = OwnBytes(q) /\ Mark(q)' = Mark(q) /\ Obj(q)' = Obj(q)
             /\ Shares(q)' <=> Shares(q)
  BY LiveFrame, LoadedFrame
<1>8. \A q \in live' : Shares(q)' => phase' \in Mask(Obj(q)')
  BY <1>1, <1>3, <1>4, <1>7
<1>9. \A q \in live' : \A a \in OwnBytes(q)' : ram'[a] = Mark(q)' BY <1>6, <1>7
<1>10. live' \subseteq Objects' BY <1>1, <1>2, LoadedFrame
<1> QED BY <1>1, <1>2, <1>7, <1>8, <1>9, <1>10 DEF LiveInv, Mask, Unscoped, Closure, UsesOf

\* A workspace that shares stays live only up to its last use.
LEMMA PhaseKeepsLive ==
    ASSUME LinkInv, Loaded, LiveInv, NextPhase
    PROVE  LiveInv'
<1>1. /\ step \in {"main", "frame"} /\ step' = "frame" /\ phase' = (phase + 1) % 4
      /\ live' = {o \in live : Disposable(o) => phase' > phase /\ phase' <= LastUse(o)}
      /\ ram' = ram
  BY DEF NextPhase
<1>2. /\ live \subseteq Objects /\ phase \in 0..3
      /\ step # "frame" => \A q \in live : Obj(q).noinit
      /\ step = "frame" => \A q \in live : Shares(q) => phase \in Mask(Obj(q))
      /\ \A q \in live : \A a \in OwnBytes(q) : ram[a] = Mark(q)
  BY DEF LiveInv, Phase
<1>3. phase' \in 0..3 BY <1>1, <1>2
<1>4. ASSUME NEW q \in live', Shares(q) PROVE phase' \in Mask(Obj(q))
  <2>1. q \in live /\ q \in Objects BY <1>1, <1>2
  <2>2. /\ ~Obj(q).noinit /\ Disposable(q)
        /\ Uses(q) \subseteq Phase /\ Uses(q) # {} /\ Mask(Obj(q)) = Closure(Uses(q))
    BY <1>4, <2>1, SharesFacts
  <2>3. phase' > phase /\ phase' <= LastUse(q) BY <1>1, <1>4, <2>2
  <2>4. phase \in Closure(Uses(q)) BY <1>2, <1>4, <2>1, <2>2
  <2>5. PICK b \in Uses(q) : b <= phase BY <2>4 DEF Closure
  <2>6. LastUse(q) \in Uses(q)
    <3>1. Uses(q) \subseteq 0..3 BY <2>2 DEF Phase
    <3> QED BY <2>2, <3>1, LargestExists DEF LastUse
  <2>7. b <= phase' /\ b \in 0..3 BY <1>2, <1>3, <2>2, <2>3, <2>5 DEF Phase
  <2>8. phase' \in Closure(Uses(q)) BY <1>3, <2>3, <2>6, <2>7 DEF Closure, Phase
  <2> QED BY <2>2, <2>8
<1>5. \A q : /\ OwnBytes(q)' = OwnBytes(q) /\ Mark(q)' = Mark(q) /\ Obj(q)' = Obj(q)
             /\ Shares(q)' <=> Shares(q)
  BY LiveFrame, LoadedFrame
<1>6. \A q \in live' : Shares(q)' => phase' \in Mask(Obj(q)') BY <1>4, <1>5
<1>7. \A q \in live' : \A a \in OwnBytes(q)' : ram'[a] = Mark(q)' BY <1>1, <1>2, <1>5
<1>8. live' \subseteq Objects' BY <1>1, <1>2, LoadedFrame
<1> QED BY <1>1, <1>3, <1>6, <1>7, <1>8 DEF LiveInv, Phase, Mask, Unscoped, Closure, UsesOf

LEMMA LiveInvKeeps ==
    ASSUME LinkInv, ProbeInv, BootInv, BootInv', WalkInv, LiveInv, [Next]_vars,
           Ordinary(Region), Ordinary(Region)'
    PROVE  LiveInv'
<1>1. CASE LinkStep
  <2>1. ProbeNext /\ stage = "link" BY <1>1 DEF LinkStep, Link
  <2>2. step' = step /\ live' = live /\ phase' = phase
    BY <1>1 DEF LinkStep, startupVars, frameVars
  <2>3. step = "off" BY <2>1 DEF BootInv
  <2>4. live' = {} /\ phase' \in Phase /\ step' = "off" BY <2>2, <2>3 DEF LiveInv
  <2> QED BY <2>4 DEF LiveInv
<1>2. CASE Boot
  <2>1. stage = "linked" /\ EnterStartup /\ live' = live /\ phase' = phase
    BY <1>2 DEF Boot, frameVars
  <2>2. step = "off" BY <2>1 DEF BootInv
  <2>3. live' = {} /\ phase' \in Phase BY <2>1, <2>2 DEF LiveInv
  <2> QED BY <2>3 DEF LiveInv
<1>3. CASE StartupStep /\ Loaded
  <2>1. StartupNext /\ UNCHANGED frameVars BY <1>3 DEF StartupStep
  <2>2. step # "off" BY <2>1, StartupFrame DEF Steps
  <2>3. LaidOut /\ Booted BY <2>2 DEF BootInv
  <2>4. step' \in StepNames \ {"frame", "off"}
    BY <2>1 DEF StartupNext, ClearRam, BeginRecord, EndTable, FullPage, LastPage, StoreFull,
                StoreTail, CallInitializer, ReturnInitializer, EnterMain, NextRecord, Continue,
                StepNames, Steps
  <2> QED BY <1>3, <2>1, <2>3, <2>4, StartupKeepsLive
<1>4. CASE NextPhase /\ Loaded BY <1>4, PhaseKeepsLive
<1>5. CASE Restart /\ Loaded
  <2>1. /\ phase' = 0 /\ live' = {o \in live : Obj(o).noinit} /\ ram' = ram
        /\ step' \in {"record", "clear"}
    BY <1>5 DEF Restart, EnterStartup
  <2>2. Objects' = Objects /\ \A o : Obj(o)' = Obj(o) BY <1>5, LoadedFrame
  <2>3. \A o : OwnBytes(o)' = OwnBytes(o) /\ Mark(o)' = Mark(o) BY <1>5, LiveFrame
  <2>4. \A o \in live' : \A a \in OwnBytes(o)' : ram'[a] = Mark(o)' BY <2>1, <2>3 DEF LiveInv
  <2>5. live' \subseteq Objects' BY <2>1, <2>2 DEF LiveInv
  <2>6. phase' \in Phase BY <2>1 DEF Phase
  <2> QED BY <2>1, <2>2, <2>4, <2>5, <2>6 DEF LiveInv
<1>6. CASE (\E o \in Objects : Write(o)) /\ Loaded
  <2>1. PICK o \in Objects : Write(o) BY <1>6
  <2>2. step # "off" BY <2>1 DEF Write
  <2>3. LaidOut /\ Booted BY <2>2 DEF BootInv
  <2> QED BY <1>6, <2>1, <2>3, WriteKeepsLive
<1>7. CASE UNCHANGED vars
  <2>1. Loaded /\ live' = live /\ phase' = phase /\ step' = step /\ ram' = ram
    BY <1>7 DEF vars, startupVars, frameVars, Loaded
  <2>2. Objects' = Objects /\ \A o : Obj(o)' = Obj(o) BY <2>1, LoadedFrame
  <2>3. \A o : /\ OwnBytes(o)' = OwnBytes(o) /\ Mark(o)' = Mark(o)
               /\ Shares(o)' <=> Shares(o)
    BY <2>1, LiveFrame
  <2>4. \A o \in live' : \A a \in OwnBytes(o)' : ram'[a] = Mark(o)' BY <2>1, <2>3 DEF LiveInv
  <2>5. step' = "frame" => \A o \in live' : Shares(o)' => phase' \in Mask(Obj(o)')
    BY <2>1, <2>2, <2>3 DEF LiveInv
  <2>6. live' \subseteq Objects' /\ phase' \in Phase BY <2>1, <2>2 DEF LiveInv
  <2>7. /\ step' = "off" => live' = {}
        /\ step' # "frame" => \A o \in live' : Obj(o)'.noinit
    BY <2>1, <2>2 DEF LiveInv
  <2> QED BY <2>4, <2>5, <2>6, <2>7 DEF LiveInv, Mask, Unscoped, Closure, UsesOf
<1> QED BY <1>1, <1>2, <1>3, <1>4, <1>5, <1>6, <1>7, LoadedSteps

LEMMA LiveInvHolds == Spec => [](Ordinary(Region) => LiveInv)
<1>1. Init => LiveInv BY DEF Init, LiveInv, Phase
<1>2. ASSUME LinkInv, ProbeInv, BootInv, BootInv', [Next]_vars,
             Ordinary(Region) => WalkInv, Ordinary(Region) => LiveInv
      PROVE  (Ordinary(Region) => LiveInv)'
  <2> SUFFICES ASSUME Ordinary(Region)' PROVE LiveInv' OBVIOUS
  <2>1. Region' = Region
    <3>1. CASE LinkStep
      <4>1. ProbeNext BY <3>1 DEF LinkStep, Link
      <4> QED BY <1>2, <4>1, ProbeNextKeeps, PlacedStay DEF Region
    <3>2. CASE Boot BY <3>2, BootFrame
    <3>3. CASE Loaded BY <3>3, LoadedFrame
    <3>4. CASE UNCHANGED vars BY <3>4 DEF vars, overlayVars, probeVars, Region
    <3> QED BY <1>2, <3>1, <3>2, <3>3, <3>4, LoadedSteps
  <2>2. Ordinary(Region) BY <2>1
  <2> QED BY <1>2, <2>2, LiveInvKeeps
<1> QED BY <1>1, <1>2, LinkInvHolds, ProbeInvHolds, BootInvHolds, WalkInvHolds, PTL DEF Spec

\* What an object was given in a phase is there until its last use in the frame;
\* an object that is no workspace keeps it for ever, and a noinit object also
\* through a restart.
THEOREM LiveIntactHolds == Spec => [](Ordinary(Region) => LiveIntact)
<1>1. (Ordinary(Region) => LiveInv) => (Ordinary(Region) => LiveIntact)
  BY DEF LiveInv, LiveIntact
<1> QED BY <1>1, LiveInvHolds, PTL
===============================================================================
