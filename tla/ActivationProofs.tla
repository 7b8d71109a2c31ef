--------------------------- MODULE ActivationProofs ---------------------------
(***************************************************************************)
(* The overlay computed by the linker is sound and tight, and generated    *)
(* code never destroys a byte another live activation needs: for every set *)
(* of functions, every program, every region size, and however calls,      *)
(* arguments and expansions nest.                                          *)
(*                                                                         *)
(* The layout.  The loop invariant of the relaxation is that, as long as   *)
(* the current pass has moved nothing, every edge it has looked at is      *)
(* satisfied; the pass that ends without a move has looked at all of them. *)
(*                                                                         *)
(* The refusal.  A pass that still moves something has raised a function   *)
(* along a walk of as many edges as there were passes.  Each function of   *)
(* the walk lies higher the next time the walk meets it, so a walk longer  *)
(* than the number of functions closes a cycle through stored bytes.  In   *)
(* what the compiler writes such a cycle, seen from the functions that     *)
(* hold the code, is a recursion, which is refused before.                 *)
(*                                                                         *)
(* The calls.  In an accepted layout every overlay edge is satisfied.  By  *)
(* induction over the calls in progress, every activation that is live     *)
(* ends at or below the start of every call above it: a new call starts    *)
(* above the activation that is current at its site, which is the last     *)
(* live one, and the compiler recorded an edge between exactly those two.  *)
(* A call whose arguments are still being evaluated is not protected in    *)
(* this way; it is safe because it is interrupted only by an argument that *)
(* holds a call, and everything before that argument is staged.            *)
(***************************************************************************)
EXTENDS ActivationRun, FiniteSetTheorems, SequenceTheorems, WellFoundedInduction,
        TLAPS

\* Edges relate functions of the program.
LEMMA EdgesType ==
    ASSUME NEW p \in Program
    PROVE  /\ OverlayEdges(p) \in SUBSET (Function \X Function)
           /\ p.size \in [Function -> Nat]
           /\ p.params \in [Function -> Nat]
BY ProgramAssumption
   DEF OverlayEdges, CallEdges, LifetimeEdges, ProgramType, Site

\* An activation has a start and an end in memory.
LEMMA EndType ==
    ASSUME LayoutTypeOK, NEW f \in Function
    PROVE  End(f) \in Nat /\ base[f] \in Nat /\ base[f] <= End(f)
<1>1. base[f] \in Nat /\ prog.size[f] \in Nat BY EdgesType DEF LayoutTypeOK
<1> QED BY <1>1 DEF End

\* At least one pass is run, and the number of functions does not change.
LEMMA NodeCountPositive ==
    NodeCount \in Nat /\ NodeCount > 0 /\ NodeCount' = NodeCount
<1>1. NodeCount \in Nat
  BY FunctionAssumption, FS_CardinalityType DEF NodeCount
<1>2. NodeCount # 0
  BY FunctionAssumption, FS_EmptySet DEF NodeCount
<1> QED BY <1>1, <1>2 DEF NodeCount

-----------------------------------------------------------------------------
\* The steps of the linker keep the types of its variables and the bound of the
\* pass loop in layout_activation_segments.
LEMMA LayoutTypeStep ==
    ASSUME LayoutTypeOK, [LayoutNext]_layoutVars
    PROVE  LayoutTypeOK'
<1> USE DEF LayoutTypeOK
<1>1. CASE Enforce
  BY <1>1, EdgesType DEF Enforce, Status, Refusals
<1>2. ASSUME NEW e \in Function \X Function, Relax(e) PROVE LayoutTypeOK'
  <2>1. Candidate(e) \in Nat
    BY EdgesType DEF Candidate, End
  <2> QED BY <1>2, <2>1 DEF Relax
<1>3. CASE EndPass
  <2>1. OverlayEdges(prog) \in SUBSET (Function \X Function) BY EdgesType
  <2>2. pass' \in 0..(NodeCount' - 1)
    BY <1>3, NodeCountPositive DEF EndPass, MorePasses
  <2>3. status' \in Status BY <1>3 DEF EndPass, Status, Refusals
  <2>4. todo' \in SUBSET (Function \X Function) /\ changed' \in BOOLEAN
    BY <1>3, <2>1 DEF EndPass
  <2>5. prog' = prog /\ base' = base BY <1>3 DEF EndPass
  <2> QED BY <2>2, <2>3, <2>4, <2>5
<1>4. CASE Place
  BY <1>4 DEF Place, Fits, Status, Refusals
<1>5. CASE UNCHANGED layoutVars
  BY <1>5 DEF layoutVars
<1> QED BY <1>1, <1>2, <1>3, <1>4, <1>5 DEF LayoutNext

LEMMA LayoutTypeInit == LayoutInit => LayoutTypeOK
<1> SUFFICES ASSUME LayoutInit PROVE LayoutTypeOK OBVIOUS
<1>1. 0 \in 0..(NodeCount - 1) BY NodeCountPositive
<1>2. base \in [Function -> Nat] BY DEF LayoutInit
<1> QED BY <1>1, <1>2 DEF LayoutInit, LayoutTypeOK, Status

\* Type correctness of the layout, the bound on the number of passes included.
THEOREM LayoutTypeCorrect == LayoutSpec => []LayoutTypeOK
BY LayoutTypeInit, LayoutTypeStep, PTL DEF LayoutSpec

-----------------------------------------------------------------------------
\* As long as this pass has moved nothing, the edges it is done with hold.
PassInv ==
    status = "relax" /\ ~changed =>
        \A e \in OverlayEdges(prog) \ todo : End(e[1]) <= base[e[2]]

\* An activation is where it is because of one of its callers.
Supported ==
    \A f \in Function : base[f] # 0 =>
        \E g \in Function : <<g, f>> \in OverlayEdges(prog) /\ base[f] <= End(g)

TodoInv == status = "relax" => todo \subseteq OverlayEdges(prog)

LayoutInv == LayoutTypeOK /\ TodoInv /\ PassInv /\ SettledIsFixpoint /\ Supported

LEMMA LayoutInvInit == LayoutInit => LayoutInv
BY LayoutTypeInit
   DEF LayoutInit, LayoutInv, TodoInv, PassInv, SettledIsFixpoint, Supported

\* Relaxing one edge.
LEMMA RelaxKeepsInv ==
    ASSUME LayoutInv, NEW e \in Function \X Function, Relax(e)
    PROVE  TodoInv' /\ PassInv' /\ SettledIsFixpoint' /\ Supported'
<1> USE DEF LayoutInv, LayoutTypeOK, Relax
<1>1. prog.size \in [Function -> Nat] BY EdgesType
<1>2. e \in OverlayEdges(prog) /\ e = <<e[1], e[2]>>
  BY DEF TodoInv
<1>3. TodoInv' /\ SettledIsFixpoint'
  BY DEF TodoInv, SettledIsFixpoint
<1>4. CASE Candidate(e) > base[e[2]]
  <2>1. base' = [base EXCEPT ![e[2]] = End(e[1])] /\ changed' = TRUE
    BY <1>4 DEF Candidate
  <2>2. PassInv' BY <2>1 DEF PassInv
  <2>3. \A g \in Function : End(g) <= End(g)'
    BY <1>1, <1>4, <2>1 DEF End, Candidate
  <2>4. ASSUME NEW f \in Function, base'[f] # 0
        PROVE  \E g \in Function : <<g, f>> \in OverlayEdges(prog) /\ base'[f] <= End(g)'
    <3>1. CASE f = e[2]
      <4>1. base'[f] = End(e[1]) BY <2>1, <3>1
      <4>2. e[1] \in Function /\ <<e[1], f>> \in OverlayEdges(prog) BY <1>2, <3>1
      <4>3. base'[f] <= End(e[1])' BY <4>1, <4>2, <2>3
      <4> WITNESS e[1] \in Function
      <4> QED BY <4>2, <4>3
    <3>2. CASE f # e[2]
      <4>1. base'[f] = base[f] BY <2>1, <3>2
      <4>2. PICK g \in Function : <<g, f>> \in OverlayEdges(prog) /\ base[f] <= End(g)
        BY <2>4, <4>1 DEF Supported
      <4>3. End(g) <= End(g)' BY <2>3
      <4>4. base[f] \in Nat /\ End(g) \in Nat /\ End(g)' \in Nat
        BY <1>1, <2>1 DEF End
      <4>5. base'[f] <= End(g)' BY <4>1, <4>2, <4>3, <4>4
      <4> WITNESS g \in Function
      <4> QED BY <4>2, <4>5
    <3> QED BY <3>1, <3>2
  <2> QED BY <1>3, <2>2, <2>4 DEF Supported
<1>5. CASE ~(Candidate(e) > base[e[2]])
  <2>1. UNCHANGED <<base, changed, prog, status>> BY <1>5
  <2>2. End(e[1]) <= base[e[2]]
    BY <1>1, <1>5 DEF Candidate, End
  <2>3. PassInv' BY <2>1, <2>2 DEF PassInv, End
  <2>4. Supported' BY <2>1 DEF Supported, End
  <2> QED BY <1>3, <2>3, <2>4
<1> QED BY <1>4, <1>5

LEMMA LayoutInvStep ==
    ASSUME LayoutInv, [LayoutNext]_layoutVars
    PROVE  LayoutInv'
<1>1. LayoutTypeOK' BY LayoutTypeStep DEF LayoutInv
<1> USE DEF LayoutInv
<1>2. CASE Enforce
  BY <1>1, <1>2
     DEF Enforce, TodoInv, PassInv, SettledIsFixpoint, Supported, End
<1>3. ASSUME NEW e \in Function \X Function, Relax(e) PROVE LayoutInv'
  BY <1>1, <1>3, RelaxKeepsInv
<1>4. CASE EndPass
  <2>1. Supported' BY <1>4 DEF EndPass, Supported, End
  <2>2. TodoInv' /\ PassInv' BY <1>4 DEF EndPass, TodoInv, PassInv
  <2>3. SettledIsFixpoint'
    BY <1>4 DEF EndPass, Converged, PassInv, SettledIsFixpoint, Fixpoint, End
  <2> QED BY <1>1, <2>1, <2>2, <2>3
<1>5. CASE Place
  BY <1>1, <1>5
     DEF Place, TodoInv, PassInv, SettledIsFixpoint, Fixpoint, Supported, End
<1>6. CASE UNCHANGED layoutVars
  BY <1>1, <1>6
     DEF layoutVars, TodoInv, PassInv, SettledIsFixpoint, Fixpoint, Supported, End
<1> QED BY <1>2, <1>3, <1>4, <1>5, <1>6 DEF LayoutNext

LEMMA LayoutInvariant == LayoutSpec => []LayoutInv
BY LayoutInvInit, LayoutInvStep, PTL DEF LayoutSpec

\* A layout the linker accepts keeps every callee clear of its caller's bytes.
THEOREM SettledIsFixpointHolds == LayoutSpec => []SettledIsFixpoint
<1>1. LayoutInv => SettledIsFixpoint BY DEF LayoutInv
<1> QED BY <1>1, LayoutInvariant, PTL

\* ... and wastes no byte: an activation starts at 0 or where a caller's ends.
THEOREM SettledIsTightHolds == LayoutSpec => []SettledIsTight
<1>1. ASSUME LayoutInv PROVE SettledIsTight
  <2> SUFFICES ASSUME status \in {"settled", "placed"},
                      NEW f \in Function, base[f] # 0
               PROVE  \E g \in Function :
                         <<g, f>> \in OverlayEdges(prog) /\ base[f] = End(g)
    BY DEF SettledIsTight
  <2>1. PICK g \in Function : <<g, f>> \in OverlayEdges(prog) /\ base[f] <= End(g)
    BY <1>1 DEF LayoutInv, Supported
  <2>2. End(g) <= base[f]
    BY <1>1, <2>1 DEF LayoutInv, SettledIsFixpoint, Fixpoint
  <2>3. base[f] \in Nat /\ End(g) \in Nat
    BY <1>1, EdgesType DEF LayoutInv, LayoutTypeOK, End
  <2> QED BY <2>1, <2>2, <2>3
<1> QED BY <1>1, LayoutInvariant, PTL

\* The two together, which the run checks as one (layout_activation_segments).
THEOREM SettledIsLeastHolds == LayoutSpec => []SettledIsLeast
BY SettledIsFixpointHolds, SettledIsTightHolds, PTL DEF SettledIsLeast

\* Along a path the bases grow by the sizes of the functions passed, so a cycle
\* through a function that owns bytes cannot satisfy all of its edges.
LEMMA FixpointHasNoCycle ==
    ASSUME LayoutTypeOK, Fixpoint, NEW f \in Function, prog.size[f] > 0
    PROVE  ~Reaches(OverlayEdges(prog), f, f)
<1> DEFINE S == {h \in Function : base[h] >= End(f)}
<1>1. prog.size \in [Function -> Nat] /\ base \in [Function -> Nat]
  BY EdgesType DEF LayoutTypeOK
<1>2. \A h, k \in Function : <<h, k>> \in OverlayEdges(prog) => base[k] >= base[h] + prog.size[h]
  BY <1>1 DEF Fixpoint, End
<1>3. \A h \in Function : <<f, h>> \in OverlayEdges(prog) => h \in S
  BY <1>1, <1>2 DEF End
<1>4. \A h, k \in Function : (h \in S /\ <<h, k>> \in OverlayEdges(prog)) => k \in S
  BY <1>1, <1>2 DEF End
<1>5. f \notin S BY <1>1 DEF End
<1>6. S \in SUBSET Function OBVIOUS
<1> HIDE DEF S
<1> QED BY <1>3, <1>4, <1>5, <1>6 DEF Reaches

\* A function that owns bytes is never live below itself in an accepted layout.
THEOREM PlacedHasNoLiveCycleHolds == LayoutSpec => []PlacedHasNoLiveCycle
<1>1. LayoutInv => PlacedHasNoLiveCycle
  BY FixpointHasNoCycle DEF LayoutInv, SettledIsFixpoint, PlacedHasNoLiveCycle
<1> QED BY <1>1, LayoutInvariant, PTL

-----------------------------------------------------------------------------
(* A refusal for a cycle is right: node_count passes are enough. *)

\* Induction from one number to another.
LEMMA FromTo ==
    ASSUME NEW a \in Nat, NEW b \in Nat, NEW S, a \in S,
           \A i \in (a + 1)..b : i - 1 \in S => i \in S
    PROVE  \A i \in a..b : i \in S
<1> SUFFICES ASSUME NEW k \in a..b, k \notin S PROVE FALSE OBVIOUS
<1> DEFINE Bad == {i \in a..b : i \notin S}
<1>1. Bad \in SUBSET Nat /\ Bad # {} OBVIOUS
<1>2. PICK r \in Bad : \A m \in Bad : ~ (<<m, r>> \in OpToRel(<, Nat))
  BY <1>1, NatLessThanWellFounded, WFMin
<1>3. OpToRel(<, Nat) = {ss \in Nat \X Nat : ss[1] < ss[2]} BY Zenon DEF OpToRel
<1>4. r \in a..b /\ r \notin S /\ r # a OBVIOUS
<1>5. r - 1 \in Nat /\ r \in Nat /\ r - 1 < r /\ r - 1 \in a..b /\ r \in (a + 1)..b
  BY <1>4
<1>6. r - 1 \notin S BY <1>4, <1>5
<1>7. r - 1 \in Bad BY <1>5, <1>6
<1>8. ~ (<<r - 1, r>> \in {ss \in Nat \X Nat : ss[1] < ss[2]})
  BY <1>2, <1>3, <1>7, Zenon
<1> QED BY <1>5, <1>8

\* A walk of n edges that ends at f and along which the bases have been raised:
\* v[i] is where c[i] started when it raised c[i + 1].  A function met twice has
\* been raised in between.
Raised(c, v, f, n, at, p) ==
    /\ c \in [0..n -> Function] /\ v \in [0..n -> Nat]
    /\ c[n] = f /\ v[n] = at[f]
    /\ \A i \in 0..(n - 1) : /\ <<c[i], c[i + 1]>> \in OverlayEdges(p)
                             /\ v[i + 1] = v[i] + p.size[c[i]]
    /\ \A i \in 0..n : v[i] <= at[c[i]]
    /\ \A i, j \in 0..n : (i < j /\ c[i] = c[j]) => v[i] < v[j]

\* f has been raised along a walk of at least n edges.
Long(f, n) == \E m \in Nat : \E c, v : m >= n /\ Raised(c, v, f, m, base, prog)

\* Every function has been raised along the walk of no edges.
LEMMA LongZero ==
    ASSUME LayoutTypeOK, NEW f \in Function
    PROVE  Long(f, 0)
<1> DEFINE c == [i \in 0..0 |-> f]
           v == [i \in 0..0 |-> base[f]]
<1>1. base[f] \in Nat BY DEF LayoutTypeOK
<1>2. c \in [0..0 -> Function] /\ v \in [0..0 -> Nat] BY <1>1
<1>3. \A i \in 0..0 : c[i] = f /\ v[i] = base[f] /\ i = 0 OBVIOUS
<1> HIDE DEF c, v
<1>4. \A i \in 0..(0 - 1) : FALSE OBVIOUS
<1>5. Raised(c, v, f, 0, base, prog) BY <1>1, <1>2, <1>3, <1>4 DEF Raised
<1> QED BY <1>5 DEF Long

LEMMA LongMonotone ==
    ASSUME NEW f, NEW n \in Nat, NEW k \in Nat, k <= n, Long(f, n)
    PROVE  Long(f, k)
BY DEF Long

\* The same, of the next state.
LEMMA LongLonger ==
    ASSUME NEW f, NEW n \in Nat, Long(f, n + 1)'
    PROVE  Long(f, n)'
BY DEF Long

LEMMA LongZeroNext ==
    ASSUME LayoutTypeOK', NEW f \in Function
    PROVE  Long(f, 0)'
BY LongZero, PTL

\* Raising another function leaves the walk to f as it is.
LEMMA LongPersists ==
    ASSUME LayoutTypeOK, LayoutTypeOK', prog' = prog,
           \A h \in Function : base[h] <= base'[h],
           NEW f \in Function, base'[f] = base[f], NEW n \in Nat, Long(f, n)
    PROVE  Long(f, n)'
<1>1. PICK m \in Nat : \E c, v : m >= n /\ Raised(c, v, f, m, base, prog) BY DEF Long
<1>2. PICK c, v : m >= n /\ Raised(c, v, f, m, base, prog) BY <1>1
<1>3. \A h \in Function : base[h] \in Nat /\ base'[h] \in Nat BY DEF LayoutTypeOK
<1>4. \A i \in 0..m : v[i] <= base'[c[i]]
  <2> TAKE i \in 0..m
  <2>1. c[i] \in Function /\ v[i] \in Nat /\ v[i] <= base[c[i]] BY <1>2 DEF Raised
  <2>2. base[c[i]] <= base'[c[i]] BY <2>1
  <2> QED BY <1>3, <2>1, <2>2
<1>5. Raised(c, v, f, m, base', prog') BY <1>2, <1>4 DEF Raised
<1> QED BY <1>2, <1>5 DEF Long

\* Raising a callee extends the walk to its caller by one edge.
LEMMA LongExtends ==
    ASSUME LayoutTypeOK, LayoutTypeOK', prog' = prog,
           NEW g \in Function, NEW f \in Function, <<g, f>> \in OverlayEdges(prog),
           End(g) > base[f], base' = [base EXCEPT ![f] = End(g)],
           NEW n \in Nat, Long(g, n)
    PROVE  Long(f, n + 1)'
<1>1. PICK m \in Nat : \E c, v : m >= n /\ Raised(c, v, g, m, base, prog) BY DEF Long
<1>2. PICK c, v : m >= n /\ Raised(c, v, g, m, base, prog) BY <1>1
<1>3. /\ base \in [Function -> Nat] /\ base' \in [Function -> Nat]
      /\ prog.size \in [Function -> Nat]
  BY EdgesType DEF LayoutTypeOK
<1>4. /\ base'[f] = End(g) /\ base[f] < End(g) /\ End(g) \in Nat
      /\ End(g) = base[g] + prog.size[g]
      /\ \A h \in Function : base[h] <= base'[h]
  BY <1>3 DEF End
<1> DEFINE C == [i \in 0..(m + 1) |-> IF i = m + 1 THEN f ELSE c[i]]
           V == [i \in 0..(m + 1) |-> IF i = m + 1 THEN End(g) ELSE v[i]]
<1>5. /\ c \in [0..m -> Function] /\ v \in [0..m -> Nat]
      /\ c[m] = g /\ v[m] = base[g]
      /\ \A i \in 0..(m - 1) : /\ <<c[i], c[i + 1]>> \in OverlayEdges(prog)
                               /\ v[i + 1] = v[i] + prog.size[c[i]]
      /\ \A i \in 0..m : v[i] <= base[c[i]]
      /\ \A i, j \in 0..m : (i < j /\ c[i] = c[j]) => v[i] < v[j]
  BY <1>2 DEF Raised
<1>6. C \in [0..(m + 1) -> Function] /\ V \in [0..(m + 1) -> Nat]
  <2>1. \A i \in 0..(m + 1) : i # m + 1 => i \in 0..m OBVIOUS
  <2> QED BY <1>4, <1>5, <2>1
<1>7. \A i \in 0..m : C[i] = c[i] /\ V[i] = v[i] OBVIOUS
<1>8. C[m + 1] = f /\ V[m + 1] = End(g) OBVIOUS
<1> HIDE DEF C, V
<1>9. ASSUME NEW i \in 0..((m + 1) - 1)
      PROVE  /\ <<C[i], C[i + 1]>> \in OverlayEdges(prog)
             /\ V[i + 1] = V[i] + prog.size[C[i]]
  <2>1. i \in 0..m OBVIOUS
  <2>2. CASE i = m BY <1>4, <1>5, <1>7, <1>8, <2>1, <2>2
  <2>3. CASE i # m
    <3>1. i \in 0..(m - 1) /\ i + 1 \in 0..m BY <2>1, <2>3
    <3> QED BY <1>5, <1>7, <2>1, <3>1
  <2> QED BY <2>2, <2>3
<1>10. ASSUME NEW i \in 0..(m + 1) PROVE V[i] <= base'[C[i]]
  <2>1. CASE i = m + 1 BY <1>4, <1>8, <2>1
  <2>2. CASE i # m + 1
    <3>1. i \in 0..m BY <2>2
    <3>2. c[i] \in Function /\ v[i] \in Nat /\ v[i] <= base[c[i]] BY <1>5, <3>1
    <3>3. base[c[i]] \in Nat /\ base'[c[i]] \in Nat /\ base[c[i]] <= base'[c[i]]
      BY <1>3, <1>4, <3>2
    <3>4. V[i] = v[i] /\ C[i] = c[i] BY <1>7, <3>1
    <3> QED BY <3>2, <3>3, <3>4
  <2> QED BY <2>1, <2>2
<1>11. ASSUME NEW i \in 0..(m + 1), NEW j \in 0..(m + 1), i < j, C[i] = C[j]
       PROVE  V[i] < V[j]
  <2>1. i \in 0..m BY <1>11
  <2>2. V[i] = v[i] /\ C[i] = c[i] BY <1>7, <2>1
  <2>3. c[i] \in Function /\ v[i] \in Nat /\ v[i] <= base[c[i]] BY <1>5, <2>1
  <2>4. CASE j = m + 1
    <3>1. c[i] = f /\ V[j] = End(g) BY <1>8, <1>11, <2>2, <2>4
    <3>2. base[f] \in Nat /\ v[i] <= base[f] BY <1>3, <2>3, <3>1
    <3> QED BY <1>4, <2>2, <2>3, <3>1, <3>2
  <2>5. CASE j # m + 1
    <3>1. j \in 0..m BY <2>5
    <3>2. V[j] = v[j] /\ C[j] = c[j] BY <1>7, <3>1
    <3> QED BY <1>5, <1>11, <2>1, <2>2, <3>1, <3>2
  <2> QED BY <2>4, <2>5
<1>12. m + 1 \in Nat /\ m + 1 >= n + 1 BY <1>2
<1>13. Raised(C, V, f, m + 1, base', prog')
  <2>1. V[m + 1] = base'[f] BY <1>4, <1>8
  <2>2. prog' = prog OBVIOUS
  <2>3. \A i \in 0..((m + 1) - 1) : /\ <<C[i], C[i + 1]>> \in OverlayEdges(prog')
                                    /\ V[i + 1] = V[i] + prog'.size[C[i]]
    BY <1>9
  <2>4. \A i, j \in 0..(m + 1) : (i < j /\ C[i] = C[j]) => V[i] < V[j] BY <1>11
  <2>5. \A i \in 0..(m + 1) : V[i] <= base'[C[i]] BY <1>10
  <2>6. C[m + 1] = f BY <1>8
  <2> QED BY <1>6, <2>1, <2>3, <2>4, <2>5, <2>6 DEF Raised
<1> QED BY <1>12, <1>13 DEF Long

\* A walk with more vertices than there are functions closes a cycle, and its
\* bases have grown on the way round: some function on it owns bytes.
LEMMA LongCloses ==
    ASSUME LayoutTypeOK, NEW f \in Function, NEW n \in Nat, n >= NodeCount, Long(f, n)
    PROVE  \E h \in Function : prog.size[h] > 0 /\ Reaches(OverlayEdges(prog), h, h)
<1> DEFINE E == OverlayEdges(prog)
<1>1. PICK m \in Nat : \E c, v : m >= n /\ Raised(c, v, f, m, base, prog) BY DEF Long
<1>2. PICK c, v : m >= n /\ Raised(c, v, f, m, base, prog) BY <1>1
<1>3. /\ c \in [0..m -> Function] /\ v \in [0..m -> Nat]
      /\ \A i \in 0..(m - 1) : <<c[i], c[i + 1]>> \in E /\ v[i + 1] = v[i] + prog.size[c[i]]
      /\ \A i, j \in 0..m : (i < j /\ c[i] = c[j]) => v[i] < v[j]
  BY <1>2 DEF Raised
<1>4. prog.size \in [Function -> Nat] BY EdgesType DEF LayoutTypeOK
<1>5. \E x, y \in 0..m : x # y /\ c[x] = c[y]
  <2>1. IsFiniteSet(0..m) /\ Cardinality(0..m) = m + 1 BY FS_Interval
  <2>2. Cardinality(Function) < Cardinality(0..m)
    BY <1>2, <2>1, NodeCountPositive DEF NodeCount
  <2> QED BY <1>3, <2>1, <2>2, FunctionAssumption, FS_PigeonHole
<1>6. PICK i \in 0..m : \E j \in 0..m : i < j /\ c[i] = c[j] BY <1>5
<1>7. PICK j \in 0..m : i < j /\ c[i] = c[j] BY <1>6
<1>8. i \in Nat /\ j \in Nat /\ v[i] < v[j] BY <1>3, <1>6, <1>7
<1> HIDE DEF E
<1>9. PICK l \in i..(j - 1) : prog.size[c[l]] > 0
  <2> SUFFICES ASSUME \A l \in i..(j - 1) : ~(prog.size[c[l]] > 0) PROVE FALSE
    OBVIOUS
  <2> DEFINE S == {k \in i..j : v[k] = v[i]}
  <2>1. i \in S BY <1>7, <1>8
  <2>2. ASSUME NEW k \in (i + 1)..j, k - 1 \in S PROVE k \in S
    <3>1. k - 1 \in i..(j - 1) /\ k - 1 \in 0..(m - 1) /\ k \in i..j /\ (k - 1) + 1 = k
      BY <1>8
    <3>2. c[k - 1] \in Function BY <1>3, <3>1
    <3>3. prog.size[c[k - 1]] = 0 BY <1>4, <3>1, <3>2
    <3>4. v[(k - 1) + 1] = v[k - 1] + prog.size[c[k - 1]] BY <1>3, <3>1
    <3>5. v[k - 1] = v[i] /\ v[i] \in Nat BY <1>3, <2>2
    <3> QED BY <3>1, <3>3, <3>4, <3>5
  <2> HIDE DEF S
  <2>3. \A k \in i..j : k \in S BY <1>8, <2>1, <2>2, FromTo
  <2>4. j \in S BY <1>7, <1>8, <2>3
  <2>5. v[j] = v[i] /\ v[i] \in Nat BY <1>3, <2>4 DEF S
  <2> QED BY <1>8, <2>5
<1>10. l \in Nat /\ l \in 0..m /\ i <= l /\ l < j BY <1>8
<1>11. c[l] \in Function BY <1>3, <1>10
<1>12. Reaches(E, c[l], c[l])
  <2> SUFFICES ASSUME NEW S \in SUBSET Function,
                      \A h \in Function : <<c[l], h>> \in E => h \in S,
                      \A h, k \in Function : (h \in S /\ <<h, k>> \in E) => k \in S
               PROVE  c[l] \in S
    BY DEF Reaches
  <2> DEFINE T == {k \in 0..m : c[k] \in S}
  <2>1. ASSUME NEW k \in 1..m, k - 1 \in T PROVE k \in T
    <3>1. k - 1 \in 0..(m - 1) /\ k - 1 \in 0..m /\ k \in 0..m /\ (k - 1) + 1 = k OBVIOUS
    <3>2. <<c[k - 1], c[(k - 1) + 1]>> \in E BY <1>3, <3>1
    <3>3. c[k - 1] \in S /\ c[k - 1] \in Function /\ c[k] \in Function BY <1>3, <2>1, <3>1
    <3>4. c[k] \in S BY <3>1, <3>2, <3>3
    <3> QED BY <3>1, <3>4
  <2>2. l + 1 \in T
    <3>1. l \in 0..(m - 1) /\ l + 1 \in 0..m BY <1>10
    <3>2. <<c[l], c[l + 1]>> \in E /\ c[l + 1] \in Function BY <1>3, <3>1
    <3> QED BY <3>1, <3>2
  <2>3. \A k \in ((l + 1) + 1)..j : k - 1 \in T => k \in T
    <3>1. \A k \in ((l + 1) + 1)..j : k \in 1..m BY <1>8, <1>10
    <3> HIDE DEF T
    <3> QED BY <2>1, <3>1
  <2>4. \A k \in (i + 1)..l : k - 1 \in T => k \in T
    <3>1. \A k \in (i + 1)..l : k \in 1..m BY <1>8, <1>10
    <3> HIDE DEF T
    <3> QED BY <2>1, <3>1
  <2>5. j \in T
    <3> HIDE DEF T
    <3>1. l + 1 \in Nat /\ j \in (l + 1)..j BY <1>8, <1>10
    <3>2. \A k \in (l + 1)..j : k \in T BY <1>8, <2>2, <2>3, <3>1, FromTo
    <3> QED BY <3>1, <3>2
  <2>6. i \in T
    <3>1. c[j] \in S BY <2>5
    <3> QED BY <1>7, <3>1
  <2>7. l \in T
    <3> HIDE DEF T
    <3>1. \A k \in i..l : k \in T BY <1>8, <1>10, <2>4, <2>6, FromTo
    <3>2. l \in i..l BY <1>8, <1>10
    <3> QED BY <3>1, <3>2
  <2> QED BY <2>7
<1> QED BY <1>9, <1>11, <1>12 DEF E
-----------------------------------------------------------------------------
\* While pass number pass runs: an edge that is not satisfied starts at a function
\* that was raised along a walk of pass edges, of one more when the pass is done
\* with the edge; a pass that moved something moved it along such a walk.
CycleInv ==
    /\ LayoutTypeOK
    /\ status = "enforce" => pass = 0 /\ ~changed
    /\ status = "relax" =>
          /\ todo \subseteq OverlayEdges(prog)
          /\ \A e \in OverlayEdges(prog) :
                End(e[1]) <= base[e[2]] \/ Long(e[1], pass)
          /\ \A e \in OverlayEdges(prog) \ todo :
                End(e[1]) <= base[e[2]] \/ Long(e[1], pass + 1)
          /\ changed => \E f \in Function : Long(f, pass + 1)
    /\ CycleMeansCycle

LEMMA CycleInvInit == LayoutInit => CycleInv
<1> SUFFICES ASSUME LayoutInit PROVE CycleInv OBVIOUS
<1>1. LayoutTypeOK BY LayoutTypeInit
<1> QED BY <1>1 DEF LayoutInit, CycleInv, CycleMeansCycle

\* Relaxing one edge that moves its callee.
LEMMA RaiseKeepsCycleInv ==
    ASSUME CycleInv, NEW e \in Function \X Function, Relax(e), Candidate(e) > base[e[2]]
    PROVE  CycleInv'
<1> DEFINE g == e[1]
           f == e[2]
<1>1. /\ status = "relax" /\ e \in todo /\ todo' = todo \ {e}
      /\ base' = [base EXCEPT ![f] = End(g)] /\ changed' = TRUE
      /\ UNCHANGED <<prog, status, pass>>
  BY DEF Relax, Candidate
<1>2. LayoutTypeOK /\ LayoutTypeOK'
  BY LayoutTypeStep DEF CycleInv, LayoutNext
<1>3. g \in Function /\ f \in Function /\ e = <<g, f>> OBVIOUS
<1>4. pass \in Nat BY <1>2, NodeCountPositive DEF LayoutTypeOK
<1>5. End(g) > base[f] BY DEF Candidate
<1>6. /\ e \in OverlayEdges(prog) /\ todo \subseteq OverlayEdges(prog)
      /\ OverlayEdges(prog) \in SUBSET (Function \X Function)
  BY <1>1, <1>2, EdgesType DEF CycleInv, LayoutTypeOK
<1>7. Long(g, pass)
  <2>1. End(e[1]) <= base[e[2]] \/ Long(e[1], pass) BY <1>1, <1>6 DEF CycleInv
  <2>2. End(g) \in Nat /\ base[f] \in Nat BY <1>2, <1>3, EndType DEF LayoutTypeOK
  <2>3. ~(End(g) <= base[f]) BY <1>5, <2>2
  <2> QED BY <2>1, <2>3
<1> HIDE DEF g, f
<1>8. Long(f, pass + 1)' BY <1>1, <1>2, <1>3, <1>4, <1>5, <1>6, <1>7, LongExtends
<1>9. Long(f, pass)' BY <1>1, <1>3, <1>4, <1>8, LongLonger
<1>10. \A h \in Function : base[h] <= base'[h]
  BY <1>1, <1>2, <1>3, <1>5, EndType DEF LayoutTypeOK
<1>11. ASSUME NEW d \in OverlayEdges(prog), NEW n \in Nat, n = pass \/ n = pass + 1,
              End(d[1]) <= base[d[2]] \/ Long(d[1], n)
       PROVE  End(d[1])' <= base'[d[2]] \/ Long(d[1], n)'
  <2>1. d[1] \in Function /\ d[2] \in Function BY <1>6
  <2>2. CASE d[1] = f
    <3>1. n = pass' \/ n = (pass + 1)' BY <1>1, <1>11
    <3>2. CASE n = pass' BY <1>9, <2>2, <3>2
    <3>3. CASE n = (pass + 1)' BY <1>8, <2>2, <3>3
    <3> QED BY <3>1, <3>2, <3>3
  <2>3. CASE d[1] # f /\ Long(d[1], n)
    <3>1. base'[d[1]] = base[d[1]] BY <1>1, <1>2, <1>3, <2>1, <2>3 DEF LayoutTypeOK
    <3> QED BY <1>1, <1>2, <1>10, <2>1, <2>3, <3>1, LongPersists
  <2>4. CASE d[1] # f /\ End(d[1]) <= base[d[2]]
    <3>1. base'[d[1]] = base[d[1]] BY <1>1, <1>2, <1>3, <2>1, <2>4 DEF LayoutTypeOK
    <3>2. End(d[1])' = End(d[1]) BY <1>1, <3>1 DEF End
    <3>3. /\ base[d[2]] \in Nat /\ base'[d[2]] \in Nat /\ base[d[2]] <= base'[d[2]]
          /\ End(d[1]) \in Nat
      BY <1>2, <1>10, <2>1, EndType DEF LayoutTypeOK
    <3> QED BY <2>4, <3>2, <3>3
  <2> QED BY <1>11, <2>2, <2>3, <2>4
<1>12. \A d \in OverlayEdges(prog) : End(d[1])' <= base'[d[2]] \/ Long(d[1], pass)'
  BY <1>1, <1>4, <1>11 DEF CycleInv
<1>13. ASSUME NEW d \in OverlayEdges(prog) \ todo'
       PROVE  End(d[1])' <= base'[d[2]] \/ Long(d[1], pass + 1)'
  <2>1. CASE d # e
    <3>1. d \in OverlayEdges(prog) \ todo BY <1>1, <2>1
    <3> QED BY <1>1, <1>4, <1>11, <3>1 DEF CycleInv
  <2>2. CASE d = e /\ g = f BY <1>3, <1>8, <2>2
  <2>3. CASE d = e /\ g # f
    <3>1. base'[f] = End(g) /\ base'[g] = base[g] BY <1>1, <1>2, <1>3, <2>3 DEF LayoutTypeOK
    <3>2. End(g)' = End(g) /\ End(g) \in Nat BY <1>1, <1>2, <1>3, <3>1, EndType DEF End
    <3>3. d[1] = g /\ d[2] = f BY <1>3, <2>3
    <3> QED BY <3>1, <3>2, <3>3
  <2> QED BY <2>1, <2>2, <2>3
<1>14. status' = "relax" /\ prog' = prog /\ pass' = pass /\ todo' \subseteq OverlayEdges(prog)
  BY <1>1, <1>6
<1>15. CycleMeansCycle' BY <1>14 DEF CycleMeansCycle
<1>16. \E h \in Function : Long(h, pass + 1)' BY <1>3, <1>8
<1> QED BY <1>2, <1>12, <1>13, <1>14, <1>15, <1>16 DEF CycleInv

LEMMA CycleInvStep ==
    ASSUME CycleInv, [LayoutNext]_layoutVars
    PROVE  CycleInv'
<1>1. LayoutTypeOK /\ LayoutTypeOK' BY LayoutTypeStep DEF CycleInv
<1>2. CASE Enforce
  <2>1. /\ status = "enforce" /\ UNCHANGED <<prog, base, pass, changed>>
        /\ status' = "relax" => todo' = OverlayEdges(prog)
        /\ status' \in {"recursive", "relax"}
    BY <1>2 DEF Enforce
  <2>2. pass = 0 /\ ~changed BY <2>1 DEF CycleInv
  <2>3. \A e \in OverlayEdges(prog) : Long(e[1], 0)'
    <3>1. \A e \in OverlayEdges(prog) : e[1] \in Function BY <1>1, EdgesType DEF LayoutTypeOK
    <3>2. \A f \in Function : Long(f, 0)' BY <1>1, LongZeroNext
    <3> QED BY <3>1, <3>2
  <2>4. CycleMeansCycle' BY <2>1 DEF CycleMeansCycle
  <2>5. \A e \in OverlayEdges(prog) : Long(e[1], pass)'
    BY <2>1, <2>2, <2>3 
  <2> QED BY <1>1, <2>1, <2>2, <2>4, <2>5 DEF CycleInv
<1>3. ASSUME NEW e \in Function \X Function, Relax(e) PROVE CycleInv'
  <2>1. CASE Candidate(e) > base[e[2]] BY <1>3, <2>1, RaiseKeepsCycleInv
  <2>2. CASE ~(Candidate(e) > base[e[2]])
    <3>1. /\ status = "relax" /\ todo' = todo \ {e}
          /\ UNCHANGED <<prog, status, pass, base, changed>>
      BY <1>3, <2>2 DEF Relax
    <3>2. e[1] \in Function /\ e[2] \in Function OBVIOUS
    <3>3. End(e[1]) <= base[e[2]]
      BY <1>1, <2>2, <3>2, EndType DEF Candidate, LayoutTypeOK
    <3>4. CycleMeansCycle' BY <3>1 DEF CycleMeansCycle
    <3> QED BY <1>1, <3>1, <3>3, <3>4 DEF CycleInv, Long, End
  <2> QED BY <2>1, <2>2
<1>4. CASE EndPass
  <2>1. status = "relax" /\ todo = {} /\ UNCHANGED <<prog, base>> BY <1>4 DEF EndPass
  <2>2. pass \in Nat BY <1>1, NodeCountPositive DEF LayoutTypeOK
  <2>3. CASE ~changed
    <3>1. status' = "settled" BY <1>4, <2>3 DEF EndPass, Converged
    <3> QED BY <1>1, <3>1 DEF CycleInv, CycleMeansCycle
  <2>4. CASE changed /\ MorePasses
    <3>1. status' = "relax" /\ pass' = pass + 1 /\ todo' = OverlayEdges(prog) /\ changed' = FALSE
      BY <1>4, <2>4 DEF EndPass, Converged
    <3>2. \A e \in OverlayEdges(prog) : End(e[1]) <= base[e[2]] \/ Long(e[1], pass + 1)
      BY <2>1 DEF CycleInv
    <3>3. CycleMeansCycle' BY <3>1 DEF CycleMeansCycle
    <3> QED BY <1>1, <2>1, <3>1, <3>2, <3>3 DEF CycleInv, Long, End
  <2>5. CASE changed /\ ~MorePasses
    <3>1. status' = "cycle" BY <1>4, <2>5 DEF EndPass, Converged
    <3>2. PICK f \in Function : Long(f, pass + 1) BY <2>1, <2>5 DEF CycleInv
    <3>3. pass + 1 >= NodeCount BY <2>2, <2>5, NodeCountPositive DEF MorePasses
    <3>4. \E h \in Function : prog.size[h] > 0 /\ Reaches(OverlayEdges(prog), h, h)
      BY <1>1, <2>2, <3>2, <3>3, LongCloses
    <3>5. CycleMeansCycle' BY <2>1, <3>4 DEF CycleMeansCycle
    <3> QED BY <1>1, <3>1, <3>5 DEF CycleInv
  <2> QED BY <2>3, <2>4, <2>5
<1>5. CASE Place
  BY <1>1, <1>5 DEF Place, CycleInv, CycleMeansCycle
<1>6. CASE UNCHANGED layoutVars
  BY <1>1, <1>6 DEF layoutVars, CycleInv, CycleMeansCycle, Long, End
<1> QED BY <1>2, <1>3, <1>4, <1>5, <1>6 DEF LayoutNext

\* node_count passes are enough: only a graph with a cycle through stored bytes
\* is refused with the cycle diagnostic (layout_activation_segments).
THEOREM CycleMeansCycleHolds == LayoutSpec => []CycleMeansCycle
<1>1. CycleInv => CycleMeansCycle BY DEF CycleInv
<1> QED BY <1>1, CycleInvInit, CycleInvStep, PTL DEF LayoutSpec
-----------------------------------------------------------------------------
(* Calls in progress. *)

\* The call stack seen as an array of records, its top included.
ClearInv ==
    \A i, j \in DOMAIN ctl :
        (i < j /\ Live(ctl[i])) => End(ctl[i].fn) <= base[ctl[j].fn]

\* A call that is interrupted while its arguments are evaluated is interrupted
\* by an argument that holds a call.
ArgsInv ==
    \A i \in DOMAIN ctl :
        ctl[i].phase = "args" =>
            /\ ~ctl[i].worked
            /\ i < Len(ctl) => ctl[i].next \in ctl[i].mayCall

PlacedFits == status = "placed" => Fits

RunInv == /\ LayoutInv /\ PlacedFits
          /\ RunTypeOK /\ ClearInv /\ ArgsInv /\ StoredBytesIntact

\* What the elements of a stack of calls look like.
LEMMA CallType ==
    ASSUME NEW q \in Seq(Call), NEW i \in DOMAIN q
    PROVE  /\ q[i] \in Call /\ q[i].fn \in Function /\ q[i].next \in Nat \ {0}
           /\ q[i].phase \in {"args", "body"} /\ q[i].worked \in BOOLEAN
           /\ q[i].inl \in BOOLEAN /\ q[i].serial \in Nat
           /\ i \in Nat
<1>1. q[i] \in Call /\ i \in Nat
  BY DOMAIN q = 1..Len(q), Len(q) \in Nat
<1> QED BY <1>1 DEF Call

-----------------------------------------------------------------------------
\* A placed layout, as the steps of the running program see it.
LEMMA PlacedFacts ==
    ASSUME LayoutInv, PlacedFits, status = "placed"
    PROVE  /\ base \in [Function -> Nat]
           /\ prog.size \in [Function -> Nat]
           /\ prog.params \in [Function -> Nat]
           /\ \A f \in Function : prog.params[f] <= prog.size[f]
           /\ \A f \in Function : End(f) <= RegionSize
           /\ \A e \in OverlayEdges(prog) : End(e[1]) <= base[e[2]]
           /\ prog.site \in SUBSET Site
<1>1. prog \in Program BY DEF LayoutInv, LayoutTypeOK
<1>2. prog.site \in SUBSET Site BY <1>1, ProgramAssumption DEF ProgramType
<1>3. \A f \in Function : prog.params[f] <= prog.size[f]
  BY <1>1, ProgramAssumption
<1> QED
  BY <1>1, <1>2, <1>3, EdgesType
     DEF LayoutInv, LayoutTypeOK, PlacedFits, Fits, SettledIsFixpoint, Fixpoint

\* The compiler records an edge from the activation current at a call site to
\* the callee, whatever the site looks like.
LEMMA SiteHasEdge ==
    ASSUME NEW p \in Program, NEW s \in p.site
    PROVE  <<s.owner, s.callee>> \in OverlayEdges(p)
BY DEF OverlayEdges, CallEdges, LifetimeEdges

-----------------------------------------------------------------------------
\* Steps of the linker: no code is running yet.
LEMMA LayoutKeepsRunInv ==
    ASSUME RunInv, LayoutNext, UNCHANGED runVars
    PROVE  RunInv'
<1> USE DEF RunInv, runVars
<1>1. LayoutInv' BY LayoutInvStep
<1>2. LayoutTypeOK' BY <1>1 DEF LayoutInv
<1>3. status # "placed"
  BY DEF LayoutNext, Enforce, Relax, EndPass, Place
<1>4. ctl = <<>> /\ ctl' = <<>> BY <1>3 DEF RunTypeOK
<1>5. PlacedFits'
  BY <1>3 DEF LayoutNext, Enforce, Relax, EndPass, Place, PlacedFits, Fits, End
<1>6. RunTypeOK' BY <1>2, <1>4 DEF RunTypeOK
<1>7. ClearInv' /\ ArgsInv' /\ StoredBytesIntact'
  BY <1>4 DEF ClearInv, ArgsInv, StoredBytesIntact
<1> QED BY <1>1, <1>5, <1>6, <1>7

\* Steps of the running program leave the layout alone.
LEMMA RunKeepsLayout ==
    ASSUME RunInv, UNCHANGED layoutVars
    PROVE  /\ LayoutInv' /\ PlacedFits' /\ LayoutTypeOK'
     <1>1. LayoutInv' BY LayoutInvStep DEF RunInv
<1> QED
  BY <1>1 DEF RunInv, PlacedFits, Fits, End, layoutVars, LayoutInv

\* The bytes a call needs lie in its activation, inside the region.
LEMMA NeededInActivation ==
    ASSUME LayoutInv, PlacedFits, status = "placed", NEW c \in Call, NEW a \in Needed(c)
    PROVE  a \in Nat /\ base[c.fn] <= a /\ a < End(c.fn) /\ a \in Addr
<1>1. c.fn \in Function BY DEF Call
<1>2. /\ base[c.fn] \in Nat /\ prog.size[c.fn] \in Nat /\ prog.params[c.fn] \in Nat
      /\ prog.params[c.fn] <= prog.size[c.fn] /\ End(c.fn) <= RegionSize
  BY <1>1, PlacedFacts
<1>3. CASE \E p \in Arguments(c.fn) : a = ParamByte(c.fn, p)
  BY <1>2, <1>3, RegionAssumption DEF Arguments, ParamByte, End, Addr
<1>4. CASE a \in LocalBytes(c.fn)
  BY <1>2, <1>4, RegionAssumption DEF LocalBytes, End, Addr
<1> QED BY <1>3, <1>4 DEF Needed

\* Which bytes a call needs depends on its record and on the layout alone.
LEMMA NeededUnchanged ==
    ASSUME UNCHANGED layoutVars, NEW i \in DOMAIN ctl'
    PROVE  Needed(ctl[i])' = Needed(ctl'[i])
BY DEF layoutVars, Needed, ParamByte, Arguments, LocalBytes, Delivered, MustStage

\* Every live activation ends at or below the end of the current one.
LEMMA OwnerIsLastLive ==
    ASSUME RunInv, status = "placed", NEW f \in Function, OwnerIs(f),
           NEW i \in DOMAIN ctl, Live(ctl[i])
    PROVE  End(ctl[i].fn) <= End(f)
<1> USE DEF RunInv
<1>1. PICK k \in DOMAIN ctl :
         ctl[k].fn = f /\ \A j \in DOMAIN ctl : j > k => ~Live(ctl[j])
  BY DEF OwnerIs
<1>2. ctl \in Seq(Call) BY DEF RunTypeOK
<1>3. i \in Nat /\ k \in Nat /\ ctl[i].fn \in Function
  BY <1>2, CallType
<1>4. base \in [Function -> Nat] /\ prog.size \in [Function -> Nat]
  BY PlacedFacts
<1>5. CASE i = k
  BY <1>1, <1>4, <1>5 DEF End
<1>6. CASE i # k
  <2>1. i < k BY <1>1, <1>3, <1>6
  <2>2. End(ctl[i].fn) <= base[f] BY <1>1, <2>1 DEF ClearInv
  <2> QED BY <1>3, <1>4, <2>2 DEF End
<1> QED BY <1>5, <1>6

-----------------------------------------------------------------------------
\* A call is begun: nothing is written, and the new activation lies above every
\* live one.
LEMMA BeginCallKeepsRunInv ==
    ASSUME RunInv, NEW s \in prog.site, NEW calls \in SUBSET Arguments(s.callee),
           BeginCall(s, calls)
    PROVE  RunInv'
<1> USE DEF RunInv
<1> DEFINE c == NewCall(s.callee, s.inl, "args", calls)
<1>1. status = "placed" /\ ctl # <<>> /\ UNCHANGED layoutVars
  BY DEF BeginCall, MayBeginCall
<1>2. LayoutInv' /\ PlacedFits' /\ LayoutTypeOK'
  BY <1>1, RunKeepsLayout
<1>3. s \in Site /\ s.callee \in Function /\ s.owner \in Function
  BY <1>1, PlacedFacts DEF Site
<1>4. ctl \in Seq(Call) /\ serial \in Nat /\ mem \in [Addr -> Nat] BY DEF RunTypeOK
<1>5. prog.params \in [Function -> Nat] BY <1>1, PlacedFacts
<1>6. c \in Call
  BY <1>3, <1>4, <1>5 DEF NewCall, Call, Site, Arguments
<1>7. /\ ctl' = Append(ctl, c) /\ ctl' \in Seq(Call) /\ ctl' # <<>>
      /\ Len(ctl') = Len(ctl) + 1 /\ ctl'[Len(ctl) + 1] = c
      /\ \A i \in DOMAIN ctl : ctl'[i] = ctl[i]
      /\ DOMAIN ctl = 1..Len(ctl) /\ DOMAIN ctl' = 1..(Len(ctl) + 1)
      /\ Len(ctl) \in Nat
  BY <1>4, <1>6 DEF BeginCall
<1> HIDE DEF c
<1>8. /\ c.fn = s.callee /\ c.phase = "args" /\ c.next = 1 /\ ~c.worked
      /\ UNCHANGED <<mem, base, prog, status>> /\ serial' \in Nat
  BY <1>4 DEF c, NewCall, BeginCall, layoutVars
<1>9. RunTypeOK'
  <2>1. \A i \in DOMAIN ctl' : ctl'[i].fn \in Function
    BY <1>7, CallType
  <2>2. \A i \in DOMAIN ctl' : End(ctl'[i].fn) <= RegionSize
    BY <1>1, <2>1, PlacedFacts
  <2> QED BY <1>1, <1>2, <1>4, <1>7, <1>8, <2>2 DEF RunTypeOK, End
<1>10. ClearInv'
  <2> SUFFICES ASSUME NEW i \in DOMAIN ctl', NEW j \in DOMAIN ctl',
                      i < j, Live(ctl'[i])
               PROVE  End(ctl'[i].fn) <= base[ctl'[j].fn]
    BY <1>8 DEF ClearInv, Live, End
  <2>1. i \in DOMAIN ctl /\ ctl'[i] = ctl[i] BY <1>7
  <2>2. ctl[i] \in Call /\ ctl[i].fn \in Function BY <1>4, <2>1, CallType
  <2>3. CASE j \in DOMAIN ctl
    BY <1>7, <2>1, <2>3 DEF ClearInv
  <2>4. CASE j = Len(ctl) + 1
    <3>1. End(ctl[i].fn) <= End(s.owner)
      BY <1>1, <1>3, <2>1, OwnerIsLastLive DEF BeginCall
    <3>2. End(s.owner) <= base[s.callee]
      <4>1. <<s.owner, s.callee>> \in OverlayEdges(prog)
        BY SiteHasEdge DEF LayoutInv, LayoutTypeOK
      <4> QED BY <1>1, <4>1, PlacedFacts
    <3>3. End(ctl[i].fn) \in Nat /\ End(s.owner) \in Nat /\ base[s.callee] \in Nat
      BY <1>3, <2>2, EndType DEF LayoutInv
    <3> QED BY <1>7, <1>8, <2>1, <2>4, <3>1, <3>2, <3>3
  <2> QED BY <1>7, <2>3, <2>4
<1>11. ArgsInv'
  <2> SUFFICES ASSUME NEW i \in DOMAIN ctl', ctl'[i].phase = "args"
               PROVE  /\ ~ctl'[i].worked
                      /\ i < Len(ctl') => ctl'[i].next \in ctl'[i].mayCall
    BY DEF ArgsInv
  <2>1. CASE i = Len(ctl) + 1 BY <1>7, <1>8, <2>1
  <2>2. CASE i = Len(ctl)
    BY <1>7, <2>2 DEF ArgsInv, BeginCall, MayBeginCall, Top
  <2>3. CASE i < Len(ctl)
    BY <1>7, <2>3 DEF ArgsInv
  <2> QED BY <1>7, <2>1, <2>2, <2>3
<1>12. StoredBytesIntact'
  <2> SUFFICES ASSUME NEW i \in DOMAIN ctl', NEW a \in Needed(ctl'[i])
               PROVE  mem[a] = ctl'[i].serial
    BY <1>1, <1>8, NeededUnchanged DEF StoredBytesIntact
  <2>1. CASE i \in DOMAIN ctl BY <1>7, <2>1 DEF StoredBytesIntact
  <2>2. CASE i = Len(ctl) + 1
    <3>1. Needed(c) = {}
      BY <1>8 DEF Needed, Delivered, Arguments
    <3> QED BY <1>7, <2>2, <3>1
  <2> QED BY <1>7, <2>1, <2>2
<1> QED BY <1>2, <1>9, <1>10, <1>11, <1>12

-----------------------------------------------------------------------------
\* What a store by the call on top may touch without harming the calls below:
\* their live activations end where its activation starts, and a call below that
\* is not live yet needs no byte.
LEMMA BelowTopIsSafe ==
    ASSUME RunInv, status = "placed", ctl # <<>>,
           NEW i \in DOMAIN ctl, i # Len(ctl), NEW a \in Needed(ctl[i])
    PROVE  a \in Addr /\ a < base[Top.fn]
<1> USE DEF RunInv
<1>1. ctl \in Seq(Call) BY DEF RunTypeOK
<1>2. DOMAIN ctl = 1..Len(ctl) /\ Len(ctl) \in Nat /\ Len(ctl) \in DOMAIN ctl
  BY <1>1
<1>3. i < Len(ctl) BY <1>2
<1>4. ctl[i] \in Call /\ ctl[i].fn \in Function /\ Top.fn \in Function
  BY <1>1, <1>2, CallType DEF Top
<1>5. a \in Nat /\ base[ctl[i].fn] <= a /\ a < End(ctl[i].fn) /\ a \in Addr
  BY <1>4, NeededInActivation
<1>6. Live(ctl[i])
  <2> SUFFICES ASSUME ~Live(ctl[i]) PROVE FALSE OBVIOUS
  <2>1. ctl[i].phase = "args" /\ ~ctl[i].inl
    BY <1>1, CallType DEF Live
  <2>2. ctl[i].next \in ctl[i].mayCall BY <1>3, <2>1 DEF ArgsInv
  <2>3. \A p \in Arguments(ctl[i].fn) : ~Delivered(ctl[i], p)
    BY <2>1, <2>2 DEF Delivered, MustStage
  <2> QED BY <2>1, <2>3 DEF Needed
<1>7. End(ctl[i].fn) <= base[Top.fn] BY <1>2, <1>3, <1>6 DEF ClearInv, Top
<1>8. End(ctl[i].fn) \in Nat /\ base[Top.fn] \in Nat
  BY <1>4, EndType DEF LayoutInv
<1> QED BY <1>5, <1>7, <1>8

\* The steps that change only the record of the top call and store only in its
\* activation keep the invariant, if the top call's own bytes are right.
LEMMA TopStepKeepsRunInv ==
    ASSUME RunInv, status = "placed", ctl # <<>>, UNCHANGED <<layoutVars, serial>>,
           NEW c \in Call, ctl' = [ctl EXCEPT ![Len(ctl)] = c], c.fn = Top.fn,
           c.phase = "args" => ~c.worked,
           mem' \in [Addr -> Nat],
           \A a \in Addr : mem'[a] # mem[a] => base[c.fn] <= a,
           \A a \in Needed(c) : mem'[a] = c.serial
    PROVE  RunInv'
<1> USE DEF RunInv
<1>1. LayoutInv' /\ PlacedFits' /\ LayoutTypeOK' BY RunKeepsLayout
<1>2. UNCHANGED <<base, prog, status>> BY DEF layoutVars
<1>3. ctl \in Seq(Call) /\ serial \in Nat BY DEF RunTypeOK
<1>4. /\ DOMAIN ctl = 1..Len(ctl) /\ Len(ctl) \in Nat /\ Len(ctl) \in DOMAIN ctl
      /\ ctl' \in Seq(Call) /\ DOMAIN ctl' = DOMAIN ctl /\ Len(ctl') = Len(ctl)
      /\ ctl'[Len(ctl)] = c
      /\ \A i \in DOMAIN ctl : i # Len(ctl) => ctl'[i] = ctl[i]
  BY <1>3
<1>5. \A i \in DOMAIN ctl : ctl'[i].fn = ctl[i].fn BY <1>4 DEF Top
<1>6. RunTypeOK'
  <2>1. \A i \in DOMAIN ctl' : End(ctl'[i].fn) <= RegionSize
    BY <1>4, CallType, PlacedFacts
  <2> QED BY <1>1, <1>2, <1>3, <1>4, <2>1 DEF RunTypeOK, End
<1>7. ClearInv'
  <2> SUFFICES ASSUME NEW i \in DOMAIN ctl', NEW j \in DOMAIN ctl',
                      i < j, Live(ctl'[i])
               PROVE  End(ctl'[i].fn) <= base[ctl'[j].fn]
    BY <1>2 DEF ClearInv, Live, End
  <2>1. i # Len(ctl) BY <1>4
  <2> QED BY <1>4, <1>5, <2>1 DEF ClearInv
<1>8. ArgsInv'
  <2> SUFFICES ASSUME NEW i \in DOMAIN ctl', ctl'[i].phase = "args"
               PROVE  /\ ~ctl'[i].worked
                      /\ i < Len(ctl') => ctl'[i].next \in ctl'[i].mayCall
    BY DEF ArgsInv
  <2>1. CASE i = Len(ctl) BY <1>4, <2>1
  <2>2. CASE i # Len(ctl) BY <1>4, <2>2 DEF ArgsInv
  <2> QED BY <2>1, <2>2
<1>9. StoredBytesIntact'
  <2> SUFFICES ASSUME NEW i \in DOMAIN ctl', NEW a \in Needed(ctl'[i])
               PROVE  mem'[a] = ctl'[i].serial
    BY NeededUnchanged DEF StoredBytesIntact
  <2>1. CASE i = Len(ctl) BY <1>4, <2>1
  <2>2. CASE i # Len(ctl)
    <3>1. ctl'[i] = ctl[i] /\ i \in DOMAIN ctl BY <1>4, <2>2
    <3>2. a \in Addr /\ a < base[c.fn] BY <2>2, <3>1, BelowTopIsSafe
    <3>3. base[c.fn] \in Nat BY <1>3, <1>4, CallType, EndType DEF LayoutInv, Top
    <3>4. mem'[a] = mem[a] BY <3>2, <3>3, RegionAssumption DEF Addr
    <3> QED BY <3>1, <3>4 DEF StoredBytesIntact
  <2> QED BY <2>1, <2>2
<1> QED BY <1>1, <1>6, <1>7, <1>8, <1>9

\* The top call, and the addresses of its activation.
LEMMA TopFacts ==
    ASSUME RunInv, status = "placed", ctl # <<>>
    PROVE  /\ ctl \in Seq(Call) /\ Len(ctl) \in DOMAIN ctl /\ Top \in Call
           /\ Top = ctl[Len(ctl)] /\ Top.fn \in Function
           /\ base[Top.fn] \in Nat /\ End(Top.fn) = base[Top.fn] + prog.size[Top.fn]
           /\ End(Top.fn) <= RegionSize
           /\ prog.params[Top.fn] \in Nat /\ prog.size[Top.fn] \in Nat
           /\ prog.params[Top.fn] <= prog.size[Top.fn]
           /\ mem \in [Addr -> Nat]
           /\ Top.next \in Nat \ {0} /\ Top.serial \in Nat
           /\ \A a \in Needed(Top) : a \in Addr /\ mem[a] = Top.serial
<1> USE DEF RunInv
<1>1. ctl \in Seq(Call) /\ mem \in [Addr -> Nat] BY DEF RunTypeOK
<1>2. Len(ctl) \in DOMAIN ctl BY <1>1
<1>3. /\ Top \in Call /\ Top.fn \in Function
      /\ Top.next \in Nat \ {0} /\ Top.serial \in Nat
  BY <1>1, <1>2, CallType DEF Top
<1>4. \A a \in Needed(Top) : a \in Addr /\ mem[a] = Top.serial
  BY <1>2, <1>3, NeededInActivation DEF StoredBytesIntact, Top
<1> QED BY <1>1, <1>2, <1>3, <1>4, PlacedFacts DEF Top, End

\* The parameters and the locals of the top call lie in its activation.
LEMMA TopAddresses ==
    ASSUME RunInv, status = "placed", ctl # <<>>
    PROVE  /\ \A p \in Arguments(Top.fn) :
                 /\ ParamByte(Top.fn, p) \in Addr
                 /\ base[Top.fn] <= ParamByte(Top.fn, p)
           /\ \A a \in LocalBytes(Top.fn) : a \in Addr /\ base[Top.fn] <= a
<1> DEFINE b == base[Top.fn]
           n == prog.params[Top.fn]
           z == prog.size[Top.fn]
<1>1. b \in Nat /\ n \in Nat /\ z \in Nat /\ n <= z /\ b + z <= RegionSize
  BY TopFacts
<1> HIDE DEF b, n, z
<1>2. \A p \in 1..n : b + p - 1 \in 0..(RegionSize - 1) /\ b <= b + p - 1
  BY <1>1, RegionAssumption
<1>3. \A k \in n..(z - 1) : b + k \in 0..(RegionSize - 1) /\ b <= b + k
  BY <1>1, RegionAssumption
<1> QED BY <1>2, <1>3 DEF b, n, z, ParamByte, Arguments, LocalBytes, Addr

\* Storing one argument.
LEMMA StoreArgumentKeepsRunInv ==
    ASSUME RunInv, StoreArgument
    PROVE  RunInv'
<1> DEFINE c == [Top EXCEPT !.next = @ + 1]
           x == ParamByte(Top.fn, Top.next)
<1>1. /\ status = "placed" /\ ctl # <<>> /\ UNCHANGED <<layoutVars, serial>>
      /\ Top.phase = "args" /\ Top.next \in Arguments(Top.fn)
  BY DEF StoreArgument
<1>2. c \in Call /\ c.fn = Top.fn /\ c.phase = "args" /\ c.serial = Top.serial
      /\ c.worked = Top.worked /\ c.inl = Top.inl /\ c.mayCall = Top.mayCall
      /\ c.next = Top.next + 1
  <2>1. Top.next + 1 \in Nat \ {0} /\ Top \in Call BY <1>1, TopFacts
  <2>2. Top = [fn |-> Top.fn, inl |-> Top.inl, phase |-> Top.phase, next |-> Top.next,
               mayCall |-> Top.mayCall, serial |-> Top.serial, worked |-> Top.worked]
    BY <2>1 DEF Call
  <2>3. c = [fn |-> Top.fn, inl |-> Top.inl, phase |-> Top.phase, next |-> Top.next + 1,
             mayCall |-> Top.mayCall, serial |-> Top.serial, worked |-> Top.worked]
    BY <2>2
  <2> QED BY <1>1, <2>1, <2>3 DEF Call
<1>3. ctl' = [ctl EXCEPT ![Len(ctl)] = c]
  BY TopFacts DEF StoreArgument, Top
<1>4. ~c.worked BY <1>1, <1>2, TopFacts DEF RunInv, ArgsInv
<1>5. x \in Addr /\ base[Top.fn] <= x
  BY <1>1, TopAddresses
<1>6. mem' = IF MustStage(Top, Top.next) THEN mem ELSE [mem EXCEPT ![x] = Top.serial]
  BY DEF StoreArgument
<1>7. mem' \in [Addr -> Nat] BY <1>1, <1>5, <1>6, TopFacts
<1>8. \A a \in Addr : mem'[a] # mem[a] => base[c.fn] <= a
  BY <1>1, <1>2, <1>5, <1>6, TopFacts
<1>9. ASSUME NEW a \in Needed(c) PROVE mem'[a] = c.serial
  <2>1. PICK p \in Arguments(Top.fn) : a = ParamByte(Top.fn, p) /\ Delivered(c, p)
    BY <1>2, <1>9 DEF Needed
  <2>2. p \in Nat /\ p < Top.next + 1 /\ ~MustStage(c, p)
    BY <1>1, <1>2, <2>1, TopFacts DEF Delivered, Arguments
  <2>3. MustStage(c, p) = MustStage(Top, p) BY <1>2 DEF MustStage
  <2>4. CASE p = Top.next BY <1>1, <1>2, <1>5, <1>6, <2>1, <2>2, <2>3, <2>4, TopFacts
  <2>5. CASE p # Top.next
    <3>1. Delivered(Top, p)
      BY <1>1, <2>2, <2>3, <2>5, TopFacts DEF Delivered
    <3>2. a \in Needed(Top) BY <2>1, <3>1 DEF Needed
    <3>3. a # x BY <1>1, <2>1, <2>2, <2>5, TopFacts DEF ParamByte
    <3> QED BY <1>1, <1>2, <1>6, <3>2, <3>3, TopFacts
  <2> QED BY <2>4, <2>5
<1> HIDE DEF c, x
<1> QED BY <1>1, <1>2, <1>3, <1>4, <1>7, <1>8, <1>9, TopStepKeepsRunInv

\* Copying the staged arguments and entering the body.
LEMMA EnterBodyKeepsRunInv ==
    ASSUME RunInv, EnterBody
    PROVE  RunInv'
<1> DEFINE c == [Top EXCEPT !.phase = "body"]
           W == {ParamByte(Top.fn, p) : p \in {q \in Arguments(Top.fn) : MustStage(Top, q)}}
<1>1. /\ status = "placed" /\ ctl # <<>> /\ UNCHANGED <<layoutVars, serial>>
      /\ Top.phase = "args" /\ Top.next \notin Arguments(Top.fn)
  BY DEF EnterBody
<1>2. c \in Call /\ c.fn = Top.fn /\ c.phase = "body" /\ c.serial = Top.serial
      /\ c.worked = Top.worked
  BY <1>1, TopFacts DEF Call
<1>3. ctl' = [ctl EXCEPT ![Len(ctl)] = c]
  BY TopFacts DEF EnterBody, Top
<1>4. ~c.worked BY <1>1, <1>2, TopFacts DEF RunInv, ArgsInv
<1>5. mem' = [a \in Addr |-> IF a \in W THEN Top.serial ELSE mem[a]]
  BY DEF EnterBody
<1>6. mem' \in [Addr -> Nat] BY <1>1, <1>5, TopFacts
<1>7. \A a \in W : base[Top.fn] <= a /\ a \in Addr
  BY <1>1, TopAddresses
<1>8. ASSUME NEW a \in Needed(c) PROVE mem'[a] = c.serial
  <2>1. PICK p \in Arguments(Top.fn) : a = ParamByte(Top.fn, p)
    BY <1>2, <1>4, <1>8 DEF Needed
  <2>2. CASE MustStage(Top, p)
    <3>1. a \in W BY <2>1, <2>2
    <3> QED BY <1>2, <1>5, <1>7, <3>1
  <2>3. CASE ~MustStage(Top, p)
    <3>1. p < Top.next BY <1>1, <2>1, TopFacts DEF Arguments
    <3>2. a \in Needed(Top) BY <2>1, <2>3, <3>1 DEF Needed, Delivered
    <3> QED BY <1>1, <1>2, <1>5, <3>2, TopFacts
  <2> QED BY <2>2, <2>3
<1> HIDE DEF c, W
<1>9. \A a \in Addr : mem'[a] # mem[a] => base[c.fn] <= a
  BY <1>2, <1>5, <1>7
<1> QED BY <1>1, <1>2, <1>3, <1>4, <1>6, <1>8, <1>9, TopStepKeepsRunInv

\* A body stores into its own locals.
LEMMA WorkKeepsRunInv ==
    ASSUME RunInv, Work
    PROVE  RunInv'
<1> DEFINE c == [Top EXCEPT !.worked = TRUE]
<1>1. /\ status = "placed" /\ ctl # <<>> /\ UNCHANGED <<layoutVars, serial>>
      /\ Top.phase = "body"
  BY DEF Work
<1>2. c \in Call /\ c.fn = Top.fn /\ c.phase = "body" /\ c.serial = Top.serial
  BY <1>1, TopFacts DEF Call
<1>3. ctl' = [ctl EXCEPT ![Len(ctl)] = c]
  BY TopFacts DEF Work, Top
<1>4. mem' = [a \in Addr |-> IF a \in LocalBytes(Top.fn) THEN Top.serial ELSE mem[a]]
  BY DEF Work
<1>5. mem' \in [Addr -> Nat] BY <1>1, <1>4, TopFacts
<1>6. \A a \in LocalBytes(Top.fn) : base[Top.fn] <= a /\ a \in Addr
  BY <1>1, TopAddresses
<1>7. ASSUME NEW a \in Needed(c) PROVE mem'[a] = c.serial
  <2>1. CASE a \in LocalBytes(Top.fn) BY <1>2, <1>4, <1>6, <2>1
  <2>2. CASE a \notin LocalBytes(Top.fn)
    <3>1. PICK p \in Arguments(Top.fn) : a = ParamByte(Top.fn, p)
      BY <1>2, <1>7, <2>2 DEF Needed
    <3>2. a \in Needed(Top) BY <1>1, <3>1 DEF Needed, Delivered
    <3> QED BY <1>1, <1>2, <1>4, <2>2, <3>2, TopFacts
  <2> QED BY <2>1, <2>2
<1> HIDE DEF c
<1>8. \A a \in Addr : mem'[a] # mem[a] => base[c.fn] <= a
  BY <1>2, <1>4, <1>6
<1> QED BY <1>1, <1>2, <1>3, <1>5, <1>7, <1>8, TopStepKeepsRunInv

\* The top call returns.
LEMMA ReturnKeepsRunInv ==
    ASSUME RunInv, Return
    PROVE  RunInv'
<1> USE DEF RunInv
<1>1. /\ status = "placed" /\ ctl # <<>> /\ UNCHANGED <<layoutVars, mem, serial>>
      /\ ctl' = SubSeq(ctl, 1, Len(ctl) - 1)
  BY DEF Return
<1>2. LayoutInv' /\ PlacedFits' /\ LayoutTypeOK' BY <1>1, RunKeepsLayout
<1>3. UNCHANGED <<base, prog, status>> BY <1>1 DEF layoutVars
<1>4. ctl \in Seq(Call) /\ serial \in Nat /\ mem \in [Addr -> Nat] BY DEF RunTypeOK
<1>5. /\ Len(ctl) \in Nat \ {0} /\ DOMAIN ctl = 1..Len(ctl)
      /\ ctl' \in Seq(Call) /\ Len(ctl') = Len(ctl) - 1
      /\ DOMAIN ctl' = 1..(Len(ctl) - 1)
      /\ \A i \in DOMAIN ctl' : ctl'[i] = ctl[i] /\ i \in DOMAIN ctl
  <2>1. Len(ctl) \in Nat \ {0} /\ DOMAIN ctl = 1..Len(ctl) BY <1>1, <1>4
  <2>2. \A i \in 1..(Len(ctl) - 1) : i \in 1..Len(ctl) /\ ctl[i] \in Call
    BY <2>1, <1>4
  <2>3. /\ ctl' \in Seq(Call) /\ Len(ctl') = Len(ctl) - 1
        /\ \A i \in 1..(Len(ctl) - 1) : ctl'[i] = ctl[i]
    BY <1>1, <1>4, <2>1, <2>2, SubSeqProperties
  <2> QED BY <2>1, <2>2, <2>3
<1>6. RunTypeOK'
  <2>1. \A i \in DOMAIN ctl' : End(ctl'[i].fn) <= RegionSize
    BY <1>1, <1>5, CallType, PlacedFacts
  <2> QED BY <1>1, <1>2, <1>3, <1>4, <1>5, <2>1 DEF RunTypeOK, End
<1>7. ClearInv'
  <2> SUFFICES ASSUME NEW i \in DOMAIN ctl', NEW j \in DOMAIN ctl',
                      i < j, Live(ctl'[i])
               PROVE  End(ctl'[i].fn) <= base[ctl'[j].fn]
    BY <1>3 DEF ClearInv, Live, End
  <2> QED BY <1>5 DEF ClearInv
<1>8. ArgsInv' BY <1>5 DEF ArgsInv
<1>9. StoredBytesIntact'
  <2> SUFFICES ASSUME NEW i \in DOMAIN ctl', NEW a \in Needed(ctl'[i])
               PROVE  mem[a] = ctl'[i].serial
    BY <1>1, NeededUnchanged DEF StoredBytesIntact
  <2> QED BY <1>5 DEF StoredBytesIntact
<1> QED BY <1>2, <1>6, <1>7, <1>8, <1>9

\* Startup enters a function without parameters.
LEMMA EnterRootKeepsRunInv ==
    ASSUME RunInv, NEW f \in Function, EnterRoot(f)
    PROVE  RunInv'
<1> USE DEF RunInv
<1> DEFINE c == NewCall(f, FALSE, "body", {})
<1>1. /\ status = "placed" /\ UNCHANGED <<layoutVars, mem>>
      /\ ctl' = <<c>> /\ serial' = serial + 1 /\ prog.params[f] = 0
  BY DEF EnterRoot
<1>2. LayoutInv' /\ PlacedFits' /\ LayoutTypeOK' BY <1>1, RunKeepsLayout
<1>3. UNCHANGED <<base, prog, status>> BY <1>1 DEF layoutVars
<1>4. serial \in Nat /\ mem \in [Addr -> Nat] BY DEF RunTypeOK
<1>5. c \in Call /\ c.fn = f /\ c.phase = "body" /\ ~c.worked
  BY <1>4 DEF NewCall, Call
<1> HIDE DEF c
<1>6. ctl' \in Seq(Call) /\ Len(ctl') = 1 /\ DOMAIN ctl' = {1} /\ ctl'[1] = c
  BY <1>1, <1>5
<1>7. RunTypeOK'
  <2>1. End(f) <= RegionSize BY <1>1, PlacedFacts
  <2> QED BY <1>1, <1>2, <1>3, <1>4, <1>5, <1>6, <2>1 DEF RunTypeOK, End
<1>8. ClearInv' /\ ArgsInv' BY <1>5, <1>6 DEF ClearInv, ArgsInv
<1>9. StoredBytesIntact'
  <2>1. Needed(c) = {} BY <1>1, <1>5 DEF Needed, Arguments
  <2> QED BY <1>1, <1>6, <2>1, NeededUnchanged DEF StoredBytesIntact
<1> QED BY <1>2, <1>7, <1>8, <1>9

-----------------------------------------------------------------------------
LEMMA RunInvInit == Init => RunInv
<1> SUFFICES ASSUME Init PROVE RunInv OBVIOUS
<1>1. LayoutInv BY LayoutInvInit DEF Init
<1>2. status = "enforce" /\ ctl = <<>> /\ serial = 0 /\ mem = [a \in Addr |-> 0]
  BY DEF Init, LayoutInit, RunInit
<1>3. RunTypeOK BY <1>1, <1>2 DEF RunTypeOK, LayoutInv
<1>4. PlacedFits /\ ClearInv /\ ArgsInv /\ StoredBytesIntact
  BY <1>2 DEF PlacedFits, ClearInv, ArgsInv, StoredBytesIntact
<1> QED BY <1>1, <1>3, <1>4 DEF RunInv

LEMMA RunInvStep == RunInv /\ [Next]_vars => RunInv'
<1> SUFFICES ASSUME RunInv, [Next]_vars PROVE RunInv' OBVIOUS
<1>1. CASE Link BY <1>1, LayoutKeepsRunInv DEF Link
<1>2. ASSUME NEW f \in Function, EnterRoot(f) PROVE RunInv'
  BY <1>2, EnterRootKeepsRunInv
<1>3. ASSUME NEW s \in prog.site, NEW calls \in SUBSET Arguments(s.callee),
             BeginCall(s, calls)
      PROVE  RunInv'
  BY <1>3, BeginCallKeepsRunInv
<1>4. CASE StoreArgument BY <1>4, StoreArgumentKeepsRunInv
<1>5. CASE EnterBody BY <1>5, EnterBodyKeepsRunInv
<1>6. CASE Work BY <1>6, WorkKeepsRunInv
<1>7. CASE Return BY <1>7, ReturnKeepsRunInv
<1>8. CASE UNCHANGED vars
  <2>1. UNCHANGED <<layoutVars, ctl, mem, serial, base, prog, status>>
    BY <1>8 DEF vars, runVars, layoutVars
  <2>2. LayoutInv' /\ PlacedFits' /\ LayoutTypeOK' BY <2>1, RunKeepsLayout
  <2>3. RunTypeOK' BY <2>1, <2>2 DEF RunInv, RunTypeOK, End
  <2>4. ClearInv' /\ ArgsInv' BY <2>1 DEF RunInv, ClearInv, ArgsInv, Live, End
  <2>5. StoredBytesIntact'
    BY <2>1, NeededUnchanged DEF RunInv, StoredBytesIntact
  <2> QED BY <2>2, <2>3, <2>4, <2>5 DEF RunInv
<1> QED BY <1>1, <1>2, <1>3, <1>4, <1>5, <1>6, <1>7, <1>8 DEF Next, RunNext

LEMMA RunInvariant == Spec => []RunInv
BY RunInvInit, RunInvStep, PTL DEF Spec

\* Type correctness; code runs only in a placed layout, inside the region.
THEOREM RunTypeCorrect == Spec => []RunTypeOK
<1>1. RunInv => RunTypeOK BY DEF RunInv
<1> QED BY <1>1, RunInvariant, PTL

\* No two live activations overlap (the weighted relaxation of the linker over
\* the edges the compiler recorded).
THEOREM LiveActivationsDisjointHolds == Spec => []LiveActivationsDisjoint
<1>1. RunInv => LiveActivationsDisjoint
  BY DEF RunInv, ClearInv, LiveActivationsDisjoint
<1> QED BY <1>1, RunInvariant, PTL

\* Parameters, delivered arguments and locals survive everything that runs before
\* their call is over (argument staging in compile_direct_symbol_call).
THEOREM StoredBytesIntactHolds == Spec => []StoredBytesIntact
<1>1. RunInv => StoredBytesIntact BY DEF RunInv
<1> QED BY <1>1, RunInvariant, PTL

\* Accepted programs never re-enter a function that owns bytes while it is live:
\* enforce_symbol_backed_call_graph and the overlay refuse all that could.
THEOREM NoReentryHolds == Spec => []NoReentry
<1>1. ASSUME RunInv PROVE NoReentry
  <2> SUFFICES ASSUME NEW i \in DOMAIN ctl, NEW j \in DOMAIN ctl, i # j,
                      ctl[i].fn = ctl[j].fn, prog.size[ctl[i].fn] > 0,
                      Live(ctl[i]), Live(ctl[j])
               PROVE  FALSE
    BY DEF NoReentry
  <2>1. ctl \in Seq(Call) /\ i \in Nat /\ j \in Nat /\ ctl[i].fn \in Function
    BY <1>1, CallType DEF RunInv, RunTypeOK
  <2>2. End(ctl[i].fn) <= base[ctl[i].fn]
    BY <1>1, <2>1 DEF RunInv, ClearInv
  <2>3. base[ctl[i].fn] \in Nat /\ prog.size[ctl[i].fn] \in Nat
    BY <1>1, <2>1, EdgesType DEF RunInv, LayoutInv, LayoutTypeOK
  <2> QED BY <2>2, <2>3 DEF End
<1> QED BY <1>1, RunInvariant, PTL
-----------------------------------------------------------------------------
(* Recursion is reported before the overlay is laid out. *)

\* The physical function that holds the code of o: an expanded function has its
\* code where its only call site is, every other function holds its own.
Holds(p, o, r) ==
    \/ \E s \in p.site : s.inl /\ s.callee = o /\ s.phys = r
    \/ r = o /\ \A s \in p.site : s.inl => s.callee # o

\* Exactly one function holds it.
LEMMA HoldsOnce ==
    ASSUME NEW p \in Program, OnlySite(p), NEW o \in Function
    PROVE  /\ \E r \in Function : Holds(p, o, r)
           /\ \A r1, r2 : Holds(p, o, r1) /\ Holds(p, o, r2) => r1 = r2
<1>1. p.site \in SUBSET Site BY ProgramAssumption DEF ProgramType
<1>2. \E r \in Function : Holds(p, o, r)
  <2>1. CASE \E s \in p.site : s.inl /\ s.callee = o
    <3>1. PICK s \in p.site : s.inl /\ s.callee = o BY <2>1
    <3>2. s.phys \in Function BY <1>1 DEF Site
    <3> QED BY <3>1, <3>2 DEF Holds
  <2>2. CASE \A s \in p.site : s.inl => s.callee # o BY <2>2 DEF Holds
  <2> QED BY <2>1, <2>2
<1>3. ASSUME NEW r1, NEW r2, Holds(p, o, r1), Holds(p, o, r2) PROVE r1 = r2
  <2>1. CASE \E s \in p.site : s.inl /\ s.callee = o
    <3>1. PICK s \in p.site : s.inl /\ s.callee = o /\ s.phys = r1
      BY <1>3, <2>1 DEF Holds
    <3>2. PICK t \in p.site : t.inl /\ t.callee = o /\ t.phys = r2
      BY <1>3, <2>1 DEF Holds
    <3>3. s = t BY <3>1, <3>2 DEF OnlySite
    <3> QED BY <3>1, <3>2, <3>3
  <2>2. CASE \A s \in p.site : s.inl => s.callee # o BY <1>3, <2>2 DEF Holds
  <2> QED BY <2>1, <2>2
<1> QED BY <1>2, <1>3

\* The owner and the physical function of a call site are held by the latter,
\* and so is a callee that is expanded there; a callee that is called by JSR
\* holds its own code.
LEMMA SiteHolds ==
    ASSUME NEW p \in Program, OnlySite(p), OwnerIsExpanded(p), NEW t \in p.site
    PROVE  /\ Holds(p, t.owner, t.phys)
           /\ Holds(p, t.phys, t.phys)
           /\ t.inl => Holds(p, t.callee, t.phys)
           /\ ~t.inl => Holds(p, t.callee, t.callee)
<1>1. Holds(p, t.phys, t.phys) BY DEF OnlySite, Holds
<1>2. Holds(p, t.owner, t.phys)
  <2>1. CASE t.owner = t.phys BY <1>1, <2>1
  <2>2. CASE t.owner # t.phys BY <2>2 DEF OwnerIsExpanded, Holds
  <2> QED BY <2>1, <2>2
<1>3. ASSUME t.inl PROVE Holds(p, t.callee, t.phys) BY <1>3 DEF Holds
<1>4. ASSUME ~t.inl PROVE Holds(p, t.callee, t.callee)
  <2>1. \A s \in p.site : s.inl => s.callee # t.callee BY <1>4 DEF OnlySite
  <2> QED BY <2>1 DEF Holds
<1> QED BY <1>1, <1>2, <1>3, <1>4

\* An overlay edge is an expansion, which stays within one physical function, or
\* a call from the physical function of its start to its end.
LEMMA EdgeHolds ==
    ASSUME NEW p \in Program, OnlySite(p), OwnerIsExpanded(p),
           NEW h \in Function, NEW k \in Function, <<h, k>> \in OverlayEdges(p),
           NEW r \in Function, Holds(p, h, r)
    PROVE  \/ <<h, k>> \in Inlined(p) /\ Holds(p, k, r)
           \/ <<r, k>> \in CallEdges(p) /\ Holds(p, k, k)
<1>1. PICK t \in p.site : k = t.callee /\ (h = t.owner \/ (~t.inl /\ h = t.phys))
  BY DEF OverlayEdges, CallEdges, LifetimeEdges
<1>2. t.inl \in BOOLEAN BY ProgramAssumption DEF ProgramType, Site
<1>3. Holds(p, h, t.phys) BY <1>1, SiteHolds
<1>4. r = t.phys BY <1>3, HoldsOnce
<1>5. CASE t.inl
  <2>1. <<h, k>> \in Inlined(p) BY <1>1, <1>5 DEF Inlined
  <2> QED BY <1>1, <1>4, <1>5, <2>1, SiteHolds
<1>6. CASE ~t.inl
  <2>1. <<r, k>> \in CallEdges(p) BY <1>1, <1>4, <1>6 DEF CallEdges
  <2> QED BY <1>1, <1>6, <2>1, SiteHolds
<1> QED BY <1>2, <1>5, <1>6

\* Reachability: one edge, and one edge more.
LEMMA ReachesOne ==
    ASSUME NEW E, NEW f \in Function, NEW g \in Function, <<f, g>> \in E
    PROVE  Reaches(E, f, g)
BY DEF Reaches

LEMMA ReachesMore ==
    ASSUME NEW E, NEW f \in Function, NEW g \in Function, NEW h \in Function,
           Reaches(E, f, g), <<g, h>> \in E
    PROVE  Reaches(E, f, h)
BY DEF Reaches

\* In what the compiler writes, a cycle of the overlay is a cycle of expansions
\* or, seen from the physical functions, a cycle of calls.
LEMMA OverlayCycleIsRecursion ==
    ASSUME NEW p \in Program, OnlySite(p), OwnerIsExpanded(p),
           NEW f \in Function, Reaches(OverlayEdges(p), f, f)
    PROVE  Recursive(Inlined(p)) \/ Recursive(CallEdges(p))
<1>1. PICK r \in Function : Holds(p, f, r) BY HoldsOnce
<1> DEFINE Within(k) == Reaches(Inlined(p), f, k) /\ Holds(p, k, r)
           Called(k) == \E q \in Function : Holds(p, k, q) /\ Reaches(CallEdges(p), r, q)
           S == {k \in Function : Within(k) \/ Called(k)}
<1>2. ASSUME NEW h \in Function, <<f, h>> \in OverlayEdges(p) PROVE h \in S
  <2>1. CASE <<f, h>> \in Inlined(p) /\ Holds(p, h, r) BY <2>1, ReachesOne
  <2>2. CASE <<r, h>> \in CallEdges(p) /\ Holds(p, h, h) BY <2>2, ReachesOne
  <2> QED BY <1>1, <1>2, <2>1, <2>2, EdgeHolds
<1>3. ASSUME NEW h \in Function, NEW k \in Function, h \in S, <<h, k>> \in OverlayEdges(p)
      PROVE  k \in S
  <2>1. CASE Within(h)
    <3>1. CASE <<h, k>> \in Inlined(p) /\ Holds(p, k, r) BY <2>1, <3>1, ReachesMore
    <3>2. CASE <<r, k>> \in CallEdges(p) /\ Holds(p, k, k) BY <3>2, ReachesOne
    <3> QED BY <1>3, <2>1, <3>1, <3>2, EdgeHolds
  <2>2. CASE Called(h)
    <3>1. PICK q \in Function : Holds(p, h, q) /\ Reaches(CallEdges(p), r, q) BY <2>2
    <3>2. CASE <<h, k>> \in Inlined(p) /\ Holds(p, k, q) BY <3>1, <3>2
    <3>3. CASE <<q, k>> \in CallEdges(p) /\ Holds(p, k, k) BY <3>1, <3>3, ReachesMore
    <3> QED BY <1>3, <3>1, <3>2, <3>3, EdgeHolds
  <2> QED BY <1>3, <2>1, <2>2
<1>4. S \in SUBSET Function OBVIOUS
<1>5. f \in S
  <2> HIDE DEF S
  <2> QED BY <1>2, <1>3, <1>4 DEF Reaches
<1>6. CASE Within(f) BY <1>6 DEF Recursive
<1>7. CASE Called(f)
  <2>1. PICK q \in Function : Holds(p, f, q) /\ Reaches(CallEdges(p), r, q) BY <1>7
  <2>2. q = r BY <1>1, <2>1, HoldsOnce
  <2> QED BY <2>1, <2>2 DEF Recursive
<1> QED BY <1>5, <1>6, <1>7

\* The relaxation runs only on a graph of calls without recursion.
EnforcedInv ==
    status \in {"relax", "cycle"} => ~Recursive(CallEdges(prog))

LEMMA EnforcedStep ==
    ASSUME EnforcedInv, [LayoutNext]_layoutVars
    PROVE  EnforcedInv'
<1>1. CASE Enforce BY <1>1 DEF Enforce, EnforcedInv
<1>2. ASSUME NEW e \in Function \X Function, Relax(e) PROVE EnforcedInv'
  BY <1>2 DEF Relax, EnforcedInv
<1>3. CASE EndPass BY <1>3 DEF EndPass, EnforcedInv
<1>4. CASE Place BY <1>4 DEF Place, EnforcedInv
<1>5. CASE UNCHANGED layoutVars BY <1>5 DEF layoutVars, EnforcedInv
<1> QED BY <1>1, <1>2, <1>3, <1>4, <1>5 DEF LayoutNext

LEMMA EnforcedReports ==
    ASSUME LayoutTypeOK, EnforcedInv, CycleMeansCycle
    PROVE  RecursionIsReported
<1> SUFFICES ASSUME Compilable(prog), status = "cycle" PROVE FALSE
  BY DEF RecursionIsReported
<1>1. PICK f \in Function : Reaches(OverlayEdges(prog), f, f) BY DEF CycleMeansCycle
<1>2. prog \in Program BY DEF LayoutTypeOK
<1>3. Recursive(Inlined(prog)) \/ Recursive(CallEdges(prog))
  BY <1>1, <1>2, OverlayCycleIsRecursion DEF Compilable
<1> QED BY <1>3 DEF Compilable, EnforcedInv

\* Whatever the program does, the layout moves by the linker's steps alone.
LEMMA LinkSteps ==
    ASSUME [Next]_vars
    PROVE  [LayoutNext]_layoutVars
BY DEF Next, Link, RunNext, EnterRoot, BeginCall, StoreArgument, EnterBody, Work,
       Return, vars

\* For objects that the compiler wrote, recursion is always reported by
\* enforce_symbol_backed_call_graph: the overlay-cycle refusal is never met.
THEOREM RecursionIsReportedHolds == Spec => []RecursionIsReported
<1>1. Init => CycleInv /\ EnforcedInv
  BY CycleInvInit DEF Init, LayoutInit, EnforcedInv
<1>2. CycleInv /\ EnforcedInv /\ [Next]_vars => CycleInv' /\ EnforcedInv'
  BY LinkSteps, CycleInvStep, EnforcedStep
<1>3. CycleInv /\ EnforcedInv => RecursionIsReported
  BY EnforcedReports DEF CycleInv
<1> QED BY <1>1, <1>2, <1>3, PTL DEF Spec
=============================================================================
