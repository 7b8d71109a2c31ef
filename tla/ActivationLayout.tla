-------------------------- MODULE ActivationLayout --------------------------
(***************************************************************************)
(* Link-time half of the static activation overlay.                        *)
(*                                                                         *)
(* VCSC has no software stack.  Every function owns one block of RAM (its  *)
(* activation: parameters, locals, return object, scratch) and the linker  *)
(* overlays the blocks of functions that are never live together.          *)
(*                                                                         *)
(* The compiler records who may be live below whom: record_call_graph_edge *)
(* for a JSR, record_activation_lifetime_edge for code that an optimizer-  *)
(* selected inline expansion moved into another function.  vcsc-ld first   *)
(* refuses a recursive call graph (enforce_symbol_backed_call_graph) and   *)
(* then relaxes the start of every activation along the union of the two   *)
(* relations until nothing changes (layout_activation_segments).           *)
(*                                                                         *)
(* One MEMORY region is modelled: the code treats the regions one by one,  *)
(* with the same graph.  The order in which the linker meets the edges     *)
(* (object order, export order) is left open.                              *)
(***************************************************************************)
EXTENDS Integers, FiniteSets, CallGraph

\* Function (declared in CallGraph): the compiled functions.
CONSTANTS
    Program,     \* the programs that may be linked
    RegionSize   \* bytes the region can give to the activation block

(***************************************************************************)
(* A call site, as compile_direct_symbol_call and                          *)
(* compile_expanded_symbol_call see it.  phys is the function whose code   *)
(* holds the call (current_call_graph_function), owner the function whose  *)
(* activation is current there (current_activation_graph_function), which  *)
(* differs inside an optimizer inline expansion; inl tells a call that is  *)
(* itself expanded in place from one that is a JSR.                        *)
(***************************************************************************)
Site == [phys : Function, owner : Function, callee : Function, inl : BOOLEAN]

(***************************************************************************)
(* site: the calls the program contains; size: activation bytes of each    *)
(* function in this region; params: how many of those bytes, from the      *)
(* first, are parameters (one byte each).                                  *)
(***************************************************************************)
ProgramType == [site : SUBSET Site, size : [Function -> Nat],
                params : [Function -> Nat], root : SUBSET Function]

ASSUME FunctionAssumption == IsFiniteSet(Function) /\ Function # {}
ASSUME RegionAssumption == RegionSize \in Nat
ASSUME ProgramAssumption ==
    \A p \in Program : /\ p \in ProgramType
                       /\ \A f \in Function : p.params[f] <= p.size[f]

-----------------------------------------------------------------------------
(* What the compiler records and the linker collects. *)

CallEdgesUnderOwner(p) ==
    {<<s.owner, s.callee>> : s \in {t \in p.site : ~t.inl}}

\* Call edges: one per JSR, from the function that physically holds it.
CallEdges(p) == {<<s.phys, s.callee>> : s \in {t \in p.site : ~t.inl}}

LifetimeEdgesOfExpansions(p) ==
    {<<s.owner, s.callee>> : s \in {t \in p.site : t.inl}}

\* Lifetime-only edges: an expansion lives below the activation it is expanded
\* in, and a JSR made inside an expansion runs above that expansion.
LifetimeEdges(p) ==
    {<<s.owner, s.callee>> : s \in {t \in p.site : t.inl \/ t.owner # t.phys}}

OverlayEdges(p) == CallEdges(p) \cup LifetimeEdges(p)


-----------------------------------------------------------------------------
VARIABLES
    prog,      \* the program being linked
    status,    \* "enforce", "relax", "settled", "placed" or a refusal
    base,      \* start of each activation inside the block
    todo,      \* edges this pass has still to look at
    pass,      \* passes completed
    changed    \* some base moved in this pass

layoutVars == <<prog, status, base, todo, pass, changed>>

Refusals == {"recursive", "cycle", "overflow"}
Status == {"enforce", "relax", "settled", "placed"} \cup Refusals

NodeCount == Cardinality(Function)
End(f) == base[f] + prog.size[f]

LayoutInit ==
    /\ prog \in Program
    /\ status = "enforce"
    /\ base = [f \in Function |-> 0]
    /\ todo = {}
    /\ pass = 0
    /\ changed = FALSE

\* enforce_symbol_backed_call_graph: a cycle of calls is refused.  Lifetime
\* edges are not part of this graph.  Every compiled function carries the
\* metadata that marks it as having static storage.
Enforce ==
    /\ status = "enforce"
    /\ IF Recursive(CallEdges(prog))
       THEN status' = "recursive" /\ UNCHANGED todo
       ELSE status' = "relax" /\ todo' = OverlayEdges(prog)
    /\ UNCHANGED <<prog, base, pass, changed>>

\* Mutants of Candidate: the callee starts with its caller; one byte of padding.
CandidateAtStart(e) == base[e[1]]
CandidatePadded(e) == base[e[1]] + prog.size[e[1]] + 1

\* A callee begins after its caller's live bytes.
Candidate(e) == End(e[1])

\* Mutant of Relax: an edge that needs no change is never marked as done.
RelaxStuck(e) ==
    /\ status = "relax"
    /\ e \in todo
    /\ Candidate(e) > base[e[2]]
    /\ todo' = todo \ {e}
    /\ base' = [base EXCEPT ![e[2]] = Candidate(e)]
    /\ changed' = TRUE
    /\ UNCHANGED <<prog, status, pass>>

\* One edge of one pass.
Relax(e) ==
    /\ status = "relax"
    /\ e \in todo
    /\ todo' = todo \ {e}
    /\ IF Candidate(e) > base[e[2]]
       THEN base' = [base EXCEPT ![e[2]] = Candidate(e)] /\ changed' = TRUE
       ELSE UNCHANGED <<base, changed>>
    /\ UNCHANGED <<prog, status, pass>>

\* Mutant of MorePasses: one pass short.
MorePassesOneShort == pass + 2 < NodeCount

\* for (pass = 0; pass < node_count; ++pass)
MorePasses == pass + 1 < NodeCount

\* Mutant of Converged: the check after the last pass is missing.
ConvergedUnchecked == ~changed \/ ~MorePasses

Converged == ~changed

\* End of a pass: stop when nothing moved, refuse when the last of node_count
\* passes still moved something.
EndPass ==
    /\ status = "relax"
    /\ todo = {}
    /\ IF Converged
       THEN status' = "settled" /\ UNCHANGED <<todo, pass, changed>>
       ELSE IF MorePasses
            THEN /\ pass' = pass + 1
                 /\ todo' = OverlayEdges(prog)
                 /\ changed' = FALSE
                 /\ UNCHANGED status
            ELSE status' = "cycle" /\ UNCHANGED <<todo, pass, changed>>
    /\ UNCHANGED <<prog, base>>

\* The block must fit: the 64 KiB check on the extent of the block and the
\* region allocator both refuse it otherwise.
Fits == \A f \in Function : End(f) <= RegionSize

Place ==
    /\ status = "settled"
    /\ status' = IF Fits THEN "placed" ELSE "overflow"
    /\ UNCHANGED <<prog, base, todo, pass, changed>>

LayoutNext ==
    \/ Enforce
    \/ \E e \in Function \X Function : Relax(e)
    \/ EndPass
    \/ Place

\* The linker is one sequential program: it keeps taking its next step.
LayoutSpec == LayoutInit /\ [][LayoutNext]_layoutVars /\ WF_layoutVars(LayoutNext)

-----------------------------------------------------------------------------
\* Types, and the bound of the pass loop: it never runs a pass after the last.
LayoutTypeOK ==
    /\ prog \in Program
    /\ status \in Status
    /\ base \in [Function -> Nat]
    /\ todo \in SUBSET (Function \X Function)
    /\ pass \in 0..(NodeCount - 1)
    /\ changed \in BOOLEAN

\* A settled layout keeps every callee clear of every function that can be live
\* below it along one edge (the purpose of the weighted relaxation).
Fixpoint == \A e \in OverlayEdges(prog) : End(e[1]) <= base[e[2]]
SettledIsFixpoint == status \in {"settled", "placed"} => Fixpoint

\* No byte is wasted: an activation starts at 0 or exactly where the activation
\* of one of its callers ends, so functions without a common path share bytes.
SettledIsTight ==
    status \in {"settled", "placed"} =>
        \A f \in Function : base[f] # 0 =>
            \E g \in Function : <<g, f>> \in OverlayEdges(prog) /\ base[f] = End(g)

\* Both: the least layout in which nothing that is live together overlaps, whatever
\* the order in which the edges were relaxed.
SettledIsLeast == SettledIsFixpoint /\ SettledIsTight

\* node_count passes are enough: only a graph that really has a cycle through
\* stored bytes is refused with the cycle diagnostic.
CycleMeansCycle ==
    status = "cycle" =>
        \E f \in Function : prog.size[f] > 0 /\ Reaches(OverlayEdges(prog), f, f)

\* Mixed cycles of calls and lifetime edges, which the call-graph check does not
\* see, never reach a placed layout: no function that owns bytes can be live
\* below itself.
PlacedHasNoLiveCycle ==
    status \in {"settled", "placed"} =>
        \A f \in Function :
            prog.size[f] > 0 => ~Reaches(OverlayEdges(prog), f, f)

\* The relaxation ends, also on a graph with a cycle.
LayoutTerminates == <>(status \in {"placed"} \cup Refusals)
=============================================================================
