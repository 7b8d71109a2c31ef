------------------------------ MODULE CallGraph ------------------------------
(***************************************************************************)
(* Reachability in a directed graph of functions, without recursion so     *)
(* that the provers can use it.                                            *)
(***************************************************************************)
CONSTANT Function

\* g can be reached from f by one or more edges: every set that holds the
\* successors of f and is closed under the edges holds g.
Reaches(edges, f, g) ==
    \A S \in SUBSET Function :
        (/\ \A h \in Function : <<f, h>> \in edges => h \in S
         /\ \A h, k \in Function : (h \in S /\ <<h, k>> \in edges) => k \in S)
        => g \in S

\* What Tarjan's components tell the compiler and the linker: a component with
\* more than one function, or a function that calls itself.
Recursive(edges) == \E f \in Function : Reaches(edges, f, f)
=============================================================================
