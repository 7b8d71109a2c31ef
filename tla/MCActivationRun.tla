-------------------------- MODULE MCActivationRun --------------------------
(***************************************************************************)
(* Programs of four functions that use every way calls can nest: siblings  *)
(* that share bytes, a call in an argument of a call, the same function in *)
(* its own argument, expansions with calls in their arguments, in their    *)
(* bodies and in nested expansions, and recursion through an expansion.    *)
(* For the layout, every mixture of up to three call edges and lifetime    *)
(* edges on the functions main does not call, cycles included, with        *)
(* several activation sizes.                                               *)
(***************************************************************************)
EXTENDS ActivationRun, TLC
CONSTANTS main, f, g, h

MCFunction == {main, f, g, h}

Jsr(phys, owner, callee) ==
    [phys |-> phys, owner |-> owner, callee |-> callee, inl |-> FALSE]
Expand(phys, owner, callee) ==
    [phys |-> phys, owner |-> owner, callee |-> callee, inl |-> TRUE]

\* Activation sizes and parameter counts.
Size == (main :> 1) @@ (f :> 3) @@ (g :> 2) @@ (h :> 1)
Params == (main :> 0) @@ (f :> 2) @@ (g :> 1) @@ (h :> 1)

Linked(sites, size) ==
    [site |-> sites, size |-> size, params |-> Params, root |-> {main}]

\* A chain main, f, g, h; f may be called in an argument of its own call.
Nested == {Jsr(main, main, f), Jsr(f, f, g), Jsr(g, g, h)}

\* Expansions are lifetime edges; that one expands another's only call is left
\* to the compiler and not assumed here.
Pairs == {e \in {f, g, h} \X {f, g, h} : e[1] # e[2]}
Mixtures == {s \in SUBSET ({Jsr(e[1], e[1], e[2]) : e \in Pairs}
                           \cup {Expand(e[1], e[1], e[2]) : e \in Pairs}) :
                Cardinality(s) <= 3}
Flat == [x \in MCFunction |-> 1]
Uneven == [Flat EXCEPT ![f] = 2, ![g] = 0]

MCProgram ==
    {[Linked(s, IF Cardinality(s) = 3 THEN Flat ELSE Uneven)
         EXCEPT !.params = [x \in MCFunction |-> 0]] : s \in Mixtures} \cup
    {Linked(sites, Size) : sites \in {
        \* main: f(x, g(y)); f and g both call h.
        {Jsr(main, main, f), Jsr(main, main, g), Jsr(f, f, h), Jsr(g, g, h)},
        \* main expands f; an argument and the body of f call g; g calls h.
        {Expand(main, main, f), Jsr(main, f, g), Jsr(g, g, h), Jsr(main, main, g)},
        \* main expands f, f expands g, the body of g calls h.
        {Expand(main, main, f), Expand(main, f, g), Jsr(main, g, h)},
        \* main calls f, f expands g, g calls h: recursive through g when h calls f.
        {Jsr(main, main, f), Expand(f, f, g), Jsr(f, g, h)},
        {Jsr(main, main, f), Expand(f, f, g), Jsr(f, g, h), Jsr(h, h, f)}}}
    \cup {Linked(Nested, Size), Linked(Nested, [Size EXCEPT ![f] = 5])}
=============================================================================
