--------------------------- MODULE MCStackReserve ---------------------------
(***************************************************************************)
(* Every call graph of main and two functions over two banks, with every   *)
(* startup, and an initializer function that calls nothing; a few programs *)
(* with the features the reservation does not account for.                 *)
(***************************************************************************)
EXTENDS StackReserve
CONSTANTS main, a, b, c, i, fixed, other

MCFunction == {main, a, b, i}
MCBank == {fixed, other}

Base == [call |-> {}, helper |-> {}, main |-> main, init |-> {},
         bank |-> [f \in MCFunction |-> fixed], named |-> {main, a, b},
         descriptor |-> FALSE, startup |-> "simple"]

Edges == {main, a, b} \X {main, a, b}
Banks == {[f \in MCFunction |-> IF f \in S THEN other ELSE fixed] :
             S \in SUBSET {a, b}}
Startups == {[Base EXCEPT !.startup = s] : s \in {"simple", "data", "full"}}
            \cup {[Base EXCEPT !.startup = "full", !.init = {i}]}

Plain == {[p EXCEPT !.call = g, !.bank = k] :
             p \in Startups, g \in SUBSET Edges, k \in Banks}

Unaccounted ==
    {[Base EXCEPT !.call = {<<main, a>>}, !.helper = {main}],
     [Base EXCEPT !.call = {<<main, a>>, <<i, b>>}, !.init = {i}, !.startup = "full"],
     [Base EXCEPT !.call = {<<main, a>>}, !.descriptor = TRUE,
                  !.bank[a] = other]}

MCProgram == Plain \cup Unaccounted

-----------------------------------------------------------------------------
(* Programs with pushes that the computation does not account for; each of *)
(* them alone leaves the reserve.                                          *)

LongFunction == {main, a, b, c, i}
Long == [Base EXCEPT !.bank = [f \in LongFunction |-> fixed],
                     !.named = {main, a, b, c, i}]

ClaimProgram ==
    { \* The longest path stays in one bank, another call crosses banks.
      [Long EXCEPT !.call = {<<main, a>>, <<a, b>>, <<main, c>>},
                   !.descriptor = TRUE, !.bank[c] = other],
      \* A global is initialized by a call of a function; main calls nothing.
      [Long EXCEPT !.call = {<<i, a>>, <<a, b>>}, !.init = {i}, !.startup = "full"],
      \* A function divides.
      [Long EXCEPT !.call = {<<main, a>>}, !.helper = {a}] }
=============================================================================
