----------------------------- MODULE MCArchiver ------------------------------
(***************************************************************************)
(* Two updates of an archive of up to two members, whole, cut short or not *)
(* an archive at all, one of them killed at any moment, and a read.        *)
(***************************************************************************)
EXTENDS Archiver
CONSTANTS a, b, slash

MCName == {a, b, slash}

Holds(members) == [kind |-> "archive", member |-> members, rest |-> "none"]
Of(n, d) == [name |-> n, data |-> d]

MCArchive ==
    {Absent, [Holds(<<>>) EXCEPT !.kind = "other"], Holds(<<Of(a, 1), Of(b, 1)>>),
     Holds(<<Of(a, 1), Of(a, 2)>>), Holds(<<Of(b, 1), Of(slash, 1)>>),
     [Holds(<<Of(a, 1)>>) EXCEPT !.rest = "header"], [Holds(<<Of(a, 1)>>) EXCEPT !.rest = b]}

Replace(inputs) == [op |-> "r", inputs |-> inputs]
AppendTo(inputs) == [op |-> "q", inputs |-> inputs]

MCCommand ==
    {Replace(<<Of(a, 2)>>), Replace(<<Of(b, 2), Of(a, 1)>>), Replace(<<Of(b, 1), Of(b, 2)>>),
     Replace(<<Of(a, 2), Of(b, Missing)>>), Replace(<<Of(slash, 2)>>),
     AppendTo(<<Of(a, 2)>>)}

MCRequest == {[op |-> o, only |-> {}] : o \in {"t", "x", "load"}}
             \cup {[op |-> "x", only |-> {a}]}
=============================================================================
