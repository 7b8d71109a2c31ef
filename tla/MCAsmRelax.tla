----------------------------- MODULE MCAsmRelax -----------------------------
(***************************************************************************)
(* Files of four statements and a label, with pages of sixteen bytes and   *)
(* branches that reach eight.                                              *)
(***************************************************************************)
EXTENDS AsmRelax

Branch(to, page) == [kind |-> "branch", to |-> to, page |-> page]
Load(operand) == [kind |-> "load", operand |-> operand]
Res(n) == [kind |-> "res", size |-> n]
Align(boundary, offset) == [kind |-> "align", boundary |-> boundary, offset |-> offset]
If(label, bound) == [kind |-> "if", label |-> label, bound |-> bound]
EndIf == [kind |-> "endif"]

Number(n) == [kind |-> "number", add |-> n]
Label(to, n) == [kind |-> "label", to |-> to, add |-> n]
Span(from, to, n) == [kind |-> "span", from |-> from, to |-> to, add |-> n]

Code == {Branch(5, "flex"), Branch(1, "flex"), Branch(4, "same"), Branch(5, "cross"),
         Load(Label(5, 0)), Load(Span(2, 5, 6)), Load(Number(16)), Res(3), Res(6)}
Aligns == {Align(4, 1), Align(16, 0)}
Any == Code \cup Aligns

Files == {<<a, b, c, d, Res(1)>> : a \in Any, b \in Any, c \in Any, d \in Any}

\* The condition refers to a label whose address is still to change.
Guarded == {<<a, If(2, n), b, EndIf, c, Res(1)>> :
              a \in Code, n \in {3, 6}, b \in Code, c \in Any}

Flat(files) == [stmts : files, object : {FALSE}, base : {3}, segmentalign : {1}]
Object(files, align) ==
    [stmts : files, object : {TRUE}, base : {0}, segmentalign : {align}]

MCSource == Flat(Files) \cup Object(Files, 1) \cup Flat(Guarded) \cup Object(Guarded, 1)
              \cup Object({f \in Files : \E i \in 1..4 : f[i] \in Aligns}, 8)
=============================================================================
