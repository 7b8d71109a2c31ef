--------------------------- MODULE MCLinkedProgram ---------------------------
(***************************************************************************)
(* Pages of four bytes, an address space of six pages, and bytes of ten    *)
(* values.  Rom, Ram and Pool cover every kind of constraint: a ROM, a RAM *)
(* that begins in page zero and a swapram pool of three banks.  The other  *)
(* programs are run: they have workspaces in all relations of their        *)
(* phases, images of more than a page, noinit objects, and initializers.   *)
(* The order of placement is free.                                         *)
(***************************************************************************)
EXTENDS LinkedProgram

Plain(n) == [size |-> n, align |-> 1, phase |-> 0, page |-> FALSE,
             window |-> <<0, 0>>, zp |-> FALSE, reads |-> {}, branches |-> {}]

To(source, target, policy) == [source |-> source, target |-> target, policy |-> policy]

Thing(shape, kind) ==
    [shape |-> shape, kind |-> kind, marked |-> FALSE, scratch |-> FALSE,
     noinit |-> FALSE, eligible |-> FALSE, uses |-> <<>>, image |-> <<>>]

Var(n, uses) == [Thing(Plain(n), "bss") EXCEPT !.marked = TRUE, !.uses = uses]
Work(n, uses) == [Var(n, uses) EXCEPT !.eligible = TRUE]
Data(n) == [Thing(Plain(n), "data") EXCEPT !.image = [i \in 1..n |-> 1 + (i % 9)]]
Kept4(n) == [Var(n, <<{0}>>) EXCEPT !.noinit = TRUE]

Things(shapes) == [o \in DOMAIN shapes |-> Thing(shapes[o], "code")]

Rom == [
    region |-> [start |-> 2, end |-> 22, rom |-> TRUE, bank |-> 0],
    riot   |-> FALSE, inits |-> 0,
    order  |-> <<"byte", "long", "phased", "paged", "reader", "loop", "delay">>,
    object |-> Things([
        byte    |-> Plain(1),
        long    |-> Plain(5),
        phased  |-> [Plain(2) EXCEPT !.align = 4, !.phase = 2],
        paged   |-> [Plain(3) EXCEPT !.page = TRUE],
        reader  |-> [Plain(1) EXCEPT !.reads = {1}],
        loop    |-> [Plain(4) EXCEPT !.branches = {To(1, 0, "same"), To(0, 3, "flex")}],
        delay   |-> [Plain(2) EXCEPT !.branches = {To(0, 0, "cross"), To(0, 1, "flex")}]])]

Ram == [
    region |-> [start |-> 1, end |-> 15, rom |-> FALSE, bank |-> 0],
    riot   |-> FALSE, inits |-> 0,
    order  |-> <<"pair", "even", "single", "ram", "array", "table", "page">>,
    object |-> Things([
        pair   |-> [Plain(2) EXCEPT !.zp = TRUE],
        even   |-> [Plain(1) EXCEPT !.zp = TRUE, !.align = 2],
        single |-> [Plain(1) EXCEPT !.zp = TRUE],
        ram    |-> Plain(2),
        array  |-> [Plain(5) EXCEPT !.window = <<3, 2>>],
        table  |-> [Plain(2) EXCEPT !.align = 8, !.phase = 3],
        page   |-> [Plain(3) EXCEPT !.page = TRUE]])]

Pool == [
    region |-> [start |-> 0, end |-> 12, rom |-> FALSE, bank |-> 4],
    riot   |-> FALSE, inits |-> 0,
    order  |-> <<"bank", "most", "half", "other", "odd", "huge">>,
    object |-> Things([
        bank  |-> Plain(4),
        most  |-> Plain(3),
        half  |-> [Plain(2) EXCEPT !.align = 2],
        other |-> [Plain(2) EXCEPT !.align = 2],
        odd   |-> Plain(1),
        huge  |-> Plain(5)])]

Riot(order, object, inits) ==
    [region |-> [start |-> 2, end |-> 24, rom |-> FALSE, bank |-> 0],
     riot |-> TRUE, inits |-> inits, order |-> order, object |-> object]

\* An interval with a gap, disjoint ones of several sizes, an unmarked object
\* and one that is also used outside of the phases.
Phases == Riot(<<"blank", "gap", "over", "state", "any">>,
    [gap   |-> Work(2, <<{0}, {2}>>),
     blank |-> Work(3, <<{1}>>),
     over  |-> Work(4, <<{3}>>),
     state |-> Var(1, <<{3}>>),
     any   |-> Work(2, <<{}, {3}>>)], 0)

\* Scratch of the compiler shares with workspaces; initializers run.
Mixed == Riot(<<"sync", "lease", "draw", "keep">>,
    [sync  |-> Work(2, <<{0}>>),
     lease |-> [Work(3, <<{1, 2}>>) EXCEPT !.scratch = TRUE],
     draw  |-> [Work(2, <<{2}>>) EXCEPT !.shape.align = 2],
     keep  |-> Kept4(1)], 2)

\* A range of more than a page of bytes, one of a page, and one of less.
Tables == Riot(<<"image", "page", "small">>,
    [image |-> Data(11),
     page  |-> Var(10, <<{2}>>),
     small |-> Kept4(1)], 1)

Blanket == Riot(<<"image", "page">>,
    [image |-> Data(12), page |-> Var(3, <<{2}>>)], 2)

\* A member that must be aligned like the slot, or otherwise.
Strict(n) == Riot(<<"first", "odd", "wide">>,
    [first |-> [Work(1, <<{0}>>) EXCEPT !.shape.zp = TRUE],
     odd   |-> [Work(1, <<{1}>>) EXCEPT !.shape.align = 2, !.shape.phase = n],
     wide  |-> [Work(2, <<{3}>>) EXCEPT !.shape.page = TRUE]], 0)

Outside == [Phases EXCEPT !.riot = FALSE, !.inits = 1]

MCProgram == {Rom, Ram, Pool, Phases, Mixed, Tables, Blanket, Strict(0), Strict(1), Outside}
MCProblem == {Merged(p, Shared(p)) : p \in MCProgram}
=============================================================================
