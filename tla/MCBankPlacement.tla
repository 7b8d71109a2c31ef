--------------------------- MODULE MCBankPlacement ---------------------------
(***************************************************************************)
(* Three banks of two pages.  Startup code, main, three layouts of         *)
(* different sizes and alignments, a load image and one more layout, with  *)
(* references between them and branches within them.                       *)
(***************************************************************************)
EXTENDS BankPlacement

Code(n) == [text |-> TRUE, auto |-> TRUE, shape |-> Plain(n), bank |-> 1, role |-> "plain"]
Image == [Code(1) EXCEPT !.text = FALSE, !.auto = FALSE]
Parts(third) ==
    <<[Code(1) EXCEPT !.auto = FALSE, !.role = "runtime"], [Code(2) EXCEPT !.role = "entry"],
      Code(2), third, Image, Code(3)>>

Aligned == [Code(2) EXCEPT !.shape.align = 4]
Fixed(b) == [Code(1) EXCEPT !.auto = FALSE, !.bank = b]
Third == {Code(1), Aligned, Fixed(2), [Code(1) EXCEPT !.role = "init"]}

To(kind, from, to) == [kind |-> kind, from |-> from, to |-> to, bank |-> 0, copies |-> {}]
At(kind, from, b) == [To(kind, from, 0) EXCEPT !.bank = b]
CopyOf(from, banks) == [To("data", from, 0) EXCEPT !.copies = banks]

\* References that unite, that pin, and calls.
Ties == {To("jmp", 3, 4), To("data", 3, 6), To("data", 4, 3), To("branch", 4, 6),
         To("data", 5, 6), At("data", 4, 2), CopyOf(3, {1}), CopyOf(6, {2, 3}),
         CopyOf(5, {2}), At("jmp", 3, 1)}
Sites == {To("jsr", 2, 3), To("jsr", 2, 4), To("jsr", 3, 6), To("jsr", 4, 6)}

\* The tables take three bytes of the first bank.
Window(n) == [start |-> 8, end |-> 8 + n, rom |-> FALSE, bank |-> 0]

Base == [part |-> Parts(Code(1)), ref |-> <<>>, region |-> [b \in Bank |-> Window(IF b = 1 THEN 11 ELSE 8)],
         visible |-> {}, banked |-> TRUE, fe |-> FALSE, mode |-> "optimized",
         startup |-> "simple", table |-> [copy |-> 1, zero |-> 1, init |-> 1],
         tableBank |-> 1]

\* Every pair of references, in both orders.
Pairs == {[Base EXCEPT !.part = Parts(t), !.ref = <<a, b>>] :
             t \in Third, a \in Ties \cup Sites, b \in Ties \cup Sites}

\* Calls only, in banks that the sizes fill, for every startup and mode.
Sized(a, b, c) == [Base EXCEPT !.part[3] = Code(a), !.part[4] = Code(b), !.part[6] = Code(c)]
Call(from, to) == To("jsr", from, to)
Calling ==
    {[l EXCEPT !.mode = m, !.startup = u] :
        m \in {"simple", "optimized"}, u \in {"simple", "data", "full"},
        l \in {\* The callee is assigned first and follows its caller later.
               [Sized(4, 1, 3) EXCEPT !.ref = <<Call(2, 6), Call(6, 3), Call(6, 3)>>],
               \* Following would cut fewer calls and make the stack deeper.
               [Sized(3, 1, 3) EXCEPT !.ref = <<Call(2, 3), Call(3, 4), Call(6, 3),
                                                Call(6, 3), Call(6, 3)>>],
               \* A third layout follows the two, a round later.
               [Sized(1, 3, 3) EXCEPT !.ref = <<Call(4, 6), Call(3, 6), Call(4, 6)>>],
               \* The same, from startup code, with holes in the banks.
               [Sized(1, 3, 3) EXCEPT !.ref = <<Call(4, 6), Call(3, 6), Call(4, 6), Call(1, 4)>>,
                                      !.part[3] = Aligned, !.part[4].role = "init"],
               \* Two layouts call each other.
               [Sized(2, 1, 3) EXCEPT !.ref = <<Call(3, 6), Call(6, 3)>>]}}

\* Cartridges of other kinds, and a configuration that is refused.
Other(l) ==
    {[l EXCEPT !.banked = FALSE], [l EXCEPT !.fe = TRUE],
     [l EXCEPT !.visible = (Bank \X {1}) \cup ((2..3) \X (2..3))],
     [l EXCEPT !.part[1].bank = 2]}
Others == UNION {Other([Base EXCEPT !.part[4] = Fixed(2), !.part[6] = Fixed(3), !.ref = <<a, b>>]) :
                    a \in Ties, b \in Ties}

\* Tables that fit in the order of the dry run only.
Tight == {[Sized(1, 1, 1) EXCEPT !.part[2].shape = [Plain(3) EXCEPT !.align = 4],
              !.part[5].bank = 2, !.region[1] = Window(8),
              !.table.zero = 2, !.startup = u] : u \in {"data", "full"}}

\* Layouts with branches: within the layout, where no address, only the start of a
\* page or any other byte will do; out of it, of each policy.
Branches == [source : {0, 1}, target : {0, 2, 5}, policy : {"flex", "same", "cross"}]
Branching ==
    {[Sized(3, 1, 3) EXCEPT !.ref = <<Call(2, 6), Call(6, 3), Call(6, 3)>>, !.mode = m,
                            !.part[3].shape.branches = {b}, !.part[6].shape.branches = {c}] :
        m \in {"simple", "optimized"}, b \in Branches, c \in Branches}

MCLink == Branching \cup Tight \cup Pairs \cup Calling \cup Others
=============================================================================
