------------------------ MODULE MCArchiveSelection ------------------------
(***************************************************************************)
(* The stock runtime archive, a program, a cartridge description, and two  *)
(* objects that export foo and bar to the program or to each other, strong *)
(* or weak, with every kind of storage; and programs with a reset shim,    *)
(* with a handler of their own and with an incomplete runtime.             *)
(***************************************************************************)
EXTENDS ArchiveSelection, TLC

\* In command-line order, the runtime being the archive at its end.
MCOrder == <<"topology", "shim", "app", "lib1", "lib2", "profile", "helper",
             "rt0", "rt1data", "rt1simple", "ptr0">>
MCObject == {MCOrder[i] : i \in DOMAIN MCOrder}
MCSymbol == {"__reset", "__nmi", "__irqbrk", StartupFull, StartupData, StartupSimple,
             "main", "foo", "bar", "_vcsc_ptr0", "__copy_table", "swapram_read"}
MCRank == [o \in MCObject |-> CHOOSE i \in DOMAIN MCOrder : MCOrder[i] = o]

Vectors == {"__reset", "__nmi", "__irqbrk"}
None == [o \in MCObject |-> {}]
Stock == [input |-> MCObject \ {"shim", "profile", "helper"}, rank |-> MCRank, config |-> {"topology"},
          strong |-> ("app" :> {"main"}) @@ ("rt0" :> {StartupFull})
                     @@ ("rt1data" :> {StartupData})
                     @@ ("rt1simple" :> {StartupSimple})
                     @@ ("ptr0" :> {"_vcsc_ptr0"})
                     @@ ("helper" :> {"swapram_read"}) @@ None,
          weak |-> [o \in {"rt0", "rt1data", "rt1simple"} |-> Vectors] @@ None,
          undef |-> ("rt0" :> <<"main", "__copy_table", "_vcsc_ptr0">>)
                    @@ ("rt1data" :> <<"main", "__copy_table", "_vcsc_ptr0">>)
                    @@ ("rt1simple" :> <<"main">>)
                    @@ [o \in MCObject |-> <<>>],
          noinit |-> {}, copy |-> {}, init |-> {}]

\* What an object of the program may export, import and contain.
Export == {[strong |-> {"foo"}, weak |-> {}], [strong |-> {"bar"}, weak |-> {}],
           [strong |-> {"foo"}, weak |-> {"bar"}], [strong |-> {}, weak |-> {"foo"}],
           [strong |-> {"bar"}, weak |-> {"foo"}]}
Import == {<<>>, <<"bar">>, <<"_vcsc_ptr0", "foo">>}

With(k, o, e, u) == [k EXCEPT !.strong[o] = e.strong, !.weak[o] = e.weak,
                              !.undef[o] = u]
Storing(k, o, what) == CASE what = "noinit" -> [k EXCEPT !.noinit = @ \cup {o}]
                         [] what = "copy" -> [k EXCEPT !.copy = @ \cup {o}]
                         [] what = "init" -> [k EXCEPT !.init = @ \cup {o}]
                         [] what = "bss" -> k

Programs ==
    {Storing(Storing(With(With([Stock EXCEPT !.undef["app"] = main],
                               "lib1", e1, u1), "lib2", e2, u2), "lib1", s1), "lib2", s2) :
        main \in {<<"foo">>, <<"bar", "foo">>}, e1 \in Export, e2 \in Export,
        u1 \in {<<>>, <<"bar">>}, u2 \in Import,
        s1 \in {"bss", "noinit", "init"}, s2 \in {"bss", "copy"}}

\* A shim as in the documentation, for a program that needs what is stored.
Shim(what) ==
    Storing([Stock EXCEPT !.input = @ \cup {"shim"}, !.strong["shim"] = {"__reset"},
                          !.undef["shim"] = <<StartupFull>>], "app", what)
\* A program with a handler of its own in an object of its own.
Handler == [Stock EXCEPT !.input = @ \cup {"shim"}, !.strong["shim"] = {"__nmi"}]
\* The shim after the runtime on the command line.
LateShim == [Shim("noinit") EXCEPT !.rank["shim"] = Len(MCOrder) + 1]
Shims == {Shim(what) : what \in {"noinit", "copy", "bss"}} \cup {LateShim, Handler}
\* A runtime without its smallest startup.
Incomplete == {[Stock EXCEPT !.input = @ \ {"rt1simple"}]}
=============================================================================
