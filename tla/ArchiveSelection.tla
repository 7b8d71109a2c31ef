-------------------------- MODULE ArchiveSelection --------------------------
(***************************************************************************)
(* Which objects and archive members are linked (linker/vcsc_ld_input.c),  *)
(* and which of the stock startups (the middle of main in vcsc_ld.c).      *)
(*                                                                         *)
(* Everything is lazy: the vectors' symbols are needed, and then whatever  *)
(* selected objects import.  A needed symbol that nothing selected exports *)
(* selects the first object, in command-line order, that exports it, weak  *)
(* exports coming second.  When the full startup was selected although a   *)
(* smaller one would do for the selected objects, the selection is thrown  *)
(* away and made again from the smaller startup.                           *)
(***************************************************************************)
EXTENDS Naturals, FiniteSets, Sequences

CONSTANTS
    Object,  \* command-line objects and archive members
    Symbol,  \* names, a weak export __weak_n being a weak export of n
    Link     \* the links considered

StartupFull == "__vcsc_startup_full"
StartupData == "__vcsc_startup_data"
StartupSimple == "__vcsc_startup_simple"

\* The vectors, always needed.
Roots == <<"__reset", "__nmi", "__irqbrk">>

(***************************************************************************)
(* input: the objects given; rank: their order on the command line, with   *)
(* the members of an archive in its place; config: command-line objects    *)
(* that only declare the cartridge; undef: the imports of an object, with  *)
(* _vcsc_ptr0 when it has bank targets.  noinit: objects with bytes a      *)
(* blanket clear would wrong or not reach; copy: with initialized data;    *)
(* init: with initializer functions.                                       *)
(***************************************************************************)
LinkType == [input : SUBSET Object, rank : [Object -> Nat],
             config : SUBSET Object,
             strong : [Object -> SUBSET Symbol],
             weak : [Object -> SUBSET Symbol],
             undef : [Object -> Seq(Symbol)],
             noinit : SUBSET Object, copy : SUBSET Object,
             init : SUBSET Object]

ASSUME ObjectAssumption == IsFiniteSet(Object)
ASSUME SymbolAssumption ==
    {"__reset", "__nmi", "__irqbrk", StartupFull, StartupData, StartupSimple}
        \subseteq Symbol
Linkable(k) == /\ k \in LinkType
               /\ k.config \subseteq k.input
               /\ \A o, p \in Object : k.rank[o] = k.rank[p] => o = p
ASSUME LinkAssumption == \A k \in Link : Linkable(k)

VARIABLES
    link,       \* the link in progress
    phase,      \* where select_needed_objects, or its caller, is
    selected,   \* in->objects
    upto,       \* objects whose imports this pass looks at
    source,     \* whose it looks at now, 0 for the vectors
    pos,        \* and which of them
    progress,   \* this pass has selected something
    preferred   \* the startup the selection was made from, if any

scan == <<upto, source, pos, progress>>
vars == <<link, phase, selected, scan, preferred>>

Chosen == {selected[i] : i \in DOMAIN selected}
Exports(o) == link.strong[o] \cup link.weak[o]

\* Mutant of Exported: a weak export does not satisfy a need.
ExportedStrong(n) == \E o \in Chosen : n \in link.strong[o]

\* selected_objects_export_symbol
Exported(n) == \E o \in Chosen : n \in Exports(o)

\* selected_objects_have_export
HaveExport(n) == \E o \in Chosen : n \in link.strong[o]

First(S) == CHOOSE o \in S : \A p \in S : link.rank[o] <= link.rank[p]
StrongProviders(n, S) == {o \in S : n \in link.strong[o]}
WeakProviders(n, S) == {o \in S : n \in link.weak[o]}
Providers(n, S) == {o \in S : n \in Exports(o)}

\* Mutant of Best: the first provider in order, weak or not.
BestInOrder(n, S) == First(Providers(n, S))

\* find_best_provider
Best(n, S) == IF StrongProviders(n, S) # {} THEN First(StrongProviders(n, S))
              ELSE First(WeakProviders(n, S))

NeedsOf(i) == IF i = 0 THEN Roots ELSE link.undef[selected[i]]

-----------------------------------------------------------------------------
Init == /\ link \in Link
        /\ phase = "begin"
        /\ selected = <<>>
        /\ upto = 0 /\ source = 0 /\ pos = 1 /\ progress = FALSE
        /\ preferred = "none"

Include(o) == selected' = Append(selected, o)

Missing == link.config \ Chosen

\* Objects that only configure the link are selected first, needed or not.
IncludeConfiguration ==
    /\ phase = "begin"
    /\ IF Missing # {} THEN Include(First(Missing)) /\ UNCHANGED phase
                       ELSE phase' = "collect" /\ UNCHANGED selected
    /\ UNCHANGED <<link, scan, preferred>>

\* The needs of a pass are those of the objects selected when it begins.
CollectNeeded ==
    /\ phase = "collect"
    /\ upto' = Len(selected) /\ source' = 0 /\ pos' = 1 /\ progress' = FALSE
    /\ phase' = "provide"
    /\ UNCHANGED <<link, selected, preferred>>

InPass == phase = "provide" /\ source <= upto

\* One needed symbol.
Provide ==
    /\ InPass /\ pos \in DOMAIN NeedsOf(source)
    /\ LET n == NeedsOf(source)[pos]
           avail == link.input \ Chosen
       IN IF ~Exported(n) /\ Providers(n, avail) # {}
          THEN Include(Best(n, avail)) /\ progress' = TRUE
          ELSE UNCHANGED <<selected, progress>>
    /\ pos' = pos + 1
    /\ UNCHANGED <<link, phase, upto, source, preferred>>

NextSource ==
    /\ InPass /\ pos \notin DOMAIN NeedsOf(source)
    /\ source' = source + 1 /\ pos' = 1
    /\ UNCHANGED <<link, phase, selected, upto, progress, preferred>>

Needed(n) == \E i \in 0..Len(selected) : \E k \in DOMAIN NeedsOf(i) : NeedsOf(i)[k] = n

\* Mutants of MorePasses: a single pass; as long as a symbol is missing.
MorePassesNever == FALSE
MorePassesUntilProvided == \E n \in Symbol : Needed(n) /\ ~Exported(n)

MorePasses == progress

EndPass ==
    /\ phase = "provide" /\ source > upto
    /\ phase' = IF MorePasses THEN "collect" ELSE "selected"
    /\ UNCHANGED <<link, selected, scan, preferred>>

\* Mutant of SimpleIsSafe: initializers are forgotten.
SimpleIsSafeWithInit == Chosen \cap (link.noinit \cup link.copy) = {}

DataIsSafe == Chosen \cap link.noinit = {}
SimpleIsSafe == DataIsSafe /\ Chosen \cap (link.copy \cup link.init) = {}

\* reselect_needed_objects_with_preferred_provider
Reselect(n) ==
    /\ IF Providers(n, link.input) = {}
       THEN phase' = "failed" /\ UNCHANGED selected
       ELSE phase' = "begin" /\ selected' = <<Best(n, link.input)>>
    /\ preferred' = n

\* The startup is chosen once, for what the first selection contains.
ChooseStartup ==
    /\ phase = "selected"
    /\ IF preferred = "none" /\ HaveExport(StartupFull) /\ DataIsSafe
       THEN Reselect(IF SimpleIsSafe THEN StartupSimple ELSE StartupData)
       ELSE phase' = "linked" /\ UNCHANGED <<selected, preferred>>
    /\ UNCHANGED <<link, scan>>

Next == \/ IncludeConfiguration
        \/ CollectNeeded
        \/ Provide
        \/ NextSource
        \/ EndPass
        \/ ChooseStartup

Spec == Init /\ [][Next]_vars /\ WF_vars(Next)

-----------------------------------------------------------------------------
\* Types, and that no object is linked twice.
SelectionTypeOK ==
    /\ Linkable(link)
    /\ phase \in {"begin", "collect", "provide", "selected", "linked", "failed"}
    /\ selected \in Seq(link.input)
    /\ \A i, j \in DOMAIN selected : selected[i] = selected[j] => i = j
    /\ upto \in Nat /\ source \in Nat /\ pos \in Nat \ {0} /\ progress \in BOOLEAN
    /\ preferred \in {"none", StartupSimple, StartupData}

\* When the passes end, every import of every object they have selected is
\* exported by one of them, or there is nothing in the inputs that exports it:
\* what is undefined is the program's mistake.
NothingMissing ==
    phase \in {"selected", "linked"} =>
        \A n \in Symbol : Needed(n) => Exported(n) \/ Providers(n, link.input) = {}

\* No object is linked without need: it configures the link, it is the startup
\* the selection was made from, or it exports a symbol that is a vector or is
\* imported by an object selected before it, and that none of those exports; a
\* weak export counts only if there is no strong one anywhere in the inputs.
PulledForNeed ==
    \A i \in DOMAIN selected :
        \/ selected[i] \in link.config
        \/ i = 1 /\ preferred # "none"
        \/ \E n \in Exports(selected[i]) :
              /\ \E j \in 0..(i - 1) : \E k \in DOMAIN NeedsOf(j) : NeedsOf(j)[k] = n
              /\ \A j \in 1..(i - 1) : n \notin Exports(selected[j])
              /\ n \in link.strong[selected[i]] \/ StrongProviders(n, link.input) = {}

IsStartup(o) == {StartupFull, StartupData, StartupSimple} \cap link.strong[o] # {}

\* The runtime as it is shipped: a startup exports its own name and, weakly, the
\* vectors, enters main and stores nothing, and the full one comes first in the
\* archive.  What a startup needs beside main comes from objects that export
\* that alone.  Nobody else exports the vectors or imports a startup by name,
\* and what only configures the link is neither code nor in need of any.
Vector == {"__reset", "__nmi", "__irqbrk"}
StockStartup(o) ==
    /\ \E n \in {StartupFull, StartupData, StartupSimple} : link.strong[o] = {n}
    /\ link.weak[o] = Vector
    /\ \E k \in DOMAIN link.undef[o] : link.undef[o][k] = "main"
    /\ o \notin link.noinit \cup link.copy \cup link.init
    /\ \E p \in link.input : StartupFull \in link.strong[p] /\ link.rank[p] <= link.rank[o]
StockRuntime ==
    \A o \in link.input :
        /\ IF IsStartup(o) THEN StockStartup(o) ELSE Vector \cap Exports(o) = {}
        /\ o \in link.config => ~IsStartup(o) /\ link.undef[o] = <<>>
        /\ \A k \in DOMAIN link.undef[o] :
              /\ link.undef[o][k] \notin {StartupFull, StartupData, StartupSimple}
              /\ IsStartup(o) /\ link.undef[o][k] # "main" =>
                    \A p \in Providers(link.undef[o][k], link.input) :
                        Exports(p) = {link.undef[o][k]} /\ link.undef[p] = <<>>
                        /\ p \notin link.noinit \cup link.copy \cup link.init

\* The startup is decided for one selection and used with another.  It is still
\* the only one there, and it initializes all that the program has.
StartupSuits ==
    phase = "linked" /\ StockRuntime =>
        /\ \A o, p \in Chosen : IsStartup(o) /\ IsStartup(p) => o = p
        /\ HaveExport(StartupSimple) =>
              Chosen \cap (link.noinit \cup link.copy \cup link.init) = {}
        /\ HaveExport(StartupData) => Chosen \cap link.noinit = {}

\* Without a second selection a pre-startup shim, an object with a strong
\* __reset, is linked even if objects before it have a weak one.
ShimKeptUnlessReselected ==
    phase = "linked" /\ preferred = "none"
        /\ (\E o \in link.input : "__reset" \in link.strong[o])
    => HaveExport("__reset")
=============================================================================
