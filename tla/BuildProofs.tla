----------------------------- MODULE BuildProofs -----------------------------
(***************************************************************************)
(* From the driver's inputs to the objects of a link.                      *)
(*                                                                         *)
(* For every set of objects on the command line, the selection has no      *)
(* object twice and none without need, and at its end lacks no symbol that *)
(* an input exports.  A pass that selects nothing has looked at the        *)
(* vectors and at the imports of everything selected, and has found each   *)
(* of them settled.  However often a pass begins again, the needs are met  *)
(* in one order, that of the objects that have them, each by its best      *)
(* provider: so a reset vector of the program's own comes before that of   *)
(* the runtime, and a second selection that starts from a startup takes of *)
(* the program no more than the first did.                                 *)
(*                                                                         *)
(* For every job, the objects linked at the end of the search for          *)
(* expansions are those that were measured last, and no candidate left out *)
(* is a gain.  A round that accepts nothing has tried every candidate with *)
(* the same others.                                                        *)
(***************************************************************************)
EXTENDS BuildDriver, SequenceTheorems, WellFoundedInduction, TLAPS

-----------------------------------------------------------------------------
(* ArchiveSelection.                                                       *)

\* A need is settled when it is met, or when nothing in the inputs can meet it.
Settled(n) == Exported(n) \/ Providers(n, link.input) = {}
SettledAt(i) == \A k \in DOMAIN NeedsOf(i) : Settled(NeedsOf(i)[k])

\* What the pass in progress has found, as long as it has selected nothing.
PassInv ==
    /\ phase \in {"collect", "provide"} => upto \in Nat
    /\ phase = "provide" => /\ upto <= Len(selected) /\ source <= upto + 1
                            /\ ~progress => upto = Len(selected)
    /\ phase = "provide" /\ ~progress =>
          /\ \A i \in 0..upto : i < source => SettledAt(i)
          /\ source <= upto =>
                \A k \in DOMAIN NeedsOf(source) :
                    k < pos => Settled(NeedsOf(source)[k])

\* When the passes have ended, everything is settled.
EndInv == phase \in {"selected", "linked"} => \A i \in 0..Len(selected) : SettledAt(i)

\* Why the i-th object was selected: PulledForNeed, one object at a time.
Asked(n, i) == \E j \in 0..(i - 1) : \E k \in DOMAIN NeedsOf(j) : NeedsOf(j)[k] = n
Pulled(i) ==
    \/ selected[i] \in link.config
    \/ i = 1 /\ preferred # "none"
    \/ \E n \in Exports(selected[i]) :
          /\ Asked(n, i)
          /\ \A j \in 1..(i - 1) : n \notin Exports(selected[j])
          /\ n \in link.strong[selected[i]] \/ StrongProviders(n, link.input) = {}

SelectionInv == /\ SelectionTypeOK
                /\ PassInv
                /\ EndInv
                /\ PulledForNeed

-----------------------------------------------------------------------------
\* Of some objects one comes first.
LEMMA FirstOf ==
    ASSUME NEW k, Linkable(k), link = k, NEW S \in SUBSET Object, S # {}
    PROVE  First(S) \in S /\ \A p \in S : k.rank[First(S)] <= k.rank[p]
<1> DEFINE R == {k.rank[o] : o \in S}
<1>1. k.rank \in [Object -> Nat] BY DEF Linkable, LinkType
<1>2. R \in SUBSET Nat /\ R # {} BY <1>1
<1>3. PICK r \in R : \A m \in R : ~ (<<m, r>> \in OpToRel(<, Nat))
  BY <1>2, NatLessThanWellFounded, WFMin
<1>4. PICK o \in S : k.rank[o] = r OBVIOUS
<1>5. OpToRel(<, Nat) = {ss \in Nat \X Nat : ss[1] < ss[2]} BY Zenon DEF OpToRel
<1>6. \A m \in R : ~ (<<m, r>> \in {ss \in Nat \X Nat : ss[1] < ss[2]})
  BY <1>3, <1>5, Zenon
<1>7. ASSUME NEW p \in S PROVE k.rank[o] <= k.rank[p]
  <2>1. k.rank[p] \in Nat /\ k.rank[p] \in R BY <1>1
  <2>2. r \in Nat BY <1>2
  <2>3. ~ (<<k.rank[p], r>> \in {ss \in Nat \X Nat : ss[1] < ss[2]}) BY <1>6, <2>1, Zenon
  <2>4. ~ (k.rank[p] < r) BY <2>1, <2>2, <2>3
  <2> QED BY <1>4, <2>1, <2>2, <2>4
<1> QED BY <1>4, <1>7 DEF First

\* The best provider is a provider, and a strong one if there is any.
LEMMA BestProvides ==
    ASSUME NEW k, Linkable(k), link = k, NEW S \in SUBSET Object,
           NEW n, Providers(n, S) # {}
    PROVE  /\ Best(n, S) \in S /\ n \in Exports(Best(n, S))
           /\ n \in link.strong[Best(n, S)] \/ StrongProviders(n, S) = {}
<1>1. CASE StrongProviders(n, S) # {}
  <2>1. First(StrongProviders(n, S)) \in StrongProviders(n, S)
    BY <1>1, FirstOf DEF StrongProviders
  <2> QED BY <1>1, <2>1 DEF Best, StrongProviders, Exports
<1>2. CASE StrongProviders(n, S) = {}
  <2>1. WeakProviders(n, S) # {}
    BY <1>2 DEF Providers, StrongProviders, WeakProviders, Exports
  <2>2. First(WeakProviders(n, S)) \in WeakProviders(n, S)
    BY <2>1, FirstOf DEF WeakProviders
  <2> QED BY <1>2, <2>2 DEF Best, WeakProviders, Exports
<1> QED BY <1>1, <1>2

\* The imports that can be looked at are a sequence.
LEMMA NeedsType ==
    ASSUME SelectionTypeOK, NEW i \in 0..Len(selected)
    PROVE  NeedsOf(i) \in Seq(Symbol)
<1>1. CASE i = 0 BY <1>1, SymbolAssumption DEF NeedsOf, Roots
<1>2. CASE i # 0
  <2>1. selected[i] \in Object
    BY <1>2 DEF Linkable, SelectionTypeOK, LinkType
  <2> QED BY <1>2, <2>1 DEF Linkable, NeedsOf, SelectionTypeOK, LinkType
<1> QED BY <1>1, <1>2

\* PulledForNeed is Pulled, for all.
LEMMA PulledIsPulled ==
    SelectionTypeOK => (PulledForNeed <=> \A i \in 1..Len(selected) : Pulled(i))
<1> SUFFICES ASSUME SelectionTypeOK
             PROVE  PulledForNeed <=> \A i \in 1..Len(selected) : Pulled(i)
  OBVIOUS
<1>1. DOMAIN selected = 1..Len(selected) BY DEF SelectionTypeOK
<1> QED BY <1>1 DEF PulledForNeed, Pulled, Asked

-----------------------------------------------------------------------------
\* What selecting one more object leaves as it was.
LEMMA Grows ==
    ASSUME SelectionTypeOK, NEW o \in link.input, o \notin Chosen,
           Include(o), link' = link
    PROVE  /\ selected' \in Seq(link.input)
           /\ Len(selected') = Len(selected) + 1
           /\ \A i \in 1..Len(selected) : selected'[i] = selected[i]
           /\ selected'[Len(selected) + 1] = o
           /\ \A i, j \in DOMAIN selected' : selected'[i] = selected'[j] => i = j
           /\ \A i \in 0..Len(selected) : NeedsOf(i)' = NeedsOf(i)
           /\ \A p : Exports(p)' = Exports(p)
<1>1. selected \in Seq(link.input) BY DEF SelectionTypeOK
<1>2. /\ selected' \in Seq(link.input)
      /\ Len(selected') = Len(selected) + 1
      /\ \A i \in 1..Len(selected) : selected'[i] = selected[i]
      /\ selected'[Len(selected) + 1] = o
  BY <1>1, AppendProperties DEF Include
<1>3. ASSUME NEW i \in DOMAIN selected', NEW j \in DOMAIN selected',
             selected'[i] = selected'[j]
      PROVE  i = j
  <2>1. \A m \in 1..Len(selected) : selected[m] # o BY <1>1 DEF Chosen
  <2>2. /\ DOMAIN selected = 1..Len(selected)
        /\ DOMAIN selected' = 1..(Len(selected) + 1)
    BY <1>1, <1>2
  <2>3. Len(selected) \in Nat BY <1>1
  <2>4. \A a, b \in 1..Len(selected) : selected[a] = selected[b] => a = b
    BY <2>2 DEF SelectionTypeOK
  <2> QED BY <1>2, <1>3, <2>1, <2>2, <2>3, <2>4
<1>4. \A i \in 0..Len(selected) : NeedsOf(i)' = NeedsOf(i)
  BY <1>1, <1>2 DEF NeedsOf
<1>5. \A p : Exports(p)' = Exports(p) BY DEF Exports
<1> QED BY <1>2, <1>3, <1>4, <1>5

\* Objects already selected keep their reason when one is added that has one.
LEMMA PulledGrows ==
    ASSUME SelectionTypeOK, SelectionTypeOK', PulledForNeed,
           NEW o \in link.input, o \notin Chosen,
           Include(o), link' = link, preferred' = preferred,
           NEW last, last = Len(selected) + 1, Pulled(last)'
    PROVE  PulledForNeed'
<1> DEFINE L == Len(selected)
<1>1. L \in Nat BY DEF SelectionTypeOK
<1>2. /\ Len(selected') = L + 1
      /\ \A i \in 1..L : selected'[i] = selected[i]
      /\ \A i \in 0..L : NeedsOf(i)' = NeedsOf(i)
      /\ \A p : Exports(p)' = Exports(p)
  BY Grows
<1>3. ASSUME NEW i \in 1..L PROVE Pulled(i)'
  <2>1. Pulled(i) BY PulledIsPulled
  <2>2. /\ selected'[i] = selected[i]
        /\ \A j \in 1..(i - 1) : selected'[j] = selected[j]
    BY <1>1, <1>2
  <2>3. ASSUME NEW n, Asked(n, i) PROVE Asked(n, i)'
    <3>1. \A j \in 0..(i - 1) : NeedsOf(j)' = NeedsOf(j) BY <1>1, <1>2
    <3> QED BY <2>3, <3>1 DEF Asked
  <2>4. \A n : StrongProviders(n, link.input)' = StrongProviders(n, link.input)
    BY DEF StrongProviders
  <2>5. CASE selected[i] \in link.config BY <2>2, <2>5 DEF Pulled
  <2>6. CASE i = 1 /\ preferred # "none" BY <2>6 DEF Pulled
  <2>7. ASSUME NEW n \in Exports(selected[i]), Asked(n, i),
               \A j \in 1..(i - 1) : n \notin Exports(selected[j]),
               n \in link.strong[selected[i]] \/ StrongProviders(n, link.input) = {}
        PROVE  Pulled(i)'
    <3>1. n \in Exports(selected[i])' BY <1>2, <2>2 DEF Exports
    <3>2. \A j \in 1..(i - 1) : n \notin Exports(selected[j])'
      BY <2>2, <2>7 DEF Exports
    <3>3. (n \in link.strong[selected[i]] \/ StrongProviders(n, link.input) = {})'
      BY <2>2, <2>4, <2>7
    <3> QED BY <2>3, <2>7, <3>1, <3>2, <3>3 DEF Pulled
  <2> QED BY <2>1, <2>5, <2>6, <2>7 DEF Pulled
<1>4. ASSUME NEW i \in 1..(L + 1) PROVE Pulled(i)'
  <2>1. CASE i \in 1..L BY <1>3, <2>1
  <2>2. CASE i = last BY <2>2
  <2> QED BY <1>1, <2>1, <2>2
<1>5. (SelectionTypeOK => (PulledForNeed <=> \A i \in 1..Len(selected) : Pulled(i)))'
  BY PulledIsPulled, PTL
<1>6. \A i \in 1..Len(selected') : Pulled(i)' BY <1>2, <1>4
<1> QED BY <1>5, <1>6

\* A step that selects nothing changes no need, and nobody's reason.
LEMMA Stays ==
    ASSUME UNCHANGED <<link, selected>>
    PROVE  /\ \A i : NeedsOf(i)' = NeedsOf(i)
           /\ \A n : Settled(n)' <=> Settled(n)
           /\ \A i : SettledAt(i)' <=> SettledAt(i)
<1>1. \A i : NeedsOf(i)' = NeedsOf(i) BY DEF NeedsOf
<1>2. \A n : Settled(n)' <=> Settled(n)
  BY DEF Settled, Exported, Chosen, Exports, Providers
<1>3. \A i : SettledAt(i)' <=> SettledAt(i) BY <1>1, <1>2 DEF SettledAt
<1> QED BY <1>1, <1>2, <1>3

LEMMA PulledStays ==
    ASSUME UNCHANGED <<link, selected, preferred>>, PulledForNeed
    PROVE  PulledForNeed'
BY DEF PulledForNeed, NeedsOf, Exports, StrongProviders

\* What nothing selected exports and no other object provides, nobody provides.
LEMMA NobodyElse ==
    ASSUME NEW n, ~Exported(n), Providers(n, link.input \ Chosen) = {}
    PROVE  Settled(n)
BY DEF Exported, Providers, Settled, Exports

\* Nothing has been selected.
Idle ==
    /\ phase = "begin" /\ selected = <<>> /\ preferred = "none"
    /\ upto = 0 /\ source = 0 /\ pos = 1 /\ progress = FALSE

LEMMA InitIsIdle == Init => Linkable(link) /\ Idle
BY LinkAssumption DEF Init, Idle

LEMMA SelectionIdle == Linkable(link) /\ Idle => SelectionInv
<1> SUFFICES ASSUME Linkable(link), Idle PROVE SelectionInv OBVIOUS
<1>1. Len(selected) = 0 /\ DOMAIN selected = {} BY DEF Idle
<1>2. SelectionTypeOK
  <2>1. selected \in Seq(link.input) BY DEF Idle
  <2>2. \A i, j \in DOMAIN selected : selected[i] = selected[j] => i = j BY <1>1
  <2>3. progress \in BOOLEAN BY Zenon DEF Idle
  <2>4. upto \in Nat /\ source \in Nat /\ pos \in Nat \ {0} BY DEF Idle
  <2> QED BY <2>1, <2>2, <2>3, <2>4, Zenon DEF Idle, SelectionTypeOK
<1>3. PassInv BY DEF Idle, PassInv
<1>4. EndInv BY DEF Idle, EndInv
<1>5. PulledForNeed BY <1>1 DEF PulledForNeed
<1> QED BY <1>2, <1>3, <1>4, <1>5 DEF SelectionInv

-----------------------------------------------------------------------------
LEMMA ConfigurationStep ==
    SelectionInv /\ IncludeConfiguration => SelectionInv'
<1> SUFFICES ASSUME SelectionInv, IncludeConfiguration PROVE SelectionInv'
  OBVIOUS
<1> USE DEF SelectionInv
<1>1. /\ phase = "begin" /\ Linkable(link) /\ link \in LinkType
      /\ link.config \subseteq link.input /\ link.input \subseteq Object
  BY DEF Linkable, IncludeConfiguration, SelectionTypeOK, LinkType
<1>2. CASE Missing # {}
  <2>1. PICK o : o = First(Missing) OBVIOUS
  <2>2. PICK last : last = Len(selected) + 1 OBVIOUS
  <2>3. /\ o \in link.input /\ o \notin Chosen /\ o \in link.config
    BY <1>1, <1>2, <2>1, FirstOf DEF Missing
  <2>4. /\ Include(o) /\ link' = link /\ phase' = phase
        /\ upto' = upto /\ source' = source /\ pos' = pos /\ progress' = progress
        /\ preferred' = preferred
    BY <1>2, <2>1 DEF IncludeConfiguration, scan
  <2>5. /\ selected' \in Seq(link.input)
        /\ selected'[last] = o
        /\ \A i, j \in DOMAIN selected' : selected'[i] = selected'[j] => i = j
    BY <2>2, <2>3, <2>4, Grows
  <2>6. SelectionTypeOK' BY <2>4, <2>5 DEF SelectionTypeOK
  <2>7. Pulled(last)' BY <2>3, <2>4, <2>5 DEF Pulled
  <2>8. PulledForNeed' BY <2>2, <2>3, <2>4, <2>6, <2>7, PulledGrows
  <2>9. PassInv' /\ EndInv' BY <1>1, <2>4 DEF PassInv, EndInv
  <2> QED BY <2>6, <2>8, <2>9
<1>3. CASE Missing = {}
  <2>1. /\ phase' = "collect" /\ UNCHANGED <<link, selected, preferred>>
        /\ upto' = upto /\ source' = source /\ pos' = pos /\ progress' = progress
    BY <1>3 DEF IncludeConfiguration, scan
  <2>2. SelectionTypeOK' BY <2>1 DEF SelectionTypeOK
  <2>3. PassInv' /\ EndInv' BY <2>1 DEF PassInv, EndInv, SelectionTypeOK
  <2> QED BY <2>1, <2>2, <2>3, PulledStays
<1> QED BY <1>2, <1>3

LEMMA CollectStep == SelectionInv /\ CollectNeeded => SelectionInv'
<1> SUFFICES ASSUME SelectionInv, CollectNeeded PROVE SelectionInv' OBVIOUS
<1> USE DEF SelectionInv
<1>1. /\ UNCHANGED <<link, selected, preferred>> /\ phase' = "provide"
      /\ upto' = Len(selected) /\ source' = 0 /\ pos' = 1 /\ progress' = FALSE
  BY DEF CollectNeeded
<1>2. SelectionTypeOK /\ Len(selected) \in Nat BY DEF SelectionTypeOK
<1>3. SelectionTypeOK'
  <2>1. progress' \in BOOLEAN BY <1>1, Zenon
  <2>2. upto' \in Nat /\ source' \in Nat /\ pos' \in Nat \ {0} BY <1>1, <1>2
  <2> QED BY <1>1, <2>1, <2>2, Zenon DEF SelectionTypeOK
<1>4. \A k \in DOMAIN NeedsOf(0) : ~ (k < 1)
  <2>1. NeedsOf(0) \in Seq(Symbol) BY <1>2, NeedsType
  <2> QED BY <2>1
<1>5. \A k \in DOMAIN NeedsOf(0)' : ~ (k < 1) BY <1>1, <1>4, Stays
<1>6. PassInv' BY <1>1, <1>2, <1>5 DEF PassInv
<1>7. EndInv' BY <1>1 DEF EndInv
<1> QED BY <1>1, <1>3, <1>6, <1>7, PulledStays

LEMMA NextSourceStep == SelectionInv /\ NextSource => SelectionInv'
<1> SUFFICES ASSUME SelectionInv, NextSource PROVE SelectionInv' OBVIOUS
<1> USE DEF SelectionInv
<1>1. /\ UNCHANGED <<link, selected, preferred>>
      /\ phase = "provide" /\ phase' = phase
      /\ source <= upto /\ pos \notin DOMAIN NeedsOf(source)
      /\ upto' = upto /\ source' = source + 1 /\ pos' = 1 /\ progress' = progress
  BY DEF NextSource, InPass
<1>2. /\ SelectionTypeOK /\ Len(selected) \in Nat /\ upto \in Nat /\ source \in Nat
      /\ upto <= Len(selected) /\ pos \in Nat \ {0}
  BY <1>1 DEF SelectionTypeOK, PassInv
<1>3. SelectionTypeOK' BY <1>1, <1>2 DEF SelectionTypeOK
<1>4. NeedsOf(source) \in Seq(Symbol) BY <1>1, <1>2, NeedsType
<1>5. ~progress => \A i \in 0..upto : i < source + 1 => SettledAt(i)
  <2>1. \A k \in DOMAIN NeedsOf(source) : k < pos BY <1>1, <1>2, <1>4
  <2>2. ~progress => SettledAt(source) BY <1>1, <2>1 DEF PassInv, SettledAt
  <2>3. \A i \in 0..upto : i < source + 1 => i < source \/ i = source BY <1>2
  <2> QED BY <1>1, <2>2, <2>3 DEF PassInv
<1>6. source' <= upto' => \A k \in DOMAIN NeedsOf(source + 1) : ~ (k < 1)
  <2>1. source' <= upto' => NeedsOf(source + 1) \in Seq(Symbol)
    BY <1>1, <1>2, NeedsType
  <2> QED BY <2>1
<1>7. PassInv'
  <2>1. \A i : NeedsOf(i)' = NeedsOf(i) BY <1>1, Stays
  <2>2. NeedsOf(source)' = NeedsOf(source + 1) BY <1>1 DEF NeedsOf
  <2>3. \A i : SettledAt(i)' <=> SettledAt(i) BY <1>1, Stays
  <2>4. phase' = "provide" /\ ~progress' =>
          /\ \A i \in 0..upto' : i < source' => SettledAt(i)'
          /\ source' <= upto' => \A k \in DOMAIN NeedsOf(source)' : ~ (k < pos')
    BY <1>1, <1>5, <1>6, <2>2, <2>3
  <2>5. /\ upto' \in Nat
        /\ upto' <= Len(selected') /\ source' <= upto' + 1
        /\ ~progress' => upto' = Len(selected')
    BY <1>1, <1>2 DEF PassInv
  <2> QED BY <1>1, <2>4, <2>5 DEF PassInv
<1>8. EndInv' BY <1>1 DEF EndInv
<1> QED BY <1>1, <1>3, <1>7, <1>8, PulledStays

LEMMA EndPassStep == SelectionInv /\ EndPass => SelectionInv'
<1> SUFFICES ASSUME SelectionInv, EndPass PROVE SelectionInv' OBVIOUS
<1> USE DEF SelectionInv
<1>1. /\ UNCHANGED <<link, selected, preferred>>
      /\ phase = "provide" /\ source > upto
      /\ phase' = IF progress THEN "collect" ELSE "selected"
      /\ upto' = upto /\ source' = source /\ pos' = pos /\ progress' = progress
  BY DEF EndPass, MorePasses, scan
<1>2. SelectionTypeOK' BY <1>1 DEF SelectionTypeOK
<1>3. PassInv' BY <1>1 DEF PassInv
<1>4. EndInv'
  <2>1. SUFFICES ASSUME ~progress PROVE \A i \in 0..Len(selected) : SettledAt(i)
    BY <1>1, Stays DEF EndInv
  <2> QED BY <1>1, <2>1 DEF PassInv, SelectionTypeOK
<1> QED BY <1>1, <1>2, <1>3, <1>4, PulledStays

LEMMA ProvideStep == SelectionInv /\ Provide => SelectionInv'
<1> SUFFICES ASSUME SelectionInv, Provide PROVE SelectionInv' OBVIOUS
<1> USE DEF SelectionInv
<1>1. PICK n : n = NeedsOf(source)[pos] OBVIOUS
<1>2. PICK avail : avail = link.input \ Chosen OBVIOUS
<1>3. /\ phase = "provide" /\ phase' = phase /\ source <= upto
      /\ pos \in DOMAIN NeedsOf(source)
      /\ link' = link /\ preferred' = preferred
      /\ upto' = upto /\ source' = source /\ pos' = pos + 1
  BY DEF Provide, InPass
<1>4. /\ SelectionTypeOK /\ Len(selected) \in Nat /\ upto \in Nat /\ source \in Nat
      /\ upto <= Len(selected) /\ pos \in Nat \ {0}
  BY <1>3 DEF SelectionTypeOK, PassInv
<1>5. Linkable(link) /\ avail \subseteq Object
  BY <1>2 DEF Linkable, SelectionTypeOK, LinkType
<1>6. CASE ~Exported(n) /\ Providers(n, avail) # {}
  <2>1. PICK o : o = Best(n, avail) OBVIOUS
  <2>2. PICK last : last = Len(selected) + 1 OBVIOUS
  <2>3. Include(o) /\ progress' = TRUE
    BY <1>1, <1>2, <1>6, <2>1 DEF Provide
  <2>4. /\ o \in avail /\ n \in Exports(o)
        /\ n \in link.strong[o] \/ StrongProviders(n, avail) = {}
    BY <1>5, <1>6, <2>1, BestProvides
  <2>5. o \in link.input /\ o \notin Chosen BY <1>2, <2>4
  <2>6. /\ selected' \in Seq(link.input)
        /\ Len(selected') = Len(selected) + 1
        /\ \A i \in 1..Len(selected) : selected'[i] = selected[i]
        /\ selected'[last] = o
        /\ \A i, j \in DOMAIN selected' : selected'[i] = selected'[j] => i = j
        /\ \A i \in 0..Len(selected) : NeedsOf(i)' = NeedsOf(i)
        /\ \A p : Exports(p)' = Exports(p)
    BY <1>3, <2>2, <2>3, <2>5, Grows
  <2>7. SelectionTypeOK'
    <3>1. progress' \in BOOLEAN BY <2>3, Zenon
    <3>2. upto' \in Nat /\ source' \in Nat /\ pos' \in Nat \ {0} BY <1>3, <1>4
    <3> QED BY <1>3, <2>6, <3>1, <3>2, Zenon DEF SelectionTypeOK
  <2>8. StrongProviders(n, avail) = {} => StrongProviders(n, link.input) = {}
    BY <1>2, <1>6 DEF StrongProviders, Exported, Exports
  <2>9. Pulled(last)'
    <3>1. source \in 0..(last - 1) /\ source \in 0..Len(selected)
      BY <1>3, <1>4, <2>2
    <3>2. Asked(n, last)'
      <4>1. PICK j : j = source OBVIOUS
      <4>2. PICK k : k = pos OBVIOUS
      <4>3. NeedsOf(j)' = NeedsOf(j) BY <2>6, <3>1, <4>1
      <4>4. k \in DOMAIN NeedsOf(j)' /\ NeedsOf(j)'[k] = n
        BY <1>1, <1>3, <4>1, <4>2, <4>3
      <4> QED BY <3>1, <4>1, <4>4 DEF Asked
    <3>3. \A j \in 1..(last - 1) : n \notin Exports(selected[j])'
      <4>1. \A j \in 1..(last - 1) : n \notin Exports(selected[j])
        <5>1. DOMAIN selected = 1..(last - 1) BY <1>4, <2>2 DEF SelectionTypeOK
        <5> QED BY <1>6, <5>1 DEF Exported, Chosen
      <4> QED BY <1>3, <1>4, <2>2, <2>6, <4>1 DEF Exports
    <3>4. n \in Exports(selected[last])' BY <1>3, <2>4, <2>6 DEF Exports
    <3>5. (n \in link.strong[selected[last]] \/ StrongProviders(n, link.input) = {})'
      <4>1. StrongProviders(n, link.input)' = StrongProviders(n, link.input)
        BY <1>3 DEF StrongProviders
      <4> QED BY <1>3, <2>4, <2>6, <2>8, <4>1
    <3> QED BY <3>2, <3>3, <3>4, <3>5 DEF Pulled
  <2>10. PulledForNeed' BY <1>3, <1>4, <2>2, <2>3, <2>5, <2>7, <2>9, PulledGrows
  <2>11. PassInv' BY <1>3, <1>4, <2>3, <2>6 DEF PassInv
  <2>12. EndInv' BY <1>3 DEF EndInv
  <2> QED BY <2>7, <2>10, <2>11, <2>12
<1>7. CASE ~(~Exported(n) /\ Providers(n, avail) # {})
  <2>1. UNCHANGED <<link, selected, preferred>> /\ progress' = progress
    BY <1>1, <1>2, <1>3, <1>7 DEF Provide
  <2>2. SelectionTypeOK' BY <1>3, <1>4, <2>1 DEF SelectionTypeOK
  <2>3. Settled(n) BY <1>2, <1>7, NobodyElse DEF Settled
  <2>4. NeedsOf(source) \in Seq(Symbol) BY <1>3, <1>4, NeedsType
  <2>5. ~progress => \A k \in DOMAIN NeedsOf(source) :
                        k < pos + 1 => Settled(NeedsOf(source)[k])
    <3>1. \A k \in DOMAIN NeedsOf(source) : k < pos + 1 => k < pos \/ k = pos
      BY <1>4, <2>4
    <3> QED BY <1>1, <1>3, <2>3, <3>1 DEF PassInv
  <2>6. PassInv'
    <3>1. NeedsOf(source)' = NeedsOf(source) BY <1>3, <2>1 DEF NeedsOf
    <3>2. /\ \A i : SettledAt(i)' <=> SettledAt(i)
          /\ \A m : Settled(m)' <=> Settled(m)
      BY <2>1, Stays
    <3>3. ~progress' => \A k \in DOMAIN NeedsOf(source)' :
                           k < pos' => Settled(NeedsOf(source)[k])'
      <4>1. ASSUME ~progress', NEW k \in DOMAIN NeedsOf(source)', k < pos'
            PROVE  Settled(NeedsOf(source)[k])'
        <5>1. PICK m : m = NeedsOf(source)[k] OBVIOUS
        <5>2. Settled(m) BY <1>3, <2>1, <2>5, <3>1, <4>1, <5>1
        <5>3. Settled(m)' BY <3>2, <5>2
        <5>4. NeedsOf(source)'[k] = m BY <3>1, <5>1
        <5> QED BY <5>3, <5>4 DEF Settled, Exported, Providers
      <4> QED BY <4>1
    <3> QED BY <1>3, <2>1, <3>2, <3>3 DEF PassInv
  <2>7. EndInv' BY <1>3 DEF EndInv
  <2> QED BY <2>1, <2>2, <2>6, <2>7, PulledStays
<1> QED BY <1>6, <1>7

LEMMA ChooseStep == SelectionInv /\ ChooseStartup => SelectionInv'
<1> SUFFICES ASSUME SelectionInv, ChooseStartup PROVE SelectionInv' OBVIOUS
<1> USE DEF SelectionInv
<1>1. /\ phase = "selected" /\ link' = link
      /\ upto' = upto /\ source' = source /\ pos' = pos /\ progress' = progress
      /\ SelectionTypeOK
  BY DEF ChooseStartup, scan
<1>2. Linkable(link) /\ link.input \subseteq Object
  BY DEF Linkable, SelectionTypeOK, LinkType
<1>3. ASSUME NEW n \in {StartupSimple, StartupData}, Reselect(n)
      PROVE  SelectionInv'
  <2>1. n # "none" BY <1>3 DEF StartupSimple, StartupData
  <2>2. preferred' = n /\ preferred' \in {"none", StartupSimple, StartupData}
    BY <1>3 DEF Reselect
  <2>3. CASE Providers(n, link.input) = {}
    <3>1. phase' = "failed" /\ selected' = selected BY <1>3, <2>3 DEF Reselect
    <3>2. SelectionTypeOK' BY <1>1, <2>2, <3>1 DEF SelectionTypeOK
    <3>3. PassInv' /\ EndInv' BY <3>1 DEF PassInv, EndInv
    <3>4. PulledForNeed'
      <4>1. /\ \A i : NeedsOf(i)' = NeedsOf(i)
            /\ \A p : Exports(p)' = Exports(p)
            /\ \A m : StrongProviders(m, link.input)' = StrongProviders(m, link.input)
        BY <1>1, <3>1 DEF NeedsOf, Exports, StrongProviders
      <4>2. preferred' # "none" BY <2>1, <2>2
      <4> QED BY <1>1, <3>1, <4>1, <4>2 DEF PulledForNeed
    <3> QED BY <3>2, <3>3, <3>4
  <2>4. CASE Providers(n, link.input) # {}
    <3>1. PICK o : o = Best(n, link.input) OBVIOUS
    <3>2. o \in link.input BY <1>2, <2>4, <3>1, BestProvides
    <3>3. phase' = "begin" /\ selected' = <<o>> BY <1>3, <2>4, <3>1 DEF Reselect
    <3>4. /\ selected' \in Seq(link.input) /\ DOMAIN selected' = {1}
      BY <3>2, <3>3
    <3>5. SelectionTypeOK' BY <1>1, <2>2, <3>3, <3>4 DEF SelectionTypeOK
    <3>6. PassInv' /\ EndInv' BY <3>3 DEF PassInv, EndInv
    <3>7. PulledForNeed' BY <2>1, <2>2, <3>4 DEF PulledForNeed
    <3> QED BY <3>5, <3>6, <3>7
  <2> QED BY <2>3, <2>4
<1>4. CASE phase' = "linked" /\ UNCHANGED <<selected, preferred>>
  <2>1. UNCHANGED <<link, selected, preferred>> BY <1>1, <1>4
  <2>2. SelectionTypeOK' BY <1>1, <1>4 DEF SelectionTypeOK
  <2>3. PassInv' BY <1>4 DEF PassInv
  <2>4. EndInv' BY <1>1, <2>1, Stays DEF EndInv
  <2> QED BY <2>1, <2>2, <2>3, <2>4, PulledStays
<1> QED BY <1>3, <1>4 DEF ChooseStartup

LEMMA SelectionStep == SelectionInv /\ [Next]_vars => SelectionInv'
<1> SUFFICES ASSUME SelectionInv, [Next]_vars PROVE SelectionInv' OBVIOUS
<1>1. CASE UNCHANGED vars
  <2>1. /\ UNCHANGED <<link, selected, preferred>>
        /\ phase' = phase /\ upto' = upto /\ source' = source /\ pos' = pos
        /\ progress' = progress
    BY <1>1 DEF vars, scan
  <2>2. SelectionTypeOK' BY <2>1 DEF SelectionInv, SelectionTypeOK
  <2>3. PassInv'
    <3>1. NeedsOf(source)' = NeedsOf(source) BY <2>1 DEF NeedsOf
    <3>2. /\ \A i : SettledAt(i)' <=> SettledAt(i)
          /\ \A n : Settled(n)' <=> Settled(n)
      BY <2>1, Stays
    <3>3. ASSUME NEW k \in DOMAIN NeedsOf(source)', Settled(NeedsOf(source)[k])
          PROVE  Settled(NeedsOf(source)[k])'
      <4>1. PICK n : n = NeedsOf(source)[k] OBVIOUS
      <4>2. Settled(n)' BY <3>2, <3>3, <4>1
      <4>3. NeedsOf(source)'[k] = n BY <3>1, <4>1
      <4> QED BY <4>2, <4>3 DEF Settled, Exported, Providers
    <3> QED BY <2>1, <3>1, <3>2, <3>3 DEF SelectionInv, PassInv
  <2>4. EndInv' BY <2>1, Stays DEF SelectionInv, EndInv
  <2> QED BY <2>1, <2>2, <2>3, <2>4, PulledStays DEF SelectionInv
<1> QED BY <1>1, ConfigurationStep, CollectStep, ProvideStep, NextSourceStep,
           EndPassStep, ChooseStep DEF Next

\* What a pass has found and why each object is there holds at every step.
THEOREM SelectionInvHolds == Spec => []SelectionInv
BY InitIsIdle, SelectionIdle, SelectionStep, PTL DEF Spec

\* No object is selected twice, however often it is asked for (include_object).
THEOREM SelectionTypeHolds == Spec => []SelectionTypeOK
BY SelectionInvHolds, PTL DEF SelectionInv

LEMMA EndMissesNothing == SelectionInv => NothingMissing
<1> SUFFICES ASSUME SelectionInv, phase \in {"selected", "linked"},
                    NEW n \in Symbol, Needed(n)
             PROVE  Exported(n) \/ Providers(n, link.input) = {}
  BY DEF NothingMissing
<1> QED BY DEF SelectionInv, EndInv, SettledAt, Settled, Needed

\* When select_needed_objects returns, it lacks no symbol the inputs export.
THEOREM NothingMissingHolds == Spec => []NothingMissing
BY EndMissesNothing, SelectionInvHolds, PTL

\* Every selected object is there for a reason, weak ones for want of strong ones.
THEOREM PulledForNeedHolds == Spec => []PulledForNeed
BY SelectionInvHolds, PTL DEF SelectionInv

-----------------------------------------------------------------------------
(* The order of a selection, as a fact about a sequence a of objects of link k. *)

NeedsIn(k, a, j) == IF j = 0 THEN Roots ELSE k.undef[a[j]]
Exporting(k, o) == k.strong[o] \cup k.weak[o]

\* What the first m objects export, and what they settle.
Met(k, a, m, n) == \E l \in 1..m : n \in Exporting(k, a[l])
Found(k, a, m, n) == Met(k, a, m, n) \/ \A o \in k.input : n \notin Exporting(k, o)

\* find_best_provider, of all inputs.
IsBest(k, n, o) ==
    /\ o \in k.input /\ n \in Exporting(k, o)
    /\ \A p \in k.input :
          n \in Exporting(k, p) =>
              \/ n \in k.strong[o] /\ (n \in k.strong[p] => k.rank[o] <= k.rank[p])
              \/ n \notin k.strong[p] /\ k.rank[o] <= k.rank[p]

\* All needs before the p-th of the j-th object are settled by the first m.
UpTo(k, a, m, j, p) ==
    \A i \in 0..m : \A q \in DOMAIN NeedsIn(k, a, i) :
        (i < j \/ (i = j /\ q < p)) => Found(k, a, m, NeedsIn(k, a, i)[q])

\* The i-th object was selected for the p-th need of the j-th.
Chose(k, a, i, j, p) ==
    /\ j \in 0..(i - 1) /\ p \in DOMAIN NeedsIn(k, a, j)
    /\ ~Met(k, a, i - 1, NeedsIn(k, a, j)[p])
    /\ IsBest(k, NeedsIn(k, a, j)[p], a[i])
    /\ UpTo(k, a, i - 1, j, p)

Configured(k, a, m) == \A o \in k.config : \E l \in 1..m : a[l] = o

\* The needs are met one after the other, however often a pass begins again.
Because(k, a, i, q) ==
    \/ a[i] \in k.config
    \/ i = 1 /\ q # "none"
    \/ Configured(k, a, i - 1) /\ \E j, p : Chose(k, a, i, j, p)
InOrder(k, a, q) == \A i \in 1..Len(a) : Because(k, a, i, q)

Distinct(a) == \A i, j \in 1..Len(a) : a[i] = a[j] => i = j
Complete(k, a) ==
    /\ Configured(k, a, Len(a))
    /\ \A j \in 0..Len(a) : \A p \in DOMAIN NeedsIn(k, a, j) :
          Found(k, a, Len(a), NeedsIn(k, a, j)[p])

\* A first selection that the startup q suits.
Suited(k, a, q) ==
    /\ a \in Seq(k.input) /\ Distinct(a) /\ InOrder(k, a, "none") /\ Complete(k, a)
    /\ \A i \in 1..Len(a) : a[i] \notin k.noinit
    /\ q = StartupSimple => \A i \in 1..Len(a) : a[i] \notin k.copy \cup k.init

OrderInv ==
    /\ InOrder(link, selected, preferred)
    /\ phase \notin {"begin", "failed"} => Configured(link, selected, Len(selected))
    /\ phase = "provide" => UpTo(link, selected, Len(selected), source, pos)
    /\ preferred # "none" /\ phase # "failed" =>
          /\ selected # <<>> /\ IsBest(link, preferred, selected[1])
          /\ \E a : Suited(link, a, preferred)

-----------------------------------------------------------------------------
(* One object more. *)

LEMMA PrefixNeeds ==
    ASSUME NEW k, NEW a, NEW b, NEW m \in Nat, \A l \in 1..m : a[l] = b[l]
    PROVE  /\ \A n : Met(k, a, m, n) <=> Met(k, b, m, n)
           /\ \A n : Found(k, a, m, n) <=> Found(k, b, m, n)
           /\ \A j \in 0..m : NeedsIn(k, a, j) = NeedsIn(k, b, j)
           /\ \A j, p : UpTo(k, a, m, j, p) <=> UpTo(k, b, m, j, p)
           /\ Configured(k, a, m) <=> Configured(k, b, m)
<1>1. \A n : Met(k, a, m, n) <=> Met(k, b, m, n) BY DEF Met
<1>2. \A n : Found(k, a, m, n) <=> Found(k, b, m, n) BY <1>1 DEF Found
<1>3. \A j \in 0..m : NeedsIn(k, a, j) = NeedsIn(k, b, j)
  <2> TAKE j \in 0..m
  <2>1. j = 0 \/ j \in 1..m OBVIOUS
  <2> QED BY <2>1 DEF NeedsIn
<1>4. \A j, p : UpTo(k, a, m, j, p) <=> UpTo(k, b, m, j, p)
  BY <1>2, <1>3 DEF UpTo
<1>5. Configured(k, a, m) <=> Configured(k, b, m) BY DEF Configured
<1> QED BY <1>1, <1>2, <1>3, <1>4, <1>5

LEMMA BecausePrefix ==
    ASSUME NEW k, NEW a, NEW b, NEW i \in Nat \ {0}, NEW q,
           \A l \in 1..i : a[l] = b[l], Because(k, a, i, q)
    PROVE  Because(k, b, i, q)
<1>1. i - 1 \in Nat /\ \A l \in 1..(i - 1) : a[l] = b[l] OBVIOUS
<1>2. a[i] = b[i] OBVIOUS
<1>3. ASSUME NEW j, NEW p, Chose(k, a, i, j, p) PROVE Chose(k, b, i, j, p)
  <2>1. j \in 0..(i - 1) BY <1>3 DEF Chose
  <2>2. NeedsIn(k, a, j) = NeedsIn(k, b, j) BY <1>1, <2>1, PrefixNeeds
  <2>3. PICK n : n = NeedsIn(k, a, j)[p] OBVIOUS
  <2>4. Met(k, a, i - 1, n) <=> Met(k, b, i - 1, n) BY <1>1, PrefixNeeds
  <2>5. UpTo(k, a, i - 1, j, p) <=> UpTo(k, b, i - 1, j, p) BY <1>1, PrefixNeeds
  <2> QED BY <1>2, <1>3, <2>1, <2>2, <2>3, <2>4, <2>5 DEF Chose
<1>4. Configured(k, a, i - 1) <=> Configured(k, b, i - 1) BY <1>1, PrefixNeeds
<1> QED BY <1>2, <1>3, <1>4 DEF Because

LEMMA InOrderGrows ==
    ASSUME NEW k, NEW S, NEW a \in Seq(S), NEW o \in S, NEW b, b = Append(a, o), NEW q,
           InOrder(k, a, q), Because(k, b, Len(a) + 1, q)
    PROVE  InOrder(k, b, q)
<1>1. Len(a) \in Nat /\ Len(b) = Len(a) + 1 /\ \A l \in 1..Len(a) : b[l] = a[l]
  BY AppendProperties
<1>2. ASSUME NEW i \in 1..Len(b) PROVE Because(k, b, i, q)
  <2>1. CASE i = Len(a) + 1 BY <2>1
  <2>2. CASE i \in 1..Len(a)
    <3>1. i \in Nat \ {0} /\ \A l \in 1..i : a[l] = b[l] BY <1>1, <2>2
    <3>2. Because(k, a, i, q) BY <2>2 DEF InOrder
    <3> QED BY <3>1, <3>2, BecausePrefix
  <2> QED BY <1>1, <2>1, <2>2
<1> QED BY <1>2 DEF InOrder

-----------------------------------------------------------------------------
(* What the code looks at, said of the sequence. *)

\* Among those not yet selected, the best provider of a need that is not met is
\* the best of all.
LEMMA BestIsBest ==
    ASSUME NEW k, Linkable(k), link = k, NEW T \in SUBSET k.input, NEW n,
           \A o \in T : n \notin Exports(o), Providers(n, k.input \ T) # {}
    PROVE  IsBest(k, n, Best(n, k.input \ T)) /\ Best(n, k.input \ T) \in k.input \ T
<1> DEFINE S == k.input \ T
<1>1. S \in SUBSET Object /\ k.rank \in [Object -> Nat] BY DEF Linkable, LinkType
<1>2. \A p \in k.input : n \in Exporting(k, p) => p \in S BY DEF Exports, Exporting
<1>3. CASE StrongProviders(n, S) # {}
  <2>1. PICK o : o = First(StrongProviders(n, S)) OBVIOUS
  <2>2. StrongProviders(n, S) \in SUBSET Object BY <1>1 DEF StrongProviders
  <2>3. o \in StrongProviders(n, S) /\ \A p \in StrongProviders(n, S) : k.rank[o] <= k.rank[p]
    BY <1>3, <2>1, <2>2, FirstOf
  <2>4. o = Best(n, S) BY <1>3, <2>1 DEF Best
  <2>5. o \in S /\ n \in k.strong[o] BY <2>3 DEF StrongProviders
  <2>6. \A p \in k.input : n \in k.strong[p] => p \in StrongProviders(n, S)
    BY <1>2 DEF Exporting, StrongProviders
  <2>7. IsBest(k, n, o) BY <2>3, <2>5, <2>6 DEF IsBest, Exporting
  <2> QED BY <2>4, <2>5, <2>7
<1>4. CASE StrongProviders(n, S) = {}
  <2>1. PICK o : o = First(WeakProviders(n, S)) OBVIOUS
  <2>2. WeakProviders(n, S) \in SUBSET Object BY <1>1 DEF WeakProviders
  <2>3. WeakProviders(n, S) # {}
    BY <1>4 DEF Providers, StrongProviders, WeakProviders, Exports
  <2>4. o \in WeakProviders(n, S) /\ \A p \in WeakProviders(n, S) : k.rank[o] <= k.rank[p]
    BY <2>1, <2>2, <2>3, FirstOf
  <2>5. o = Best(n, S) BY <1>4, <2>1 DEF Best
  <2>6. o \in S /\ n \in k.weak[o] BY <2>4 DEF WeakProviders
  <2>7. \A p \in k.input : n \in Exporting(k, p) =>
                              n \notin k.strong[p] /\ p \in WeakProviders(n, S)
    BY <1>2, <1>4 DEF Exporting, StrongProviders, WeakProviders
  <2>8. IsBest(k, n, o) BY <2>4, <2>6, <2>7 DEF IsBest, Exporting
  <2> QED BY <2>5, <2>6, <2>8
<1> QED BY <1>3, <1>4

LEMMA BestIsUnique ==
    ASSUME NEW k, Linkable(k), NEW n, NEW o, NEW p, IsBest(k, n, o), IsBest(k, n, p)
    PROVE  o = p
<1>1. /\ k.rank \in [Object -> Nat] /\ k.input \subseteq Object
      /\ \A s, t \in Object : k.rank[s] = k.rank[t] => s = t
  BY DEF Linkable, LinkType
<1>2. o \in Object /\ p \in Object BY <1>1 DEF IsBest
<1>3. k.rank[o] \in Nat /\ k.rank[p] \in Nat BY <1>1, <1>2
<1>4. k.rank[o] <= k.rank[p] /\ k.rank[p] <= k.rank[o] BY DEF IsBest
<1> QED BY <1>1, <1>2, <1>3, <1>4

LEMMA Looked ==
    ASSUME SelectionTypeOK
    PROVE  /\ \A i : NeedsOf(i) = NeedsIn(link, selected, i)
           /\ \A n : Exported(n) <=> Met(link, selected, Len(selected), n)
           /\ \A n : Settled(n) <=> Found(link, selected, Len(selected), n)
           /\ Len(selected) \in Nat /\ DOMAIN selected = 1..Len(selected)
           /\ Missing = {} <=> Configured(link, selected, Len(selected))
           /\ Chosen \subseteq link.input
<1>1. DOMAIN selected = 1..Len(selected) /\ Len(selected) \in Nat
  BY DEF SelectionTypeOK
<1>2. \A i : NeedsOf(i) = NeedsIn(link, selected, i) BY DEF NeedsOf, NeedsIn
<1>3. \A n : Exported(n) <=> Met(link, selected, Len(selected), n)
  BY <1>1 DEF Exported, Met, Chosen, Exports, Exporting
<1>4. \A n : Settled(n) <=> Found(link, selected, Len(selected), n)
  BY <1>3 DEF Settled, Found, Providers, Exports, Exporting
<1>5. Missing = {} <=> Configured(link, selected, Len(selected))
  BY <1>1 DEF Missing, Chosen, Configured
<1>6. Chosen \subseteq link.input BY DEF SelectionTypeOK, Chosen
<1> QED BY <1>1, <1>2, <1>3, <1>4, <1>5, <1>6

\* What is settled stays settled.
LEMMA FoundGrows ==
    ASSUME NEW k, NEW a, NEW b, NEW m \in Nat, \A l \in 1..m : a[l] = b[l]
    PROVE  /\ \A n : Found(k, a, m, n) => Found(k, b, m + 1, n)
           /\ Configured(k, a, m) => Configured(k, b, m + 1)
<1>1. \A l \in 1..m : l \in 1..(m + 1) OBVIOUS
<1>2. \A n : Met(k, a, m, n) => Met(k, b, m + 1, n) BY <1>1 DEF Met
<1> QED BY <1>1, <1>2 DEF Found, Configured

-----------------------------------------------------------------------------
LEMMA OrderIdle == Idle => OrderInv
<1> SUFFICES ASSUME Idle PROVE OrderInv OBVIOUS
<1>1. selected = <<>> /\ preferred = "none" /\ phase = "begin" BY DEF Idle
<1>2. InOrder(link, selected, preferred) BY <1>1 DEF InOrder
<1> QED BY <1>1, <1>2 DEF OrderInv

\* Steps that select nothing and do not end the selection.
LEMMA OrderStays ==
    ASSUME OrderInv, UNCHANGED <<link, selected, preferred>>,
           phase # "failed" \/ phase' = "failed",
           phase' \notin {"begin", "failed"} => Configured(link, selected, Len(selected)),
           phase' = "provide" => UpTo(link, selected, Len(selected), source', pos')
    PROVE  OrderInv'
BY DEF OrderInv

\* One object more, for a reason.
LEMMA OrderGrows ==
    ASSUME SelectionTypeOK, OrderInv, NEW o \in link.input, Include(o),
           UNCHANGED <<link, phase, preferred>>, phase # "failed",
           NEW b, b = Append(selected, o),
           Because(link, b, Len(selected) + 1, preferred)
    PROVE  /\ InOrder(link, selected, preferred)'
           /\ (preferred # "none" /\ phase # "failed" =>
                  /\ selected # <<>> /\ IsBest(link, preferred, selected[1])
                  /\ \E a : Suited(link, a, preferred))'
           /\ selected' = b /\ b \in Seq(link.input) /\ Len(b) = Len(selected) + 1
           /\ \A l \in 1..Len(selected) : b[l] = selected[l]
<1>1. selected \in Seq(link.input) BY DEF SelectionTypeOK
<1>2. /\ selected' = b /\ b \in Seq(link.input) /\ Len(b) = Len(selected) + 1
      /\ \A l \in 1..Len(selected) : b[l] = selected[l]
  BY <1>1, AppendProperties DEF Include
<1>3. InOrder(link, b, preferred)
  BY <1>1, InOrderGrows DEF OrderInv
<1>4. ASSUME preferred # "none"
      PROVE  b # <<>> /\ IsBest(link, preferred, b[1])
  <2>1. selected # <<>> /\ IsBest(link, preferred, selected[1]) BY <1>4 DEF OrderInv
  <2>2. 1 \in 1..Len(selected) BY <1>1, <2>1
  <2> QED BY <1>1, <1>2, <2>1, <2>2
<1>5. preferred # "none" => \E a : Suited(link, a, preferred) BY DEF OrderInv
<1> QED BY <1>2, <1>3, <1>4, <1>5

LEMMA OrderConfiguration ==
    SelectionInv /\ OrderInv /\ IncludeConfiguration => OrderInv'
<1> SUFFICES ASSUME SelectionInv, OrderInv, IncludeConfiguration PROVE OrderInv' OBVIOUS
<1>1. /\ phase = "begin" /\ Linkable(link) /\ link \in LinkType /\ SelectionTypeOK
      /\ link.config \subseteq link.input /\ link.input \subseteq Object
  BY DEF Linkable, SelectionInv, IncludeConfiguration, SelectionTypeOK, LinkType
<1>2. CASE Missing # {}
  <2>1. PICK o : o = First(Missing) OBVIOUS
  <2>2. o \in link.input /\ o \in link.config BY <1>1, <1>2, <2>1, FirstOf DEF Missing
  <2>3. Include(o) /\ UNCHANGED <<link, phase, preferred>>
    BY <1>2, <2>1 DEF IncludeConfiguration
  <2>4. PICK b : b = Append(selected, o) OBVIOUS
  <2>5. b[Len(selected) + 1] = o BY <1>1, <2>2, <2>4, AppendProperties DEF SelectionTypeOK
  <2>6. Because(link, b, Len(selected) + 1, preferred) BY <2>2, <2>5 DEF Because
  <2>7. /\ InOrder(link, selected, preferred)'
        /\ (preferred # "none" /\ phase # "failed" =>
                  /\ selected # <<>> /\ IsBest(link, preferred, selected[1])
                  /\ \E a : Suited(link, a, preferred))'
    BY <1>1, <2>2, <2>3, <2>4, <2>6, OrderGrows
  <2> QED BY <1>1, <2>3, <2>7 DEF OrderInv
<1>3. CASE Missing = {}
  <2>1. UNCHANGED <<link, selected, preferred>> /\ phase' = "collect"
    BY <1>3 DEF IncludeConfiguration
  <2>2. Configured(link, selected, Len(selected)) BY <1>1, <1>3, Looked
  <2> QED BY <1>1, <2>1, <2>2, OrderStays
<1> QED BY <1>2, <1>3

LEMMA OrderCollect == SelectionInv /\ OrderInv /\ CollectNeeded => OrderInv'
<1> SUFFICES ASSUME SelectionInv, OrderInv, CollectNeeded PROVE OrderInv' OBVIOUS
<1>1. /\ UNCHANGED <<link, selected, preferred>> /\ phase' = "provide"
      /\ source' = 0 /\ pos' = 1 /\ phase = "collect" /\ SelectionTypeOK
  BY DEF CollectNeeded, SelectionInv
<1>2. UpTo(link, selected, Len(selected), 0, 1)
  <2> SUFFICES ASSUME NEW i \in 0..Len(selected), NEW q \in DOMAIN NeedsIn(link, selected, i),
                      i < 0 \/ (i = 0 /\ q < 1)
               PROVE  FALSE
    BY DEF UpTo
  <2>1. Len(selected) \in Nat BY <1>1, Looked
  <2>2. i = 0 /\ q < 1 BY <2>1
  <2>3. q \in DOMAIN Roots BY <2>2 DEF NeedsIn
  <2> QED BY <2>2, <2>3 DEF Roots
<1>3. Configured(link, selected, Len(selected)) BY <1>1 DEF OrderInv
<1>4. UpTo(link, selected, Len(selected), source', pos') BY <1>1, <1>2
<1>5. phase # "failed" BY <1>1
<1> QED BY <1>1, <1>3, <1>4, <1>5, OrderStays

LEMMA OrderNextSource == SelectionInv /\ OrderInv /\ NextSource => OrderInv'
<1> SUFFICES ASSUME SelectionInv, OrderInv, NextSource PROVE OrderInv' OBVIOUS
<1>1. /\ UNCHANGED <<link, selected, preferred>>
      /\ phase = "provide" /\ phase' = phase
      /\ source <= upto /\ pos \notin DOMAIN NeedsOf(source)
      /\ source' = source + 1 /\ pos' = 1
  BY DEF NextSource, InPass
<1>2. /\ SelectionTypeOK /\ Len(selected) \in Nat /\ upto \in Nat /\ source \in Nat
      /\ upto <= Len(selected) /\ pos \in Nat \ {0}
  BY <1>1 DEF SelectionInv, SelectionTypeOK, PassInv
<1>3. ASSUME NEW i \in 0..Len(selected) PROVE NeedsIn(link, selected, i) \in Seq(Symbol)
  <2>1. NeedsOf(i) \in Seq(Symbol) BY <1>2, NeedsType
  <2> QED BY <1>2, <2>1, Looked
<1>4. pos \notin DOMAIN NeedsIn(link, selected, source) BY <1>1, <1>2, Looked
<1>5. UpTo(link, selected, Len(selected), source + 1, 1)
  <2> SUFFICES ASSUME NEW i \in 0..Len(selected), NEW q \in DOMAIN NeedsIn(link, selected, i),
                      i < source + 1 \/ (i = source + 1 /\ q < 1)
               PROVE  Found(link, selected, Len(selected), NeedsIn(link, selected, i)[q])
    BY DEF UpTo
  <2>1. NeedsIn(link, selected, i) \in Seq(Symbol) BY <1>3
  <2>2. q \in Nat /\ q >= 1 BY <2>1
  <2>3. i < source \/ i = source BY <1>2, <2>2
  <2>4. i = source => q < pos
    <3>1. \A s \in Seq(Symbol), t \in Nat \ {0} : \A r \in DOMAIN s : t \notin DOMAIN s => r < t
      OBVIOUS
    <3> QED BY <1>2, <1>4, <2>1, <3>1
  <2>5. UpTo(link, selected, Len(selected), source, pos) BY <1>1 DEF OrderInv
  <2> QED BY <2>3, <2>4, <2>5 DEF UpTo
<1>6. Configured(link, selected, Len(selected)) BY <1>1 DEF OrderInv
<1>7. UpTo(link, selected, Len(selected), source', pos') BY <1>1, <1>5
<1>8. phase # "failed" BY <1>1
<1> QED BY <1>1, <1>6, <1>7, <1>8, OrderStays

LEMMA OrderEndPass == SelectionInv /\ OrderInv /\ EndPass => OrderInv'
<1> SUFFICES ASSUME SelectionInv, OrderInv, EndPass PROVE OrderInv' OBVIOUS
<1>1. /\ UNCHANGED <<link, selected, preferred>>
      /\ phase = "provide" /\ phase' \in {"collect", "selected"}
  BY DEF EndPass
<1>2. Configured(link, selected, Len(selected)) BY <1>1 DEF OrderInv
<1>3. phase # "failed" /\ phase' # "provide" BY <1>1
<1> QED BY <1>1, <1>2, <1>3, OrderStays

LEMMA OrderProvide == SelectionInv /\ OrderInv /\ Provide => OrderInv'
<1> SUFFICES ASSUME SelectionInv, OrderInv, Provide PROVE OrderInv' OBVIOUS
<1> DEFINE L == Len(selected)
<1>1. PICK n : n = NeedsOf(source)[pos] OBVIOUS
<1>2. PICK avail : avail = link.input \ Chosen OBVIOUS
<1>3. /\ phase = "provide" /\ phase' = phase /\ source <= upto
      /\ pos \in DOMAIN NeedsOf(source)
      /\ link' = link /\ preferred' = preferred
      /\ source' = source /\ pos' = pos + 1
  BY DEF Provide, InPass
<1>4. /\ SelectionTypeOK /\ L \in Nat /\ upto \in Nat /\ source \in Nat
      /\ upto <= L /\ pos \in Nat \ {0} /\ Linkable(link)
  BY <1>3 DEF SelectionInv, SelectionTypeOK, PassInv
<1>5. /\ NeedsIn(link, selected, source) = NeedsOf(source) /\ source \in 0..L
      /\ NeedsIn(link, selected, source) \in Seq(Symbol)
  <2>1. source \in 0..L BY <1>3, <1>4
  <2> QED BY <1>4, <2>1, Looked, NeedsType
<1>6. Configured(link, selected, L) /\ UpTo(link, selected, L, source, pos)
  BY <1>3 DEF OrderInv
<1>7. \A q \in DOMAIN NeedsIn(link, selected, source) : q < pos + 1 => q < pos \/ q = pos
  BY <1>4, <1>5
<1>8. CASE ~Exported(n) /\ Providers(n, avail) # {}
  <2>1. PICK o : o = Best(n, avail) OBVIOUS
  <2>2. PICK b : b = Append(selected, o) OBVIOUS
  <2>3. Include(o) BY <1>1, <1>2, <1>8, <2>1 DEF Provide
  <2>4. IsBest(link, n, o) /\ o \in link.input
    <3>1. Chosen \in SUBSET link.input BY <1>4, Looked
    <3>2. \A p \in Chosen : n \notin Exports(p) BY <1>8 DEF Exported
    <3> QED BY <1>2, <1>4, <1>8, <2>1, <3>1, <3>2, BestIsBest
  <2>5. /\ b \in Seq(link.input) /\ Len(b) = L + 1 /\ b[L + 1] = o
        /\ \A l \in 1..L : selected[l] = b[l]
    BY <1>4, <2>2, <2>4, AppendProperties DEF SelectionTypeOK
  <2>12. \A j \in 0..L : NeedsIn(link, selected, j) = NeedsIn(link, b, j)
    <3>1. L \in Nat /\ \A l \in 1..L : selected[l] = b[l] BY <1>4, <2>5
    <3> HIDE DEF L
    <3> QED BY <3>1, PrefixNeeds
  <2>6. Chose(link, b, L + 1, source, pos)
    <3>1. NeedsIn(link, selected, source) = NeedsIn(link, b, source) BY <1>5, <2>12
    <3>2. ~Met(link, selected, L, n) BY <1>4, <1>8, Looked
    <3>3. ~Met(link, b, L, n) BY <1>4, <2>5, <3>2, PrefixNeeds
    <3>4. UpTo(link, b, L, source, pos) BY <1>4, <1>6, <2>5, PrefixNeeds
    <3>5. L + 1 - 1 = L BY <1>4
    <3>6. NeedsIn(link, b, source)[pos] = n BY <1>1, <1>5, <3>1
    <3> QED BY <1>3, <1>5, <2>4, <2>5, <3>1, <3>3, <3>4, <3>5, <3>6 DEF Chose
  <2>7. Because(link, b, L + 1, preferred)
    <3>1. Configured(link, b, L) BY <1>4, <1>6, <2>5, PrefixNeeds
    <3>2. L + 1 - 1 = L BY <1>4
    <3> QED BY <2>6, <3>1, <3>2 DEF Because
  <2>8. phase # "failed" /\ UNCHANGED <<link, phase, preferred>> BY <1>3
  <2>9. /\ InOrder(link, selected, preferred)'
        /\ (preferred # "none" /\ phase # "failed" =>
                  /\ selected # <<>> /\ IsBest(link, preferred, selected[1])
                  /\ \E a : Suited(link, a, preferred))'
        /\ selected' = b
    BY <1>4, <2>2, <2>3, <2>4, <2>7, <2>8, OrderGrows
  <2>10. Configured(link, b, L + 1) BY <1>4, <1>6, <2>5, FoundGrows
  <2>11. UpTo(link, b, L + 1, source, pos + 1)
    <3> SUFFICES ASSUME NEW i \in 0..(L + 1), NEW q \in DOMAIN NeedsIn(link, b, i),
                        i < source \/ (i = source /\ q < pos + 1)
                 PROVE  Found(link, b, L + 1, NeedsIn(link, b, i)[q])
      BY DEF UpTo
    <3>1. i \in 0..L BY <1>5, <1>4
    <3>2. NeedsIn(link, selected, i) = NeedsIn(link, b, i) BY <2>12, <3>1
    <3>3. CASE i = source /\ q = pos
      <4>1. NeedsIn(link, b, i)[q] = n BY <1>1, <1>5, <3>2, <3>3
      <4>2. n \in Exporting(link, b[L + 1]) BY <2>4, <2>5 DEF IsBest
      <4>3. L + 1 \in 1..(L + 1) BY <1>4
      <4> QED BY <4>1, <4>2, <4>3 DEF Found, Met
    <3>4. CASE i < source \/ (i = source /\ q < pos)
      <4>1. Found(link, selected, L, NeedsIn(link, selected, i)[q])
        BY <1>6, <3>1, <3>2, <3>4 DEF UpTo
      <4> QED BY <1>4, <2>5, <3>2, <4>1, FoundGrows
    <3> QED BY <1>7, <3>2, <3>3, <3>4
  <2> QED BY <1>3, <2>5, <2>9, <2>10, <2>11 DEF OrderInv
<1>9. CASE ~(~Exported(n) /\ Providers(n, avail) # {})
  <2>1. UNCHANGED <<link, selected, preferred>>
    BY <1>1, <1>2, <1>3, <1>9 DEF Provide
  <2>2. Settled(n) BY <1>2, <1>9, NobodyElse DEF Settled
  <2>3. Found(link, selected, L, n) BY <1>4, <2>2, Looked
  <2>4. UpTo(link, selected, L, source, pos + 1)
    <3> SUFFICES ASSUME NEW i \in 0..L, NEW q \in DOMAIN NeedsIn(link, selected, i),
                        i < source \/ (i = source /\ q < pos + 1)
                 PROVE  Found(link, selected, L, NeedsIn(link, selected, i)[q])
      BY DEF UpTo
    <3>1. CASE i = source /\ q = pos BY <1>1, <1>5, <2>3, <3>1
    <3>2. CASE i < source \/ (i = source /\ q < pos) BY <1>6, <3>2 DEF UpTo
    <3> QED BY <1>7, <3>1, <3>2
  <2>5. UpTo(link, selected, Len(selected), source', pos') BY <1>3, <2>4
  <2>6. phase # "failed" BY <1>3
  <2> QED BY <1>6, <2>1, <2>5, <2>6, OrderStays
<1> QED BY <1>8, <1>9

LEMMA OrderChoose == SelectionInv /\ OrderInv /\ ChooseStartup => OrderInv'
<1> SUFFICES ASSUME SelectionInv, OrderInv, ChooseStartup PROVE OrderInv' OBVIOUS
<1>1. /\ phase = "selected" /\ link' = link /\ SelectionTypeOK /\ Linkable(link)
      /\ Configured(link, selected, Len(selected))
  BY DEF ChooseStartup, SelectionInv, SelectionTypeOK, OrderInv
<1>2. ASSUME NEW n \in {StartupSimple, StartupData}, Reselect(n), preferred = "none",
             DataIsSafe, n = StartupSimple => SimpleIsSafe
      PROVE  OrderInv'
  <2>1. n # "none" BY <1>2 DEF StartupSimple, StartupData
  <2>2. preferred' = n BY <1>2 DEF Reselect
  <2>3. CASE Providers(n, link.input) = {}
    <3>1. phase' = "failed" /\ selected' = selected BY <1>2, <2>3 DEF Reselect
    <3>2. InOrder(link, selected, n) BY <1>2, <2>1 DEF OrderInv, InOrder, Because
    <3> QED BY <1>1, <2>2, <3>1, <3>2 DEF OrderInv
  <2>4. CASE Providers(n, link.input) # {}
    <3>1. PICK o : o = Best(n, link.input) OBVIOUS
    <3>2. phase' = "begin" /\ selected' = <<o>> BY <1>2, <2>4, <3>1 DEF Reselect
    <3>3. IsBest(link, n, o)
      <4>1. link.input \ {} = link.input OBVIOUS
      <4>2. PICK T : T = {} OBVIOUS
      <4>3. T \in SUBSET link.input /\ link.input \ T = link.input BY <4>1, <4>2
      <4>4. \A p \in T : n \notin Exports(p) BY <4>2
      <4> QED BY <1>1, <2>4, <3>1, <4>3, <4>4, BestIsBest
    <3>4. InOrder(link, <<o>>, n)
      <4>1. \A i \in 1..Len(<<o>>) : i = 1 OBVIOUS
      <4> QED BY <2>1, <4>1 DEF InOrder, Because
    <3>5. Suited(link, selected, n)
      <4>1. /\ selected \in Seq(link.input) /\ DOMAIN selected = 1..Len(selected)
            /\ Distinct(selected)
        BY <1>1, Looked DEF SelectionTypeOK, Distinct
      <4>2. InOrder(link, selected, "none") BY <1>2 DEF OrderInv
      <4>3. \A j \in 0..Len(selected) : \A p \in DOMAIN NeedsIn(link, selected, j) :
               Found(link, selected, Len(selected), NeedsIn(link, selected, j)[p])
        BY <1>1, Looked DEF SelectionInv, EndInv, SettledAt
      <4>4. \A i \in 1..Len(selected) : selected[i] \notin link.noinit
        BY <1>2, <4>1 DEF DataIsSafe, Chosen
      <4>5. n = StartupSimple =>
               \A i \in 1..Len(selected) : selected[i] \notin link.copy \cup link.init
        BY <1>2, <4>1 DEF SimpleIsSafe, Chosen
      <4> QED BY <1>1, <4>1, <4>2, <4>3, <4>4, <4>5 DEF Suited, Complete
    <3>6. <<o>> # <<>> /\ <<o>>[1] = o OBVIOUS
    <3> QED BY <1>1, <2>2, <3>2, <3>3, <3>4, <3>5, <3>6 DEF OrderInv
  <2> QED BY <2>3, <2>4
<1>3. CASE phase' = "linked" /\ UNCHANGED <<selected, preferred>>
  <2>1. UNCHANGED <<link, selected, preferred>> /\ phase # "failed" BY <1>1, <1>3
  <2> QED BY <1>1, <1>3, <2>1, OrderStays
<1>4. CASE preferred = "none" /\ HaveExport(StartupFull) /\ DataIsSafe
  <2>1. PICK n : n = IF SimpleIsSafe THEN StartupSimple ELSE StartupData OBVIOUS
  <2>2. n \in {StartupSimple, StartupData} /\ (n = StartupSimple => SimpleIsSafe)
    BY <2>1 DEF StartupSimple, StartupData
  <2>3. Reselect(n) BY <1>4, <2>1 DEF ChooseStartup
  <2> QED BY <1>2, <1>4, <2>2, <2>3
<1>5. CASE ~(preferred = "none" /\ HaveExport(StartupFull) /\ DataIsSafe)
  BY <1>3, <1>5 DEF ChooseStartup
<1> QED BY <1>4, <1>5

LEMMA OrderStep == SelectionInv /\ OrderInv /\ [Next]_vars => OrderInv'
<1> SUFFICES ASSUME SelectionInv, OrderInv, [Next]_vars PROVE OrderInv' OBVIOUS
<1>1. CASE UNCHANGED vars BY <1>1 DEF vars, scan, OrderInv
<1> QED BY <1>1, OrderConfiguration, OrderCollect, OrderProvide, OrderNextSource,
           OrderEndPass, OrderChoose DEF Next

\* The needs are met one after the other, in the order of the objects that have them.
THEOREM OrderInvHolds == Spec => []OrderInv
BY InitIsIdle, OrderIdle, OrderStep, SelectionInvHolds, PTL DEF Spec

-----------------------------------------------------------------------------
(* A reset shim is found first. *)

\* The first that exports what some export.
LEMMA FirstMet ==
    ASSUME NEW k, NEW a, NEW m \in Nat, NEW n, Met(k, a, m, n)
    PROVE  \E l \in 1..m : n \in Exporting(k, a[l]) /\ ~Met(k, a, l - 1, n)
<1> DEFINE R == {l \in 1..m : n \in Exporting(k, a[l])}
<1>1. R \in SUBSET Nat /\ R # {} BY DEF Met
<1>2. PICK r \in R : \A i \in R : ~ (<<i, r>> \in OpToRel(<, Nat))
  BY <1>1, NatLessThanWellFounded, WFMin
<1>3. OpToRel(<, Nat) = {ss \in Nat \X Nat : ss[1] < ss[2]} BY Zenon DEF OpToRel
<1>4. \A i \in R : ~ (<<i, r>> \in {ss \in Nat \X Nat : ss[1] < ss[2]})
  BY <1>2, <1>3, Zenon
<1>5. \A i \in R : ~ (i < r)
  <2> SUFFICES ASSUME NEW i \in R, i < r PROVE FALSE OBVIOUS
  <2>1. i \in Nat /\ r \in Nat BY <1>1
  <2> QED BY <1>4, <2>1
<1>6. r \in 1..m /\ n \in Exporting(k, a[r]) OBVIOUS
<1>7. ASSUME NEW l \in 1..(r - 1), n \in Exporting(k, a[l]) PROVE FALSE
  <2>1. l \in R /\ l < r BY <1>6, <1>7
  <2> QED BY <1>5, <2>1
<1> QED BY <1>6, <1>7 DEF Met

\* Nothing that only configures the link exports __reset, and the first pass looks
\* for it first of all.
LEMMA ShimIsFirst ==
    ASSUME SelectionInv, OrderInv, \A o \in link.config : "__reset" \notin Exports(o)
    PROVE  ShimKeptUnlessReselected
<1> SUFFICES ASSUME phase = "linked", preferred = "none",
                    NEW s \in link.input, "__reset" \in link.strong[s]
             PROVE  HaveExport("__reset")
  BY DEF ShimKeptUnlessReselected
<1> DEFINE n == "__reset"
           L == Len(selected)
<1>1. SelectionTypeOK /\ L \in Nat /\ DOMAIN selected = 1..L BY Looked DEF SelectionInv
<1>2. \A i : 1 \in DOMAIN NeedsIn(link, i, 0) /\ NeedsIn(link, i, 0)[1] = n
  BY DEF NeedsIn, Roots
<1>3. n \in Exporting(link, s) BY DEF Exporting
<1>4. Met(link, selected, L, n)
  <2>1. SettledAt(0) BY <1>1 DEF SelectionInv, EndInv
  <2>2. 1 \in DOMAIN NeedsOf(0) /\ NeedsOf(0)[1] = n BY DEF NeedsOf, Roots
  <2>3. Settled(n) BY <2>1, <2>2 DEF SettledAt
  <2> QED BY <1>1, <1>3, <2>3, Looked DEF Found
<1>5. PICK l \in 1..L : n \in Exporting(link, selected[l]) /\ ~Met(link, selected, l - 1, n)
  BY <1>1, <1>4, FirstMet
<1>6. selected[l] \notin link.config BY <1>5 DEF Exporting, Exports
<1>7. PICK j, p : Chose(link, selected, l, j, p)
  BY <1>6 DEF OrderInv, InOrder, Because
<1>8. ~Found(link, selected, l - 1, n) BY <1>3, <1>5 DEF Found
<1>9. ~(0 < j \/ (0 = j /\ 1 < p))
  <2>1. 0 \in 0..(l - 1) BY <1>1
  <2> QED BY <1>2, <1>7, <1>8, <2>1 DEF Chose, UpTo
<1>10. j = 0 BY <1>1, <1>7, <1>9 DEF Chose
<1>11. p = 1 BY <1>7, <1>9, <1>10 DEF Chose, NeedsIn, Roots
<1>12. IsBest(link, n, selected[l]) BY <1>2, <1>7, <1>10, <1>11 DEF Chose
<1>13. n \in link.strong[selected[l]] BY <1>3, <1>12 DEF IsBest
<1> QED BY <1>1, <1>13 DEF HaveExport, Chosen

\* A strong __reset given before or after the runtime is linked, unless a smaller
\* startup is chosen.
THEOREM ShimKeptHolds ==
    Spec => []((\A o \in link.config : "__reset" \notin Exports(o)) => ShimKeptUnlessReselected)
<1>1. SelectionInv /\ OrderInv =>
         ((\A o \in link.config : "__reset" \notin Exports(o)) => ShimKeptUnlessReselected)
  BY ShimIsFirst
<1> QED BY <1>1, SelectionInvHolds, OrderInvHolds, PTL

-----------------------------------------------------------------------------
(* The second selection is part of the first. *)

StartupName == {StartupFull, StartupData, StartupSimple}

\* What a startup needs beside main.
Helping(o) ==
    \E s \in link.input : /\ IsStartup(s)
                          /\ \E q \in DOMAIN link.undef[s] :
                                link.undef[s][q] # "main" /\ link.undef[s][q] \in Exports(o)
\* The program's own objects.
Own(o) == ~IsStartup(o) /\ o \notin link.config /\ ~Helping(o)

\* What is known of the objects of the stock runtime.
LEMMA StartupFacts ==
    ASSUME StockRuntime, NEW s \in link.input, IsStartup(s)
    PROVE  /\ \E n \in StartupName : link.strong[s] = {n} /\ Exporting(link, s) = {n} \cup Vector
           /\ link.weak[s] = Vector
           /\ \E q \in DOMAIN link.undef[s] : link.undef[s][q] = "main"
           /\ s \notin link.config
           /\ s \notin link.noinit \cup link.copy \cup link.init
           /\ \E f \in link.input : StartupFull \in link.strong[f] /\ link.rank[f] <= link.rank[s]
BY DEF StockRuntime, StockStartup, StartupName, Exporting

LEMMA OtherFacts ==
    ASSUME StockRuntime, NEW o \in link.input, ~IsStartup(o)
    PROVE  /\ Vector \cap Exporting(link, o) = {}
           /\ o \in link.config => link.undef[o] = <<>>
BY DEF StockRuntime, Exporting, Exports

LEMMA ImportFacts ==
    ASSUME StockRuntime, NEW o \in link.input, NEW p \in DOMAIN link.undef[o]
    PROVE  link.undef[o][p] \notin StartupName
BY DEF StockRuntime, StartupName

LEMMA HelpingFacts ==
    ASSUME StockRuntime, NEW o \in link.input, Helping(o)
    PROVE  /\ \E s \in link.input : \E q \in DOMAIN link.undef[s] :
                  /\ IsStartup(s) /\ link.undef[s][q] # "main"
                  /\ Exporting(link, o) = {link.undef[s][q]}
           /\ link.undef[o] = <<>>
           /\ o \notin link.noinit \cup link.copy \cup link.init
<1>4. PICK s \in link.input :
         /\ IsStartup(s)
         /\ \E q \in DOMAIN link.undef[s] :
               link.undef[s][q] # "main" /\ link.undef[s][q] \in Exports(o)
  BY DEF Helping
<1>1. PICK q \in DOMAIN link.undef[s] :
         /\ IsStartup(s) /\ link.undef[s][q] # "main" /\ link.undef[s][q] \in Exports(o)
  BY <1>4
<1>2. o \in Providers(link.undef[s][q], link.input) BY <1>1 DEF Providers
<1>3. /\ Exports(o) = {link.undef[s][q]} /\ link.undef[o] = <<>>
      /\ o \notin link.noinit \cup link.copy \cup link.init
  BY <1>1, <1>2 DEF StockRuntime
<1> QED BY <1>1, <1>3 DEF Exporting, Exports

\* Why an object of the program is selected: for a need of another, or for main.
Wanted(a, j, n) ==
    /\ j # 0 /\ (Own(a[j]) \/ (IsStartup(a[j]) /\ n = "main"))
    /\ \A o \in link.input : n \in Exporting(link, o) => Own(o) \/ o \in link.config

LEMMA OwnIsWanted ==
    ASSUME StockRuntime, NEW a \in Seq(link.input), NEW i \in 1..Len(a), Own(a[i]),
           NEW j, NEW p, Chose(link, a, i, j, p), NEW n, n = NeedsIn(link, a, j)[p]
    PROVE  Wanted(a, j, n)
<1>1. /\ j \in 0..(i - 1) /\ p \in DOMAIN NeedsIn(link, a, j)
      /\ n \in Exporting(link, a[i]) /\ a[i] \in link.input
  BY DEF Chose, IsBest
<1>2. n \notin Vector BY <1>1, OtherFacts DEF Own
<1>3. j # 0
  <2> SUFFICES ASSUME j = 0 PROVE FALSE OBVIOUS
  <2>1. n = Roots[p] /\ p \in DOMAIN Roots BY <1>1 DEF NeedsIn
  <2> QED BY <1>2, <2>1 DEF Roots, Vector
<1>4. /\ j \in 1..Len(a) /\ a[j] \in link.input /\ NeedsIn(link, a, j) = link.undef[a[j]]
  BY <1>1, <1>3 DEF NeedsIn
<1>5. n \notin StartupName BY <1>1, <1>4, ImportFacts
<1>6. ASSUME NEW o \in link.input, Helping(o), n \in Exporting(link, o) PROVE FALSE
  <2>1. PICK s \in link.input : \E q \in DOMAIN link.undef[s] :
                  /\ IsStartup(s) /\ link.undef[s][q] # "main"
                  /\ Exporting(link, o) = {link.undef[s][q]}
    BY <1>6, HelpingFacts
  <2>2. Helping(a[i]) BY <1>1, <1>6, <2>1 DEF Helping, Exporting, Exports
  <2> QED BY <2>2 DEF Own
<1>7. ASSUME NEW o \in link.input, IsStartup(o), n \in Exporting(link, o) PROVE FALSE
  BY <1>2, <1>5, <1>7, StartupFacts
<1>8. a[j] \notin link.config \/ IsStartup(a[j]) BY <1>1, <1>4, OtherFacts
<1>9. CASE IsStartup(a[j])
  <2>1. n = "main"
    <3> SUFFICES ASSUME n # "main" PROVE FALSE OBVIOUS
    <3>1. Helping(a[i]) BY <1>1, <1>4, <1>9 DEF Helping, Exporting, Exports
    <3> QED BY <3>1 DEF Own
  <2> QED BY <1>3, <1>6, <1>7, <1>9, <2>1 DEF Wanted, Own
<1>10. CASE ~IsStartup(a[j])
  <2>1. ~Helping(a[j])
    <3> SUFFICES ASSUME Helping(a[j]) PROVE FALSE OBVIOUS
    <3>1. link.undef[a[j]] = <<>> BY <1>4, HelpingFacts
    <3> QED BY <1>1, <1>4, <3>1
  <2> QED BY <1>3, <1>6, <1>7, <1>8, <1>10, <2>1 DEF Wanted, Own
<1> QED BY <1>9, <1>10

\* Before anything is selected for an import, a startup is.
LEMMA StartupBefore ==
    ASSUME StockRuntime, NEW a \in Seq(link.input), NEW m \in 0..Len(a),
           Found(link, a, m, "__reset"), NEW s \in link.input, IsStartup(s)
    PROVE  \E l \in 1..m : /\ IsStartup(a[l]) /\ a[l] \in link.input
                           /\ \E q \in DOMAIN link.undef[a[l]] : link.undef[a[l]][q] = "main"
<1>1. "__reset" \in Exporting(link, s) BY StartupFacts DEF Vector
<1>2. PICK l \in 1..m : "__reset" \in Exporting(link, a[l]) BY <1>1 DEF Found, Met
<1>3. a[l] \in link.input OBVIOUS
<1>4. IsStartup(a[l]) BY <1>2, <1>3, OtherFacts DEF Vector
<1> QED BY <1>3, <1>4, StartupFacts

LEMMA ResetFound ==
    ASSUME NEW a, NEW i \in Nat \ {0}, NEW j, NEW p, Chose(link, a, i, j, p), j # 0
    PROVE  Found(link, a, i - 1, "__reset")
<1>1. 0 \in 0..(i - 1) /\ 0 < j BY DEF Chose
<1>2. 1 \in DOMAIN NeedsIn(link, a, 0) /\ NeedsIn(link, a, 0)[1] = "__reset"
  BY DEF NeedsIn, Roots
<1> QED BY <1>1, <1>2 DEF Chose, UpTo

\* Induction from one number to another.
LEMMA FromTo ==
    ASSUME NEW a \in Nat, NEW b \in Nat, NEW S, a \in S,
           \A i \in (a + 1)..b : i - 1 \in S => i \in S
    PROVE  \A i \in a..b : i \in S
<1> SUFFICES ASSUME NEW k \in a..b, k \notin S PROVE FALSE OBVIOUS
<1> DEFINE Bad == {i \in a..b : i \notin S}
<1>1. Bad \in SUBSET Nat /\ Bad # {} OBVIOUS
<1>2. PICK r \in Bad : \A m \in Bad : ~ (<<m, r>> \in OpToRel(<, Nat))
  BY <1>1, NatLessThanWellFounded, WFMin
<1>3. OpToRel(<, Nat) = {ss \in Nat \X Nat : ss[1] < ss[2]} BY Zenon DEF OpToRel
<1>4. r \in a..b /\ r \notin S /\ r # a OBVIOUS
<1>5. r - 1 \in Nat /\ r \in Nat /\ r - 1 < r /\ r - 1 \in a..b /\ r \in (a + 1)..b
  BY <1>4
<1>6. r - 1 \notin S BY <1>4, <1>5
<1>7. r - 1 \in Bad BY <1>5, <1>6
<1>8. ~ (<<r - 1, r>> \in {ss \in Nat \X Nat : ss[1] < ss[2]})
  BY <1>2, <1>3, <1>7, Zenon
<1> QED BY <1>5, <1>8

\* The first of some numbers up to m that are in S.
LEMMA FirstIn ==
    ASSUME NEW t \in Nat, NEW m \in Nat, NEW S, NEW u \in (t + 1)..m, u \in S
    PROVE  \E r \in (t + 1)..m : r \in S /\ \A l \in (t + 1)..(r - 1) : l \notin S
<1> DEFINE R == {l \in (t + 1)..m : l \in S}
<1>1. R \in SUBSET Nat /\ R # {} OBVIOUS
<1>2. PICK r \in R : \A i \in R : ~ (<<i, r>> \in OpToRel(<, Nat))
  BY <1>1, NatLessThanWellFounded, WFMin
<1>3. OpToRel(<, Nat) = {ss \in Nat \X Nat : ss[1] < ss[2]} BY Zenon DEF OpToRel
<1>4. \A i \in R : ~ (<<i, r>> \in {ss \in Nat \X Nat : ss[1] < ss[2]})
  BY <1>2, <1>3, Zenon
<1>5. ASSUME NEW l \in (t + 1)..(r - 1), l \in S PROVE FALSE
  <2>1. r \in Nat /\ r <= m /\ l \in Nat /\ l < r BY <1>1
  <2>2. l \in R BY <1>5, <2>1
  <2> QED BY <1>4, <2>1, <2>2
<1> QED BY <1>5

\* The program's objects among the first i of b are those among the first t of a, in
\* the same order.
Prefix(a, b, i, t) ==
    /\ t \in 0..Len(a)
    /\ \A m \in 1..i : Own(b[m]) => \E l \in 1..t : a[l] = b[m]
    /\ \A l \in 1..t : Own(a[l]) => \E m \in 1..i : b[m] = a[l]
    /\ \A m1, m2 \in 1..i, l1, l2 \in 1..t :
          (Own(b[m1]) /\ Own(b[m2]) /\ a[l1] = b[m1] /\ a[l2] = b[m2]) => (m1 < m2 <=> l1 < l2)

\* What is met by the program's objects before is met by the same in the other.
LEMMA SameMet ==
    ASSUME NEW a \in Seq(link.input), NEW b \in Seq(link.input), NEW i \in 1..Len(b),
           NEW u \in 1..Len(a), NEW t, t \in 0..(u - 1), Prefix(a, b, i - 1, t),
           \A l \in (t + 1)..(u - 1) : ~Own(a[l]),
           Configured(link, a, u - 1), Configured(link, b, i - 1), NEW n,
           \A o \in link.input : n \in Exporting(link, o) => Own(o) \/ o \in link.config
    PROVE  Met(link, a, u - 1, n) <=> Met(link, b, i - 1, n)
<1>1. ASSUME NEW l \in 1..(u - 1), n \in Exporting(link, a[l]) PROVE Met(link, b, i - 1, n)
  <2>1. a[l] \in link.input OBVIOUS
  <2>2. CASE a[l] \in link.config
    <3>1. PICK m \in 1..(i - 1) : b[m] = a[l] BY <2>2 DEF Configured
    <3> QED BY <1>1, <3>1 DEF Met
  <2>3. CASE Own(a[l])
    <3>1. l \in 1..t BY <2>3
    <3>2. PICK m \in 1..(i - 1) : b[m] = a[l] BY <2>3, <3>1 DEF Prefix
    <3> QED BY <1>1, <3>2 DEF Met
  <2> QED BY <1>1, <2>1, <2>2, <2>3
<1>2. ASSUME NEW m \in 1..(i - 1), n \in Exporting(link, b[m]) PROVE Met(link, a, u - 1, n)
  <2>1. b[m] \in link.input OBVIOUS
  <2>2. CASE b[m] \in link.config
    <3>1. PICK l \in 1..(u - 1) : a[l] = b[m] BY <2>2 DEF Configured
    <3> QED BY <1>2, <3>1 DEF Met
  <2>3. CASE Own(b[m])
    <3>1. PICK l \in 1..t : a[l] = b[m] BY <2>3 DEF Prefix
    <3>2. l \in 1..(u - 1) OBVIOUS
    <3> QED BY <1>2, <3>1, <3>2 DEF Met
  <2> QED BY <1>2, <2>1, <2>2, <2>3
<1> QED BY <1>1, <1>2 DEF Met

\* The u-th of a and the i-th of b are the next objects of the program.
Aligned(a, b, q0, i, u, t) ==
    /\ StockRuntime /\ Linkable(link)
    /\ a \in Seq(link.input) /\ Distinct(a) /\ InOrder(link, a, "none")
    /\ b \in Seq(link.input) /\ IsStartup(b[1]) /\ InOrder(link, b, q0)
    /\ i \in 2..Len(b) /\ u \in 1..Len(a)
    /\ t \in 0..(u - 1) /\ Prefix(a, b, i - 1, t)
    /\ \A l \in (t + 1)..(u - 1) : ~Own(a[l])
    /\ Own(a[u]) /\ Own(b[i])

\* They are selected for the same need.
LEMMA SameNeed ==
    ASSUME NEW a, NEW b, NEW q0, NEW i, NEW u, NEW t, Aligned(a, b, q0, i, u, t),
           NEW j, NEW p, Chose(link, b, i, j, p), NEW r, NEW v, Chose(link, a, u, r, v),
           ~Found(link, a, u - 1, NeedsIn(link, b, j)[p]),
           ~Found(link, b, i - 1, NeedsIn(link, a, r)[v])
    PROVE  NeedsIn(link, b, j)[p] = NeedsIn(link, a, r)[v]
<1>11. /\ StockRuntime /\ Linkable(link)
       /\ a \in Seq(link.input) /\ Distinct(a) /\ InOrder(link, a, "none")
       /\ b \in Seq(link.input) /\ IsStartup(b[1]) /\ InOrder(link, b, q0)
       /\ i \in 2..Len(b) /\ u \in 1..Len(a)
       /\ t \in 0..(u - 1) /\ Prefix(a, b, i - 1, t)
       /\ \A l \in (t + 1)..(u - 1) : ~Own(a[l])
       /\ Own(a[u]) /\ Own(b[i])
  BY DEF Aligned
<1> USE <1>11
<1>10. PICK n, w : n = NeedsIn(link, b, j)[p] /\ w = NeedsIn(link, a, r)[v] OBVIOUS
<1> SUFFICES ASSUME ~Found(link, a, u - 1, n), ~Found(link, b, i - 1, w) PROVE n = w
  BY <1>10
<1>1. Wanted(b, j, n) /\ Wanted(a, r, w) BY <1>10, OwnIsWanted
<1>2. /\ j \in 1..(i - 1) /\ p \in DOMAIN NeedsIn(link, b, j)
      /\ r \in 1..(u - 1) /\ v \in DOMAIN NeedsIn(link, a, r)
  BY <1>1 DEF Chose, Wanted
<1>3. /\ j \in 1..Len(b) /\ r \in 1..Len(a) /\ b[1] \in link.input /\ 1 \in 1..Len(b)
      /\ a[r] \in link.input /\ b[j] \in link.input
  BY <1>2
<1>4. /\ NeedsIn(link, b, j) = link.undef[b[j]] /\ NeedsIn(link, a, r) = link.undef[a[r]]
  BY <1>2 DEF NeedsIn
<1>5. CASE IsStartup(b[j]) /\ IsStartup(a[r])
  BY <1>1, <1>5 DEF Wanted, Own
<1>6. CASE IsStartup(b[j]) /\ Own(a[r])
  <2>1. n = "main" BY <1>1, <1>6 DEF Wanted, Own
  <2>2. a[r] \notin link.config /\ r # 0 BY <1>2, <1>6 DEF Own
  <2>3. PICK r1, v1 : Chose(link, a, r, r1, v1)
    BY <1>3, <2>2 DEF InOrder, Because
  <2>4. r1 # 0 BY <1>3, <1>6, <2>3, OwnIsWanted DEF Wanted
  <2>5. Found(link, a, r - 1, "__reset") BY <1>2, <2>3, <2>4, ResetFound
  <2>6. r - 1 \in 0..Len(a) BY <1>3
  <2>7. PICK l \in 1..(r - 1) : /\ IsStartup(a[l])
                                /\ \E z \in DOMAIN link.undef[a[l]] : link.undef[a[l]][z] = "main"
    BY <1>3, <2>5, <2>6, StartupBefore
  <2>8. l \in 0..(u - 1) /\ l < r /\ NeedsIn(link, a, l) = link.undef[a[l]]
    <3>1. u \in Nat /\ r \in Nat /\ l \in Nat /\ r <= u - 1 /\ 1 <= l /\ l <= r - 1 BY <1>2, <1>3
    <3>2. l \in 0..(u - 1) /\ l < r /\ l # 0 BY ONLY <3>1
    <3> QED BY <3>2 DEF NeedsIn
  <2>9. Found(link, a, u - 1, n) BY <1>10, <2>1, <2>7, <2>8 DEF Chose, UpTo
  <2> QED BY <2>9
<1>7. CASE Own(b[j]) /\ IsStartup(a[r])
  <2>1. w = "main" BY <1>1, <1>7 DEF Wanted, Own
  <2>2. j # 1 BY <1>7 DEF Own
  <2>3. 1 \in 0..(i - 1) /\ 1 < j /\ NeedsIn(link, b, 1) = link.undef[b[1]]
    BY <1>2, <2>2 DEF NeedsIn
  <2>4. \E z \in DOMAIN link.undef[b[1]] : link.undef[b[1]][z] = "main"
    BY <1>3, StartupFacts
  <2>5. Found(link, b, i - 1, w) BY <1>10, <2>1, <2>3, <2>4 DEF Chose, UpTo
  <2> QED BY <2>5
<1>8. CASE Own(b[j]) /\ Own(a[r])
  <2>1. PICK s \in 1..t : a[s] = b[j] BY <1>2, <1>8 DEF Prefix
  <2>2. r \in 1..t BY <1>2, <1>8
  <2>3. PICK m \in 1..(i - 1) : b[m] = a[r] BY <1>8, <2>2 DEF Prefix
  <2>4. /\ NeedsIn(link, a, s) = link.undef[b[j]] /\ s \in 0..(u - 1) /\ s \in 1..Len(a)
        /\ NeedsIn(link, b, m) = link.undef[a[r]] /\ m \in 0..(i - 1)
    BY <2>1, <2>3 DEF NeedsIn
  <2>5. ~(s < r \/ (s = r /\ p < v))
    BY <1>2, <1>4, <1>10, <2>4 DEF Chose, UpTo
  <2>6. ~(m < j \/ (m = j /\ v < p))
    BY <1>2, <1>4, <1>10, <2>4 DEF Chose, UpTo
  <2>7. j < m <=> s < r BY <1>2, <1>8, <2>1, <2>2, <2>3 DEF Prefix
  <2>8. m = j BY <1>2, <2>3, <2>5, <2>6, <2>7
  <2>9. s = r BY <1>3, <2>1, <2>3, <2>4, <2>8 DEF Distinct
  <2>10. p \in Nat /\ v \in Nat
    <3>2. link.undef \in [Object -> Seq(Symbol)] /\ link.input \subseteq Object
      BY DEF Linkable, LinkType
    <3>1. link.undef[b[j]] \in Seq(Symbol) /\ link.undef[a[r]] \in Seq(Symbol)
      BY <1>3, <3>2
    <3>3. \A z \in Seq(Symbol) : \A x \in DOMAIN z : x \in Nat OBVIOUS
    <3>4. p \in DOMAIN link.undef[b[j]] /\ v \in DOMAIN link.undef[a[r]] BY <1>2, <1>4
    <3> QED BY <3>1, <3>3, <3>4
  <2>11. p = v BY <2>5, <2>6, <2>8, <2>9, <2>10
  <2> QED BY <1>4, <1>10, <2>1, <2>9, <2>11
<1> QED BY <1>1, <1>5, <1>6, <1>7, <1>8 DEF Wanted

\* One object of b more.
LEMMA PrefixStep ==
    ASSUME StockRuntime, Linkable(link),
           NEW a \in Seq(link.input), Distinct(a), InOrder(link, a, "none"), Complete(link, a),
           NEW b \in Seq(link.input), IsStartup(b[1]), NEW q0, InOrder(link, b, q0),
           Distinct(b), NEW i \in 2..Len(b), NEW t, Prefix(a, b, i - 1, t)
    PROVE  \E u : Prefix(a, b, i, u)
<1>1. b[1] \in link.input /\ b[i] \in link.input /\ t \in 0..Len(a) BY DEF Prefix
<1>2. CASE ~Own(b[i])
  <2>1. \A m \in 1..i : Own(b[m]) => m \in 1..(i - 1) BY <1>2
  <2>2. \A m \in 1..(i - 1) : m \in 1..i OBVIOUS
  <2>3. Prefix(a, b, i, t) BY <2>1, <2>2 DEF Prefix
  <2> QED BY <2>3
<1>3. CASE Own(b[i])
  <2>1. PICK j, p : Configured(link, b, i - 1) /\ Chose(link, b, i, j, p)
    BY <1>3 DEF InOrder, Because, Own
  <2>2. PICK n : n = NeedsIn(link, b, j)[p] OBVIOUS
  <2>3. Wanted(b, j, n) BY <1>3, <2>1, <2>2, OwnIsWanted
  <2>4. /\ n \in Exporting(link, b[i]) /\ IsBest(link, n, b[i])
        /\ ~Met(link, b, i - 1, n) /\ j \in 1..(i - 1) /\ p \in DOMAIN NeedsIn(link, b, j)
    BY <2>1, <2>2, <2>3 DEF Chose, IsBest, Wanted
  <2>5. Met(link, a, Len(a), n)
    <3> SUFFICES ASSUME NEW s \in 0..Len(a), NEW q \in DOMAIN NeedsIn(link, a, s),
                        NeedsIn(link, a, s)[q] = n
                 PROVE  Met(link, a, Len(a), n)
      <4>1. CASE Own(b[j])
        <5>1. PICK s \in 1..t : a[s] = b[j] BY <2>4, <4>1 DEF Prefix
        <5>2. s \in 0..Len(a) /\ NeedsIn(link, a, s) = NeedsIn(link, b, j)
          BY <1>1, <2>4, <5>1 DEF NeedsIn
        <5> QED BY <2>2, <2>4, <5>2
      <4>2. CASE IsStartup(b[j]) /\ n = "main"
        <5>1. 0 \in 0..Len(a) /\ 1 \in DOMAIN NeedsIn(link, a, 0)
              /\ NeedsIn(link, a, 0)[1] = "__reset"
          BY DEF NeedsIn, Roots
        <5>2. Found(link, a, Len(a), "__reset") BY <5>1 DEF Complete
        <5>3. Len(a) \in 0..Len(a) OBVIOUS
        <5>4. PICK s \in 1..Len(a) :
                 \E q \in DOMAIN link.undef[a[s]] : link.undef[a[s]][q] = "main"
          BY <1>1, <5>2, <5>3, StartupBefore
        <5>5. s \in 0..Len(a) /\ NeedsIn(link, a, s) = link.undef[a[s]] BY DEF NeedsIn
        <5> QED BY <4>2, <5>4, <5>5
      <4> QED BY <2>3, <4>1, <4>2 DEF Wanted
    <3>1. Found(link, a, Len(a), n) BY DEF Complete
    <3> QED BY <1>1, <2>4, <3>1 DEF Found
  <2>6. PICK x \in 1..Len(a) : n \in Exporting(link, a[x]) BY <2>5 DEF Met
  <2>7. Own(a[x])
    <3>1. a[x] \in link.input OBVIOUS
    <3>2. a[x] \notin link.config
      <4> SUFFICES ASSUME a[x] \in link.config PROVE FALSE OBVIOUS
      <4>1. PICK m \in 1..(i - 1) : b[m] = a[x] BY <2>1 DEF Configured
      <4> QED BY <2>4, <2>6, <4>1 DEF Met
    <3> QED BY <2>3, <2>6, <3>1, <3>2 DEF Wanted
  <2>8. x \in (t + 1)..Len(a)
    <3> SUFFICES ASSUME x \in 1..t PROVE FALSE BY <1>1
    <3>1. PICK m \in 1..(i - 1) : b[m] = a[x] BY <2>7 DEF Prefix
    <3> QED BY <2>4, <2>6, <3>1 DEF Met
  <2>9. PICK u \in (t + 1)..Len(a) : Own(a[u]) /\ \A l \in (t + 1)..(u - 1) : ~Own(a[l])
    <3> DEFINE S == {l \in 1..Len(a) : Own(a[l])}
    <3>1. t \in Nat /\ Len(a) \in Nat /\ x \in S BY <1>1, <2>7, <2>8
    <3>2. PICK u \in (t + 1)..Len(a) : u \in S /\ \A l \in (t + 1)..(u - 1) : l \notin S
      <4> HIDE DEF S
      <4> QED BY <2>8, <3>1, FirstIn
    <3>3. \A l \in (t + 1)..(u - 1) : l \in 1..Len(a) BY <1>1
    <3> QED BY <3>2, <3>3
  <2>10. /\ u \in 1..Len(a) /\ t \in 0..(u - 1) /\ a[u] \in link.input
    BY <1>1, <2>9
  <2>11. PICK r, v : Configured(link, a, u - 1) /\ Chose(link, a, u, r, v)
    BY <2>9, <2>10 DEF InOrder, Because, Own
  <2>12. PICK w : w = NeedsIn(link, a, r)[v] OBVIOUS
  <2>13. Wanted(a, r, w) BY <2>9, <2>10, <2>11, <2>12, OwnIsWanted
  <2>14. IsBest(link, w, a[u]) /\ ~Met(link, a, u - 1, w) /\ w \in Exporting(link, a[u])
    BY <2>11, <2>12 DEF Chose, IsBest
  <2>15. i \in 1..Len(b) OBVIOUS
  <2>16. ~Met(link, a, u - 1, n)
    BY <2>1, <2>3, <2>4, <2>9, <2>10, <2>11, <2>15, SameMet DEF Wanted
  <2>17. ~Met(link, b, i - 1, w)
    BY <2>1, <2>9, <2>10, <2>11, <2>13, <2>14, <2>15, SameMet DEF Wanted
  <2>18. ~Found(link, a, u - 1, n) /\ ~Found(link, b, i - 1, w)
    BY <1>1, <2>4, <2>10, <2>14, <2>16, <2>17 DEF Found
  <2>19. n = w
    <3>1. \A l \in (t + 1)..(u - 1) : ~Own(a[l]) BY <2>9
    <3>2. /\ ~Found(link, a, u - 1, NeedsIn(link, b, j)[p])
          /\ ~Found(link, b, i - 1, NeedsIn(link, a, r)[v])
      BY <2>2, <2>12, <2>18
    <3>3. Aligned(a, b, q0, i, u, t) BY <1>3, <2>9, <2>10, <3>1 DEF Aligned
    <3>4. NeedsIn(link, b, j)[p] = NeedsIn(link, a, r)[v]
      BY <2>1, <2>11, <3>2, <3>3, SameNeed
    <3> QED BY <2>2, <2>12, <3>4
  <2>20. b[i] = a[u] BY <2>4, <2>14, <2>19, BestIsUnique
  <2>21. \A m \in 1..i : m \in 1..(i - 1) \/ m = i OBVIOUS
  <2>22. \A l \in 1..t : l \in 1..u /\ l < u BY <1>1, <2>10
  <2>23. \A l \in 1..u : Own(a[l]) => l \in 1..t \/ l = u BY <1>1, <2>9, <2>10
  <2>24. u \in 1..u /\ u \in 0..Len(a) /\ i \in 1..i BY <2>10
  <2>25. ASSUME NEW m \in 1..i, Own(b[m]) PROVE \E l \in 1..u : a[l] = b[m]
    BY <2>20, <2>21, <2>22, <2>24, <2>25 DEF Prefix
  <2>26. ASSUME NEW l \in 1..u, Own(a[l]) PROVE \E m \in 1..i : b[m] = a[l]
    <3>1. CASE l = u BY <2>20, <2>24, <3>1
    <3>2. CASE l \in 1..t
      <4>1. PICK m \in 1..(i - 1) : b[m] = a[l] BY <2>26, <3>2 DEF Prefix
      <4> QED BY <4>1
    <3> QED BY <2>23, <2>26, <3>1, <3>2
  <2>27. ASSUME NEW m \in 1..i, NEW l \in 1..u, Own(b[m]), a[l] = b[m]
         PROVE  (m = i /\ l = u) \/ (m \in 1..(i - 1) /\ l \in 1..t)
    <3>1. CASE l = u
      <4>1. b[m] = b[i] BY <2>20, <2>27, <3>1
      <4> QED BY <3>1, <4>1 DEF Distinct
    <3>2. CASE l \in 1..t
      <4>1. m # i
        <5> SUFFICES ASSUME m = i PROVE FALSE OBVIOUS
        <5>1. a[l] = a[u] BY <2>20, <2>27
        <5>2. l \in 1..Len(a) BY <1>1, <3>2
        <5> QED BY <2>10, <2>22, <3>2, <5>1, <5>2 DEF Distinct
      <4> QED BY <2>21, <3>2, <4>1
    <3> QED BY <2>23, <2>27, <3>1, <3>2
  <2>28. ASSUME NEW m1 \in 1..i, NEW m2 \in 1..i, NEW l1 \in 1..u, NEW l2 \in 1..u,
                Own(b[m1]), Own(b[m2]), a[l1] = b[m1], a[l2] = b[m2]
         PROVE  m1 < m2 <=> l1 < l2
    <3>1. (m1 = i /\ l1 = u) \/ (m1 \in 1..(i - 1) /\ l1 \in 1..t) BY <2>27, <2>28
    <3>2. (m2 = i /\ l2 = u) \/ (m2 \in 1..(i - 1) /\ l2 \in 1..t) BY <2>27, <2>28
    <3>3. CASE m1 \in 1..(i - 1) /\ l1 \in 1..t /\ m2 \in 1..(i - 1) /\ l2 \in 1..t
      BY <2>28, <3>3 DEF Prefix
    <3> QED BY <2>10, <2>22, <3>1, <3>2, <3>3
  <2>29. Prefix(a, b, i, u)
    <3>1. u \in 0..Len(a) BY <2>24
    <3> QED BY ONLY <2>25, <2>26, <2>28, <3>1 DEF Prefix
  <2> QED BY <2>29
<1> QED BY <1>2, <1>3

\* Every object of the program in the second selection was in the first.
LEMMA SecondInFirst ==
    ASSUME StockRuntime, Linkable(link),
           NEW a \in Seq(link.input), Distinct(a), InOrder(link, a, "none"), Complete(link, a),
           NEW b \in Seq(link.input), b # <<>>, IsStartup(b[1]), NEW q0, InOrder(link, b, q0),
           Distinct(b), NEW i \in 1..Len(b), Own(b[i])
    PROVE  \E l \in 1..Len(a) : a[l] = b[i]
<1> DEFINE S == {m \in 1..Len(b) : \E t : Prefix(a, b, m, t)}
<1>1. 1 \in Nat /\ Len(b) \in Nat OBVIOUS
<1>2. 1 \in S
  <2>1. 1 \in 1..Len(b) /\ 0 \in 0..Len(a) OBVIOUS
  <2>2. \A m \in 1..1 : ~Own(b[m]) BY DEF Own
  <2>3. \A l \in 1..0 : FALSE OBVIOUS
  <2>4. Prefix(a, b, 1, 0) BY <2>1, <2>2, <2>3 DEF Prefix
  <2> QED BY <2>1, <2>4
<1>3. \A m \in (1 + 1)..Len(b) : m - 1 \in S => m \in S
  <2> SUFFICES ASSUME NEW m \in (1 + 1)..Len(b), m - 1 \in S PROVE m \in S OBVIOUS
  <2>1. m \in 2..Len(b) /\ m \in 1..Len(b) OBVIOUS
  <2>2. PICK t : Prefix(a, b, m - 1, t) OBVIOUS
  <2>3. \E u : Prefix(a, b, m, u) BY <2>1, <2>2, PrefixStep
  <2> QED BY <2>1, <2>3
<1>4. \A m \in 1..Len(b) : m \in S
  <2> HIDE DEF S
  <2> QED BY <1>1, <1>2, <1>3, FromTo
<1>5. PICK t : Prefix(a, b, i, t) BY <1>4
<1>6. t \in 0..Len(a) /\ i \in 1..i BY <1>5 DEF Prefix
<1>7. PICK l \in 1..t : a[l] = b[i] BY <1>5, <1>6 DEF Prefix
<1> QED BY <1>6, <1>7

-----------------------------------------------------------------------------
(* The startup suits the selection it is used with. *)

\* A startup is selected for a vector, or is the preferred one.
LEMMA StartupReason ==
    ASSUME StockRuntime, NEW a \in Seq(link.input), NEW q, InOrder(link, a, q),
           NEW i \in 1..Len(a), IsStartup(a[i])
    PROVE  \/ i = 1 /\ q # "none"
           \/ \E n \in Vector : ~Met(link, a, i - 1, n) /\ IsBest(link, n, a[i])
<1>1. a[i] \in link.input /\ a[i] \notin link.config BY StartupFacts
<1>2. SUFFICES ASSUME NEW j, NEW p, Chose(link, a, i, j, p)
               PROVE  \E n \in Vector : ~Met(link, a, i - 1, n) /\ IsBest(link, n, a[i])
  BY <1>1 DEF InOrder, Because
<1>3. PICK n : n = NeedsIn(link, a, j)[p] OBVIOUS
<1>4. /\ j \in 0..(i - 1) /\ p \in DOMAIN NeedsIn(link, a, j)
      /\ ~Met(link, a, i - 1, n) /\ IsBest(link, n, a[i]) /\ n \in Exporting(link, a[i])
  BY <1>2, <1>3 DEF Chose, IsBest
<1>5. CASE j = 0
  <2>1. n \in Vector BY <1>3, <1>4, <1>5 DEF NeedsIn, Roots, Vector
  <2> QED BY <1>4, <2>1
<1>6. CASE j # 0
  <2>1. j \in 1..Len(a) /\ a[j] \in link.input BY <1>4, <1>6
  <2>2. NeedsIn(link, a, j) = link.undef[a[j]] BY <1>6 DEF NeedsIn
  <2>3. n \notin StartupName BY <1>3, <1>4, <2>1, <2>2, ImportFacts
  <2>4. n \in Vector BY <1>1, <1>4, <2>3, StartupFacts
  <2> QED BY <1>4, <2>4
<1> QED BY <1>5, <1>6

LEMMA OneStartup ==
    ASSUME StockRuntime, NEW a \in Seq(link.input), NEW q, InOrder(link, a, q),
           NEW i \in 1..Len(a), NEW l \in 1..Len(a), IsStartup(a[i]), IsStartup(a[l]), l < i
    PROVE  FALSE
<1>1. PICK n \in Vector : ~Met(link, a, i - 1, n) BY StartupReason
<1>2. a[l] \in link.input /\ l \in 1..(i - 1) OBVIOUS
<1>3. n \in Exporting(link, a[l]) BY <1>2, StartupFacts
<1> QED BY <1>1, <1>2, <1>3 DEF Met

\* A smaller startup is there only if it was preferred.
LEMMA SmallIsPreferred ==
    ASSUME StockRuntime, Linkable(link), NEW a \in Seq(link.input),
           NEW q \in {"none", StartupData, StartupSimple},
           InOrder(link, a, q), a # <<>> /\ q # "none" => IsBest(link, q, a[1]),
           NEW n \in {StartupData, StartupSimple}, NEW i \in 1..Len(a), n \in link.strong[a[i]]
    PROVE  i = 1 /\ q = n
<1>1. a[i] \in link.input OBVIOUS
<1>2. IsStartup(a[i]) BY DEF IsStartup
<1>3. link.strong[a[i]] = {n} /\ Exporting(link, a[i]) = {n} \cup Vector
  BY <1>1, <1>2, StartupFacts
<1>4. CASE i = 1 /\ q # "none"
  <2>1. q \in {n} \cup Vector BY <1>3, <1>4 DEF IsBest
  <2>2. q \notin Vector BY DEF Vector, StartupData, StartupSimple
  <2> QED BY <1>4, <2>1, <2>2
<1>5. ASSUME NEW z \in Vector, IsBest(link, z, a[i]) PROVE FALSE
  <2>1. PICK f \in link.input : /\ StartupFull \in link.strong[f]
                                /\ link.rank[f] <= link.rank[a[i]]
    BY <1>1, <1>2, StartupFacts
  <2>2. IsStartup(f) BY <2>1 DEF IsStartup
  <2>3. link.strong[f] = {StartupFull} /\ z \in Exporting(link, f)
    BY <2>1, <2>2, StartupFacts
  <2>4. StartupFull # n /\ z # StartupFull /\ z # n
    BY DEF StartupFull, StartupData, StartupSimple, Vector
  <2>5. z \notin link.strong[f] /\ z \notin link.strong[a[i]] BY <1>3, <2>3, <2>4
  <2>6. link.rank[a[i]] <= link.rank[f] BY <1>5, <2>3, <2>5 DEF IsBest
  <2>7. /\ link.rank \in [Object -> Nat] /\ link.input \subseteq Object
        /\ \A s, t \in Object : link.rank[s] = link.rank[t] => s = t
    BY DEF Linkable, LinkType
  <2>8. f \in Object /\ a[i] \in Object /\ link.rank[f] \in Nat /\ link.rank[a[i]] \in Nat
    BY <1>1, <2>7
  <2>9. f = a[i] BY <2>1, <2>6, <2>7, <2>8
  <2> QED BY <1>3, <2>3, <2>4, <2>9
<1> QED BY <1>2, <1>4, <1>5, StartupReason

\* What the second selection has, the first had, or it needs no care.
LEMMA SecondIsClean ==
    ASSUME StockRuntime, Linkable(link), NEW q, NEW a, Suited(link, a, q),
           NEW b \in Seq(link.input), b # <<>>, IsStartup(b[1]), InOrder(link, b, q), Distinct(b),
           NEW i \in 1..Len(b)
    PROVE  /\ b[i] \notin link.noinit
           /\ q = StartupSimple => b[i] \notin link.copy \cup link.init
<1>1. b[i] \in link.input OBVIOUS
<1>2. ASSUME NEW l \in 1..Len(a), a[l] = b[i]
      PROVE  /\ b[i] \notin link.noinit
             /\ q = StartupSimple => b[i] \notin link.copy \cup link.init
  BY <1>2 DEF Suited
<1>3. CASE b[i] \in link.config BY <1>2, <1>3 DEF Suited, Complete, Configured
<1>4. CASE IsStartup(b[i]) BY <1>1, <1>4, StartupFacts
<1>5. CASE Helping(b[i]) BY <1>1, <1>5, HelpingFacts
<1>6. CASE Own(b[i])
  <2>1. /\ a \in Seq(link.input) /\ Distinct(a) /\ InOrder(link, a, "none")
        /\ Complete(link, a)
    BY DEF Suited
  <2>2. \E l \in 1..Len(a) : a[l] = b[i] BY <1>6, <2>1, SecondInFirst
  <2> QED BY <1>2, <2>2
<1> QED BY <1>3, <1>4, <1>5, <1>6 DEF Own

LEMMA SuitsFromOrder == SelectionInv /\ OrderInv => StartupSuits
<1> SUFFICES ASSUME SelectionInv, OrderInv, phase = "linked", StockRuntime
             PROVE  /\ \A o, p \in Chosen : IsStartup(o) /\ IsStartup(p) => o = p
                    /\ HaveExport(StartupSimple) =>
                          Chosen \cap (link.noinit \cup link.copy \cup link.init) = {}
                    /\ HaveExport(StartupData) => Chosen \cap link.noinit = {}
  BY DEF StartupSuits
<1>1. /\ selected \in Seq(link.input) /\ DOMAIN selected = 1..Len(selected)
      /\ Distinct(selected) /\ Linkable(link) /\ InOrder(link, selected, preferred)
      /\ preferred \in {"none", StartupData, StartupSimple}
  BY Looked DEF SelectionInv, SelectionTypeOK, OrderInv, Distinct
<1>2. \A o \in Chosen : \E i \in 1..Len(selected) : selected[i] = o BY <1>1 DEF Chosen
<1>3. ASSUME NEW o \in Chosen, NEW p \in Chosen, IsStartup(o), IsStartup(p) PROVE o = p
  <2>1. PICK i \in 1..Len(selected) : selected[i] = o BY <1>2
  <2>2. PICK l \in 1..Len(selected) : selected[l] = p BY <1>2
  <2>3. ~(l < i) BY <1>1, <1>3, <2>1, <2>2, OneStartup
  <2>4. ~(i < l) BY <1>1, <1>3, <2>1, <2>2, OneStartup
  <2>5. i = l BY <2>3, <2>4
  <2> QED BY <2>1, <2>2, <2>5
<1>4. ASSUME NEW n \in {StartupData, StartupSimple}, HaveExport(n)
      PROVE  /\ Chosen \cap link.noinit = {}
             /\ n = StartupSimple => Chosen \cap (link.copy \cup link.init) = {}
  <2>1. PICK i \in 1..Len(selected) : n \in link.strong[selected[i]]
    BY <1>2, <1>4 DEF HaveExport
  <2>2. selected # <<>> /\ preferred # "none" => IsBest(link, preferred, selected[1])
    BY DEF OrderInv
  <2>3. i = 1 /\ preferred = n BY <1>1, <2>1, <2>2, SmallIsPreferred
  <2>4. preferred # "none" BY <2>3 DEF StartupData, StartupSimple
  <2>5. selected # <<>> /\ \E a : Suited(link, a, preferred) BY <2>4 DEF OrderInv
  <2>6. PICK a : Suited(link, a, preferred) BY <2>5
  <2>7. IsStartup(selected[1]) BY <2>1, <2>3 DEF IsStartup
  <2>8. \A l \in 1..Len(selected) :
           /\ selected[l] \notin link.noinit
           /\ preferred = StartupSimple => selected[l] \notin link.copy \cup link.init
    BY <1>1, <2>5, <2>6, <2>7, SecondIsClean
  <2> QED BY <1>2, <2>3, <2>8
<1>5. HaveExport(StartupSimple) =>
        Chosen \cap (link.noinit \cup link.copy \cup link.init) = {}
  BY <1>4
<1>6. HaveExport(StartupData) => Chosen \cap link.noinit = {} BY <1>4
<1> QED BY <1>3, <1>5, <1>6

\* Whatever the program is, with the stock runtime the startup chosen for the first
\* selection is alone in the second and initializes all it contains.
THEOREM StartupSuitsHolds == Spec => []StartupSuits
BY SuitsFromOrder, SelectionInvHolds, OrderInvHolds, PTL

-----------------------------------------------------------------------------
(* BuildDriver.                                                            *)

Before == {"compile", "helper", "baseline"}

SearchTypeOK ==
    /\ job \in Job
    /\ stage \in Before \cup {"search", "link", "done"}
    /\ chosen \in [Units -> SUBSET Nat]
    /\ at \in Nat \ {0} /\ changed \in BOOLEAN
    /\ current \in Figures \cup {NoFigures}
    /\ \A o \in DOMAIN measured : measured[o] \in Figures \cup {NoFigures}

\* What candidate c was worth with those accepted now.
Rejected(c) ==
    /\ Trial(c) \in DOMAIN measured
    /\ measured[Trial(c)] = NoFigures \/ ~Accepts(current, measured[Trial(c)])

\* The objects linked last are those of the accepted candidates, and their
\* figures are no worse than those of the program without expansions.
GainInv ==
    /\ object = chosen
    /\ stage \in Before => /\ DOMAIN measured = {} /\ current = NoFigures
                           /\ chosen = Plain /\ at = 1 /\ ~changed
    /\ stage = "search" => current # NoFigures
    /\ current # NoFigures =>
          /\ object \in DOMAIN measured /\ measured[object] = current
          /\ Plain \in DOMAIN measured /\ measured[Plain] \in Figures
          /\ current.rom <= measured[Plain].rom
          /\ current.ram <= measured[Plain].ram

\* As long as a round has accepted nothing, all that it tried was tried with
\* those accepted now.
RoundInv ==
    \A c \in DOMAIN job.candidate :
        /\ \/ stage = "search" /\ ~changed /\ c < at
           \/ stage = "link" /\ current # NoFigures
        /\ c \notin chosen[UnitOf(c)]
        => Rejected(c)

SearchInv == SearchTypeOK /\ GainInv /\ RoundInv

-----------------------------------------------------------------------------
LEMMA JobFacts ==
    ASSUME job \in Job
    PROVE  /\ DOMAIN job.candidate = 1..Len(job.candidate)
           /\ Len(job.candidate) \in Nat
           /\ \A c \in DOMAIN job.candidate : UnitOf(c) \in Units
<1>1. job.candidate \in Seq(Nat) /\ \A c \in DOMAIN job.candidate : job.candidate[c] \in 1..job.units
  BY JobAssumption DEF JobType
<1> QED BY <1>1 DEF UnitOf, Units

LEMMA InitSearch == BuildInit => SearchInv
<1> SUFFICES ASSUME BuildInit PROVE SearchInv OBVIOUS
<1>1. DOMAIN measured = {} /\ stage = "compile" /\ current = NoFigures BY DEF BuildInit
<1>2. SearchTypeOK
  <2>1. chosen \in [Units -> SUBSET Nat] BY DEF BuildInit, Plain
  <2>2. job \in Job /\ at \in Nat \ {0} BY DEF BuildInit
  <2>5. changed \in BOOLEAN BY Zenon DEF BuildInit
  <2>3. stage \in Before BY <1>1 DEF Before
  <2>4. \A o \in DOMAIN measured : measured[o] \in Figures \cup {NoFigures} BY <1>1
  <2> QED BY <1>1, <2>1, <2>2, <2>3, <2>4, <2>5 DEF SearchTypeOK
<1>3. GainInv BY <1>1 DEF BuildInit, GainInv, Before
<1>4. RoundInv BY <1>1 DEF RoundInv
<1> QED BY <1>2, <1>3, <1>4 DEF SearchInv

\* Steps before the search leave it as it is.
LEMMA NoSearchYet ==
    ASSUME SearchInv, stage \in Before, UNCHANGED <<job, search>>,
           stage' \in Before \cup {"link", "done"}
    PROVE  SearchInv'
<1>1. /\ job' = job /\ chosen' = chosen /\ object' = object /\ at' = at
      /\ changed' = changed /\ current' = current /\ measured' = measured
  BY DEF search
<1>2. Units' = Units /\ Plain' = Plain BY <1>1 DEF Units, Plain
<1>3. SearchTypeOK' BY <1>1, <1>2 DEF SearchInv, SearchTypeOK, Before
<1>4. GainInv' BY <1>1, <1>2 DEF SearchInv, GainInv, Before
<1>5. RoundInv' BY <1>1 DEF SearchInv, GainInv, RoundInv, Before
<1> QED BY <1>3, <1>4, <1>5 DEF SearchInv

\* The driver ends, and claims nothing more.
LEMMA EndsKeeps == ASSUME SearchInv, Ends PROVE SearchInv'
<1>1. /\ job' = job /\ chosen' = chosen /\ object' = object /\ at' = at
      /\ changed' = changed /\ current' = current /\ measured' = measured
      /\ stage' = "done"
  BY DEF Ends, search
<1>2. Units' = Units /\ Plain' = Plain BY <1>1 DEF Units, Plain
<1>3. SearchTypeOK' BY <1>1, <1>2 DEF SearchInv, SearchTypeOK
<1>4. GainInv' BY <1>1, <1>2 DEF SearchInv, GainInv, Before
<1>5. RoundInv' BY <1>1 DEF RoundInv
<1> QED BY <1>3, <1>4, <1>5 DEF SearchInv

\* The final link does not touch what the search has found.
LEMMA LinkKeeps ==
    ASSUME SearchInv, UNCHANGED driver PROVE SearchInv'
<1>1. /\ job' = job /\ chosen' = chosen /\ object' = object /\ at' = at
      /\ changed' = changed /\ current' = current /\ measured' = measured
      /\ stage' = stage
  BY DEF driver, search
<1>2. Units' = Units /\ Plain' = Plain BY <1>1 DEF Units, Plain
<1>3. SearchTypeOK' BY <1>1, <1>2 DEF SearchInv, SearchTypeOK
<1>4. GainInv' BY <1>1, <1>2 DEF SearchInv, GainInv
<1>5. RoundInv' BY <1>1 DEF SearchInv, RoundInv, Rejected, Trial, UnitOf
<1> QED BY <1>3, <1>4, <1>5 DEF SearchInv

\* A trial adds its figures to those measured, or finds them again.
LEMMA MeasureKeeps ==
    ASSUME SearchTypeOK, NEW objects, NEW f \in Figures \cup {NoFigures},
           Measure(objects, f)
    PROVE  /\ DOMAIN measured' = DOMAIN measured \cup {objects}
           /\ measured'[objects] = f
           /\ \A o \in DOMAIN measured : measured'[o] = measured[o]
           /\ \A o \in DOMAIN measured' : measured'[o] \in Figures \cup {NoFigures}
<1>1. measured' = [o \in DOMAIN measured \cup {objects} |->
                       IF o = objects THEN f ELSE measured[o]]
  BY DEF Measure
<1>2. objects \in DOMAIN measured => f = measured[objects]
  BY DEF Measure, MayMeasure
<1> QED BY <1>1, <1>2 DEF SearchTypeOK

LEMMA BaselineKeeps == ASSUME SearchInv, Baseline PROVE SearchInv'
<1>1. stage = "baseline" /\ stage \in Before BY DEF Baseline, Before
<1>2. CASE Ends BY <1>2, EndsKeeps
<1>3. CASE stage' = "link" /\ UNCHANGED <<job, search>> BY <1>1, <1>3, NoSearchYet
<1>4. ASSUME NEW f \in Figures \cup {NoFigures}, Measure(object, f), current' = f,
             stage' = IF current' = NoFigures THEN "link" ELSE "search",
             UNCHANGED <<job, chosen, object, at, changed>>
      PROVE  SearchInv'
  <2>1. /\ DOMAIN measured' = DOMAIN measured \cup {object}
        /\ measured'[object] = f
        /\ \A o \in DOMAIN measured' : measured'[o] \in Figures \cup {NoFigures}
    BY <1>4, MeasureKeeps DEF SearchInv
  <2>2. Units' = Units /\ Plain' = Plain BY <1>4 DEF Units, Plain
  <2>3. object = Plain /\ object = chosen /\ at = 1
    BY <1>1 DEF SearchInv, GainInv
  <2>4. SearchTypeOK' BY <1>4, <2>1, <2>2 DEF SearchInv, SearchTypeOK
  <2>5. f # NoFigures => f \in Figures /\ f.rom \in Nat /\ f.ram \in Nat
    BY FiguresAssumption
  <2>6. GainInv' BY <1>4, <2>1, <2>2, <2>3, <2>5 DEF GainInv, Before
  <2>7. RoundInv'
    <3>1. job \in Job BY DEF SearchInv, SearchTypeOK
    <3>2. \A c \in DOMAIN job.candidate : ~(c < at) BY <2>3, <3>1, JobFacts
    <3>3. ~(stage' = "link" /\ current' # NoFigures) BY <1>4
    <3> QED BY <1>4, <3>2, <3>3 DEF RoundInv
  <2> QED BY <2>4, <2>6, <2>7 DEF SearchInv
<1> QED BY <1>2, <1>3, <1>4 DEF Baseline, search

\* A trial of one more candidate with those accepted.
LEMMA TryKeeps == ASSUME SearchInv, Try PROVE SearchInv'
<1>1. /\ stage = "search" /\ at <= Len(job.candidate) /\ at \notin chosen[UnitOf(at)]
  BY DEF Try, Searching
<1>2. CASE Ends BY <1>2, EndsKeeps
<1>3. ASSUME NEW f \in Figures \cup {NoFigures}, Measure(Trial(at), f),
             IF f # NoFigures /\ Accepts(current, f)
             THEN /\ object' = Accepted(at)
                  /\ chosen' = [chosen EXCEPT ![UnitOf(at)] = @ \cup {at}]
                  /\ current' = f
                  /\ changed' = TRUE
             ELSE UNCHANGED <<object, chosen, current, changed>>,
             at' = at + 1, UNCHANGED <<job, stage>>
      PROVE  SearchInv'
  <2>1. PICK trial : trial = Trial(at) OBVIOUS
  <2>2. /\ DOMAIN measured' = DOMAIN measured \cup {trial}
        /\ measured'[trial] = f
        /\ \A o \in DOMAIN measured : measured'[o] = measured[o]
        /\ \A o \in DOMAIN measured' : measured'[o] \in Figures \cup {NoFigures}
    BY <1>3, <2>1, MeasureKeeps DEF SearchInv
  <2>3. /\ Units' = Units /\ Plain' = Plain
        /\ job \in Job /\ at \in Nat \ {0} /\ changed \in BOOLEAN
        /\ object = chosen /\ chosen \in [Units -> SUBSET Nat]
        /\ current \in Figures /\ stage \notin Before
    BY <1>1, <1>3 DEF Units, Plain, SearchInv, SearchTypeOK, GainInv, Before
  <2>4. at \in DOMAIN job.candidate /\ UnitOf(at) \in Units
    BY <1>1, <2>3, JobFacts
  <2>5. \A g \in Figures : g.rom \in Nat /\ g.ram \in Nat /\ g.stack \in Nat /\ g # NoFigures
    BY FiguresAssumption
  <2>6. /\ object \in DOMAIN measured /\ measured[object] = current
        /\ Plain \in DOMAIN measured /\ measured[Plain] \in Figures
        /\ current.rom <= measured[Plain].rom
        /\ current.ram <= measured[Plain].ram
    BY <2>3, <2>5 DEF SearchInv, GainInv
  <2>7. CASE f # NoFigures /\ Accepts(current, f)
    <3>1. /\ object' = trial /\ chosen' = trial /\ current' = f /\ changed' = TRUE
          /\ trial \in [Units -> SUBSET Nat]
      BY <1>3, <2>1, <2>3, <2>4, <2>7 DEF Accepted, Trial
    <3>2. SearchTypeOK' BY <1>3, <2>2, <2>3, <3>1 DEF SearchInv, SearchTypeOK
    <3>3. f \in Figures /\ f.rom <= current.rom /\ f.ram <= current.ram
      BY <2>3, <2>5, <2>7 DEF Accepts
    <3>4. f.rom <= measured[Plain].rom /\ f.ram <= measured[Plain].ram
      BY <2>3, <2>5, <2>6, <3>3
    <3>5. GainInv'
      BY <1>3, <2>2, <2>3, <2>6, <2>7, <3>1, <3>4 DEF GainInv
    <3>6. RoundInv' BY <1>1, <1>3, <3>1 DEF RoundInv
    <3> QED BY <3>2, <3>5, <3>6 DEF SearchInv
  <2>8. CASE ~(f # NoFigures /\ Accepts(current, f))
    <3>1. object' = object /\ chosen' = chosen /\ current' = current /\ changed' = changed
      BY <1>3, <2>8
    <3>2. SearchTypeOK' BY <1>3, <2>2, <2>3, <3>1 DEF SearchInv, SearchTypeOK
    <3>3. GainInv' BY <1>3, <2>2, <2>3, <2>6, <3>1 DEF SearchInv, GainInv
    <3>4. RoundInv'
      <4> SUFFICES ASSUME NEW d \in DOMAIN job.candidate, ~changed, d < at + 1,
                          d \notin chosen[UnitOf(d)]
                   PROVE  Rejected(d)'
        BY <1>1, <1>3, <3>1 DEF RoundInv, UnitOf
      <4>1. CASE d = at
        <5>1. Trial(d)' = trial BY <1>3, <2>1, <3>1, <4>1 DEF Trial, UnitOf
        <5> QED BY <2>2, <2>8, <3>1, <5>1 DEF Rejected, Accepts
      <4>2. CASE d # at
        <5>1. d < at BY <2>3, <4>2, JobFacts
        <5>2. Rejected(d) BY <1>1, <5>1 DEF SearchInv, RoundInv
        <5>3. Trial(d)' = Trial(d) BY <1>3, <3>1 DEF Trial, UnitOf
        <5> QED BY <2>2, <3>1, <5>2, <5>3 DEF Rejected, Accepts
      <4> QED BY <4>1, <4>2
    <3> QED BY <3>2, <3>3, <3>4 DEF SearchInv
  <2> QED BY <2>7, <2>8
<1> QED BY <1>2, <1>3 DEF Try

LEMMA SkipKeeps == ASSUME SearchInv, Skip PROVE SearchInv'
<1>1. /\ stage = "search" /\ at \in chosen[UnitOf(at)] /\ at' = at + 1
      /\ job' = job /\ chosen' = chosen /\ object' = object
      /\ changed' = changed /\ current' = current /\ measured' = measured
      /\ stage' = stage
  BY DEF Skip, Searching
<1>2. /\ Units' = Units /\ Plain' = Plain /\ job \in Job /\ at \in Nat \ {0}
  BY <1>1 DEF Units, Plain, SearchInv, SearchTypeOK
<1>3. SearchTypeOK' BY <1>1, <1>2 DEF SearchInv, SearchTypeOK
<1>4. GainInv' BY <1>1, <1>2 DEF SearchInv, GainInv, Before
<1>5. RoundInv'
  <2> SUFFICES ASSUME NEW d \in DOMAIN job.candidate, ~changed, d < at + 1,
                      d \notin chosen[UnitOf(d)]
               PROVE  Rejected(d)'
    BY <1>1 DEF RoundInv, UnitOf
  <2>1. d # at BY <1>1
  <2>2. d < at BY <1>2, <2>1, JobFacts
  <2>3. Rejected(d) BY <1>1, <2>2 DEF SearchInv, RoundInv
  <2> QED BY <1>1, <2>3 DEF Rejected, Trial, UnitOf
<1> QED BY <1>3, <1>4, <1>5 DEF SearchInv

\* A round that accepted nothing has rejected every candidate left out.
LEMMA EndRoundKeeps == ASSUME SearchInv, EndRound PROVE SearchInv'
<1>1. /\ stage = "search" /\ at > Len(job.candidate) /\ at' = 1 /\ changed' = FALSE
      /\ stage' = IF changed THEN "search" ELSE "link"
      /\ job' = job /\ chosen' = chosen /\ object' = object
      /\ current' = current /\ measured' = measured
  BY DEF EndRound, Again
<1>2. /\ Units' = Units /\ Plain' = Plain /\ job \in Job /\ at \in Nat \ {0}
  BY <1>1 DEF Units, Plain, SearchInv, SearchTypeOK
<1>3. SearchTypeOK'
  <2>1. stage' \in {"search", "link"} /\ at' \in Nat \ {0} BY <1>1
  <2>2. changed' \in BOOLEAN BY <1>1, Zenon
  <2> QED BY <1>1, <1>2, <2>1, <2>2 DEF SearchInv, SearchTypeOK
<1>4. GainInv' BY <1>1, <1>2 DEF SearchInv, GainInv, Before
<1>5. RoundInv'
  <2> SUFFICES ASSUME NEW d \in DOMAIN job.candidate, d \notin chosen[UnitOf(d)],
                      (stage' = "search" /\ d < 1) \/ stage' = "link"
               PROVE  Rejected(d)'
    BY <1>1 DEF RoundInv, UnitOf
  <2>1. d \in Nat /\ d >= 1 /\ d < at BY <1>1, <1>2, JobFacts
  <2>2. ~changed BY <1>1, <2>1
  <2>3. Rejected(d) BY <1>1, <2>1, <2>2 DEF SearchInv, RoundInv
  <2> QED BY <1>1, <2>3 DEF Rejected, Trial, UnitOf
<1> QED BY <1>3, <1>4, <1>5 DEF SearchInv

-----------------------------------------------------------------------------
LEMMA SearchInvHolds == BuildSpec => []SearchInv
<1>1. SearchInv /\ [BuildNext]_<<vars, driver>> => SearchInv'
  <2> SUFFICES ASSUME SearchInv, [BuildNext]_<<vars, driver>> PROVE SearchInv' OBVIOUS
  <2>1. CASE CompileUnit
    <3>1. CASE Ends BY <3>1, EndsKeeps
    <3>2. CASE stage = "compile" /\ UNCHANGED <<job, stage, search>>
      BY <3>2, NoSearchYet DEF Before
    <3> QED BY <2>1, <3>1, <3>2 DEF CompileUnit
  <2>2. CASE AddProfile
    <3>1. CASE Ends BY <3>1, EndsKeeps
    <3>2. CASE stage = "compile" /\ stage' = "helper" /\ UNCHANGED <<job, search>>
      BY <3>2, NoSearchYet DEF Before
    <3> QED BY <2>2, <3>1, <3>2 DEF AddProfile
  <2>3. CASE AddHelper
    <3>1. CASE Ends BY <3>1, EndsKeeps
    <3>2. CASE stage = "helper" /\ stage' = "baseline" /\ UNCHANGED <<job, search>>
      BY <3>2, NoSearchYet DEF Before
    <3> QED BY <2>3, <3>1, <3>2 DEF AddHelper
  <2>4. CASE Baseline BY <2>4, BaselineKeeps
  <2>5. CASE Try BY <2>5, TryKeeps
  <2>6. CASE Skip BY <2>6, SkipKeeps
  <2>7. CASE EndRound BY <2>7, EndRoundKeeps
  <2>8. CASE Select BY <2>8, LinkKeeps DEF Select
  <2>9. CASE Leave BY <2>9, EndsKeeps DEF Leave
  <2>10. CASE UNCHANGED <<vars, driver>> BY <2>10, LinkKeeps
  <2> QED
    BY <2>1, <2>2, <2>3, <2>4, <2>5, <2>6, <2>7, <2>8, <2>9, <2>10 DEF BuildNext
<1> QED BY <1>1, InitSearch, PTL DEF BuildSpec

\* Whatever the trials measure, however many candidates and units there are, the
\* objects that are linked in the end are those whose figures were accepted last,
\* and they are no worse than without expansions (profit_search in vcsc.c).
THEOREM FinalIsMeasuredHolds == BuildSpec => []FinalIsMeasured
<1>1. SearchInv => FinalIsMeasured BY DEF SearchInv, GainInv, FinalIsMeasured
<1> QED BY <1>1, SearchInvHolds, PTL

\* Whatever the trials measure, each candidate left out at the end was tried with
\* those that were taken, and was no gain.
THEOREM NoGainLeftHolds == BuildSpec => []NoGainLeft
<1>1. SearchInv => NoGainLeft BY DEF SearchInv, RoundInv, Rejected, NoGainLeft
<1> QED BY <1>1, SearchInvHolds, PTL

-----------------------------------------------------------------------------
(* The link that the driver runs. *)

\* The selection begins with the inputs the driver has completed.
DriverInv ==
    /\ stage \in {"compile", "helper"} => Idle
    /\ Linkable(link) /\ SelectionInv /\ OrderInv

LEMMA GivenLinkable ==
    ASSUME Linkable(link), NEW o \in Object
    PROVE  /\ Linkable(Given(o))
           /\ Linkable([Given(o) EXCEPT !.config = @ \cup {o}])
<1>1. /\ link \in LinkType /\ link.config \subseteq link.input
      /\ \A p, q \in Object : link.rank[p] = link.rank[q] => p = q
  BY DEF Linkable
<1>2. PICK k : k = Given(o) OBVIOUS
<1>3. k \in LinkType /\ k.input = link.input \cup {o} /\ k.config = link.config /\ k.rank = link.rank
  BY <1>1, <1>2 DEF Given, LinkType
<1>4. PICK c : c = [k EXCEPT !.config = @ \cup {o}] OBVIOUS
<1>5. c \in LinkType /\ c.input = k.input /\ c.config = k.config \cup {o} /\ c.rank = k.rank
  BY <1>3, <1>4 DEF LinkType
<1>6. Linkable(k) BY <1>1, <1>3 DEF Linkable
<1>7. Linkable(c) BY <1>1, <1>3, <1>5 DEF Linkable
<1> QED BY <1>2, <1>4, <1>6, <1>7

LEMMA DriverInit == BuildInit => DriverInv
BY InitIsIdle, SelectionIdle, OrderIdle DEF BuildInit, DriverInv

\* The driver's own steps leave the selection alone, or add an object before it.
LEMMA DriverKeeps ==
    ASSUME DriverInv, UNCHANGED vars,
           stage' \in {"compile", "helper"} => stage \in {"compile", "helper"}
    PROVE  DriverInv'
<1>1. SelectionInv' BY SelectionStep DEF DriverInv
<1>2. OrderInv' BY OrderStep DEF DriverInv
<1>3. UNCHANGED <<link, phase, selected, preferred, upto, source, pos, progress>>
  BY DEF vars, scan
<1> QED BY <1>1, <1>2, <1>3 DEF DriverInv, Idle

LEMMA DriverGives ==
    ASSUME DriverInv, stage \in {"compile", "helper"}, Linkable(link'),
           UNCHANGED <<phase, selected, scan, preferred>>
    PROVE  DriverInv'
<1>1. Idle' BY DEF DriverInv, Idle, scan
<1>2. Linkable(link)' OBVIOUS
<1>3. SelectionInv' BY <1>1, <1>2, SelectionIdle, PTL
<1>4. OrderInv' BY <1>1, OrderIdle, PTL
<1> QED BY <1>1, <1>2, <1>3, <1>4 DEF DriverInv

LEMMA DriverStep == DriverInv /\ [BuildNext]_<<vars, driver>> => DriverInv'
<1> SUFFICES ASSUME DriverInv, [BuildNext]_<<vars, driver>> PROVE DriverInv' OBVIOUS
<1>1. CASE Select
  <2>1. Next /\ stage = "link" /\ stage' = "link" BY <1>1 DEF Select, driver
  <2>2. SelectionInv' /\ OrderInv' BY <2>1, SelectionStep, OrderStep DEF DriverInv
  <2>3. Linkable(link)' BY <2>2 DEF SelectionInv, SelectionTypeOK
  <2> QED BY <2>1, <2>2, <2>3 DEF DriverInv
<1>2. CASE AddProfile
  <2>1. stage = "compile" BY <1>2 DEF AddProfile
  <2>2. CASE UNCHANGED vars BY <2>1, <2>2, DriverKeeps
  <2>3. CASE /\ link' = [Given(Profile) EXCEPT !.config = @ \cup {Profile}]
             /\ UNCHANGED <<phase, selected, scan, preferred>>
    <3>1. Linkable(link') BY <2>3, GivenLinkable, JobAssumption DEF DriverInv
    <3> QED BY <2>1, <2>3, <3>1, DriverGives
  <2> QED BY <1>2, <2>2, <2>3 DEF AddProfile, Ends
<1>3. CASE AddHelper
  <2>1. stage = "helper" BY <1>3 DEF AddHelper
  <2>2. CASE UNCHANGED vars BY <2>1, <2>2, DriverKeeps
  <2>3. CASE link' = Given(Helper) /\ UNCHANGED <<phase, selected, scan, preferred>>
    <3>1. Linkable(link') BY <2>3, GivenLinkable, JobAssumption DEF DriverInv
    <3> QED BY <2>1, <2>3, <3>1, DriverGives
  <2> QED BY <1>3, <2>2, <2>3 DEF AddHelper, Ends
<1>4. CASE CompileUnit BY <1>4, DriverKeeps DEF CompileUnit, Ends
<1>5. CASE Baseline
  <2>1. UNCHANGED vars /\ stage' \in {"done", "link", "search"} BY <1>5 DEF Baseline, Ends
  <2> QED BY <2>1, DriverKeeps
<1>6. CASE Try
  <2>1. UNCHANGED vars /\ stage' \in {"done", "search"} BY <1>6 DEF Try, Searching, Ends
  <2> QED BY <2>1, DriverKeeps
<1>7. CASE Skip
  <2>1. UNCHANGED vars /\ stage' = "search" BY <1>7 DEF Skip, Searching
  <2> QED BY <2>1, DriverKeeps
<1>8. CASE EndRound
  <2>1. UNCHANGED vars /\ stage' \in {"link", "search"} BY <1>8 DEF EndRound
  <2> QED BY <2>1, DriverKeeps
<1>9. CASE Leave
  <2>1. UNCHANGED vars /\ stage' = "done" BY <1>9 DEF Leave, Ends
  <2> QED BY <2>1, DriverKeeps
<1>10. CASE UNCHANGED <<vars, driver>>
  <2>1. UNCHANGED vars /\ stage' = stage BY <1>10 DEF driver
  <2> QED BY <2>1, DriverKeeps
<1> QED BY <1>1, <1>2, <1>3, <1>4, <1>5, <1>6, <1>7, <1>8, <1>9, <1>10 DEF BuildNext

LEMMA DriverInvHolds == BuildSpec => []DriverInv
BY DriverInit, DriverStep, PTL DEF BuildSpec

\* The same of every link that the driver runs, with what it adds to the inputs.
THEOREM BuildSelects ==
    BuildSpec => [](/\ NothingMissing /\ PulledForNeed /\ StartupSuits
                    /\ (\A o \in link.config : "__reset" \notin Exports(o)) =>
                           ShimKeptUnlessReselected)
<1>1. DriverInv => /\ NothingMissing /\ PulledForNeed /\ StartupSuits
                   /\ (\A o \in link.config : "__reset" \notin Exports(o)) =>
                          ShimKeptUnlessReselected
  <2> SUFFICES ASSUME DriverInv
               PROVE  /\ NothingMissing /\ PulledForNeed /\ StartupSuits
                      /\ (\A o \in link.config : "__reset" \notin Exports(o)) =>
                             ShimKeptUnlessReselected
    OBVIOUS
  <2>1. SelectionInv /\ OrderInv BY DEF DriverInv
  <2>2. NothingMissing /\ PulledForNeed BY <2>1, EndMissesNothing DEF SelectionInv
  <2>3. StartupSuits BY <2>1, SuitsFromOrder
  <2> QED BY <2>1, <2>2, <2>3, ShimIsFirst
<1> QED BY <1>1, DriverInvHolds, PTL
=============================================================================
