---------------------------- MODULE BankPlacement ----------------------------
(***************************************************************************)
(* vcsc-ld decides in which bank of a cartridge each function and constant *)
(* goes (assign_automatic_bank_placements).                                *)
(*                                                                         *)
(* References that no bank switch can serve unite layouts into components  *)
(* that stay together, or pin them to a bank.  Pinned components are       *)
(* assigned first, the others one by one where they fit and cut the fewest *)
(* calls; then components are moved one at a time as long as that cuts     *)
(* fewer calls or makes the stack shallower.  A component fits if a        *)
(* dry run of the region allocator can lay out all that is assigned so far.*)
(*                                                                         *)
(* layout_objects runs the allocator in earnest afterwards, which asks one *)
(* thing more than the dry run: that .same and .cross branches stay in     *)
(* their layouts.                                                          *)
(***************************************************************************)
EXTENDS RegionAllocator, FiniteSetsExt, Sequences

CONSTANTS
    Banks,      \* number of banks; 1 is the startup bank, then by preference
    Link        \* the links to be placed

Bank == 1..Banks

\* Bytes that may be anywhere.
Plain(n) == [size |-> n, align |-> 1, phase |-> 0, page |-> FALSE,
             window |-> <<0, 0>>, zp |-> FALSE, reads |-> {}, branches |-> {}]

(***************************************************************************)
(* part: the layouts in input order, code or constants (text) and load     *)
(* images of initialized data, with what they ask of the allocator, the    *)
(* bank the configuration gives them, whether they may be moved (auto) and *)
(* their role: entry is main, runtime has a reserved name, init is called  *)
(* by startup.                                                             *)
(* ref: the relocations and short branches in input order: from a part to  *)
(* a part, or to an absolute address of a bank (to = 0), or to an object   *)
(* that has copies in several banks.                                       *)
(* visible: the pairs of banks of which the first sees the second (E0).    *)
(* table: bytes of the startup tables, all in the bank tableBank.          *)
(***************************************************************************)
PartType == [text : BOOLEAN, auto : BOOLEAN, shape : ShapeType, bank : Bank,
             role : {"entry", "runtime", "init", "plain"}]
RefType == [kind : {"jsr", "jmp", "data", "branch"}, from : Nat \ {0}, to : Nat,
            bank : {0} \cup Bank, copies : SUBSET Bank]
LinkType == [part : Seq(PartType), ref : Seq(RefType), region : [Bank -> RegionType],
             visible : SUBSET (Bank \X Bank), banked : BOOLEAN, fe : BOOLEAN,
             mode : {"simple", "optimized"}, startup : {"simple", "data", "full"},
             table : [copy : 1..Top, zero : 1..Top, init : 1..Top], tableBank : Bank]

\* The probing for a layout without branches has no end if its alignment, page,
\* window and hazardous reads contradict each other, in the dry run as in earnest.
Satisfiable(o) ==
    \/ o.branches # {}
    \/ o.page /\ o.size > Page
    \/ \E a \in 0..(Word - 1) : AlignedAt(o, a) /\ PageConstraintsHold(o, a)

\* Cartridge ROM has no zero page; a load image asks for its alignment only.
Placeable(p) ==
    /\ ~p.shape.zp
    /\ Satisfiable(p.shape)
    /\ IsFiniteSet(p.shape.branches)
    /\ p.text \/ p.shape = [Plain(p.shape.size) EXCEPT !.align = p.shape.align]

ASSUME BankAssumption == Banks \in Nat /\ Banks >= 2
ASSUME LinkAssumption ==
    \A l \in Link :
        /\ l \in LinkType
        /\ \A b \in Bank : /\ l.region[b].start < l.region[b].end /\ l.region[b].bank = 0
                          /\ l.region[b].end <= Top
        /\ \A k \in DOMAIN l.ref :
              /\ l.ref[k].from \in DOMAIN l.part
              /\ l.ref[k].to \in {0} \cup {i \in DOMAIN l.part : l.part[i].text}
              /\ l.ref[k].kind = "branch" =>
                    l.part[l.ref[k].from].text /\ l.ref[k].to # 0
        /\ \A i \in DOMAIN l.part : /\ l.part[i].auto => l.part[i].text
                                    /\ Placeable(l.part[i])

VARIABLES
    link,      \* the link
    phase,     \* how far the linker is, or why it stopped
    next,      \* classification: the reference to look at; search: the item
    pin,       \* bank each item must be in, 0 if any will do
    allowed,   \* banks with a copy of every replicated object the item uses
    class,     \* items that must stay together: the first item of each component
    place,     \* bank of each item, 0 while not assigned
    used,      \* ledger of bytes taken from each bank
    changed,   \* whether this round of the search has moved a component
    depth      \* weighted call depth of the placement

vars == <<link, phase, next, pin, allowed, class, place, used, changed, depth>>

Part == link.part
Item == {i \in DOMAIN Part : Part[i].text}

\* How many bytes some parts have, counted one by one.
Bytes(S) == Cardinality(UNION {{i} \X (1..Part[i].shape.size) : i \in S})

-----------------------------------------------------------------------------
(* What the items ask for. *)

Startup == 1
Movable(p) == p.auto /\ p.role \notin {"entry", "runtime"} /\ ~link.fe

\* main and the runtime may not be placed by name outside of the startup bank.
Misplaced(p) == p.text /\ ~p.auto /\ p.role \in {"entry", "runtime"} /\ p.bank # Startup

FirstPin(p) == IF Movable(p) THEN 0 ELSE IF p.auto THEN Startup ELSE p.bank

Refuse(why) ==
    /\ phase' = why
    /\ UNCHANGED <<link, next, pin, allowed, class, place, used, changed, depth>>

Refusals == {"misplaced", "replicas", "far jump", "pins", "full", "recursive"}
Ends == {"laid out", "scope", "parts overflow", "tables overflow"}
Running == phase \notin Refusals \cup Ends

Init ==
    /\ link \in Link
    /\ phase = "collect"
    /\ next = 1
    /\ pin = [i \in Item |-> FirstPin(Part[i])]
    /\ allowed = [i \in Item |-> Bank]
    /\ class = [i \in Item |-> i]
    /\ place = [i \in Item |-> 0]
    /\ used = [b \in Bank |-> 0]
    /\ changed = FALSE
    /\ depth = 0

Collect ==
    /\ phase = "collect"
    /\ IF \E i \in Item : Misplaced(Part[i])
       THEN Refuse("misplaced")
       ELSE /\ phase' = "classify"
            /\ UNCHANGED <<link, next, pin, allowed, class, place, used, changed, depth>>

-----------------------------------------------------------------------------
(* References. *)

Ref == link.ref[next]
Classifying == phase = "classify" /\ next <= Len(link.ref)
Taken == next' = next + 1 /\ UNCHANGED <<link, phase, place, used, changed, depth>>

\* Mutant of Sees: whatever the reference is for.
SeesAny(a, b, kind) == a # 0 /\ b # 0 /\ <<a, b>> \in link.visible

\* A bank that sees another may read it; a jump is not made on that ground.
Sees(a, b, kind) == a # 0 /\ b # 0 /\ <<a, b>> \in link.visible /\ kind # "jmp"

\* The reference constrains nothing: a call, for which there are trampolines,
\* or a cartridge whose banks are mapped side by side.
Free == Ref.kind = "jsr" \/ (~link.banked /\ Ref.kind # "branch")

SoftRef ==
    /\ Classifying
    /\ Free
    /\ Taken
    /\ UNCHANGED <<pin, allowed, class>>

\* bank_placement_restrict_to_replica, and the check of an image, which stays.
ReplicaRef ==
    /\ Classifying
    /\ ~Free /\ Ref.kind # "branch" /\ Ref.copies # {}
    /\ IF Ref.from \in Item
       THEN IF allowed[Ref.from] \cap Ref.copies = {} THEN Refuse("replicas")
            ELSE /\ allowed' = [allowed EXCEPT ![Ref.from] = @ \cap Ref.copies]
                 /\ Taken
                 /\ UNCHANGED <<pin, class>>
       ELSE IF Part[Ref.from].bank \notin Ref.copies THEN Refuse("replicas")
            ELSE Taken /\ UNCHANGED <<pin, allowed, class>>

\* bank_placement_union.
Unite(i, j) ==
    LET root == IF class[i] < class[j] THEN class[i] ELSE class[j] IN
    class' = [k \in Item |-> IF class[k] \in {class[i], class[j]} THEN root ELSE class[k]]

\* A reference from item to item.
ItemRef ==
    /\ Classifying
    /\ ~Free /\ (Ref.kind = "branch" \/ Ref.copies = {})
    /\ Ref.from \in Item /\ Ref.to # 0
    /\ LET a == pin[Ref.from]
           b == pin[Ref.to]
       IN  IF Ref.kind = "jmp" /\ a # 0 /\ b # 0 /\ a # b THEN Refuse("far jump")
           ELSE /\ Taken
                /\ IF Ref.kind # "branch" /\ Sees(a, b, Ref.kind) THEN UNCHANGED class
                   ELSE Unite(Ref.from, Ref.to)
                /\ UNCHANGED <<pin, allowed>>

\* bank_placement_pin_item.
Pin(i, b) ==
    IF pin[i] \notin {0, b} THEN Refuse("pins")
    ELSE pin' = [pin EXCEPT ![i] = b] /\ Taken /\ UNCHANGED <<allowed, class>>

\* A load image refers to an item, which must be where the image is.
ImageRef ==
    /\ Classifying
    /\ ~Free /\ Ref.kind # "branch" /\ Ref.copies = {}
    /\ Ref.from \notin Item /\ Ref.to # 0
    /\ LET b == Part[Ref.from].bank IN
       IF Sees(b, pin[Ref.to], Ref.kind)
       THEN Taken /\ UNCHANGED <<pin, allowed, class>>
       ELSE Pin(Ref.to, b)

\* An item refers to an absolute address that is in one bank.
AbsoluteRef ==
    /\ Classifying
    /\ ~Free /\ Ref.kind # "branch" /\ Ref.copies = {}
    /\ Ref.to = 0
    /\ LET here == IF Ref.from \notin Item THEN 0
                   ELSE IF pin[Ref.from] # 0 THEN pin[Ref.from] ELSE Part[Ref.from].bank
       IN  IF here = 0 \/ Ref.bank = 0 \/ Sees(here, Ref.bank, Ref.kind)
           THEN Taken /\ UNCHANGED <<pin, allowed, class>>
           ELSE Pin(Ref.from, Ref.bank)

-----------------------------------------------------------------------------
(* Components.  The first item of a component stands for it. *)

Component == {class[i] : i \in Item}
Members(c) == {i \in Item : class[i] = c}

\* Mutant of Pins: the other members have no say.
PinsOfFirst(c) == {pin[c]} \ {0}
\* Mutant of Allowed: the same for the copies.
AllowedOfFirst(c) == allowed[c]

Pins(c) == {pin[i] : i \in Members(c)} \ {0}
Allowed(c) == {b \in Bank : \A i \in Members(c) : b \in allowed[i]}
Pinned(c) == Pins(c) # {}

\* Images and startup tables take their bytes first.
Reserved(b) ==
    Bytes({i \in DOMAIN Part \ Item : Part[i].bank = b})
    + (IF b = link.tableBank /\ link.startup # "simple"
       THEN link.table.copy + link.table.zero + link.table.init ELSE 0)
Capacity(b) == link.region[b].end - link.region[b].start

Collapse ==
    /\ phase = "classify"
    /\ next > Len(link.ref)
    /\ IF \E c \in Component : Allowed(c) = {} THEN Refuse("replicas")
       ELSE IF \E c \in Component : Cardinality(Pins(c)) > 1 THEN Refuse("pins")
       ELSE IF \E c \in Component : ~(Pins(c) \subseteq Allowed(c)) THEN Refuse("replicas")
       ELSE IF \E b \in Bank : Reserved(b) > Capacity(b) THEN Refuse("full")
       ELSE /\ used' = [b \in Bank |-> Reserved(b)]
            /\ phase' = "assign"
            /\ UNCHANGED <<link, next, pin, allowed, class, place, changed, depth>>

-----------------------------------------------------------------------------
(* The allocator, in a dry run and in earnest. *)

Opened(r) == Placed(r.start, [cur |-> r.start, holes |-> {}])

Decide(run, r, c, o) ==
    IF run = "dry" THEN SimulateCode(r, c, o) ELSE AllocateCode(r, c, o)

\* The answers of the allocator in one of its runs, "dry" or "real", part by part;
\* after a refusal it goes no further, and what has no bytes here it passes over.
Answers(run, r, shapes) ==
    LET upto[k \in 0..Len(shapes)] ==
            IF k = 0 THEN Opened(r)
            ELSE LET so == upto[k - 1] IN
                 IF so.answer = "placed" /\ shapes[k].size > 0
                 THEN Decide(run, r, so.cursor, shapes[k]) ELSE so
    IN  upto
Laid(run, r, shapes) == Answers(run, r, shapes)[Len(shapes)].answer = "placed"

\* Code, constants and images of a bank in input order.
PartsIn(parts, b, pl) ==
    LET Here(i) == IF parts[i].text THEN pl[i] = b ELSE parts[i].bank = b
    IN  [i \in DOMAIN parts |-> IF Here(i) THEN parts[i].shape ELSE Plain(0)]

\* bank_placement_trial_fits: all tables, whatever the startup.
DryTables == <<Plain(link.table.copy), Plain(link.table.zero), Plain(link.table.init)>>

\* Mutant of TrialFits: the ledger is all there is.
TrialFitsAlways(pl) == TRUE

TrialFits(pl) ==
    \A b \in Bank :
        Laid("dry", link.region[b],
             PartsIn(Part, b, pl) \o (IF b = link.tableBank THEN DryTables ELSE <<>>))

\* layout_objects allocates the tables the startup reads.
Tables ==
    CASE link.startup = "simple" -> <<>>
      [] link.startup = "data" -> <<Plain(link.table.copy), Plain(link.table.init)>>
      [] link.startup = "full" ->
            <<Plain(link.table.copy), Plain(link.table.init), Plain(link.table.zero)>>

-----------------------------------------------------------------------------
(* Assignment. *)

With(c, b) == [i \in Item |-> IF class[i] = c THEN b ELSE place[i]]
Fits(c, b) ==
    /\ b \in Allowed(c)
    /\ Capacity(b) - used[b] >= Bytes(Members(c))
    /\ TrialFits(With(c, b))

Assign(c, b) ==
    /\ place' = With(c, b)
    /\ used' = [used EXCEPT ![b] = @ + Bytes(Members(c))]
    /\ UNCHANGED <<link, phase, next, pin, allowed, class, changed, depth>>

Unassigned == {c \in Component : place[c] = 0}

\* Hard-pinned components are assigned first, in input order.
AssignPinned ==
    /\ phase = "assign"
    /\ \E c \in Unassigned :
          /\ Pinned(c)
          /\ \A d \in Unassigned : Pinned(d) => c <= d
          /\ LET b == CHOOSE b \in Pins(c) : TRUE
             IN  IF Fits(c, b) THEN Assign(c, b) ELSE Refuse("full")

CallSites == {k \in DOMAIN link.ref : /\ link.ref[k].kind = "jsr"
                                      /\ link.ref[k].from \in Item /\ link.ref[k].to # 0}
Calls == IF link.banked THEN CallSites ELSE {}
CallEdges == {<<link.ref[k].from, link.ref[k].to>> : k \in CallSites}

\* Call sites between the component and others, and those that it would leave
\* in another bank.  A site costs the same bytes and cycles as any other.
Between(c) ==
    {k \in Calls : LET ends == {class[link.ref[k].from], class[link.ref[k].to]}
                   IN  c \in ends /\ ends # {c}}
Degree(c) == Cardinality(Between(c))
Cut(c, b) ==
    Cardinality({k \in Between(c) :
        \E i \in {link.ref[k].from, link.ref[k].to} :
            class[i] # c /\ place[i] \notin {0, b}})

\* Largest, then most called, then first; in simple mode the first.
Precedes(c, d) ==
    IF link.mode = "simple" THEN c <= d
    ELSE LET size == Bytes(Members(c)) - Bytes(Members(d))
             degree == Degree(c) - Degree(d)
         IN  size > 0 \/ (size = 0 /\ (degree > 0 \/ (degree = 0 /\ c <= d)))

AssignNext ==
    /\ phase = "assign"
    /\ \A c \in Unassigned : ~Pinned(c)
    /\ \E c \in Unassigned :
          /\ \A d \in Unassigned : Precedes(c, d)
          /\ LET fitting == {b \in Bank : Fits(c, b)}
                 cheapest == {b \in fitting : link.mode = "simple" \/
                                 \A d \in fitting : Cut(c, b) <= Cut(c, d)}
             IN  IF fitting = {} THEN Refuse("full") ELSE Assign(c, Least(cheapest))

-----------------------------------------------------------------------------
(* The local search. *)

Graph == INSTANCE CallGraph WITH Function <- Item

\* bank_placement_weighted_depth: main is entered by a jump, initializers are
\* called, and a call into another bank needs a second return address.
WeightedDepth(pl) ==
    LET deep[i \in Item] ==
            Max({1} \cup {1 + deep[e[2]] + (IF link.banked /\ pl[i] # pl[e[2]] THEN 1 ELSE 0) :
                             e \in {f \in CallEdges : f[1] = i}})
    IN  Max({0} \cup {deep[i] - 1 : i \in {j \in Item : Part[j].role = "entry"}}
                \cup {deep[i] : i \in {j \in Item : Part[j].role = "init"}})

StartSearch ==
    /\ phase = "assign"
    /\ Unassigned = {}
    /\ IF link.mode = "simple"
       THEN /\ phase' = "placed"
            /\ UNCHANGED <<link, next, pin, allowed, class, place, used, changed, depth>>
       ELSE IF Graph!Recursive(CallEdges) THEN Refuse("recursive")
       ELSE /\ phase' = "search"
            /\ next' = 1
            /\ changed' = FALSE
            /\ depth' = WeightedDepth(place)
            /\ UNCHANGED <<link, pin, allowed, class, place, used>>

\* Mutant of Improves: as good is good enough.
ImprovesWeakly(c, b) ==
    Cut(c, b) <= Cut(c, place[c]) /\ WeightedDepth(With(c, b)) <= depth

Improves(c, b) ==
    /\ WeightedDepth(With(c, b)) <= depth
    /\ \/ Cut(c, b) < Cut(c, place[c])
       \/ Cut(c, b) = Cut(c, place[c]) /\ WeightedDepth(With(c, b)) < depth

Better(c, b, d) ==
    LET cut == Cut(c, b) - Cut(c, d)
        deep == WeightedDepth(With(c, b)) - WeightedDepth(With(c, d))
    IN  cut < 0 \/ (cut = 0 /\ (deep < 0 \/ (deep = 0 /\ b <= d)))

Moves(c) ==
    {b \in Bank \ {place[c]} : ~Pinned(c) /\ Improves(c, b) /\ Fits(c, b)}

\* Mutant of Ledger: what the component leaves behind is not given back.
LedgerKept(c, b) == [used EXCEPT ![b] = @ + Bytes(Members(c))]

\* bank_placement_move_component.
Ledger(c, b) ==
    [used EXCEPT ![b] = @ + Bytes(Members(c)), ![place[c]] = @ - Bytes(Members(c))]

\* One component of a round; images are passed over.
Visit ==
    /\ phase = "search"
    /\ next \in DOMAIN Part
    /\ next' = next + 1
    /\ LET moves == IF next \in Component THEN Moves(next) ELSE {} IN
       IF moves = {} THEN UNCHANGED <<place, used, depth, changed>>
       ELSE \E b \in moves :
               /\ \A d \in moves : Better(next, b, d)
               /\ place' = With(next, b)
               /\ used' = Ledger(next, b)
               /\ depth' = WeightedDepth(With(next, b))
               /\ changed' = TRUE
    /\ UNCHANGED <<link, phase, pin, allowed, class>>

\* Mutant of Again: one round must do.
AgainNever == FALSE
Again == changed

EndRound ==
    /\ phase = "search"
    /\ next > Len(Part)
    /\ IF Again THEN next' = 1 /\ changed' = FALSE /\ UNCHANGED phase
       ELSE phase' = "placed" /\ UNCHANGED <<next, changed>>
    /\ UNCHANGED <<link, pin, allowed, class, place, used, depth>>

\* How the banks have answered when layout_objects has come to a part.
Answered(k) ==
    {Answers("real", link.region[b], PartsIn(Part, b, place))[k].answer : b \in Bank}

\* The call graph is checked once more, and layout_objects runs as far as the ROM
\* banks go, to the first part that it refuses.
LayOut ==
    /\ phase = "placed"
    /\ LET refused == {k \in DOMAIN Part : Answered(k) # {"placed"}}
           home == link.tableBank
       IN  phase' =
             IF Graph!Recursive(CallEdges) THEN "recursive"
             ELSE IF refused # {}
             THEN IF "scope" \in Answered(Least(refused)) THEN "scope" ELSE "parts overflow"
             ELSE IF ~Laid("real", link.region[home], PartsIn(Part, home, place) \o Tables)
             THEN "tables overflow"
             ELSE "laid out"
    /\ UNCHANGED <<link, next, pin, allowed, class, place, used, changed, depth>>

Finished == ~Running /\ UNCHANGED vars

Next ==
    \/ Collect
    \/ SoftRef \/ ReplicaRef \/ ItemRef \/ ImageRef \/ AbsoluteRef
    \/ Collapse
    \/ AssignPinned \/ AssignNext
    \/ StartSearch \/ Visit \/ EndRound
    \/ LayOut
    \/ Finished

\* The linker is one sequential program: while it can go on it does.  (WF_vars(Next)
\* with Running in place of ENABLED <<Next>>_vars, which TLC takes long to evaluate.)
Spec == Init /\ [][Next]_vars /\ ([]<>~Running \/ []<><<Next>>_vars)

-----------------------------------------------------------------------------
Settled == phase \in {"search", "placed"} \cup Ends

\* Code that jumps, branches or refers to data is placed where it reaches it:
\* in the same bank, or for data in one that sees it; however the constraint
\* was found, in whatever order, and whatever has been moved since.
ReachesAll ==
    Settled =>
        \A k \in DOMAIN link.ref :
            LET r == link.ref[k]
                Home(i) == IF i \in Item THEN place[i] ELSE Part[i].bank
            IN  /\ r.kind = "branch" => Home(r.from) = Home(r.to)
                /\ link.banked /\ r.kind \in {"jmp", "data"} /\ r.copies = {} =>
                      LET target == IF r.to # 0 THEN Home(r.to) ELSE r.bank IN
                      \/ target \in {0, Home(r.from)}
                      \/ r.kind = "data" /\ <<Home(r.from), target>> \in link.visible
                      \/ r.from \notin Item /\ r.to = 0

\* Every replicated object has a copy in the bank of the code that uses it.
CopyIsLocal ==
    Settled /\ link.banked =>
        \A k \in DOMAIN link.ref :
            LET r == link.ref[k] IN
            r.kind \in {"jmp", "data"} /\ r.copies # {} =>
                (IF r.from \in Item THEN place[r.from] ELSE Part[r.from].bank) \in r.copies

\* main, the runtime and what the source places by name are where they belong,
\* though they were assigned with the rest of their component.
StaysPinned ==
    Settled => \A i \in Item : FirstPin(Part[i]) \in {0, place[i]}

\* What ties layouts holds in the placement that is laid out.
TiesKept == ReachesAll /\ CopyIsLocal /\ StaysPinned

\* The ledger agrees with the placement, and no bank gives more than it had.
LedgerAgrees ==
    Settled =>
        \A b \in Bank :
            /\ used[b] = Reserved(b) + Bytes({i \in Item : place[i] = b})
            /\ used[b] <= Capacity(b)

\* linker/README.md: "before a candidate assignment is accepted, the linker now
\* dry-runs the actual ROM allocator in source order ... This prevents a
\* raw-byte fit from becoming a later layout overflow."  What was accepted, on a
\* ledger that agrees with the placement, finds room in the layout; only the tables
\* of the full startup, which the dry run allocates in another order, may fail to
\* find the holes they had there.  That is not to say that it is laid out: it is
\* refused then, and only then, if a .same or .cross branch leaves its layout, which
\* the dry run does not ask.  (Without an item there is no dry run.)
AcceptedIsLaidOut ==
    /\ LedgerAgrees
    /\ Item # {} /\ phase \in Ends =>
          /\ phase # "parts overflow"
          /\ phase = "tables overflow" => link.startup = "full"
          /\ phase = "scope" <=> \E i \in Item : OutOfScope(Part[i].shape)

\* The search ends where no single component that fits elsewhere would improve
\* the placement.
NothingLeftToMove ==
    phase = "placed" /\ link.mode = "optimized" =>
        depth = WeightedDepth(place) /\ \A c \in Component : Moves(c) = {}

\* The search ends.
PlacementEnds == <>(phase \in Refusals \cup Ends)
=============================================================================
