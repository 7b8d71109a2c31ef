------------------------ MODULE BankPlacementProofs ------------------------
(***************************************************************************)
(* What references tie together is together in every placement that is     *)
(* laid out, for any number of banks and layouts and in whatever order the *)
(* references come.                                                        *)
(*                                                                         *)
(* A reference that was read is tied: by the component of its two ends, by *)
(* a pin, by the banks allowed to one end, or because one bank sees        *)
(* another, which is asked of pins only, and those never change.  The      *)
(* placement is one bank for each component, allowed to all of its         *)
(* members, and their pin if one has a pin.  The last round of the search  *)
(* has been to every component and has found nothing to move.              *)
(*                                                                         *)
(* What is laid out was dry-run: the ledger is what was reserved and what  *)
(* is placed, and the last placement that was accepted is the one the      *)
(* allocator is given.  It answers as the dry run did up to the first part *)
(* with a .same or .cross branch out of its layout, at which it stops; if  *)
(* there is none, to the end.  It allocates fewer tables than the dry run, *)
(* which never takes the room from what comes after them.                  *)
(***************************************************************************)
EXTENDS BankPlacement, FiniteSetTheorems, WellFoundedInduction, TLAPS

\* Absolute data references of an item that may be moved are judged from the
\* bank that the configuration names for it (bank_placement_note_reference),
\* so that nothing is claimed of a program in which that bank sees them.
JudgedInPlace ==
    \A k \in DOMAIN link.ref :
        LET r == link.ref[k] IN
        r.to = 0 /\ r.from \in Item /\ r.kind = "data" =>
            \/ FirstPin(Part[r.from]) = Part[r.from].bank
            \/ <<Part[r.from].bank, r.bank>> \notin link.visible

Later == {"assign", "search", "placed"} \cup Ends

PlacementTypeOK ==
    /\ link \in Link
    /\ phase \in Refusals \cup Later \cup {"collect", "classify"}
    /\ next \in Nat \ {0}
    /\ pin \in [Item -> {0} \cup Bank]
    /\ allowed \in [Item -> SUBSET Bank]
    /\ class \in [Item -> Item]
    /\ place \in [Item -> {0} \cup Bank]

\* What was asked for at first still is; the first item stands for a component.
PinInv == \A i \in Item : FirstPin(Part[i]) # 0 => pin[i] = FirstPin(Part[i])
ClassInv == \A i \in Item : class[class[i]] = class[i]

Hard(r) == link.banked /\ r.kind \in {"jmp", "data"}

TiedBranch(r) == r.kind = "branch" => class[r.from] = class[r.to]
TiedCopy(r) ==
    Hard(r) /\ r.copies # {} =>
        IF r.from \in Item THEN allowed[r.from] \subseteq r.copies
                           ELSE Part[r.from].bank \in r.copies
TiedItem(r) ==
    Hard(r) /\ r.copies = {} /\ r.to # 0 /\ r.from \in Item =>
        class[r.from] = class[r.to] \/ Sees(pin[r.from], pin[r.to], r.kind)
TiedImage(r) ==
    Hard(r) /\ r.copies = {} /\ r.to # 0 /\ r.from \notin Item =>
        \/ pin[r.to] = Part[r.from].bank
        \/ Sees(Part[r.from].bank, pin[r.to], r.kind)
TiedAbsolute(r) ==
    Hard(r) /\ r.copies = {} /\ r.to = 0 /\ r.from \in Item =>
        \/ r.bank = 0
        \/ pin[r.from] = r.bank
        \/ Sees(pin[r.from], r.bank, r.kind)
        \/ Sees(Part[r.from].bank, r.bank, r.kind)

Tied(k) == LET r == link.ref[k]
           IN  /\ TiedBranch(r) /\ TiedCopy(r)
               /\ TiedItem(r) /\ TiedImage(r) /\ TiedAbsolute(r)

RefInv ==
    \A k \in DOMAIN link.ref :
        phase \in Later \/ (phase = "classify" /\ k < next) => Tied(k)

\* After the components are collapsed their members agree.
CompInv ==
    phase \in Later =>
        \A i, j \in Item :
            class[i] = class[j] /\ pin[i] # 0 =>
                /\ pin[j] \in {0, pin[i]}
                /\ pin[i] \in allowed[j]

\* Nothing is placed before the references are read, from the first; then the
\* items of a component are in one bank, which suits them all.
PlaceInv ==
    /\ phase = "collect" => next = 1
    /\ \A i \in Item : place[i] = place[class[i]]
    /\ phase \in {"collect", "classify"} => \A i \in Item : place[i] = 0
    /\ \A i \in Item : place[i] # 0 => /\ place[i] \in allowed[i]
                                       /\ pin[i] \in {0, place[i]}
    /\ Settled => \A i \in Item : place[i] # 0

PlacementInv == /\ PlacementTypeOK
                /\ PinInv /\ ClassInv
                /\ RefInv
                /\ CompInv
                /\ PlaceInv

-----------------------------------------------------------------------------
\* The parts of a link.
LEMMA LinkFacts ==
    ASSUME link \in Link
    PROVE  /\ \A i \in Item : /\ Part[i].bank \in Bank /\ Part[i].auto \in BOOLEAN
                              /\ FirstPin(Part[i]) \in {0} \cup Bank
           /\ \A k \in DOMAIN link.ref :
                 LET r == link.ref[k]
                 IN  /\ r \in RefType
                     /\ r.from \in DOMAIN Part /\ Part[r.from].bank \in Bank
                     /\ r.to # 0 => r.to \in Item
                     /\ r.kind = "branch" => r.from \in Item /\ r.to # 0
           /\ 0 \notin Bank
           /\ DOMAIN link.ref = 1..Len(link.ref)
<1>1. 1 \in Bank /\ 0 \notin Bank BY BankAssumption DEF Bank
<1>2. /\ link.part \in Seq(PartType) /\ link.ref \in Seq(RefType)
  BY LinkAssumption DEF LinkType
<1>3. \A i \in DOMAIN Part : Part[i] \in PartType BY <1>2 DEF Part
<1>4. \A i \in DOMAIN Part : Part[i].bank \in Bank /\ Part[i].auto \in BOOLEAN
  BY <1>3 DEF PartType
<1>5. \A i \in Item : i \in DOMAIN Part BY DEF Item
<1>6. \A i \in Item : FirstPin(Part[i]) \in {0} \cup Bank
  BY <1>1, <1>4, <1>5 DEF FirstPin, Startup
<1>7. ASSUME NEW k \in DOMAIN link.ref
      PROVE  /\ link.ref[k] \in RefType
             /\ link.ref[k].from \in DOMAIN Part
             /\ link.ref[k].to # 0 => link.ref[k].to \in Item
             /\ link.ref[k].kind = "branch" => link.ref[k].from \in Item /\ link.ref[k].to # 0
  <2>1. link.ref[k] \in RefType BY <1>2
  <2>2. /\ link.ref[k].from \in DOMAIN link.part
        /\ link.ref[k].to \in {0} \cup {i \in DOMAIN link.part : link.part[i].text}
        /\ link.ref[k].kind = "branch" =>
              link.part[link.ref[k].from].text /\ link.ref[k].to # 0
    BY LinkAssumption
  <2> QED BY <2>1, <2>2 DEF Item, Part
<1>8. DOMAIN link.ref = 1..Len(link.ref) BY <1>2
<1> QED BY <1>1, <1>4, <1>5, <1>6, <1>7, <1>8

\* What ties a reference is not lost when pins stay, components grow and the
\* allowed banks get fewer.
LEMMA TiedStays ==
    ASSUME link \in Link, link' = link, NEW k \in DOMAIN link.ref, Tied(k),
           \A i \in Item : pin[i] # 0 => pin'[i] = pin[i],
           \A i \in Item : allowed'[i] \subseteq allowed[i],
           \A i, j \in Item : class[i] = class[j] => class'[i] = class'[j]
    PROVE  Tied(k)'
<1> DEFINE r == link.ref[k]
<1>1. /\ r.from \in DOMAIN Part /\ Part[r.from].bank \in Bank
      /\ r.to # 0 => r.to \in Item
      /\ r.kind = "branch" => r.from \in Item /\ r.to # 0
      /\ 0 \notin Bank
  BY LinkFacts
<1>2. Item' = Item /\ Part' = Part /\ r' = r BY DEF Item, Part
<1>3. TiedBranch(r) /\ TiedCopy(r) /\ TiedItem(r) /\ TiedImage(r) /\ TiedAbsolute(r)
  BY DEF Tied
<1> HIDE DEF r
<1>4. TiedBranch(r)' BY <1>1, <1>2, <1>3 DEF TiedBranch
<1>5. TiedCopy(r)' BY <1>2, <1>3 DEF TiedCopy, Hard
<1>6. TiedItem(r)'
  BY <1>1, <1>2, <1>3 DEF TiedItem, Hard, Sees
<1>7. TiedImage(r)'
  BY <1>1, <1>2, <1>3 DEF TiedImage, Hard, Sees
<1>8. TiedAbsolute(r)'
  BY <1>1, <1>2, <1>3 DEF TiedAbsolute, Hard, Sees
<1> QED BY <1>2, <1>4, <1>5, <1>6, <1>7, <1>8 DEF Tied, r

-----------------------------------------------------------------------------
LEMMA InitPlacement == Init => PlacementInv
<1> SUFFICES ASSUME Init PROVE PlacementInv OBVIOUS
<1>1. link \in Link BY DEF Init
<1>2. PlacementTypeOK BY <1>1, LinkFacts DEF Init, PlacementTypeOK
<1>3. PinInv /\ ClassInv BY DEF Init, PinInv, ClassInv
<1>4. RefInv /\ CompInv /\ PlaceInv
  BY DEF Init, RefInv, CompInv, PlaceInv, Later, Ends, Settled
<1> QED BY <1>2, <1>3, <1>4 DEF PlacementInv

\* A linker that has stopped claims nothing.
LEMMA RefuseKeeps ==
    ASSUME PlacementInv, NEW why \in Refusals, Refuse(why)
    PROVE  PlacementInv'
<1> USE DEF PlacementInv
<1>1. /\ phase' \in Refusals /\ link' = link /\ next' = next /\ pin' = pin
      /\ allowed' = allowed /\ class' = class /\ place' = place
  BY DEF Refuse
<1>2. /\ phase' \notin Later /\ phase' \notin {"collect", "classify"}
      /\ phase' \notin {"search", "placed"} \cup Ends
  BY <1>1 DEF Refusals, Later, Ends
<1>3. Item' = Item /\ Part' = Part BY <1>1 DEF Item, Part
<1>4. PlacementTypeOK' BY <1>1, <1>3 DEF PlacementTypeOK
<1>5. PinInv' /\ ClassInv'
  BY <1>1, <1>3 DEF PinInv, ClassInv, FirstPin, Movable
<1>6. RefInv' /\ CompInv' BY <1>2 DEF RefInv, CompInv
<1>7. PlaceInv' BY <1>1, <1>2, <1>3 DEF PlaceInv, Settled
<1> QED BY <1>4, <1>5, <1>6, <1>7

\* A reference is read, and is tied by what that does.
LEMMA TakenKeeps ==
    ASSUME PlacementInv, Classifying, Taken, NEW n \in DOMAIN link.ref, n = next,
           pin' \in [Item -> {0} \cup Bank],
           \A i \in Item : pin[i] # 0 => pin'[i] = pin[i],
           allowed' \in [Item -> SUBSET Bank],
           \A i \in Item : allowed'[i] \subseteq allowed[i],
           class' \in [Item -> Item],
           \A i, j \in Item : class[i] = class[j] => class'[i] = class'[j],
           \A i \in Item : class'[class'[i]] = class'[i],
           Tied(n)'
    PROVE  PlacementInv'
<1> USE DEF PlacementInv
<1>1. /\ phase = "classify" /\ phase' = "classify" /\ next' = next + 1
      /\ link' = link /\ place' = place
  BY DEF Classifying, Taken
<1>2. phase' \notin Later /\ phase' \notin {"search", "placed"} \cup Ends
  BY <1>1 DEF Later, Ends
<1>3. Item' = Item /\ Part' = Part BY <1>1 DEF Item, Part
<1>4. link \in Link /\ next \in Nat \ {0} BY DEF PlacementTypeOK
<1>5. PlacementTypeOK' BY <1>1, <1>3 DEF PlacementTypeOK
<1>6. PinInv' BY <1>1, <1>3 DEF PinInv, FirstPin, Movable
<1>7. ClassInv' BY <1>3 DEF ClassInv
<1>8. RefInv'
  <2> SUFFICES ASSUME NEW k \in DOMAIN link.ref, k < next + 1 PROVE Tied(k)'
    BY <1>1, <1>2 DEF RefInv
  <2>1. CASE k = next BY <2>1
  <2>2. CASE k # next
    <3>1. k \in Int BY <1>4, LinkFacts
    <3>2. k < next BY <1>4, <2>2, <3>1
    <3>3. Tied(k) BY <1>1, <3>2 DEF RefInv
    <3> QED BY <1>1, <1>4, <3>3, TiedStays
  <2> QED BY <2>1, <2>2
<1>9. CompInv' BY <1>2 DEF CompInv
<1>10. PlaceInv'
  <2>1. \A i \in Item : place[i] = 0 BY <1>1 DEF PlaceInv
  <2> QED BY <1>1, <1>2, <1>3, <2>1 DEF PlaceInv, Settled
<1> QED BY <1>5, <1>6, <1>7, <1>8, <1>9, <1>10

\* One component is assigned, or moved, to a bank that its members allow.
LEMMA AssignKeeps ==
    ASSUME PlacementInv, NEW c \in Item, NEW b \in Bank,
           phase \in {"assign", "search"},
           b \in Allowed(c), Pins(c) \subseteq {b},
           place' = With(c, b), phase' = phase, next' \in Nat \ {0},
           UNCHANGED <<link, pin, allowed, class>>
    PROVE  PlacementInv'
<1> USE DEF PlacementInv
<1>1. phase \in Later /\ phase \notin {"collect", "classify"} BY DEF Later
<1>2. Item' = Item /\ Part' = Part BY DEF Item, Part
<1>3. /\ class \in [Item -> Item] /\ place \in [Item -> {0} \cup Bank]
      /\ pin \in [Item -> {0} \cup Bank] /\ link \in Link /\ 0 \notin Bank
  BY LinkFacts DEF PlacementTypeOK
<1>4. place' \in [Item -> {0} \cup Bank] BY <1>3 DEF With
<1>5. PlacementTypeOK' BY <1>1, <1>2, <1>4 DEF PlacementTypeOK
<1>6. PinInv' /\ ClassInv' BY <1>2 DEF PinInv, ClassInv, FirstPin, Movable
<1>7. RefInv'
  <2> SUFFICES ASSUME NEW k \in DOMAIN link.ref PROVE Tied(k)'
    BY <1>1 DEF RefInv
  <2>1. Tied(k) BY <1>1 DEF RefInv
  <2> QED BY <1>3, <2>1, TiedStays
<1>8. CompInv' BY <1>1, <1>2 DEF CompInv
<1>9. PlaceInv'
  <2>1. \A i \in Item : place'[i] = IF class[i] = c THEN b ELSE place[i]
    BY DEF With
  <2>2. \A i \in Item : class[class[i]] = class[i] /\ class[i] \in Item
    BY <1>3 DEF ClassInv
  <2>3. \A i \in Item : place'[i] = place'[class[i]]
    BY <2>1, <2>2 DEF PlaceInv
  <2>4. \A i \in Item : class[i] = c => b \in allowed[i] /\ pin[i] \in {0, b}
    BY DEF Allowed, Pins, Members
  <2>5. \A i \in Item : place'[i] # 0 => /\ place'[i] \in allowed[i]
                                        /\ pin[i] \in {0, place'[i]}
    BY <2>1, <2>4 DEF PlaceInv
  <2>6. Settled' => \A i \in Item : place'[i] # 0
    BY <1>3, <2>1 DEF PlaceInv, Settled
  <2> QED BY <1>1, <1>2, <2>3, <2>5, <2>6 DEF PlaceInv
<1> QED BY <1>5, <1>6, <1>7, <1>8, <1>9

\* The placement is handed on, with every item in it.
LEMMA HandedOn ==
    ASSUME PlacementInv, phase \in Later, phase' \in Later, next' \in Nat \ {0},
           \A i \in Item : place[i] # 0,
           UNCHANGED <<link, pin, allowed, class, place>>
    PROVE  PlacementInv'
<1> USE DEF PlacementInv
<1>1. Item' = Item /\ Part' = Part BY DEF Item, Part
<1>2. PlacementTypeOK' BY <1>1 DEF PlacementTypeOK
<1>3. PinInv' /\ ClassInv' BY <1>1 DEF PinInv, ClassInv, FirstPin, Movable
<1>4. RefInv'
  <2> SUFFICES ASSUME NEW k \in DOMAIN link.ref PROVE Tied(k)'
    BY DEF RefInv
  <2>1. Tied(k) /\ link \in Link BY DEF RefInv, PlacementTypeOK
  <2> QED BY <2>1, TiedStays
<1>5. CompInv' BY <1>1 DEF CompInv
<1>6. PlaceInv' BY <1>1 DEF PlaceInv, Later, Ends, Settled
<1> QED BY <1>2, <1>3, <1>4, <1>5, <1>6

-----------------------------------------------------------------------------
\* What the steps that read a reference know of it.
LEMMA RefFacts ==
    ASSUME PlacementInv, Classifying
    PROVE  /\ next \in DOMAIN link.ref /\ next \in Nat
           /\ Ref.from \in DOMAIN Part /\ Part[Ref.from].bank \in Bank
           /\ Ref.to # 0 => Ref.to \in Item
           /\ Ref.kind = "branch" => Ref.from \in Item /\ Ref.to # 0
           /\ Ref.kind \in {"jsr", "jmp", "data", "branch"}
           /\ Ref.bank \in {0} \cup Bank
           /\ 0 \notin Bank
<1>1. link \in Link /\ next \in Nat \ {0} BY DEF PlacementInv, PlacementTypeOK
<1>2. next \in DOMAIN link.ref BY <1>1, LinkFacts DEF Classifying
<1>3. link.ref[next] \in RefType BY <1>1, <1>2, LinkFacts
<1> QED BY <1>1, <1>2, <1>3, LinkFacts DEF Ref, RefType

\* A step that reads a reference and leaves everything else as it is.
LEMMA NothingTaken ==
    ASSUME PlacementInv, Classifying, Taken, UNCHANGED <<pin, allowed, class>>,
           Tied(next)
    PROVE  PlacementInv'
<1>1. PICK n \in DOMAIN link.ref : n = next BY RefFacts
<1>2. link \in Link /\ link' = link BY DEF PlacementInv, PlacementTypeOK, Taken
<1>3. Tied(n)' BY <1>1, <1>2, TiedStays
<1>4. /\ pin' \in [Item -> {0} \cup Bank] /\ allowed' \in [Item -> SUBSET Bank]
      /\ class' \in [Item -> Item]
      /\ \A i \in Item : class'[class'[i]] = class'[i]
  BY DEF PlacementInv, PlacementTypeOK, ClassInv
<1> QED BY <1>1, <1>3, <1>4, TakenKeeps

LEMMA SoftRefKeeps == ASSUME PlacementInv, SoftRef PROVE PlacementInv'
<1>1. Classifying /\ Taken /\ UNCHANGED <<pin, allowed, class>> /\ Free BY DEF SoftRef
<1>2. Ref.kind # "branch" /\ ~Hard(Ref) BY <1>1 DEF Free, Hard
<1>3. Tied(next)
  BY <1>2 DEF Tied, Ref, TiedBranch, TiedCopy, TiedItem, TiedImage, TiedAbsolute
<1> QED BY <1>1, <1>3, NothingTaken

LEMMA ReplicaRefKeeps == ASSUME PlacementInv, ReplicaRef PROVE PlacementInv'
<1>1. Classifying /\ ~Free /\ Ref.kind # "branch" /\ Ref.copies # {} BY DEF ReplicaRef
<1>2. ASSUME NEW why \in Refusals, Refuse(why) PROVE PlacementInv'
  BY <1>2, RefuseKeeps
<1>3. ASSUME Ref.from \in Item, Taken, UNCHANGED <<pin, class>>,
             allowed' = [allowed EXCEPT ![Ref.from] = @ \cap Ref.copies]
      PROVE  PlacementInv'
  <2>1. PICK n \in DOMAIN link.ref : n = next BY <1>1, RefFacts
  <2>2. /\ link' = link /\ Item' = Item /\ Part' = Part /\ link.ref[n] = Ref
        /\ Ref.from \in Item
    BY <1>3, <2>1 DEF Taken, Item, Part, Ref
  <2>3. /\ allowed \in [Item -> SUBSET Bank] /\ pin \in [Item -> {0} \cup Bank]
        /\ class \in [Item -> Item] /\ \A i \in Item : class[class[i]] = class[i]
    BY DEF PlacementInv, PlacementTypeOK, ClassInv
  <2>4. /\ allowed' \in [Item -> SUBSET Bank]
        /\ \A i \in Item : allowed'[i] \subseteq allowed[i]
        /\ allowed'[Ref.from] \subseteq Ref.copies
    BY <1>3, <2>3
  <2>5. Tied(n)'
    <3> DEFINE r == link.ref[n]
    <3>1. /\ r' = r /\ r.kind # "branch" /\ r.copies # {} /\ r.from \in Item
          /\ allowed'[r.from] \subseteq r.copies
      BY <1>1, <2>2, <2>4
    <3> HIDE DEF r
    <3>2. TiedBranch(r)' /\ TiedItem(r)' /\ TiedImage(r)' /\ TiedAbsolute(r)'
      BY <3>1 DEF TiedBranch, TiedItem, TiedImage, TiedAbsolute
    <3>3. TiedCopy(r)' BY <2>2, <3>1 DEF TiedCopy
    <3> QED BY <3>2, <3>3 DEF Tied, r
  <2> QED BY <1>1, <1>3, <2>1, <2>3, <2>4, <2>5, TakenKeeps
<1>4. ASSUME Ref.from \notin Item, Part[Ref.from].bank \in Ref.copies,
             Taken, UNCHANGED <<pin, allowed, class>>
      PROVE  PlacementInv'
  <2>1. Tied(next)
    BY <1>1, <1>4 DEF Tied, Ref, TiedBranch, TiedCopy, TiedItem, TiedImage, TiedAbsolute
  <2> QED BY <1>1, <1>4, <2>1, NothingTaken
<1>5. "replicas" \in Refusals BY DEF Refusals
<1> QED BY <1>2, <1>3, <1>4, <1>5 DEF ReplicaRef

\* A component is one set of items before and after it is united with another.
LEMMA UniteGrows ==
    ASSUME class \in [Item -> Item], \A k \in Item : class[class[k]] = class[k],
           NEW i \in Item, NEW j \in Item, Unite(i, j)
    PROVE  /\ class' \in [Item -> Item]
           /\ \A k, l \in Item : class[k] = class[l] => class'[k] = class'[l]
           /\ \A k \in Item : class'[class'[k]] = class'[k]
           /\ class'[i] = class'[j]
<1>1. PICK root \in {class[i], class[j]} :
          class' = [k \in Item |-> IF class[k] \in {class[i], class[j]} THEN root ELSE class[k]]
  BY DEF Unite
<1>2. root \in Item /\ class[root] = root BY <1>1
<1>3. \A k \in Item : class'[k] = IF class[k] \in {class[i], class[j]} THEN root ELSE class[k]
  BY <1>1
<1>4. class' \in [Item -> Item] BY <1>1, <1>2
<1>5. \A k, l \in Item : class[k] = class[l] => class'[k] = class'[l] BY <1>3
<1>6. class'[i] = class'[j] BY <1>3
<1>7. ASSUME NEW k \in Item PROVE class'[class'[k]] = class'[k]
  <2>1. CASE class[k] \in {class[i], class[j]}
    <3>1. class'[k] = root BY <1>3, <2>1
    <3>2. class'[root] = root BY <1>2, <1>3
    <3> QED BY <3>1, <3>2
  <2>2. CASE class[k] \notin {class[i], class[j]}
    <3>1. class'[k] = class[k] BY <1>3, <2>2
    <3>2. class[k] \in Item /\ class[class[k]] = class[k] OBVIOUS
    <3> QED BY <1>3, <2>2, <3>1, <3>2
  <2> QED BY <2>1, <2>2
<1> QED BY <1>4, <1>5, <1>6, <1>7

LEMMA ItemRefKeeps == ASSUME PlacementInv, ItemRef PROVE PlacementInv'
<1>1. /\ Classifying /\ ~Free /\ (Ref.kind = "branch" \/ Ref.copies = {})
      /\ Ref.from \in Item /\ Ref.to # 0
  BY DEF ItemRef
<1>2. Ref.to \in Item BY <1>1, RefFacts
<1>3. ASSUME Refuse("far jump") PROVE PlacementInv'
  BY <1>3, RefuseKeeps DEF Refusals
<1>4. ASSUME Taken, UNCHANGED <<pin, allowed, class>>, Ref.kind # "branch",
             Sees(pin[Ref.from], pin[Ref.to], Ref.kind)
      PROVE  PlacementInv'
  <2>1. Tied(next)
    BY <1>1, <1>4 DEF Tied, Ref, TiedBranch, TiedCopy, TiedItem, TiedImage, TiedAbsolute
  <2> QED BY <1>1, <1>4, <2>1, NothingTaken
<1>5. ASSUME Taken, UNCHANGED <<pin, allowed>>, Unite(Ref.from, Ref.to) PROVE PlacementInv'
  <2>1. PICK n \in DOMAIN link.ref : n = next BY <1>1, RefFacts
  <2>2. /\ link' = link /\ Item' = Item /\ Part' = Part /\ link.ref[n] = Ref
    BY <1>5, <2>1 DEF Taken, Item, Part, Ref
  <2>3. /\ allowed \in [Item -> SUBSET Bank] /\ pin \in [Item -> {0} \cup Bank]
        /\ class \in [Item -> Item] /\ \A i \in Item : class[class[i]] = class[i]
    BY DEF PlacementInv, PlacementTypeOK, ClassInv
  <2>4. /\ class' \in [Item -> Item]
        /\ \A k, l \in Item : class[k] = class[l] => class'[k] = class'[l]
        /\ \A k \in Item : class'[class'[k]] = class'[k]
        /\ class'[Ref.from] = class'[Ref.to]
    <3>1. PICK i \in Item, j \in Item : i = Ref.from /\ j = Ref.to BY <1>1, <1>2
    <3>2. Unite(i, j) BY <1>5, <3>1
    <3> QED BY <2>3, <3>1, <3>2, UniteGrows
  <2>5. Tied(n)'
    <3> DEFINE r == link.ref[n]
    <3>1. /\ r' = r /\ r.from \in Item /\ r.to # 0
          /\ r.kind = "branch" \/ r.copies = {}
          /\ class'[r.from] = class'[r.to]
      BY <1>1, <2>2, <2>4
    <3> HIDE DEF r
    <3>2. TiedBranch(r)' /\ TiedCopy(r)' /\ TiedItem(r)' /\ TiedImage(r)' /\ TiedAbsolute(r)'
      BY <2>2, <3>1 DEF TiedBranch, TiedCopy, TiedItem, TiedImage, TiedAbsolute, Hard
    <3> QED BY <3>2 DEF Tied, r
  <2> QED BY <1>1, <1>5, <2>1, <2>3, <2>4, <2>5, TakenKeeps
<1> QED BY <1>3, <1>4, <1>5 DEF ItemRef

\* An item is pinned, or the link is refused.
LEMMA PinKeeps ==
    ASSUME PlacementInv, Classifying, NEW i \in Item, NEW b \in Bank, Pin(i, b),
           Ref.kind # "branch", Ref.copies = {},
           \/ Ref.to # 0 /\ Ref.from \notin Item /\ i = Ref.to /\ b = Part[Ref.from].bank
           \/ Ref.to = 0 /\ i = Ref.from /\ b = Ref.bank
    PROVE  PlacementInv'
<1>1. ASSUME Refuse("pins") PROVE PlacementInv'
  BY <1>1, RefuseKeeps DEF Refusals
<1>2. ASSUME pin[i] \in {0, b}, pin' = [pin EXCEPT ![i] = b], Taken,
             UNCHANGED <<allowed, class>>
      PROVE  PlacementInv'
  <2>1. PICK n \in DOMAIN link.ref : n = next BY RefFacts
  <2>2. /\ link' = link /\ Item' = Item /\ Part' = Part /\ link.ref[n] = Ref
    BY <1>2, <2>1 DEF Taken, Item, Part, Ref
  <2>3. /\ allowed \in [Item -> SUBSET Bank] /\ pin \in [Item -> {0} \cup Bank]
        /\ class \in [Item -> Item] /\ \A j \in Item : class[class[j]] = class[j]
    BY DEF PlacementInv, PlacementTypeOK, ClassInv
  <2>4. /\ pin' \in [Item -> {0} \cup Bank]
        /\ \A j \in Item : pin[j] # 0 => pin'[j] = pin[j]
        /\ pin'[i] = b
    BY <1>2, <2>3
  <2>5. Tied(n)'
    <3> DEFINE r == link.ref[n]
    <3>1. /\ r' = r /\ r.kind # "branch" /\ r.copies = {}
          /\ \/ r.to # 0 /\ r.from \notin Item /\ pin'[r.to] = Part[r.from].bank
             \/ r.to = 0 /\ pin'[r.from] = r.bank
      BY <2>2, <2>4
    <3> HIDE DEF r
    <3>2. TiedBranch(r)' /\ TiedCopy(r)' /\ TiedItem(r)' /\ TiedImage(r)' /\ TiedAbsolute(r)'
      BY <2>2, <3>1 DEF TiedBranch, TiedCopy, TiedItem, TiedImage, TiedAbsolute
    <3> QED BY <3>2 DEF Tied, r
  <2> QED BY <1>2, <2>1, <2>3, <2>4, <2>5, TakenKeeps
<1> QED BY <1>1, <1>2 DEF Pin

LEMMA ImageRefKeeps == ASSUME PlacementInv, ImageRef PROVE PlacementInv'
<1>1. /\ Classifying /\ ~Free /\ Ref.kind # "branch" /\ Ref.copies = {}
      /\ Ref.from \notin Item /\ Ref.to # 0
  BY DEF ImageRef
<1>2. Ref.to \in Item /\ Part[Ref.from].bank \in Bank BY <1>1, RefFacts
<1>3. ASSUME Taken, UNCHANGED <<pin, allowed, class>>,
             Sees(Part[Ref.from].bank, pin[Ref.to], Ref.kind)
      PROVE  PlacementInv'
  <2>1. Tied(next)
    BY <1>1, <1>3 DEF Tied, Ref, TiedBranch, TiedCopy, TiedItem, TiedImage, TiedAbsolute
  <2> QED BY <1>1, <1>3, <2>1, NothingTaken
<1>4. ASSUME Pin(Ref.to, Part[Ref.from].bank) PROVE PlacementInv'
  <2>1. PICK i \in Item, b \in Bank : i = Ref.to /\ b = Part[Ref.from].bank BY <1>2
  <2> QED BY <1>1, <1>4, <2>1, PinKeeps
<1> QED BY <1>3, <1>4 DEF ImageRef

LEMMA AbsoluteRefKeeps == ASSUME PlacementInv, AbsoluteRef PROVE PlacementInv'
<1> DEFINE here == IF Ref.from \notin Item THEN 0
                   ELSE IF pin[Ref.from] # 0 THEN pin[Ref.from] ELSE Part[Ref.from].bank
<1>1. /\ Classifying /\ ~Free /\ Ref.kind # "branch" /\ Ref.copies = {} /\ Ref.to = 0
  BY DEF AbsoluteRef
<1>2. IF here = 0 \/ Ref.bank = 0 \/ Sees(here, Ref.bank, Ref.kind)
      THEN Taken /\ UNCHANGED <<pin, allowed, class>>
      ELSE Pin(Ref.from, Ref.bank)
  BY DEF AbsoluteRef
<1>3. here # 0 => Ref.from \in Item OBVIOUS
<1>4. Ref.from \in Item => here # 0 /\ here \in {pin[Ref.from], Part[Ref.from].bank}
  BY <1>1, RefFacts
<1> HIDE DEF here
<1>5. CASE here = 0 \/ Ref.bank = 0 \/ Sees(here, Ref.bank, Ref.kind)
  <2>1. Tied(next)
    BY <1>1, <1>4, <1>5 DEF Tied, Ref, TiedBranch, TiedCopy, TiedItem, TiedImage, TiedAbsolute
  <2> QED BY <1>1, <1>2, <1>5, <2>1, NothingTaken
<1>6. CASE ~(here = 0 \/ Ref.bank = 0 \/ Sees(here, Ref.bank, Ref.kind))
  <2>1. PICK i \in Item, b \in Bank : i = Ref.from /\ b = Ref.bank
    BY <1>1, <1>3, <1>6, RefFacts
  <2> QED BY <1>1, <1>2, <1>6, <2>1, PinKeeps
<1> QED BY <1>5, <1>6

-----------------------------------------------------------------------------
\* The components are collapsed: no member may be pinned elsewhere than another.
LEMMA CollapseKeeps == ASSUME PlacementInv, Collapse PROVE PlacementInv'
<1>1. phase = "classify" /\ next > Len(link.ref) BY DEF Collapse
<1>2. ASSUME NEW why \in Refusals, Refuse(why) PROVE PlacementInv'
  BY <1>2, RefuseKeeps
<1>3. ASSUME \A c \in Component : ~(Cardinality(Pins(c)) > 1),
             \A c \in Component : Pins(c) \subseteq Allowed(c),
             phase' = "assign", UNCHANGED <<link, next, pin, allowed, class, place>>
      PROVE  PlacementInv'
  <2> USE DEF PlacementInv
  <2>1. Item' = Item /\ Part' = Part BY <1>3 DEF Item, Part
  <2>2. /\ link \in Link /\ next \in Nat \ {0} /\ class \in [Item -> Item]
        /\ pin \in [Item -> {0} \cup Bank]
    BY DEF PlacementTypeOK
  <2>3. phase' \in Later /\ phase' \notin {"collect", "classify"} /\ ~Settled'
    BY <1>3 DEF Later, Settled, Ends
  <2>4. PlacementTypeOK' BY <1>3, <2>1, <2>3 DEF PlacementTypeOK
  <2>5. PinInv' /\ ClassInv' BY <1>3, <2>1 DEF PinInv, ClassInv, FirstPin, Movable
  <2>6. RefInv'
    <3> SUFFICES ASSUME NEW k \in DOMAIN link.ref PROVE Tied(k)'
      BY <1>3 DEF RefInv
    <3>1. k < next
      <4>1. DOMAIN link.ref = 1..Len(link.ref) BY <2>2, LinkFacts
      <4>2. Len(link.ref) \in Nat BY <2>2, LinkAssumption DEF LinkType
      <4> QED BY <1>1, <2>2, <4>1, <4>2
    <3>2. Tied(k) BY <1>1, <3>1 DEF RefInv
    <3> QED BY <1>3, <2>2, <3>2, TiedStays
  <2>7. ASSUME NEW i \in Item, NEW j \in Item, class[i] = class[j], pin[i] # 0
        PROVE  pin[j] \in {0, pin[i]} /\ pin[i] \in allowed[j]
    <3> DEFINE c == class[i]
    <3>1. c \in Component /\ i \in Members(c) /\ j \in Members(c)
      BY <2>7 DEF Component, Members
    <3>2. pin[i] \in Pins(c) /\ (pin[j] # 0 => pin[j] \in Pins(c))
      BY <2>7, <3>1 DEF Pins
    <3>3. IsFiniteSet(Pins(c))
      <4>1. Pins(c) \subseteq Bank BY <2>2 DEF Pins, Members
      <4>2. IsFiniteSet(Bank) BY BankAssumption, FS_Interval DEF Bank
      <4> QED BY <4>1, <4>2, FS_Subset
    <3>4. pin[j] \in {0, pin[i]}
      <4> SUFFICES ASSUME pin[j] # 0, pin[j] # pin[i] PROVE FALSE OBVIOUS
      <4>1. {pin[i], pin[j]} \subseteq Pins(c) BY <3>2
      <4>2. Cardinality({pin[i], pin[j]}) = 2
        <5>1. IsFiniteSet({pin[i]}) /\ Cardinality({pin[i]}) = 1 BY FS_Singleton
        <5>2. Cardinality({pin[i]} \cup {pin[j]}) = 2 BY <5>1, FS_AddElement
        <5>3. {pin[i]} \cup {pin[j]} = {pin[i], pin[j]} OBVIOUS
        <5> QED BY <5>2, <5>3
      <4>3. Cardinality({pin[i], pin[j]}) <= Cardinality(Pins(c))
        BY <3>3, <4>1, FS_Subset
      <4>4. Cardinality(Pins(c)) \in Nat BY <3>3, FS_CardinalityType
      <4>5. ~(Cardinality(Pins(c)) > 1) BY <1>3, <3>1
      <4> QED BY <4>2, <4>3, <4>4, <4>5
    <3>5. pin[i] \in allowed[j] BY <1>3, <3>1, <3>2 DEF Allowed
    <3> QED BY <3>4, <3>5
  <2>8. CompInv' BY <1>3, <2>1, <2>7 DEF CompInv
  <2>9. PlaceInv' BY <1>3, <2>1, <2>3 DEF PlaceInv
  <2> QED BY <2>4, <2>5, <2>6, <2>8, <2>9
<1>4. "replicas" \in Refusals /\ "pins" \in Refusals /\ "full" \in Refusals
  BY DEF Refusals
<1>5. \/ \E why \in Refusals : Refuse(why)
      \/ /\ \A c \in Component : ~(Cardinality(Pins(c)) > 1)
         /\ \A c \in Component : Pins(c) \subseteq Allowed(c)
         /\ phase' = "assign" /\ UNCHANGED <<link, next, pin, allowed, class, place>>
  <2>1. CASE \E c \in Component : Allowed(c) = {} BY <1>4, <2>1 DEF Collapse
  <2>2. CASE /\ ~ \E c \in Component : Allowed(c) = {}
             /\ \E c \in Component : Cardinality(Pins(c)) > 1
    BY <1>4, <2>2 DEF Collapse
  <2>3. CASE /\ ~ \E c \in Component : Allowed(c) = {}
             /\ ~ \E c \in Component : Cardinality(Pins(c)) > 1
             /\ \E c \in Component : ~(Pins(c) \subseteq Allowed(c))
    BY <1>4, <2>3 DEF Collapse
  <2>4. CASE /\ ~ \E c \in Component : Allowed(c) = {}
             /\ ~ \E c \in Component : Cardinality(Pins(c)) > 1
             /\ ~ \E c \in Component : ~(Pins(c) \subseteq Allowed(c))
    BY <1>4, <2>4 DEF Collapse
  <2> QED BY <2>1, <2>2, <2>3, <2>4
<1> QED BY <1>2, <1>3, <1>5

\* The only pin of a component is where it goes.
LEMMA AssignPinnedKeeps == ASSUME PlacementInv, AssignPinned PROVE PlacementInv'
<1>1. phase = "assign" BY DEF AssignPinned
<1>2. PICK c \in Unassigned :
          /\ Pinned(c)
          /\ LET b == CHOOSE b \in Pins(c) : TRUE
             IN  IF Fits(c, b) THEN Assign(c, b) ELSE Refuse("full")
  BY DEF AssignPinned
<1>3. PICK b \in Pins(c) : IF Fits(c, b) THEN Assign(c, b) ELSE Refuse("full")
  BY <1>2 DEF Pinned
<1>4. /\ class \in [Item -> Item] /\ pin \in [Item -> {0} \cup Bank]
      /\ next \in Nat \ {0}
  BY DEF PlacementInv, PlacementTypeOK
<1>5. c \in Item BY <1>4 DEF Unassigned, Component
<1>6. b \in Bank BY <1>4 DEF Pins, Members
<1>7. Pins(c) \subseteq {b}
  <2>1. PICK i \in Members(c) : pin[i] = b /\ b # 0 BY DEF Pins
  <2>2. ASSUME NEW j \in Members(c), pin[j] # 0 PROVE pin[j] = b
    <3>1. class[i] = class[j] /\ i \in Item /\ j \in Item BY DEF Members
    <3>2. pin[j] \in {0, pin[i]} BY <1>1, <2>1, <3>1 DEF PlacementInv, CompInv, Later
    <3> QED BY <2>1, <2>2, <3>2
  <2> QED BY <2>2 DEF Pins
<1>8. CASE Fits(c, b)
  <2>1. b \in Allowed(c) BY <1>8 DEF Fits
  <2>2. /\ place' = With(c, b) /\ phase' = phase /\ next' \in Nat \ {0}
        /\ UNCHANGED <<link, pin, allowed, class>>
    BY <1>3, <1>4, <1>8 DEF Assign
  <2> QED BY <1>1, <1>5, <1>6, <1>7, <2>1, <2>2, AssignKeeps
<1>9. CASE ~Fits(c, b) BY <1>3, <1>9, RefuseKeeps DEF Refusals
<1> QED BY <1>8, <1>9

\* A set of numbers has a least one.
LEMMA LeastOf ==
    ASSUME NEW S \in SUBSET Nat, S # {}
    PROVE  Least(S) \in S /\ \A y \in S : Least(S) <= y
<1>1. PICK r \in S : \A m \in S : ~ (<<m, r>> \in OpToRel(<, Nat))
  BY NatLessThanWellFounded, WFMin
<1>2. OpToRel(<, Nat) = {ss \in Nat \X Nat : ss[1] < ss[2]} BY Zenon DEF OpToRel
<1>3. \A m \in S : ~ (<<m, r>> \in {ss \in Nat \X Nat : ss[1] < ss[2]})
  BY <1>1, <1>2, Zenon
<1>4. ASSUME NEW m \in S PROVE r <= m
  <2>1. r \in Nat /\ m \in Nat OBVIOUS
  <2>2. ~ (<<m, r>> \in {ss \in Nat \X Nat : ss[1] < ss[2]}) BY <1>3, Zenon
  <2> QED BY <2>1, <2>2
<1> QED BY <1>1, <1>4 DEF Least

\* Calls can be counted.
LEMMA CutIsNumber ==
    ASSUME link \in Link, NEW c \in Item, NEW b \in Bank PROVE Cut(c, b) \in Nat
<1> DEFINE cut == {k \in Between(c) : \E i \in {link.ref[k].from, link.ref[k].to} :
                                         class[i] # c /\ place[i] \notin {0, b}}
<1>1. link.ref \in Seq(RefType) BY LinkAssumption DEF LinkType
<1>2. IsFiniteSet(DOMAIN link.ref)
  <2>1. DOMAIN link.ref = 1..Len(link.ref) /\ Len(link.ref) \in Nat BY <1>1
  <2> QED BY <2>1, FS_Interval
<1>3. cut \subseteq DOMAIN link.ref BY DEF Between, Calls, CallSites
<1>4. IsFiniteSet(cut) BY <1>2, <1>3, FS_Subset
<1>5. Cardinality(cut) \in Nat BY <1>4, FS_CardinalityType
<1> QED BY <1>5 DEF Cut

\* The cheapest of the banks that fit is one of them.
LEMMA CheapestFits ==
    ASSUME PlacementInv, NEW c \in Item,
           LET fitting == {b \in Bank : Fits(c, b)}
               cheapest == {b \in fitting : link.mode = "simple" \/
                               \A d \in fitting : Cut(c, b) <= Cut(c, d)}
           IN  IF fitting = {} THEN Refuse("full") ELSE Assign(c, Least(cheapest)),
           {b \in Bank : Fits(c, b)} # {}
    PROVE  \E b \in Bank : Fits(c, b) /\ Assign(c, b)
<1> DEFINE fitting == {b \in Bank : Fits(c, b)}
<1> DEFINE cheapest == {b \in fitting : link.mode = "simple" \/
                           \A d \in fitting : Cut(c, b) <= Cut(c, d)}
<1>1. fitting # {} /\ Assign(c, Least(cheapest)) OBVIOUS
<1>2. cheapest # {}
  <2> DEFINE cuts == {Cut(c, b) : b \in fitting}
  <2>1. link \in Link BY DEF PlacementInv, PlacementTypeOK
  <2>2. cuts \in SUBSET Nat /\ cuts # {} BY <2>1, CutIsNumber
  <2>3. Least(cuts) \in cuts /\ \A y \in cuts : Least(cuts) <= y BY <2>2, LeastOf
  <2>4. PICK b \in fitting : Cut(c, b) = Least(cuts) BY <2>3
  <2>5. \A d \in fitting : Cut(c, b) <= Cut(c, d) BY <2>3, <2>4
  <2> QED BY <2>4, <2>5
<1>3. Least(cheapest) \in cheapest
  <2>1. cheapest \in SUBSET Nat BY BankAssumption DEF Bank
  <2> QED BY <1>2, <2>1, LeastOf
<1> QED BY <1>1, <1>3

\* Which of the banks is cheapest does not matter: it is one that fits.
LEMMA AssignNextKeeps == ASSUME PlacementInv, AssignNext PROVE PlacementInv'
<1>1. phase = "assign" /\ \A c \in Unassigned : ~Pinned(c) BY DEF AssignNext
<1>2. PICK c \in Unassigned :
          LET fitting == {b \in Bank : Fits(c, b)}
              cheapest == {b \in fitting : link.mode = "simple" \/
                              \A d \in fitting : Cut(c, b) <= Cut(c, d)}
          IN  IF fitting = {} THEN Refuse("full") ELSE Assign(c, Least(cheapest))
  BY DEF AssignNext
<1>3. c \in Item
  BY DEF Unassigned, Component, PlacementInv, PlacementTypeOK
<1>4. CASE {b \in Bank : Fits(c, b)} = {}
  BY <1>2, <1>4, RefuseKeeps DEF Refusals
<1>5. CASE {b \in Bank : Fits(c, b)} # {}
  <2>1. PICK b \in Bank : Fits(c, b) /\ Assign(c, b)
    BY <1>2, <1>3, <1>5, CheapestFits
  <2>2. b \in Allowed(c) BY <2>1 DEF Fits
  <2>3. Pins(c) \subseteq {b} BY <1>1 DEF Pinned
  <2>4. next \in Nat \ {0} BY DEF PlacementInv, PlacementTypeOK
  <2>5. /\ place' = With(c, b) /\ phase' = phase /\ next' \in Nat \ {0}
        /\ UNCHANGED <<link, pin, allowed, class>>
    BY <2>1, <2>4 DEF Assign
  <2> QED BY <1>1, <1>3, <2>2, <2>3, <2>5, AssignKeeps
<1> QED BY <1>4, <1>5

\* A component without a pin is moved to a bank that fits.
LEMMA VisitKeeps == ASSUME PlacementInv, Visit PROVE PlacementInv'
<1> DEFINE moves == IF next \in Component THEN Moves(next) ELSE {}
<1>1. /\ phase = "search" /\ next' = next + 1
      /\ UNCHANGED <<link, phase, pin, allowed, class>>
      /\ next \in Nat \ {0}
  BY DEF Visit, PlacementInv, PlacementTypeOK
<1>2. IF moves = {} THEN place' = place
      ELSE \E b \in moves : place' = With(next, b)
  BY DEF Visit
<1>3. CASE moves = {}
  <2>1. \A i \in Item : place[i] # 0
    BY <1>1 DEF PlacementInv, PlaceInv, Settled
  <2>2. phase \in Later /\ phase' \in Later /\ next' \in Nat \ {0} BY <1>1 DEF Later
  <2> QED BY <1>1, <1>2, <1>3, <2>1, <2>2, HandedOn
<1>4. CASE moves # {}
  <2>1. next \in Component /\ next \in Item
    BY <1>4 DEF Component, PlacementInv, PlacementTypeOK
  <2>2. PICK b \in Moves(next) : place' = With(next, b) BY <1>2, <1>4
  <2>3. b \in Bank /\ ~Pinned(next) /\ b \in Allowed(next) BY DEF Moves, Fits
  <2>4. Pins(next) \subseteq {b} BY <2>3 DEF Pinned
  <2>5. PICK c \in Item : c = next BY <2>1
  <2>6. next' \in Nat \ {0} BY <1>1
  <2>7. b \in Allowed(c) /\ Pins(c) \subseteq {b} /\ place' = With(c, b)
    BY <2>2, <2>3, <2>4, <2>5
  <2> QED BY <1>1, <2>3, <2>6, <2>7, AssignKeeps
<1> QED BY <1>3, <1>4

\* The search begins when every component has its bank, and so has every item.
LEMMA StartSearchKeeps == ASSUME PlacementInv, StartSearch PROVE PlacementInv'
<1>1. phase = "assign" /\ Unassigned = {} BY DEF StartSearch
<1>2. ASSUME NEW i \in Item PROVE place[i] # 0
  <2>1. class[i] \in Component /\ place[class[i]] # 0
    BY <1>1 DEF Component, Unassigned
  <2> QED BY <2>1 DEF PlacementInv, PlaceInv
<1>3. next \in Nat \ {0} BY DEF PlacementInv, PlacementTypeOK
<1>4. CASE Refuse("recursive") BY <1>4, RefuseKeeps DEF Refusals
<1>5. CASE /\ phase' \in {"placed", "search"} /\ next' \in {next, 1}
           /\ UNCHANGED <<link, pin, allowed, class, place>>
  <2>1. phase \in Later /\ phase' \in Later /\ next' \in Nat \ {0}
    BY <1>1, <1>3, <1>5 DEF Later
  <2> QED BY <1>2, <1>5, <2>1, HandedOn
<1> QED BY <1>4, <1>5 DEF StartSearch

LEMMA EndRoundKeeps == ASSUME PlacementInv, EndRound PROVE PlacementInv'
<1>1. /\ phase = "search" /\ phase' \in {"search", "placed"} /\ next' \in {next, 1}
      /\ UNCHANGED <<link, pin, allowed, class, place>>
  BY DEF EndRound
<1>2. \A i \in Item : place[i] # 0 BY <1>1 DEF PlacementInv, PlaceInv, Settled
<1>3. phase \in Later /\ phase' \in Later /\ next' \in Nat \ {0}
  BY <1>1 DEF Later, PlacementInv, PlacementTypeOK
<1> QED BY <1>1, <1>2, <1>3, HandedOn

LEMMA LayOutKeeps == ASSUME PlacementInv, LayOut PROVE PlacementInv'
<1>1. /\ phase = "placed" /\ phase' \in {"recursive"} \cup Ends
      /\ UNCHANGED <<link, next, pin, allowed, class, place, used, changed, depth>>
  BY DEF LayOut, Ends
<1>2. CASE phase' = "recursive"
  <2>1. Refuse("recursive") BY <1>1, <1>2 DEF Refuse
  <2> QED BY <2>1, RefuseKeeps DEF Refusals
<1>3. CASE phase' \in Ends
  <2>1. \A i \in Item : place[i] # 0 BY <1>1 DEF PlacementInv, PlaceInv, Settled
  <2>2. phase \in Later /\ phase' \in Later /\ next' \in Nat \ {0}
    BY <1>1, <1>3 DEF Later, PlacementInv, PlacementTypeOK
  <2> QED BY <1>1, <2>1, <2>2, HandedOn
<1> QED BY <1>1, <1>2, <1>3

LEMMA CollectKeeps == ASSUME PlacementInv, Collect PROVE PlacementInv'
<1>1. CASE Refuse("misplaced") BY <1>1, RefuseKeeps DEF Refusals
<1>2. CASE /\ phase = "collect" /\ phase' = "classify"
           /\ UNCHANGED <<link, next, pin, allowed, class, place>>
  <2> USE DEF PlacementInv
  <2>1. Item' = Item /\ Part' = Part BY <1>2 DEF Item, Part
  <2>2. phase' \notin Later /\ ~Settled' BY <1>2 DEF Later, Settled, Ends
  <2>3. next = 1 /\ link \in Link BY <1>2 DEF PlaceInv, PlacementTypeOK
  <2>4. PlacementTypeOK' BY <1>2, <2>1 DEF PlacementTypeOK
  <2>5. PinInv' /\ ClassInv' BY <1>2, <2>1 DEF PinInv, ClassInv, FirstPin, Movable
  <2>6. RefInv' /\ CompInv'
    <3>1. DOMAIN link.ref = 1..Len(link.ref) BY <2>3, LinkFacts
    <3>2. \A k \in DOMAIN link.ref : ~(k < next) BY <2>3, <3>1
    <3> QED BY <1>2, <2>2, <3>2 DEF RefInv, CompInv
  <2>7. PlaceInv' BY <1>2, <2>1, <2>2 DEF PlaceInv
  <2> QED BY <2>4, <2>5, <2>6, <2>7
<1> QED BY <1>1, <1>2 DEF Collect

-----------------------------------------------------------------------------
LEMMA PlacementInvHolds == Spec => []PlacementInv
<1>1. PlacementInv /\ [Next]_vars => PlacementInv'
  <2> SUFFICES ASSUME PlacementInv, [Next]_vars PROVE PlacementInv' OBVIOUS
  <2>1. CASE Collect BY <2>1, CollectKeeps
  <2>2. CASE SoftRef BY <2>2, SoftRefKeeps
  <2>3. CASE ReplicaRef BY <2>3, ReplicaRefKeeps
  <2>4. CASE ItemRef BY <2>4, ItemRefKeeps
  <2>5. CASE ImageRef BY <2>5, ImageRefKeeps
  <2>6. CASE AbsoluteRef BY <2>6, AbsoluteRefKeeps
  <2>7. CASE Collapse BY <2>7, CollapseKeeps
  <2>8. CASE AssignPinned BY <2>8, AssignPinnedKeeps
  <2>9. CASE AssignNext BY <2>9, AssignNextKeeps
  <2>10. CASE StartSearch BY <2>10, StartSearchKeeps
  <2>11. CASE Visit BY <2>11, VisitKeeps
  <2>12. CASE EndRound BY <2>12, EndRoundKeeps
  <2>13. CASE LayOut BY <2>13, LayOutKeeps
  <2>14. CASE Finished \/ UNCHANGED vars
    <3>1. UNCHANGED <<link, phase, next, pin, allowed, class, place>>
      BY <2>14 DEF Finished, vars
    <3>2. Item' = Item /\ Part' = Part BY <3>1 DEF Item, Part
    <3>3. PlacementTypeOK' BY <3>1, <3>2 DEF PlacementInv, PlacementTypeOK
    <3>4. PinInv' /\ ClassInv'
      BY <3>1, <3>2 DEF PlacementInv, PinInv, ClassInv, FirstPin, Movable
    <3>5. RefInv'
      <4> SUFFICES ASSUME NEW k \in DOMAIN link.ref,
                          phase \in Later \/ (phase = "classify" /\ k < next)
                   PROVE  Tied(k)'
        BY <3>1 DEF RefInv
      <4>1. Tied(k) /\ link \in Link BY DEF PlacementInv, PlacementTypeOK, RefInv
      <4> QED BY <3>1, <4>1, TiedStays
    <3>6. CompInv' /\ PlaceInv'
      BY <3>1, <3>2 DEF PlacementInv, CompInv, PlaceInv, Settled
    <3> QED BY <3>3, <3>4, <3>5, <3>6 DEF PlacementInv
  <2> QED
    BY <2>1, <2>2, <2>3, <2>4, <2>5, <2>6, <2>7, <2>8, <2>9, <2>10, <2>11, <2>12,
       <2>13, <2>14 DEF Next
<1> QED BY <1>1, InitPlacement, PTL DEF Spec

\* Types of the linker's state, for any number of banks and every link.
THEOREM PlacementTypeCorrect == Spec => []PlacementTypeOK
<1>1. PlacementInv => PlacementTypeOK BY DEF PlacementInv
<1> QED BY <1>1, PlacementInvHolds, PTL

\* Whatever references there are, in whatever order they are read and whatever is
\* moved by the search, code that is laid out is in the bank of what it jumps to,
\* branches to and refers to, where a copy is of what has copies, and where
\* main, the runtime and named banks put it (assign_automatic_bank_placements).
THEOREM TiesKeptHolds == Spec => [](JudgedInPlace => TiesKept)
<1>1. PlacementInv => (JudgedInPlace => TiesKept)
  <2> SUFFICES ASSUME PlacementInv, JudgedInPlace, Settled PROVE TiesKept
    BY DEF TiesKept, ReachesAll, CopyIsLocal, StaysPinned
  <2>1. phase \in Later BY DEF Settled, Later
  <2>2. link \in Link BY DEF PlacementInv, PlacementTypeOK
  <2>3. \A i \in Item : /\ place[i] # 0 /\ place[i] = place[class[i]]
                        /\ place[i] \in allowed[i] /\ pin[i] \in {0, place[i]}
                        /\ FirstPin(Part[i]) # 0 => pin[i] = FirstPin(Part[i])
    BY DEF PlacementInv, PlaceInv, PinInv
  <2>4. StaysPinned BY <2>3 DEF StaysPinned
  <2>5. ASSUME NEW k \in DOMAIN link.ref
        PROVE  LET r == link.ref[k] IN
               /\ Tied(k)
               /\ r.from \in DOMAIN Part /\ Part[r.from].bank \in Bank
               /\ r.to # 0 => r.to \in Item
               /\ r.kind = "branch" => r.from \in Item /\ r.to # 0
    BY <2>1, <2>2, LinkFacts DEF PlacementInv, RefInv
  <2>6. CopyIsLocal
    <3> SUFFICES ASSUME NEW k \in DOMAIN link.ref, Hard(link.ref[k]),
                        link.ref[k].copies # {}
                 PROVE  LET r == link.ref[k] IN
                        (IF r.from \in Item THEN place[r.from] ELSE Part[r.from].bank)
                            \in r.copies
      BY DEF CopyIsLocal, Hard
    <3>1. TiedCopy(link.ref[k]) BY <2>5 DEF Tied
    <3> QED BY <2>3, <3>1 DEF TiedCopy
  <2>7. ReachesAll
    <3> SUFFICES ASSUME NEW k \in DOMAIN link.ref, NEW r, r = link.ref[k]
                 PROVE  LET Home(i) == IF i \in Item THEN place[i] ELSE Part[i].bank
                        IN  /\ r.kind = "branch" => Home(r.from) = Home(r.to)
                            /\ Hard(r) /\ r.copies = {} =>
                                  LET target == IF r.to # 0 THEN Home(r.to) ELSE r.bank IN
                                  \/ target \in {0, Home(r.from)}
                                  \/ r.kind = "data" /\ <<Home(r.from), target>> \in link.visible
                                  \/ r.from \notin Item /\ r.to = 0
      BY DEF ReachesAll, Hard
    <3> DEFINE Home(i) == IF i \in Item THEN place[i] ELSE Part[i].bank
    <3>1. /\ TiedBranch(r) /\ TiedItem(r) /\ TiedImage(r) /\ TiedAbsolute(r)
          /\ r.to # 0 => r.to \in Item
          /\ r.kind = "branch" => r.from \in Item /\ r.to # 0
      BY <2>5 DEF Tied
    <3>2. r.kind = "branch" => Home(r.from) = Home(r.to)
      BY <2>3, <3>1 DEF TiedBranch
    <3>3. ASSUME Hard(r), r.copies = {}, r.to # 0
          PROVE  \/ Home(r.to) = Home(r.from)
                 \/ r.kind = "data" /\ <<Home(r.from), Home(r.to)>> \in link.visible
      <4>1. r.to \in Item /\ Home(r.to) = place[r.to] BY <3>1, <3>3
      <4>2. CASE r.from \in Item
        BY <2>3, <3>1, <3>3, <4>1, <4>2 DEF TiedItem, Sees, Hard
      <4>3. CASE r.from \notin Item
        <5>1. Part[r.from].bank # 0 BY <2>2, <2>5, LinkFacts
        <5> QED BY <2>3, <3>1, <3>3, <4>1, <4>3, <5>1 DEF TiedImage, Sees, Hard
      <4> QED BY <4>2, <4>3
    <3>4. ASSUME Hard(r), r.copies = {}, r.to = 0
          PROVE  \/ r.bank \in {0, Home(r.from)}
                 \/ r.kind = "data" /\ <<Home(r.from), r.bank>> \in link.visible
                 \/ r.from \notin Item
      <4> SUFFICES ASSUME r.from \in Item, r.bank # 0
                   PROVE  \/ r.bank = place[r.from]
                          \/ r.kind = "data" /\ <<place[r.from], r.bank>> \in link.visible
        OBVIOUS
      <4>1. CASE pin[r.from] = r.bank BY <2>3, <4>1
      <4>2. CASE Sees(pin[r.from], r.bank, r.kind)
        BY <2>3, <3>4, <4>2 DEF Sees, Hard
      <4>3. CASE Sees(Part[r.from].bank, r.bank, r.kind)
        <5>1. r.kind = "data" /\ <<Part[r.from].bank, r.bank>> \in link.visible
          BY <3>4, <4>3 DEF Sees, Hard
        <5>2. FirstPin(Part[r.from]) = Part[r.from].bank
          BY <3>4, <5>1 DEF JudgedInPlace
        <5>3. Part[r.from].bank # 0 BY <4>3 DEF Sees
        <5>4. place[r.from] = Part[r.from].bank BY <2>3, <5>2, <5>3
        <5> QED BY <5>1, <5>4
      <4> QED BY <3>1, <3>4, <4>1, <4>2, <4>3 DEF TiedAbsolute
    <3> QED BY <3>2, <3>3, <3>4
  <2> QED BY <2>4, <2>6, <2>7 DEF TiesKept
<1> QED BY <1>1, PlacementInvHolds, PTL

-----------------------------------------------------------------------------
\* What the search asks for depends on what it asks about alone.
LEMMA DepthStays ==
    ASSUME link' = link, NEW pl PROVE WeightedDepth(pl)' = WeightedDepth(pl)
BY DEF WeightedDepth, Item, Part, CallEdges, CallSites

\* The calls a component would cut.
LEMMA CutStays ==
    ASSUME UNCHANGED <<link, class, place>>, NEW c, NEW b PROVE Cut(c, b)' = Cut(c, b)
<1>1. Between(c)' = Between(c) BY DEF Between, Calls, CallSites, Item, Part
<1> QED BY <1>1 DEF Cut

\* Where a component fits.
LEMMA FitsStays ==
    ASSUME UNCHANGED <<link, class, allowed, place, used>>, NEW c, NEW b
    PROVE  Fits(c, b)' = Fits(c, b)
<1>1. Item' = Item /\ Part' = Part BY DEF Item, Part
<1>2. /\ Allowed(c)' = Allowed(c) /\ Members(c)' = Members(c)
      /\ With(c, b)' = With(c, b)
  BY <1>1 DEF Allowed, Members, With
<1>3. Capacity(b)' = Capacity(b) BY DEF Capacity
<1>4. Bytes(Members(c))' = Bytes(Members(c)) BY <1>1, <1>2 DEF Bytes
<1>5. TrialFits(With(c, b))' = TrialFits(With(c, b)) BY <1>1, <1>2 DEF TrialFits, DryTables
<1> QED BY <1>2, <1>3, <1>4, <1>5 DEF Fits

\* A move that there is remains as long as nothing is moved.
LEMMA MovesStay ==
    ASSUME UNCHANGED <<link, class, pin, allowed, place, used, depth>>, NEW c
    PROVE  Moves(c)' = Moves(c)
<1>0. Item' = Item /\ Part' = Part BY DEF Item, Part
<1>1. ASSUME NEW b
      PROVE  /\ Fits(c, b)' = Fits(c, b) /\ Cut(c, b)' = Cut(c, b)
             /\ With(c, b)' = With(c, b)
  <2>1. Fits(c, b)' = Fits(c, b) BY FitsStays
  <2>2. Cut(c, b)' = Cut(c, b) BY CutStays
  <2>3. With(c, b)' = With(c, b) BY <1>0 DEF With
  <2> QED BY <2>1, <2>2, <2>3
<1>3. ASSUME NEW b PROVE Improves(c, b)' = Improves(c, b)
  <2>1. PICK d : d = place[c] OBVIOUS
  <2>2. Cut(c, d)' = Cut(c, d) BY CutStays
  <2>3. Cut(c, place[c])' = Cut(c, place[c]) BY <2>1, <2>2
  <2>4. PICK pl : pl = With(c, b) OBVIOUS
  <2>5. WeightedDepth(pl)' = WeightedDepth(pl) BY DepthStays
  <2>6. With(c, b)' = pl BY <1>1, <2>4
  <2>7. WeightedDepth(With(c, b))' = WeightedDepth(With(c, b)) BY <2>4, <2>5, <2>6
  <2> QED BY <1>1, <2>3, <2>7 DEF Improves
<1>6. Pinned(c)' = Pinned(c)
  <2>1. Members(c)' = Members(c) BY <1>0 DEF Members
  <2>2. Pins(c)' = Pins(c) BY <2>1 DEF Pins
  <2> QED BY <2>2 DEF Pinned
<1> QED BY <1>1, <1>3, <1>6 DEF Moves

-----------------------------------------------------------------------------
\* As long as a round has moved nothing, there is nothing to move among the
\* components it has been to.
SearchInv ==
    /\ phase = "search" => depth = WeightedDepth(place)
    /\ phase = "search" /\ ~changed =>
          \A c \in Component : c < next => Moves(c) = {}
    /\ NothingLeftToMove

\* A step of nothing that the search is about.
LEMMA SearchStays ==
    ASSUME SearchInv, UNCHANGED <<link, class, pin, allowed, place, used, depth>>,
           UNCHANGED <<phase, next, changed>>
    PROVE  SearchInv'
<1>1. Component' = Component BY DEF Component, Item, Part
<1>2. \A c : Moves(c)' = Moves(c) BY MovesStay
<1>3. PICK pl : pl = place OBVIOUS
<1>4. WeightedDepth(pl)' = WeightedDepth(pl) BY DepthStays
<1>5. WeightedDepth(place)' = WeightedDepth(place) BY <1>3, <1>4
<1> QED BY <1>1, <1>2, <1>5 DEF SearchInv, NothingLeftToMove

LEMMA ElsewhereSearch ==
    ASSUME phase' \notin {"search", "placed"} PROVE SearchInv'
BY DEF SearchInv, NothingLeftToMove

LEMMA BeforeTheSearch ==
    ASSUME Collect \/ SoftRef \/ ReplicaRef \/ ItemRef \/ ImageRef \/ AbsoluteRef
           \/ Collapse \/ AssignPinned \/ AssignNext \/ LayOut
    PROVE  SearchInv'
<1>1. CASE Collect BY <1>1, ElsewhereSearch DEF Collect, Refuse
<1>2. CASE SoftRef BY <1>2, ElsewhereSearch DEF SoftRef, Classifying, Taken
<1>3. CASE ReplicaRef BY <1>3, ElsewhereSearch DEF ReplicaRef, Classifying, Taken, Refuse
<1>4. CASE ItemRef BY <1>4, ElsewhereSearch DEF ItemRef, Classifying, Taken, Refuse
<1>5. CASE ImageRef BY <1>5, ElsewhereSearch DEF ImageRef, Pin, Classifying, Taken, Refuse
<1>6. CASE AbsoluteRef
  BY <1>6, ElsewhereSearch DEF AbsoluteRef, Pin, Classifying, Taken, Refuse
<1>7. CASE Collapse BY <1>7, ElsewhereSearch DEF Collapse, Refuse
<1>8. CASE AssignPinned
  <2>1. phase' \in {"assign", "full"} BY <1>8 DEF AssignPinned, Assign, Refuse
  <2> QED BY <2>1, ElsewhereSearch
<1>9. CASE AssignNext
  <2>1. phase' \in {"assign", "full"} BY <1>9 DEF AssignNext, Assign, Refuse
  <2> QED BY <2>1, ElsewhereSearch
<1>10. CASE LayOut BY <1>10, ElsewhereSearch DEF LayOut
<1> QED BY <1>1, <1>2, <1>3, <1>4, <1>5, <1>6, <1>7, <1>8, <1>9, <1>10

LEMMA StartSearchSearch == ASSUME PlacementInv, StartSearch PROVE SearchInv'
<1>1. CASE Refuse("recursive") BY <1>1, ElsewhereSearch DEF Refuse
<1>2. CASE /\ link.mode = "simple" /\ phase' = "placed" /\ link' = link
  BY <1>2 DEF SearchInv, NothingLeftToMove
<1>3. CASE /\ phase' = "search" /\ next' = 1
           /\ depth' = WeightedDepth(place)
           /\ UNCHANGED <<link, class, place>>
  <2>1. PICK pl : pl = place OBVIOUS
  <2>2. WeightedDepth(pl)' = WeightedDepth(pl) BY <1>3, DepthStays
  <2>3. depth' = WeightedDepth(place)' BY <1>3, <2>1, <2>2
  <2>4. \A c \in Component' : ~(c < next')
    <3>1. Component' \subseteq DOMAIN Part
      BY <1>3 DEF Component, Item, Part, PlacementInv, PlacementTypeOK
    <3>2. \A c \in DOMAIN Part : c \in Nat \ {0}
      BY LinkAssumption DEF PlacementInv, PlacementTypeOK, LinkType, Part
    <3> QED BY <1>3, <3>1, <3>2
  <2> QED BY <1>3, <2>3, <2>4 DEF SearchInv, NothingLeftToMove
<1> QED BY <1>1, <1>2, <1>3 DEF StartSearch

LEMMA VisitSearch == ASSUME PlacementInv, SearchInv, Visit PROVE SearchInv'
<1> DEFINE moves == IF next \in Component THEN Moves(next) ELSE {}
<1>1. /\ phase = "search" /\ next' = next + 1
      /\ UNCHANGED <<link, phase, pin, allowed, class>>
      /\ next \in Nat \ {0}
  BY DEF Visit, PlacementInv, PlacementTypeOK
<1>2. IF moves = {} THEN UNCHANGED <<place, used, depth, changed>>
      ELSE \E b \in moves : /\ place' = With(next, b)
                            /\ depth' = WeightedDepth(With(next, b))
                            /\ changed' = TRUE
  BY DEF Visit
<1>3. Component \subseteq Nat
  <2>1. \A c \in DOMAIN Part : c \in Nat \ {0}
    BY LinkAssumption DEF PlacementInv, PlacementTypeOK, LinkType, Part
  <2> QED BY <2>1 DEF Component, Item, PlacementInv, PlacementTypeOK
<1>4. CASE moves = {}
  <2>1. UNCHANGED <<link, class, pin, allowed, place, used, depth, changed, phase>>
    BY <1>1, <1>2, <1>4
  <2>2. \A c : Moves(c)' = Moves(c) BY <2>1, MovesStay
  <2>3. Component' = Component BY <2>1 DEF Component, Item, Part
  <2>4. PICK pl : pl = place OBVIOUS
  <2>5. WeightedDepth(pl)' = WeightedDepth(pl) BY <2>1, DepthStays
  <2>6. depth' = WeightedDepth(place)' BY <1>1, <2>1, <2>4, <2>5 DEF SearchInv
  <2>7. ASSUME ~changed, NEW c \in Component, c < next + 1 PROVE Moves(c) = {}
    <3>1. CASE c = next BY <1>4, <2>7, <3>1
    <3>2. CASE c < next BY <1>1, <2>7, <3>2 DEF SearchInv
    <3> QED BY <1>1, <1>3, <2>7, <3>1, <3>2
  <2> QED BY <1>1, <2>1, <2>2, <2>3, <2>6, <2>7 DEF SearchInv, NothingLeftToMove
<1>5. CASE moves # {}
  <2>1. PICK b \in moves : /\ place' = With(next, b)
                           /\ depth' = WeightedDepth(With(next, b))
                           /\ changed' = TRUE
    BY <1>2, <1>5
  <2>2. PICK pl : pl = With(next, b) OBVIOUS
  <2>3. WeightedDepth(pl)' = WeightedDepth(pl) BY <1>1, DepthStays
  <2>4. depth' = WeightedDepth(place)' BY <2>1, <2>2, <2>3
  <2> QED BY <1>1, <2>1, <2>4 DEF SearchInv, NothingLeftToMove
<1> QED BY <1>4, <1>5

LEMMA EndRoundSearch == ASSUME PlacementInv, SearchInv, EndRound PROVE SearchInv'
<1>1. /\ phase = "search" /\ next > Len(Part)
      /\ UNCHANGED <<link, pin, allowed, class, place, used, depth>>
      /\ next \in Nat
  BY DEF EndRound, PlacementInv, PlacementTypeOK
<1>2. /\ \A c \in Component : c \in Nat \ {0} /\ c <= Len(Part)
      /\ Len(Part) \in Nat
  <2>1. DOMAIN Part = 1..Len(Part) /\ Len(Part) \in Nat
    BY LinkAssumption DEF PlacementInv, PlacementTypeOK, LinkType, Part
  <2> QED BY <2>1 DEF Component, Item, PlacementInv, PlacementTypeOK
<1>3. Component' = Component BY <1>1 DEF Component, Item, Part
<1>4. PICK pl : pl = place OBVIOUS
<1>5. WeightedDepth(pl)' = WeightedDepth(pl) BY <1>1, DepthStays
<1>6. depth' = WeightedDepth(place)' BY <1>1, <1>4, <1>5 DEF SearchInv
<1>7. \A c : Moves(c)' = Moves(c) BY <1>1, MovesStay
<1>8. CASE changed
  <2>1. next' = 1 /\ phase' = phase BY <1>8 DEF EndRound, Again
  <2> QED BY <1>1, <1>2, <1>3, <1>6, <2>1 DEF SearchInv, NothingLeftToMove
<1>9. CASE ~changed
  <2>1. phase' = "placed" BY <1>9 DEF EndRound, Again
  <2>2. \A c \in Component : Moves(c) = {} BY <1>1, <1>2, <1>9 DEF SearchInv
  <2> QED BY <1>1, <1>3, <1>6, <1>7, <2>1, <2>2 DEF SearchInv, NothingLeftToMove
<1> QED BY <1>8, <1>9

\* The search ends only where no component that fits in another bank would make
\* calls cheaper there or the stack shallower: a round that moved something is
\* followed by another (the local search of assign_automatic_bank_placements).
THEOREM NothingLeftToMoveHolds == Spec => []NothingLeftToMove
<1>1. Init => SearchInv BY DEF Init, SearchInv, NothingLeftToMove
<1>2. PlacementInv /\ SearchInv /\ [Next]_vars => SearchInv'
  <2> SUFFICES ASSUME PlacementInv, SearchInv, [Next]_vars PROVE SearchInv' OBVIOUS
  <2>1. CASE StartSearch BY <2>1, StartSearchSearch
  <2>2. CASE Visit BY <2>2, VisitSearch
  <2>3. CASE EndRound BY <2>3, EndRoundSearch
  <2>4. CASE Finished \/ UNCHANGED vars BY <2>4, SearchStays DEF Finished, vars
  <2> QED BY <2>1, <2>2, <2>3, <2>4, BeforeTheSearch DEF Next
<1>3. SearchInv => NothingLeftToMove BY DEF SearchInv
<1> QED BY <1>1, <1>2, <1>3, PlacementInvHolds, PTL DEF Spec

-----------------------------------------------------------------------------
(* The dry run, part by part. *)

LEMMA UpThrough ==
    ASSUME NEW n \in Nat, NEW S, 0 \in S, \A i \in 1..n : i - 1 \in S => i \in S
    PROVE  \A i \in 0..n : i \in S
<1> SUFFICES ASSUME NEW k \in 0..n, k \notin S PROVE FALSE OBVIOUS
<1> DEFINE Bad == {i \in 0..n : i \notin S}
<1>1. Bad \in SUBSET Nat /\ Bad # {} OBVIOUS
<1> HIDE DEF Bad
<1>2. Least(Bad) \in Bad /\ \A i \in Bad : Least(Bad) <= i BY <1>1, LeastOf
<1>3. PICK m \in 0..n : m = Least(Bad) /\ m \notin S /\ \A i \in Bad : m <= i
  BY <1>2 DEF Bad
<1>4. m # 0 BY <1>3
<1>5. m \in 1..n /\ m - 1 \in 0..n BY <1>4
<1>6. m - 1 \in S BY <1>3, <1>5 DEF Bad
<1> QED BY <1>3, <1>5, <1>6

\* What the allocator answers after one part more.
After(run, r, a, x) ==
    IF a.answer = "placed" /\ x.size > 0 THEN Decide(run, r, a.cursor, x) ELSE a
Runs(f, run, r, s, n) == f = [k \in 0..n |-> IF k = 0 THEN Opened(r) ELSE After(run, r, f[k - 1], s[k])]

LEMMA RunExists ==
    ASSUME NEW n \in Nat, NEW run, NEW r, NEW s PROVE \E f : Runs(f, run, r, s, n)
<1> DEFINE T == {m \in 0..n : \E f : Runs(f, run, r, s, m)}
<1>1. 0 \in T
  <2> DEFINE f == [k \in 0..0 |-> Opened(r)]
  <2>1. f = [k \in 0..0 |-> IF k = 0 THEN Opened(r) ELSE After(run, r, f[k - 1], s[k])]
    OBVIOUS
  <2> HIDE DEF f
  <2> QED BY <2>1 DEF Runs
<1>2. ASSUME NEW m \in 1..n, m - 1 \in T PROVE m \in T
  <2>1. PICK f : Runs(f, run, r, s, m - 1) BY <1>2
  <2>2. f = [k \in 0..(m - 1) |-> IF k = 0 THEN Opened(r) ELSE After(run, r, f[k - 1], s[k])]
    BY <2>1 DEF Runs
  <2> DEFINE g == [k \in 0..m |-> IF k = m THEN After(run, r, f[m - 1], s[m]) ELSE f[k]]
  <2>3. ASSUME NEW k \in 0..m
        PROVE  g[k] = IF k = 0 THEN Opened(r) ELSE After(run, r, g[k - 1], s[k])
    <3>1. CASE k = m
      <4>1. k - 1 \in 0..m /\ k - 1 # m /\ k # 0 BY <3>1
      <4>2. g[k - 1] = f[m - 1] BY <4>1, <3>1
      <4> QED BY <3>1, <4>1, <4>2
    <3>2. CASE k # m
      <4>1. k \in 0..(m - 1) BY <3>2
      <4>2. f[k] = IF k = 0 THEN Opened(r) ELSE After(run, r, f[k - 1], s[k]) BY <4>1, <2>2
      <4>3. k # 0 => g[k - 1] = f[k - 1]
        <5> SUFFICES ASSUME k # 0 PROVE g[k - 1] = f[k - 1] OBVIOUS
        <5>1. k - 1 \in 0..m /\ k - 1 # m BY <4>1
        <5> QED BY <5>1
      <4>4. g[k] = f[k] BY <3>2
      <4> HIDE DEF g
      <4> QED BY <4>2, <4>3, <4>4
    <3> QED BY <3>1, <3>2
  <2>4. DOMAIN g = 0..m /\ g = [k \in 0..m |-> g[k]] OBVIOUS
  <2> HIDE DEF g
  <2>5. g = [k \in 0..m |-> IF k = 0 THEN Opened(r) ELSE After(run, r, g[k - 1], s[k])]
    BY <2>3, <2>4
  <2>6. Runs(g, run, r, s, m) BY <2>5 DEF Runs
  <2> QED BY <2>6
<1> HIDE DEF T
<1>3. \A i \in 0..n : i \in T BY <1>1, <1>2, UpThrough
<1>4. n \in T BY <1>3
<1> QED BY <1>4 DEF T

LEMMA AnswersStep ==
    ASSUME NEW run, NEW r, NEW s, Len(s) \in Nat
    PROVE  /\ Answers(run, r, s)[0] = Opened(r)
           /\ \A k \in 1..Len(s) : Answers(run, r, s)[k] = After(run, r, Answers(run, r, s)[k - 1], s[k])
<1> DEFINE f == CHOOSE f : Runs(f, run, r, s, Len(s))
<1>1. Answers(run, r, s) = f BY DEF Answers, Runs, After
<1>2. Runs(f, run, r, s, Len(s)) BY RunExists
<1> HIDE DEF f
<1>3. f = [k \in 0..Len(s) |-> IF k = 0 THEN Opened(r) ELSE After(run, r, f[k - 1], s[k])]
  BY <1>2 DEF Runs
<1>4. f[0] = Opened(r)
  <2>1. 0 \in 0..Len(s) OBVIOUS
  <2> QED BY <1>3, <2>1
<1>5. ASSUME NEW k \in 1..Len(s) PROVE f[k] = After(run, r, f[k - 1], s[k])
  <2>1. k \in 0..Len(s) /\ k # 0 OBVIOUS
  <2> QED BY <1>3, <2>1
<1> QED BY <1>1, <1>4, <1>5

\* The answers for the first parts do not depend on the others.
LEMMA AnswersAgree ==
    ASSUME NEW run, NEW r, NEW s, NEW t, Len(s) \in Nat, Len(t) \in Nat,
           NEW n \in Nat, n <= Len(s), n <= Len(t), \A k \in 1..n : s[k] = t[k]
    PROVE  \A k \in 0..n : Answers(run, r, s)[k] = Answers(run, r, t)[k]
<1> DEFINE S == {k \in 0..n : Answers(run, r, s)[k] = Answers(run, r, t)[k]}
<1>1. 0 \in S BY AnswersStep
<1>2. ASSUME NEW k \in 1..n, k - 1 \in S PROVE k \in S
  <2>1. k \in 1..Len(s) /\ k \in 1..Len(t) OBVIOUS
  <2>2. Answers(run, r, s)[k - 1] = Answers(run, r, t)[k - 1] BY <1>2
  <2>3. Answers(run, r, s)[k] = After(run, r, Answers(run, r, s)[k - 1], s[k]) BY <2>1, AnswersStep
  <2>4. Answers(run, r, t)[k] = After(run, r, Answers(run, r, t)[k - 1], t[k]) BY <2>1, AnswersStep
  <2> QED BY <2>2, <2>3, <2>4
<1> HIDE DEF S
<1>3. \A k \in 0..n : k \in S BY <1>1, <1>2, UpThrough
<1> QED BY <1>3 DEF S

\* What was refused once is refused.
LEMMA RefusalStays ==
    ASSUME NEW run, NEW r, NEW s, Len(s) \in Nat, Laid(run, r, s)
    PROVE  \A k \in 0..Len(s) : Answers(run, r, s)[k].answer = "placed"
<1> DEFINE n == Len(s)
           S == {d \in 0..n : Answers(run, r, s)[n - d].answer = "placed"}
<1>1. 0 \in S BY DEF Laid
<1>2. ASSUME NEW d \in 1..n, d - 1 \in S PROVE d \in S
  <2>1. n - (d - 1) \in 1..Len(s) /\ n - (d - 1) - 1 = n - d OBVIOUS
  <2>2. Answers(run, r, s)[n - (d - 1)].answer = "placed" BY <1>2
  <2>3. Answers(run, r, s)[n - (d - 1)] = After(run, r, Answers(run, r, s)[n - d], s[n - (d - 1)])
    BY <2>1, AnswersStep
  <2>4. Answers(run, r, s)[n - d].answer = "placed" BY <2>2, <2>3 DEF After
  <2> QED BY <2>4
<1> HIDE DEF S
<1>3. \A d \in 0..n : d \in S BY <1>1, <1>2, UpThrough
<1>4. ASSUME NEW k \in 0..n PROVE Answers(run, r, s)[k].answer = "placed"
  <2>1. n - k \in 0..n /\ n - (n - k) = k OBVIOUS
  <2>2. n - k \in S BY <2>1, <1>3
  <2> QED BY <2>1, <2>2 DEF S
<1> QED BY <1>4

\* Where all parts find room, the first of them do.
LEMMA LaidFirst ==
    ASSUME NEW run, NEW r, NEW T, NEW s \in Seq(T), NEW t \in Seq(T), Laid(run, r, s \o t)
    PROVE  Laid(run, r, s)
<1> DEFINE u == s \o t
<1>1. /\ Len(s) \in Nat /\ Len(u) = Len(s) + Len(t) /\ Len(t) \in Nat
      /\ \A k \in 1..Len(s) : u[k] = s[k]
  OBVIOUS
<1> HIDE DEF u
<1>2. Answers(run, r, u)[Len(s)].answer = "placed"
  <2>1. Laid(run, r, u) BY DEF u
  <2>2. Len(u) \in Nat /\ Len(s) \in 0..Len(u) BY <1>1
  <2> QED BY <2>1, <2>2, RefusalStays
<1>3. Answers(run, r, s)[Len(s)] = Answers(run, r, u)[Len(s)]
  <2>1. Len(u) \in Nat /\ Len(s) <= Len(u) BY <1>1
  <2>2. \A k \in 1..Len(s) : s[k] = u[k] BY <1>1
  <2>3. PICK n \in Nat : n = Len(s) BY <1>1
  <2>4. n <= Len(s) /\ n <= Len(u) /\ \A k \in 1..n : s[k] = u[k] BY <1>1, <2>1, <2>2, <2>3
  <2>5. \A k \in 0..n : Answers(run, r, s)[k] = Answers(run, r, u)[k]
    BY <1>1, <2>1, <2>4, AnswersAgree
  <2> QED BY <1>1, <2>3, <2>5
<1> QED BY <1>2, <1>3 DEF Laid

\* Which of the first parts the real allocator refuses on its own account.
OutIn(s, k) == \E j \in 1..k : s[j].size > 0 /\ OutOfScope(s[j])

\* No part of a link makes the allocator probe for ever, wherever the cursor is.
LEMMA NothingHangs ==
    ASSUME NEW l \in Link, NEW i \in DOMAIN l.part, NEW b \in Bank, NEW c, NEW run
    PROVE  Decide(run, l.region[b], c, l.part[i].shape).answer # "hangs"
<1>1. PICK r : r = l.region[b] /\ r.bank = 0 BY LinkAssumption
<1>2. PICK o : o = l.part[i].shape /\ ~o.zp /\ Satisfiable(o)
  BY LinkAssumption DEF Placeable
<1>3. ASSUME o.branches = {} PROVE Allocate(r, c, o).answer # "hangs"
  <2>1. CASE o.page /\ o.size > Page
    BY <2>1 DEF Allocate, Impossible, Refused
  <2>2. CASE \E a \in 0..(Word - 1) : AlignedAt(o, a) /\ PageConstraintsHold(o, a)
    <3>1. PICK a \in 0..(Word - 1) : AlignedAt(o, a) /\ PageConstraintsHold(o, a) BY <2>2
    <3>2. Admissible(r, o, a) BY <1>1, <3>1 DEF Admissible, BankConstraintHolds
    <3>3. TailFits(r, c, o) # {} BY <1>2, <3>2 DEF TailFits
    <3> QED BY <3>3 DEF Allocate, AtTail, Refused, Placed
  <2> QED BY <1>2, <1>3, <2>1, <2>2 DEF Satisfiable
<1>4. SimulateCode(r, c, o).answer # "hangs"
  <2>1. CASE o.branches = {} BY <1>3, <2>1 DEF SimulateCode
  <2>2. CASE o.branches # {} BY <2>2 DEF SimulateCode, Refused, Placed
  <2> QED BY <2>1, <2>2
<1> QED BY <1>1, <1>2, <1>4 DEF Decide, AllocateCode, Refused

\* What the dry run has placed the real allocator places alike, up to the first
\* part with a branch out of its layout, at which it stops.
LEMMA RealAnswers ==
    ASSUME NEW r, NEW s, Len(s) \in Nat, Laid("dry", r, s)
    PROVE  \A k \in 0..Len(s) :
               IF OutIn(s, k) THEN Answers("real", r, s)[k].answer = "scope"
               ELSE /\ Answers("real", r, s)[k] = Answers("dry", r, s)[k]
                    /\ Answers("real", r, s)[k].answer = "placed"
<1> DEFINE n == Len(s)
           As(k) == IF OutIn(s, k) THEN Answers("real", r, s)[k].answer = "scope"
                    ELSE /\ Answers("real", r, s)[k] = Answers("dry", r, s)[k]
                         /\ Answers("real", r, s)[k].answer = "placed"
           S == {k \in 0..n : As(k)}
<1>1. \A k \in 0..n : Answers("dry", r, s)[k].answer = "placed" BY RefusalStays
<1>2. 0 \in S
  <2>1. ~OutIn(s, 0) BY DEF OutIn
  <2>2. Answers("real", r, s)[0] = Answers("dry", r, s)[0] BY AnswersStep
  <2>3. 0 \in 0..n OBVIOUS
  <2> QED BY <1>1, <2>1, <2>2, <2>3
<1>3. ASSUME NEW k \in 1..n, k - 1 \in S PROVE k \in S
  <2>1. PICK x : x = s[k] OBVIOUS
  <2>2. PICK a : a = Answers("real", r, s)[k - 1] OBVIOUS
  <2>3. PICK d : d = Answers("dry", r, s)[k - 1] OBVIOUS
  <2>4. Answers("real", r, s)[k] = After("real", r, a, x) BY <2>1, <2>2, AnswersStep
  <2>5. Answers("dry", r, s)[k] = After("dry", r, d, x) BY <2>1, <2>3, AnswersStep
  <2>6. OutIn(s, k) <=> OutIn(s, k - 1) \/ (x.size > 0 /\ OutOfScope(x))
    <3>1. \A j : j \in 1..k <=> j \in 1..(k - 1) \/ j = k OBVIOUS
    <3> QED BY <2>1, <3>1 DEF OutIn
  <2>7. IF OutIn(s, k - 1) THEN a.answer = "scope" ELSE a = d /\ a.answer = "placed"
    BY <1>3, <2>2, <2>3
  <2>8. CASE OutIn(s, k - 1)
    <3>1. After("real", r, a, x) = a BY <2>7, <2>8 DEF After
    <3> QED BY <2>4, <2>6, <2>7, <2>8, <3>1
  <2>9. CASE ~OutIn(s, k - 1) /\ x.size > 0 /\ OutOfScope(x)
    <3>1. After("real", r, a, x) = Refused("scope", a.cursor)
      BY <2>7, <2>9 DEF After, Decide, AllocateCode
    <3> QED BY <2>4, <2>6, <2>9, <3>1 DEF Refused
  <2>10. CASE ~OutIn(s, k - 1) /\ ~(x.size > 0 /\ OutOfScope(x))
    <3>1. After("real", r, a, x) = After("dry", r, d, x)
      BY <2>7, <2>10 DEF After, Decide, AllocateCode
    <3> QED BY <1>1, <2>4, <2>5, <2>6, <2>10, <3>1
  <2> QED BY <2>8, <2>9, <2>10
<1> HIDE DEF S
<1>4. \A k \in 0..n : k \in S BY <1>2, <1>3, UpThrough
<1> QED BY <1>4 DEF S

-----------------------------------------------------------------------------
(* Cursors of a bank. *)

Within16(c) == c \in CursorType /\ c.cur <= Top

LEMMA HoleAddressIn ==
    ASSUME NEW holes \in SUBSET Hole, NEW n \in Nat, NEW a \in HoleAddresses(holes, n)
    PROVE  a \in Nat /\ \E h \in holes : h.from <= a /\ a + n <= h.to
<1>1. PICK h \in holes : a \in h.from..(h.to - n) BY DEF HoleAddresses
<1>2. h.from \in Nat /\ h.to \in Nat BY DEF Hole
<1>3. a \in Nat /\ h.from <= a /\ a + n <= h.to BY <1>1, <1>2
<1> QED BY <1>3

\* What is left of holes is in them.
LEMMA ConsumeWithin ==
    ASSUME NEW holes \in SUBSET Hole, NEW a \in Nat, NEW n \in Nat
    PROVE  \A g \in Consume(holes, a, n) :
               g \in Hole /\ \E h \in holes : h.from <= g.from /\ g.to <= h.to
<1> SUFFICES ASSUME NEW h \in holes,
                    NEW g \in IF Within(h, a, n) THEN Gap(h.from, a) \cup Gap(a + n, h.to)
                                                 ELSE {h}
             PROVE  g \in Hole /\ h.from <= g.from /\ g.to <= h.to
  BY DEF Consume
<1>1. h.from \in Nat /\ h.to \in Nat /\ h \in Hole BY DEF Hole
<1>2. CASE ~Within(h, a, n) BY <1>1, <1>2
<1>3. CASE Within(h, a, n)
  <2>1. h.from <= a /\ a + n <= h.to BY <1>3 DEF Within
  <2>2. CASE g \in Gap(h.from, a)
    <3>1. g = [from |-> h.from, to |-> a] BY <2>2 DEF Gap
    <3> QED BY <1>1, <2>1, <3>1 DEF Hole
  <2>3. CASE g \in Gap(a + n, h.to)
    <3>1. g = [from |-> a + n, to |-> h.to] BY <2>3 DEF Gap
    <3> QED BY <1>1, <2>1, <3>1 DEF Hole
  <2> QED BY <1>3, <2>2, <2>3
<1> QED BY <1>2, <1>3

LEMMA HolesLeft ==
    ASSUME NEW c, Within16(c), NEW a \in Nat, NEW n \in Nat
    PROVE  Within16([c EXCEPT !.holes = Consume(@, a, n)])
<1>1. c \in CursorType /\ c.cur <= Top /\ c.cur \in Nat /\ c.holes \in SUBSET Hole
  BY DEF Within16, CursorType
<1>2. Consume(c.holes, a, n) \in SUBSET Hole BY <1>1, ConsumeWithin
<1>3. [c EXCEPT !.holes = Consume(@, a, n)] = [cur |-> c.cur, holes |-> Consume(c.holes, a, n)]
  BY <1>1 DEF CursorType
<1> QED BY <1>1, <1>2, <1>3 DEF Within16, CursorType

LEMMA MarkMoves ==
    ASSUME NEW c, Within16(c), NEW a \in Nat, NEW m \in 0..Top
    PROVE  Within16([cur |-> m, holes |-> c.holes \cup Gap(c.cur, a)])
<1>1. c.cur \in Nat /\ c.holes \in SUBSET Hole /\ Top \in Nat
  BY WidthAssumption DEF Within16, CursorType
<1>2. Gap(c.cur, a) \in SUBSET Hole BY <1>1 DEF Gap, Hole
<1> QED BY <1>1, <1>2 DEF Within16, CursorType

\* The search behind the mark returns an address that fits.
LEMMA TailFound ==
    ASSUME NEW r, NEW c, c.cur \in Nat, NEW o, TailFits(r, c, o) # {}
    PROVE  TailAddress(r, c, o) \in TailFits(r, c, o) /\ TailAddress(r, c, o) \in 0..(Word - 1)
<1> DEFINE fits == TailFits(r, c, o)
           D == {Ahead(c, b) : b \in fits}
<1>1. fits \subseteq 0..(Word - 1) BY DEF TailFits
<1>2. Word \in Nat \ {0} BY WidthAssumption
<1>3. D \in SUBSET Nat
  <2>1. ASSUME NEW b \in fits PROVE Ahead(c, b) \in Nat
    <3>1. b - c.cur \in Int BY <1>1
    <3> QED BY <3>1, <1>2 DEF Ahead
  <2> QED BY <2>1
<1> HIDE DEF fits
<1>4. D # {} BY DEF fits
<1>5. Least(D) \in D
  <2> HIDE DEF D
  <2> QED BY <1>3, <1>4, LeastOf
<1>6. \E b \in fits : Ahead(c, b) = Least(D) BY <1>5
<1>7. TailAddress(r, c, o) = CHOOSE b \in fits : Ahead(c, b) = Least(D)
  BY DEF TailAddress, fits
<1> HIDE DEF D
<1>8. TailAddress(r, c, o) \in fits BY <1>6, <1>7
<1> QED BY <1>8, <1>1 DEF fits

\* The score picks one of the candidates.
LEMMA BestPicked ==
    ASSUME NEW r, NEW c, c.cur \in Nat, NEW o \in ShapeType,
           IsFiniteSet(o.branches), NEW S \in SUBSET Nat, S # {},
           \A a \in S : a \in BranchHoles(r, c, o) \/ c.cur <= a
    PROVE  BestOf(r, c, o, S) \in S
<1>1. o.size \in Nat BY WidthAssumption DEF ShapeType
<1> DEFINE S1 == Slimmest(r, c, o, S)
           S2 == Straightest(o, S1)
           S3 == OnOnePage(o, S2)
<1>2. S1 \subseteq S /\ S1 # {}
  <2> DEFINE D == {Growth(r, c, o, b) : b \in S}
  <2>1. D \in SUBSET Nat /\ D # {}
    <3>1. ASSUME NEW a \in S PROVE Growth(r, c, o, a) \in Nat
      <4>1. a \in Nat OBVIOUS
      <4>2. CASE a \in BranchHoles(r, c, o) BY <4>2 DEF Growth
      <4>3. CASE c.cur <= a /\ a \notin BranchHoles(r, c, o)
        <5>1. Growth(r, c, o, a) = a + o.size - c.cur BY <4>3 DEF Growth
        <5> QED BY <4>1, <4>3, <5>1, <1>1
      <4> QED BY <4>2, <4>3
    <3> QED BY <3>1
  <2> HIDE DEF D
  <2>2. Least(D) \in D BY <2>1, LeastOf
  <2> QED BY <2>2 DEF Slimmest, D
<1> HIDE DEF S1
<1>3. S2 \subseteq S1 /\ S2 # {}
  <2> DEFINE D == {Crossings(o, b) : b \in S1}
  <2>1. ASSUME NEW a \in S1 PROVE Crossings(o, a) \in Nat
    <3> DEFINE B == {b \in o.branches : Inside(o, b) /\ b.policy = "flex" /\ Crosses(b, a)}
    <3>1. IsFiniteSet(B) BY FS_Subset
    <3> HIDE DEF B
    <3>2. Cardinality(B) \in Nat BY <3>1, FS_CardinalityType
    <3> QED BY <3>2 DEF B, Crossings
  <2>2. D \in SUBSET Nat /\ D # {} BY <1>2, <2>1
  <2> HIDE DEF D
  <2>3. Least(D) \in D BY <2>2, LeastOf
  <2> QED BY <2>3 DEF Straightest, D
<1> HIDE DEF S2
<1>4. S3 \subseteq S2 /\ S3 # {}
  <2> DEFINE D == {Penalty(o, b) : b \in S2}
  <2>1. D \in SUBSET Nat /\ D # {} BY <1>3 DEF Penalty
  <2> HIDE DEF D
  <2>2. Least(D) \in D BY <2>1, LeastOf
  <2> QED BY <2>2 DEF OnOnePage, D
<1> HIDE DEF S3
<1>5. S3 \in SUBSET Nat /\ S3 \subseteq S BY <1>2, <1>3, <1>4
<1>6. Least(S3) \in S BY <1>4, <1>5, LeastOf
<1> QED BY <1>6 DEF BestOf, S1, S2, S3

\* How the allocator answers for an object without branches.
LEMMA AllocateAnswers ==
    ASSUME NEW r \in RegionType, r.bank = 0, NEW c, Within16(c),
           NEW o, o.size \in Nat, Allocate(r, c, o).answer = "placed"
    PROVE  \/ /\ GoesIntoHole(r, c, o)
              /\ \E a \in Nat : Allocate(r, c, o).cursor = [c EXCEPT !.holes = Consume(@, a, o.size)]
           \/ /\ ~GoesIntoHole(r, c, o)
              /\ LET a == TailAddress(r, c, o)
                 IN  /\ a \in TailFits(r, c, o) /\ a \in Nat
                     /\ ~Overflows(r, o, a)
                     /\ (a + o.size) % Word \in 0..Top
                     /\ Allocate(r, c, o).cursor = [cur |-> (a + o.size) % Word,
                                                    holes |-> c.holes \cup Gap(c.cur, a)]
<1>1. /\ c.cur \in Nat /\ c.holes \in SUBSET Hole /\ Top \in Nat /\ Word \in Nat \ {0}
  BY WidthAssumption DEF Within16, CursorType
<1>2. ~Impossible(r, o) BY DEF Allocate, Refused
<1>3. CASE GoesIntoHole(r, c, o)
  <2>1. HoleFits(r, c, o) # {} /\ HoleFits(r, c, o) \in SUBSET Nat
    BY <1>1, <1>3, HoleAddressIn DEF GoesIntoHole, HoleFits
  <2>2. PICK a \in Nat : a = Least(HoleFits(r, c, o)) BY <2>1, LeastOf
  <2>3. Allocate(r, c, o) = Placed(a, [c EXCEPT !.holes = Consume(@, a, o.size)])
    BY <1>2, <1>3, <2>2 DEF Allocate
  <2> QED BY <1>3, <2>3 DEF Placed
<1>4. CASE ~GoesIntoHole(r, c, o)
  <2>1. TailFits(r, c, o) # {} BY <1>2, <1>4 DEF Allocate, Refused
  <2>2. PICK a : a = TailAddress(r, c, o) OBVIOUS
  <2>3. a \in TailFits(r, c, o) /\ a \in 0..(Word - 1) BY <1>1, <2>1, <2>2, TailFound
  <2>4. Allocate(r, c, o) = AtTail(r, c, o, a) BY <1>2, <1>4, <2>1, <2>2 DEF Allocate
  <2>5. ~Overflows(r, o, a) BY <2>4 DEF AtTail, Refused
  <2>6. Allocate(r, c, o) = Placed(a, [cur |-> (a + o.size) % Word,
                                       holes |-> c.holes \cup Gap(c.cur, a)])
    BY <2>4, <2>5 DEF AtTail
  <2>7. (a + o.size) % Word \in 0..Top
    <3>1. a + o.size \in Nat BY <2>3, <1>1
    <3>2. (a + o.size) % Word \in Nat BY <3>1, <1>1
    <3>3. ~((a + o.size) % Word > Top) BY <2>5 DEF Overflows
    <3> QED BY <3>2, <3>3, <1>1
  <2>8. a \in Nat BY <2>3, <1>1
  <2> QED BY <1>4, <2>2, <2>3, <2>5, <2>6, <2>7, <2>8 DEF Placed
<1> QED BY <1>3, <1>4

\* The allocator leaves a cursor of the address space.
LEMMA CursorKept ==
    ASSUME NEW r \in RegionType, r.bank = 0, NEW c, Within16(c),
           NEW o \in ShapeType, IsFiniteSet(o.branches),
           SimulateCode(r, c, o).answer = "placed"
    PROVE  Within16(SimulateCode(r, c, o).cursor)
<1>1. /\ o.size \in Nat /\ c.cur \in Nat /\ Top \in Nat \ {0} /\ Page \in Nat
      /\ c.holes \in SUBSET Hole
  BY WidthAssumption DEF ShapeType, CursorType, Within16
<1>2. CASE o.branches = {}
  <2>1. SimulateCode(r, c, o) = Allocate(r, c, o) BY <1>2 DEF SimulateCode
  <2>2. PICK d : d = SimulateCode(r, c, o).cursor OBVIOUS
  <2>3. CASE \E a \in Nat : d = [c EXCEPT !.holes = Consume(@, a, o.size)]
    BY <1>1, <2>2, <2>3, HolesLeft
  <2>4. CASE \E a \in Nat : /\ (a + o.size) % Word \in 0..Top
                            /\ d = [cur |-> (a + o.size) % Word,
                                    holes |-> c.holes \cup Gap(c.cur, a)]
    BY <2>2, <2>4, MarkMoves
  <2> QED BY <1>1, <2>1, <2>2, <2>3, <2>4, AllocateAnswers
<1>3. CASE o.branches # {}
  <2> DEFINE holes == BranchHoles(r, c, o)
             good == {a \in holes \cup BranchTail(r, c, o) : ContractsHold(o, a)}
  <2>1. good # {}
    BY <1>3 DEF SimulateCode, Refused
  <2>2. ~(o.page /\ o.size > Page) BY <1>3, <2>1 DEF SimulateCode, Refused
  <2>3. good \in SUBSET Nat /\ \A u \in good : u \in holes \/ c.cur <= u
    BY <1>1, HoleAddressIn DEF BranchHoles, BranchTail
  <2>4. PICK a : a = BestOf(r, c, o, good) OBVIOUS
  <2>5. SimulateCode(r, c, o) =
            IF a \in holes
            THEN Placed(a, [c EXCEPT !.holes = Consume(@, a, o.size)])
            ELSE Placed(a, [cur |-> (a + o.size) % Top,
                            holes |-> c.holes \cup Gap(c.cur, a)])
    BY <1>3, <2>1, <2>2, <2>4 DEF SimulateCode
  <2> HIDE DEF good
  <2>6. a \in Nat BY <1>1, <2>1, <2>3, <2>4, BestPicked
  <2>7. (a + o.size) % Top \in 0..Top
    <3>1. a + o.size \in Nat BY <2>6, <1>1
    <3> QED BY <3>1, <1>1
  <2> QED BY <1>1, <2>5, <2>6, <2>7, HolesLeft, MarkMoves DEF Placed
<1> QED BY <1>2, <1>3

\* A table goes anywhere: into a hole, or else at the mark.
LEMMA PlainGoes ==
    ASSUME NEW r \in RegionType, r.bank = 0, NEW c, Within16(c), NEW n \in 1..Top
    PROVE  /\ \A a : Admissible(r, Plain(n), a)
           /\ ~Impossible(r, Plain(n))
           /\ TailFits(r, c, Plain(n)) # {} /\ TailAddress(r, c, Plain(n)) = c.cur
<1>1. /\ c.cur \in Nat /\ c.cur <= Top /\ Top \in Nat \ {0} /\ 3 * Top <= Word
      /\ Word \in Nat \ {0}
  BY WidthAssumption DEF Within16, CursorType
<1>2. \A a : Admissible(r, Plain(n), a)
  BY DEF Plain, Admissible, AlignedAt, PageConstraintsHold, BankConstraintHolds
<1>3. ~Impossible(r, Plain(n)) BY DEF Plain, Impossible
<1>4. ~Plain(n).zp BY DEF Plain
<1>5. TailFits(r, c, Plain(n)) = 0..(Word - 1) BY <1>2, <1>4 DEF TailFits
<1>6. c.cur \in 0..(Word - 1) BY <1>1
<1> DEFINE D == {Ahead(c, b) : b \in 0..(Word - 1)}
<1>7. \A b \in 0..(Word - 1) : Ahead(c, b) \in 0..(Word - 1)
  <2> SUFFICES ASSUME NEW b \in 0..(Word - 1) PROVE Ahead(c, b) \in 0..(Word - 1) OBVIOUS
  <2>1. b - c.cur \in Int BY <1>1
  <2>2. PICK u \in Int : u = b - c.cur BY <2>1
  <2>3. u % Word \in 0..(Word - 1) BY <1>1
  <2> QED BY <2>2, <2>3 DEF Ahead
<1>8. Ahead(c, c.cur) = 0
  <2>1. c.cur - c.cur = 0 BY <1>1
  <2>2. 0 % Word = 0 BY <1>1
  <2> QED BY <2>1, <2>2 DEF Ahead
<1>9. D \in SUBSET Nat /\ 0 \in D BY <1>1, <1>6, <1>7, <1>8
<1> HIDE DEF D
<1>10. Least(D) = 0
  <2>1. D # {} BY <1>9
  <2>2. PICK l : l = Least(D) OBVIOUS
  <2>3. l \in D /\ \A y \in D : l <= y BY <1>9, <2>1, <2>2, LeastOf
  <2>4. l \in Nat /\ l <= 0 BY <1>9, <2>3
  <2> QED BY <2>2, <2>4
<1>11. ASSUME NEW b \in 0..(Word - 1), Ahead(c, b) = 0 PROVE b = c.cur
  <2>1. PICK u \in Int : u = b - c.cur BY <1>1
  <2>2. u % Word = 0 BY <1>11, <2>1 DEF Ahead
  <2>3. u = Word * (u \div Word) + (u % Word) /\ u \div Word \in Int BY <1>1
  <2>4. u < Word /\ -Word < u BY <2>1, <1>1
  <2>5. PICK q \in Int : q = u \div Word BY <2>3
  <2>6. u = Word * q BY <2>2, <2>3, <2>5, <1>1
  <2>7. q = 0
    <3>1. q >= 1 => Word * q >= Word BY <1>1
    <3>2. q <= -1 => Word * q <= -Word BY <1>1
    <3> QED BY <2>4, <2>6, <3>1, <3>2, <1>1
  <2> QED BY <2>1, <2>6, <2>7, <1>1
<1>12. TailAddress(r, c, Plain(n)) = CHOOSE a \in 0..(Word - 1) : Ahead(c, a) = 0
  BY <1>5, <1>10 DEF TailAddress, D
<1>13. TailAddress(r, c, Plain(n)) = c.cur BY <1>6, <1>8, <1>11, <1>12
<1> QED BY <1>2, <1>3, <1>5, <1>6, <1>13

LEMMA NoOverflow ==
    ASSUME NEW r \in RegionType, r.bank = 0, NEW c, Within16(c), NEW n \in 1..Top,
           Allocate(r, c, Plain(n)).answer = "placed", ~GoesIntoHole(r, c, Plain(n))
    PROVE  ~Overflows(r, Plain(n), c.cur)
<1>1. PICK o : o = Plain(n) OBVIOUS
<1>2. o.size \in Nat BY <1>1, WidthAssumption DEF Plain
<1>3. ~Overflows(r, o, TailAddress(r, c, o)) BY <1>1, <1>2, AllocateAnswers
<1> QED BY <1>1, <1>3, PlainGoes

\* A table that finds room behind another one finds room without it.
LEMMA RoomWithout ==
    ASSUME NEW r \in RegionType, r.bank = 0, NEW c, Within16(c),
           NEW z \in 1..Top, NEW n \in 1..Top, NEW d,
           Allocate(r, c, Plain(z)).answer = "placed",
           d = Allocate(r, c, Plain(z)).cursor,
           Allocate(r, d, Plain(n)).answer = "placed"
    PROVE  Allocate(r, c, Plain(n)).answer = "placed"
<1>1. /\ Plain(n).size = n /\ Plain(z).size = z /\ n \in Nat /\ z \in Nat /\ r.end \in Nat
      /\ Top \in Nat \ {0} /\ Word \in Nat \ {0} /\ 3 * Top <= Word /\ VectorBase \in Nat
      /\ Page \in Nat
  BY WidthAssumption DEF Plain, RegionType
<1>2. /\ c.cur \in Nat /\ c.cur <= Top /\ c.holes \in SUBSET Hole
      /\ c = [cur |-> c.cur, holes |-> c.holes]
  BY DEF Within16, CursorType
<1>3. SUFFICES ASSUME ~GoesIntoHole(r, c, Plain(n))
               PROVE  Allocate(r, c, Plain(n)).answer = "placed"
  <2>1. CASE GoesIntoHole(r, c, Plain(n))
    BY <2>1, PlainGoes DEF Allocate, Placed
  <2> QED BY <1>3, <2>1
\* The mark has not gone back, and what is left of holes was there before.
<1>4. /\ Within16(d) /\ c.cur <= d.cur
      /\ \A g \in d.holes : \E h \in c.holes : h.from <= g.from /\ g.to <= h.to
  <2>1. CASE \E a \in Nat : d = [c EXCEPT !.holes = Consume(@, a, z)]
    <3>1. PICK a \in Nat : d = [c EXCEPT !.holes = Consume(@, a, z)] BY <2>1
    <3>2. d.cur = c.cur /\ d.holes = Consume(c.holes, a, z) BY <1>2, <3>1
    <3>3. Within16(d) BY <1>1, <3>1, HolesLeft
    <3>4. \A g \in d.holes : \E h \in c.holes : h.from <= g.from /\ g.to <= h.to
      BY <1>1, <1>2, <3>2, ConsumeWithin
    <3> QED BY <1>2, <3>2, <3>3, <3>4
  <2>2. CASE d = [cur |-> (c.cur + z) % Word, holes |-> c.holes \cup Gap(c.cur, c.cur)]
    <3>1. (c.cur + z) % Word = c.cur + z
      <4>1. PICK u \in Nat : u = c.cur + z BY <1>1, <1>2
      <4>2. u < Word BY <4>1, <1>1, <1>2
      <4>3. u % Word = u BY <4>2, <1>1
      <4> QED BY <4>1, <4>3
    <3>2. Gap(c.cur, c.cur) = {} BY <1>2 DEF Gap
    <3>3. d.cur = c.cur + z /\ d.holes = c.holes BY <2>2, <3>1, <3>2
    <3>4. \A g \in c.holes : g.from <= g.from /\ g.to <= g.to BY <1>2 DEF Hole
    <3>5. c.cur + z <= Top => Within16(d) BY <1>1, <1>2, <2>2, <3>1, <3>2 DEF Within16, CursorType
    <3>6. ~GoesIntoHole(r, c, Plain(z)) => c.cur + z <= Top
      <4>1. ~GoesIntoHole(r, c, Plain(z)) => ~Overflows(r, Plain(z), c.cur)
        BY NoOverflow
      <4> QED BY <4>1, <3>1, <1>1, <1>2 DEF Overflows
    <3>7. GoesIntoHole(r, c, Plain(z)) => \E a \in Nat : d = [c EXCEPT !.holes = Consume(@, a, z)]
      BY <1>1, AllocateAnswers
    <3> QED BY <1>1, <1>2, <2>1, <3>3, <3>4, <3>5, <3>6, <3>7
  <2> QED BY <1>1, <2>1, <2>2, AllocateAnswers, PlainGoes
<1>5. ~GoesIntoHole(r, d, Plain(n))
  <2> SUFFICES ASSUME GoesIntoHole(r, d, Plain(n)) PROVE GoesIntoHole(r, c, Plain(n))
    BY <1>3
  <2>1. n <= Page BY <1>1 DEF GoesIntoHole, Constrained, Plain
  <2>2. PICK a \in HoleFits(r, d, Plain(n)) : TRUE BY DEF GoesIntoHole
  <2>3. a \in HoleAddresses(d.holes, n) /\ FitsOnePage(a, n)
    BY <1>1, <2>1, <2>2 DEF HoleFits
  <2>4. d.holes \in SUBSET Hole BY <1>4 DEF Within16, CursorType
  <2>5. a \in Nat /\ \E g \in d.holes : g.from <= a /\ a + n <= g.to
    BY <1>1, <2>3, <2>4, HoleAddressIn
  <2>6. PICK g \in d.holes : g.from <= a /\ a + n <= g.to BY <2>5
  <2>7. PICK h \in c.holes : h.from <= g.from /\ g.to <= h.to BY <1>4
  <2>8. g.from \in Nat /\ g.to \in Nat /\ h.from \in Nat /\ h.to \in Nat
    BY <1>2, <2>4 DEF Hole
  <2>9. a \in h.from..(h.to - n) BY <1>1, <2>5, <2>6, <2>7, <2>8
  <2>10. a \in HoleAddresses(c.holes, n) BY <2>9 DEF HoleAddresses
  <2>11. a \in HoleFits(r, c, Plain(n)) BY <1>1, <2>3, <2>10, PlainGoes DEF HoleFits
  <2> QED BY <1>1, <2>1, <2>11 DEF GoesIntoHole
<1>6. ~Overflows(r, Plain(n), d.cur) BY <1>4, <1>5, NoOverflow
<1>7. ~Overflows(r, Plain(n), c.cur)
  <2>1. PICK u \in Nat : u = d.cur + n BY <1>1, <1>4 DEF Within16, CursorType
  <2>2. PICK v \in Nat : v = c.cur + n BY <1>1, <1>2
  <2>3. v <= u /\ u < Word
    BY <2>1, <2>2, <1>1, <1>2, <1>4 DEF Within16, CursorType
  <2>4. u % Word = u /\ v % Word = v BY <2>3, <1>1
  <2> QED BY <1>1, <1>6, <2>1, <2>2, <2>3, <2>4 DEF Overflows
<1> QED BY <1>3, <1>7, PlainGoes DEF Allocate, AtTail, Placed

-----------------------------------------------------------------------------
(* The dry run and the layout. *)

\* Parts of a link, as the allocator takes them.
PartShape(x) == x.size > 0 => x \in ShapeType /\ IsFiniteSet(x.branches)

LEMMA CursorsIn ==
    ASSUME NEW r \in RegionType, r.bank = 0, r.start <= Top,
           NEW s, Len(s) \in Nat, \A k \in 1..Len(s) : PartShape(s[k])
    PROVE  \A k \in 0..Len(s) :
               Answers("dry", r, s)[k].answer = "placed" => Within16(Answers("dry", r, s)[k].cursor)
<1> DEFINE n == Len(s)
           S == {k \in 0..n : Answers("dry", r, s)[k].answer = "placed"
                                  => Within16(Answers("dry", r, s)[k].cursor)}
<1>1. 0 \in S
  <2>1. Answers("dry", r, s)[0] = Opened(r) BY AnswersStep
  <2>3. Opened(r).cursor = [cur |-> r.start, holes |-> {}] BY DEF Opened, Placed
  <2>2. Within16([cur |-> r.start, holes |-> {}])
    BY WidthAssumption DEF Within16, CursorType, RegionType
  <2> QED BY <2>1, <2>2, <2>3
<1>2. ASSUME NEW k \in 1..n, k - 1 \in S PROVE k \in S
  <2>1. PICK a : a = Answers("dry", r, s)[k - 1] OBVIOUS
  <2>2. PICK b : b = Answers("dry", r, s)[k] OBVIOUS
  <2>3. PICK x : x = s[k] /\ PartShape(x) OBVIOUS
  <2>4. b = After("dry", r, a, x) BY <2>1, <2>2, <2>3, AnswersStep
  <2>5. a.answer = "placed" => Within16(a.cursor) BY <1>2, <2>1
  <2>6. b.answer = "placed" => Within16(b.cursor)
    <3>1. CASE a.answer = "placed" /\ x.size > 0
      <4>1. b = SimulateCode(r, a.cursor, x) BY <2>4, <3>1 DEF After, Decide
      <4>2. PICK c : c = a.cursor /\ Within16(c) BY <2>5, <3>1
      <4>3. x \in ShapeType /\ IsFiniteSet(x.branches) BY <2>3, <3>1 DEF PartShape
      <4> QED BY <4>1, <4>2, <4>3, CursorKept
    <3>2. CASE ~(a.answer = "placed" /\ x.size > 0)
      BY <2>4, <2>5, <3>2 DEF After
    <3> QED BY <3>1, <3>2
  <2> QED BY <2>2, <2>6
<1> HIDE DEF S
<1>3. \A k \in 0..n : k \in S BY <1>1, <1>2, UpThrough
<1> QED BY <1>3 DEF S

\* Where three tables find room, the first and the last of them do.
LEMMA LaidWithout ==
    ASSUME NEW r \in RegionType, r.bank = 0, r.start <= Top,
           NEW T, NEW s \in Seq(T), \A k \in 1..Len(s) : PartShape(s[k]),
           NEW x \in 1..Top, NEW z \in 1..Top, NEW y \in 1..Top,
           Laid("dry", r, s \o <<Plain(x), Plain(z), Plain(y)>>)
    PROVE  Laid("dry", r, s \o <<Plain(x), Plain(y)>>)
<1>1. PICK n \in Nat : n = Len(s) OBVIOUS
<1>2. PICK u : u = s \o <<Plain(x), Plain(z), Plain(y)>> OBVIOUS
<1>3. PICK v : v = s \o <<Plain(x), Plain(y)>> OBVIOUS
<1>4. /\ Len(u) = n + 3 /\ \A k \in 1..n : u[k] = s[k]
      /\ u[n + 1] = Plain(x) /\ u[n + 2] = Plain(z) /\ u[n + 3] = Plain(y)
  BY <1>1, <1>2
<1>5. /\ Len(v) = n + 2 /\ \A k \in 1..n : v[k] = s[k]
      /\ v[n + 1] = Plain(x) /\ v[n + 2] = Plain(y)
  BY <1>1, <1>3
<1>6. PICK m \in Nat : m = n + 1 OBVIOUS
<1>7. \A k \in 0..m : Answers("dry", r, u)[k] = Answers("dry", r, v)[k]
  <2>1. Len(u) \in Nat /\ Len(v) \in Nat /\ m <= Len(u) /\ m <= Len(v)
    BY <1>4, <1>5, <1>6
  <2>2. \A k \in 1..m : u[k] = v[k] BY <1>4, <1>5, <1>6
  <2> QED BY <2>1, <2>2, AnswersAgree
<1>8. \A k \in 0..Len(u) : Answers("dry", r, u)[k].answer = "placed"
  <2>1. Len(u) \in Nat /\ Laid("dry", r, u) BY <1>2, <1>4
  <2> QED BY <2>1, RefusalStays
<1>9. ASSUME NEW b \in 1..Top PROVE PartShape(Plain(b)) /\ Plain(b).size > 0
  <2>1. Plain(b) \in ShapeType /\ IsFiniteSet(Plain(b).branches)
    BY FS_EmptySet DEF Plain, ShapeType
  <2> QED BY <2>1, WidthAssumption DEF PartShape, Plain
<1>10. \A k \in 1..Len(u) : PartShape(u[k])
  <2>1. ASSUME NEW k \in 1..Len(u), k > n PROVE k \in {n + 1, n + 2, n + 3}
    BY <1>4, <2>1
  <2>2. \A k \in 1..Len(u) : k > n => PartShape(u[k]) BY <1>4, <1>9, <2>1
  <2>3. \A k \in 1..Len(u) : ~(k > n) => PartShape(u[k]) BY <1>1, <1>4
  <2> QED BY <2>2, <2>3
<1>11. PICK c : c = Answers("dry", r, u)[m].cursor OBVIOUS
<1>12. m \in 0..Len(u) /\ Len(u) \in Nat BY <1>4, <1>6
<1>13. Within16(c) BY <1>8, <1>10, <1>11, <1>12, CursorsIn
<1>14. PICK a : a = Allocate(r, c, Plain(z)) OBVIOUS
<1>15. PICK d : d = a.cursor OBVIOUS
<1>16. Answers("dry", r, u)[m + 1] = a
  <2>1. m + 1 \in 1..Len(u) /\ m + 1 - 1 = m BY <1>4, <1>6
  <2>2. Answers("dry", r, u)[m + 1] = After("dry", r, Answers("dry", r, u)[m], u[m + 1])
    BY <2>1, <1>12, AnswersStep
  <2>3. u[m + 1] = Plain(z) BY <1>4, <1>6
  <2> QED BY <2>2, <2>3, <1>8, <1>9, <1>11, <1>12, <1>14 DEF After, Decide, SimulateCode, Plain
<1>17. Answers("dry", r, u)[m + 2] = Allocate(r, d, Plain(y))
  <2>1. m + 2 \in 1..Len(u) /\ m + 2 - 1 = m + 1 /\ m + 1 \in 0..Len(u) BY <1>4, <1>6
  <2>2. Answers("dry", r, u)[m + 2] = After("dry", r, Answers("dry", r, u)[m + 1], u[m + 2])
    BY <2>1, <1>12, AnswersStep
  <2>3. u[m + 2] = Plain(y) BY <1>4, <1>6
  <2> QED BY <2>1, <2>2, <2>3, <1>8, <1>9, <1>15, <1>16 DEF After, Decide, SimulateCode, Plain
<1>18. a.answer = "placed" /\ Allocate(r, d, Plain(y)).answer = "placed"
  <2>1. m + 1 \in 0..Len(u) /\ m + 2 \in 0..Len(u) BY <1>4, <1>6
  <2> QED BY <2>1, <1>8, <1>16, <1>17
<1>19. Allocate(r, c, Plain(y)).answer = "placed"
  BY <1>13, <1>14, <1>15, <1>18, RoomWithout
<1>20. Answers("dry", r, v)[m + 1] = Allocate(r, c, Plain(y))
  <2>1. m + 1 \in 1..Len(v) /\ m + 1 - 1 = m /\ Len(v) \in Nat BY <1>5, <1>6
  <2>2. Answers("dry", r, v)[m + 1] = After("dry", r, Answers("dry", r, v)[m], v[m + 1])
    BY <2>1, AnswersStep
  <2>3. v[m + 1] = Plain(y) BY <1>5, <1>6
  <2>4. Answers("dry", r, v)[m] = Answers("dry", r, u)[m] BY <1>7, <1>6
  <2> QED BY <2>2, <2>3, <2>4, <1>8, <1>9, <1>11, <1>12 DEF After, Decide, SimulateCode, Plain
<1>21. Len(v) = m + 1 BY <1>5, <1>6
<1> QED BY <1>3, <1>19, <1>20, <1>21 DEF Laid

-----------------------------------------------------------------------------
(* The ledger. *)

\* Bytes are numbers, and add up.
LEMMA BytesAdd ==
    ASSUME link \in Link, NEW S \in SUBSET DOMAIN Part, NEW T \in SUBSET DOMAIN Part
    PROVE  /\ Bytes(S) \in Nat /\ Bytes({}) = 0
           /\ S \cap T = {} => Bytes(S \cup T) = Bytes(S) + Bytes(T)
<1> DEFINE D == DOMAIN Part
           W == 1..Top
           Box == D \X W
           Count(i) == 1..Part[i].shape.size
           Own(i) == {i} \X Count(i)
           All(X) == UNION {Own(i) : i \in X}
<1>1. Part \in Seq(PartType) BY LinkAssumption DEF LinkType, Part
<1>2. ASSUME NEW i \in DOMAIN Part PROVE Count(i) \subseteq W
  <2>1. PICK x \in PartType : x = Part[i] BY <1>1
  <2>2. x.shape \in ShapeType BY DEF PartType
  <2>3. Part[i].shape.size \in 1..Top BY <2>1, <2>2 DEF ShapeType
  <2> QED BY <2>3, WidthAssumption
<1>3. IsFiniteSet(D) /\ IsFiniteSet(W)
  <2>1. DOMAIN Part = 1..Len(Part) /\ Len(Part) \in Nat BY <1>1
  <2>2. Top \in Nat BY WidthAssumption
  <2> QED BY <2>1, <2>2, FS_Interval
<1> HIDE DEF W, Count
<1>4. IsFiniteSet(Box)
  <2> HIDE DEF D
  <2> QED BY <1>3, FS_Product
<1>5. ASSUME NEW i \in DOMAIN Part PROVE Own(i) \subseteq Box BY <1>2
<1>6. ASSUME NEW X \in SUBSET DOMAIN Part
      PROVE  All(X) \subseteq Box /\ IsFiniteSet(All(X)) /\ Cardinality(All(X)) \in Nat
  <2> HIDE DEF Own, Box
  <2>1. All(X) \subseteq Box BY <1>5
  <2> HIDE DEF All
  <2> QED BY <2>1, <1>4, FS_Subset, FS_CardinalityType
<1>7. ASSUME S \cap T = {} PROVE Cardinality(All(S \cup T)) = Cardinality(All(S)) + Cardinality(All(T))
  <2>1. All(S \cup T) = All(S) \cup All(T) OBVIOUS
  <2>2. All(S) \cap All(T) = {} BY <1>7
  <2>3. S \cup T \subseteq DOMAIN Part OBVIOUS
  <2> HIDE DEF All
  <2>4. IsFiniteSet(All(S)) /\ IsFiniteSet(All(T)) BY <1>6
  <2>5. Cardinality(All(S) \cup All(T)) =
            Cardinality(All(S)) + Cardinality(All(T)) - Cardinality(All(S) \cap All(T))
    BY <2>4, FS_Union
  <2>6. Cardinality(All(S) \cap All(T)) = 0 BY <2>2, FS_EmptySet
  <2>7. Cardinality(All(S)) \in Nat /\ Cardinality(All(T)) \in Nat BY <1>6
  <2>8. PICK m, n \in Nat : m = Cardinality(All(S)) /\ n = Cardinality(All(T)) BY <2>7
  <2>9. Cardinality(All(S) \cup All(T)) = m + n - 0 BY <2>5, <2>6, <2>8
  <2>10. m + n - 0 = m + n OBVIOUS
  <2> QED BY <2>1, <2>8, <2>9, <2>10
<1>8. All({}) = {} OBVIOUS
<1>9. Bytes(S) = Cardinality(All(S)) /\ Bytes({}) = Cardinality(All({}))
      /\ Bytes(T) = Cardinality(All(T)) /\ Bytes(S \cup T) = Cardinality(All(S \cup T))
  BY DEF Bytes, Count
<1> HIDE DEF All
<1> QED BY <1>6, <1>7, <1>8, <1>9, FS_EmptySet

LEMMA ReservedIs ==
    ASSUME link \in Link, NEW b \in Bank PROVE Reserved(b) \in Nat /\ Capacity(b) \in Nat
<1>1. /\ link.table.copy \in Nat /\ link.table.zero \in Nat /\ link.table.init \in Nat
      /\ link.region[b] \in RegionType
  BY LinkAssumption, WidthAssumption DEF LinkType
<1>2. link.region[b].start < link.region[b].end BY LinkAssumption
<1>3. Capacity(b) \in Nat BY <1>1, <1>2 DEF Capacity, RegionType
<1>4. PICK S \in SUBSET DOMAIN Part : S = {i \in DOMAIN Part \ Item : Part[i].bank = b}
  OBVIOUS
<1>5. Bytes(S) \in Nat BY BytesAdd
<1> QED BY <1>1, <1>3, <1>4, <1>5 DEF Reserved

LedgerInv ==
    /\ used \in [Bank -> Nat]
    /\ phase \in Later =>
          \A b \in Bank : /\ used[b] = Reserved(b) + Bytes({i \in Item : place[i] = b})
                          /\ used[b] <= Capacity(b)

\* What is placed so far could be laid out.
TrialInv ==
    /\ phase \in {"assign", "search", "placed"} =>
          (\A i \in Item : place[i] = 0) \/ TrialFits(place)
    /\ Item # {} /\ phase \in Ends =>
          /\ phase # "parts overflow"
          /\ phase = "tables overflow" => link.startup = "full"
          /\ phase = "scope" <=> \E i \in Item : OutOfScope(Part[i].shape)

AcceptInv == LedgerInv /\ TrialInv

\* What the ledger is compared with is said of the link and the placement.
LEMMA LedgerStays ==
    ASSUME link' = link
    PROVE  /\ Item' = Item /\ Part' = Part
           /\ \A b : Reserved(b)' = Reserved(b) /\ Capacity(b)' = Capacity(b)
           /\ \A S : Bytes(S)' = Bytes(S)
<1>1. Item' = Item /\ Part' = Part BY DEF Item, Part
<1>2. \A S : Bytes(S)' = Bytes(S) BY <1>1 DEF Bytes
<1>3. ASSUME NEW b PROVE Reserved(b)' = Reserved(b) /\ Capacity(b)' = Capacity(b)
  BY <1>1 DEF Reserved, Capacity, Bytes
<1> QED BY <1>1, <1>2, <1>3

\* A ledger that is right is right as long as nothing moves.
LEMMA LedgerSame ==
    ASSUME LedgerInv, phase' \in Later => phase \in Later, UNCHANGED <<link, place, used>>
    PROVE  LedgerInv'
<1>1. Item' = Item /\ Part' = Part BY DEF Item, Part
<1>2. ASSUME phase \in Later, NEW d \in Bank
      PROVE  /\ used'[d] = Reserved(d)' + Bytes({i \in Item : place[i] = d})'
             /\ used'[d] <= Capacity(d)'
  <2>1. PICK T : T = {i \in Item : place[i] = d} OBVIOUS
  <2>2. Bytes({i \in Item : place[i] = d})' = Bytes(T) BY <1>1, <2>1 DEF Bytes
  <2>3. used[d] = Reserved(d) + Bytes(T) /\ used[d] <= Capacity(d)
    BY <1>2, <2>1 DEF LedgerInv
  <2> QED BY <2>2, <2>3, LedgerStays
<1> QED BY <1>2 DEF LedgerInv

\* Before the ledger is opened nothing is said of it.
LEMMA NotYet ==
    ASSUME AcceptInv, link' = link, used' = used, phase' \notin Later
    PROVE  AcceptInv'
<1>1. phase' \notin {"assign", "search", "placed"} \cup Ends
  BY DEF Later
<1> QED BY <1>1 DEF AcceptInv, LedgerInv, TrialInv

LEMMA RefusedAccept ==
    ASSUME AcceptInv, NEW why \in Refusals, Refuse(why) PROVE AcceptInv'
<1>1. phase' \notin Later BY DEF Refuse, Refusals, Later, Ends
<1> QED BY <1>1, NotYet DEF Refuse

\* The placement goes on as it is.
LEMMA SameAccept ==
    ASSUME AcceptInv, phase \in {"assign", "search", "placed"},
           phase' \in {"assign", "search", "placed"},
           UNCHANGED <<link, place, used>>
    PROVE  AcceptInv'
<1>1. phase \in Later /\ phase' \notin Ends BY DEF Later, Ends
<1>2. Item' = Item /\ Part' = Part BY DEF Item, Part
<1>3. LedgerInv' BY <1>1, LedgerSame DEF AcceptInv
<1>4. TrialInv'
  <2>1. CASE \A i \in Item : place[i] = 0 BY <1>1, <1>2, <2>1 DEF TrialInv
  <2>2. CASE TrialFits(place)
    <3>1. TrialFits(place)' BY <1>2, <2>2 DEF TrialFits, DryTables
    <3> QED BY <1>1, <3>1 DEF TrialInv
  <2> QED BY <2>1, <2>2 DEF AcceptInv, TrialInv
<1> QED BY <1>3, <1>4 DEF AcceptInv

\* A component that fits a bank is put there, and taken from where it was.
LEMMA FitsAccept ==
    ASSUME PlacementInv, AcceptInv, phase \in {"assign", "search"}, phase' = phase,
           NEW c \in Item, NEW b \in Bank, b # place[c], Fits(c, b),
           place' = With(c, b), UNCHANGED <<link, class>>,
           used' \in [Bank -> Int],
           \A d \in Bank : used'[d] = used[d] + (IF d = b THEN Bytes(Members(c)) ELSE 0)
                                              - (IF d = place[c] THEN Bytes(Members(c)) ELSE 0)
    PROVE  AcceptInv'
<1>1. /\ link \in Link /\ place \in [Item -> {0} \cup Bank] /\ class \in [Item -> Item]
      /\ \A i \in Item : place[i] = place[class[i]]
      /\ Item \subseteq DOMAIN Part
  BY DEF PlacementInv, PlacementTypeOK, PlaceInv, Item
<1>2. phase \in Later BY DEF Later
<1>3. Item' = Item /\ Part' = Part BY LedgerStays
<1>4. PICK m \in Nat : m = Bytes(Members(c))
  <2>1. Members(c) \in SUBSET DOMAIN Part BY <1>1 DEF Members
  <2> QED BY <1>1, <2>1, BytesAdd
<1>5. ASSUME NEW d \in Bank
      PROVE  /\ used'[d] \in Nat
             /\ used'[d] = Reserved(d) + Bytes({i \in Item : place'[i] = d})
             /\ used'[d] <= Capacity(d)
  <2>1. PICK S \in SUBSET DOMAIN Part : S = {i \in Item : place[i] = d} BY <1>1
  <2>2. PICK T \in SUBSET DOMAIN Part : T = {i \in Item : place'[i] = d} BY <1>1
  <2>3. PICK M \in SUBSET DOMAIN Part : M = Members(c) BY <1>1 DEF Members
  <2>4. used[d] = Reserved(d) + Bytes(S) /\ used[d] <= Capacity(d)
    BY <1>2, <2>1 DEF AcceptInv, LedgerInv
  <2>5. /\ Reserved(d) \in Nat /\ Capacity(d) \in Nat
        /\ Bytes(S) \in Nat /\ Bytes(T) \in Nat /\ Bytes(M) = m
    BY <1>1, <1>4, <2>3, ReservedIs, BytesAdd
  <2>6. \A i \in Item : /\ place'[i] = IF i \in M THEN b ELSE place[i]
                        /\ i \in M => place[i] = place[c]
    BY <1>1, <2>3 DEF With, Members
  <2>7. M \subseteq Item BY <2>3 DEF Members
  <2>8. CASE d = b
    <3>1. T = S \cup M /\ S \cap M = {} BY <2>1, <2>2, <2>6, <2>7, <2>8
    <3>2. Bytes(T) = Bytes(S) + m BY <1>1, <3>1, <2>5, BytesAdd
    <3>3. used'[d] = used[d] + m BY <1>4, <2>4, <2>5, <2>8
    <3>4. Capacity(d) - used[d] >= m BY <1>4, <2>8 DEF Fits
    <3> QED BY <2>2, <2>4, <2>5, <3>2, <3>3, <3>4
  <2>9. CASE d = place[c]
    <3>1. S = T \cup M /\ T \cap M = {} BY <2>1, <2>2, <2>6, <2>7, <2>9
    <3>2. Bytes(S) = Bytes(T) + m BY <1>1, <3>1, <2>5, BytesAdd
    <3>3. used'[d] = used[d] - m BY <1>4, <2>4, <2>5, <2>9
    <3> QED BY <2>2, <2>4, <2>5, <3>2, <3>3
  <2>10. CASE d # b /\ d # place[c]
    <3>1. S = T BY <2>1, <2>2, <2>6, <2>10
    <3>2. used'[d] = used[d] BY <2>4, <2>5, <2>10
    <3>3. Bytes(T) = Bytes(S) BY <3>1
    <3> QED BY <2>2, <2>4, <2>5, <3>2, <3>3
  <2> QED BY <2>8, <2>9, <2>10
<1>6. LedgerInv'
  <2>1. used' \in [Bank -> Nat] BY <1>5
  <2>2. ASSUME NEW d \in Bank
        PROVE  /\ used'[d] = Reserved(d)' + Bytes({i \in Item : place[i] = d})'
               /\ used'[d] <= Capacity(d)'
    <3>1. PICK T : T = {i \in Item : place'[i] = d} OBVIOUS
    <3>2. Bytes({i \in Item : place[i] = d})' = Bytes(T) BY <1>3, <3>1 DEF Bytes
    <3> QED BY <1>5, <3>1, <3>2, LedgerStays
  <2> QED BY <2>1, <2>2 DEF LedgerInv
<1>7. TrialInv'
  <2>1. PICK pl : pl = With(c, b) OBVIOUS
  <2>2. TrialFits(pl) /\ place' = pl BY <2>1 DEF Fits
  <2>3. TrialFits(place)' BY <1>3, <2>2 DEF TrialFits, DryTables
  <2> QED BY <2>3 DEF TrialInv, Ends
<1> QED BY <1>6, <1>7 DEF AcceptInv

-----------------------------------------------------------------------------
(* The steps. *)

\* A step that reads a reference.
LEMMA RefAccept ==
    ASSUME AcceptInv, SoftRef \/ ReplicaRef \/ ItemRef \/ ImageRef \/ AbsoluteRef
    PROVE  AcceptInv'
<1>1. "replicas" \in Refusals /\ "far jump" \in Refusals /\ "pins" \in Refusals
  BY DEF Refusals
<1>2. Classifying
  BY DEF SoftRef, ReplicaRef, ItemRef, ImageRef, AbsoluteRef
<1>3. (\E why \in Refusals : Refuse(why)) \/ Taken
  <2>1. CASE SoftRef BY <2>1 DEF SoftRef
  <2>2. CASE ReplicaRef BY <1>1, <2>2 DEF ReplicaRef
  <2>3. CASE ItemRef BY <1>1, <2>3 DEF ItemRef
  <2>4. CASE ImageRef BY <1>1, <2>4 DEF ImageRef, Pin
  <2>5. CASE AbsoluteRef BY <1>1, <2>5 DEF AbsoluteRef, Pin
  <2> QED BY <2>1, <2>2, <2>3, <2>4, <2>5
<1>4. CASE \E why \in Refusals : Refuse(why) BY <1>4, RefusedAccept
<1>5. CASE Taken
  <2>1. phase' = "classify" /\ link' = link /\ used' = used
    BY <1>2, <1>5 DEF Taken, Classifying
  <2>2. phase' \notin Later BY <2>1 DEF Later, Ends
  <2> QED BY <2>1, <2>2, NotYet
<1> QED BY <1>3, <1>4, <1>5

\* The ledger is opened with what is reserved.
LEMMA CollapseAccept ==
    ASSUME PlacementInv, AcceptInv, Collapse PROVE AcceptInv'
<1>1. phase = "classify" BY DEF Collapse
<1>2. CASE \E why \in Refusals : Refuse(why) BY <1>2, RefusedAccept
<1>3. CASE /\ \A b \in Bank : ~(Reserved(b) > Capacity(b))
           /\ used' = [b \in Bank |-> Reserved(b)] /\ phase' = "assign"
           /\ UNCHANGED <<link, place>>
  <2>1. link \in Link /\ \A i \in Item : place[i] = 0
    BY <1>1 DEF PlacementInv, PlacementTypeOK, PlaceInv
  <2>2. Item' = Item /\ Part' = Part BY <1>3, LedgerStays
  <2>3. 0 \notin Bank BY BankAssumption DEF Bank
  <2>4. LedgerInv'
    <3>1. used' \in [Bank -> Nat] BY <1>3, <2>1, ReservedIs
    <3>2. ASSUME NEW d \in Bank
          PROVE  /\ used'[d] = Reserved(d)' + Bytes({i \in Item : place[i] = d})'
                 /\ used'[d] <= Capacity(d)'
      <4>1. {i \in Item : place'[i] = d} = {} BY <1>3, <2>1, <2>3
      <4>2. Bytes({i \in Item : place[i] = d})' = Bytes({}) BY <2>2, <4>1 DEF Bytes
      <4>3. Bytes({}) = 0 BY <2>1, BytesAdd
      <4>4. Reserved(d) \in Nat /\ Capacity(d) \in Nat BY <2>1, ReservedIs
      <4>5. Reserved(d)' = Reserved(d) /\ Capacity(d)' = Capacity(d) BY <1>3, LedgerStays
      <4> QED BY <1>3, <4>2, <4>3, <4>4, <4>5
    <3> QED BY <3>1, <3>2 DEF LedgerInv
  <2>5. TrialInv' BY <1>3, <2>1, <2>2 DEF TrialInv, Ends
  <2> QED BY <2>4, <2>5 DEF AcceptInv
<1>4. "replicas" \in Refusals /\ "pins" \in Refusals /\ "full" \in Refusals
  BY DEF Refusals
<1>5. \/ \E why \in Refusals : Refuse(why)
      \/ /\ \A b \in Bank : ~(Reserved(b) > Capacity(b))
         /\ used' = [b \in Bank |-> Reserved(b)] /\ phase' = "assign"
         /\ UNCHANGED <<link, place>>
  <2>1. CASE \E c \in Component : Allowed(c) = {} BY <1>4, <2>1 DEF Collapse
  <2>2. CASE /\ ~ \E c \in Component : Allowed(c) = {}
             /\ \E c \in Component : Cardinality(Pins(c)) > 1
    BY <1>4, <2>2 DEF Collapse
  <2>3. CASE /\ ~ \E c \in Component : Allowed(c) = {}
             /\ ~ \E c \in Component : Cardinality(Pins(c)) > 1
             /\ \E c \in Component : ~(Pins(c) \subseteq Allowed(c))
    BY <1>4, <2>3 DEF Collapse
  <2>4. CASE /\ ~ \E c \in Component : Allowed(c) = {}
             /\ ~ \E c \in Component : Cardinality(Pins(c)) > 1
             /\ ~ \E c \in Component : ~(Pins(c) \subseteq Allowed(c))
    BY <1>4, <2>4 DEF Collapse
  <2> QED BY <2>1, <2>2, <2>3, <2>4
<1> QED BY <1>2, <1>3, <1>5

\* What an assignment writes into the ledger.
LEMMA AssignAccept ==
    ASSUME PlacementInv, AcceptInv, phase = "assign",
           NEW c \in Item, place[c] = 0, NEW b \in Bank, Fits(c, b), Assign(c, b)
    PROVE  AcceptInv'
<1>1. /\ place' = With(c, b) /\ UNCHANGED <<link, class>> /\ phase' = phase
      /\ used' = [used EXCEPT ![b] = @ + Bytes(Members(c))]
  BY DEF Assign
<1>2. used \in [Bank -> Nat] BY DEF AcceptInv, LedgerInv
<1>3. 0 \notin Bank BY BankAssumption DEF Bank
<1>4. PICK m \in Nat : m = Bytes(Members(c))
  <2>1. Members(c) \in SUBSET DOMAIN Part BY DEF Members, Item
  <2> QED BY <2>1, BytesAdd DEF PlacementInv, PlacementTypeOK
<1>5. /\ used' \in [Bank -> Int]
      /\ \A d \in Bank : used'[d] = used[d] + (IF d = b THEN m ELSE 0)
                                            - (IF d = place[c] THEN m ELSE 0)
  BY <1>1, <1>2, <1>3, <1>4
<1> QED BY <1>1, <1>3, <1>4, <1>5, FitsAccept

LEMMA AssignPinnedAccept ==
    ASSUME PlacementInv, AcceptInv, AssignPinned PROVE AcceptInv'
<1>1. phase = "assign" BY DEF AssignPinned
<1>2. PICK c \in Unassigned :
          /\ Pinned(c)
          /\ LET b == CHOOSE b \in Pins(c) : TRUE
             IN  IF Fits(c, b) THEN Assign(c, b) ELSE Refuse("full")
  BY DEF AssignPinned
<1>3. PICK b \in Pins(c) : IF Fits(c, b) THEN Assign(c, b) ELSE Refuse("full")
  BY <1>2 DEF Pinned
<1>4. c \in Item /\ place[c] = 0
  BY DEF Unassigned, Component, PlacementInv, PlacementTypeOK
<1>5. b \in Bank BY DEF Pins, Members, PlacementInv, PlacementTypeOK
<1>6. CASE Fits(c, b) BY <1>1, <1>3, <1>4, <1>5, <1>6, AssignAccept
<1>7. CASE ~Fits(c, b) BY <1>3, <1>7, RefusedAccept DEF Refusals
<1> QED BY <1>6, <1>7

LEMMA AssignNextAccept ==
    ASSUME PlacementInv, AcceptInv, AssignNext PROVE AcceptInv'
<1>1. phase = "assign" BY DEF AssignNext
<1>2. PICK c \in Unassigned :
          LET fitting == {b \in Bank : Fits(c, b)}
              cheapest == {b \in fitting : link.mode = "simple" \/
                              \A d \in fitting : Cut(c, b) <= Cut(c, d)}
          IN  IF fitting = {} THEN Refuse("full") ELSE Assign(c, Least(cheapest))
  BY DEF AssignNext
<1>3. c \in Item /\ place[c] = 0
  BY DEF Unassigned, Component, PlacementInv, PlacementTypeOK
<1>4. CASE {b \in Bank : Fits(c, b)} = {}
  BY <1>2, <1>4, RefusedAccept DEF Refusals
<1>5. CASE {b \in Bank : Fits(c, b)} # {}
  <2>1. PICK b \in Bank : Fits(c, b) /\ Assign(c, b)
    BY <1>2, <1>3, <1>5, CheapestFits
  <2> QED BY <1>1, <1>3, <2>1, AssignAccept
<1> QED BY <1>4, <1>5

LEMMA VisitAccept ==
    ASSUME PlacementInv, AcceptInv, Visit PROVE AcceptInv'
<1> DEFINE moves == IF next \in Component THEN Moves(next) ELSE {}
<1>1. phase = "search" /\ UNCHANGED <<link, phase, class>> BY DEF Visit
<1>2. IF moves = {} THEN UNCHANGED <<place, used>>
      ELSE \E b \in moves : place' = With(next, b) /\ used' = Ledger(next, b)
  BY DEF Visit
<1>3. CASE moves = {} BY <1>1, <1>2, <1>3, SameAccept
<1>4. CASE moves # {}
  <2>1. next \in Component /\ next \in Item
    BY <1>4 DEF Component, PlacementInv, PlacementTypeOK
  <2>2. PICK c \in Item : c = next BY <2>1
  <2>3. PICK b \in Moves(c) : place' = With(c, b) /\ used' = Ledger(c, b)
    BY <1>2, <1>4, <2>2
  <2>4. b \in Bank /\ b # place[c] /\ Fits(c, b) BY DEF Moves
  <2>5. place[c] \in Bank
    BY <1>1 DEF PlacementInv, PlacementTypeOK, PlaceInv, Settled
  <2>6. used \in [Bank -> Nat] BY DEF AcceptInv, LedgerInv
  <2>7. PICK m \in Nat : m = Bytes(Members(c))
    <3>1. Members(c) \in SUBSET DOMAIN Part BY DEF Members, Item
    <3> QED BY <3>1, BytesAdd DEF PlacementInv, PlacementTypeOK
  <2>8. used' = [used EXCEPT ![b] = @ + m, ![place[c]] = @ - m]
    BY <2>3, <2>7 DEF Ledger
  <2>9. /\ used' \in [Bank -> Int]
        /\ \A d \in Bank : used'[d] = used[d] + (IF d = b THEN m ELSE 0)
                                              - (IF d = place[c] THEN m ELSE 0)
    BY <2>4, <2>5, <2>6, <2>7, <2>8
  <2> QED BY <1>1, <2>3, <2>4, <2>7, <2>9, FitsAccept
<1> QED BY <1>3, <1>4

\* The parts of a bank and the tables are sequences.
LEMMA PartsSeq ==
    ASSUME link \in Link, NEW b, NEW s, s = PartsIn(Part, b, place)
    PROVE  s \o <<>> = s /\ \E X : s \in Seq(X)
<1>1. Part \in Seq(PartType) BY LinkAssumption DEF LinkType, Part
<1>2. PICK n \in Nat : n = Len(Part) /\ DOMAIN Part = 1..n BY <1>1
<1>3. PICK X : X = {s[k] : k \in 1..n} OBVIOUS
<1>4. DOMAIN s = 1..n /\ s = [k \in 1..n |-> s[k]] BY <1>2 DEF PartsIn
<1>5. s \in [1..n -> X] BY <1>3, <1>4
<1>6. s \in Seq(X) BY <1>5
<1> QED BY <1>6

\* What fits in the dry run fits in the order of the layout, up to the tables of
\* the full startup.
LEMMA TrialLaid ==
    ASSUME link \in Link, TrialFits(place)
    PROVE  /\ \A b \in Bank : Laid("dry", link.region[b], PartsIn(Part, b, place) \o <<>>)
           /\ link.startup # "full" =>
                 Laid("dry", link.region[link.tableBank],
                      PartsIn(Part, link.tableBank, place) \o Tables)
<1> DEFINE X == ShapeType \cup {Plain(n) : n \in Nat}
<1>1. /\ Part \in Seq(PartType) /\ link.tableBank \in Bank
      /\ link.table.copy \in 1..Top /\ link.table.zero \in 1..Top /\ link.table.init \in 1..Top
      /\ link.startup \in {"simple", "data", "full"}
      /\ link.region \in [Bank -> RegionType]
  BY LinkAssumption DEF LinkType, Part
<1>2. Top \in Nat BY WidthAssumption
<1>3. ASSUME NEW b \in Bank, NEW s, s = PartsIn(Part, b, place)
      PROVE  s \in Seq(X) /\ \A k \in 1..Len(s) : PartShape(s[k])
  <2>1. PICK n \in Nat : n = Len(Part) /\ DOMAIN Part = 1..n BY <1>1
  <2>2. \A k \in 1..n : Part[k].shape \in ShapeType /\ IsFiniteSet(Part[k].shape.branches)
    <3> SUFFICES ASSUME NEW k \in 1..n
                 PROVE  Part[k].shape \in ShapeType /\ IsFiniteSet(Part[k].shape.branches)
      OBVIOUS
    <3>1. PICK x \in PartType : x = Part[k] BY <1>1, <2>1
    <3>2. x.shape \in ShapeType BY DEF PartType
    <3>3. IsFiniteSet(Part[k].shape.branches) BY <2>1, LinkAssumption DEF Part, Placeable
    <3> QED BY <3>1, <3>2, <3>3
  <2>3. s = [k \in 1..n |-> IF (IF Part[k].text THEN place[k] = b ELSE Part[k].bank = b)
                            THEN Part[k].shape ELSE Plain(0)]
    BY <1>3, <2>1 DEF PartsIn
  <2>4. \A k \in 1..n : s[k] \in X /\ (s[k] = Part[k].shape \/ s[k] = Plain(0))
    BY <2>2, <2>3
  <2>5. ~(Plain(0).size > 0) BY DEF Plain
  <2>6. \A k \in 1..n : PartShape(s[k]) BY <2>2, <2>4, <2>5 DEF PartShape
  <2> HIDE DEF X
  <2>7. s = [k \in 1..n |-> s[k]] BY <2>3
  <2>8. s \in Seq(X)
    <3>1. s \in [1..n -> X] BY <2>4, <2>7
    <3> QED BY <3>1
  <2>9. Len(s) = n BY <2>3
  <2> QED BY <2>6, <2>8, <2>9
<1>4. DryTables \in Seq(X) /\ <<>> \in Seq(X)
  BY <1>1, <1>2 DEF DryTables
<1> HIDE DEF X
<1>5. ASSUME NEW b \in Bank, NEW s, s = PartsIn(Part, b, place)
      PROVE  /\ Laid("dry", link.region[b], s \o (IF b = link.tableBank THEN DryTables ELSE <<>>))
             /\ Laid("dry", link.region[b], s)
             /\ s \o <<>> = s
  <2>1. PICK r : r = link.region[b] OBVIOUS
  <2>2. PICK t \in Seq(X) : t = IF b = link.tableBank THEN DryTables ELSE <<>>
    BY <1>4
  <2>3. Laid("dry", r, s \o t) BY <1>5, <2>1, <2>2 DEF TrialFits
  <2>4. s \in Seq(X) BY <1>3, <1>5
  <2>5. Laid("dry", r, s) BY <2>2, <2>3, <2>4, LaidFirst
  <2> QED BY <2>1, <2>2, <2>3, <2>4, <2>5
<1>6. ASSUME link.startup # "full"
      PROVE  Laid("dry", link.region[link.tableBank], PartsIn(Part, link.tableBank, place) \o Tables)
  <2>1. PICK b \in Bank : b = link.tableBank BY <1>1
  <2>2. PICK s : s = PartsIn(Part, b, place) OBVIOUS
  <2>3. PICK r \in RegionType : r = link.region[b] BY <1>1
  <2>4. s \in Seq(X) /\ \A k \in 1..Len(s) : PartShape(s[k]) BY <1>3, <2>2
  <2>5. CASE link.startup = "simple"
    <3>1. Tables = <<>> BY <2>5 DEF Tables
    <3> QED BY <1>5, <2>1, <2>2, <3>1
  <2>6. CASE link.startup = "data"
    <3>1. Tables = <<Plain(link.table.copy), Plain(link.table.init)>> BY <2>6 DEF Tables
    <3>2. PICK x, z, y \in 1..Top : x = link.table.copy /\ z = link.table.zero
                                   /\ y = link.table.init
      BY <1>1
    <3>3. Laid("dry", r, s \o <<Plain(x), Plain(z), Plain(y)>>)
      BY <1>5, <2>1, <2>2, <2>3, <3>2 DEF DryTables
    <3>4. r.bank = 0 /\ r.start <= Top
      <4>1. /\ link.region[b].bank = 0 /\ link.region[b].start < link.region[b].end
            /\ link.region[b].end <= Top
        BY LinkAssumption
      <4> QED BY <4>1, <2>3, <1>2 DEF RegionType
    <3>5. Laid("dry", r, s \o <<Plain(x), Plain(y)>>) BY <2>4, <3>2, <3>3, <3>4, LaidWithout
    <3> QED BY <2>1, <2>2, <2>3, <3>1, <3>2, <3>5
  <2> QED BY <1>1, <1>6, <2>5, <2>6
<1> QED BY <1>5, <1>6

\* What layout_objects answers where the dry run has fitted: a part is refused for a
\* branch out of its layout, or not at all.
LEMMA RealParts ==
    ASSUME link \in Link, TrialFits(place), place \in [Item -> Bank],
           NEW k \in DOMAIN Part
    PROVE  /\ Answered(k) \subseteq {"placed", "scope"}
           /\ "scope" \in Answered(k) => \E i \in Item : OutOfScope(Part[i].shape)
           /\ k \in Item /\ OutOfScope(Part[k].shape) => "scope" \in Answered(k)
<1>1. Part \in Seq(PartType) BY LinkAssumption DEF LinkType, Part
<1>2. PICK n \in Nat : n = Len(Part) /\ DOMAIN Part = 1..n BY <1>1
<1>3. ASSUME NEW i \in 1..n
      PROVE  /\ Part[i].shape.size > 0
             /\ OutOfScope(Part[i].shape) => i \in Item
  <2>1. PICK x \in PartType : x = Part[i] BY <1>1, <1>2
  <2>2. x.shape \in ShapeType BY DEF PartType
  <2>3. x.shape.size > 0 BY <2>2, WidthAssumption DEF ShapeType
  <2>4. Placeable(x) BY <1>2, <2>1, LinkAssumption DEF Part
  <2>5. x.text \/ x.shape.branches = {} BY <2>4 DEF Placeable, Plain
  <2>6. OutOfScope(x.shape) => x.text BY <2>5 DEF OutOfScope
  <2> QED BY <1>2, <2>1, <2>3, <2>6 DEF Item
<1>4. ASSUME NEW b \in Bank, NEW s, s = PartsIn(Part, b, place)
      PROVE  IF OutIn(s, k) THEN Answers("real", link.region[b], s)[k].answer = "scope"
             ELSE Answers("real", link.region[b], s)[k].answer = "placed"
  <2>1. Len(s) = n BY <1>2, <1>4 DEF PartsIn
  <2>2. Laid("dry", link.region[b], s)
    <3>1. Laid("dry", link.region[b], s \o <<>>) BY <1>4, TrialLaid
    <3> QED BY <3>1, <1>4, PartsSeq
  <2>3. k \in 0..Len(s) /\ Len(s) \in Nat BY <1>2, <2>1
  <2> QED BY <2>2, <2>3, RealAnswers
<1>5. ASSUME NEW b \in Bank, NEW s, s = PartsIn(Part, b, place), OutIn(s, k)
      PROVE  \E i \in Item : OutOfScope(Part[i].shape)
  <2>1. PICK j \in 1..k : s[j].size > 0 /\ OutOfScope(s[j]) BY <1>5 DEF OutIn
  <2>2. j \in 1..n BY <1>2
  <2>3. s[j] = Part[j].shape \/ s[j] = Plain(0) BY <1>2, <1>5, <2>2 DEF PartsIn
  <2>4. s[j] = Part[j].shape BY <2>1, <2>3 DEF OutOfScope, Plain
  <2> QED BY <1>3, <2>1, <2>2, <2>4
<1>6. ASSUME k \in Item, OutOfScope(Part[k].shape),
             NEW s, s = PartsIn(Part, place[k], place)
      PROVE  OutIn(s, k)
  <2>1. k \in 1..n /\ Part[k].text BY <1>2, <1>6 DEF Item
  <2>2. s[k] = Part[k].shape BY <1>2, <1>6, <2>1 DEF PartsIn
  <2>3. k \in 1..k BY <2>1
  <2> QED BY <1>3, <1>6, <2>1, <2>2, <2>3 DEF OutIn
<1>7. Answered(k) \subseteq {"placed", "scope"} BY <1>4 DEF Answered
<1>8. ASSUME "scope" \in Answered(k) PROVE \E i \in Item : OutOfScope(Part[i].shape)
  <2>1. PICK b \in Bank :
            Answers("real", link.region[b], PartsIn(Part, b, place))[k].answer = "scope"
    BY <1>8 DEF Answered
  <2>2. PICK s : s = PartsIn(Part, b, place) OBVIOUS
  <2>3. OutIn(s, k) BY <1>4, <2>1, <2>2
  <2> QED BY <1>5, <2>2, <2>3
<1>9. ASSUME k \in Item, OutOfScope(Part[k].shape) PROVE "scope" \in Answered(k)
  <2>1. PICK b \in Bank : b = place[k] BY <1>9
  <2>2. PICK s : s = PartsIn(Part, b, place) OBVIOUS
  <2>3. OutIn(s, k) BY <1>6, <1>9, <2>1, <2>2
  <2>4. Answers("real", link.region[b], s)[k].answer = "scope" BY <1>4, <2>2, <2>3
  <2> QED BY <2>2, <2>4 DEF Answered
<1> QED BY <1>7, <1>8, <1>9

\* The tables find their room if no part is refused.
LEMMA RealTables ==
    ASSUME link \in Link, TrialFits(place), link.startup # "full",
           \A i \in Item : ~OutOfScope(Part[i].shape)
    PROVE  Laid("real", link.region[link.tableBank],
                PartsIn(Part, link.tableBank, place) \o Tables)
<1>1. /\ Part \in Seq(PartType) /\ link.startup \in {"simple", "data", "full"}
      /\ link.tableBank \in Bank
  BY LinkAssumption DEF LinkType, Part
<1>2. PICK s : s = PartsIn(Part, link.tableBank, place) OBVIOUS
<1>3. PICK u : u = s \o Tables OBVIOUS
<1>4. PICK n \in Nat : n = Len(Part) /\ DOMAIN Part = 1..n BY <1>1
<1>5. /\ Len(s) = n /\ DOMAIN s = 1..n
      /\ \A j \in 1..n : s[j] = Part[j].shape \/ s[j] = Plain(0)
  BY <1>2, <1>4 DEF PartsIn
<1>6. \A j \in 1..n : ~OutOfScope(s[j])
  <2> SUFFICES ASSUME NEW j \in 1..n PROVE ~OutOfScope(s[j]) OBVIOUS
  <2>1. PICK x : x = Part[j] OBVIOUS
  <2>2. x.text => ~OutOfScope(x.shape) BY <1>4, <2>1 DEF Item
  <2>3. Placeable(x) BY <1>4, <2>1, LinkAssumption DEF Part
  <2>4. x.text \/ x.shape.branches = {} BY <2>3 DEF Placeable, Plain
  <2>5. Plain(0).branches = {} BY DEF Plain
  <2> QED BY <1>5, <2>1, <2>2, <2>4, <2>5 DEF OutOfScope
<1>7. PICK X : s \in Seq(X) /\ s \o <<>> = s BY <1>2, PartsSeq
<1>8. Len(u) \in Nat /\ \A j \in 1..Len(u) : ~OutOfScope(u[j])
  <2>1. CASE link.startup = "simple"
    <3>1. u = s BY <1>3, <1>7, <2>1 DEF Tables
    <3> QED BY <1>4, <1>5, <1>6, <3>1
  <2>2. CASE link.startup = "data"
    <3>1. PICK x, y : Tables = <<Plain(x), Plain(y)>> BY <2>2 DEF Tables
    <3>2. /\ Len(u) = n + 2 /\ \A j \in 1..n : u[j] = s[j]
          /\ u[n + 1] = Plain(x) /\ u[n + 2] = Plain(y)
      <4>1. PICK p, q : p = Plain(x) /\ q = Plain(y) OBVIOUS
      <4>2. PICK Z : Z = X \cup {p, q} OBVIOUS
      <4>3. s \in Seq(Z) BY <1>7, <4>2
      <4>4. <<p, q>> \in Seq(Z) BY <4>2
      <4>5. u = s \o <<p, q>> BY <1>3, <3>1, <4>1
      <4>6. /\ Len(u) = Len(s) + 2 /\ \A j \in 1..Len(s) : u[j] = s[j]
            /\ u[Len(s) + 1] = p /\ u[Len(s) + 2] = q
        BY <4>3, <4>5
      <4> QED BY <1>5, <4>1, <4>6
    <3>3. \A z : ~OutOfScope(Plain(z)) BY DEF OutOfScope, Plain
    <3>4. \A j \in 1..(n + 2) : j \in 1..n \/ j = n + 1 \/ j = n + 2 OBVIOUS
    <3>5. \A j \in 1..(n + 2) : ~OutOfScope(u[j]) BY <1>6, <3>2, <3>3, <3>4
    <3> QED BY <1>4, <3>2, <3>5
  <2> QED BY <1>1, <2>1, <2>2
<1>9. Laid("dry", link.region[link.tableBank], u) BY <1>2, <1>3, TrialLaid
<1>10. ~OutIn(u, Len(u)) BY <1>8 DEF OutIn
<1>11. Len(u) \in 0..Len(u) BY <1>8
<1>12. PICK r : r = link.region[link.tableBank] OBVIOUS
<1>13. Laid("dry", r, u) BY <1>9, <1>12
<1>14. Answers("real", r, u)[Len(u)].answer = "placed"
  BY <1>8, <1>10, <1>11, <1>13, RealAnswers
<1>15. Laid("real", r, u) BY <1>14 DEF Laid
<1> QED BY <1>2, <1>3, <1>12, <1>15

\* What was dry-run last is what layout_objects allocates.
LEMMA LayOutAccept ==
    ASSUME PlacementInv, AcceptInv, LayOut PROVE AcceptInv'
<1>1. /\ phase = "placed" /\ phase' \in {"recursive"} \cup Ends
      /\ UNCHANGED <<link, next, pin, allowed, class, place, used, changed, depth>>
  BY DEF LayOut, Ends
<1>2. CASE phase' = "recursive"
  <2>1. Refuse("recursive") BY <1>1, <1>2 DEF Refuse
  <2> QED BY <2>1, RefusedAccept DEF Refusals
<1>3. CASE phase' \in Ends
  <2>1. Item' = Item /\ Part' = Part BY <1>1, LedgerStays
  <2>2. LedgerInv'
    <3>1. phase \in Later BY <1>1 DEF Later
    <3> QED BY <1>1, <3>1, LedgerSame DEF AcceptInv
  <2>3. TrialInv'
    <3>1. phase' \notin {"assign", "search", "placed"} BY <1>3 DEF Ends
    <3> DEFINE Out == \E i \in Item : OutOfScope(Part[i].shape)
               refused == {k \in DOMAIN Part : Answered(k) # {"placed"}}
               tables == Laid("real", link.region[link.tableBank],
                              PartsIn(Part, link.tableBank, place) \o Tables)
    <3>2. Out' <=> Out BY <2>1
    <3> SUFFICES ASSUME Item # {}
                 PROVE  /\ phase' # "parts overflow"
                        /\ phase' = "tables overflow" => link.startup = "full"
                        /\ phase' = "scope" <=> Out
      BY <1>1, <2>1, <3>1, <3>2 DEF TrialInv
    <3>3. /\ TrialFits(place) /\ link \in Link
          /\ place \in [Item -> {0} \cup Bank] /\ \A i \in Item : place[i] # 0
      BY <1>1 DEF AcceptInv, TrialInv, PlacementInv, PlaceInv, PlacementTypeOK, Settled
    <3>4. place \in [Item -> Bank] BY <3>3
    <3>5. \A k \in DOMAIN Part :
             /\ Answered(k) \subseteq {"placed", "scope"}
             /\ "scope" \in Answered(k) => Out
             /\ k \in Item /\ OutOfScope(Part[k].shape) => "scope" \in Answered(k)
      BY <3>3, <3>4, RealParts
    <3>6. phase' = IF refused # {}
                   THEN IF "scope" \in Answered(Least(refused)) THEN "scope"
                        ELSE "parts overflow"
                   ELSE IF ~tables THEN "tables overflow" ELSE "laid out"
      BY <1>3 DEF LayOut, Ends
    <3>7. CASE refused # {}
      <4>1. refused \in SUBSET Nat
        <5>1. Part \in Seq(PartType) BY <3>3, LinkAssumption DEF LinkType, Part
        <5>2. DOMAIN Part \subseteq Nat BY <5>1
        <5> QED BY <5>2
      <4>2. PICK k \in DOMAIN Part : k = Least(refused) /\ Answered(k) # {"placed"}
        <5> HIDE DEF refused
        <5>1. Least(refused) \in refused BY <3>7, <4>1, LeastOf
        <5> QED BY <5>1 DEF refused
      <4>3. Answered(k) # {} BY BankAssumption DEF Answered, Bank
      <4>4. "scope" \in Answered(k) BY <3>5, <4>2, <4>3
      <4>5. phase' = "scope" BY <3>6, <3>7, <4>2, <4>4
      <4> QED BY <3>5, <4>4, <4>5
    <3>8. CASE refused = {}
      <4>1. ~Out
        <5> SUFFICES ASSUME NEW i \in Item, OutOfScope(Part[i].shape) PROVE FALSE
          OBVIOUS
        <5>1. i \in DOMAIN Part BY DEF Item
        <5>2. "scope" \in Answered(i) BY <3>5, <5>1
        <5> QED BY <3>8, <5>1, <5>2
      <4>2. link.startup # "full" => tables BY <3>3, <4>1, RealTables
      <4> QED BY <3>6, <3>8, <4>1, <4>2
    <3> QED BY <3>7, <3>8
  <2> QED BY <2>2, <2>3 DEF AcceptInv
<1> QED BY <1>1, <1>2, <1>3

LEMMA AcceptInvHolds == Spec => []AcceptInv
<1>1. Init => AcceptInv
  <2> SUFFICES ASSUME Init PROVE AcceptInv OBVIOUS
  <2>1. phase = "collect" /\ used = [b \in Bank |-> 0] BY DEF Init
  <2>2. phase \notin Later BY <2>1 DEF Later, Ends
  <2>3. phase \notin {"assign", "search", "placed"} \cup Ends BY <2>2 DEF Later
  <2> QED BY <2>1, <2>2, <2>3 DEF AcceptInv, LedgerInv, TrialInv
<1>2. PlacementInv /\ AcceptInv /\ [Next]_vars => AcceptInv'
  <2> SUFFICES ASSUME PlacementInv, AcceptInv, [Next]_vars PROVE AcceptInv' OBVIOUS
  <2>1. CASE Collect
    <3>1. CASE Refuse("misplaced") BY <3>1, RefusedAccept DEF Refusals
    <3>2. CASE phase' = "classify" /\ UNCHANGED <<link, used>>
      BY <3>2, NotYet DEF Later, Ends
    <3> QED BY <2>1, <3>1, <3>2 DEF Collect
  <2>2. CASE SoftRef \/ ReplicaRef \/ ItemRef \/ ImageRef \/ AbsoluteRef BY <2>2, RefAccept
  <2>3. CASE Collapse BY <2>3, CollapseAccept
  <2>4. CASE AssignPinned BY <2>4, AssignPinnedAccept
  <2>5. CASE AssignNext BY <2>5, AssignNextAccept
  <2>6. CASE StartSearch
    <3>1. CASE Refuse("recursive") BY <3>1, RefusedAccept DEF Refusals
    <3>2. CASE phase = "assign" /\ phase' \in {"placed", "search"}
                 /\ UNCHANGED <<link, place, used>>
      BY <3>2, SameAccept
    <3> QED BY <2>6, <3>1, <3>2 DEF StartSearch
  <2>7. CASE Visit BY <2>7, VisitAccept
  <2>8. CASE EndRound
    <3>1. phase = "search" /\ phase' \in {"placed", "search"} /\ UNCHANGED <<link, place, used>>
      BY <2>8 DEF EndRound
    <3> QED BY <3>1, SameAccept
  <2>9. CASE LayOut BY <2>9, LayOutAccept
  <2>10. CASE Finished \/ UNCHANGED vars
    <3>1. UNCHANGED <<link, phase, place, used>> BY <2>10 DEF Finished, vars
    <3>2. Item' = Item /\ Part' = Part BY <3>1 DEF Item, Part
    <3>3. LedgerInv' BY <3>1, LedgerSame DEF AcceptInv
    <3>4. TrialFits(place)' = TrialFits(place)
      BY <3>1, <3>2 DEF TrialFits, DryTables
    <3>5. (\E i \in Item : OutOfScope(Part[i].shape))'
             <=> \E i \in Item : OutOfScope(Part[i].shape)
      BY <3>2
    <3>6. TrialInv' BY <3>1, <3>2, <3>4, <3>5 DEF AcceptInv, TrialInv
    <3> QED BY <3>3, <3>6 DEF AcceptInv
  <2> QED
    BY <2>1, <2>2, <2>3, <2>4, <2>5, <2>6, <2>7, <2>8, <2>9, <2>10 DEF Next
<1> QED BY <1>1, <1>2, PlacementInvHolds, PTL DEF Spec

\* For every link the ledger agrees with the placement and no bank gives more
\* than it has; and if there was anything to assign, what was accepted finds room
\* in the layout, up to the tables of the full startup, and is refused for a .same
\* or .cross branch if and only if one leaves its layout (bank_placement_trial_fits,
\* layout_objects, validate_layout_hard_branch_scope).
THEOREM AcceptedIsLaidOutHolds == Spec => []AcceptedIsLaidOut
<1>1. AcceptInv => AcceptedIsLaidOut
  <2>1. Settled => phase \in Later BY DEF Settled, Later
  <2> QED BY <2>1 DEF AcceptInv, LedgerInv, TrialInv, AcceptedIsLaidOut, LedgerAgrees
<1> QED BY <1>1, AcceptInvHolds, PTL
=============================================================================
