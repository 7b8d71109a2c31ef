----------------------------- MODULE UnitProofs -----------------------------
(***************************************************************************)
(* What is done with one translation unit before it is linked.             *)
(*                                                                         *)
(* Leases taken and given back in any order that the compiler does not     *)
(* refuse have their slots to themselves, in storage that is large enough  *)
(* and overlaid in their own phases only.  The nesting of an arena is the  *)
(* set of slots its leases hold; giving back none but the last of them     *)
(* keeps it so.  What was used of a slot is either measured already or     *)
(* reserved by its present holder, and the phases of a slot are joined     *)
(* when it is acquired, before any use.                                    *)
(*                                                                         *)
(* What the assembler writes is tight, aligned wherever it is placed, and  *)
(* has branches that reach.  A pass is known by its offsets, one statement *)
(* after the other (IsPass); that gives what shrinking does to a distance  *)
(* and that the choice of a residue measures the pass it leads to.         *)
(***************************************************************************)
EXTENDS ScratchLease, AsmRelax, SequenceTheorems, WellFoundedInduction, TLAPS

-----------------------------------------------------------------------------
(* The compiler's scratch leases. *)

LEMMA LargerType ==
    ASSUME NEW m \in Size, NEW n \in Size
    PROVE  Larger(m, n) \in Size /\ Larger(m, n) >= m /\ Larger(m, n) >= n
BY BoundsAssumption DEF Size, Larger

-----------------------------------------------------------------------------
\* A slot in use was created.
NestingCreated == \A a \in Arena : depth[a] <= slotCount[a]

\* What was used of a slot is measured, or reserved by its holder.
Measure(a, i) == uses[a][i].bytes <= slots[a][i].size
Reservation(a, i) ==
    \E l \in HeldIn(a) : lease[l].slot = i /\ uses[a][i].bytes <= lease[l].reserved
UsesBacked ==
    \A a \in Arena, i \in Slot :
        /\ Measure(a, i) \/ Reservation(a, i)
        /\ uses[a][i].by # {} => i <= slotCount[a]

\* The phases of everyone who used or holds an eligible slot are recorded.
InPhase(s, c) == PhaseOf[c] # {} /\ PhaseOf[c] \subseteq s.mask
PhasesRecorded ==
    \A a \in Arena, i \in Slot :
        slots[a][i].eligible =>
            /\ \A c \in uses[a][i].by : InPhase(slots[a][i], c)
            /\ \A l \in HeldIn(a) :
                  lease[l].slot = i => InPhase(slots[a][i], lease[l].ctx)

LeaseInv == /\ LeaseTypeOK
            /\ SlotsHaveOneHolder
            /\ ActiveAreHeld
            /\ NestingCreated
            /\ UsesBacked
            /\ PhasesRecorded

LEMMA LeaseInit == Init => LeaseInv
<1> SUFFICES ASSUME Init PROVE LeaseInv OBVIOUS
<1> USE DEF Init
<1>1. Held = {} BY DEF Held
<1>2. \A a : HeldIn(a) = {} BY <1>1 DEF HeldIn
<1>3. LeaseTypeOK
  <2>1. 0 \in Size /\ 0 \in 0..MaxSlots /\ 0 \in 0..MaxAcquires
    BY BoundsAssumption DEF Size
  <2>2. [size |-> 0, eligible |-> FALSE, mask |-> {}] \in SlotState
    BY <2>1 DEF SlotState
  <2>3. [by |-> {}, bytes |-> 0] \in Usage BY <2>1 DEF Usage
  <2>4. lease \in [Held -> LeaseState] BY <1>1 DEF Held
  <2>5. active \in Seq(Lease) /\ Len(active) = 0 OBVIOUS
  <2> QED BY <1>1, <2>1, <2>2, <2>3, <2>4, <2>5, BoundsAssumption DEF LeaseTypeOK
<1>4. SlotsHaveOneHolder
  BY <1>2 DEF SlotsHaveOneHolder
<1>5. ActiveAreHeld BY DEF ActiveAreHeld
<1>6. NestingCreated BY DEF NestingCreated
<1>7. UsesBacked BY DEF UsesBacked, Measure
<1>8. PhasesRecorded BY DEF PhasesRecorded
<1> QED BY <1>3, <1>4, <1>5, <1>6, <1>7, <1>8 DEF LeaseInv

-----------------------------------------------------------------------------
\* What the types say of one held lease.
LEMMA HeldLease ==
    ASSUME LeaseInv, NEW l \in Held
    PROVE  /\ l \in Lease /\ lease[l] \in LeaseState
           /\ lease[l].ctx \in Context /\ lease[l].slot \in Slot
           /\ ArenaAt(l) \in Arena /\ l \in HeldIn(ArenaAt(l))
           /\ depth[ArenaAt(l)] \in 0..MaxSlots
           /\ lease[l].slot \in 1..depth[ArenaAt(l)]
<1>1. /\ l \in Lease /\ lease[l] \in LeaseState BY DEF LeaseInv, LeaseTypeOK
<1>2. lease[l].ctx \in Context /\ lease[l].slot \in Slot BY <1>1 DEF LeaseState
<1>3. ArenaAt(l) \in Arena BY <1>2, ContextsAssumption DEF ArenaAt
<1>4. l \in HeldIn(ArenaAt(l)) BY DEF HeldIn
<1>5. lease[l].slot \in 1..depth[ArenaAt(l)]
  BY <1>3, <1>4 DEF LeaseInv, SlotsHaveOneHolder
<1> QED BY <1>1, <1>2, <1>3, <1>4, <1>5 DEF LeaseInv, LeaseTypeOK

\* Steps that take or give back no lease may measure slots and widen leases.
LEMMA HoldersKept ==
    ASSUME LeaseInv, LeaseTypeOK', ActiveAreHeld',
           UNCHANGED <<depth, slotCount, uses>>, Held' = Held,
           \A l \in Held : /\ lease'[l].ctx = lease[l].ctx
                           /\ lease'[l].slot = lease[l].slot
                           /\ lease'[l].reserved >= lease[l].reserved,
           \A a \in Arena, i \in Slot :
               /\ slots'[a][i].size >= slots[a][i].size
               /\ slots'[a][i].eligible = slots[a][i].eligible
               /\ slots'[a][i].mask = slots[a][i].mask
    PROVE  LeaseInv'
<1>1. \A a : HeldIn(a)' = HeldIn(a) BY DEF HeldIn, ArenaAt
<1>2. \A a, l : l \in HeldIn(a) => l \in Held BY DEF HeldIn
<1>3. SlotsHaveOneHolder'
  BY <1>1, <1>2 DEF LeaseInv, SlotsHaveOneHolder
<1>4. NestingCreated' BY DEF LeaseInv, NestingCreated
<1>5. UsesBacked'
  <2> SUFFICES ASSUME NEW a \in Arena, NEW i \in Slot
               PROVE  /\ Measure(a, i)' \/ Reservation(a, i)'
                      /\ uses'[a][i].by # {} => i <= slotCount'[a]
    BY DEF UsesBacked
  <2>1. /\ Measure(a, i) \/ Reservation(a, i)
        /\ uses[a][i].by # {} => i <= slotCount[a]
    BY DEF LeaseInv, UsesBacked
  <2>2. /\ uses[a][i].bytes \in Nat /\ slots[a][i].size \in Nat
        /\ slots'[a][i].size \in Nat
    BY BoundsAssumption DEF LeaseInv, LeaseTypeOK, Usage, SlotState, Size
  <2>3. CASE Measure(a, i) BY <2>1, <2>2, <2>3 DEF Measure
  <2>4. CASE Reservation(a, i)
    <3>1. PICK l \in HeldIn(a) :
             lease[l].slot = i /\ uses[a][i].bytes <= lease[l].reserved
      BY <2>4 DEF Reservation
    <3>2. lease[l].reserved \in Nat /\ lease'[l].reserved \in Nat
      BY <1>2, <3>1, BoundsAssumption DEF LeaseInv, LeaseTypeOK, LeaseState, Size
    <3> QED BY <1>1, <1>2, <2>1, <2>2, <3>1, <3>2 DEF Reservation
  <2> QED BY <2>1, <2>3, <2>4
<1>6. PhasesRecorded'
  BY <1>1, <1>2 DEF LeaseInv, PhasesRecorded, InPhase
<1> QED BY <1>3, <1>4, <1>5, <1>6 DEF LeaseInv

\* The same, when nothing is measured or widened either.
LEMMA SlotsUntouched ==
    ASSUME LeaseInv, LeaseTypeOK', ActiveAreHeld',
           UNCHANGED <<depth, slotCount, slots, lease, uses>>
    PROVE  LeaseInv'
<1>1. Held' = Held BY DEF Held
<1>2. \A l \in Held : lease[l].reserved \in Nat
  BY BoundsAssumption DEF LeaseInv, LeaseTypeOK, LeaseState, Size
<1>3. \A a \in Arena, i \in Slot : slots[a][i].size \in Nat
  BY BoundsAssumption DEF LeaseInv, LeaseTypeOK, SlotState, Size
<1> QED BY <1>1, <1>2, <1>3, HoldersKept

\* What a measurement does to the slots.
LEMMA MeasuredSlots ==
    ASSUME LeaseInv, NEW l \in Held, NEW bytes \in Size
    PROVE  LET n == Noted(lease[l], bytes)
               m == Measured(l, bytes)
           IN /\ n \in Size /\ n >= lease[l].reserved
              /\ m \in [Arena -> [Slot -> SlotState]]
              /\ m[ArenaAt(l)][lease[l].slot].size >= n
              /\ \A a \in Arena, i \in Slot :
                    /\ m[a][i].size >= slots[a][i].size
                    /\ m[a][i].eligible = slots[a][i].eligible
                    /\ m[a][i].mask = slots[a][i].mask
<1> DEFINE n == Noted(lease[l], bytes)
           m == Measured(l, bytes)
           b == ArenaAt(l)
           k == lease[l].slot
<1>1. /\ b \in Arena /\ k \in Slot
      /\ lease[l].used \in Size /\ lease[l].reserved \in Size
  BY HeldLease DEF LeaseState
<1>2. n \in Size /\ n >= lease[l].reserved
  <2>1. Larger(bytes, lease[l].reserved) \in Size
        /\ Larger(bytes, lease[l].reserved) >= lease[l].reserved
    BY <1>1, LargerType
  <2>2. n \in Size /\ n >= Larger(bytes, lease[l].reserved)
    BY <1>1, <2>1, LargerType DEF Noted
  <2> QED BY <1>1, <2>1, <2>2, BoundsAssumption DEF Size
<1>3. slots \in [Arena -> [Slot -> SlotState]] BY DEF LeaseInv, LeaseTypeOK
<1>4. \A a \in Arena, i \in Slot : slots[a][i] \in SlotState /\ slots[a][i].size \in Size
  BY <1>3 DEF SlotState
<1>5. Larger(slots[b][k].size, n) \in Size
      /\ Larger(slots[b][k].size, n) >= slots[b][k].size
      /\ Larger(slots[b][k].size, n) >= n
  BY <1>1, <1>2, <1>4, LargerType
<1> DEFINE v == Larger(slots[b][k].size, n)
<1>6. m = [slots EXCEPT ![b][k].size = v] BY DEF Measured
<1> HIDE DEF n, v
<1>7. m = [slots EXCEPT ![b] = [slots[b] EXCEPT ![k] = [slots[b][k] EXCEPT !.size = v]]]
  BY <1>1, <1>3, <1>6
<1>8. /\ [slots[b][k] EXCEPT !.size = v] \in SlotState
      /\ [slots[b][k] EXCEPT !.size = v].size = v
      /\ [slots[b][k] EXCEPT !.size = v].eligible = slots[b][k].eligible
      /\ [slots[b][k] EXCEPT !.size = v].mask = slots[b][k].mask
  BY <1>1, <1>4, <1>5 DEF SlotState, v
<1> DEFINE r == [slots[b][k] EXCEPT !.size = v]
<1> HIDE DEF r, m
<1>9. m \in [Arena -> [Slot -> SlotState]]
  BY <1>1, <1>3, <1>7, <1>8 DEF r
<1>10. m[b][k] = r BY <1>1, <1>3, <1>7 DEF r
<1>11. \A a \in Arena, i \in Slot : (a # b \/ i # k) => m[a][i] = slots[a][i]
  BY <1>1, <1>3, <1>7
<1>12. m[b][k].size >= n BY <1>5, <1>8, <1>10 DEF r, v
<1>13. ASSUME NEW a \in Arena, NEW i \in Slot
       PROVE  /\ m[a][i].size >= slots[a][i].size
              /\ m[a][i].eligible = slots[a][i].eligible
              /\ m[a][i].mask = slots[a][i].mask
  <2>1. CASE a = b /\ i = k BY <1>5, <1>8, <1>10, <2>1 DEF r, v
  <2>2. CASE a # b \/ i # k
    BY <1>4, <1>11, <2>2, BoundsAssumption DEF Size
  <2> QED BY <2>1, <2>2
<1> QED BY <1>2, <1>9, <1>12, <1>13 DEF n, m

LEMMA ActivateKeepsInv ==
    ASSUME LeaseInv, NEW l \in Lease, Activate(l)
    PROVE  LeaseInv'
<1>1. /\ l \in Held /\ ~IsActive(l) /\ Len(active) < MaxSlots
      /\ active' = Append(active, l)
      /\ highWater' = [highWater EXCEPT ![lease[l].ctx] = lease[l].reserved]
      /\ UNCHANGED <<status, depth, slotCount, slots, lease, acquired, uses>>
  BY DEF Activate, MayActivate
<1>2. active \in Seq(Lease) /\ Len(active) \in Nat
      /\ DOMAIN active = 1..Len(active)
  BY DEF LeaseInv, LeaseTypeOK
<1>3. /\ active' \in Seq(Lease) /\ Len(active') = Len(active) + 1
      /\ \A i \in 1..Len(active) : active'[i] = active[i]
      /\ active'[Len(active) + 1] = l
      /\ DOMAIN active' = 1..(Len(active) + 1)
  BY <1>1, <1>2
<1>4. LeaseTypeOK'
  <2>1. lease[l].reserved \in Size BY <1>1, HeldLease DEF LeaseState
  <2>2. highWater' \in [Context -> Size] BY <1>1, <2>1 DEF LeaseInv, LeaseTypeOK
  <2>3. Held' = Held BY <1>1 DEF Held
  <2> QED BY <1>1, <1>2, <1>3, <2>2, <2>3, BoundsAssumption DEF LeaseInv, LeaseTypeOK
<1>5. ActiveAreHeld'
  <2>1. Held' = Held BY <1>1 DEF Held
  <2>2. \A i \in 1..Len(active) : active[i] # l BY <1>1, <1>2 DEF IsActive
  <2>3. \A i \in 1..(Len(active) + 1) : i \in 1..Len(active) \/ i = Len(active) + 1
    BY <1>2
  <2> QED BY <1>1, <1>2, <1>3, <2>1, <2>2, <2>3 DEF LeaseInv, ActiveAreHeld
<1> QED BY <1>1, <1>4, <1>5, SlotsUntouched

LEMMA WidenKeepsInv ==
    ASSUME LeaseInv, NEW l \in Lease, NEW bytes \in Size, Widen(l, bytes)
    PROVE  LeaseInv'
<1>1. /\ l \in Held /\ bytes > lease[l].reserved
      /\ lease' = [lease EXCEPT ![l].reserved = bytes]
      /\ UNCHANGED <<status, depth, slotCount, slots, active, highWater,
                     acquired, uses>>
  BY DEF Widen
<1>2. lease \in [Held -> LeaseState] BY DEF LeaseInv, LeaseTypeOK
<1>3. Held' = Held BY <1>1 DEF Held
<1>4. \A m \in Held : lease'[m] = IF m = l THEN [lease[m] EXCEPT !.reserved = bytes]
                                  ELSE lease[m]
  BY <1>1, <1>2
<1>5. \A m \in Held : /\ lease'[m] \in LeaseState /\ lease[m].reserved \in Nat
                      /\ lease'[m].ctx = lease[m].ctx
                      /\ lease'[m].slot = lease[m].slot
                      /\ lease'[m].reserved >= lease[m].reserved
  BY <1>1, <1>2, <1>4, BoundsAssumption DEF LeaseState, Size
<1>6. lease' \in [Held -> LeaseState] BY <1>1, <1>2, <1>5
<1>7. LeaseTypeOK' BY <1>1, <1>3, <1>6 DEF LeaseInv, LeaseTypeOK
<1>8. ActiveAreHeld' BY <1>1, <1>3 DEF LeaseInv, ActiveAreHeld
<1>9. \A a \in Arena, i \in Slot : slots[a][i].size \in Nat
  BY BoundsAssumption DEF LeaseInv, LeaseTypeOK, SlotState, Size
<1> QED BY <1>1, <1>3, <1>5, <1>7, <1>8, <1>9, HoldersKept

LEMMA DeactivateKeepsInv ==
    ASSUME LeaseInv, NEW l \in Lease, Deactivate(l)
    PROVE  LeaseInv'
<1> DEFINE c == lease[l].ctx
           n == Noted(lease[l], highWater[c])
<1>1. /\ l \in Held /\ IsActive(l)
      /\ slots' = Measured(l, highWater[c])
      /\ lease' = [lease EXCEPT ![l].used = n]
      /\ active' = SubSeq(active, 1, Len(active) - 1)
      /\ highWater' = [highWater EXCEPT ![c] = lease[l].saved]
      /\ UNCHANGED <<status, depth, slotCount, acquired, uses>>
  BY DEF Deactivate, MayDeactivate
<1>2. /\ lease[l].ctx \in Context /\ lease[l].saved \in Size
      /\ highWater \in [Context -> Size] /\ highWater[c] \in Size
      /\ lease \in [Held -> LeaseState]
  BY <1>1, HeldLease DEF LeaseInv, LeaseTypeOK, LeaseState
<1>3. /\ n \in Size
      /\ slots' \in [Arena -> [Slot -> SlotState]]
      /\ \A a \in Arena, i \in Slot :
            /\ slots'[a][i].size >= slots[a][i].size
            /\ slots'[a][i].eligible = slots[a][i].eligible
            /\ slots'[a][i].mask = slots[a][i].mask
  BY <1>1, <1>2, MeasuredSlots
<1> HIDE DEF n
<1>4. Held' = Held BY <1>1 DEF Held
<1>5. \A m \in Held : lease'[m] = IF m = l THEN [lease[m] EXCEPT !.used = n]
                                  ELSE lease[m]
  BY <1>1, <1>2
<1>6. \A m \in Held : /\ lease'[m] \in LeaseState /\ lease[m].reserved \in Nat
                      /\ lease'[m].ctx = lease[m].ctx
                      /\ lease'[m].slot = lease[m].slot
                      /\ lease'[m].reserved >= lease[m].reserved
  <2> SUFFICES ASSUME NEW m \in Held
               PROVE  /\ lease'[m] \in LeaseState /\ lease[m].reserved \in Nat
                      /\ lease'[m].ctx = lease[m].ctx
                      /\ lease'[m].slot = lease[m].slot
                      /\ lease'[m].reserved >= lease[m].reserved
    OBVIOUS
  <2>1. lease[m] \in LeaseState BY <1>2
  <2>2. lease[m].reserved \in Nat BY <2>1, BoundsAssumption DEF LeaseState, Size
  <2>3. CASE m = l
    <3>1. lease'[m] = [lease[m] EXCEPT !.used = n] BY <1>5, <2>3
    <3> QED BY <1>3, <2>1, <2>2, <3>1 DEF LeaseState
  <2>4. CASE m # l
    <3>1. lease'[m] = lease[m] BY <1>5, <2>4
    <3> QED BY <2>1, <2>2, <3>1
  <2> QED BY <2>3, <2>4
<1>7. lease' \in [Held -> LeaseState] BY <1>1, <1>2, <1>6
<1>8. active \in Seq(Lease) /\ Len(active) \in Nat /\ Len(active) <= MaxSlots
      /\ Len(active) > 0
  <2>1. active \in Seq(Lease) /\ Len(active) <= MaxSlots BY DEF LeaseInv, LeaseTypeOK
  <2>2. PICK i \in DOMAIN active : active[i] = l BY <1>1 DEF IsActive
  <2> QED BY <2>1, <2>2
<1>9. /\ active' \in Seq(Lease) /\ Len(active') = Len(active) - 1
      /\ DOMAIN active' = 1..(Len(active) - 1)
      /\ \A k \in 1..(Len(active) - 1) : active'[k] = active[k]
  <2>1. \A k \in 1..(Len(active) - 1) : active[k] \in Lease BY <1>8
  <2>2. Len(active) - 1 \in Int /\ Len(active) - 1 >= 0 BY <1>8
  <2>3. 1..(Len(active) - 1) \subseteq 1..Len(active) BY <1>8
  <2> HIDE DEF c
  <2>4. /\ active' \in Seq(Lease)
        /\ Len(active') = IF 1 <= Len(active) - 1 THEN (Len(active) - 1) - 1 + 1 ELSE 0
        /\ \A k \in 1..((Len(active) - 1) - 1 + 1) : active'[k] = active[1 + k - 1]
    BY <1>1, <1>8, <2>1, <2>2, <2>3, SubSeqProperties
  <2>5. Len(active') = Len(active) - 1
    <3>1. \A len \in Nat : len > 0 =>
             (IF 1 <= len - 1 THEN (len - 1) - 1 + 1 ELSE 0) = len - 1
      OBVIOUS
    <3>2. Len(active') = IF 1 <= Len(active) - 1 THEN (Len(active) - 1) - 1 + 1 ELSE 0
      BY <2>4
    <3> QED BY <1>8, <3>1, <3>2, Zenon
  <2>6. DOMAIN active' = 1..(Len(active) - 1) BY <2>4, <2>5
  <2>7. ASSUME NEW k \in 1..(Len(active) - 1) PROVE active'[k] = active[k]
    <3>1. (Len(active) - 1) - 1 + 1 = Len(active) - 1 /\ 1 + k - 1 = k BY <1>8
    <3> QED BY <2>4, <3>1
  <2> QED BY <2>4, <2>5, <2>6, <2>7
<1>10. LeaseTypeOK'
  <2>1. highWater' \in [Context -> Size] BY <1>1, <1>2
  <2>2. Len(active') <= MaxSlots BY <1>8, <1>9, BoundsAssumption
  <2> QED BY <1>1, <1>3, <1>4, <1>7, <1>9, <2>1, <2>2 DEF LeaseInv, LeaseTypeOK
<1>11. ActiveAreHeld' BY <1>4, <1>8, <1>9 DEF LeaseInv, ActiveAreHeld
<1> QED BY <1>1, <1>3, <1>4, <1>6, <1>10, <1>11, HoldersKept

LEMMA StoreKeepsInv ==
    ASSUME LeaseInv, NEW l, Use(l), highWater' \in [Context -> Size]
    PROVE  LeaseInv'
<1> DEFINE b == ArenaAt(l)
           k == lease[l].slot
           r == lease[l].reserved
           u == [by |-> uses[b][k].by \cup {lease[l].ctx},
                 bytes |-> Larger(uses[b][k].bytes, r)]
<1>1. /\ l \in Held
      /\ uses' = [uses EXCEPT ![b][k] = u]
      /\ UNCHANGED <<status, depth, slotCount, slots, lease, active, acquired>>
  BY DEF Use
<1>2. /\ b \in Arena /\ k \in Slot /\ lease[l].ctx \in Context /\ r \in Size
      /\ l \in HeldIn(b) /\ k \in 1..depth[b]
  BY <1>1, HeldLease DEF LeaseState
<1>3. /\ uses \in [Arena -> [Slot -> Usage]]
      /\ slots \in [Arena -> [Slot -> SlotState]]
      /\ depth \in [Arena -> 0..MaxSlots] /\ slotCount \in [Arena -> 0..MaxSlots]
      /\ lease \in [Held -> LeaseState]
  BY DEF LeaseInv, LeaseTypeOK
<1>4. uses[b][k].bytes \in Size /\ uses[b][k].by \in SUBSET Context
  BY <1>2, <1>3 DEF Usage
<1>5. /\ u \in Usage /\ u.by = uses[b][k].by \cup {lease[l].ctx}
      /\ u.bytes = Larger(uses[b][k].bytes, r)
  BY <1>2, <1>4, LargerType DEF Usage
<1> HIDE DEF u
<1>6. /\ uses' \in [Arena -> [Slot -> Usage]]
      /\ uses'[b][k] = u
      /\ \A a \in Arena, i \in Slot : (a # b \/ i # k) => uses'[a][i] = uses[a][i]
  <2>1. uses' = [uses EXCEPT ![b] = [uses[b] EXCEPT ![k] = u]]
    BY <1>1, <1>2, <1>3
  <2> QED BY <1>2, <1>3, <1>5, <2>1
<1>7. Held' = Held /\ \A a : HeldIn(a)' = HeldIn(a)
  BY <1>1 DEF Held, HeldIn, ArenaAt
<1>8. LeaseTypeOK' BY <1>1, <1>6, <1>7 DEF LeaseInv, LeaseTypeOK
<1>9. SlotsHaveOneHolder' BY <1>1, <1>7 DEF LeaseInv, SlotsHaveOneHolder
<1>10. ActiveAreHeld' BY <1>1, <1>7 DEF LeaseInv, ActiveAreHeld
<1>11. NestingCreated' BY <1>1 DEF LeaseInv, NestingCreated
<1>12. UsesBacked'
  <2> SUFFICES ASSUME NEW a \in Arena, NEW i \in Slot
               PROVE  /\ Measure(a, i)' \/ Reservation(a, i)'
                      /\ uses'[a][i].by # {} => i <= slotCount'[a]
    BY DEF UsesBacked
  <2>1. /\ Measure(a, i) \/ Reservation(a, i)
        /\ uses[a][i].by # {} => i <= slotCount[a]
    BY DEF LeaseInv, UsesBacked
  <2>2. CASE a # b \/ i # k
    <3>1. uses'[a][i] = uses[a][i] BY <1>6, <2>2
    <3> QED BY <1>1, <1>7, <2>1, <3>1 DEF Measure, Reservation
  <2>3. CASE a = b /\ i = k
    <3>1. i <= slotCount'[a]
      <4>1. depth[b] <= slotCount[b] BY <1>2 DEF LeaseInv, NestingCreated
      <4>2. depth[b] \in Nat /\ slotCount[b] \in Nat
        BY <1>2, <1>3, BoundsAssumption
      <4> QED BY <1>1, <1>2, <2>3, <4>1, <4>2
    <3>2. uses'[a][i].bytes = Larger(uses[a][i].bytes, r) BY <1>5, <1>6, <2>3
    <3>3. /\ uses[a][i].bytes \in Nat /\ r \in Nat /\ slots[a][i].size \in Nat
      BY <1>2, <1>3, <1>4, <2>3, BoundsAssumption DEF Size, SlotState
    <3>4. CASE uses[a][i].bytes < r
      <4>1. uses'[a][i].bytes = r BY <3>2, <3>4 DEF Larger
      <4>2. Reservation(a, i)'
        BY <1>1, <1>2, <1>7, <2>3, <3>3, <4>1 DEF Reservation
      <4> QED BY <3>1, <4>2
    <3>5. CASE ~(uses[a][i].bytes < r)
      <4>1. uses'[a][i].bytes = uses[a][i].bytes BY <3>2, <3>5 DEF Larger
      <4> QED BY <1>1, <1>7, <2>1, <3>1, <4>1 DEF Measure, Reservation
    <3> QED BY <3>4, <3>5
  <2> QED BY <2>2, <2>3
<1>13. PhasesRecorded'
  <2> SUFFICES ASSUME NEW a \in Arena, NEW i \in Slot, slots[a][i].eligible
               PROVE  \A c \in uses'[a][i].by : InPhase(slots[a][i], c)
    BY <1>1, <1>7 DEF LeaseInv, PhasesRecorded, InPhase
  <2>1. /\ \A c \in uses[a][i].by : InPhase(slots[a][i], c)
        /\ \A m \in HeldIn(a) :
              lease[m].slot = i => InPhase(slots[a][i], lease[m].ctx)
    BY DEF LeaseInv, PhasesRecorded
  <2>2. CASE a # b \/ i # k BY <1>6, <2>1, <2>2
  <2>3. CASE a = b /\ i = k BY <1>2, <1>5, <1>6, <2>1, <2>3
  <2> QED BY <2>2, <2>3
<1> QED BY <1>8, <1>9, <1>10, <1>11, <1>12, <1>13 DEF LeaseInv

LEMMA CopyKeepsInv ==
    ASSUME LeaseInv, Copy
    PROVE  LeaseInv'
<1>1. /\ Use(Top) /\ Top \in Held
      /\ highWater' = [highWater EXCEPT ![lease[Top].ctx] =
                          Larger(@, lease[Top].reserved)]
  BY DEF Copy, Use
<1>2. lease[Top].ctx \in Context /\ lease[Top].reserved \in Size
      /\ highWater \in [Context -> Size]
  BY <1>1, HeldLease DEF LeaseState, LeaseInv, LeaseTypeOK
<1>3. Larger(highWater[lease[Top].ctx], lease[Top].reserved) \in Size
  BY <1>2, LargerType
<1>4. highWater' \in [Context -> Size] BY <1>1, <1>2, <1>3
<1> QED BY <1>1, <1>4, StoreKeepsInv

\* What joining the phases p does to a slot.
LEMMA JoinedSlot ==
    ASSUME NEW s \in SlotState, NEW p \in SUBSET Phase
    PROVE  LET t == Joined(s, p)
           IN /\ t \in SlotState /\ t.size = s.size /\ s.mask \subseteq t.mask
              /\ t.eligible => s.eligible /\ p # {} /\ p \subseteq t.mask
<1>1. CASE p = {}
  <2>1. Joined(s, p) = [s EXCEPT !.eligible = FALSE] BY <1>1 DEF Joined
  <2> QED BY <2>1 DEF SlotState
<1>2. CASE p # {} /\ s.eligible
  <2>1. Joined(s, p) = [s EXCEPT !.mask = s.mask \cup p] BY <1>2 DEF Joined
  <2> QED BY <1>2, <2>1 DEF SlotState
<1>3. CASE p # {} /\ ~s.eligible
  <2>1. Joined(s, p) = s BY <1>3 DEF Joined
  <2> QED BY <1>3, <2>1
<1> QED BY <1>1, <1>2, <1>3

LEMMA AcquireKeepsInv ==
    ASSUME LeaseInv, NEW l \in Lease, NEW c \in Context, NEW bytes \in Size,
           Acquire(l, c, bytes)
    PROVE  LeaseInv'
<1> DEFINE a == ArenaOf[c]
           i == depth[a] + 1
           fresh == i > slotCount[a]
           n == Larger(bytes, 1)
           new == [ctx |-> c, slot |-> i, reserved |-> n, used |-> n,
                   saved |-> highWater[c]]
           s == Created(slots[a][i], fresh)
           t == Joined(s, PhaseOf[c])
<1>1. /\ l \notin Held /\ i \in Slot
      /\ acquired < MaxAcquires /\ acquired' = acquired + 1
      /\ depth' = [depth EXCEPT ![a] = i]
      /\ slotCount' = [slotCount EXCEPT ![a] = IF fresh THEN i ELSE slotCount[a]]
      /\ lease' = [m \in Held \cup {l} |-> IF m = l THEN new ELSE lease[m]]
      /\ UNCHANGED <<status, active, highWater, uses>>
  BY DEF Acquire
<1>2. slots' = [slots EXCEPT ![a][i] = t] BY DEF Acquire
<1>3. /\ slots \in [Arena -> [Slot -> SlotState]]
      /\ depth \in [Arena -> 0..MaxSlots] /\ slotCount \in [Arena -> 0..MaxSlots]
      /\ lease \in [Held -> LeaseState] /\ highWater \in [Context -> Size]
      /\ acquired \in 0..MaxAcquires /\ Held \in SUBSET Lease
  BY DEF LeaseInv, LeaseTypeOK
<1>4. /\ a \in Arena /\ PhaseOf[c] \in SUBSET Phase /\ depth[a] \in Nat
      /\ slotCount[a] \in 0..MaxSlots /\ slotCount[a] \in Nat
      /\ depth[a] <= slotCount[a] /\ i \in 1..MaxSlots
  BY <1>1, <1>3, ContextsAssumption, BoundsAssumption
     DEF LeaseInv, NestingCreated, Slot
<1>5. n \in Size
  <2>1. 1 \in Size BY BoundsAssumption DEF Size
  <2> QED BY <2>1, LargerType
<1>6. new \in LeaseState BY <1>1, <1>3, <1>5 DEF LeaseState
<1>7. /\ s \in SlotState /\ s.size = slots[a][i].size /\ s.mask = slots[a][i].mask
      /\ s.eligible = (slots[a][i].eligible \/ fresh)
  <2>1. slots[a][i] \in SlotState BY <1>1, <1>3, <1>4
  <2> HIDE DEF fresh
  <2>2. (slots[a][i].eligible \/ fresh) \in BOOLEAN OBVIOUS
  <2> QED BY <2>1, <2>2 DEF SlotState, Created
<1>8. /\ t \in SlotState /\ t.size = slots[a][i].size
      /\ slots[a][i].mask \subseteq t.mask
      /\ t.eligible => (slots[a][i].eligible \/ fresh) /\ InPhase(t, c)
  <2> HIDE DEF s, fresh
  <2>1. /\ t \in SlotState /\ t.size = s.size /\ s.mask \subseteq t.mask
        /\ t.eligible => s.eligible /\ PhaseOf[c] # {} /\ PhaseOf[c] \subseteq t.mask
    BY <1>4, <1>7, JoinedSlot
  <2> HIDE DEF t
  <2> QED BY <1>7, <2>1 DEF InPhase
<1> HIDE DEF n, s, t
<1>9. /\ slots' \in [Arena -> [Slot -> SlotState]]
      /\ slots'[a][i] = t
      /\ \A b \in Arena, j \in Slot : (b # a \/ j # i) => slots'[b][j] = slots[b][j]
  <2>1. slots' = [slots EXCEPT ![a] = [slots[a] EXCEPT ![i] = t]]
    BY <1>1, <1>2, <1>3, <1>4
  <2> HIDE DEF i
  <2> QED BY <1>1, <1>3, <1>4, <1>8, <2>1
<1>10. /\ Held' = Held \cup {l}
       /\ lease'[l] = new
       /\ \A m \in Held : m # l /\ lease'[m] = lease[m]
       /\ lease' \in [Held \cup {l} -> LeaseState]
  BY <1>1, <1>3, <1>6 DEF Held
<1>11. /\ new.ctx = c /\ new.slot = i
       /\ HeldIn(a)' = HeldIn(a) \cup {l}
       /\ \A b : b # a => HeldIn(b)' = HeldIn(b)
       /\ \A b, m : m \in HeldIn(b) => m \in Held
  BY <1>10 DEF HeldIn, ArenaAt
<1> HIDE DEF new
<1>12. /\ depth' \in [Arena -> 0..MaxSlots] /\ depth'[a] = i
       /\ \A b \in Arena : b # a => depth'[b] = depth[b]
       /\ slotCount' \in [Arena -> 0..MaxSlots]
       /\ slotCount'[a] = (IF fresh THEN i ELSE slotCount[a])
       /\ \A b \in Arena : b # a => slotCount'[b] = slotCount[b]
  <2>1. i \in 0..MaxSlots BY <1>4
  <2>2. (IF fresh THEN i ELSE slotCount[a]) \in 0..MaxSlots BY <1>4, <2>1
  <2> HIDE DEF i, fresh
  <2> QED BY <1>1, <1>3, <1>4, <2>1, <2>2
<1>13. slotCount'[a] >= slotCount[a] /\ slotCount'[a] >= i
  BY <1>4, <1>12
<1>14. LeaseTypeOK'
  <2>1. acquired' \in 0..MaxAcquires BY <1>1, <1>3, BoundsAssumption
  <2> QED BY <1>1, <1>3, <1>9, <1>10, <1>12, <2>1 DEF LeaseInv, LeaseTypeOK
<1>15. \A m \in HeldIn(a) : lease[m].slot \in 1..depth[a] /\ lease[m].slot # i
  <2>1. \A m \in HeldIn(a) : lease[m].slot \in 1..depth[a]
    BY <1>4 DEF LeaseInv, SlotsHaveOneHolder
  <2> QED BY <1>4, <2>1
<1>16. SlotsHaveOneHolder'
  <2> SUFFICES ASSUME NEW b \in Arena
               PROVE  /\ {lease'[m].slot : m \in HeldIn(b)'} = 1..depth'[b]
                      /\ \A m, o \in HeldIn(b)' :
                            lease'[m].slot = lease'[o].slot => m = o
    BY DEF SlotsHaveOneHolder
  <2>1. /\ {lease[m].slot : m \in HeldIn(b)} = 1..depth[b]
        /\ \A m, o \in HeldIn(b) : lease[m].slot = lease[o].slot => m = o
    BY DEF LeaseInv, SlotsHaveOneHolder
  <2>2. CASE b # a
    BY <1>10, <1>11, <1>12, <2>1, <2>2
  <2>3. CASE b = a
    <3>1. \A m \in HeldIn(b) : lease'[m].slot = lease[m].slot BY <1>10, <1>11
    <3>2. lease'[l].slot = i BY <1>10, <1>11
    <3>3. 1..i = (1..depth[a]) \cup {i} BY <1>4
    <3>4. {lease'[m].slot : m \in HeldIn(b)'} =
             {lease[m].slot : m \in HeldIn(b)} \cup {i}
      BY <1>11, <2>3, <3>1, <3>2
    <3>5. {lease'[m].slot : m \in HeldIn(b)'} = 1..depth'[b]
      BY <1>12, <2>1, <2>3, <3>3, <3>4
    <3>6. ASSUME NEW m \in HeldIn(b)', NEW o \in HeldIn(b)',
                 lease'[m].slot = lease'[o].slot
          PROVE  m = o
      BY <1>11, <1>15, <2>1, <2>3, <3>1, <3>2, <3>6
    <3> QED BY <3>5, <3>6
  <2> QED BY <2>2, <2>3
<1>17. ActiveAreHeld' BY <1>1, <1>10 DEF LeaseInv, ActiveAreHeld
<1>18. NestingCreated'
  <2> SUFFICES ASSUME NEW b \in Arena PROVE depth'[b] <= slotCount'[b]
    BY DEF NestingCreated
  <2>1. depth[b] <= slotCount[b] BY DEF LeaseInv, NestingCreated
  <2> QED BY <1>12, <1>13, <2>1
<1>19. UsesBacked'
  <2> SUFFICES ASSUME NEW b \in Arena, NEW j \in Slot
               PROVE  /\ Measure(b, j)' \/ Reservation(b, j)'
                      /\ uses'[b][j].by # {} => j <= slotCount'[b]
    BY DEF UsesBacked
  <2>1. /\ Measure(b, j) \/ Reservation(b, j)
        /\ uses[b][j].by # {} => j <= slotCount[b]
    BY DEF LeaseInv, UsesBacked
  <2>2. slots'[b][j].size = slots[b][j].size BY <1>8, <1>9
  <2>3. Measure(b, j) => Measure(b, j)' BY <1>1, <2>2 DEF Measure
  <2>4. Reservation(b, j) => Reservation(b, j)'
    <3> SUFFICES ASSUME NEW m \in HeldIn(b), lease[m].slot = j,
                        uses[b][j].bytes <= lease[m].reserved
                 PROVE  Reservation(b, j)'
      BY DEF Reservation
    <3>1. m \in HeldIn(b)' /\ lease'[m] = lease[m] BY <1>10, <1>11
    <3> QED BY <1>1, <3>1 DEF Reservation
  <2>5. slotCount'[b] >= slotCount[b] /\ slotCount'[b] \in Nat /\ slotCount[b] \in Nat
    BY <1>3, <1>12, <1>13, BoundsAssumption
  <2> QED BY <1>1, <2>1, <2>3, <2>4, <2>5 DEF Slot
<1>20. PhasesRecorded'
  <2> SUFFICES ASSUME NEW b \in Arena, NEW j \in Slot, slots'[b][j].eligible
               PROVE  /\ \A d \in uses[b][j].by : InPhase(slots'[b][j], d)
                      /\ \A m \in HeldIn(b)' : lease'[m].slot = j =>
                            InPhase(slots'[b][j], lease'[m].ctx)
    BY <1>1 DEF PhasesRecorded, InPhase
  <2>1. slots[b][j].eligible =>
           /\ \A d \in uses[b][j].by : InPhase(slots[b][j], d)
           /\ \A m \in HeldIn(b) :
                 lease[m].slot = j => InPhase(slots[b][j], lease[m].ctx)
    BY DEF LeaseInv, PhasesRecorded
  <2>2. CASE b # a \/ j # i
    <3>1. slots'[b][j] = slots[b][j] BY <1>9, <2>2
    <3>2. \A m \in HeldIn(b)' : lease'[m].slot = j =>
             m \in HeldIn(b) /\ lease'[m] = lease[m]
      BY <1>10, <1>11, <2>2
    <3> QED BY <2>1, <3>1, <3>2
  <2>3. CASE b = a /\ j = i
    <3>1. slots'[b][j] = t BY <1>9, <2>3
    <3>2. InPhase(t, c) BY <1>8, <3>1
    <3>3. \A m \in HeldIn(b)' : lease'[m].slot = j => lease'[m].ctx = c
      BY <1>10, <1>11, <1>15, <2>3
    <3>4. ASSUME NEW d \in uses[b][j].by PROVE InPhase(t, d)
      <4>1. ~fresh
        <5>1. j <= slotCount[b] BY <3>4 DEF LeaseInv, UsesBacked
        <5> QED BY <1>4, <2>3, <5>1
      <4>2. slots[b][j].eligible BY <1>8, <2>3, <3>1, <4>1
      <4> QED BY <1>8, <2>1, <2>3, <3>4, <4>2 DEF InPhase
    <3> QED BY <3>1, <3>2, <3>3, <3>4
  <2> QED BY <2>2, <2>3
<1> QED BY <1>14, <1>16, <1>17, <1>18, <1>19, <1>20 DEF LeaseInv

LEMMA ReleaseKeepsInv ==
    ASSUME LeaseInv, NEW l \in Lease, Release(l)
    PROVE  LeaseInv'
<1> PICK b : b = ArenaAt(l) OBVIOUS
<1> DEFINE k == lease[l].slot
<1>1. /\ l \in Held /\ ~IsActive(l) /\ k = depth[b]
      /\ slots' = Measured(l, lease[l].used)
      /\ depth' = [depth EXCEPT ![b] = depth[b] - 1]
      /\ lease' = [m \in Held \ {l} |-> lease[m]]
      /\ UNCHANGED <<status, slotCount, active, highWater, acquired, uses>>
  BY DEF Release, MayRelease
<1>2. /\ b \in Arena /\ k \in Slot /\ k \in 1..depth[b] /\ l \in HeldIn(b)
      /\ lease[l].used \in Size /\ lease[l].reserved \in Size
      /\ depth \in [Arena -> 0..MaxSlots] /\ depth[b] \in Nat
      /\ lease \in [Held -> LeaseState] /\ Held \in SUBSET Lease
  BY <1>1, HeldLease, BoundsAssumption DEF LeaseState, LeaseInv, LeaseTypeOK
<1>3. /\ slots' \in [Arena -> [Slot -> SlotState]]
      /\ slots'[b][k].size >= lease[l].reserved
      /\ \A a \in Arena, i \in Slot :
            /\ slots'[a][i].size >= slots[a][i].size
            /\ slots'[a][i].eligible = slots[a][i].eligible
            /\ slots'[a][i].mask = slots[a][i].mask
  <2>1. /\ Noted(lease[l], lease[l].used) \in Size
        /\ Noted(lease[l], lease[l].used) >= lease[l].reserved
        /\ slots' \in [Arena -> [Slot -> SlotState]]
        /\ slots'[b][k].size >= Noted(lease[l], lease[l].used)
        /\ \A a \in Arena, i \in Slot :
              /\ slots'[a][i].size >= slots[a][i].size
              /\ slots'[a][i].eligible = slots[a][i].eligible
              /\ slots'[a][i].mask = slots[a][i].mask
    BY <1>1, <1>2, MeasuredSlots
  <2>2. slots'[b][k].size \in Size BY <1>2, <2>1 DEF SlotState
  <2> QED BY <1>2, <2>1, <2>2, BoundsAssumption DEF Size
<1>4. /\ Held' = Held \ {l}
      /\ \A m \in Held' : m \in Held /\ lease'[m] = lease[m]
      /\ lease' \in [Held' -> LeaseState]
  <2>1. Held' = Held \ {l} BY <1>1 DEF Held
  <2>2. lease' \in [Held \ {l} -> LeaseState] BY <1>1, <1>2
  <2> QED BY <1>1, <2>1, <2>2
<1>5. /\ HeldIn(b)' = HeldIn(b) \ {l}
      /\ \A a : a # b => HeldIn(a)' = HeldIn(a)
      /\ \A a, m : m \in HeldIn(a)' => m \in Held' /\ m \in HeldIn(a)
  BY <1>4 DEF HeldIn, ArenaAt
<1>6. /\ depth' \in [Arena -> 0..MaxSlots] /\ depth'[b] = depth[b] - 1
      /\ \A a \in Arena : a # b => depth'[a] = depth[a]
  <2>1. depth[b] - 1 \in 0..MaxSlots BY <1>2, BoundsAssumption
  <2> QED BY <1>1, <1>2, <2>1
<1>7. LeaseTypeOK'
  BY <1>1, <1>2, <1>3, <1>4, <1>6 DEF LeaseInv, LeaseTypeOK
<1>8. \A m \in HeldIn(b)' : lease[m].slot # k
  BY <1>2, <1>5 DEF LeaseInv, SlotsHaveOneHolder
<1>9. SlotsHaveOneHolder'
  <2> SUFFICES ASSUME NEW a \in Arena
               PROVE  /\ {lease'[m].slot : m \in HeldIn(a)'} = 1..depth'[a]
                      /\ \A m, o \in HeldIn(a)' :
                            lease'[m].slot = lease'[o].slot => m = o
    BY DEF SlotsHaveOneHolder
  <2>1. /\ {lease[m].slot : m \in HeldIn(a)} = 1..depth[a]
        /\ \A m, o \in HeldIn(a) : lease[m].slot = lease[o].slot => m = o
    BY DEF LeaseInv, SlotsHaveOneHolder
  <2>2. \A m \in HeldIn(a)' : m \in HeldIn(a) /\ lease'[m] = lease[m]
    BY <1>4, <1>5
  <2>3. \A m, o \in HeldIn(a)' : lease'[m].slot = lease'[o].slot => m = o
    BY <2>1, <2>2
  <2>4. CASE a # b BY <1>5, <1>6, <2>1, <2>2, <2>3, <2>4
  <2>5. CASE a = b
    <3>1. 1..(depth[b] - 1) = (1..depth[b]) \ {k} BY <1>1, <1>2
    <3>2. {lease'[m].slot : m \in HeldIn(a)'} = {lease[m].slot : m \in HeldIn(a)'}
      BY <2>2
    <3>3. {lease[m].slot : m \in HeldIn(a)'} =
             {lease[m].slot : m \in HeldIn(a)} \ {k}
      BY <1>5, <1>8, <2>5
    <3> QED BY <1>6, <2>1, <2>3, <2>5, <3>1, <3>2, <3>3
  <2> QED BY <2>4, <2>5
<1>10. ActiveAreHeld'
  <2>1. \A i \in DOMAIN active : active[i] # l BY <1>1 DEF IsActive
  <2> QED BY <1>1, <1>4, <2>1 DEF LeaseInv, ActiveAreHeld
<1>11. NestingCreated'
  <2> SUFFICES ASSUME NEW a \in Arena PROVE depth'[a] <= slotCount[a]
    BY <1>1 DEF NestingCreated
  <2>1. depth[a] <= slotCount[a] /\ depth[a] \in Nat /\ slotCount[a] \in Nat
    BY BoundsAssumption DEF LeaseInv, LeaseTypeOK, NestingCreated
  <2> QED BY <1>6, <2>1
<1>12. UsesBacked'
  <2> SUFFICES ASSUME NEW a \in Arena, NEW i \in Slot
               PROVE  Measure(a, i)' \/ Reservation(a, i)'
    BY <1>1 DEF LeaseInv, UsesBacked
  <2>1. Measure(a, i) \/ Reservation(a, i) BY DEF LeaseInv, UsesBacked
  <2>2. /\ uses[a][i].bytes \in Nat /\ slots[a][i].size \in Nat
        /\ slots'[a][i].size \in Nat
    BY <1>3, BoundsAssumption DEF LeaseInv, LeaseTypeOK, Usage, SlotState, Size
  <2>3. CASE Measure(a, i) BY <1>1, <1>3, <2>2, <2>3 DEF Measure
  <2>4. CASE Reservation(a, i)
    <3>1. PICK m \in HeldIn(a) :
             lease[m].slot = i /\ uses[a][i].bytes <= lease[m].reserved
      BY <2>4 DEF Reservation
    <3>2. CASE m = l
      <4>1. a = b BY <3>1, <3>2 DEF HeldIn
      <4>2. lease[l].reserved \in Nat BY <1>2, BoundsAssumption DEF Size
      <4> QED BY <1>1, <1>3, <2>2, <3>1, <3>2, <4>1, <4>2 DEF Measure
    <3>3. CASE m # l
      <4>1. m \in HeldIn(a)' BY <1>5, <3>1, <3>3
      <4>2. lease'[m] = lease[m] BY <1>4, <1>5, <4>1
      <4> QED BY <1>1, <3>1, <4>1, <4>2 DEF Reservation
    <3> QED BY <3>2, <3>3
  <2> QED BY <2>1, <2>3, <2>4
<1>13. PhasesRecorded'
  <2> SUFFICES ASSUME NEW a \in Arena, NEW i \in Slot, slots'[a][i].eligible
               PROVE  /\ \A c \in uses[a][i].by : InPhase(slots'[a][i], c)
                      /\ \A m \in HeldIn(a)' : lease'[m].slot = i =>
                            InPhase(slots'[a][i], lease'[m].ctx)
    BY <1>1 DEF PhasesRecorded, InPhase
  <2>1. /\ \A c \in uses[a][i].by : InPhase(slots[a][i], c)
        /\ \A m \in HeldIn(a) :
              lease[m].slot = i => InPhase(slots[a][i], lease[m].ctx)
    BY <1>3 DEF LeaseInv, PhasesRecorded
  <2>2. \A c : InPhase(slots[a][i], c) => InPhase(slots'[a][i], c)
    BY <1>3 DEF InPhase
  <2>3. \A m \in HeldIn(a)' : m \in HeldIn(a) /\ lease'[m] = lease[m]
    BY <1>4, <1>5
  <2> QED BY <2>1, <2>2, <2>3
<1> QED BY <1>7, <1>9, <1>10, <1>11, <1>12, <1>13 DEF LeaseInv

\* Every step of the compiler keeps the invariant.
LEMMA LeaseStep == LeaseInv /\ [Next]_vars => LeaseInv'
<1> SUFFICES ASSUME LeaseInv, [Next]_vars PROVE LeaseInv' OBVIOUS
<1>1. ASSUME NEW l \in Lease, NEW c \in Context, NEW n \in Size, Acquire(l, c, n)
      PROVE  LeaseInv'
  BY <1>1, AcquireKeepsInv
<1>2. ASSUME NEW l \in Lease, NEW n \in Size, Widen(l, n) PROVE LeaseInv'
  BY <1>2, WidenKeepsInv
<1>3. ASSUME NEW l \in Lease, Activate(l) PROVE LeaseInv' BY <1>3, ActivateKeepsInv
<1>4. ASSUME NEW l \in Lease, Deactivate(l) PROVE LeaseInv'
  BY <1>4, DeactivateKeepsInv
<1>5. ASSUME NEW l \in Lease, Release(l) PROVE LeaseInv' BY <1>5, ReleaseKeepsInv
<1>6. ASSUME NEW l \in Lease, Store(l) PROVE LeaseInv'
  <2>1. Use(l) /\ highWater' \in [Context -> Size]
    BY <1>6 DEF Store, LeaseInv, LeaseTypeOK
  <2> QED BY <2>1, StoreKeepsInv
<1>7. CASE Copy BY <1>7, CopyKeepsInv
<1>8. ASSUME UNCHANGED <<codegen, acquired, uses>>,
             status' \in {"generating", "emitted", "unreachable"}
      PROVE  LeaseInv'
  <2>1. Held' = Held BY <1>8 DEF Held, codegen
  <2>2. LeaseTypeOK' BY <1>8, <2>1 DEF codegen, LeaseInv, LeaseTypeOK
  <2>3. ActiveAreHeld' BY <1>8, <2>1 DEF codegen, LeaseInv, ActiveAreHeld
  <2> QED BY <1>8, <2>2, <2>3, SlotsUntouched DEF codegen
<1>9. CASE EmitBss BY <1>8, <1>9 DEF EmitBss
<1>10. CASE Refuse BY <1>8, <1>10 DEF Refuse
<1>11. CASE UNCHANGED vars
  BY <1>8, <1>11 DEF vars, LeaseInv, LeaseTypeOK
<1> QED BY <1>1, <1>2, <1>3, <1>4, <1>5, <1>6, <1>7, <1>9, <1>10, <1>11 DEF Next

\* The invariant holds in every state the compiler reaches.
LEMMA LeaseCorrect == Spec => []LeaseInv
BY LeaseInit, LeaseStep, PTL DEF Spec

-----------------------------------------------------------------------------
\* Once the storage is emitted no lease is held.
EmittedIdle == status = "emitted" => \A a \in Arena : depth[a] = 0

\* compiler_scratch_emit_bss checks that every nesting has come back to zero,
\* and is the last thing done to the arenas.
LEMMA EmittedIsIdle == Spec => []EmittedIdle
<1>1. Init => EmittedIdle BY DEF Init, EmittedIdle
<1>2. EmittedIdle /\ [Next]_vars => EmittedIdle'
  <2> SUFFICES ASSUME EmittedIdle, [Next]_vars PROVE EmittedIdle' OBVIOUS
  <2>1. CASE status' = "emitted" /\ status = "emitted"
    <3>1. UNCHANGED vars
      BY <2>1 DEF Next, Acquire, Widen, Activate, Deactivate, Release, Store,
                  Copy, Use, EmitBss, Refuse, Generating
    <3> QED BY <3>1 DEF vars, codegen, EmittedIdle
  <2>2. CASE status' = "emitted" /\ status # "emitted"
    <3>1. EmitBss
      BY <2>2 DEF Next, Acquire, Widen, Activate, Deactivate, Release, Store,
                  Copy, Use, Refuse, Generating, vars
    <3> QED BY <3>1 DEF EmitBss, MayEmit, codegen, EmittedIdle
  <2>3. CASE status' # "emitted" BY <2>3 DEF EmittedIdle
  <2> QED BY <2>1, <2>2, <2>3
<1> QED BY <1>1, <1>2, PTL DEF Spec

-----------------------------------------------------------------------------
\* compiler_scratch_acquire and compiler_scratch_activate never write past
\* their arrays, and every lease they hand out is well formed.
THEOREM LeaseTypeCorrect == Spec => []LeaseTypeOK
<1>1. LeaseInv => LeaseTypeOK BY DEF LeaseInv
<1> QED BY <1>1, LeaseCorrect, PTL

\* compiler_scratch_acquire and compiler_scratch_release: leases held together
\* have different slots, and none is lost, however many contexts share an arena.
THEOREM LeasesDisjoint == Spec => []SlotsHaveOneHolder
<1>1. LeaseInv => SlotsHaveOneHolder BY DEF LeaseInv
<1> QED BY <1>1, LeaseCorrect, PTL

\* compiler_scratch_active_symbol names a slot whose lease is still held.
THEOREM ActiveSymbolsHeld == Spec => []ActiveAreHeld
<1>1. LeaseInv => ActiveAreHeld BY DEF LeaseInv
<1> QED BY <1>1, LeaseCorrect, PTL

\* compiler_scratch_emit_bss reserves every byte that the code it is emitted
\* with uses of a slot.
THEOREM EmittedStorageCovers == Spec => []EmittedCovers
<1>1. LeaseInv /\ EmittedIdle => EmittedCovers
  <2> SUFFICES ASSUME LeaseInv, EmittedIdle, status = "emitted",
                      NEW a \in Arena, NEW i \in Slot
               PROVE  /\ uses[a][i].bytes <= slots[a][i].size
                      /\ uses[a][i].by # {} => i <= slotCount[a]
    BY DEF EmittedCovers
  <2>1. /\ Measure(a, i) \/ Reservation(a, i)
        /\ uses[a][i].by # {} => i <= slotCount[a]
    BY DEF LeaseInv, UsesBacked
  <2>2. {lease[l].slot : l \in HeldIn(a)} = {}
    <3>1. depth[a] = 0 BY DEF EmittedIdle
    <3> QED BY <3>1 DEF LeaseInv, SlotsHaveOneHolder
  <2>3. ~Reservation(a, i) BY <2>2 DEF Reservation
  <2> QED BY <2>1, <2>3 DEF Measure
<1> QED BY <1>1, LeaseCorrect, EmittedIsIdle, PTL

\* compiler_scratch_emit_bss gives to the phase overlay no slot that was used
\* outside of the phases it records.
THEOREM OverlaySound == Spec => []OverlayOnlyPhased
<1>1. LeaseInv => OverlayOnlyPhased
  BY DEF LeaseInv, PhasesRecorded, InPhase, OverlayOnlyPhased
<1> QED BY <1>1, LeaseCorrect, PTL

-----------------------------------------------------------------------------
(* The passes of the assembler: arithmetic. *)

LEMMA ModRange ==
    ASSUME NEW u \in Int, NEW n \in Nat \ {0}
    PROVE  u % n \in 0..(n - 1) /\ u \div n \in Int /\ u = n * (u \div n) + (u % n)
OBVIOUS

LEMMA ModSmall ==
    ASSUME NEW n \in Nat \ {0}, NEW u \in 0..(n - 1)
    PROVE  u % n = u
OBVIOUS

\* There is one remainder.
LEMMA OneRemainder ==
    ASSUME NEW n \in Nat \ {0}, NEW q \in Int, NEW u \in 0..(n - 1)
    PROVE  (n * q + u) % n = u
<1> DEFINE x == n * q + u
           p == x \div n
           v == x % n
<1>0. n * q \in Int OBVIOUS
<1>1. x \in Int BY <1>0
<1>2. x = n * p + v /\ v \in 0..(n - 1) /\ p \in Int BY <1>1, ModRange
<1> HIDE DEF p, v
<1> DEFINE d == p - q
<1>3. n * d = u - v /\ d \in Int BY <1>2
<1> HIDE DEF d
<1>4. d = 0
  <2>1. CASE d > 0
    <3>1. n * d >= n BY <2>1, <1>3
    <3> QED BY <3>1, <1>2, <1>3
  <2>2. CASE d < 0
    <3>1. n * d <= -n BY <2>2, <1>3
    <3> QED BY <3>1, <1>2, <1>3
  <2> QED BY <2>1, <2>2, <1>3
<1>5. v = u BY <1>3, <1>4, <1>2
<1> QED BY <1>5 DEF v

\* .align pads to the next address that has its residue.
LEMMA PaddingMeets ==
    ASSUME NEW s, s.boundary \in Nat, s.offset \in Nat, s.offset < s.boundary, NEW a \in Nat
    PROVE  Padding(a, s) \in Nat /\ (a + Padding(a, s)) % s.boundary = s.offset
<1> DEFINE n == s.boundary
           e == s.offset - a
           q == e \div n
           d == e % n
<1>1. n \in Nat \ {0} /\ e \in Int OBVIOUS
<1>2. e = n * q + d /\ d \in 0..(n - 1) /\ q \in Int BY <1>1, ModRange
<1>3. Padding(a, s) = d BY DEF Padding
<1> HIDE DEF q, d
<1>4. a + d = n * (-q) + s.offset
  <2>1. n * (-q) = -(n * q) /\ n * q \in Int BY <1>1, <1>2
  <2>2. PICK p \in Int : p = n * q BY <2>1
  <2>3. s.offset - a = p + d BY <1>2, <2>2
  <2>4. n * (-q) = -p BY <2>1, <2>2
  <2> HIDE DEF n
  <2> QED BY <2>3, <2>4, <1>2
<1>5. (n * (-q) + s.offset) % n = s.offset
  <2>1. -q \in Int /\ s.offset \in 0..(n - 1) BY <1>1, <1>2
  <2> QED BY <2>1, <1>1, OneRemainder
<1> QED BY <1>2, <1>3, <1>4, <1>5

\* The larger of two alignments serves both.
LEMMA PowerDivides ==
    ASSUME NEW a \in Powers, NEW b \in Powers, b <= a
    PROVE  a % b = 0
<1> USE DEF Powers
<1>1. CASE b \in {1, 2, 4, 8} BY <1>1
<1>2. CASE b \in {16, 32, 64, 128} BY <1>2
<1>3. CASE b \in {256, 512, 1024, 2048} BY <1>3
<1>4. CASE b \in {4096, 8192, 16384, 32768} BY <1>4
<1> QED BY <1>1, <1>2, <1>3, <1>4

LEMMA CoarserFacts ==
    ASSUME NEW a \in Nat, NEW b \in Nat
    PROVE  /\ Coarser(a, b) \in Nat /\ Coarser(a, b) \in {a, b}
           /\ Coarser(a, b) >= a /\ Coarser(a, b) >= b
BY DEF Coarser

\* A set of numbers has a smallest one.
LEMMA SmallestOf ==
    ASSUME NEW S \in SUBSET Nat, S # {}
    PROVE  Smallest(S) \in S /\ \A y \in S : Smallest(S) <= y
<1>1. PICK r \in S : \A m \in S : ~ (<<m, r>> \in OpToRel(<, Nat))
  BY NatLessThanWellFounded, WFMin
<1>2. OpToRel(<, Nat) = {ss \in Nat \X Nat : ss[1] < ss[2]} BY Zenon DEF OpToRel
<1>3. \A m \in S : ~ (<<m, r>> \in {ss \in Nat \X Nat : ss[1] < ss[2]})
  BY <1>1, <1>2, Zenon
<1>4. ASSUME NEW m \in S PROVE r <= m
  <2>1. r \in Nat /\ m \in Nat OBVIOUS
  <2>2. ~ (<<m, r>> \in {ss \in Nat \X Nat : ss[1] < ss[2]}) BY <1>3, Zenon
  <2> QED BY <2>1, <2>2
<1> QED BY <1>1, <1>4 DEF Smallest

\* Induction over the statements of a file.
LEMMA FromFirst ==
    ASSUME NEW n \in Nat, NEW S, 1 \in S, \A i \in 1..n : i \in S => i + 1 \in S
    PROVE  \A i \in 1..(n + 1) : i \in S
<1> SUFFICES ASSUME NEW k \in 1..(n + 1), k \notin S PROVE FALSE OBVIOUS
<1> DEFINE Bad == {i \in 1..(n + 1) : i \notin S}
<1>1. Bad \in SUBSET Nat /\ Bad # {} OBVIOUS
<1> HIDE DEF Bad
<1>2. Smallest(Bad) \in Bad /\ \A i \in Bad : Smallest(Bad) <= i BY <1>1, SmallestOf
<1>3. PICK m \in 1..(n + 1) : m = Smallest(Bad) /\ m \notin S /\ \A i \in Bad : m <= i
  BY <1>2 DEF Bad
<1>4. m # 1 BY <1>3
<1>5. m - 1 \in 1..n /\ m - 1 \in 1..(n + 1) BY <1>4
<1>6. m - 1 \in S BY <1>3, <1>5 DEF Bad
<1> QED BY <1>3, <1>5, <1>6

\* Two layouts: where no statement is longer, nothing is further apart.
Within(a, b, i, j) == 0 <= b[j] - b[i] /\ b[j] - b[i] <= a[j] - a[i]
NoLonger(n, a, b) == \A k \in 1..n : Within(a, b, k, k + 1)

LEMMA WithinNext ==
    ASSUME NEW a, NEW b, NEW i \in Nat, NEW k \in Nat,
           a[k] \in Nat, b[k] \in Nat, a[k + 1] \in Nat, b[k + 1] \in Nat,
           a[i] \in Nat, b[i] \in Nat, Within(a, b, i, k), Within(a, b, k, k + 1)
    PROVE  Within(a, b, i, k + 1)
BY DEF Within

LEMMA Apart ==
    ASSUME NEW n \in Nat, NEW a \in [1..(n + 1) -> Nat], NEW b \in [1..(n + 1) -> Nat],
           NoLonger(n, a, b),
           NEW i \in 1..(n + 1), NEW j \in 1..(n + 1), i <= j
    PROVE  Within(a, b, i, j)
<1> DEFINE S == {k \in 1..(n + 1) : i <= k => Within(a, b, i, k)}
<1>1. 1 \in S
  <2>1. 1 \in 1..(n + 1) OBVIOUS
  <2>2. i <= 1 => i = 1 OBVIOUS
  <2>3. a[i] \in Nat /\ b[i] \in Nat OBVIOUS
  <2> QED BY <2>1, <2>2, <2>3 DEF Within
<1>2. ASSUME NEW k \in 1..n, k \in S PROVE k + 1 \in S
  <2>1. k \in 1..(n + 1) /\ k + 1 \in 1..(n + 1) OBVIOUS
  <2>2. a[k] \in Nat /\ b[k] \in Nat /\ a[k + 1] \in Nat /\ b[k + 1] \in Nat
        /\ a[i] \in Nat /\ b[i] \in Nat BY <2>1
  <2>3. SUFFICES ASSUME i <= k + 1 PROVE Within(a, b, i, k + 1) BY <2>1
  <2>4. CASE i <= k
    <3>1. Within(a, b, i, k) BY <1>2, <2>4
    <3>2. Within(a, b, k, k + 1) BY DEF NoLonger
    <3>3. i \in Nat /\ k \in Nat OBVIOUS
    <3> HIDE DEF S
    <3> QED BY <2>2, <3>1, <3>2, <3>3, WithinNext
  <2>5. CASE i = k + 1 BY <2>2, <2>5 DEF Within
  <2>6. i <= k \/ i = k + 1 BY <2>3
  <2> QED BY <2>4, <2>5, <2>6
<1> HIDE DEF S
<1>3. \A k \in 1..(n + 1) : k \in S BY <1>1, <1>2, FromFirst
<1> QED BY <1>3 DEF S

-----------------------------------------------------------------------------
(* The pass over a file, with the file as a parameter: a step that keeps   *)
(* the file keeps every pass over it.                                      *)

Start(m) == [pc |-> 0, on |-> TRUE, align |-> m]

BeforeIn(k, f, r, b, i) ==
    LET s == k.stmts[i]
        now == b[i]
        size == CASE s.kind \in {"branch", "load"} -> FormSize(f[i])
                  [] s.kind = "res"   -> s.size
                  [] s.kind = "align" -> Padding(k.base + r + now.pc, s)
                  [] OTHER            -> 0
        align == IF s.kind = "align" THEN Coarser(now.align, s.boundary) ELSE now.align
    IN  CASE s.kind = "endif" -> [now EXCEPT !.on = TRUE]
          [] s.kind = "if"    -> [now EXCEPT !.on = k.base + b[s.label].pc < s.bound]
          [] OTHER            -> IF now.on THEN [now EXCEPT !.pc = @ + size, !.align = align]
                                 ELSE now

Runs(w, k, f, r, m, n) ==
    w = [i \in 1..(n + 1) |-> IF i = 1 THEN Start(m) ELSE BeforeIn(k, f, r, w, i - 1)]

Found(k, w) ==
    [at    |-> [i \in 1..(Len(k.stmts) + 1) |-> w[i].pc],
     on    |-> [i \in 1..Len(k.stmts) |-> w[i].on],
     align |-> w[Len(k.stmts) + 1].align]

WalkIn(k, f, r, m) == Found(k, CHOOSE w : Runs(w, k, f, r, m, Len(k.stmts)))

LEMMA WalkIsIn == \A f, r, m : Walk(f, r, m) = WalkIn(source, f, r, m)
BY DEF Walk, WalkIn, Runs, Found, Start, Before, BeforeIn, Stmt, Index

LEMMA FileFacts ==
    ASSUME NEW k \in Source
    PROVE  /\ Len(k.stmts) \in Nat /\ k.object \in BOOLEAN /\ k.base \in Nat
           /\ k.segmentalign \in Powers /\ k.segmentalign \in Nat \ {0}
           /\ k.object => k.base = 0
           /\ \A i \in 1..Len(k.stmts) : k.stmts[i] \in Statement(i, Len(k.stmts), k.object)
BY AsmAssumption DEF Powers

LEMMA StatementFacts ==
    ASSUME NEW n \in Nat, NEW i \in 1..n, NEW object, NEW s \in Statement(i, n, object)
    PROVE  /\ s.kind \in {"branch", "load", "res", "align", "if", "endif"}
           /\ s.kind = "branch" => s.to \in 1..n /\ s.page \in {"flex", "same", "cross"}
           /\ s.kind = "load" => s.operand \in Operand(n)
           /\ s.kind = "res" => s.size \in Nat
           /\ s.kind = "align" => /\ s.boundary \in Nat /\ s.offset \in Nat
                                  /\ s.offset < s.boundary
                                  /\ object => s.boundary \in Powers
           /\ s.kind = "if" => s.label \in 1..i /\ s.bound \in Nat
<1>1. CASE s \in [kind : {"branch"}, to : 1..n, page : {"flex", "same", "cross"}] BY <1>1
<1>2. CASE s \in [kind : {"load"}, operand : Operand(n)] BY <1>2
<1>3. CASE s \in [kind : {"res"}, size : Nat] BY <1>3
<1>4. CASE s \in {t \in [kind : {"align"}, boundary : Nat, offset : Nat] :
              t.offset < t.boundary /\ (object => t.boundary \in Powers)}
  <2>1. s \in [kind : {"align"}, boundary : Nat, offset : Nat] BY <1>4
  <2>2. s.offset < s.boundary BY <1>4
  <2>3. object => s.boundary \in Powers BY <1>4
  <2> QED BY <2>1, <2>2, <2>3
<1>5. CASE s \in [kind : {"if"}, label : 1..i, bound : Nat] BY <1>5
<1>6. CASE s \in [kind : {"endif"}] BY <1>6
<1> QED BY <1>1, <1>2, <1>3, <1>4, <1>5, <1>6 DEF Statement

\* What comes before a statement decides where the pass is after it.
LEMMA BeforeAgrees ==
    ASSUME NEW k \in Source, NEW f, NEW r, NEW i \in 1..Len(k.stmts), NEW b, NEW c,
           \A j \in 1..i : b[j] = c[j]
    PROVE  BeforeIn(k, f, r, b, i) = BeforeIn(k, f, r, c, i)
<1> DEFINE s == k.stmts[i]
<1>1. b[i] = c[i] BY FileFacts
<1>2. s.kind = "if" => b[s.label] = c[s.label]
  <2>1. s \in Statement(i, Len(k.stmts), k.object) /\ Len(k.stmts) \in Nat BY FileFacts
  <2> HIDE DEF s
  <2>2. s.kind = "if" => s.label \in 1..i BY <2>1, StatementFacts
  <2> QED BY <2>2
<1>3. CASE s.kind = "if" BY <1>1, <1>2, <1>3 DEF BeforeIn
<1>4. CASE s.kind # "if" BY <1>1, <1>4 DEF BeforeIn
<1> QED BY <1>3, <1>4

LEMMA RunExists ==
    ASSUME NEW k \in Source, NEW f, NEW r, NEW m
    PROVE  \E w : Runs(w, k, f, r, m, Len(k.stmts))
<1> DEFINE N == Len(k.stmts)
           T == {n \in 1..(N + 1) : \E w : Runs(w, k, f, r, m, n - 1)}
<1>0. N \in Nat BY FileFacts
<1>1. 1 \in T
  <2> DEFINE w == [i \in 1..1 |-> Start(m)]
  <2>1. w = [i \in 1..((1 - 1) + 1) |->
               IF i = 1 THEN Start(m) ELSE BeforeIn(k, f, r, w, i - 1)]
    OBVIOUS
  <2> HIDE DEF w
  <2>2. Runs(w, k, f, r, m, 1 - 1) BY <2>1 DEF Runs
  <2>3. 1 \in 1..(N + 1) BY <1>0
  <2> QED BY <2>2, <2>3
<1>2. ASSUME NEW n \in 1..N, n \in T PROVE n + 1 \in T
  <2>0. n \in Nat /\ n \in 1..(N + 1) /\ n + 1 \in 1..(N + 1) BY <1>0
  <2>1. PICK v : Runs(v, k, f, r, m, n - 1) BY <1>2
  <2>2. v = [i \in 1..n |-> IF i = 1 THEN Start(m) ELSE BeforeIn(k, f, r, v, i - 1)]
    <3>1. (n - 1) + 1 = n BY <2>0
    <3> QED BY <2>1, <3>1 DEF Runs
  <2> DEFINE w == [i \in 1..(n + 1) |-> IF i = n + 1 THEN BeforeIn(k, f, r, v, n) ELSE v[i]]
  <2>3. \A i \in 1..n : w[i] = v[i] BY <2>0
  <2>4. w[n + 1] = BeforeIn(k, f, r, v, n) BY <2>0
  <2>5. w = [i \in 1..(n + 1) |-> w[i]] OBVIOUS
  <2> HIDE DEF w
  <2>6. ASSUME NEW i \in 1..(n + 1)
        PROVE  w[i] = IF i = 1 THEN Start(m) ELSE BeforeIn(k, f, r, w, i - 1)
    <3>1. CASE i = 1
      <4>1. 1 \in 1..n BY <2>0
      <4>2. v[1] = Start(m) BY <4>1, <2>2
      <4> QED BY <4>1, <4>2, <2>3, <3>1
    <3>2. CASE i # 1
      <4> DEFINE j == i - 1
      <4>1. j \in 1..n /\ j \in 1..N /\ j + 1 = i BY <3>2, <2>0, <1>0
      <4> HIDE DEF j
      <4>2. \A q \in 1..j : v[q] = w[q]
        <5>1. \A q \in 1..j : q \in 1..n BY <4>1, <2>0
        <5> QED BY <5>1, <2>3
      <4>3. BeforeIn(k, f, r, v, j) = BeforeIn(k, f, r, w, j) BY <4>1, <4>2, BeforeAgrees
      <4>4. w[i] = BeforeIn(k, f, r, v, j)
        <5>1. CASE i = n + 1
          <6>1. j = n BY <5>1, <4>1, <2>0
          <6> QED BY <6>1, <5>1, <2>4
        <5>2. CASE i # n + 1
          <6>1. i \in 1..n BY <5>2, <2>0
          <6>2. v[i] = BeforeIn(k, f, r, v, i - 1) BY <6>1, <2>2, <3>2
          <6>3. i - 1 = j BY <4>1
          <6> QED BY <6>1, <6>2, <6>3, <2>3
        <5> QED BY <5>1, <5>2
      <4>5. i - 1 = j BY <4>1
      <4> QED BY <4>3, <4>4, <4>5, <3>2
    <3> QED BY <3>1, <3>2
  <2>7. w = [i \in 1..(n + 1) |-> IF i = 1 THEN Start(m) ELSE BeforeIn(k, f, r, w, i - 1)]
    BY <2>5, <2>6
  <2>8. Runs(w, k, f, r, m, n) BY <2>7 DEF Runs
  <2>9. (n + 1) - 1 = n BY <2>0
  <2> QED BY <2>0, <2>8, <2>9
<1> HIDE DEF T, N
<1>3. \A n \in 1..(N + 1) : n \in T BY <1>0, <1>1, <1>2, FromFirst
<1>4. N + 1 \in T BY <1>0, <1>3
<1>5. (N + 1) - 1 = N BY <1>0
<1>6. \E w : Runs(w, k, f, r, m, N) BY <1>4, <1>5 DEF T
<1> QED BY <1>6 DEF N

LEMMA WalkSteps ==
    ASSUME NEW k \in Source, NEW f, NEW r, NEW m
    PROVE  \E w : /\ WalkIn(k, f, r, m) = Found(k, w)
                  /\ w[1] = Start(m)
                  /\ \A i \in 1..Len(k.stmts) : w[i + 1] = BeforeIn(k, f, r, w, i)
<1> DEFINE N == Len(k.stmts)
           w == CHOOSE v : Runs(v, k, f, r, m, N)
<1>0. N \in Nat BY FileFacts
<1>1. Runs(w, k, f, r, m, N) BY RunExists
<1>2. WalkIn(k, f, r, m) = Found(k, w) BY DEF WalkIn
<1> HIDE DEF w
<1>3. w = [i \in 1..(N + 1) |-> IF i = 1 THEN Start(m) ELSE BeforeIn(k, f, r, w, i - 1)]
  BY <1>1 DEF Runs
<1>4. w[1] = Start(m)
  <2>1. 1 \in 1..(N + 1) BY <1>0
  <2> QED BY <2>1, <1>3
<1>5. ASSUME NEW i \in 1..N PROVE w[i + 1] = BeforeIn(k, f, r, w, i)
  <2>1. i + 1 \in 1..(N + 1) /\ i + 1 # 1 /\ (i + 1) - 1 = i BY <1>0
  <2>2. w[i + 1] = BeforeIn(k, f, r, w, (i + 1) - 1) BY <2>1, <1>3
  <2> QED BY <2>1, <2>2
<1> QED BY <1>2, <1>4, <1>5

Place == [pc : Nat, on : BOOLEAN, align : Nat]

FormsFit(k, f) ==
    /\ f \in [1..Len(k.stmts) -> {"long", "short", "abs", "zp", "fixed"}]
    /\ \A i \in 1..Len(k.stmts) :
          CASE k.stmts[i].kind = "branch" -> f[i] \in {"long", "short"}
            [] k.stmts[i].kind = "load"   -> f[i] \in {"abs", "zp"}
            [] OTHER                      -> f[i] = "fixed"

\* The bytes of statement i at address a.
Bytes(k, f, i, a) ==
    LET s == k.stmts[i]
    IN  CASE s.kind \in {"branch", "load"} -> FormSize(f[i])
          [] s.kind = "res"   -> s.size
          [] s.kind = "align" -> Padding(a, s)
          [] OTHER            -> 0

LEMMA BytesType ==
    ASSUME NEW k \in Source, NEW f, FormsFit(k, f), NEW i \in 1..Len(k.stmts), NEW a \in Nat
    PROVE  /\ Bytes(k, f, i, a) \in Nat
           /\ k.stmts[i].kind \in {"if", "endif"} => Bytes(k, f, i, a) = 0
           /\ k.stmts[i].kind = "branch" => Bytes(k, f, i, a) >= 2
           /\ k.stmts[i].kind = "align" => Bytes(k, f, i, a) = Padding(a, k.stmts[i])
           /\ k.stmts[i].kind # "align" => \A b : Bytes(k, f, i, b) = Bytes(k, f, i, a)
<1> DEFINE s == k.stmts[i]
<1>1. Len(k.stmts) \in Nat /\ s \in Statement(i, Len(k.stmts), k.object) BY FileFacts
<1> HIDE DEF s
<1>2. /\ s.kind \in {"branch", "load", "res", "align", "if", "endif"}
      /\ s.kind = "res" => s.size \in Nat
      /\ s.kind = "align" => s.boundary \in Nat /\ s.offset \in Nat /\ s.offset < s.boundary
  BY <1>1, StatementFacts
<1>3. /\ s.kind = "branch" => f[i] \in {"long", "short"}
      /\ s.kind = "load" => f[i] \in {"abs", "zp"}
  BY DEF FormsFit, s
<1>4. CASE s.kind = "branch"
  <2>1. FormSize(f[i]) \in {2, 5} BY <1>3, <1>4 DEF FormSize
  <2> QED BY <1>4, <2>1 DEF Bytes, s
<1>5. CASE s.kind = "load"
  <2>1. FormSize(f[i]) \in {2, 3} BY <1>3, <1>5 DEF FormSize
  <2> QED BY <1>5, <2>1 DEF Bytes, s
<1>6. CASE s.kind = "align"
  <2>1. Padding(a, s) \in Nat BY <1>2, <1>6, PaddingMeets
  <2> QED BY <1>6, <2>1 DEF Bytes, s
<1>7. CASE s.kind \in {"res", "if", "endif"} BY <1>2, <1>7 DEF Bytes, s
<1> QED BY <1>2, <1>4, <1>5, <1>6, <1>7 DEF s

\* One statement of a pass.
Follows(k, f, r, i, now, then) ==
    LET s == k.stmts[i]
    IN  /\ then \in Place
        /\ then.pc = now.pc + IF now.on THEN Bytes(k, f, i, k.base + r + now.pc) ELSE 0
        /\ then.align >= now.align
        /\ s.kind = "align" /\ now.on => then.align >= s.boundary
        /\ k.object /\ now.align \in Powers => then.align \in Powers
        /\ s.kind # "if" /\ now.on => then.on

LEMMA BeforeFollows ==
    ASSUME NEW k \in Source, NEW f, FormsFit(k, f), NEW r \in Nat, NEW i \in 1..Len(k.stmts),
           NEW b, \A j \in 1..i : b[j] \in Place
    PROVE  Follows(k, f, r, i, b[i], BeforeIn(k, f, r, b, i))
<1> DEFINE s == k.stmts[i]
           now == b[i]
           then == BeforeIn(k, f, r, b, i)
           a == k.base + r + now.pc
<1>1. /\ Len(k.stmts) \in Nat /\ s \in Statement(i, Len(k.stmts), k.object)
      /\ k.base \in Nat /\ k.object \in BOOLEAN
  BY FileFacts
<1>2. now \in Place BY <1>1
<1>3. now.pc \in Nat /\ now.on \in BOOLEAN /\ now.align \in Nat BY <1>2 DEF Place
<1>4. a \in Nat /\ now = [pc |-> now.pc, on |-> now.on, align |-> now.align]
  BY <1>1, <1>2, <1>3 DEF Place
<1>5. /\ Bytes(k, f, i, a) \in Nat
      /\ s.kind \in {"if", "endif"} => Bytes(k, f, i, a) = 0
  BY <1>4, BytesType
<1>6. /\ s.kind \in {"branch", "load", "res", "align", "if", "endif"}
      /\ s.kind = "align" => s.boundary \in Nat /\ (k.object => s.boundary \in Powers)
      /\ s.kind = "if" => s.label \in 1..i /\ s.bound \in Nat
  <2> HIDE DEF s
  <2> QED BY <1>1, StatementFacts
<1>7. then = CASE s.kind = "endif" -> [now EXCEPT !.on = TRUE]
               [] s.kind = "if"    -> [now EXCEPT !.on = k.base + b[s.label].pc < s.bound]
               [] OTHER            ->
                    IF now.on
                    THEN [now EXCEPT !.pc = @ + Bytes(k, f, i, a),
                                     !.align = IF s.kind = "align"
                                               THEN Coarser(now.align, s.boundary)
                                               ELSE now.align]
                    ELSE now
  BY DEF BeforeIn, Bytes
<1> HIDE DEF then, now, s
<1>9. CASE s.kind = "endif"
  <2>1. then = [now EXCEPT !.on = TRUE] BY <1>7, <1>9
  <2>2. /\ then \in Place /\ then.pc = now.pc /\ then.align = now.align /\ then.on
    BY <2>1, <1>2, <1>3 DEF Place
  <2> QED BY <1>3, <1>5, <1>9, <2>2 DEF Follows, now, then, s
<1>10. CASE s.kind = "if"
  <2>1. PICK on \in BOOLEAN : then = [now EXCEPT !.on = on]
    <3> DEFINE low == k.base + b[s.label].pc < s.bound
    <3>1. low \in BOOLEAN OBVIOUS
    <3>2. then = [now EXCEPT !.on = low] BY <1>7, <1>10
    <3> HIDE DEF low
    <3> QED BY <3>1, <3>2
  <2>2. /\ then \in Place /\ then.pc = now.pc /\ then.align = now.align
    BY <2>1, <1>2, <1>3 DEF Place
  <2> QED BY <1>3, <1>5, <1>10, <2>2 DEF Follows, now, then, s
<1>11. CASE s.kind \notin {"if", "endif"} /\ ~now.on
  <2>1. then = now BY <1>7, <1>11
  <2> QED BY <2>1, <1>2, <1>3, <1>11 DEF Follows, now, then, s
<1>12. CASE s.kind = "align" /\ now.on
  <2> DEFINE c == Coarser(now.align, s.boundary)
             p == now.pc + Bytes(k, f, i, a)
  <2>0. p \in Nat BY <1>3, <1>5
  <2>1. then = [now EXCEPT !.pc = p, !.align = c] BY <1>7, <1>12
  <2>2. c \in Nat /\ c \in {now.align, s.boundary} /\ c >= now.align /\ c >= s.boundary
    BY <1>3, <1>6, <1>12, CoarserFacts
  <2> HIDE DEF c, p
  <2>3. then = [pc |-> p, on |-> now.on, align |-> c] BY <2>1, <1>4
  <2>4. then \in Place BY <2>0, <2>2, <2>3, <1>3 DEF Place
  <2>5. then.pc = p /\ then.align = c /\ then.on = now.on BY <2>3
  <2> QED BY <1>3, <1>6, <1>12, <2>2, <2>4, <2>5 DEF Follows, now, then, s, p
<1>13. CASE s.kind \in {"branch", "load", "res"} /\ now.on
  <2> DEFINE p == now.pc + Bytes(k, f, i, a)
  <2>0. p \in Nat BY <1>3, <1>5
  <2>1. then = [now EXCEPT !.pc = p, !.align = now.align] BY <1>7, <1>13
  <2> HIDE DEF p
  <2>3. then = [pc |-> p, on |-> now.on, align |-> now.align] BY <2>1, <1>4
  <2>4. then \in Place BY <2>0, <2>3, <1>3 DEF Place
  <2>5. then.pc = p /\ then.align = now.align /\ then.on = now.on BY <2>3
  <2> QED BY <1>3, <1>13, <2>4, <2>5 DEF Follows, now, then, s, p
<1> QED BY <1>3, <1>6, <1>9, <1>10, <1>11, <1>12, <1>13 DEF then, now

\* What a pass leaves.
LayoutFits(k, l) ==
    /\ l.at \in [1..(Len(k.stmts) + 1) -> Nat]
    /\ l.on \in [1..Len(k.stmts) -> BOOLEAN]
    /\ l.align \in Nat
    /\ k.object => l.align \in Powers
    /\ \A i \in 1..Len(k.stmts) : l.at[i] <= l.at[i + 1]

IsPass(k, f, r, m, l) ==
    /\ LayoutFits(k, l)
    /\ l.at[1] = 0
    /\ \A i \in 1..Len(k.stmts) :
          l.at[i + 1] = l.at[i] + IF l.on[i] THEN Bytes(k, f, i, k.base + r + l.at[i]) ELSE 0
    /\ l.align >= m
    /\ \A i \in 1..Len(k.stmts) :
          k.stmts[i].kind = "align" /\ l.on[i] => l.align >= k.stmts[i].boundary
    /\ (\A i \in 1..Len(k.stmts) : k.stmts[i].kind # "if") =>
          \A i \in 1..Len(k.stmts) : l.on[i]

LEMMA WalkFacts ==
    ASSUME NEW k \in Source, NEW f, FormsFit(k, f), NEW r \in Nat, NEW m \in Nat,
           k.object => m \in Powers
    PROVE  IsPass(k, f, r, m, WalkIn(k, f, r, m))
<1> DEFINE N == Len(k.stmts)
           l == WalkIn(k, f, r, m)
           Plain == \A i \in 1..N : k.stmts[i].kind # "if"
<1>0. N \in Nat BY FileFacts
<1>1. PICK w : /\ l = Found(k, w)
               /\ w[1] = Start(m)
               /\ \A i \in 1..N : w[i + 1] = BeforeIn(k, f, r, w, i)
  BY WalkSteps
<1>2. w[1] \in Place /\ w[1].pc = 0 /\ w[1].on /\ w[1].align = m BY <1>1 DEF Start, Place
<1>3. \A i \in 1..(N + 1) : \A j \in 1..i : w[j] \in Place
  <2> DEFINE S == {i \in 1..(N + 1) : \A j \in 1..i : w[j] \in Place}
  <2>1. 1 \in S BY <1>2, <1>0
  <2>2. ASSUME NEW i \in 1..N, i \in S PROVE i + 1 \in S
    <3>1. \A j \in 1..i : w[j] \in Place BY <2>2
    <3>2. Follows(k, f, r, i, w[i], BeforeIn(k, f, r, w, i)) BY <3>1, BeforeFollows
    <3>3. w[i + 1] \in Place BY <3>2, <1>1 DEF Follows
    <3>4. \A j \in 1..(i + 1) : j \in 1..i \/ j = i + 1 BY <1>0
    <3>5. \A j \in 1..(i + 1) : w[j] \in Place BY <3>1, <3>3, <3>4
    <3>6. i + 1 \in 1..(N + 1) BY <1>0
    <3> QED BY <3>5, <3>6
  <2> HIDE DEF S, N
  <2>3. \A i \in 1..(N + 1) : i \in S BY <1>0, <2>1, <2>2, FromFirst
  <2> QED BY <2>3 DEF S
<1>4. \A i \in 1..N : Follows(k, f, r, i, w[i], w[i + 1])
  <2> SUFFICES ASSUME NEW i \in 1..N PROVE Follows(k, f, r, i, w[i], w[i + 1]) OBVIOUS
  <2>1. i \in 1..(N + 1) BY <1>0
  <2>2. \A j \in 1..i : w[j] \in Place BY <2>1, <1>3
  <2>3. Follows(k, f, r, i, w[i], BeforeIn(k, f, r, w, i)) BY <2>2, BeforeFollows
  <2> QED BY <2>3, <1>1
<1>5. \A i \in 1..(N + 1) : w[i].pc \in Nat /\ w[i].on \in BOOLEAN /\ w[i].align \in Nat
  BY <1>3, <1>0 DEF Place
<1>6. \A i \in 1..(N + 1) :
        /\ w[i].align >= m
        /\ k.object => w[i].align \in Powers
        /\ \A j \in 1..N : j < i /\ k.stmts[j].kind = "align" /\ w[j].on
                              => w[i].align >= k.stmts[j].boundary
  <2> DEFINE S == {i \in 1..(N + 1) :
                     /\ w[i].align >= m
                     /\ k.object => w[i].align \in Powers
                     /\ \A j \in 1..N : j < i /\ k.stmts[j].kind = "align" /\ w[j].on
                                          => w[i].align >= k.stmts[j].boundary}
  <2>1. 1 \in S
    <3>1. 1 \in 1..(N + 1) /\ \A j \in 1..N : ~(j < 1) BY <1>0
    <3> QED BY <3>1, <1>2
  <2>2. ASSUME NEW i \in 1..N, i \in S PROVE i + 1 \in S
    <3>1. i \in 1..(N + 1) /\ i + 1 \in 1..(N + 1) BY <1>0
    <3>2. /\ w[i + 1].align >= w[i].align
          /\ k.stmts[i].kind = "align" /\ w[i].on => w[i + 1].align >= k.stmts[i].boundary
          /\ k.object /\ w[i].align \in Powers => w[i + 1].align \in Powers
      BY <1>4 DEF Follows
    <3>3. w[i].align \in Nat /\ w[i + 1].align \in Nat BY <3>1, <1>5
    <3>4. /\ w[i].align >= m
          /\ k.object => w[i].align \in Powers
          /\ \A j \in 1..N : j < i /\ k.stmts[j].kind = "align" /\ w[j].on
                                => w[i].align >= k.stmts[j].boundary
      BY <2>2
    <3>5. w[i + 1].align >= m BY <3>2, <3>3, <3>4
    <3>6. ASSUME NEW j \in 1..N, j < i + 1, k.stmts[j].kind = "align", w[j].on
          PROVE  w[i + 1].align >= k.stmts[j].boundary
      <4>1. CASE j = i BY <4>1, <3>2, <3>6
      <4>2. CASE j < i
        <5>1. w[i].align >= k.stmts[j].boundary BY <4>2, <3>4, <3>6
        <5>2. k.stmts[j].boundary \in Nat
          <6>1. k.stmts[j] \in Statement(j, N, k.object) BY FileFacts
          <6> HIDE DEF N
          <6> QED BY <6>1, <1>0, <3>6, StatementFacts
        <5> QED BY <5>1, <5>2, <3>2, <3>3
      <4> QED BY <4>1, <4>2, <3>6, <1>0
    <3> QED BY <3>1, <3>2, <3>4, <3>5, <3>6
  <2> HIDE DEF S, N
  <2>3. \A i \in 1..(N + 1) : i \in S BY <1>0, <2>1, <2>2, FromFirst
  <2> QED BY <2>3 DEF S
<1>7. Plain => \A i \in 1..(N + 1) : w[i].on
  <2> SUFFICES ASSUME Plain PROVE \A i \in 1..(N + 1) : w[i].on OBVIOUS
  <2> DEFINE S == {i \in 1..(N + 1) : w[i].on}
  <2>1. 1 \in S BY <1>2, <1>0
  <2>2. ASSUME NEW i \in 1..N, i \in S PROVE i + 1 \in S
    <3>1. w[i + 1].on BY <2>2, <1>4 DEF Follows
    <3> QED BY <3>1, <1>0
  <2> HIDE DEF S, N
  <2>3. \A i \in 1..(N + 1) : i \in S BY <1>0, <2>1, <2>2, FromFirst
  <2> QED BY <2>3 DEF S
<1>8. /\ l.at = [i \in 1..(N + 1) |-> w[i].pc]
      /\ l.on = [i \in 1..N |-> w[i].on]
      /\ l.align = w[N + 1].align
  BY <1>1 DEF Found
<1> HIDE DEF l
<1>9. /\ \A i \in 1..(N + 1) : l.at[i] = w[i].pc
      /\ \A i \in 1..N : l.on[i] = w[i].on
  BY <1>8
<1>10. N + 1 \in 1..(N + 1) /\ 1 \in 1..(N + 1) /\ \A i \in 1..N : i < N + 1 /\ i \in 1..(N + 1)
  BY <1>0
<1>17. \A i \in 1..N : l.at[i] <= l.at[i + 1]
  <2> SUFFICES ASSUME NEW i \in 1..N PROVE l.at[i] <= l.at[i + 1] OBVIOUS
  <2>1. i + 1 \in 1..(N + 1) /\ i \in 1..(N + 1) BY <1>0
  <2>2. l.at[i + 1] = w[i + 1].pc /\ l.at[i] = w[i].pc BY <2>1, <1>9
  <2>3. w[i + 1].pc = w[i].pc + IF w[i].on THEN Bytes(k, f, i, k.base + r + w[i].pc) ELSE 0
    BY <1>4 DEF Follows
  <2>4. w[i].pc \in Nat /\ k.base + r + w[i].pc \in Nat BY <2>1, <1>5, FileFacts
  <2>5. Bytes(k, f, i, k.base + r + w[i].pc) \in Nat BY <2>4, BytesType
  <2> QED BY <2>2, <2>3, <2>4, <2>5
<1>11. LayoutFits(k, l)
  <2>1. l.at \in [1..(N + 1) -> Nat] BY <1>5, <1>8
  <2>2. l.on \in [1..N -> BOOLEAN] BY <1>5, <1>8, <1>10
  <2>3. l.align \in Nat /\ (k.object => l.align \in Powers) BY <1>5, <1>6, <1>8, <1>10
  <2> QED BY <2>1, <2>2, <2>3, <1>17 DEF LayoutFits
<1>12. l.at[1] = 0 BY <1>2, <1>9, <1>10
<1>13. ASSUME NEW i \in 1..N
       PROVE  l.at[i + 1] = l.at[i] + IF l.on[i] THEN Bytes(k, f, i, k.base + r + l.at[i]) ELSE 0
  <2>1. i + 1 \in 1..(N + 1) /\ i \in 1..(N + 1) BY <1>0
  <2>2. l.at[i + 1] = w[i + 1].pc /\ l.at[i] = w[i].pc /\ l.on[i] = w[i].on BY <2>1, <1>9
  <2>3. w[i + 1].pc = w[i].pc + IF w[i].on THEN Bytes(k, f, i, k.base + r + w[i].pc) ELSE 0
    BY <1>4 DEF Follows
  <2> QED BY <2>2, <2>3
<1>14. l.align >= m BY <1>6, <1>8, <1>10
<1>15. ASSUME NEW i \in 1..N, k.stmts[i].kind = "align", l.on[i]
       PROVE  l.align >= k.stmts[i].boundary
  <2>1. w[i].on BY <1>9, <1>15
  <2> QED BY <2>1, <1>6, <1>8, <1>10, <1>15
<1>16. Plain => \A i \in 1..N : l.on[i] BY <1>7, <1>9, <1>10
<1> QED BY <1>11, <1>12, <1>13, <1>14, <1>15, <1>16 DEF IsPass, l

\* Only labels and code of one form: nothing but the forms decides the offsets.
Rigid(k) == \A i \in 1..Len(k.stmts) : k.stmts[i].kind \notin {"if", "align"}

Shrinks(k, f, g) ==
    \A i \in 1..Len(k.stmts) :
        k.stmts[i].kind \in {"branch", "load"} => FormSize(g[i]) <= FormSize(f[i])

ReachesIn(k, l, i) == Reaches(l.at[i], l.at[k.stmts[i].to])

LEMMA SumType ==
    ASSUME NEW p \in Nat, NEW q \in Nat, NEW r \in Nat
    PROVE  p + q + r \in Nat
OBVIOUS

LEMMA LengthsCompare ==
    ASSUME NEW p \in Nat, NEW q \in Nat, NEW s \in Nat, NEW t \in Nat, t <= s,
           NEW u, u = p + s, NEW v, v = q + t
    PROVE  /\ u - p \in Nat /\ v - q \in Nat /\ v - q <= u - p
           /\ t >= 2 => v - q >= 2
OBVIOUS

LEMMA ForthShrinks ==
    ASSUME NEW a, NEW b, NEW i, NEW j, a[i] \in Nat, a[j] \in Nat, b[i] \in Nat, b[j] \in Nat,
           b[j] - b[i] <= a[j] - a[i], 2 <= b[j] - b[i], a[j] - (a[i] + 2) \in -Back..Forth
    PROVE  b[j] - (b[i] + 2) \in -Back..Forth
<1>1. Back \in Nat /\ Forth \in Nat BY AsmAssumption
<1> QED BY <1>1

LEMMA BackShrinks ==
    ASSUME NEW a, NEW b, NEW i, NEW j, a[i] \in Nat, a[j] \in Nat, b[i] \in Nat, b[j] \in Nat,
           b[i] - b[j] <= a[i] - a[j], 0 <= b[i] - b[j], a[j] - (a[i] + 2) \in -Back..Forth
    PROVE  b[j] - (b[i] + 2) \in -Back..Forth
<1>1. Back \in Nat /\ Forth \in Nat BY AsmAssumption
<1> QED BY <1>1

\* In such a file a branch that reaches its target keeps reaching it.
LEMMA ShrinkingKeepsReach ==
    ASSUME NEW k \in Source, Rigid(k), NEW f, FormsFit(k, f), NEW g, FormsFit(k, g),
           Shrinks(k, f, g),
           NEW q \in Nat, NEW m, NEW l, IsPass(k, f, q, m, l),
           NEW r \in Nat, NEW n, NEW h, IsPass(k, g, r, n, h),
           NEW i \in 1..Len(k.stmts), k.stmts[i].kind = "branch", ReachesIn(k, l, i)
    PROVE  ReachesIn(k, h, i)
<1> DEFINE N == Len(k.stmts)
           a == l.at
           b == h.at
           j == k.stmts[i].to
<1>0. N \in Nat /\ k.base \in Nat BY FileFacts
<1>1. j \in 1..N
  <2>1. k.stmts[i] \in Statement(i, N, k.object) BY FileFacts
  <2> QED BY <2>1, <1>0, StatementFacts
<1>2. a \in [1..(N + 1) -> Nat] /\ b \in [1..(N + 1) -> Nat] BY DEF IsPass, LayoutFits
<1>3. \A x \in 1..N : l.on[x] /\ h.on[x] BY DEF IsPass, Rigid
<1>4. \A x \in 1..N : /\ a[x + 1] = a[x] + Bytes(k, f, x, k.base + q + a[x])
                      /\ b[x + 1] = b[x] + Bytes(k, g, x, k.base + r + b[x])
  BY <1>3 DEF IsPass
<1> HIDE DEF a, b
<1>5. ASSUME NEW x \in 1..N
      PROVE  /\ b[x + 1] - b[x] \in Nat /\ a[x + 1] - a[x] \in Nat
             /\ b[x + 1] - b[x] <= a[x + 1] - a[x]
             /\ k.stmts[x].kind = "branch" => b[x + 1] - b[x] >= 2
  <2> DEFINE u == k.base + q + a[x]
             v == k.base + r + b[x]
             s == Bytes(k, f, x, u)
             t == Bytes(k, g, x, v)
  <2>1. a[x] \in Nat /\ b[x] \in Nat
    <3>1. x \in 1..(N + 1) BY <1>0
    <3> QED BY <3>1, <1>2
  <2>2. u \in Nat /\ v \in Nat BY <2>1, <1>0, SumType, Zenon
  <2>3. s \in Nat /\ t \in Nat /\ (k.stmts[x].kind = "branch" => t >= 2)
    BY <2>2, BytesType
  <2>4. t <= s
    <3>1. CASE k.stmts[x].kind \in {"branch", "load"}
      BY <3>1 DEF Bytes, Shrinks
    <3>2. CASE k.stmts[x].kind \notin {"branch", "load"}
      <4>1. k.stmts[x].kind # "align" BY DEF Rigid
      <4>2. t = s BY <3>2, <4>1 DEF Bytes
      <4> QED BY <4>2, <2>3
    <3> QED BY <3>1, <3>2
  <2>5. a[x + 1] = a[x] + s /\ b[x + 1] = b[x] + t BY <1>4
  <2> HIDE DEF s, t, N
  <2> QED BY <2>1, <2>3, <2>4, <2>5, LengthsCompare, Zenon
<1> HIDE DEF N
<1>6. NoLonger(N, a, b)
  <2> SUFFICES ASSUME NEW x \in 1..N PROVE Within(a, b, x, x + 1) BY DEF NoLonger
  <2> QED BY <1>5 DEF Within
<1>7. i \in 1..(N + 1) /\ j \in 1..(N + 1) /\ i + 1 \in 1..(N + 1) /\ i \in 1..N
  BY <1>0, <1>1 DEF N
<1>8. /\ a[i] \in Nat /\ a[j] \in Nat /\ a[i + 1] \in Nat
      /\ b[i] \in Nat /\ b[j] \in Nat /\ b[i + 1] \in Nat
  BY <1>2, <1>7
<1>9. a[j] - (a[i] + 2) \in -Back..Forth BY DEF ReachesIn, Reaches, a
<1>10. b[j] - (b[i] + 2) \in -Back..Forth
  <2>2. CASE j <= i
    <3>1. Within(a, b, j, i) BY <2>2, <1>0, <1>2, <1>6, <1>7, Apart
    <3>2. 0 <= b[i] - b[j] /\ b[i] - b[j] <= a[i] - a[j] BY <3>1 DEF Within
    <3> QED BY <3>2, <1>8, <1>9, BackShrinks
  <2>3. CASE i < j
    <3>1. i + 1 <= j /\ i <= j BY <2>3, <1>7, <1>0
    <3>2. Within(a, b, i, j) /\ Within(a, b, i + 1, j)
      BY <3>1, <1>0, <1>2, <1>6, <1>7, Apart
    <3>3. b[j] - b[i] <= a[j] - a[i] /\ 0 <= b[j] - b[i + 1] BY <3>2 DEF Within
    <3>4. b[i + 1] - b[i] >= 2 BY <1>5, <1>7
    <3>5. 2 <= b[j] - b[i] BY <3>3, <3>4, <1>8
    <3> QED BY <3>3, <3>5, <1>8, <1>9, ForthShrinks
  <2>4. j <= i \/ i < j BY <1>7, <1>0
  <2> QED BY <2>2, <2>3, <2>4
<1> QED BY <1>10 DEF ReachesIn, Reaches, b

-----------------------------------------------------------------------------
(* What relaxing changes. *)

LEMMA InitialForms == source \in Source => FormsFit(source, [i \in Index |-> Longest(i)])
<1> SUFFICES ASSUME source \in Source PROVE FormsFit(source, [i \in Index |-> Longest(i)])
  OBVIOUS
<1>1. \A i \in Index : /\ IsA(i, "branch") => Longest(i) = "long"
                       /\ IsA(i, "load") => Longest(i) = "abs"
                       /\ ~IsA(i, "branch") /\ ~IsA(i, "load") => Longest(i) = "fixed"
  BY DEF Longest, IsA
<1>2. \A i \in Index : Longest(i) \in {"long", "short", "abs", "zp", "fixed"} BY <1>1
<1> HIDE DEF Longest
<1> QED BY <1>1, <1>2 DEF FormsFit, IsA, Stmt, Index

LEMMA RelaxedFacts ==
    ASSUME source \in Source, FormsFit(source, form), NEW l
    PROVE  /\ FormsFit(source, Relaxed(l))
           /\ Shrinks(source, form, Relaxed(l))
           /\ \A i \in Index : IsA(i, "branch") /\ Relaxed(l)[i] = "short" =>
                 form[i] = "short" \/ (form[i] = "long" /\ CanShorten(l, i))
           /\ Relaxed(l) = form =>
                 \A i \in Index : /\ form[i] = "long" => ~CanShorten(l, i)
                                  /\ form[i] = "abs" => ~CanZeroPage(l, i)
<1> DEFINE g == Relaxed(l)
<1>1. g = [i \in Index |-> CASE form[i] = "long" /\ CanShorten(l, i)  -> "short"
                             [] form[i] = "abs"  /\ CanZeroPage(l, i) -> "zp"
                             [] OTHER -> form[i]]
  BY DEF Relaxed
<1> HIDE DEF g
<1>2. ASSUME NEW i \in Index
      PROVE  \/ form[i] = "long" /\ CanShorten(l, i) /\ g[i] = "short"
             \/ form[i] = "abs" /\ CanZeroPage(l, i) /\ g[i] = "zp"
             \/ /\ g[i] = form[i]
                /\ ~(form[i] = "long" /\ CanShorten(l, i))
                /\ ~(form[i] = "abs" /\ CanZeroPage(l, i))
  <2>1. g[i] = CASE form[i] = "long" /\ CanShorten(l, i)  -> "short"
                 [] form[i] = "abs"  /\ CanZeroPage(l, i) -> "zp"
                 [] OTHER -> form[i]
    BY <1>1
  <2>2. CASE form[i] = "long" /\ CanShorten(l, i) BY <2>1, <2>2
  <2>3. CASE form[i] = "abs" /\ CanZeroPage(l, i) BY <2>1, <2>3
  <2>4. CASE /\ ~(form[i] = "long" /\ CanShorten(l, i))
             /\ ~(form[i] = "abs" /\ CanZeroPage(l, i))
    BY <2>1, <2>4
  <2> QED BY <2>2, <2>3, <2>4
<1>3. \A i \in Index :
        /\ form[i] \in {"long", "short", "abs", "zp", "fixed"}
        /\ IsA(i, "branch") => form[i] \in {"long", "short"}
        /\ IsA(i, "load") => form[i] \in {"abs", "zp"}
        /\ ~IsA(i, "branch") /\ ~IsA(i, "load") => form[i] = "fixed"
  BY DEF FormsFit, Index, IsA, Stmt
<1>4. \A i \in Index :
        /\ g[i] \in {"long", "short", "abs", "zp", "fixed"}
        /\ IsA(i, "branch") => g[i] \in {"long", "short"}
        /\ IsA(i, "load") => g[i] \in {"abs", "zp"}
        /\ ~IsA(i, "branch") /\ ~IsA(i, "load") => g[i] = "fixed"
  BY <1>2, <1>3
<1>5. FormsFit(source, g)
  <2>1. g \in [Index -> {"long", "short", "abs", "zp", "fixed"}]
    <3>1. DOMAIN g = Index /\ g = [i \in Index |-> g[i]] BY <1>1
    <3> QED BY <3>1, <1>4
  <2> QED BY <2>1, <1>4 DEF FormsFit, Index, IsA, Stmt
<1>6. Shrinks(source, form, g)
  <2> SUFFICES ASSUME NEW i \in Index, IsA(i, "branch") \/ IsA(i, "load")
               PROVE  FormSize(g[i]) <= FormSize(form[i])
    BY DEF Shrinks, Index, IsA, Stmt
  <2>1. form[i] \in {"long", "short", "abs", "zp"} BY <1>3
  <2> QED BY <1>2, <2>1 DEF FormSize
<1>7. \A i \in Index : IsA(i, "branch") /\ g[i] = "short" =>
        form[i] = "short" \/ (form[i] = "long" /\ CanShorten(l, i))
  BY <1>2, <1>3
<1>8. g = form => \A i \in Index : /\ form[i] = "long" => ~CanShorten(l, i)
                                   /\ form[i] = "abs" => ~CanZeroPage(l, i)
  BY <1>2
<1> QED BY <1>5, <1>6, <1>7, <1>8 DEF g

-----------------------------------------------------------------------------
(* What the selection measures. *)

Behind(r, at, i) == at + IF IsA(i, "align") /\ layout.on[i]
                         THEN Padding(r + at, Stmt[i])
                         ELSE layout.at[i + 1] - layout.at[i]

Moves(w, r, n) ==
    w = [i \in 1..(n + 1) |-> IF i = 1 THEN 0 ELSE Behind(r, w[i - 1], i - 1)]

LEMMA MovesExist ==
    ASSUME source \in Source, NEW r
    PROVE  \E w : Moves(w, r, Len(Stmt))
<1> DEFINE N == Len(Stmt)
           T == {n \in 1..(N + 1) : \E w : Moves(w, r, n - 1)}
<1>0. N \in Nat BY FileFacts DEF Stmt
<1>1. 1 \in T
  <2> DEFINE w == [i \in 1..1 |-> 0]
  <2>1. w = [i \in 1..((1 - 1) + 1) |-> IF i = 1 THEN 0 ELSE Behind(r, w[i - 1], i - 1)]
    OBVIOUS
  <2> HIDE DEF w
  <2>2. Moves(w, r, 1 - 1) BY <2>1 DEF Moves
  <2>3. 1 \in 1..(N + 1) BY <1>0
  <2> QED BY <2>2, <2>3
<1>2. ASSUME NEW n \in 1..N, n \in T PROVE n + 1 \in T
  <2>0. n \in Nat /\ n \in 1..(N + 1) /\ n + 1 \in 1..(N + 1) BY <1>0
  <2>1. PICK v : Moves(v, r, n - 1) BY <1>2
  <2>2. v = [i \in 1..n |-> IF i = 1 THEN 0 ELSE Behind(r, v[i - 1], i - 1)]
    <3>1. (n - 1) + 1 = n BY <2>0
    <3> QED BY <2>1, <3>1 DEF Moves
  <2> DEFINE w == [i \in 1..(n + 1) |-> IF i = n + 1 THEN Behind(r, v[n], n) ELSE v[i]]
  <2>3. \A i \in 1..n : w[i] = v[i] BY <2>0
  <2>4. w[n + 1] = Behind(r, v[n], n) BY <2>0
  <2>5. w = [i \in 1..(n + 1) |-> w[i]] OBVIOUS
  <2> HIDE DEF w
  <2>6. ASSUME NEW i \in 1..(n + 1)
        PROVE  w[i] = IF i = 1 THEN 0 ELSE Behind(r, w[i - 1], i - 1)
    <3>1. CASE i = 1
      <4>1. 1 \in 1..n BY <2>0
      <4>2. v[1] = 0 BY <4>1, <2>2
      <4> QED BY <4>1, <4>2, <2>3, <3>1
    <3>2. CASE i # 1
      <4>1. i - 1 \in 1..n BY <3>2, <2>0
      <4>2. w[i - 1] = v[i - 1] BY <4>1, <2>3
      <4>3. CASE i = n + 1
        <5>1. i - 1 = n BY <4>3, <2>0
        <5> QED BY <5>1, <4>2, <4>3, <2>4, <3>2
      <4>4. CASE i # n + 1
        <5>1. i \in 1..n BY <4>4, <2>0
        <5>2. v[i] = Behind(r, v[i - 1], i - 1) BY <5>1, <2>2, <3>2
        <5> QED BY <5>1, <5>2, <4>2, <2>3, <3>2
      <4> QED BY <4>3, <4>4
    <3> QED BY <3>1, <3>2
  <2>7. w = [i \in 1..(n + 1) |-> IF i = 1 THEN 0 ELSE Behind(r, w[i - 1], i - 1)]
    BY <2>5, <2>6
  <2>8. Moves(w, r, n) BY <2>7 DEF Moves
  <2>9. (n + 1) - 1 = n BY <2>0
  <2> QED BY <2>0, <2>8, <2>9
<1> HIDE DEF T, N
<1>3. \A n \in 1..(N + 1) : n \in T BY <1>0, <1>1, <1>2, FromFirst
<1>4. N + 1 \in T BY <1>0, <1>3
<1>5. (N + 1) - 1 = N BY <1>0
<1>6. \E w : Moves(w, r, N) BY <1>4, <1>5 DEF T
<1> QED BY <1>6 DEF N

LEMMA MovedSteps ==
    ASSUME source \in Source, NEW r
    PROVE  /\ Moved(r)[1] = 0
           /\ \A i \in Index : Moved(r)[i + 1] = Behind(r, Moved(r)[i], i)
           /\ DOMAIN Moved(r) = 1..(Len(Stmt) + 1)
<1> DEFINE N == Len(Stmt)
           w == CHOOSE v : Moves(v, r, N)
<1>0. N \in Nat BY FileFacts DEF Stmt
<1>1. Moves(w, r, N) BY MovesExist
<1>2. Moved(r) = w BY DEF Moved, Moves, Behind
<1> HIDE DEF w
<1>3. w = [i \in 1..(N + 1) |-> IF i = 1 THEN 0 ELSE Behind(r, w[i - 1], i - 1)]
  BY <1>1 DEF Moves
<1>4. w[1] = 0
  <2>1. 1 \in 1..(N + 1) BY <1>0
  <2> QED BY <2>1, <1>3
<1>5. ASSUME NEW i \in 1..N PROVE w[i + 1] = Behind(r, w[i], i)
  <2>1. i + 1 \in 1..(N + 1) /\ i + 1 # 1 /\ (i + 1) - 1 = i BY <1>0
  <2>2. w[i + 1] = Behind(r, w[(i + 1) - 1], (i + 1) - 1) BY <2>1, <1>3
  <2> QED BY <2>1, <2>2
<1>6. DOMAIN w = 1..(N + 1) BY <1>3
<1> QED BY <1>2, <1>4, <1>5, <1>6 DEF Index, Stmt

LEMMA MovedType ==
    ASSUME source \in Source, LayoutFits(source, layout), NEW r \in Nat
    PROVE  Moved(r) \in [1..(Len(Stmt) + 1) -> Nat]
<1> DEFINE N == Len(Stmt)
           m == Moved(r)
           S == {i \in 1..(N + 1) : m[i] \in Nat}
<1>0. N \in Nat BY FileFacts DEF Stmt
<1>1. /\ m[1] = 0
      /\ \A i \in 1..N : m[i + 1] = Behind(r, m[i], i)
      /\ DOMAIN m = 1..(N + 1)
  BY MovedSteps DEF Index, Stmt
<1>9. m = [i \in 1..(N + 1) |-> m[i]]
  <2> DEFINE w == CHOOSE v : Moves(v, r, N)
  <2>1. Moves(w, r, N) BY MovesExist
  <2>2. Moved(r) = w BY DEF Moved, Moves, Behind
  <2> HIDE DEF w
  <2>3. w = [i \in 1..(N + 1) |-> IF i = 1 THEN 0 ELSE Behind(r, w[i - 1], i - 1)]
    BY <2>1 DEF Moves
  <2>4. w = [i \in 1..(N + 1) |-> w[i]] BY <2>3
  <2> QED BY <2>2, <2>4
<1> HIDE DEF m
<1>2. 1 \in S BY <1>0, <1>1
<1>3. ASSUME NEW i \in 1..N, i \in S PROVE i + 1 \in S
  <2>1. i + 1 \in 1..(N + 1) /\ i \in 1..(N + 1) /\ m[i] \in Nat BY <1>0, <1>3
  <2>2. /\ layout.at[i] \in Nat /\ layout.at[i + 1] \in Nat
        /\ layout.at[i] <= layout.at[i + 1]
    BY <2>1 DEF LayoutFits, Stmt
  <2>3. IsA(i, "align") => Padding(r + m[i], Stmt[i]) \in Nat
    <3>1. Stmt[i] \in Statement(i, N, source.object) BY FileFacts DEF Stmt
    <3> HIDE DEF N
    <3>2. IsA(i, "align") => /\ Stmt[i].boundary \in Nat /\ Stmt[i].offset \in Nat
                             /\ Stmt[i].offset < Stmt[i].boundary
      BY <3>1, <1>0, StatementFacts DEF IsA
    <3>3. r + m[i] \in Nat BY <2>1
    <3> QED BY <3>2, <3>3, PaddingMeets
  <2>4. m[i + 1] = Behind(r, m[i], i) BY <1>1
  <2>5. Behind(r, m[i], i) \in Nat
    <3>1. CASE IsA(i, "align") /\ layout.on[i] BY <3>1, <2>1, <2>3 DEF Behind
    <3>2. CASE ~(IsA(i, "align") /\ layout.on[i]) BY <3>2, <2>1, <2>2 DEF Behind
    <3> QED BY <3>1, <3>2
  <2> QED BY <2>1, <2>4, <2>5
<1> HIDE DEF S, N
<1>4. \A i \in 1..(N + 1) : i \in S BY <1>0, <1>2, <1>3, FromFirst
<1>5. \A i \in 1..(N + 1) : m[i] \in Nat BY <1>4 DEF S
<1> QED BY <1>5, <1>9 DEF N, m

\* The selection measures what a pass at that residue would find, as long as
\* the same statements are active in both.
LEMMA MovedIsPass ==
    ASSUME source \in Source, source.base = 0, FormsFit(source, form),
           NEW q \in Nat, NEW m, IsPass(source, form, q, m, layout),
           NEW r \in Nat, NEW n, NEW l, IsPass(source, form, r, n, l),
           l.on = layout.on
    PROVE  \A i \in 1..(Len(Stmt) + 1) : Moved(r)[i] = l.at[i]
<1> DEFINE N == Len(Stmt)
           w == Moved(r)
           S == {i \in 1..(N + 1) : w[i] = l.at[i]}
<1>0. N \in Nat BY FileFacts DEF Stmt
<1>1. /\ w[1] = 0
      /\ \A i \in 1..N : w[i + 1] = Behind(r, w[i], i)
  BY MovedSteps DEF Index, Stmt
<1> HIDE DEF w
<1>2. /\ l.at \in [1..(N + 1) -> Nat] /\ layout.at \in [1..(N + 1) -> Nat]
      /\ l.at[1] = 0
      /\ \A i \in 1..N :
            l.at[i + 1] = l.at[i] + IF l.on[i] THEN Bytes(source, form, i, 0 + r + l.at[i])
                                               ELSE 0
      /\ \A i \in 1..N :
            layout.at[i + 1] = layout.at[i]
               + IF l.on[i] THEN Bytes(source, form, i, 0 + q + layout.at[i]) ELSE 0
  BY DEF IsPass, LayoutFits, Stmt
<1>3. 1 \in S BY <1>0, <1>1, <1>2
<1>4. ASSUME NEW i \in 1..N, i \in S PROVE i + 1 \in S
  <2>1. i + 1 \in 1..(N + 1) /\ i \in 1..(N + 1) /\ w[i] = l.at[i] BY <1>0, <1>4
  <2>2. /\ l.at[i] \in Nat /\ layout.at[i] \in Nat BY <2>1, <1>2
  <2>3. 0 + r + l.at[i] \in Nat /\ 0 + r + l.at[i] = r + l.at[i] /\ 0 + q + layout.at[i] \in Nat
    BY <2>2
  <2> DEFINE u == 0 + r + l.at[i]
             v == 0 + q + layout.at[i]
             b == Bytes(source, form, i, u)
             c == Bytes(source, form, i, v)
  <2>4. /\ b \in Nat /\ c \in Nat
        /\ IsA(i, "align") => b = Padding(u, Stmt[i])
        /\ ~IsA(i, "align") => c = b
    <3>1. i \in 1..Len(source.stmts) BY DEF Stmt
    <3>2. u \in Nat /\ v \in Nat BY <2>3
    <3> HIDE DEF u, v
    <3>3. c \in Nat BY <3>1, <3>2, BytesType
    <3>4. /\ b \in Nat
          /\ source.stmts[i].kind = "align" => b = Padding(u, source.stmts[i])
          /\ source.stmts[i].kind # "align" => \A a : Bytes(source, form, i, a) = b
      BY <3>1, <3>2, BytesType
    <3> QED BY <3>3, <3>4 DEF IsA, Stmt
  <2>5. w[i + 1] = Behind(r, l.at[i], i) BY <1>1, <2>1
  <2>6. /\ l.at[i + 1] = l.at[i] + IF l.on[i] THEN b ELSE 0
        /\ layout.at[i + 1] = layout.at[i] + IF l.on[i] THEN c ELSE 0
    BY <1>2
  <2> HIDE DEF b, c
  <2>7. CASE IsA(i, "align") /\ l.on[i]
    <3>1. w[i + 1] = l.at[i] + Padding(r + l.at[i], Stmt[i]) BY <2>5, <2>7 DEF Behind
    <3> QED BY <3>1, <2>1, <2>3, <2>4, <2>6, <2>7
  <2>8. CASE ~(IsA(i, "align") /\ l.on[i])
    <3>1. w[i + 1] = l.at[i] + (layout.at[i + 1] - layout.at[i]) BY <2>5, <2>8 DEF Behind
    <3>2. CASE l.on[i]
      <4>1. b = c /\ l.at[i + 1] = l.at[i] + b /\ layout.at[i + 1] = layout.at[i] + b
        BY <2>4, <2>6, <2>8, <3>2
      <4> QED BY <4>1, <3>1, <2>1, <2>2, <2>4
    <3>3. CASE ~l.on[i]
      <4>1. l.at[i + 1] = l.at[i] /\ layout.at[i + 1] = layout.at[i] BY <2>2, <2>6, <3>3
      <4> QED BY <4>1, <3>1, <2>1, <2>2
    <3> QED BY <3>2, <3>3
  <2> QED BY <2>7, <2>8
<1> HIDE DEF S, N
<1>5. \A i \in 1..(N + 1) : i \in S BY <1>0, <1>3, <1>4, FromFirst
<1> QED BY <1>5 DEF S, N, w

-----------------------------------------------------------------------------
(* The invariant of the passes. *)

AsmTypeOK ==
    /\ source \in Source
    /\ FormsFit(source, form)
    /\ LayoutFits(source, layout)
    /\ passes \in Nat /\ tries \in Nat /\ phase \in Nat
    /\ required \in Nat /\ required # 1
    /\ required > 0 => source.object /\ required \in Powers
    /\ phase > 0 => source.object
    /\ stage \in {"relax", "validate", "select", "finish", "emit", "written", "refused"}
    /\ stage = "select" => source.object
    /\ stage # "refused" => why = "none"

\* The pass that the forms and the residue call for.
WalkNow == WalkIn(source, form, phase, Known)

\* The final pass makes the layout that is written.
FinalInv == stage \in {"emit", "written"} => layout = WalkNow

Latest == stage \in {"finish", "emit", "written"}

\* A layout that no limit cut short is that of the forms and the residue, and
\* nothing is left to shorten in it.
Tight ==
    \A i \in Index : /\ form[i] = "long" => ~CanShorten(layout, i)
                     /\ form[i] = "abs" => ~CanZeroPage(layout, i)
TightInv ==
    /\ stage \in {"validate", "select", "finish", "emit", "written"}
    /\ passes < MaxPass /\ (source.object /\ Latest => tries < MaxTry)
    => layout = WalkNow /\ Tight

\* In a file without padding and conditions a short branch stays in range.
ShortInv ==
    Rigid(source) =>
        \A i \in Index, r \in Nat, m \in Nat :
            IsA(i, "branch") /\ form[i] = "short" /\ (source.object => m \in Powers) =>
                ReachesIn(source, WalkIn(source, form, r, m), i)

Contract(k, i) == k.stmts[i].kind = "branch" /\ k.stmts[i].page \in {"same", "cross"}
HonoursIn(k, i, b, l) ==
    k.stmts[i].page = "cross" <=> Crosses(b + l.at[i], b + l.at[k.stmts[i].to])

\* What was measured of the contracts still holds in the layout to be written.
FlatInv ==
    ~source.object /\ Latest /\ passes < MaxPass =>
        \A i \in Index : Contract(source, i) /\ layout.on[Stmt[i].to] =>
            HonoursIn(source, i, source.base, layout)

Suited(k, b, l) ==
    l.align > 1 =>
        /\ b < l.align
        /\ \A i \in 1..Len(k.stmts) : Contract(k, i) /\ l.on[i] =>
              l.on[k.stmts[i].to] /\ HonoursIn(k, i, b, l)
SuitInv ==
    /\ source.object /\ Latest
    /\ passes < MaxPass /\ (Conditional => tries < MaxTry)
    => Suited(source, phase, WalkNow)

\* What is written has the targets of its branches.
DefinedInv ==
    stage = "written" =>
        \A i \in Index : IsA(i, "branch") /\ layout.on[i] => layout.on[Stmt[i].to]

\* A residue that was refused breaks a contract.
Breaks(k, b, l) ==
    \E i \in 1..Len(k.stmts) : Contract(k, i) /\ ~(ReachesIn(k, l, i) /\ HonoursIn(k, i, b, l))
RefusedInv ==
    why = "phase" /\ passes < MaxPass /\ ~Conditional =>
        \A b \in 0..(Modulus - 1) : b % source.segmentalign = 0 =>
            Breaks(source, b, WalkIn(source, form, b, Modulus))

AsmInv == /\ AsmTypeOK /\ FinalInv /\ TightInv /\ ShortInv /\ FlatInv /\ SuitInv
          /\ DefinedInv /\ OnlyPaddingBreaksBranches /\ RefusedInv

LEMMA KnownFacts ==
    ASSUME AsmTypeOK
    PROVE  /\ Len(Stmt) \in Nat /\ source \in Source
           /\ Known \in Nat \ {0} /\ Modulus \in Nat
           /\ source.object => Known \in Powers /\ Modulus \in Powers
           /\ Known > 0
           /\ required > 0 => Known = required /\ Modulus = required
           /\ required = 0 => Modulus = layout.align
<1>0. source \in Source BY DEF AsmTypeOK
<1>1. /\ Len(Stmt) \in Nat /\ source.segmentalign \in Powers
      /\ source.segmentalign \in Nat \ {0}
  BY <1>0, FileFacts DEF Stmt
<1>2. required \in Nat /\ (required > 0 => required \in Powers) BY DEF AsmTypeOK
<1>3. layout.align \in Nat /\ (source.object => layout.align \in Powers)
  BY DEF AsmTypeOK, LayoutFits
<1>4. CASE required > 0
  <2>1. Known = required /\ Modulus = required BY <1>4 DEF Known, Modulus
  <2> QED BY <2>1, <1>0, <1>1, <1>2, <1>4
<1>5. CASE required = 0
  <2>1. ~(required > 0) BY <1>5
  <2>2. Known = source.segmentalign /\ Modulus = layout.align BY <2>1 DEF Known, Modulus
  <2> QED BY <2>2, <1>0, <1>1, <1>3, <1>5
<1> QED BY <1>2, <1>4, <1>5

\* A pass over the file as it is.
LEMMA WalkPasses ==
    ASSUME source \in Source, NEW f, FormsFit(source, f), NEW r \in Nat, NEW m \in Nat,
           source.object => m \in Powers
    PROVE  /\ Walk(f, r, m) = WalkIn(source, f, r, m)
           /\ IsPass(source, f, r, m, Walk(f, r, m))
           /\ LayoutFits(source, Walk(f, r, m))
<1>1. Walk(f, r, m) = WalkIn(source, f, r, m) BY WalkIsIn
<1>2. IsPass(source, f, r, m, WalkIn(source, f, r, m)) BY WalkFacts
<1> QED BY <1>1, <1>2 DEF IsPass

\* What is found tight stays so while the forms and the layout stay.
LEMMA TightStays ==
    ASSUME source' = source, form' = form, NEW l, layout' = l,
           \A i \in Index : /\ form[i] = "long" => ~CanShorten(l, i)
                            /\ form[i] = "abs" => ~CanZeroPage(l, i)
    PROVE  Tight'
<1>1. Index' = Index BY DEF Index
<1>2. \A i : CanShorten(layout, i)' <=> CanShorten(l, i)
  BY DEF CanShorten, ShortReaches, Stmt
<1>3. \A i : CanZeroPage(layout, i)' <=> CanZeroPage(l, i)
  <2>1. \A o : Defined(layout, o)' <=> Defined(l, o) BY DEF Defined
  <2>2. \A o : Value(layout, o)' = Value(l, o) BY DEF Value, Address
  <2>3. \A o : MayBeZeroPage(o)' <=> MayBeZeroPage(o) BY DEF MayBeZeroPage
  <2> QED BY <2>1, <2>2, <2>3 DEF CanZeroPage, Stmt
<1> QED BY <1>1, <1>2, <1>3 DEF Tight

LEMMA ShortStays == ShortInv /\ UNCHANGED <<source, form>> => ShortInv'
<1> SUFFICES ASSUME ShortInv, source' = source, form' = form PROVE ShortInv' OBVIOUS
<1>1. \A i : IsA(i, "branch")' <=> IsA(i, "branch") BY DEF IsA, Stmt
<1>2. Index' = Index BY DEF Index
<1> QED BY <1>1, <1>2 DEF ShortInv

-----------------------------------------------------------------------------
LEMMA AsmStarts == AsmInit => AsmInv
<1> SUFFICES ASSUME AsmInit PROVE AsmInv OBVIOUS
<1>0. /\ source \in Source
      /\ form = [i \in Index |-> Longest(i)]
      /\ layout = [at |-> [i \in 1..(Len(Stmt) + 1) |-> 0],
                   on |-> [i \in Index |-> FALSE], align |-> 1]
      /\ passes = 0 /\ required = 0 /\ phase = 0 /\ tries = 0
      /\ stage = "relax" /\ why = "none"
  BY DEF AsmInit
<1>1. Len(Stmt) \in Nat BY <1>0, FileFacts DEF Stmt
<1>2. FormsFit(source, form) BY <1>0, InitialForms
<1>3. LayoutFits(source, layout)
  <2>1. layout.at = [i \in 1..(Len(Stmt) + 1) |-> 0]
        /\ layout.on = [i \in Index |-> FALSE] /\ layout.align = 1
    BY <1>0
  <2>2. \A i \in 1..Len(Stmt) : i \in 1..(Len(Stmt) + 1) /\ i + 1 \in 1..(Len(Stmt) + 1)
    BY <1>1
  <2>3. 1 \in Powers BY DEF Powers
  <2> QED BY <2>1, <2>2, <2>3 DEF LayoutFits, Stmt, Index
<1>4. AsmTypeOK
  <2>1. /\ passes = 0 /\ required = 0 /\ phase = 0 /\ tries = 0 /\ stage = "relax" /\ why = "none"
        /\ source \in Source
    BY <1>0
  <2>2. 0 \in Nat /\ ~(0 > 0) OBVIOUS
  <2>3. /\ passes \in Nat /\ tries \in Nat /\ phase \in Nat /\ required \in Nat /\ required # 1
        /\ ~(required > 0) /\ ~(phase > 0)
    BY <2>1, <2>2
  <2>4. /\ stage \in {"relax", "validate", "select", "finish", "emit", "written", "refused"}
        /\ stage # "select" /\ why = "none"
    BY <2>1
  <2> QED BY <2>1, <2>3, <2>4, <1>2, <1>3, Zenon DEF AsmTypeOK
<1>5. ShortInv
  <2>1. \A i \in Index : IsA(i, "branch") => form[i] = "long" BY <1>0 DEF Longest, IsA
  <2> QED BY <2>1 DEF ShortInv
<1>6. FinalInv /\ TightInv /\ FlatInv /\ SuitInv /\ DefinedInv /\ OnlyPaddingBreaksBranches
      /\ RefusedInv
  BY <1>0 DEF FinalInv, TightInv, FlatInv, SuitInv, DefinedInv,
              OnlyPaddingBreaksBranches, RefusedInv, Latest
<1> QED BY <1>4, <1>5, <1>6 DEF AsmInv

LEMMA RelaxPassKeeps == AsmInv /\ RelaxPass => AsmInv'
<1> SUFFICES ASSUME AsmInv, RelaxPass PROVE AsmInv' OBVIOUS
<1>1. /\ AsmTypeOK /\ ShortInv /\ stage = "relax" /\ why = "none"
  BY DEF AsmInv, AsmTypeOK, RelaxPass
<1>2. PICK l : /\ l = Walk(form, phase, Known)
               /\ layout' = l /\ form' = Relaxed(l) /\ passes' = passes + 1
               /\ stage' = IF Changed(l) /\ passes + 1 < MaxPass THEN "relax" ELSE "validate"
               /\ UNCHANGED <<source, required, phase, tries, why>>
  BY DEF RelaxPass
<1>3. /\ source \in Source /\ Known \in Nat /\ (source.object => Known \in Powers)
      /\ FormsFit(source, form) /\ phase \in Nat
  BY <1>1, KnownFacts DEF AsmTypeOK
<1>4. /\ l = WalkIn(source, form, phase, Known)
      /\ IsPass(source, form, phase, Known, l) /\ LayoutFits(source, l)
  BY <1>2, <1>3, WalkPasses
<1> DEFINE g == Relaxed(l)
<1>5. /\ FormsFit(source, g) /\ Shrinks(source, form, g)
      /\ \A i \in Index : IsA(i, "branch") /\ g[i] = "short" =>
            form[i] = "short" \/ (form[i] = "long" /\ CanShorten(l, i))
      /\ g = form => \A i \in Index : /\ form[i] = "long" => ~CanShorten(l, i)
                                      /\ form[i] = "abs" => ~CanZeroPage(l, i)
  BY <1>3, RelaxedFacts
<1> HIDE DEF g
<1>6. form' = g /\ source' = source /\ stage' \in {"relax", "validate"} /\ why' = "none"
  BY <1>1, <1>2 DEF g
<1>7. AsmTypeOK'
  <2>1. FormsFit(source', form') /\ LayoutFits(source', layout') BY <1>2, <1>4, <1>5, <1>6
  <2>2. passes' \in Nat /\ tries' \in Nat /\ phase' \in Nat
    <3>1. passes \in Nat /\ tries \in Nat /\ phase \in Nat BY <1>1 DEF AsmTypeOK
    <3> QED BY <3>1, <1>2
  <2>3. /\ required' \in Nat /\ required' # 1
        /\ required' > 0 => source'.object /\ required' \in Powers
        /\ phase' > 0 => source'.object
    BY <1>1, <1>2 DEF AsmTypeOK
  <2> QED BY <2>1, <2>2, <2>3, <1>3, <1>6 DEF AsmTypeOK
<1>8. TightInv'
  <2> SUFFICES ASSUME stage' = "validate", passes' < MaxPass PROVE layout' = WalkNow' /\ Tight'
    BY <1>6 DEF TightInv
  <2>1. ~Changed(l) BY <1>2
  <2>2. g = form BY <2>1 DEF Changed, g
  <2>3. form' = form BY <2>2, <1>6
  <2>4. layout' = WalkNow'
    <3>1. Known' = Known BY <1>2 DEF Known
    <3> QED BY <3>1, <2>3, <1>2, <1>4 DEF WalkNow
  <2>5. Tight' BY <2>2, <2>3, <1>2, <1>5, <1>6, TightStays
  <2> QED BY <2>4, <2>5
<1>9. ShortInv'
  <2> SUFFICES ASSUME Rigid(source), NEW i \in Index, NEW r \in Nat, NEW m \in Nat,
                      IsA(i, "branch"), g[i] = "short", source.object => m \in Powers
               PROVE  ReachesIn(source, WalkIn(source, g, r, m), i)
    <3>1. \A i : IsA(i, "branch")' <=> IsA(i, "branch") BY <1>6 DEF IsA, Stmt
    <3>2. Index' = Index BY <1>6 DEF Index
    <3> QED BY <3>1, <3>2, <1>6 DEF ShortInv
  <2>1. IsPass(source, g, r, m, WalkIn(source, g, r, m)) BY <1>3, <1>5, WalkFacts
  <2>2. i \in 1..Len(source.stmts) /\ source.stmts[i].kind = "branch" BY DEF Index, IsA, Stmt
  <2>3. CASE form[i] = "short"
    <3>1. ReachesIn(source, WalkIn(source, form, r, m), i) BY <1>1, <2>3 DEF ShortInv
    <3>2. IsPass(source, form, r, m, WalkIn(source, form, r, m)) BY <1>3, WalkFacts
    <3> QED BY <3>1, <3>2, <2>1, <2>2, <1>3, <1>5, ShrinkingKeepsReach
  <2>4. CASE CanShorten(l, i)
    <3>1. ReachesIn(source, l, i) BY <2>4 DEF CanShorten, ShortReaches, ReachesIn, Stmt
    <3> QED BY <3>1, <2>1, <2>2, <1>3, <1>4, <1>5, ShrinkingKeepsReach
  <2> QED BY <2>3, <2>4, <1>5
<1>10. FinalInv' /\ FlatInv' /\ SuitInv' /\ DefinedInv' /\ OnlyPaddingBreaksBranches'
       /\ RefusedInv'
  BY <1>6 DEF FinalInv, FlatInv, SuitInv, DefinedInv, OnlyPaddingBreaksBranches,
         RefusedInv, Latest
<1> QED BY <1>7, <1>8, <1>9, <1>10 DEF AsmInv

\* A step that measures nothing anew.
LEMMA FramePass ==
    ASSUME UNCHANGED <<source, form, layout, required, phase>>
    PROVE  /\ Index' = Index /\ WalkNow' = WalkNow /\ Modulus' = Modulus
           /\ Conditional' <=> Conditional
           /\ \A i : IsA(i, "branch")' <=> IsA(i, "branch")
           /\ Tight => Tight'
           /\ ShortInv => ShortInv'
<1>0. source' = source /\ form' = form /\ layout' = layout /\ required' = required
      /\ phase' = phase
  OBVIOUS
<1>1. Index' = Index BY <1>0 DEF Index
<1>2. WalkNow' = WalkNow BY <1>0 DEF WalkNow, Known
<1>3. Modulus' = Modulus BY <1>0 DEF Modulus
<1>4. \A i : IsA(i, "branch")' <=> IsA(i, "branch") BY <1>0 DEF IsA, Stmt
<1>5. Conditional' <=> Conditional BY <1>0 DEF Conditional, Index, IsA, Stmt
<1>6. Tight => Tight'
  <2> SUFFICES ASSUME Tight PROVE Tight' OBVIOUS
  <2> DEFINE l == layout
  <2>1. \A i \in Index : /\ form[i] = "long" => ~CanShorten(l, i)
                         /\ form[i] = "abs" => ~CanZeroPage(l, i)
    BY DEF Tight
  <2>2. layout' = l BY <1>0
  <2> HIDE DEF l
  <2> QED BY <2>1, <2>2, <1>0, TightStays
<1>7. ShortInv => ShortInv' BY <1>0, ShortStays
<1> QED BY <1>1, <1>2, <1>3, <1>4, <1>5, <1>6, <1>7

LEMMA TypeStays ==
    ASSUME AsmTypeOK, UNCHANGED <<source, form, layout, passes, required, phase, tries>>,
           stage' \in {"relax", "validate", "select", "finish", "emit", "written", "refused"},
           stage' = "select" => source.object, stage' # "refused" => why' = "none"
    PROVE  AsmTypeOK'
BY DEF AsmTypeOK

LEMMA ValidateKeeps == AsmInv /\ Validate => AsmInv'
<1> SUFFICES ASSUME AsmInv, Validate PROVE AsmInv' OBVIOUS
<1>1. /\ AsmTypeOK /\ TightInv /\ ShortInv /\ OnlyPaddingBreaksBranches
      /\ stage = "validate" /\ why = "none"
  BY DEF AsmInv, AsmTypeOK, Validate
<1>2. UNCHANGED <<source, form, layout, passes, required, phase, tries>> BY DEF Validate
<1>3. \/ /\ AnnotationsValid /\ why' = "none"
         /\ stage' = IF source.object THEN "select" ELSE "finish"
      \/ stage' = "refused" /\ why' = "annotation"
  BY <1>1 DEF Validate
<1>4. source.object \in BOOLEAN BY <1>1, FileFacts DEF AsmTypeOK
<1>5. AsmTypeOK' BY <1>1, <1>2, <1>3, <1>4, TypeStays
<1>6. /\ WalkNow' = WalkNow /\ (Tight => Tight') /\ ShortInv' BY <1>1, <1>2, FramePass
<1>7. TightInv'
  <2> SUFFICES ASSUME passes < MaxPass PROVE layout' = WalkNow' /\ Tight'
    BY <1>2, <1>3 DEF TightInv
  <2>1. layout = WalkNow /\ Tight BY <1>1 DEF TightInv, Latest
  <2> QED BY <2>1, <1>2, <1>6
<1>8. FlatInv'
  <2> SUFFICES ASSUME AnnotationsValid, ~source.object,
                      NEW i \in Index, Contract(source, i), layout.on[Stmt[i].to]
               PROVE  HonoursIn(source, i, source.base, layout)
    BY <1>2, <1>3 DEF FlatInv, Latest, Index, Stmt
  <2>1. i \in Contracts BY DEF Contracts, Contract, IsA, Stmt
  <2>2. Honours(i, Address(layout, i), Address(layout, Stmt[i].to))
    BY <2>1 DEF AnnotationsValid
  <2> QED BY <2>2 DEF Honours, HonoursIn, Address, Stmt
<1>9. FinalInv' /\ SuitInv' /\ DefinedInv' /\ OnlyPaddingBreaksBranches' /\ RefusedInv'
  <2>1. /\ stage' \notin {"emit", "written"} /\ why' \notin {"range", "phase"}
        /\ source'.object => stage' \notin {"finish", "emit", "written"}
    BY <1>2, <1>3
  <2> QED BY <2>1 DEF FinalInv, SuitInv, DefinedInv, OnlyPaddingBreaksBranches, RefusedInv,
                      Latest
<1> QED BY <1>5, <1>6, <1>7, <1>8, <1>9 DEF AsmInv

\* Suits, for the pass whose offsets were measured.
LEMMA SuitsMeans ==
    ASSUME source \in Source, NEW r, NEW l,
           \A i \in 1..(Len(Stmt) + 1) : Moved(r)[i] = l.at[i]
    PROVE  Suits(r) <=>
             /\ r % source.segmentalign = 0
             /\ \A i \in Index : Contract(source, i) /\ layout.on[i] =>
                   layout.on[Stmt[i].to] /\ ReachesIn(source, l, i) /\ HonoursIn(source, i, r, l)
<1> DEFINE m == Moved(r)
<1>0. Len(Stmt) \in Nat BY FileFacts DEF Stmt
<1>1. \A i : i \in Contracts <=> i \in Index /\ Contract(source, i)
  BY DEF Contracts, Contract, IsA, Stmt
<1>2. ASSUME NEW i \in Contracts
      PROVE  /\ Reaches(m[i], m[Stmt[i].to]) <=> ReachesIn(source, l, i)
             /\ Honours(i, r + m[i], r + m[Stmt[i].to]) <=> HonoursIn(source, i, r, l)
  <2>1. i \in 1..Len(source.stmts) /\ source.stmts[i].kind = "branch"
    BY <1>1 DEF Contract, Index
  <2>2. Stmt[i].to \in 1..Len(source.stmts)
    <3>1. source.stmts[i] \in Statement(i, Len(source.stmts), source.object)
      BY <2>1, FileFacts
    <3> QED BY <3>1, <2>1, <1>0, StatementFacts DEF Stmt
  <2>3. i \in 1..(Len(Stmt) + 1) /\ Stmt[i].to \in 1..(Len(Stmt) + 1)
    BY <2>1, <2>2, <1>0 DEF Stmt
  <2>4. m[i] = l.at[i] /\ m[Stmt[i].to] = l.at[Stmt[i].to] BY <2>3
  <2> HIDE DEF m
  <2> QED BY <2>4 DEF ReachesIn, HonoursIn, Honours, Stmt
<1>3. Suits(r) <=>
        /\ r % source.segmentalign = 0
        /\ \A i \in Contracts : layout.on[i] =>
              /\ layout.on[Stmt[i].to]
              /\ Reaches(m[i], m[Stmt[i].to])
              /\ Honours(i, r + m[i], r + m[Stmt[i].to])
  BY DEF Suits
<1> HIDE DEF m
<1> QED BY <1>1, <1>2, <1>3, Zenon

\* Without conditions every statement is active in every pass.
LEMMA AllActive ==
    ASSUME source \in Source, ~Conditional, NEW f, NEW q, NEW m, NEW h, IsPass(source, f, q, m, h)
    PROVE  h.on = [i \in Index |-> TRUE]
<1>1. h.on \in [Index -> BOOLEAN] BY DEF IsPass, LayoutFits, Index
<1>2. \A i \in 1..Len(source.stmts) : source.stmts[i].kind # "if"
  BY DEF Conditional, IsA, Stmt, Index
<1>3. \A i \in Index : h.on[i] BY <1>2 DEF IsPass, Index
<1> QED BY <1>1, <1>3

LEMMA SelectFailsKeeps == AsmInv /\ SelectFails => AsmInv'
<1> SUFFICES ASSUME AsmInv, SelectFails PROVE AsmInv' OBVIOUS
<1>1. /\ AsmTypeOK /\ TightInv /\ ShortInv
      /\ stage = "select" /\ source.object /\ NoneSuits
  BY DEF AsmInv, AsmTypeOK, SelectFails
<1>2. /\ UNCHANGED <<source, form, layout, passes, required, phase, tries>>
      /\ stage' = "refused" /\ why' = "phase"
  BY DEF SelectFails
<1>3. AsmTypeOK' BY <1>1, <1>2, TypeStays
<1>4. ShortInv' /\ Modulus' = Modulus /\ (Conditional' <=> Conditional)
  BY <1>1, <1>2, FramePass
<1>5. RefusedInv'
  <2> SUFFICES ASSUME passes < MaxPass, ~Conditional,
                      NEW b \in 0..(Modulus - 1), b % source.segmentalign = 0
               PROVE  Breaks(source, b, WalkIn(source, form, b, Modulus))
    BY <1>2, <1>4 DEF RefusedInv
  <2> DEFINE l == WalkIn(source, form, b, Modulus)
  <2>1. /\ source \in Source /\ FormsFit(source, form) /\ phase \in Nat
        /\ Known \in Nat /\ Known \in Powers /\ Modulus \in Nat /\ Modulus \in Powers
    BY <1>1, KnownFacts DEF AsmTypeOK
  <2>2. b \in Nat BY <2>1
  <2>3. layout = WalkNow BY <1>1 DEF TightInv, Latest
  <2>4. IsPass(source, form, phase, Known, layout) BY <2>1, <2>3, WalkFacts DEF WalkNow
  <2>5. IsPass(source, form, b, Modulus, l) BY <2>1, <2>2, WalkFacts
  <2> HIDE DEF l
  <2>6. l.on = layout.on
    <3>1. l.on = [i \in Index |-> TRUE] BY <2>1, <2>5, AllActive
    <3>2. layout.on = [i \in Index |-> TRUE] BY <2>1, <2>4, AllActive
    <3> QED BY <3>1, <3>2
  <2>7. source.base = 0 BY <1>1, <2>1, FileFacts
  <2>8. \A i \in 1..(Len(Stmt) + 1) : Moved(b)[i] = l.at[i]
    BY <2>1, <2>2, <2>4, <2>5, <2>6, <2>7, MovedIsPass
  <2>9. ~Suits(b) BY <1>1 DEF NoneSuits
  <2>10. PICK i \in Index :
            /\ Contract(source, i)
            /\ ~(layout.on[Stmt[i].to] /\ ReachesIn(source, l, i) /\ HonoursIn(source, i, b, l))
    BY <2>1, <2>8, <2>9, SuitsMeans
  <2>11. layout.on[Stmt[i].to]
    <3>1. i \in 1..Len(source.stmts) /\ source.stmts[i].kind = "branch"
      BY <2>10 DEF Contract, Index
    <3>2. Len(source.stmts) \in Nat
          /\ source.stmts[i] \in Statement(i, Len(source.stmts), source.object)
      BY <2>1, <3>1, FileFacts
    <3>3. Stmt[i].to \in Index BY <3>1, <3>2, StatementFacts DEF Stmt, Index
    <3>4. layout.on = [j \in Index |-> TRUE] BY <2>1, <2>4, AllActive
    <3> QED BY <3>3, <3>4
  <2>12. i \in 1..Len(source.stmts) BY DEF Index
  <2> QED BY <2>10, <2>11, <2>12 DEF Breaks, l
<1>6. /\ FinalInv' /\ TightInv' /\ FlatInv' /\ SuitInv' /\ DefinedInv'
      /\ OnlyPaddingBreaksBranches'
  BY <1>2 DEF FinalInv, TightInv, FlatInv, SuitInv, DefinedInv, OnlyPaddingBreaksBranches,
              Latest
<1> QED BY <1>3, <1>4, <1>5, <1>6 DEF AsmInv

\* The residue that is chosen suits.
LEMMA BestFacts ==
    ASSUME AsmTypeOK, ~NoneSuits
    PROVE  Best \in 0..(Modulus - 1) /\ Best \in Nat /\ Suits(Best)
<1> DEFINE SizeAt(r) == Moved(r)[Len(Stmt) + 1]
           fit == {r \in 0..(Modulus - 1) : Suits(r)}
           sizes == {SizeAt(r) : r \in fit}
           short == Smallest(sizes)
           best == {r \in fit : SizeAt(r) = short}
<1>1. Modulus \in Nat /\ Len(Stmt) \in Nat /\ source \in Source /\ LayoutFits(source, layout)
  BY KnownFacts DEF AsmTypeOK
<1>2. \A r \in fit : SizeAt(r) \in Nat
  <2> SUFFICES ASSUME NEW r \in fit PROVE SizeAt(r) \in Nat OBVIOUS
  <2>1. r \in Nat BY <1>1
  <2>2. Moved(r) \in [1..(Len(Stmt) + 1) -> Nat] BY <1>1, <2>1, MovedType
  <2>3. Len(Stmt) + 1 \in 1..(Len(Stmt) + 1) BY <1>1
  <2> QED BY <2>2, <2>3
<1>3. fit # {} BY DEF NoneSuits
<1> HIDE DEF SizeAt
<1>4. sizes \in SUBSET Nat /\ sizes # {} BY <1>2, <1>3
<1> HIDE DEF sizes
<1>5. short \in sizes BY <1>4, SmallestOf
<1> HIDE DEF short
<1>6. best # {} BY <1>5 DEF sizes
<1>7. best \in SUBSET Nat BY <1>1
<1> HIDE DEF best
<1>8. Smallest(best) \in best BY <1>6, <1>7, SmallestOf
<1>9. Best = Smallest(best) BY DEF Best, best, short, sizes, SizeAt
<1>10. Best \in fit BY <1>8, <1>9 DEF best
<1> QED BY <1>10, <1>1

LEMMA ReselectKeeps == AsmInv /\ Reselect => AsmInv'
<1> SUFFICES ASSUME AsmInv, Reselect PROVE AsmInv' OBVIOUS
<1>1. AsmTypeOK /\ stage = "select" /\ source.object /\ why = "none"
  BY DEF AsmInv, AsmTypeOK, Reselect
<1>2. PICK b, m :
        /\ b = Best /\ m = Modulus /\ m > 1
        /\ required' = m /\ phase' = b /\ layout' = Walk(form, b, m)
        /\ form' = [i \in Index |-> Longest(i)]
        /\ tries' = tries + 1 /\ passes' = 0 /\ stage' = "relax"
        /\ source' = source /\ why' = "none"
  BY <1>1 DEF Reselect
<1>3. /\ source \in Source /\ FormsFit(source, form) /\ tries \in Nat
      /\ m \in Nat /\ m \in Powers
  BY <1>1, <1>2, KnownFacts DEF AsmTypeOK
<1>4. b \in Nat BY <1>1, <1>2, BestFacts DEF Reselect
<1>5. LayoutFits(source, layout') BY <1>2, <1>3, <1>4, WalkPasses
<1>6. FormsFit(source, form') BY <1>2, <1>3, InitialForms
<1>7. AsmTypeOK'
  <2>1. tries' \in Nat /\ passes' \in Nat BY <1>2, <1>3
  <2>2. required' \in Nat /\ required' # 1 /\ required' \in Powers BY <1>2, <1>3
  <2>3. phase' \in Nat BY <1>2, <1>4
  <2> QED BY <1>1, <1>2, <1>3, <1>5, <1>6, <2>1, <2>2, <2>3 DEF AsmTypeOK
<1>8. ShortInv'
  <2>1. \A i \in Index : IsA(i, "branch") => form'[i] = "long" BY <1>2 DEF Longest, IsA
  <2>2. Index' = Index /\ \A i : IsA(i, "branch")' <=> IsA(i, "branch")
    BY <1>2 DEF Index, IsA, Stmt
  <2> QED BY <2>1, <2>2 DEF ShortInv
<1>9. /\ FinalInv' /\ TightInv' /\ FlatInv' /\ SuitInv' /\ DefinedInv'
      /\ OnlyPaddingBreaksBranches' /\ RefusedInv'
  BY <1>2 DEF FinalInv, TightInv, FlatInv, SuitInv, DefinedInv,
              OnlyPaddingBreaksBranches, RefusedInv, Latest
<1> QED BY <1>7, <1>8, <1>9 DEF AsmInv

\* A residue that suits is suited by the pass that it leads to.
LEMMA SuitsSuited ==
    ASSUME source \in Source, source.object, FormsFit(source, form),
           NEW q \in Nat, NEW n, IsPass(source, form, q, n, layout),
           NEW m \in Nat, NEW b \in 0..(m - 1), Suits(b),
           NEW l, IsPass(source, form, b, m, l), l.on = layout.on
    PROVE  Suited(source, b, l)
<1>1. source.base = 0 /\ b \in Nat BY FileFacts
<1>2. \A i \in 1..(Len(Stmt) + 1) : Moved(b)[i] = l.at[i] BY <1>1, MovedIsPass
<1>3. \A i \in Index : Contract(source, i) /\ layout.on[i] =>
         layout.on[Stmt[i].to] /\ ReachesIn(source, l, i) /\ HonoursIn(source, i, b, l)
  BY <1>2, SuitsMeans
<1>4. b < l.align
  <2>1. l.align \in Nat /\ l.align >= m BY DEF IsPass, LayoutFits
  <2> QED BY <2>1
<1> QED BY <1>3, <1>4 DEF Suited, Index, Stmt

LEMMA SettleKeeps == AsmInv /\ Settle => AsmInv'
<1> SUFFICES ASSUME AsmInv, Settle PROVE AsmInv' OBVIOUS
<1>1. /\ AsmTypeOK /\ TightInv /\ ShortInv
      /\ stage = "select" /\ source.object /\ why = "none"
  BY DEF AsmInv, AsmTypeOK, Settle
<1>2. /\ source' = source /\ form' = form /\ layout' = layout /\ passes' = passes
      /\ tries' = tries /\ why' = "none" /\ stage' = "finish"
  BY <1>1 DEF Settle
<1>3. /\ source \in Source /\ FormsFit(source, form) /\ tries \in Nat /\ phase \in Nat
      /\ required \in Nat /\ required # 1 /\ (required > 0 => required \in Powers)
      /\ Known \in Nat /\ Known \in Powers /\ Modulus \in Nat /\ Modulus \in Powers
      /\ required > 0 => Known = required /\ Modulus = required
      /\ required = 0 => Modulus = layout.align
      /\ LayoutFits(source, layout)
  BY <1>1, KnownFacts DEF AsmTypeOK
<1>4. Conditional' <=> Conditional BY <1>2 DEF Conditional, Index, IsA, Stmt
<1>5. ShortInv' BY <1>1, <1>2, ShortStays
<1>6. /\ FinalInv' /\ FlatInv' /\ DefinedInv' /\ OnlyPaddingBreaksBranches' /\ RefusedInv'
  BY <1>1, <1>2 DEF FinalInv, FlatInv, DefinedInv, OnlyPaddingBreaksBranches, RefusedInv
<1>7. passes < MaxPass => layout = WalkNow /\ Tight BY <1>1 DEF TightInv, Latest
<1>8. CASE required' = required /\ phase' = phase /\ Modulus <= 1
  <2>1. AsmTypeOK' BY <1>1, <1>2, <1>8, TypeStays
  <2>2. WalkNow' = WalkNow /\ (Tight => Tight') BY <1>2, <1>8, FramePass
  <2>3. TightInv' BY <1>2, <1>7, <2>2 DEF TightInv
  <2>4. SuitInv'
    <3> SUFFICES ASSUME passes < MaxPass PROVE Suited(source, phase, WalkNow)
      BY <1>2, <1>8, <2>2 DEF SuitInv
    <3>1. layout.align <= 1
      <4>1. required = 0 BY <1>3, <1>8
      <4> QED BY <4>1, <1>3, <1>8
    <3>2. ~(layout.align > 1) BY <3>1, <1>3 DEF LayoutFits
    <3> QED BY <3>2, <1>7 DEF Suited
  <2> QED BY <1>5, <1>6, <2>1, <2>3, <2>4 DEF AsmInv
<1>9. CASE /\ Modulus > 1 /\ ~NoneSuits
           /\ tries = MaxTry \/ (required > 0 /\ Best = phase)
           /\ required' = Modulus /\ phase' = Best
  <2>1. PICK b, m : b = Best /\ m = Modulus /\ m > 1 /\ required' = m /\ phase' = b BY <1>9
  <2>2. b \in 0..(m - 1) /\ b \in Nat /\ Suits(b) BY <1>1, <1>9, <2>1, BestFacts
  <2>3. m \in Nat /\ m \in Powers BY <1>3, <2>1
  <2>4. AsmTypeOK'
    <3>1. required' \in Nat /\ required' # 1 /\ required' \in Powers BY <2>1, <2>3
    <3>2. phase' \in Nat BY <2>1, <2>2
    <3> QED BY <1>1, <1>2, <3>1, <3>2 DEF AsmTypeOK
  <2>5. ASSUME tries < MaxTry
        PROVE  required' = required /\ phase' = phase /\ m = Known /\ b = phase
    <3>1. tries # MaxTry BY <1>3, <2>5, AsmAssumption
    <3> QED BY <3>1, <1>3, <1>9, <2>1
  <2>6. TightInv'
    <3> SUFFICES ASSUME tries < MaxTry, passes < MaxPass PROVE layout' = WalkNow' /\ Tight'
      BY <1>1, <1>2 DEF TightInv, Latest
    <3>1. WalkNow' = WalkNow /\ (Tight => Tight') BY <1>2, <2>5, FramePass
    <3> QED BY <3>1, <1>2, <1>7
  <2>7. SuitInv'
    <3> SUFFICES ASSUME passes < MaxPass, Conditional => tries < MaxTry
                 PROVE  Suited(source, b, WalkIn(source, form, b, m))
      <4>1. Known' = m BY <2>1, <2>3 DEF Known
      <4>2. WalkNow' = WalkIn(source, form, b, m) BY <1>2, <2>1, <4>1 DEF WalkNow
      <4> QED BY <1>2, <1>4, <2>1, <4>2 DEF SuitInv
    <3> DEFINE l == WalkIn(source, form, b, m)
    <3>1. IsPass(source, form, b, m, l) BY <1>3, <2>2, <2>3, WalkFacts
    <3>2. layout = WalkIn(source, form, phase, Known) BY <1>7 DEF WalkNow
    <3>3. IsPass(source, form, phase, Known, layout) BY <3>2, <1>3, WalkFacts
    <3>4. l.on = layout.on
      <4>1. CASE Conditional
        <5>1. m = Known /\ b = phase BY <4>1, <2>5
        <5> QED BY <5>1, <3>2
      <4>2. CASE ~Conditional
        <5> HIDE DEF l
        <5>1. l.on = [i \in Index |-> TRUE] BY <4>2, <1>3, <3>1, AllActive
        <5>2. layout.on = [i \in Index |-> TRUE] BY <4>2, <1>3, <3>3, AllActive
        <5> QED BY <5>1, <5>2
      <4> QED BY <4>1, <4>2
    <3> HIDE DEF l
    <3>5. Suited(source, b, l) BY <1>1, <1>3, <2>2, <2>3, <3>1, <3>3, <3>4, SuitsSuited
    <3> QED BY <3>5 DEF l
  <2> QED BY <1>5, <1>6, <2>4, <2>6, <2>7 DEF AsmInv
<1>10. Modulus <= 1 \/ Modulus > 1 BY <1>3
<1> QED BY <1>8, <1>9, <1>10, <1>3 DEF Settle

LEMMA FinishKeeps == AsmInv /\ Finish => AsmInv'
<1> SUFFICES ASSUME AsmInv, Finish PROVE AsmInv' OBVIOUS
<1>1. /\ AsmTypeOK /\ TightInv /\ ShortInv /\ FlatInv /\ SuitInv
      /\ stage = "finish" /\ why = "none"
  BY DEF AsmInv, AsmTypeOK, Finish
<1>2. PICK l : /\ l = Walk(form, phase, Known) /\ layout' = l
               /\ source' = source /\ form' = form /\ passes' = passes
               /\ required' = required /\ phase' = phase /\ tries' = tries
               /\ why' = "none" /\ stage' = "emit"
  BY <1>1 DEF Finish
<1>3. /\ source \in Source /\ FormsFit(source, form) /\ phase \in Nat
      /\ Known \in Nat /\ (source.object => Known \in Powers)
  BY <1>1, KnownFacts DEF AsmTypeOK
<1>4. l = WalkIn(source, form, phase, Known) /\ LayoutFits(source, l)
  BY <1>2, <1>3, WalkPasses
<1>5. l = WalkNow BY <1>4 DEF WalkNow
<1>6. WalkNow' = WalkNow BY <1>2 DEF WalkNow, Known
<1>7. AsmTypeOK' BY <1>1, <1>2, <1>4 DEF AsmTypeOK
<1>8. FinalInv' BY <1>2, <1>5, <1>6 DEF FinalInv
<1>9. ASSUME layout = WalkNow PROVE layout' = layout BY <1>2, <1>5, <1>9
<1>10. TightInv'
  <2> SUFFICES ASSUME passes < MaxPass, source.object => tries < MaxTry
               PROVE  layout' = WalkNow' /\ Tight'
    BY <1>2 DEF TightInv, Latest
  <2>1. layout = WalkNow /\ Tight BY <1>1 DEF TightInv
  <2>2. layout' = layout BY <2>1, <1>9
  <2>3. Tight' BY <1>2, <2>1, <2>2, FramePass
  <2> QED BY <2>3, <1>2, <1>5, <1>6
<1>11. FlatInv'
  <2> SUFFICES ASSUME ~source.object, passes < MaxPass PROVE FlatInv'
    BY <1>2 DEF FlatInv
  <2>1. layout = WalkNow BY <1>1 DEF TightInv
  <2>2. layout' = layout BY <2>1, <1>9
  <2> QED BY <1>1, <1>2, <2>2 DEF FlatInv, Latest, Index, Stmt
<1>12. SuitInv'
  <2>1. Conditional' <=> Conditional BY <1>2 DEF Conditional, Index, IsA, Stmt
  <2> QED BY <1>1, <1>2, <1>6, <2>1 DEF SuitInv, Latest
<1>13. ShortInv' BY <1>1, <1>2, ShortStays
<1>14. DefinedInv' /\ OnlyPaddingBreaksBranches' /\ RefusedInv'
  BY <1>2 DEF DefinedInv, OnlyPaddingBreaksBranches, RefusedInv
<1> QED BY <1>7, <1>8, <1>10, <1>11, <1>12, <1>13, <1>14 DEF AsmInv

LEMMA EmitKeeps == AsmInv /\ Emit => AsmInv'
<1> SUFFICES ASSUME AsmInv, Emit PROVE AsmInv' OBVIOUS
<1>1. /\ AsmTypeOK /\ FinalInv /\ TightInv /\ ShortInv /\ FlatInv /\ SuitInv
      /\ stage = "emit" /\ why = "none"
  BY DEF AsmInv, AsmTypeOK, Emit
<1>2. /\ source' = source /\ form' = form /\ layout' = layout /\ passes' = passes
      /\ required' = required /\ phase' = phase /\ tries' = tries
  BY DEF Emit
<1>3. /\ stage' = IF why' = "none" THEN "written" ELSE "refused"
      /\ why' \in {"undefined", "range", "operand", "none"}
      /\ why' = "range" => ~BranchesReach
      /\ why' = "none" => OperandsDefined
  BY <1>1 DEF Emit
<1>4. AsmTypeOK' BY <1>1, <1>2, <1>3, TypeStays
<1>5. /\ Index' = Index /\ WalkNow' = WalkNow /\ (Conditional' <=> Conditional)
      /\ \A i : IsA(i, "branch")' <=> IsA(i, "branch")
      /\ (Tight => Tight') /\ ShortInv'
  BY <1>1, <1>2, FramePass
<1>6. FinalInv' BY <1>1, <1>2, <1>5 DEF FinalInv
<1>7. TightInv'
  <2> SUFFICES ASSUME passes < MaxPass, source.object => tries < MaxTry
               PROVE  layout' = WalkNow' /\ Tight'
    BY <1>2, <1>3 DEF TightInv, Latest
  <2>1. layout = WalkNow /\ Tight BY <1>1 DEF TightInv
  <2> QED BY <2>1, <1>2, <1>5
<1>8. FlatInv' BY <1>1, <1>2, <1>5 DEF FlatInv, Latest, Stmt
<1>9. SuitInv' BY <1>1, <1>2, <1>5 DEF SuitInv, Latest
<1>10. DefinedInv'
  <2> SUFFICES ASSUME OperandsDefined, NEW i \in Index, IsA(i, "branch"), layout.on[i]
               PROVE  layout.on[Stmt[i].to]
    BY <1>2, <1>3, <1>5 DEF DefinedInv, Stmt
  <2>1. i \in Active(layout, "branch") BY DEF Active
  <2> QED BY <2>1 DEF OperandsDefined
<1>11. OnlyPaddingBreaksBranches'
  <2> SUFFICES ASSUME ~BranchesReach, ~Conditional, Aligning = {} PROVE FALSE
    <3>1. Aligning' = Aligning BY <1>2 DEF Aligning, Index, IsA, Stmt
    <3> QED BY <1>3, <1>5, <3>1 DEF OnlyPaddingBreaksBranches
  <2>1. PICK i \in Index : /\ IsA(i, "branch") /\ form[i] = "short"
                           /\ ~ShortReaches(layout, i)
    BY DEF BranchesReach, Active
  <2>2. Rigid(source) BY DEF Rigid, Conditional, Aligning, Index, IsA, Stmt
  <2>3. phase \in Nat /\ Known \in Nat /\ (source.object => Known \in Powers)
    BY <1>1, KnownFacts DEF AsmTypeOK
  <2>4. ReachesIn(source, WalkIn(source, form, phase, Known), i)
    BY <1>1, <2>1, <2>2, <2>3 DEF ShortInv
  <2>5. layout = WalkIn(source, form, phase, Known) BY <1>1 DEF FinalInv, WalkNow
  <2>6. ReachesIn(source, layout, i) BY <2>4, <2>5
  <2> QED BY <2>1, <2>6 DEF ReachesIn, ShortReaches, Stmt
<1>12. RefusedInv' BY <1>3 DEF RefusedInv
<1> QED BY <1>4, <1>5, <1>6, <1>7, <1>8, <1>9, <1>10, <1>11, <1>12 DEF AsmInv

LEMMA AsmStutters == AsmInv /\ UNCHANGED asmVars => AsmInv'
<1> SUFFICES ASSUME AsmInv, UNCHANGED asmVars PROVE AsmInv' OBVIOUS
<1>1. /\ AsmTypeOK /\ FinalInv /\ TightInv /\ ShortInv /\ FlatInv /\ SuitInv
      /\ DefinedInv /\ OnlyPaddingBreaksBranches /\ RefusedInv
  BY DEF AsmInv
<1>2. /\ source' = source /\ form' = form /\ layout' = layout /\ passes' = passes
      /\ required' = required /\ phase' = phase /\ tries' = tries /\ stage' = stage
      /\ why' = why
  BY DEF asmVars
<1>3. AsmTypeOK' BY <1>1, <1>2, TypeStays DEF AsmTypeOK
<1>4. /\ Index' = Index /\ WalkNow' = WalkNow /\ Modulus' = Modulus
      /\ (Conditional' <=> Conditional)
      /\ \A i : IsA(i, "branch")' <=> IsA(i, "branch")
      /\ (Tight => Tight') /\ ShortInv'
  BY <1>1, <1>2, FramePass
<1>5. FinalInv' /\ TightInv' BY <1>1, <1>2, <1>4 DEF FinalInv, TightInv, Latest
<1>6. FlatInv' /\ SuitInv' BY <1>1, <1>2, <1>4 DEF FlatInv, SuitInv, Latest, Stmt
<1>7. DefinedInv' BY <1>1, <1>2, <1>4 DEF DefinedInv, Stmt
<1>8. OnlyPaddingBreaksBranches'
  <2>1. Aligning' = Aligning BY <1>2 DEF Aligning, Index, IsA, Stmt
  <2> QED BY <1>1, <1>2, <1>4, <2>1 DEF OnlyPaddingBreaksBranches
<1>9. RefusedInv'
  <2>1. PICK n : Modulus = n OBVIOUS
  <2> QED BY <1>1, <1>2, <1>4, <2>1 DEF RefusedInv
<1> QED BY <1>3, <1>4, <1>5, <1>6, <1>7, <1>8, <1>9 DEF AsmInv

LEMMA AsmStep == AsmInv /\ [AsmNext]_asmVars => AsmInv'
BY RelaxPassKeeps, ValidateKeeps, SelectFailsKeeps, ReselectKeeps, SettleKeeps,
   FinishKeeps, EmitKeeps, AsmStutters DEF AsmNext

\* The invariant holds along every run of the assembler (vcsc_as.c, main).
THEOREM AsmCorrect == AsmSpec => []AsmInv
<1>1. AsmSpec => AsmInit /\ [][AsmNext]_asmVars BY DEF AsmSpec
<1> QED BY <1>1, AsmStarts, AsmStep, PTL

-----------------------------------------------------------------------------
(* What the assembler promises. *)

\* Every file the assembler reads keeps its types: whatever is recorded of an object
\* file's base is a power of two that the object format can hold.
THEOREM AsmTypeCorrect == AsmSpec => []AsmTypeOK
BY AsmCorrect, PTL DEF AsmInv

LEMMA TightMeans == AsmInv => StableIsTight
<1> SUFFICES ASSUME AsmInv, stage = "written", passes < MaxPass, tries < MaxTry
             PROVE  Tight
  BY DEF StableIsTight, Tight, Active
<1> QED BY DEF AsmInv, TightInv

\* What is written has nothing left to shorten, unless a limit of passes or of
\* selections was hit (asm_relax, README of the assembler).
THEOREM StableIsTightHolds == AsmSpec => []StableIsTight
BY AsmCorrect, TightMeans, PTL

\* In a file without padding and conditions no branch that was made short (asm_relax)
\* is out of reach when it is emitted.
THEOREM OnlyPaddingBreaksBranchesHolds == AsmSpec => []OnlyPaddingBreaksBranches
BY AsmCorrect, PTL DEF AsmInv

LEMMA AlignedMeans == AsmInv => AlignedAtEveryBase
<1> SUFFICES ASSUME AsmInv, stage = "written", NEW i \in Index, IsA(i, "align"), layout.on[i]
             PROVE  /\ source.object => layout.align % Stmt[i].boundary = 0
                    /\ (source.base + phase + layout.at[i + 1]) % Stmt[i].boundary
                          = Stmt[i].offset
  BY DEF AlignedAtEveryBase, Active
<1> DEFINE s == Stmt[i]
           a == source.base + phase + layout.at[i]
<1>1. AsmTypeOK /\ layout = WalkNow BY DEF AsmInv, FinalInv
<1>2. /\ source \in Source /\ FormsFit(source, form) /\ phase \in Nat
      /\ Known \in Nat /\ (source.object => Known \in Powers)
      /\ Len(Stmt) \in Nat /\ LayoutFits(source, layout)
  BY <1>1, KnownFacts DEF AsmTypeOK
<1>3. IsPass(source, form, phase, Known, layout) BY <1>1, <1>2, WalkFacts DEF WalkNow
<1>4. i \in 1..Len(source.stmts) /\ source.stmts[i].kind = "align" BY DEF Index, IsA, Stmt
<1>5. /\ s.boundary \in Nat /\ s.offset \in Nat /\ s.offset < s.boundary
      /\ source.object => s.boundary \in Powers
  <2>1. source.stmts[i] \in Statement(i, Len(source.stmts), source.object)
        /\ Len(source.stmts) \in Nat
    BY <1>2, <1>4, FileFacts
  <2> QED BY <2>1, <1>4, StatementFacts DEF Stmt
<1>6. source.object => layout.align % s.boundary = 0
  <2> SUFFICES ASSUME source.object PROVE layout.align % s.boundary = 0 OBVIOUS
  <2>1. layout.align \in Powers /\ s.boundary \in Powers BY <1>2, <1>5 DEF LayoutFits
  <2>2. s.boundary <= layout.align
    <3>1. layout.align >= s.boundary BY <1>3, <1>4 DEF IsPass, Stmt
    <3>2. layout.align \in Nat BY <1>2 DEF LayoutFits
    <3> QED BY <3>1, <3>2, <1>5
  <2> QED BY <2>1, <2>2, PowerDivides
<1>7. layout.at[i] \in Nat /\ source.base \in Nat /\ a \in Nat
  <2>1. i \in 1..(Len(Stmt) + 1) BY <1>2, <1>4 DEF Stmt
  <2>2. layout.at[i] \in Nat BY <2>1, <1>2 DEF LayoutFits, Stmt
  <2>3. source.base \in Nat BY <1>2, FileFacts
  <2> QED BY <2>2, <2>3, <1>2
<1>8. layout.at[i + 1] = layout.at[i] + Padding(a, s)
  <2>1. layout.at[i + 1] = layout.at[i] + Bytes(source, form, i, a) BY <1>3, <1>4 DEF IsPass
  <2>2. Bytes(source, form, i, a) = Padding(a, s) BY <1>2, <1>4, <1>7, BytesType DEF Stmt
  <2> QED BY <2>1, <2>2
<1>9. Padding(a, s) \in Nat /\ (a + Padding(a, s)) % s.boundary = s.offset
  <2> HIDE DEF a, s
  <2> QED BY <1>5, <1>7, PaddingMeets
<1>10. source.base + phase + layout.at[i + 1] = a + Padding(a, s)
  BY <1>2, <1>7, <1>8, <1>9
<1> QED BY <1>6, <1>9, <1>10

\* .align keeps its promise at every base that satisfies what the object records
\* (asm_pass1, reloc_alignment).
THEOREM AlignedAtEveryBaseHolds == AsmSpec => []AlignedAtEveryBase
BY AsmCorrect, AlignedMeans, PTL

\* No limit has cut a layout short on which the contracts were measured.
WithinLimits == passes < MaxPass /\ (source.object /\ Conditional => tries < MaxTry)

LEMMA PlaceableMeans == AsmInv /\ WithinLimits => ContractsPlaceable
<1> SUFFICES ASSUME AsmInv, WithinLimits, stage = "written", source.object => layout.align > 1
             PROVE  \E b \in IF source.object THEN 0..(Coarser(Page, layout.align) - 1)
                                              ELSE {source.base} :
                       /\ source.object => b % layout.align = phase
                       /\ \A i \in Contracts : layout.on[i] =>
                             Honours(i, b + layout.at[i], b + layout.at[Stmt[i].to])
  BY DEF ContractsPlaceable
<1>1. /\ AsmTypeOK /\ layout = WalkNow /\ FlatInv /\ SuitInv /\ DefinedInv
      /\ source.object \in BOOLEAN
  <2>1. AsmTypeOK /\ layout = WalkNow /\ FlatInv /\ SuitInv /\ DefinedInv
    BY DEF AsmInv, FinalInv
  <2> QED BY <2>1, FileFacts DEF AsmTypeOK
<1>2. \A i \in Contracts : i \in Index /\ Contract(source, i) /\ IsA(i, "branch")
  BY DEF Contracts, Contract, IsA, Stmt
<1>3. \A i, b : HonoursIn(source, i, b, layout) <=>
                   Honours(i, b + layout.at[i], b + layout.at[Stmt[i].to])
  BY DEF HonoursIn, Honours, Stmt
<1>4. CASE source.object
  <2>1. Suited(source, phase, layout) BY <1>1, <1>4 DEF SuitInv, Latest, WithinLimits
  <2>2. phase < layout.align BY <1>4, <2>1 DEF Suited
  <2>3. phase \in Nat /\ layout.align \in Nat BY <1>1 DEF AsmTypeOK, LayoutFits
  <2>4. phase % layout.align = phase
    <3>1. layout.align \in Nat \ {0} /\ phase \in 0..(layout.align - 1) BY <2>2, <2>3
    <3> QED BY <3>1, ModSmall
  <2>5. phase \in 0..(Coarser(Page, layout.align) - 1)
    <3>1. Page \in Nat BY AsmAssumption DEF Powers
    <3>2. Coarser(Page, layout.align) \in Nat /\ Coarser(Page, layout.align) >= layout.align
      BY <3>1, <2>3, CoarserFacts
    <3> QED BY <3>2, <2>2, <2>3
  <2>6. \A i \in Contracts : layout.on[i] => HonoursIn(source, i, phase, layout)
    BY <1>2, <1>4, <2>1 DEF Suited, Index
  <2> QED BY <1>3, <1>4, <2>4, <2>5, <2>6
<1>5. CASE ~source.object
  <2>1. \A i \in Contracts : layout.on[i] => layout.on[Stmt[i].to] BY <1>1, <1>2 DEF DefinedInv
  <2>2. \A i \in Contracts : layout.on[i] => HonoursIn(source, i, source.base, layout)
    BY <1>1, <1>2, <1>5, <2>1 DEF FlatInv, Latest, WithinLimits
  <2> QED BY <1>3, <1>5, <2>2
<1> QED BY <1>1, <1>4, <1>5

LEMMA RefusedMeans == AsmInv /\ WithinLimits => RefusedOnlyIfImpossible
<1> SUFFICES ASSUME AsmInv, passes < MaxPass, why = "phase", ~Conditional,
                    NEW b \in 0..(Modulus - 1), b % source.segmentalign = 0
             PROVE  LET l == Walk(form, b, Modulus)
                    IN  \E i \in Contracts :
                           \/ ~Reaches(l.at[i], l.at[Stmt[i].to])
                           \/ ~Honours(i, b + l.at[i], b + l.at[Stmt[i].to])
  BY DEF RefusedOnlyIfImpossible, WithinLimits
<1> DEFINE l == Walk(form, b, Modulus)
<1>1. l = WalkIn(source, form, b, Modulus) BY WalkIsIn
<1>2. Breaks(source, b, l) BY <1>1 DEF AsmInv, RefusedInv
<1> HIDE DEF l
<1>3. PICK i \in 1..Len(source.stmts) :
         Contract(source, i) /\ ~(ReachesIn(source, l, i) /\ HonoursIn(source, i, b, l))
  BY <1>2 DEF Breaks
<1>4. i \in Contracts BY <1>3 DEF Contracts, Contract, Index, IsA, Stmt
<1>5. \/ ~Reaches(l.at[i], l.at[Stmt[i].to])
      \/ ~Honours(i, b + l.at[i], b + l.at[Stmt[i].to])
  BY <1>3 DEF ReachesIn, HonoursIn, Honours, Stmt
<1> QED BY <1>4, <1>5 DEF l

\* While the limits last, the residue that asm_select_reloc_phases records serves every
\* contract of the file, and where it finds none the forms allow none.
THEOREM ResidueServes == AsmSpec => [](WithinLimits => ResidueServesContracts)
<1>1. AsmInv => (WithinLimits => ResidueServesContracts)
  BY PlaceableMeans, RefusedMeans DEF ResidueServesContracts
<1> QED BY <1>1, AsmCorrect, PTL
=============================================================================
