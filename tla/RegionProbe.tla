----------------------------- MODULE RegionProbe -----------------------------
(***************************************************************************)
(* The layout of a region with the loop by which vcsc-ld looks for an      *)
(* address behind the high-water mark: align, test every constraint, step  *)
(* on.  In swapram a failed bank constraint skips to the next bank.        *)
(* Addresses are 32-bit unsigned and wrap; only a zero-page object is      *)
(* given up inside the loop.                                               *)
(*                                                                         *)
(* RegionLayout says which address is found, in one step; this module      *)
(* implements it.                                                          *)
(***************************************************************************)
EXTENDS RegionLayout

VARIABLES
    probe   \* <<>>, or the object looked after and the address under test

probeVars == <<problem, cursor, at, verdict, probe>>

\* Mutant of AlignUp: only the low byte of an address is aligned.
AlignUpLow(a, o) == (a + ((o.phase - a) % Page)) % Word

AlignUp(a, o) == (a + ((o.phase - a) % o.align)) % Word

\* Mutant of NextCandidate: a failed bank skips past a whole bank.
NextCandidateFar(r, o, a) ==
    LET next == r.start + ((a - r.start) \div r.bank + 2) * r.bank
    IN  IF r.bank = 0 \/ BankConstraintHolds(r, a, o.size) THEN (a + 1) % Word
        ELSE IF next < Word THEN next ELSE (a + 1) % Word

\* Mutant of NextCandidate: the candidate is aligned again, but not moved on.
NextCandidateStays(r, o, a) ==
    LET next == r.start + ((a - r.start) \div r.bank + 1) * r.bank
    IN  IF r.bank = 0 \/ BankConstraintHolds(r, a, o.size) THEN a
        ELSE IF next < Word THEN next ELSE (a + 1) % Word

\* memory_region_next_bank_candidate, for a candidate the bank test refused.
NextCandidate(r, o, a) ==
    LET next == r.start + ((a - r.start) \div r.bank + 1) * r.bank
    IN  IF r.bank = 0 \/ BankConstraintHolds(r, a, o.size) THEN (a + 1) % Word
        ELSE IF next < Word THEN next ELSE (a + 1) % Word

Probing == probe # <<>>
Wanted == Shape(probe[1])
Candidate == probe[2]

Holds == /\ PageConstraintsHold(Wanted, Candidate)
         /\ BankConstraintHolds(Region, Candidate, Wanted.size)

ProbeInit == RegionInit /\ probe = <<>>

\* Code, objects that go into a hole and impossible ones need no search.
MustProbe(o) ==
    /\ Shape(o).branches = {}
    /\ ~Impossible(Region, Shape(o))
    /\ ~GoesIntoHole(Region, cursor, Shape(o))

Direct(o) ==
    /\ ~Probing /\ ~MustProbe(o)
    /\ Place(o) \/ Refuse(o)
    /\ UNCHANGED probe

Begin(o) ==
    /\ ~Probing
    /\ verdict = "linking" /\ o \notin DOMAIN at
    /\ MustProbe(o)
    /\ probe' = <<o, AlignUp(cursor.cur, Shape(o))>>
    /\ UNCHANGED regionVars

GivesUp(o, a) == o.zp /\ a >= Page

Step ==
    /\ Probing /\ ~Holds
    /\ LET next == AlignUp(NextCandidate(Region, Wanted, Candidate), Wanted) IN
       IF GivesUp(Wanted, next)
       THEN /\ Stop(Refused("overflow", cursor))
            /\ probe' = <<>>
       ELSE /\ probe' = <<probe[1], next>>
            /\ UNCHANGED regionVars

\* The address is checked once more when it becomes the object's.
Find ==
    /\ Probing /\ Holds
    /\ LET found == AtTail(Region, cursor, Wanted, Candidate)
           beyond == Region.bank > 0 /\ Candidate >= Region.end
       IN  IF found.answer = "placed" /\ ~beyond
           THEN Accept(probe[1], found)
           ELSE Stop(IF beyond /\ found.answer = "placed"
                     THEN Refused("invalid", cursor) ELSE found)
    /\ probe' = <<>>

ProbeNext == Step \/ Find \/ \E o \in Object : Direct(o) \/ Begin(o)

-----------------------------------------------------------------------------
(***************************************************************************)
(* Every search ends as RegionLayout says: at the first address behind the *)
(* mark that satisfies every constraint, however the loop got there        *)
(* (skipping from bank to bank loses none), and with a refusal only if     *)
(* there is none.                                                          *)
(***************************************************************************)
ProbesForFirst == RegionSpec
=============================================================================
