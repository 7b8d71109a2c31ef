---------------------------- MODULE RegionLayout ----------------------------
(***************************************************************************)
(* The objects of a program are placed into one MEMORY region, one after   *)
(* the other, by the two procedures of RegionAllocator.  layout_objects    *)
(* takes them in the order of the input files; that order is left open.    *)
(*                                                                         *)
(* The linker stops at the first object it cannot place.                   *)
(***************************************************************************)
EXTENDS RegionAllocator

CONSTANTS
    Problem   \* programs: a region, and what each object that goes there asks for

\* Alignments are powers of two of at most half the address space.  A pool has
\* at most 256 banks of at most 16 bits, and addresses in it have 32.
ASSUME ProblemAssumption ==
    \A p \in Problem :
        /\ p.region \in RegionType
        /\ p.region.start < p.region.end
        /\ p.region.bank = 0 => p.region.end <= Top
        /\ p.region.bank > 0 => /\ p.region.start = 0
                                /\ p.region.end % p.region.bank = 0
                                /\ 2 * (p.region.end + Top) <= Word
                                /\ ~p.region.rom
        /\ \A o \in DOMAIN p.shape :
              /\ p.shape[o] \in ShapeType
              /\ Top % p.shape[o].align = 0
              /\ p.shape[o].phase < p.shape[o].align
              /\ IsFiniteSet(p.shape[o].branches)

VARIABLES
    problem,   \* the region and the objects of the link
    cursor,    \* high-water mark and holes of the region
    at,        \* address of every object placed so far
    verdict    \* "linking", or why the linker stopped

regionVars == <<problem, cursor, at, verdict>>

Region == problem.region
Shape(o) == problem.shape[o]
Object == DOMAIN problem.shape

Refusals == {"impossible", "overflow", "scope", "contracts", "invalid"}

\* ensure_cursor: the first use of a region opens its cursor.
RegionInit ==
    /\ problem \in Problem
    /\ cursor = [cur |-> problem.region.start, holes |-> {}]
    /\ at = <<>>
    /\ verdict = "linking"

\* set_layout_runtime_address: a logical address behind the pool is refused.
Answer(o) ==
    LET a == AllocateCode(Region, cursor, Shape(o))
    IN  IF a.answer = "placed" /\ Region.bank > 0 /\ a.at >= Region.end
        THEN Refused("invalid", cursor) ELSE a

Accept(o, answer) ==
    /\ answer.answer = "placed"
    /\ cursor' = answer.cursor
    /\ at' = [p \in DOMAIN at \cup {o} |-> IF p = o THEN answer.at ELSE at[p]]
    /\ UNCHANGED <<problem, verdict>>

Stop(answer) ==
    /\ answer.answer \in Refusals
    /\ verdict' = answer.answer
    /\ UNCHANGED <<problem, cursor, at>>

\* An object whose search hangs is neither placed nor refused.
Place(o) ==
    /\ verdict = "linking"
    /\ o \notin DOMAIN at
    /\ Accept(o, Answer(o))

Refuse(o) ==
    /\ verdict = "linking"
    /\ o \notin DOMAIN at
    /\ Stop(Answer(o))

RegionNext == \E o \in Object : Place(o) \/ Refuse(o)

RegionSpec == RegionInit /\ [][RegionNext]_regionVars

-----------------------------------------------------------------------------
EndOf(o) == at[o] + Shape(o).size
BytesOf(o) == at[o]..(EndOf(o) - 1)
HoleBytes == UNION {h.from..(h.to - 1) : h \in cursor.holes}

\* Types of the variables.
RegionTypeOK ==
    /\ problem \in Problem
    /\ cursor \in CursorType
    /\ \A h \in cursor.holes : h.from < h.to
    /\ cursor.cur \in Region.start..Region.end
    /\ DOMAIN at \subseteq Object
    /\ \A o \in DOMAIN at : at[o] \in Region.start..Region.end
    /\ verdict \in {"linking"} \cup Refusals

\* Disjoint holes that lie below the high-water mark.
HolesApart ==
    /\ \A h \in cursor.holes : Region.start <= h.from /\ h.to <= cursor.cur
    /\ \A h, g \in cursor.holes : h = g \/ h.to <= g.from \/ g.to <= h.from

\* No two objects overlap and all lie in the region below the mark.
ObjectsApart ==
    /\ cursor.cur <= Region.end
    /\ \A o \in DOMAIN at : Region.start <= at[o] /\ EndOf(o) <= cursor.cur
    /\ \A o, p \in DOMAIN at : o = p \/ EndOf(o) <= at[p] \/ EndOf(p) <= at[o]

\* No hole that may be given away holds a byte of an object.
HolesAreFree ==
    \A o \in DOMAIN at, h \in cursor.holes : EndOf(o) <= h.from \/ h.to <= at[o]

(***************************************************************************)
(* Objects and holes partition what lies below the high-water mark: no     *)
(* two objects share a byte, none reaches out of the region, and no byte   *)
(* below the mark is lost to later objects (cursor_take_hole and           *)
(* cursor_consume_hole_range split holes, alignment makes new ones).       *)
(***************************************************************************)
RegionPartitioned == HolesApart /\ ObjectsApart /\ HolesAreFree

NoByteLost ==
    (UNION {BytesOf(o) : o \in DOMAIN at}) \cup HoleBytes
        = Region.start..(cursor.cur - 1)

\* Both: every byte below the mark belongs to one object or to one hole.
RegionAccounted == RegionPartitioned /\ NoByteLost

\* What a shape asks for, measured at an address.
Kept(s, a) ==
    /\ a % s.align = s.phase
    /\ s.page => a \div Page = (a + s.size - 1) \div Page
    /\ s.window[2] > 0 =>
          (a + s.window[1]) \div Page = (a + s.window[1] + s.window[2] - 1) \div Page
    /\ s.zp => a + s.size <= Page
    /\ \A d \in s.reads : a + d \notin Hazard
    /\ \A b \in s.branches :
          b.policy # "flex" =>
              /\ b.target < s.size
              /\ b.policy = "same" <=>
                    (a + b.source + 2) \div Page = (a + b.target) \div Page

(***************************************************************************)
(* Whatever was placed before it, an object has the page, alignment, index *)
(* window and destructive-read constraints it asked for, and its .same and *)
(* .cross branches, measured at the final addresses, do what they declare. *)
(***************************************************************************)
ContractsKept == \A o \in DOMAIN at : Kept(Shape(o), at[o])
=============================================================================
