---------------------------- MODULE LinkedProgram ----------------------------
(***************************************************************************)
(* A program from the layout of its RAM to its frames: vcsc-ld places the  *)
(* objects and writes the tables, startup initializes what was placed, and *)
(* main runs frame after frame, in whose phases the objects are written.   *)
(* main may end, which starts the program again with RAM as it is.         *)
(***************************************************************************)
EXTENDS PhaseOverlay, Startup

CONSTANTS
    MaxReset   \* restarts that are looked at

\* An address is two bytes.
ASSUME BootAssumption ==
    /\ Top <= Byte * Byte
    /\ \A p \in Program : p.riot \in BOOLEAN /\ p.inits \in 0..(Byte * Byte - 1)

VARIABLES
    phase,     \* phase of the frame
    live,      \* objects whose bytes will be read again
    resets     \* restarts so far

frameVars == <<phase, live, resets>>
vars == <<overlayVars, startupVars, frameVars>>

Obj(o) == program.object[o]
Objects == DOMAIN program.object

-----------------------------------------------------------------------------
(* The startup is chosen before anything is placed. *)

\* startup_layout_needs_zero
NeedsZero(o) ==
    /\ o.kind = "bss" \/ (o.kind = "zp" /\ o.marked)
    /\ ~o.scratch

\* Mutant of DataSafe: noinit objects are forgotten.
DataSafeForAll == \A o \in Objects : NeedsZero(Obj(o)) => program.riot

\* startup_data_is_safe; the region by the segment rule.
DataSafe == \A o \in Objects : ~Obj(o).noinit /\ (NeedsZero(Obj(o)) => program.riot)

\* startup_simple_is_safe
SimpleSafe == DataSafe /\ program.inits = 0 /\ \A o \in Objects : Obj(o).kind # "data"

StartupKind == CASE SimpleSafe -> "simple"
                 [] DataSafe /\ ~SimpleSafe -> "data"
                 [] OTHER -> "full"

-----------------------------------------------------------------------------
(* The records of layout_objects, in its order. *)

Copied == Marked(program.order, [o \in Objects |-> Obj(o).kind = "data"])

\* Mutant of Cleared: what is noinit is cleared like the rest.
ClearedAll == Marked(program.order, [o \in Objects |-> NeedsZero(Obj(o))])

Cleared == Marked(program.order, [o \in Objects |-> NeedsZero(Obj(o)) /\ ~Obj(o).noinit])

\* The images lie one behind the other.
LoadAt(i) ==
    LET at0[j \in 0..Len(Copied)] ==
            IF j = 0 THEN 0 ELSE at0[j - 1] + SizeOf(program, Copied[j])
    IN  at0[i - 1]

\* add_copy_record
CopyRecords ==
    [i \in DOMAIN Copied |->
        [from |-> LoadAt(i), to |-> AddressOf(Copied[i]), size |-> SizeOf(program, Copied[i])]]

\* Mutant of Repeats: a range is known by its address.
RepeatsAddress(records, r) == \E i \in DOMAIN records : records[i].to = r.to

\* add_zero_record: a range that is there already is not added.
Repeats(records, r) == \E i \in DOMAIN records : records[i] = r

ZeroRecords ==
    LET add[i \in 0..Len(Cleared)] ==
            IF i = 0 THEN <<>>
            ELSE LET r == [to |-> AddressOf(Cleared[i]), size |-> SizeOf(program, Cleared[i])]
                 IN  IF Repeats(add[i - 1], r) THEN add[i - 1] ELSE Append(add[i - 1], r)
    IN  add[Len(Cleared)]

Images == Flat([i \in DOMAIN Copied |-> Obj(Copied[i]).image])

\* ROM in the order in which the linker takes it: images, copy, init, zero.
\* A link whose tables do not fit is refused.
Boot ==
    LET copy == CopyBytes(CopyRecords)
        init == InitBytes(program.inits)
        zero == ZeroBytes(ZeroRecords)
        bytes == Images \o copy \o init \o zero
        copyAt == Len(Images)
    IN  /\ stage = "linked"
        /\ ~program.region.rom /\ program.region.bank = 0
        /\ Len(bytes) <= Byte * Byte
        /\ stage' = "booted"
        /\ startup' = StartupKind
        /\ tables' = [copy |-> copyAt, init |-> copyAt + Len(copy),
                      zero |-> copyAt + Len(copy) + Len(init),
                      clear |-> IF program.riot THEN Region.start..(Region.end - 1) ELSE {}]
        /\ rom' = [a \in 0..(Byte * Byte - 1) |->
                      IF a < Len(bytes) THEN bytes[a + 1] ELSE 0]
        /\ ram' = [a \in Region.start..(Region.end - 1) |-> Junk]
        /\ EnterStartup
        /\ UNCHANGED <<program, shared, probeVars, frameVars>>

-----------------------------------------------------------------------------
(* Frames. *)

\* The value an object writes.
Mark(o) == -2 - PlaceIn(program, o)

Uses(o) == UNION UsesOf(Obj(o))
LastUse(o) == Largest(Uses(o))

Anywhere(o) == {} \in UsesOf(Obj(o))

\* What an object holds is disposable between frames only if it is declared so.
Disposable(o) == Obj(o).eligible /\ ~Anywhere(o)

Write(o) ==
    /\ step \in {"main", "frame"}
    /\ phase \in Uses(o) \/ Anywhere(o)
    /\ ram' = [a \in DOMAIN ram |-> IF a \in OwnBytes(o) THEN Mark(o) ELSE ram[a]]
    /\ live' = live \cup {o}
    /\ step' = "frame"
    /\ UNCHANGED <<overlayVars, tableVars, table, ptr0, x, y, callVars, phase, resets>>

NextPhase ==
    /\ step \in {"main", "frame"}
    /\ step' = "frame"
    /\ phase' = (phase + 1) % 4
    /\ live' = {o \in live : Disposable(o) => phase' > phase /\ phase' <= LastUse(o)}
    /\ UNCHANGED <<overlayVars, tableVars, ram, table, ptr0, x, y, callVars, resets>>

\* main has returned: only noinit objects keep what they hold.
Restart ==
    /\ step = "frame" /\ resets < MaxReset
    /\ resets' = resets + 1
    /\ phase' = 0
    /\ live' = {o \in live : Obj(o).noinit}
    /\ UNCHANGED <<overlayVars, tableVars, ram>>
    /\ EnterStartup

-----------------------------------------------------------------------------
Init ==
    /\ OverlayInit
    /\ startup = "full" /\ tables = [copy |-> 0, init |-> 0, zero |-> 0, clear |-> {}]
    /\ rom = <<>> /\ ram = <<>>
    /\ step = "off" /\ table = "copy"
    /\ ptr0 = 0 /\ x = 0 /\ y = 0 /\ saved = 0 /\ called = <<>>
    /\ phase = 0 /\ live = {} /\ resets = 0

LinkStep == Link /\ UNCHANGED <<startupVars, frameVars>>
StartupStep == StartupNext /\ UNCHANGED <<overlayVars, frameVars>>

Next ==
    \/ LinkStep \/ Boot \/ StartupStep \/ NextPhase \/ Restart
    \/ \E o \in Objects : Write(o)

Steps == {"clear", "record", "page", "full", "tail", "init", "called"}

(***************************************************************************)
(* The linker goes on until it has placed everything or refused; whether a *)
(* hook writes its object and whether main ends is left open.              *)
(***************************************************************************)
LinkerGoesOn == WF_overlayVars(LinkStep)

\* The processor goes on, which is weak fairness of StartupStep: it can step
\* as long as it is in startup.
ProcessorGoesOn == []<>(step \notin Steps) \/ []<><<StartupStep>>_vars

Spec == Init /\ [][Next]_vars /\ LinkerGoesOn /\ ProcessorGoesOn

-----------------------------------------------------------------------------
(***************************************************************************)
(* When an initializer or main is entered, after power-on and after every  *)
(* restart, data objects hold their images and all other objects of the    *)
(* program hold zero, except for noinit objects and scratch, and whoever   *)
(* shares their bytes.                                                     *)
(***************************************************************************)
InitializedAtMain ==
    step \in {"init", "called", "main"} =>
        \A o \in Objects, i \in 1..Largest({SizeOf(program, q) : q \in Objects}) :
            i <= SizeOf(program, o) =>
              LET byte == ram[AddressOf(o) + i - 1]
              IN  /\ Obj(o).kind = "data" => byte = Obj(o).image[i]
                  /\ NeedsZero(Obj(o)) /\ ~Obj(o).noinit => byte = Zero

(***************************************************************************)
(* linker/README.md: "provably disjoint conservative intervals".  What an  *)
(* object was given in a phase is there until its last use in the frame;   *)
(* an object that is no workspace keeps it for ever, and a noinit object   *)
(* also through a restart.                                                 *)
(***************************************************************************)
LiveIntact ==
    step \in {"main", "frame"} => \A o \in live : \A a \in OwnBytes(o) : ram[a] = Mark(o)

\* Every initializer is called, once and in the order of the link, whatever
\* the ones before have left in ptr0.
CalledOnceInOrder ==
    step = "main" /\ startup # "simple" => called = [i \in 1..program.inits |-> i]

\* Startup comes to main, after power-on and after every restart.
ReachesMain == (step \in Steps) ~> (step = "main")

(***************************************************************************)
(* compiler/README.md: "The linker must find a legal address or reject the *)
(* link."  For objects whose constraints do not contradict each other the  *)
(* link ends.                                                              *)
(***************************************************************************)
LinkEnds == <>(stage # "link")
=============================================================================
