----------------------------- MODULE BuildDriver -----------------------------
(***************************************************************************)
(* The compile driver (driver/vcsc.c): it compiles and assembles the C26   *)
(* inputs, adds the default cartridge and the swapram helper when the      *)
(* inputs ask for them, and links.  With -finline-profit it first searches *)
(* for functions worth expanding: every candidate is compiled, assembled   *)
(* and linked on trial with those accepted so far, and kept when the map   *)
(* of the trial shows a gain.  The link is that of ArchiveSelection.       *)
(***************************************************************************)
EXTENDS ArchiveSelection

CONSTANTS
    Job,       \* what the driver may be asked to build
    Profile,   \* the object of the default cartridge
    Helper,    \* the object of the mapper's swapram helpers
    Figures,   \* what a map may say: bytes of ROM, of RAM objects, of stack
    NoFigures  \* the link failed, or was not tried

(***************************************************************************)
(* What is to be built.  link: the inputs as the linker sees them;         *)
(* scanned: those of them that are objects or archives of the command      *)
(* line, in which the driver looks for markers (not libraries of -l, not   *)
(* the runtime); cartridge, ramMapper, moves, provider: which of the       *)
(* scanned hold the marker of a cartridge, of the mappers 3E and 3EX, of a *)
(* use of their swapram helpers, and of such helpers; script: -T was       *)
(* given; units: the C26 inputs; candidate: what their manifests list, as  *)
(* the unit of each candidate, unit by unit; profit: -finline-profit.      *)
(***************************************************************************)
JobType ==
    [link : Link, scanned : SUBSET Object, cartridge : SUBSET Object,
     ramMapper : SUBSET Object, moves : SUBSET Object, provider : SUBSET Object,
     script : BOOLEAN, units : Nat, candidate : Seq(Nat), profit : BOOLEAN]

ASSUME FiguresAssumption ==
    Figures \subseteq [rom : Nat, ram : Nat, stack : Nat] /\ NoFigures \notin Figures
ASSUME JobAssumption ==
    /\ {Profile, Helper} \subseteq Object
    /\ \A j \in Job : /\ j \in JobType
                      /\ {Profile, Helper} \cap j.link.input = {}
                      /\ \A c \in DOMAIN j.candidate : j.candidate[c] \in 1..j.units

VARIABLES
    job,
    stage,      \* where main is; "link" while the final link runs
    compiled,   \* C26 inputs compiled and assembled
    chosen,     \* tus: the candidates accepted, by unit
    object,     \* link_inputs: the candidates each unit's object was compiled with
    at,         \* the candidate that is tried next
    changed,    \* this round has accepted one
    current,    \* the figures of the last link that was accepted
    measured,   \* what each link that was tried has measured
    temps       \* files in the private directory

search == <<chosen, object, at, changed, current, measured>>
driver == <<job, stage, compiled, search, temps>>

Units == 1..job.units
Plain == [u \in Units |-> {}]
Scanned == link.input \cap job.scanned

BuildInit ==
    /\ job \in Job
    /\ Init /\ link = job.link
    /\ stage = "compile" /\ compiled = 0
    /\ chosen = Plain /\ object = Plain
    /\ at = 1 /\ changed = FALSE /\ current = NoFigures
    /\ measured = <<>>
    /\ temps = 0

-----------------------------------------------------------------------------
\* Mutant of Kept: the files stay when a step has failed.
KeptOnExit == temps

\* The files that temp_store_cleanup leaves.
Kept == 0

\* main returns, or a tool fails and run_vec_or_die ends the driver by way of its
\* exit handler: either way the private directory is removed.
Ends == /\ stage' = "done" /\ temps' = Kept
        /\ UNCHANGED <<job, compiled, search, vars>>

\* One C26 input; for the search it is compiled again without its dead functions.
CompileUnit ==
    /\ stage = "compile" /\ compiled < job.units
    /\ \/ Ends
       \/ /\ compiled' = compiled + 1
          /\ temps' = temps + IF job.profit THEN 5 ELSE 2
          /\ UNCHANGED <<job, stage, search, vars>>

NeedsProfile == ~job.script /\ Scanned \cap job.cartridge = {}
NeedsHelper == /\ Scanned \cap job.ramMapper # {}
               /\ Scanned \cap job.moves # {}
               /\ Scanned \cap job.provider = {}

Given(o) == [link EXCEPT !.input = @ \cup {o}]

\* The default cartridge, which only configures the link.
AddProfile ==
    /\ stage = "compile" /\ compiled = job.units
    /\ IF NeedsProfile
       THEN \/ Ends
            \/ /\ link' = [Given(Profile) EXCEPT !.config = @ \cup {Profile}]
               /\ temps' = temps + 2
               /\ stage' = "helper"
               /\ UNCHANGED <<job, compiled, search, phase, selected, scan, preferred>>
       ELSE stage' = "helper" /\ UNCHANGED <<job, compiled, search, temps, vars>>

AddHelper ==
    /\ stage = "helper"
    /\ IF NeedsHelper
       THEN \/ Ends
            \/ /\ link' = Given(Helper)
               /\ temps' = temps + 1
               /\ stage' = "baseline"
               /\ UNCHANGED <<job, compiled, search, phase, selected, scan, preferred>>
       ELSE stage' = "baseline" /\ UNCHANGED <<job, compiled, search, temps, vars>>

-----------------------------------------------------------------------------
\* A trial link and its map.  The same objects link to the same figures.
MayMeasure(objects) ==
    IF objects \in DOMAIN measured THEN {measured[objects]} ELSE Figures \cup {NoFigures}

Measure(objects, f) ==
    /\ f \in MayMeasure(objects)
    /\ measured' = [o \in DOMAIN measured \cup {objects} |->
                       IF o = objects THEN f ELSE measured[o]]

\* Without a link there is no search: the final link will tell the user.  A manifest
\* or a map that cannot be read ends the driver.
Baseline ==
    /\ stage = "baseline"
    /\ IF ~job.profit \/ job.units = 0
       THEN stage' = "link" /\ UNCHANGED <<job, compiled, search, temps, vars>>
       ELSE \/ Ends
            \/ /\ \E f \in Figures \cup {NoFigures} : Measure(object, f) /\ current' = f
               /\ stage' = IF current' = NoFigures THEN "link" ELSE "search"
               /\ temps' = temps + 2
               /\ UNCHANGED <<job, compiled, chosen, object, at, changed, vars>>

\* Mutant of Accepts: RAM is spent for ROM.
AcceptsAnyRam(before, after) ==
    \/ after.rom < before.rom
    \/ after.rom = before.rom /\ after.stack < before.stack

\* inline_profit_decide
Accepts(before, after) ==
    /\ after.ram <= before.ram
    /\ \/ after.rom < before.rom
       \/ after.rom = before.rom /\ after.stack < before.stack

UnitOf(c) == job.candidate[c]
Searching == stage = "search" /\ at <= Len(job.candidate)

\* The objects of the trial of candidate c.
Trial(c) == [object EXCEPT ![UnitOf(c)] = chosen[UnitOf(c)] \cup {c}]

\* Mutant of Accepted: the object of the trial is not taken over.
AcceptedOnPaper(c) == object

\* The object of the trial replaces that of its unit.
Accepted(c) == Trial(c)

\* A candidate is compiled, assembled and linked with those accepted so far.
Try ==
    /\ Searching /\ at \notin chosen[UnitOf(at)]
    /\ \/ Ends
       \/ \E f \in Figures \cup {NoFigures} :
             /\ Measure(Trial(at), f)
             /\ IF f # NoFigures /\ Accepts(current, f)
                THEN /\ object' = Accepted(at)
                     /\ chosen' = [chosen EXCEPT ![UnitOf(at)] = @ \cup {at}]
                     /\ current' = f
                     /\ changed' = TRUE
                ELSE UNCHANGED <<object, chosen, current, changed>>
             /\ at' = at + 1
             /\ temps' = temps + 4
             /\ UNCHANGED <<job, stage, compiled, vars>>

Skip ==
    /\ Searching /\ at \in chosen[UnitOf(at)]
    /\ at' = at + 1
    /\ UNCHANGED <<job, stage, compiled, chosen, object, changed, current, measured, temps, vars>>

\* Mutant of Again: one round.
AgainNever == FALSE

Again == changed

EndRound ==
    /\ stage = "search" /\ at > Len(job.candidate)
    /\ stage' = IF Again THEN "search" ELSE "link"
    /\ at' = 1 /\ changed' = FALSE
    /\ UNCHANGED <<job, compiled, chosen, object, current, measured, temps, vars>>

-----------------------------------------------------------------------------
\* run_ld.  After the selection of ArchiveSelection the link is laid out, which may
\* fail; either way the driver ends.
Select == stage = "link" /\ Next /\ UNCHANGED driver

Leave ==
    /\ stage = "link" /\ phase \in {"linked", "failed"}
    /\ Ends

BuildNext == \/ CompileUnit
             \/ AddProfile
             \/ AddHelper
             \/ Baseline
             \/ Try
             \/ Skip
             \/ EndRound
             \/ Select
             \/ Leave

Working == stage # "done"

\* One sequential program: it goes on until it ends.
BuildSpec == /\ BuildInit /\ [][BuildNext]_<<vars, driver>>
             /\ []<>~Working \/ []<><<BuildNext>>_<<vars, driver>>

-----------------------------------------------------------------------------
\* What is linked in the end is what was measured last, unit by unit, and it has
\* neither more ROM nor more RAM than the program without expansions: the object, the
\* accepted names and the figures of a unit are replaced one after the other.
FinalIsMeasured ==
    stage = "link" /\ current # NoFigures =>
        /\ object = chosen
        /\ measured[object] = current
        /\ current.rom <= measured[Plain].rom /\ current.ram <= measured[Plain].ram

\* driver/README.md: when the search ends, each candidate that was left out has been
\* tried with exactly those that were taken, and it does not link or is no gain.  A
\* candidate that was rejected early may be a gain after another was accepted.
NoGainLeft ==
    stage = "link" /\ current # NoFigures =>
        \A c \in DOMAIN job.candidate :
            c \notin chosen[UnitOf(c)] =>
                /\ Trial(c) \in DOMAIN measured
                /\ measured[Trial(c)] = NoFigures \/ ~Accepts(current, measured[Trial(c)])

\* driver/README.md: the driver ends, whatever the trials measure and whichever tool
\* fails, and leaves no intermediate file; so do the passes of the selection.
BuildEnds == <>(stage = "done" /\ temps = 0)
=============================================================================
