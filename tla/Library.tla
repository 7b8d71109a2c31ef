------------------------------- MODULE Library -------------------------------
(***************************************************************************)
(* What a command that updates an archive promises: it happens as a whole, *)
(* at one moment before it ends, or not at all; the exit status says which *)
(* of the two, and a command that is killed did one of them.               *)
(***************************************************************************)
EXTENDS Integers, Sequences, FiniteSets

CONSTANTS
    Command,    \* [op, inputs]: the updates that may be asked for
    Missing,    \* the data of an input that cannot be read
    Invalid,    \* names that no member may have
    Absent      \* there is no archive

VARIABLES
    shelf,      \* the archive: [kind, member, rest], or Absent
    job         \* the present or last command: [state, cmd, status]

libraryVars == <<shelf, job>>

Addable(inputs) ==
    \A i \in DOMAIN inputs : inputs[i].data # Missing /\ inputs[i].name \notin Invalid

\* Only an archive that is whole can be rewritten.
Possible(c) ==
    /\ shelf # Absent => shelf.kind = "archive" /\ shelf.rest = "none"
    /\ Addable(c.inputs)

\* t is what s holds at the places I, in order, and behind it the first n of
\* the inputs.
Composed(t, s, I, inputs, n) ==
    /\ Len(t) = Cardinality(I) + n
    /\ \A i \in I : t[Cardinality(I \cap 1..i)] = s[i]
    /\ \A j \in 1..n : t[Cardinality(I) + j] = inputs[j]

\* r: members of the same names give way to the inputs; q: nothing does.
Kept(c, s) ==
    {i \in DOMAIN s : c.op = "r" => \A j \in DOMAIN c.inputs : c.inputs[j].name # s[i].name}

Updates(c, new) ==
    LET old == IF shelf = Absent THEN <<>> ELSE shelf.member
    IN  /\ new.kind = "archive" /\ new.rest = "none"
        /\ Composed(new.member, old, Kept(c, old), c.inputs, Len(c.inputs))

Ask == /\ job.state = "idle"
       /\ \E c \in Command : job' = [state |-> "asked", cmd |-> c, status |-> "none"]
       /\ UNCHANGED shelf

Update == /\ job.state = "asked"
          /\ Possible(job.cmd)
          /\ shelf' # Absent /\ Updates(job.cmd, shelf')
          /\ job' = [state |-> "updated", cmd |-> job.cmd, status |-> "none"]

Answer == /\ job.state # "idle"
          /\ job' = [state  |-> "idle", cmd |-> job.cmd,
                     status |-> IF job.state = "updated" THEN "done" ELSE "failed"]
          /\ UNCHANGED shelf

Kill == /\ job.state # "idle"
        /\ job' = [state |-> "idle", cmd |-> job.cmd, status |-> "killed"]
        /\ UNCHANGED shelf

LibraryNext == Ask \/ Update \/ Answer \/ Kill
LibrarySpec == job.state = "idle" /\ [][LibraryNext]_libraryVars
=============================================================================
