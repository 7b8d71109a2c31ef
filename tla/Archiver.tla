------------------------------ MODULE Archiver -------------------------------
(***************************************************************************)
(* vcsc-ar and the readers of its archives.                                *)
(*                                                                         *)
(* An update writes the new archive into a file of a fixed name next to    *)
(* the old one and renames it when everything was written.  It may fail at *)
(* every call of the system and may be killed at every step; the next      *)
(* update finds what it left.  Meanwhile somebody may read the archive:    *)
(* vcsc-ar lists or extracts members, vcsc-ld loads them all.              *)
(*                                                                         *)
(* Names are entries of a directory and files are what the entries and the *)
(* processes refer to: a file that was renamed over lives on for those who *)
(* have it open.  Two updates of one archive never run at the same time.   *)
(***************************************************************************)
EXTENDS Integers, Sequences

CONSTANTS
    Name,       \* of members
    Invalid,    \* the names with a separator in them
    Data,       \* what a member may hold
    Missing,    \* the data of an input that cannot be opened or measured
    Partial,    \* the data of an extracted file that was cut short
    Absent,     \* no file, no archive
    Inode,      \* files that may exist at a time
    Archive,    \* the archives that may be there at first, or Absent
    Command,    \* updates: [op : {"r", "q"}, inputs : Seq([name, data])]
    Request,    \* reads: [op : {"t", "x", "load"}, only : SUBSET Name]
    MaxCommand, MaxRead, MaxCrash

VARIABLES
    file,       \* the contents of each inode
    entry,      \* the archive's name and that of the new one: an inode or Absent
    writer,     \* the process that updates
    reader,     \* the process that reads
    work        \* the files of the directory that is extracted into

vars == <<file, entry, writer, reader, work>>

Input == [name : Name, data : Data \cup {Missing}]
Member == [name : Name, data : Data]

\* kind: whether the file begins as an archive does.
\* rest: the file ends behind a member, in the header of one more, or in the
\* data of a member of that name.
File == [kind : {"archive", "other"}, member : Seq(Member), rest : {"none", "header"} \cup Name]

ASSUME ArchiverAssumption ==
    /\ Invalid \subseteq Name /\ Inode # {}
    /\ Missing \notin Data /\ Partial \notin Data
    /\ Absent \notin Inode \cup Data \cup File
    /\ "none" \notin Name /\ "header" \notin Name
    /\ Archive \subseteq File \cup {Absent}
    /\ Command \subseteq [op : {"r", "q"}, inputs : Seq(Input)]
    /\ Request \subseteq [op : {"t", "x", "load"}, only : SUBSET Name]
    /\ MaxCommand \in Nat /\ MaxRead \in Nat /\ MaxCrash \in Nat

Header == [kind |-> "archive", member |-> <<>>, rest |-> "none"]

\* What may have got to the disk of what was written.
Cuts(f) ==
    {f, [f EXCEPT !.kind = "other", !.member = <<>>]} \cup
    UNION {{[f EXCEPT !.member = SubSeq(@, 1, n - 1), !.rest = r] :
               r \in {"none", f.member[n].name}} : n \in DOMAIN f.member}

-----------------------------------------------------------------------------
(* Updates.                                                                *)

Init ==
    /\ \E a \in Archive : LET i == CHOOSE j \in Inode : TRUE IN
          /\ entry = [archive |-> IF a = Absent THEN Absent ELSE i, tmp |-> Absent]
          /\ file = [j \in Inode |-> IF j = i /\ a # Absent THEN a ELSE Header]
    /\ writer = [pc |-> "idle", cmd |-> [op |-> "r", inputs |-> <<>>], old |-> Absent,
                 at |-> 1, status |-> "none", begun |-> 0, killed |-> 0]
    /\ reader = [pc |-> "idle", ask |-> [op |-> "t", only |-> {}], fd |-> Absent,
                 at |-> 1, out |-> <<>>, was |-> Header, status |-> "none", begun |-> 0]
    /\ work = [n \in Name |-> Absent]

\* The archive is opened for reading if there is one.
Start(c) ==
    /\ writer.pc = "idle" /\ writer.begun < MaxCommand
    /\ LET old == entry.archive
           ok == old = Absent \/ file[old].kind = "archive"
       IN  writer' = [pc |-> IF ok THEN "create" ELSE "exit", cmd |-> c, old |-> old, at |-> 1,
                      status |-> "failed", begun |-> writer.begun + 1, killed |-> writer.killed]
    /\ UNCHANGED <<file, entry, reader, work>>

Free == {i \in Inode : i # entry.archive /\ i # entry.tmp /\ i # reader.fd}
New == {i \in Free : i = CHOOSE j \in Free : TRUE}    \* one of them

\* Mutant of Create: the archive itself is opened for writing.
CreateInPlace ==
    /\ writer.pc = "create"
    /\ \E i \in IF entry.archive = Absent THEN New ELSE {entry.archive} :
          /\ entry' = [entry EXCEPT !.tmp = i]
          /\ file' = [file EXCEPT ![i] = Header]
    /\ writer' = [writer EXCEPT !.pc = IF writer.old = Absent THEN "add" ELSE "copy"]
    /\ UNCHANGED <<reader, work>>

\* fopen(tmp_name, "wb"): what an earlier update left is emptied.
Create ==
    /\ writer.pc = "create"
    /\ \/ /\ writer' = [writer EXCEPT !.pc = "exit"]
          /\ UNCHANGED <<file, entry>>
       \/ \E i \in IF entry.tmp = Absent THEN New ELSE {entry.tmp} :
             /\ entry' = [entry EXCEPT !.tmp = i]
             /\ file' = [file EXCEPT ![i] = Header]
             /\ writer' = [writer EXCEPT !.pc = IF writer.old = Absent THEN "add" ELSE "copy"]
    /\ UNCHANGED <<reader, work>>

Put(m) == file' = [file EXCEPT ![entry.tmp].member = Append(@, m)]

Replaced(m) ==
    writer.cmd.op = "r" /\ \E i \in DOMAIN writer.cmd.inputs : writer.cmd.inputs[i].name = m.name

\* A member of the old archive is written or, when an input replaces it, skipped.
CopyMember ==
    /\ writer.pc = "copy" /\ writer.at <= Len(file[writer.old].member)
    /\ LET m == file[writer.old].member[writer.at]
       IN  IF Replaced(m) THEN UNCHANGED file ELSE Put(m)
    /\ writer' = [writer EXCEPT !.at = @ + 1]
    /\ UNCHANGED <<entry, reader, work>>

EndCopy ==
    /\ writer.pc = "copy" /\ writer.at > Len(file[writer.old].member)
    /\ writer' = [writer EXCEPT !.pc = IF file[writer.old].rest = "none" THEN "add" ELSE "close",
                                !.at = 1]
    /\ UNCHANGED <<file, entry, reader, work>>

AddInput ==
    /\ writer.pc = "add" /\ writer.at <= Len(writer.cmd.inputs)
    /\ LET m == writer.cmd.inputs[writer.at]
       IN  IF m.data # Missing /\ m.name \notin Invalid
           THEN /\ Put(m)
                /\ writer' = [writer EXCEPT !.at = @ + 1]
           ELSE /\ writer' = [writer EXCEPT !.pc = "close"]
                /\ UNCHANGED file
    /\ UNCHANGED <<entry, reader, work>>

EndAdd ==
    /\ writer.pc = "add" /\ writer.at > Len(writer.cmd.inputs)
    /\ writer' = [writer EXCEPT !.pc = "close", !.status = "done"]
    /\ UNCHANGED <<file, entry, reader, work>>

\* An input changes its size while it is copied, or the disk is full.
Fail ==
    /\ writer.pc \in {"copy", "add"}
    /\ writer' = [writer EXCEPT !.pc = "close"]
    /\ UNCHANGED <<file, entry, reader, work>>

\* Output is buffered: what could not be written may be known only now.
\* Mutant of Close: what fclose() answers is not looked at.
CloseUnchecked ==
    /\ writer.pc = "close"
    /\ \E f \in Cuts(file[entry.tmp]) : file' = [file EXCEPT ![entry.tmp] = f]
    /\ writer' = [writer EXCEPT !.pc = IF writer.status = "done" THEN "rename" ELSE "remove"]
    /\ UNCHANGED <<entry, reader, work>>

Close ==
    /\ writer.pc = "close"
    /\ \/ /\ writer' = [writer EXCEPT !.pc = IF writer.status = "done" THEN "rename" ELSE "remove"]
          /\ UNCHANGED file
       \/ /\ \E f \in Cuts(file[entry.tmp]) : file' = [file EXCEPT ![entry.tmp] = f]
          /\ writer' = [writer EXCEPT !.pc = "remove", !.status = "failed"]
    /\ UNCHANGED <<entry, reader, work>>

Rename ==
    /\ writer.pc = "rename"
    /\ \/ /\ entry' = [archive |-> entry.tmp, tmp |-> Absent]
          /\ writer' = [writer EXCEPT !.pc = "exit"]
       \/ /\ writer' = [writer EXCEPT !.pc = "remove", !.status = "failed"]
          /\ UNCHANGED entry
    /\ UNCHANGED <<file, reader, work>>

\* Nobody asks whether remove() works.
Remove ==
    /\ writer.pc = "remove"
    /\ entry' \in {entry, [entry EXCEPT !.tmp = Absent]}
    /\ writer' = [writer EXCEPT !.pc = "exit"]
    /\ UNCHANGED <<file, reader, work>>

Exit ==
    /\ writer.pc = "exit"
    /\ writer' = [writer EXCEPT !.pc = "idle", !.old = Absent]
    /\ UNCHANGED <<file, entry, reader, work>>

Crash ==
    /\ writer.pc # "idle" /\ writer.killed < MaxCrash
    /\ writer' = [writer EXCEPT !.pc = "idle", !.old = Absent, !.status = "killed",
                                !.killed = @ + 1]
    /\ IF writer.pc \in {"copy", "add", "close"}
       THEN \E f \in Cuts(file[entry.tmp]) : file' = [file EXCEPT ![entry.tmp] = f]
       ELSE UNCHANGED file
    /\ UNCHANGED <<entry, reader, work>>

-----------------------------------------------------------------------------
(* Reads.                                                                  *)

\* was is history: the archive when it was opened.
OpenRead(q) ==
    /\ reader.pc = "idle" /\ reader.begun < MaxRead
    /\ LET ok == entry.archive # Absent /\ file[entry.archive].kind = "archive"
       IN  reader' = [pc |-> IF ok THEN "read" ELSE "idle", ask |-> q,
                      fd |-> IF ok THEN entry.archive ELSE Absent, at |-> 1, out |-> <<>>,
                      was |-> IF ok THEN file[entry.archive] ELSE Header,
                      status |-> IF ok THEN "none" ELSE "failed", begun |-> reader.begun + 1]
    /\ UNCHANGED <<file, entry, writer, work>>

Wanted(n) == reader.ask.only = {} \/ n \in reader.ask.only

EndRead(status) ==
    reader' = [reader EXCEPT !.pc = "idle", !.fd = Absent, !.status = status]

Deliver(m) == reader' = [reader EXCEPT !.at = @ + 1, !.out = Append(@, m)]

\* x writes a file for each member, over an older one.  What fclose() answers is
\* not looked at here, so that a file may be cut short and the command succeed.
Extract(m) ==
    \/ /\ m.name \notin Invalid
       /\ work' \in {[work EXCEPT ![m.name] = d] : d \in {m.data, Partial}}
       /\ Deliver(m)
    \/ /\ work' = IF m.name \in Invalid THEN work ELSE [work EXCEPT ![m.name] = Partial]
       /\ EndRead("failed")

NextMember ==
    /\ reader.pc = "read" /\ reader.at <= Len(file[reader.fd].member)
    /\ LET m == file[reader.fd].member[reader.at]
       IN  IF ~Wanted(m.name) THEN reader' = [reader EXCEPT !.at = @ + 1] /\ UNCHANGED work
           ELSE IF reader.ask.op = "x" THEN Extract(m)
           ELSE Deliver(m) /\ UNCHANGED work
    /\ UNCHANGED <<file, entry, writer>>

\* The end of the file; x leaves what there is of a member cut short.
LastMember ==
    /\ reader.pc = "read" /\ reader.at > Len(file[reader.fd].member)
    /\ LET rest == file[reader.fd].rest
       IN  /\ EndRead(IF rest = "none" THEN "done" ELSE "failed")
           /\ work' = IF reader.ask.op = "x" /\ rest \in Name \ Invalid /\ Wanted(rest)
                      THEN [work EXCEPT ![rest] = Partial] ELSE work
    /\ UNCHANGED <<file, entry, writer>>

\* Memory, the file system or, in vcsc-ld, the parsing of an object gives up.
FailRead ==
    /\ reader.pc = "read"
    /\ EndRead("failed")
    /\ UNCHANGED <<file, entry, writer, work>>

-----------------------------------------------------------------------------
WriterStep == Create \/ CopyMember \/ EndCopy \/ AddInput \/ EndAdd \/ Fail
              \/ Close \/ Rename \/ Remove \/ Exit
ReaderStep == NextMember \/ LastMember \/ FailRead

Next == (\E c \in Command : Start(c)) \/ WriterStep \/ Crash
        \/ (\E q \in Request : OpenRead(q)) \/ ReaderStep

Spec == Init /\ [][Next]_vars

-----------------------------------------------------------------------------
(* What the archiver promises.                                             *)

Writer ==
    [pc     : {"idle", "create", "copy", "add", "close", "rename", "remove", "exit"},
     cmd    : [op : {"r", "q"}, inputs : Seq(Input)],
     old    : Inode \cup {Absent},
     at     : Nat \ {0},
     status : {"none", "failed", "done", "killed"},
     begun  : 0..MaxCommand,
     killed : 0..MaxCrash]

Reader ==
    [pc     : {"idle", "read"},
     ask    : [op : {"t", "x", "load"}, only : SUBSET Name],
     fd     : Inode \cup {Absent},
     at     : Nat \ {0},
     out    : Seq(Member),
     was    : File,
     status : {"none", "failed", "done"},
     begun  : 0..MaxRead]

TypeOK ==
    /\ file \in [Inode -> File]
    /\ entry \in [archive : Inode \cup {Absent}, tmp : Inode \cup {Absent}]
    /\ writer \in Writer
    /\ reader \in Reader
    /\ work \in [Name -> Data \cup {Partial, Absent}]

\* What Library says of them.
Shelf == IF entry.archive = Absent THEN Absent ELSE file[entry.archive]
Job == [state  |-> IF writer.pc = "idle" THEN "idle"
                   ELSE IF writer.pc = "exit" /\ writer.status = "done" THEN "updated"
                   ELSE "asked",
        cmd    |-> writer.cmd,
        status |-> IF writer.pc = "idle" THEN writer.status ELSE "none"]

Promise == INSTANCE Library WITH shelf <- Shelf, job <- Job

\* Whatever fails and wherever a process is killed, an update replaces the
\* archive by all of the new one at one moment (the rename), or leaves it as it
\* was, and its exit status says which: append_archive and replace_archive.
UpdatesAreAtomic == Promise!LibrarySpec

\* A read that succeeds has delivered what the archive held when it was opened,
\* in order, however it is updated meanwhile; for extract_archive the last of
\* several members of a name is what stays in the directory, whole or cut short.
ReadsWhatWasThere ==
    reader.status = "done" =>
        /\ reader.was.rest = "none"
        /\ LET wanted == {i \in DOMAIN reader.was.member : Wanted(reader.was.member[i].name)}
           IN  Promise!Composed(reader.out, reader.was.member, wanted, <<>>, 0)
        /\ reader.ask.op = "x" =>
              \A k \in DOMAIN reader.out :
                  \/ work[reader.out[k].name] \in {reader.out[k].data, Partial}
                  \/ \E j \in (k + 1)..Len(reader.out) : reader.out[j].name = reader.out[k].name
=============================================================================
