--------------------------- MODULE ArchiverProofs ----------------------------
(***************************************************************************)
(* An update of an archive is atomic and a read is undisturbed, for every  *)
(* archive, all commands and any number of crashes.                        *)
(*                                                                         *)
(* Nobody but the writer has the file open that it writes: its entry is    *)
(* neither the archive's nor a reader's file.  What the file holds is at   *)
(* every step composed of what has been looked at, so that a rename finds  *)
(* it complete.                                                            *)
(***************************************************************************)
EXTENDS Archiver, FiniteSetTheorems, SequenceTheorems, TLAPS

\* The same as in Library.
Composed(t, s, I, inputs, n) ==
    /\ Len(t) = Cardinality(I) + n
    /\ \A i \in I : t[Cardinality(I \cap 1..i)] = s[i]
    /\ \A j \in 1..n : t[Cardinality(I) + j] = inputs[j]

LEMMA SameCardinality == ASSUME NEW I PROVE Promise!Cardinality(I) = Cardinality(I)
BY DEF Promise!Cardinality, Cardinality

LEMMA SameComposed ==
    ASSUME NEW t, NEW s, NEW I, NEW inputs, NEW n
    PROVE  Promise!Composed(t, s, I, inputs, n) <=> Composed(t, s, I, inputs, n)
BY SameCardinality, Zenon DEF Promise!Composed, Composed

\* The places of a selection among the first ones of a sequence are a finite
\* set, and the place of each of them in the selection is one of its places.
LEMMA Places ==
    ASSUME NEW S, NEW s \in Seq(S), NEW I \in SUBSET (DOMAIN s)
    PROVE  /\ IsFiniteSet(I) /\ Cardinality(I) \in Nat
           /\ \A i \in I : Cardinality(I \cap 1..i) \in 1..Cardinality(I)
<1>1. IsFiniteSet(1..Len(s)) /\ DOMAIN s = 1..Len(s) /\ Len(s) \in Nat
    BY FS_Interval, 0 \in Int
<1>2. IsFiniteSet(I)
    BY <1>1, FS_Subset
<1>3. ASSUME NEW i \in I PROVE Cardinality(I \cap 1..i) \in 1..Cardinality(I)
    <2>1. IsFiniteSet(I \cap 1..i) /\ Cardinality(I \cap 1..i) <= Cardinality(I)
        BY <1>2, FS_Subset
    <2>2. i \in I \cap 1..i
        BY <1>1
    <2>3. Cardinality(I \cap 1..i) # 0
        BY <2>1, <2>2, FS_EmptySet
    <2> QED BY <2>1, <2>3, <1>2, FS_CardinalityType
<1> QED BY <1>2, <1>3, FS_CardinalityType

\* The next place of the sequence is looked at: it is selected and appended.
LEMMA Taken ==
    ASSUME NEW S, NEW s \in Seq(S), NEW t \in Seq(S), NEW inputs, NEW J \in SUBSET (DOMAIN s),
           NEW k \in Nat, k + 1 \in J, Composed(t, s, J \cap 1..k, inputs, 0)
    PROVE  Composed(Append(t, s[k + 1]), s, J \cap 1..(k + 1), inputs, 0)
<1> DEFINE I == J \cap 1..k
           K == J \cap 1..(k + 1)
           u == Append(t, s[k + 1])
<1>1. I \in SUBSET (DOMAIN s) /\ K = I \cup {k + 1} /\ k + 1 \notin I /\ K \in SUBSET (DOMAIN s)
    OBVIOUS
<1>2. IsFiniteSet(I) /\ Cardinality(I) \in Nat
    BY <1>1, Places
<1>3. Cardinality(K) = Cardinality(I) + 1
    BY <1>1, <1>2, FS_AddElement
<1>4. Len(t) = Cardinality(I) + 0 /\ \A i \in I : t[Cardinality(I \cap 1..i)] = s[i]
    BY DEF Composed
<1>5. Len(u) = Len(t) + 1 /\ u[Len(t) + 1] = s[k + 1] /\ \A n \in 1..Len(t) : u[n] = t[n]
    <2>1. s[k + 1] \in S
        BY k + 1 \in DOMAIN s
    <2> QED BY <2>1
<1>6. ASSUME NEW i \in K PROVE u[Cardinality(K \cap 1..i)] = s[i]
    <2>1. CASE i = k + 1
        <3>1. K \cap 1..i = K
            BY <2>1
        <3>2. Cardinality(K) = Len(t) + 1
            BY <1>2, <1>3, <1>4
        <3> HIDE DEF u, I, K
        <3> QED BY <3>1, <3>2, <2>1, <1>5
    <2>2. CASE i \in I
        <3>1. K \cap 1..i = I \cap 1..i
            BY <2>2
        <3>2. Cardinality(I \cap 1..i) \in 1..Cardinality(I)
            BY <1>1, <2>2, Places
        <3>3. Cardinality(I \cap 1..i) \in 1..Len(t)
            BY <3>2, <1>2, <1>4
        <3> HIDE DEF u, I, K
        <3> QED BY <3>1, <3>3, <1>4, <1>5, <2>2
    <2> QED BY <1>1, <2>1, <2>2
<1>7. Len(u) = Cardinality(K) + 0
    BY <1>2, <1>3, <1>4, <1>5
<1>8. \A j \in 1..0 : u[Cardinality(K) + j] = inputs[j]
    OBVIOUS
<1> HIDE DEF I, u, K
<1>9. Composed(u, s, K, inputs, 0)
    BY <1>6, <1>7, <1>8 DEF Composed
<1> QED BY <1>9 DEF u, K

\* The next place is looked at and not selected.
LEMMA Passed ==
    ASSUME NEW s, NEW t, NEW inputs, NEW J, NEW k \in Nat, k + 1 \notin J,
           Composed(t, s, J \cap 1..k, inputs, 0)
    PROVE  Composed(t, s, J \cap 1..(k + 1), inputs, 0)
<1>1. J \cap 1..(k + 1) = J \cap 1..k
    OBVIOUS
<1> QED BY <1>1

\* One more input is appended.
LEMMA Added ==
    ASSUME NEW S, NEW s \in Seq(S), NEW t \in Seq(S), NEW inputs, NEW I \in SUBSET (DOMAIN s),
           NEW n \in Nat, inputs[n + 1] \in S, Composed(t, s, I, inputs, n)
    PROVE  Composed(Append(t, inputs[n + 1]), s, I, inputs, n + 1)
<1> DEFINE u == Append(t, inputs[n + 1])
           c == Cardinality(I)
<1>1. c \in Nat /\ \A i \in I : Cardinality(I \cap 1..i) \in 1..c
    BY Places
<1>2. /\ Len(t) = c + n
      /\ \A i \in I : t[Cardinality(I \cap 1..i)] = s[i]
      /\ \A j \in 1..n : t[c + j] = inputs[j]
    BY DEF Composed
<1>3. Len(u) = Len(t) + 1 /\ u[Len(t) + 1] = inputs[n + 1] /\ \A m \in 1..Len(t) : u[m] = t[m]
    OBVIOUS
<1> HIDE DEF u, c
<1>4. ASSUME NEW i \in I PROVE u[Cardinality(I \cap 1..i)] = s[i]
    BY <1>1, <1>2, <1>3
<1>5. ASSUME NEW j \in 1..(n + 1) PROVE u[c + j] = inputs[j]
    <2>1. CASE j = n + 1
        BY <2>1, <1>1, <1>2, <1>3
    <2>2. CASE j \in 1..n
        BY <2>2, <1>1, <1>2, <1>3
    <2> QED BY <2>1, <2>2
<1>6. Len(u) = c + (n + 1)
    BY <1>1, <1>2, <1>3
<1> QED BY <1>4, <1>5, <1>6 DEF Composed, u, c

\* Nothing was looked at yet.
LEMMA Nothing ==
    ASSUME NEW s, NEW inputs, NEW J
    PROVE  Composed(<<>>, s, J \cap 1..0, inputs, 0)
<1>1. J \cap 1..0 = {}
    OBVIOUS
<1> QED BY <1>1, FS_EmptySet DEF Composed

-----------------------------------------------------------------------------
(* The invariant.                                                          *)

Running == {"create", "copy", "add", "close", "rename"}
Writing == {"copy", "add", "close", "rename"}

Old == IF writer.old = Absent THEN <<>> ELSE file[writer.old].member
Whole == writer.old # Absent => file[writer.old].rest = "none"
Chosen == Promise!Kept(writer.cmd, Old)

\* The new archive holds the chosen ones of I and the first n inputs.
Contains(I, n) ==
    /\ file[entry.tmp].kind = "archive" /\ file[entry.tmp].rest = "none"
    /\ Composed(file[entry.tmp].member, Old, I, writer.cmd.inputs, n)
    /\ n <= Len(writer.cmd.inputs)
    /\ \A j \in 1..n : /\ writer.cmd.inputs[j].data # Missing
                       /\ writer.cmd.inputs[j].name \notin Invalid

\* Who has which file open.
FilesApart ==
    /\ entry.archive # Absent => entry.archive # entry.tmp
    /\ reader.fd # Absent => reader.fd # entry.tmp
    /\ reader.pc = "read" => reader.fd # Absent /\ file[reader.fd] = reader.was
    /\ writer.pc \in Writing => entry.tmp # Absent
    /\ writer.pc \in Running =>
          /\ writer.old = entry.archive
          /\ writer.old # Absent => file[writer.old].kind = "archive"
    /\ writer.pc = "copy" => writer.old # Absent

\* What was looked at is in the new archive, and it is renamed when that is all.
Progress ==
    /\ writer.pc = "copy" => /\ writer.at <= Len(Old) + 1
                             /\ Contains(Chosen \cap 1..(writer.at - 1), 0)
    /\ writer.pc = "add" => Whole /\ Contains(Chosen, writer.at - 1)
    /\ writer.pc \in {"close", "rename"} /\ writer.status = "done" =>
          Whole /\ Contains(Chosen, Len(writer.cmd.inputs))

StatusOK ==
    /\ writer.pc = "create" => writer.at = 1
    /\ writer.pc \in {"create", "copy", "add", "remove"} => writer.status = "failed"
    /\ writer.pc = "rename" => writer.status = "done"
    /\ writer.pc \in {"close", "exit"} => writer.status \in {"failed", "done"}

\* What was looked at and is wanted was delivered.
Wish == {i \in DOMAIN reader.was.member : Wanted(reader.was.member[i].name)}
LastStays ==
    reader.ask.op = "x" =>
        \A k \in DOMAIN reader.out :
            \/ work[reader.out[k].name] \in {reader.out[k].data, Partial}
            \/ \E j \in (k + 1)..Len(reader.out) : reader.out[j].name = reader.out[k].name
Reading ==
    /\ reader.pc = "read" =>
          /\ reader.status = "none"
          /\ reader.at <= Len(reader.was.member) + 1
          /\ Composed(reader.out, reader.was.member, Wish \cap 1..(reader.at - 1), <<>>, 0)
          /\ LastStays
    /\ reader.status = "done" =>
          /\ reader.was.rest = "none"
          /\ Composed(reader.out, reader.was.member, Wish, <<>>, 0)
          /\ LastStays

ArchiverInv == TypeOK /\ FilesApart /\ StatusOK /\ Progress /\ Reading

-----------------------------------------------------------------------------
(* Types.                                                                  *)

LEMMA CutsType == ASSUME NEW f \in File PROVE Cuts(f) \subseteq File
<1> DEFINE M == Seq(Member)
           R == {"none", "header"} \cup Name
<1>0. f \in [kind : {"archive", "other"}, member : M, rest : R] /\ <<>> \in M
    BY DEF File
<1>1. [f EXCEPT !.kind = "other", !.member = <<>>] \in File
    <2> HIDE DEF M, R
    <2>1. [f EXCEPT !.kind = "other", !.member = <<>>]
              \in [kind : {"archive", "other"}, member : M, rest : R]
        BY <1>0
    <2> QED BY <2>1 DEF M, R, File
<1>2. ASSUME NEW n \in DOMAIN f.member, NEW r \in {"none", f.member[n].name}
      PROVE  [f EXCEPT !.member = SubSeq(@, 1, n - 1), !.rest = r] \in File
    <2>1. f.member \in Seq(Member) /\ f.member[n] \in Member
        BY DEF File
    <2>2. SubSeq(f.member, 1, n - 1) \in Seq(Member)
        BY <2>1, SubSeqProperties
    <2>3. r \in {"none", "header"} \cup Name
        BY <2>1 DEF Member
    <2> QED BY <2>2, <2>3 DEF File
<1> DEFINE X == [f EXCEPT !.kind = "other", !.member = <<>>]
           E(n, r) == [f EXCEPT !.member = SubSeq(@, 1, n - 1), !.rest = r]
<1>3. Cuts(f) =
          {f, X} \cup
          UNION {{E(n, r) : r \in {"none", f.member[n].name}} : n \in DOMAIN f.member}
    BY DEF Cuts
<1>4. /\ X \in File
      /\ \A n \in DOMAIN f.member : \A r \in {"none", f.member[n].name} : E(n, r) \in File
    BY <1>1, <1>2
<1> HIDE DEF X, E
<1> QED BY <1>3, <1>4

LEMMA NewFree == New \subseteq Free
BY DEF New

LEMMA InitInv == Init => ArchiverInv
<1> SUFFICES ASSUME Init PROVE ArchiverInv
    OBVIOUS
<1> USE ArchiverAssumption
<1> DEFINE i == CHOOSE j \in Inode : TRUE
<1>1. PICK a \in Archive :
         /\ entry = [archive |-> IF a = Absent THEN Absent ELSE i, tmp |-> Absent]
         /\ file = [j \in Inode |-> IF j = i /\ a # Absent THEN a ELSE Header]
    BY DEF Init
<1>2. i \in Inode
    OBVIOUS
<1> HIDE DEF i
<1>3. Header \in File /\ a \in File \cup {Absent}
    BY DEF Header, File
<1>4. /\ file \in [Inode -> File]
      /\ entry \in [archive : Inode \cup {Absent}, tmp : Inode \cup {Absent}]
    BY <1>1, <1>2, <1>3
<1>5. writer \in Writer
    BY DEF Init, Writer
<1>6. reader \in Reader
    BY <1>3 DEF Init, Reader
<1>7. work \in [Name -> Data \cup {Partial, Absent}]
    BY DEF Init
<1>8. FilesApart /\ StatusOK /\ Progress /\ Reading
    BY <1>1 DEF Init, FilesApart, StatusOK, Progress, Reading, Running, Writing
<1> QED BY <1>4, <1>5, <1>6, <1>7, <1>8 DEF ArchiverInv, TypeOK

\* Writing to the new archive keeps files what they are.
LEMMA PutType ==
    ASSUME file \in [Inode -> File], entry.tmp \in Inode, NEW m \in Member, Put(m)
    PROVE  file' \in [Inode -> File]
<1>1. file[entry.tmp] \in File
    OBVIOUS
<1>2. [file[entry.tmp] EXCEPT !.member = Append(@, m)] \in File
    <2> DEFINE M == Seq(Member)
    <2>1. file[entry.tmp]
              \in [kind : {"archive", "other"}, member : M, rest : {"none", "header"} \cup Name]
        BY <1>1 DEF File
    <2>2. Append(file[entry.tmp].member, m) \in M
        BY <2>1
    <2> HIDE DEF M
    <2> QED BY <2>1, <2>2 DEF M, File
<1>3. file' = [file EXCEPT ![entry.tmp] = [file[entry.tmp] EXCEPT !.member = Append(@, m)]]
    BY DEF Put
<1> QED BY <1>2, <1>3

LEMMA CutType ==
    ASSUME file \in [Inode -> File], entry.tmp \in Inode, NEW f \in Cuts(file[entry.tmp]),
           file' = [file EXCEPT ![entry.tmp] = f]
    PROVE  file' \in [Inode -> File]
BY CutsType

LEMMA WriterTypes == TypeOK /\ FilesApart /\ (WriterStep \/ Crash) => TypeOK'
<1> SUFFICES ASSUME TypeOK, FilesApart, WriterStep \/ Crash PROVE TypeOK'
    OBVIOUS
<1>0. /\ file \in [Inode -> File] /\ writer \in Writer
      /\ entry \in [archive : Inode \cup {Absent}, tmp : Inode \cup {Absent}]
      /\ writer.pc \in Writing => entry.tmp \in Inode
      /\ writer.pc = "copy" => writer.old \in Inode
    BY DEF TypeOK, FilesApart, Writer
<1>1. writer' \in Writer
    <2> DEFINE C == [op : {"r", "q"}, inputs : Seq(Input)]
               B == 0..MaxCommand
    <2>0. Writer = [pc : {"idle", "create", "copy", "add", "close", "rename", "remove", "exit"},
                    cmd : C, old : Inode \cup {Absent}, at : Nat \ {0},
                    status : {"none", "failed", "done", "killed"}, begun : B, killed : 0..MaxCrash]
        BY DEF Writer
    <2> HIDE DEF C, B
    <2>1. writer \in Writer
        BY <1>0
    <2>2. CASE Create
        BY <2>0, <2>1, <2>2 DEF Create
    <2>3. CASE CopyMember
        BY <2>0, <2>1, <2>3 DEF CopyMember
    <2>4. CASE EndCopy
        <3> DEFINE p == IF file[writer.old].rest = "none" THEN "add" ELSE "close"
        <3>1. writer' = [writer EXCEPT !.pc = p, !.at = 1]
            BY <2>4, Zenon DEF EndCopy
        <3>2. p \in {"add", "close"}
            OBVIOUS
        <3> HIDE DEF p
        <3> DEFINE N == Nat \ {0}
                   P == {"idle", "create", "copy", "add", "close", "rename", "remove", "exit"}
        <3>3. 1 \in N /\ p \in P
            BY <3>2
        <3> HIDE DEF N, P
        <3>4. Writer = [pc : P, cmd : C, old : Inode \cup {Absent}, at : N,
                        status : {"none", "failed", "done", "killed"}, begun : B,
                        killed : 0..MaxCrash]
            BY <2>0 DEF N, P
        <3> QED BY <2>1, <3>1, <3>3, <3>4
    <2>5. CASE AddInput
        BY <2>0, <2>1, <2>5 DEF AddInput
    <2>6. CASE EndAdd \/ Fail
        BY <2>0, <2>1, <2>6 DEF EndAdd, Fail
    <2>7. CASE Close \/ Rename
        BY <2>0, <2>1, <2>7 DEF Close, Rename
    <2>8. CASE Remove \/ Exit
        BY <2>0, <2>1, <2>8 DEF Remove, Exit
    <2>9. CASE Crash
        <3>1. writer.killed + 1 \in 0..MaxCrash
            BY <2>0, <2>1, <2>9, ArchiverAssumption DEF Crash
        <3>2. PICK k \in 0..MaxCrash :
                 writer' = [writer EXCEPT !.pc = "idle", !.old = Absent, !.status = "killed",
                                          !.killed = k]
            BY <2>9, <3>1 DEF Crash
        <3> DEFINE K == 0..MaxCrash
        <3> HIDE DEF K
        <3>3. Writer = [pc : {"idle", "create", "copy", "add", "close", "rename", "remove", "exit"},
                        cmd : C, old : Inode \cup {Absent}, at : Nat \ {0},
                        status : {"none", "failed", "done", "killed"}, begun : B, killed : K]
            BY <2>0 DEF K
        <3>4. k \in K
            BY DEF K
        <3> QED BY <3>2, <3>3, <3>4, <2>1
    <2> QED BY <2>2, <2>3, <2>4, <2>5, <2>6, <2>7, <2>8, <2>9 DEF WriterStep
<1>2. reader' = reader /\ work' = work
    BY DEF WriterStep, Create, CopyMember, EndCopy, AddInput, EndAdd, Fail, Close, Rename, Remove,
        Exit, Crash
<1>3. entry' \in [archive : Inode \cup {Absent}, tmp : Inode \cup {Absent}]
    <2>1. CASE Create
        BY <2>1, <1>0, NewFree DEF Create, Free
    <2>2. CASE ~Create
        BY <2>2, <1>0
        DEF WriterStep, CopyMember, EndCopy, AddInput, EndAdd, Fail, Close, Rename, Remove, Exit,
            Crash
    <2> QED BY <2>1, <2>2
<1>4. file' \in [Inode -> File]
    <2>1. CASE Create
        <3>1. Header \in File
            BY DEF Header, File
        <3> QED BY <3>1, <2>1, <1>0, NewFree DEF Create, Free
    <2>2. CASE CopyMember
        <3>1. writer.old \in Inode /\ entry.tmp \in Inode
            BY <2>2, <1>0 DEF CopyMember, Writing
        <3>2. file[writer.old].member \in Seq(Member)
            BY <3>1, <1>0 DEF File
        <3>3. writer.at \in DOMAIN file[writer.old].member
            BY <2>2, <1>0, <3>2 DEF CopyMember, Writer
        <3>4. file[writer.old].member[writer.at] \in Member
            BY <3>2, <3>3
        <3> QED BY <2>2, <3>1, <3>4, <1>0, PutType DEF CopyMember
    <2>3. CASE AddInput
        <3> DEFINE m == writer.cmd.inputs[writer.at]
        <3>1. m \in Input
            BY <2>3, <1>0 DEF AddInput, Writer
        <3>2. m.data # Missing => m \in Member
            BY <3>1 DEF Input, Member
        <3>3. entry.tmp \in Inode
            BY <2>3, <1>0 DEF AddInput, Writing
        <3> QED BY <2>3, <3>2, <3>3, <1>0, PutType DEF AddInput
    <2>4. CASE Close \/ Crash
        BY <2>4, <1>0, CutType DEF Close, Crash, Writing
    <2>5. CASE EndCopy \/ EndAdd \/ Fail \/ Rename \/ Remove \/ Exit
        BY <2>5, <1>0 DEF EndCopy, EndAdd, Fail, Rename, Remove, Exit
    <2> QED BY <2>1, <2>2, <2>3, <2>4, <2>5 DEF WriterStep
<1> QED BY <1>1, <1>2, <1>3, <1>4 DEF TypeOK

LEMMA ReaderTypes == TypeOK /\ FilesApart /\ ReaderStep => TypeOK'
<1> SUFFICES ASSUME TypeOK, FilesApart, ReaderStep PROVE TypeOK'
    OBVIOUS
<1>0. /\ file \in [Inode -> File] /\ reader \in Reader
      /\ work \in [Name -> Data \cup {Partial, Absent}]
      /\ reader.pc = "read" => reader.fd \in Inode
    BY DEF TypeOK, FilesApart, Reader
<1>1. UNCHANGED <<file, entry, writer>>
    BY DEF ReaderStep, NextMember, LastMember, FailRead
<1>2. CASE NextMember
    <2> DEFINE m == file[reader.fd].member[reader.at]
    <2>1. m \in Member
        <3>1. file[reader.fd].member \in Seq(Member)
            BY <1>0, <1>2 DEF File, NextMember
        <3>2. reader.at \in DOMAIN file[reader.fd].member
            BY <1>0, <1>2, <3>1 DEF NextMember, Reader
        <3> QED BY <3>1, <3>2
    <2>2. \/ reader' = [reader EXCEPT !.at = @ + 1] /\ work' = work
          \/ Deliver(m) /\ (work' = work \/ \E d \in {m.data, Partial} :
                                                work' = [work EXCEPT ![m.name] = d])
          \/ EndRead("failed") /\ (work' = work \/ work' = [work EXCEPT ![m.name] = Partial])
        BY <1>2 DEF NextMember, Extract
    <2> HIDE DEF m
    <2>3. reader' \in Reader
        <3> DEFINE Q == Seq(Member)
                   A == [op : {"t", "x", "load"}, only : SUBSET Name]
                   B == 0..MaxRead
        <3>1. Reader = [pc : {"idle", "read"}, ask : A, fd : Inode \cup {Absent}, at : Nat \ {0},
                        out : Q, was : File, status : {"none", "failed", "done"}, begun : B]
            BY DEF Reader
        <3>2. reader \in Reader /\ Append(reader.out, m) \in Q
            BY <1>0, <2>1 DEF Reader
        <3> HIDE DEF Q, A, B
        <3>3. CASE reader' = [reader EXCEPT !.at = @ + 1]
            BY <3>1, <3>2, <3>3
        <3>4. CASE Deliver(m)
            <4> DEFINE N == Nat \ {0}
            <4>1. reader.at + 1 \in N
                BY <3>1, <3>2
            <4> HIDE DEF N
            <4>2. Reader = [pc : {"idle", "read"}, ask : A, fd : Inode \cup {Absent}, at : N,
                            out : Q, was : File, status : {"none", "failed", "done"}, begun : B]
                BY <3>1 DEF N
            <4> QED BY <3>2, <3>4, <4>1, <4>2 DEF Deliver
        <3>5. CASE EndRead("failed")
            <4>1. reader' = [reader EXCEPT !.pc = "idle", !.fd = Absent, !.status = "failed"]
                BY <3>5 DEF EndRead
            <4> DEFINE F == Inode \cup {Absent}
                       S == {"none", "failed", "done"}
            <4>2. Absent \in F /\ "failed" \in S
                OBVIOUS
            <4> HIDE DEF F, S
            <4>3. Reader = [pc : {"idle", "read"}, ask : A, fd : F, at : Nat \ {0},
                            out : Q, was : File, status : S, begun : B]
                BY <3>1 DEF F, S
            <4> QED BY <3>2, <4>1, <4>2, <4>3
        <3> QED BY <2>2, <3>3, <3>4, <3>5
    <2>4. work' \in [Name -> Data \cup {Partial, Absent}]
        BY <2>1, <2>2, <1>0 DEF Member
    <2> QED BY <2>3, <2>4, <1>1 DEF TypeOK
<1>3. CASE LastMember
    <2>1. reader' \in Reader
        BY <1>0, <1>3 DEF LastMember, EndRead, Reader
    <2>2. work' \in [Name -> Data \cup {Partial, Absent}]
        BY <1>0, <1>3 DEF LastMember
    <2> QED BY <2>1, <2>2, <1>1 DEF TypeOK
<1>4. CASE FailRead
    <2>1. reader' \in Reader
        BY <1>0, <1>4 DEF FailRead, EndRead, Reader
    <2> QED BY <1>0, <1>1, <1>4, <2>1 DEF FailRead, TypeOK
<1> QED BY <1>2, <1>3, <1>4 DEF ReaderStep

LEMMA TypeStep == TypeOK /\ FilesApart /\ [Next]_vars => TypeOK'
<1> SUFFICES ASSUME TypeOK, FilesApart, [Next]_vars PROVE TypeOK'
    OBVIOUS
<1>1. ASSUME NEW c \in Command, Start(c) PROVE TypeOK'
    <2>1. writer' \in Writer
        BY <1>1, ArchiverAssumption DEF Start, TypeOK, Writer
    <2> QED BY <1>1, <2>1 DEF Start, TypeOK
<1>2. ASSUME NEW q \in Request, OpenRead(q) PROVE TypeOK'
    <2>1. Header \in File /\ (entry.archive # Absent => file[entry.archive] \in File)
        BY DEF Header, File, TypeOK
    <2>2. reader' \in Reader
        BY <1>2, <2>1, ArchiverAssumption DEF OpenRead, TypeOK, Reader
    <2> QED BY <1>2, <2>2 DEF OpenRead, TypeOK
<1>3. CASE UNCHANGED vars
    BY <1>3 DEF vars, TypeOK
<1> QED BY <1>1, <1>2, <1>3, WriterTypes, ReaderTypes DEF Next

-----------------------------------------------------------------------------
(* Who has which file open.                                                *)

\* Only the file behind the new name is written.
LEMMA OthersSame ==
    ASSUME TypeOK, FilesApart, WriterStep \/ Crash, NEW i \in Inode, i # entry.tmp, i \notin Free
    PROVE  file'[i] = file[i]
BY NewFree
DEF TypeOK, WriterStep, Create, CopyMember, EndCopy, AddInput, EndAdd, Fail, Close, Rename,
    Remove, Exit, Crash, Put

\* The archive and what is read are among the others.
LEMMA HeldSame ==
    ASSUME TypeOK, FilesApart, WriterStep \/ Crash
    PROVE  /\ entry.archive # Absent => file'[entry.archive] = file[entry.archive]
           /\ reader.fd # Absent => file'[reader.fd] = file[reader.fd]
<1>1. ASSUME entry.archive # Absent PROVE file'[entry.archive] = file[entry.archive]
    <2>1. entry.archive \in Inode /\ entry.archive \notin Free /\ entry.archive # entry.tmp
        BY <1>1 DEF TypeOK, Free, FilesApart
    <2> QED BY <2>1, OthersSame
<1>2. ASSUME reader.fd # Absent PROVE file'[reader.fd] = file[reader.fd]
    <2>1. reader.fd \in Inode /\ reader.fd \notin Free /\ reader.fd # entry.tmp
        BY <1>2 DEF TypeOK, Reader, Free, FilesApart
    <2> QED BY <2>1, OthersSame
<1> QED BY <1>1, <1>2

\* How the writer gets on but for the file.
LEMMA WriterMoves ==
    ASSUME TypeOK, WriterStep \/ Crash
    PROVE  /\ reader' = reader /\ work' = work /\ writer'.cmd = writer.cmd
           /\ writer'.pc \in Running => writer.pc \in Running /\ writer'.old = writer.old
           /\ writer'.pc = "copy" => writer.old # Absent \/ writer.pc = "copy"
<1>0. writer \in Writer
    BY DEF TypeOK
<1>1. reader' = reader /\ work' = work
    BY DEF WriterStep, Create, CopyMember, EndCopy, AddInput, EndAdd, Fail, Close, Rename, Remove,
        Exit, Crash
<1> DEFINE Moves == /\ writer'.cmd = writer.cmd
                    /\ writer'.pc \in Running => writer.pc \in Running /\ writer'.old = writer.old
                    /\ writer'.pc = "copy" => writer.old # Absent \/ writer.pc = "copy"
<1>2. CASE Create
    BY <1>0, <1>2 DEF Create, Writer, Running
<1>3. CASE CopyMember \/ AddInput
    BY <1>0, <1>3 DEF CopyMember, AddInput, Writer, Running
<1>4. CASE EndCopy \/ EndAdd \/ Fail
    BY <1>0, <1>4 DEF EndCopy, EndAdd, Fail, Writer, Running
<1>5. CASE Close
    <2>1. \/ writer' = [writer EXCEPT !.pc = IF writer.status = "done" THEN "rename" ELSE "remove"]
          \/ writer' = [writer EXCEPT !.pc = "remove", !.status = "failed"]
        BY <1>5, Zenon DEF Close
    <2> QED BY <1>0, <1>5, <2>1 DEF Close, Writer, Running
<1>6. CASE Rename
    BY <1>0, <1>6 DEF Rename, Writer, Running
<1>7. CASE Remove \/ Exit \/ Crash
    BY <1>0, <1>7 DEF Remove, Exit, Crash, Writer, Running
<1> QED BY <1>1, <1>2, <1>3, <1>4, <1>5, <1>6, <1>7 DEF WriterStep

LEMMA FilesApartStep == TypeOK /\ FilesApart /\ StatusOK /\ [Next]_vars => FilesApart'
<1> SUFFICES ASSUME TypeOK, FilesApart, StatusOK, [Next]_vars PROVE FilesApart'
    OBVIOUS
<1>0. /\ writer \in Writer /\ reader \in Reader /\ Absent \notin Inode
      /\ entry \in [archive : Inode \cup {Absent}, tmp : Inode \cup {Absent}]
    BY ArchiverAssumption DEF TypeOK
<1>1. ASSUME NEW c \in Command, Start(c) PROVE FilesApart'
    BY <1>0, <1>1 DEF Start, FilesApart, Running, Writing
<1>2. CASE WriterStep \/ Crash
    <2>1. reader' = reader
        BY <1>2, WriterMoves
    <2>2. reader'.pc = "read" => reader'.fd # Absent /\ file'[reader'.fd] = reader'.was
        BY <1>2, <2>1, HeldSame DEF FilesApart
    <2>3. CASE Rename
        <3>1. writer'.pc \in {"exit", "remove"}
            BY <1>0, <2>3 DEF Rename, Writer
        <3>2. CASE entry' = [archive |-> entry.tmp, tmp |-> Absent]
            BY <2>1, <2>2, <3>1, <3>2 DEF FilesApart, Running, Writing
        <3>3. CASE entry' = entry
            BY <2>1, <2>2, <3>1, <3>3 DEF FilesApart, Running, Writing
        <3> QED BY <2>3, <3>2, <3>3 DEF Rename
    <2>4. CASE ~Rename
        <3>1. entry'.archive = entry.archive
            BY <1>0, <1>2, <2>4 DEF WriterStep, Create, CopyMember, EndCopy, AddInput, EndAdd, Fail,
                Close, Remove, Exit, Crash
        <3>2. /\ writer'.pc \in Running => writer.pc \in Running /\ writer'.old = writer.old
              /\ writer'.pc = "copy" => writer.old # Absent
            BY <1>2, WriterMoves DEF FilesApart
        <3>3. /\ writer'.pc \in Running => writer'.old = entry'.archive
              /\ writer'.pc \in Running /\ writer'.old # Absent =>
                    file'[writer'.old].kind = "archive"
              /\ writer'.pc = "copy" => writer'.old # Absent
            BY <1>2, <3>1, <3>2, HeldSame DEF FilesApart, Running
        <3>4. /\ entry'.archive # Absent => entry'.archive # entry'.tmp
              /\ reader'.fd # Absent => reader'.fd # entry'.tmp
              /\ writer'.pc \in Writing => entry'.tmp # Absent
            <4>1. CASE Create
                BY <1>0, <2>1, <4>1, NewFree DEF Create, Free, FilesApart, Writing, Writer
            <4>2. CASE ~Create
                <5>1. entry' = entry \/ (Remove /\ entry' = [entry EXCEPT !.tmp = Absent])
                    BY <1>2, <2>4, <4>2 DEF WriterStep, CopyMember, EndCopy, AddInput, EndAdd, Fail,
                        Close, Remove, Exit, Crash
                <5>2. writer'.pc \in Writing => writer.pc \in Writing /\ ~Remove
                    BY <1>0, <1>2, <2>4, <4>2 DEF WriterStep, CopyMember, EndCopy, AddInput, EndAdd,
                        Fail, Close, Remove, Exit, Crash, Writing, Writer
                <5> QED BY <1>0, <2>1, <5>1, <5>2 DEF FilesApart
            <4> QED BY <4>1, <4>2
        <3> QED BY <2>2, <3>3, <3>4 DEF FilesApart
    <2> QED BY <2>3, <2>4
<1>3. ASSUME NEW q \in Request, OpenRead(q) PROVE FilesApart'
    BY <1>0, <1>3 DEF OpenRead, FilesApart, Running, Writing
<1>4. CASE ReaderStep
    <2>1. UNCHANGED <<file, entry, writer>>
        BY <1>4 DEF ReaderStep, NextMember, LastMember, FailRead
    <2>2. /\ reader'.fd = reader.fd \/ (reader'.fd = Absent /\ reader'.pc = "idle")
          /\ reader'.was = reader.was /\ reader.pc = "read"
        BY <1>0, <1>4 DEF ReaderStep, NextMember, LastMember, FailRead, Extract, Deliver, EndRead,
            Reader
    <2> QED BY <2>1, <2>2 DEF FilesApart, Running, Writing
<1>5. CASE UNCHANGED vars
    BY <1>5 DEF vars, FilesApart, Running, Writing
<1> QED BY <1>1, <1>2, <1>3, <1>4, <1>5 DEF Next

LEMMA StatusStep == TypeOK /\ StatusOK /\ [Next]_vars => StatusOK'
<1> SUFFICES ASSUME TypeOK, StatusOK, [Next]_vars PROVE StatusOK'
    OBVIOUS
<1>0. writer \in Writer
    BY DEF TypeOK
<1>1. ASSUME NEW c \in Command, Start(c) PROVE StatusOK'
    BY <1>0, <1>1 DEF Start, StatusOK
<1>2. CASE Create \/ CopyMember \/ AddInput
    BY <1>0, <1>2 DEF Create, CopyMember, AddInput, StatusOK, Writer
<1>3. CASE EndCopy \/ EndAdd \/ Fail
    BY <1>0, <1>3 DEF EndCopy, EndAdd, Fail, StatusOK, Writer
<1>4. CASE Close
    <2>1. \/ writer' = [writer EXCEPT !.pc = IF writer.status = "done" THEN "rename" ELSE "remove"]
          \/ writer' = [writer EXCEPT !.pc = "remove", !.status = "failed"]
        BY <1>4, Zenon DEF Close
    <2> QED BY <1>0, <1>4, <2>1 DEF Close, StatusOK, Writer
<1>5. CASE Rename \/ Remove \/ Exit
    BY <1>0, <1>5 DEF Rename, Remove, Exit, StatusOK, Writer
<1>6. CASE Crash
    BY <1>0, <1>6 DEF Crash, StatusOK, Writer
<1>7. CASE writer' = writer
    BY <1>7 DEF StatusOK
<1> QED BY <1>1, <1>2, <1>3, <1>4, <1>5, <1>6, <1>7
        DEF Next, WriterStep, ReaderStep, OpenRead, NextMember, LastMember, FailRead, vars

-----------------------------------------------------------------------------
(* What the new archive holds.                                             *)

LEMMA OldType ==
    ASSUME TypeOK
    PROVE  /\ Old \in Seq(Member) /\ Chosen \subseteq DOMAIN Old
           /\ writer.cmd.inputs \in Seq(Input)
<1>1. writer.old # Absent => file[writer.old].member \in Seq(Member)
    <2> SUFFICES ASSUME writer.old # Absent PROVE file[writer.old].member \in Seq(Member)
        OBVIOUS
    <2>1. file[writer.old] \in File
        BY DEF TypeOK, Writer
    <2> QED BY <2>1 DEF File
<1>2. <<>> \in Seq(Member)
    OBVIOUS
<1>3. Old \in Seq(Member)
    BY <1>1, <1>2 DEF Old
<1>4. writer.cmd.inputs \in Seq(Input)
    BY DEF TypeOK, Writer
<1> QED BY <1>3, <1>4 DEF Chosen, Promise!Kept

\* While it is being written the old archive and the choice stay the same.
LEMMA OldSame ==
    ASSUME TypeOK, FilesApart, WriterStep \/ Crash, writer'.pc \in Running
    PROVE  /\ Old' = Old /\ Chosen' = Chosen /\ (Whole <=> Whole')
           /\ writer.pc \in Running /\ writer'.cmd = writer.cmd
<1>1. /\ writer.pc \in Running /\ writer'.old = writer.old /\ writer'.cmd = writer.cmd
      /\ writer.old = entry.archive
    BY WriterMoves DEF FilesApart
<1>2. writer.old # Absent => file'[writer.old] = file[writer.old]
    BY <1>1, HeldSame
<1>3. Old' = Old /\ (Whole <=> Whole')
    BY <1>1, <1>2 DEF Old, Whole
<1> QED BY <1>1, <1>3 DEF Chosen, Promise!Kept

\* A member is written behind the others.
LEMMA PutMember ==
    ASSUME TypeOK, entry.tmp \in Inode, NEW m, Put(m), entry' = entry
    PROVE  /\ file'[entry'.tmp].member = Append(file[entry.tmp].member, m)
           /\ file'[entry'.tmp].kind = file[entry.tmp].kind
           /\ file'[entry'.tmp].rest = file[entry.tmp].rest
           /\ file[entry.tmp].member \in Seq(Member)
<1>1. file \in [Inode -> File] /\ file[entry.tmp] \in File
    BY DEF TypeOK
<1>2. file'[entry.tmp] = [file[entry.tmp] EXCEPT !.member = Append(@, m)]
    BY <1>1 DEF Put
<1> QED BY <1>1, <1>2 DEF File

LEMMA ProgressStep == TypeOK /\ FilesApart /\ StatusOK /\ Progress /\ [Next]_vars => Progress'
<1> SUFFICES ASSUME TypeOK, FilesApart, StatusOK, Progress, [Next]_vars PROVE Progress'
    OBVIOUS
<1>0. /\ writer \in Writer /\ Old \in Seq(Member) /\ Chosen \in SUBSET (DOMAIN Old)
      /\ writer.cmd.inputs \in Seq(Input) /\ Absent \notin Inode
    BY OldType, ArchiverAssumption DEF TypeOK
<1>1. ASSUME NEW c \in Command, Start(c) PROVE Progress'
    BY <1>0, <1>1 DEF Start, Progress
<1>2. CASE Create
    <2>1. CASE writer'.pc = "exit"
        BY <2>1 DEF Progress
    <2>2. CASE writer'.pc # "exit"
        <3>1. /\ file'[entry'.tmp] = Header
              /\ writer' = [writer EXCEPT !.pc = IF writer.old = Absent THEN "add" ELSE "copy"]
              /\ writer.at = 1
            BY <1>0, <1>2, <2>2, NewFree DEF Create, TypeOK, Free, StatusOK, Writer
        <3>2. /\ writer'.at = 1 /\ writer'.pc \in Running
              /\ writer'.pc = (IF writer.old = Absent THEN "add" ELSE "copy")
            BY <1>0, <3>1 DEF Writer, Running
        <3>3. Old' = Old /\ Chosen' = Chosen /\ writer'.cmd = writer.cmd /\ writer'.old = writer.old
            BY <1>2, <3>2, OldSame, WriterMoves DEF WriterStep
        <3>4. Contains(Chosen \cap 1..0, 0)'
            <4>1. Composed(<<>>, Old, Chosen \cap 1..0, writer.cmd.inputs, 0)
                BY Nothing
            <4>2. file'[entry'.tmp].member = <<>> /\ file'[entry'.tmp].kind = "archive"
                  /\ file'[entry'.tmp].rest = "none"
                BY <3>1 DEF Header
            <4>3. Composed(file'[entry'.tmp].member, Old', Chosen' \cap 1..0, writer'.cmd.inputs, 0)
                BY <4>1, <4>2, <3>3
            <4>4. Len(writer'.cmd.inputs) \in Nat
                BY <1>0, <3>3
            <4> QED BY <4>2, <4>3, <4>4 DEF Contains
        <3>5. CASE writer.old = Absent
            <4>1. Chosen' = Chosen' \cap 1..0 /\ Whole'
                BY <1>0, <3>3, <3>5 DEF Old, Whole
            <4>2. Contains(Chosen, 0)'
                BY <3>4, <4>1
            <4> QED BY <3>2, <3>5, <4>1, <4>2 DEF Progress
        <3>6. CASE writer.old # Absent
            <4>1. Len(Old') \in Nat
                BY <1>0, <3>3
            <4> QED BY <3>2, <3>4, <3>6, <4>1 DEF Progress
        <3> QED BY <3>5, <3>6
    <2> QED BY <2>1, <2>2
<1>3. CASE CopyMember
    <2> DEFINE m == file[writer.old].member[writer.at]
               t == file[entry.tmp].member
    <2>1. /\ writer.pc = "copy" /\ writer.old # Absent /\ entry.tmp \in Inode /\ entry' = entry
          /\ writer.at \in Nat \ {0} /\ writer.at <= Len(Old)
          /\ Old = file[writer.old].member
        BY <1>0, <1>3 DEF CopyMember, FilesApart, Writing, Old, TypeOK, Writer
    <2>0. PICK k \in Nat : writer.at = k + 1
        BY <2>1
    <2>2. k + 1 = writer.at /\ writer.at - 1 = k /\ k + 1 \in DOMAIN Old /\ m = Old[k + 1]
        BY <1>0, <2>0, <2>1
    <2>3. /\ writer'.pc = "copy" /\ writer'.at = k + 2 /\ writer'.at - 1 = k + 1
          /\ writer'.status = writer.status
        BY <1>0, <1>3, <2>0, <2>1 DEF CopyMember, Writer
    <2>4. Old' = Old /\ Chosen' = Chosen /\ writer'.cmd = writer.cmd
        BY <1>3, <2>3, OldSame DEF WriterStep, Running
    <2>5. Contains(Chosen \cap 1..k, 0)
        BY <2>1, <2>2 DEF Progress
    <2>6. k + 1 \in Chosen <=> ~Replaced(m)
        BY <2>2 DEF Chosen, Promise!Kept, Replaced
    <2>7. t \in Seq(Member)
        BY <2>1 DEF TypeOK, File
    <2>8. Contains(Chosen \cap 1..(k + 1), 0)'
        <3>1. CASE Replaced(m)
            <4>1. file' = file
                BY <1>3, <3>1 DEF CopyMember
            <4>2. Composed(t, Old, Chosen \cap 1..(k + 1), writer.cmd.inputs, 0)
                BY <2>2, <2>5, <2>6, <3>1, Passed DEF Contains
            <4> QED BY <2>1, <2>4, <2>5, <4>1, <4>2 DEF Contains
        <3>2. CASE ~Replaced(m)
            <4>1. Put(m)
                BY <1>3, <3>2 DEF CopyMember
            <4>2. Composed(Append(t, Old[k + 1]), Old, Chosen \cap 1..(k + 1), writer.cmd.inputs, 0)
                <5>1. Composed(t, Old, Chosen \cap 1..k, writer.cmd.inputs, 0)
                    BY <2>5 DEF Contains
                <5> HIDE DEF t
                <5> QED BY <1>0, <2>2, <2>6, <2>7, <3>2, <5>1, Taken
            <4>3. /\ file'[entry'.tmp].member = Append(t, Old[k + 1])
                  /\ file'[entry'.tmp].kind = "archive" /\ file'[entry'.tmp].rest = "none"
                BY <2>1, <2>2, <2>5, <4>1, PutMember DEF Contains
            <4> HIDE DEF t
            <4>4. Composed(file'[entry'.tmp].member, Old', Chosen' \cap 1..(k + 1),
                           writer'.cmd.inputs, 0)
                BY <2>4, <4>2, <4>3
            <4> QED BY <2>4, <2>5, <4>3, <4>4 DEF Contains
        <3> QED BY <3>1, <3>2
    <2>9. Contains(Chosen \cap 1..(writer.at - 1), 0)'
        BY <2>3, <2>8
    <2>10. writer'.at <= Len(Old') + 1
        BY <1>0, <2>0, <2>1, <2>3, <2>4
    <2> QED BY <2>3, <2>9, <2>10 DEF Progress
<1>4. CASE EndCopy
    <2>1. CASE writer'.pc = "add"
        <3>1. /\ writer.pc = "copy" /\ writer.old # Absent /\ writer'.at = 1 /\ Whole
              /\ file' = file /\ entry' = entry /\ writer.at > Len(Old) /\ writer.at \in Nat
            BY <1>0, <1>4, <2>1 DEF EndCopy, FilesApart, Old, Whole, Writer
        <3>2. Old' = Old /\ Chosen' = Chosen /\ writer'.cmd = writer.cmd /\ (Whole <=> Whole')
            BY <1>4, <2>1, OldSame DEF WriterStep, Running
        <3>3. Chosen = Chosen \cap 1..(writer.at - 1)
            BY <1>0, <3>1
        <3>4. Contains(Chosen, 0)
            BY <3>1, <3>3 DEF Progress
        <3>5. Contains(Chosen, 0)'
            BY <3>1, <3>2, <3>4 DEF Contains
        <3>6. Contains(Chosen, writer.at - 1)'
            BY <3>1, <3>5
        <3> QED BY <2>1, <3>1, <3>2, <3>6 DEF Progress
    <2>2. CASE writer'.pc = "close"
        BY <1>0, <1>4, <2>2 DEF EndCopy, Progress, StatusOK, Writer
    <2> QED BY <1>0, <1>4, <2>1, <2>2 DEF EndCopy, Writer
<1>5. CASE AddInput
    <2> DEFINE m == writer.cmd.inputs[writer.at]
               t == file[entry.tmp].member
    <2>0. PICK n \in Nat : writer.at = n + 1
        BY <1>0, writer.at - 1 \in Nat DEF Writer
    <2>1. /\ writer.pc = "add" /\ entry.tmp \in Inode /\ entry' = entry
          /\ writer.at - 1 = n /\ writer.at = n + 1 /\ writer.at <= Len(writer.cmd.inputs)
          /\ m \in Input
        BY <1>0, <1>5, <2>0 DEF AddInput, FilesApart, Writing, TypeOK, Writer
    <2>2. CASE m.data # Missing /\ m.name \notin Invalid
        <3>1. m \in Member /\ Put(m) /\ t \in Seq(Member)
            BY <1>5, <2>1, <2>2 DEF AddInput, Input, Member, TypeOK, File
        <3>2. writer'.pc = "add" /\ writer'.at - 1 = n + 1
            BY <1>0, <1>5, <2>1, <2>2 DEF AddInput, Writer
        <3>3. Old' = Old /\ Chosen' = Chosen /\ writer'.cmd = writer.cmd /\ (Whole <=> Whole')
            BY <1>5, <3>2, OldSame DEF WriterStep, Running
        <3>4. Whole /\ Contains(Chosen, n)
            BY <2>1 DEF Progress
        <3>5. Composed(Append(t, m), Old, Chosen, writer.cmd.inputs, n + 1)
            <4>1. Composed(t, Old, Chosen, writer.cmd.inputs, n)
                BY <3>4 DEF Contains
            <4>2. writer.cmd.inputs[n + 1] = m
                BY <2>1
            <4> HIDE DEF t, m
            <4> QED BY <1>0, <2>1, <3>1, <4>1, <4>2, Added
        <3>6. /\ file'[entry'.tmp].member = Append(t, m)
              /\ file'[entry'.tmp].kind = "archive" /\ file'[entry'.tmp].rest = "none"
            BY <2>1, <3>1, <3>4, PutMember DEF Contains
        <3>7. ASSUME NEW j \in 1..(n + 1)
              PROVE  writer.cmd.inputs[j].data # Missing /\ writer.cmd.inputs[j].name \notin Invalid
            <4>1. CASE j = n + 1
                BY <2>1, <2>2, <4>1
            <4>2. CASE j # n + 1
                <5>1. j \in 1..n
                    BY <2>1, <4>2
                <5> QED BY <3>4, <5>1 DEF Contains
            <4> QED BY <4>1, <4>2
        <3>8. n + 1 <= Len(writer.cmd.inputs)
            BY <2>1
        <3> HIDE DEF t, m
        <3>9. Composed(file'[entry'.tmp].member, Old', Chosen', writer'.cmd.inputs, n + 1)
            BY <3>3, <3>5, <3>6
        <3>10. Contains(Chosen, n + 1)'
            BY <3>3, <3>6, <3>7, <3>8, <3>9 DEF Contains
        <3>11. Contains(Chosen, writer.at - 1)'
            BY <3>2, <3>10
        <3> QED BY <3>2, <3>3, <3>4, <3>11 DEF Progress
    <2>3. CASE ~(m.data # Missing /\ m.name \notin Invalid)
        BY <1>0, <1>5, <2>3 DEF AddInput, Progress, StatusOK, Writer
    <2> QED BY <2>2, <2>3
<1>6. CASE EndAdd
    <2>1. /\ writer.pc = "add" /\ writer'.pc = "close" /\ file' = file /\ entry' = entry
          /\ writer.at > Len(writer.cmd.inputs) /\ writer.at \in Nat
        BY <1>0, <1>6 DEF EndAdd, Writer
    <2>2. Old' = Old /\ Chosen' = Chosen /\ writer'.cmd = writer.cmd /\ (Whole <=> Whole')
        BY <1>6, <2>1, OldSame DEF WriterStep, Running
    <2>3. Whole /\ Contains(Chosen, writer.at - 1)
        BY <2>1 DEF Progress
    <2>4. writer.at - 1 = Len(writer.cmd.inputs)
        BY <1>0, <2>1, <2>3 DEF Contains
    <2>5. Contains(Chosen, Len(writer.cmd.inputs))
        BY <2>3, <2>4
    <2>6. Contains(Chosen, Len(writer.cmd.inputs))'
        BY <2>1, <2>2, <2>5 DEF Contains
    <2> QED BY <2>1, <2>2, <2>3, <2>6 DEF Progress
<1>7. CASE Fail
    BY <1>0, <1>7 DEF Fail, Progress, StatusOK, Writer
<1>8. CASE Close
    <2>1. CASE writer'.pc = "rename"
        <3>1. /\ writer.pc = "close" /\ writer.status = "done" /\ file' = file /\ entry' = entry
            BY <1>0, <1>8, <2>1 DEF Close, Writer
        <3>2. Old' = Old /\ Chosen' = Chosen /\ writer'.cmd = writer.cmd /\ (Whole <=> Whole')
            BY <1>8, <2>1, OldSame DEF WriterStep, Running
        <3>3. Whole /\ Contains(Chosen, Len(writer.cmd.inputs))
            BY <3>1 DEF Progress
        <3>4. Contains(Chosen, Len(writer.cmd.inputs))'
            BY <3>1, <3>2, <3>3 DEF Contains
        <3> QED BY <2>1, <3>2, <3>3, <3>4 DEF Progress
    <2>2. CASE writer'.pc # "rename"
        <3>1. writer'.pc = "remove"
            BY <1>0, <1>8, <2>2 DEF Close, Writer
        <3> QED BY <3>1 DEF Progress
    <2> QED BY <2>1, <2>2
<1>9. CASE Rename \/ Remove \/ Exit \/ Crash
    <2>1. writer'.pc \in {"exit", "remove", "idle"}
        BY <1>0, <1>9 DEF Rename, Remove, Exit, Crash, Writer
    <2> QED BY <2>1 DEF Progress
<1>10. CASE UNCHANGED <<file, entry, writer>>
    BY <1>10 DEF Progress, Contains, Whole, Chosen, Old
<1> QED BY <1>1, <1>2, <1>3, <1>4, <1>5, <1>6, <1>7, <1>8, <1>9, <1>10
        DEF Next, WriterStep, ReaderStep, OpenRead, NextMember, LastMember, FailRead, vars

-----------------------------------------------------------------------------
(* What a reader has delivered.                                            *)

\* The last file of each name stays when one more is written.
LEMMA LastStaysStep ==
    ASSUME TypeOK, LastStays, NEW m \in Member, Deliver(m),
           NEW d \in {m.data, Partial},
           reader.ask.op = "x" => work' = [work EXCEPT ![m.name] = d]
    PROVE  LastStays'
<1>0. /\ reader \in Reader /\ work \in [Name -> Data \cup {Partial, Absent}]
      /\ m.name \in Name /\ reader.out \in Seq(Member)
    BY DEF TypeOK, Reader, Member
<1>1. /\ reader'.ask = reader.ask /\ reader'.out = Append(reader.out, m)
    BY <1>0 DEF Deliver, Reader
<1> DEFINE u == Append(reader.out, m)
           l == Len(reader.out)
<1>2. /\ l \in Nat /\ DOMAIN u = 1..(l + 1) /\ Len(u) = l + 1 /\ u[l + 1] = m
      /\ DOMAIN reader.out = 1..l
      /\ \A k \in 1..l : u[k] = reader.out[k] /\ u[k] \in Member
    BY <1>0
<1> HIDE DEF u, l
<1>3. ASSUME reader.ask.op = "x", NEW k \in DOMAIN u
      PROVE  \/ work'[u[k].name] \in {u[k].data, Partial}
             \/ \E j \in (k + 1)..Len(u) : u[j].name = u[k].name
    <2>1. CASE k = l + 1
        BY <1>0, <1>2, <1>3, <2>1
    <2>2. CASE k # l + 1
        <3>1. k \in 1..l /\ u[k] = reader.out[k]
            BY <1>2, <2>2
        <3>2. \/ work[u[k].name] \in {u[k].data, Partial}
              \/ \E j \in (k + 1)..l : reader.out[j].name = u[k].name
            BY <1>2, <1>3, <3>1 DEF LastStays, l
        <3>3. CASE \E j \in (k + 1)..l : reader.out[j].name = u[k].name
            BY <1>2, <3>1, <3>3
        <3>4. CASE work[u[k].name] \in {u[k].data, Partial} /\ u[k].name # m.name
            <4>1. u[k] \in Member /\ work' = [work EXCEPT ![m.name] = d]
                BY <1>2, <1>3, <3>1
            <4>2. u[k].name \in Name
                BY <4>1 DEF Member
            <4> QED BY <1>0, <3>4, <4>1, <4>2
        <3>5. CASE u[k].name = m.name
            BY <1>2, <3>1, <3>5
        <3> QED BY <3>2, <3>3, <3>4, <3>5
    <2> QED BY <2>1, <2>2
<1> QED BY <1>1, <1>3 DEF LastStays, u

LEMMA ReadingStep == TypeOK /\ FilesApart /\ Reading /\ [Next]_vars => Reading'
<1> SUFFICES ASSUME TypeOK, FilesApart, Reading, [Next]_vars PROVE Reading'
    OBVIOUS
<1>0. reader \in Reader
    BY DEF TypeOK
<1>1. CASE reader' = reader /\ work' = work
    BY <1>1 DEF Reading, Wish, LastStays, Wanted
<1>2. ASSUME NEW c \in Command, Start(c) PROVE Reading'
    BY <1>1, <1>2 DEF Start
<1>3. CASE WriterStep \/ Crash
    BY <1>1, <1>3, WriterMoves
<1>4. ASSUME NEW q \in Request, OpenRead(q) PROVE Reading'
    <2>1. reader'.at = 1 /\ reader'.out = <<>> /\ reader'.status \in {"none", "failed"}
          /\ (reader'.pc = "read" => reader'.status = "none")
        BY <1>4 DEF OpenRead
    <2>2. reader'.pc = "read" => reader'.was \in File
        BY <1>4 DEF OpenRead, TypeOK
    <2>3. Composed(<<>>, reader'.was.member, Wish' \cap 1..0, <<>>, 0)
        BY Nothing
    <2>4. reader'.pc = "read" => Len(reader'.was.member) \in Nat
        BY <2>2 DEF File
    <2>5. LastStays'
        BY <2>1 DEF LastStays
    <2> QED BY <2>1, <2>3, <2>4, <2>5 DEF Reading
<1>5. CASE NextMember
    <2> DEFINE s == reader.was.member
    <2>1. /\ reader.pc = "read" /\ file[reader.fd] = reader.was /\ reader.was \in File
          /\ reader.at \in Nat \ {0} /\ reader.at <= Len(s) /\ s \in Seq(Member)
          /\ reader.out \in Seq(Member)
        BY <1>0, <1>5 DEF NextMember, FilesApart, Reader, File
    <2>2. PICK k \in Nat : reader.at = k + 1
        BY <1>0, reader.at - 1 \in Nat DEF Reader
    <2>3. reader.at - 1 = k /\ k + 1 \in DOMAIN s /\ s[k + 1] \in Member /\ s[reader.at] = s[k + 1]
        BY <2>1, <2>2
    <2>4. /\ reader.status = "none" /\ LastStays
          /\ Composed(reader.out, s, Wish \cap 1..k, <<>>, 0)
        BY <2>1, <2>3 DEF Reading
    <2>5. Wish \in SUBSET (DOMAIN s) /\ (k + 1 \in Wish <=> Wanted(s[k + 1].name))
        BY <2>3 DEF Wish
    <2>6. CASE EndRead("failed")
        <3>1. reader'.pc = "idle" /\ reader'.status = "failed"
            BY <1>0, <2>6 DEF EndRead, Reader
        <3> QED BY <3>1 DEF Reading
    <2>7. CASE ~Wanted(s[k + 1].name)
        <3>1. reader' = [reader EXCEPT !.at = k + 2] /\ work' = work
            BY <1>5, <2>1, <2>2, <2>3, <2>7 DEF NextMember
        <3>2. /\ reader'.at = k + 2 /\ reader'.at - 1 = k + 1
              /\ reader'.pc = reader.pc /\ reader'.was = reader.was /\ reader'.out = reader.out
              /\ reader'.ask = reader.ask /\ reader'.status = reader.status
            BY <1>0, <3>1 DEF Reader
        <3>3. Wish' = Wish /\ LastStays'
            BY <2>4, <3>1, <3>2 DEF Wish, LastStays, Wanted
        <3>4. Composed(reader.out, s, Wish \cap 1..(k + 1), <<>>, 0)
            <4> HIDE DEF s
            <4> QED BY <2>4, <2>5, <2>7, Passed
        <3>5. reader'.at <= Len(reader'.was.member) + 1
            BY <2>1, <2>2, <3>2
        <3> QED BY <2>4, <3>2, <3>3, <3>4, <3>5 DEF Reading
    <2>8. CASE Wanted(s[k + 1].name) /\ ~EndRead("failed")
        <3>0. Deliver(s[k + 1])
            BY <1>5, <2>1, <2>3, <2>8 DEF NextMember, Extract
        <3>1. PICK d \in {s[k + 1].data, Partial} :
                 reader.ask.op = "x" => work' = [work EXCEPT ![s[k + 1].name] = d]
            BY <1>5, <2>1, <2>3, <2>8 DEF NextMember, Extract
        <3>2. /\ reader'.at = k + 2 /\ reader'.at - 1 = k + 1
              /\ reader'.pc = reader.pc /\ reader'.was = reader.was
              /\ reader'.out = Append(reader.out, s[k + 1])
              /\ reader'.ask = reader.ask /\ reader'.status = reader.status
            BY <1>0, <2>2, <3>0 DEF Deliver, Reader
        <3>3. LastStays'
            BY <2>3, <2>4, <3>0, <3>1, LastStaysStep
        <3>4. Wish' = Wish
            BY <3>2 DEF Wish, Wanted
        <3>5. Composed(Append(reader.out, s[k + 1]), s, Wish \cap 1..(k + 1), <<>>, 0)
            <4> HIDE DEF s
            <4> QED BY <2>1, <2>4, <2>5, <2>8, Taken
        <3>6. reader'.at <= Len(reader'.was.member) + 1
            BY <2>1, <2>2, <3>2
        <3> QED BY <2>4, <3>2, <3>3, <3>4, <3>5, <3>6 DEF Reading
    <2> QED BY <2>6, <2>7, <2>8
<1>6. CASE LastMember
    <2> DEFINE s == reader.was.member
    <2>1. /\ reader.pc = "read" /\ file[reader.fd] = reader.was /\ reader.was \in File
          /\ reader.at \in Nat \ {0} /\ reader.at > Len(s) /\ s \in Seq(Member)
        BY <1>0, <1>6 DEF LastMember, FilesApart, Reader, File
    <2>2. CASE reader.was.rest # "none"
        <3>1. reader'.pc = "idle" /\ reader'.status = "failed"
            BY <1>0, <1>6, <2>1, <2>2 DEF LastMember, EndRead, Reader
        <3> QED BY <3>1 DEF Reading
    <2>3. CASE reader.was.rest = "none"
        <3>1. EndRead("done") /\ work' = work
            BY <1>6, <2>1, <2>3, ArchiverAssumption DEF LastMember
        <3>2. /\ reader'.pc = "idle" /\ reader'.status = "done" /\ reader'.was = reader.was
              /\ reader'.out = reader.out /\ reader'.ask = reader.ask
            BY <1>0, <3>1 DEF EndRead, Reader
        <3>3. /\ LastStays /\ reader.at <= Len(s) + 1
              /\ Composed(reader.out, s, Wish \cap 1..(reader.at - 1), <<>>, 0)
            BY <2>1 DEF Reading
        <3>4. Wish' = Wish /\ LastStays'
            BY <3>1, <3>2, <3>3 DEF Wish, LastStays, Wanted
        <3>5. Wish \cap 1..(reader.at - 1) = Wish
            BY <2>1 DEF Wish
        <3> QED BY <2>3, <3>2, <3>3, <3>4, <3>5 DEF Reading
    <2> QED BY <2>2, <2>3
<1>7. CASE FailRead
    <2>1. reader'.pc = "idle" /\ reader'.status = "failed"
        BY <1>0, <1>7 DEF FailRead, EndRead, Reader
    <2> QED BY <2>1 DEF Reading
<1>8. CASE UNCHANGED vars
    BY <1>1, <1>8 DEF vars
<1> QED BY <1>2, <1>3, <1>4, <1>5, <1>6, <1>7, <1>8 DEF Next, ReaderStep

-----------------------------------------------------------------------------
(* The theorems.                                                           *)

LEMMA ArchiverInvHolds == Spec => []ArchiverInv
<1>1. ArchiverInv /\ [Next]_vars => ArchiverInv'
    BY TypeStep, FilesApartStep, StatusStep, ProgressStep, ReadingStep DEF ArchiverInv
<1> QED BY <1>1, InitInv, PTL DEF Spec

\* Every variable keeps the type it is declared with.
THEOREM ArchiverTypes == Spec => []TypeOK
<1>1. ArchiverInv => TypeOK
    BY DEF ArchiverInv
<1> QED BY <1>1, ArchiverInvHolds, PTL

\* A read that succeeds has delivered what the archive held when it was opened,
\* whatever updates it, fails or is killed meanwhile.
THEOREM ReadsWhatWasThereHolds == Spec => []ReadsWhatWasThere
<1>1. ArchiverInv => ReadsWhatWasThere
    <2> SUFFICES ASSUME ArchiverInv, reader.status = "done"
                 PROVE  /\ reader.was.rest = "none"
                        /\ Promise!Composed(reader.out, reader.was.member, Wish, <<>>, 0)
                        /\ LastStays
        BY Zenon DEF ReadsWhatWasThere, Wish, LastStays
    <2> QED BY SameComposed DEF ArchiverInv, Reading
<1> QED BY <1>1, ArchiverInvHolds, PTL

\* An update replaces the archive at one moment or leaves it as it was, and its
\* exit status says which, whatever fails and wherever it is killed.
THEOREM UpdatesAreAtomicHolds == Spec => UpdatesAreAtomic
<1>1. Init => Job.state = "idle"
    BY DEF Init, Job
<1>2. ASSUME ArchiverInv, [Next]_vars PROVE [Promise!LibraryNext]_(Promise!libraryVars)
    <2>0. /\ TypeOK /\ FilesApart /\ StatusOK /\ Progress
          /\ writer \in Writer /\ Absent \notin Inode \cup File
        BY <1>2, ArchiverAssumption DEF ArchiverInv, TypeOK
    <2>1. ASSUME NEW c \in Command, Start(c) PROVE Promise!Ask
        <3>1. writer.pc = "idle" /\ writer'.pc \in {"create", "exit"} /\ writer'.cmd = c
              /\ writer'.status = "failed" /\ file' = file /\ entry' = entry
            BY <2>1 DEF Start
        <3>2. Job.state = "idle" /\ Job' = [state |-> "asked", cmd |-> c, status |-> "none"]
            BY <3>1 DEF Job
        <3>3. Shelf' = Shelf
            BY <3>1 DEF Shelf
        <3> QED BY <3>2, <3>3 DEF Promise!Ask
    <2>2. ASSUME Rename, writer'.pc = "exit" PROVE Promise!Update
        <3>1. /\ writer.pc = "rename" /\ writer.status = "done" /\ writer'.status = "done"
              /\ writer'.cmd = writer.cmd /\ file' = file /\ entry'.archive = entry.tmp
              /\ entry.tmp \in Inode
            <4>1. /\ writer.pc = "rename" /\ writer.status = "done" /\ file' = file
                  /\ entry.tmp \in Inode
                BY <2>0, <2>2 DEF Rename, StatusOK, FilesApart, Writing, TypeOK
            <4>2. \/ /\ entry' = [archive |-> entry.tmp, tmp |-> Absent]
                     /\ writer' = [writer EXCEPT !.pc = "exit"]
                  \/ writer' = [writer EXCEPT !.pc = "remove", !.status = "failed"]
                BY <2>2 DEF Rename
            <4>3. /\ entry' = [archive |-> entry.tmp, tmp |-> Absent]
                  /\ writer' = [writer EXCEPT !.pc = "exit"]
                BY <2>0, <2>2, <4>2 DEF Writer
            <4> QED BY <2>0, <4>1, <4>3 DEF Writer
        <3>2. /\ Job.state = "asked" /\ Job.cmd = writer.cmd
              /\ Job' = [state |-> "updated", cmd |-> Job.cmd, status |-> "none"]
            BY <2>2, <3>1 DEF Job
        <3>3. /\ Shelf' = file[entry.tmp] /\ Shelf' # Absent
              /\ writer.old = entry.archive
              /\ writer.old # Absent => file[writer.old].kind = "archive"
            BY <2>0, <3>1 DEF Shelf, TypeOK, FilesApart, Running
        <3>4. Whole /\ Contains(Chosen, Len(writer.cmd.inputs))
            BY <2>0, <3>1 DEF Progress
        <3>5. Old = (IF Shelf = Absent THEN <<>> ELSE Shelf.member)
            BY <2>0, <3>3 DEF Old, Shelf, TypeOK
        <3>6. Promise!Possible(writer.cmd)
            <4>1. Shelf # Absent => Shelf.kind = "archive" /\ Shelf.rest = "none"
                BY <3>3, <3>4 DEF Shelf, Whole
            <4>2. writer.cmd.inputs \in Seq(Input)
                BY <2>0, OldType
            <4>3. Promise!Addable(writer.cmd.inputs)
                BY <3>4, <4>2 DEF Promise!Addable, Contains
            <4> QED BY <4>1, <4>3 DEF Promise!Possible
        <3>7. Promise!Updates(writer.cmd, Shelf')
            <4>1. Promise!Composed(Shelf'.member, Old, Chosen, writer.cmd.inputs,
                                   Len(writer.cmd.inputs))
                BY <3>3, <3>4, SameComposed DEF Contains
            <4> QED BY <3>3, <3>4, <3>5, <4>1, Zenon DEF Promise!Updates, Chosen, Contains
        <3> QED BY <3>2, <3>3, <3>6, <3>7 DEF Promise!Update
    <2>3. ASSUME Exit PROVE Promise!Answer
        <3>1. /\ writer.pc = "exit" /\ writer.status \in {"failed", "done"} /\ writer'.pc = "idle"
              /\ writer'.status = writer.status /\ writer'.cmd = writer.cmd
              /\ file' = file /\ entry' = entry
            BY <2>0, <2>3 DEF Exit, Writer, StatusOK
        <3>2. /\ Job.state # "idle"
              /\ Job' = [state  |-> "idle", cmd |-> Job.cmd,
                         status |-> IF Job.state = "updated" THEN "done" ELSE "failed"]
            BY <3>1 DEF Job
        <3>3. Shelf' = Shelf
            BY <3>1 DEF Shelf
        <3> QED BY <3>2, <3>3 DEF Promise!Answer
    <2>4. ASSUME Crash PROVE Promise!Kill
        <3>1. /\ writer.pc # "idle" /\ writer'.pc = "idle" /\ writer'.status = "killed"
              /\ writer'.cmd = writer.cmd /\ entry' = entry
            BY <2>0, <2>4 DEF Crash, Writer
        <3>2. Job.state # "idle" /\ Job' = [state |-> "idle", cmd |-> Job.cmd, status |-> "killed"]
            BY <3>1 DEF Job
        <3>3. Shelf' = Shelf
            BY <2>0, <2>4, <3>1, HeldSame DEF Shelf
        <3> QED BY <3>2, <3>3 DEF Promise!Kill
    <2>5. ASSUME WriterStep, ~(Rename /\ writer'.pc = "exit"), ~Exit
          PROVE  Shelf' = Shelf /\ Job' = Job
        <3>1. entry'.archive = entry.archive
            BY <2>0, <2>5 DEF WriterStep, Create, CopyMember, EndCopy, AddInput, EndAdd, Fail,
                Close, Rename, Remove, Exit, TypeOK, Writer
        <3>2. Shelf' = Shelf
            BY <2>0, <2>5, <3>1, HeldSame DEF Shelf
        <3>3. /\ writer.pc \notin {"idle", "exit"} /\ writer'.pc # "idle"
              /\ writer'.cmd = writer.cmd
            BY <2>0, <2>5, WriterMoves DEF WriterStep, Create, CopyMember, EndCopy, AddInput,
                EndAdd, Fail, Close, Rename, Remove, Exit, Writer
        <3>4. writer'.pc = "exit" => writer'.status = "failed"
            <4>1. CASE Create
                BY <2>0, <4>1 DEF Create, StatusOK, Writer
            <4>2. CASE Remove
                BY <2>0, <4>2 DEF Remove, StatusOK, Writer
            <4>3. CASE ~Create /\ ~Remove
                BY <2>0, <2>5, <4>3 DEF WriterStep, CopyMember, EndCopy, AddInput, EndAdd, Fail,
                    Close, Rename, Exit, Writer
            <4> QED BY <4>1, <4>2, <4>3
        <3>5. Job' = Job
            BY <3>3, <3>4 DEF Job
        <3> QED BY <3>2, <3>5
    <2>6. ASSUME UNCHANGED <<file, entry, writer>> PROVE Shelf' = Shelf /\ Job' = Job
        BY <2>6 DEF Shelf, Job
    <2>7. \/ \E c \in Command : Start(c)
          \/ WriterStep \/ Crash \/ UNCHANGED <<file, entry, writer>>
        BY <1>2 DEF Next, OpenRead, ReaderStep, NextMember, LastMember, FailRead, vars
    <2> QED BY <2>1, <2>2, <2>3, <2>4, <2>5, <2>6, <2>7
            DEF Promise!LibraryNext, Promise!libraryVars
<1> QED BY <1>1, <1>2, ArchiverInvHolds, PTL DEF Spec, UpdatesAreAtomic, Promise!LibrarySpec
=============================================================================
