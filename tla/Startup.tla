------------------------------ MODULE Startup ------------------------------
(***************************************************************************)
(* The stock startups (vcsc-rt0.s26 and the two that replace it): RAM is   *)
(* initialized from tables that vcsc-ld has put into ROM, the initializer  *)
(* functions are called, and main is entered.                              *)
(*                                                                         *)
(* The tables are read byte by byte through ptr0, and a record is worked   *)
(* off in full pages, counted in X, and a rest, both with the offset in Y. *)
(* A table ends with a count of zero.                                      *)
(***************************************************************************)
EXTENDS Integers, Sequences

CONSTANTS
    Byte,       \* values of a byte (256)
    Clobber     \* what an initializer may leave in ptr0

ASSUME ByteAssumption == Byte \in Nat /\ Byte > 6 /\ Clobber \subseteq 0..(Byte * Byte - 1)

VARIABLES
    startup,  \* "full", "data" or "simple"
    tables,   \* addresses of the tables, and the bytes a blanket clear reaches
    rom,      \* bytes of the tables and of the images
    ram,      \* what each byte of RAM holds
    step,     \* where startup is
    table,    \* the table it walks
    ptr0,     \* the record
    x, y,     \* the registers
    saved,    \* ptr0, while an initializer runs
    called    \* initializers called since reset

tableVars == <<startup, tables, rom>>
callVars == <<saved, called>>
startupVars == <<tableVars, ram, step, table, ptr0, x, y, callVars>>

\* What RAM holds: the bytes of images are positive.
Zero == 0
Junk == -1

\* Bytes of a record, offsets of its count and of its destination.
Record == [copy |-> [length |-> 6, count |-> 4, to |-> 2],
           zero |-> [length |-> 4, count |-> 2, to |-> 0]]

-----------------------------------------------------------------------------
(* build_copy_table_image, build_zero_table_image, build_init_table_image *)

Low(n) == n % Byte
High(n) == n \div Byte
Pair(n) == <<Low(n), High(n)>>

\* Mutant of Terminated: the table ends with its last record.
TerminatedNot(bytes, length) == bytes

Terminated(bytes, length) == bytes \o [i \in 1..length |-> 0]

Flat(ss) ==
    LET flat[i \in 0..Len(ss)] == IF i = 0 THEN <<>> ELSE flat[i - 1] \o ss[i]
    IN  flat[Len(ss)]

CopyBytes(records) ==
    Terminated(Flat([i \in DOMAIN records |->
        Pair(records[i].from) \o Pair(records[i].to) \o Pair(records[i].size)]), 6)
ZeroBytes(records) ==
    Terminated(Flat([i \in DOMAIN records |->
        Pair(records[i].to) \o Pair(records[i].size)]), 4)
\* Function i has address i.
InitBytes(n) == Terminated(Flat([i \in 1..n |-> Pair(i)]), 2)

-----------------------------------------------------------------------------
WordAt(a) == rom[a] + Byte * rom[a + 1]

CountAt == WordAt(ptr0 + Record[table].count)
Pages == rom[ptr0 + Record[table].count + 1]
Rest == rom[ptr0 + Record[table].count]

\* Mutant of Advanced: the carry into the high byte is lost.
AdvancedLow(p, n) == High(p) * Byte + Low(Low(p) + n)

Advanced(p, n) == p + n

Continue(s) == step' = s /\ UNCHANGED <<tableVars, callVars>>

\* The blanket clear of RIOT RAM.
ClearRam ==
    /\ step = "clear"
    /\ ram' = [a \in DOMAIN ram |-> IF a \in tables.clear THEN Zero ELSE ram[a]]
    /\ IF startup = "simple" THEN Continue("main") /\ UNCHANGED ptr0
       ELSE Continue("record") /\ ptr0' = tables.copy
    /\ UNCHANGED <<table, x, y>>

NextRecord ==
    /\ ptr0' = Advanced(ptr0, Record[table].length)
    /\ Continue("record")
    /\ UNCHANGED <<table, x, y>>

BeginRecord ==
    /\ step = "record" /\ CountAt # 0
    /\ x' = 0
    /\ Continue("page")
    /\ UNCHANGED <<ram, table, ptr0, y>>

\* Only the full startup has a table of what is to be cleared.
EndTable ==
    /\ step = "record" /\ CountAt = 0
    /\ IF table = "copy" /\ startup = "full"
       THEN /\ table' = "zero" /\ ptr0' = tables.zero
            /\ Continue("record")
       ELSE /\ ptr0' = tables.init
            /\ Continue("init") /\ UNCHANGED table
    /\ UNCHANGED <<ram, x, y>>

FullPage ==
    /\ step = "page" /\ x < Pages
    /\ y' = 0
    /\ Continue("full")
    /\ UNCHANGED <<ram, table, ptr0, x>>

\* Mutant of LastPage: a rest of zero is not told apart.
LastPageAlways ==
    /\ step = "page" /\ x >= Pages
    /\ x' = Rest /\ y' = 0
    /\ Continue("tail")
    /\ UNCHANGED <<ram, table, ptr0>>

LastPage ==
    /\ step = "page" /\ x >= Pages
    /\ IF Rest = 0
       THEN NextRecord /\ UNCHANGED ram
       ELSE /\ x' = Rest /\ y' = 0
            /\ Continue("tail")
            /\ UNCHANGED <<ram, table, ptr0>>

\* One byte of the record, in page p of the range.
Store(p) ==
    LET offset == p * Byte + y
        to == WordAt(ptr0 + Record[table].to) + offset
    IN  ram' = [ram EXCEPT ![to] = IF table = "copy"
                                   THEN rom[WordAt(ptr0) + offset] ELSE Zero]

StoreFull ==
    /\ step = "full"
    /\ Store(x)
    /\ y' = Low(y + 1)
    /\ IF y' = 0 THEN x' = x + 1 /\ Continue("page")
       ELSE x' = x /\ Continue("full")
    /\ UNCHANGED <<table, ptr0>>

\* Mutant of StoreTail: the rest is stored into the first page.
StoreTailFirst ==
    /\ step = "tail"
    /\ Store(0)
    /\ IF x = 1 THEN NextRecord
       ELSE /\ x' = Low(x - 1) /\ y' = Low(y + 1)
            /\ Continue("tail")
            /\ UNCHANGED <<table, ptr0>>

\* X counts the rest; the page of the rest is the number of full pages.
StoreTail ==
    /\ step = "tail"
    /\ Store(Pages)
    /\ IF x = 1 THEN NextRecord
       ELSE /\ x' = Low(x - 1) /\ y' = Low(y + 1)
            /\ Continue("tail")
            /\ UNCHANGED <<table, ptr0>>

-----------------------------------------------------------------------------
\* The record lies on the stack while the initializer uses ptr0.
CallInitializer ==
    /\ step = "init" /\ WordAt(ptr0) # 0
    /\ called' = Append(called, WordAt(ptr0))
    /\ saved' = ptr0
    /\ ptr0' \in Clobber
    /\ step' = "called"
    /\ UNCHANGED <<tableVars, ram, table, x, y>>

\* Mutant of ReturnInitializer: the record is not pulled.
ReturnInitializerUnpulled ==
    /\ step = "called"
    /\ ptr0' = Advanced(ptr0, 2)
    /\ Continue("init")
    /\ UNCHANGED <<ram, table, x, y>>

ReturnInitializer ==
    /\ step = "called"
    /\ ptr0' = Advanced(saved, 2)
    /\ Continue("init")
    /\ UNCHANGED <<ram, table, x, y>>

EnterMain ==
    /\ step = "init" /\ WordAt(ptr0) = 0
    /\ Continue("main")
    /\ UNCHANGED <<ram, table, ptr0, x, y>>

\* The reset vector.
EnterStartup ==
    /\ step' = IF startup' = "full" THEN "record" ELSE "clear"
    /\ table' = "copy"
    /\ ptr0' = tables'.copy
    /\ x' = 0 /\ y' = 0
    /\ saved' = 0 /\ called' = <<>>

StartupNext ==
    \/ ClearRam \/ BeginRecord \/ EndTable \/ FullPage \/ LastPage
    \/ StoreFull \/ StoreTail \/ CallInitializer \/ ReturnInitializer
    \/ EnterMain
=============================================================================
