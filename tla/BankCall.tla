------------------------------ MODULE BankCall -------------------------------
(***************************************************************************)
(* Calls between cartridge banks, at the level of the trampolines          *)
(* libraries/vcs/<mapper>/bankcall.s26 and of the bridges vcsc-ld makes.   *)
(*                                                                         *)
(* The 6507 sees a few windows of cartridge address space; the mapper      *)
(* decides which bank answers in each.  A program counter is therefore a   *)
(* window and a place in it, and which code is fetched there depends on    *)
(* the mapper.  The trampolines are replicated at the same place of every  *)
(* bank, because the bank changes under the code that changes it.          *)
(*                                                                         *)
(* Families: "selector" (F8, F6, F4, FA, FA2, DPC, JANE, 0840, UA, UASW,   *)
(* 0FA0: an access selects a bank), "advance" (F0: an access selects the   *)
(* next bank), "delayed" (WD: an access selects a bank, which answers some *)
(* cycles later), "staged" (FC: a bank number is staged, then committed),  *)
(* "pair" (E0: two windows switch together, two are resident), "fixed"     *)
(* (3F: the lower window switches, the upper is the last bank), "fixedRam" *)
(* (3E, 3EX: the same, and RAM may replace the lower window) and           *)
(* "stackbus" (FE: the byte on the bus after an access to $01FE selects).  *)
(***************************************************************************)
EXTENDS Integers, Sequences, FiniteSets

CONSTANTS
    Function,
    NBank,      \* banks of the cartridge; 8 for "pair", 16 on F0
    NoResult,   \* A:X or ptr0 holds nothing the program may use
    Program     \* programs that may be linked

Family == {"selector", "advance", "delayed", "staged", "pair", "fixed", "fixedRam", "stackbus"}
Bank == 0..(NBank - 1)
Ram == NBank             \* what answers in the lower window when RAM is mapped
Window == 0..3
NoSwitch == 255          \* descriptor of a bank that is always visible

(***************************************************************************)
(* call: (caller, callee); bundle: the calls the compiler writes as        *)
(* jsr + .banktarget; bank: where the linker placed each function; ram:    *)
(* the helpers that map RAM (swapram_read, swapram_write).                 *)
(***************************************************************************)
ProgramType ==
    [family : Family, call : SUBSET (Function \X Function),
     bundle : SUBSET (Function \X Function), bank : [Function -> Bank],
     main : Function, ram : SUBSET Function]

\* The bank the cartridge starts in; main is placed there.  Nothing calls main: its
\* code ends in a jump through the reset vector.
StartupBank(p) == IF p.family \in {"staged", "delayed", "stackbus"} THEN 0 ELSE NBank - 1

ASSUME BankCallAssumption ==
    /\ NBank \in 2..NoSwitch
    /\ NoResult \notin Function
    /\ \A p \in Program :
          /\ p \in ProgramType
          /\ p.bundle \subseteq p.call
          /\ p.bank[p.main] = StartupBank(p)
          /\ \A e \in p.call : e[2] # p.main
          /\ \A f \in p.ram : p.family = "fixedRam" /\ p.bank[f] = NBank - 1
          /\ \A e \in p.call : e[2] \in p.ram => e \in p.bundle
          /\ p.family = "pair" => NBank = 8
          /\ p.family = "advance" => NBank \in {2, 4, 8, 16, 32, 64, 128}
          /\ p.family \in {"delayed", "stackbus"} => \A f \in Function : p.bank[f] \in {0, 1}
          /\ p.family = "stackbus" => p.bundle = {}

-----------------------------------------------------------------------------
(* What the linker knows of a bank. *)

Single(p) == p.family \in {"selector", "advance", "delayed", "staged", "stackbus"}
Selecting(p) == p.family \in {"selector", "delayed"}
Fixed(p) == p.family \in {"fixed", "fixedRam"}

\* The window a bank's code is linked for.
HomeWindow(p, b) ==
    CASE Single(p) -> 0
      [] Fixed(p) -> IF b = NBank - 1 THEN 1 ELSE 0
      [] p.family = "pair" -> IF b >= 6 THEN b - 4 ELSE b % 2

\* $bankcall_descriptor, the byte .banktarget stores and each copy of the
\* trampoline holds for its own bank.
Descriptor(p, b) ==
    CASE Single(p) -> b
      [] Fixed(p) -> IF b = NBank - 1 THEN NoSwitch ELSE b
      [] p.family = "pair" -> IF b >= 6 THEN NoSwitch ELSE b \div 2

\* c26_e0_bank_directly_visible: the target is mapped whenever the source is.
DirectlyVisible(p, source, target) ==
    \/ source = target
    \/ /\ p.family = "pair"
       /\ target >= 6 \/ (source < 6 /\ source \div 2 = target \div 2)

\* The plain calls that are redirected to an entry; on FE the jsr itself switches.
Crossing(p) ==
    {e \in p.call \ p.bundle :
        p.family # "stackbus" /\ ~DirectlyVisible(p, p.bank[e[1]], p.bank[e[2]])}

\* Mutant of Relocates: a call across banks of FE is not refused.
RelocatesAny(p) == TRUE

\* FE: a jsr into the other bank is refused outside of main, where S is not $FF.
Relocates(p) ==
    p.family = "stackbus" =>
        \A e \in p.call : p.bank[e[1]] # p.bank[e[2]] => e[1] = p.main

\* The corridor of a mapper without selectors has room for the block of the
\* bundles or for entries of plain calls, never for both.
FitsCorridor(p) == Selecting(p) \/ p.bundle = {} \/ Crossing(p) = {}

-----------------------------------------------------------------------------
VARIABLES
    prog,
    map,      \* what answers in each window
    latch,    \* FC: the staged low and high bits
    shadow,   \* E0: _vcsc_e0_state, the pair the program believes is mapped
    pending,  \* WD: the bank that is selected and does not answer yet
    pc,       \* [at, win, fn]; fn of a trampoline step is the function entered or resumed
    stack,    \* return addresses and descriptors, the last pushed last
    ptr0,     \* target of the call in progress, or the saved result
    x,        \* the index register inside a trampoline
    result    \* the function whose value is in A:X

cpuVars == <<pc, stack, ptr0, x, result>>
mapperVars == <<map, latch, shadow, pending>>
vars == <<prog, mapperVars, cpuVars>>

At(step, win, f) == [at |-> step, win |-> win, fn |-> f]
Saved(b) == [at |-> "source", byte |-> b]
Body(f) == At("body", HomeWindow(prog, prog.bank[f]), f)

\* What the windows may show at power-on.
PowerOn(p) ==
    CASE p.family \in {"selector", "advance"} -> {[w \in Window |-> b] : b \in Bank}
      [] p.family = "stackbus" -> {[w \in Window |-> b] : b \in {0, 1}}
      [] p.family \in {"staged", "delayed"} -> {[w \in Window |-> 0]}
      [] Fixed(p) -> {[w \in Window |-> IF w = 1 THEN NBank - 1 ELSE b] :
                         b \in 0..(NBank - 2)}
      [] p.family = "pair" -> {[w \in Window |-> 4 + w]}

Init ==
    /\ prog \in {p \in Program : FitsCorridor(p) /\ Relocates(p)}
    /\ map \in PowerOn(prog)
    /\ latch = <<0, 0>>
    /\ shadow = 0
    /\ pending = NoSwitch
    /\ pc = At("reset", 0, prog.main)
    /\ stack = <<>>
    /\ ptr0 = NoResult
    /\ x = 0
    /\ result = NoResult

\* The bank that answers at the program counter.
Fetched == map[pc.win]

\* A step of the trampoline is there in every bank of ROM.
InTrampoline(step) == pc.at = step /\ Fetched \in Bank

\* Code of a function is there in the bank the linker placed it in.
InBody == pc.at = "body" /\ Fetched = prog.bank[pc.fn]

Push(s) == stack' = stack \o s
Pop(n) == stack' = SubSeq(stack, 1, Len(stack) - n)
Top == stack[Len(stack)]

Select(m, w, b) == [m EXCEPT ![w] = b]
All(b) == [w \in Window |-> b]

\* Reset vector, mapper entry or the FE bridge that arms the latch, startup;
\* startup sets _vcsc_e0_state to 2.
Boot ==
    /\ pc.at = "reset"
    /\ map' = IF prog.family \in {"selector", "advance", "delayed", "stackbus"}
              THEN All(StartupBank(prog)) ELSE map
    /\ shadow' = 2
    /\ pc' = Body(prog.main)
    /\ UNCHANGED <<prog, latch, pending, stack, ptr0, x, result>>

-----------------------------------------------------------------------------
(* Calls.  The caller is done with A:X when it makes a call. *)

\* Where RTS goes on after a jsr of the running function, of n bytes.
Resume == At("body", pc.win, pc.fn)

\* FE: with nothing below it on the stack a return address lies at $01FE, and
\* the high byte of where the jsr or rts goes follows on the bus.
StackBus(depth, f) ==
    IF prog.family = "stackbus" /\ depth = 0 THEN All(prog.bank[f]) ELSE map

\* A plain jsr to a function that is mapped, or that it maps.
CallDirect(g) ==
    /\ InBody
    /\ <<pc.fn, g>> \in prog.call \ (prog.bundle \cup Crossing(prog))
    /\ Push(<<Resume>>)
    /\ pc' = Body(g)
    /\ map' = StackBus(Len(stack), g)
    /\ result' = NoResult
    /\ UNCHANGED <<prog, latch, shadow, pending, ptr0, x>>

\* jsr + .banktarget: the caller's copy of the trampoline, and a return address
\* that points at the three bytes that name the target.
CallBundle(g) ==
    /\ InBody
    /\ <<pc.fn, g>> \in prog.bundle
    /\ Push(<<At("payload", pc.win, pc.fn)>>)
    /\ pc' = At("bankcall", pc.win, g)
    /\ result' = NoResult
    /\ UNCHANGED <<prog, mapperVars, ptr0, x>>

\* A plain jsr to a function in another bank: the entry vcsc-ld made for it.
CallEntry(g) ==
    /\ InBody
    /\ <<pc.fn, g>> \in Crossing(prog)
    /\ Push(<<Resume, At("entryreturn", pc.win, pc.fn)>>)
    /\ pc' = At("entry", HomeWindow(prog, StartupBank(prog)), g)
    /\ result' = NoResult
    /\ UNCHANGED <<prog, mapperVars, ptr0, x>>

-----------------------------------------------------------------------------
(* The trampoline.  Its copies differ in the descriptor of their own bank. *)

Own == Descriptor(prog, Fetched)

\* Mutant of SourceByte: E0 pushes the descriptor of the bank it runs in.
SourceByteOwn == Own

\* What tells the return path which mapping to restore.
SourceByte == IF prog.family = "pair" THEN shadow ELSE Own

\* F0 counts accesses; the others use the descriptor itself.
Advances(to) == IF prog.family = "advance" THEN (to - Own) % NBank ELSE to

\* The return address is moved over the payload.
Skipped(a) == At("body", a.win, a.fn)

\* Read the payload while the caller is mapped, push the source, and push the
\* return to this copy by the jsr to the copy in the startup bank.
BankCall ==
    /\ InTrampoline("bankcall")
    /\ stack' = [stack EXCEPT ![Len(stack)] = Skipped(Top)]
                \o <<Saved(SourceByte), At("bankreturn", pc.win, Top.fn)>>
    /\ ptr0' = pc.fn
    /\ x' = Advances(Descriptor(prog, prog.bank[pc.fn]))
    /\ pc' = At("switch", HomeWindow(prog, StartupBank(prog)), pc.fn)
    /\ UNCHANGED <<prog, mapperVars, result>>

\* 3E: the callee returns to the copy in the fixed window (ora #$08).
ReturnWindow(a) == IF prog.family = "fixedRam" THEN At(a.at, 1, a.fn) ELSE a

\* Mutant of LowerPair: the window of the odd bank is forgotten.
LowerPairHalf(m, s) == m

\* The second access of an E0 switch.
LowerPair(m, s) == Select(m, 1, 2 * s + 1)

\* Mutant of Counted: the loop of F0 does not count.
CountedNever(n) == n

\* dex
Counted(n) == (n - 1) % 256

\* The access, or the first of two; step "switch" goes on with "switch2" when
\* there are two, and with next when the mapping is complete.
FirstAccess(step, second, next) ==
    /\ InTrampoline(step)
    /\ pc' = At(CASE prog.family = "advance" -> IF Counted(x) = 0 THEN next ELSE step
                  [] prog.family = "staged" -> second
                  [] prog.family = "pair" ->
                       IF x = shadow \/ (x = NoSwitch /\ step = "switch")
                       THEN next ELSE second
                  [] OTHER -> next,
                pc.win, pc.fn)
    /\ map' = CASE prog.family = "selector" -> All(x)
                [] prog.family = "advance" -> [w \in Window |-> (map[w] + 1) % NBank]
                [] Fixed(prog) -> IF x = NoSwitch THEN map ELSE Select(map, 0, x)
                [] OTHER -> IF pc'.at = second /\ prog.family = "pair"
                            THEN Select(map, 0, 2 * x) ELSE map
    /\ latch' = IF prog.family = "staged" THEN <<x % 4, x \div 4>> ELSE latch
    /\ shadow' = IF prog.family = "pair" /\ pc'.at = second THEN x ELSE shadow
    /\ pending' = IF prog.family = "delayed" THEN x ELSE pending
    /\ x' = IF prog.family = "advance" THEN Counted(x) ELSE x

SecondAccess(second, next) ==
    /\ InTrampoline(second)
    /\ pc' = At(next, pc.win, pc.fn)
    /\ map' = IF prog.family = "pair" THEN LowerPair(map, x)
              ELSE All(latch[1] + 4 * latch[2])
    /\ UNCHANGED <<latch, shadow, pending, x>>

\* WD: the selected bank answers from some instruction on.
Settle ==
    /\ pending # NoSwitch
    /\ map' = All(pending)
    /\ pending' = NoSwitch
    /\ UNCHANGED <<prog, latch, shadow, cpuVars>>

\* Mutant of Settled: the code behind the jump is fetched before the bank answers.
SettledLate == map

\* It answers at the latest when the jump or the rts that leaves the trampoline,
\* of five and six cycles, fetches from its target.
Settled == IF pending = NoSwitch THEN map ELSE All(pending)

\* __vcsc_generic_bankcall_switch_and_jump
Switch ==
    /\ \/ /\ FirstAccess("switch", "switch2", "jump")
          /\ stack' = IF prog.family = "fixedRam"
                      THEN [stack EXCEPT ![Len(stack)] = ReturnWindow(Top)] ELSE stack
       \/ SecondAccess("switch2", "jump") /\ UNCHANGED stack
    /\ UNCHANGED <<prog, ptr0, result>>

Jump ==
    /\ InTrampoline("jump")
    /\ pc' = Body(ptr0)
    /\ map' = Settled
    /\ pending' = NoSwitch
    /\ UNCHANGED <<prog, latch, shadow, stack, ptr0, x, result>>

\* __vcsc_generic_bankreturn: save A:X, take the source.
BankReturn ==
    /\ InTrampoline("bankreturn")
    /\ ptr0' = result
    /\ result' = NoResult
    /\ x' = Advances(Top.byte)
    /\ Pop(1)
    /\ pc' = At("restore", pc.win, pc.fn)
    /\ UNCHANGED <<prog, mapperVars>>

Restore ==
    /\ FirstAccess("restore", "restore2", "finish") \/ SecondAccess("restore2", "finish")
    /\ UNCHANGED <<prog, stack, ptr0, result>>

\* Mutant of Finish: A:X is not restored.
FinishWithoutResult ==
    /\ InTrampoline("finish")
    /\ pc' = Top
    /\ Pop(1)
    /\ map' = Settled
    /\ pending' = NoSwitch
    /\ UNCHANGED <<prog, latch, shadow, ptr0, x, result>>

\* Restore A:X and return to the caller.
Finish ==
    /\ InTrampoline("finish")
    /\ result' = ptr0
    /\ pc' = Top
    /\ Pop(1)
    /\ map' = Settled
    /\ pending' = NoSwitch
    /\ UNCHANGED <<prog, latch, shadow, ptr0, x>>

-----------------------------------------------------------------------------
(* The entry of a plain call: it reads the selector of the target, or $0000 *)
(* when the mapper has none, and reads the caller's on the way back.  The   *)
(* jmp () or rts after the read is long enough for WD.                      *)

Selected(b) == IF Selecting(prog) THEN All(b) ELSE map

Entry ==
    /\ InTrampoline("entry")
    /\ map' = Selected(prog.bank[pc.fn])
    /\ pc' = Body(pc.fn)
    /\ UNCHANGED <<prog, latch, shadow, pending, stack, ptr0, x, result>>

EntryReturn ==
    /\ InTrampoline("entryreturn")
    /\ map' = Selected(prog.bank[pc.fn])
    /\ pc' = Top
    /\ Pop(1)
    /\ UNCHANGED <<prog, latch, shadow, pending, ptr0, x, result>>

-----------------------------------------------------------------------------
\* A swapram helper maps RAM over the lower window and leaves it there.
MapRam ==
    /\ InBody
    /\ pc.fn \in prog.ram
    /\ map' = Select(map, 0, Ram)
    /\ UNCHANGED <<prog, latch, shadow, pending, cpuVars>>

Return ==
    /\ InBody
    /\ stack # <<>>
    /\ pc' = Top
    /\ Pop(1)
    /\ map' = StackBus(Len(stack) - 1, Top.fn)
    /\ result' = pc.fn
    /\ UNCHANGED <<prog, latch, shadow, pending, ptr0, x>>

\* The end of main jumps through the reset vector.
MainEnds ==
    /\ InBody
    /\ stack = <<>>
    /\ pc' = At("reset", 0, prog.main)
    /\ result' = NoResult
    /\ UNCHANGED <<prog, mapperVars, stack, ptr0, x>>

Trampoline == Boot \/ BankCall \/ Switch \/ Jump \/ BankReturn \/ Restore \/ Finish
              \/ Entry \/ EntryReturn

Next ==
    \/ Trampoline
    \/ \E g \in Function : CallDirect(g)
    \/ \E g \in Function : CallBundle(g)
    \/ \E g \in Function : CallEntry(g)
    \/ Settle
    \/ MapRam
    \/ Return
    \/ MainEnds

\* The processor does not stop inside a trampoline.
Spec == Init /\ [][Next]_vars /\ WF_vars(Trampoline)

-----------------------------------------------------------------------------
\* The programs whose calls across banks all switch banks.
Bridged(p) == Selecting(p) \/ Crossing(p) = {}

\* No instruction is fetched from a bank that does not hold it, while the
\* mapper changes under the trampoline, in the callee, or back in the caller.
FetchesItsCode == pc.at = "body" => Fetched = prog.bank[pc.fn]
FetchesTrampoline == pc.at \notin {"reset", "body"} => Fetched \in Bank
FetchesIntendedCode == Bridged(prog) => FetchesItsCode /\ FetchesTrampoline

\* Every trampoline ends in the code of a function.
TrampolineEnds == pc.at # "body" ~> pc.at = "body"

\* vcsc_ld.c: a plain jsr may join any two banks, because the common trampoline
\* table can implement it: the callee is there when the entry jumps to it.
EveryCallBridged == FetchesItsCode

-----------------------------------------------------------------------------
(* The trampolines implement calls.  The abstract call happens at the jsr, *)
(* the abstract return at the RTS of the callee.                           *)

Returning == pc.at \in {"bankreturn", "restore", "restore2", "finish", "entryreturn"}

\* The functions that wait: the return addresses that lie in a function.
Callers == {i \in DOMAIN stack : stack[i].at \in {"payload", "body"}}
Caller(k) == CHOOSE i \in Callers : Cardinality({j \in Callers : j <= i}) = k
Waiting == [k \in 1..(Cardinality(Callers) - (IF Returning THEN 1 ELSE 0)) |->
               stack[Caller(k)].fn]

\* The value of the callee, in A:X or saved while A and X are used.
Value == IF pc.at \in {"restore", "restore2", "finish"} THEN ptr0 ELSE result

Far == INSTANCE FarCall WITH running <- pc.fn, frames <- Waiting, result <- Value

\* In bridged programs calls behave as calls: every callee returns to its caller,
\* in its bank, with its value, whatever the nesting of banks.
CallsAsFarCalls == Far!CallSpec
=============================================================================
