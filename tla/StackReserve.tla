---------------------------- MODULE StackReserve ----------------------------
(***************************************************************************)
(* The hardware stack.  The 6507 stack shares 128 bytes of RAM with the    *)
(* variables, so vcsc-ld computes how deep the compiled calls can nest     *)
(* (enforce_symbol_backed_call_graph and its two depth visits), takes that *)
(* many bytes off the top of the region (reserve_call_stack_from_call_     *)
(* graph), and places variables below.  Nothing checks the stack at run    *)
(* time: a push beyond the reserve overwrites a variable.                  *)
(*                                                                         *)
(* The module runs the linker's computation and then the program: startup, *)
(* the initializer functions it calls, main, and every push the generated  *)
(* code performs.                                                          *)
(***************************************************************************)
EXTENDS Integers, Sequences, FiniteSets, CallGraph

CONSTANTS
    Bank,        \* banks of the cartridge
    Program,     \* programs that may be linked
    RegionSize   \* bytes of the region that holds variables and stack

(***************************************************************************)
(* call: the calls in compiled code, as (caller, callee); helper: the      *)
(* functions whose code also calls a runtime helper (multiply, divide,     *)
(* copy, ...); main and init: what startup enters; bank: where each        *)
(* function is placed; named: the functions whose bank the source names;   *)
(* descriptor: the cartridge has the one-byte bank descriptor call ABI;    *)
(* startup: the startup object the linker selected.                        *)
(***************************************************************************)
ProgramType == [call : SUBSET (Function \X Function), helper : SUBSET Function,
                main : Function, init : SUBSET Function, bank : [Function -> Bank],
                named : SUBSET Function, descriptor : BOOLEAN,
                startup : {"simple", "data", "full"}]

ASSUME StackProgramAssumption ==
    \A p \in Program : /\ p \in ProgramType
                       /\ p.main \notin p.init
                       /\ p.init # {} => p.startup = "full"
ASSUME StackRegionAssumption == RegionSize \in Nat

-----------------------------------------------------------------------------
(* The call graph the linker sees. *)

\* record_call_graph_edge: an initializer function is emitted outside of any
\* function, so the calls it makes have no caller to be recorded under.
Recorded(p) == {e \in p.call : e[1] \notin p.init}

Successors(p, f) == {g \in Function : <<f, g>> \in Recorded(p)}
Crosses(p, f, g) == p.bank[f] # p.bank[g]

\* Mutant of Bridge: bank bridges are not counted.
NoBridge(p, f, g) == 0

\* The bank bridge holds a second return address.
Bridge(p, f, g) == IF Crosses(p, f, g) THEN 1 ELSE 0

-----------------------------------------------------------------------------
VARIABLES
    prog,      \* the program
    status,    \* "enforce", "depth", "startup", "run" or a refusal
    path,      \* functions the depth visits are inside of, the deepest last
    depth,     \* longest path in functions, 0 when not yet known
    weighted,  \* the same with bank bridges counted
    reserved,  \* bytes taken off the top of the region
    frames,    \* run time: the functions that have been entered
    transient  \* run time: bytes pushed by startup or a helper, over the frames

linkVars == <<path, depth, weighted, reserved>>
vars == <<prog, status, linkVars, frames, transient>>

Init ==
    /\ prog \in Program
    /\ status = "enforce"
    /\ path = <<>>
    /\ depth = [f \in Function |-> 0]
    /\ weighted = [f \in Function |-> 0]
    /\ reserved = 0
    /\ frames = <<>>
    /\ transient = 0

\* A cycle of calls is refused; otherwise the depth of main is computed.
Enforce ==
    /\ status = "enforce"
    /\ IF Recursive(Recorded(prog))
       THEN status' = "recursive" /\ UNCHANGED path
       ELSE status' = "depth" /\ path' = <<prog.main>>
    /\ UNCHANGED <<prog, depth, weighted, reserved, frames, transient>>

Visiting == path[Len(path)]
Known(f) == depth[f] > 0

\* The visits go down an edge to a function whose depth is not in the memo.
Descend(g) ==
    /\ status = "depth"
    /\ path # <<>>
    /\ g \in Successors(prog, Visiting)
    /\ ~Known(g)
    /\ path' = Append(path, g)
    /\ UNCHANGED <<prog, status, depth, weighted, reserved, frames, transient>>

\* n is the larger of 1 and of what any callee asks for.
IsLongest(n, S) == n \in S \cup {1} /\ \A m \in S \cup {1} : m <= n

\* All callees are known: memoize and go back up.  The two visits have the same
\* shape and are taken together.
Finish ==
    /\ status = "depth"
    /\ path # <<>>
    /\ \A g \in Successors(prog, Visiting) : Known(g)
    /\ LET callees == Successors(prog, Visiting)
           plain == {1 + depth[g] : g \in callees}
           bridged == {1 + Bridge(prog, Visiting, g) + weighted[g] : g \in callees}
       IN \E d \in plain \cup {1}, w \in bridged \cup {1} :
             /\ IsLongest(d, plain) /\ IsLongest(w, bridged)
             /\ depth' = [depth EXCEPT ![Visiting] = d]
             /\ weighted' = [weighted EXCEPT ![Visiting] = w]
    /\ path' = SubSeq(path, 1, Len(path) - 1)
    /\ UNCHANGED <<prog, status, reserved, frames, transient>>

\* main is entered by a tail jump and owns no return address.
MainDepth == depth[prog.main] - 1
MainWeighted == weighted[prog.main] - 1

\* The transient pushes of the copy loop, and the cursor of the init table.
StartupBytes(p) == (IF p.startup \in {"data", "full"} THEN 2 ELSE 0)
                   + (IF p.init # {} THEN 2 ELSE 0)

\* Two bytes for each return address, one for each descriptor, and startup.
Required == 2 * MainWeighted
            + (IF prog.descriptor /\ MainWeighted > MainDepth
               THEN MainWeighted - MainDepth ELSE 0)
            + StartupBytes(prog)

FitsRegion == Required <= RegionSize

Reserve ==
    /\ status = "depth"
    /\ path = <<>>
    /\ IF FitsRegion
       THEN status' = "startup" /\ reserved' = Required
       ELSE status' = "too small" /\ UNCHANGED reserved
    /\ UNCHANGED <<prog, path, depth, weighted, frames, transient>>

-----------------------------------------------------------------------------
(***************************************************************************)
(* Run time.  A frame tells which function runs and how many stack bytes   *)
(* are in use while it does.                                               *)
(***************************************************************************)
Running == frames[Len(frames)].fn
FrameBytes == IF frames = <<>> THEN 0 ELSE frames[Len(frames)].used
Used == FrameBytes + transient

Enter(f, bytes) ==
    frames' = Append(frames, [fn |-> f, used |-> FrameBytes + bytes])

\* Bytes one call pushes: a plain JSR; two return addresses through the shared
\* bank entry; and one descriptor more through $bankcall, which the compiler
\* chooses when it knows both banks (direct_call_uses_inline_bank_bundle).
CallBytes(p, f, g) ==
    IF ~Crosses(p, f, g) THEN 2
    ELSE IF p.descriptor /\ {f, g} \subseteq p.named THEN 5 ELSE 4

\* The copy loops of the data and full startup push up to two bytes.
StartupCopy ==
    /\ status = "startup"
    /\ frames = <<>>
    /\ transient = 0
    /\ prog.startup \in {"data", "full"}
    /\ transient' = 2
    /\ UNCHANGED <<prog, status, linkVars, frames>>

\* Full startup pushes its cursor and calls an initializer function.
InitCall(f) ==
    /\ status = "startup"
    /\ frames = <<>>
    /\ transient = 0
    /\ f \in prog.init
    /\ Enter(f, 4)
    /\ UNCHANGED <<prog, status, linkVars, transient>>

\* Startup jumps to main.
TailMain ==
    /\ status = "startup"
    /\ frames = <<>>
    /\ transient = 0
    /\ status' = "run"
    /\ Enter(prog.main, 0)
    /\ UNCHANGED <<prog, linkVars, transient>>

\* Compiled code calls a compiled function.
Call(g) ==
    /\ frames # <<>>
    /\ transient = 0
    /\ <<Running, g>> \in prog.call
    /\ Enter(g, CallBytes(prog, Running, g))
    /\ UNCHANGED <<prog, status, linkVars, transient>>

\* Compiled code calls a runtime helper.
HelperCall ==
    /\ frames # <<>>
    /\ transient = 0
    /\ Running \in prog.helper
    /\ transient' = 2
    /\ UNCHANGED <<prog, status, linkVars, frames>>

\* The helper or the copy loop is done.
TransientEnd ==
    /\ transient > 0
    /\ transient' = 0
    /\ UNCHANGED <<prog, status, linkVars, frames>>

\* The running function returns: to its caller or to the initializer loop.  The
\* end of main jumps through the reset vector.
Return ==
    /\ frames # <<>>
    /\ transient = 0
    /\ frames' = SubSeq(frames, 1, Len(frames) - 1)
    /\ status' = IF Len(frames) = 1 THEN "startup" ELSE status
    /\ UNCHANGED <<prog, linkVars, transient>>

Next ==
    \/ Enforce
    \/ \E g \in Function : Descend(g)
    \/ Finish
    \/ Reserve
    \/ StartupCopy
    \/ \E f \in Function : InitCall(f)
    \/ TailMain
    \/ \E g \in Function : Call(g)
    \/ HelperCall
    \/ TransientEnd
    \/ Return

Spec == Init /\ [][Next]_vars

-----------------------------------------------------------------------------
Frame == [fn : Function, used : Nat]

\* Types, and the size check of the linker: the stack is inside the region.
StackTypeOK ==
    /\ prog \in Program
    /\ status \in {"enforce", "recursive", "depth", "too small", "startup", "run"}
    /\ path \in Seq(Function)
    /\ depth \in [Function -> Nat]
    /\ weighted \in [Function -> Nat]
    /\ reserved \in 0..RegionSize
    /\ frames \in Seq(Frame)
    /\ transient \in {0, 2}

\* The programs whose every push the computation accounts for: bank calls use
\* the shared entry, initializers call nothing, no helper is called.
Accounted(p) == /\ ~p.descriptor
                /\ p.helper = {}
                /\ \A e \in p.call : e[1] \notin p.init

\* The stack never reaches the variables below it, however deep the program
\* nests calls and whichever banks it crosses.
StackFitsReserve == Accounted(prog) => Used <= reserved

\* ABI.txt: two bytes are reserved for each active JSR return address; and
\* BANKSWITCHING.md: the one-byte descriptors of active cross-bank calls are
\* included.  So no push of any program leaves the reserve.
EveryPushReserved == Used <= reserved
=============================================================================
