--------------------------- MODULE ActivationRun ---------------------------
(***************************************************************************)
(* Run-time half of the static activation overlay: the code the compiler   *)
(* generates for calls, running in the memory that ActivationLayout laid   *)
(* out.                                                                    *)
(*                                                                         *)
(* compile_direct_symbol_call evaluates arguments left to right and copies *)
(* each into the callee's parameter object at once, unless a later         *)
(* argument may run a call: then the value is staged in the caller's       *)
(* scratch and copied just before the JSR.  compile_expanded_symbol_call   *)
(* (an optimizer-selected inline expansion) never stages: it makes the     *)
(* expansion's activation current before it evaluates the arguments, so    *)
(* calls made by the arguments are recorded as living above it.            *)
(*                                                                         *)
(* The values themselves do not matter, only who wrote a byte last: every  *)
(* call gets a serial number and what it stores is that number.  Staged    *)
(* values live in the caller's scratch, whose slots nested calls do not    *)
(* share (compiler_scratch_acquire hands out one slot per nesting level).  *)
(***************************************************************************)
EXTENDS ActivationLayout, Sequences

CONSTANT MaxSerial   \* bound on the number of calls of a behaviour

ASSUME SerialAssumption == MaxSerial \in Nat

VARIABLES
    ctl,      \* calls in progress, the innermost last
    mem,      \* the activation block: which call wrote each byte last
    serial    \* calls begun so far

runVars == <<ctl, mem, serial>>
vars == <<layoutVars, runVars>>

Addr == 0..(RegionSize - 1)

(***************************************************************************)
(* A call in progress.  While phase is "args", next is the argument being  *)
(* evaluated and mayCall the arguments whose expression holds a call       *)
(* (expr_may_execute_runtime_call); worked tells that a body has stored    *)
(* into its locals.                                                        *)
(***************************************************************************)
Call == [fn : Function, inl : BOOLEAN, phase : {"args", "body"}, next : Nat \ {0},
         mayCall : SUBSET Nat, serial : Nat, worked : BOOLEAN]

Top == ctl[Len(ctl)]
Arguments(f) == 1..prog.params[f]

\* The byte of parameter a of f, and the bytes of its locals, return object
\* and scratch.
ParamByte(f, a) == base[f] + a - 1
LocalBytes(f) == {base[f] + k : k \in prog.params[f]..(prog.size[f] - 1)}

\* An activation holds live bytes once its body runs; that of an inline
\* expansion already while its arguments are stored.
Live(c) == c.phase = "body" \/ c.inl

\* current_activation_graph_function and current_call_graph_function at the
\* point the innermost call in progress has reached.
OwnerIs(f) == \E i \in DOMAIN ctl :
                 /\ ctl[i].fn = f
                 /\ Live(ctl[i])
                 /\ \A j \in DOMAIN ctl : j > i => ~Live(ctl[j])
PhysIs(f) == \E i \in DOMAIN ctl :
                 /\ ctl[i].fn = f
                 /\ ctl[i].phase = "body" /\ ~ctl[i].inl
                 /\ \A j \in DOMAIN ctl :
                       j > i => ctl[j].inl \/ ctl[j].phase = "args"

\* Mutant of MustStage: nothing is staged.
MustStageNever(c, a) == FALSE

\* An argument is staged when a later one may run a call.
MustStage(c, a) == ~c.inl /\ \E b \in c.mayCall : b > a

-----------------------------------------------------------------------------
RunInit == /\ ctl = <<>>
           /\ mem = [a \in Addr |-> 0]
           /\ serial = 0

Init == LayoutInit /\ RunInit

NewCall(f, inl, phase, calls) ==
    [fn |-> f, inl |-> inl, phase |-> phase, next |-> 1, mayCall |-> calls,
     serial |-> serial + 1, worked |-> FALSE]

\* Startup enters a root: an initializer function, or main.
EnterRoot(f) ==
    /\ status = "placed"
    /\ ctl = <<>>
    /\ f \in prog.root
    /\ prog.params[f] = 0
    /\ serial < MaxSerial
    /\ ctl' = <<NewCall(f, FALSE, "body", {})>>
    /\ serial' = serial + 1
    /\ UNCHANGED <<layoutVars, mem>>

\* Code is being executed in a body, or in an argument expression with a call.
MayBeginCall ==
    /\ status = "placed"
    /\ ctl # <<>>
    /\ Top.phase = "args" =>
          /\ Top.next \in Arguments(Top.fn)
          /\ Top.next \in Top.mayCall

\* A call expression of the program is reached.
BeginCall(s, calls) ==
    /\ MayBeginCall
    /\ s \in prog.site
    /\ OwnerIs(s.owner)
    /\ PhysIs(s.phys)
    /\ calls \in SUBSET Arguments(s.callee)
    /\ serial < MaxSerial
    /\ ctl' = Append(ctl, NewCall(s.callee, s.inl, "args", calls))
    /\ serial' = serial + 1
    /\ UNCHANGED <<layoutVars, mem>>

\* One argument has been evaluated: emit_direct_argument_copy at once, or stage.
StoreArgument ==
    /\ status = "placed"
    /\ ctl # <<>>
    /\ Top.phase = "args"
    /\ Top.next \in Arguments(Top.fn)
    /\ mem' = IF MustStage(Top, Top.next) THEN mem
              ELSE [mem EXCEPT ![ParamByte(Top.fn, Top.next)] = Top.serial]
    /\ ctl' = [ctl EXCEPT ![Len(ctl)].next = @ + 1]
    /\ UNCHANGED <<layoutVars, serial>>

\* The staged arguments are copied and the body is entered, by JSR or, for an
\* expansion, by falling into it.
EnterBody ==
    /\ status = "placed"
    /\ ctl # <<>>
    /\ Top.phase = "args"
    /\ Top.next \notin Arguments(Top.fn)
    /\ mem' = [a \in Addr |->
                 IF \E p \in Arguments(Top.fn) :
                        a = ParamByte(Top.fn, p) /\ MustStage(Top, p)
                 THEN Top.serial ELSE mem[a]]
    /\ ctl' = [ctl EXCEPT ![Len(ctl)].phase = "body"]
    /\ UNCHANGED <<layoutVars, serial>>

\* A body stores into its locals, scratch and return object.
Work ==
    /\ status = "placed"
    /\ ctl # <<>>
    /\ Top.phase = "body"
    /\ ~Top.worked
    /\ mem' = [a \in Addr |-> IF a \in LocalBytes(Top.fn) THEN Top.serial
                              ELSE mem[a]]
    /\ ctl' = [ctl EXCEPT ![Len(ctl)].worked = TRUE]
    /\ UNCHANGED <<layoutVars, serial>>

\* RTS, or the end of an expansion.
Return ==
    /\ status = "placed"
    /\ ctl # <<>>
    /\ Top.phase = "body"
    /\ ctl' = SubSeq(ctl, 1, Len(ctl) - 1)
    /\ UNCHANGED <<layoutVars, mem, serial>>

RunNext ==
    \/ \E f \in Function : EnterRoot(f)
    \/ \E s \in prog.site : \E calls \in SUBSET Arguments(s.callee) :
          BeginCall(s, calls)
    \/ StoreArgument
    \/ EnterBody
    \/ Work
    \/ Return

Link == LayoutNext /\ UNCHANGED runVars
Next == Link \/ RunNext

\* The linker keeps taking its next step; the program may do what it likes.
Spec == Init /\ [][Next]_vars /\ WF_vars(Link)

-----------------------------------------------------------------------------
\* Types, and that code runs only in a layout whose blocks lie in the region.
RunTypeOK ==
    /\ LayoutTypeOK
    /\ ctl \in Seq(Call)
    /\ mem \in [Addr -> Nat]
    /\ serial \in Nat
    /\ ctl # <<>> =>
          status = "placed" /\ \A i \in DOMAIN ctl : End(ctl[i].fn) <= RegionSize

\* No two activations that hold live bytes overlap, however calls, arguments
\* and expansions nest: what the overlay of sibling functions must not break.
LiveActivationsDisjoint ==
    \A i, j \in DOMAIN ctl :
        (i < j /\ Live(ctl[i]) /\ Live(ctl[j])) =>
            End(ctl[i].fn) <= base[ctl[j].fn]

\* The bytes a call in progress still needs: the parameters of a running body,
\* its locals once stored, and the arguments already delivered to a callee that
\* is not yet entered.
Delivered(c, p) == c.phase = "body" \/ (p < c.next /\ ~MustStage(c, p))
Needed(c) ==
    {ParamByte(c.fn, p) : p \in {q \in Arguments(c.fn) : Delivered(c, q)}}
    \cup {a \in LocalBytes(c.fn) : c.phase = "body" /\ c.worked}

\* Every byte a call in progress still needs holds what that call stored there,
\* whatever ran in between: nothing is overwritten through a shared activation.
StoredBytesIntact ==
    \A i \in DOMAIN ctl : \A a \in Needed(ctl[i]) : mem[a] = ctl[i].serial

\* A function that owns bytes is never entered again while an activation of it
\* is live: statically allocated parameters and locals allow no recursion.
NoReentry ==
    \A i, j \in DOMAIN ctl :
        (i # j /\ ctl[i].fn = ctl[j].fn /\ prog.size[ctl[i].fn] > 0) =>
            ~(Live(ctl[i]) /\ Live(ctl[j]))

\* An expanded function has exactly one call site (the optimizer's candidate
\* rule), no code of its own (compile_toplevel.c skips its body), and no
\* expansion reaches itself (inline_analysis_is_in_cycle).  An activation other
\* than the function's own is current only inside an expansion made in that
\* function: current_activation_graph_function starts as the function and is
\* otherwise set by compile_expanded_symbol_call alone, which restores it.
Inlined(p) == {<<s.owner, s.callee>> : s \in {t \in p.site : t.inl}}
OnlySite(p) ==
    \A s, t \in p.site :
        s.inl => t.phys # s.callee /\ (s.callee = t.callee => s = t)
OwnerIsExpanded(p) ==
    \A t \in p.site : t.owner # t.phys =>
        \E s \in p.site : s.inl /\ s.callee = t.owner /\ s.phys = t.phys
Compilable(p) == OnlySite(p) /\ OwnerIsExpanded(p) /\ ~Recursive(Inlined(p))

\* For objects that the compiler wrote, recursion is always reported as such
\* (with a readable call chain) before the overlay is laid out: the terse
\* overlay-cycle refusal is never the one the user sees.
RecursionIsReported == Compilable(prog) => status # "cycle"
=============================================================================
