------------------------------- MODULE FarCall -------------------------------
(***************************************************************************)
(* What a call promises to compiled code, whatever the banks: the callee   *)
(* runs, and when it returns its caller goes on where it was, with the     *)
(* callee's value in the result registers A:X.                             *)
(***************************************************************************)
EXTENDS Sequences, Integers

CONSTANTS
    Function,
    NoResult    \* A:X holds nothing the program may use

VARIABLES
    running,    \* the function whose code executes
    frames,     \* the functions that wait for a callee, the first called first
    result      \* the function whose value is in A:X

callVars == <<running, frames, result>>

CallInit ==
    /\ running \in Function
    /\ frames = <<>>
    /\ result = NoResult

DoCall(g) ==
    /\ frames' = Append(frames, running)
    /\ running' = g
    /\ result' = NoResult

DoReturn ==
    /\ frames # <<>>
    /\ running' = frames[Len(frames)]
    /\ frames' = SubSeq(frames, 1, Len(frames) - 1)
    /\ result' = running

\* The outermost function ends and the program starts over.
DoRestart ==
    /\ frames = <<>>
    /\ result' = NoResult
    /\ UNCHANGED <<running, frames>>

CallNext == (\E g \in Function : DoCall(g)) \/ DoReturn \/ DoRestart

CallSpec == CallInit /\ [][CallNext]_callVars
=============================================================================
