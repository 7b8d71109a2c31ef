------------------------- MODULE StackReserveProofs -------------------------
(***************************************************************************)
(* The reserve of an accounted program is never exceeded.                  *)
(*                                                                         *)
(* The memo of the depth visits is exact for every function it knows, so a *)
(* known caller asks for at least one slot (two across banks) more than    *)
(* each of its callees.  Along the calls in progress the bytes in use and  *)
(* twice the depth still ahead therefore never add up to more than twice   *)
(* the depth of main, whose own slot the reserve leaves out because main   *)
(* owns no return address.                                                 *)
(***************************************************************************)
EXTENDS StackReserve, SequenceTheorems, TLAPS

LEMMA ProgramFacts ==
    ASSUME NEW p \in Program
    PROVE  /\ p.call \in SUBSET (Function \X Function)
           /\ p.main \in Function /\ p.init \in SUBSET Function
           /\ p.startup \in {"simple", "data", "full"}
           /\ p.descriptor \in BOOLEAN
           /\ p.init # {} => p.startup = "full"
BY StackProgramAssumption DEF ProgramType

\* Arithmetic, stated once.
LEMMA OneOrMore == \A n \in Nat : n > 0 => n = 1 \/ n > 1
OBVIOUS

LEMMA BudgetOfCallee ==
    ASSUME NEW used \in Nat, NEW bytes \in Nat, NEW bridge \in {0, 1}, NEW callee \in Nat,
           NEW caller \in Nat, NEW total \in Nat,
           used + 2 * caller <= 2 * total, 1 + bridge + callee <= caller,
           bytes = 2 * (1 + bridge)
    PROVE  used + bytes + 2 * callee <= 2 * total
OBVIOUS

LEMMA BridgeType ==
    ASSUME NEW p, NEW f, NEW g
    PROVE  Bridge(p, f, g) \in {0, 1}
BY DEF Bridge

-----------------------------------------------------------------------------
\* What is asked for by the callees of a known function.
Asked(f) == {1 + Bridge(prog, f, g) + weighted[g] : g \in Successors(prog, f)}

\* A known function has known callees, and its depth is exact.
MemoInv ==
    \A f \in Function :
        /\ Known(f) => /\ \A g \in Successors(prog, f) : Known(g)
                       /\ IsLongest(weighted[f], Asked(f))
        /\ depth[f] > 0 <=> weighted[f] > 0

MainVisited ==
    /\ status = "depth" => Known(prog.main) \/ (path # <<>> /\ path[1] = prog.main)
    /\ status \in {"startup", "run"} => Known(prog.main) /\ reserved = Required
    /\ status \notin {"startup", "run"} => frames = <<>>

\* Bytes in use and slots ahead fit into the depth of main.
InBudget(fr) ==
    Known(fr.fn) /\ fr.used + 2 * weighted[fr.fn] <= 2 * weighted[prog.main]

StartupFrame(fr) == fr.fn \in prog.init /\ fr.used = 4

FramesInv ==
    /\ status = "startup" =>
          frames = <<>> \/ (Len(frames) = 1 /\ StartupFrame(frames[1]))
    /\ status = "run" => \A k \in DOMAIN frames : InBudget(frames[k])
    /\ transient = 2 => /\ frames = <<>> /\ status = "startup"
                        /\ prog.startup \in {"data", "full"}

StackInv == /\ StackTypeOK /\ MemoInv /\ MainVisited
            /\ Accounted(prog) => FramesInv

-----------------------------------------------------------------------------
LEMMA StackInvInit == Init => StackInv
<1> SUFFICES ASSUME Init PROVE StackInv OBVIOUS
<1> USE DEF Init
<1>1. StackTypeOK BY StackRegionAssumption DEF StackTypeOK
<1>2. MemoInv BY DEF MemoInv, Known
<1>3. MainVisited BY DEF MainVisited
<1>4. FramesInv BY DEF FramesInv
<1> QED BY <1>1, <1>2, <1>3, <1>4 DEF StackInv

\* One function is memoized.
LEMMA FinishKeepsMemo ==
    ASSUME StackInv, Finish
    PROVE  /\ depth' \in [Function -> Nat] /\ weighted' \in [Function -> Nat]
           /\ path' \in Seq(Function)
           /\ MemoInv'
           /\ depth'[Visiting] > 0
           /\ \A f \in Function : Known(f) => depth'[f] > 0
<1>0. path \in Seq(Function) /\ depth \in [Function -> Nat] /\ weighted \in [Function -> Nat]
      /\ MemoInv /\ path # <<>>
  BY DEF StackInv, StackTypeOK, Finish
<1> DEFINE v == Visiting
           plain == {1 + depth[g] : g \in Successors(prog, v)}
<1>1. path \in Seq(Function) /\ path # <<>> BY <1>0
<1>2. Len(path) \in Nat \ {0} /\ v \in Function
  <2>1. Len(path) \in DOMAIN path BY <1>1
  <2>2. Len(path) \in Nat /\ Len(path) > 0 BY <1>1, <2>1
  <2> QED BY <1>1, <2>1, <2>2 DEF Visiting
<1>3. path' \in Seq(Function)
  <2>1. \A k \in 1..(Len(path) - 1) : path[k] \in Function BY <1>1, <1>2
  <2> QED BY <1>2, <2>1, SubSeqProperties DEF Finish
<1>4. \A g \in Successors(prog, v) : g \in Function /\ Known(g)
  BY DEF Finish, Successors
<1>5. PICK d \in plain \cup {1}, w \in Asked(v) \cup {1} :
         /\ IsLongest(d, plain) /\ IsLongest(w, Asked(v))
         /\ depth' = [depth EXCEPT ![v] = d]
         /\ weighted' = [weighted EXCEPT ![v] = w]
         /\ UNCHANGED prog
  BY DEF Finish, Asked
<1>6. Asked(v) \in SUBSET Nat /\ plain \in SUBSET Nat
  <2>1. \A g \in Successors(prog, v) : 1 + depth[g] \in Nat BY <1>0, <1>4
  <2>2. \A g \in Successors(prog, v) : 1 + Bridge(prog, v, g) + weighted[g] \in Nat
    BY <1>0, <1>4, BridgeType
  <2> QED BY <2>1, <2>2 DEF Asked
<1> HIDE DEF plain
<1>7. d \in Nat /\ d >= 1 /\ w \in Nat /\ w >= 1
  BY <1>5, <1>6 DEF IsLongest
<1>8. depth' \in [Function -> Nat] /\ weighted' \in [Function -> Nat]
  BY <1>0, <1>2, <1>5, <1>7
<1>9. depth'[v] > 0 /\ weighted'[v] = w
  <2>1. depth'[v] = d /\ weighted'[v] = w BY <1>0, <1>2, <1>5
  <2> QED BY <1>7, <2>1
<1>10. \A f \in Function : f # v => depth'[f] = depth[f] /\ weighted'[f] = weighted[f]
  BY <1>0, <1>5
<1> HIDE DEF v
<1>11. CASE Known(v)
  <2>1. IsLongest(weighted[v], Asked(v)) BY <1>0, <1>2, <1>11 DEF MemoInv
  <2>2. weighted[v] = w
    BY <1>0, <1>2, <1>5, <1>6, <1>7, <2>1 DEF IsLongest
  <2>3. weighted' = weighted BY <1>0, <1>2, <1>5, <2>2
  <2>4. \A f \in Function : depth'[f] > 0 <=> depth[f] > 0
    BY <1>9, <1>10, <1>11 DEF Known
  <2>5. MemoInv'
    <3>1. \A f \in Function : Known(f)' = Known(f) BY <2>4 DEF Known
    <3>2. \A f \in Function :
             /\ Successors(prog, f)' = Successors(prog, f)
             /\ IsLongest(weighted[f], Asked(f))' = IsLongest(weighted[f], Asked(f))
      BY <1>5, <2>3 DEF Asked, Successors, Recorded, Bridge, Crosses, IsLongest
    <3>3. \A f \in Function : (depth[f] > 0 <=> weighted[f] > 0)'
      BY <1>0, <2>3, <2>4 DEF MemoInv
    <3>4. \A f \in Function : Successors(prog, f) \subseteq Function
      BY DEF Successors
    <3> QED BY <1>0, <3>1, <3>2, <3>3, <3>4 DEF MemoInv
  <2> QED BY <1>3, <1>8, <1>9, <2>4, <2>5 DEF Known, v
<1>12. CASE ~Known(v)
  <2>1. \A f \in Function : f # v /\ Known(f) => v \notin Successors(prog, f)
    BY <1>0, <1>2, <1>12 DEF MemoInv
  <2>2. v \notin Successors(prog, v) BY <1>4, <1>12
  <2>3. ASSUME NEW f \in Function, depth'[f] > 0
        PROVE  /\ \A g \in Successors(prog, f) : depth'[g] > 0
               /\ IsLongest(weighted'[f],
                    {1 + Bridge(prog, f, g) + weighted'[g] : g \in Successors(prog, f)})
    <3>1. CASE f = v
      <4>1. \A g \in Successors(prog, f) :
               g \in Function /\ depth'[g] > 0 /\ weighted'[g] = weighted[g]
        BY <1>4, <1>10, <2>2, <3>1 DEF Known
      <4>2. {1 + Bridge(prog, f, g) + weighted'[g] : g \in Successors(prog, f)} = Asked(f)
        BY <4>1 DEF Asked
      <4> QED BY <1>5, <1>9, <3>1, <4>1, <4>2
    <3>2. CASE f # v
      <4>1. Known(f) BY <1>10, <2>3, <3>2 DEF Known
      <4>2. \A g \in Successors(prog, f) :
               g \in Function /\ depth'[g] > 0 /\ weighted'[g] = weighted[g]
        BY <1>0, <1>10, <2>1, <3>2, <4>1 DEF MemoInv, Known, Successors
      <4>3. {1 + Bridge(prog, f, g) + weighted'[g] : g \in Successors(prog, f)} = Asked(f)
        BY <4>2 DEF Asked
      <4> QED BY <1>0, <1>10, <3>2, <4>1, <4>2, <4>3 DEF MemoInv
    <3> QED BY <3>1, <3>2
  <2>4. \A f \in Function : depth'[f] > 0 <=> weighted'[f] > 0
    BY <1>0, <1>7, <1>9, <1>10 DEF MemoInv
  <2>5. MemoInv'
    BY <1>5, <2>3, <2>4
       DEF MemoInv, Known, Asked, Successors, Recorded, Bridge, Crosses
  <2>6. \A f \in Function : Known(f) => depth'[f] > 0
    BY <1>10, <1>12 DEF Known
  <2> QED BY <1>3, <1>8, <1>9, <2>5, <2>6 DEF v
<1> QED BY <1>11, <1>12

\* The memo is read through the program and the two depth arrays alone.
LEMMA SameMemo ==
    ASSUME UNCHANGED <<prog, depth, weighted>>, MemoInv
    PROVE  MemoInv'
BY DEF MemoInv, Asked, Successors, Recorded, Bridge, Crosses, IsLongest, Known

LEMMA SameRequired ==
    ASSUME UNCHANGED <<prog, depth, weighted>>
    PROVE  Required' = Required
BY DEF Required, MainWeighted, MainDepth, StartupBytes

\* The steps of the linker.
LEMMA LinkStepKeepsInv ==
    ASSUME StackInv, Enforce \/ (\E g \in Function : Descend(g)) \/ Finish \/ Reserve
    PROVE  StackInv'
<1>0. /\ StackTypeOK /\ MemoInv /\ MainVisited /\ (Accounted(prog) => FramesInv)
      /\ prog \in Program /\ prog.main \in Function
  BY ProgramFacts DEF StackInv, StackTypeOK
<1>1. CASE Enforce
  <2>0. <<prog.main>> \in Seq(Function) BY <1>0
  <2>1. StackTypeOK' BY <1>0, <1>1, <2>0 DEF Enforce, StackTypeOK
  <2>2. MemoInv' BY <1>0, <1>1, SameMemo DEF Enforce
  <2>3. MainVisited' BY <1>0, <1>1 DEF Enforce, MainVisited
  <2>4. FramesInv => FramesInv'
    BY <1>1 DEF Enforce, FramesInv
  <2>5. Accounted(prog)' = Accounted(prog) BY <1>1 DEF Enforce, Accounted
  <2> QED BY <1>0, <2>1, <2>2, <2>3, <2>4, <2>5 DEF StackInv
<1>2. ASSUME NEW g \in Function, Descend(g) PROVE StackInv'
  <2>1. path' \in Seq(Function) /\ path' # <<>> /\ path'[1] = path[1]
    BY <1>0, <1>2 DEF Descend, StackTypeOK
  <2>2. StackTypeOK' BY <1>0, <1>2, <2>1 DEF Descend, StackTypeOK
  <2>3. MemoInv' BY <1>0, <1>2, SameMemo DEF Descend
  <2>4. MainVisited'
    BY <1>0, <1>2, <2>1 DEF Descend, MainVisited, Known
  <2>5. FramesInv => FramesInv'
    BY <1>2 DEF Descend, FramesInv
  <2>6. Accounted(prog)' = Accounted(prog) BY <1>2 DEF Descend, Accounted
  <2> QED BY <1>0, <2>2, <2>3, <2>4, <2>5, <2>6 DEF StackInv
<1>3. CASE Finish
  <2>1. UNCHANGED <<prog, status, reserved, frames, transient>> /\ status = "depth"
    BY <1>3 DEF Finish
  <2>2. StackTypeOK' BY <1>0, <1>3, <2>1, FinishKeepsMemo DEF StackInv, StackTypeOK
  <2>3. MemoInv' BY <1>3, FinishKeepsMemo
  <2>4. Known(prog.main)' \/ (path' # <<>> /\ path'[1] = prog.main)
    <3>1. CASE Known(prog.main)
      BY <1>0, <1>3, <2>1, <3>1, FinishKeepsMemo DEF Known
    <3>2. CASE path # <<>> /\ path[1] = prog.main
      <4>1. path \in Seq(Function) /\ Len(path) \in Nat /\ Len(path) > 0
        <5>1. path \in Seq(Function) BY <1>0 DEF StackTypeOK
        <5>2. Len(path) \in DOMAIN path BY <3>2, <5>1
        <5> QED BY <5>1, <5>2
      <4>2. CASE Len(path) = 1
        <5>1. Visiting = prog.main BY <3>2, <4>2 DEF Visiting
        <5> QED BY <1>3, <2>1, <5>1, FinishKeepsMemo DEF Known
      <4>3. CASE Len(path) > 1
        <5>1. \A k \in 1..(Len(path) - 1) : path[k] \in Function BY <4>1
        <5>2. /\ Len(path') = Len(path) - 1 /\ path' \in Seq(Function)
              /\ \A k \in 1..(Len(path) - 1) : path'[k] = path[k]
          BY <1>3, <4>1, <4>3, <5>1, SubSeqProperties DEF Finish
        <5>3. path'[1] = prog.main BY <3>2, <4>1, <4>3, <5>2
        <5>4. path' # <<>> BY <4>1, <4>3, <5>2
        <5> QED BY <5>3, <5>4, Zenon
      <4>4. Len(path) = 1 \/ Len(path) > 1 BY <4>1, OneOrMore, Zenon
      <4> QED BY <4>2, <4>3, <4>4, Zenon
    <3> QED BY <1>0, <2>1, <3>1, <3>2 DEF MainVisited
  <2>5. MainVisited' BY <1>0, <2>1, <2>4 DEF MainVisited
  <2>6. FramesInv => FramesInv' BY <2>1 DEF FramesInv
  <2>7. Accounted(prog)' = Accounted(prog) BY <2>1 DEF Accounted
  <2> QED BY <1>0, <2>2, <2>3, <2>5, <2>6, <2>7 DEF StackInv
<1>4. CASE Reserve
  <2>1. UNCHANGED <<prog, path, depth, weighted, frames, transient>>
        /\ status = "depth" /\ path = <<>>
    BY <1>4 DEF Reserve
  <2>2. Known(prog.main) BY <1>0, <2>1 DEF MainVisited
  <2>3. Required \in Nat
    <3>1. weighted[prog.main] \in Nat /\ weighted[prog.main] > 0
          /\ depth[prog.main] \in Nat /\ depth[prog.main] > 0
      BY <1>0, <2>2 DEF MemoInv, Known, StackTypeOK
    <3> QED BY <1>0, <3>1, ProgramFacts DEF Required, MainWeighted, MainDepth, StartupBytes
  <2>4. StackTypeOK'
    <3>1. reserved' \in 0..RegionSize
      <4>1. CASE FitsRegion
        <5>1. reserved' = Required BY <1>4, <4>1 DEF Reserve
        <5>2. Required <= RegionSize BY <4>1 DEF FitsRegion
        <5> QED BY <2>3, <5>1, <5>2, StackRegionAssumption
      <4>2. CASE ~FitsRegion BY <1>0, <1>4, <4>2 DEF Reserve, StackTypeOK
      <4> QED BY <4>1, <4>2
    <3>2. status' \in {"startup", "too small"} BY <1>4 DEF Reserve
    <3> QED BY <1>0, <2>1, <3>1, <3>2 DEF StackTypeOK
  <2>5. MemoInv' BY <1>0, <2>1, SameMemo
  <2>6. MainVisited'
    BY <1>0, <1>4, <2>1, <2>2, SameRequired DEF Reserve, MainVisited, Known
  <2>7. FramesInv => FramesInv'
    BY <1>0, <1>4, <2>1 DEF Reserve, MainVisited, FramesInv
  <2>8. Accounted(prog)' = Accounted(prog) BY <2>1 DEF Accounted
  <2> QED BY <1>0, <2>4, <2>5, <2>6, <2>7, <2>8 DEF StackInv
<1> QED BY <1>1, <1>2, <1>3, <1>4

-----------------------------------------------------------------------------
\* The top frame.
LEMMA TopFrame ==
    ASSUME frames \in Seq(Frame), frames # <<>>
    PROVE  /\ Len(frames) \in DOMAIN frames /\ Len(frames) \in Nat /\ Len(frames) > 0
           /\ Running \in Function /\ FrameBytes \in Nat
           /\ FrameBytes = frames[Len(frames)].used
           /\ DOMAIN frames = 1..Len(frames)
<1>1. Len(frames) \in DOMAIN frames /\ Len(frames) \in Nat /\ DOMAIN frames = 1..Len(frames)
  OBVIOUS
<1>2. frames[Len(frames)] \in Frame BY <1>1
<1> QED BY <1>1, <1>2 DEF Running, FrameBytes, Frame

\* Entering a function appends one frame.
LEMMA EnterType ==
    ASSUME frames \in Seq(Frame), NEW f \in Function, NEW b \in Nat, Enter(f, b)
    PROVE  /\ frames' \in Seq(Frame) /\ frames' # <<>>
           /\ Len(frames') = Len(frames) + 1 /\ Len(frames) \in Nat
           /\ DOMAIN frames' = 1..(Len(frames) + 1) /\ DOMAIN frames = 1..Len(frames)
           /\ frames'[Len(frames) + 1] = [fn |-> f, used |-> FrameBytes + b]
           /\ \A k \in DOMAIN frames : frames'[k] = frames[k]
           /\ FrameBytes + b \in Nat
<1>1. FrameBytes \in Nat
  <2>1. CASE frames = <<>> BY <2>1 DEF FrameBytes
  <2>2. CASE frames # <<>> BY <2>2, TopFrame
  <2> QED BY <2>1, <2>2
<1>2. [fn |-> f, used |-> FrameBytes + b] \in Frame BY <1>1 DEF Frame
<1> DEFINE fr == [fn |-> f, used |-> FrameBytes + b]
<1>3. frames' = Append(frames, fr) /\ fr \in Frame BY <1>2 DEF Enter
<1> HIDE DEF fr
<1>4. /\ frames' \in Seq(Frame) /\ frames' # <<>>
      /\ Len(frames') = Len(frames) + 1 /\ Len(frames) \in Nat
      /\ DOMAIN frames' = 1..(Len(frames) + 1) /\ DOMAIN frames = 1..Len(frames)
      /\ frames'[Len(frames) + 1] = fr
      /\ \A k \in DOMAIN frames : frames'[k] = frames[k]
  BY <1>3
<1> QED BY <1>1, <1>4 DEF fr

\* Startup: the copy loop, initializers, main.
LEMMA StartupKeepsInv ==
    ASSUME StackInv, StartupCopy \/ (\E f \in Function : InitCall(f)) \/ TailMain
    PROVE  StackInv'
<1>0. /\ StackTypeOK /\ MemoInv /\ MainVisited /\ (Accounted(prog) => FramesInv)
      /\ prog \in Program /\ prog.main \in Function /\ frames \in Seq(Frame)
  BY ProgramFacts DEF StackInv, StackTypeOK
<1>1. /\ UNCHANGED <<prog, path, depth, weighted, reserved>>
      /\ status = "startup" /\ frames = <<>> /\ transient = 0
      /\ status' \in {"startup", "run"}
  BY DEF StartupCopy, InitCall, TailMain, linkVars
<1>2. MemoInv' BY <1>0, <1>1, SameMemo
<1>3. MainVisited'
  BY <1>0, <1>1, SameRequired DEF MainVisited, Known
<1>4. Accounted(prog)' = Accounted(prog) BY <1>1 DEF Accounted
<1>5. CASE StartupCopy
  <2>1. StackTypeOK' BY <1>0, <1>1, <1>5 DEF StartupCopy, StackTypeOK
  <2>2. FramesInv' BY <1>1, <1>5 DEF StartupCopy, FramesInv
  <2> QED BY <1>2, <1>3, <2>1, <2>2 DEF StackInv
<1>6. ASSUME NEW f \in Function, InitCall(f) PROVE StackInv'
  <2>1. Enter(f, 4) /\ f \in prog.init /\ UNCHANGED <<status, transient>>
    BY <1>6 DEF InitCall
  <2>2. FrameBytes = 0 /\ Len(frames) = 0 BY <1>1 DEF FrameBytes
  <2>3. frames' \in Seq(Frame) /\ Len(frames') = 1 /\ frames'[1] = [fn |-> f, used |-> 4]
    BY <1>0, <2>1, <2>2, EnterType
  <2>4. StackTypeOK' BY <1>0, <1>1, <2>1, <2>3 DEF StackTypeOK
  <2>5. FramesInv' BY <1>1, <2>1, <2>3 DEF FramesInv, StartupFrame
  <2> QED BY <1>2, <1>3, <2>4, <2>5 DEF StackInv
<1>7. CASE TailMain
  <2>1. Enter(prog.main, 0) /\ status' = "run" /\ UNCHANGED transient
    BY <1>7 DEF TailMain
  <2>2. FrameBytes = 0 /\ Len(frames) = 0 BY <1>1 DEF FrameBytes
  <2>3. /\ frames' \in Seq(Frame) /\ DOMAIN frames' = {1}
        /\ frames'[1] = [fn |-> prog.main, used |-> 0]
    BY <1>0, <2>1, <2>2, EnterType
  <2>4. StackTypeOK' BY <1>0, <1>1, <2>1, <2>3 DEF StackTypeOK
  <2>5. InBudget(frames[1])'
    BY <1>0, <1>1, <2>3 DEF InBudget, MainVisited, Known, StackTypeOK
  <2>6. FramesInv' BY <1>1, <2>1, <2>3, <2>5 DEF FramesInv
  <2> QED BY <1>2, <1>3, <2>4, <2>6 DEF StackInv
<1> QED BY <1>5, <1>6, <1>7

\* A compiled function calls another one.
LEMMA CallKeepsInv ==
    ASSUME StackInv, NEW g \in Function, Call(g)
    PROVE  StackInv'
<1>0. /\ StackTypeOK /\ MemoInv /\ MainVisited /\ (Accounted(prog) => FramesInv)
      /\ prog \in Program /\ prog.main \in Function /\ frames \in Seq(Frame)
      /\ weighted \in [Function -> Nat]
  BY ProgramFacts DEF StackInv, StackTypeOK
<1>1. /\ UNCHANGED <<prog, status, path, depth, weighted, reserved, transient>>
      /\ frames # <<>> /\ transient = 0 /\ <<Running, g>> \in prog.call
      /\ Enter(g, CallBytes(prog, Running, g))
  BY DEF Call, linkVars
<1>2. CallBytes(prog, Running, g) \in Nat BY DEF CallBytes
<1> DEFINE fr == [fn |-> g, used |-> FrameBytes + CallBytes(prog, Running, g)]
<1>3. /\ frames' \in Seq(Frame)
      /\ DOMAIN frames' = 1..(Len(frames) + 1) /\ DOMAIN frames = 1..Len(frames)
      /\ frames'[Len(frames) + 1] = fr
      /\ \A k \in DOMAIN frames : frames'[k] = frames[k]
  BY <1>0, <1>1, <1>2, EnterType
<1>4. StackTypeOK' BY <1>0, <1>1, <1>3 DEF StackTypeOK
<1>5. MemoInv' BY <1>0, <1>1, SameMemo
<1>6. MainVisited' BY <1>0, <1>1, SameRequired DEF MainVisited, Known
<1>7. ASSUME Accounted(prog) PROVE FramesInv'
  <2>1. FramesInv /\ Len(frames) \in DOMAIN frames /\ Len(frames) \in Nat
        /\ Running \in Function /\ FrameBytes \in Nat
        /\ FrameBytes = frames[Len(frames)].used
    BY <1>0, <1>1, <1>7, TopFrame
  <2>2. Running \notin prog.init /\ <<Running, g>> \in Recorded(prog)
    BY <1>1, <1>7 DEF Accounted, Recorded
  <2>3. status = "run"
    BY <1>0, <1>1, <2>1, <2>2 DEF FramesInv, MainVisited, StartupFrame, Running
  <2>4. /\ Known(Running)
        /\ FrameBytes + 2 * weighted[Running] <= 2 * weighted[prog.main]
    BY <2>1, <2>3 DEF FramesInv, InBudget, Running
  <2>5. g \in Successors(prog, Running) BY <2>2 DEF Successors
  <2>6. /\ Known(g)
        /\ IsLongest(weighted[Running], Asked(Running))
    BY <1>0, <2>1, <2>4, <2>5 DEF MemoInv
  <2>7. 1 + Bridge(prog, Running, g) + weighted[g] <= weighted[Running]
    BY <2>5, <2>6 DEF IsLongest, Asked
  <2>8. CallBytes(prog, Running, g) = 2 * (1 + Bridge(prog, Running, g))
    BY <1>7 DEF CallBytes, Bridge, Accounted
  <2>9. FrameBytes + CallBytes(prog, Running, g) + 2 * weighted[g]
           <= 2 * weighted[prog.main]
    <3>1. /\ weighted[g] \in Nat /\ weighted[Running] \in Nat
          /\ weighted[prog.main] \in Nat
      BY <1>0, <2>1
    <3>2. Bridge(prog, Running, g) \in {0, 1} BY BridgeType
    <3> QED BY <1>2, <2>1, <2>4, <2>7, <2>8, <3>1, <3>2, BudgetOfCallee
  <2>10. InBudget(fr) BY <2>6, <2>9 DEF InBudget
  <2> HIDE DEF fr
  <2>11. \A k \in DOMAIN frames' : InBudget(frames'[k])
    BY <1>3, <2>1, <2>3, <2>10 DEF FramesInv
  <2>12. \A k \in DOMAIN frames' : InBudget(frames[k])'
    BY <1>1, <2>11 DEF InBudget, Known
  <2> QED BY <1>1, <2>3, <2>12 DEF FramesInv
<1>8. Accounted(prog)' = Accounted(prog) BY <1>1 DEF Accounted
<1> QED BY <1>4, <1>5, <1>6, <1>7, <1>8 DEF StackInv

\* The running function returns.
LEMMA ReturnKeepsInv ==
    ASSUME StackInv, Return
    PROVE  StackInv'
<1>0. /\ StackTypeOK /\ MemoInv /\ MainVisited /\ (Accounted(prog) => FramesInv)
      /\ prog \in Program /\ prog.main \in Function /\ frames \in Seq(Frame)
  BY ProgramFacts DEF StackInv, StackTypeOK
<1>1. /\ UNCHANGED <<prog, path, depth, weighted, reserved, transient>>
      /\ frames # <<>> /\ transient = 0
      /\ frames' = SubSeq(frames, 1, Len(frames) - 1)
      /\ status' = IF Len(frames) = 1 THEN "startup" ELSE status
  BY DEF Return, linkVars
<1>2. Len(frames) \in Nat /\ Len(frames) > 0 /\ DOMAIN frames = 1..Len(frames)
  BY <1>0, <1>1, TopFrame
<1>3. /\ frames' \in Seq(Frame) /\ Len(frames') = Len(frames) - 1
      /\ DOMAIN frames' = 1..(Len(frames) - 1)
      /\ \A k \in 1..(Len(frames) - 1) : frames'[k] = frames[k]
  <2>1. \A k \in 1..(Len(frames) - 1) : frames[k] \in Frame BY <1>0, <1>2
  <2>2. Len(frames) - 1 \in Int /\ Len(frames) - 1 >= 0 BY <1>2
  <2> QED BY <1>1, <1>2, <2>1, <2>2, SubSeqProperties
<1>4. StackTypeOK' BY <1>0, <1>1, <1>3 DEF StackTypeOK
<1>5. MemoInv' BY <1>0, <1>1, SameMemo
<1>6. MainVisited'
  BY <1>0, <1>1, SameRequired DEF MainVisited, Known
<1>7. ASSUME Accounted(prog) PROVE FramesInv'
  <2>1. FramesInv /\ status \in {"startup", "run"} BY <1>0, <1>1, <1>7 DEF MainVisited
  <2>2. CASE Len(frames) = 1
    <3>1. status' = "startup" BY <1>1, <2>2
    <3>2. Len(frames') = 0 BY <1>3, <2>2
    <3>3. frames' = <<>> BY <1>3, <3>2
    <3> QED BY <1>1, <3>1, <3>3 DEF FramesInv
  <2>3. CASE Len(frames) # 1
    <3>1. status = "run" /\ status' = "run" BY <1>1, <2>1, <2>3 DEF FramesInv
    <3>2. \A k \in DOMAIN frames' : InBudget(frames'[k])
      BY <1>2, <1>3, <2>1, <3>1 DEF FramesInv
    <3>3. \A k \in DOMAIN frames' : InBudget(frames[k])'
      BY <1>1, <3>2 DEF InBudget, Known
    <3> QED BY <1>1, <3>1, <3>3 DEF FramesInv
  <2> QED BY <2>2, <2>3
<1>8. Accounted(prog)' = Accounted(prog) BY <1>1 DEF Accounted
<1> QED BY <1>4, <1>5, <1>6, <1>7, <1>8 DEF StackInv

\* Every step.
LEMMA StackInvStep == StackInv /\ [Next]_vars => StackInv'
<1> SUFFICES ASSUME StackInv, [Next]_vars PROVE StackInv' OBVIOUS
<1>1. CASE Enforce \/ (\E g \in Function : Descend(g)) \/ Finish \/ Reserve
  BY <1>1, LinkStepKeepsInv
<1>2. CASE StartupCopy \/ (\E f \in Function : InitCall(f)) \/ TailMain
  BY <1>2, StartupKeepsInv
<1>3. CASE \E g \in Function : Call(g) BY <1>3, CallKeepsInv
<1>4. CASE Return BY <1>4, ReturnKeepsInv
<1>5. CASE HelperCall \/ TransientEnd \/ UNCHANGED vars
  <2>1. /\ UNCHANGED <<prog, status, path, depth, weighted, reserved, frames>>
        /\ transient' = transient \/ transient' = 0 \/ (HelperCall /\ transient' = 2)
    BY <1>5 DEF HelperCall, TransientEnd, vars, linkVars
  <2>2. StackTypeOK' BY <2>1 DEF StackInv, StackTypeOK
  <2>3. MemoInv' BY <2>1, SameMemo DEF StackInv
  <2>4. MainVisited' BY <2>1, SameRequired DEF StackInv, MainVisited, Known
  <2>5. Accounted(prog) => ~HelperCall BY DEF Accounted, HelperCall
  <2>6. Accounted(prog) /\ FramesInv => FramesInv'
    BY <2>1, <2>5 DEF FramesInv, InBudget, StartupFrame, Known
  <2>7. Accounted(prog)' = Accounted(prog) BY <2>1 DEF Accounted
  <2> QED BY <2>2, <2>3, <2>4, <2>6, <2>7 DEF StackInv
<1> QED BY <1>1, <1>2, <1>3, <1>4, <1>5 DEF Next

\* The inductive invariant holds in every reachable state.
THEOREM StackInvariant == Spec => []StackInv
BY StackInvInit, StackInvStep, PTL DEF Spec

\* Types, and the size check: the reserve is inside the region.
THEOREM StackTypeCorrect == Spec => []StackTypeOK
<1>1. StackInv => StackTypeOK BY DEF StackInv
<1> QED BY <1>1, StackInvariant, PTL

\* The bytes in use never exceed what the linker reserved.
LEMMA InvFits == StackInv => StackFitsReserve
<1> SUFFICES ASSUME StackInv, Accounted(prog) PROVE Used <= reserved
  BY DEF StackFitsReserve
<1>0. /\ StackTypeOK /\ MemoInv /\ MainVisited /\ FramesInv
      /\ prog \in Program /\ prog.main \in Function /\ frames \in Seq(Frame)
      /\ weighted \in [Function -> Nat] /\ depth \in [Function -> Nat]
      /\ reserved \in Nat /\ transient \in {0, 2}
  <2>1. StackTypeOK /\ MemoInv /\ MainVisited /\ FramesInv
    BY DEF StackInv
  <2>2. /\ prog \in Program /\ frames \in Seq(Frame) /\ weighted \in [Function -> Nat]
        /\ depth \in [Function -> Nat] /\ transient \in {0, 2}
        /\ reserved \in 0..RegionSize
    BY <2>1 DEF StackTypeOK
  <2>3. prog.main \in Function BY <2>2, ProgramFacts
  <2>4. reserved \in Nat BY <2>2, StackRegionAssumption
  <2> QED BY <2>1, <2>2, <2>3, <2>4
<1>1. CASE status \notin {"startup", "run"}
  BY <1>0, <1>1 DEF MainVisited, FramesInv, Used, FrameBytes
<1>2. ASSUME status \in {"startup", "run"}
      PROVE  /\ MainWeighted \in Nat /\ StartupBytes(prog) \in Nat
             /\ reserved = 2 * MainWeighted + StartupBytes(prog)
             /\ weighted[prog.main] = MainWeighted + 1
  <2>1. weighted[prog.main] \in Nat /\ weighted[prog.main] > 0
    BY <1>0, <1>2 DEF MainVisited, MemoInv, Known
  <2>2. MainWeighted \in Nat /\ weighted[prog.main] = MainWeighted + 1
    BY <2>1 DEF MainWeighted
  <2>3. StartupBytes(prog) \in Nat BY DEF StartupBytes
  <2>4. reserved = 2 * MainWeighted + 0 + StartupBytes(prog)
    BY <1>0, <1>2 DEF MainVisited, Required, Accounted
  <2> QED BY <2>2, <2>3, <2>4
<1>3. CASE status = "startup"
  <2>1. CASE frames = <<>>
    <3>1. Used = transient BY <1>0, <2>1 DEF Used, FrameBytes
    <3>2. transient <= StartupBytes(prog)
      BY <1>0, <1>2, <1>3 DEF FramesInv, StartupBytes
    <3> QED BY <1>0, <1>2, <1>3, <3>1, <3>2
  <2>2. CASE Len(frames) = 1 /\ StartupFrame(frames[1])
    <3>0. frames # <<>>
      <4>1. Len(<<>>) = 0 OBVIOUS
      <4> QED BY <2>2, <4>1
    <3>1. frames # <<>> /\ transient = 0 BY <1>0, <3>0 DEF FramesInv
    <3>2. Used = 4 BY <2>2, <3>1 DEF Used, FrameBytes, StartupFrame
    <3>3. prog.init # {} /\ prog.startup = "full"
      BY <1>0, <2>2, ProgramFacts DEF StartupFrame
    <3>4. StartupBytes(prog) = 4 BY <3>3 DEF StartupBytes
    <3> QED BY <1>2, <1>3, <3>2, <3>4
  <2> QED BY <1>0, <1>3, <2>1, <2>2 DEF FramesInv
<1>4. CASE status = "run"
  <2>1. transient = 0 BY <1>0, <1>4 DEF FramesInv
  <2>2. CASE frames = <<>> BY <1>0, <2>1, <2>2 DEF Used, FrameBytes
  <2>3. CASE frames # <<>>
    <3>1. /\ Len(frames) \in DOMAIN frames /\ Running \in Function
          /\ FrameBytes \in Nat /\ FrameBytes = frames[Len(frames)].used
      BY <1>0, <2>3, TopFrame
    <3>2. /\ Known(Running)
          /\ FrameBytes + 2 * weighted[Running] <= 2 * weighted[prog.main]
      BY <1>0, <1>4, <3>1 DEF FramesInv, InBudget, Running
    <3>3. weighted[Running] \in Nat /\ weighted[Running] > 0
      BY <1>0, <3>1, <3>2 DEF MemoInv, Known
    <3>4. Used = FrameBytes BY <2>1, <3>1 DEF Used
    <3> QED BY <1>2, <1>4, <3>1, <3>2, <3>3, <3>4
  <2> QED BY <2>2, <2>3
<1> QED BY <1>1, <1>3, <1>4

\* However deep the program nests its calls and whichever banks it crosses, the
\* hardware stack stays above the variables.
THEOREM StackFitsReserveHolds == Spec => []StackFitsReserve
BY StackInvariant, InvFits, PTL
=============================================================================
