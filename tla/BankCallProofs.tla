---------------------------- MODULE BankCallProofs ----------------------------
(***************************************************************************)
(* Code is fetched from the bank that holds it, and calls behave as calls, *)
(* for every program on every kind of mapper.                              *)
(*                                                                         *)
(* The stack has a shape: a descriptor lies between the caller's return    *)
(* address and the return to the trampoline, a return to an entry lies on  *)
(* that of its caller (StackShape), and what is on top tells how far a     *)
(* switch is (PcShape).  That alone makes calls calls.                     *)
(*                                                                         *)
(* Each descriptor on the stack, and each return to an entry, names the    *)
(* mapping that all the code between it and the one below it runs in, and  *)
(* what the mapper shows now, or will at the end of the switch in          *)
(* progress, suits the code above the topmost (MappingInv).                *)
(***************************************************************************)
EXTENDS BankCall, FiniteSetTheorems, SequenceTheorems, TLAPS

Step == {"reset", "body", "payload", "bankcall", "switch", "switch2", "jump", "bankreturn",
         "restore", "restore2", "finish", "entry", "entryreturn"}
Address == [at : Step, win : Window, fn : Function]
Entries == Address \cup [at : {"source"}, byte : 0..NoSwitch]

BankCallTypeOK ==
    /\ prog \in Program /\ FitsCorridor(prog) /\ Relocates(prog)
    /\ map \in [Window -> Nat]
    /\ latch \in (0..3) \X Nat
    /\ shadow \in 0..NoSwitch
    /\ pending \in 0..NoSwitch
    /\ pc \in Address
    /\ stack \in Seq(Entries)
    /\ ptr0 \in Function \cup {NoResult}
    /\ x \in 0..NoSwitch
    /\ result \in Function \cup {NoResult}

Home(f) == HomeWindow(prog, prog.bank[f])
Desc(f) == Descriptor(prog, prog.bank[f])

Switching == pc.at \in {"switch", "switch2", "jump"}
Restoring == pc.at \in {"restore", "restore2", "finish"}

\* What lies below and above an entry of the stack.
EntryShape(i) ==
    LET e == stack[i] IN
    /\ e.at \in {"payload", "body", "source", "bankreturn", "entryreturn"}
    /\ e.at = "payload" => i = Len(stack) /\ pc.at = "bankcall"
    /\ e.at = "source" =>
          /\ i > 1 /\ stack[i - 1].at = "body"
          /\ IF i = Len(stack) THEN pc.at = "bankreturn" /\ pc.fn = stack[i - 1].fn
             ELSE stack[i + 1].at = "bankreturn"
    /\ e.at = "bankreturn" =>
          i > 2 /\ stack[i - 1].at = "source" /\ stack[i - 2].fn = e.fn
    /\ e.at = "entryreturn" =>
          i > 1 /\ stack[i - 1].at = "body" /\ stack[i - 1].fn = e.fn
          /\ Crossing(prog) # {}
    /\ e.at \in {"payload", "body", "entryreturn"} => e.win = Home(e.fn)
    /\ e.at = "bankreturn" =>
          IF prog.family = "fixedRam" /\ ~(i = Len(stack) /\ pc.at = "switch")
          THEN e.win = 1 ELSE e.win = Home(e.fn)
    /\ e.at \in {"payload", "source", "bankreturn"} => prog.bundle # {}
    /\ i = 1 => e.fn = prog.main
StackShape == \A i \in DOMAIN stack : EntryShape(i)

\* What is on top of the stack at each step.
PcShape ==
    /\ pc.at # "payload"
    /\ pc.at \in {"reset", "body"} =>
          (stack = <<>> => pc.fn = prog.main)
    /\ pc.at = "reset" => stack = <<>>
    /\ pc.at \notin {"reset", "body"} => stack # <<>>
    /\ pc.at = "body" /\ stack # <<>> => Top.at # "source"
    /\ pc.at \in {"body", "entryreturn"} => pc.win = Home(pc.fn)
    /\ pc.at = "bankcall" => Top.at = "payload" /\ pc.win = Top.win
    /\ Switching => /\ Top.at = "bankreturn" /\ ptr0 = pc.fn
                    /\ pc.win = HomeWindow(prog, StartupBank(prog))
    /\ pc.at = "bankreturn" => Top.at = "source"
    /\ Restoring => Top.at = "body" /\ Top.fn = pc.fn
    /\ pc.at \in {"bankreturn"} \/ Restoring =>
          IF prog.family = "fixedRam" THEN pc.win = 1 ELSE pc.win = Home(pc.fn)
    /\ pc.at = "entry" => Top.at = "entryreturn" /\ Crossing(prog) # {}
                       /\ pc.win = HomeWindow(prog, StartupBank(prog))
    /\ pc.at = "entryreturn" => Top.at = "body" /\ Top.fn = pc.fn /\ Crossing(prog) # {}
    /\ pc.at \in {"bankcall", "bankreturn"} \/ Switching \/ Restoring => prog.bundle # {}

-----------------------------------------------------------------------------
\* Code of f may run in mapping s.
Shows(p, s, f) ==
    IF p.family = "pair" THEN Descriptor(p, p.bank[f]) \in {NoSwitch, s}
    ELSE Descriptor(p, p.bank[f]) = s

\* The mapper shows mapping s.
MapIs(s) ==
    /\ Single(prog) => s \in Bank /\ map = All(s)
    /\ Fixed(prog) => /\ map[1] = NBank - 1
                      /\ s # NoSwitch => s \in Bank /\ map[0] = s
                      /\ \A w \in Window : map[w] \in Bank \/ (w = 0 /\ prog.family = "fixedRam")
    /\ prog.family = "pair" => /\ map[0] = 2 * s /\ map[1] = 2 * s + 1
                               /\ map[2] = 6 /\ map[3] = 7
                               /\ shadow = s /\ s \in 0..2

\* The switch in progress leads to mapping s.
Encodes(s) ==
    /\ prog.family = "advance" =>
          \E b \in Bank : /\ MapIs(b) /\ s \in Bank
                          /\ s = (b + (IF x = 0 THEN 256 ELSE x)) % NBank
    /\ prog.family = "pair" =>
          /\ MapIs(shadow) /\ s \in 0..2
          /\ x = s \/ (x = NoSwitch /\ s = shadow /\ pc.at = "switch")
    /\ prog.family \notin {"advance", "pair"} =>
          /\ x = s
          /\ \E t \in 0..NoSwitch : MapIs(t)
          /\ Single(prog) => s \in Bank
          /\ Fixed(prog) => s \in (0..(NBank - 2)) \cup {NoSwitch}
HalfDone(s) ==
    /\ prog.family \in {"staged", "pair"}
    /\ prog.family = "staged" =>
          /\ latch[1] + 4 * latch[2] = s /\ s \in Bank
          /\ \E t \in Bank : MapIs(t)
    /\ prog.family = "pair" =>
          /\ x = s /\ shadow = s /\ s \in 0..2 /\ map[0] = 2 * s
          /\ map[1] \in Bank /\ map[2] = 6 /\ map[3] = 7
Arrives(s) ==
    IF pending = NoSwitch THEN MapIs(s)
    ELSE prog.family = "delayed" /\ pending = s /\ s \in Bank /\ \E t \in Bank : MapIs(t)

\* What the mapper does, now that the code above the topmost descriptor is to
\* run in mapping s.
Now(s) ==
    /\ pending # NoSwitch => pc.at \in {"jump", "finish"}
    /\ pc.at = "body" => MapIs(s) /\ Shows(prog, s, pc.fn)
    /\ pc.at \in {"bankcall", "bankreturn", "entry"} => MapIs(s)
    /\ pc.at \in {"switch", "restore"} => Encodes(s)
    /\ pc.at \in {"switch2", "restore2"} => HalfDone(s)
    /\ pc.at \in {"jump", "finish"} => Arrives(s)
    /\ Switching => Shows(prog, s, pc.fn)
    /\ pc.at = "entryreturn" => s = Desc(pc.fn) /\ \E t \in Bank : MapIs(t)
    /\ pc.at = "reset" =>
          /\ Single(prog) => \E t \in Bank : MapIs(t)
          /\ prog.family = "staged" => map = All(0)
          /\ prog.family = "pair" => map[0] = 4 /\ map[1] = 5 /\ map[2] = 6 /\ map[3] = 7
          /\ Fixed(prog) => MapIs(NoSwitch)

\* The entries that lie in a function, and those that name a mapping.
IsCode(e) == e.at \in {"payload", "body"}
IsMark(e) == e.at \in {"source", "entryreturn"}
Marks(q) == {i \in DOMAIN q : IsMark(q[i])}
Level(p, e) == IF e.at = "source" THEN e.byte ELSE Descriptor(p, p.bank[e.fn])

\* What must be mapped when the stack q is popped down to i.
Suits(p, q, i, s) ==
    IF i = 0 THEN Shows(p, s, p.main) /\ (p.family = "pair" => s = 2)
    ELSE IsCode(q[i]) => Shows(p, s, q[i].fn)

\* Mapping s suits everything above the topmost mark, and every mark what lies
\* between it and the one below.
Levelled(p, q, s) ==
    \A i \in 0..Len(q) : (\A k \in Marks(q) : k <= i) => Suits(p, q, i, s)
Levels(p, q) ==
    /\ \A i \in 0..Len(q), j \in Marks(q) :
          i < j /\ (\A k \in Marks(q) : k <= i \/ j <= k) => Suits(p, q, i, Level(p, q[j]))
    /\ p.family = "pair" =>
          \A j \in Marks(q) : q[j].at = "source" => q[j].byte \in 0..2

MappingInv ==
    Bridged(prog) /\ prog.family # "stackbus" =>
        /\ Levels(prog, stack)
        /\ \E s \in 0..NoSwitch : Now(s) /\ Levelled(prog, stack, s)

\* FE switches at the calls of main alone.
StackBusInv ==
    prog.family = "stackbus" =>
        /\ pc.at \in {"reset", "body"}
        /\ pending = NoSwitch
        /\ pc.at = "body" => map = All(prog.bank[pc.fn])
        /\ stack # <<>> => pc.fn # prog.main
        /\ \A i \in 2..Len(stack) : prog.bank[stack[i].fn] = map[0] /\ stack[i].fn # prog.main

CallInv == BankCallTypeOK /\ StackShape /\ PcShape
BankCallInv == CallInv /\ MappingInv /\ StackBusInv

-----------------------------------------------------------------------------
(* Operators. *)

LEMMA ProgramFacts ==
    ASSUME prog \in Program
    PROVE  /\ prog.family \in Family
           /\ prog.main \in Function
           /\ \A f \in Function : prog.bank[f] \in Bank
           /\ prog.call \in SUBSET (Function \X Function)
           /\ prog.bundle \subseteq prog.call
           /\ prog.ram \subseteq Function
           /\ prog.bank[prog.main] = StartupBank(prog)
           /\ \A f \in prog.ram : prog.family = "fixedRam" /\ prog.bank[f] = NBank - 1
           /\ \A e \in prog.call : /\ e[1] \in Function /\ e[2] \in Function
                                   /\ e[2] # prog.main
                                   /\ e[2] \in prog.ram => e \in prog.bundle
           /\ prog.family = "pair" => NBank = 8
           /\ prog.family \in {"delayed", "stackbus"} =>
                 \A f \in Function : prog.bank[f] \in {0, 1}
           /\ prog.family = "stackbus" => prog.bundle = {}
<1>1. prog \in ProgramType BY BankCallAssumption
<1>2. /\ prog.family \in Family /\ prog.main \in Function
      /\ prog.bank \in [Function -> Bank]
      /\ prog.call \in SUBSET (Function \X Function)
      /\ prog.ram \in SUBSET Function
  BY <1>1 DEF ProgramType
<1>3. \A e \in prog.call : e[1] \in Function /\ e[2] \in Function BY <1>2
<1> QED BY <1>2, <1>3, BankCallAssumption

LEMMA BankFacts ==
    /\ NBank \in Nat /\ NBank >= 2 /\ NBank <= 255 /\ NoSwitch = 255
    /\ \A b \in Bank : b \in Nat /\ b < NBank
    /\ Ram \notin Bank /\ 0 \in Bank /\ 1 \in Bank /\ NBank - 1 \in Bank
BY BankCallAssumption DEF NoSwitch, Bank, Ram

LEMMA Remainder ==
    ASSUME NEW k \in Int
    PROVE  k % NBank \in Bank
BY BankFacts DEF Bank

\* Counting banks: around, and 256 is a number of times around.
LEMMA Modulus ==
    ASSUME prog \in Program, prog.family = "advance"
    PROVE  /\ \A b \in Bank : (b + 256) % NBank = b
           /\ \A b \in Bank, k \in Int : (((b + 1) % NBank) + k) % NBank = (b + 1 + k) % NBank
           /\ \A b \in Bank : b % NBank = b
<1>1. NBank \in {2, 4, 8, 16, 32, 64, 128} BY BankCallAssumption
<1>2. CASE NBank = 2 BY <1>2 DEF Bank
<1>3. CASE NBank = 4 BY <1>3 DEF Bank
<1>4. CASE NBank = 8 BY <1>4 DEF Bank
<1>5. CASE NBank = 16 BY <1>5 DEF Bank
<1>6. CASE NBank = 32 BY <1>6 DEF Bank
<1>7. CASE NBank = 64 BY <1>7 DEF Bank
<1>8. CASE NBank = 128 BY <1>8 DEF Bank
<1> QED BY <1>1, <1>2, <1>3, <1>4, <1>5, <1>6, <1>7, <1>8

LEMMA Around ==
    ASSUME prog \in Program, prog.family = "advance",
           NEW b \in Bank, NEW c \in Bank, NEW y, y = (c - b) % NBank
    PROVE  (b + y) % NBank = c
<1>1. NBank \in {2, 4, 8, 16, 32, 64, 128} BY BankCallAssumption
<1>2. CASE NBank = 2 BY <1>2 DEF Bank
<1>3. CASE NBank = 4 BY <1>3 DEF Bank
<1>4. CASE NBank = 8 BY <1>4 DEF Bank
<1>5. CASE NBank = 16 BY <1>5 DEF Bank
<1>6. CASE NBank = 32 BY <1>6 DEF Bank
<1>7. CASE NBank = 64 BY <1>7 DEF Bank
<1>8. CASE NBank = 128 BY <1>8 DEF Bank
<1> QED BY <1>1, <1>2, <1>3, <1>4, <1>5, <1>6, <1>7, <1>8

LEMMA WindowFacts ==
    ASSUME prog \in Program, NEW b \in Bank
    PROVE  /\ HomeWindow(prog, b) \in Window
           /\ Descriptor(prog, b) \in 0..NoSwitch
           /\ StartupBank(prog) \in Bank
<1>1. prog.family \in Family /\ (prog.family = "pair" => NBank = 8) BY ProgramFacts
<1>2. b \in Nat /\ b < NBank BY BankFacts
<1>3. HomeWindow(prog, b) \in Window
  BY <1>1, <1>2 DEF HomeWindow, Window, Single, Fixed, Family
<1>4. Descriptor(prog, b) \in 0..NoSwitch
  BY <1>1, <1>2, BankFacts DEF Descriptor, Single, Fixed, Family
<1>5. StartupBank(prog) \in Bank BY BankFacts DEF StartupBank
<1> QED BY <1>3, <1>4, <1>5

LEMMA HomeFacts ==
    ASSUME prog \in Program, NEW f \in Function
    PROVE  Home(f) \in Window /\ Desc(f) \in 0..NoSwitch /\ Body(f) \in Address
<1>1. prog.bank[f] \in Bank BY ProgramFacts
<1>2. HomeWindow(prog, prog.bank[f]) \in Window /\ Descriptor(prog, prog.bank[f]) \in 0..NoSwitch
  BY <1>1, WindowFacts
<1> QED BY <1>2 DEF Home, Desc, Body, At, Address, Step

LEMMA StartupFacts ==
    ASSUME prog \in Program
    PROVE  /\ StartupBank(prog) \in Bank
           /\ HomeWindow(prog, StartupBank(prog)) \in Window
           /\ Home(prog.main) = HomeWindow(prog, StartupBank(prog))
<1>1. StartupBank(prog) \in Bank BY BankFacts DEF StartupBank
<1> QED BY <1>1, WindowFacts, ProgramFacts DEF Home

LEMMA AtType ==
    ASSUME NEW s \in Step, NEW w \in Window, NEW f \in Function
    PROVE  At(s, w, f) \in Address /\ At(s, w, f).at = s /\ At(s, w, f).win = w
           /\ At(s, w, f).fn = f
BY DEF At, Address

LEMMA AddressFacts ==
    ASSUME NEW e \in Address
    PROVE  e.at \in Step /\ e.win \in Window /\ e.fn \in Function
BY DEF Address

LEMMA SavedFacts ==
    ASSUME NEW b \in 0..NoSwitch
    PROVE  Saved(b) \in Entries /\ Saved(b).at = "source" /\ Saved(b).byte = b
BY DEF Saved, Entries

LEMMA EntryFacts ==
    ASSUME NEW e \in Entries
    PROVE  /\ e.at = "source" => e.byte \in 0..NoSwitch
           /\ e.at # "source" => e \in Address
           /\ e.at \in Step \cup {"source"}
BY DEF Entries, Address, Step

LEMMA Pushed ==
    ASSUME NEW q \in Seq(Entries), NEW a \in Entries
    PROVE  /\ q \o <<a>> \in Seq(Entries)
           /\ Len(q \o <<a>>) = Len(q) + 1
           /\ DOMAIN (q \o <<a>>) = 1..(Len(q) + 1)
           /\ \A i \in 1..Len(q) : (q \o <<a>>)[i] = q[i]
           /\ (q \o <<a>>)[Len(q) + 1] = a
OBVIOUS

LEMMA PushedTwo ==
    ASSUME NEW q \in Seq(Entries), NEW a \in Entries, NEW b \in Entries
    PROVE  /\ q \o <<a, b>> \in Seq(Entries)
           /\ Len(q \o <<a, b>>) = Len(q) + 2
           /\ DOMAIN (q \o <<a, b>>) = 1..(Len(q) + 2)
           /\ \A i \in 1..Len(q) : (q \o <<a, b>>)[i] = q[i]
           /\ (q \o <<a, b>>)[Len(q) + 1] = a
           /\ (q \o <<a, b>>)[Len(q) + 2] = b
OBVIOUS

LEMMA OneLess ==
    ASSUME NEW n \in Nat \ {0}
    PROVE  \E m \in Nat : n = m + 1
<1>1. n - 1 \in Nat /\ n = (n - 1) + 1 OBVIOUS
<1> QED BY <1>1

LEMMA Popped ==
    ASSUME NEW q \in Seq(Entries), q # <<>>, NEW r, r = SubSeq(q, 1, Len(q) - 1)
    PROVE  /\ r \in Seq(Entries)
           /\ Len(r) = Len(q) - 1
           /\ DOMAIN r = 1..(Len(q) - 1)
           /\ \A i \in 1..(Len(q) - 1) : r[i] = q[i]
<1>1. Len(q) \in Nat \ {0} OBVIOUS
<1>2. PICK m \in Nat : m = Len(q) - 1 BY <1>1
<1>3. \A i \in 1..m : q[i] \in Entries BY <1>1, <1>2
<1>4. /\ r \in Seq(Entries) /\ Len(r) = (IF 1 <= m THEN m - 1 + 1 ELSE 0)
      /\ \A i \in 1..(m - 1 + 1) : r[i] = q[1 + i - 1]
  BY <1>2, <1>3, SubSeqProperties
<1>5. Len(r) = m /\ \A i \in 1..m : r[i] = q[i] BY <1>2, <1>4
<1> QED BY <1>2, <1>4, <1>5

LEMMA Replaced ==
    ASSUME NEW q \in Seq(Entries), q # <<>>, NEW a \in Entries, NEW r,
           r = [q EXCEPT ![Len(q)] = a]
    PROVE  /\ r \in Seq(Entries)
           /\ Len(r) = Len(q) /\ DOMAIN r = 1..Len(q)
           /\ \A i \in 1..(Len(q) - 1) : r[i] = q[i]
           /\ r[Len(q)] = a
<1>1. Len(q) \in 1..Len(q) OBVIOUS
<1>2. /\ r \in Seq(Entries) /\ Len(r) = Len(q)
      /\ \A j \in 1..Len(q) : r[j] = IF j = Len(q) THEN a ELSE q[j]
  BY <1>1, ExceptSeq
<1>3. DOMAIN r = 1..Len(q) BY <1>2
<1>4. \A i \in 1..(Len(q) - 1) : i \in 1..Len(q) /\ i # Len(q) BY <1>1
<1> QED BY <1>1, <1>2, <1>3, <1>4

-----------------------------------------------------------------------------
(* The shape of the stack. *)

LEMMA SameProgram ==
    ASSUME prog' = prog
    PROVE  /\ \A f : Home(f)' = Home(f) /\ Desc(f)' = Desc(f)
           /\ Crossing(prog)' = Crossing(prog) /\ Bridged(prog)' = Bridged(prog)
           /\ (FitsCorridor(prog) /\ Relocates(prog))' = (FitsCorridor(prog) /\ Relocates(prog))
           /\ HomeWindow(prog, StartupBank(prog))' = HomeWindow(prog, StartupBank(prog))
           /\ Single(prog)' = Single(prog) /\ Fixed(prog)' = Fixed(prog)
           /\ Selecting(prog)' = Selecting(prog)
           /\ \A f : Body(f)' = Body(f)
BY DEF Home, Desc, Body

\* What is on the stack and what executes.
LEMMA StackFacts ==
    ASSUME CallInv
    PROVE  /\ prog \in Program
           /\ Len(stack) \in Nat /\ DOMAIN stack = 1..Len(stack)
           /\ stack # <<>> => Len(stack) \in 1..Len(stack)
           /\ stack = <<>> => Len(stack) = 0
           /\ \A i \in 1..Len(stack) : stack[i] \in Entries /\ EntryShape(i)
           /\ pc \in Address /\ pc.fn \in Function /\ pc.win \in Window
<1>1. stack \in Seq(Entries) /\ pc \in Address /\ prog \in Program
  BY DEF CallInv, BankCallTypeOK
<1>2. Len(stack) \in Nat /\ DOMAIN stack = 1..Len(stack) BY <1>1
<1>3. stack # <<>> => Len(stack) \in 1..Len(stack) BY <1>1
<1>4. \A i \in 1..Len(stack) : stack[i] \in Entries BY <1>1
<1>5. stack = <<>> => Len(stack) = 0 BY <1>1
<1>6. \A i \in 1..Len(stack) : EntryShape(i) BY <1>2 DEF CallInv, StackShape
<1>7. pc.fn \in Function /\ pc.win \in Window BY <1>1, AddressFacts
<1> QED BY <1>1, <1>2, <1>3, <1>4, <1>5, <1>6, <1>7


\* Entries that stay, below another that stays, keep their shape.
LEMMA ShapeBelow ==
    ASSUME CallInv, prog' = prog, NEW m \in Nat, m <= Len(stack),
           stack' \in Seq(Entries), m <= Len(stack'),
           \A i \in 1..m : stack'[i] = stack[i]
    PROVE  \A i \in 1..(m - 1) : EntryShape(i)'
<1> SUFFICES ASSUME NEW i \in 1..(m - 1) PROVE EntryShape(i)'
  OBVIOUS
<1>1. /\ i \in 1..Len(stack) /\ i # Len(stack) /\ i # Len(stack')
      /\ i \in 1..m /\ i + 1 \in 1..m
      /\ i > 1 => i - 1 \in 1..m
      /\ i > 2 => i - 2 \in 1..m
  <2>1. Len(stack) \in Nat /\ Len(stack') \in Nat BY StackFacts
  <2> QED BY <2>1
<1>2. EntryShape(i) BY <1>1, StackFacts
<1> QED BY <1>1, <1>2, SameProgram DEF EntryShape

\* Something is pushed.
LEMMA PushShape ==
    ASSUME CallInv, NEW e \in Entries, stack' = stack \o <<e>>, prog' = prog
    PROVE  /\ stack' \in Seq(Entries) /\ stack' # <<>> /\ Len(stack') = Len(stack) + 1
           /\ DOMAIN stack' = 1..(Len(stack) + 1)
           /\ \A i \in 1..Len(stack) : stack'[i] = stack[i]
           /\ stack'[Len(stack) + 1] = e /\ Top' = e
           /\ \A i \in 1..(Len(stack) - 1) : EntryShape(i)'
<1>1. stack \in Seq(Entries) /\ Len(stack) \in Nat BY DEF CallInv, BankCallTypeOK
<1>2. /\ stack' \in Seq(Entries) /\ Len(stack') = Len(stack) + 1
      /\ DOMAIN stack' = 1..(Len(stack) + 1)
      /\ \A i \in 1..Len(stack) : stack'[i] = stack[i]
      /\ stack'[Len(stack) + 1] = e
  BY <1>1, Pushed
<1>3. stack' # <<>> BY <1>1, <1>2
<1>4. Top' = e BY <1>2 DEF Top
<1>5. Len(stack) <= Len(stack) /\ Len(stack) <= Len(stack') BY <1>1, <1>2
<1>6. \A i \in 1..(Len(stack) - 1) : EntryShape(i)'
  BY <1>1, <1>2, <1>5, ShapeBelow
<1> QED BY <1>2, <1>3, <1>4, <1>6

\* The top is popped.
LEMMA PopShape ==
    ASSUME CallInv, stack # <<>>, Pop(1), prog' = prog
    PROVE  /\ stack' \in Seq(Entries) /\ Len(stack') = Len(stack) - 1
           /\ DOMAIN stack' = 1..(Len(stack) - 1)
           /\ \A i \in 1..(Len(stack) - 1) : stack'[i] = stack[i]
           /\ stack' # <<>> => /\ Len(stack) - 1 \in 1..Len(stack)
                               /\ Top' = stack[Len(stack) - 1]
           /\ stack' = <<>> => Len(stack) = 1
           /\ \A i \in 1..(Len(stack) - 2) : EntryShape(i)'
           /\ Top = stack[Len(stack)]
<1>1. stack \in Seq(Entries) /\ Len(stack) \in Nat \ {0} BY DEF CallInv, BankCallTypeOK
<1>2. /\ stack' \in Seq(Entries) /\ Len(stack') = Len(stack) - 1
      /\ DOMAIN stack' = 1..(Len(stack) - 1)
      /\ \A i \in 1..(Len(stack) - 1) : stack'[i] = stack[i]
  BY <1>1, Popped DEF Pop
<1>3. stack' # <<>> => Len(stack) - 1 \in 1..Len(stack) /\ Top' = stack[Len(stack) - 1]
  BY <1>1, <1>2 DEF Top
<1>4. stack' = <<>> => Len(stack) = 1 BY <1>1, <1>2
<1>5. PICK m \in Nat : m = Len(stack) - 1 BY <1>1
<1>6. /\ m <= Len(stack) /\ m <= Len(stack') /\ \A i \in 1..m : stack'[i] = stack[i]
  BY <1>1, <1>2, <1>5
<1>7. \A i \in 1..(m - 1) : EntryShape(i)' BY <1>2, <1>6, ShapeBelow
<1>8. \A i \in 1..(Len(stack) - 2) : EntryShape(i)' BY <1>1, <1>5, <1>7
<1> QED BY <1>1, <1>2, <1>3, <1>4, <1>8 DEF Top

\* A return address is pushed and a function is entered.
LEMMA CallDirectShape ==
    ASSUME CallInv, NEW g \in Function, CallDirect(g)
    PROVE  CallInv'
<1> USE DEF CallInv
<1>1. /\ pc.at = "body" /\ UNCHANGED <<prog, latch, shadow, pending, ptr0, x>>
      /\ stack' = stack \o <<Resume>> /\ pc' = Body(g) /\ result' = NoResult
      /\ map' = StackBus(Len(stack), g)
  BY DEF CallDirect, InBody, Push
<1>2. /\ prog \in Program /\ Len(stack) \in Nat /\ pc.win = Home(pc.fn)
      /\ pc \in Address /\ pc.fn \in Function /\ pc.win \in Window
      /\ Len(stack) = 0 => pc.fn = prog.main
      /\ stack # <<>> => EntryShape(Len(stack)) /\ Top.at # "source"
  BY <1>1, StackFacts DEF PcShape
<1>3. Resume \in Entries /\ Resume.at = "body" /\ Resume.win = pc.win /\ Resume.fn = pc.fn
  BY <1>2, AtType DEF Resume, Entries, Step
<1>4. /\ stack' \in Seq(Entries) /\ Len(stack') = Len(stack) + 1 /\ stack' # <<>>
      /\ \A i \in 1..Len(stack) : stack'[i] = stack[i]
      /\ stack'[Len(stack) + 1] = Resume /\ Top' = Resume
      /\ DOMAIN stack' = 1..(Len(stack) + 1)
      /\ \A i \in 1..(Len(stack) - 1) : EntryShape(i)'
  BY <1>1, <1>3, PushShape
<1>5. pc' \in Address /\ pc'.at = "body" /\ pc'.fn = g /\ pc'.win = Home(g)
  <2>1. Home(g) \in Window BY <1>2, HomeFacts
  <2> QED BY <1>1, <2>1, AtType DEF Body, Home, Step
<1>6. BankCallTypeOK'
  <2>1. map' \in [Window -> Nat]
    <3>1. prog.bank[g] \in Nat BY <1>2, ProgramFacts, BankFacts
    <3> QED BY <1>1, <3>1 DEF StackBus, All, BankCallTypeOK
  <2> QED BY <1>1, <1>4, <1>5, <2>1, SameProgram DEF BankCallTypeOK
<1> PICK n \in Nat : n = Len(stack) BY <1>2
<1>7. EntryShape(n + 1)'
  BY <1>1, <1>2, <1>3, <1>4, <1>5, SameProgram DEF EntryShape
<1>8. n > 0 => EntryShape(n)'
  <2> SUFFICES ASSUME n > 0 PROVE EntryShape(n)' OBVIOUS
  <2>1. stack # <<>> /\ n \in 1..n /\ (n > 1 => n - 1 \in 1..n) /\ (n > 2 => n - 2 \in 1..n)
    BY <1>2
  <2>2. EntryShape(n) /\ stack[n].at # "source" BY <1>2, <2>1, StackFacts DEF Top
  <2> QED BY <1>1, <1>4, <2>1, <2>2, SameProgram DEF EntryShape
<1>9. StackShape' BY <1>4, <1>7, <1>8 DEF StackShape
<1>10. PcShape'
  BY <1>1, <1>2, <1>3, <1>4, <1>5, SameProgram DEF PcShape, Switching, Restoring
<1> QED BY <1>6, <1>9, <1>10

\* The same, with a return address before the payload.
LEMMA CallBundleShape ==
    ASSUME CallInv, NEW g \in Function, CallBundle(g)
    PROVE  CallInv'
<1> USE DEF CallInv
<1> DEFINE e == At("payload", pc.win, pc.fn)
<1>1. /\ pc.at = "body" /\ UNCHANGED <<prog, map, latch, shadow, pending, ptr0, x>>
      /\ stack' = stack \o <<e>> /\ pc' = At("bankcall", pc.win, g) /\ result' = NoResult
      /\ <<pc.fn, g>> \in prog.bundle
  BY DEF CallBundle, InBody, Push, mapperVars
<1>2. /\ prog \in Program /\ Len(stack) \in Nat /\ pc.win = Home(pc.fn)
      /\ pc \in Address /\ pc.fn \in Function /\ pc.win \in Window
      /\ Len(stack) = 0 => pc.fn = prog.main
      /\ stack # <<>> => EntryShape(Len(stack)) /\ Top.at # "source"
  BY <1>1, StackFacts DEF PcShape
<1>3. e \in Entries /\ e.at = "payload" /\ e.win = pc.win /\ e.fn = pc.fn
  BY <1>2, AtType DEF Entries, Step
<1> HIDE DEF e
<1>4. /\ stack' \in Seq(Entries) /\ Len(stack') = Len(stack) + 1 /\ stack' # <<>>
      /\ \A i \in 1..Len(stack) : stack'[i] = stack[i]
      /\ stack'[Len(stack) + 1] = e /\ Top' = e
      /\ DOMAIN stack' = 1..(Len(stack) + 1)
      /\ \A i \in 1..(Len(stack) - 1) : EntryShape(i)'
  BY <1>1, <1>3, PushShape
<1>5. pc' \in Address /\ pc'.at = "bankcall" /\ pc'.fn = g /\ pc'.win = pc.win
  BY <1>1, <1>2, AtType DEF Step
<1>6. BankCallTypeOK' BY <1>1, <1>4, <1>5, SameProgram DEF BankCallTypeOK
<1> PICK n \in Nat : n = Len(stack) BY <1>2
<1>7. EntryShape(n + 1)'
  BY <1>1, <1>2, <1>3, <1>4, <1>5, SameProgram DEF EntryShape
<1>8. n > 0 => EntryShape(n)'
  <2> SUFFICES ASSUME n > 0 PROVE EntryShape(n)' OBVIOUS
  <2>1. stack # <<>> /\ n \in 1..n /\ (n > 1 => n - 1 \in 1..n) /\ (n > 2 => n - 2 \in 1..n)
    BY <1>2
  <2>2. EntryShape(n) /\ stack[n].at # "source" BY <1>2, <2>1, StackFacts DEF Top
  <2> QED BY <1>1, <1>4, <2>1, <2>2, SameProgram DEF EntryShape
<1>9. StackShape' BY <1>4, <1>7, <1>8 DEF StackShape
<1>10. PcShape'
  BY <1>1, <1>2, <1>3, <1>4, <1>5, SameProgram DEF PcShape, Switching, Restoring
<1> QED BY <1>6, <1>9, <1>10

\* Two return addresses are pushed, the caller's and that of the entry.
LEMMA CallEntryShape ==
    ASSUME CallInv, NEW g \in Function, CallEntry(g)
    PROVE  CallInv'
<1> USE DEF CallInv
<1> DEFINE e == At("entryreturn", pc.win, pc.fn)
           w == HomeWindow(prog, StartupBank(prog))
<1>1. /\ pc.at = "body" /\ UNCHANGED <<prog, map, latch, shadow, pending, ptr0, x>>
      /\ stack' = stack \o <<Resume, e>> /\ pc' = At("entry", w, g) /\ result' = NoResult
      /\ Crossing(prog) # {}
  BY DEF CallEntry, InBody, Push, mapperVars
<1>2. /\ prog \in Program /\ Len(stack) \in Nat /\ pc.win = Home(pc.fn)
      /\ pc \in Address /\ pc.fn \in Function /\ pc.win \in Window
      /\ Len(stack) = 0 => pc.fn = prog.main
      /\ stack # <<>> => EntryShape(Len(stack)) /\ Top.at # "source"
      /\ w \in Window
  BY <1>1, StackFacts, StartupFacts DEF PcShape
<1>3. /\ e \in Entries /\ e.at = "entryreturn" /\ e.win = pc.win /\ e.fn = pc.fn
      /\ Resume \in Entries /\ Resume.at = "body" /\ Resume.win = pc.win /\ Resume.fn = pc.fn
  BY <1>2, AtType DEF Resume, Entries, Step
<1>4. pc' \in Address /\ pc'.at = "entry" /\ pc'.fn = g /\ pc'.win = w
  BY <1>1, <1>2, AtType DEF Step
<1>5. w' = w BY <1>1, SameProgram
<1> HIDE DEF e, w
<1> PICK n \in Nat : n = Len(stack) BY <1>2
<1>6. /\ stack' \in Seq(Entries) /\ Len(stack') = n + 2
      /\ \A i \in 1..n : stack'[i] = stack[i]
      /\ stack'[n + 1] = Resume /\ stack'[n + 2] = e
      /\ DOMAIN stack' = 1..(n + 2)
  BY <1>1, <1>3, PushedTwo DEF BankCallTypeOK
<1>7. Top' = e /\ stack' # <<>> BY <1>6 DEF Top
<1>8. \A i \in 1..(n - 1) : EntryShape(i)'
  <2>1. n <= Len(stack) /\ n <= Len(stack') BY <1>6
  <2> QED BY <1>1, <1>6, <2>1, ShapeBelow
<1>9. BankCallTypeOK' BY <1>1, <1>4, <1>6, SameProgram DEF BankCallTypeOK
<1>10. EntryShape(n + 1)' /\ EntryShape(n + 2)'
  BY <1>1, <1>2, <1>3, <1>4, <1>6, SameProgram DEF EntryShape
<1>11. n > 0 => EntryShape(n)'
  <2> SUFFICES ASSUME n > 0 PROVE EntryShape(n)' OBVIOUS
  <2>1. stack # <<>> /\ n \in 1..n /\ (n > 1 => n - 1 \in 1..n) /\ (n > 2 => n - 2 \in 1..n)
    BY <1>2
  <2>2. EntryShape(n) /\ stack[n].at # "source" BY <1>2, <2>1, StackFacts DEF Top
  <2> QED BY <1>1, <1>3, <1>6, <2>1, <2>2, SameProgram DEF EntryShape
<1>12. StackShape' BY <1>6, <1>8, <1>10, <1>11 DEF StackShape
<1>13. PcShape'
  BY <1>1, <1>2, <1>3, <1>4, <1>5, <1>6, <1>7, SameProgram DEF PcShape, Switching, Restoring, w
<1> QED BY <1>9, <1>12, <1>13

\* A step that leaves the stack alone.
LEMMA SameStackShape ==
    ASSUME CallInv, UNCHANGED <<prog, stack>>,
           pc.at # "bankcall", pc.at # "bankreturn", pc'.at # "switch",
           pc.at = "switch" => prog.family # "fixedRam"
    PROVE  StackShape'
<1> SUFFICES ASSUME NEW i \in DOMAIN stack PROVE EntryShape(i)' BY DEF StackShape
<1>1. EntryShape(i) BY DEF CallInv, StackShape
<1> QED BY <1>1, SameProgram DEF EntryShape

LEMMA QuietShape ==
    ASSUME CallInv, UNCHANGED <<prog, pc, stack, ptr0>>
    PROVE  StackShape' /\ PcShape'
<1>1. StackShape'
  <2> SUFFICES ASSUME NEW i \in DOMAIN stack PROVE EntryShape(i)' BY DEF StackShape
  <2>1. EntryShape(i) BY DEF CallInv, StackShape
  <2> QED BY <2>1, SameProgram DEF EntryShape
<1>2. PcShape' BY SameProgram DEF CallInv, PcShape, Top, Switching, Restoring
<1> QED BY <1>1, <1>2

LEMMA BankCallShape ==
    ASSUME CallInv, BankCall
    PROVE  CallInv'
<1> USE DEF CallInv
<1> DEFINE a == Skipped(Top)
           b == Saved(SourceByte)
           c == At("bankreturn", pc.win, Top.fn)
           w == HomeWindow(prog, StartupBank(prog))
<1>1. /\ pc.at = "bankcall" /\ UNCHANGED <<prog, map, latch, shadow, pending, result>>
      /\ stack' = [stack EXCEPT ![Len(stack)] = a] \o <<b, c>>
      /\ ptr0' = pc.fn /\ pc' = At("switch", w, pc.fn)
      /\ x' = Advances(Desc(pc.fn))
      /\ Fetched \in Bank
  BY DEF BankCall, InTrampoline, mapperVars, Desc
<1>2. /\ prog \in Program /\ Len(stack) \in Nat \ {0} /\ stack # <<>>
      /\ pc \in Address /\ pc.fn \in Function /\ pc.win \in Window
      /\ EntryShape(Len(stack)) /\ Top \in Entries /\ Top.at = "payload"
      /\ w \in Window /\ Home(prog.main) = w /\ pc.win = Top.win
      /\ Len(stack) = 1 => Top.fn = prog.main
      /\ prog.bundle # {}
  BY <1>1, StackFacts, StartupFacts DEF PcShape, Top, EntryShape
<1>3. Top \in Address /\ Top.fn \in Function /\ Top.win \in Window /\ Top.win = Home(Top.fn)
  BY <1>2, EntryFacts, AddressFacts DEF EntryShape, Top
<1>4. /\ a \in Entries /\ a.at = "body" /\ a.win = Top.win /\ a.fn = Top.fn
      /\ c \in Entries /\ c.at = "bankreturn" /\ c.win = pc.win /\ c.fn = Top.fn
  BY <1>2, <1>3, AtType DEF Entries, Step, Skipped
<1>5. Own \in 0..NoSwitch BY <1>1, <1>2, WindowFacts DEF Own
<1>6. b \in Entries /\ b.at = "source" /\ b.byte = SourceByte
  <2>1. SourceByte \in 0..NoSwitch BY <1>5 DEF SourceByte, BankCallTypeOK
  <2> QED BY <2>1, SavedFacts
<1>7. pc' \in Address /\ pc'.at = "switch" /\ pc'.fn = pc.fn /\ pc'.win = w
  BY <1>1, <1>2, AtType DEF Step
<1>8. w' = w BY <1>1, SameProgram
<1> HIDE DEF a, b, c, w
<1> PICK n \in Nat \ {0} : n = Len(stack) BY <1>2
<1>9. /\ stack' \in Seq(Entries) /\ Len(stack') = n + 2
      /\ \A i \in 1..(n - 1) : stack'[i] = stack[i]
      /\ stack'[n] = a /\ stack'[n + 1] = b /\ stack'[n + 2] = c
      /\ DOMAIN stack' = 1..(n + 2)
  <2>0. PICK r : r = [stack EXCEPT ![Len(stack)] = a] OBVIOUS
  <2>1. /\ r \in Seq(Entries) /\ Len(r) = n /\ r[n] = a
        /\ \A i \in 1..(n - 1) : r[i] = stack[i]
    BY <1>2, <1>4, <2>0, Replaced DEF BankCallTypeOK
  <2>2. stack' = r \o <<b, c>> BY <1>1, <2>0
  <2>3. /\ stack' \in Seq(Entries) /\ Len(stack') = n + 2
        /\ DOMAIN stack' = 1..(n + 2)
        /\ \A i \in 1..n : stack'[i] = r[i]
        /\ stack'[n + 1] = b /\ stack'[n + 2] = c
    BY <1>4, <1>6, <2>1, <2>2, PushedTwo
  <2> QED BY <2>1, <2>3
<1>10. Top' = c /\ stack' # <<>> BY <1>9 DEF Top
<1>11. \A i \in 1..(n - 2) : EntryShape(i)'
  <2>1. PICK m \in Nat : m = n - 1 OBVIOUS
  <2>2. m <= Len(stack) /\ m <= Len(stack') /\ \A i \in 1..m : stack'[i] = stack[i]
    BY <1>9, <2>1
  <2>3. \A i \in 1..(m - 1) : EntryShape(i)' BY <1>1, <1>9, <2>2, ShapeBelow
  <2> QED BY <2>1, <2>3
<1>12. BankCallTypeOK'
  <2>1. Desc(pc.fn) \in 0..NoSwitch BY <1>2, HomeFacts
  <2>2. x' \in 0..NoSwitch
    <3>1. Desc(pc.fn) \in Int /\ Own \in Int BY <1>5, <2>1
    <3>2. PICK k \in Int : k = Desc(pc.fn) - Own BY <3>1
    <3>3. k % NBank \in Bank BY Remainder
    <3>4. k % NBank \in 0..NoSwitch BY <3>3, BankFacts DEF Bank
    <3> QED BY <1>1, <2>1, <3>2, <3>4 DEF Advances
  <2> QED BY <1>1, <1>2, <1>7, <1>9, <2>2, SameProgram DEF BankCallTypeOK
<1>13. EntryShape(n)' /\ EntryShape(n + 1)' /\ EntryShape(n + 2)'
  BY <1>1, <1>2, <1>3, <1>4, <1>6, <1>7, <1>9, SameProgram DEF EntryShape
<1>14. n > 1 => EntryShape(n - 1)'
  <2> SUFFICES ASSUME NEW m \in Nat \ {0}, n = m + 1 PROVE EntryShape(m)' OBVIOUS
  <2>1. /\ m \in 1..Len(stack) /\ m # Len(stack) /\ m \in 1..m
        /\ m > 1 => m - 1 \in 1..(n - 1)
        /\ m > 2 => m - 2 \in 1..(n - 1)
        /\ m \in 1..(n - 1) /\ m + 1 = n /\ m # n + 2
    OBVIOUS
  <2>2. EntryShape(m) /\ stack[m].at # "source" BY <1>2, <2>1, StackFacts DEF EntryShape, Top
  <2> QED BY <1>1, <1>4, <1>7, <1>9, <2>1, <2>2, SameProgram DEF EntryShape
<1>15. StackShape' BY <1>9, <1>11, <1>13, <1>14 DEF StackShape
<1>16. PcShape'
  BY <1>1, <1>2, <1>4, <1>7, <1>8, <1>9, <1>10, SameProgram DEF PcShape, Switching, Restoring, w
<1> QED BY <1>12, <1>15, <1>16

\* The steps of a switch, to the callee and back.
LEMMA FirstAccessFacts ==
    ASSUME CallInv, NEW step, NEW second, NEW next, prog' = prog,
           step \in Step, second \in Step, next \in Step,
           FirstAccess(step, second, next)
    PROVE  /\ pc.at = step /\ pc' \in Address /\ pc'.win = pc.win /\ pc'.fn = pc.fn
           /\ pc'.at \in {step, second, next}
           /\ prog.family = "fixedRam" => pc'.at = next
           /\ map' \in [Window -> Nat] /\ latch' \in (0..3) \X Nat
           /\ shadow' \in 0..NoSwitch /\ pending' \in 0..NoSwitch /\ x' \in 0..NoSwitch
<1>1. /\ prog \in Program /\ pc \in Address /\ pc.fn \in Function /\ pc.win \in Window
      /\ x \in 0..NoSwitch /\ map \in [Window -> Nat]
      /\ shadow \in 0..NoSwitch /\ pending \in 0..NoSwitch /\ latch \in (0..3) \X Nat
  BY StackFacts DEF CallInv, BankCallTypeOK
<1>2. PICK t \in {step, second, next} :
         pc' = At(t, pc.win, pc.fn) /\ (prog.family = "fixedRam" => t = next)
  BY DEF FirstAccess
<1>3. pc' \in Address /\ pc'.at = t /\ pc'.win = pc.win /\ pc'.fn = pc.fn
  BY <1>1, <1>2, AtType
<1>4. Counted(x) \in 0..NoSwitch BY <1>1 DEF Counted, NoSwitch
<1>5. /\ shadow' \in 0..NoSwitch /\ pending' \in 0..NoSwitch /\ x' \in 0..NoSwitch
  BY <1>1, <1>4 DEF FirstAccess
<1>6. latch' \in (0..3) \X Nat BY <1>1 DEF FirstAccess, NoSwitch
<1>7. map' \in [Window -> Nat]
  <2>1. \A w \in Window : (map[w] + 1) % NBank \in Nat
    <3> SUFFICES ASSUME NEW w \in Window PROVE (map[w] + 1) % NBank \in Nat OBVIOUS
    <3>1. PICK k \in Int : k = map[w] + 1 BY <1>1
    <3>2. k % NBank \in Bank BY Remainder
    <3> QED BY <3>1, <3>2, BankFacts
  <2>2. x \in Nat /\ 2 * x \in Nat BY <1>1 DEF NoSwitch
  <2> QED BY <1>1, <2>1, <2>2 DEF FirstAccess, All, Select
<1>8. pc.at = step BY DEF FirstAccess, InTrampoline
<1> QED BY <1>2, <1>3, <1>5, <1>6, <1>7, <1>8

LEMMA SecondAccessFacts ==
    ASSUME CallInv, NEW second, NEW next, prog' = prog,
           second \in Step, next \in Step, SecondAccess(second, next)
    PROVE  /\ pc.at = second /\ pc' \in Address /\ pc'.at = next
           /\ pc'.win = pc.win /\ pc'.fn = pc.fn
           /\ map' \in [Window -> Nat] /\ UNCHANGED <<latch, shadow, pending, x>>
<1>1. /\ pc \in Address /\ pc.fn \in Function /\ pc.win \in Window
      /\ x \in 0..NoSwitch /\ map \in [Window -> Nat] /\ latch \in (0..3) \X Nat
  BY StackFacts DEF CallInv, BankCallTypeOK
<1>2. pc.at = second /\ pc' = At(next, pc.win, pc.fn) /\ UNCHANGED <<latch, shadow, pending, x>>
  BY DEF SecondAccess, InTrampoline
<1>3. pc' \in Address /\ pc'.at = next /\ pc'.win = pc.win /\ pc'.fn = pc.fn
  BY <1>1, <1>2, AtType
<1>4. map' \in [Window -> Nat]
  <2>1. latch[1] + 4 * latch[2] \in Nat /\ 2 * x + 1 \in Nat BY <1>1 DEF NoSwitch
  <2> QED BY <1>1, <2>1 DEF SecondAccess, LowerPair, Select, All
<1> QED BY <1>2, <1>3, <1>4

LEMMA SwitchShape ==
    ASSUME CallInv, Switch
    PROVE  CallInv'
<1> USE DEF CallInv
<1>1. UNCHANGED <<prog, ptr0, result>> BY DEF Switch
<1>2. /\ pc.at \in {"switch", "switch2"} /\ pc' \in Address
      /\ pc'.win = pc.win /\ pc'.fn = pc.fn
      /\ pc'.at \in {"switch", "switch2", "jump"}
      /\ pc.at = "switch" /\ prog.family = "fixedRam" => pc'.at = "jump"
      /\ pc.at = "switch2" => pc'.at = "jump"
      /\ map' \in [Window -> Nat] /\ latch' \in (0..3) \X Nat
      /\ shadow' \in 0..NoSwitch /\ pending' \in 0..NoSwitch /\ x' \in 0..NoSwitch
      /\ IF pc.at = "switch" /\ prog.family = "fixedRam"
         THEN stack' = [stack EXCEPT ![Len(stack)] = ReturnWindow(Top)]
         ELSE stack' = stack
  <2>1. CASE FirstAccess("switch", "switch2", "jump")
               /\ stack' = IF prog.family = "fixedRam"
                           THEN [stack EXCEPT ![Len(stack)] = ReturnWindow(Top)] ELSE stack
    BY <1>1, <2>1, FirstAccessFacts DEF Step
  <2>2. CASE SecondAccess("switch2", "jump") /\ UNCHANGED stack
    <3>1. /\ pc.at = "switch2" /\ pc' \in Address /\ pc'.at = "jump"
          /\ pc'.win = pc.win /\ pc'.fn = pc.fn
          /\ map' \in [Window -> Nat] /\ UNCHANGED <<latch, shadow, pending, x>>
      BY <1>1, <2>2, SecondAccessFacts DEF Step
    <3> QED BY <2>2, <3>1 DEF BankCallTypeOK
  <2> QED BY <2>1, <2>2 DEF Switch
<1>3. /\ prog \in Program /\ Len(stack) \in Nat \ {0} /\ stack # <<>>
      /\ EntryShape(Len(stack)) /\ Top.at = "bankreturn" /\ Top \in Address
      /\ Top.fn \in Function /\ Top.win \in Window /\ stack[Len(stack)] = Top
      /\ prog.bundle # {} /\ ptr0 = pc.fn /\ pc.win = HomeWindow(prog, StartupBank(prog))
  <2>1. Switching BY <1>2 DEF Switching
  <2>2. /\ prog \in Program /\ Len(stack) \in Nat \ {0} /\ stack # <<>>
        /\ EntryShape(Len(stack)) /\ Top.at = "bankreturn"
        /\ prog.bundle # {} /\ ptr0 = pc.fn /\ pc.win = HomeWindow(prog, StartupBank(prog))
    BY <1>2, <2>1, StackFacts DEF PcShape
  <2>3. Top \in Address BY <2>2, StackFacts, EntryFacts DEF Top
  <2> QED BY <2>2, <2>3, AddressFacts DEF Top
<1>4. CASE pc.at = "switch" /\ prog.family = "fixedRam"
  <2> PICK n \in Nat \ {0} : n = Len(stack) BY <1>3
  <2>1. PICK a : a = ReturnWindow(Top) OBVIOUS
  <2>2. a \in Entries /\ a.at = "bankreturn" /\ a.win = 1 /\ a.fn = Top.fn
    BY <1>3, <1>4, <2>1, AtType DEF ReturnWindow, Window, Entries, Step
  <2>3. /\ stack' \in Seq(Entries) /\ Len(stack') = n /\ DOMAIN stack' = 1..n
        /\ \A i \in 1..(n - 1) : stack'[i] = stack[i]
        /\ stack'[n] = a
    <3>1. stack' = [stack EXCEPT ![Len(stack)] = a] BY <1>2, <1>4, <2>1
    <3> QED BY <1>3, <2>2, <3>1, Replaced DEF BankCallTypeOK
  <2>4. Top' = a /\ stack' # <<>> BY <2>3 DEF Top
  <2>5. \A i \in 1..(n - 2) : EntryShape(i)'
    <3>1. PICK m \in Nat : m = n - 1 OBVIOUS
    <3>2. m <= Len(stack) /\ m <= Len(stack') /\ \A i \in 1..m : stack'[i] = stack[i]
      BY <2>3, <3>1
    <3>3. \A i \in 1..(m - 1) : EntryShape(i)' BY <1>1, <2>3, <3>2, ShapeBelow
    <3> QED BY <3>1, <3>3
  <2>6. EntryShape(n)'
    <3>0. n > 2 /\ n - 1 \in 1..(n - 1) /\ n - 2 \in 1..(n - 1) BY <1>3 DEF EntryShape
    <3> QED BY <1>1, <1>2, <1>3, <1>4, <2>2, <2>3, <3>0, SameProgram DEF EntryShape
  <2>7. EntryShape(n - 1)'
    <3>0. PICK m \in Nat \ {0} : n = m + 1 BY <1>3 DEF EntryShape
    <3>1. /\ m \in 1..Len(stack) /\ m # Len(stack) /\ m \in 1..(n - 1) /\ m + 1 = n
          /\ m > 1 => m - 1 \in 1..(n - 1)
          /\ m > 2 => m - 2 \in 1..(n - 1)
      BY <3>0
    <3>2. EntryShape(m) BY <3>1, StackFacts
    <3>3. EntryShape(m)' BY <1>1, <1>2, <1>3, <2>2, <2>3, <3>1, <3>2, SameProgram DEF EntryShape
    <3> QED BY <3>0, <3>3
  <2>8. StackShape' BY <2>3, <2>5, <2>6, <2>7 DEF StackShape
  <2>9. PcShape'
    BY <1>1, <1>2, <1>3, <1>4, <2>2, <2>4, SameProgram DEF PcShape, Switching, Restoring
  <2>10. BankCallTypeOK' BY <1>1, <1>2, <2>3, SameProgram DEF BankCallTypeOK
  <2> QED BY <2>8, <2>9, <2>10
<1>5. CASE ~(pc.at = "switch" /\ prog.family = "fixedRam")
  <2>1. stack' = stack BY <1>2, <1>5
  <2>2. Top' = Top BY <2>1 DEF Top
  <2>3. StackShape'
    <3> SUFFICES ASSUME NEW i \in DOMAIN stack PROVE EntryShape(i)' BY <2>1 DEF StackShape
    <3>1. EntryShape(i) BY DEF StackShape
    <3>2. pc'.at = "switch" => prog.family # "fixedRam" BY <1>2, <1>5
    <3> QED BY <1>1, <1>2, <1>5, <2>1, <3>1, <3>2, SameProgram DEF EntryShape
  <2>4. PcShape'
    BY <1>1, <1>2, <1>3, <2>1, <2>2, SameProgram DEF PcShape, Switching, Restoring
  <2>5. BankCallTypeOK' BY <1>1, <1>2, <2>1, SameProgram DEF BankCallTypeOK
  <2> QED BY <2>3, <2>4, <2>5
<1> QED BY <1>4, <1>5

LEMMA SettledType ==
    ASSUME CallInv
    PROVE  Settled \in [Window -> Nat]
BY DEF CallInv, BankCallTypeOK, Settled, All, NoSwitch

LEMMA JumpShape ==
    ASSUME CallInv, Jump
    PROVE  CallInv'
<1> USE DEF CallInv
<1>1. /\ pc.at = "jump" /\ UNCHANGED <<prog, latch, shadow, stack, ptr0, x, result>>
      /\ pc' = Body(ptr0) /\ map' = Settled /\ pending' = NoSwitch
  BY DEF Jump, InTrampoline
<1>2. /\ prog \in Program /\ pc.fn \in Function /\ ptr0 = pc.fn /\ stack # <<>>
      /\ Top.at = "bankreturn"
  BY <1>1, StackFacts DEF PcShape, Switching
<1>3. pc' \in Address /\ pc'.at = "body" /\ pc'.fn = pc.fn /\ pc'.win = Home(pc.fn)
  <2>1. Home(pc.fn) \in Window BY <1>2, HomeFacts
  <2> QED BY <1>1, <1>2, <2>1, AtType DEF Body, Home, Step
<1>4. map' \in [Window -> Nat] BY <1>1, SettledType
<1>5. BankCallTypeOK' BY <1>1, <1>3, <1>4, SameProgram DEF BankCallTypeOK, NoSwitch
<1>6. StackShape' BY <1>1, <1>3, SameStackShape
<1>7. Top' = Top BY <1>1 DEF Top
<1>8. PcShape' BY <1>1, <1>2, <1>3, <1>7, SameProgram DEF PcShape, Switching, Restoring
<1> QED BY <1>5, <1>6, <1>8

\* The return from the callee into the trampoline takes the descriptor.
LEMMA BankReturnShape ==
    ASSUME CallInv, BankReturn
    PROVE  CallInv'
<1> USE DEF CallInv
<1>1. /\ pc.at = "bankreturn" /\ UNCHANGED <<prog, map, latch, shadow, pending>>
      /\ ptr0' = result /\ result' = NoResult /\ x' = Advances(Top.byte) /\ Pop(1)
      /\ pc' = At("restore", pc.win, pc.fn) /\ Fetched \in Bank
  BY DEF BankReturn, InTrampoline, mapperVars
<1>2. /\ prog \in Program /\ Len(stack) \in Nat \ {0} /\ stack # <<>>
      /\ pc \in Address /\ pc.fn \in Function /\ pc.win \in Window
      /\ EntryShape(Len(stack)) /\ Top \in Entries /\ Top.at = "source"
      /\ stack[Len(stack)] = Top /\ prog.bundle # {}
      /\ IF prog.family = "fixedRam" THEN pc.win = 1 ELSE pc.win = Home(pc.fn)
  BY <1>1, StackFacts DEF PcShape, Top
<1> PICK n \in Nat \ {0} : n = Len(stack) BY <1>2
<1>3. /\ n > 1 /\ stack[n - 1].at = "body" /\ pc.fn = stack[n - 1].fn
      /\ Top.byte \in 0..NoSwitch
  BY <1>2, EntryFacts DEF EntryShape
<1> PICK m \in Nat \ {0} : n = m + 1 BY <1>3
<1>4. /\ stack' \in Seq(Entries) /\ Len(stack') = m /\ DOMAIN stack' = 1..m
      /\ \A i \in 1..m : stack'[i] = stack[i]
      /\ stack' # <<>> /\ Top' = stack[m]
      /\ \A i \in 1..(m - 1) : EntryShape(i)'
  <2>1. /\ stack' \in Seq(Entries) /\ Len(stack') = m /\ DOMAIN stack' = 1..m
        /\ \A i \in 1..m : stack'[i] = stack[i]
        /\ stack' # <<>> => Top' = stack[m]
        /\ stack' = <<>> => n = 1
        /\ \A i \in 1..(m - 1) : EntryShape(i)'
    BY <1>1, <1>2, PopShape
  <2> QED BY <1>3, <2>1
<1>5. pc' \in Address /\ pc'.at = "restore" /\ pc'.fn = pc.fn /\ pc'.win = pc.win
  BY <1>1, <1>2, AtType DEF Step
<1>6. BankCallTypeOK'
  <2>1. Own \in 0..NoSwitch BY <1>1, <1>2, WindowFacts DEF Own
  <2>2. x' \in 0..NoSwitch
    <3>1. PICK k \in Int : k = Top.byte - Own BY <1>3, <2>1
    <3>2. k % NBank \in Bank BY Remainder
    <3>3. k % NBank \in 0..NoSwitch BY <3>2, BankFacts DEF Bank
    <3> QED BY <1>1, <1>3, <3>1, <3>3 DEF Advances
  <2> QED BY <1>1, <1>4, <1>5, <2>2, SameProgram DEF BankCallTypeOK
<1>7. EntryShape(m)'
  <2>1. /\ m \in 1..Len(stack) /\ m # Len(stack) /\ m \in 1..m
        /\ m > 1 => m - 1 \in 1..m
        /\ m > 2 => m - 2 \in 1..m
    OBVIOUS
  <2>2. EntryShape(m) /\ stack[m].at = "body" BY <1>3, <2>1, StackFacts
  <2> QED BY <1>1, <1>4, <1>5, <2>1, <2>2, SameProgram DEF EntryShape
<1>8. StackShape' BY <1>4, <1>7 DEF StackShape
<1>9. PcShape'
  BY <1>1, <1>2, <1>3, <1>4, <1>5, SameProgram DEF PcShape, Switching, Restoring
<1> QED BY <1>6, <1>8, <1>9

LEMMA RestoreShape ==
    ASSUME CallInv, Restore
    PROVE  CallInv'
<1> USE DEF CallInv
<1>1. UNCHANGED <<prog, stack, ptr0, result>> BY DEF Restore
<1>2. /\ pc.at \in {"restore", "restore2"} /\ pc' \in Address
      /\ pc'.win = pc.win /\ pc'.fn = pc.fn
      /\ pc'.at \in {"restore", "restore2", "finish"}
      /\ map' \in [Window -> Nat] /\ latch' \in (0..3) \X Nat
      /\ shadow' \in 0..NoSwitch /\ pending' \in 0..NoSwitch /\ x' \in 0..NoSwitch
  <2>1. CASE FirstAccess("restore", "restore2", "finish")
    BY <1>1, <2>1, FirstAccessFacts DEF Step
  <2>2. CASE SecondAccess("restore2", "finish")
    <3>1. /\ pc.at = "restore2" /\ pc' \in Address /\ pc'.at = "finish"
          /\ pc'.win = pc.win /\ pc'.fn = pc.fn
          /\ map' \in [Window -> Nat] /\ UNCHANGED <<latch, shadow, pending, x>>
      BY <1>1, <2>2, SecondAccessFacts DEF Step
    <3> QED BY <2>2, <3>1 DEF BankCallTypeOK
  <2> QED BY <2>1, <2>2 DEF Restore
<1>3. Top' = Top BY <1>1 DEF Top
<1>4. BankCallTypeOK' BY <1>1, <1>2, SameProgram DEF BankCallTypeOK
<1>5. StackShape' BY <1>1, <1>2, SameStackShape
<1>6. PcShape' BY <1>1, <1>2, <1>3, SameProgram DEF PcShape, Switching, Restoring
<1> QED BY <1>4, <1>5, <1>6

\* A return address is popped and execution goes on there.
LEMMA ResumeShape ==
    ASSUME CallInv, stack # <<>>, Pop(1), pc' = Top, prog' = prog,
           Top.at \notin {"payload", "source"}, pc.at # "switch"
    PROVE  /\ stack' \in Seq(Entries) /\ pc' \in Address /\ StackShape' /\ PcShape'
<1> USE DEF CallInv
<1>1. /\ Len(stack) \in Nat \ {0} /\ EntryShape(Len(stack)) /\ Top \in Entries
      /\ stack[Len(stack)] = Top
  BY StackFacts DEF Top
<1>2. /\ Top \in Address /\ Top.at \in {"body", "bankreturn", "entryreturn"}
      /\ Top.fn \in Function
  BY <1>1, EntryFacts, AddressFacts DEF EntryShape
<1> PICK n \in Nat \ {0} : n = Len(stack) BY <1>1
<1> PICK m \in Nat : n = m + 1 BY OneLess, Zenon
<1>4. /\ stack' \in Seq(Entries) /\ Len(stack') = m /\ DOMAIN stack' = 1..m
      /\ \A i \in 1..m : stack'[i] = stack[i]
      /\ stack' # <<>> => m \in Nat \ {0} /\ Top' = stack[m]
      /\ stack' = <<>> => n = 1
      /\ \A i \in 1..(m - 1) : EntryShape(i)'
  BY PopShape
<1>5. m > 0 => EntryShape(m) /\ stack[m].at # "payload"
               /\ (stack[m].at = "source" => Top.at = "bankreturn")
  BY <1>1, StackFacts DEF EntryShape
<1>6. m > 0 => EntryShape(m)'
  <2> SUFFICES ASSUME m > 0 PROVE EntryShape(m)' OBVIOUS
  <2>1. /\ m \in 1..Len(stack) /\ m # Len(stack) /\ m \in 1..m
        /\ m > 1 => m - 1 \in 1..m
        /\ m > 2 => m - 2 \in 1..m
    OBVIOUS
  <2>2. Top.at = "bankreturn" => m > 1 /\ stack[m].at = "source" /\ stack[m - 1].fn = Top.fn
    BY <1>1 DEF EntryShape
  <2> QED BY <1>1, <1>2, <1>4, <1>5, <2>1, <2>2, SameProgram DEF EntryShape
<1>7. StackShape' BY <1>4, <1>6 DEF StackShape
<1>8. PcShape'
  <2>1. Top.at = "body" => pc'.win = Home(pc'.fn) /\ (stack' = <<>> => pc'.fn = prog.main)
                           /\ (stack' # <<>> => Top'.at # "source")
    BY <1>1, <1>2, <1>4, <1>5 DEF EntryShape
  <2>2. Top.at = "bankreturn" =>
          /\ stack' # <<>> /\ Top'.at = "source" /\ prog.bundle # {}
          /\ IF prog.family = "fixedRam" THEN pc'.win = 1
             ELSE pc'.win = Home(pc'.fn)
    BY <1>1, <1>2, <1>4, <1>5 DEF EntryShape
  <2>3. Top.at = "entryreturn" =>
          /\ stack' # <<>> /\ Top'.at = "body" /\ Top'.fn = Top.fn /\ Crossing(prog) # {}
          /\ pc'.win = Home(pc'.fn)
    BY <1>1, <1>2, <1>4, <1>5 DEF EntryShape
  <2> QED BY <1>2, <2>1, <2>2, <2>3, SameProgram DEF PcShape, Switching, Restoring
<1> QED BY <1>2, <1>4, <1>7, <1>8

LEMMA FinishShape ==
    ASSUME CallInv, Finish
    PROVE  CallInv'
<1> USE DEF CallInv
<1>1. /\ pc.at = "finish" /\ UNCHANGED <<prog, latch, shadow, ptr0, x>>
      /\ result' = ptr0 /\ pc' = Top /\ Pop(1) /\ map' = Settled /\ pending' = NoSwitch
  BY DEF Finish, InTrampoline
<1>2. stack # <<>> /\ Top.at = "body" BY <1>1 DEF PcShape, Restoring
<1>3. stack' \in Seq(Entries) /\ pc' \in Address /\ StackShape' /\ PcShape'
  BY <1>1, <1>2, ResumeShape
<1>4. map' \in [Window -> Nat] BY <1>1, SettledType
<1>5. BankCallTypeOK' BY <1>1, <1>3, <1>4, SameProgram DEF BankCallTypeOK, NoSwitch
<1> QED BY <1>3, <1>5

\* A bank that is selected by a plain call.
LEMMA SelectedType ==
    ASSUME CallInv, NEW f \in Function
    PROVE  Selected(prog.bank[f]) \in [Window -> Nat]
<1>1. prog.bank[f] \in Nat BY StackFacts, ProgramFacts, BankFacts
<1> QED BY <1>1 DEF CallInv, BankCallTypeOK, Selected, All

LEMMA PlainEntryShape ==
    ASSUME CallInv, Entry
    PROVE  CallInv'
<1> USE DEF CallInv
<1>1. /\ pc.at = "entry" /\ UNCHANGED <<prog, latch, shadow, pending, stack, ptr0, x, result>>
      /\ pc' = Body(pc.fn) /\ map' = Selected(prog.bank[pc.fn])
  BY DEF Entry, InTrampoline
<1>2. prog \in Program /\ pc.fn \in Function /\ stack # <<>> /\ Top.at = "entryreturn"
  BY <1>1, StackFacts DEF PcShape
<1>3. pc' \in Address /\ pc'.at = "body" /\ pc'.fn = pc.fn /\ pc'.win = Home(pc.fn)
  <2>1. Home(pc.fn) \in Window BY <1>2, HomeFacts
  <2> QED BY <1>1, <1>2, <2>1, AtType DEF Body, Home, Step
<1>4. map' \in [Window -> Nat] BY <1>1, <1>2, SelectedType
<1>5. BankCallTypeOK' BY <1>1, <1>3, <1>4, SameProgram DEF BankCallTypeOK
<1>6. StackShape' BY <1>1, <1>3, SameStackShape
<1>7. Top' = Top BY <1>1 DEF Top
<1>8. PcShape' BY <1>1, <1>2, <1>3, <1>7, SameProgram DEF PcShape, Switching, Restoring
<1> QED BY <1>5, <1>6, <1>8

LEMMA EntryReturnShape ==
    ASSUME CallInv, EntryReturn
    PROVE  CallInv'
<1> USE DEF CallInv
<1>1. /\ pc.at = "entryreturn" /\ UNCHANGED <<prog, latch, shadow, pending, ptr0, x, result>>
      /\ pc' = Top /\ Pop(1) /\ map' = Selected(prog.bank[pc.fn])
  BY DEF EntryReturn, InTrampoline
<1>2. stack # <<>> /\ Top.at = "body" BY <1>1 DEF PcShape
<1>3. stack' \in Seq(Entries) /\ pc' \in Address /\ StackShape' /\ PcShape'
  BY <1>1, <1>2, ResumeShape
<1>4. map' \in [Window -> Nat] BY <1>1, StackFacts, SelectedType
<1>5. BankCallTypeOK' BY <1>1, <1>3, <1>4, SameProgram DEF BankCallTypeOK
<1> QED BY <1>3, <1>5

LEMMA StackBusType ==
    ASSUME CallInv, NEW f \in Function, NEW d
    PROVE  StackBus(d, f) \in [Window -> Nat]
<1>1. prog.bank[f] \in Nat BY StackFacts, ProgramFacts, BankFacts
<1> QED BY <1>1 DEF CallInv, BankCallTypeOK, StackBus, All

LEMMA ReturnShape ==
    ASSUME CallInv, Return
    PROVE  CallInv' /\ Top.fn \in Function
<1> USE DEF CallInv
<1>1. /\ pc.at = "body" /\ UNCHANGED <<prog, latch, shadow, pending, ptr0, x>>
      /\ stack # <<>> /\ pc' = Top /\ Pop(1) /\ map' = StackBus(Len(stack) - 1, Top.fn)
      /\ result' = pc.fn
  BY DEF Return, InBody
<1>2. Top.at \notin {"payload", "source"} /\ Top.fn \in Function /\ pc.fn \in Function
  <2>1. EntryShape(Len(stack)) /\ stack[Len(stack)] \in Entries /\ pc.fn \in Function
    BY <1>1, StackFacts
  <2>2. Top.at \notin {"payload", "source"} BY <1>1, <2>1 DEF PcShape, EntryShape, Top
  <2>3. Top \in Address BY <2>1, <2>2, EntryFacts DEF Top
  <2> QED BY <2>1, <2>2, <2>3, AddressFacts
<1>3. stack' \in Seq(Entries) /\ pc' \in Address /\ StackShape' /\ PcShape'
  BY <1>1, <1>2, ResumeShape
<1>4. map' \in [Window -> Nat] BY <1>1, <1>2, StackBusType
<1>5. BankCallTypeOK' BY <1>1, <1>2, <1>3, <1>4, SameProgram DEF BankCallTypeOK
<1> QED BY <1>2, <1>3, <1>5

LEMMA MapRamShape ==
    ASSUME CallInv, MapRam
    PROVE  CallInv'
<1> USE DEF CallInv
<1>1. UNCHANGED <<prog, latch, shadow, pending, pc, stack, ptr0, x, result>>
      /\ map' = Select(map, 0, Ram)
  BY DEF MapRam, cpuVars
<1>2. map' \in [Window -> Nat]
  BY <1>1, BankFacts DEF Select, BankCallTypeOK, Ram
<1>3. BankCallTypeOK' BY <1>1, <1>2, SameProgram DEF BankCallTypeOK
<1> QED BY <1>1, <1>3, QuietShape

LEMMA SettleShape ==
    ASSUME CallInv, Settle
    PROVE  CallInv'
<1> USE DEF CallInv
<1>1. UNCHANGED <<prog, latch, shadow, pc, stack, ptr0, x, result>>
      /\ map' = All(pending) /\ pending' = NoSwitch
  BY DEF Settle, cpuVars
<1>2. map' \in [Window -> Nat] BY <1>1 DEF All, BankCallTypeOK, NoSwitch
<1>3. BankCallTypeOK' BY <1>1, <1>2, SameProgram DEF BankCallTypeOK, NoSwitch
<1> QED BY <1>1, <1>3, QuietShape

LEMMA MainEndsShape ==
    ASSUME CallInv, MainEnds
    PROVE  CallInv'
<1> USE DEF CallInv
<1>1. /\ UNCHANGED <<prog, map, latch, shadow, pending, stack, ptr0, x>>
      /\ stack = <<>> /\ pc' = At("reset", 0, prog.main) /\ result' = NoResult
  BY DEF MainEnds, mapperVars
<1>2. prog \in Program /\ prog.main \in Function BY StackFacts, ProgramFacts
<1>3. pc' \in Address /\ pc'.at = "reset" /\ pc'.fn = prog.main
  BY <1>1, <1>2, AtType DEF Step, Window
<1>4. BankCallTypeOK' BY <1>1, <1>3, SameProgram DEF BankCallTypeOK
<1>5. StackShape' BY <1>1 DEF StackShape
<1>6. PcShape' BY <1>1, <1>3 DEF PcShape, Switching, Restoring
<1> QED BY <1>4, <1>5, <1>6

LEMMA BootShape ==
    ASSUME CallInv, Boot
    PROVE  CallInv'
<1> USE DEF CallInv
<1>1. /\ pc.at = "reset" /\ UNCHANGED <<prog, latch, pending, stack, ptr0, x, result>>
      /\ map' \in {map, All(StartupBank(prog))} /\ shadow' = 2 /\ pc' = Body(prog.main)
  BY DEF Boot
<1>2. /\ stack = <<>> /\ prog \in Program /\ prog.main \in Function
      /\ StartupBank(prog) \in Nat
  BY <1>1, StackFacts, ProgramFacts, StartupFacts, BankFacts DEF PcShape
<1>3. pc' \in Address /\ pc'.at = "body" /\ pc'.fn = prog.main /\ pc'.win = Home(prog.main)
  <2>1. Home(prog.main) \in Window BY <1>2, HomeFacts
  <2> QED BY <1>1, <1>2, <2>1, AtType DEF Body, Home, Step
<1>4. map' \in [Window -> Nat] BY <1>1, <1>2 DEF All, BankCallTypeOK
<1>5. BankCallTypeOK' BY <1>1, <1>3, <1>4, SameProgram DEF BankCallTypeOK, NoSwitch
<1>6. StackShape' BY <1>1, <1>2 DEF StackShape
<1>7. PcShape' BY <1>1, <1>2, <1>3, SameProgram DEF PcShape, Switching, Restoring
<1> QED BY <1>5, <1>6, <1>7

LEMMA CallInvStutters ==
    ASSUME CallInv, UNCHANGED vars
    PROVE  CallInv'
<1>1. UNCHANGED <<prog, map, latch, shadow, pending, pc, stack, ptr0, x, result>>
  BY DEF vars, mapperVars, cpuVars
<1>2. BankCallTypeOK' BY <1>1, SameProgram DEF CallInv, BankCallTypeOK
<1> QED BY <1>1, <1>2, QuietShape DEF CallInv

LEMMA CallInvStep ==
    ASSUME CallInv, [Next]_vars
    PROVE  CallInv'
<1>1. CASE Trampoline
  BY <1>1, BootShape, BankCallShape, SwitchShape, JumpShape, BankReturnShape, RestoreShape,
     FinishShape, PlainEntryShape, EntryReturnShape DEF Trampoline
<1>2. CASE \E g \in Function : CallDirect(g) \/ CallBundle(g) \/ CallEntry(g)
  BY <1>2, CallDirectShape, CallBundleShape, CallEntryShape
<1>3. CASE Settle \/ MapRam \/ Return \/ MainEnds
  BY <1>3, SettleShape, MapRamShape, ReturnShape, MainEndsShape
<1>4. CASE UNCHANGED vars BY <1>4, CallInvStutters
<1> QED BY <1>1, <1>2, <1>3, <1>4 DEF Next

LEMMA PowerOnFacts ==
    ASSUME prog \in Program, map \in PowerOn(prog)
    PROVE  /\ map \in [Window -> Nat]
           /\ Single(prog) => \E b \in Bank : map = All(b)
           /\ prog.family = "staged" => map = All(0)
           /\ prog.family = "pair" => map[0] = 4 /\ map[1] = 5 /\ map[2] = 6 /\ map[3] = 7
           /\ Fixed(prog) => map[1] = NBank - 1 /\ \A w \in Window : map[w] \in Bank
<1>1. prog.family \in Family BY ProgramFacts
<1>2. \A b \in Bank : b \in Nat BY BankFacts
<1>3. CASE Single(prog)
  BY <1>1, <1>2, <1>3, BankFacts DEF PowerOn, Single, Fixed, All
<1>4. CASE Fixed(prog)
  <2>1. PICK b \in 0..(NBank - 2) : map = [w \in Window |-> IF w = 1 THEN NBank - 1 ELSE b]
    BY <1>4 DEF PowerOn, Fixed
  <2>2. b \in Bank /\ b \in Nat BY BankFacts DEF Bank
  <2> QED BY <1>4, <2>1, <2>2, <1>2, BankFacts DEF Single, Fixed, Window
<1>5. CASE prog.family = "pair"
  BY <1>5 DEF PowerOn, Single, Fixed, Window
<1> QED BY <1>1, <1>3, <1>4, <1>5 DEF Family, Single, Fixed

LEMMA CallInvInit ==
    ASSUME Init
    PROVE  CallInv
<1>1. /\ prog \in Program /\ FitsCorridor(prog) /\ Relocates(prog) /\ map \in PowerOn(prog)
      /\ latch = <<0, 0>> /\ shadow = 0 /\ pending = NoSwitch /\ stack = <<>>
      /\ pc = At("reset", 0, prog.main) /\ ptr0 = NoResult /\ x = 0 /\ result = NoResult
  BY DEF Init
<1>2. pc \in Address /\ pc.at = "reset" /\ pc.fn = prog.main
  BY <1>1, ProgramFacts, AtType DEF Step, Window
<1>3. BankCallTypeOK BY <1>1, <1>2, PowerOnFacts DEF BankCallTypeOK, NoSwitch
<1>4. StackShape BY <1>1 DEF StackShape
<1>5. PcShape BY <1>1, <1>2 DEF PcShape, Switching, Restoring
<1> QED BY <1>3, <1>4, <1>5 DEF CallInv

\* The registers, the mapper and the stack stay what they are.
THEOREM BankCallTypeCorrect == Spec => []BankCallTypeOK
<1>1. Init => CallInv BY CallInvInit
<1>2. CallInv /\ [Next]_vars => CallInv' BY CallInvStep
<1>3. CallInv => BankCallTypeOK BY DEF CallInv
<1> QED BY <1>1, <1>2, <1>3, PTL DEF Spec

-----------------------------------------------------------------------------
(* The functions that wait, on any stack. *)

InCode(q) == {i \in DOMAIN q : q[i].at \in {"payload", "body"}}
UpTo(S, i) == {j \in S : j <= i}
Place(q, k) == CHOOSE i \in InCode(q) : Cardinality({j \in InCode(q) : j <= i}) = k
Chain(q, n) == [k \in 1..n |-> q[Place(q, k)].fn]

LEMMA LeastNatural ==
    ASSUME NEW T \in SUBSET Nat, T # {}
    PROVE  \E i \in T : \A j \in T : i <= j
<1>1. PICK i \in T : \A j \in T : ~ (<<j, i>> \in OpToRel(<, Nat))
  BY NatLessThanWellFounded, WFMin
<1>2. OpToRel(<, Nat) = {ss \in Nat \X Nat : ss[1] < ss[2]} BY Zenon DEF OpToRel
<1>3. \A j \in T : ~ (<<j, i>> \in {ss \in Nat \X Nat : ss[1] < ss[2]})
  BY <1>1, <1>2, Zenon
<1>4. ASSUME NEW j \in T PROVE i <= j
  <2>1. i \in Nat /\ j \in Nat OBVIOUS
  <2>2. ~ (<<j, i>> \in {ss \in Nat \X Nat : ss[1] < ss[2]}) BY <1>3, Zenon
  <2> QED BY <2>1, <2>2
<1> QED BY <1>1, <1>4

LEMMA UpToElements ==
    \A S, i, j : j \in UpTo(S, i) <=> j \in S /\ j <= i
BY DEF UpTo

LEMMA UpToFacts ==
    ASSUME NEW n \in Nat, NEW S \in SUBSET (1..n)
    PROVE  /\ IsFiniteSet(S) /\ Cardinality(S) \in Nat
           /\ \A i : IsFiniteSet(UpTo(S, i)) /\ Cardinality(UpTo(S, i)) \in Nat
                     /\ Cardinality(UpTo(S, i)) <= Cardinality(S)
<1>0. IsFiniteSet(1..n) /\ 1 \in Int /\ n \in Int BY FS_Interval
<1>1. IsFiniteSet(S) BY <1>0, FS_Subset
<1>2. \A i : UpTo(S, i) \in SUBSET S BY DEF UpTo
<1> QED BY <1>1, <1>2, FS_Subset, FS_CardinalityType

\* A finite set of numbers has one of every rank.
LEMMA EveryRank ==
    ASSUME NEW n \in Nat, NEW S \in SUBSET (1..n), NEW k \in 1..Cardinality(S)
    PROVE  \E i \in S : Cardinality(UpTo(S, i)) = k
<1> DEFINE T == {i \in Nat : Cardinality(UpTo(S, i)) >= k}
<1>0. \A j \in S : j \in Nat /\ j >= 1 /\ j <= n OBVIOUS
<1>1. k \in Nat \ {0} /\ Cardinality(S) \in Nat
  <2>1. Cardinality(S) \in Nat BY UpToFacts
  <2> QED BY <2>1
<1>2. n \in T
  <2>1. UpTo(S, n) = S BY <1>0 DEF UpTo
  <2> QED BY <1>1, <2>1
<1>3. PICK i \in T : \A j \in T : i <= j
  <2>1. T \in SUBSET Nat /\ T # {} BY <1>2
  <2> HIDE DEF T
  <2> QED BY <2>1, LeastNatural
<1>4. i # 0
  <2>1. UpTo(S, 0) = {}
    <3>1. \A j \in S : ~(j <= 0) BY <1>0
    <3>2. \A j : j \notin UpTo(S, 0) BY <3>1, UpToElements, Zenon
    <3> QED BY <3>2, Zenon
  <2> QED BY <1>1, <2>1, FS_EmptySet
<1>5. PICK m \in Nat : i = m + 1 BY <1>4
<1>6. Cardinality(UpTo(S, m)) \in Nat /\ Cardinality(UpTo(S, m)) < k
  <2>1. Cardinality(UpTo(S, m)) \in Nat BY UpToFacts
  <2> QED BY <1>1, <1>3, <1>5, <2>1
<1>7. i \in S
  <2> SUFFICES ASSUME i \notin S PROVE FALSE OBVIOUS
  <2>1. UpTo(S, i) = UpTo(S, m)
    <3>1. \A j \in S : j <= i <=> j <= m BY <1>0, <1>5
    <3>2. \A j : j \in UpTo(S, i) <=> j \in UpTo(S, m) BY <3>1, UpToElements, Zenon
    <3> QED BY <3>2, Zenon
  <2> QED BY <1>1, <1>3, <1>6, <2>1
<1>8. UpTo(S, i) = UpTo(S, m) \cup {i} /\ i \notin UpTo(S, m)
  <2>1. /\ \A j \in S : j <= i <=> j <= m \/ j = i
        /\ ~(i <= m) /\ i <= i
    BY <1>0, <1>5
  <2>2. \A j : j \in UpTo(S, i) <=> j \in UpTo(S, m) \cup {i}
    BY <1>7, <2>1, UpToElements, Zenon
  <2>3. UpTo(S, i) = UpTo(S, m) \cup {i} BY <2>2, Zenon
  <2>4. i \notin UpTo(S, m) BY <2>1, UpToElements, Zenon
  <2> QED BY <2>3, <2>4
<1>9. Cardinality(UpTo(S, i)) = Cardinality(UpTo(S, m)) + 1 BY <1>8, UpToFacts, FS_AddElement
<1> QED BY <1>1, <1>3, <1>6, <1>7, <1>9

LEMMA InCodeFacts ==
    ASSUME NEW q \in Seq(Entries)
    PROVE  /\ InCode(q) \in SUBSET (1..Len(q)) /\ Len(q) \in Nat
           /\ IsFiniteSet(InCode(q)) /\ Cardinality(InCode(q)) \in Nat
           /\ \A i \in InCode(q) : q[i].fn \in Function
<1>1. InCode(q) \in SUBSET (1..Len(q)) /\ Len(q) \in Nat BY DEF InCode
<1>2. \A i \in 1..Len(q) : q[i] \in Entries OBVIOUS
<1>3. \A i \in InCode(q) : q[i].fn \in Function
  BY <1>1, <1>2, EntryFacts, AddressFacts DEF InCode
<1> QED BY <1>1, <1>3, UpToFacts

LEMMA PlaceFacts ==
    ASSUME NEW q \in Seq(Entries), NEW k \in 1..Cardinality(InCode(q))
    PROVE  /\ Place(q, k) \in InCode(q)
           /\ Cardinality(UpTo(InCode(q), Place(q, k))) = k
<1>1. \E i \in InCode(q) : Cardinality(UpTo(InCode(q), i)) = k BY InCodeFacts, EveryRank
<1>2. \E i \in InCode(q) : Cardinality({j \in InCode(q) : j <= i}) = k BY <1>1 DEF UpTo
<1> QED BY <1>2 DEF Place, UpTo

\* No two of them have the same rank.
LEMMA RankUnique ==
    ASSUME NEW n \in Nat, NEW S \in SUBSET (1..n), NEW i \in S, NEW j \in S,
           Cardinality(UpTo(S, i)) = Cardinality(UpTo(S, j))
    PROVE  i = j
<1>1. ASSUME NEW a \in S, NEW b \in S, a < b,
             Cardinality(UpTo(S, a)) = Cardinality(UpTo(S, b))
      PROVE  FALSE
  <2>0. \A l \in S : l \in Nat OBVIOUS
  <2>1. UpTo(S, a) \in SUBSET UpTo(S, b)
    <3>1. \A l \in S : l <= a => l <= b BY <1>1, <2>0
    <3>2. \A l \in UpTo(S, a) : l \in UpTo(S, b) BY <3>1, UpToElements, Zenon
    <3> QED BY <3>2, Zenon
  <2>2. b \in UpTo(S, b) /\ b \notin UpTo(S, a) BY <1>1 DEF UpTo
  <2>3. IsFiniteSet(UpTo(S, b)) BY UpToFacts
  <2>4. UpTo(S, a) = UpTo(S, b) BY <1>1, <2>1, <2>3, FS_Subset
  <2> QED BY <2>2, <2>4
<1> QED BY <1>1

LEMMA PlaceIs ==
    ASSUME NEW q \in Seq(Entries), NEW i \in InCode(q)
    PROVE  Place(q, Cardinality(UpTo(InCode(q), i))) = i
<1>1. /\ InCode(q) \in SUBSET (1..Len(q)) /\ Len(q) \in Nat BY InCodeFacts
<1>2. PICK k : k = Cardinality(UpTo(InCode(q), i)) OBVIOUS
<1>3. k \in 1..Cardinality(InCode(q))
  <2>1. i \in UpTo(InCode(q), i) BY <1>1 DEF UpTo
  <2>2. /\ IsFiniteSet(UpTo(InCode(q), i)) /\ k \in Nat /\ k <= Cardinality(InCode(q))
        /\ Cardinality(InCode(q)) \in Nat
    BY <1>1, <1>2, UpToFacts
  <2>3. k # 0 BY <1>2, <2>1, <2>2, FS_EmptySet
  <2> QED BY <2>2, <2>3
<1>4. Place(q, k) \in InCode(q) /\ Cardinality(UpTo(InCode(q), Place(q, k))) = k
  BY <1>3, PlaceFacts
<1> QED BY <1>1, <1>2, <1>4, RankUnique

LEMMA ChainType ==
    ASSUME NEW q \in Seq(Entries), NEW n \in Nat, n <= Cardinality(InCode(q))
    PROVE  /\ Chain(q, n) \in Seq(Function) /\ Len(Chain(q, n)) = n
           /\ \A k \in 1..n : Chain(q, n)[k] = q[Place(q, k)].fn
<1>1. \A k \in 1..n : k \in 1..Cardinality(InCode(q)) BY InCodeFacts
<1>2. \A k \in 1..n : Place(q, k) \in InCode(q) BY <1>1, PlaceFacts
<1>3. \A k \in 1..n : q[Place(q, k)].fn \in Function BY <1>2, InCodeFacts
<1> QED BY <1>3 DEF Chain

LEMMA SameSequence ==
    ASSUME NEW S, NEW v \in Seq(S), NEW w \in Seq(S), Len(v) = Len(w),
           \A k \in 1..Len(v) : v[k] = w[k]
    PROVE  v = w
OBVIOUS

\* The same functions wait in both stacks.
LEMMA ChainSame ==
    ASSUME NEW q \in Seq(Entries), NEW r \in Seq(Entries), InCode(r) = InCode(q),
           \A i \in InCode(q) : r[i].fn = q[i].fn,
           NEW n \in Int, n <= Cardinality(InCode(q))
    PROVE  Chain(r, n) = Chain(q, n)
<1>1. \A k \in 1..n : k \in 1..Cardinality(InCode(q)) BY InCodeFacts
<1>2. \A k \in 1..n : Place(q, k) \in InCode(q) BY <1>1, PlaceFacts
<1>3. ASSUME NEW k \in 1..n PROVE Place(r, k) = Place(q, k)
  <2>1. Place(q, k) \in InCode(r) /\ Cardinality(UpTo(InCode(r), Place(q, k))) = k
    BY <1>1, PlaceFacts
  <2> QED BY <2>1, PlaceIs
<1>4. \A k \in 1..n : r[Place(r, k)].fn = q[Place(q, k)].fn BY <1>2, <1>3
<1> QED BY <1>4 DEF Chain

\* One more waits in r.
LEMMA ChainGrows ==
    ASSUME NEW q \in Seq(Entries), NEW r \in Seq(Entries), NEW m \in Nat,
           InCode(r) = InCode(q) \cup {m},
           \A i \in InCode(q) : i < m /\ r[i].fn = q[i].fn
    PROVE  /\ Cardinality(InCode(r)) = Cardinality(InCode(q)) + 1
           /\ \A n \in Nat : n <= Cardinality(InCode(q)) => Chain(r, n) = Chain(q, n)
           /\ Chain(r, Cardinality(InCode(r)))
                 = Append(Chain(q, Cardinality(InCode(q))), r[m].fn)
<1> PICK c : c = Cardinality(InCode(q)) OBVIOUS
<1>1. /\ c \in Nat /\ IsFiniteSet(InCode(q)) /\ InCode(q) \in SUBSET (1..Len(q))
      /\ Len(q) \in Nat /\ InCode(r) \in SUBSET (1..Len(r)) /\ Len(r) \in Nat
      /\ m \in InCode(r) /\ r[m].fn \in Function
  BY InCodeFacts
<1>2. m \notin InCode(q) BY <1>1
<1>3. Cardinality(InCode(r)) = c + 1 BY <1>1, <1>2, FS_AddElement
<1>4. ASSUME NEW k \in 1..c PROVE Place(r, k) = Place(q, k) /\ Place(q, k) \in InCode(q)
  <2>1. Place(q, k) \in InCode(q) /\ Cardinality(UpTo(InCode(q), Place(q, k))) = k
    BY PlaceFacts
  <2>2. UpTo(InCode(r), Place(q, k)) = UpTo(InCode(q), Place(q, k))
    BY <1>1, <2>1 DEF UpTo
  <2>3. Place(q, k) \in InCode(r) BY <2>1
  <2> QED BY <2>1, <2>2, <2>3, PlaceIs
<1>5. Place(r, c + 1) = m
  <2>1. UpTo(InCode(r), m) = InCode(r) BY <1>1 DEF UpTo
  <2> QED BY <1>1, <1>3, <2>1, PlaceIs
<1>6. ASSUME NEW n \in Nat, n <= c PROVE Chain(r, n) = Chain(q, n)
  <2>1. \A k \in 1..n : k \in 1..c BY <1>1, <1>6
  <2>2. \A k \in 1..n : r[Place(r, k)].fn = q[Place(q, k)].fn BY <1>4, <2>1
  <2> QED BY <2>2 DEF Chain
<1>7. Chain(r, c + 1) = Append(Chain(q, c), r[m].fn)
  <2>1. /\ Chain(q, c) \in Seq(Function) /\ Len(Chain(q, c)) = c
        /\ \A k \in 1..c : Chain(q, c)[k] = q[Place(q, k)].fn
    BY <1>1, ChainType
  <2>2. /\ Chain(r, c + 1) \in Seq(Function) /\ Len(Chain(r, c + 1)) = c + 1
        /\ \A k \in 1..(c + 1) : Chain(r, c + 1)[k] = r[Place(r, k)].fn
    <3>1. c + 1 \in Nat /\ c + 1 <= Cardinality(InCode(r)) BY <1>1, <1>3
    <3> QED BY <3>1, ChainType
  <2>3. PICK v : v = Chain(q, c) OBVIOUS
  <2>4. PICK w : w = Chain(r, c + 1) OBVIOUS
  <2>5. ASSUME NEW k \in 1..c PROVE w[k] = v[k]
    <3>1. k \in 1..(c + 1) BY <1>1
    <3>2. w[k] = r[Place(r, k)].fn BY <2>2, <2>4, <3>1
    <3>3. v[k] = q[Place(q, k)].fn BY <2>1, <2>3
    <3>4. Place(r, k) = Place(q, k) /\ Place(q, k) \in InCode(q) BY <1>4
    <3> QED BY <3>2, <3>3, <3>4
  <2>6. w[c + 1] = r[m].fn
    <3>1. c + 1 \in 1..(c + 1) BY <1>1
    <3>2. w[c + 1] = r[Place(r, c + 1)].fn BY <2>2, <2>4, <3>1
    <3> QED BY <1>5, <3>2
  <2>7. PICK u : u = Append(v, r[m].fn) OBVIOUS
  <2>8. /\ u \in Seq(Function) /\ Len(u) = c + 1
        /\ \A k \in 1..c : u[k] = v[k]
        /\ u[c + 1] = r[m].fn
    BY <1>1, <2>1, <2>3, <2>7
  <2>9. \A k \in 1..(c + 1) : u[k] = w[k] BY <1>1, <2>5, <2>6, <2>8
  <2>10. u = w BY <2>2, <2>4, <2>8, <2>9, SameSequence
  <2> QED BY <2>3, <2>4, <2>7, <2>10
<1> QED BY <1>3, <1>6, <1>7

\* The last that waits.
LEMMA ChainLast ==
    ASSUME NEW q \in Seq(Entries), NEW m \in InCode(q), \A i \in InCode(q) : i <= m,
           NEW c, c = Cardinality(InCode(q))
    PROVE  /\ c \in Nat \ {0}
           /\ Chain(q, c)[c] = q[m].fn
           /\ Chain(q, c - 1) = SubSeq(Chain(q, c), 1, c - 1)
<1>1. /\ InCode(q) \in SUBSET (1..Len(q)) /\ Len(q) \in Nat /\ c \in Nat
      /\ IsFiniteSet(InCode(q))
  BY InCodeFacts
<1>2. c # 0 BY <1>1, FS_EmptySet
<1>3. UpTo(InCode(q), m) = InCode(q) BY DEF UpTo
<1>4. Place(q, c) = m BY <1>3, PlaceIs
<1>5. Chain(q, c)[c] = q[m].fn BY <1>1, <1>2, <1>4 DEF Chain
<1>6. PICK d \in Nat : d = c - 1 BY <1>1, <1>2
<1>7. /\ Chain(q, d) \in Seq(Function) /\ Len(Chain(q, d)) = d
      /\ \A k \in 1..d : Chain(q, d)[k] = q[Place(q, k)].fn
      /\ Chain(q, c) \in Seq(Function) /\ Len(Chain(q, c)) = c
      /\ \A k \in 1..c : Chain(q, c)[k] = q[Place(q, k)].fn
  BY <1>1, <1>6, ChainType
<1>8. Chain(q, d) = SubSeq(Chain(q, c), 1, d)
  <2>1. PICK w : w = Chain(q, c) OBVIOUS
  <2>2. PICK v : v = SubSeq(w, 1, d) OBVIOUS
  <2>3. \A k \in 1..d : w[k] \in Function BY <1>1, <1>6, <1>7, <2>1
  <2>4. /\ v \in Seq(Function) /\ Len(v) = (IF 1 <= d THEN d - 1 + 1 ELSE 0)
        /\ \A k \in 1..(d - 1 + 1) : v[k] = w[1 + k - 1]
    BY <1>6, <2>2, <2>3, SubSeqProperties
  <2>5. Len(v) = d /\ \A k \in 1..d : v[k] = w[k] BY <1>6, <2>4
  <2>6. ASSUME NEW k \in 1..d PROVE v[k] = Chain(q, d)[k]
    <3>1. k \in 1..c BY <1>1, <1>6
    <3>2. w[k] = q[Place(q, k)].fn BY <1>7, <2>1, <3>1
    <3>3. Chain(q, d)[k] = q[Place(q, k)].fn BY <1>7
    <3> QED BY <2>5, <3>2, <3>3
  <2>7. v = Chain(q, d) BY <1>7, <2>4, <2>5, <2>6, SameSequence
  <2> QED BY <2>1, <2>2, <2>7
<1> QED BY <1>1, <1>2, <1>5, <1>6, <1>8

\* A return address into a function is pushed.
LEMMA CodePushed ==
    ASSUME NEW q \in Seq(Entries), NEW a \in Entries, IsCode(a),
           NEW m \in Nat, m = Len(q) + 1
    PROVE  /\ q \o <<a>> \in Seq(Entries)
           /\ InCode(q \o <<a>>) = InCode(q) \cup {m}
           /\ (q \o <<a>>)[m] = a
           /\ \A i \in InCode(q) : i < m /\ (q \o <<a>>)[i].fn = q[i].fn
<1> PICK n \in Nat : n = Len(q) OBVIOUS
<1> PICK r : r = q \o <<a>> OBVIOUS
<1>1. /\ r \in Seq(Entries) /\ DOMAIN r = 1..(n + 1) /\ r[n + 1] = a
      /\ \A i \in 1..n : r[i] = q[i]
      /\ DOMAIN q = 1..n /\ m = n + 1 /\ m \in Nat
  BY Pushed
<1>2. \A i \in InCode(q) : i \in 1..n BY <1>1 DEF InCode
<1>3. \A i \in InCode(q) : i < m /\ r[i].fn = q[i].fn BY <1>1, <1>2
<1>4. 1..(n + 1) = (1..n) \cup {n + 1} /\ n + 1 \notin 1..n OBVIOUS
<1>5. \A i : i \in InCode(r) <=> i \in InCode(q) \/ i = m BY <1>1, <1>4 DEF InCode, IsCode
<1>6. InCode(r) = InCode(q) \cup {m} BY <1>5
<1> QED BY <1>1, <1>3, <1>6, Zenon

\* Something else is pushed.
LEMMA MarkPushed ==
    ASSUME NEW q \in Seq(Entries), NEW a \in Entries, ~IsCode(a)
    PROVE  /\ q \o <<a>> \in Seq(Entries)
           /\ InCode(q \o <<a>>) = InCode(q)
           /\ \A i \in InCode(q) : (q \o <<a>>)[i].fn = q[i].fn
<1> PICK n \in Nat : n = Len(q) OBVIOUS
<1> PICK r : r = q \o <<a>> OBVIOUS
<1>1. /\ r \in Seq(Entries) /\ DOMAIN r = 1..(n + 1) /\ r[n + 1] = a
      /\ \A i \in 1..n : r[i] = q[i]
      /\ DOMAIN q = 1..n
  BY Pushed
<1>2. \A i \in InCode(q) : i \in 1..n BY <1>1 DEF InCode
<1>3. \A i \in InCode(q) : r[i].fn = q[i].fn BY <1>1, <1>2
<1>4. 1..(n + 1) = (1..n) \cup {n + 1} /\ n + 1 \notin 1..n OBVIOUS
<1>5. \A i : i \in InCode(r) <=> i \in InCode(q) BY <1>1, <1>4 DEF InCode, IsCode
<1>6. InCode(r) = InCode(q) BY <1>5
<1> QED BY <1>1, <1>3, <1>6, Zenon

LEMMA CodePopped ==
    ASSUME NEW q \in Seq(Entries), q # <<>>, NEW r, r = SubSeq(q, 1, Len(q) - 1)
    PROVE  /\ r \in Seq(Entries) /\ Len(q) \in Nat /\ Len(q) \in DOMAIN q
           /\ q[Len(q)].at \in {"payload", "body"} => InCode(q) = InCode(r) \cup {Len(q)}
           /\ q[Len(q)].at \notin {"payload", "body"} => InCode(q) = InCode(r)
           /\ \A i \in InCode(r) : i < Len(q) /\ q[i].fn = r[i].fn
<1> PICK n \in Nat \ {0} : n = Len(q) OBVIOUS
<1>1. /\ r \in Seq(Entries) /\ DOMAIN r = 1..(n - 1)
      /\ \A i \in 1..(n - 1) : r[i] = q[i]
      /\ DOMAIN q = 1..n
  BY Popped
<1>2. \A i \in InCode(r) : i \in 1..(n - 1) BY <1>1 DEF InCode
<1>3. \A i \in InCode(r) : i < n /\ q[i].fn = r[i].fn BY <1>1, <1>2
<1>4. 1..n = (1..(n - 1)) \cup {n} /\ n \notin 1..(n - 1) OBVIOUS
<1>5. \A i : i \in InCode(q) <=> i \in InCode(r) \/ (i = n /\ q[n].at \in {"payload", "body"})
  BY <1>1, <1>4 DEF InCode, IsCode
<1>6. q[n].at \in {"payload", "body"} => InCode(q) = InCode(r) \cup {n} BY <1>5
<1>7. q[n].at \notin {"payload", "body"} => InCode(q) = InCode(r) BY <1>5
<1>8. n \in Nat /\ n \in DOMAIN q BY <1>1
<1> QED BY <1>1, <1>3, <1>6, <1>7, <1>8, Zenon

LEMMA TwoPushes ==
    ASSUME NEW q \in Seq(Entries), NEW a \in Entries, NEW b \in Entries
    PROVE  q \o <<a, b>> = (q \o <<a>>) \o <<b>>
<1> PICK n \in Nat : n = Len(q) OBVIOUS
<1> PICK v : v = q \o <<a, b>> OBVIOUS
<1> PICK r : r = q \o <<a>> OBVIOUS
<1> PICK w : w = r \o <<b>> OBVIOUS
<1>1. /\ v \in Seq(Entries) /\ Len(v) = n + 2 /\ v[n + 1] = a /\ v[n + 2] = b
      /\ \A i \in 1..n : v[i] = q[i]
  BY PushedTwo
<1>2. /\ r \in Seq(Entries) /\ Len(r) = n + 1 /\ r[n + 1] = a
      /\ \A i \in 1..n : r[i] = q[i]
  BY Pushed
<1>3. /\ w \in Seq(Entries) /\ Len(w) = n + 2 /\ w[n + 2] = b
      /\ \A i \in 1..(n + 1) : w[i] = r[i]
  BY <1>2, Pushed
<1>4. \A i \in 1..(n + 2) : v[i] = w[i] BY <1>1, <1>2, <1>3
<1>5. v = w BY <1>1, <1>3, <1>4, SameSequence
<1> QED BY <1>5

LEMMA CodeReplaced ==
    ASSUME NEW q \in Seq(Entries), q # <<>>, NEW a \in Entries,
           a.at \in {"payload", "body"} <=> q[Len(q)].at \in {"payload", "body"},
           a.fn = q[Len(q)].fn
    PROVE  /\ [q EXCEPT ![Len(q)] = a] \in Seq(Entries)
           /\ InCode([q EXCEPT ![Len(q)] = a]) = InCode(q)
           /\ \A i \in InCode(q) : [q EXCEPT ![Len(q)] = a][i].fn = q[i].fn
<1> PICK r : r = [q EXCEPT ![Len(q)] = a] OBVIOUS
<1> PICK n \in Nat \ {0} : n = Len(q) OBVIOUS
<1>1. /\ r \in Seq(Entries) /\ DOMAIN r = 1..n /\ r[n] = a
      /\ \A i \in 1..(n - 1) : r[i] = q[i]
      /\ DOMAIN q = 1..n
  BY Replaced
<1>4. 1..n = (1..(n - 1)) \cup {n} /\ n \notin 1..(n - 1) OBVIOUS
<1>5. \A i : i \in InCode(r) <=> i \in InCode(q) BY <1>1, <1>4 DEF InCode, IsCode
<1>6. \A i \in InCode(q) : i \in 1..n BY <1>1 DEF InCode
<1>7. \A i \in InCode(q) : r[i].fn = q[i].fn BY <1>1, <1>4, <1>6
<1>8. InCode(r) = InCode(q) BY <1>5
<1> QED BY <1>1, <1>7, <1>8, Zenon

-----------------------------------------------------------------------------
(* Calls are calls. *)

\* The number of functions whose code is on the stack.
Deep == Cardinality(InCode(stack))

LEMMA WaitingIs ==
    Waiting = Chain(stack, Deep - (IF Returning THEN 1 ELSE 0))
<1>1. Callers = InCode(stack) BY DEF Callers, InCode
<1>2. \A k : Caller(k) = Place(stack, k) BY <1>1 DEF Caller, Place
<1> QED BY <1>1, <1>2 DEF Waiting, Deep, Chain

\* The same of the next state.
LEMMA WaitingIsNext ==
    Waiting' = Chain(stack', Deep' - (IF Returning' THEN 1 ELSE 0))
<1>1. Callers' = InCode(stack') BY DEF Callers, InCode
<1>2. \A k : Caller(k)' = Place(stack', k) BY <1>1 DEF Caller, Place
<1> QED BY <1>1, <1>2 DEF Waiting, Deep, Chain

LEMMA DeepFacts ==
    ASSUME CallInv
    PROVE  stack \in Seq(Entries) /\ Deep \in Nat
BY InCodeFacts DEF CallInv, BankCallTypeOK, Deep

\* The functions that wait stay the same.
LEMMA WaitingStays ==
    ASSUME CallInv, stack' \in Seq(Entries), InCode(stack') = InCode(stack),
           \A i \in InCode(stack) : stack'[i].fn = stack[i].fn, Returning' = Returning
    PROVE  Waiting' = Waiting
<1>1. stack \in Seq(Entries) /\ Deep \in Nat /\ Deep' = Deep BY DeepFacts DEF Deep
<1>2. PICK n \in Int : n = Deep - (IF Returning THEN 1 ELSE 0) /\ n <= Deep BY <1>1
<1>3. Chain(stack', n) = Chain(stack, n) BY <1>1, <1>2, ChainSame DEF Deep
<1> QED BY <1>1, <1>2, <1>3, WaitingIs, WaitingIsNext

\* A function is put on the stack, and another runs.
LEMMA WaitingGrows ==
    ASSUME CallInv, stack' \in Seq(Entries), NEW m \in Nat,
           InCode(stack') = InCode(stack) \cup {m},
           \A i \in InCode(stack) : i < m /\ stack'[i].fn = stack[i].fn,
           ~Returning, ~Returning'
    PROVE  Waiting' = Append(Waiting, stack'[m].fn)
<1>1. stack \in Seq(Entries) /\ Deep \in Nat BY DeepFacts
<1>2. PICK r \in Seq(Entries) : r = stack' OBVIOUS
<1>3. /\ Cardinality(InCode(r)) = Deep + 1
      /\ Chain(r, Cardinality(InCode(r))) = Append(Chain(stack, Deep), r[m].fn)
  <2>1. InCode(r) = InCode(stack) \cup {m} BY <1>2
  <2>2. \A i \in InCode(stack) : i < m /\ r[i].fn = stack[i].fn BY <1>2
  <2> QED BY <1>1, <2>1, <2>2, ChainGrows DEF Deep
<1>4. Deep' = Deep + 1 BY <1>2, <1>3 DEF Deep
<1>5. Waiting = Chain(stack, Deep) BY <1>1, WaitingIs
<1>6. Waiting' = Chain(stack', Deep + 1) BY <1>1, <1>4, WaitingIsNext
<1> QED BY <1>1, <1>2, <1>3, <1>5, <1>6

LEMMA CallDirectCalls ==
    ASSUME CallInv, NEW g \in Function, CallDirect(g) \/ CallBundle(g)
    PROVE  Far!DoCall(g)
<1> DEFINE e == IF CallDirect(g) THEN Resume ELSE At("payload", pc.win, pc.fn)
<1>1. /\ pc.at = "body" /\ pc'.at \in {"body", "bankcall"} /\ pc'.fn = g
      /\ stack' = stack \o <<e>> /\ result' = NoResult
      /\ e.fn = pc.fn /\ e.at \in {"payload", "body"} /\ e \in Entries
  <2>1. pc \in Address /\ pc.fn \in Function /\ pc.win \in Window /\ prog \in Program
    BY StackFacts
  <2>2. CASE CallDirect(g)
    <3>1. /\ pc.at = "body" /\ pc' = At("body", Home(g), g) /\ stack' = stack \o <<Resume>>
          /\ result' = NoResult
      BY <2>2 DEF CallDirect, InBody, Push, Body, Home
    <3>2. Home(g) \in Window BY <2>1, HomeFacts
    <3>3. Resume \in Entries /\ Resume.at = "body" /\ Resume.fn = pc.fn
      BY <2>1, AtType DEF Resume, Entries, Step
    <3>4. pc'.at = "body" /\ pc'.fn = g BY <3>1, <3>2, AtType DEF Step
    <3> QED BY <2>2, <3>1, <3>3, <3>4
  <2>3. CASE ~CallDirect(g)
    <3>1. /\ pc.at = "body" /\ pc' = At("bankcall", pc.win, g)
          /\ stack' = stack \o <<At("payload", pc.win, pc.fn)>> /\ result' = NoResult
      BY <2>3 DEF CallBundle, InBody, Push
    <3>2. pc'.at = "bankcall" /\ pc'.fn = g BY <2>1, <3>1, AtType DEF Step
    <3>3. /\ At("payload", pc.win, pc.fn) \in Entries
          /\ At("payload", pc.win, pc.fn).at = "payload"
          /\ At("payload", pc.win, pc.fn).fn = pc.fn
      BY <2>1, AtType DEF Entries, Step
    <3> QED BY <2>3, <3>1, <3>2, <3>3
  <2> QED BY <2>2, <2>3
<1> HIDE DEF e
<1>2. stack \in Seq(Entries) BY DeepFacts
<1>3. PICK m \in Nat : m = Len(stack) + 1 BY <1>2
<1>4. /\ stack' \in Seq(Entries) /\ InCode(stack') = InCode(stack) \cup {m}
      /\ \A i \in InCode(stack) : i < m /\ stack'[i].fn = stack[i].fn
      /\ stack'[m] = e
  <2>0. e \in Entries /\ IsCode(e) BY <1>1 DEF IsCode
  <2>1. /\ stack \o <<e>> \in Seq(Entries)
        /\ InCode(stack \o <<e>>) = InCode(stack) \cup {m}
        /\ (stack \o <<e>>)[m] = e
        /\ \A i \in InCode(stack) : i < m /\ (stack \o <<e>>)[i].fn = stack[i].fn
    BY <1>2, <1>3, <2>0, CodePushed, Zenon
  <2> QED BY <1>1, <2>1
<1>5. Waiting' = Append(Waiting, pc.fn)
  BY <1>1, <1>4, WaitingGrows DEF Returning
<1>6. Value' = NoResult BY <1>1 DEF Value
<1> QED BY <1>1, <1>5, <1>6 DEF Far!DoCall

LEMMA CallEntryCalls ==
    ASSUME CallInv, NEW g \in Function, CallEntry(g)
    PROVE  Far!DoCall(g)
<1> DEFINE e == At("entryreturn", pc.win, pc.fn)
           w == HomeWindow(prog, StartupBank(prog))
<1>1. /\ pc \in Address /\ pc.fn \in Function /\ pc.win \in Window /\ prog \in Program
      /\ w \in Window
  BY StackFacts, StartupFacts
<1>2. /\ pc.at = "body" /\ pc' = At("entry", w, g) /\ stack' = stack \o <<Resume, e>>
      /\ result' = NoResult
  BY DEF CallEntry, InBody, Push
<1>3. /\ pc'.at = "entry" /\ pc'.fn = g
      /\ Resume \in Entries /\ Resume.at = "body" /\ Resume.fn = pc.fn
      /\ e \in Entries /\ e.at = "entryreturn"
  BY <1>1, <1>2, AtType DEF Resume, Entries, Step
<1> HIDE DEF e
<1>4. stack \in Seq(Entries) BY DeepFacts
<1>5. PICK q : q = stack \o <<Resume>> OBVIOUS
<1>6. stack' = q \o <<e>> BY <1>2, <1>3, <1>4, <1>5, TwoPushes, Zenon
<1>7. PICK m \in Nat : m = Len(stack) + 1 BY <1>4
<1>8. /\ q \in Seq(Entries) /\ InCode(q) = InCode(stack) \cup {m} /\ q[m].fn = pc.fn
      /\ \A i \in InCode(stack) : i < m /\ q[i].fn = stack[i].fn
  <2>1. Resume \in Entries /\ IsCode(Resume) BY <1>3 DEF IsCode
  <2>2. /\ stack \o <<Resume>> \in Seq(Entries)
        /\ InCode(stack \o <<Resume>>) = InCode(stack) \cup {m}
        /\ (stack \o <<Resume>>)[m] = Resume
        /\ \A i \in InCode(stack) : i < m /\ (stack \o <<Resume>>)[i].fn = stack[i].fn
    BY <1>4, <1>7, <2>1, CodePushed, Zenon
  <2> QED BY <1>3, <1>5, <2>2
<1>9. /\ stack' \in Seq(Entries) /\ InCode(stack') = InCode(q)
      /\ \A i \in InCode(q) : stack'[i].fn = q[i].fn
  BY <1>3, <1>6, <1>8, MarkPushed DEF IsCode
<1>10. Waiting' = Append(Waiting, pc.fn)
  <2>1. \A i \in InCode(stack) : i < m /\ stack'[i].fn = stack[i].fn BY <1>8, <1>9
  <2>2. stack'[m].fn = pc.fn BY <1>8, <1>9
  <2> QED BY <1>2, <1>3, <1>8, <1>9, <2>1, <2>2, WaitingGrows DEF Returning
<1>11. Value' = NoResult BY <1>2, <1>3 DEF Value
<1> QED BY <1>3, <1>10, <1>11 DEF Far!DoCall

\* Nothing happens that the program can see.
Unseen == pc'.fn = pc.fn /\ Waiting' = Waiting /\ Value' = Value

LEMMA BankCallUnseen ==
    ASSUME CallInv, BankCall
    PROVE  Unseen
<1> DEFINE a == Skipped(Top)
           b == Saved(SourceByte)
           c == At("bankreturn", pc.win, Top.fn)
           w == HomeWindow(prog, StartupBank(prog))
<1>1. /\ pc.at = "bankcall" /\ stack' = [stack EXCEPT ![Len(stack)] = a] \o <<b, c>>
      /\ pc' = At("switch", w, pc.fn) /\ result' = result /\ Fetched \in Bank
  BY DEF BankCall, InTrampoline
<1>2. /\ prog \in Program /\ stack # <<>> /\ stack \in Seq(Entries)
      /\ pc \in Address /\ pc.fn \in Function /\ pc.win \in Window
      /\ Top.at = "payload" /\ Top = stack[Len(stack)] /\ Top \in Entries /\ w \in Window
  BY <1>1, StackFacts, StartupFacts, DeepFacts DEF CallInv, PcShape, Top
<1>3. Top.fn \in Function /\ Top.win \in Window BY <1>2, EntryFacts, AddressFacts
<1>4. SourceByte \in 0..NoSwitch
  <2>1. Own \in 0..NoSwitch BY <1>1, <1>2, WindowFacts DEF Own
  <2> QED BY <2>1 DEF SourceByte, CallInv, BankCallTypeOK
<1>5. /\ a \in Entries /\ a.at = "body" /\ a.fn = Top.fn
      /\ b \in Entries /\ b.at = "source" /\ c \in Entries /\ c.at = "bankreturn"
      /\ pc'.at = "switch" /\ pc'.fn = pc.fn
  BY <1>1, <1>2, <1>3, <1>4, AtType, SavedFacts DEF Entries, Step, Skipped
<1> HIDE DEF a, b, c
<1>6. PICK q : q = [stack EXCEPT ![Len(stack)] = a] OBVIOUS
<1>7. /\ q \in Seq(Entries) /\ InCode(q) = InCode(stack)
      /\ \A i \in InCode(stack) : q[i].fn = stack[i].fn
  BY <1>2, <1>5, <1>6, CodeReplaced
<1>8. PICK r : r = q \o <<b>> OBVIOUS
<1>9. stack' = r \o <<c>> BY <1>1, <1>5, <1>6, <1>7, <1>8, TwoPushes, Zenon
<1>10. /\ r \in Seq(Entries) /\ InCode(r) = InCode(q)
       /\ \A i \in InCode(q) : r[i].fn = q[i].fn
  BY <1>5, <1>7, <1>8, MarkPushed DEF IsCode
<1>11. /\ stack' \in Seq(Entries) /\ InCode(stack') = InCode(r)
       /\ \A i \in InCode(r) : stack'[i].fn = r[i].fn
  BY <1>5, <1>9, <1>10, MarkPushed DEF IsCode
<1>12. Waiting' = Waiting
  <2>1. InCode(stack') = InCode(stack) BY <1>7, <1>10, <1>11
  <2>2. \A i \in InCode(stack) : stack'[i].fn = stack[i].fn BY <1>7, <1>10, <1>11
  <2>3. Returning' = Returning BY <1>1, <1>5 DEF Returning
  <2> QED BY <1>11, <2>1, <2>2, <2>3, WaitingStays
<1>13. Value' = Value BY <1>1, <1>5 DEF Value
<1> QED BY <1>5, <1>12, <1>13 DEF Unseen

\* A step that leaves the stack alone.
LEMMA SameStackUnseen ==
    ASSUME CallInv, stack' = stack, Returning' = Returning
    PROVE  Waiting' = Waiting
BY DeepFacts, WaitingStays

LEMMA SwitchUnseen ==
    ASSUME CallInv, Switch
    PROVE  Unseen
<1>1. /\ pc.at \in {"switch", "switch2"} /\ pc'.fn = pc.fn
      /\ pc'.at \in {"switch", "switch2", "jump"}
      /\ \/ stack' = stack
         \/ stack' = [stack EXCEPT ![Len(stack)] = ReturnWindow(Top)]
      /\ result' = result
  <2>1. UNCHANGED <<prog, result>> BY DEF Switch
  <2>2. CASE FirstAccess("switch", "switch2", "jump")
             /\ stack' = IF prog.family = "fixedRam"
                         THEN [stack EXCEPT ![Len(stack)] = ReturnWindow(Top)] ELSE stack
    BY <2>1, <2>2, FirstAccessFacts DEF Step
  <2>3. CASE SecondAccess("switch2", "jump") /\ UNCHANGED stack
    <3>1. pc.at = "switch2" /\ pc'.at = "jump" /\ pc'.fn = pc.fn
      BY <2>1, <2>3, SecondAccessFacts DEF Step
    <3> QED BY <2>1, <2>3, <3>1
  <2> QED BY <2>2, <2>3 DEF Switch
<1>2. Returning' = Returning BY <1>1 DEF Returning
<1>3. Value' = Value BY <1>1 DEF Value
<1>4. Waiting' = Waiting
  <2>1. CASE stack' = stack BY <1>2, <2>1, SameStackUnseen
  <2>2. CASE stack' = [stack EXCEPT ![Len(stack)] = ReturnWindow(Top)]
    <3>1. /\ stack # <<>> /\ stack \in Seq(Entries) /\ Top \in Entries
          /\ Top.at = "bankreturn" /\ Top = stack[Len(stack)]
      BY <1>1, StackFacts, DeepFacts DEF CallInv, PcShape, Switching, Top
    <3>2. Top \in Address /\ Top.fn \in Function /\ Top.win \in Window
      BY <3>1, EntryFacts, AddressFacts
    <3>3. PICK a : a = ReturnWindow(Top) OBVIOUS
    <3>4. a \in Entries /\ a.at = "bankreturn" /\ a.fn = Top.fn
      BY <3>1, <3>2, <3>3, AtType DEF ReturnWindow, Window, Entries, Step
    <3>5. /\ stack' \in Seq(Entries) /\ InCode(stack') = InCode(stack)
          /\ \A i \in InCode(stack) : stack'[i].fn = stack[i].fn
      BY <2>2, <3>1, <3>3, <3>4, CodeReplaced
    <3> QED BY <1>2, <3>5, WaitingStays
  <2> QED BY <1>1, <2>1, <2>2
<1> QED BY <1>1, <1>3, <1>4 DEF Unseen

LEMMA JumpUnseen ==
    ASSUME CallInv, Jump
    PROVE  Unseen
<1>1. /\ pc.at = "jump" /\ stack' = stack /\ result' = result
      /\ pc' = At("body", Home(ptr0), ptr0)
  BY DEF Jump, InTrampoline, Body, Home
<1>2. ptr0 = pc.fn /\ pc.fn \in Function /\ prog \in Program
  BY <1>1, StackFacts DEF CallInv, PcShape, Switching
<1>3. pc'.at = "body" /\ pc'.fn = pc.fn
  <2>1. Home(pc.fn) \in Window BY <1>2, HomeFacts
  <2> QED BY <1>1, <1>2, <2>1, AtType DEF Step
<1>4. Returning' = Returning /\ Value' = Value BY <1>1, <1>3 DEF Returning, Value
<1> QED BY <1>1, <1>3, <1>4, SameStackUnseen DEF Unseen

LEMMA BankReturnUnseen ==
    ASSUME CallInv, BankReturn
    PROVE  Unseen
<1>1. /\ pc.at = "bankreturn" /\ ptr0' = result /\ Pop(1)
      /\ pc' = At("restore", pc.win, pc.fn)
  BY DEF BankReturn, InTrampoline
<1>2. /\ stack # <<>> /\ stack \in Seq(Entries) /\ stack[Len(stack)].at = "source"
      /\ pc.fn \in Function /\ pc.win \in Window
  BY <1>1, StackFacts, DeepFacts DEF CallInv, PcShape, Top
<1>3. pc'.at = "restore" /\ pc'.fn = pc.fn BY <1>1, <1>2, AtType DEF Step
<1>4. /\ stack' \in Seq(Entries) /\ InCode(stack') = InCode(stack)
      /\ \A i \in InCode(stack) : stack'[i].fn = stack[i].fn
  BY <1>1, <1>2, CodePopped DEF Pop
<1>5. Returning' = Returning /\ Value' = Value BY <1>1, <1>3 DEF Returning, Value
<1> QED BY <1>3, <1>4, <1>5, WaitingStays DEF Unseen

LEMMA RestoreUnseen ==
    ASSUME CallInv, Restore
    PROVE  Unseen
<1>1. UNCHANGED <<prog, stack, ptr0, result>> BY DEF Restore
<1>2. /\ pc.at \in {"restore", "restore2"} /\ pc'.fn = pc.fn
      /\ pc'.at \in {"restore", "restore2", "finish"}
  <2>1. CASE FirstAccess("restore", "restore2", "finish")
    BY <1>1, <2>1, FirstAccessFacts DEF Step
  <2>2. CASE SecondAccess("restore2", "finish")
    <3>1. pc.at = "restore2" /\ pc'.at = "finish" /\ pc'.fn = pc.fn
      BY <1>1, <2>2, SecondAccessFacts DEF Step
    <3> QED BY <3>1
  <2> QED BY <2>1, <2>2 DEF Restore
<1>3. Returning' = Returning /\ Value' = Value BY <1>1, <1>2 DEF Returning, Value
<1> QED BY <1>1, <1>2, <1>3, SameStackUnseen DEF Unseen

\* The return into the caller: it waited, and it runs.
LEMMA ResumesUnseen ==
    ASSUME CallInv, stack # <<>>, Pop(1), pc' = Top, Top.at = "body", Returning
    PROVE  Waiting' = Waiting
<1>1. stack \in Seq(Entries) /\ Top = stack[Len(stack)] BY DeepFacts DEF Top
<1>2. ~Returning' BY DEF Returning
<1>3. PICK m \in Nat : m = Len(stack) BY <1>1
<1>4. PICK r : r = stack' OBVIOUS
<1>5. /\ r \in Seq(Entries) /\ InCode(stack) = InCode(r) \cup {m}
      /\ \A i \in InCode(r) : i < m /\ stack[i].fn = r[i].fn
  BY <1>1, <1>3, <1>4, CodePopped DEF Pop
<1>6. PICK c \in Nat : c = Cardinality(InCode(r)) BY <1>5, InCodeFacts
<1>7. /\ Deep = c + 1
      /\ \A n \in Nat : n <= c => Chain(stack, n) = Chain(r, n)
  BY <1>1, <1>5, <1>6, ChainGrows DEF Deep
<1>8. Deep' = c BY <1>4, <1>6 DEF Deep
<1>9. Waiting = Chain(stack, c) BY <1>6, <1>7, WaitingIs
<1>10. Waiting' = Chain(stack', c) BY <1>2, <1>6, <1>8, WaitingIsNext
<1> QED BY <1>4, <1>7, <1>9, <1>10

LEMMA FinishUnseen ==
    ASSUME CallInv, Finish \/ EntryReturn
    PROVE  Unseen
<1>1. /\ pc.at \in {"finish", "entryreturn"} /\ pc' = Top /\ Pop(1)
      /\ result' = IF pc.at = "finish" THEN ptr0 ELSE result
  BY DEF Finish, EntryReturn, InTrampoline
<1>2. stack # <<>> /\ Top.at = "body" /\ Top.fn = pc.fn
  BY <1>1 DEF CallInv, PcShape, Restoring
<1>3. Waiting' = Waiting BY <1>1, <1>2, ResumesUnseen DEF Returning
<1>4. Value' = Value BY <1>1, <1>2 DEF Value
<1> QED BY <1>1, <1>2, <1>3, <1>4 DEF Unseen

LEMMA PlainEntryUnseen ==
    ASSUME CallInv, Entry
    PROVE  Unseen
<1>1. /\ pc.at = "entry" /\ stack' = stack /\ result' = result
      /\ pc' = At("body", Home(pc.fn), pc.fn)
  BY DEF Entry, InTrampoline, Body, Home
<1>2. pc.fn \in Function /\ prog \in Program BY StackFacts
<1>3. pc'.at = "body" /\ pc'.fn = pc.fn
  <2>1. Home(pc.fn) \in Window BY <1>2, HomeFacts
  <2> QED BY <1>1, <1>2, <2>1, AtType DEF Step
<1>4. Returning' = Returning /\ Value' = Value BY <1>1, <1>3 DEF Returning, Value
<1> QED BY <1>1, <1>3, <1>4, SameStackUnseen DEF Unseen

LEMMA BootUnseen ==
    ASSUME CallInv, Boot
    PROVE  Unseen
<1>1. /\ pc.at = "reset" /\ stack' = stack /\ result' = result
      /\ pc' = At("body", Home(prog.main), prog.main)
  BY DEF Boot, Body, Home
<1>2. prog \in Program /\ prog.main \in Function /\ pc.fn = prog.main
  BY <1>1, StackFacts, ProgramFacts DEF CallInv, PcShape
<1>3. pc'.at = "body" /\ pc'.fn = pc.fn
  <2>1. Home(prog.main) \in Window BY <1>2, HomeFacts
  <2> QED BY <1>1, <1>2, <2>1, AtType DEF Step
<1>4. Returning' = Returning /\ Value' = Value BY <1>1, <1>3 DEF Returning, Value
<1> QED BY <1>1, <1>3, <1>4, SameStackUnseen DEF Unseen

LEMMA QuietUnseen ==
    ASSUME CallInv, Settle \/ MapRam \/ UNCHANGED vars
    PROVE  Unseen
<1>1. UNCHANGED <<pc, stack, ptr0, result>> BY DEF Settle, MapRam, vars, cpuVars
<1>2. Returning' = Returning /\ Value' = Value BY <1>1 DEF Returning, Value
<1> QED BY <1>1, <1>2, SameStackUnseen DEF Unseen

\* The function whose code is nearest to the top of the stack waits for the one
\* that returns.
LEMMA TopWaits ==
    ASSUME CallInv, stack # <<>>, Top.at \in {"body", "bankreturn", "entryreturn"}
    PROVE  \E m \in InCode(stack) :
              (\A i \in InCode(stack) : i <= m) /\ stack[m].fn = Top.fn
<1>1. /\ stack \in Seq(Entries) /\ Len(stack) \in Nat \ {0} /\ EntryShape(Len(stack))
      /\ DOMAIN stack = 1..Len(stack) /\ Top = stack[Len(stack)]
  BY DeepFacts, StackFacts DEF Top
<1> PICK n \in Nat \ {0} : n = Len(stack) BY <1>1
<1>2. \A i \in InCode(stack) : i \in 1..n /\ stack[i].at \in {"payload", "body"}
  BY <1>1 DEF InCode
<1>3. CASE Top.at = "body"
  <2>1. n \in InCode(stack) BY <1>1, <1>3 DEF InCode
  <2> QED BY <1>1, <1>2, <2>1
<1>4. CASE Top.at = "entryreturn"
  <2>1. PICK m \in Nat \ {0} : n = m + 1 /\ stack[m].at = "body" /\ stack[m].fn = Top.fn
    BY <1>1, <1>4 DEF EntryShape
  <2>2. m \in InCode(stack) BY <1>1, <2>1 DEF InCode
  <2>3. \A i \in InCode(stack) : i # n BY <1>1, <1>2, <1>4
  <2>4. \A i \in InCode(stack) : i <= m BY <1>2, <2>1, <2>3
  <2> QED BY <2>1, <2>2, <2>4
<1>5. CASE Top.at = "bankreturn"
  <2>1. n > 2 /\ stack[n - 1].at = "source" /\ stack[n - 2].fn = Top.fn
    BY <1>1, <1>5 DEF EntryShape
  <2>2. PICK m \in Nat \ {0} : n = m + 2 BY <2>1
  <2>3. m + 1 \in 1..Len(stack) /\ n - 1 = m + 1 /\ n - 2 = m BY <2>2
  <2>4. PICK j \in 1..Len(stack) : j = m + 1 BY <2>3
  <2>5. EntryShape(j) /\ stack[j].at = "source" BY <2>1, <2>3, <2>4, StackFacts
  <2>6. j - 1 = m /\ stack[m].at = "body" BY <2>4, <2>5 DEF EntryShape
  <2>7. m \in InCode(stack) BY <1>1, <2>2, <2>6 DEF InCode
  <2>8. \A i \in InCode(stack) : i # n /\ i # j BY <1>1, <1>2, <1>5, <2>5
  <2>9. \A i \in InCode(stack) : i <= m BY <1>2, <2>2, <2>4, <2>8
  <2> QED BY <2>1, <2>3, <2>7, <2>9
<1> QED BY <1>3, <1>4, <1>5

LEMMA ReturnReturns ==
    ASSUME CallInv, Return
    PROVE  Far!DoReturn
<1>1. /\ pc.at = "body" /\ stack # <<>> /\ pc' = Top /\ Pop(1) /\ result' = pc.fn
  BY DEF Return, InBody
<1>2. /\ stack \in Seq(Entries) /\ Deep \in Nat /\ EntryShape(Len(stack))
      /\ Top = stack[Len(stack)] /\ Top.at # "source"
  BY <1>1, DeepFacts, StackFacts DEF CallInv, PcShape, Top
<1>3. Top.at \in {"body", "bankreturn", "entryreturn"}
  BY <1>1, <1>2 DEF EntryShape
<1>4. PICK m \in InCode(stack) : (\A i \in InCode(stack) : i <= m) /\ stack[m].fn = Top.fn
  BY <1>1, <1>3, TopWaits
<1>5. Waiting = Chain(stack, Deep) BY <1>1, <1>2, WaitingIs DEF Returning
<1>6. /\ Deep \in Nat \ {0} /\ Chain(stack, Deep)[Deep] = Top.fn
      /\ Chain(stack, Deep - 1) = SubSeq(Chain(stack, Deep), 1, Deep - 1)
  BY <1>2, <1>4, ChainLast DEF Deep
<1>7. Len(Waiting) = Deep /\ Waiting # <<>>
  <2>1. Len(Waiting) = Deep /\ Waiting \in Seq(Function)
    BY <1>2, <1>5, ChainType DEF Deep
  <2> QED BY <1>6, <2>1
<1>8. Waiting' = Chain(stack, Deep - 1)
  <2>1. CASE Top.at = "body"
    <3>1. ~Returning' BY <1>1, <2>1 DEF Returning
    <3>2. PICK n \in Nat : n = Len(stack) BY <1>2
    <3>3. PICK r : r = stack' OBVIOUS
    <3>4. /\ r \in Seq(Entries) /\ InCode(stack) = InCode(r) \cup {n}
          /\ \A i \in InCode(r) : i < n /\ stack[i].fn = r[i].fn
      BY <1>1, <1>2, <2>1, <3>2, <3>3, CodePopped DEF Pop
    <3>5. PICK c \in Nat : c = Cardinality(InCode(r)) BY <3>4, InCodeFacts
    <3>6. /\ Deep = c + 1
          /\ \A l \in Nat : l <= c => Chain(stack, l) = Chain(r, l)
      BY <1>2, <3>4, <3>5, ChainGrows DEF Deep
    <3>7. Deep' = c BY <3>3, <3>5 DEF Deep
    <3>8. Waiting' = Chain(stack', c) BY <3>1, <3>5, <3>7, WaitingIsNext
    <3> QED BY <3>3, <3>5, <3>6, <3>8
  <2>2. CASE Top.at # "body"
    <3>1. Returning' BY <1>1, <1>3, <2>2 DEF Returning
    <3>2. PICK r : r = stack' OBVIOUS
    <3>3. /\ r \in Seq(Entries) /\ InCode(stack) = InCode(r)
          /\ \A i \in InCode(r) : stack[i].fn = r[i].fn
      BY <1>1, <1>2, <1>3, <2>2, <3>2, CodePopped DEF Pop
    <3>4. PICK d \in Int : d = Deep - 1 /\ d <= Cardinality(InCode(stack)) BY <1>2 DEF Deep
    <3>5. Chain(r, d) = Chain(stack, d) BY <1>2, <3>3, <3>4, ChainSame
    <3>6. Deep' = Deep BY <3>2, <3>3 DEF Deep
    <3>7. Waiting' = Chain(stack', d) BY <3>1, <3>4, <3>6, WaitingIsNext
    <3> QED BY <3>2, <3>4, <3>5, <3>7
  <2> QED BY <2>1, <2>2
<1>9. Value' = result' /\ Value = result BY <1>1, <1>3 DEF Value
<1> QED BY <1>1, <1>5, <1>6, <1>7, <1>8, <1>9 DEF Far!DoReturn

LEMMA NobodyWaits ==
    ASSUME stack = <<>>
    PROVE  InCode(stack) = {} /\ Deep = 0 /\ Waiting = <<>>
<1>1. InCode(stack) = {} BY DEF InCode
<1>2. Deep = 0 BY <1>1, FS_EmptySet DEF Deep
<1>3. PICK d \in Int : d = Deep - (IF Returning THEN 1 ELSE 0) /\ d <= 0 BY <1>2
<1>4. Chain(stack, d) = <<>> BY <1>3 DEF Chain
<1> QED BY <1>1, <1>2, <1>3, <1>4, WaitingIs

LEMMA MainEndsRestarts ==
    ASSUME CallInv, MainEnds
    PROVE  Far!DoRestart
<1>1. /\ pc.at = "body" /\ stack = <<>> /\ stack' = stack /\ result' = NoResult
      /\ pc' = At("reset", 0, prog.main)
  BY DEF MainEnds, InBody
<1>2. pc'.at = "reset" /\ pc'.fn = pc.fn
  <2>1. pc.fn = prog.main /\ prog.main \in Function
    BY <1>1, StackFacts DEF CallInv, PcShape
  <2> QED BY <1>1, <2>1, AtType DEF Step, Window
<1>3. Returning' = Returning BY <1>1, <1>2 DEF Returning
<1>4. Waiting' = Waiting BY <1>1, <1>3, SameStackUnseen
<1>5. Waiting = <<>> BY <1>1, NobodyWaits
<1>6. Value' = NoResult BY <1>1, <1>2 DEF Value
<1> QED BY <1>2, <1>4, <1>5, <1>6 DEF Far!DoRestart

LEMMA CallStep ==
    ASSUME CallInv, [Next]_vars
    PROVE  [Far!CallNext]_Far!callVars
<1>1. CASE Trampoline
  <2>1. Unseen
    BY <1>1, BootUnseen, BankCallUnseen, SwitchUnseen, JumpUnseen, BankReturnUnseen,
       RestoreUnseen, FinishUnseen, PlainEntryUnseen DEF Trampoline
  <2> QED BY <2>1 DEF Unseen, Far!callVars
<1>2. CASE Settle \/ MapRam \/ UNCHANGED vars
  <2>1. Unseen BY <1>2, QuietUnseen
  <2> QED BY <2>1 DEF Unseen, Far!callVars
<1>3. CASE \E g \in Function : CallDirect(g) \/ CallBundle(g) \/ CallEntry(g)
  <2>1. \E g \in Function : Far!DoCall(g) BY <1>3, CallDirectCalls, CallEntryCalls
  <2> QED BY <2>1 DEF Far!CallNext
<1>4. CASE Return BY <1>4, ReturnReturns DEF Far!CallNext
<1>5. CASE MainEnds BY <1>5, MainEndsRestarts DEF Far!CallNext
<1> QED BY <1>1, <1>2, <1>3, <1>4, <1>5 DEF Next

LEMMA CallStart ==
    ASSUME Init
    PROVE  Far!CallInit
<1>1. /\ prog \in Program /\ stack = <<>> /\ pc = At("reset", 0, prog.main)
      /\ result = NoResult
  BY DEF Init
<1>2. pc.at = "reset" /\ pc.fn \in Function
  BY <1>1, ProgramFacts, AtType DEF Step, Window
<1>3. Waiting = <<>> BY <1>1, NobodyWaits
<1>4. Value = NoResult BY <1>1, <1>2 DEF Value
<1> QED BY <1>2, <1>3, <1>4 DEF Far!CallInit

\* Calls behave as calls on every mapper: a callee returns to the function that
\* called it, with its value, whatever bank each of them is in.
THEOREM CallsAsFarCallsHolds == Spec => CallsAsFarCalls
<1>1. Init => CallInv /\ Far!CallInit BY CallInvInit, CallStart
<1>2. CallInv /\ [Next]_vars => CallInv' BY CallInvStep
<1>3. CallInv /\ [Next]_vars => [Far!CallNext]_Far!callVars BY CallStep
<1> QED BY <1>1, <1>2, <1>3, PTL DEF Spec, CallsAsFarCalls, Far!CallSpec

-----------------------------------------------------------------------------
(* The mappings that the stack names. *)

LEMMA MarksFacts ==
    ASSUME NEW q \in Seq(Entries)
    PROVE  /\ Len(q) \in Nat /\ Marks(q) \in SUBSET (1..Len(q))
           /\ \A k : k \in Marks(q) <=> k \in 1..Len(q) /\ IsMark(q[k])
BY DEF Marks

LEMMA MarkOrCode ==
    ASSUME NEW e, IsMark(e)
    PROVE  ~IsCode(e)
BY DEF IsMark, IsCode

\* Something is pushed that names no mapping, and that suits the one in force.
LEMMA PushPlain ==
    ASSUME NEW p, NEW q \in Seq(Entries), NEW e \in Entries, ~IsMark(e), Levels(p, q)
    PROVE  /\ Levels(p, q \o <<e>>)
           /\ \A s : Levelled(p, q, s) /\ (IsCode(e) => Shows(p, s, e.fn))
                        => Levelled(p, q \o <<e>>, s)
<1> PICK n \in Nat : n = Len(q) OBVIOUS
<1> PICK r : r = q \o <<e>> OBVIOUS
<1>1. /\ r \in Seq(Entries) /\ Len(r) = n + 1 /\ r[n + 1] = e
      /\ \A i \in 1..n : r[i] = q[i]
  BY Pushed
<1>2. Marks(r) = Marks(q) /\ \A k \in Marks(q) : k \in 1..n
  <2>1. \A k : k \in Marks(q) <=> k \in 1..n /\ IsMark(q[k]) BY MarksFacts
  <2>2. \A k : k \in Marks(r) <=> k \in 1..(n + 1) /\ IsMark(r[k]) BY <1>1, MarksFacts
  <2>3. 1..(n + 1) = (1..n) \cup {n + 1} OBVIOUS
  <2>4. \A k : k \in Marks(r) <=> k \in Marks(q) BY <1>1, <2>1, <2>2, <2>3
  <2> QED BY <2>1, <2>4
<1>3. \A i \in 0..n : \A s : Suits(p, r, i, s) <=> Suits(p, q, i, s)
  <2> SUFFICES ASSUME NEW i \in 0..n, NEW s PROVE Suits(p, r, i, s) <=> Suits(p, q, i, s)
    OBVIOUS
  <2>1. i = 0 \/ (i # 0 /\ i \in 1..n) OBVIOUS
  <2> QED BY <1>1, <2>1 DEF Suits
<1>4. \A k \in Marks(q) : r[k] = q[k] BY <1>1, <1>2
<1>5. Levels(p, r)
  <2>1. ASSUME NEW i \in 0..Len(r), NEW j \in Marks(r), i < j,
               \A k \in Marks(r) : k <= i \/ j <= k
        PROVE  Suits(p, r, i, Level(p, r[j]))
    <3>1. j \in Marks(q) /\ i \in 0..n /\ r[j] = q[j] BY <1>1, <1>2, <1>4, <2>1
    <3>2. Suits(p, q, i, Level(p, q[j])) BY <1>2, <2>1, <3>1 DEF Levels
    <3> QED BY <1>3, <3>1, <3>2
  <2>2. p.family = "pair" => \A j \in Marks(r) : r[j].at = "source" => r[j].byte \in 0..2
    BY <1>2, <1>4 DEF Levels
  <2> QED BY <2>1, <2>2 DEF Levels
<1>6. ASSUME NEW s, Levelled(p, q, s), IsCode(e) => Shows(p, s, e.fn)
      PROVE  Levelled(p, r, s)
  <2> SUFFICES ASSUME NEW i \in 0..Len(r), \A k \in Marks(r) : k <= i
               PROVE  Suits(p, r, i, s)
    BY DEF Levelled
  <2>1. CASE i = n + 1 BY <1>1, <1>6, <2>1 DEF Suits
  <2>2. CASE i # n + 1
    <3>1. i \in 0..n BY <1>1, <2>2
    <3>2. Suits(p, q, i, s) BY <1>2, <1>6, <3>1 DEF Levelled
    <3> QED BY <1>3, <3>1, <3>2
  <2> QED BY <2>1, <2>2
<1> QED BY <1>5, <1>6

\* What is pushed names the mapping in force.
LEMMA PushMark ==
    ASSUME NEW p, NEW q \in Seq(Entries), NEW e \in Entries, IsMark(e), Levels(p, q),
           Levelled(p, q, Level(p, e)),
           p.family = "pair" /\ e.at = "source" => e.byte \in 0..2
    PROVE  Levels(p, q \o <<e>>) /\ \A s : Levelled(p, q \o <<e>>, s)
<1> PICK n \in Nat : n = Len(q) OBVIOUS
<1> PICK r : r = q \o <<e>> OBVIOUS
<1>1. /\ r \in Seq(Entries) /\ Len(r) = n + 1 /\ r[n + 1] = e
      /\ \A i \in 1..n : r[i] = q[i]
  BY Pushed
<1>2. /\ \A k : k \in Marks(r) <=> k \in Marks(q) \/ k = n + 1
      /\ \A k \in Marks(q) : k \in 1..n
  <2>1. \A k : k \in Marks(q) <=> k \in 1..n /\ IsMark(q[k]) BY MarksFacts
  <2>2. \A k : k \in Marks(r) <=> k \in 1..(n + 1) /\ IsMark(r[k]) BY <1>1, MarksFacts
  <2>3. 1..(n + 1) = (1..n) \cup {n + 1} OBVIOUS
  <2>4. \A k : k \in Marks(r) <=> k \in Marks(q) \/ k = n + 1
    BY <1>1, <2>1, <2>2, <2>3
  <2> QED BY <2>1, <2>4
<1>3. \A i \in 0..n : \A s : Suits(p, r, i, s) <=> Suits(p, q, i, s)
  <2> SUFFICES ASSUME NEW i \in 0..n, NEW s PROVE Suits(p, r, i, s) <=> Suits(p, q, i, s)
    OBVIOUS
  <2>1. i = 0 \/ (i # 0 /\ i \in 1..n) OBVIOUS
  <2> QED BY <1>1, <2>1 DEF Suits
<1>4. \A k \in Marks(q) : r[k] = q[k] BY <1>1, <1>2
<1>5. Levels(p, r)
  <2>1. ASSUME NEW i \in 0..Len(r), NEW j \in Marks(r), i < j,
               \A k \in Marks(r) : k <= i \/ j <= k
        PROVE  Suits(p, r, i, Level(p, r[j]))
    <3>1. CASE j = n + 1
      <4>1. i \in 0..n BY <1>1, <2>1, <3>1
      <4>2. \A k \in Marks(q) : k <= i BY <1>2, <2>1, <3>1, <4>1
      <4>3. Suits(p, q, i, Level(p, e)) BY <4>1, <4>2 DEF Levelled
      <4> QED BY <1>1, <1>3, <3>1, <4>1, <4>3
    <3>2. CASE j # n + 1
      <4>1. j \in Marks(q) /\ r[j] = q[j] BY <1>2, <1>4, <3>2
      <4>2. i \in 0..n BY <1>1, <1>2, <2>1, <4>1
      <4>3. Suits(p, q, i, Level(p, q[j])) BY <1>2, <2>1, <4>1, <4>2 DEF Levels
      <4> QED BY <1>3, <4>1, <4>2, <4>3
    <3> QED BY <3>1, <3>2
  <2>2. p.family = "pair" => \A j \in Marks(r) : r[j].at = "source" => r[j].byte \in 0..2
    BY <1>1, <1>2, <1>4 DEF Levels
  <2> QED BY <2>1, <2>2 DEF Levels
<1>6. ASSUME NEW s PROVE Levelled(p, r, s)
  <2> SUFFICES ASSUME NEW i \in 0..Len(r), \A k \in Marks(r) : k <= i
               PROVE  Suits(p, r, i, s)
    BY DEF Levelled
  <2>1. n + 1 <= i BY <1>2
  <2>2. i = n + 1 BY <1>1, <2>1
  <2>3. ~IsCode(r[i]) BY <1>1, <2>2, MarkOrCode
  <2> QED BY <2>2, <2>3 DEF Suits
<1> QED BY <1>5, <1>6

\* What is popped names no mapping.
LEMMA PopPlain ==
    ASSUME NEW p, NEW q \in Seq(Entries), q # <<>>, ~IsMark(q[Len(q)]), Levels(p, q),
           NEW r, r = SubSeq(q, 1, Len(q) - 1)
    PROVE  /\ Levels(p, r)
           /\ \A s : Levelled(p, q, s) =>
                 /\ Levelled(p, r, s)
                 /\ IsCode(q[Len(q)]) => Shows(p, s, q[Len(q)].fn)
<1> PICK n \in Nat \ {0} : n = Len(q) OBVIOUS
<1> PICK m \in Nat : n = m + 1 BY OneLess, Zenon
<1>0. /\ r \in Seq(Entries) /\ Len(r) = Len(q) - 1
      /\ \A i \in 1..(Len(q) - 1) : r[i] = q[i]
  BY Popped
<1>1. /\ r \in Seq(Entries) /\ Len(r) = m /\ \A i \in 1..m : r[i] = q[i]
  BY <1>0
<1>2. Marks(r) = Marks(q) /\ \A k \in Marks(q) : k \in 1..m
  <2>1. \A k : k \in Marks(q) <=> k \in 1..n /\ IsMark(q[k]) BY MarksFacts
  <2>2. \A k : k \in Marks(r) <=> k \in 1..m /\ IsMark(r[k]) BY <1>1, MarksFacts
  <2>3. 1..n = (1..m) \cup {n} OBVIOUS
  <2>4. \A k : k \in Marks(r) <=> k \in Marks(q) BY <1>1, <2>1, <2>2, <2>3
  <2> QED BY <2>2, <2>4
<1>3. \A i \in 0..m : \A s : Suits(p, r, i, s) <=> Suits(p, q, i, s)
  <2> SUFFICES ASSUME NEW i \in 0..m, NEW s PROVE Suits(p, r, i, s) <=> Suits(p, q, i, s)
    OBVIOUS
  <2>1. i = 0 \/ (i # 0 /\ i \in 1..m) OBVIOUS
  <2> QED BY <1>1, <2>1 DEF Suits
<1>4. \A k \in Marks(q) : r[k] = q[k] BY <1>1, <1>2
<1>5. Levels(p, r)
  <2>1. ASSUME NEW i \in 0..Len(r), NEW j \in Marks(r), i < j,
               \A k \in Marks(r) : k <= i \/ j <= k
        PROVE  Suits(p, r, i, Level(p, r[j]))
    <3>1. j \in Marks(q) /\ i \in 0..m /\ i \in 0..n /\ r[j] = q[j]
      BY <1>1, <1>2, <1>4, <2>1
    <3>2. Suits(p, q, i, Level(p, q[j])) BY <1>2, <2>1, <3>1 DEF Levels
    <3> QED BY <1>3, <3>1, <3>2
  <2>2. p.family = "pair" => \A j \in Marks(r) : r[j].at = "source" => r[j].byte \in 0..2
    BY <1>2, <1>4 DEF Levels
  <2> QED BY <2>1, <2>2 DEF Levels
<1>6. ASSUME NEW s, Levelled(p, q, s)
      PROVE  Levelled(p, r, s) /\ (IsCode(q[n]) => Shows(p, s, q[n].fn))
  <2>1. Levelled(p, r, s)
    <3> SUFFICES ASSUME NEW i \in 0..Len(r), \A k \in Marks(r) : k <= i
                 PROVE  Suits(p, r, i, s)
      BY DEF Levelled
    <3>1. i \in 0..m /\ i \in 0..n BY <1>1
    <3>2. Suits(p, q, i, s) BY <1>2, <1>6, <3>1 DEF Levelled
    <3> QED BY <1>3, <3>1, <3>2
  <2>2. IsCode(q[n]) => Shows(p, s, q[n].fn)
    <3>1. n \in 0..n /\ n # 0 /\ \A k \in Marks(q) : k <= n BY <1>2
    <3>2. Suits(p, q, n, s) BY <1>6, <3>1 DEF Levelled
    <3> QED BY <3>1, <3>2 DEF Suits
  <2> QED BY <2>1, <2>2
<1> QED BY <1>5, <1>6

\* What is popped names the mapping that suits what is left.
LEMMA PopMark ==
    ASSUME NEW p, NEW q \in Seq(Entries), q # <<>>, IsMark(q[Len(q)]), Levels(p, q),
           NEW r, r = SubSeq(q, 1, Len(q) - 1)
    PROVE  /\ Levels(p, r) /\ Levelled(p, r, Level(p, q[Len(q)]))
           /\ p.family = "pair" /\ q[Len(q)].at = "source" => q[Len(q)].byte \in 0..2
<1> PICK n \in Nat \ {0} : n = Len(q) OBVIOUS
<1> PICK m \in Nat : n = m + 1 BY OneLess, Zenon
<1>0. /\ r \in Seq(Entries) /\ Len(r) = Len(q) - 1
      /\ \A i \in 1..(Len(q) - 1) : r[i] = q[i]
  BY Popped
<1>1. /\ r \in Seq(Entries) /\ Len(r) = m /\ \A i \in 1..m : r[i] = q[i]
  BY <1>0
<1>2. /\ \A k : k \in Marks(q) <=> k \in Marks(r) \/ k = n
      /\ \A k \in Marks(r) : k \in 1..m
  <2>1. \A k : k \in Marks(q) <=> k \in 1..n /\ IsMark(q[k]) BY MarksFacts
  <2>2. \A k : k \in Marks(r) <=> k \in 1..m /\ IsMark(r[k]) BY <1>1, MarksFacts
  <2>3. 1..n = (1..m) \cup {n} OBVIOUS
  <2>4. \A k : k \in Marks(q) <=> k \in Marks(r) \/ k = n BY <1>1, <2>1, <2>2, <2>3
  <2> QED BY <2>2, <2>4
<1>3. \A i \in 0..m : \A s : Suits(p, r, i, s) <=> Suits(p, q, i, s)
  <2> SUFFICES ASSUME NEW i \in 0..m, NEW s PROVE Suits(p, r, i, s) <=> Suits(p, q, i, s)
    OBVIOUS
  <2>1. i = 0 \/ (i # 0 /\ i \in 1..m) OBVIOUS
  <2> QED BY <1>1, <2>1 DEF Suits
<1>4. \A k \in Marks(r) : r[k] = q[k] BY <1>1, <1>2
<1>5. Levels(p, r)
  <2>1. ASSUME NEW i \in 0..Len(r), NEW j \in Marks(r), i < j,
               \A k \in Marks(r) : k <= i \/ j <= k
        PROVE  Suits(p, r, i, Level(p, r[j]))
    <3>1. j \in Marks(q) /\ i \in 0..m /\ i \in 0..n /\ r[j] = q[j] /\ j <= n
      BY <1>1, <1>2, <1>4, <2>1
    <3>2. \A k \in Marks(q) : k <= i \/ j <= k BY <1>2, <2>1, <3>1
    <3>3. Suits(p, q, i, Level(p, q[j])) BY <2>1, <3>1, <3>2 DEF Levels
    <3> QED BY <1>3, <3>1, <3>3
  <2>2. p.family = "pair" => \A j \in Marks(r) : r[j].at = "source" => r[j].byte \in 0..2
    BY <1>2, <1>4 DEF Levels
  <2> QED BY <2>1, <2>2 DEF Levels
<1>6. Levelled(p, r, Level(p, q[n]))
  <2> SUFFICES ASSUME NEW i \in 0..Len(r), \A k \in Marks(r) : k <= i
               PROVE  Suits(p, r, i, Level(p, q[n]))
    BY DEF Levelled
  <2>1. i \in 0..m /\ i \in 0..n /\ i < n /\ n \in Marks(q) BY <1>1, <1>2
  <2>2. \A k \in Marks(q) : k <= i \/ n <= k BY <1>2
  <2>3. Suits(p, q, i, Level(p, q[n])) BY <2>1, <2>2 DEF Levels
  <2> QED BY <1>3, <2>1, <2>3
<1>7. n \in Marks(q) BY <1>2
<1>8. p.family = "pair" /\ q[n].at = "source" => q[n].byte \in 0..2 BY <1>7 DEF Levels
<1> QED BY <1>5, <1>6, <1>8

\* The top is replaced by another that tells the same.
LEMMA ReplacePlain ==
    ASSUME NEW p, NEW q \in Seq(Entries), q # <<>>, NEW e \in Entries,
           ~IsMark(q[Len(q)]), ~IsMark(e), IsCode(e) <=> IsCode(q[Len(q)]),
           e.fn = q[Len(q)].fn, Levels(p, q)
    PROVE  /\ Levels(p, [q EXCEPT ![Len(q)] = e])
           /\ \A s : Levelled(p, q, s) => Levelled(p, [q EXCEPT ![Len(q)] = e], s)
<1> PICK n \in Nat \ {0} : n = Len(q) OBVIOUS
<1> PICK r : r = [q EXCEPT ![Len(q)] = e] OBVIOUS
<1>1. /\ r \in Seq(Entries) /\ Len(r) = n /\ r[n] = e
      /\ \A i \in 1..(n - 1) : r[i] = q[i]
  BY Replaced
<1>0. \A k \in 1..n : k = n \/ k \in 1..(n - 1) OBVIOUS
<1>2. Marks(r) = Marks(q) /\ \A k \in Marks(q) : k \in 1..(n - 1)
  <2>1. \A k : k \in Marks(q) <=> k \in 1..n /\ IsMark(q[k]) BY MarksFacts
  <2>2. \A k : k \in Marks(r) <=> k \in 1..n /\ IsMark(r[k]) BY <1>1, MarksFacts
  <2>3. \A k \in 1..n : IsMark(r[k]) <=> IsMark(q[k]) BY <1>0, <1>1
  <2>4. \A k : k \in Marks(r) <=> k \in Marks(q) BY <2>1, <2>2, <2>3
  <2>5. \A k \in Marks(q) : k # n BY <2>1
  <2> QED BY <1>0, <2>1, <2>4, <2>5
<1>3. \A i \in 0..n : \A s : Suits(p, r, i, s) <=> Suits(p, q, i, s)
  <2> SUFFICES ASSUME NEW i \in 0..n, NEW s PROVE Suits(p, r, i, s) <=> Suits(p, q, i, s)
    OBVIOUS
  <2>1. i = 0 \/ i = n \/ (i # 0 /\ i \in 1..(n - 1)) OBVIOUS
  <2> QED BY <1>1, <2>1 DEF Suits
<1>4. \A k \in Marks(q) : r[k] = q[k] BY <1>1, <1>2
<1>5. Levels(p, r)
  <2>1. ASSUME NEW i \in 0..Len(r), NEW j \in Marks(r), i < j,
               \A k \in Marks(r) : k <= i \/ j <= k
        PROVE  Suits(p, r, i, Level(p, r[j]))
    <3>1. j \in Marks(q) /\ i \in 0..n /\ r[j] = q[j] BY <1>1, <1>2, <1>4, <2>1
    <3>2. Suits(p, q, i, Level(p, q[j])) BY <1>2, <2>1, <3>1 DEF Levels
    <3> QED BY <1>3, <3>1, <3>2
  <2>2. p.family = "pair" => \A j \in Marks(r) : r[j].at = "source" => r[j].byte \in 0..2
    BY <1>2, <1>4 DEF Levels
  <2> QED BY <2>1, <2>2 DEF Levels
<1>6. ASSUME NEW s, Levelled(p, q, s) PROVE Levelled(p, r, s)
  <2> SUFFICES ASSUME NEW i \in 0..Len(r), \A k \in Marks(r) : k <= i
               PROVE  Suits(p, r, i, s)
    BY DEF Levelled
  <2>1. i \in 0..n BY <1>1
  <2>2. Suits(p, q, i, s) BY <1>2, <1>6, <2>1 DEF Levelled
  <2> QED BY <1>3, <2>1, <2>2
<1> QED BY <1>5, <1>6

-----------------------------------------------------------------------------
(* The mapper shows what the stack names. *)

LEMMA FamilyFacts ==
    ASSUME prog \in Program
    PROVE  /\ Single(prog) \/ Fixed(prog) \/ prog.family = "pair"
           /\ Single(prog) => ~Fixed(prog) /\ prog.family # "pair"
           /\ Fixed(prog) => prog.family # "pair"
           /\ Selecting(prog) => Single(prog)
           /\ Fixed(prog) <=> prog.family \in {"fixed", "fixedRam"}
           /\ Single(prog) <=> prog.family \in {"selector", "advance", "delayed", "staged",
                                                "stackbus"}
           /\ Selecting(prog) <=> prog.family \in {"selector", "delayed"}
BY ProgramFacts DEF Single, Fixed, Selecting, Family

LEMMA DescriptorFacts ==
    ASSUME prog \in Program, NEW b \in Bank
    PROVE  /\ Single(prog) => Descriptor(prog, b) = b /\ HomeWindow(prog, b) = 0
           /\ Fixed(prog) =>
                \/ b = NBank - 1 /\ Descriptor(prog, b) = NoSwitch /\ HomeWindow(prog, b) = 1
                \/ b # NBank - 1 /\ Descriptor(prog, b) = b /\ b \in 0..(NBank - 2)
                   /\ HomeWindow(prog, b) = 0
           /\ prog.family = "pair" =>
                /\ NBank = 8
                /\ \/ b >= 6 /\ Descriptor(prog, b) = NoSwitch /\ HomeWindow(prog, b) = b - 4
                   \/ b < 6 /\ Descriptor(prog, b) = b \div 2 /\ b \div 2 \in 0..2
                      /\ HomeWindow(prog, b) = b % 2
<1>1. b \in Nat /\ b < NBank BY BankFacts
<1>2. Single(prog) => Descriptor(prog, b) = b /\ HomeWindow(prog, b) = 0
  BY FamilyFacts DEF Descriptor, HomeWindow
<1>3. Fixed(prog) => ~Single(prog) /\ prog.family # "pair" BY FamilyFacts
<1>4. Fixed(prog) =>
        \/ b = NBank - 1 /\ Descriptor(prog, b) = NoSwitch /\ HomeWindow(prog, b) = 1
        \/ b # NBank - 1 /\ Descriptor(prog, b) = b /\ b \in 0..(NBank - 2)
           /\ HomeWindow(prog, b) = 0
  BY <1>1, <1>3, BankFacts DEF Descriptor, HomeWindow
<1>5. prog.family = "pair" => NBank = 8 /\ ~Single(prog) /\ ~Fixed(prog)
  BY FamilyFacts, ProgramFacts
<1>6. prog.family = "pair" =>
        \/ b >= 6 /\ Descriptor(prog, b) = NoSwitch /\ HomeWindow(prog, b) = b - 4
        \/ b < 6 /\ Descriptor(prog, b) = b \div 2 /\ b \div 2 \in 0..2
           /\ HomeWindow(prog, b) = b % 2
  BY <1>1, <1>5 DEF Descriptor, HomeWindow
<1> QED BY <1>2, <1>4, <1>5, <1>6

LEMMA MappingNext ==
    ASSUME CallInv, MappingInv, prog' = prog,
           Bridged(prog) /\ prog.family # "stackbus" =>
             /\ Levels(prog, stack')
             /\ \E s \in 0..NoSwitch : Now(s)' /\ Levelled(prog, stack', s)
    PROVE  MappingInv'
BY SameProgram DEF MappingInv

LEMMA NowNext ==
    ASSUME NEW s, prog' = prog
    PROVE  /\ pc'.at = "body" /\ pending' = NoSwitch /\ MapIs(s)' /\ Shows(prog, s, pc'.fn)
                 => Now(s)'
           /\ pc'.at \in {"bankcall", "bankreturn", "entry"} /\ pending' = NoSwitch /\ MapIs(s)'
                 => Now(s)'
           /\ pc'.at = "switch" /\ pending' = NoSwitch /\ Encodes(s)' /\ Shows(prog, s, pc'.fn)
                 => Now(s)'
           /\ pc'.at = "switch2" /\ pending' = NoSwitch /\ HalfDone(s)' /\ Shows(prog, s, pc'.fn)
                 => Now(s)'
           /\ pc'.at = "jump" /\ Arrives(s)' /\ Shows(prog, s, pc'.fn) => Now(s)'
           /\ pc'.at = "restore" /\ pending' = NoSwitch /\ Encodes(s)' => Now(s)'
           /\ pc'.at = "restore2" /\ pending' = NoSwitch /\ HalfDone(s)' => Now(s)'
           /\ pc'.at = "finish" /\ Arrives(s)' => Now(s)'
           /\ pc'.at = "entryreturn" /\ pending' = NoSwitch /\ s = Descriptor(prog, prog.bank[pc'.fn])
              /\ (\E t \in Bank : MapIs(t)') => Now(s)'
BY DEF Now, Switching, Desc

LEMMA MapStays ==
    ASSUME NEW s, UNCHANGED <<prog, map, shadow>>
    PROVE  MapIs(s)' <=> MapIs(s)
BY SameProgram DEF MapIs

\* What the steps before tell.
LEMMA NowFacts ==
    ASSUME NEW s, Now(s)
    PROVE  /\ pc.at \notin {"jump", "finish"} => pending = NoSwitch
           /\ pc.at = "body" => MapIs(s) /\ Shows(prog, s, pc.fn)
           /\ pc.at \in {"bankcall", "bankreturn", "entry"} => MapIs(s)
           /\ pc.at \in {"switch", "restore"} => Encodes(s)
           /\ pc.at \in {"switch2", "restore2"} => HalfDone(s)
           /\ pc.at \in {"jump", "finish"} => Arrives(s)
           /\ pc.at \in {"switch", "switch2", "jump"} => Shows(prog, s, pc.fn)
           /\ pc.at = "entryreturn" =>
                s = Descriptor(prog, prog.bank[pc.fn]) /\ \E t \in Bank : MapIs(t)
BY DEF Now, Switching, Desc

\* A callee that is visible from its caller suits the mapping of its caller.
LEMMA DirectShows ==
    ASSUME prog \in Program, prog.family # "stackbus", NEW f \in Function, NEW g \in Function,
           <<f, g>> \in prog.call \ (prog.bundle \cup Crossing(prog)), NEW s, Shows(prog, s, f)
    PROVE  Shows(prog, s, g)
<1>1. DirectlyVisible(prog, prog.bank[f], prog.bank[g])
  <2>1. <<f, g>> \in prog.call \ prog.bundle BY Zenon
  <2>2. <<f, g>>[1] = f /\ <<f, g>>[2] = g OBVIOUS
  <2>3. <<f, g>> \notin Crossing(prog) BY Zenon
  <2> QED BY <2>1, <2>2, <2>3 DEF Crossing
<1>2. prog.bank[f] \in Bank /\ prog.bank[g] \in Bank BY ProgramFacts
<1>3. CASE prog.bank[f] = prog.bank[g] BY <1>3 DEF Shows
<1>4. CASE prog.family = "pair" /\ prog.bank[g] >= 6
  BY <1>2, <1>4, DescriptorFacts, BankFacts DEF Shows
<1>5. CASE /\ prog.family = "pair" /\ ~(prog.bank[g] >= 6)
           /\ prog.bank[f] < 6 /\ prog.bank[f] \div 2 = prog.bank[g] \div 2
  <2>1. prog.bank[f] \in Nat /\ prog.bank[g] \in Nat BY <1>2, BankFacts
  <2>2. /\ Descriptor(prog, prog.bank[f]) = prog.bank[f] \div 2
        /\ Descriptor(prog, prog.bank[g]) = prog.bank[g] \div 2
    BY <1>2, <1>5, <2>1, DescriptorFacts
  <2> QED BY <1>5, <2>2 DEF Shows
<1> QED BY <1>1, <1>3, <1>4, <1>5 DEF DirectlyVisible

LEMMA CallDirectMaps ==
    ASSUME CallInv, MappingInv, NEW g \in Function, CallDirect(g)
    PROVE  MappingInv'
<1>1. /\ pc.at = "body" /\ UNCHANGED <<prog, shadow, pending>>
      /\ stack' = stack \o <<Resume>> /\ pc' = Body(g) /\ map' = StackBus(Len(stack), g)
      /\ <<pc.fn, g>> \in prog.call \ (prog.bundle \cup Crossing(prog))
  BY DEF CallDirect, InBody, Push
<1>2. /\ prog \in Program /\ stack \in Seq(Entries) /\ pc.fn \in Function
      /\ pc.win \in Window /\ Home(g) \in Window
  BY StackFacts, DeepFacts, HomeFacts
<1>3. Resume \in Entries /\ Resume.at = "body" /\ Resume.fn = pc.fn
  BY <1>2, AtType DEF Resume, Entries, Step
<1>4. pc'.at = "body" /\ pc'.fn = g BY <1>1, <1>2, AtType DEF Body, Home, Step
<1> SUFFICES ASSUME Bridged(prog), prog.family # "stackbus"
             PROVE  /\ Levels(prog, stack')
                    /\ \E s \in 0..NoSwitch : Now(s)' /\ Levelled(prog, stack', s)
  BY <1>1, MappingNext
<1>5. PICK s \in 0..NoSwitch : Now(s) /\ Levelled(prog, stack, s) BY DEF MappingInv
<1>6. MapIs(s) /\ Shows(prog, s, pc.fn) /\ pending = NoSwitch BY <1>1, <1>5, NowFacts
<1>7. map' = map BY <1>1 DEF StackBus
<1>8. Shows(prog, s, g) BY <1>1, <1>2, <1>6, DirectShows
<1>9. Levels(prog, stack') /\ Levelled(prog, stack', s)
  <2>1. Levels(prog, stack) BY DEF MappingInv
  <2>2. ~IsMark(Resume) /\ Shows(prog, s, Resume.fn) BY <1>3, <1>6 DEF IsMark
  <2> QED BY <1>1, <1>2, <1>3, <1>5, <2>1, <2>2, PushPlain
<1>10. Now(s)' BY <1>1, <1>4, <1>6, <1>7, <1>8, MapStays, NowNext
<1> QED BY <1>9, <1>10

LEMMA CallBundleMaps ==
    ASSUME CallInv, MappingInv, NEW g \in Function, CallBundle(g)
    PROVE  MappingInv'
<1> DEFINE e == At("payload", pc.win, pc.fn)
<1>1. /\ pc.at = "body" /\ UNCHANGED <<prog, map, shadow, pending>>
      /\ stack' = stack \o <<e>> /\ pc' = At("bankcall", pc.win, g)
  BY DEF CallBundle, InBody, Push, mapperVars
<1>2. /\ prog \in Program /\ stack \in Seq(Entries) /\ pc.fn \in Function /\ pc.win \in Window
  BY StackFacts, DeepFacts
<1>3. e \in Entries /\ e.at = "payload" /\ e.fn = pc.fn
  BY <1>2, AtType DEF Entries, Step
<1>4. pc'.at = "bankcall" BY <1>1, <1>2, AtType DEF Step
<1> HIDE DEF e
<1> SUFFICES ASSUME Bridged(prog), prog.family # "stackbus"
             PROVE  /\ Levels(prog, stack')
                    /\ \E s \in 0..NoSwitch : Now(s)' /\ Levelled(prog, stack', s)
  BY <1>1, MappingNext
<1>5. PICK s \in 0..NoSwitch : Now(s) /\ Levelled(prog, stack, s) BY DEF MappingInv
<1>6. MapIs(s) /\ Shows(prog, s, pc.fn) /\ pending = NoSwitch BY <1>1, <1>5, NowFacts
<1>7. Levels(prog, stack') /\ Levelled(prog, stack', s)
  <2>1. Levels(prog, stack) BY DEF MappingInv
  <2>2. ~IsMark(e) /\ Shows(prog, s, e.fn) BY <1>3, <1>6 DEF IsMark
  <2> QED BY <1>1, <1>2, <1>3, <1>5, <2>1, <2>2, PushPlain
<1>8. Now(s)' BY <1>1, <1>4, <1>6, MapStays, NowNext
<1> QED BY <1>7, <1>8

LEMMA CallEntryMaps ==
    ASSUME CallInv, MappingInv, NEW g \in Function, CallEntry(g)
    PROVE  MappingInv'
<1> DEFINE e == At("entryreturn", pc.win, pc.fn)
           w == HomeWindow(prog, StartupBank(prog))
<1>1. /\ pc.at = "body" /\ UNCHANGED <<prog, map, shadow, pending>>
      /\ stack' = stack \o <<Resume, e>> /\ pc' = At("entry", w, g) /\ Crossing(prog) # {}
  BY DEF CallEntry, InBody, Push, mapperVars
<1>2. /\ prog \in Program /\ stack \in Seq(Entries) /\ pc.fn \in Function /\ pc.win \in Window
      /\ w \in Window /\ prog.bank[pc.fn] \in Bank
  BY StackFacts, DeepFacts, StartupFacts, ProgramFacts
<1>3. /\ e \in Entries /\ e.at = "entryreturn" /\ e.fn = pc.fn
      /\ Resume \in Entries /\ Resume.at = "body" /\ Resume.fn = pc.fn
  BY <1>2, AtType DEF Resume, Entries, Step
<1>4. pc'.at = "entry" BY <1>1, <1>2, AtType DEF Step
<1> HIDE DEF e, w
<1> SUFFICES ASSUME Bridged(prog), prog.family # "stackbus"
             PROVE  /\ Levels(prog, stack')
                    /\ \E s \in 0..NoSwitch : Now(s)' /\ Levelled(prog, stack', s)
  BY <1>1, MappingNext
<1>5. PICK s \in 0..NoSwitch : Now(s) /\ Levelled(prog, stack, s) BY DEF MappingInv
<1>6. MapIs(s) /\ Shows(prog, s, pc.fn) /\ pending = NoSwitch BY <1>1, <1>5, NowFacts
<1>7. PICK q : q = stack \o <<Resume>> OBVIOUS
<1>8. q \in Seq(Entries) /\ stack' = q \o <<e>>
  <2>1. q \in Seq(Entries) BY <1>2, <1>3, <1>7, Pushed
  <2>2. stack' = q \o <<e>> BY <1>1, <1>2, <1>3, <1>7, TwoPushes, Zenon
  <2> QED BY <2>1, <2>2
<1>9. Levels(prog, q) /\ Levelled(prog, q, s)
  <2>1. Levels(prog, stack) BY DEF MappingInv
  <2>2. ~IsMark(Resume) /\ Shows(prog, s, Resume.fn) BY <1>3, <1>6 DEF IsMark
  <2> QED BY <1>2, <1>3, <1>5, <1>7, <2>1, <2>2, PushPlain
<1>10. Level(prog, e) = s
  <2>1. Selecting(prog) BY <1>1 DEF Bridged
  <2>2. prog.family # "pair" BY <1>2, <2>1, FamilyFacts
  <2> QED BY <1>3, <1>6, <2>2 DEF Level, Shows
<1>11. Levels(prog, stack') /\ Levelled(prog, stack', s)
  <2>1. IsMark(e) /\ e.at # "source" BY <1>3 DEF IsMark
  <2> QED BY <1>3, <1>8, <1>9, <1>10, <2>1, PushMark
<1>12. Now(s)' BY <1>1, <1>4, <1>6, MapStays, NowNext
<1> QED BY <1>11, <1>12

\* The copy of the trampoline that is called knows the bank of the caller.
LEMMA OwnIs ==
    ASSUME CallInv, NEW s, MapIs(s), prog.family # "pair", prog.family # "stackbus",
           Fixed(prog) => \E f \in Function : Shows(prog, s, f) /\ pc.win = Home(f)
    PROVE  Own = s
<1>1. prog \in Program /\ pc.win \in Window BY StackFacts
<1>2. CASE Single(prog)
  <2>1. s \in Bank /\ map = All(s) BY <1>2 DEF MapIs
  <2>2. Fetched = s BY <1>1, <2>1 DEF Fetched, All
  <2> QED BY <1>1, <1>2, <2>1, <2>2, DescriptorFacts DEF Own
<1>3. CASE Fixed(prog)
  <2>1. PICK f \in Function : Shows(prog, s, f) /\ pc.win = Home(f) BY <1>3
  <2>2. prog.bank[f] \in Bank /\ NBank - 1 \in Bank BY <1>1, ProgramFacts, BankFacts
  <2>3. Descriptor(prog, prog.bank[f]) = s BY <2>1 DEF Shows
  <2>4. map[1] = NBank - 1 /\ (s # NoSwitch => s \in Bank /\ map[0] = s)
    BY <1>3 DEF MapIs
  <2>5. \A b \in Bank : b # NoSwitch BY BankFacts
  <2>6. CASE prog.bank[f] = NBank - 1
    <3>1. s = NoSwitch /\ pc.win = 1
      BY <1>1, <1>3, <2>1, <2>2, <2>3, <2>6, DescriptorFacts DEF Home
    <3>2. Fetched = NBank - 1 BY <2>4, <3>1 DEF Fetched
    <3> QED BY <1>1, <1>3, <2>2, <3>1, <3>2, DescriptorFacts DEF Own
  <2>7. CASE prog.bank[f] # NBank - 1
    <3>1. s = prog.bank[f] /\ pc.win = 0
      BY <1>1, <1>3, <2>1, <2>2, <2>3, <2>7, DescriptorFacts DEF Home
    <3>2. Fetched = s BY <2>2, <2>4, <2>5, <3>1 DEF Fetched
    <3> QED BY <1>1, <1>3, <2>2, <2>3, <3>1, <3>2 DEF Own
  <2> QED BY <2>6, <2>7
<1> QED BY <1>1, <1>2, <1>3, FamilyFacts

\* The trampoline sets out for mapping t with descriptor d.
LEMMA EncodesNext ==
    ASSUME CallInv, NEW s, MapIs(s), s \in 0..NoSwitch, NEW t, NEW d,
           UNCHANGED <<prog, map, shadow>>, x' = Advances(d), pc'.at \in {"switch", "restore"},
           prog.family # "stackbus",
           Single(prog) => t \in Bank /\ d = t /\ Own = s,
           Fixed(prog) => t \in (0..(NBank - 2)) \cup {NoSwitch} /\ d = t,
           prog.family = "pair" =>
              t \in 0..2 /\ (d = t \/ (d = NoSwitch /\ t = s /\ pc'.at = "switch"))
    PROVE  Encodes(t)'
<1>1. prog \in Program BY StackFacts
<1>2. MapIs(s)' BY MapStays
<1>3. CASE prog.family = "advance"
  <2>1. Single(prog) /\ prog.family # "pair" BY <1>1, <1>3, FamilyFacts
  <2>2. s \in Bank /\ t \in Bank /\ d = t /\ Own = s BY <2>1 DEF MapIs
  <2>3. s \in Int /\ t \in Int BY <2>2, BankFacts
  <2>4. PICK y : y = (t - s) % NBank OBVIOUS
  <2>5. x' = y BY <1>3, <2>2, <2>4 DEF Advances
  <2>6. (s + y) % NBank = t /\ y \in Nat
    <3>1. PICK k \in Int : k = t - s BY <2>3
    <3>2. k % NBank \in Bank BY Remainder
    <3>3. (s + y) % NBank = t BY <1>1, <1>3, <2>2, <2>4, Around
    <3>4. y = k % NBank BY <2>4, <3>1
    <3>5. y \in Nat BY <3>2, <3>4, BankFacts
    <3> QED BY <3>3, <3>5
  <2>7. (s + (IF y = 0 THEN 256 ELSE y)) % NBank = t
    <3>1. CASE y = 0
      <4>1. s + y = s BY <2>3, <3>1
      <4>2. s % NBank = t BY <2>6, <4>1
      <4>3. s % NBank = s /\ (s + 256) % NBank = s BY <1>1, <1>3, <2>2, Modulus
      <4> QED BY <3>1, <4>2, <4>3
    <3>2. CASE y # 0 BY <2>6, <3>2
    <3> QED BY <3>1, <3>2
  <2>8. /\ s \in Bank /\ MapIs(s)' /\ t \in Bank
        /\ t = (s + (IF x' = 0 THEN 256 ELSE x')) % NBank
    BY <1>2, <2>2, <2>5, <2>7
  <2> QED BY <1>3, <2>8 DEF Encodes
<1>4. CASE prog.family = "pair"
  <2>1. shadow = s /\ x' = d BY <1>4 DEF MapIs, Advances
  <2>2. MapIs(shadow)' BY <1>2, <2>1 DEF MapIs
  <2> QED BY <1>4, <2>1, <2>2 DEF Encodes
<1>5. CASE prog.family \notin {"advance", "pair"}
  <2>1. x' = d BY <1>5 DEF Advances
  <2>2. Single(prog) \/ Fixed(prog) BY <1>1, <1>5, FamilyFacts
  <2>3. d = t BY <2>2
  <2> QED BY <1>2, <1>5, <2>1, <2>3, SameProgram DEF Encodes
<1> QED BY <1>3, <1>4, <1>5

LEMMA BankCallMaps ==
    ASSUME CallInv, MappingInv, BankCall
    PROVE  MappingInv'
<1> DEFINE a == Skipped(Top)
           b == Saved(SourceByte)
           c == At("bankreturn", pc.win, Top.fn)
           w == HomeWindow(prog, StartupBank(prog))
<1>1. /\ pc.at = "bankcall" /\ UNCHANGED <<prog, map, latch, shadow, pending, result>>
      /\ stack' = [stack EXCEPT ![Len(stack)] = a] \o <<b, c>>
      /\ pc' = At("switch", w, pc.fn)
      /\ x' = Advances(Desc(pc.fn))
      /\ Fetched \in Bank
  BY DEF BankCall, InTrampoline, mapperVars, Desc
<1>2. /\ prog \in Program /\ stack # <<>> /\ stack \in Seq(Entries)
      /\ pc.fn \in Function /\ pc.win \in Window /\ w \in Window
      /\ EntryShape(Len(stack)) /\ Top \in Entries /\ Top.at = "payload"
      /\ Top = stack[Len(stack)] /\ pc.win = Top.win
  BY <1>1, StackFacts, StartupFacts, DeepFacts DEF CallInv, PcShape, Top
<1>3. Top.fn \in Function /\ Top.win \in Window /\ Top.win = Home(Top.fn)
  BY <1>2, EntryFacts, AddressFacts DEF EntryShape
<1>4. SourceByte \in 0..NoSwitch
  <2>1. Own \in 0..NoSwitch BY <1>1, <1>2, WindowFacts DEF Own
  <2> QED BY <2>1 DEF SourceByte, CallInv, BankCallTypeOK
<1>5. /\ a \in Entries /\ a.at = "body" /\ a.fn = Top.fn
      /\ b \in Entries /\ b.at = "source" /\ b.byte = SourceByte
      /\ c \in Entries /\ c.at = "bankreturn"
      /\ pc'.at = "switch" /\ pc'.fn = pc.fn
  BY <1>1, <1>2, <1>3, <1>4, AtType, SavedFacts DEF Entries, Step, Skipped
<1> HIDE DEF a, b, c, w
<1> SUFFICES ASSUME Bridged(prog), prog.family # "stackbus"
             PROVE  /\ Levels(prog, stack')
                    /\ \E s \in 0..NoSwitch : Now(s)' /\ Levelled(prog, stack', s)
  BY <1>1, MappingNext
<1>6. PICK s \in 0..NoSwitch : Now(s) /\ Levelled(prog, stack, s) BY DEF MappingInv
<1>7. MapIs(s) /\ pending = NoSwitch BY <1>1, <1>6, NowFacts
<1>8. PICK q : q = [stack EXCEPT ![Len(stack)] = a] OBVIOUS
<1>9. PICK r : r = q \o <<b>> OBVIOUS
<1>10. q \in Seq(Entries) /\ r \in Seq(Entries) /\ stack' = r \o <<c>>
  <2>1. q \in Seq(Entries) BY <1>2, <1>5, <1>8, Replaced
  <2>2. r \in Seq(Entries) BY <1>5, <1>9, <2>1, Pushed
  <2>3. stack' = r \o <<c>> BY <1>1, <1>5, <1>8, <1>9, <2>1, TwoPushes, Zenon
  <2> QED BY <2>1, <2>2, <2>3
<1>11. Levels(prog, q) /\ Levelled(prog, q, s)
  <2>1. ~IsMark(Top) /\ ~IsMark(a) /\ (IsCode(a) <=> IsCode(Top)) BY <1>2, <1>5 DEF IsMark, IsCode
  <2>2. Levels(prog, stack) BY DEF MappingInv
  <2> QED BY <1>2, <1>5, <1>6, <1>8, <2>1, <2>2, ReplacePlain
<1>12. Shows(prog, s, Top.fn)
  <2>1. PICK r0 : r0 = SubSeq(stack, 1, Len(stack) - 1) OBVIOUS
  <2>2. ~IsMark(stack[Len(stack)]) /\ IsCode(stack[Len(stack)]) BY <1>2 DEF IsMark, IsCode
  <2>3. Levels(prog, stack) BY DEF MappingInv
  <2> QED BY <1>2, <1>6, <2>1, <2>2, <2>3, PopPlain
<1>13. SourceByte = s /\ (prog.family # "pair" => Own = s)
  <2>1. CASE prog.family = "pair" BY <1>7, <2>1 DEF SourceByte, MapIs
  <2>2. CASE prog.family # "pair"
    <3>1. Own = s BY <1>2, <1>3, <1>7, <1>12, <2>2, OwnIs
    <3> QED BY <2>2, <3>1 DEF SourceByte
  <2> QED BY <2>1, <2>2
<1>14. Levels(prog, r) /\ \A t : Levelled(prog, r, t)
  <2>1. IsMark(b) /\ Level(prog, b) = s BY <1>5, <1>13 DEF IsMark, Level
  <2>2. prog.family = "pair" => b.byte \in 0..2 BY <1>5, <1>7, <1>13 DEF MapIs
  <2> QED BY <1>5, <1>9, <1>10, <1>11, <2>1, <2>2, PushMark
<1>15. Levels(prog, stack') /\ \A t : Levelled(prog, stack', t)
  <2>1. ~IsMark(c) /\ ~IsCode(c) BY <1>5 DEF IsMark, IsCode
  <2> QED BY <1>5, <1>10, <1>14, <2>1, PushPlain
<1> PICK d : d = Desc(pc.fn) OBVIOUS
<1> PICK t : t = IF prog.family = "pair" /\ d = NoSwitch THEN s ELSE d OBVIOUS
<1>16. t \in 0..NoSwitch BY <1>2, HomeFacts
<1>17. /\ prog.bank[pc.fn] \in Bank /\ d = Descriptor(prog, prog.bank[pc.fn])
  BY <1>2, ProgramFacts DEF Desc
<1>18. Shows(prog, t, pc.fn) BY <1>17 DEF Shows
<1>19. Encodes(t)'
  <2>1. Single(prog) => t \in Bank /\ d = t /\ Own = s
    BY <1>2, <1>13, <1>17, DescriptorFacts, FamilyFacts
  <2>2. Fixed(prog) => t \in (0..(NBank - 2)) \cup {NoSwitch} /\ d = t
    BY <1>2, <1>17, DescriptorFacts, FamilyFacts
  <2>3. prog.family = "pair" => t \in 0..2 /\ (d = t \/ (d = NoSwitch /\ t = s))
    <3>1. prog.family = "pair" => s \in 0..2 BY <1>7 DEF MapIs
    <3>2. prog.family = "pair" => d = NoSwitch \/ d \in 0..2 BY <1>2, <1>17, DescriptorFacts
    <3> QED BY <3>1, <3>2
  <2> QED BY <1>1, <1>5, <1>7, <2>1, <2>2, <2>3, EncodesNext
<1>20. Now(t)' BY <1>1, <1>5, <1>7, <1>18, <1>19, NowNext
<1> QED BY <1>15, <1>16, <1>20

LEMMA BankReturnMaps ==
    ASSUME CallInv, MappingInv, BankReturn
    PROVE  MappingInv'
<1>1. /\ pc.at = "bankreturn" /\ UNCHANGED <<prog, map, latch, shadow, pending>>
      /\ x' = Advances(Top.byte) /\ Pop(1) /\ pc' = At("restore", pc.win, pc.fn)
  BY DEF BankReturn, InTrampoline, mapperVars
<1>2. /\ prog \in Program /\ stack # <<>> /\ stack \in Seq(Entries)
      /\ pc.fn \in Function /\ pc.win \in Window
      /\ EntryShape(Len(stack)) /\ Top \in Entries /\ Top.at = "source"
      /\ Top = stack[Len(stack)]
  BY <1>1, StackFacts, DeepFacts DEF CallInv, PcShape, Top
<1>3. pc'.at = "restore" BY <1>1, <1>2, AtType DEF Step
<1> SUFFICES ASSUME Bridged(prog), prog.family # "stackbus"
             PROVE  /\ Levels(prog, stack')
                    /\ \E s \in 0..NoSwitch : Now(s)' /\ Levelled(prog, stack', s)
  BY <1>1, MappingNext
<1>6. PICK s \in 0..NoSwitch : Now(s) /\ Levelled(prog, stack, s) BY DEF MappingInv
<1>7. MapIs(s) /\ pending = NoSwitch BY <1>1, <1>6, NowFacts
<1> PICK t : t = Top.byte OBVIOUS
<1>8. t \in 0..NoSwitch BY <1>2, EntryFacts
<1>9. PICK r : r = stack' OBVIOUS
<1>10. /\ r = SubSeq(stack, 1, Len(stack) - 1)
       /\ Levels(prog, r) /\ Levelled(prog, r, t)
       /\ prog.family = "pair" => t \in 0..2
  <2>1. r = SubSeq(stack, 1, Len(stack) - 1) BY <1>1, <1>9 DEF Pop
  <2>2. IsMark(stack[Len(stack)]) /\ Level(prog, stack[Len(stack)]) = t
    BY <1>2 DEF IsMark, Level
  <2>3. Levels(prog, stack) BY DEF MappingInv
  <2> QED BY <1>2, <2>1, <2>2, <2>3, PopMark
<1>11. prog.family # "pair" => \E f \in Function : t = Descriptor(prog, prog.bank[f])
  <2>1. PICK n \in Nat \ {0} : n = Len(stack) BY <1>2
  <2>2. n > 1 /\ stack[n - 1].at = "body" BY <1>2, <2>1 DEF EntryShape
  <2>3. PICK m \in Nat \ {0} : n = m + 1 BY <2>2
  <2>4. Len(r) = m /\ r[m] = stack[m] /\ r \in Seq(Entries)
    <3>1. /\ r \in Seq(Entries) /\ Len(r) = Len(stack) - 1
          /\ \A i \in 1..(Len(stack) - 1) : r[i] = stack[i]
      BY <1>2, <1>10, Popped
    <3>2. Len(stack) - 1 = m BY <1>2, <2>1, <2>3
    <3>3. m \in 1..m OBVIOUS
    <3> QED BY <3>1, <3>2, <3>3
  <2>5. stack[m].at = "body" /\ stack[m] \in Entries
    <3>1. n - 1 = m /\ m \in 1..Len(stack) BY <2>1, <2>3
    <3> QED BY <1>2, <2>2, <3>1
  <2>6. IsCode(r[m]) /\ r[m].fn \in Function
    BY <2>4, <2>5, EntryFacts, AddressFacts DEF IsCode
  <2>7. \A k \in Marks(r) : k <= m BY <2>4, MarksFacts
  <2>8. Suits(prog, r, m, t) BY <1>10, <2>4, <2>7 DEF Levelled
  <2>9. Shows(prog, t, r[m].fn) BY <2>6, <2>8 DEF Suits
  <2> QED BY <2>6, <2>9 DEF Shows
<1>12. Encodes(t)'
  <2>1. Single(prog) => t \in Bank /\ Own = s
    <3>1. ASSUME Single(prog) PROVE t \in Bank
      <4>1. PICK f \in Function : t = Descriptor(prog, prog.bank[f])
        BY <1>2, <1>11, <3>1, FamilyFacts
      <4>2. prog.bank[f] \in Bank BY <1>2, ProgramFacts
      <4> QED BY <1>2, <3>1, <4>1, <4>2, DescriptorFacts
    <3>2. Single(prog) => Own = s BY <1>2, <1>7, OwnIs, FamilyFacts
    <3> QED BY <3>1, <3>2
  <2>2. Fixed(prog) => t \in (0..(NBank - 2)) \cup {NoSwitch}
    <3> SUFFICES ASSUME Fixed(prog) PROVE t \in (0..(NBank - 2)) \cup {NoSwitch} OBVIOUS
    <3>1. PICK f \in Function : t = Descriptor(prog, prog.bank[f]) BY <1>2, <1>11, FamilyFacts
    <3>2. prog.bank[f] \in Bank BY <1>2, ProgramFacts
    <3> QED BY <1>2, <3>1, <3>2, DescriptorFacts
  <2> QED BY <1>1, <1>3, <1>7, <1>10, <2>1, <2>2, EncodesNext
<1>13. Now(t)' BY <1>1, <1>3, <1>7, <1>12, NowNext
<1> QED BY <1>8, <1>9, <1>10, <1>13

\* A switch has steps of its own to set out, to go on and to arrive.
SwitchSteps(step, second, next) ==
    <<step, second, next>> \in {<<"switch", "switch2", "jump">>, <<"restore", "restore2", "finish">>}

LEMMA SwitchStepsFacts ==
    ASSUME NEW step, NEW second, NEW next, SwitchSteps(step, second, next)
    PROVE  /\ step \in Step /\ second \in Step /\ next \in Step
           /\ step # second /\ second # next /\ step # next
           /\ step \in {"switch", "restore"} /\ second \in {"switch2", "restore2"}
           /\ next \in {"jump", "finish"}
           /\ step = "switch" => second = "switch2" /\ next = "jump"
           /\ step = "restore" => second = "restore2" /\ next = "finish"
           /\ second = "switch2" => next = "jump"
           /\ second = "restore2" => next = "finish"
<1>1. \/ step = "switch" /\ second = "switch2" /\ next = "jump"
      \/ step = "restore" /\ second = "restore2" /\ next = "finish"
  BY DEF SwitchSteps
<1> QED BY <1>1 DEF Step

\* Where an access leads, when it was on the way to mapping s.
Leads(s, step, second, next) ==
    \/ pc'.at = next /\ Arrives(s)'
    \/ pc'.at = second /\ HalfDone(s)' /\ pending' = NoSwitch
    \/ pc'.at = step /\ Encodes(s)' /\ pending' = NoSwitch

LEMMA AllFacts ==
    ASSUME NEW b
    PROVE  /\ \A w \in Window : All(b)[w] = b
           /\ DOMAIN All(b) = Window
           /\ 0 \in Window /\ 1 \in Window /\ 2 \in Window /\ 3 \in Window
BY DEF All, Window

LEMMA AdvanceLeads ==
    ASSUME CallInv, NEW s, Encodes(s), pending = NoSwitch, prog' = prog,
           prog.family = "advance", NEW step, NEW second, NEW next,
           SwitchSteps(step, second, next), FirstAccess(step, second, next)
    PROVE  Leads(s, step, second, next)
<1>1. /\ prog \in Program /\ Single(prog) /\ ~Fixed(prog) /\ prog.family # "pair"
  BY StackFacts, FamilyFacts
<1>2. /\ map' = [w \in Window |-> (map[w] + 1) % NBank] /\ x' = Counted(x)
      /\ UNCHANGED <<shadow, pending>>
      /\ pc' = At(IF Counted(x) = 0 THEN next ELSE step, pc.win, pc.fn)
  BY <1>1 DEF FirstAccess
<1>3. PICK b \in Bank : /\ MapIs(b) /\ s \in Bank
                        /\ s = (b + (IF x = 0 THEN 256 ELSE x)) % NBank
  BY DEF Encodes
<1> PICK c : c = (b + 1) % NBank OBVIOUS
<1>4. c \in Bank
  <2>1. b + 1 \in Int BY <1>3, BankFacts
  <2> QED BY <1>3, <2>1, Remainder
<1>5. map' = All(c)
  <2>1. \A w \in Window : map[w] = b BY <1>1, <1>3, AllFacts DEF MapIs
  <2> QED BY <1>2, <2>1 DEF All
<1>6. MapIs(c)' BY <1>1, <1>4, <1>5, SameProgram DEF MapIs, All
<1>7. x \in 0..255 BY DEF CallInv, BankCallTypeOK, NoSwitch
<1>8. pc'.at = IF Counted(x) = 0 THEN next ELSE step
  <2>1. step \in Step /\ next \in Step /\ pc.win \in Window /\ pc.fn \in Function
    BY SwitchStepsFacts, StackFacts
  <2> QED BY <1>2, <2>1, AtType
<1>9. CASE Counted(x) = 0
  <2>1. x = 1 BY <1>7, <1>9 DEF Counted
  <2>2. s = c BY <1>3, <2>1
  <2>3. Arrives(s)' BY <1>2, <1>6, <2>2 DEF Arrives
  <2> QED BY <1>8, <1>9, <2>3 DEF Leads
<1>10. CASE Counted(x) # 0
  <2>1. PICK k \in Int : k = (IF x = 0 THEN 256 ELSE x) - 1 BY <1>7
  <2>2. k = x' /\ x' # 0 BY <1>2, <1>7, <1>10, <2>1 DEF Counted
  <2>3. (c + k) % NBank = (b + 1 + k) % NBank BY <1>1, <1>3, Modulus
  <2>4. b + 1 + k = b + (IF x = 0 THEN 256 ELSE x) BY <1>3, <1>7, <2>1, BankFacts
  <2>5. s = (c + (IF x' = 0 THEN 256 ELSE x')) % NBank BY <1>3, <2>2, <2>3, <2>4
  <2>6. Encodes(s)' BY <1>1, <1>2, <1>3, <1>4, <1>6, <2>5 DEF Encodes
  <2> QED BY <1>2, <1>8, <1>10, <2>6 DEF Leads
<1> QED BY <1>9, <1>10

LEMMA PairLeads ==
    ASSUME CallInv, NEW s, Encodes(s), pending = NoSwitch, prog' = prog,
           prog.family = "pair", NEW step, NEW second, NEW next,
           SwitchSteps(step, second, next), FirstAccess(step, second, next)
    PROVE  Leads(s, step, second, next)
<1>1. /\ prog \in Program /\ ~Single(prog) /\ ~Fixed(prog) /\ NBank = 8
  BY StackFacts, FamilyFacts, ProgramFacts
<1>2. /\ MapIs(shadow) /\ s \in 0..2 /\ pc.at = step /\ map \in [Window -> Nat]
      /\ x = s \/ (x = NoSwitch /\ s = shadow /\ step = "switch")
  BY DEF Encodes, FirstAccess, InTrampoline, CallInv, BankCallTypeOK
<1>3. /\ step \in Step /\ second \in Step /\ next \in Step /\ second # next
      /\ pc.win \in Window /\ pc.fn \in Function
  BY SwitchStepsFacts, StackFacts
<1>4. CASE x = shadow \/ (x = NoSwitch /\ step = "switch")
  <2>1. s = shadow BY <1>2, <1>4 DEF NoSwitch
  <2>2. pc' = At(next, pc.win, pc.fn) BY <1>4 DEF FirstAccess
  <2>3. pc'.at = next BY <1>3, <2>2, AtType
  <2>4. UNCHANGED <<map, shadow, pending>> BY <1>1, <1>3, <2>3 DEF FirstAccess
  <2>5. MapIs(s)' BY <1>2, <2>1, <2>4, MapStays
  <2>6. Arrives(s)' BY <2>4, <2>5 DEF Arrives
  <2> QED BY <2>3, <2>6 DEF Leads
<1>5. CASE ~(x = shadow \/ (x = NoSwitch /\ step = "switch"))
  <2>1. x = s BY <1>2, <1>5
  <2>2. pc' = At(second, pc.win, pc.fn) BY <1>5 DEF FirstAccess
  <2>3. pc'.at = second BY <1>3, <2>2, AtType
  <2>4. map' = Select(map, 0, 2 * x) /\ shadow' = x /\ x' = x /\ pending' = pending
    BY <1>1, <1>3, <2>3 DEF FirstAccess
  <2>5. /\ map[1] = 2 * shadow + 1 /\ map[2] = 6 /\ map[3] = 7 /\ shadow \in 0..2
    BY <1>2 DEF MapIs
  <2>6. /\ map'[0] = 2 * s /\ map'[1] = map[1] /\ map'[2] = 6 /\ map'[3] = 7
    BY <1>2, <2>1, <2>4, <2>5 DEF Select, Window
  <2>7. map[1] \in Bank BY <1>1, <2>5 DEF Bank
  <2>8. HalfDone(s)' BY <1>2, <2>1, <2>4, <2>6, <2>7 DEF HalfDone
  <2> QED BY <2>3, <2>4, <2>8 DEF Leads
<1> QED BY <1>4, <1>5

LEMMA FixedLeads ==
    ASSUME CallInv, NEW s, Encodes(s), pending = NoSwitch, prog' = prog,
           Fixed(prog), NEW step, NEW second, NEW next,
           SwitchSteps(step, second, next), FirstAccess(step, second, next)
    PROVE  Leads(s, step, second, next)
<1>1. /\ prog \in Program /\ ~Single(prog) /\ prog.family \in {"fixed", "fixedRam"}
      /\ map \in [Window -> Nat]
  BY StackFacts, FamilyFacts DEF CallInv, BankCallTypeOK
<1>2. PICK t : MapIs(t) BY <1>1 DEF Encodes
<1>3. x = s /\ s \in (0..(NBank - 2)) \cup {NoSwitch} BY <1>1 DEF Encodes
<1>4. /\ step \in Step /\ second \in Step /\ next \in Step
      /\ pc.win \in Window /\ pc.fn \in Function
  BY SwitchStepsFacts, StackFacts
<1>5. /\ pc' = At(next, pc.win, pc.fn) /\ pending' = pending
      /\ map' = IF x = NoSwitch THEN map ELSE Select(map, 0, x)
  BY <1>1 DEF FirstAccess
<1>6. pc'.at = next BY <1>4, <1>5, AtType
<1>7. map[1] = NBank - 1 /\ \A w \in Window : map[w] \in Bank \/ (w = 0 /\ prog.family = "fixedRam")
  BY <1>2 DEF MapIs
<1>8. MapIs(s)'
  <2>1. CASE s = NoSwitch BY <1>1, <1>3, <1>5, <1>7, <2>1, SameProgram DEF MapIs
  <2>2. CASE s # NoSwitch
    <3>1. s \in Bank BY <1>3, <2>2, BankFacts DEF Bank
    <3>2. \A w \in Window : map'[w] = IF w = 0 THEN s ELSE map[w]
      BY <1>1, <1>3, <1>5, <2>2 DEF Select
    <3>3. 0 \in Window /\ 1 \in Window BY DEF Window
    <3>4. /\ map'[1] = NBank - 1 /\ map'[0] = s
          /\ \A w \in Window : map'[w] \in Bank \/ (w = 0 /\ prog.family = "fixedRam")
      BY <1>7, <3>1, <3>2, <3>3
    <3> QED BY <1>1, <3>1, <3>4, SameProgram DEF MapIs
  <2> QED BY <2>1, <2>2
<1>9. Arrives(s)' BY <1>5, <1>8 DEF Arrives
<1> QED BY <1>6, <1>9 DEF Leads

LEMMA SingleLeads ==
    ASSUME CallInv, NEW s, Encodes(s), pending = NoSwitch, prog' = prog,
           prog.family \in {"selector", "delayed", "staged"}, NEW step, NEW second, NEW next,
           SwitchSteps(step, second, next), FirstAccess(step, second, next)
    PROVE  Leads(s, step, second, next)
<1>1. /\ prog \in Program /\ Single(prog) /\ ~Fixed(prog) /\ prog.family # "pair"
  BY StackFacts, FamilyFacts
<1>2. PICK t : MapIs(t) BY DEF Encodes
<1>3. x = s /\ s \in Bank /\ t \in Bank BY <1>1, <1>2 DEF Encodes, MapIs
<1>4. /\ step \in Step /\ second \in Step /\ next \in Step
      /\ pc.win \in Window /\ pc.fn \in Function
  BY SwitchStepsFacts, StackFacts
<1>5. s \in Nat /\ s # NoSwitch BY <1>3, BankFacts
<1>6. CASE prog.family = "selector"
  <2>1. pc' = At(next, pc.win, pc.fn) /\ map' = All(s) /\ pending' = pending
    BY <1>1, <1>3, <1>6 DEF FirstAccess
  <2>2. MapIs(s)' BY <1>1, <1>3, <2>1, SameProgram DEF MapIs, All
  <2>3. Arrives(s)' /\ pc'.at = next BY <1>4, <2>1, <2>2, AtType DEF Arrives
  <2> QED BY <2>3 DEF Leads
<1>7. CASE prog.family = "delayed"
  <2>1. pc' = At(next, pc.win, pc.fn) /\ UNCHANGED <<map, shadow>> /\ pending' = s
    BY <1>1, <1>3, <1>7 DEF FirstAccess
  <2>2. MapIs(t)' BY <1>2, <2>1, MapStays
  <2>3. Arrives(s)' BY <1>3, <1>5, <1>7, <2>1, <2>2 DEF Arrives
  <2> QED BY <1>4, <2>1, <2>3, AtType DEF Leads
<1>8. CASE prog.family = "staged"
  <2>1. /\ pc' = At(second, pc.win, pc.fn) /\ UNCHANGED <<map, shadow, pending>>
        /\ latch' = <<s % 4, s \div 4>>
    BY <1>1, <1>3, <1>8 DEF FirstAccess
  <2>2. MapIs(t)' BY <1>2, <2>1, MapStays
  <2>3. latch'[1] + 4 * latch'[2] = s BY <1>5, <2>1
  <2>4. HalfDone(s)' BY <1>3, <1>8, <2>2, <2>3 DEF HalfDone
  <2> QED BY <1>4, <2>1, <2>4, AtType DEF Leads
<1> QED BY <1>6, <1>7, <1>8

LEMMA FirstAccessLeads ==
    ASSUME CallInv, NEW s, Encodes(s), pending = NoSwitch, prog' = prog,
           prog.family # "stackbus", NEW step, NEW second, NEW next,
           SwitchSteps(step, second, next), FirstAccess(step, second, next)
    PROVE  Leads(s, step, second, next)
<1>1. prog \in Program BY StackFacts
<1>2. \/ prog.family = "advance" \/ prog.family = "pair" \/ Fixed(prog)
      \/ prog.family \in {"selector", "delayed", "staged"}
  BY <1>1, FamilyFacts
<1> QED BY <1>2, AdvanceLeads, PairLeads, FixedLeads, SingleLeads

LEMMA SecondAccessLeads ==
    ASSUME CallInv, NEW s, HalfDone(s), pending = NoSwitch, prog' = prog,
           NEW second, NEW next, SecondAccess(second, next)
    PROVE  pc'.at = next /\ Arrives(s)'
<1>1. /\ prog \in Program /\ map \in [Window -> Nat]
      /\ pc' = At(next, pc.win, pc.fn) /\ UNCHANGED <<shadow, pending>>
      /\ map' = IF prog.family = "pair" THEN LowerPair(map, x)
                ELSE All(latch[1] + 4 * latch[2])
  BY StackFacts DEF SecondAccess, CallInv, BankCallTypeOK
<1>2. MapIs(s)'
  <2>1. CASE prog.family = "staged"
    <3>1. map' = All(s) /\ s \in Bank BY <1>1, <2>1 DEF HalfDone
    <3>2. Single(prog) /\ ~Fixed(prog) /\ prog.family # "pair" BY <1>1, <2>1, FamilyFacts
    <3> QED BY <3>1, <3>2, SameProgram DEF MapIs, All
  <2>2. CASE prog.family = "pair"
    <3>1. /\ x = s /\ shadow = s /\ s \in 0..2 /\ map[0] = 2 * s /\ map[2] = 6 /\ map[3] = 7
      BY <2>2 DEF HalfDone
    <3>2. map' = Select(map, 1, 2 * s + 1) BY <1>1, <2>2, <3>1 DEF LowerPair
    <3>3. map'[0] = 2 * s /\ map'[1] = 2 * s + 1 /\ map'[2] = 6 /\ map'[3] = 7
      BY <1>1, <3>1, <3>2 DEF Select, Window
    <3>4. ~Single(prog) /\ ~Fixed(prog) BY <1>1, <2>2, FamilyFacts
    <3> QED BY <1>1, <3>1, <3>3, <3>4, SameProgram DEF MapIs
  <2> QED BY <2>1, <2>2 DEF HalfDone
<1> QED BY <1>1, <1>2 DEF Arrives, At

LEMMA LeadsNow ==
    ASSUME NEW s, prog' = prog, NEW step, NEW second, NEW next,
           SwitchSteps(step, second, next), Leads(s, step, second, next),
           pc'.fn = pc.fn, step = "switch" => Shows(prog, s, pc.fn)
    PROVE  Now(s)'
<1>1. CASE step = "switch"
  <2>1. second = "switch2" /\ next = "jump" BY <1>1, SwitchStepsFacts
  <2> QED BY <1>1, <2>1, NowNext DEF Leads
<1>2. CASE step = "restore"
  <2>1. second = "restore2" /\ next = "finish" BY <1>2, SwitchStepsFacts
  <2> QED BY <1>2, <2>1, NowNext DEF Leads
<1> QED BY <1>1, <1>2, SwitchStepsFacts

LEMMA ArrivesNow ==
    ASSUME NEW s, prog' = prog, NEW second, NEW next, NEW step, SwitchSteps(step, second, next),
           pc'.at = next, Arrives(s)', pc'.fn = pc.fn, step = "switch" => Shows(prog, s, pc.fn)
    PROVE  Now(s)'
BY LeadsNow DEF Leads

LEMMA SwitchMaps ==
    ASSUME CallInv, MappingInv, Switch
    PROVE  MappingInv'
<1>1. /\ UNCHANGED <<prog, ptr0, result>>
      /\ \/ FirstAccess("switch", "switch2", "jump")
            /\ stack' = IF prog.family = "fixedRam"
                        THEN [stack EXCEPT ![Len(stack)] = ReturnWindow(Top)] ELSE stack
         \/ SecondAccess("switch2", "jump") /\ stack' = stack
  BY DEF Switch
<1>2. /\ pc.at \in {"switch", "switch2"} /\ pc'.fn = pc.fn
  <2>1. CASE FirstAccess("switch", "switch2", "jump")
    BY <1>1, <2>1, FirstAccessFacts DEF Step
  <2>2. CASE SecondAccess("switch2", "jump")
    BY <1>1, <2>2, SecondAccessFacts DEF Step
  <2> QED BY <1>1, <2>1, <2>2
<1>3. /\ prog \in Program /\ stack # <<>> /\ stack \in Seq(Entries)
      /\ Top.at = "bankreturn" /\ Top \in Entries /\ Top = stack[Len(stack)]
  BY <1>2, StackFacts, DeepFacts DEF CallInv, PcShape, Switching, Top
<1>4. SwitchSteps("switch", "switch2", "jump") BY DEF SwitchSteps
<1> SUFFICES ASSUME Bridged(prog), prog.family # "stackbus"
             PROVE  /\ Levels(prog, stack')
                    /\ \E s \in 0..NoSwitch : Now(s)' /\ Levelled(prog, stack', s)
  BY <1>1, MappingNext
<1>5. PICK s \in 0..NoSwitch : Now(s) /\ Levelled(prog, stack, s) BY DEF MappingInv
<1>6. pending = NoSwitch /\ Shows(prog, s, pc.fn) BY <1>2, <1>5, NowFacts
<1>7. Now(s)'
  <2>1. CASE FirstAccess("switch", "switch2", "jump")
    <3>1. pc.at = "switch" BY <2>1 DEF FirstAccess, InTrampoline
    <3>2. Encodes(s) BY <1>5, <3>1, NowFacts
    <3>3. Leads(s, "switch", "switch2", "jump") BY <1>1, <1>4, <1>6, <2>1, <3>2, FirstAccessLeads
    <3> QED BY <1>1, <1>2, <1>4, <1>6, <3>3, LeadsNow
  <2>2. CASE SecondAccess("switch2", "jump")
    <3>1. pc.at = "switch2" BY <2>2 DEF SecondAccess, InTrampoline
    <3>2. HalfDone(s) BY <1>5, <3>1, NowFacts
    <3>3. pc'.at = "jump" /\ Arrives(s)' BY <1>1, <1>6, <2>2, <3>2, SecondAccessLeads
    <3> QED BY <1>1, <1>2, <1>4, <1>6, <3>3, ArrivesNow
  <2> QED BY <1>1, <2>1, <2>2
<1>8. Levels(prog, stack) BY DEF MappingInv
<1>9. CASE stack' = stack BY <1>5, <1>7, <1>8, <1>9
<1>10. CASE stack' = [stack EXCEPT ![Len(stack)] = ReturnWindow(Top)]
  <2>1. PICK a : a = ReturnWindow(Top) OBVIOUS
  <2>2. a \in Entries /\ a.at = "bankreturn" /\ a.fn = Top.fn
    <3>1. Top \in Address /\ Top.fn \in Function /\ 1 \in Window
      BY <1>3, EntryFacts, AddressFacts DEF Window
    <3>2. CASE prog.family = "fixedRam"
      BY <1>3, <2>1, <3>1, <3>2, AtType DEF ReturnWindow, Entries, Step
    <3>3. CASE prog.family # "fixedRam" BY <1>3, <2>1, <3>3 DEF ReturnWindow
    <3> QED BY <3>2, <3>3
  <2>3. ~IsMark(Top) /\ ~IsMark(a) /\ ~IsCode(a) /\ ~IsCode(Top)
    BY <1>3, <2>2 DEF IsMark, IsCode
  <2>4. /\ Levels(prog, [stack EXCEPT ![Len(stack)] = a])
        /\ Levelled(prog, [stack EXCEPT ![Len(stack)] = a], s)
    BY <1>3, <1>5, <1>8, <2>2, <2>3, ReplacePlain
  <2>5. stack' = [stack EXCEPT ![Len(stack)] = a] BY <1>10, <2>1
  <2> QED BY <1>7, <2>4, <2>5
<1> QED BY <1>1, <1>9, <1>10

LEMMA RestoreMaps ==
    ASSUME CallInv, MappingInv, Restore
    PROVE  MappingInv'
<1>1. /\ UNCHANGED <<prog, stack, ptr0, result>>
      /\ FirstAccess("restore", "restore2", "finish") \/ SecondAccess("restore2", "finish")
  BY DEF Restore
<1>2. pc'.fn = pc.fn
  <2>1. CASE FirstAccess("restore", "restore2", "finish")
    BY <1>1, <2>1, FirstAccessFacts DEF Step
  <2>2. CASE SecondAccess("restore2", "finish") BY <1>1, <2>2, SecondAccessFacts DEF Step
  <2> QED BY <1>1, <2>1, <2>2
<1>3. SwitchSteps("restore", "restore2", "finish") BY DEF SwitchSteps
<1> SUFFICES ASSUME Bridged(prog), prog.family # "stackbus"
             PROVE  /\ Levels(prog, stack')
                    /\ \E s \in 0..NoSwitch : Now(s)' /\ Levelled(prog, stack', s)
  BY <1>1, MappingNext
<1>4. PICK s \in 0..NoSwitch : Now(s) /\ Levelled(prog, stack, s) BY DEF MappingInv
<1>5. Now(s)'
  <2>1. CASE FirstAccess("restore", "restore2", "finish")
    <3>1. pc.at = "restore" BY <2>1 DEF FirstAccess, InTrampoline
    <3>2. Encodes(s) /\ pending = NoSwitch BY <1>4, <3>1, NowFacts
    <3>3. Leads(s, "restore", "restore2", "finish") BY <1>1, <1>3, <2>1, <3>2, FirstAccessLeads
    <3> QED BY <1>1, <1>2, <1>3, <3>3, LeadsNow
  <2>2. CASE SecondAccess("restore2", "finish")
    <3>1. pc.at = "restore2" BY <2>2 DEF SecondAccess, InTrampoline
    <3>2. HalfDone(s) /\ pending = NoSwitch BY <1>4, <3>1, NowFacts
    <3>3. pc'.at = "finish" /\ Arrives(s)' BY <1>1, <2>2, <3>2, SecondAccessLeads
    <3> QED BY <1>1, <1>2, <1>3, <3>3, ArrivesNow
  <2> QED BY <1>1, <2>1, <2>2
<1> QED BY <1>1, <1>4, <1>5 DEF MappingInv

\* The bank that was selected answers.
LEMMA SettledArrives ==
    ASSUME CallInv, NEW s, Arrives(s), UNCHANGED <<prog, shadow>>, map' = Settled
    PROVE  MapIs(s)'
<1>1. CASE pending = NoSwitch
  <2>1. MapIs(s) /\ map' = map BY <1>1 DEF Arrives, Settled
  <2> QED BY <2>1, MapStays
<1>2. CASE pending # NoSwitch
  <2>1. prog.family = "delayed" /\ s \in Bank /\ map' = All(s) BY <1>2 DEF Arrives, Settled
  <2>2. Single(prog) /\ ~Fixed(prog) /\ prog.family # "pair" BY <2>1, StackFacts, FamilyFacts
  <2> QED BY <2>1, <2>2, SameProgram DEF MapIs, All
<1> QED BY <1>1, <1>2

LEMMA JumpMaps ==
    ASSUME CallInv, MappingInv, Jump
    PROVE  MappingInv'
<1>1. /\ pc.at = "jump" /\ UNCHANGED <<prog, shadow, stack>>
      /\ pc' = Body(ptr0) /\ map' = Settled /\ pending' = NoSwitch
  BY DEF Jump, InTrampoline
<1>2. prog \in Program /\ pc.fn \in Function /\ ptr0 = pc.fn
  BY <1>1, StackFacts DEF CallInv, PcShape, Switching
<1>3. pc'.at = "body" /\ pc'.fn = pc.fn
  <2>1. Home(pc.fn) \in Window BY <1>2, HomeFacts
  <2> QED BY <1>1, <1>2, <2>1, AtType DEF Body, Home, Step
<1> SUFFICES ASSUME Bridged(prog), prog.family # "stackbus"
             PROVE  /\ Levels(prog, stack')
                    /\ \E s \in 0..NoSwitch : Now(s)' /\ Levelled(prog, stack', s)
  BY <1>1, MappingNext
<1>4. PICK s \in 0..NoSwitch : Now(s) /\ Levelled(prog, stack, s) BY DEF MappingInv
<1>5. Arrives(s) /\ Shows(prog, s, pc.fn) BY <1>1, <1>4, NowFacts
<1>6. MapIs(s)' BY <1>1, <1>5, SettledArrives
<1>7. Now(s)' BY <1>1, <1>3, <1>5, <1>6, NowNext
<1> QED BY <1>1, <1>4, <1>7 DEF MappingInv

\* The caller resumes.
LEMMA ResumeMaps ==
    ASSUME CallInv, MappingInv, Bridged(prog), prog.family # "stackbus", stack # <<>>,
           Pop(1), ~IsMark(Top), NEW s, Levelled(prog, stack, s)
    PROVE  /\ Levels(prog, stack') /\ Levelled(prog, stack', s)
           /\ IsCode(Top) => Shows(prog, s, Top.fn)
<1>1. stack \in Seq(Entries) /\ Top = stack[Len(stack)] BY DeepFacts DEF Top
<1>2. PICK r : r = stack' OBVIOUS
<1>3. r = SubSeq(stack, 1, Len(stack) - 1) BY <1>2 DEF Pop
<1>4. Levels(prog, stack) BY DEF MappingInv
<1>5. ~IsMark(stack[Len(stack)]) BY <1>1
<1>6. /\ Levels(prog, r) /\ Levelled(prog, r, s)
      /\ IsCode(stack[Len(stack)]) => Shows(prog, s, stack[Len(stack)].fn)
  BY <1>1, <1>3, <1>4, <1>5, PopPlain
<1> QED BY <1>1, <1>2, <1>6

LEMMA FinishMaps ==
    ASSUME CallInv, MappingInv, Finish
    PROVE  MappingInv'
<1>1. /\ pc.at = "finish" /\ UNCHANGED <<prog, shadow>>
      /\ pc' = Top /\ map' = Settled /\ pending' = NoSwitch /\ Pop(1)
  BY DEF Finish, InTrampoline
<1>2. prog \in Program /\ stack # <<>> /\ Top.at = "body"
  BY <1>1, StackFacts DEF CallInv, PcShape, Restoring
<1> SUFFICES ASSUME Bridged(prog), prog.family # "stackbus"
             PROVE  /\ Levels(prog, stack')
                    /\ \E s \in 0..NoSwitch : Now(s)' /\ Levelled(prog, stack', s)
  BY <1>1, MappingNext
<1>3. PICK s \in 0..NoSwitch : Now(s) /\ Levelled(prog, stack, s) BY DEF MappingInv
<1>4. Arrives(s) BY <1>1, <1>3, NowFacts
<1>5. MapIs(s)' BY <1>1, <1>4, SettledArrives
<1>6. ~IsMark(Top) /\ IsCode(Top) BY <1>2 DEF IsMark, IsCode
<1>7. Levels(prog, stack') /\ Levelled(prog, stack', s) /\ Shows(prog, s, Top.fn)
  BY <1>1, <1>2, <1>3, <1>6, ResumeMaps
<1>8. Now(s)' BY <1>1, <1>2, <1>5, <1>7, NowNext
<1> QED BY <1>7, <1>8

-----------------------------------------------------------------------------
(* Entries, returns, and the start. *)

LEMMA MarkOnTop ==
    ASSUME NEW p, NEW q \in Seq(Entries), q # <<>>, IsMark(q[Len(q)])
    PROVE  \A s : Levelled(p, q, s)
<1> PICK n \in Nat \ {0} : n = Len(q) OBVIOUS
<1>1. n \in Marks(q) /\ ~IsCode(q[n])
  <2>1. n \in 1..Len(q) OBVIOUS
  <2> QED BY <2>1, MarksFacts, MarkOrCode
<1> SUFFICES ASSUME NEW s, NEW i \in 0..Len(q), \A k \in Marks(q) : k <= i
             PROVE  Suits(p, q, i, s)
  BY DEF Levelled
<1>2. i = n /\ i # 0 BY <1>1
<1> QED BY <1>1, <1>2 DEF Suits

LEMMA CrossingSelects ==
    ASSUME CallInv, Bridged(prog), Crossing(prog) # {}
    PROVE  /\ Selecting(prog) /\ Single(prog) /\ ~Fixed(prog) /\ prog.family # "pair"
           /\ \A f \in Function : prog.bank[f] \in Bank /\ Desc(f) = prog.bank[f]
<1>1. Selecting(prog) BY DEF Bridged
<1>2. prog \in Program BY StackFacts
<1>3. Single(prog) /\ ~Fixed(prog) /\ prog.family # "pair" BY <1>1, <1>2, FamilyFacts
<1>4. \A f \in Function : prog.bank[f] \in Bank BY <1>2, ProgramFacts
<1>5. \A f \in Function : Desc(f) = prog.bank[f] BY <1>2, <1>3, <1>4, DescriptorFacts DEF Desc
<1> QED BY <1>1, <1>3, <1>4, <1>5

LEMMA PlainEntryMaps ==
    ASSUME CallInv, MappingInv, Entry
    PROVE  MappingInv'
<1>1. /\ pc.at = "entry" /\ UNCHANGED <<prog, shadow, pending, stack>>
      /\ pc' = Body(pc.fn) /\ map' = Selected(prog.bank[pc.fn])
  BY DEF Entry, InTrampoline
<1>2. /\ prog \in Program /\ pc.fn \in Function /\ stack # <<>> /\ stack \in Seq(Entries)
      /\ stack[Len(stack)].at = "entryreturn" /\ Crossing(prog) # {}
  BY <1>1, StackFacts, DeepFacts DEF CallInv, PcShape, Top
<1>3. pc'.at = "body" /\ pc'.fn = pc.fn
  <2>1. Home(pc.fn) \in Window BY <1>2, HomeFacts
  <2> QED BY <1>1, <1>2, <2>1, AtType DEF Body, Home, Step
<1> SUFFICES ASSUME Bridged(prog), prog.family # "stackbus"
             PROVE  /\ Levels(prog, stack')
                    /\ \E s \in 0..NoSwitch : Now(s)' /\ Levelled(prog, stack', s)
  BY <1>1, MappingNext
<1>4. PICK s \in 0..NoSwitch : Now(s) /\ Levelled(prog, stack, s) BY DEF MappingInv
<1>5. pending = NoSwitch BY <1>1, <1>4, NowFacts
<1> PICK t : t = prog.bank[pc.fn] OBVIOUS
<1>6. t \in Bank /\ Desc(pc.fn) = t /\ map' = All(t)
  BY <1>1, <1>2, CrossingSelects DEF Selected
<1>7. t \in 0..NoSwitch BY <1>6, BankFacts DEF Bank
<1>8. MapIs(t)' BY <1>1, <1>2, <1>6, CrossingSelects, SameProgram DEF MapIs, All
<1>9. Shows(prog, t, pc.fn) BY <1>2, <1>6, CrossingSelects DEF Shows, Desc
<1>10. Now(t)' BY <1>1, <1>3, <1>5, <1>8, <1>9, NowNext
<1>11. Levelled(prog, stack, t)
  <2>1. IsMark(stack[Len(stack)]) BY <1>2 DEF IsMark
  <2> QED BY <1>2, <2>1, MarkOnTop
<1> QED BY <1>1, <1>7, <1>10, <1>11 DEF MappingInv

LEMMA EntryReturnMaps ==
    ASSUME CallInv, MappingInv, EntryReturn
    PROVE  MappingInv'
<1>1. /\ pc.at = "entryreturn" /\ UNCHANGED <<prog, shadow, pending>>
      /\ pc' = Top /\ Pop(1) /\ map' = Selected(prog.bank[pc.fn])
  BY DEF EntryReturn, InTrampoline
<1>2. /\ prog \in Program /\ pc.fn \in Function /\ stack # <<>>
      /\ Top.at = "body" /\ Crossing(prog) # {}
  BY <1>1, StackFacts DEF CallInv, PcShape
<1> SUFFICES ASSUME Bridged(prog), prog.family # "stackbus"
             PROVE  /\ Levels(prog, stack')
                    /\ \E s \in 0..NoSwitch : Now(s)' /\ Levelled(prog, stack', s)
  BY <1>1, MappingNext
<1>3. PICK s \in 0..NoSwitch : Now(s) /\ Levelled(prog, stack, s) BY DEF MappingInv
<1>4. pending = NoSwitch /\ s = Desc(pc.fn) BY <1>1, <1>3, NowFacts DEF Desc
<1>5. s \in Bank /\ map' = All(s) BY <1>1, <1>2, <1>4, CrossingSelects DEF Selected
<1>6. MapIs(s)' BY <1>1, <1>2, <1>5, CrossingSelects, SameProgram DEF MapIs, All
<1>7. ~IsMark(Top) /\ IsCode(Top) BY <1>2 DEF IsMark, IsCode
<1>8. Levels(prog, stack') /\ Levelled(prog, stack', s) /\ Shows(prog, s, Top.fn)
  BY <1>1, <1>2, <1>3, <1>7, ResumeMaps
<1>9. Now(s)' BY <1>1, <1>2, <1>4, <1>6, <1>8, NowNext
<1> QED BY <1>8, <1>9

LEMMA ReturnMaps ==
    ASSUME CallInv, MappingInv, Return
    PROVE  MappingInv'
<1>1. /\ pc.at = "body" /\ stack # <<>> /\ UNCHANGED <<prog, shadow, pending>>
      /\ pc' = Top /\ Pop(1) /\ map' = StackBus(Len(stack) - 1, Top.fn)
  BY DEF Return, InBody
<1>2. /\ prog \in Program /\ stack \in Seq(Entries) /\ Top = stack[Len(stack)]
      /\ Top \in Entries /\ EntryShape(Len(stack))
      /\ Top.at \in {"body", "bankreturn", "entryreturn"}
  <2>1. /\ prog \in Program /\ stack \in Seq(Entries) /\ Top = stack[Len(stack)]
        /\ Top \in Entries /\ EntryShape(Len(stack)) /\ Top.at # "source"
    BY <1>1, StackFacts, DeepFacts DEF CallInv, PcShape, Top
  <2> QED BY <1>1, <2>1 DEF EntryShape
<1> SUFFICES ASSUME Bridged(prog), prog.family # "stackbus"
             PROVE  /\ Levels(prog, stack')
                    /\ \E s \in 0..NoSwitch : Now(s)' /\ Levelled(prog, stack', s)
  BY <1>1, MappingNext
<1>3. PICK s \in 0..NoSwitch : Now(s) /\ Levelled(prog, stack, s) BY DEF MappingInv
<1>4. pending = NoSwitch /\ MapIs(s) /\ map' = map BY <1>1, <1>3, NowFacts DEF StackBus
<1>5. MapIs(s)' BY <1>1, <1>4, MapStays
<1>6. CASE Top.at \in {"body", "bankreturn"}
  <2>1. ~IsMark(Top) BY <1>6 DEF IsMark
  <2>2. /\ Levels(prog, stack') /\ Levelled(prog, stack', s)
        /\ Top.at = "body" => Shows(prog, s, Top.fn)
    BY <1>1, <1>3, <2>1, ResumeMaps DEF IsCode
  <2>3. Now(s)' BY <1>1, <1>4, <1>5, <1>6, <2>2, NowNext
  <2> QED BY <2>2, <2>3
<1>7. CASE Top.at = "entryreturn"
  <2>1. Crossing(prog) # {} /\ Top.fn \in Function
    BY <1>2, <1>7, EntryFacts, AddressFacts DEF EntryShape
  <2> PICK t : t = Descriptor(prog, prog.bank[Top.fn]) OBVIOUS
  <2>2. t \in Bank BY <2>1, CrossingSelects DEF Desc
  <2>3. s \in Bank BY <1>4, <2>1, CrossingSelects DEF MapIs
  <2>4. Now(t)' BY <1>1, <1>4, <1>5, <1>7, <2>3, NowNext
  <2>5. PICK r : r = stack' OBVIOUS
  <2>6. Levels(prog, r) /\ Levelled(prog, r, t)
    <3>1. r = SubSeq(stack, 1, Len(stack) - 1) BY <1>1, <2>5 DEF Pop
    <3>2. IsMark(stack[Len(stack)]) /\ Level(prog, stack[Len(stack)]) = t
      BY <1>2, <1>7 DEF IsMark, Level
    <3>3. Levels(prog, stack) BY DEF MappingInv
    <3> QED BY <1>1, <1>2, <3>1, <3>2, <3>3, PopMark
  <2>7. t \in 0..NoSwitch BY <2>2, BankFacts DEF Bank
  <2> QED BY <2>4, <2>5, <2>6, <2>7
<1> QED BY <1>2, <1>6, <1>7

LEMMA SettleMaps ==
    ASSUME CallInv, MappingInv, Settle
    PROVE  MappingInv'
<1>1. /\ pending # NoSwitch /\ map' = All(pending) /\ pending' = NoSwitch
      /\ UNCHANGED <<prog, latch, shadow, pc, stack, ptr0, x, result>>
  BY DEF Settle, cpuVars
<1> SUFFICES ASSUME Bridged(prog), prog.family # "stackbus"
             PROVE  /\ Levels(prog, stack')
                    /\ \E s \in 0..NoSwitch : Now(s)' /\ Levelled(prog, stack', s)
  BY <1>1, MappingNext
<1>2. PICK s \in 0..NoSwitch : Now(s) /\ Levelled(prog, stack, s) BY DEF MappingInv
<1>3. pc.at \in {"jump", "finish"} BY <1>1, <1>2, NowFacts
<1>4. Arrives(s) /\ (pc.at = "jump" => Shows(prog, s, pc.fn)) BY <1>2, <1>3, NowFacts
<1>5. map' = Settled BY <1>1 DEF Settled
<1>6. MapIs(s)' BY <1>1, <1>4, <1>5, SettledArrives
<1>7. Arrives(s)' BY <1>1, <1>6 DEF Arrives
<1>8. Now(s)' BY <1>1, <1>3, <1>4, <1>7, NowNext
<1> QED BY <1>1, <1>2, <1>8 DEF MappingInv

LEMMA MapRamMaps ==
    ASSUME CallInv, MappingInv, MapRam
    PROVE  MappingInv'
<1>1. /\ pc.at = "body" /\ pc.fn \in prog.ram /\ map' = Select(map, 0, Ram)
      /\ UNCHANGED <<prog, latch, shadow, pending, pc, stack, ptr0, x, result>>
  BY DEF MapRam, InBody, cpuVars
<1>2. /\ prog \in Program /\ prog.family = "fixedRam" /\ prog.bank[pc.fn] = NBank - 1
      /\ Fixed(prog) /\ ~Single(prog) /\ prog.family # "pair" /\ NBank - 1 \in Bank
      /\ map \in [Window -> Nat]
  BY <1>1, StackFacts, ProgramFacts, FamilyFacts, BankFacts DEF CallInv, BankCallTypeOK
<1> SUFFICES ASSUME Bridged(prog), prog.family # "stackbus"
             PROVE  /\ Levels(prog, stack')
                    /\ \E s \in 0..NoSwitch : Now(s)' /\ Levelled(prog, stack', s)
  BY <1>1, MappingNext
<1>3. PICK s \in 0..NoSwitch : Now(s) /\ Levelled(prog, stack, s) BY DEF MappingInv
<1>4. pending = NoSwitch /\ MapIs(s) /\ Shows(prog, s, pc.fn) BY <1>1, <1>3, NowFacts
<1>5. s = NoSwitch
  <2>1. Descriptor(prog, NBank - 1) = s BY <1>2, <1>4 DEF Shows
  <2> QED BY <1>2, <2>1, DescriptorFacts
<1>6. MapIs(s)'
  <2>1. /\ map[1] = NBank - 1
        /\ \A w \in Window : map[w] \in Bank \/ w = 0
    BY <1>2, <1>4 DEF MapIs
  <2>2. \A w \in Window : map'[w] = IF w = 0 THEN Ram ELSE map[w]
    BY <1>1, <1>2 DEF Select
  <2>3. 1 \in Window /\ 1 # 0 BY DEF Window
  <2>4. map'[1] = NBank - 1 /\ \A w \in Window : map'[w] \in Bank \/ w = 0
    BY <2>1, <2>2, <2>3
  <2> QED BY <1>1, <1>2, <1>5, <2>4, SameProgram DEF MapIs
<1>7. Now(s)' BY <1>1, <1>4, <1>6, NowNext
<1> QED BY <1>1, <1>3, <1>7 DEF MappingInv

\* The mapping that main runs in.
Start(p) == IF p.family = "pair" THEN 2 ELSE Descriptor(p, p.bank[p.main])

LEMMA StartFacts ==
    ASSUME prog \in Program
    PROVE  /\ Start(prog) \in 0..NoSwitch /\ Shows(prog, Start(prog), prog.main)
           /\ Single(prog) => Start(prog) = StartupBank(prog)
           /\ Fixed(prog) => Start(prog) = NoSwitch
           /\ prog.family \in {"staged", "delayed", "stackbus"} => Start(prog) = 0
           /\ \A s : Suits(prog, <<>>, 0, s) <=> s = Start(prog)
<1>1. /\ prog.bank[prog.main] = StartupBank(prog) /\ StartupBank(prog) \in Bank
      /\ prog.main \in Function
      /\ Single(prog) => prog.family # "pair"
      /\ Fixed(prog) => prog.family \in {"fixed", "fixedRam"}
      /\ prog.family \in {"staged", "delayed", "stackbus"} => Single(prog)
  BY ProgramFacts, StartupFacts, FamilyFacts
<1>2. Start(prog) \in 0..NoSwitch BY <1>1, WindowFacts DEF Start, NoSwitch
<1>3. prog.family = "pair" => Descriptor(prog, prog.bank[prog.main]) = NoSwitch
  <2>1. SUFFICES ASSUME prog.family = "pair"
                 PROVE  Descriptor(prog, prog.bank[prog.main]) = NoSwitch
    OBVIOUS
  <2>2. NBank = 8 /\ prog.bank[prog.main] = 7 BY <1>1, <2>1, ProgramFacts DEF StartupBank
  <2> QED BY <1>1, <2>1, <2>2, DescriptorFacts
<1>4. Shows(prog, Start(prog), prog.main) BY <1>3 DEF Shows, Start
<1>5. Single(prog) => Start(prog) = StartupBank(prog) BY <1>1, DescriptorFacts DEF Start
<1>6. Fixed(prog) => Start(prog) = NoSwitch
  BY <1>1, DescriptorFacts DEF Start, StartupBank
<1>7. prog.family \in {"staged", "delayed", "stackbus"} => Start(prog) = 0
  BY <1>1, <1>5 DEF StartupBank
<1>8. ASSUME NEW s PROVE Suits(prog, <<>>, 0, s) <=> s = Start(prog)
  BY <1>3 DEF Suits, Shows, Start
<1> QED BY <1>2, <1>4, <1>5, <1>6, <1>7, <1>8

\* What the windows show while the machine starts.
Starting(s) ==
    /\ Single(prog) => \E t \in Bank : MapIs(t)
    /\ prog.family = "staged" => map = All(0)
    /\ prog.family = "pair" => map[0] = 4 /\ map[1] = 5 /\ map[2] = 6 /\ map[3] = 7
    /\ Fixed(prog) => MapIs(NoSwitch)

LEMMA MainEndsMaps ==
    ASSUME CallInv, MappingInv, MainEnds
    PROVE  MappingInv'
<1>1. /\ pc.at = "body" /\ stack = <<>> /\ pc' = At("reset", 0, prog.main)
      /\ UNCHANGED <<prog, map, latch, shadow, pending, stack, ptr0, x>>
  BY DEF MainEnds, InBody, mapperVars
<1>2. prog \in Program /\ pc'.at = "reset"
  <2>1. prog \in Program BY StackFacts
  <2>2. prog.main \in Function /\ 0 \in Window BY <2>1, ProgramFacts DEF Window
  <2> QED BY <1>1, <2>1, <2>2, AtType DEF Step
<1> SUFFICES ASSUME Bridged(prog), prog.family # "stackbus"
             PROVE  /\ Levels(prog, stack')
                    /\ \E s \in 0..NoSwitch : Now(s)' /\ Levelled(prog, stack', s)
  BY <1>1, MappingNext
<1>3. PICK s \in 0..NoSwitch : Now(s) /\ Levelled(prog, stack, s) BY DEF MappingInv
<1>4. pending = NoSwitch /\ MapIs(s) BY <1>1, <1>3, NowFacts
<1>5. s = Start(prog)
  <2>1. Marks(stack) = {} BY <1>1 DEF Marks
  <2>2. 0 \in 0..Len(stack) BY <1>1
  <2>3. Suits(prog, stack, 0, s) BY <1>3, <2>1, <2>2 DEF Levelled
  <2> QED BY <1>1, <1>2, <2>3, StartFacts
<1>6. Starting(s)
  <2>1. Single(prog) => \E t \in Bank : MapIs(t) BY <1>4 DEF MapIs
  <2>2. prog.family = "staged" => map = All(0)
    BY <1>2, <1>4, <1>5, StartFacts, FamilyFacts DEF MapIs
  <2>3. prog.family = "pair" => map[0] = 4 /\ map[1] = 5 /\ map[2] = 6 /\ map[3] = 7
    <3>1. prog.family = "pair" => s = 2 BY <1>5 DEF Start
    <3> QED BY <1>4, <3>1 DEF MapIs
  <2>4. Fixed(prog) => MapIs(NoSwitch) BY <1>2, <1>4, <1>5, StartFacts
  <2> QED BY <2>1, <2>2, <2>3, <2>4 DEF Starting
<1>7. Starting(s)' BY <1>1, <1>6 DEF Starting, MapIs
<1>8. Now(s)' BY <1>1, <1>2, <1>4, <1>7 DEF Now, Starting, Switching
<1> QED BY <1>1, <1>3, <1>8 DEF MappingInv

LEMMA BootMaps ==
    ASSUME CallInv, MappingInv, Boot
    PROVE  MappingInv'
<1>1. /\ pc.at = "reset" /\ UNCHANGED <<prog, latch, pending, stack, ptr0, x, result>>
      /\ map' = IF prog.family \in {"selector", "advance", "delayed", "stackbus"}
                THEN All(StartupBank(prog)) ELSE map
      /\ shadow' = 2 /\ pc' = Body(prog.main)
  BY DEF Boot
<1>2. /\ prog \in Program /\ prog.main \in Function /\ stack = <<>>
  BY <1>1, StackFacts, ProgramFacts DEF CallInv, PcShape
<1>3. pc'.at = "body" /\ pc'.fn = prog.main
  <2>1. Home(prog.main) \in Window BY <1>2, HomeFacts
  <2> QED BY <1>1, <1>2, <2>1, AtType DEF Body, Home, Step
<1> SUFFICES ASSUME Bridged(prog), prog.family # "stackbus"
             PROVE  /\ Levels(prog, stack')
                    /\ \E s \in 0..NoSwitch : Now(s)' /\ Levelled(prog, stack', s)
  BY <1>1, MappingNext
<1>4. PICK s \in 0..NoSwitch : Now(s) /\ Levelled(prog, stack, s) BY DEF MappingInv
<1>5. pending = NoSwitch /\ Starting(s) BY <1>1, <1>4 DEF Now, Starting
<1> PICK t : t = Start(prog) OBVIOUS
<1>6. MapIs(t)'
  <2>1. CASE Single(prog)
    <3>1. ~Fixed(prog) /\ prog.family # "pair" BY <1>2, <2>1, FamilyFacts
    <3>2. t = StartupBank(prog) /\ t \in Bank BY <1>2, <2>1, StartFacts, StartupFacts
    <3>3. map' = All(t)
      <4>1. CASE prog.family = "staged" BY <1>1, <1>2, <1>5, <4>1, StartFacts DEF Starting
      <4>2. CASE prog.family # "staged"
        <5>1. prog.family \in {"selector", "advance", "delayed", "stackbus"}
          BY <1>2, <2>1, <4>2, FamilyFacts
        <5> QED BY <1>1, <3>2, <5>1
      <4> QED BY <4>1, <4>2
    <3> QED BY <1>1, <3>1, <3>2, <3>3, SameProgram DEF MapIs, All
  <2>2. CASE Fixed(prog)
    <3>1. ~Single(prog) /\ prog.family \in {"fixed", "fixedRam"} /\ prog.family # "pair"
      BY <1>2, <2>2, FamilyFacts
    <3>2. t = NoSwitch /\ map' = map BY <1>1, <1>2, <2>2, <3>1, StartFacts
    <3>3. MapIs(t) BY <1>5, <2>2, <3>2 DEF Starting
    <3> QED BY <1>1, <2>2, <3>1, <3>2, <3>3, SameProgram DEF MapIs
  <2>3. CASE prog.family = "pair"
    <3>1. ~Single(prog) /\ ~Fixed(prog) BY <1>2, <2>3, FamilyFacts
    <3>2. t = 2 /\ map' = map BY <1>1, <2>3 DEF Start
    <3>3. map[0] = 4 /\ map[1] = 5 /\ map[2] = 6 /\ map[3] = 7 BY <1>5, <2>3 DEF Starting
    <3> QED BY <1>1, <2>3, <3>1, <3>2, <3>3, SameProgram DEF MapIs
  <2> QED BY <1>2, <2>1, <2>2, <2>3, FamilyFacts
<1>7. t \in 0..NoSwitch /\ Shows(prog, t, prog.main) BY <1>2, StartFacts
<1>8. Now(t)' BY <1>1, <1>3, <1>5, <1>6, <1>7, NowNext
<1>9. Levelled(prog, stack, t)
  <2>1. Suits(prog, <<>>, 0, t) BY <1>2, StartFacts
  <2>2. \A i \in 0..Len(stack) : i = 0 BY <1>2
  <2> QED BY <1>2, <2>1, <2>2 DEF Levelled
<1> QED BY <1>1, <1>7, <1>8, <1>9 DEF MappingInv

LEMMA MappingStutters ==
    ASSUME CallInv, MappingInv, UNCHANGED vars
    PROVE  MappingInv'
<1>1. UNCHANGED <<prog, map, latch, shadow, pending, pc, stack, ptr0, x, result>>
  BY DEF vars, mapperVars, cpuVars
<1> SUFFICES ASSUME Bridged(prog), prog.family # "stackbus"
             PROVE  /\ Levels(prog, stack')
                    /\ \E s \in 0..NoSwitch : Now(s)' /\ Levelled(prog, stack', s)
  BY <1>1, MappingNext
<1>2. PICK s \in 0..NoSwitch : Now(s) /\ Levelled(prog, stack, s) BY DEF MappingInv
<1>3. \A t : /\ (MapIs(t)' <=> MapIs(t)) /\ (Shows(prog, t, pc'.fn) <=> Shows(prog, t, pc.fn))
  BY <1>1, MapStays
<1>4. (\E t \in Bank : MapIs(t)') <=> (\E t \in Bank : MapIs(t)) BY <1>3
<1>5. Encodes(s)' <=> Encodes(s) BY <1>1 DEF Encodes, MapIs
<1>6. HalfDone(s)' <=> HalfDone(s) BY <1>1 DEF HalfDone, MapIs
<1>7. Arrives(s)' <=> Arrives(s) BY <1>1 DEF Arrives, MapIs
<1>8. Now(s)'
  BY <1>1, <1>2, <1>3, <1>4, <1>5, <1>6, <1>7, SameProgram DEF Now, Switching, Desc
<1> QED BY <1>1, <1>2, <1>8 DEF MappingInv

-----------------------------------------------------------------------------
(* FE, where the call of main and the return to it switch. *)

LEMMA StackBusFacts ==
    ASSUME CallInv, StackBusInv, prog.family = "stackbus"
    PROVE  /\ prog \in Program /\ prog.bundle = {} /\ Crossing(prog) = {}
           /\ pc.at \in {"reset", "body"} /\ pending = NoSwitch
           /\ \A f \in prog.ram : FALSE
           /\ \A e \in prog.call : prog.bank[e[1]] # prog.bank[e[2]] => e[1] = prog.main
<1>1. prog \in Program BY StackFacts
<1>2. prog.bundle = {} /\ \A f \in prog.ram : FALSE BY <1>1, ProgramFacts
<1>3. Crossing(prog) = {} BY DEF Crossing
<1>4. pc.at \in {"reset", "body"} /\ pending = NoSwitch BY DEF StackBusInv
<1>5. Relocates(prog) BY DEF CallInv, BankCallTypeOK
<1>6. \A e \in prog.call : prog.bank[e[1]] # prog.bank[e[2]] => e[1] = prog.main
  BY <1>5 DEF Relocates
<1> QED BY <1>1, <1>2, <1>3, <1>4, <1>6

\* A step that leaves the stack, the mapper and the running function alone.
LEMMA StackBusCall ==
    ASSUME CallInv, StackBusInv, NEW g \in Function, CallDirect(g)
    PROVE  StackBusInv'
<1>1. /\ pc.at = "body" /\ UNCHANGED <<prog, shadow, pending>>
      /\ stack' = stack \o <<Resume>> /\ pc' = Body(g) /\ map' = StackBus(Len(stack), g)
      /\ <<pc.fn, g>> \in prog.call
  BY DEF CallDirect, InBody, Push
<1> SUFFICES ASSUME prog.family = "stackbus" PROVE StackBusInv' BY <1>1 DEF StackBusInv
<1>2. /\ prog \in Program /\ pc.fn \in Function /\ pc.win \in Window /\ Home(g) \in Window
      /\ stack \in Seq(Entries)
  BY StackFacts, DeepFacts, HomeFacts
<1>3. Resume \in Entries /\ Resume.fn = pc.fn
  BY <1>2, AtType DEF Resume, Entries, Step
<1>4. pc'.at = "body" /\ pc'.fn = g BY <1>1, <1>2, AtType DEF Body, Home, Step
<1>5. g # prog.main /\ (prog.bank[pc.fn] # prog.bank[g] => pc.fn = prog.main)
  <2>1. <<pc.fn, g>>[1] = pc.fn /\ <<pc.fn, g>>[2] = g OBVIOUS
  <2> QED BY <1>1, <1>2, <2>1, ProgramFacts, StackBusFacts
<1> PICK n \in Nat : n = Len(stack) BY <1>2
<1>6. /\ Len(stack') = n + 1 /\ stack'[n + 1] = Resume
      /\ \A i \in 1..n : stack'[i] = stack[i]
  BY <1>1, <1>2, <1>3, Pushed
<1>7. map = All(prog.bank[pc.fn]) /\ pending = NoSwitch BY <1>1 DEF StackBusInv
<1>8. map[0] = prog.bank[pc.fn] BY <1>7, AllFacts
<1>9. CASE n = 0
  <2>1. map' = All(prog.bank[g]) BY <1>1, <1>9 DEF StackBus
  <2>2. \A i \in 2..Len(stack') : FALSE BY <1>6, <1>9
  <2> QED BY <1>1, <1>4, <1>5, <1>7, <2>1, <2>2 DEF StackBusInv
<1>10. CASE n # 0
  <2>1. map' = map BY <1>1, <1>10 DEF StackBus
  <2>2. pc.fn # prog.main BY <1>2, <1>10 DEF StackBusInv
  <2>3. prog.bank[g] = prog.bank[pc.fn] BY <1>5, <2>2
  <2>4. ASSUME NEW i \in 2..(n + 1)
        PROVE  prog.bank[stack'[i].fn] = map[0] /\ stack'[i].fn # prog.main
    <3>1. CASE i = n + 1 BY <1>3, <1>6, <1>8, <2>2, <3>1
    <3>2. CASE i # n + 1
      <4>1. i \in 2..Len(stack) /\ i \in 1..n BY <3>2
      <4>2. stack'[i] = stack[i] BY <1>6, <4>1
      <4> QED BY <4>1, <4>2 DEF StackBusInv
    <3> QED BY <3>1, <3>2
  <2>5. \A i \in 2..Len(stack') :
           prog.bank[stack'[i].fn] = map'[0] /\ stack'[i].fn # prog.main
    BY <1>6, <2>1, <2>4
  <2> QED BY <1>1, <1>4, <1>5, <1>7, <2>1, <2>3, <2>5 DEF StackBusInv
<1> QED BY <1>9, <1>10

LEMMA StackBusReturn ==
    ASSUME CallInv, StackBusInv, Return
    PROVE  StackBusInv'
<1>1. /\ pc.at = "body" /\ stack # <<>> /\ UNCHANGED <<prog, shadow, pending>>
      /\ pc' = Top /\ stack' = SubSeq(stack, 1, Len(stack) - 1)
      /\ map' = StackBus(Len(stack) - 1, Top.fn)
  BY DEF Return, InBody, Pop
<1> SUFFICES ASSUME prog.family = "stackbus" PROVE StackBusInv' BY <1>1 DEF StackBusInv
<1>2. /\ prog \in Program /\ stack \in Seq(Entries) /\ Top = stack[Len(stack)]
      /\ EntryShape(Len(stack))
  BY <1>1, StackFacts, DeepFacts DEF Top
<1>3. Top.at = "body" BY <1>2, StackBusFacts DEF EntryShape
<1> PICK n \in Nat \ {0} : n = Len(stack) BY <1>1, <1>2
<1>4. Len(stack') = n - 1 /\ \A i \in 1..(n - 1) : stack'[i] = stack[i]
  BY <1>1, <1>2, Popped
<1>5. map = All(prog.bank[pc.fn]) /\ pending = NoSwitch BY <1>1 DEF StackBusInv
<1>6. map[0] = prog.bank[pc.fn] BY <1>5, AllFacts
<1>7. CASE n = 1
  <2>1. map' = All(prog.bank[Top.fn]) BY <1>1, <1>7 DEF StackBus
  <2>2. \A i \in 2..Len(stack') : FALSE BY <1>4, <1>7
  <2>3. stack' = <<>>
    <3>1. stack' \in Seq(Entries) /\ Len(stack') = 0 BY <1>1, <1>2, <1>4, <1>7, Popped
    <3> QED BY <3>1
  <2> QED BY <1>1, <1>3, <1>5, <2>1, <2>2, <2>3 DEF StackBusInv
<1>8. CASE n # 1
  <2>1. n \in 2..Len(stack) BY <1>8
  <2>2. prog.bank[Top.fn] = map[0] /\ Top.fn # prog.main BY <1>2, <2>1 DEF StackBusInv
  <2>3. map' = map BY <1>1, <1>8 DEF StackBus
  <2>4. \A i \in 2..Len(stack') :
           prog.bank[stack'[i].fn] = map'[0] /\ stack'[i].fn # prog.main
    <3> SUFFICES ASSUME NEW i \in 2..(n - 1)
                 PROVE  prog.bank[stack'[i].fn] = map[0] /\ stack'[i].fn # prog.main
      BY <1>4, <2>3
    <3>1. i \in 1..(n - 1) /\ i \in 2..Len(stack) OBVIOUS
    <3>2. stack'[i] = stack[i] BY <1>4, <3>1
    <3> QED BY <3>1, <3>2 DEF StackBusInv
  <2> QED BY <1>1, <1>3, <1>5, <1>6, <2>2, <2>3, <2>4 DEF StackBusInv
<1> QED BY <1>7, <1>8

LEMMA StackBusBoot ==
    ASSUME CallInv, StackBusInv, Boot
    PROVE  StackBusInv'
<1>1. /\ pc.at = "reset" /\ UNCHANGED <<prog, pending, stack>>
      /\ map' = IF prog.family \in {"selector", "advance", "delayed", "stackbus"}
                THEN All(StartupBank(prog)) ELSE map
      /\ pc' = Body(prog.main)
  BY DEF Boot
<1> SUFFICES ASSUME prog.family = "stackbus" PROVE StackBusInv' BY <1>1 DEF StackBusInv
<1>2. /\ prog \in Program /\ prog.main \in Function /\ stack = <<>>
      /\ prog.bank[prog.main] = StartupBank(prog)
  BY <1>1, StackFacts, ProgramFacts DEF CallInv, PcShape
<1>3. pc'.at = "body" /\ pc'.fn = prog.main
  <2>1. Home(prog.main) \in Window BY <1>2, HomeFacts
  <2> QED BY <1>1, <1>2, <2>1, AtType DEF Body, Home, Step
<1>4. map' = All(prog.bank[prog.main]) /\ stack' = <<>> /\ pending' = NoSwitch
  BY <1>1, <1>2 DEF StackBusInv
<1>5. \A i \in 2..Len(stack') : FALSE BY <1>4
<1> QED BY <1>1, <1>3, <1>4, <1>5 DEF StackBusInv

LEMMA StackBusEnds ==
    ASSUME CallInv, StackBusInv, MainEnds
    PROVE  StackBusInv'
<1>1. /\ pc.at = "body" /\ stack = <<>> /\ pc' = At("reset", 0, prog.main)
      /\ UNCHANGED <<prog, map, pending, stack>>
  BY DEF MainEnds, InBody, mapperVars
<1> SUFFICES ASSUME prog.family = "stackbus" PROVE StackBusInv' BY <1>1 DEF StackBusInv
<1>2. pc'.at = "reset"
  <2>1. prog.main \in Function /\ 0 \in Window BY StackFacts, ProgramFacts DEF Window
  <2> QED BY <1>1, <2>1, AtType DEF Step
<1>3. \A i \in 2..Len(stack') : FALSE BY <1>1
<1> QED BY <1>1, <1>2, <1>3 DEF StackBusInv

LEMMA StackBusStep ==
    ASSUME CallInv, StackBusInv, [Next]_vars
    PROVE  StackBusInv'
<1>1. CASE Trampoline
  <2>1. CASE Boot BY <2>1, StackBusBoot
  <2>2. CASE BankCall \/ Switch \/ Jump \/ BankReturn \/ Restore \/ Finish \/ Entry \/ EntryReturn
    <3>1. prog' = prog
      BY <2>2 DEF BankCall, Switch, Jump, BankReturn, Restore, Finish, Entry, EntryReturn
    <3>2. pc.at \notin {"reset", "body"}
      BY <2>2 DEF BankCall, Switch, Jump, BankReturn, Restore, Finish, Entry, EntryReturn,
                  FirstAccess, SecondAccess, InTrampoline
    <3>3. prog.family # "stackbus" BY <3>2 DEF StackBusInv
    <3> QED BY <3>1, <3>3 DEF StackBusInv
  <2> QED BY <1>1, <2>1, <2>2 DEF Trampoline
<1>2. ASSUME NEW g \in Function, CallDirect(g) PROVE StackBusInv' BY <1>2, StackBusCall
<1>3. ASSUME NEW g \in Function, CallBundle(g) \/ CallEntry(g) PROVE StackBusInv'
  <2>1. prog' = prog /\ (prog.bundle # {} \/ Crossing(prog) # {})
    BY <1>3 DEF CallBundle, CallEntry
  <2>2. prog.family # "stackbus" BY <2>1, StackBusFacts
  <2> QED BY <2>1, <2>2 DEF StackBusInv
<1>4. CASE Settle \/ MapRam
  <2>1. prog' = prog /\ (pending # NoSwitch \/ pc.fn \in prog.ram)
    BY <1>4 DEF Settle, MapRam
  <2>2. prog.family # "stackbus" BY <2>1, StackBusFacts
  <2> QED BY <2>1, <2>2 DEF StackBusInv
<1>5. CASE Return BY <1>5, StackBusReturn
<1>6. CASE MainEnds BY <1>6, StackBusEnds
<1>7. CASE UNCHANGED vars
  <2>1. UNCHANGED <<prog, map, pending, pc, stack>> BY <1>7 DEF vars, mapperVars, cpuVars
  <2> QED BY <2>1 DEF StackBusInv
<1> QED BY <1>1, <1>2, <1>3, <1>4, <1>5, <1>6, <1>7 DEF Next

-----------------------------------------------------------------------------
(* The invariant. *)

LEMMA MappingStep ==
    ASSUME CallInv, MappingInv, [Next]_vars
    PROVE  MappingInv'
<1>1. CASE Trampoline
  <2>1. CASE Boot BY <2>1, BootMaps
  <2>2. CASE BankCall BY <2>2, BankCallMaps
  <2>3. CASE Switch BY <2>3, SwitchMaps
  <2>4. CASE Jump BY <2>4, JumpMaps
  <2>5. CASE BankReturn BY <2>5, BankReturnMaps
  <2>6. CASE Restore BY <2>6, RestoreMaps
  <2>7. CASE Finish BY <2>7, FinishMaps
  <2>8. CASE Entry BY <2>8, PlainEntryMaps
  <2>9. CASE EntryReturn BY <2>9, EntryReturnMaps
  <2> QED BY <1>1, <2>1, <2>2, <2>3, <2>4, <2>5, <2>6, <2>7, <2>8, <2>9 DEF Trampoline
<1>2. ASSUME NEW g \in Function, CallDirect(g) PROVE MappingInv' BY <1>2, CallDirectMaps
<1>3. ASSUME NEW g \in Function, CallBundle(g) PROVE MappingInv' BY <1>3, CallBundleMaps
<1>4. ASSUME NEW g \in Function, CallEntry(g) PROVE MappingInv' BY <1>4, CallEntryMaps
<1>5. CASE Settle BY <1>5, SettleMaps
<1>6. CASE MapRam BY <1>6, MapRamMaps
<1>7. CASE Return BY <1>7, ReturnMaps
<1>8. CASE MainEnds BY <1>8, MainEndsMaps
<1>9. CASE UNCHANGED vars BY <1>9, MappingStutters
<1> QED BY <1>1, <1>2, <1>3, <1>4, <1>5, <1>6, <1>7, <1>8, <1>9 DEF Next

LEMMA MappingInit ==
    ASSUME Init
    PROVE  MappingInv /\ StackBusInv
<1>1. CallInv BY CallInvInit
<1>2. /\ prog \in Program /\ map \in PowerOn(prog) /\ pending = NoSwitch /\ stack = <<>>
      /\ pc.at = "reset"
  <2>1. prog \in Program BY <1>1, StackFacts
  <2>2. prog.main \in Function /\ 0 \in Window BY <2>1, ProgramFacts DEF Window
  <2> QED BY <2>1, <2>2, AtType DEF Init, Step
<1>3. StackBusInv
  <2>1. \A i \in 2..Len(stack) : FALSE BY <1>2
  <2> QED BY <1>2, <2>1 DEF StackBusInv
<1>4. ASSUME prog.family # "stackbus" PROVE Starting(Start(prog))
  <2>1. CASE Single(prog)
    <3>1. ~Fixed(prog) /\ prog.family # "pair" BY <1>2, <2>1, FamilyFacts
    <3>2. PICK b \in Bank : map = All(b) BY <1>2, <2>1, PowerOnFacts
    <3>3. MapIs(b) BY <3>1, <3>2 DEF MapIs
    <3>4. prog.family = "staged" => map = All(0) BY <1>2, PowerOnFacts
    <3> QED BY <3>1, <3>2, <3>3, <3>4 DEF Starting
  <2>2. CASE Fixed(prog)
    <3>1. ~Single(prog) /\ prog.family \in {"fixed", "fixedRam"} BY <1>2, <2>2, FamilyFacts
    <3>2. map[1] = NBank - 1 /\ \A w \in Window : map[w] \in Bank
      BY <1>2, <2>2, PowerOnFacts
    <3>3. MapIs(NoSwitch) BY <3>1, <3>2 DEF MapIs
    <3> QED BY <3>1, <3>3 DEF Starting
  <2>3. CASE prog.family = "pair"
    <3>1. ~Single(prog) /\ ~Fixed(prog) BY <1>2, <2>3, FamilyFacts
    <3>2. map[0] = 4 /\ map[1] = 5 /\ map[2] = 6 /\ map[3] = 7 BY <1>2, <2>3, PowerOnFacts
    <3> QED BY <2>3, <3>1, <3>2 DEF Starting
  <2> QED BY <1>2, <2>1, <2>2, <2>3, FamilyFacts
<1>5. MappingInv
  <2> SUFFICES ASSUME prog.family # "stackbus"
               PROVE  /\ Levels(prog, stack)
                      /\ \E s \in 0..NoSwitch : Now(s) /\ Levelled(prog, stack, s)
    BY DEF MappingInv
  <2> PICK t : t = Start(prog) OBVIOUS
  <2>1. t \in 0..NoSwitch /\ Suits(prog, <<>>, 0, t) BY <1>2, StartFacts
  <2>2. Now(t) BY <1>2, <1>4 DEF Now, Starting, Switching
  <2>3. Marks(stack) = {} /\ \A i \in 0..Len(stack) : i = 0 BY <1>2 DEF Marks
  <2>4. Levels(prog, stack) BY <2>3 DEF Levels
  <2>5. Levelled(prog, stack, t) BY <1>2, <2>1, <2>3 DEF Levelled
  <2> QED BY <2>1, <2>2, <2>4, <2>5
<1> QED BY <1>3, <1>5

\* The stack has its shape, and the mapper shows what it names.
THEOREM BankCallInvariant == Spec => []BankCallInv
<1>1. Init => BankCallInv BY CallInvInit, MappingInit DEF BankCallInv
<1>2. BankCallInv /\ [Next]_vars => BankCallInv'
  BY CallInvStep, MappingStep, StackBusStep DEF BankCallInv
<1> QED BY <1>1, <1>2, PTL DEF Spec

-----------------------------------------------------------------------------
(* Fetching. *)

\* The mapping that suits a function shows it, and the trampoline where it runs.
LEMMA MappingShows ==
    ASSUME CallInv, NEW s, MapIs(s), NEW f \in Function, Shows(prog, s, f)
    PROVE  map[Home(f)] = prog.bank[f] /\ map[Home(f)] \in Bank
<1>1. prog \in Program /\ prog.bank[f] \in Bank BY StackFacts, ProgramFacts
<1>2. CASE Single(prog)
  <2>1. map = All(s) /\ s = prog.bank[f] /\ Home(f) = 0
    BY <1>1, <1>2, DescriptorFacts, FamilyFacts DEF MapIs, Shows, Home
  <2> QED BY <1>1, <2>1, AllFacts
<1>3. CASE Fixed(prog)
  <2>1. map[1] = NBank - 1 /\ (s # NoSwitch => map[0] = s) BY <1>3 DEF MapIs
  <2>2. Descriptor(prog, prog.bank[f]) = s BY <1>1, <1>3, FamilyFacts DEF Shows
  <2>3. \A b \in Bank : b # NoSwitch BY BankFacts
  <2> QED BY <1>1, <1>3, <2>1, <2>2, <2>3, DescriptorFacts DEF Home
<1>4. CASE prog.family = "pair"
  <2>1. /\ map[0] = 2 * s /\ map[1] = 2 * s + 1 /\ map[2] = 6 /\ map[3] = 7 /\ s \in 0..2
    BY <1>4 DEF MapIs
  <2>2. Descriptor(prog, prog.bank[f]) \in {NoSwitch, s} BY <1>4 DEF Shows
  <2> PICK b \in Bank : b = prog.bank[f] BY <1>1
  <2>3. b \in 0..7 BY <1>1, <1>4, ProgramFacts DEF Bank
  <2>4. CASE b >= 6
    <3>1. Home(f) = b - 4 BY <1>1, <1>4, <2>4, BankFacts, DescriptorFacts DEF Home
    <3> QED BY <2>1, <2>3, <2>4, <3>1
  <2>5. CASE ~(b >= 6)
    <3>1. Home(f) = b % 2 /\ Descriptor(prog, b) = b \div 2
      BY <1>1, <1>4, <2>3, <2>5, DescriptorFacts DEF Home
    <3>2. s = b \div 2 BY <2>2, <2>3, <3>1 DEF NoSwitch
    <3> QED BY <2>1, <2>3, <3>1, <3>2
  <2> QED BY <2>4, <2>5
<1> QED BY <1>1, <1>2, <1>3, <1>4, FamilyFacts

\* Where a mapping is shown, ROM answers everywhere but in the lower window of 3E.
LEMMA RomAnswers ==
    ASSUME CallInv, NEW s, MapIs(s), NEW w \in Window,
           w = 0 => prog.family # "fixedRam"
    PROVE  map[w] \in Bank
<1>1. prog \in Program BY StackFacts
<1>2. CASE Single(prog) BY <1>2, AllFacts DEF MapIs
<1>3. CASE Fixed(prog) BY <1>3 DEF MapIs
<1>4. CASE prog.family = "pair"
  <2>1. /\ map[0] = 2 * s /\ map[1] = 2 * s + 1 /\ map[2] = 6 /\ map[3] = 7 /\ s \in 0..2
        /\ NBank = 8
    BY <1>1, <1>4, ProgramFacts DEF MapIs
  <2>2. w = 0 \/ w = 1 \/ w = 2 \/ w = 3 BY DEF Window
  <2> QED BY <2>1, <2>2 DEF Bank
<1> QED BY <1>1, <1>2, <1>3, <1>4, FamilyFacts

\* While a switch is on its way some mapping is shown, or half of one.
LEMMA OnTheWay ==
    ASSUME CallInv, NEW s, pc.at \in {"switch", "restore"} => Encodes(s),
           pc.at \in {"switch2", "restore2"} => HalfDone(s),
           pc.at \in {"jump", "finish"} => Arrives(s), Switching \/ Restoring
    PROVE  (\E t : MapIs(t)) \/ (prog.family = "pair" /\ \A w \in Window : map[w] \in Bank)
<1>1. prog \in Program BY StackFacts
<1>2. CASE pc.at \in {"switch", "restore"}
  <2>1. Encodes(s) BY <1>2
  <2> QED BY <2>1 DEF Encodes
<1>3. CASE pc.at \in {"switch2", "restore2"}
  <2>1. HalfDone(s) BY <1>3
  <2>2. CASE prog.family = "staged" BY <2>1, <2>2 DEF HalfDone
  <2>3. CASE prog.family = "pair"
    <3>1. /\ map[0] = 2 * s /\ map[1] \in Bank /\ map[2] = 6 /\ map[3] = 7 /\ s \in 0..2
          /\ NBank = 8
      BY <1>1, <2>1, <2>3, ProgramFacts DEF HalfDone
    <3>2. \A w \in Window : w = 0 \/ w = 1 \/ w = 2 \/ w = 3 BY DEF Window
    <3> QED BY <2>3, <3>1, <3>2 DEF Bank
  <2> QED BY <2>1, <2>2, <2>3 DEF HalfDone
<1>4. CASE pc.at \in {"jump", "finish"}
  <2>1. Arrives(s) BY <1>4
  <2> QED BY <2>1 DEF Arrives
<1> QED BY <1>2, <1>3, <1>4 DEF Switching, Restoring

\* Every instruction is fetched from the bank that holds it.
LEMMA FetchedFromItsBank ==
    ASSUME BankCallInv
    PROVE  FetchesIntendedCode
<1> SUFFICES ASSUME Bridged(prog) PROVE FetchesItsCode /\ FetchesTrampoline
  BY DEF FetchesIntendedCode
<1> USE DEF BankCallInv
<1>1. /\ prog \in Program /\ pc.at \in Step /\ pc.at # "payload"
      /\ pc.fn \in Function /\ pc.win \in Window
  BY StackFacts, AddressFacts DEF CallInv, PcShape
<1>2. CASE prog.family = "stackbus"
  <2>1. pc.at \in {"reset", "body"} /\ (pc.at = "body" => map = All(prog.bank[pc.fn]))
    BY <1>2 DEF StackBusInv
  <2> QED BY <1>1, <2>1, AllFacts DEF FetchesItsCode, FetchesTrampoline, Fetched
<1>3. CASE prog.family # "stackbus"
  <2>1. PICK s : Now(s) /\ Levelled(prog, stack, s) BY <1>3 DEF MappingInv
  <2>2. FetchesItsCode
    <3> SUFFICES ASSUME pc.at = "body" PROVE Fetched = prog.bank[pc.fn] BY DEF FetchesItsCode
    <3>1. MapIs(s) /\ Shows(prog, s, pc.fn) /\ pc.win = Home(pc.fn)
      BY <2>1, NowFacts DEF CallInv, PcShape
    <3> QED BY <1>1, <3>1, MappingShows DEF Fetched
  <2>3. FetchesTrampoline
    <3> SUFFICES ASSUME pc.at \notin {"reset", "body"} PROVE map[pc.win] \in Bank
      BY DEF FetchesTrampoline, Fetched
    <3>1. CASE pc.at = "bankcall"
      <4>1. MapIs(s) BY <2>1, <3>1, NowFacts
      <4>2. /\ stack # <<>> /\ Top.at = "payload" /\ pc.win = Top.win
            /\ Top \in Entries /\ EntryShape(Len(stack)) /\ Top = stack[Len(stack)]
        BY <3>1, StackFacts DEF CallInv, PcShape, Top
      <4>3. Top.fn \in Function /\ pc.win = Home(Top.fn)
        BY <4>2, EntryFacts, AddressFacts DEF EntryShape
      <4>4. Shows(prog, s, Top.fn)
        <5>1. PICK r : r = SubSeq(stack, 1, Len(stack) - 1) OBVIOUS
        <5>2. ~IsMark(stack[Len(stack)]) /\ IsCode(stack[Len(stack)])
          BY <4>2 DEF IsMark, IsCode
        <5>3. Levels(prog, stack) /\ stack \in Seq(Entries) BY <1>3, DeepFacts DEF MappingInv
        <5> QED BY <2>1, <4>2, <5>1, <5>2, <5>3, PopPlain
      <4> QED BY <4>1, <4>3, <4>4, MappingShows
    <3>2. CASE pc.at \in {"entry", "entryreturn"}
      <4>1. Single(prog) /\ \E t : MapIs(t)
        <5>1. Crossing(prog) # {} BY <3>2 DEF CallInv, PcShape
        <5>2. Single(prog) BY <5>1, CrossingSelects
        <5> QED BY <2>1, <3>2, <5>2, NowFacts
      <4> QED BY <1>1, <4>1, RomAnswers, FamilyFacts
    <3>3. CASE pc.at = "bankreturn" \/ Switching \/ Restoring
      <4>1. prog.family = "fixedRam" => pc.win = 1
        <5> SUFFICES ASSUME prog.family = "fixedRam" PROVE pc.win = 1 OBVIOUS
        <5>1. CASE Switching
          <6>1. pc.win = HomeWindow(prog, StartupBank(prog)) /\ StartupBank(prog) = NBank - 1
            BY <5>1 DEF CallInv, PcShape, StartupBank
          <6> QED BY <1>1, <6>1, BankFacts, FamilyFacts, DescriptorFacts
        <5>2. CASE pc.at = "bankreturn" \/ Restoring BY <5>2 DEF CallInv, PcShape
        <5> QED BY <3>3, <5>1, <5>2
      <4>2. (\E t : MapIs(t)) \/ (prog.family = "pair" /\ \A w \in Window : map[w] \in Bank)
        <5>1. CASE pc.at = "bankreturn" BY <2>1, <5>1, NowFacts
        <5>2. CASE Switching \/ Restoring BY <2>1, <5>2, NowFacts, OnTheWay
        <5> QED BY <3>3, <5>1, <5>2
      <4> QED BY <1>1, <4>1, <4>2, RomAnswers
    <3> QED BY <1>1, <3>1, <3>2, <3>3 DEF Step, Switching, Restoring
  <2> QED BY <2>2, <2>3
<1> QED BY <1>2, <1>3

\* No instruction of a program whose calls are bridged is fetched from a bank that does
\* not hold it: not inside a trampoline while it changes the mapper, not in the callee,
\* and not back in the caller.
THEOREM FetchesIntendedCodeHolds == Spec => []FetchesIntendedCode
<1>1. BankCallInv => FetchesIntendedCode BY FetchedFromItsBank
<1> QED BY <1>1, BankCallInvariant, PTL

===============================================================================
