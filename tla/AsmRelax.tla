------------------------------ MODULE AsmRelax ------------------------------
(***************************************************************************)
(* The passes of the assembler over one segment of a source file.          *)
(*                                                                         *)
(* Every instruction starts in its longest form.  A pass lays the segment  *)
(* out and then shortens whatever fits as the addresses are in that pass;  *)
(* nothing is ever made long again.  For an object file the residue of the *)
(* segment's base is then chosen from what .align and the .same and .cross *)
(* branches ask for, and everything is done again with that residue.       *)
(*                                                                         *)
(* One statement is                                                        *)
(*   branch  a conditional branch, with the page annotation of its source  *)
(*   load    an instruction that has an absolute and a zero-page form      *)
(*   res     bytes (.res, .byte, instructions of one form)                 *)
(*   align   .align boundary, offset                                       *)
(*   if      .if label < bound, up to the next endif                       *)
(*   endif                                                                 *)
(* and its place in the sequence is also the label in front of it.         *)
(* Left out: .rorg, .org, imports, symbols changed by .set, and segments   *)
(* that refer to one another.                                              *)
(***************************************************************************)
EXTENDS Integers, Sequences, FiniteSets

CONSTANTS
    Source,        \* source files: [stmts, object, base, segmentalign]
    MaxPass,       \* asm_relax: passes it makes at most (50)
    MaxTry,        \* main: selections that may start another relaxation (4)
    Back, Forth,   \* how far a short branch reaches (128, 127)
    Page           \* bytes of a page (256)

\* What an object file may ask of its base (1 to 32768).
Powers == {1, 2, 4, 8, 16, 32, 64, 128, 256, 512, 1024, 2048, 4096, 8192, 16384, 32768}

\* An operand that refers to labels of a file of n statements.
Operand(n) ==
    [kind : {"number"}, add : Int]
      \cup [kind : {"label"}, to : 1..n, add : Int]
      \cup [kind : {"span"}, from : 1..n, to : 1..n, add : Int]

\* Statement i of n.  An object file can keep an alignment if it is a power of two.
\* The condition of an if is evaluated as the pass meets it.
Statement(i, n, object) ==
    [kind : {"branch"}, to : 1..n, page : {"flex", "same", "cross"}]
      \cup [kind : {"load"}, operand : Operand(n)]
      \cup [kind : {"res"}, size : Nat]
      \cup {s \in [kind : {"align"}, boundary : Nat, offset : Nat] :
              s.offset < s.boundary /\ (object => s.boundary \in Powers)}
      \cup [kind : {"if"}, label : 1..i, bound : Nat]
      \cup [kind : {"endif"}]

ASSUME AsmAssumption ==
    /\ MaxPass \in Nat \ {0} /\ MaxTry \in Nat
    /\ Back \in Nat /\ Forth \in Nat /\ Page \in Powers
    /\ \A s \in Source :
          /\ s.object \in BOOLEAN /\ s.base \in Nat
          /\ s.segmentalign \in Powers
          /\ s.object => s.base = 0
          /\ Len(s.stmts) \in Nat
          /\ \A i \in 1..Len(s.stmts) : s.stmts[i] \in Statement(i, Len(s.stmts), s.object)

VARIABLES
    source,    \* the file
    form,      \* final_mode of every statement that has a choice
    layout,    \* what the last asm_pass1 has found
    passes,    \* passes of this asm_relax
    required,  \* required_reloc_alignment once it is locked, else 0
    phase,     \* selected_reloc_phase
    tries,     \* selections after which everything was relaxed again
    stage,     \* what main does next
    why        \* the error that was reported, or none

asmVars == <<source, form, layout, passes, required, phase, tries, stage, why>>

Stmt == source.stmts
Index == 1..Len(source.stmts)
IsA(i, kind) == Stmt[i].kind = kind

Coarser(a, b) == IF a >= b THEN a ELSE b
Smallest(S) == CHOOSE x \in S : \A y \in S : x <= y

-----------------------------------------------------------------------------
(* asm_pass1 *)

\* choose_initial_emit_mode
Longest(i) == CASE IsA(i, "branch") -> "long"
                [] IsA(i, "load")   -> "abs"
                [] OTHER            -> "fixed"

\* emit_mode_size
FormSize(f) == CASE f = "long" -> 5 [] f = "short" -> 2
                 [] f = "abs"  -> 3 [] f = "zp"    -> 2

\* Mutant of Padding: a segment is padded as if its base were page aligned.
PaddingFromStart(address, s) == (s.offset - (address - phase)) % s.boundary

\* align_padding_for_address
Padding(address, s) == (s.offset - address) % s.boundary

(***************************************************************************)
(* Where asm_pass1 is before a statement: the offset, whether the          *)
(* statement is active, and the largest alignment met so far.  The forms   *)
(* are f, the segment is to lie at residue r, and b says where the pass    *)
(* was before statement i and all before it: this is where it is after i.  *)
(***************************************************************************)
Before(f, r, b, i) ==
    LET s == Stmt[i]
        now == b[i]
        size == CASE s.kind \in {"branch", "load"} -> FormSize(f[i])
                  [] s.kind = "res"   -> s.size
                  [] s.kind = "align" -> Padding(source.base + r + now.pc, s)
                  [] OTHER            -> 0
        align == IF s.kind = "align" THEN Coarser(now.align, s.boundary) ELSE now.align
    IN  CASE s.kind = "endif" -> [now EXCEPT !.on = TRUE]
          [] s.kind = "if"    -> [now EXCEPT !.on = source.base + b[s.label].pc < s.bound]
          [] OTHER            -> IF now.on THEN [now EXCEPT !.pc = @ + size, !.align = align]
                                 ELSE now

Walk(f, r, m) ==
    LET before[i \in 1..(Len(Stmt) + 1)] ==
            IF i = 1 THEN [pc |-> 0, on |-> TRUE, align |-> m]
            ELSE Before(f, r, before, i - 1)
    IN  [at    |-> [i \in 1..(Len(Stmt) + 1) |-> before[i].pc],
         on    |-> [i \in Index |-> before[i].on],
         align |-> before[Len(Stmt) + 1].align]

\* reset_segment_pcs
Known == IF required > 0 THEN required ELSE source.segmentalign

\* The labels of a pass, as expr_eval sees them.
Address(l, i) == source.base + l.at[i]
Used(l) == l.at[Len(Stmt) + 1]

Active(l, kind) == {i \in Index : IsA(i, kind) /\ l.on[i]}

-----------------------------------------------------------------------------
(* asm_relax *)

\* branch_disp16, from the program counter behind a short branch.
Reaches(from, to) == to - (from + 2) \in -Back..Forth

ShortReaches(l, i) == Reaches(l.at[i], l.at[Stmt[i].to])

\* Mutant of CanShorten: measured from the opcode and not from behind it.
CanShortenFromOpcode(l, i) ==
    l.on[Stmt[i].to] /\ l.at[Stmt[i].to] - l.at[i] \in -Back..Forth

\* insn_can_relax_long_branch; a label of an inactive statement is undefined.
CanShorten(l, i) == l.on[Stmt[i].to] /\ ShortReaches(l, i)

(***************************************************************************)
(* The operand of a load: a number, a label, or an equate of the distance  *)
(* of two labels (an absolute symbol although labels define it).           *)
(***************************************************************************)
Defined(l, o) == CASE o.kind = "number" -> TRUE
                   [] o.kind = "label"  -> l.on[o.to]
                   [] o.kind = "span"   -> l.on[o.from] /\ l.on[o.to]
Value(l, o) == CASE o.kind = "number" -> o.add
                 [] o.kind = "label"  -> Address(l, o.to) + o.add
                 [] o.kind = "span"   -> l.at[o.to] - l.at[o.from] + o.add

\* expr_is_u8_value
IsByte(v) == v \in 0..(Page - 1)

\* classify_zp_relax_expr: an offset in an object proves nothing.
MayBeZeroPage(o) == o.kind = "label" => ~source.object

\* can_relax_to_zp_family and the checks behind it.
CanZeroPage(l, i) ==
    LET o == Stmt[i].operand
    IN  MayBeZeroPage(o) /\ Defined(l, o) /\ IsByte(Value(l, o))

\* Inactive statements are looked at like the others.
Relaxed(l) ==
    [i \in Index |->
        CASE form[i] = "long" /\ CanShorten(l, i)  -> "short"
          [] form[i] = "abs"  /\ CanZeroPage(l, i) -> "zp"
          [] OTHER -> form[i]]

\* Mutant of Changed: only the size of the segment is watched.
ChangedSize(l) == Used(l) # Used(layout)

\* The segment signature and the forms.
Changed(l) == Used(l) # Used(layout) \/ Relaxed(l) # form

RelaxPass ==
    /\ stage = "relax"
    /\ LET l == Walk(form, phase, Known)
       IN  /\ layout' = l
           /\ form' = Relaxed(l)
           /\ passes' = passes + 1
           /\ stage' = IF Changed(l) /\ passes + 1 < MaxPass
                       THEN "relax" ELSE "validate"
    /\ UNCHANGED <<source, required, phase, tries, why>>

-----------------------------------------------------------------------------
(* Page contracts *)

Contracts == {i \in Index : IsA(i, "branch") /\ Stmt[i].page \in {"same", "cross"}}

Crosses(from, to) == (from + 2) \div Page # to \div Page

\* Whether an annotation holds for a branch between two final addresses.
Honours(i, from, to) == Stmt[i].page = "cross" <=> Crosses(from, to)

(***************************************************************************)
(* validate_branch_page_specs: an annotated branch must have become short, *)
(* also in a statement that is not active; a flat file is also measured.   *)
(***************************************************************************)
AnnotationsValid ==
    \A i \in Contracts :
        /\ form[i] = "short"
        /\ source.object \/ ~layout.on[Stmt[i].to]
             \/ Honours(i, Address(layout, i), Address(layout, Stmt[i].to))

Validate ==
    /\ stage = "validate"
    /\ IF AnnotationsValid
       THEN /\ stage' = IF source.object THEN "select" ELSE "finish"
            /\ why' = why
       ELSE stage' = "refused" /\ why' = "annotation"
    /\ UNCHANGED <<source, form, layout, passes, required, phase, tries>>

-----------------------------------------------------------------------------
(* asm_select_reloc_phases *)

\* reloc_alignment is locked the first time, as the last pass has found it.
Modulus == IF required > 0 THEN required ELSE layout.align

(***************************************************************************)
(* segment_phase_candidate_score: the offsets the active statements would  *)
(* have at residue r; only .align changes its size.                        *)
(***************************************************************************)
Moved(r) ==
    LET Behind(at, i) == at + IF IsA(i, "align") /\ layout.on[i]
                              THEN Padding(r + at, Stmt[i])
                              ELSE layout.at[i + 1] - layout.at[i]
        moved[i \in 1..(Len(Stmt) + 1)] ==
            IF i = 1 THEN 0 ELSE Behind(moved[i - 1], i - 1)
    IN  moved

\* Mutant of Suits: the residue only has to keep the alignments.
SuitsUnmeasured(r) == r % source.segmentalign = 0

Suits(r) ==
    /\ r % source.segmentalign = 0
    /\ LET m == Moved(r)
       IN  \A i \in Contracts :
              layout.on[i] =>
                /\ layout.on[Stmt[i].to]
                /\ Reaches(m[i], m[Stmt[i].to])
                /\ Honours(i, r + m[i], r + m[Stmt[i].to])

\* The shortest layout, and the lowest residue that gives it.
Best ==
    LET SizeAt(r) == Moved(r)[Len(Stmt) + 1]
        fit == {r \in 0..(Modulus - 1) : Suits(r)}
        short == Smallest({SizeAt(r) : r \in fit})
    IN  Smallest({r \in fit : SizeAt(r) = short})

\* Mutant of NoneSuits: the search starts behind residue zero.
NoneSuitsPositive == \A r \in 1..(Modulus - 1) : ~Suits(r)

NoneSuits == \A r \in 0..(Modulus - 1) : ~Suits(r)

SelectFails ==
    /\ stage = "select"
    /\ Modulus > 1 /\ NoneSuits
    /\ stage' = "refused" /\ why' = "phase"
    /\ UNCHANGED <<source, form, layout, passes, required, phase, tries>>

\* Mutant of Reselect: the selections are not counted.
ReselectForever ==
    /\ stage = "select"
    /\ Modulus > 1 /\ ~NoneSuits
    /\ required = 0 \/ Best # phase
    /\ required' = Modulus
    /\ phase' = Best
    /\ tries' = tries
    /\ layout' = Walk(form, Best, Modulus)
    /\ form' = [i \in Index |-> Longest(i)]
    /\ passes' = 0
    /\ stage' = "relax"
    /\ UNCHANGED <<source, why>>

\* A new residue: everything is relaxed again, while there are tries.
Reselect ==
    /\ stage = "select" /\ tries < MaxTry
    /\ Modulus > 1 /\ ~NoneSuits
    /\ required = 0 \/ Best # phase
    /\ required' = Modulus
    /\ phase' = Best
    /\ tries' = tries + 1
    /\ layout' = Walk(form, Best, Modulus)
    /\ form' = [i \in Index |-> Longest(i)]
    /\ passes' = 0
    /\ stage' = "relax"
    /\ UNCHANGED <<source, why>>

\* The last selection, after which nothing is relaxed again.
Settle ==
    /\ stage = "select"
    /\ IF Modulus > 1
       THEN /\ ~NoneSuits
            /\ tries = MaxTry \/ (required > 0 /\ Best = phase)
            /\ required' = Modulus /\ phase' = Best
       ELSE UNCHANGED <<required, phase>>
    /\ stage' = "finish"
    /\ UNCHANGED <<source, form, layout, passes, tries, why>>

\* main: one final layout pass.
Finish ==
    /\ stage = "finish"
    /\ layout' = Walk(form, phase, Known)
    /\ stage' = "emit"
    /\ UNCHANGED <<source, form, passes, required, phase, tries, why>>

-----------------------------------------------------------------------------
(* asm_pass2 and o26_write_object_file *)

BranchesReach == \A i \in Active(layout, "branch") :
    form[i] = "short" => ShortReaches(layout, i)

OperandsFit == \A i \in Active(layout, "load") :
    form[i] = "zp" => IsByte(Value(layout, Stmt[i].operand))

\* Every operand of an active statement needs a value.
OperandsDefined ==
    /\ \A i \in Active(layout, "branch") : layout.on[Stmt[i].to]
    /\ \A i \in Active(layout, "load") : Defined(layout, Stmt[i].operand)

\* An object file takes the low byte of whatever an operand has become.
Emit ==
    /\ stage = "emit"
    /\ why' = CASE ~OperandsDefined -> "undefined"
                [] OperandsDefined /\ ~BranchesReach -> "range"
                [] OperandsDefined /\ BranchesReach
                     /\ ~source.object /\ ~OperandsFit -> "operand"
                [] OTHER -> why
    /\ stage' = IF why' = "none" THEN "written" ELSE "refused"
    /\ UNCHANGED <<source, form, layout, passes, required, phase, tries>>

AsmInit ==
    /\ source \in Source
    /\ form = [i \in Index |-> Longest(i)]
    /\ layout = [at |-> [i \in 1..(Len(Stmt) + 1) |-> 0],
                 on |-> [i \in Index |-> FALSE], align |-> 1]
    /\ passes = 0 /\ required = 0 /\ phase = 0 /\ tries = 0
    /\ stage = "relax" /\ why = "none"

AsmNext == \/ RelaxPass \/ Validate \/ SelectFails \/ Reselect
           \/ Settle \/ Finish \/ Emit

Running == stage \notin {"written", "refused"}

(***************************************************************************)
(* The assembler is one sequential program and makes its next step while   *)
(* it runs.  This is weak fairness of AsmNext, which is enabled as long as *)
(* the assembler runs, with the condition in place of ENABLED.             *)
(***************************************************************************)
AsmSpec ==
    /\ AsmInit /\ [][AsmNext]_asmVars
    /\ ([]<>~Running \/ []<><<AsmNext>>_asmVars)

-----------------------------------------------------------------------------
Conditional == \E i \in Index : IsA(i, "if")
Aligning == {i \in Index : IsA(i, "align")}
(***************************************************************************)
(* README of the assembler, trace of the passes: "still relaxable: 0".     *)
(* Unless a limit was hit, the addresses that are emitted leave no long    *)
(* branch that a short one could replace and no absolute operand that has  *)
(* a zero-page form.                                                       *)
(***************************************************************************)
StableIsTight ==
    stage = "written" /\ passes < MaxPass /\ tries < MaxTry =>
        /\ \A i \in Active(layout, "branch") : form[i] = "long" => ~CanShorten(layout, i)
        /\ \A i \in Active(layout, "load") : form[i] = "abs" => ~CanZeroPage(layout, i)

(***************************************************************************)
(* A branch is made short on addresses that are still to shrink.  Where    *)
(* nothing but code lies between it and its target, they shrink together,  *)
(* and a branch once made short never gets out of range.                   *)
(***************************************************************************)
OnlyPaddingBreaksBranches ==
    why = "range" => Conditional \/ Aligning # {}

(***************************************************************************)
(* README of the assembler, .align: "address % boundary == offset [...] is *)
(* an absolute CPU-address contract rather than merely a section-relative  *)
(* coincidence": it holds at every base that satisfies what is recorded.   *)
(***************************************************************************)
AlignedAtEveryBase ==
    stage = "written" =>
        \A i \in Active(layout, "align") :
            /\ source.object => layout.align % Stmt[i].boundary = 0
            /\ (source.base + phase + layout.at[i + 1]) % Stmt[i].boundary
                  = Stmt[i].offset

(***************************************************************************)
(* What is written with .same and .cross branches can be placed: at some   *)
(* base that has the recorded alignment and residue all of them hold.  A   *)
(* flat file holds them where it is.  An object file that asks for no      *)
(* alignment is not measured: its contracts are left to the linker.        *)
(***************************************************************************)
ContractsPlaceable ==
    stage = "written" /\ (source.object => layout.align > 1) =>
        \E b \in IF source.object THEN 0..(Coarser(Page, layout.align) - 1) ELSE {source.base} :
            /\ source.object => b % layout.align = phase
            /\ \A i \in Contracts :
                  layout.on[i] => Honours(i, b + layout.at[i], b + layout.at[Stmt[i].to])

(***************************************************************************)
(* The opposite: if no residue is found, no base satisfies the contracts   *)
(* with the forms that were chosen.  That holds only if the residue fixes  *)
(* the place in the page: with a smaller alignment bases are left out that *)
(* the linker could use.                                                   *)
(***************************************************************************)
RefusedOnlyIfImpossible ==
    why = "phase" /\ ~Conditional /\ Modulus >= Page =>
        \A b \in {r \in 0..(Modulus - 1) : r % source.segmentalign = 0} :
            LET l == Walk(form, b, Modulus)
            IN  \E i \in Contracts :
                   \/ ~Reaches(l.at[i], l.at[Stmt[i].to])
                   \/ ~Honours(i, b + l.at[i], b + l.at[Stmt[i].to])

\* What is written can be placed, and what is refused could not be.
ResidueServesContracts == ContractsPlaceable /\ RefusedOnlyIfImpossible

\* The assembler comes to an end with every file.
AsmEnds == <>(stage \in {"written", "refused"})

(***************************************************************************)
(* README of the assembler: "Relaxation is allowed for absolute            *)
(* expressions [...] (including affine constant addends which remain in    *)
(* range)."  What was made a zero-page operand is one when it is written.  *)
(***************************************************************************)
ZeroPageLegal ==
    stage = "written" =>
        \A i \in Active(layout, "load") :
            form[i] = "zp" => IsByte(Value(layout, Stmt[i].operand))
=============================================================================
