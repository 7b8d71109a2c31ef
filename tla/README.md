# Specifications of VCSC

VCSC compiles a C-like language ("C26") to cartridges for the Atari 2600: a
6507 with 128 bytes of RAM shared by variables and hardware stack, and up to
256 KB of ROM seen through a 4 KB window by means of some twenty mappers. Four
things make this hard, and none of them is checked at run time:

* there is **no software stack**: parameters, locals and temporaries of every
  function have fixed addresses, and the linker lets functions share them that
  are never live together, and variables that are used in different phases of a
  television frame;
* the **hardware stack** grows down into the variables, so the linker has to
  know how deep the program can nest;
* code **changes the bank it executes from**, and a call between banks has to
  come back to the right one;
* instructions have **several forms and many constraints**: the assembler
  shrinks them on addresses that shrinking moves, and the linker places objects
  so that branches and tables do or do not cross pages.

This directory models these mechanisms as the source implements them, from the
driver and the archiver to the restart of a running program. It checks them with
TLC on small programs and proves central properties for all programs with TLAPS.

## 1. The system

| Component (source) | State | Operations | Interacts with | What is hard | What makes it correct |
|---|---|---|---|---|---|
| Compiler front end, expression lowering (`compiler/compile.c`, `compile_expr*.c`, `compile_lvalue.c`) | symbol tables, emit streams | lower declarations, statements, expressions | scratch, calls, records | evaluation order | generated code means what the source says |
| Calls (`compiler/compile_call.c`, `compile_toplevel.c`) | current function of the code, current owner of the activation, stack of expansions | direct call with staging, expansion, return | records edges for the linker, uses scratch slots | a call while arguments of another are half delivered | no needed byte is overwritten |
| Call records (`compiler/compile_function.c`) | list of call edges, list of lifetime edges | record an edge once | exported as symbols read by the linker | calls without a current function are dropped | every call is recorded |
| Scratch leases (`compiler/compile_support.c`) | per function: depth, slots, uses, active stack | acquire, activate, deactivate, release | calls, expressions, phase overlay | leases nest, slots are reused | no slot has two users at a time |
| Inliner (`compiler/compile_inline_*.c`) | analysis of call sites and effects, selections | analyse, decide, specialize | calls, driver's profit search | the transformed call graph | an expansion means the call |
| Assembler (`assembler/`) | statements, symbol table, chosen forms, residue | passes, relaxation, choice of a residue, emit | linker | forms that shrink and addresses that move | the passes end, in addresses that the forms fit |
| Archiver (`archiver/vcsc_ar.c`) | an archive, a new one beside it | replace, append, list, extract | linker | failing calls, a kill, a reader | an archive is the old or the new one |
| Linker: input and archives (`linker/vcsc_ld_input.c`) | chosen objects, unresolved symbols | load, select members, select startup | everything behind | fixpoint with reselection | every needed member and no other |
| Linker: bank placement (`linker/vcsc_ld.c` 8171-9150) | components of layouts, pins, assignment | unite, pin, assign, search | allocator, trampolines, stack | hard and soft edges, capacity | data and branches stay in their bank |
| Linker: call graph and stack (4328-4769, 5206-5275) | nodes, edges, memo of depths, reserve | refuse recursion, compute depth, shrink the region | placement, layout | two different maxima, startup | pushes fit the reserve |
| Linker: activation overlay (9579-9759) | sizes, bases, pass, changed | relax, refuse, place | call graph, allocator | two kinds of edges, one cycle check | live activations are disjoint |
| Linker: allocator (5566-6360) | a mark and holes per region | probe, split a hole, advance the mark | placement, layout | alignment, pages, hazardous reads, pools of banks | no two objects overlap, contracts hold |
| Linker: phase overlay, layout, tables (9100-9578, 9761-10250) | groups of workspaces, tables of startup | overlay, place, write records | allocator, startup | who is alive in which phase | nothing loses what it still needs |
| Linker: relocation and bridges (10283-11995) | entries, generic block, image | rewrite, make entries, bridges and vectors | placement, mappers | same bytes at the same place in every bank | calls reach their target |
| Trampolines (`libraries/vcs/<mapper>/bankcall.s26`, `entry.s26`) | `_vcsc_ptr0`, A, X, stack, E0's pair byte | bank call, switch, return | mapper, linker patches | code disappears under the program counter | a far call is a call |
| Runtime (`libraries/runtime/`) | cursor of the tables | copy, zero, initialize, enter main | linker tables, stack | transient pushes, counts of pages and bytes | memory is initialized before main |
| Simulator (`simulator/main.cpp`) | memory, selected banks, latches of mappers | read, write, per-mapper switch | test suite | delayed and stack-driven switches | agrees with the hardware |
| Driver (`driver/`) | private directory, objects, trial links | compile, assemble, link, search inline profit | all tools | a step that fails | leaves nothing behind, links what it measured |
| VCS components (`libraries/vcs/*.c26`) | frame, sound and controller state | hooks by phase | phase overlay | scan-line timing | deadlines; phases do not share live bytes |
| Disassembler, tagger, packaging, editors, examples | - | reports | - | - | - |

`PROJECT.json` lists them with what is modelled of each and what is not; the
hazards found while reading are there too, each at its line.

## 2. The modules

```
Library ◁── Archiver ── ArchiverProofs                     archives and who reads them
ArchiveSelection ── BuildDriver ── BuildProofs             from the inputs to a link
ScratchLease ─┬─ UnitProofs                                the compiler's temporaries
AsmRelax ─────┘                                            forms and addresses of one file
CallGraph ── ActivationLayout ── ActivationRun             the static activations
     │                              └ ActivationProofs
     └─ StackReserve ── StackReserveProofs                 the hardware stack
RegionAllocator ── RegionLayout ◁── RegionProbe ── PhaseOverlay ─┐
     │                                    Startup ── LinkedProgram ── LinkedProgramProofs
     └─ BankPlacement ── BankPlacementProofs               memory: placed, initialized, used
FarCall ◁── BankCall ── BankCallProofs                     calls between banks
MC<module>                                                 instances for TLC
```

`──` is EXTENDS, `A ◁── B` says that B implements A.

**Library** and **Archiver.** Library says what a command that updates an archive
promises: all of it, at one moment, or nothing, and an exit status that is true.
`Composed(t, s, I, inputs, n)` states what the new archive holds by places and
counts, without a recursive filter, so that it can be proved about. Archiver is
`vcsc_ar.c` call by call: names are entries of a directory, files are inodes, the
new archive is written under a fixed temporary name, closed, and renamed over the old
one. `Fail`, the second disjuncts of `Create`, `Close` and `Rename`, and `Remove` that
may not remove are calls of the system that fail; `Crash` kills the process
anywhere and leaves any part of what it wrote (`Cuts`). The reader is
`list_archive`, `extract_archive` or the linker's `load_archive` with the file
open; `was` is the history variable of what it opened. A crash is that of the
process: what a power loss does to a file system is not modelled.

**ArchiveSelection** is `select_needed_objects` and what calls it. `CollectNeeded`
begins a pass with the vectors and the imports of what is selected then;
`Provide` looks at one of them and, if nothing selected exports it, strongly or
weakly, selects the best provider: the first strong one in command-line order,
or else the first weak one. `EndPass` repeats while a pass selects anything.
`ChooseStartup` is main's decision, on the memory the selected objects have, to
`Reselect` from a smaller startup. What makes a blanket clear unsafe, a copy or
an initializer necessary is a property of an object (`noinit`, `copy`, `init`).

**BuildDriver** puts the compile driver in front of it. `CompileUnit` is one
source through compiler and assembler; `AddProfile` and `AddHelper` add the
default cartridge and the swapram helper when the inputs need them. The search of
`-finline-profit` is `Baseline`, then rounds of `Try` and `Skip` over the candidates
of the manifests: a trial replaces the object of a unit in the list of inputs
(`strvec_clone_replace`), and what its map says (any figures, `MayMeasure`) decides
whether object, accepted names and figures to beat are replaced. Any tool
may fail at any time; `Kept` is what is left in the private directory then.

**AsmRelax** is the assembler over one segment: `Walk` lays the statements out from their
forms, `RelaxPass` makes short whatever fits on the addresses of that pass (`Relaxed`) and never makes
it long again. For an object file `Settle` and `Reselect` then choose the residue of the
segment's base that suits the requests of `.align`, `.same` and `.cross` (`Suits`, `Best`) and do
it all again when forms and residue disagree, up to `MaxTry` times. `Validate` and `Finish` check the
contracts once more, `Emit` writes or refuses. A statement is its kind and its number, a label is
the place of a statement; the boundary of an `.align` is positive and, in an object, a power of two (the first pass refuses others,
`asm_pass.c:1604-1617`), and a condition refers to a label in front of it.

**ScratchLease** is the lease discipline of `compile_support.c`. A *context* is a
function or expansion being lowered, an *arena* (`compiler_scratch_scopes`) the
activation owner whose contexts share one count of nesting and one array of
slots. `Acquire` takes the slot at the present depth and joins the phases of the
context to it; `Activate` makes the lease's symbol the one code is generated
through; `Deactivate` measures what was used, from the context's high-water
mark, and restores the mark saved when the lease was *acquired*; `Release` insists on the
last slot; `EmitBss` emits storage once nothing is held; `Refuse` is `error_unreachable`.
`Widen` is the one place that changes a lease from outside
(`arg_scratch.reserved = psz`), `Store` and `Copy` are code generated into the
slot, recorded in the history variable `uses`. Any routine may do any of
this in any order: no discipline of the clients is assumed except that code
generated for a lease stays in what the lease reserved.

**CallGraph.** Reachability and recursion, stated without recursion (every
closed set of successors contains the target) so that they can be proved about.
They stand for Tarjan's components in `call_graph_tarjan_visit`.

**ActivationLayout** is `layout_activation_segments` with the records it reads.
A program is a set of call sites with the function whose code holds the call
(`current_call_graph_function`), the function whose activation is current there
(`current_activation_graph_function`), the callee, and whether the call is
expanded. `CallEdges` and `LifetimeEdges` are what the compiler records.
`Enforce` is the refusal of recursive call graphs; `Relax(e)` is one edge of one
pass, with the edges of a pass in any order (the linker's order is that of
objects and exports, which the properties must not depend on); `EndPass` is the
loop condition, the convergence test and the cycle refusal; `Place` is the
extent check and the allocation. One region is modelled; the code repeats the
loop for each region over the same graph.

**ActivationRun** extends it with the execution of the program so laid out.
`ctl` is the stack of calls in progress, each either evaluating arguments or
running its body. `BeginCall` reaches a call expression, `StoreArgument` copies
an argument or stages it (`must_stage`), `EnterBody` copies the staged ones and
enters by JSR or by falling into an expansion, `Work` stores into the rest of
the activation, `Return` ends. `Compilable` is what the compiler can produce: an expansion
is the only one of its function (`OnlySite`), the activation current at a site in an expansion is that of
the function expanded there (`OwnerIsExpanded`), and expansions do not nest in themselves. Values are abstracted to the serial number of
the call that wrote a byte, which is all the properties need.

**StackReserve** computes the reserve as the linker does (recursion check, the
two memoized depth visits step by step, the formula with descriptors, startup
bytes and initializer cursor) and then runs startup, initializers, main and
every push. A function's frame records the bytes in use while it runs.

**RegionAllocator** has the linker's two allocators, and the dry-run copy of the second: a region is a
mark and a set of holes. `Allocate` tries the holes from below (`HoleFits`, `Consume`), then the first
address behind the mark (`TailAddress`) that satisfies alignment, page, index window, zero page,
hazardous reads and, in a swapram pool, the bank. `SimulateCode` puts code with page contracts on its branches
where it grows the region least and then crosses the fewest pages (`BestOf`); the linker's own
`AllocateCode` first refuses a `.same` or `.cross` branch that leaves its layout (`OutOfScope`),
which the copy does not. For code without branches the two copies of the code decide alike, and both are `Allocate`. Widths are constants (`Page`,
`Top`, `Word`), because the code's arithmetic wraps at them. **RegionLayout** places the
objects of a problem one by one, in any order (`Place`), and stops at the first that is refused.
**RegionProbe** is the probing loop address by address (`Begin`, `Step`) and implements the search that
RegionLayout takes in one step (`ProbesForFirst`).

**PhaseOverlay** adds what `layout_objects` does with phases: `Closure` and `Mask` are the phases from the
first to the last in which a workspace is used, `Groups` the first fit of candidates by size into groups of
disjoint phases; `SlotShape` is what the allocator is asked for a group, at the place of its leader, and
`Merged` puts the group there unless a member does not suit the address. **Startup** is
`vcsc-rt0.s26` and its two smaller replacements, byte by byte through `ptr0`, with the
counts in X and Y as the code keeps them. **LinkedProgram** composes them: at `Boot` the link has
chosen a startup (`StartupKind`) and written the tables of what it placed (`CopyRecords`, `ZeroRecords`),
if they lie below the top of the address space; startup works them off, and then frames run through their phases (`NextPhase`), storing into the
objects used in each (`Write`); `Restart` starts again with RAM as it is.

**BankPlacement** is `assign_automatic_bank_placements`: the references are read one by one. A hard one
unites the components of its ends (`Unite`) or pins one to the other's bank (`Pin`), a soft one becomes
a weighted cut; `SoftRef`, `ReplicaRef`, `ItemRef`, `ImageRef` and `AbsoluteRef` are the kinds. Then come pinned
components (`AssignPinned`), the others (`AssignNext`) and the local search (`StartSearch`, `Visit`,
`EndRound`), all under `Fits`, a dry run of the allocator (`TrialFits`, which runs `SimulateCode`). `LayOut` is the real
allocation (`AllocateCode`), part by part in input order: it ends laid out, or at the first part refused,
with `scope` for a `.same` or `.cross` branch that leaves its layout and an overflow otherwise. Links with
constraints that contradict each other are excluded by name (`Satisfiable`, in `LinkAssumption`), since
the dry run, and the allocator, probe for ever then; `NothingHangs` proves that with them excluded neither does.

**BankCall** executes the trampolines instruction by instruction at the points
where the mapper may change: a program counter is a window of the address space
and a place in it, and `map` says which bank answers in each window, so *what
code is fetched is a consequence of the mapper's state*. Eight families cover the
mappers: selector (F8, F6, F4, FA, FA2, DPC, JANE, 0840, UA, UASW, 0FA0), advance
(F0), delayed (WD: `pending` is a switch that has been asked for and `Settle` makes it
three cycles later, while the trampoline runs on), staged (FC), pair (E0), fixed (3F),
fixedRam (3E, 3EX), and stackbus (FE: the byte on the bus after an access to `$01FE`
selects, so that the outermost jsr and rts switch by themselves). `CallBundle` is
`jsr` with `.banktarget`; `CallEntry` a plain JSR rewritten to an entry of the
common table; `CallDirect` a JSR that stays where it is. The simulator's bus is
the reference for what an access does.

**FarCall** is the abstract specification of a call: the callee runs, the caller
continues, the result is in A:X. `BankCall` implements it under a mapping that
makes the call happen at the JSR and the return at the callee's RTS. A return address and a descriptor
(`Saved`) are entries of the same stack; which of them a step pops is a question the proofs answer.
There are 2 to 255 banks, since a descriptor is a byte and `$FF` means none; on F0 their number is a power of
two, as its hotspot counts modulo it.

## 3. What is checked

| Run | Question | Instance | Distinct states (about) |
|---|---|---|---|
| `activation` | Does the relaxation end, correctly, in any order of edges, and does code that runs in shared memory lose anything? | programs on 4 functions: a call in an argument, a function in its own argument, expansions with calls in arguments and bodies, nested expansions, a mixed cycle, activations that do not fit; every choice of arguments that hold calls; 4 calls per behaviour | 118 000 |
| `stack_reserve` | Does the reserve hold every push? | every call graph on main and two functions, every placement in two banks, every startup; region of 8 bytes, so that some are refused | 18 900 |
| `scratch_lease` | Do leases keep out of each other's slots, in storage that is enough? | a function, a hook expanded in it (same arena), and a hook with its own arena; three lease variables, slots of up to 2 bytes, nesting of 2, 3 acquisitions | 1 280 000 |
| `bank_call` | Is a far call a call, on every kind of mapper? | 8 banks, 8 families, all placements in banks that matter, every choice of bundle or plain call among three; chains of three bundled calls on E0 | 20 900 |
| `archive_selection` | From the driver's inputs to the selected objects: complete, without excess, nothing left behind? | the stock runtime, a program and two objects that import and export two symbols strongly or weakly with every kind of storage; reset shims before and after the runtime, a handler of its own, a runtime without its smallest startup; builds with 3 inline candidates in 2 units and any figures of 4 values, with and without profile and helper; every tool may fail | 272 000 |
| `bank_placement` | Do assignment and search keep what is tied together, and does the layout accept what the dry run accepted? | 3 banks of two pages; every pair of references of every kind in both orders, between movable, fixed and banked layouts, links whose sizes force calls apart, and layouts with branches of each policy, within the layout and out of it | 28 100 |
| `relaxation` | Does relaxation end, tight, and do contracts hold wherever the object is put? | every file of 4 statements, and files with a condition on a label, flat and as objects; branches that reach 8 back and 7 forth, pages of 16 bytes, so that every limit lies within the file | 324 000 |
| `linked_program` | Is memory placed without overlap, initialized before main, and kept while it is needed? | 10 programs: objects of every kind of constraint, in every order, in a ROM, a RAM and a pool of banks; workspaces of disjoint phases; each startup; a region that ends at the top of the address space; one restart | 40 200 |
| `archive_update` | Is an archive ever anything but the old or the new one? | archives of up to two members, whole, cut short, or no archives; six commands with replaced, invalid and missing inputs; two updates, one killed anywhere, one read at the same time | 2 546 000 |
| `stack_claims`, `bank_bridges`, `asm_claims` | Does the code do what the documentation says? (No: section 5) | few programs each | - |

Properties:

* `SettledIsLeast`: a finished layout separates the ends of every edge and wastes nothing.
  `CycleMeansCycle`: `node_count` passes are enough, whatever the order; a graph
  without a cycle through stored bytes is never refused. `RecursionIsReported`: compiled
  programs never get to the terse second refusal, because one call site per
  expansion makes every mixed cycle a cycle of calls too. `LayoutTerminates`: the
  relaxation ends on every graph.
* `LiveActivationsDisjoint`, `StoredBytesIntact`: no two live activations share
  a byte, and every byte still needed (parameters of running bodies, locals,
  and arguments delivered to a callee *not yet entered*) is what its owner wrote.
* `StackFitsReserve`: no push leaves the reserve, for the programs the
  computation accounts for (no descriptor ABI, no helper, initializers without
  calls; the three restrictions are the causes `stack_claims` shows).
* `SlotsHaveOneHolder`: the slots held in an arena are exactly those its nesting
  counts, one lease each, in whatever order leases of several contexts are given back.
  `EmittedCovers`: storage emitted for a slot has every byte that was used of it,
  although it is measured from a mark that other leases save and restore.
  `OverlayOnlyPhased`: a slot given to the phase overlay was never used outside of
  the phases recorded for it.
* `FetchesIntendedCode`: no instruction is fetched from a bank that does not
  hold it, at any moment of a switch, also of a switch that comes late (WD) or by a
  stack access (FE). `CallsAsFarCalls`: refinement of FarCall. `TrampolineEnds`: F0's
  counting loops end, also for a call within one bank, which takes 256 accesses.
* `NothingMissing`: what a selection lacks no input has. `PulledForNeed`: every object
  had a reason when it was selected, and a weak export is one only for want of a
  strong one. `StartupSuits`: the startup chosen for one selection initializes all that
  the next contains, and is alone in it. `ShimKeptUnlessReselected`: a strong `__reset`
  wins over the weak ones before it (and see section 5). `FinalIsMeasured`: what is
  linked in the end is what the last accepted trial measured, object for object.
  `NoGainLeft`: the search ends only when a whole round accepted nothing. `BuildEnds`: every
  build ends, and leaves nothing in the private directory.
* `TiesKept`: what a hard reference ties is in one bank, through assignment and search.
  `AcceptedIsLaidOut`: the real allocator finds room for whatever the dry run
  accepted (for the startup whose tables the dry run simulates in the linker's order: section 5), and
  refuses what was accepted if and only if a `.same` or `.cross` branch leaves its layout.
  `NothingLeftToMove`: a search that ended by itself leaves no move that cuts fewer calls.
  `PlacementEnds`.
* `StableIsTight`: when forms do not change any more, nothing could still be shortened.
  `OnlyPaddingBreaksBranches`: a short branch is out of range only where an
  `.align` between it and its target absorbed a shrink. `AlignedAtEveryBase`: whatever
  multiple of the alignment asked for the linker adds to the residue, every `.align` holds.
  `ResidueServesContracts`: if the file is written the contracts of `.same` and
  `.cross` can be met at some base the linker may choose, and it is refused only if no residue
  tried could serve them. `AsmEnds`.
* `RegionAccounted`: every byte below the mark belongs to exactly one object or hole.
  `ContractsKept`: every object has what it asked for. `ProbesForFirst`: the loop finds the
  first address that suits. `MembersKeepOwn`: objects that share a slot each lie
  in it with their own alignment and are never needed in the same phase.
  `InitializedAtMain`: when main starts every byte has its initial value. `LiveIntact`: what an
  object still needs is there, through all phases, frames and a restart.
  `CalledOnceInOrder`: initializers run once per start, in the order linked. `LinkEnds`, `ReachesMain`.
* `ReadsWhatWasThere`: a read that succeeds delivered one archive as it was when it was
  opened. `UpdatesAreAtomic`: refinement of Library, with failing calls and a kill anywhere.

**Mutants.** For each property `PROJECT.json` names a changed definition, the
way a slip in that code would look (one pass less, nothing staged, the wrong source
byte, `fclose` not looked at, …), for which TLC finds the property violated.

**Bounds.** The relaxation of activations treats an edge by its two ends; four functions
are needed for siblings above a common caller below a common callee, and the worst
case of `node_count` passes needs a path through all nodes, which is there. The
calls in a behaviour (`MaxSerial = 4`) allow a call in an argument of a call in
a body, with something run before it. Two leases of one arena and one of
another, of which two are in different contexts of the same arena, are what
the comparisons in `scratch_lease` are about; a third acquisition reuses a slot given back. Three
functions in two banks give the stack every pattern of crossings on paths of length
three; `NBank = 8` is what E0 has and is more than the other families distinguish: F0
with 16 banks and FC's latch of two parts behave alike for any power of two. In
`archive_selection` two objects that may export for each other, weakly or
strongly, and for the program are enough for chains of three passes and for each
of them to be wanted for the other's symbol. Three inline candidates, two of them in one
unit, are a round in which an accepted one changes what the others are measured against.

Memory is scaled down, with the places where arithmetic wraps kept: `linked_program` has pages
of 4 bytes in an address space of 6, and bytes of 10 values, so that a record
is longer than a page and shorter than a byte's worth, and all counts carry.
In `bank_placement` a bank is two pages, one function fills more than half of it, and three
of them cannot all be where calls want them. `MaxPass = 6` of `relaxation` is more than the
longest chain of 4 statements that shrink one after the other; `MaxTry = 4` is the
code's own number. In `archive_update`
two members tell replaced from kept and first from last, two updates let the second find what
the first left, and three inodes are what can exist at a time: the archive,
the new one and the one a reader still has open.
The theorems remove these bounds for everything they cover.

**Fairness.** A linker, assembler or driver is one sequential program that takes its next step:
weak fairness of the next step, and nothing of what its tools or callers answer. `LayoutSpec` and the run over
it state it with WF. `AsmSpec`, BankPlacement's `Spec`, `BuildSpec`, `LinkerGoesOn` and
`ProcessorGoesOn` spell it out as "infinitely often not running, or infinitely often a step", which is
the same where a running program always has a step. `ProcessorGoesOn` is about startup code only. `BankCall!Spec`
assumes it of the instructions *inside* a trampoline only; nothing is assumed of
compiled code, which may loop forever. The archiver has no liveness: it may be killed.

**Deadlock** is checked in `bank_call`, where a main that ends goes on forever, and in
`bank_placement`. It is off where the modelled system stops: a link, an
assembly, a build or a session of the archiver ends or is refused, a run uses up the bound on calls,
acquisitions or restarts, and in `bank_bridges` code that was entered in the wrong bank is followed no further.

## 4. What is proved

All for every set of functions, objects or members, every program and every size, under the
assumptions the modules name: functions form a finite set, a program has its type,
no function has more parameter bytes than activation bytes, every context has an
arena and a set of phases, bounds are numbers, objects have different places on
the command line, alignments are powers of two and not larger than the address space, which they divide, what a
blanket clear must not touch has no initializer, records of the tables start below the top of the
address space, nothing calls main, the marker of a missing thing is no thing. TLC
evaluates the assumptions in the runs.

* **ActivationProofs.** `LayoutInv` is the type invariant, `TodoInv` and `PassInv` and
  what is to be shown. They say what a pass leaves behind: as long as nothing moved in the
  current pass, every edge already looked at is satisfied; and at every moment
  an activation starts at 0 or at most where a caller's ends *now*
  (`Supported`). Bases only grow, so tightness is restored only when nothing moves
  any more. From it `SettledIsFixpointHolds`, `SettledIsTightHolds` and together
  `SettledIsLeastHolds`. `PlacedHasNoLiveCycleHolds` uses the set of functions that start at or
  after the end of `f`: it is closed under the edges and does not contain `f`.

  `CycleMeansCycleHolds` counts. Whatever is raised in pass `n` was raised along a walk of at least `n` edges
  (`CycleInv`, `Raised`, `Long`): an edge that is not satisfied although a pass has looked at it is one whose caller was
  raised since. After as many passes as there are functions some function occurs twice on the walk, with a higher
  base the second time, so that between the two an activation with bytes lies below itself. `RecursionIsReportedHolds` carries such a cycle over to the
  functions that *hold the code*: in a compilable program an edge of the overlay from an activation is
  an edge of calls from the function that activation is expanded in (`OwnerIsExpanded`), and expansions end.

  For the execution `RunInv` adds `ClearInv` (each live call ends at or
  below the start of *every* later call; a new call starts above the activation
  current at its site, because the compiler records an edge between exactly those
  two), and `ArgsInv` (a call interrupted while its arguments are evaluated is
  interrupted by an argument that holds a call, so everything before it is
  staged). The first gives `LiveActivationsDisjointHolds`; the second is why
  staging is needed for calls and not for expansions, and with it
  `StoredBytesIntact` is inductive. `NoReentryHolds` follows from disjointness.
* **StackReserveProofs.** `StackInv` carries the memo (`MemoInv`: a known function has known
  callees, and its weighted depth is exactly the longest of what they ask for)
  from the depth visits into the run, where it becomes a budget
  (`FramesInv`): the bytes used up to a frame, plus two for each slot of the weighted
  depth below it, never exceed those of main. The budget of main comes from
  the formula, and every call hands on what is left.
* **UnitProofs** is about what is done with one unit before it is linked, the leases of its temporaries and the passes of
  the assembler.

  *Leases.* `LeaseInv` adds three facts to the properties. `NestingCreated`: a slot in
  use was created. `UsesBacked`: what was used of a slot is measured already, or
  is in the reservation of its present holder; giving a lease back measures at
  least its reservation, so nothing is lost when the holder goes, whatever the mark says.
  `PhasesRecorded`: phases are joined when a slot is acquired, before any use.
  `SlotsHaveOneHolder` is inductive as it stands: releasing only the slot at the
  depth keeps the slots held a prefix. When storage is emitted nothing is held
  (`EmittedIsIdle`), so `UsesBacked` gives `EmittedStorageCovers`.

  *Passes.* The offsets of a pass are a recursive function of the statements, and what they satisfy is stated without it
  (`IsPass`: each statement begins where the one before it ends, the alignment found is as large as every active
  `.align`), by induction over the statements, for every file, residue and choice of forms (`WalkFacts`). From
  there `AsmInv` says, of each stage, which layout it has: a relaxation that ended by itself has that of its forms and
  its residue, with nothing left to shorten (`TightInv`), the final pass makes the layout that is written whatever was cut
  short (`FinalInv`), and `StableIsTightHolds` and `AlignedAtEveryBaseHolds` follow, the latter because of two powers of
  two the larger is a multiple of the smaller. `ShortInv` is about files without padding and conditions: if
  no statement becomes longer, no two labels move apart (`Apart`), so a branch that is in reach stays in reach, in every
  later layout at every residue (`ShrinkingKeepsReach`); hence `OnlyPaddingBreaksBranchesHolds`. For contracts, what the selection
  measures at a residue is the pass at that residue, as long as the same statements are active in both
  (`MovedIsPass`), which `SuitInv` (a residue that was chosen) and `RefusedInv` (none was found) carry to the end.
  `ResidueServes` has a hypothesis that no invariant replaces, `WithinLimits`: the last relaxation was not ended by `MaxPass`, nor, in an
  object with a condition, the selection by `MaxTry`. Otherwise forms and residue disagree when the search
  stops, and the property is false: with limits of 2 and 0 TLC finds a file that is written with a contract no base serves.
  With the limits of the code (50 and 4) that takes a file that needs 50 passes, or whose residue changes four times.

* **BuildProofs.** `PassInv` says what a pass finds as long as it selects
  nothing: it looks at everything selected, and every need it has passed is
  *settled*, met or not to be met. It must speak of passes that selected nothing
  only: in others `upto` lags behind the selection. A last pass therefore leaves
  everything settled (`EndInv`), which is `NothingMissingHolds`.
  `PulledForNeedHolds` needs that the reason of an object refers to objects before
  it, which later selections do not change (`PulledGrows`).
  `OrderInv` is what the passes add up to: each object but the configuration's was selected for a need that was
  not met, and by the best provider of all inputs, when every need before that one, in the order of the objects that have
  them, was settled (`Because`, `InOrder`). Beginning again from the vectors changes nothing of it, because
  what is settled stays settled. `ShimKeptHolds` is its beginning: the first need is `__reset`, and as long as no
  configuration object exports it, the object selected for it is the best provider, strong if there is one.
  `StartupSuitsHolds` compares two selections: the second begins with a startup, needs `main`
  first, and from there meets the needs of the program in the same order as the first did; so the program's objects in the second
  are a *prefix* of those in the first (`PrefixStep`), what stores nothing there stores nothing here, and no other startup
  can be asked for, as the vectors are met. This needs the runtime to be the stock one (`StockRuntime`: the full startup first
  in the archive, startups that export their own name, and weakly the vectors, import `main` and store nothing, helpers that export one
  symbol and need none; configuration objects that are no startups and need nothing), as `vcsc-rt0.s26`, `vcsc-rt1-data.s26` and `vcsc-rt1-simple.s26` are.
  `BuildSelects` carries all of it to the links that the driver runs, by `DriverInv`: until the link begins nothing is selected, and
  the profile and the helpers it adds leave the inputs `Linkable`.
  For the driver: `SearchInv` keeps that the objects to be linked are those chosen, and their figures
  no worse than the plain program's (`FinalIsMeasuredHolds`); `RoundInv` keeps that, as long as a round has accepted
  nothing, everything it tried was tried with the same others, so that a last round leaves no
  candidate that would still be a gain (`NoGainLeftHolds`).
* **BankPlacementProofs.** `PlacementInv`: every reference read so far is `Tied`, by the component of its
  ends, by a pin, by the banks allowed to one end, or because one bank sees the other, which is asked
  of pins only, and pins never change. When the components are collapsed
  their members agree (`CompInv`), and the placement is one bank for each
  component that suits all its members (`PlaceInv`). With that `TiesKeptHolds`, for links that are
  `JudgedInPlace`: the code judges an absolute reference of an item that may be moved from the bank its configuration
  names (section 5). `SearchInv` is the search: as long as a round has moved nothing, nothing is left to move among the
  components it has been to; `NothingLeftToMoveHolds` is its last round.
  `AcceptInv` is the ledger and the dry run: what is taken from a bank is what was reserved and the bytes of what is placed
  there (`LedgerInv`), and what is placed so far was laid out in the last dry run (`TrialInv`), since a component is put only where it
  `Fits`. The rest of `AcceptedIsLaidOutHolds` is about the allocator. What the dry run has placed the real one
  places alike up to the first part with a branch out of scope, at which it stops, or to the end if there is none (`RealAnswers`,
  `RealParts`, `RealTables`). For the dry run, where a sequence of parts finds room its beginnings do (`LaidFirst`),
  which covers the parts and the simple startup. The data startup allocates the tables of the dry run without the one in the middle;
  a table asks for nothing but bytes, and taking another one first only moves the mark on and makes holes smaller (`RoomWithout`), so
  it finds room without it too (`LaidWithout`). The full startup has them in another order, and for that the claim is false (section 5).
* **LinkedProgramProofs.** From the allocator to the running program, in this order.

  *The allocator's answers are sound*, without its state: an address found in a
  hole lies in it, one found behind the mark is behind it, and both satisfy what the object asked for
  (`Sound`). The search behind the mark looks at one period of alignment and page only, and that is enough
  because the constraints of an ordinary region repeat with it. Then the state (`RegionInv`): objects apart from objects, holes
  from holes, objects from holes (`RegionPartitionedHolds`), no byte in none of them
  (`NoByteLostHolds`), together `RegionAccountedHolds`; and `ContractsKeptHolds`. `LayoutAccounted` is the same of
  the composed program.

  *The loop implements the search* (`ProbesForFirstHolds`): `ProbeInv` says that all addresses passed in the
  current search do not fit, so that the first that does is what RegionLayout's one step answers. This one
  holds for pools of banks too.

  *Sharing.* What a fold over the candidates builds is described without the fold (`Iterates`, `Grouped`):
  every group has one leader, members that fit in it, and disjoint masks (`SoundGroups`). With the addresses it
  gives `LinkInv`, and `MembersKeepOwnHolds`.

  *The tables.* `LaidOut`: two objects overlap only if they share a slot by their phases. The images, records and
  calls are joined end to end in ROM (`IsJoin`, `InTurn`); reading an entry of a joined sequence gives `Booted`: record `k` of
  a table has, at its place and in its order, the addresses and the size of one object, each object
  has one, and tables and images are below what startup writes.

  *Startup.* `WalkInv` is the state of the walk through a table with its counts in X and Y: at entry `k`, `d` bytes of the
  record are done (`Stands`), everything of the records before is done (`Done`) and stays so, because objects that need
  initializing share with no other (`Alone`), and the clearing of a smaller startup is done before. It gives
  `InitializedAtMainHolds`; `CallInv`, with `CalledTo`, gives `CalledOnceInOrderHolds`.

  *Running.* `LiveInv`: what an object was given is there as long as the phase is in its mask, and the members
  of its group, whose masks are disjoint from it, are not written then; hence `LiveIntactHolds`.

  All but `ProbesForFirstHolds` are about ordinary regions. In a pool of banks the search may wrap around the
  address space (section 5), and there the claims are false.
* **BankCallProofs.** The stack has a shape (`StackShape`: a descriptor lies between the caller's return address and the
  return to the trampoline, a return to an entry on that of its caller) and what is on top tells how far
  a switch is (`PcShape`). That alone makes calls calls: `CallsAsFarCallsHolds`, step by step, with FarCall's stack
  the entries that return into bodies. For the mapper, `MappingInv`: each descriptor on the stack, and each return to an
  entry, names the mapping that all the code between it and the one below it runs in (`Shows`), and what the mapper
  shows, or will show at the end of the switch in progress (`Encodes`, `HalfDone`, `Arrives`: a count down on F0, two
  latches on FC, one of two windows on E0, a switch not yet in force on WD), suits the code above the topmost. On FE there are no
  descriptors, and `StackBusInv` says that, since only main calls into the other bank, all the
  calls above it lie in the bank that answers. From both `FetchesIntendedCodeHolds`, for programs whose crossing calls are bundled or bridged.
* **ArchiverProofs.** `ArchiverInv` is the types; `FilesApart`: the file the writer writes is nobody else's, neither
  the archive's nor a reader's, although the name and what an earlier update left under it are
  used again; `StatusOK`; and `Progress`: at every step the new file is `Composed` of the members looked at and
  the inputs added so far, as long as nothing failed. From it the refinement: `Start` is Library's
  Ask, `Rename` its Update, `Exit` its Answer, `Crash` its Kill, and every other step stutters.

The type invariants (`LayoutTypeOK`, `RunTypeOK`, `StackTypeOK`, `LeaseTypeOK`, `AsmTypeOK`, `SelectionTypeOK`,
`RegionTypeOK`, `PlacementTypeOK`, `BankCallTypeOK`, Archiver's `TypeOK`) are theorems and therefore in no run.
`PROJECT.json` lists the results under "theorems".

**Only model-checked:** all liveness (`LayoutTerminates`, `TrampolineEnds`, `BuildEnds`, `PlacementEnds`,
`AsmEnds`, `LinkEnds`, `ReachesMain`), which is beyond the provers used here. Every safety and action property of the passing
runs, and every refinement of an abstract specification, is a theorem.

## 5. Where code and documentation differ

Three runs end in a counterexample by design. Each checks what a comment or
document says against the model of the code:

1. `stack_claims`: "two hardware-stack bytes per active JSR return address" (`compiler/ABI.txt:200`) are
   reserved. Three programs show three causes. The function that initializes globals is emitted with no current
   function, so `record_call_graph_edge` drops its calls. JSRs to runtime helpers are not recorded.
   The descriptor bytes are computed from the difference of two maxima that may
   belong to different paths: main → a → b in one bank and main → c in another
   reserve 4 bytes and use 5. (A configuration may declare `callstack_extra` for hidden
   stack use; it is 0 unless it does.)
2. `bank_bridges`: on F0, FC, E0, 3F and 3E every bank's hotspot is 0, so an entry
   made for a plain JSR across banks reads `$0000` and stays in its bank. Only
   functions whose banks the source names get bundled calls.
3. `asm_claims`: an equate of the distance of two labels is a byte in one pass; the operand becomes
   zero-page; the distance grows over 255 when an alignment is settled. The writer of object
   files stores the low byte of it without a check; flat output is refused.

Met while reading and modelling, without a run of their own:

* **Selection.** A need met weakly by a selected object is not looked for elsewhere, although `linker/README.md`
  says strong definitions are preferred globally: a strong `__nmi` in an object that nothing else
  needs is left out. A strong `__reset` shim is lost when the reselection begins with a smaller
  startup, whose weak `__reset` meets the need.
* **Assembler.** A `.same` or `.cross` branch in an inactive `.if` block fails the
  assembly (`asm_pass.c:1997-2020`, `assembler/README.md:548`). With an alignment below a page and `.cross` the
  crossing is measured at the residue alone, and refused with "no final-link base phase
  satisfies" though a base of the linker would. A conditional branch into another
  segment is relaxed by the accident of the two addresses. In flat output a branch is shortened on addresses
  that later move apart because an `.align` absorbs a shrink (this is what `OnlyPaddingBreaksBranches` allows).
* **Placement.** The dry run simulates copy, zero and init tables in that order (`vcsc_ld.c:8320-8340`)
  and `layout_objects` allocates copy, init, zero (10187-10208), so that an accepted placement may overflow
  with the full startup, against `linker/README.md` 609-615. README 579-584 says direct JMPs are soft; the code makes them
  hard (8590, 8666-8683). The dry run's allocator lacks the check of the real one that `.same` and `.cross` branches stay in
  their layout (6234; 6118-6207 has none, and 5698 passes such a branch over), so that a placement is accepted that `layout_objects` then
  refuses, with "targets outside movable layout", in whatever bank the layout is put: the end `scope` of BankPlacement. A contradictory
  constraint makes the dry run loop as it does the allocator (6098-6105); no link of the model has one. An automatic item's absolute reference into a bank is judged by the bank of the
  configuration (8700), where it need not end up.
* **Allocator.** A full swapram pool and an aligned object whose size is no multiple of its alignment make
  the search wrap at 32 bits and overlap (6028-6054). Page preference, documented as soft, becomes an
  error of the link (6022; `linker/README.md:991-993`). Code with an alignment above 256 is refused where it would
  fit, because one page is swept (6289). Code that ends at `$10000` outside of ROM resets the mark to 0 (6315).
  Contradictory constraints keep the probing loop going forever (6027; `compiler/README.md:880-881`).
* **Startup.** The simple startup takes the run region of the segment rule before the suffix of the segment
  (9453-9490), `layout_objects` the suffix first (10050): XRAM without a rule of its own is never cleared.
* **Driver.** `file_contains_literal` restarts a broken match in a way that misses `$` before the marker
  (`vcsc.c:1356-1382`). A compilation that fails for a candidate ends the build though it links without;
  only a failing *link* rejects a candidate. Libraries of `-l` are not scanned for a cartridge, and a
  marker in a member that is not selected still suppresses the default one.
* **Archiver.** `extract_archive` does not look at `fclose` (`vcsc_ar.c:744`): on a full disk a member is cut
  short and the command succeeds (the model has it as `Partial`). Two updates of one archive at once share the name of
  their new file. `rename` over an existing file fails on Windows.

## 6. What is not modelled, and the plan

Left out of the modules above: the carry of the adjusted return address into its high byte
(`F8/bankcall.s26:48`); `callstack_extra`; declarations that contradict uses
(`vcsc_ld.c:5117`); explicit inline expansions, which own no activation; parameters
specialized away; activations in swapram, which are not overlaid; several segments in one source
file, `.org` and `.rorg`; two updates of one archive at the same time, and power loss. An
initializer function has no activation of its own; its callees start at
0 of the overlay, like those of a root with an empty activation.

The front end, expression lowering and the inliner's analysis are functions of one input, without steps that meet others;
a model would be a second compiler. The CPU is vendored. Disassembler, tagger and packaging report on
files. The VCS components are kernels whose correctness is a count of cycles. The reasons are in
`PROJECT.json` with each.

Worth doing next: 16-bit program counters in BankCall; several segments in one source file, whose labels move independently.

## 7. Running

```
tlc -config MCActivationRun.cfg MCActivationRun.tla
tlc -config MCArchiver.cfg MCArchiver.tla
tlapm ActivationProofs.tla
```
