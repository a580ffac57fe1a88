# Verification of the PREVAIL eBPF verifier in linux-dev-env

This directory holds TLA+ models of the part of the repository that carries its
logic: PREVAIL, the eBPF verifier in `verifiers/prevail/src/` (paths below are
relative to it unless they begin with another directory). The rest of the
repository builds and boots a kernel in a container (`Makefile`, `Dockerfile`,
`q-script/`) and holds small BPF programs (`bpf-progs/`); it has no logic of its
own and is not modelled.

PREVAIL takes an eBPF program out of an ELF file, turns it into a control-flow
graph, runs an abstract interpretation over the graph and accepts the program
when no assertion can fail. A mistake in any of these steps accepts a program
that is not safe, or refuses or never finishes one that is. The program is
sequential; what makes it hard is the order in which graph nodes, loops and
abstract states are worked through, recursion replaced by explicit stacks, and
thread-local state that outlives the file or the analysis it was made for.

## Inventory

| Component | State | Operations | Modelled in | What makes it correct |
|---|---|---|---|---|
| ELF loading, subprograms (`asm_files.cpp`) | raw programs, queued calls, recursion of `append_subprograms` | read a program, relocate, append callees, narrow to a section | Loader | every call leads to the function its symbol names |
| Map descriptors (`asm_files.cpp`, `linux/linux_platform.cpp`, `crab/ebpf_domain.cpp`) | descriptors of a program, the thread's cache of numbers | parse both map formats, resolve inner maps, find_map_descriptor, get_map_* | MapDescriptors | numbers without gaps; queries cover every map a number stands for |
| Unmarshal, marshal (`asm_unmarshal.cpp`, `asm_marshal.cpp`) | the instructions made so far | one instruction at a time; the text back from the sequence | Unmarshaller, Marshaller | exactly the instruction set is accepted; merging slots keeps executions; round trip |
| CFG construction (`asm_cfg.cpp`, `crab/cfg.hpp`, `crab/label.hpp`) | `cfg_t`: neighbours (parents and children), instructions; the recursion of `add_cfg_nodes` | insert, insert_jump, add_child, remove_child, instruction_seq_to_cfg, add_cfg_nodes | CfgBuilder | the graph has exactly the program's transfers of control with its calls inlined; only ill-formed programs are refused; expansion ends |
| Weak topological ordering (`crab/wto.*`) | depth-first numbers, two stacks, nested partitions, containing cycles, cache of nestings | push_successors, start_visit, continue_visit, head, nesting | Wto | each vertex once; every back edge leads to the head of a cycle around it; cycles are loops |
| Loop counters (`prepare_cfg`) | the graph | insert_after at each loop head | LoopCounters | paths are kept; no outer loop without a counter |
| Forward analysis (`crab/fwd_analyzer.*`) | pre and post invariant per label, `_skip`, the recursion over cycles | visit a label, visit a cycle, extrapolate, refine | FwdAnalyzer | the invariants cover all executions; it ends |
| Verdict (`crab_verifier.*`) | invariants | verified, check_assertions, max_loop_count | FwdAnalyzer | accepted programs fail no assertion |
| Abstract state (`crab/ebpf_domain.*`) | numbers + stack; static `constant_limits` | join, meet, widen, narrow, setup_entry | PointerAnalysis, FwdAnalyzer | lattice operations are sound |
| Assertions, checker, transformer (`assertions.cpp`, `crab/ebpf_checker.cpp`, `crab/ebpf_transformer.cpp`) | abstract state | one handler per instruction or assertion | NumericOps, NumericTransformer, PointerAnalysis | accepted instructions are safe, states cover executions |
| Type domain (`crab/type_domain.*`) | none | joins by type, has_type | PointerAnalysis | a join forgets nothing a register may be |
| Stack cells (`crab/array_domain.*`, `bitset_domain.*`) | the thread's offset map, numeric bytes | load, store, havoc, split, kill | StackCells, StackMemory | what is loaded covers what was stored |
| Zone domain (`crab/split_dbm.*`, `crab_utils/graph_ops.hpp`, `adapt_sgraph.hpp`, `heap.hpp`) | weighted graph, potentials, unstable vertices, thread's scratch arrays | add constraint, assign, close, join, widen, meet, narrow, entail | SplitDbm, ZoneDomain | no point is lost; the split normal form is kept |
| Intervals, numbers, linear constraints (`crab/interval.*`, `crab_utils/num_*.hpp`, `crab/linear_*.hpp`) | none | arithmetic | Intervals | results cover the concrete operation |
| Variables (`crab/var_factory.cpp`) | the thread's names and ids | make, clear | (which there are: PointerAnalysis, StackCells) | an id means one variable |
| Thresholds, platform tables, text assembler, printing, command line, tests | | | | |

How they interact: the loader fills a `program_info` (descriptors) and raw
instructions; `unmarshal` copies that info to the thread and yields an
`InstructionSeq`; `prepare_cfg` builds the graph, asks the ordering for loop
heads, splices counters and attaches assertions; `analyze` clears part of the
thread's state, builds the ordering again and runs the iterator, which calls the
transformer per label; `verified` calls the checker per label. At this commit
`bpf_check` in `main/check.cpp` returns 0 at its second statement, so this chain
is reached through the library and the tests.

`PROJECT.json` lists all components with their status and, under `hazards`,
the places where this code can go wrong in ways a test hardly reaches.

## Modules

The modules follow the program from file to verdict. MC modules only give
families of programs, files, graphs, constraints or paths.

**MapDescriptors** models the reading of maps in both formats by one thread and
file after file, the cache of `create_map_crab`, and the queries the domain makes
over a range of numbers.

**Loader** models the rest of `read_elf`: `programs` are the raw programs in hand,
`function_relocations` the queued calls, `frames` the recursion of
`append_subprograms`. Each slot keeps where it came from (`origin`), which the
program does not; the properties use it. **Unmarshaller** takes one of the loaded
programs and makes its instructions one per step (`pc`, `seq`); every check of
`asm_unmarshal.cpp` is a conjunct of what it accepts, in `Templates` and the
operators of the opcode groups. **Marshaller** turns the sequence into slots
again. **LoadingProperties** states the properties of the three against an
independent machine for slots and an independent table of the instruction set.

**CfgBuilder** models `instruction_seq_to_cfg` and `add_cfg_nodes`. `neighbours`
and `instructions` are the two maps of `cfg_t`; `pass` and `next` say which loop
of `instruction_seq_to_cfg` runs and how far; `frames` is the C++ recursion of
`add_cfg_nodes` (caller, entry, work list, `seen_labels`, return label). An
action is one iteration of the loop it belongs to. Labels are records of prefix,
from and to, ordered as `label_t` is, for the work list is an ordered set. An
instruction is an opcode class and a target: what the builder tells apart.
Each throw is an outcome in `error`. Where a function calls itself, `insert`
appends a range of the instructions to itself, which the standard leaves undefined;
the model takes the outcome of the implementation in use, one copy. **CfgProperties** states what the graph has
to be against an independent definition of the program's successors.

**Wto** models `wto_builder_t`: one action per task popped from `_visit_stack`.
A cycle is known by its head and the partitions are sequences, kept in reverse
as in the code. **WtoProperties** adds `head`, `nesting`, the nesting comparison,
`is_component_member` and the properties. **LoopCounters** composes Wto with
`for_each_loop_head` and `insert_after`.

**FwdAnalyzer** composes Wto with `interleaved_fwd_fixpoint_iterator_t` and
`Invariants::verified`. The recursion over nested cycles is the stack `frames`
with the phase, the iteration and the local `invariant` of each visit. The
abstract domain, the transfer functions, the checker and the concrete semantics
are constants, tied together by `DomainAssumption`, `NarrowAssumption` and
`TransferAssumption`: operations over-approximate. The modules below show how far
the repository's own domain and transfer functions do. `MCFwdAnalyzer` gives them a
domain of intervals of one counter, in which widening drops unstable bounds and
narrowing returns its left argument except on top, as `SplitDBM` does. TLC
evaluates the assumptions on that domain, so it satisfies what it is used for.

**Intervals** has the arithmetic of `num_extended.hpp` and `interval.*`,
**SplitDbm** the zone domain over it: a graph is a function from pairs of vertices
to weights, a zone is such a graph with a bottom mark and the vertices widening
left unstable. Each operation of `split_dbm.cpp` is an operator from zones to
zones. **ZoneDomain** is the machine that applies them: two zones, each beside the
set of points that the same operations give in the program.

**NumericOps** has what `ebpf_transformer.cpp` does with numbers: the constraints
a condition adds (`assume_cst_imm`, `assume_cst_reg` and the functions they call),
overflow, shifts, sign extension. **NumericTransformer** is the machine: an
abstract state, beside it the registers of every execution, computed by the
instruction set (`Compute`, `Execute`).

**PointerAnalysis** adds types and pointers: `type_domain.cpp`, the assertions of
`assertions.cpp` (`Needs`), their checks (`check_access_*`, `Accepted`) and the
transformer's handlers. An action analyses one instruction of a path: it is
checked, and if accepted transformed; `Park` and `MergePaths` leave a path at a
join and come back with another. Beside the state run executions with concrete
registers, packet and frames; `faults` records what goes wrong in one of them.

**StackCells** models `array_domain.cpp` and `bitset_domain.hpp` as the
transformer drives them: `cells` is the offset map of the thread, `scalar` and
`nonNum` belong to each abstract state. **StackMemory** is its abstract
specification: an array of bytes, and answers that never contradict them.
`LoadsAgree` says that StackCells implements it, with the stack and the last answer
of a watched path for `memory` and `answer`.

CfgBuilderProofs, WtoProofs, LoopCountersProofs, FwdAnalyzerProofs, MapDescriptorsProofs,
IntervalsProofs, ZoneProofs and FiniteInduction hold theorems and their proofs; see Proofs.

## Runs

| Run | Checks | Result |
|---|---|---|
| cfg | TypeOK, AdjacencyMirror, FramesBounded, CfgMatchesProgram, FramePrefixesMatch, RefusalsJustified, EdgesStay, Terminates on all programs of up to 3 instructions without calls (jumps anywhere and past the end, undefined instructions), all of 5 instructions whose jumps and calls go forward, mains that call one function in a loop, and recursive ones, with `must_have_exit` on and off | hold |
| loops | TypeOK, StackDiscipline, EachPlacedOnce, WeakTopologicalOrder, CyclesAreLoops, NestingAgrees, EdgesPreserved, OuterLoopsCounted, Terminates on all graphs of 4 vertices with at most two successors, first ordered and then given counters | hold |
| fwd_analyzer | PostFollowsPre, Sound, VerifiedIsSafe on 22 graphs, all code over 4 instructions | hold |
| fwd_ends | AnalysisEnds on four graphs of nested, consecutive, doubly entered and self loops | holds |
| map_descriptors | FreshFdsSequential, SizesCovered, LookupKindKnown for two files of up to three maps | hold |
| loading | CallsLinked, ExecutionKept, AcceptsIsa, RoundTrip on files of three functions that call each other in four orders, every text of up to four slots over eleven slots, and single slots with every opcode | hold |
| zones | PointsCovered, SubsumptionSound, QuestionsSound, NormalForm: two zones over three variables, three operations to build them, two to combine them | hold |
| numbers | ValuesCovered: two registers, every condition and arithmetic instruction after up to two that narrow the registers | holds where the analysis is right, see Findings |
| stack_cells | CellsHoldTheirBytes, NumericBytes, and LoadsAgree (the refinement of StackMemory): five stores, loads, helper writes and joins on a stack of 12 bytes | hold |
| cells_helper | CellsHoldTheirBytes when a helper's buffer is exactly one cell | violated, finding 1 |
| pointers | TypeOK, Covered, AcceptedIsSafe, NoInternalError: 13 beginnings of paths, joins of each with one of five, then two of 51 instructions | hold outside the steps of finding 3 |
| pointers_mixed | AcceptedIsSafe when a register of two pointer types moves | violated, finding 2 |

### Bounds

*Programs.* Three instructions are enough for every pair of a jump and its
target, both ways, and for falling off the end; five forward ones for a call in a
call with code after each; the recursive ones for direct and mutual recursion.
`MaxCallStackFrames` is 3 in the runs (8 in the code) so that the limit is met
by a chain of three calls; the proofs hold for every value from 2 up.
*Graphs.* Four vertices besides the entry give loops nested three deep,
irreducible loops and sibling loops. An instruction has at most two successors.
*Analysis.* Values 0..15 leave room below the widened bound for the constant
limits (0..14) to cut an invariant, which makes the increasing sequence not
monotone. `MaxDescending` is 3 instead of 2,000,000: the sequence is left by its
bound as well as by stability. An increasing iteration number beyond the widening
delay is not told apart (`MaxIteration`), since `extrapolate` does not.
*Maps.* Two files let numbers of the first leak into the second; three maps let
two share a number and a third follow them. `MaxRange` is 2 instead of 32, which
lets ranges be both shorter and longer than it.
*Loading.* Three functions give a call in a call, a function called from two
places and in every order of reading. Four slots hold a merged pair with a slot
before and behind it and a jump over or into it. A slot's fields take the values
the checks tell apart.
*Zones.* Three variables and the vertex 0 are what closure needs: a path of two
edges between variables beside one over bounds. Values -1..1, constants -1..1.
*Numbers.* Registers have 4 bits (`W64`) and their lower half 2 (`W32`), so that
signs, overflow and truncation are all within reach of every interval of 16 values.
*Pointers.* Registers of 6 bits hold addresses of all regions; the packet is empty, or has 2
bytes and a byte of meta data before them (3 stands for the 4098 of `initialize_packet`), a
frame has 2 bytes, the stack 6, map values 1 to 3. The five maps are two arrays with
values of different sizes, a hash, a map of maps and the map in it, so that a range of two
numbers can have one type, two types, or a map of maps in it. Widths are 1, 2 and
`WordBytes` = 3. Of registers 0, 1, 2, 6 and 10 there is one of every role. `Prologues` begin a
path; the second path of a join begins as one of `Meeting` does: with the entry state, a byte
of the packet, a value of map 1 that may be null, map 1 in r1, or the context in r2. An
instruction after the join is then checked; a path that meets no other has two.
*Stack.* Twelve bytes hold three words of 4 and let one of 8 overlap two of them and
leave the third beside it. A number is its eight bytes.

Deadlock is checked in the runs cfg, loops, fwd_analyzer, fwd_ends,
map_descriptors and loading, which model procedures: ended means stuttering
explicitly. In the others a path or a sequence of operations may stop anywhere, and
stops at its bound (`MaxSteps`, `MaxBody`, `MaxBuild`, `MaxCombine`) or at an
instruction that is refused.

### Fairness

The program is one thread that always takes its next step, so weak fairness of
the whole step relation is what running it means: `FairSpec` of CfgBuilder,
`InstrFairSpec` of LoopCounters, `AnFairSpec` of FwdAnalyzer. No action has fairness of its own.

## Findings

With a run:

1. `crab/array_domain.cpp:363`: `get_overlap_cells` leaves out the cell that equals
   the range it is asked for, and `havoc` forgets only what it answers. A helper
   that overwrites a buffer which is exactly one cell leaves the cell its old value.
2. `crab/ebpf_transformer.cpp:1881`: adding a number to a register of several
   pointer types moves its value and none of its offsets. A store that leaves every
   region is accepted afterwards.

The models exclude steps that go wrong in the code for reasons of their own, so
that the properties say something of all others. Each is named where it is excluded:

3. Pointers (`UnsoundSteps`). TLC finds a violation for each when `Allowed` has it and a path
   reaches it; such a path is given. Unless said otherwise r2
   points to the packet, of which one byte is known to be there, and r0 to its end (`OneByte`).
   *mixed*: finding 2, and subtraction at `ebpf_transformer.cpp:2252`.
   *null*: a number is added to a shared pointer that may be null, which then passes a null
   check. `Find(1)`, r0 += 1, a store through r0.
   *narrow*: a 32-bit sum with a register keeps the pointer (the assertions at
   `assertions.cpp:256-274` do not ask for 64 bits). w2 -= w0, w2 += w0 (Covered).
   *instance* (`:1178-1180`): NE of two map numbers is taken for a difference of offsets.
   `Find(4)`, r1 = map 5, r0 != r1 where r0 is null (Covered).
   *exchange* (`:1655`): CMPXCHG havocs the values and offsets of r0 and leaves its type, so that a
   register that held a pointer and now holds a number is still taken for a pointer (comment at
   `:1653`: "Shared memory regions are volatile so we can just havoc any register that will be
   updated."). r1 = 0, CMPXCHG of r1 through r2 (Covered; an access through r0 is
   refused later, for its offset is unknown).
   *partial* (`:1400-1424`): a load from the context of another width than a pointer's leaves the
   register its old type. r0 = three bytes of the context from `data` on.
   *stale* (`:1761-1778`): a look-up in a map that is one of two types leaves r0 an old region size.
   `Find(1)`, the packet in r2 again and r1 = map 1, joined with r1 = map 3, look-up (Covered).
   *outer* (same lines): a look-up in a map that may be a map of maps is taken for one of
   values. r1 = map 4 joined with r1 = map 1, look-up (Covered).
   *nomap*: a map of maps yields null, which is passed on as a map. `Find(4)`, the
   packet in r2 again and r1 = r0, look-up.
   *key* (`ebpf_checker.cpp:277`): a map key in the packet is checked against the largest packet
   only. r2 at an empty packet, r1 = map 1, look-up.
4. Numbers (`Refuted` in MCNumericTransformer; these are taken where operands are `Held`:
   known numbers, for conditions registers that hold no more than 32 bits, for MOVSX
   intervals that do not cross the sign). Conditions on 32 bits: signed ones use intervals of 64 bits
   (comment near `ebpf_transformer.cpp:408`), NE, GT and GE with a negative immediate or a
   register compare 64 bits of the left side (`:664`, whose comment says "Interval can be
   represented as both an svalue and a uvalue since it fits in [INT_MAX+1, UINT_MAX]."), so
   that `w1 > -2` loses executions. AND with a register takes a smaller upper bound
   (`interval.cpp:274`). Unsigned remainder by an interval (comment at
   `interval.cpp:236-238`), signed division through `make_dividend_when_both_nonzero`.
   Products and quotients of 32 bits by a register: `get_interval` truncates the two bounds
   apart. MOVSX of an interval that crosses the sign (`:1981-2015`), and a 32-bit MOVSX of
   a register to itself, which returns early.
   Division by a register of unknown value ends in CRAB_ERROR; subtracting
   INT32_MIN throws in `gsl::narrow`; an empty interval reaches an assertion at
   `split_dbm.cpp:965`.
5. Stack cells: a store of 1, 2 or 4 bytes keeps the scalar of all 8 (`NarrowFits` is TRUE
   in the run: stored numbers fit); the offset map is shared by all paths, so a cell made
   and written on one is taken on another for one whose value is current (the run follows
   one path: "cells shared"); a helper's buffer that is partly outside the range asked for
   (comments at `array_domain.cpp:326` and `:170`); a pointer stored at an unknown index leaves
   the bytes marked as numbers.
6. CFG. `asm_cfg.cpp:172`: a clone gets edges only from predecessors cloned before it, so
   a backward jump in a local function has no successor when inlined (comments at `:143`,
   `:171`); in the run, jumps in functions go forward. `asm_cfg.cpp:192`: a nested call whose
   successors were all seen is not recorded in `seen_labels` and stays unexpanded (comment at
   `:201`); calling the main program again through a nested call ends in "already exists".
   `asm_cfg.cpp:280`: the second pass also expands calls in bodies that are reached only
   through clones; these clones do no harm unless they meet a label that exists.
7. Loops. `crab/wto.hpp:140`: `for_each_loop_head` visits top-level cycles only; inner loops
   get no counter, although `wto.hpp:133` and `asm_cfg.cpp:295` speak of loop heads without
   exception.
8. Maps. `crab/ebpf_domain.cpp:215`: the inner maps of a range are compared with type
   numbers (comment at `:200`). `asm_files.cpp:40`: maps of maps with different inner maps share
   a number. `asm_files.cpp:43`: map numbers continue from a file read before (comment at `:349`).
   An array with no entries would get the number of a map that is no array, since the
   key is the same; the kernel refuses to make one (`DefsAssumption` excludes it).
9. Loading. `asm_files.cpp:227`: a program is marked as linked before it is, so that after a
   missing callee another caller copies it half linked. `:235`: relocations are matched to
   a program by function name, so equal names in two sections patch the wrong one.
   A recursive function is copied before its calls are patched. A jump into the second slot
   of a merged pair has no label and is refused later, by CfgBuilder. `unmarshal`
   accepts a 32-bit MOVSX32, LDDW to r10 and a callx whose register is in `imm`
   (`Extensions`); a helper with an unsupported prototype throws a runtime_error past it.
   `marshal` (tests only) loses the width of conditions, does not relabel local calls, gives
   0 for near targets of long jumps (`label.hpp:85-91`) and for conditional jumps
   farther than 16 bits, and throws on negative 64-bit immediates.
10. Types, without effect in the model's paths: `type_domain.cpp:183` keeps the first of two
    variables when a register may be a map and a map of programs; a store through a register
    of two types computes the sizes of numbers on the stack in the state before the join
    (`ebpf_transformer.cpp:1562-1582`), so that the result is lost.
11. Comments about zones: "if the relation exists, it's at least as strong as the bounds"
    (`split_dbm.cpp`, join) does not hold, which costs precision only; "Conjecture: join_g
    remains closed" (`:593`) held in every state of the run. `graph_ops.hpp:909` gets the set of
    unstable vertices where stable ones are meant, which costs precision only.

## Proofs

**CfgBuilderProofs** proves, for every set of programs shorter than INT_MAX,
both values of `must_have_exit` and every `MAX_CALL_STACK_FRAMES` of at least 2:

- `TypeCorrect`: Spec => []TypeOK;
- `GraphMirrored`: Spec => []AdjacencyMirror, the two neighbour maps agree
  through every insertion, cloning and removal, and the assertions of `add_child`
  never fail;
- `CallDepthBounded`: Spec => []FramesBounded, so recursion in the program
  cannot make `add_cfg_nodes` nest past the limit;
- `EdgesOnlyReplacedAtCalls`: Spec => EdgesStay.

None of these is inductive. The invariant `Inv` adds: `GraphOK` (entry and
exit are in the graph, whose nodes are typed and mirrored); the exit carries no
call; `FrameOK`, which relates each activation of `add_cfg_nodes` to the graph (the
caller of the i-th is a call nested i - 1 deep, its return label exists, what it has
seen is waiting to be cloned or cloned, what it will recurse into are calls it
cloned);
`PassInv`, which says that no frame is active before the second pass and that
jump labels come from instructions already connected, so that `insert_jump` never
meets a label of its own; `PlainInv`, which gives every defined instruction its
node. The proof has one lemma per action (`InsertStep` to `ReturnFromMacroStep`)
over lemmas about the graph operators (`InsertKeepsGraph`,
`AddChildrenKeepsGraph`, `RemoveChildKeepsGraph`), and `Invariance` puts them
together. It rests on the two named assumptions of CfgBuilder only.

Of the graph that is built it proves, under one more hypothesis:

- `CfgExact`: Spec => []CfgMatchesProgram, at any depth of inlining;
- `FramesExact`: Spec => []FramePrefixesMatch;
- `RefusalsRight`: Spec => []RefusalsJustified.

The hypothesis is that `FunctionsForward` holds of each program: a call leads to a later
instruction of the program, and from the first instruction of a callee on, jumps go forward to an instruction. What is
before the first callee may loop. Of programs whose functions loop the first two are
false as a rule (item 6 of Findings), since the walk takes labels in
order and a clone is only linked to predecessors cloned before it. Recursive programs
are outside of the hypothesis too; the run checks that they are refused, and rightly.

The invariant is `MatchInv`. In the first pass (`FirstPassInv`) the instructions connected
so far have the edges of the program and the others none. In the second (`SecondPassInv`):

- `LabelsRight`: each label carries its instruction, a clone has the call it is for, which is expanded;
- `EdgesRight`: each label has the edges of the program as far as their ends are cloned by
  now, and an expanded call the one to the clone of its callee, with the edge past it only while
  the callee is being walked; `Closed`: an end not cloned is waiting in the walk;
- `CallsWait`: a call not expanded is still to come, in the loop over the instructions, in
  the walk or in `todo` of a frame;
- `FramesNested`, `TodoFresh`: each frame is for a call in the one below it, and what waits
  to be expanded has no clones;
- `WalkOK`: the walk goes from the callee on in the order of the labels.

`StepOverMoves` is the key to the clones: a clone leads where its label leads, moved
to its frame, an exit to what follows the call. `WalkParents` says that only labels outside of
all frames lead to the label in hand, so the predecessors that add_cfg_nodes finds and renames
are all there are. There is one lemma per action (`InsertMatches` to
`CloneMacroLabelMatches`), and `ReachInside` takes the facts from all labels to those that can be reached.
RefusalsRight adds `Chained`: what a frame walks over, and the call of the next frame, is in the
body of its callee, so the frames at the limit are a chain of calls (`ChainIsChained`).

**MapDescriptorsProofs** proves, for all maps and any number of files read by
one thread:

- `NumbersSequential`: Spec => []FreshFdsSequential, a file of the newer format, or one
  read with an empty cache, has the numbers 1 up to their count, and no query throws;
- `SharedNumbersHarmless`: Spec => []SizesCovered, each size asked for over a range
  covers every map that a number of the range may stand for;
- `KindsKnown`: Spec => []LookupKindKnown.

The properties speak of a file that is read, so they say nothing of the steps
before. The inductive invariant `Inv` adds: `Numbers`, the cache numbers its keys
1, 2, ... without repetition; `FieldsKept` and `NumbersMeanKeys`, each descriptor is that of its
definition and maps with the same number have the same key; `MapsParsing` and
`BtfParsing`, where the numbers come from while a file is parsed (the cache, or type
ids, which `PseudoFd` ranks); `NoGap`, which they give when parsing is over. One
lemma per action (`MapStep` to `ReadStep`). The assumptions are those of
MapDescriptors: a map has at least one entry, a type id stands for one
definition, the table of map types is a table. **FiniteInduction** holds what
several proofs need of finite sets: every non-empty set of naturals has a least
member, a property of the subsets of a finite set that passes from each set less
one member holds of all of them, and a recursion over numbers or over the subsets of a finite set has a
solution, so that the recursive functions of the models (sums, joins, closures)
are defined. It is the induction the provers can do: over one given finite set, not over an operator.

**WtoProofs** proves Bourdoncle's algorithm as `wto_builder_t` runs it, on two stacks instead of
by recursion, for every graph, reducible or not:

- `BuilderTyped`: Spec => []TypeOK;
- `StackInOrder`: Spec => []StackDiscipline;
- `PlacedOnce`: Spec => []EachPlacedOnce;
- `WeaklyOrdered`: Spec => []WeakTopologicalOrder;
- `LoopsExact`: Spec => []CyclesAreLoops;
- `NestingExact`: Spec => []NestingAgrees.

The last five have the hypothesis `LabelsFit`, n(n + 1) < `DFN_INF` for n labels, that is at most
46340 of them: a vertex gets a new number each time it is met, and with more labels `_num`, an
`int` that the code does not check, could reach `DFN_INF` (2147483647), the mark of a vertex that is done. TypeOK is
not inductive: `TypeInv` adds that each task of `_visit_stack` is put into a partition that
exists and that a ContinueVisit names a cycle already made. For the others the invariant is
`OrderInv(G)`, where G[c], which the builder does not store, is what the head c found above itself on
`_stack`:

- `Numbered`: `_stack` is sorted by `dfn` and holds what is numbered and not done;
- `TasksNested`: each task of `_visit_stack` is for a successor of the vertex of the nearest begun
  task below it, and for the innermost cycle being visited;
- `MembersLead`, `VisitedFrom`: a vertex that stays on `_stack` after its visit leads to an
  earlier one, and above a vertex being visited are only vertices visited from it. So when
  a vertex is its own head, all above it is on a loop with it, and if it has no loop it is on top;
- `ScopesOK`: while a cycle is visited, edges from it end in it or in what is done, and all of it can
  be reached from its head, so all of it is placed when ContinueVisit comes (`CycleComplete`);
- `ChildrenComing`: a successor has been met, or has a task, or waits in a cycle inside;
- `PlacedOK`, `PartsOK`, `Places`: where what is done stands, and which edges there are between
  components of one partition; `Reached`: nothing else is ever met.

`LoopsExact` adds `LoopInv(G)`: of the vertices that stay on `_stack` after their visit, each leads to
the vertex whose number is its `head_dfn`, through others with that `head_dfn` (`BackTo`); and
within a finished cycle each member is reached from the head, leads back to it, and some edge ends at the
head (`IsLoop`). At the end `LoopWhole` gives that what a cycle holds is on a loop, and `LoopInside`,
from `PartsOK`, that no loop leaves a component.

`NestingExact` adds `FiledRight`: for each vertex that stands somewhere, the cycle filed under
it, from which `nesting()` climbs through the parents, is the innermost that holds it, so the heads met on the way are
those of the cycles around the vertex, the innermost first.

One lemma per action (`PushVisitedOrder` to `ContinueVisitOrder`); the heart is `AboveHead`, that what a
head pops is its strongly connected component. `MembersWhole` says that the sets of members, a fixpoint
over the nesting, are the cycles of G. `NumBounded` bounds the numbers: at most one for each label and each
cycle it is in.

**LoopCountersProofs** proves of `prepare_cfg`, over the ordering that Wto builds, for every graph:

- `CountersPreserveEdges`: InstrSpec => []EdgesPreserved;
- `CountersOnLoops`: InstrSpec => []OuterLoopsCounted.

They have the hypothesis `LabelsFit` as well. The invariant `InstrInv` says that the graph is always
`CountedCfg(Counted)`, the graph given with a counter spliced in after each head of a cycle passed so
far: `insert_after` at the next head is that graph with one more (`CounterInserted`). When all are passed
(`CountedAll`), the one edge from the head of a top-level cycle is to its counter; that a
counter is on a loop is LoopsExact of the ordering (`CfgReachLeast` takes it to the graph).

**FwdAnalyzerProofs** proves, for every graph, code, abstract domain, widening, narrowing,
constant limits, bound on the decreasing iterations and concrete semantics:

- `AnalysisSound`: AnSpec => []Sound;
- `VerdictSafe`: AnSpec => []VerifiedIsSafe;
- `ResultsMatch`: AnSpec => []PostFollowsPre.

They have the hypothesis `LabelsFit` of the ordering, which is the only one: EachPlacedOnce and
WeakTopologicalOrder, on which they rest, come from WtoProofs. The assumptions are those of FwdAnalyzer. `DomainAssumption`: the operations stay in the
domain, join, meet and comparison mean what they say, and each state is below itself.
`TransferAssumption`: transfer, assumption and check are sound. `NarrowAssumption`: narrowing
covers the meet. `BottomAssumption`: both functions return at once on bottom
(`ebpf_transformer.cpp:136`, `ebpf_checker.cpp:94`). `ValuesAssumption`: the states of a
program, registers and a stack of fixed size, are finitely many; it is there because the
collecting semantics is a recursive function. Nothing is asked of widening.

The textbook argument (the iterations end in a post-fixpoint) does not do: after a
decreasing iteration the invariants need not be a post-fixpoint, since the code stops after
`_descending_iterations` or when nothing changes, and takes a meet or a narrowing of what it had
with what comes back. What is kept is that sets of states *within* the invariants are closed under
the instructions (`Closed`, `Certified`). `AnInv` says this of every visit under
way: the frames nest as the cycles do (`Stacked`); the components that the pass of a frame
is done with are certified, as far as nothing from outside of them changes
(`PassedOver`); a cycle in its decreasing iterations has closed sets below its head's
invariant (`Refinable`), which meet and narrowing cannot lose; the entry comes
first (`EntryFirst`), so that `_skip` skips nothing that is reachable. The lemmas follow the
code: what a store at one label leaves valid (`FrameKept`, `StoreKeepsFrames`: labels of
components passed over have no edge from it but through the head, which is where
WeakTopologicalOrder is used); what a pass over the components of a cycle establishes (`PassCertifies`);
that a post-fixpoint at the head certifies the cycle (`AscentCertifies`) and that a
decreasing iteration keeps it certified (`DescentCertifies`). One lemma per action puts
them together (`PassHeadKeeps` to `LeaveCycleKeeps`, `AnalysisKeeps`). In the end the
closed sets hold the collecting semantics, the least such (`CollectingLeast`, `CoversAll`).

**IntervalsProofs** proves of the operators, for all intervals whose lower end is
not plus infinity and whose upper end is not minus infinity: `HullCovers`, `MeetExact`,
`SumCovers`, `DiffCovers`, `ProductCovers` (the four products of the ends bound every
product, with zero times infinity as `num_extended.hpp` has it), `WrapCovers` and
`WrapSignedCovers` for truncation to any width. The last two take as hypotheses that 2^w is
a positive number and twice 2^(w-1), since the provers have no definition of powers.

**ZoneProofs** proves, for any finite set of variables and any integer values,
constraints, questions, expressions and intervals:

- `NoPointLost`: Spec => []PointsCovered, whatever the sequence of constraints,
  assignments, intervals, joins, widenings, meets and narrowings;
- `SubsumptionHolds`: Spec => []SubsumptionSound;
- `AnswersHold`: Spec => []QuestionsSound.

They rest on lemmas about the operators of SplitDbm, stated for all zones that are
`WellFormed` (a graph over vertices with 0, weights that are numbers or absent), among
them `LeqIsInclusion`, `QuestionsAreSound`, `AddConstraintKeeps`, `ForgetKeeps` and `SetKeeps`.

The argument is one idea throughout: a point fits a graph when its differences
are within the weights (`Fits`), a path's weight bounds the difference of its ends
(`PathFits`), so replacing a weight by that of a path keeps the point
(`UpdateEdgeFits`, `CloseOverEdgeFits`, `CloseAfterAssignFits`), and a graph that a point
fits has no negative cycle (`FeasibleFits`). An inequality that is not entailed is
refuted by adding its negation. The closure of join, meet and widening (`ShortestPaths`) and the value of
an expression are folds over the vertices; FiniteInduction carries the facts through them.
The inductive invariant, `ZoneInv`, adds to PointsCovered that both zones are well-formed also where no point is left
in them, since they are later joined with zones that have some.

Only model-checked: the following, each for a reason.

- Terminates and AnalysisEnds are liveness, out of the prover's reach.
- NormalForm of the zones: which edges a closed graph may leave out follows from the paths
  in it, and the shortest-path lemmas are about what the weights bound, not about what is stored.
- The properties of StackCells, NumericTransformer and PointerAnalysis compare a state
  with concrete memory and registers through operators on words of finite width, whose arithmetic
  (powers of two, bitwise operations, division) the provers do not define. For the same reason
  division, remainder and the bitwise operations of the intervals are checked over bounded inputs only.
- The properties of the loading (CallsLinked, ExecutionKept, AcceptsIsa, RoundTrip) compare a
  program with its execution, or with its text, computed by recursion over the data.
- CfgMatchesProgram, FramePrefixesMatch and RefusalsJustified of the recursive programs of the
  run, which are outside of FunctionsForward.
## Not modelled

Printing, parsing of text assembly, statistics, command line, ELF and BTF
decoding (vendored elfio and libbtf), helper prototype tables, the kernel's own
verifier and maps created by the kernel, other vendored libraries, the scripts
and the BPF examples.

Of modelled components: `collect_basic_blocks`, `cfg_from_adjacency_list` and the
statistics of `asm_cfg.cpp`; the reports of `crab_verifier.cpp`; the assertions
ValidDivisor, FuncConstraint, ValidCall and BoundedLoopCount and programs of a
privileged type; callx; atomic operations on the stack, which go through the pseudo register R11
(`ebpf_transformer.cpp:1664-1690`); pointers loaded back from the stack together with the stack (the
stack alone is in StackCells); notes and the argument lists copied from helper
prototypes; how `constant_limits` are computed from options at static initialisation
(`ebpf_domain.cpp:142`); conversions of numbers to and from text. `asm_files.cpp:112` takes the
record size of the last legacy section for all; decoding the sections is external.

Abstractions inside the modelled parts. Zones: potentials are left out, for they
exist exactly when no cycle is negative; vertices are named by their variables;
closure after an assignment is done in one step per vertex, which is exact for the
three variables of the run; the scratch arrays shared by the graphs of a thread
are local to an operation. Pointers: the inner map is asked for of one number, not of a range
(MapDescriptors has the ranges); contexts without packet end are left out;
sizes handed to helpers are known numbers; helpers with a packet argument are one kind of call;
`stack_numeric_size` is left out. Numbers: unbounded, as `cpp_int` is; the widths are
parameters. Stack cells: a scalar is known exactly or not at all.

## Plan

What is left, most useful first:

1. StackCells over zones instead of known scalars, together with PointerAnalysis, so
   that pointers saved on the stack come back typed; `stack_numeric_size` with it.
2. `set_assertions` and BoundedLoopCount composed with LoopCounters; ValidDivisor.
3. VarFactory and the clearing of thread-local state before an analysis.
4. `collect_basic_blocks`.

Proofs to come: RefusalsJustified of recursive programs; CellsHoldTheirBytes; the
division of intervals; NormalForm of zones.
