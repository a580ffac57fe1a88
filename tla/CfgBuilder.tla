----------------------------- MODULE CfgBuilder -----------------------------
(***************************************************************************)
(* Construction of the control-flow graph of an eBPF program, as done by   *)
(* instruction_seq_to_cfg and add_cfg_nodes (asm_cfg.cpp).                 *)
(*                                                                         *)
(* The first pass inserts one node per instruction and connects the nodes, *)
(* ignoring local calls.  The second pass replaces every CallLocal by a    *)
(* clone of the callee's nodes, with the caller as stack frame prefix, and *)
(* recurses into the calls inside the clone.  The C++ recursion is the     *)
(* stack `frames`; one action is one iteration of the loop it belongs to.  *)
(***************************************************************************)
EXTENDS Integers, Sequences, FiniteSets

CONSTANTS Programs,            \* the instruction sequences to be built
          MaxCallStackFrames   \* MAX_CALL_STACK_FRAMES

(* call is CallLocal, helper is Call, jcc and ja are Jmp with and without a *)
(* condition; alu stands for the instructions that only fall through.      *)
Ops == {"alu", "helper", "jcc", "ja", "call", "exit", "undef"}

(* An instruction: what the builder distinguishes of it.  target is the    *)
(* pc of the jump target or of the callee, 0 where there is none.          *)
Inst == [op : Ops, target : Nat]

INT_MAX == 2147483647

ASSUME ProgramsAssumption == \A p \in Programs : p \in Seq(Inst) /\ Len(p) < INT_MAX
ASSUME MaxCallStackFramesAssumption == MaxCallStackFrames \in Nat /\ MaxCallStackFrames >= 2

VARIABLES prog,            \* the InstructionSeq
          must_have_exit,  \* prepare_cfg_options::must_have_exit
          neighbours,      \* cfg_t::neighbours
          instructions,    \* cfg_t::instructions
          pass,            \* where instruction_seq_to_cfg is
          next,            \* the pc the current loop over insts has reached
          frames,          \* activations of add_cfg_nodes, innermost last
          error            \* what was thrown

vars == <<prog, must_have_exit, neighbours, instructions, pass, next, frames, error>>

-----------------------------------------------------------------------------
(* Labels.  A prefix is the sequence of the pcs of the calls in progress:  *)
(* to_string joins them with '/'.                                          *)

Prefix == Seq(Int)

Label == [stack_frame_prefix : Prefix, from : Int, to : Int]

MkLabel(prefix, from, to) == [stack_frame_prefix |-> prefix, from |-> from, to |-> to]

Plain(pc) == MkLabel(<<>>, pc, -1)

EntryLabel == Plain(-1)

ExitLabel == Plain(INT_MAX)

make_jump(src, target) == MkLabel(target.stack_frame_prefix, src.from, target.from)

(* to_string of the label of a call, as the prefix of the callee's frame.  *)
FramePrefix(caller) == Append(caller.stack_frame_prefix, caller.from)

Reprefix(l, prefix) == MkLabel(prefix, l.from, l.to)

(* The order of std::string on prefixes of one-digit components.           *)
PrefixLess(s, t) ==
    \E i \in 1..Len(t) :
        /\ \A j \in 1..(i - 1) : j <= Len(s) /\ s[j] = t[j]
        /\ i <= Len(s) => s[i] < t[i]

LabelLess(a, b) ==
    \/ PrefixLess(a.stack_frame_prefix, b.stack_frame_prefix)
    \/ /\ a.stack_frame_prefix = b.stack_frame_prefix
       /\ a.from < b.from \/ (a.from = b.from /\ a.to < b.to)

(* *S.begin() of a std::set of labels.                                     *)
IsFirst(l, S) == \A m \in S \ {l} : LabelLess(l, m)

-----------------------------------------------------------------------------
(* The graph.                                                              *)

EmptyNode == [parents |-> {}, children |-> {}]

insert(graph, new) ==
    [l \in DOMAIN graph \cup new |-> IF l \in DOMAIN graph THEN graph[l] ELSE EmptyNode]

(* Mutant of add_children: the parents are not recorded.                   *)
MutAddChildren(graph, E) ==
    [l \in DOMAIN graph |->
        [parents  |-> graph[l].parents,
         children |-> graph[l].children \cup {b \in DOMAIN graph : <<l, b>> \in E}]]

(* add_child of every pair of E.                                           *)
add_children(graph, E) ==
    [l \in DOMAIN graph |->
        [parents  |-> graph[l].parents \cup {a \in DOMAIN graph : <<a, l>> \in E},
         children |-> graph[l].children \cup {b \in DOMAIN graph : <<l, b>> \in E}]]

(* Mutant of remove_child: the edge from b to a.                           *)
MutRemoveChild(graph, a, b) ==
    [l \in DOMAIN graph |->
        [parents  |-> IF l = a THEN graph[l].parents \ {b} ELSE graph[l].parents,
         children |-> IF l = b THEN graph[l].children \ {a} ELSE graph[l].children]]

remove_child(graph, a, b) ==
    [l \in DOMAIN graph |->
        [parents  |-> IF l = b THEN graph[l].parents \ {a} ELSE graph[l].parents,
         children |-> IF l = a THEN graph[l].children \ {b} ELSE graph[l].children]]

(* Neighbours.at(a) and .at(b) of every add_child find their node.         *)
Connectable(graph, E) == \A e \in E : e[1] \in DOMAIN graph /\ e[2] \in DOMAIN graph

-----------------------------------------------------------------------------
(* Instructions stored in the graph.  sense is the polarity of an Assume;  *)
(* sfp the stack_frame_prefix of a CallLocal, a Call or an Exit.           *)

NodeInst == [op : Ops \cup {"assume"}, target : Nat, sense : BOOLEAN, sfp : Prefix]

Node(op, target, sense) == [op |-> op, target |-> target, sense |-> sense, sfp |-> <<>>]

InstAt(pc) == prog[pc + 1]

PCs == 0..(Len(prog) - 1)

has_fall(ins) == ins.op \notin {"exit", "ja"}

IsLast(pc) == pc + 1 = Len(prog)

Fallthrough(pc) == IF IsLast(pc) THEN ExitLabel ELSE Plain(pc + 1)

Fail(what) == /\ pass' = "failed"
              /\ error' = what
              /\ UNCHANGED <<prog, must_have_exit, neighbours, instructions, next, frames>>

Init == /\ prog \in Programs
        /\ must_have_exit \in BOOLEAN
        /\ neighbours = [l \in {EntryLabel, ExitLabel} |-> EmptyNode]
        /\ instructions = [l \in {EntryLabel, ExitLabel} |-> Node("undef", 0, FALSE)]
        /\ pass = "insert"
        /\ next = 0
        /\ frames = <<>>
        /\ error = "none"

-----------------------------------------------------------------------------
(* First pass.                                                             *)

DefinedPCs == {pc \in PCs : InstAt(pc).op # "undef"}

InsertFails == /\ pass = "insert"
               /\ \/ Len(prog) = 0 /\ Fail("empty")
                  \/ Len(prog) > 0 /\ 0 \notin DefinedPCs /\ Fail("out_of_range")

(* One node per instruction, and the edge from the entry to the first.     *)
InsertInstructions ==
    /\ pass = "insert"
    /\ 0 \in DefinedPCs
    /\ LET new == {Plain(pc) : pc \in DefinedPCs}
       IN  /\ neighbours' = add_children(insert(neighbours, new), {<<EntryLabel, Plain(0)>>})
           /\ instructions' = [l \in DOMAIN instructions \cup new |->
                                 IF l \in new
                                 THEN Node(InstAt(l.from).op, InstAt(l.from).target, TRUE)
                                 ELSE instructions[l]]
    /\ pass' = "connect"
    /\ UNCHANGED <<prog, must_have_exit, next, frames, error>>

(* A conditional jump that needs the two Assume nodes.                     *)
Branches(pc) == InstAt(pc).op = "jcc" /\ Plain(InstAt(pc).target) # Fallthrough(pc)

Targets(pc) == {Plain(InstAt(pc).target), Fallthrough(pc)}

JumpLabels(pc) == {make_jump(Plain(pc), t) : t \in Targets(pc)}

(* The edges the first pass gives to an instruction that is no branch.     *)
PlainEdges(pc) ==
    CASE InstAt(pc).op = "exit" -> {<<Plain(pc), ExitLabel>>}
      [] InstAt(pc).op = "ja"   -> {<<Plain(pc), Plain(InstAt(pc).target)>>}
      [] OTHER                  -> {<<Plain(pc), Fallthrough(pc)>>}

BranchEdges(pc) ==
    {<<Plain(pc), j>> : j \in JumpLabels(pc)}
      \cup {<<make_jump(Plain(pc), t), t>> : t \in Targets(pc)}

FallsOff(pc) == IsLast(pc) /\ has_fall(InstAt(pc)) /\ must_have_exit

Connecting(pc) == pass = "connect" /\ pc = next /\ pc \in PCs

ConnectFails(pc) ==
    /\ Connecting(pc)
    /\ pc \in DefinedPCs
    /\ \/ FallsOff(pc) /\ Fail("fallthrough")
       \/ /\ ~FallsOff(pc)
          /\ Branches(pc)
          /\ Plain(InstAt(pc).target) \notin DOMAIN neighbours
          /\ Fail("jump_to_undefined")
       \/ /\ ~FallsOff(pc)
          /\ Branches(pc)
          /\ Plain(InstAt(pc).target) \in DOMAIN neighbours
          /\ Fallthrough(pc) \notin DOMAIN neighbours
          /\ Fail("out_of_range")
       \/ /\ ~FallsOff(pc)
          /\ ~Branches(pc)
          /\ ~Connectable(neighbours, PlainEdges(pc))
          /\ Fail("out_of_range")

ConnectPlain(pc) ==
    /\ Connecting(pc)
    /\ pc \in DefinedPCs
    /\ ~FallsOff(pc)
    /\ ~Branches(pc)
    /\ Connectable(neighbours, PlainEdges(pc))
    /\ neighbours' = add_children(neighbours, PlainEdges(pc))
    /\ next' = next + 1
    /\ UNCHANGED <<prog, must_have_exit, instructions, pass, frames, error>>

(* insert_jump to the target, under the condition, and to the fallthrough, *)
(* under its reverse.                                                      *)
ConnectBranch(pc) ==
    /\ Connecting(pc)
    /\ pc \in DefinedPCs
    /\ ~FallsOff(pc)
    /\ Branches(pc)
    /\ Targets(pc) \subseteq DOMAIN neighbours
    /\ neighbours' = add_children(insert(neighbours, JumpLabels(pc)), BranchEdges(pc))
    /\ instructions' = [l \in DOMAIN instructions \cup JumpLabels(pc) |->
                          IF l \in JumpLabels(pc)
                          THEN Node("assume", 0, l.to = InstAt(pc).target)
                          ELSE instructions[l]]
    /\ next' = next + 1
    /\ UNCHANGED <<prog, must_have_exit, pass, frames, error>>

SkipUndefined(pc) ==
    /\ Connecting(pc)
    /\ pc \notin DefinedPCs
    /\ next' = next + 1
    /\ UNCHANGED <<prog, must_have_exit, neighbours, instructions, pass, frames, error>>

StartSecondPass ==
    /\ pass = "connect"
    /\ next = Len(prog)
    /\ pass' = "macros"
    /\ next' = 0
    /\ UNCHANGED <<prog, must_have_exit, neighbours, instructions, frames, error>>

-----------------------------------------------------------------------------
(* Second pass: add_cfg_nodes.                                             *)

Frame == [caller        : Label,
          exit_to_label : Label,
          macro_labels  : SUBSET Label,
          seen_labels   : SUBSET Label,
          first         : BOOLEAN,
          walking       : BOOLEAN,       \* still in the loop over macro_labels
          todo          : SUBSET Label]  \* the rest of the loop over seen_labels

Top == frames[Len(frames)]

SetTop(f) == [frames EXCEPT ![Len(frames)] = f]

TopPrefix == FramePrefix(Top.caller)

(* Mutant of EnterMacro: the call does not record its frame.               *)
MutEnterMacro(caller, pc, below) ==
    \E exit_to \in neighbours[caller].children :
        /\ neighbours[caller].children = {exit_to}
        /\ frames' = Append(below,
                            [caller        |-> caller,
                             exit_to_label |-> exit_to,
                             macro_labels  |-> {Plain(pc)},
                             seen_labels   |-> {Plain(pc)},
                             first         |-> TRUE,
                             walking       |-> TRUE,
                             todo          |-> {}])
        /\ UNCHANGED instructions

(* add_cfg_nodes(caller, Plain(pc)), up to its loop.  below is the stack   *)
(* of the activations that wait for it.  get_child throws unless a call    *)
(* has one child; here the builder would then be stuck, a deadlock.        *)
EnterMacro(caller, pc, below) ==
    \E exit_to \in neighbours[caller].children :
        /\ neighbours[caller].children = {exit_to}
        /\ frames' = Append(below,
                            [caller        |-> caller,
                             exit_to_label |-> exit_to,
                             macro_labels  |-> {Plain(pc)},
                             seen_labels   |-> {Plain(pc)},
                             first         |-> TRUE,
                             walking       |-> TRUE,
                             todo          |-> {}])
        /\ instructions' = [instructions EXCEPT ![caller].sfp = FramePrefix(caller)]

ReplacingMacros == pass = "macros" /\ frames = <<>>

(* Mutants of SkipInstruction: by two, and not at all.                     *)
MutSkipTwo ==
    /\ ReplacingMacros
    /\ next \in PCs
    /\ InstAt(next).op # "call"
    /\ next' = next + 2
    /\ UNCHANGED <<prog, must_have_exit, neighbours, instructions, pass, frames, error>>

MutSkipNone ==
    /\ ReplacingMacros
    /\ next \in PCs
    /\ InstAt(next).op # "call"
    /\ UNCHANGED vars

SkipInstruction ==
    /\ ReplacingMacros
    /\ next \in PCs
    /\ InstAt(next).op # "call"
    /\ next' = next + 1
    /\ UNCHANGED <<prog, must_have_exit, neighbours, instructions, pass, frames, error>>

ReplaceMacro ==
    /\ ReplacingMacros
    /\ next \in PCs
    /\ InstAt(next).op = "call"
    /\ EnterMacro(Plain(next), InstAt(next).target, <<>>)
    /\ next' = next + 1
    /\ UNCHANGED <<prog, must_have_exit, neighbours, pass, error>>

Walking(l) == /\ pass = "macros"
              /\ frames # <<>>
              /\ Top.walking
              /\ l \in Top.macro_labels
              /\ IsFirst(l, Top.macro_labels)

IllegalRecursion(l) == TopPrefix = l.stack_frame_prefix

CloneFails(l) ==
    /\ Walking(l)
    /\ \/ IllegalRecursion(l) /\ Fail("illegal_recursion")
       \/ ~IllegalRecursion(l) /\ l \notin DOMAIN instructions /\ Fail("not_found")
       \/ /\ ~IllegalRecursion(l)
          /\ l \in DOMAIN instructions
          /\ Reprefix(l, TopPrefix) \in DOMAIN neighbours
          /\ Fail("already_exists")

(* Mutant of CloneEdges: exits do not return.                              *)
MutCloneEdges(l) ==
    LET label == Reprefix(l, TopPrefix)
        prevs == {Reprefix(p, TopPrefix) : p \in neighbours[l].parents}
    IN  (IF Top.first THEN {<<Top.caller, label>>} ELSE {})
          \cup {<<p, label>> : p \in prevs \cap (DOMAIN neighbours \cup {label})}

(* The edges given to the clone of l: from the caller if it is the first,  *)
(* from the clones that exist of l's predecessors, and to the block to     *)
(* return to if l is an exit.                                              *)
CloneEdges(l) ==
    LET label == Reprefix(l, TopPrefix)
        prevs == {Reprefix(p, TopPrefix) : p \in neighbours[l].parents}
    IN  (IF Top.first THEN {<<Top.caller, label>>} ELSE {})
          \cup {<<p, label>> : p \in prevs \cap (DOMAIN neighbours \cup {label})}
          \cup (IF ExitLabel \in neighbours[l].children
                THEN {<<label, Top.exit_to_label>>} ELSE {})

(* The successors the walk has still to push.  They are read once the      *)
(* edges are in: a caller that the walk reaches has its clone among them.  *)
Unseen(l) ==
    (neighbours[l].children \cup {e[2] : e \in {d \in CloneEdges(l) : d[1] = l}})
      \ (Top.seen_labels \cup {ExitLabel})

(* One iteration of the loop over macro_labels.  It is the label in hand,  *)
(* not the one pushed, that becomes seen.                                  *)
CloneMacroLabel(l) ==
    /\ Walking(l)
    /\ ~IllegalRecursion(l)
    /\ l \in DOMAIN instructions
    /\ LET label == Reprefix(l, TopPrefix)
       IN  /\ label \notin DOMAIN neighbours
           /\ neighbours' = add_children(insert(neighbours, {label}), CloneEdges(l))
           /\ instructions' = [m \in DOMAIN instructions \cup {label} |->
                                 IF m = label
                                 THEN [instructions[l] EXCEPT
                                         !.sfp = IF instructions[l].op \in {"exit", "helper"}
                                                 THEN TopPrefix ELSE @]
                                 ELSE instructions[m]]
    /\ frames' = SetTop([Top EXCEPT
                           !.macro_labels = (@ \ {l}) \cup Unseen(l),
                           !.seen_labels  = IF Unseen(l) = {} THEN @ ELSE @ \cup {l},
                           !.first        = FALSE])
    /\ UNCHANGED <<prog, must_have_exit, pass, next, error>>

(* The edge past the call goes; of seen_labels only calls matter further.  *)
EndWalk ==
    /\ pass = "macros"
    /\ frames # <<>>
    /\ Top.walking
    /\ Top.macro_labels = {}
    /\ neighbours' = remove_child(neighbours, Top.caller, Top.exit_to_label)
    /\ frames' = SetTop([Top EXCEPT
                           !.walking = FALSE,
                           !.todo = {l \in Top.seen_labels :
                                       instructions[Reprefix(l, TopPrefix)].op = "call"}])
    /\ UNCHANGED <<prog, must_have_exit, instructions, pass, next, error>>

Recursing(l) == /\ pass = "macros"
                /\ frames # <<>>
                /\ ~Top.walking
                /\ l \in Top.todo
                /\ IsFirst(l, Top.todo)

(* Mutants of StackFrameDepth: off by one either way.                      *)
MutDepthLow == (Len(TopPrefix) - 1) + 1

MutDepthHigh == (Len(TopPrefix) - 1) + 3

(* The delimiters in to_string(caller), plus 2.                            *)
StackFrameDepth == (Len(TopPrefix) - 1) + 2

TooManyFrames(l) ==
    /\ Recursing(l)
    /\ StackFrameDepth >= MaxCallStackFrames
    /\ Fail("too_many_frames")

ReplaceNestedMacro(l) ==
    /\ Recursing(l)
    /\ StackFrameDepth < MaxCallStackFrames
    /\ LET caller == Reprefix(l, TopPrefix)
       IN  EnterMacro(caller, instructions[caller].target,
                      SetTop([Top EXCEPT !.todo = @ \ {l}]))
    /\ UNCHANGED <<prog, must_have_exit, neighbours, pass, next, error>>

ReturnFromMacro ==
    /\ pass = "macros"
    /\ frames # <<>>
    /\ ~Top.walking
    /\ Top.todo = {}
    /\ frames' = SubSeq(frames, 1, Len(frames) - 1)
    /\ UNCHANGED <<prog, must_have_exit, neighbours, instructions, pass, next, error>>

Finish ==
    /\ ReplacingMacros
    /\ next = Len(prog)
    /\ pass' = "done"
    /\ UNCHANGED <<prog, must_have_exit, neighbours, instructions, next, frames, error>>

(* The builder has returned or thrown.                                     *)
Terminated == pass \in {"done", "failed"}

Terminating == Terminated /\ UNCHANGED vars

FirstPass ==
    \/ InsertFails
    \/ InsertInstructions
    \/ \E pc \in PCs : \/ ConnectFails(pc)
                       \/ ConnectPlain(pc)
                       \/ ConnectBranch(pc)
                       \/ SkipUndefined(pc)
    \/ StartSecondPass

WalkMacro ==
    \/ \E l \in Top.macro_labels : CloneFails(l) \/ CloneMacroLabel(l)
    \/ EndWalk
    \/ \E l \in Top.todo : TooManyFrames(l) \/ ReplaceNestedMacro(l)
    \/ ReturnFromMacro

SecondPass ==
    \/ SkipInstruction
    \/ ReplaceMacro
    \/ frames # <<>> /\ WalkMacro
    \/ Finish

Next == FirstPass \/ SecondPass \/ Terminating

Spec == Init /\ [][Next]_vars

FairSpec == Spec /\ WF_vars(FirstPass \/ SecondPass)
=============================================================================
