--------------------------- MODULE CfgProperties ----------------------------
(***************************************************************************)
(* What the control-flow graph built by CfgBuilder has to be, stated       *)
(* against the eBPF program itself: its instructions, its jumps and its    *)
(* call stack.                                                             *)
(***************************************************************************)
EXTENDS CfgBuilder

Done == pass = "done"

(* A label stands for the pc `from`, in the frame the prefix names, or for *)
(* the jump from->to taken in that frame.                                  *)
IsJump(l) == l.to # -1

(* Where the instruction after the call in progress is.                    *)
ReturnTo(prefix) ==
    LET pc == prefix[Len(prefix)]
    IN  IF IsLast(pc) THEN ExitLabel
        ELSE MkLabel(SubSeq(prefix, 1, Len(prefix) - 1), pc + 1, -1)

At(prefix, pc) == MkLabel(prefix, pc, -1)

(* What follows pc in its frame; falling off the end leaves the frame.     *)
Leave(prefix) == IF prefix = <<>> THEN ExitLabel ELSE ReturnTo(prefix)

FallTo(prefix, pc) == IF IsLast(pc) THEN Leave(prefix) ELSE At(prefix, pc + 1)

(* The successors the eBPF semantics gives to a label.                     *)
Successors(l) ==
    LET prefix == l.stack_frame_prefix
        pc     == l.from
        ins    == InstAt(pc)
    IN  CASE l = EntryLabel -> {Plain(0)}
          [] l = ExitLabel  -> {}
          [] IsJump(l) /\ l.to = INT_MAX -> {Leave(prefix)}
          [] IsJump(l) /\ l.to # INT_MAX -> {At(prefix, l.to)}
          [] OTHER ->
               CASE ins.op = "exit" -> {Leave(prefix)}
                 [] ins.op = "ja"   -> {At(prefix, ins.target)}
                 [] ins.op = "call" -> {At(Append(prefix, pc), ins.target)}
                 [] ins.op = "jcc" /\ Branches(pc) ->
                      {MkLabel(prefix, pc, t.from) : t \in Targets(pc)}
                 [] OTHER -> {FallTo(prefix, pc)}

(* Labels reachable from S in the graph.                                   *)
Reach(graph, S) ==
    LET R[k \in 0..Cardinality(DOMAIN graph)] ==
          IF k = 0 THEN S
          ELSE LET prev == R[k - 1]
               IN  prev \cup UNION {graph[l].children : l \in prev}
    IN  R[Cardinality(DOMAIN graph)]

Reachable == Reach(neighbours, {EntryLabel})

(* The instruction a label must carry.                                     *)
Carries(l) ==
    LET node == instructions[l]
    IN  IF IsJump(l)
        THEN node.op = "assume" /\ node.sense = (l.to = InstAt(l.from).target)
        ELSE node.op = InstAt(l.from).op /\ node.target = InstAt(l.from).target

-----------------------------------------------------------------------------

EdgeErrors == {"empty", "fallthrough", "jump_to_undefined", "out_of_range"}

CallErrors == {"illegal_recursion", "not_found", "already_exists", "too_many_frames"}

(* TypeOK: neighbours and instructions have the same labels, and every     *)
(* activation of add_cfg_nodes works on labels.                            *)
TypeOK ==
    /\ prog \in Seq(Inst) /\ must_have_exit \in BOOLEAN
    /\ DOMAIN neighbours \subseteq Label
    /\ neighbours \in [DOMAIN neighbours -> [parents : SUBSET Label, children : SUBSET Label]]
    /\ instructions \in [DOMAIN neighbours -> NodeInst]
    /\ pass \in {"insert", "connect", "macros", "done", "failed"}
    /\ next \in 0..Len(prog)
    /\ frames \in Seq(Frame)
    /\ error \in {"none"} \cup EdgeErrors \cup CallErrors

Mirror(graph) ==
    /\ \A a \in DOMAIN graph :
         /\ graph[a].children \subseteq DOMAIN graph
         /\ graph[a].parents \subseteq DOMAIN graph
    /\ \A a, b \in DOMAIN graph : b \in graph[a].children <=> a \in graph[b].parents
    /\ graph[EntryLabel].parents = {}
    /\ graph[ExitLabel].children = {}

(* AdjacencyMirror: children and parents (cfg_t::adjacent_t) always        *)
(* describe the same edges, between labels of the graph, through every     *)
(* insertion, cloning and edge removal; nothing precedes the entry and     *)
(* nothing follows the exit, as the assertions of add_child require.       *)
AdjacencyMirror == Mirror(neighbours)

(* FramesBounded: no inlined block, and no call being inlined, is nested   *)
(* deeper than MAX_CALL_STACK_FRAMES frames: the check of                  *)
(* stack_frame_depth, made before recursing, bounds the prefixes of all    *)
(* clones.                                                                 *)
FramesBounded ==
    /\ \A l \in DOMAIN neighbours : Len(l.stack_frame_prefix) + 1 <= MaxCallStackFrames
    /\ Len(frames) < MaxCallStackFrames

(* CfgMatchesProgram: when the builder returns, the part of the graph that *)
(* can be reached has exactly the edges of the program with its calls      *)
(* inlined: a branch goes through an Assume of the right polarity on each  *)
(* side, a call to the clone of the callee, its exit back after the call.  *)
CfgMatchesProgram ==
    Done => \A l \in Reachable :
              /\ neighbours[l].children = Successors(l)
              /\ l \notin {EntryLabel, ExitLabel} => Carries(l)

(* FramePrefixesMatch: when the builder returns, every reachable CallLocal *)
(* names the frame of the clone it enters, and every reachable Exit and    *)
(* helper Call the frame it runs in: the transformer saves and restores    *)
(* registers by these prefixes.                                            *)
FramePrefixesMatch ==
    Done => \A l \in Reachable \ {EntryLabel, ExitLabel} :
              /\ instructions[l].op = "call" => instructions[l].sfp = FramePrefix(l)
              /\ instructions[l].op \in {"exit", "helper"} =>
                   instructions[l].sfp = l.stack_frame_prefix

-----------------------------------------------------------------------------
(* Which programs may be refused.                                          *)

Calls(pc) == InstAt(pc).op = "call"

(* pcs an execution that starts at pc can be at, without following calls.  *)
BodyStep(pc) ==
    CASE InstAt(pc).op = "undef" -> {}
      [] InstAt(pc).op = "exit"  -> {}
      [] InstAt(pc).op = "ja"    -> {InstAt(pc).target}
      [] InstAt(pc).op = "jcc"   -> {InstAt(pc).target, pc + 1}
      [] OTHER                   -> {pc + 1}

Body(pc) ==
    LET R[k \in 0..Len(prog)] ==
          IF k = 0 THEN {pc}
          ELSE LET prev == R[k - 1]
               IN  prev \cup UNION {BodyStep(q) : q \in prev \cap PCs}
    IN  R[Len(prog)] \cap PCs

(* Calls that can be in progress at depth k, the call at pc being the first. *)
ChainedCalls(pc, k) ==
    LET R[d \in 1..k] ==
          IF d = 1 THEN {pc}
          ELSE UNION {{q \in Body(InstAt(c).target) : Calls(q)} :
                        c \in {c \in R[d - 1] : InstAt(c).target \in PCs}}
    IN  R[k]

HasDeepCalls ==
    \E pc \in PCs : Calls(pc) /\ ChainedCalls(pc, MaxCallStackFrames) # {}

(* RefusalsJustified: the builder throws only for a program that does      *)
(* transfer control to no instruction, or that nests its calls too deep.   *)
RefusalsJustified ==
    /\ error \in EdgeErrors =>
         \/ Len(prog) = 0
         \/ \E pc \in PCs : BodyStep(pc) \ DefinedPCs # {}
         \/ 0 \notin DefinedPCs
    /\ error = "not_found" =>
         \E pc \in PCs : Calls(pc) /\ InstAt(pc).target \notin DefinedPCs
    /\ error \in CallErrors \ {"not_found"} => HasDeepCalls

EdgesKept ==
    /\ DOMAIN neighbours \subseteq DOMAIN neighbours'
    /\ \A l \in DOMAIN neighbours :
         /\ \/ neighbours[l].children \subseteq neighbours'[l].children
            \/ instructions[l].op = "call"
         /\ instructions'[l].op = instructions[l].op
         /\ instructions'[l].target = instructions[l].target

(* EdgesStay: no step drops a label of the graph or an edge of it, but the *)
(* edge from a call to the instruction after it, which remove_child takes  *)
(* out once the callee has been cloned; and what a label does is never     *)
(* rewritten.                                                              *)
EdgesStay == [][EdgesKept]_vars

(* Terminates: the builder returns or throws for every program, recursive  *)
(* ones too: each clone is a new label and the frames are bounded.         *)
Terminates == <>Terminated
=============================================================================
