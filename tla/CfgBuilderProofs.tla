-------------------------- MODULE CfgBuilderProofs --------------------------
(***************************************************************************)
(* Proofs about CfgBuilder, for every set of programs and every bound on   *)
(* the call stack: the two adjacency maps stay mirror images of each       *)
(* other, no clone is nested too deep, and the second pass takes away no   *)
(* edge but the one past a call.  And for every set of programs whose      *)
(* functions only go forward: the graph that is returned has the edges of  *)
(* the program with its calls inlined, its labels name their frames, and   *)
(* the builder only throws for a program it has to refuse.                 *)
(***************************************************************************)
EXTENDS CfgProperties, FiniteInduction, SequenceTheorems, TLAPS

-----------------------------------------------------------------------------
(* The graph operations.                                                   *)

GraphNode == [parents : SUBSET Label, children : SUBSET Label]

GraphOK(graph) ==
    /\ DOMAIN graph \subseteq Label
    /\ graph \in [DOMAIN graph -> GraphNode]
    /\ {EntryLabel, ExitLabel} \subseteq DOMAIN graph
    /\ Mirror(graph)

(* Inserting nodes keeps a graph well linked and the nodes it had.         *)
LEMMA InsertKeepsGraph ==
    ASSUME NEW graph, GraphOK(graph), NEW new \in SUBSET Label
    PROVE  /\ GraphOK(insert(graph, new))
           /\ DOMAIN insert(graph, new) = DOMAIN graph \cup new
           /\ \A l \in DOMAIN graph : insert(graph, new)[l] = graph[l]
<1> DEFINE g == insert(graph, new)
<1>1. /\ DOMAIN g = DOMAIN graph \cup new
      /\ \A l \in DOMAIN graph : g[l] = graph[l]
      /\ \A l \in DOMAIN g \ DOMAIN graph : g[l] = EmptyNode
  BY DEF insert
<1>2. EmptyNode \in GraphNode /\ EmptyNode.parents = {} /\ EmptyNode.children = {}
  BY DEF EmptyNode, GraphNode
<1>3. g \in [DOMAIN g -> GraphNode]
  <2>1. \A l \in DOMAIN g : g[l] \in GraphNode
    BY <1>1, <1>2 DEF GraphOK
  <2>2. g = [l \in DOMAIN g |-> g[l]]
    BY DEF insert
  <2> QED  BY <2>1, <2>2
<1>4. Mirror(g)
  BY <1>1, <1>2 DEF GraphOK, Mirror
<1> QED  BY <1>1, <1>3, <1>4 DEF GraphOK

(* Adding edges that do not enter the entry and do not leave the exit      *)
(* keeps a graph well linked, and takes no edge away.                      *)
LEMMA AddChildrenKeepsGraph ==
    ASSUME NEW graph, GraphOK(graph), NEW E,
           \A e \in E : e[1] # ExitLabel /\ e[2] # EntryLabel
    PROVE  /\ GraphOK(add_children(graph, E))
           /\ DOMAIN add_children(graph, E) = DOMAIN graph
           /\ \A l \in DOMAIN graph :
                graph[l].children \subseteq add_children(graph, E)[l].children
<1> DEFINE g == add_children(graph, E)
<1>1. /\ DOMAIN g = DOMAIN graph
      /\ \A l \in DOMAIN graph :
           /\ g[l].parents = graph[l].parents \cup {a \in DOMAIN graph : <<a, l>> \in E}
           /\ g[l].children = graph[l].children \cup {b \in DOMAIN graph : <<l, b>> \in E}
  BY DEF add_children
<1>2. g \in [DOMAIN g -> GraphNode]
  BY DEF add_children, GraphOK, GraphNode
<1>3. {a \in DOMAIN graph : <<a, EntryLabel>> \in E} = {}
  OBVIOUS
<1>4. {b \in DOMAIN graph : <<ExitLabel, b>> \in E} = {}
  OBVIOUS
<1>5. Mirror(g)
  <2> HIDE DEF g
  <2>1. \A a \in DOMAIN g : g[a].children \subseteq DOMAIN g /\ g[a].parents \subseteq DOMAIN g
    <3> SUFFICES ASSUME NEW a \in DOMAIN graph
                 PROVE  g[a].children \subseteq DOMAIN graph /\ g[a].parents \subseteq DOMAIN graph
      BY <1>1
    <3>1. graph[a].children \subseteq DOMAIN graph /\ graph[a].parents \subseteq DOMAIN graph
      BY DEF GraphOK, Mirror
    <3> QED  BY <1>1, <3>1
  <2>2. \A a, b \in DOMAIN g : b \in g[a].children <=> a \in g[b].parents
    BY <1>1 DEF GraphOK, Mirror
  <2>3. g[EntryLabel].parents = {} /\ g[ExitLabel].children = {}
    BY <1>1, <1>3, <1>4 DEF GraphOK, Mirror
  <2> QED  BY <2>1, <2>2, <2>3 DEF Mirror
<1> QED  BY <1>1, <1>2, <1>5 DEF GraphOK

(* Removing an edge keeps a graph well linked, and touches no other node's *)
(* children.                                                               *)
LEMMA RemoveChildKeepsGraph ==
    ASSUME NEW graph, GraphOK(graph), NEW a, NEW b
    PROVE  /\ GraphOK(remove_child(graph, a, b))
           /\ DOMAIN remove_child(graph, a, b) = DOMAIN graph
           /\ \A l \in DOMAIN graph \ {a} :
                remove_child(graph, a, b)[l].children = graph[l].children
<1> DEFINE g == remove_child(graph, a, b)
<1>1. /\ DOMAIN g = DOMAIN graph
      /\ \A l \in DOMAIN graph :
           /\ g[l].parents = IF l = b THEN graph[l].parents \ {a} ELSE graph[l].parents
           /\ g[l].children = IF l = a THEN graph[l].children \ {b} ELSE graph[l].children
  BY DEF remove_child
<1>2. g \in [DOMAIN g -> GraphNode]
  BY DEF remove_child, GraphOK, GraphNode
<1>3. Mirror(g)
  <2> HIDE DEF g
  <2>1. \A x \in DOMAIN graph :
          graph[x].children \subseteq DOMAIN graph /\ graph[x].parents \subseteq DOMAIN graph
    BY DEF GraphOK, Mirror
  <2>2. \A x \in DOMAIN g : g[x].children \subseteq DOMAIN g /\ g[x].parents \subseteq DOMAIN g
    BY <1>1, <2>1
  <2>3. \A x, y \in DOMAIN g : y \in g[x].children <=> x \in g[y].parents
    <3> SUFFICES ASSUME NEW x \in DOMAIN graph, NEW y \in DOMAIN graph
                 PROVE  y \in g[x].children <=> x \in g[y].parents
      BY <1>1
    <3>1. y \in graph[x].children <=> x \in graph[y].parents
      BY DEF GraphOK, Mirror
    <3> QED  BY <1>1, <3>1
  <2>4. g[EntryLabel].parents = {} /\ g[ExitLabel].children = {}
    <3>1. graph[EntryLabel].parents = {} /\ graph[ExitLabel].children = {}
      BY DEF GraphOK, Mirror
    <3> QED  BY <1>1, <3>1 DEF GraphOK
  <2> QED  BY <2>2, <2>3, <2>4 DEF Mirror
<1> QED  BY <1>1, <1>2, <1>3 DEF GraphOK

-----------------------------------------------------------------------------
(* The inductive invariant.                                                *)

(* What an activation of add_cfg_nodes, the i-th on the stack, knows of    *)
(* the graph: its caller is a call nested i - 1 deep, what it has seen is  *)
(* either still to be cloned or cloned, and what it will recurse into are  *)
(* calls it cloned.                                                        *)
FrameOK(f, i, graph, ins) ==
    /\ f.caller \in DOMAIN graph
    /\ ins[f.caller].op = "call"
    /\ Len(f.caller.stack_frame_prefix) = i - 1
    /\ f.exit_to_label \in DOMAIN graph \ {EntryLabel}
    /\ \A l \in f.seen_labels :
         l \in f.macro_labels \/ Reprefix(l, FramePrefix(f.caller)) \in DOMAIN graph
    /\ \A l \in f.todo :
         /\ Reprefix(l, FramePrefix(f.caller)) \in DOMAIN graph
         /\ ins[Reprefix(l, FramePrefix(f.caller))].op = "call"

(* Before and during the first pass, the graph holds the labels it got so  *)
(* far and no frame is active.                                             *)
PassInv ==
    /\ pass = "insert" => /\ DOMAIN neighbours = {EntryLabel, ExitLabel}
                          /\ frames = <<>>
    /\ pass = "connect" => /\ frames = <<>>
                           /\ \A l \in DOMAIN neighbours : l.to # -1 => l.from < next

(* After the insertion every defined instruction has its node.             *)
PlainInv ==
    pass \in {"connect", "macros"} =>
      \A pc \in DefinedPCs : /\ Plain(pc) \in DOMAIN neighbours
                             /\ instructions[Plain(pc)].op = InstAt(pc).op

Inv == /\ TypeOK
       /\ Len(prog) < INT_MAX
       /\ GraphOK(neighbours)
       /\ instructions[ExitLabel].op = "undef"
       /\ FramesBounded
       /\ \A i \in 1..Len(frames) : FrameOK(frames[i], i, neighbours, instructions)
       /\ PassInv
       /\ PlainInv

(* A step that only adds labels and keeps what they do keeps a frame's     *)
(* view of the graph.                                                      *)
LEMMA FrameKept ==
    ASSUME NEW f, NEW i, NEW graph, NEW graph2, NEW ins, NEW ins2,
           FrameOK(f, i, graph, ins),
           DOMAIN graph \subseteq DOMAIN graph2,
           \A l \in DOMAIN graph : ins2[l].op = ins[l].op
    PROVE  FrameOK(f, i, graph2, ins2)
  BY DEF FrameOK

(* Labels.                                                                 *)
LEMMA LabelFacts ==
    /\ \A pc \in Int : Plain(pc) \in Label
    /\ EntryLabel \in Label /\ ExitLabel \in Label /\ EntryLabel # ExitLabel
    /\ \A pc \in Nat : Plain(pc) # EntryLabel
    /\ \A pc \in Nat : pc < INT_MAX => Plain(pc) # ExitLabel
    /\ \A p, q \in Int : Plain(p) = Plain(q) => p = q
    /\ \A pc \in Int : Plain(pc).from = pc /\ Plain(pc).to = -1 /\ Plain(pc).stack_frame_prefix = <<>>
  BY DEF Plain, MkLabel, Label, EntryLabel, ExitLabel, INT_MAX, Prefix

LEMMA ReprefixFacts ==
    ASSUME NEW l \in Label, NEW prefix \in Prefix, prefix # <<>>
    PROVE  /\ Reprefix(l, prefix) \in Label
           /\ Reprefix(l, prefix).stack_frame_prefix = prefix
           /\ Reprefix(l, prefix) # EntryLabel
           /\ Reprefix(l, prefix) # ExitLabel
  BY DEF Reprefix, MkLabel, Label, EntryLabel, ExitLabel, Plain

LEMMA FramePrefixFacts ==
    ASSUME NEW l \in Label
    PROVE  /\ FramePrefix(l) \in Prefix
           /\ FramePrefix(l) # <<>>
           /\ Len(FramePrefix(l)) = Len(l.stack_frame_prefix) + 1
  BY DEF FramePrefix, Label, Prefix

-----------------------------------------------------------------------------
(* Every step keeps the invariant, and the edges.                          *)

(* What a step that leaves the input alone has to show, with the graph     *)
(* and the instructions after it given.                                    *)
LEMMA GraphStep ==
    ASSUME Inv,
           GraphOK(neighbours'),
           instructions' \in [DOMAIN neighbours' -> NodeInst],
           pass' \in {"insert", "connect", "macros", "done", "failed"},
           next' \in 0..Len(prog),
           frames' \in Seq(Frame),
           error' \in {"none"} \cup EdgeErrors \cup CallErrors,
           UNCHANGED <<prog, must_have_exit>>
    PROVE  TypeOK' /\ (Len(prog) < INT_MAX)'
  BY DEF Inv, TypeOK, GraphOK, GraphNode

LEMMA FailStep ==
    ASSUME Inv, NEW what \in EdgeErrors \cup CallErrors, Fail(what)
    PROVE  Inv' /\ EdgesKept
<1> USE DEF Fail
<1>1. TypeOK' /\ (Len(prog) < INT_MAX)'
  BY DEF Inv, TypeOK
<1>2. GraphOK(neighbours)' /\ instructions'[ExitLabel].op = "undef" /\ FramesBounded'
  BY DEF Inv, FramesBounded
<1>3. PassInv' /\ PlainInv'
  BY DEF PassInv, PlainInv
<1>4. \A i \in 1..Len(frames') : FrameOK(frames'[i], i, neighbours', instructions')
  BY DEF Inv
<1>5. EdgesKept
  BY DEF EdgesKept
<1> QED  BY <1>1, <1>2, <1>3, <1>4, <1>5 DEF Inv

LEMMA InsertStep ==
    ASSUME Inv, InsertInstructions
    PROVE  Inv' /\ EdgesKept
<1> DEFINE new == {Plain(pc) : pc \in DefinedPCs}
           E == {<<EntryLabel, Plain(0)>>}
           g == insert(neighbours, new)
<1>0. prog \in Seq(Inst) /\ Len(prog) \in Nat /\ Len(prog) < INT_MAX /\ INT_MAX \in Nat
  BY DEF Inv, TypeOK, INT_MAX
<1>1. DefinedPCs \subseteq PCs /\ PCs \subseteq Nat /\ \A pc \in PCs : pc < INT_MAX
  BY <1>0 DEF DefinedPCs, PCs
<1>2. new \subseteq Label /\ EntryLabel \notin new /\ ExitLabel \notin new
  BY <1>1, LabelFacts
<1>3. /\ GraphOK(g)
      /\ DOMAIN g = DOMAIN neighbours \cup new
      /\ \A l \in DOMAIN neighbours : g[l] = neighbours[l]
  BY <1>2, InsertKeepsGraph DEF Inv
<1>4. \A e \in E : e[1] # ExitLabel /\ e[2] # EntryLabel
  BY LabelFacts
<1>5. /\ GraphOK(neighbours')
      /\ DOMAIN neighbours' = DOMAIN neighbours \cup new
      /\ \A l \in DOMAIN neighbours : neighbours[l].children \subseteq neighbours'[l].children
  <2>1. neighbours' = add_children(g, E)
    BY DEF InsertInstructions
  <2> HIDE DEF g, E
  <2> QED  BY <2>1, <1>3, <1>4, AddChildrenKeepsGraph
<1>6. DOMAIN instructions = DOMAIN neighbours /\ DOMAIN neighbours = {EntryLabel, ExitLabel}
  BY DEF Inv, TypeOK, PassInv, InsertInstructions
<1>7. /\ instructions' \in [DOMAIN neighbours' -> NodeInst]
      /\ \A l \in DOMAIN neighbours : instructions'[l] = instructions[l]
      /\ \A l \in new : instructions'[l].op = InstAt(l.from).op
  <2>1. \A pc \in DefinedPCs : InstAt(pc) \in Inst
    BY <1>0, <1>1 DEF InstAt, PCs
  <2>2. \A l \in new : /\ InstAt(l.from) \in Inst
                       /\ Node(InstAt(l.from).op, InstAt(l.from).target, TRUE) \in NodeInst
                       /\ Node(InstAt(l.from).op, InstAt(l.from).target, TRUE).op = InstAt(l.from).op
    BY <2>1, <1>1, LabelFacts DEF Node, NodeInst, Inst, Prefix
  <2>3. instructions' = [l \in DOMAIN instructions \cup new |->
                           IF l \in new
                           THEN Node(InstAt(l.from).op, InstAt(l.from).target, TRUE)
                           ELSE instructions[l]]
    BY DEF InsertInstructions
  <2>4. \A l \in DOMAIN instructions : instructions[l] \in NodeInst
    BY DEF Inv, TypeOK
  <2> HIDE DEF new
  <2> QED  BY <1>2, <1>5, <1>6, <2>2, <2>3, <2>4
<1>8. TypeOK' /\ (Len(prog) < INT_MAX)'
  <2>1. /\ UNCHANGED <<prog, must_have_exit, next, frames, error>> /\ pass' = "connect"
        /\ next \in 0..Len(prog) /\ frames \in Seq(Frame)
        /\ error \in {"none"} \cup EdgeErrors \cup CallErrors
    BY DEF InsertInstructions, Inv, TypeOK
  <2> QED  BY <1>5, <1>7, <2>1, GraphStep
<1>9. frames = <<>> /\ frames' = <<>>
  BY DEF InsertInstructions, Inv, PassInv
<1>10. FramesBounded'
  <2>1. \A l \in DOMAIN neighbours' : l.stack_frame_prefix = <<>>
    BY <1>1, <1>5, <1>6, LabelFacts DEF EntryLabel, ExitLabel, INT_MAX
  <2> QED  BY <2>1, <1>9, MaxCallStackFramesAssumption DEF FramesBounded
<1>11. PassInv'
  <2>1. \A l \in DOMAIN neighbours' : l.to = -1
    BY <1>1, <1>5, <1>6, LabelFacts DEF EntryLabel, ExitLabel, INT_MAX
  <2> QED  BY <2>1, <1>9 DEF PassInv, InsertInstructions
<1>12. PlainInv'
  <2>1. prog' = prog
    BY DEF InsertInstructions
  <2>2. \A pc \in DefinedPCs : Plain(pc) \in new /\ Plain(pc).from = pc
    BY <1>1, LabelFacts
  <2>3. DefinedPCs' = DefinedPCs /\ \A pc \in DefinedPCs : InstAt(pc)' = InstAt(pc)
    BY <2>1 DEF DefinedPCs, PCs, InstAt
  <2> QED  BY <2>2, <2>3, <1>5, <1>7 DEF PlainInv
<1>13. instructions'[ExitLabel].op = "undef"
  BY <1>6, <1>7 DEF Inv
<1>14. EdgesKept
  BY <1>5, <1>7 DEF EdgesKept
<1> QED  BY <1>5, <1>8, <1>9, <1>10, <1>11, <1>12, <1>13, <1>14 DEF Inv

(* A step that keeps the labels and what they do keeps PlainInv.           *)
LEMMA PlainKept ==
    ASSUME PlainInv, prog' = prog,
           pass' \in {"connect", "macros"} => pass \in {"connect", "macros"},
           DOMAIN neighbours \subseteq DOMAIN neighbours',
           \A l \in DOMAIN neighbours : instructions'[l].op = instructions[l].op
    PROVE  PlainInv'
<1>1. DefinedPCs' = DefinedPCs /\ \A pc : InstAt(pc)' = InstAt(pc)
  BY DEF DefinedPCs, PCs, InstAt
<1> QED  BY <1>1 DEF PlainInv

(* The loops that only move on.                                            *)
LEMMA LoopStep ==
    ASSUME Inv, UNCHANGED <<prog, must_have_exit, neighbours, instructions, frames, error>>,
           pass' \in {"connect", "macros", "done"},
           next' \in 0..Len(prog),
           \/ pass' = "connect" /\ pass = "connect" /\ next' >= next
           \/ pass' \in {"macros", "done"} /\ pass \in {"connect", "macros"}
    PROVE  Inv' /\ EdgesKept
<1>1. TypeOK' /\ (Len(prog) < INT_MAX)'
  BY DEF Inv, TypeOK
<1>2. GraphOK(neighbours)' /\ instructions'[ExitLabel].op = "undef" /\ FramesBounded'
  BY DEF Inv, FramesBounded
<1>3. PassInv'
  <2>1. next \in Nat /\ next' \in Nat
    BY DEF Inv, TypeOK
  <2>2. \A l \in DOMAIN neighbours : l.from \in Int
    BY DEF Inv, TypeOK, Label
  <2> QED  BY <2>1, <2>2 DEF PassInv, Inv
<1>4. PlainInv'
  BY PlainKept DEF Inv
<1>5. \A i \in 1..Len(frames') : FrameOK(frames'[i], i, neighbours', instructions')
  BY DEF Inv
<1>6. EdgesKept
  BY DEF EdgesKept
<1> QED  BY <1>1, <1>2, <1>3, <1>4, <1>5, <1>6 DEF Inv

LEMMA InstTyped ==
    ASSUME prog \in Seq(Inst), NEW pc \in PCs
    PROVE  InstAt(pc) \in Inst /\ InstAt(pc).target \in Nat
<1>1. pc + 1 \in 1..Len(prog)
  BY DEF PCs
<1>2. prog[pc + 1] \in Inst
  BY <1>1
<1> QED  BY <1>2 DEF InstAt, Inst

LEMMA ConnectPlainStep ==
    ASSUME Inv, NEW pc \in PCs, ConnectPlain(pc)
    PROVE  Inv' /\ EdgesKept
<1> DEFINE E == PlainEdges(pc)
<1>1. /\ prog \in Seq(Inst) /\ Len(prog) \in Nat /\ Len(prog) < INT_MAX
      /\ pc \in Nat /\ pc < INT_MAX /\ pc + 1 <= Len(prog) /\ next = pc /\ pass = "connect"
  BY DEF Inv, TypeOK, PCs, ConnectPlain, Connecting, INT_MAX
<1>2. InstAt(pc).target \in Nat
  BY InstTyped DEF Inv, TypeOK
<1>3. Fallthrough(pc) # EntryLabel
  BY <1>1, LabelFacts DEF Fallthrough
<1>4. \A e \in E : e[1] # ExitLabel /\ e[2] # EntryLabel
  BY <1>1, <1>2, <1>3, LabelFacts DEF PlainEdges
<1>5. /\ GraphOK(neighbours')
      /\ DOMAIN neighbours' = DOMAIN neighbours
      /\ \A l \in DOMAIN neighbours : neighbours[l].children \subseteq neighbours'[l].children
  <2>1. neighbours' = add_children(neighbours, E)
    BY DEF ConnectPlain
  <2> HIDE DEF E
  <2> QED  BY <2>1, <1>4, AddChildrenKeepsGraph DEF Inv
<1>6. UNCHANGED <<prog, must_have_exit, instructions, pass, frames, error>> /\ next' = next + 1
  BY DEF ConnectPlain
<1>7. TypeOK' /\ (Len(prog) < INT_MAX)'
  <2>1. /\ instructions \in [DOMAIN neighbours' -> NodeInst] /\ frames \in Seq(Frame)
        /\ error \in {"none"} \cup EdgeErrors \cup CallErrors
    BY <1>5 DEF Inv, TypeOK
  <2>2. next' \in 0..Len(prog)
    BY <1>1, <1>6
  <2> QED  BY <1>1, <1>5, <1>6, <2>1, <2>2, GraphStep
<1>8. FramesBounded'
  BY <1>5, <1>6 DEF Inv, FramesBounded
<1>9. PassInv'
  <2>1. \A l \in DOMAIN neighbours : l.from \in Int
    BY DEF Inv, TypeOK, Label
  <2> QED  BY <1>1, <1>5, <1>6, <2>1 DEF PassInv, Inv
<1>10. PlainInv'
  BY <1>5, <1>6, PlainKept DEF Inv
<1>11. \A i \in 1..Len(frames') : FrameOK(frames'[i], i, neighbours', instructions')
  BY <1>5, <1>6, FrameKept DEF Inv
<1>12. EdgesKept
  BY <1>5, <1>6 DEF EdgesKept
<1> QED  BY <1>5, <1>6, <1>7, <1>8, <1>9, <1>10, <1>11, <1>12 DEF Inv

LEMMA ConnectBranchStep ==
    ASSUME Inv, NEW pc \in PCs, ConnectBranch(pc)
    PROVE  Inv' /\ EdgesKept
<1> DEFINE new == JumpLabels(pc)
           E == BranchEdges(pc)
           g == insert(neighbours, new)
<1>1. /\ prog \in Seq(Inst) /\ Len(prog) \in Nat /\ Len(prog) < INT_MAX
      /\ pc \in Nat /\ pc < INT_MAX /\ pc + 1 <= Len(prog) /\ next = pc /\ pass = "connect"
  BY DEF Inv, TypeOK, PCs, ConnectBranch, Connecting, INT_MAX
<1>2. InstAt(pc).target \in Nat
  BY InstTyped DEF Inv, TypeOK
<1>3. \A t \in Targets(pc) : /\ t \in Label /\ t # EntryLabel /\ t.from \in Nat
                             /\ t.stack_frame_prefix = <<>>
  BY <1>1, <1>2, LabelFacts DEF Targets, Fallthrough, ExitLabel, INT_MAX
<1>4. \A l \in new : /\ l \in Label /\ l.stack_frame_prefix = <<>> /\ l.from = pc /\ l.to \in Nat
                     /\ l # EntryLabel /\ l # ExitLabel
  BY <1>1, <1>3, LabelFacts DEF JumpLabels, make_jump, MkLabel, Label, EntryLabel, ExitLabel, Plain
<1>5. \A l \in new : l \notin DOMAIN neighbours
  BY <1>1, <1>4 DEF Inv, PassInv
<1>6. \A e \in E : e[1] # ExitLabel /\ e[2] # EntryLabel
  <2>1. \A t \in Targets(pc) : make_jump(Plain(pc), t) \in new
    BY DEF JumpLabels
  <2> HIDE DEF new
  <2>2. E = {<<Plain(pc), j>> : j \in new} \cup {<<make_jump(Plain(pc), t), t>> : t \in Targets(pc)}
    BY DEF BranchEdges, new
  <2> HIDE DEF E
  <2> QED  BY <1>1, <1>3, <1>4, <2>1, <2>2, LabelFacts
<1>7. UNCHANGED <<prog, must_have_exit, pass, frames, error>> /\ next' = next + 1
  BY DEF ConnectBranch
<1>8. /\ GraphOK(neighbours')
      /\ DOMAIN neighbours' = DOMAIN neighbours \cup new
      /\ \A l \in DOMAIN neighbours : neighbours[l].children \subseteq neighbours'[l].children
  <2>1. neighbours' = add_children(g, E)
    BY DEF ConnectBranch
  <2>2. new \in SUBSET Label
    BY <1>4
  <2> HIDE DEF new
  <2>3. /\ GraphOK(g) /\ DOMAIN g = DOMAIN neighbours \cup new
        /\ \A l \in DOMAIN neighbours : g[l] = neighbours[l]
    BY <2>2, InsertKeepsGraph DEF Inv
  <2> HIDE DEF E, g
  <2> QED  BY <2>1, <2>3, <1>6, AddChildrenKeepsGraph
<1>9. /\ instructions' \in [DOMAIN neighbours' -> NodeInst]
      /\ \A l \in DOMAIN neighbours : instructions'[l] = instructions[l]
  <2>1. \A l \in new : Node("assume", 0, l.to = InstAt(pc).target) \in NodeInst
    BY DEF Node, NodeInst, Prefix
  <2>2. instructions' = [l \in DOMAIN instructions \cup new |->
                           IF l \in new THEN Node("assume", 0, l.to = InstAt(pc).target)
                           ELSE instructions[l]]
    BY DEF ConnectBranch
  <2>3. DOMAIN instructions = DOMAIN neighbours /\ instructions \in [DOMAIN neighbours -> NodeInst]
    BY DEF Inv, TypeOK
  <2> HIDE DEF new
  <2> QED  BY <1>5, <1>8, <2>1, <2>2, <2>3
<1> HIDE DEF new
<1>10. TypeOK' /\ (Len(prog) < INT_MAX)'
  <2>1. frames \in Seq(Frame) /\ error \in {"none"} \cup EdgeErrors \cup CallErrors
    BY DEF Inv, TypeOK
  <2>2. next' \in 0..Len(prog)
    BY <1>1, <1>7
  <2> QED  BY <1>1, <1>7, <1>8, <1>9, <2>1, <2>2, GraphStep
<1>11. FramesBounded'
  BY <1>4, <1>7, <1>8, MaxCallStackFramesAssumption DEF Inv, FramesBounded
<1>12. PassInv'
  <2>1. \A l \in DOMAIN neighbours : l.from \in Int
    BY DEF Inv, TypeOK, Label
  <2> QED  BY <1>1, <1>4, <1>7, <1>8, <2>1 DEF PassInv, Inv
<1>13. PlainInv'
  BY <1>7, <1>8, <1>9, PlainKept DEF Inv
<1>14. \A i \in 1..Len(frames') : FrameOK(frames'[i], i, neighbours', instructions')
  BY <1>7, <1>8, <1>9, FrameKept DEF Inv
<1>15. EdgesKept
  BY <1>8, <1>9 DEF EdgesKept
<1>16. instructions'[ExitLabel].op = "undef"
  BY <1>9 DEF Inv, GraphOK
<1> QED  BY <1>8, <1>10, <1>11, <1>12, <1>13, <1>14, <1>15, <1>16 DEF Inv

-----------------------------------------------------------------------------
(* The steps of add_cfg_nodes.                                             *)

(* The innermost activation.                                               *)
LEMMA TopFacts ==
    ASSUME Inv, frames # <<>>
    PROVE  /\ Len(frames) \in Nat \ {0} /\ frames \in Seq(Frame)
           /\ Top \in Frame /\ Top = frames[Len(frames)]
           /\ FrameOK(Top, Len(frames), neighbours, instructions)
           /\ Top.caller \in Label
           /\ TopPrefix \in Prefix /\ TopPrefix # <<>>
           /\ Len(TopPrefix) = Len(frames)
<1>1. frames \in Seq(Frame) /\ Len(frames) \in Nat \ {0}
  BY DEF Inv, TypeOK
<1>2. Top \in Frame /\ Top = frames[Len(frames)]
  BY <1>1 DEF Top
<1>3. FrameOK(Top, Len(frames), neighbours, instructions)
  BY <1>1, <1>2 DEF Inv
<1>4. Top.caller \in Label
  BY <1>2 DEF Frame
<1>5. /\ TopPrefix \in Prefix /\ TopPrefix # <<>>
      /\ Len(TopPrefix) = Len(Top.caller.stack_frame_prefix) + 1
  BY <1>4, FramePrefixFacts DEF TopPrefix
<1> QED  BY <1>1, <1>2, <1>3, <1>4, <1>5 DEF FrameOK

(* Replacing the innermost activation.                                     *)
LEMMA SetTopFacts ==
    ASSUME Inv, frames # <<>>, NEW f \in Frame
    PROVE  /\ SetTop(f) \in Seq(Frame) /\ Len(SetTop(f)) = Len(frames)
           /\ SetTop(f)[Len(frames)] = f
           /\ \A i \in 1..Len(frames) : i # Len(frames) => SetTop(f)[i] = frames[i]
  BY TopFacts DEF SetTop

(* Entering add_cfg_nodes for a call of the graph: the stack gains a frame *)
(* that fits, on a stack `below` that does.                                *)
LEMMA EnterMacroStep ==
    ASSUME Inv, pass = "macros",
           NEW caller \in DOMAIN neighbours, instructions[caller].op = "call",
           NEW pc \in Nat,
           NEW below \in Seq(Frame),
           Len(caller.stack_frame_prefix) = Len(below),
           Len(below) + 1 < MaxCallStackFrames,
           \A i \in 1..Len(below) : FrameOK(below[i], i, neighbours, instructions),
           EnterMacro(caller, pc, below),
           next' \in 0..Len(prog),
           UNCHANGED <<prog, must_have_exit, neighbours, pass, error>>
    PROVE  Inv' /\ EdgesKept
<1>0. caller \in Label
  BY DEF Inv, GraphOK
<1>1. PICK exit_to \in neighbours[caller].children :
        /\ frames' = Append(below,
                            [caller        |-> caller,
                             exit_to_label |-> exit_to,
                             macro_labels  |-> {Plain(pc)},
                             seen_labels   |-> {Plain(pc)},
                             first         |-> TRUE,
                             walking       |-> TRUE,
                             todo          |-> {}])
        /\ instructions' = [instructions EXCEPT ![caller].sfp = FramePrefix(caller)]
  BY DEF EnterMacro
<1> DEFINE f == [caller        |-> caller,
                 exit_to_label |-> exit_to,
                 macro_labels  |-> {Plain(pc)},
                 seen_labels   |-> {Plain(pc)},
                 first         |-> TRUE,
                 walking       |-> TRUE,
                 todo          |-> {}]
<1>2. exit_to \in DOMAIN neighbours /\ exit_to # EntryLabel
  BY DEF Inv, GraphOK, Mirror
<1>3. f \in Frame
  BY <1>0, <1>2, LabelFacts DEF Frame, Inv, GraphOK
<1>4. /\ instructions' \in [DOMAIN neighbours -> NodeInst]
      /\ \A l \in DOMAIN neighbours : /\ instructions'[l].op = instructions[l].op
                                      /\ instructions'[l].target = instructions[l].target
  <2>1. instructions \in [DOMAIN neighbours -> NodeInst]
    BY DEF Inv, TypeOK
  <2>2. FramePrefix(caller) \in Prefix
    BY <1>0, FramePrefixFacts
  <2>3. [instructions[caller] EXCEPT !.sfp = FramePrefix(caller)] \in NodeInst
    BY <2>1, <2>2 DEF NodeInst
  <2>4. /\ [instructions[caller] EXCEPT !.sfp = FramePrefix(caller)].op = instructions[caller].op
        /\ [instructions[caller] EXCEPT !.sfp = FramePrefix(caller)].target = instructions[caller].target
    BY <2>1 DEF NodeInst
  <2> QED  BY <1>1, <2>1, <2>3, <2>4
<1>5. /\ frames' \in Seq(Frame) /\ Len(frames') = Len(below) + 1
      /\ frames'[Len(below) + 1] = f
      /\ \A i \in 1..Len(below) : frames'[i] = below[i]
  BY <1>1, <1>3
<1>6. TypeOK' /\ (Len(prog) < INT_MAX)'
  <2>1. GraphOK(neighbours') /\ error \in {"none"} \cup EdgeErrors \cup CallErrors
    BY DEF Inv, TypeOK
  <2> QED  BY <1>4, <1>5, <2>1, GraphStep
<1>7. \A i \in 1..Len(frames') : FrameOK(frames'[i], i, neighbours', instructions')
  <2>1. \A i \in 1..Len(below) : FrameOK(below[i], i, neighbours, instructions')
    BY <1>4, FrameKept
  <2>2. FrameOK(f, Len(below) + 1, neighbours, instructions')
    BY <1>2, <1>4 DEF FrameOK
  <2> HIDE DEF f
  <2> QED  BY <1>5, <2>1, <2>2
<1>8. FramesBounded'
  BY <1>5, MaxCallStackFramesAssumption DEF Inv, FramesBounded
<1>9. PassInv' /\ PlainInv'
  BY <1>4, PlainKept DEF Inv, PassInv
<1>10. EdgesKept
  BY <1>4 DEF EdgesKept
<1>11. instructions'[ExitLabel].op = "undef"
  BY <1>4 DEF Inv, GraphOK
<1> QED  BY <1>6, <1>7, <1>8, <1>9, <1>10, <1>11 DEF Inv

LEMMA ReplaceMacroStep ==
    ASSUME Inv, ReplaceMacro
    PROVE  Inv' /\ EdgesKept
<1>1. /\ prog \in Seq(Inst) /\ next \in PCs /\ pass = "macros" /\ frames = <<>>
      /\ InstAt(next).op = "call"
      /\ EnterMacro(Plain(next), InstAt(next).target, <<>>)
      /\ next' = next + 1 /\ UNCHANGED <<prog, must_have_exit, neighbours, pass, error>>
  BY DEF ReplaceMacro, ReplacingMacros, Inv, TypeOK
<1>2. Plain(next) \in DOMAIN neighbours /\ instructions[Plain(next)].op = "call"
  BY <1>1 DEF Inv, PlainInv, DefinedPCs
<1>3. InstAt(next).target \in Nat
  BY <1>1, InstTyped
<1>4. /\ Len(Plain(next).stack_frame_prefix) = 0 /\ next' \in 0..Len(prog)
  BY <1>1, LabelFacts DEF PCs
<1> DEFINE below == <<>>
<1>5. below \in Seq(Frame) /\ Len(below) = 0
  OBVIOUS
<1>6. EnterMacro(Plain(next), InstAt(next).target, below)
  BY <1>1
<1> HIDE DEF below
<1>7. Len(below) + 1 < MaxCallStackFrames
  BY <1>5, MaxCallStackFramesAssumption
<1>8. \A i \in 1..Len(below) : FrameOK(below[i], i, neighbours, instructions)
  BY <1>5
<1> QED  BY <1>1, <1>2, <1>3, <1>4, <1>5, <1>6, <1>7, <1>8, EnterMacroStep

LEMMA ReplaceNestedMacroStep ==
    ASSUME Inv, frames # <<>>, NEW l \in Top.todo, ReplaceNestedMacro(l)
    PROVE  Inv' /\ EdgesKept
<1> DEFINE caller == Reprefix(l, TopPrefix)
           f == [Top EXCEPT !.todo = @ \ {l}]
           below == SetTop(f)
<1>1. /\ pass = "macros" /\ StackFrameDepth < MaxCallStackFrames
      /\ EnterMacro(caller, instructions[caller].target, below)
      /\ UNCHANGED <<prog, must_have_exit, neighbours, pass, next, error>>
  BY DEF ReplaceNestedMacro, Recursing
<1>2. /\ l \in Label /\ caller \in DOMAIN neighbours /\ instructions[caller].op = "call"
  BY TopFacts DEF FrameOK, Frame, TopPrefix
<1>3. instructions[caller].target \in Nat
  BY <1>2 DEF Inv, TypeOK, NodeInst
<1>4. caller.stack_frame_prefix = TopPrefix
  BY <1>2, TopFacts, ReprefixFacts
<1>5. f \in Frame
  BY TopFacts DEF Frame
<1>6. /\ below \in Seq(Frame) /\ Len(below) = Len(frames) /\ below[Len(frames)] = f
      /\ \A i \in 1..Len(frames) : i # Len(frames) => below[i] = frames[i]
  BY <1>5, SetTopFacts
<1>7. FrameOK(f, Len(frames), neighbours, instructions)
  BY TopFacts DEF FrameOK, Frame
<1>8. \A i \in 1..Len(below) : FrameOK(below[i], i, neighbours, instructions)
  <2> HIDE DEF f, below
  <2> QED  BY <1>6, <1>7 DEF Inv
<1>9. Len(caller.stack_frame_prefix) = Len(below) /\ Len(below) + 1 < MaxCallStackFrames
  BY <1>1, <1>4, <1>6, TopFacts DEF StackFrameDepth
<1>10. next' \in 0..Len(prog)
  BY <1>1 DEF Inv, TypeOK
<1> HIDE DEF caller, below, f
<1> QED  BY <1>1, <1>2, <1>3, <1>6, <1>8, <1>9, <1>10, EnterMacroStep

LEMMA CloneMacroLabelStep ==
    ASSUME Inv, frames # <<>>, NEW l \in Top.macro_labels, CloneMacroLabel(l)
    PROVE  Inv' /\ EdgesKept
<1> DEFINE label == Reprefix(l, TopPrefix)
           E == CloneEdges(l)
           g == insert(neighbours, {label})
           f == [Top EXCEPT !.macro_labels = (@ \ {l}) \cup Unseen(l),
                            !.seen_labels  = IF Unseen(l) = {} THEN @ ELSE @ \cup {l},
                            !.first        = FALSE]
<1>1. /\ pass = "macros" /\ l \in DOMAIN neighbours /\ label \notin DOMAIN neighbours
      /\ neighbours' = add_children(g, E)
      /\ frames' = SetTop(f)
      /\ UNCHANGED <<prog, must_have_exit, pass, next, error>>
  BY DEF CloneMacroLabel, Walking, Inv, TypeOK
<1>2. l \in Label
  BY TopFacts DEF Frame
<1>3. /\ label \in Label /\ label.stack_frame_prefix = TopPrefix
      /\ label # EntryLabel /\ label # ExitLabel
  BY <1>2, TopFacts, ReprefixFacts
<1>4. Top.caller # ExitLabel /\ Top.exit_to_label # EntryLabel
  BY TopFacts DEF FrameOK, Inv
<1>5. neighbours[l].parents \subseteq Label /\ neighbours[l].children \subseteq Label
  BY <1>1 DEF Inv, GraphOK, Mirror
<1>6. \A p \in neighbours[l].parents : Reprefix(p, TopPrefix) # ExitLabel
  BY <1>5, TopFacts, ReprefixFacts
<1>7. \A e \in E : e[1] # ExitLabel /\ e[2] # EntryLabel
  <2> HIDE DEF label
  <2>1. E = (IF Top.first THEN {<<Top.caller, label>>} ELSE {})
              \cup {<<p, label>> : p \in {Reprefix(p, TopPrefix) : p \in neighbours[l].parents}
                                           \cap (DOMAIN neighbours \cup {label})}
              \cup (IF ExitLabel \in neighbours[l].children
                    THEN {<<label, Top.exit_to_label>>} ELSE {})
    BY DEF CloneEdges, label
  <2> HIDE DEF E
  <2> QED  BY <1>3, <1>4, <1>6, <2>1
<1>8. \A e \in E : e[1] = l => e[2] = label
  <2> HIDE DEF label
  <2>1. E = (IF Top.first THEN {<<Top.caller, label>>} ELSE {})
              \cup {<<p, label>> : p \in {Reprefix(p, TopPrefix) : p \in neighbours[l].parents}
                                           \cap (DOMAIN neighbours \cup {label})}
              \cup (IF ExitLabel \in neighbours[l].children
                    THEN {<<label, Top.exit_to_label>>} ELSE {})
    BY DEF CloneEdges, label
  <2>2. l # label
    BY <1>1
  <2> HIDE DEF E
  <2> QED  BY <2>1, <2>2
<1>9. Unseen(l) \subseteq Label
  BY <1>3, <1>5, <1>8 DEF Unseen
<1>10. f \in Frame
  BY <1>2, <1>9, TopFacts DEF Frame
<1>11. /\ frames' \in Seq(Frame) /\ Len(frames') = Len(frames) /\ frames'[Len(frames)] = f
       /\ \A i \in 1..Len(frames) : i # Len(frames) => frames'[i] = frames[i]
  BY <1>1, <1>10, SetTopFacts
<1>12. /\ GraphOK(neighbours')
       /\ DOMAIN neighbours' = DOMAIN neighbours \cup {label}
       /\ \A m \in DOMAIN neighbours : neighbours[m].children \subseteq neighbours'[m].children
  <2>1. {label} \in SUBSET Label
    BY <1>3
  <2> HIDE DEF label
  <2>2. /\ GraphOK(g) /\ DOMAIN g = DOMAIN neighbours \cup {label}
        /\ \A m \in DOMAIN neighbours : g[m] = neighbours[m]
    BY <2>1, InsertKeepsGraph DEF Inv
  <2> HIDE DEF E, g
  <2> QED  BY <1>1, <1>7, <2>2, AddChildrenKeepsGraph
<1>13. /\ instructions' \in [DOMAIN neighbours' -> NodeInst]
       /\ \A m \in DOMAIN neighbours : instructions'[m] = instructions[m]
  <2>1. /\ instructions \in [DOMAIN neighbours -> NodeInst] /\ TopPrefix \in Prefix
    BY TopFacts DEF Inv, TypeOK
  <2>2. [instructions[l] EXCEPT !.sfp = IF instructions[l].op \in {"exit", "helper"} THEN TopPrefix ELSE @]
          \in NodeInst
    BY <1>1, <2>1 DEF NodeInst
  <2>3. instructions' = [m \in DOMAIN instructions \cup {label} |->
                           IF m = label
                           THEN [instructions[l] EXCEPT
                                   !.sfp = IF instructions[l].op \in {"exit", "helper"} THEN TopPrefix ELSE @]
                           ELSE instructions[m]]
    BY DEF CloneMacroLabel
  <2> HIDE DEF label
  <2> QED  BY <1>1, <1>12, <2>1, <2>2, <2>3
<1>14. TypeOK' /\ (Len(prog) < INT_MAX)'
  <2>1. next \in 0..Len(prog) /\ error \in {"none"} \cup EdgeErrors \cup CallErrors
    BY DEF Inv, TypeOK
  <2> QED  BY <1>1, <1>11, <1>12, <1>13, <2>1, GraphStep
<1>15. \A i \in 1..Len(frames') : FrameOK(frames'[i], i, neighbours', instructions')
  <2>1. \A i \in 1..Len(frames) : FrameOK(frames[i], i, neighbours', instructions')
    BY <1>12, <1>13, FrameKept DEF Inv
  <2>2. /\ f.caller = Top.caller /\ f.exit_to_label = Top.exit_to_label /\ f.todo = Top.todo
        /\ f.macro_labels = (Top.macro_labels \ {l}) \cup Unseen(l)
        /\ f.seen_labels \subseteq Top.seen_labels \cup {l}
    BY TopFacts DEF Frame
  <2>3. FrameOK(Top, Len(frames), neighbours', instructions')
    BY <2>1, TopFacts
  <2>4. Reprefix(l, FramePrefix(Top.caller)) \in DOMAIN neighbours'
    BY <1>12 DEF TopPrefix
  <2> HIDE DEF f
  <2>5. FrameOK(f, Len(frames), neighbours', instructions')
    BY <2>2, <2>3, <2>4 DEF FrameOK
  <2> QED  BY <1>11, <2>1, <2>5
<1>16. FramesBounded'
  BY <1>3, <1>11, <1>12, TopFacts, MaxCallStackFramesAssumption DEF Inv, FramesBounded
<1>17. PassInv' /\ PlainInv'
  BY <1>1, <1>12, <1>13, PlainKept DEF Inv, PassInv
<1>18. EdgesKept
  BY <1>12, <1>13 DEF EdgesKept
<1>19. instructions'[ExitLabel].op = "undef"
  BY <1>13 DEF Inv, GraphOK
<1> QED  BY <1>12, <1>14, <1>15, <1>16, <1>17, <1>18, <1>19 DEF Inv

LEMMA EndWalkStep ==
    ASSUME Inv, EndWalk
    PROVE  Inv' /\ EdgesKept
<1> DEFINE f == [Top EXCEPT
                   !.walking = FALSE,
                   !.todo = {l \in Top.seen_labels :
                               instructions[Reprefix(l, TopPrefix)].op = "call"}]
<1>1. /\ pass = "macros" /\ frames # <<>> /\ Top.macro_labels = {}
      /\ neighbours' = remove_child(neighbours, Top.caller, Top.exit_to_label)
      /\ frames' = SetTop(f)
      /\ UNCHANGED <<prog, must_have_exit, instructions, pass, next, error>>
  BY DEF EndWalk
<1>2. f \in Frame
  BY <1>1, TopFacts DEF Frame
<1>3. /\ frames' \in Seq(Frame) /\ Len(frames') = Len(frames) /\ frames'[Len(frames)] = f
      /\ \A i \in 1..Len(frames) : i # Len(frames) => frames'[i] = frames[i]
  BY <1>1, <1>2, SetTopFacts
<1>4. /\ GraphOK(neighbours')
      /\ DOMAIN neighbours' = DOMAIN neighbours
      /\ \A l \in DOMAIN neighbours \ {Top.caller} : neighbours'[l].children = neighbours[l].children
  BY <1>1, RemoveChildKeepsGraph DEF Inv
<1>5. TypeOK' /\ (Len(prog) < INT_MAX)'
  <2>1. /\ next \in 0..Len(prog) /\ error \in {"none"} \cup EdgeErrors \cup CallErrors
        /\ instructions \in [DOMAIN neighbours -> NodeInst]
    BY DEF Inv, TypeOK
  <2> QED  BY <1>1, <1>3, <1>4, <2>1, GraphStep
<1>6. \A i \in 1..Len(frames') : FrameOK(frames'[i], i, neighbours', instructions')
  <2>1. \A i \in 1..Len(frames) : FrameOK(frames[i], i, neighbours', instructions')
    BY <1>1, <1>4, FrameKept DEF Inv
  <2>2. /\ f.caller = Top.caller /\ f.exit_to_label = Top.exit_to_label
        /\ f.seen_labels = Top.seen_labels /\ f.macro_labels = {}
        /\ f.todo = {l \in Top.seen_labels :
                       instructions[Reprefix(l, FramePrefix(Top.caller))].op = "call"}
    BY <1>1, TopFacts DEF Frame, TopPrefix
  <2>3. FrameOK(Top, Len(frames), neighbours', instructions')
    BY <1>1, <2>1, TopFacts
  <2>4. \A l \in Top.seen_labels : Reprefix(l, FramePrefix(Top.caller)) \in DOMAIN neighbours'
    BY <1>1, <2>3 DEF FrameOK
  <2> HIDE DEF f
  <2>5. FrameOK(f, Len(frames), neighbours', instructions')
    BY <1>1, <2>2, <2>3, <2>4 DEF FrameOK
  <2> QED  BY <1>3, <2>1, <2>5
<1>7. FramesBounded'
  BY <1>3, <1>4 DEF Inv, FramesBounded
<1>8. PassInv' /\ PlainInv'
  BY <1>1, <1>4, PlainKept DEF Inv, PassInv
<1>9. EdgesKept
  <2>1. instructions[Top.caller].op = "call"
    BY <1>1, TopFacts DEF FrameOK
  <2> QED  BY <1>1, <1>4, <2>1 DEF EdgesKept
<1>10. instructions'[ExitLabel].op = "undef"
  BY <1>1 DEF Inv
<1> QED  BY <1>4, <1>5, <1>6, <1>7, <1>8, <1>9, <1>10 DEF Inv

LEMMA ReturnFromMacroStep ==
    ASSUME Inv, ReturnFromMacro
    PROVE  Inv' /\ EdgesKept
<1>1. /\ pass = "macros" /\ frames # <<>>
      /\ frames' = SubSeq(frames, 1, Len(frames) - 1)
      /\ UNCHANGED <<prog, must_have_exit, neighbours, instructions, pass, next, error>>
  BY DEF ReturnFromMacro
<1>2. /\ frames' \in Seq(Frame) /\ Len(frames') = Len(frames) - 1
      /\ \A i \in 1..Len(frames') : frames'[i] = frames[i]
  BY <1>1, TopFacts, SubSeqProperties
<1>3. Len(frames) \in Nat \ {0}
  BY <1>1, TopFacts
<1>4. TypeOK' /\ (Len(prog) < INT_MAX)'
  BY <1>1, <1>2 DEF Inv, TypeOK
<1>5. \A i \in 1..Len(frames') : FrameOK(frames'[i], i, neighbours', instructions')
  BY <1>1, <1>2, <1>3 DEF Inv
<1>6. FramesBounded'
  BY <1>1, <1>2, <1>3, MaxCallStackFramesAssumption DEF Inv, FramesBounded
<1>7. PassInv' /\ PlainInv'
  BY <1>1, PlainKept DEF Inv, PassInv
<1>8. EdgesKept
  BY <1>1 DEF EdgesKept
<1> QED  BY <1>1, <1>4, <1>5, <1>6, <1>7, <1>8 DEF Inv

-----------------------------------------------------------------------------

LEMMA InitInv == Init => Inv
<1> SUFFICES ASSUME Init PROVE Inv
  OBVIOUS
<1>1. /\ DOMAIN neighbours = {EntryLabel, ExitLabel}
      /\ neighbours[EntryLabel] = EmptyNode /\ neighbours[ExitLabel] = EmptyNode
      /\ neighbours = [l \in {EntryLabel, ExitLabel} |-> EmptyNode]
  BY DEF Init
<1>2. EmptyNode \in GraphNode /\ EmptyNode.parents = {} /\ EmptyNode.children = {}
  BY DEF EmptyNode, GraphNode
<1>3. neighbours \in [DOMAIN neighbours -> GraphNode]
  BY <1>1, <1>2
<1>4. Mirror(neighbours)
  BY <1>1, <1>2 DEF Mirror
<1>5. GraphOK(neighbours)
  BY <1>1, <1>3, <1>4, LabelFacts DEF GraphOK
<1>6. /\ instructions = [l \in {EntryLabel, ExitLabel} |-> Node("undef", 0, FALSE)]
      /\ Node("undef", 0, FALSE) \in NodeInst /\ Node("undef", 0, FALSE).op = "undef"
  BY DEF Init, Node, NodeInst, Prefix, Ops
<1>7. prog \in Seq(Inst) /\ Len(prog) < INT_MAX /\ Len(prog) \in Nat
  BY ProgramsAssumption DEF Init
<1>8. TypeOK
  <2>1. instructions \in [DOMAIN neighbours -> NodeInst]
    <3> DEFINE u == Node("undef", 0, FALSE)
    <3> HIDE DEF u
    <3> QED  BY <1>1, <1>6 DEF u
  <2>2. /\ pass = "insert" /\ next \in 0..Len(prog) /\ frames \in Seq(Frame) /\ error = "none"
    BY <1>7 DEF Init
  <2>3. must_have_exit \in BOOLEAN
    BY DEF Init
  <2> QED  BY <1>3, <1>5, <1>7, <2>1, <2>2, <2>3 DEF TypeOK, GraphOK, GraphNode
<1>9. FramesBounded
  <2>1. \A l \in DOMAIN neighbours : l.stack_frame_prefix = <<>>
    BY <1>1, LabelFacts DEF EntryLabel, ExitLabel, INT_MAX
  <2> QED  BY <2>1, MaxCallStackFramesAssumption DEF FramesBounded, Init
<1>10. PassInv /\ PlainInv
  BY <1>1 DEF PassInv, PlainInv, Init
<1>11. \A i \in 1..Len(frames) : FrameOK(frames[i], i, neighbours, instructions)
  BY DEF Init
<1> QED  BY <1>5, <1>6, <1>7, <1>8, <1>9, <1>10, <1>11 DEF Inv

LEMMA NextStep ==
    ASSUME Inv, [Next]_vars
    PROVE  Inv' /\ (EdgesKept \/ UNCHANGED vars)
<1>1. CASE FirstPass
  <2>1. CASE InsertFails
    BY <2>1, FailStep DEF InsertFails, EdgeErrors
  <2>2. CASE InsertInstructions
    BY <2>2, InsertStep
  <2>3. ASSUME NEW pc \in PCs, ConnectFails(pc) PROVE Inv' /\ EdgesKept
    BY <2>3, FailStep DEF ConnectFails, EdgeErrors
  <2>4. ASSUME NEW pc \in PCs, ConnectPlain(pc) PROVE Inv' /\ EdgesKept
    BY <2>4, ConnectPlainStep
  <2>5. ASSUME NEW pc \in PCs, ConnectBranch(pc) PROVE Inv' /\ EdgesKept
    BY <2>5, ConnectBranchStep
  <2>6. ASSUME NEW pc \in PCs, SkipUndefined(pc) PROVE Inv' /\ EdgesKept
    <3>1. /\ pass = "connect" /\ pass' = "connect" /\ next' = next + 1 /\ next = pc
          /\ UNCHANGED <<prog, must_have_exit, neighbours, instructions, frames, error>>
      BY <2>6 DEF SkipUndefined, Connecting
    <3>2. Len(prog) \in Nat
      BY DEF Inv, TypeOK
    <3>3. next' \in 0..Len(prog) /\ next' >= next
      BY <3>1, <3>2 DEF PCs
    <3> QED  BY <3>1, <3>3, LoopStep
  <2>7. CASE StartSecondPass
    <3>1. Len(prog) \in Nat
      BY DEF Inv, TypeOK
    <3>2. /\ pass = "connect" /\ pass' = "macros" /\ next' = 0
          /\ UNCHANGED <<prog, must_have_exit, neighbours, instructions, frames, error>>
      BY <2>7 DEF StartSecondPass
    <3> QED  BY <3>1, <3>2, LoopStep
  <2> QED  BY <1>1, <2>1, <2>2, <2>3, <2>4, <2>5, <2>6, <2>7 DEF FirstPass
<1>2. CASE SecondPass
  <2>1. CASE SkipInstruction
    <3>1. /\ pass = "macros" /\ pass' = "macros" /\ next' = next + 1 /\ next \in PCs
          /\ UNCHANGED <<prog, must_have_exit, neighbours, instructions, frames, error>>
      BY <2>1 DEF SkipInstruction, ReplacingMacros
    <3>2. Len(prog) \in Nat
      BY DEF Inv, TypeOK
    <3>3. next' \in 0..Len(prog)
      BY <3>1, <3>2 DEF PCs
    <3> QED  BY <3>1, <3>3, LoopStep
  <2>2. CASE ReplaceMacro
    BY <2>2, ReplaceMacroStep
  <2>3. ASSUME frames # <<>>, NEW l \in Top.macro_labels, CloneFails(l) PROVE Inv' /\ EdgesKept
    BY <2>3, FailStep DEF CloneFails, CallErrors
  <2>4. ASSUME frames # <<>>, NEW l \in Top.macro_labels, CloneMacroLabel(l)
        PROVE  Inv' /\ EdgesKept
    BY <2>4, CloneMacroLabelStep
  <2>5. CASE EndWalk
    BY <2>5, EndWalkStep
  <2>6. ASSUME frames # <<>>, NEW l \in Top.todo, TooManyFrames(l) PROVE Inv' /\ EdgesKept
    BY <2>6, FailStep DEF TooManyFrames, CallErrors
  <2>7. ASSUME frames # <<>>, NEW l \in Top.todo, ReplaceNestedMacro(l) PROVE Inv' /\ EdgesKept
    BY <2>7, ReplaceNestedMacroStep
  <2>8. CASE ReturnFromMacro
    BY <2>8, ReturnFromMacroStep
  <2>9. CASE Finish
    <3>1. /\ pass = "macros" /\ pass' = "done" /\ next' = next
          /\ UNCHANGED <<prog, must_have_exit, neighbours, instructions, frames, error>>
      BY <2>9 DEF Finish, ReplacingMacros
    <3>2. next' \in 0..Len(prog)
      BY <3>1 DEF Inv, TypeOK
    <3> QED  BY <3>1, <3>2, LoopStep
  <2> QED  BY <1>2, <2>1, <2>2, <2>3, <2>4, <2>5, <2>6, <2>7, <2>8, <2>9 DEF SecondPass, WalkMacro
<1>3. CASE UNCHANGED vars
  <2>1. UNCHANGED <<prog, must_have_exit, neighbours, instructions, pass, next, frames, error>>
    BY <1>3 DEF vars
  <2>2. TypeOK' /\ (Len(prog) < INT_MAX)' /\ FramesBounded'
    BY <2>1 DEF Inv, TypeOK, FramesBounded
  <2>3. PassInv' /\ PlainInv'
    BY <2>1 DEF Inv, PassInv, PlainInv, DefinedPCs, PCs, InstAt
  <2>4. \A i \in 1..Len(frames') : FrameOK(frames'[i], i, neighbours', instructions')
    BY <2>1 DEF Inv
  <2> QED  BY <1>3, <2>1, <2>2, <2>3, <2>4 DEF Inv
<1> QED  BY <1>1, <1>2, <1>3 DEF Next, Terminating

(* The inductive invariant holds of every state the builder reaches.       *)
THEOREM Invariance == Spec => []Inv
<1>1. Inv /\ [Next]_vars => Inv'
  BY NextStep
<1> QED  BY InitInv, <1>1, PTL DEF Spec

(* The maps of cfg_t and the frames of add_cfg_nodes always have their     *)
(* types.                                                                  *)
THEOREM TypeCorrect == Spec => []TypeOK
<1>1. Inv => TypeOK
  BY DEF Inv
<1> QED  BY Invariance, <1>1, PTL

(* In every graph the builder goes through, for every program, parents and *)
(* children are the same edges, none into the entry and none out of the    *)
(* exit: add_child, insert_jump, cloning and remove_child keep the two     *)
(* maps together.                                                          *)
THEOREM GraphMirrored == Spec => []AdjacencyMirror
<1>1. Inv => AdjacencyMirror
  BY DEF Inv, GraphOK, AdjacencyMirror
<1> QED  BY Invariance, <1>1, PTL

(* Whatever the program, recursive or not, no block is inlined deeper than *)
(* MAX_CALL_STACK_FRAMES frames.                                           *)
THEOREM CallDepthBounded == Spec => []FramesBounded
<1>1. Inv => FramesBounded
  BY DEF Inv
<1> QED  BY Invariance, <1>1, PTL

(* No step of the builder takes an edge away from an instruction other     *)
(* than a call, or changes what an instruction is.                         *)
THEOREM EdgesOnlyReplacedAtCalls == Spec => EdgesStay
<1>1. Inv /\ [Next]_vars => [EdgesKept]_vars
  BY NextStep DEF vars
<1> QED  BY Invariance, <1>1, PTL DEF Spec, EdgesStay

-----------------------------------------------------------------------------
(* The graph of a program whose functions only go forward.                 *)

(* The pcs of the program of p.                                            *)
PCsOf(p) == 0..(Len(p) - 1)

(* Calls go forward, and so do the jumps from the callee of a call on.     *)
FunctionsForward(p) ==
    \A pc \in PCsOf(p) :
        p[pc + 1].op = "call" =>
            /\ p[pc + 1].target \in (pc + 1)..(Len(p) - 1)
            /\ \A q \in p[pc + 1].target..(Len(p) - 1) :
                 p[q + 1].op \in {"jcc", "ja"} => p[q + 1].target \in (q + 1)..(Len(p) - 1)

IsCall(l) == l.from \in PCs /\ l.to = -1 /\ InstAt(l.from).op = "call"

Callee(l) == InstAt(l.from).target

(* The successors of a label, where a call is stepped over.                *)
StepOver(l) ==
    IF IsCall(l) THEN {FallTo(l.stack_frame_prefix, l.from)} ELSE Successors(l)

(* The clone of the first instruction of the callee.                       *)
FirstClone(l) == At(FramePrefix(l), Callee(l))

Expanded(l) == IsCall(l) /\ FirstClone(l) \in DOMAIN neighbours

(* An activation is in its loop over macro_labels.                         *)
Active == pass = "macros" /\ frames # <<>> /\ Top.walking

(* The children a label has: of the labels it leads to those that are      *)
(* cloned by now, of an expanded call the first clone, and as long as the  *)
(* clones are being made also the label past the call.                     *)
Edges(l) ==
    IF Expanded(l)
    THEN {FirstClone(l)} \cup (IF Active /\ l = Top.caller THEN StepOver(l) ELSE {})
    ELSE StepOver(l) \cap DOMAIN neighbours

Inner == DOMAIN neighbours \ {EntryLabel, ExitLabel}

(* What may be inserted for an instruction.                                *)
Proper(l) ==
    /\ l.from \in PCs
    /\ InstAt(l.from).op # "undef"
    /\ l.to = -1 \/ (Branches(l.from) /\ Reprefix(l, <<>>) \in JumpLabels(l.from))

LabelRight(l) ==
    /\ Proper(l)
    /\ Carries(l)
    /\ Reprefix(l, <<>>) \in DOMAIN neighbours
    /\ instructions[l].op \in {"exit", "helper"} => instructions[l].sfp = l.stack_frame_prefix

CallerOf(prefix) == At(SubSeq(prefix, 1, Len(prefix) - 1), prefix[Len(prefix)])

(* A clone is from the callee of a call that has been expanded.            *)
CloneRight(l) ==
    l.stack_frame_prefix # <<>> =>
        /\ l.stack_frame_prefix[1] < next
        /\ CallerOf(l.stack_frame_prefix) \in DOMAIN neighbours
        /\ IsCall(CallerOf(l.stack_frame_prefix))
        /\ l.from >= Callee(CallerOf(l.stack_frame_prefix))

LabelsRight == \A l \in Inner : LabelRight(l) /\ CloneRight(l)

(* Two labels of one prefix, in the order of LabelLess.                    *)
Before(a, b) == a.from < b.from \/ (a.from = b.from /\ a.to < b.to)

(* z, a label that l leads to, as the clone of l with this prefix does.    *)
Move(z, prefix) == IF z = ExitLabel THEN Leave(prefix) ELSE Reprefix(z, prefix)

-----------------------------------------------------------------------------
(* Labels are equal when their parts are.                                  *)
LEMMA LabelParts ==
    /\ \A p, f, t : /\ MkLabel(p, f, t).stack_frame_prefix = p
                    /\ MkLabel(p, f, t).from = f
                    /\ MkLabel(p, f, t).to = t
    /\ \A l, p : /\ Reprefix(l, p).stack_frame_prefix = p
                 /\ Reprefix(l, p).from = l.from
                 /\ Reprefix(l, p).to = l.to
    /\ \A l \in Label : l = MkLabel(l.stack_frame_prefix, l.from, l.to)
    /\ \A l \in Label : Reprefix(l, l.stack_frame_prefix) = l
    /\ \A l, p, q : Reprefix(Reprefix(l, p), q) = Reprefix(l, q)
    /\ \A p, q, f, t : Reprefix(MkLabel(p, f, t), q) = MkLabel(q, f, t)
BY DEF MkLabel, Reprefix, Label

LEMMA EntryExitParts ==
    /\ EntryLabel.stack_frame_prefix = <<>> /\ EntryLabel.from = -1 /\ EntryLabel.to = -1
    /\ ExitLabel.stack_frame_prefix = <<>> /\ ExitLabel.from = INT_MAX /\ ExitLabel.to = -1
BY DEF EntryLabel, ExitLabel, Plain, MkLabel

(* The pcs of a program are neither that of the entry nor of the exit.     *)
LEMMA PcFacts ==
    ASSUME prog \in Seq(Inst), Len(prog) < INT_MAX
    PROVE  /\ Len(prog) \in Nat /\ INT_MAX \in Nat
           /\ \A pc \in PCs : pc \in Nat /\ pc < INT_MAX /\ pc # -1 /\ pc # INT_MAX /\ pc < Len(prog)
           /\ \A pc \in Nat : pc < Len(prog) <=> pc \in PCs
BY DEF PCs, INT_MAX

(* Where a label leads to.                                                 *)
LEMMA StepOverCases ==
    ASSUME prog \in Seq(Inst), Len(prog) < INT_MAX,
           NEW prefix, NEW pc \in PCs, NEW to
    PROVE  LET l == MkLabel(prefix, pc, to) IN
           /\ to # -1 => StepOver(l) = {IF to = INT_MAX THEN Leave(prefix) ELSE At(prefix, to)}
           /\ to = -1 =>
                CASE InstAt(pc).op = "exit" -> StepOver(l) = {Leave(prefix)}
                  [] InstAt(pc).op = "ja" -> StepOver(l) = {At(prefix, InstAt(pc).target)}
                  [] Branches(pc) ->
                       StepOver(l) = {MkLabel(prefix, pc, t.from) : t \in Targets(pc)}
                  [] OTHER -> StepOver(l) = {FallTo(prefix, pc)}
<1> DEFINE l == MkLabel(prefix, pc, to)
<1>1. l.stack_frame_prefix = prefix /\ l.from = pc /\ l.to = to
  BY LabelParts
<1>2. l # EntryLabel /\ l # ExitLabel
  BY <1>1, PcFacts, EntryExitParts
<1> HIDE DEF l
<1>3. CASE to # -1
  <2>1. ~ IsCall(l) /\ IsJump(l)
    BY <1>1, <1>3 DEF IsCall, IsJump
  <2>2. StepOver(l) = Successors(l)
    BY <2>1 DEF StepOver
  <2>3. QED
    BY <1>1, <1>2, <1>3, <2>1, <2>2 DEF Successors, l
<1>4. CASE to = -1
  <2>1. ~ IsJump(l)
    BY <1>1, <1>4 DEF IsJump
  <2>2. CASE InstAt(pc).op = "call"
    <3>1. StepOver(l) = {FallTo(prefix, pc)} /\ ~ Branches(pc)
      BY <1>1, <1>4, <2>2 DEF StepOver, IsCall, Branches
    <3>2. QED
      BY <1>4, <2>2, <3>1 DEF l
  <2>3. CASE InstAt(pc).op # "call"
    <3>1. StepOver(l) = Successors(l)
      BY <1>1, <2>3 DEF StepOver, IsCall
    <3>2. CASE InstAt(pc).op = "exit"
      <4>1. Successors(l) = {Leave(prefix)}
        BY <1>1, <1>2, <2>1, <3>2 DEF Successors
      <4>2. QED
        BY <1>4, <3>1, <3>2, <4>1 DEF l, Branches
    <3>3. CASE InstAt(pc).op = "ja"
      <4>1. Successors(l) = {At(prefix, InstAt(pc).target)}
        BY <1>1, <1>2, <2>1, <3>3 DEF Successors
      <4>2. QED
        BY <1>4, <3>1, <3>3, <4>1 DEF l, Branches
    <3>4. CASE Branches(pc)
      <4>1. InstAt(pc).op = "jcc"
        BY <3>4 DEF Branches
      <4>2. Successors(l) = {MkLabel(prefix, pc, t.from) : t \in Targets(pc)}
        BY <1>1, <1>2, <2>1, <3>4, <4>1 DEF Successors
      <4>3. QED
        BY <1>4, <3>1, <3>4, <4>1, <4>2 DEF l
    <3>5. CASE InstAt(pc).op # "exit" /\ InstAt(pc).op # "ja" /\ ~ Branches(pc)
      <4>1. Successors(l) = {FallTo(prefix, pc)}
        BY <1>1, <1>2, <2>1, <2>3, <3>5 DEF Successors
      <4>2. QED
        BY <1>4, <3>1, <3>5, <4>1 DEF l
    <3>6. QED
      BY <3>2, <3>3, <3>4, <3>5
  <2>4. QED
    BY <2>2, <2>3
<1>5. QED
  BY <1>3, <1>4

(* Where the label of a jump leads to.                                     *)
LEMMA JumpLeads ==
    ASSUME prog \in Seq(Inst), Len(prog) < INT_MAX,
           NEW prefix, NEW pc \in PCs, NEW to, to # -1
    PROVE  StepOver(MkLabel(prefix, pc, to)) = {IF to = INT_MAX THEN Leave(prefix) ELSE At(prefix, to)}
<1> DEFINE l == MkLabel(prefix, pc, to)
           y == IF to = INT_MAX THEN Leave(prefix) ELSE At(prefix, to)
<1>1. to # -1 => StepOver(l) = {y}
  <2> HIDE DEF y
  <2>1. QED
    BY StepOverCases DEF y
<1>2. QED
  BY <1>1

(* In a function jumps go forward, to an instruction.                      *)
LEMMA FunctionForward ==
    ASSUME prog \in Seq(Inst), Len(prog) < INT_MAX, FunctionsForward(prog),
           NEW c \in PCs, InstAt(c).op = "call"
    PROVE  /\ InstAt(c).target \in PCs /\ InstAt(c).target > c /\ c + 1 \in PCs
           /\ \A pc \in PCs : pc >= InstAt(c).target /\ InstAt(pc).op \in {"jcc", "ja"} =>
                InstAt(pc).target \in PCs /\ InstAt(pc).target > pc
<1>1. Len(prog) \in Nat
  OBVIOUS
<1>2. /\ prog[c + 1].target \in (c + 1)..(Len(prog) - 1)
      /\ \A q \in prog[c + 1].target..(Len(prog) - 1) :
           prog[q + 1].op \in {"jcc", "ja"} => prog[q + 1].target \in (q + 1)..(Len(prog) - 1)
  BY DEF FunctionsForward, PCsOf, PCs, InstAt
<1>3. QED
  BY <1>1, <1>2 DEF PCs, InstAt

LEMMA LeaveMain == Leave(<<>>) = ExitLabel
BY DEF Leave

(* A clone leads to where its label leads to, in its own frame.            *)
LEMMA StepOverMoves ==
    ASSUME prog \in Seq(Inst), Len(prog) < INT_MAX, FunctionsForward(prog),
           NEW c \in PCs, InstAt(c).op = "call",
           NEW l \in Label, l.stack_frame_prefix = <<>>, Proper(l), l.from >= InstAt(c).target,
           NEW prefix \in Prefix, prefix # <<>>
    PROVE  /\ StepOver(Reprefix(l, prefix)) = {Move(z, prefix) : z \in StepOver(l)}
           /\ \A z \in StepOver(l) :
                z = ExitLabel \/ (z \in Label /\ z.stack_frame_prefix = <<>> /\ z.from \in Nat /\ Before(l, z))
<1> DEFINE pc == l.from
           to == l.to
           Goal == /\ StepOver(Reprefix(l, prefix)) = {Move(z, prefix) : z \in StepOver(l)}
                   /\ \A z \in StepOver(l) :
                        \/ z = ExitLabel
                        \/ z \in Label /\ z.stack_frame_prefix = <<>> /\ z.from \in Nat /\ Before(l, z)
<1>1. /\ pc \in PCs /\ pc \in Nat /\ pc < Len(prog) /\ Len(prog) < INT_MAX /\ INT_MAX \in Nat /\ Len(prog) \in Nat
      /\ \A q \in PCs : q \in Nat /\ q # INT_MAX
  BY PcFacts DEF Proper
<1>2. l = MkLabel(<<>>, pc, to) /\ Reprefix(l, prefix) = MkLabel(prefix, pc, to)
  BY LabelParts DEF Reprefix
<1>0. pc \in PCs
  BY <1>1
<1>3. \A q \in Nat : /\ At(<<>>, q) \in Label /\ At(<<>>, q).stack_frame_prefix = <<>>
                     /\ At(<<>>, q).from = q /\ At(<<>>, q).to = -1
                     /\ (q # INT_MAX => At(<<>>, q) # ExitLabel)
                     /\ Reprefix(At(<<>>, q), prefix) = At(prefix, q)
  BY LabelParts, EntryExitParts DEF At, MkLabel, Label, Prefix
<1>4. \A q \in PCs : Move(At(<<>>, q), prefix) = At(prefix, q)
  BY <1>1, <1>3 DEF Move
<1>5. Move(ExitLabel, prefix) = Leave(prefix)
  BY DEF Move
<1>6. InstAt(pc).op \in {"jcc", "ja"} => InstAt(pc).target \in PCs /\ InstAt(pc).target > pc
  BY <1>1, FunctionForward
<1>7. ASSUME NEW y, StepOver(l) = {y}, StepOver(Reprefix(l, prefix)) = {Move(y, prefix)},
             y = ExitLabel \/ (\E q \in PCs : y = At(<<>>, q) /\ q > pc)
      PROVE  Goal
  <2>1. {Move(y, prefix)} = {Move(z, prefix) : z \in StepOver(l)}
    BY <1>7
  <2>2. y = ExitLabel \/ (y \in Label /\ y.stack_frame_prefix = <<>> /\ y.from \in Nat /\ Before(l, y))
    BY <1>1, <1>3, <1>7 DEF Before
  <2>3. QED
    BY <1>7, <2>1, <2>2
<1>8. CASE to # -1
  <2>1. Branches(pc) /\ l \in JumpLabels(pc)
    BY <1>2, <1>8, LabelParts DEF Proper
  <2>2. PICK t \in Targets(pc) : l = make_jump(Plain(pc), t)
    BY <2>1 DEF JumpLabels
  <2>3. to = t.from
    BY <2>2, LabelParts DEF make_jump
  <2>4. to = INT_MAX \/ (to \in PCs /\ to > pc)
    <3>1. InstAt(pc).target \in PCs /\ InstAt(pc).target > pc
      BY <1>6, <2>1 DEF Branches
    <3>2. t = Plain(InstAt(pc).target) \/ t = ExitLabel \/ (t = Plain(pc + 1) /\ pc + 1 \in PCs)
      BY <1>1, PcFacts, <2>2 DEF Targets, Fallthrough, IsLast
    <3>3. QED
      BY <1>1, <2>3, <3>1, <3>2, LabelParts, EntryExitParts DEF Plain
  <2>5. DEFINE y == IF to = INT_MAX THEN ExitLabel ELSE At(<<>>, to)
  <2>6. StepOver(l) = {y}
    <3>1. StepOver(MkLabel(<<>>, pc, to)) = {IF to = INT_MAX THEN Leave(<<>>) ELSE At(<<>>, to)}
      BY <1>0, <1>8, JumpLeads
    <3>2. QED
      BY <1>2, <3>1, LeaveMain
  <2>7. StepOver(Reprefix(l, prefix)) = {Move(y, prefix)}
    <3>1. StepOver(Reprefix(l, prefix)) = {IF to = INT_MAX THEN Leave(prefix) ELSE At(prefix, to)}
      <4>1. StepOver(MkLabel(prefix, pc, to)) = {IF to = INT_MAX THEN Leave(prefix) ELSE At(prefix, to)}
        BY <1>0, <1>8, JumpLeads
      <4>2. QED
        BY <1>2, <4>1
    <3>2. Move(y, prefix) = IF to = INT_MAX THEN Leave(prefix) ELSE At(prefix, to)
      BY <1>4, <1>5, <2>4
    <3>3. QED
      BY <3>1, <3>2
  <2>8. QED
    BY <1>7, <2>4, <2>6, <2>7
<1>9. CASE to = -1
  <2>0. DEFINE S(p) == StepOver(MkLabel(p, pc, to))
  <2>1. /\ InstAt(pc).op = "exit" => \A p : S(p) = {Leave(p)}
        /\ InstAt(pc).op = "ja" => \A p : S(p) = {At(p, InstAt(pc).target)}
        /\ Branches(pc) => \A p : S(p) = {MkLabel(p, pc, t.from) : t \in Targets(pc)}
        /\ InstAt(pc).op # "exit" /\ InstAt(pc).op # "ja" /\ ~ Branches(pc) =>
             \A p : S(p) = {FallTo(p, pc)}
    <3>1. Branches(pc) => InstAt(pc).op = "jcc"
      BY DEF Branches
    <3>2. QED
      BY <1>0, <1>9, <3>1, StepOverCases
  <2>2. StepOver(l) = S(<<>>) /\ StepOver(Reprefix(l, prefix)) = S(prefix)
    BY <1>2
  <2> HIDE DEF S
  <2>3. CASE InstAt(pc).op = "exit"
    <3>1. S(<<>>) = {ExitLabel} /\ S(prefix) = {Leave(prefix)}
      BY <2>1, <2>3, LeaveMain
    <3>2. QED
      BY <1>5, <1>7, <2>2, <3>1
  <2>4. CASE InstAt(pc).op = "ja"
    <3>1. S(<<>>) = {At(<<>>, InstAt(pc).target)} /\ S(prefix) = {At(prefix, InstAt(pc).target)}
      BY <2>1, <2>4
    <3>2. QED
      BY <1>4, <1>6, <1>7, <2>2, <2>4, <3>1
  <2>5. CASE Branches(pc)
    <3>1. InstAt(pc).op = "jcc"
      BY <2>5 DEF Branches
    <3>2. S(<<>>) = {MkLabel(<<>>, pc, t.from) : t \in Targets(pc)}
          /\ S(prefix) = {MkLabel(prefix, pc, t.from) : t \in Targets(pc)}
      BY <2>1, <2>5, <3>1
    <3>3. \A t \in Targets(pc) : t.from \in Nat
      BY <1>1, <1>6, <3>1, PcFacts, LabelParts, EntryExitParts DEF Targets, Fallthrough, Plain
    <3>4. \A t \in Targets(pc) : /\ MkLabel(<<>>, pc, t.from) \in Label
                                 /\ MkLabel(<<>>, pc, t.from) # ExitLabel
                                 /\ Before(l, MkLabel(<<>>, pc, t.from))
      BY <1>1, <1>9, <3>3, LabelParts, EntryExitParts DEF Before, MkLabel, Label, Prefix
    <3>5. \A t \in Targets(pc) : Move(MkLabel(<<>>, pc, t.from), prefix) = MkLabel(prefix, pc, t.from)
      BY <3>4, LabelParts DEF Move
    <3>6. {Move(z, prefix) : z \in S(<<>>)} = S(prefix)
      BY <3>2, <3>5
    <3>7. \A z \in S(<<>>) : \/ z = ExitLabel
                             \/ z \in Label /\ z.stack_frame_prefix = <<>> /\ z.from \in Nat /\ Before(l, z)
      <4> TAKE z \in S(<<>>)
      <4>1. PICK t \in Targets(pc) : z = MkLabel(<<>>, pc, t.from)
        BY <3>2
      <4>2. z \in Label /\ Before(l, z)
        BY <3>4, <4>1
      <4>3. z.stack_frame_prefix = <<>> /\ z.from = pc
        BY <4>1, LabelParts
      <4>4. QED
        BY <1>1, <4>2, <4>3
    <3>8. QED
      BY <2>2, <3>6, <3>7
  <2>6. CASE InstAt(pc).op # "exit" /\ InstAt(pc).op # "ja" /\ ~ Branches(pc)
    <3>1. S(<<>>) = {FallTo(<<>>, pc)} /\ S(prefix) = {FallTo(prefix, pc)}
      BY <2>1, <2>6
    <3>2. CASE IsLast(pc)
      BY <1>5, <1>7, <2>2, <3>1, <3>2, LeaveMain DEF FallTo
    <3>3. CASE ~ IsLast(pc)
      <4>1. pc + 1 \in PCs
        BY <1>1, <3>3, PcFacts DEF IsLast
      <4>2. QED
        BY <1>1, <1>4, <1>7, <2>2, <3>1, <3>3, <4>1 DEF FallTo
    <3>4. QED
      BY <3>2, <3>3
  <2>7. QED
    BY <2>3, <2>4, <2>5, <2>6
<1>10. QED
  BY <1>8, <1>9

-----------------------------------------------------------------------------
(* The inductive invariant.                                                *)

EdgesRight == \A l \in DOMAIN neighbours \ {ExitLabel} : neighbours[l].children = Edges(l)

(* What a label leads to is there, or will be cloned by the walk.          *)
Coming(l) ==
    IF Active /\ l.stack_frame_prefix = TopPrefix
    THEN {Reprefix(m, TopPrefix) : m \in Top.macro_labels} ELSE {}

Closed == \A l \in DOMAIN neighbours \ {ExitLabel} : StepOver(l) \subseteq DOMAIN neighbours \cup Coming(l)

FrameOf(i) == FramePrefix(frames[i].caller)

(* A call that is still to be expanded.                                    *)
Waits(l) ==
    \/ l.stack_frame_prefix = <<>> /\ l.from >= next
    \/ Active /\ l = Top.caller
    \/ \E i \in 1..Len(frames) : \E m \in frames[i].todo : l = Reprefix(m, FrameOf(i))
    \/ Active /\ l.stack_frame_prefix = TopPrefix /\ Reprefix(l, <<>>) \in Top.seen_labels

CallsWait ==
    \A l \in Inner : IsCall(l) =>
        /\ Expanded(l) => instructions[l].sfp = FramePrefix(l)
        /\ ~ Expanded(l) => Waits(l)

(* What a frame waits to expand has no clones yet.                         *)
TodoFresh(i) ==
    \A m \in frames[i].todo :
        /\ m.stack_frame_prefix = <<>>
        /\ \A l \in DOMAIN neighbours : l.stack_frame_prefix # Append(FrameOf(i), m.from)
        /\ \A j \in (i + 1)..Len(frames) : FrameOf(j) # Append(FrameOf(i), m.from)

FrameNested(i) ==
    /\ IsCall(frames[i].caller)
    /\ frames[i].exit_to_label = Leave(FrameOf(i))
    /\ i = 1 => frames[i].caller = Plain(next - 1)
    /\ i > 1 => frames[i].caller.from >= next /\ frames[i].caller.stack_frame_prefix = FrameOf(i - 1)
    /\ i < Len(frames) => ~ frames[i].walking
    /\ frames[i].walking => frames[i].todo = {}
    /\ instructions[frames[i].caller].sfp = FrameOf(i)

FramesNested == \A i \in 1..Len(frames) : FrameNested(i) /\ TodoFresh(i)

(* The walk goes from the callee on, in the order of the labels, and has   *)
(* cloned what comes before.                                               *)
WalkOK ==
    Active =>
        /\ \A m \in Top.macro_labels : m = Plain(Callee(Top.caller)) \/ m \in Inner
        /\ \A m \in Top.macro_labels \cup Top.seen_labels :
             m.stack_frame_prefix = <<>> /\ m.from >= Callee(Top.caller)
        /\ \A x \in DOMAIN neighbours : x.stack_frame_prefix = TopPrefix =>
             \A m \in Top.macro_labels : Before(x, m)
        /\ \A s \in Top.seen_labels :
             s = Plain(Callee(Top.caller)) \/ Reprefix(s, TopPrefix) \in DOMAIN neighbours
        /\ Top.first =>
             /\ Top.macro_labels = {Plain(Callee(Top.caller))}
             /\ \A x \in DOMAIN neighbours : x.stack_frame_prefix # TopPrefix
        /\ ~ Top.first => FirstClone(Top.caller) \in DOMAIN neighbours
        /\ \A x \in DOMAIN neighbours, k \in Int : x.stack_frame_prefix # Append(TopPrefix, k)

SecondPassInv == LabelsRight /\ EdgesRight /\ Closed /\ CallsWait /\ FramesNested /\ WalkOK

FirstPassInv ==
    /\ LabelsRight
    /\ \A l \in Inner : l.stack_frame_prefix = <<>>
    /\ \A l \in DOMAIN neighbours \ {ExitLabel} :
         /\ l.from < next => /\ neighbours[l].children = StepOver(l)
                             /\ StepOver(l) \subseteq DOMAIN neighbours
         /\ l.from >= next => neighbours[l].children = {}

MatchInv ==
    /\ FunctionsForward(prog)
    /\ IsFiniteSet(DOMAIN neighbours)
    /\ pass = "insert" => next = 0 /\ neighbours = [l \in {EntryLabel, ExitLabel} |-> EmptyNode]
    /\ pass = "connect" => FirstPassInv
    /\ pass \in {"macros", "done"} => SecondPassInv
    /\ pass = "done" => frames = <<>> /\ next = Len(prog)

-----------------------------------------------------------------------------
(* What depends on the program only.                                       *)
LEMMA ProgramKept ==
    ASSUME prog' = prog
    PROVE  /\ PCs' = PCs
           /\ \A pc : /\ InstAt(pc)' = InstAt(pc)
                      /\ Branches(pc)' <=> Branches(pc)
                      /\ JumpLabels(pc)' = JumpLabels(pc)
           /\ \A l : /\ IsCall(l)' <=> IsCall(l)
                     /\ Callee(l)' = Callee(l)
                     /\ StepOver(l)' = StepOver(l)
                     /\ FirstClone(l)' = FirstClone(l)
                     /\ Proper(l)' <=> Proper(l)
           /\ \A prefix : Leave(prefix)' = Leave(prefix)
<1>1. PCs' = PCs /\ \A pc : InstAt(pc)' = InstAt(pc) /\ (IsLast(pc)' <=> IsLast(pc))
  BY DEF PCs, InstAt, IsLast
<1>2. \A pc : Fallthrough(pc)' = Fallthrough(pc)
  BY <1>1 DEF Fallthrough
<1>3. \A pc : Targets(pc)' = Targets(pc) /\ (Branches(pc)' <=> Branches(pc))
  BY <1>1, <1>2 DEF Targets, Branches
<1>4. \A pc : JumpLabels(pc)' = JumpLabels(pc)
  BY <1>3 DEF JumpLabels
<1>5. \A l : (IsCall(l)' <=> IsCall(l)) /\ Callee(l)' = Callee(l) /\ FirstClone(l)' = FirstClone(l)
  BY <1>1 DEF IsCall, Callee, FirstClone
<1>6. \A prefix : Leave(prefix)' = Leave(prefix)
  BY <1>1 DEF Leave, ReturnTo
<1>7. \A prefix, pc : FallTo(prefix, pc)' = FallTo(prefix, pc)
  BY <1>1, <1>6 DEF FallTo
<1>8. \A l : Successors(l)' = Successors(l)
  <2> TAKE l
  <2>1. /\ InstAt(l.from)' = InstAt(l.from) /\ Leave(l.stack_frame_prefix)' = Leave(l.stack_frame_prefix)
        /\ FallTo(l.stack_frame_prefix, l.from)' = FallTo(l.stack_frame_prefix, l.from)
        /\ Branches(l.from)' <=> Branches(l.from)
        /\ Targets(l.from)' = Targets(l.from)
    BY <1>1, <1>3, <1>6, <1>7
  <2>2. QED
    BY <2>1 DEF Successors
<1>9. \A l : StepOver(l)' = StepOver(l)
  BY <1>5, <1>7, <1>8 DEF StepOver
<1>10. \A l : Proper(l)' <=> Proper(l)
  BY <1>1, <1>3, <1>4 DEF Proper
<1>11. QED
  BY <1>1, <1>3, <1>4, <1>5, <1>6, <1>9, <1>10

LEMMA InsertAt ==
    ASSUME NEW graph, NEW new
    PROVE  /\ DOMAIN insert(graph, new) = DOMAIN graph \cup new
           /\ \A l \in DOMAIN graph : insert(graph, new)[l] = graph[l]
           /\ \A l \in new \ DOMAIN graph : insert(graph, new)[l].children = {}
BY DEF insert, EmptyNode

LEMMA AddChildrenAt ==
    ASSUME NEW graph, NEW E
    PROVE  /\ DOMAIN add_children(graph, E) = DOMAIN graph
           /\ \A l \in DOMAIN graph :
                add_children(graph, E)[l].children
                  = graph[l].children \cup {b \in DOMAIN graph : <<l, b>> \in E}
BY DEF add_children

(* What the invariant proved before says, in short.                        *)
LEMMA InvFacts ==
    ASSUME Inv
    PROVE  /\ prog \in Seq(Inst) /\ Len(prog) < INT_MAX /\ Len(prog) \in Nat
           /\ DOMAIN neighbours \subseteq Label /\ DOMAIN instructions = DOMAIN neighbours
           /\ {EntryLabel, ExitLabel} \subseteq DOMAIN neighbours
           /\ \A l \in DOMAIN neighbours : /\ neighbours[l].children \subseteq DOMAIN neighbours
                                           /\ neighbours[l].parents \subseteq DOMAIN neighbours
           /\ \A a, b \in DOMAIN neighbours :
                b \in neighbours[a].children <=> a \in neighbours[b].parents
           /\ next \in 0..Len(prog) /\ next \in Nat
           /\ frames \in Seq(Frame)
BY DEF Inv, TypeOK, GraphOK, Mirror

LEMMA EntrySteps ==
    ASSUME prog \in Seq(Inst), Len(prog) < INT_MAX
    PROVE  StepOver(EntryLabel) = {Plain(0)} /\ ~ IsCall(EntryLabel) /\ ~ IsCall(ExitLabel)
<1>1. ~ IsCall(EntryLabel) /\ ~ IsCall(ExitLabel)
  BY EntryExitParts, PcFacts DEF IsCall
<1>2. EntryLabel # ExitLabel /\ ~ IsJump(EntryLabel)
  BY EntryExitParts DEF INT_MAX, IsJump
<1>3. Successors(EntryLabel) = {Plain(0)}
  BY <1>2 DEF Successors
<1>4. QED
  BY <1>1, <1>3 DEF StepOver

LEMMA PlainsFinite ==
    ASSUME NEW n \in Nat, NEW S \in SUBSET (0..n)
    PROVE  IsFiniteSet({Plain(pc) : pc \in S})
<1> DEFINE f == [pc \in S |-> Plain(pc)]
           T == {Plain(pc) : pc \in S}
<1>1. IsFiniteSet(S)
  <2>1. IsFiniteSet(0..n)
    BY FS_Interval
  <2>2. QED
    BY <2>1, FS_Subset
<1>2. f \in Surjection(S, T)
  BY DEF Surjection
<1> HIDE DEF f, T
<1>3. IsFiniteSet(T)
  BY <1>1, <1>2, FS_Surjection
<1>4. QED
  BY <1>3 DEF T

LEMMA InsertMatches ==
    ASSUME Inv, MatchInv, InsertInstructions
    PROVE  MatchInv'
<1> DEFINE new == {Plain(pc) : pc \in DefinedPCs}
           E == {<<EntryLabel, Plain(0)>>}
           g == insert(neighbours, new)
           D == DOMAIN neighbours
<1>1. /\ prog' = prog /\ next' = next /\ next = 0 /\ pass' = "connect"
      /\ neighbours = [l \in {EntryLabel, ExitLabel} |-> EmptyNode]
      /\ D = {EntryLabel, ExitLabel}
      /\ neighbours' = add_children(g, E) /\ 0 \in DefinedPCs
      /\ instructions' = [l \in DOMAIN instructions \cup new |->
                            IF l \in new
                            THEN Node(InstAt(l.from).op, InstAt(l.from).target, TRUE)
                            ELSE instructions[l]]
  BY DEF InsertInstructions, MatchInv
<1>2. /\ prog \in Seq(Inst) /\ Len(prog) < INT_MAX /\ Len(prog) \in Nat /\ DOMAIN instructions = D
  BY InvFacts
<1>3. \A l \in new : \E pc \in DefinedPCs : /\ l = Plain(pc) /\ pc \in PCs /\ pc \in Nat
                                            /\ l.from = pc /\ l.to = -1 /\ l.stack_frame_prefix = <<>>
                                            /\ l # EntryLabel /\ l # ExitLabel /\ l \in Label
  BY <1>2, PcFacts, LabelFacts DEF DefinedPCs
<1>4. new \cap D = {}
  BY <1>1, <1>3
<1>5. DOMAIN neighbours' = D \cup new /\ Inner' = new
  <2>1. DOMAIN neighbours' = DOMAIN g
    BY <1>1, AddChildrenAt
  <2>2. DOMAIN g = D \cup new
    BY InsertAt
  <2>3. EntryLabel \notin new /\ ExitLabel \notin new
    BY <1>3
  <2> HIDE DEF g, new
  <2>4. QED
    BY <1>1, <2>1, <2>2, <2>3 DEF Inner
<1>6. /\ neighbours'[EntryLabel].children = {Plain(0)}
      /\ \A l \in new : neighbours'[l].children = {}
  <2>1. DOMAIN g = D \cup new /\ g[EntryLabel].children = {} /\ \A l \in new : g[l].children = {}
    <3>1. neighbours[EntryLabel].children = {}
      BY <1>1 DEF EmptyNode
    <3> HIDE DEF new
    <3>2. QED
      BY <1>1, <1>4, <3>1, InsertAt
  <2> HIDE DEF g
  <2>2. Plain(0) \in new
    BY <1>1 DEF new
  <2> HIDE DEF new, D, E
  <2>0. \A l \in DOMAIN g : add_children(g, E)[l].children = g[l].children \cup {b \in DOMAIN g : <<l, b>> \in E}
    BY AddChildrenAt
  <2>3. neighbours'[EntryLabel].children = {b \in D \cup new : <<EntryLabel, b>> \in E}
    BY <1>1, <2>0, <2>1
  <2>4. \A l \in new : neighbours'[l].children = {b \in D \cup new : <<l, b>> \in E}
    BY <1>1, <2>0, <2>1
  <2>5. EntryLabel \notin new
    BY <1>3 DEF new
  <2>6. QED
    BY <2>2, <2>3, <2>4, <2>5 DEF E
<1>7. StepOver(EntryLabel)' = {Plain(0)}
  BY <1>1, <1>2, ProgramKept, EntrySteps
<1>8. LabelsRight'
  <2> SUFFICES ASSUME NEW l \in new PROVE LabelRight(l)' /\ CloneRight(l)'
    BY <1>5 DEF LabelsRight
  <2>1. PICK pc \in DefinedPCs : /\ l = Plain(pc) /\ pc \in PCs /\ pc \in Nat
                                 /\ l.from = pc /\ l.to = -1 /\ l.stack_frame_prefix = <<>> /\ l \in Label
    BY <1>3
  <2>2. instructions'[l] = Node(InstAt(pc).op, InstAt(pc).target, TRUE)
    BY <1>1, <2>1
  <2>3. /\ instructions'[l].op = InstAt(pc).op /\ instructions'[l].target = InstAt(pc).target
        /\ instructions'[l].sfp = <<>>
    BY <2>2 DEF Node
  <2>4. InstAt(pc).op # "undef"
    BY <2>1 DEF DefinedPCs
  <2>5. Reprefix(l, <<>>) = l
    BY <2>1, LabelParts
  <2>6. Proper(l)
    BY <2>1, <2>4 DEF Proper
  <2>7. Carries(l)'
    BY <1>1, <2>1, <2>3, ProgramKept DEF Carries, IsJump
  <2>8. QED
    BY <1>1, <1>5, <2>1, <2>3, <2>5, <2>6, <2>7, ProgramKept DEF LabelRight, CloneRight
<1>9. FirstPassInv'
  <2>1. \A l \in Inner' : l.stack_frame_prefix = <<>>
    BY <1>3, <1>5
  <2>2. ASSUME NEW l \in DOMAIN neighbours' \ {ExitLabel}
        PROVE  /\ l.from < next' => neighbours'[l].children = StepOver(l)' /\ StepOver(l)' \subseteq DOMAIN neighbours'
               /\ l.from >= next' => neighbours'[l].children = {}
    <3>0. next' = 0
      BY <1>1
    <3>1. CASE l = EntryLabel
      <4>1. Plain(0) \in new
        BY <1>1
      <4> HIDE DEF new
      <4>2. l.from = -1
        BY <3>1, EntryExitParts
      <4>3. StepOver(l)' = {Plain(0)} /\ neighbours'[l].children = {Plain(0)}
        BY <1>6, <1>7, <3>1
      <4>4. {Plain(0)} \subseteq DOMAIN neighbours'
        BY <1>5, <4>1
      <4>5. QED
        BY <3>0, <4>2, <4>3, <4>4
    <3>2. CASE l \in new
      <4>1. l.from \in Nat
        BY <1>3, <3>2
      <4> HIDE DEF new
      <4>2. neighbours'[l].children = {}
        BY <1>6, <3>2
      <4>3. QED
        BY <3>0, <4>1, <4>2
    <3>3. QED
      BY <1>1, <1>5, <2>2, <3>1, <3>2
  <2>3. QED
    BY <1>8, <2>1, <2>2 DEF FirstPassInv
<1>10. IsFiniteSet(DOMAIN neighbours')
  <2>1. DefinedPCs \subseteq 0..Len(prog)
    BY <1>2 DEF DefinedPCs, PCs
  <2>2. IsFiniteSet(new)
    BY <1>2, <2>1, PlainsFinite
  <2>3. IsFiniteSet(D)
    BY DEF MatchInv
  <2> HIDE DEF D, new
  <2>4. QED
    BY <1>5, <2>2, <2>3, FS_Union
<1>11. QED
  BY <1>1, <1>9, <1>10 DEF MatchInv

(* A label stays right while labels are added.                             *)
LEMMA LabelKept ==
    ASSUME prog' = prog, next \in Nat, next' \in Nat, next <= next',
           DOMAIN neighbours \subseteq DOMAIN neighbours',
           NEW l \in Label, LabelRight(l), CloneRight(l),
           instructions'[l].op = instructions[l].op,
           instructions'[l].target = instructions[l].target,
           instructions'[l].sense = instructions[l].sense,
           instructions[l].op = "call" \/ instructions'[l].sfp = instructions[l].sfp
    PROVE  LabelRight(l)' /\ CloneRight(l)'
<1>1. Carries(l)'
  BY ProgramKept DEF LabelRight, Carries, IsJump
<1>2. LabelRight(l)'
  BY <1>1, ProgramKept DEF LabelRight
<1>3. CloneRight(l)'
  <2>1. l.stack_frame_prefix # <<>> => l.stack_frame_prefix[1] \in Int
    BY DEF Label, Prefix
  <2>2. QED
    BY <2>1, ProgramKept DEF CloneRight
<1>4. QED
  BY <1>2, <1>3

LEMMA ConnectPlainMatches ==
    ASSUME Inv, MatchInv, NEW pc \in PCs, ConnectPlain(pc)
    PROVE  MatchInv'
<1> DEFINE E == PlainEdges(pc)
           D == DOMAIN neighbours
<1>1. /\ prog' = prog /\ next' = next + 1 /\ next = pc /\ pass = "connect" /\ pass' = "connect"
      /\ instructions' = instructions /\ pc \in DefinedPCs /\ ~ Branches(pc)
      /\ neighbours' = add_children(neighbours, E) /\ Connectable(neighbours, E)
  BY DEF ConnectPlain, Connecting
<1>2. /\ prog \in Seq(Inst) /\ Len(prog) < INT_MAX /\ Len(prog) \in Nat /\ D \subseteq Label
      /\ next \in Nat /\ pc \in Nat
  BY InvFacts, PcFacts
<1>3. PICK y : E = {<<Plain(pc), y>>} /\ StepOver(Plain(pc)) = {y}
  <2>1. Plain(pc) = MkLabel(<<>>, pc, -1)
    BY DEF Plain
  <2>2. /\ InstAt(pc).op = "exit" => StepOver(Plain(pc)) = {Leave(<<>>)}
        /\ InstAt(pc).op = "ja" => StepOver(Plain(pc)) = {At(<<>>, InstAt(pc).target)}
        /\ InstAt(pc).op # "exit" /\ InstAt(pc).op # "ja" => StepOver(Plain(pc)) = {FallTo(<<>>, pc)}
    BY <1>1, <1>2, <2>1, StepOverCases
  <2>3. FallTo(<<>>, pc) = Fallthrough(pc) /\ At(<<>>, InstAt(pc).target) = Plain(InstAt(pc).target)
    BY LeaveMain DEF FallTo, Fallthrough, At, Plain
  <2>4. CASE InstAt(pc).op = "exit"
    BY <2>2, <2>4, LeaveMain DEF PlainEdges
  <2>5. CASE InstAt(pc).op = "ja"
    BY <2>2, <2>3, <2>5 DEF PlainEdges
  <2>6. CASE InstAt(pc).op # "exit" /\ InstAt(pc).op # "ja"
    BY <2>2, <2>3, <2>6 DEF PlainEdges
  <2>7. QED
    BY <2>4, <2>5, <2>6
<1>4. y \in D /\ Plain(pc) \in D
  BY <1>1, <1>3 DEF Connectable
<1>5. FirstPassInv
  BY <1>1 DEF MatchInv
<1>6. /\ DOMAIN neighbours' = D
      /\ \A l \in D : neighbours'[l].children = neighbours[l].children \cup {b \in D : <<l, b>> \in E}
  BY <1>1, AddChildrenAt
<1>7. Inner' = Inner
  BY <1>6 DEF Inner
<1>8. LabelsRight'
  <2> SUFFICES ASSUME NEW l \in Inner PROVE LabelRight(l)' /\ CloneRight(l)'
    BY <1>7 DEF LabelsRight
  <2>1. l \in Label /\ LabelRight(l) /\ CloneRight(l)
    BY <1>2, <1>5 DEF FirstPassInv, LabelsRight, Inner
  <2>2. next' \in Nat /\ next <= next'
    BY <1>1, <1>2
  <2>3. QED
    BY <1>1, <1>2, <1>6, <2>1, <2>2, LabelKept
<1>9. FirstPassInv'
  <2>1. ASSUME NEW l \in D \ {ExitLabel}
        PROVE  /\ l.from < next' => neighbours'[l].children = StepOver(l)' /\ StepOver(l)' \subseteq D
               /\ l.from >= next' => neighbours'[l].children = {}
    <3>0. StepOver(l)' = StepOver(l) /\ l.from \in Int /\ l \in Label
      BY <1>1, <1>2, ProgramKept DEF Label
    <3>1. CASE l = Plain(pc)
      <4>1. l.from = pc
        BY <3>1, LabelParts DEF Plain
      <4>2. neighbours[l].children = {}
        BY <1>1, <1>2, <1>5, <2>1, <4>1 DEF FirstPassInv
      <4>3. neighbours'[l].children = {y}
        BY <1>3, <1>4, <1>6, <3>1, <4>2
      <4>4. StepOver(l)' = {y} /\ {y} \subseteq D
        BY <1>3, <1>4, <3>0, <3>1
      <4>5. ~ (l.from >= next')
        BY <1>1, <1>2, <4>1
      <4>6. QED
        BY <4>3, <4>4, <4>5
    <3>2. CASE l # Plain(pc)
      <4>1. neighbours'[l].children = neighbours[l].children
        BY <1>3, <1>6, <3>2
      <4>2. l.from # pc
        <5>1. l.to # -1 => l.from < pc
          BY <1>1 DEF Inv, PassInv
        <5>2. l = EntryLabel \/ l \in Inner
          BY <2>1 DEF Inner
        <5>3. l.stack_frame_prefix = <<>>
          BY <1>5, <5>2, EntryExitParts DEF FirstPassInv
        <5>4. l.to = -1 /\ l.from = pc => l = Plain(pc)
          BY <3>0, <5>3, LabelParts DEF Plain
        <5>5. QED
          BY <1>2, <3>0, <3>2, <5>1, <5>4
      <4>3. (l.from < next' => l.from < next) /\ (l.from >= next' => l.from >= next)
        BY <1>1, <1>2, <3>0, <4>2
      <4>4. /\ l.from < next => neighbours[l].children = StepOver(l) /\ StepOver(l) \subseteq D
            /\ l.from >= next => neighbours[l].children = {}
        BY <1>5, <2>1 DEF FirstPassInv
      <4>5. QED
        BY <3>0, <4>1, <4>3, <4>4
    <3>3. QED
      BY <3>1, <3>2
  <2>2. QED
    BY <1>5, <1>6, <1>7, <1>8, <2>1 DEF FirstPassInv
<1>10. QED
  BY <1>1, <1>6, <1>9 DEF MatchInv

LEMMA ConnectBranchMatches ==
    ASSUME Inv, MatchInv, NEW pc \in PCs, ConnectBranch(pc)
    PROVE  MatchInv'
<1> DEFINE new == JumpLabels(pc)
           E == BranchEdges(pc)
           g == insert(neighbours, new)
           D == DOMAIN neighbours
           jump(t) == make_jump(Plain(pc), t)
<1>1. /\ prog' = prog /\ next' = next + 1 /\ next = pc /\ pass = "connect" /\ pass' = "connect"
      /\ pc \in DefinedPCs /\ Branches(pc) /\ Targets(pc) \subseteq D
      /\ neighbours' = add_children(g, E)
      /\ instructions' = [l \in DOMAIN instructions \cup new |->
                            IF l \in new THEN Node("assume", 0, l.to = InstAt(pc).target)
                            ELSE instructions[l]]
  BY DEF ConnectBranch, Connecting
<1>2. /\ prog \in Seq(Inst) /\ Len(prog) < INT_MAX /\ Len(prog) \in Nat /\ D \subseteq Label
      /\ DOMAIN instructions = D /\ next \in Nat /\ pc \in Nat /\ pc # INT_MAX
      /\ next' \in Nat /\ next <= next'
  BY <1>1, InvFacts, PcFacts
<1>3. \A t \in Targets(pc) : /\ t \in Label /\ t.from \in Nat /\ t = Plain(t.from)
                             /\ t = (IF t.from = INT_MAX THEN ExitLabel ELSE At(<<>>, t.from))
  <2>1. InstAt(pc).target \in Nat /\ pc + 1 \in Nat /\ INT_MAX \in Nat
    BY <1>2, InstTyped, PcFacts
  <2>2. \A t \in Targets(pc) : \E q \in Nat : t = Plain(q)
    BY <2>1 DEF Targets, Fallthrough, ExitLabel
  <2>3. \A q \in Nat : /\ Plain(q) \in Label /\ Plain(q).from = q
                       /\ Plain(q) = (IF q = INT_MAX THEN ExitLabel ELSE At(<<>>, q))
    BY LabelFacts DEF At, Plain, ExitLabel
  <2>4. QED
    BY <2>2, <2>3
<1>4. \A t \in Targets(pc) : jump(t) = MkLabel(<<>>, pc, t.from)
  <2>1. \A t \in Targets(pc) : t.stack_frame_prefix = <<>>
    BY <1>3, LabelParts DEF Plain
  <2>2. Plain(pc).from = pc
    BY LabelParts DEF Plain
  <2>3. QED
    BY <2>1, <2>2 DEF make_jump
<1>5. \A l \in new : \E t \in Targets(pc) :
         /\ l = jump(t) /\ l = MkLabel(<<>>, pc, t.from) /\ l.from = pc /\ l.to = t.from
         /\ l.stack_frame_prefix = <<>> /\ l \in Label /\ l # EntryLabel /\ l # ExitLabel
  <2> TAKE l \in new
  <2>1. PICK t \in Targets(pc) : l = jump(t)
    BY DEF JumpLabels
  <2>2. l = MkLabel(<<>>, pc, t.from)
    BY <1>4, <2>1
  <2>3. l.from = pc /\ l.to = t.from /\ l.stack_frame_prefix = <<>>
    BY <2>2, LabelParts
  <2>4. l \in Label
    BY <1>2, <1>3, <2>2 DEF MkLabel, Label, Prefix
  <2>5. l # EntryLabel /\ l # ExitLabel
    BY <1>2, <2>3, EntryExitParts
  <2>6. QED
    BY <2>1, <2>2, <2>3, <2>4, <2>5
<1>6. FirstPassInv
  BY <1>1 DEF MatchInv
<1>7. \A l \in new : l \notin D
  <2>1. \A l \in D : l.to # -1 => l.from < pc
    BY <1>1 DEF Inv, PassInv
  <2>2. \A l \in new : l.from = pc /\ l.to # -1
    BY <1>3, <1>5
  <2>3. QED
    BY <1>2, <2>1, <2>2
<1>8. DOMAIN neighbours' = D \cup new /\ Inner' = Inner \cup new
  <2>1. DOMAIN neighbours' = D \cup new
    <3>1. DOMAIN g = D \cup new
      BY InsertAt
    <3>2. DOMAIN neighbours' = DOMAIN g
      BY <1>1, AddChildrenAt
    <3>3. QED
      BY <3>1, <3>2
  <2>2. EntryLabel \notin new /\ ExitLabel \notin new
    BY <1>5
  <2> HIDE DEF new
  <2>3. QED
    BY <2>1, <2>2 DEF Inner
<1>9. /\ \A l \in D : neighbours'[l].children = neighbours[l].children \cup {b \in D \cup new : <<l, b>> \in E}
      /\ \A l \in new : neighbours'[l].children = {b \in D \cup new : <<l, b>> \in E}
  <2>1. /\ DOMAIN g = D \cup new /\ \A l \in D : g[l] = neighbours[l]
        /\ \A l \in new : g[l].children = {}
    BY <1>7, InsertAt
  <2> HIDE DEF g, E, new, D
  <2>2. \A l \in DOMAIN g : add_children(g, E)[l].children = g[l].children \cup {b \in DOMAIN g : <<l, b>> \in E}
    BY AddChildrenAt
  <2>3. QED
    BY <1>1, <2>1, <2>2
<1>10. /\ \A b : <<Plain(pc), b>> \in E <=> b \in new
       /\ \A t \in Targets(pc) : \A b : <<jump(t), b>> \in E <=> b = t
       /\ \A l \in D : \A b : l # Plain(pc) => <<l, b>> \notin E
  <2>1. E = {<<Plain(pc), j>> : j \in new} \cup {<<jump(t), t>> : t \in Targets(pc)}
    BY DEF BranchEdges
  <2>2. \A t \in Targets(pc) : jump(t) \in new /\ jump(t) # Plain(pc) /\ jump(t) \notin D
    <3>1. \A t \in Targets(pc) : jump(t) \in new
      BY DEF JumpLabels
    <3>2. \A l \in new : l # Plain(pc)
      <4>1. \A l \in new : l.to \in Nat
        BY <1>3, <1>5
      <4>2. Plain(pc).to = -1
        BY LabelParts DEF Plain
      <4>3. QED
        BY <4>1, <4>2
    <3> HIDE DEF new, jump
    <3>3. QED
      BY <1>7, <3>1, <3>2
  <2>3. \A t, s \in Targets(pc) : jump(t) = jump(s) => t = s
    <3>1. \A t \in Targets(pc) : jump(t).to = t.from
      BY <1>4, LabelParts
    <3> HIDE DEF jump
    <3>2. QED
      BY <1>3, <3>1
  <2> HIDE DEF E, new, jump, D
  <2>4. QED
    BY <2>1, <2>2, <2>3
<1>11. \A t \in Targets(pc) : StepOver(jump(t)) = {t}
  <2> TAKE t \in Targets(pc)
  <2>1. t.from # -1
    BY <1>3
  <2>2. StepOver(MkLabel(<<>>, pc, t.from)) = {IF t.from = INT_MAX THEN Leave(<<>>) ELSE At(<<>>, t.from)}
    BY <1>2, <2>1, JumpLeads
  <2>3. QED
    BY <1>3, <1>4, <2>2, LeaveMain
<1>12. StepOver(Plain(pc)) = new
  <2>1. Plain(pc) = MkLabel(<<>>, pc, -1) /\ InstAt(pc).op = "jcc"
    BY <1>1 DEF Plain, Branches
  <2>2. StepOver(Plain(pc)) = {MkLabel(<<>>, pc, t.from) : t \in Targets(pc)}
    BY <1>1, <1>2, <2>1, StepOverCases
  <2>3. new = {jump(t) : t \in Targets(pc)}
    BY DEF JumpLabels
  <2> HIDE DEF new, jump
  <2>4. QED
    BY <1>4, <2>2, <2>3
<1>13. LabelsRight'
  <2>1. ASSUME NEW l \in Inner PROVE LabelRight(l)' /\ CloneRight(l)'
    <3>1. l \in Label /\ LabelRight(l) /\ CloneRight(l) /\ l \in D
      BY <1>2, <1>6, <2>1 DEF FirstPassInv, LabelsRight, Inner
    <3>2. instructions'[l] = instructions[l]
      BY <1>1, <1>2, <1>7, <3>1
    <3>3. D \subseteq DOMAIN neighbours'
      BY <1>8
    <3>4. QED
      BY <1>1, <1>2, <3>1, <3>2, <3>3, LabelKept
  <2>2. ASSUME NEW l \in new PROVE LabelRight(l)' /\ CloneRight(l)'
    <3>1. PICK t \in Targets(pc) : /\ l.from = pc /\ l.to = t.from
                                   /\ l.stack_frame_prefix = <<>> /\ l \in Label
      BY <1>5, <2>2
    <3>2. Reprefix(l, <<>>) = l /\ l.to # -1
      BY <1>3, <3>1, LabelParts
    <3>3. Proper(l)
      BY <1>1, <2>2, <3>1, <3>2 DEF Proper, Branches
    <3>4. instructions'[l] = Node("assume", 0, l.to = InstAt(pc).target)
      BY <1>1, <2>2
    <3>5. instructions'[l].op = "assume" /\ instructions'[l].sense = (l.to = InstAt(pc).target)
      BY <3>4 DEF Node
    <3>6. Carries(l)'
      BY <1>1, <3>1, <3>2, <3>5, ProgramKept DEF Carries, IsJump
    <3>7. l \in DOMAIN neighbours'
      BY <1>8, <2>2
    <3>8. LabelRight(l)'
      BY <1>1, <3>2, <3>3, <3>5, <3>6, <3>7, ProgramKept DEF LabelRight
    <3>9. QED
      BY <3>1, <3>8 DEF CloneRight
  <2>3. QED
    BY <1>8, <2>1, <2>2 DEF LabelsRight
<1> HIDE DEF new, E, g, jump
<1>14. ASSUME NEW l \in DOMAIN neighbours' \ {ExitLabel}
       PROVE  /\ l.from < next' => neighbours'[l].children = StepOver(l)' /\ StepOver(l)' \subseteq DOMAIN neighbours'
              /\ l.from >= next' => neighbours'[l].children = {}
  <2>0. StepOver(l)' = StepOver(l) /\ next' = pc + 1
    BY <1>1, ProgramKept
  <2>1. CASE l \in new
    <3>1. PICK t \in Targets(pc) : l = jump(t) /\ l.from = pc
      BY <1>5, <2>1
    <3>2. neighbours'[l].children = {t}
      <4>1. \A b : <<l, b>> \in E <=> b = t
        BY <1>10, <3>1
      <4>2. neighbours'[l].children = {b \in D \cup new : <<l, b>> \in E}
        BY <1>9, <2>1
      <4>3. t \in D
        BY <1>1
      <4> HIDE DEF D
      <4>4. QED
        BY <4>1, <4>2, <4>3
    <3>3. StepOver(l)' = {t} /\ {t} \subseteq DOMAIN neighbours'
      BY <1>1, <1>8, <1>11, <2>0, <3>1
    <3>4. ~ (l.from >= next')
      BY <1>2, <2>0, <3>1
    <3>5. QED
      BY <3>2, <3>3, <3>4
  <2>2. CASE l = Plain(pc)
    <3>0. l.from = pc
      BY <2>2, LabelParts DEF Plain
    <3>1. l \in D
      BY <1>1, <2>2 DEF Inv, PlainInv
    <3>2. neighbours[l].children = {}
      BY <1>1, <1>2, <1>6, <1>14, <3>0, <3>1 DEF FirstPassInv
    <3>3. neighbours'[l].children = new
      BY <1>9, <1>10, <2>2, <3>1, <3>2
    <3>4. StepOver(l)' = new /\ new \subseteq DOMAIN neighbours'
      BY <1>8, <1>12, <2>0, <2>2
    <3>5. ~ (l.from >= next')
      BY <1>2, <2>0, <3>0
    <3>6. QED
      BY <3>3, <3>4, <3>5
  <2>3. CASE l \notin new /\ l # Plain(pc)
    <3>1. l \in D /\ l \in Label /\ l.from \in Int
      BY <1>2, <1>8, <1>14, <2>3 DEF Label
    <3>2. neighbours'[l].children = neighbours[l].children
      <4>1. neighbours'[l].children = neighbours[l].children \cup {b \in D \cup new : <<l, b>> \in E}
        BY <1>9, <3>1
      <4>2. \A b : <<l, b>> \notin E
        BY <1>10, <2>3, <3>1
      <4>3. QED
        BY <4>1, <4>2
    <3>3. l.from # pc
      <4>1. l.to # -1 => l.from < pc
        BY <1>1, <3>1 DEF Inv, PassInv
      <4>2. l = EntryLabel \/ l \in Inner
        BY <1>14, <3>1 DEF Inner
      <4>3. l.stack_frame_prefix = <<>>
        BY <1>6, <4>2, EntryExitParts DEF FirstPassInv
      <4>4. l.to = -1 /\ l.from = pc => l = Plain(pc)
        BY <3>1, <4>3, LabelParts DEF Plain
      <4>5. QED
        BY <1>2, <2>3, <3>1, <4>1, <4>4
    <3>4. (l.from < next' => l.from < next) /\ (l.from >= next' => l.from >= next)
      BY <1>1, <1>2, <2>0, <3>1, <3>3
    <3>5. /\ l.from < next => neighbours[l].children = StepOver(l) /\ StepOver(l) \subseteq D
          /\ l.from >= next => neighbours[l].children = {}
      BY <1>6, <1>14, <3>1 DEF FirstPassInv
    <3>6. D \subseteq DOMAIN neighbours'
      BY <1>8
    <3>7. QED
      BY <2>0, <3>2, <3>4, <3>5, <3>6
  <2>4. QED
    BY <2>1, <2>2, <2>3
<1>15. \A l \in Inner' : l.stack_frame_prefix = <<>>
  BY <1>5, <1>6, <1>8 DEF FirstPassInv
<1>16. FirstPassInv'
  BY <1>13, <1>14, <1>15 DEF FirstPassInv
<1>17. IsFiniteSet(DOMAIN neighbours')
  <2>1. \E a, b : Targets(pc) = {a, b}
    BY DEF Targets
  <2>2. \E a, b : new = {a, b}
    BY <2>1 DEF new, JumpLabels
  <2>3. IsFiniteSet(new)
    <3>1. PICK a, b : new = {a, b}
      BY <2>2
    <3>2. IsFiniteSet({a} \cup {b})
      BY FS_Singleton, FS_Union
    <3>3. {a} \cup {b} = {a, b}
      OBVIOUS
    <3>4. QED
      BY <3>1, <3>2, <3>3
  <2>4. IsFiniteSet(D)
    BY DEF MatchInv
  <2> HIDE DEF D
  <2>5. QED
    BY <1>8, <2>3, <2>4, FS_Union
<1>18. QED
  BY <1>1, <1>16, <1>17 DEF MatchInv

LEMMA SkipUndefinedMatches ==
    ASSUME Inv, MatchInv, NEW pc \in PCs, SkipUndefined(pc)
    PROVE  MatchInv'
<1>1. /\ UNCHANGED <<prog, must_have_exit, neighbours, instructions, pass, frames, error>>
      /\ next' = next + 1 /\ next = pc /\ pass = "connect" /\ pc \notin DefinedPCs
  BY DEF SkipUndefined, Connecting
<1>2. next \in Nat /\ DOMAIN neighbours \subseteq Label /\ next' \in Nat /\ next <= next'
  BY <1>1, InvFacts
<1>3. FirstPassInv /\ Inner' = Inner
  BY <1>1 DEF MatchInv, Inner
<1>4. LabelsRight'
  <2> SUFFICES ASSUME NEW l \in Inner PROVE LabelRight(l)' /\ CloneRight(l)'
    BY <1>3 DEF LabelsRight
  <2>1. l \in Label /\ LabelRight(l) /\ CloneRight(l)
    BY <1>2, <1>3 DEF FirstPassInv, LabelsRight, Inner
  <2>2. QED
    BY <1>1, <1>2, <2>1, LabelKept
<1>5. ASSUME NEW l \in DOMAIN neighbours \ {ExitLabel}
      PROVE  l.from # pc /\ l.from \in Int
  <2>1. l.from \in Int
    BY <1>2 DEF Label
  <2>2. CASE l = EntryLabel
    BY <1>1, <1>2, <2>2, EntryExitParts
  <2>3. CASE l # EntryLabel
    <3>1. Proper(l)
      BY <1>3, <1>5, <2>3 DEF FirstPassInv, LabelsRight, LabelRight, Inner
    <3>2. QED
      BY <1>1, <2>1, <3>1 DEF Proper, DefinedPCs
  <2>4. QED
    BY <2>2, <2>3
<1>6. ASSUME NEW l \in DOMAIN neighbours \ {ExitLabel}
      PROVE  /\ l.from < next' => /\ neighbours[l].children = StepOver(l)'
                                  /\ StepOver(l)' \subseteq DOMAIN neighbours
             /\ l.from >= next' => neighbours[l].children = {}
  <2>1. StepOver(l)' = StepOver(l)
    BY <1>1, ProgramKept
  <2>2. (l.from < next' => l.from < next) /\ (l.from >= next' => l.from >= next)
    BY <1>1, <1>2, <1>5
  <2>3. QED
    BY <1>3, <2>1, <2>2 DEF FirstPassInv
<1>7. FirstPassInv'
  BY <1>1, <1>3, <1>4, <1>6 DEF FirstPassInv
<1>8. QED
  BY <1>1, <1>7 DEF MatchInv

LEMMA FirstCloneParts ==
    \A l : /\ FirstClone(l).stack_frame_prefix = FramePrefix(l)
           /\ FirstClone(l).from = Callee(l) /\ FirstClone(l).to = -1
           /\ FirstClone(l) = MkLabel(FramePrefix(l), Callee(l), -1)
BY LabelParts DEF FirstClone, At

(* With the first pass the graph is complete but for the calls.            *)
LEMMA StartSecondPassMatches ==
    ASSUME Inv, MatchInv, StartSecondPass
    PROVE  MatchInv'
<1>1. /\ UNCHANGED <<prog, must_have_exit, neighbours, instructions, frames, error>>
      /\ next' = 0 /\ next = Len(prog) /\ pass = "connect" /\ pass' = "macros"
  BY DEF StartSecondPass
<1>2. /\ prog \in Seq(Inst) /\ Len(prog) < INT_MAX /\ Len(prog) \in Nat
      /\ DOMAIN neighbours \subseteq Label /\ frames = <<>> /\ frames' = <<>>
  BY <1>1, InvFacts DEF Inv, PassInv
<1>3. FirstPassInv /\ Inner' = Inner
  BY <1>1 DEF MatchInv, Inner
<1>4. \A l \in DOMAIN neighbours \ {ExitLabel} : l.stack_frame_prefix = <<>>
  BY <1>3, EntryExitParts DEF FirstPassInv, Inner
<1>5. LabelsRight'
  <2> SUFFICES ASSUME NEW l \in Inner PROVE LabelRight(l)' /\ CloneRight(l)'
    BY <1>3 DEF LabelsRight
  <2>1. LabelRight(l) /\ l.stack_frame_prefix = <<>>
    BY <1>3, <1>4 DEF FirstPassInv, LabelsRight, Inner
  <2>2. Carries(l)'
    BY <1>1, <2>1, ProgramKept DEF LabelRight, Carries, IsJump
  <2>3. LabelRight(l)'
    BY <1>1, <2>1, <2>2, ProgramKept DEF LabelRight
  <2>4. QED
    BY <2>1, <2>3 DEF CloneRight
<1>6. \A l \in DOMAIN neighbours : ~ Expanded(l)'
  <2> SUFFICES ASSUME NEW l \in DOMAIN neighbours, FirstClone(l) \in DOMAIN neighbours PROVE FALSE
    BY <1>1, ProgramKept DEF Expanded
  <2>2. FirstClone(l).stack_frame_prefix # <<>>
    BY <1>2, FirstCloneParts, FramePrefixFacts
  <2>3. FirstClone(l) = ExitLabel
    BY <1>4, <2>2
  <2>4. QED
    BY <2>2, <2>3, EntryExitParts
<1>7. ASSUME NEW l \in DOMAIN neighbours \ {ExitLabel}
      PROVE  neighbours[l].children = StepOver(l)' /\ StepOver(l)' \subseteq DOMAIN neighbours
  <2>1. l.from < next
    <3>1. CASE l = EntryLabel
      BY <1>1, <1>2, <3>1, EntryExitParts
    <3>2. CASE l # EntryLabel
      <4>1. l.from \in PCs
        BY <1>3, <1>7, <3>2 DEF FirstPassInv, LabelsRight, LabelRight, Proper, Inner
      <4>2. QED
        BY <1>1, <1>2, <4>1, PcFacts
    <3>3. QED
      BY <3>1, <3>2
  <2>2. QED
    BY <1>1, <1>3, <2>1, ProgramKept DEF FirstPassInv
<1>8. EdgesRight' /\ Closed'
  <2>1. ~ Active'
    BY <1>2 DEF Active
  <2>2. EdgesRight'
    BY <1>1, <1>6, <1>7 DEF EdgesRight, Edges
  <2>3. \A l : Coming(l)' = {}
    BY <2>1 DEF Coming
  <2>4. QED
    BY <1>1, <1>7, <2>2, <2>3 DEF Closed
<1>9. CallsWait'
  <2>1. \A l \in Inner : l.from \in PCs /\ l.from >= 0
    BY <1>2, <1>3, PcFacts DEF FirstPassInv, LabelsRight, LabelRight, Proper
  <2>2. \A l \in Inner : l.stack_frame_prefix = <<>>
    BY <1>4 DEF Inner
  <2>3. \A l \in Inner : Waits(l)'
    BY <1>1, <2>1, <2>2 DEF Waits
  <2>4. \A l \in Inner : ~ Expanded(l)'
    BY <1>6 DEF Inner
  <2>5. QED
    BY <1>3, <2>3, <2>4 DEF CallsWait
<1>10. FramesNested' /\ WalkOK'
  BY <1>2 DEF FramesNested, WalkOK, Active
<1>11. QED
  BY <1>1, <1>5, <1>8, <1>9, <1>10 DEF MatchInv, SecondPassInv

(* Steps outside of a walk that leave the graph alone.                     *)
LEMMA GraphKept ==
    ASSUME Inv, SecondPassInv, UNCHANGED <<prog, neighbours, instructions>>, ~ Active, ~ Active',
           next' \in Nat, next <= next'
    PROVE  /\ Inner' = Inner
           /\ LabelsRight' /\ EdgesRight' /\ Closed' /\ WalkOK'
           /\ \A l : Expanded(l)' <=> Expanded(l)
<1>1. Inner' = Inner
  BY DEF Inner
<1>2. \A l : Expanded(l)' <=> Expanded(l)
  BY ProgramKept DEF Expanded
<1>3. LabelsRight'
  <2> SUFFICES ASSUME NEW l \in Inner PROVE LabelRight(l)' /\ CloneRight(l)'
    BY <1>1 DEF LabelsRight
  <2>1. l \in Label /\ LabelRight(l) /\ CloneRight(l) /\ next \in Nat
    BY InvFacts DEF SecondPassInv, LabelsRight, Inner
  <2>2. QED
    BY <2>1, LabelKept
<1>4. EdgesRight'
  <2> SUFFICES ASSUME NEW l \in DOMAIN neighbours \ {ExitLabel} PROVE neighbours[l].children = Edges(l)'
    BY DEF EdgesRight
  <2>1. neighbours[l].children = Edges(l)
    BY DEF SecondPassInv, EdgesRight
  <2>2. QED
    BY <1>2, <2>1, ProgramKept DEF Edges
<1>5. Closed'
  <2> SUFFICES ASSUME NEW l \in DOMAIN neighbours \ {ExitLabel} PROVE StepOver(l)' \subseteq DOMAIN neighbours \cup Coming(l)'
    BY DEF Closed
  <2>1. StepOver(l) \subseteq DOMAIN neighbours
    BY DEF SecondPassInv, Closed, Coming
  <2>2. QED
    BY <2>1, ProgramKept
<1>6. QED
  BY <1>1, <1>2, <1>3, <1>4, <1>5 DEF WalkOK

LEMMA SkipInstructionMatches ==
    ASSUME Inv, MatchInv, SkipInstruction
    PROVE  MatchInv'
<1>1. /\ UNCHANGED <<prog, must_have_exit, neighbours, instructions, pass, frames, error>>
      /\ pass = "macros" /\ frames = <<>> /\ next \in PCs /\ InstAt(next).op # "call" /\ next' = next + 1
  BY DEF SkipInstruction, ReplacingMacros
<1>2. next \in Nat /\ next' \in Nat /\ next <= next' /\ ~ Active /\ ~ Active' /\ SecondPassInv
  BY <1>1, InvFacts DEF Active, MatchInv
<1>3. /\ Inner' = Inner
      /\ LabelsRight' /\ EdgesRight' /\ Closed' /\ WalkOK'
      /\ \A l : Expanded(l)' <=> Expanded(l)
  BY <1>1, <1>2, GraphKept
<1>4. ASSUME NEW l \in Inner, IsCall(l), Waits(l)
      PROVE  Waits(l)'
  <2>1. l.stack_frame_prefix = <<>> /\ l.from >= next
    BY <1>1, <1>2, <1>4 DEF Waits
  <2>2. l.from # next /\ l.from \in Nat
    BY <1>1, <1>4, InvFacts, PcFacts DEF IsCall
  <2>3. l.from >= next'
    BY <1>1, <1>2, <2>1, <2>2
  <2>4. QED
    BY <2>1, <2>3 DEF Waits
<1>5. CallsWait'
  BY <1>1, <1>2, <1>3, <1>4, ProgramKept DEF CallsWait, SecondPassInv
<1>6. FramesNested'
  BY <1>1 DEF FramesNested
<1>7. QED
  BY <1>1, <1>3, <1>5, <1>6 DEF MatchInv, SecondPassInv

LEMMA FinishMatches ==
    ASSUME Inv, MatchInv, Finish
    PROVE  MatchInv'
<1>1. /\ UNCHANGED <<prog, must_have_exit, neighbours, instructions, next, frames, error>>
      /\ pass = "macros" /\ frames = <<>> /\ pass' = "done" /\ next = Len(prog)
  BY DEF Finish, ReplacingMacros
<1>2. next' \in Nat /\ next <= next' /\ ~ Active /\ ~ Active' /\ SecondPassInv
  BY <1>1, InvFacts DEF Active, MatchInv
<1>3. /\ Inner' = Inner
      /\ LabelsRight' /\ EdgesRight' /\ Closed' /\ WalkOK'
      /\ \A l : Expanded(l)' <=> Expanded(l)
  BY <1>1, <1>2, GraphKept
<1>4. \A l \in Inner : Waits(l) => Waits(l)'
  BY <1>1, <1>2 DEF Waits
<1>5. CallsWait'
  BY <1>1, <1>2, <1>3, <1>4, ProgramKept DEF CallsWait, SecondPassInv
<1>6. FramesNested'
  BY <1>1 DEF FramesNested
<1>7. QED
  BY <1>1, <1>3, <1>5, <1>6 DEF MatchInv, SecondPassInv

LEMMA ReturnFromMacroMatches ==
    ASSUME Inv, MatchInv, ReturnFromMacro
    PROVE  MatchInv'
<1> DEFINE n == Len(frames)
<1>1. /\ UNCHANGED <<prog, must_have_exit, neighbours, instructions, pass, next, error>>
      /\ pass = "macros" /\ frames # <<>> /\ ~ Top.walking /\ Top.todo = {}
      /\ frames' = SubSeq(frames, 1, Len(frames) - 1)
  BY DEF ReturnFromMacro
<1>2. n \in Nat \ {0} /\ Top = frames[n] /\ frames \in Seq(Frame)
  BY <1>1, InvFacts DEF Top
<1>3. Len(frames') = n - 1 /\ \A i \in 1..(n - 1) : frames'[i] = frames[i] /\ i \in 1..n
  <2>1. Len(frames') = n - 1 /\ \A i \in 1..Len(frames') : frames'[i] = frames[i]
    BY <1>1, TopFacts, SubSeqProperties
  <2>2. \A i \in 1..(n - 1) : i \in 1..n
    BY <1>2
  <2> HIDE DEF n
  <2>3. QED
    BY <2>1, <2>2
<1> HIDE DEF n
<1>4. \A i \in 1..(n - 1) : FrameOf(i)' = FrameOf(i)
  BY <1>3 DEF FrameOf
<1>5. SecondPassInv /\ next \in Nat
  BY <1>1, InvFacts DEF MatchInv
<1>6. \A i \in 1..n : FrameNested(i) /\ TodoFresh(i)
  BY <1>5 DEF SecondPassInv, FramesNested, n
<1>7. ~ Active /\ ~ Active'
  <2>1. frames' # <<>> => Top'.walking = FALSE
    <3>1. CASE n = 1
      BY <1>3, <3>1
    <3>2. CASE n # 1
      <4>1. n - 1 \in 1..n /\ n - 1 < n
        BY <1>2, <3>2
      <4>2. ~ frames[n - 1].walking
        BY <1>6, <4>1 DEF FrameNested, n
      <4>3. Top' = frames[n - 1]
        BY <1>2, <1>3, <3>2 DEF Top
      <4>4. frames[n - 1] \in Frame
        BY <1>2, <4>1 DEF n
      <4>5. QED
        BY <4>2, <4>3, <4>4 DEF Frame
    <3>3. QED
      BY <3>1, <3>2
  <2>2. QED
    BY <1>1, <2>1 DEF Active
<1>8. /\ Inner' = Inner
      /\ LabelsRight' /\ EdgesRight' /\ Closed' /\ WalkOK'
      /\ \A l : Expanded(l)' <=> Expanded(l)
  BY <1>1, <1>5, <1>7, GraphKept
<1>9. ASSUME NEW l \in Inner, Waits(l) PROVE Waits(l)'
  <2>1. CASE l.stack_frame_prefix = <<>> /\ l.from >= next
    BY <1>1, <2>1 DEF Waits
  <2>2. ASSUME NEW i \in 1..n, NEW m \in frames[i].todo, l = Reprefix(m, FrameOf(i)) PROVE Waits(l)'
    <3>1. i \in 1..(n - 1)
      BY <1>1, <1>2, <2>2
    <3>2. m \in frames'[i].todo /\ l = Reprefix(m, FrameOf(i)')
      BY <1>3, <1>4, <2>2, <3>1
    <3>3. i \in 1..Len(frames')
      BY <1>3, <3>1
    <3>4. QED
      BY <3>2, <3>3 DEF Waits
  <2>3. QED
    BY <1>7, <1>9, <2>1, <2>2 DEF Waits, n
<1>10. CallsWait'
  BY <1>1, <1>5, <1>8, <1>9, ProgramKept DEF CallsWait, SecondPassInv
<1>11. FramesNested'
  <2> SUFFICES ASSUME NEW i \in 1..(n - 1) PROVE FrameNested(i)' /\ TodoFresh(i)'
    BY <1>3 DEF FramesNested
  <2>1. /\ FrameNested(i) /\ TodoFresh(i) /\ frames'[i] = frames[i] /\ FrameOf(i)' = FrameOf(i)
        /\ i < Len(frames) /\ i \in 1..n
    BY <1>2, <1>3, <1>4, <1>6 DEF n
  <2>2. FrameNested(i)'
    <3>1. i > 1 => FrameOf(i - 1)' = FrameOf(i - 1)
      BY <1>2, <1>4
    <3>2. QED
      BY <1>1, <2>1, <3>1, ProgramKept DEF FrameNested
  <2>3. TodoFresh(i)'
    <3>1. \A j \in (i + 1)..(n - 1) : FrameOf(j)' = FrameOf(j) /\ j \in (i + 1)..n
      BY <1>2, <1>4
    <3>2. QED
      BY <1>1, <1>3, <2>1, <3>1 DEF TodoFresh, n
  <2>4. QED
    BY <2>2, <2>3
<1>12. QED
  BY <1>1, <1>8, <1>10, <1>11 DEF MatchInv, SecondPassInv

(* What is in the frame of a call has the call in the graph.               *)
LEMMA CloneHasCaller ==
    ASSUME Inv, LabelsRight, NEW l \in DOMAIN neighbours, l.stack_frame_prefix # <<>>
    PROVE  /\ l \in Inner /\ l \in Label /\ l.stack_frame_prefix \in Prefix
           /\ CallerOf(l.stack_frame_prefix) \in DOMAIN neighbours
           /\ l.stack_frame_prefix[1] < next
           /\ l.from >= Callee(CallerOf(l.stack_frame_prefix))
<1>1. l \in Inner
  BY EntryExitParts DEF Inner
<1>2. CloneRight(l)
  BY <1>1 DEF LabelsRight
<1>3. l \in Label /\ l.stack_frame_prefix \in Prefix
  BY InvFacts DEF Label
<1>4. QED
  BY <1>1, <1>2, <1>3 DEF CloneRight

LEMMA AppendFacts ==
    ASSUME NEW s \in Seq(Int), NEW a \in Int
    PROVE  /\ Append(s, a) \in Seq(Int) /\ Append(s, a) # <<>> /\ Append(s, a) # s
           /\ Len(Append(s, a)) = Len(s) + 1 /\ Len(s) \in Nat
           /\ Append(s, a)[Len(Append(s, a))] = a
           /\ SubSeq(Append(s, a), 1, Len(Append(s, a)) - 1) = s
<1>1. Len(Append(s, a)) = Len(s) + 1 /\ Len(s) \in Nat
  OBVIOUS
<1>2. QED
  BY <1>1

(* The caller of a frame.                                                  *)
LEMMA CallerOfFrame ==
    ASSUME NEW l \in Label, l.to = -1
    PROVE  CallerOf(FramePrefix(l)) = l
<1> DEFINE p == l.stack_frame_prefix
           q == Append(p, l.from)
<1>1. p \in Seq(Int) /\ l.from \in Int /\ Len(p) \in Nat
  BY DEF Label, Prefix
<1>2. Len(q) = Len(p) + 1 /\ q[Len(q)] = l.from /\ SubSeq(q, 1, Len(q) - 1) = p
  BY <1>1
<1>3. CallerOf(q) = MkLabel(p, l.from, -1)
  BY <1>2 DEF CallerOf, At
<1>4. QED
  BY <1>3, LabelParts DEF FramePrefix

LEMMA CallerOfParts ==
    \A p : CallerOf(p).stack_frame_prefix = SubSeq(p, 1, Len(p) - 1)
BY DEF CallerOf, At, MkLabel

(* Frames of different calls differ.                                       *)
LEMMA FramePrefixInjective ==
    ASSUME NEW a \in Label, NEW b \in Label, a.to = -1, b.to = -1, FramePrefix(a) = FramePrefix(b)
    PROVE  a = b
BY CallerOfFrame

(* A call returns to the label past it.                                    *)
LEMMA CallReturns ==
    ASSUME prog \in Seq(Inst), Len(prog) < INT_MAX, FunctionsForward(prog),
           NEW l \in Label, IsCall(l)
    PROVE  /\ StepOver(l) = {Leave(FramePrefix(l))}
           /\ Leave(FramePrefix(l)) = MkLabel(l.stack_frame_prefix, l.from + 1, -1)
           /\ l.from + 1 \in PCs
<1>1. l.from \in PCs /\ l.from + 1 \in PCs /\ ~ IsLast(l.from)
  <2>1. l.from \in PCs /\ InstAt(l.from).op = "call"
    BY DEF IsCall
  <2>2. l.from + 1 \in PCs
    BY <2>1, FunctionForward
  <2>3. QED
    BY <2>1, <2>2, PcFacts DEF IsLast
<1>2. StepOver(l) = {MkLabel(l.stack_frame_prefix, l.from + 1, -1)}
  BY <1>1 DEF StepOver, FallTo, At
<1>3. Leave(FramePrefix(l)) = MkLabel(l.stack_frame_prefix, l.from + 1, -1)
  <2>1. l.stack_frame_prefix \in Seq(Int) /\ l.from \in Int
    BY DEF Label, Prefix
  <2> DEFINE s == l.stack_frame_prefix
             q == Append(s, l.from)
  <2>2. q # <<>> /\ q[Len(q)] = l.from /\ SubSeq(q, 1, Len(q) - 1) = s
    BY <2>1
  <2>3. Leave(q) = MkLabel(s, l.from + 1, -1)
    BY <1>1, <2>2 DEF Leave, ReturnTo
  <2>4. QED
    BY <2>3 DEF FramePrefix
<1>4. QED
  BY <1>1, <1>2, <1>3

(* Entering a call: nothing of the graph changes.                          *)
LEMMA EnterMacroMatches ==
    ASSUME Inv, MatchInv, pass = "macros", ~ Active,
           NEW caller \in Inner, IsCall(caller), ~ Expanded(caller),
           NEW below \in Seq(Frame), Len(below) = Len(frames),
           EnterMacro(caller, instructions[caller].target, below),
           next' \in Nat, next <= next',
           UNCHANGED <<prog, must_have_exit, neighbours, pass, error>>,
           \A i \in 1..Len(frames) :
               /\ below[i].caller = frames[i].caller
               /\ below[i].exit_to_label = frames[i].exit_to_label
               /\ ~ below[i].walking
               /\ below[i].todo \subseteq frames[i].todo
               /\ \A m \in below[i].todo : Append(FrameOf(i), m.from) # FramePrefix(caller),
           frames = <<>> => caller = Plain(next' - 1),
           frames # <<>> => /\ next' = next /\ caller.from >= next
                            /\ caller.stack_frame_prefix = FrameOf(Len(frames)),
           \A l \in DOMAIN neighbours : l.stack_frame_prefix # FramePrefix(caller),
           \A l \in Inner : IsCall(l) /\ Waits(l) /\ l # caller =>
               \/ l.stack_frame_prefix = <<>> /\ l.from >= next'
               \/ \E i \in 1..Len(frames) : \E m \in below[i].todo : l = Reprefix(m, FrameOf(i))
    PROVE  MatchInv'
<1> DEFINE T == Callee(caller)
           prefix == FramePrefix(caller)
<1>0. PICK n : n = Len(frames)
  OBVIOUS
<1>1. /\ SecondPassInv /\ FunctionsForward(prog) /\ caller \in Label /\ caller \in DOMAIN neighbours
      /\ n \in Nat /\ n = Len(frames) /\ prog \in Seq(Inst) /\ Len(prog) < INT_MAX /\ next \in Nat
      /\ DOMAIN neighbours \subseteq Label
  BY <1>0, InvFacts DEF MatchInv, Inner
<1>2. /\ caller.from \in PCs /\ caller.to = -1 /\ InstAt(caller.from).op = "call"
      /\ T \in PCs /\ T > caller.from /\ T \in Nat /\ ~ IsLast(caller.from)
  <2>1. /\ caller.from \in PCs /\ caller.to = -1 /\ InstAt(caller.from).op = "call"
    BY DEF IsCall
  <2>2. T \in PCs /\ T > caller.from /\ caller.from + 1 \in PCs
    BY <1>1, <2>1, FunctionForward DEF Callee
  <2>3. ~ IsLast(caller.from)
    BY <1>1, <2>1, <2>2, PcFacts DEF IsLast
  <2>4. QED
    BY <1>1, <2>1, <2>2, <2>3, PcFacts
<1>3. instructions[caller].target = T
  BY <1>1, <1>2 DEF SecondPassInv, LabelsRight, LabelRight, Carries, IsJump, Callee
<1>4. PICK exit_to \in neighbours[caller].children :
        /\ neighbours[caller].children = {exit_to}
        /\ frames' = Append(below, [caller        |-> caller,
                                    exit_to_label |-> exit_to,
                                    macro_labels  |-> {Plain(T)},
                                    seen_labels   |-> {Plain(T)},
                                    first         |-> TRUE,
                                    walking       |-> TRUE,
                                    todo          |-> {}])
        /\ instructions' = [instructions EXCEPT ![caller].sfp = prefix]
  BY <1>3 DEF EnterMacro
<1>5. exit_to = Leave(prefix)
  <2>1. neighbours[caller].children \subseteq StepOver(caller)
    BY <1>1 DEF SecondPassInv, EdgesRight, Edges, Inner
  <2>2. StepOver(caller) = {Leave(prefix)}
    BY <1>1, CallReturns
  <2>3. QED
    BY <1>4, <2>1, <2>2
<1>6. /\ Len(frames') = n + 1 /\ frames' # <<>>
      /\ \A i \in 1..n : frames'[i] = below[i]
      /\ Top' = frames'[n + 1]
      /\ Top'.caller = caller /\ Top'.exit_to_label = Leave(prefix)
      /\ Top'.macro_labels = {Plain(T)} /\ Top'.seen_labels = {Plain(T)}
      /\ Top'.first = TRUE /\ Top'.walking = TRUE /\ Top'.todo = {}
  <2> DEFINE f == [caller        |-> caller,
                   exit_to_label |-> exit_to,
                   macro_labels  |-> {Plain(T)},
                   seen_labels   |-> {Plain(T)},
                   first         |-> TRUE,
                   walking       |-> TRUE,
                   todo          |-> {}]
  <2>1. /\ f.caller = caller /\ f.exit_to_label = Leave(prefix)
        /\ f.macro_labels = {Plain(T)} /\ f.seen_labels = {Plain(T)}
        /\ f.first = TRUE /\ f.walking = TRUE /\ f.todo = {}
    BY <1>5
  <2>2. frames' = Append(below, f)
    BY <1>4
  <2>0. f \in Frame
    <3>1. caller \in Label /\ exit_to \in Label /\ Plain(T) \in Label
      BY <1>1, <1>2, <1>4, InvFacts, LabelFacts
    <3>2. QED
      BY <3>1 DEF Frame
  <2> HIDE DEF f
  <2>3. Len(frames') = n + 1 /\ frames' # <<>> /\ frames'[n + 1] = f /\ \A i \in 1..n : frames'[i] = below[i]
    <3>1. below \in Seq(Frame) /\ Len(below) = n /\ n \in Nat
      BY <1>1
    <3>2. QED
      BY <2>0, <2>2, <3>1
  <2>4. Top' = f
    BY <2>3 DEF Top
  <2>5. QED
    BY <2>1, <2>3, <2>4
<1>7. /\ Active' /\ TopPrefix' = prefix
      /\ \A i \in 1..n : FrameOf(i)' = FrameOf(i)
      /\ FrameOf(n + 1)' = prefix
  <2>1. Active' /\ TopPrefix' = prefix
    BY <1>6 DEF Active, TopPrefix
  <2>2. \A i \in 1..n : FrameOf(i)' = FrameOf(i)
    BY <1>0, <1>6 DEF FrameOf
  <2>3. FrameOf(n + 1)' = prefix
    BY <1>6 DEF FrameOf
  <2>4. QED
    BY <2>1, <2>2, <2>3
<1> HIDE DEF T, prefix
<1>8. Inner' = Inner /\ \A l : Expanded(l)' <=> Expanded(l)
  BY ProgramKept DEF Inner, Expanded
<1>9. /\ \A l \in DOMAIN neighbours : l # caller => instructions'[l] = instructions[l]
      /\ instructions'[caller].sfp = prefix
      /\ instructions'[caller].op = instructions[caller].op
      /\ instructions'[caller].target = instructions[caller].target
      /\ instructions'[caller].sense = instructions[caller].sense
  <2>1. instructions[caller] \in NodeInst /\ DOMAIN instructions = DOMAIN neighbours
    BY <1>1 DEF Inv, TypeOK
  <2>2. QED
    BY <1>1, <1>4, <2>1 DEF NodeInst
<1>10. LabelsRight'
  <2> SUFFICES ASSUME NEW l \in Inner PROVE LabelRight(l)' /\ CloneRight(l)'
    BY <1>8 DEF LabelsRight
  <2>1. l \in Label /\ LabelRight(l) /\ CloneRight(l) /\ l \in DOMAIN neighbours
    BY <1>1 DEF SecondPassInv, LabelsRight, Inner
  <2>2. instructions[caller].op = "call"
    BY <1>1, <1>2 DEF SecondPassInv, LabelsRight, LabelRight, Carries, IsJump
  <2>3. QED
    BY <1>1, <1>9, <2>1, <2>2, LabelKept
<1>11. EdgesRight'
  <2> SUFFICES ASSUME NEW l \in DOMAIN neighbours \ {ExitLabel} PROVE neighbours[l].children = Edges(l)'
    BY DEF EdgesRight
  <2>1. neighbours[l].children = IF Expanded(l) THEN {FirstClone(l)} ELSE StepOver(l) \cap DOMAIN neighbours
    BY <1>1 DEF SecondPassInv, EdgesRight, Edges
  <2>2. Expanded(l) => l # Top'.caller
    BY <1>6
  <2>3. CASE Expanded(l)
    <3>1. Expanded(l)' /\ l # Top'.caller
      BY <1>8, <2>2, <2>3
    <3>2. Edges(l)' = {FirstClone(l)}
      BY <3>1, ProgramKept DEF Edges
    <3>3. QED
      BY <2>1, <2>3, <3>2
  <2>4. CASE ~ Expanded(l)
    <3>1. ~ Expanded(l)'
      BY <1>8, <2>4
    <3>2. Edges(l)' = StepOver(l) \cap DOMAIN neighbours
      BY <3>1, ProgramKept DEF Edges
    <3>3. QED
      BY <2>1, <2>4, <3>2
  <2>5. QED
    BY <2>3, <2>4
<1>12. Closed'
  <2> SUFFICES ASSUME NEW l \in DOMAIN neighbours \ {ExitLabel} PROVE StepOver(l)' \subseteq DOMAIN neighbours
    BY DEF Closed
  <2>1. StepOver(l) \subseteq DOMAIN neighbours
    BY <1>1 DEF SecondPassInv, Closed, Coming
  <2>2. QED
    BY <2>1, ProgramKept
<1>13. CallsWait'
  <2> SUFFICES ASSUME NEW l \in Inner, IsCall(l)
               PROVE  /\ Expanded(l)' => instructions'[l].sfp = FramePrefix(l)
                      /\ ~ Expanded(l)' => Waits(l)'
    BY <1>8, ProgramKept DEF CallsWait
  <2>1. l \in DOMAIN neighbours
    BY DEF Inner
  <2>2. CASE l = caller
    BY <1>6, <1>7, <1>8, <2>2 DEF Waits
  <2>3. CASE l # caller
    <3>1. Expanded(l) => instructions'[l].sfp = FramePrefix(l)
      BY <1>1, <1>9, <2>1, <2>3 DEF SecondPassInv, CallsWait
    <3>2. ASSUME ~ Expanded(l) PROVE Waits(l)'
      <4>1. Waits(l)
        BY <1>1, <3>2 DEF SecondPassInv, CallsWait
      <4>2. CASE l.stack_frame_prefix = <<>> /\ l.from >= next'
        BY <4>2 DEF Waits
      <4>3. ASSUME NEW i \in 1..n, NEW m \in below[i].todo, l = Reprefix(m, FrameOf(i)) PROVE Waits(l)'
        <5>1. i \in 1..Len(frames') /\ m \in frames'[i].todo /\ l = Reprefix(m, FrameOf(i)')
          BY <1>1, <1>6, <1>7, <4>3
        <5>2. QED
          BY <5>1 DEF Waits
      <4>4. QED
        BY <1>0, <2>3, <4>1, <4>2, <4>3
    <3>3. QED
      BY <1>8, <3>1, <3>2
  <2>4. QED
    BY <2>2, <2>3
<1>14. FramesNested'
  <2>1. ASSUME NEW i \in 1..n PROVE FrameNested(i)' /\ TodoFresh(i)'
    <3>1. /\ FrameNested(i) /\ TodoFresh(i) /\ i \in Nat /\ i < n + 1 /\ i \in 1..Len(frames)
      BY <1>0, <1>1, <2>1 DEF SecondPassInv, FramesNested
    <3>2. /\ frames'[i].caller = frames[i].caller /\ frames'[i].exit_to_label = frames[i].exit_to_label
          /\ ~ frames'[i].walking /\ frames'[i].todo \subseteq frames[i].todo
          /\ frames'[i] = below[i] /\ FrameOf(i)' = FrameOf(i)
      BY <1>6, <1>7, <3>1
    <3>3. next' = next
      BY <1>0, <1>1, <2>1
    <3>4. instructions'[frames[i].caller].sfp = FrameOf(i)
      <4>1. frames[i].caller \in DOMAIN neighbours
        BY <3>1 DEF Inv, FrameOK
      <4>2. QED
        BY <1>9, <3>1, <4>1 DEF FrameNested, FrameOf, prefix
    <3>5. i > 1 => FrameOf(i - 1)' = FrameOf(i - 1)
      BY <1>1, <1>7
    <3>6. FrameNested(i)'
      BY <3>1, <3>2, <3>3, <3>4, <3>5, ProgramKept DEF FrameNested
    <3>7. TodoFresh(i)'
      <4> SUFFICES ASSUME NEW m \in frames'[i].todo
                   PROVE  /\ m.stack_frame_prefix = <<>>
                          /\ \A l \in DOMAIN neighbours : l.stack_frame_prefix # Append(FrameOf(i), m.from)
                          /\ \A j \in (i + 1)..(n + 1) : FrameOf(j)' # Append(FrameOf(i), m.from)
        BY <1>6, <3>2 DEF TodoFresh
      <4>1. m \in frames[i].todo
        BY <3>2
      <4>2. /\ m.stack_frame_prefix = <<>>
            /\ \A l \in DOMAIN neighbours : l.stack_frame_prefix # Append(FrameOf(i), m.from)
            /\ \A j \in (i + 1)..n : FrameOf(j) # Append(FrameOf(i), m.from)
        BY <1>0, <3>1, <4>1 DEF TodoFresh
      <4>3. Append(FrameOf(i), m.from) # prefix
        BY <3>1, <3>2 DEF prefix
      <4>4. \A j \in (i + 1)..(n + 1) : j = n + 1 \/ (j \in (i + 1)..n /\ j \in 1..n)
        BY <1>1, <3>1
      <4>5. ASSUME NEW j \in (i + 1)..(n + 1) PROVE FrameOf(j)' # Append(FrameOf(i), m.from)
        <5>1. CASE j = n + 1
          BY <1>7, <4>3, <5>1
        <5>2. CASE j \in (i + 1)..n /\ j \in 1..n
          BY <1>7, <4>2, <5>2
        <5>3. QED
          BY <4>4, <4>5, <5>1, <5>2
      <4>6. QED
        BY <4>2, <4>5
    <3>8. QED
      BY <3>6, <3>7
  <2>2. FrameNested(n + 1)' /\ TodoFresh(n + 1)'
    <3>1. n + 1 = 1 => caller = Plain(next' - 1)
      <4>1. n = 0 => frames = <<>>
        <5>1. frames \in Seq(Frame)
          BY InvFacts
        <5>2. QED
          BY <1>0, <5>1, EmptySeq
      <4>2. QED
        BY <1>1, <4>1
    <3>2. n + 1 > 1 => caller.from >= next' /\ caller.stack_frame_prefix = FrameOf(n)'
      <4>1. n > 0 => frames # <<>>
        BY <1>0
      <4>2. n > 0 => n \in 1..n
        BY <1>1
      <4>3. QED
        BY <1>0, <1>1, <1>7, <4>1, <4>2
    <3>3. /\ frames'[n + 1].caller = caller /\ frames'[n + 1].exit_to_label = Leave(prefix)
          /\ frames'[n + 1].todo = {} /\ Len(frames') = n + 1
      BY <1>6
    <3>4. (n + 1) - 1 = n /\ ~ (n + 1 < n + 1)
      BY <1>1
    <3>5. FrameNested(n + 1)'
      BY <1>7, <1>9, <3>1, <3>2, <3>3, <3>4, ProgramKept DEF FrameNested
    <3>6. QED
      BY <3>3, <3>5 DEF TodoFresh
  <2>3. \A i \in 1..(n + 1) : i \in 1..n \/ i = n + 1
    BY <1>1
  <2>4. QED
    BY <1>6, <2>1, <2>2, <2>3 DEF FramesNested
<1>15. WalkOK'
  <2>1. Callee(Top.caller)' = T
    BY <1>6, ProgramKept DEF T
  <2>2. Plain(T).stack_frame_prefix = <<>> /\ Plain(T).from = T /\ T >= T
    BY <1>2, LabelParts DEF Plain
  <2>3. \A x \in DOMAIN neighbours : x.stack_frame_prefix # prefix
    BY DEF prefix
  <2>4. ASSUME NEW x \in DOMAIN neighbours, NEW k \in Int, x.stack_frame_prefix = Append(prefix, k)
        PROVE  FALSE
    <3>1. prefix \in Seq(Int)
      BY <1>1, FramePrefixFacts DEF prefix, Prefix
    <3>2. x.stack_frame_prefix # <<>> /\ SubSeq(x.stack_frame_prefix, 1, Len(x.stack_frame_prefix) - 1) = prefix
      <4> HIDE DEF prefix
      <4>1. /\ Append(prefix, k) # <<>>
            /\ SubSeq(Append(prefix, k), 1, Len(Append(prefix, k)) - 1) = prefix
        BY <2>4, <3>1, AppendFacts
      <4>2. QED
        BY <2>4, <4>1, Zenon
    <3>3. CallerOf(x.stack_frame_prefix) \in DOMAIN neighbours
      BY <1>1, <3>2, CloneHasCaller DEF SecondPassInv
    <3>4. CallerOf(x.stack_frame_prefix).stack_frame_prefix = prefix
      BY <3>2, CallerOfParts
    <3>5. QED
      BY <2>3, <3>3, <3>4
  <2>5. QED
    BY <1>6, <1>7, <2>1, <2>2, <2>3, <2>4 DEF WalkOK
<1>16. QED
  BY <1>10, <1>11, <1>12, <1>13, <1>14, <1>15 DEF MatchInv, SecondPassInv

LEMMA ReplaceMacroMatches ==
    ASSUME Inv, MatchInv, ReplaceMacro
    PROVE  MatchInv'
<1> DEFINE caller == Plain(next)
           below == <<>>
<1>1. /\ UNCHANGED <<prog, must_have_exit, neighbours, pass, error>>
      /\ pass = "macros" /\ frames = <<>> /\ next \in PCs /\ InstAt(next).op = "call" /\ next' = next + 1
      /\ EnterMacro(caller, InstAt(next).target, below)
  BY DEF ReplaceMacro, ReplacingMacros
<1>2. /\ next \in Nat /\ next' \in Nat /\ next <= next' /\ next' - 1 = next /\ SecondPassInv
      /\ next # -1 /\ next # INT_MAX /\ DOMAIN neighbours \subseteq Label
  BY <1>1, InvFacts, PcFacts DEF MatchInv
<1>3. caller.from = next /\ caller.to = -1 /\ caller.stack_frame_prefix = <<>> /\ caller \in Label
  BY <1>2, LabelFacts
<1>4. caller \in Inner
  <2>1. caller \in DOMAIN neighbours
    BY <1>1 DEF Inv, PlainInv, DefinedPCs
  <2>2. QED
    BY <1>2, <1>3, <2>1, EntryExitParts DEF Inner
<1>5. IsCall(caller)
  BY <1>1, <1>3 DEF IsCall
<1>6. \A l \in DOMAIN neighbours : l.stack_frame_prefix # FramePrefix(caller)
  <2> SUFFICES ASSUME NEW l \in DOMAIN neighbours, l.stack_frame_prefix = FramePrefix(caller) PROVE FALSE
    OBVIOUS
  <2>1. FramePrefix(caller) = <<next>>
    BY <1>2, <1>3 DEF FramePrefix
  <2>2. l.stack_frame_prefix # <<>> /\ l.stack_frame_prefix[1] = next
    BY <2>1
  <2>3. l.stack_frame_prefix[1] < next
    BY <1>2, <2>2, CloneHasCaller DEF SecondPassInv
  <2>4. QED
    BY <1>2, <2>2, <2>3
<1>7. ~ Expanded(caller)
  BY <1>6, FirstCloneParts DEF Expanded
<1>8. instructions[caller].target = InstAt(next).target
  BY <1>2, <1>3, <1>4 DEF SecondPassInv, LabelsRight, LabelRight, Carries, IsJump
<1>9. ASSUME NEW l \in Inner, IsCall(l), Waits(l), l # caller
      PROVE  l.stack_frame_prefix = <<>> /\ l.from >= next'
  <2>1. l.stack_frame_prefix = <<>> /\ l.from >= next
    BY <1>1, <1>9 DEF Waits, Active
  <2>2. l \in Label /\ l.from \in Int
    BY <1>2 DEF Inner, Label
  <2>3. l = MkLabel(<<>>, l.from, -1)
    BY <1>9, <2>1, <2>2, LabelParts DEF IsCall
  <2>4. l.from # next
    BY <1>9, <2>3 DEF Plain
  <2>5. QED
    BY <1>1, <1>2, <2>1, <2>2, <2>4
<1>10. below \in Seq(Frame) /\ Len(below) = Len(frames) /\ 1..Len(frames) = {}
  BY <1>1
<1>11. ~ Active
  BY <1>1 DEF Active
<1> HIDE DEF caller, below
<1>12. EnterMacro(caller, instructions[caller].target, below)
  BY <1>1, <1>8
<1>13. caller = Plain(next' - 1)
  BY <1>2 DEF caller
<1>14. QED
  BY <1>1, <1>2, <1>4, <1>5, <1>6, <1>7, <1>9, <1>10, <1>11, <1>12, <1>13, EnterMacroMatches

(* The caller of the innermost frame is next - 1 or comes after it, and    *)
(* its callee after that.                                                  *)
LEMMA TopCaller ==
    ASSUME Inv, SecondPassInv, FunctionsForward(prog), frames # <<>>
    PROVE  /\ IsCall(Top.caller) /\ Top.caller \in Inner /\ Top.caller \in Label
           /\ Callee(Top.caller) \in PCs /\ Callee(Top.caller) \in Nat
           /\ Callee(Top.caller) >= next
           /\ Len(frames) > 1 => Callee(Top.caller) > next
           /\ Len(frames) = 1 => Top.caller = Plain(next - 1)
           /\ Top.exit_to_label = Leave(TopPrefix) /\ TopPrefix = FrameOf(Len(frames))
           /\ CallerOf(TopPrefix) = Top.caller
           /\ TopPrefix[1] < next
<1>1. /\ Len(frames) \in Nat \ {0} /\ Top = frames[Len(frames)]
      /\ FrameOK(Top, Len(frames), neighbours, instructions) /\ Top.caller \in Label
  BY TopFacts
<1>2. FrameNested(Len(frames))
  BY <1>1 DEF SecondPassInv, FramesNested
<1>3. /\ prog \in Seq(Inst) /\ Len(prog) < INT_MAX /\ next \in Nat
      /\ Top.caller \in DOMAIN neighbours
  BY <1>1, InvFacts DEF FrameOK
<1>4. IsCall(Top.caller)
  BY <1>1, <1>2 DEF FrameNested
<1>5. /\ Top.caller.from \in PCs /\ Top.caller.from \in Nat
      /\ Callee(Top.caller) \in PCs /\ Callee(Top.caller) \in Nat /\ Callee(Top.caller) > Top.caller.from
  BY <1>3, <1>4, FunctionForward, PcFacts DEF IsCall, Callee
<1>6. /\ Len(frames) = 1 => Top.caller = Plain(next - 1) /\ Top.caller.from = next - 1
      /\ Len(frames) > 1 => Top.caller.from >= next
  BY <1>1, <1>2, LabelParts DEF FrameNested, Plain
<1>7. Len(frames) = 1 \/ Len(frames) > 1
  <2>1. PICK k : k = Len(frames)
    OBVIOUS
  <2>2. k \in Nat \ {0}
    BY <2>1, TopFacts
  <2>3. k = 1 \/ k > 1
    BY ONLY <2>2
  <2>4. QED
    BY <2>1, <2>3
<1>8. Top.caller \in Inner
  BY <1>3, <1>4, EntrySteps DEF Inner
<1>9. Top.exit_to_label = Leave(TopPrefix) /\ TopPrefix = FrameOf(Len(frames))
  BY <1>1, <1>2 DEF FrameNested, FrameOf, TopPrefix
<1>10. CallerOf(TopPrefix) = Top.caller
  BY <1>1, <1>4, CallerOfFrame DEF TopPrefix, IsCall
<1>11. TopPrefix[1] < next
  <2>1. PICK p : p = Top.caller.stack_frame_prefix
    OBVIOUS
  <2>2. p \in Seq(Int) /\ Top.caller.from \in Int /\ TopPrefix = Append(p, Top.caller.from) /\ Len(p) = Len(frames) - 1
    BY <1>1, <1>5, <2>1 DEF Label, Prefix, TopPrefix, FramePrefix, FrameOK
  <2>3. CASE p = <<>>
    <3>1. Len(frames) = 1
      BY <1>1, <2>2, <2>3
    <3>2. TopPrefix[1] = Top.caller.from
      BY <2>2, <2>3
    <3>3. QED
      BY <1>3, <1>6, <3>1, <3>2
  <2>4. CASE p # <<>>
    <3>1. p[1] < next
      BY <1>3, <2>1, <2>4, CloneHasCaller DEF SecondPassInv
    <3>2. TopPrefix[1] = p[1]
      BY <2>2, <2>4, EmptySeq
    <3>3. QED
      BY <3>1, <3>2
  <2>5. QED
    BY <2>3, <2>4
<1>12. QED
  BY <1>1, <1>3, <1>4, <1>5, <1>6, <1>7, <1>8, <1>9, <1>10, <1>11

(* The clones of the innermost frame are from its callee on.               *)
LEMMA CloneOfTop ==
    ASSUME Inv, SecondPassInv, FunctionsForward(prog), frames # <<>>,
           NEW l \in DOMAIN neighbours, l.stack_frame_prefix = TopPrefix
    PROVE  l \in Inner /\ l.from \in PCs /\ l.from >= Callee(Top.caller) /\ l.from >= next
<1>1. TopPrefix # <<>> /\ Callee(Top.caller) \in Nat /\ Callee(Top.caller) >= next /\ next \in Nat
  BY TopFacts, TopCaller, InvFacts
<1>2. l \in Inner /\ l.from >= Callee(Top.caller)
  BY <1>1, CloneHasCaller, TopCaller DEF SecondPassInv
<1>3. l.from \in PCs /\ l.from \in Nat
  BY <1>2, InvFacts, PcFacts DEF SecondPassInv, LabelsRight, LabelRight, Proper
<1>4. QED
  BY <1>1, <1>2, <1>3

(* The frames of the activations.                                          *)
LEMMA FrameFacts ==
    ASSUME Inv, NEW i \in 1..Len(frames)
    PROVE  /\ FrameOf(i) \in Prefix /\ FrameOf(i) # <<>> /\ Len(FrameOf(i)) = i
           /\ frames[i] \in Frame /\ frames[i].caller \in Label
           /\ FrameOK(frames[i], i, neighbours, instructions)
<1>1. frames[i] \in Frame /\ frames[i].caller \in Label
  <2>1. frames \in Seq(Frame)
    BY InvFacts
  <2>2. frames[i] \in Frame
    BY <2>1
  <2>3. QED
    BY <2>2 DEF Frame
<1>2. FrameOK(frames[i], i, neighbours, instructions)
  BY DEF Inv
<1>3. Len(frames[i].caller.stack_frame_prefix) = i - 1
  BY <1>2 DEF FrameOK
<1>4. /\ FrameOf(i) \in Prefix /\ FrameOf(i) # <<>>
      /\ Len(FrameOf(i)) = Len(frames[i].caller.stack_frame_prefix) + 1
  BY <1>1, FramePrefixFacts DEF FrameOf
<1>5. QED
  BY <1>1, <1>2, <1>3, <1>4

(* A label that does what a call does is a call.                           *)
LEMMA CallByInstruction ==
    ASSUME Inv, LabelsRight, NEW l \in Inner
    PROVE  instructions[l].op = "call" <=> IsCall(l)
BY DEF LabelsRight, LabelRight, Carries, IsJump, IsCall, Proper

LEMMA ReplaceNestedMacroMatches ==
    ASSUME Inv, MatchInv, frames # <<>>, NEW l \in Top.todo, ReplaceNestedMacro(l)
    PROVE  MatchInv'
<1> DEFINE caller == Reprefix(l, TopPrefix)
           f == [Top EXCEPT !.todo = @ \ {l}]
           below == SetTop(f)
<1>1. /\ pass = "macros" /\ ~ Top.walking
      /\ EnterMacro(caller, instructions[caller].target, below)
      /\ UNCHANGED <<prog, must_have_exit, neighbours, pass, next, error>>
  BY DEF ReplaceNestedMacro, Recursing
<1>2. PICK n : n = Len(frames)
  OBVIOUS
<1>3. /\ SecondPassInv /\ LabelsRight /\ FunctionsForward(prog) /\ next \in Nat /\ ~ Active
      /\ n \in Nat \ {0} /\ Top = frames[n] /\ n \in 1..n /\ TopPrefix = FrameOf(n)
      /\ DOMAIN neighbours \subseteq Label
  <2>1. SecondPassInv /\ LabelsRight /\ FunctionsForward(prog) /\ next \in Nat
    BY <1>1, InvFacts DEF MatchInv, SecondPassInv
  <2>2. n \in Nat \ {0} /\ Top = frames[n]
    BY <1>2, TopFacts
  <2>3. TopPrefix = FrameOf(n)
    BY <2>2 DEF TopPrefix, FrameOf
  <2>4. QED
    BY <1>1, <2>1, <2>2, <2>3, InvFacts DEF Active
<1>4. ASSUME NEW m \in Top.todo
      PROVE  /\ m \in Label /\ m.stack_frame_prefix = <<>>
             /\ Reprefix(m, TopPrefix) \in Inner /\ IsCall(Reprefix(m, TopPrefix))
             /\ \A x \in DOMAIN neighbours : x.stack_frame_prefix # Append(TopPrefix, m.from)
             /\ m = Plain(m.from)
  <2> DEFINE x == Reprefix(m, TopPrefix)
  <2>1. m \in Label /\ x \in DOMAIN neighbours /\ instructions[x].op = "call"
    BY TopFacts DEF FrameOK, Frame, TopPrefix
  <2>2. TodoFresh(n)
    BY <1>2, <1>3 DEF SecondPassInv, FramesNested
  <2>3. m.stack_frame_prefix = <<>> /\ \A y \in DOMAIN neighbours : y.stack_frame_prefix # Append(TopPrefix, m.from)
    BY <1>3, <2>2 DEF TodoFresh
  <2>4. x \in Inner
    BY <2>1, TopFacts, ReprefixFacts DEF Inner
  <2>5. IsCall(x)
    BY <1>3, <2>1, <2>4, CallByInstruction
  <2>6. m.to = -1
    BY <2>5, LabelParts DEF IsCall
  <2>7. QED
    BY <2>1, <2>3, <2>4, <2>5, <2>6, LabelParts DEF Plain
<1>5. /\ l \in Label /\ caller \in Inner /\ IsCall(caller) /\ caller.stack_frame_prefix = TopPrefix
      /\ FramePrefix(caller) = Append(TopPrefix, l.from)
      /\ \A x \in DOMAIN neighbours : x.stack_frame_prefix # FramePrefix(caller)
  <2>1. caller.stack_frame_prefix = TopPrefix /\ caller.from = l.from
    BY LabelParts
  <2>2. QED
    BY <1>4, <2>1 DEF FramePrefix
<1>6. ~ Expanded(caller)
  BY <1>5, FirstCloneParts DEF Expanded
<1>7. caller.from >= next /\ caller.stack_frame_prefix = FrameOf(n)
  <2>1. caller \in DOMAIN neighbours
    BY <1>5 DEF Inner
  <2>2. QED
    BY <1>3, <1>5, <2>1, CloneOfTop
<1>8. /\ f \in Frame /\ f.caller = Top.caller /\ f.exit_to_label = Top.exit_to_label
      /\ f.todo = Top.todo \ {l} /\ ~ f.walking
  BY <1>1, TopFacts DEF Frame
<1>9. /\ below \in Seq(Frame) /\ Len(below) = n /\ below[n] = f
      /\ \A i \in 1..n : i # n => below[i] = frames[i]
  BY <1>2, <1>8, SetTopFacts
<1> HIDE DEF caller, f, below
<1>10. ASSUME NEW i \in 1..n, i # n, NEW m \in frames[i].todo
       PROVE  Append(FrameOf(i), m.from) # FramePrefix(caller)
  <2>1. FrameOf(i) \in Seq(Int) /\ FrameOf(n) \in Seq(Int) /\ Len(FrameOf(i)) = i /\ Len(FrameOf(n)) = n
    BY <1>2, <1>3, FrameFacts DEF Prefix
  <2>2. m \in Label /\ m.from \in Int /\ l.from \in Int
    BY <1>2, <1>5, FrameFacts DEF Frame, Label
  <2>3. \A p \in Seq(Int), a \in Int : Len(Append(p, a)) = Len(p) + 1
    OBVIOUS
  <2>4. i + 1 # n + 1
    BY <1>3, <1>10
  <2>5. Append(FrameOf(i), m.from) # Append(FrameOf(n), l.from)
    BY <2>1, <2>2, <2>3, <2>4
  <2>6. QED
    BY <1>3, <1>5, <2>5
<1>11. ASSUME NEW m \in Top.todo \ {l}
       PROVE  Append(FrameOf(n), m.from) # FramePrefix(caller)
  <2>1. m.from # l.from
    BY <1>4
  <2>2. TopPrefix \in Seq(Int) /\ m.from \in Int /\ l.from \in Int
    BY <1>4, <1>5, TopFacts DEF Label, Prefix
  <2>3. Append(TopPrefix, m.from) # Append(TopPrefix, l.from)
    <3>1. PICK p : p = TopPrefix
      OBVIOUS
    <3>2. PICK a, b : a = m.from /\ b = l.from
      OBVIOUS
    <3>3. p \in Seq(Int) /\ a \in Int /\ b \in Int /\ a # b
      BY <2>1, <2>2, <3>1, <3>2
    <3>4. Append(p, a)[Len(p) + 1] = a /\ Append(p, b)[Len(p) + 1] = b
      BY <3>3
    <3>5. QED
      BY <3>1, <3>2, <3>3, <3>4
  <2>4. QED
    BY <1>3, <1>5, <2>3
<1>12. ASSUME NEW i \in 1..Len(frames)
       PROVE  /\ below[i].caller = frames[i].caller
              /\ below[i].exit_to_label = frames[i].exit_to_label
              /\ ~ below[i].walking
              /\ below[i].todo \subseteq frames[i].todo
              /\ \A m \in below[i].todo : Append(FrameOf(i), m.from) # FramePrefix(caller)
  <2>1. CASE i = n
    BY <1>3, <1>8, <1>9, <1>11, <2>1
  <2>2. CASE i # n
    <3>1. FrameNested(i) /\ i < Len(frames)
      BY <1>2, <1>3, <1>12, <2>2 DEF SecondPassInv, FramesNested
    <3>2. QED
      BY <1>2, <1>9, <1>10, <2>2, <3>1 DEF FrameNested
  <2>3. QED
    BY <2>1, <2>2
<1>13. ASSUME NEW x \in Inner, IsCall(x), Waits(x), x # caller
       PROVE  \/ x.stack_frame_prefix = <<>> /\ x.from >= next'
              \/ \E i \in 1..Len(frames) : \E m \in below[i].todo : x = Reprefix(m, FrameOf(i))
  <2>1. CASE x.stack_frame_prefix = <<>> /\ x.from >= next
    BY <1>1, <2>1
  <2>2. ASSUME NEW i \in 1..Len(frames), NEW m \in frames[i].todo, x = Reprefix(m, FrameOf(i))
        PROVE  m \in below[i].todo
    <3>1. CASE i = n
      <4>1. m # l
        BY <1>3, <1>13, <2>2, <3>1 DEF caller
      <4>2. QED
        BY <1>3, <1>8, <1>9, <2>2, <3>1, <4>1
    <3>2. CASE i # n
      BY <1>2, <1>9, <2>2, <3>2
    <3>3. QED
      BY <3>1, <3>2
  <2>3. QED
    BY <1>3, <1>13, <2>1, <2>2 DEF Waits
<1>14. next' \in Nat /\ next <= next' /\ next' = next
  BY <1>1, <1>3
<1>15. Len(below) = Len(frames) /\ (frames = <<>> => caller = Plain(next' - 1))
  BY <1>2, <1>9
<1>16. frames # <<>> => /\ next' = next /\ caller.from >= next
                        /\ caller.stack_frame_prefix = FrameOf(Len(frames))
  BY <1>2, <1>7, <1>14
<1>17. QED
  BY <1>1, <1>3, <1>5, <1>6, <1>9, <1>12, <1>13, <1>14, <1>15, <1>16, EnterMacroMatches


(* Closing the walk: the edge past the call goes, calls it saw are next.   *)
LEMMA EndWalkMatches ==
    ASSUME Inv, MatchInv, EndWalk
    PROVE  MatchInv'
<1> DEFINE todo == {l \in Top.seen_labels : instructions[Reprefix(l, TopPrefix)].op = "call"}
           f == [Top EXCEPT !.walking = FALSE, !.todo = todo]
           c == Top.caller
<1>1. /\ pass = "macros" /\ frames # <<>> /\ Top.walking /\ Top.macro_labels = {}
      /\ neighbours' = remove_child(neighbours, c, Top.exit_to_label)
      /\ frames' = SetTop(f)
      /\ UNCHANGED <<prog, must_have_exit, instructions, pass, next, error>>
  BY DEF EndWalk
<1>2. PICK n : n = Len(frames)
  OBVIOUS
<1>3. /\ SecondPassInv /\ LabelsRight /\ FunctionsForward(prog) /\ next \in Nat /\ Active
      /\ n \in Nat \ {0} /\ Top = frames[n] /\ n \in 1..n /\ TopPrefix = FrameOf(n)
      /\ DOMAIN neighbours \subseteq Label /\ prog \in Seq(Inst) /\ Len(prog) < INT_MAX
  <2>1. SecondPassInv /\ LabelsRight /\ FunctionsForward(prog) /\ next \in Nat
    BY <1>1, InvFacts DEF MatchInv, SecondPassInv
  <2>2. n \in Nat \ {0} /\ Top = frames[n]
    BY <1>1, <1>2, TopFacts
  <2>3. TopPrefix = FrameOf(n)
    BY <2>2 DEF TopPrefix, FrameOf
  <2>4. QED
    BY <1>1, <2>1, <2>2, <2>3, InvFacts DEF Active
<1>4. /\ c \in Label /\ c \in Inner /\ IsCall(c) /\ Top.exit_to_label = Leave(TopPrefix)
      /\ TopPrefix = FramePrefix(c)
  BY <1>1, <1>3, TopCaller DEF TopPrefix
<1>5. FirstClone(c) \in DOMAIN neighbours /\ Expanded(c)
  <2>1. ~ Top.first
    BY <1>1, <1>3 DEF SecondPassInv, WalkOK
  <2>2. QED
    BY <1>3, <1>4, <2>1 DEF SecondPassInv, WalkOK, Expanded
<1>6. /\ f \in Frame /\ f.caller = c /\ f.exit_to_label = Top.exit_to_label
      /\ f.todo = todo /\ f.walking = FALSE
  <2>1. todo \subseteq Label /\ Top \in Frame
    BY <1>1, TopFacts DEF Frame
  <2> HIDE DEF todo
  <2>2. QED
    BY <2>1 DEF Frame
<1>7. /\ Len(frames') = n /\ frames' # <<>> /\ frames'[n] = f /\ Top' = f
      /\ \A i \in 1..n : i # n => frames'[i] = frames[i]
  <2>1. /\ Len(frames') = n /\ frames'[n] = f
        /\ \A i \in 1..n : i # n => frames'[i] = frames[i]
    BY <1>1, <1>2, <1>6, SetTopFacts
  <2>2. frames' # <<>>
    BY <1>3, <2>1
  <2> HIDE DEF f
  <2>3. Top' = f
    BY <2>1 DEF Top
  <2>4. QED
    BY <2>1, <2>2, <2>3
<1>8. ~ Active'
  BY <1>6, <1>7 DEF Active
<1>9. /\ DOMAIN neighbours' = DOMAIN neighbours
      /\ \A l \in DOMAIN neighbours : l # c => neighbours'[l].children = neighbours[l].children
      /\ neighbours'[c].children = neighbours[c].children \ {Leave(TopPrefix)}
  BY <1>1, <1>4 DEF remove_child, Inner
<1> HIDE DEF f, c
<1>10. \A i \in 1..n : FrameOf(i)' = FrameOf(i) /\ frames'[i].caller = frames[i].caller
                       /\ frames'[i].exit_to_label = frames[i].exit_to_label
  BY <1>3, <1>6, <1>7 DEF FrameOf, c
<1>11. Inner' = Inner /\ \A l : Expanded(l)' <=> Expanded(l)
  BY <1>1, <1>9, ProgramKept DEF Inner, Expanded
<1>12. LabelsRight'
  <2> SUFFICES ASSUME NEW l \in Inner PROVE LabelRight(l)' /\ CloneRight(l)'
    BY <1>11 DEF LabelsRight
  <2>1. l \in Label /\ LabelRight(l) /\ CloneRight(l)
    BY <1>3 DEF LabelsRight, Inner
  <2>2. QED
    BY <1>1, <1>3, <1>9, <2>1, LabelKept
<1>13. EdgesRight'
  <2> SUFFICES ASSUME NEW l \in DOMAIN neighbours \ {ExitLabel} PROVE neighbours'[l].children = Edges(l)'
    BY <1>9 DEF EdgesRight
  <2>1. neighbours[l].children = Edges(l)
    BY <1>3 DEF SecondPassInv, EdgesRight
  <2>2. CASE l = c
    <3>1. neighbours[c].children = {FirstClone(c)} \cup {Leave(TopPrefix)}
      <4>1. StepOver(c) = {Leave(TopPrefix)}
        BY <1>3, <1>4, CallReturns
      <4>2. QED
        BY <1>3, <1>5, <2>1, <2>2, <4>1 DEF Edges, c
    <3>2. FirstClone(c) # Leave(TopPrefix)
      <4>1. PICK p, q : p = TopPrefix /\ q = c.stack_frame_prefix
        OBVIOUS
      <4>2. q \in Seq(Int) /\ p = Append(q, c.from) /\ c.from \in Int
        BY <1>4, <4>1 DEF FramePrefix, Label, Prefix
      <4>3. Leave(TopPrefix).stack_frame_prefix = q /\ FirstClone(c).stack_frame_prefix = p
        BY <1>3, <1>4, <4>1, CallReturns, FirstCloneParts, LabelParts
      <4>4. p # q
        <5>1. \A s \in Seq(Int), a \in Int : Len(Append(s, a)) = Len(s) + 1 /\ Len(s) \in Nat
          OBVIOUS
        <5>2. QED
          BY <4>2, <5>1
      <4>5. QED
        BY <4>3, <4>4
    <3>3. neighbours'[l].children = {FirstClone(c)}
      BY <1>9, <2>2, <3>1, <3>2
    <3>4. Edges(l)' = {FirstClone(c)}
      BY <1>1, <1>5, <1>8, <1>11, <2>2, ProgramKept DEF Edges
    <3>5. QED
      BY <3>3, <3>4
  <2>3. CASE l # c
    <3>1. neighbours'[l].children = Edges(l)
      BY <1>9, <2>1, <2>3
    <3>2. CASE Expanded(l)
      <4>1. Edges(l) = {FirstClone(l)}
        BY <2>3, <3>2 DEF Edges, c
      <4>2. Edges(l)' = {FirstClone(l)}
        BY <1>1, <1>8, <1>11, <3>2, ProgramKept DEF Edges
      <4>3. QED
        BY <3>1, <4>1, <4>2
    <3>3. CASE ~ Expanded(l)
      BY <1>1, <1>9, <1>11, <3>1, <3>3, ProgramKept DEF Edges
    <3>4. QED
      BY <3>2, <3>3
  <2>4. QED
    BY <2>2, <2>3
<1>14. Closed'
  <2> SUFFICES ASSUME NEW l \in DOMAIN neighbours \ {ExitLabel} PROVE StepOver(l)' \subseteq DOMAIN neighbours
    BY <1>9 DEF Closed
  <2>1. StepOver(l) \subseteq DOMAIN neighbours
    BY <1>1, <1>3 DEF SecondPassInv, Closed, Coming
  <2>2. QED
    BY <1>1, <2>1, ProgramKept
<1>15. ASSUME NEW l \in Inner, IsCall(l), ~ Expanded(l), Waits(l)
       PROVE  Waits(l)'
  <2>1. CASE l.stack_frame_prefix = <<>> /\ l.from >= next
    BY <1>1, <2>1 DEF Waits
  <2>2. l # c
    BY <1>5, <1>15
  <2>3. ASSUME NEW i \in 1..n, NEW m \in frames[i].todo, l = Reprefix(m, FrameOf(i)) PROVE Waits(l)'
    <3>1. i # n
      <4>1. Top.todo = {}
        BY <1>1, <1>2, <1>3 DEF SecondPassInv, FramesNested, FrameNested
      <4>2. QED
        BY <1>3, <2>3, <4>1
    <3>2. m \in frames'[i].todo /\ l = Reprefix(m, FrameOf(i)') /\ i \in 1..Len(frames')
      BY <1>7, <1>10, <2>3, <3>1
    <3>3. QED
      BY <3>2 DEF Waits
  <2>4. CASE l.stack_frame_prefix = TopPrefix /\ Reprefix(l, <<>>) \in Top.seen_labels
    <3>1. l \in Label
      BY <1>3 DEF Inner
    <3>2. l = Reprefix(Reprefix(l, <<>>), TopPrefix)
      BY <2>4, <3>1, LabelParts
    <3>3. instructions[l].op = "call"
      BY <1>3, <1>15, CallByInstruction
    <3>4. Reprefix(l, <<>>) \in todo
      BY <2>4, <3>2, <3>3
    <3>5. n \in 1..Len(frames') /\ Reprefix(l, <<>>) \in frames'[n].todo /\ l = Reprefix(Reprefix(l, <<>>), FrameOf(n)')
      BY <1>3, <1>6, <1>7, <1>10, <3>2, <3>4
    <3>6. QED
      BY <3>5 DEF Waits
  <2>5. QED
    BY <1>2, <1>15, <2>1, <2>2, <2>3, <2>4 DEF Waits, c
<1>16. CallsWait'
  BY <1>1, <1>3, <1>11, <1>15, ProgramKept DEF CallsWait, SecondPassInv
<1>17. FramesNested'
  <2> SUFFICES ASSUME NEW i \in 1..n PROVE FrameNested(i)' /\ TodoFresh(i)'
    BY <1>7 DEF FramesNested
  <2>1. FrameNested(i) /\ TodoFresh(i)
    BY <1>2, <1>3 DEF SecondPassInv, FramesNested
  <2>2. FrameNested(i)'
    <3>1. i > 1 => FrameOf(i - 1)' = FrameOf(i - 1)
      BY <1>3, <1>10
    <3>2. (i < n => ~ frames'[i].walking) /\ (frames'[i].walking => frames'[i].todo = {})
      <4>1. CASE i = n
        BY <1>6, <1>7, <4>1
      <4>2. CASE i # n
        BY <1>2, <1>7, <2>1, <4>2 DEF FrameNested
      <4>3. QED
        BY <4>1, <4>2
    <3>3. QED
      BY <1>1, <1>7, <1>10, <2>1, <3>1, <3>2, ProgramKept DEF FrameNested
  <2>3. TodoFresh(i)'
    <3>1. \A j \in (i + 1)..n : FrameOf(j)' = FrameOf(j)
      BY <1>10
    <3>2. CASE i # n
      <4>1. frames'[i] = frames[i] /\ FrameOf(i)' = FrameOf(i)
        BY <1>7, <1>10, <3>2
      <4>2. QED
        BY <1>2, <1>7, <1>9, <2>1, <3>1, <4>1 DEF TodoFresh
    <3>3. CASE i = n
      <4>1. (i + 1)..n = {}
        BY <1>3, <3>3
      <4>2. ASSUME NEW m \in todo
            PROVE  /\ m.stack_frame_prefix = <<>>
                   /\ \A l \in DOMAIN neighbours : l.stack_frame_prefix # Append(TopPrefix, m.from)
        <5>1. m \in Top.seen_labels /\ m.from \in Int
          BY <1>1, <4>2, TopFacts DEF Frame, Label
        <5>2. QED
          BY <1>3, <5>1 DEF SecondPassInv, WalkOK
      <4>3. frames'[i].todo = todo /\ FrameOf(i)' = TopPrefix
        BY <1>3, <1>6, <1>7, <1>10, <3>3
      <4> HIDE DEF todo
      <4>4. QED
        BY <1>7, <1>9, <4>1, <4>2, <4>3 DEF TodoFresh
    <3>4. QED
      BY <3>2, <3>3
  <2>4. QED
    BY <2>2, <2>3
<1>18. WalkOK'
  BY <1>8 DEF WalkOK
<1>19. QED
  BY <1>1, <1>9, <1>12, <1>13, <1>14, <1>16, <1>17, <1>18 DEF MatchInv, SecondPassInv


-----------------------------------------------------------------------------
(* Cloning a label.                                                        *)

LEMMA ProperFacts ==
    ASSUME prog \in Seq(Inst), Len(prog) < INT_MAX, NEW l, Proper(l)
    PROVE  /\ l.from \in PCs /\ l.from \in Nat /\ l.to \in Int /\ l.to >= -1
           /\ l # ExitLabel /\ l # EntryLabel
           /\ \A prefix : Proper(Reprefix(l, prefix))
<1>1. l.from \in PCs /\ l.from \in Nat /\ l.from # -1 /\ l.from # INT_MAX
  BY PcFacts DEF Proper
<1>2. l.to \in Int /\ l.to >= -1
  <2>1. CASE l.to = -1
    BY <2>1
  <2>2. CASE Branches(l.from) /\ Reprefix(l, <<>>) \in JumpLabels(l.from)
    <3>1. PICK t \in Targets(l.from) : Reprefix(l, <<>>) = make_jump(Plain(l.from), t)
      BY <2>2 DEF JumpLabels
    <3>2. l.to = t.from
      BY <3>1, LabelParts DEF make_jump
    <3>3. InstAt(l.from).target \in Nat
      <4>1. InstAt(l.from) \in Inst
        BY <1>1 DEF PCs, InstAt
      <4>2. QED
        BY <4>1 DEF Inst
    <3>4. t.from \in Nat
      BY <1>1, <3>3, LabelParts, EntryExitParts, PcFacts DEF Targets, Fallthrough, Plain
    <3>5. QED
      BY <3>2, <3>4
  <2>3. QED
    BY <2>1, <2>2 DEF Proper
<1>3. l # ExitLabel /\ l # EntryLabel
  BY <1>1, EntryExitParts
<1>4. \A prefix : Proper(Reprefix(l, prefix))
  BY LabelParts DEF Proper
<1>5. QED
  BY <1>1, <1>2, <1>3, <1>4

(* An instruction that the loop over insts has not reached is not expanded. *)
LEMMA PlainChildren ==
    ASSUME Inv, SecondPassInv, frames # <<>>, NEW q \in Inner,
           q.stack_frame_prefix = <<>>, q.from >= next
    PROVE  ~ Expanded(q) /\ neighbours[q].children = StepOver(q)
<1>1. q \in DOMAIN neighbours \ {ExitLabel} /\ q \in Label /\ next \in Nat
  BY InvFacts DEF Inner
<1>2. ~ Expanded(q)
  <2>1. SUFFICES ASSUME FirstClone(q) \in DOMAIN neighbours PROVE FALSE
    BY DEF Expanded
  <2>2. FirstClone(q).stack_frame_prefix = <<q.from>>
    BY FirstCloneParts DEF FramePrefix
  <2>3. FirstClone(q).stack_frame_prefix # <<>> /\ FirstClone(q).stack_frame_prefix[1] = q.from
    BY <2>2
  <2>4. q.from < next
    BY <2>1, <2>3, CloneHasCaller DEF SecondPassInv
  <2>5. QED
    BY <1>1, <2>4 DEF Label
<1>3. neighbours[q].children = StepOver(q) \cap DOMAIN neighbours
  BY <1>1, <1>2 DEF SecondPassInv, EdgesRight, Edges
<1>4. Coming(q) = {}
  BY TopFacts DEF Coming
<1>5. StepOver(q) \subseteq DOMAIN neighbours
  BY <1>1, <1>4 DEF SecondPassInv, Closed
<1>6. QED
  BY <1>2, <1>3, <1>5

(* The label in hand.                                                      *)
LEMMA WalkLabel ==
    ASSUME Inv, SecondPassInv, FunctionsForward(prog), NEW l \in DOMAIN neighbours, Walking(l)
    PROVE  /\ l \in Inner /\ l \in Label /\ l.stack_frame_prefix = <<>>
           /\ Proper(l) /\ LabelRight(l) /\ l.from \in Nat
           /\ l.from >= Callee(Top.caller) /\ l.from >= next /\ l # Top.caller
           /\ neighbours[l].children = StepOver(l)
           /\ StepOver(Reprefix(l, TopPrefix)) = {Move(z, TopPrefix) : z \in StepOver(l)}
           /\ \A z \in StepOver(l) :
                \/ z = ExitLabel
                \/ /\ z \in Inner /\ z \in Label /\ z.stack_frame_prefix = <<>> /\ z.from \in Nat
                   /\ z.from >= Callee(Top.caller) /\ Before(l, z)
<1> DEFINE c == Top.caller
           T == Callee(c)
<1>1. /\ Active /\ frames # <<>> /\ l \in Top.macro_labels
      /\ prog \in Seq(Inst) /\ Len(prog) < INT_MAX /\ next \in Nat
      /\ DOMAIN neighbours \subseteq Label
  BY InvFacts DEF Walking, Active
<1>2. /\ IsCall(c) /\ c \in Inner /\ c \in Label /\ T \in PCs /\ T \in Nat /\ T >= next
  BY <1>1, TopCaller
<1>3. /\ c.from \in PCs /\ c.from \in Nat /\ InstAt(c.from).op = "call" /\ T > c.from /\ T = InstAt(c.from).target
  <2>1. c.from \in PCs /\ InstAt(c.from).op = "call"
    BY <1>2 DEF IsCall
  <2>2. T > c.from /\ T = InstAt(c.from).target
    BY <1>1, <2>1, FunctionForward DEF Callee
  <2>3. QED
    BY <1>1, <2>1, <2>2, PcFacts
<1>4. TopPrefix \in Prefix /\ TopPrefix # <<>>
  BY <1>1, TopFacts
<1>5. l.stack_frame_prefix = <<>> /\ l.from >= T /\ (l = Plain(T) \/ l \in Inner)
  BY <1>1 DEF SecondPassInv, WalkOK
<1> HIDE DEF T, c
<1>6. l \in Inner /\ l \in Label
  <2>1. Plain(T) # EntryLabel /\ Plain(T) # ExitLabel
    BY <1>1, <1>2, LabelFacts, PcFacts
  <2>2. QED
    BY <1>1, <1>5, <2>1 DEF Inner
<1>7. LabelRight(l) /\ Proper(l) /\ l.from \in Nat
  BY <1>1, <1>6, ProperFacts DEF SecondPassInv, LabelsRight, LabelRight
<1>8. l.from >= next /\ l # c
  BY <1>1, <1>2, <1>3, <1>5, <1>7
<1>9. neighbours[l].children = StepOver(l)
  BY <1>1, <1>5, <1>6, <1>8, PlainChildren
<1>10. /\ StepOver(Reprefix(l, TopPrefix)) = {Move(z, TopPrefix) : z \in StepOver(l)}
       /\ \A z \in StepOver(l) :
            z = ExitLabel \/ (z \in Label /\ z.stack_frame_prefix = <<>> /\ z.from \in Nat /\ Before(l, z))
  BY <1>1, <1>3, <1>4, <1>5, <1>6, <1>7, StepOverMoves
<1>11. ASSUME NEW z \in StepOver(l), z # ExitLabel
       PROVE  z \in Inner /\ z.from >= T
  <2>1. z \in DOMAIN neighbours
    BY <1>6, <1>9, InvFacts DEF Inner
  <2>2. z.from \in Nat /\ Before(l, z)
    BY <1>10, <1>11
  <2>3. z # EntryLabel
    BY <2>2, EntryExitParts
  <2>4. z.from >= T
    BY <1>2, <1>5, <1>7, <2>2 DEF Before
  <2>5. QED
    BY <1>11, <2>1, <2>3, <2>4 DEF Inner
<1>12. QED
  BY <1>5, <1>6, <1>7, <1>8, <1>9, <1>10, <1>11 DEF c, T


(* Only instructions outside of the frames lead to the label in hand: a    *)
(* clone that returns to it would have come before it.                     *)
LEMMA WalkParents ==
    ASSUME Inv, SecondPassInv, FunctionsForward(prog), NEW l \in DOMAIN neighbours, Walking(l),
           NEW q \in neighbours[l].parents
    PROVE  q \in DOMAIN neighbours /\ q.stack_frame_prefix = <<>> /\ l \in StepOver(q)
<1> DEFINE c == Top.caller
           T == Callee(c)
           r == q.stack_frame_prefix
<1>1. /\ Active /\ frames # <<>> /\ l \in Top.macro_labels
      /\ prog \in Seq(Inst) /\ Len(prog) < INT_MAX /\ next \in Nat
      /\ DOMAIN neighbours \subseteq Label /\ LabelsRight
  BY InvFacts DEF Walking, Active, SecondPassInv
<1>2. /\ l \in Label /\ l.stack_frame_prefix = <<>> /\ l.from \in Nat /\ l.from >= T
  BY WalkLabel
<1>3. /\ IsCall(c) /\ c \in Inner /\ c \in Label /\ T \in Nat /\ T >= next
      /\ Len(frames) > 1 => T > next
      /\ Len(frames) = 1 => c = Plain(next - 1)
      /\ TopPrefix = FramePrefix(c)
  BY <1>1, TopCaller DEF TopPrefix
<1>4. q \in DOMAIN neighbours /\ l \in neighbours[q].children /\ q \in Label
  <2>1. q \in DOMAIN neighbours
    BY InvFacts
  <2>2. QED
    BY <2>1, InvFacts
<1>5. q # ExitLabel
  <2>1. neighbours[ExitLabel].children = {}
    BY DEF Inv, GraphOK, Mirror
  <2>2. QED
    BY <1>4, <2>1
<1>6. l \in Edges(q)
  BY <1>4, <1>5 DEF SecondPassInv, EdgesRight
<1>7. l \in StepOver(q)
  <2>1. l # FirstClone(q)
    BY <1>2, <1>4, FirstCloneParts, FramePrefixFacts
  <2>2. QED
    BY <1>6, <2>1 DEF Edges
<1>8. ASSUME r # <<>> PROVE FALSE
  <2> DEFINE k == CallerOf(r)
             q0 == Reprefix(q, <<>>)
  <2>1. /\ q \in Inner /\ r \in Prefix /\ k \in DOMAIN neighbours /\ r[1] < next
        /\ q.from >= Callee(k) /\ IsCall(k) /\ LabelRight(q)
    <3>1. /\ q \in Inner /\ r \in Prefix /\ k \in DOMAIN neighbours /\ r[1] < next
          /\ q.from >= Callee(k)
      BY <1>1, <1>4, <1>8, CloneHasCaller
    <3>2. QED
      BY <1>1, <1>8, <3>1 DEF LabelsRight, CloneRight
  <2>2. Proper(q) /\ Proper(q0) /\ q.from \in PCs /\ q.from \in Nat /\ q.to \in Int /\ q.to >= -1
    BY <1>1, <2>1, ProperFacts DEF LabelRight
  <2>3. q0 \in Label /\ q0.stack_frame_prefix = <<>> /\ q0.from = q.from /\ Reprefix(q0, r) = q
    <3>1. q0 \in DOMAIN neighbours
      BY <2>1 DEF LabelRight
    <3>2. QED
      BY <1>1, <1>4, <3>1, LabelParts
  <2>4. k.from \in PCs /\ InstAt(k.from).op = "call" /\ Callee(k) = InstAt(k.from).target /\ k \in Label /\ k.to = -1
    BY <1>1, <2>1 DEF IsCall, Callee
  <2> HIDE DEF k, q0, r
  <2>5. /\ StepOver(q) = {Move(z, r) : z \in StepOver(q0)}
        /\ \A z \in StepOver(q0) : z = ExitLabel \/ z.stack_frame_prefix = <<>>
    <3>1. q0.from >= InstAt(k.from).target
      BY <2>1, <2>3, <2>4
    <3>2. /\ StepOver(Reprefix(q0, r)) = {Move(z, r) : z \in StepOver(q0)}
          /\ \A z \in StepOver(q0) :
               z = ExitLabel \/ (z \in Label /\ z.stack_frame_prefix = <<>> /\ z.from \in Nat /\ Before(q0, z))
      BY <1>1, <1>8, <2>1, <2>2, <2>3, <2>4, <3>1, StepOverMoves
    <3>3. QED
      BY <2>3, <3>2
  <2>6. l = Leave(r)
    <3>1. PICK z \in StepOver(q0) : l = Move(z, r)
      BY <1>7, <2>5
    <3>2. z = ExitLabel
      BY <1>2, <1>8, <3>1, LabelParts DEF Move
    <3>3. QED
      BY <3>1, <3>2 DEF Move
  <2>7. FramePrefix(k) = r
    <3>1. PICK s : s = r
      OBVIOUS
    <3>2. s \in Seq(Int) /\ s # <<>>
      BY <1>8, <2>1, <3>1 DEF Prefix
    <3>3. Append(SubSeq(s, 1, Len(s) - 1), s[Len(s)]) = s
      BY <3>2
    <3>4. k.stack_frame_prefix = SubSeq(s, 1, Len(s) - 1) /\ k.from = s[Len(s)]
      <4>1. k = MkLabel(SubSeq(s, 1, Len(s) - 1), s[Len(s)], -1)
        BY <3>1 DEF k, CallerOf, At
      <4>2. QED
        BY <4>1 DEF MkLabel
    <3>5. QED
      BY <3>1, <3>3, <3>4 DEF FramePrefix
  <2>8. l = MkLabel(k.stack_frame_prefix, k.from + 1, -1)
    BY <1>1, <2>1, <2>4, <2>6, <2>7, CallReturns
  <2>9. k.stack_frame_prefix = <<>> /\ l.from = k.from + 1 /\ l.to = -1
    BY <1>2, <2>8, LabelParts
  <2>10. k.from < next /\ k.from \in Nat
    <3>1. k.from \in Nat
      BY <1>1, <2>4, PcFacts
    <3>2. r = <<k.from>>
      BY <2>7, <2>9 DEF FramePrefix
    <3>3. QED
      BY <2>1, <3>1, <3>2
  <2>11. T = next /\ l.from = T /\ k.from = next - 1
    BY <1>1, <1>2, <1>3, <2>9, <2>10
  <2>12. c = k
    <3>1. Len(frames) = 1
      <4>1. PICK j : j = Len(frames)
        OBVIOUS
      <4>2. j \in Nat \ {0} /\ (j > 1 => T > next) /\ T = next /\ next \in Nat
        BY <1>1, <1>3, <2>11, <4>1, TopFacts
      <4>3. j = 1
        BY ONLY <4>2
      <4>4. QED
        BY <4>1, <4>3
    <3>2. k = Plain(k.from)
      BY <2>4, <2>9, LabelParts DEF Plain
    <3>3. QED
      BY <1>3, <2>11, <3>1, <3>2
  <2>13. r = TopPrefix
    BY <1>3, <2>7, <2>12
  <2>14. Before(q, l)
    BY <1>1, <1>4, <2>13 DEF r, SecondPassInv, WalkOK
  <2>15. q.from >= T
    BY <2>1, <2>12
  <2>16. QED
    BY <1>3, <2>2, <2>9, <2>11, <2>14, <2>15 DEF Before
<1>9. QED
  BY <1>4, <1>7, <1>8

(* The clones that lead to the clone of the label in hand are those of the *)
(* labels that lead to it.                                                 *)
LEMMA ClonesLead ==
    ASSUME Inv, SecondPassInv, FunctionsForward(prog), NEW l \in DOMAIN neighbours, Walking(l),
           NEW x \in DOMAIN neighbours, x.stack_frame_prefix = TopPrefix
    PROVE  /\ Reprefix(l, TopPrefix) \in StepOver(x)
                <=> x \in {Reprefix(q, TopPrefix) : q \in neighbours[l].parents}
           /\ StepOver(x) \subseteq DOMAIN neighbours \cup {Reprefix(m, TopPrefix) : m \in Top.macro_labels}
           /\ ~ Expanded(x)
           /\ neighbours[x].children = StepOver(x) \cap DOMAIN neighbours
<1> DEFINE c == Top.caller
           T == Callee(c)
           label == Reprefix(l, TopPrefix)
           y == Reprefix(x, <<>>)
<1>1. /\ Active /\ frames # <<>> /\ l \in Top.macro_labels
      /\ prog \in Seq(Inst) /\ Len(prog) < INT_MAX /\ next \in Nat
      /\ DOMAIN neighbours \subseteq Label /\ LabelsRight
      /\ TopPrefix \in Prefix /\ TopPrefix # <<>>
  BY InvFacts, TopFacts DEF Walking, Active, SecondPassInv
<1>2. l \in Label /\ l \in Inner /\ l.stack_frame_prefix = <<>>
  BY WalkLabel
<1>3. IsCall(c) /\ c \in Label /\ T \in Nat /\ T >= next /\ TopPrefix = FramePrefix(c)
  BY <1>1, TopCaller DEF TopPrefix
<1>4. c.from \in PCs /\ InstAt(c.from).op = "call" /\ T = InstAt(c.from).target /\ c.stack_frame_prefix \in Prefix
  BY <1>3 DEF IsCall, Callee, Label
<1>5. x \in Inner /\ x \in Label /\ x.from \in PCs /\ x.from >= T /\ x.from >= next /\ LabelRight(x)
  BY <1>1, CloneOfTop DEF LabelsRight
<1>6. y \in DOMAIN neighbours /\ Proper(y)
  BY <1>1, <1>5, ProperFacts DEF LabelRight
<1>7. y \in Label /\ y.stack_frame_prefix = <<>> /\ y.from = x.from /\ Reprefix(y, TopPrefix) = x
  BY <1>1, <1>5, <1>6, LabelParts
<1>8. y \in Inner
  BY <1>1, <1>6, ProperFacts DEF Inner
<1>9. neighbours[y].children = StepOver(y)
  BY <1>1, <1>5, <1>7, <1>8, PlainChildren
<1> HIDE DEF c, T
<1>10. /\ StepOver(x) = {Move(z, TopPrefix) : z \in StepOver(y)}
       /\ \A z \in StepOver(y) : z = ExitLabel \/ (z \in Label /\ z.stack_frame_prefix = <<>>)
  <2>1. /\ StepOver(Reprefix(y, TopPrefix)) = {Move(z, TopPrefix) : z \in StepOver(y)}
        /\ \A z \in StepOver(y) :
             z = ExitLabel \/ (z \in Label /\ z.stack_frame_prefix = <<>> /\ z.from \in Nat /\ Before(y, z))
    <3> HIDE DEF y
    <3>1. y.from >= InstAt(c.from).target
      BY <1>4, <1>5, <1>7
    <3>2. QED
      BY <1>1, <1>4, <1>6, <1>7, <3>1, StepOverMoves
  <2>2. QED
    BY <1>7, <2>1
<1>11. Leave(TopPrefix) # label
  <2>1. Leave(TopPrefix).stack_frame_prefix = c.stack_frame_prefix
    BY <1>1, <1>3, CallReturns, LabelParts
  <2>2. label.stack_frame_prefix = TopPrefix
    BY LabelParts
  <2>3. c.stack_frame_prefix # FramePrefix(c)
    <3>1. \A s \in Seq(Int), a \in Int : Append(s, a) # s
      <4> TAKE s \in Seq(Int), a \in Int
      <4>1. Len(Append(s, a)) = Len(s) + 1 /\ Len(s) \in Nat
        OBVIOUS
      <4>2. QED
        BY <4>1
    <3>2. QED
      BY <1>3, <3>1 DEF FramePrefix, Label, Prefix
  <2>4. QED
    BY <1>3, <2>1, <2>2, <2>3
<1>12. label \in StepOver(x) <=> l \in StepOver(y)
  <2>1. ASSUME NEW z \in StepOver(y), label = Move(z, TopPrefix) PROVE l = z
    <3>1. z # ExitLabel
      BY <1>11, <2>1 DEF Move
    <3>2. Reprefix(l, TopPrefix) = Reprefix(z, TopPrefix)
      BY <2>1, <3>1 DEF Move
    <3>3. z \in Label /\ z.stack_frame_prefix = <<>>
      BY <1>10, <3>1
    <3>4. Reprefix(Reprefix(l, TopPrefix), <<>>) = Reprefix(Reprefix(z, TopPrefix), <<>>)
      BY <3>2
    <3>5. Reprefix(l, <<>>) = Reprefix(z, <<>>)
      BY <3>4, LabelParts
    <3>6. Reprefix(l, <<>>) = l /\ Reprefix(z, <<>>) = z
      <4>1. \A m \in Label : Reprefix(m, m.stack_frame_prefix) = m
        BY LabelParts
      <4>2. QED
        BY <1>2, <3>3, <4>1
    <3>7. QED
      BY <3>5, <3>6
  <2>2. l # ExitLabel
    BY <1>2 DEF Inner
  <2>3. l \in StepOver(y) => label \in StepOver(x)
    BY <1>10, <2>2 DEF Move
  <2>4. QED
    BY <1>10, <2>1, <2>3
<1>13. l \in StepOver(y) <=> y \in neighbours[l].parents
  <2>1. l \in neighbours[y].children <=> y \in neighbours[l].parents
    BY <1>6, InvFacts
  <2>2. QED
    BY <1>9, <2>1
<1>14. y \in neighbours[l].parents <=> x \in {Reprefix(q, TopPrefix) : q \in neighbours[l].parents}
  <2>1. ASSUME NEW q \in neighbours[l].parents, x = Reprefix(q, TopPrefix) PROVE y = q
    <3>1. q \in Label /\ q.stack_frame_prefix = <<>>
      BY <1>1, WalkParents
    <3>2. y = Reprefix(q, <<>>)
      BY <2>1, LabelParts
    <3>3. Reprefix(q, q.stack_frame_prefix) = q
      BY <3>1, LabelParts
    <3>4. QED
      BY <3>1, <3>2, <3>3
  <2>2. QED
    BY <1>7, <2>1
<1>15. StepOver(x) \subseteq DOMAIN neighbours \cup {Reprefix(m, TopPrefix) : m \in Top.macro_labels}
  BY <1>1, <1>5 DEF SecondPassInv, Closed, Coming, Inner
<1>16. ~ Expanded(x)
  <2>1. FirstClone(x).stack_frame_prefix = Append(TopPrefix, x.from) /\ x.from \in Int
    BY <1>5, FirstCloneParts DEF FramePrefix, Label
  <2>2. FirstClone(x) \notin DOMAIN neighbours
    BY <1>1, <2>1 DEF SecondPassInv, WalkOK
  <2>3. QED
    BY <2>2 DEF Expanded
<1>17. neighbours[x].children = StepOver(x) \cap DOMAIN neighbours
  BY <1>5, <1>16 DEF SecondPassInv, EdgesRight, Edges, Inner
<1>18. QED
  BY <1>12, <1>13, <1>14, <1>15, <1>16, <1>17


(* What the step does to the graph: the edges in, from the caller and from *)
(* the clones that lead to the new one, and the edge out to where a        *)
(* function that ends there returns to.                                    *)
LEMMA CloneGraph ==
    ASSUME Inv, SecondPassInv, FunctionsForward(prog), frames # <<>>,
           NEW l \in Top.macro_labels, CloneMacroLabel(l)
    PROVE  LET label == Reprefix(l, TopPrefix) IN
           /\ Walking(l) /\ l \in DOMAIN neighbours /\ label \notin DOMAIN neighbours
           /\ DOMAIN neighbours' = DOMAIN neighbours \cup {label}
           /\ \A x \in DOMAIN neighbours :
                neighbours'[x].children
                  = neighbours[x].children
                      \cup (IF \/ Top.first /\ x = Top.caller
                               \/ x.stack_frame_prefix = TopPrefix /\ label \in StepOver(x)
                            THEN {label} ELSE {})
           /\ neighbours'[label].children = IF ExitLabel \in StepOver(l) THEN {Leave(TopPrefix)} ELSE {}
           /\ Unseen(l) = StepOver(l) \ (Top.seen_labels \cup {ExitLabel})
<1> DEFINE label == Reprefix(l, TopPrefix)
           D == DOMAIN neighbours
           prevs == {Reprefix(p, TopPrefix) : p \in neighbours[l].parents}
           E == CloneEdges(l)
           g == insert(neighbours, {label})
           c == Top.caller
<1>1. /\ Walking(l) /\ l \in D /\ label \notin D /\ neighbours' = add_children(g, E)
      /\ DOMAIN instructions = D
  BY InvFacts DEF CloneMacroLabel
<1>2. /\ l \in Label /\ l.stack_frame_prefix = <<>> /\ neighbours[l].children = StepOver(l)
      /\ l # c /\ \A z \in StepOver(l) : z = ExitLabel \/ Before(l, z)
  BY <1>1, WalkLabel
<1>3. /\ TopPrefix \in Prefix /\ TopPrefix # <<>> /\ c \in Label /\ c \in D
      /\ Top.exit_to_label = Leave(TopPrefix) /\ Leave(TopPrefix) \in D
      /\ TopPrefix = FramePrefix(c)
  BY TopFacts, TopCaller DEF FrameOK, TopPrefix
<1>4. c.stack_frame_prefix # TopPrefix
  <2>1. \A s \in Seq(Int), a \in Int : Append(s, a) # s
    <3> TAKE s \in Seq(Int), a \in Int
    <3>1. Len(Append(s, a)) = Len(s) + 1 /\ Len(s) \in Nat
      OBVIOUS
    <3>2. QED
      BY <3>1
  <2>2. QED
    BY <1>3, <2>1 DEF FramePrefix, Label, Prefix
<1>5. /\ label.stack_frame_prefix = TopPrefix /\ label # l /\ label # c
      /\ \A p \in prevs : p.stack_frame_prefix = TopPrefix
  BY <1>1, <1>2, <1>3, <1>4, LabelParts
<1>6. label \notin prevs
  <2> SUFFICES ASSUME NEW q \in neighbours[l].parents, label = Reprefix(q, TopPrefix) PROVE FALSE
    OBVIOUS
  <2>1. q \in Label /\ q.stack_frame_prefix = <<>> /\ l \in StepOver(q)
    BY <1>1, InvFacts, WalkParents
  <2>2. q = l
    <3>1. q = Reprefix(q, <<>>) /\ l = Reprefix(l, <<>>)
      <4>1. \A m \in Label : Reprefix(m, m.stack_frame_prefix) = m
        BY LabelParts
      <4>2. QED
        BY <1>2, <2>1, <4>1
    <3>2. Reprefix(label, <<>>) = Reprefix(Reprefix(q, TopPrefix), <<>>)
      BY <2>1
    <3>3. Reprefix(l, <<>>) = Reprefix(q, <<>>)
      BY <3>2, LabelParts
    <3>4. QED
      BY <3>1, <3>3
  <2>3. Before(l, l)
    <3>1. l # ExitLabel
      BY <1>1, WalkLabel DEF Inner
    <3>2. QED
      BY <1>2, <2>1, <2>2, <3>1
  <2>4. QED
    BY <1>2, <2>3 DEF Before, Label
<1>7. E = (IF Top.first THEN {<<c, label>>} ELSE {})
            \cup {<<p, label>> : p \in prevs \cap (D \cup {label})}
            \cup (IF ExitLabel \in StepOver(l) THEN {<<label, Leave(TopPrefix)>>} ELSE {})
  BY <1>2, <1>3 DEF CloneEdges
<1>8. \A x \in D : x \in prevs <=> x.stack_frame_prefix = TopPrefix /\ label \in StepOver(x)
  <2> TAKE x \in D
  <2>1. x.stack_frame_prefix = TopPrefix => (label \in StepOver(x) <=> x \in prevs)
    BY <1>1, ClonesLead
  <2>2. QED
    BY <1>5, <2>1
<1>9. /\ DOMAIN g = D \cup {label} /\ g[label].children = {}
      /\ \A x \in D : g[x] = neighbours[x]
  <2>1. /\ DOMAIN insert(neighbours, {label}) = D \cup {label}
        /\ \A x \in D : insert(neighbours, {label})[x] = neighbours[x]
        /\ \A x \in {label} \ D : insert(neighbours, {label})[x].children = {}
    <3> HIDE DEF label
    <3>1. QED
      BY InsertAt
  <2> HIDE DEF label
  <2>2. label \in {label} \ D
    BY <1>1
  <2>3. QED
    BY <2>1, <2>2
<1> HIDE DEF label, prevs, E, g, c
<1>10. /\ DOMAIN neighbours' = D \cup {label}
       /\ \A x \in D \cup {label} :
            neighbours'[x].children = g[x].children \cup {b \in D \cup {label} : <<x, b>> \in E}
  BY <1>1, <1>9, AddChildrenAt
<1>11. ASSUME NEW x \in D
       PROVE  neighbours'[x].children
                = neighbours[x].children
                    \cup (IF \/ Top.first /\ x = c
                             \/ x.stack_frame_prefix = TopPrefix /\ label \in StepOver(x)
                          THEN {label} ELSE {})
  <2>1. x # label
    BY <1>1
  <2>2. \A b : <<x, b>> \in E <=> b = label /\ ((Top.first /\ x = c) \/ x \in prevs)
    BY <1>7, <2>1
  <2>3. {b \in D \cup {label} : <<x, b>> \in E}
          = IF (Top.first /\ x = c) \/ x \in prevs THEN {label} ELSE {}
    BY <2>2
  <2>4. neighbours'[x].children = neighbours[x].children
                    \cup (IF (Top.first /\ x = c) \/ x \in prevs THEN {label} ELSE {})
    BY <1>9, <1>10, <2>3
  <2>5. QED
    BY <1>8, <2>4
<1>12. neighbours'[label].children = IF ExitLabel \in StepOver(l) THEN {Leave(TopPrefix)} ELSE {}
  <2>1. \A b : <<label, b>> \in E <=> b = Leave(TopPrefix) /\ ExitLabel \in StepOver(l)
    BY <1>5, <1>6, <1>7
  <2>2. {b \in D \cup {label} : <<label, b>> \in E}
          = IF ExitLabel \in StepOver(l) THEN {Leave(TopPrefix)} ELSE {}
    BY <1>3, <2>1
  <2>3. QED
    BY <1>9, <1>10, <2>2
<1>13. Unseen(l) = StepOver(l) \ (Top.seen_labels \cup {ExitLabel})
  <2>1. \A d \in E : d[1] # l
    <3>1. \A p \in prevs : p # l
      BY <1>2, <1>3, <1>5
    <3>2. QED
      BY <1>2, <1>5, <1>7, <3>1 DEF c
  <2>2. {e[2] : e \in {d \in E : d[1] = l}} = {}
    BY <2>1
  <2>3. QED
    BY <1>2, <2>2 DEF Unseen, E
<1>14. QED
  BY <1>1, <1>10, <1>11, <1>12, <1>13 DEF c, label

(* What it does to the instructions and to the activation.                 *)
LEMMA CloneFrame ==
    ASSUME Inv, frames # <<>>, NEW l \in Top.macro_labels, CloneMacroLabel(l), Unseen(l) \subseteq Label
    PROVE  LET label == Reprefix(l, TopPrefix) IN
           /\ UNCHANGED <<prog, must_have_exit, pass, next, error>>
           /\ \A m \in DOMAIN neighbours : instructions'[m] = instructions[m]
           /\ instructions'[label].op = instructions[l].op
           /\ instructions'[label].target = instructions[l].target
           /\ instructions'[label].sense = instructions[l].sense
           /\ instructions[l].op \in {"exit", "helper"} => instructions'[label].sfp = TopPrefix
           /\ Len(frames') = Len(frames) /\ frames' # <<>>
           /\ \A i \in 1..Len(frames) :
                /\ i # Len(frames) => frames'[i] = frames[i]
                /\ frames'[i].caller = frames[i].caller
                /\ frames'[i].exit_to_label = frames[i].exit_to_label
                /\ frames'[i].walking = frames[i].walking
                /\ frames'[i].todo = frames[i].todo
                /\ FrameOf(i)' = FrameOf(i)
           /\ Active' /\ TopPrefix' = TopPrefix /\ Top'.caller = Top.caller
           /\ Top'.macro_labels = (Top.macro_labels \ {l}) \cup Unseen(l)
           /\ Top'.seen_labels = IF Unseen(l) = {} THEN Top.seen_labels ELSE Top.seen_labels \cup {l}
           /\ ~ Top'.first
<1> DEFINE label == Reprefix(l, TopPrefix)
           f == [Top EXCEPT !.macro_labels = (@ \ {l}) \cup Unseen(l),
                            !.seen_labels  = IF Unseen(l) = {} THEN @ ELSE @ \cup {l},
                            !.first        = FALSE]
<1>1. /\ pass = "macros" /\ Top.walking /\ l \in DOMAIN neighbours /\ label \notin DOMAIN neighbours
      /\ instructions' = [m \in DOMAIN instructions \cup {label} |->
                            IF m = label
                            THEN [instructions[l] EXCEPT
                                    !.sfp = IF instructions[l].op \in {"exit", "helper"}
                                            THEN TopPrefix ELSE @]
                            ELSE instructions[m]]
      /\ frames' = SetTop(f)
      /\ UNCHANGED <<prog, must_have_exit, pass, next, error>>
      /\ instructions \in [DOMAIN neighbours -> NodeInst]
  BY DEF CloneMacroLabel, Walking, Inv, TypeOK
<1>2. /\ \A m \in DOMAIN neighbours : instructions'[m] = instructions[m]
      /\ instructions'[label].op = instructions[l].op
      /\ instructions'[label].target = instructions[l].target
      /\ instructions'[label].sense = instructions[l].sense
      /\ instructions[l].op \in {"exit", "helper"} => instructions'[label].sfp = TopPrefix
  <2>1. instructions[l] \in NodeInst
    BY <1>1
  <2> HIDE DEF label
  <2>2. QED
    BY <1>1, <2>1 DEF NodeInst
<1>3. /\ f \in Frame /\ f.caller = Top.caller /\ f.exit_to_label = Top.exit_to_label
      /\ f.todo = Top.todo /\ f.walking = Top.walking /\ ~ f.first
      /\ f.macro_labels = (Top.macro_labels \ {l}) \cup Unseen(l)
      /\ f.seen_labels = IF Unseen(l) = {} THEN Top.seen_labels ELSE Top.seen_labels \cup {l}
  <2>1. Top \in Frame /\ l \in Label
    BY TopFacts DEF Frame
  <2>2. QED
    BY <2>1 DEF Frame
<1>4. PICK n : n = Len(frames)
  OBVIOUS
<1>5. n \in Nat \ {0} /\ n \in 1..n /\ Top = frames[n]
  BY <1>4, TopFacts
<1> HIDE DEF f, label
<1>6. /\ Len(frames') = n /\ frames' # <<>> /\ frames'[n] = f /\ Top' = f
      /\ \A i \in 1..n : i # n => frames'[i] = frames[i]
  <2>1. /\ Len(frames') = n /\ frames'[n] = f
        /\ \A i \in 1..n : i # n => frames'[i] = frames[i]
    BY <1>1, <1>3, <1>4, SetTopFacts
  <2>2. frames' # <<>>
    BY <1>5, <2>1
  <2>3. Top' = f
    BY <2>1 DEF Top
  <2>4. QED
    BY <2>1, <2>2, <2>3
<1>7. \A i \in 1..n :
        /\ i # n => frames'[i] = frames[i]
        /\ frames'[i].caller = frames[i].caller
        /\ frames'[i].exit_to_label = frames[i].exit_to_label
        /\ frames'[i].walking = frames[i].walking
        /\ frames'[i].todo = frames[i].todo
  <2> TAKE i \in 1..n
  <2>1. CASE i = n
    BY <1>3, <1>5, <1>6, <2>1
  <2>2. CASE i # n
    BY <1>6, <2>2
  <2>3. QED
    BY <2>1, <2>2
<1>8. \A i \in 1..n : FrameOf(i)' = FrameOf(i)
  BY <1>7 DEF FrameOf
<1>9. Active' /\ TopPrefix' = TopPrefix
  BY <1>1, <1>3, <1>6 DEF Active, TopPrefix
<1>10. QED
  BY <1>1, <1>2, <1>3, <1>4, <1>6, <1>7, <1>8, <1>9 DEF label


LEMMA CloneMacroLabelMatches ==
    ASSUME Inv, MatchInv, frames # <<>>, NEW l \in Top.macro_labels, CloneMacroLabel(l)
    PROVE  MatchInv'
<1> DEFINE D == DOMAIN neighbours
<1>0. PICK label, c, T : label = Reprefix(l, TopPrefix) /\ c = Top.caller /\ T = Callee(c)
  OBVIOUS
<1>1. PICK n : n = Len(frames)
  OBVIOUS
<1>2. /\ pass = "macros" /\ Active /\ SecondPassInv /\ LabelsRight /\ FunctionsForward(prog)
      /\ IsFiniteSet(D) /\ next \in Nat /\ prog \in Seq(Inst) /\ Len(prog) < INT_MAX /\ D \subseteq Label
      /\ n \in Nat \ {0} /\ n \in 1..n /\ Top = frames[n] /\ TopPrefix = FrameOf(n)
  <2>1. pass = "macros" /\ Active
    BY <1>0 DEF CloneMacroLabel, Walking, Active
  <2>2. SecondPassInv /\ LabelsRight /\ FunctionsForward(prog) /\ IsFiniteSet(D)
    BY <1>0, <2>1 DEF MatchInv, SecondPassInv
  <2>3. n \in Nat \ {0} /\ Top = frames[n]
    BY <1>0, <1>1, TopFacts
  <2>4. TopPrefix = FrameOf(n)
    BY <1>0, <2>3 DEF TopPrefix, FrameOf
  <2>5. QED
    BY <1>0, <2>1, <2>2, <2>3, <2>4, InvFacts
<1>3. /\ Walking(l) /\ l \in D /\ label \notin D
      /\ DOMAIN neighbours' = D \cup {label}
      /\ \A x \in D :
           neighbours'[x].children
             = neighbours[x].children
                 \cup (IF \/ Top.first /\ x = c
                          \/ x.stack_frame_prefix = TopPrefix /\ label \in StepOver(x)
                       THEN {label} ELSE {})
      /\ neighbours'[label].children = IF ExitLabel \in StepOver(l) THEN {Leave(TopPrefix)} ELSE {}
      /\ Unseen(l) = StepOver(l) \ (Top.seen_labels \cup {ExitLabel})
  BY <1>0, <1>2, CloneGraph
<1>4. /\ l \in Inner /\ l \in Label /\ l.stack_frame_prefix = <<>>
      /\ Proper(l) /\ LabelRight(l) /\ l.from \in Nat
      /\ l.from >= T /\ l.from >= next /\ l # c
      /\ neighbours[l].children = StepOver(l)
      /\ StepOver(label) = {Move(z, TopPrefix) : z \in StepOver(l)}
      /\ \A z \in StepOver(l) :
           \/ z = ExitLabel
           \/ /\ z \in Inner /\ z \in Label /\ z.stack_frame_prefix = <<>> /\ z.from \in Nat
              /\ z.from >= T /\ Before(l, z)
  BY <1>0, <1>2, <1>3, WalkLabel
<1>5. /\ UNCHANGED <<prog, must_have_exit, pass, next, error>>
      /\ \A m \in D : instructions'[m] = instructions[m]
      /\ instructions'[label].op = instructions[l].op
      /\ instructions'[label].target = instructions[l].target
      /\ instructions'[label].sense = instructions[l].sense
      /\ instructions[l].op \in {"exit", "helper"} => instructions'[label].sfp = TopPrefix
      /\ Len(frames') = n /\ frames' # <<>>
      /\ \A i \in 1..n :
           /\ i # n => frames'[i] = frames[i]
           /\ frames'[i].caller = frames[i].caller
           /\ frames'[i].exit_to_label = frames[i].exit_to_label
           /\ frames'[i].walking = frames[i].walking
           /\ frames'[i].todo = frames[i].todo
           /\ FrameOf(i)' = FrameOf(i)
      /\ Active' /\ TopPrefix' = TopPrefix /\ Top'.caller = c
      /\ Top'.macro_labels = (Top.macro_labels \ {l}) \cup Unseen(l)
      /\ Top'.seen_labels = IF Unseen(l) = {} THEN Top.seen_labels ELSE Top.seen_labels \cup {l}
      /\ ~ Top'.first
  <2>1. Unseen(l) \subseteq Label
    BY <1>0, <1>3, <1>4
  <2>2. QED
    BY <1>0, <1>1, <2>1, CloneFrame
<1>6. /\ IsCall(c) /\ c \in Label /\ c \in D /\ c \in Inner /\ T \in PCs /\ T \in Nat /\ T >= next
      /\ TopPrefix \in Prefix /\ TopPrefix # <<>> /\ TopPrefix = FramePrefix(c)
      /\ CallerOf(TopPrefix) = c /\ TopPrefix[1] < next
      /\ Leave(TopPrefix) \in D /\ StepOver(c) = {Leave(TopPrefix)}
      /\ c.stack_frame_prefix # TopPrefix
  <2>1. /\ IsCall(c) /\ c \in Label /\ c \in Inner /\ T \in PCs /\ T \in Nat /\ T >= next
        /\ TopPrefix = FramePrefix(c) /\ Top.exit_to_label = Leave(TopPrefix)
        /\ CallerOf(TopPrefix) = c /\ TopPrefix[1] < next
    BY <1>0, <1>2, TopCaller DEF TopPrefix
  <2>2. TopPrefix \in Prefix /\ TopPrefix # <<>> /\ Leave(TopPrefix) \in D
    BY <1>0, <2>1, TopFacts DEF FrameOK
  <2>3. StepOver(c) = {Leave(TopPrefix)}
    BY <1>0, <1>2, <2>1, CallReturns
  <2>4. c.stack_frame_prefix # TopPrefix
    BY <1>0, <2>1, AppendFacts DEF FramePrefix, Label, Prefix
  <2>5. QED
    BY <1>0, <2>1, <2>2, <2>3, <2>4 DEF Inner
<1>7. /\ label.stack_frame_prefix = TopPrefix /\ label.from = l.from /\ label.to = l.to
      /\ label \in Label /\ label # c /\ label # ExitLabel /\ label # EntryLabel
      /\ Reprefix(label, <<>>) = l
  <2>1. /\ label.stack_frame_prefix = TopPrefix /\ label.from = l.from /\ label.to = l.to
        /\ Reprefix(label, <<>>) = Reprefix(l, <<>>)
    BY <1>0, LabelParts
  <2>2. Reprefix(l, <<>>) = l
    <3>1. \A m \in Label : Reprefix(m, m.stack_frame_prefix) = m
      BY LabelParts
    <3>2. QED
      BY <1>4, <3>1
  <2>3. QED
    BY <1>0, <1>3, <1>4, <1>6, <2>1, <2>2, ReprefixFacts
(* A label past the one in hand is not cloned yet.                         *)
<1>8. ASSUME NEW z \in StepOver(l), z # ExitLabel
      PROVE  Reprefix(z, TopPrefix) \notin D \cup {label}
  <2>1. Before(l, z) /\ z.from \in Nat /\ z \in Label
    BY <1>4, <1>8
  <2>2. Reprefix(z, TopPrefix).from = z.from /\ Reprefix(z, TopPrefix).to = z.to
        /\ Reprefix(z, TopPrefix).stack_frame_prefix = TopPrefix
    BY LabelParts
  <2>3. ASSUME Reprefix(z, TopPrefix) \in D PROVE FALSE
    <3>1. Before(Reprefix(z, TopPrefix), l)
      BY <1>2, <1>3, <2>2, <2>3 DEF SecondPassInv, WalkOK
    <3>2. QED
      BY <1>4, <2>1, <2>2, <3>1 DEF Before, Label
  <2>4. Reprefix(z, TopPrefix) # label
    BY <1>4, <1>7, <2>1, <2>2 DEF Before, Label
  <2>5. QED
    BY <2>3, <2>4
(* The call is expanded, from the first clone on.                          *)
<1>9. /\ Top.first => label = FirstClone(c) /\ ~ Expanded(c)
      /\ ~ Top.first => FirstClone(c) \in D
      /\ FirstClone(c) \in D \cup {label} /\ Expanded(c)'
  <2>1. ASSUME Top.first PROVE label = FirstClone(c) /\ ~ Expanded(c)
    <3>1. l = Plain(T) /\ \A x \in D : x.stack_frame_prefix # TopPrefix
      BY <1>0, <1>2, <1>3, <2>1 DEF SecondPassInv, WalkOK, Walking
    <3>2. label = FirstClone(c)
      BY <1>0, <1>6, <3>1, FirstCloneParts DEF Reprefix, Plain, MkLabel
    <3>3. FirstClone(c) \notin D
      BY <1>7, <3>1, <3>2
    <3>4. QED
      BY <3>2, <3>3 DEF Expanded
  <2>2. ~ Top.first => FirstClone(c) \in D
    BY <1>0, <1>2 DEF SecondPassInv, WalkOK
  <2>3. FirstClone(c) \in D \cup {label}
    BY <2>1, <2>2
  <2>4. Expanded(c)'
    BY <1>3, <1>5, <1>6, <2>3, ProgramKept DEF Expanded
  <2>5. QED
    BY <2>1, <2>2, <2>3, <2>4
<1>10. ASSUME NEW x \in D, x # c
       PROVE  Expanded(x)' <=> Expanded(x)
  <2>1. CASE IsCall(x)
    <3>1. FirstClone(x) # label
      <4>1. x \in Label /\ x.to = -1 /\ c.to = -1
        BY <1>2, <1>6, <2>1 DEF IsCall
      <4>2. FramePrefix(x) # TopPrefix
        BY <1>6, <1>10, <4>1, FramePrefixInjective
      <4>3. QED
        BY <1>7, <4>2, FirstCloneParts
    <3>2. QED
      BY <1>3, <1>5, <3>1, ProgramKept DEF Expanded
  <2>2. CASE ~ IsCall(x)
    BY <1>5, <2>2, ProgramKept DEF Expanded
  <2>3. QED
    BY <2>1, <2>2
<1>11. ~ Expanded(label)'
  <2>1. FirstClone(label).stack_frame_prefix = Append(TopPrefix, l.from) /\ l.from \in Int
    BY <1>4, <1>7, FirstCloneParts DEF FramePrefix
  <2>2. FirstClone(label) \notin D
    BY <1>2, <2>1 DEF SecondPassInv, WalkOK
  <2>3. FirstClone(label) # label
    BY <1>6, <1>7, <2>1, AppendFacts DEF Prefix
  <2>4. QED
    BY <1>3, <1>5, <2>2, <2>3, ProgramKept DEF Expanded
<1>12. LabelsRight'
  <2> SUFFICES ASSUME NEW x \in D \cup {label}, x # EntryLabel, x # ExitLabel PROVE LabelRight(x)' /\ CloneRight(x)'
    BY <1>3 DEF LabelsRight, Inner
  <2>1. CASE x \in D
    <3>1. x \in Label /\ LabelRight(x) /\ CloneRight(x)
      BY <1>2, <2>1 DEF LabelsRight, Inner
    <3>2. QED
      BY <1>2, <1>3, <1>5, <2>1, <3>1, LabelKept
  <2>2. CASE x = label
    <3>1. Proper(label)'
      <4>1. Proper(label)
        BY <1>0, <1>2, <1>4, ProperFacts
      <4>2. QED
        BY <1>5, <4>1, ProgramKept
    <3>2. Carries(label)'
      BY <1>4, <1>5, <1>7, ProgramKept DEF LabelRight, Carries, IsJump
    <3>3. LabelRight(label)'
      BY <1>3, <1>5, <1>7, <3>1, <3>2 DEF LabelRight
    <3>4. CloneRight(label)'
      BY <1>0, <1>3, <1>4, <1>5, <1>6, <1>7, ProgramKept DEF CloneRight
    <3>5. QED
      BY <2>2, <3>3, <3>4
  <2>3. QED
    BY <2>1, <2>2
<1>13. EdgesRight'
  <2> SUFFICES ASSUME NEW x \in D \cup {label}, x # ExitLabel PROVE neighbours'[x].children = Edges(x)'
    BY <1>3 DEF EdgesRight
  <2>1. x \in D => neighbours[x].children = Edges(x)
    BY <1>2 DEF SecondPassInv, EdgesRight
  <2>2. CASE x = c
    <3>1. Edges(c)' = {FirstClone(c), Leave(TopPrefix)}
      BY <1>5, <1>6, <1>9, ProgramKept DEF Edges
    <3>2. neighbours'[c].children = neighbours[c].children \cup (IF Top.first THEN {label} ELSE {})
      BY <1>3, <1>6
    <3>3. CASE Top.first
      <4>1. neighbours[c].children = {Leave(TopPrefix)}
        BY <1>6, <1>9, <2>1, <2>2, <3>3 DEF Edges
      <4>2. QED
        BY <1>9, <2>2, <3>1, <3>2, <3>3, <4>1
    <3>4. CASE ~ Top.first
      <4>1. Expanded(c)
        BY <1>6, <1>9, <3>4 DEF Expanded
      <4>2. neighbours[c].children = {FirstClone(c), Leave(TopPrefix)}
        BY <1>0, <1>2, <1>6, <2>1, <2>2, <4>1 DEF Edges
      <4>3. QED
        BY <2>2, <3>1, <3>2, <3>4, <4>2
    <3>5. QED
      BY <3>3, <3>4
  <2>3. CASE x \in D /\ x # c /\ x.stack_frame_prefix = TopPrefix
    <3>1. ~ Expanded(x) /\ neighbours[x].children = StepOver(x) \cap D
      BY <1>2, <1>3, <2>3, ClonesLead
    <3>2. Edges(x)' = StepOver(x) \cap (D \cup {label})
      BY <1>3, <1>5, <1>10, <2>3, <3>1, ProgramKept DEF Edges
    <3>3. neighbours'[x].children = (StepOver(x) \cap D) \cup (IF label \in StepOver(x) THEN {label} ELSE {})
      BY <1>3, <2>3, <3>1
    <3>4. QED
      BY <3>2, <3>3
  <2>4. CASE x \in D /\ x # c /\ x.stack_frame_prefix # TopPrefix
    <3>1. neighbours'[x].children = Edges(x)
      BY <1>3, <2>1, <2>4
    <3>2. CASE Expanded(x)
      <4>1. Edges(x) = {FirstClone(x)}
        BY <1>0, <2>4, <3>2 DEF Edges
      <4>2. Edges(x)' = {FirstClone(x)}
        BY <1>5, <1>10, <2>4, <3>2, ProgramKept DEF Edges
      <4>3. QED
        BY <3>1, <4>1, <4>2
    <3>3. CASE ~ Expanded(x)
      <4>1. StepOver(x) \subseteq D
        BY <1>2, <2>4 DEF SecondPassInv, Closed, Coming
      <4>2. Edges(x) = StepOver(x)
        BY <3>3, <4>1 DEF Edges
      <4>3. Edges(x)' = StepOver(x) \cap (D \cup {label})
        BY <1>3, <1>5, <1>10, <2>4, <3>3, ProgramKept DEF Edges
      <4>4. QED
        BY <3>1, <4>1, <4>2, <4>3
    <3>4. QED
      BY <3>2, <3>3
  <2>5. CASE x = label
    <3>1. Edges(label)' = StepOver(label) \cap (D \cup {label})
      BY <1>3, <1>5, <1>11, ProgramKept DEF Edges
    <3>2. \A z \in StepOver(l) : Move(z, TopPrefix) \in D \cup {label} <=> z = ExitLabel
      BY <1>6, <1>8 DEF Move
    <3>3. StepOver(label) \cap (D \cup {label}) = IF ExitLabel \in StepOver(l) THEN {Leave(TopPrefix)} ELSE {}
      <4>1. Move(ExitLabel, TopPrefix) = Leave(TopPrefix)
        BY DEF Move
      <4>2. StepOver(label) = {Move(z, TopPrefix) : z \in StepOver(l)}
        BY <1>4
      <4>3. QED
        BY <1>6, <3>2, <4>1, <4>2
    <3>4. QED
      BY <1>3, <2>5, <3>1, <3>3
  <2>6. QED
    BY <1>6, <2>2, <2>3, <2>4, <2>5
<1>14. Closed'
  <2> SUFFICES ASSUME NEW x \in D \cup {label}, x # ExitLabel
               PROVE  StepOver(x) \subseteq (D \cup {label}) \cup Coming(x)'
    BY <1>3, <1>5, ProgramKept DEF Closed
  <2>1. x.stack_frame_prefix = TopPrefix =>
          Coming(x)' = {Reprefix(m, TopPrefix) : m \in (Top.macro_labels \ {l}) \cup Unseen(l)}
    BY <1>5 DEF Coming
  <2>2. CASE x \in D /\ x.stack_frame_prefix = TopPrefix
    <3>1. StepOver(x) \subseteq D \cup {Reprefix(m, TopPrefix) : m \in Top.macro_labels}
      BY <1>2, <1>3, <2>2, ClonesLead
    <3>2. QED
      BY <1>0, <2>1, <2>2, <3>1
  <2>3. CASE x \in D /\ x.stack_frame_prefix # TopPrefix
    BY <1>2, <2>3 DEF SecondPassInv, Closed, Coming
  <2>4. CASE x = label
    <3>1. SUFFICES ASSUME NEW z \in StepOver(l)
                   PROVE  \/ Move(z, TopPrefix) \in D
                          \/ Move(z, TopPrefix) \in {Reprefix(m, TopPrefix) : m \in (Top.macro_labels \ {l}) \cup Unseen(l)}
      BY <1>4, <1>7, <2>1, <2>4
    <3>2. CASE z = ExitLabel
      BY <1>6, <3>2 DEF Move
    <3>3. CASE z # ExitLabel
      <4>1. Move(z, TopPrefix) = Reprefix(z, TopPrefix)
        BY <3>3 DEF Move
      <4>2. z # l
        BY <1>4, <3>3 DEF Before, Label
      <4>3. CASE z \in Top.seen_labels
        <5>1. z \in Top.macro_labels \/ Reprefix(z, TopPrefix) \in D
          BY <4>3, TopFacts DEF FrameOK, TopPrefix
        <5>2. QED
          BY <4>1, <4>2, <5>1
      <4>4. CASE z \notin Top.seen_labels
        BY <1>3, <3>3, <4>1, <4>4
      <4>5. QED
        BY <4>3, <4>4
    <3>4. QED
      BY <3>2, <3>3
  <2>5. QED
    BY <2>2, <2>3, <2>4

<1>15. ASSUME NEW x \in Inner, IsCall(x), Waits(x) PROVE Waits(x)'
  <2>1. CASE x.stack_frame_prefix = <<>> /\ x.from >= next
    BY <1>5, <2>1 DEF Waits
  <2>2. CASE x = c
    BY <1>5, <2>2 DEF Waits
  <2>3. ASSUME NEW i \in 1..n, NEW m \in frames[i].todo, x = Reprefix(m, FrameOf(i)) PROVE Waits(x)'
    <3>1. m \in frames'[i].todo /\ x = Reprefix(m, FrameOf(i)') /\ i \in 1..Len(frames')
      BY <1>5, <2>3
    <3>2. QED
      BY <3>1 DEF Waits
  <2>4. CASE x.stack_frame_prefix = TopPrefix /\ Reprefix(x, <<>>) \in Top.seen_labels
    <3>1. Reprefix(x, <<>>) \in Top'.seen_labels
      BY <1>5, <2>4
    <3>2. QED
      BY <1>5, <2>4, <3>1 DEF Waits
  <2>5. QED
    BY <1>0, <1>1, <1>15, <2>1, <2>2, <2>3, <2>4 DEF Waits
<1>16. CallsWait'
  <2> SUFFICES ASSUME NEW x \in D \cup {label}, x # EntryLabel, x # ExitLabel, IsCall(x)
               PROVE  /\ Expanded(x)' => instructions'[x].sfp = FramePrefix(x)
                      /\ ~ Expanded(x)' => Waits(x)'
    BY <1>3, <1>5, ProgramKept DEF CallsWait, Inner
  <2>1. CASE x \in D /\ x # c
    <3>1. x \in Inner
      BY <2>1 DEF Inner
    <3>2. QED
      BY <1>2, <1>5, <1>10, <1>15, <2>1, <3>1 DEF SecondPassInv, CallsWait
  <2>2. CASE x = c
    <3>1. FrameNested(n)
      BY <1>1, <1>2 DEF SecondPassInv, FramesNested
    <3>2. instructions[c].sfp = TopPrefix
      BY <1>0, <1>2, <3>1 DEF FrameNested
    <3>3. instructions'[c].sfp = FramePrefix(c)
      BY <1>5, <1>6, <3>2
    <3>4. QED
      BY <1>9, <2>2, <3>3
  <2>3. CASE x = label
    <3>1. IsCall(l)
      BY <1>7, <2>3 DEF IsCall
    <3>2. StepOver(l) = {MkLabel(<<>>, l.from + 1, -1)} /\ l.from + 1 \in PCs
      BY <1>2, <1>4, <3>1, CallReturns
    <3>3. PICK z : z = MkLabel(<<>>, l.from + 1, -1)
      OBVIOUS
    <3>4. z \in StepOver(l) /\ z.from = l.from + 1 /\ z # ExitLabel
      <4>1. z.from = l.from + 1 /\ l.from + 1 # INT_MAX
        BY <1>2, <3>2, <3>3, LabelParts, PcFacts
      <4>2. QED
        BY <3>2, <3>3, <4>1, EntryExitParts
    <3>5. z \notin Top.seen_labels
      <4>1. Reprefix(z, TopPrefix) \notin D
        BY <1>8, <3>4
      <4>2. z # Plain(T)
        <5>1. Plain(T).from = T
          BY <1>6, LabelFacts
        <5>2. QED
          BY <1>4, <1>6, <3>4, <5>1
      <4>3. QED
        BY <1>0, <1>2, <4>1, <4>2 DEF SecondPassInv, WalkOK
    <3>6. l \in Top'.seen_labels
      <4>1. z \in Unseen(l)
        BY <1>3, <3>4, <3>5
      <4>2. QED
        BY <1>5, <4>1
    <3>7. Waits(label)'
      BY <1>5, <1>7, <3>6 DEF Waits
    <3>8. QED
      BY <1>11, <2>3, <3>7
  <2>4. QED
    BY <2>1, <2>2, <2>3
<1>17. FramesNested'
  <2> SUFFICES ASSUME NEW i \in 1..n PROVE FrameNested(i)' /\ TodoFresh(i)'
    BY <1>5 DEF FramesNested
  <2>1. FrameNested(i) /\ TodoFresh(i)
    BY <1>1, <1>2 DEF SecondPassInv, FramesNested
  <2>2. FrameNested(i)'
    <3>1. i > 1 => FrameOf(i - 1)' = FrameOf(i - 1)
      BY <1>2, <1>5
    <3>2. instructions'[frames[i].caller] = instructions[frames[i].caller]
      <4>1. frames[i].caller \in D
        BY <1>1, FrameFacts DEF FrameOK
      <4>2. QED
        BY <1>5, <4>1
    <3>3. QED
      BY <1>1, <1>5, <2>1, <3>1, <3>2, ProgramKept DEF FrameNested
  <2>3. TodoFresh(i)'
    <3>1. \A j \in (i + 1)..n : FrameOf(j)' = FrameOf(j)
      BY <1>5
    <3>2. CASE i # n
      <4>1. n \in (i + 1)..n
        BY <1>2, <3>2
      <4>2. \A m \in frames[i].todo : TopPrefix # Append(FrameOf(i), m.from)
        BY <1>1, <1>2, <2>1, <4>1 DEF TodoFresh
      <4>3. \A m \in frames[i].todo : \A x \in D \cup {label} : x.stack_frame_prefix # Append(FrameOf(i), m.from)
        BY <1>7, <2>1, <4>2 DEF TodoFresh
      <4>4. frames'[i].todo = frames[i].todo /\ FrameOf(i)' = FrameOf(i) /\ Len(frames') = n
        BY <1>5
      <4>5. \A m \in frames[i].todo :
              m.stack_frame_prefix = <<>> /\ \A j \in (i + 1)..n : FrameOf(j)' # Append(FrameOf(i), m.from)
        BY <1>1, <2>1, <3>1 DEF TodoFresh
      <4>6. QED
        BY <1>3, <4>3, <4>4, <4>5 DEF TodoFresh
    <3>3. CASE i = n
      <4>1. frames'[i].todo = {}
        BY <1>1, <1>2, <1>5, <2>1, <3>3 DEF FrameNested, Active
      <4>2. QED
        BY <4>1 DEF TodoFresh
    <3>4. QED
      BY <3>2, <3>3
  <2>4. QED
    BY <2>2, <2>3
<1>18. WalkOK'
  <2>0. Callee(Top.caller)' = T /\ FirstClone(Top.caller)' = FirstClone(c)
    BY <1>0, <1>5, ProgramKept
  <2>1. ASSUME NEW m \in Top'.macro_labels
        PROVE  /\ m = Plain(T) \/ m \in Inner'
               /\ m.stack_frame_prefix = <<>> /\ m.from >= T
               /\ \A x \in D \cup {label} : x.stack_frame_prefix = TopPrefix => Before(x, m)
    <3>1. CASE m \in Top.macro_labels \ {l}
      <4>1. m = Plain(T) \/ m \in Inner'
        BY <1>0, <1>2, <1>3, <3>1 DEF SecondPassInv, WalkOK, Inner
      <4>2. m.stack_frame_prefix = <<>> /\ m.from >= T
        BY <1>0, <1>2, <3>1 DEF SecondPassInv, WalkOK
      <4>3. Before(label, m)
        <5>1. LabelLess(l, m)
          BY <1>3, <3>1 DEF Walking, IsFirst
        <5>2. ~ PrefixLess(<<>>, <<>>)
          BY DEF PrefixLess
        <5>3. Before(l, m)
          BY <1>4, <4>2, <5>1, <5>2 DEF LabelLess, Before
        <5>4. QED
          BY <1>7, <5>3 DEF Before
      <4>4. \A x \in D : x.stack_frame_prefix = TopPrefix => Before(x, m)
        BY <1>2, <3>1 DEF SecondPassInv, WalkOK
      <4>5. QED
        BY <4>1, <4>2, <4>3, <4>4
    <3>2. CASE m \in Unseen(l)
      <4>1. /\ m \in Inner /\ m \in Label /\ m.stack_frame_prefix = <<>> /\ m.from \in Nat
            /\ m.from >= T /\ Before(l, m)
        BY <1>3, <1>4, <3>2
      <4>2. m \in Inner'
        BY <1>3, <4>1 DEF Inner
      <4>3. Before(label, m)
        BY <1>7, <4>1 DEF Before
      <4>4. ASSUME NEW x \in D, x.stack_frame_prefix = TopPrefix PROVE Before(x, m)
        <5>1. Before(x, l)
          BY <1>2, <1>3, <4>4 DEF SecondPassInv, WalkOK
        <5>2. x \in Label
          BY <1>2
        <5>3. QED
          BY <1>4, <4>1, <5>1, <5>2 DEF Before, Label
      <4>5. QED
        BY <4>1, <4>2, <4>3, <4>4
    <3>3. QED
      BY <1>5, <2>1, <3>1, <3>2
  <2>2. ASSUME NEW s \in Top'.seen_labels
        PROVE  /\ s.stack_frame_prefix = <<>> /\ s.from >= T
               /\ s = Plain(T) \/ Reprefix(s, TopPrefix) \in D \cup {label}
    <3>1. CASE s \in Top.seen_labels
      BY <1>0, <1>2, <3>1 DEF SecondPassInv, WalkOK
    <3>2. CASE s = l
      BY <1>0, <1>4, <3>2
    <3>3. QED
      BY <1>5, <2>2, <3>1, <3>2
  <2>3. ASSUME NEW x \in D \cup {label}, NEW k \in Int PROVE x.stack_frame_prefix # Append(TopPrefix, k)
    <3>1. TopPrefix # Append(TopPrefix, k)
      BY <1>6, AppendFacts DEF Prefix
    <3>2. x \in D => x.stack_frame_prefix # Append(TopPrefix, k)
      BY <1>2 DEF SecondPassInv, WalkOK
    <3>3. QED
      BY <1>7, <3>1, <3>2
  <2>4. FirstClone(c) \in D \cup {label} /\ ~ Top'.first
    BY <1>5, <1>9
  <2>5. /\ Active' /\ TopPrefix' = TopPrefix /\ DOMAIN neighbours' = D \cup {label}
    BY <1>3, <1>5
  <2>6. QED
    BY <2>0, <2>1, <2>2, <2>3, <2>4, <2>5 DEF WalkOK
<1>19. IsFiniteSet(D \cup {label})
  BY <1>2, FS_AddElement
<1>20. QED
  BY <1>2, <1>3, <1>5, <1>12, <1>13, <1>14, <1>16, <1>17, <1>18, <1>19 DEF MatchInv, SecondPassInv


-----------------------------------------------------------------------------
(* All steps together.                                                     *)

LEMMA FailMatches ==
    ASSUME Inv, MatchInv, NEW what, Fail(what)
    PROVE  MatchInv'
<1>1. /\ pass' = "failed"
      /\ UNCHANGED <<prog, must_have_exit, neighbours, instructions, next, frames>>
  BY DEF Fail
<1>2. FunctionsForward(prog)' /\ IsFiniteSet(DOMAIN neighbours)'
  BY <1>1 DEF MatchInv
<1>3. QED
  BY <1>1, <1>2 DEF MatchInv

LEMMA StutterMatches ==
    ASSUME Inv, MatchInv, UNCHANGED vars
    PROVE  MatchInv'
<1>1. UNCHANGED <<prog, must_have_exit, neighbours, instructions, pass, next, frames, error>>
  BY DEF vars
<1>2. /\ Inner' = Inner
      /\ \A l : /\ IsCall(l)' <=> IsCall(l)
                /\ StepOver(l)' = StepOver(l)
                /\ Callee(l)' = Callee(l)
                /\ Expanded(l)' <=> Expanded(l)
                /\ FirstClone(l)' = FirstClone(l)
                /\ Proper(l)' <=> Proper(l)
  BY <1>1, ProgramKept DEF Inner, Expanded
<1>3. /\ Top' = Top /\ TopPrefix' = TopPrefix /\ (Active' <=> Active)
      /\ \A i : FrameOf(i)' = FrameOf(i)
  BY <1>1 DEF Top, TopPrefix, Active, FrameOf
<1>4. \A l : Carries(l)' <=> Carries(l)
  BY <1>1 DEF Carries, InstAt, IsJump
<1>5. LabelsRight' <=> LabelsRight
  BY <1>1, <1>2, <1>4 DEF LabelsRight, LabelRight, CloneRight
<1>6. \A l : Edges(l)' = Edges(l) /\ Coming(l)' = Coming(l)
  BY <1>1, <1>2, <1>3 DEF Edges, Coming
<1>7. (EdgesRight' <=> EdgesRight) /\ (Closed' <=> Closed)
  BY <1>1, <1>2, <1>6 DEF EdgesRight, Closed
<1>8. \A l : Waits(l)' <=> Waits(l)
  BY <1>1, <1>3 DEF Waits
<1>9. CallsWait' <=> CallsWait
  BY <1>1, <1>2, <1>8 DEF CallsWait
<1>10. FramesNested' <=> FramesNested
  <2>1. \A i : FrameNested(i)' <=> FrameNested(i)
    BY <1>1, <1>2, <1>3, ProgramKept DEF FrameNested
  <2>2. \A i : TodoFresh(i)' <=> TodoFresh(i)
    BY <1>1, <1>3 DEF TodoFresh
  <2>3. QED
    BY <1>1, <2>1, <2>2 DEF FramesNested
<1>11. WalkOK' <=> WalkOK
  BY <1>1, <1>2, <1>3 DEF WalkOK
<1>12. FirstPassInv' <=> FirstPassInv
  BY <1>1, <1>2, <1>5 DEF FirstPassInv
<1>13. SecondPassInv' <=> SecondPassInv
  BY <1>5, <1>7, <1>9, <1>10, <1>11 DEF SecondPassInv
<1>14. QED
  BY <1>1, <1>12, <1>13 DEF MatchInv

LEMMA InitMatches ==
    ASSUME \A p \in Programs : FunctionsForward(p), Init
    PROVE  MatchInv
<1>1. FunctionsForward(prog) /\ pass = "insert" /\ next = 0
  BY DEF Init
<1>2. neighbours = [l \in {EntryLabel, ExitLabel} |-> EmptyNode]
  BY DEF Init
<1>3. IsFiniteSet(DOMAIN neighbours)
  <2>1. IsFiniteSet({EntryLabel}) /\ {EntryLabel} \cup {ExitLabel} = {EntryLabel, ExitLabel}
    BY FS_Singleton
  <2>2. IsFiniteSet({EntryLabel} \cup {ExitLabel})
    BY <2>1, FS_AddElement
  <2>3. QED
    BY <1>2, <2>1, <2>2
<1>4. QED
  BY <1>1, <1>2, <1>3 DEF MatchInv

LEMMA NextMatches ==
    ASSUME Inv, MatchInv, [Next]_vars
    PROVE  MatchInv'
<1>1. CASE FirstPass
  <2>1. CASE InsertFails
    BY <2>1, FailMatches DEF InsertFails
  <2>2. CASE InsertInstructions
    BY <2>2, InsertMatches
  <2>3. ASSUME NEW pc \in PCs, ConnectFails(pc) PROVE MatchInv'
    BY <2>3, FailMatches DEF ConnectFails
  <2>4. ASSUME NEW pc \in PCs, ConnectPlain(pc) PROVE MatchInv'
    BY <2>4, ConnectPlainMatches
  <2>5. ASSUME NEW pc \in PCs, ConnectBranch(pc) PROVE MatchInv'
    BY <2>5, ConnectBranchMatches
  <2>6. ASSUME NEW pc \in PCs, SkipUndefined(pc) PROVE MatchInv'
    BY <2>6, SkipUndefinedMatches
  <2>7. CASE StartSecondPass
    BY <2>7, StartSecondPassMatches
  <2>8. QED
    BY <1>1, <2>1, <2>2, <2>3, <2>4, <2>5, <2>6, <2>7 DEF FirstPass
<1>2. CASE SecondPass
  <2>1. CASE SkipInstruction
    BY <2>1, SkipInstructionMatches
  <2>2. CASE ReplaceMacro
    BY <2>2, ReplaceMacroMatches
  <2>3. ASSUME frames # <<>>, NEW l \in Top.macro_labels, CloneFails(l) PROVE MatchInv'
    BY <2>3, FailMatches DEF CloneFails
  <2>4. ASSUME frames # <<>>, NEW l \in Top.macro_labels, CloneMacroLabel(l) PROVE MatchInv'
    BY <2>4, CloneMacroLabelMatches
  <2>5. CASE EndWalk
    BY <2>5, EndWalkMatches
  <2>6. ASSUME frames # <<>>, NEW l \in Top.todo, TooManyFrames(l) PROVE MatchInv'
    BY <2>6, FailMatches DEF TooManyFrames
  <2>7. ASSUME frames # <<>>, NEW l \in Top.todo, ReplaceNestedMacro(l) PROVE MatchInv'
    BY <2>7, ReplaceNestedMacroMatches
  <2>8. CASE ReturnFromMacro
    BY <2>8, ReturnFromMacroMatches
  <2>9. CASE Finish
    BY <2>9, FinishMatches
  <2>10. QED
    BY <1>2, <2>1, <2>2, <2>3, <2>4, <2>5, <2>6, <2>7, <2>8, <2>9 DEF SecondPass, WalkMacro
<1>3. CASE UNCHANGED vars
  BY <1>3, StutterMatches
<1>4. QED
  BY <1>1, <1>2, <1>3 DEF Next, Terminating

(* When the builder has returned, every call has its callee, and every     *)
(* label the edges of the program.                                         *)
LEMMA DoneMatches ==
    ASSUME Inv, MatchInv, Done, NEW l \in DOMAIN neighbours
    PROVE  /\ neighbours[l].children = Successors(l)
           /\ l \notin {EntryLabel, ExitLabel} =>
                /\ Carries(l)
                /\ instructions[l].op = "call" => instructions[l].sfp = FramePrefix(l)
                /\ instructions[l].op \in {"exit", "helper"} => instructions[l].sfp = l.stack_frame_prefix
<1>1. /\ SecondPassInv /\ LabelsRight /\ frames = <<>> /\ next = Len(prog) /\ ~ Active
      /\ prog \in Seq(Inst) /\ Len(prog) < INT_MAX
  <2>1. pass = "done"
    BY DEF Done
  <2>2. QED
    BY <2>1, InvFacts DEF MatchInv, SecondPassInv, Active
<1>2. ASSUME l \in Inner, IsCall(l)
      PROVE  Expanded(l) /\ instructions[l].sfp = FramePrefix(l)
  <2>1. ~ Waits(l)
    <3>1. l.from \in Nat /\ l.from < Len(prog) /\ Len(prog) \in Nat
      BY <1>1, <1>2, PcFacts DEF IsCall
    <3>2. ~ (l.from >= next)
      BY <1>1, <3>1
    <3>3. 1..Len(frames) = {}
      BY <1>1
    <3>4. QED
      BY <1>1, <3>2, <3>3 DEF Waits
  <2>2. QED
    BY <1>1, <1>2, <2>1 DEF SecondPassInv, CallsWait
<1>3. neighbours[l].children = Successors(l)
  <2>1. CASE l = ExitLabel
    <3>1. neighbours[l].children = {}
      BY <2>1 DEF Inv, GraphOK, Mirror
    <3>2. EntryLabel # ExitLabel /\ ~ IsJump(ExitLabel)
      BY LabelFacts, EntryExitParts DEF IsJump
    <3>3. Successors(ExitLabel) = {}
      BY <3>2 DEF Successors
    <3>4. QED
      BY <2>1, <3>1, <3>3
  <2>2. CASE l # ExitLabel
    <3>1. neighbours[l].children = Edges(l) /\ StepOver(l) \subseteq DOMAIN neighbours
      BY <1>1, <2>2 DEF SecondPassInv, EdgesRight, Closed, Coming
    <3>2. CASE IsCall(l)
      <4>1. l \in Inner
        BY <1>1, <2>2, <3>2, EntrySteps DEF Inner
      <4>2. neighbours[l].children = {FirstClone(l)}
        BY <1>1, <1>2, <3>1, <3>2, <4>1 DEF Edges
      <4>3. l # EntryLabel /\ ~ IsJump(l) /\ InstAt(l.from).op = "call"
        BY <3>2, <4>1 DEF Inner, IsJump, IsCall
      <4>4. Successors(l) = {At(Append(l.stack_frame_prefix, l.from), InstAt(l.from).target)}
        BY <2>2, <4>3 DEF Successors
      <4>5. QED
        BY <4>2, <4>4 DEF FirstClone, FramePrefix, Callee
    <3>3. CASE ~ IsCall(l)
      BY <3>1, <3>3 DEF Edges, Expanded, StepOver
    <3>4. QED
      BY <3>2, <3>3
  <2>3. QED
    BY <2>1, <2>2
<1>4. ASSUME l \notin {EntryLabel, ExitLabel}
      PROVE  /\ Carries(l)
             /\ instructions[l].op = "call" => instructions[l].sfp = FramePrefix(l)
             /\ instructions[l].op \in {"exit", "helper"} => instructions[l].sfp = l.stack_frame_prefix
  <2>1. l \in Inner
    BY <1>4 DEF Inner
  <2>2. LabelRight(l)
    BY <1>1, <2>1 DEF LabelsRight
  <2>3. instructions[l].op = "call" => IsCall(l)
    BY <1>1, <2>1, CallByInstruction
  <2>4. QED
    BY <1>2, <2>1, <2>2, <2>3 DEF LabelRight
<1>5. QED
  BY <1>3, <1>4

(* What can be reached in a graph is in it.                                *)
LEMMA ReachInside ==
    ASSUME NEW graph, IsFiniteSet(DOMAIN graph), NEW S \in SUBSET DOMAIN graph,
           \A l \in DOMAIN graph : graph[l].children \subseteq DOMAIN graph
    PROVE  Reach(graph, S) \subseteq DOMAIN graph
<1> DEFINE W == DOMAIN graph
           n == Cardinality(W)
           Succ(P) == P \cup UNION {graph[l].children : l \in P}
           IsIter(R) == R = [k \in 0..n |-> IF k = 0 THEN S
                                            ELSE LET prev == R[k - 1]
                                                 IN  prev \cup UNION {graph[l].children : l \in prev}]
           reach == CHOOSE R : IsIter(R)
<1>1. n \in Nat
  BY FS_CardinalityType
<1>2. Reach(graph, S) = reach[n]
  BY DEF Reach
<1>3. IsIter(reach)
  <2> DEFINE step == [P \in SUBSET W |-> Succ(P)]
  <2>1. step \in [SUBSET W -> SUBSET W] /\ S \in SUBSET W
    OBVIOUS
  <2> HIDE DEF step, n
  <2>2. n \in Nat
    BY <1>1 DEF n
  <2>3. \E it \in [0..n -> SUBSET W] : IsSequence(it, n, S, step)
    <3> HIDE DEF reach, IsIter, Succ
    <3>1. QED
      BY <2>1, <2>2, SequenceExists
  <2>4. PICK it \in [0..n -> SUBSET W] : it = [k \in 0..n |-> IF k = 0 THEN S ELSE step[it[k - 1]]]
    BY <2>3 DEF IsSequence
  <2>5. \A k \in 0..n : k # 0 => k - 1 \in 0..n
    BY <2>2
  <2>6. \A k \in 0..n : k # 0 => step[it[k - 1]] = Succ(it[k - 1])
    BY <2>5 DEF step
  <2>7. it = [k \in 0..n |-> IF k = 0 THEN S ELSE Succ(it[k - 1])]
    BY <2>4, <2>6
  <2>8. IsIter(it)
    BY <2>7
  <2> HIDE DEF IsIter
  <2>9. QED
    BY <2>8
<1> HIDE DEF reach
<1>4. reach[0] = S /\ \A k \in 0..n : k # 0 => reach[k] = Succ(reach[k - 1])
  <2>1. 0 \in 0..n
    BY <1>1
  <2> HIDE DEF n
  <2>2. QED
    BY <1>3, <2>1
<1> HIDE DEF IsIter, n
<1> DEFINE B == {k \in Nat : k <= n => reach[k] \subseteq W}
<1>5. 0 \in B
  BY <1>4
<1>6. ASSUME NEW k \in Nat, k \in B PROVE k + 1 \in B
  <2> SUFFICES ASSUME k + 1 <= n PROVE reach[k + 1] \subseteq W
    OBVIOUS
  <2>1. k <= n /\ k + 1 \in 0..n /\ k + 1 # 0 /\ (k + 1) - 1 = k
    BY <1>1
  <2>2. reach[k] \subseteq W /\ reach[k + 1] = Succ(reach[k])
    BY <1>4, <1>6, <2>1
  <2>3. QED
    BY <2>2
<1> HIDE DEF B
<1>7. n \in B
  BY <1>1, <1>5, <1>6, NumberInduction
<1>8. QED
  BY <1>1, <1>2, <1>7 DEF B

LEMMA DoneReachable ==
    ASSUME Inv, MatchInv
    PROVE  CfgMatchesProgram /\ FramePrefixesMatch
<1>1. Reachable \subseteq DOMAIN neighbours
  BY InvFacts, ReachInside DEF Reachable, MatchInv
<1>2. QED
  BY <1>1, DoneMatches DEF CfgMatchesProgram, FramePrefixesMatch

(* The invariant behind the two theorems that follow.                      *)
THEOREM MatchInvariance ==
    ASSUME \A p \in Programs : FunctionsForward(p)
    PROVE  Spec => []MatchInv
<1>1. Init => MatchInv
  BY InitMatches
<1>2. Inv /\ MatchInv /\ [Next]_vars => MatchInv'
  BY NextMatches
<1>3. QED
  BY Invariance, <1>1, <1>2, PTL DEF Spec

(* For all programs whose functions only go forward, when the builder      *)
(* returns, the graph has exactly the edges of the program with its calls  *)
(* inlined, at any depth, and each label carries the right instruction.    *)
THEOREM CfgExact ==
    ASSUME \A p \in Programs : FunctionsForward(p)
    PROVE  Spec => []CfgMatchesProgram
<1>1. Inv /\ MatchInv => CfgMatchesProgram
  BY DoneReachable
<1>2. QED
  BY Invariance, MatchInvariance, <1>1, PTL

(* For all such programs, every call names the frame of the clone it       *)
(* enters, and every exit and helper call the frame it runs in.            *)
THEOREM FramesExact ==
    ASSUME \A p \in Programs : FunctionsForward(p)
    PROVE  Spec => []FramePrefixesMatch
<1>1. Inv /\ MatchInv => FramePrefixesMatch
  BY DoneReachable
<1>2. QED
  BY Invariance, MatchInvariance, <1>1, PTL

-----------------------------------------------------------------------------
(* Refusals.                                                               *)

(* The pcs that execution can be at in a function, from its first on.      *)
LEMMA BodyFacts ==
    ASSUME prog \in Seq(Inst), Len(prog) < INT_MAX, FunctionsForward(prog),
           NEW c \in PCs, InstAt(c).op = "call", NEW T, T = InstAt(c).target
    PROVE  /\ T \in PCs /\ T \in Body(T) /\ Body(T) \subseteq PCs
           /\ \A q \in Body(T) : BodyStep(q) \cap PCs \subseteq Body(T)
<1> DEFINE n == Len(prog)
           Succ(P) == P \cup UNION {BodyStep(q) : q \in P \cap PCs}
           IsIter(R) == R = [k \in 0..n |-> IF k = 0 THEN {T}
                                            ELSE LET prev == R[k - 1]
                                                 IN  prev \cup UNION {BodyStep(q) : q \in prev \cap PCs}]
           reach == CHOOSE R : IsIter(R)
<1>1. /\ n \in Nat /\ T \in PCs /\ T \in Nat /\ T < n
      /\ \A q \in PCs : q \in Nat /\ q < n /\ InstAt(q).target \in Nat
      /\ \A q \in Nat : q < n <=> q \in PCs
  <2>1. T \in PCs
    BY FunctionForward
  <2>2. \A q \in PCs : InstAt(q) \in Inst
    BY DEF PCs, InstAt
  <2>3. QED
    BY <2>1, <2>2, PcFacts DEF Inst
<1>2. Body(T) = reach[n] \cap PCs
  BY DEF Body
(* From the callee on execution only goes forward.                         *)
<1>3. \A q \in PCs : q >= T => \A s \in BodyStep(q) : s \in Nat /\ s >= q + 1
  <2> SUFFICES ASSUME NEW q \in PCs, q >= T, NEW s \in BodyStep(q) PROVE s \in Nat /\ s >= q + 1
    OBVIOUS
  <2>1. InstAt(q).op \in {"jcc", "ja"} => InstAt(q).target > q
    BY FunctionForward
  <2>2. s = q + 1 \/ (InstAt(q).op \in {"jcc", "ja"} /\ s = InstAt(q).target)
    BY DEF BodyStep
  <2>3. QED
    BY <1>1, <2>1, <2>2
<1>4. \A q \in PCs : BodyStep(q) \in SUBSET Nat
  BY <1>1 DEF BodyStep
<1>5. IsIter(reach)
  <2> DEFINE step == [P \in SUBSET Nat |-> Succ(P)]
  <2>1. step \in [SUBSET Nat -> SUBSET Nat] /\ {T} \in SUBSET Nat
    BY <1>1, <1>4
  <2> HIDE DEF step, n
  <2>2. n \in Nat
    BY <1>1 DEF n
  <2>3. \E it \in [0..n -> SUBSET Nat] : IsSequence(it, n, {T}, step)
    <3> HIDE DEF reach, IsIter, Succ
    <3>1. QED
      BY <2>1, <2>2, SequenceExists
  <2>4. PICK it \in [0..n -> SUBSET Nat] : it = [k \in 0..n |-> IF k = 0 THEN {T} ELSE step[it[k - 1]]]
    BY <2>3 DEF IsSequence
  <2>5. \A k \in 0..n : k # 0 => k - 1 \in 0..n
    BY <2>2
  <2>6. \A k \in 0..n : k # 0 => step[it[k - 1]] = Succ(it[k - 1])
    BY <2>5 DEF step
  <2>7. it = [k \in 0..n |-> IF k = 0 THEN {T} ELSE Succ(it[k - 1])]
    BY <2>4, <2>6
  <2>8. IsIter(it)
    BY <2>7
  <2> HIDE DEF IsIter
  <2>9. QED
    BY <2>8
<1> HIDE DEF reach
<1>6. reach[0] = {T} /\ \A k \in 0..n : k # 0 => reach[k] = Succ(reach[k - 1])
  <2>1. 0 \in 0..n
    BY <1>1
  <2> HIDE DEF n
  <2>2. QED
    BY <1>5, <2>1
<1> HIDE DEF IsIter, n
<1> DEFINE A == {k \in Nat : k <= n => T \in reach[k]}
           B == {k \in Nat : k <= n => \A q \in reach[k] :
                               q \in Nat /\ q >= T /\ \A j \in 0..n : j >= q - T => q \in reach[j]}
<1>7. n \in Nat
  BY <1>1
<1>8. \A k \in Nat : k <= n => T \in reach[k]
  <2>1. 0 \in A
    BY <1>6
  <2>2. ASSUME NEW k \in Nat, k \in A PROVE k + 1 \in A
    <3> SUFFICES ASSUME k + 1 <= n PROVE T \in reach[k + 1]
      OBVIOUS
    <3>1. k <= n /\ k + 1 \in 0..n /\ k + 1 # 0 /\ (k + 1) - 1 = k
      BY <1>7
    <3>2. T \in reach[k] /\ reach[k + 1] = Succ(reach[k])
      BY <1>6, <2>2, <3>1
    <3>3. QED
      BY <3>2
  <2> HIDE DEF A
  <2>3. \A k \in Nat : k \in A
    BY <2>1, <2>2, NumberInduction
  <2>4. QED
    BY <2>3 DEF A
(* Each pc is reached in as many steps as it is away.                      *)
<1>9. \A k \in Nat : k <= n => \A q \in reach[k] :
         q \in Nat /\ q >= T /\ \A j \in 0..n : j >= q - T => q \in reach[j]
  <2>1. 0 \in B
    BY <1>1, <1>6, <1>8
  <2>2. ASSUME NEW k \in Nat, k \in B PROVE k + 1 \in B
    <3> SUFFICES ASSUME k + 1 <= n, NEW s \in reach[k + 1]
                 PROVE  s \in Nat /\ s >= T /\ \A j \in 0..n : j >= s - T => s \in reach[j]
      OBVIOUS
    <3>1. k <= n /\ k + 1 \in 0..n /\ k + 1 # 0 /\ (k + 1) - 1 = k
      BY <1>7
    <3>2. s \in Succ(reach[k])
      BY <1>6, <3>1
    <3>3. CASE s \in reach[k]
      BY <2>2, <3>1, <3>3
    <3>4. ASSUME NEW q \in reach[k] \cap PCs, s \in BodyStep(q)
          PROVE  s \in Nat /\ s >= T /\ \A j \in 0..n : j >= s - T => s \in reach[j]
      <4>1. q \in Nat /\ q >= T /\ \A j \in 0..n : j >= q - T => q \in reach[j]
        BY <2>2, <3>1, <3>4
      <4>2. s \in Nat /\ s >= q + 1
        BY <1>3, <3>4, <4>1
      <4>3. s >= T
        BY <1>1, <4>1, <4>2
      <4>4. ASSUME NEW j \in 0..n, j >= s - T PROVE s \in reach[j]
        <5>1. j # 0 /\ j - 1 \in 0..n /\ j - 1 >= q - T
          BY <1>1, <1>7, <4>1, <4>2, <4>4
        <5>2. q \in reach[j - 1] /\ reach[j] = Succ(reach[j - 1])
          BY <1>6, <4>1, <5>1
        <5>3. QED
          BY <3>4, <5>2
      <4>5. QED
        BY <4>2, <4>3, <4>4
    <3>5. QED
      BY <3>2, <3>3, <3>4
  <2> HIDE DEF B
  <2>3. \A k \in Nat : k \in B
    BY <2>1, <2>2, NumberInduction
  <2>4. QED
    BY <2>3 DEF B
<1>10. ASSUME NEW q \in Body(T), NEW s \in BodyStep(q) \cap PCs PROVE s \in Body(T)
  <2>1. q \in reach[n] /\ q \in PCs
    BY <1>2, <1>10 DEF n
  <2>2. q \in Nat /\ q < n
    BY <1>1, <2>1 DEF n
  <2>3. n - 1 \in 0..n /\ n - 1 >= q - T /\ n \in 0..n /\ n # 0
    BY <1>1, <1>7, <2>2
  <2>4. q \in reach[n - 1]
    BY <1>7, <1>9, <2>1, <2>3
  <2>5. s \in reach[n]
    BY <1>6, <1>10, <2>1, <2>3, <2>4
  <2>6. QED
    BY <1>2, <1>10, <2>5 DEF n
<1>11. T \in reach[n]
  BY <1>7, <1>8
<1>12. QED
  BY <1>1, <1>2, <1>10, <1>11 DEF n


(* What a program may be refused for.                                      *)
Justified(what) ==
    /\ what \in EdgeErrors =>
         Len(prog) = 0 \/ (\E pc \in PCs : BodyStep(pc) \ DefinedPCs # {}) \/ 0 \notin DefinedPCs
    /\ what = "not_found" => \E pc \in PCs : Calls(pc) /\ InstAt(pc).target \notin DefinedPCs
    /\ what \in CallErrors \ {"not_found"} => HasDeepCalls

(* The program as a parameter, which a step leaves alone.                  *)
StepIn(p, pc) ==
    CASE p[pc + 1].op = "undef" -> {}
      [] p[pc + 1].op = "exit"  -> {}
      [] p[pc + 1].op = "ja"    -> {p[pc + 1].target}
      [] p[pc + 1].op = "jcc"   -> {p[pc + 1].target, pc + 1}
      [] OTHER                  -> {pc + 1}

BodyIn(p, pc) ==
    LET R[k \in 0..Len(p)] ==
          IF k = 0 THEN {pc}
          ELSE LET prev == R[k - 1]
               IN  prev \cup UNION {StepIn(p, q) : q \in prev \cap (0..(Len(p) - 1))}
    IN  R[Len(p)] \cap (0..(Len(p) - 1))

ChainedIn(p, pc, k) ==
    LET R[d \in 1..k] ==
          IF d = 1 THEN {pc}
          ELSE UNION {{q \in BodyIn(p, p[c + 1].target) : p[q + 1].op = "call"} :
                        c \in {c \in R[d - 1] : p[c + 1].target \in 0..(Len(p) - 1)}}
    IN  R[k]

LEMMA BodyKept ==
    ASSUME prog' = prog
    PROVE  \A pc : Body(pc)' = Body(pc)
<1>1. \A pc : Body(pc) = BodyIn(prog, pc)
  BY DEF Body, BodyStep, PCs, InstAt, BodyIn, StepIn
<1>2. \A pc : Body(pc)' = BodyIn(prog', pc)
  BY DEF Body, BodyStep, PCs, InstAt, BodyIn, StepIn
<1>3. QED
  BY <1>1, <1>2

LEMMA ChainedKept ==
    ASSUME prog' = prog
    PROVE  \A pc, k : ChainedCalls(pc, k)' = ChainedCalls(pc, k)
<1>1. \A pc, k : ChainedCalls(pc, k) = ChainedIn(prog, pc, k)
  BY DEF ChainedCalls, ChainedIn, Calls, Body, BodyStep, PCs, InstAt, BodyIn, StepIn
<1>2. \A pc, k : ChainedCalls(pc, k)' = ChainedIn(prog', pc, k)
  BY DEF ChainedCalls, ChainedIn, Calls, Body, BodyStep, PCs, InstAt, BodyIn, StepIn
<1>3. QED
  BY <1>1, <1>2

LEMMA JustifiedKept ==
    ASSUME prog' = prog
    PROVE  \A what : Justified(what)' <=> Justified(what)
<1>1. PCs' = PCs /\ (\A pc : InstAt(pc)' = InstAt(pc)) /\ \A pc : Body(pc)' = Body(pc)
  BY BodyKept DEF PCs, InstAt
<1>2. \A pc : BodyStep(pc)' = BodyStep(pc) /\ (Calls(pc)' <=> Calls(pc))
  BY <1>1 DEF BodyStep, Calls
<1>3. DefinedPCs' = DefinedPCs
  BY <1>1 DEF DefinedPCs
<1>4. \A pc, k : ChainedCalls(pc, k)' = ChainedCalls(pc, k)
  BY ChainedKept
<1>5. HasDeepCalls' <=> HasDeepCalls
  BY <1>1, <1>2, <1>4 DEF HasDeepCalls
<1>6. QED
  BY <1>1, <1>2, <1>3, <1>5 DEF Justified


-----------------------------------------------------------------------------
(* The refusals of the first pass.                                         *)
LEMMA InsertFailsRightly ==
    ASSUME Inv, InsertFails
    PROVE  Justified(error')
<1>1. (Len(prog) = 0 /\ error' = "empty") \/ (0 \notin DefinedPCs /\ error' = "out_of_range")
  BY DEF InsertFails, Fail
<1>2. QED
  BY <1>1 DEF Justified, EdgeErrors, CallErrors

(* Execution goes from a defined pc to one that has no instruction.        *)
LEMMA LostStep ==
    ASSUME Inv, pass = "connect", NEW pc \in PCs, NEW s \in BodyStep(pc), Plain(s) \notin DOMAIN neighbours,
           NEW what \in EdgeErrors
    PROVE  Justified(what)
<1>1. s \notin DefinedPCs
  BY DEF Inv, PlainInv
<1>2. what # "not_found" /\ what \notin CallErrors
  BY DEF EdgeErrors, CallErrors
<1>3. QED
  BY <1>1, <1>2 DEF Justified

LEMMA ConnectFailsRightly ==
    ASSUME Inv, NEW pc \in PCs, ConnectFails(pc)
    PROVE  Justified(error')
<1>1. /\ pass = "connect" /\ pc \in DefinedPCs /\ InstAt(pc).op # "undef"
      /\ Plain(pc) \in DOMAIN neighbours /\ ExitLabel \in DOMAIN neighbours
      /\ error' \in EdgeErrors
  <2>1. pass = "connect" /\ pc \in DefinedPCs /\ error' \in EdgeErrors
    BY DEF ConnectFails, Connecting, Fail, EdgeErrors
  <2>2. Plain(pc) \in DOMAIN neighbours
    BY <2>1 DEF Inv, PlainInv
  <2>3. QED
    BY <2>1, <2>2, InvFacts DEF DefinedPCs
<1>2. CASE FallsOff(pc)
  <2>1. IsLast(pc) /\ InstAt(pc).op \notin {"exit", "ja"}
    BY <1>2 DEF FallsOff, has_fall
  <2>2. pc + 1 \in BodyStep(pc)
    BY <1>1, <2>1 DEF BodyStep
  <2>3. pc + 1 \notin DefinedPCs
    BY <2>1, InvFacts DEF IsLast, DefinedPCs, PCs
  <2>4. error' \notin CallErrors
    BY <1>1 DEF EdgeErrors, CallErrors
  <2>5. QED
    BY <2>2, <2>3, <2>4 DEF Justified, CallErrors
<1>3. CASE Branches(pc)
  <2>1. InstAt(pc).op = "jcc" /\ BodyStep(pc) = {InstAt(pc).target, pc + 1}
    BY <1>3 DEF Branches, BodyStep
  <2>2. FallsOff(pc) \/ Plain(InstAt(pc).target) \notin DOMAIN neighbours \/ Fallthrough(pc) \notin DOMAIN neighbours
    BY <1>3 DEF ConnectFails
  <2>3. Fallthrough(pc) \notin DOMAIN neighbours => Plain(pc + 1) \notin DOMAIN neighbours
    BY <1>1 DEF Fallthrough
  <2>4. QED
    BY <1>1, <1>2, <2>1, <2>2, <2>3, LostStep
<1>4. CASE ~ FallsOff(pc) /\ ~ Branches(pc)
  <2>1. PICK e \in PlainEdges(pc) : e[1] \notin DOMAIN neighbours \/ e[2] \notin DOMAIN neighbours
    BY <1>4 DEF ConnectFails, Connectable
  <2>2. CASE InstAt(pc).op = "exit"
    BY <1>1, <2>1, <2>2 DEF PlainEdges
  <2>3. CASE InstAt(pc).op = "ja"
    <3>1. Plain(InstAt(pc).target) \notin DOMAIN neighbours /\ InstAt(pc).target \in BodyStep(pc)
      BY <1>1, <2>1, <2>3 DEF PlainEdges, BodyStep
    <3>2. QED
      BY <1>1, <3>1, LostStep
  <2>4. CASE InstAt(pc).op \notin {"exit", "ja"}
    <3>1. Fallthrough(pc) \notin DOMAIN neighbours
      BY <1>1, <2>1, <2>4 DEF PlainEdges
    <3>2. Plain(pc + 1) \notin DOMAIN neighbours
      BY <1>1, <3>1 DEF Fallthrough
    <3>3. pc + 1 \in BodyStep(pc)
      BY <1>1, <2>4 DEF BodyStep
    <3>4. QED
      BY <1>1, <3>2, <3>3, LostStep
  <2>5. QED
    BY <2>2, <2>3, <2>4
<1>5. QED
  BY <1>2, <1>3, <1>4

-----------------------------------------------------------------------------
(* What a frame walks over is in the body of its callee.                   *)
FrameChained(i) ==
    /\ \A m \in frames[i].macro_labels \cup frames[i].seen_labels \cup frames[i].todo :
         m.from \in Body(Callee(frames[i].caller))
    /\ i > 1 => frames[i].caller.from \in Body(Callee(frames[i - 1].caller))

Chained == \A i \in 1..Len(frames) : FrameChained(i)

(* The labels that a label in the body of a function leads to.             *)
LEMMA StepsInBody ==
    ASSUME Inv, SecondPassInv, FunctionsForward(prog), NEW c \in PCs, InstAt(c).op = "call",
           NEW l \in Inner, Proper(l), l.stack_frame_prefix = <<>>, l.from \in Body(InstAt(c).target),
           NEW z \in StepOver(l), z \in Inner
    PROVE  z.from \in Body(InstAt(c).target)
<1>1. /\ prog \in Seq(Inst) /\ Len(prog) < INT_MAX /\ l \in Label /\ z # ExitLabel /\ z.from \in PCs
      /\ l.from \in PCs
  BY InvFacts DEF Inner, SecondPassInv, LabelsRight, LabelRight, Proper
<1>2. \A q \in Body(InstAt(c).target) : BodyStep(q) \cap PCs \subseteq Body(InstAt(c).target)
  BY <1>1, BodyFacts
<1>3. SUFFICES z.from = l.from \/ z.from \in BodyStep(l.from)
  BY <1>1, <1>2
<1>4. PICK pc \in PCs : pc = l.from /\ InstAt(pc).op # "undef"
  BY <1>1 DEF Proper
<1>5. l = MkLabel(<<>>, pc, l.to)
  BY <1>1, <1>4, LabelParts
<1>6. CASE l.to # -1
  <2>1. StepOver(l) = {IF l.to = INT_MAX THEN Leave(<<>>) ELSE At(<<>>, l.to)}
    <3>1. PICK to : to = l.to
      OBVIOUS
    <3>2. StepOver(MkLabel(<<>>, pc, to)) = {IF to = INT_MAX THEN Leave(<<>>) ELSE At(<<>>, to)}
      <4>1. prog \in Seq(Inst) /\ Len(prog) < INT_MAX /\ to # -1
        BY <1>1, <1>6, <3>1
      <4>2. QED
        BY <4>1, JumpLeads
    <3>3. QED
      BY <1>5, <3>1, <3>2
  <2>2. l.to # INT_MAX /\ z.from = l.to
    BY <1>1, <2>1, LeaveMain, LabelParts DEF At
  <2>3. Branches(pc) /\ Reprefix(l, <<>>) \in JumpLabels(pc)
    BY <1>4, <1>6 DEF Proper
  <2>4. PICK t \in Targets(pc) : Reprefix(l, <<>>) = make_jump(Plain(pc), t)
    BY <2>3 DEF JumpLabels
  <2>5. l.to = t.from
    BY <2>4, LabelParts DEF make_jump
  <2>6. t.from \in {InstAt(pc).target, INT_MAX, pc + 1}
    BY LabelParts, EntryExitParts DEF Targets, Fallthrough, Plain
  <2>7. BodyStep(pc) = {InstAt(pc).target, pc + 1}
    BY <2>3 DEF Branches, BodyStep
  <2>8. QED
    BY <1>4, <2>2, <2>5, <2>6, <2>7
<1>7. CASE l.to = -1 /\ InstAt(pc).op = "exit"
  <2>1. StepOver(l) = {Leave(<<>>)}
    BY <1>1, <1>5, <1>7, StepOverCases DEF Branches
  <2>2. QED
    BY <1>1, <2>1, LeaveMain
<1>8. CASE l.to = -1 /\ InstAt(pc).op = "ja"
  <2>1. StepOver(l) = {At(<<>>, InstAt(pc).target)}
    BY <1>1, <1>5, <1>8, StepOverCases DEF Branches
  <2>2. z.from = InstAt(pc).target
    BY <2>1, LabelParts DEF At
  <2>3. QED
    BY <1>4, <1>8, <2>2 DEF BodyStep
<1>9. CASE l.to = -1 /\ Branches(pc)
  <2>1. StepOver(l) = {MkLabel(<<>>, pc, t.from) : t \in Targets(pc)}
    BY <1>1, <1>5, <1>9, StepOverCases DEF Branches
  <2>2. QED
    BY <1>4, <2>1, LabelParts
<1>10. CASE l.to = -1 /\ InstAt(pc).op \notin {"exit", "ja"} /\ ~ Branches(pc)
  <2>1. StepOver(l) = {FallTo(<<>>, pc)}
    BY <1>1, <1>5, <1>10, StepOverCases
  <2>2. z.from = pc + 1
    BY <1>1, <2>1, LeaveMain, LabelParts DEF FallTo, At
  <2>3. pc + 1 \in BodyStep(pc)
    BY <1>4, <1>10 DEF BodyStep
  <2>4. QED
    BY <1>4, <2>2, <2>3
<1>11. QED
  BY <1>6, <1>7, <1>8, <1>9, <1>10


-----------------------------------------------------------------------------
(* Chained stays.                                                          *)

(* A step that leaves the program and the frames alone.                    *)
LEMMA ChainedKeptByFrames ==
    ASSUME Chained, UNCHANGED <<prog, frames>>
    PROVE  Chained'
<1>1. \A pc : Body(pc)' = Body(pc)
  BY BodyKept
<1>2. \A l : Callee(l)' = Callee(l)
  BY ProgramKept
<1>3. \A i : FrameChained(i)' <=> FrameChained(i)
  BY <1>1, <1>2 DEF FrameChained
<1>4. QED
  BY <1>3 DEF Chained

(* A step that shrinks or pops frames, and leaves their callers alone.     *)
LEMMA ChainedShrinks ==
    ASSUME Chained, prog' = prog, NEW n \in Nat, NEW k \in Nat, n = Len(frames), k = Len(frames'), k <= n,
           \A i \in 1..k : /\ frames'[i].caller = frames[i].caller
                           /\ frames'[i].macro_labels \cup frames'[i].seen_labels \cup frames'[i].todo
                                \subseteq frames[i].macro_labels \cup frames[i].seen_labels \cup frames[i].todo
    PROVE  Chained'
<1>1. \A pc : Body(pc)' = Body(pc)
  BY BodyKept
<1>2. \A l : Callee(l)' = Callee(l)
  BY ProgramKept
<1>3. ASSUME NEW i \in 1..k PROVE FrameChained(i)'
  <2>1. FrameChained(i)
    BY <1>3 DEF Chained
  <2>2. i > 1 => i - 1 \in 1..k
    BY <1>3
  <2>3. i > 1 => frames'[i].caller.from \in Body(Callee(frames'[i - 1].caller))
    BY <1>3, <2>1, <2>2 DEF FrameChained
  <2>4. \A m \in frames'[i].macro_labels \cup frames'[i].seen_labels \cup frames'[i].todo :
          m.from \in Body(Callee(frames'[i].caller))
    BY <1>3, <2>1 DEF FrameChained
  <2>5. QED
    BY <1>1, <1>2, <2>3, <2>4 DEF FrameChained
<1>4. QED
  BY <1>3 DEF Chained

(* The body of the callee of the innermost activation.                     *)
LEMMA TopBody ==
    ASSUME Inv, SecondPassInv, FunctionsForward(prog), frames # <<>>
    PROVE  /\ Top.caller.from \in PCs /\ InstAt(Top.caller.from).op = "call"
           /\ Callee(Top.caller) = InstAt(Top.caller.from).target
           /\ Callee(Top.caller) \in PCs
           /\ Callee(Top.caller) \in Body(Callee(Top.caller))
<1>1. /\ Top.caller.from \in PCs /\ InstAt(Top.caller.from).op = "call"
      /\ Callee(Top.caller) = InstAt(Top.caller.from).target
  BY TopCaller DEF IsCall, Callee
<1>2. QED
  BY <1>1, InvFacts, BodyFacts

LEMMA EnterMacroChained ==
    ASSUME Inv, Chained, FunctionsForward(prog), prog' = prog,
           NEW caller \in Label, IsCall(caller), NEW below, EnterMacro(caller, Callee(caller), below),
           NEW n \in Nat, n = Len(frames), Len(below) = n, below \in Seq(Frame),
           \A i \in 1..n : /\ below[i].caller = frames[i].caller
                           /\ below[i].macro_labels \cup below[i].seen_labels \cup below[i].todo
                                \subseteq frames[i].macro_labels \cup frames[i].seen_labels \cup frames[i].todo,
           n > 0 => caller.from \in Body(Callee(frames[n].caller))
    PROVE  Chained'
<1> DEFINE T == Callee(caller)
<1>1. PICK f : /\ frames' = Append(below, f) /\ f.caller = caller /\ f.todo = {}
               /\ f.macro_labels = {Plain(T)} /\ f.seen_labels = {Plain(T)}
  BY DEF EnterMacro
<1>2. Plain(T).from = T /\ T \in Body(T)
  <2>1. T \in Body(T)
    BY InvFacts, BodyFacts DEF IsCall, Callee
  <2>2. QED
    BY <2>1, LabelParts DEF Plain
<1> HIDE DEF T
<1>3. /\ Len(frames') = n + 1 /\ frames'[n + 1] = f
      /\ \A i \in 1..n : frames'[i] = below[i]
  BY <1>1
<1>4. \A pc : Body(pc)' = Body(pc)
  BY BodyKept
<1>5. \A l : Callee(l)' = Callee(l)
  BY ProgramKept
<1>6. ASSUME NEW i \in 1..n PROVE FrameChained(i)'
  <2>1. FrameChained(i)
    BY <1>6 DEF Chained
  <2>2. i > 1 => i - 1 \in 1..n
    BY <1>6
  <2>3. i > 1 => frames'[i].caller.from \in Body(Callee(frames'[i - 1].caller))
    BY <1>3, <1>6, <2>1, <2>2 DEF FrameChained
  <2>4. \A m \in frames'[i].macro_labels \cup frames'[i].seen_labels \cup frames'[i].todo :
          m.from \in Body(Callee(frames'[i].caller))
    BY <1>3, <1>6, <2>1 DEF FrameChained
  <2>5. QED
    BY <1>4, <1>5, <2>3, <2>4 DEF FrameChained
<1>7. FrameChained(n + 1)'
  <2>1. n > 0 => n \in 1..n
    OBVIOUS
  <2>2. n + 1 > 1 => frames'[n + 1].caller.from \in Body(Callee(frames'[n].caller))
    BY <1>1, <1>3, <2>1
  <2>3. \A m \in frames'[n + 1].macro_labels \cup frames'[n + 1].seen_labels \cup frames'[n + 1].todo :
          m.from \in Body(Callee(frames'[n + 1].caller))
    BY <1>1, <1>2, <1>3 DEF T
  <2>4. (n + 1) - 1 = n
    OBVIOUS
  <2>5. QED
    BY <1>4, <1>5, <2>2, <2>3, <2>4 DEF FrameChained
<1>8. \A i \in 1..(n + 1) : i \in 1..n \/ i = n + 1
  OBVIOUS
<1>9. QED
  BY <1>3, <1>6, <1>7, <1>8 DEF Chained


LEMMA ReplaceMacroChained ==
    ASSUME Inv, MatchInv, Chained, ReplaceMacro
    PROVE  Chained'
<1>1. /\ frames = <<>> /\ next \in PCs /\ InstAt(next).op = "call" /\ prog' = prog
      /\ EnterMacro(Plain(next), InstAt(next).target, <<>>)
      /\ FunctionsForward(prog)
  BY DEF ReplaceMacro, ReplacingMacros, MatchInv
<1>2. /\ Plain(next).from = next /\ Plain(next).to = -1 /\ Plain(next) \in Label
      /\ Callee(Plain(next)) = InstAt(next).target /\ IsCall(Plain(next))
  <2>1. next \in Nat /\ next # -1
    BY InvFacts
  <2>2. Plain(next) \in Label /\ Plain(next).from = next /\ Plain(next).to = -1
    BY <2>1, LabelFacts, LabelParts DEF Plain
  <2>3. QED
    BY <1>1, <2>2 DEF Callee, IsCall
<1>3. PICK below \in Seq(Frame) : below = <<>>
  BY EmptySeq
<1>4. PICK n \in Nat : n = 0
  OBVIOUS
<1>5. n = Len(frames) /\ n = Len(below) /\ 1..n = {}
  BY <1>1, <1>3, <1>4
<1>6. PICK caller \in Label : caller = Plain(next)
  BY <1>2
<1>7. EnterMacro(caller, Callee(caller), below) /\ IsCall(caller)
  BY <1>1, <1>2, <1>3, <1>6
<1>8. \A i \in 1..n : /\ below[i].caller = frames[i].caller
                      /\ below[i].macro_labels \cup below[i].seen_labels \cup below[i].todo
                           \subseteq frames[i].macro_labels \cup frames[i].seen_labels \cup frames[i].todo
  BY <1>5
<1>9. Len(below) = n /\ ~ (n > 0)
  BY <1>4, <1>5
<1>10. QED
  BY <1>1, <1>5, <1>7, <1>8, <1>9, EnterMacroChained

LEMMA ReplaceNestedMacroChained ==
    ASSUME Inv, MatchInv, Chained, frames # <<>>, NEW l \in Top.todo, ReplaceNestedMacro(l)
    PROVE  Chained'
<1> DEFINE f == [Top EXCEPT !.todo = @ \ {l}]
<1>1. PICK caller, below :
         /\ caller = Reprefix(l, TopPrefix) /\ below = SetTop(f)
         /\ EnterMacro(caller, instructions[caller].target, below)
         /\ prog' = prog /\ FunctionsForward(prog) /\ pass = "macros"
  BY DEF ReplaceNestedMacro, Recursing, MatchInv
<1>2. PICK n : n = Len(frames)
  OBVIOUS
<1>3. /\ n \in Nat \ {0} /\ n \in 1..n /\ Top = frames[n] /\ Top \in Frame
      /\ SecondPassInv /\ LabelsRight /\ l \in Label
  BY <1>1, <1>2, TopFacts DEF MatchInv, SecondPassInv, Frame
<1>4. caller \in DOMAIN neighbours /\ instructions[caller].op = "call" /\ caller \in Label /\ caller.from = l.from
  <2>1. caller \in DOMAIN neighbours /\ instructions[caller].op = "call"
    BY <1>1, TopFacts DEF FrameOK, TopPrefix
  <2>2. QED
    BY <1>1, <2>1, InvFacts, LabelParts
<1>5. caller \in Inner /\ IsCall(caller)
  <2>1. caller \in Inner
    BY <1>1, <1>3, <1>4, TopFacts, ReprefixFacts DEF Inner
  <2>2. QED
    BY <1>3, <1>4, <2>1, CallByInstruction
<1>6. instructions[caller].target = Callee(caller)
  BY <1>3, <1>5 DEF LabelsRight, LabelRight, Carries, IsJump, IsCall, Callee
<1>7. f \in Frame /\ f.caller = Top.caller /\ f.macro_labels = Top.macro_labels
      /\ f.seen_labels = Top.seen_labels /\ f.todo = Top.todo \ {l}
  BY <1>3 DEF Frame
<1> HIDE DEF f
<1>8. /\ below \in Seq(Frame) /\ Len(below) = n /\ below[n] = f
      /\ \A i \in 1..n : i # n => below[i] = frames[i]
  BY <1>1, <1>2, <1>7, SetTopFacts
<1>9. \A i \in 1..n : /\ below[i].caller = frames[i].caller
                      /\ below[i].macro_labels \cup below[i].seen_labels \cup below[i].todo
                           \subseteq frames[i].macro_labels \cup frames[i].seen_labels \cup frames[i].todo
  <2> TAKE i \in 1..n
  <2>1. CASE i = n
    BY <1>3, <1>7, <1>8, <2>1
  <2>2. CASE i # n
    BY <1>8, <2>2
  <2>3. QED
    BY <2>1, <2>2
<1>10. caller.from \in Body(Callee(frames[n].caller))
  BY <1>2, <1>3, <1>4 DEF Chained, FrameChained
<1>11. QED
  BY <1>1, <1>2, <1>3, <1>4, <1>5, <1>6, <1>8, <1>9, <1>10, EnterMacroChained

LEMMA CloneMacroLabelChained ==
    ASSUME Inv, MatchInv, Chained, frames # <<>>, NEW l \in Top.macro_labels, CloneMacroLabel(l)
    PROVE  Chained'
<1>1. PICK n : n = Len(frames)
  OBVIOUS
<1>2. /\ n \in Nat \ {0} /\ n \in 1..n /\ Top = frames[n] /\ pass = "macros"
      /\ SecondPassInv /\ FunctionsForward(prog) /\ FrameChained(n)
  BY <1>1, TopFacts DEF MatchInv, CloneMacroLabel, Walking, Chained
<1>3. /\ Walking(l) /\ l \in DOMAIN neighbours
      /\ Unseen(l) = StepOver(l) \ (Top.seen_labels \cup {ExitLabel})
  BY <1>2, CloneGraph
<1>4. PICK T : /\ T = Callee(Top.caller) /\ Top.caller.from \in PCs /\ InstAt(Top.caller.from).op = "call"
               /\ T = InstAt(Top.caller.from).target
  BY <1>2, TopBody
<1>5. /\ l \in Inner /\ Proper(l) /\ l.stack_frame_prefix = <<>>
      /\ \A z \in StepOver(l) : z = ExitLabel \/ (z \in Inner /\ z \in Label)
  BY <1>2, <1>3, WalkLabel
<1>6. \A m \in Top.macro_labels \cup Top.seen_labels \cup Top.todo : m.from \in Body(T)
  BY <1>2, <1>4 DEF FrameChained
<1>7. \A m \in Unseen(l) : m.from \in Body(T)
  BY <1>2, <1>3, <1>4, <1>5, <1>6, StepsInBody
<1>8. /\ prog' = prog
      /\ Len(frames') = n /\ frames' # <<>>
      /\ \A i \in 1..n : /\ i # n => frames'[i] = frames[i]
                         /\ frames'[i].caller = frames[i].caller
                         /\ frames'[i].todo = frames[i].todo
      /\ Top'.macro_labels = (Top.macro_labels \ {l}) \cup Unseen(l)
      /\ Top'.seen_labels = IF Unseen(l) = {} THEN Top.seen_labels ELSE Top.seen_labels \cup {l}
  <2>1. Unseen(l) \subseteq Label
    BY <1>3, <1>5
  <2>2. QED
    BY <1>1, <2>1, CloneFrame
<1>9. /\ frames'[n].macro_labels = (Top.macro_labels \ {l}) \cup Unseen(l)
      /\ frames'[n].seen_labels \subseteq Top.seen_labels \cup {l}
      /\ frames'[n].todo = Top.todo
  BY <1>2, <1>8 DEF Top
<1>10. \A pc : Body(pc)' = Body(pc)
  BY <1>8, BodyKept
<1>11. \A m : Callee(m)' = Callee(m)
  BY <1>8, ProgramKept
<1>12. ASSUME NEW i \in 1..n PROVE FrameChained(i)'
  <2>1. FrameChained(i)
    BY <1>1, <1>12 DEF Chained
  <2>2. i > 1 => i - 1 \in 1..n
    BY <1>2, <1>12
  <2>3. i > 1 => frames'[i].caller.from \in Body(Callee(frames'[i - 1].caller))
    BY <1>8, <1>12, <2>1, <2>2 DEF FrameChained
  <2>4. \A m \in frames'[i].macro_labels \cup frames'[i].seen_labels \cup frames'[i].todo :
          m.from \in Body(Callee(frames'[i].caller))
    <3>1. CASE i = n
      <4>1. Callee(frames'[i].caller) = T
        BY <1>2, <1>4, <1>8, <3>1
      <4>2. \A m \in frames'[n].macro_labels \cup frames'[n].seen_labels \cup frames'[n].todo : m.from \in Body(T)
        BY <1>6, <1>7, <1>9
      <4>3. QED
        BY <3>1, <4>1, <4>2
    <3>2. CASE i # n
      BY <1>8, <1>12, <2>1, <3>2 DEF FrameChained
    <3>3. QED
      BY <3>1, <3>2
  <2>5. QED
    BY <1>10, <1>11, <2>3, <2>4 DEF FrameChained
<1>13. QED
  BY <1>8, <1>12 DEF Chained

LEMMA EndWalkChained ==
    ASSUME Inv, Chained, EndWalk
    PROVE  Chained'
<1>1. PICK f : /\ frames' = SetTop(f) /\ prog' = prog /\ frames # <<>>
               /\ f = [Top EXCEPT !.walking = FALSE,
                                  !.todo = {l \in Top.seen_labels :
                                              instructions[Reprefix(l, TopPrefix)].op = "call"}]
  BY DEF EndWalk
<1>2. PICK n : n = Len(frames)
  OBVIOUS
<1>3. n \in Nat \ {0} /\ n \in 1..n /\ Top = frames[n] /\ Top \in Frame
  BY <1>1, <1>2, TopFacts
<1>4. /\ f \in Frame /\ f.caller = Top.caller /\ f.macro_labels = Top.macro_labels
      /\ f.seen_labels = Top.seen_labels /\ f.todo \subseteq Top.seen_labels
  BY <1>1, <1>3 DEF Frame
<1>5. /\ Len(frames') = n /\ frames'[n] = f
      /\ \A i \in 1..n : i # n => frames'[i] = frames[i]
  BY <1>1, <1>2, <1>4, SetTopFacts
<1>6. \A i \in 1..n : /\ frames'[i].caller = frames[i].caller
                      /\ frames'[i].macro_labels \cup frames'[i].seen_labels \cup frames'[i].todo
                           \subseteq frames[i].macro_labels \cup frames[i].seen_labels \cup frames[i].todo
  <2> TAKE i \in 1..n
  <2>1. CASE i = n
    BY <1>3, <1>4, <1>5, <2>1
  <2>2. CASE i # n
    BY <1>5, <2>2
  <2>3. QED
    BY <2>1, <2>2
<1>7. QED
  <2>1. n = Len(frames') /\ n <= n /\ n \in Nat
    BY <1>3, <1>5
  <2>2. QED
    BY <1>1, <1>2, <1>6, <2>1, ChainedShrinks

LEMMA ReturnFromMacroChained ==
    ASSUME Inv, Chained, ReturnFromMacro
    PROVE  Chained'
<1>1. frames' = SubSeq(frames, 1, Len(frames) - 1) /\ prog' = prog /\ frames # <<>>
  BY DEF ReturnFromMacro
<1>2. PICK n : n = Len(frames)
  OBVIOUS
<1>3. n \in Nat \ {0} /\ frames \in Seq(Frame)
  BY <1>1, <1>2, TopFacts
<1>4. PICK k \in Nat : k = n - 1
  BY <1>3
<1>5. k = Len(frames') /\ k <= n /\ \A i \in 1..k : frames'[i] = frames[i]
  BY <1>1, <1>2, <1>3, <1>4
<1>6. QED
  BY <1>1, <1>2, <1>3, <1>5, ChainedShrinks


-----------------------------------------------------------------------------
(* The refusals of the second pass.                                        *)

(* The walk meets neither the frame it fills nor a clone it has made.      *)
LEMMA CloneFailsRightly ==
    ASSUME Inv, MatchInv, NEW l \in Top.macro_labels, CloneFails(l)
    PROVE  Justified(error')
<1>1. /\ Walking(l) /\ Active /\ frames # <<>> /\ pass = "macros"
      /\ SecondPassInv /\ FunctionsForward(prog)
  BY DEF CloneFails, Walking, Active, MatchInv
<1>2. /\ l \in Label /\ l.stack_frame_prefix = <<>> /\ TopPrefix # <<>> /\ ~ IllegalRecursion(l)
  <2>1. l \in Label /\ TopPrefix # <<>>
    BY <1>1, TopFacts DEF Frame
  <2>2. l.stack_frame_prefix = <<>>
    BY <1>1 DEF SecondPassInv, WalkOK
  <2>3. QED
    BY <2>1, <2>2 DEF IllegalRecursion
<1>3. Reprefix(l, TopPrefix) \notin DOMAIN neighbours
  <2> SUFFICES ASSUME Reprefix(l, TopPrefix) \in DOMAIN neighbours PROVE FALSE
    OBVIOUS
  <2>1. PICK x \in DOMAIN neighbours : x = Reprefix(l, TopPrefix)
    OBVIOUS
  <2>2. x.stack_frame_prefix = TopPrefix /\ x.from = l.from /\ x.to = l.to
    BY <2>1, LabelParts
  <2>3. Before(x, l)
    BY <1>1, <2>2 DEF SecondPassInv, WalkOK
  <2>4. l.from \in Int /\ l.to \in Int
    BY <1>2 DEF Label
  <2>5. QED
    BY <2>2, <2>3, <2>4 DEF Before
<1>4. error' = "not_found" /\ l \notin DOMAIN neighbours
  BY <1>2, <1>3, InvFacts DEF CloneFails, Fail
<1>5. l = Plain(Callee(Top.caller))
  BY <1>1, <1>4 DEF SecondPassInv, WalkOK, Inner
<1>6. PICK c \in PCs : InstAt(c).op = "call" /\ Callee(Top.caller) = InstAt(c).target
  BY <1>1, TopBody
<1>7. InstAt(c).target \notin DefinedPCs
  BY <1>1, <1>4, <1>5, <1>6 DEF Inv, PlainInv
<1>8. QED
  BY <1>4, <1>6, <1>7 DEF Justified, Calls, EdgeErrors

(* The calls of a chain: each is in the body of the callee of the one      *)
(* before.                                                                 *)
LEMMA ChainIsChained ==
    ASSUME prog \in Seq(Inst), NEW k \in Nat, k >= 1, NEW c,
           \A d \in 1..k : c[d] \in PCs /\ Calls(c[d]),
           \A d \in 1..k : d > 1 => /\ InstAt(c[d - 1]).target \in PCs
                                    /\ c[d] \in Body(InstAt(c[d - 1]).target)
    PROVE  c[k] \in ChainedCalls(c[1], k)
<1> DEFINE Step(S) == UNION {{q \in Body(InstAt(x).target) : Calls(q)} :
                               x \in {x \in S : InstAt(x).target \in PCs}}
           IsChain(R) == R = [d \in 1..k |-> IF d = 1 THEN {c[1]} ELSE Step(R[d - 1])]
           chain == CHOOSE R : IsChain(R)
<1>1. ChainedCalls(c[1], k) = chain[k]
  BY DEF ChainedCalls
<1>2. \A pc : Body(pc) \subseteq PCs
  BY DEF Body
<1>3. IsChain(chain)
  <2> DEFINE step == [S \in SUBSET PCs |-> Step(S)]
  <2>1. step \in [SUBSET PCs -> SUBSET PCs]
    <3>1. \A S \in SUBSET PCs : Step(S) \in SUBSET PCs
      BY <1>2
    <3> HIDE DEF Step
    <3>2. QED
      BY <3>1
  <2>2. {c[1]} \in SUBSET PCs
    <3>1. 1 \in 1..k
      OBVIOUS
    <3>2. QED
      BY <3>1
  <2>3. \A S \in SUBSET PCs : step[S] = Step(S)
    OBVIOUS
  <2>4. k - 1 \in Nat
    OBVIOUS
  <2> HIDE DEF step, Step
  <2>5. PICK it \in [0..(k - 1) -> SUBSET PCs] : IsSequence(it, k - 1, {c[1]}, step)
    BY <2>1, <2>2, <2>4, SequenceExists
  <2>6. it = [j \in 0..(k - 1) |-> IF j = 0 THEN {c[1]} ELSE step[it[j - 1]]]
    BY <2>5 DEF IsSequence
  <2> DEFINE R == [d \in 1..k |-> it[d - 1]]
  <2>7. \A d \in 1..k : R[d] = IF d = 1 THEN {c[1]} ELSE Step(R[d - 1])
    <3> TAKE d \in 1..k
    <3>1. d - 1 \in 0..(k - 1) /\ (d - 1 = 0 <=> d = 1)
      OBVIOUS
    <3>2. R[d] = IF d - 1 = 0 THEN {c[1]} ELSE step[it[(d - 1) - 1]]
      BY <2>6, <3>1
    <3>3. CASE d = 1
      BY <3>1, <3>2, <3>3
    <3>4. CASE d # 1
      <4>1. d - 1 \in 1..k /\ (d - 1) - 1 \in 0..(k - 1)
        BY <3>4
      <4>2. R[d - 1] = it[(d - 1) - 1] /\ it[(d - 1) - 1] \in SUBSET PCs
        BY <4>1
      <4>3. QED
        BY <2>3, <3>1, <3>2, <3>4, <4>2
    <3>5. QED
      BY <3>3, <3>4
  <2>8. R = [d \in 1..k |-> IF d = 1 THEN {c[1]} ELSE Step(R[d - 1])]
    BY <2>7
  <2>9. IsChain(R)
    BY <2>8
  <2> HIDE DEF IsChain, R
  <2>10. QED
    BY <2>9
<1> HIDE DEF chain
<1>4. \A d \in 1..k : chain[d] = IF d = 1 THEN {c[1]} ELSE Step(chain[d - 1])
  <2>1. PICK R : R = chain
    OBVIOUS
  <2>2. R = [d \in 1..k |-> IF d = 1 THEN {c[1]} ELSE Step(R[d - 1])]
    BY <1>3, <2>1
  <2> HIDE DEF Step
  <2>3. \A d \in 1..k : R[d] = IF d = 1 THEN {c[1]} ELSE Step(R[d - 1])
    BY <2>2
  <2>4. QED
    BY <2>1, <2>3
<1> HIDE DEF IsChain
<1> DEFINE A == {n \in Nat : n + 1 <= k => c[n + 1] \in chain[n + 1]}
<1>5. 0 \in A
  <2>1. 1 \in 1..k /\ 0 + 1 = 1
    OBVIOUS
  <2>2. chain[1] = {c[1]}
    BY <1>4, <2>1
  <2>3. QED
    BY <2>1, <2>2
<1>6. ASSUME NEW n \in Nat, n \in A PROVE n + 1 \in A
  <2> SUFFICES ASSUME (n + 1) + 1 <= k PROVE c[(n + 1) + 1] \in chain[(n + 1) + 1]
    OBVIOUS
  <2>1. PICK d \in 1..k : d = (n + 1) + 1
    OBVIOUS
  <2>2. d - 1 = n + 1 /\ d # 1 /\ d > 1 /\ n + 1 <= k /\ d - 1 \in 1..k
    BY <2>1
  <2>3. c[d - 1] \in chain[d - 1]
    BY <1>6, <2>2
  <2>4. /\ InstAt(c[d - 1]).target \in PCs /\ c[d] \in Body(InstAt(c[d - 1]).target)
        /\ Calls(c[d])
    BY <2>2
  <2>5. c[d] \in Step(chain[d - 1])
    BY <2>3, <2>4
  <2>6. chain[d] = Step(chain[d - 1])
    <3> HIDE DEF Step
    <3>1. QED
      BY <1>4, <2>2
  <2>7. QED
    BY <2>1, <2>5, <2>6
<1> HIDE DEF A
<1>7. \A n \in Nat : n \in A
  BY <1>5, <1>6, NumberInduction
<1>8. c[k] \in chain[k]
  <2>1. PICK n \in Nat : k = n + 1
    <3>1. k - 1 \in Nat /\ k = (k - 1) + 1
      OBVIOUS
    <3>2. QED
      BY <3>1
  <2>2. n \in A
    BY <1>7
  <2>3. QED
    BY <2>1, <2>2 DEF A
<1>9. QED
  BY <1>1, <1>8


(* The frames in progress and the call to expand are a chain of calls.     *)
LEMMA TooManyFramesRightly ==
    ASSUME Inv, MatchInv, Chained, NEW l \in Top.todo, TooManyFrames(l)
    PROVE  Justified(error')
<1>1. /\ frames # <<>> /\ SecondPassInv /\ LabelsRight /\ FunctionsForward(prog)
      /\ error' = "too_many_frames" /\ StackFrameDepth >= MaxCallStackFrames
  BY DEF TooManyFrames, Recursing, Fail, MatchInv, SecondPassInv
<1>2. PICK n : n = Len(frames)
  OBVIOUS
<1>3. /\ n \in Nat \ {0} /\ n \in 1..n /\ Top = frames[n] /\ Top \in Frame /\ l \in Label
      /\ Len(TopPrefix) = n
  BY <1>1, <1>2, TopFacts DEF Frame
<1>4. MaxCallStackFrames = n + 1
  <2>1. n < MaxCallStackFrames
    BY <1>2 DEF Inv, FramesBounded
  <2>2. (n - 1) + 2 >= MaxCallStackFrames
    BY <1>1, <1>3 DEF StackFrameDepth
  <2>3. QED
    BY <1>3, <2>1, <2>2, MaxCallStackFramesAssumption
<1>5. l.from \in PCs /\ Calls(l.from) /\ l.from \in Body(Callee(frames[n].caller))
  <2> DEFINE x == Reprefix(l, TopPrefix)
  <2>1. x \in DOMAIN neighbours /\ instructions[x].op = "call" /\ x.from = l.from
    BY <1>1, TopFacts, LabelParts DEF FrameOK, TopPrefix
  <2>2. x \in Inner
    BY <1>1, <1>3, <2>1, TopFacts, ReprefixFacts DEF Inner
  <2> HIDE DEF x
  <2>3. IsCall(x)
    BY <1>1, <2>1, <2>2, CallByInstruction
  <2>4. l.from \in Body(Callee(frames[n].caller))
    BY <1>2, <1>3 DEF Chained, FrameChained
  <2>5. QED
    BY <2>1, <2>3, <2>4 DEF IsCall, Calls
<1>6. \A i \in 1..n : /\ frames[i].caller.from \in PCs /\ Calls(frames[i].caller.from)
                      /\ InstAt(frames[i].caller.from).target = Callee(frames[i].caller)
                      /\ Callee(frames[i].caller) \in PCs
  <2> TAKE i \in 1..n
  <2>1. IsCall(frames[i].caller)
    BY <1>1, <1>2 DEF SecondPassInv, FramesNested, FrameNested
  <2>2. /\ frames[i].caller.from \in PCs /\ InstAt(frames[i].caller.from).op = "call"
        /\ InstAt(frames[i].caller.from).target = Callee(frames[i].caller)
    BY <2>1 DEF IsCall, Callee
  <2>3. QED
    BY <1>1, <2>2, InvFacts, FunctionForward DEF Calls
<1>7. \A i \in 1..n : i > 1 => frames[i].caller.from \in Body(Callee(frames[i - 1].caller))
  BY <1>2 DEF Chained, FrameChained
<1>8. PICK k \in Nat : k = n + 1 /\ k >= 1
  BY <1>3
<1>9. PICK c : c = [d \in 1..k |-> IF d <= n THEN frames[d].caller.from ELSE l.from]
  OBVIOUS
<1>10. /\ \A d \in 1..k : d \in 1..n => c[d] = frames[d].caller.from
       /\ c[k] = l.from
       /\ \A d \in 1..k : d \in 1..n \/ d = k
  BY <1>3, <1>8, <1>9
<1>11. \A d \in 1..k : c[d] \in PCs /\ Calls(c[d])
  <2> TAKE d \in 1..k
  <2>1. CASE d \in 1..n
    BY <1>6, <1>10, <2>1
  <2>2. CASE d = k
    BY <1>5, <1>10, <2>2
  <2>3. QED
    BY <1>10, <2>1, <2>2
<1>12. \A d \in 1..k : d > 1 => /\ InstAt(c[d - 1]).target \in PCs
                                /\ c[d] \in Body(InstAt(c[d - 1]).target)
  <2> SUFFICES ASSUME NEW d \in 1..k, d > 1
               PROVE  InstAt(c[d - 1]).target \in PCs /\ c[d] \in Body(InstAt(c[d - 1]).target)
    OBVIOUS
  <2>1. d - 1 \in 1..n /\ d - 1 \in 1..k
    BY <1>3, <1>8
  <2>2. c[d - 1] = frames[d - 1].caller.from
    BY <1>10, <2>1
  <2>3. /\ InstAt(c[d - 1]).target = Callee(frames[d - 1].caller)
        /\ InstAt(c[d - 1]).target \in PCs
    BY <1>6, <2>1, <2>2
  <2>4. c[d] \in Body(Callee(frames[d - 1].caller))
    <3>1. CASE d \in 1..n
      BY <1>7, <1>10, <3>1
    <3>2. CASE d = k
      <4>1. d - 1 = n
        BY <1>3, <1>8, <3>2
      <4>2. QED
        BY <1>5, <1>10, <3>2, <4>1
    <3>3. QED
      BY <1>10, <3>1, <3>2
  <2>5. QED
    BY <2>3, <2>4
<1>13. c[k] \in ChainedCalls(c[1], k)
  BY <1>8, <1>11, <1>12, InvFacts, ChainIsChained
<1>14. c[1] \in PCs /\ Calls(c[1])
  <2>1. 1 \in 1..k
    BY <1>8
  <2>2. QED
    BY <1>11, <2>1
<1>15. HasDeepCalls
  BY <1>4, <1>8, <1>13, <1>14 DEF HasDeepCalls
<1>16. QED
  BY <1>1, <1>15 DEF Justified, EdgeErrors

-----------------------------------------------------------------------------
(* The invariant of the refusals.                                          *)
RefusalInv ==
    /\ Chained
    /\ pass # "failed" => error = "none"
    /\ Justified(error)

LEMMA FailRefusal ==
    ASSUME RefusalInv, NEW what, Fail(what), Justified(error')
    PROVE  RefusalInv'
<1>1. UNCHANGED <<prog, frames>> /\ pass' = "failed"
  BY DEF Fail
<1>2. Chained'
  BY <1>1, ChainedKeptByFrames DEF RefusalInv
<1>3. PICK e : e = error'
  OBVIOUS
<1>4. Justified(e)'
  BY <1>1, <1>3, JustifiedKept
<1>5. Justified(error)'
  BY <1>3, <1>4 DEF Justified
<1>6. QED
  BY <1>1, <1>2, <1>5 DEF RefusalInv

LEMMA ErrorRefusal ==
    ASSUME RefusalInv, UNCHANGED <<prog, error>>, pass # "failed" \/ pass' = pass, Chained'
    PROVE  RefusalInv'
<1>1. PICK e : e = error
  OBVIOUS
<1>2. Justified(e)'
  BY <1>1, JustifiedKept DEF RefusalInv
<1>3. Justified(error)'
  BY <1>1, <1>2 DEF Justified
<1>4. QED
  BY <1>3 DEF RefusalInv

LEMMA InitRefusal == Init => RefusalInv
<1> SUFFICES ASSUME Init PROVE RefusalInv
  OBVIOUS
<1>1. error = "none" /\ pass = "insert" /\ frames = <<>>
  BY DEF Init
<1>2. 1..Len(frames) = {}
  BY <1>1
<1>3. QED
  BY <1>1, <1>2 DEF RefusalInv, Chained, Justified, EdgeErrors, CallErrors

LEMMA NextRefusal ==
    ASSUME Inv, MatchInv, RefusalInv, [Next]_vars
    PROVE  RefusalInv'
<1>0. Chained
  BY DEF RefusalInv
<1>1. CASE FirstPass
  <2>1. CASE InsertFails
    BY <2>1, InsertFailsRightly, FailRefusal DEF InsertFails
  <2>2. ASSUME NEW pc \in PCs, ConnectFails(pc) PROVE RefusalInv'
    BY <2>2, ConnectFailsRightly, FailRefusal DEF ConnectFails
  <2>3. CASE \/ InsertInstructions \/ StartSecondPass
             \/ \E pc \in PCs : ConnectPlain(pc) \/ ConnectBranch(pc) \/ SkipUndefined(pc)
    <3>1. UNCHANGED <<prog, frames, error>> /\ pass # "failed"
      BY <2>3 DEF InsertInstructions, StartSecondPass, ConnectPlain, ConnectBranch, SkipUndefined, Connecting
    <3>2. Chained'
      BY <1>0, <3>1, ChainedKeptByFrames
    <3>3. QED
      BY <3>1, <3>2, ErrorRefusal
  <2>4. QED
    BY <1>1, <2>1, <2>2, <2>3 DEF FirstPass
<1>2. CASE SecondPass
  <2>1. CASE SkipInstruction \/ Finish
    <3>1. UNCHANGED <<prog, frames, error>> /\ pass # "failed"
      BY <2>1 DEF SkipInstruction, Finish, ReplacingMacros
    <3>2. Chained'
      BY <1>0, <3>1, ChainedKeptByFrames
    <3>3. QED
      BY <3>1, <3>2, ErrorRefusal
  <2>2. CASE ReplaceMacro
    <3>1. UNCHANGED <<prog, error>> /\ pass' = pass
      BY <2>2 DEF ReplaceMacro
    <3>2. QED
      BY <1>0, <2>2, <3>1, ReplaceMacroChained, ErrorRefusal
  <2>3. ASSUME frames # <<>>, NEW l \in Top.macro_labels, CloneFails(l) PROVE RefusalInv'
    BY <2>3, CloneFailsRightly, FailRefusal DEF CloneFails
  <2>4. ASSUME frames # <<>>, NEW l \in Top.macro_labels, CloneMacroLabel(l) PROVE RefusalInv'
    <3>1. UNCHANGED <<prog, error>> /\ pass' = pass
      BY <2>4 DEF CloneMacroLabel
    <3>2. QED
      BY <1>0, <2>4, <3>1, CloneMacroLabelChained, ErrorRefusal
  <2>5. CASE EndWalk
    <3>1. UNCHANGED <<prog, error>> /\ pass' = pass
      BY <2>5 DEF EndWalk
    <3>2. QED
      BY <1>0, <2>5, <3>1, EndWalkChained, ErrorRefusal
  <2>6. ASSUME frames # <<>>, NEW l \in Top.todo, TooManyFrames(l) PROVE RefusalInv'
    BY <1>0, <2>6, TooManyFramesRightly, FailRefusal DEF TooManyFrames
  <2>7. ASSUME frames # <<>>, NEW l \in Top.todo, ReplaceNestedMacro(l) PROVE RefusalInv'
    <3>1. UNCHANGED <<prog, error>> /\ pass' = pass
      BY <2>7 DEF ReplaceNestedMacro
    <3>2. QED
      BY <1>0, <2>7, <3>1, ReplaceNestedMacroChained, ErrorRefusal
  <2>8. CASE ReturnFromMacro
    <3>1. UNCHANGED <<prog, error>> /\ pass' = pass
      BY <2>8 DEF ReturnFromMacro
    <3>2. QED
      BY <1>0, <2>8, <3>1, ReturnFromMacroChained, ErrorRefusal
  <2>9. QED
    BY <1>2, <2>1, <2>2, <2>3, <2>4, <2>5, <2>6, <2>7, <2>8 DEF SecondPass, WalkMacro
<1>3. CASE UNCHANGED vars
  <2>1. UNCHANGED <<prog, frames, error, pass>>
    BY <1>3 DEF vars
  <2>2. QED
    BY <1>0, <2>1, ChainedKeptByFrames, ErrorRefusal
<1>4. QED
  BY <1>1, <1>2, <1>3 DEF Next, Terminating

(* For all such programs, the builder throws only if an instruction leads  *)
(* to none, a call to none, or calls can be nested too deep.               *)
THEOREM RefusalsRight ==
    ASSUME \A p \in Programs : FunctionsForward(p)
    PROVE  Spec => []RefusalsJustified
<1>1. Init => RefusalInv
  BY InitRefusal
<1>2. Inv /\ MatchInv /\ RefusalInv /\ [Next]_vars => RefusalInv'
  BY NextRefusal
<1>3. RefusalInv => RefusalsJustified
  BY DEF RefusalInv, RefusalsJustified, Justified
<1>4. QED
  BY Invariance, MatchInvariance, <1>1, <1>2, <1>3, PTL DEF Spec
=============================================================================
