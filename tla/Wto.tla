-------------------------------- MODULE Wto ---------------------------------
(***************************************************************************)
(* The construction of a weak topological ordering of a control-flow graph *)
(* by wto_builder_t (wto.cpp): Bourdoncle's recursive algorithm run on an  *)
(* explicit stack of tasks.  One action is one task of the main loop.      *)
(*                                                                         *)
(* Labels are integers, compared as label_t is.  A cycle is known by its   *)
(* head, the vertex whose visit created it; Root stands for the null cycle *)
(* and for the top-level partition.                                        *)
(***************************************************************************)
EXTENDS Integers, Sequences, FiniteSets

CONSTANTS Labels,   \* the labels of the graph
          Entry,    \* cfg.entry_label()
          Graphs    \* the graphs to be ordered: children_of, per label

ASSUME LabelsAssumption == IsFiniteSet(Labels) /\ Labels \subseteq Nat /\ Entry \in Labels
ASSUME GraphsAssumption == Graphs \subseteq [Labels -> SUBSET Labels]

DFN_INF == 2147483647

Root == -1

Cycles == Labels \cup {Root}

VARIABLES children,          \* the graph
          dfn,               \* _vertex_data[v].dfn
          head_dfn,          \* _vertex_data[v].head_dfn
          num,               \* _num
          stack,             \* _stack, top last
          visit_stack,       \* _visit_stack, top last
          components,        \* the partition of each cycle, in reverse order
          parent,            \* wto_cycle_t::_containing_cycle of each cycle made
          containing_cycle   \* wto_t::_containing_cycle

builderVars == <<dfn, head_dfn, num, stack, visit_stack, components, parent, containing_cycle>>

vars == <<children, builderVars>>

(* A task.  Its partition is that of the cycle `in`, except that a         *)
(* ContinueVisit carries the new cycle, that of its vertex, besides.       *)
Task == [type : {"PushSuccessors", "StartVisit", "ContinueVisit"}, vertex : Labels, in : Cycles]

MkTask(type, vertex, in) == [type |-> type, vertex |-> vertex, in |-> in]

Component == [cycle : BOOLEAN, label : Labels]

Vertex(v) == [cycle |-> FALSE, label |-> v]

Cycle(v) == [cycle |-> TRUE, label |-> v]

Last(s) == s[Len(s)]

Front(s) == SubSeq(s, 1, Len(s) - 1)

(* The tasks of the successors still unvisited, as pushed in reverse order *)
(* of the labels: the smallest ends on top.                                *)
IsPushOf(tasks, S, in) ==
    /\ tasks \in [1..Cardinality(S) -> {MkTask("PushSuccessors", s, in) : s \in S}]
    /\ \A i, j \in 1..Cardinality(S) : i < j => tasks[i].vertex > tasks[j].vertex

PushTasks(S, in) ==
    CHOOSE tasks \in [1..Cardinality(S) -> {MkTask("PushSuccessors", s, in) : s \in S}] :
        IsPushOf(tasks, S, in)

Unvisited(S, numbers) == {s \in S : numbers[s] = 0}

Init ==
    /\ children \in Graphs
    /\ dfn = [v \in Labels |-> 0]
    /\ head_dfn = [v \in Labels |-> 0]
    /\ num = 0
    /\ stack = <<>>
    /\ visit_stack = <<MkTask("PushSuccessors", Entry, Root)>>
    /\ components = [c \in {Root} |-> <<>>]
    /\ parent = <<>>
    /\ containing_cycle = <<>>

(* Mutant of Emplace: the vertex instead of the cycle.                     *)
MutEmplace(v, c) ==
    [l \in DOMAIN containing_cycle \cup {v} |->
        IF l \in DOMAIN containing_cycle THEN containing_cycle[l] ELSE v]

(* containing_cycle.emplace(v, c): an entry that exists stays.             *)
Emplace(v, c) ==
    [l \in DOMAIN containing_cycle \cup {v} |->
        IF l \in DOMAIN containing_cycle THEN containing_cycle[l] ELSE c]

(* visit_stack.top() is a task of this type.                               *)
Popping(type, task) == /\ visit_stack # <<>>
                       /\ task = Last(visit_stack)
                       /\ task.type = type

-----------------------------------------------------------------------------
(* push_successors                                                         *)

(* Mutant of PushVisited: the task is not popped.                          *)
MutPushVisited(task) ==
    /\ Popping("PushSuccessors", task)
    /\ dfn[task.vertex] # 0
    /\ UNCHANGED vars

(* An alternate path to a node already visited.                            *)
PushVisited(task) ==
    /\ Popping("PushSuccessors", task)
    /\ dfn[task.vertex] # 0
    /\ visit_stack' = Front(visit_stack)
    /\ UNCHANGED <<children, dfn, head_dfn, num, stack, components, parent, containing_cycle>>

push_successors(task) ==
    LET v == task.vertex
    IN  /\ Popping("PushSuccessors", task)
        /\ dfn[v] = 0
        /\ num' = num + 1
        /\ dfn' = [dfn EXCEPT ![v] = num + 1]
        /\ stack' = Append(stack, v)
        /\ visit_stack' = Append(Front(visit_stack), MkTask("StartVisit", v, task.in))
                            \o PushTasks(Unvisited(children[v], dfn'), task.in)
        /\ UNCHANGED <<children, head_dfn, components, parent, containing_cycle>>

-----------------------------------------------------------------------------
(* start_visit                                                             *)

MinDfn(s) == IF head_dfn[s] # 0 /\ dfn[s] # DFN_INF THEN head_dfn[s] ELSE dfn[s]

IsHeadDfn(v, h) ==
    /\ h \in {dfn[v]} \cup {MinDfn(s) : s \in children[v]}
    /\ h <= dfn[v]
    /\ \A s \in children[v] : h <= MinDfn(s)

(* Mutants of Loops: an edge to the vertex itself is no loop; any edge is. *)
MutLoopsStrict(v) == \E s \in children[v] : MinDfn(s) < dfn[v]

MutLoopsAlways(v) == children[v] # {}

Loops(v) == \E s \in children[v] : MinDfn(s) <= dfn[v]

(* v belongs to the component of a vertex below it on the stack.           *)
VisitMember(task) ==
    LET v == task.vertex
    IN  /\ Popping("StartVisit", task)
        /\ \E h \in {dfn[v]} \cup {MinDfn(s) : s \in children[v]} :
             /\ IsHeadDfn(v, h)
             /\ h # dfn[v]
             /\ head_dfn' = [head_dfn EXCEPT ![v] = h]
        /\ visit_stack' = Front(visit_stack)
        /\ UNCHANGED <<children, dfn, num, stack, components, parent, containing_cycle>>

(* v is a component by itself.  What is popped is the top of the stack,    *)
(* whatever it is.                                                         *)
VisitVertex(task) ==
    LET v == task.vertex
    IN  /\ Popping("StartVisit", task)
        /\ IsHeadDfn(v, dfn[v])
        /\ ~Loops(v)
        /\ dfn' = [dfn EXCEPT ![v] = DFN_INF]
        /\ head_dfn' = [head_dfn EXCEPT ![v] = dfn[v]]
        /\ stack' = Front(stack)
        /\ components' = [components EXCEPT ![task.in] = Append(@, Vertex(v))]
        /\ containing_cycle' = Emplace(v, task.in)
        /\ visit_stack' = Front(visit_stack)
        /\ UNCHANGED <<children, num, parent>>

(* Mutant of Above: the element next to the head is left out.              *)
MutAbove(i) == {stack[j] : j \in (i + 2)..Len(stack)}

(* What the head at place i of the stack pops before itself.               *)
Above(i) == {stack[j] : j \in (i + 1)..Len(stack)}

(* v heads a cycle: everything above it on the stack is visited again,     *)
(* within the cycle.                                                       *)
VisitHead(task) ==
    LET v == task.vertex
    IN  /\ Popping("StartVisit", task)
        /\ IsHeadDfn(v, dfn[v])
        /\ Loops(v)
        /\ \E i \in 1..Len(stack) :
             LET above == Above(i)
             IN  /\ stack[i] = v
                 /\ v \notin above
                 /\ stack' = SubSeq(stack, 1, i - 1)
                 /\ dfn' = [l \in Labels |-> IF l = v THEN DFN_INF
                                             ELSE IF l \in above THEN 0 ELSE dfn[l]]
                 /\ head_dfn' = [l \in Labels |-> IF l = v THEN dfn[v]
                                                  ELSE IF l \in above THEN 0 ELSE head_dfn[l]]
        /\ components' = [c \in DOMAIN components \cup {v} |-> IF c = v THEN <<>> ELSE components[c]]
        /\ parent' = [c \in DOMAIN parent \cup {v} |-> IF c = v THEN task.in ELSE parent[c]]
        /\ visit_stack' = Append(Front(visit_stack), MkTask("ContinueVisit", v, task.in))
                            \o PushTasks(Unvisited(children[v], dfn'), v)
        /\ UNCHANGED <<children, num, containing_cycle>>

-----------------------------------------------------------------------------
(* Mutant of continue_visit: the head is not put into its cycle.           *)
MutContinueVisit(task) ==
    LET v == task.vertex
    IN  /\ Popping("ContinueVisit", task)
        /\ components' = [components EXCEPT ![task.in] = Append(@, Cycle(v))]
        /\ containing_cycle' = Emplace(v, v)
        /\ visit_stack' = Front(visit_stack)
        /\ UNCHANGED <<children, dfn, head_dfn, num, stack, parent>>

(* continue_visit: the head goes to the front of its cycle, the cycle into *)
(* the partition.                                                          *)
continue_visit(task) ==
    LET v == task.vertex
        headed == [components EXCEPT ![v] = Append(@, Vertex(v))]
    IN  /\ Popping("ContinueVisit", task)
        /\ components' = [headed EXCEPT ![task.in] = Append(@, Cycle(v))]
        /\ containing_cycle' = Emplace(v, v)
        /\ visit_stack' = Front(visit_stack)
        /\ UNCHANGED <<children, dfn, head_dfn, num, stack, parent>>

Built == visit_stack = <<>>

RunTask(task) ==
    \/ PushVisited(task)
    \/ push_successors(task)
    \/ VisitMember(task)
    \/ VisitVertex(task)
    \/ VisitHead(task)
    \/ continue_visit(task)

BuildStep == visit_stack # <<>> /\ RunTask(Last(visit_stack))

Terminating == Built /\ UNCHANGED vars

Next == BuildStep \/ Terminating

Spec == Init /\ [][Next]_vars
=============================================================================
