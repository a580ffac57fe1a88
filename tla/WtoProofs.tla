------------------------------ MODULE WtoProofs -----------------------------
(***************************************************************************)
(* Proofs that the builder of Wto computes a weak topological ordering of  *)
(* every graph its numbers suffice for.                                    *)
(*                                                                         *)
(* The first part proves its types.  The second states OrderInv, what the  *)
(* two stacks, the numbers and the partitions say of each other between    *)
(* two tasks, and LoopInv, which vertices lead back to which and that the  *)
(* cycles made are loops, and proves that each task preserves both; the    *)
(* last derives the properties of WtoProperties, and bounds the numbers.   *)
(***************************************************************************)
EXTENDS WtoProperties, FiniteInduction

(* Tasks name cycles that exist, and a cycle is finished after it is made. *)
TaskOK(task, heads) == /\ task \in Task
                       /\ task.in \in heads \cup {Root}
                       /\ task.type = "ContinueVisit" => task.vertex \in heads

TasksOK(tasks, heads) == tasks \in Seq(Task) /\ \A i \in 1..Len(tasks) : TaskOK(tasks[i], heads)

TypeInv == TypeOK /\ TasksOK(visit_stack, CycleHeads)

(* The tasks of a set of vertices can be put in the reverse order.         *)
LEMMA PushExists ==
    ASSUME NEW S \in SUBSET Labels, NEW in
    PROVE  \E tasks : IsPushOf(tasks, S, in)
<1> DEFINE A == {T \in SUBSET S : \E tasks : IsPushOf(tasks, T, in)}
<1>1. IsFiniteSet(S) /\ \A T \in SUBSET S : IsFiniteSet(T) /\ Cardinality(T) \in Nat
  BY LabelsAssumption, FS_Subset, FS_CardinalityType
<1>2. {} \in A
  <2>1. Cardinality({}) = 0
    BY FS_EmptySet
  <2>2. IsPushOf(<<>>, {}, in)
    BY <2>1 DEF IsPushOf
  <2>3. QED
    BY <2>2
<1>3. ASSUME NEW T \in SUBSET S, T # {}, \A x \in T : T \ {x} \in A PROVE T \in A
  <2>1. PICK m \in T : \A t \in T : m <= t
    <3>1. T \in SUBSET Nat
      BY LabelsAssumption
    <3>2. QED
      BY <1>3, <3>1, LeastExists
  <2> DEFINE n == Cardinality(T)
             R == T \ {m}
  <2>2. n \in Nat /\ Cardinality(R) = n - 1 /\ Cardinality(R) \in Nat
    BY <1>1, <2>1, FS_RemoveElement
  <2>3. PICK tasks : IsPushOf(tasks, R, in)
    BY <1>3, <2>1
  <2> HIDE DEF n
  <2> DEFINE new == [i \in 1..n |-> IF i = n THEN MkTask("PushSuccessors", m, in) ELSE tasks[i]]
             From(V) == {MkTask("PushSuccessors", s, in) : s \in V}
  <2>4. tasks \in [1..(n - 1) -> From(R)]
        /\ \A i, j \in 1..(n - 1) : i < j => tasks[i].vertex > tasks[j].vertex
    BY <2>2, <2>3 DEF IsPushOf
  <2>5. \A i \in 1..n : i = n \/ i \in 1..(n - 1)
    BY <2>2
  <2>6. MkTask("PushSuccessors", m, in) \in From(T) /\ From(R) \subseteq From(T)
    BY <2>1
  <2>7. \A i \in 1..(n - 1) : tasks[i].vertex \in R
    BY <2>4 DEF MkTask
  <2>8. \A r \in R : r > m
    BY <2>1, LabelsAssumption
  <2>9. MkTask("PushSuccessors", m, in).vertex = m
    BY DEF MkTask
  <2> HIDE DEF From, R
  <2>10. new \in [1..n -> From(T)]
    BY <2>4, <2>5, <2>6
  <2>11. ASSUME NEW i \in 1..n, NEW j \in 1..n, i < j
         PROVE  new[i].vertex > new[j].vertex
    <3>1. i \in 1..(n - 1) /\ i # n /\ new[i] = tasks[i]
      BY <2>2, <2>11
    <3>2. CASE j = n
      BY <2>7, <2>8, <2>9, <3>1, <3>2
    <3>3. CASE j # n
      BY <2>4, <2>5, <2>11, <3>1, <3>3
    <3>4. QED
      BY <3>2, <3>3
  <2>12. IsPushOf(new, T, in)
    BY <2>10, <2>11 DEF IsPushOf, n, From
  <2>13. QED
    BY <2>12
<1> HIDE DEF A
<1>4. S \in A
  BY <1>1, <1>2, <1>3, SubsetInduction
<1>5. QED
  BY <1>4 DEF A

LEMMA PushTasksOK ==
    ASSUME NEW S \in SUBSET Labels, NEW in \in Cycles
    PROVE  \A heads : in \in heads \cup {Root} => TasksOK(PushTasks(S, in), heads)
<1> DEFINE tasks == PushTasks(S, in)
           T == {MkTask("PushSuccessors", s, in) : s \in S}
           n == Cardinality(S)
<1>1. \E t \in [1..n -> T] : IsPushOf(t, S, in)
  BY PushExists DEF IsPushOf
<1>2. tasks \in [1..n -> T]
  BY <1>1 DEF PushTasks
<1>3. n \in Nat
  BY LabelsAssumption, FS_Subset, FS_CardinalityType
<1>4. \A t \in T : t \in Task /\ t.in = in /\ t.type = "PushSuccessors"
  BY DEF MkTask, Task
<1> HIDE DEF T, tasks, n
<1>5. tasks \in Seq(Task) /\ Len(tasks) = n
  BY <1>2, <1>3, <1>4
<1>6. QED
  BY <1>2, <1>4, <1>5 DEF tasks, TasksOK, TaskOK

(* What a stack cut down is.                                               *)
LEMMA CutFacts ==
    ASSUME NEW S, NEW s \in Seq(S), NEW n \in 0..Len(s)
    PROVE  /\ SubSeq(s, 1, n) \in Seq(S) /\ Len(SubSeq(s, 1, n)) = n
           /\ \A i \in 1..n : SubSeq(s, 1, n)[i] = s[i]
<1>1. n \in Nat /\ \A i \in 1..n : s[i] \in S
  OBVIOUS
<1>2. SubSeq(s, 1, n) = [i \in 1..n |-> s[i]]
  BY <1>1
<1>3. QED
  BY <1>1, <1>2

(* What popping leaves of a stack.                                         *)
LEMMA FrontFacts ==
    ASSUME NEW S, NEW s \in Seq(S), s # <<>>
    PROVE  /\ Front(s) \in Seq(S) /\ Len(Front(s)) = Len(s) - 1 /\ Len(s) \in Nat \ {0}
           /\ \A i \in 1..(Len(s) - 1) : Front(s)[i] = s[i]
<1> DEFINE n == Len(s) - 1
<1>1. Len(s) \in Nat \ {0} /\ n \in 0..Len(s)
  OBVIOUS
<1>2. Front(s) = SubSeq(s, 1, n)
  BY DEF Front
<1> HIDE DEF n
<1>3. Front(s) \in Seq(S) /\ Len(Front(s)) = n /\ \A i \in 1..n : Front(s)[i] = s[i]
  BY <1>1, <1>2, CutFacts
<1>4. QED
  BY <1>1, <1>3 DEF n

(* What becomes of the stack of tasks.                                     *)
LEMMA PopTasks ==
    ASSUME NEW tasks, NEW heads, NEW more, TasksOK(tasks, heads), tasks # <<>>, heads \subseteq more
    PROVE  TasksOK(Front(tasks), more)
<1> DEFINE n == Len(tasks)
<1>1. tasks \in Seq(Task) /\ n \in Nat /\ n # 0 /\ \A i \in 1..n : TaskOK(tasks[i], heads)
  BY DEF TasksOK
<1> HIDE DEF n
<1>2. Front(tasks) \in Seq(Task) /\ Len(Front(tasks)) = n - 1
      /\ \A i \in 1..(n - 1) : Front(tasks)[i] = tasks[i]
  BY <1>1, FrontFacts DEF n
<1>3. \A i \in 1..(n - 1) : TaskOK(tasks[i], more)
  BY <1>1 DEF TaskOK
<1>4. QED
  BY <1>2, <1>3 DEF TasksOK

LEMMA PushMore ==
    ASSUME NEW tasks, NEW heads, TasksOK(tasks, heads), NEW task, TaskOK(task, heads),
           NEW new, TasksOK(new, heads)
    PROVE  TasksOK(Append(tasks, task) \o new, heads)
<1> DEFINE s == Append(tasks, task)
<1>1. tasks \in Seq(Task) /\ task \in Task /\ new \in Seq(Task)
  BY DEF TasksOK, TaskOK
<1>2. /\ s \in Seq(Task) /\ Len(s) = Len(tasks) + 1
      /\ \A i \in 1..Len(s) : s[i] = IF i = Len(s) THEN task ELSE tasks[i]
  BY <1>1
<1>3. \A i \in 1..Len(s) : TaskOK(s[i], heads)
  <2>1. \A i \in 1..Len(s) : i = Len(s) \/ i \in 1..Len(tasks)
    BY <1>1, <1>2
  <2>2. QED
    BY <1>2, <2>1 DEF TasksOK
<1> HIDE DEF s
<1>4. /\ s \o new \in Seq(Task) /\ Len(s \o new) = Len(s) + Len(new)
      /\ \A i \in 1..Len(s \o new) :
           (s \o new)[i] = IF i <= Len(s) THEN s[i] ELSE new[i - Len(s)]
  BY <1>1, <1>2
<1>5. \A i \in 1..Len(s \o new) : i \in 1..Len(s) \/ i - Len(s) \in 1..Len(new)
  BY <1>1, <1>2, <1>4
<1>6. \A i \in 1..Len(s \o new) : TaskOK((s \o new)[i], heads)
  <2>1. \A i \in 1..Len(new) : TaskOK(new[i], heads)
    BY DEF TasksOK
  <2>2. \A i \in 1..Len(s) : i <= Len(s)
    BY <1>2
  <2>3. \A i \in 1..Len(new) : Len(s) \in Nat
    BY <1>2
  <2>4. QED
    BY <1>3, <1>4, <1>5, <2>1
<1>7. QED
  BY <1>4, <1>6 DEF TasksOK, s
-----------------------------------------------------------------------------
LEMMA TypeInit == Init => TypeInv
<1> SUFFICES ASSUME Init PROVE TypeInv
  OBVIOUS
<1>1. MkTask("PushSuccessors", Entry, Root) \in Task
  BY LabelsAssumption DEF MkTask, Task, Cycles
<1>2. TasksOK(visit_stack, CycleHeads)
  BY <1>1 DEF Init, TasksOK, TaskOK, MkTask, CycleHeads
<1>3. parent = <<>> /\ DOMAIN <<>> = {}
  BY DEF Init
<1>4. TypeOK
  BY <1>1, <1>3, GraphsAssumption DEF Init, TypeOK, CycleHeads
<1>5. QED
  BY <1>2, <1>4 DEF TypeInv

(* The task on top of the stack.                                           *)
LEMMA TopTask ==
    ASSUME TypeInv, NEW type, NEW task, Popping(type, task)
    PROVE  /\ TaskOK(task, CycleHeads) /\ visit_stack # <<>> /\ task.type = type
           /\ task.vertex \in Labels /\ task.in \in Cycles /\ task.in \in CycleHeads \cup {Root}
           /\ CycleHeads \subseteq Labels
<1>1. visit_stack # <<>> /\ task = Last(visit_stack) /\ task.type = type
      /\ visit_stack \in Seq(Task)
  BY DEF Popping, TypeInv, TasksOK
<1>2. Len(visit_stack) \in 1..Len(visit_stack)
  BY <1>1
<1>3. TaskOK(task, CycleHeads) /\ CycleHeads \subseteq Labels
  BY <1>1, <1>2 DEF TypeInv, TypeOK, TasksOK, Last
<1>4. QED
  BY <1>1, <1>3 DEF TaskOK, Task

LEMMA MinDfnTyped ==
    ASSUME TypeOK, NEW s \in Labels
    PROVE  MinDfn(s) \in Nat
BY DEF TypeOK, MinDfn

LEMMA EmplaceTyped ==
    ASSUME TypeOK, NEW v \in Labels, NEW heads, CycleHeads \subseteq heads, NEW c \in heads \cup {Root}
    PROVE  /\ DOMAIN Emplace(v, c) \subseteq Labels
           /\ \A l \in DOMAIN Emplace(v, c) : Emplace(v, c)[l] \in heads \cup {Root}
BY DEF TypeOK, Emplace

LEMMA PushVisitedTyped ==
    ASSUME TypeInv, NEW task, PushVisited(task) PROVE TypeInv'
<1>1. TasksOK(Front(visit_stack), CycleHeads)
  BY TopTask, PopTasks DEF PushVisited, TypeInv
<1>2. QED
  BY <1>1 DEF PushVisited, TypeInv, TypeOK, CycleHeads, TasksOK

LEMMA PushSuccessorsTyped ==
    ASSUME TypeInv, NEW task, push_successors(task) PROVE TypeInv'
<1> DEFINE v == task.vertex
           new == PushTasks(Unvisited(children[v], dfn'), task.in)
           start == MkTask("StartVisit", v, task.in)
<1>1. /\ Popping("PushSuccessors", task) /\ num' = num + 1
      /\ dfn' = [dfn EXCEPT ![v] = num + 1] /\ stack' = Append(stack, v)
      /\ visit_stack' = Append(Front(visit_stack), start) \o new
      /\ UNCHANGED <<children, head_dfn, components, parent, containing_cycle>>
  BY DEF push_successors
<1>2. /\ v \in Labels /\ task.in \in Cycles /\ task.in \in CycleHeads \cup {Root} /\ visit_stack # <<>>
  BY <1>1, TopTask
<1>3. Unvisited(children[v], dfn') \in SUBSET Labels
  BY <1>2 DEF TypeInv, TypeOK, Unvisited
<1>4. TasksOK(new, CycleHeads)
  BY <1>2, <1>3, PushTasksOK
<1>5. TasksOK(Front(visit_stack), CycleHeads)
  BY <1>2, PopTasks DEF TypeInv
<1>6. TaskOK(start, CycleHeads)
  BY <1>2 DEF TaskOK, MkTask, Task
<1> HIDE DEF new, start
<1>7. TasksOK(visit_stack', CycleHeads)
  BY <1>1, <1>4, <1>5, <1>6, PushMore
<1>8. TypeOK'
  <2>1. num' \in Nat /\ dfn' \in [Labels -> Nat] /\ stack' \in Seq(Labels)
    BY <1>1, <1>2 DEF TypeInv, TypeOK
  <2>2. QED
    BY <1>1, <1>7, <2>1 DEF TypeInv, TypeOK, CycleHeads, TasksOK
<1>9. QED
  BY <1>1, <1>7, <1>8 DEF TypeInv, CycleHeads

LEMMA VisitMemberTyped ==
    ASSUME TypeInv, NEW task, VisitMember(task) PROVE TypeInv'
<1> DEFINE v == task.vertex
<1>1. v \in Labels /\ visit_stack # <<>>
  BY TopTask DEF VisitMember
<1>2. PICK h \in {dfn[v]} \cup {MinDfn(s) : s \in children[v]} : head_dfn' = [head_dfn EXCEPT ![v] = h]
  BY DEF VisitMember
<1>3. h \in Nat
  <2>1. dfn[v] \in Nat /\ children[v] \subseteq Labels
    BY <1>1 DEF TypeInv, TypeOK
  <2>2. QED
    BY <2>1, MinDfnTyped DEF TypeInv
<1>4. head_dfn' \in [Labels -> Nat]
  BY <1>2, <1>3 DEF TypeInv, TypeOK
<1>5. TasksOK(Front(visit_stack), CycleHeads)
  BY <1>1, PopTasks DEF TypeInv
<1>6. QED
  BY <1>4, <1>5 DEF VisitMember, TypeInv, TypeOK, CycleHeads, TasksOK


LEMMA VisitVertexTyped ==
    ASSUME TypeInv, NEW task, VisitVertex(task) PROVE TypeInv'
<1> DEFINE v == task.vertex
           in == task.in
<1>1. /\ Popping("StartVisit", task)
      /\ dfn' = [dfn EXCEPT ![v] = DFN_INF] /\ head_dfn' = [head_dfn EXCEPT ![v] = dfn[v]]
      /\ stack' = Front(stack) /\ visit_stack' = Front(visit_stack)
      /\ components' = [components EXCEPT ![in] = Append(@, Vertex(v))]
      /\ containing_cycle' = Emplace(v, in) /\ UNCHANGED <<children, num, parent>>
  BY DEF VisitVertex
<1>2. v \in Labels /\ in \in CycleHeads \cup {Root} /\ visit_stack # <<>>
  BY <1>1, TopTask
<1>3. TasksOK(visit_stack', CycleHeads)
  BY <1>1, <1>2, PopTasks DEF TypeInv
<1>4. dfn' \in [Labels -> Nat] /\ head_dfn' \in [Labels -> Nat]
  BY <1>1, <1>2 DEF TypeInv, TypeOK, DFN_INF
<1>5. stack' \in Seq(Labels)
  <2>1. stack \in Seq(Labels)
    BY DEF TypeInv, TypeOK
  <2>2. CASE stack = <<>>
    <3>1. SubSeq(stack, 1, Len(stack) - 1) = <<>>
      BY <2>2
    <3>2. <<>> \in Seq(Labels)
      OBVIOUS
    <3>3. QED
      BY <1>1, <3>1, <3>2 DEF Front
  <2>3. CASE stack # <<>>
    BY <1>1, <2>1, <2>3, FrontFacts
  <2>4. QED
    BY <2>2, <2>3
<1>6. DOMAIN components' = DOMAIN components /\ \A c \in DOMAIN components : components'[c] \in Seq(Component)
  <2>1. Vertex(v) \in Component
    BY <1>2 DEF Vertex, Component
  <2>2. \A c \in DOMAIN components : components'[c] = IF c = in THEN Append(components[c], Vertex(v)) ELSE components[c]
    BY <1>1
  <2>3. QED
    BY <1>1, <2>1, <2>2 DEF TypeInv, TypeOK
<1>7. DOMAIN containing_cycle' \subseteq Labels
      /\ \A l \in DOMAIN containing_cycle' : containing_cycle'[l] \in CycleHeads \cup {Root}
  BY <1>1, <1>2, EmplaceTyped DEF TypeInv
<1>8. CycleHeads' = CycleHeads
  BY <1>1 DEF CycleHeads
<1>9. TypeOK'
  <2>1. visit_stack' \in Seq(Task)
    BY <1>3 DEF TasksOK
  <2>2. QED
    BY <1>1, <1>4, <1>5, <1>6, <1>7, <1>8, <2>1 DEF TypeInv, TypeOK
<1>10. QED
  BY <1>3, <1>8, <1>9 DEF TypeInv

LEMMA VisitHeadTyped ==
    ASSUME TypeInv, NEW task, VisitHead(task) PROVE TypeInv'
<1> DEFINE v == task.vertex
           in == task.in
           new == PushTasks(Unvisited(children[v], dfn'), v)
           again == MkTask("ContinueVisit", v, in)
           heads == CycleHeads \cup {v}
<1>1. /\ Popping("StartVisit", task)
      /\ components' = [c \in DOMAIN components \cup {v} |-> IF c = v THEN <<>> ELSE components[c]]
      /\ parent' = [c \in DOMAIN parent \cup {v} |-> IF c = v THEN in ELSE parent[c]]
      /\ visit_stack' = Append(Front(visit_stack), again) \o new
      /\ UNCHANGED <<children, num, containing_cycle>>
  BY DEF VisitHead
<1>2. v \in Labels /\ in \in Cycles /\ in \in CycleHeads \cup {Root} /\ visit_stack # <<>> /\ heads \subseteq Labels
  BY <1>1, TopTask
<1>3. PICK i \in 1..Len(stack) :
        /\ stack' = SubSeq(stack, 1, i - 1)
        /\ dfn' = [l \in Labels |-> IF l = v THEN DFN_INF ELSE IF l \in Above(i) THEN 0 ELSE dfn[l]]
        /\ head_dfn' = [l \in Labels |-> IF l = v THEN dfn[v]
                                         ELSE IF l \in Above(i) THEN 0 ELSE head_dfn[l]]
  BY DEF VisitHead
<1>4. dfn' \in [Labels -> Nat] /\ head_dfn' \in [Labels -> Nat]
  BY <1>2, <1>3 DEF TypeInv, TypeOK, DFN_INF
<1>5. stack' \in Seq(Labels)
  <2>1. stack \in Seq(Labels)
    BY DEF TypeInv, TypeOK
  <2>2. i - 1 \in 0..Len(stack)
    BY <2>1
  <2>3. QED
    BY <1>3, <2>1, <2>2, CutFacts
<1>6. TasksOK(visit_stack', heads)
  <2>1. TasksOK(Front(visit_stack), heads)
    BY <1>2, PopTasks DEF TypeInv
  <2>2. TaskOK(again, heads)
    BY <1>2 DEF TaskOK, MkTask, Task
  <2>3. Unvisited(children[v], dfn') \in SUBSET Labels /\ v \in Cycles
    BY <1>2 DEF TypeInv, TypeOK, Unvisited, Cycles
  <2>4. TasksOK(new, heads)
    BY <2>3, PushTasksOK
  <2> HIDE DEF new, again, heads
  <2>5. QED
    BY <1>1, <2>1, <2>2, <2>4, PushMore
<1>7. CycleHeads' = heads /\ parent' \in [heads -> heads \cup {Root}]
  <2>1. \A c \in heads : parent'[c] \in heads \cup {Root}
    BY <1>1, <1>2 DEF TypeInv, TypeOK, CycleHeads
  <2>2. QED
    BY <1>1, <2>1 DEF CycleHeads
<1>8. DOMAIN components' = heads \cup {Root} /\ \A c \in DOMAIN components' : components'[c] \in Seq(Component)
  <2>1. DOMAIN components = CycleHeads \cup {Root} /\ \A c \in DOMAIN components : components[c] \in Seq(Component)
    BY DEF TypeInv, TypeOK
  <2>2. DOMAIN components' = DOMAIN components \cup {v}
    BY <1>1
  <2>3. ASSUME NEW c \in DOMAIN components' PROVE components'[c] \in Seq(Component)
    BY <1>1, <2>1, <2>3
  <2>4. QED
    BY <2>1, <2>2, <2>3
<1>9. TypeOK'
  <2>1. visit_stack' \in Seq(Task)
    BY <1>6 DEF TasksOK
  <2>2. /\ children' \in [Labels -> SUBSET Labels] /\ num' \in Nat /\ DOMAIN containing_cycle' \subseteq Labels
        /\ \A l \in DOMAIN containing_cycle' : containing_cycle'[l] \in heads \cup {Root}
    BY <1>1 DEF TypeInv, TypeOK
  <2> HIDE DEF heads
  <2>3. QED
    BY <1>2, <1>4, <1>5, <1>7, <1>8, <2>1, <2>2 DEF TypeOK
<1>10. QED
  BY <1>6, <1>7, <1>9 DEF TypeInv

LEMMA ContinueVisitTyped ==
    ASSUME TypeInv, NEW task, continue_visit(task) PROVE TypeInv'
<1> DEFINE v == task.vertex
           in == task.in
           headed == [components EXCEPT ![v] = Append(@, Vertex(v))]
<1>1. /\ Popping("ContinueVisit", task)
      /\ components' = [headed EXCEPT ![in] = Append(@, Cycle(v))]
      /\ containing_cycle' = Emplace(v, v) /\ visit_stack' = Front(visit_stack)
      /\ UNCHANGED <<children, dfn, head_dfn, num, stack, parent>>
  BY DEF continue_visit
<1>2. v \in Labels /\ in \in CycleHeads \cup {Root} /\ visit_stack # <<>>
  BY <1>1, TopTask
<1>3. v \in CycleHeads
  BY <1>1, TopTask DEF TaskOK
<1>4. TasksOK(visit_stack', CycleHeads)
  BY <1>1, <1>2, PopTasks DEF TypeInv
<1>5. DOMAIN components' = DOMAIN components /\ \A c \in DOMAIN components : components'[c] \in Seq(Component)
  <2>1. Vertex(v) \in Component /\ Cycle(v) \in Component
    BY <1>2 DEF Vertex, Cycle, Component
  <2>2. DOMAIN headed = DOMAIN components /\ \A c \in DOMAIN components : headed[c] \in Seq(Component)
    BY <2>1 DEF TypeInv, TypeOK
  <2> HIDE DEF headed
  <2>3. \A c \in DOMAIN components :
          components'[c] = IF c = in THEN Append(headed[c], Cycle(v)) ELSE headed[c]
    BY <1>1, <2>2
  <2>4. DOMAIN components' = DOMAIN components
    BY <1>1, <2>2
  <2>5. QED
    BY <2>1, <2>2, <2>3, <2>4
<1>6. DOMAIN containing_cycle' \subseteq Labels
      /\ \A l \in DOMAIN containing_cycle' : containing_cycle'[l] \in CycleHeads \cup {Root}
  BY <1>1, <1>2, <1>3, EmplaceTyped DEF TypeInv
<1>7. CycleHeads' = CycleHeads
  BY <1>1 DEF CycleHeads
<1>8. TypeOK'
  <2>1. visit_stack' \in Seq(Task)
    BY <1>4 DEF TasksOK
  <2>2. QED
    BY <1>1, <1>5, <1>6, <1>7, <2>1 DEF TypeInv, TypeOK
<1>9. QED
  BY <1>4, <1>7, <1>8 DEF TypeInv

(* One step of the builder.                                                *)
LEMMA TypeStep == TypeInv /\ [Next]_vars => TypeInv'
<1> SUFFICES ASSUME TypeInv, [Next]_vars PROVE TypeInv'
  OBVIOUS
<1>1. CASE BuildStep
  BY <1>1, PushVisitedTyped, PushSuccessorsTyped, VisitMemberTyped, VisitVertexTyped, VisitHeadTyped,
     ContinueVisitTyped DEF BuildStep, RunTask
<1>2. CASE UNCHANGED vars
  BY <1>2 DEF TypeInv, TypeOK, TasksOK, CycleHeads, vars, builderVars
<1>3. QED
  BY <1>1, <1>2 DEF Next, Terminating

(* BuilderTyped: on every graph the builder looks up only partitions and   *)
(* cycles it has made: what a task pushes into, the parent of every cycle  *)
(* and the cycle recorded for every vertex exist, and a ContinueVisit is   *)
(* only run for a cycle whose components vector has been created.          *)
THEOREM BuilderTyped == Spec => []TypeOK
<1>1. Spec => []TypeInv
  BY TypeInit, TypeStep, PTL DEF Spec
<1>2. TypeInv => TypeOK
  BY DEF TypeInv
<1>3. QED
  BY <1>1, <1>2, PTL

-----------------------------------------------------------------------------
(* The invariant.                                                          *)

OnStack == {stack[i] : i \in 1..Len(stack)}

(* The vertices whose visit is begun, the cycles whose vertices are being  *)
(* visited, and the partitions that can still grow.                        *)
VerticesOf(type) == {visit_stack[i].vertex : i \in {j \in 1..Len(visit_stack) : visit_stack[j].type = type}}

Started == VerticesOf("StartVisit")

Active == VerticesOf("ContinueVisit")

Growing == Active \cup {Root}

(* The number a vertex had when its cycle was made; cycles inside others   *)
(* have greater ones.                                                      *)
Level(c) == IF c = Root THEN 0 ELSE head_dfn[c]

Opened(i) == visit_stack[i].type # "PushSuccessors"

NumberOf(task) == IF task.type = "ContinueVisit" THEN head_dfn[task.vertex] ELSE dfn[task.vertex]

(* Vertices numbered a and b are visited in the same cycle.                *)
Together(a, b) == \A c \in Active : ~ (a < head_dfn[c] /\ head_dfn[c] < b)

-----------------------------------------------------------------------------
(* Numbers                                                                 *)
Numbered ==
    /\ \A v \in Labels : /\ dfn[v] # DFN_INF => dfn[v] <= num
                         /\ dfn[v] = 0 => head_dfn[v] = 0
    /\ \A i, j \in 1..Len(stack) : i < j => dfn[stack[i]] < dfn[stack[j]]
    /\ OnStack = {v \in Labels : dfn[v] \notin {0, DFN_INF}}
    /\ \A c \in CycleHeads : dfn[c] = DFN_INF /\ 0 < head_dfn[c] /\ head_dfn[c] <= num

(* Each task is for a successor of the vertex of the nearest task below it *)
(* that is begun, and for the cycle of the nearest ContinueVisit.          *)
Below(i, o) == o \in 1..(i - 1) /\ Opened(o) /\ \A j \in (o + 1)..(i - 1) : ~ Opened(j)

InnermostAt(i) ==
    \/ visit_stack[i].in = Root /\ \A j \in 1..(i - 1) : visit_stack[j].type # "ContinueVisit"
    \/ \E j \in 1..(i - 1) :
         /\ visit_stack[j].type = "ContinueVisit" /\ visit_stack[j].vertex = visit_stack[i].in
         /\ \A k \in (j + 1)..(i - 1) : visit_stack[k].type # "ContinueVisit"

TaskFits(i) ==
    LET task == visit_stack[i]
    IN  /\ task.type = "StartVisit" => task.vertex \in OnStack /\ head_dfn[task.vertex] = 0
        /\ task.type = "ContinueVisit" => parent[task.vertex] = task.in
        /\ InnermostAt(i)
        /\ IF i = 1 THEN task.vertex = Entry /\ (Opened(1) \/ (Len(visit_stack) = 1 /\ dfn[Entry] = 0))
           ELSE \E o \in 1..(i - 1) : Below(i, o) /\ task.vertex \in children[visit_stack[o].vertex]

TasksNested ==
    /\ \A i \in 1..Len(visit_stack) : TaskFits(i)
    /\ \A i, j \in 1..Len(visit_stack) :
         Opened(i) /\ Opened(j) /\ i < j => NumberOf(visit_stack[i]) < NumberOf(visit_stack[j])

(* A vertex whose visit is over stays on the stack because it leads to an  *)
(* earlier one of its cycle.                                               *)
MemberLeads(x) ==
    /\ \E y \in OnStack : dfn[y] = head_dfn[x] /\ dfn[y] < dfn[x] /\ Together(dfn[y], dfn[x])
    /\ \A w \in children[x] : dfn[w] # 0 => head_dfn[x] <= dfn[w]
MembersLead == \A x \in OnStack : IF head_dfn[x] = 0 THEN x \in Started ELSE MemberLeads(x)

(* Above a vertex being visited are only vertices visited from there, and  *)
(* what they lead to is passed down once their visit is over.              *)
VisitedFrom ==
    \A x \in OnStack, v \in Started :
        dfn[v] < dfn[x] /\ Together(dfn[v], dfn[x]) =>
            \E t \in OnStack :
                /\ dfn[v] <= dfn[t] /\ dfn[t] < dfn[x] /\ x \in children[t]
                /\ t \in Started \/ (x \notin Started /\ head_dfn[t] <= head_dfn[x])

-----------------------------------------------------------------------------
(* G[c] is what the head c found above itself on the stack when its cycle  *)
(* was made: the cycle without its head.  It is not kept by the builder;   *)
(* the invariant says of a suitable G how the rest goes with it.           *)
Whole(c, G) == G[c] \cup {c}
Inside(e, G) == IF e.cycle THEN Whole(e.label, G) ELSE {e.label}
Placed(c, G) == UNION {Inside(components[c][i], G) : i \in 1..Len(components[c])}
IsPlaced(w) == dfn[w] = DFN_INF

ScopesOK(G) ==
    /\ G \in [CycleHeads -> SUBSET Labels]
    /\ \A c \in CycleHeads : c \notin G[c]
    /\ \A c \in Active :
         /\ \A u \in Whole(c, G) : \A w \in children[u] : w \in Whole(c, G) \/ IsPlaced(w)
         /\ \A x \in OnStack : dfn[x] # head_dfn[c] /\ (dfn[x] > head_dfn[c] <=> x \in G[c])
         /\ \A A \in SUBSET Labels :
              c \in A /\ (\A u \in A : children[u] \cap G[c] \subseteq A) => G[c] \subseteq A
    /\ \A c, d \in Active : head_dfn[c] < head_dfn[d] => Whole(d, G) \subseteq G[c]

(* The task of a vertex has one above it to push a successor.              *)
Waiting(x, s) ==
    \E i, j \in 1..Len(visit_stack) :
       /\ i < j /\ Opened(i) /\ visit_stack[i].vertex = x
       /\ ~ Opened(j) /\ visit_stack[j].vertex = s

(* The successors of a vertex are visited, or will be.                     *)
Coming(x, G) ==
    \A s \in children[x] :
       \/ dfn[s] # 0
       \/ Waiting(x, s)
       \/ \E c \in Active : s \in G[c] /\ (IF x \in OnStack THEN dfn[x] ELSE head_dfn[x]) < head_dfn[c]
ChildrenComing(G) == \A x \in OnStack \cup Active : Coming(x, G)

PlacedOK(G) ==
    /\ \A c \in Growing : \A w \in Placed(c, G) : IsPlaced(w)
    /\ \A w \in Labels : IsPlaced(w) => w \in Active \/ \E c \in Growing : w \in Placed(c, G)
    /\ \A c \in Growing, d \in Active : Level(c) < Level(d) =>
          /\ Placed(c, G) \cap Whole(d, G) = {}
          /\ \A u \in Placed(c, G) : children[u] \cap Whole(d, G) = {}
    /\ \A c \in Active : Placed(c, G) \subseteq G[c]
    /\ \A c \in Growing : \A u \in Placed(c, G) : \A w \in children[u] : IsPlaced(w)
    /\ \A c \in CycleHeads \ Active : /\ Placed(c, G) = Whole(c, G)
                                      /\ components[c] # <<>> /\ Last(components[c]) = Vertex(c)

(* Two components of the partition of c share nothing, and edges go down   *)
(* the vector, back to c, or stay inside a cycle.                          *)
PartFits(c, i, j, from, to, G) ==
    /\ i # j => Inside(from, G) \cap Inside(to, G) = {}
    /\ \A u \in Inside(from, G) : \A w \in children[u] \cap Inside(to, G) :
         i > j \/ w = c \/ (i = j /\ from.cycle)

PartsOK(G) ==
    \A c \in DOMAIN components : \A i, j \in 1..Len(components[c]) :
        PartFits(c, i, j, components[c][i], components[c][j], G)

PlaceFits(c, e) ==
    IF e.cycle THEN e.label \in CycleHeads \ Active /\ c = parent[e.label] /\ Level(c) < Level(e.label)
    ELSE IsPlaced(e.label) /\ e.label \notin Active

HasPlace(c, e) == \E i \in 1..Len(components[c]) : components[c][i] = e

(* A component stands in one place, a finished cycle in that of its parent.*)
Places ==
    /\ \A c, d \in DOMAIN components : \A i \in 1..Len(components[c]), j \in 1..Len(components[d]) :
         components[c][i] = components[d][j] => c = d /\ i = j
    /\ \A c \in DOMAIN components : \A i \in 1..Len(components[c]) : PlaceFits(c, components[c][i])
    /\ \A l \in Labels : IsPlaced(l) /\ l \notin Active =>
         \E c \in DOMAIN components : HasPlace(c, Vertex(l))
    /\ \A l \in CycleHeads \ Active : HasPlace(parent[l], Cycle(l))

Reached ==
    \A A \in SUBSET Labels : Entry \in A /\ (\A u \in A : children[u] \subseteq A) =>
        \A v \in Labels : dfn[v] # 0 => v \in A

EntryLast == visit_stack = <<>> => components[Root] # <<>> /\ Last(components[Root]).label = Entry

OrderInv(G) == /\ TypeInv /\ Numbered /\ TasksNested /\ MembersLead /\ VisitedFrom
               /\ ScopesOK(G) /\ ChildrenComing(G) /\ PlacedOK(G) /\ PartsOK(G)
               /\ Places /\ Reached /\ EntryLast

(* The vertices whose visit is over that lead back to the one numbered h,  *)
(* and that they do, each through others.                                  *)
OfHead(h) == {u \in OnStack : head_dfn[u] = h}

BackTo(h) ==
    \A A \in SUBSET Labels :
        (\A u \in OfHead(h) : (\E s \in children[u] : s \in A \/ (s \in OnStack /\ dfn[s] = h)) => u \in A)
            => OfHead(h) \subseteq A

(* From the head every vertex of a cycle can be reached in it, from every  *)
(* one the head, and an edge leads back to the head.                       *)
IsLoop(c, H) ==
    /\ \A A \in SUBSET Labels :
         c \in A /\ (\A u \in A : children[u] \cap H \subseteq A) => H \subseteq A
    /\ \A A \in SUBSET Labels :
         c \in A /\ (\A u \in H \cup {c} : children[u] \cap A # {} => u \in A) => H \subseteq A
    /\ \E u \in H \cup {c} : c \in children[u]

LoopInv(G) ==
    /\ \A h \in Nat \ {0} : BackTo(h)
    /\ \A c \in CycleHeads : IsLoop(c, G[c])

-----------------------------------------------------------------------------
(* DFN_INF is a number like the others.                                    *)
LEMMA InfinityFacts == DFN_INF \in Nat /\ DFN_INF > 0
BY DEF DFN_INF

(* The tasks pushed: one for each vertex.                                  *)
LEMMA PushedTasks ==
    ASSUME NEW S \in SUBSET Labels, NEW in
    PROVE  /\ \A i \in 1..Len(PushTasks(S, in)) :
                /\ PushTasks(S, in)[i].type = "PushSuccessors" /\ PushTasks(S, in)[i].in = in
                /\ PushTasks(S, in)[i].vertex \in S
           /\ \A i, j \in 1..Len(PushTasks(S, in)) :
                i < j => PushTasks(S, in)[i].vertex > PushTasks(S, in)[j].vertex
           /\ Len(PushTasks(S, in)) = Cardinality(S) /\ Cardinality(S) \in Nat
<1> DEFINE tasks == PushTasks(S, in)
           T == {MkTask("PushSuccessors", s, in) : s \in S}
           n == Cardinality(S)
<1>1. \E t \in [1..n -> T] : IsPushOf(t, S, in)
  BY PushExists DEF IsPushOf
<1>2. IsPushOf(tasks, S, in)
  BY <1>1 DEF PushTasks
<1>3. tasks \in [1..n -> T] /\ \A i, j \in 1..n : i < j => tasks[i].vertex > tasks[j].vertex
  BY <1>2 DEF IsPushOf
<1>4. n \in Nat /\ IsFiniteSet(S)
  BY LabelsAssumption, FS_Subset, FS_CardinalityType
<1>5. \A t \in T : t.type = "PushSuccessors" /\ t.in = in /\ t.vertex \in S
  BY DEF MkTask
<1> HIDE DEF T, tasks, n
<1>6. Len(tasks) = n
  BY <1>3, <1>4
<1>7. QED
  BY <1>3, <1>4, <1>5, <1>6 DEF tasks, n

(* Every vertex pushed has its task.                                       *)
LEMMA EachPushed ==
    ASSUME NEW S \in SUBSET Labels, NEW in, NEW s \in S
    PROVE  \E i \in 1..Len(PushTasks(S, in)) : PushTasks(S, in)[i].vertex = s
<1> DEFINE tasks == PushTasks(S, in)
           n == Cardinality(S)
           D == 1..n
           R == S \ {s}
           f == [i \in D |-> tasks[i].vertex]
<1>1. n \in Nat /\ IsFiniteSet(S) /\ Len(tasks) = n
  BY LabelsAssumption, FS_Subset, PushedTasks
<1>2. \A i \in 1..n : tasks[i].vertex \in S
  BY <1>1, PushedTasks
<1>3. \A i, j \in 1..n : i < j => tasks[i].vertex > tasks[j].vertex
  BY <1>1, PushedTasks
<1>4. IsFiniteSet(R) /\ Cardinality(R) = n - 1
  BY <1>1, FS_RemoveElement
<1> HIDE DEF tasks, n
<1>5. IsFiniteSet(D) /\ Cardinality(D) = n
  BY <1>1, FS_Interval
<1> SUFFICES ASSUME \A i \in 1..n : tasks[i].vertex # s PROVE FALSE
  BY <1>1 DEF tasks
<1>6. f \in [D -> R] /\ Cardinality(R) < Cardinality(D)
  BY <1>1, <1>2, <1>4, <1>5
<1>7. \E i, j \in D : i # j /\ f[i] = f[j]
  <2> HIDE DEF f, D, R
  <2>1. QED
    BY <1>4, <1>5, <1>6, FS_PigeonHole
<1>8. PICK i \in 1..n, j \in 1..n : i # j /\ f[i] = f[j]
  BY <1>7
<1>9. tasks[i].vertex = tasks[j].vertex /\ tasks[i].vertex \in Nat
  BY <1>2, <1>8, LabelsAssumption
<1>10. CASE i < j
  BY <1>3, <1>9, <1>10
<1>11. CASE j < i
  BY <1>3, <1>9, <1>11
<1>12. QED
  BY <1>8, <1>10, <1>11

(* The stack of tasks after a pop.                                         *)
LEMMA AfterPop ==
    ASSUME TypeInv, visit_stack # <<>>, visit_stack' = Front(visit_stack)
    PROVE  /\ Len(visit_stack) \in Nat \ {0} /\ Len(visit_stack') = Len(visit_stack) - 1
           /\ \A i \in 1..Len(visit_stack') : visit_stack'[i] = visit_stack[i]
BY FrontFacts DEF TypeInv, TasksOK

(* A step puts a task and those of the vertices S for the one on top.      *)
Pushes(task, S, in) == visit_stack' = Append(Front(visit_stack), task) \o PushTasks(S, in)

AtSuccessor(s) == \E i \in (Len(visit_stack) + 1)..Len(visit_stack') : visit_stack'[i].vertex = s

Pushed(task, S, in) ==
    /\ Len(visit_stack) \in Nat \ {0} /\ Len(visit_stack') \in Nat /\ Len(visit_stack) <= Len(visit_stack')
    /\ \A i \in 1..(Len(visit_stack) - 1) : visit_stack'[i] = visit_stack[i]
    /\ visit_stack'[Len(visit_stack)] = task
    /\ \A i \in (Len(visit_stack) + 1)..Len(visit_stack') :
         visit_stack'[i].type = "PushSuccessors" /\ visit_stack'[i].in = in /\ visit_stack'[i].vertex \in S
    /\ \A s \in S : AtSuccessor(s)

(* The stack of tasks after a pop and a push.                              *)
LEMMA AfterPush ==
    ASSUME TypeInv, visit_stack # <<>>, NEW S \in SUBSET Labels, NEW in \in Cycles, NEW task \in Task,
           Pushes(task, S, in)
    PROVE  Pushed(task, S, in)
<1> DEFINE n == Len(visit_stack)
           front == Append(Front(visit_stack), task)
           new == PushTasks(S, in)
<1>1. visit_stack \in Seq(Task)
  BY DEF TypeInv, TasksOK
<1>2. n \in Nat \ {0} /\ Front(visit_stack) \in Seq(Task) /\ Len(Front(visit_stack)) = n - 1
      /\ \A i \in 1..(n - 1) : Front(visit_stack)[i] = visit_stack[i]
  BY <1>1, FrontFacts
<1>3. /\ front \in Seq(Task) /\ Len(front) = n /\ front[n] = task
      /\ \A i \in 1..(n - 1) : front[i] = visit_stack[i]
  <2> HIDE DEF n
  <2>1. QED
    BY <1>2
<1>4. new \in Seq(Task)
  BY PushTasksOK DEF TasksOK
<1>5. /\ \A i \in 1..Len(new) : new[i].type = "PushSuccessors" /\ new[i].in = in /\ new[i].vertex \in S
      /\ \A s \in S : \E i \in 1..Len(new) : new[i].vertex = s
      /\ Len(new) \in Nat
  <2>1. Len(new) \in Nat
    BY PushedTasks
  <2>2. ASSUME NEW s \in S PROVE \E i \in 1..Len(new) : new[i].vertex = s
    BY EachPushed
  <2>3. \A i \in 1..Len(new) : new[i].type = "PushSuccessors" /\ new[i].in = in /\ new[i].vertex \in S
    BY PushedTasks
  <2>4. QED
    BY <2>1, <2>2, <2>3
<1>a. visit_stack' = front \o new
  BY DEF Pushes
<1> HIDE DEF n, front, new
<1>6. /\ Len(visit_stack') = n + Len(new)
      /\ \A i \in 1..(n + Len(new)) : visit_stack'[i] = IF i <= n THEN front[i] ELSE new[i - n]
  <2>1. front \in Seq(Task) /\ new \in Seq(Task) /\ Len(front) = n
    BY <1>3, <1>4
  <2>2. /\ Len(front \o new) = Len(front) + Len(new)
        /\ \A i \in 1..Len(front \o new) : (front \o new)[i] = IF i <= Len(front) THEN front[i] ELSE new[i - Len(front)]
    BY <2>1
  <2>3. QED
    BY <1>a, <2>1, <2>2, Zenon
<1>7. ASSUME NEW i \in (n + 1)..(n + Len(new)) PROVE i \in 1..(n + Len(new)) /\ ~ (i <= n) /\ i - n \in 1..Len(new)
  BY <1>2, <1>5
<1>8. ASSUME NEW i \in 1..Len(new)
      PROVE  n + i \in (n + 1)..(n + Len(new)) /\ n + i \in 1..(n + Len(new)) /\ ~ (n + i <= n) /\ (n + i) - n = i
  BY <1>2, <1>5
<1>9. ASSUME NEW s \in S PROVE AtSuccessor(s)
  <2>1. PICK i \in 1..Len(new) : new[i].vertex = s
    BY <1>5
  <2>2. visit_stack'[n + i] = new[i] /\ n + i \in (n + 1)..(n + Len(new))
    BY <1>6, <1>8
  <2>3. QED
    BY <1>6, <2>1, <2>2 DEF AtSuccessor, n
<1>10. \A i \in (n + 1)..(n + Len(new)) :
         visit_stack'[i].type = "PushSuccessors" /\ visit_stack'[i].in = in /\ visit_stack'[i].vertex \in S
  BY <1>5, <1>6, <1>7
<1>11. \A i \in 1..n : i \in 1..(n + Len(new)) /\ i <= n
  BY <1>2, <1>5
<1>12. \A i \in 1..(n - 1) : i \in 1..n
  BY <1>2
<1>13. visit_stack'[n] = task /\ \A i \in 1..(n - 1) : visit_stack'[i] = visit_stack[i]
  <2>1. n \in 1..n
    BY <1>2
  <2>2. QED
    BY <1>3, <1>6, <1>11, <1>12, <2>1
<1>14. QED
  BY <1>2, <1>5, <1>6, <1>9, <1>10, <1>13 DEF n, Pushed

-----------------------------------------------------------------------------
(* What the task on top of the stack says of the others.                   *)
LEMMA TopIs ==
    ASSUME TypeInv, NEW type, NEW task, Popping(type, task)
    PROVE  /\ Len(visit_stack) \in Nat \ {0} /\ Len(visit_stack) \in 1..Len(visit_stack)
           /\ task = visit_stack[Len(visit_stack)] /\ task.type = type /\ visit_stack # <<>>
BY DEF TypeInv, TasksOK, Popping, Last

(* Cycles being visited are known, and no vertex.                          *)
LEMMA ActiveHeads ==
    ASSUME TypeInv
    PROVE  /\ Active \subseteq CycleHeads /\ CycleHeads \subseteq Labels /\ Root \notin CycleHeads
           /\ Growing \subseteq DOMAIN components /\ DOMAIN components = CycleHeads \cup {Root}
           /\ Started \subseteq Labels
<1>1. \A i \in 1..Len(visit_stack) : TaskOK(visit_stack[i], CycleHeads)
  BY DEF TypeInv, TasksOK
<1>2. Active \subseteq CycleHeads
  BY <1>1 DEF Active, VerticesOf, TaskOK
<1>3. Started \subseteq Labels
  BY <1>1 DEF Started, VerticesOf, TaskOK, Task
<1>4. CycleHeads \subseteq Labels /\ DOMAIN components = CycleHeads \cup {Root}
  BY DEF TypeInv, TypeOK
<1>5. Root \notin Labels
  BY LabelsAssumption DEF Root
<1>6. QED
  BY <1>2, <1>3, <1>4, <1>5 DEF Growing

(* The head of a cycle keeps DFN_INF, and in head_dfn its former number.   *)
LEMMA HeadFacts ==
    ASSUME TypeInv, Numbered, NEW c \in CycleHeads
    PROVE  /\ dfn[c] = DFN_INF /\ head_dfn[c] \in Nat /\ 0 < head_dfn[c] /\ head_dfn[c] <= num
           /\ c \notin OnStack /\ c # Root /\ Level(c) = head_dfn[c]
<1>1. c \in Labels /\ c # Root
  BY ActiveHeads
<1>2. c \notin OnStack
  BY DEF Numbered
<1>3. QED
  BY <1>1, <1>2 DEF Numbered, Level, TypeInv, TypeOK

(* Only the top level is at level 0.                                       *)
LEMMA LevelTyped ==
    ASSUME TypeInv, Numbered, NEW c \in CycleHeads \cup {Root}
    PROVE  Level(c) \in Nat /\ (c = Root <=> Level(c) = 0)
BY HeadFacts DEF Level

(* A vertex on the stack has a number, and no place yet.                   *)
LEMMA StackFacts ==
    ASSUME TypeInv, Numbered, NEW x \in OnStack
    PROVE  /\ x \in Labels /\ dfn[x] \in Nat /\ dfn[x] > 0 /\ dfn[x] <= num /\ dfn[x] # DFN_INF
           /\ head_dfn[x] \in Nat /\ ~ IsPlaced(x) /\ x \notin CycleHeads
<1>1. x \in Labels /\ dfn[x] \notin {0, DFN_INF}
  BY DEF Numbered
<1>2. QED
  BY <1>1 DEF Numbered, TypeInv, TypeOK, IsPlaced

(* Numbers tell the vertices on the stack apart.                           *)
LEMMA StackDistinct ==
    ASSUME TypeInv, Numbered, NEW x \in OnStack, NEW y \in OnStack, dfn[x] = dfn[y]
    PROVE  x = y
<1>1. PICK i \in 1..Len(stack), j \in 1..Len(stack) : x = stack[i] /\ y = stack[j]
  BY DEF OnStack
<1>2. Len(stack) \in Nat /\ dfn[x] \in Nat
  BY StackFacts DEF TypeInv, TypeOK
<1>3. CASE i < j
  BY <1>1, <1>2, <1>3 DEF Numbered
<1>4. CASE j < i
  BY <1>1, <1>2, <1>4 DEF Numbered
<1>5. CASE i = j
  BY <1>1, <1>5
<1>6. QED
  BY <1>2, <1>3, <1>4, <1>5

(* The number of the task on top is the greatest of those begun.           *)
LEMMA TopNumber ==
    ASSUME TypeInv, TasksNested, NEW type, NEW task, Popping(type, task), type # "PushSuccessors",
           NEW i \in 1..(Len(visit_stack) - 1), Opened(i)
    PROVE  NumberOf(visit_stack[i]) < NumberOf(task)
<1> DEFINE n == Len(visit_stack)
<1>1. n \in Nat \ {0} /\ n \in 1..n /\ task = visit_stack[n] /\ task.type = type
  BY TopIs
<1>2. Opened(n) /\ i \in 1..n /\ i < n
  BY <1>1 DEF Opened
<1>3. QED
  BY <1>1, <1>2 DEF TasksNested

(* The vertex on top is the last of those begun, and inside every cycle    *)
(* being visited.                                                          *)
LEMMA TopStarted ==
    ASSUME TypeInv, Numbered, TasksNested, NEW task, Popping("StartVisit", task)
    PROVE  LET v == task.vertex
           IN  /\ v \in OnStack /\ head_dfn[v] = 0 /\ v \in Started
               /\ \A u \in Started : u = v \/ dfn[u] < dfn[v]
               /\ \A c \in Active : head_dfn[c] < dfn[v]
<1> DEFINE n == Len(visit_stack)
           v == task.vertex
<1>1. n \in Nat \ {0} /\ n \in 1..n /\ task = visit_stack[n] /\ task.type = "StartVisit"
  BY TopIs
<1>2. v \in OnStack /\ head_dfn[v] = 0
  BY <1>1 DEF TasksNested, TaskFits
<1>3. v \in Started
  BY <1>1 DEF Started, VerticesOf
<1>4. ASSUME NEW u \in Started PROVE u = v \/ dfn[u] < dfn[v]
  <2>1. PICK i \in 1..n : visit_stack[i].vertex = u /\ visit_stack[i].type = "StartVisit"
    BY DEF Started, VerticesOf
  <2>2. i = n \/ i \in 1..(n - 1)
    BY <1>1
  <2>3. CASE i \in 1..(n - 1)
    BY <1>1, <2>1, <2>3, TopNumber DEF Opened, NumberOf
  <2>4. QED
    BY <1>1, <2>1, <2>2, <2>3
<1>5. ASSUME NEW c \in Active PROVE head_dfn[c] < dfn[v]
  <2>1. PICK i \in 1..n : visit_stack[i].vertex = c /\ visit_stack[i].type = "ContinueVisit"
    BY DEF Active, VerticesOf
  <2>2. i \in 1..(n - 1)
    BY <1>1, <2>1
  <2>3. QED
    BY <1>1, <2>1, <2>2, TopNumber DEF Opened, NumberOf
<1>6. QED
  BY <1>2, <1>3, <1>4, <1>5

(* What the ContinueVisit on top says: its cycle is the innermost.         *)
LEMMA TopContinued ==
    ASSUME TypeInv, Numbered, TasksNested, NEW task, Popping("ContinueVisit", task)
    PROVE  LET d == task.vertex
           IN  /\ d \in Active /\ parent[d] = task.in
               /\ \A u \in Started : dfn[u] < head_dfn[d]
               /\ \A c \in Active : c = d \/ head_dfn[c] < head_dfn[d]
<1> DEFINE n == Len(visit_stack)
           d == task.vertex
<1>1. n \in Nat \ {0} /\ n \in 1..n /\ task = visit_stack[n] /\ task.type = "ContinueVisit"
  BY TopIs
<1>2. parent[d] = task.in
  BY <1>1 DEF TasksNested, TaskFits
<1>3. d \in Active
  BY <1>1 DEF Active, VerticesOf
<1>4. ASSUME NEW u \in Started PROVE dfn[u] < head_dfn[d]
  <2>1. PICK i \in 1..n : visit_stack[i].vertex = u /\ visit_stack[i].type = "StartVisit"
    BY DEF Started, VerticesOf
  <2>2. i \in 1..(n - 1)
    BY <1>1, <2>1
  <2>3. QED
    BY <1>1, <2>1, <2>2, TopNumber DEF Opened, NumberOf
<1>5. ASSUME NEW c \in Active PROVE c = d \/ head_dfn[c] < head_dfn[d]
  <2>1. PICK i \in 1..n : visit_stack[i].vertex = c /\ visit_stack[i].type = "ContinueVisit"
    BY DEF Active, VerticesOf
  <2>2. i = n \/ i \in 1..(n - 1)
    BY <1>1
  <2>3. CASE i \in 1..(n - 1)
    BY <1>1, <2>1, <2>3, TopNumber DEF Opened, NumberOf
  <2>4. QED
    BY <1>1, <2>1, <2>2, <2>3
<1>6. QED
  BY <1>2, <1>3, <1>4, <1>5

(* Tasks belong to the innermost cycle below them.                         *)
LEMMA TopContext ==
    ASSUME TypeInv, Numbered, TasksNested, NEW type, NEW task, Popping(type, task)
    PROVE  /\ task.in \in Growing
           /\ \A i \in 1..(Len(visit_stack) - 1) :
                visit_stack[i].type = "ContinueVisit" =>
                    \/ visit_stack[i].vertex = task.in
                    \/ head_dfn[visit_stack[i].vertex] < Level(task.in)
           /\ task.in # Root => \E i \in 1..(Len(visit_stack) - 1) :
                visit_stack[i].type = "ContinueVisit" /\ visit_stack[i].vertex = task.in
<1> DEFINE n == Len(visit_stack)
<1>1. n \in Nat \ {0} /\ n \in 1..n /\ task = visit_stack[n]
  BY TopIs
<1>2. InnermostAt(n)
  BY <1>1 DEF TasksNested, TaskFits
<1>3. CASE task.in = Root /\ \A j \in 1..(n - 1) : visit_stack[j].type # "ContinueVisit"
  BY <1>3 DEF Growing
<1>4. CASE \E j \in 1..(n - 1) :
             /\ visit_stack[j].type = "ContinueVisit" /\ visit_stack[j].vertex = task.in
             /\ \A k \in (j + 1)..(n - 1) : visit_stack[k].type # "ContinueVisit"
  <2>1. PICK j \in 1..(n - 1) :
             /\ visit_stack[j].type = "ContinueVisit" /\ visit_stack[j].vertex = task.in
             /\ \A k \in (j + 1)..(n - 1) : visit_stack[k].type # "ContinueVisit"
    BY <1>4
  <2>2. j \in 1..n
    BY <1>1
  <2>3. task.in \in Active
    BY <2>1, <2>2 DEF Active, VerticesOf
  <2>4. Level(task.in) = head_dfn[task.in]
    BY <2>3, ActiveHeads, HeadFacts
  <2>5. ASSUME NEW i \in 1..(n - 1), visit_stack[i].type = "ContinueVisit"
        PROVE  visit_stack[i].vertex = task.in \/ head_dfn[visit_stack[i].vertex] < Level(task.in)
    <3>1. i = j \/ i < j
      BY <1>1, <2>1, <2>5
    <3>2. CASE i < j
      <4>1. NumberOf(visit_stack[i]) < NumberOf(visit_stack[j])
        BY <1>1, <2>1, <2>5, <3>2 DEF TasksNested, Opened
      <4>2. QED
        BY <2>1, <2>4, <2>5, <4>1 DEF NumberOf
    <3>3. QED
      BY <2>1, <3>1, <3>2
  <2>6. QED
    BY <2>1, <2>3, <2>5 DEF Growing
<1>5. QED
  BY <1>1, <1>2, <1>3, <1>4 DEF InnermostAt

-----------------------------------------------------------------------------
(* What a step leaves of the stack of tasks.                               *)

(* The tasks under the top.                                                *)
LowerOf(type) ==
    {visit_stack[i].vertex : i \in {j \in 1..(Len(visit_stack) - 1) : visit_stack[j].type = type}}

(* A step keeps what the tasks under the top are known by.                 *)
KeepsLower ==
    /\ children' = children
    /\ \A u \in LowerOf("StartVisit") : u \in OnStack' /\ head_dfn'[u] = 0 /\ dfn'[u] = dfn[u]
    /\ \A c \in LowerOf("ContinueVisit") : parent'[c] = parent[c] /\ head_dfn'[c] = head_dfn[c]

(* The vertices of a type of task, with that of the one on top.            *)
LEMMA TopVertices ==
    ASSUME TypeInv, NEW top, NEW task, Popping(top, task), NEW type
    PROVE  VerticesOf(type) = LowerOf(type) \cup (IF type = top THEN {task.vertex} ELSE {})
<1> DEFINE n == Len(visit_stack)
<1>1. n \in Nat \ {0} /\ n \in 1..n /\ task = visit_stack[n] /\ task.type = top
  BY TopIs
<1> HIDE DEF n
<1>2. 1..n = 1..(n - 1) \cup {n}
  BY <1>1
<1>3. QED
  BY <1>1, <1>2 DEF VerticesOf, LowerOf, n

(* Those left by a pop.                                                    *)
LEMMA PoppedVertices ==
    ASSUME TypeInv, visit_stack # <<>>, visit_stack' = Front(visit_stack), NEW type
    PROVE  VerticesOf(type)' = LowerOf(type)
BY AfterPop DEF VerticesOf, LowerOf

(* Those after a pop and a push.                                           *)
LEMMA PushedVertices ==
    ASSUME TypeInv, visit_stack # <<>>, NEW S \in SUBSET Labels, NEW in \in Cycles, NEW task \in Task,
           Pushes(task, S, in),
           NEW type, type # "PushSuccessors"
    PROVE  VerticesOf(type)' = LowerOf(type) \cup (IF type = task.type THEN {task.vertex} ELSE {})
<1> DEFINE n == Len(visit_stack)
           m == Len(visit_stack')
<1>0. Pushed(task, S, in)
  BY AfterPush
<1>1. /\ n \in Nat \ {0} /\ m \in Nat /\ n <= m
      /\ \A i \in 1..(n - 1) : visit_stack'[i] = visit_stack[i]
      /\ visit_stack'[n] = task
      /\ \A i \in (n + 1)..m : visit_stack'[i].type = "PushSuccessors"
  BY <1>0 DEF Pushed
<1> HIDE DEF n, m
<1>2. \A i \in 1..m : i \in 1..(n - 1) \/ i = n \/ i \in (n + 1)..m
  BY <1>1
<1>3. \A i \in 1..(n - 1) : i \in 1..m
  BY <1>1
<1>4. n \in 1..m
  BY <1>1
<1>5. QED
  <2>1. VerticesOf(type)' = {visit_stack'[i].vertex : i \in {j \in 1..m : visit_stack'[j].type = type}}
    BY DEF VerticesOf, m
  <2> DEFINE before == {i \in 1..(n - 1) : visit_stack[i].type = type}
             after == {i \in 1..m : visit_stack'[i].type = type}
             vertexAt(i) == visit_stack'[i].vertex
  <2>2. after = before \cup (IF type = task.type THEN {n} ELSE {})
    BY <1>1, <1>2, <1>3, <1>4
  <2>3. LowerOf(type) = {visit_stack[i].vertex : i \in before}
    BY DEF LowerOf, n
  <2>4. \A i \in before : visit_stack[i].vertex = vertexAt(i)
    BY <1>1
  <2>5. VerticesOf(type)' = {vertexAt(i) : i \in after} /\ vertexAt(n) = task.vertex
    BY <1>1, <2>1
  <2> HIDE DEF before, after, vertexAt
  <2>6. LowerOf(type) = {vertexAt(i) : i \in before}
    BY <2>3, <2>4
  <2>7. QED
    BY <2>2, <2>5, <2>6

(* The vertex of a task on top is not begun, or continued, twice.          *)
LEMMA TopOnce ==
    ASSUME TypeInv, Numbered, TasksNested, NEW type, NEW task, Popping(type, task), type # "PushSuccessors"
    PROVE  task.vertex \notin LowerOf(type)
<1>1. SUFFICES ASSUME task.vertex \in LowerOf(type) PROVE FALSE
  OBVIOUS
<1> DEFINE n == Len(visit_stack)
<1>2. PICK i \in 1..(n - 1) : visit_stack[i].vertex = task.vertex /\ visit_stack[i].type = type
  BY <1>1 DEF LowerOf
<1>3. task.type = type
  BY TopIs
<1>4. NumberOf(visit_stack[i]) < NumberOf(task)
  BY <1>2, TopNumber DEF Opened
<1>5. NumberOf(visit_stack[i]) = NumberOf(task)
  BY <1>2, <1>3 DEF NumberOf
<1>6. NumberOf(task) \in Nat
  BY TopTask DEF NumberOf, TypeInv, TypeOK
<1>7. QED
  BY <1>4, <1>5, <1>6

(* The vertices begun and continued, by the task on top.                   *)
LEMMA TopSets ==
    ASSUME TypeInv, NEW type, NEW task, Popping(type, task)
    PROVE  /\ type # "StartVisit" => Started = LowerOf("StartVisit")
           /\ type = "StartVisit" => Started = LowerOf("StartVisit") \cup {task.vertex}
           /\ type # "ContinueVisit" => Active = LowerOf("ContinueVisit")
           /\ type = "ContinueVisit" => Active = LowerOf("ContinueVisit") \cup {task.vertex}
<1>1. VerticesOf("StartVisit") = LowerOf("StartVisit") \cup (IF "StartVisit" = type THEN {task.vertex} ELSE {})
  BY TopVertices
<1>2. VerticesOf("ContinueVisit") = LowerOf("ContinueVisit") \cup (IF "ContinueVisit" = type THEN {task.vertex} ELSE {})
  BY TopVertices
<1>3. QED
  BY <1>1, <1>2 DEF Started, Active

(* The vertices and cycles being visited after a pop.                      *)
LEMMA PoppedSets ==
    ASSUME TypeInv, visit_stack # <<>>, visit_stack' = Front(visit_stack)
    PROVE  Started' = LowerOf("StartVisit") /\ Active' = LowerOf("ContinueVisit")
<1>1. VerticesOf("StartVisit")' = LowerOf("StartVisit") /\ VerticesOf("ContinueVisit")' = LowerOf("ContinueVisit")
  BY PoppedVertices
<1>2. QED
  BY <1>1 DEF Started, Active

(* The same after a pop and a push.                                        *)
LEMMA PushedSets ==
    ASSUME TypeInv, visit_stack # <<>>, NEW S \in SUBSET Labels, NEW in \in Cycles, NEW task \in Task,
           Pushes(task, S, in)
    PROVE  /\ task.type = "StartVisit" => /\ Started' = LowerOf("StartVisit") \cup {task.vertex}
                                          /\ Active' = LowerOf("ContinueVisit")
           /\ task.type = "ContinueVisit" => /\ Started' = LowerOf("StartVisit")
                                             /\ Active' = LowerOf("ContinueVisit") \cup {task.vertex}
<1>1. VerticesOf("StartVisit")' = LowerOf("StartVisit") \cup (IF "StartVisit" = task.type THEN {task.vertex} ELSE {})
  BY PushedVertices
<1>2. VerticesOf("ContinueVisit")' = LowerOf("ContinueVisit") \cup (IF "ContinueVisit" = task.type THEN {task.vertex} ELSE {})
  BY PushedVertices
<1>3. QED
  BY <1>1, <1>2 DEF Started, Active

(* A task below the top stays where it belongs.                            *)
LEMMA KeptFits ==
    ASSUME TypeInv, TasksNested, KeepsLower, NEW i \in 1..(Len(visit_stack) - 1), Len(visit_stack') \in Nat,
           Len(visit_stack) - 1 <= Len(visit_stack'),
           \A j \in 1..(Len(visit_stack) - 1) : visit_stack'[j] = visit_stack[j]
    PROVE  TaskFits(i)' /\ (Opened(i) => NumberOf(visit_stack[i])' = NumberOf(visit_stack[i]))
                        /\ (Opened(i)' <=> Opened(i))
<1> DEFINE n == Len(visit_stack)
<1>1. n \in Nat /\ TaskFits(i) /\ i \in 1..n /\ i < n
  BY DEF TypeInv, TasksOK, TasksNested
<1>2. \A j \in 1..i : visit_stack'[j] = visit_stack[j]
  BY <1>1
<1>3. \A j \in 1..i : Opened(j)' <=> Opened(j)
  BY <1>2 DEF Opened
<1>4. InnermostAt(i)'
  BY <1>1, <1>2 DEF TaskFits, InnermostAt
<1>5. visit_stack[i].type = "StartVisit" => visit_stack[i].vertex \in LowerOf("StartVisit")
  BY DEF LowerOf
<1>6. visit_stack[i].type = "ContinueVisit" => visit_stack[i].vertex \in LowerOf("ContinueVisit")
  BY DEF LowerOf
<1>7. Opened(i) => NumberOf(visit_stack[i])' = NumberOf(visit_stack[i])
  <2>1. visit_stack[i].type \in {"PushSuccessors", "StartVisit", "ContinueVisit"}
    BY <1>1 DEF TypeInv, TasksOK, TaskOK, Task
  <2>2. QED
    BY <1>2, <1>5, <1>6, <2>1 DEF NumberOf, Opened, KeepsLower
<1>8. i # 1 => \E o \in 1..(i - 1) : Below(i, o)' /\ visit_stack'[i].vertex \in children'[visit_stack'[o].vertex]
  <2> SUFFICES ASSUME i # 1 PROVE \E o \in 1..(i - 1) : Below(i, o)' /\ visit_stack'[i].vertex \in children'[visit_stack'[o].vertex]
    OBVIOUS
  <2>1. PICK o \in 1..(i - 1) : Below(i, o) /\ visit_stack[i].vertex \in children[visit_stack[o].vertex]
    BY <1>1 DEF TaskFits
  <2>2. Below(i, o)'
    BY <1>3, <2>1 DEF Below
  <2>3. QED
    BY <1>2, <2>1, <2>2 DEF KeepsLower
<1>9. i = 1 => visit_stack'[1].vertex = Entry /\ Opened(1)'
  <2> SUFFICES ASSUME i = 1 PROVE visit_stack'[1].vertex = Entry /\ Opened(1)'
    OBVIOUS
  <2>1. visit_stack[1].vertex = Entry /\ Opened(1)
    BY <1>1 DEF TaskFits
  <2>2. QED
    BY <1>2, <1>3, <2>1
<1>10. TaskFits(i)'
  <2> DEFINE t == visit_stack'[i]
  <2>1. t = visit_stack[i]
    BY <1>2
  <2>2. t.type = "StartVisit" => t.vertex \in OnStack' /\ head_dfn'[t.vertex] = 0
    BY <1>5, <2>1 DEF KeepsLower
  <2>3. t.type = "ContinueVisit" => parent'[t.vertex] = t.in
    BY <1>1, <1>6, <2>1 DEF KeepsLower, TaskFits
  <2>4. IF i = 1 THEN t.vertex = Entry /\ (Opened(1)' \/ (Len(visit_stack') = 1 /\ dfn'[Entry] = 0))
        ELSE \E o \in 1..(i - 1) : Below(i, o)' /\ t.vertex \in children'[visit_stack'[o].vertex]
    BY <1>8, <1>9
  <2> HIDE DEF t
  <2>5. QED
    BY <1>4, <2>2, <2>3, <2>4 DEF TaskFits, t
<1>11. QED
  BY <1>3, <1>7, <1>10

(* Popping a task.                                                         *)
LEMMA PopNested ==
    ASSUME TypeInv, TasksNested, KeepsLower, visit_stack # <<>>, visit_stack' = Front(visit_stack)
    PROVE  TasksNested'
<1> DEFINE n == Len(visit_stack)
<1>1. n \in Nat \ {0} /\ Len(visit_stack') = n - 1 /\ \A i \in 1..(n - 1) : visit_stack'[i] = visit_stack[i]
  BY AfterPop
<1>2. ASSUME NEW i \in 1..(n - 1)
      PROVE  TaskFits(i)' /\ (Opened(i) => NumberOf(visit_stack[i])' = NumberOf(visit_stack[i]))
                          /\ (Opened(i)' <=> Opened(i))
  BY <1>1, KeptFits
<1>3. ASSUME NEW i \in 1..(n - 1), NEW j \in 1..(n - 1), Opened(i)', Opened(j)', i < j
      PROVE  NumberOf(visit_stack[i])' < NumberOf(visit_stack[j])'
  <2>1. i \in 1..n /\ j \in 1..n
    BY <1>1
  <2>2. QED
    BY <1>2, <1>3, <2>1 DEF TasksNested
<1>4. QED
  BY <1>1, <1>2, <1>3 DEF TasksNested

(* Putting a begun task and the tasks of successors for the one on top.    *)
LEMMA PushNested ==
    ASSUME TypeInv, TasksNested, KeepsLower, visit_stack # <<>>, NEW old, old = Last(visit_stack),
           NEW new \in Task, new.vertex = old.vertex, new.in = old.in, new.type # "PushSuccessors",
           NEW S \in SUBSET Labels, S \subseteq children[new.vertex],
           NEW in \in Cycles, in = IF new.type = "ContinueVisit" THEN new.vertex ELSE new.in,
           Pushes(new, S, in),
           new.type = "StartVisit" => new.vertex \in OnStack' /\ head_dfn'[new.vertex] = 0,
           new.type = "ContinueVisit" => parent'[new.vertex] = new.in,
           \A i \in 1..(Len(visit_stack) - 1) : Opened(i) => NumberOf(visit_stack[i]) < NumberOf(new)'
    PROVE  TasksNested'
<1> DEFINE m == Len(visit_stack')
<1>0. Pushed(new, S, in)
  BY AfterPush
<1>n. PICK n \in Nat : n = Len(visit_stack)
  BY DEF TypeInv, TasksOK
<1>1. /\ n \in Nat \ {0} /\ m \in Nat /\ n <= m
      /\ \A i \in 1..(n - 1) : visit_stack'[i] = visit_stack[i]
      /\ visit_stack'[n] = new
      /\ \A i \in (n + 1)..m : visit_stack'[i].type = "PushSuccessors" /\ visit_stack'[i].in = in
                               /\ visit_stack'[i].vertex \in S
  BY <1>0, <1>n DEF Pushed
<1>2. ASSUME NEW i \in 1..(n - 1)
      PROVE  TaskFits(i)' /\ (Opened(i) => NumberOf(visit_stack[i])' = NumberOf(visit_stack[i]))
                          /\ (Opened(i)' <=> Opened(i))
  <2>1. Len(visit_stack') \in Nat /\ n - 1 <= Len(visit_stack')
    BY <1>1
  <2>2. QED
    BY <1>n, <1>1, <2>1, KeptFits
<1>3. visit_stack[n] = old /\ n \in 1..n /\ TaskFits(n)
  BY <1>1, <1>n DEF Last, TasksNested
<1> HIDE DEF m
<1>4. Opened(n)' /\ \A i \in (n + 1)..m : ~ Opened(i)'
  BY <1>1 DEF Opened
<1>5. InnermostAt(n)'
  <2>1. InnermostAt(n) /\ visit_stack'[n].in = visit_stack[n].in
    BY <1>1, <1>3 DEF TaskFits
  <2>2. \A j \in 1..(n - 1) : visit_stack'[j] = visit_stack[j]
    BY <1>1
  <2>3. \A j \in 1..(n - 1) : \A k \in (j + 1)..(n - 1) : k \in 1..(n - 1)
    BY <1>1
  <2>4. QED
    BY <2>1, <2>2, <2>3 DEF InnermostAt
<1>6. n # 1 => \E o \in 1..(n - 1) : Below(n, o)' /\ visit_stack'[n].vertex \in children'[visit_stack'[o].vertex]
  <2> SUFFICES ASSUME n # 1 PROVE \E o \in 1..(n - 1) : Below(n, o)' /\ visit_stack'[n].vertex \in children'[visit_stack'[o].vertex]
    OBVIOUS
  <2>1. PICK o \in 1..(n - 1) : Below(n, o) /\ visit_stack[n].vertex \in children[visit_stack[o].vertex]
    BY <1>3 DEF TaskFits
  <2>2. \A j \in (o + 1)..(n - 1) : j \in 1..(n - 1)
    BY <1>1
  <2>3. Below(n, o)'
    BY <1>2, <2>1, <2>2 DEF Below
  <2>4. QED
    BY <1>1, <1>3, <2>1, <2>3 DEF KeepsLower
<1>7. TaskFits(n)'
  <2>1. n = 1 => visit_stack'[n].vertex = Entry
    BY <1>1, <1>3 DEF TaskFits
  <2>2. QED
    BY <1>1, <1>4, <1>5, <1>6, <2>1 DEF TaskFits
<1>8. ASSUME NEW i \in (n + 1)..m PROVE TaskFits(i)'
  <2>1. i \in Nat /\ i # 1 /\ n \in 1..(i - 1) /\ i <= m
    BY <1>1
  <2>2. Below(i, n)'
    <3>1. \A j \in (n + 1)..(i - 1) : j \in (n + 1)..m
      BY <1>1, <2>1
    <3>2. QED
      BY <1>4, <2>1, <3>1 DEF Below
  <2>3. visit_stack'[i].vertex \in children'[visit_stack'[n].vertex]
    BY <1>1 DEF KeepsLower
  <2>4. InnermostAt(i)'
    <3>1. \A k \in (n + 1)..(i - 1) : visit_stack'[k].type # "ContinueVisit"
      <4>1. \A k \in (n + 1)..(i - 1) : k \in (n + 1)..m
        BY <1>1, <2>1
      <4>2. QED
        BY <1>1, <4>1
    <3>2. CASE new.type = "ContinueVisit"
      BY <1>1, <2>1, <3>1, <3>2 DEF InnermostAt
    <3>3. CASE new.type # "ContinueVisit"
      <4>1. visit_stack'[i].in = visit_stack'[n].in
        BY <1>1, <3>3
      <4>2. \A k \in 1..(i - 1) : k \in 1..(n - 1) \/ k = n \/ k \in (n + 1)..(i - 1)
        BY <1>1, <2>1
      <4>3. CASE visit_stack'[n].in = Root /\ \A j \in 1..(n - 1) : visit_stack'[j].type # "ContinueVisit"
        BY <1>1, <3>1, <3>3, <4>1, <4>2, <4>3 DEF InnermostAt
      <4>4. CASE \E j \in 1..(n - 1) :
                    /\ visit_stack'[j].type = "ContinueVisit" /\ visit_stack'[j].vertex = visit_stack'[n].in
                    /\ \A k \in (j + 1)..(n - 1) : visit_stack'[k].type # "ContinueVisit"
        <5>1. PICK j \in 1..(n - 1) :
                    /\ visit_stack'[j].type = "ContinueVisit" /\ visit_stack'[j].vertex = visit_stack'[n].in
                    /\ \A k \in (j + 1)..(n - 1) : visit_stack'[k].type # "ContinueVisit"
          BY <4>4
        <5>2. j \in 1..(i - 1)
          BY <1>1, <2>1
        <5>3. \A k \in (j + 1)..(i - 1) : k \in (j + 1)..(n - 1) \/ k = n \/ k \in (n + 1)..(i - 1)
          BY <1>1, <2>1
        <5>4. \A k \in (j + 1)..(i - 1) : visit_stack'[k].type # "ContinueVisit"
          BY <1>1, <3>1, <3>3, <5>1, <5>3
        <5>5. QED
          BY <4>1, <5>1, <5>2, <5>4 DEF InnermostAt
      <4>5. QED
        BY <1>5, <4>3, <4>4 DEF InnermostAt
    <3>4. QED
      BY <3>2, <3>3
  <2>5. QED
    BY <1>1, <2>1, <2>2, <2>3, <2>4 DEF TaskFits
<1>9. \A i \in 1..m : i \in 1..(n - 1) \/ i = n \/ i \in (n + 1)..m
  BY <1>1
<1>10. \A i \in 1..m : TaskFits(i)'
  BY <1>2, <1>7, <1>8, <1>9
<1>11. ASSUME NEW i \in 1..m, NEW j \in 1..m, Opened(i)', Opened(j)', i < j
       PROVE  NumberOf(visit_stack[i])' < NumberOf(visit_stack[j])'
  <2>1. i \in 1..(n - 1) /\ (j \in 1..(n - 1) \/ j = n)
    BY <1>1, <1>4, <1>9, <1>11
  <2>2. i \in 1..n /\ (j \in 1..(n - 1) => j \in 1..n)
    BY <1>1, <2>1
  <2>3. CASE j \in 1..(n - 1)
    BY <1>n, <1>2, <1>11, <2>1, <2>2, <2>3 DEF TasksNested
  <2>4. CASE j = n
    BY <1>n, <1>1, <1>2, <1>11, <2>1, <2>4
  <2>5. QED
    BY <2>1, <2>3, <2>4
<1>12. QED
  BY <1>10, <1>11 DEF TasksNested, m

-----------------------------------------------------------------------------
(* push_successors *)

(* A vertex whose visit is begun is on the stack, its head not yet known.  *)
LEMMA StartedFacts ==
    ASSUME TypeInv, Numbered, TasksNested
    PROVE  /\ \A u \in Started : u \in OnStack /\ head_dfn[u] = 0
           /\ Started \cap Active = {} /\ OnStack \cap CycleHeads = {} /\ OnStack \subseteq Labels
<1>1. \A u \in Started : u \in OnStack /\ head_dfn[u] = 0
  BY DEF Started, VerticesOf, TasksNested, TaskFits
<1>2. OnStack \cap CycleHeads = {} /\ OnStack \subseteq Labels
  BY StackFacts
<1>3. QED
  BY <1>1, <1>2, ActiveHeads

(* Cycles being visited have different numbers.                            *)
LEMMA ActiveDistinct ==
    ASSUME TypeInv, TasksNested, NEW c \in Active, NEW d \in Active, head_dfn[c] = head_dfn[d]
    PROVE  c = d
<1> DEFINE n == Len(visit_stack)
<1>1. PICK i \in 1..n : visit_stack[i].vertex = c /\ visit_stack[i].type = "ContinueVisit"
  BY DEF Active, VerticesOf
<1>2. PICK j \in 1..n : visit_stack[j].vertex = d /\ visit_stack[j].type = "ContinueVisit"
  BY DEF Active, VerticesOf
<1>3. NumberOf(visit_stack[i]) = head_dfn[c] /\ NumberOf(visit_stack[j]) = head_dfn[d] /\ Opened(i) /\ Opened(j)
  BY <1>1, <1>2 DEF NumberOf, Opened
<1>4. head_dfn[c] \in Nat /\ n \in Nat
  BY ActiveHeads DEF TypeInv, TypeOK, TasksOK
<1>5. ~ (i < j) /\ ~ (j < i)
  BY <1>3, <1>4 DEF TasksNested
<1>6. QED
  BY <1>1, <1>2, <1>4, <1>5

(* The vertex x is the last begun or continued.                            *)
LastBegun(x) ==
    \/ /\ x \in Started
       /\ \A u \in Started : dfn[u] <= dfn[x]
       /\ \A c \in Active : head_dfn[c] < dfn[x]
    \/ /\ x \in Active
       /\ \A u \in Started : dfn[u] < head_dfn[x]
       /\ \A c \in Active : c = x \/ head_dfn[c] < head_dfn[x]

(* A task to push a vertex is for a successor of the last begun.           *)
LEMMA OwnerOfTop ==
    ASSUME TypeInv, Numbered, TasksNested, NEW task, Popping("PushSuccessors", task)
    PROVE  \/ /\ task.vertex = Entry /\ Len(visit_stack) = 1 /\ dfn[Entry] = 0
              /\ Started = {} /\ Active = {}
           \/ \E x \in Labels : task.vertex \in children[x] /\ LastBegun(x)
<1> DEFINE n == Len(visit_stack)
<1>1. n \in Nat \ {0} /\ n \in 1..n /\ task = visit_stack[n] /\ task.type = "PushSuccessors"
  BY TopIs
<1>2. TaskFits(n) /\ ~ Opened(n)
  BY <1>1 DEF TasksNested, Opened
<1>3. CASE n = 1
  <2>1. task.vertex = Entry /\ dfn[Entry] = 0
    BY <1>1, <1>2, <1>3 DEF TaskFits
  <2>2. \A i \in 1..n : i = 1
    BY <1>3
  <2>3. Started = {} /\ Active = {}
    BY <1>1, <1>3, <2>2 DEF Started, Active, VerticesOf
  <2>4. QED
    BY <1>3, <2>1, <2>3
<1>4. CASE n # 1
  <2>1. PICK o \in 1..(n - 1) : Below(n, o) /\ task.vertex \in children[visit_stack[o].vertex]
    BY <1>1, <1>2, <1>4 DEF TaskFits
  <2> DEFINE x == visit_stack[o].vertex
             at == visit_stack[o]
  <2>2. o \in 1..n /\ o < n /\ Opened(o) /\ \A j \in (o + 1)..(n - 1) : ~ Opened(j)
    BY <1>1, <2>1 DEF Below
  <2>3. \A j \in 1..n : Opened(j) => j = o \/ j < o
    <3>1. \A j \in 1..n : j = o \/ j < o \/ j \in (o + 1)..(n - 1) \/ j = n
      BY <1>1, <2>1
    <3>2. QED
      BY <1>2, <2>2, <3>1
  <2>4. \A j \in 1..n : Opened(j) => j = o \/ NumberOf(visit_stack[j]) < NumberOf(at)
    BY <2>2, <2>3 DEF TasksNested
  <2>5. at \in Task /\ x \in Labels
    <3>1. at \in Task
      BY <2>2 DEF TypeInv, TasksOK
    <3>2. QED
      BY <3>1 DEF Task
  <2>6. ASSUME NEW u \in Started
        PROVE  \E j \in 1..n : visit_stack[j].vertex = u /\ visit_stack[j].type = "StartVisit" /\ Opened(j)
                               /\ NumberOf(visit_stack[j]) = dfn[u]
    BY DEF Started, VerticesOf, Opened, NumberOf
  <2>7. ASSUME NEW c \in Active
        PROVE  \E j \in 1..n : visit_stack[j].vertex = c /\ visit_stack[j].type = "ContinueVisit" /\ Opened(j)
                               /\ NumberOf(visit_stack[j]) = head_dfn[c]
    BY DEF Active, VerticesOf, Opened, NumberOf
  <2>8. at.type = "StartVisit" \/ at.type = "ContinueVisit"
    BY <2>2, <2>5 DEF Opened, Task
  <2>9. dfn[x] \in Nat /\ head_dfn[x] \in Nat
    BY <2>5 DEF TypeInv, TypeOK
  <2>10. CASE at.type = "StartVisit"
    <3>1. x \in Started /\ NumberOf(at) = dfn[x]
      BY <2>2, <2>10 DEF Started, VerticesOf, NumberOf
    <3>2. ASSUME NEW u \in Started PROVE dfn[u] <= dfn[x]
      <4>1. PICK j \in 1..n : visit_stack[j].vertex = u /\ Opened(j) /\ NumberOf(visit_stack[j]) = dfn[u]
        BY <2>6
      <4>2. j = o => u = x
        BY <4>1
      <4>3. dfn[u] \in Nat
        BY StartedFacts, StackFacts
      <4>4. j = o \/ dfn[u] < dfn[x]
        BY <2>4, <3>1, <4>1
      <4>5. QED
        BY <2>9, <4>2, <4>3, <4>4
    <3>3. \A c \in Active : head_dfn[c] < dfn[x]
      BY <2>4, <2>7, <2>10, <3>1
    <3>4. QED
      BY <2>1, <2>5, <3>1, <3>2, <3>3 DEF LastBegun
  <2>11. CASE at.type = "ContinueVisit"
    <3>1. x \in Active /\ NumberOf(at) = head_dfn[x]
      BY <2>2, <2>11 DEF Active, VerticesOf, NumberOf
    <3>2. \A u \in Started : dfn[u] < head_dfn[x]
      BY <2>4, <2>6, <2>11, <3>1
    <3>3. \A c \in Active : c = x \/ head_dfn[c] < head_dfn[x]
      BY <2>4, <2>7, <3>1
    <3>4. QED
      BY <2>1, <2>5, <3>1, <3>2, <3>3 DEF LastBegun
  <2>12. QED
    BY <2>8, <2>10, <2>11
<1>5. QED
  BY <1>3, <1>4

(* Where the top of the stack is popped, so are its places in Coming.      *)
LEMMA PopComing ==
    ASSUME TypeInv, NEW type, NEW task, Popping(type, task), visit_stack' = Front(visit_stack),
           NEW x, NEW s,
           Waiting(x, s)
    PROVE  \/ type = "PushSuccessors" /\ s = task.vertex
           \/ Waiting(x, s)'
<1> DEFINE n == Len(visit_stack)
           m == Len(visit_stack')
<1>1. PICK i \in 1..n, j \in 1..n : /\ i < j /\ Opened(i) /\ visit_stack[i].vertex = x
                                    /\ ~ Opened(j) /\ visit_stack[j].vertex = s
  BY DEF Waiting
<1>2. n \in Nat \ {0} /\ m = n - 1 /\ \A k \in 1..m : visit_stack'[k] = visit_stack[k]
  BY AfterPop DEF Popping
<1>3. task = visit_stack[n] /\ task.type = type
  BY TopIs
<1>4. CASE j = n
  BY <1>1, <1>3, <1>4 DEF Opened
<1>5. CASE j # n
  <2>1. i \in 1..m /\ j \in 1..m
    <3> HIDE DEF n, m
    <3>1. QED
      BY <1>1, <1>2, <1>5
  <2>2. (Opened(i)' <=> Opened(i)) /\ (Opened(j)' <=> Opened(j))
    BY <1>2, <2>1 DEF Opened
  <2>3. QED
    BY <1>1, <1>2, <2>1, <2>2 DEF Waiting
<1>6. QED
  BY <1>4, <1>5

(* The tasks that replace the top are there for the vertex they begin.     *)
LEMMA PushComing ==
    ASSUME TypeInv, NEW old, NEW task, Popping(old, task),
           NEW S \in SUBSET Labels, NEW in \in Cycles, NEW new \in Task, new.type # "PushSuccessors",
           Pushes(new, S, in), NEW x, NEW s,
           \/ x = new.vertex /\ s \in S
           \/ Waiting(x, s)
    PROVE  \/ old = "PushSuccessors" /\ s = task.vertex
           \/ Waiting(x, s)'
<1> DEFINE m == Len(visit_stack')
<1>0. Pushed(new, S, in)
  BY AfterPush DEF Popping
<1>n. PICK n \in Nat : n = Len(visit_stack)
  BY DEF TypeInv, TasksOK
<1>1. /\ n \in Nat \ {0} /\ m \in Nat /\ n <= m
      /\ \A i \in 1..(n - 1) : visit_stack'[i] = visit_stack[i]
      /\ visit_stack'[n] = new
      /\ \A i \in (n + 1)..m : visit_stack'[i].type = "PushSuccessors"
  BY <1>0, <1>n DEF Pushed
<1>2. task = visit_stack[n] /\ task.type = old
  BY <1>n, TopIs
<1>3. CASE x = new.vertex /\ s \in S
  <2>1. PICK j \in (n + 1)..m : visit_stack'[j].vertex = s
    BY <1>0, <1>n, <1>3 DEF Pushed, AtSuccessor
  <2>2. n \in 1..m /\ j \in 1..m /\ n < j
    BY <1>1, <2>1
  <2>3. Opened(n)' /\ ~ Opened(j)' /\ visit_stack'[n].vertex = x
    BY <1>1, <1>3 DEF Opened
  <2>4. QED
    BY <2>1, <2>2, <2>3 DEF Waiting
<1>4. CASE Waiting(x, s)
  <2>1. PICK i \in 1..n, j \in 1..n : /\ i < j /\ Opened(i) /\ visit_stack[i].vertex = x
                                      /\ ~ Opened(j) /\ visit_stack[j].vertex = s
    BY <1>n, <1>4 DEF Waiting
  <2>2. CASE j = n
    BY <1>2, <2>1, <2>2 DEF Opened
  <2>3. CASE j # n
    <3>1. i \in 1..(n - 1) /\ j \in 1..(n - 1) /\ i \in 1..m /\ j \in 1..m
      BY <1>1, <2>1, <2>3
    <3>2. (Opened(i)' <=> Opened(i)) /\ (Opened(j)' <=> Opened(j))
      BY <1>1, <3>1 DEF Opened
    <3>3. QED
      BY <1>1, <2>1, <3>1, <3>2 DEF Waiting
  <2>4. QED
    BY <2>2, <2>3
<1>5. QED
  BY <1>n, <1>3, <1>4

(* The partitions and the graph make PartsOK.                              *)
LEMMA PartsKept ==
    ASSUME NEW G, PartsOK(G), children' = children, components' = components
    PROVE  PartsOK(G)'
<1>1. \A c, i, j, from, to : PartFits(c, i, j, from, to, G)' <=> PartFits(c, i, j, from, to, G)
  BY DEF PartFits, Inside, Whole
<1>2. QED
  BY <1>1 DEF PartsOK

(* What a step that only pops a task to push leaves alone.                 *)
LEMMA PushVisitedOrder ==
    ASSUME NEW G, OrderInv(G), NEW task, PushVisited(task)
    PROVE  OrderInv(G)'
<1>1. /\ Popping("PushSuccessors", task) /\ dfn[task.vertex] # 0 /\ visit_stack' = Front(visit_stack)
      /\ UNCHANGED <<children, dfn, head_dfn, num, stack, components, parent>>
  BY DEF PushVisited
<1>2. TypeInv /\ Numbered /\ TasksNested /\ visit_stack # <<>>
  BY <1>1 DEF OrderInv, Popping
<1>3. Started' = Started /\ Active' = Active
  BY <1>1, <1>2, TopSets, PoppedSets
<1>4. Started = LowerOf("StartVisit") /\ Active = LowerOf("ContinueVisit")
  BY <1>1, <1>2, TopSets
<1>5. OnStack' = OnStack /\ Growing' = Growing /\ CycleHeads' = CycleHeads
  BY <1>1, <1>3 DEF OnStack, Growing, CycleHeads
<1>6. TypeInv'
  BY <1>2, PushVisitedTyped
<1>7. Numbered'
  BY <1>1, <1>5, <1>2 DEF Numbered
<1>8. TasksNested'
  <2>1. \A u \in Started : u \in OnStack /\ head_dfn[u] = 0
    BY <1>2 DEF Started, VerticesOf, TasksNested, TaskFits
  <2>2. KeepsLower
    BY <1>1, <1>4, <1>5, <2>1 DEF KeepsLower
  <2>3. QED
    BY <1>1, <1>2, <2>2, PopNested
<1>9. MembersLead' /\ VisitedFrom'
  <2>1. MembersLead /\ VisitedFrom
    BY DEF OrderInv
  <2>2. \A a, b : Together(a, b)' <=> Together(a, b)
    BY <1>1, <1>3 DEF Together
  <2>3. \A x : MemberLeads(x)' <=> MemberLeads(x)
    BY <1>1, <1>5, <2>2 DEF MemberLeads
  <2>4. QED
    BY <1>1, <1>3, <1>5, <2>1, <2>2, <2>3 DEF MembersLead, VisitedFrom
<1>10. ScopesOK(G)'
  <2>1. ScopesOK(G)
    BY DEF OrderInv
  <2>2. QED
    BY <1>1, <1>3, <1>5, <2>1 DEF ScopesOK, Whole, IsPlaced
<1>11. ChildrenComing(G)'
  <2>1. ASSUME NEW x \in OnStack \cup Active PROVE Coming(x, G)'
    <3>1. Coming(x, G)
      BY <2>1 DEF OrderInv, ChildrenComing
    <3> SUFFICES ASSUME NEW s \in children[x], dfn[s] = 0
                 PROVE  \/ Waiting(x, s)'
                        \/ \E c \in Active : s \in G[c] /\ (IF x \in OnStack THEN dfn[x] ELSE head_dfn[x]) < head_dfn[c]
      BY <1>1, <1>3, <1>5 DEF Coming
    <3>2. s # task.vertex
      BY <1>1
    <3>3. CASE Waiting(x, s)
      BY <1>1, <1>2, <3>2, <3>3, PopComing
    <3>4. QED
      BY <3>1, <3>3 DEF Coming
  <2>2. QED
    BY <1>3, <1>5, <2>1 DEF ChildrenComing
<1>12. PlacedOK(G)' /\ PartsOK(G)' /\ Places'
  <2>1. PlacedOK(G) /\ PartsOK(G) /\ Places
    BY DEF OrderInv
  <2>2. \A c : Placed(c, G)' = Placed(c, G) /\ Level(c)' = Level(c)
    BY <1>1 DEF Placed, Inside, Level, Whole
  <2>3. PlacedOK(G)'
    BY <1>1, <1>3, <1>5, <2>1, <2>2 DEF PlacedOK, IsPlaced, Whole
  <2>4. PartsOK(G)'
    BY <1>1, <2>1, PartsKept
  <2>5. Places'
    BY <1>1, <1>3, <1>5, <2>1, <2>2 DEF Places, PlaceFits, HasPlace, IsPlaced
  <2>6. QED
    BY <2>3, <2>4, <2>5
<1>13. Reached'
  BY <1>1 DEF OrderInv, Reached
<1>14. EntryLast'
  <2>1. SUFFICES ASSUME visit_stack' = <<>> PROVE FALSE
    BY DEF EntryLast
  <2>2. Len(visit_stack) = 1 /\ task = visit_stack[1]
    <3>1. Len(visit_stack') = 0
      BY <2>1
    <3>2. Len(visit_stack) \in Nat /\ Len(visit_stack') = Len(visit_stack) - 1
      BY <1>1, <1>2, AfterPop
    <3>3. task = visit_stack[Len(visit_stack)]
      BY <1>1, <1>2, TopIs
    <3>4. QED
      BY <3>1, <3>2, <3>3
  <2>3. ~ Opened(1) /\ TaskFits(1)
    BY <1>1, <1>2, <2>2, TopIs DEF Opened, TasksNested
  <2>4. QED
    BY <1>1, <2>2, <2>3 DEF TaskFits
<1>15. QED
  BY <1>6, <1>7, <1>8, <1>9, <1>10, <1>11, <1>12, <1>13, <1>14 DEF OrderInv

(* The numbers given out, _num, have not reached DFN_INF.                  *)
NumbersFit == num < DFN_INF

(* A vertex is numbered, pushed, and its visit begun (push_successors).    *)
LEMMA PushSuccessorsOrder ==
    ASSUME NEW G, OrderInv(G), NEW task, push_successors(task), NumbersFit'
    PROVE  OrderInv(G)'
<1> DEFINE v == task.vertex
           S == Unvisited(children[v], dfn')
           start == MkTask("StartVisit", v, task.in)
<1>1. /\ Popping("PushSuccessors", task) /\ dfn[v] = 0 /\ num' = num + 1
      /\ dfn' = [dfn EXCEPT ![v] = num + 1] /\ stack' = Append(stack, v)
      /\ Pushes(start, S, task.in)
      /\ UNCHANGED <<children, head_dfn, components, parent, containing_cycle>>
  BY DEF push_successors, Pushes
<1>2. TypeInv /\ Numbered /\ TasksNested /\ visit_stack # <<>>
  BY <1>1 DEF OrderInv, Popping
<1>3. v \in Labels /\ task.in \in Cycles /\ task = Last(visit_stack)
  BY <1>1, <1>2, TopTask DEF Popping
<1>4. /\ dfn \in [Labels -> Nat] /\ num \in Nat /\ head_dfn \in [Labels -> Nat] /\ stack \in Seq(Labels)
      /\ children \in [Labels -> SUBSET Labels]
  BY <1>2 DEF TypeInv, TypeOK
<1>5. dfn' \in [Labels -> Nat] /\ dfn'[v] = num + 1 /\ num + 1 < DFN_INF /\ \A u \in Labels : u # v => dfn'[u] = dfn[u]
  BY <1>1, <1>3, <1>4 DEF NumbersFit
<1>6. S \in SUBSET Labels /\ S \subseteq children[v] /\ \A s \in children[v] : dfn'[s] = 0 => s \in S
  BY <1>3, <1>4 DEF Unvisited
<1>7. start \in Task /\ start.vertex = v /\ start.in = task.in /\ start.type = "StartVisit"
  BY <1>3 DEF start, MkTask, Task
<1> HIDE DEF S, start
<1>8. Started' = Started \cup {v} /\ Active' = Active
      /\ Started = LowerOf("StartVisit") /\ Active = LowerOf("ContinueVisit")
  BY <1>1, <1>2, <1>3, <1>6, <1>7, TopSets, PushedSets
<1>9. v \notin OnStack /\ OnStack' = OnStack \cup {v} /\ v \notin CycleHeads
  <2>1. v \notin OnStack
    BY <1>1, <1>2, StackFacts
  <2>2. v \notin CycleHeads
    BY <1>1, <1>2, HeadFacts, InfinityFacts
  <2>3. Len(stack) \in Nat /\ Len(stack') = Len(stack) + 1 /\ stack'[Len(stack) + 1] = v
        /\ \A i \in 1..Len(stack) : stack'[i] = stack[i]
    BY <1>1, <1>3, <1>4
  <2>4. OnStack' = OnStack \cup {v}
    <3>1. \A i \in 1..Len(stack') : i \in 1..Len(stack) \/ i = Len(stack) + 1
      BY <2>3
    <3>2. \A i \in 1..Len(stack) : i \in 1..Len(stack')
      BY <2>3
    <3>3. Len(stack) + 1 \in 1..Len(stack')
      BY <2>3
    <3>4. QED
      BY <2>3, <3>1, <3>2, <3>3 DEF OnStack
  <2>5. QED
    BY <2>1, <2>2, <2>4
<1>10. /\ \A x \in OnStack : x # v /\ x \in Labels /\ dfn'[x] = dfn[x] /\ dfn[x] <= num
       /\ \A c \in CycleHeads : c # v /\ dfn'[c] = dfn[c] /\ head_dfn[c] <= num /\ head_dfn[c] \in Nat
       /\ Active \subseteq CycleHeads /\ Started \subseteq OnStack /\ CycleHeads \subseteq Labels
       /\ Growing' = Growing /\ CycleHeads' = CycleHeads
  <2>1. Started \subseteq OnStack
    BY <1>2 DEF Started, VerticesOf, TasksNested, TaskFits
  <2>2. \A x \in OnStack : x # v /\ x \in Labels /\ dfn'[x] = dfn[x] /\ dfn[x] <= num
    BY <1>2, <1>5, <1>9, StackFacts
  <2>3. \A c \in CycleHeads : c # v /\ dfn'[c] = dfn[c] /\ head_dfn[c] <= num /\ head_dfn[c] \in Nat
    BY <1>2, <1>5, <1>9, HeadFacts, ActiveHeads
  <2>4. QED
    BY <1>1, <1>2, <1>8, <2>1, <2>2, <2>3, ActiveHeads DEF Growing, CycleHeads
<1>11. TypeInv'
  BY <1>2, PushSuccessorsTyped
<1>12. Numbered'
  <2>1. \A u \in Labels : /\ dfn'[u] # DFN_INF => dfn'[u] <= num'
                          /\ dfn'[u] = 0 => head_dfn'[u] = 0
    BY <1>1, <1>2, <1>4, <1>5 DEF Numbered
  <2>2. ASSUME NEW i \in 1..Len(stack'), NEW j \in 1..Len(stack'), i < j
        PROVE  dfn'[stack'[i]] < dfn'[stack'[j]]
    <3>1. Len(stack) \in Nat /\ Len(stack') = Len(stack) + 1 /\ stack'[Len(stack) + 1] = v
          /\ \A k \in 1..Len(stack) : stack'[k] = stack[k] /\ stack[k] \in OnStack
      BY <1>1, <1>3, <1>4 DEF OnStack
    <3>2. i \in 1..Len(stack)
      BY <2>2, <3>1
    <3>3. CASE j = Len(stack) + 1
      <4>1. stack[i] \in OnStack /\ stack'[i] = stack[i]
        BY <3>1, <3>2
      <4>2. dfn'[stack'[i]] <= num /\ dfn'[stack'[i]] \in Nat
        BY <1>4, <1>10, <4>1
      <4>3. dfn'[stack'[j]] = num + 1
        BY <1>5, <3>1, <3>3
      <4>4. QED
        BY <1>4, <4>2, <4>3
    <3>4. CASE j # Len(stack) + 1
      <4>1. j \in 1..Len(stack)
        BY <3>1, <3>4
      <4>2. dfn[stack[i]] < dfn[stack[j]]
        BY <1>2, <2>2, <3>2, <4>1 DEF Numbered
      <4>3. QED
        BY <1>10, <3>1, <3>2, <4>1, <4>2
    <3>5. QED
      BY <3>3, <3>4
  <2>3. OnStack' = {u \in Labels : dfn'[u] \notin {0, DFN_INF}}
    <3>1. OnStack = {u \in Labels : dfn[u] \notin {0, DFN_INF}}
      BY <1>2 DEF Numbered
    <3>2. dfn'[v] \notin {0, DFN_INF}
      BY <1>4, <1>5, InfinityFacts
    <3>3. QED
      BY <1>3, <1>5, <1>9, <3>1, <3>2
  <2>4. \A c \in CycleHeads : dfn'[c] = DFN_INF /\ 0 < head_dfn[c] /\ head_dfn[c] <= num'
    BY <1>1, <1>2, <1>4, <1>10 DEF Numbered
  <2>5. QED
    BY <1>1, <1>10, <2>1, <2>2, <2>3, <2>4 DEF Numbered
<1>13. TasksNested'
  <2>1. \A u \in Started : head_dfn[u] = 0
    BY <1>2 DEF Started, VerticesOf, TasksNested, TaskFits
  <2>2. KeepsLower
    BY <1>1, <1>8, <1>9, <1>10, <2>1 DEF KeepsLower
  <2>3. NumberOf(start)' = num + 1
    BY <1>5, <1>7 DEF NumberOf
  <2>4. ASSUME NEW i \in 1..(Len(visit_stack) - 1), Opened(i) PROVE NumberOf(visit_stack[i]) < NumberOf(start)'
    <3>1. visit_stack[i].type = "StartVisit" \/ visit_stack[i].type = "ContinueVisit"
      <4>1. i \in 1..Len(visit_stack)
        BY <1>2 DEF TypeInv, TypeOK
      <4>2. visit_stack[i] \in Task
        BY <1>2, <4>1 DEF TypeInv, TasksOK
      <4>3. QED
        BY <2>4, <4>2 DEF Task, Opened
    <3>2. CASE visit_stack[i].type = "StartVisit"
      <4>1. visit_stack[i].vertex \in OnStack
        BY <1>8, <1>10, <3>2 DEF LowerOf
      <4>2. dfn[visit_stack[i].vertex] <= num /\ dfn[visit_stack[i].vertex] \in Nat
        BY <1>4, <1>10, <4>1
      <4>3. QED
        BY <1>4, <2>3, <3>2, <4>2 DEF NumberOf
    <3>3. CASE visit_stack[i].type = "ContinueVisit"
      <4>1. visit_stack[i].vertex \in CycleHeads
        BY <1>8, <1>10, <3>3 DEF LowerOf
      <4>2. head_dfn[visit_stack[i].vertex] <= num /\ head_dfn[visit_stack[i].vertex] \in Nat
        BY <1>10, <4>1
      <4>3. QED
        BY <1>4, <2>3, <3>3, <4>2 DEF NumberOf
    <3>4. QED
      BY <3>1, <3>2, <3>3
  <2>5. head_dfn'[v] = 0 /\ v \in OnStack'
    BY <1>1, <1>2, <1>3, <1>9 DEF Numbered
  <2>6. QED
    BY <1>1, <1>2, <1>3, <1>6, <1>7, <2>2, <2>4, <2>5, PushNested
<1>14. \A a, b : Together(a, b)' <=> Together(a, b)
  BY <1>1, <1>8 DEF Together
<1>15. MembersLead'
  <2>1. ASSUME NEW x \in OnStack, head_dfn[x] # 0 PROVE MemberLeads(x)'
    <3>1. MemberLeads(x)
      BY <2>1 DEF OrderInv, MembersLead
    <3>2. PICK y \in OnStack : dfn[y] = head_dfn[x] /\ dfn[y] < dfn[x] /\ Together(dfn[y], dfn[x])
      BY <3>1 DEF MemberLeads
    <3>3. dfn'[x] = dfn[x] /\ dfn'[y] = dfn[y] /\ y \in OnStack' /\ dfn[y] <= num /\ children[x] \subseteq Labels
      BY <1>4, <1>9, <1>10
    <3>4. \A w \in children[x] : dfn'[w] # 0 => head_dfn[x] <= dfn'[w]
      <4>1. \A w \in children[x] : dfn[w] # 0 => head_dfn[x] <= dfn[w]
        BY <3>1 DEF MemberLeads
      <4>2. head_dfn[x] <= num + 1
        <5>1. dfn[y] \in Nat
          BY <1>2, <3>2, StackFacts
        <5>2. QED
          BY <1>4, <3>2, <3>3, <5>1
      <4>3. QED
        BY <1>5, <3>3, <4>1, <4>2
    <3>5. Together(dfn[y], dfn[x])'
      BY <1>1, <1>8, <3>2, <3>3 DEF Together
    <3>6. dfn'[y] = head_dfn'[x] /\ dfn'[y] < dfn'[x]
      BY <1>1, <3>2, <3>3
    <3>7. QED
      BY <1>1, <3>3, <3>4, <3>5, <3>6 DEF MemberLeads
  <2>2. \A x \in OnStack : head_dfn[x] = 0 => x \in Started
    BY DEF OrderInv, MembersLead
  <2>3. head_dfn[v] = 0
    BY <1>1, <1>2, <1>3 DEF Numbered
  <2>4. QED
    BY <1>1, <1>8, <1>9, <2>1, <2>2, <2>3 DEF MembersLead
<1>16. \/ v = Entry /\ Started = {} /\ Active = {}
       \/ \E o \in Labels : v \in children[o] /\ LastBegun(o)
  BY <1>1, <1>2, OwnerOfTop
<1>17. VisitedFrom'
  <2>1. ASSUME NEW x \in OnStack', NEW u \in Started', dfn'[u] < dfn'[x], Together(dfn'[u], dfn'[x])
        PROVE  \E t \in OnStack' :
                 /\ dfn'[u] <= dfn'[t] /\ dfn'[t] < dfn'[x] /\ x \in children[t]
                 /\ t \in Started' \/ (x \notin Started' /\ head_dfn[t] <= head_dfn[x])
    <3>1. u \in Started /\ u \in OnStack /\ dfn'[u] = dfn[u] /\ dfn[u] <= num /\ dfn[u] \in Nat
      <4>1. dfn'[x] <= num + 1 /\ dfn'[x] \in Nat
        BY <1>4, <1>5, <1>9, <1>10, <2>1
      <4>2. u # v
        BY <1>4, <1>5, <2>1, <4>1
      <4>3. QED
        BY <1>4, <1>8, <1>10, <4>2
    <3>2. CASE x = v
      <4>1. PICK o \in Labels : v \in children[o] /\ LastBegun(o)
        BY <1>16, <3>1
      <4>2. CASE o \in Started
        <5>1. o \in OnStack /\ dfn'[o] = dfn[o] /\ dfn[o] <= num /\ dfn[o] \in Nat /\ o \notin Active
          <6>1. o \in OnStack
            BY <1>10, <4>2
          <6>2. o \notin CycleHeads
            BY <1>2, <6>1, StackFacts
          <6>3. QED
            BY <1>4, <1>10, <6>1, <6>2
        <5>2. dfn[u] <= dfn[o]
          BY <3>1, <4>1, <5>1 DEF LastBegun
        <5>3. dfn[o] < num + 1
          BY <1>4, <5>1
        <5>4. QED
          BY <1>5, <1>8, <1>9, <3>1, <3>2, <4>1, <4>2, <5>1, <5>2, <5>3
      <4>3. CASE o \in Active
        <5>1. o \notin Started
          BY <1>2, <1>10, <4>3, StackFacts
        <5>2. dfn[u] < head_dfn[o]
          BY <3>1, <4>1, <5>1 DEF LastBegun
        <5>3. head_dfn[o] <= num /\ head_dfn[o] \in Nat
          BY <1>10, <4>3
        <5>4. Together(dfn[u], num + 1)
          BY <1>5, <1>14, <2>1, <3>1, <3>2
        <5>5. head_dfn[o] < num + 1
          BY <1>4, <5>3
        <5>6. QED
          BY <4>3, <5>2, <5>4, <5>5 DEF Together
      <4>4. QED
        BY <4>1, <4>2, <4>3 DEF LastBegun
    <3>3. CASE x # v
      <4>1. x \in OnStack /\ dfn'[x] = dfn[x]
        BY <1>9, <1>10, <3>3
      <4>2. Together(dfn[u], dfn[x])
        BY <1>14, <2>1, <3>1, <4>1
      <4>3. PICK t \in OnStack :
                /\ dfn[u] <= dfn[t] /\ dfn[t] < dfn[x] /\ x \in children[t]
                /\ t \in Started \/ (x \notin Started /\ head_dfn[t] <= head_dfn[x])
        BY <2>1, <3>1, <4>1, <4>2 DEF OrderInv, VisitedFrom
      <4>4. dfn'[t] = dfn[t] /\ t \in OnStack'
        BY <1>9, <1>10
      <4>5. QED
        BY <1>8, <3>1, <3>3, <4>1, <4>3, <4>4
    <3>4. QED
      BY <3>2, <3>3
  <2>2. \A u, x : Together(dfn[u], dfn[x])' <=> Together(dfn'[u], dfn'[x])
    BY <1>1, <1>8 DEF Together
  <2>3. QED
    BY <1>1, <2>1, <2>2 DEF VisitedFrom
<1>18. \A u \in Labels : IsPlaced(u)' <=> IsPlaced(u)
  <2>1. ~ IsPlaced(v) /\ ~ IsPlaced(v)'
    BY <1>1, <1>4, <1>5, InfinityFacts DEF IsPlaced
  <2>2. QED
    BY <1>5, <2>1 DEF IsPlaced
<1>19. \A c \in Active : v \in G[c]
  <2> SUFFICES ASSUME NEW c \in Active PROVE v \in G[c]
    OBVIOUS
  <2>1. PICK o \in Labels : v \in children[o] /\ LastBegun(o)
    BY <1>16
  <2>2. ScopesOK(G)
    BY DEF OrderInv
  <2>3. o \in Whole(c, G)
    <3>1. CASE o \in Started
      <4>1. o \in OnStack /\ o \notin Active
        BY <1>2, <1>10, <3>1, StackFacts
      <4>2. dfn[o] > head_dfn[c]
        <5>1. dfn[o] \in Nat /\ head_dfn[c] \in Nat
          BY <1>4, <1>10, <4>1
        <5>2. QED
          BY <2>1, <4>1, <5>1 DEF LastBegun
      <4>3. QED
        BY <2>2, <4>1, <4>2 DEF ScopesOK, Whole
    <3>2. CASE o \in Active
      <4>1. o \notin Started
        BY <1>2, <1>10, <3>2, StackFacts
      <4>2. c = o \/ head_dfn[c] < head_dfn[o]
        BY <2>1, <4>1 DEF LastBegun
      <4>3. QED
        BY <2>2, <3>2, <4>2 DEF ScopesOK, Whole
    <3>3. QED
      BY <2>1, <3>1, <3>2 DEF LastBegun
  <2>4. v \in Whole(c, G) \/ IsPlaced(v)
    BY <2>1, <2>2, <2>3 DEF ScopesOK
  <2>5. ~ IsPlaced(v) /\ v # c
    BY <1>1, <1>10, InfinityFacts DEF IsPlaced
  <2>6. QED
    BY <2>4, <2>5 DEF Whole
<1>20. ScopesOK(G)'
  <2>1. ScopesOK(G)
    BY DEF OrderInv
  <2>2. \A c \in Active : \A x \in OnStack' : dfn'[x] # head_dfn[c] /\ (dfn'[x] > head_dfn[c] <=> x \in G[c])
    <3>1. \A c \in Active : num + 1 > head_dfn[c] /\ num + 1 # head_dfn[c]
      BY <1>4, <1>10
    <3>2. \A c \in Active : \A x \in OnStack : dfn[x] # head_dfn[c] /\ (dfn[x] > head_dfn[c] <=> x \in G[c])
      BY <2>1 DEF ScopesOK
    <3>3. QED
      BY <1>5, <1>9, <1>10, <1>19, <3>1, <3>2
  <2>3. \A c \in Active : \A u \in Whole(c, G) : \A w \in children[u] : w \in Whole(c, G) \/ IsPlaced(w)'
    <3>1. \A c \in Active : Whole(c, G) \subseteq Labels
      BY <1>10, <2>1 DEF ScopesOK, Whole
    <3>2. \A c \in Active : \A u \in Whole(c, G) : \A w \in children[u] : w \in Whole(c, G) \/ IsPlaced(w)
      BY <2>1 DEF ScopesOK
    <3>3. QED
      BY <1>4, <1>18, <3>1, <3>2
  <2>4. QED
    BY <1>1, <1>8, <1>10, <2>1, <2>2, <2>3 DEF ScopesOK, Whole
<1>21. ChildrenComing(G)'
  <2>1. ASSUME NEW x \in OnStack' \cup Active PROVE Coming(x, G)'
    <3>0. x \in Labels
      BY <1>3, <1>9, <1>10
    <3> SUFFICES ASSUME NEW s \in children[x], dfn'[s] = 0
                 PROVE  \/ Waiting(x, s)'
                        \/ \E c \in Active : s \in G[c] /\ (IF x \in OnStack' THEN dfn'[x] ELSE head_dfn[x]) < head_dfn[c]
      BY <1>1, <1>8 DEF Coming
    <3>1. s # v /\ s \in Labels /\ dfn[s] = 0
      BY <1>4, <1>5, <3>0
    <3>2. CASE x = v
      <4>1. s \in S
        BY <1>6, <3>2
      <4>2. QED
        BY <1>1, <1>2, <1>3, <1>6, <1>7, <3>1, <3>2, <4>1, PushComing
    <3>3. CASE x # v
      <4>1. x \in OnStack \cup Active
        BY <1>9, <2>1, <3>3
      <4>2. Coming(x, G)
        BY <4>1 DEF OrderInv, ChildrenComing
      <4>3. CASE Waiting(x, s)
        BY <1>1, <1>2, <1>3, <1>6, <1>7, <3>1, <4>3, PushComing
      <4>4. (IF x \in OnStack' THEN dfn'[x] ELSE head_dfn[x]) = IF x \in OnStack THEN dfn[x] ELSE head_dfn[x]
        BY <1>9, <1>10, <3>3
      <4>5. QED
        BY <3>1, <4>2, <4>3, <4>4 DEF Coming
    <3>4. QED
      BY <3>2, <3>3
  <2>2. QED
    BY <1>8, <2>1 DEF ChildrenComing
<1>22. PlacedOK(G)' /\ PartsOK(G)' /\ Places'
  <2>1. PlacedOK(G) /\ PartsOK(G) /\ Places /\ ScopesOK(G)
    BY DEF OrderInv
  <2>2. \A c : Placed(c, G)' = Placed(c, G) /\ Level(c)' = Level(c)
    BY <1>1 DEF Placed, Inside, Level, Whole
  <2>3. PlacedOK(G)'
    <3>1. \A c \in Growing : Placed(c, G) \subseteq Labels
      <4> SUFFICES ASSUME NEW c \in Growing PROVE Placed(c, G) \subseteq Labels
        OBVIOUS
      <4>1. c \in DOMAIN components
        BY <1>2, ActiveHeads
      <4>2. \A i \in 1..Len(components[c]) : components[c][i] \in Component
        BY <1>2, <4>1 DEF TypeInv, TypeOK
      <4>3. \A i \in 1..Len(components[c]) : components[c][i].cycle => components[c][i].label \in CycleHeads
        BY <2>1, <4>1 DEF Places, PlaceFits, HasPlace
      <4>4. \A i \in 1..Len(components[c]) : Inside(components[c][i], G) \subseteq Labels
        BY <2>1, <4>2, <4>3 DEF Inside, Whole, ScopesOK, Component
      <4>5. QED
        BY <4>4 DEF Placed
    <3>2. QED
      BY <1>1, <1>4, <1>8, <1>10, <1>18, <2>1, <2>2, <3>1 DEF PlacedOK, Whole
  <2>4. PartsOK(G)'
    <3>1. children' = children /\ components' = components
      BY <1>1
    <3>2. QED
      BY <2>1, <3>1, PartsKept
  <2>5. Places'
    <3>1. \A c \in DOMAIN components : \A i \in 1..Len(components[c]) : components[c][i].label \in Labels
      <4>1. \A c \in DOMAIN components : \A i \in 1..Len(components[c]) : components[c][i] \in Component
        BY <1>2 DEF TypeInv, TypeOK
      <4>2. QED
        BY <4>1 DEF Component
    <3>2. QED
      BY <1>1, <1>8, <1>10, <1>18, <2>1, <2>2, <3>1 DEF Places, PlaceFits, HasPlace
  <2>6. QED
    BY <2>3, <2>4, <2>5
<1>23. Reached'
  <2> SUFFICES ASSUME NEW A \in SUBSET Labels, Entry \in A, \A u \in A : children[u] \subseteq A
               PROVE  \A u \in Labels : dfn'[u] # 0 => u \in A
    BY <1>1 DEF Reached
  <2>1. \A u \in Labels : dfn[u] # 0 => u \in A
    BY DEF OrderInv, Reached
  <2>2. v \in A
    <3>1. CASE v = Entry
      BY <3>1
    <3>2. CASE \E o \in Labels : v \in children[o] /\ LastBegun(o)
      <4>1. PICK o \in Labels : v \in children[o] /\ LastBegun(o)
        BY <3>2
      <4>2. o \in OnStack \/ o \in CycleHeads
        BY <1>10, <4>1 DEF LastBegun
      <4>3. dfn[o] # 0
        BY <1>2, <4>2, StackFacts, HeadFacts, InfinityFacts
      <4>4. QED
        BY <2>1, <4>1, <4>3
    <3>3. QED
      BY <1>16, <3>1, <3>2
  <2>3. QED
    BY <1>5, <2>1, <2>2
<1>24. EntryLast'
  <2>0. Pushed(start, S, task.in)
    BY <1>1, <1>2, <1>3, <1>6, <1>7, AfterPush
  <2>1. Len(visit_stack') # 0
    BY <2>0 DEF Pushed
  <2>2. QED
    BY <2>1 DEF EntryLast
<1>25. QED
  BY <1>11, <1>12, <1>13, <1>15, <1>17, <1>20, <1>21, <1>22, <1>23, <1>24 DEF OrderInv

-----------------------------------------------------------------------------

(* What stands in a partition are labels.                                  *)
LEMMA PlacedLabels ==
    ASSUME TypeInv, NEW G, ScopesOK(G), Places, NEW c \in DOMAIN components
    PROVE  /\ Placed(c, G) \subseteq Labels
           /\ \A i \in 1..Len(components[c]) : Inside(components[c][i], G) \subseteq Placed(c, G)
<1>1. \A i \in 1..Len(components[c]) : components[c][i] \in Component
  BY DEF TypeInv, TypeOK
<1>2. \A i \in 1..Len(components[c]) : components[c][i].cycle => components[c][i].label \in CycleHeads
  BY DEF Places, PlaceFits, HasPlace
<1>3. \A i \in 1..Len(components[c]) : Inside(components[c][i], G) \subseteq Labels
  BY <1>1, <1>2 DEF Inside, Whole, ScopesOK, Component
<1>4. QED
  BY <1>3 DEF Placed

(* What is in a cycle are labels.                                          *)
LEMMA WholeLabels ==
    ASSUME TypeInv, NEW G, ScopesOK(G), NEW c \in CycleHeads
    PROVE  Whole(c, G) \subseteq Labels /\ G[c] \subseteq Labels
BY ActiveHeads DEF Whole, ScopesOK

(* When a vertex is started, or a cycle continued, its successors are      *)
(* visited.                                                                *)
LEMMA TopVisited ==
    ASSUME NEW G, OrderInv(G), NEW type, NEW task, Popping(type, task), type # "PushSuccessors"
    PROVE  \A s \in children[task.vertex] : dfn[s] # 0
<1> DEFINE n == Len(visit_stack)
           x == task.vertex
<1>1. TypeInv /\ Numbered /\ TasksNested
  BY DEF OrderInv
<1>2. n \in Nat \ {0} /\ n \in 1..n /\ task = visit_stack[n] /\ task.type = type
  BY <1>1, TopIs
<1>3. task.type = "StartVisit" \/ task.type = "ContinueVisit"
  BY <1>1, TopTask, <1>2 DEF TaskOK, Task
<1>4. \A i \in 1..(n - 1) : Opened(i) => visit_stack[i].vertex # x
  <2> SUFFICES ASSUME NEW i \in 1..(n - 1), Opened(i), visit_stack[i].vertex = x PROVE FALSE
    OBVIOUS
  <2>1. i \in 1..n
    BY <1>2
  <2>2. visit_stack[i].type = "StartVisit" \/ visit_stack[i].type = "ContinueVisit"
    <3>1. visit_stack[i] \in Task
      BY <1>1, <2>1 DEF TypeInv, TasksOK
    <3>2. QED
      BY <3>1 DEF Task, Opened
  <2>3. visit_stack[i].type # type
    BY <1>1, TopOnce DEF LowerOf
  <2>4. x \in Started /\ x \in Active
    BY <1>2, <1>3, <2>1, <2>2, <2>3 DEF Started, Active, VerticesOf
  <2>5. QED
    BY <1>1, <2>4, StartedFacts
<1>5. CASE type = "StartVisit"
  <2>1. x \in OnStack /\ (\A c \in Active : head_dfn[c] < dfn[x])
    BY <1>1, <1>5, TopStarted
  <2>2. Coming(x, G) /\ dfn[x] \in Nat /\ \A c \in Active : head_dfn[c] \in Nat
    BY <1>1, <2>1, StackFacts, ActiveHeads, HeadFacts DEF OrderInv, ChildrenComing
  <2>3. \A c \in Active : ~ (dfn[x] < head_dfn[c])
    BY <2>1, <2>2
  <2>4. ASSUME NEW i \in 1..n, NEW j \in 1..n, i < j, Opened(i), visit_stack[i].vertex = x PROVE FALSE
    BY <1>2, <1>4, <2>4
  <2>5. QED
    BY <2>1, <2>2, <2>3, <2>4 DEF Coming, Waiting
<1>6. CASE type = "ContinueVisit"
  <2>1. x \in Active /\ x \notin OnStack /\ (\A c \in Active : c = x \/ head_dfn[c] < head_dfn[x])
    BY <1>1, <1>6, TopContinued, StartedFacts, ActiveHeads
  <2>2. Coming(x, G) /\ \A c \in Active : head_dfn[c] \in Nat
    BY <1>1, <2>1, ActiveHeads, HeadFacts DEF OrderInv, ChildrenComing
  <2>3. \A c \in Active : ~ (head_dfn[x] < head_dfn[c])
    BY <2>1, <2>2
  <2>4. ASSUME NEW i \in 1..n, NEW j \in 1..n, i < j, Opened(i), visit_stack[i].vertex = x PROVE FALSE
    BY <1>2, <1>4, <2>4
  <2>5. QED
    BY <2>1, <2>2, <2>3, <2>4 DEF Coming, Waiting
<1>7. QED
  BY <1>2, <1>3, <1>5, <1>6

(* What the number of a successor counts for.                              *)
LEMMA MinDfnFacts ==
    ASSUME TypeInv, Numbered, MembersLead, NEW w \in Labels, dfn[w] # 0
    PROVE  /\ MinDfn(w) \in Nat /\ MinDfn(w) > 0 /\ MinDfn(w) <= dfn[w]
           /\ w \notin OnStack => MinDfn(w) = DFN_INF
           /\ w \in OnStack /\ head_dfn[w] = 0 => MinDfn(w) = dfn[w]
           /\ w \in OnStack /\ head_dfn[w] # 0 => MinDfn(w) = head_dfn[w] /\ MemberLeads(w)
<1>1. dfn[w] \in Nat /\ head_dfn[w] \in Nat /\ DFN_INF \in Nat /\ DFN_INF > 0
  BY InfinityFacts DEF TypeInv, TypeOK
<1>2. CASE w \notin OnStack
  BY <1>1, <1>2 DEF Numbered, MinDfn
<1>3. CASE w \in OnStack /\ head_dfn[w] = 0
  BY <1>1, <1>3 DEF MinDfn
<1>4. CASE w \in OnStack /\ head_dfn[w] # 0
  <2>1. MemberLeads(w)
    BY <1>4 DEF MembersLead
  <2>2. MinDfn(w) = head_dfn[w]
    BY <1>4, StackFacts DEF MinDfn
  <2>3. PICK y \in OnStack : dfn[y] = head_dfn[w] /\ dfn[y] < dfn[w]
    BY <2>1 DEF MemberLeads
  <2>4. QED
    BY <1>1, <1>4, <2>1, <2>2, <2>3
<1>5. QED
  BY <1>2, <1>3, <1>4

(* The lowest of the stack is being visited.                               *)
LEMMA LowestStarted ==
    ASSUME TypeInv, Numbered, MembersLead, NEW x \in OnStack
    PROVE  \E u \in Started : u \in OnStack /\ dfn[u] <= dfn[x]
<1> DEFINE T == {dfn[y] : y \in OnStack}
<1>1. T \in SUBSET Nat /\ T # {}
  BY StackFacts
<1>2. PICK m \in T : \A k \in T : m <= k
  <2> HIDE DEF T
  <2>1. QED
    BY <1>1, LeastExists
<1>3. PICK u \in OnStack : dfn[u] = m
  OBVIOUS
<1>4. \A y \in OnStack : dfn[u] <= dfn[y]
  BY <1>2, <1>3
<1>5. u \in Started
  <2> SUFFICES ASSUME head_dfn[u] # 0 PROVE FALSE
    BY DEF MembersLead
  <2>1. PICK y \in OnStack : dfn[y] < dfn[u]
    BY DEF MembersLead, MemberLeads
  <2>2. QED
    BY <1>4, <2>1, StackFacts
<1>6. QED
  BY <1>4, <1>5

(* start_visit of a vertex that belongs to a component below it.           *)
LEMMA VisitMemberOrder ==
    ASSUME NEW G, OrderInv(G), NumbersFit, NEW task, VisitMember(task)
    PROVE  OrderInv(G)'
<1> DEFINE v == task.vertex
           h == head_dfn'[v]
<1>1. /\ Popping("StartVisit", task) /\ visit_stack' = Front(visit_stack)
      /\ UNCHANGED <<children, dfn, num, stack, components, parent, containing_cycle>>
  BY DEF VisitMember
<1>2. TypeInv /\ Numbered /\ TasksNested /\ MembersLead /\ ScopesOK(G) /\ visit_stack # <<>>
  BY <1>1 DEF OrderInv, Popping
<1>3. v \in Labels /\ \A s \in children[v] : s \in Labels /\ dfn[s] # 0
  BY <1>1, <1>2, TopTask, TopVisited DEF TypeInv, TypeOK
<1>4. /\ dfn \in [Labels -> Nat] /\ num \in Nat /\ head_dfn \in [Labels -> Nat]
      /\ children \in [Labels -> SUBSET Labels]
  BY <1>2 DEF TypeInv, TypeOK
<1>5. PICK h0 \in {dfn[v]} \cup {MinDfn(s) : s \in children[v]} :
        IsHeadDfn(v, h0) /\ h0 # dfn[v] /\ head_dfn' = [head_dfn EXCEPT ![v] = h0]
  BY DEF VisitMember
<1>6. h = h0 /\ \A u \in Labels : u # v => head_dfn'[u] = head_dfn[u]
  BY <1>3, <1>4, <1>5
<1>7. PICK s \in children[v] : h = MinDfn(s)
  BY <1>5, <1>6
<1>8. h \in Nat /\ h > 0 /\ h < dfn[v] /\ \A w \in children[v] : h <= MinDfn(w)
  BY <1>2, <1>3, <1>4, <1>5, <1>6, <1>7, MinDfnFacts DEF IsHeadDfn
<1>9. /\ v \in OnStack /\ head_dfn[v] = 0 /\ v \in Started
      /\ \A u \in Started : u = v \/ dfn[u] < dfn[v]
      /\ \A c \in Active : head_dfn[c] < dfn[v]
  BY <1>1, <1>2, TopStarted
<1>10. s \in OnStack
  <2>1. dfn[v] <= num
    BY <1>2, <1>9, StackFacts
  <2>2. h # DFN_INF
    <3>1. dfn[v] \in Nat /\ num < DFN_INF
      BY <1>3, <1>4 DEF NumbersFit
    <3>2. QED
      BY <1>4, <1>8, <2>1, <3>1, InfinityFacts
  <2>3. QED
    BY <1>2, <1>3, <1>7, <2>2, MinDfnFacts
<1>11. Active' = Active /\ Started' = Started \ {v} /\ Active = LowerOf("ContinueVisit")
       /\ LowerOf("StartVisit") = Started \ {v}
  <2>1. v \notin LowerOf("StartVisit")
    BY <1>1, <1>2, TopOnce
  <2>2. QED
    BY <1>1, <1>2, <2>1, TopSets, PoppedSets
<1>12. OnStack' = OnStack /\ Growing' = Growing /\ CycleHeads' = CycleHeads /\ v \notin CycleHeads
       /\ \A c \in CycleHeads : head_dfn'[c] = head_dfn[c]
  <2>1. v \notin CycleHeads
    BY <1>2, <1>9, StartedFacts
  <2>2. QED
    BY <1>1, <1>2, <1>6, <1>11, <2>1, ActiveHeads DEF OnStack, Growing, CycleHeads
<1>13. /\ \A u \in Started : u \in OnStack /\ head_dfn[u] = 0
       /\ Active \subseteq CycleHeads /\ OnStack \subseteq Labels /\ CycleHeads \subseteq Labels
  BY <1>2, StartedFacts, ActiveHeads
<1>14. TypeInv'
  BY <1>2, VisitMemberTyped
<1>15. Numbered'
  BY <1>1, <1>2, <1>3, <1>6, <1>9, <1>12 DEF Numbered
<1>16. TasksNested'
  <2>1. KeepsLower
    BY <1>1, <1>6, <1>11, <1>12, <1>13 DEF KeepsLower
  <2>2. QED
    BY <1>1, <1>2, <2>1, PopNested
<1>17. \A a, b : Together(a, b)' <=> Together(a, b)
  BY <1>11, <1>12, <1>13 DEF Together
<1>18. MembersLead'
  <2>1. ASSUME NEW x \in OnStack, head_dfn[x] # 0 PROVE MemberLeads(x)' /\ x # v
    <3>1. MemberLeads(x) /\ x # v
      BY <1>2, <1>9, <2>1 DEF MembersLead
    <3>2. PICK y \in OnStack : dfn[y] = head_dfn[x] /\ dfn[y] < dfn[x] /\ Together(dfn[y], dfn[x])
      BY <3>1 DEF MemberLeads
    <3>3. head_dfn'[x] = head_dfn[x] /\ Together(dfn[y], dfn[x])'
      <4>1. Together(dfn[y], dfn[x])'
        BY <1>1, <1>11, <1>12, <1>13, <3>2 DEF Together
      <4>2. QED
        BY <1>6, <1>13, <3>1, <4>1
    <3>4. QED
      BY <1>1, <1>12, <3>1, <3>2, <3>3 DEF MemberLeads
  <2>2. MemberLeads(v)'
    <3>1. \A w \in children[v] : h <= dfn[w]
      <4>1. \A w \in children[v] : MinDfn(w) <= dfn[w] /\ MinDfn(w) \in Nat /\ dfn[w] \in Nat
        BY <1>2, <1>3, <1>4, MinDfnFacts
      <4>2. QED
        BY <1>8, <4>1
    <3>2. \A c \in Active : head_dfn[c] < dfn[s] /\ head_dfn[c] \in Nat
      <4> SUFFICES ASSUME NEW c \in Active PROVE head_dfn[c] < dfn[s]
        BY <1>4, <1>13
      <4>1. v \in G[c]
        BY <1>2, <1>9 DEF ScopesOK
      <4>2. s \in Whole(c, G)
        BY <1>2, <1>7, <1>10, <1>13, <4>1, StackFacts DEF ScopesOK, Whole
      <4>3. s \in G[c]
        BY <1>2, <1>10, <1>13, <4>2, StackFacts DEF Whole
      <4>4. dfn[s] > head_dfn[c]
        BY <1>2, <1>10, <4>3 DEF ScopesOK
      <4>5. QED
        BY <1>4, <1>13, <4>4
    <3>3. \E y \in OnStack : dfn[y] = h /\ Together(dfn[y], dfn[v])
      <4>1. CASE head_dfn[s] = 0
        <5>1. dfn[s] = h
          BY <1>2, <1>3, <1>7, <1>10, <4>1, MinDfnFacts
        <5>2. Together(dfn[s], dfn[v])
          BY <1>4, <1>10, <1>13, <3>2 DEF Together
        <5>3. QED
          BY <1>10, <5>1, <5>2
      <4>2. CASE head_dfn[s] # 0
        <5>1. h = head_dfn[s] /\ MemberLeads(s)
          BY <1>2, <1>3, <1>7, <1>10, <4>2, MinDfnFacts
        <5>2. PICK y \in OnStack : dfn[y] = h /\ dfn[y] < dfn[s] /\ Together(dfn[y], dfn[s])
          BY <5>1 DEF MemberLeads
        <5>3. Together(dfn[y], dfn[v])
          BY <3>2, <5>2 DEF Together
        <5>4. QED
          BY <5>2, <5>3
      <4>3. QED
        BY <4>1, <4>2
    <3>4. QED
      BY <1>1, <1>8, <1>12, <1>17, <3>1, <3>3 DEF MemberLeads
  <2>3. \A x \in OnStack : head_dfn'[x] = 0 => x \in Started' /\ x # v
    BY <1>2, <1>6, <1>8, <1>11, <1>13 DEF MembersLead
  <2>4. \A x \in OnStack : x # v => head_dfn'[x] = head_dfn[x]
    BY <1>6, <1>13
  <2>5. QED
    BY <1>12, <2>1, <2>2, <2>3, <2>4 DEF MembersLead
<1>19. VisitedFrom'
  <2>1. ASSUME NEW x \in OnStack, NEW u \in Started', dfn[u] < dfn[x], Together(dfn[u], dfn[x])
        PROVE  \E t \in OnStack :
                 /\ dfn[u] <= dfn[t] /\ dfn[t] < dfn[x] /\ x \in children[t]
                 /\ t \in Started' \/ (x \notin Started' /\ head_dfn'[t] <= head_dfn'[x])
    <3>1. PICK t \in OnStack :
                /\ dfn[u] <= dfn[t] /\ dfn[t] < dfn[x] /\ x \in children[t]
                /\ t \in Started \/ (x \notin Started /\ head_dfn[t] <= head_dfn[x])
      BY <1>11, <2>1 DEF OrderInv, VisitedFrom
    <3>2. dfn[t] \in Nat /\ dfn[x] \in Nat /\ dfn[v] \in Nat
      BY <1>3, <1>4, <1>13
    <3>3. CASE x = v
      BY <1>9, <1>11, <3>1, <3>2, <3>3
    <3>4. CASE x # v /\ t # v
      <4>1. head_dfn'[t] = head_dfn[t] /\ head_dfn'[x] = head_dfn[x]
        BY <1>6, <1>13, <3>4
      <4>2. QED
        BY <1>11, <3>1, <3>4, <4>1
    <3>5. CASE x # v /\ t = v
      <4>1. x \notin Started
        BY <1>9, <3>1, <3>2, <3>5
      <4>2. head_dfn[x] # 0 /\ head_dfn'[x] = head_dfn[x]
        BY <1>2, <1>6, <1>13, <3>5, <4>1 DEF MembersLead
      <4>3. MinDfn(x) = head_dfn[x]
        BY <1>2, <1>3, <3>1, <3>5, <4>2, MinDfnFacts
      <4>4. QED
        BY <1>8, <1>11, <3>1, <3>5, <4>1, <4>2, <4>3
    <3>6. QED
      BY <3>3, <3>4, <3>5
  <2>2. QED
    BY <1>1, <1>12, <1>17, <2>1 DEF VisitedFrom
<1>20. ScopesOK(G)'
  <2>1. QED
    BY <1>1, <1>2, <1>11, <1>12, <1>13 DEF ScopesOK, Whole, IsPlaced
<1>21. ChildrenComing(G)'
  <2>1. ASSUME NEW x \in OnStack \cup Active PROVE Coming(x, G)'
    <3>1. Coming(x, G)
      BY <2>1 DEF OrderInv, ChildrenComing
    <3>2. x \notin OnStack => head_dfn'[x] = head_dfn[x]
      BY <1>12, <1>13, <2>1
    <3> SUFFICES ASSUME NEW w \in children[x], dfn[w] = 0
                 PROVE  \/ Waiting(x, w)'
                        \/ \E c \in Active : w \in G[c] /\ (IF x \in OnStack THEN dfn[x] ELSE head_dfn[x]) < head_dfn[c]
      <4>1. \A c \in Active : head_dfn'[c] = head_dfn[c]
        BY <1>12, <1>13
      <4>2. QED
        BY <1>1, <1>11, <1>12, <3>2, <4>1 DEF Coming
    <3>3. CASE Waiting(x, w)
      BY <1>1, <1>2, <3>3, PopComing
    <3>4. QED
      BY <3>1, <3>3 DEF Coming
  <2>2. QED
    BY <1>11, <1>12, <2>1 DEF ChildrenComing
<1>22. PlacedOK(G)' /\ PartsOK(G)' /\ Places'
  <2>1. PlacedOK(G) /\ PartsOK(G) /\ Places
    BY DEF OrderInv
  <2>2. \A c : Placed(c, G)' = Placed(c, G)
    BY <1>1 DEF Placed, Inside, Whole
  <2>3. \A c \in CycleHeads \cup {Root} : Level(c)' = Level(c)
    BY <1>12 DEF Level
  <2>4. Growing \subseteq CycleHeads \cup {Root} /\ DOMAIN components = CycleHeads \cup {Root}
    BY <1>2, <1>13, ActiveHeads DEF Growing
  <2>5. PlacedOK(G)'
    <3>1. \A c \in Growing, d \in Active : Level(c)' = Level(c) /\ Level(d)' = Level(d)
      BY <1>13, <2>3, <2>4
    <3>2. QED
      BY <1>1, <1>11, <1>12, <2>1, <2>2, <3>1 DEF PlacedOK, IsPlaced, Whole
  <2>6. PartsOK(G)'
    <3>1. children' = children /\ components' = components
      BY <1>1
    <3>2. QED
      BY <2>1, <3>1, PartsKept
  <2>7. Places'
    BY <1>1, <1>11, <1>12, <2>1, <2>3, <2>4 DEF Places, PlaceFits, HasPlace, IsPlaced
  <2>8. QED
    BY <2>5, <2>6, <2>7
<1>23. Reached'
  BY <1>1 DEF OrderInv, Reached
<1>24. EntryLast'
  <2>1. PICK y \in OnStack : dfn[y] = h
    BY <1>1, <1>9, <1>12, <1>18, <1>8 DEF MembersLead, MemberLeads
  <2>2. PICK u \in Started : dfn[u] <= dfn[y]
    BY <1>2, LowestStarted
  <2>3. u # v
    BY <1>4, <1>3, <1>8, <1>13, <2>1, <2>2
  <2>4. Started' # {}
    BY <1>11, <2>3
  <2>5. visit_stack' # <<>>
    <3>1. visit_stack' = <<>> => Started' = {}
      BY DEF Started, VerticesOf
    <3>2. QED
      BY <2>4, <3>1
  <2>6. QED
    BY <2>5 DEF EntryLast
<1>25. QED
  BY <1>14, <1>15, <1>16, <1>18, <1>19, <1>20, <1>21, <1>22, <1>23, <1>24 DEF OrderInv

(* A vertex that does not loop is on top of the stack, and what it leads   *)
(* to is placed.                                                           *)
LEMMA SingleOnTop ==
    ASSUME NEW G, OrderInv(G), NumbersFit, NEW task, Popping("StartVisit", task),
           IsHeadDfn(task.vertex, dfn[task.vertex]), ~ Loops(task.vertex)
    PROVE  /\ \A x \in OnStack : dfn[x] <= dfn[task.vertex]
           /\ \A s \in children[task.vertex] : s \in Labels /\ IsPlaced(s)
           /\ Len(stack) \in Nat \ {0} /\ stack[Len(stack)] = task.vertex
           /\ \A i \in 1..(Len(stack) - 1) : stack[i] # task.vertex
<1> DEFINE v == task.vertex
<1>1. TypeInv /\ Numbered /\ TasksNested /\ MembersLead
  BY DEF OrderInv
<1>2. v \in Labels /\ \A s \in children[v] : s \in Labels /\ dfn[s] # 0
  BY <1>1, TopTask, TopVisited DEF TypeInv, TypeOK
<1>3. /\ v \in OnStack /\ head_dfn[v] = 0 /\ v \in Started
      /\ \A u \in Started : u = v \/ dfn[u] < dfn[v]
      /\ \A c \in Active : head_dfn[c] < dfn[v]
  BY <1>1, TopStarted
<1>4. dfn \in [Labels -> Nat] /\ \A c \in Active : head_dfn[c] \in Nat
  BY <1>1, ActiveHeads DEF TypeInv, TypeOK
<1>5. \A s \in children[v] : dfn[v] < MinDfn(s) /\ MinDfn(s) \in Nat
  BY <1>1, <1>2, <1>4, MinDfnFacts DEF Loops
<1>6. \A x \in OnStack : x \in Labels /\ dfn[x] \in Nat /\ dfn[x] # 0
  BY <1>1, StackFacts
<1>7. \A x \in OnStack : dfn[x] <= dfn[v]
  <2> DEFINE X == {x \in OnStack : dfn[x] > dfn[v]}
             T == {dfn[x] : x \in X}
  <2> SUFFICES ASSUME X # {} PROVE FALSE
    BY <1>2, <1>4, <1>6
  <2>1. T \in SUBSET Nat /\ T # {}
    BY <1>6
  <2>2. PICK m \in T : \A k \in T : m <= k
    <3> HIDE DEF T
    <3>1. QED
      BY <2>1, LeastExists
  <2>3. PICK x \in X : dfn[x] = m
    OBVIOUS
  <2>4. \A y \in OnStack : dfn[y] < dfn[x] => dfn[y] <= dfn[v]
    <3>1. \A y \in X : dfn[x] <= dfn[y]
      BY <2>2, <2>3
    <3>2. QED
      BY <1>2, <1>4, <1>6, <3>1
  <2>5. Together(dfn[v], dfn[x])
    BY <1>2, <1>3, <1>4 DEF Together
  <2>6. PICK t \in OnStack :
              /\ dfn[v] <= dfn[t] /\ dfn[t] < dfn[x] /\ x \in children[t]
              /\ t \in Started \/ (x \notin Started /\ head_dfn[t] <= head_dfn[x])
    BY <1>3, <2>5 DEF OrderInv, VisitedFrom
  <2>7. t = v
    <3>1. dfn[t] = dfn[v]
      BY <1>2, <1>4, <1>6, <2>4, <2>6
    <3>2. QED
      BY <1>1, <1>3, <3>1, StackDistinct
  <2>8. x \notin Started /\ x \in OnStack /\ dfn[x] > dfn[v]
    BY <1>2, <1>3, <1>4, <1>6
  <2>9. head_dfn[x] # 0
    BY <1>1, <2>8 DEF MembersLead
  <2>10. MinDfn(x) = head_dfn[x] /\ MemberLeads(x)
    BY <1>1, <1>6, <2>8, <2>9, MinDfnFacts
  <2>11. PICK y \in OnStack : dfn[y] = head_dfn[x] /\ dfn[y] < dfn[x]
    BY <2>10 DEF MemberLeads
  <2>12. dfn[y] <= dfn[v] /\ dfn[y] \in Nat /\ dfn[v] \in Nat
    BY <1>3, <1>6, <2>4, <2>11
  <2>13. QED
    BY <1>5, <2>6, <2>7, <2>10, <2>11, <2>12
<1>8. \A s \in children[v] : s \in Labels /\ IsPlaced(s)
  <2> SUFFICES ASSUME NEW s \in children[v], ~ IsPlaced(s) PROVE FALSE
    BY <1>2
  <2>1. s \in OnStack
    BY <1>1, <1>2 DEF Numbered, IsPlaced
  <2>2. MinDfn(s) <= dfn[s] /\ dfn[s] <= dfn[v]
    BY <1>1, <1>2, <1>7, <2>1, MinDfnFacts
  <2>3. QED
    BY <1>2, <1>4, <1>5, <2>2
<1>9. /\ Len(stack) \in Nat \ {0} /\ stack[Len(stack)] = v
      /\ \A i \in 1..(Len(stack) - 1) : stack[i] # v
  <2> DEFINE k == Len(stack)
  <2>1. k \in Nat /\ \A i \in 1..k : stack[i] \in OnStack
    BY <1>1 DEF TypeInv, TypeOK, OnStack
  <2>2. PICK i \in 1..k : stack[i] = v
    BY <1>3 DEF OnStack
  <2>3. \A j \in 1..k : j > i => dfn[v] < dfn[stack[j]]
    BY <1>1, <2>1, <2>2 DEF Numbered
  <2> HIDE DEF k
  <2>4. k \in 1..k /\ ~ (k > i)
    BY <1>2, <1>4, <1>6, <1>7, <2>1, <2>2, <2>3
  <2>5. i = k
    BY <2>1, <2>2, <2>4
  <2>6. \A j \in 1..(k - 1) : dfn[stack[j]] < dfn[v]
    <3>1. \A j \in 1..(k - 1) : j \in 1..k /\ j < i
      BY <2>1, <2>5
    <3>2. QED
      BY <1>1, <2>2, <3>1 DEF Numbered, k
  <2>7. \A j \in 1..(k - 1) : stack[j] # v
    BY <1>2, <1>4, <2>6
  <2>8. QED
    BY <2>1, <2>2, <2>5, <2>7 DEF k
<1>10. QED
  BY <1>7, <1>8, <1>9

(* The innermost cycle is that of the task on top.                         *)
LEMMA InnermostOfTop ==
    ASSUME TypeInv, Numbered, TasksNested, NEW type, NEW task, Popping(type, task)
    PROVE  /\ task.in \in LowerOf("ContinueVisit") \cup {Root}
           /\ \A c \in LowerOf("ContinueVisit") : c = task.in \/ head_dfn[c] < Level(task.in)
           /\ Len(visit_stack) = 1 => task.vertex = Entry /\ task.in = Root
<1> DEFINE n == Len(visit_stack)
<1>1. n \in Nat \ {0} /\ n \in 1..n /\ task = visit_stack[n]
  BY TopIs
<1>2. task.in # Root => task.in \in LowerOf("ContinueVisit")
  BY TopContext DEF LowerOf
<1>3. \A c \in LowerOf("ContinueVisit") : c = task.in \/ head_dfn[c] < Level(task.in)
  BY TopContext DEF LowerOf
<1>4. n = 1 => task.vertex = Entry
  BY <1>1 DEF TasksNested, TaskFits
<1>5. n = 1 => LowerOf("ContinueVisit") = {}
  BY DEF LowerOf
<1>6. QED
  BY <1>2, <1>3, <1>4, <1>5

(* What a component more adds to a partition.                              *)
Appends(c, e) == components'[c] = Append(components[c], e)

Appended(c, e, n, G) ==
    /\ n \in Nat /\ Len(components[c]) = n /\ Len(components'[c]) = n + 1 /\ components'[c][n + 1] = e
    /\ components'[c] # <<>> /\ Last(components'[c]) = e
    /\ \A i \in 1..n : components'[c][i] = components[c][i]
    /\ \A i \in 1..Len(components'[c]) : i \in 1..n \/ i = n + 1
    /\ \A i \in 1..n : i \in 1..Len(components'[c])
    /\ n + 1 \in 1..Len(components'[c])
    /\ Placed(c, G)' = Placed(c, G) \cup Inside(e, G)

(* The parts of a partition that grows by one.                             *)
LEMMA AppendedPart ==
    ASSUME NEW G, NEW c, components[c] \in Seq(Component), NEW e, e \in Component, Appends(c, e)
    PROVE  Appended(c, e, Len(components[c]), G)
<1> DEFINE n == Len(components[c])
           s == components[c]
           s2 == components'[c]
<1>1. n \in Nat /\ Len(s2) = n + 1 /\ s2[n + 1] = e /\ \A i \in 1..n : s2[i] = s[i]
  BY DEF Appends
<1>2. Last(s2) = e /\ s2 # <<>>
  <2>1. s2 # <<>>
    BY <1>1
  <2>2. QED
    BY <1>1, <2>1 DEF Last
<1> HIDE DEF n, s, s2
<1>3. /\ \A i \in 1..(n + 1) : i \in 1..n \/ i = n + 1
      /\ \A i \in 1..n : i \in 1..(n + 1)
      /\ n + 1 \in 1..(n + 1)
  BY <1>1
<1>4. UNION {Inside(s2[i], G) : i \in 1..Len(s2)} = (UNION {Inside(s[i], G) : i \in 1..n}) \cup Inside(e, G)
  <2>1. \A i \in 1..n : Inside(s2[i], G) = Inside(s[i], G)
    BY <1>1
  <2>2. Inside(s2[n + 1], G) = Inside(e, G)
    BY <1>1
  <2>3. {Inside(s2[i], G) : i \in 1..(n + 1)} = {Inside(s[i], G) : i \in 1..n} \cup {Inside(e, G)}
    BY <1>3, <2>1, <2>2
  <2> DEFINE P == {Inside(s[i], G) : i \in 1..n}
             I == Inside(e, G)
  <2>4. UNION {Inside(s2[i], G) : i \in 1..Len(s2)} = UNION (P \cup {I})
    BY <1>1, <2>3
  <2>5. UNION (P \cup {I}) = (UNION P) \cup I
    <3> HIDE DEF P, I
    <3>1. QED
      OBVIOUS
  <2>6. UNION {Inside(s2[i], G) : i \in 1..Len(s2)} = (UNION P) \cup I
    <3> HIDE DEF P, I
    <3>1. QED
      BY <2>4, <2>5
  <2>7. QED
    BY <2>6
<1>5. Placed(c, G)' = UNION {Inside(s2[i], G) : i \in 1..Len(s2)}
  BY DEF Placed, Inside, Whole, s2
<1>6. Placed(c, G) = UNION {Inside(s[i], G) : i \in 1..n}
  BY DEF Placed, n, s
<1>7. QED
  BY <1>1, <1>2, <1>3, <1>4, <1>5, <1>6 DEF n, s, s2, Appended

(* start_visit of a vertex that is a component by itself.                  *)
LEMMA VisitVertexOrder ==
    ASSUME NEW G, OrderInv(G), NumbersFit, NEW task, VisitVertex(task)
    PROVE  OrderInv(G)'
<1> DEFINE v == task.vertex
           in == task.in
           e == Vertex(v)
           n == Len(components[in])
<1>1. /\ Popping("StartVisit", task) /\ IsHeadDfn(v, dfn[v]) /\ ~ Loops(v)
      /\ dfn' = [dfn EXCEPT ![v] = DFN_INF] /\ head_dfn' = [head_dfn EXCEPT ![v] = dfn[v]]
      /\ stack' = Front(stack) /\ visit_stack' = Front(visit_stack)
      /\ components' = [components EXCEPT ![in] = Append(@, e)]
      /\ UNCHANGED <<children, num, parent>>
  BY DEF VisitVertex
<1>2. TypeInv /\ Numbered /\ TasksNested /\ MembersLead /\ ScopesOK(G) /\ visit_stack # <<>>
      /\ PlacedOK(G) /\ PartsOK(G) /\ Places
  BY <1>1 DEF OrderInv, Popping
<1>3. v \in Labels /\ \A s \in children[v] : s \in Labels /\ dfn[s] # 0
  BY <1>1, <1>2, TopTask, TopVisited DEF TypeInv, TypeOK
<1>4. /\ dfn \in [Labels -> Nat] /\ num \in Nat /\ head_dfn \in [Labels -> Nat] /\ DFN_INF \in Nat /\ DFN_INF > 0
      /\ children \in [Labels -> SUBSET Labels] /\ num < DFN_INF
  BY <1>2, InfinityFacts DEF TypeInv, TypeOK, NumbersFit
<1>5. /\ dfn'[v] = DFN_INF /\ head_dfn'[v] = dfn[v]
      /\ \A u \in Labels : u # v => dfn'[u] = dfn[u] /\ head_dfn'[u] = head_dfn[u]
  BY <1>1, <1>3, <1>4
<1>6. /\ v \in OnStack /\ head_dfn[v] = 0 /\ v \in Started /\ ~ IsPlaced(v) /\ dfn[v] <= num /\ dfn[v] # 0
      /\ \A u \in Started : u = v \/ dfn[u] < dfn[v]
      /\ \A c \in Active : head_dfn[c] < dfn[v]
  BY <1>1, <1>2, <1>3, <1>4, TopStarted, StackFacts
<1>7. /\ \A x \in OnStack : dfn[x] <= dfn[v]
      /\ \A s \in children[v] : s \in Labels /\ IsPlaced(s)
      /\ Len(stack) \in Nat \ {0} /\ stack[Len(stack)] = v
      /\ \A i \in 1..(Len(stack) - 1) : stack[i] # v
  BY <1>1, SingleOnTop
<1>8. Active' = Active /\ Started' = Started \ {v} /\ Active = LowerOf("ContinueVisit")
      /\ LowerOf("StartVisit") = Started \ {v}
  <2>1. v \notin LowerOf("StartVisit")
    BY <1>1, <1>2, TopOnce
  <2>2. QED
    BY <1>1, <1>2, <2>1, TopSets, PoppedSets
<1>9. /\ \A u \in Started : u \in OnStack /\ head_dfn[u] = 0
      /\ Active \subseteq CycleHeads /\ OnStack \subseteq Labels /\ CycleHeads \subseteq Labels
      /\ v \notin CycleHeads /\ CycleHeads' = CycleHeads /\ Growing' = Growing
      /\ Root \notin CycleHeads /\ DOMAIN components = CycleHeads \cup {Root} /\ Growing \subseteq DOMAIN components
  BY <1>1, <1>2, <1>6, <1>8, StartedFacts, ActiveHeads DEF CycleHeads, Growing
<1>10. /\ \A c \in CycleHeads : dfn'[c] = dfn[c] /\ head_dfn'[c] = head_dfn[c] /\ c # v
       /\ \A c \in CycleHeads \cup {Root} : Level(c)' = Level(c)
  <2>1. \A c \in CycleHeads : dfn'[c] = dfn[c] /\ head_dfn'[c] = head_dfn[c] /\ c # v
    BY <1>5, <1>9
  <2>2. QED
    BY <2>1 DEF Level
<1>11. /\ Len(stack') = Len(stack) - 1 /\ \A i \in 1..Len(stack') : stack'[i] = stack[i]
       /\ OnStack' = OnStack \ {v}
  <2>1. stack \in Seq(Labels) /\ stack # <<>>
    BY <1>2, <1>7 DEF TypeInv, TypeOK
  <2>2. Len(stack') = Len(stack) - 1 /\ \A i \in 1..(Len(stack) - 1) : stack'[i] = stack[i]
    BY <1>1, <2>1, FrontFacts
  <2> DEFINE k == Len(stack)
  <2>3. \A i \in 1..k : i \in 1..(k - 1) \/ i = k
    BY <1>7
  <2>4. \A i \in 1..(k - 1) : i \in 1..k
    BY <1>7
  <2>5. QED
    BY <1>7, <2>2, <2>3, <2>4 DEF OnStack
<1>12. \A x \in OnStack' : x \in OnStack /\ x # v /\ x \in Labels /\ dfn'[x] = dfn[x] /\ head_dfn'[x] = head_dfn[x]
                           /\ dfn[x] < dfn[v]
  <2> SUFFICES ASSUME NEW x \in OnStack' PROVE dfn[x] < dfn[v]
    BY <1>5, <1>9, <1>11
  <2>1. dfn[x] <= dfn[v] /\ dfn[x] # dfn[v] /\ dfn[x] \in Nat /\ dfn[v] \in Nat
    BY <1>2, <1>3, <1>4, <1>6, <1>7, <1>9, <1>11, StackDistinct
  <2>2. QED
    BY <2>1
<1>13. \A w \in Labels : IsPlaced(w)' <=> IsPlaced(w) \/ w = v
  BY <1>3, <1>5 DEF IsPlaced
<1>14. TypeInv'
  BY <1>2, VisitVertexTyped
<1>15. Numbered'
  <2>1. \A u \in Labels : /\ dfn'[u] # DFN_INF => dfn'[u] <= num
                          /\ dfn'[u] = 0 => head_dfn'[u] = 0
    BY <1>2, <1>4, <1>5 DEF Numbered
  <2>2. \A i, j \in 1..Len(stack') : i < j => dfn'[stack'[i]] < dfn'[stack'[j]]
    <3>1. \A i \in 1..Len(stack') : i \in 1..Len(stack) /\ stack'[i] = stack[i] /\ stack'[i] \in OnStack'
      BY <1>7, <1>11 DEF OnStack
    <3>2. QED
      BY <1>2, <1>12, <3>1 DEF Numbered
  <2>3. OnStack' = {u \in Labels : dfn'[u] \notin {0, DFN_INF}}
    BY <1>2, <1>3, <1>5, <1>11 DEF Numbered
  <2>4. \A c \in CycleHeads : dfn'[c] = DFN_INF /\ 0 < head_dfn'[c] /\ head_dfn'[c] <= num
    BY <1>2, <1>10 DEF Numbered
  <2>5. QED
    BY <1>1, <1>9, <2>1, <2>2, <2>3, <2>4 DEF Numbered
<1>16. TasksNested'
  <2>1. \A u \in Started \ {v} : u \in OnStack' /\ head_dfn'[u] = 0 /\ dfn'[u] = dfn[u]
    BY <1>9, <1>11, <1>12
  <2>2. KeepsLower
    BY <1>1, <1>8, <1>9, <1>10, <2>1 DEF KeepsLower
  <2>3. QED
    BY <1>1, <1>2, <2>2, PopNested
<1>17. \A a, b : Together(a, b)' <=> Together(a, b)
  BY <1>8, <1>9, <1>10 DEF Together
<1>18. MembersLead'
  <2>1. ASSUME NEW x \in OnStack', head_dfn'[x] # 0 PROVE MemberLeads(x)'
    <3>1. MemberLeads(x)
      BY <1>2, <1>12, <2>1 DEF MembersLead
    <3>2. PICK y \in OnStack : dfn[y] = head_dfn[x] /\ dfn[y] < dfn[x] /\ Together(dfn[y], dfn[x])
      BY <3>1 DEF MemberLeads
    <3>3. y # v
      BY <1>3, <1>4, <1>9, <1>12, <3>2
    <3>4. y \in OnStack' /\ dfn'[y] = dfn[y] /\ Together(dfn[y], dfn[x])' /\ dfn[y] <= num
      BY <1>2, <1>11, <1>12, <1>17, <3>2, <3>3, StackFacts
    <3>5. ASSUME NEW w \in children[x], dfn'[w] # 0 PROVE head_dfn[x] <= dfn'[w]
      <4>1. w \in Labels /\ (dfn[w] # 0 => head_dfn[x] <= dfn[w])
        BY <1>4, <1>12, <3>1 DEF MemberLeads
      <4>2. CASE w = v
        BY <1>4, <1>5, <1>9, <3>2, <3>4, <4>2
      <4>3. CASE w # v
        BY <1>5, <3>5, <4>1, <4>3
      <4>4. QED
        BY <4>2, <4>3
    <3>6. QED
      BY <1>1, <1>12, <3>2, <3>4, <3>5 DEF MemberLeads
  <2>2. \A x \in OnStack' : head_dfn'[x] = 0 => x \in Started'
    BY <1>2, <1>8, <1>12 DEF MembersLead
  <2>3. QED
    BY <2>1, <2>2 DEF MembersLead
<1>19. VisitedFrom'
  <2>1. ASSUME NEW x \in OnStack', NEW u \in Started', dfn'[u] < dfn'[x], Together(dfn'[u], dfn'[x])
        PROVE  \E t \in OnStack' :
                 /\ dfn'[u] <= dfn'[t] /\ dfn'[t] < dfn'[x] /\ x \in children[t]
                 /\ t \in Started' \/ (x \notin Started' /\ head_dfn'[t] <= head_dfn'[x])
    <3>1. x \in OnStack /\ dfn'[x] = dfn[x] /\ dfn[x] < dfn[v] /\ u \in Started /\ u \in OnStack' /\ dfn'[u] = dfn[u]
      BY <1>8, <1>9, <1>11, <1>12
    <3>2. PICK t \in OnStack :
                /\ dfn[u] <= dfn[t] /\ dfn[t] < dfn[x] /\ x \in children[t]
                /\ t \in Started \/ (x \notin Started /\ head_dfn[t] <= head_dfn[x])
      BY <1>17, <2>1, <3>1 DEF OrderInv, VisitedFrom
    <3>3. t # v
      BY <1>3, <1>4, <1>9, <3>1, <3>2
    <3>4. t \in OnStack' /\ dfn'[t] = dfn[t] /\ head_dfn'[t] = head_dfn[t] /\ head_dfn'[x] = head_dfn[x]
      BY <1>11, <1>12, <3>3
    <3>5. QED
      BY <1>8, <3>1, <3>2, <3>3, <3>4
  <2>2. \A u, x : Together(dfn[u], dfn[x])' <=> Together(dfn'[u], dfn'[x])
    BY <1>1, <1>8, <1>9, <1>10 DEF Together
  <2>3. QED
    BY <1>1, <2>1, <2>2 DEF VisitedFrom
<1>20. ScopesOK(G)'
  <2>1. \A c \in Active : Whole(c, G) \subseteq Labels
    BY <1>2, <1>9, WholeLabels
  <2>2. \A c \in Active : \A u \in Whole(c, G) : \A w \in children[u] : w \in Whole(c, G) \/ IsPlaced(w)'
    <3>1. \A c \in Active : \A u \in Whole(c, G) : \A w \in children[u] : w \in Whole(c, G) \/ IsPlaced(w)
      BY <1>2 DEF ScopesOK
    <3>2. QED
      BY <1>4, <1>13, <2>1, <3>1
  <2>3. \A c \in Active : head_dfn'[c] = head_dfn[c]
    BY <1>9, <1>10
  <2>4. \A c \in Active : \A x \in OnStack' : dfn'[x] # head_dfn'[c] /\ (dfn'[x] > head_dfn'[c] <=> x \in G[c])
    BY <1>2, <1>12, <2>3 DEF ScopesOK
  <2>5. QED
    BY <1>1, <1>2, <1>8, <1>9, <2>2, <2>3, <2>4 DEF ScopesOK, Whole
<1>21. ChildrenComing(G)'
  <2>1. ASSUME NEW x \in OnStack' \cup Active PROVE Coming(x, G)'
    <3>1. Coming(x, G) /\ x \in Labels
      BY <1>9, <1>12, <2>1 DEF OrderInv, ChildrenComing
    <3>2. (IF x \in OnStack' THEN dfn'[x] ELSE head_dfn'[x]) = IF x \in OnStack THEN dfn[x] ELSE head_dfn[x]
      <4>1. x \in OnStack => x \in OnStack'
        BY <1>6, <1>9, <1>10, <1>11, <2>1
      <4>2. QED
        BY <1>9, <1>10, <1>12, <2>1, <4>1
    <3> SUFFICES ASSUME NEW w \in children[x], dfn'[w] = 0
                 PROVE  \/ Waiting(x, w)'
                        \/ \E c \in Active : w \in G[c] /\ (IF x \in OnStack THEN dfn[x] ELSE head_dfn[x]) < head_dfn[c]
      <4>1. \A c \in Active : head_dfn'[c] = head_dfn[c]
        BY <1>9, <1>10
      <4>2. QED
        BY <1>1, <1>8, <3>2, <4>1 DEF Coming
    <3>3. dfn[w] = 0
      BY <1>4, <1>5, <3>1
    <3>4. CASE Waiting(x, w)
      BY <1>1, <1>2, <3>4, PopComing
    <3>5. QED
      BY <3>1, <3>3, <3>4 DEF Coming
  <2>2. QED
    BY <1>8, <2>1 DEF ChildrenComing
<1>22. /\ in \in Growing /\ in \in DOMAIN components
       /\ \A d \in Active : ~ (Level(in) < Level(d))
  <2>1. in \in Growing /\ \A d \in Active : d = in \/ head_dfn[d] < Level(in)
    BY <1>1, <1>2, <1>8, InnermostOfTop DEF Growing
  <2>2. \A d \in Active : Level(d) = head_dfn[d]
    BY <1>2, <1>9, HeadFacts
  <2>3. \A c \in Growing : Level(c) \in Nat
    BY <1>2, <1>9, LevelTyped
  <2>4. QED
    BY <1>9, <2>1, <2>2, <2>3 DEF Growing
<1>23. e \in Component /\ e.label = v /\ ~ e.cycle /\ Inside(e, G) = {v}
  BY <1>3 DEF Vertex, Component, Inside
<1>24. /\ n \in Nat /\ Len(components[in]) = n /\ Len(components'[in]) = n + 1 /\ components'[in][n + 1] = e
       /\ components'[in] # <<>> /\ Last(components'[in]) = e
       /\ \A i \in 1..n : components'[in][i] = components[in][i]
       /\ \A i \in 1..Len(components'[in]) : i \in 1..n \/ i = n + 1
       /\ \A i \in 1..n : i \in 1..Len(components'[in])
       /\ n + 1 \in 1..Len(components'[in])
       /\ Placed(in, G)' = Placed(in, G) \cup {v}
  <2>1. components[in] \in Seq(Component)
    BY <1>2, <1>22 DEF TypeInv, TypeOK
  <2>2. Appends(in, e)
    BY <1>1, <1>22 DEF Appends
  <2>3. Appended(in, e, Len(components[in]), G)
    BY <1>23, <2>1, <2>2, AppendedPart
  <2>4. QED
    BY <1>23, <2>3 DEF Appended
<1>25. /\ DOMAIN components' = DOMAIN components
       /\ \A c \in DOMAIN components : c # in => components'[c] = components[c]
       /\ \A c : c # in /\ c \in DOMAIN components => Placed(c, G)' = Placed(c, G)
       /\ \A c \in Growing : Placed(c, G) \subseteq Labels
  <2>1. DOMAIN components' = DOMAIN components
       /\ \A c \in DOMAIN components : c # in => components'[c] = components[c]
    BY <1>1
  <2>2. \A c : c # in /\ c \in DOMAIN components => Placed(c, G)' = Placed(c, G)
    BY <2>1 DEF Placed, Inside, Whole
  <2>3. QED
    BY <1>2, <1>9, <2>1, <2>2, PlacedLabels
<1> HIDE DEF in, e, n
<1>26. PlacedOK(G)'
  <2>1. \A c \in Growing : \A w \in Placed(c, G)' : IsPlaced(w)'
    <3>1. \A c \in Growing : \A w \in Placed(c, G) : IsPlaced(w)
      BY <1>2 DEF PlacedOK
    <3>2. QED
      BY <1>3, <1>9, <1>13, <1>24, <1>25, <3>1
  <2>2. \A w \in Labels : IsPlaced(w)' => w \in Active \/ \E c \in Growing : w \in Placed(c, G)'
    <3>1. \A w \in Labels : IsPlaced(w) => w \in Active \/ \E c \in Growing : w \in Placed(c, G)
      BY <1>2 DEF PlacedOK
    <3>2. QED
      BY <1>9, <1>13, <1>22, <1>24, <1>25, <3>1
  <2>3. ASSUME NEW c \in Growing, NEW d \in Active, Level(c) < Level(d)
        PROVE  /\ Placed(c, G)' \cap Whole(d, G) = {}
               /\ \A u \in Placed(c, G)' : children[u] \cap Whole(d, G) = {}
    <3>1. Placed(c, G)' = Placed(c, G)
      BY <1>9, <1>22, <1>25, <2>3
    <3>2. QED
      BY <1>2, <2>3, <3>1 DEF PlacedOK
  <2>4. \A c \in Active : Placed(c, G)' \subseteq G[c]
    <3>1. \A c \in Active : v \in G[c]
      BY <1>2, <1>6 DEF ScopesOK
    <3>2. \A c \in Active : Placed(c, G) \subseteq G[c] /\ c \in DOMAIN components
      BY <1>2, <1>9 DEF PlacedOK
    <3>3. QED
      BY <1>24, <1>25, <3>1, <3>2
  <2>5. \A c \in Growing : \A u \in Placed(c, G)' : \A w \in children[u] : IsPlaced(w)'
    <3>1. \A c \in Growing : \A u \in Placed(c, G) : \A w \in children[u] : IsPlaced(w) /\ w \in Labels
      BY <1>2, <1>4, <1>25 DEF PlacedOK
    <3>2. \A c \in Growing : Placed(c, G)' \subseteq Placed(c, G) \cup {v}
      BY <1>9, <1>24, <1>25
    <3>3. QED
      BY <1>7, <1>13, <3>1, <3>2
  <2>6. ASSUME NEW c \in CycleHeads \ Active
        PROVE  /\ Placed(c, G)' = Whole(c, G)
               /\ components'[c] # <<>> /\ Last(components'[c]) = Vertex(c)
    <3>1. c # in /\ c \in DOMAIN components
      BY <1>9, <1>22 DEF Growing
    <3>2. QED
      BY <1>2, <1>25, <3>1 DEF PlacedOK
  <2>7. \A c \in Growing, d \in Active : Level(c)' = Level(c) /\ Level(d)' = Level(d)
    BY <1>9, <1>10
  <2>8. QED
    BY <1>1, <1>8, <1>9, <2>1, <2>2, <2>3, <2>4, <2>5, <2>6, <2>7 DEF PlacedOK, Whole
<1>27. PartsOK(G)'
  <2>1. ASSUME NEW i \in 1..n PROVE Inside(components[in][i], G) \subseteq Placed(in, G)
    BY <1>24, <2>1 DEF Placed
  <2>2. \A w \in Placed(in, G) : IsPlaced(w) /\ w # v
    BY <1>2, <1>6, <1>22 DEF PlacedOK
  <2>3. \A u \in Placed(in, G) : v \notin children[u]
    BY <1>2, <1>6, <1>22 DEF PlacedOK
  <2>4. v \notin children[v]
    BY <1>6, <1>7
  <2>5. \A c \in DOMAIN components : \A i, j \in 1..Len(components[c]) :
            PartFits(c, i, j, components[c][i], components[c][j], G)
    BY <1>2 DEF PartsOK
  <2>6. ASSUME NEW i \in 1..n PROVE PartFits(in, n + 1, i, e, components[in][i], G)
    <3>1. n + 1 > i
      BY <1>24
    <3>2. v \notin Inside(components[in][i], G)
      BY <2>1, <2>2
    <3>3. QED
      BY <1>23, <3>1, <3>2 DEF PartFits
  <2>7. ASSUME NEW i \in 1..n PROVE PartFits(in, i, n + 1, components[in][i], e, G)
    <3>1. v \notin Inside(components[in][i], G) /\ \A u \in Inside(components[in][i], G) : v \notin children[u]
      BY <2>1, <2>2, <2>3
    <3>2. QED
      BY <1>23, <3>1 DEF PartFits
  <2>8. PartFits(in, n + 1, n + 1, e, e, G)
    BY <1>23, <2>4 DEF PartFits
  <2>9. ASSUME NEW c \in DOMAIN components, NEW i \in 1..Len(components'[c]), NEW j \in 1..Len(components'[c])
        PROVE  PartFits(c, i, j, components'[c][i], components'[c][j], G)
    <3>1. CASE c # in
      BY <1>25, <2>5, <2>9, <3>1
    <3>2. CASE c = in
      <4>1. ASSUME NEW k \in 1..Len(components'[c])
            PROVE  \/ k = n + 1 /\ components'[c][k] = e
                   \/ k \in 1..Len(components[c]) /\ k \in 1..n /\ components'[c][k] = components[in][k]
        <5>1. k \in 1..n \/ k = n + 1
          BY <1>24, <3>2
        <5>2. k \in 1..n => k \in 1..Len(components[c])
          BY <1>24, <3>2
        <5>3. QED
          BY <1>24, <3>2, <5>1, <5>2
      <4>2. QED
        BY <1>22, <2>5, <2>6, <2>7, <2>8, <2>9, <3>2, <4>1
    <3>3. QED
      BY <3>1, <3>2
  <2>10. \A c, i, j, from, to : PartFits(c, i, j, from, to, G)' <=> PartFits(c, i, j, from, to, G)
    BY <1>1 DEF PartFits, Inside, Whole
  <2>11. ASSUME NEW c \in DOMAIN components, NEW i \in 1..Len(components'[c]), NEW j \in 1..Len(components'[c])
         PROVE  PartFits(c, i, j, components[c][i], components[c][j], G)'
    <3>1. PartFits(c, i, j, components'[c][i], components'[c][j], G)
      BY <2>9
    <3>2. children' = children
      BY <1>1
    <3>3. QED
      BY <3>1, <3>2 DEF PartFits, Inside, Whole
  <2>12. QED
    BY <1>25, <2>11 DEF PartsOK
<1>28. Places'
  <2>1. \A c \in DOMAIN components : \A i \in 1..Len(components[c]) :
          components[c][i] # e /\ components[c][i].label \in Labels /\ components[c][i].label # v
    <3>1. \A c \in DOMAIN components : \A i \in 1..Len(components[c]) : PlaceFits(c, components[c][i])
      BY <1>2 DEF Places
    <3>2. \A c \in DOMAIN components : \A i \in 1..Len(components[c]) : components[c][i] \in Component
      BY <1>2 DEF TypeInv, TypeOK
    <3>3. \A p : ~ PlaceFits(p, e)
      BY <1>6, <1>23 DEF PlaceFits
    <3>4. \A c \in DOMAIN components : \A i \in 1..Len(components[c]) : components[c][i].label # v
      BY <1>6, <1>9, <3>1 DEF PlaceFits
    <3>5. QED
      BY <1>23, <3>2, <3>4 DEF Component
  <2>2. \A c \in DOMAIN components : \A i \in 1..Len(components'[c]) :
          \/ i \in 1..Len(components[c]) /\ components'[c][i] = components[c][i]
          \/ c = in /\ i = n + 1 /\ components'[c][i] = e
    <3> SUFFICES ASSUME NEW c \in DOMAIN components, NEW i \in 1..Len(components'[c])
                 PROVE  \/ i \in 1..Len(components[c]) /\ components'[c][i] = components[c][i]
                        \/ c = in /\ i = n + 1 /\ components'[c][i] = e
      OBVIOUS
    <3>1. CASE c = in
      BY <1>24, <3>1
    <3>2. CASE c # in
      BY <1>25, <3>2
    <3>3. QED
      BY <3>1, <3>2
  <2>3. ASSUME NEW c \in DOMAIN components, NEW p, HasPlace(c, p) PROVE HasPlace(c, p)'
    <3>1. PICK i \in 1..Len(components[c]) : components[c][i] = p
      BY <2>3 DEF HasPlace
    <3>2. i \in 1..Len(components'[c]) /\ components'[c][i] = components[c][i]
      <4>1. CASE c = in
        BY <1>24, <4>1
      <4>2. CASE c # in
        BY <1>25, <4>2
      <4>3. QED
        BY <4>1, <4>2
    <3>3. QED
      BY <3>1, <3>2 DEF HasPlace
  <2>4. ASSUME NEW c \in DOMAIN components, NEW d \in DOMAIN components,
               NEW i \in 1..Len(components'[c]), NEW j \in 1..Len(components'[d]),
               components'[c][i] = components'[d][j]
        PROVE  c = d /\ i = j
    <3>1. CASE components'[c][i] = e
      <4>1. c = in /\ i = n + 1 /\ d = in /\ j = n + 1
        BY <2>1, <2>2, <2>4, <3>1
      <4>2. QED
        BY <4>1
    <3>2. CASE components'[c][i] # e
      <4>1. /\ i \in 1..Len(components[c]) /\ components'[c][i] = components[c][i]
            /\ j \in 1..Len(components[d]) /\ components'[d][j] = components[d][j]
        BY <2>2, <2>4, <3>2
      <4>2. components[c][i] = components[d][j]
        BY <2>4, <4>1
      <4>3. QED
        BY <1>2, <4>1, <4>2 DEF Places
    <3>3. QED
      BY <3>1, <3>2
  <2>5. ASSUME NEW c \in DOMAIN components, NEW p, PlaceFits(c, p), p.label \in Labels, p.label # v
        PROVE  PlaceFits(c, p)'
    <3>1. CASE p.cycle
      <4>1. p.label \in CycleHeads \ Active /\ c = parent[p.label] /\ Level(c) < Level(p.label)
        BY <2>5, <3>1 DEF PlaceFits
      <4>2. Level(c)' = Level(c) /\ Level(p.label)' = Level(p.label)
        BY <1>9, <1>10, <4>1
      <4>3. QED
        BY <1>1, <1>8, <1>9, <3>1, <4>1, <4>2 DEF PlaceFits
    <3>2. CASE ~ p.cycle
      <4>1. IsPlaced(p.label)' /\ p.label \notin Active
        BY <1>13, <2>5, <3>2 DEF PlaceFits
      <4>2. QED
        BY <1>8, <3>2, <4>1 DEF PlaceFits
    <3>3. QED
      BY <3>1, <3>2
  <2>6. PlaceFits(in, e)'
    <3>1. IsPlaced(v)' /\ v \notin Active'
      BY <1>3, <1>8, <1>9, <1>13
    <3>2. e.label = v /\ ~ e.cycle
      BY <1>23
    <3>3. QED
      BY <3>1, <3>2 DEF PlaceFits
  <2>7. ASSUME NEW c \in DOMAIN components, NEW i \in 1..Len(components'[c])
        PROVE  PlaceFits(c, components[c][i])'
    <3>0. PICK p : p = components'[c][i]
      OBVIOUS
    <3>1. CASE p = e
      <4>1. c = in
        BY <2>1, <2>2, <3>0, <3>1
      <4>2. PlaceFits(c, p)'
        BY <2>6, <3>1, <4>1
      <4>3. QED
        BY <3>0, <4>2 DEF PlaceFits
    <3>2. CASE p # e
      <4>1. i \in 1..Len(components[c]) /\ p = components[c][i]
        BY <2>2, <3>0, <3>2
      <4>2. PlaceFits(c, p) /\ p.label \in Labels /\ p.label # v
        BY <1>2, <2>1, <4>1 DEF Places
      <4>3. PlaceFits(c, p)'
        BY <2>5, <4>2
      <4>4. QED
        BY <3>0, <4>3 DEF PlaceFits
    <3>3. QED
      BY <3>1, <3>2
  <2>8. ASSUME NEW l \in Labels, IsPlaced(l)', l \notin Active
        PROVE  \E c \in DOMAIN components : HasPlace(c, Vertex(l))'
    <3>1. CASE l = v
      <4>1. HasPlace(in, e)'
        BY <1>24 DEF HasPlace
      <4>2. QED
        BY <1>22, <3>1, <4>1 DEF e
    <3>2. CASE l # v
      <4>1. IsPlaced(l)
        BY <1>13, <2>8, <3>2
      <4>2. PICK c \in DOMAIN components : HasPlace(c, Vertex(l))
        BY <1>2, <2>8, <4>1 DEF Places
      <4>3. QED
        BY <2>3, <4>2
    <3>3. QED
      BY <3>1, <3>2
  <2>9. ASSUME NEW l \in CycleHeads \ Active PROVE HasPlace(parent[l], Cycle(l))'
    <3>1. parent[l] \in DOMAIN components /\ HasPlace(parent[l], Cycle(l))
      BY <1>2, <1>9 DEF TypeInv, TypeOK, Places
    <3> DEFINE q == parent[l]
    <3>2. parent'[l] = q
      BY <1>1
    <3>3. \E i \in 1..Len(components'[q]) : components'[q][i] = Cycle(l)
      BY <2>3, <3>1 DEF HasPlace
    <3>4. QED
      BY <3>2, <3>3 DEF HasPlace
  <2>10. QED
    BY <1>1, <1>8, <1>9, <1>25, <2>4, <2>7, <2>8, <2>9 DEF Places
<1>29. Reached'
  <2>1. \A u \in Labels : dfn'[u] # 0 => dfn[u] # 0
    BY <1>5, <1>6
  <2>2. QED
    BY <1>1, <2>1 DEF OrderInv, Reached
<1>30. EntryLast'
  <2> SUFFICES ASSUME visit_stack' = <<>> PROVE components'[Root] # <<>> /\ Last(components'[Root]).label = Entry
    BY DEF EntryLast
  <2>1. Len(visit_stack) = 1
    BY <1>1, <1>2, AfterPop
  <2>2. v = Entry /\ in = Root
    BY <1>1, <1>2, <2>1, InnermostOfTop DEF in
  <2>3. QED
    BY <1>23, <1>24, <2>2
<1>31. QED
  BY <1>14, <1>15, <1>16, <1>18, <1>19, <1>20, <1>21, <1>26, <1>27, <1>28, <1>29, <1>30 DEF OrderInv

(* What is above a vertex that heads a cycle: vertices visited from there  *)
(* that lead no lower, and to nothing but each other and what is placed.   *)
HigherThan(v) == {x \in OnStack : dfn[x] > dfn[v]}

(* What a head finds above itself on the stack: the vertices visited from  *)
(* it, all of which lead back to it, and no others.                        *)
LEMMA AboveHead ==
    ASSUME NEW G, OrderInv(G), NEW task, Popping("StartVisit", task), IsHeadDfn(task.vertex, dfn[task.vertex])
    PROVE  /\ HigherThan(task.vertex) \cap Started = {}
           /\ \A u \in HigherThan(task.vertex) \cup {task.vertex} : \A w \in children[u] :
                w \in HigherThan(task.vertex) \cup {task.vertex} \/ IsPlaced(w)
           /\ \A A \in SUBSET Labels :
                task.vertex \in A /\ (\A u \in A : children[u] \cap HigherThan(task.vertex) \subseteq A)
                  => HigherThan(task.vertex) \subseteq A
           /\ \A x \in HigherThan(task.vertex) : head_dfn[x] >= dfn[task.vertex]
<1> DEFINE v == task.vertex
           H == HigherThan(v)
<1>1. TypeInv /\ Numbered /\ TasksNested /\ MembersLead
  BY DEF OrderInv
<1>2. v \in Labels /\ \A s \in children[v] : s \in Labels /\ dfn[s] # 0
  BY <1>1, TopTask, TopVisited DEF TypeInv, TypeOK
<1>3. /\ v \in OnStack /\ head_dfn[v] = 0 /\ v \in Started
      /\ \A u \in Started : u = v \/ dfn[u] < dfn[v]
      /\ \A c \in Active : head_dfn[c] < dfn[v]
  BY <1>1, TopStarted
<1>4. /\ dfn \in [Labels -> Nat] /\ head_dfn \in [Labels -> Nat] /\ children \in [Labels -> SUBSET Labels]
      /\ \A c \in Active : head_dfn[c] \in Nat
  BY <1>1, ActiveHeads DEF TypeInv, TypeOK
<1>5. \A x \in OnStack : x \in Labels /\ dfn[x] \in Nat /\ dfn[x] # 0 /\ x \notin CycleHeads
  BY <1>1, StackFacts
<1>6. \A x \in H : x \in OnStack /\ x \in Labels /\ dfn[x] \in Nat /\ dfn[x] > dfn[v] /\ x # v
  BY <1>2, <1>4, <1>5 DEF HigherThan
<1>7. H \cap Started = {}
  BY <1>2, <1>3, <1>4, <1>6
<1>8. \A x \in H : head_dfn[x] # 0 /\ MemberLeads(x) /\ head_dfn[x] \in Nat
  BY <1>1, <1>4, <1>6, <1>7 DEF MembersLead
<1>9. ASSUME NEW x \in H
      PROVE  \E t \in H \cup {v} : dfn[t] < dfn[x] /\ x \in children[t] /\ (t = v \/ head_dfn[t] <= head_dfn[x])
  <2>1. Together(dfn[v], dfn[x])
    BY <1>2, <1>3, <1>4 DEF Together
  <2>2. PICK t \in OnStack :
              /\ dfn[v] <= dfn[t] /\ dfn[t] < dfn[x] /\ x \in children[t]
              /\ t \in Started \/ (x \notin Started /\ head_dfn[t] <= head_dfn[x])
    BY <1>3, <1>6, <2>1 DEF OrderInv, VisitedFrom
  <2>3. t = v \/ t \in H
    <3>1. dfn[t] = dfn[v] => t = v
      BY <1>1, <1>3, StackDistinct
    <3>2. dfn[t] = dfn[v] \/ dfn[t] > dfn[v]
      BY <1>2, <1>4, <1>5, <2>2
    <3>3. QED
      BY <3>1, <3>2 DEF HigherThan
  <2>4. QED
    BY <1>7, <2>2, <2>3
(* A least vertex above that is outside a set has its predecessor in it.   *)
<1>10. ASSUME NEW B, \A x \in H : (\A t \in H : dfn[t] < dfn[x] => t \in B) => x \in B
       PROVE  H \subseteq B
  <2> DEFINE X == H \ B
             T == {dfn[x] : x \in X}
  <2> SUFFICES ASSUME X # {} PROVE FALSE
    OBVIOUS
  <2>1. T \in SUBSET Nat /\ T # {}
    BY <1>6
  <2>2. PICK m \in T : \A k \in T : m <= k
    <3> HIDE DEF T
    <3>1. QED
      BY <2>1, LeastExists
  <2>3. PICK x \in X : dfn[x] = m
    OBVIOUS
  <2>4. \A t \in H : dfn[t] < dfn[x] => t \in B
    <3>1. \A t \in X : dfn[x] <= dfn[t] /\ dfn[x] \in Nat /\ dfn[t] \in Nat
      BY <1>6, <2>2, <2>3
    <3>2. QED
      BY <3>1
  <2>5. QED
    BY <1>10, <2>3, <2>4
<1> HIDE DEF H
<1>11. \A x \in H : head_dfn[x] >= dfn[v]
  <2> DEFINE B == {x \in H : head_dfn[x] >= dfn[v]}
  <2>1. ASSUME NEW x \in H, \A t \in H : dfn[t] < dfn[x] => t \in B PROVE x \in B
    <3>1. PICK t \in H \cup {v} : dfn[t] < dfn[x] /\ x \in children[t] /\ (t = v \/ head_dfn[t] <= head_dfn[x])
      BY <1>9
    <3>2. CASE t = v
      <4>1. MinDfn(x) = head_dfn[x]
        BY <1>1, <1>2, <1>6, <1>8, <3>1, <3>2, MinDfnFacts
      <4>2. dfn[v] <= MinDfn(x)
        BY <3>1, <3>2 DEF IsHeadDfn
      <4>3. QED
        BY <1>2, <1>4, <1>8, <4>1, <4>2
    <3>3. CASE t # v
      <4>1. t \in H /\ head_dfn[t] >= dfn[v] /\ head_dfn[t] <= head_dfn[x]
        BY <2>1, <3>1, <3>3
      <4>2. head_dfn[t] \in Nat /\ head_dfn[x] \in Nat /\ dfn[v] \in Nat
        BY <1>2, <1>4, <1>8, <4>1
      <4>3. head_dfn[x] >= dfn[v]
        BY <4>1, <4>2
      <4>4. QED
        BY <4>3
    <3>4. QED
      BY <3>2, <3>3
  <2> HIDE DEF B
  <2>2. H \subseteq B
    BY <1>10, <2>1
  <2>3. QED
    BY <2>2 DEF B
<1>12. ASSUME NEW u \in H, NEW w \in children[u] PROVE w \in Labels /\ dfn[w] # 0
  <2>1. Coming(u, G) /\ u \in OnStack /\ u \notin Started /\ u \notin Active
    BY <1>1, <1>5, <1>6, <1>7, ActiveHeads DEF OrderInv, ChildrenComing
  <2>2. ~ Waiting(u, w)
    <3> SUFFICES ASSUME Waiting(u, w) PROVE FALSE
      OBVIOUS
    <3>1. PICK i \in 1..Len(visit_stack) : Opened(i) /\ visit_stack[i].vertex = u
      BY DEF Waiting
    <3>2. visit_stack[i] \in Task
      BY <1>1 DEF TypeInv, TasksOK
    <3>3. visit_stack[i].type = "StartVisit" \/ visit_stack[i].type = "ContinueVisit"
      BY <3>1, <3>2 DEF Opened, Task
    <3>4. QED
      BY <2>1, <3>1, <3>3 DEF Started, Active, VerticesOf
  <2>3. \A c \in Active : ~ (dfn[u] < head_dfn[c])
    <3>1. dfn[u] > dfn[v] /\ dfn[u] \in Nat /\ dfn[v] \in Nat
      BY <1>2, <1>4, <1>6
    <3>2. QED
      BY <1>3, <1>4, <3>1
  <2>4. dfn[w] # 0
    BY <2>1, <2>2, <2>3 DEF Coming
  <2>5. QED
    BY <1>4, <1>6, <2>4
<1>13. ASSUME NEW u \in H \cup {v}, NEW w \in children[u] PROVE w \in H \cup {v} \/ IsPlaced(w)
  <2> SUFFICES ASSUME ~ IsPlaced(w) PROVE w \in H \cup {v}
    OBVIOUS
  <2>1. w \in Labels /\ dfn[w] # 0
    BY <1>2, <1>12
  <2>2. w \in OnStack
    BY <1>1, <2>1 DEF Numbered, IsPlaced
  <2>3. dfn[w] >= dfn[v]
    <3>1. CASE u = v
      <4>1. dfn[v] <= MinDfn(w) /\ MinDfn(w) <= dfn[w] /\ MinDfn(w) \in Nat
        BY <1>1, <2>1, <3>1, MinDfnFacts DEF IsHeadDfn
      <4>2. QED
        BY <1>2, <1>4, <2>1, <4>1
    <3>2. CASE u \in H
      <4>1. head_dfn[u] <= dfn[w] /\ head_dfn[u] >= dfn[v]
        BY <1>8, <1>11, <2>1, <3>2 DEF MemberLeads
      <4>2. head_dfn[u] \in Nat /\ dfn[w] \in Nat /\ dfn[v] \in Nat
        BY <1>2, <1>4, <1>8, <2>1, <3>2
      <4>3. QED
        BY <4>1, <4>2
    <3>3. QED
      BY <3>1, <3>2
  <2>4. w = v \/ dfn[w] > dfn[v]
    <3>1. dfn[w] = dfn[v] => w = v
      BY <1>1, <1>3, <2>2, StackDistinct
    <3>2. QED
      BY <1>2, <1>4, <2>1, <2>3, <3>1
  <2>5. QED
    BY <2>2, <2>4 DEF H, HigherThan
<1>14. ASSUME NEW A \in SUBSET Labels, v \in A, \A u \in A : children[u] \cap H \subseteq A
       PROVE  H \subseteq A
  <2>1. ASSUME NEW x \in H, \A t \in H : dfn[t] < dfn[x] => t \in A PROVE x \in A
    <3>1. PICK t \in H \cup {v} : dfn[t] < dfn[x] /\ x \in children[t]
      BY <1>9
    <3>2. t \in A
      BY <1>14, <2>1, <3>1
    <3>3. QED
      BY <1>14, <3>1, <3>2
  <2>2. QED
    BY <1>10, <2>1
<1>15. QED
  BY <1>7, <1>11, <1>13, <1>14 DEF H

(* What a head pops: itself and what is above it.                          *)
LEMMA VisitHeadPops ==
    ASSUME TypeInv, Numbered, NEW task, VisitHead(task)
    PROVE  LET v == task.vertex
               H == HigherThan(v)
           IN  /\ \A j \in 1..Len(stack') : stack'[j] = stack[j] /\ j \in 1..Len(stack)
               /\ OnStack' = {x \in OnStack : dfn[x] < dfn[v]}
               /\ dfn'[v] = DFN_INF /\ head_dfn'[v] = dfn[v] /\ v \notin H
               /\ \A u \in H : u \in Labels /\ u # v /\ dfn'[u] = 0 /\ head_dfn'[u] = 0 /\ u \in OnStack /\ dfn[u] > dfn[v]
               /\ \A u \in Labels : u # v /\ u \notin H => dfn'[u] = dfn[u] /\ head_dfn'[u] = head_dfn[u]
<1> DEFINE v == task.vertex
           H == HigherThan(v)
<1>2. TypeInv /\ Numbered
  OBVIOUS
<1>3. v \in Labels
  BY TopTask DEF VisitHead
<1>4. /\ dfn \in [Labels -> Nat] /\ head_dfn \in [Labels -> Nat]
      /\ stack \in Seq(Labels) /\ Len(stack) \in Nat
  BY DEF TypeInv, TypeOK
<1>6. PICK i \in 1..Len(stack) :
        /\ stack[i] = v /\ v \notin Above(i) /\ stack' = SubSeq(stack, 1, i - 1)
        /\ dfn' = [l \in Labels |-> IF l = v THEN DFN_INF ELSE IF l \in Above(i) THEN 0 ELSE dfn[l]]
        /\ head_dfn' = [l \in Labels |-> IF l = v THEN dfn[v] ELSE IF l \in Above(i) THEN 0 ELSE head_dfn[l]]
  BY DEF VisitHead
<1>7. Above(i) = H
  <2>1. ASSUME NEW j \in 1..Len(stack), j > i PROVE stack[j] \in H
    BY <1>2, <1>6, <2>1 DEF Numbered, HigherThan, OnStack
  <2>2. ASSUME NEW x \in H PROVE x \in Above(i)
    <3>1. x \in OnStack /\ dfn[x] > dfn[v] /\ dfn[x] \in Nat /\ dfn[v] \in Nat
      BY <1>2, <1>3, <1>4, StackFacts DEF HigherThan
    <3>2. PICK j \in 1..Len(stack) : x = stack[j]
      BY <3>1 DEF OnStack
    <3>3. ~ (j < i) /\ j # i
      BY <1>2, <1>6, <3>1, <3>2 DEF Numbered
    <3>4. j \in (i + 1)..Len(stack)
      BY <1>4, <3>3
    <3>5. QED
      BY <3>2, <3>4 DEF Above
  <2>3. \A j \in (i + 1)..Len(stack) : j \in 1..Len(stack) /\ j > i
    BY <1>4
  <2> HIDE DEF H
  <2>4. QED
    BY <2>1, <2>2, <2>3 DEF Above
<1>8. /\ \A j \in 1..Len(stack') : stack'[j] = stack[j] /\ j \in 1..Len(stack)
      /\ OnStack' = {x \in OnStack : dfn[x] < dfn[v]}
  <2>1. i - 1 \in 0..Len(stack)
    BY <1>4
  <2>2. Len(stack') = i - 1 /\ \A j \in 1..(i - 1) : stack'[j] = stack[j]
    BY <1>4, <1>6, <2>1, CutFacts
  <2>3. \A j \in 1..(i - 1) : j \in 1..Len(stack) /\ j < i
    BY <1>4
  <2>4. \A x \in OnStack' : x \in OnStack /\ dfn[x] < dfn[v]
    BY <1>2, <1>6, <2>2, <2>3 DEF OnStack, Numbered
  <2>5. ASSUME NEW x \in OnStack, dfn[x] < dfn[v] PROVE x \in OnStack'
    <3>1. PICK j \in 1..Len(stack) : x = stack[j]
      BY DEF OnStack
    <3>2. dfn[x] \in Nat /\ dfn[v] \in Nat
      BY <1>2, <1>3, <1>4, StackFacts
    <3>3. ~ (i < j) /\ j # i
      BY <1>2, <1>6, <2>5, <3>1, <3>2 DEF Numbered
    <3>4. j \in 1..(i - 1)
      BY <1>4, <3>3
    <3>5. QED
      BY <2>2, <3>1, <3>4 DEF OnStack
  <2>6. \A j \in 1..Len(stack') : j \in 1..(i - 1)
    BY <2>2
  <2>7. QED
    BY <2>2, <2>3, <2>4, <2>5, <2>6
<1>9. /\ dfn'[v] = DFN_INF /\ head_dfn'[v] = dfn[v] /\ v \notin H
      /\ \A u \in H : u \in Labels /\ u # v /\ dfn'[u] = 0 /\ head_dfn'[u] = 0 /\ u \in OnStack /\ dfn[u] > dfn[v]
      /\ \A u \in Labels : u # v /\ u \notin H => dfn'[u] = dfn[u] /\ head_dfn'[u] = head_dfn[u]
  <2>1. \A u \in H : u \in OnStack /\ u \in Labels /\ dfn[u] > dfn[v]
    BY <1>2, StackFacts DEF HigherThan
  <2> HIDE DEF H
  <2>2. QED
    BY <1>3, <1>6, <1>7, <2>1
<1>10. QED
  BY <1>8, <1>9

(* start_visit of a head: a new cycle, of what was above it, is to be      *)
(* visited.                                                                *)
LEMMA VisitHeadOrder ==
    ASSUME NEW G, OrderInv(G), NumbersFit, NEW task, VisitHead(task), NEW G2,
           G2 = [c \in CycleHeads \cup {task.vertex} |-> IF c = task.vertex THEN HigherThan(task.vertex) ELSE G[c]]
    PROVE  OrderInv(G2)'
<1> DEFINE v == task.vertex
           S == Unvisited(children[v], dfn')
           again == MkTask("ContinueVisit", v, task.in)
           H == HigherThan(v)
<1>1. /\ Popping("StartVisit", task) /\ IsHeadDfn(v, dfn[v])
      /\ components' = [c \in DOMAIN components \cup {v} |-> IF c = v THEN <<>> ELSE components[c]]
      /\ parent' = [c \in DOMAIN parent \cup {v} |-> IF c = v THEN task.in ELSE parent[c]]
      /\ Pushes(again, S, v)
      /\ UNCHANGED <<children, num>>
  BY DEF VisitHead, Pushes
<1>2. TypeInv /\ Numbered /\ TasksNested /\ MembersLead /\ ScopesOK(G) /\ visit_stack # <<>>
      /\ PlacedOK(G) /\ PartsOK(G) /\ Places
  BY <1>1 DEF OrderInv, Popping
<1>3. v \in Labels /\ v \in Cycles /\ task.in \in Cycles /\ task = Last(visit_stack)
  BY <1>1, <1>2, TopTask DEF Popping, Cycles
<1>4. /\ dfn \in [Labels -> Nat] /\ num \in Nat /\ head_dfn \in [Labels -> Nat] /\ DFN_INF \in Nat /\ DFN_INF > 0
      /\ children \in [Labels -> SUBSET Labels] /\ num < DFN_INF /\ stack \in Seq(Labels) /\ Len(stack) \in Nat
  BY <1>2, InfinityFacts DEF TypeInv, TypeOK, NumbersFit
<1>5. /\ v \in OnStack /\ head_dfn[v] = 0 /\ v \in Started /\ ~ IsPlaced(v) /\ dfn[v] <= num /\ dfn[v] # 0
      /\ \A u \in Started : u = v \/ dfn[u] < dfn[v]
      /\ \A c \in Active : head_dfn[c] < dfn[v]
  BY <1>1, <1>2, <1>3, <1>4, TopStarted, StackFacts
<1>8. /\ \A j \in 1..Len(stack') : stack'[j] = stack[j] /\ j \in 1..Len(stack)
      /\ OnStack' = {x \in OnStack : dfn[x] < dfn[v]}
  BY <1>2, VisitHeadPops
<1>9. /\ dfn'[v] = DFN_INF /\ head_dfn'[v] = dfn[v] /\ v \notin H
      /\ \A u \in H : u \in Labels /\ u # v /\ dfn'[u] = 0 /\ head_dfn'[u] = 0 /\ u \in OnStack /\ dfn[u] > dfn[v]
      /\ \A u \in Labels : u # v /\ u \notin H => dfn'[u] = dfn[u] /\ head_dfn'[u] = head_dfn[u]
  BY <1>2, VisitHeadPops
<1> HIDE DEF H
<1>10. /\ \A u \in Started : u \in OnStack /\ head_dfn[u] = 0
       /\ Active \subseteq CycleHeads /\ OnStack \subseteq Labels /\ CycleHeads \subseteq Labels
       /\ OnStack \cap CycleHeads = {} /\ v \notin CycleHeads /\ CycleHeads' = CycleHeads \cup {v}
       /\ Root \notin CycleHeads /\ Root # v /\ DOMAIN components = CycleHeads \cup {Root}
       /\ Growing \subseteq DOMAIN components
  <2>1. CycleHeads' = CycleHeads \cup {v}
    BY <1>1 DEF CycleHeads
  <2>2. Root # v
    BY <1>3, LabelsAssumption DEF Root
  <2>3. QED
    BY <1>2, <1>5, <2>1, <2>2, StartedFacts, ActiveHeads
<1>11. \A x \in OnStack' : /\ x \in OnStack /\ x # v /\ x \notin H /\ x \in Labels /\ dfn[x] < dfn[v]
                           /\ dfn'[x] = dfn[x] /\ head_dfn'[x] = head_dfn[x] /\ dfn[x] \in Nat
  <2> SUFFICES ASSUME NEW x \in OnStack' PROVE x # v /\ x \notin H /\ dfn[x] \in Nat
    BY <1>8, <1>9, <1>10
  <2>1. x \in OnStack /\ dfn[x] < dfn[v] /\ dfn[x] \in Nat /\ dfn[v] \in Nat
    BY <1>3, <1>4, <1>8, <1>10
  <2>2. QED
    BY <1>9, <2>1
<1>12. /\ \A c \in CycleHeads : /\ dfn'[c] = dfn[c] /\ head_dfn'[c] = head_dfn[c] /\ c # v /\ c \notin H
                                /\ head_dfn[c] \in Nat
       /\ \A c \in CycleHeads \cup {Root} : Level(c)' = Level(c) /\ Level(c) \in Nat
       /\ Level(v)' = dfn[v]
  <2>1. \A c \in CycleHeads : /\ dfn'[c] = dfn[c] /\ head_dfn'[c] = head_dfn[c] /\ c # v /\ c \notin H
                              /\ head_dfn[c] \in Nat
    BY <1>4, <1>9, <1>10
  <2>2. QED
    BY <1>9, <1>10, <2>1 DEF Level
<1>13. S \in SUBSET Labels /\ S \subseteq children[v] /\ \A s \in children[v] : dfn'[s] = 0 => s \in S
  BY <1>3, <1>4 DEF Unvisited
<1>14. again \in Task /\ again.vertex = v /\ again.in = task.in /\ again.type = "ContinueVisit"
  BY <1>3 DEF again, MkTask, Task
<1> HIDE DEF S, again
<1>15. Active' = Active \cup {v} /\ Started' = Started \ {v} /\ Active = LowerOf("ContinueVisit")
       /\ LowerOf("StartVisit") = Started \ {v} /\ Growing' = Growing \cup {v}
  <2>1. v \notin LowerOf("StartVisit")
    BY <1>1, <1>2, TopOnce
  <2>2. Started = LowerOf("StartVisit") \cup {v} /\ Active = LowerOf("ContinueVisit")
    BY <1>1, <1>2, TopSets
  <2>3. Started' = LowerOf("StartVisit") /\ Active' = LowerOf("ContinueVisit") \cup {v}
    <3>1. Pushes(again, S, v) /\ TypeInv /\ visit_stack # <<>> /\ again.type = "ContinueVisit" /\ again.vertex = v
      BY <1>1, <1>2, <1>14
    <3>2. S \in SUBSET Labels /\ v \in Cycles /\ again \in Task
      BY <1>3, <1>13, <1>14
    <3> HIDE DEF v
    <3>3. QED
      BY <3>1, <3>2, PushedSets
  <2>4. QED
    BY <2>1, <2>2, <2>3 DEF Growing
<1>16. /\ G2 \in [CycleHeads \cup {v} -> SUBSET Labels] /\ G2[v] = H /\ \A c \in CycleHeads : G2[c] = G[c]
  <2>1. G2 = [c \in CycleHeads \cup {v} |-> IF c = v THEN H ELSE G[c]]
    BY DEF H
  <2>2. H \in SUBSET Labels
    BY <1>9
  <2>3. G \in [CycleHeads -> SUBSET Labels]
    BY <1>2 DEF ScopesOK
  <2>4. QED
    BY <1>10, <2>1, <2>2, <2>3
<1>17. \A w \in Labels : IsPlaced(w)' <=> IsPlaced(w) \/ w = v
  <2>1. \A w \in H : ~ IsPlaced(w)
    BY <1>2, <1>9, StackFacts
  <2>2. QED
    BY <1>4, <1>9, <2>1 DEF IsPlaced
<1>18. TypeInv'
  BY <1>2, VisitHeadTyped
<1>19. Numbered'
  <2>1. ASSUME NEW u \in Labels
        PROVE  (dfn'[u] # DFN_INF => dfn'[u] <= num) /\ (dfn'[u] = 0 => head_dfn'[u] = 0)
    <3>1. CASE u = v
      BY <1>4, <1>9, <3>1
    <3>2. CASE u \in H
      BY <1>4, <1>9, <3>2
    <3>3. CASE u # v /\ u \notin H
      BY <1>2, <1>9, <3>3 DEF Numbered
    <3>4. QED
      BY <3>1, <3>2, <3>3
  <2>2. \A j, k \in 1..Len(stack') : j < k => dfn'[stack'[j]] < dfn'[stack'[k]]
    <3>1. \A j \in 1..Len(stack') : j \in 1..Len(stack) /\ stack'[j] = stack[j] /\ stack'[j] \in OnStack'
      BY <1>8 DEF OnStack
    <3>2. QED
      BY <1>2, <1>11, <3>1 DEF Numbered
  <2>3. OnStack' = {u \in Labels : dfn'[u] \notin {0, DFN_INF}}
    <3>1. ASSUME NEW u \in Labels, dfn'[u] \notin {0, DFN_INF} PROVE u \in OnStack'
      <4>1. u # v /\ u \notin H /\ dfn'[u] = dfn[u]
        BY <1>9, <3>1
      <4>2. u \in OnStack
        BY <1>2, <3>1, <4>1 DEF Numbered
      <4>3. dfn[u] # dfn[v]
        BY <1>2, <1>5, <4>1, <4>2, StackDistinct
      <4>4. ~ (dfn[u] > dfn[v])
        BY <4>1, <4>2 DEF H, HigherThan
      <4>5. QED
        BY <1>3, <1>4, <1>8, <4>2, <4>3, <4>4
    <3>2. \A u \in OnStack' : dfn'[u] \notin {0, DFN_INF}
      BY <1>2, <1>11 DEF Numbered
    <3>3. QED
      BY <1>11, <3>1, <3>2
  <2>4. \A c \in CycleHeads \cup {v} : dfn'[c] = DFN_INF /\ 0 < head_dfn'[c] /\ head_dfn'[c] <= num
    <3>1. dfn[v] \in Nat /\ 0 < dfn[v]
      BY <1>3, <1>4, <1>5
    <3>2. \A c \in CycleHeads : dfn'[c] = DFN_INF /\ 0 < head_dfn'[c] /\ head_dfn'[c] <= num
      BY <1>2, <1>12 DEF Numbered
    <3>3. QED
      BY <1>5, <1>9, <3>1, <3>2
  <2>5. QED
    BY <1>1, <1>10, <2>1, <2>2, <2>3, <2>4 DEF Numbered
<1>20. TasksNested'
  <2>1. \A u \in Started \ {v} : u \in OnStack' /\ head_dfn'[u] = 0 /\ dfn'[u] = dfn[u]
    BY <1>5, <1>8, <1>10, <1>11
  <2>2. KeepsLower
    BY <1>1, <1>10, <1>12, <1>15, <2>1 DEF KeepsLower, CycleHeads
  <2>3. NumberOf(again)' = dfn[v] /\ NumberOf(task) = dfn[v]
    BY <1>1, <1>2, <1>9, <1>14, TopIs DEF NumberOf
  <2>4. \A k \in 1..(Len(visit_stack) - 1) : Opened(k) => NumberOf(visit_stack[k]) < NumberOf(again)'
    BY <1>1, <1>2, <2>3, TopNumber
  <2>5. parent'[v] = task.in
    BY <1>1
  <2>6. QED
    BY <1>1, <1>2, <1>3, <1>13, <1>14, <2>2, <2>4, <2>5, PushNested
<1>21. \A a, b : Together(a, b)' => Together(a, b)
  BY <1>10, <1>12, <1>15 DEF Together
<1>22. MembersLead'
  <2>1. ASSUME NEW x \in OnStack', head_dfn'[x] # 0 PROVE MemberLeads(x)'
    <3>1. MemberLeads(x)
      BY <1>2, <1>11, <2>1 DEF MembersLead
    <3>2. PICK y \in OnStack : dfn[y] = head_dfn[x] /\ dfn[y] < dfn[x] /\ Together(dfn[y], dfn[x])
      BY <3>1 DEF MemberLeads
    <3>3. dfn[y] \in Nat /\ dfn[x] \in Nat /\ dfn[v] \in Nat /\ dfn[x] < dfn[v] /\ dfn[y] <= num
      BY <1>2, <1>3, <1>4, <1>11, <3>2, StackFacts
    <3>4. dfn[y] < dfn[v] /\ y \in OnStack' /\ dfn'[y] = dfn[y]
      BY <1>8, <1>11, <3>2, <3>3
    <3>5. Together(dfn[y], dfn[x])'
      <4>1. dfn'[y] = dfn[y] /\ dfn'[x] = dfn[x]
        BY <1>11, <3>4
      <4>2. ~ (head_dfn'[v] < dfn[x])
        BY <1>9, <3>3
      <4>3. \A c \in Active : head_dfn'[c] = head_dfn[c]
        BY <1>10, <1>12
      <4>4. QED
        BY <1>15, <3>2, <4>1, <4>2, <4>3 DEF Together
    <3>6. ASSUME NEW w \in children[x], dfn'[w] # 0 PROVE head_dfn[x] <= dfn'[w]
      <4>1. w \in Labels /\ (dfn[w] # 0 => head_dfn[x] <= dfn[w])
        BY <1>4, <1>11, <3>1 DEF MemberLeads
      <4>2. CASE w = v
        BY <1>4, <1>9, <3>2, <3>3, <4>2
      <4>3. CASE w # v
        BY <1>9, <3>6, <4>1, <4>3
      <4>4. QED
        BY <4>2, <4>3
    <3>7. QED
      BY <1>1, <1>11, <3>2, <3>4, <3>5, <3>6 DEF MemberLeads
  <2>2. \A x \in OnStack' : head_dfn'[x] = 0 => x \in Started'
    BY <1>2, <1>11, <1>15 DEF MembersLead
  <2>3. QED
    BY <2>1, <2>2 DEF MembersLead
<1>23. VisitedFrom'
  <2>1. ASSUME NEW x \in OnStack', NEW u \in Started', dfn'[u] < dfn'[x], Together(dfn[u], dfn[x])'
        PROVE  \E t \in OnStack' :
                 /\ dfn'[u] <= dfn'[t] /\ dfn'[t] < dfn'[x] /\ x \in children[t]
                 /\ t \in Started' \/ (x \notin Started' /\ head_dfn'[t] <= head_dfn'[x])
    <3>1. x \in OnStack /\ dfn'[x] = dfn[x] /\ dfn[x] < dfn[v] /\ u \in Started /\ dfn[u] < dfn[v]
      BY <1>5, <1>11, <1>15
    <3>2. u \in OnStack' /\ dfn'[u] = dfn[u]
      BY <1>8, <1>10, <1>11, <3>1
    <3>3. Together(dfn'[u], dfn'[x])
      BY <1>10, <1>12, <1>15, <2>1 DEF Together
    <3>4. PICK t \in OnStack :
                /\ dfn[u] <= dfn[t] /\ dfn[t] < dfn[x] /\ x \in children[t]
                /\ t \in Started \/ (x \notin Started /\ head_dfn[t] <= head_dfn[x])
      BY <2>1, <3>1, <3>2, <3>3 DEF OrderInv, VisitedFrom
    <3>5. dfn[t] \in Nat /\ dfn[x] \in Nat /\ dfn[v] \in Nat
      BY <1>3, <1>4, <1>10, <1>11
    <3>6. t \in OnStack'
      BY <1>8, <3>1, <3>4, <3>5
    <3>7. t # v /\ dfn'[t] = dfn[t] /\ head_dfn'[t] = head_dfn[t] /\ head_dfn'[x] = head_dfn[x]
      BY <1>11, <3>6
    <3>8. QED
      BY <1>15, <3>1, <3>2, <3>4, <3>6, <3>7
  <2>2. QED
    BY <1>1, <2>1 DEF VisitedFrom
<1>24. /\ \A u \in H \cup {v} : \A w \in children[u] : w \in H \cup {v} \/ IsPlaced(w)
       /\ \A A \in SUBSET Labels : v \in A /\ (\A u \in A : children[u] \cap H \subseteq A) => H \subseteq A
  BY <1>1, AboveHead DEF H
<1>25. Whole(v, G2) = H \cup {v} /\ \A c \in CycleHeads : Whole(c, G2) = Whole(c, G) /\ Whole(c, G) \subseteq Labels
  BY <1>2, <1>16, WholeLabels DEF Whole
<1>26. ASSUME NEW c \in Active PROVE H \cup {v} \subseteq G[c]
  <2>1. ASSUME NEW x \in H \cup {v} PROVE x \in OnStack /\ dfn[x] > head_dfn[c]
    <3>1. x \in OnStack /\ dfn[x] >= dfn[v] /\ dfn[x] \in Nat
      BY <1>3, <1>4, <1>5, <1>9
    <3>2. head_dfn[c] < dfn[v] /\ head_dfn[c] \in Nat /\ dfn[v] \in Nat
      BY <1>3, <1>4, <1>5, <1>10, <1>12
    <3>3. QED
      BY <3>1, <3>2
  <2>2. QED
    BY <1>2, <2>1 DEF ScopesOK
<1>27. ScopesOK(G2)'
  <2>1. G2 \in [CycleHeads' -> SUBSET Labels] /\ \A c \in CycleHeads' : c \notin G2[c]
    BY <1>2, <1>9, <1>10, <1>16 DEF ScopesOK
  <2>2. ASSUME NEW c \in Active'
        PROVE  \A u \in Whole(c, G2) : \A w \in children[u] : w \in Whole(c, G2) \/ IsPlaced(w)'
    <3>1. CASE c = v
      <4>1. \A u \in H \cup {v} : \A w \in children[u] : w \in Labels
        BY <1>3, <1>4, <1>9
      <4>2. QED
        BY <1>17, <1>24, <1>25, <3>1, <4>1
    <3>2. CASE c \in Active
      <4>1. \A u \in Whole(c, G) : \A w \in children[u] : w \in Labels /\ (w \in Whole(c, G) \/ IsPlaced(w))
        BY <1>2, <1>4, <1>10, <1>25, <3>2 DEF ScopesOK
      <4>2. QED
        BY <1>10, <1>17, <1>25, <3>2, <4>1
    <3>3. QED
      BY <1>15, <3>1, <3>2
  <2>3. ASSUME NEW c \in Active', NEW x \in OnStack'
        PROVE  dfn'[x] # head_dfn'[c] /\ (dfn'[x] > head_dfn'[c] <=> x \in G2[c])
    <3>1. CASE c = v
      <4>1. ~ (dfn[x] > dfn[v]) /\ dfn[x] # dfn[v]
        BY <1>3, <1>4, <1>11
      <4>2. QED
        BY <1>9, <1>11, <1>16, <3>1, <4>1
    <3>2. CASE c \in Active
      <4>1. dfn[x] # head_dfn[c] /\ (dfn[x] > head_dfn[c] <=> x \in G[c])
        BY <1>2, <1>11, <3>2 DEF ScopesOK
      <4>2. QED
        BY <1>10, <1>11, <1>12, <1>16, <3>2, <4>1
    <3>3. QED
      BY <1>15, <3>1, <3>2
  <2>4. ASSUME NEW c \in Active', NEW A \in SUBSET Labels, c \in A, \A u \in A : children[u] \cap G2[c] \subseteq A
        PROVE  G2[c] \subseteq A
    <3>1. CASE c = v
      BY <1>16, <1>24, <2>4, <3>1
    <3>2. CASE c \in Active
      BY <1>2, <1>10, <1>16, <2>4, <3>2 DEF ScopesOK
    <3>3. QED
      BY <1>15, <3>1, <3>2
  <2>5. ASSUME NEW c \in Active', NEW d \in Active', head_dfn'[c] < head_dfn'[d] PROVE Whole(d, G2) \subseteq G2[c]
    <3>1. CASE c \in Active /\ d \in Active
      <4>1. head_dfn[c] < head_dfn[d]
        BY <1>10, <1>12, <2>5, <3>1
      <4>2. Whole(d, G) \subseteq G[c]
        BY <1>2, <3>1, <4>1 DEF ScopesOK
      <4>3. QED
        BY <1>10, <1>16, <1>25, <3>1, <4>2
    <3>2. CASE c \in Active /\ d = v
      BY <1>10, <1>16, <1>25, <1>26, <3>2
    <3>3. CASE c = v
      <4>1. dfn[v] < head_dfn'[d] /\ dfn[v] \in Nat
        BY <1>3, <1>4, <1>9, <2>5, <3>3
      <4>2. d \in Active
        BY <1>9, <1>15, <4>1
      <4>3. head_dfn[d] < dfn[v] /\ head_dfn'[d] = head_dfn[d] /\ head_dfn[d] \in Nat
        BY <1>5, <1>10, <1>12, <4>2
      <4>4. QED
        BY <4>1, <4>3
    <3>4. QED
      BY <1>15, <3>1, <3>2, <3>3
  <2>6. QED
    BY <1>1, <2>1, <2>2, <2>3, <2>4, <2>5 DEF ScopesOK, Whole
<1>28. ChildrenComing(G2)'
  <2>1. ASSUME NEW x \in OnStack' \cup Active' PROVE Coming(x, G2)'
    <3> SUFFICES ASSUME NEW s \in children[x], dfn'[s] = 0
                 PROVE  \/ Waiting(x, s)'
                        \/ \E c \in Active' : s \in G2[c] /\ (IF x \in OnStack' THEN dfn'[x] ELSE head_dfn'[x]) < head_dfn'[c]
      BY <1>1 DEF Coming
    <3>1. CASE x = v
      <4>1. s \in S
        BY <1>13, <3>1
      <4>2. QED
        BY <1>1, <1>2, <1>3, <1>13, <1>14, <3>1, <4>1, PushComing
    <3>2. CASE x # v
      <4>1. x \in OnStack \cup Active /\ x \in Labels
        BY <1>10, <1>11, <1>15, <2>1, <3>2
      <4> DEFINE rank == IF x \in OnStack THEN dfn[x] ELSE head_dfn[x]
      <4>2. (IF x \in OnStack' THEN dfn'[x] ELSE head_dfn'[x]) = rank /\ rank < dfn[v]
        <5>1. CASE x \in OnStack'
          BY <1>11, <5>1
        <5>2. CASE x \in Active
          BY <1>5, <1>10, <1>11, <1>12, <5>2
        <5>3. QED
          BY <1>15, <2>1, <3>2, <5>1, <5>2
      <4>3. CASE s \in H
        <5>1. v \in Active' /\ s \in G2[v] /\ rank < head_dfn'[v]
          BY <1>9, <1>15, <1>16, <4>2, <4>3
        <5>2. QED
          BY <4>2, <5>1
      <4>4. CASE s \notin H
        <5>1. s \in Labels /\ dfn[s] = 0
          BY <1>4, <1>9, <4>1, <4>4
        <5>2. Coming(x, G)
          BY <4>1 DEF OrderInv, ChildrenComing
        <5>3. CASE Waiting(x, s)
          BY <1>1, <1>2, <1>3, <1>13, <1>14, <5>3, PushComing
        <5>4. CASE \E c \in Active : s \in G[c] /\ rank < head_dfn[c]
          <6>1. PICK c \in Active : s \in G[c] /\ rank < head_dfn[c]
            BY <5>4
          <6>2. c \in Active' /\ s \in G2[c] /\ head_dfn'[c] = head_dfn[c]
            BY <1>10, <1>12, <1>15, <1>16, <6>1
          <6>3. QED
            BY <4>2, <6>1, <6>2
        <5>5. QED
          BY <5>1, <5>2, <5>3, <5>4 DEF Coming
      <4>5. QED
        BY <4>3, <4>4
    <3>3. QED
      BY <3>1, <3>2
  <2>2. QED
    BY <2>1 DEF ChildrenComing
<1>29. /\ DOMAIN components' = DOMAIN components \cup {v} /\ components'[v] = <<>>
       /\ \A c \in DOMAIN components : c # v /\ components'[c] = components[c]
  BY <1>1, <1>10
<1>30. \A c \in DOMAIN components : \A k \in 1..Len(components[c]) :
         /\ components[c][k].label \in Labels /\ components[c][k].label # v
         /\ components[c][k].cycle => components[c][k].label \in CycleHeads
  <2>1. \A c \in DOMAIN components : \A k \in 1..Len(components[c]) : components[c][k] \in Component
    BY <1>2 DEF TypeInv, TypeOK
  <2>2. \A c \in DOMAIN components : \A k \in 1..Len(components[c]) : PlaceFits(c, components[c][k])
    BY <1>2 DEF Places
  <2>3. QED
    BY <1>5, <1>10, <2>1, <2>2 DEF PlaceFits, Component
<1>31. /\ Placed(v, G2)' = {}
       /\ \A c \in DOMAIN components : Placed(c, G2)' = Placed(c, G) /\ Placed(c, G) \subseteq Labels
       /\ \A c \in DOMAIN components : \A k \in 1..Len(components[c]) :
            Inside(components[c][k], G2) = Inside(components[c][k], G)
  <2>1. Placed(v, G2)' = {}
    BY <1>29 DEF Placed
  <2>2. \A c \in DOMAIN components : \A k \in 1..Len(components[c]) :
            Inside(components[c][k], G2) = Inside(components[c][k], G)
    BY <1>25, <1>30 DEF Inside
  <2>3. ASSUME NEW c \in DOMAIN components PROVE Placed(c, G2)' = Placed(c, G)
    <3> DEFINE s == components[c]
               s2 == components'[c]
    <3>1. Placed(c, G2)' = UNION {Inside(s2[k], G2) : k \in 1..Len(s2)}
      BY DEF Placed, Inside, Whole, s2
    <3>2. Placed(c, G) = UNION {Inside(s[k], G) : k \in 1..Len(s)}
      BY DEF Placed
    <3>3. s2 = s /\ \A k \in 1..Len(s) : Inside(s[k], G2) = Inside(s[k], G)
      BY <1>29, <2>2
    <3> HIDE DEF s, s2
    <3>4. {Inside(s2[k], G2) : k \in 1..Len(s2)} = {Inside(s[k], G) : k \in 1..Len(s)}
      BY <3>3
    <3>5. QED
      BY <3>1, <3>2, <3>4
  <2>4. QED
    BY <1>2, <2>1, <2>2, <2>3, PlacedLabels
<1>32. PlacedOK(G2)'
  <2>1. \A c \in Growing' : \A w \in Placed(c, G2)' : IsPlaced(w)'
    <3>1. \A c \in Growing : \A w \in Placed(c, G) : IsPlaced(w)
      BY <1>2 DEF PlacedOK
    <3>2. \A c \in Growing : Placed(c, G2)' = Placed(c, G) /\ Placed(c, G) \subseteq Labels
      BY <1>10, <1>31
    <3>3. QED
      BY <1>15, <1>17, <1>31, <3>1, <3>2
  <2>2. \A w \in Labels : IsPlaced(w)' => w \in Active' \/ \E c \in Growing' : w \in Placed(c, G2)'
    <3>1. \A w \in Labels : IsPlaced(w) => w \in Active \/ \E c \in Growing : w \in Placed(c, G)
      BY <1>2 DEF PlacedOK
    <3>2. ASSUME NEW w \in Labels, IsPlaced(w)', w # v PROVE w \in Active' \/ \E c \in Growing' : w \in Placed(c, G2)'
      <4>1. CASE w \in Active
        BY <1>15, <4>1
      <4>2. CASE \E c \in Growing : w \in Placed(c, G)
        <5>1. PICK c \in Growing : w \in Placed(c, G)
          BY <4>2
        <5>2. c \in DOMAIN components /\ c \in Growing'
          BY <1>10, <1>15
        <5>3. QED
          BY <1>31, <5>1, <5>2
      <4>3. QED
        BY <1>17, <3>1, <3>2, <4>1, <4>2
    <3>3. QED
      BY <1>15, <3>2
  <2>3. ASSUME NEW c \in Growing', NEW d \in Active', Level(c)' < Level(d)'
        PROVE  /\ Placed(c, G2)' \cap Whole(d, G2) = {}
               /\ \A u \in Placed(c, G2)' : children[u] \cap Whole(d, G2) = {}
    <3>1. CASE c = v
      BY <1>31, <3>1
    <3>2. CASE c # v /\ d \in Active
      <4>1. c \in Growing /\ c \in DOMAIN components /\ d \in CycleHeads
        BY <1>10, <1>15, <3>2
      <4>2. Level(c) < Level(d)
        BY <1>10, <1>12, <2>3, <4>1
      <4>3. Placed(c, G) \cap Whole(d, G) = {} /\ \A u \in Placed(c, G) : children[u] \cap Whole(d, G) = {}
        BY <1>2, <3>2, <4>1, <4>2 DEF PlacedOK
      <4>4. QED
        BY <1>25, <1>31, <4>1, <4>3
    <3>3. CASE c # v /\ d = v
      <4>1. c \in Growing /\ c \in DOMAIN components
        BY <1>10, <1>15, <3>3
      <4>2. \A w \in H \cup {v} : ~ IsPlaced(w)
        BY <1>2, <1>5, <1>9, StackFacts
      <4>3. (\A w \in Placed(c, G) : IsPlaced(w)) /\ \A u \in Placed(c, G) : \A w \in children[u] : IsPlaced(w)
        BY <1>2, <4>1 DEF PlacedOK
      <4>4. QED
        BY <1>25, <1>31, <3>3, <4>1, <4>2, <4>3
    <3>4. QED
      BY <1>15, <3>1, <3>2, <3>3
  <2>4. \A c \in Active' : Placed(c, G2)' \subseteq G2[c]
    <3>1. \A c \in Active : Placed(c, G) \subseteq G[c]
      BY <1>2 DEF PlacedOK
    <3>2. \A c \in Active : c \in CycleHeads /\ c \in DOMAIN components
      BY <1>10
    <3>3. \A c \in Active : Placed(c, G2)' \subseteq G2[c]
      BY <1>16, <1>31, <3>1, <3>2
    <3>4. QED
      BY <1>15, <1>31, <3>3
  <2>5. \A c \in Growing' : \A u \in Placed(c, G2)' : \A w \in children[u] : IsPlaced(w)'
    <3>1. \A c \in Growing : \A u \in Placed(c, G) : \A w \in children[u] : IsPlaced(w)
      BY <1>2 DEF PlacedOK
    <3>2. \A c \in Growing : \A u \in Placed(c, G) : \A w \in children[u] : w \in Labels
      BY <1>4, <1>10, <1>31
    <3>3. \A c \in Growing : Placed(c, G2)' = Placed(c, G)
      BY <1>10, <1>31
    <3>4. \A c \in Growing : \A u \in Placed(c, G2)' : \A w \in children[u] : IsPlaced(w)'
      BY <1>17, <3>1, <3>2, <3>3
    <3>5. QED
      BY <1>15, <1>31, <3>4
  <2>6. ASSUME NEW c \in CycleHeads' \ Active'
        PROVE  /\ Placed(c, G2)' = Whole(c, G2)
               /\ components'[c] # <<>> /\ Last(components'[c]) = Vertex(c)
    <3>1. c \in CycleHeads \ Active /\ c \in DOMAIN components
      BY <1>10, <1>15
    <3>2. QED
      BY <1>2, <1>25, <1>29, <1>31, <3>1 DEF PlacedOK
  <2>7. QED
    BY <1>1, <2>1, <2>2, <2>3, <2>4, <2>5, <2>6 DEF PlacedOK, Whole
<1>33. PartsOK(G2)'
  <2>1. ASSUME NEW c \in DOMAIN components', NEW j \in 1..Len(components'[c]), NEW k \in 1..Len(components'[c])
        PROVE  PartFits(c, j, k, components[c][j], components[c][k], G2)'
    <3>1. CASE c = v
      <4>1. Len(components'[c]) = 0
        BY <1>29, <3>1
      <4>2. QED
        BY <4>1
    <3>2. CASE c # v
      <4>1. c \in DOMAIN components /\ components'[c] = components[c]
        BY <1>29, <3>2
      <4>0. PICK from, to : from = components[c][j] /\ to = components[c][k]
        OBVIOUS
      <4>2. PartFits(c, j, k, from, to, G)
        BY <1>2, <4>0, <4>1 DEF PartsOK
      <4>3. Inside(from, G2) = Inside(from, G) /\ Inside(to, G2) = Inside(to, G)
        BY <1>31, <4>0, <4>1
      <4>4. components'[c][j] = from /\ components'[c][k] = to /\ children' = children
        BY <1>1, <4>0, <4>1
      <4>5. PartFits(c, j, k, from, to, G2)
        BY <4>2, <4>3 DEF PartFits
      <4>6. PartFits(c, j, k, components'[c][j], components'[c][k], G2) /\ children' = children
        BY <4>4, <4>5
      <4>7. QED
        BY <4>6 DEF PartFits, Inside, Whole
    <3>3. QED
      BY <3>1, <3>2
  <2>2. QED
    BY <2>1 DEF PartsOK
<1>34. Places'
  <2>1. ASSUME NEW c \in DOMAIN components', NEW d \in DOMAIN components',
               NEW j \in 1..Len(components'[c]), NEW k \in 1..Len(components'[d]),
               components'[c][j] = components'[d][k]
        PROVE  c = d /\ j = k
    <3>1. c # v /\ d # v
      BY <1>29
    <3>2. QED
      BY <1>2, <1>29, <2>1, <3>1 DEF Places
  <2>2. ASSUME NEW c \in DOMAIN components', NEW j \in 1..Len(components'[c])
        PROVE  PlaceFits(c, components[c][j])'
    <3>0. PICK e : e = components[c][j]
      OBVIOUS
    <3>1. c # v
      BY <1>29
    <3>2. c \in DOMAIN components /\ components'[c] = components[c] /\ j \in 1..Len(components[c])
      BY <1>29, <3>1
    <3>3. PlaceFits(c, e) /\ e.label \in Labels /\ e.label # v /\ components'[c][j] = e
      BY <1>2, <1>30, <3>0, <3>2 DEF Places
    <3>4. CASE e.cycle
      <4>1. e.label \in CycleHeads \ Active /\ c = parent[e.label] /\ Level(c) < Level(e.label)
        BY <3>3, <3>4 DEF PlaceFits
      <4>2. Level(c)' = Level(c) /\ Level(e.label)' = Level(e.label)
        BY <1>10, <1>12, <3>2, <4>1
      <4>3. parent'[e.label] = parent[e.label]
        BY <1>1, <3>3, <4>1 DEF CycleHeads
      <4>4. e.label \in CycleHeads' \ Active'
        BY <1>10, <1>15, <3>3, <4>1
      <4>5. QED
        BY <3>3, <3>4, <4>1, <4>2, <4>3, <4>4 DEF PlaceFits
    <3>5. CASE ~ e.cycle
      <4>1. IsPlaced(e.label) /\ e.label \notin Active
        BY <3>3, <3>5 DEF PlaceFits
      <4>2. IsPlaced(e.label)' /\ e.label \notin Active'
        BY <1>15, <1>17, <3>3, <4>1
      <4>3. QED
        BY <3>3, <3>5, <4>2 DEF PlaceFits
    <3>6. QED
      BY <3>4, <3>5
  <2>3. ASSUME NEW c \in DOMAIN components, NEW p, HasPlace(c, p) PROVE HasPlace(c, p)'
    <3>1. c # v /\ components'[c] = components[c]
      BY <1>29
    <3>2. QED
      BY <2>3, <3>1 DEF HasPlace
  <2>4. ASSUME NEW l \in Labels, IsPlaced(l)', l \notin Active'
        PROVE  \E c \in DOMAIN components' : HasPlace(c, Vertex(l))'
    <3>1. l # v /\ IsPlaced(l) /\ l \notin Active
      BY <1>15, <1>17, <2>4
    <3>2. PICK c \in DOMAIN components : HasPlace(c, Vertex(l))
      BY <1>2, <3>1 DEF Places
    <3>3. QED
      BY <1>29, <2>3, <3>2
  <2>5. ASSUME NEW l \in CycleHeads' \ Active' PROVE HasPlace(parent[l], Cycle(l))'
    <3>1. l # v /\ l \in CycleHeads \ Active
      BY <1>10, <1>15
    <3>2. parent[l] \in DOMAIN components /\ HasPlace(parent[l], Cycle(l))
      BY <1>2, <1>10, <3>1 DEF TypeInv, TypeOK, Places
    <3> DEFINE q == parent[l]
    <3>3. parent'[l] = q
      BY <1>1, <3>1 DEF CycleHeads
    <3>4. \E k \in 1..Len(components'[q]) : components'[q][k] = Cycle(l)
      BY <2>3, <3>2 DEF HasPlace
    <3>5. QED
      BY <3>3, <3>4 DEF HasPlace
  <2>6. QED
    BY <2>1, <2>2, <2>4, <2>5 DEF Places
<1>35. Reached'
  <2>1. \A u \in Labels : dfn'[u] # 0 => dfn[u] # 0
    BY <1>5, <1>9
  <2>2. QED
    BY <1>1, <2>1 DEF OrderInv, Reached
<1>36. EntryLast'
  <2>0. Pushed(again, S, v)
    BY <1>1, <1>2, <1>3, <1>13, <1>14, AfterPush
  <2>1. Len(visit_stack') # 0
    BY <2>0 DEF Pushed
  <2>2. QED
    BY <2>1 DEF EntryLast
<1>37. QED
  BY <1>18, <1>19, <1>20, <1>22, <1>23, <1>27, <1>28, <1>32, <1>33, <1>34, <1>35, <1>36 DEF OrderInv

-----------------------------------------------------------------------------
(* continue_visit *)

(* When a cycle is continued for good, nothing visited from its head is on *)
(* the stack any more, and all of it is in the partition of the cycle.     *)
LEMMA CycleComplete ==
    ASSUME NEW G, OrderInv(G), NEW task, Popping("ContinueVisit", task)
    PROVE  /\ \A x \in OnStack : dfn[x] < head_dfn[task.vertex]
           /\ Placed(task.vertex, G) = G[task.vertex]
<1> DEFINE c == task.vertex
<1>1. TypeInv /\ Numbered /\ TasksNested /\ MembersLead /\ ScopesOK(G) /\ PlacedOK(G) /\ Places
  BY DEF OrderInv
<1>2. c \in Labels /\ \A s \in children[c] : s \in Labels /\ dfn[s] # 0
  BY <1>1, TopTask, TopVisited DEF TypeInv, TypeOK
<1>3. /\ c \in Active
      /\ \A u \in Started : dfn[u] < head_dfn[c]
      /\ \A d \in Active : d = c \/ head_dfn[d] < head_dfn[c]
  BY <1>1, TopContinued
<1>4. /\ dfn \in [Labels -> Nat] /\ head_dfn \in [Labels -> Nat] /\ children \in [Labels -> SUBSET Labels]
      /\ Active \subseteq CycleHeads /\ CycleHeads \subseteq Labels /\ Growing \subseteq DOMAIN components
      /\ DOMAIN components = CycleHeads \cup {Root} /\ Root \notin CycleHeads
  BY <1>1, ActiveHeads DEF TypeInv, TypeOK
<1>5. \A x \in OnStack : x \in Labels /\ dfn[x] \in Nat /\ dfn[x] # head_dfn[c]
  BY <1>1, <1>3, StackFacts DEF ScopesOK
<1>6. \A x \in OnStack : dfn[x] < head_dfn[c]
  <2> DEFINE X == {x \in OnStack : dfn[x] > head_dfn[c]}
             T == {dfn[x] : x \in X}
  <2> SUFFICES ASSUME X # {} PROVE FALSE
    BY <1>2, <1>4, <1>5
  <2>1. T \in SUBSET Nat /\ T # {}
    BY <1>5
  <2>2. PICK m \in T : \A k \in T : m <= k
    <3> HIDE DEF T
    <3>1. QED
      BY <2>1, LeastExists
  <2>3. PICK x \in X : dfn[x] = m
    OBVIOUS
  <2>4. \A y \in OnStack : dfn[y] < dfn[x] => dfn[y] < head_dfn[c]
    <3>1. \A y \in X : dfn[x] <= dfn[y]
      BY <2>2, <2>3
    <3>2. \A y \in OnStack : y \notin X => dfn[y] < head_dfn[c]
      BY <1>2, <1>4, <1>5
    <3>3. QED
      BY <1>5, <3>1, <3>2
  <2>5. x \in OnStack /\ dfn[x] > head_dfn[c] /\ dfn[x] \in Nat /\ head_dfn[c] \in Nat
    BY <1>2, <1>4, <1>5
  <2>6. x \notin Started
    BY <1>3, <2>5
  <2>7. MemberLeads(x)
    BY <1>1, <2>5, <2>6 DEF MembersLead
  <2>8. PICK y \in OnStack : dfn[y] < dfn[x] /\ Together(dfn[y], dfn[x])
    BY <2>7 DEF MemberLeads
  <2>9. dfn[y] < head_dfn[c] /\ head_dfn[c] < dfn[x]
    BY <2>4, <2>5, <2>8
  <2>10. QED
    BY <1>3, <2>8, <2>9 DEF Together
<1>7. c \in CycleHeads /\ c \notin G[c] /\ G[c] \subseteq Labels /\ Level(c) = head_dfn[c]
  BY <1>1, <1>3, <1>4, HeadFacts DEF ScopesOK
<1>8. ASSUME NEW s \in G[c], dfn[s] # 0 PROVE s \in Placed(c, G)
  <2>1. s \notin OnStack
    BY <1>1, <1>2, <1>3, <1>4, <1>5, <1>6, <1>8 DEF ScopesOK
  <2>2. s \in Labels /\ IsPlaced(s)
    BY <1>1, <1>7, <1>8, <2>1 DEF Numbered, IsPlaced
  <2>3. ASSUME NEW d \in Growing, d # c PROVE Level(d) < Level(c)
    <3>1. CASE d = Root
      BY <1>1, <1>7, <3>1, HeadFacts DEF Level
    <3>2. CASE d \in Active
      BY <1>1, <1>3, <1>4, <1>7, <2>3, <3>2, HeadFacts
    <3>3. QED
      BY <3>1, <3>2 DEF Growing
  <2>4. s \in Whole(c, G)
    BY <1>8 DEF Whole
  <2>5. ~ (s \in Active)
    <3> SUFFICES ASSUME s \in Active PROVE FALSE
      OBVIOUS
    <3>1. s # c
      BY <1>7, <1>8
    <3>2. head_dfn[s] < head_dfn[c]
      BY <1>3, <3>1
    <3>3. s \in G[s]
      BY <1>1, <1>3, <2>4, <3>2 DEF ScopesOK
    <3>4. QED
      BY <1>1, <1>4, <3>3 DEF ScopesOK
  <2>6. PICK d \in Growing : s \in Placed(d, G)
    BY <1>1, <2>2, <2>5 DEF PlacedOK
  <2>7. CASE d # c
    BY <1>1, <1>3, <2>3, <2>4, <2>6, <2>7 DEF PlacedOK
  <2>8. QED
    BY <2>6, <2>7
<1>9. c \in Growing /\ Placed(c, G) \subseteq Labels /\ Placed(c, G) \subseteq G[c]
      /\ \A u \in Placed(c, G) : \A w \in children[u] : IsPlaced(w)
  BY <1>1, <1>3, <1>4, PlacedLabels DEF Growing, PlacedOK
<1>10. ASSUME NEW u \in Placed(c, G) \cup {c} PROVE children[u] \cap G[c] \subseteq Placed(c, G) \cup {c}
  BY <1>2, <1>8, <1>9, InfinityFacts DEF IsPlaced
<1>11. G[c] \subseteq Placed(c, G) \cup {c}
  <2> DEFINE A == Placed(c, G) \cup {c}
  <2>1. A \in SUBSET Labels /\ c \in A /\ \A u \in A : children[u] \cap G[c] \subseteq A
    BY <1>2, <1>9, <1>10
  <2> HIDE DEF A
  <2>2. G[c] \subseteq A
    BY <1>1, <1>3, <2>1 DEF ScopesOK
  <2>3. QED
    BY <2>2 DEF A
<1>12. QED
  BY <1>6, <1>7, <1>9, <1>11

(* continue_visit: a cycle that is complete gets its head and its place.   *)
LEMMA ContinueVisitOrder ==
    ASSUME NEW G, OrderInv(G), NumbersFit, NEW task, continue_visit(task)
    PROVE  OrderInv(G)'
<1> DEFINE c == task.vertex
           in == task.in
           e == Vertex(c)
           f == Cycle(c)
           n == Len(components[in])
           m == Len(components[c])
           headed == [components EXCEPT ![c] = Append(@, e)]
<1>1. /\ Popping("ContinueVisit", task) /\ visit_stack' = Front(visit_stack)
      /\ components' = [headed EXCEPT ![in] = Append(@, f)]
      /\ UNCHANGED <<children, dfn, head_dfn, num, stack, parent>>
  BY DEF continue_visit
<1>2. TypeInv /\ Numbered /\ TasksNested /\ MembersLead /\ ScopesOK(G) /\ visit_stack # <<>>
      /\ PlacedOK(G) /\ PartsOK(G) /\ Places
  BY <1>1 DEF OrderInv, Popping
<1>3. c \in Labels /\ c \in Active /\ parent[c] = in /\ \A d \in Active : d = c \/ head_dfn[d] < head_dfn[c]
  BY <1>1, <1>2, TopTask, TopContinued
<1>4. /\ \A x \in OnStack : dfn[x] < head_dfn[c] /\ dfn[x] \in Nat
      /\ Placed(c, G) = G[c]
  BY <1>1, <1>2, CycleComplete, StackFacts
<1>5. /\ Active \subseteq CycleHeads /\ CycleHeads \subseteq Labels /\ Root \notin CycleHeads
      /\ DOMAIN components = CycleHeads \cup {Root} /\ Growing \subseteq DOMAIN components
      /\ CycleHeads' = CycleHeads /\ dfn \in [Labels -> Nat] /\ head_dfn \in [Labels -> Nat]
      /\ children \in [Labels -> SUBSET Labels] /\ DFN_INF \in Nat /\ DFN_INF > 0
  BY <1>1, <1>2, ActiveHeads, InfinityFacts DEF TypeInv, TypeOK, CycleHeads
<1>6. /\ Active' = Active \ {c} /\ LowerOf("ContinueVisit") = Active \ {c}
      /\ Started' = Started /\ LowerOf("StartVisit") = Started /\ Growing' = Growing \ {c}
      /\ OnStack' = OnStack
  <2>1. c \notin LowerOf("ContinueVisit")
    BY <1>1, <1>2, TopOnce
  <2>2. Started = LowerOf("StartVisit") /\ Active = LowerOf("ContinueVisit") \cup {c}
    BY <1>1, <1>2, TopSets
  <2>3. Started' = LowerOf("StartVisit") /\ Active' = LowerOf("ContinueVisit")
    BY <1>1, <1>2, PoppedSets
  <2>4. OnStack' = OnStack
    BY <1>1 DEF OnStack
  <2>5. c # Root
    BY <1>3, <1>5
  <2>6. QED
    BY <2>1, <2>2, <2>3, <2>4, <2>5 DEF Growing
<1>7. /\ in \in Growing /\ in # c /\ in \in DOMAIN components /\ c \in CycleHeads /\ c \in Growing
      /\ \A d \in Active \ {c} : d = in \/ head_dfn[d] < Level(in)
  <2>1. in \in (Active \ {c}) \cup {Root} /\ \A d \in Active \ {c} : d = in \/ head_dfn[d] < Level(in)
    BY <1>1, <1>2, <1>6, InnermostOfTop
  <2>2. QED
    BY <1>3, <1>5, <2>1 DEF Growing
<1>8. /\ \A d \in CycleHeads : Level(d) = head_dfn[d] /\ d \notin OnStack /\ IsPlaced(d) /\ Level(d) \in Nat
      /\ \A d \in CycleHeads \cup {Root} : Level(d) \in Nat
      /\ \A d : Level(d)' = Level(d)
      /\ Level(in) < Level(c)
  <2>1. \A d \in CycleHeads : Level(d) = head_dfn[d] /\ d \notin OnStack /\ IsPlaced(d) /\ Level(d) \in Nat /\ Level(d) > 0
    BY <1>2, HeadFacts DEF IsPlaced
  <2>2. \A d : Level(d)' = Level(d)
    BY <1>1 DEF Level
  <2>3. Level(Root) = 0
    BY DEF Level
  <2>4. Level(in) < Level(c)
    BY <1>3, <1>5, <1>7, <2>1, <2>3 DEF Growing
  <2>5. QED
    BY <2>1, <2>2, <2>3, <2>4
<1>9. \A w : IsPlaced(w)' <=> IsPlaced(w)
  BY <1>1 DEF IsPlaced
<1>10. /\ Whole(c, G) = G[c] \cup {c} /\ Whole(c, G) \subseteq Labels /\ c \notin G[c]
       /\ \A w \in Whole(c, G) : IsPlaced(w)
       /\ Placed(in, G) \cap Whole(c, G) = {}
       /\ \A u \in Placed(in, G) : children[u] \cap Whole(c, G) = {}
       /\ \A u \in Whole(c, G) : \A w \in children[u] : IsPlaced(w)
  <2>1. Whole(c, G) = G[c] \cup {c} /\ Whole(c, G) \subseteq Labels /\ c \notin G[c]
    BY <1>2, <1>7, WholeLabels DEF Whole, ScopesOK
  <2>2. \A w \in Whole(c, G) : IsPlaced(w)
    BY <1>2, <1>4, <1>7, <1>8, <2>1 DEF PlacedOK
  <2>3. Placed(in, G) \cap Whole(c, G) = {} /\ \A u \in Placed(in, G) : children[u] \cap Whole(c, G) = {}
    BY <1>2, <1>3, <1>7, <1>8 DEF PlacedOK
  <2>4. \A u \in Whole(c, G) : \A w \in children[u] : IsPlaced(w)
    BY <1>2, <1>3, <2>2 DEF ScopesOK
  <2>5. QED
    BY <2>1, <2>2, <2>3, <2>4
<1>11. TypeInv'
  BY <1>2, ContinueVisitTyped
<1>12. Numbered'
  BY <1>1, <1>2, <1>5, <1>6 DEF Numbered
<1>13. TasksNested'
  <2>1. \A u \in Started : u \in OnStack /\ head_dfn[u] = 0
    BY <1>2, StartedFacts
  <2>2. KeepsLower
    BY <1>1, <1>6, <2>1 DEF KeepsLower
  <2>3. QED
    BY <1>1, <1>2, <2>2, PopNested
<1>14. MembersLead'
  <2>1. \A a, b : Together(a, b) => Together(a, b)'
    BY <1>1, <1>6 DEF Together
  <2>2. \A x : MemberLeads(x) => MemberLeads(x)'
    BY <1>1, <1>6, <2>1 DEF MemberLeads
  <2>3. QED
    BY <1>1, <1>2, <1>6, <2>2 DEF MembersLead
<1>15. VisitedFrom'
  <2>1. ASSUME NEW x \in OnStack, NEW v, Together(dfn[v], dfn[x])' PROVE Together(dfn[v], dfn[x])
    <3>1. \A d \in Active \ {c} : ~ (dfn[v] < head_dfn[d] /\ head_dfn[d] < dfn[x])
      BY <1>1, <1>6, <2>1 DEF Together
    <3>2. ~ (head_dfn[c] < dfn[x])
      BY <1>3, <1>4, <1>5
    <3>3. QED
      BY <3>1, <3>2 DEF Together
  <2>2. QED
    BY <1>1, <1>6, <2>1 DEF OrderInv, VisitedFrom
<1>16. ScopesOK(G)'
  BY <1>1, <1>2, <1>5, <1>6, <1>9 DEF ScopesOK, Whole
<1>17. ChildrenComing(G)'
  <2>1. ASSUME NEW x \in OnStack \cup (Active \ {c}) PROVE Coming(x, G)'
    <3>1. Coming(x, G)
      BY <2>1 DEF OrderInv, ChildrenComing
    <3> SUFFICES ASSUME NEW s \in children[x], dfn[s] = 0
                 PROVE  \/ Waiting(x, s)'
                        \/ \E d \in Active \ {c} : s \in G[d] /\ (IF x \in OnStack THEN dfn[x] ELSE head_dfn[x]) < head_dfn[d]
      BY <1>1, <1>6 DEF Coming
    <3>2. s \notin G[c]
      BY <1>5, <1>10 DEF IsPlaced
    <3>3. CASE Waiting(x, s)
      BY <1>1, <1>2, <3>3, PopComing
    <3>4. QED
      BY <3>1, <3>2, <3>3 DEF Coming
  <2>2. QED
    BY <1>6, <2>1 DEF ChildrenComing
<1>18. /\ e \in Component /\ e.label = c /\ ~ e.cycle /\ Inside(e, G) = {c}
       /\ f \in Component /\ f.label = c /\ f.cycle /\ Inside(f, G) = Whole(c, G)
  BY <1>3, <1>5 DEF Vertex, Cycle, Component, Inside
<1>19. /\ DOMAIN components' = DOMAIN components
       /\ components'[c] = Append(components[c], e) /\ components'[in] = Append(components[in], f)
       /\ \A d \in DOMAIN components : d # in /\ d # c => components'[d] = components[d]
  <2>1. /\ DOMAIN headed = DOMAIN components /\ headed[c] = Append(components[c], e)
        /\ \A d \in DOMAIN components : d # c => headed[d] = components[d]
    BY <1>5, <1>7
  <2> HIDE DEF headed, e, f
  <2>2. QED
    BY <1>1, <1>5, <1>7, <2>1
<1> HIDE DEF headed
<1>20. Appended(in, f, n, G) /\ Appended(c, e, m, G)
  <2>1. components[in] \in Seq(Component) /\ components[c] \in Seq(Component)
    BY <1>2, <1>5, <1>7 DEF TypeInv, TypeOK
  <2>2. Appends(in, f) /\ Appends(c, e)
    BY <1>19 DEF Appends
  <2>3. QED
    BY <1>18, <2>1, <2>2, AppendedPart
<1>21. /\ n \in Nat /\ Len(components[in]) = n /\ components'[in][n + 1] = f
       /\ components'[in] # <<>> /\ Last(components'[in]) = f
       /\ \A i \in 1..n : components'[in][i] = components[in][i]
       /\ \A i \in 1..Len(components'[in]) : i \in 1..n \/ i = n + 1
       /\ \A i \in 1..n : i \in 1..Len(components'[in])
       /\ n + 1 \in 1..Len(components'[in])
       /\ Placed(in, G)' = Placed(in, G) \cup Whole(c, G)
  BY <1>18, <1>20 DEF Appended
<1>22. /\ m \in Nat /\ Len(components[c]) = m /\ components'[c][m + 1] = e
       /\ components'[c] # <<>> /\ Last(components'[c]) = e
       /\ \A i \in 1..m : components'[c][i] = components[c][i]
       /\ \A i \in 1..Len(components'[c]) : i \in 1..m \/ i = m + 1
       /\ \A i \in 1..m : i \in 1..Len(components'[c])
       /\ m + 1 \in 1..Len(components'[c])
       /\ Placed(c, G)' = Whole(c, G)
  BY <1>4, <1>10, <1>18, <1>20 DEF Appended
<1>23. /\ \A d \in DOMAIN components : d # in /\ d # c => Placed(d, G)' = Placed(d, G)
       /\ \A d \in DOMAIN components : Placed(d, G) \subseteq Labels
  <2>1. \A d \in DOMAIN components : d # in /\ d # c => Placed(d, G)' = Placed(d, G)
    BY <1>19 DEF Placed, Inside, Whole
  <2>2. QED
    BY <1>2, <2>1, PlacedLabels
<1> HIDE DEF in, e, f, n, m
<1>24. PlacedOK(G)'
  <2>1. ASSUME NEW d \in Growing \ {c}
        PROVE  /\ d \in DOMAIN components /\ Placed(d, G) \subseteq Placed(d, G)'
               /\ Placed(d, G)' \subseteq Placed(d, G) \cup Whole(c, G)
               /\ d # in => Placed(d, G)' = Placed(d, G)
    <3>1. d \in DOMAIN components
      BY <1>5
    <3>2. QED
      BY <1>21, <1>23, <3>1
  <2>2. \A d \in Growing \ {c} : \A w \in Placed(d, G)' : IsPlaced(w)'
    BY <1>2, <1>9, <1>10, <2>1 DEF PlacedOK
  <2>3. ASSUME NEW w \in Labels, IsPlaced(w)
        PROVE  w \in Active \ {c} \/ \E d \in Growing \ {c} : w \in Placed(d, G)'
    <3>1. in \in Growing \ {c}
      BY <1>7
    <3>2. CASE w \in Whole(c, G)
      BY <1>21, <3>1, <3>2
    <3>3. CASE w \notin Whole(c, G)
      <4>1. w # c /\ w \notin Placed(c, G)
        BY <1>4, <1>10, <3>3
      <4>2. w \in Active \/ \E d \in Growing : w \in Placed(d, G)
        BY <1>2, <2>3 DEF PlacedOK
      <4>3. CASE \E d \in Growing : w \in Placed(d, G)
        <5>1. PICK d \in Growing : w \in Placed(d, G)
          BY <4>3
        <5>2. d \in Growing \ {c}
          BY <4>1, <5>1
        <5>3. QED
          BY <2>1, <5>1, <5>2
      <4>4. QED
        BY <4>1, <4>2, <4>3
    <3>4. QED
      BY <3>2, <3>3
  <2>4. ASSUME NEW d \in Growing \ {c}, NEW q \in Active \ {c}, Level(d) < Level(q)
        PROVE  /\ Placed(d, G)' \cap Whole(q, G) = {}
               /\ \A u \in Placed(d, G)' : children[u] \cap Whole(q, G) = {}
    <3>1. d # in
      <4>1. q = in \/ head_dfn[q] < Level(in)
        BY <1>7
      <4>2. Level(q) = head_dfn[q] /\ Level(q) \in Nat /\ Level(in) \in Nat /\ Level(d) \in Nat
        BY <1>5, <1>7, <1>8
      <4>3. QED
        BY <2>4, <4>1, <4>2
    <3>2. Placed(d, G)' = Placed(d, G)
      BY <2>1, <3>1
    <3>3. QED
      BY <1>2, <2>4, <3>2 DEF PlacedOK
  <2>5. ASSUME NEW d \in Active \ {c} PROVE Placed(d, G)' \subseteq G[d]
    <3>1. Placed(d, G) \subseteq G[d] /\ d \in Growing \ {c}
      BY <1>2 DEF PlacedOK, Growing
    <3>2. head_dfn[d] < head_dfn[c]
      BY <1>3
    <3>3. Whole(c, G) \subseteq G[d]
      BY <1>2, <1>3, <3>2 DEF ScopesOK
    <3>4. QED
      BY <2>1, <3>1, <3>3
  <2>6. ASSUME NEW d \in Growing \ {c}, NEW u \in Placed(d, G)', NEW w \in children[u] PROVE IsPlaced(w)
    <3>1. CASE u \in Placed(d, G)
      BY <1>2, <2>6, <3>1 DEF PlacedOK
    <3>2. CASE u \in Whole(c, G)
      BY <1>10, <2>6, <3>2
    <3>3. QED
      BY <2>1, <2>6, <3>1, <3>2
  <2>7. ASSUME NEW d \in CycleHeads \ (Active \ {c})
        PROVE  /\ Placed(d, G)' = Whole(d, G)
               /\ components'[d] # <<>> /\ Last(components'[d]) = Vertex(d)
    <3>1. CASE d = c
      BY <1>22, <3>1 DEF e
    <3>2. CASE d # c
      <4>1. d # in /\ d \in DOMAIN components /\ d \in CycleHeads \ Active
        BY <1>5, <1>7, <2>7, <3>2 DEF Growing
      <4>2. QED
        BY <1>2, <1>19, <1>23, <3>2, <4>1 DEF PlacedOK
    <3>3. QED
      BY <3>1, <3>2
  <2>8. /\ \A d \in Growing \ {c}, q \in Active \ {c} : Level(d)' < Level(q)' => Level(d) < Level(q)
        /\ \A d : Whole(d, G)' = Whole(d, G)
    BY <1>8 DEF Whole
  <2>9. \A d \in Growing \ {c} : \A u \in Placed(d, G)' : \A w \in children'[u] : IsPlaced(w)'
    BY <1>1, <1>9, <2>6
  <2>10. QED
    BY <1>1, <1>5, <1>6, <1>9, <2>2, <2>3, <2>4, <2>5, <2>7, <2>8, <2>9 DEF PlacedOK
<1>25. ASSUME NEW d \in DOMAIN components, NEW i \in 1..Len(components'[d])
       PROVE  \/ d = in /\ i = n + 1 /\ components'[d][i] = f
              \/ d = c /\ i = m + 1 /\ components'[d][i] = e
              \/ i \in 1..Len(components[d]) /\ components'[d][i] = components[d][i]
  <2>1. CASE d = in
    BY <1>21, <2>1
  <2>2. CASE d = c
    BY <1>22, <2>2
  <2>3. CASE d # in /\ d # c
    BY <1>19, <2>3
  <2>4. QED
    BY <2>1, <2>2, <2>3
<1>26. PartsOK(G)'
  <2>1. /\ \A i \in 1..n : Inside(components[in][i], G) \subseteq Placed(in, G)
        /\ \A i \in 1..m : Inside(components[c][i], G) \subseteq G[c]
    <3>1. \A d \in DOMAIN components : \A i \in 1..Len(components[d]) : Inside(components[d][i], G) \subseteq Placed(d, G)
      BY <1>2, PlacedLabels
    <3>2. c \in DOMAIN components /\ in \in DOMAIN components
      BY <1>5, <1>7
    <3>3. \A i \in 1..m : Inside(components[c][i], G) \subseteq Placed(c, G)
      BY <1>22, <3>1, <3>2
    <3>4. \A i \in 1..n : Inside(components[in][i], G) \subseteq Placed(in, G)
      BY <1>21, <3>1, <3>2
    <3>5. QED
      BY <1>4, <3>3, <3>4
  <2>2. \A d \in DOMAIN components : \A i, j \in 1..Len(components[d]) :
            PartFits(d, i, j, components[d][i], components[d][j], G)
    BY <1>2 DEF PartsOK
  <2>3. ASSUME NEW i \in 1..n
        PROVE  /\ PartFits(in, n + 1, i, f, components[in][i], G)
               /\ PartFits(in, i, n + 1, components[in][i], f, G)
    <3>1. n + 1 > i
      BY <1>21
    <3>2. Inside(components[in][i], G) \cap Whole(c, G) = {}
          /\ \A u \in Inside(components[in][i], G) : children[u] \cap Whole(c, G) = {}
      BY <1>10, <2>1
    <3>3. QED
      BY <1>18, <3>1, <3>2 DEF PartFits
  <2>4. PartFits(in, n + 1, n + 1, f, f, G)
    BY <1>18 DEF PartFits
  <2>5. ASSUME NEW i \in 1..m
        PROVE  /\ PartFits(c, m + 1, i, e, components[c][i], G)
               /\ PartFits(c, i, m + 1, components[c][i], e, G)
    <3>1. m + 1 > i
      BY <1>22
    <3>2. c \notin Inside(components[c][i], G)
      BY <1>10, <2>1
    <3>3. QED
      BY <1>18, <3>1, <3>2 DEF PartFits
  <2>6. PartFits(c, m + 1, m + 1, e, e, G)
    BY <1>18 DEF PartFits
  <2>7. ASSUME NEW d \in DOMAIN components, NEW i \in 1..Len(components'[d]), NEW j \in 1..Len(components'[d])
        PROVE  PartFits(d, i, j, components'[d][i], components'[d][j], G)
    <3>1. CASE d = in
      <4>1. ASSUME NEW k \in 1..Len(components'[d])
            PROVE  \/ k = n + 1 /\ components'[d][k] = f
                   \/ k \in 1..Len(components[d]) /\ k \in 1..n /\ components'[d][k] = components[in][k]
        BY <1>7, <1>21, <1>25, <3>1
      <4>2. QED
        BY <2>2, <2>3, <2>4, <3>1, <4>1
    <3>2. CASE d = c
      <4>1. ASSUME NEW k \in 1..Len(components'[d])
            PROVE  \/ k = m + 1 /\ components'[d][k] = e
                   \/ k \in 1..Len(components[d]) /\ k \in 1..m /\ components'[d][k] = components[c][k]
        BY <1>7, <1>22, <1>25, <3>2
      <4>2. QED
        BY <2>2, <2>5, <2>6, <3>2, <4>1
    <3>3. CASE d # in /\ d # c
      BY <1>19, <2>2, <3>3
    <3>4. QED
      BY <3>1, <3>2, <3>3
  <2>8. ASSUME NEW d \in DOMAIN components, NEW i \in 1..Len(components'[d]), NEW j \in 1..Len(components'[d])
        PROVE  PartFits(d, i, j, components[d][i], components[d][j], G)'
    <3>1. PartFits(d, i, j, components'[d][i], components'[d][j], G) /\ children' = children
      BY <1>1, <2>7
    <3>2. QED
      BY <3>1 DEF PartFits, Inside, Whole
  <2>9. QED
    BY <1>19, <2>8 DEF PartsOK
<1>27. Places'
  <2>1. \A d \in DOMAIN components : \A i \in 1..Len(components[d]) :
          /\ PlaceFits(d, components[d][i])
          /\ components[d][i] # e /\ components[d][i] # f
    <3>1. \A d \in DOMAIN components : \A i \in 1..Len(components[d]) : PlaceFits(d, components[d][i])
      BY <1>2 DEF Places
    <3>2. \A d : ~ PlaceFits(d, e) /\ ~ PlaceFits(d, f)
      BY <1>3, <1>18 DEF PlaceFits
    <3>3. QED
      BY <3>1, <3>2
  <2>2. e # f
    BY <1>18
  <2>3. ASSUME NEW d \in DOMAIN components, NEW p, HasPlace(d, p) PROVE HasPlace(d, p)'
    <3>1. PICK i \in 1..Len(components[d]) : components[d][i] = p
      BY <2>3 DEF HasPlace
    <3>2. i \in 1..Len(components'[d]) /\ components'[d][i] = components[d][i]
      BY <1>19, <1>21, <1>22
    <3>3. QED
      BY <3>1, <3>2 DEF HasPlace
  <2>4. ASSUME NEW d \in DOMAIN components, NEW q \in DOMAIN components,
               NEW i \in 1..Len(components'[d]), NEW j \in 1..Len(components'[q]),
               components'[d][i] = components'[q][j]
        PROVE  d = q /\ i = j
    <3> DEFINE p == components'[d][i]
    <3>1. \/ d = in /\ i = n + 1 /\ p = f
          \/ d = c /\ i = m + 1 /\ p = e
          \/ i \in 1..Len(components[d]) /\ p = components[d][i]
      BY <1>25
    <3>2. \/ q = in /\ j = n + 1 /\ p = f
          \/ q = c /\ j = m + 1 /\ p = e
          \/ j \in 1..Len(components[q]) /\ p = components[q][j]
      BY <1>25, <2>4
    <3> HIDE DEF p
    <3>3. CASE p = e \/ p = f
      BY <2>1, <2>2, <3>1, <3>2, <3>3
    <3>4. CASE p # e /\ p # f
      BY <1>2, <3>1, <3>2, <3>4 DEF Places
    <3>5. QED
      BY <3>3, <3>4
  <2>5. ASSUME NEW d \in DOMAIN components, NEW p, PlaceFits(d, p) PROVE PlaceFits(d, p)'
    BY <1>1, <1>5, <1>6, <1>8, <1>9, <2>5 DEF PlaceFits
  <2>6. PlaceFits(in, f)' /\ PlaceFits(c, e)'
    BY <1>1, <1>3, <1>5, <1>6, <1>7, <1>8, <1>9, <1>18 DEF PlaceFits
  <2>7. ASSUME NEW d \in DOMAIN components, NEW i \in 1..Len(components'[d])
        PROVE  PlaceFits(d, components[d][i])'
    <3>0. PICK p : p = components'[d][i]
      OBVIOUS
    <3>1. CASE d = in /\ p = f
      <4>1. PlaceFits(d, p)'
        BY <2>6, <3>1
      <4>2. QED
        BY <3>0, <4>1 DEF PlaceFits
    <3>2. CASE d = c /\ p = e
      <4>1. PlaceFits(d, p)'
        BY <2>6, <3>2
      <4>2. QED
        BY <3>0, <4>1 DEF PlaceFits
    <3>3. CASE i \in 1..Len(components[d]) /\ p = components[d][i]
      <4>1. PlaceFits(d, p)'
        BY <2>1, <2>5, <3>3
      <4>2. QED
        BY <3>0, <4>1 DEF PlaceFits
    <3>4. QED
      BY <1>25, <3>0, <3>1, <3>2, <3>3
  <2>8. ASSUME NEW l \in Labels, IsPlaced(l)', l \notin Active \ {c}
        PROVE  \E d \in DOMAIN components : HasPlace(d, Vertex(l))'
    <3>1. CASE l = c
      <4>1. HasPlace(c, e)'
        BY <1>22 DEF HasPlace
      <4>2. QED
        BY <1>5, <1>7, <3>1, <4>1 DEF e
    <3>2. CASE l # c
      <4>1. IsPlaced(l) /\ l \notin Active
        BY <1>9, <2>8, <3>2
      <4>2. PICK d \in DOMAIN components : HasPlace(d, Vertex(l))
        BY <1>2, <2>8, <4>1 DEF Places
      <4>3. QED
        BY <2>3, <4>2
    <3>3. QED
      BY <3>1, <3>2
  <2>9. ASSUME NEW l \in CycleHeads \ (Active \ {c}) PROVE HasPlace(parent[l], Cycle(l))'
    <3> DEFINE q == parent[l]
    <3>1. parent'[l] = q
      BY <1>1
    <3>2. \E i \in 1..Len(components'[q]) : components'[q][i] = Cycle(l)
      <4>1. CASE l = c
        BY <1>3, <1>21, <4>1 DEF f
      <4>2. CASE l # c
        <5>1. q \in DOMAIN components /\ HasPlace(q, Cycle(l))
          BY <1>2, <1>5, <4>2 DEF TypeInv, TypeOK, Places
        <5>2. QED
          BY <2>3, <5>1 DEF HasPlace
      <4>3. QED
        BY <4>1, <4>2
    <3>3. QED
      BY <3>1, <3>2 DEF HasPlace
  <2>10. QED
    BY <1>1, <1>5, <1>6, <1>19, <2>4, <2>7, <2>8, <2>9 DEF Places
<1>28. Reached'
  BY <1>1 DEF OrderInv, Reached
<1>29. EntryLast'
  <2> SUFFICES ASSUME visit_stack' = <<>> PROVE components'[Root] # <<>> /\ Last(components'[Root]).label = Entry
    BY DEF EntryLast
  <2>1. Len(visit_stack) = 1
    BY <1>1, <1>2, AfterPop
  <2>2. c = Entry /\ in = Root
    BY <1>1, <1>2, <2>1, InnermostOfTop DEF in
  <2>3. QED
    BY <1>18, <1>21, <2>2
<1>30. QED
  BY <1>11, <1>12, <1>13, <1>14, <1>15, <1>16, <1>17, <1>24, <1>26, <1>27, <1>28, <1>29 DEF OrderInv

-----------------------------------------------------------------------------
(* Cycles are loops.                                                       *)

(* A vertex that leads back to the one numbered h: both are on the stack,  *)
(* in that order.                                                          *)
LEMMA MemberHead ==
    ASSUME TypeInv, Numbered, MembersLead, NEW h \in Nat \ {0}, NEW x \in OfHead(h)
    PROVE  x \in OnStack /\ head_dfn[x] = h /\ h < dfn[x] /\ \E y \in OnStack : dfn[y] = h
<1>1. x \in OnStack /\ head_dfn[x] = h /\ h # 0
  BY DEF OfHead
<1>2. MemberLeads(x)
  BY <1>1 DEF MembersLead
<1>3. QED
  BY <1>1, <1>2 DEF MemberLeads

(* Leading back depends on the stack and the numbers only,                 *)
LEMMA BackKept ==
    ASSUME NEW h, BackTo(h), children' = children, OfHead(h)' = OfHead(h),
           \A s \in OnStack : dfn[s] = h => s \in OnStack' /\ dfn'[s] = h
    PROVE  BackTo(h)'
<1> SUFFICES ASSUME NEW A \in SUBSET Labels,
                    \A u \in OfHead(h) : (\E s \in children[u] : s \in A \/ (s \in OnStack' /\ dfn'[s] = h)) => u \in A
             PROVE  OfHead(h) \subseteq A
  BY DEF BackTo
<1>1. \A u \in OfHead(h) : (\E s \in children[u] : s \in A \/ (s \in OnStack /\ dfn[s] = h)) => u \in A
  OBVIOUS
<1>2. QED
  BY <1>1 DEF BackTo

(* and that a set is a loop on the graph only.                             *)
LEMMA LoopsKept ==
    ASSUME NEW G, \A c \in CycleHeads : IsLoop(c, G[c]), children' = children, CycleHeads' = CycleHeads
    PROVE  (\A c \in CycleHeads : IsLoop(c, G[c]))'
BY DEF IsLoop

(* Steps that number nothing anew and end no visit.                        *)
LEMMA QuietLoops ==
    ASSUME NEW G, LoopInv(G), UNCHANGED <<children, dfn, head_dfn, stack, parent>>
    PROVE  LoopInv(G)'
<1>1. OnStack' = OnStack /\ CycleHeads' = CycleHeads
  BY DEF OnStack, CycleHeads
<1>2. \A h : OfHead(h)' = OfHead(h)
  BY <1>1 DEF OfHead
<1>3. ASSUME NEW h \in Nat \ {0} PROVE BackTo(h)'
  BY <1>1, <1>2, BackKept DEF LoopInv
<1>4. (\A c \in CycleHeads : IsLoop(c, G[c]))'
  BY <1>1, LoopsKept DEF LoopInv
<1>5. QED
  BY <1>3, <1>4 DEF LoopInv

(* push_successors ends no visit.                                          *)
LEMMA PushSuccessorsLoops ==
    ASSUME NEW G, OrderInv(G), LoopInv(G), NEW task, push_successors(task)
    PROVE  LoopInv(G)'
<1> DEFINE v == task.vertex
<1>1. /\ Popping("PushSuccessors", task) /\ dfn[v] = 0 /\ dfn' = [dfn EXCEPT ![v] = num + 1]
      /\ stack' = Append(stack, v) /\ UNCHANGED <<children, head_dfn, parent>>
  BY DEF push_successors
<1>2. TypeInv /\ Numbered
  BY DEF OrderInv
<1>3. v \in Labels /\ stack \in Seq(Labels) /\ dfn \in [Labels -> Nat]
  BY <1>1, <1>2, TopTask DEF TypeInv, TypeOK
<1>4. head_dfn[v] = 0 /\ v \notin OnStack
  BY <1>1, <1>2, <1>3, StackFacts DEF Numbered
<1>5. OnStack' = OnStack \cup {v}
  <2>1. Len(stack') = Len(stack) + 1 /\ Len(stack) \in Nat
        /\ \A i \in 1..Len(stack') : stack'[i] = IF i = Len(stack) + 1 THEN v ELSE stack[i]
    BY <1>1, <1>3
  <2>2. \A i \in 1..Len(stack') : i = Len(stack) + 1 \/ i \in 1..Len(stack)
    BY <2>1
  <2>3. \A i \in 1..Len(stack) : i \in 1..Len(stack') /\ i # Len(stack) + 1
    BY <2>1
  <2>4. Len(stack) + 1 \in 1..Len(stack')
    BY <2>1
  <2>5. QED
    BY <2>1, <2>2, <2>3, <2>4 DEF OnStack
<1>6. ASSUME NEW h \in Nat \ {0} PROVE BackTo(h)'
  <2>1. OfHead(h)' = OfHead(h)
    BY <1>1, <1>4, <1>5 DEF OfHead
  <2>2. \A s \in OnStack : s \in OnStack' /\ dfn'[s] = dfn[s]
    BY <1>1, <1>2, <1>3, <1>4, <1>5, StackFacts
  <2>3. QED
    BY <1>1, <2>1, <2>2, BackKept DEF LoopInv
<1>7. (\A c \in CycleHeads : IsLoop(c, G[c]))'
  BY <1>1, LoopsKept DEF LoopInv, CycleHeads
<1>8. QED
  BY <1>6, <1>7 DEF LoopInv

(* start_visit of a vertex that belongs to a component below it: one       *)
(* vertex more leads back.                                                 *)
LEMMA VisitMemberLoops ==
    ASSUME NEW G, OrderInv(G), NumbersFit, LoopInv(G), NEW task, VisitMember(task)
    PROVE  LoopInv(G)'
<1> DEFINE v == task.vertex
<1>1. /\ Popping("StartVisit", task)
      /\ UNCHANGED <<children, dfn, num, stack, parent>>
  BY DEF VisitMember
<1>2. TypeInv /\ Numbered /\ TasksNested /\ MembersLead
  BY DEF OrderInv
<1>3. v \in Labels /\ \A s \in children[v] : s \in Labels /\ dfn[s] # 0
  BY <1>1, <1>2, TopTask, TopVisited DEF TypeInv, TypeOK
<1>4. /\ dfn \in [Labels -> Nat] /\ num \in Nat /\ head_dfn \in [Labels -> Nat]
  BY <1>2 DEF TypeInv, TypeOK
<1>5. PICK g \in {dfn[v]} \cup {MinDfn(s) : s \in children[v]} :
        IsHeadDfn(v, g) /\ g # dfn[v] /\ head_dfn' = [head_dfn EXCEPT ![v] = g]
  BY DEF VisitMember
<1>6. PICK s \in children[v] : g = MinDfn(s)
  BY <1>5
<1>7. v \in OnStack /\ head_dfn[v] = 0 /\ dfn[v] <= num
  BY <1>1, <1>2, TopStarted, StackFacts
<1>8. s \in OnStack /\ g \in Nat
  <2>1. g \in Nat /\ g < dfn[v]
    BY <1>2, <1>3, <1>4, <1>5, <1>6, MinDfnFacts DEF IsHeadDfn
  <2>2. g # DFN_INF
    <3>1. dfn[v] \in Nat /\ num < DFN_INF
      BY <1>3, <1>4 DEF NumbersFit
    <3>2. QED
      BY <1>4, <1>7, <2>1, <3>1, InfinityFacts
  <2>3. QED
    BY <1>2, <1>3, <1>6, <2>1, <2>2, MinDfnFacts
<1>9. OnStack' = OnStack /\ CycleHeads' = CycleHeads
  BY <1>1 DEF OnStack, CycleHeads
<1>10. \A u \in OnStack : head_dfn'[u] = IF u = v THEN g ELSE head_dfn[u]
  BY <1>2, <1>4, <1>5, StackFacts
<1>11. ASSUME NEW h \in Nat \ {0} PROVE BackTo(h)'
  <2>1. CASE h # g
    <3>1. OfHead(h)' = OfHead(h)
      BY <1>7, <1>9, <1>10, <2>1 DEF OfHead
    <3>2. QED
      BY <1>1, <1>9, <3>1, BackKept DEF LoopInv
  <2>2. CASE h = g
    <3>1. OfHead(h)' = OfHead(h) \cup {v}
      BY <1>7, <1>9, <1>10, <2>2 DEF OfHead
    <3>2. ASSUME NEW A \in SUBSET Labels,
                 \A u \in OfHead(h)' : (\E w \in children[u] : w \in A \/ (w \in OnStack /\ dfn[w] = h)) => u \in A
          PROVE  OfHead(h)' \subseteq A
      <4>1. OfHead(h) \subseteq A
        BY <3>1, <3>2 DEF LoopInv, BackTo
      <4>2. s \in A \/ dfn[s] = h
        BY <1>2, <1>3, <1>6, <1>8, <2>2, <4>1, MinDfnFacts DEF OfHead
      <4>3. v \in A
        BY <1>6, <1>8, <3>1, <3>2, <4>2
      <4>4. QED
        BY <3>1, <4>1, <4>3
    <3>3. QED
      BY <1>1, <1>9, <3>2 DEF BackTo
  <2>3. QED
    BY <2>1, <2>2
<1>12. (\A c \in CycleHeads : IsLoop(c, G[c]))'
  BY <1>1, <1>9, LoopsKept DEF LoopInv
<1>13. QED
  BY <1>11, <1>12 DEF LoopInv

(* start_visit of a vertex that is a component by itself: none led back to *)
(* it.                                                                     *)
LEMMA VisitVertexLoops ==
    ASSUME NEW G, OrderInv(G), NumbersFit, LoopInv(G), NEW task, VisitVertex(task)
    PROVE  LoopInv(G)'
<1> DEFINE v == task.vertex
<1>1. /\ Popping("StartVisit", task) /\ IsHeadDfn(v, dfn[v]) /\ ~ Loops(v)
      /\ dfn' = [dfn EXCEPT ![v] = DFN_INF] /\ head_dfn' = [head_dfn EXCEPT ![v] = dfn[v]]
      /\ stack' = Front(stack) /\ UNCHANGED <<children, num, parent>>
  BY DEF VisitVertex
<1>2. TypeInv /\ Numbered /\ TasksNested /\ MembersLead /\ TypeInv'
  BY VisitVertexTyped DEF OrderInv
<1>3. v \in OnStack /\ head_dfn[v] = 0 /\ v \in Labels
  BY <1>1, <1>2, TopStarted, StackFacts
<1>4. /\ \A x \in OnStack : dfn[x] <= dfn[v]
      /\ Len(stack) \in Nat \ {0} /\ stack[Len(stack)] = v
      /\ \A i \in 1..(Len(stack) - 1) : stack[i] # v
  BY <1>1, SingleOnTop
<1>5. OnStack' = OnStack \ {v}
  <2>1. Len(stack') = Len(stack) - 1 /\ \A i \in 1..(Len(stack) - 1) : stack'[i] = stack[i]
    <3>1. stack \in Seq(Labels) /\ stack # <<>>
      BY <1>2, <1>4 DEF TypeInv, TypeOK
    <3>2. QED
      BY <1>1, <3>1, FrontFacts
  <2>2. \A i \in 1..Len(stack) : i = Len(stack) \/ i \in 1..(Len(stack) - 1)
    BY <1>4
  <2>3. \A i \in 1..(Len(stack) - 1) : i \in 1..Len(stack)
    BY <1>4
  <2>4. QED
    BY <1>4, <2>1, <2>2, <2>3 DEF OnStack
<1>6. \A x \in OnStack : x # v => x \in OnStack' /\ dfn'[x] = dfn[x] /\ head_dfn'[x] = head_dfn[x]
  <2>1. /\ dfn \in [Labels -> Nat] /\ head_dfn \in [Labels -> Nat]
    BY <1>2 DEF TypeInv, TypeOK
  <2>2. QED
    BY <1>1, <1>2, <1>3, <1>5, <2>1, StackFacts
<1>7. ASSUME NEW h \in Nat \ {0} PROVE BackTo(h)'
  <2>1. OfHead(h)' = OfHead(h)
    BY <1>3, <1>5, <1>6 DEF OfHead
  <2>2. CASE OfHead(h) = {}
    BY <2>1, <2>2 DEF BackTo
  <2>3. CASE OfHead(h) # {}
    <3>1. PICK x \in OfHead(h) : TRUE
      BY <2>3
    <3>2. x \in OnStack /\ h < dfn[x] /\ dfn[x] \in Nat /\ dfn[v] \in Nat
      BY <1>2, <1>3, <3>1, MemberHead, StackFacts
    <3>3. dfn[v] # h
      BY <1>4, <3>2
    <3>4. QED
      BY <1>1, <1>6, <2>1, <3>3, BackKept DEF LoopInv
  <2>4. QED
    BY <2>2, <2>3
<1>8. (\A c \in CycleHeads : IsLoop(c, G[c]))'
  BY <1>1, LoopsKept DEF LoopInv, CycleHeads
<1>9. QED
  BY <1>7, <1>8 DEF LoopInv

(* What is above a head leads back to it.                                  *)
LEMMA AboveLoops ==
    ASSUME NEW G, OrderInv(G), NumbersFit, LoopInv(G), NEW task, Popping("StartVisit", task),
           IsHeadDfn(task.vertex, dfn[task.vertex]), Loops(task.vertex)
    PROVE  IsLoop(task.vertex, HigherThan(task.vertex))
<1> DEFINE v == task.vertex
           H == HigherThan(v)
<1>1. TypeInv /\ Numbered /\ TasksNested /\ MembersLead
  BY DEF OrderInv
<1>2. v \in Labels /\ \A s \in children[v] : s \in Labels /\ dfn[s] # 0
  BY <1>1, TopTask, TopVisited DEF TypeInv, TypeOK
<1>3. /\ v \in OnStack /\ head_dfn[v] = 0 /\ v \in Started /\ dfn[v] \in Nat /\ dfn[v] <= num /\ num \in Nat
      /\ dfn[v] > 0
  BY <1>1, TopStarted, StackFacts DEF TypeInv, TypeOK
<1>4. H \cap Started = {} /\ \A x \in H : head_dfn[x] >= dfn[v]
  BY AboveHead
<1>5. \A x \in H : x \in OnStack /\ x \in Labels /\ x # v /\ dfn[x] \in Nat /\ dfn[x] > dfn[v]
                  /\ head_dfn[x] \in Nat /\ head_dfn[x] > 0
  BY <1>1, <1>3, <1>4, StackFacts DEF HigherThan
<1>6. \A A \in SUBSET Labels : v \in A /\ (\A u \in A : children[u] \cap H \subseteq A) => H \subseteq A
  BY AboveHead
<1>7. ASSUME NEW A \in SUBSET Labels, v \in A, \A u \in H \cup {v} : children[u] \cap A # {} => u \in A
      PROVE  H \subseteq A
  <2> DEFINE X == H \ A
             T == {dfn[x] : x \in X}
  <2> SUFFICES ASSUME X # {} PROVE FALSE
    OBVIOUS
  <2>1. T \in SUBSET Nat /\ T # {}
    BY <1>5
  <2>2. PICK m \in T : \A k \in T : m <= k
    <3> HIDE DEF T
    <3>1. QED
      BY <2>1, LeastExists
  <2>3. PICK x \in X : dfn[x] = m
    OBVIOUS
  <2>4. \A t \in H : dfn[t] < dfn[x] => t \in A
    <3>1. \A t \in X : dfn[x] <= dfn[t] /\ dfn[x] \in Nat /\ dfn[t] \in Nat
      BY <1>5, <2>2, <2>3
    <3>2. QED
      BY <3>1
  <2> DEFINE h == head_dfn[x]
  <2>5. x \in H /\ x \notin A /\ h \in Nat \ {0} /\ h >= dfn[v] /\ x \in OfHead(h)
    BY <1>4, <1>5, <2>3 DEF OfHead
  <2>6. PICK y \in OnStack : dfn[y] = h /\ h < dfn[x]
    BY <1>1, <2>5, MemberHead
  <2>7. y \in A
    <3>1. dfn[y] = dfn[v] => y = v
      BY <1>1, <1>3, StackDistinct
    <3>2. dfn[y] # dfn[v] => y \in H
      BY <1>3, <2>5, <2>6 DEF HigherThan
    <3>3. QED
      BY <1>7, <2>4, <2>6, <3>1, <3>2
  <2>8. \A s \in OnStack : dfn[s] = h => s \in A
    BY <1>1, <2>6, <2>7, StackDistinct
  <2>9. OfHead(h) \subseteq H
    <3> SUFFICES ASSUME NEW u \in OfHead(h) PROVE u \in H
      OBVIOUS
    <3>1. u \in OnStack /\ h < dfn[u] /\ dfn[u] \in Nat
      BY <1>1, <2>5, MemberHead, StackFacts
    <3>2. dfn[u] > dfn[v]
      BY <1>3, <2>5, <3>1
    <3>3. QED
      BY <3>1, <3>2 DEF HigherThan
  <2>10. \A u \in OfHead(h) : (\E s \in children[u] : s \in A \/ (s \in OnStack /\ dfn[s] = h)) => u \in A
    BY <1>7, <2>8, <2>9
  <2>11. OfHead(h) \subseteq A
    <3> HIDE DEF h
    <3>1. QED
      BY <2>5, <2>10 DEF LoopInv, BackTo
  <2>12. QED
    BY <2>5, <2>11
<1>8. \E u \in H \cup {v} : v \in children[u]
  <2>1. PICK s \in children[v] : MinDfn(s) <= dfn[v]
    BY DEF Loops
  <2>2. MinDfn(s) = dfn[v] /\ s \in Labels /\ dfn[s] # 0
    <3>1. dfn[v] <= MinDfn(s) /\ s \in Labels /\ dfn[s] # 0
      BY <1>2, <2>1 DEF IsHeadDfn
    <3>2. MinDfn(s) \in Nat
      BY <1>1, <3>1, MinDfnFacts
    <3>3. QED
      BY <1>3, <2>1, <3>1, <3>2
  <2>3. s \in OnStack
    <3>1. MinDfn(s) # DFN_INF
      BY <1>3, <2>2, InfinityFacts DEF NumbersFit
    <3>2. QED
      BY <1>1, <2>2, <3>1, MinDfnFacts
  <2>4. CASE head_dfn[s] = 0
    <3>1. dfn[s] = dfn[v]
      BY <1>1, <2>2, <2>3, <2>4, MinDfnFacts
    <3>2. s = v
      BY <1>1, <1>3, <2>3, <3>1, StackDistinct
    <3>3. QED
      BY <2>1, <3>2
  <2>5. CASE head_dfn[s] # 0
    <3>1. head_dfn[s] = dfn[v] /\ s \in OfHead(dfn[v])
      BY <1>1, <2>2, <2>3, <2>5, MinDfnFacts DEF OfHead
    <3>2. dfn[v] < dfn[s]
      BY <1>1, <1>3, <3>1, MemberHead
    <3>3. s \in H /\ s # v
      BY <1>3, <2>3, <3>2 DEF HigherThan
    <3>4. SUFFICES ASSUME \A u \in H \cup {v} : v \notin children[u] PROVE FALSE
      OBVIOUS
    <3>5. H \subseteq {v}
      <4>1. {v} \in SUBSET Labels /\ \A u \in H \cup {v} : children[u] \cap {v} # {} => u \in {v}
        BY <1>2, <3>4
      <4> HIDE DEF H
      <4>2. QED
        BY <1>7, <4>1
    <3>6. QED
      BY <3>3, <3>5
  <2>6. QED
    BY <2>4, <2>5
<1>9. QED
  BY <1>6, <1>7, <1>8 DEF IsLoop

(* start_visit of a head: what was above it becomes a loop.                *)
LEMMA VisitHeadLoops ==
    ASSUME NEW G, OrderInv(G), NumbersFit, LoopInv(G), NEW task, VisitHead(task), NEW G2,
           G2 = [c \in CycleHeads \cup {task.vertex} |-> IF c = task.vertex THEN HigherThan(task.vertex) ELSE G[c]],
           OrderInv(G2)'
    PROVE  LoopInv(G2)'
<1> DEFINE v == task.vertex
           H == HigherThan(v)
<1>1. /\ Popping("StartVisit", task) /\ IsHeadDfn(v, dfn[v]) /\ Loops(v)
      /\ CycleHeads' = CycleHeads \cup {v} /\ children' = children
  BY DEF VisitHead, CycleHeads
<1>2. TypeInv /\ Numbered /\ TasksNested /\ MembersLead /\ TypeInv' /\ Numbered' /\ MembersLead'
  BY DEF OrderInv
<1>3. v \in OnStack /\ head_dfn[v] = 0 /\ v \notin CycleHeads /\ v \in Labels /\ dfn[v] \in Nat
  BY <1>1, <1>2, TopStarted, StackFacts
<1>4. \A x \in H : head_dfn[x] >= dfn[v]
  BY <1>1, AboveHead
<1>5. /\ OnStack' = {x \in OnStack : dfn[x] < dfn[v]}
      /\ \A x \in OnStack' : dfn'[x] = dfn[x] /\ head_dfn'[x] = head_dfn[x]
  <2>1. /\ OnStack' = {x \in OnStack : dfn[x] < dfn[v]}
        /\ \A u \in Labels : u # v /\ u \notin H => dfn'[u] = dfn[u] /\ head_dfn'[u] = head_dfn[u]
    BY <1>2, VisitHeadPops
  <2>2. \A x \in OnStack : dfn[x] < dfn[v] => x # v /\ x \notin H /\ x \in Labels
    BY <1>2, <1>3, StackFacts DEF HigherThan
  <2> HIDE DEF H
  <2>3. QED
    BY <2>1, <2>2
<1>6. ASSUME NEW h \in Nat \ {0} PROVE BackTo(h)'
  <2>1. CASE h >= dfn[v]
    <3>1. OfHead(h)' = {}
      <4> SUFFICES ASSUME NEW x \in OnStack', head_dfn'[x] = h PROVE FALSE
        BY DEF OfHead
      <4>1. x \in OnStack /\ dfn[x] < dfn[v] /\ x \in OfHead(h)
        BY <1>5 DEF OfHead
      <4>2. h < dfn[x] /\ dfn[x] \in Nat
        BY <1>2, <4>1, MemberHead, StackFacts
      <4>3. QED
        BY <1>3, <2>1, <4>1, <4>2
    <3>2. QED
      BY <3>1 DEF BackTo
  <2>2. CASE h < dfn[v]
    <3>1. ASSUME NEW x \in OfHead(h) PROVE x \in OnStack'
      <4>1. x \in OnStack /\ head_dfn[x] = h /\ dfn[x] \in Nat
        BY <1>2, StackFacts DEF OfHead
      <4>2. ~ (dfn[x] > dfn[v])
        BY <1>3, <1>4, <2>2, <4>1 DEF HigherThan
      <4>3. dfn[x] # dfn[v]
        BY <1>2, <1>3, <4>1, StackDistinct
      <4>4. QED
        BY <1>3, <1>5, <4>1, <4>2, <4>3
    <3>2. OfHead(h)' = OfHead(h)
      BY <1>5, <3>1 DEF OfHead
    <3>3. \A s \in OnStack : dfn[s] = h => s \in OnStack' /\ dfn'[s] = h
      BY <1>5, <2>2
    <3>4. QED
      BY <1>1, <3>2, <3>3, BackKept DEF LoopInv
  <2>3. QED
    BY <1>3, <2>1, <2>2
<1>7. ASSUME NEW c \in CycleHeads' PROVE IsLoop(c, G2[c])'
  <2>1. IsLoop(c, G2[c])
    <3>1. CASE c = v
      <4>1. G2[c] = H
        BY <3>1
      <4>2. IsLoop(v, H)
        BY <1>1, AboveLoops
      <4> HIDE DEF H
      <4>3. QED
        BY <3>1, <4>1, <4>2
    <3>2. CASE c # v
      <4>1. c \in CycleHeads /\ G2[c] = G[c]
        BY <1>1, <3>2
      <4>2. QED
        BY <4>1 DEF LoopInv
    <3>3. QED
      BY <3>1, <3>2
  <2>2. QED
    BY <1>1, <2>1 DEF IsLoop
<1>8. QED
  BY <1>6, <1>7 DEF LoopInv

-----------------------------------------------------------------------------
(* Some choice of what each cycle holds fits.                              *)
OrderHolds == \E G : OrderInv(G) /\ LoopInv(G)

(* The invariant holds at the start, where nothing has been visited,       *)
LEMMA OrderInit == Init => OrderHolds
<1> SUFFICES ASSUME Init PROVE OrderHolds
  OBVIOUS
<1> DEFINE G == [c \in {} |-> {}]
           first == MkTask("PushSuccessors", Entry, Root)
<1>1. /\ children \in Graphs /\ dfn = [v \in Labels |-> 0] /\ head_dfn = [v \in Labels |-> 0] /\ num = 0
      /\ stack = <<>> /\ visit_stack = <<first>> /\ components = [c \in {Root} |-> <<>>] /\ parent = <<>>
  BY DEF Init
<1>2. Len(visit_stack) = 1 /\ visit_stack[1] = first /\ Len(stack) = 0 /\ visit_stack # <<>>
  BY <1>1
<1>3. first.type = "PushSuccessors" /\ first.vertex = Entry /\ first.in = Root
  BY DEF MkTask
<1> HIDE DEF first
<1>4. \A i \in 1..Len(visit_stack) : i = 1
  BY <1>2
<1>5. OnStack = {} /\ Started = {} /\ Active = {} /\ CycleHeads = {} /\ Growing = {Root}
  <2>1. OnStack = {}
    BY <1>2 DEF OnStack
  <2>2. Started = {} /\ Active = {}
    BY <1>2, <1>3, <1>4 DEF Started, Active, VerticesOf
  <2>3. CycleHeads = {}
    BY <1>1 DEF CycleHeads
  <2>4. QED
    BY <2>1, <2>2, <2>3 DEF Growing
<1>6. \A v \in Labels : dfn[v] = 0 /\ ~ IsPlaced(v)
  BY <1>1, InfinityFacts DEF IsPlaced
<1>7. TypeInv
  BY TypeInit
<1>8. Numbered
  BY <1>1, <1>2, <1>5, <1>6 DEF Numbered
<1>9. TasksNested
  <2>1. InnermostAt(1) /\ ~ Opened(1)
    BY <1>2, <1>3 DEF InnermostAt, Opened
  <2>2. TaskFits(1)
    BY <1>2, <1>3, <1>6, <2>1, LabelsAssumption DEF TaskFits
  <2>3. QED
    BY <1>4, <2>1, <2>2 DEF TasksNested
<1>10. MembersLead /\ VisitedFrom
  BY <1>5 DEF MembersLead, VisitedFrom
<1>11. ScopesOK(G)
  BY <1>5 DEF ScopesOK
<1>12. ChildrenComing(G)
  BY <1>5 DEF ChildrenComing
<1>13. /\ DOMAIN components = {Root} /\ Len(components[Root]) = 0 /\ Placed(Root, G) = {}
       /\ \A i \in 1..Len(components[Root]) : FALSE
  <2>1. DOMAIN components = {Root} /\ components[Root] = <<>>
    BY <1>1
  <2>2. Len(components[Root]) = 0 /\ \A i \in 1..Len(components[Root]) : FALSE
    BY <2>1
  <2>3. QED
    BY <2>1, <2>2 DEF Placed
<1>14. PlacedOK(G)
  BY <1>5, <1>6, <1>13 DEF PlacedOK
<1>15. PartsOK(G) /\ Places
  BY <1>5, <1>6, <1>13 DEF PartsOK, Places
<1>16. Reached /\ EntryLast
  BY <1>2, <1>6 DEF Reached, EntryLast
<1>17. OrderInv(G)
  BY <1>7, <1>8, <1>9, <1>10, <1>11, <1>12, <1>14, <1>15, <1>16 DEF OrderInv
<1>18. LoopInv(G)
  <2>1. \A h : OfHead(h) = {}
    BY <1>5 DEF OfHead
  <2>2. QED
    BY <1>5, <2>1 DEF LoopInv, BackTo
<1>19. QED
  BY <1>17, <1>18 DEF OrderHolds

(* and every step preserves it while the numbers fit.                      *)
LEMMA OrderStep == OrderHolds /\ NumbersFit /\ NumbersFit' /\ [Next]_vars => OrderHolds'
<1> SUFFICES ASSUME OrderHolds, NumbersFit, NumbersFit', [Next]_vars PROVE OrderHolds'
  OBVIOUS
<1>1. PICK G : OrderInv(G) /\ LoopInv(G)
  BY DEF OrderHolds
<1>2. ASSUME NEW task, RunTask(task) PROVE \E G2 : OrderInv(G2)' /\ LoopInv(G2)'
  <2>1. CASE PushVisited(task)
    <3>1. OrderInv(G)'
      BY <1>1, <2>1, PushVisitedOrder
    <3>2. LoopInv(G)'
      BY <1>1, <2>1, QuietLoops DEF PushVisited
    <3>3. QED
      BY <3>1, <3>2
  <2>2. CASE push_successors(task)
    <3>1. OrderInv(G)'
      BY <1>1, <2>2, PushSuccessorsOrder
    <3>2. LoopInv(G)'
      BY <1>1, <2>2, PushSuccessorsLoops
    <3>3. QED
      BY <3>1, <3>2
  <2>3. CASE VisitMember(task)
    <3>1. OrderInv(G)'
      BY <1>1, <2>3, VisitMemberOrder
    <3>2. LoopInv(G)'
      BY <1>1, <2>3, VisitMemberLoops
    <3>3. QED
      BY <3>1, <3>2
  <2>4. CASE VisitVertex(task)
    <3>1. OrderInv(G)'
      BY <1>1, <2>4, VisitVertexOrder
    <3>2. LoopInv(G)'
      BY <1>1, <2>4, VisitVertexLoops
    <3>3. QED
      BY <3>1, <3>2
  <2>5. CASE VisitHead(task)
    <3> DEFINE v == task.vertex
    <3>1. PICK G2 : G2 = [c \in CycleHeads \cup {v} |-> IF c = v THEN HigherThan(v) ELSE G[c]]
      OBVIOUS
    <3>2. OrderInv(G2)'
      BY <1>1, <2>5, <3>1, VisitHeadOrder
    <3>3. LoopInv(G2)'
      BY <1>1, <2>5, <3>1, <3>2, VisitHeadLoops
    <3>4. QED
      BY <3>2, <3>3
  <2>6. CASE continue_visit(task)
    <3>1. OrderInv(G)'
      BY <1>1, <2>6, ContinueVisitOrder
    <3>2. LoopInv(G)'
      BY <1>1, <2>6, QuietLoops DEF continue_visit
    <3>3. QED
      BY <3>1, <3>2
  <2>7. QED
    BY <1>2, <2>1, <2>2, <2>3, <2>4, <2>5, <2>6 DEF RunTask
<1>3. CASE BuildStep
  BY <1>2, <1>3 DEF BuildStep, OrderHolds
<1>4. CASE UNCHANGED vars
  <2>1. UNCHANGED <<children, dfn, head_dfn, num, stack, visit_stack, components, parent, containing_cycle>>
    BY <1>4 DEF vars, builderVars
  <2>2. /\ UNCHANGED <<OnStack, Started, Active, Growing, CycleHeads>>
        /\ \A a, b : Together(a, b)' <=> Together(a, b)
        /\ \A x : Level(x)' = Level(x) /\ (IsPlaced(x)' <=> IsPlaced(x)) /\ Placed(x, G)' = Placed(x, G)
    BY <2>1 DEF OnStack, Started, Active, VerticesOf, Growing, CycleHeads, Together, Level, IsPlaced,
                Placed, Inside, Whole
  <2>3. TypeInv' /\ Numbered' /\ TasksNested'
    <3>1. TypeInv'
      BY <1>1, TypeStep DEF OrderInv
    <3>2. Numbered'
      BY <1>1, <2>1, <2>2 DEF OrderInv, Numbered
    <3>3. TasksNested'
      BY <1>1, <2>1, <2>2 DEF OrderInv, TasksNested, TaskFits, InnermostAt, Below, Opened, NumberOf
    <3>4. QED
      BY <3>1, <3>2, <3>3
  <2>4. MembersLead' /\ VisitedFrom'
    BY <1>1, <2>1, <2>2 DEF OrderInv, MembersLead, MemberLeads, VisitedFrom, Together
  <2>5. ScopesOK(G)' /\ ChildrenComing(G)'
    <3>1. ScopesOK(G)'
      BY <1>1, <2>1, <2>2 DEF OrderInv, ScopesOK, Whole
    <3>2. \A x, s : Waiting(x, s)' <=> Waiting(x, s)
      BY <2>1 DEF Waiting, Opened
    <3>3. ChildrenComing(G)'
      BY <1>1, <2>1, <2>2, <3>2 DEF OrderInv, ChildrenComing, Coming
    <3>4. QED
      BY <3>1, <3>3
  <2>6. PlacedOK(G)' /\ PartsOK(G)' /\ Places'
    <3>1. PlacedOK(G)'
      BY <1>1, <2>1, <2>2 DEF OrderInv, PlacedOK, Whole
    <3>2. PartsOK(G)'
      BY <1>1, <2>1, PartsKept DEF OrderInv
    <3>3. Places'
      BY <1>1, <2>1, <2>2 DEF OrderInv, Places, PlaceFits, HasPlace
    <3>4. QED
      BY <3>1, <3>2, <3>3
  <2>7. Reached' /\ EntryLast'
    BY <1>1, <2>1 DEF OrderInv, Reached, EntryLast
  <2>8. OrderInv(G)'
    BY <2>3, <2>4, <2>5, <2>6, <2>7 DEF OrderInv
  <2>9. LoopInv(G)'
    BY <1>1, <2>1, QuietLoops
  <2>10. QED
    BY <2>8, <2>9 DEF OrderHolds
<1>5. QED
  BY <1>3, <1>4 DEF Next, Terminating

-----------------------------------------------------------------------------
(* Nothing leads out of P.                                                 *)
IsClosed(P) == \A u \in P : children[u] \subseteq P

(* ReachableFrom is the least set with S that is closed within W.          *)
ClosedWithin(P, W) == \A u \in P : children[u] \cap W \subseteq P

LEMMA ReachableFromLeast ==
    ASSUME TypeOK, NEW S \in SUBSET Labels, NEW W \in SUBSET Labels
    PROVE  /\ S \subseteq ReachableFrom(S, W) /\ ReachableFrom(S, W) \subseteq S \cup W
           /\ ClosedWithin(ReachableFrom(S, W), W)
           /\ \A A \in SUBSET Labels : S \subseteq A /\ ClosedWithin(A, W) => ReachableFrom(S, W) \subseteq A
<1> DEFINE n == Cardinality(Labels)
           Succ(P) == P \cup (W \cap UNION {children[l] : l \in P})
           IsIter(R) == R = [k \in 0..n |-> IF k = 0 THEN S
                                            ELSE LET prev == R[k - 1]
                                                 IN  prev \cup (W \cap UNION {children[l] : l \in prev})]
           reach == CHOOSE R : IsIter(R)
<1>1. n \in Nat /\ IsFiniteSet(Labels) /\ children \in [Labels -> SUBSET Labels]
  BY LabelsAssumption, FS_CardinalityType DEF TypeOK
<1>2. ReachableFrom(S, W) = reach[n]
  BY DEF ReachableFrom
<1>3. IsIter(reach)
  <2> DEFINE step == [P \in SUBSET Labels |-> Succ(P)]
  <2>1. step \in [SUBSET Labels -> SUBSET Labels] /\ S \in SUBSET Labels
    BY <1>1
  <2> HIDE DEF step, n
  <2>0. n \in Nat
    BY <1>1 DEF n
  <2>2. \E it \in [0..n -> SUBSET Labels] : IsSequence(it, n, S, step)
    <3> HIDE DEF reach, IsIter, Succ
    <3>1. QED
      BY <2>0, <2>1, SequenceExists
  <2>a. PICK it \in [0..n -> SUBSET Labels] : it = [k \in 0..n |-> IF k = 0 THEN S ELSE step[it[k - 1]]]
    BY <2>2 DEF IsSequence
  <2>3. \A k \in 0..n : k # 0 => k - 1 \in 0..n
    BY <1>1
  <2>4. \A k \in 0..n : k # 0 => step[it[k - 1]] = Succ(it[k - 1])
    BY <2>3 DEF step
  <2>5. it = [k \in 0..n |-> IF k = 0 THEN S ELSE Succ(it[k - 1])]
    BY <2>a, <2>4
  <2>6. IsIter(it)
    BY <2>5
  <2> HIDE DEF IsIter
  <2>7. QED
    BY <2>6
<1> HIDE DEF reach
<1>4. reach[0] = S /\ \A k \in 0..n : k # 0 => reach[k] = Succ(reach[k - 1])
  <2>1. 0 \in 0..n
    BY <1>1
  <2> HIDE DEF n
  <2>2. QED
    BY <1>3, <2>1
<1> HIDE DEF IsIter, n
<1> DEFINE Good(k) == /\ reach[k] \subseteq S \cup W /\ S \subseteq reach[k]
                      /\ ClosedWithin(reach[k], W) \/ Cardinality(reach[k]) >= k + 1
                      /\ \A A \in SUBSET Labels : S \subseteq A /\ ClosedWithin(A, W) => reach[k] \subseteq A
           B == {k \in Nat : k <= n => Good(k)}
<1>5. 0 \in B
  <2>1. ClosedWithin(S, W) \/ Cardinality(S) >= 1
    <3>1. CASE S = {}
      BY <3>1 DEF ClosedWithin
    <3>2. CASE S # {}
      <4>1. IsFiniteSet(S)
        BY <1>1, FS_Subset
      <4>2. Cardinality(S) \in Nat /\ Cardinality(S) # 0
        BY <3>2, <4>1, FS_CardinalityType, FS_EmptySet
      <4>3. QED
        BY <4>2
    <3>3. QED
      BY <3>1, <3>2
  <2>2. Good(0)
    BY <1>1, <1>4, <2>1
  <2>3. QED
    BY <2>2
<1>6. ASSUME NEW k \in Nat, k \in B PROVE k + 1 \in B
  <2> SUFFICES ASSUME k + 1 <= n PROVE Good(k + 1)
    OBVIOUS
  <2>1. Good(k) /\ k + 1 \in 0..n /\ k + 1 # 0 /\ (k + 1) - 1 = k
    BY <1>1, <1>6
  <2> DEFINE P == reach[k]
             Q == reach[k + 1]
  <2>2. Q = Succ(P)
    BY <1>4, <2>1
  <2> HIDE DEF P, Q
  <2>3. P \subseteq S \cup W /\ S \subseteq P /\ P \subseteq Labels
    BY <2>1 DEF P
  <2>4. \A u \in P : children[u] \cap W \subseteq Q
    BY <1>1, <2>2, <2>3
  <2>5. P \subseteq Q /\ Q \subseteq S \cup W /\ Q \subseteq Labels
    BY <2>2, <2>3
  <2>6. ASSUME NEW A \in SUBSET Labels, S \subseteq A, ClosedWithin(A, W) PROVE Q \subseteq A
    <3>1. P \subseteq A
      BY <2>1, <2>6 DEF P
    <3>2. QED
      BY <2>2, <2>6, <3>1 DEF ClosedWithin
  <2>7. ClosedWithin(Q, W) \/ Cardinality(Q) >= k + 2
    <3>1. CASE Q = P /\ ClosedWithin(P, W)
      BY <3>1
    <3>2. CASE Q = P /\ ~ ClosedWithin(P, W)
      BY <2>4, <3>2 DEF ClosedWithin
    <3>3. CASE Q # P /\ ClosedWithin(P, W)
      BY <2>2, <2>5, <3>3 DEF ClosedWithin
    <3>4. CASE Q # P /\ ~ ClosedWithin(P, W)
      <4>1. Cardinality(P) >= k + 1
        BY <2>1, <3>4 DEF P
      <4>2. IsFiniteSet(Q) /\ IsFiniteSet(P)
        BY <1>1, <2>3, <2>5, FS_Subset
      <4>3. Cardinality(P) \in Nat /\ Cardinality(Q) \in Nat
        BY <4>2, FS_CardinalityType
      <4>4. Cardinality(P) <= Cardinality(Q) /\ Cardinality(P) # Cardinality(Q)
        BY <2>5, <3>4, <4>2, FS_Subset
      <4>5. QED
        BY <4>1, <4>3, <4>4
    <3>5. QED
      BY <3>1, <3>2, <3>3, <3>4
  <2>8. (k + 1) + 1 = k + 2
    OBVIOUS
  <2>9. QED
    BY <2>3, <2>5, <2>6, <2>7, <2>8 DEF Q
<1> HIDE DEF B
<1>7. Good(n)
  <2>1. \A k \in Nat : k \in B
    BY <1>5, <1>6, NumberInduction
  <2>2. n \in B /\ n <= n
    BY <1>1, <2>1
  <2>3. QED
    BY <2>2 DEF B
<1>8. ClosedWithin(reach[n], W)
  <2> SUFFICES ASSUME Cardinality(reach[n]) >= n + 1 PROVE FALSE
    BY <1>7
  <2>0. reach[n] \in SUBSET Labels
    BY <1>7
  <2>1. Cardinality(reach[n]) \in Nat /\ Cardinality(reach[n]) <= n
    BY <1>1, <2>0, FS_Subset, FS_CardinalityType DEF n
  <2>2. QED
    BY <1>1, <2>1
<1>9. QED
  BY <1>2, <1>7, <1>8

(* Reachable is the least closed set with Entry.                           *)
LEMMA ReachableLeast ==
    ASSUME TypeOK
    PROVE  /\ Reachable \subseteq Labels /\ Entry \in Reachable /\ IsClosed(Reachable)
           /\ \A A \in SUBSET Labels : Entry \in A /\ IsClosed(A) => Reachable \subseteq A
<1>1. {Entry} \in SUBSET Labels /\ Labels \in SUBSET Labels /\ children \in [Labels -> SUBSET Labels]
  BY LabelsAssumption DEF TypeOK
<1>2. \A P \in SUBSET Labels : ClosedWithin(P, Labels) <=> IsClosed(P)
  BY <1>1 DEF ClosedWithin, IsClosed
<1>3. /\ {Entry} \subseteq Reachable /\ Reachable \subseteq {Entry} \cup Labels /\ ClosedWithin(Reachable, Labels)
      /\ \A A \in SUBSET Labels : {Entry} \subseteq A /\ ClosedWithin(A, Labels) => Reachable \subseteq A
  BY <1>1, ReachableFromLeast DEF Reachable
<1>4. QED
  BY <1>1, <1>2, <1>3

-----------------------------------------------------------------------------
(* What the invariant says of the two stacks.                              *)
LEMMA DisciplineHolds == OrderHolds /\ NumbersFit => StackDiscipline
<1> SUFFICES ASSUME NEW G, OrderInv(G), NumbersFit PROVE StackDiscipline
  BY DEF OrderHolds
<1>1. TypeInv /\ Numbered
  BY DEF OrderInv
<1>2. /\ \A i, j \in 1..Len(stack) : i < j => dfn[stack[i]] < dfn[stack[j]]
      /\ {stack[i] : i \in 1..Len(stack)} = {v \in Labels : dfn[v] \notin {0, DFN_INF}}
  BY <1>1 DEF Numbered, OnStack
<1>3. ASSUME visit_stack # <<>>, Last(visit_stack).type = "StartVisit"
      PROVE  LET v == Last(visit_stack).vertex
             IN  /\ \A s \in children[v] : dfn[s] # 0
                 /\ IsHeadDfn(v, dfn[v]) /\ ~Loops(v) => stack # <<>> /\ Last(stack) = v
  <2> DEFINE task == Last(visit_stack)
  <2>1. Popping("StartVisit", task)
    BY <1>3 DEF Popping
  <2> HIDE DEF task
  <2>2. \A s \in children[task.vertex] : dfn[s] # 0
    BY <2>1, TopVisited
  <2>3. ASSUME IsHeadDfn(task.vertex, dfn[task.vertex]), ~ Loops(task.vertex)
        PROVE  stack # <<>> /\ Last(stack) = task.vertex
    <3>1. Len(stack) \in Nat \ {0} /\ stack[Len(stack)] = task.vertex
      BY <2>1, <2>3, SingleOnTop
    <3>2. QED
      BY <3>1 DEF Last
  <2>4. QED
    BY <2>2, <2>3 DEF task
<1>4. QED
  BY <1>2, <1>3 DEF StackDiscipline

-----------------------------------------------------------------------------
(* Where the builder ends.                                                 *)
LEMMA BuiltFacts ==
    ASSUME NEW G, OrderInv(G), Built
    PROVE  /\ Active = {} /\ Growing = {Root}
           /\ {l \in Labels : IsPlaced(l)} = Placed(Root, G) /\ Placed(Root, G) = Reachable
           /\ \A c \in CycleHeads : /\ Placed(c, G) = Whole(c, G)
                                    /\ components[c] # <<>> /\ Last(components[c]) = Vertex(c)
           /\ components[Root] # <<>> /\ Last(components[Root]).label = Entry
<1>1. TypeInv /\ TypeOK /\ Numbered /\ MembersLead /\ ScopesOK(G) /\ PlacedOK(G) /\ Places /\ Reached /\ EntryLast
  BY DEF OrderInv, TypeInv
<1>2. Len(visit_stack) = 0 /\ visit_stack = <<>>
  BY DEF Built
<1>3. Started = {} /\ Active = {} /\ Growing = {Root}
  BY <1>2 DEF Started, Active, VerticesOf, Growing
<1>4. OnStack = {}
  BY <1>1, <1>3, LowestStarted
<1>5. DOMAIN components = CycleHeads \cup {Root} /\ Root \in DOMAIN components
  BY <1>1, ActiveHeads
<1>6. components[Root] # <<>> /\ Last(components[Root]).label = Entry
  BY <1>1, <1>2 DEF EntryLast
<1>7. {l \in Labels : IsPlaced(l)} = Placed(Root, G)
  <2>1. Placed(Root, G) \subseteq Labels
    BY <1>1, <1>5, PlacedLabels
  <2>2. \A w \in Placed(Root, G) : IsPlaced(w)
    BY <1>1, <1>3 DEF PlacedOK
  <2>3. \A w \in Labels : IsPlaced(w) => w \in Placed(Root, G)
    BY <1>1, <1>3 DEF PlacedOK
  <2>4. QED
    BY <2>1, <2>2, <2>3
<1>8. Entry \in Placed(Root, G)
  <2> DEFINE i == Len(components[Root])
             e == components[Root][i]
  <2>1. components[Root] \in Seq(Component) /\ i \in 1..i
    BY <1>1, <1>5, <1>6 DEF TypeOK
  <2>2. e.label = Entry
    BY <1>6 DEF Last
  <2>3. PlaceFits(Root, e)
    BY <1>1, <1>5, <2>1 DEF Places
  <2>4. IsPlaced(e.label)
    BY <1>1, <2>3 DEF PlaceFits, IsPlaced, Numbered
  <2>5. QED
    BY <1>7, <2>2, <2>4, LabelsAssumption
<1>9. IsClosed(Placed(Root, G))
  <2>1. \A u \in Placed(Root, G) : \A w \in children[u] : w \in Labels /\ IsPlaced(w)
    BY <1>1, <1>3, <1>7 DEF PlacedOK, TypeOK
  <2>2. QED
    BY <1>7, <2>1 DEF IsClosed
<1>10. Reachable \subseteq Placed(Root, G)
  <2>1. Placed(Root, G) \in SUBSET Labels
    BY <1>7
  <2>2. QED
    BY <1>1, <1>8, <1>9, <2>1, ReachableLeast
<1>11. Placed(Root, G) \subseteq Reachable
  <2>1. Reachable \in SUBSET Labels /\ Entry \in Reachable /\ IsClosed(Reachable)
    BY <1>1, ReachableLeast
  <2>2. \A v \in Labels : dfn[v] # 0 => v \in Reachable
    BY <1>1, <2>1 DEF Reached, IsClosed
  <2>3. \A v \in Labels : IsPlaced(v) => dfn[v] # 0
    BY InfinityFacts DEF IsPlaced
  <2>4. QED
    BY <1>7, <2>2, <2>3
<1>12. \A c \in CycleHeads : /\ Placed(c, G) = Whole(c, G)
                             /\ components[c] # <<>> /\ Last(components[c]) = Vertex(c)
  BY <1>1, <1>3 DEF PlacedOK
<1>13. QED
  BY <1>3, <1>6, <1>7, <1>10, <1>11, <1>12

(* A component that stands somewhere stands there only.                    *)
LEMMA OnePlace ==
    ASSUME Places, NEW e, NEW c \in DOMAIN components, HasPlace(c, e)
    PROVE  /\ Cardinality(Positions(e)) = 1
           /\ \A p \in Positions(e) : p[1] = c
<1>1. PICK i \in 1..Len(components[c]) : components[c][i] = e
  BY DEF HasPlace
<1>2. \A d \in DOMAIN components : \A j \in 1..Len(components[d]) :
        components[d][j] = e => d = c /\ j = i
  BY <1>1 DEF Places
<1>3. Positions(e) = {<<c, i>>}
  <2>1. \A p \in Positions(e) : p = <<c, i>>
    BY <1>2 DEF Positions
  <2>2. <<c, i>> \in Positions(e)
    BY <1>1 DEF Positions
  <2>3. QED
    BY <2>1, <2>2
<1>4. Cardinality(Positions(e)) = 1
  BY <1>3, FS_Singleton
<1>5. \A p \in Positions(e) : p[1] = c
  BY <1>3
<1>6. QED
  BY <1>4, <1>5

(* What the invariant says of the places when the builder ends.            *)
LEMMA PlacedOnceAtEnd == OrderHolds => EachPlacedOnce
<1> SUFFICES ASSUME NEW G, OrderInv(G), Built
             PROVE  /\ \A l \in Reachable : Cardinality(Positions(Vertex(l))) = 1
                    /\ \A l \in Labels \ Reachable : Positions(Vertex(l)) = {}
                    /\ \A c \in CycleHeads : /\ Cardinality(Positions(Cycle(c))) = 1
                                             /\ components[c] # <<>> /\ Last(components[c]) = Vertex(c)
                                             /\ \A p \in Positions(Cycle(c)) : p[1] = parent[c]
                    /\ \A l \in Labels \ CycleHeads : Positions(Cycle(l)) = {}
                    /\ components[Root] # <<>> /\ Last(components[Root]).label = Entry
  BY DEF OrderHolds, EachPlacedOnce
<1>1. TypeInv /\ TypeOK /\ Numbered /\ Places
  BY DEF OrderInv, TypeInv
<1>2. Active = {} /\ Reachable = {l \in Labels : IsPlaced(l)} /\ DOMAIN components = CycleHeads \cup {Root}
  BY <1>1, BuiltFacts, ActiveHeads
<1>3. \A c \in DOMAIN components : \A i \in 1..Len(components[c]) : PlaceFits(c, components[c][i])
  BY <1>1 DEF Places
<1>4. ASSUME NEW e, Positions(e) # {} PROVE \E c \in DOMAIN components : PlaceFits(c, e)
  <2>1. PICK c \in DOMAIN components : \E i \in 1..Len(components[c]) : components[c][i] = e
    BY <1>4 DEF Positions
  <2>2. QED
    BY <1>3, <2>1
<1>5. ASSUME NEW l \in Reachable PROVE Cardinality(Positions(Vertex(l))) = 1
  <2>1. PICK c \in DOMAIN components : HasPlace(c, Vertex(l))
    BY <1>1, <1>2 DEF Places
  <2>2. QED
    BY <1>1, <2>1, OnePlace
<1>6. ASSUME NEW l \in Labels \ Reachable PROVE Positions(Vertex(l)) = {}
  <2>1. \A c : ~ PlaceFits(c, Vertex(l))
    BY <1>2 DEF PlaceFits, Vertex
  <2>2. QED
    BY <1>4, <2>1
<1>7. ASSUME NEW c \in CycleHeads
      PROVE  /\ Cardinality(Positions(Cycle(c))) = 1
             /\ \A p \in Positions(Cycle(c)) : p[1] = parent[c]
  <2>1. parent[c] \in DOMAIN components
    BY <1>1, <1>2 DEF TypeOK
  <2>2. HasPlace(parent[c], Cycle(c))
    BY <1>1, <1>2 DEF Places
  <2>3. QED
    BY <1>1, <2>1, <2>2, OnePlace
<1>8. ASSUME NEW l \in Labels \ CycleHeads PROVE Positions(Cycle(l)) = {}
  <2>1. \A c : ~ PlaceFits(c, Cycle(l))
    BY <1>2 DEF PlaceFits, Cycle
  <2>2. QED
    BY <1>4, <2>1
<1>9. QED
  BY <1>5, <1>6, <1>7, <1>8, BuiltFacts

-----------------------------------------------------------------------------
(* The members that the sets of the ordering hold are the labels of the    *)
(* cycles: those nested k deep are known after k rounds.                   *)
LEMMA MembersWhole ==
    ASSUME NEW G, OrderInv(G), Built
    PROVE  \A c \in CycleHeads : Members[c] = Whole(c, G)
<1> DEFINE cycles == DOMAIN components \ {Root}
           n == Cardinality(cycles)
           Part(e, prev) == IF e.cycle THEN prev[e.label] ELSE {e.label}
           Round(prev) == [c \in cycles |-> UNION {Part(components[c][i], prev) : i \in 1..Len(components[c])}]
           IsIter(it) == it = [k \in 0..n |-> IF k = 0 THEN [c \in cycles |-> {}] ELSE Round(it[k - 1])]
           M == CHOOSE it : IsIter(it)
           X == [CycleHeads -> SUBSET Labels]
<1>1. TypeInv /\ TypeOK /\ Numbered /\ Places /\ ScopesOK(G)
  BY DEF OrderInv, TypeInv
<1>2. cycles = CycleHeads /\ DOMAIN components = CycleHeads \cup {Root} /\ Root \notin CycleHeads /\ CycleHeads \subseteq Labels
  BY <1>1, ActiveHeads
<1>3. n \in Nat /\ IsFiniteSet(CycleHeads) /\ n = Cardinality(CycleHeads)
  BY <1>2, LabelsAssumption, FS_Subset, FS_CardinalityType
<1>4. Members = M[n]
  BY DEF Members, MembersOf
<1>5. \A c \in CycleHeads : \A i \in 1..Len(components[c]) :
        /\ components[c][i].label \in Labels
        /\ components[c][i].cycle => /\ components[c][i].label \in CycleHeads
                                     /\ head_dfn[c] < head_dfn[components[c][i].label]
  <2>1. ASSUME NEW c \in CycleHeads, NEW i \in 1..Len(components[c])
        PROVE  /\ components[c][i].label \in Labels
               /\ components[c][i].cycle => /\ components[c][i].label \in CycleHeads
                                            /\ head_dfn[c] < head_dfn[components[c][i].label]
    <3>1. components[c] \in Seq(Component)
      BY <1>1, <1>2 DEF TypeOK
    <3>2. components[c][i] \in Component
      BY <3>1
    <3>3. PlaceFits(c, components[c][i])
      BY <1>1, <1>2 DEF Places
    <3>4. QED
      BY <1>1, <1>2, <3>2, <3>3, HeadFacts DEF PlaceFits, Component
  <2>2. QED
    BY <2>1
<1>6. IsIter(M)
  <2> DEFINE step == [P \in X |-> Round(P)]
             start == [c \in cycles |-> {}]
  <2>1. start \in X /\ step \in [X -> X]
    <3>1. ASSUME NEW P \in X, NEW c \in CycleHeads, NEW i \in 1..Len(components[c])
          PROVE  Part(components[c][i], P) \subseteq Labels
      BY <1>5
    <3> HIDE DEF Part, cycles
    <3>2. \A P \in X : Round(P) \in X
      BY <1>2, <3>1
    <3>3. QED
      BY <1>2, <3>2
  <2>2. \E it \in [0..n -> X] : IsSequence(it, n, start, step)
    <3> HIDE DEF step, start, X, n, IsIter, M, cycles
    <3>1. QED
      BY <1>3, <2>1, SequenceExists
  <2>3. PICK it \in [0..n -> X] : it = [k \in 0..n |-> IF k = 0 THEN start ELSE step[it[k - 1]]]
    BY <2>2 DEF IsSequence
  <2> HIDE DEF n
  <2>4. \A k \in 0..n : k # 0 => k - 1 \in 0..n
    BY <1>3
  <2> HIDE DEF Round, X
  <2>5. \A k \in 0..n : k # 0 => step[it[k - 1]] = Round(it[k - 1])
    BY <2>4
  <2> HIDE DEF step
  <2>6. IsIter(it)
    BY <2>3, <2>5
  <2> HIDE DEF IsIter
  <2>7. QED
    BY <2>6
<1> HIDE DEF M, n
<1>7. \A k \in 0..n : k # 0 => M[k] = Round(M[k - 1])
  <2> HIDE DEF Round
  <2>1. QED
    BY <1>6
<1> HIDE DEF IsIter, X
<1> DEFINE Deeper(c) == {d \in CycleHeads : head_dfn[d] > head_dfn[c]}
           Rank(c) == Cardinality(Deeper(c))
           B == {k \in Nat : k <= n => \A c \in CycleHeads : Rank(c) < k => M[k][c] = Whole(c, G)}
<1>8. \A c \in CycleHeads : head_dfn[c] \in Nat
  BY <1>1, HeadFacts
<1>9. \A c \in CycleHeads : IsFiniteSet(Deeper(c)) /\ Rank(c) \in Nat /\ Rank(c) < n
  <2> SUFFICES ASSUME NEW c \in CycleHeads PROVE IsFiniteSet(Deeper(c)) /\ Rank(c) \in Nat /\ Rank(c) < n
    OBVIOUS
  <2>1. Deeper(c) \in SUBSET CycleHeads /\ Deeper(c) # CycleHeads
    BY <1>8
  <2> HIDE DEF Deeper
  <2>2. IsFiniteSet(Deeper(c)) /\ Rank(c) <= n /\ Rank(c) # n
    BY <1>3, <2>1, FS_Subset
  <2>3. Rank(c) \in Nat
    BY <2>2, FS_CardinalityType
  <2>4. QED
    BY <1>3, <2>2, <2>3
<1>10. ASSUME NEW c \in CycleHeads, NEW d \in CycleHeads, head_dfn[c] < head_dfn[d] PROVE Rank(d) < Rank(c)
  <2>1. Deeper(d) \in SUBSET Deeper(c) /\ d \in Deeper(c) /\ d \notin Deeper(d)
    BY <1>8, <1>10
  <2>2. IsFiniteSet(Deeper(c)) /\ Rank(c) \in Nat /\ Rank(d) \in Nat
    BY <1>9
  <2> HIDE DEF Deeper
  <2>3. Rank(d) <= Rank(c) /\ Rank(d) # Rank(c)
    BY <2>1, <2>2, FS_Subset
  <2>4. QED
    BY <2>2, <2>3
<1> HIDE DEF Rank
<1>11. 0 \in B
  <2>1. ASSUME NEW c \in CycleHeads PROVE ~ (Rank(c) < 0)
    <3>1. Rank(c) \in Nat
      BY <1>9
    <3>2. QED
      BY <3>1
  <2>2. QED
    BY <2>1
<1>12. ASSUME NEW k \in Nat, k \in B PROVE k + 1 \in B
  <2> SUFFICES ASSUME k + 1 <= n, NEW c \in CycleHeads, Rank(c) < k + 1 PROVE M[k + 1][c] = Whole(c, G)
    OBVIOUS
  <2>1. k + 1 \in 0..n /\ k + 1 # 0 /\ (k + 1) - 1 = k /\ k <= n
    BY <1>3
  <2>2. M[k + 1] = Round(M[k])
    <3> HIDE DEF Round
    <3>1. QED
      BY <1>7, <2>1
  <2>3. M[k + 1][c] = UNION {Part(components[c][i], M[k]) : i \in 1..Len(components[c])}
    BY <1>2, <2>2
  <2>4. ASSUME NEW i \in 1..Len(components[c])
        PROVE  Part(components[c][i], M[k]) = Inside(components[c][i], G)
    <3>1. CASE components[c][i].cycle
      <4> DEFINE d == components[c][i].label
      <4>1. d \in CycleHeads /\ head_dfn[c] < head_dfn[d]
        BY <1>5, <3>1
      <4>2. Rank(d) < Rank(c) /\ Rank(d) \in Nat /\ Rank(c) \in Nat
        BY <1>9, <1>10, <4>1
      <4>3. Rank(d) < k
        BY <4>2
      <4>4. M[k][d] = Whole(d, G)
        BY <1>12, <2>1, <4>1, <4>3
      <4>5. QED
        BY <3>1, <4>4 DEF Inside
    <3>2. CASE ~ components[c][i].cycle
      BY <3>2 DEF Inside
    <3>3. QED
      BY <3>1, <3>2
  <2> HIDE DEF Part
  <2>5. {Part(components[c][i], M[k]) : i \in 1..Len(components[c])} = {Inside(components[c][i], G) : i \in 1..Len(components[c])}
    BY <2>4
  <2>6. M[k + 1][c] = Placed(c, G)
    BY <2>3, <2>5 DEF Placed
  <2>7. QED
    BY <2>6, BuiltFacts
<1> HIDE DEF B
<1>13. \A k \in Nat : k \in B
  BY <1>11, <1>12, NumberInduction
<1>14. QED
  <2>1. n \in B /\ n <= n
    BY <1>3, <1>13
  <2>2. QED
    BY <1>4, <1>9, <2>1 DEF B

(* What it says of the edges then.                                         *)
LEMMA OrderedAtEnd == OrderHolds => WeakTopologicalOrder
<1> SUFFICES ASSUME NEW G, OrderInv(G), Built PROVE WeakTopologicalOrder
  BY DEF OrderHolds, WeakTopologicalOrder
<1>1. TypeInv /\ TypeOK /\ Numbered /\ Places /\ ScopesOK(G) /\ PartsOK(G)
  BY DEF OrderInv, TypeInv
<1>2. DOMAIN components = CycleHeads \cup {Root} /\ CycleHeads \subseteq Labels
  BY <1>1, ActiveHeads
<1>3. ASSUME NEW c \in DOMAIN components, NEW i \in 1..Len(components[c])
      PROVE  LabelsOf(components[c][i]) = Inside(components[c][i], G)
  <2> DEFINE e == components[c][i]
  <2>1. components[c] \in Seq(Component)
    BY <1>1 DEF TypeOK
  <2>2. e \in Component
    BY <2>1
  <2>3. PlaceFits(c, e)
    BY <1>1 DEF Places
  <2>4. e.label \in Labels
    BY <2>2 DEF Component
  <2>5. CASE e.cycle
    <3>1. e.label \in CycleHeads
      BY <2>3, <2>5 DEF PlaceFits
    <3>2. Members[e.label] = Whole(e.label, G) /\ Whole(e.label, G) \subseteq Labels
      BY <1>1, <3>1, MembersWhole, WholeLabels
    <3> HIDE DEF e
    <3>3. \A l : is_component_member(l, e) <=> l \in Members[e.label]
      BY <2>5 DEF is_component_member
    <3>4. Inside(e, G) = Whole(e.label, G)
      BY <2>5 DEF Inside
    <3>5. LabelsOf(e) = Inside(e, G)
      BY <3>2, <3>3, <3>4 DEF LabelsOf
    <3>6. QED
      BY <3>5 DEF e
  <2>6. CASE ~ e.cycle
    <3> HIDE DEF e
    <3>1. \A l : is_component_member(l, e) <=> l = e.label
      BY <2>6 DEF is_component_member
    <3>2. Inside(e, G) = {e.label}
      BY <2>6 DEF Inside
    <3>3. LabelsOf(e) = Inside(e, G)
      <4>1. e.label \in Labels
        BY <2>4 DEF e
      <4>2. QED
        BY <3>1, <3>2, <4>1 DEF LabelsOf
    <3>4. QED
      BY <3>3 DEF e
  <2>7. QED
    BY <2>5, <2>6
<1>4. ASSUME NEW c \in DOMAIN components PROVE PartitionLabels(c) = Placed(c, G)
  <2>1. {LabelsOf(components[c][i]) : i \in 1..Len(components[c])} = {Inside(components[c][i], G) : i \in 1..Len(components[c])}
    BY <1>3
  <2>2. QED
    BY <2>1 DEF PartitionLabels, Placed
<1>5. \A u \in PartitionLabels(Root) : children[u] \subseteq PartitionLabels(Root)
  <2>1. PartitionLabels(Root) = Reachable
    BY <1>2, <1>4, BuiltFacts
  <2>2. QED
    BY <1>1, <2>1, ReachableLeast DEF IsClosed
<1>6. \A c \in CycleHeads : Members[c] = PartitionLabels(c)
  BY <1>2, <1>4, MembersWhole, BuiltFacts
<1>7. \A c \in DOMAIN components : \A i, j \in 1..Len(components[c]) :
        LET from == components[c][i]
            to == components[c][j]
        IN  /\ i # j => LabelsOf(from) \cap LabelsOf(to) = {}
            /\ \A u \in LabelsOf(from) : \A v \in children[u] \cap LabelsOf(to) :
                 i > j \/ v = c \/ (i = j /\ from.cycle)
  BY <1>1, <1>3 DEF PartsOK, PartFits
<1>8. QED
  BY <1>5, <1>6, <1>7 DEF WeakTopologicalOrder

-----------------------------------------------------------------------------
(* What a head and the vertices above it are, inside any larger set.       *)
LEMMA LoopWhole ==
    ASSUME TypeOK, NEW c \in Labels, NEW H \in SUBSET Labels, IsLoop(c, H), c \notin H,
           NEW W \in SUBSET Labels, H \cup {c} \subseteq W
    PROVE  H \cup {c} \subseteq LoopThrough(c, W)
<1> DEFINE R == ReachableFrom(children[c] \cap W, W)
           From(u) == ReachableFrom({u}, W)
<1>1. children \in [Labels -> SUBSET Labels] /\ children[c] \cap W \in SUBSET Labels
  BY DEF TypeOK
<1>2. children[c] \cap W \subseteq R /\ R \in SUBSET Labels /\ ClosedWithin(R, W)
  BY <1>1, ReachableFromLeast
<1>3. \A u \in Labels : /\ u \in From(u) /\ ClosedWithin(From(u), W) /\ From(u) \in SUBSET Labels
                        /\ \A A \in SUBSET Labels : u \in A /\ ClosedWithin(A, W) => From(u) \subseteq A
  <2> SUFFICES ASSUME NEW u \in Labels
               PROVE  /\ u \in From(u) /\ ClosedWithin(From(u), W) /\ From(u) \in SUBSET Labels
                      /\ \A A \in SUBSET Labels : u \in A /\ ClosedWithin(A, W) => From(u) \subseteq A
    OBVIOUS
  <2>1. {u} \in SUBSET Labels
    OBVIOUS
  <2>2. /\ {u} \subseteq From(u) /\ From(u) \subseteq {u} \cup W /\ ClosedWithin(From(u), W)
        /\ \A A \in SUBSET Labels : {u} \subseteq A /\ ClosedWithin(A, W) => From(u) \subseteq A
    BY <2>1, ReachableFromLeast
  <2> HIDE DEF From
  <2>3. QED
    BY <2>2
<1> HIDE DEF R, From
<1>4. H \subseteq R
  <2> DEFINE A == R \cup {c}
  <2>1. A \in SUBSET Labels /\ c \in A /\ \A u \in A : children[u] \cap H \subseteq A
    BY <1>2 DEF ClosedWithin
  <2> HIDE DEF A
  <2>2. H \subseteq A
    BY <2>1 DEF IsLoop
  <2>3. QED
    BY <2>2 DEF A
<1>5. c \in R
  <2>1. PICK u \in H \cup {c} : c \in children[u]
    BY DEF IsLoop
  <2>2. QED
    BY <1>2, <1>4, <2>1 DEF ClosedWithin
<1> DEFINE B == {u \in H \cup {c} : c \in From(u)}
<1>6. B \in SUBSET Labels /\ c \in B
  BY <1>3
<1>7. ASSUME NEW u \in H \cup {c}, children[u] \cap B # {} PROVE u \in B
  <2>1. PICK w \in H \cup {c} : w \in children[u] /\ c \in From(w)
    BY <1>7
  <2>2. u \in Labels /\ w \in Labels /\ w \in W
    OBVIOUS
  <2>3. w \in From(u)
    BY <1>3, <2>1, <2>2 DEF ClosedWithin
  <2>4. From(w) \subseteq From(u)
    BY <1>3, <2>2, <2>3
  <2>5. QED
    BY <2>1, <2>4
<1> HIDE DEF B
<1>8. H \subseteq B
  BY <1>6, <1>7 DEF IsLoop
<1>9. QED
  BY <1>4, <1>5, <1>6, <1>8 DEF LoopThrough, B, R, From

(* A loop inside a partition stays in one component of it, a cycle.        *)
LEMMA LoopInside ==
    ASSUME TypeOK, NEW G, PartsOK(G), NEW c \in DOMAIN components, Placed(c, G) \subseteq Labels,
           NEW i \in 1..Len(components[c]), NEW v \in Inside(components[c][i], G)
    PROVE  /\ LoopThrough(v, Placed(c, G) \ {c}) \subseteq Inside(components[c][i], G)
           /\ ~ components[c][i].cycle => LoopThrough(v, Placed(c, G) \ {c}) = {}
<1> DEFINE n == Len(components[c])
           W == Placed(c, G) \ {c}
           Part(j) == Inside(components[c][j], G)
           Low(k) == UNION {Part(j) : j \in 1..k}
<1>1. n \in Nat /\ i \in 1..n /\ children \in [Labels -> SUBSET Labels]
  BY DEF TypeOK
<1>2. Placed(c, G) = Low(n)
  BY DEF Placed
<1>3. \A j \in 1..n : Part(j) \subseteq Labels
  BY <1>2
<1>4. \A j, k \in 1..n : /\ j # k => Part(j) \cap Part(k) = {}
                         /\ \A u \in Part(j) : \A w \in children[u] \cap Part(k) :
                              j > k \/ w = c \/ (j = k /\ components[c][j].cycle)
  BY DEF PartsOK, PartFits
<1> HIDE DEF n, Part
<1>5. ASSUME NEW j \in 1..n, NEW u \in Part(j), NEW w \in children[u] \cap W
      PROVE  \E k \in 1..j : w \in Part(k) /\ (k = j => components[c][j].cycle)
  <2>1. PICK k \in 1..n : w \in Part(k)
    BY <1>2
  <2>5. w \in children[u] \cap Part(k) /\ w # c
    BY <1>5, <2>1
  <2> HIDE DEF W
  <2>2. j > k \/ (j = k /\ components[c][j].cycle)
    <3>1. j \in 1..n /\ k \in 1..n /\ u \in Part(j)
      BY <1>5, <2>1
    <3>2. j > k \/ w = c \/ (j = k /\ components[c][j].cycle)
      BY <1>4, <2>5, <3>1, Zenon
    <3>3. QED
      BY <2>5, <3>2, Zenon
  <2>3. k \in 1..j
    BY <1>1, <2>2
  <2>4. QED
    BY <2>1, <2>2, <2>3
<1>6. ASSUME NEW k \in 0..n PROVE Low(k) \in SUBSET Labels /\ ClosedWithin(Low(k), W)
  <2>1. \A j \in 1..k : j \in 1..n /\ \A m \in 1..j : m \in 1..k
    BY <1>1
  <2>2. ASSUME NEW u \in Low(k), NEW w \in children[u] \cap W PROVE w \in Low(k)
    <3>1. PICK j \in 1..k : u \in Part(j)
      OBVIOUS
    <3>2. PICK m \in 1..j : w \in Part(m)
      BY <1>5, <2>1, <3>1
    <3>3. QED
      BY <2>1, <3>2
  <2>3. Low(k) \in SUBSET Labels
    BY <1>3, <2>1
  <2> HIDE DEF Low, W
  <2>4. QED
    BY <2>2, <2>3 DEF ClosedWithin
<1>7. W \in SUBSET Labels /\ v \in Part(i) /\ v \in Labels
  BY <1>3, <1>1 DEF Part, n
<1> HIDE DEF W
<1>8. ASSUME NEW m \in 0..n, children[v] \cap W \subseteq Low(m), m <= i
      PROVE  \A u \in LoopThrough(v, W) : u \in Part(i) /\ i <= m
  <2> DEFINE S == children[v] \cap W
  <2>1. S \in SUBSET Labels
    BY <1>1, <1>7
  <2>2. ReachableFrom(S, W) \subseteq Low(m)
    <3>1. Low(m) \in SUBSET Labels /\ ClosedWithin(Low(m), W) /\ S \subseteq Low(m)
      BY <1>6, <1>8
    <3> HIDE DEF Low, S
    <3>2. QED
      BY <1>7, <2>1, <3>1, ReachableFromLeast
  <2> SUFFICES ASSUME NEW u \in LoopThrough(v, W) PROVE u \in Part(i) /\ i <= m
    OBVIOUS
  <2>3. u \in Low(m) /\ v \in ReachableFrom({u}, W)
    BY <2>2 DEF LoopThrough
  <2>4. PICK k \in 1..m : u \in Part(k)
    BY <2>3
  <2>5. k \in 0..n /\ k \in 1..n /\ k \in 1..k /\ k <= i
    BY <1>1, <1>8
  <2>6. {u} \in SUBSET Labels /\ {u} \subseteq Low(k)
    BY <1>3, <2>4, <2>5
  <2>7. ReachableFrom({u}, W) \subseteq Low(k)
    <3>1. Low(k) \in SUBSET Labels /\ ClosedWithin(Low(k), W)
      BY <1>6, <2>5
    <3> HIDE DEF Low
    <3>2. QED
      BY <1>7, <2>6, <3>1, ReachableFromLeast
  <2>8. PICK j \in 1..k : v \in Part(j)
    BY <2>3, <2>7
  <2>9. j \in 1..n /\ j <= k
    BY <1>1, <2>5
  <2>10. j = i
    BY <1>1, <1>4, <1>7, <2>8, <2>9
  <2>11. k = i
    BY <1>1, <2>5, <2>9, <2>10
  <2>12. QED
    BY <2>4, <2>11, <1>1
<1>9. children[v] \cap W \subseteq Low(i) /\ (~ components[c][i].cycle => children[v] \cap W \subseteq Low(i - 1))
  <2>1. ASSUME NEW w \in children[v] \cap W PROVE w \in Low(i) /\ (~ components[c][i].cycle => w \in Low(i - 1))
    <3>1. PICK k \in 1..i : w \in Part(k) /\ (k = i => components[c][i].cycle)
      BY <1>1, <1>5, <1>7
    <3>2. k # i => k \in 1..(i - 1)
      BY <1>1
    <3>3. QED
      BY <3>1, <3>2
  <2> HIDE DEF Low
  <2>2. QED
    BY <2>1
<1> HIDE DEF Low
<1>10. i \in 0..n /\ i - 1 \in 0..n /\ i <= i /\ i - 1 <= i /\ ~ (i <= i - 1)
  BY <1>1
<1>11. LoopThrough(v, W) \subseteq Part(i)
  BY <1>8, <1>9, <1>10
<1>12. ~ components[c][i].cycle => LoopThrough(v, W) = {}
  BY <1>8, <1>9, <1>10
<1>13. QED
  BY <1>11, <1>12 DEF W, Part

(* What the invariant says of the cycles when the builder ends.            *)
LEMMA LoopsAtEnd == OrderHolds => CyclesAreLoops
<1> SUFFICES ASSUME NEW G, OrderInv(G), LoopInv(G), Built PROVE CyclesAreLoops
  BY DEF OrderHolds, CyclesAreLoops
<1>1. TypeInv /\ TypeOK /\ Numbered /\ Places /\ ScopesOK(G) /\ PartsOK(G)
  BY DEF OrderInv, TypeInv
<1>2. DOMAIN components = CycleHeads \cup {Root} /\ CycleHeads \subseteq Labels /\ Root \notin Labels
  BY <1>1, ActiveHeads, LabelsAssumption DEF Root
<1>3. \A c \in CycleHeads : Members[c] = Whole(c, G) /\ Placed(c, G) = Whole(c, G) /\ c \notin G[c] /\ G[c] \subseteq Labels
  BY <1>1, MembersWhole, BuiltFacts, WholeLabels DEF ScopesOK
<1>4. ASSUME NEW c \in DOMAIN components
      PROVE  /\ Placed(c, G) \subseteq Labels
             /\ (IF c = Root THEN Reachable ELSE Members[c] \ {c}) = Placed(c, G) \ {c}
  <2>1. Placed(c, G) \subseteq Labels
    BY <1>1, PlacedLabels
  <2>2. CASE c = Root
    <3>1. Reachable = Placed(Root, G)
      BY BuiltFacts
    <3>2. QED
      BY <1>2, <2>1, <2>2, <3>1
  <2>3. CASE c # Root
    BY <1>2, <1>3, <2>1, <2>3
  <2>4. QED
    BY <2>2, <2>3
<1>5. ASSUME NEW c \in DOMAIN components, NEW i \in 1..Len(components[c])
      PROVE  LET e == components[c][i]
             IN  IF e.cycle THEN Members[e.label] = LoopThrough(e.label, Placed(c, G) \ {c})
                 ELSE e.label # c => LoopThrough(e.label, Placed(c, G) \ {c}) = {}
  <2> DEFINE e == components[c][i]
             h == e.label
             W == Placed(c, G) \ {c}
             n == Len(components[c])
  <2>1. PlaceFits(c, e) /\ Inside(e, G) \subseteq Placed(c, G) /\ Placed(c, G) \subseteq Labels
    BY <1>1, <1>4, PlacedLabels DEF Places
  <2>2. h \in Inside(e, G)
    BY DEF Inside, Whole
  <2>3. LoopThrough(h, W) \subseteq Inside(e, G) /\ (~ e.cycle => LoopThrough(h, W) = {})
    BY <1>1, <2>1, <2>2, LoopInside
  <2>4. CASE e.cycle
    <3>1. h \in CycleHeads /\ Inside(e, G) = Whole(h, G)
      BY <2>1, <2>4 DEF PlaceFits, Inside
    <3>2. c \notin Whole(h, G)
      <4>1. CASE c = Root
        BY <1>2, <2>1, <3>1, <4>1
      <4>2. CASE c # Root
        <5>1. c \in CycleHeads /\ components[c] # <<>> /\ Last(components[c]) = Vertex(c) /\ components[c] \in Seq(Component)
          BY <1>1, <1>2, <4>2, BuiltFacts DEF TypeOK
        <5>2. n \in 1..n /\ components[c][n] = Vertex(c)
          BY <5>1 DEF Last
        <5>3. Inside(Vertex(c), G) = {c} /\ ~ Vertex(c).cycle
          BY DEF Inside, Vertex
        <5>4. i # n
          BY <2>4, <5>2, <5>3
        <5>5. Inside(e, G) \cap Inside(components[c][n], G) = {}
          BY <1>1, <5>2, <5>4 DEF PartsOK, PartFits
        <5>6. QED
          BY <3>1, <5>2, <5>3, <5>5
      <4>3. QED
        BY <4>1, <4>2
    <3>3. G[h] \cup {h} \subseteq W /\ W \in SUBSET Labels /\ h \in Labels /\ G[h] \in SUBSET Labels /\ h \notin G[h]
      BY <1>2, <1>3, <2>1, <3>1, <3>2 DEF Whole
    <3>4. IsLoop(h, G[h])
      BY <3>1 DEF LoopInv
    <3> HIDE DEF h, W, e
    <3>5. G[h] \cup {h} \subseteq LoopThrough(h, W)
      BY <1>1, <3>3, <3>4, LoopWhole
    <3>6. Members[h] = LoopThrough(h, W)
      BY <1>3, <2>3, <3>1, <3>5 DEF Whole
    <3>7. QED
      BY <2>4, <3>6 DEF h, W, e
  <2>5. CASE ~ e.cycle
    BY <2>3, <2>5
  <2>6. QED
    BY <2>4, <2>5
<1>6. QED
  BY <1>4, <1>5 DEF CyclesAreLoops

-----------------------------------------------------------------------------
(* A vertex gets a number when it is first met and again in each cycle, so *)
(* that the numbers of a graph that is not too large fit.                  *)
LabelsFit == Cardinality(Labels) * (Cardinality(Labels) + 1) < DFN_INF

Met == {v \in Labels : dfn[v] # 0}

NumBounded == num <= Cardinality(CycleHeads) * Cardinality(Labels) + Cardinality(Met)

MetTyped ==
    /\ Cardinality(Labels) \in Nat /\ Cardinality(Met) \in Nat /\ Cardinality(CycleHeads) \in Nat
    /\ Cardinality(Met) <= Cardinality(Labels) /\ Cardinality(CycleHeads) <= Cardinality(Labels)
    /\ IsFiniteSet(Met) /\ IsFiniteSet(CycleHeads)

(* The numbers in the bound.                                               *)
LEMMA MetFacts == TypeOK => MetTyped
<1> SUFFICES ASSUME TypeOK PROVE MetTyped
  OBVIOUS
<1>1. IsFiniteSet(Labels) /\ Met \in SUBSET Labels /\ CycleHeads \in SUBSET Labels
  BY LabelsAssumption DEF Met, TypeOK
<1>2. /\ IsFiniteSet(Met) /\ IsFiniteSet(CycleHeads)
      /\ Cardinality(Met) <= Cardinality(Labels) /\ Cardinality(CycleHeads) <= Cardinality(Labels)
  BY <1>1, FS_Subset
<1>3. QED
  BY <1>1, <1>2, FS_CardinalityType DEF MetTyped

(* Within the bound the numbers stay below DFN_INF.                        *)
LEMMA BoundedFits == LabelsFit /\ TypeOK /\ NumBounded => NumbersFit
<1> SUFFICES ASSUME LabelsFit, TypeOK, NumBounded PROVE NumbersFit
  OBVIOUS
<1>1. PICK n \in Nat, h \in Nat, m \in Nat :
        /\ n = Cardinality(Labels) /\ h = Cardinality(CycleHeads) /\ m = Cardinality(Met)
  BY MetFacts DEF MetTyped
<1>2. h <= n /\ m <= n /\ num <= h * n + m /\ n * (n + 1) < DFN_INF /\ num \in Nat /\ DFN_INF \in Nat
  BY <1>1, MetFacts, InfinityFacts DEF NumBounded, LabelsFit, TypeOK, MetTyped
<1>3. h * n <= n * n
  <2>1. PICK d \in Nat : n = h + d
    <3>1. n - h \in Nat /\ n = h + (n - h)
      BY <1>2
    <3>2. QED
      BY <3>1
  <2>2. n * n = h * n + d * n /\ d * n \in Nat /\ h * n \in Nat
    BY <2>1
  <2>3. QED
    BY <2>2
<1>4. n * (n + 1) = n * n + n /\ n * n \in Nat /\ h * n \in Nat
  OBVIOUS
<1>5. num < DFN_INF
  BY <1>2, <1>3, <1>4
<1>6. QED
  BY <1>5 DEF NumbersFit

(* No number has been given out at the start.                              *)
LEMMA BoundInit == Init => NumBounded
<1> SUFFICES ASSUME Init PROVE NumBounded
  OBVIOUS
<1>1. CycleHeads = {} /\ Met = {} /\ num = 0
  BY DEF Init, CycleHeads, Met
<1>2. Cardinality({}) = 0 /\ Cardinality(Labels) \in Nat
  BY LabelsAssumption, FS_EmptySet, FS_CardinalityType
<1>3. QED
  BY <1>1, <1>2 DEF NumBounded

(* A number is given out to a vertex newly met; a vertex is forgotten only *)
(* when a cycle is made, and no cycle is made twice.                       *)
LEMMA BoundStep ==
    ASSUME NEW G, OrderInv(G), NumBounded, [Next]_vars
    PROVE  NumBounded'
<1>1. TypeInv /\ TypeOK /\ Numbered /\ TasksNested
  BY DEF OrderInv, TypeInv
<1>2. TypeOK'
  BY <1>1, TypeStep DEF TypeInv
<1>a. MetTyped
  BY <1>1, MetFacts
<1>3. PICK n \in Nat, h \in Nat, m \in Nat :
        /\ n = Cardinality(Labels) /\ h = Cardinality(CycleHeads) /\ m = Cardinality(Met)
  BY <1>a DEF MetTyped
<1>4. num \in Nat /\ num <= h * n + m /\ m <= n /\ h * n \in Nat
  <2>1. num \in Nat /\ num <= h * n + m
    BY <1>1, <1>3 DEF NumBounded, TypeOK
  <2>2. m <= n
    BY <1>3, <1>a DEF MetTyped
  <2>3. h * n \in Nat
    OBVIOUS
  <2>4. QED
    BY <2>1, <2>2, <2>3
<1>b. TypeOK' => MetTyped'
  BY MetFacts, PTL
<1>5. Cardinality(Met') \in Nat
  BY <1>2, <1>b DEF MetTyped
<1>6. ASSUME CycleHeads' = CycleHeads, num' = num, Met \subseteq Met' PROVE NumBounded'
  <2>1. IsFiniteSet(Met') /\ Met \in SUBSET Met'
    BY <1>2, <1>6, <1>b DEF MetTyped
  <2>2. m <= Cardinality(Met')
    BY <1>3, <2>1, FS_Subset
  <2>3. num' <= h * n + Cardinality(Met')
    BY <1>4, <1>5, <1>6, <2>2
  <2>4. QED
    BY <1>3, <1>6, <2>3 DEF NumBounded
<1>7. ASSUME NEW task, RunTask(task) PROVE NumBounded'
  <2>1. CASE PushVisited(task) \/ VisitMember(task) \/ continue_visit(task)
    BY <1>6, <2>1 DEF PushVisited, VisitMember, continue_visit, CycleHeads, Met
  <2>2. CASE push_successors(task)
    <3> DEFINE v == task.vertex
    <3>1. v \in Labels
      BY <1>1, <2>2, TopTask DEF push_successors
    <3>2. dfn[v] = 0 /\ num' = num + 1 /\ dfn' = [dfn EXCEPT ![v] = num + 1] /\ CycleHeads' = CycleHeads
      BY <2>2 DEF push_successors, CycleHeads
    <3>3. Met' = Met \cup {v} /\ v \notin Met
      BY <1>1, <1>4, <3>1, <3>2 DEF Met, TypeOK
    <3>4. Cardinality(Met') = m + 1
      BY <1>3, <1>a, <3>3, FS_AddElement DEF MetTyped
    <3>5. num' <= h * n + (m + 1)
      BY <1>4, <3>2
    <3>6. QED
      BY <1>3, <3>2, <3>4, <3>5 DEF NumBounded
  <2>3. CASE VisitVertex(task)
    <3> DEFINE v == task.vertex
    <3>1. dfn' = [dfn EXCEPT ![v] = DFN_INF] /\ num' = num /\ CycleHeads' = CycleHeads
      BY <2>3 DEF VisitVertex, CycleHeads
    <3>2. Met \subseteq Met'
      BY <1>1, <3>1, InfinityFacts DEF Met, TypeOK
    <3>3. QED
      BY <1>6, <3>1, <3>2
  <2>4. CASE VisitHead(task)
    <3> DEFINE v == task.vertex
    <3>1. Popping("StartVisit", task) /\ num' = num /\ CycleHeads' = CycleHeads \cup {v}
      BY <2>4 DEF VisitHead, CycleHeads
    <3>2. v \notin CycleHeads
      BY <1>1, <3>1, TopStarted, StackFacts
    <3>3. Cardinality(CycleHeads') = h + 1
      BY <1>3, <1>a, <3>1, <3>2, FS_AddElement DEF MetTyped
    <3>4. num' <= (h + 1) * n + Cardinality(Met')
      <4>1. (h + 1) * n = h * n + n
        OBVIOUS
      <4>2. QED
        BY <1>4, <1>5, <3>1, <4>1
    <3>5. QED
      BY <1>3, <3>3, <3>4 DEF NumBounded
  <2>5. QED
    BY <1>7, <2>1, <2>2, <2>3, <2>4 DEF RunTask
<1>8. CASE BuildStep
  BY <1>7, <1>8 DEF BuildStep
<1>9. CASE UNCHANGED vars
  BY <1>6, <1>9 DEF vars, builderVars, CycleHeads, Met
<1>10. QED
  BY <1>8, <1>9 DEF Next, Terminating

InOrder == OrderHolds /\ NumBounded /\ NumbersFit

(* The invariant and the bound hold at the start,                          *)
LEMMA InOrderInit == ASSUME LabelsFit PROVE Init => InOrder
<1> SUFFICES ASSUME Init PROVE InOrder
  OBVIOUS
<1>1. OrderHolds /\ NumBounded
  BY OrderInit, BoundInit
<1>2. TypeOK
  BY <1>1 DEF OrderHolds, OrderInv, TypeInv
<1>3. QED
  BY <1>1, <1>2, BoundedFits DEF InOrder

(* and every step preserves them together.                                 *)
LEMMA InOrderStep == ASSUME LabelsFit PROVE InOrder /\ [Next]_vars => InOrder'
<1> SUFFICES ASSUME InOrder, [Next]_vars PROVE InOrder'
  OBVIOUS
<1>1. PICK G : OrderInv(G)
  BY DEF InOrder, OrderHolds
<1>2. NumBounded'
  BY <1>1, BoundStep DEF InOrder
<1>3. TypeOK'
  BY <1>1, TypeStep DEF OrderInv, TypeInv
<1>4. NumbersFit'
  <2>1. LabelsFit' /\ TypeOK' /\ NumBounded' => NumbersFit'
    BY BoundedFits, PTL
  <2>2. LabelsFit'
    BY DEF LabelsFit
  <2>3. QED
    BY <1>2, <1>3, <2>1, <2>2
<1>5. QED
  BY <1>2, <1>4, OrderStep DEF InOrder

(* StackDiscipline holds of every graph with fewer than 46341 labels:      *)
(* start_visit, which pops the top of _stack without looking, pops the     *)
(* vertex it has just found to be a component by itself, and every         *)
(* successor of a vertex has been met when its visit starts (wto.cpp).     *)
THEOREM StackInOrder == ASSUME LabelsFit PROVE Spec => []StackDiscipline
<1>1. Init => InOrder
  BY InOrderInit
<1>2. InOrder /\ [Next]_vars => InOrder'
  BY InOrderStep
<1>3. InOrder => StackDiscipline
  BY DisciplineHolds DEF InOrder
<1>4. QED
  BY <1>1, <1>2, <1>3, PTL DEF Spec

(* EachPlacedOnce holds of every such graph: when the loop over            *)
(* _visit_stack ends, each reachable vertex and each cycle stands in one   *)
(* place of one partition, and the head of a cycle where wto_cycle_t::head *)
(* looks for it.                                                           *)
THEOREM PlacedOnce == ASSUME LabelsFit PROVE Spec => []EachPlacedOnce
<1>1. Init => InOrder
  BY InOrderInit
<1>2. InOrder /\ [Next]_vars => InOrder'
  BY InOrderStep
<1>3. InOrder => EachPlacedOnce
  BY PlacedOnceAtEnd DEF InOrder
<1>4. QED
  BY <1>1, <1>2, <1>3, PTL DEF Spec

(* WeakTopologicalOrder holds of every such graph: the components of a     *)
(* partition are disjoint, and an edge leads forward, stays in a cycle, or *)
(* leads to the head of the cycle it is in (Bourdoncle's definition),      *)
(* which is what the fixpoint iteration relies on.                         *)
THEOREM WeaklyOrdered == ASSUME LabelsFit PROVE Spec => []WeakTopologicalOrder
<1>1. Init => InOrder
  BY InOrderInit
<1>2. InOrder /\ [Next]_vars => InOrder'
  BY InOrderStep
<1>3. InOrder => WeakTopologicalOrder
  BY OrderedAtEnd DEF InOrder
<1>4. QED
  BY <1>1, <1>2, <1>3, PTL DEF Spec

(* CyclesAreLoops holds of every such graph: the members of a cycle are    *)
(* exactly the vertices on a path from its head back to its head inside    *)
(* the partition the cycle stands in, less the head of that partition, and *)
(* a component that is a vertex by itself is on no such path (unless it is *)
(* that head): start_visit makes a cycle where, and only where, the edges  *)
(* do.                                                                     *)
THEOREM LoopsExact == ASSUME LabelsFit PROVE Spec => []CyclesAreLoops
<1>1. Init => InOrder
  BY InOrderInit
<1>2. InOrder /\ [Next]_vars => InOrder'
  BY InOrderStep
<1>3. InOrder => CyclesAreLoops
  BY LoopsAtEnd DEF InOrder
<1>4. QED
  BY <1>1, <1>2, <1>3, PTL DEF Spec

-----------------------------------------------------------------------------
(* Where wto_t finds the cycle of a vertex.                                *)

(* Each vertex that is done is filed under the cycle it stands in, a head  *)
(* under its own (wto_t::_containing_cycle).                               *)
Filed == {l \in Labels : IsPlaced(l) /\ l \notin Active}
FiledRight == /\ DOMAIN containing_cycle = Filed
              /\ \A l \in Filed : HasPlace(containing_cycle[l], Vertex(l))

(* A place stays one when nothing is taken out of a partition.             *)
LEMMA PlaceStays ==
    ASSUME NEW c, NEW e, HasPlace(c, e), Len(components[c]) \in Nat, Len(components'[c]) \in Nat,
           Len(components[c]) <= Len(components'[c]),
           \A i \in 1..Len(components[c]) : components'[c][i] = components[c][i]
    PROVE  HasPlace(c, e)'
<1>1. PICK i \in 1..Len(components[c]) : components[c][i] = e
  BY DEF HasPlace
<1>2. i \in 1..Len(components'[c]) /\ components'[c][i] = e
  BY <1>1
<1>3. QED
  BY <1>2 DEF HasPlace

(* Files that do not change.                                               *)
LEMMA FilesKept ==
    ASSUME FiledRight, Filed' = Filed, UNCHANGED <<components, containing_cycle>>
    PROVE  FiledRight'
BY DEF FiledRight, HasPlace

(* A vertex that gets a number is not filed,                               *)
LEMMA PushSuccessorsFiles ==
    ASSUME NEW G, OrderInv(G), NEW task, push_successors(task), NumbersFit', FiledRight
    PROVE  FiledRight'
<1> DEFINE v == task.vertex
           S == Unvisited(children[v], dfn')
           start == MkTask("StartVisit", v, task.in)
<1>1. /\ Popping("PushSuccessors", task) /\ dfn[v] = 0 /\ num' = num + 1
      /\ dfn' = [dfn EXCEPT ![v] = num + 1]
      /\ Pushes(start, S, task.in)
      /\ UNCHANGED <<children, components, containing_cycle>>
  BY DEF push_successors, Pushes
<1>2. TypeInv /\ TypeOK /\ visit_stack # <<>>
  BY <1>1 DEF OrderInv, Popping, TypeInv
<1>3. v \in Labels /\ task.in \in Cycles
  BY <1>1, <1>2, TopTask
<1>4. /\ dfn \in [Labels -> Nat] /\ num \in Nat /\ children \in [Labels -> SUBSET Labels]
      /\ num + 1 < DFN_INF /\ DFN_INF > 0 /\ DFN_INF \in Nat
  BY <1>1, <1>2, InfinityFacts DEF TypeOK, NumbersFit
<1>5. S \in SUBSET Labels /\ start \in Task /\ start.type = "StartVisit"
  BY <1>3, <1>4 DEF Unvisited, MkTask, Task
<1> HIDE DEF S, start
<1>6. Active' = Active
  BY <1>1, <1>2, <1>3, <1>5, TopSets, PushedSets
<1>7. \A l \in Labels : dfn'[l] = DFN_INF <=> dfn[l] = DFN_INF
  BY <1>1, <1>3, <1>4
<1>8. Filed' = Filed
  BY <1>6, <1>7 DEF Filed, IsPlaced
<1>9. QED
  BY <1>1, <1>8, FilesKept

(* one that is a component by itself is, with the cycle it is put into,    *)
LEMMA VisitVertexFiles ==
    ASSUME NEW G, OrderInv(G), NEW task, VisitVertex(task), NumbersFit, FiledRight
    PROVE  FiledRight'
<1> DEFINE v == task.vertex
           in == task.in
<1>1. /\ Popping("StartVisit", task) /\ visit_stack' = Front(visit_stack)
      /\ dfn' = [dfn EXCEPT ![v] = DFN_INF] /\ components' = [components EXCEPT ![in] = Append(@, Vertex(v))]
      /\ containing_cycle' = Emplace(v, in)
  BY DEF VisitVertex
<1>2. TypeInv /\ TypeOK /\ Numbered /\ TasksNested /\ visit_stack # <<>>
  BY <1>1 DEF OrderInv, Popping, TypeInv
<1>3. v \in Labels /\ in \in DOMAIN components /\ dfn \in [Labels -> Nat]
  BY <1>1, <1>2, TopTask DEF TypeOK
<1>4. v \in OnStack /\ ~ IsPlaced(v) /\ v \notin Active
  BY <1>1, <1>2, TopStarted, StackFacts, StartedFacts
<1>5. Active' = Active
  BY <1>1, <1>2, TopSets, PoppedSets
<1>6. Filed' = Filed \cup {v} /\ v \notin Filed
  BY <1>1, <1>3, <1>4, <1>5 DEF Filed, IsPlaced
<1>7. /\ DOMAIN containing_cycle' = Filed' /\ containing_cycle'[v] = in
      /\ \A l \in Filed : containing_cycle'[l] = containing_cycle[l]
  BY <1>1, <1>6 DEF FiledRight, Emplace
<1>8. DOMAIN components' = DOMAIN components /\ \A c \in DOMAIN components : components[c] \in Seq(Component)
  BY <1>1, <1>2 DEF TypeOK
<1>9. /\ components'[in] = Append(components[in], Vertex(v))
      /\ \A c \in DOMAIN components : c # in => components'[c] = components[c]
  BY <1>1, <1>3
<1>10. \A c \in DOMAIN components :
         /\ Len(components[c]) \in Nat /\ Len(components'[c]) \in Nat /\ Len(components[c]) <= Len(components'[c])
         /\ \A i \in 1..Len(components[c]) : components'[c][i] = components[c][i]
  <2> TAKE c \in DOMAIN components
  <2>1. components[c] \in Seq(Component) /\ Vertex(v) \in Component
    BY <1>3, <1>8 DEF Vertex, Component
  <2>2. CASE c = in
    BY <1>9, <2>1, <2>2
  <2>3. CASE c # in
    BY <1>9, <2>1, <2>3
  <2>4. QED
    BY <2>2, <2>3
<1>11. ASSUME NEW l \in Filed PROVE HasPlace(containing_cycle[l], Vertex(l))'
  <2>1. HasPlace(containing_cycle[l], Vertex(l)) /\ containing_cycle[l] \in DOMAIN components
    BY <1>2, <1>11 DEF FiledRight, TypeOK
  <2>2. PICK c \in DOMAIN components : c = containing_cycle[l]
    BY <2>1
  <2>3. HasPlace(c, Vertex(l))'
    BY <1>10, <2>1, <2>2, PlaceStays
  <2>4. QED
    BY <1>7, <2>2, <2>3
<1>12. HasPlace(in, Vertex(v))'
  <2>1. components[in] \in Seq(Component) /\ Len(components[in]) \in Nat
    BY <1>3, <1>8
  <2>2. Len(components'[in]) = Len(components[in]) + 1 /\ components'[in][Len(components[in]) + 1] = Vertex(v)
    BY <1>9, <2>1
  <2>3. QED
    BY <2>1, <2>2 DEF HasPlace
<1>13. QED
  BY <1>6, <1>7, <1>11, <1>12 DEF FiledRight

(* one that heads a cycle only when the cycle is finished,                 *)
LEMMA VisitHeadFiles ==
    ASSUME NEW G, OrderInv(G), NEW task, VisitHead(task), NumbersFit, FiledRight
    PROVE  FiledRight'
<1> DEFINE v == task.vertex
           S == Unvisited(children[v], dfn')
           again == MkTask("ContinueVisit", v, task.in)
           H == HigherThan(v)
<1>1. /\ Popping("StartVisit", task) /\ Pushes(again, S, v)
      /\ components' = [c \in DOMAIN components \cup {v} |-> IF c = v THEN <<>> ELSE components[c]]
      /\ UNCHANGED <<children, containing_cycle>>
  BY DEF VisitHead, Pushes
<1>2. TypeInv /\ TypeOK /\ Numbered /\ TasksNested /\ visit_stack # <<>>
  BY <1>1 DEF OrderInv, Popping, TypeInv
<1>3. v \in Labels /\ v \in Cycles /\ task.in \in Cycles
  BY <1>1, <1>2, TopTask DEF Cycles
<1>4. S \in SUBSET Labels /\ again \in Task /\ again.type = "ContinueVisit" /\ again.vertex = v
  BY <1>2, <1>3 DEF Unvisited, MkTask, Task, TypeOK
<1> HIDE DEF S, again
<1>5. Active' = Active \cup {v}
  BY <1>1, <1>2, <1>3, <1>4, TopSets, PushedSets
<1>6. v \in OnStack /\ ~ IsPlaced(v) /\ v \notin CycleHeads
  BY <1>1, <1>2, TopStarted, StackFacts
<1>7. /\ dfn'[v] = DFN_INF
      /\ \A u \in H : u \in Labels /\ dfn'[u] = 0 /\ u \in OnStack
      /\ \A u \in Labels : u # v /\ u \notin H => dfn'[u] = dfn[u]
  BY <1>2, VisitHeadPops
<1>8. \A u \in H : ~ IsPlaced(u)
  BY <1>2, <1>7, StackFacts
<1> HIDE DEF H, v
<1>9. Filed' = Filed
  <2>1. \A u \in Labels : u # v => (IsPlaced(u)' <=> IsPlaced(u))
    BY <1>7, <1>8, InfinityFacts DEF IsPlaced
  <2>2. QED
    BY <1>5, <1>6, <2>1 DEF Filed
<1>10. ASSUME NEW l \in Filed PROVE HasPlace(containing_cycle[l], Vertex(l))'
  <2>1. HasPlace(containing_cycle[l], Vertex(l)) /\ containing_cycle[l] \in DOMAIN components
    BY <1>2, <1>10 DEF FiledRight, TypeOK
  <2>2. components'[containing_cycle[l]] = components[containing_cycle[l]]
    BY <1>1, <1>2, <1>3, <1>6, <2>1, LabelsAssumption DEF TypeOK, Root
  <2>3. QED
    BY <1>1, <2>1, <2>2 DEF HasPlace
<1>11. QED
  BY <1>1, <1>9, <1>10 DEF FiledRight

(* and then with its own cycle.                                            *)
LEMMA ContinueVisitFiles ==
    ASSUME NEW G, OrderInv(G), NEW task, continue_visit(task), NumbersFit, FiledRight
    PROVE  FiledRight'
<1> DEFINE v == task.vertex
           in == task.in
           headed == [components EXCEPT ![v] = Append(@, Vertex(v))]
<1>1. /\ Popping("ContinueVisit", task) /\ visit_stack' = Front(visit_stack)
      /\ components' = [headed EXCEPT ![in] = Append(@, Cycle(v))]
      /\ containing_cycle' = Emplace(v, v) /\ UNCHANGED dfn
  BY DEF continue_visit
<1>2. TypeInv /\ TypeOK /\ Numbered /\ TasksNested /\ visit_stack # <<>>
  BY <1>1 DEF OrderInv, Popping, TypeInv
<1>3. v \in Labels /\ in \in DOMAIN components /\ v \in Active /\ v \in DOMAIN components
  BY <1>1, <1>2, TopTask, TopContinued, ActiveHeads DEF TypeOK
<1>4. IsPlaced(v)
  BY <1>2, <1>3, HeadFacts, ActiveHeads DEF IsPlaced
<1>5. Active' = Active \ {v}
  BY <1>1, <1>2, TopSets, PoppedSets, TopOnce
<1>6. Filed' = Filed \cup {v} /\ v \notin Filed
  BY <1>1, <1>3, <1>4, <1>5 DEF Filed, IsPlaced
<1>7. /\ DOMAIN containing_cycle' = Filed' /\ containing_cycle'[v] = v
      /\ \A l \in Filed : containing_cycle'[l] = containing_cycle[l]
  BY <1>1, <1>6 DEF FiledRight, Emplace
<1>8. \A c \in DOMAIN components : components[c] \in Seq(Component)
  BY <1>2 DEF TypeOK
<1>9. Vertex(v) \in Component /\ Cycle(v) \in Component
  BY <1>3 DEF Vertex, Cycle, Component
<1>10. \A c \in DOMAIN components : headed[c] = IF c = v THEN Append(components[c], Vertex(v)) ELSE components[c]
  BY <1>3
<1>11. DOMAIN headed = DOMAIN components
  OBVIOUS
<1> HIDE DEF headed
<1>12. \A c \in DOMAIN components : components'[c] = IF c = in THEN Append(headed[c], Cycle(v)) ELSE headed[c]
  BY <1>1, <1>3, <1>11
<1>13. \A c \in DOMAIN components :
         /\ headed[c] \in Seq(Component) /\ Len(components[c]) \in Nat /\ Len(headed[c]) >= Len(components[c])
         /\ \A i \in 1..Len(components[c]) : headed[c][i] = components[c][i]
  <2> TAKE c \in DOMAIN components
  <2>0. components[c] \in Seq(Component)
    BY <1>8
  <2>1. CASE c = v
    <3>1. headed[c] = Append(components[c], Vertex(v))
      BY <1>10, <2>1
    <3>2. PICK e \in Component : e = Vertex(v)
      BY <1>9
    <3>3. headed[c] = Append(components[c], e)
      BY <3>1, <3>2
    <3>4. QED
      BY <2>0, <3>3
  <2>2. CASE c # v
    BY <1>10, <2>0, <2>2
  <2>3. QED
    BY <2>1, <2>2
<1>14. \A c \in DOMAIN components :
         /\ Len(headed[c]) \in Nat /\ Len(components'[c]) \in Nat /\ Len(components'[c]) >= Len(headed[c])
         /\ \A i \in 1..Len(headed[c]) : components'[c][i] = headed[c][i]
  <2> TAKE c \in DOMAIN components
  <2>0. headed[c] \in Seq(Component)
    BY <1>13
  <2>1. CASE c = in
    <3>1. components'[c] = Append(headed[c], Cycle(v))
      BY <1>12, <2>1
    <3>2. PICK e \in Component : e = Cycle(v)
      BY <1>9
    <3>3. components'[c] = Append(headed[c], e)
      BY <3>1, <3>2
    <3>4. QED
      BY <2>0, <3>3
  <2>2. CASE c # in
    BY <1>12, <2>0, <2>2
  <2>3. QED
    BY <2>1, <2>2
<1>15. ASSUME NEW c \in DOMAIN components, NEW e, HasPlace(c, e) PROVE HasPlace(c, e)'
  <2>1. /\ Len(components[c]) \in Nat /\ Len(components'[c]) \in Nat /\ Len(components[c]) <= Len(components'[c])
        /\ \A i \in 1..Len(components[c]) : i \in 1..Len(headed[c])
    BY <1>13, <1>14
  <2>2. \A i \in 1..Len(components[c]) : components'[c][i] = components[c][i]
    BY <1>13, <1>14, <2>1
  <2>3. QED
    BY <1>15, <2>1, <2>2, PlaceStays
<1>16. ASSUME NEW l \in Filed PROVE HasPlace(containing_cycle[l], Vertex(l))'
  <2>1. HasPlace(containing_cycle[l], Vertex(l)) /\ containing_cycle[l] \in DOMAIN components
    BY <1>2, <1>16 DEF FiledRight, TypeOK
  <2>2. PICK c \in DOMAIN components : c = containing_cycle[l]
    BY <2>1
  <2>3. HasPlace(c, Vertex(l))'
    BY <1>15, <2>1, <2>2
  <2>4. QED
    BY <1>7, <2>2, <2>3
<1>17. HasPlace(v, Vertex(v))'
  <2>1. /\ Len(headed[v]) = Len(components[v]) + 1 /\ headed[v][Len(components[v]) + 1] = Vertex(v)
        /\ Len(components[v]) \in Nat
    <3>1. headed[v] = Append(components[v], Vertex(v)) /\ components[v] \in Seq(Component)
      BY <1>3, <1>8, <1>10
    <3>2. PICK e \in Component : e = Vertex(v)
      BY <1>9
    <3>3. headed[v] = Append(components[v], e)
      BY <3>1, <3>2
    <3>4. Len(headed[v]) = Len(components[v]) + 1 /\ headed[v][Len(components[v]) + 1] = e /\ Len(components[v]) \in Nat
      BY <3>1, <3>3
    <3>5. QED
      BY <3>2, <3>4
  <2>2. /\ Len(headed[v]) \in Nat /\ Len(components'[v]) \in Nat /\ Len(components'[v]) >= Len(headed[v])
        /\ \A i \in 1..Len(headed[v]) : components'[v][i] = headed[v][i]
    BY <1>3, <1>14
  <2>3. Len(headed[v]) \in 1..Len(headed[v]) /\ Len(headed[v]) \in 1..Len(components'[v])
    BY <2>1, <2>2
  <2>4. components'[v][Len(headed[v])] = Vertex(v)
    BY <2>1, <2>2, <2>3
  <2>5. QED
    BY <2>3, <2>4 DEF HasPlace
<1>18. QED
  BY <1>6, <1>7, <1>16, <1>17 DEF FiledRight

(* Every step keeps the files right.                                       *)
LEMMA FilesStep ==
    ASSUME NEW G, OrderInv(G), NumbersFit, NumbersFit', [Next]_vars, FiledRight
    PROVE  FiledRight'
<1>1. TypeInv
  BY DEF OrderInv
<1>2. CASE BuildStep
  <2> DEFINE task == Last(visit_stack)
  <2>1. RunTask(task) /\ visit_stack # <<>>
    BY <1>2 DEF BuildStep
  <2> HIDE DEF task
  <2>2. ASSUME NEW type, Popping(type, task), type # "ContinueVisit", visit_stack' = Front(visit_stack),
               UNCHANGED <<dfn, components, containing_cycle>>
        PROVE  FiledRight'
    <3>1. Active' = Active
      BY <1>1, <2>1, <2>2, TopSets, PoppedSets
    <3>2. Filed' = Filed
      BY <2>2, <3>1 DEF Filed, IsPlaced
    <3>3. QED
      BY <2>2, <3>2, FilesKept
  <2>3. CASE PushVisited(task)
    BY <2>2, <2>3 DEF PushVisited
  <2>4. CASE push_successors(task)
    BY <2>4, PushSuccessorsFiles
  <2>5. CASE VisitMember(task)
    BY <2>2, <2>5 DEF VisitMember
  <2>6. CASE VisitVertex(task)
    BY <2>6, VisitVertexFiles
  <2>7. CASE VisitHead(task)
    BY <2>7, VisitHeadFiles
  <2>8. CASE continue_visit(task)
    BY <2>8, ContinueVisitFiles
  <2>9. QED
    BY <2>1, <2>3, <2>4, <2>5, <2>6, <2>7, <2>8 DEF RunTask
<1>3. CASE UNCHANGED vars
  BY <1>3 DEF vars, builderVars, FiledRight, Filed, HasPlace, IsPlaced, Active, VerticesOf
<1>4. QED
  BY <1>2, <1>3 DEF Next, Terminating


(* Nothing is filed at the start.                                          *)
LEMMA FilesInit == Init => FiledRight
<1> SUFFICES ASSUME Init PROVE FiledRight
  OBVIOUS
<1>1. \A l \in Labels : ~ IsPlaced(l)
  BY InfinityFacts DEF Init, IsPlaced
<1>2. Filed = {} /\ containing_cycle = <<>>
  BY <1>1 DEF Init, Filed
<1>3. DOMAIN containing_cycle = {}
  BY <1>2
<1>4. QED
  BY <1>2, <1>3 DEF FiledRight

-----------------------------------------------------------------------------
(* The nesting of the cycles when the builder ends.                        *)

(* The cycle around a label, and around a cycle.                           *)
home(l) == IF l \in CycleHeads THEN parent[l] ELSE containing_cycle[l]

InCyclesOf(l, G) == {c \in CycleHeads : l \in Whole(c, G) /\ c # l}

(* A head stands in its own cycle, where it is by itself, and a vertex or  *)
(* cycle in the one around it.                                             *)
HomesRight(G) ==
    /\ CycleHeads \subseteq Reachable /\ Reachable \subseteq Labels /\ Root \notin CycleHeads
    /\ None \notin CycleHeads
    /\ \A c \in CycleHeads : /\ CycleHead(c) = c /\ Placed(c, G) = Whole(c, G) /\ head_dfn[c] \in Nat
                             /\ \A i \in 1..Len(components[c]) : components[c][i] \in Component
    /\ \A c \in CycleHeads : \A i \in 1..Len(components[c]) :
         LET e == components[c][i]
         IN  /\ e.cycle => /\ e.label \in CycleHeads /\ parent[e.label] = c /\ e.label # c
                           /\ head_dfn[c] < head_dfn[e.label] /\ c \notin Whole(e.label, G)
             /\ ~ e.cycle => e.label = c \/ (e.label \notin CycleHeads /\ containing_cycle[e.label] = c)
    /\ \A l \in Reachable : /\ l \in DOMAIN containing_cycle /\ containing_cycle[l] \in CycleHeads \cup {Root}
                            /\ l \in CycleHeads => containing_cycle[l] = l
                            /\ home(l) \in CycleHeads \cup {Root} /\ home(l) # l
                            /\ home(l) \in CycleHeads =>
                                 IF l \in CycleHeads THEN Whole(l, G) \subseteq Whole(home(l), G)
                                 ELSE l \in Whole(home(l), G)

(* What the invariant says of this when the builder ends.                  *)
LEMMA HomesAtEnd ==
    ASSUME NEW G, OrderInv(G), FiledRight, Built
    PROVE  HomesRight(G)
<1>1. TypeInv /\ TypeOK /\ Numbered /\ Places /\ PartsOK(G) /\ ScopesOK(G)
  BY DEF OrderInv, TypeInv
<1>2. Active = {} /\ Reachable = {l \in Labels : IsPlaced(l)} /\ DOMAIN components = CycleHeads \cup {Root}
  BY <1>1, BuiltFacts, ActiveHeads
<1>3. Filed = Reachable /\ DOMAIN containing_cycle = Reachable
  BY <1>2 DEF Filed, FiledRight
<1>4. CycleHeads \subseteq Reachable /\ Reachable \subseteq Labels /\ Root \notin CycleHeads /\ None \notin CycleHeads
  <2>1. CycleHeads \subseteq Labels /\ Labels \subseteq Nat
    BY <1>1, LabelsAssumption DEF TypeOK
  <2>2. \A c \in CycleHeads : IsPlaced(c)
    BY <1>1, HeadFacts DEF IsPlaced
  <2>3. Root \notin Nat /\ None \notin Nat
    BY DEF Root, None
  <2>4. QED
    BY <1>2, <2>1, <2>2, <2>3
<1>5. ASSUME NEW c \in CycleHeads
      PROVE  /\ CycleHead(c) = c /\ Placed(c, G) = Whole(c, G) /\ head_dfn[c] \in Nat
             /\ \A i \in 1..Len(components[c]) : components[c][i] \in Component
             /\ HasPlace(c, Vertex(c))
  <2>1. components[c] \in Seq(Component) /\ components[c] # <<>> /\ Last(components[c]) = Vertex(c)
    BY <1>1, <1>2, BuiltFacts DEF TypeOK
  <2>2. Len(components[c]) \in 1..Len(components[c])
    BY <2>1
  <2>3. HasPlace(c, Vertex(c))
    BY <2>1, <2>2 DEF HasPlace, Last
  <2>4. CycleHead(c) = c
    BY <2>1 DEF CycleHead, Vertex
  <2>5. \A i \in 1..Len(components[c]) : components[c][i] \in Component
    BY <2>1
  <2>6. QED
    BY <1>1, <2>3, <2>4, <2>5, BuiltFacts, HeadFacts
<1>6. ASSUME NEW c \in DOMAIN components, NEW d \in DOMAIN components, NEW e, HasPlace(c, e), HasPlace(d, e) PROVE c = d
  BY <1>1, <1>6 DEF Places, HasPlace
<1>7. ASSUME NEW l \in Reachable
      PROVE  /\ l \in DOMAIN containing_cycle /\ containing_cycle[l] \in DOMAIN components
             /\ HasPlace(containing_cycle[l], Vertex(l))
  BY <1>1, <1>2, <1>3 DEF FiledRight, TypeOK
<1>8. ASSUME NEW l \in CycleHeads PROVE containing_cycle[l] = l
  BY <1>2, <1>4, <1>5, <1>6, <1>7
<1>9. ASSUME NEW l \in CycleHeads
      PROVE  /\ HasPlace(parent[l], Cycle(l)) /\ parent[l] \in DOMAIN components
             /\ Level(parent[l]) < Level(l) /\ parent[l] # l
  <2>1. HasPlace(parent[l], Cycle(l)) /\ parent[l] \in DOMAIN components
    BY <1>1, <1>2 DEF Places, TypeOK
  <2>2. PICK i \in 1..Len(components[parent[l]]) : components[parent[l]][i] = Cycle(l)
    BY <2>1 DEF HasPlace
  <2>3. PlaceFits(parent[l], Cycle(l))
    BY <1>1, <2>1, <2>2 DEF Places
  <2>4. Level(parent[l]) < Level(l)
    BY <2>3 DEF PlaceFits, Cycle
  <2>5. Level(l) \in Nat
    BY <1>4, <1>5 DEF Level
  <2>6. ~ (Level(l) < Level(l))
    BY <2>5
  <2>7. parent[l] # l
    BY <2>4, <2>6
  <2>8. QED
    BY <2>1, <2>4, <2>7
<1>10. ASSUME NEW c \in CycleHeads, NEW i \in 1..Len(components[c])
       PROVE  LET e == components[c][i]
              IN  /\ e.cycle => /\ e.label \in CycleHeads /\ parent[e.label] = c /\ e.label # c
                                /\ head_dfn[c] < head_dfn[e.label] /\ c \notin Whole(e.label, G)
                  /\ ~ e.cycle => e.label = c \/ (e.label \notin CycleHeads /\ containing_cycle[e.label] = c)
  <2> DEFINE e == components[c][i]
  <2>1. e \in Component /\ PlaceFits(c, e) /\ HasPlace(c, e) /\ c \in DOMAIN components
    BY <1>1, <1>2, <1>5 DEF Places, HasPlace
  <2>2. CASE e.cycle
    <3>1. e.label \in CycleHeads /\ parent[e.label] = c /\ Level(c) < Level(e.label)
      BY <2>1, <2>2 DEF PlaceFits
    <3>2. e.label # c /\ head_dfn[c] < head_dfn[e.label]
      BY <1>4, <1>9, <3>1 DEF Level
    <3>3. PICK j \in 1..Len(components[c]) : components[c][j] = Vertex(c)
      BY <1>5 DEF HasPlace
    <3>4. i # j
      BY <2>2, <3>3 DEF Vertex
    <3>5. Inside(e, G) \cap Inside(Vertex(c), G) = {}
      BY <1>1, <2>1, <3>3, <3>4 DEF PartsOK, PartFits
    <3>6. Inside(Vertex(c), G) = {c} /\ Inside(e, G) = Whole(e.label, G)
      BY <2>2 DEF Inside, Vertex
    <3>7. QED
      BY <2>2, <3>1, <3>2, <3>5, <3>6
  <2>3. CASE ~ e.cycle
    <3>1. e = Vertex(e.label) /\ e.label \in Labels
      BY <2>1, <2>3 DEF Vertex, Component
    <3>2. e.label \in Reachable
      BY <1>2, <2>1, <2>3, <3>1 DEF PlaceFits
    <3>3. containing_cycle[e.label] = c
      BY <1>6, <1>7, <2>1, <3>1, <3>2
    <3>4. e.label \in CycleHeads => e.label = c
      BY <1>8, <3>3
    <3>5. QED
      BY <2>3, <3>3, <3>4
  <2>4. QED
    BY <2>2, <2>3
<1>11. ASSUME NEW c \in CycleHeads, NEW e, HasPlace(c, e) PROVE Inside(e, G) \subseteq Whole(c, G)
  BY <1>5, <1>11 DEF HasPlace, Placed
<1>12. ASSUME NEW l \in Reachable
       PROVE  /\ home(l) \in CycleHeads \cup {Root} /\ home(l) # l
              /\ home(l) \in CycleHeads =>
                   IF l \in CycleHeads THEN Whole(l, G) \subseteq Whole(home(l), G) ELSE l \in Whole(home(l), G)
  <2>1. CASE l \in CycleHeads
    <3>1. home(l) \in CycleHeads \cup {Root} /\ home(l) # l /\ HasPlace(home(l), Cycle(l))
      BY <1>2, <1>9, <2>1 DEF home
    <3>2. Inside(Cycle(l), G) = Whole(l, G)
      BY DEF Inside, Cycle
    <3>3. QED
      BY <1>11, <2>1, <3>1, <3>2
  <2>2. CASE l \notin CycleHeads
    <3>1. home(l) \in CycleHeads \cup {Root} /\ HasPlace(home(l), Vertex(l))
      BY <1>2, <1>7, <2>2 DEF home
    <3>2. home(l) # l
      BY <1>4, <2>2, <3>1, LabelsAssumption DEF Root
    <3>3. Inside(Vertex(l), G) = {l}
      BY DEF Inside, Vertex
    <3>4. QED
      BY <1>11, <2>2, <3>1, <3>2, <3>3
  <2>3. QED
    BY <2>1, <2>2
<1>13. QED
  BY <1>2, <1>4, <1>5, <1>7, <1>8, <1>10, <1>12 DEF HomesRight


(* What is shown of a cycle once it is shown of those inside it holds of   *)
(* every cycle: those inside have greater numbers.                         *)
LEMMA InnermostFirst ==
    ASSUME NEW G, HomesRight(G), NEW A,
           \A c \in CycleHeads : (\A d \in CycleHeads : head_dfn[c] < head_dfn[d] => d \in A) => c \in A
    PROVE  CycleHeads \subseteq A
<1> DEFINE S == {c \in CycleHeads : c \notin A}
           T == {head_dfn[c] : c \in S}
<1>1. \A c \in CycleHeads : head_dfn[c] \in Nat
  BY DEF HomesRight
<1>2. IsFiniteSet(T) /\ T \in SUBSET Int
  <2>1. IsFiniteSet(S)
    <3>1. S \in SUBSET Labels
      BY DEF HomesRight
    <3>2. QED
      BY <3>1, LabelsAssumption, FS_Subset
  <2>2. IsFiniteSet(T)
    <3> DEFINE f == [c \in S |-> head_dfn[c]]
    <3>1. f \in [S -> T] /\ \A t \in T : \E c \in S : f[c] = t
      OBVIOUS
    <3>2. f \in Surjection(S, T)
      BY <3>1 DEF Surjection
    <3> HIDE DEF S, T, f
    <3>3. QED
      BY <2>1, <3>2, FS_Surjection
  <2>3. QED
    BY <1>1, <2>2
<1>3. CASE T = {}
  BY <1>3
<1>4. CASE T # {}
  <2> HIDE DEF T
  <2>1. PICK m \in T : \A t \in T : t <= m
    BY <1>2, <1>4, GreatestExists
  <2> USE DEF T
  <2>2. PICK c \in S : m = head_dfn[c]
    BY <2>1
  <2>3. \A d \in CycleHeads : head_dfn[c] < head_dfn[d] => d \in A
    <3>1. \A d \in S : head_dfn[d] <= head_dfn[c]
      BY <2>1, <2>2
    <3>2. \A d \in S : ~ (head_dfn[c] < head_dfn[d])
      BY <1>1, <2>2, <3>1
    <3>3. QED
      BY <3>2
  <2>4. QED
    BY <2>2, <2>3
<1>5. QED
  BY <1>3, <1>4

(* A cycle whose head is in another is inside it, that one's head left out.*)
LEMMA CyclesNested ==
    ASSUME NEW G, HomesRight(G)
    PROVE  \A c, a \in CycleHeads : a \in Whole(c, G) /\ a # c => Whole(a, G) \subseteq Whole(c, G) \ {c}
<1> DEFINE A == {c \in CycleHeads : \A a \in CycleHeads :
                   a \in Whole(c, G) /\ a # c => Whole(a, G) \subseteq Whole(c, G) \ {c}}
<1>1. ASSUME NEW c \in CycleHeads, \A d \in CycleHeads : head_dfn[c] < head_dfn[d] => d \in A PROVE c \in A
  <2> SUFFICES ASSUME NEW a \in CycleHeads, a \in Whole(c, G), a # c PROVE Whole(a, G) \subseteq Whole(c, G) \ {c}
    OBVIOUS
  <2>1. Placed(c, G) = Whole(c, G)
    BY DEF HomesRight
  <2>2. PICK i \in 1..Len(components[c]) : a \in Inside(components[c][i], G)
    BY <2>1 DEF Placed
  <2> DEFINE e == components[c][i]
  <2>3. /\ e.cycle => /\ e.label \in CycleHeads /\ parent[e.label] = c /\ e.label # c
                      /\ head_dfn[c] < head_dfn[e.label] /\ c \notin Whole(e.label, G)
        /\ ~ e.cycle => e.label = c \/ (e.label \notin CycleHeads /\ containing_cycle[e.label] = c)
    BY DEF HomesRight
  <2>4. e.cycle /\ a \in Whole(e.label, G)
    BY <2>2, <2>3 DEF Inside
  <2>5. Whole(e.label, G) \subseteq Whole(c, G) \ {c}
    <3>1. Inside(e, G) = Whole(e.label, G) /\ Inside(e, G) \subseteq Placed(c, G)
      BY <2>4 DEF Inside, Placed
    <3>2. QED
      BY <2>1, <2>3, <2>4, <3>1
  <2>6. CASE a = e.label
    BY <2>5, <2>6
  <2>7. CASE a # e.label
    <3>1. e.label \in A
      BY <1>1, <2>3, <2>4
    <3>2. Whole(a, G) \subseteq Whole(e.label, G)
      BY <2>4, <2>7, <3>1
    <3>3. QED
      BY <2>5, <3>2
  <2>8. QED
    BY <2>6, <2>7
<1> HIDE DEF A
<1>2. CycleHeads \subseteq A
  BY <1>1, InnermostFirst
<1>3. QED
  BY <1>2 DEF A

(* A label is in a cycle other than its own when the cycle around it is,   *)
(* or is that one.                                                         *)
LEMMA HomeDecides ==
    ASSUME NEW G, HomesRight(G)
    PROVE  \A c \in CycleHeads, l \in Reachable :
             l \in Whole(c, G) /\ l # c => home(l) = c \/ (home(l) \in CycleHeads /\ home(l) \in Whole(c, G))
<1> DEFINE A == {c \in CycleHeads : \A l \in Reachable :
                   l \in Whole(c, G) /\ l # c => home(l) = c \/ (home(l) \in CycleHeads /\ home(l) \in Whole(c, G))}
<1>1. ASSUME NEW c \in CycleHeads, \A d \in CycleHeads : head_dfn[c] < head_dfn[d] => d \in A PROVE c \in A
  <2> SUFFICES ASSUME NEW l \in Reachable, l \in Whole(c, G), l # c
               PROVE  home(l) = c \/ (home(l) \in CycleHeads /\ home(l) \in Whole(c, G))
    OBVIOUS
  <2>1. Placed(c, G) = Whole(c, G)
    BY DEF HomesRight
  <2>2. PICK i \in 1..Len(components[c]) : l \in Inside(components[c][i], G)
    BY <2>1 DEF Placed
  <2> DEFINE e == components[c][i]
  <2>3. /\ e.cycle => /\ e.label \in CycleHeads /\ parent[e.label] = c /\ e.label # c
                      /\ head_dfn[c] < head_dfn[e.label] /\ c \notin Whole(e.label, G)
        /\ ~ e.cycle => e.label = c \/ (e.label \notin CycleHeads /\ containing_cycle[e.label] = c)
    BY DEF HomesRight
  <2>4. CASE ~ e.cycle
    BY <2>2, <2>3, <2>4 DEF Inside, home
  <2>5. CASE e.cycle /\ e.label = l
    BY <2>3, <2>5 DEF home
  <2>6. CASE e.cycle /\ e.label # l
    <3>1. l \in Whole(e.label, G) /\ Inside(e, G) = Whole(e.label, G)
      BY <2>2, <2>6 DEF Inside
    <3>2. Whole(e.label, G) \subseteq Whole(c, G) /\ e.label \in Whole(c, G)
      BY <2>1, <3>1 DEF Placed, Whole
    <3>3. e.label \in A
      BY <1>1, <2>3, <2>6
    <3>4. home(l) = e.label \/ (home(l) \in CycleHeads /\ home(l) \in Whole(e.label, G))
      BY <2>6, <3>1, <3>3
    <3>5. QED
      BY <2>3, <2>6, <3>2, <3>4
  <2>7. QED
    BY <2>4, <2>5, <2>6
<1> HIDE DEF A
<1>2. CycleHeads \subseteq A
  BY <1>1, InnermostFirst
<1>3. QED
  BY <1>2 DEF A

(* wto_t::head is the cycle around: without one a label is in none, and    *)
(* with one in that and in those that one is in.                           *)
LEMMA HeadIsHome ==
    ASSUME NEW G, HomesRight(G), NEW l \in Reachable
    PROVE  /\ head(l) \in CycleHeads \cup {None}
           /\ head(l) = None => InCyclesOf(l, G) = {}
           /\ head(l) # None => /\ InCyclesOf(l, G) = {head(l)} \cup InCyclesOf(head(l), G)
                                /\ head(l) \notin InCyclesOf(head(l), G)
<1>1. /\ l \in DOMAIN containing_cycle /\ containing_cycle[l] \in CycleHeads \cup {Root}
      /\ l \in CycleHeads => containing_cycle[l] = l
      /\ home(l) \in CycleHeads \cup {Root} /\ home(l) # l
  BY DEF HomesRight
<1>2. Root \notin CycleHeads /\ None \notin CycleHeads /\ \A c \in CycleHeads : CycleHead(c) = c
  BY DEF HomesRight
<1>3. head(l) = IF home(l) = Root THEN None ELSE home(l)
  <2>1. CASE l \in CycleHeads
    BY <1>1, <1>2, <2>1 DEF head, home
  <2>2. CASE l \notin CycleHeads
    BY <1>1, <1>2, <2>2 DEF head, home
  <2>3. QED
    BY <2>1, <2>2
<1>4. CASE home(l) = Root
  <2>1. InCyclesOf(l, G) = {}
    BY <1>2, <1>4, HomeDecides DEF InCyclesOf
  <2>2. QED
    BY <1>3, <1>4, <2>1
<1>5. CASE home(l) \in CycleHeads
  <2> DEFINE h == home(l)
  <2>1. head(l) = h /\ h # None /\ h # Root /\ h # l
    BY <1>1, <1>2, <1>3, <1>5
  <2>2. l \in Whole(h, G) /\ (l \in CycleHeads => Whole(l, G) \subseteq Whole(h, G))
    BY <1>5 DEF HomesRight, Whole
  <2> HIDE DEF h
  <2>3. h \in CycleHeads
    BY <1>5 DEF h
  <2>4. InCyclesOf(l, G) \subseteq {h} \cup InCyclesOf(h, G)
    <3>1. ASSUME NEW c \in CycleHeads, l \in Whole(c, G), c # l PROVE h = c \/ h \in Whole(c, G)
      BY <3>1, HomeDecides DEF h
    <3>2. QED
      BY <3>1 DEF InCyclesOf
  <2>5. ASSUME NEW c \in InCyclesOf(h, G) PROVE c \in InCyclesOf(l, G)
    <3>1. c \in CycleHeads /\ h \in Whole(c, G) /\ h # c
      BY DEF InCyclesOf
    <3>2. Whole(h, G) \subseteq Whole(c, G) \ {c}
      BY <2>3, <3>1, CyclesNested
    <3>3. QED
      BY <2>2, <3>1, <3>2 DEF InCyclesOf
  <2>6. h \in InCyclesOf(l, G) /\ h \notin InCyclesOf(h, G)
    BY <2>1, <2>2, <2>3 DEF InCyclesOf
  <2>7. InCyclesOf(l, G) = {h} \cup InCyclesOf(h, G)
    BY <2>4, <2>5, <2>6
  <2>8. QED
    BY <2>1, <2>3, <2>6, <2>7
<1>6. QED
  BY <1>1, <1>4, <1>5


(* The cycles a label is in, innermost first, each the head of the one     *)
(* before.                                                                 *)
ListsCycles(s, n, l, G) ==
    /\ n \in Nat /\ s \in [1..n -> CycleHeads] /\ n = Cardinality(InCyclesOf(l, G))
    /\ InCyclesOf(l, G) = {s[i] : i \in 1..n}
    /\ head(l) = IF n = 0 THEN None ELSE s[1]
    /\ \A i \in 1..n : head(s[i]) = IF i = n THEN None ELSE s[i + 1]
    /\ \A i \in 1..n : /\ InCyclesOf(s[i], G) = {s[j] : j \in (i + 1)..n}
                       /\ Cardinality(InCyclesOf(s[i], G)) = n - i

(* The list of a head, with the head before it, is that of what is in it.  *)
LEMMA ListExtends ==
    ASSUME NEW G, HomesRight(G), NEW l \in Reachable, head(l) # None, NEW s, NEW n,
           ListsCycles(s, n, head(l), G), IsFiniteSet(InCyclesOf(head(l), G))
    PROVE  \E t : ListsCycles(t, n + 1, l, G)
<1> DEFINE h == head(l)
           t == [k \in 1..(n + 1) |-> IF k = 1 THEN h ELSE s[k - 1]]
<1>a. n \in Nat
  BY DEF ListsCycles
<1>1. /\ n \in Nat /\ s \in [1..n -> CycleHeads] /\ n = Cardinality(InCyclesOf(h, G))
      /\ InCyclesOf(h, G) = {s[i] : i \in 1..n}
      /\ head(h) = IF n = 0 THEN None ELSE s[1]
      /\ \A i \in 1..n : head(s[i]) = IF i = n THEN None ELSE s[i + 1]
      /\ \A i \in 1..n : /\ InCyclesOf(s[i], G) = {s[j] : j \in (i + 1)..n}
                         /\ Cardinality(InCyclesOf(s[i], G)) = n - i
  BY DEF ListsCycles
<1>2. h \in CycleHeads /\ h # None /\ InCyclesOf(l, G) = {h} \cup InCyclesOf(h, G) /\ h \notin InCyclesOf(h, G)
  BY HeadIsHome
<1>3. Cardinality(InCyclesOf(l, G)) = n + 1
  <2> DEFINE C == InCyclesOf(h, G)
  <2>1. IsFiniteSet(C) /\ Cardinality(C) = n /\ h \notin C /\ InCyclesOf(l, G) = C \cup {h}
    BY <1>1, <1>2
  <2> HIDE DEF C, h
  <2>2. Cardinality(C \cup {h}) = n + 1
    BY <2>1, FS_AddElement
  <2>3. QED
    BY <2>1, <2>2
<1> HIDE DEF h
<1>4. t \in [1..(n + 1) -> CycleHeads] /\ t[1] = h /\ \A i \in 1..n : t[i + 1] = s[i]
  <2>1. \A k \in 1..(n + 1) : k # 1 => k - 1 \in 1..n
    BY <1>a
  <2>2. \A i \in 1..n : i + 1 \in 1..(n + 1) /\ i + 1 # 1 /\ (i + 1) - 1 = i
    BY <1>a
  <2>3. 1 \in 1..(n + 1)
    BY <1>a
  <2>4. QED
    BY <1>1, <1>2, <2>1, <2>2, <2>3
<1> HIDE DEF t
<1>5. \A k \in 1..(n + 1) : k = 1 \/ \E i \in 1..n : k = i + 1
  <2>1. \A k \in 1..(n + 1) : k = 1 \/ (k - 1 \in 1..n /\ k = (k - 1) + 1)
    BY <1>a
  <2>2. QED
    BY <2>1
<1>6. ASSUME NEW i \in 0..n PROVE {s[j] : j \in (i + 1)..n} = {t[j] : j \in (i + 2)..(n + 1)}
  <2>a. \A j \in (i + 1)..n : j \in 1..n /\ j + 1 \in (i + 2)..(n + 1)
    BY <1>a
  <2>1. \A j \in (i + 1)..n : j + 1 \in (i + 2)..(n + 1) /\ t[j + 1] = s[j]
    BY <1>4, <2>a
  <2>2. \A k \in (i + 2)..(n + 1) : k - 1 \in (i + 1)..n /\ (k - 1) + 1 = k
    BY <1>a
  <2>3. \A k \in (i + 2)..(n + 1) : t[k] = s[k - 1]
    BY <2>1, <2>2
  <2>4. QED
    BY <2>1, <2>2, <2>3
<1>7. InCyclesOf(h, G) = {t[j] : j \in 2..(n + 1)}
  <2>1. 0 \in 0..n /\ 0 + 1 = 1 /\ 0 + 2 = 2
    BY <1>a
  <2>2. QED
    BY <1>1, <1>6, <2>1
<1>8. InCyclesOf(l, G) = {t[i] : i \in 1..(n + 1)}
  <2>1. \A i : i \in 1..(n + 1) <=> i = 1 \/ i \in 2..(n + 1)
    BY <1>a
  <2>2. QED
    BY <1>2, <1>4, <1>7, <2>1
<1>9. ASSUME NEW k \in 1..(n + 1)
      PROVE  /\ head(t[k]) = IF k = n + 1 THEN None ELSE t[k + 1]
             /\ InCyclesOf(t[k], G) = {t[j] : j \in (k + 1)..(n + 1)}
             /\ Cardinality(InCyclesOf(t[k], G)) = (n + 1) - k
  <2>1. CASE k = 1
    <3>1. 1 + 1 = 2 /\ (n + 1) - 1 = n /\ (n # 0 => 1 \in 1..n /\ n + 1 # 1) /\ (n = 0 => n + 1 = 1)
      BY <1>a
    <3>2. head(h) = IF 1 = n + 1 THEN None ELSE t[2]
      BY <1>1, <1>4, <3>1
    <3>3. QED
      BY <1>1, <1>4, <1>7, <2>1, <3>1, <3>2
  <2>2. ASSUME NEW i \in 1..n, k = i + 1
        PROVE  /\ head(t[k]) = IF k = n + 1 THEN None ELSE t[k + 1]
               /\ InCyclesOf(t[k], G) = {t[j] : j \in (k + 1)..(n + 1)}
               /\ Cardinality(InCyclesOf(t[k], G)) = (n + 1) - k
    <3>1. t[k] = s[i] /\ (i # n => t[k + 1] = s[i + 1])
      <4>1. i # n => i + 1 \in 1..n
        BY <1>a
      <4>2. QED
        BY <1>4, <2>2, <4>1
    <3>2. (k = n + 1 <=> i = n) /\ i \in 0..n /\ k + 1 = i + 2 /\ (n + 1) - k = n - i
      BY <1>a, <2>2
    <3>3. head(s[i]) = IF i = n THEN None ELSE s[i + 1]
      BY <1>1
    <3>4. QED
      BY <1>1, <1>6, <3>1, <3>2, <3>3
  <2>3. QED
    BY <1>5, <2>1, <2>2
<1>10. n + 1 \in Nat /\ n + 1 # 0
  BY <1>a
<1>11. ListsCycles(t, n + 1, l, G)
  BY <1>3, <1>4, <1>8, <1>9, <1>10 DEF ListsCycles, h
<1>12. QED
  BY <1>11

(* Every label has such a list.                                            *)
LEMMA ListExists ==
    ASSUME NEW G, HomesRight(G)
    PROVE  \A l \in Reachable : \E s, n : ListsCycles(s, n, l, G)
<1> DEFINE Depth(l) == Cardinality(InCyclesOf(l, G))
           A == {d \in Nat : \A l \in Reachable : Depth(l) = d => \E s : ListsCycles(s, d, l, G)}
<1>1. \A l : IsFiniteSet(InCyclesOf(l, G)) /\ Depth(l) \in Nat
  <2>1. \A l : InCyclesOf(l, G) \in SUBSET Labels
    BY DEF InCyclesOf, HomesRight
  <2>2. QED
    BY <2>1, LabelsAssumption, FS_Subset, FS_CardinalityType
<1>2. CycleHeads \subseteq Reachable
  BY DEF HomesRight
<1>3. 0 \in A
  <2> SUFFICES ASSUME NEW l \in Reachable, Depth(l) = 0 PROVE \E s : ListsCycles(s, 0, l, G)
    OBVIOUS
  <2>1. InCyclesOf(l, G) = {}
    BY <1>1, FS_EmptySet
  <2>2. head(l) = None
    BY <2>1, HeadIsHome
  <2> DEFINE s == [i \in 1..0 |-> None]
  <2>3. 1..0 = {} /\ s \in [1..0 -> CycleHeads] /\ {s[i] : i \in 1..0} = {} /\ \A i \in 1..0 : FALSE
    OBVIOUS
  <2> HIDE DEF s
  <2>4. ListsCycles(s, 0, l, G)
    BY <2>1, <2>2, <2>3 DEF ListsCycles
  <2>5. QED
    BY <2>4
<1>4. ASSUME NEW d \in Nat, d \in A PROVE d + 1 \in A
  <2> SUFFICES ASSUME NEW l \in Reachable, Depth(l) = d + 1 PROVE \E s : ListsCycles(s, d + 1, l, G)
    OBVIOUS
  <2>1. head(l) # None
    <3>1. d + 1 # 0 /\ Cardinality({}) = 0
      BY FS_EmptySet
    <3>2. InCyclesOf(l, G) # {}
      BY <3>1
    <3>3. QED
      BY <3>2, HeadIsHome
  <2>2. /\ head(l) \in CycleHeads /\ InCyclesOf(l, G) = {head(l)} \cup InCyclesOf(head(l), G)
        /\ head(l) \notin InCyclesOf(head(l), G)
    BY <2>1, HeadIsHome
  <2>3. Depth(l) = Depth(head(l)) + 1
    <3> DEFINE C == InCyclesOf(head(l), G)
               h == head(l)
    <3>1. IsFiniteSet(C) /\ h \notin C /\ InCyclesOf(l, G) = C \cup {h} /\ Cardinality(C) = Depth(h)
      BY <1>1, <2>2
    <3> HIDE DEF C
    <3>2. Cardinality(C \cup {h}) = Cardinality(C) + 1
      BY <3>1, FS_AddElement
    <3>3. QED
      BY <3>1, <3>2
  <2>4. Depth(head(l)) = d
    BY <1>1, <2>3
  <2>5. PICK s : ListsCycles(s, d, head(l), G)
    BY <1>2, <1>4, <2>2, <2>4
  <2>6. QED
    BY <1>1, <2>1, <2>5, ListExtends
<1> HIDE DEF A
<1>5. \A d \in Nat : d \in A
  BY <1>3, <1>4, NumberInduction
<1>6. QED
  BY <1>1, <1>5 DEF A


(* collect_heads collects it.                                              *)
LEMMA HeadsCollected ==
    ASSUME NEW G, HomesRight(G), NEW l \in Reachable, NEW s, NEW n, ListsCycles(s, n, l, G)
    PROVE  collect_heads(l) = s
<1> DEFINE N == Cardinality(Labels)
           After(c, k) == IF k = 1 THEN head(l) ELSE LET h == c[k - 1] IN IF h = None THEN None ELSE head(h)
           IsChain(c) == c = [k \in 1..N |-> After(c, k)]
           chain == CHOOSE c : IsChain(c)
           it == [k \in 1..N |-> IF k <= n THEN s[k] ELSE None]
           depth == Cardinality({k \in 1..N : chain[k] # None})
           B == {k \in Nat : k \in 1..N => chain[k] = it[k]}
<1>a. n \in Nat
  BY DEF ListsCycles
<1>1. /\ s \in [1..n -> CycleHeads]
      /\ head(l) = IF n = 0 THEN None ELSE s[1]
      /\ \A i \in 1..n : head(s[i]) = IF i = n THEN None ELSE s[i + 1]
  BY DEF ListsCycles
<1>2. \A i \in 1..n : s[i] # None
  BY <1>1 DEF HomesRight
<1>3. N \in Nat /\ n <= N
  <2> DEFINE C == InCyclesOf(l, G)
  <2>1. C \in SUBSET Labels
    BY DEF InCyclesOf, HomesRight
  <2> HIDE DEF C
  <2>2. Cardinality(C) <= Cardinality(Labels) /\ Cardinality(Labels) \in Nat
    BY <2>1, LabelsAssumption, FS_Subset, FS_CardinalityType
  <2>3. n = Cardinality(C)
    BY DEF ListsCycles, C
  <2>4. QED
    BY <2>2, <2>3
<1>4. collect_heads(l) = [k \in 1..depth |-> chain[k]]
  BY DEF collect_heads
<1> HIDE DEF N, chain, depth
<1>5. \A k \in 1..N : it[k] = After(it, k)
  <2> SUFFICES ASSUME NEW k \in 1..N PROVE it[k] = After(it, k)
    OBVIOUS
  <2>1. it[k] = IF k <= n THEN s[k] ELSE None
    OBVIOUS
  <2>2. CASE k = 1
    <3>1. (1 <= n <=> n # 0)
      BY <1>a
    <3>2. QED
      BY <1>1, <2>1, <2>2, <3>1
  <2>3. CASE k # 1
    <3>1. k - 1 \in 1..N
      BY <1>3, <2>3
    <3>2. it[k - 1] = IF k - 1 <= n THEN s[k - 1] ELSE None
      BY <3>1
    <3>3. CASE k - 1 <= n
      <4>1. k - 1 \in 1..n /\ (k - 1) + 1 = k /\ (k - 1 = n <=> ~ (k <= n))
        BY <1>a, <1>3, <2>3, <3>1, <3>3
      <4>2. it[k - 1] = s[k - 1] /\ s[k - 1] # None
        BY <1>2, <3>2, <3>3, <4>1
      <4>3. head(s[k - 1]) = IF k <= n THEN s[k] ELSE None
        BY <1>1, <4>1
      <4> HIDE DEF it
      <4>4. QED
        BY <2>1, <2>3, <4>2, <4>3
    <3>4. CASE ~ (k - 1 <= n)
      <4>1. ~ (k <= n)
        BY <1>a, <1>3, <3>1, <3>4
      <4> HIDE DEF it
      <4>2. QED
        BY <2>1, <2>3, <3>2, <3>4, <4>1
    <3>5. QED
      BY <3>3, <3>4
  <2>4. QED
    BY <2>2, <2>3
<1>6. IsChain(chain)
  <2> HIDE DEF After
  <2>1. IsChain(it)
    <3>1. it = [k \in 1..N |-> it[k]]
      OBVIOUS
    <3> HIDE DEF it
    <3>2. QED
      BY <1>5, <3>1
  <2> HIDE DEF IsChain, it
  <2>2. QED
    BY <2>1 DEF chain
<1>7. \A k \in 1..N : chain[k] = After(chain, k)
  <2> HIDE DEF After
  <2>1. QED
    BY <1>6
<1> HIDE DEF IsChain, it
<1>8. 0 \in B
  BY <1>3
<1>9. ASSUME NEW k \in Nat, k \in B PROVE k + 1 \in B
  <2> SUFFICES ASSUME k + 1 \in 1..N PROVE chain[k + 1] = it[k + 1]
    OBVIOUS
  <2>1. CASE k = 0
    BY <1>5, <1>7, <2>1
  <2>2. CASE k # 0
    <3>1. k \in 1..N /\ k + 1 # 1 /\ (k + 1) - 1 = k
      BY <1>3, <2>2
    <3>2. chain[k] = it[k]
      BY <1>9, <3>1
    <3>3. QED
      BY <1>5, <1>7, <3>1, <3>2
  <2>3. QED
    BY <2>1, <2>2
<1> HIDE DEF B
<1>10. \A k \in Nat : k \in B
  BY <1>8, <1>9, NumberInduction
<1>11. ASSUME NEW k \in 1..N PROVE chain[k] = IF k <= n THEN s[k] ELSE None
  <2>1. k \in Nat
    BY <1>3
  <2>2. chain[k] = it[k]
    BY <1>10, <2>1 DEF B
  <2>3. QED
    BY <2>2 DEF it
<1> HIDE DEF After
<1>12. {k \in 1..N : chain[k] # None} = 1..n
  <2>1. \A k : k \in 1..n <=> k \in 1..N /\ k <= n
    BY <1>a, <1>3
  <2>2. QED
    BY <1>2, <1>11, <2>1
<1>13. Cardinality(1..n) = n
  <2>1. Cardinality(1..n) = IF 1 > n THEN 0 ELSE n - 1 + 1
    BY <1>a, FS_Interval
  <2>2. QED
    BY <1>a, <2>1
<1>14. depth = n
  BY <1>12, <1>13 DEF depth
<1>15. \A k \in 1..n : chain[k] = s[k]
  <2>1. \A k \in 1..n : k \in 1..N /\ k <= n
    BY <1>a, <1>3
  <2>2. QED
    BY <1>11, <2>1
<1>16. [k \in 1..n |-> chain[k]] = s
  BY <1>1, <1>15
<1>17. QED
  BY <1>4, <1>14, <1>16

(* What the lists say of each other is NestingAgrees.                      *)
LEMMA NestingAtEnd == OrderHolds /\ FiledRight => NestingAgrees
<1> DEFINE InCycles(l) == {c \in CycleHeads : l \in Members[c] /\ c # l}
           Nesting(l) == collect_heads(l)
<1> SUFFICES ASSUME NEW G, OrderInv(G), FiledRight, Built
             PROVE  /\ \A l \in Reachable :
                         /\ {Nesting(l)[i] : i \in 1..Len(Nesting(l))} = InCycles(l)
                         /\ \A i, j \in 1..Len(Nesting(l)) :
                              i < j => Members[Nesting(l)[i]] \subseteq Members[Nesting(l)[j]] \ {Nesting(l)[j]}
                    /\ \A k, l \in Reachable :
                         NestedDeeper(Nesting(k), Nesting(l)) <=> InCycles(l) \subseteq InCycles(k) /\ InCycles(l) # InCycles(k)
  BY DEF OrderHolds, NestingAgrees
<1>1. HomesRight(G)
  BY HomesAtEnd
<1>2. \A c \in CycleHeads : Members[c] = Whole(c, G)
  BY MembersWhole
<1>3. \A l : InCycles(l) = InCyclesOf(l, G)
  BY <1>2 DEF InCyclesOf
<1>4. ASSUME NEW l \in Reachable
      PROVE  \E n \in Nat : ListsCycles(Nesting(l), n, l, G) /\ Len(Nesting(l)) = n
  <2>1. PICK s, n : ListsCycles(s, n, l, G)
    BY <1>1, ListExists
  <2>2. Nesting(l) = s
    BY <1>1, <2>1, HeadsCollected
  <2>3. n \in Nat /\ s \in [1..n -> CycleHeads]
    BY <2>1 DEF ListsCycles
  <2>4. Len(s) = n
    BY <2>3
  <2>5. QED
    BY <2>1, <2>2, <2>3, <2>4
<1> HIDE DEF Nesting, InCycles
<1>5. ASSUME NEW l \in Reachable
      PROVE  /\ {Nesting(l)[i] : i \in 1..Len(Nesting(l))} = InCycles(l)
             /\ \A i, j \in 1..Len(Nesting(l)) :
                  i < j => Members[Nesting(l)[i]] \subseteq Members[Nesting(l)[j]] \ {Nesting(l)[j]}
  <2>1. PICK n \in Nat : ListsCycles(Nesting(l), n, l, G) /\ Len(Nesting(l)) = n
    BY <1>4
  <2> DEFINE s == Nesting(l)
  <2> HIDE DEF s
  <2>2. /\ s \in [1..n -> CycleHeads] /\ InCyclesOf(l, G) = {s[i] : i \in 1..n}
        /\ \A i \in 1..n : InCyclesOf(s[i], G) = {s[j] : j \in (i + 1)..n}
    BY <2>1 DEF ListsCycles, s
  <2>3. ASSUME NEW i \in 1..n, NEW j \in 1..n, i < j PROVE Members[s[i]] \subseteq Members[s[j]] \ {s[j]}
    <3>1. j \in (i + 1)..n
      BY <2>3
    <3>2. s[j] \in InCyclesOf(s[i], G) /\ s[i] \in CycleHeads /\ s[j] \in CycleHeads
      BY <2>2, <3>1
    <3>3. s[i] \in Whole(s[j], G) /\ s[i] # s[j]
      BY <3>2 DEF InCyclesOf
    <3>4. Whole(s[i], G) \subseteq Whole(s[j], G) \ {s[j]}
      BY <1>1, <3>2, <3>3, CyclesNested
    <3>5. QED
      BY <1>2, <3>2, <3>4
  <2>4. QED
    BY <1>3, <2>1, <2>2, <2>3 DEF s
<1>6. ASSUME NEW k \in Reachable, NEW l \in Reachable
      PROVE  NestedDeeper(Nesting(k), Nesting(l)) <=> InCycles(l) \subseteq InCycles(k) /\ InCycles(l) # InCycles(k)
  <2>1. PICK m \in Nat : ListsCycles(Nesting(k), m, k, G) /\ Len(Nesting(k)) = m
    BY <1>4
  <2>2. PICK n \in Nat : ListsCycles(Nesting(l), n, l, G) /\ Len(Nesting(l)) = n
    BY <1>4
  <2> DEFINE s == Nesting(k)
             t == Nesting(l)
  <2> HIDE DEF s, t
  <2>3. /\ m = Cardinality(InCycles(k)) /\ InCycles(k) = {s[i] : i \in 1..m}
        /\ \A i \in 1..m : Cardinality(InCyclesOf(s[i], G)) = m - i
    BY <1>3, <2>1 DEF ListsCycles, s
  <2>4. /\ n = Cardinality(InCycles(l)) /\ InCycles(l) = {t[i] : i \in 1..n}
        /\ \A i \in 1..n : Cardinality(InCyclesOf(t[i], G)) = n - i
    BY <1>3, <2>2 DEF ListsCycles, t
  <2>5. NestedDeeper(s, t) <=> m > n /\ \A i \in 0..(n - 1) : s[m - i] = t[n - i]
    BY <2>1, <2>2 DEF NestedDeeper, s, t
  <2>6. ASSUME m > n, \A i \in 0..(n - 1) : s[m - i] = t[n - i]
        PROVE  InCycles(l) \subseteq InCycles(k) /\ InCycles(l) # InCycles(k)
    <3>1. ASSUME NEW j \in 1..n PROVE t[j] \in InCycles(k)
      <4>1. n - j \in 0..(n - 1) /\ n - (n - j) = j /\ m - (n - j) \in 1..m
        BY <2>6
      <4>2. s[m - (n - j)] = t[j]
        BY <2>6, <4>1
      <4>3. QED
        BY <2>3, <4>1, <4>2
    <3>2. m # n
      BY <2>6
    <3>3. QED
      BY <2>3, <2>4, <3>1, <3>2
  <2>7. ASSUME InCycles(l) \subseteq InCycles(k), InCycles(l) # InCycles(k)
        PROVE  m > n /\ \A i \in 0..(n - 1) : s[m - i] = t[n - i]
    <3>1. IsFiniteSet(InCycles(k))
      <4>1. InCycles(k) \in SUBSET Labels
        BY <1>1, <1>3 DEF InCyclesOf, HomesRight
      <4>2. QED
        BY <4>1, LabelsAssumption, FS_Subset
    <3>2. n <= m /\ n # m
      BY <2>3, <2>4, <2>7, <3>1, FS_Subset
    <3>3. ASSUME NEW i \in 0..(n - 1) PROVE s[m - i] = t[n - i]
      <4>1. n - i \in 1..n /\ n - (n - i) = i
        OBVIOUS
      <4>2. t[n - i] \in InCycles(k) /\ Cardinality(InCyclesOf(t[n - i], G)) = i
        BY <2>4, <2>7, <4>1
      <4>3. PICK j \in 1..m : t[n - i] = s[j]
        BY <2>3, <4>2
      <4>4. m - j = i
        BY <2>3, <4>2, <4>3
      <4>5. m - i = j
        BY <4>4
      <4>6. QED
        BY <4>3, <4>5
    <3>4. QED
      BY <3>2, <3>3
  <2>8. QED
    BY <2>5, <2>6, <2>7 DEF s, t
<1>7. QED
  BY <1>5, <1>6 DEF Nesting, InCycles

(* The invariant, with the files.                                          *)
InOrderFiled == InOrder /\ FiledRight

(* Every step preserves the invariant and the files.                       *)
LEMMA InOrderFiledStep == ASSUME LabelsFit PROVE InOrderFiled /\ [Next]_vars => InOrderFiled'
<1> SUFFICES ASSUME InOrder, FiledRight, [Next]_vars PROVE InOrder' /\ FiledRight'
  BY DEF InOrderFiled
<1>1. InOrder'
  BY InOrderStep
<1>2. PICK G : OrderInv(G)
  BY DEF InOrder, OrderHolds
<1>3. NumbersFit /\ NumbersFit'
  BY <1>1 DEF InOrder
<1>4. QED
  BY <1>1, <1>2, <1>3, FilesStep

(* NestingAgrees holds of every graph with fewer than 46341 labels: what   *)
(* wto_t::nesting collects through head() is, innermost first, the heads   *)
(* of exactly the cycles a label is in, and operator> on two nestings is   *)
(* strict inclusion of their cycles: what interleaved_fwd_fixpoint_iterator*)
(* compares to tell the edges that enter a cycle from those inside it.     *)
THEOREM NestingExact == ASSUME LabelsFit PROVE Spec => []NestingAgrees
<1>1. Init => InOrderFiled
  BY InOrderInit, FilesInit DEF InOrderFiled
<1>2. InOrderFiled /\ [Next]_vars => InOrderFiled'
  BY InOrderFiledStep
<1>3. InOrderFiled => NestingAgrees
  BY NestingAtEnd DEF InOrderFiled, InOrder
<1>4. QED
  BY <1>1, <1>2, <1>3, PTL DEF Spec
=============================================================================
