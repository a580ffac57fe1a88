------------------------- MODULE LoopCountersProofs -------------------------
(***************************************************************************)
(* Proofs that the loop counters prepare_cfg inserts change no path of the *)
(* program and count every outer loop, for every graph the numbers of      *)
(* wto_builder_t suffice for.                                              *)
(*                                                                         *)
(* The graph is shown to be at all times the plain one with the counters   *)
(* of the cycles passed so far, CountedCfg; that the ordering it is made   *)
(* from is right is proved in WtoProofs.                                   *)
(***************************************************************************)
EXTENDS LoopCounters, WtoProofs

Counter(l) == make_increment_counter(Node(l))

(* Where the edges out of a label start once those in C have counters.     *)
Exit(l, C) == IF l \in C THEN Counter(l) ELSE Node(l)

PlainChildren(l) == {Node(m) : m \in children[l]}

CountedNodes(C) == {Node(l) : l \in Labels} \cup {Counter(l) : l \in C}

(* The graph with counters after the labels of C.                          *)
CountedCfg(C) ==
    [n \in CountedNodes(C) |->
        IF n.counter THEN [parents |-> {Node(n.label)}, children |-> PlainChildren(n.label)]
        ELSE [parents  |-> {Exit(l, C) : l \in {l \in Labels : n.label \in children[l]}},
              children |-> IF n.label \in C THEN {Counter(n.label)} ELSE PlainChildren(n.label)]]

(* The cycles whose counters are inserted.                                 *)
Counted == {TopComponent(j).label : j \in {j \in 1..visited : TopComponent(j).cycle}}

InstrInv ==
    /\ visited \in Nat
    /\ Built => visited <= Len(components[Root])
    /\ ~ Built => visited = 0
    /\ cfg = CountedCfg(Counted)

-----------------------------------------------------------------------------
(* Labels and counters are told apart.                                     *)
LEMMA NodeFacts ==
    /\ \A l : /\ Node(l).label = l /\ ~ Node(l).counter
              /\ Counter(l).label = l /\ Counter(l).counter
    /\ \A l, m : /\ Node(l) # Counter(m)
                 /\ Node(l) = Node(m) => l = m
                 /\ Counter(l) = Counter(m) => l = m
<1>1. \A l : Counter(l) = [label |-> l, counter |-> TRUE]
  <2> TAKE l
  <2>1. Counter(l) = [[label |-> l, counter |-> FALSE] EXCEPT !.counter = TRUE]
    BY DEF Counter, make_increment_counter, Node
  <2>2. \A a, b : [[label |-> l, counter |-> a] EXCEPT !.counter = b] = [label |-> l, counter |-> b]
    OBVIOUS
  <2>3. QED
    BY <2>1, <2>2, Zenon
<1>2. \A l : Node(l) = [label |-> l, counter |-> FALSE]
  BY DEF Node
<1>3. \A l : Node(l).label = l /\ Counter(l).label = l
  BY <1>1, <1>2
<1>4. \A l : ~ Node(l).counter
  BY <1>2
<1>5. \A l : Counter(l).counter
  BY <1>1
<1>6. QED
  BY <1>3, <1>4, <1>5

(* The nodes, their successors and predecessors.                           *)
LEMMA CountedFacts ==
    ASSUME NEW C \in SUBSET Labels
    PROVE  /\ DOMAIN CountedCfg(C) = CountedNodes(C)
           /\ \A l \in Labels :
                /\ Node(l) \in CountedNodes(C)
                /\ CountedCfg(C)[Node(l)] =
                     [parents  |-> {Exit(k, C) : k \in {k \in Labels : l \in children[k]}},
                      children |-> IF l \in C THEN {Counter(l)} ELSE PlainChildren(l)]
           /\ \A l \in C :
                /\ Counter(l) \in CountedNodes(C)
                /\ CountedCfg(C)[Counter(l)] = [parents |-> {Node(l)}, children |-> PlainChildren(l)]
<1>1. DOMAIN CountedCfg(C) = CountedNodes(C)
  BY DEF CountedCfg
<1>2. \A l \in Labels : Node(l) \in CountedNodes(C)
  BY DEF CountedNodes
<1>3. \A l \in C : Counter(l) \in CountedNodes(C)
  BY DEF CountedNodes
<1>4. \A n \in CountedNodes(C) : CountedCfg(C)[n] =
        IF n.counter THEN [parents |-> {Node(n.label)}, children |-> PlainChildren(n.label)]
        ELSE [parents  |-> {Exit(l, C) : l \in {l \in Labels : n.label \in children[l]}},
              children |-> IF n.label \in C THEN {Counter(n.label)} ELSE PlainChildren(n.label)]
  BY DEF CountedCfg
<1>5. ASSUME NEW l \in Labels
      PROVE  CountedCfg(C)[Node(l)] = [parents  |-> {Exit(k, C) : k \in {k \in Labels : l \in children[k]}},
                                       children |-> IF l \in C THEN {Counter(l)} ELSE PlainChildren(l)]
  <2>1. ~ Node(l).counter /\ Node(l).label = l /\ Node(l) \in CountedNodes(C)
    BY <1>2, NodeFacts
  <2>2. QED
    BY <1>4, <2>1, Zenon
<1>6. ASSUME NEW l \in C PROVE CountedCfg(C)[Counter(l)] = [parents |-> {Node(l)}, children |-> PlainChildren(l)]
  <2>1. Counter(l).counter /\ Counter(l).label = l /\ Counter(l) \in CountedNodes(C)
    BY <1>3, NodeFacts
  <2>2. QED
    BY <1>4, <2>1, Zenon
<1>7. QED
  BY <1>1, <1>2, <1>3, <1>5, <1>6, Zenon
(* Inserting one counter more.                                             *)
LEMMA CounterInserted ==
    ASSUME NEW C \in SUBSET Labels, NEW h \in Labels, h \notin C, children \in [Labels -> SUBSET Labels],
           children[h] # {}
    PROVE  insert_after(CountedCfg(C), Node(h), Counter(h)) = CountedCfg(C \cup {h})
<1> DEFINE old == CountedCfg(C)
           new == CountedCfg(C \cup {h})
           D == C \cup {h}
           nexts == old[Node(h)].children
           inserted == insert_after(old, Node(h), Counter(h))
           Value(n) == IF n = Counter(h) THEN [parents |-> {Node(h)}, children |-> nexts]
                       ELSE [parents  |-> IF n \in nexts THEN (old[n].parents \ {Node(h)}) \cup {Counter(h)}
                                          ELSE old[n].parents,
                             children |-> IF n = Node(h) THEN {Counter(h)} ELSE old[n].children]
<1>1. /\ DOMAIN old = CountedNodes(C)
      /\ \A l \in Labels : /\ Node(l) \in CountedNodes(C)
                           /\ old[Node(l)] = [parents  |-> {Exit(k, C) : k \in {k \in Labels : l \in children[k]}},
                                              children |-> IF l \in C THEN {Counter(l)} ELSE PlainChildren(l)]
      /\ \A l \in C : old[Counter(l)] = [parents |-> {Node(l)}, children |-> PlainChildren(l)]
  BY CountedFacts
<1>2. /\ DOMAIN new = CountedNodes(D)
      /\ \A l \in Labels : new[Node(l)] = [parents  |-> {Exit(k, D) : k \in {k \in Labels : l \in children[k]}},
                                           children |-> IF l \in D THEN {Counter(l)} ELSE PlainChildren(l)]
      /\ \A l \in D : new[Counter(l)] = [parents |-> {Node(l)}, children |-> PlainChildren(l)]
  <2>1. D \in SUBSET Labels
    OBVIOUS
  <2>2. new = CountedCfg(D)
    OBVIOUS
  <2> HIDE DEF D, new
  <2>3. QED
    BY <2>1, <2>2, CountedFacts
<1> HIDE DEF old, new
<1>a. ASSUME NEW l \in Labels
      PROVE  /\ old[Node(l)].parents = {Exit(k, C) : k \in {k \in Labels : l \in children[k]}}
             /\ old[Node(l)].children = IF l \in C THEN {Counter(l)} ELSE PlainChildren(l)
  <2> DEFINE ps == {Exit(k, C) : k \in {k \in Labels : l \in children[k]}}
             cs == IF l \in C THEN {Counter(l)} ELSE PlainChildren(l)
  <2>1. old[Node(l)] = [parents |-> ps, children |-> cs]
    BY <1>1
  <2> HIDE DEF ps, cs
  <2>2. old[Node(l)].parents = ps /\ old[Node(l)].children = cs
    BY <2>1
  <2>3. QED
    BY <2>2 DEF ps, cs
<1>3. nexts = PlainChildren(h) /\ nexts # {}
  <2>1. nexts = PlainChildren(h)
    BY <1>a
  <2>2. PICK m \in children[h] : TRUE
    OBVIOUS
  <2>3. QED
    BY <2>1, <2>2 DEF PlainChildren
<1>4. \A l \in Labels : Node(l) \in nexts <=> l \in children[h]
  BY <1>3, NodeFacts DEF PlainChildren
<1>5. \A l : Counter(l) \notin nexts
  BY <1>3, NodeFacts DEF PlainChildren
<1> HIDE DEF nexts
<1>6. inserted = [n \in CountedNodes(C) \cup {Counter(h)} |-> Value(n)]
  BY <1>1, <1>3 DEF insert_after, nexts
<1>7. CountedNodes(C) \cup {Counter(h)} = CountedNodes(D)
  BY DEF CountedNodes
<1>8. ASSUME NEW l \in Labels PROVE Value(Node(l)) = new[Node(l)]
  <2> DEFINE before == {Exit(k, C) : k \in {k \in Labels : l \in children[k]}}
             after == {Exit(k, D) : k \in {k \in Labels : l \in children[k]}}
  <2>1. \A k \in Labels : k # h => Exit(k, C) = Exit(k, D) /\ Exit(k, C) # Node(h)
    BY NodeFacts DEF Exit
  <2>2. Exit(h, C) = Node(h) /\ Exit(h, D) = Counter(h)
    BY DEF Exit
  <2>3. CASE l \in children[h]
    <3>1. after = (before \ {Node(h)}) \cup {Counter(h)}
      <4>1. ASSUME NEW k \in Labels, l \in children[k] PROVE Exit(k, D) \in (before \ {Node(h)}) \cup {Counter(h)}
        BY <2>1, <2>2, <4>1
      <4>2. ASSUME NEW x \in before, x # Node(h) PROVE x \in after
        BY <2>1, <2>2, <4>2
      <4>3. Counter(h) \in after
        BY <2>2, <2>3
      <4>4. QED
        BY <4>1, <4>2, <4>3
    <3>2. Node(l) \in nexts /\ Node(l) # Counter(h)
      BY <1>4, <2>3, NodeFacts
    <3> DEFINE cs == IF Node(l) = Node(h) THEN {Counter(h)} ELSE old[Node(l)].children
    <3>3. Value(Node(l)) = [parents |-> (old[Node(l)].parents \ {Node(h)}) \cup {Counter(h)}, children |-> cs]
      BY <3>2
    <3>4. old[Node(l)].parents = before
      BY <1>a
    <3>5. cs = IF l \in D THEN {Counter(l)} ELSE PlainChildren(l)
      <4>1. CASE l = h
        BY <4>1
      <4>2. CASE l # h
        <5>1. Node(l) # Node(h) /\ (l \in C <=> l \in D)
          BY <4>2, NodeFacts
        <5>2. QED
          BY <1>a, <5>1
      <4>3. QED
        BY <4>1, <4>2
    <3> HIDE DEF Value, before, cs
    <3>6. Value(Node(l)) = [parents |-> after, children |-> cs]
      BY <3>1, <3>3, <3>4
    <3> HIDE DEF after, D
    <3>7. QED
      BY <1>2, <3>5, <3>6 DEF after
  <2>4. CASE l \notin children[h]
    <3>1. after = before
      BY <2>1, <2>4
    <3>2. Node(l) \notin nexts /\ Node(l) # Counter(h)
      BY <1>4, <2>4, NodeFacts
    <3> DEFINE cs == IF Node(l) = Node(h) THEN {Counter(h)} ELSE old[Node(l)].children
    <3>3. Value(Node(l)) = [parents |-> old[Node(l)].parents, children |-> cs]
      BY <3>2
    <3>4. old[Node(l)].parents = before
      BY <1>a
    <3>5. cs = IF l \in D THEN {Counter(l)} ELSE PlainChildren(l)
      <4>1. CASE l = h
        BY <4>1
      <4>2. CASE l # h
        <5>1. Node(l) # Node(h) /\ (l \in C <=> l \in D)
          BY <4>2, NodeFacts
        <5>2. QED
          BY <1>a, <5>1
      <4>3. QED
        BY <4>1, <4>2
    <3> HIDE DEF Value, before, cs
    <3>6. Value(Node(l)) = [parents |-> after, children |-> cs]
      BY <3>1, <3>3, <3>4
    <3> HIDE DEF after, D
    <3>7. QED
      BY <1>2, <3>5, <3>6 DEF after
  <2>5. QED
    BY <2>3, <2>4
<1>9. ASSUME NEW l \in D PROVE Value(Counter(l)) = new[Counter(l)]
  <2>1. CASE l = h
    <3>1. Value(Counter(l)) = [parents |-> {Node(l)}, children |-> PlainChildren(l)]
      BY <1>3, <2>1
    <3> HIDE DEF Value, D
    <3>2. QED
      BY <1>2, <3>1
  <2>2. CASE l # h
    <3>1. l \in C /\ Counter(l) # Counter(h) /\ Counter(l) # Node(h) /\ Counter(l) \notin nexts
      BY <1>5, <2>2, NodeFacts
    <3>2. Value(Counter(l)) = [parents |-> old[Counter(l)].parents, children |-> old[Counter(l)].children]
      BY <3>1
    <3>3. Value(Counter(l)) = [parents |-> {Node(l)}, children |-> PlainChildren(l)]
      BY <1>1, <3>1, <3>2
    <3> HIDE DEF Value, D
    <3>4. QED
      BY <1>2, <3>3
  <2>3. QED
    BY <2>1, <2>2
<1>10. ASSUME NEW n \in CountedNodes(D) PROVE Value(n) = new[n]
  <2>1. (\E l \in Labels : n = Node(l)) \/ (\E l \in D : n = Counter(l))
    BY DEF CountedNodes
  <2> HIDE DEF Value, D
  <2>2. QED
    BY <1>8, <1>9, <2>1
<1>11. new = [n \in CountedNodes(D) |-> new[n]]
  BY <1>2 DEF new, CountedCfg
<1> HIDE DEF Value, D
<1>12. inserted = new
  BY <1>6, <1>7, <1>10, <1>11
<1>13. QED
  BY <1>12 DEF old, new, D

-----------------------------------------------------------------------------
(* The cycles of the top level.                                            *)

(* A component of the top level that is a cycle heads one, with an edge    *)
(* out of its head, and stands there once.                                 *)
LEMMA TopCycles ==
    ASSUME NEW G, OrderInv(G), LoopInv(G), Built
    PROVE  LET n == Len(components[Root])
           IN  /\ n \in Nat
               /\ \A i \in 1..n : TopComponent(i).cycle =>
                    LET h == TopComponent(i).label
                    IN  /\ h \in CycleHeads /\ h \in Labels /\ CycleHead(h) = h /\ children[h] # {}
                        /\ \A j \in 1..n : TopComponent(j).cycle /\ TopComponent(j).label = h => j = i
               /\ \A c \in CycleHeads : parent[c] = Root =>
                    \E i \in 1..n : TopComponent(i).cycle /\ TopComponent(i).label = c
               /\ \A c \in CycleHeads : c \in Labels /\ G[c] \in SUBSET Labels /\ c \notin G[c] /\ IsLoop(c, G[c])
<1> DEFINE n == Len(components[Root])
           parts == components[Root]
<1>1. TypeInv /\ TypeOK /\ Places /\ ScopesOK(G)
  BY DEF OrderInv, TypeInv
<1>2. DOMAIN components = CycleHeads \cup {Root} /\ Active = {} /\ CycleHeads \subseteq Labels /\ Root \in DOMAIN components
  BY <1>1, ActiveHeads, BuiltFacts DEF TypeOK
<1>3. parts \in Seq(Component) /\ n \in Nat
  BY <1>1, <1>2 DEF TypeOK
<1>4. \A i \in 1..n : n + 1 - i \in 1..n /\ n + 1 - (n + 1 - i) = i
  BY <1>3
<1>5. \A i \in 1..n : TopComponent(i) = parts[n + 1 - i] /\ TopComponent(i) \in Component
  BY <1>3, <1>4 DEF TopComponent
<1>6. \A c \in CycleHeads : c \in Labels /\ G[c] \in SUBSET Labels /\ c \notin G[c] /\ IsLoop(c, G[c])
  BY <1>1, <1>2 DEF ScopesOK, LoopInv
<1>7. ASSUME NEW c \in CycleHeads PROVE CycleHead(c) = c /\ children[c] # {}
  <2>1. CycleHead(c) = c
    <3>1. Last(components[c]) = Vertex(c)
      BY BuiltFacts
    <3>2. Vertex(c).label = c
      BY DEF Vertex
    <3>3. QED
      BY <3>1, <3>2 DEF CycleHead
  <2>2. ASSUME children[c] = {} PROVE FALSE
    <3> DEFINE H == G[c]
               A == {c}
    <3>1. H \in SUBSET Labels /\ c \notin H /\ IsLoop(c, H) /\ A \in SUBSET Labels
      BY <1>6
    <3>2. c \in A /\ \A u \in A : children[u] \cap H \subseteq A
      BY <2>2
    <3> HIDE DEF H, A
    <3>3. H \subseteq A
      BY <3>1, <3>2 DEF IsLoop
    <3>4. H = {}
      BY <3>1, <3>3 DEF A
    <3>5. PICK u \in H \cup {c} : c \in children[u]
      BY <3>1 DEF IsLoop
    <3>6. QED
      BY <2>2, <3>4, <3>5
  <2>3. QED
    BY <2>1, <2>2
<1>8. ASSUME NEW i \in 1..n, TopComponent(i).cycle
      PROVE  LET h == TopComponent(i).label
             IN  /\ h \in CycleHeads /\ h \in Labels /\ CycleHead(h) = h /\ children[h] # {}
                 /\ \A j \in 1..n : TopComponent(j).cycle /\ TopComponent(j).label = h => j = i
  <2> DEFINE h == TopComponent(i).label
  <2>1. PlaceFits(Root, TopComponent(i))
    BY <1>1, <1>2, <1>4, <1>5 DEF Places
  <2>2. h \in CycleHeads
    BY <1>8, <2>1 DEF PlaceFits
  <2>3. ASSUME NEW j \in 1..n, TopComponent(j).cycle, TopComponent(j).label = h PROVE j = i
    <3>1. TopComponent(i) = Cycle(h) /\ TopComponent(j) = Cycle(h)
      BY <1>5, <1>8, <2>3 DEF Component, Cycle
    <3>2. PICK a \in 1..n, b \in 1..n : a = n + 1 - i /\ b = n + 1 - j
      BY <1>4
    <3>3. parts[a] = parts[b]
      BY <1>5, <3>1, <3>2
    <3>4. a = b
      BY <1>1, <1>2, <3>3 DEF Places
    <3>5. n + 1 - i = n + 1 - j
      BY <3>2, <3>4
    <3>6. QED
      BY <1>3, <3>5
  <2>4. QED
    BY <1>2, <1>7, <2>2, <2>3
<1>9. ASSUME NEW c \in CycleHeads, parent[c] = Root
      PROVE  \E i \in 1..n : TopComponent(i).cycle /\ TopComponent(i).label = c
  <2>1. HasPlace(Root, Cycle(c))
    BY <1>1, <1>2, <1>9 DEF Places
  <2>2. PICK j \in 1..n : parts[j] = Cycle(c)
    BY <2>1 DEF HasPlace
  <2>3. TopComponent(n + 1 - j) = Cycle(c) /\ n + 1 - j \in 1..n
    BY <1>4, <1>5, <2>2
  <2>4. Cycle(c).cycle /\ Cycle(c).label = c
    BY DEF Cycle
  <2>5. QED
    BY <2>3, <2>4
<1>10. QED
  BY <1>3, <1>6, <1>8, <1>9

-----------------------------------------------------------------------------
(* The invariant.                                                          *)

(* Without counters the graph is the plain one.                            *)
LEMMA InstrStart == ASSUME LabelsFit PROVE InstrInit => InOrder /\ InstrInv
<1> SUFFICES ASSUME InstrInit PROVE InOrder /\ InstrInv
  OBVIOUS
<1>1. Init /\ visited = 0 /\ cfg = PlainCfg(children)
  BY DEF InstrInit
<1>2. InOrder /\ TypeOK
  BY <1>1, InOrderInit DEF InOrder, OrderHolds, OrderInv, TypeInv
<1>3. ~ Built
  BY <1>1 DEF Init, Built
<1>4. Counted = {}
  <2>1. 1..0 = {}
    OBVIOUS
  <2>2. QED
    BY <1>1, <2>1 DEF Counted
<1>5. PlainCfg(children) = CountedCfg({})
  <2>1. CountedNodes({}) = {Node(l) : l \in Labels}
    BY DEF CountedNodes
  <2>2. ASSUME NEW l \in Labels PROVE PlainCfg(children)[Node(l)] = CountedCfg({})[Node(l)]
    <3>1. PlainCfg(children)[Node(l)] = [parents  |-> {Node(k) : k \in {k \in Labels : l \in children[k]}},
                                         children |-> PlainChildren(l)]
      <4>1. Node(l).label = l /\ Node(l) \in {Node(k) : k \in Labels}
        BY NodeFacts
      <4>2. QED
        BY <4>1 DEF PlainCfg, PlainChildren
    <3>2. CountedCfg({})[Node(l)] = [parents  |-> {Exit(k, {}) : k \in {k \in Labels : l \in children[k]}},
                                     children |-> PlainChildren(l)]
      BY CountedFacts
    <3>3. \A k : Exit(k, {}) = Node(k)
      BY DEF Exit
    <3>4. QED
      BY <3>1, <3>2, <3>3
  <2>3. PlainCfg(children) = [n \in {Node(l) : l \in Labels} |-> PlainCfg(children)[n]]
    BY DEF PlainCfg
  <2>4. CountedCfg({}) = [n \in {Node(l) : l \in Labels} |-> CountedCfg({})[n]]
    BY <2>1 DEF CountedCfg
  <2>5. QED
    BY <2>2, <2>3, <2>4
<1>6. QED
  BY <1>1, <1>2, <1>3, <1>4, <1>5 DEF InstrInv

(* The builder leaves the graph alone, and the components passed over add  *)
(* one counter each if they are cycles.                                    *)
LEMMA InstrKept == ASSUME LabelsFit PROVE InOrder /\ InstrInv /\ [InstrNext]_allVars => InOrder' /\ InstrInv'
<1> SUFFICES ASSUME InOrder, InstrInv, [InstrNext]_allVars PROVE InOrder' /\ InstrInv'
  OBVIOUS
<1>1. PICK G : OrderInv(G) /\ LoopInv(G)
  BY DEF InOrder, OrderHolds
<1>2. TypeOK /\ children \in [Labels -> SUBSET Labels]
  BY <1>1 DEF OrderInv, TypeInv, TypeOK
<1>3. /\ visited \in Nat /\ (Built => visited <= Len(components[Root])) /\ (~ Built => visited = 0)
      /\ cfg = CountedCfg(Counted)
  BY DEF InstrInv
<1>4. CASE BuildWto
  <2>1. BuildStep /\ UNCHANGED <<cfg, visited>>
    BY <1>4 DEF BuildWto
  <2>2. InOrder'
    BY <2>1, InOrderStep DEF Next
  <2>3. ~ Built /\ visited = 0
    BY <1>3, <2>1 DEF BuildStep, Built
  <2>4. 1..0 = {}
    OBVIOUS
  <2>5. Counted = {} /\ Counted' = {}
    BY <2>1, <2>3, <2>4 DEF Counted
  <2>6. children' = children
    BY <2>1 DEF BuildStep, RunTask, PushVisited, push_successors, VisitMember, VisitVertex, VisitHead, continue_visit, vars
  <2>7. CountedCfg({})' = CountedCfg({})
    BY <2>6 DEF CountedCfg, CountedNodes, PlainChildren, Exit
  <2>8. Built' => 0 <= Len(components'[Root])
    <3>1. TypeOK' /\ Root \in DOMAIN components'
      <4>1. OrderHolds'
        BY <2>2 DEF InOrder
      <4>2. TypeOK'
        BY <4>1 DEF OrderHolds, OrderInv, TypeInv
      <4>3. QED
        BY <4>2 DEF TypeOK
    <3>2. components'[Root] \in Seq(Component)
      BY <3>1 DEF TypeOK
    <3>3. QED
      BY <3>2
  <2>9. cfg' = CountedCfg(Counted)'
    <3>1. cfg' = CountedCfg({})
      BY <1>3, <2>1, <2>5
    <3>2. CountedCfg({})' = CountedCfg(Counted)'
      BY <2>5 DEF CountedCfg, CountedNodes, PlainChildren, Exit
    <3>3. QED
      BY <2>7, <3>1, <3>2
  <2>10. visited' = 0
    BY <2>1, <2>3
  <2>11. QED
    BY <2>2, <2>8, <2>9, <2>10 DEF InstrInv
<1>5. ASSUME VisitingComponent, visited' = visited + 1, UNCHANGED vars,
             cfg' = CountedCfg(IF TopComponent(visited + 1).cycle THEN Counted \cup {TopComponent(visited + 1).label}
                               ELSE Counted)
      PROVE  InOrder' /\ InstrInv'
  <2> DEFINE i == visited + 1
             C == IF TopComponent(i).cycle THEN Counted \cup {TopComponent(i).label} ELSE Counted
  <2>1. InOrder'
    BY <1>5, InOrderStep
  <2>2. /\ Built' = Built /\ children' = children /\ components' = components
        /\ Built /\ visited < Len(components[Root]) /\ Len(components[Root]) \in Nat
    BY <1>1, <1>5, TopCycles DEF VisitingComponent, vars, builderVars, Built
  <2>3. visited' \in Nat /\ visited' <= Len(components'[Root])
    BY <1>3, <1>5, <2>2
  <2>4. Counted' = C
    <3>1. \A j : TopComponent(j)' = TopComponent(j)
      BY <2>2 DEF TopComponent
    <3>2. \A j : j \in 1..i <=> j \in 1..visited \/ j = i
      BY <1>3
    <3>3. Counted' = {TopComponent(j).label : j \in {j \in 1..i : TopComponent(j).cycle}}
      BY <1>5, <3>1 DEF Counted
    <3> HIDE DEF i
    <3>4. Counted' = IF TopComponent(i).cycle THEN Counted \cup {TopComponent(i).label} ELSE Counted
      BY <3>2, <3>3 DEF Counted
    <3>5. QED
      BY <3>4
  <2> HIDE DEF C
  <2>5. CountedCfg(Counted)' = CountedCfg(C)
    BY <2>2, <2>4 DEF CountedCfg, CountedNodes, PlainChildren, Exit
  <2>6. cfg' = CountedCfg(C)
    BY <1>5 DEF C
  <2>7. QED
    BY <2>1, <2>2, <2>3, <2>5, <2>6 DEF InstrInv
<1>6. CASE SkipVertex
  <2>1. VisitingComponent /\ ~ TopComponent(visited + 1).cycle /\ visited' = visited + 1 /\ UNCHANGED vars /\ cfg' = cfg
    BY <1>6 DEF SkipVertex
  <2>2. QED
    BY <1>3, <1>5, <2>1
<1>7. CASE InsertCounter
  <2> DEFINE i == visited + 1
             h == TopComponent(i).label
  <2>1. /\ VisitingComponent /\ TopComponent(i).cycle /\ visited' = i /\ UNCHANGED vars
        /\ cfg' = insert_after(cfg, Node(CycleHead(h)), Counter(CycleHead(h)))
    BY <1>7 DEF InsertCounter, Counter
  <2>2. Built /\ visited < Len(components[Root])
    BY <2>1 DEF VisitingComponent
  <2>3. Len(components[Root]) \in Nat
    BY <1>1, <2>2, TopCycles
  <2>4. i \in 1..Len(components[Root]) /\ \A j \in 1..visited : j \in 1..Len(components[Root]) /\ j # i
    BY <1>3, <2>2, <2>3
  <2>5. /\ h \in Labels /\ CycleHead(h) = h /\ children[h] # {}
        /\ \A j \in 1..visited : ~ (TopComponent(j).cycle /\ TopComponent(j).label = h)
        /\ \A j \in 1..visited : TopComponent(j).cycle => TopComponent(j).label \in Labels
    <3> HIDE DEF i
    <3>1. /\ h \in Labels /\ CycleHead(h) = h /\ children[h] # {}
          /\ \A j \in 1..Len(components[Root]) : TopComponent(j).cycle /\ TopComponent(j).label = h => j = i
      BY <1>1, <2>1, <2>2, <2>4, TopCycles
    <3>2. \A j \in 1..Len(components[Root]) : TopComponent(j).cycle => TopComponent(j).label \in Labels
      BY <1>1, <2>2, TopCycles
    <3>3. QED
      BY <2>4, <3>1, <3>2
  <2>6. Counted \in SUBSET Labels /\ h \notin Counted
    BY <2>5 DEF Counted
  <2>7. cfg' = CountedCfg(Counted \cup {h})
    <3> HIDE DEF h
    <3>1. cfg' = insert_after(CountedCfg(Counted), Node(h), Counter(h))
      BY <1>3, <2>1, <2>5
    <3>2. QED
      BY <1>2, <2>5, <2>6, <3>1, CounterInserted
  <2>8. QED
    BY <1>5, <2>1, <2>7
<1>8. CASE UNCHANGED allVars
  <2>1. UNCHANGED vars /\ cfg' = cfg /\ visited' = visited /\ components' = components /\ children' = children
        /\ visit_stack' = visit_stack
    BY <1>8 DEF allVars, vars, builderVars
  <2>2. InOrder'
    BY <2>1, InOrderStep
  <2>3. Counted' = Counted
    BY <2>1 DEF Counted, TopComponent
  <2>4. CountedCfg(Counted)' = CountedCfg(Counted)
    BY <2>1, <2>3 DEF CountedCfg, CountedNodes, PlainChildren, Exit
  <2>5. Built' = Built
    BY <2>1 DEF Built
  <2>6. QED
    BY <1>3, <2>1, <2>2, <2>4, <2>5 DEF InstrInv
<1>9. QED
  BY <1>4, <1>6, <1>7, <1>8 DEF InstrNext, InstrStep

(* The counted labels are the heads of the top level passed so far.        *)
LEMMA CountedTyped ==
    ASSUME InOrder, InstrInv
    PROVE  Counted \in SUBSET Labels /\ children \in [Labels -> SUBSET Labels]
<1>1. PICK G : OrderInv(G) /\ LoopInv(G)
  BY DEF InOrder, OrderHolds
<1>2. children \in [Labels -> SUBSET Labels]
  BY <1>1 DEF OrderInv, TypeInv, TypeOK
<1>3. CASE ~ Built
  <2>1. visited = 0 /\ 1..0 = {}
    BY <1>3 DEF InstrInv
  <2>2. Counted = {}
    BY <2>1 DEF Counted
  <2>3. QED
    BY <1>2, <2>2
<1>4. CASE Built
  <2>1. visited \in Nat /\ visited <= Len(components[Root]) /\ Len(components[Root]) \in Nat
    BY <1>1, <1>4, TopCycles DEF InstrInv
  <2>2. \A j \in 1..visited : j \in 1..Len(components[Root])
    BY <2>1
  <2>3. \A j \in 1..visited : TopComponent(j).cycle => TopComponent(j).label \in Labels
    BY <1>1, <1>4, <2>2, TopCycles
  <2>4. QED
    BY <1>2, <2>3 DEF Counted
<1>5. QED
  BY <1>3, <1>4

(* Fields of the nodes.                                                    *)
LEMMA CountedFields ==
    ASSUME NEW C \in SUBSET Labels, cfg = CountedCfg(C)
    PROVE  /\ DOMAIN cfg = CountedNodes(C)
           /\ \A l \in Labels :
                /\ cfg[Node(l)].parents = {Exit(k, C) : k \in {k \in Labels : l \in children[k]}}
                /\ cfg[Node(l)].children = IF l \in C THEN {Counter(l)} ELSE PlainChildren(l)
           /\ \A l \in C : cfg[Counter(l)].parents = {Node(l)} /\ cfg[Counter(l)].children = PlainChildren(l)
<1>1. ASSUME NEW l \in Labels
      PROVE  /\ cfg[Node(l)].parents = {Exit(k, C) : k \in {k \in Labels : l \in children[k]}}
             /\ cfg[Node(l)].children = IF l \in C THEN {Counter(l)} ELSE PlainChildren(l)
  <2> DEFINE ps == {Exit(k, C) : k \in {k \in Labels : l \in children[k]}}
             cs == IF l \in C THEN {Counter(l)} ELSE PlainChildren(l)
  <2>1. cfg[Node(l)] = [parents |-> ps, children |-> cs]
    BY CountedFacts
  <2> HIDE DEF ps, cs
  <2>2. cfg[Node(l)].parents = ps /\ cfg[Node(l)].children = cs
    BY <2>1
  <2>3. QED
    BY <2>2 DEF ps, cs
<1>2. ASSUME NEW l \in C PROVE cfg[Counter(l)].parents = {Node(l)} /\ cfg[Counter(l)].children = PlainChildren(l)
  <2>1. cfg[Counter(l)] = [parents |-> {Node(l)}, children |-> PlainChildren(l)]
    BY CountedFacts
  <2>2. QED
    BY <2>1
<1>3. QED
  BY <1>1, <1>2, CountedFacts

(* The paths of the program, in the graph with counters.                   *)
LEMMA CountedPreserves == InOrder /\ InstrInv => EdgesPreserved
<1> SUFFICES ASSUME InOrder, InstrInv PROVE EdgesPreserved
  OBVIOUS
<1>1. PICK C \in SUBSET Labels : cfg = CountedCfg(C)
  BY CountedTyped DEF InstrInv
<1>2. /\ DOMAIN cfg = CountedNodes(C)
      /\ \A l \in Labels :
           /\ cfg[Node(l)].parents = {Exit(k, C) : k \in {k \in Labels : l \in children[k]}}
           /\ cfg[Node(l)].children = IF l \in C THEN {Counter(l)} ELSE PlainChildren(l)
      /\ \A l \in C : cfg[Counter(l)].parents = {Node(l)} /\ cfg[Counter(l)].children = PlainChildren(l)
  BY <1>1, CountedFields
<1>3. children \in [Labels -> SUBSET Labels]
  BY CountedTyped
<1>4. ASSUME NEW l \in Labels
      PROVE  LET out == cfg[Node(l)].children
                 c == make_increment_counter(Node(l))
             IN  (IF c \in out THEN (out \ {c}) \cup cfg[c].children ELSE out) = {Node(m) : m \in children[l]}
  <2> DEFINE out == cfg[Node(l)].children
  <2>1. CASE l \in C
    <3>1. out = {Counter(l)} /\ cfg[Counter(l)].children = PlainChildren(l)
      BY <1>2, <2>1
    <3>2. (out \ {Counter(l)}) \cup cfg[Counter(l)].children = PlainChildren(l) /\ Counter(l) \in out
      BY <3>1
    <3>3. QED
      BY <3>2 DEF Counter, PlainChildren
  <2>2. CASE l \notin C
    <3>1. out = PlainChildren(l)
      BY <1>2, <2>2
    <3>2. Counter(l) \notin out
      BY <3>1, NodeFacts DEF PlainChildren
    <3>3. QED
      BY <3>1, <3>2 DEF Counter, PlainChildren
  <2>3. QED
    BY <2>1, <2>2
<1>5. ASSUME NEW k \in Labels, NEW m \in Labels
      PROVE  /\ Node(m) \in cfg[Node(k)].children <=> Node(k) \in cfg[Node(m)].parents
             /\ m \in C => (Counter(m) \in cfg[Node(k)].children <=> Node(k) \in cfg[Counter(m)].parents)
             /\ k \in C => (Node(m) \in cfg[Counter(k)].children <=> Counter(k) \in cfg[Node(m)].parents)
             /\ k \in C /\ m \in C => (Counter(m) \in cfg[Counter(k)].children <=> Counter(k) \in cfg[Counter(m)].parents)
  <2>1. Node(m) \in cfg[Node(k)].children <=> k \notin C /\ m \in children[k]
    <3>1. Node(m) \in PlainChildren(k) <=> m \in children[k]
      BY NodeFacts DEF PlainChildren
    <3>2. Node(m) \notin {Counter(k)}
      BY NodeFacts
    <3>3. QED
      BY <1>2, <3>1, <3>2
  <2>2. Node(k) \in cfg[Node(m)].parents <=> k \notin C /\ m \in children[k]
    <3>1. \A j \in Labels : Node(k) = Exit(j, C) <=> k = j /\ k \notin C
      BY NodeFacts DEF Exit
    <3>2. Node(k) \in cfg[Node(m)].parents <=> \E j \in Labels : m \in children[j] /\ Node(k) = Exit(j, C)
      <4>1. cfg[Node(m)].parents = {Exit(j, C) : j \in {j \in Labels : m \in children[j]}}
        BY <1>2
      <4>2. \A x : x \in {Exit(j, C) : j \in {j \in Labels : m \in children[j]}}
                    <=> \E j \in Labels : m \in children[j] /\ x = Exit(j, C)
        OBVIOUS
      <4>3. QED
        BY <4>1, <4>2
    <3>3. QED
      BY <3>1, <3>2
  <2>3. ASSUME m \in C PROVE Counter(m) \in cfg[Node(k)].children <=> Node(k) \in cfg[Counter(m)].parents
    <3>1. Counter(m) \notin PlainChildren(k)
      BY NodeFacts DEF PlainChildren
    <3>2. Counter(m) \in {Counter(k)} <=> Node(k) \in {Node(m)}
      BY NodeFacts
    <3>3. k \in C \/ Node(k) # Node(m)
      BY <2>3, NodeFacts
    <3>4. QED
      BY <1>2, <2>3, <3>1, <3>2, <3>3
  <2>4. ASSUME k \in C PROVE Node(m) \in cfg[Counter(k)].children <=> Counter(k) \in cfg[Node(m)].parents
    <3>1. Node(m) \in PlainChildren(k) <=> m \in children[k]
      BY NodeFacts DEF PlainChildren
    <3>2. \A j \in Labels : Counter(k) = Exit(j, C) <=> k = j
      BY <2>4, NodeFacts DEF Exit
    <3>3. Counter(k) \in cfg[Node(m)].parents <=> \E j \in Labels : m \in children[j] /\ Counter(k) = Exit(j, C)
      <4>1. cfg[Node(m)].parents = {Exit(j, C) : j \in {j \in Labels : m \in children[j]}}
        BY <1>2
      <4>2. \A x : x \in {Exit(j, C) : j \in {j \in Labels : m \in children[j]}}
                    <=> \E j \in Labels : m \in children[j] /\ x = Exit(j, C)
        OBVIOUS
      <4>3. QED
        BY <4>1, <4>2
    <3>4. QED
      BY <1>2, <2>4, <3>1, <3>2, <3>3
  <2>5. ASSUME k \in C, m \in C
        PROVE  Counter(m) \in cfg[Counter(k)].children <=> Counter(k) \in cfg[Counter(m)].parents
    <3>1. Counter(m) \notin PlainChildren(k) /\ Counter(k) \notin {Node(m)}
      BY NodeFacts DEF PlainChildren
    <3>2. QED
      BY <1>2, <2>5, <3>1
  <2>6. QED
    BY <2>1, <2>2, <2>3, <2>4, <2>5
<1>6. ASSUME NEW n \in DOMAIN cfg, NEW m \in DOMAIN cfg PROVE m \in cfg[n].children <=> n \in cfg[m].parents
  <2>1. \A x \in DOMAIN cfg : \E k \in Labels : x = Node(k) \/ (k \in C /\ x = Counter(k))
    BY <1>2 DEF CountedNodes
  <2>2. PICK k \in Labels : n = Node(k) \/ (k \in C /\ n = Counter(k))
    BY <2>1
  <2>3. PICK j \in Labels : m = Node(j) \/ (j \in C /\ m = Counter(j))
    BY <2>1
  <2>4. QED
    BY <1>5, <2>2, <2>3
<1>7. QED
  BY <1>4, <1>6 DEF EdgesPreserved

-----------------------------------------------------------------------------
(* No child of a label of P that is in W is missing from P.                *)
CfgClosed(P, W) == \A u \in P : cfg[u].children \cap W \subseteq P

(* CfgReach is the least set with S that is closed within W.               *)
LEMMA CfgReachLeast ==
    ASSUME NEW W, IsFiniteSet(W), NEW S \in SUBSET W
    PROVE  /\ S \subseteq CfgReach(S, W) /\ CfgReach(S, W) \subseteq W
           /\ CfgClosed(CfgReach(S, W), W)
           /\ \A A \in SUBSET W : S \subseteq A /\ CfgClosed(A, W) => CfgReach(S, W) \subseteq A
<1> DEFINE n == Cardinality(W)
           Succ(P) == P \cup (W \cap UNION {cfg[l].children : l \in P})
           IsIter(R) == R = [k \in 0..n |-> IF k = 0 THEN S
                                            ELSE LET prev == R[k - 1]
                                                 IN  prev \cup (W \cap UNION {cfg[l].children : l \in prev})]
           reach == CHOOSE R : IsIter(R)
<1>1. n \in Nat /\ IsFiniteSet(W)
  BY FS_CardinalityType
<1>2. CfgReach(S, W) = reach[n]
  BY DEF CfgReach
<1>3. IsIter(reach)
  <2> DEFINE step == [P \in SUBSET W |-> Succ(P)]
  <2>1. step \in [SUBSET W -> SUBSET W] /\ S \in SUBSET W
    BY <1>1
  <2> HIDE DEF step, n
  <2>0. n \in Nat
    BY <1>1 DEF n
  <2>2. \E it \in [0..n -> SUBSET W] : IsSequence(it, n, S, step)
    <3> HIDE DEF reach, IsIter, Succ
    <3>1. QED
      BY <2>0, <2>1, SequenceExists
  <2>a. PICK it \in [0..n -> SUBSET W] : it = [k \in 0..n |-> IF k = 0 THEN S ELSE step[it[k - 1]]]
    BY <2>2 DEF IsSequence
  <2>3. \A k \in 0..n : k # 0 => k - 1 \in 0..n
    BY <1>1
  <2>4. \A k \in 0..n : k # 0 => step[it[k - 1]] = Succ(it[k - 1])
    BY <2>3 DEF step
  <2>5. it = [k \in 0..n |-> IF k = 0 THEN S ELSE Succ(it[k - 1])]
    BY <2>a, <2>4
  <2>6. IsIter(it)
    BY <2>5
  <2> HIDE DEF IsIter
  <2>7. QED
    BY <2>6
<1> HIDE DEF reach
<1>4. reach[0] = S /\ \A k \in 0..n : k # 0 => reach[k] = Succ(reach[k - 1])
  <2>1. 0 \in 0..n
    BY <1>1
  <2> HIDE DEF n
  <2>2. QED
    BY <1>3, <2>1
<1> HIDE DEF IsIter, n
<1> DEFINE Good(k) == /\ reach[k] \subseteq W /\ S \subseteq reach[k]
                      /\ CfgClosed(reach[k], W) \/ Cardinality(reach[k]) >= k + 1
                      /\ \A A \in SUBSET W : S \subseteq A /\ CfgClosed(A, W) => reach[k] \subseteq A
           B == {k \in Nat : k <= n => Good(k)}
<1>5. 0 \in B
  <2>1. CfgClosed(S, W) \/ Cardinality(S) >= 1
    <3>1. CASE S = {}
      BY <3>1 DEF CfgClosed
    <3>2. CASE S # {}
      <4>1. IsFiniteSet(S)
        BY <1>1, FS_Subset
      <4>2. Cardinality(S) \in Nat /\ Cardinality(S) # 0
        BY <3>2, <4>1, FS_CardinalityType, FS_EmptySet
      <4>3. QED
        BY <4>2
    <3>3. QED
      BY <3>1, <3>2
  <2>2. Good(0)
    BY <1>1, <1>4, <2>1
  <2>3. QED
    BY <2>2
<1>6. ASSUME NEW k \in Nat, k \in B PROVE k + 1 \in B
  <2> SUFFICES ASSUME k + 1 <= n PROVE Good(k + 1)
    OBVIOUS
  <2>1. Good(k) /\ k + 1 \in 0..n /\ k + 1 # 0 /\ (k + 1) - 1 = k
    BY <1>1, <1>6
  <2> DEFINE P == reach[k]
             Q == reach[k + 1]
  <2>2. Q = Succ(P)
    BY <1>4, <2>1
  <2> HIDE DEF P, Q
  <2>3. P \subseteq W /\ S \subseteq P /\ P \subseteq W
    BY <2>1 DEF P
  <2>4. \A u \in P : cfg[u].children \cap W \subseteq Q
    BY <1>1, <2>2, <2>3
  <2>5. P \subseteq Q /\ Q \subseteq W /\ Q \subseteq W
    BY <2>2, <2>3
  <2>6. ASSUME NEW A \in SUBSET W, S \subseteq A, CfgClosed(A, W) PROVE Q \subseteq A
    <3>1. P \subseteq A
      BY <2>1, <2>6 DEF P
    <3>2. QED
      BY <2>2, <2>6, <3>1 DEF CfgClosed
  <2>7. CfgClosed(Q, W) \/ Cardinality(Q) >= k + 2
    <3>1. CASE Q = P /\ CfgClosed(P, W)
      BY <3>1
    <3>2. CASE Q = P /\ ~ CfgClosed(P, W)
      BY <2>4, <3>2 DEF CfgClosed
    <3>3. CASE Q # P /\ CfgClosed(P, W)
      BY <2>2, <2>5, <3>3 DEF CfgClosed
    <3>4. CASE Q # P /\ ~ CfgClosed(P, W)
      <4>1. Cardinality(P) >= k + 1
        BY <2>1, <3>4 DEF P
      <4>2. IsFiniteSet(Q) /\ IsFiniteSet(P)
        BY <1>1, <2>3, <2>5, FS_Subset
      <4>3. Cardinality(P) \in Nat /\ Cardinality(Q) \in Nat
        BY <4>2, FS_CardinalityType
      <4>4. Cardinality(P) <= Cardinality(Q) /\ Cardinality(P) # Cardinality(Q)
        BY <2>5, <3>4, <4>2, FS_Subset
      <4>5. QED
        BY <4>1, <4>3, <4>4
    <3>5. QED
      BY <3>1, <3>2, <3>3, <3>4
  <2>8. (k + 1) + 1 = k + 2
    OBVIOUS
  <2>9. QED
    BY <2>3, <2>5, <2>6, <2>7, <2>8 DEF Q
<1> HIDE DEF B
<1>7. Good(n)
  <2>1. \A k \in Nat : k \in B
    BY <1>5, <1>6, NumberInduction
  <2>2. n \in B /\ n <= n
    BY <1>1, <2>1
  <2>3. QED
    BY <2>2 DEF B
<1>8. CfgClosed(reach[n], W)
  <2> SUFFICES ASSUME Cardinality(reach[n]) >= n + 1 PROVE FALSE
    BY <1>7
  <2>0. reach[n] \in SUBSET W
    BY <1>7
  <2>1. Cardinality(reach[n]) \in Nat /\ Cardinality(reach[n]) <= n
    BY <1>1, <2>0, FS_Subset, FS_CardinalityType DEF n
  <2>2. QED
    BY <1>1, <2>1
<1>9. QED
  BY <1>2, <1>7, <1>8

(* The nodes are finitely many.                                            *)
LEMMA NodesFinite ==
    ASSUME NEW C \in SUBSET Labels
    PROVE  IsFiniteSet(CountedNodes(C))
<1> DEFINE f == [l \in Labels |-> Node(l)]
           g == [l \in C |-> Counter(l)]
           S == {Node(l) : l \in Labels}
           T == {Counter(l) : l \in C}
<1>1. f \in Surjection(Labels, S) /\ g \in Surjection(C, T)
  BY DEF Surjection
<1>2. IsFiniteSet(Labels) /\ IsFiniteSet(C)
  BY LabelsAssumption, FS_Subset
<1> HIDE DEF f, g, S, T
<1>3. IsFiniteSet(S) /\ IsFiniteSet(T)
  BY <1>1, <1>2, FS_Surjection
<1>4. IsFiniteSet(S \cup T)
  BY <1>3, FS_Union
<1>5. QED
  BY <1>4 DEF CountedNodes, S, T

(* Every head of the top level has a counter once all are passed, and from *)
(* a counter the edges of its cycle lead back to it.                       *)
LEMMA CountedAll == InOrder /\ InstrInv => OuterLoopsCounted
<1> SUFFICES ASSUME InOrder, InstrInv, Instrumented
             PROVE  /\ \A c \in CycleHeads : parent[c] = Root => ~ OnLoop(Node(c), Uncounted)
                    /\ \A n \in DOMAIN cfg : n.counter => OnLoop(n, DOMAIN cfg)
  BY DEF OuterLoopsCounted
<1> DEFINE C == Counted
           W == CountedNodes(C)
<1>1. PICK G : OrderInv(G) /\ LoopInv(G)
  BY DEF InOrder, OrderHolds
<1>2. C \in SUBSET Labels /\ children \in [Labels -> SUBSET Labels] /\ Built /\ visited = Len(components[Root])
  BY CountedTyped DEF Instrumented
<1>3. /\ \A i \in 1..visited : TopComponent(i).cycle => TopComponent(i).label \in CycleHeads
      /\ \A c \in CycleHeads : parent[c] = Root => \E i \in 1..visited : TopComponent(i).cycle /\ TopComponent(i).label = c
      /\ \A c \in CycleHeads : c \in Labels /\ G[c] \in SUBSET Labels /\ c \notin G[c] /\ IsLoop(c, G[c])
  BY <1>1, <1>2, TopCycles
<1>4. C \subseteq CycleHeads /\ \A c \in CycleHeads : parent[c] = Root => c \in C
  BY <1>3 DEF Counted
<1>5. cfg = CountedCfg(C)
  BY DEF InstrInv
<1> HIDE DEF C
<1>6. /\ DOMAIN cfg = W
      /\ \A l \in Labels : cfg[Node(l)].children = IF l \in C THEN {Counter(l)} ELSE PlainChildren(l)
      /\ \A l \in C : cfg[Counter(l)].children = PlainChildren(l)
  BY <1>2, <1>5, CountedFields
<1>7. IsFiniteSet(W)
  BY <1>2, NodesFinite
<1>8. /\ \A l \in Labels : Node(l) \in W
      /\ \A l \in C : Counter(l) \in W
      /\ \A n \in W : n.counter => \E l \in C : n = Counter(l)
  <2>1. \A l \in Labels : ~ Node(l).counter
    BY NodeFacts
  <2>2. QED
    BY <2>1 DEF CountedNodes
<1>9. ASSUME NEW c \in CycleHeads, parent[c] = Root PROVE ~ OnLoop(Node(c), Uncounted)
  <2>1. c \in C /\ c \in Labels
    BY <1>2, <1>4, <1>9
  <2>2. cfg[Node(c)].children \cap Uncounted = {}
    <3>1. cfg[Node(c)].children = {Counter(c)} /\ Counter(c).counter
      BY <1>6, <2>1, NodeFacts
    <3>2. QED
      BY <3>1 DEF Uncounted
  <2>3. IsFiniteSet(Uncounted)
    <3>1. Uncounted \in SUBSET W
      BY <1>6 DEF Uncounted
    <3> HIDE DEF W
    <3>2. QED
      BY <1>7, <3>1, FS_Subset
  <2>4. CfgClosed({}, Uncounted) /\ {} \in SUBSET Uncounted
    BY DEF CfgClosed
  <2>5. CfgReach({}, Uncounted) \subseteq {}
    BY <2>3, <2>4, CfgReachLeast
  <2>6. QED
    BY <2>2, <2>5 DEF OnLoop
<1>10. ASSUME NEW n \in DOMAIN cfg, n.counter PROVE OnLoop(n, DOMAIN cfg)
  <2>1. PICK c \in C : n = Counter(c)
    BY <1>6, <1>8, <1>10
  <2> DEFINE H == G[c]
             R == CfgReach(cfg[n].children \cap W, W)
             A == {l \in Labels : Node(l) \in R}
  <2>2. c \in CycleHeads /\ c \in Labels /\ H \in SUBSET Labels /\ c \notin H /\ IsLoop(c, H)
    BY <1>3, <1>4
  <2>3. cfg[n].children = PlainChildren(c)
    BY <1>6, <2>1
  <2>4. /\ cfg[n].children \cap W \subseteq R
        /\ CfgClosed(R, W)
    <3> HIDE DEF W
    <3>1. QED
      BY <1>7, CfgReachLeast
  <2> HIDE DEF H, R
  <2>5. children[c] \subseteq A
    BY <1>2, <1>8, <2>2, <2>3, <2>4 DEF PlainChildren
  <2>6. ASSUME NEW l \in A PROVE children[l] \subseteq A
    <3>1. l \in Labels /\ Node(l) \in R
      OBVIOUS
    <3>2. \A m \in children[l] : m \in Labels /\ Node(m) \in W /\ Node(m) \in PlainChildren(l)
      BY <1>2, <1>8, <3>1 DEF PlainChildren
    <3>3. CASE l \in C
      <4>1. Counter(l) \in R
        BY <1>6, <1>8, <2>4, <3>1, <3>3 DEF CfgClosed
      <4>2. \A m \in children[l] : Node(m) \in R
        BY <1>6, <2>4, <3>2, <3>3, <4>1 DEF CfgClosed
      <4>3. QED
        BY <3>2, <4>2
    <3>4. CASE l \notin C
      <4>1. \A m \in children[l] : Node(m) \in R
        BY <1>6, <2>4, <3>1, <3>2, <3>4 DEF CfgClosed
      <4>2. QED
        BY <3>2, <4>1
    <3>5. QED
      BY <3>3, <3>4
  <2>7. A \in SUBSET Labels
    OBVIOUS
  <2> HIDE DEF A
  <2>8. H \subseteq A
    <3> DEFINE B == A \cup {c}
    <3>1. B \in SUBSET Labels /\ c \in B /\ \A u \in B : children[u] \cap H \subseteq B
      BY <2>2, <2>5, <2>6, <2>7
    <3> HIDE DEF B
    <3>2. H \subseteq B
      BY <2>2, <3>1 DEF IsLoop
    <3>3. QED
      BY <2>2, <3>2 DEF B
  <2>9. PICK u \in H \cup {c} : c \in children[u]
    BY <2>2 DEF IsLoop
  <2>10. c \in A
    BY <2>5, <2>6, <2>8, <2>9
  <2>11. Node(c) \in R
    BY <2>10 DEF A
  <2>12. Counter(c) \in R
    BY <1>6, <1>8, <2>2, <2>4, <2>11 DEF CfgClosed
  <2>13. QED
    BY <1>6, <2>1, <2>12 DEF OnLoop, R
<1>11. QED
  BY <1>9, <1>10

-----------------------------------------------------------------------------
(* EdgesPreserved holds of every graph with fewer than 46341 labels, and   *)
(* at every step of for_each_loop_head: whatever counters insert_after has *)
(* put in, the paths from label to label are those of the program, and     *)
(* parents mirror children.                                                *)
THEOREM CountersPreserveEdges == ASSUME LabelsFit PROVE InstrSpec => []EdgesPreserved
<1> DEFINE Inv == InOrder /\ InstrInv
<1>1. InstrInit => Inv
  BY InstrStart
<1>2. Inv /\ [InstrNext]_allVars => Inv'
  BY InstrKept
<1>3. Inv => EdgesPreserved
  BY CountedPreserves
<1> HIDE DEF Inv
<1>4. QED
  BY <1>1, <1>2, <1>3, PTL DEF InstrSpec

(* OuterLoopsCounted holds of every such graph: once prepare_cfg is        *)
(* through, no path comes round to the head of a top-level cycle without a *)
(* counter (asm_cfg.cpp inserts them after those heads only), and every    *)
(* counter is on a loop.                                                   *)
THEOREM CountersOnLoops == ASSUME LabelsFit PROVE InstrSpec => []OuterLoopsCounted
<1> DEFINE Inv == InOrder /\ InstrInv
<1>1. InstrInit => Inv
  BY InstrStart
<1>2. Inv /\ [InstrNext]_allVars => Inv'
  BY InstrKept
<1>3. Inv => OuterLoopsCounted
  BY CountedAll
<1> HIDE DEF Inv
<1>4. QED
  BY <1>1, <1>2, <1>3, PTL DEF InstrSpec
=============================================================================
