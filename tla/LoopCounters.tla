---------------------------- MODULE LoopCounters ----------------------------
(***************************************************************************)
(* The second half of prepare_cfg (asm_cfg.cpp): with                      *)
(* check_for_termination, an IncrementLoopCounter node is inserted after   *)
(* each loop head that wto_t::for_each_loop_head visits.  The ordering is  *)
(* built by the actions of Wto first.                                      *)
(***************************************************************************)
EXTENDS WtoProperties

VARIABLES cfg,       \* the graph being instrumented: neighbours
          visited    \* top-level components for_each_loop_head has been through

allVars == <<vars, cfg, visited>>

(* A label and the counter label made of it (make_increment_counter).      *)
Node(l) == [label |-> l, counter |-> FALSE]

make_increment_counter(n) == [n EXCEPT !.counter = TRUE]

(* The graph before instrumentation.                                       *)
PlainCfg(kids) ==
    [n \in {Node(l) : l \in Labels} |->
        [parents  |-> {Node(l) : l \in {l \in Labels : n.label \in kids[l]}},
         children |-> {Node(l) : l \in kids[n.label]}]]

(* Mutant of insert_after: the successors keep prev as a parent.           *)
MutInsertAfter(graph, prev, new) ==
    LET nexts == graph[prev].children
    IN  [n \in DOMAIN graph \cup {new} |->
           IF n = new THEN [parents |-> {prev}, children |-> nexts]
           ELSE [parents  |-> graph[n].parents \cup (IF n \in nexts THEN {new} ELSE {}),
                 children |-> IF n = prev THEN {new} ELSE graph[n].children]]

(* cfg_builder_t::insert_after: prev's edges are moved to new.  Without    *)
(* successors of prev, new gets no edge at all.                            *)
insert_after(graph, prev, new) ==
    LET nexts == graph[prev].children
        linked == IF nexts = {} THEN {} ELSE {prev}
    IN  [n \in DOMAIN graph \cup {new} |->
           IF n = new THEN [parents |-> linked, children |-> nexts]
           ELSE [parents  |-> IF n \in nexts THEN (graph[n].parents \ {prev}) \cup {new}
                              ELSE graph[n].parents,
                 children |-> IF n = prev /\ nexts # {} THEN {new} ELSE graph[n].children]]

(* The components from first to last: the vector is in reverse order.      *)
TopComponent(i) == components[Root][Len(components[Root]) + 1 - i]

InstrInit == Init /\ cfg = PlainCfg(children) /\ visited = 0

BuildWto == BuildStep /\ UNCHANGED <<cfg, visited>>

(* for_each_loop_head, one top-level component.                            *)
VisitingComponent == Built /\ visited < Len(components[Root])

SkipVertex ==
    /\ VisitingComponent
    /\ ~TopComponent(visited + 1).cycle
    /\ visited' = visited + 1
    /\ UNCHANGED <<vars, cfg>>

(* Mutant of InsertCounter: the cycle is passed over.                      *)
MutInsertCounter ==
    /\ VisitingComponent
    /\ TopComponent(visited + 1).cycle
    /\ visited' = visited + 1
    /\ UNCHANGED <<vars, cfg>>

InsertCounter ==
    /\ VisitingComponent
    /\ TopComponent(visited + 1).cycle
    /\ LET h == Node(CycleHead(TopComponent(visited + 1).label))
       IN  cfg' = insert_after(cfg, h, make_increment_counter(h))
    /\ visited' = visited + 1
    /\ UNCHANGED vars

Instrumented == Built /\ visited = Len(components[Root])

InstrStep == BuildWto \/ SkipVertex \/ InsertCounter

InstrNext == InstrStep \/ (Instrumented /\ UNCHANGED allVars)

InstrSpec == InstrInit /\ [][InstrNext]_allVars

InstrFairSpec == InstrSpec /\ WF_allVars(InstrStep)

-----------------------------------------------------------------------------

(* Nodes of `within` reachable from S without leaving it.                  *)
CfgReach(S, within) ==
    LET R[k \in 0..Cardinality(within)] ==
          IF k = 0 THEN S
          ELSE LET prev == R[k - 1]
               IN  prev \cup (within \cap UNION {cfg[n].children : n \in prev})
    IN  R[Cardinality(within)]

OnLoop(n, within) == n \in CfgReach(cfg[n].children \cap within, within)

Uncounted == {n \in DOMAIN cfg : ~n.counter}

(* EdgesPreserved: inserting counters, before, between or after other      *)
(* counters, changes no path of the program: leaving a label, through its  *)
(* counter if it has one, leads to the labels it led to, and parents       *)
(* mirror children throughout.                                             *)
EdgesPreserved ==
    /\ \A l \in Labels :
         LET out == cfg[Node(l)].children
             c == make_increment_counter(Node(l))
         IN  (IF c \in out THEN (out \ {c}) \cup cfg[c].children ELSE out)
               = {Node(m) : m \in children[l]}
    /\ \A n, m \in DOMAIN cfg : m \in cfg[n].children <=> n \in cfg[m].parents

(* OuterLoopsCounted: once instrumented, no execution can come round to    *)
(* the head of a top-level cycle without passing a counter, and a counter  *)
(* is passed only on a loop.                                               *)
OuterLoopsCounted ==
    Instrumented =>
      /\ \A c \in CycleHeads : parent[c] = Root => ~OnLoop(Node(c), Uncounted)
      /\ \A n \in DOMAIN cfg : n.counter => OnLoop(n, DOMAIN cfg)
=============================================================================
