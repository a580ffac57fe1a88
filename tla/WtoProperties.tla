--------------------------- MODULE WtoProperties ----------------------------
(***************************************************************************)
(* What makes the result of Wto a weak topological ordering, and what the  *)
(* queries of wto_t answer on it.                                          *)
(***************************************************************************)
EXTENDS Wto

CycleHeads == DOMAIN parent

None == -2

-----------------------------------------------------------------------------
(* Queries of wto_t.                                                       *)

(* wto_cycle_t::head: the last component stored.                           *)
CycleHead(c) == Last(components[c]).label

(* Mutant of head: a head is not looked up in the parent of its cycle.     *)
MutHead(label) ==
    IF label \notin DOMAIN containing_cycle \/ containing_cycle[label] = Root
    THEN None
    ELSE LET c == containing_cycle[label]
         IN  IF CycleHead(c) # label THEN CycleHead(c) ELSE None

(* wto_t::head                                                             *)
head(label) ==
    IF label \notin DOMAIN containing_cycle \/ containing_cycle[label] = Root
    THEN None
    ELSE LET c == containing_cycle[label]
         IN  IF CycleHead(c) # label THEN CycleHead(c)
             ELSE IF parent[c] # Root THEN CycleHead(parent[c])
             ELSE None

(* wto_t::collect_heads, innermost first.                                  *)
collect_heads(label) ==
    LET chain[k \in 1..Cardinality(Labels)] ==
          IF k = 1 THEN head(label)
          ELSE LET h == chain[k - 1] IN IF h = None THEN None ELSE head(h)
        depth == Cardinality({k \in 1..Cardinality(Labels) : chain[k] # None})
    IN  [k \in 1..depth |-> chain[k]]

(* wto_nesting_t::operator>: outer is the tail of inner, and shorter.      *)
NestedDeeper(inner, outer) ==
    /\ Len(inner) > Len(outer)
    /\ \A i \in 0..(Len(outer) - 1) : inner[Len(inner) - i] = outer[Len(outer) - i]

(* The labels of each cycle of `parts`, to any depth.                      *)
MembersOf(parts) ==
    LET cycles == DOMAIN parts \ {Root}
        M[k \in 0..Cardinality(cycles)] ==
          IF k = 0 THEN [c \in cycles |-> {}]
          ELSE LET prev == M[k - 1]
               IN  [c \in cycles |->
                      UNION {LET e == parts[c][i]
                             IN  IF e.cycle THEN prev[e.label] ELSE {e.label} :
                               i \in 1..Len(parts[c])}]
    IN  M[Cardinality(cycles)]

Members == MembersOf(components)

is_component_member(label, component) ==
    IF component.cycle THEN label \in Members[component.label] ELSE label = component.label

LabelsOf(component) == {l \in Labels : is_component_member(l, component)}

PartitionLabels(c) == UNION {LabelsOf(components[c][i]) : i \in 1..Len(components[c])}

-----------------------------------------------------------------------------
(* Reference notions.                                                      *)

ReachableFrom(S, within) ==
    LET R[k \in 0..Cardinality(Labels)] ==
          IF k = 0 THEN S
          ELSE LET prev == R[k - 1]
               IN  prev \cup (within \cap UNION {children[l] : l \in prev})
    IN  R[Cardinality(Labels)]

Reachable == ReachableFrom({Entry}, Labels)

(* The labels on a cycle through v inside `within`.                        *)
LoopThrough(v, within) ==
    LET after == ReachableFrom(children[v] \cap within, within)
    IN  {u \in after : v \in ReachableFrom({u}, within)}

Positions(component) ==
    UNION {{<<c, i>> : i \in {j \in 1..Len(components[c]) : components[c][j] = component}} :
             c \in DOMAIN components}

-----------------------------------------------------------------------------

TypeOK ==
    /\ children \in [Labels -> SUBSET Labels]
    /\ dfn \in [Labels -> Nat]
    /\ head_dfn \in [Labels -> Nat]
    /\ num \in Nat
    /\ stack \in Seq(Labels)
    /\ visit_stack \in Seq(Task)
    /\ DOMAIN components = CycleHeads \cup {Root}
    /\ \A c \in DOMAIN components : components[c] \in Seq(Component)
    /\ CycleHeads \subseteq Labels /\ parent \in [CycleHeads -> CycleHeads \cup {Root}]
    /\ DOMAIN containing_cycle \subseteq Labels
    /\ \A l \in DOMAIN containing_cycle : containing_cycle[l] \in CycleHeads \cup {Root}

(* StackDiscipline: _stack holds, in increasing order of dfn, exactly the  *)
(* vertices being visited, and a vertex found to be a component by itself  *)
(* is on top of it, where start_visit pops without looking; when a vertex  *)
(* is started all of its successors have been visited.                     *)
StackDiscipline ==
    /\ \A i, j \in 1..Len(stack) : i < j => dfn[stack[i]] < dfn[stack[j]]
    /\ {stack[i] : i \in 1..Len(stack)} = {v \in Labels : dfn[v] \notin {0, DFN_INF}}
    /\ visit_stack # <<>> /\ Last(visit_stack).type = "StartVisit" =>
         LET v == Last(visit_stack).vertex
         IN  /\ \A s \in children[v] : dfn[s] # 0
             /\ IsHeadDfn(v, dfn[v]) /\ ~Loops(v) => stack # <<>> /\ Last(stack) = v

(* EachPlacedOnce: when the builder ends, every reachable vertex stands in *)
(* one place of one partition, every cycle in one place of its parent's,   *)
(* nothing else stands anywhere; the head of a cycle is stored last in it, *)
(* where wto_cycle_t::head looks, and so is the entry or the cycle it      *)
(* heads at the top level: it is the first to be visited.                  *)
EachPlacedOnce ==
    Built =>
      /\ \A l \in Reachable : Cardinality(Positions(Vertex(l))) = 1
      /\ \A l \in Labels \ Reachable : Positions(Vertex(l)) = {}
      /\ \A c \in CycleHeads : /\ Cardinality(Positions(Cycle(c))) = 1
                               /\ components[c] # <<>> /\ Last(components[c]) = Vertex(c)
                               /\ \A p \in Positions(Cycle(c)) : p[1] = parent[c]
      /\ \A l \in Labels \ CycleHeads : Positions(Cycle(l)) = {}
      /\ components[Root] # <<>> /\ Last(components[Root]).label = Entry

(* WeakTopologicalOrder: when the builder ends, the components of each     *)
(* partition share no label, the labels of a cycle are those of its        *)
(* partition, and every edge between labels of a partition goes forward    *)
(* (down the vector), stays in one cycle, or goes back to the head of the  *)
(* partition's cycle (Bourdoncle's definition 1); no edge leads out of the *)
(* ordering.  Iterating the cycles until their heads are stable then makes *)
(* the whole graph stable.                                                 *)
WeakTopologicalOrder ==
    Built =>
      /\ \A u \in PartitionLabels(Root) : children[u] \subseteq PartitionLabels(Root)
      /\ \A c \in CycleHeads : Members[c] = PartitionLabels(c)
      /\ \A c \in DOMAIN components : \A i, j \in 1..Len(components[c]) :
           LET from == components[c][i]
               to == components[c][j]
           IN  /\ i # j => LabelsOf(from) \cap LabelsOf(to) = {}
               /\ \A u \in LabelsOf(from) : \A v \in children[u] \cap LabelsOf(to) :
                    i > j \/ v = c \/ (i = j /\ from.cycle)

(* CyclesAreLoops: when the builder ends, the labels of a cycle are        *)
(* exactly those on a loop through its head inside its parent, the         *)
(* parent's head left out, and a vertex that heads no cycle of a partition *)
(* is on no loop there: no widening point is missing or idle.              *)
CyclesAreLoops ==
    Built =>
      LET Within(c) == IF c = Root THEN Reachable ELSE Members[c] \ {c}
      IN  \A c \in DOMAIN components : \A i \in 1..Len(components[c]) :
            LET e == components[c][i]
            IN  IF e.cycle THEN Members[e.label] = LoopThrough(e.label, Within(c))
                ELSE e.label # c => LoopThrough(e.label, Within(c)) = {}

(* NestingAgrees: when the builder ends, the nesting that wto_t::nesting   *)
(* collects for a label through head() is the list, innermost first, of    *)
(* the heads of the cycles the label is in, itself left out; operator> on  *)
(* two nestings is then strict inclusion of their cycles.                  *)
NestingAgrees ==
    Built =>
      LET InCycles(l) == {c \in CycleHeads : l \in Members[c] /\ c # l}
          Nesting(l) == collect_heads(l)
      IN  /\ \A l \in Reachable :
               /\ {Nesting(l)[i] : i \in 1..Len(Nesting(l))} = InCycles(l)
               /\ \A i, j \in 1..Len(Nesting(l)) :
                    i < j => Members[Nesting(l)[i]] \subseteq Members[Nesting(l)[j]] \ {Nesting(l)[j]}
          /\ \A k, l \in Reachable :
               NestedDeeper(Nesting(k), Nesting(l))
                 <=> InCycles(l) \subseteq InCycles(k) /\ InCycles(l) # InCycles(k)

(* Terminates: the loop over _visit_stack ends: a vertex is reset only     *)
(* into a cycle whose head never is.                                       *)
Terminates == <>Built
=============================================================================
