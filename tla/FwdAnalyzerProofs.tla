------------------------- MODULE FwdAnalyzerProofs --------------------------
(***************************************************************************)
(* Proofs that the forward analysis is sound, for every graph, domain,     *)
(* widening, narrowing, bound on the iterations and code: what it stores   *)
(* before and after an instruction is of one iteration, what it ends with  *)
(* covers every execution, and a program it verifies fails no assertion.   *)
(*                                                                         *)
(* Of the ordering built by Wto the proofs use EachPlacedOnce and          *)
(* WeakTopologicalOrder, which WtoProofs proves for the graphs whose       *)
(* numbers fit, as LabelsFit says; so do the theorems here.                *)
(***************************************************************************)
EXTENDS FwdAnalyzer, WtoProofs

(* What the ordering promises: the cycle the entry is found in, it heads.  *)
EntryLeads ==
    \A component \in Component :
        skip /\ Visiting(component) /\ component.cycle /\ is_component_member(Entry, component) =>
            CycleHead(component.label) = Entry

(* A label has its instruction's result or, the entry, none yet.           *)
Follows(l) == post[l] = transform_to_post(l, pre[l])

Inv == /\ code \in Code
       /\ DOMAIN pre = Labels /\ DOMAIN post = Labels
       /\ PostFollowsPre

(* A label that gets a new invariant gets its result; others keep theirs.  *)
LEMMA SetKeeps ==
    ASSUME DOMAIN pre = Labels, DOMAIN post = Labels, NEW h, NEW a, SetInvariant(h, a),
           code' = code, assume_assertions' = assume_assertions
    PROVE  /\ DOMAIN pre' = Labels /\ DOMAIN post' = Labels
           /\ \A l \in Labels : l = h \/ Follows(l) => Follows(l)'
<1>1. /\ pre' = [pre EXCEPT ![h] = a]
      /\ post' = [post EXCEPT ![h] = transform_to_post(h, a)]
  BY DEF SetInvariant
<1>2. DOMAIN pre' = Labels /\ DOMAIN post' = Labels
  BY <1>1
<1>3. ASSUME NEW l \in Labels, l = h \/ Follows(l) PROVE Follows(l)'
  <2>1. CASE l = h
    <3>1. pre'[l] = a /\ post'[l] = transform_to_post(h, a)
      BY <1>1, <2>1
    <3>2. QED
      BY <2>1, <3>1 DEF Follows, transform_to_post
  <2>2. CASE l # h
    <3>1. pre'[l] = pre[l] /\ post'[l] = post[l]
      BY <1>1, <2>2
    <3>2. QED
      BY <1>3, <2>2, <3>1 DEF Follows, transform_to_post
  <2>3. QED
    BY <2>1, <2>2
<1>4. QED
  BY <1>2, <1>3
-----------------------------------------------------------------------------
(* At the start every label but the entry has bottom before and after.     *)
LEMMA InitInv == AnInit => Inv
<1> SUFFICES ASSUME AnInit PROVE Inv
  OBVIOUS
<1>1. /\ code \in Code /\ skip = TRUE
      /\ pre = [l \in Labels |-> IF l = Entry THEN EntryInv ELSE Bottom]
      /\ post = [l \in Labels |-> Bottom]
  BY DEF AnInit
<1>2. ASSUME NEW l \in Labels, l # Entry PROVE post[l] = transform_to_post(l, pre[l])
  <2>1. pre[l] = Bottom /\ post[l] = Bottom
    BY <1>1, <1>2
  <2>2. Transform(code[l], Bottom) = Bottom /\ Assume(code[l], Bottom) = Bottom
    BY <1>1, BottomAssumption
  <2>3. QED
    BY <2>1, <2>2 DEF transform_to_post
<1>3. QED
  BY <1>1, <1>2 DEF Inv, PostFollowsPre

(* A step that stores nothing.                                             *)
LEMMA SameKeeps ==
    ASSUME Inv, UNCHANGED <<code, assume_assertions, pre, post, skip>>
    PROVE  Inv'
BY DEF Inv, PostFollowsPre, transform_to_post

(* A step that gives h a new invariant; if the entry is reached, it is h.  *)
LEMMA StoreKeeps ==
    ASSUME Inv, NEW h, NEW a, SetInvariant(h, a),
           code' = code, assume_assertions' = assume_assertions,
           skip' = skip \/ h = Entry \/ ~ skip
    PROVE  Inv'
<1>1. /\ DOMAIN pre = Labels /\ DOMAIN post = Labels /\ code \in Code
      /\ \A l \in Labels : (l = Entry /\ skip) \/ Follows(l)
  BY DEF Inv, PostFollowsPre, Follows
<1>2. /\ DOMAIN pre' = Labels /\ DOMAIN post' = Labels
      /\ \A l \in Labels : l = h \/ Follows(l) => Follows(l)'
  BY <1>1, SetKeeps
<1>3. \A l \in Labels : (l = Entry /\ skip') \/ Follows(l)'
  BY <1>1, <1>2
<1>4. PostFollowsPre'
  BY <1>3 DEF PostFollowsPre, Follows
<1>5. QED
  BY <1>1, <1>2, <1>4 DEF Inv

LEMMA LabelStep ==
    ASSUME Inv, NEW component, VisitLabel(component) PROVE Inv'
<1> DEFINE l == component.label
<1>1. /\ skip' = (skip /\ l # Entry)
      /\ IF skip' THEN UNCHANGED <<pre, post>> ELSE SetInvariant(l, join_all_prevs(l))
      /\ code' = code /\ assume_assertions' = assume_assertions
  BY DEF VisitLabel
<1>2. CASE skip'
  <2>1. UNCHANGED <<code, assume_assertions, pre, post>> /\ skip' /\ skip
    BY <1>1, <1>2
  <2>2. QED
    BY <2>1 DEF Inv, PostFollowsPre, transform_to_post
<1>3. CASE ~ skip'
  <2>1. SetInvariant(l, join_all_prevs(l))
    BY <1>1, <1>3
  <2>2. skip' = skip \/ l = Entry \/ ~ skip
    BY <1>1
  <2>3. QED
    BY <1>1, <2>1, <2>2, StoreKeeps
<1>4. QED
  BY <1>2, <1>3

(* The entry is skipped until its cycle is visited, which it heads.        *)
LEMMA CycleStep ==
    ASSUME Inv, EntryLeads, NEW component \in Component, VisitCycle(component) PROVE Inv'
<1> DEFINE c == component.label
           entered == skip /\ is_component_member(Entry, component)
           invariant == InitialInvariant(c, entered)
<1>1. /\ Visiting(component) /\ component.cycle
      /\ skip' = (skip /\ ~ entered)
      /\ skip' => UNCHANGED <<pre, post>>
      /\ ~ skip' => SetInvariant(CycleHead(c), invariant)
      /\ code' = code /\ assume_assertions' = assume_assertions
  BY DEF VisitCycle
<1>2. entered => CycleHead(c) = Entry
  BY <1>1 DEF EntryLeads
<1>3. CASE skip'
  <2>1. UNCHANGED <<code, assume_assertions, pre, post>> /\ skip' /\ skip
    BY <1>1, <1>3
  <2>2. QED
    BY <2>1 DEF Inv, PostFollowsPre, transform_to_post
<1>4. CASE ~ skip'
  <2>1. CycleHead(c) = Entry \/ ~ skip
    BY <1>1, <1>2, <1>4
  <2>2. SetInvariant(CycleHead(c), invariant)
    BY <1>1, <1>4
  <2> HIDE DEF c, invariant
  <2>3. QED
    BY <1>1, <2>1, <2>2, StoreKeeps
<1>5. QED
  BY <1>3, <1>4

LEMMA PassStep ==
    ASSUME Inv, NEW phase, NEW iteration, NEW invariant, NextPass(phase, iteration, invariant)
    PROVE  Inv'
<1>1. /\ SetInvariant(CycleHead(Top.cycle), invariant)
      /\ code' = code /\ assume_assertions' = assume_assertions /\ skip' = skip
  BY DEF NextPass
<1>2. QED
  BY <1>1, StoreKeeps

LEMMA AnalysisStep == Inv /\ EntryLeads /\ [AnNext]_anVars => Inv'
<1> SUFFICES ASSUME Inv, EntryLeads, [AnNext]_anVars PROVE Inv'
  OBVIOUS
<1>1. CASE BuildWto
  BY <1>1, SameKeeps DEF BuildWto, analysisVars
<1>2. CASE StartAnalysis
  BY <1>2, SameKeeps DEF StartAnalysis
<1>3. ASSUME NEW component \in Component, VisitComponent(component) PROVE Inv'
  <2>1. CASE PassHead(component)
    BY <2>1, SameKeeps DEF PassHead
  <2>2. CASE VisitLabel(component)
    BY <2>2, LabelStep
  <2>3. CASE VisitCycle(component)
    BY <2>3, CycleStep
  <2>4. QED
    BY <1>3, <2>1, <2>2, <2>3 DEF VisitComponent
<1>4. CASE Ascend
  BY <1>4, PassStep DEF Ascend
<1>5. CASE TurnAround
  BY <1>5, PassStep DEF TurnAround
<1>6. CASE Descend
  BY <1>6, PassStep DEF Descend
<1>7. CASE LeaveCycle
  BY <1>7, SameKeeps DEF LeaveCycle
<1>8. CASE UNCHANGED anVars
  BY <1>8, SameKeeps DEF anVars, analysisVars
<1>9. QED
  BY <1>1, <1>2, <1>3, <1>4, <1>5, <1>6, <1>7, <1>8 DEF AnNext, AnStep

-----------------------------------------------------------------------------
(* Certificates.  The soundness of a post-fixpoint is usually argued from  *)
(* the invariants themselves; after a decreasing iteration they need not   *)
(* be a post-fixpoint (a narrowing step covers the meet only).  What is    *)
(* kept instead is that sets of states smaller than the invariants are     *)
(* closed under the instructions.                                          *)

(* The states that the instruction at p leads to from those of X.          *)
Steps(p, X) ==
    UNION {IF assume_assertions /\ ~Holds(code[p], x) THEN {} ELSE Run(code[p], x) : x \in X}

(* The sets J hold the entry's states and what comes into each label of K: *)
(* from inside K out of the sets, from outside out of the invariants.      *)
Closed(K, J, after) ==
    /\ Entry \in K => Gamma(EntryInv) \subseteq J[Entry]
    /\ \A m \in K \ {Entry} : \A p \in parents_of(m) :
         IF p \in K THEN Steps(p, J[p]) \subseteq J[m] ELSE Gamma(after[p]) \subseteq J[m]

(* The invariants of K cover all that can come about in K from outside.    *)
Certified(K, before, after) ==
    \E J \in [K -> SUBSET Values] :
        Closed(K, J, after) /\ \A m \in K : J[m] \subseteq Gamma(before[m])

(* The components that the pass of a frame is done with are certified.     *)
PassedOver(f, before, after) ==
    \A i \in (f.pos + 1)..Len(components[f.cycle]) :
        LET e == components[f.cycle][i]
        IN  e # Vertex(f.cycle) => Certified(LabelsOf(e), before, after)

(* The decreasing iterations of a cycle go below no closed sets.           *)
Refinable(c, before, after) ==
    \E J \in [Members[c] -> SUBSET Values] :
        Closed(Members[c], J, after) /\ J[c] \subseteq Gamma(before[c])

(* What is kept for each visit under way.                                  *)
FrameHolds(f, before, after) ==
    /\ PassedOver(f, before, after)
    /\ f.cycle # Root => before[f.cycle] = f.invariant
    /\ f.phase = "descending" => Refinable(f.cycle, before, after)

(* None of this changes while the graph, the ordering and the code do not. *)
LEMMA FrozenNotions ==
    ASSUME UNCHANGED <<vars, code, assume_assertions>>
    PROVE  /\ Members' = Members
           /\ \A e : LabelsOf(e)' = LabelsOf(e)
           /\ \A p, X : Steps(p, X)' = Steps(p, X)
           /\ \A l : parents_of(l)' = parents_of(l)
BY DEF vars, builderVars, Members, LabelsOf, is_component_member, Steps, parents_of

LEMMA FrozenClosed ==
    ASSUME UNCHANGED <<vars, code, assume_assertions>>
    PROVE  \A K, J : Closed(K, J, post)' <=> Closed(K, J, post')
BY FrozenNotions DEF Closed

LEMMA FrozenCertified ==
    ASSUME UNCHANGED <<vars, code, assume_assertions>>
    PROVE  \A K : Certified(K, pre, post)' <=> Certified(K, pre', post')
<1> SUFFICES ASSUME NEW K PROVE Certified(K, pre, post)' <=> Certified(K, pre', post')
  OBVIOUS
<1>1. \A J : Closed(K, J, post)' <=> Closed(K, J, post')
  BY FrozenClosed
<1>2. QED
  BY <1>1 DEF Certified

LEMMA FrozenFrame ==
    ASSUME UNCHANGED <<vars, code, assume_assertions>>, NEW k, FrameHolds(frames'[k], pre', post')
    PROVE  FrameHolds(frames[k], pre, post)'
<1>1. components' = components
  BY DEF vars, builderVars
<1>2. PassedOver(frames[k], pre, post)'
  <2>1. PassedOver(frames'[k], pre', post')
    BY DEF FrameHolds
  <2>2. QED
    BY <1>1, <2>1, FrozenCertified, FrozenNotions DEF PassedOver
<1>3. frames'[k].cycle # Root => pre'[frames'[k].cycle] = frames'[k].invariant
  BY DEF FrameHolds
<1>4. frames'[k].phase = "descending" => Refinable(frames[k].cycle, pre, post)'
  <2>1. frames'[k].phase = "descending" => Refinable(frames'[k].cycle, pre', post')
    BY DEF FrameHolds
  <2>2. QED
    BY <2>1, FrozenClosed, FrozenNotions DEF Refinable
<1>5. QED
  BY <1>2, <1>3, <1>4 DEF FrameHolds

OrderFacts ==
    /\ CycleHeads \subseteq Labels /\ Root \notin Labels
    /\ DOMAIN components = CycleHeads \cup {Root}
    /\ \A c \in DOMAIN components :
         /\ components[c] \in Seq(Component) /\ components[c] # <<>>
         /\ \A i \in 1..Len(components[c]) :
              LET l == components[c][i].label
              IN  components[c][i] = Vertex(l) \/ (components[c][i] = Cycle(l) /\ l \in CycleHeads)
    /\ components[Root][Len(components[Root])].label = Entry
    /\ \A c \in CycleHeads : components[c][Len(components[c])] = Vertex(c) /\ CycleHead(c) = c
    /\ \A l \in Labels : LabelsOf(Vertex(l)) = {l}
    /\ \A c \in CycleHeads : LabelsOf(Cycle(c)) = Members[c] /\ Members[c] = PartitionLabels(c)

LEMMA FactsHold ==
    ASSUME Built, TypeOK, EachPlacedOnce, WeakTopologicalOrder
    PROVE  OrderFacts
<1>1. /\ CycleHeads \subseteq Labels /\ Root \notin Labels
      /\ DOMAIN components = CycleHeads \cup {Root}
      /\ \A c \in DOMAIN components : components[c] \in Seq(Component)
  BY LabelsAssumption DEF TypeOK, Root
<1>2. /\ \A l \in Labels \ CycleHeads : Positions(Cycle(l)) = {}
      /\ \A c \in CycleHeads : components[c] # <<>> /\ Last(components[c]) = Vertex(c)
      /\ components[Root] # <<>> /\ Last(components[Root]).label = Entry
  BY DEF EachPlacedOnce
<1>3. \A c \in CycleHeads : Members[c] = PartitionLabels(c)
  BY DEF WeakTopologicalOrder
<1>4. ASSUME NEW c \in DOMAIN components, NEW i \in 1..Len(components[c])
      PROVE  LET l == components[c][i].label
             IN  components[c][i] = Vertex(l) \/ (components[c][i] = Cycle(l) /\ l \in CycleHeads)
  <2> DEFINE e == components[c][i]
  <2>1. e \in Component
    BY <1>1
  <2>2. e = Vertex(e.label) \/ e = Cycle(e.label)
    <3>1. PICK b \in BOOLEAN, l \in Labels : e = [cycle |-> b, label |-> l]
      BY <2>1 DEF Component
    <3>2. e.label = l
      BY <3>1
    <3>3. CASE b = TRUE
      BY <3>1, <3>2, <3>3, Zenon DEF Cycle
    <3>4. CASE b = FALSE
      <4> HIDE DEF e
      <4>1. QED
        BY <3>1, <3>2, <3>4, Zenon DEF Vertex
    <3>5. QED
      BY <3>3, <3>4
  <2>3. <<c, i>> \in Positions(e)
    BY DEF Positions
  <2>4. e = Cycle(e.label) => e.label \in CycleHeads
    BY <1>2, <2>1, <2>3 DEF Component
  <2>5. QED
    BY <2>2, <2>4
<1>5. \A c \in CycleHeads : components[c][Len(components[c])] = Vertex(c) /\ CycleHead(c) = c
  <2>1. \A c : Vertex(c).label = c
    BY DEF Vertex
  <2>2. QED
    BY <1>2, <2>1 DEF CycleHead, Last
<1>6. \A l \in Labels : LabelsOf(Vertex(l)) = {l}
  BY DEF LabelsOf, is_component_member, Vertex
<1>7. \A c \in CycleHeads : LabelsOf(Cycle(c)) = Members[c]
  <2>1. \A c : PartitionLabels(c) \subseteq Labels
    BY DEF PartitionLabels, LabelsOf
  <2>2. QED
    BY <1>3, <2>1 DEF LabelsOf, is_component_member, Cycle
<1>8. components[Root][Len(components[Root])].label = Entry
  BY <1>2 DEF Last
<1>9. QED
  BY <1>1, <1>2, <1>3, <1>4, <1>5, <1>6, <1>7, <1>8 DEF OrderFacts

EdgesOrdered ==
    /\ \A u \in PartitionLabels(Root) : children[u] \subseteq PartitionLabels(Root)
    /\ \A c \in DOMAIN components : \A i, j \in 1..Len(components[c]) :
         /\ i # j => LabelsOf(components[c][i]) \cap LabelsOf(components[c][j]) = {}
         /\ \A u \in LabelsOf(components[c][i]) : \A v \in LabelsOf(components[c][j]) :
              u \in parents_of(v) => i > j \/ v = c \/ (i = j /\ components[c][i].cycle)

LEMMA EdgesHold ==
    ASSUME Built, WeakTopologicalOrder
    PROVE  EdgesOrdered
BY DEF WeakTopologicalOrder, EdgesOrdered, parents_of

-----------------------------------------------------------------------------
(* What an instruction leads to is in the result of its transfer.          *)
LEMMA StepsCovered ==
    ASSUME code \in Code, NEW p \in Labels, NEW a \in Domain, NEW X, X \subseteq Gamma(a)
    PROVE  /\ transform_to_post(p, a) \in Domain
           /\ Steps(p, X) \subseteq Gamma(transform_to_post(p, a))
<1> DEFINE b == Assume(code[p], a)
<1>1. /\ b \in Domain /\ Transform(code[p], a) \in Domain
      /\ \A x \in Gamma(a) : /\ Run(code[p], x) \subseteq Gamma(Transform(code[p], a))
                             /\ Holds(code[p], x) => x \in Gamma(b)
  BY TransferAssumption
<1>2. Transform(code[p], b) \in Domain
      /\ \A x \in Gamma(b) : Run(code[p], x) \subseteq Gamma(Transform(code[p], b))
  BY <1>1, TransferAssumption
<1>3. CASE assume_assertions
  BY <1>1, <1>2, <1>3 DEF transform_to_post, Steps
<1>4. CASE ~ assume_assertions
  BY <1>1, <1>4 DEF transform_to_post, Steps
<1>5. QED
  BY <1>3, <1>4

LEMMA StepsMonotone ==
    ASSUME NEW p, NEW X, NEW Y, X \subseteq Y
    PROVE  Steps(p, X) \subseteq Steps(p, Y)
BY DEF Steps

LEMMA StepsTyped ==
    ASSUME code \in Code, NEW p \in Labels, NEW X \in SUBSET Values
    PROVE  Steps(p, X) \subseteq Values
BY ValuesAssumption DEF Steps

(* What the domain's operations give.                                      *)
LEMMA DomainSound ==
    ASSUME NEW a \in Domain, NEW b \in Domain
    PROVE  /\ {Join(a, b), Meet(a, b), Widen(a, b), Narrow(a, b)} \subseteq Domain
           /\ Gamma(a) \subseteq Gamma(Join(a, b)) /\ Gamma(b) \subseteq Gamma(Join(a, b))
           /\ Gamma(a) \cap Gamma(b) \subseteq Gamma(Meet(a, b))
           /\ Gamma(a) \cap Gamma(b) \subseteq Gamma(Narrow(a, b))
           /\ Leq(a, b) => Gamma(a) \subseteq Gamma(b)
           /\ Leq(a, a) /\ Gamma(a) \subseteq Values
           /\ ConstantLimits \in Domain
BY DomainAssumption, NarrowAssumption, ValuesAssumption

(* The join covers each of the invariants joined.                          *)
LEMMA JoinCovers ==
    ASSUME post \in [Labels -> Domain], NEW S \in SUBSET Labels
    PROVE  JoinPosts(S) \in Domain /\ \A p \in S : Gamma(post[p]) \subseteq Gamma(JoinPosts(S))
<1> DEFINE Greatest(T) == CHOOSE m \in T : \A t \in T : t <= m
           pick == [T \in SUBSET S |-> Greatest(T)]
           step == [q \in S \X Domain |-> Join(q[2], post[q[1]])]
           Folds(J) == J = [T \in SUBSET S |->
                              IF T = {} THEN Bottom
                              ELSE LET m == Greatest(T) IN Join(J[T \ {m}], post[m])]
           it == CHOOSE J : Folds(J)
<1>1. IsFiniteSet(S) /\ S \subseteq Nat
  BY LabelsAssumption, FS_Subset
<1>2. ASSUME NEW T \in SUBSET S, T # {} PROVE Greatest(T) \in T
  <2>1. IsFiniteSet(T)
    BY <1>1, FS_Subset
  <2>2. \E m \in T : \A t \in T : t <= m
    BY <1>1, <1>2, <2>1, GreatestExists
  <2>3. QED
    BY <2>2
<1>3. Bottom \in Domain /\ step \in [S \X Domain -> Domain]
  BY DomainAssumption
<1>4. \A T \in SUBSET S : pick[T] = Greatest(T)
  OBVIOUS
<1> HIDE DEF Greatest, pick
<1>5. \A T \in SUBSET S : T # {} => pick[T] \in T
  BY <1>2, <1>4
<1>6. \E J \in [SUBSET S -> Domain] : Folds(J)
  <2>1. PICK J \in [SUBSET S -> Domain] : IsFoldBy(J, S, pick, Bottom, step)
    <3> HIDE DEF step
    <3>1. QED
      BY <1>1, <1>3, <1>5, FoldByExists
  <2>2. ASSUME NEW T \in SUBSET S, T # {}
        PROVE  step[<<pick[T], J[T \ {pick[T]}]>>] = Join(J[T \ {Greatest(T)}], post[Greatest(T)])
    <3>1. Greatest(T) \in S /\ J[T \ {Greatest(T)}] \in Domain /\ pick[T] = Greatest(T)
      BY <1>2, <1>4, <2>2
    <3>2. QED
      BY <3>1
  <2>3. [T \in SUBSET S |-> IF T = {} THEN Bottom ELSE step[<<pick[T], J[T \ {pick[T]}]>>]]
          = [T \in SUBSET S |-> IF T = {} THEN Bottom
                                ELSE LET m == Greatest(T) IN Join(J[T \ {m}], post[m])]
    BY <2>2
  <2>4. QED
    BY <2>1, <2>3 DEF IsFoldBy
<1>7. Folds(it)
  <2> HIDE DEF Folds
  <2>1. QED
    BY <1>6
<1>8. JoinPosts(S) = it[S]
  BY DEF JoinPosts, Greatest
<1> DEFINE A == {T \in SUBSET S : it[T] \in Domain
                                  /\ \A p \in T : Gamma(post[p]) \subseteq Gamma(it[T])}
<1>9. it[{}] = Bottom
  BY <1>7
<1>10. {} \in A
  BY <1>3, <1>9
<1>11. ASSUME NEW T \in SUBSET S, T # {}, \A x \in T : T \ {x} \in A PROVE T \in A
  <2> DEFINE m == Greatest(T)
  <2>1. m \in T
    BY <1>2, <1>11
  <2>2. it[T] = Join(it[T \ {m}], post[m])
    BY <1>7, <1>11
  <2> HIDE DEF m, it
  <2>3. it[T \ {m}] \in Domain /\ \A p \in T \ {m} : Gamma(post[p]) \subseteq Gamma(it[T \ {m}])
    BY <1>11, <2>1
  <2>4. /\ it[T] \in Domain
        /\ Gamma(it[T \ {m}]) \subseteq Gamma(it[T]) /\ Gamma(post[m]) \subseteq Gamma(it[T])
    <3>1. post[m] \in Domain
      BY <2>1
    <3>2. QED
      BY <2>2, <2>3, <3>1, DomainSound
  <2>5. QED
    BY <2>3, <2>4
<1> HIDE DEF A, it
<1>12. S \in A
  BY <1>1, <1>10, <1>11, SubsetInduction
<1>13. QED
  BY <1>8, <1>12 DEF A

LEMMA PrevsCovered ==
    ASSUME pre \in [Labels -> Domain], post \in [Labels -> Domain], NEW l \in Labels
    PROVE  /\ join_all_prevs(l) \in Domain
           /\ l = Entry => join_all_prevs(l) = pre[Entry]
           /\ l # Entry => \A p \in parents_of(l) : Gamma(post[p]) \subseteq Gamma(join_all_prevs(l))
<1>1. parents_of(l) \in SUBSET Labels
  BY DEF parents_of
<1>2. QED
  BY <1>1, JoinCovers DEF join_all_prevs
-----------------------------------------------------------------------------
(* A certificate depends on the invariants of its labels and their parents.*)
LEMMA CertificateKept ==
    ASSUME NEW K \in SUBSET Labels, NEW h, h \notin K, \A m \in K : h \notin parents_of(m),
           NEW before, NEW after, NEW before2, NEW after2,
           \A l \in Labels \ {h} : before2[l] = before[l] /\ after2[l] = after[l],
           Certified(K, before, after)
    PROVE  Certified(K, before2, after2)
<1>1. PICK J \in [K -> SUBSET Values] :
        Closed(K, J, after) /\ \A m \in K : J[m] \subseteq Gamma(before[m])
  BY DEF Certified
<1>2. Closed(K, J, after2)
  <2>1. \A m \in K : \A p \in parents_of(m) : after2[p] = after[p]
    BY DEF parents_of
  <2>2. QED
    BY <1>1, <2>1 DEF Closed
<1>3. \A m \in K : J[m] \subseteq Gamma(before2[m])
  BY <1>1
<1>4. QED
  BY <1>2, <1>3 DEF Certified

(* The component that a frame is at.                                       *)
Site(f) == components[f.cycle][f.pos]

FrameType == [cycle : Cycles, pos : Nat, phase : {"top", "ascending", "descending"},
              iteration : Nat, invariant : Domain]

(* A label in the component a frame is at gets a new invariant: what has   *)
(* been passed over does not depend on it.                                 *)
LEMMA FrameKept ==
    ASSUME OrderFacts, EdgesOrdered,
           NEW f \in FrameType, f.cycle \in DOMAIN components, f.pos \in 1..Len(components[f.cycle]),
           f.phase = "descending" => f.cycle # Root,
           Site(f) # Vertex(f.cycle), NEW h \in LabelsOf(Site(f)),
           NEW before, NEW after, NEW before2, NEW after2,
           \A l \in Labels \ {h} : before2[l] = before[l] /\ after2[l] = after[l],
           FrameHolds(f, before, after)
    PROVE  FrameHolds(f, before2, after2)
<1> DEFINE c == f.cycle
           n == Len(components[c])
<1>1. /\ components[c] \in Seq(Component) /\ components[c] # <<>> /\ n \in 1..n
      /\ f.pos \in 1..n /\ f.pos \in Nat
  BY DEF OrderFacts, FrameType
<1>2. \A i \in 1..n : i # f.pos => h \notin LabelsOf(components[c][i])
  BY <1>1 DEF EdgesOrdered, Site
<1>3. c # Root => /\ c \in CycleHeads /\ components[c][n] = Vertex(c) /\ LabelsOf(Vertex(c)) = {c}
                  /\ n # f.pos /\ Members[c] = PartitionLabels(c)
  BY <1>1 DEF OrderFacts, Site
<1>4. c # Root => h # c
  BY <1>1, <1>2, <1>3
<1>5. ASSUME NEW i \in (f.pos + 1)..n, components[c][i] # Vertex(c)
      PROVE  Certified(LabelsOf(components[c][i]), before2, after2)
  <2> DEFINE K == LabelsOf(components[c][i])
  <2>1. i \in 1..n /\ i > f.pos /\ ~ (f.pos > i) /\ i # f.pos
    BY <1>1
  <2>2. h \notin K /\ K \in SUBSET Labels
    BY <1>2, <2>1 DEF LabelsOf
  <2>3. \A m \in K : h \in parents_of(m) => m = c
    BY <1>1, <2>1 DEF EdgesOrdered, Site
  <2>4. c \notin K
    <3>1. CASE c = Root
      BY <2>2, <3>1 DEF OrderFacts
    <3>2. CASE c # Root
      <4>1. i # n
        BY <1>3, <1>5, <3>2
      <4>2. c \in LabelsOf(components[c][n])
        BY <1>3, <3>2
      <4>3. K \cap LabelsOf(components[c][n]) = {}
        BY <1>1, <2>1, <4>1 DEF EdgesOrdered
      <4>4. QED
        BY <4>2, <4>3
    <3>3. QED
      BY <3>1, <3>2
  <2>5. Certified(K, before, after)
    BY <1>5 DEF FrameHolds, PassedOver
  <2> HIDE DEF K
  <2>6. QED
    BY <2>2, <2>3, <2>4, <2>5, CertificateKept DEF K
<1>6. c # Root => before2[c] = f.invariant
  <2>1. c # Root => c \in Labels \ {h}
    BY <1>3, <1>4 DEF OrderFacts
  <2>2. QED
    BY <2>1 DEF FrameHolds
<1>7. ASSUME f.phase = "descending" PROVE Refinable(c, before2, after2)
  <2>1. PICK J \in [Members[c] -> SUBSET Values] :
          Closed(Members[c], J, after) /\ J[c] \subseteq Gamma(before[c])
    BY <1>7 DEF FrameHolds, Refinable
  <2>2. h \in Members[c]
    BY <1>1, <1>3, <1>7 DEF PartitionLabels, Site
  <2>3. Closed(Members[c], J, after2)
    <3>1. \A m : \A p \in parents_of(m) \ Members[c] : after2[p] = after[p]
      BY <2>2 DEF parents_of
    <3>2. QED
      BY <2>1, <3>1 DEF Closed
  <2>4. before2[c] = before[c]
    BY <1>3, <1>4, <1>7 DEF OrderFacts
  <2>5. QED
    BY <2>1, <2>3, <2>4 DEF Refinable
<1>8. QED
  BY <1>5, <1>6, <1>7 DEF FrameHolds, PassedOver

(* At the end of a pass over a partition, the certificates of its          *)
(* components and sets J0 that everything leads into, the head of the      *)
(* cycle aside, make a certificate of the whole.                           *)
Bounded(c, J0) ==
    LET K == PartitionLabels(c)
    IN  /\ J0 \in [K -> SUBSET Values]
        /\ Entry \in K => Gamma(EntryInv) \subseteq J0[Entry]
        /\ \A m \in K \ {Entry} : \A p \in parents_of(m) :
             IF p \in K
             THEN Steps(p, IF m = c THEN J0[p] \cap Gamma(pre[p]) ELSE J0[p]) \subseteq J0[m]
             ELSE Gamma(post[p]) \subseteq J0[m]
        /\ c \in K => J0[c] \subseteq Gamma(pre[c])

LEMMA PassCertifies ==
    ASSUME OrderFacts, EdgesOrdered, code \in Code, pre \in [Labels -> Domain],
           \A l \in Labels : post[l] = transform_to_post(l, pre[l]),
           NEW c \in DOMAIN components, NEW J0, Bounded(c, J0),
           \A i \in 1..Len(components[c]) :
             components[c][i] # Vertex(c) => Certified(LabelsOf(components[c][i]), pre, post)
    PROVE  \E J \in [PartitionLabels(c) -> SUBSET Values] :
             /\ Closed(PartitionLabels(c), J, post)
             /\ \A m \in PartitionLabels(c) : J[m] \subseteq Gamma(pre[m])
             /\ c \in PartitionLabels(c) => J[c] = J0[c]
<1> DEFINE K == PartitionLabels(c)
           n == Len(components[c])
           part(i) == LabelsOf(components[c][i])
           at(m) == CHOOSE i \in 1..n : m \in part(i)
           Fit(i, C) == /\ C \in [part(i) -> SUBSET Values] /\ Closed(part(i), C, post)
                        /\ \A m \in part(i) : C[m] \subseteq Gamma(pre[m])
           cert(i) == CHOOSE C : Fit(i, C)
           J == [m \in K |-> IF m = c THEN J0[c] ELSE J0[m] \cap cert(at(m))[m]]
<1>1. K \in SUBSET Labels /\ \A i \in 1..n : part(i) \subseteq K
  BY DEF PartitionLabels, LabelsOf
<1>2. \A m \in K : at(m) \in 1..n /\ m \in part(at(m))
  BY DEF PartitionLabels
<1>3. \A i, j \in 1..n : i # j => part(i) \cap part(j) = {}
  BY DEF EdgesOrdered
<1>4. /\ J0 \in [K -> SUBSET Values]
      /\ Entry \in K => Gamma(EntryInv) \subseteq J0[Entry]
      /\ \A m \in K \ {Entry} : \A p \in parents_of(m) :
           IF p \in K THEN Steps(p, IF m = c THEN J0[p] \cap Gamma(pre[p]) ELSE J0[p]) \subseteq J0[m]
                      ELSE Gamma(post[p]) \subseteq J0[m]
      /\ c \in K => J0[c] \subseteq Gamma(pre[c])
  BY DEF Bounded
<1> HIDE DEF K, n, part
<1>5. ASSUME NEW i \in 1..n, components[c][i] # Vertex(c)
      PROVE  Fit(i, cert(i))
  <2>1. \E C : Fit(i, C)
    BY <1>5 DEF Certified, n, part
  <2> HIDE DEF Fit
  <2>2. QED
    BY <2>1
<1>6. ASSUME NEW m \in K \ {c} PROVE components[c][at(m)] # Vertex(c)
  <2>1. at(m) \in 1..n /\ m \in part(at(m)) /\ m \in Labels
    BY <1>1, <1>2
  <2> HIDE DEF at
  <2>2. SUFFICES ASSUME components[c][at(m)] = Vertex(c) PROVE FALSE
    OBVIOUS
  <2>3. c \in Labels /\ LabelsOf(Vertex(c)) = {c}
    <3>1. m = c
      BY <2>1, <2>2 DEF part, LabelsOf, is_component_member, Vertex
    <3>2. QED
      BY <2>1, <3>1 DEF OrderFacts
  <2>4. QED
    BY <2>1, <2>2, <2>3 DEF part
<1>7. ASSUME NEW i \in 1..n, components[c][i] # Vertex(c) PROVE c \notin part(i)
  <2>1. CASE c = Root
    BY <1>1, <2>1 DEF OrderFacts
  <2>2. CASE c # Root
    <3>1. components[c][n] = Vertex(c) /\ part(n) = {c} /\ n \in 1..n
      BY <2>2 DEF OrderFacts, n, part
    <3>2. i # n
      BY <1>7, <3>1
    <3>3. QED
      BY <1>3, <3>1, <3>2
  <2>3. QED
    BY <2>1, <2>2
<1> HIDE DEF cert, at
<1>8. \A m \in K \ {c} : /\ cert(at(m)) \in [part(at(m)) -> SUBSET Values]
                         /\ Closed(part(at(m)), cert(at(m)), post)
                         /\ \A l \in part(at(m)) : cert(at(m))[l] \subseteq Gamma(pre[l])
  BY <1>2, <1>5, <1>6
<1> HIDE DEF Fit
<1>9. /\ J \in [K -> SUBSET Values] /\ (c \in K => J[c] = J0[c])
      /\ \A m \in K : J[m] \subseteq J0[m] /\ J[m] \subseteq Gamma(pre[m])
      /\ \A m \in K \ {c} : J[m] = J0[m] \cap cert(at(m))[m]
  BY <1>2, <1>4, <1>8
<1> HIDE DEF J
<1>10. Entry \in K => Gamma(EntryInv) \subseteq J[Entry]
  <2>1. CASE Entry = c
    BY <1>4, <1>9, <2>1
  <2>2. CASE Entry # c /\ Entry \in K
    <3>1. Gamma(EntryInv) \subseteq cert(at(Entry))[Entry]
      BY <1>2, <1>8, <2>2 DEF Closed
    <3>2. QED
      BY <1>4, <1>9, <2>2, <3>1
  <2>3. QED
    BY <2>1, <2>2
<1>11. ASSUME NEW m \in K \ {Entry}, NEW p \in parents_of(m)
       PROVE  IF p \in K THEN Steps(p, J[p]) \subseteq J[m] ELSE Gamma(post[p]) \subseteq J[m]
  <2>1. p \in Labels /\ pre[p] \in Domain
    BY DEF parents_of
  <2>2. CASE p \notin K
    <3>1. Gamma(post[p]) \subseteq J0[m]
      BY <1>4, <2>2
    <3>2. m # c => Gamma(post[p]) \subseteq cert(at(m))[m]
      BY <1>1, <1>2, <1>8, <2>2 DEF Closed
    <3>3. QED
      BY <1>9, <2>2, <3>1, <3>2
  <2>3. CASE p \in K /\ m = c
    <3>1. Steps(p, J[p]) \subseteq Steps(p, J0[p] \cap Gamma(pre[p]))
      BY <1>9, <2>3, StepsMonotone
    <3>2. QED
      BY <1>4, <1>9, <2>3, <3>1
  <2>4. CASE p \in K /\ m # c
    <3>1. Steps(p, J[p]) \subseteq J0[m]
      <4>1. Steps(p, J[p]) \subseteq Steps(p, J0[p])
        BY <1>9, <2>4, StepsMonotone
      <4>2. QED
        BY <1>4, <2>4, <4>1
    <3>2. CASE p \notin part(at(m))
      <4>1. Gamma(post[p]) \subseteq cert(at(m))[m]
        BY <1>2, <1>8, <2>4, <3>2 DEF Closed
      <4>2. Steps(p, J[p]) \subseteq Gamma(transform_to_post(p, pre[p]))
        BY <1>9, <2>1, <2>4, StepsCovered
      <4>3. QED
        BY <1>9, <2>1, <2>4, <3>1, <4>1, <4>2
    <3>3. CASE p \in part(at(m))
      <4>1. p # c
        BY <1>2, <1>6, <1>7, <2>4, <3>3
      <4>2. at(p) = at(m)
        BY <1>2, <1>3, <2>4, <3>3
      <4>3. Steps(p, J[p]) \subseteq Steps(p, cert(at(m))[p])
        BY <1>9, <2>4, <4>1, <4>2, StepsMonotone
      <4>4. Steps(p, cert(at(m))[p]) \subseteq cert(at(m))[m]
        BY <1>2, <1>8, <2>4, <3>3 DEF Closed
      <4>5. QED
        BY <1>9, <2>4, <3>1, <4>3, <4>4
    <3>4. QED
      BY <3>2, <3>3
  <2>5. QED
    BY <2>2, <2>3, <2>4
<1>12. Closed(K, J, post)
  BY <1>10, <1>11 DEF Closed
<1>13. QED
  BY <1>9, <1>12 DEF K

-----------------------------------------------------------------------------
(* The stack of frames: each is at the cycle the next one goes through.    *)
Stacked(fs) ==
    /\ fs \in Seq(FrameType) /\ fs # <<>>
    /\ fs[1].cycle = Root /\ fs[1].phase = "top"
    /\ \A k \in 1..Len(fs) : /\ fs[k].cycle \in DOMAIN components
                             /\ fs[k].pos <= Len(components[fs[k].cycle])
    /\ \A k \in 2..Len(fs) : fs[k].cycle \in CycleHeads /\ fs[k].phase # "top"
    /\ \A k \in 1..(Len(fs) - 1) : fs[k].pos > 0 /\ Site(fs[k]) = Cycle(fs[k + 1].cycle)
    /\ \A j, k \in 1..Len(fs) : j < k => Members[fs[k].cycle] \subseteq LabelsOf(Site(fs[j]))

LEMMA StackAdvances ==
    ASSUME OrderFacts, NEW fs, Stacked(fs), fs[Len(fs)].pos > 0
    PROVE  /\ Stacked(Advance(fs)) /\ Len(Advance(fs)) = Len(fs)
           /\ \A k \in 1..(Len(fs) - 1) : Advance(fs)[k] = fs[k]
           /\ Advance(fs)[Len(fs)] = [fs[Len(fs)] EXCEPT !.pos = @ - 1]
<1> DEFINE n == Len(fs)
           new == Advance(fs)
           last == [fs[n] EXCEPT !.pos = @ - 1]
<1>1. fs \in Seq(FrameType) /\ n \in 1..n /\ n \in Nat
  BY DEF Stacked
<1>2. /\ last \in FrameType /\ last.cycle = fs[n].cycle /\ last.phase = fs[n].phase
      /\ fs[n].pos \in Nat /\ last.pos = fs[n].pos - 1
  <2> DEFINE f == fs[n]
  <2>1. f \in FrameType /\ f.pos > 0
    BY <1>1
  <2> HIDE DEF f
  <2>2. QED
    BY <2>1 DEF FrameType, f
<1>3. new \in Seq(FrameType) /\ Len(new) = n /\ new[n] = last /\ \A k \in 1..(n - 1) : new[k] = fs[k]
  BY <1>1, <1>2 DEF Advance
<1>4. \A k \in 1..n : new[k].cycle = fs[k].cycle /\ new[k].phase = fs[k].phase
  <2> HIDE DEF new, last, n
  <2>1. \A k \in 1..n : k = n \/ k \in 1..(n - 1)
    BY <1>1
  <2>2. QED
    BY <1>2, <1>3, <2>1
<1>5. \A k \in 1..n : new[k].cycle \in DOMAIN components /\ new[k].pos <= Len(components[new[k].cycle])
  <2>1. fs[n].cycle \in DOMAIN components /\ fs[n].pos <= Len(components[fs[n].cycle])
    BY <1>1 DEF Stacked
  <2>2. Len(components[fs[n].cycle]) \in Int
    BY <1>2, <2>1 DEF OrderFacts
  <2> HIDE DEF new, last
  <2>3. new[n].pos <= Len(components[new[n].cycle])
    BY <1>2, <1>3, <2>1, <2>2
  <2>4. \A k \in 1..n : k = n \/ k \in 1..(n - 1)
    BY <1>1
  <2>5. \A k \in 1..(n - 1) : /\ new[k].cycle \in DOMAIN components
                               /\ new[k].pos <= Len(components[new[k].cycle])
    BY <1>1, <1>3 DEF Stacked
  <2>6. QED
    BY <1>2, <1>3, <2>1, <2>3, <2>4, <2>5
<1> HIDE DEF new, n
<1>6. n = 1 \/ n >= 2
  BY <1>1
<1>7. new[1].cycle = Root /\ new[1].phase = "top"
  BY <1>1, <1>4 DEF Stacked, n
<1>8. \A k \in 2..n : new[k].cycle \in CycleHeads /\ new[k].phase # "top"
  BY <1>1, <1>4 DEF Stacked, n
<1>9. \A k \in 1..(n - 1) : new[k].pos > 0 /\ Site(new[k]) = Cycle(new[k + 1].cycle)
  BY <1>1, <1>3, <1>4 DEF Stacked, n
<1>10. \A j, k \in 1..n : j < k => Members[new[k].cycle] \subseteq LabelsOf(Site(new[j]))
  <2>1. \A j, k \in 1..n : j < k => new[j] = fs[j]
    BY <1>1, <1>3
  <2>2. QED
    BY <1>1, <1>4, <2>1 DEF Stacked, n
<1>11. Stacked(new)
  BY <1>1, <1>3, <1>5, <1>7, <1>8, <1>9, <1>10 DEF Stacked
<1>12. QED
  BY <1>3, <1>11 DEF new, n

LEMMA StackPops ==
    ASSUME NEW fs, Stacked(fs), Len(fs) > 1
    PROVE  /\ Stacked(Front(fs)) /\ Len(Front(fs)) = Len(fs) - 1
           /\ \A k \in 1..(Len(fs) - 1) : Front(fs)[k] = fs[k]
<1> DEFINE n == Len(fs)
           new == Front(fs)
<1>1. fs \in Seq(FrameType) /\ n \in Nat /\ n > 1
  BY DEF Stacked
<1>2. new \in Seq(FrameType) /\ Len(new) = n - 1 /\ \A k \in 1..(n - 1) : new[k] = fs[k]
  BY <1>1 DEF Front
<1> HIDE DEF new
<1>3. /\ \A k \in 1..n : fs[k].cycle \in DOMAIN components /\ fs[k].pos <= Len(components[fs[k].cycle])
      /\ \A k \in 2..n : fs[k].cycle \in CycleHeads /\ fs[k].phase # "top"
      /\ \A k \in 1..(n - 1) : fs[k].pos > 0 /\ Site(fs[k]) = Cycle(fs[k + 1].cycle)
      /\ \A j, k \in 1..n : j < k => Members[fs[k].cycle] \subseteq LabelsOf(Site(fs[j]))
      /\ fs[1].cycle = Root /\ fs[1].phase = "top"
  BY DEF Stacked
<1> HIDE DEF n
<1>4. new # <<>> /\ new[1] = fs[1]
  BY <1>1, <1>2
<1> HIDE DEF Site
<1>5. \A k \in 1..Len(new) : k \in 1..(n - 1) /\ k \in 1..n /\ new[k] = fs[k]
  BY <1>1, <1>2
<1>6. \A k \in 2..Len(new) : k \in 2..n /\ new[k] = fs[k]
  BY <1>1, <1>2
<1>7. /\ \A k \in 1..Len(new) : /\ new[k].cycle \in DOMAIN components
                                /\ new[k].pos <= Len(components[new[k].cycle])
      /\ \A k \in 2..Len(new) : new[k].cycle \in CycleHeads /\ new[k].phase # "top"
  <2>1. \A k \in 1..Len(new) : /\ new[k].cycle \in DOMAIN components
                               /\ new[k].pos <= Len(components[new[k].cycle])
    BY <1>3, <1>5
  <2>2. \A k \in 2..Len(new) : new[k].cycle \in CycleHeads /\ new[k].phase # "top"
    BY <1>3, <1>6
  <2>3. QED
    BY <2>1, <2>2
<1>8. \A k \in 1..(Len(new) - 1) : new[k].pos > 0 /\ Site(new[k]) = Cycle(new[k + 1].cycle)
  <2>1. \A k \in 1..(Len(new) - 1) : k + 1 \in 1..(n - 1) /\ k \in 1..(n - 1)
    BY <1>1, <1>2
  <2>2. QED
    BY <1>1, <1>2, <1>3, <2>1
<1>9. \A j, k \in 1..Len(new) : j < k => Members[new[k].cycle] \subseteq LabelsOf(Site(new[j]))
  BY <1>3, <1>5
<1>10. Stacked(new)
  BY <1>2, <1>3, <1>4, <1>7, <1>8, <1>9 DEF Stacked
<1>11. QED
  BY <1>2, <1>10 DEF new, n

LEMMA StackPushes ==
    ASSUME OrderFacts, NEW fs, Stacked(fs), NEW c \in CycleHeads,
           fs[Len(fs)].pos > 0, Site(fs[Len(fs)]) = Cycle(c),
           NEW phase \in {"ascending", "descending"}, NEW iteration \in Nat, NEW a \in Domain
    PROVE  LET new == Append(fs, Frame(c, phase, iteration, a))
           IN  /\ Stacked(new) /\ Len(new) = Len(fs) + 1
               /\ \A k \in 1..Len(fs) : new[k] = fs[k]
               /\ new[Len(fs) + 1] = Frame(c, phase, iteration, a)
<1> DEFINE n == Len(fs)
           f == Frame(c, phase, iteration, a)
           new == Append(fs, f)
<1>1. fs \in Seq(FrameType) /\ n \in Nat /\ n \in 1..n
  BY DEF Stacked
<1>2. c \in DOMAIN components /\ Len(components[c]) \in Nat /\ c \in Cycles
  BY DEF OrderFacts, Cycles
<1>3. /\ f \in FrameType /\ f.cycle = c /\ f.pos = Len(components[c]) /\ f.phase = phase
  BY <1>2 DEF Frame, FrameType
<1> HIDE DEF f
<1>4. /\ new \in Seq(FrameType) /\ Len(new) = n + 1 /\ new # <<>>
      /\ new[n + 1] = f /\ \A k \in 1..n : new[k] = fs[k]
  BY <1>1, <1>3
<1> HIDE DEF new, n
<1>5. \A k \in 1..(n + 1) : new[k].cycle \in DOMAIN components /\ new[k].pos <= Len(components[new[k].cycle])
  BY <1>1, <1>2, <1>3, <1>4 DEF Stacked, n
<1>6. \A k \in 2..(n + 1) : new[k].cycle \in CycleHeads /\ new[k].phase # "top"
  BY <1>1, <1>3, <1>4 DEF Stacked, n
<1>7. \A k \in 1..n : new[k].pos > 0 /\ Site(new[k]) = Cycle(new[k + 1].cycle)
  <2>1. new[n].pos > 0 /\ Site(new[n]) = Cycle(new[n + 1].cycle)
    BY <1>1, <1>3, <1>4 DEF n
  <2>2. QED
    BY <1>1, <1>4, <2>1 DEF Stacked, n
<1>8. LabelsOf(Site(fs[n])) = Members[c]
  BY DEF OrderFacts, n
<1>9. \A j \in 1..(n - 1) : Members[c] \subseteq LabelsOf(Site(fs[j]))
  <2> SUFFICES ASSUME NEW j \in 1..(n - 1) PROVE Members[c] \subseteq LabelsOf(Site(fs[j]))
    OBVIOUS
  <2>1. /\ fs[n].cycle \in CycleHeads /\ Members[fs[n].cycle] \subseteq LabelsOf(Site(fs[j]))
        /\ fs[n].pos <= Len(components[fs[n].cycle]) /\ fs[n] \in FrameType
    <3>1. n \in 2..n /\ j \in 1..n /\ j < n
      BY <1>1
    <3>2. fs[n].cycle \in CycleHeads
      BY <3>1 DEF Stacked, n
    <3>3. Members[fs[n].cycle] \subseteq LabelsOf(Site(fs[j]))
      BY <1>1, <3>1 DEF Stacked, n
    <3>4. fs[n].pos <= Len(components[fs[n].cycle])
      BY <1>1 DEF Stacked, n
    <3>5. QED
      BY <1>1, <3>2, <3>3, <3>4 DEF n
  <2>2. LabelsOf(Site(fs[n])) \subseteq PartitionLabels(fs[n].cycle)
    <3>1. fs[n].pos \in 1..Len(components[fs[n].cycle])
      BY <2>1 DEF OrderFacts, n, FrameType
    <3>2. QED
      BY <3>1 DEF PartitionLabels, Site
  <2>3. QED
    BY <1>8, <2>1, <2>2 DEF OrderFacts
<1>10. \A j, k \in 1..(n + 1) : j < k => Members[new[k].cycle] \subseteq LabelsOf(Site(new[j]))
  <2> SUFFICES ASSUME NEW j \in 1..(n + 1), NEW k \in 1..(n + 1), j < k
               PROVE  Members[new[k].cycle] \subseteq LabelsOf(Site(new[j]))
    OBVIOUS
  <2>1. j \in 1..n /\ new[j] = fs[j]
    BY <1>1, <1>4
  <2>2. CASE k = n + 1
    <3>1. j = n \/ j \in 1..(n - 1)
      BY <1>1, <2>1
    <3>2. QED
      BY <1>3, <1>4, <1>8, <1>9, <2>1, <2>2, <3>1
  <2>3. CASE k # n + 1
    <3>1. k \in 1..n /\ new[k] = fs[k]
      BY <1>1, <1>4, <2>3
    <3>2. QED
      BY <2>1, <3>1 DEF Stacked, n
  <2>4. QED
    BY <2>2, <2>3
<1>11. new[1] = fs[1]
  BY <1>1, <1>4
<1>12. Stacked(new)
  <2>1. new[1].cycle = Root /\ new[1].phase = "top"
    BY <1>11 DEF Stacked
  <2>2. \A k \in 1..(Len(new) - 1) : new[k].pos > 0 /\ Site(new[k]) = Cycle(new[k + 1].cycle)
    BY <1>1, <1>4, <1>7
  <2>3. QED
    BY <1>4, <1>5, <1>6, <1>10, <2>1, <2>2 DEF Stacked
<1>13. QED
  BY <1>4, <1>12 DEF new, n, f

(* A label of the component that the innermost frame is at lies in the     *)
(* component of every frame; those of the outer frames are cycles.         *)
LEMMA InnerLabel ==
    ASSUME OrderFacts, NEW fs, Stacked(fs), fs[Len(fs)].pos > 0, NEW h \in LabelsOf(Site(fs[Len(fs)])),
           NEW k \in 1..Len(fs)
    PROVE  /\ fs[k] \in FrameType /\ fs[k].cycle \in DOMAIN components
           /\ fs[k].pos \in 1..Len(components[fs[k].cycle])
           /\ fs[k].phase = "descending" => fs[k].cycle # Root
           /\ h \in LabelsOf(Site(fs[k]))
           /\ k # Len(fs) => Site(fs[k]) # Vertex(fs[k].cycle)
<1> DEFINE n == Len(fs)
<1>1. /\ fs \in Seq(FrameType) /\ n \in Nat /\ n \in 1..n
      /\ \A j \in 1..n : /\ fs[j].cycle \in DOMAIN components
                         /\ fs[j].pos <= Len(components[fs[j].cycle])
  BY DEF Stacked
<1>2. ASSUME NEW j \in 1..n
      PROVE  fs[j] \in FrameType /\ fs[j].pos \in 1..Len(components[fs[j].cycle])
  <2>1. fs[j] \in FrameType /\ fs[j].pos <= Len(components[fs[j].cycle])
    BY <1>1
  <2>2. fs[j].pos \in Nat /\ Len(components[fs[j].cycle]) \in Nat
    BY <1>1, <2>1 DEF FrameType, OrderFacts
  <2>3. fs[j].pos > 0
    <3>1. j = n \/ j \in 1..(n - 1)
      BY <1>1
    <3>2. QED
      BY <3>1 DEF Stacked
  <2>4. QED
    BY <2>1, <2>2, <2>3
<1>3. fs[k].phase = "descending" => fs[k].cycle # Root
  <2>1. k = 1 \/ k \in 2..n
    BY <1>1
  <2>2. QED
    BY <2>1 DEF Stacked, OrderFacts
<1>4. ASSUME k # n
      PROVE  h \in LabelsOf(Site(fs[k])) /\ Site(fs[k]) # Vertex(fs[k].cycle)
  <2>1. n \in 2..n /\ k \in 1..n /\ k < n /\ k \in 1..(n - 1)
    BY <1>1, <1>4
  <2>2. fs[n].cycle \in CycleHeads /\ Members[fs[n].cycle] \subseteq LabelsOf(Site(fs[k]))
    BY <1>1, <2>1 DEF Stacked
  <2>3. h \in PartitionLabels(fs[n].cycle)
    BY <1>1, <1>2 DEF PartitionLabels, Site
  <2>4. Site(fs[k]) = Cycle(fs[k + 1].cycle)
    BY <2>1 DEF Stacked
  <2>5. \A a, b : Cycle(a) # Vertex(b)
    BY DEF Cycle, Vertex
  <2>6. QED
    BY <2>2, <2>3, <2>4, <2>5 DEF OrderFacts
<1>5. QED
  BY <1>1, <1>2, <1>3, <1>4

(* Storing an invariant: what it leaves.                                   *)
LEMMA StoredTyped ==
    ASSUME code \in Code, pre \in [Labels -> Domain], post \in [Labels -> Domain],
           NEW h \in Labels, NEW a \in Domain, SetInvariant(h, a)
    PROVE  /\ pre' \in [Labels -> Domain] /\ post' \in [Labels -> Domain]
           /\ pre'[h] = a /\ post'[h] = transform_to_post(h, a)
           /\ \A l \in Labels \ {h} : pre'[l] = pre[l] /\ post'[l] = post[l]
<1>1. transform_to_post(h, a) \in Domain
  <2>1. {} \subseteq Gamma(a)
    OBVIOUS
  <2>2. QED
    BY <2>1, StepsCovered
<1>2. QED
  BY <1>1 DEF SetInvariant

Holding(fs, before, after) ==
    Stacked(fs) /\ \A k \in 1..Len(fs) : FrameHolds(fs[k], before, after)

(* All frames hold when a label the innermost is at gets a new invariant.  *)
LEMMA StoreKeepsFrames ==
    ASSUME OrderFacts, EdgesOrdered, NEW fs, Holding(fs, pre, post),
           fs[Len(fs)].pos > 0, Site(fs[Len(fs)]) # Vertex(fs[Len(fs)].cycle),
           NEW h \in LabelsOf(Site(fs[Len(fs)])),
           NEW before, NEW after,
           \A l \in Labels \ {h} : before[l] = pre[l] /\ after[l] = post[l]
    PROVE  Holding(fs, before, after)
<1> SUFFICES ASSUME NEW k \in 1..Len(fs) PROVE FrameHolds(fs[k], before, after)
  BY DEF Holding
<1>1. Stacked(fs) /\ FrameHolds(fs[k], pre, post)
  BY DEF Holding
<1>2. /\ fs[k] \in FrameType /\ fs[k].cycle \in DOMAIN components
      /\ fs[k].pos \in 1..Len(components[fs[k].cycle])
      /\ fs[k].phase = "descending" => fs[k].cycle # Root
      /\ h \in LabelsOf(Site(fs[k]))
      /\ k # Len(fs) => Site(fs[k]) # Vertex(fs[k].cycle)
  BY <1>1, InnerLabel
<1>3. Site(fs[k]) # Vertex(fs[k].cycle)
  BY <1>2
<1> DEFINE f == fs[k]
<1>4. /\ f \in FrameType /\ f.cycle \in DOMAIN components /\ f.pos \in 1..Len(components[f.cycle])
      /\ f.phase = "descending" => f.cycle # Root
      /\ h \in LabelsOf(Site(f)) /\ Site(f) # Vertex(f.cycle) /\ FrameHolds(f, pre, post)
  BY <1>1, <1>2, <1>3
<1> HIDE DEF f
<1>5. FrameHolds(f, before, after)
  BY <1>4, FrameKept
<1>6. QED
  BY <1>5 DEF f

(* A frame passes over the component it is at.                             *)
LEMMA FrameAdvances ==
    ASSUME OrderFacts, NEW fs, NEW before, NEW after, Holding(fs, before, after), fs[Len(fs)].pos > 0,
           \/ Site(fs[Len(fs)]) = Vertex(fs[Len(fs)].cycle)
           \/ Certified(LabelsOf(Site(fs[Len(fs)])), before, after)
    PROVE  Holding(Advance(fs), before, after)
<1> DEFINE n == Len(fs)
           f == fs[n]
           g == [f EXCEPT !.pos = @ - 1]
<1>1. Stacked(fs) /\ n \in 1..n /\ fs \in Seq(FrameType) /\ f \in FrameType /\ f.pos > 0
      /\ f.cycle \in DOMAIN components
  <2>1. Stacked(fs)
    BY DEF Holding
  <2>2. fs \in Seq(FrameType) /\ fs # <<>>
    BY <2>1 DEF Stacked
  <2>3. n \in 1..n /\ f \in FrameType
    BY <2>2
  <2>4. f.cycle \in DOMAIN components
    BY <2>1, <2>3 DEF Stacked
  <2>5. QED
    BY <2>1, <2>2, <2>3, <2>4
<1>2. /\ Stacked(Advance(fs)) /\ Len(Advance(fs)) = n
      /\ \A k \in 1..(n - 1) : Advance(fs)[k] = fs[k]
      /\ Advance(fs)[n] = g
  BY <1>1, StackAdvances
<1>3. FrameHolds(f, before, after)
  BY <1>1 DEF Holding
<1>4. Site(f) = Vertex(f.cycle) \/ Certified(LabelsOf(Site(f)), before, after)
  OBVIOUS
<1> HIDE DEF n, f
<1>5. /\ g.cycle = f.cycle /\ g.phase = f.phase /\ g.invariant = f.invariant
      /\ g.pos = f.pos - 1 /\ f.pos \in Nat
  BY <1>1 DEF FrameType
<1>6. FrameHolds(g, before, after)
  <2> HIDE DEF g
  <2>1. \A i \in (g.pos + 1)..Len(components[f.cycle]) :
          i = f.pos \/ i \in (f.pos + 1)..Len(components[f.cycle])
    BY <1>1, <1>5 DEF OrderFacts
  <2>2. PassedOver(g, before, after)
    BY <1>3, <1>4, <1>5, <2>1 DEF FrameHolds, PassedOver, Site
  <2>3. QED
    BY <1>3, <1>5, <2>2 DEF FrameHolds
<1> HIDE DEF g
<1>7. \A k \in 1..n : k = n \/ k \in 1..(n - 1)
  BY <1>1
<1>8. \A k \in 1..n : FrameHolds(fs[k], before, after)
  BY DEF Holding, n
<1>9. QED
  BY <1>2, <1>6, <1>7, <1>8 DEF Holding

(* A cycle is entered, or gone through once more.                          *)
LEMMA FrameEnters ==
    ASSUME OrderFacts, NEW fs, NEW before, NEW after, Holding(fs, before, after),
           fs[Len(fs)].pos > 0, NEW c \in CycleHeads, Site(fs[Len(fs)]) = Cycle(c),
           NEW phase \in {"ascending", "descending"}, NEW iteration \in Nat, NEW a \in Domain,
           before[c] = a, phase = "descending" => Refinable(c, before, after)
    PROVE  LET new == Append(fs, Frame(c, phase, iteration, a))
           IN  Holding(new, before, after) /\ Len(new) = Len(fs) + 1
<1> DEFINE n == Len(fs)
           f == Frame(c, phase, iteration, a)
           new == Append(fs, f)
<1>1. Stacked(fs) /\ n \in Nat
  <2>1. Stacked(fs)
    BY DEF Holding
  <2>2. fs \in Seq(FrameType)
    BY <2>1 DEF Stacked
  <2>3. QED
    BY <2>1, <2>2
<1>2. Stacked(new) /\ Len(new) = n + 1 /\ (\A k \in 1..n : new[k] = fs[k]) /\ new[n + 1] = f
  BY <1>1, StackPushes
<1>3. f.cycle = c /\ f.phase = phase /\ f.invariant = a /\ f.pos = Len(components[c])
  BY DEF Frame
<1>4. Len(components[c]) \in Nat
  BY DEF OrderFacts
<1> HIDE DEF f, new
<1>5. FrameHolds(f, before, after)
  BY <1>3, <1>4 DEF FrameHolds, PassedOver
<1>6. \A k \in 1..n : FrameHolds(fs[k], before, after)
  BY DEF Holding
<1> HIDE DEF n
<1>7. \A k \in 1..(n + 1) : k = n + 1 \/ k \in 1..n
  BY <1>1
<1>8. Holding(new, before, after)
  BY <1>2, <1>5, <1>6, <1>7 DEF Holding
<1>9. QED
  BY <1>2, <1>8 DEF new, f, n

LEMMA FramePops ==
    ASSUME NEW fs, NEW before, NEW after, Holding(fs, before, after), Len(fs) > 1
    PROVE  /\ Holding(Front(fs), before, after) /\ Len(Front(fs)) = Len(fs) - 1
           /\ fs[Len(fs)].cycle \in CycleHeads
           /\ Front(fs)[Len(Front(fs))].pos > 0
           /\ Site(Front(fs)[Len(Front(fs))]) = Cycle(fs[Len(fs)].cycle)
<1> DEFINE n == Len(fs)
           new == Front(fs)
<1>1. Stacked(fs)
  BY DEF Holding
<1>2. fs \in Seq(FrameType) /\ n \in Nat /\ n \in 2..n /\ n - 1 \in 1..(n - 1) /\ n - 1 + 1 = n
  BY <1>1 DEF Stacked
<1>3. Stacked(new) /\ Len(new) = n - 1 /\ \A k \in 1..(n - 1) : new[k] = fs[k]
  BY <1>1, StackPops
<1>4. fs[n].cycle \in CycleHeads /\ fs[n - 1].pos > 0 /\ Site(fs[n - 1]) = Cycle(fs[n].cycle)
  BY <1>1, <1>2 DEF Stacked
<1> HIDE DEF new
<1>5. \A k \in 1..(n - 1) : FrameHolds(fs[k], before, after)
  BY <1>2 DEF Holding
<1>6. Holding(new, before, after)
  BY <1>3, <1>5 DEF Holding
<1>7. QED
  BY <1>2, <1>3, <1>4, <1>6 DEF new

(* What there is to say of the invariants besides the frames.              *)
Stored == /\ code \in Code /\ assume_assertions \in BOOLEAN
          /\ pre \in [Labels -> Domain] /\ post \in [Labels -> Domain]
          /\ pre[Entry] = EntryInv

Followed == \A l \in Labels : post[l] = transform_to_post(l, pre[l])

LEMMA CycleLabels ==
    ASSUME OrderFacts, NEW c \in CycleHeads
    PROVE  /\ c \in Labels /\ c \in DOMAIN components
           /\ Members[c] = PartitionLabels(c) /\ c \in Members[c] /\ LabelsOf(Cycle(c)) = Members[c]
<1> DEFINE n == Len(components[c])
<1>1. c \in Labels /\ c \in DOMAIN components /\ Members[c] = PartitionLabels(c)
      /\ LabelsOf(Cycle(c)) = Members[c]
  BY DEF OrderFacts
<1>2. n \in 1..n
  BY <1>1 DEF OrderFacts
<1>3. LabelsOf(components[c][n]) = {c}
  BY <1>1 DEF OrderFacts
<1> HIDE DEF n
<1>4. c \in PartitionLabels(c)
  BY <1>2, <1>3 DEF PartitionLabels, n
<1>5. QED
  BY <1>1, <1>4

(* What comes back to the head of a cycle.                                 *)
LEMMA ReturnsCovered ==
    ASSUME Stored, Followed, NEW c \in Labels
    PROVE  /\ join_all_prevs(c) \in Domain
           /\ Entry = c => join_all_prevs(c) = EntryInv
           /\ c # Entry => \A p \in parents_of(c) :
                             /\ Gamma(post[p]) \subseteq Gamma(join_all_prevs(c))
                             /\ \A X : X \subseteq Gamma(pre[p]) =>
                                          Steps(p, X) \subseteq Gamma(join_all_prevs(c))
<1>1. /\ join_all_prevs(c) \in Domain
      /\ Entry = c => join_all_prevs(c) = EntryInv
      /\ c # Entry => \A p \in parents_of(c) : Gamma(post[p]) \subseteq Gamma(join_all_prevs(c))
  BY PrevsCovered DEF Stored
<1>2. ASSUME c # Entry, NEW p \in parents_of(c), NEW X, X \subseteq Gamma(pre[p])
      PROVE  Steps(p, X) \subseteq Gamma(join_all_prevs(c))
  <2>1. p \in Labels /\ pre[p] \in Domain
    BY DEF parents_of, Stored
  <2>2. Steps(p, X) \subseteq Gamma(transform_to_post(p, pre[p]))
    BY <1>2, <2>1, StepsCovered DEF Stored
  <2>3. QED
    BY <1>1, <1>2, <2>1, <2>2 DEF Followed
<1>3. QED
  BY <1>1, <1>2

(* The increasing iterations end: what comes back to the head is covered   *)
(* by its invariant, whose labels are then certified.                      *)
LEMMA AscentCertifies ==
    ASSUME OrderFacts, EdgesOrdered, Stored, Followed, NEW c \in CycleHeads,
           Gamma(join_all_prevs(c)) \subseteq Gamma(pre[c]),
           \A i \in 1..Len(components[c]) :
             components[c][i] # Vertex(c) => Certified(LabelsOf(components[c][i]), pre, post)
    PROVE  \E J \in [Members[c] -> SUBSET Values] :
             Closed(Members[c], J, post) /\ J[c] = Gamma(join_all_prevs(c))
<1> DEFINE K == Members[c]
           G == Gamma(join_all_prevs(c))
           J0 == [m \in K |-> IF m = c THEN G ELSE Values]
<1>1. c \in Labels /\ c \in DOMAIN components /\ K = PartitionLabels(c) /\ c \in K
  BY CycleLabels
<1>2. /\ join_all_prevs(c) \in Domain
      /\ Entry = c => G = Gamma(EntryInv)
      /\ c # Entry => \A p \in parents_of(c) :
                        /\ Gamma(post[p]) \subseteq G
                        /\ \A X : X \subseteq Gamma(pre[p]) => Steps(p, X) \subseteq G
  BY <1>1, ReturnsCovered
<1>3. G \subseteq Values /\ Gamma(EntryInv) \subseteq Values
  BY <1>2, DomainAssumption, ValuesAssumption
<1> HIDE DEF G
<1>4. J0 \in [K -> SUBSET Values] /\ J0[c] = G /\ \A m \in K \ {c} : J0[m] = Values
  BY <1>1, <1>3
<1> HIDE DEF K, J0
<1>5. Entry \in K => Gamma(EntryInv) \subseteq J0[Entry]
  BY <1>2, <1>3, <1>4
<1>6. ASSUME NEW m \in K \ {Entry}, NEW p \in parents_of(m)
      PROVE  IF p \in K THEN Steps(p, IF m = c THEN J0[p] \cap Gamma(pre[p]) ELSE J0[p]) \subseteq J0[m]
                        ELSE Gamma(post[p]) \subseteq J0[m]
  <2>1. p \in Labels /\ Gamma(post[p]) \subseteq Values
    <3>1. p \in Labels /\ post[p] \in Domain
      BY DEF parents_of, Stored
    <3>2. QED
      BY <3>1, ValuesAssumption
  <2>2. CASE m = c
    BY <1>2, <1>4, <1>6, <2>2
  <2>3. CASE m # c
    <3>1. p \in K => Steps(p, J0[p]) \subseteq Values
      <4>1. p \in K => J0[p] \in SUBSET Values
        BY <1>4
      <4>2. QED
        BY <2>1, <4>1, StepsTyped DEF Stored
    <3>2. QED
      BY <1>4, <2>1, <2>3, <3>1
  <2>4. QED
    BY <2>2, <2>3
<1>7. Bounded(c, J0)
  <2>1. c \in K => J0[c] \subseteq Gamma(pre[c])
    BY <1>4 DEF G
  <2>2. PartitionLabels(c) = K
    BY <1>1
  <2>3. QED
    BY <1>4, <1>5, <1>6, <2>1, <2>2 DEF Bounded
<1>8. PICK J \in [PartitionLabels(c) -> SUBSET Values] :
        /\ Closed(PartitionLabels(c), J, post)
        /\ c \in PartitionLabels(c) => J[c] = J0[c]
  BY <1>1, <1>7, PassCertifies DEF Stored, Followed
<1>9. QED
  BY <1>1, <1>4, <1>8 DEF K, G

(* A decreasing iteration: the sets that keep it sound shrink with what    *)
(* comes back to the head, and the labels of the cycle are certified.      *)
LEMMA DescentCertifies ==
    ASSUME OrderFacts, EdgesOrdered, Stored, Followed, NEW c \in CycleHeads,
           Refinable(c, pre, post),
           \A i \in 1..Len(components[c]) :
             components[c][i] # Vertex(c) => Certified(LabelsOf(components[c][i]), pre, post)
    PROVE  \E J \in [Members[c] -> SUBSET Values] :
             /\ Closed(Members[c], J, post)
             /\ \A m \in Members[c] : J[m] \subseteq Gamma(pre[m])
             /\ c \in Members[c] /\ J[c] \subseteq Gamma(join_all_prevs(c))
<1> DEFINE K == Members[c]
           G == Gamma(join_all_prevs(c))
<1>1. c \in Labels /\ c \in DOMAIN components /\ K = PartitionLabels(c) /\ c \in K
  BY CycleLabels
<1>2. PICK J1 \in [K -> SUBSET Values] : Closed(K, J1, post) /\ J1[c] \subseteq Gamma(pre[c])
  BY DEF Refinable
<1> DEFINE J0 == [m \in K |-> IF m = c THEN J1[c] \cap G ELSE J1[m]]
<1>3. /\ join_all_prevs(c) \in Domain
      /\ Entry = c => G = Gamma(EntryInv)
      /\ c # Entry => \A p \in parents_of(c) :
                        /\ Gamma(post[p]) \subseteq G
                        /\ \A X : X \subseteq Gamma(pre[p]) => Steps(p, X) \subseteq G
  BY <1>1, ReturnsCovered
<1> HIDE DEF G
<1>4. /\ J0 \in [K -> SUBSET Values] /\ J0[c] = J1[c] \cap G
      /\ \A m \in K : J0[m] \subseteq J1[m]
      /\ \A m \in K \ {c} : J0[m] = J1[m]
  BY <1>1, <1>2
<1> HIDE DEF K, J0
<1>5. Entry \in K => Gamma(EntryInv) \subseteq J0[Entry]
  BY <1>2, <1>3, <1>4 DEF Closed
<1>6. ASSUME NEW m \in K \ {Entry}, NEW p \in parents_of(m)
      PROVE  IF p \in K THEN Steps(p, IF m = c THEN J0[p] \cap Gamma(pre[p]) ELSE J0[p]) \subseteq J0[m]
                        ELSE Gamma(post[p]) \subseteq J0[m]
  <2>1. IF p \in K THEN Steps(p, J1[p]) \subseteq J1[m] ELSE Gamma(post[p]) \subseteq J1[m]
    BY <1>2 DEF Closed
  <2>2. CASE m = c
    <3>1. CASE p \in K
      <4> DEFINE X == J0[p] \cap Gamma(pre[p])
      <4>1. X \subseteq J1[p] /\ X \subseteq Gamma(pre[p])
        BY <1>4, <3>1
      <4> HIDE DEF X
      <4>2. Steps(p, X) \subseteq Steps(p, J1[p])
        BY <4>1, StepsMonotone
      <4>3. Steps(p, X) \subseteq G
        BY <1>3, <1>6, <2>2, <4>1
      <4>4. Steps(p, X) \subseteq J0[m]
        BY <1>4, <2>1, <2>2, <3>1, <4>2, <4>3
      <4>5. QED
        BY <2>2, <3>1, <4>4 DEF X
    <3>2. CASE p \notin K
      BY <1>3, <1>4, <1>6, <2>1, <2>2, <3>2
    <3>3. QED
      BY <3>1, <3>2
  <2>3. CASE m # c
    <3>1. p \in K => Steps(p, J0[p]) \subseteq Steps(p, J1[p])
      BY <1>4, StepsMonotone
    <3>2. QED
      BY <1>4, <2>1, <2>3, <3>1
  <2>4. QED
    BY <2>2, <2>3
<1>7. Bounded(c, J0)
  <2>1. c \in K => J0[c] \subseteq Gamma(pre[c])
    BY <1>2, <1>4
  <2>2. PartitionLabels(c) = K
    BY <1>1
  <2>3. QED
    BY <1>4, <1>5, <1>6, <2>1, <2>2 DEF Bounded
<1>8. PICK J \in [PartitionLabels(c) -> SUBSET Values] :
        /\ Closed(PartitionLabels(c), J, post)
        /\ \A m \in PartitionLabels(c) : J[m] \subseteq Gamma(pre[m])
        /\ c \in PartitionLabels(c) => J[c] = J0[c]
  BY <1>1, <1>7, PassCertifies DEF Stored, Followed
<1>9. QED
  BY <1>1, <1>4, <1>8 DEF K, G

-----------------------------------------------------------------------------
(* A label is in one component of a partition only.                        *)
LEMMA OneComponent ==
    ASSUME EdgesOrdered, NEW c \in DOMAIN components,
           NEW i \in 1..Len(components[c]), NEW j \in 1..Len(components[c]), NEW l,
           l \in LabelsOf(components[c][i]), l \in LabelsOf(components[c][j])
    PROVE  i = j
BY DEF EdgesOrdered

(* The entry is what the visits begin with.                                *)
EntryFirst(fs, skipping) ==
    /\ skipping => Len(fs) = 1
    /\ Len(fs) = 1 => (skipping <=> fs[1].pos = Len(components[Root]))

AnInv ==
    /\ Inv
    /\ Stored
    /\ frames = <<>> => skip
    /\ frames # <<>> => Built /\ Holding(frames, pre, post) /\ EntryFirst(frames, skip)

LEMMA FrozenHolding ==
    ASSUME UNCHANGED <<vars, code, assume_assertions>>, Holding(frames', pre', post')
    PROVE  Holding(frames, pre, post)'
<1>1. \A k : FrameHolds(frames'[k], pre', post') => FrameHolds(frames[k], pre, post)'
  BY FrozenFrame
<1>2. Stacked(frames)'
  <2>1. components' = components /\ parent' = parent
    BY DEF vars, builderVars
  <2>2. Stacked(frames')
    BY DEF Holding
  <2>3. QED
    BY <2>1, <2>2, FrozenNotions DEF Stacked, Site, CycleHeads
<1>3. QED
  BY <1>1, <1>2 DEF Holding

LEMMA TopFrame ==
    ASSUME OrderFacts, AnInv, frames # <<>>
    PROVE  /\ Holding(frames, pre, post) /\ Stacked(frames) /\ Len(frames) \in Nat
           /\ Top = frames[Len(frames)] /\ Top \in FrameType /\ FrameHolds(Top, pre, post)
           /\ Top.cycle \in DOMAIN components /\ Top.pos <= Len(components[Top.cycle])
           /\ Top.pos \in Nat
           /\ \/ Len(frames) = 1 /\ Top.cycle = Root /\ Top.phase = "top" /\ frames[1] = Top
              \/ Len(frames) > 1 /\ Top.cycle \in CycleHeads /\ Top.phase # "top" /\ ~ skip
           /\ skip <=> Len(frames) = 1 /\ Top.pos = Len(components[Root])
<1> DEFINE n == Len(frames)
<1>1. Holding(frames, pre, post) /\ EntryFirst(frames, skip)
  BY DEF AnInv
<1>2. Stacked(frames)
  BY <1>1 DEF Holding
<1>3. frames \in Seq(FrameType) /\ n \in Nat /\ n \in 1..n
  BY <1>2 DEF Stacked
<1>4. Top = frames[n] /\ Top \in FrameType
  BY <1>3 DEF Top, Last
<1>5. FrameHolds(Top, pre, post) /\ Top.cycle \in DOMAIN components /\ Top.pos <= Len(components[Top.cycle])
  BY <1>1, <1>2, <1>3, <1>4 DEF Holding, Stacked
<1>6. Top.pos \in Nat
  BY <1>4 DEF FrameType
<1>7. CASE n = 1
  BY <1>1, <1>2, <1>3, <1>4, <1>5, <1>6, <1>7 DEF Stacked, EntryFirst
<1>8. CASE n # 1
  <2>1. n \in 2..n /\ n > 1
    <3> HIDE DEF n
    <3>1. QED
      BY <1>3, <1>8
  <2>2. Top.cycle \in CycleHeads /\ Top.phase # "top" /\ ~ skip
    BY <1>1, <1>2, <1>4, <1>8, <2>1 DEF Stacked, EntryFirst
  <2>3. QED
    BY <1>1, <1>2, <1>3, <1>4, <1>5, <1>6, <2>1, <2>2
<1>9. QED
  BY <1>7, <1>8

LEMMA WhenFollowed ==
    ASSUME AnInv, ~ skip
    PROVE  Followed
BY DEF AnInv, Inv, PostFollowsPre, Followed

(* The component visited.                                                  *)
LEMMA VisitedComponent ==
    ASSUME OrderFacts, AnInv, NEW component \in Component, Visiting(component)
    PROVE  /\ frames # <<>> /\ Top.pos > 0 /\ component = Site(Top) /\ component.label \in Labels
           /\ Top.pos \in 1..Len(components[Top.cycle])
           /\ ~ component.cycle => component = Vertex(component.label)
           /\ component.cycle => component = Cycle(component.label) /\ component.label \in CycleHeads
           /\ skip => component.label = Entry
<1>1. frames # <<>> /\ Top.pos > 0 /\ component = Site(Top) /\ component.label \in Labels
  BY DEF Visiting, Site, Component
<1>2. Top.cycle \in DOMAIN components /\ Top.pos \in 1..Len(components[Top.cycle])
  BY <1>1, TopFrame DEF OrderFacts
<1>3. \/ component = Vertex(component.label)
      \/ component = Cycle(component.label) /\ component.label \in CycleHeads
  BY <1>1, <1>2 DEF OrderFacts, Site
<1>4. component = Vertex(component.label) => ~ component.cycle
  <2>1. \A l : ~ Vertex(l).cycle
    BY DEF Vertex
  <2>2. QED
    BY <2>1, Zenon
<1>5. component = Cycle(component.label) => component.cycle
  <2>1. \A l : Cycle(l).cycle
    BY DEF Cycle
  <2>2. QED
    BY <2>1, Zenon
<1>6. skip => component.label = Entry
  BY <1>1, TopFrame DEF OrderFacts, Site
<1>7. QED
  BY <1>1, <1>2, <1>3, <1>4, <1>5, <1>6

LEMMA EntryLeadsHolds ==
    ASSUME OrderFacts, AnInv
    PROVE  EntryLeads
<1>1. ASSUME NEW component \in Component, skip, Visiting(component), component.cycle
      PROVE  CycleHead(component.label) = Entry
  BY <1>1, VisitedComponent DEF OrderFacts
<1>2. QED
  BY <1>1 DEF EntryLeads

(* What a step of the analysis is to keep.                                 *)
Kept == /\ pre' \in [Labels -> Domain] /\ post' \in [Labels -> Domain] /\ pre'[Entry] = EntryInv
        /\ frames' # <<>> /\ Holding(frames', pre', post') /\ EntryFirst(frames', skip')

LEMMA PassHeadKeeps ==
    ASSUME OrderFacts, AnInv, NEW component \in Component, PassHead(component)
    PROVE  Kept
<1>1. /\ Visiting(component) /\ ~ component.cycle /\ Top.cycle # Root
      /\ component.label = CycleHead(Top.cycle) /\ frames' = Advance(frames)
      /\ pre' = pre /\ post' = post /\ skip' = skip
  BY DEF PassHead, IsHeadOf
<1>2. /\ frames # <<>> /\ Top.pos > 0 /\ component = Site(Top)
      /\ component = Vertex(component.label)
  BY <1>1, VisitedComponent
<1>3. /\ Holding(frames, pre, post) /\ Stacked(frames) /\ Top = frames[Len(frames)]
      /\ Len(frames) > 1 /\ Top.cycle \in CycleHeads /\ ~ skip
  BY <1>1, <1>2, TopFrame
<1>4. Site(Top) = Vertex(Top.cycle)
  BY <1>1, <1>2, <1>3 DEF OrderFacts
<1>5. Holding(Advance(frames), pre, post) /\ Len(Advance(frames)) = Len(frames)
  BY <1>2, <1>3, <1>4, FrameAdvances, StackAdvances
<1>6. Len(frames') # 1 /\ frames' # <<>>
  BY <1>1, <1>3, <1>5 DEF Holding, Stacked
<1>7. QED
  BY <1>1, <1>3, <1>5, <1>6 DEF Kept, EntryFirst, AnInv, Stored

LEMMA VisitLabelKeeps ==
    ASSUME OrderFacts, EdgesOrdered, AnInv, NEW component \in Component, VisitLabel(component)
    PROVE  Kept
<1> DEFINE l == component.label
           a == join_all_prevs(l)
           n == Len(frames)
<1>1. /\ Visiting(component) /\ ~ component.cycle /\ ~ IsHeadOf(l, Top.cycle)
      /\ skip' = (skip /\ l # Entry) /\ frames' = Advance(frames)
      /\ ~ skip' => SetInvariant(l, a)
  BY DEF VisitLabel
<1>2. /\ frames # <<>> /\ Top.pos > 0 /\ component = Site(Top) /\ l \in Labels
      /\ Top.pos \in 1..Len(components[Top.cycle])
      /\ component = Vertex(l) /\ (skip => l = Entry)
  BY <1>1, VisitedComponent
<1>3. skip' = FALSE /\ SetInvariant(l, a)
  BY <1>1, <1>2
<1>4. /\ Holding(frames, pre, post) /\ Stacked(frames) /\ Top = frames[n] /\ n \in Nat
      /\ Top.pos <= Len(components[Top.cycle]) /\ Top.pos \in Nat
      /\ Top.cycle \in DOMAIN components
      /\ n = 1 => Top.cycle = Root
  BY <1>2, TopFrame
<1>5. l # Top.cycle
  BY <1>1, <1>2, <1>4 DEF IsHeadOf, OrderFacts
<1>6. Site(Top) # Vertex(Top.cycle) /\ LabelsOf(Site(Top)) = {l}
  <2>1. \A c : Vertex(c).label = c
    BY DEF Vertex
  <2>2. Vertex(l) # Vertex(Top.cycle)
    BY <1>5, <2>1
  <2>3. QED
    BY <1>2, <2>2 DEF OrderFacts
<1>7. code \in Code /\ pre \in [Labels -> Domain] /\ post \in [Labels -> Domain] /\ pre[Entry] = EntryInv
  BY DEF AnInv, Stored
<1>8. /\ a \in Domain /\ (l = Entry => a = EntryInv)
      /\ l # Entry => \A p \in parents_of(l) : Gamma(post[p]) \subseteq Gamma(a)
  BY <1>2, <1>7, PrevsCovered
<1> HIDE DEF l, a, n
<1>9. /\ pre' \in [Labels -> Domain] /\ post' \in [Labels -> Domain] /\ pre'[l] = a
      /\ \A k \in Labels \ {l} : pre'[k] = pre[k] /\ post'[k] = post[k]
  BY <1>2, <1>3, <1>7, <1>8, StoredTyped
<1>10. pre'[Entry] = EntryInv
  BY <1>7, <1>8, <1>9, LabelsAssumption
<1>11. Holding(frames, pre', post')
  <2>1. l \in LabelsOf(Site(frames[Len(frames)]))
    BY <1>4, <1>6 DEF n
  <2>2. QED
    BY <1>2, <1>4, <1>6, <1>9, <2>1, StoreKeepsFrames DEF n
<1>12. Certified({l}, pre', post')
  <2> DEFINE J == [m \in {l} |-> Gamma(a)]
  <2>1. Gamma(a) \subseteq Values
    BY <1>8, ValuesAssumption
  <2>2. J \in [{l} -> SUBSET Values] /\ J[l] = Gamma(a)
    BY <2>1
  <2>3. l \notin parents_of(l)
    <3>1. l \in LabelsOf(components[Top.cycle][Top.pos])
      BY <1>6 DEF Site
    <3>2. ~ components[Top.cycle][Top.pos].cycle
      BY <1>1, <1>2 DEF Site
    <3>3. ~ (Top.pos > Top.pos)
      BY <1>4
    <3>4. QED
      BY <1>2, <1>4, <1>5, <3>1, <3>2, <3>3 DEF EdgesOrdered
  <2> HIDE DEF J
  <2>4. Closed({l}, J, post')
    <3>1. \A p \in parents_of(l) : p \in Labels \ {l}
      BY <2>3 DEF parents_of
    <3>2. QED
      BY <1>8, <1>9, <2>2, <3>1 DEF Closed
  <2>5. QED
    BY <1>9, <2>2, <2>4 DEF Certified
<1>13. Holding(Advance(frames), pre', post')
  BY <1>2, <1>4, <1>6, <1>11, <1>12, FrameAdvances DEF n
<1>14. Len(Advance(frames)) = n /\ Advance(frames)[n] = [Top EXCEPT !.pos = @ - 1]
  BY <1>2, <1>4, StackAdvances DEF n
<1>15. Top \in FrameType
  BY <1>2, TopFrame
<1>16. EntryFirst(Advance(frames), FALSE)
  <2>1. Advance(frames)[n].pos = Top.pos - 1
    BY <1>14, <1>15 DEF FrameType
  <2>2. n = 1 => Top.pos - 1 # Len(components[Root])
    BY <1>4 DEF OrderFacts
  <2>3. QED
    BY <1>14, <2>1, <2>2 DEF EntryFirst
<1>17. frames' # <<>>
  BY <1>1, <1>13 DEF Holding, Stacked
<1>18. QED
  BY <1>1, <1>3, <1>9, <1>10, <1>13, <1>16, <1>17 DEF Kept

(* The cycle of the entry is visited only once, first.                     *)
LEMMA EntryCycleFirst ==
    ASSUME OrderFacts, EdgesOrdered, AnInv, frames # <<>>, Top.pos > 0, Site(Top) = Cycle(Entry),
           Entry \in CycleHeads
    PROVE  skip
<1> DEFINE n == Len(frames)
           e(c, i) == components[c][i]
           last(c) == Len(components[c])
<1>1. Stacked(frames) /\ n \in Nat /\ Top = frames[n]
  BY TopFrame
<1>2. Entry \in LabelsOf(Site(frames[n]))
  BY <1>1, CycleLabels
<1>3. \A k \in 1..n : /\ frames[k].cycle \in DOMAIN components
                      /\ frames[k].pos \in 1..Len(components[frames[k].cycle])
                      /\ Entry \in LabelsOf(Site(frames[k]))
                      /\ k # n => Site(frames[k]) # Vertex(frames[k].cycle)
  BY <1>1, <1>2, InnerLabel
<1>4. \A c, d : Cycle(c) # Vertex(d) /\ Cycle(c).label = c /\ Vertex(c).label = c
  BY DEF Cycle, Vertex
<1>5. 1 \in 1..n /\ frames[1].cycle = Root
  BY <1>1 DEF Stacked
<1>6. Entry \in LabelsOf(e(Root, last(Root))) /\ last(Root) \in 1..last(Root)
  <2>1. /\ Root \in DOMAIN components /\ last(Root) \in 1..last(Root)
        /\ e(Root, last(Root)).label = Entry
    BY DEF OrderFacts
  <2>2. e(Root, last(Root)) = Vertex(Entry) \/ e(Root, last(Root)) = Cycle(Entry)
    BY <2>1 DEF OrderFacts
  <2>3. QED
    BY <2>1, <2>2, CycleLabels, LabelsAssumption DEF OrderFacts
<1>7. frames[1].pos = last(Root)
  <2>1. /\ Root \in DOMAIN components /\ frames[1].pos \in 1..Len(components[Root])
        /\ Entry \in LabelsOf(components[Root][frames[1].pos])
    BY <1>3, <1>5 DEF Site
  <2>2. QED
    BY <1>6, <2>1, OneComponent
<1>8. CASE n = 1
  BY <1>1, <1>7, <1>8, TopFrame
<1>9. CASE n # 1
  <2>1. 2 \in 1..n /\ 2 \in 2..n /\ 1 \in 1..(n - 1) /\ 1 + 1 = 2
    <3> HIDE DEF n
    <3>1. QED
      BY <1>1, <1>5, <1>9
  <2>2. Site(frames[1]) = Cycle(frames[2].cycle) /\ frames[2].cycle \in CycleHeads
    BY <1>1, <2>1 DEF Stacked
  <2>3. frames[2].cycle = Entry
    <3>1. Site(frames[1]).label = Entry
      BY <1>5, <1>7 DEF OrderFacts, Site
    <3>2. QED
      BY <1>4, <2>2, <3>1
  <2>4. e(Entry, last(Entry)) = Vertex(Entry) /\ last(Entry) \in 1..last(Entry)
        /\ Entry \in DOMAIN components
    BY DEF OrderFacts
  <2>5. frames[2].pos # last(Entry)
    <3>1. Site(frames[2]) # Vertex(Entry)
      BY <1>1, <1>3, <1>4, <2>1, <2>3
    <3>2. QED
      BY <2>3, <2>4, <3>1 DEF Site
  <2>6. Entry \in LabelsOf(e(Entry, frames[2].pos)) /\ frames[2].pos \in 1..last(Entry)
    BY <1>3, <2>1, <2>3 DEF Site
  <2>7. Entry \in LabelsOf(e(Entry, last(Entry)))
    BY <2>4, LabelsAssumption DEF OrderFacts
  <2>8. QED
    BY <2>4, <2>5, <2>6, <2>7, OneComponent
<1>10. QED
  BY <1>8, <1>9

LEMMA VisitCycleKeeps ==
    ASSUME OrderFacts, EdgesOrdered, AnInv, NEW component \in Component, VisitCycle(component)
    PROVE  Kept
<1> DEFINE c == component.label
           entered == skip /\ is_component_member(Entry, component)
           a == InitialInvariant(c, entered)
           n == Len(frames)
           new == Append(frames, Frame(c, "ascending", 1, a))
<1>1. /\ Visiting(component) /\ component.cycle
      /\ skip' = (skip /\ ~ entered)
      /\ ~ skip' => frames' = new /\ SetInvariant(CycleHead(c), a)
  BY DEF VisitCycle
<1>2. /\ frames # <<>> /\ Top.pos > 0 /\ component = Site(Top) /\ c \in Labels
      /\ component = Cycle(c) /\ c \in CycleHeads /\ (skip => c = Entry)
  BY <1>1, VisitedComponent
<1>3. skip => entered
  <2>1. skip => Entry \in LabelsOf(component)
    BY <1>2, CycleLabels
  <2>2. QED
    BY <2>1 DEF LabelsOf
<1>4. skip' = FALSE /\ frames' = new /\ SetInvariant(c, a)
  BY <1>1, <1>2, <1>3 DEF OrderFacts
<1>5. code \in Code /\ pre \in [Labels -> Domain] /\ post \in [Labels -> Domain] /\ pre[Entry] = EntryInv
  BY DEF AnInv, Stored
<1>6. a \in Domain /\ (c = Entry => a = EntryInv)
  <2>1. c = Entry => entered
    BY <1>2, <1>3, EntryCycleFirst
  <2>2. entered => a = EntryInv
    BY <1>5 DEF InitialInvariant
  <2>3. ~ entered => a \in Domain
    <3> DEFINE S == {p \in parents_of(CycleHead(c)) :
                       ~NestedDeeper(collect_heads(p), collect_heads(CycleHead(c)))}
    <3>1. S \in SUBSET Labels
      BY DEF parents_of
    <3>2. ~ entered => a = JoinPosts(S)
      BY DEF InitialInvariant
    <3> HIDE DEF S
    <3>3. QED
      BY <1>5, <3>1, <3>2, JoinCovers
  <2>4. QED
    BY <2>1, <2>2, <2>3, DomainAssumption
<1>7. Holding(frames, pre, post) /\ Stacked(frames) /\ Top = frames[n] /\ n \in Nat /\ n # 0
  BY <1>2, TopFrame
<1> HIDE DEF entered, a, c, n
<1>8. /\ pre' \in [Labels -> Domain] /\ post' \in [Labels -> Domain] /\ pre'[c] = a
      /\ \A k \in Labels \ {c} : pre'[k] = pre[k] /\ post'[k] = post[k]
  BY <1>2, <1>4, <1>5, <1>6, StoredTyped
<1>9. pre'[Entry] = EntryInv
  BY <1>5, <1>6, <1>8, LabelsAssumption
<1>10. c \in LabelsOf(Site(Top)) /\ Site(Top) # Vertex(Top.cycle)
  <2>1. \A l, m : Cycle(l) # Vertex(m)
    BY DEF Cycle, Vertex
  <2>2. QED
    BY <1>2, <2>1, CycleLabels
<1>11. Holding(frames, pre', post')
  BY <1>2, <1>7, <1>8, <1>10, StoreKeepsFrames DEF n
<1>12. Holding(new, pre', post') /\ Len(new) = n + 1
  <2>1. /\ frames[Len(frames)].pos > 0 /\ Site(frames[Len(frames)]) = Cycle(c)
        /\ "ascending" # "descending" /\ 1 \in Nat
    BY <1>2, <1>7 DEF n
  <2>2. QED
    BY <1>2, <1>6, <1>8, <1>11, <2>1, FrameEnters DEF n
<1> HIDE DEF new
<1>13. EntryFirst(new, FALSE) /\ new # <<>>
  <2>1. Len(new) # 1
    BY <1>7, <1>12
  <2>2. QED
    BY <1>12, <2>1 DEF EntryFirst, Holding, Stacked
<1>14. QED
  BY <1>4, <1>8, <1>9, <1>12, <1>13 DEF Kept

(* What is known at the end of a pass over a cycle.                        *)
LEMMA EndOfCycle ==
    ASSUME OrderFacts, AnInv, NEW phase \in {"ascending", "descending"}, EndOfPass(phase)
    PROVE  /\ frames # <<>> /\ Top.cycle \in CycleHeads /\ CycleHead(Top.cycle) = Top.cycle
           /\ ~ skip /\ Followed /\ Stored
           /\ Top \in FrameType /\ pre[Top.cycle] = Top.invariant
           /\ phase = "descending" => Refinable(Top.cycle, pre, post)
           /\ \A i \in 1..Len(components[Top.cycle]) :
                components[Top.cycle][i] # Vertex(Top.cycle) =>
                  Certified(LabelsOf(components[Top.cycle][i]), pre, post)
           /\ Holding(Front(frames), pre, post) /\ Len(Front(frames)) = Len(frames) - 1
           /\ Len(frames) \in Nat /\ Len(frames) > 1
           /\ Front(frames)[Len(Front(frames))].pos > 0
           /\ Site(Front(frames)[Len(Front(frames))]) = Cycle(Top.cycle)
<1>1. frames # <<>> /\ Top.pos = 0 /\ Top.phase = phase
  BY DEF EndOfPass
<1>2. /\ Holding(frames, pre, post) /\ Len(frames) \in Nat /\ Len(frames) > 1
      /\ Top = frames[Len(frames)] /\ Top \in FrameType
      /\ FrameHolds(Top, pre, post) /\ Top.cycle \in CycleHeads /\ ~ skip
  BY <1>1, TopFrame
<1>3. Top.cycle # Root /\ CycleHead(Top.cycle) = Top.cycle
  BY <1>2 DEF OrderFacts
<1>4. Followed /\ Stored
  BY <1>2, WhenFollowed DEF AnInv
<1>5. pre[Top.cycle] = Top.invariant /\ (phase = "descending" => Refinable(Top.cycle, pre, post))
  BY <1>1, <1>2, <1>3 DEF FrameHolds
<1>6. \A i \in 1..Len(components[Top.cycle]) :
        components[Top.cycle][i] # Vertex(Top.cycle) =>
          Certified(LabelsOf(components[Top.cycle][i]), pre, post)
  <2>1. Top.pos + 1 = 1
    BY <1>1
  <2>2. PassedOver(Top, pre, post)
    BY <1>2 DEF FrameHolds
  <2>3. QED
    BY <2>1, <2>2 DEF PassedOver
<1>7. /\ Holding(Front(frames), pre, post) /\ Len(Front(frames)) = Len(frames) - 1
      /\ Front(frames)[Len(Front(frames))].pos > 0
      /\ Site(Front(frames)[Len(Front(frames))]) = Cycle(Top.cycle)
  BY <1>2, FramePops
<1>8. QED
  BY <1>1, <1>2, <1>3, <1>4, <1>5, <1>6, <1>7

(* A closed family of sets over a cycle does not depend on its own posts.  *)
LEMMA ClosedStored ==
    ASSUME NEW K, NEW J, NEW c \in K, NEW after, NEW after2,
           \A l \in Labels \ {c} : after2[l] = after[l], Closed(K, J, after)
    PROVE  Closed(K, J, after2)
<1>1. \A m : \A p \in parents_of(m) \ K : after2[p] = after[p]
  BY DEF parents_of
<1>2. QED
  BY <1>1 DEF Closed

LEMMA NextPassKeeps ==
    ASSUME OrderFacts, EdgesOrdered, AnInv,
           NEW from \in {"ascending", "descending"}, EndOfPass(from),
           NEW phase \in {"ascending", "descending"}, NEW iteration \in Nat, NEW a \in Domain,
           NextPass(phase, iteration, a), Top.cycle = Entry => a = EntryInv,
           phase = "descending" =>
             \E J \in [Members[Top.cycle] -> SUBSET Values] :
               Closed(Members[Top.cycle], J, post) /\ J[Top.cycle] \subseteq Gamma(a)
    PROVE  Kept
<1> DEFINE c == Top.cycle
           fs == Front(frames)
           new == Append(fs, Frame(c, phase, iteration, a))
<1>1. /\ frames # <<>> /\ c \in CycleHeads /\ CycleHead(c) = c /\ ~ skip /\ Stored
      /\ Holding(fs, pre, post) /\ Len(fs) = Len(frames) - 1 /\ Len(frames) \in Nat /\ Len(frames) > 1
      /\ fs[Len(fs)].pos > 0 /\ Site(fs[Len(fs)]) = Cycle(c)
  BY EndOfCycle
<1>2. frames' = new /\ SetInvariant(c, a) /\ skip' = skip
  BY <1>1 DEF NextPass
<1> HIDE DEF c, fs
<1>3. c \in Labels /\ c \in Members[c] /\ LabelsOf(Cycle(c)) = Members[c]
  BY <1>1, CycleLabels
<1>4. /\ pre' \in [Labels -> Domain] /\ post' \in [Labels -> Domain] /\ pre'[c] = a
      /\ \A k \in Labels \ {c} : pre'[k] = pre[k] /\ post'[k] = post[k]
  BY <1>1, <1>2, <1>3, StoredTyped DEF Stored
<1>5. pre'[Entry] = EntryInv
  BY <1>1, <1>4, LabelsAssumption DEF Stored, c
<1>6. c \in LabelsOf(Site(fs[Len(fs)])) /\ Site(fs[Len(fs)]) # Vertex(fs[Len(fs)].cycle)
  <2>1. \A l, m : Cycle(l) # Vertex(m)
    BY DEF Cycle, Vertex
  <2>2. QED
    BY <1>1, <1>3, <2>1
<1>7. Holding(fs, pre', post')
  BY <1>1, <1>4, <1>6, StoreKeepsFrames
<1>8. phase = "descending" => Refinable(c, pre', post')
  BY <1>3, <1>4, ClosedStored DEF Refinable, c
<1>9. Holding(new, pre', post') /\ Len(new) = Len(fs) + 1
  BY <1>1, <1>4, <1>7, <1>8, FrameEnters
<1> HIDE DEF new
<1>10. EntryFirst(new, skip) /\ new # <<>>
  BY <1>1, <1>9 DEF EntryFirst, Holding, Stacked
<1>11. QED
  BY <1>2, <1>4, <1>5, <1>9, <1>10 DEF Kept

LEMMA AscendKeeps ==
    ASSUME OrderFacts, EdgesOrdered, AnInv, Ascend
    PROVE  Kept
<1> DEFINE c == Top.cycle
           new_pre == join_all_prevs(CycleHead(c))
           a == extrapolate(Top.invariant, new_pre, Top.iteration)
<1>1. EndOfPass("ascending") /\ ~ PostFixpoint(new_pre)
      /\ NextPass("ascending", NextIteration(Top.iteration), a)
  BY DEF Ascend
<1>2. /\ c \in CycleHeads /\ CycleHead(c) = c /\ Followed /\ Stored
      /\ Top.invariant \in Domain /\ Top.iteration \in Nat /\ pre[c] = Top.invariant
  BY <1>1, EndOfCycle DEF FrameType
<1>3. c \in Labels /\ new_pre \in Domain /\ (c = Entry => new_pre = EntryInv)
  BY <1>2, ReturnsCovered, CycleLabels
<1>4. a \in Domain
  <2>1. ConstantLimits \in Domain /\ Widen(Top.invariant, new_pre) \in Domain
        /\ Join(Top.invariant, new_pre) \in Domain
    BY <1>2, <1>3, DomainSound
  <2>2. Meet(Widen(Top.invariant, new_pre), ConstantLimits) \in Domain
    BY <2>1, DomainSound
  <2>3. QED
    BY <2>1, <2>2 DEF extrapolate
<1>5. c # Entry
  <2>1. c = Entry => new_pre = Top.invariant
    BY <1>2, <1>3 DEF Stored
  <2>2. QED
    BY <1>1, <1>2, <2>1, DomainSound DEF PostFixpoint
<1>6. NextIteration(Top.iteration) \in Nat
  BY <1>2 DEF NextIteration, MaxIteration, _widening_delay
<1> HIDE DEF a
<1>7. "ascending" # "descending" /\ Top.cycle # Entry
  BY <1>5
<1>8. QED
  BY <1>1, <1>4, <1>6, <1>7, NextPassKeeps

LEMMA TurnAroundKeeps ==
    ASSUME OrderFacts, EdgesOrdered, AnInv, TurnAround
    PROVE  Kept
<1> DEFINE c == Top.cycle
           a == join_all_prevs(CycleHead(c))
<1>1. EndOfPass("ascending") /\ PostFixpoint(a) /\ NextPass("descending", 1, a)
  BY DEF TurnAround
<1>2. /\ c \in CycleHeads /\ CycleHead(c) = c /\ Followed /\ Stored
      /\ Top.invariant \in Domain /\ pre[c] = Top.invariant
      /\ \A i \in 1..Len(components[c]) :
           components[c][i] # Vertex(c) => Certified(LabelsOf(components[c][i]), pre, post)
  BY <1>1, EndOfCycle DEF FrameType
<1>3. c \in Labels /\ a \in Domain /\ (c = Entry => a = EntryInv)
  BY <1>2, ReturnsCovered, CycleLabels
<1>4. Gamma(join_all_prevs(c)) \subseteq Gamma(pre[c])
  BY <1>1, <1>2, <1>3, DomainSound DEF PostFixpoint
<1>5. \E J \in [Members[c] -> SUBSET Values] : Closed(Members[c], J, post) /\ J[c] = Gamma(a)
  BY <1>2, <1>4, AscentCertifies
<1> HIDE DEF a
<1>6. \E J \in [Members[c] -> SUBSET Values] : Closed(Members[c], J, post) /\ J[c] \subseteq Gamma(a)
  BY <1>5
<1>7. QED
  BY <1>1, <1>3, <1>6, NextPassKeeps

LEMMA DescendKeeps ==
    ASSUME OrderFacts, EdgesOrdered, AnInv, Descend
    PROVE  Kept
<1> DEFINE c == Top.cycle
           new_pre == join_all_prevs(CycleHead(c))
           a == refine(Top.invariant, new_pre, Top.iteration)
<1>1. EndOfPass("descending") /\ ~ NoRefinement(new_pre)
      /\ NextPass("descending", Top.iteration + 1, a)
  BY DEF Descend
<1>2. /\ c \in CycleHeads /\ CycleHead(c) = c /\ Followed /\ Stored
      /\ Top.invariant \in Domain /\ Top.iteration \in Nat /\ pre[c] = Top.invariant
      /\ Refinable(c, pre, post)
      /\ \A i \in 1..Len(components[c]) :
           components[c][i] # Vertex(c) => Certified(LabelsOf(components[c][i]), pre, post)
  BY <1>1, EndOfCycle DEF FrameType
<1>3. c \in Labels /\ new_pre \in Domain /\ (c = Entry => new_pre = EntryInv)
  BY <1>2, ReturnsCovered, CycleLabels
<1>4. a \in Domain /\ Gamma(Top.invariant) \cap Gamma(new_pre) \subseteq Gamma(a)
  BY <1>2, <1>3, DomainSound DEF refine
<1>5. c # Entry
  <2>1. c = Entry => new_pre = Top.invariant
    BY <1>2, <1>3 DEF Stored
  <2>2. QED
    BY <1>1, <1>2, <2>1, DomainSound DEF NoRefinement
<1>6. PICK J \in [Members[c] -> SUBSET Values] :
        /\ Closed(Members[c], J, post)
        /\ \A m \in Members[c] : J[m] \subseteq Gamma(pre[m])
        /\ c \in Members[c] /\ J[c] \subseteq Gamma(join_all_prevs(c))
  BY <1>2, DescentCertifies
<1>7. J[c] \subseteq Gamma(a)
  BY <1>2, <1>4, <1>6
<1> HIDE DEF a
<1>8. Top.iteration + 1 \in Nat /\ Top.cycle # Entry
  BY <1>2, <1>5
<1>9. QED
  BY <1>1, <1>4, <1>6, <1>7, <1>8, NextPassKeeps

LEMMA LeaveCycleKeeps ==
    ASSUME OrderFacts, EdgesOrdered, AnInv, LeaveCycle
    PROVE  Kept
<1> DEFINE c == Top.cycle
           fs == Front(frames)
<1>1. EndOfPass("descending") /\ frames' = Advance(fs)
      /\ pre' = pre /\ post' = post /\ skip' = skip
  BY DEF LeaveCycle
<1>2. /\ c \in CycleHeads /\ CycleHead(c) = c /\ Followed /\ Stored /\ ~ skip
      /\ Refinable(c, pre, post)
      /\ \A i \in 1..Len(components[c]) :
           components[c][i] # Vertex(c) => Certified(LabelsOf(components[c][i]), pre, post)
      /\ Holding(fs, pre, post) /\ Len(fs) = Len(frames) - 1 /\ Len(frames) \in Nat /\ Len(frames) > 1
      /\ fs[Len(fs)].pos > 0 /\ Site(fs[Len(fs)]) = Cycle(c)
  BY <1>1, EndOfCycle
<1> HIDE DEF fs
<1>3. Certified(Members[c], pre, post)
  <2>1. PICK J \in [Members[c] -> SUBSET Values] :
          /\ Closed(Members[c], J, post)
          /\ \A m \in Members[c] : J[m] \subseteq Gamma(pre[m])
    BY <1>2, DescentCertifies
  <2>2. QED
    BY <2>1 DEF Certified
<1>4. Certified(LabelsOf(Site(fs[Len(fs)])), pre, post)
  BY <1>2, <1>3, CycleLabels
<1>5. Holding(Advance(fs), pre, post)
  BY <1>2, <1>4, FrameAdvances
<1>6. /\ Len(Advance(fs)) = Len(fs)
      /\ Advance(fs)[Len(fs)] = [fs[Len(fs)] EXCEPT !.pos = @ - 1]
      /\ Stacked(fs)
  BY <1>2, StackAdvances DEF Holding
<1>7. EntryFirst(Advance(fs), FALSE)
  <2> SUFFICES ASSUME Len(fs) = 1 PROVE Advance(fs)[1].pos # Len(components[Root])
    BY <1>6 DEF EntryFirst
  <2>1. /\ fs \in Seq(FrameType) /\ 1 \in 1..Len(fs) /\ fs[1].cycle = Root
        /\ fs[1].pos <= Len(components[Root]) /\ Len(components[Root]) \in Nat
    BY <1>6 DEF Stacked, OrderFacts
  <2>2. fs[1] \in FrameType
    BY <2>1
  <2>3. fs[1].pos \in Nat /\ Advance(fs)[1].pos = fs[1].pos - 1
    BY <1>6, <2>2 DEF FrameType
  <2>4. QED
    BY <2>1, <2>3
<1>8. Advance(fs) # <<>>
  BY <1>5 DEF Holding, Stacked
<1>9. QED
  <2>1. EntryFirst(frames', skip')
    BY <1>1, <1>2, <1>7 DEF EntryFirst
  <2>2. QED
    BY <1>1, <1>2, <1>5, <1>8, <2>1 DEF Kept, Stored

LEMMA StartKeeps ==
    ASSUME OrderFacts, AnInv, StartAnalysis
    PROVE  Kept
<1> DEFINE f == Frame(Root, "top", 1, Bottom)
           n == Len(components[Root])
<1>1. /\ frames' = <<f>> /\ frames = <<>> /\ skip
      /\ pre' = pre /\ post' = post /\ skip' = skip
  BY DEF StartAnalysis, AnInv
<1>2. Root \in DOMAIN components /\ n \in Nat /\ Root \in Cycles /\ Bottom \in Domain
  BY DomainAssumption DEF OrderFacts, Cycles
<1>3. /\ f \in FrameType /\ f.cycle = Root /\ f.pos = n /\ f.phase = "top"
  BY <1>2 DEF Frame, FrameType
<1> HIDE DEF f
<1>4. <<f>> \in Seq(FrameType) /\ Len(<<f>>) = 1 /\ <<f>>[1] = f /\ <<f>> # <<>>
  BY <1>3
<1>5. Stacked(<<f>>)
  BY <1>2, <1>3, <1>4 DEF Stacked
<1>6. FrameHolds(f, pre, post)
  BY <1>2, <1>3 DEF FrameHolds, PassedOver
<1>7. Holding(<<f>>, pre, post) /\ EntryFirst(<<f>>, TRUE)
  BY <1>3, <1>4, <1>5, <1>6 DEF Holding, EntryFirst
<1>8. QED
  BY <1>1, <1>4, <1>7 DEF Kept, AnInv, Stored

(* The invariant of the analysis, given the ordering.                      *)
Ordered == TypeOK /\ EachPlacedOnce /\ WeakTopologicalOrder

LEMMA AnalysisKeeps ==
    ASSUME Ordered, Ordered', AnInv, [AnNext]_anVars
    PROVE  AnInv'
<1>1. Built => OrderFacts /\ EdgesOrdered
  BY FactsHold, EdgesHold DEF Ordered
<1>2. EntryLeads
  BY <1>1, EntryLeadsHolds DEF EntryLeads, Visiting, AnInv
<1>3. Inv'
  BY <1>2, AnalysisStep DEF AnInv
<1>4. ASSUME Built, UNCHANGED <<vars, code, assume_assertions>>, Kept
      PROVE  AnInv'
  <2>1. Holding(frames, pre, post)' /\ frames' # <<>>
    BY <1>4, FrozenHolding DEF Kept
  <2>2. EntryFirst(frames, skip)' /\ Built'
    BY <1>4 DEF Kept, EntryFirst, vars, builderVars, Built
  <2>3. Stored'
    BY <1>4 DEF Kept, Stored, AnInv
  <2>4. QED
    BY <1>3, <2>1, <2>2, <2>3 DEF AnInv
<1>5. CASE BuildWto
  <2>1. frames = <<>> /\ UNCHANGED <<code, assume_assertions, pre, post, skip, frames>>
    BY <1>5 DEF BuildWto, BuildStep, AnInv, Built, analysisVars
  <2>2. QED
    BY <1>3, <2>1 DEF AnInv, Stored
<1>6. CASE StartAnalysis
  <2>1. Built /\ UNCHANGED <<vars, code, assume_assertions>>
    BY <1>6 DEF StartAnalysis
  <2>2. QED
    BY <1>1, <1>4, <1>6, <2>1, StartKeeps
<1>7. ASSUME NEW component \in Component, VisitComponent(component) PROVE AnInv'
  <2>1. Built /\ UNCHANGED <<vars, code, assume_assertions>>
    BY <1>7 DEF VisitComponent, PassHead, VisitLabel, VisitCycle, Visiting, AnInv
  <2>2. CASE PassHead(component)
    BY <1>1, <1>4, <2>1, <2>2, PassHeadKeeps
  <2>3. CASE VisitLabel(component)
    BY <1>1, <1>4, <2>1, <2>3, VisitLabelKeeps
  <2>4. CASE VisitCycle(component)
    BY <1>1, <1>4, <2>1, <2>4, VisitCycleKeeps
  <2>5. QED
    BY <1>7, <2>2, <2>3, <2>4 DEF VisitComponent
<1>8. CASE Ascend
  <2>1. Built /\ UNCHANGED <<vars, code, assume_assertions>>
    BY <1>8 DEF Ascend, NextPass, EndOfPass, AnInv
  <2>2. QED
    BY <1>1, <1>4, <1>8, <2>1, AscendKeeps
<1>9. CASE TurnAround
  <2>1. Built /\ UNCHANGED <<vars, code, assume_assertions>>
    BY <1>9 DEF TurnAround, NextPass, EndOfPass, AnInv
  <2>2. QED
    BY <1>1, <1>4, <1>9, <2>1, TurnAroundKeeps
<1>10. CASE Descend
  <2>1. Built /\ UNCHANGED <<vars, code, assume_assertions>>
    BY <1>10 DEF Descend, NextPass, EndOfPass, AnInv
  <2>2. QED
    BY <1>1, <1>4, <1>10, <2>1, DescendKeeps
<1>11. CASE LeaveCycle
  <2>1. Built /\ UNCHANGED <<vars, code, assume_assertions>>
    BY <1>11 DEF LeaveCycle, EndOfPass, AnInv
  <2>2. QED
    BY <1>1, <1>4, <1>11, <2>1, LeaveCycleKeeps
<1>12. CASE UNCHANGED anVars
  <2>1. UNCHANGED <<vars, code, assume_assertions, pre, post, skip, frames>>
    BY <1>12 DEF anVars, analysisVars
  <2>2. frames # <<>> => Built /\ Kept
    BY <2>1 DEF Kept, AnInv, Stored
  <2>3. frames = <<>> => AnInv'
    BY <1>3, <2>1 DEF AnInv, Stored
  <2>4. QED
    BY <1>4, <2>1, <2>2, <2>3
<1>13. QED
  BY <1>5, <1>6, <1>7, <1>8, <1>9, <1>10, <1>11, <1>12 DEF AnNext, AnStep

-----------------------------------------------------------------------------
(* A set of labels with their states that holds the entry's and all that   *)
(* an instruction leads to holds every execution.                          *)
Follow(stop, c) ==
    IF stop /\ ~Holds(code[c[1]], c[2]) THEN {}
    ELSE (children[c[1]] \ {Entry}) \X Run(code[c[1]], c[2])

LEMMA CollectingLeast ==
    ASSUME code \in Code, children \in [Labels -> SUBSET Labels], NEW stop \in BOOLEAN,
           NEW X \in SUBSET (Labels \X Values), {Entry} \X Gamma(EntryInv) \subseteq X,
           \A c \in X : Follow(stop, c) \subseteq X
    PROVE  Collecting(stop) \subseteq X
<1> DEFINE U == Labels \X Values
           Next1(C) == C \cup UNION {Follow(stop, c) : c \in C}
           Grows(G) == G = [C \in SUBSET U |->
                              LET next == C \cup UNION {Follow(stop, c) : c \in C}
                              IN  IF next = C THEN C ELSE G[next]]
           closure == CHOOSE G : Grows(G)
           Over(C) == {D \in SUBSET U : C \subseteq D /\ Next1(D) = D}
           least == [C \in SUBSET U |-> {c \in U : \A D \in Over(C) : c \in D}]
<1>1. \A c \in U : Follow(stop, c) \subseteq U
  <2>1. ASSUME NEW l \in Labels, NEW x \in Values PROVE Follow(stop, <<l, x>>) \subseteq U
    <3>1. children[l] \subseteq Labels /\ Run(code[l], x) \subseteq Values
      BY ValuesAssumption
    <3>2. QED
      BY <3>1 DEF Follow
  <2>2. QED
    BY <2>1
<1>2. \A C \in SUBSET U : Next1(C) \in SUBSET U /\ C \subseteq Next1(C)
  BY <1>1
<1>3. \A C \in SUBSET U : Next1(C) = C <=> \A c \in C : Follow(stop, c) \subseteq C
  OBVIOUS
<1>4. \E G : Grows(G)
  <2>1. ASSUME NEW C \in SUBSET U, Next1(C) = C PROVE least[C] = C
    BY <2>1
  <2>2. ASSUME NEW C \in SUBSET U PROVE Over(Next1(C)) = Over(C)
    <3>1. ASSUME NEW D \in SUBSET U, C \subseteq D, Next1(D) = D PROVE Next1(C) \subseteq D
      BY <3>1
    <3>2. QED
      BY <1>2, <3>1
  <2>3. ASSUME NEW C \in SUBSET U PROVE least[C] = IF Next1(C) = C THEN C ELSE least[Next1(C)]
    <3>1. Next1(C) \in SUBSET U /\ Over(Next1(C)) = Over(C)
      BY <1>2, <2>2
    <3> HIDE DEF Over, Next1
    <3>2. least[Next1(C)] = least[C]
      BY <3>1
    <3>3. QED
      BY <2>1, <3>2
  <2>4. Grows(least)
    <3> HIDE DEF Over
    <3>1. DOMAIN least = SUBSET U /\ least = [C \in SUBSET U |-> least[C]]
      OBVIOUS
    <3> HIDE DEF least
    <3>2. QED
      BY <2>3, <3>1
  <2>5. QED
    BY <2>4
<1>5. Grows(closure)
  <2> HIDE DEF Grows
  <2>1. QED
    BY <1>4
<1>6. Collecting(stop) = closure[{Entry} \X Gamma(EntryInv)]
  BY DEF Collecting, Follow
<1> HIDE DEF closure
<1>7. \A C \in SUBSET U : closure[C] = IF Next1(C) = C THEN C ELSE closure[Next1(C)]
  BY <1>5
<1> HIDE DEF Grows
<1>8. ASSUME NEW C \in SUBSET U, C \subseteq X PROVE Next1(C) \subseteq X
  BY <1>8
<1> HIDE DEF Next1
<1> DEFINE size(C) == Cardinality(U \ C)
           B == {n \in Nat : \A C \in SUBSET U : C \subseteq X /\ size(C) <= n => closure[C] \subseteq X}
<1>9. IsFiniteSet(U)
  BY LabelsAssumption, ValuesAssumption, FS_Product
<1> HIDE DEF U
<1>10. \A C \in SUBSET U : size(C) \in Nat /\ IsFiniteSet(U \ C)
  <2>1. \A C \in SUBSET U : U \ C \in SUBSET U
    OBVIOUS
  <2>2. QED
    BY <1>9, <2>1, FS_Subset, FS_CardinalityType
<1>11. ASSUME NEW C \in SUBSET U, Next1(C) # C
       PROVE  size(Next1(C)) < size(C)
  <2> DEFINE R == U \ C
             T == U \ Next1(C)
  <2>1. PICK x \in Next1(C) : x \notin C
    BY <1>2, <1>11
  <2>2. x \in R /\ T \subseteq R \ {x} /\ IsFiniteSet(R)
    BY <1>2, <1>10, <2>1
  <2>3. size(C) = Cardinality(R) /\ size(Next1(C)) = Cardinality(T)
    OBVIOUS
  <2> HIDE DEF R, T, size
  <2>4. IsFiniteSet(R \ {x}) /\ Cardinality(R \ {x}) = Cardinality(R) - 1
    BY <2>2, FS_RemoveElement
  <2>5. Cardinality(T) <= Cardinality(R \ {x})
    BY <2>2, <2>4, FS_Subset
  <2>6. size(C) \in Nat /\ size(Next1(C)) \in Nat
    BY <1>2, <1>10
  <2>7. QED
    BY <2>3, <2>4, <2>5, <2>6
<1> HIDE DEF size
<1>12. ASSUME NEW C \in SUBSET U, C \subseteq X, size(C) <= 0
       PROVE  closure[C] \subseteq X
  <2>1. size(C) \in Nat /\ size(Next1(C)) \in Nat
    BY <1>2, <1>10
  <2>2. Next1(C) = C
    BY <1>11, <1>12, <2>1
  <2>3. QED
    BY <1>7, <1>12, <2>2
<1>13. ASSUME NEW n \in Nat, n \in B, NEW C \in SUBSET U, C \subseteq X, size(C) <= n + 1
       PROVE  closure[C] \subseteq X
  <2>1. CASE Next1(C) = C
    BY <1>7, <1>13, <2>1
  <2>2. CASE Next1(C) # C
    <3>1. size(C) \in Nat /\ size(Next1(C)) \in Nat /\ Next1(C) \in SUBSET U
      BY <1>2, <1>10
    <3>2. size(Next1(C)) <= n
      BY <1>11, <1>13, <2>2, <3>1
    <3>3. Next1(C) \subseteq X
      BY <1>8, <1>13
    <3>4. closure[Next1(C)] \subseteq X
      BY <1>13, <3>1, <3>2, <3>3
    <3>5. QED
      BY <1>7, <2>2, <3>4
  <2>3. QED
    BY <2>1, <2>2
<1>14. 0 \in B /\ \A n \in Nat : n \in B => n + 1 \in B
  BY <1>12, <1>13
<1> HIDE DEF B
<1>15. \A n \in Nat : n \in B
  BY <1>14, NumberInduction
<1>16. ASSUME NEW S \in SUBSET U, S \subseteq X PROVE closure[S] \subseteq X
  <2>1. size(S) \in Nat
    BY <1>10
  <2>2. size(S) <= size(S)
    BY <2>1
  <2>3. QED
    BY <1>15, <1>16, <2>1, <2>2 DEF B
<1>17. {Entry} \X Gamma(EntryInv) \in SUBSET U
  BY DEF U
<1>18. QED
  BY <1>6, <1>16, <1>17

(* When the analysis ends, its invariants hold sets that are closed under  *)
(* the instructions.                                                       *)
LEMMA AnalysedCertifies ==
    ASSUME Ordered, AnInv, Analysed
    PROVE  LET P == PartitionLabels(Root)
           IN  /\ Entry \in P /\ P \subseteq Labels
               /\ \A l \in P : children[l] \subseteq P
               /\ \E J \in [P -> SUBSET Values] :
                    Closed(P, J, post) /\ \A m \in P : J[m] \subseteq Gamma(pre[m])
<1> DEFINE P == PartitionLabels(Root)
           last == Len(components[Root])
           J0 == [m \in P |-> Values]
<1>1. Built /\ frames # <<>> /\ Top.pos = 0 /\ Top.phase = "top"
  BY DEF Analysed, EndOfPass
<1>2. OrderFacts /\ EdgesOrdered
  BY <1>1, FactsHold, EdgesHold DEF Ordered
<1>3. /\ Top.cycle = Root /\ FrameHolds(Top, pre, post)
      /\ skip <=> Len(frames) = 1 /\ Top.pos = last
  BY <1>1, <1>2, TopFrame
<1>4. /\ Root \in DOMAIN components /\ last \in 1..last /\ last # 0
      /\ components[Root][last].label = Entry
  BY <1>2 DEF OrderFacts
<1>5. Entry \in P
  <2>1. components[Root][last] = Vertex(Entry)
        \/ (components[Root][last] = Cycle(Entry) /\ Entry \in CycleHeads)
    BY <1>2, <1>4 DEF OrderFacts
  <2>2. LabelsOf(Vertex(Entry)) = {Entry}
    BY <1>2, LabelsAssumption DEF OrderFacts
  <2>3. Entry \in LabelsOf(components[Root][last])
    BY <1>2, <2>1, <2>2, CycleLabels
  <2>4. QED
    BY <1>4, <2>3 DEF PartitionLabels
<1>6. P \subseteq Labels /\ \A l \in P : children[l] \subseteq P
  BY <1>2 DEF EdgesOrdered, PartitionLabels, LabelsOf
<1>7. Followed /\ Stored
  BY <1>1, <1>3, <1>4, WhenFollowed DEF AnInv
<1>8. \A i \in 1..last :
        components[Root][i] # Vertex(Root) => Certified(LabelsOf(components[Root][i]), pre, post)
  <2>1. Top.pos + 1 = 1
    BY <1>1
  <2>2. PassedOver(Top, pre, post)
    BY <1>3 DEF FrameHolds
  <2>3. QED
    BY <1>3, <2>1, <2>2 DEF PassedOver
<1> HIDE DEF P
<1>9. J0 \in [P -> SUBSET Values] /\ \A m \in P : J0[m] = Values
  OBVIOUS
<1> HIDE DEF J0
<1>10. Bounded(Root, J0)
  <2>1. Root \notin P
    BY <1>2, <1>6 DEF OrderFacts
  <2>2. Gamma(EntryInv) \subseteq Values /\ \A l \in Labels : Gamma(post[l]) \subseteq Values
    BY <1>7, DomainAssumption, ValuesAssumption DEF Stored
  <2>3. ASSUME NEW m \in P, NEW p \in parents_of(m)
        PROVE  IF p \in P
               THEN Steps(p, IF m = Root THEN J0[p] \cap Gamma(pre[p]) ELSE J0[p]) \subseteq J0[m]
               ELSE Gamma(post[p]) \subseteq J0[m]
    <3>1. p \in Labels /\ m # Root
      BY <2>1 DEF parents_of
    <3>2. p \in P => Steps(p, J0[p]) \subseteq Values
      <4>1. p \in P => J0[p] \in SUBSET Values
        BY <1>9
      <4>2. QED
        BY <1>7, <3>1, <4>1, StepsTyped DEF Stored
    <3>3. QED
      BY <1>9, <2>2, <3>1, <3>2
  <2>4. QED
    BY <1>9, <2>1, <2>2, <2>3 DEF Bounded, P
<1>11. \E J \in [P -> SUBSET Values] : Closed(P, J, post) /\ \A m \in P : J[m] \subseteq Gamma(pre[m])
  BY <1>2, <1>4, <1>7, <1>8, <1>10, PassCertifies DEF Stored, Followed, P
<1>12. QED
  BY <1>5, <1>6, <1>11 DEF P

(* Where all assertions hold, or executions stop at those that do not, the *)
(* executions stay within the closed sets.                                 *)
LEMMA ExecutionsCovered ==
    ASSUME code \in Code, children \in [Labels -> SUBSET Labels], NEW P \in SUBSET Labels, Entry \in P,
           \A l \in P : children[l] \subseteq P,
           NEW J \in [P -> SUBSET Values], Closed(P, J, post),
           NEW stop \in BOOLEAN,
           \/ stop = assume_assertions
           \/ \A p \in P : \A x \in J[p] : Holds(code[p], x)
    PROVE  \A c \in Collecting(stop) : c[1] \in P /\ c[2] \in J[c[1]]
<1> DEFINE X == {c \in Labels \X Values : c[1] \in P /\ c[2] \in J[c[1]]}
<1>1. X \in SUBSET (Labels \X Values)
  OBVIOUS
<1>2. {Entry} \X Gamma(EntryInv) \subseteq X
  BY LabelsAssumption, ValuesAssumption, DomainAssumption DEF Closed
<1>3. ASSUME NEW c \in X PROVE Follow(stop, c) \subseteq X
  <2> DEFINE p == c[1]
             x == c[2]
  <2>1. p \in P /\ x \in J[p] /\ x \in Values /\ p \in Labels
    OBVIOUS
  <2> HIDE DEF p, x, X
  <2>2. CASE stop /\ ~ Holds(code[p], x)
    BY <2>2 DEF Follow, p, x
  <2>3. CASE ~ (stop /\ ~ Holds(code[p], x))
    <3>1. Run(code[p], x) \subseteq Steps(p, J[p])
      BY <2>1, <2>3 DEF Steps
    <3>2. ASSUME NEW m \in children[p] \ {Entry}, NEW y \in Run(code[p], x)
          PROVE  <<m, y>> \in X
      <4>1. m \in P /\ p \in parents_of(m)
        BY <2>1 DEF parents_of
      <4>2. y \in J[m]
        BY <2>1, <3>1, <4>1 DEF Closed
      <4>3. QED
        BY <4>1, <4>2 DEF X
    <3>3. QED
      BY <2>3, <3>2 DEF Follow, p, x
  <2>4. QED
    BY <2>2, <2>3
<1> HIDE DEF X
<1>4. Collecting(stop) \subseteq X
  BY <1>1, <1>2, <1>3, CollectingLeast
<1>5. QED
  BY <1>4 DEF X

(* The end of the argument.                                                *)
LEMMA CoversAll ==
    ASSUME Ordered, AnInv
    PROVE  Sound /\ VerifiedIsSafe
<1> SUFFICES ASSUME Analysed PROVE Sound /\ VerifiedIsSafe
  BY DEF Sound, VerifiedIsSafe
<1> DEFINE P == PartitionLabels(Root)
<1>1. /\ Entry \in P /\ P \in SUBSET Labels /\ \A l \in P : children[l] \subseteq P
      /\ \E J \in [P -> SUBSET Values] :
           Closed(P, J, post) /\ \A m \in P : J[m] \subseteq Gamma(pre[m])
  BY AnalysedCertifies
<1> HIDE DEF P
<1>2. PICK J \in [P -> SUBSET Values] :
        Closed(P, J, post) /\ \A m \in P : J[m] \subseteq Gamma(pre[m])
  BY <1>1
<1>3. /\ code \in Code /\ assume_assertions \in BOOLEAN /\ pre \in [Labels -> Domain]
      /\ children \in [Labels -> SUBSET Labels]
  BY DEF AnInv, Stored, Ordered, TypeOK
<1>4. Sound
  <2>1. \A c \in Collecting(assume_assertions) : c[1] \in P /\ c[2] \in J[c[1]]
    BY <1>1, <1>2, <1>3, ExecutionsCovered
  <2>2. QED
    BY <1>2, <2>1 DEF Sound
<1>5. ASSUME verified PROVE \A c \in Collecting(FALSE) : Holds(code[c[1]], c[2])
  <2>1. ASSUME NEW p \in P, NEW x \in J[p] PROVE Holds(code[p], x)
    <3>1. p \in Labels /\ x \in Gamma(pre[p]) /\ pre[p] \in Domain
      BY <1>1, <1>2, <1>3
    <3>2. pre[p] # Bottom
      BY <3>1, DomainAssumption
    <3>3. QED
      BY <1>3, <1>5, <3>1, <3>2, TransferAssumption DEF verified
  <2>2. \A c \in Collecting(FALSE) : c[1] \in P /\ c[2] \in J[c[1]]
    BY <1>1, <1>2, <1>3, <2>1, ExecutionsCovered
  <2>3. QED
    BY <2>1, <2>2
<1>6. QED
  BY <1>4, <1>5 DEF VerifiedIsSafe

-----------------------------------------------------------------------------
(* While the ordering is built the analysis does nothing, and then the     *)
(* ordering stays.                                                         *)
LEMMA AnalysisOrdered == ASSUME LabelsFit PROVE AnSpec => []Ordered
<1>1. AnInit => InOrder
  BY InOrderInit DEF AnInit
<1>2. [AnNext]_anVars => [Next]_vars
  <2> SUFFICES ASSUME [AnNext]_anVars PROVE [Next]_vars
    OBVIOUS
  <2>1. CASE BuildWto
    BY <2>1 DEF BuildWto, Next
  <2>2. CASE StartAnalysis
    BY <2>2 DEF StartAnalysis
  <2>3. ASSUME NEW component \in Component, VisitComponent(component) PROVE UNCHANGED vars
    BY <2>3 DEF VisitComponent, PassHead, VisitLabel, VisitCycle
  <2>4. CASE Ascend \/ TurnAround \/ Descend \/ LeaveCycle
    BY <2>4 DEF Ascend, TurnAround, Descend, LeaveCycle, NextPass
  <2>5. CASE UNCHANGED anVars
    BY <2>5 DEF anVars
  <2>6. QED
    BY <2>1, <2>2, <2>3, <2>4, <2>5 DEF AnNext, AnStep
<1>3. InOrder /\ [Next]_vars => InOrder'
  BY InOrderStep
<1>4. InOrder => Ordered
  <2>1. InOrder => TypeOK
    BY DEF InOrder, OrderHolds, OrderInv, TypeInv
  <2>2. QED
    BY <2>1, PlacedOnceAtEnd, OrderedAtEnd DEF InOrder, Ordered
<1>5. QED
  BY <1>1, <1>2, <1>3, <1>4, PTL DEF AnSpec

LEMMA InitAnInv == AnInit => AnInv
BY InitInv, DomainAssumption, LabelsAssumption DEF AnInit, AnInv, Stored

LEMMA AnInvariant == ASSUME LabelsFit PROVE AnSpec => [](Ordered /\ AnInv)
<1>1. AnInit => AnInv
  BY InitAnInv
<1>2. Ordered /\ Ordered' /\ AnInv /\ [AnNext]_anVars => AnInv'
  BY AnalysisKeeps
<1>3. AnSpec => []Ordered
  BY AnalysisOrdered
<1>4. QED
  BY <1>1, <1>2, <1>3, PTL DEF AnSpec

(* ResultsMatch: whatever the graph, the domain and the iterations, the    *)
(* invariant stored after an instruction is the result of the one stored   *)
(* before it.                                                              *)
THEOREM ResultsMatch == ASSUME LabelsFit PROVE AnSpec => []PostFollowsPre
<1>1. AnInv => PostFollowsPre
  BY DEF AnInv, Inv
<1>2. AnSpec => [](Ordered /\ AnInv)
  BY AnInvariant
<1>3. QED
  BY <1>1, <1>2, PTL

(* AnalysisSound: when run_forward_analyzer returns, the invariant before  *)
(* each instruction covers every state that executions reach it in, for    *)
(* every graph whose numbers fit, every sound domain, and whatever the     *)
(* widening and narrowing.                                                 *)
THEOREM AnalysisSound == ASSUME LabelsFit PROVE AnSpec => []Sound
<1>1. Ordered /\ AnInv => Sound
  BY CoversAll
<1>2. AnSpec => [](Ordered /\ AnInv)
  BY AnInvariant
<1>3. QED
  BY <1>1, <1>2, PTL

(* VerdictSafe: a program that verified() accepts fails no assertion in    *)
(* any execution, with assume_assertions too.                              *)
THEOREM VerdictSafe == ASSUME LabelsFit PROVE AnSpec => []VerifiedIsSafe
<1>1. Ordered /\ AnInv => VerifiedIsSafe
  BY CoversAll
<1>2. AnSpec => [](Ordered /\ AnInv)
  BY AnInvariant
<1>3. QED
  BY <1>1, <1>2, PTL
=============================================================================
