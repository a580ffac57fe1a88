---------------------------- MODULE FwdAnalyzer -----------------------------
(***************************************************************************)
(* The forward analysis (fwd_analyzer.cpp) and what verified() concludes   *)
(* from it (crab_verifier.cpp): the program is run over an abstract        *)
(* domain in the weak topological order built by Wto, each cycle iterated  *)
(* up with widening and then down with narrowing.  The recursion of the    *)
(* visitor over nested cycles is a stack of frames; one action handles one *)
(* component, or the end of one pass over the components of a cycle.       *)
(*                                                                         *)
(* The abstract domain, its transfer functions and the concrete semantics  *)
(* they abstract are parameters.                                           *)
(***************************************************************************)
EXTENDS WtoProperties

CONSTANTS Domain,          \* ebpf_domain_t
          Bottom,
          Leq(_, _),       \* operator<=
          Join(_, _),      \* operator|, operator|=
          Meet(_, _),      \* operator&
          Widen(_, _),     \* widen without the constants
          Narrow(_, _),    \* narrow
          ConstantLimits,  \* constant_limits
          Transform(_, _), \* ebpf_domain_transform: the state after an instruction
          Assume(_, _),    \* ebpf_domain_assume: the state where its assertions hold
          Check(_, _),     \* ebpf_domain_check finds no fault
          EntryInv,        \* the entry invariant
          Code,            \* the instructions to be analysed, per label
          MaxDescending    \* _descending_iterations

CONSTANTS Values,          \* concrete states of the program
          Gamma(_),        \* the concrete states an abstract one stands for
          Run(_, _),       \* the concrete states after an instruction
          Holds(_, _)      \* the assertions of an instruction hold in a concrete state

(* What is asked of the domain: join, transfer, assumption and check are   *)
(* sound, and the comparison means inclusion.  Nothing is asked of widening*)
(* or narrowing here.  The states of a program are finitely many.          *)
ASSUME DomainAssumption ==
    /\ {Bottom, EntryInv, ConstantLimits} \subseteq Domain
    /\ Gamma(Bottom) = {}
    /\ \A a \in Domain : Leq(a, a)
    /\ \A a, b \in Domain :
         /\ Leq(a, b) => Gamma(a) \subseteq Gamma(b)
         /\ Gamma(a) \cup Gamma(b) \subseteq Gamma(Join(a, b))
         /\ Gamma(a) \cap Gamma(b) \subseteq Gamma(Meet(a, b))
         /\ {Join(a, b), Meet(a, b), Widen(a, b), Narrow(a, b)} \subseteq Domain

ASSUME ValuesAssumption ==
    /\ IsFiniteSet(Values)
    /\ \A a \in Domain : Gamma(a) \subseteq Values
    /\ \A code \in Code : \A l \in Labels, x \in Values : Run(code[l], x) \subseteq Values

ASSUME NarrowAssumption ==
    \A a, b \in Domain : Gamma(a) \cap Gamma(b) \subseteq Gamma(Narrow(a, b))

ASSUME TransferAssumption ==
    \A code \in Code : \A l \in Labels, a \in Domain :
        /\ {Transform(code[l], a), Assume(code[l], a)} \subseteq Domain
        /\ \A x \in Gamma(a) : /\ Run(code[l], x) \subseteq Gamma(Transform(code[l], a))
                               /\ Holds(code[l], x) => x \in Gamma(Assume(code[l], a))
                               /\ Check(code[l], a) => Holds(code[l], x)

(* Both functions return at once on bottom.                                *)
ASSUME BottomAssumption ==
    \A code \in Code : \A l \in Labels :
        Transform(code[l], Bottom) = Bottom /\ Assume(code[l], Bottom) = Bottom

ASSUME MaxDescendingAssumption == MaxDescending \in Nat

VARIABLES code,               \* cfg.instruction_at, with cfg.assertions_at
          assume_assertions,  \* thread_local_options.assume_assertions
          pre, post,          \* _inv
          skip,               \* _skip
          frames              \* the visits under way, innermost last

analysisVars == <<pre, post, skip, frames>>

anVars == <<vars, code, assume_assertions, analysisVars>>

_widening_delay == 2

(* A visit of the partition of a cycle, or of the top level: the next      *)
(* component is number pos, counting down.  An iteration number above the  *)
(* widening delay is as good as any other.                                 *)
Frame(cycle, phase, iteration, invariant) ==
    [cycle |-> cycle, pos |-> Len(components[cycle]), phase |-> phase,
     iteration |-> iteration, invariant |-> invariant]

MaxIteration == _widening_delay + 1

NextIteration(i) == IF i < MaxIteration THEN i + 1 ELSE i

Top == Last(frames)

(* The visit of one component of the innermost frame is over.              *)
Advance(fs) == [fs EXCEPT ![Len(fs)].pos = @ - 1]

parents_of(l) == {p \in Labels : l \in children[p]}

(* The join of a set of invariants, in the order of the labels.            *)
JoinPosts(S) ==
    LET J[T \in SUBSET S] ==
          IF T = {} THEN Bottom
          ELSE LET m == CHOOSE m \in T : \A t \in T : t <= m
               IN  Join(J[T \ {m}], post[m])
    IN  J[S]

join_all_prevs(l) == IF l = Entry THEN pre[l] ELSE JoinPosts(parents_of(l))

transform_to_post(l, a) ==
    Transform(code[l], IF assume_assertions THEN Assume(code[l], a) ELSE a)

(* set_pre followed by transform_to_post.                                  *)
SetInvariant(l, a) ==
    /\ pre' = [pre EXCEPT ![l] = a]
    /\ post' = [post EXCEPT ![l] = transform_to_post(l, a)]

(* Mutant of extrapolate: the constants limit every widening.              *)
MutExtrapolate(before, after, iteration) ==
    IF iteration < _widening_delay THEN Join(before, after)
    ELSE Meet(Widen(before, after), ConstantLimits)

extrapolate(before, after, iteration) ==
    IF iteration < _widening_delay THEN Join(before, after)
    ELSE IF iteration = _widening_delay THEN Meet(Widen(before, after), ConstantLimits)
    ELSE Widen(before, after)

refine(before, after, iteration) ==
    IF iteration = 1 THEN Meet(before, after) ELSE Narrow(before, after)

-----------------------------------------------------------------------------

AnInit ==
    /\ Init
    /\ code \in Code
    /\ assume_assertions \in BOOLEAN
    /\ pre = [l \in Labels |-> IF l = Entry THEN EntryInv ELSE Bottom]
    /\ post = [l \in Labels |-> Bottom]
    /\ skip = TRUE
    /\ frames = <<>>

BuildWto == BuildStep /\ UNCHANGED <<code, assume_assertions, analysisVars>>

(* run_forward_analyzer begins its loop over the components.               *)
StartAnalysis ==
    /\ Built
    /\ frames = <<>>
    /\ frames' = <<Frame(Root, "top", 1, Bottom)>>
    /\ UNCHANGED <<vars, code, assume_assertions, pre, post, skip>>

Visiting(component) ==
    /\ frames # <<>>
    /\ Top.pos > 0
    /\ component = components[Top.cycle][Top.pos]

IsHeadOf(l, cycle) == cycle # Root /\ l = CycleHead(cycle)

(* The loops over a cycle leave its head out.                              *)
PassHead(component) ==
    /\ Visiting(component)
    /\ ~component.cycle
    /\ IsHeadOf(component.label, Top.cycle)
    /\ frames' = Advance(frames)
    /\ UNCHANGED <<vars, code, assume_assertions, pre, post, skip>>

(* operator()(label).                                                      *)
VisitLabel(component) ==
    LET l == component.label
    IN  /\ Visiting(component)
        /\ ~component.cycle
        /\ ~IsHeadOf(l, Top.cycle)
        /\ skip' = (skip /\ l # Entry)
        /\ IF skip' THEN UNCHANGED <<pre, post>> ELSE SetInvariant(l, join_all_prevs(l))
        /\ frames' = Advance(frames)
        /\ UNCHANGED <<vars, code, assume_assertions>>

(* What a cycle starts from.                                               *)
InitialInvariant(c, entry_in_this_cycle) ==
    IF entry_in_this_cycle THEN pre[Entry]
    ELSE JoinPosts({p \in parents_of(CycleHead(c)) :
                      ~NestedDeeper(collect_heads(p), collect_heads(CycleHead(c)))})

(* operator()(cycle), to the end of the first set_pre and                  *)
(* transform_to_post of its head.                                          *)
VisitCycle(component) ==
    LET c == component.label
        entry_in_this_cycle == skip /\ is_component_member(Entry, component)
        invariant == InitialInvariant(c, entry_in_this_cycle)
    IN  /\ Visiting(component)
        /\ component.cycle
        /\ skip' = (skip /\ ~entry_in_this_cycle)
        /\ IF skip'
           THEN frames' = Advance(frames) /\ UNCHANGED <<pre, post>>
           ELSE /\ frames' = Append(frames, Frame(c, "ascending", 1, invariant))
                /\ SetInvariant(CycleHead(c), invariant)
        /\ UNCHANGED <<vars, code, assume_assertions>>

EndOfPass(phase) ==
    /\ frames # <<>>
    /\ Top.pos = 0
    /\ Top.phase = phase

(* The head gets a new invariant and the cycle is gone through once more.  *)
NextPass(phase, iteration, invariant) ==
    /\ frames' = Append(Front(frames), Frame(Top.cycle, phase, iteration, invariant))
    /\ SetInvariant(CycleHead(Top.cycle), invariant)
    /\ UNCHANGED <<vars, code, assume_assertions, skip>>

(* Mutant of PostFixpoint: the comparison the other way round.             *)
MutPostFixpoint(new_pre) == Leq(Top.invariant, new_pre)

PostFixpoint(new_pre) == Leq(new_pre, Top.invariant)

Ascend ==
    /\ EndOfPass("ascending")
    /\ LET new_pre == join_all_prevs(CycleHead(Top.cycle))
       IN  /\ ~PostFixpoint(new_pre)
           /\ NextPass("ascending", NextIteration(Top.iteration),
                       extrapolate(Top.invariant, new_pre, Top.iteration))

(* A post-fixpoint is reached: the decreasing iterations begin.            *)
TurnAround ==
    /\ EndOfPass("ascending")
    /\ LET new_pre == join_all_prevs(CycleHead(Top.cycle))
       IN  PostFixpoint(new_pre) /\ NextPass("descending", 1, new_pre)

NoRefinement(new_pre) == Leq(Top.invariant, new_pre)

(* Mutant of Descend: the refined invariant is not stored.                 *)
MutDescendNotSet ==
    /\ EndOfPass("descending")
    /\ Top.iteration <= MaxDescending
    /\ LET new_pre == join_all_prevs(CycleHead(Top.cycle))
           invariant == refine(Top.invariant, new_pre, Top.iteration)
       IN  /\ ~NoRefinement(new_pre)
           /\ frames' = Append(Front(frames), Frame(Top.cycle, "descending", Top.iteration + 1, invariant))
           /\ post' = [post EXCEPT ![CycleHead(Top.cycle)] =
                                     transform_to_post(CycleHead(Top.cycle), invariant)]
    /\ UNCHANGED <<vars, code, assume_assertions, skip, pre>>

Descend ==
    /\ EndOfPass("descending")
    /\ Top.iteration <= MaxDescending
    /\ LET new_pre == join_all_prevs(CycleHead(Top.cycle))
       IN  /\ ~NoRefinement(new_pre)
           /\ NextPass("descending", Top.iteration + 1,
                       refine(Top.invariant, new_pre, Top.iteration))

(* The cycle is left, stable or not.                                       *)
LeaveCycle ==
    /\ EndOfPass("descending")
    /\ \/ NoRefinement(join_all_prevs(CycleHead(Top.cycle)))
       \/ Top.iteration > MaxDescending
    /\ frames' = Advance(Front(frames))
    /\ UNCHANGED <<vars, code, assume_assertions, pre, post, skip>>

Analysed == Built /\ EndOfPass("top")

VisitComponent(component) ==
    PassHead(component) \/ VisitLabel(component) \/ VisitCycle(component)

AnStep ==
    \/ BuildWto
    \/ StartAnalysis
    \/ \E component \in Component : VisitComponent(component)
    \/ Ascend
    \/ TurnAround
    \/ Descend
    \/ LeaveCycle

AnNext == AnStep \/ (Analysed /\ UNCHANGED anVars)

AnSpec == AnInit /\ [][AnNext]_anVars

AnFairSpec == AnSpec /\ WF_anVars(AnStep)

-----------------------------------------------------------------------------
(* Mutant of verified: the invariant after the instruction is checked.     *)
MutVerified == \A l \in Labels : pre[l] # Bottom => Check(code[l], post[l])

(* Invariants::verified                                                    *)
verified == \A l \in Labels : pre[l] # Bottom => Check(code[l], pre[l])

-----------------------------------------------------------------------------
(* The labels that executions reach, each with the state they reach it in; *)
(* `stop` ends an execution at the first assertion that fails.             *)
Collecting(stop) ==
    LET Steps(c) ==
          IF stop /\ ~Holds(code[c[1]], c[2]) THEN {}
          ELSE (children[c[1]] \ {Entry}) \X Run(code[c[1]], c[2])
        Closure[C \in SUBSET (Labels \X Values)] ==
          LET next == C \cup UNION {Steps(c) : c \in C}
          IN  IF next = C THEN C ELSE Closure[next]
    IN  Closure[{Entry} \X Gamma(EntryInv)]

(* PostFollowsPre: whatever the interleaving of nested cycles, passes and  *)
(* refinements, the invariant stored after an instruction is the result of *)
(* that instruction on the invariant stored before it, for every label     *)
(* reached so far: what is reported of the two is of one iteration.        *)
PostFollowsPre ==
    \A l \in Labels : (l = Entry /\ skip) \/ post[l] = transform_to_post(l, pre[l])

(* Sound: when the analysis ends, every state in which an execution can    *)
(* reach a label is covered by the invariant before it, however the        *)
(* widening, the constant limits, the narrowing that does nothing and the  *)
(* limit on the decreasing iterations cut the iterations short.            *)
Sound ==
    Analysed =>
      \A c \in Collecting(assume_assertions) : c[2] \in Gamma(pre[c[1]])

(* VerifiedIsSafe: a program that verified() accepts fails no assertion in *)
(* any execution, also when the analysis went on after each assertion as   *)
(* though it held (assume_assertions).                                     *)
VerifiedIsSafe ==
    Analysed /\ verified =>
      \A c \in Collecting(FALSE) : Holds(code[c[1]], c[2])

(* AnalysisEnds: the analysis ends: each sequence of increasing iterations *)
(* becomes stable, the inner ones each time the outer ones start again.    *)
AnalysisEnds == <>Analysed
=============================================================================
