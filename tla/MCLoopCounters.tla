--------------------------- MODULE MCLoopCounters ---------------------------
(***************************************************************************)
(* The graphs of the LoopCounters runs: every graph on 4 vertices with at  *)
(* most two successors each.                                               *)
(***************************************************************************)
EXTENDS LoopCounters, TLC

FewOf(S) == {T \in SUBSET S : Cardinality(T) <= 2}

BranchingGraphs ==
    {0 :> {1} @@ 1 :> a @@ 2 :> b @@ 3 :> c @@ 4 :> d :
       a \in FewOf(1..4), b \in FewOf(1..4), c \in FewOf(1..4), d \in FewOf(1..4)}
=============================================================================
