--------------------------- MODULE MCFwdAnalyzer ----------------------------
(***************************************************************************)
(* FwdAnalyzer on intervals of one bounded counter.  The widening drops    *)
(* the bounds that are not stable and narrowing does nothing except on     *)
(* top, as SplitDBM's do.                                                  *)
(***************************************************************************)
EXTENDS FwdAnalyzer, TLC

MaxValue == 15

MCValues == 0..MaxValue

MCBottom == <<1, 0>>

MCDomain == {<<lo, hi>> \in MCValues \X MCValues : lo <= hi} \cup {MCBottom}

MCGamma(a) == a[1]..a[2]

MinOf(x, y) == IF x <= y THEN x ELSE y

MaxOf(x, y) == IF x <= y THEN y ELSE x

MCLeq(a, b) == a = MCBottom \/ (b # MCBottom /\ b[1] <= a[1] /\ a[2] <= b[2])

MCJoin(a, b) ==
    IF a = MCBottom THEN b ELSE IF b = MCBottom THEN a
    ELSE <<MinOf(a[1], b[1]), MaxOf(a[2], b[2])>>

MCMeet(a, b) ==
    IF a = MCBottom \/ b = MCBottom \/ MaxOf(a[1], b[1]) > MinOf(a[2], b[2]) THEN MCBottom
    ELSE <<MaxOf(a[1], b[1]), MinOf(a[2], b[2])>>

MCWiden(a, b) ==
    IF a = MCBottom THEN b ELSE IF b = MCBottom THEN a
    ELSE <<IF a[1] <= b[1] THEN a[1] ELSE 0, IF b[2] <= a[2] THEN a[2] ELSE MaxValue>>

MCNarrow(a, b) ==
    IF a = MCBottom \/ b = MCBottom THEN MCBottom
    ELSE IF a = <<0, MaxValue>> THEN b ELSE a

MCConstantLimits == <<0, 14>>

MCEntryInv == <<0, 0>>

-----------------------------------------------------------------------------
(* Instructions: one that does nothing, an increment, an average with 3, a *)
(* test that goes on only with small values, and an access whose assertion *)
(* asks for a small value.                                                 *)
Ops == {"inc", "mean", "assume", "access"}

Result(op, x) ==
    CASE op = "inc" -> MinOf(x + 1, MaxValue)
      [] op = "mean" -> (x + 3) \div 2
      [] OTHER -> x

Small(x) == x <= 2

MCHolds(op, x) == op = "access" => Small(x)

MCRun(op, x) == IF op = "assume" /\ ~Small(x) THEN {} ELSE {Result(op, x)}

MCAssume(op, a) == IF op = "access" THEN MCMeet(a, <<0, 2>>) ELSE a

MCTransform(op, a) ==
    LET b == IF op = "assume" THEN MCMeet(a, <<0, 2>>) ELSE a
    IN  IF b = MCBottom THEN b ELSE <<Result(op, b[1]), Result(op, b[2])>>

MCCheck(op, a) == op = "access" => MCLeq(a, <<0, 2>>)

MCCode ==
    {0 :> "nop" @@ 1 :> a @@ 2 :> b @@ 3 :> c @@ 4 :> d : a \in Ops, b \in Ops, c \in Ops, d \in Ops}

(* The instructions of the liveness run.                                   *)
LoopOps == {"inc", "mean", "assume"}

LoopCode ==
    {0 :> "nop" @@ 1 :> a @@ 2 :> b @@ 3 :> c @@ 4 :> d :
       a \in {"mean", "assume"}, b \in LoopOps, c \in LoopOps, d \in LoopOps}

(* A loop in a loop; two loops in a row, an edge leading from inside the   *)
(* first to the head of the second; a loop entered in two places; a loop   *)
(* on itself in a loop.                                                    *)
LoopGraphs ==
    {0 :> {1} @@ 1 :> {2} @@ 2 :> {3} @@ 3 :> {2, 4} @@ 4 :> {1},
     0 :> {1} @@ 1 :> {2} @@ 2 :> {1, 3} @@ 3 :> {4} @@ 4 :> {3},
     0 :> {1} @@ 1 :> {2, 3} @@ 2 :> {3, 4} @@ 3 :> {2} @@ 4 :> {},
     0 :> {1} @@ 1 :> {2, 4} @@ 2 :> {2, 3} @@ 3 :> {1} @@ 4 :> {}}

(* Those and other jumps back and forth from 2, 3 and 4.                   *)
JumpGraphs ==
    LoopGraphs \cup
    {0 :> {1} @@ 1 :> {2} @@ 2 :> {3, a} @@ 3 :> {4, b} @@ 4 :> c :
       a \in {1, 2, 4}, b \in {1, 2}, c \in {{}, {1}, {3}}}
=============================================================================
