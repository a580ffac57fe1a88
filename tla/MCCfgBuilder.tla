---------------------------- MODULE MCCfgBuilder ----------------------------
(***************************************************************************)
(* Families of small programs for the CfgBuilder runs.                     *)
(***************************************************************************)
EXTENDS CfgProperties

Alu == [op |-> "alu", target |-> 0]
Helper == [op |-> "helper", target |-> 0]
Exit == [op |-> "exit", target |-> 0]
Undef == [op |-> "undef", target |-> 0]
Jcc(t) == [op |-> "jcc", target |-> t]
Ja(t) == [op |-> "ja", target |-> t]
Call(t) == [op |-> "call", target |-> t]

(* Every program without calls of at most 3 instructions; a jump may go    *)
(* one past the end.                                                       *)
FlatInsts(n) == {Alu, Exit, Undef} \cup {Jcc(t) : t \in 0..n} \cup {Ja(t) : t \in 0..n}

FlatPrograms == UNION {[1..n -> FlatInsts(n)] : n \in 0..3}

(* Every program of 5 instructions whose branches and calls go forward.    *)
ForwardInsts(n, pc) ==
    {Helper, Exit} \cup {Jcc(t) : t \in (pc + 1)..(n - 1)} \cup {Call(t) : t \in (pc + 1)..(n - 1)}

ForwardPrograms ==
    {<<a, b, c, d, e>> : a \in ForwardInsts(5, 0), b \in ForwardInsts(5, 1),
                         c \in ForwardInsts(5, 2), d \in ForwardInsts(5, 3), e \in {Helper, Exit}}

(* main calls f, f calls itself, main, a function that is not there, or g, *)
(* which does so in its turn.                                              *)
RecursivePrograms ==
    {<<Call(2), Exit, Call(t), Exit>> : t \in 0..4}
      \cup {<<Call(2), Exit, Call(4), Exit, Call(t), Exit>> : t \in 0..6}

(* main calls f in a loop.                                                 *)
LoopingPrograms ==
    {<<Call(2), Ja(0), Exit>>, <<Call(3), Ja(0), Exit, Helper, Exit>>,
     <<Helper, Call(4), Jcc(1), Exit, Call(6), Exit, Exit>>}

AllPrograms == FlatPrograms \cup ForwardPrograms \cup RecursivePrograms \cup LoopingPrograms
=============================================================================
