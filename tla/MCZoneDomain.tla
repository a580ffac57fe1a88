----------------------------- MODULE MCZoneDomain -----------------------------
EXTENDS ZoneDomain

CONSTANTS x, y, v

SmallValues == -1 .. 1
Sum(a, b) == [w \in Var |-> Term(a)[w] + Term(b)[w]]
Difference(a, b) == [w \in Var |-> Term(a)[w] - Term(b)[w]]

SomeCsts == {Cst("<=", x, y, 0), Cst("<", x, v, 0), Cst("=", y, v, -1), Cst("<=", Zero, v, 0),
             Cst("#", y, Zero, -1), Cst("<=", v, x, 1)}
SomeQuestions == {Cst("<=", x, y, 0), Cst("#", x, Zero, 0)}
SomeAssigns == {<<x, Lin(Term(y), 1)>>, <<v, Lin(Sum(x, y), 0)>>, <<y, Lin(Difference(x, v), -1)>>}
SomeRanges == {<<x, Between(0, 1)>>}
=============================================================================
