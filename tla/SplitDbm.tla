------------------------------- MODULE SplitDbm -------------------------------
(***************************************************************************)
(* The zone domain of crab/split_dbm.cpp: bounds of variables and bounds   *)
(* of their differences, kept as a weighted graph.  An edge of weight w    *)
(* from s to d says d - s <= w; edges at the vertex Zero are the bounds of *)
(* a variable.  "Split" means that the relations between variables and     *)
(* their bounds are closed apart: a relation that only follows from two    *)
(* bounds has no edge of its own.                                          *)
(*                                                                         *)
(* A vertex is named by its variable, weights are unbounded (number_t),    *)
(* and an edge that is not there weighs PlusInf.  The potentials are left  *)
(* out: they exist exactly when no cycle is negative, and serve to find    *)
(* that out and to order the shortest-path searches, which are modelled by *)
(* the edges they set.                                                     *)
(***************************************************************************)
EXTENDS Intervals, FiniteSetsExt

CONSTANTS
    Var,     \* variables
    Zero     \* the vertex 0

ASSUME VarAssumption == IsFiniteSet(Var) /\ Zero \notin Var

Node == Var \cup {Zero}
NoEdge == PlusInf

(***************************************************************************)
(* Graphs: the weight of every pair of vertices.                           *)
(***************************************************************************)
\* The comparison with EmptyGraph makes TLC evaluate a graph once.
EmptyGraph == [e \in {<<Zero, Zero>>} |-> NoEdge]
Evaluated(g) == IF g = EmptyGraph THEN EmptyGraph ELSE g
Graph(N, Weight(_, _)) == Evaluated([e \in N \X N |-> Weight(e[1], e[2])])
Graphs(N) == [N \X N -> Bound]
Vertices(g) == {e[1] : e \in DOMAIN g}
Edge(g, s, d) == IF <<s, d>> \in DOMAIN g THEN g[s, d] ELSE NoEdge
elem(g, s, d) == Edge(g, s, d) # NoEdge
Least(a, B) == CHOOSE b \in B \cup {a} : \A c \in B \cup {a} : BLeq(b, c)

update_edge(g, s, w, d) == [g EXCEPT ![<<s, d>>] = BMin(@, w)]
WithVertices(g, X) == IF X \subseteq Vertices(g) THEN g
                      ELSE Graph(Vertices(g) \cup X, LAMBDA s, d : Edge(g, s, d))

\* Mutant of ForgetVertices: edges to the vertices are left.
MutForget(g, F) == [e \in {f \in DOMAIN g : f[1] \notin F} |-> g[e]]

ForgetVertices(g, F) == Graph(Vertices(g) \ F, LAMBDA s, d : g[s, d])

\* Shortest paths through the variables.
ShortestPaths(g) ==
    FoldSet(LAMBDA m, h : Graph(Vertices(h), LAMBDA s, d : IF s = d THEN h[s, d]
                                                           ELSE BMin(h[s, d], BAdd(h[s, m], h[m, d]))),
            g, Vertices(g) \ {Zero})
\* In a closed graph a negative cycle shows between two vertices.
Feasible(g) == \A e \in DOMAIN g : BLeq(Fin(0), BAdd(g[e], g[e[2], e[1]]))

\* Restores closure between variables after the edge from i to j changed.
close_over_edge(g, i, j) ==
    LET c == g[i, j]
        variables == Vertices(g) \ {Zero}
        src == {s \in variables \ {j} : BLt(BAdd(g[s, i], c), g[s, j])}
        dest == {d \in variables \ {i} : BLt(BAdd(c, g[j, d]), g[i, d])}
    IN  Graph(Vertices(g), LAMBDA s, d :
            IF s \in src /\ d = j THEN BAdd(g[s, i], c)
            ELSE IF s = i /\ d \in dest THEN BAdd(c, g[j, d])
            ELSE IF s \in src /\ d \in dest THEN BMin(g[s, d], BAdd(BAdd(g[s, i], c), g[j, d]))
            ELSE g[s, d])

\* Edges from and to v through one more vertex: all there are when the rest
\* of the graph is closed.
close_after_assign(g, v) ==
    Graph(Vertices(g), LAMBDA s, d :
        IF s = d \/ v \notin {s, d} THEN g[s, d]
        ELSE Least(g[s, d], {BAdd(g[s, m], g[m, d]) : m \in Vertices(g) \ {s, d}}))

close_after_meet(g) == ShortestPaths(g)

\* is_stable holds of the vertices that are not searched from.
Searched(g, h, is_stable) ==
    Graph(Vertices(g), LAMBDA s, d : IF s \notin is_stable /\ Zero \notin {s, d} THEN h[s, d] ELSE g[s, d])
close_after_widen(g, is_stable) == Searched(g, ShortestPaths(g), is_stable)

\* Of two graphs with the same vertices.
JoinGraph(l, r) == Graph(Vertices(l), LAMBDA s, d : BMax(l[s, d], r[s, d]))
MeetGraph(l, r) == Graph(Vertices(l), LAMBDA s, d : BMin(l[s, d], r[s, d]))
WidenGraph(l, r) == Graph(Vertices(l), LAMBDA s, d : IF BLeq(r[s, d], l[s, d]) THEN l[s, d] ELSE NoEdge)
Unstable(l, g) == {s \in Vertices(l) : \E d \in Vertices(l) : elem(l, s, d) /\ ~ elem(g, s, d)}

(***************************************************************************)
(* Zones: a graph over the variables that have a vertex and Zero, or       *)
(* bottom.                                                                 *)
(***************************************************************************)
Zone(g) == [bottom |-> FALSE, g |-> g]
TopZone == Zone(EmptyGraph)
BottomZone == [TopZone EXCEPT !.bottom = TRUE]
VarsOf(z) == Vertices(z.g) \ {Zero}
is_top_zone(z) == ~ z.bottom /\ \A e \in DOMAIN z.g : z.g[e] = NoEdge

Get(z, x) == IF z.bottom THEN BottomI ELSE interval(BNeg(Edge(z.g, x, Zero)), Edge(z.g, Zero, x))

\* x = Zero stands for the number 0.
Operand(z, x) == IF x = Zero THEN Exactly(0) ELSE Get(z, x)

forget(z, x) == IF z.bottom \/ x \notin VarsOf(z) THEN z ELSE Zone(ForgetVertices(z.g, {x}))

\* SplitDBM::set, and that of AddBottom around it.
WithBounds(z, x, i) ==
    IF is_top(i) \/ z.bottom THEN z
    ELSE Zone([WithVertices(z.g, {x}) EXCEPT ![<<Zero, x>>] = i.ub, ![<<x, Zero>>] = BNeg(i.lb)])
SetBounds(z, x, i) == WithBounds(forget(z, x), x, i)
set(z, x, i) == IF is_bottom(i) THEN BottomZone ELSE SetBounds(z, x, i)

\* Linear expressions: a coefficient for each variable, and a constant.
Lin(c, k) == [c |-> c, k |-> k]
Term(x) == [y \in Var |-> IF y = x THEN 1 ELSE 0]
Scale(i, k) == IF k = 0 THEN Exactly(0) ELSE MulI(Exactly(k), i)
eval_interval(z, e) ==
    FoldSet(LAMBDA x, i : SumI(i, Scale(Get(z, x), e.c[x])), Exactly(e.k), {x \in Var : e.c[x] # 0})

\* What is left of e without one y, for each variable y that e adds.
Rests(z, e) == [y \in {v \in Var : e.c[v] > 0} |-> eval_interval(z, [e EXCEPT !.c[y] = @ - 1])]

\* Mutant of assign: relations are taken from the lower bound of the rest.
MutAssignTerms(z, x, rest) ==
    LET terms == {y \in DOMAIN rest \ {x} : ~ is_top(rest[y]) /\ ~ rest[y].lb.inf}
    IN  Zone(Graph(Vertices(z.g) \cup terms \cup {x},
                   LAMBDA s, d : IF d = x /\ s \in terms THEN rest[s].lb ELSE Edge(z.g, s, d)))
MutAssign(z, x, e) ==
    IF z.bottom THEN z ELSE MutAssignTerms(SetBounds(z, x, eval_interval(z, e)), x, Rests(z, e))

\* x := e.  The difference of x and a variable y of e is the rest of e.
AssignTerms(z, x, range, rest) ==
    LET terms == {y \in DOMAIN rest : ~ is_top(rest[y])}
        To(d) == {IF y = d THEN BNeg(rest[y].lb) ELSE BAdd(BNeg(rest[y].lb), Edge(z.g, y, d)) : y \in terms}
        From(s) == {IF y = s THEN rest[y].ub ELSE BAdd(Edge(z.g, s, y), rest[y].ub) : y \in terms}
    IN  IF is_singleton(range) \/ terms = {} THEN SetBounds(z, x, range)
        ELSE Zone(Graph(Vertices(z.g) \cup {x} \cup terms, LAMBDA s, d :
                 IF s = x /\ d = x THEN NoEdge
                 ELSE IF s = x THEN IF d = Zero THEN BNeg(range.lb) ELSE Least(NoEdge, To(d))
                 ELSE IF d = x THEN IF s = Zero THEN range.ub ELSE Least(NoEdge, From(s))
                 ELSE Edge(z.g, s, d)))
assign(z, x, e) == IF z.bottom THEN z ELSE AssignTerms(z, x, eval_interval(z, e), Rests(z, e))

(***************************************************************************)
(* Constraints: x rel y + k, for a variable or Zero on either side.        *)
(***************************************************************************)
Cst(rel, x, y, k) == [rel |-> rel, x |-> x, y |-> y, k |-> k]
Compares(rel, n) == CASE rel = "<=" -> n <= 0 [] rel = "<" -> n < 0 [] rel = "=" -> n = 0 [] rel = "#" -> n # 0
Negated(c) == CASE c.rel = "<=" -> [c EXCEPT !.rel = "<", !.x = c.y, !.y = c.x, !.k = -c.k]
                [] c.rel = "<" -> [c EXCEPT !.rel = "<=", !.x = c.y, !.y = c.x, !.k = -c.k]
                [] c.rel = "=" -> [c EXCEPT !.rel = "#"]
                [] c.rel = "#" -> [c EXCEPT !.rel = "="]

FeasibleZone(g) == IF Feasible(g) THEN Zone(g) ELSE BottomZone

\* Mutant of add_linear_leq: the relation is not closed over.
MutLeqOpen(z, x, y, k) == FeasibleZone(update_edge(WithVertices(z.g, {x, y}), y, Fin(k), x))

\* x <= y + k.  Bounds follow from the other side's, then the relation is
\* added and closed over, and Zero gets its shortest paths.
LowerBound(g, y, lb, w) == IF y = Zero \/ lb.inf THEN g ELSE update_edge(g, y, BSub(w, lb), Zero)
UpperBound(g, x, ub, w) == IF x = Zero \/ ub.inf THEN g ELSE update_edge(g, Zero, BAdd(ub, w), x)
Relation(g, y, w, x) == IF Zero \in {x, y} THEN g ELSE close_over_edge(update_edge(g, y, w, x), y, x)
add_linear_leq(z, x, y, k) ==
    IF z.bottom THEN z
    ELSE FeasibleZone(close_after_assign(
             Relation(UpperBound(LowerBound(WithVertices(z.g, {x, y}), y, Operand(z, x).lb, Fin(k)),
                                 x, Operand(z, y).ub, Fin(k)),
                      y, Fin(k), x), Zero))

\* x # n: a bound that equals n moves by one, and with it the bounds of the
\* variables related to x.
MoveBound(z, x, lower, w) ==
    FeasibleZone(Graph(Vertices(z.g), LAMBDA s, d :
        IF lower /\ d = Zero /\ s # Zero THEN IF s = x THEN w ELSE BMin(z.g[s, d], BAdd(z.g[s, x], w))
        ELSE IF ~ lower /\ s = Zero /\ d # Zero THEN IF d = x THEN w ELSE BMin(z.g[s, d], BAdd(w, z.g[x, d]))
        ELSE z.g[s, d]))
WithoutNumber(z, x, n, i) ==
    IF Fin(n) \notin {i.lb, i.ub} THEN z
    ELSE IF i.lb = i.ub THEN BottomZone
    ELSE MoveBound(z, x, i.lb = Fin(n), Fin(IF i.lb = Fin(n) THEN -(n + 1) ELSE n - 1))
add_univar_disequation(z, x, n) == WithoutNumber(z, x, n, Get(z, x))

\* x # i, when i is one number.
Exclude(z, x, i) ==
    IF x = Zero \/ ~ HasNumber(i) \/ z.bottom THEN z ELSE add_univar_disequation(z, x, i.lb.n)
ExcludeLeft(z, c) == Exclude(z, c.x, SumI(Operand(z, c.y), Exactly(c.k)))
ExcludeRight(z, c) == Exclude(z, c.y, DiffI(Operand(z, c.x), Exactly(c.k)))
Converse(z, c) == IF c.rel = "=" THEN add_linear_leq(z, c.y, c.x, -c.k) ELSE z

add_constraint(z, c) ==
    IF z.bottom THEN z
    ELSE IF c.x = c.y THEN IF Compares(c.rel, -c.k) THEN z ELSE BottomZone
    ELSE IF c.rel = "#" THEN ExcludeRight(ExcludeLeft(z, c), c)
    ELSE Converse(add_linear_leq(z, c.x, c.y, IF c.rel = "<" THEN c.k - 1 ELSE c.k), c)

(***************************************************************************)
(* Questions.                                                              *)
(***************************************************************************)
intersect(z, c) == ~ add_constraint(z, c).bottom

\* Mutant of entail: the lower bound is asked for.
MutEntail(z, c) ==
    LET i == DiffI(DiffI(Operand(z, c.x), Operand(z, c.y)), Exactly(c.k))
    IN  z.bottom \/ (~ i.lb.inf /\ BLeq(i.lb, Fin(0)))

KnownFrom(i, rel) ==
    CASE rel = "=" -> i = Exactly(0)
      [] rel = "<=" -> BLeq(i.ub, Fin(0))
      [] rel = "<" -> BLt(i.ub, Fin(0))
      [] rel = "#" -> BLt(i.ub, Fin(0)) \/ BLt(Fin(0), i.lb)
Inequalities(c) == IF c.rel = "=" THEN {[c EXCEPT !.rel = "<="], Cst("<=", c.y, c.x, -c.k)} ELSE {c}

entail(z, c) ==
    IF z.bottom THEN TRUE
    ELSE IF c.x = c.y THEN Compares(c.rel, -c.k)
    ELSE \/ KnownFrom(DiffI(DiffI(Operand(z, c.x), Operand(z, c.y)), Exactly(c.k)), c.rel)
         \/ \A d \in Inequalities(c) : ~ intersect(z, Negated(d))

\* Mutant of leq: bounds are not compared.
MutLeq(a, b) ==
    \/ a.bottom
    \/ ~ b.bottom /\ \A s \in Var, d \in Var : BLeq(Edge(a.g, s, d), Edge(b.g, s, d))

leq(a, b) ==
    IF a.bottom THEN TRUE
    ELSE IF b.bottom THEN FALSE
    ELSE IF is_top_zone(b) THEN TRUE
    ELSE /\ ~ is_top_zone(a)
         /\ Cardinality(VarsOf(a)) >= Cardinality(VarsOf(b))
         /\ \A x \in VarsOf(b) \ VarsOf(a) : \A y \in Vertices(b.g) : ~ elem(b.g, x, y) /\ ~ elem(b.g, y, x)
         /\ \A s \in Vertices(b.g), d \in Vertices(b.g) :
                elem(b.g, s, d) => \/ BLeq(Edge(a.g, s, d), b.g[s, d])
                                   \/ BLeq(BAdd(Edge(a.g, s, Zero), Edge(a.g, Zero, d)), b.g[s, d])

(***************************************************************************)
(* Join, widening and meet.                                                *)
(***************************************************************************)
\* What r relates, as the bounds of l have it.
Deferred(l, r) ==
    Graph(Vertices(l), LAMBDA s, d :
                        IF Zero \notin {s, d} /\ elem(r, s, d)
                        THEN BAdd(l[s, Zero], l[Zero, d]) ELSE NoEdge)

\* Relations that hold because of bounds on both sides, where the bounds
\* of s and d moved in one direction.
ReapplyBounds(g, l, r) ==
    LET Both(s, d) == elem(l, s, d) /\ elem(r, s, d)
        variables == Vertices(g) \ {Zero}
        lb_up == {v \in variables : Both(v, Zero) /\ BLt(r[v, Zero], l[v, Zero])}
        lb_down == {v \in variables : Both(v, Zero) /\ BLt(l[v, Zero], r[v, Zero])}
        ub_up == {v \in variables : Both(Zero, v) /\ BLt(l[Zero, v], r[Zero, v])}
        ub_down == {v \in variables : Both(Zero, v) /\ BLt(r[Zero, v], l[Zero, v])}
        Hulled(s, d) == BMax(BAdd(l[s, Zero], l[Zero, d]), BAdd(r[s, Zero], r[Zero, d]))
    IN  Graph(Vertices(g), LAMBDA s, d :
            IF s # d /\ <<s, d>> \in (lb_up \X ub_up) \cup (lb_down \X ub_down)
            THEN BMin(g[s, d], Hulled(s, d)) ELSE g[s, d])

OnlyUsed(g) ==
    ForgetVertices(g, {v \in Vertices(g) \ {Zero} : \A y \in Vertices(g) : ~ elem(g, v, y) /\ ~ elem(g, y, v)})
CommonPart(a, b) == ForgetVertices(a.g, VarsOf(a) \ VarsOf(b))
JoinClosed(l, r) ==
    OnlyUsed(ReapplyBounds(JoinGraph(close_after_meet(MeetGraph(l, Deferred(l, r))),
                                     close_after_meet(MeetGraph(r, Deferred(r, l)))), l, r))

join(a, b) ==
    IF a.bottom THEN b
    ELSE IF b.bottom THEN a
    ELSE IF is_top_zone(b) THEN b
    ELSE IF is_top_zone(a) THEN a
    ELSE Zone(JoinClosed(CommonPart(a, b), CommonPart(b, a)))

\* normalize takes the unstable vertices for the stable ones.
normalize(g, unstable) ==
    IF unstable = {} THEN g ELSE close_after_assign(close_after_widen(g, unstable), Zero)
Normalized(l, g) == normalize(g, Unstable(l, g))
WidenClosed(l, r) == Normalized(l, WidenGraph(l, r))
widen(a, b) ==
    IF a.bottom THEN b
    ELSE IF b.bottom THEN a
    ELSE Zone(WidenClosed(CommonPart(a, b), CommonPart(b, a)))

meet(a, b) ==
    IF a.bottom \/ b.bottom THEN BottomZone
    ELSE IF is_top_zone(a) THEN b
    ELSE IF is_top_zone(b) THEN a
    ELSE FeasibleZone(close_after_assign(close_after_meet(
             MeetGraph(WithVertices(a.g, VarsOf(b)), WithVertices(b.g, VarsOf(a)))), Zero))

narrow(a, b) == IF a.bottom \/ b.bottom THEN BottomZone ELSE IF is_top_zone(a) THEN b ELSE a
=============================================================================
