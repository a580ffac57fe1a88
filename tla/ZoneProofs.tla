----------------------------- MODULE ZoneProofs -----------------------------
(***************************************************************************)
(* Proofs that no operation on a zone loses a point, and that what the     *)
(* analysis concludes from a zone holds in every point of it: for all      *)
(* zones over any finite set of variables, all weights and all points.     *)
(***************************************************************************)
EXTENDS ZoneDomain, IntervalsProofs, FiniteInduction

(* Graphs over a set of vertices with Zero, whose weights are numbers or,  *)
(* where there is no edge, PlusInf.                                        *)
GraphOn(N) == [N \X N -> Upper]
NodeSets == {N \in SUBSET Node : Zero \in N}
WellFormed(z) == z.bottom \in BOOLEAN /\ \E N \in NodeSets : z.g \in GraphOn(N)

Points == [Var -> Int]

(* d - s of a point is within a bound; a point fits a graph within all.    *)
IsWithin(p, s, d, w) == BLeq(Fin(Value(p, d) - Value(p, s)), w)
Fits(p, g) == \A e \in DOMAIN g : IsWithin(p, e[1], e[2], g[e])

(* The value of a node is a number.                                        *)
LEMMA ValueIsInt == ASSUME NEW p \in Points, NEW s \in Node PROVE Value(p, s) \in Int
BY DEF Value, Points, Node

(* Evaluated only makes TLC compute a function.                            *)
LEMMA EvaluatedSame == \A g : Evaluated(g) = g
BY DEF Evaluated

(* The vertices of a graph over N.                                         *)
LEMMA VerticesOf ==
    ASSUME NEW N \in NodeSets, NEW g \in GraphOn(N)
    PROVE  /\ DOMAIN g = N \X N
           /\ Vertices(g) = N
<1>1. DOMAIN g = N \X N
  BY DEF GraphOn
<1>2. ASSUME NEW s \in N PROVE <<s, s>> \in N \X N /\ <<s, s>>[1] = s
  OBVIOUS
<1>3. QED
  BY <1>1, <1>2 DEF Vertices

(* A pair without an edge is within PlusInf.                               *)
LEMMA NoEdgeFits ==
    /\ NoEdge \in Upper
    /\ \A n \in Int : BLeq(Fin(n), NoEdge)
<1>1. NoEdge \in Upper /\ NoEdge.inf
  BY DEF NoEdge, PlusInf, Upper, Bound
<1>2. QED
  BY <1>1, UpperGeq

(* The weight of any pair, an edge or not.                                 *)
LEMMA EdgeFits ==
    ASSUME NEW N \in NodeSets, NEW g \in GraphOn(N), NEW p \in Points, Fits(p, g),
           NEW s \in Node, NEW d \in Node
    PROVE  Edge(g, s, d) \in Upper /\ IsWithin(p, s, d, Edge(g, s, d))
<1>1. Value(p, d) - Value(p, s) \in Int
  BY ValueIsInt
<1>2. CASE <<s, d>> \in DOMAIN g
  <2>1. Edge(g, s, d) = g[<<s, d>>]
    BY <1>2 DEF Edge
  <2>2. g[<<s, d>>] \in Upper
    BY <1>2 DEF GraphOn
  <2>3. IsWithin(p, <<s, d>>[1], <<s, d>>[2], g[<<s, d>>])
    BY <1>2 DEF Fits
  <2>4. QED
    BY <2>1, <2>2, <2>3
<1>3. CASE <<s, d>> \notin DOMAIN g
  BY <1>1, <1>3, NoEdgeFits DEF Edge, IsWithin
<1>4. QED
  BY <1>2, <1>3

(* The difference along two edges is within their sum.                     *)
LEMMA PathFits ==
    ASSUME NEW p \in Points, NEW s \in Node, NEW m \in Node, NEW d \in Node,
           NEW a \in Upper, NEW b \in Upper, IsWithin(p, s, m, a), IsWithin(p, m, d, b)
    PROVE  BAdd(a, b) \in Upper /\ IsWithin(p, s, d, BAdd(a, b))
<1> DEFINE i == Value(p, m) - Value(p, s)
           j == Value(p, d) - Value(p, m)
<1>1. i \in Int /\ j \in Int /\ i + j = Value(p, d) - Value(p, s)
  BY ValueIsInt
<1>2. BLeq(Fin(i), a) /\ BLeq(Fin(j), b)
  BY DEF IsWithin
<1>3. BLeq(Fin(i + j), BAdd(a, b))
  BY <1>1, <1>2, SumUpper
<1>4. BAdd(a, b) \in Upper
  BY AddUpper
<1>5. QED
  BY <1>1, <1>3, <1>4 DEF IsWithin

(* A looser bound.                                                         *)
LEMMA LooserFits ==
    ASSUME NEW p \in Points, NEW s \in Node, NEW d \in Node,
           NEW a \in Upper, NEW b \in Upper, IsWithin(p, s, d, a), BLeq(a, b)
    PROVE  IsWithin(p, s, d, b)
<1> DEFINE i == Value(p, d) - Value(p, s)
<1>1. i \in Int
  BY ValueIsInt
<1>2. Fin(i) \in Extended /\ a \in Extended /\ b \in Extended
  BY <1>1, ExtendedHas
<1>3. QED
  BY <1>2, OrderTotal DEF IsWithin

-----------------------------------------------------------------------------
(* What a zone says of one variable.                                       *)
LEMMA ExactlyIs ==
    ASSUME NEW n \in Int
    PROVE  Exactly(n) \in Proper /\ contains(Exactly(n), n)
<1>1. Exactly(n) = [lb |-> Fin(n), ub |-> Fin(n)] /\ contains(Exactly(n), n)
  BY BetweenHolds DEF Exactly
<1>2. Fin(n) \in Lower /\ Fin(n) \in Upper
  BY DEF Fin, Lower, Upper, Bound
<1>3. QED
  BY <1>1, <1>2 DEF Proper

(* The interval a zone gives a variable.                                   *)
LEMMA GetCovers ==
    ASSUME NEW z, WellFormed(z), NEW p \in Points, In(p, z), NEW x \in Node
    PROVE  Operand(z, x) \in Proper /\ contains(Operand(z, x), Value(p, x))
<1>1. CASE x = Zero
  <2>1. Value(p, x) = 0
    BY <1>1 DEF Value
  <2>2. Operand(z, x) = Exactly(0)
    BY <1>1 DEF Operand
  <2>3. QED
    BY <2>1, <2>2, ExactlyIs
<1>2. CASE x # Zero
  <2>1. PICK N \in NodeSets : z.g \in GraphOn(N)
    BY DEF WellFormed
  <2>2. ~ z.bottom /\ Fits(p, z.g)
    BY DEF In, Fits, IsWithin
  <2>3. Zero \in Node /\ Value(p, Zero) = 0 /\ Value(p, x) \in Int
    BY ValueIsInt DEF Node, Value
  <2> DEFINE n == Value(p, x)
             l == Edge(z.g, x, Zero)
             u == Edge(z.g, Zero, x)
  <2>4. l \in Upper /\ IsWithin(p, x, Zero, l) /\ u \in Upper /\ IsWithin(p, Zero, x, u)
    BY <2>1, <2>2, <2>3, EdgeFits
  <2>5. 0 - n = -n /\ n - 0 = n
    BY <2>3
  <2>6. BLeq(Fin(-n), l) /\ BLeq(Fin(n), u)
    BY <2>3, <2>4, <2>5 DEF IsWithin
  <2>7. BNeg(l) \in Lower
    BY <2>4, Negation
  <2>8. BLeq(BNeg(l), Fin(n))
    <3>1. -n \in Int /\ -(-n) = n
      BY <2>3
    <3>2. BLeq(BNeg(l), Fin(-(-n)))
      BY <2>4, <2>6, <3>1, NegationMirrors
    <3>3. QED
      BY <3>1, <3>2
  <2>9. Operand(z, x) = interval(BNeg(l), u)
    BY <1>2, <2>2 DEF Operand, Get
  <2> HIDE DEF l, u, n
  <2>10. QED
    BY <2>3, <2>4, <2>6, <2>7, <2>8, <2>9, IntervalKeeps DEF n
<1>3. QED
  BY <1>1, <1>2

(* Changing the weight of one pair, adding vertices.                       *)
LEMMA UpdateEdgeFits ==
    ASSUME NEW N \in NodeSets, NEW g \in GraphOn(N), NEW p \in Points, Fits(p, g),
           NEW s \in N, NEW d \in N, NEW w \in Upper, IsWithin(p, s, d, w)
    PROVE  update_edge(g, s, w, d) \in GraphOn(N) /\ Fits(p, update_edge(g, s, w, d))
<1> DEFINE h == update_edge(g, s, w, d)
           sd == <<s, d>>
<1>1. DOMAIN g = N \X N /\ sd \in N \X N /\ g[sd] \in Upper
  BY DEF GraphOn
<1>2. h = [g EXCEPT ![sd] = BMin(g[sd], w)]
  BY DEF update_edge
<1>3. Value(p, d) - Value(p, s) \in Int
  BY ValueIsInt DEF NodeSets
<1>4. IsWithin(p, s, d, g[sd])
  BY <1>1 DEF Fits
<1>5. BMin(g[sd], w) \in Upper /\ IsWithin(p, s, d, BMin(g[sd], w))
  BY <1>1, <1>3, <1>4, MinUpper DEF IsWithin
<1>6. h \in GraphOn(N)
  BY <1>1, <1>2, <1>5 DEF GraphOn
<1>7. ASSUME NEW e \in N \X N
      PROVE  IsWithin(p, e[1], e[2], h[e])
  <2>1. CASE e = sd
    <3>1. h[e] = BMin(g[sd], w) /\ e[1] = s /\ e[2] = d
      BY <1>1, <1>2, <2>1
    <3>2. QED
      BY <1>5, <3>1
  <2>2. CASE e # sd
    <3>1. h[e] = g[e] /\ e \in DOMAIN g
      BY <1>1, <1>2, <2>2
    <3>2. IsWithin(p, e[1], e[2], g[e])
      BY <3>1 DEF Fits
    <3>3. QED
      BY <3>1, <3>2
  <2>3. QED
    BY <2>1, <2>2
<1>8. DOMAIN h = N \X N
  BY <1>6 DEF GraphOn
<1> HIDE DEF h
<1>9. QED
  BY <1>6, <1>7, <1>8 DEF Fits, h

(* New vertices come without edges.                                        *)
LEMMA WithVerticesFits ==
    ASSUME NEW N \in NodeSets, NEW g \in GraphOn(N), NEW p \in Points, Fits(p, g),
           NEW X \in SUBSET Node
    PROVE  /\ N \cup X \in NodeSets
           /\ WithVertices(g, X) \in GraphOn(N \cup X)
           /\ Fits(p, WithVertices(g, X))
<1> DEFINE M == N \cup X
           h == [e \in M \X M |-> Edge(g, e[1], e[2])]
<1>1. M \in NodeSets /\ M \subseteq Node
  BY DEF NodeSets
<1>2. Vertices(g) = N
  BY VerticesOf
<1>3. CASE X \subseteq N
  <2>1. WithVertices(g, X) = g /\ M = N
    BY <1>2, <1>3 DEF WithVertices
  <2>2. QED
    BY <1>1, <2>1
<1>4. CASE ~ (X \subseteq N)
  <2>1. WithVertices(g, X) = h
    BY <1>2, <1>4, EvaluatedSame DEF WithVertices, Graph
  <2>2. ASSUME NEW e \in M \X M
        PROVE  Edge(g, e[1], e[2]) \in Upper /\ IsWithin(p, e[1], e[2], Edge(g, e[1], e[2]))
    BY <1>1, EdgeFits
  <2>3. h \in GraphOn(M)
    BY <2>2 DEF GraphOn
  <2>4. Fits(p, h)
    BY <2>2 DEF Fits
  <2>5. QED
    BY <1>1, <2>1, <2>3, <2>4
<1>5. QED
  BY <1>3, <1>4

(* Closure after the edge from i to j changed.                             *)
LEMMA CloseOverEdgeFits ==
    ASSUME NEW N \in NodeSets, NEW g \in GraphOn(N), NEW p \in Points, Fits(p, g),
           NEW i \in N, NEW j \in N
    PROVE  close_over_edge(g, i, j) \in GraphOn(N) /\ Fits(p, close_over_edge(g, i, j))
<1> DEFINE c == g[<<i, j>>]
           variables == Vertices(g) \ {Zero}
           src == {s \in variables \ {j} : BLt(BAdd(g[<<s, i>>], c), g[<<s, j>>])}
           dest == {d \in variables \ {i} : BLt(BAdd(c, g[<<j, d>>]), g[<<i, d>>])}
           W(s, d) == IF s \in src /\ d = j THEN BAdd(g[<<s, i>>], c)
                      ELSE IF s = i /\ d \in dest THEN BAdd(c, g[<<j, d>>])
                      ELSE IF s \in src /\ d \in dest
                      THEN BMin(g[<<s, d>>], BAdd(BAdd(g[<<s, i>>], c), g[<<j, d>>]))
                      ELSE g[<<s, d>>]
           h == [e \in N \X N |-> W(e[1], e[2])]
<1>1. close_over_edge(g, i, j) = h
  BY VerticesOf, EvaluatedSame DEF close_over_edge, Graph
<1>2. \A s, d \in N : g[<<s, d>>] \in Upper /\ IsWithin(p, s, d, g[<<s, d>>])
  BY DEF GraphOn, Fits
<1>3. N \subseteq Node
  BY DEF NodeSets
<1>4. ASSUME NEW s \in N, NEW d \in N
      PROVE  W(s, d) \in Upper /\ IsWithin(p, s, d, W(s, d))
  <2> DEFINE a == BAdd(g[<<s, i>>], c)
             b == BAdd(c, g[<<j, d>>])
             ab == BAdd(a, g[<<j, d>>])
  <2>1. a \in Upper /\ IsWithin(p, s, j, a)
    BY <1>2, <1>3, PathFits
  <2>2. b \in Upper /\ IsWithin(p, i, d, b)
    BY <1>2, <1>3, PathFits
  <2> HIDE DEF a
  <2>3. ab \in Upper /\ IsWithin(p, s, d, ab)
    BY <1>2, <1>3, <2>1, PathFits
  <2>4. Value(p, d) - Value(p, s) \in Int
    BY <1>3, ValueIsInt
  <2> HIDE DEF b, ab
  <2>5. BMin(g[<<s, d>>], ab) \in Upper /\ IsWithin(p, s, d, BMin(g[<<s, d>>], ab))
    BY <1>2, <2>3, <2>4, MinUpper DEF IsWithin
  <2>6. W(s, d) = IF s \in src /\ d = j THEN a
                  ELSE IF s = i /\ d \in dest THEN b
                  ELSE IF s \in src /\ d \in dest THEN BMin(g[<<s, d>>], ab)
                  ELSE g[<<s, d>>]
    BY DEF a, b, ab
  <2> HIDE DEF W, src, dest
  <2>7. QED
    BY <1>2, <2>1, <2>2, <2>5, <2>6
<1> HIDE DEF W
<1>5. h \in GraphOn(N) /\ Fits(p, h)
  BY <1>4 DEF GraphOn, Fits
<1>6. QED
  BY <1>1, <1>5

(* A finite set of bounds has a least one.                                 *)
LEMMA FiniteLeast ==
    ASSUME NEW B \in SUBSET Upper, IsFiniteSet(B), B # {}
    PROVE  \E b \in B : \A c \in B : BLeq(b, c)
<1> DEFINE Has(S) == \E b \in S : \A c \in S : BLeq(b, c)
           Lacking == {S \in SUBSET B : S # {} /\ ~ Has(S)}
           Sizes == {Cardinality(S) : S \in Lacking}
<1>1. \A S \in SUBSET B : IsFiniteSet(S) /\ Cardinality(S) \in Nat
  BY FS_Subset, FS_CardinalityType
<1>2. /\ \A a \in B : BLeq(a, a)
      /\ \A a, b \in B : ~ BLeq(a, b) => BLeq(b, a)
      /\ \A a, b, c \in B : BLeq(a, b) /\ BLeq(b, c) => BLeq(a, c)
  BY OrderTotal, ExtendedHas
<1>3. ASSUME Lacking # {} PROVE FALSE
  <2>1. Sizes \in SUBSET Nat /\ Sizes # {}
    BY <1>1, <1>3
  <2>2. PICK k \in Sizes : \A l \in Sizes : k <= l
    BY <2>1, LeastExists
  <2>3. PICK S \in Lacking : Cardinality(S) = k
    BY <2>2
  <2>4. PICK x \in S : TRUE
    BY <2>3
  <2> DEFINE T == S \ {x}
  <2>5. T \in SUBSET B /\ Cardinality(T) = Cardinality(S) - 1 /\ S = T \cup {x} /\ x \in B
    BY <1>1, <2>3, <2>4, FS_RemoveElement
  <2>6. T \notin Lacking
    <3>1. SUFFICES ASSUME T \in Lacking PROVE FALSE
      OBVIOUS
    <3>2. Cardinality(T) \in Sizes
      BY <3>1
    <3>3. k \in Nat /\ k <= Cardinality(T)
      BY <2>1, <2>2, <3>2
    <3>4. QED
      BY <2>3, <2>5, <3>3
  <2>7. ~ Has(S)
    BY <2>3
  <2>8. CASE T = {}
    <3>1. S = {x} /\ BLeq(x, x)
      <4>1. S = {x}
        BY <2>5, <2>8
      <4>2. BLeq(x, x)
        BY <1>2, <2>5
      <4>3. QED
        BY <4>1, <4>2
    <3>2. \A c \in S : BLeq(x, c)
      BY <3>1
    <3>3. QED
      BY <2>4, <2>7, <3>2
  <2>9. CASE T # {}
    <3>1. PICK b \in T : \A c \in T : BLeq(b, c)
      BY <2>5, <2>6, <2>9
    <3>2. b \in B
      BY <2>5
    <3>3. CASE BLeq(b, x)
      BY <2>5, <2>7, <3>1, <3>3
    <3>4. CASE ~ BLeq(b, x)
      <4>1. BLeq(x, b) /\ BLeq(x, x)
        BY <1>2, <2>5, <3>2, <3>4
      <4>2. \A c \in T : BLeq(x, c)
        BY <1>2, <2>5, <3>1, <3>2, <4>1
      <4>3. \A c \in S : BLeq(x, c)
        BY <2>5, <4>1, <4>2
      <4>4. QED
        BY <2>4, <2>7, <4>3
    <3>5. QED
      BY <3>3, <3>4
  <2>10. QED
    BY <2>8, <2>9
<1>4. QED
  BY <1>3

(* The shortest of an edge and a finite set of paths.                      *)
LEMMA LeastIs ==
    ASSUME NEW a \in Upper, NEW B \in SUBSET Upper, IsFiniteSet(B)
    PROVE  Least(a, B) \in B \cup {a}
<1> DEFINE C == B \cup {a}
<1>1. C \in SUBSET Upper /\ IsFiniteSet(C) /\ C # {}
  BY FS_AddElement
<1>2. \E b \in C : \A c \in C : BLeq(b, c)
  BY <1>1, FiniteLeast
<1>3. Least(a, B) = CHOOSE b \in C : \A c \in C : BLeq(b, c)
  BY DEF Least
<1> HIDE DEF C
<1>4. QED
  BY <1>2, <1>3 DEF C

(* Closure around one vertex.                                              *)
LEMMA CloseAfterAssignFits ==
    ASSUME NEW N \in NodeSets, NEW g \in GraphOn(N), NEW p \in Points, Fits(p, g), NEW v
    PROVE  close_after_assign(g, v) \in GraphOn(N) /\ Fits(p, close_after_assign(g, v))
<1> DEFINE Paths(s, d) == {BAdd(g[<<s, m>>], g[<<m, d>>]) : m \in N \ {s, d}}
           W(s, d) == IF s = d \/ v \notin {s, d} THEN g[<<s, d>>]
                      ELSE Least(g[<<s, d>>], Paths(s, d))
           h == [e \in N \X N |-> W(e[1], e[2])]
<1>1. close_after_assign(g, v) = h
  BY VerticesOf, EvaluatedSame DEF close_after_assign, Graph
<1>2. \A s, d \in N : g[<<s, d>>] \in Upper /\ IsWithin(p, s, d, g[<<s, d>>])
  BY DEF GraphOn, Fits
<1>3. N \subseteq Node /\ IsFiniteSet(N)
  <2>1. IsFiniteSet(Node)
    BY VarAssumption, FS_AddElement DEF Node
  <2>2. QED
    BY <2>1, FS_Subset DEF NodeSets
<1>4. ASSUME NEW s \in N, NEW d \in N
      PROVE  W(s, d) \in Upper /\ IsWithin(p, s, d, W(s, d))
  <2>1. ASSUME NEW m \in N \ {s, d}
        PROVE  /\ BAdd(g[<<s, m>>], g[<<m, d>>]) \in Upper
               /\ IsWithin(p, s, d, BAdd(g[<<s, m>>], g[<<m, d>>]))
    BY <1>2, <1>3, PathFits
  <2>2. Paths(s, d) \subseteq Upper /\ \A w \in Paths(s, d) : IsWithin(p, s, d, w)
    BY <2>1
  <2>3. IsFiniteSet(Paths(s, d))
    <3>1. IsFiniteSet(N \ {s, d})
      BY <1>3, FS_Subset
    <3> DEFINE f == [m \in N \ {s, d} |-> BAdd(g[<<s, m>>], g[<<m, d>>])]
    <3>2. f \in Surjection(N \ {s, d}, Paths(s, d))
      BY DEF Surjection
    <3> HIDE DEF f, Paths
    <3>3. QED
      BY <3>1, <3>2, FS_Surjection
  <2>4. Least(g[<<s, d>>], Paths(s, d)) \in Paths(s, d) \cup {g[<<s, d>>]}
    BY <1>2, <2>2, <2>3, LeastIs
  <2> HIDE DEF Paths
  <2>5. QED
    BY <1>2, <2>2, <2>4
<1> HIDE DEF W
<1>5. h \in GraphOn(N) /\ Fits(p, h)
  BY <1>4 DEF GraphOn, Fits
<1>6. QED
  BY <1>1, <1>5

(* A graph that a point fits has no negative cycle.                        *)
LEMMA FeasibleFits ==
    ASSUME NEW N \in NodeSets, NEW g \in GraphOn(N), NEW p \in Points, Fits(p, g)
    PROVE  WellFormed(FeasibleZone(g)) /\ In(p, FeasibleZone(g))
<1>1. \A s, d \in N : g[<<s, d>>] \in Upper /\ IsWithin(p, s, d, g[<<s, d>>])
  BY DEF GraphOn, Fits
<1>2. N \subseteq Node
  BY DEF NodeSets
<1>3. ASSUME NEW e \in N \X N
      PROVE  BLeq(Fin(0), BAdd(g[e], g[<<e[2], e[1]>>]))
  <2>1. PICK s \in N, d \in N : e = <<s, d>>
    OBVIOUS
  <2>2. IsWithin(p, s, s, BAdd(g[<<s, d>>], g[<<d, s>>]))
    BY <1>1, <1>2, PathFits
  <2>3. Value(p, s) - Value(p, s) = 0
    BY <1>2, ValueIsInt
  <2>4. QED
    BY <2>1, <2>2, <2>3 DEF IsWithin
<1>4. DOMAIN g = N \X N
  BY DEF GraphOn
<1>5. FeasibleZone(g) = Zone(g)
  BY <1>3, <1>4 DEF FeasibleZone, Feasible
<1>6. Zone(g).bottom = FALSE /\ Zone(g).g = g
  BY DEF Zone
<1>7. QED
  BY <1>5, <1>6 DEF WellFormed, In, Fits, IsWithin

-----------------------------------------------------------------------------
(* operator<=: the fixpoint iteration stops on it.  Neither zone has to be *)
(* closed.                                                                 *)
LEMMA LeqSound ==
    ASSUME NEW a, NEW b, WellFormed(a), WellFormed(b), leq(a, b),
           NEW p \in Points, In(p, a)
    PROVE  In(p, b)
<1>1. ~ a.bottom
  BY DEF In
<1>2. ~ b.bottom
  BY <1>1 DEF leq
<1>3. PICK N \in NodeSets : b.g \in GraphOn(N)
  BY DEF WellFormed
<1>4. PICK M \in NodeSets : a.g \in GraphOn(M)
  BY DEF WellFormed
<1>5. Fits(p, a.g)
  BY DEF In, Fits, IsWithin
<1>6. ASSUME NEW s \in N, NEW d \in N
      PROVE  IsWithin(p, s, d, b.g[<<s, d>>])
  <2>1. s \in Node /\ d \in Node /\ Zero \in Node /\ Value(p, d) - Value(p, s) \in Int
    BY ValueIsInt DEF NodeSets, Node
  <2>2. <<s, d>> \in DOMAIN b.g /\ b.g[<<s, d>>] \in Upper
    BY <1>3 DEF GraphOn
  <2>3. CASE b.g[<<s, d>>] = NoEdge
    BY <2>1, <2>3, NoEdgeFits DEF IsWithin
  <2>4. CASE b.g[<<s, d>>] # NoEdge
    <3>1. elem(b.g, s, d)
      BY <2>2, <2>4 DEF elem, Edge
    <3>2. ~ is_top_zone(b)
      BY <2>2, <2>4 DEF is_top_zone
    <3>3. s \in Vertices(b.g) /\ d \in Vertices(b.g)
      BY <1>3, VerticesOf
    <3>4. \/ BLeq(Edge(a.g, s, d), b.g[<<s, d>>])
          \/ BLeq(BAdd(Edge(a.g, s, Zero), Edge(a.g, Zero, d)), b.g[<<s, d>>])
      BY <1>1, <1>2, <3>1, <3>2, <3>3 DEF leq
    <3>5. Edge(a.g, s, d) \in Upper /\ IsWithin(p, s, d, Edge(a.g, s, d))
      BY <1>4, <1>5, <2>1, EdgeFits
    <3>6. Edge(a.g, s, Zero) \in Upper /\ IsWithin(p, s, Zero, Edge(a.g, s, Zero))
      BY <1>4, <1>5, <2>1, EdgeFits
    <3>7. Edge(a.g, Zero, d) \in Upper /\ IsWithin(p, Zero, d, Edge(a.g, Zero, d))
      BY <1>4, <1>5, <2>1, EdgeFits
    <3>8. /\ BAdd(Edge(a.g, s, Zero), Edge(a.g, Zero, d)) \in Upper
          /\ IsWithin(p, s, d, BAdd(Edge(a.g, s, Zero), Edge(a.g, Zero, d)))
      BY <2>1, <3>6, <3>7, PathFits
    <3>9. QED
      BY <2>1, <2>2, <3>4, <3>5, <3>8, LooserFits
  <2>5. QED
    BY <2>3, <2>4
<1>7. \A e \in DOMAIN b.g : IsWithin(p, e[1], e[2], b.g[e])
  BY <1>3, <1>6 DEF GraphOn
<1>8. QED
  BY <1>2, <1>7 DEF In, IsWithin

(* LeqIsInclusion: for any two zones, the first being below the second     *)
(* means that every point of the first is one of the second, which is how  *)
(* the analysis decides that an invariant is stable.                       *)
THEOREM LeqIsInclusion ==
    ASSUME WellFormed(zone[1]), WellFormed(zone[2])
    PROVE  SubsumptionSound
<1>1. Grid \subseteq Points
  BY ValuesAssumption DEF Grid, Points
<1>2. QED
  BY <1>1, LeqSound DEF SubsumptionSound

-----------------------------------------------------------------------------
(* Adding constraints: no point that satisfies one is lost.                *)
LEMMA LowerBoundFits ==
    ASSUME NEW N \in NodeSets, NEW g \in GraphOn(N), NEW p \in Points, Fits(p, g),
           NEW x \in N, NEW y \in N, NEW k \in Int, Value(p, x) - Value(p, y) <= k,
           NEW l \in Lower, BLeq(l, Fin(Value(p, x)))
    PROVE  LowerBound(g, y, l, Fin(k)) \in GraphOn(N) /\ Fits(p, LowerBound(g, y, l, Fin(k)))
<1> DEFINE m == Value(p, x)
           n == Value(p, y)
           w == BSub(Fin(k), l)
<1>1. Zero \in N /\ x \in Node /\ y \in Node /\ m \in Int /\ n \in Int /\ Value(p, Zero) = 0
  BY ValueIsInt DEF NodeSets, Value
<1>2. Fin(k) \in Upper /\ Fin(k).inf = FALSE /\ Fin(k).n = k
  BY DEF Fin, Upper, Bound
<1>3. BLeq(Fin(m - n), Fin(k))
  BY <1>1, <1>2, UpperGeq
<1>4. BNeg(l) \in Upper /\ BLeq(Fin(-m), BNeg(l))
  BY <1>1, Negation, NegationMirrors
<1>5. (m - n) + (-m) = 0 - n /\ m - n \in Int /\ -m \in Int
  BY <1>1
<1>6. BLeq(Fin(0 - n), w)
  BY <1>2, <1>3, <1>4, <1>5, SumUpper DEF BSub
<1>7. w \in Upper /\ IsWithin(p, y, Zero, w)
  BY <1>1, <1>2, <1>4, <1>6, AddUpper DEF BSub, IsWithin
<1> HIDE DEF w
<1>8. update_edge(g, y, w, Zero) \in GraphOn(N) /\ Fits(p, update_edge(g, y, w, Zero))
  BY <1>1, <1>7, UpdateEdgeFits
<1>9. LowerBound(g, y, l, Fin(k)) \in {g, update_edge(g, y, w, Zero)}
  BY DEF LowerBound, w
<1>10. QED
  BY <1>8, <1>9

(* An upper bound of a variable.                                           *)
LEMMA UpperBoundFits ==
    ASSUME NEW N \in NodeSets, NEW g \in GraphOn(N), NEW p \in Points, Fits(p, g),
           NEW x \in N, NEW y \in N, NEW k \in Int, Value(p, x) - Value(p, y) <= k,
           NEW u \in Upper, BLeq(Fin(Value(p, y)), u)
    PROVE  UpperBound(g, x, u, Fin(k)) \in GraphOn(N) /\ Fits(p, UpperBound(g, x, u, Fin(k)))
<1> DEFINE m == Value(p, x)
           n == Value(p, y)
           w == BAdd(u, Fin(k))
<1>1. Zero \in N /\ x \in Node /\ y \in Node /\ m \in Int /\ n \in Int /\ Value(p, Zero) = 0
  BY ValueIsInt DEF NodeSets, Value
<1>2. Fin(k) \in Upper /\ Fin(k).inf = FALSE /\ Fin(k).n = k
  BY DEF Fin, Upper, Bound
<1>3. BLeq(Fin(m - n), Fin(k))
  BY <1>1, <1>2, UpperGeq
<1>4. n + (m - n) = m - 0 /\ m - n \in Int
  BY <1>1
<1>5. BLeq(Fin(m - 0), w)
  BY <1>1, <1>2, <1>3, <1>4, SumUpper
<1>6. w \in Upper /\ IsWithin(p, Zero, x, w)
  BY <1>1, <1>2, <1>5, AddUpper DEF IsWithin
<1> HIDE DEF w
<1>7. update_edge(g, Zero, w, x) \in GraphOn(N) /\ Fits(p, update_edge(g, Zero, w, x))
  BY <1>1, <1>6, UpdateEdgeFits
<1>8. UpperBound(g, x, u, Fin(k)) \in {g, update_edge(g, Zero, w, x)}
  BY DEF UpperBound, w
<1>9. QED
  BY <1>7, <1>8

(* A bound of the difference of two variables.                             *)
LEMMA RelationFits ==
    ASSUME NEW N \in NodeSets, NEW g \in GraphOn(N), NEW p \in Points, Fits(p, g),
           NEW x \in N, NEW y \in N, NEW w \in Upper, IsWithin(p, y, x, w)
    PROVE  Relation(g, y, w, x) \in GraphOn(N) /\ Fits(p, Relation(g, y, w, x))
<1> DEFINE h == update_edge(g, y, w, x)
<1>1. h \in GraphOn(N) /\ Fits(p, h)
  BY UpdateEdgeFits
<1> HIDE DEF h
<1>2. close_over_edge(h, y, x) \in GraphOn(N) /\ Fits(p, close_over_edge(h, y, x))
  BY <1>1, CloseOverEdgeFits
<1>3. Relation(g, y, w, x) \in {g, close_over_edge(h, y, x)}
  BY DEF Relation, h
<1>4. QED
  BY <1>2, <1>3

LEMMA AddLinearLeqKeeps ==
    ASSUME NEW z, WellFormed(z), NEW p \in Points, In(p, z),
           NEW x \in Node, NEW y \in Node, NEW k \in Int, Value(p, x) - Value(p, y) <= k
    PROVE  WellFormed(add_linear_leq(z, x, y, k)) /\ In(p, add_linear_leq(z, x, y, k))
<1>1. PICK N \in NodeSets : z.g \in GraphOn(N)
  BY DEF WellFormed
<1>2. ~ z.bottom /\ Fits(p, z.g)
  BY DEF In, Fits, IsWithin
<1> DEFINE M == N \cup {x, y}
           l == Operand(z, x).lb
           u == Operand(z, y).ub
           g0 == WithVertices(z.g, {x, y})
           g1 == LowerBound(g0, y, l, Fin(k))
           g2 == UpperBound(g1, x, u, Fin(k))
           g3 == Relation(g2, y, Fin(k), x)
           g4 == close_after_assign(g3, Zero)
<1>3. M \in NodeSets /\ g0 \in GraphOn(M) /\ Fits(p, g0) /\ x \in M /\ y \in M
  BY <1>1, <1>2, WithVerticesFits
<1>4. l \in Lower /\ BLeq(l, Fin(Value(p, x))) /\ u \in Upper /\ BLeq(Fin(Value(p, y)), u)
  BY GetCovers DEF contains, Proper
<1> HIDE DEF M, l, u, g0
<1>5. g1 \in GraphOn(M) /\ Fits(p, g1)
  BY <1>3, <1>4, LowerBoundFits
<1> HIDE DEF g1
<1>6. g2 \in GraphOn(M) /\ Fits(p, g2)
  BY <1>3, <1>4, <1>5, UpperBoundFits
<1> HIDE DEF g2
<1>7. Fin(k) \in Upper /\ IsWithin(p, y, x, Fin(k))
  <2>1. Fin(k) \in Upper /\ Fin(k).inf = FALSE /\ Fin(k).n = k
    BY DEF Fin, Upper, Bound
  <2>2. Value(p, x) - Value(p, y) \in Int
    BY ValueIsInt
  <2>3. QED
    BY <2>1, <2>2, UpperGeq DEF IsWithin
<1>8. g3 \in GraphOn(M) /\ Fits(p, g3)
  BY <1>3, <1>6, <1>7, RelationFits
<1> HIDE DEF g3
<1>9. g4 \in GraphOn(M) /\ Fits(p, g4)
  BY <1>3, <1>8, CloseAfterAssignFits
<1>10. add_linear_leq(z, x, y, k) = FeasibleZone(g4)
  BY <1>2 DEF add_linear_leq, g3, g2, g1, g0, l, u
<1> HIDE DEF g4
<1>11. QED
  BY <1>3, <1>9, <1>10, FeasibleFits

(* A bound moves by one, and with it those of the related variables.       *)
LEMMA MoveBoundKeeps ==
    ASSUME NEW z, NEW N \in NodeSets, z.g \in GraphOn(N), NEW p \in Points, Fits(p, z.g),
           NEW x \in N, NEW lower \in BOOLEAN, NEW w \in Upper,
           IF lower THEN IsWithin(p, x, Zero, w) ELSE IsWithin(p, Zero, x, w)
    PROVE  WellFormed(MoveBound(z, x, lower, w)) /\ In(p, MoveBound(z, x, lower, w))
<1> DEFINE g == z.g
           W(s, d) == IF lower /\ d = Zero /\ s # Zero
                      THEN IF s = x THEN w ELSE BMin(g[<<s, d>>], BAdd(g[<<s, x>>], w))
                      ELSE IF ~ lower /\ s = Zero /\ d # Zero
                      THEN IF d = x THEN w ELSE BMin(g[<<s, d>>], BAdd(w, g[<<x, d>>]))
                      ELSE g[<<s, d>>]
           h == [e \in N \X N |-> W(e[1], e[2])]
<1>1. MoveBound(z, x, lower, w) = FeasibleZone(h)
  BY VerticesOf, EvaluatedSame DEF MoveBound, Graph
<1>2. \A s, d \in N : g[<<s, d>>] \in Upper /\ IsWithin(p, s, d, g[<<s, d>>])
  BY DEF GraphOn, Fits
<1>3. N \subseteq Node /\ Zero \in N
  BY DEF NodeSets
<1>4. ASSUME NEW s \in N, NEW d \in N
      PROVE  W(s, d) \in Upper /\ IsWithin(p, s, d, W(s, d))
  <2>1. Value(p, d) - Value(p, s) \in Int
    BY <1>3, ValueIsInt
  <2>2. CASE lower /\ d = Zero /\ s # Zero
    <3> DEFINE a == BAdd(g[<<s, x>>], w)
    <3>1. IsWithin(p, x, d, w)
      BY <2>2
    <3>2. a \in Upper /\ IsWithin(p, s, d, a)
      BY <1>2, <1>3, <3>1, PathFits
    <3> HIDE DEF a
    <3>3. BMin(g[<<s, d>>], a) \in Upper /\ IsWithin(p, s, d, BMin(g[<<s, d>>], a))
      BY <1>2, <2>1, <3>2, MinUpper DEF IsWithin
    <3>4. W(s, d) = IF s = x THEN w ELSE BMin(g[<<s, d>>], a)
      BY <2>2 DEF a
    <3> HIDE DEF W
    <3>5. QED
      BY <3>1, <3>3, <3>4
  <2>3. CASE ~ lower /\ s = Zero /\ d # Zero
    <3> DEFINE a == BAdd(w, g[<<x, d>>])
    <3>1. IsWithin(p, s, x, w)
      BY <2>3
    <3>2. a \in Upper /\ IsWithin(p, s, d, a)
      BY <1>2, <1>3, <3>1, PathFits
    <3> HIDE DEF a
    <3>3. BMin(g[<<s, d>>], a) \in Upper /\ IsWithin(p, s, d, BMin(g[<<s, d>>], a))
      BY <1>2, <2>1, <3>2, MinUpper DEF IsWithin
    <3>4. W(s, d) = IF d = x THEN w ELSE BMin(g[<<s, d>>], a)
      BY <2>3 DEF a
    <3> HIDE DEF W
    <3>5. QED
      BY <3>1, <3>3, <3>4
  <2>4. CASE ~ (lower /\ d = Zero /\ s # Zero) /\ ~ (~ lower /\ s = Zero /\ d # Zero)
    <3>1. W(s, d) = g[<<s, d>>]
      BY <2>4
    <3>2. QED
      BY <1>2, <3>1
  <2>5. QED
    BY <2>2, <2>3, <2>4
<1> HIDE DEF W
<1>5. h \in GraphOn(N) /\ Fits(p, h)
  BY <1>4 DEF GraphOn, Fits
<1> HIDE DEF h
<1>6. QED
  BY <1>1, <1>5, FeasibleFits

(* Cutting off a number that is no value of the variable.                  *)
LEMMA WithoutNumberKeeps ==
    ASSUME NEW z, WellFormed(z), NEW p \in Points, In(p, z),
           NEW x \in Var, NEW n \in Int, p[x] # n
    PROVE  WellFormed(add_univar_disequation(z, x, n)) /\ In(p, add_univar_disequation(z, x, n))
<1> DEFINE i == Get(z, x)
           m == Value(p, x)
           lower == i.lb = Fin(n)
           w == Fin(IF lower THEN -(n + 1) ELSE n - 1)
<1>1. PICK N \in NodeSets : z.g \in GraphOn(N)
  BY DEF WellFormed
<1>2. ~ z.bottom /\ Fits(p, z.g)
  BY DEF In, Fits, IsWithin
<1>3. x \in Node /\ x # Zero /\ Zero \in Node /\ Zero \in N /\ m = p[x] /\ m \in Int /\ Value(p, Zero) = 0
  BY VarAssumption, ValueIsInt DEF Node, NodeSets, Value
<1>4. i \in Proper /\ contains(i, m)
  <2>1. Operand(z, x) = i
    BY <1>3 DEF Operand
  <2>2. QED
    BY <1>3, <2>1, GetCovers
<1>5. i.lb \in Lower /\ i.ub \in Upper /\ BLeq(i.lb, Fin(m)) /\ BLeq(Fin(m), i.ub)
  BY <1>4 DEF Proper, contains
<1>6. Fin(n).inf = FALSE /\ Fin(n).n = n /\ Fin(n) \in Lower /\ Fin(n) \in Upper
  BY DEF Fin, Lower, Upper, Bound
<1>7. CASE Fin(n) \notin {i.lb, i.ub}
  BY <1>7 DEF add_univar_disequation, WithoutNumber
<1>8. CASE Fin(n) \in {i.lb, i.ub}
  <2>1. i.lb # i.ub
    <3>1. SUFFICES ASSUME i.lb = i.ub PROVE FALSE
      OBVIOUS
    <3>2. BLeq(Fin(n), Fin(m)) /\ BLeq(Fin(m), Fin(n))
      BY <1>5, <1>8, <3>1
    <3>3. n <= m /\ m <= n
      BY <1>3, <1>6, <3>2, LowerLeq, UpperGeq
    <3>4. QED
      BY <1>3, <3>3
  <2>2. add_univar_disequation(z, x, n) = MoveBound(z, x, lower, w)
    BY <1>8, <2>1 DEF add_univar_disequation, WithoutNumber
  <2>3. x \in N
    <3>1. SUFFICES ASSUME x \notin N PROVE FALSE
      OBVIOUS
    <3>2. Edge(z.g, x, Zero) = NoEdge /\ Edge(z.g, Zero, x) = NoEdge
      <4>1. DOMAIN z.g = N \X N
        BY <1>1, VerticesOf
      <4>2. <<x, Zero>> \notin N \X N /\ <<Zero, x>> \notin N \X N
        BY <3>1
      <4>3. QED
        BY <4>1, <4>2 DEF Edge
    <3>3. i = [lb |-> MinusInf, ub |-> PlusInf]
      <4>1. BNeg(NoEdge) = MinusInf /\ NoEdge = PlusInf
        BY DEF BNeg, NoEdge, PlusInf, MinusInf
      <4>2. MinusInf \in Lower /\ PlusInf \in Upper /\ MinusInf.inf
        BY DEF MinusInf, PlusInf, Lower, Upper, Bound
      <4>3. ~ BLt(PlusInf, MinusInf)
        BY <4>2, LowerUpper
      <4>4. QED
        BY <1>2, <3>2, <4>1, <4>3 DEF Get, interval
    <3>4. QED
      BY <1>6, <1>8, <3>3 DEF MinusInf, PlusInf
  <2>4. lower \in BOOLEAN /\ w \in Upper
    <3>1. \A k \in Int : Fin(k) \in Upper
      BY DEF Fin, Upper, Bound
    <3>2. -(n + 1) \in Int /\ n - 1 \in Int
      OBVIOUS
    <3>3. QED
      BY <3>1, <3>2
  <2>5. IF lower THEN IsWithin(p, x, Zero, w) ELSE IsWithin(p, Zero, x, w)
    <3>1. CASE lower
      <4>1. n <= m
        BY <1>3, <1>5, <1>6, <3>1, LowerLeq
      <4>2. 0 - m <= -(n + 1) /\ 0 - m \in Int
        BY <1>3, <4>1
      <4>3. w = Fin(-(n + 1)) /\ w.n = -(n + 1)
        BY <3>1 DEF Fin
      <4>4. BLeq(Fin(0 - m), w)
        BY <2>4, <4>2, <4>3, UpperGeq
      <4>5. QED
        BY <1>3, <3>1, <4>4 DEF IsWithin
    <3>2. CASE ~ lower
      <4>1. i.ub = Fin(n)
        BY <1>8, <3>2
      <4>2. m <= n
        BY <1>3, <1>5, <1>6, <4>1, UpperGeq
      <4>3. m - 0 <= n - 1 /\ m - 0 \in Int
        BY <1>3, <4>2
      <4>4. w = Fin(n - 1) /\ w.n = n - 1
        BY <3>2 DEF Fin
      <4>5. BLeq(Fin(m - 0), w)
        BY <2>4, <4>3, <4>4, UpperGeq
      <4>6. QED
        BY <1>3, <3>2, <4>5 DEF IsWithin
    <3>3. QED
      BY <3>1, <3>2
  <2> HIDE DEF lower, w
  <2>6. QED
    BY <1>1, <1>2, <2>2, <2>3, <2>4, <2>5, MoveBoundKeeps
<1>9. QED
  BY <1>7, <1>8

(* The same where the number is given as an interval.                      *)
LEMMA ExcludeKeeps ==
    ASSUME NEW z, WellFormed(z), NEW p \in Points, In(p, z), NEW x \in Node,
           NEW i \in Proper, NEW n \in Int, contains(i, n), Value(p, x) # n
    PROVE  WellFormed(Exclude(z, x, i)) /\ In(p, Exclude(z, x, i))
<1>1. CASE x = Zero \/ ~ HasNumber(i) \/ z.bottom
  BY <1>1 DEF Exclude
<1>2. CASE ~ (x = Zero \/ ~ HasNumber(i) \/ z.bottom)
  <2>1. /\ i.lb \in Lower /\ i.ub \in Upper /\ BLeq(i.lb, Fin(n)) /\ BLeq(Fin(n), i.ub)
        /\ i.lb = i.ub /\ ~ i.lb.inf /\ i.lb.n \in Int
    BY <1>2 DEF Proper, contains, HasNumber, is_singleton, Lower, Bound
  <2>2. i.lb.n <= n /\ n <= i.lb.n
    BY <2>1, LowerLeq, UpperGeq
  <2>3. i.lb.n = n
    BY <2>1, <2>2
  <2>4. x \in Var /\ Value(p, x) = p[x]
    BY <1>2 DEF Node, Value
  <2>5. Exclude(z, x, i) = add_univar_disequation(z, x, n)
    BY <1>2, <2>3 DEF Exclude
  <2>6. QED
    BY <2>4, <2>5, WithoutNumberKeeps
<1>3. QED
  BY <1>1, <1>2

Constraints == [rel : {"<=", "<", "=", "#"}, x : Node, y : Node, k : Int]

(* The four relations as comparisons with 0.                               *)
LEMMA ComparesIs ==
    \A n \in Int : /\ Compares("<=", n) <=> n <= 0
                   /\ Compares("<", n) <=> n < 0
                   /\ Compares("=", n) <=> n = 0
                   /\ Compares("#", n) <=> n # 0
BY DEF Compares

(* AddConstraintKeeps: add_constraint loses no point that satisfies the    *)
(* constraint, with the closure after the edge, the tightening of the      *)
(* bounds of related variables and the cutting of disequations that it     *)
(* does.                                                                   *)
THEOREM AddConstraintKeeps ==
    ASSUME NEW z, WellFormed(z), NEW p \in Points, In(p, z),
           NEW c \in Constraints, Holds(c, p)
    PROVE  WellFormed(add_constraint(z, c)) /\ In(p, add_constraint(z, c))
<1> DEFINE m == Value(p, c.x)
           n == Value(p, c.y)
<1>1. c.x \in Node /\ c.y \in Node /\ c.k \in Int /\ c.rel \in {"<=", "<", "=", "#"}
  BY DEF Constraints
<1>2. m \in Int /\ n \in Int /\ m - n - c.k \in Int
  BY <1>1, ValueIsInt
<1>3. Compares(c.rel, m - n - c.k)
  BY DEF Holds
<1>4. ~ z.bottom
  BY DEF In
<1> HIDE DEF m, n
<1>5. CASE c.x = c.y
  <2>1. m = n /\ m - n - c.k = -c.k
    BY <1>1, <1>2, <1>5 DEF m, n
  <2>2. add_constraint(z, c) = z
    BY <1>3, <1>4, <1>5, <2>1 DEF add_constraint
  <2>3. QED
    BY <2>2
<1>6. CASE c.x # c.y /\ c.rel = "#"
  <2> DEFINE i == SumI(Operand(z, c.y), Exactly(c.k))
             z1 == Exclude(z, c.x, i)
             j == DiffI(Operand(z1, c.x), Exactly(c.k))
             z2 == Exclude(z1, c.y, j)
  <2>1. m # n + c.k /\ n # m - c.k /\ n + c.k \in Int /\ m - c.k \in Int
    BY <1>1, <1>2, <1>3, <1>6, ComparesIs
  <2>2. Exactly(c.k) \in Proper /\ contains(Exactly(c.k), c.k)
    BY <1>1, ExactlyIs
  <2>3. i \in Proper /\ contains(i, n + c.k)
    BY <1>1, <1>2, <2>2, GetCovers, SumCovers DEF n
  <2> HIDE DEF i
  <2>4. WellFormed(z1) /\ In(p, z1)
    BY <1>1, <2>1, <2>3, ExcludeKeeps DEF m
  <2> HIDE DEF z1
  <2>5. j \in Proper /\ contains(j, m - c.k)
    BY <1>1, <1>2, <2>2, <2>4, GetCovers, DiffCovers DEF m
  <2> HIDE DEF j
  <2>6. WellFormed(z2) /\ In(p, z2)
    BY <1>1, <2>1, <2>4, <2>5, ExcludeKeeps DEF n
  <2>7. add_constraint(z, c) = z2
    BY <1>4, <1>6 DEF add_constraint, ExcludeLeft, ExcludeRight, z1, i, j
  <2>8. QED
    BY <2>6, <2>7
<1>7. CASE c.x # c.y /\ c.rel # "#"
  <2> DEFINE k == IF c.rel = "<" THEN c.k - 1 ELSE c.k
             z1 == add_linear_leq(z, c.x, c.y, k)
  <2>1. k \in Int /\ m - n <= k
    <3>1. CASE c.rel = "<"
      BY <1>1, <1>2, <1>3, <3>1, ComparesIs
    <3>2. CASE c.rel = "<="
      BY <1>1, <1>2, <1>3, <3>2, ComparesIs
    <3>3. CASE c.rel = "="
      BY <1>1, <1>2, <1>3, <3>3, ComparesIs
    <3>4. QED
      BY <1>1, <1>7, <3>1, <3>2, <3>3
  <2>2. add_constraint(z, c) = Converse(z1, c)
    BY <1>4, <1>7 DEF add_constraint
  <2> HIDE DEF k
  <2>3. WellFormed(z1) /\ In(p, z1)
    BY <1>1, <2>1, AddLinearLeqKeeps DEF m, n
  <2> HIDE DEF z1
  <2>4. CASE c.rel = "="
    <3>1. n - m <= -c.k /\ -c.k \in Int
      BY <1>1, <1>2, <1>3, <2>4, ComparesIs
    <3>2. /\ WellFormed(add_linear_leq(z1, c.y, c.x, -c.k))
          /\ In(p, add_linear_leq(z1, c.y, c.x, -c.k))
      BY <1>1, <2>3, <3>1, AddLinearLeqKeeps DEF m, n
    <3>3. QED
      BY <2>2, <2>4, <3>2 DEF Converse
  <2>5. CASE c.rel # "="
    BY <2>2, <2>3, <2>5 DEF Converse
  <2>6. QED
    BY <2>4, <2>5
<1>8. QED
  BY <1>5, <1>6, <1>7

(* The checker's questions.                                                *)
LEMMA IntersectSound ==
    ASSUME NEW z, WellFormed(z), NEW p \in Points, In(p, z),
           NEW c \in Constraints, Holds(c, p)
    PROVE  intersect(z, c)
<1>1. In(p, add_constraint(z, c))
  BY AddConstraintKeeps
<1>2. QED
  BY <1>1 DEF intersect, In

(* Where a constraint fails, its negation holds.                           *)
LEMMA NegatedIs ==
    ASSUME NEW c \in Constraints, NEW p \in Points
    PROVE  Negated(c) \in Constraints /\ (~ Holds(c, p) => Holds(Negated(c), p))
<1> DEFINE m == Value(p, c.x)
           n == Value(p, c.y)
           t == m - n - c.k
           u == n - m - (-c.k)
<1>1. /\ c.x \in Node /\ c.y \in Node /\ c.k \in Int /\ -c.k \in Int
      /\ c.rel \in {"<=", "<", "=", "#"}
      /\ c = [rel |-> c.rel, x |-> c.x, y |-> c.y, k |-> c.k]
  BY DEF Constraints
<1>2. m \in Int /\ n \in Int /\ t \in Int /\ u \in Int /\ u = -t
  BY <1>1, ValueIsInt
<1>3. CASE c.rel \in {"<=", "<"}
  <2> DEFINE d == [c EXCEPT !.rel = IF c.rel = "<=" THEN "<" ELSE "<=", !.x = c.y, !.y = c.x, !.k = -c.k]
  <2>1. Negated(c) = d
    BY <1>3 DEF Negated
  <2>2. /\ d \in Constraints /\ d.x = c.y /\ d.y = c.x /\ d.k = -c.k
        /\ d.rel = IF c.rel = "<=" THEN "<" ELSE "<="
    BY <1>1, <1>3 DEF Constraints
  <2>3. (Holds(c, p) <=> Compares(c.rel, t)) /\ (Holds(d, p) <=> Compares(d.rel, u))
    BY <2>2 DEF Holds
  <2> HIDE DEF d, t, u
  <2>4. ~ Compares(c.rel, t) => Compares(d.rel, u)
    BY <1>2, <1>3, <2>2, ComparesIs
  <2>5. QED
    BY <2>1, <2>2, <2>3, <2>4
<1>4. CASE c.rel \in {"=", "#"}
  <2> DEFINE d == [c EXCEPT !.rel = IF c.rel = "=" THEN "#" ELSE "="]
  <2>1. Negated(c) = d
    BY <1>4 DEF Negated
  <2>2. /\ d \in Constraints /\ d.x = c.x /\ d.y = c.y /\ d.k = c.k
        /\ d.rel = IF c.rel = "=" THEN "#" ELSE "="
    BY <1>1, <1>4 DEF Constraints
  <2>3. (Holds(c, p) <=> Compares(c.rel, t)) /\ (Holds(d, p) <=> Compares(d.rel, t))
    BY <2>2 DEF Holds
  <2> HIDE DEF d, t, u
  <2>4. ~ Compares(c.rel, t) => Compares(d.rel, t)
    BY <1>2, <1>4, <2>2, ComparesIs
  <2>5. QED
    BY <2>1, <2>2, <2>3, <2>4
<1>5. QED
  BY <1>1, <1>3, <1>4

(* What an interval decides is so of each number in it.                    *)
LEMMA KnownFromSound ==
    ASSUME NEW i \in Proper, NEW t \in Int, contains(i, t),
           NEW rel \in {"<=", "<", "=", "#"}, KnownFrom(i, rel)
    PROVE  Compares(rel, t)
<1>1. i.lb \in Lower /\ i.ub \in Upper /\ BLeq(i.lb, Fin(t)) /\ BLeq(Fin(t), i.ub)
  BY DEF Proper, contains
<1>2. /\ Fin(0) \in Lower /\ Fin(0) \in Upper /\ Fin(0).inf = FALSE /\ Fin(0).n = 0
      /\ i.lb.inf \in BOOLEAN /\ i.lb.n \in Int /\ i.ub.inf \in BOOLEAN /\ i.ub.n \in Int
  BY <1>1 DEF Fin, Lower, Upper, Bound
<1>3. (i.lb.inf \/ i.lb.n <= t) /\ (i.ub.inf \/ t <= i.ub.n)
  BY <1>1, LowerLeq, UpperGeq
<1>4. BLeq(i.ub, Fin(0)) => t <= 0
  BY <1>1, <1>2, <1>3, CompareUpper
<1>5. BLt(i.ub, Fin(0)) => t < 0
  BY <1>1, <1>2, <1>3, LowerUpper
<1>6. BLt(Fin(0), i.lb) => t > 0
  BY <1>1, <1>2, <1>3, LowerUpper
<1>7. i = Exactly(0) => t = 0
  <2>1. Exactly(0) = [lb |-> Fin(0), ub |-> Fin(0)]
    BY BetweenHolds DEF Exactly
  <2>2. QED
    BY <1>2, <1>3, <2>1
<1>8. CASE rel = "="
  <2>1. t = 0
    BY <1>7, <1>8 DEF KnownFrom
  <2>2. QED
    BY <1>8, <2>1, ComparesIs
<1>9. CASE rel = "<="
  <2>1. BLeq(i.ub, Fin(0))
    BY <1>9 DEF KnownFrom
  <2>2. t <= 0
    BY <1>4, <2>1
  <2>3. QED
    BY <1>9, <2>2, ComparesIs
<1>10. CASE rel = "<"
  <2>1. BLt(i.ub, Fin(0))
    BY <1>10 DEF KnownFrom
  <2>2. t < 0
    BY <1>5, <2>1
  <2>3. QED
    BY <1>10, <2>2, ComparesIs
<1>11. CASE rel = "#"
  <2>1. BLt(i.ub, Fin(0)) \/ BLt(Fin(0), i.lb)
    BY <1>11 DEF KnownFrom
  <2>2. t < 0 \/ t > 0
    BY <1>5, <1>6, <2>1
  <2>3. t # 0
    BY <2>2
  <2>4. QED
    BY <1>11, <2>3, ComparesIs
<1>12. QED
  BY <1>8, <1>9, <1>10, <1>11

(* A constraint that is entailed holds in every point.                     *)
LEMMA EntailSound ==
    ASSUME NEW z, WellFormed(z), NEW p \in Points, In(p, z),
           NEW c \in Constraints, entail(z, c)
    PROVE  Holds(c, p)
<1> DEFINE m == Value(p, c.x)
           n == Value(p, c.y)
           t == m - n - c.k
           i == DiffI(DiffI(Operand(z, c.x), Operand(z, c.y)), Exactly(c.k))
<1>1. c.x \in Node /\ c.y \in Node /\ c.k \in Int /\ c.rel \in {"<=", "<", "=", "#"}
  BY DEF Constraints
<1>2. m \in Int /\ n \in Int /\ m - n \in Int /\ t \in Int
  BY <1>1, ValueIsInt
<1>3. Holds(c, p) <=> Compares(c.rel, t)
  BY DEF Holds
<1>4. ~ z.bottom
  BY DEF In
<1>5. CASE c.x = c.y
  <2>1. t = -c.k
    BY <1>1, <1>2, <1>5
  <2>2. QED
    BY <1>3, <1>4, <1>5, <2>1 DEF entail
<1>6. CASE c.x # c.y /\ KnownFrom(i, c.rel)
  <2>1. /\ Operand(z, c.x) \in Proper /\ contains(Operand(z, c.x), m)
        /\ Operand(z, c.y) \in Proper /\ contains(Operand(z, c.y), n)
        /\ Exactly(c.k) \in Proper /\ contains(Exactly(c.k), c.k)
    BY <1>1, GetCovers, ExactlyIs
  <2> HIDE DEF m, n
  <2>2. /\ DiffI(Operand(z, c.x), Operand(z, c.y)) \in Proper
        /\ contains(DiffI(Operand(z, c.x), Operand(z, c.y)), m - n)
    BY <1>2, <2>1, DiffCovers
  <2>3. i \in Proper /\ contains(i, t)
    BY <1>1, <1>2, <2>1, <2>2, DiffCovers
  <2> HIDE DEF i, t
  <2>4. QED
    BY <1>1, <1>2, <1>3, <1>6, <2>3, KnownFromSound
<1>7. CASE c.x # c.y /\ \A d \in Inequalities(c) : ~ intersect(z, Negated(d))
  <2>1. Inequalities(c) \subseteq Constraints
    BY <1>1 DEF Inequalities, Constraints, Cst
  <2>2. \A d \in Inequalities(c) : Holds(d, p)
    BY <1>7, <2>1, NegatedIs, IntersectSound
  <2>3. CASE c.rel # "="
    BY <2>2, <2>3 DEF Inequalities
  <2>4. CASE c.rel = "="
    <3> DEFINE d == [c EXCEPT !.rel = "<="]
               e == Cst("<=", c.y, c.x, -c.k)
    <3>1. d \in Inequalities(c) /\ e \in Inequalities(c)
      BY <2>4 DEF Inequalities
    <3>2. d.rel = "<=" /\ d.x = c.x /\ d.y = c.y /\ d.k = c.k
      BY DEF Constraints
    <3>3. e.rel = "<=" /\ e.x = c.y /\ e.y = c.x /\ e.k = -c.k
      BY DEF Cst
    <3>4. Compares("<=", t)
      BY <2>2, <3>1, <3>2 DEF Holds
    <3>5. Compares("<=", n - m - (-c.k))
      BY <2>2, <3>1, <3>3 DEF Holds
    <3> HIDE DEF m, n
    <3>6. t <= 0 /\ n - m - (-c.k) <= 0
      BY <1>1, <1>2, <3>4, <3>5, ComparesIs
    <3>7. t = 0
      BY <1>1, <1>2, <3>6
    <3>8. QED
      BY <1>3, <2>4, <3>7, ComparesIs
  <2>5. QED
    BY <2>3, <2>4
<1>8. QED
  BY <1>4, <1>5, <1>6, <1>7 DEF entail

(* QuestionsAreSound: for any zone, what entail answers yes to holds in    *)
(* every point, and what intersect answers no to in none. The checker      *)
(* accepts an access on these answers.                                     *)
THEOREM QuestionsAreSound ==
    ASSUME WellFormed(zone[1])
    PROVE  QuestionsSound
<1>1. Grid \subseteq Points
  BY ValuesAssumption DEF Grid, Points
<1>2. Questions \subseteq Constraints
  BY QuestionsAssumption DEF Relations, Constraints
<1>3. QED
  BY <1>1, <1>2, EntailSound, IntersectSound DEF QuestionsSound

-----------------------------------------------------------------------------
(* What the transformer does to one variable.                              *)

(* The weight of one pair is set.                                          *)
LEMMA SetEdgeFits ==
    ASSUME NEW N \in NodeSets, NEW g \in GraphOn(N), NEW p \in Points, Fits(p, g),
           NEW s \in N, NEW d \in N, NEW w \in Upper, IsWithin(p, s, d, w)
    PROVE  [g EXCEPT ![<<s, d>>] = w] \in GraphOn(N) /\ Fits(p, [g EXCEPT ![<<s, d>>] = w])
<1> DEFINE sd == <<s, d>>
           h == [g EXCEPT ![sd] = w]
<1>1. DOMAIN g = N \X N /\ sd \in N \X N
  BY DEF GraphOn
<1>2. h \in GraphOn(N)
  BY <1>1 DEF GraphOn
<1>3. ASSUME NEW e \in N \X N
      PROVE  IsWithin(p, e[1], e[2], h[e])
  <2>1. CASE e = sd
    <3>1. h[e] = w /\ e[1] = s /\ e[2] = d
      BY <1>1, <2>1
    <3>2. QED
      BY <3>1
  <2>2. CASE e # sd
    <3>1. h[e] = g[e] /\ e \in DOMAIN g
      BY <1>1, <2>2
    <3>2. IsWithin(p, e[1], e[2], g[e])
      BY <3>1 DEF Fits
    <3>3. QED
      BY <3>1, <3>2
  <2>3. QED
    BY <2>1, <2>2
<1>4. DOMAIN h = N \X N
  BY <1>2 DEF GraphOn
<1> HIDE DEF h
<1>5. QED
  BY <1>2, <1>3, <1>4 DEF Fits, h

(* ForgetKeeps: forget leaves the variable any value and the others theirs,*)
(* which is all the transformer does when it does not know a result.       *)
THEOREM ForgetKeeps ==
    ASSUME NEW z, WellFormed(z), NEW p \in Points, In(p, z), NEW x \in Var, NEW n \in Int
    PROVE  WellFormed(forget(z, x)) /\ In([p EXCEPT ![x] = n], forget(z, x))
<1> DEFINE q == [p EXCEPT ![x] = n]
           y == forget(z, x)
<1>1. PICK N \in NodeSets : z.g \in GraphOn(N)
  BY DEF WellFormed
<1>2. z.bottom = FALSE /\ Fits(p, z.g)
  BY DEF In, Fits, IsWithin, WellFormed
<1>3. q \in Points /\ \A s \in Node \ {x} : Value(q, s) = Value(p, s)
  BY DEF Points, Node, Value
<1> DEFINE M == N \ {x}
           g == [e \in M \X M |-> z.g[e]]
<1>4. M \in NodeSets /\ M \subseteq Node \ {x}
  BY VarAssumption DEF NodeSets
<1>5. DOMAIN z.g = N \X N /\ Vertices(z.g) = N
  BY <1>1, VerticesOf
<1>6. ASSUME NEW e \in M \X M
      PROVE  z.g[e] \in Upper /\ IsWithin(q, e[1], e[2], z.g[e])
  <2>1. e \in N \X N /\ e[1] \in Node \ {x} /\ e[2] \in Node \ {x}
    BY <1>4
  <2>2. z.g[e] \in Upper /\ IsWithin(p, e[1], e[2], z.g[e])
    BY <1>1, <1>2, <1>5, <2>1 DEF GraphOn, Fits
  <2>3. QED
    BY <1>3, <2>1, <2>2 DEF IsWithin
<1>7. g \in GraphOn(M) /\ Fits(q, g)
  BY <1>6 DEF GraphOn, Fits
<1>8. CASE x \in VarsOf(z)
  <2>1. ForgetVertices(z.g, {x}) = Evaluated([e \in M \X M |-> z.g[<<e[1], e[2]>>]])
    BY <1>5 DEF ForgetVertices, Graph
  <2>2. [e \in M \X M |-> z.g[<<e[1], e[2]>>]] = g
    <3>1. \A e \in M \X M : <<e[1], e[2]>> = e
      OBVIOUS
    <3>2. QED
      BY <3>1
  <2>3. ForgetVertices(z.g, {x}) = g
    BY <2>1, <2>2, EvaluatedSame
  <2> HIDE DEF g
  <2>4. y = [bottom |-> FALSE, g |-> g]
    BY <1>2, <1>8, <2>3 DEF forget, Zone
  <2>5. y.bottom = FALSE /\ y.g = g
    BY <2>4
  <2> HIDE DEF y, M, q
  <2>6. QED
    BY <1>4, <1>7, <2>5 DEF WellFormed, In, Fits, IsWithin, y, q
<1>9. CASE x \notin VarsOf(z)
  <2>1. y = z
    BY <1>9 DEF forget
  <2>2. x \notin N
    BY <1>5, <1>9, VarAssumption DEF VarsOf
  <2>3. g = z.g
    BY <1>1, <2>2 DEF GraphOn
  <2> HIDE DEF g, y, q
  <2>4. QED
    BY <1>2, <1>7, <2>1, <2>3 DEF In, Fits, IsWithin, y, q
<1>10. QED
  BY <1>8, <1>9

(* SetKeeps: set gives the variable the interval the transformer computed: *)
(* every point with a value from it instead of the old one is kept.        *)
THEOREM SetKeeps ==
    ASSUME NEW z, WellFormed(z), NEW p \in Points, In(p, z), NEW x \in Var,
           NEW i \in Proper, NEW n \in Int, contains(i, n)
    PROVE  WellFormed(set(z, x, i)) /\ In([p EXCEPT ![x] = n], set(z, x, i))
<1> DEFINE q == [p EXCEPT ![x] = n]
           y == forget(z, x)
           w == WithBounds(y, x, i)
<1>1. WellFormed(y) /\ In(q, y) /\ q \in Points /\ Value(q, x) = n /\ x \in Node /\ Zero \in Node
  BY ForgetKeeps, VarAssumption DEF Points, Value, Node
<1>2. ~ is_bottom(i)
  BY BottomEmpty
<1>3. set(z, x, i) = w
  BY <1>2 DEF set, SetBounds
<1> HIDE DEF y, q
<1>4. PICK N \in NodeSets : y.g \in GraphOn(N)
  BY <1>1 DEF WellFormed
<1>5. y.bottom = FALSE /\ Fits(q, y.g)
  BY <1>1 DEF In, Fits, IsWithin, WellFormed
<1>6. CASE is_top(i)
  <2>1. w = y
    BY <1>6 DEF WithBounds
  <2>2. QED
    BY <1>1, <1>3, <2>1 DEF q
<1>7. CASE ~ is_top(i)
  <2> DEFINE M == N \cup {x}
             a == WithVertices(y.g, {x})
             b == [a EXCEPT ![<<Zero, x>>] = i.ub]
             c == [b EXCEPT ![<<x, Zero>>] = BNeg(i.lb)]
  <2>1. M \in NodeSets /\ a \in GraphOn(M) /\ Fits(q, a) /\ x \in M /\ Zero \in M
    BY <1>1, <1>4, <1>5, WithVerticesFits DEF NodeSets
  <2>2. /\ i.lb \in Lower /\ i.ub \in Upper /\ BLeq(i.lb, Fin(n)) /\ BLeq(Fin(n), i.ub)
        /\ BNeg(i.lb) \in Upper
    BY Negation DEF Proper, contains
  <2>3. BLeq(Fin(-n), BNeg(i.lb))
    BY <2>2, NegationMirrors
  <2>4. Value(q, Zero) = 0 /\ n - 0 = n /\ 0 - n = -n
    BY DEF Value
  <2>5. IsWithin(q, Zero, x, i.ub) /\ IsWithin(q, x, Zero, BNeg(i.lb))
    BY <1>1, <2>2, <2>3, <2>4 DEF IsWithin
  <2> HIDE DEF a, M
  <2>6. b \in GraphOn(M) /\ Fits(q, b)
    BY <1>1, <2>1, <2>2, <2>5, SetEdgeFits
  <2> HIDE DEF b
  <2>7. c \in GraphOn(M) /\ Fits(q, c)
    BY <1>1, <2>1, <2>2, <2>5, <2>6, SetEdgeFits
  <2>8. w = [bottom |-> FALSE, g |-> c]
    BY <1>5, <1>7 DEF WithBounds, Zone, a, b
  <2> HIDE DEF c, w
  <2>9. w.bottom = FALSE /\ w.g = c
    BY <2>8
  <2>10. QED
    BY <1>3, <2>1, <2>7, <2>9 DEF WellFormed, In, Fits, IsWithin, q
<1>8. QED
  BY <1>6, <1>7

-----------------------------------------------------------------------------
(* Every operation gives a zone whose weights are numbers or PlusInf,      *)
(* whether or not any point is in it.                                      *)
LEMMA WeightsClosed ==
    \A a, b \in Upper : BMin(a, b) \in Upper /\ BMax(a, b) \in Upper /\ BAdd(a, b) \in Upper
BY MinUpper, MaxUpper, AddUpper, 0 \in Int

LEMMA NodeSetsFinite ==
    ASSUME NEW N \in NodeSets
    PROVE  IsFiniteSet(N) /\ Zero \in N /\ N \subseteq Node
<1>1. IsFiniteSet(Node)
  BY VarAssumption, FS_AddElement DEF Node
<1>2. QED
  BY <1>1, FS_Subset DEF NodeSets

LEMMA EdgeTyped ==
    ASSUME NEW N, NEW g \in GraphOn(N), NEW s, NEW d
    PROVE  Edge(g, s, d) \in Upper
<1>1. NoEdge \in Upper
  BY NoEdgeFits
<1>2. CASE <<s, d>> \in DOMAIN g
  <2>1. g[<<s, d>>] \in Upper
    BY <1>2 DEF GraphOn
  <2>2. QED
    BY <1>2, <2>1 DEF Edge
<1>3. CASE <<s, d>> \notin DOMAIN g
  BY <1>1, <1>3 DEF Edge
<1>4. QED
  BY <1>2, <1>3

LEMMA UpdateEdgeTyped ==
    ASSUME NEW N, NEW g \in GraphOn(N), NEW s \in N, NEW d \in N, NEW w \in Upper
    PROVE  update_edge(g, s, w, d) \in GraphOn(N)
<1>1. <<s, d>> \in N \X N /\ g[<<s, d>>] \in Upper
  BY DEF GraphOn
<1>2. BMin(g[<<s, d>>], w) \in Upper
  BY <1>1, WeightsClosed
<1>3. update_edge(g, s, w, d) = [g EXCEPT ![<<s, d>>] = BMin(g[<<s, d>>], w)]
  BY DEF update_edge
<1>4. QED
  BY <1>1, <1>2, <1>3 DEF GraphOn

LEMMA WithVerticesTyped ==
    ASSUME NEW N \in NodeSets, NEW g \in GraphOn(N), NEW X \in SUBSET Node
    PROVE  N \cup X \in NodeSets /\ WithVertices(g, X) \in GraphOn(N \cup X)
<1> DEFINE M == N \cup X
           h == [e \in M \X M |-> Edge(g, e[1], e[2])]
<1>1. M \in NodeSets
  BY DEF NodeSets
<1>2. Vertices(g) = N
  BY VerticesOf
<1>3. CASE X \subseteq N
  <2>1. WithVertices(g, X) = g /\ M = N
    BY <1>2, <1>3 DEF WithVertices
  <2>2. QED
    BY <1>1, <2>1
<1>4. CASE ~ (X \subseteq N)
  <2>1. WithVertices(g, X) = h
    BY <1>2, <1>4, EvaluatedSame DEF WithVertices, Graph
  <2>2. h \in GraphOn(M)
    BY EdgeTyped DEF GraphOn
  <2>3. QED
    BY <1>1, <2>1, <2>2
<1>5. QED
  BY <1>3, <1>4

LEMMA CloseOverEdgeTyped ==
    ASSUME NEW N \in NodeSets, NEW g \in GraphOn(N), NEW i \in N, NEW j \in N
    PROVE  close_over_edge(g, i, j) \in GraphOn(N)
<1> DEFINE c == g[<<i, j>>]
           variables == Vertices(g) \ {Zero}
           src == {s \in variables \ {j} : BLt(BAdd(g[<<s, i>>], c), g[<<s, j>>])}
           dest == {d \in variables \ {i} : BLt(BAdd(c, g[<<j, d>>]), g[<<i, d>>])}
           W(s, d) == IF s \in src /\ d = j THEN BAdd(g[<<s, i>>], c)
                      ELSE IF s = i /\ d \in dest THEN BAdd(c, g[<<j, d>>])
                      ELSE IF s \in src /\ d \in dest
                      THEN BMin(g[<<s, d>>], BAdd(BAdd(g[<<s, i>>], c), g[<<j, d>>]))
                      ELSE g[<<s, d>>]
           h == [e \in N \X N |-> W(e[1], e[2])]
<1>1. close_over_edge(g, i, j) = h
  BY VerticesOf, EvaluatedSame DEF close_over_edge, Graph
<1>2. \A s, d \in N : g[<<s, d>>] \in Upper
  BY DEF GraphOn
<1> HIDE DEF src, dest
<1>3. ASSUME NEW s \in N, NEW d \in N PROVE W(s, d) \in Upper
  BY <1>2, WeightsClosed
<1> HIDE DEF W
<1>4. h \in GraphOn(N)
  BY <1>3 DEF GraphOn
<1>5. QED
  BY <1>1, <1>4

LEMMA CloseAfterAssignTyped ==
    ASSUME NEW N \in NodeSets, NEW g \in GraphOn(N), NEW v
    PROVE  close_after_assign(g, v) \in GraphOn(N)
<1> DEFINE Paths(s, d) == {BAdd(g[<<s, m>>], g[<<m, d>>]) : m \in N \ {s, d}}
           W(s, d) == IF s = d \/ v \notin {s, d} THEN g[<<s, d>>]
                      ELSE Least(g[<<s, d>>], Paths(s, d))
           h == [e \in N \X N |-> W(e[1], e[2])]
<1>1. close_after_assign(g, v) = h
  BY VerticesOf, EvaluatedSame DEF close_after_assign, Graph
<1>2. \A s, d \in N : g[<<s, d>>] \in Upper
  BY DEF GraphOn
<1>3. ASSUME NEW s \in N, NEW d \in N PROVE W(s, d) \in Upper
  <2>1. Paths(s, d) \subseteq Upper
    BY <1>2, WeightsClosed
  <2>2. IsFiniteSet(Paths(s, d))
    <3>1. IsFiniteSet(N \ {s, d})
      BY NodeSetsFinite, FS_Subset
    <3> DEFINE f == [m \in N \ {s, d} |-> BAdd(g[<<s, m>>], g[<<m, d>>])]
    <3>2. f \in Surjection(N \ {s, d}, Paths(s, d))
      BY DEF Surjection
    <3> HIDE DEF f, Paths
    <3>3. QED
      BY <3>1, <3>2, FS_Surjection
  <2>3. Least(g[<<s, d>>], Paths(s, d)) \in Paths(s, d) \cup {g[<<s, d>>]}
    BY <1>2, <2>1, <2>2, LeastIs
  <2> HIDE DEF Paths
  <2>4. QED
    BY <1>2, <2>1, <2>3
<1> HIDE DEF W
<1>4. h \in GraphOn(N)
  BY <1>3 DEF GraphOn
<1>5. QED
  BY <1>1, <1>4

LEMMA BottomZoneTyped == WellFormed(BottomZone) /\ WellFormed(TopZone)
<1>1. {Zero} \in NodeSets
  BY DEF NodeSets, Node
<1>2. EmptyGraph \in GraphOn({Zero})
  BY NoEdgeFits DEF EmptyGraph, GraphOn
<1>3. TopZone = [bottom |-> FALSE, g |-> EmptyGraph]
  BY DEF TopZone, Zone
<1>4. /\ TopZone.bottom = FALSE /\ TopZone.g = EmptyGraph
      /\ BottomZone.bottom = TRUE /\ BottomZone.g = EmptyGraph
  BY <1>3 DEF BottomZone
<1>5. QED
  BY <1>1, <1>2, <1>4 DEF WellFormed

LEMMA ZoneTyped ==
    ASSUME NEW N \in NodeSets, NEW g \in GraphOn(N)
    PROVE  WellFormed(Zone(g)) /\ WellFormed(FeasibleZone(g)) /\ Zone(g).bottom = FALSE /\ Zone(g).g = g
<1>1. Zone(g).bottom = FALSE /\ Zone(g).g = g
  BY DEF Zone
<1>2. WellFormed(Zone(g))
  BY <1>1 DEF WellFormed
<1>3. FeasibleZone(g) \in {Zone(g), BottomZone}
  BY DEF FeasibleZone
<1>4. QED
  BY <1>1, <1>2, <1>3, BottomZoneTyped

LEMMA ProperBounds ==
    /\ BottomI \in Proper
    /\ \A l \in Lower, u \in Upper : interval(l, u) \in Proper
    /\ \A n \in Int : Fin(n) \in Lower /\ Fin(n) \in Upper
<1>1. \A n \in Int : Fin(n) \in Lower /\ Fin(n) \in Upper
  BY DEF Fin, Lower, Upper, Bound
<1>2. BottomI \in Proper
  BY <1>1 DEF BottomI, Proper
<1>3. ASSUME NEW l \in Lower, NEW u \in Upper PROVE interval(l, u) \in Proper
  <2>1. [lb |-> l, ub |-> u] \in Proper
    BY DEF Proper
  <2>2. interval(l, u) \in {BottomI, [lb |-> l, ub |-> u]}
    BY DEF interval
  <2>3. QED
    BY <1>2, <2>1, <2>2
<1>4. QED
  BY <1>1, <1>2, <1>3

LEMMA GetTyped ==
    ASSUME NEW z, WellFormed(z), NEW x
    PROVE  Get(z, x) \in Proper /\ Operand(z, x) \in Proper
<1>1. PICK N \in NodeSets : z.g \in GraphOn(N)
  BY DEF WellFormed
<1>2. BNeg(Edge(z.g, x, Zero)) \in Lower /\ Edge(z.g, Zero, x) \in Upper
  BY <1>1, EdgeTyped, Negation
<1>3. Get(z, x) \in Proper
  BY <1>2, ProperBounds DEF Get
<1>4. Exactly(0) \in Proper
  BY ExactlyIs
<1>5. QED
  BY <1>3, <1>4 DEF Operand

LEMMA AddLinearLeqTyped ==
    ASSUME NEW z, WellFormed(z), NEW x \in Node, NEW y \in Node, NEW k \in Int
    PROVE  WellFormed(add_linear_leq(z, x, y, k))
<1>1. PICK N \in NodeSets : z.g \in GraphOn(N)
  BY DEF WellFormed
<1> DEFINE M == N \cup {x, y}
           l == Operand(z, x).lb
           u == Operand(z, y).ub
           g0 == WithVertices(z.g, {x, y})
           g1 == LowerBound(g0, y, l, Fin(k))
           g2 == UpperBound(g1, x, u, Fin(k))
           g3 == Relation(g2, y, Fin(k), x)
           g4 == close_after_assign(g3, Zero)
<1>2. M \in NodeSets /\ g0 \in GraphOn(M) /\ x \in M /\ y \in M /\ Zero \in M
  BY <1>1, WithVerticesTyped DEF NodeSets
<1>3. l \in Lower /\ u \in Upper /\ Fin(k) \in Upper
  BY GetTyped, ProperBounds DEF Proper
<1> HIDE DEF M, l, u, g0
<1>4. g1 \in GraphOn(M)
  <2>1. BSub(Fin(k), l) \in Upper
    BY <1>3, Negation, AddUpper DEF BSub
  <2>2. g1 \in {g0, update_edge(g0, y, BSub(Fin(k), l), Zero)}
    BY DEF LowerBound
  <2>3. QED
    BY <1>2, <2>1, <2>2, UpdateEdgeTyped
<1> HIDE DEF g1
<1>5. g2 \in GraphOn(M)
  <2>1. BAdd(u, Fin(k)) \in Upper
    BY <1>3, AddUpper
  <2>2. g2 \in {g1, update_edge(g1, Zero, BAdd(u, Fin(k)), x)}
    BY DEF UpperBound
  <2>3. QED
    BY <1>2, <1>4, <2>1, <2>2, UpdateEdgeTyped
<1> HIDE DEF g2
<1>6. g3 \in GraphOn(M)
  <2> DEFINE h == update_edge(g2, y, Fin(k), x)
  <2>1. h \in GraphOn(M)
    BY <1>2, <1>3, <1>5, UpdateEdgeTyped
  <2>2. g3 \in {g2, close_over_edge(h, y, x)}
    BY DEF Relation
  <2> HIDE DEF h
  <2>3. QED
    BY <1>2, <1>5, <2>1, <2>2, CloseOverEdgeTyped
<1> HIDE DEF g3
<1>7. g4 \in GraphOn(M)
  BY <1>2, <1>6, CloseAfterAssignTyped
<1>8. add_linear_leq(z, x, y, k) \in {z, FeasibleZone(g4)}
  BY DEF add_linear_leq, g3, g2, g1, g0, l, u
<1> HIDE DEF g4
<1>9. QED
  BY <1>2, <1>7, <1>8, ZoneTyped

LEMMA MoveBoundTyped ==
    ASSUME NEW z, NEW N \in NodeSets, z.g \in GraphOn(N), NEW x \in N, NEW lower, NEW w \in Upper
    PROVE  WellFormed(MoveBound(z, x, lower, w))
<1> DEFINE g == z.g
           W(s, d) == IF lower /\ d = Zero /\ s # Zero
                      THEN IF s = x THEN w ELSE BMin(g[<<s, d>>], BAdd(g[<<s, x>>], w))
                      ELSE IF ~ lower /\ s = Zero /\ d # Zero
                      THEN IF d = x THEN w ELSE BMin(g[<<s, d>>], BAdd(w, g[<<x, d>>]))
                      ELSE g[<<s, d>>]
           h == [e \in N \X N |-> W(e[1], e[2])]
<1>1. MoveBound(z, x, lower, w) = FeasibleZone(h)
  BY VerticesOf, EvaluatedSame DEF MoveBound, Graph
<1>2. \A s, d \in N : g[<<s, d>>] \in Upper
  BY DEF GraphOn
<1>3. ASSUME NEW s \in N, NEW d \in N PROVE W(s, d) \in Upper
  BY <1>2, WeightsClosed
<1> HIDE DEF W
<1>4. h \in GraphOn(N)
  BY <1>3 DEF GraphOn
<1> HIDE DEF h
<1>5. QED
  BY <1>1, <1>4, ZoneTyped

LEMMA ExcludeTyped ==
    ASSUME NEW z, WellFormed(z), NEW x \in Node, NEW i \in Proper
    PROVE  WellFormed(Exclude(z, x, i))
<1>1. CASE x = Zero \/ ~ HasNumber(i) \/ z.bottom
  BY <1>1 DEF Exclude
<1>2. CASE ~ (x = Zero \/ ~ HasNumber(i) \/ z.bottom)
  <2> DEFINE n == i.lb.n
             j == Get(z, x)
             lower == j.lb = Fin(n)
             w == Fin(IF lower THEN -(n + 1) ELSE n - 1)
             y == add_univar_disequation(z, x, n)
  <2>1. Exclude(z, x, i) = y
    BY <1>2 DEF Exclude
  <2>2. n \in Int
    BY DEF Proper, Lower, Bound
  <2>3. w \in Upper /\ lower \in BOOLEAN
    BY <2>2, ProperBounds, -(n + 1) \in Int, n - 1 \in Int
  <2>4. y \in {z, BottomZone, MoveBound(z, x, lower, w)}
    BY DEF add_univar_disequation, WithoutNumber
  <2>5. CASE y = MoveBound(z, x, lower, w) /\ y \notin {z, BottomZone}
    <3>1. PICK N \in NodeSets : z.g \in GraphOn(N)
      BY DEF WellFormed
    <3>2. x \in N
      <4>1. SUFFICES ASSUME x \notin N PROVE FALSE
        OBVIOUS
      <4>2. Edge(z.g, x, Zero) = NoEdge /\ Edge(z.g, Zero, x) = NoEdge
        <5>1. DOMAIN z.g = N \X N
          BY <3>1, VerticesOf
        <5>2. <<x, Zero>> \notin N \X N /\ <<Zero, x>> \notin N \X N
          BY <4>1
        <5>3. QED
          BY <5>1, <5>2 DEF Edge
      <4>3. j = [lb |-> MinusInf, ub |-> PlusInf]
        <5>1. BNeg(NoEdge) = MinusInf /\ NoEdge = PlusInf
          BY DEF BNeg, NoEdge, PlusInf, MinusInf
        <5>2. MinusInf \in Lower /\ PlusInf \in Upper /\ MinusInf.inf
          BY DEF MinusInf, PlusInf, Lower, Upper, Bound
        <5>3. ~ BLt(PlusInf, MinusInf)
          BY <5>2, LowerUpper
        <5>4. z.bottom = FALSE
          BY <1>2 DEF WellFormed
        <5>5. QED
          BY <5>4, <4>2, <5>1, <5>3 DEF Get, interval
      <4>4. Fin(n) \notin {j.lb, j.ub}
        BY <4>3 DEF MinusInf, PlusInf, Fin
      <4>5. y = z
        BY <4>4 DEF add_univar_disequation, WithoutNumber
      <4>6. QED
        BY <2>5, <4>5
    <3> HIDE DEF w, lower, y, j, n
    <3>3. QED
      BY <2>1, <2>3, <2>5, <3>1, <3>2, MoveBoundTyped
  <2> HIDE DEF y
  <2>6. QED
    BY <2>1, <2>4, <2>5, BottomZoneTyped
<1>3. QED
  BY <1>1, <1>2

(* An interval that is not empty holds a number, so what covers the        *)
(* numbers of two intervals is an interval.                                *)
LEMMA NotEmptyHas ==
    ASSUME NEW i \in Proper, ~ is_bottom(i)
    PROVE  \E n \in Int : contains(i, n)
<1> DEFINE n == IF ~ i.lb.inf THEN i.lb.n ELSE IF ~ i.ub.inf THEN i.ub.n ELSE 0
<1>1. /\ i.lb \in Lower /\ i.ub \in Upper /\ i.lb.inf \in BOOLEAN /\ i.lb.n \in Int
      /\ i.ub.inf \in BOOLEAN /\ i.ub.n \in Int
  BY DEF Proper, Lower, Upper, Bound
<1>2. n \in Int
  BY <1>1
<1>3. i.lb.inf \/ i.ub.inf \/ i.lb.n <= i.ub.n
  BY <1>1, LowerUpper DEF is_bottom
<1>4. (i.lb.inf \/ i.lb.n <= n) /\ (i.ub.inf \/ n <= i.ub.n)
  BY <1>1, <1>3
<1>5. BLeq(i.lb, Fin(n)) /\ BLeq(Fin(n), i.ub)
  BY <1>1, <1>2, <1>4, LowerLeq, UpperGeq
<1>6. QED
  BY <1>2, <1>5 DEF contains

LEMMA SumTyped == ASSUME NEW i \in Proper, NEW j \in Proper PROVE SumI(i, j) \in Proper
<1>1. CASE is_bottom(i) \/ is_bottom(j)
  BY <1>1, ProperBounds DEF SumI, Strict
<1>2. CASE ~ is_bottom(i) /\ ~ is_bottom(j)
  BY <1>2, NotEmptyHas, SumCovers
<1>3. QED
  BY <1>1, <1>2

LEMMA DiffTyped == ASSUME NEW i \in Proper, NEW j \in Proper PROVE DiffI(i, j) \in Proper
<1>1. CASE is_bottom(i) \/ is_bottom(j)
  BY <1>1, ProperBounds DEF DiffI, Strict
<1>2. CASE ~ is_bottom(i) /\ ~ is_bottom(j)
  BY <1>2, NotEmptyHas, DiffCovers
<1>3. QED
  BY <1>1, <1>2

LEMMA ProductTyped == ASSUME NEW i \in Proper, NEW j \in Proper PROVE MulI(i, j) \in Proper
<1>1. CASE is_bottom(i) \/ is_bottom(j)
  BY <1>1, ProperBounds DEF MulI, Strict
<1>2. CASE ~ is_bottom(i) /\ ~ is_bottom(j)
  BY <1>2, NotEmptyHas, ProductCovers
<1>3. QED
  BY <1>1, <1>2

LEMMA AddConstraintTyped ==
    ASSUME NEW z, WellFormed(z), NEW c \in Constraints
    PROVE  WellFormed(add_constraint(z, c))
<1>1. c.x \in Node /\ c.y \in Node /\ c.k \in Int /\ c.rel \in {"<=", "<", "=", "#"}
  BY DEF Constraints
<1>2. Exactly(c.k) \in Proper
  BY <1>1, ExactlyIs
<1>3. CASE z.bottom \/ c.x = c.y
  <2>1. add_constraint(z, c) \in {z, BottomZone}
    BY <1>3 DEF add_constraint
  <2>2. QED
    BY <2>1, BottomZoneTyped
<1>4. CASE ~ z.bottom /\ c.x # c.y /\ c.rel = "#"
  <2> DEFINE i == SumI(Operand(z, c.y), Exactly(c.k))
             z1 == Exclude(z, c.x, i)
             j == DiffI(Operand(z1, c.x), Exactly(c.k))
             z2 == Exclude(z1, c.y, j)
  <2>1. i \in Proper
    BY <1>2, GetTyped, SumTyped
  <2> HIDE DEF i
  <2>2. WellFormed(z1)
    BY <1>1, <2>1, ExcludeTyped
  <2> HIDE DEF z1
  <2>3. j \in Proper
    BY <1>2, <2>2, GetTyped, DiffTyped
  <2> HIDE DEF j
  <2>4. WellFormed(z2)
    BY <1>1, <2>2, <2>3, ExcludeTyped
  <2>5. add_constraint(z, c) = z2
    BY <1>4 DEF add_constraint, ExcludeLeft, ExcludeRight, z1, i, j
  <2>6. QED
    BY <2>4, <2>5
<1>5. CASE ~ z.bottom /\ c.x # c.y /\ c.rel # "#"
  <2> DEFINE k == IF c.rel = "<" THEN c.k - 1 ELSE c.k
             z1 == add_linear_leq(z, c.x, c.y, k)
  <2>1. k \in Int /\ -c.k \in Int
    BY <1>1
  <2>2. add_constraint(z, c) = Converse(z1, c)
    BY <1>5 DEF add_constraint
  <2> HIDE DEF k
  <2>3. WellFormed(z1)
    BY <1>1, <2>1, AddLinearLeqTyped
  <2> HIDE DEF z1
  <2>4. WellFormed(add_linear_leq(z1, c.y, c.x, -c.k))
    BY <1>1, <2>1, <2>3, AddLinearLeqTyped
  <2>5. QED
    BY <2>2, <2>3, <2>4 DEF Converse
<1>6. QED
  BY <1>3, <1>4, <1>5

(* A graph without some of its vertices.                                   *)
LEMMA ForgetVerticesKeeps ==
    ASSUME NEW N \in NodeSets, NEW g \in GraphOn(N), NEW F \in SUBSET Node, Zero \notin F
    PROVE  /\ N \ F \in NodeSets
           /\ ForgetVertices(g, F) \in GraphOn(N \ F)
           /\ \A p \in Points : Fits(p, g) => Fits(p, ForgetVertices(g, F))
<1> DEFINE M == N \ F
           h == [e \in M \X M |-> g[<<e[1], e[2]>>]]
<1>1. M \in NodeSets
  BY DEF NodeSets
<1>2. DOMAIN g = N \X N /\ Vertices(g) = N
  BY VerticesOf
<1>3. ForgetVertices(g, F) = h
  BY <1>2, EvaluatedSame DEF ForgetVertices, Graph
<1>4. \A e \in M \X M : e \in N \X N /\ h[e] = g[e]
  OBVIOUS
<1>5. h \in GraphOn(M)
  BY DEF GraphOn
<1>6. ASSUME NEW p \in Points, Fits(p, g) PROVE Fits(p, h)
  BY <1>2, <1>4, <1>6 DEF Fits
<1> HIDE DEF h
<1>7. QED
  BY <1>1, <1>3, <1>5, <1>6

LEMMA ForgetTyped ==
    ASSUME NEW z, WellFormed(z), NEW x \in Var
    PROVE  WellFormed(forget(z, x))
<1>1. PICK N \in NodeSets : z.g \in GraphOn(N)
  BY DEF WellFormed
<1>2. x \in Node /\ Zero \notin {x}
  BY VarAssumption DEF Node
<1>3. WellFormed(Zone(ForgetVertices(z.g, {x})))
  BY <1>1, <1>2, ForgetVerticesKeeps, ZoneTyped
<1>4. QED
  BY <1>3 DEF forget

LEMMA SetBoundsTyped ==
    ASSUME NEW z, WellFormed(z), NEW x \in Var, NEW i \in Proper
    PROVE  WellFormed(SetBounds(z, x, i)) /\ WellFormed(set(z, x, i))
<1> DEFINE y == forget(z, x)
           a == WithVertices(y.g, {x})
           b == [a EXCEPT ![<<Zero, x>>] = i.ub]
           c == [b EXCEPT ![<<x, Zero>>] = BNeg(i.lb)]
<1>1. WellFormed(y)
  BY ForgetTyped
<1> HIDE DEF y
<1>2. PICK N \in NodeSets : y.g \in GraphOn(N)
  BY <1>1 DEF WellFormed
<1> DEFINE M == N \cup {x}
<1>3. M \in NodeSets /\ a \in GraphOn(M) /\ x \in M /\ Zero \in M
  BY <1>2, WithVerticesTyped DEF NodeSets, Node
<1>4. i.ub \in Upper /\ BNeg(i.lb) \in Upper
  BY Negation DEF Proper
<1> HIDE DEF a, M
<1>5. b \in GraphOn(M)
  BY <1>3, <1>4 DEF GraphOn
<1> HIDE DEF b
<1>6. c \in GraphOn(M)
  BY <1>3, <1>4, <1>5 DEF GraphOn
<1>7. SetBounds(z, x, i) \in {y, Zone(c)}
  BY DEF SetBounds, WithBounds, a, b, y
<1> HIDE DEF c
<1>8. WellFormed(SetBounds(z, x, i))
  BY <1>1, <1>3, <1>6, <1>7, ZoneTyped
<1>9. QED
  BY <1>8, BottomZoneTyped DEF set

-----------------------------------------------------------------------------
(* Closure: a path through one vertex, and through every variable in turn. *)
Through(g, m) ==
    Graph(Vertices(g), LAMBDA s, d : IF s = d THEN g[s, d] ELSE BMin(g[s, d], BAdd(g[s, m], g[m, d])))

(* The graphs over N that every point of g fits.                           *)
Relaxed(N, g) == {h \in GraphOn(N) : \A p \in Points : Fits(p, g) => Fits(p, h)}

LEMMA ThroughKeeps ==
    ASSUME NEW N \in NodeSets, NEW g \in GraphOn(N), NEW m \in N
    PROVE  Through(g, m) \in Relaxed(N, g)
<1> DEFINE W(s, d) == IF s = d THEN g[<<s, d>>] ELSE BMin(g[<<s, d>>], BAdd(g[<<s, m>>], g[<<m, d>>]))
           h == [e \in N \X N |-> W(e[1], e[2])]
<1>1. Through(g, m) = h
  BY VerticesOf, EvaluatedSame DEF Through, Graph
<1>2. \A s, d \in N : g[<<s, d>>] \in Upper
  BY DEF GraphOn
<1>3. \A s, d \in N : W(s, d) \in Upper
  BY <1>2, WeightsClosed
<1>4. ASSUME NEW p \in Points, Fits(p, g), NEW s \in N, NEW d \in N
      PROVE  IsWithin(p, s, d, W(s, d))
  <2> DEFINE a == BAdd(g[<<s, m>>], g[<<m, d>>])
  <2>1. \A t, u \in N : IsWithin(p, t, u, g[<<t, u>>]) /\ t \in Node
    BY <1>4, NodeSetsFinite DEF GraphOn, Fits
  <2>2. a \in Upper /\ IsWithin(p, s, d, a)
    BY <1>2, <2>1, PathFits
  <2>3. Value(p, d) - Value(p, s) \in Int
    BY NodeSetsFinite, ValueIsInt
  <2>4. W(s, d) = IF s = d THEN g[<<s, d>>] ELSE BMin(g[<<s, d>>], a)
    OBVIOUS
  <2> HIDE DEF a, W
  <2>5. IsWithin(p, s, d, BMin(g[<<s, d>>], a))
    BY <1>2, <2>1, <2>2, <2>3, MinUpper DEF IsWithin
  <2>6. QED
    BY <2>1, <2>4, <2>5
<1> HIDE DEF W
<1>5. h \in GraphOn(N)
  BY <1>3 DEF GraphOn
<1>6. \A p \in Points : Fits(p, g) => Fits(p, h)
  BY <1>4 DEF Fits
<1>7. QED
  BY <1>1, <1>5, <1>6 DEF Relaxed

LEMMA ShortestPathsKeeps ==
    ASSUME NEW N \in NodeSets, NEW g \in GraphOn(N)
    PROVE  ShortestPaths(g) \in Relaxed(N, g)
<1> DEFINE S == N \ {Zero}
           V == Relaxed(N, g)
           Step == [e \in S \X V |-> Through(e[2], e[1])]
           Chosen(iter) == iter = [s \in SUBSET S |-> IF s = {} THEN g
                               ELSE Through(iter[s \ {CHOOSE x \in s : TRUE}], CHOOSE x \in s : TRUE)]
           iter == CHOOSE iter : Chosen(iter)
<1>1. ShortestPaths(g) = iter[S]
  <2>1. Vertices(g) = N
    BY VerticesOf
  <2>2. QED
    BY <2>1 DEF ShortestPaths, FoldSet, MapThenFoldSet, Through
<1>2. IsFiniteSet(S) /\ S \subseteq N
  BY NodeSetsFinite, FS_Subset
<1>3. g \in V
  BY DEF Relaxed
<1>4. ASSUME NEW m \in S, NEW h \in V PROVE Through(h, m) \in V
  <2>1. h \in GraphOn(N) /\ \A p \in Points : Fits(p, g) => Fits(p, h)
    BY DEF Relaxed
  <2>2. Through(h, m) \in Relaxed(N, h)
    BY <1>2, <2>1, ThroughKeeps
  <2>3. QED
    BY <2>1, <2>2 DEF Relaxed
<1>5. Step \in [S \X V -> V]
  BY <1>4
<1> HIDE DEF V
<1>6. PICK it \in [SUBSET S -> V] : IsFold(it, S, g, Step)
  <2> HIDE DEF Step, S
  <2>1. QED
    BY <1>2, <1>3, <1>5, FoldExists
<1>7. Chosen(it)
  <2>1. ASSUME NEW s \in SUBSET S, s # {}
        PROVE  Step[<<Pick(s), it[s \ {Pick(s)}]>>] = Through(it[s \ {Pick(s)}], Pick(s))
    <3>1. Pick(s) \in S /\ it[s \ {Pick(s)}] \in V
      BY <1>6, <2>1 DEF Pick
    <3> HIDE DEF S
    <3>2. QED
      BY <3>1
  <2> HIDE DEF Step, S
  <2>2. [s \in SUBSET S |-> IF s = {} THEN g ELSE Step[<<Pick(s), it[s \ {Pick(s)}]>>]]
           = [s \in SUBSET S |-> IF s = {} THEN g ELSE Through(it[s \ {Pick(s)}], Pick(s))]
    BY <2>1
  <2>3. it = [s \in SUBSET S |-> IF s = {} THEN g ELSE Through(it[s \ {Pick(s)}], Pick(s))]
    BY <1>6, <2>2 DEF IsFold
  <2>4. QED
    BY <2>3 DEF Pick
<1>8. Chosen(iter)
  <2>1. \E i : Chosen(i)
    BY <1>7
  <2> HIDE DEF Chosen
  <2>2. QED
    BY <2>1
<1> DEFINE A == {s \in SUBSET S : iter[s] \in V}
<1> HIDE DEF iter
<1>9. {} \in A
  BY <1>3, <1>8
<1>10. ASSUME NEW s \in SUBSET S, s # {}, \A x \in s : s \ {x} \in A
       PROVE  s \in A
  <2> DEFINE x == CHOOSE x \in s : TRUE
  <2>1. x \in s /\ x \in S
    BY <1>10
  <2>2. iter[s] = Through(iter[s \ {x}], x)
    BY <1>8, <1>10
  <2> HIDE DEF x
  <2>3. iter[s \ {x}] \in V
    BY <1>10, <2>1
  <2>4. QED
    BY <1>4, <2>1, <2>2, <2>3
<1>11. \A s \in SUBSET S : s \in A
  <2> HIDE DEF A, S
  <2>1. QED
    BY <1>2, <1>9, <1>10, SubsetInduction
<1>12. QED
  BY <1>1, <1>11 DEF V

(* A closed graph keeps the points of the one it was made from.            *)
LEMMA CloseAfterAssignKeeps ==
    ASSUME NEW N \in NodeSets, NEW g \in GraphOn(N), NEW v
    PROVE  close_after_assign(g, v) \in Relaxed(N, g)
BY CloseAfterAssignFits, CloseAfterAssignTyped DEF Relaxed

LEMMA RelaxedAgain ==
    ASSUME NEW N, NEW f, NEW g \in Relaxed(N, f), NEW h \in Relaxed(N, g)
    PROVE  h \in Relaxed(N, f)
BY DEF Relaxed

-----------------------------------------------------------------------------
(* Join, widening and meet.                                                *)
LEMMA InIs == \A p, z : In(p, z) <=> ~ z.bottom /\ Fits(p, z.g)
BY DEF In, Fits, IsWithin

LEMMA TopHasAll ==
    ASSUME NEW z, WellFormed(z), is_top_zone(z), NEW p \in Points
    PROVE  In(p, z)
<1>1. PICK N \in NodeSets : z.g \in GraphOn(N)
  BY DEF WellFormed
<1>2. ASSUME NEW e \in DOMAIN z.g PROVE IsWithin(p, e[1], e[2], z.g[e])
  <2>1. e \in N \X N /\ N \subseteq Node
    BY <1>1, NodeSetsFinite DEF GraphOn
  <2>2. Value(p, e[2]) - Value(p, e[1]) \in Int
    BY <2>1, ValueIsInt
  <2>3. z.g[e] = NoEdge
    BY DEF is_top_zone
  <2>4. QED
    BY <2>2, <2>3, NoEdgeFits DEF IsWithin
<1>3. QED
  BY <1>2, InIs DEF Fits, is_top_zone

(* The vertices that both have.                                            *)
LEMMA CommonPartKeeps ==
    ASSUME NEW a, NEW b, NEW N \in NodeSets, NEW M \in NodeSets,
           a.g \in GraphOn(N), b.g \in GraphOn(M)
    PROVE  /\ N \cap M \in NodeSets
           /\ CommonPart(a, b) \in GraphOn(N \cap M)
           /\ \A p \in Points : Fits(p, a.g) => Fits(p, CommonPart(a, b))
<1> DEFINE F == VarsOf(a) \ VarsOf(b)
<1>1. F = N \ M
  BY VerticesOf DEF VarsOf, NodeSets
<1>2. F \in SUBSET Node /\ Zero \notin F /\ N \ F = N \cap M
  BY <1>1 DEF NodeSets
<1>3. CommonPart(a, b) = ForgetVertices(a.g, F)
  BY DEF CommonPart
<1> HIDE DEF F
<1>4. QED
  BY <1>2, <1>3, ForgetVerticesKeeps

LEMMA OnlyUsedKeeps ==
    ASSUME NEW N \in NodeSets, NEW g \in GraphOn(N)
    PROVE  /\ \E M \in NodeSets : OnlyUsed(g) \in GraphOn(M)
           /\ \A p \in Points : Fits(p, g) => Fits(p, OnlyUsed(g))
<1> DEFINE F == {v \in Vertices(g) \ {Zero} : \A y \in Vertices(g) : ~ elem(g, v, y) /\ ~ elem(g, y, v)}
<1>1. F \in SUBSET Node /\ Zero \notin F
  BY VerticesOf DEF NodeSets
<1>2. OnlyUsed(g) = ForgetVertices(g, F)
  BY DEF OnlyUsed
<1> HIDE DEF F
<1>3. QED
  BY <1>1, <1>2, ForgetVerticesKeeps

(* The points of both graphs.                                              *)
LEMMA MeetGraphKeeps ==
    ASSUME NEW N \in NodeSets, NEW l \in GraphOn(N), NEW r \in GraphOn(N)
    PROVE  /\ MeetGraph(l, r) \in GraphOn(N)
           /\ \A p \in Points : Fits(p, l) /\ Fits(p, r) => Fits(p, MeetGraph(l, r))
<1> DEFINE h == [e \in N \X N |-> BMin(l[<<e[1], e[2]>>], r[<<e[1], e[2]>>])]
<1>1. MeetGraph(l, r) = h
  BY VerticesOf, EvaluatedSame DEF MeetGraph, Graph
<1>2. \A e \in N \X N : l[e] \in Upper /\ r[e] \in Upper /\ h[e] = BMin(l[e], r[e])
  BY DEF GraphOn
<1>3. h \in GraphOn(N)
  BY <1>2, WeightsClosed DEF GraphOn
<1>4. ASSUME NEW p \in Points, Fits(p, l), Fits(p, r), NEW e \in N \X N
      PROVE  IsWithin(p, e[1], e[2], h[e])
  <2>1. Value(p, e[2]) - Value(p, e[1]) \in Int
    BY NodeSetsFinite, ValueIsInt
  <2>2. IsWithin(p, e[1], e[2], l[e]) /\ IsWithin(p, e[1], e[2], r[e])
    BY <1>4 DEF Fits, GraphOn
  <2> HIDE DEF h
  <2>3. QED
    BY <1>2, <2>1, <2>2, MinUpper DEF IsWithin
<1>5. DOMAIN h = N \X N
  OBVIOUS
<1> HIDE DEF h
<1>6. QED
  BY <1>1, <1>3, <1>4, <1>5 DEF Fits

(* The points of either.                                                   *)
LEMMA JoinGraphKeeps ==
    ASSUME NEW N \in NodeSets, NEW l \in GraphOn(N), NEW r \in GraphOn(N)
    PROVE  /\ JoinGraph(l, r) \in GraphOn(N)
           /\ \A p \in Points : Fits(p, l) \/ Fits(p, r) => Fits(p, JoinGraph(l, r))
<1> DEFINE h == [e \in N \X N |-> BMax(l[<<e[1], e[2]>>], r[<<e[1], e[2]>>])]
<1>1. JoinGraph(l, r) = h
  BY VerticesOf, EvaluatedSame DEF JoinGraph, Graph
<1>2. \A e \in N \X N : l[e] \in Upper /\ r[e] \in Upper /\ h[e] = BMax(l[e], r[e])
  BY DEF GraphOn
<1>3. h \in GraphOn(N)
  BY <1>2, WeightsClosed DEF GraphOn
<1>4. ASSUME NEW p \in Points, Fits(p, l) \/ Fits(p, r), NEW e \in N \X N
      PROVE  IsWithin(p, e[1], e[2], h[e])
  <2>1. Value(p, e[2]) - Value(p, e[1]) \in Int
    BY NodeSetsFinite, ValueIsInt
  <2>2. IsWithin(p, e[1], e[2], l[e]) \/ IsWithin(p, e[1], e[2], r[e])
    BY <1>4 DEF Fits, GraphOn
  <2> HIDE DEF h
  <2>3. QED
    BY <1>2, <2>1, <2>2, MaxUpper DEF IsWithin
<1>5. DOMAIN h = N \X N
  OBVIOUS
<1> HIDE DEF h
<1>6. QED
  BY <1>1, <1>3, <1>4, <1>5 DEF Fits

(* An edge of the left graph stays where the right one is below it.        *)
LEMMA WidenGraphKeeps ==
    ASSUME NEW N \in NodeSets, NEW l \in GraphOn(N), NEW r \in GraphOn(N)
    PROVE  /\ WidenGraph(l, r) \in GraphOn(N)
           /\ \A p \in Points : Fits(p, l) \/ Fits(p, r) => Fits(p, WidenGraph(l, r))
<1> DEFINE h == [e \in N \X N |-> IF BLeq(r[<<e[1], e[2]>>], l[<<e[1], e[2]>>])
                                  THEN l[<<e[1], e[2]>>] ELSE NoEdge]
<1>1. WidenGraph(l, r) = h
  BY VerticesOf, EvaluatedSame DEF WidenGraph, Graph
<1>2. \A e \in N \X N : /\ l[e] \in Upper /\ r[e] \in Upper
                        /\ h[e] = IF BLeq(r[e], l[e]) THEN l[e] ELSE NoEdge
  BY DEF GraphOn
<1>3. h \in GraphOn(N)
  BY <1>2, NoEdgeFits DEF GraphOn
<1>4. ASSUME NEW p \in Points, Fits(p, l) \/ Fits(p, r), NEW e \in N \X N
      PROVE  IsWithin(p, e[1], e[2], h[e])
  <2>1. e[1] \in Node /\ e[2] \in Node /\ Value(p, e[2]) - Value(p, e[1]) \in Int
    BY NodeSetsFinite, ValueIsInt
  <2>2. IsWithin(p, e[1], e[2], l[e]) \/ IsWithin(p, e[1], e[2], r[e])
    BY <1>4 DEF Fits, GraphOn
  <2> HIDE DEF h
  <2>3. CASE BLeq(r[e], l[e])
    BY <1>2, <2>1, <2>2, <2>3, LooserFits
  <2>4. CASE ~ BLeq(r[e], l[e])
    BY <1>2, <2>1, <2>4, NoEdgeFits DEF IsWithin
  <2>5. QED
    BY <2>3, <2>4
<1>5. DOMAIN h = N \X N
  OBVIOUS
<1> HIDE DEF h
<1>6. QED
  BY <1>1, <1>3, <1>4, <1>5 DEF Fits

(* The relations of r, as the bounds of l have them.                       *)
LEMMA DeferredKeeps ==
    ASSUME NEW N \in NodeSets, NEW l \in GraphOn(N), NEW r
    PROVE  Deferred(l, r) \in Relaxed(N, l)
<1> DEFINE W(s, d) == IF Zero \notin {s, d} /\ elem(r, s, d)
                      THEN BAdd(l[<<s, Zero>>], l[<<Zero, d>>]) ELSE NoEdge
           h == [e \in N \X N |-> W(e[1], e[2])]
<1>1. Deferred(l, r) = h
  BY VerticesOf, EvaluatedSame DEF Deferred, Graph
<1>2. Zero \in N /\ N \subseteq Node /\ \A s, d \in N : l[<<s, d>>] \in Upper
  BY NodeSetsFinite DEF GraphOn
<1>3. \A s, d \in N : W(s, d) \in Upper
  BY <1>2, WeightsClosed, NoEdgeFits
<1>4. ASSUME NEW p \in Points, Fits(p, l), NEW s \in N, NEW d \in N
      PROVE  IsWithin(p, s, d, W(s, d))
  <2> DEFINE a == BAdd(l[<<s, Zero>>], l[<<Zero, d>>])
  <2>1. \A t, u \in N : IsWithin(p, t, u, l[<<t, u>>]) /\ t \in Node
    BY <1>2, <1>4 DEF GraphOn, Fits
  <2>2. IsWithin(p, s, d, a)
    BY <1>2, <2>1, PathFits
  <2>3. IsWithin(p, s, d, NoEdge)
    <3>1. Value(p, d) - Value(p, s) \in Int
      BY <1>2, ValueIsInt
    <3>2. QED
      BY <3>1, NoEdgeFits DEF IsWithin
  <2>4. W(s, d) \in {a, NoEdge}
    OBVIOUS
  <2> HIDE DEF a, W
  <2>5. QED
    BY <2>2, <2>3, <2>4
<1> HIDE DEF W
<1>5. h \in GraphOn(N)
  BY <1>3 DEF GraphOn
<1>6. \A p \in Points : Fits(p, l) => Fits(p, h)
  BY <1>4 DEF Fits
<1>7. QED
  BY <1>1, <1>5, <1>6 DEF Relaxed

(* Relations that follow from bounds of both sides hold in the points of   *)
(* either.                                                                 *)
LEMMA ReapplyBoundsKeeps ==
    ASSUME NEW N \in NodeSets, NEW g \in GraphOn(N), NEW l \in GraphOn(N), NEW r \in GraphOn(N)
    PROVE  /\ ReapplyBounds(g, l, r) \in GraphOn(N)
           /\ \A p \in Points : Fits(p, g) /\ (Fits(p, l) \/ Fits(p, r))
                                    => Fits(p, ReapplyBounds(g, l, r))
<1> DEFINE Both(s, d) == elem(l, s, d) /\ elem(r, s, d)
           variables == Vertices(g) \ {Zero}
           lb_up == {v \in variables : Both(v, Zero) /\ BLt(r[<<v, Zero>>], l[<<v, Zero>>])}
           lb_down == {v \in variables : Both(v, Zero) /\ BLt(l[<<v, Zero>>], r[<<v, Zero>>])}
           ub_up == {v \in variables : Both(Zero, v) /\ BLt(l[<<Zero, v>>], r[<<Zero, v>>])}
           ub_down == {v \in variables : Both(Zero, v) /\ BLt(r[<<Zero, v>>], l[<<Zero, v>>])}
           Moved == (lb_up \X ub_up) \cup (lb_down \X ub_down)
           Hulled(s, d) == BMax(BAdd(l[<<s, Zero>>], l[<<Zero, d>>]), BAdd(r[<<s, Zero>>], r[<<Zero, d>>]))
           W(s, d) == IF s # d /\ <<s, d>> \in Moved THEN BMin(g[<<s, d>>], Hulled(s, d)) ELSE g[<<s, d>>]
           h == [e \in N \X N |-> W(e[1], e[2])]
<1>1. ReapplyBounds(g, l, r) = h
  BY VerticesOf, EvaluatedSame DEF ReapplyBounds, Graph
<1> HIDE DEF Moved
<1>2. /\ Zero \in N /\ N \subseteq Node
      /\ \A s, d \in N : l[<<s, d>>] \in Upper /\ r[<<s, d>>] \in Upper /\ g[<<s, d>>] \in Upper
  BY NodeSetsFinite DEF GraphOn
<1>3. \A s, d \in N : Hulled(s, d) \in Upper
  BY <1>2, WeightsClosed
<1>4. ASSUME NEW s \in N, NEW d \in N PROVE W(s, d) \in Upper
  <2> HIDE DEF Hulled
  <2>1. QED
    BY <1>2, <1>3, WeightsClosed
<1>5. ASSUME NEW p \in Points, Fits(p, g), Fits(p, l) \/ Fits(p, r), NEW s \in N, NEW d \in N
      PROVE  IsWithin(p, s, d, W(s, d))
  <2> DEFINE a == BAdd(l[<<s, Zero>>], l[<<Zero, d>>])
             b == BAdd(r[<<s, Zero>>], r[<<Zero, d>>])
  <2>1. Value(p, d) - Value(p, s) \in Int
    BY <1>2, ValueIsInt
  <2>2. a \in Upper /\ b \in Upper
    BY <1>2, WeightsClosed
  <2>3. Fits(p, l) => IsWithin(p, s, d, a)
    <3>1. SUFFICES ASSUME Fits(p, l) PROVE IsWithin(p, s, d, a)
      OBVIOUS
    <3>2. \A t, u \in N : IsWithin(p, t, u, l[<<t, u>>]) /\ t \in Node
      BY <1>2, <3>1 DEF GraphOn, Fits
    <3>3. QED
      BY <1>2, <3>2, PathFits
  <2>4. Fits(p, r) => IsWithin(p, s, d, b)
    <3>1. SUFFICES ASSUME Fits(p, r) PROVE IsWithin(p, s, d, b)
      OBVIOUS
    <3>2. \A t, u \in N : IsWithin(p, t, u, r[<<t, u>>]) /\ t \in Node
      BY <1>2, <3>1 DEF GraphOn, Fits
    <3>3. QED
      BY <1>2, <3>2, PathFits
  <2>5. IsWithin(p, s, d, g[<<s, d>>])
    BY <1>5 DEF Fits, GraphOn
  <2>6. Hulled(s, d) = BMax(a, b)
    OBVIOUS
  <2> HIDE DEF a, b, Hulled
  <2>7. Hulled(s, d) \in Upper /\ IsWithin(p, s, d, Hulled(s, d))
    BY <1>5, <2>1, <2>2, <2>3, <2>4, <2>6, MaxUpper DEF IsWithin
  <2>8. IsWithin(p, s, d, BMin(g[<<s, d>>], Hulled(s, d)))
    BY <1>2, <2>1, <2>5, <2>7, MinUpper DEF IsWithin
  <2>9. QED
    BY <2>5, <2>8
<1> HIDE DEF W
<1>6. h \in GraphOn(N)
  BY <1>4 DEF GraphOn
<1>7. \A p \in Points : Fits(p, g) /\ (Fits(p, l) \/ Fits(p, r)) => Fits(p, h)
  BY <1>5 DEF Fits
<1>8. QED
  BY <1>1, <1>6, <1>7

LEMMA JoinKeeps ==
    ASSUME NEW a, WellFormed(a), NEW b, WellFormed(b)
    PROVE  /\ WellFormed(join(a, b))
           /\ \A p \in Points : In(p, a) \/ In(p, b) => In(p, join(a, b))
<1>1. CASE a.bottom
  BY <1>1, InIs DEF join
<1>2. CASE ~ a.bottom /\ b.bottom
  BY <1>2, InIs DEF join
<1>3. CASE ~ a.bottom /\ ~ b.bottom /\ (is_top_zone(a) \/ is_top_zone(b))
  <2>1. join(a, b) \in {a, b} /\ is_top_zone(join(a, b))
    BY <1>3 DEF join
  <2>2. QED
    BY <2>1, TopHasAll
<1>4. CASE ~ a.bottom /\ ~ b.bottom /\ ~ is_top_zone(a) /\ ~ is_top_zone(b)
  <2>1. PICK N \in NodeSets : a.g \in GraphOn(N)
    BY DEF WellFormed
  <2>2. PICK M \in NodeSets : b.g \in GraphOn(M)
    BY DEF WellFormed
  <2> DEFINE K == N \cap M
             l == CommonPart(a, b)
             r == CommonPart(b, a)
             lm == MeetGraph(l, Deferred(l, r))
             rm == MeetGraph(r, Deferred(r, l))
             lc == close_after_meet(lm)
             rc == close_after_meet(rm)
             j == JoinGraph(lc, rc)
             k == ReapplyBounds(j, l, r)
             o == OnlyUsed(k)
  <2>3. K \in NodeSets /\ l \in GraphOn(K) /\ \A p \in Points : Fits(p, a.g) => Fits(p, l)
    BY <2>1, <2>2, CommonPartKeeps
  <2>4. M \cap N = K
    OBVIOUS
  <2>5. r \in GraphOn(K) /\ \A p \in Points : Fits(p, b.g) => Fits(p, r)
    BY <2>1, <2>2, <2>4, CommonPartKeeps
  <2> HIDE DEF K, l, r
  <2>6. lm \in Relaxed(K, l)
    <3>1. Deferred(l, r) \in Relaxed(K, l)
      BY <2>3, DeferredKeeps
    <3>2. QED
      BY <2>3, <3>1, MeetGraphKeeps DEF Relaxed
  <2>7. rm \in Relaxed(K, r)
    <3>1. Deferred(r, l) \in Relaxed(K, r)
      BY <2>3, <2>5, DeferredKeeps
    <3>2. QED
      BY <2>3, <2>5, <3>1, MeetGraphKeeps DEF Relaxed
  <2> HIDE DEF lm, rm
  <2>8. lc \in Relaxed(K, l) /\ rc \in Relaxed(K, r)
    BY <2>3, <2>6, <2>7, ShortestPathsKeeps DEF close_after_meet, Relaxed
  <2> HIDE DEF lc, rc
  <2>9. /\ j \in GraphOn(K)
        /\ \A p \in Points : Fits(p, l) \/ Fits(p, r) => Fits(p, j)
    BY <2>3, <2>8, JoinGraphKeeps DEF Relaxed
  <2> HIDE DEF j
  <2>10. /\ k \in GraphOn(K)
         /\ \A p \in Points : Fits(p, l) \/ Fits(p, r) => Fits(p, k)
    BY <2>3, <2>5, <2>9, ReapplyBoundsKeeps
  <2> HIDE DEF k
  <2>11. /\ \E L \in NodeSets : o \in GraphOn(L)
         /\ \A p \in Points : Fits(p, l) \/ Fits(p, r) => Fits(p, o)
    BY <2>3, <2>10, OnlyUsedKeeps
  <2>12. join(a, b) = Zone(o)
    BY <1>4 DEF join, JoinClosed, o, k, j, rc, lc, rm, lm, l, r
  <2> HIDE DEF o
  <2>13. WellFormed(join(a, b)) /\ join(a, b).bottom = FALSE /\ join(a, b).g = o
    BY <2>11, <2>12, ZoneTyped
  <2>14. QED
    BY <2>3, <2>5, <2>11, <2>13, InIs
<1>5. QED
  BY <1>1, <1>2, <1>3, <1>4

(* The widened zone is closed again from the vertices that normalize takes *)
(* for the unstable ones.                                                  *)
LEMMA SearchedKeeps ==
    ASSUME NEW N \in NodeSets, NEW g \in GraphOn(N), NEW h \in Relaxed(N, g), NEW stable
    PROVE  Searched(g, h, stable) \in Relaxed(N, g)
<1> DEFINE W(s, d) == IF s \notin stable /\ Zero \notin {s, d} THEN h[<<s, d>>] ELSE g[<<s, d>>]
           k == [e \in N \X N |-> W(e[1], e[2])]
<1>1. Searched(g, h, stable) = k
  BY VerticesOf, EvaluatedSame DEF Searched, Graph
<1>2. \A s, d \in N : W(s, d) \in {h[<<s, d>>], g[<<s, d>>]}
  OBVIOUS
<1> HIDE DEF W
<1>3. k \in GraphOn(N)
  BY <1>2 DEF Relaxed, GraphOn
<1>4. ASSUME NEW p \in Points, Fits(p, g) PROVE Fits(p, k)
  <2>1. Fits(p, h)
    BY <1>4 DEF Relaxed
  <2>2. \A s, d \in N : IsWithin(p, s, d, g[<<s, d>>]) /\ IsWithin(p, s, d, h[<<s, d>>])
    BY <1>4, <2>1 DEF Fits, GraphOn, Relaxed
  <2>3. \A s, d \in N : IsWithin(p, s, d, W(s, d))
    BY <1>2, <2>2
  <2>4. QED
    BY <2>3 DEF Fits
<1>5. QED
  BY <1>1, <1>3, <1>4 DEF Relaxed

LEMMA WidenKeeps ==
    ASSUME NEW a, WellFormed(a), NEW b, WellFormed(b)
    PROVE  /\ WellFormed(widen(a, b))
           /\ \A p \in Points : In(p, a) \/ In(p, b) => In(p, widen(a, b))
<1>1. CASE a.bottom
  BY <1>1, InIs DEF widen
<1>2. CASE ~ a.bottom /\ b.bottom
  BY <1>2, InIs DEF widen
<1>3. CASE ~ a.bottom /\ ~ b.bottom
  <2>1. PICK N \in NodeSets : a.g \in GraphOn(N)
    BY DEF WellFormed
  <2>2. PICK M \in NodeSets : b.g \in GraphOn(M)
    BY DEF WellFormed
  <2> DEFINE K == N \cap M
             l == CommonPart(a, b)
             r == CommonPart(b, a)
             w == WidenGraph(l, r)
             u == Unstable(l, w)
             c == close_after_widen(w, u)
             n == normalize(w, u)
  <2>3. K \in NodeSets /\ l \in GraphOn(K) /\ \A p \in Points : Fits(p, a.g) => Fits(p, l)
    BY <2>1, <2>2, CommonPartKeeps
  <2>4. M \cap N = K
    OBVIOUS
  <2>5. r \in GraphOn(K) /\ \A p \in Points : Fits(p, b.g) => Fits(p, r)
    BY <2>1, <2>2, <2>4, CommonPartKeeps
  <2> HIDE DEF K, l, r
  <2>6. /\ w \in GraphOn(K)
        /\ \A p \in Points : Fits(p, l) \/ Fits(p, r) => Fits(p, w)
    BY <2>3, <2>5, WidenGraphKeeps
  <2> HIDE DEF w
  <2>7. c \in Relaxed(K, w)
    BY <2>3, <2>6, ShortestPathsKeeps, SearchedKeeps DEF close_after_widen
  <2> HIDE DEF u, c
  <2>8. close_after_assign(c, Zero) \in Relaxed(K, w)
    BY <2>3, <2>7, CloseAfterAssignKeeps DEF Relaxed
  <2>9. n \in {w, close_after_assign(c, Zero)}
    BY DEF normalize, c
  <2> HIDE DEF n
  <2>10. n \in GraphOn(K) /\ \A p \in Points : Fits(p, w) => Fits(p, n)
    BY <2>6, <2>8, <2>9 DEF Relaxed
  <2>11. widen(a, b) = Zone(n)
    BY <1>3 DEF widen, WidenClosed, Normalized, n, u, w, l, r
  <2>12. WellFormed(widen(a, b)) /\ widen(a, b).bottom = FALSE /\ widen(a, b).g = n
    BY <2>3, <2>10, <2>11, ZoneTyped
  <2>13. QED
    BY <2>3, <2>5, <2>6, <2>10, <2>12, InIs
<1>4. QED
  BY <1>1, <1>2, <1>3

LEMMA MeetKeeps ==
    ASSUME NEW a, WellFormed(a), NEW b, WellFormed(b)
    PROVE  /\ WellFormed(meet(a, b))
           /\ \A p \in Points : In(p, a) /\ In(p, b) => In(p, meet(a, b))
<1>1. CASE a.bottom \/ b.bottom
  BY <1>1, BottomZoneTyped, InIs DEF meet
<1>2. CASE ~ a.bottom /\ ~ b.bottom /\ (is_top_zone(a) \/ is_top_zone(b))
  <2>1. meet(a, b) \in {a, b}
    BY <1>2 DEF meet
  <2>2. QED
    BY <2>1
<1>3. CASE ~ a.bottom /\ ~ b.bottom /\ ~ is_top_zone(a) /\ ~ is_top_zone(b)
  <2>1. PICK N \in NodeSets : a.g \in GraphOn(N)
    BY DEF WellFormed
  <2>2. PICK M \in NodeSets : b.g \in GraphOn(M)
    BY DEF WellFormed
  <2> DEFINE K == N \cup M
             l == WithVertices(a.g, VarsOf(b))
             r == WithVertices(b.g, VarsOf(a))
             m == MeetGraph(l, r)
             c == close_after_meet(m)
             n == close_after_assign(c, Zero)
  <2>3. /\ VarsOf(a) \in SUBSET Node /\ N \cup VarsOf(b) = K
        /\ VarsOf(b) \in SUBSET Node /\ M \cup VarsOf(a) = K
    <3>1. VarsOf(a) = N \ {Zero} /\ VarsOf(b) = M \ {Zero}
      BY <2>1, <2>2, VerticesOf DEF VarsOf
    <3>2. N \subseteq Node /\ M \subseteq Node /\ Zero \in N /\ Zero \in M
      BY NodeSetsFinite
    <3>3. QED
      BY <3>1, <3>2
  <2>4. /\ K \in NodeSets /\ l \in GraphOn(K)
        /\ \A p \in Points : Fits(p, a.g) => Fits(p, l)
    BY <2>1, <2>3, WithVerticesTyped, WithVerticesFits
  <2>5. /\ r \in GraphOn(K)
        /\ \A p \in Points : Fits(p, b.g) => Fits(p, r)
    BY <2>2, <2>3, WithVerticesTyped, WithVerticesFits
  <2> HIDE DEF K, l, r
  <2>6. /\ m \in GraphOn(K)
        /\ \A p \in Points : Fits(p, l) /\ Fits(p, r) => Fits(p, m)
    BY <2>4, <2>5, MeetGraphKeeps
  <2> HIDE DEF m
  <2>7. c \in Relaxed(K, m)
    BY <2>4, <2>6, ShortestPathsKeeps DEF close_after_meet
  <2> HIDE DEF c
  <2>8. n \in Relaxed(K, m)
    BY <2>4, <2>7, CloseAfterAssignKeeps DEF Relaxed
  <2>9. meet(a, b) = FeasibleZone(n)
    BY <1>3 DEF meet, n, c, m, l, r
  <2> HIDE DEF n
  <2>10. WellFormed(meet(a, b))
    BY <2>4, <2>8, <2>9, ZoneTyped DEF Relaxed
  <2>11. ASSUME NEW p \in Points, In(p, a), In(p, b) PROVE In(p, meet(a, b))
    <3>1. n \in GraphOn(K) /\ Fits(p, n)
      BY <2>4, <2>5, <2>6, <2>8, <2>11, InIs DEF Relaxed
    <3>2. QED
      BY <2>4, <2>9, <3>1, FeasibleFits
  <2>12. QED
    BY <2>10, <2>11
<1>4. QED
  BY <1>1, <1>2, <1>3

LEMMA NarrowKeeps ==
    ASSUME NEW a, WellFormed(a), NEW b, WellFormed(b)
    PROVE  /\ WellFormed(narrow(a, b))
           /\ \A p \in Points : In(p, a) /\ In(p, b) => In(p, narrow(a, b))
<1>1. CASE a.bottom \/ b.bottom
  BY <1>1, BottomZoneTyped, InIs DEF narrow
<1>2. CASE ~ a.bottom /\ ~ b.bottom
  <2>1. narrow(a, b) \in {a, b}
    BY <1>2 DEF narrow
  <2>2. QED
    BY <2>1
<1>3. QED
  BY <1>1, <1>2

-----------------------------------------------------------------------------
(* Linear expressions.  The value of one is a sum over the variables,      *)
(* taken in the order of CHOOSE; its interval is taken in that order too.  *)
IsSum(it, S, k, f) ==
    /\ it \in [SUBSET S -> Int]
    /\ it[{}] = k
    /\ \A s \in SUBSET S : s # {} => it[s] = it[s \ {Pick(s)}] + f[Pick(s)]

LEMMA SumAnyOrder ==
    ASSUME NEW S, IsFiniteSet(S), NEW k, NEW f \in [S -> Int], NEW it, IsSum(it, S, k, f)
    PROVE  \A s \in SUBSET S : \A x \in s : it[s] = it[s \ {x}] + f[x]
<1> DEFINE A == {s \in SUBSET S : \A x \in s : it[s] = it[s \ {x}] + f[x]}
<1>1. {} \in A
  OBVIOUS
<1>2. ASSUME NEW s \in SUBSET S, s # {}, \A x \in s : s \ {x} \in A
      PROVE  s \in A
  <2> SUFFICES ASSUME NEW x \in s PROVE it[s] = it[s \ {x}] + f[x]
    OBVIOUS
  <2> DEFINE y == Pick(s)
             t == (s \ {x}) \ {y}
  <2>1. y \in s /\ x \in S /\ y \in S /\ f[x] \in Int /\ f[y] \in Int
    BY <1>2 DEF Pick
  <2>2. it[s] = it[s \ {y}] + f[y]
    BY <1>2 DEF IsSum
  <2> HIDE DEF y
  <2>3. CASE x = y
    BY <2>2, <2>3
  <2>4. CASE x # y
    <3>1. it[s \ {y}] = it[(s \ {y}) \ {x}] + f[x]
      BY <1>2, <2>1, <2>4
    <3>2. it[s \ {x}] = it[(s \ {x}) \ {y}] + f[y]
      BY <1>2, <2>1, <2>4
    <3>3. (s \ {y}) \ {x} = t /\ t \in SUBSET S
      OBVIOUS
    <3> HIDE DEF t
    <3>4. it[t] \in Int
      BY <3>3 DEF IsSum
    <3>5. it[s \ {x}] = it[t] + f[y] /\ it[s \ {y}] = it[t] + f[x]
      BY <3>1, <3>2, <3>3 DEF t
    <3>6. QED
      BY <2>1, <2>2, <3>4, <3>5
  <2>5. QED
    BY <2>3, <2>4
<1>3. \A s \in SUBSET S : s \in A
  <2> HIDE DEF A
  <2>1. QED
    BY <1>1, <1>2, SubsetInduction
<1>4. QED
  BY <1>3

(* Terms that are zero can be left out.                                    *)
LEMMA SumWithoutZeros ==
    ASSUME NEW S, IsFiniteSet(S), NEW k, NEW f \in [S -> Int], NEW it, IsSum(it, S, k, f),
           NEW T \in SUBSET S, \A x \in S \ T : f[x] = 0
    PROVE  it[S] = it[T]
<1> DEFINE R == S \ T
           A == {u \in SUBSET R : it[T \cup u] = it[T]}
<1>1. IsFiniteSet(R)
  BY FS_Subset
<1>2. {} \in A
  <2>1. T \cup {} = T
    OBVIOUS
  <2>2. QED
    BY <2>1
<1>3. ASSUME NEW u \in SUBSET R, u # {}, \A x \in u : u \ {x} \in A
      PROVE  u \in A
  <2>1. PICK x \in u : TRUE
    BY <1>3
  <2>2. (T \cup u) \ {x} = T \cup (u \ {x}) /\ T \cup u \in SUBSET S /\ x \in T \cup u
    BY <2>1
  <2>3. it[T \cup u] = it[T \cup (u \ {x})] + f[x]
    BY <2>2, SumAnyOrder
  <2>4. f[x] = 0 /\ it[T \cup (u \ {x})] = it[T] /\ it[T] \in Int
    BY <1>3, <2>1 DEF IsSum
  <2>5. QED
    BY <2>3, <2>4
<1>4. \A u \in SUBSET R : u \in A
  <2> HIDE DEF A, R
  <2>1. QED
    BY <1>1, <1>2, <1>3, SubsetInduction
<1>5. T \cup R = S /\ R \in A
  BY <1>4
<1>6. QED
  BY <1>5

LEMMA SumSplits ==
    ASSUME NEW S, IsFiniteSet(S), NEW k, NEW f \in [S -> Int], NEW it, IsSum(it, S, k, f), NEW y \in S
    PROVE  it[S] = it[S \ {y}] + f[y]
<1>1. S \in SUBSET S
  OBVIOUS
<1>2. QED
  BY <1>1, SumAnyOrder

(* One term less.                                                          *)
LEMMA SumOfOneLess ==
    ASSUME NEW S, IsFiniteSet(S), NEW k, NEW f \in [S -> Int], NEW h \in [S -> Int],
           NEW y \in S, NEW n \in Int, h[y] = f[y] - n, \A x \in S \ {y} : h[x] = f[x],
           NEW it, IsSum(it, S, k, f), NEW jt, IsSum(jt, S, k, h)
    PROVE  jt[S] = it[S] - n
<1>1. it[S] = it[S \ {y}] + f[y] /\ jt[S] = jt[S \ {y}] + h[y]
  <2>1. it[S] = it[S \ {y}] + f[y]
    BY SumSplits
  <2>2. jt[S] = jt[S \ {y}] + h[y]
    BY SumSplits
  <2>3. QED
    BY <2>1, <2>2
<1> DEFINE R == S \ {y}
           A == {s \in SUBSET R : jt[s] = it[s]}
<1>2. IsFiniteSet(R)
  BY FS_Subset
<1>3. {} \in A
  BY DEF IsSum
<1>4. ASSUME NEW s \in SUBSET R, s # {}, \A x \in s : s \ {x} \in A
      PROVE  s \in A
  <2>1. Pick(s) \in s
    BY <1>4 DEF Pick
  <2>2. it[s] = it[s \ {Pick(s)}] + f[Pick(s)] /\ jt[s] = jt[s \ {Pick(s)}] + h[Pick(s)]
    BY <1>4 DEF IsSum
  <2>3. h[Pick(s)] = f[Pick(s)] /\ jt[s \ {Pick(s)}] = it[s \ {Pick(s)}]
    BY <1>4, <2>1
  <2>4. QED
    BY <2>2, <2>3
<1>5. \A s \in SUBSET R : s \in A
  <2> HIDE DEF A, R
  <2>1. QED
    BY <1>2, <1>3, <1>4, SubsetInduction
<1>6. jt[R] = it[R] /\ it[R] \in Int
  BY <1>5 DEF IsSum
<1>7. f[y] \in Int
  OBVIOUS
<1>8. QED
  BY <1>1, <1>6, <1>7

Linears == [c : [Var -> Int], k : Int]
TermsOf(e, p) == [x \in Var |-> e.c[x] * p[x]]

LEMMA ValueOfIs ==
    ASSUME NEW e \in Linears, NEW p \in Points
    PROVE  /\ TermsOf(e, p) \in [Var -> Int]
           /\ \E it : IsSum(it, Var, e.k, TermsOf(e, p)) /\ ValueOf(e, p) = it[Var]
<1> DEFINE f == TermsOf(e, p)
           Step == [a \in Var \X Int |-> a[2] + f[a[1]]]
           Chosen(iter) == iter = [s \in SUBSET Var |-> IF s = {} THEN e.k
                               ELSE iter[s \ {CHOOSE x \in s : TRUE}] + e.c[CHOOSE x \in s : TRUE] * p[CHOOSE x \in s : TRUE]]
           iter == CHOOSE iter : Chosen(iter)
<1>1. ValueOf(e, p) = iter[Var]
  BY DEF ValueOf, FoldSet, MapThenFoldSet
<1>2. e.k \in Int /\ e.c \in [Var -> Int] /\ p \in [Var -> Int]
  BY DEF Linears, Points
<1>3. \A x \in Var : e.c[x] \in Int /\ p[x] \in Int /\ f[x] = e.c[x] * p[x] /\ f[x] \in Int
  BY <1>2 DEF TermsOf
<1>4. f \in [Var -> Int]
  BY <1>3 DEF TermsOf
<1> HIDE DEF f
<1>5. Step \in [Var \X Int -> Int]
  BY <1>3
<1>6. PICK it \in [SUBSET Var -> Int] : IsFold(it, Var, e.k, Step)
  <2> HIDE DEF Step
  <2>1. QED
    BY VarAssumption, <1>2, <1>5, FoldExists
<1>7. Chosen(it)
  <2>1. ASSUME NEW s \in SUBSET Var, s # {}
        PROVE  Step[<<Pick(s), it[s \ {Pick(s)}]>>] = it[s \ {Pick(s)}] + e.c[Pick(s)] * p[Pick(s)]
    <3>1. Pick(s) \in Var /\ it[s \ {Pick(s)}] \in Int
      BY <1>6, <2>1 DEF Pick
    <3>2. QED
      BY <1>3, <3>1
  <2> HIDE DEF Step
  <2>2. [s \in SUBSET Var |-> IF s = {} THEN e.k ELSE Step[<<Pick(s), it[s \ {Pick(s)}]>>]]
           = [s \in SUBSET Var |-> IF s = {} THEN e.k
                 ELSE it[s \ {Pick(s)}] + e.c[Pick(s)] * p[Pick(s)]]
    BY <2>1
  <2>3. it = [s \in SUBSET Var |-> IF s = {} THEN e.k
                 ELSE it[s \ {Pick(s)}] + e.c[Pick(s)] * p[Pick(s)]]
    BY <1>6, <2>2 DEF IsFold
  <2>4. QED
    BY <2>3 DEF Pick
<1>8. Chosen(iter)
  BY <1>7, Zenon
<1> HIDE DEF iter
<1>9. ASSUME NEW s \in SUBSET Var, s # {}
      PROVE  Pick(s) \in s /\ iter[s] = iter[s \ {Pick(s)}] + f[Pick(s)]
  <2>1. iter[s] = iter[s \ {Pick(s)}] + e.c[Pick(s)] * p[Pick(s)]
    BY <1>8, <1>9 DEF Pick
  <2>2. Pick(s) \in s
    BY <1>9 DEF Pick
  <2>3. QED
    BY <1>3, <2>1, <2>2
<1>10. iter[{}] = e.k /\ DOMAIN iter = SUBSET Var /\ iter = [s \in SUBSET Var |-> iter[s]]
  <2>1. DOMAIN iter = SUBSET Var /\ iter = [s \in SUBSET Var |-> iter[s]]
    BY <1>8, Zenon
  <2>2. iter[{}] = e.k
    BY <1>8
  <2>3. QED
    BY <2>1, <2>2
<1> DEFINE A == {s \in SUBSET Var : iter[s] \in Int}
<1>11. {} \in A
  BY <1>2, <1>10
<1>12. ASSUME NEW s \in SUBSET Var, s # {}, \A x \in s : s \ {x} \in A
       PROVE  s \in A
  <2>1. Pick(s) \in s /\ iter[s] = iter[s \ {Pick(s)}] + f[Pick(s)]
    BY <1>9, <1>12
  <2>2. iter[s \ {Pick(s)}] \in Int
    BY <1>12, <2>1
  <2>3. f[Pick(s)] \in Int
    BY <1>3, <2>1
  <2>4. QED
    BY <2>1, <2>2, <2>3
<1>13. \A s \in SUBSET Var : s \in A
  <2> HIDE DEF A
  <2>1. QED
    BY VarAssumption, <1>11, <1>12, SubsetInduction
<1>14. iter \in [SUBSET Var -> Int]
  BY <1>10, <1>13
<1>15. IsSum(iter, Var, e.k, f)
  BY <1>9, <1>10, <1>14 DEF IsSum
<1>16. QED
  BY <1>1, <1>4, <1>15 DEF f

(* A term of an expression is in its interval.                             *)
LEMMA ScaleCovers ==
    ASSUME NEW i \in Proper, NEW k \in Int
    PROVE  /\ Scale(i, k) \in Proper
           /\ \A n \in Int : contains(i, n) => contains(Scale(i, k), k * n)
<1>1. Exactly(0) \in Proper /\ contains(Exactly(0), 0) /\ Exactly(k) \in Proper /\ contains(Exactly(k), k)
  BY ExactlyIs
<1>2. CASE k = 0
  <2>1. Scale(i, k) = Exactly(0) /\ \A n \in Int : k * n = 0
    BY <1>2 DEF Scale
  <2>2. QED
    BY <1>1, <2>1
<1>3. CASE k # 0
  <2>1. Scale(i, k) = MulI(Exactly(k), i)
    BY <1>3 DEF Scale
  <2>2. QED
    BY <1>1, <2>1, ProductTyped, ProductCovers
<1>4. QED
  BY <1>2, <1>3

(* The interval of an expression has its value in every point of the zone. *)
LEMMA EvalCovers ==
    ASSUME NEW z, WellFormed(z), NEW e \in Linears
    PROVE  /\ eval_interval(z, e) \in Proper
           /\ \A p \in Points : In(p, z) => contains(eval_interval(z, e), ValueOf(e, p))
<1> DEFINE T == {x \in Var : e.c[x] # 0}
           Term_(x) == Scale(Get(z, x), e.c[x])
           Step == [a \in T \X Proper |-> SumI(a[2], Term_(a[1]))]
           Chosen(iter) == iter = [s \in SUBSET T |-> IF s = {} THEN Exactly(e.k)
                               ELSE SumI(iter[s \ {CHOOSE x \in s : TRUE}],
                                         Scale(Get(z, CHOOSE x \in s : TRUE), e.c[CHOOSE x \in s : TRUE]))]
           iter == CHOOSE iter : Chosen(iter)
<1>1. eval_interval(z, e) = iter[T]
  BY DEF eval_interval, FoldSet, MapThenFoldSet
<1>2. IsFiniteSet(T) /\ T \subseteq Var /\ \A x \in Var \ T : e.c[x] = 0
  BY VarAssumption, FS_Subset
<1>3. e.k \in Int /\ e.c \in [Var -> Int]
  BY DEF Linears
<1> HIDE DEF T
<1>4. \A x \in T : e.c[x] \in Int /\ Term_(x) \in Proper
  BY <1>2, <1>3, GetTyped, ScaleCovers
<1>5. Exactly(e.k) \in Proper
  BY <1>3, ExactlyIs
<1>6. Step \in [T \X Proper -> Proper]
  <2> HIDE DEF Term_
  <2>1. QED
    BY <1>4, SumTyped
<1>7. PICK it \in [SUBSET T -> Proper] : IsFold(it, T, Exactly(e.k), Step)
  <2> HIDE DEF Step
  <2>1. QED
    BY <1>2, <1>5, <1>6, FoldExists
<1>8. Chosen(it)
  <2>1. ASSUME NEW s \in SUBSET T, s # {}
        PROVE  Step[<<Pick(s), it[s \ {Pick(s)}]>>] = SumI(it[s \ {Pick(s)}], Term_(Pick(s)))
    <3>1. Pick(s) \in T /\ it[s \ {Pick(s)}] \in Proper
      BY <1>7, <2>1 DEF Pick
    <3> HIDE DEF Term_
    <3>2. QED
      BY <3>1
  <2> HIDE DEF Step, Term_
  <2>2. [s \in SUBSET T |-> IF s = {} THEN Exactly(e.k) ELSE Step[<<Pick(s), it[s \ {Pick(s)}]>>]]
           = [s \in SUBSET T |-> IF s = {} THEN Exactly(e.k)
                 ELSE SumI(it[s \ {Pick(s)}], Term_(Pick(s)))]
    BY <2>1
  <2>3. it = [s \in SUBSET T |-> IF s = {} THEN Exactly(e.k)
                 ELSE SumI(it[s \ {Pick(s)}], Term_(Pick(s)))]
    BY <1>7, <2>2 DEF IsFold
  <2>4. QED
    BY <2>3 DEF Pick, Term_
<1>9. Chosen(iter)
  BY <1>8, Zenon
<1> HIDE DEF iter
<1>10. ASSUME NEW s \in SUBSET T, s # {}
       PROVE  Pick(s) \in s /\ iter[s] = SumI(iter[s \ {Pick(s)}], Term_(Pick(s)))
  <2>1. iter[s] = SumI(iter[s \ {Pick(s)}], Term_(Pick(s)))
    BY <1>9, <1>10 DEF Pick
  <2>2. Pick(s) \in s
    BY <1>10 DEF Pick
  <2>3. QED
    BY <2>1, <2>2
<1>11. iter[{}] = Exactly(e.k)
  BY <1>9
<1> DEFINE A == {s \in SUBSET T : iter[s] \in Proper}
<1>12. {} \in A
  BY <1>5, <1>11
<1>13. ASSUME NEW s \in SUBSET T, s # {}, \A x \in s : s \ {x} \in A
       PROVE  s \in A
  <2>1. Pick(s) \in s /\ iter[s] = SumI(iter[s \ {Pick(s)}], Term_(Pick(s)))
    BY <1>10, <1>13
  <2>2. iter[s \ {Pick(s)}] \in Proper
    BY <1>13, <2>1
  <2>3. Term_(Pick(s)) \in Proper
    BY <1>4, <2>1
  <2> HIDE DEF Term_
  <2>4. QED
    BY <2>1, <2>2, <2>3, SumTyped
<1>14. \A s \in SUBSET T : iter[s] \in Proper
  <2>1. \A s \in SUBSET T : s \in A
    <3> HIDE DEF A
    <3>1. QED
      BY <1>2, <1>12, <1>13, SubsetInduction
  <2>2. QED
    BY <2>1
<1>15. ASSUME NEW p \in Points, In(p, z)
       PROVE  contains(iter[T], ValueOf(e, p))
  <2> DEFINE f == TermsOf(e, p)
  <2>1. PICK sum : IsSum(sum, Var, e.k, f) /\ ValueOf(e, p) = sum[Var]
    BY ValueOfIs
  <2>2. f \in [Var -> Int] /\ \A x \in Var : f[x] = e.c[x] * p[x] /\ p[x] \in Int
    BY ValueOfIs DEF TermsOf, Points
  <2> HIDE DEF f
  <2>3. \A x \in Var \ T : f[x] = 0
    BY <1>2, <2>2
  <2>4. sum[Var] = sum[T]
    BY <1>2, <2>1, <2>2, <2>3, VarAssumption, SumWithoutZeros
  <2> DEFINE B == {s \in SUBSET T : contains(iter[s], sum[s])}
  <2>5. {} \in B
    <3>1. sum[{}] = e.k
      BY <2>1 DEF IsSum
    <3>2. QED
      BY <1>3, <1>11, <3>1, ExactlyIs
  <2>6. ASSUME NEW s \in SUBSET T, s # {}, \A x \in s : s \ {x} \in B
        PROVE  s \in B
    <3> DEFINE x == Pick(s)
               t == s \ {x}
    <3>1. /\ x \in T /\ x \in Var /\ x \in Node /\ x # Zero /\ t \in SUBSET T /\ s \in SUBSET Var /\ t \in SUBSET Var
          /\ iter[s] = SumI(iter[t], Term_(x)) /\ contains(iter[t], sum[t])
      BY <1>2, <1>10, <2>6, VarAssumption DEF Node
    <3>2. sum[s] = sum[t] + f[x]
      BY <2>1, <2>6, <3>1 DEF IsSum
    <3> HIDE DEF x, t
    <3>3. sum[t] \in Int /\ f[x] \in Int /\ e.c[x] \in Int /\ p[x] \in Int /\ f[x] = e.c[x] * p[x]
      BY <1>3, <2>1, <2>2, <3>1 DEF IsSum
    <3>4. contains(Get(z, x), p[x]) /\ Get(z, x) \in Proper
      <4>1. Operand(z, x) = Get(z, x) /\ Value(p, x) = p[x]
        BY <3>1 DEF Operand, Value
      <4>2. QED
        BY <1>15, <3>1, <4>1, GetCovers
    <3>5. Term_(x) \in Proper /\ contains(Term_(x), f[x])
      BY <3>3, <3>4, ScaleCovers
    <3> HIDE DEF Term_
    <3>6. contains(iter[s], sum[t] + f[x])
      BY <1>14, <3>1, <3>3, <3>5, SumCovers
    <3>7. QED
      BY <3>2, <3>6
  <2>7. \A s \in SUBSET T : s \in B
    <3> HIDE DEF B
    <3>1. QED
      BY <1>2, <2>5, <2>6, SubsetInduction
  <2>8. QED
    BY <2>1, <2>4, <2>7
<1>16. QED
  BY <1>1, <1>14, <1>15

(* The rest of an expression without one y.                                *)
LEMMA RestCovers ==
    ASSUME NEW z, WellFormed(z), NEW e \in Linears, NEW y \in DOMAIN Rests(z, e)
    PROVE  /\ y \in Var /\ Rests(z, e)[y] \in Proper
           /\ \A p \in Points : In(p, z) => contains(Rests(z, e)[y], ValueOf(e, p) - p[y])
<1> DEFINE d == [e EXCEPT !.c[y] = @ - 1]
<1>1. y \in Var /\ Rests(z, e)[y] = eval_interval(z, d)
  BY DEF Rests
<1>2. e.c \in [Var -> Int] /\ e.k \in Int /\ e = [c |-> e.c, k |-> e.k]
  BY DEF Linears
<1>3. d.c = [e.c EXCEPT ![y] = @ - 1] /\ d.k = e.k /\ d \in Linears
  BY <1>1, <1>2 DEF Linears
<1>4. ASSUME NEW p \in Points PROVE ValueOf(d, p) = ValueOf(e, p) - p[y]
  <2>1. TermsOf(e, p) \in [Var -> Int] /\ TermsOf(d, p) \in [Var -> Int]
    BY <1>3, ValueOfIs
  <2>2. PICK it : IsSum(it, Var, e.k, TermsOf(e, p)) /\ ValueOf(e, p) = it[Var]
    BY ValueOfIs
  <2>3. PICK jt : IsSum(jt, Var, e.k, TermsOf(d, p)) /\ ValueOf(d, p) = jt[Var]
    BY <1>3, ValueOfIs
  <2>4. \A x \in Var \ {y} : TermsOf(d, p)[x] = TermsOf(e, p)[x]
    BY <1>2, <1>3 DEF TermsOf
  <2>5. p[y] \in Int /\ e.c[y] \in Int
    BY <1>1, <1>2 DEF Points
  <2>6. TermsOf(d, p)[y] = (e.c[y] - 1) * p[y] /\ TermsOf(e, p)[y] = e.c[y] * p[y]
    BY <1>1, <1>2, <1>3 DEF TermsOf
  <2>7. (e.c[y] - 1) * p[y] = e.c[y] * p[y] - p[y]
    BY <2>5
  <2> DEFINE f == TermsOf(e, p)
             h == TermsOf(d, p)
  <2>8. f \in [Var -> Int] /\ h \in [Var -> Int] /\ h[y] = f[y] - p[y]
        /\ \A x \in Var \ {y} : h[x] = f[x]
    BY <2>1, <2>4, <2>6, <2>7
  <2> HIDE DEF f, h
  <2>9. IsSum(it, Var, e.k, f) /\ IsSum(jt, Var, e.k, h)
    BY <2>2, <2>3 DEF f, h
  <2>10. jt[Var] = it[Var] - p[y]
    BY <1>1, <1>2, <2>5, <2>8, <2>9, VarAssumption, SumOfOneLess
  <2>11. QED
    BY <2>2, <2>3, <2>10
<1> HIDE DEF d
<1>5. QED
  BY <1>1, <1>3, <1>4, EvalCovers

(* Bounds of one pair, of which the least is taken.                        *)
LEMMA LeastOf ==
    ASSUME NEW K, IsFiniteSet(K), NEW w \in [K -> Upper]
    PROVE  Least(NoEdge, {w[y] : y \in K}) \in {w[y] : y \in K} \cup {NoEdge}
<1> DEFINE B == {w[y] : y \in K}
<1>1. w \in Surjection(K, B)
  BY DEF Surjection
<1>2. B \subseteq Upper
  OBVIOUS
<1> HIDE DEF B
<1>3. IsFiniteSet(B)
  BY <1>1, FS_Surjection
<1>4. QED
  BY <1>2, <1>3, NoEdgeFits, LeastIs DEF B

LEMMA AssignKeeps ==
    ASSUME NEW z, WellFormed(z), NEW x \in Var, NEW e \in Linears
    PROVE  /\ WellFormed(assign(z, x, e))
           /\ \A p \in Points : In(p, z) => In([p EXCEPT ![x] = ValueOf(e, p)], assign(z, x, e))
<1> DEFINE range == eval_interval(z, e)
           rest == Rests(z, e)
           terms == {y \in DOMAIN rest : ~ is_top(rest[y])}
           ToY(d) == [y \in terms |-> IF y = d THEN BNeg(rest[y].lb)
                                      ELSE BAdd(BNeg(rest[y].lb), Edge(z.g, y, d))]
           FromY(s) == [y \in terms |-> IF y = s THEN rest[y].ub ELSE BAdd(Edge(z.g, s, y), rest[y].ub)]
           To(d) == {IF y = d THEN BNeg(rest[y].lb) ELSE BAdd(BNeg(rest[y].lb), Edge(z.g, y, d)) : y \in terms}
           From(s) == {IF y = s THEN rest[y].ub ELSE BAdd(Edge(z.g, s, y), rest[y].ub) : y \in terms}
           W(s, d) == IF s = x /\ d = x THEN NoEdge
                      ELSE IF s = x THEN IF d = Zero THEN BNeg(range.lb) ELSE Least(NoEdge, To(d))
                      ELSE IF d = x THEN IF s = Zero THEN range.ub ELSE Least(NoEdge, From(s))
                      ELSE Edge(z.g, s, d)
<1>1. /\ range \in Proper
      /\ \A p \in Points : In(p, z) => contains(range, ValueOf(e, p))
  BY EvalCovers
<1>2. /\ terms \subseteq Var
      /\ \A y \in terms : /\ rest[y] \in Proper /\ rest[y].ub \in Upper /\ BNeg(rest[y].lb) \in Upper
                          /\ \A p \in Points : In(p, z) => contains(rest[y], ValueOf(e, p) - p[y])
  BY RestCovers, Negation DEF Proper
<1>3. PICK N \in NodeSets : z.g \in GraphOn(N)
  BY DEF WellFormed
<1>4. x \in Node /\ x # Zero /\ Zero \in Node /\ terms \subseteq Node
  BY <1>2, VarAssumption DEF Node
<1>5. IsFiniteSet(terms)
  BY <1>2, VarAssumption, FS_Subset
<1>6. \A d : To(d) = {ToY(d)[y] : y \in terms}
  OBVIOUS
<1>7. \A s : From(s) = {FromY(s)[y] : y \in terms}
  OBVIOUS
<1>8. assign(z, x, e) = IF z.bottom THEN z ELSE IF is_singleton(range) \/ terms = {} THEN SetBounds(z, x, range)
                        ELSE Zone(Graph(Vertices(z.g) \cup {x} \cup terms, W))
  BY DEF assign, AssignTerms
<1> DEFINE M == N \cup {x} \cup terms
           h == [a \in M \X M |-> W(a[1], a[2])]
<1>9. Graph(Vertices(z.g) \cup {x} \cup terms, W) = h
  BY <1>3, VerticesOf, EvaluatedSame DEF Graph
<1>10. M \in NodeSets /\ \A s, d \in M : s \in Node /\ d \in Node
  BY <1>4, NodeSetsFinite DEF NodeSets
<1>11. ASSUME NEW d PROVE ToY(d) \in [terms -> Upper]
  <2>1. ASSUME NEW y \in terms
        PROVE  (IF y = d THEN BNeg(rest[y].lb) ELSE BAdd(BNeg(rest[y].lb), Edge(z.g, y, d))) \in Upper
    BY <1>2, <1>3, EdgeTyped, WeightsClosed
  <2> HIDE DEF terms, rest
  <2>2. QED
    BY <2>1
<1>12. ASSUME NEW s PROVE FromY(s) \in [terms -> Upper]
  <2>1. ASSUME NEW y \in terms
        PROVE  (IF y = s THEN rest[y].ub ELSE BAdd(Edge(z.g, s, y), rest[y].ub)) \in Upper
    BY <1>2, <1>3, EdgeTyped, WeightsClosed
  <2> HIDE DEF terms, rest
  <2>2. QED
    BY <2>1
<1>13. ASSUME NEW d
       PROVE  Least(NoEdge, To(d)) \in Upper /\ Least(NoEdge, To(d)) \in To(d) \cup {NoEdge}
  <2>1. To(d) = {ToY(d)[y] : y \in terms}
    BY <1>6
  <2>2. ToY(d) \in [terms -> Upper]
    BY <1>11
  <2> HIDE DEF ToY, To, terms
  <2>3. QED
    BY <1>5, <2>1, <2>2, LeastOf, NoEdgeFits
<1>14. ASSUME NEW s
       PROVE  Least(NoEdge, From(s)) \in Upper /\ Least(NoEdge, From(s)) \in From(s) \cup {NoEdge}
  <2>1. From(s) = {FromY(s)[y] : y \in terms}
    BY <1>7
  <2>2. FromY(s) \in [terms -> Upper]
    BY <1>12
  <2> HIDE DEF FromY, From, terms
  <2>3. QED
    BY <1>5, <2>1, <2>2, LeastOf, NoEdgeFits
<1>15. range.ub \in Upper /\ BNeg(range.lb) \in Upper
  BY <1>1, Negation DEF Proper
<1>16. ASSUME NEW s \in M, NEW d \in M PROVE W(s, d) \in Upper
  <2>1. Edge(z.g, s, d) \in Upper
    BY <1>3, EdgeTyped
  <2>2. Least(NoEdge, To(d)) \in Upper /\ Least(NoEdge, From(s)) \in Upper
    BY <1>13, <1>14
  <2> HIDE DEF To, From, range
  <2>3. QED
    BY <1>15, <2>1, <2>2, NoEdgeFits
<1>17. h \in GraphOn(M)
  <2> HIDE DEF W
  <2>1. QED
    BY <1>16 DEF GraphOn
<1>18. WellFormed(assign(z, x, e))
  <2>1. WellFormed(SetBounds(z, x, range))
    BY <1>1, SetBoundsTyped
  <2>2. WellFormed(Zone(h))
    <3> HIDE DEF h, M
    <3>1. QED
      BY <1>10, <1>17, ZoneTyped
  <2> HIDE DEF range, terms, h, M, W
  <2>3. QED
    BY <1>8, <1>9, <2>1, <2>2
<1>19. ASSUME NEW p \in Points, In(p, z)
       PROVE  In([p EXCEPT ![x] = ValueOf(e, p)], assign(z, x, e))
  <2> DEFINE n == ValueOf(e, p)
             q == [p EXCEPT ![x] = n]
  <2>1. n \in Int
    BY ValueOfIs DEF IsSum
  <2>2. q \in Points /\ Value(q, x) = n /\ Value(q, Zero) = 0 /\ \A s \in Node \ {x} : Value(q, s) = Value(p, s)
    BY <1>4, <2>1 DEF Points, Value, Node
  <2>3. contains(range, n)
    BY <1>1, <1>19
  <2> HIDE DEF n
  <2>4. CASE is_singleton(range) \/ terms = {}
    <3>1. ~ is_bottom(range)
      BY <1>1, <2>1, <2>3, BottomEmpty
    <3>2. set(z, x, range) = SetBounds(z, x, range)
      BY <3>1 DEF set
    <3>3. In(q, set(z, x, range))
      BY <1>1, <1>19, <2>1, <2>3, SetKeeps
    <3>4. assign(z, x, e) = SetBounds(z, x, range)
      BY <1>8, <1>19, <2>4 DEF In
    <3>5. QED
      BY <3>2, <3>3, <3>4 DEF n
  <2>5. CASE ~ (is_singleton(range) \/ terms = {})
    <3>1. \A s, d \in Node : IsWithin(p, s, d, Edge(z.g, s, d)) /\ Edge(z.g, s, d) \in Upper
      BY <1>3, <1>19, EdgeFits, InIs
    <3>2. \A s, d \in Node : IsWithin(q, s, d, NoEdge)
      BY <2>2, ValueIsInt, NoEdgeFits DEF IsWithin
    <3>3. ASSUME NEW y \in terms
          PROVE  /\ Value(p, y) \in Int
                 /\ BLeq(Fin(Value(p, y) - n), BNeg(rest[y].lb))
                 /\ BLeq(Fin(n - Value(p, y)), rest[y].ub)
      <4>1. y \in Var /\ Value(p, y) = p[y] /\ p[y] \in Int
        BY <1>2, VarAssumption DEF Points, Value
      <4>2. rest[y] \in Proper /\ contains(rest[y], n - p[y])
        BY <1>2, <1>19 DEF n
      <4>3. rest[y].lb \in Lower /\ BLeq(rest[y].lb, Fin(n - p[y])) /\ BLeq(Fin(n - p[y]), rest[y].ub)
        BY <4>2 DEF Proper, contains
      <4> HIDE DEF rest, terms
      <4>4. n - p[y] \in Int /\ -(n - p[y]) = p[y] - n
        BY <2>1, <4>1
      <4>5. BLeq(Fin(-(n - p[y])), BNeg(rest[y].lb))
        BY <4>3, <4>4, NegationMirrors
      <4>6. QED
        BY <4>1, <4>3, <4>4, <4>5
    <3>4. ASSUME NEW d \in Node \ {x}, NEW w \in To(d) PROVE IsWithin(q, x, d, w)
      <4>1. PICK y \in terms : w = IF y = d THEN BNeg(rest[y].lb) ELSE BAdd(BNeg(rest[y].lb), Edge(z.g, y, d))
        OBVIOUS
      <4>2. Value(q, d) - Value(q, x) = Value(p, d) - n /\ Value(p, d) \in Int
        BY <2>2, ValueIsInt
      <4>3. CASE y = d
        BY <3>3, <4>1, <4>2, <4>3 DEF IsWithin
      <4>4. CASE y # d
        <5> DEFINE i == Value(p, y) - n
                   j == Value(p, d) - Value(p, y)
        <5>1. i \in Int /\ j \in Int /\ i + j = Value(p, d) - n
          BY <2>1, <3>3, <4>2
        <5>2. /\ BLeq(Fin(i), BNeg(rest[y].lb)) /\ BNeg(rest[y].lb) \in Upper
              /\ BLeq(Fin(j), Edge(z.g, y, d)) /\ Edge(z.g, y, d) \in Upper
          BY <1>2, <1>4, <3>1, <3>3 DEF IsWithin
        <5> HIDE DEF i, j, rest, q
        <5>3. BLeq(Fin(i + j), BAdd(BNeg(rest[y].lb), Edge(z.g, y, d)))
          BY <5>1, <5>2, SumUpper
        <5>4. QED
          BY <4>1, <4>2, <4>4, <5>1, <5>3 DEF IsWithin
      <4>5. QED
        BY <4>3, <4>4
    <3>5. ASSUME NEW s \in Node \ {x}, NEW w \in From(s) PROVE IsWithin(q, s, x, w)
      <4>1. PICK y \in terms : w = IF y = s THEN rest[y].ub ELSE BAdd(Edge(z.g, s, y), rest[y].ub)
        OBVIOUS
      <4>2. Value(q, x) - Value(q, s) = n - Value(p, s) /\ Value(p, s) \in Int
        BY <2>2, ValueIsInt
      <4>3. CASE y = s
        BY <3>3, <4>1, <4>2, <4>3 DEF IsWithin
      <4>4. CASE y # s
        <5> DEFINE i == Value(p, y) - Value(p, s)
                   j == n - Value(p, y)
        <5>1. i \in Int /\ j \in Int /\ i + j = n - Value(p, s)
          BY <2>1, <3>3, <4>2
        <5>2. /\ BLeq(Fin(j), rest[y].ub) /\ rest[y].ub \in Upper
              /\ BLeq(Fin(i), Edge(z.g, s, y)) /\ Edge(z.g, s, y) \in Upper
          BY <1>2, <1>4, <3>1, <3>3 DEF IsWithin
        <5> HIDE DEF i, j, rest, q
        <5>3. BLeq(Fin(i + j), BAdd(Edge(z.g, s, y), rest[y].ub))
          BY <5>1, <5>2, SumUpper
        <5>4. QED
          BY <4>1, <4>2, <4>4, <5>1, <5>3 DEF IsWithin
      <4>5. QED
        BY <4>3, <4>4
    <3>6. IsWithin(q, x, Zero, BNeg(range.lb)) /\ IsWithin(q, Zero, x, range.ub)
      <4>1. range.lb \in Lower /\ BLeq(range.lb, Fin(n)) /\ BLeq(Fin(n), range.ub)
        BY <1>1, <2>3 DEF Proper, contains
      <4> HIDE DEF range, q
      <4>2. BLeq(Fin(-n), BNeg(range.lb))
        BY <2>1, <4>1, NegationMirrors
      <4>3. Value(q, x) - Value(q, Zero) = n /\ Value(q, Zero) - Value(q, x) = -n
        BY <2>1, <2>2
      <4>4. QED
        BY <4>1, <4>2, <4>3 DEF IsWithin
    <3>7. ASSUME NEW s \in M, NEW d \in M PROVE IsWithin(q, s, d, W(s, d))
      <4>1. s \in Node /\ d \in Node
        BY <1>10
      <4>2. CASE s = x /\ d = x
        BY <3>2, <4>1, <4>2
      <4>3. CASE s = x /\ d # x
        <5>1. Least(NoEdge, To(d)) \in To(d) \cup {NoEdge}
          BY <1>13
        <5> HIDE DEF To, q, range
        <5>2. IsWithin(q, s, d, Least(NoEdge, To(d)))
          BY <3>2, <3>4, <4>1, <4>3, <5>1
        <5>3. QED
          BY <3>6, <4>3, <5>2
      <4>4. CASE s # x /\ d = x
        <5>1. Least(NoEdge, From(s)) \in From(s) \cup {NoEdge}
          BY <1>14
        <5> HIDE DEF From, q, range
        <5>2. IsWithin(q, s, d, Least(NoEdge, From(s)))
          BY <3>2, <3>5, <4>1, <4>4, <5>1
        <5>3. QED
          BY <3>6, <4>4, <5>2
      <4>5. CASE s # x /\ d # x
        <5>1. IsWithin(q, s, d, Edge(z.g, s, d))
          BY <2>2, <3>1, <4>1, <4>5 DEF IsWithin
        <5>2. QED
          BY <4>5, <5>1
      <4>6. QED
        BY <4>2, <4>3, <4>4, <4>5
    <3>8. Fits(q, h)
      <4> HIDE DEF W, q, M
      <4>1. QED
        BY <3>7 DEF Fits
    <3>9. assign(z, x, e) = Zone(h)
      BY <1>8, <1>9, <1>19, <2>5 DEF In
    <3> HIDE DEF h, q
    <3>10. QED
      BY <3>8, <3>9, InIs DEF Zone, q, n
  <2>6. QED
    BY <2>4, <2>5
<1>20. QED
  BY <1>18, <1>19

-----------------------------------------------------------------------------
(* The inductive invariant: beside PointsCovered, that both zones are well *)
(* formed even where no point is left in them, since they are combined     *)
(* with zones that have some.                                              *)
ZonesTyped ==
    /\ DOMAIN zone = Side /\ DOMAIN points = Side
    /\ \A i \in Side : WellFormed(zone[i]) /\ points[i] \subseteq Points
ZoneInv == ZonesTyped /\ PointsCovered

LEMMA InitZones == Init => ZoneInv
<1> SUFFICES ASSUME Init PROVE ZoneInv
  OBVIOUS
<1>1. Grid \subseteq Points
  BY ValuesAssumption DEF Grid, Points
<1>2. WellFormed(TopZone) /\ is_top_zone(TopZone)
  <2>1. TopZone.bottom = FALSE /\ TopZone.g = EmptyGraph
    BY DEF TopZone, Zone
  <2>2. QED
    BY <2>1, BottomZoneTyped DEF is_top_zone, EmptyGraph
<1>3. \A p \in Points : In(p, TopZone)
  BY <1>2, TopHasAll
<1>4. /\ DOMAIN zone = Side /\ DOMAIN points = Side
      /\ \A i \in Side : zone[i] = TopZone /\ points[i] = Grid
  BY DEF Init
<1>5. QED
  BY <1>1, <1>2, <1>3, <1>4 DEF ZoneInv, ZonesTyped, PointsCovered

(* Where one side becomes a zone that covers its new points.               *)
LEMMA BecomeKeeps ==
    ASSUME ZoneInv, NEW i \in Side, NEW z, NEW P, Become(i, z, P), WellFormed(z),
           P \subseteq Points, \A p \in P : In(p, z)
    PROVE  ZoneInv'
<1>1. zone' = [zone EXCEPT ![i] = z] /\ points' = [points EXCEPT ![i] = P]
  BY DEF Become
<1>2. DOMAIN zone' = Side /\ DOMAIN points' = Side
  BY <1>1 DEF ZoneInv, ZonesTyped
<1>3. ASSUME NEW j \in Side
      PROVE  WellFormed(zone'[j]) /\ points'[j] \subseteq Points /\ \A p \in points'[j] : In(p, zone'[j])
  <2>1. CASE j = i
    <3>1. zone'[j] = z /\ points'[j] = P
      BY <1>1, <2>1 DEF ZoneInv, ZonesTyped
    <3>2. QED
      BY <3>1
  <2>2. CASE j # i
    <3>1. zone'[j] = zone[j] /\ points'[j] = points[j]
      BY <1>1, <2>2 DEF ZoneInv, ZonesTyped
    <3>2. QED
      BY <3>1 DEF ZoneInv, ZonesTyped, PointsCovered
  <2>3. QED
    BY <2>1, <2>2
<1>4. ZonesTyped'
  BY <1>2, <1>3 DEF ZonesTyped, WellFormed
<1>5. PointsCovered'
  BY <1>3 DEF PointsCovered, In
<1>6. QED
  BY <1>4, <1>5 DEF ZoneInv

LEMMA NextZones == ZoneInv /\ [Next]_vars => ZoneInv'
<1> SUFFICES ASSUME ZoneInv, [Next]_vars PROVE ZoneInv'
  OBVIOUS
<1>1. \A i \in Side : /\ WellFormed(zone[i]) /\ points[i] \subseteq Points
                      /\ \A p \in points[i] : p \in Points /\ In(p, zone[i])
  BY DEF ZoneInv, ZonesTyped, PointsCovered
<1>2. 1 \in Side /\ 2 \in Side
  BY DEF Side
<1>3. ASSUME NEW i \in Side, NEW c \in Csts, AddConstraint(i, c) PROVE ZoneInv'
  <2>1. c \in Constraints
    BY QuestionsAssumption DEF Relations, Constraints
  <2>2. Become(i, add_constraint(zone[i], c), {p \in points[i] : Holds(c, p)})
    BY <1>3 DEF AddConstraint
  <2>3. WellFormed(add_constraint(zone[i], c))
    BY <1>1, <2>1, AddConstraintTyped
  <2>4. \A p \in {q \in points[i] : Holds(c, q)} : In(p, add_constraint(zone[i], c))
    BY <1>1, <2>1, AddConstraintKeeps
  <2>5. {p \in points[i] : Holds(c, p)} \subseteq Points
    BY <1>1
  <2>6. QED
    BY <2>2, <2>3, <2>4, <2>5, BecomeKeeps
<1>4. ASSUME NEW i \in Side, NEW a \in Assigns, Assign(i, a[1], a[2]) PROVE ZoneInv'
  <2> DEFINE x == a[1]
             e == a[2]
             P == {[p EXCEPT ![x] = ValueOf(e, p)] : p \in points[i]}
  <2>1. x \in Var /\ e \in Linears
    BY AssignsAssumption DEF Linears
  <2>2. Become(i, assign(zone[i], x, e), P)
    BY <1>4 DEF Assign
  <2> HIDE DEF x, e
  <2>3. WellFormed(assign(zone[i], x, e))
    BY <1>1, <2>1, AssignKeeps
  <2>4. \A p \in P : In(p, assign(zone[i], x, e))
    BY <1>1, <2>1, AssignKeeps
  <2>5. P \subseteq Points
    <3>1. \A p \in points[i] : ValueOf(e, p) \in Int
      BY <1>1, <2>1, ValueOfIs DEF IsSum
    <3>2. QED
      BY <1>1, <2>1, <3>1 DEF Points
  <2> HIDE DEF P
  <2>6. QED
    BY <2>2, <2>3, <2>4, <2>5, BecomeKeeps
<1>5. ASSUME NEW i \in Side, NEW r \in Ranges, Set(i, r[1], r[2]) PROVE ZoneInv'
  <2> DEFINE x == r[1]
             v == r[2]
             P == {[p EXCEPT ![x] = n] : p \in points[i], n \in {m \in Values : contains(v, m)}}
  <2>1. x \in Var /\ v \in Proper
    <3>1. x \in Var /\ v \in [lb : Number \cup {MinusInf}, ub : Number \cup {PlusInf}]
      BY RangesAssumption
    <3>2. Number \cup {MinusInf} \subseteq Lower /\ Number \cup {PlusInf} \subseteq Upper
      <4>1. \A b \in Number : b \in Bound /\ ~ b.inf
        BY DEF Number, Bound
      <4>2. Number \subseteq Lower /\ Number \subseteq Upper
        BY <4>1 DEF Lower, Upper
      <4>3. MinusInf \in Lower /\ PlusInf \in Upper
        BY DEF MinusInf, PlusInf, Lower, Upper, Bound
      <4>4. QED
        BY <4>2, <4>3
    <3>3. QED
      BY <3>1, <3>2 DEF Proper
  <2>2. Become(i, set(zone[i], x, v), P)
    BY <1>5 DEF Set
  <2> HIDE DEF x, v
  <2>3. WellFormed(set(zone[i], x, v))
    BY <1>1, <2>1, SetBoundsTyped
  <2>4. \A p \in P : In(p, set(zone[i], x, v))
    BY <1>1, <2>1, ValuesAssumption, SetKeeps
  <2>5. P \subseteq Points
    BY <1>1, <2>1, ValuesAssumption DEF Points
  <2> HIDE DEF P
  <2>6. QED
    BY <2>2, <2>3, <2>4, <2>5, BecomeKeeps
<1>6. ASSUME NEW i \in Side, NEW x \in Var, Forget(i, x) PROVE ZoneInv'
  <2> DEFINE P == {[p EXCEPT ![x] = n] : p \in points[i], n \in Values}
  <2>1. Become(i, forget(zone[i], x), P)
    BY <1>6 DEF Forget
  <2>2. WellFormed(forget(zone[i], x))
    BY <1>1, ForgetTyped
  <2>3. \A p \in P : In(p, forget(zone[i], x))
    BY <1>1, ValuesAssumption, ForgetKeeps
  <2>4. P \subseteq Points
    BY <1>1, ValuesAssumption DEF Points
  <2> HIDE DEF P
  <2>5. QED
    BY <2>1, <2>2, <2>3, <2>4, BecomeKeeps
<1>7. CASE JoinZones
  <2>1. Become(1, join(zone[1], zone[2]), points[1] \cup points[2])
    BY <1>7 DEF JoinZones
  <2>2. QED
    BY <1>1, <1>2, <2>1, JoinKeeps, BecomeKeeps
<1>8. CASE WidenZones
  <2>1. Become(1, widen(zone[1], zone[2]), points[1] \cup points[2])
    BY <1>8 DEF WidenZones
  <2>2. QED
    BY <1>1, <1>2, <2>1, WidenKeeps, BecomeKeeps
<1>9. CASE MeetZones
  <2>1. Become(1, meet(zone[1], zone[2]), points[1] \cap points[2])
    BY <1>9 DEF MeetZones
  <2>2. QED
    BY <1>1, <1>2, <2>1, MeetKeeps, BecomeKeeps
<1>10. CASE NarrowZones
  <2>1. Become(1, narrow(zone[1], zone[2]), points[2])
    BY <1>10 DEF NarrowZones
  <2>2. \A p \in points[2] : In(p, zone[1])
    BY <1>10 DEF NarrowZones
  <2>3. QED
    BY <1>1, <1>2, <2>1, <2>2, NarrowKeeps, BecomeKeeps
<1>11. CASE UNCHANGED vars
  BY <1>11 DEF vars, ZoneInv, ZonesTyped, PointsCovered, WellFormed, In
<1>12. QED
  BY <1>3, <1>4, <1>5, <1>6, <1>7, <1>8, <1>9, <1>10, <1>11 DEF Next

LEMMA ZonesHold == Spec => []ZoneInv
BY InitZones, NextZones, PTL DEF Spec

(* NoPointLost: however constraints, assignments, joins, widenings, meets  *)
(* and narrowings follow each other, every program state that the same     *)
(* operations give is one of the zone's.                                   *)
THEOREM NoPointLost == Spec => []PointsCovered
<1>1. ZoneInv => PointsCovered
  BY DEF ZoneInv
<1>2. QED
  BY <1>1, ZonesHold, PTL

(* SubsumptionHolds: in every reachable pair of zones, the one that leq    *)
(* puts below the other has no point the other lacks.                      *)
THEOREM SubsumptionHolds == Spec => []SubsumptionSound
<1>1. ZoneInv => SubsumptionSound
  BY LeqIsInclusion DEF ZoneInv, ZonesTyped, Side
<1>2. QED
  BY <1>1, ZonesHold, PTL

(* AnswersHold: in every reachable zone the checker's questions are        *)
(* answered rightly.                                                       *)
THEOREM AnswersHold == Spec => []QuestionsSound
<1>1. ZoneInv => QuestionsSound
  BY QuestionsAreSound DEF ZoneInv, ZonesTyped, Side
<1>2. QED
  BY <1>1, ZonesHold, PTL
=============================================================================
