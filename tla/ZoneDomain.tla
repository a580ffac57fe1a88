------------------------------ MODULE ZoneDomain ------------------------------
(***************************************************************************)
(* Two abstract states of the zone domain and the program states they      *)
(* stand for.  Each side is built by the operations the transformer uses;  *)
(* the fixpoint iteration then combines the left one with the right one.   *)
(* Beside each zone runs the set of points (values of the variables) that  *)
(* the same operations give in the program.                                *)
(***************************************************************************)
EXTENDS SplitDbm

CONSTANTS
    Values,            \* the values a point starts with
    Csts, Questions,   \* constraints to add, and to ask for
    Assigns,           \* assignments <<variable, linear expression>>
    Ranges,            \* <<variable, interval>> to set
    MaxBuild,          \* bound: operations on the two sides before they meet
    MaxCombine         \* bound: operations after that

\* Constraints between the variables, or with zero; bounds that are finite.
Relations == [rel : {"<=", "<", "=", "#"}, x : Node, y : Node, k : Int]
Number == [inf : {FALSE}, n : Int]

ASSUME ValuesAssumption == Values \subseteq Int
ASSUME QuestionsAssumption == Csts \cup Questions \subseteq Relations
ASSUME AssignsAssumption == Assigns \subseteq Var \X [c : [Var -> Int], k : Int]
ASSUME RangesAssumption ==
    Ranges \subseteq Var \X [lb : Number \cup {MinusInf}, ub : Number \cup {PlusInf}]

VARIABLES
    zone,      \* the zone of each side
    points,    \* the points of each side
    steps      \* <<operations on the left, on the right, combinations>>

vars == <<zone, points, steps>>

Side == {1, 2}
Grid == [Var -> Values]

Value(p, x) == IF x = Zero THEN 0 ELSE p[x]
Holds(c, p) == Compares(c.rel, Value(p, c.x) - Value(p, c.y) - c.k)
ValueOf(e, p) == FoldSet(LAMBDA x, n : n + e.c[x] * p[x], e.k, Var)
In(p, z) == /\ ~ z.bottom
            /\ \A e \in DOMAIN z.g : BLeq(Fin(Value(p, e[2]) - Value(p, e[1])), z.g[e])

Init == /\ zone = [i \in Side |-> TopZone]
        /\ points = [i \in Side |-> Grid]
        /\ steps = <<0, 0, 0>>

\* The right side is built after the left one; the left one goes on
\* changing once they are combined.
Building(i) == /\ steps[3] = 0
               /\ steps[1] + steps[2] < MaxBuild
               /\ i = 1 => steps[2] = 0
               /\ steps' = [steps EXCEPT ![i] = @ + 1]
Going(i) == /\ i = 1
            /\ steps[3] \in 1 .. MaxCombine - 1
            /\ steps' = [steps EXCEPT ![3] = @ + 1]
Become(i, z, P) == /\ zone' = [zone EXCEPT ![i] = z]
                   /\ points' = [points EXCEPT ![i] = P]

AddConstraint(i, c) ==
    /\ Building(i) \/ Going(i)
    /\ Become(i, add_constraint(zone[i], c), {p \in points[i] : Holds(c, p)})

Assign(i, x, e) ==
    /\ Building(i) \/ Going(i)
    /\ Become(i, assign(zone[i], x, e), {[p EXCEPT ![x] = ValueOf(e, p)] : p \in points[i]})

\* The transformer learns an interval for x, or nothing.
Set(i, x, v) ==
    /\ Building(i)
    /\ Become(i, set(zone[i], x, v),
              {[p EXCEPT ![x] = n] : p \in points[i], n \in {m \in Values : contains(v, m)}})
Forget(i, x) ==
    /\ Building(i) \/ Going(i)
    /\ Become(i, forget(zone[i], x), {[p EXCEPT ![x] = n] : p \in points[i], n \in Values})

Combining == /\ steps[3] < MaxCombine
             /\ steps' = [steps EXCEPT ![3] = @ + 1]

JoinZones == Combining /\ Become(1, join(zone[1], zone[2]), points[1] \cup points[2])
WidenZones == Combining /\ Become(1, widen(zone[1], zone[2]), points[1] \cup points[2])
MeetZones == Combining /\ Become(1, meet(zone[1], zone[2]), points[1] \cap points[2])
NarrowZones == /\ Combining
          /\ points[2] = {p \in points[2] : In(p, zone[1])}
          /\ Become(1, narrow(zone[1], zone[2]), points[2])

Next == \/ \E i \in Side :
               \/ \E c \in Csts : AddConstraint(i, c)
               \/ \E a \in Assigns : Assign(i, a[1], a[2])
               \/ \E r \in Ranges : Set(i, r[1], r[2])
               \/ \E x \in Var : Forget(i, x)
        \/ JoinZones
        \/ WidenZones
        \/ MeetZones
        \/ NarrowZones

Spec == Init /\ [][Next]_vars
-----------------------------------------------------------------------------
(***************************************************************************)
(* Properties.                                                             *)
(***************************************************************************)
\* No operation loses a program state: every point is in its side's zone.
PointsCovered == \A i \in Side : \A p \in points[i] : In(p, zone[i])

\* When the fixpoint iteration takes one state for subsumed by the other,
\* every point of the first is in the second.
SubsumptionSound ==
    leq(zone[2], zone[1]) => \A p \in Grid : In(p, zone[2]) => In(p, zone[1])

\* What the checker takes for entailed holds in every point, and what it
\* takes for impossible in none.
QuestionsSound ==
    \A c \in Questions :
        /\ entail(zone[1], c) => \A p \in Grid : In(p, zone[1]) => Holds(c, p)
        /\ ~ intersect(zone[1], c) => \A p \in Grid : In(p, zone[1]) => ~ Holds(c, p)

\* The split normal form: no path through a third vertex is shorter than
\* both the edge and the way over the bounds, so that bounds and relations
\* are the best that follow from what the zone knows.
Best(g, s, d) == IF Zero \in {s, d} THEN g[s, d] ELSE BMin(g[s, d], BAdd(g[s, Zero], g[Zero, d]))
NormalForm ==
    \A i \in Side : \A e \in DOMAIN zone[i].g, m \in VarsOf(zone[i]) :
        e[1] # e[2] => BLeq(Best(zone[i].g, e[1], e[2]), BAdd(zone[i].g[e[1], m], zone[i].g[m, e[2]]))
=============================================================================
