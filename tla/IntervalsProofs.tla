-------------------------- MODULE IntervalsProofs --------------------------
(***************************************************************************)
(* Proofs that the interval arithmetic covers the arithmetic of numbers,   *)
(* for all intervals and all numbers in them.                              *)
(***************************************************************************)
EXTENDS Intervals, TLAPS

(* The intervals the operations are given and give: the lower bound is not *)
(* plus infinity and the upper one not minus infinity, which leaves out    *)
(* the error and the infinities as numbers.                                *)
Lower == {b \in Bound : b.inf => b.n = -1}
Upper == {b \in Bound : b.inf => b.n = 1}
Proper == [lb : Lower, ub : Upper]

(* Numbers and the two infinities, in their order.                         *)
Extended == {b \in Bound : b.inf => b.n \in {-1, 1}}

(* Bounds of either side, and numbers, are among them.                     *)
LEMMA ExtendedHas ==
    /\ Lower \subseteq Extended /\ Upper \subseteq Extended
    /\ \A n \in Int : Fin(n) \in Extended
BY DEF Extended, Lower, Upper, Bound, Fin

(* What <= of extended_number decides.                                     *)
LEMMA Order ==
    ASSUME NEW a \in Extended, NEW b \in Extended
    PROVE  BLeq(a, b) <=> \/ a.inf /\ a.n = -1
                          \/ b.inf /\ b.n = 1
                          \/ ~ a.inf /\ ~ b.inf /\ a.n <= b.n
<1>1. /\ a.inf \in BOOLEAN /\ a.n \in Int /\ (a.inf => a.n \in {-1, 1})
      /\ b.inf \in BOOLEAN /\ b.n \in Int /\ (b.inf => b.n \in {-1, 1})
  BY DEF Extended, Bound
<1>2. CASE a.inf = b.inf
  <2>1. BLeq(a, b) <=> a.n <= b.n
    BY <1>2, Zenon DEF BLeq
  <2>2. QED
    BY <1>1, <1>2, <2>1
<1>3. CASE a.inf = TRUE /\ b.inf = FALSE
  <2>1. BLeq(a, b) <=> a.n < 0
    BY <1>3, Zenon DEF BLeq
  <2>2. QED
    BY <1>1, <1>3, <2>1
<1>4. CASE a.inf = FALSE /\ b.inf = TRUE
  <2>1. BLeq(a, b) <=> b.n > 0
    BY <1>4, Zenon DEF BLeq
  <2>2. QED
    BY <1>1, <1>4, <2>1
<1>5. QED
  BY <1>1, <1>2, <1>3, <1>4

(* The comparisons, without the two cases of a bound.                      *)
LEMMA LowerLeq ==
    ASSUME NEW l \in Lower, NEW n \in Int
    PROVE  BLeq(l, Fin(n)) <=> l.inf \/ l.n <= n
<1>1. /\ l \in Extended /\ Fin(n) \in Extended
      /\ Fin(n).inf = FALSE /\ Fin(n).n = n
  BY ExtendedHas DEF Fin
<1>2. l.inf \in BOOLEAN /\ l.n \in Int /\ (l.inf => l.n = -1)
  BY DEF Lower, Bound
<1>3. QED
  BY <1>1, <1>2, Order

LEMMA UpperGeq ==
    ASSUME NEW u \in Upper, NEW n \in Int
    PROVE  BLeq(Fin(n), u) <=> u.inf \/ n <= u.n
<1>1. /\ u \in Extended /\ Fin(n) \in Extended
      /\ Fin(n).inf = FALSE /\ Fin(n).n = n
  BY ExtendedHas DEF Fin
<1>2. u.inf \in BOOLEAN /\ u.n \in Int /\ (u.inf => u.n = 1)
  BY DEF Upper, Bound
<1>3. QED
  BY <1>1, <1>2, Order

(* An interval is empty only between two numbers.                          *)
LEMMA LowerUpper ==
    ASSUME NEW l \in Lower, NEW u \in Upper
    PROVE  BLt(u, l) <=> ~ l.inf /\ ~ u.inf /\ u.n < l.n
<1>1. l \in Extended /\ u \in Extended
  BY ExtendedHas
<1>2. /\ l.inf \in BOOLEAN /\ l.n \in Int /\ (l.inf => l.n = -1)
      /\ u.inf \in BOOLEAN /\ u.n \in Int /\ (u.inf => u.n = 1)
  BY DEF Lower, Upper, Bound
<1>3. BLeq(l, u) <=> l.inf \/ u.inf \/ l.n <= u.n
  BY <1>1, <1>2, Order
<1>4. QED
  BY <1>2, <1>3 DEF BLt

(* Two bounds of the same side.                                            *)
LEMMA CompareLower ==
    ASSUME NEW a \in Lower, NEW b \in Lower
    PROVE  BLeq(a, b) <=> a.inf \/ (~ b.inf /\ a.n <= b.n)
<1>1. a \in Extended /\ b \in Extended
  BY ExtendedHas
<1>2. /\ a.inf \in BOOLEAN /\ a.n \in Int /\ (a.inf => a.n = -1)
      /\ b.inf \in BOOLEAN /\ b.n \in Int /\ (b.inf => b.n = -1)
  BY DEF Lower, Bound
<1>3. QED
  BY <1>1, <1>2, Order

LEMMA CompareUpper ==
    ASSUME NEW a \in Upper, NEW b \in Upper
    PROVE  BLeq(a, b) <=> b.inf \/ (~ a.inf /\ a.n <= b.n)
<1>1. a \in Extended /\ b \in Extended
  BY ExtendedHas
<1>2. /\ a.inf \in BOOLEAN /\ a.n \in Int /\ (a.inf => a.n = 1)
      /\ b.inf \in BOOLEAN /\ b.n \in Int /\ (b.inf => b.n = 1)
  BY DEF Upper, Bound
<1>3. QED
  BY <1>1, <1>2, Order

(* The least and the greatest of two bounds.                               *)
LEMMA MinLower ==
    ASSUME NEW a \in Lower, NEW b \in Lower, NEW n \in Int
    PROVE  /\ BMin(a, b) \in Lower
           /\ BLeq(BMin(a, b), Fin(n)) <=> BLeq(a, Fin(n)) \/ BLeq(b, Fin(n))
<1>1. /\ a.inf \in BOOLEAN /\ a.n \in Int
      /\ b.inf \in BOOLEAN /\ b.n \in Int
  BY DEF Lower, Bound
<1>2. CASE BLeq(a, b)
  BY <1>1, <1>2, CompareLower, LowerLeq DEF BMin
<1>3. CASE ~ BLeq(a, b)
  BY <1>1, <1>3, CompareLower, LowerLeq DEF BMin
<1>4. QED
  BY <1>2, <1>3

LEMMA MaxLower ==
    ASSUME NEW a \in Lower, NEW b \in Lower, NEW n \in Int
    PROVE  /\ BMax(a, b) \in Lower
           /\ BLeq(BMax(a, b), Fin(n)) <=> BLeq(a, Fin(n)) /\ BLeq(b, Fin(n))
<1>1. /\ a.inf \in BOOLEAN /\ a.n \in Int
      /\ b.inf \in BOOLEAN /\ b.n \in Int
  BY DEF Lower, Bound
<1>2. CASE BLeq(a, b)
  BY <1>1, <1>2, CompareLower, LowerLeq DEF BMax
<1>3. CASE ~ BLeq(a, b)
  BY <1>1, <1>3, CompareLower, LowerLeq DEF BMax
<1>4. QED
  BY <1>2, <1>3

LEMMA MinUpper ==
    ASSUME NEW a \in Upper, NEW b \in Upper, NEW n \in Int
    PROVE  /\ BMin(a, b) \in Upper
           /\ BLeq(Fin(n), BMin(a, b)) <=> BLeq(Fin(n), a) /\ BLeq(Fin(n), b)
<1>1. /\ a.inf \in BOOLEAN /\ a.n \in Int
      /\ b.inf \in BOOLEAN /\ b.n \in Int
  BY DEF Upper, Bound
<1>2. CASE BLeq(a, b)
  BY <1>1, <1>2, CompareUpper, UpperGeq DEF BMin
<1>3. CASE ~ BLeq(a, b)
  BY <1>1, <1>3, CompareUpper, UpperGeq DEF BMin
<1>4. QED
  BY <1>2, <1>3

LEMMA MaxUpper ==
    ASSUME NEW a \in Upper, NEW b \in Upper, NEW n \in Int
    PROVE  /\ BMax(a, b) \in Upper
           /\ BLeq(Fin(n), BMax(a, b)) <=> BLeq(Fin(n), a) \/ BLeq(Fin(n), b)
<1>1. /\ a.inf \in BOOLEAN /\ a.n \in Int
      /\ b.inf \in BOOLEAN /\ b.n \in Int
  BY DEF Upper, Bound
<1>2. CASE BLeq(a, b)
  BY <1>1, <1>2, CompareUpper, UpperGeq DEF BMax
<1>3. CASE ~ BLeq(a, b)
  BY <1>1, <1>3, CompareUpper, UpperGeq DEF BMax
<1>4. QED
  BY <1>2, <1>3

(* Sums of bounds of one side have no infinities that cancel out.          *)
LEMMA AddLower ==
    ASSUME NEW a \in Lower, NEW b \in Lower
    PROVE  /\ BAdd(a, b) \in Lower
           /\ BAdd(a, b).inf <=> a.inf \/ b.inf
           /\ ~ BAdd(a, b).inf => BAdd(a, b).n = a.n + b.n
<1>1. a \in Bound /\ b \in Bound
  BY DEF Lower
<1>2. CASE a.inf = TRUE
  BY <1>1, <1>2 DEF BAdd, Lower, Bound
<1>3. CASE a.inf = FALSE /\ b.inf = TRUE
  BY <1>1, <1>3 DEF BAdd, Lower, Bound
<1>4. CASE a.inf = FALSE /\ b.inf = FALSE
  BY <1>1, <1>4 DEF BAdd, Lower, Bound, Fin
<1>5. QED
  BY <1>1, <1>2, <1>3, <1>4 DEF Bound

LEMMA AddUpper ==
    ASSUME NEW a \in Upper, NEW b \in Upper
    PROVE  /\ BAdd(a, b) \in Upper
           /\ BAdd(a, b).inf <=> a.inf \/ b.inf
           /\ ~ BAdd(a, b).inf => BAdd(a, b).n = a.n + b.n
<1>1. a \in Bound /\ b \in Bound
  BY DEF Upper
<1>2. CASE a.inf = TRUE
  BY <1>1, <1>2 DEF BAdd, Upper, Bound
<1>3. CASE a.inf = FALSE /\ b.inf = TRUE
  BY <1>1, <1>3 DEF BAdd, Upper, Bound
<1>4. CASE a.inf = FALSE /\ b.inf = FALSE
  BY <1>1, <1>4 DEF BAdd, Upper, Bound, Fin
<1>5. QED
  BY <1>1, <1>2, <1>3, <1>4 DEF Bound

(* Negation takes bounds of one side to the other.                         *)
LEMMA Negation ==
    /\ \A a \in Upper : BNeg(a) \in Lower /\ BNeg(a).inf = a.inf /\ BNeg(a).n = -a.n
    /\ \A a \in Lower : BNeg(a) \in Upper /\ BNeg(a).inf = a.inf /\ BNeg(a).n = -a.n
BY DEF BNeg, Lower, Upper, Bound

(* Negation turns the order around, which subtraction relies on.           *)
LEMMA NegationMirrors ==
    ASSUME NEW n \in Int
    PROVE  /\ \A a \in Upper : BLeq(BNeg(a), Fin(-n)) <=> BLeq(Fin(n), a)
           /\ \A a \in Lower : BLeq(Fin(-n), BNeg(a)) <=> BLeq(a, Fin(n))
<1>1. -n \in Int
  OBVIOUS
<1>2. ASSUME NEW a \in Upper
      PROVE  BLeq(BNeg(a), Fin(-n)) <=> BLeq(Fin(n), a)
  <2>1. a.inf \in BOOLEAN /\ a.n \in Int
    BY DEF Upper, Bound
  <2>2. QED
    BY <1>1, <2>1, Negation, LowerLeq, UpperGeq
<1>3. ASSUME NEW a \in Lower
      PROVE  BLeq(Fin(-n), BNeg(a)) <=> BLeq(a, Fin(n))
  <2>1. a.inf \in BOOLEAN /\ a.n \in Int
    BY DEF Lower, Bound
  <2>2. QED
    BY <1>1, <2>1, Negation, LowerLeq, UpperGeq
<1>4. QED
  BY <1>2, <1>3

(* The sum of lower bounds is below the sum of the numbers, that of upper  *)
(* bounds above it.                                                        *)
LEMMA SumLower ==
    ASSUME NEW a \in Lower, NEW b \in Lower, NEW m \in Int, NEW n \in Int,
           BLeq(a, Fin(m)), BLeq(b, Fin(n))
    PROVE  BLeq(BAdd(a, b), Fin(m + n))
<1>1. /\ a.inf \in BOOLEAN /\ a.n \in Int /\ b.inf \in BOOLEAN /\ b.n \in Int
      /\ m + n \in Int
  BY DEF Lower, Bound
<1>2. BAdd(a, b) \in Lower
  BY AddLower
<1>3. a.inf \/ a.n <= m
  BY LowerLeq
<1>4. b.inf \/ b.n <= n
  BY LowerLeq
<1>5. BAdd(a, b).inf \/ BAdd(a, b).n <= m + n
  BY <1>1, <1>3, <1>4, AddLower
<1>6. QED
  BY <1>1, <1>2, <1>5, LowerLeq

LEMMA SumUpper ==
    ASSUME NEW a \in Upper, NEW b \in Upper, NEW m \in Int, NEW n \in Int,
           BLeq(Fin(m), a), BLeq(Fin(n), b)
    PROVE  BLeq(Fin(m + n), BAdd(a, b))
<1>1. /\ a.inf \in BOOLEAN /\ a.n \in Int /\ b.inf \in BOOLEAN /\ b.n \in Int
      /\ m + n \in Int
  BY DEF Upper, Bound
<1>2. BAdd(a, b) \in Upper
  BY AddUpper
<1>3. a.inf \/ m <= a.n
  BY UpperGeq
<1>4. b.inf \/ n <= b.n
  BY UpperGeq
<1>5. BAdd(a, b).inf \/ m + n <= BAdd(a, b).n
  BY <1>1, <1>3, <1>4, AddUpper
<1>6. QED
  BY <1>1, <1>2, <1>5, UpperGeq

(* interval() keeps every number between the two bounds it is given.       *)
LEMMA IntervalKeeps ==
    ASSUME NEW l \in Lower, NEW u \in Upper, NEW n \in Int,
           BLeq(l, Fin(n)), BLeq(Fin(n), u)
    PROVE  interval(l, u) \in Proper /\ contains(interval(l, u), n)
<1>1. ~ BLt(u, l)
  <2>1. /\ l.inf \in BOOLEAN /\ l.n \in Int
        /\ u.inf \in BOOLEAN /\ u.n \in Int
    BY DEF Lower, Upper, Bound
  <2>2. QED
    BY <2>1, LowerLeq, UpperGeq, LowerUpper
<1>2. QED
  BY <1>1 DEF interval, contains, Proper

(* bottom() holds nothing, and nor does any other empty interval.          *)
LEMMA BottomHasNone ==
    ASSUME NEW n \in Int PROVE ~ contains(BottomI, n)
<1>1. Fin(0) \in Lower /\ Fin(-1) \in Upper
  BY DEF Lower, Upper, Bound, Fin
<1>2. /\ Fin(0).inf = FALSE /\ Fin(0).n = 0
      /\ Fin(-1).inf = FALSE /\ Fin(-1).n = -1
  BY DEF Fin
<1>3. BLeq(Fin(0), Fin(n)) <=> 0 <= n
  BY <1>1, <1>2, LowerLeq
<1>4. BLeq(Fin(n), Fin(-1)) <=> n <= -1
  BY <1>1, <1>2, UpperGeq
<1>5. QED
  BY <1>3, <1>4 DEF contains, BottomI

(* interval() adds none.                                                   *)
LEMMA IntervalAdds ==
    ASSUME NEW l \in Lower, NEW u \in Upper, NEW n \in Int, contains(interval(l, u), n)
    PROVE  BLeq(l, Fin(n)) /\ BLeq(Fin(n), u)
<1>1. CASE BLt(u, l)
  BY <1>1, BottomHasNone DEF interval
<1>2. CASE ~ BLt(u, l)
  BY <1>2 DEF interval, contains
<1>3. QED
  BY <1>1, <1>2

LEMMA BottomEmpty ==
    ASSUME NEW i \in Proper, is_bottom(i), NEW n \in Int
    PROVE  ~ contains(i, n)
<1>1. i.lb \in Lower /\ i.ub \in Upper
  BY DEF Proper
<1>2. /\ i.lb.inf \in BOOLEAN /\ i.lb.n \in Int
      /\ i.ub.inf \in BOOLEAN /\ i.ub.n \in Int
  BY <1>1 DEF Lower, Upper, Bound
<1>3. QED
  BY <1>1, <1>2, LowerLeq, UpperGeq, LowerUpper DEF is_bottom, contains

(* The marker of a failed operation is no interval.                        *)
LEMMA NoError ==
    ASSUME NEW i \in Proper PROVE i # ErrorI
BY DEF Proper, Lower, Bound, ErrorI, BError

(* HullCovers: the join of two intervals has every number of both. Every   *)
(* merge of paths rests on it.                                             *)
THEOREM HullCovers ==
    ASSUME NEW i \in Proper, NEW j \in Proper, NEW n \in Int,
           contains(i, n) \/ contains(j, n)
    PROVE  Hull(i, j) \in Proper /\ contains(Hull(i, j), n)
<1>1. CASE is_bottom(i)
  <2>1. contains(j, n)
    BY <1>1, BottomEmpty
  <2>2. Hull(i, j) = j
    BY <1>1, NoError DEF Hull
  <2>3. QED
    BY <2>1, <2>2
<1>2. CASE ~ is_bottom(i) /\ is_bottom(j)
  <2>1. contains(i, n)
    BY <1>2, BottomEmpty
  <2>2. Hull(i, j) = i
    BY <1>2, NoError DEF Hull
  <2>3. QED
    BY <2>1, <2>2
<1>3. CASE ~ is_bottom(i) /\ ~ is_bottom(j)
  <2> DEFINE l == BMin(i.lb, j.lb)
             u == BMax(i.ub, j.ub)
  <2>1. Hull(i, j) = interval(l, u)
    BY <1>3, NoError DEF Hull
  <2>2. l \in Lower /\ u \in Upper
    BY MinLower, MaxUpper DEF Proper
  <2>3. BLeq(l, Fin(n)) /\ BLeq(Fin(n), u)
    BY MinLower, MaxUpper DEF contains, Proper
  <2> HIDE DEF l, u
  <2>4. QED
    BY <2>1, <2>2, <2>3, IntervalKeeps
<1>4. QED
  BY <1>1, <1>2, <1>3

(* MeetExact: the meet of two intervals has exactly the numbers in both,   *)
(* so that a condition cuts off nothing else.                              *)
THEOREM MeetExact ==
    ASSUME NEW i \in Proper, NEW j \in Proper, NEW n \in Int
    PROVE  contains(Meet(i, j), n) <=> contains(i, n) /\ contains(j, n)
<1>1. CASE is_bottom(i) \/ is_bottom(j)
  <2>1. ~ (contains(i, n) /\ contains(j, n))
    BY <1>1, BottomEmpty
  <2>2. Meet(i, j) = BottomI
    BY <1>1 DEF Meet
  <2>3. ~ contains(BottomI, n)
    BY BottomHasNone
  <2>4. QED
    BY <2>1, <2>2, <2>3
<1>2. CASE ~ is_bottom(i) /\ ~ is_bottom(j)
  <2> DEFINE l == BMax(i.lb, j.lb)
             u == BMin(i.ub, j.ub)
  <2>1. Meet(i, j) = interval(l, u)
    BY <1>2 DEF Meet
  <2>2. l \in Lower /\ u \in Upper
    BY MaxLower, MinUpper DEF Proper
  <2>3. BLeq(l, Fin(n)) /\ BLeq(Fin(n), u) <=> contains(i, n) /\ contains(j, n)
    BY MaxLower, MinUpper DEF contains, Proper
  <2> HIDE DEF l, u
  <2>4. QED
    BY <2>1, <2>2, <2>3, IntervalKeeps, IntervalAdds
<1>3. QED
  BY <1>1, <1>2

(* SumCovers: the sum of two intervals has every sum of their numbers:     *)
(* ADD, offsets of pointers, counters.                                     *)
THEOREM SumCovers ==
    ASSUME NEW i \in Proper, NEW j \in Proper, NEW m \in Int, NEW n \in Int,
           contains(i, m), contains(j, n)
    PROVE  SumI(i, j) \in Proper /\ contains(SumI(i, j), m + n)
<1> DEFINE l == BAdd(i.lb, j.lb)
           u == BAdd(i.ub, j.ub)
<1>1. SumI(i, j) = interval(l, u)
  BY BottomEmpty DEF SumI, Strict
<1>2. l \in Lower /\ u \in Upper
  BY AddLower, AddUpper DEF Proper
<1>3. BLeq(l, Fin(m + n)) /\ BLeq(Fin(m + n), u)
  <2>1. /\ i.lb \in Lower /\ j.lb \in Lower
        /\ i.ub \in Upper /\ j.ub \in Upper
    BY DEF Proper
  <2>2. /\ BLeq(i.lb, Fin(m)) /\ BLeq(j.lb, Fin(n))
        /\ BLeq(Fin(m), i.ub) /\ BLeq(Fin(n), j.ub)
    BY DEF contains
  <2>3. BLeq(l, Fin(m + n))
    BY <2>1, <2>2, SumLower
  <2>4. BLeq(Fin(m + n), u)
    BY <2>1, <2>2, SumUpper
  <2>5. QED
    BY <2>3, <2>4
<1> HIDE DEF l, u
<1>4. QED
  BY <1>1, <1>2, <1>3, IntervalKeeps

(* DiffCovers: the difference of two intervals has every difference of     *)
(* their numbers: SUB, NEG, the distance of pointers.                      *)
THEOREM DiffCovers ==
    ASSUME NEW i \in Proper, NEW j \in Proper, NEW m \in Int, NEW n \in Int,
           contains(i, m), contains(j, n)
    PROVE  DiffI(i, j) \in Proper /\ contains(DiffI(i, j), m - n)
<1> DEFINE l == BSub(i.lb, j.ub)
           u == BSub(i.ub, j.lb)
<1>1. DiffI(i, j) = interval(l, u)
  BY BottomEmpty DEF DiffI, Strict
<1>2. l \in Lower /\ u \in Upper
  BY AddLower, AddUpper, Negation DEF Proper, BSub
<1>3. BLeq(l, Fin(m - n)) /\ BLeq(Fin(m - n), u)
  <2>1. /\ i.lb \in Lower /\ BNeg(j.ub) \in Lower
        /\ i.ub \in Upper /\ BNeg(j.lb) \in Upper
    BY Negation DEF Proper
  <2>2. /\ BLeq(i.lb, Fin(m)) /\ BLeq(BNeg(j.ub), Fin(-n))
        /\ BLeq(Fin(m), i.ub) /\ BLeq(Fin(-n), BNeg(j.lb))
    BY NegationMirrors DEF contains, Proper
  <2>3. m + (-n) = m - n /\ -n \in Int
    OBVIOUS
  <2>4. BLeq(l, Fin(m - n))
    BY <2>1, <2>2, <2>3, SumLower DEF BSub
  <2>5. BLeq(Fin(m - n), u)
    BY <2>1, <2>2, <2>3, SumUpper DEF BSub
  <2>6. QED
    BY <2>4, <2>5
<1> HIDE DEF l, u
<1>4. QED
  BY <1>1, <1>2, <1>3, IntervalKeeps
-----------------------------------------------------------------------------
(* Products.                                                               *)
LEMMA OrderTotal ==
    ASSUME NEW a \in Extended, NEW b \in Extended, NEW c \in Extended
    PROVE  /\ BLeq(a, b) \/ BLeq(b, a)
           /\ BLeq(a, b) /\ BLeq(b, c) => BLeq(a, c)
<1>1. /\ a.inf \in BOOLEAN /\ a.n \in Int /\ (a.inf => a.n \in {-1, 1})
      /\ b.inf \in BOOLEAN /\ b.n \in Int /\ (b.inf => b.n \in {-1, 1})
      /\ c.inf \in BOOLEAN /\ c.n \in Int /\ (c.inf => c.n \in {-1, 1})
  BY DEF Extended, Bound
<1>2. QED
  BY <1>1, Order

(* What a product is, as an extended number.                               *)
LEMMA Product ==
    ASSUME NEW a \in Extended, NEW b \in Extended
    PROVE  LET p == BMul(a, b)
           IN  /\ p \in Extended
               /\ p.inf <=> (a.inf \/ b.inf) /\ a.n # 0 /\ b.n # 0
               /\ p.inf => p.n = IF (a.n > 0) = (b.n > 0) THEN 1 ELSE -1
               /\ ~ p.inf => p.n = a.n * b.n
<1> DEFINE p == BMul(a, b)
<1>1. /\ a \in Bound /\ (a.inf => a.n \in {-1, 1})
      /\ b \in Bound /\ (b.inf => b.n \in {-1, 1})
  BY DEF Extended
<1>2. a.inf \in BOOLEAN /\ a.n \in Int /\ b.inf \in BOOLEAN /\ b.n \in Int
  BY <1>1 DEF Bound
<1>3. CASE b.n = 0
  <2>1. p = b
    BY <1>3 DEF BMul
  <2>2. QED
    BY <1>1, <1>2, <1>3, <2>1
<1>4. CASE b.n # 0 /\ a.n = 0
  <2>1. p = a
    BY <1>4 DEF BMul
  <2>2. QED
    BY <1>1, <1>2, <1>4, <2>1
<1>5. CASE b.n # 0 /\ a.n # 0 /\ (a.inf \/ b.inf)
  <2>1. p = IF (a.n > 0) = (b.n > 0) THEN PlusInf ELSE MinusInf
    BY <1>5, Zenon DEF BMul
  <2>2. /\ PlusInf \in Extended /\ PlusInf.inf = TRUE /\ PlusInf.n = 1
        /\ MinusInf \in Extended /\ MinusInf.inf = TRUE /\ MinusInf.n = -1
    BY DEF Extended, Bound, PlusInf, MinusInf
  <2>3. QED
    BY <1>5, <2>1, <2>2
<1>6. CASE b.n # 0 /\ a.n # 0 /\ ~ (a.inf \/ b.inf)
  <2>1. p = Fin(a.n * b.n)
    BY <1>6, Zenon DEF BMul
  <2>2. a.n * b.n \in Int
    BY <1>2
  <2>3. p \in Extended /\ p.inf = FALSE /\ p.n = a.n * b.n
    BY <2>1, <2>2, ExtendedHas DEF Fin
  <2>4. QED
    BY <1>6, <2>3
<1>7. QED
  BY <1>3, <1>4, <1>5, <1>6

(* The order of the factors makes no difference, though the zeros are      *)
(* looked for in the second first.                                         *)
LEMMA ProductCommutes ==
    ASSUME NEW a \in Extended, NEW b \in Extended
    PROVE  BMul(a, b) = BMul(b, a)
<1>1. /\ a.inf \in BOOLEAN /\ a.n \in Int /\ (a.inf => a.n \in {-1, 1})
      /\ b.inf \in BOOLEAN /\ b.n \in Int /\ (b.inf => b.n \in {-1, 1})
      /\ a = [inf |-> a.inf, n |-> a.n] /\ b = [inf |-> b.inf, n |-> b.n]
  BY DEF Extended, Bound
<1>2. CASE a.n = 0 /\ b.n = 0
  BY <1>1, <1>2 DEF BMul
<1>3. CASE a.n = 0 /\ b.n # 0
  BY <1>3, Zenon DEF BMul
<1>4. CASE a.n # 0 /\ b.n = 0
  BY <1>4, Zenon DEF BMul
<1>5. CASE a.n # 0 /\ b.n # 0
  <2>1. a.n * b.n = b.n * a.n
    BY <1>1
  <2>2. QED
    BY <1>5, <2>1, Zenon DEF BMul
<1>6. QED
  BY <1>2, <1>3, <1>4, <1>5

(* Multiplying keeps the order, or turns it around below zero.             *)
LEMMA ProductMonotone ==
    ASSUME NEW e \in Extended, NEW a \in Extended, NEW b \in Extended, BLeq(a, b)
    PROVE  /\ e.n >= 0 => BLeq(BMul(e, a), BMul(e, b))
           /\ e.n <= 0 => BLeq(BMul(e, b), BMul(e, a))
<1>1. /\ a.inf \in BOOLEAN /\ a.n \in Int /\ (a.inf => a.n \in {-1, 1})
      /\ b.inf \in BOOLEAN /\ b.n \in Int /\ (b.inf => b.n \in {-1, 1})
      /\ e.inf \in BOOLEAN /\ e.n \in Int /\ (e.inf => e.n \in {-1, 1})
  BY DEF Extended, Bound
<1>2. \/ a.inf /\ a.n = -1
      \/ b.inf /\ b.n = 1
      \/ ~ a.inf /\ ~ b.inf /\ a.n <= b.n
  BY Order
<1> DEFINE p == BMul(e, a)
           q == BMul(e, b)
<1>3. /\ p \in Extended
      /\ p.inf <=> (e.inf \/ a.inf) /\ e.n # 0 /\ a.n # 0
      /\ p.inf => p.n = IF (e.n > 0) = (a.n > 0) THEN 1 ELSE -1
      /\ ~ p.inf => p.n = e.n * a.n
  BY Product, Zenon
<1>4. /\ q \in Extended
      /\ q.inf <=> (e.inf \/ b.inf) /\ e.n # 0 /\ b.n # 0
      /\ q.inf => q.n = IF (e.n > 0) = (b.n > 0) THEN 1 ELSE -1
      /\ ~ q.inf => q.n = e.n * b.n
  BY Product, Zenon
<1> HIDE DEF p, q
<1>5. /\ p.inf \in BOOLEAN /\ p.n \in Int /\ q.inf \in BOOLEAN /\ q.n \in Int
  BY <1>3, <1>4 DEF Extended, Bound
<1>6. CASE e.n = 0
  <2>1. e.n * a.n = 0 /\ e.n * b.n = 0
    BY <1>1, <1>6
  <2>2. QED
    BY <1>3, <1>4, <1>5, <1>6, <2>1, Order DEF p, q
<1>7. CASE e.n > 0
  <2>1. ~ a.inf /\ ~ b.inf => e.n * a.n <= e.n * b.n
    BY <1>1, <1>2, <1>7
  <2>2. a.n = 0 => e.n * a.n = 0
    BY <1>1
  <2>3. b.n = 0 => e.n * b.n = 0
    BY <1>1
  <2>4. BLeq(p, q)
    BY <1>1, <1>2, <1>3, <1>4, <1>5, <1>7, <2>1, <2>2, <2>3, Order
  <2>5. QED
    BY <1>1, <1>7, <2>4 DEF p, q
<1>8. CASE e.n < 0
  <2>1. ~ a.inf /\ ~ b.inf => e.n * b.n <= e.n * a.n
    BY <1>1, <1>2, <1>8
  <2>2. a.n = 0 => e.n * a.n = 0
    BY <1>1
  <2>3. b.n = 0 => e.n * b.n = 0
    BY <1>1
  <2>4. BLeq(q, p)
    BY <1>1, <1>2, <1>3, <1>4, <1>5, <1>8, <2>1, <2>2, <2>3, Order
  <2>5. QED
    BY <1>1, <1>8, <2>4 DEF p, q
<1>9. QED
  BY <1>1, <1>6, <1>7, <1>8

(* Some corner is below, and some above, what a number between l and u     *)
(* times e gives.                                                          *)
LEMMA ProductBetween ==
    ASSUME NEW l \in Extended, NEW u \in Extended, NEW x \in Extended, NEW e \in Extended,
           BLeq(l, x), BLeq(x, u)
    PROVE  /\ \E c \in {l, u} : BLeq(BMul(c, e), BMul(x, e))
           /\ \E c \in {l, u} : BLeq(BMul(x, e), BMul(c, e))
<1>1. e.n \in Int
  BY DEF Extended, Bound
<1>2. BMul(l, e) = BMul(e, l) /\ BMul(u, e) = BMul(e, u) /\ BMul(x, e) = BMul(e, x)
  BY ProductCommutes
<1>3. CASE e.n >= 0
  <2>1. BLeq(BMul(e, l), BMul(e, x)) /\ BLeq(BMul(e, x), BMul(e, u))
    BY <1>3, ProductMonotone
  <2>2. QED
    BY <1>2, <2>1
<1>4. CASE e.n <= 0
  <2>1. BLeq(BMul(e, u), BMul(e, x)) /\ BLeq(BMul(e, x), BMul(e, l))
    BY <1>4, ProductMonotone
  <2>2. QED
    BY <1>2, <2>1
<1>5. QED
  BY <1>1, <1>3, <1>4

(* Four bounds have a least and a greatest.                                *)
LEMMA FourOrdered ==
    ASSUME NEW a \in Extended, NEW b \in Extended, NEW c \in Extended, NEW d \in Extended
    PROVE  LET B == {a, b, c, d}
           IN  /\ \E x \in B : \A y \in B : BLeq(x, y)
               /\ \E x \in B : \A y \in B : BLeq(y, x)
<1> DEFINE Leq(x, y) == BLeq(x, y)
           E == {a, b, c, d}
<1>1. /\ \A x, y \in E : Leq(x, y) \/ Leq(y, x)
      /\ \A x, y, z \in E : Leq(x, y) /\ Leq(y, z) => Leq(x, z)
  BY OrderTotal
<1> HIDE DEF Leq
<1>2. PICK p \in {a, b} : Leq(p, a) /\ Leq(p, b)
  BY <1>1
<1>3. PICK q \in {c, d} : Leq(q, c) /\ Leq(q, d)
  BY <1>1
<1>4. \E x \in {p, q} : Leq(x, p) /\ Leq(x, q)
  BY <1>1
<1>5. \E x \in E : \A y \in E : Leq(x, y)
  BY <1>1, <1>2, <1>3, <1>4
<1>6. PICK r \in {a, b} : Leq(a, r) /\ Leq(b, r)
  BY <1>1
<1>7. PICK s \in {c, d} : Leq(c, s) /\ Leq(d, s)
  BY <1>1
<1>8. \E x \in {r, s} : Leq(r, x) /\ Leq(s, x)
  BY <1>1
<1>9. \E x \in E : \A y \in E : Leq(y, x)
  BY <1>1, <1>6, <1>7, <1>8
<1>10. QED
  BY <1>5, <1>9 DEF Leq

(* The hull of four bounds holds what lies between two of them.            *)
LEMMA HullOfFour ==
    ASSUME NEW a \in Extended, NEW b \in Extended, NEW c \in Extended, NEW d \in Extended,
           NEW p \in {a, b, c, d}, NEW q \in {a, b, c, d}, NEW n \in Int,
           BLeq(p, Fin(n)), BLeq(Fin(n), q)
    PROVE  /\ BoundsHull({a, b, c, d}) \in Proper
           /\ contains(BoundsHull({a, b, c, d}), n)
<1> DEFINE B == {a, b, c, d}
           l == CHOOSE x \in B : \A y \in B : BLeq(x, y)
           u == CHOOSE x \in B : \A y \in B : BLeq(y, x)
<1>1. l \in B /\ \A y \in B : BLeq(l, y)
  <2>1. \E x \in B : \A y \in B : BLeq(x, y)
    BY FourOrdered
  <2>2. QED
    BY <2>1
<1>2. u \in B /\ \A y \in B : BLeq(y, u)
  <2>1. \E x \in B : \A y \in B : BLeq(y, x)
    BY FourOrdered
  <2>2. QED
    BY <2>1
<1>3. BError \notin B
  BY DEF BError, Extended
<1>4. BoundsHull(B) = interval(l, u)
  BY <1>3 DEF BoundsHull
<1> HIDE DEF l, u
<1>5. /\ l \in Extended /\ u \in Extended /\ Fin(n) \in Extended
      /\ p \in Extended /\ q \in Extended
  BY <1>1, <1>2, ExtendedHas
<1>6. BLeq(l, Fin(n)) /\ BLeq(Fin(n), u)
  <2>1. BLeq(l, p) /\ BLeq(q, u)
    BY <1>1, <1>2
  <2>2. QED
    BY <1>5, <2>1, OrderTotal
<1>7. l \in Lower /\ u \in Upper
  <2>1. Fin(n).inf = FALSE
    BY DEF Fin
  <2>2. l.inf => l.n = -1
    BY <1>5, <1>6, <2>1, Order DEF Extended, Bound
  <2>3. u.inf => u.n = 1
    BY <1>5, <1>6, <2>1, Order DEF Extended, Bound
  <2>4. QED
    BY <1>5, <2>2, <2>3 DEF Extended, Lower, Upper
<1>8. QED
  BY <1>4, <1>6, <1>7, IntervalKeeps

(* ProductCovers: the product of two intervals, taken from the products of *)
(* their ends, has every product of their numbers, infinite ends and zeros *)
(* included: MUL, and shifts to the left by a known number.                *)
THEOREM ProductCovers ==
    ASSUME NEW i \in Proper, NEW j \in Proper, NEW m \in Int, NEW n \in Int,
           contains(i, m), contains(j, n)
    PROVE  MulI(i, j) \in Proper /\ contains(MulI(i, j), m * n)
<1> DEFINE B == {BMul(i.lb, j.lb), BMul(i.lb, j.ub), BMul(i.ub, j.lb), BMul(i.ub, j.ub)}
<1>1. /\ i.lb \in Extended /\ i.ub \in Extended /\ Fin(m) \in Extended
      /\ j.lb \in Extended /\ j.ub \in Extended /\ Fin(n) \in Extended
  BY ExtendedHas DEF Proper
<1>2. /\ BLeq(i.lb, Fin(m)) /\ BLeq(Fin(m), i.ub)
      /\ BLeq(j.lb, Fin(n)) /\ BLeq(Fin(n), j.ub)
  BY DEF contains
<1>3. m * n \in Int /\ Fin(m * n) = BMul(Fin(m), Fin(n))
  <2>1. /\ Fin(m).inf = FALSE /\ Fin(m).n = m
        /\ Fin(n).inf = FALSE /\ Fin(n).n = n
    BY DEF Fin
  <2>2. m * n \in Int /\ (n = 0 => m * n = n) /\ (m = 0 => m * n = m)
    OBVIOUS
  <2>3. CASE n = 0
    BY <2>1, <2>2, <2>3, Zenon DEF BMul
  <2>4. CASE n # 0 /\ m = 0
    BY <2>1, <2>2, <2>4, Zenon DEF BMul
  <2>5. CASE n # 0 /\ m # 0
    <3>1. ~ (Fin(m).inf \/ Fin(n).inf) /\ Fin(m).n # 0 /\ Fin(n).n # 0
      BY <2>1, <2>5
    <3>2. BMul(Fin(m), Fin(n)) = Fin(Fin(m).n * Fin(n).n)
      BY <3>1, Zenon DEF BMul
    <3>3. QED
      BY <2>1, <2>2, <3>2
  <2>6. QED
    BY <2>2, <2>3, <2>4, <2>5
<1>4. PICK e \in {i.lb, i.ub} : BLeq(BMul(e, Fin(n)), Fin(m * n))
  BY <1>1, <1>2, <1>3, ProductBetween
<1>5. PICK g \in {i.lb, i.ub} : BLeq(Fin(m * n), BMul(g, Fin(n)))
  BY <1>1, <1>2, <1>3, ProductBetween
<1>6. \E f \in {j.lb, j.ub} : BLeq(BMul(f, e), BMul(Fin(n), e))
  BY <1>1, <1>2, ProductBetween
<1>7. \E h \in {j.lb, j.ub} : BLeq(BMul(Fin(n), g), BMul(h, g))
  BY <1>1, <1>2, ProductBetween
<1>8. \A x \in {i.lb, i.ub}, y \in {j.lb, j.ub, Fin(n)} :
         BMul(x, y) = BMul(y, x) /\ BMul(x, y) \in Extended
  <2> SUFFICES ASSUME NEW x \in {i.lb, i.ub}, NEW y \in {j.lb, j.ub, Fin(n)}
               PROVE  BMul(x, y) = BMul(y, x) /\ BMul(x, y) \in Extended
    OBVIOUS
  <2>1. x \in Extended /\ y \in Extended
    BY <1>1
  <2>2. BMul(x, y) = BMul(y, x)
    BY <2>1, ProductCommutes
  <2>3. BMul(x, y) \in Extended
    BY <2>1, Product, Zenon
  <2>4. QED
    BY <2>2, <2>3
<1>9. \E p \in B : BLeq(p, Fin(m * n))
  BY <1>1, <1>3, <1>4, <1>6, <1>8, OrderTotal, ExtendedHas
<1>10. \E q \in B : BLeq(Fin(m * n), q)
  BY <1>1, <1>3, <1>5, <1>7, <1>8, OrderTotal, ExtendedHas
<1>11. BoundsHull(B) \in Proper /\ contains(BoundsHull(B), m * n)
  <2> DEFINE a == BMul(i.lb, j.lb)
             b == BMul(i.lb, j.ub)
             c == BMul(i.ub, j.lb)
             d == BMul(i.ub, j.ub)
             k == m * n
  <2>1. a \in Extended /\ b \in Extended /\ c \in Extended /\ d \in Extended /\ k \in Int
    BY <1>3, <1>8
  <2>2. \E p, q \in {a, b, c, d} : BLeq(p, Fin(k)) /\ BLeq(Fin(k), q)
    BY <1>9, <1>10
  <2> HIDE DEF a, b, c, d, k
  <2>3. /\ BoundsHull({a, b, c, d}) \in Proper
        /\ contains(BoundsHull({a, b, c, d}), k)
    BY <2>1, <2>2, HullOfFour
  <2>4. QED
    BY <2>3 DEF a, b, c, d, k
<1>12. MulI(i, j) = BoundsHull(B)
  <2> DEFINE C == {BMul(x, y) : x \in {i.lb, i.ub}, y \in {j.lb, j.ub}}
  <2>1. C = B
    OBVIOUS
  <2>2. ~ is_bottom(i) /\ ~ is_bottom(j)
    BY BottomEmpty
  <2>3. MulI(i, j) = BoundsHull(C)
    <3>1. MulI(i, j) = Strict(i, j, BoundsHull(C))
      BY DEF MulI, Corners
    <3>2. QED
      BY <2>2, <3>1 DEF Strict
  <2> HIDE DEF B, C
  <2>4. QED
    BY <2>1, <2>3
<1>13. QED
  BY <1>11, <1>12

-----------------------------------------------------------------------------
(* Wrapping around.  Remainders of numbers that are less than M apart keep *)
(* their order when those of the ends do.                                  *)
LEMMA RemainderBetween ==
    ASSUME NEW M \in Nat \ {0}, NEW a \in Int, NEW b \in Int, NEW n \in Int,
           a <= n, n <= b, b - a < M, a % M <= b % M
    PROVE  a % M <= n % M /\ n % M <= b % M
<1> DEFINE p == a \div M
           q == b \div M
           k == n \div M
           x == a % M
           y == b % M
           z == n % M
<1>1. /\ p \in Int /\ x \in 0..(M - 1) /\ a = M * p + x
      /\ q \in Int /\ y \in 0..(M - 1) /\ b = M * q + y
      /\ k \in Int /\ z \in 0..(M - 1) /\ n = M * k + z
  OBVIOUS
<1>2. x <= y
  OBVIOUS
<1> HIDE DEF p, q, k, x, y, z
<1>3. p = q
  <2>1. ASSUME p < q PROVE FALSE
    <3>1. M * p + M <= M * q
      BY <1>1, <2>1
    <3>2. QED
      BY <1>1, <1>2, <3>1
  <2>2. ASSUME q < p PROVE FALSE
    <3>1. M * q + M <= M * p
      BY <1>1, <2>2
    <3>2. QED
      BY <1>1, <3>1
  <2>3. QED
    BY <1>1, <2>1, <2>2
<1>4. k = p
  <2>1. ASSUME k < p PROVE FALSE
    <3>1. M * k + M <= M * p
      BY <1>1, <2>1
    <3>2. QED
      BY <1>1, <3>1
  <2>2. ASSUME q < k PROVE FALSE
    <3>1. M * q + M <= M * k
      BY <1>1, <2>2
    <3>2. QED
      BY <1>1, <3>1
  <2>3. QED
    BY <1>1, <1>3, <2>1, <2>2
<1>5. x <= z /\ z <= y
  BY <1>1, <1>3, <1>4
<1>6. QED
  BY <1>5 DEF x, y, z

(* An interval between two numbers in order is what it says.               *)
LEMMA BetweenHolds ==
    ASSUME NEW a \in Int, NEW b \in Int, NEW n \in Int, a <= n, n <= b
    PROVE  Between(a, b) = [lb |-> Fin(a), ub |-> Fin(b)] /\ contains(Between(a, b), n)
<1>1. Fin(a) \in Lower /\ Fin(b) \in Upper
  BY DEF Fin, Lower, Upper, Bound
<1>2. /\ Fin(a).inf = FALSE /\ Fin(a).n = a
      /\ Fin(b).inf = FALSE /\ Fin(b).n = b
  BY DEF Fin
<1>3. BLeq(Fin(a), Fin(n)) /\ BLeq(Fin(n), Fin(b))
  BY <1>1, <1>2, LowerLeq, UpperGeq
<1>4. ~ BLt(Fin(b), Fin(a))
  BY <1>1, <1>2, LowerUpper
<1>5. QED
  BY <1>3, <1>4 DEF Between, interval, contains

(* WrapCovers: truncating an interval to w bits keeps what a register of w *)
(* bits holds after a sum, product or shift that may leave its range. That *)
(* 2^w is positive is not known to the provers.                            *)
THEOREM WrapCovers ==
    ASSUME NEW w \in Nat, 2^w \in Nat \ {0}, NEW i \in Proper, NEW n \in Int, contains(i, n)
    PROVE  contains(ToUint(i, w), truncate_to_uint(n, w))
<1> DEFINE M == 2^w
           full == unsigned_int(w)
           lo == i.lb.n % M
           hi == i.ub.n % M
           fits == HasFiniteSize(i) /\ contains(full, size(i).n)
<1>1. M \in Nat \ {0} /\ n % M \in 0..(M - 1)
  OBVIOUS
<1>2. contains(full, n % M)
  BY <1>1, BetweenHolds DEF unsigned_int
<1>3. full = [lb |-> Fin(0), ub |-> Fin(M - 1)]
  BY <1>1, BetweenHolds DEF unsigned_int
<1>4. ToUint(i, w) = IF Within(i, full) THEN i
                     ELSE IF fits /\ lo <= hi THEN Between(lo, hi) ELSE full
  BY DEF ToUint, truncate_to, truncate_to_uint
<1>5. truncate_to_uint(n, w) = n % M
  BY DEF truncate_to_uint
<1> HIDE DEF M
<1>6. /\ i.lb \in Lower /\ i.ub \in Upper /\ Fin(0) \in Lower /\ Fin(M - 1) \in Upper
      /\ i.lb.inf \in BOOLEAN /\ i.lb.n \in Int /\ i.ub.inf \in BOOLEAN /\ i.ub.n \in Int
      /\ Fin(0).inf = FALSE /\ Fin(0).n = 0 /\ Fin(M - 1).inf = FALSE /\ Fin(M - 1).n = M - 1
  BY <1>1 DEF Proper, Lower, Upper, Bound, Fin
<1>7. /\ i.lb.inf \/ i.lb.n <= n
      /\ i.ub.inf \/ n <= i.ub.n
  BY <1>6, LowerLeq, UpperGeq DEF contains
<1>8. CASE Within(i, full)
  <2>1. BLeq(Fin(0), i.lb) /\ BLeq(i.ub, Fin(M - 1))
    BY <1>3, <1>8, BottomEmpty DEF Within
  <2>2. ~ i.lb.inf /\ 0 <= i.lb.n /\ ~ i.ub.inf /\ i.ub.n <= M - 1
    BY <1>1, <1>6, <2>1, CompareLower, CompareUpper
  <2>3. n % M = n
    BY <1>1, <1>6, <1>7, <2>2
  <2>4. QED
    BY <1>4, <1>5, <1>8, <2>3
<1>9. CASE ~ Within(i, full) /\ fits /\ lo <= hi
  <2>1. /\ BNeg(i.lb) \in Upper /\ size(i) \in Upper
        /\ ~ i.lb.inf /\ ~ i.ub.inf
        /\ size(i).n = i.ub.n - i.lb.n
    BY <1>6, <1>9, Negation, AddUpper DEF HasFiniteSize, size, BSub
  <2>2. size(i).n <= M - 1
    BY <1>1, <1>3, <1>6, <1>9, <2>1, UpperGeq DEF contains
  <2>3. lo <= n % M /\ n % M <= hi
    BY <1>1, <1>6, <1>7, <1>9, <2>1, <2>2, RemainderBetween
  <2>4. contains(Between(lo, hi), n % M)
    <3>1. lo \in Int /\ hi \in Int /\ n % M \in Int
      BY <1>1, <1>6
    <3> HIDE DEF lo, hi
    <3>2. QED
      BY <2>3, <3>1, BetweenHolds
  <2>5. QED
    BY <1>4, <1>5, <1>9, <2>4
<1>10. CASE ~ Within(i, full) /\ ~ (fits /\ lo <= hi)
  BY <1>2, <1>4, <1>5, <1>10 DEF M
<1>11. QED
  BY <1>8, <1>9, <1>10

(* WrapSignedCovers: the same where the register is read as a signed       *)
(* number.                                                                 *)
THEOREM WrapSignedCovers ==
    ASSUME NEW w \in Nat \ {0}, 2^(w-1) \in Nat \ {0}, 2^w = 2 * 2^(w-1),
           NEW i \in Proper, NEW n \in Int, contains(i, n)
    PROVE  contains(ToSint(i, w), truncate_to_sint(n, w))
<1> DEFINE S == 2^(w-1)
           M == 2^w
           full == signed_int(w)
           Wrapped(k) == ((k + S) % M) - S
           lo == Wrapped(i.lb.n)
           hi == Wrapped(i.ub.n)
           fits == HasFiniteSize(i) /\ contains(full, size(i).n)
<1>1. M \in Nat \ {0} /\ S \in Nat \ {0} /\ M = 2 * S /\ Wrapped(n) \in (-S)..(S - 1)
  <2> HIDE DEF M, S
  <2>1. M \in Nat \ {0} /\ S \in Nat \ {0} /\ M = 2 * S
    BY DEF M, S
  <2>2. (n + S) % M \in 0..(M - 1)
    BY <2>1
  <2>3. QED
    BY <2>1, <2>2
<1>2. contains(full, Wrapped(n))
  BY <1>1, BetweenHolds DEF signed_int
<1>3. full = [lb |-> Fin(-S), ub |-> Fin(S - 1)]
  BY <1>1, BetweenHolds DEF signed_int
<1>4. ToSint(i, w) = IF Within(i, full) THEN i
                     ELSE IF fits /\ lo <= hi THEN Between(lo, hi) ELSE full
  BY DEF ToSint, truncate_to, truncate_to_sint
<1>5. truncate_to_sint(n, w) = Wrapped(n)
  BY DEF truncate_to_sint
<1> HIDE DEF M, S
<1>6. /\ i.lb \in Lower /\ i.ub \in Upper /\ Fin(-S) \in Lower /\ Fin(S - 1) \in Upper
      /\ i.lb.inf \in BOOLEAN /\ i.lb.n \in Int /\ i.ub.inf \in BOOLEAN /\ i.ub.n \in Int
      /\ Fin(-S).inf = FALSE /\ Fin(-S).n = -S /\ Fin(S - 1).inf = FALSE /\ Fin(S - 1).n = S - 1
  BY <1>1 DEF Proper, Lower, Upper, Bound, Fin
<1>7. /\ i.lb.inf \/ i.lb.n <= n
      /\ i.ub.inf \/ n <= i.ub.n
  BY <1>6, LowerLeq, UpperGeq DEF contains
<1>8. CASE Within(i, full)
  <2>1. BLeq(Fin(-S), i.lb) /\ BLeq(i.ub, Fin(S - 1))
    BY <1>3, <1>8, BottomEmpty DEF Within
  <2>2. ~ i.lb.inf /\ -S <= i.lb.n /\ ~ i.ub.inf /\ i.ub.n <= S - 1
    BY <1>1, <1>6, <2>1, CompareLower, CompareUpper
  <2>3. Wrapped(n) = n
    <3> DEFINE c == n + S
    <3>1. c \in 0..(M - 1) /\ c - S = n
      <4>1. -S <= n /\ n <= S - 1
        BY <1>1, <1>6, <1>7, <2>2
      <4>2. QED
        BY <1>1, <4>1
    <3>2. c % M = c
      BY <1>1, <3>1
    <3>3. QED
      BY <3>1, <3>2
  <2>4. QED
    BY <1>4, <1>5, <1>8, <2>3
<1>9. CASE ~ Within(i, full) /\ fits /\ lo <= hi
  <2>1. /\ BNeg(i.lb) \in Upper /\ size(i) \in Upper
        /\ ~ i.lb.inf /\ ~ i.ub.inf
        /\ size(i).n = i.ub.n - i.lb.n
    BY <1>6, <1>9, Negation, AddUpper DEF HasFiniteSize, size, BSub
  <2>2. size(i).n <= S - 1
    BY <1>1, <1>3, <1>6, <1>9, <2>1, UpperGeq DEF contains
  <2>3. lo <= Wrapped(n) /\ Wrapped(n) <= hi
    <3> DEFINE a == i.lb.n + S
               b == i.ub.n + S
               c == n + S
    <3>1. a \in Int /\ b \in Int /\ c \in Int /\ a <= c /\ c <= b /\ b - a < M
      BY <1>1, <1>6, <1>7, <2>1, <2>2
    <3>2. a % M \in Int /\ b % M \in Int /\ c % M \in Int
      BY <1>1, <3>1
    <3>3. lo = (a % M) - S /\ hi = (b % M) - S /\ Wrapped(n) = (c % M) - S
      OBVIOUS
    <3>4. a % M <= b % M
      BY <1>1, <1>9, <3>2, <3>3
    <3>5. a % M <= c % M /\ c % M <= b % M
      BY <1>1, <3>1, <3>4, RemainderBetween
    <3>6. QED
      BY <1>1, <3>2, <3>3, <3>5
  <2>4. contains(Between(lo, hi), Wrapped(n))
    <3>1. lo \in Int /\ hi \in Int /\ Wrapped(n) \in Int
      BY <1>1, <1>6
    <3> HIDE DEF lo, hi, Wrapped
    <3>2. QED
      BY <2>3, <3>1, BetweenHolds
  <2>5. QED
    BY <1>4, <1>5, <1>9, <2>4
<1>10. CASE ~ Within(i, full) /\ ~ (fits /\ lo <= hi)
  BY <1>2, <1>4, <1>5, <1>10
<1>11. QED
  BY <1>8, <1>9, <1>10
=============================================================================
