------------------------------ MODULE Intervals ------------------------------
(***************************************************************************)
(* The interval arithmetic of crab/interval.hpp and interval.cpp over the  *)
(* extended numbers of crab_utils/num_extended.hpp.  A bound is a number   *)
(* or an infinity; numbers are unbounded (boost's cpp_int).  The width of  *)
(* a 64-bit register is a parameter, because the signed and unsigned       *)
(* divisions convert negative numbers through it.                          *)
(***************************************************************************)
EXTENDS Integers

CONSTANT W64    \* bits of a register

(***************************************************************************)
(* Numbers.                                                                *)
(***************************************************************************)
truncate_to_uint(n, w) == n % 2^w
truncate_to_sint(n, w) == ((n + 2^(w-1)) % 2^w) - 2^(w-1)

\* Division and remainder of C++ round towards zero.
Abs(n) == IF n < 0 THEN -n ELSE n
Quot(a, b) == IF (a < 0) = (b < 0) THEN Abs(a) \div Abs(b) ELSE -(Abs(a) \div Abs(b))
Remain(a, b) == a - b * Quot(a, b)

(***************************************************************************)
(* Extended numbers.  BError is the outcome of the operations that end the *)
(* analysis with CRAB_ERROR.                                               *)
(***************************************************************************)
Fin(n) == [inf |-> FALSE, n |-> n]
PlusInf == [inf |-> TRUE, n |-> 1]
MinusInf == [inf |-> TRUE, n |-> -1]
BError == [inf |-> TRUE, n |-> 0]
Bound == [inf : BOOLEAN, n : Int]

BLeq(a, b) == IF a.inf = b.inf THEN a.n <= b.n
              ELSE IF a.inf THEN a.n < 0 ELSE b.n > 0
BLt(a, b) == ~ BLeq(b, a)
BMin(a, b) == IF BLeq(a, b) THEN a ELSE b
BMax(a, b) == IF BLeq(a, b) THEN b ELSE a

BNeg(a) == [inf |-> a.inf, n |-> -a.n]
BAdd(a, b) == IF a.inf THEN a ELSE IF b.inf THEN b ELSE Fin(a.n + b.n)
BSub(a, b) == BAdd(a, BNeg(b))
BMul(a, b) == IF b.n = 0 THEN b ELSE IF a.n = 0 THEN a
              ELSE IF a.inf \/ b.inf
              THEN IF (a.n > 0) = (b.n > 0) THEN PlusInf ELSE MinusInf
              ELSE Fin(a.n * b.n)

AbsDiv(a, b, F(_, _)) ==
    IF b.inf THEN IF a.inf THEN BError ELSE Fin(0)
    ELSE IF a.inf THEN a ELSE Fin(F(a.n, b.n))
BDiv(a, b) == AbsDiv(a, b, Quot)
AsUnsigned(n) == IF n >= 0 THEN n ELSE truncate_to_uint(n, W64)
UQuot(a, b) == AsUnsigned(a) \div AsUnsigned(b)
BUDiv(a, b) == AbsDiv(a, b, UQuot)

(***************************************************************************)
(* Intervals and their lattice.                                            *)
(***************************************************************************)
Interval == [lb : Bound, ub : Bound]
BottomI == [lb |-> Fin(0), ub |-> Fin(-1)]
ErrorI == [lb |-> BError, ub |-> BError]
interval(lb, ub) == IF BLt(ub, lb) THEN BottomI ELSE [lb |-> lb, ub |-> ub]
Between(a, b) == interval(Fin(a), Fin(b))
Exactly(n) == Between(n, n)
TopI == interval(MinusInf, PlusInf)

is_bottom(i) == BLt(i.ub, i.lb)
is_top(i) == i.lb.inf /\ i.ub.inf
contains(i, n) == BLeq(i.lb, Fin(n)) /\ BLeq(Fin(n), i.ub)
is_singleton(i) == i.lb = i.ub
HasNumber(i) == ~ is_bottom(i) /\ is_singleton(i) /\ ~ i.lb.inf
Within(i, j) == \/ is_bottom(i)
                \/ ~ is_bottom(j) /\ BLeq(j.lb, i.lb) /\ BLeq(i.ub, j.ub)
Hull(i, j) == IF i = ErrorI \/ j = ErrorI THEN ErrorI
              ELSE IF is_bottom(i) THEN j
              ELSE IF is_bottom(j) THEN i
              ELSE interval(BMin(i.lb, j.lb), BMax(i.ub, j.ub))
Meet(i, j) == IF is_bottom(i) \/ is_bottom(j) THEN BottomI
              ELSE interval(BMax(i.lb, j.lb), BMin(i.ub, j.ub))
size(i) == BSub(i.ub, i.lb)
HasFiniteSize(i) == ~ size(i).inf

signed_int(w) == Between(-2^(w-1), 2^(w-1) - 1)
unsigned_int(w) == Between(0, 2^w - 1)
nonnegative(w) == Between(0, 2^(w-1) - 1)
negative(w) == Between(-2^(w-1), -1)
unsigned_high(w) == Between(2^(w-1), 2^w - 1)

\* truncate_to<T>: the same numbers modulo 2^w if they still form an interval.
truncate_to(i, full, Trunc(_)) ==
    LET fits == HasFiniteSize(i) /\ contains(full, size(i).n)
        lo == Trunc(i.lb.n)
        hi == Trunc(i.ub.n)
    IN  IF Within(i, full) THEN i
        ELSE IF fits /\ lo <= hi THEN Between(lo, hi) ELSE full
ToSint(i, w) == truncate_to(i, signed_int(w), LAMBDA n : truncate_to_sint(n, w))
ToUint(i, w) == truncate_to(i, unsigned_int(w), LAMBDA n : truncate_to_uint(n, w))

(***************************************************************************)
(* Arithmetic.                                                             *)
(***************************************************************************)
Strict(i, j, r) == IF is_bottom(i) \/ is_bottom(j) THEN BottomI ELSE r
SumI(i, j) == Strict(i, j, interval(BAdd(i.lb, j.lb), BAdd(i.ub, j.ub)))
DiffI(i, j) == Strict(i, j, interval(BSub(i.lb, j.ub), BSub(i.ub, j.lb)))

\* std::minmax over the four pairs of bounds.
BoundsHull(B) == IF BError \in B THEN ErrorI
                 ELSE interval(CHOOSE b \in B : \A c \in B : BLeq(b, c), CHOOSE b \in B : \A c \in B : BLeq(c, b))
Corners(i, j, Op(_, _)) == BoundsHull({Op(a, b) : a \in {i.lb, i.ub}, b \in {j.lb, j.ub}})
MulI(i, j) == Strict(i, j, Corners(i, j, BMul))

Below(i) == interval(i.lb, Fin(-1))
Above(i) == interval(Fin(1), i.ub)

make_dividend_when_both_nonzero(i, j) ==
    IF BLeq(Fin(0), i.ub) THEN i
    ELSE IF BLt(j.ub, Fin(0)) THEN SumI(SumI(i, j), Exactly(1))
    ELSE DiffI(SumI(i, Exactly(1)), j)

\* Division when the divisor is one number (ByOne) or an interval without 0,
\* which splits the dividend at 0; Divide splits the divisor.
NonzeroDivisor(i, j, Op(_, _), ByOne(_, _)) ==
    LET Part(k) == IF is_bottom(k) \/ is_bottom(j) THEN BottomI
                   ELSE Corners(make_dividend_when_both_nonzero(k, j), j, Op)
    IN  IF is_bottom(j) THEN BottomI
        ELSE IF HasNumber(j) THEN ByOne(i, j.lb.n)
        ELSE IF contains(i, 0)
        THEN Hull(Hull(Part(Below(i)), Part(Above(i))), Exactly(0))
        ELSE Part(i)
Divide(i, j, Op(_, _), ByOne(_, _)) ==
    IF is_bottom(i) \/ is_bottom(j) THEN BottomI
    ELSE IF HasNumber(j) \/ ~ contains(j, 0) THEN NonzeroDivisor(i, j, Op, ByOne)
    ELSE Hull(Hull(NonzeroDivisor(i, Below(j), Op, ByOne),
                   NonzeroDivisor(i, Above(j), Op, ByOne)), Exactly(0))

SDivByOne(i, c) == IF c = 0 THEN Exactly(0)
                   ELSE IF c = 1 THEN i
                   ELSE interval(BDiv(i.lb, Fin(c)), BDiv(i.ub, Fin(c)))
UDivByOne(i, n) ==
    LET c == truncate_to_uint(n, W64)
    IN  IF c = 0 THEN Exactly(0)
        ELSE IF c = 1 THEN i
        ELSE interval(BUDiv(i.lb, Fin(c)), BUDiv(i.ub, Fin(c)))
SDivI(i, j) == Divide(i, j, BDiv, SDivByOne)
UDivI(i, j) == Divide(i, j, BUDiv, UDivByOne)

SRemNonzero(i, j) ==
    LET m == Abs(j.lb.n)
        k == Abs(j.ub.n)
        least == IF m < k THEN m ELSE k
        most == IF m < k THEN k ELSE m
    IN  IF is_bottom(j) THEN BottomI
        ELSE IF HasNumber(i) /\ HasNumber(j) THEN Exactly(Remain(i.lb.n, j.lb.n))
        ELSE IF j.lb.inf \/ j.ub.inf THEN Hull(i, Exactly(0))
        ELSE IF BLt(i.ub, Fin(least)) /\ BLt(BNeg(i.lb), Fin(least)) THEN i
        ELSE IF BLeq(Fin(0), i.lb) THEN Between(0, most - 1)
        ELSE Between(-(most - 1), IF BLt(Fin(0), i.ub) THEN most - 1 ELSE 0)
SRemI(i, j) ==
    IF is_bottom(i) \/ is_bottom(j) THEN BottomI
    ELSE IF ~ contains(j, 0) THEN SRemNonzero(i, j)
    ELSE IF HasNumber(i) /\ HasNumber(j) THEN i
    ELSE Hull(Hull(SRemNonzero(i, Below(j)), SRemNonzero(i, Above(j))), i)

URemNonzero(i, j) ==
    LET Both(k) == HasNumber(k) /\ HasNumber(j)
        Part(k) ==
            IF is_bottom(k) THEN BottomI
            ELSE IF Both(k)
            THEN Exactly(AsUnsigned(k.lb.n) % AsUnsigned(j.lb.n))
            ELSE IF j.lb.inf \/ j.ub.inf
            THEN IF BLt(k.ub, Fin(0)) THEN TopI
                 ELSE Hull(DiffI(k, Exactly(1)), Exactly(0))
            ELSE IF ~ k.ub.inf /\ AsUnsigned(k.ub.n) < AsUnsigned(j.lb.n) THEN k
            ELSE Between(0, AsUnsigned(j.ub.n) - 1)
    IN  IF is_bottom(j) THEN BottomI
        ELSE IF ~ Both(i) /\ contains(i, 0)
        THEN Hull(Hull(Part(Below(i)), Part(Above(i))), i)
        ELSE Part(i)
URemI(i, j) ==
    IF is_bottom(i) \/ is_bottom(j) THEN BottomI
    ELSE IF ~ contains(j, 0) THEN URemNonzero(i, j)
    ELSE IF HasNumber(i) /\ HasNumber(j) THEN i
    ELSE Hull(Hull(URemNonzero(i, Below(j)), URemNonzero(i, Above(j))), i)

\* A shift left by a number multiplies by a power of two.
ShlI(i, j) == IF is_bottom(i) \/ is_bottom(j) THEN BottomI
              ELSE IF ~ HasNumber(j) \/ j.lb.n < 0 \/ j.lb.n > 128 THEN TopI
              ELSE MulI(i, Exactly(2^j.lb.n))
=============================================================================
