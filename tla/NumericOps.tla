------------------------------ MODULE NumericOps ------------------------------
(***************************************************************************)
(* What ebpf_transformer.cpp does with the number in a register: the       *)
(* constraints that follow from a condition, and the arithmetic.  Of each  *)
(* register the zone domain has two variables, the signed and the unsigned *)
(* reading of its bits.                                                    *)
(***************************************************************************)
EXTENDS SplitDbm, Sequences, SequencesExt

CONSTANTS
    Reg,                 \* registers
    W32, W16, W8         \* bits of the narrower widths; W64 is that of a register

Word == 0 .. 2^W64 - 1
Signed(n) == truncate_to_sint(n, W64)
Unsigned(n) == truncate_to_uint(n, W64)
Bits(is64) == IF is64 THEN W64 ELSE W32
UINT32_MAX == 2^W32 - 1

(***************************************************************************)
(* The abstract state: a zone, and whether an operation ended the analysis *)
(* with an error.                                                          *)
(***************************************************************************)
S(r) == <<r, "svalue">>
U(r) == <<r, "uvalue">>
Readings == Reg \X {"svalue", "uvalue"}
ASSUME ReadingsAreVariables == Readings \subseteq Var

TopState == [z |-> TopZone, error |-> FALSE]
At(st, x) == Get(st.z, x)

\* By AddBottom, and by SplitDBM::apply without a look at the interval.
Learn(st, x, i) == [st EXCEPT !.z = set(@, x, i)]
Result(st, x, i) == [st EXCEPT !.z = SetBounds(@, x, i), !.error = @ \/ i = ErrorI]
Let(st, x, c, k) == [st EXCEPT !.z = assign(@, x, Lin(c, k))]
havoc(st, x) == [st EXCEPT !.z = forget(@, x)]
fail(st) == [st EXCEPT !.error = TRUE]

\* An operand: a variable or a number.
V(x) == [x |-> x, n |-> 0]
N(n) == [x |-> Zero, n |-> n]
IsVar(e) == e.x # Zero
Val(st, e) == SumI(Operand(st.z, e.x), Exactly(e.n))

\* get_interval cuts both bounds of a variable down to the width.
CutBound(b, unsigned, w) ==
    IF b.inf THEN b ELSE Fin(IF unsigned THEN truncate_to_uint(b.n, w) ELSE truncate_to_sint(b.n, w))
CutBounds(i, unsigned, w) == interval(CutBound(i.lb, unsigned, w), CutBound(i.ub, unsigned, w))
get_interval(st, x, w) == CutBounds(At(st, x), x[2] = "uvalue", w)

(***************************************************************************)
(* Linear constraints between operands.                                    *)
(***************************************************************************)
Con(rel, a, b) == Cst(rel, a.x, b.x, b.n - a.n)
Le(a, b) == Con("<=", a, b)
Eq(a, b) == Con("=", a, b)
Less(strict, a, b) == Con(IF strict THEN "<" ELSE "<=", a, b)
Greater(strict, a, b) == Less(strict, b, a)
false_const == Le(N(1), N(0))
true_const == Le(N(0), N(0))
AddAll(st, cs) == [st EXCEPT !.z = FoldLeft(add_constraint, @, cs)]

(***************************************************************************)
(* Conditions.  A right operand has a signed and an unsigned form.         *)
(***************************************************************************)
RightReg(r) == [s |-> V(S(r)), u |-> V(U(r))]
RightImm(n) == [s |-> N(n), u |-> N(Unsigned(n))]

\* What is known of both readings of the left register and the right operand.
View(st, r, right) ==
    [ls |-> At(st, S(r)), lu |-> At(st, U(r)), rs |-> Val(st, right.s), ru |-> Val(st, right.u)]
Views == [ls : Interval, lu : Interval, rs : Interval, ru : Interval]
Rights == [s : [x : Node, n : Int], u : [x : Node, n : Int]]

assume_bit_cst_interval(v, op, is64) ==
    LET d == v.lu
        mask == IF is64 THEN Unsigned(v.ru.lb.n) ELSE v.ru.lb.n % 2^W32
        common == \E b \in 0 .. W64 - 1 : (Unsigned(d.lb.n) \div 2^b) % 2 = 1 /\ (mask \div 2^b) % 2 = 1
    IN  IF ~ HasNumber(d) \/ ~ HasNumber(v.ru) THEN <<>>
        ELSE IF common = (op = "SET") THEN <<true_const>> ELSE <<false_const>>

get_signed_intervals[v \in Views, is64 \in BOOLEAN] ==
    LET l == v.ls
        rt == v.rs
        Both(k) == Within(l, k) /\ Within(rt, k)
        as64 == is64 \/ Both(nonnegative(W32)) \/ Both(negative(W32))
        l1 == IF as64 THEN l ELSE ToSint(l, W32)
        r1 == IF as64 THEN rt ELSE ToSint(rt, W32)
        u == v.lu
        u_ub == Fin(IF u.ub.inf THEN -1 ELSE Signed(u.ub.n))
    IN  [left |-> ToSint(IF is_top(l1) THEN u ELSE l1, W64),
         right |-> ToSint(r1, W64),
         positive |-> IF ~ is_top(l1) THEN Meet(l1, nonnegative(W64))
                      ELSE IF ~ is_top(u) THEN Meet(u, nonnegative(W64))
                      ELSE nonnegative(W64),
         negative |-> IF ~ is_top(l1) THEN Meet(l1, negative(W64))
                      ELSE IF ~ is_top(u) THEN interval(Fin(-2^(W64-1)), u_ub)
                      ELSE negative(W64)]

get_unsigned_intervals[v \in Views, is64 \in BOOLEAN] ==
    LET l == v.lu
        rt == v.ru
        Both(k) == Within(l, k) /\ Within(rt, k)
        as64 == is64 \/ Both(nonnegative(W32)) \/ Both(unsigned_high(W32))
        l1 == IF as64 THEN l ELSE ToUint(l, W32)
        r1 == IF as64 THEN rt ELSE ToUint(rt, W32)
        s == v.ls
    IN  [left |-> ToUint(IF is_top(l1) THEN s ELSE l1, W64),
         right |-> ToUint(r1, W64),
         low |-> IF ~ is_top(l1) THEN Meet(l1, nonnegative(W64))
                 ELSE IF ~ is_top(s) THEN ToUint(interval(Fin(0), s.ub), W64)
                 ELSE nonnegative(W64),
         high |-> IF ~ is_top(l1) THEN Meet(l1, unsigned_high(W64))
                  ELSE IF ~ is_top(s) THEN ToUint(interval(s.lb, Fin(-1)), W64)
                  ELSE unsigned_high(W64)]

assume_signed_64bit_eq(g, r, right) ==
    <<Eq(V(S(r)), right.s), Eq(V(U(r)), right.u)>>
        \o IF Within(g.right, nonnegative(W64)) /\ ~ is_singleton(g.right)
           THEN <<Eq(V(S(r)), V(U(r)))>> ELSE <<>>

assume_signed_32bit_eq(v, g, r) ==
    LET l == v.ls
        Match(n) == n - (n % 2^W32) + (g.right.lb.n % 2^W32)
        lb_match == Match(Signed(l.lb.n))
        ub_match == Match(Signed(l.ub.n))
        u_lb == Unsigned(lb_match)
        u_ub == Unsigned(ub_match)
    IN  IF ~ HasNumber(g.right) \/ ~ HasFiniteSize(l) THEN <<>>
        ELSE <<Le(N(lb_match), V(S(r))), Le(V(S(r)), N(ub_match))>>
             \o IF u_lb <= u_ub THEN <<Le(N(u_lb), V(U(r))), Le(V(U(r)), N(u_ub))>> ELSE <<>>

assume_signed_64bit_lt(g, strict, r, right) ==
    LET s == <<Less(strict, V(S(r)), right.s)>>
        u == <<Le(N(0), V(U(r))), Less(strict, V(U(r)), right.u)>>
    IN  IF \/ Within(g.right, negative(W64))
           \/ /\ Within(Hull(g.negative, g.positive), nonnegative(W64))
              /\ Within(g.right, nonnegative(W64))
        THEN s \o u ELSE s

\* Left and right are nonnegative: the two readings of the left agree.
SameReadings(Rel(_, _, _), strict, r, right, top) ==
    <<Le(N(0), V(S(r))), Rel(strict, V(S(r)), right.s), Eq(V(S(r)), V(U(r))),
      Le(N(0), V(U(r))), Rel(strict, V(U(r)), right.u), Le(V(U(r)), N(top))>>

SignedOnly32(v, c, r, right) ==
    IF Within(v.ls, signed_int(W32)) /\ Within(v.rs, signed_int(W32))
    THEN <<c>> ELSE <<>>

assume_signed_32bit_lt(v, g, strict, r, right) ==
    IF Within(g.right, negative(W32))
    THEN <<Le(N(2^(W32-1)), V(U(r))), Less(strict, V(U(r)), right.u), Less(strict, V(S(r)), right.s)>>
    ELSE IF Within(Hull(g.negative, g.positive), nonnegative(W32)) /\ Within(g.right, nonnegative(W32))
    THEN SameReadings(Less, strict, r, right, ToSint(g.positive, W32).ub.n)
    ELSE SignedOnly32(v, Less(strict, V(S(r)), right.s), r, right)

assume_signed_64bit_gt(g, strict, r, right) ==
    LET s == <<Greater(strict, V(S(r)), right.s)>>
    IN  IF Within(g.right, nonnegative(W64))
        THEN SameReadings(Greater, strict, r, right, ToSint(g.positive, W64).ub.n)
        ELSE IF Within(Hull(g.negative, g.positive), negative(W64)) /\ Within(g.right, negative(W64))
        THEN <<Le(N(2^(W64-1)), V(U(r))), Greater(strict, V(U(r)), right.u)>> \o s
        ELSE s

assume_signed_32bit_gt(v, g, strict, r, right) ==
    LET s == Greater(strict, V(S(r)), right.s)
    IN  IF Within(g.right, nonnegative(W32))
        THEN SameReadings(Greater, strict, r, right, ToSint(g.positive, W32).ub.n)
        ELSE IF Within(Hull(g.negative, g.positive), negative(W32)) /\ Within(g.right, negative(W32))
        THEN <<Le(N(2^(W32-1)), V(U(r))), Greater(strict, V(U(r)), right.u), s>>
        ELSE SignedOnly32(v, s, r, right)

\* The interval of the left is wholly below, or wholly above, the right's.
AllBelow(strict, l, r) == IF strict THEN BLt(l.ub, r.lb) ELSE BLeq(l.ub, r.lb)
NoneBelow(strict, l, r) == IF strict THEN BLeq(r.ub, l.lb) ELSE BLt(r.ub, l.lb)

SignedBy(v, g, is_lt, strict, is64, r, right) ==
    IF IF is_lt THEN NoneBelow(strict, g.left, g.right) ELSE NoneBelow(strict, g.right, g.left)
    THEN <<false_const>>
    ELSE IF IF is_lt THEN AllBelow(strict, g.left, g.right) ELSE AllBelow(strict, g.right, g.left)
    THEN <<true_const>>
    ELSE IF is64
    THEN IF is_lt THEN assume_signed_64bit_lt(g, strict, r, right)
         ELSE assume_signed_64bit_gt(g, strict, r, right)
    ELSE IF is_lt THEN assume_signed_32bit_lt(v, g, strict, r, right)
         ELSE assume_signed_32bit_gt(v, g, strict, r, right)
assume_signed_cst_interval(v, g, op, is64, r, right) ==
    IF op = "EQ"
    THEN IF is64 THEN assume_signed_64bit_eq(g, r, right) ELSE assume_signed_32bit_eq(v, g, r)
    ELSE SignedBy(v, g, op \in {"SLT", "SLE"}, op \in {"SLT", "SGT"}, is64, r, right)

assume_unsigned_64bit_lt(v, g, strict, r, right) ==
    LET Beyond(lb) == IF strict THEN BLeq(g.right.ub, lb) ELSE BLt(g.right.ub, lb)
        AtMostS == IF v.ls.ub.inf THEN <<>> ELSE <<Le(V(U(r)), N(v.ls.ub.n))>>
        Bounds(x) == <<Le(N(0), V(U(r))), Less(strict, V(U(r)), x)>>
    IN  IF Within(g.right, nonnegative(W64)) /\ Beyond(ToUint(g.low, W64).lb)
        THEN Bounds(right.u) \o AtMostS \o <<Le(N(0), V(S(r)))>>
        ELSE IF Within(g.right, unsigned_high(W64)) /\ Beyond(ToUint(g.high, W64).lb)
        THEN Bounds(N(g.right.ub.n)) \o AtMostS \o <<Le(N(0), V(S(r)))>>
        ELSE IF Within(g.right, signed_int(W64))
        THEN Bounds(right.u) \o <<Le(V(U(r)), N(ToUint(g.low, W64).ub.n)), Le(N(0), V(S(r))), Less(strict, V(S(r)), right.s)>>
        ELSE IF is_bottom(g.low) /\ Within(g.right, unsigned_high(W64))
        THEN Bounds(right.u) \o <<Less(strict, V(S(r)), right.s)>>
        ELSE IF Hull(g.low, g.high) = unsigned_int(W64)
        THEN <<Less(strict, V(U(r)), right.u)>>
        ELSE Bounds(right.u)

assume_unsigned_32bit_lt(v, strict, r, right) ==
    LET u == V(U(r))
        s == V(S(r))
        BothU(k) == Within(v.lu, k) /\ Within(v.ru, k)
        BothS(k) == Within(v.ls, k) /\ Within(v.rs, k)
        bounds == <<Le(N(0), u), Less(strict, u, right.u)>>
    IN  IF BothU(nonnegative(W32)) \/ BothS(negative(W32))
        THEN bounds \o <<Less(strict, s, right.s)>>
        ELSE IF BothU(unsigned_int(W32)) THEN bounds ELSE <<>>

\* Mutant of assume_unsigned_64bit_gt: the readings are compared alike whatever
\* the right is.
MutUnsignedGt(g, strict, r, right) ==
    <<Le(N(0), V(U(r))), Greater(strict, V(U(r)), right.u), Greater(strict, V(S(r)), right.s)>>

assume_unsigned_64bit_gt(g, strict, r, right) ==
    LET u == V(U(r))
        s == V(S(r))
        llub == ToUint(g.low, W64).ub
        lhlb == ToUint(g.high, W64).lb.n
        bounds == <<Le(N(0), u), Greater(strict, u, right.u)>>
    IN  IF /\ Within(g.right, nonnegative(W64))
           /\ IF strict THEN BLeq(llub, g.right.lb) ELSE BLt(llub, g.right.lb)
        THEN <<Greater(strict, u, right.u),
               IF lhlb = 2^W64 - 1 THEN Eq(u, N(lhlb)) ELSE Le(N(lhlb), u),
               Less(TRUE, s, N(0))>>
        ELSE IF \/ Within(g.right, unsigned_high(W64))
                \/ Within(Hull(g.low, g.high), nonnegative(W64)) /\ Within(g.right, nonnegative(W64))
        THEN bounds \o <<Greater(strict, s, right.s)>>
        ELSE bounds

assume_unsigned_32bit_gt(v, g, strict, r, right) ==
    LET u == V(U(r))
        bounds == <<Le(N(0), u), Greater(strict, u, right.u)>>
    IN  IF Within(g.right, unsigned_high(W32))
        THEN bounds \o <<Greater(strict, V(S(r)), right.s)>>
        ELSE IF Within(v.lu, unsigned_int(W32)) /\ Within(v.ru, unsigned_int(W32))
        THEN bounds ELSE <<>>

UnsignedBy(v, g, is_lt, strict, is64, r, right) ==
    IF IF is_lt THEN NoneBelow(strict, g.left, g.right) ELSE NoneBelow(strict, g.right, g.left)
    THEN <<false_const>>
    ELSE IF IF is_lt THEN AllBelow(strict, g.left, g.right) ELSE AllBelow(strict, g.right, g.left)
    THEN IF ~ is64 THEN <<>>
         ELSE IF is_lt THEN <<Less(strict, V(U(r)), right.u)>>
         ELSE <<Greater(strict, V(U(r)), right.u)>>
    ELSE IF is64
    THEN IF is_lt THEN assume_unsigned_64bit_lt(v, g, strict, r, right)
         ELSE assume_unsigned_64bit_gt(g, strict, r, right)
    ELSE IF is_lt THEN assume_unsigned_32bit_lt(v, strict, r, right)
         ELSE assume_unsigned_32bit_gt(v, g, strict, r, right)

\* NE says something when the number is a bound of the left: it is beyond it.
EndOf(b) == IF b.inf THEN BottomI ELSE [lb |-> b, ub |-> b]
NotEqual(v, g, is64, r, right) ==
    IF ~ HasNumber(g.right) THEN <<>>
    ELSE IF g.right.lb = ToUint(g.left, Bits(is64)).lb
    THEN UnsignedBy(v, [g EXCEPT !.right = EndOf(g.left.lb)], FALSE, TRUE, is64, r, right)
    ELSE IF g.right.lb = g.left.ub
    THEN UnsignedBy(v, [g EXCEPT !.right = EndOf(g.left.ub)], TRUE, TRUE, is64, r, right)
    ELSE <<>>
assume_unsigned_cst_interval(v, g, op, is64, r, right) ==
    IF op = "NE" THEN NotEqual(v, g, is64, r, right)
    ELSE UnsignedBy(v, g, op \in {"LT", "LE"}, op \in {"LT", "GT"}, is64, r, right)

SignedOps == {"EQ", "SGE", "SLE", "SGT", "SLT"}
BitOps == {"SET", "NSET"}
UnsignedOps == {"NE", "GE", "LE", "GT", "LT"}

assume_cst_interval[v \in Views, op \in STRING, is64 \in BOOLEAN, r \in Reg, right \in Rights] ==
    CASE op \in SignedOps -> assume_signed_cst_interval(v, get_signed_intervals[v, is64], op, is64, r, right)
      [] op \in BitOps -> assume_bit_cst_interval(v, op, is64)
      [] op \in UnsignedOps -> assume_unsigned_cst_interval(v, get_unsigned_intervals[v, is64], op, is64, r, right)

Assumed(st, op, is64, r, right) == assume_cst_interval[View(st, r, right), op, is64, r, right]
assume_cst_imm(st, op, is64, r, n) == Assumed(st, op, is64, r, RightImm(n))

\* Signed comparisons of 64 bits, and NE, relate the registers as they are.
assume_cst_reg(st, op, is64, r, q) ==
    IF ~ is64 \/ op \in BitOps \cup (UnsignedOps \ {"NE"}) THEN Assumed(st, op, is64, r, RightReg(q))
    ELSE IF op = "EQ"
    THEN <<Eq(V(S(r)), V(S(q))), Eq(V(U(r)), V(U(q)))>>
             \o IF ~ is_singleton(At(st, S(q))) /\ Within(At(st, S(q)), nonnegative(W64))
                THEN <<Eq(V(S(r)), V(U(r)))>> ELSE <<>>
    ELSE IF op = "NE" THEN <<Con("#", V(S(r)), V(S(q)))>>
    ELSE IF op \in {"SGE", "SGT"} THEN <<Greater(op = "SGT", V(S(r)), V(S(q)))>>
    ELSE <<Less(op = "SLT", V(S(r)), V(S(q)))>>

(***************************************************************************)
(* Arithmetic: an operation on intervals, then the result is cut down to   *)
(* the width for both readings.                                            *)
(***************************************************************************)
BitFold(a, b, Keep(_, _)) ==
    SumSet({2^i : i \in {j \in 0 .. W64 - 1 : Keep((a \div 2^j) % 2, (b \div 2^j) % 2)}})
AndTable == [a \in Word, b \in Word |-> BitFold(a, b, LAMBDA i, j : i + j = 2)]
OrTable == [a \in Word, b \in Word |-> BitFold(a, b, LAMBDA i, j : i + j > 0)]
XorTable == [a \in Word, b \in Word |-> BitFold(a, b, LAMBDA i, j : i + j = 1)]
fill_ones(n) == CHOOSE m \in {2^k - 1 : k \in 0 .. W64} : n <= m /\ m <= 2 * n

BothNumbers(i, j) == HasNumber(i) /\ HasNumber(j)
AndI(i, j) ==
    LET lo == i.lb.n % 2^W32
        hi == i.ub.n % 2^W32
        n == size(i).n
    IN  IF is_bottom(i) \/ is_bottom(j) THEN BottomI
        ELSE IF BothNumbers(i, j) THEN Exactly(AndTable[i.lb.n, j.lb.n])
        ELSE IF j = Exactly(UINT32_MAX)
        THEN IF HasFiniteSize(i) /\ n <= UINT32_MAX /\ lo < hi /\ lo + n = hi
             THEN Between(lo, hi) ELSE unsigned_int(W32)
        ELSE IF contains(j, 2^W64 - 1) THEN ToUint(i, W64)
        ELSE IF is_top(i) /\ is_top(j) THEN TopI
        ELSE interval(Fin(0), IF is_top(i) THEN j.ub ELSE IF is_top(j) THEN i.ub ELSE BMin(i.ub, j.ub))
OrI(i, j) ==
    IF is_bottom(i) \/ is_bottom(j) THEN BottomI
    ELSE IF BothNumbers(i, j) THEN Exactly(OrTable[i.lb.n, j.lb.n])
    ELSE IF BLt(i.lb, Fin(0)) \/ BLt(j.lb, Fin(0)) THEN TopI
    ELSE IF i.ub.inf \/ j.ub.inf THEN interval(Fin(0), PlusInf)
    ELSE Between(0, fill_ones(BMax(i.ub, j.ub).n))
XorI(i, j) == IF BothNumbers(i, j) THEN Exactly(XorTable[i.lb.n, j.lb.n]) ELSE OrI(i, j)

\* An immediate divisor: read_imm_for_udiv_or_umod, read_imm_for_sdiv_or_smod.
DivisorImm(op, n, w) == IF op \in {"UDIV", "UMOD"} /\ w = W32 THEN n % 2^W32 ELSE n

interval_operation[op \in STRING, i \in Interval, j \in Interval] ==
    CASE op = "MUL" -> MulI(i, j)
      [] op = "SDIV" -> SDivI(i, j)
      [] op = "UDIV" -> UDivI(i, j)
      [] op = "SMOD" -> SRemI(i, j)
      [] op = "UMOD" -> URemI(i, j)
      [] op = "AND" -> AndI(i, j)
      [] op = "OR" -> OrI(i, j)
      [] op = "XOR" -> XorI(i, j)
      [] op = "LSH" -> ShlI(i, j)

\* SplitDBM::apply: x := y op z.
IsLinear(op, z) == op \in {"ADD", "SUB"} \/ (op = "MUL" /\ ~ IsVar(z))
Combined(op, y, z) ==
    [v \in Var |-> IF op = "MUL" THEN z.n * Term(y)[v]
                   ELSE Term(y)[v] + (IF v # z.x THEN 0 ELSE IF op = "ADD" THEN 1 ELSE -1)]
OperandOf(st, op, e, w) ==
    IF op \in {"AND", "OR", "XOR", "LSH"} THEN IF IsVar(e) THEN Val(st, e) ELSE Exactly(Unsigned(e.n))
    ELSE IF IsVar(e) THEN get_interval(st, e.x, w) ELSE Exactly(DivisorImm(op, e.n, w))
apply(st, op, x, y, z, w) ==
    IF IsLinear(op, z)
    THEN Let(st, x, Combined(op, y, z), IF op = "MUL" THEN 0 ELSE IF op = "ADD" THEN z.n ELSE -z.n)
    ELSE Result(st, x, interval_operation[op, OperandOf(st, op, V(y), w), OperandOf(st, op, z, w)])

\* The bounds modulo 2^w, if they still are an interval.
Wrapped(i, w, signed) ==
    LET Cut(b) == IF signed THEN Signed(truncate_to_uint(b.n, w)) ELSE truncate_to_uint(b.n, w)
    IN  IF BLeq(Fin(2^w - 1), size(i)) \/ is_bottom(i) \/ Cut(i.lb) > Cut(i.ub) THEN TopI
        ELSE Between(Cut(i.lb), Cut(i.ub))
Rebound(st, x, old, new) == IF is_top(new) THEN havoc(st, x) ELSE IF new = old THEN st ELSE Learn(st, x, new)
overflow_bounds(st, x, w, signed) == Rebound(st, x, At(st, x), Wrapped(At(st, x), w, signed))
overflow(st, r, w) == overflow_bounds(overflow_bounds(st, S(r), w, TRUE), U(r), w, FALSE)

\* The reading x of r follows the reading y.
FollowReading(st, r, x, y, w) == IF st.error THEN st ELSE overflow(Let(st, x, Term(y), 0), r, w)
apply_signed(st, op, r, y, z, w) == FollowReading(apply(st, op, S(r), y, z, w), r, U(r), S(r), w)
apply_unsigned(st, op, r, y, z, w) == FollowReading(apply(st, op, U(r), y, z, w), r, S(r), U(r), w)

\* Both readings of r become those of the numbers of i.
set_unsigned(st, r, i, w) == FollowReading(Learn(st, U(r), i), r, S(r), U(r), w)
set_signed(st, r, i, w) == FollowReading(Learn(st, S(r), i), r, U(r), S(r), w)
havoc_register(st, r) == havoc(havoc(st, S(r)), U(r))

add_overflow(st, r, z, w) ==
    apply_signed(st, "ADD", r, IF is_top(At(st, S(r))) THEN U(r) ELSE S(r), z, w)
neg(st, r, w) == apply_signed(st, "MUL", r, S(r), N(-1), w)
bitwise_and32(st, r) == apply_unsigned(st, "AND", r, U(r), N(UINT32_MAX), W64)

Castable(i, w) == {i.lb.n, i.ub.n} \subseteq -2^(w-1) .. 2^w - 1

\* A shift of a 64-bit integer by 64 is undefined: it may give 0 or shift by 0.
ShiftedLeft(lo, hi, k, w, masked) ==
    LET LostBits(n) == IF masked /\ k = 0 /\ w = W64 THEN n ELSE n \div 2^(w - k)
        Shifted(n) == (n * 2^k) % 2^w
    IN  IF LostBits(lo) # LostBits(hi) THEN Between(0, Shifted(2^w - 1)) ELSE Between(Shifted(lo), Shifted(hi))
ShlOf(st, r, i, k, w, masked) ==
    IF ~ HasFiniteSize(i) THEN apply_unsigned(st, "LSH", r, U(r), N(k), W64)
    ELSE IF ~ Castable(i, W64) THEN fail(st)
    ELSE set_unsigned(st, r, ShiftedLeft(Unsigned(i.lb.n), Unsigned(i.ub.n), k, w, masked), w)
shl(st, r, imm, w, masked) == ShlOf(st, r, At(st, U(r)), imm % w, w, masked)

ShiftedRight(i, k, w) ==
    IF HasFiniteSize(i) THEN Between(truncate_to_uint(i.lb.n, w) \div 2^k, truncate_to_uint(i.ub.n, w) \div 2^k)
    ELSE Between(0, (2^W64 - 1) \div 2^k)
LshrOf(st, r, i, k, w) ==
    IF HasFiniteSize(i) /\ ~ Castable(i, w) THEN fail(st) ELSE set_unsigned(st, r, ShiftedRight(i, k, w), w)
lshr(st, r, imm, w) == LshrOf(st, r, At(st, U(r)), imm % w, w)

ShiftedSigned(i, k, w) ==
    LET Shifted(n) == truncate_to_sint(n, w) \div 2^k
        U32(n) == truncate_to_uint(Shifted(n), W32)
    IN  IF w = W64 THEN Between(Shifted(i.lb.n), Shifted(i.ub.n))
        ELSE IF U32(i.lb.n) <= U32(i.ub.n) THEN Between(U32(i.lb.n), U32(i.ub.n))
        ELSE Between((-2^(W64-1)) \div 2^k, (2^(W64-1) - 1) \div 2^k)
AshrOf(st, r, g, w) ==
    IF ~ HasNumber(g.right) THEN havoc_register(st, r)
    ELSE IF ~ Castable(g.left, w) THEN fail(st)
    ELSE set_signed(st, r, ShiftedSigned(g.left, g.right.lb.n % w, w), w)
ashr(st, r, right, w) == AshrOf(st, r, get_signed_intervals[View(st, r, right), w = W64], w)

ExtendedFrom(i, bits) ==
    IF BLeq(Fin(2^bits), size(i)) THEN signed_int(bits)
    ELSE Between(truncate_to_sint(i.lb.n, bits), truncate_to_sint(i.ub.n, bits))
sign_extend(st, r, q, w, bits) == set_signed(st, r, ExtendedFrom(At(st, S(q)), bits), w)

\* The instruction set: whether a condition holds of the bits a and b.
Compare(op, a, b, w) ==
    LET sa == truncate_to_sint(a, w)
        sb == truncate_to_sint(b, w)
        common == AndTable[a, b]
    IN  CASE op = "EQ" -> a = b
          [] op = "NE" -> a # b
          [] op = "SET" -> common # 0
          [] op = "NSET" -> common = 0
          [] op = "LT" -> a < b
          [] op = "LE" -> a <= b
          [] op = "GT" -> a > b
          [] op = "GE" -> a >= b
          [] op = "SLT" -> sa < sb
          [] op = "SLE" -> sa <= sb
          [] op = "SGT" -> sa > sb
          [] op = "SGE" -> sa >= sb
=============================================================================
