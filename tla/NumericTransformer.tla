-------------------------- MODULE NumericTransformer --------------------------
(***************************************************************************)
(* Numbers in registers: the instructions of ebpf_transformer.cpp against  *)
(* the programs they describe.                                             *)
(*                                                                         *)
(* The analysis follows one path of a program.  Beside the abstract state  *)
(* runs the program itself: the register contents of every execution that  *)
(* takes the path, computed by the BPF instruction set.  The widths 64,    *)
(* 32, 16 and 8 are parameters, and so is the byte.                        *)
(***************************************************************************)
EXTENDS NumericOps

CONSTANTS
    ByteBits,            \* bits of a byte, for the byte swaps
    BigEndian,           \* thread_local_options.big_endian
    Setup, Body,         \* instructions of the two parts of a path
    Exact,               \* those a path only has where their operands are Held
    MaxSetup, MaxBody    \* bound: how many of each

VARIABLES
    inv,        \* the abstract state
    runs,       \* the registers of every execution that took the path
    done        \* <<instructions of Setup, of Body>> so far

vars == <<inv, runs, done>>

(***************************************************************************)
(* Instructions.  An instruction has a kind ("Assume", "Bin" or "Un"), an  *)
(* op, a register dst, an operand (a register, or a number) and a width.   *)
(***************************************************************************)
Imm(n) == [reg |-> FALSE, n |-> n]
RegArg(r) == [reg |-> TRUE, r |-> r]
NoTerms == [x \in Var |-> 0]
MovsxBits(op) == CASE op = "MOVSX8" -> W8 [] op = "MOVSX16" -> W16 [] op = "MOVSX32" -> W32

\* dst op= K, all operations but the first step and the last of a 32-bit one.
AndBounds(st, r, n) ==
    IF n <= 0 THEN st
    ELSE AddAll(st, <<Le(V(S(r)), N(n)), Le(V(U(r)), N(n)), Le(N(0), V(S(r))), Le(N(0), V(U(r)))>>)
BinImm(st, op, r, n, w, masked) ==
    CASE op = "MOV" -> overflow_bounds(Let(Let(st, S(r), NoTerms, n), U(r), NoTerms, n), U(r), w, FALSE)
      [] op \in {"ADD", "SUB"} ->
             IF op = "SUB" /\ -n >= 2^(W32-1) THEN fail(st)
             ELSE add_overflow(st, r, N(IF op = "ADD" THEN n ELSE -n), w)
      [] op \in {"MUL", "SDIV", "SMOD"} -> apply_signed(st, op, r, S(r), N(n), w)
      [] op \in {"UDIV", "UMOD", "OR", "XOR", "AND"} ->
             AndBounds(apply_unsigned(st, op, r, U(r), N(n), IF op \in {"UDIV", "UMOD"} THEN w ELSE W64),
                       r, IF op = "AND" THEN n ELSE 0)
      [] op = "LSH" -> shl(st, r, n, w, masked)
      [] op = "RSH" -> lshr(st, r, n, w)
      [] op = "ARSH" -> ashr(st, r, RightImm(n), w)

\* dst op= src.  A shift by a known number is one by an immediate.
ShiftReg(st, op, r, q, by, w, masked) ==
    IF HasNumber(by)
    THEN IF op = "LSH" THEN shl(IF w = W32 THEN bitwise_and32(st, r) ELSE st, r, Unsigned(by.lb.n) % w, w, masked)
         ELSE lshr(IF w = W32 THEN bitwise_and32(st, r) ELSE st, r, Unsigned(by.lb.n) % w, w)
    ELSE IF op = "LSH" THEN apply_unsigned(st, op, r, U(r), V(U(q)), W64)
    ELSE havoc_register(st, r)
BinReg(st, op, r, q, w, masked) ==
    CASE op = "ADD" -> add_overflow(st, r, V(S(q)), w)
      [] op \in {"SUB", "MUL", "SDIV", "SMOD"} -> apply_signed(st, op, r, S(r), V(S(q)), w)
      [] op \in {"UDIV", "UMOD", "OR", "AND", "XOR"} -> apply_unsigned(st, op, r, U(r), V(U(q)), w)
      [] op \in {"LSH", "RSH"} -> ShiftReg(st, op, r, q, At(st, U(q)), w, masked)
      [] op = "ARSH" -> ashr(st, r, RightReg(q), w)
      [] op = "MOV" -> Let(Let(st, S(r), Term(S(q)), 0), U(r), Term(U(q)), 0)
      [] op \in {"MOVSX8", "MOVSX16", "MOVSX32"} -> sign_extend(st, r, q, w, MovsxBits(op))

\* A move to itself that changes nothing, and an addition of 0, return early.
ReturnsEarly(st, i) ==
    IF i.arg.reg
    THEN /\ i.arg.r = i.dst
         /\ \/ i.op = "MOV" /\ Within(At(st, U(i.dst)), unsigned_int(Bits(i.is64)))
            \/ /\ i.op \in {"MOVSX8", "MOVSX16", "MOVSX32"}
               /\ Within(At(st, S(i.dst)), signed_int(MovsxBits(i.op)))
    ELSE i.op \in {"ADD", "SUB"} /\ i.arg.n = 0

\* A 32-bit operation looks at the lower half, and leaves no more.
LowerHalf(st, i) == IF i.is64 \/ st.error THEN st ELSE bitwise_and32(st, i.dst)
BinResult(st, i, masked) ==
    IF i.arg.reg THEN BinReg(st, i.op, i.dst, i.arg.r, Bits(i.is64), masked)
    ELSE BinImm(st, i.op, i.dst, i.arg.n, Bits(i.is64), masked)
Bin(st, i, masked) ==
    IF ReturnsEarly(st, i) THEN IF i.arg.reg THEN st ELSE LowerHalf(st, i)
    ELSE LowerHalf(BinResult(IF i.arg.reg THEN st ELSE LowerHalf(st, i), i, masked), i)

\* Byte swaps are followed only for a known number.
Swapped(n, w) ==
    LET k == w \div ByteBits
        ByteOf(b) == (n \div 2^(b * ByteBits)) % 2^ByteBits
    IN  SumSet({ByteOf(b) * 2^((k - 1 - b) * ByteBits) : b \in {c \in 0 .. k - 1 : ByteOf(c) # 0}})
Reverses(op) == IF op = "SWAP" THEN TRUE ELSE (op = "BE") # BigEndian
SwapValue(n, i) ==
    IF Reverses(i.op) THEN Swapped(truncate_to_uint(n, i.bits), i.bits) ELSE truncate_to_uint(n, i.bits)
swap_endianness(st, x, old, i) ==
    IF ~ HasNumber(old) THEN havoc(st, x)
    ELSE Learn(st, x, Exactly(IF x[2] = "svalue" /\ i.bits = W64 THEN Signed(SwapValue(old.lb.n, i))
                              ELSE SwapValue(old.lb.n, i)))
Un(st, i) ==
    IF i.op = "NEG" THEN neg(st, i.dst, i.bits)
    ELSE IF i.bits = W64 /\ ~ Reverses(i.op) THEN st
    ELSE swap_endianness(swap_endianness(st, S(i.dst), At(st, S(i.dst)), i), U(i.dst), At(st, U(i.dst)), i)

Constraints(st, i) ==
    IF i.kind # "Assume" THEN <<>>
    ELSE IF i.arg.reg THEN assume_cst_reg(st, i.op, i.is64, i.dst, i.arg.r)
    ELSE assume_cst_imm(st, i.op, i.is64, i.dst, i.arg.n)

transform(st, i, masked) ==
    CASE i.kind = "Assume" -> AddAll(st, Constraints(st, i))
      [] i.kind = "Bin" -> Bin(st, i, masked)
      [] i.kind = "Un" -> Un(st, i)

(***************************************************************************)
(* The instruction set: what the program does with the bits.               *)
(***************************************************************************)
\* The result before it is cut down to the width.
Compute(op, a, b, w) ==
    LET sa == truncate_to_sint(a, w)
        sb == truncate_to_sint(b, w)
        k == b % w
    IN  CASE op = "MOV" -> b
          [] op = "ADD" -> a + b
          [] op = "SUB" -> a - b
          [] op = "MUL" -> a * b
          [] op = "UDIV" -> IF b = 0 THEN 0 ELSE a \div b
          [] op = "UMOD" -> IF b = 0 THEN a ELSE a % b
          [] op = "SDIV" -> IF b = 0 THEN 0 ELSE Quot(sa, sb)
          [] op = "SMOD" -> IF b = 0 THEN a ELSE Remain(sa, sb)
          [] op = "OR" -> OrTable[a, b]
          [] op = "AND" -> AndTable[a, b]
          [] op = "XOR" -> XorTable[a, b]
          [] op = "LSH" -> a * 2^k
          [] op = "RSH" -> a \div 2^k
          [] op = "ARSH" -> sa \div 2^k
          [] op \in {"MOVSX8", "MOVSX16", "MOVSX32"} -> truncate_to_sint(b, MovsxBits(op))

Source(i, regs, w) == truncate_to_uint(IF i.arg.reg THEN regs[i.arg.r] ELSE i.arg.n, w)

\* The executions after the instruction; a condition lets some of them pass.
Execute(i, R) ==
    LET w == IF i.kind = "Un" THEN i.bits ELSE Bits(i.is64)
        Dst(regs) == truncate_to_uint(regs[i.dst], w)
    IN  CASE i.kind = "Assume" -> {regs \in R : Compare(i.op, Dst(regs), Source(i, regs, w), w)}
          [] i.kind = "Bin" ->
                 {[regs EXCEPT ![i.dst] = truncate_to_uint(Compute(i.op, Dst(regs), Source(i, regs, w), w), w)]
                      : regs \in R}
          [] i.kind = "Un" ->
                 {[regs EXCEPT ![i.dst] = IF i.op = "NEG" THEN truncate_to_uint(-Dst(regs), w)
                                          ELSE IF Reverses(i.op) THEN Swapped(Dst(regs), w)
                                          ELSE Dst(regs)] : regs \in R}
-----------------------------------------------------------------------------
\* Nothing is known of the numbers in the registers.
Init == /\ inv = TopState
        /\ runs = [Reg -> Word]
        /\ done = <<0, 0>>

RegistersOf(i) == IF i.kind # "Un" /\ i.arg.reg THEN {i.dst, i.arg.r} ELSE {i.dst}

\* Operands for which an instruction of Exact is right: known numbers; of a
\* condition on 32 bits, registers that hold no more than 32 bits; of a sign
\* extension, an interval that does not cross the sign.
Fits(i, r) == IF i.op \in SignedOps \ {"EQ"} THEN Within(At(inv, S(r)), signed_int(W32))
              ELSE i.arg.reg /\ Within(At(inv, U(r)), unsigned_int(W32))
Crosses(i, bits) == /\ ~ BLeq(Fin(2^bits), size(i))
                    /\ truncate_to_sint(i.lb.n, bits) > truncate_to_sint(i.ub.n, bits)
Held(i) ==
    \/ \A r \in RegistersOf(i) : HasNumber(At(inv, S(r))) /\ HasNumber(At(inv, U(r)))
    \/ i.kind = "Assume" /\ \A r \in RegistersOf(i) : Fits(i, r)
    \/ /\ i.op \in {"MOVSX8", "MOVSX16", "MOVSX32"}
       /\ ~ Crosses(At(inv, S(i.arg.r)), MovsxBits(i.op))

\* ebpf_domain_transform does nothing in a bottom state, and an error ends
\* the analysis.
Analyse(i) ==
    /\ ~ inv.z.bottom
    /\ ~ inv.error
    /\ i \in Exact => Held(i)
    /\ \E masked \in IF i.kind = "Bin" /\ i.op = "LSH" THEN BOOLEAN ELSE {FALSE} :
           inv' = transform(inv, i, masked)
    /\ runs' = Execute(i, runs)

\* Instructions of Body follow those of Setup.
Next == \E part \in {1, 2} :
            /\ part = 1 => done[2] = 0
            /\ done[part] < <<MaxSetup, MaxBody>>[part]
            /\ done' = [done EXCEPT ![part] = @ + 1]
            /\ \E i \in <<Setup, Body>>[part] : Analyse(i)
Spec == Init /\ [][Next]_vars
-----------------------------------------------------------------------------
(***************************************************************************)
(* Properties.                                                             *)
(***************************************************************************)
\* The value in a register as one of its readings gives it.
ReadingOf(x, regs) == IF x = Zero THEN 0
                      ELSE IF x[2] = "svalue" THEN Signed(regs[x[1]]) ELSE regs[x[1]]

\* The transfer functions of ebpf_transformer.cpp cover every execution: both
\* readings of each register are within their bounds, the differences of any
\* two readings too, and a path that some execution takes is not bottom.
ValuesCovered ==
    ~ inv.error =>
        \A regs \in runs :
            /\ ~ inv.z.bottom
            /\ \A e \in DOMAIN inv.z.g :
                   BLeq(Fin(ReadingOf(e[2], regs) - ReadingOf(e[1], regs)), inv.z.g[e])
=============================================================================
