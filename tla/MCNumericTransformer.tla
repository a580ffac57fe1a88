------------------------ MODULE MCNumericTransformer ------------------------
EXTENDS NumericTransformer

\* Immediates are 32-bit; lddw has all 64 bits.
Immediates == -2^(W32-1) .. 2^(W32-1) - 1
Conditions == SignedOps \cup BitOps \cup UnsignedOps
Assume(op, r, arg, is64) == [kind |-> "Assume", op |-> op, dst |-> r, arg |-> arg, is64 |-> is64]
BinOp(op, r, arg, is64) == [kind |-> "Bin", op |-> op, dst |-> r, arg |-> arg, is64 |-> is64]
UnOp(op, r, bits) == [kind |-> "Un", op |-> op, dst |-> r, bits |-> bits]

ArithOps == {"MOV", "ADD", "SUB", "MUL", "UDIV", "UMOD", "SDIV", "SMOD", "OR", "AND", "XOR", "LSH", "RSH", "ARSH"}
MoveSx == {"MOVSX8", "MOVSX16", "MOVSX32"}

AllAssumeImm == {Assume(op, r, Imm(n), b) : op \in Conditions, r \in Reg, n \in Immediates, b \in BOOLEAN}
AllAssumeReg == {Assume(op, 1, RegArg(2), b) : op \in Conditions, b \in BOOLEAN}
AllBinImm == {BinOp(op, 1, Imm(n), b) : op \in ArithOps, n \in Immediates, b \in BOOLEAN}
\* Without the 32-bit sign extensions of a register to itself (see README).
AllBinReg == {BinOp(op, 1, RegArg(r), b) : op \in ArithOps, r \in Reg, b \in BOOLEAN}
                 \cup {BinOp(op, 1, RegArg(2), FALSE) : op \in MoveSx}
                 \cup {BinOp(op, 1, RegArg(r), TRUE) : op \in MoveSx, r \in Reg}
AllUn == {UnOp(op, 1, w) : op \in {"BE", "LE", "SWAP"}, w \in {W16, W32, W64}} \cup {UnOp("NEG", 1, w) : w \in {W32, W64}}
Lddw == {BinOp("MOV", r, Imm(n), TRUE) : r \in Reg, n \in {k - 2^(W64-1) : k \in Word}}
All == AllAssumeImm \cup AllAssumeReg \cup AllBinImm \cup AllBinReg \cup AllUn \cup Lddw

\* What the two readings of a register are variables of.
AllReadings == Reg \X {"svalue", "uvalue"}

\* Instructions whose effect on ranges does not cover the program's: the
\* README names the lines.
Refuted ==
    {i \in All :
        \/ /\ i.kind = "Assume" /\ ~ i.is64
           /\ \/ i.op \in {"SLT", "SLE", "SGT", "SGE"}
              \/ i.op \in {"NE", "GT", "GE"} /\ IF i.arg.reg THEN TRUE ELSE i.arg.n < 0
        \/ /\ i.kind = "Bin" /\ i.arg.reg
           /\ \/ i.op \in {"AND", "SDIV", "UMOD"} \cup MoveSx
              \/ ~ i.is64 /\ i.op \in {"MUL", "UDIV", "SMOD"}}

\* What a path knows of its registers before the instruction in question.
Narrowing ==
    {Assume(op, 1, Imm(n), TRUE) : op \in {"GE", "LE", "SLE"}, n \in Immediates}
        \cup {Assume(op, 2, Imm(n), TRUE) : op \in {"GE", "SLE"}, n \in Immediates}
        \cup {Assume(op, 1, RegArg(2), TRUE) : op \in {"LE", "SLT"}}
        \cup {BinOp("ADD", 1, Imm(-2), FALSE), BinOp("MOV", 1, RegArg(2), TRUE)}
        \cup {BinOp("MOV", r, Imm(n), TRUE) : r \in Reg, n \in {-5, 6}}
=============================================================================
