---------------------------- MODULE Unmarshaller ----------------------------
(***************************************************************************)
(* unmarshal (asm_unmarshal.cpp): the slots of a program that Loader has   *)
(* read become a sequence of labelled instructions.                        *)
(*                                                                         *)
(* Numbers of 64 bits are pairs of signed 32-bit words, for the width is   *)
(* what the two extensions of an immediate differ in.  Notes and texts of  *)
(* errors are left out: unmarshal answers "invalid" for all of them.       *)
(***************************************************************************)
EXTENDS Loader

CONSTANTS Groups,        \* conformance groups the platform supports
          UsableHelpers, \* ids is_helper_usable accepts
          UnsupportedHelpers  \* of these, the ones whose prototype is not supported

VARIABLES unit,      \* the program being unmarshalled, 0 when there is none
          pc,        \* its next slot
          seq,       \* prog: labels and instructions
          outcome    \* "running", "done", "invalid", or "thrown" past unmarshal

unmarshalVars == <<unit, pc, seq, outcome>>

vars == <<loaderVars, unmarshalVars>>

-----------------------------------------------------------------------------
(* Parts of an opcode.                                                     *)
SRC_REG(i) == (i.opcode \div 8) % 2 = 1

ALU_OP(i) == i.opcode \div 16

MODE(i) == i.opcode \div 32

getMemWidth(i) == <<4, 2, 1, 8>>[((i.opcode \div 8) % 4) + 1]

INST_CLS_LDX == 1

INST_CLS_ST == 2

INST_CLS_STX == 3

INST_CLS_ALU == 4

INST_CLS_JMP == 5

INST_CLS_JMP32 == 6

INST_CLS_ALU64 == 7

INST_OP_LDDW_IMM == 24

INST_OP_JA16 == 5

INST_OP_JA32 == 6

R10_STACK_POINTER == 10

cls(i) == INST_CLS_MASK(i.opcode)

(* Operands: a register or an immediate of 64 bits.                        *)
Reg(n) == [reg |-> n]

sign_extend(v) == [lo |-> v, hi |-> IF v < 0 THEN -1 ELSE 0]

zero_extend(v) == [lo |-> v, hi |-> 0]

merge(imm, next_imm) == [lo |-> imm, hi |-> next_imm]

Invalid == [kind |-> "invalid"]

(* Leaves unmarshal as it is: only InvalidInstruction is caught there.     *)
Thrown == [kind |-> "thrown"]

supports(group32, group64, wide) == (IF wide THEN group64 ELSE group32) \in Groups

base(wide) == supports("base32", "base64", wide)

-----------------------------------------------------------------------------
(* Memory.                                                                 *)
AtomicOps == {0, 64, 80, 160, 224, 240}

(* XCHG and CMPXCHG only with fetch.                                       *)
getAtomicOp(i) ==
    {op \in AtomicOps : op = i.imm - (i.imm % 2) /\ (op >= 224 => i.imm % 2 = 1)}

Access(i, r) == [width |-> getMemWidth(i), basereg |-> r, offset |-> i.offset]

makeMemOp(i) ==
    LET width == getMemWidth(i)
        isLD == cls(i) = INST_CLS_LD
        isLoad == cls(i) = INST_CLS_LDX
        isImm == i.opcode % 2 = 0
        packet == "packet" \in Groups /\ isLD /\ width # 8 /\ i.dst = 0 /\ i.offset = 0
    IN  CASE i.dst > R10_STACK_POINTER \/ i.src > R10_STACK_POINTER \/ ~base(width = 8) -> Invalid
          [] MODE(i) = 1 /\ packet /\ i.src = 0 ->
                [kind |-> "Packet", width |-> width, offset |-> i.imm, regoffset |-> -1]
          [] MODE(i) = 2 /\ packet ->
                [kind |-> "Packet", width |-> width, offset |-> i.imm, regoffset |-> i.src]
          [] /\ MODE(i) = 3 /\ ~isLD
             /\ ~(isLoad /\ i.dst = R10_STACK_POINTER)
             /\ IF isImm THEN i.src = 0 ELSE i.imm = 0 ->
                [kind |-> "Mem", access |-> Access(i, IF isLoad THEN i.src ELSE i.dst),
                 is_load |-> isLoad,
                 value |-> CASE isLoad -> Reg(i.dst)
                             [] isImm  -> zero_extend(i.imm)
                             [] OTHER  -> Reg(i.src)]
          [] /\ MODE(i) = 6 /\ cls(i) = INST_CLS_STX /\ width \in {4, 8}
             /\ supports("atomic32", "atomic64", width = 8)
             /\ getAtomicOp(i) # {} ->
                [kind |-> "Atomic", op |-> CHOOSE op \in getAtomicOp(i) : TRUE,
                 fetch |-> i.imm % 2 = 1, access |-> Access(i, i.dst), valreg |-> i.src]
          [] OTHER -> Invalid

-----------------------------------------------------------------------------
(* Arithmetic.  The operations by the upper half of the opcode and, where  *)
(* it counts, the offset.                                                  *)
PlainOps == [ADD |-> 0, SUB |-> 1, MUL |-> 2, OR |-> 4, AND |-> 5, LSH |-> 6, RSH |-> 7,
             XOR |-> 10, ARSH |-> 12]

OffsetOps ==
    {[name |-> "UDIV", op |-> 3, offset |-> 0], [name |-> "SDIV", op |-> 3, offset |-> 1],
     [name |-> "UMOD", op |-> 9, offset |-> 0], [name |-> "SMOD", op |-> 9, offset |-> 1],
     [name |-> "MOV", op |-> 11, offset |-> 0], [name |-> "MOVSX8", op |-> 11, offset |-> 8],
     [name |-> "MOVSX16", op |-> 11, offset |-> 16],
     [name |-> "MOVSX32", op |-> 11, offset |-> 32]}

(* The Bin operations an instruction may be: one or none.                  *)
BinOps(i) ==
    {n \in DOMAIN PlainOps : PlainOps[n] = ALU_OP(i) /\ i.offset = 0}
      \cup {r.name : r \in {r \in OffsetOps : r.op = ALU_OP(i) /\ r.offset = i.offset}}

(* Mutant of getBinOp: a sign-extending move may have an immediate.        *)
MutBinOp(i) ==
    {n \in BinOps(i) :
       ALU_OP(i) \in {2, 3, 9} => supports("divmul32", "divmul64", cls(i) = INST_CLS_ALU64)}

getBinOp(i) ==
    {n \in BinOps(i) :
       /\ ALU_OP(i) \in {2, 3, 9} => supports("divmul32", "divmul64", cls(i) = INST_CLS_ALU64)
       /\ ALU_OP(i) = 11 /\ i.offset > 0 => SRC_REG(i)}

Swaps ==
    {[name |-> "LE", be |-> FALSE, wide |-> FALSE], [name |-> "BE", be |-> TRUE, wide |-> FALSE],
     [name |-> "SWAP", be |-> FALSE, wide |-> TRUE]}

getUnOp(i) ==
    (IF ALU_OP(i) = 8 /\ i.offset = 0 /\ ~SRC_REG(i) /\ i.src = 0 /\ i.imm = 0
     THEN {[op |-> "NEG", bits |-> 0]} ELSE {})
      \cup {[op |-> s.name, bits |-> i.imm] : s \in {s \in Swaps :
                /\ ALU_OP(i) = 13 /\ i.offset = 0 /\ i.src = 0
                /\ s.be = SRC_REG(i) /\ s.wide = (cls(i) = INST_CLS_ALU64)
                /\ i.imm \in {16, 32, 64} /\ base(i.imm = 64)}}

(* A register leaves no room for an immediate and the other way round.     *)
BinValueOk(i) == IF SRC_REG(i) THEN i.imm = 0 ELSE i.src = 0

getBinValue(i) == IF SRC_REG(i) THEN Reg(i.src) ELSE sign_extend(i.imm)

Bin(op, dst, v, is64, lddw) ==
    [kind |-> "Bin", op |-> op, dst |-> dst, v |-> v, is64 |-> is64, lddw |-> lddw]

makeAluOp(i) ==
    LET is64 == cls(i) = INST_CLS_ALU64
    IN  CASE ~base(is64) \/ i.dst >= R10_STACK_POINTER \/ i.src > R10_STACK_POINTER -> Invalid
          [] getUnOp(i) # {} ->
                [kind |-> "Un", op |-> CHOOSE u \in getUnOp(i) : TRUE, dst |-> i.dst, is64 |-> is64]
          [] getBinOp(i) # {} /\ BinValueOk(i) ->
                Bin(CHOOSE n \in getBinOp(i) : TRUE, i.dst, getBinValue(i), is64, FALSE)
          [] OTHER -> Invalid

shift32(dst, op) == Bin(op, dst, sign_extend(32), TRUE, FALSE)

(* Two slots: the second holds nothing but the upper word.                 *)
makeLddw(insts, at) ==
    LET i == insts[at + 1]
        next == insts[at + 2]
    IN  CASE ~base(TRUE) \/ at + 1 >= Len(insts) -> Invalid
          [] \/ next.opcode # 0 \/ next.dst # 0 \/ next.src # 0 \/ next.offset # 0
             \/ i.src > 1 \/ i.offset # 0 \/ i.dst > R10_STACK_POINTER
             \/ i.src = 1 /\ next.imm # 0 -> Invalid
          [] i.src = 1 -> [kind |-> "LoadMapFd", dst |-> i.dst, mapfd |-> i.imm]
          [] OTHER -> Bin("MOV", i.dst, merge(i.imm, next.imm), TRUE, TRUE)

-----------------------------------------------------------------------------
(* Jumps.  Labels are numbers of slots, from 0.                            *)
JmpOps == [EQ |-> 1, GT |-> 2, GE |-> 3, SET |-> 4, NE |-> 5, SGT |-> 6, SGE |-> 7,
           LT |-> 10, LE |-> 11, SLT |-> 12, SLE |-> 13]

NoCondition == [op |-> "none"]

(* The label, or none: out of bounds or the second slot of a lddw.         *)
getJumpTarget(offset, insts, at) ==
    LET new_pc == at + 1 + offset
    IN  IF new_pc \notin 0..Len(insts) - 1 THEN {}
        ELSE IF insts[new_pc + 1].opcode = 0 THEN {} ELSE {new_pc}

Jump(target, cond) == [kind |-> "Jmp", cond |-> cond, target |-> target]

CallLocal(target) == [kind |-> "CallLocal", target |-> target]

(* The register is in dst, or, from older compilers, in imm.               *)
makeCallx(i) ==
    CASE i.dst > R10_STACK_POINTER \/ (i.imm # 0 /\ i.dst > 0) -> Invalid
      [] i.imm \notin 0..R10_STACK_POINTER -> Invalid
      [] OTHER -> [kind |-> "Callx", func |-> IF i.imm # 0 THEN i.imm ELSE i.dst]

makeCall(i) ==
    CASE i.dst # 0 \/ i.imm \notin UsableHelpers -> Invalid
      [] i.imm \in UnsupportedHelpers -> Thrown
      [] OTHER -> [kind |-> "Call", func |-> i.imm]

makeCallOp(i, insts, at) ==
    CASE \/ cls(i) # INST_CLS_JMP \/ (SRC_REG(i) /\ "callx" \notin Groups) \/ ~base(FALSE)
         \/ i.src > INST_CALL_LOCAL \/ i.offset # 0 -> Invalid
      [] i.src = INST_CALL_LOCAL ->
            LET targets == getJumpTarget(i.imm, insts, at)
            IN  IF SRC_REG(i) \/ i.dst # 0 \/ targets = {} THEN Invalid
                ELSE CallLocal(CHOOSE t \in targets : TRUE)
      [] SRC_REG(i) -> makeCallx(i)
      [] OTHER -> makeCall(i)

makeExit(i) ==
    IF /\ base(FALSE) /\ cls(i) = INST_CLS_JMP /\ ~SRC_REG(i)
       /\ i.src = 0 /\ i.dst = 0 /\ i.imm = 0 /\ i.offset = 0
    THEN [kind |-> "Exit"] ELSE Invalid

makeGoto(i, insts, at) ==
    LET wide == cls(i) = INST_CLS_JMP32
        targets == getJumpTarget(IF wide THEN i.imm ELSE i.offset, insts, at)
    IN  IF \/ ~base(FALSE) \/ ~base(~wide) \/ SRC_REG(i) \/ i.dst # 0 \/ i.src # 0
           \/ (IF wide THEN i.offset ELSE i.imm) # 0 \/ targets = {}
        THEN Invalid
        ELSE Jump(CHOOSE t \in targets : TRUE, NoCondition)

makeCondition(i, insts, at) ==
    LET is64 == cls(i) = INST_CLS_JMP
        ops == {n \in DOMAIN JmpOps : JmpOps[n] = ALU_OP(i)}
        targets == getJumpTarget(i.offset, insts, at)
    IN  IF \/ ~base(is64) \/ ops = {} \/ ~BinValueOk(i) \/ targets = {}
           \/ i.dst > R10_STACK_POINTER \/ i.src > R10_STACK_POINTER
        THEN Invalid
        ELSE Jump(CHOOSE t \in targets : TRUE,
                  [op |-> CHOOSE n \in ops : TRUE, left |-> i.dst,
                   right |-> getBinValue(i), is64 |-> is64])

makeJmp(i, insts, at) ==
    CASE ALU_OP(i) = 8 -> makeCallOp(i, insts, at)
      [] ALU_OP(i) = 9 -> makeExit(i)
      [] ALU_OP(i) = 0 -> makeGoto(i, insts, at)
      [] OTHER -> makeCondition(i, insts, at)
-----------------------------------------------------------------------------
(* The instruction at a slot, without the merging of shifts.               *)
DecodeSlot(insts, at) ==
    LET i == insts[at + 1]
    IN  CASE i.opcode = INST_OP_LDDW_IMM -> makeLddw(insts, at)
          [] cls(i) \in {INST_CLS_ALU, INST_CLS_ALU64} -> makeAluOp(i)
          [] cls(i) \in {INST_CLS_JMP, INST_CLS_JMP32} -> makeJmp(i, insts, at)
          [] OTHER -> makeMemOp(i)

(* Mutant of Merged: the second shift may be of another register.          *)
MutMerged(insts, at) ==
    LET i == insts[at + 1]
        second == makeAluOp(insts[at + 2])
    IN  CASE second = shift32(insts[at + 2].dst, "RSH") -> Bin("MOV", i.dst, Reg(i.dst), FALSE, FALSE)
          [] second = shift32(insts[at + 2].dst, "ARSH") -> Bin("MOVSX32", i.dst, Reg(i.dst), TRUE, FALSE)
          [] second = Invalid -> Invalid
          [] OTHER -> shift32(i.dst, "LSH")

(* rX <<= 32; rX >>>= 32 becomes wX = rX, and with >>= it is rX s32= rX.   *)
Merged(insts, at) ==
    LET i == insts[at + 1]
        second == makeAluOp(insts[at + 2])
    IN  CASE second = shift32(i.dst, "RSH") -> Bin("MOV", i.dst, Reg(i.dst), FALSE, FALSE)
          [] second = shift32(i.dst, "ARSH") -> Bin("MOVSX32", i.dst, Reg(i.dst), TRUE, FALSE)
          [] second = Invalid -> Invalid
          [] OTHER -> shift32(i.dst, "LSH")

(* Only a pair of 64-bit operations is looked at.                          *)
MayMerge(insts, at, ins) ==
    /\ at + 1 < Len(insts)
    /\ ins = shift32(insts[at + 1].dst, "LSH")
    /\ cls(insts[at + 2]) = INST_CLS_ALU64

Decode(insts, at) ==
    LET ins == DecodeSlot(insts, at)
    IN  IF MayMerge(insts, at, ins) THEN Merged(insts, at) ELSE ins

(* Whether an instruction takes the next slot as well.                     *)
Skips(insts, at, ins) ==
    \/ insts[at + 1].opcode = INST_OP_LDDW_IMM
    \/ ins # DecodeSlot(insts, at)

-----------------------------------------------------------------------------
Insts(p) == [k \in 1..Len(programs[p].prog) |-> programs[p].prog[k].inst]

UnmarshalInit == unit = 0 /\ pc = 0 /\ seq = <<>> /\ outcome = "running"

(* Any of the programs read_elf returned is unmarshalled.                  *)
StartUnmarshal ==
    /\ loading = "done" /\ unit = 0
    /\ unit' \in 1..Len(programs)
    /\ UNCHANGED <<loaderVars, pc, seq, outcome>>

Unmarshalling == unit # 0 /\ outcome = "running" /\ pc < Len(programs[unit].prog)

UnmarshalInstruction ==
    /\ Unmarshalling
    /\ LET insts == Insts(unit)
           ins == Decode(insts, pc)
       IN  /\ ins \notin {Invalid, Thrown}
           /\ seq' = Append(seq, [label |-> pc, ins |-> ins])
           /\ pc' = pc + (IF Skips(insts, pc, ins) THEN 2 ELSE 1)
    /\ UNCHANGED <<loaderVars, unit, outcome>>

RefuseInstruction ==
    /\ Unmarshalling
    /\ LET ins == Decode(Insts(unit), pc)
       IN  ins \in {Invalid, Thrown} /\ outcome' = ins.kind
    /\ UNCHANGED <<loaderVars, unit, pc, seq>>

EndUnmarshal ==
    /\ unit # 0 /\ outcome = "running" /\ pc >= Len(programs[unit].prog)
    /\ outcome' = "done"
    /\ UNCHANGED <<loaderVars, unit, pc, seq>>

UnmarshalStep ==
    \/ StartUnmarshal
    \/ UnmarshalInstruction
    \/ RefuseInstruction
    \/ EndUnmarshal

Stopped ==
    /\ loading \notin {"reading", "linking"}
    /\ loading = "done" => outcome # "running"
=============================================================================
