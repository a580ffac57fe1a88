----------------------------- MODULE Marshaller -----------------------------
(***************************************************************************)
(* marshal (asm_marshal.cpp): a sequence of labelled instructions becomes  *)
(* slots again, jumps going to where their targets are now.                *)
(***************************************************************************)
EXTENDS Unmarshaller

VARIABLES image,      \* the slots made
          marshalled  \* "no", "done" or "thrown"

marshalVars == <<image, marshalled>>

allVars == <<vars, marshalVars>>

INT16_MIN == -32768

INT16_MAX == 32767

Inst(opcode, dst, src, offset, imm) ==
    [opcode |-> opcode, dst |-> dst, src |-> src, offset |-> offset, imm |-> imm]

(* gsl::narrow to 32 signed bits throws where the 64-bit number differs.   *)
Narrows(v) == v.hi = 0 /\ v.lo >= 0

IsReg(v) == "reg" \in DOMAIN v

is16(d) == INT16_MIN <= d /\ d <= INT16_MAX

(* 16 bits whenever they are enough, and 0 in the other field.             *)
label_to_offset16(at, label) == LET d == label - at - 1 IN IF is16(d) THEN d ELSE 0

label_to_offset32(at, label) == LET d == label - at - 1 IN IF is16(d) THEN 0 ELSE d

width_to_opcode(w) == CASE w = 1 -> 16 [] w = 2 -> 8 [] w = 4 -> 0 [] w = 8 -> 24

(* The numbers of the operations of Bin.                                   *)
op(name) ==
    CASE name \in {"SDIV", "UDIV"} -> 3
      [] name \in {"SMOD", "UMOD"} -> 9
      [] name \in {"MOV", "MOVSX8", "MOVSX16", "MOVSX32"} -> 11
      [] OTHER -> PlainOps[name]

(* Mutant of offset: signed division is written as unsigned.               *)
MutOffset(name) ==
    CASE name = "MOVSX8" -> 8 [] name = "MOVSX16" -> 16 [] name = "MOVSX32" -> 32
      [] OTHER -> 0

offset(name) ==
    CASE name \in {"SDIV", "SMOD"} -> 1
      [] name = "MOVSX8" -> 8 [] name = "MOVSX16" -> 16 [] name = "MOVSX32" -> 32
      [] OTHER -> 0

MarshalLddw(dst, fd, lo, hi) == <<Inst(INST_OP_LDDW_IMM, dst, fd, 0, lo), Inst(0, 0, 0, 0, hi)>>

(* The last operand: a register sets the bit that says so.                 *)
WithValue(i, v) ==
    IF IsReg(v) THEN [i EXCEPT !.opcode = @ + 8, !.src = v.reg] ELSE [i EXCEPT !.imm = v.lo]

MarshalBin(b) ==
    IF b.lddw THEN MarshalLddw(b.dst, 0, b.v.lo, b.v.hi)
    ELSE <<WithValue(Inst((IF b.is64 THEN INST_CLS_ALU64 ELSE INST_CLS_ALU) + 16 * op(b.op),
                          b.dst, 0, offset(b.op), 0), b.v)>>

MarshalUn(b) ==
    LET opcode == CASE b.op.op = "NEG" -> 128 + (IF b.is64 THEN INST_CLS_ALU64 ELSE INST_CLS_ALU)
                    [] b.op.op = "LE" -> 208 + INST_CLS_ALU
                    [] b.op.op = "BE" -> 216 + INST_CLS_ALU
                    [] b.op.op = "SWAP" -> 208 + INST_CLS_ALU64
    IN  <<Inst(opcode, b.dst, 0, 0, b.op.bits)>>

(* The class is that of 64 bits whatever the condition.                    *)
MarshalJmp(b, at) ==
    LET far == label_to_offset32(at, b.target)
        near == label_to_offset16(at, b.target)
    IN  CASE b.cond # NoCondition ->
               <<WithValue(Inst(INST_CLS_JMP + 16 * JmpOps[b.cond.op], b.cond.left, 0, near, 0),
                           b.cond.right)>>
          [] far # 0 -> <<Inst(INST_OP_JA32, 0, 0, 0, far)>>
          [] OTHER -> <<Inst(INST_OP_JA16, 0, 0, near, 0)>>

MarshalMem(b) ==
    LET a == b.access
        opcode == 96 + width_to_opcode(a.width)
    IN  CASE b.is_load -> <<Inst(opcode + INST_CLS_LDX, b.value.reg, a.basereg, a.offset, 0)>>
          [] IsReg(b.value) ->
               <<Inst(opcode + INST_CLS_STX, a.basereg, b.value.reg, a.offset, 0)>>
          [] OTHER -> <<Inst(opcode + INST_CLS_ST, a.basereg, 0, a.offset, b.value.lo)>>

MarshalPacket(b) ==
    LET opcode == INST_CLS_LD + width_to_opcode(b.width)
    IN  IF b.regoffset # -1 THEN <<Inst(opcode + 64, 0, b.regoffset, 0, b.offset)>>
        ELSE <<Inst(opcode + 32, 0, 0, 0, b.offset)>>

MarshalAtomic(b) ==
    <<Inst(INST_CLS_STX + 192 + width_to_opcode(b.access.width), b.access.basereg, b.valreg,
           b.access.offset, b.op + (IF b.fetch THEN 1 ELSE 0))>>

marshal(ins, at) ==
    CASE ins.kind = "Bin" -> MarshalBin(ins)
      [] ins.kind = "Un" -> MarshalUn(ins)
      [] ins.kind = "LoadMapFd" -> MarshalLddw(ins.dst, 1, ins.mapfd, 0)
      [] ins.kind = "Call" -> <<Inst(INST_OP_CALL, 0, 0, 0, ins.func)>>
      [] ins.kind = "CallLocal" ->
           <<Inst(INST_OP_CALL, 0, INST_CALL_LOCAL, 0, label_to_offset32(at, ins.target))>>
      [] ins.kind = "Callx" -> <<Inst(141, ins.func, 0, 0, 0)>>
      [] ins.kind = "Exit" -> <<Inst(149, 0, 0, 0, 0)>>
      [] ins.kind = "Jmp" -> MarshalJmp(ins, at)
      [] ins.kind = "Mem" -> MarshalMem(ins)
      [] ins.kind = "Packet" -> MarshalPacket(ins)
      [] ins.kind = "Atomic" -> MarshalAtomic(ins)

(* Immediates that gsl::narrow throws at.                                  *)
MarshalThrows(ins) ==
    CASE ins.kind = "Bin" -> ~ins.lddw /\ ~IsReg(ins.v) /\ ~Narrows(ins.v)
      [] ins.kind = "Jmp" ->
           ins.cond # NoCondition /\ ~IsReg(ins.cond.right) /\ ~Narrows(ins.cond.right)
      [] ins.kind = "Mem" -> ~IsReg(ins.value) /\ ~Narrows(ins.value)
      [] OTHER -> FALSE

size(ins) == IF ins.kind = "LoadMapFd" \/ (ins.kind = "Bin" /\ ins.lddw) THEN 2 ELSE 1

(* get_labels: where the k-th instruction begins in the result.            *)
Start(k) == k - 1 + Cardinality({j \in 1..(k - 1) : size(seq[j].ins) = 2})

Labelled(label) == {k \in 1..Len(seq) : seq[k].label = label}

(* A jump with its target in the result.  Calls are left as they are.      *)
Retargeted(ins) ==
    IF ins.kind = "Jmp"
    THEN [ins EXCEPT !.target = Start(CHOOSE k \in Labelled(ins.target) : TRUE)]
    ELSE ins

TargetLost(ins) == ins.kind = "Jmp" /\ Labelled(ins.target) = {}

MarshalSequence ==
    /\ outcome = "done" /\ marshalled = "no"
    /\ LET bad == \E k \in 1..Len(seq) : TargetLost(seq[k].ins) \/ MarshalThrows(seq[k].ins)
       IN  /\ marshalled' = IF bad THEN "thrown" ELSE "done"
           /\ image' = IF bad THEN <<>>
                       ELSE FlattenSeq([k \in 1..Len(seq) |->
                                          marshal(Retargeted(seq[k].ins), Start(k))])
    /\ UNCHANGED vars

Init == LoaderInit /\ UnmarshalInit /\ image = <<>> /\ marshalled = "no"

Resting ==
    /\ Stopped
    /\ outcome = "done" => marshalled # "no"
    /\ UNCHANGED allVars

Next ==
    \/ LoaderStep /\ UNCHANGED <<unmarshalVars, marshalVars>>
    \/ UnmarshalStep /\ UNCHANGED marshalVars
    \/ MarshalSequence
    \/ Resting

Spec == Init /\ [][Next]_allVars
=============================================================================
