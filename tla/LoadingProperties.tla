-------------------------- MODULE LoadingProperties --------------------------
(***************************************************************************)
(* What reading, linking, unmarshalling and marshalling a file have to     *)
(* keep: the functions a call reaches, what the slots do and where they    *)
(* go on, and which slots are instructions at all.                         *)
(***************************************************************************)
EXTENDS Marshaller, Relation

Unmarshalled == outcome = "done"

(* The program in hand, as slots without their origin.                     *)
Text == Insts(unit)

-----------------------------------------------------------------------------
(* The functions of the file and which calls which.                        *)
FunctionsOf(f) == 1..Len(f.programs)

CallRelocs(f, i) ==
    {r \in ToSet(f.programs[i].relocs) : IsCall(f.programs[i].text, r)}

IsTarget(f, r, j) ==
    f.programs[j].section = f.symbols[r.symbol] /\ f.programs[j].function = r.symbol

CallGraph(f) ==
    [p \in FunctionsOf(f) \X FunctionsOf(f) |->
        \E r \in CallRelocs(f, p[1]) : IsTarget(f, r, p[2])]

(* A file as compilers write them: names are unique, the functions called  *)
(* are there, and none calls itself.                                       *)
WellFormed(f) ==
    /\ \A i, j \in FunctionsOf(f) :
          f.programs[i].function = f.programs[j].function => i = j
    /\ \A i \in FunctionsOf(f) : \A r \in CallRelocs(f, i) :
          \E j \in FunctionsOf(f) : IsTarget(f, r, j)
    /\ IsIrreflexive(TransitiveClosure(CallGraph(f), FunctionsOf(f)), FunctionsOf(f))

(* In a well-formed file every call, in whatever copy of its function it   *)
(* is, has the label of a complete copy of the function that its symbol    *)
(* names, and no subprogram is missed: append_subprograms resolves callees *)
(* before it copies them, and the offsets it writes survive the copying.   *)
CallsLinked ==
    WellFormed(file) =>
        /\ loading # "subprogram_missing"
        /\ Unmarshalled =>
            \A e \in ToSet(seq) : e.ins.kind = "CallLocal" =>
                LET prog == programs[unit].prog
                    from == prog[e.label + 1].origin
                IN  \A r \in CallRelocs(file, from[1]) : r.slot = from[2] =>
                        \A j \in FunctionsOf(file) : IsTarget(file, r, j) =>
                            \A k \in 1..Len(file.programs[j].text) :
                                prog[e.ins.target + k].origin = <<j, k>>

-----------------------------------------------------------------------------
(* The machine that runs slots, as far as control and moves of whole words *)
(* go.  A register is its two words.                                       *)
Words == {-1, 5}

Registers == [{1, 2} -> [lo : Words, hi : Words]]

Sign(w) == IF w < 0 THEN -1 ELSE 0

Shift(name, w) ==
    CASE name = "LSH" -> [lo |-> 0, hi |-> w.lo]
      [] name = "RSH" -> [lo |-> w.hi, hi |-> 0]
      [] name = "ARSH" -> [lo |-> w.hi, hi |-> Sign(w.hi)]

(* Opcodes of rX <<= 32, rX >>>= 32 and rX >>= 32.                         *)
SlotShifts == {<<103, "LSH">>, <<119, "RSH">>, <<199, "ARSH">>}

Low(w) == [lo |-> w.lo, hi |-> 0]

Extended(w) == [lo |-> w.lo, hi |-> Sign(w.lo)]

(* Moves between registers: of both words, of the lower one, and of the    *)
(* lower one with its sign.                                                *)
RunSlot(i, regs) ==
    [r \in DOMAIN regs |->
        CASE i.dst # r -> regs[r]
          [] i.imm = 32 /\ (\E s \in SlotShifts : s[1] = i.opcode) ->
                Shift((CHOOSE s \in SlotShifts : s[1] = i.opcode)[2], regs[r])
          [] i.opcode = 191 /\ i.offset = 0 /\ i.src \in DOMAIN regs -> regs[i.src]
          [] i.opcode = 188 /\ i.offset = 0 /\ i.src \in DOMAIN regs -> Low(regs[i.src])
          [] i.opcode = 191 /\ i.offset = 32 /\ i.src \in DOMAIN regs -> Extended(regs[i.src])
          [] OTHER -> regs[r]]

Moved(ins, w) ==
    CASE ins.op = "MOV" /\ ins.is64 -> w
      [] ins.op = "MOV" /\ ~ins.is64 -> Low(w)
      [] ins.op = "MOVSX32" /\ ins.is64 -> Extended(w)

IsMove(ins) == ins.op = "MOV" \/ (ins.op = "MOVSX32" /\ ins.is64)

RunInstruction(ins, regs) ==
    IF ins.kind # "Bin" \/ ins.dst \notin DOMAIN regs THEN regs
    ELSE [regs EXCEPT ![ins.dst] =
            IF IsReg(ins.v)
            THEN IF IsMove(ins) /\ ins.v.reg \in DOMAIN regs
                 THEN Moved(ins, regs[ins.v.reg]) ELSE @
            ELSE IF ins.is64 /\ ins.op \in {"LSH", "RSH", "ARSH"} /\ ins.v = sign_extend(32)
                 THEN Shift(ins.op, @) ELSE @]

(* Where the slot goes on: jumps are relative to the slot after them.      *)
IsJump(i) == i.opcode % 8 \in {5, 6} /\ i.opcode \div 16 \notin {8, 9}

SlotSuccessors(s) ==
    LET i == Text[s + 1]
        distance == IF i.opcode = 6 THEN i.imm ELSE i.offset
    IN  CASE i.opcode = 149 -> {}
          [] i.opcode \in {5, 6} -> {s + 1 + distance}
          [] i.opcode = 24 -> {s + 2}
          [] OTHER -> {s + 1} \cup (IF IsJump(i) THEN {s + 1 + distance} ELSE {})

(* The slots an instruction stands for: to the next label.                 *)
NextLabel(k) == IF k = Len(seq) THEN Len(Text) ELSE seq[k + 1].label

Successors(k) ==
    LET ins == seq[k].ins
    IN  (IF ins.kind = "Exit" \/ (ins.kind = "Jmp" /\ ins.cond = NoCondition)
         THEN {} ELSE {NextLabel(k)})
          \cup (IF ins.kind = "Jmp" THEN {ins.target} ELSE {})

(* Every instruction of the sequence does to the registers what the slots  *)
(* from its label to the next label do, and goes on where the last of them *)
(* goes on; the labels begin at the first slot.  Of the slots without a    *)
(* label, the second of a lddw is never a jump's target: unmarshal takes   *)
(* two slots for one where merge and makeLddw say so, and nowhere else.    *)
ExecutionKept ==
    Unmarshalled =>
        /\ seq[1].label = 0
        /\ \A k \in 1..Len(seq) :
              LET from == seq[k].label
                  last == NextLabel(k) - 1
                  wide == Text[from + 1].opcode = 24
              IN  /\ last \in {from, from + 1}
                  /\ Successors(k) = SlotSuccessors(IF wide THEN from ELSE last)
                  /\ \A t \in Successors(k) \cap (0..Len(Text) - 1) : Text[t + 1].opcode # 0
                  /\ \A regs \in Registers :
                        RunInstruction(seq[k].ins, regs)
                          = IF last = from \/ wide THEN RunSlot(Text[from + 1], regs)
                            ELSE RunSlot(Text[last + 1], RunSlot(Text[from + 1], regs))

-----------------------------------------------------------------------------
(* The instruction set, as the table of test_marshal.cpp has it: opcodes   *)
(* with the values of dst, src, offset and imm that go with them.          *)
AnyReg == 0..10

Target == 0..9

Template(opcodes, dst, src, offsets, imm) ==
    [opcodes |-> opcodes, dst |-> dst, src |-> src, offsets |-> offsets, imm |-> imm]

(* Opcodes with the given upper halves and lower half.                     *)
Opcodes(upper, lower) == {16 * u + lower : u \in upper}

Arithmetic == {0, 1, 2, 4, 5, 6, 7, 10, 12}

Conditions == {1, 2, 3, 4, 5, 6, 7, 10, 11, 12, 13}

Templates ==
    <<Template(Opcodes(Arithmetic, 4) \cup Opcodes(Arithmetic, 7), Target, {0}, {0}, Int),
      Template(Opcodes(Arithmetic, 12) \cup Opcodes(Arithmetic, 15), Target, AnyReg, {0}, {0}),
      Template({52, 55, 148, 151}, Target, {0}, {0, 1}, Int),
      Template({60, 63, 156, 159}, Target, AnyReg, {0, 1}, {0}),
      Template({180, 183}, Target, {0}, {0}, Int),
      Template({188}, Target, AnyReg, {0, 8, 16}, {0}),
      Template({191}, Target, AnyReg, {0, 8, 16, 32}, {0}),
      Template({132, 135}, Target, {0}, {0}, {0}),
      Template({212, 215, 220}, Target, {0}, {0}, {16, 32, 64}),
      Template({5}, {0}, {0}, Int, {0}),
      Template({6}, {0}, {0}, {0}, Int),
      Template(Opcodes(Conditions, 5) \cup Opcodes(Conditions, 6), AnyReg, {0}, Int, Int),
      Template(Opcodes(Conditions, 13) \cup Opcodes(Conditions, 14), AnyReg, AnyReg, Int, {0}),
      Template({24}, Target, {0, 1}, {0}, Int),
      Template({32, 40, 48}, {0}, {0}, {0}, Int),
      Template({64, 72, 80}, {0}, AnyReg, {0}, Int),
      Template({97, 105, 113, 121}, Target, AnyReg, Int, {0}),
      Template({98, 106, 114, 122}, AnyReg, {0}, Int, Int),
      Template({99, 107, 115, 123}, AnyReg, AnyReg, Int, {0}),
      Template({195, 219}, AnyReg, AnyReg, Int, {0, 1, 64, 65, 80, 81, 160, 161, 225, 241}),
      Template({133}, {0}, {0}, {0}, UsableHelpers),
      Template({133}, {0}, {1}, {0}, Int),
      Template({141}, AnyReg, {0}, {0}, {0}),
      Template({149}, {0}, {0}, {0}, {0})>>

(* What unmarshal takes beyond the table: MOVSX32 of 32 bits, which the    *)
(* tests of the same file expect; r10 as the target of a lddw; callx with  *)
(* its register in imm, for old compilers.                                 *)
Extensions ==
    <<Template({188}, Target, AnyReg, {32}, {0}),
      Template({24}, {10}, {0, 1}, {0}, Int),
      Template({141}, {0}, {0}, {0}, AnyReg)>>

Matches(i, t) ==
    /\ i.opcode \in t.opcodes
    /\ i.dst \in t.dst
    /\ i.src \in t.src
    /\ i.offset \in t.offsets
    /\ i.imm \in t.imm

(* Offsets of jumps lead to an instruction, and the second slot of a lddw  *)
(* is empty but for its immediate, which an fd does not use.               *)
Placed(s) ==
    LET i == Text[s + 1]
        distance == CASE i.opcode = 133 /\ i.src = 1 -> i.imm
                      [] i.opcode = 6 -> i.imm
                      [] IsJump(i) -> i.offset
                      [] OTHER -> 0
        t == s + 1 + distance
    IN  /\ IsJump(i) \/ (i.opcode = 133 /\ i.src = 1) =>
              t \in 0..Len(Text) - 1 /\ Text[t + 1].opcode # 0
        /\ i.opcode = 24 =>
              /\ s + 1 < Len(Text)
              /\ LET n == Text[s + 2]
                 IN  n.opcode = 0 /\ n.dst = 0 /\ n.src = 0 /\ n.offset = 0
                       /\ (i.src = 1 => n.imm = 0)

IsaSlot(s, templates) == Placed(s) /\ \E n \in DOMAIN templates : Matches(Text[s + 1], templates[n])

(* unmarshal takes a slot for an instruction only when it is one of the    *)
(* instruction set (or one of the extensions named above), and refuses     *)
(* none that is: the slot refused, or the one merged with it, is not.      *)
AcceptsIsa ==
    /\ \A e \in ToSet(seq) : IsaSlot(e.label, Templates \o Extensions)
    /\ outcome = "invalid" =>
          \E s \in {pc, pc + 1} \cap (0..Len(Text) - 1) : ~IsaSlot(s, Templates)

-----------------------------------------------------------------------------
(* The instruction that comes back: a condition loses that it was of 32    *)
(* bits.                                                                   *)
Expected(ins) ==
    IF ins.kind = "Jmp" /\ ins.cond # NoCondition
    THEN [Retargeted(ins) EXCEPT !.cond.is64 = TRUE]
    ELSE Retargeted(ins)

(* Marshalling a sequence and unmarshalling the result gives the same      *)
(* instructions, each at the slot its label has moved to, although merged  *)
(* pairs have made the text shorter; except for calls of local functions,  *)
(* whose distances marshal does not write.                                 *)
RoundTrip ==
    marshalled = "done" =>
        /\ Len(image) = Start(Len(seq) + 1)
        /\ \A k \in 1..Len(seq) :
              seq[k].ins.kind # "CallLocal" => Decode(image, Start(k)) = Expected(seq[k].ins)
=============================================================================
