------------------------------ MODULE MCLoading ------------------------------
(***************************************************************************)
(* The files of the loading run: functions that call each other, in every  *)
(* order of the functions in the file; short texts of shifts, pairs of     *)
(* slots and jumps; and single slots with every opcode.                    *)
(***************************************************************************)
EXTENDS LoadingProperties

Exit == Inst(149, 0, 0, 0, 0)

Lddw == Inst(24, 1, 0, 0, 7)

Upper == Inst(0, 0, 0, 0, -1)

Lsh == Inst(103, 1, 0, 0, 32)

Rsh(r) == Inst(119, r, 0, 0, 32)

Arsh == Inst(199, 1, 0, 0, 32)

Move == Inst(183, 1, 0, 0, 5)

Goto(d) == Inst(5, 0, 0, d, 0)

IfZero(d) == Inst(22, 2, 0, d, 0)

-----------------------------------------------------------------------------
(* A call is compiled with -1 for its distance and a relocation.           *)
Call == Inst(133, 0, 1, 0, -1)

Func(text, relocs) == [text |-> text, relocs |-> relocs]

At(k, name) == [slot |-> k, symbol |-> name]

Mains ==
    <<Func(<<Call, Call, Exit>>, <<At(1, "f"), At(2, "g")>>),
      Func(<<Call, Call, Call, Exit>>, <<At(1, "g"), At(2, "f"), At(3, "g")>>),
      Func(<<Inst(24, 1, 0, 0, 0), Inst(0, 0, 0, 0, 0), Call, Exit>>, <<At(1, "m"), At(3, "f")>>),
      Func(<<IfZero(1), Call, Lsh, Rsh(1), Call, Exit>>, <<At(2, "f"), At(5, "g")>>)>>

(* Among them one that calls a function that is not there, one that calls  *)
(* itself, one that uses a map other than by loading it, and one that uses *)
(* a symbol that is not a function's or map's.                             *)
Fs ==
    <<Func(<<Exit>>, <<>>),
      Func(<<Call, Exit>>, <<At(1, "g")>>),
      Func(<<Lsh, Arsh, Call, Call, Exit>>, <<At(3, "g"), At(4, "g")>>),
      Func(<<Call, Exit>>, <<At(1, "missing")>>),
      Func(<<Call, Exit>>, <<At(1, "f")>>),
      Func(<<Move, Exit>>, <<At(1, "m")>>),
      Func(<<Move, Exit>>, <<At(1, "missing")>>)>>

Gs ==
    <<Func(<<Exit>>, <<>>),
      Func(<<Lddw, Upper, Goto(-3), Exit>>, <<>>),
      Func(<<Call, Exit>>, <<At(1, "f")>>)>>

GSections == <<"xdp", ".text">>

DesiredSections == <<"xdp", "", "other">>

Orders == <<<<1, 2, 3>>, <<2, 1, 3>>, <<3, 2, 1>>, <<2, 3, 1>>>>

Named(f, name, section) ==
    [section |-> section, function |-> name, text |-> f.text, relocs |-> f.relocs]

LinkedFile(main, f, g, gSection, order, desired) ==
    LET three == <<Named(main, "main", "xdp"), Named(f, "f", ".text"), Named(g, "g", gSection)>>
    IN  [programs |-> <<three[order[1]], three[order[2]], three[order[3]]>>,
         desired |-> desired,
         symbols |-> [f |-> ".text", g |-> gSection, m |-> "maps", missing |-> ""],
         fds |-> [m |-> 3]]

LinkedKeys == {1} \X (1..4) \X (1..7) \X (1..3) \X (1..2) \X (1..4) \X (1..3)

-----------------------------------------------------------------------------
OneProgram(text) ==
    [programs |-> <<Named(Func(text, <<>>), "main", "xdp")>>, desired |-> "xdp",
     symbols |-> <<>>, fds |-> <<>>]

(* Texts of one to four slots; 0 stands for no slot.                       *)
Alphabet ==
    <<Exit, Lddw, Upper, Lsh, Rsh(1), Rsh(2), Arsh, Goto(-2), Goto(1), IfZero(-1), IfZero(2)>>

ShortKeys == {2} \X (1..11) \X (0..11) \X (0..11) \X (0..11)

ShortText(key) ==
    LET some == SelectSeq(Tail(key), LAMBDA n : n # 0)
    IN  [k \in 1..Len(some) |-> Alphabet[some[k]]]

(* Every opcode with values of the other fields that templates tell apart, *)
(* and the values of imm that some opcodes name.                           *)
SlotKeys ==
    ({3} \X (0..255) \X {0, 1, 10, 11} \X {0, 1, 2, 11} \X {0, 1, 32} \X {-1, 0, 1, 16})
      \cup ({3} \X {51, 52, 60, 141, 159, 180, 183, 188, 191, 195, 212, 219} \X {0, 1} \X {0, 1}
              \X {0, 1, 8, 16} \X {0, 2, 32, 64, 65, 224, 225})

SlotText(key) ==
    <<Inst(key[2], key[3], key[4], key[5], key[6]),
      IF key[2] = 24 THEN Inst(0, 0, 0, 0, 0) ELSE Exit, Exit>>

MCKeys == LinkedKeys \cup ShortKeys \cup SlotKeys

MCFileOf(key) ==
    CASE key[1] = 1 -> LinkedFile(Mains[key[2]], Fs[key[3]], Gs[key[4]], GSections[key[5]],
                                  Orders[key[6]], DesiredSections[key[7]])
      [] key[1] = 2 -> OneProgram(ShortText(key))
      [] key[1] = 3 -> OneProgram(SlotText(key))
=============================================================================
