-------------------------- MODULE MCPointerAnalysis --------------------------
(***************************************************************************)
(* Paths for PointerAnalysis on registers of six bits.                     *)
(***************************************************************************)
EXTENDS PointerAnalysis

\* Maps 1 and 2 are of one type and hold values of different sizes, 3 is of
\* another, 4 holds maps like map 5.
Maps == [fd \in 1 .. 5 |->
            CASE fd = 1 -> [type |-> "array", key_size |-> 1, value_size |-> 3, inner |-> 0, address |-> 2, value |-> 8]
              [] fd = 2 -> [type |-> "array", key_size |-> 1, value_size |-> 1, inner |-> 0, address |-> 3, value |-> 9]
              [] fd = 3 -> [type |-> "hash", key_size |-> 1, value_size |-> 2, inner |-> 0, address |-> 6, value |-> 11]
              [] fd = 4 -> [type |-> "outer", key_size |-> 1, value_size |-> 1, inner |-> 5, address |-> 4, value |-> 5]
              [] fd = 5 -> [type |-> "array", key_size |-> 1, value_size |-> 2, inner |-> 0, address |-> 5, value |-> 10]]
AllEntries == {[base |-> 4, size |-> 0, meta |-> 0], [base |-> 4, size |-> 2, meta |-> -1]}
Where == [ctx |-> 1, frame |-> 7]
\* A context without meta data.
NoMeta == -1

Mov(r, q) == BinOp("MOV", r, RegArg(q), TRUE)
MovI(r, n) == BinOp("MOV", r, Imm(n), TRUE)
AddI(r, n) == BinOp("ADD", r, Imm(n), TRUE)
Single(kind, r) == [kind |-> kind, reg |-> r]
Lookup == Call({Single("MAP_FD", 1), Single("PTR_TO_MAP_KEY", 2)}, {}, TRUE, FALSE)
AdjustHead == Call({Single("PTR_TO_CTX", 1), Single("ANYTHING", 2)}, {}, FALSE, TRUE)
Pair(or_null, writes) == Call({}, {[mem |-> 1, size |-> 2, can_be_zero |-> FALSE, or_null |-> or_null, writes |-> writes]}, FALSE, FALSE)

\* r2 at the packet, r0 at its end; then one byte of it known to be there.
Ends == <<Load(2, 1, 0, 1), Load(0, 1, 1, 1)>>
OneByte == Ends \o <<Mov(6, 2), AddI(6, 1), Assume("LE", 6, RegArg(0))>>
\* One byte of the meta data before the packet.
MetaByte == <<Load(2, 1, 2, 1), Load(0, 1, 0, 1), Mov(6, 2), AddI(6, 1), Assume("LE", 6, RegArg(0))>>
Find(fd) == OneByte \o <<LoadMapFd(1, fd), Lookup>>
\* r2 and r6 in a map's value, which is where the key for map 3 is.
KeyInValue == Find(1) \o <<Assume("NE", 0, Imm(0)), Mov(6, 0), Mov(2, 0), AddI(2, 2), LoadMapFd(1, 3)>>
Stack2 == <<Mov(2, 10), AddI(2, -2)>>

AllPrologues ==
    {<<>>, MetaByte, Find(1), KeyInValue,
     OneByte \o <<LoadMapFd(1, 2)>>, OneByte \o <<LoadMapFd(1, 3)>>, OneByte \o <<LoadMapFd(1, 4)>>,
     Stack2 \o <<MovI(0, 1)>>, <<Mov(2, 1), MovI(0, 0)>>, <<Mov(6, 1), MovI(0, 2)>>, <<MovI(2, 1), Mov(6, 1)>>,
     <<Load(6, 1, 0, 1), CallLocal(1)>>, <<Mov(6, 1), CallLocal(1), MovI(6, 1), CallLocal(2), Mov(2, 10), AddI(2, -1), Mov(6, 2)>>}

MeetingPrologues == {<<>>, OneByte, Find(1), OneByte \o <<LoadMapFd(1, 1)>>, <<Mov(2, 1), MovI(0, 0)>>}

AllInstructions ==
    {Load(0, 2, 0, 1), Load(2, 2, 0, 1), Load(0, 0, 2, 1), Load(2, 1, 2, 1), Load(2, 1, 3, 1), Load(0, 1, 0, 3), Load(0, 6, 0, 1),
     Store(2, 0, 1, Imm(0)), Store(2, 0, 3, RegArg(1)), Store(0, 0, 3, RegArg(2)), Store(10, -2, 1, RegArg(0)), Store(6, 0, 1, Imm(0)),
     Atomic("ADD", 0, 0, 1, 2, TRUE), Atomic("OR", 2, 0, 1, 0, FALSE), Atomic("XCHG", 2, 0, 1, 0, TRUE),
     Atomic("CMPXCHG", 2, 0, 1, 0, TRUE), Atomic("CMPXCHG", 2, 0, 1, 1, TRUE),
     AddI(2, 1), AddI(2, -1), BinOp("SUB", 2, Imm(1), FALSE), MovI(0, 1), MovI(1, 0),
     BinOp("ADD", 2, RegArg(0), TRUE), BinOp("ADD", 0, RegArg(2), TRUE), BinOp("ADD", 2, RegArg(0), FALSE),
     BinOp("SUB", 2, RegArg(0), TRUE), BinOp("SUB", 0, RegArg(2), TRUE),
     Mov(0, 2), Mov(2, 0), Mov(2, 2), Mov(2, 6), Mov(1, 2), BinOp("MOV", 0, RegArg(0), FALSE),
     Assume("LE", 2, RegArg(0)), Assume("EQ", 2, RegArg(0)), Assume("NE", 2, RegArg(0)), Assume("NE", 0, RegArg(6)),
     Assume("NE", 0, Imm(0)), Assume("EQ", 0, Imm(0)), Assume("LT", 0, Imm(2)), Assume("NE", 2, Imm(0)),
     LoadMapFd(1, 1), Lookup, AdjustHead, Pair(FALSE, TRUE), Pair(TRUE, FALSE), Packet, CallLocal(1), Exit(0), Exit(1), Exit(2)}

\* A path of the violation run: one byte of the packet is there, r2 points to it
\* or into the frame, and moves on.
MixedPrologues == {OneByte, OneByte \o Stack2}
MixedInstructions == {AddI(2, 2), Store(2, 0, 1, Imm(0))}
=============================================================================
