---------------------------- MODULE MCStackCells ----------------------------
EXTENDS StackCells

CONSTANTS p1, p2

\* Numbers in memory order: 1 and 2^32 + 1.
One == <<1, 0, 0, 0, 0, 0, 0, 0>>
High == <<1, 0, 0, 0, 1, 0, 0, 0>>
MCNumbers == {One, High}

At(o, w) == [lo |-> o, hi |-> o, width |-> w]
Within(lo, hi, w) == [lo |-> lo, hi |-> hi, width |-> w]

\* Words of 4 bytes, one of 8, and buffers that no load or store accesses as
\* a whole.
WordAccesses == {At(0, 4), At(4, 4), At(8, 4), At(4, 8), Within(0, 4, 4)}
WordPointers == {At(4, 8)}
WordBuffers == {At(0, 8), Within(0, 4, 8)}

\* A buffer that is exactly a word the program also accesses.
CellBuffers == {At(8, 4)}
=============================================================================
