---------------------------- MODULE StackMemory ----------------------------
(***************************************************************************)
(* What the abstract stack promises about the stack of the program it      *)
(* describes.  The program's stack is an array of bytes, each part of a    *)
(* number or of a pointer.  A load is answered with a type and two values; *)
(* an answer may withhold any of them but never contradicts the bytes that *)
(* are there when it is given.                                             *)
(***************************************************************************)
EXTENDS Integers

CONSTANTS
    StackSize,    \* bytes of the stack (EBPF_TOTAL_STACK_SIZE)
    Byte,         \* the values of a byte that belongs to a number
    Ptr,          \* a byte that belongs to a stored pointer
    Unknown       \* what an answer says of a part it withholds

VARIABLES
    memory,       \* the bytes of the stack
    answer        \* the last load and its answer

Offset == 0 .. StackSize - 1

\* What a load of [i, i + w) reads, extended with zeros to the eight bytes of
\* a register.
BytesAt(mem, i, w) == [j \in 1 .. 8 |-> IF j <= w THEN mem[i + j - 1] ELSE 0]

NoAnswer == [at |-> 0, width |-> 1,
             type |-> Unknown, svalue |-> Unknown, uvalue |-> Unknown]

Agrees(ans, mem) ==
    LET bytes == ans.at .. ans.at + ans.width - 1
    IN  /\ bytes \subseteq Offset
        /\ ans.type = "num" => \A b \in bytes : mem[b] # Ptr
        /\ ans.type = "ptr" => \A b \in bytes : mem[b] = Ptr
        /\ {ans.svalue, ans.uvalue} \subseteq
               {Unknown, BytesAt(mem, ans.at, ans.width)}

Init == /\ memory = [b \in Offset |-> 0]
        /\ answer = NoAnswer

Write == /\ memory' \in [Offset -> Byte \cup {Ptr}]
         /\ UNCHANGED answer

Read == /\ Agrees(answer', memory)
        /\ UNCHANGED memory

Next == Write \/ Read
Spec == Init /\ [][Next]_<<memory, answer>>
=============================================================================
