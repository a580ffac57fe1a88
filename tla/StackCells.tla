----------------------------- MODULE StackCells -----------------------------
(***************************************************************************)
(* The abstract stack (array_domain.cpp, bitset_domain.hpp) as the         *)
(* transformer drives it.  A cell is a range of bytes that has been        *)
(* accessed as a unit; the numeric domain of each abstract state holds one *)
(* scalar variable per cell and kind.  Which cells exist is kept once per  *)
(* thread, in an offset map shared by all abstract states; what is known   *)
(* of a cell's scalar, and which bytes are numbers, is kept per state.     *)
(*                                                                         *)
(* The numeric domain is abstracted to constants: a scalar is known        *)
(* exactly or not at all.  A number is the tuple of its eight bytes in     *)
(* memory order, so conversion to and from bytes is projection, and        *)
(* truncation drops the bytes above the width.  Beside the abstract state  *)
(* of each path runs the stack of one execution it describes.              *)
(***************************************************************************)
EXTENDS Integers, Sequences, FiniteSets, SequencesExt

CONSTANTS
    Paths,          \* abstract states alive during the analysis
    Watched,        \* the one whose loads are compared with its program's
    StackSize,      \* bytes of stack
    Byte,           \* byte values
    Ptr, Unknown,   \* a pointer's byte; a value that is not known
    Numbers,        \* the 64-bit numbers programs store
    NumberAccesses, \* accesses [lo, hi, width]: the index is in lo .. hi
    PointerAccesses,\* where pointers are stored
    HelperAccesses, \* buffers that helpers fill
    Filler,         \* the bytes they fill them with
    MaxSteps,       \* bound: instructions analysed
    NarrowFits      \* stores narrower than 8 bytes lose no bytes

VARIABLES
    cells,          \* kind -> the cells of the thread's offset map
    keys,           \* kind -> the offsets with an entry in it, empty or not
    scalar,         \* path -> known scalars: <<kind, cell>> -> value
    nonNum,         \* path -> bytes not known to be numbers (the bitset)
    memory,         \* path -> the program's stack
    answer,         \* path -> its last load
    steps           \* instructions analysed so far

vars == <<cells, keys, scalar, nonNum, memory, answer, steps>>

\* The stack of the watched path as its program sees it.
Stack == INSTANCE StackMemory WITH memory <- memory[Watched], answer <- answer[Watched]

ValueKinds == {"svalues", "uvalues"}
Kinds == ValueKinds \cup {"types"}
Offset == 0 .. StackSize - 1
Cell(o, n) == <<o, n>>
Bytes(c) == c[1] .. c[1] + c[2] - 1
Overlap(c, d) == Bytes(c) \cap Bytes(d) # {}

(***************************************************************************)
(* The offset map.  get_overlap_cells walks the entries away from o and    *)
(* stops in each direction at the first entry with no overlapping cell,    *)
(* an empty entry included; looking a cell up leaves an entry behind.      *)
(***************************************************************************)
\* A mutant: cells that begin inside the range are not looked for.
MutOverlapDown(st, kind, o, n) ==
    {c \in st.cells[kind] \ {Cell(o, n)} : Overlap(c, Cell(o, n)) /\ c[1] <= o}
get_overlap_cells(st, kind, o, n) ==
    LET here == Cell(o, n)
        found == {c \in st.cells[kind] \cup {here} : Overlap(c, here)}
        entries == st.keys[kind] \cup {o}
        Reached(c) == \A k \in entries :
                          (c[1] < k /\ k <= o) \/ (o < k /\ k < c[1])
                              => \E d \in found : d[1] = k
    IN  {c \in found \ {here} : Reached(c)}

\* A cell is found for a range [i, i + width] with i unknown in lo .. hi when
\* the first or the last byte of the largest cell at its offset may be in it.
symbolic_overlap(c, a) ==
    \E i \in a.lo .. a.hi : {c[1], c[1] + c[2] - 1} \cap (i .. i + a.width) # {}

get_overlap_cells_symbolic_offset(st, kind, a) ==
    {c \in st.cells[kind] :
        \E d \in st.cells[kind] :
            /\ d[1] = c[1]
            /\ \A e \in st.cells[kind] : e[1] = c[1] => e[2] <= d[2]
            /\ symbolic_overlap(d, a)}

touch(st, kind, o) == [st EXCEPT !.keys[kind] = @ \cup {o}]
mk_cell(st, kind, o, n) ==
    [touch(st, kind, o) EXCEPT !.cells[kind] = @ \cup {Cell(o, n)}]

(***************************************************************************)
(* The scalars of one abstract state.                                      *)
(***************************************************************************)
Val(st, kind, c) ==
    IF <<kind, c>> \in DOMAIN st.scalar THEN st.scalar[<<kind, c>>] ELSE Unknown
forget(st, S) ==
    [st EXCEPT !.scalar = [x \in DOMAIN @ \ S |-> @[x]]]
assign(st, kind, c, v) ==
    IF v = Unknown THEN forget(st, {<<kind, c>>})
    ELSE [st EXCEPT !.scalar = [x \in DOMAIN @ \cup {<<kind, c>>} |->
                                   IF x = <<kind, c>> THEN v ELSE @[x]]]

all_num(st, S) == S \cap st.nonNum = {}

(***************************************************************************)
(* Loads.  A value that is no cell of its own is put together from bytes   *)
(* of the aligned variables of width 8, 4, 2 and 1, whether or not their   *)
(* cells are in the map.                                                   *)
(***************************************************************************)
\* A mutant: the bytes of a value are taken in the other order.
MutValueByte(st, o) ==
    LET Aligned(w) == Cell((o \div w) * w, w)
        known == {w \in {1, 2, 4, 8} : Val(st, "svalues", Aligned(w)) # Unknown}
        widest == CHOOSE w \in known : \A x \in known : x <= w
    IN  IF known = {} THEN Unknown
        ELSE Val(st, "svalues", Aligned(widest))[widest - (o % widest)]
get_value_byte(st, o) ==
    LET Aligned(w) == Cell((o \div w) * w, w)
        known == {w \in {1, 2, 4, 8} : Val(st, "svalues", Aligned(w)) # Unknown}
        widest == CHOOSE w \in known : \A x \in known : x <= w
    IN  IF known = {} THEN Unknown
        ELSE Val(st, "svalues", Aligned(widest))[(o % widest) + 1]

\* A load from a constant offset: the map afterwards and the value.
Loaded(st, v) == [st |-> st, val |-> v]
bytes_at(st, o, w) == [j \in 1 .. 8 |-> IF j <= w THEN get_value_byte(st, o + j - 1) ELSE 0]
load_cell(st, kind, o, w) ==
    IF get_overlap_cells(st, kind, o, w) = {} THEN Loaded(mk_cell(st, kind, o, w), Val(st, kind, Cell(o, w)))
    ELSE Loaded(st, Unknown)
load_touched(st, kind, o, w, bytes) ==
    IF Cell(o, w) \in st.cells[kind] THEN Loaded(st, Val(st, kind, Cell(o, w)))
    ELSE IF w \in {1, 2, 4, 8} /\ \A j \in 1 .. 8 : bytes[j] # Unknown THEN Loaded(st, bytes)
    ELSE load_cell(st, kind, o, w)
load_value(st, kind, o, w) == load_touched(touch(st, kind, o), kind, o, w, bytes_at(st, o, w))

\* A load of the type: bytes that are all numbers, or a whole pointer's cell.
load_pointer(st, o) ==
    IF Cell(o, 8) \in st.cells["types"] THEN Loaded(st, Val(st, "types", Cell(o, 8)))
    ELSE load_cell(st, "types", o, 8)
load_type(st, a, span) ==
    IF all_num(st, span) THEN Loaded(st, "num")
    ELSE IF a.lo # a.hi \/ ~ span \subseteq st.nonNum \/ a.width # 8 THEN Loaded(st, Unknown)
    ELSE load_pointer(touch(st, "types", a.lo), a.lo)

(***************************************************************************)
(* Stores.  What a store overwrites in part is split first, when it is an  *)
(* 8-byte number that is known; then every overlapping cell is killed.     *)
(***************************************************************************)
assign_split(loaded, sval, o, n) ==
    assign(assign(loaded.st, "svalues", Cell(o, n), sval), "uvalues", Cell(o, n), loaded.val)
split_loaded(loaded, kind, o, n) ==
    assign_split(Loaded(mk_cell(loaded.u.st, kind, o, n), loaded.u.val), loaded.s, o, n)
load_uvalue(s, o, n) == [u |-> load_value(s.st, "uvalues", o, n), s |-> s.val]
split_cell(st, kind, o, n) == split_loaded(load_uvalue(load_value(st, "svalues", o, n), o, n), kind, o, n)

split_part(st, kind, o, n) == IF n <= 0 THEN st ELSE split_cell(st, kind, o, n)
split_one(st, kind, a, c) ==
    IF ~ all_num(st, Bytes(c)) \/ c[2] < 8 \/ Val(st, kind, c) = Unknown THEN st
    ELSE split_part(split_part(st, kind, c[1], a.lo - c[1]), kind, a.lo + a.width, c[1] + c[2] - a.lo - a.width)

\* Cells in the order get_overlap_cells returns them: down from o, then up.
WalkOrder(o, S) ==
    SetToSortSeq(S, LAMBDA c, d :
        \/ c[1] <= o /\ d[1] > o
        \/ c[1] <= o /\ d[1] <= o /\ d[1] < c[1]
        \/ c[1] > o /\ c[1] < d[1]
        \/ c[1] = d[1] /\ c[2] < d[2])

split_number_var(st, kind, a) ==
    IF a.lo # a.hi THEN st
    ELSE FoldLeft(LAMBDA s, c : split_one(s, kind, a, c), touch(st, kind, a.lo),
                  WalkOrder(a.lo, get_overlap_cells(st, kind, a.lo, a.width)))

kill(st, kind, killed) ==
    [forget(st, (IF kind \in ValueKinds THEN ValueKinds ELSE {kind}) \X killed) EXCEPT !.cells[kind] = @ \ killed]
kill_and_find_var(st, kind, a) ==
    IF a.lo = a.hi THEN kill(touch(st, kind, a.lo), kind, get_overlap_cells(st, kind, a.lo, a.width))
    ELSE kill(st, kind, get_overlap_cells_symbolic_offset(st, kind, a))

split_and_find_var(st, kind, a) ==
    kill_and_find_var(IF kind \in ValueKinds THEN split_number_var(st, kind, a) ELSE st,
                      kind, a)

\* A strong update when the index is constant; nothing more when it is not.
update(st, kind, a, v) ==
    IF a.lo # a.hi THEN st ELSE assign(mk_cell(st, kind, a.lo, a.width), kind, Cell(a.lo, a.width), v)
store(st, kind, a, v) == update(split_and_find_var(st, kind, a), kind, a, v)

\* A mutant: a pointer's bytes stay marked as numbers.
MutMark(st, a, type) ==
    IF a.lo = a.hi /\ type = "num" THEN [st EXCEPT !.nonNum = @ \ (a.lo .. a.lo + a.width - 1)] ELSE st

mark(st, a, type) ==
    IF a.lo # a.hi THEN st
    ELSE IF type = "num" THEN [st EXCEPT !.nonNum = @ \ (a.lo .. a.lo + a.width - 1)]
    ELSE [st EXCEPT !.nonNum = @ \cup (a.lo .. a.lo + a.width - 1)]
store_type(st, a, type) == mark(store(st, "types", a, type), a, type)

havoc(st, kind, a) ==
    IF kind = "types" THEN mark(split_and_find_var(st, kind, a), a, Unknown) ELSE split_and_find_var(st, kind, a)

store_numbers(st, a) == mark(st, a, "num")

(***************************************************************************)
(* The transformer's uses of the stack.  The cells of the kinds that hold  *)
(* pointer offsets are handled as those of "types" are and left out.       *)
(***************************************************************************)
store_values(st, a, v) == store(store(st, "svalues", a, v), "uvalues", a, v)
havoc_values(st, a) == havoc(havoc(st, "svalues", a), "uvalues", a)
do_store_stack(st, a, type, v) ==
    IF a.width = 8 \/ type = "num" THEN store_values(store_type(st, a, type), a, v)
    ELSE havoc_values(store_type(st, a, type), a)

Answered(st, a, i, type, s, u) ==
    [st |-> st, ans |-> [at |-> i, width |-> a.width, type |-> type, svalue |-> s, uvalue |-> u]]
load_unsigned(u, a, i, type, s) == Answered(u.st, a, i, type, s, u.val)
load_signed(s, a, i, type) == load_unsigned(load_value(s.st, "uvalues", a.lo, a.width), a, i, type, s.val)
load_typed(t, a, i) ==
    IF a.lo # a.hi THEN Answered(t.st, a, i, t.val, Unknown, Unknown)
    ELSE load_signed(load_value(t.st, "svalues", a.lo, a.width), a, i, t.val)
do_load_stack(st, a, i) == load_typed(load_type(st, a, a.lo .. a.hi + a.width - 1), a, i)

call_writable_mem(st, a) == store_numbers(havoc_values(havoc(st, "types", a), a), a)

-----------------------------------------------------------------------------
State(p) == [cells |-> cells, keys |-> keys, scalar |-> scalar[p], nonNum |-> nonNum[p]]
Become(p, st) ==
    \E s \in {st} : /\ cells' = s.cells
                    /\ keys' = s.keys
                    /\ scalar' = [scalar EXCEPT ![p] = s.scalar]
                    /\ nonNum' = [nonNum EXCEPT ![p] = s.nonNum]

\* The thread's map is empty and nothing is known of a path's stack.
Init == /\ cells = [k \in Kinds |-> {}]
        /\ keys = [k \in Kinds |-> {}]
        /\ scalar = [p \in Paths |-> [x \in {} |-> Unknown]]
        /\ nonNum = [p \in Paths |-> Offset]
        /\ memory = [p \in Paths |-> [b \in Offset |-> 0]]
        /\ answer = [p \in Paths |-> Stack!NoAnswer]
        /\ steps = 0

Write(p, i, w, Content(_)) ==
    /\ memory' = [memory EXCEPT ![p] =
           [b \in Offset |-> IF b \in i .. i + w - 1 THEN Content(b - i + 1) ELSE @[b]]]
    /\ UNCHANGED answer

Fits(v, w) == \A j \in w + 1 .. 8 : v[j] = 0

\* *(base + off) = number, known to the analysis or not.
StoreNumber(p) ==
    \E a \in NumberAccesses, v \in Numbers, known \in BOOLEAN :
        /\ NarrowFits => Fits(v, a.width)
        /\ Become(p, do_store_stack(State(p), a, "num", IF known THEN v ELSE Unknown))
        /\ \E i \in a.lo .. a.hi : Write(p, i, a.width, LAMBDA j : v[j])

\* *(base + off) = pointer.
StorePointer(p) ==
    \E a \in PointerAccesses :
        /\ Become(p, do_store_stack(State(p), a, "ptr", Unknown))
        /\ \E i \in a.lo .. a.hi : Write(p, i, a.width, LAMBDA j : Ptr)

\* A helper fills a buffer with numbers.
HelperWrites(p) ==
    \E a \in HelperAccesses, b \in Filler :
        /\ Become(p, call_writable_mem(State(p), a))
        /\ \E i \in a.lo .. a.hi : Write(p, i, a.width, LAMBDA j : b)

\* dst = *(base + off).
Load(p) ==
    \E a \in NumberAccesses : \E i \in a.lo .. a.hi :
        \E r \in {do_load_stack(State(p), a, i)} :
            /\ Become(p, r.st)
            /\ answer' = [answer EXCEPT ![p] = r.ans]
            /\ UNCHANGED memory

\* A join or a widening loses what the other state does not know: the
\* scalar of a cell, or that its bytes are numbers.  The map is not touched.
Weaken(p) ==
    /\ \/ \E x \in DOMAIN scalar[p] :
             Become(p, forget(State(p), {x}))
       \/ \E c \in cells["types"] :
             /\ ~ Bytes(c) \subseteq nonNum[p]
             /\ Become(p, [State(p) EXCEPT !.nonNum = @ \cup Bytes(c)])
    /\ UNCHANGED <<memory, answer>>

Next == /\ steps < MaxSteps
        /\ steps' = steps + 1
        /\ \E p \in Paths :
               \/ StoreNumber(p) \/ StorePointer(p) \/ HelperWrites(p)
               \/ Load(p) \/ Weaken(p)

Spec == Init /\ [][Next]_vars
-----------------------------------------------------------------------------
(***************************************************************************)
(* Properties.                                                             *)
(***************************************************************************)
\* The class comment of cell_t (array_domain.cpp:88): the scalar of a cell is
\* the content of the bytes it stands for.  Every scalar an abstract state
\* knows, of a cell the offset map has, is what the program's stack holds.
CellsHoldTheirBytes ==
    \A p \in Paths : \A x \in DOMAIN scalar[p] :
        LET c == x[2]
            v == scalar[p][x]
        IN  c \in cells[x[1]] =>
                IF x[1] = "types" THEN \A b \in Bytes(c) : (v = "num") = (memory[p][b] # Ptr)
                ELSE v = Stack!BytesAt(memory[p], c[1], c[2])

\* A byte that the bitset says is a number is never part of a pointer the
\* program stored (bitset_domain.hpp, store_type, havoc, store_numbers).
NumericBytes ==
    \A p \in Paths : \A b \in Offset \ nonNum[p] : memory[p][b] # Ptr

\* Every load is answered with what the program reads, or not at all: the
\* abstract stack implements StackMemory.
LoadsAgree == Stack!Spec
=============================================================================
