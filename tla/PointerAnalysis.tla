---------------------------- MODULE PointerAnalysis ----------------------------
(***************************************************************************)
(* Pointers in registers: the types of type_domain.cpp, the assertions of  *)
(* assertions.cpp, their check in ebpf_checker.cpp and what                *)
(* ebpf_transformer.cpp does with pointers, against the programs they      *)
(* accept.                                                                 *)
(*                                                                         *)
(* The analysis follows a path: instruction by instruction, it checks the  *)
(* assertions of the instruction and, if they hold, transforms the         *)
(* abstract state.  Two paths may meet.  Beside the abstract state run the *)
(* executions of the program that take the path; an execution goes wrong   *)
(* when an accepted instruction reaches outside the memory it may use or   *)
(* lets a pointer out of the program.                                      *)
(*                                                                         *)
(* A register holds a value with a type, its bits, and for a pointer the   *)
(* offset into its region.  The registers a subprogram saves for its       *)
(* caller are kept beside them, one copy for each frame.  What the stack   *)
(* holds is left to StackCells: here it is only written to.                *)
(***************************************************************************)
EXTENDS NumericOps

CONSTANTS
    R0, R1, R6, R10,               \* return value, first argument, context of Packet, frame
    CallerSaved, CalleeSaved,      \* R1 .. R5, R6 .. R9
    MaxFrames,                     \* bound: how deep subprograms call each other
    FrameSize, StackSize,          \* EBPF_SUBPROGRAM_STACK_SIZE, EBPF_TOTAL_STACK_SIZE
    WordBytes,                     \* bytes of a 64-bit access; 1 and 2 are those of 8 and 16
    CtxSize,                       \* context_descriptor: size
    CtxData, CtxEnd, CtxMeta,      \* and where the packet's ends and its meta data are, -1 for no meta data
    PTR_MAX, PtrMin,               \* the highest address; 4098, the lowest of a packet and the most meta data
    MAX_PACKET_SIZE,
    MapDesc,                       \* of a map fd: [type, key_size, value_size, inner, address, value]
    Address,                       \* where "ctx" and "frame" are
    Entries,                       \* packets: [base, size, meta], meta the bytes before base, from -4098 to 0
    Numbers,                       \* what a program finds where nothing is known
    Prologues, Instructions,       \* how a path begins, and how it goes on
    Meeting,                       \* how a path begins that meets another
    MaxBody,                       \* bound: how many instructions after the prologue
    Allowed                        \* which steps of UnsoundSteps paths have

VARIABLES
    inv,       \* the abstract state
    runs,      \* the executions of the path: [regs, base, size, meta], the last three of the packet
    todo,      \* what is left of the prologue
    parked,    \* a path that waits at a join: a set of at most one [inv, runs]
    body,      \* instructions after the prologue
    depth,     \* frames the path is in
    faults     \* what went wrong in an execution

vars == <<inv, runs, todo, parked, body, depth, faults>>

T_UNINIT == -7
T_MAP_PROGRAMS == -6
T_MAP == -5
T_NUM == -4
T_CTX == -3
T_PACKET == -2
T_STACK == -1
T_SHARED == 0
Types == T_UNINIT .. T_SHARED

(***************************************************************************)
(* Variables of a register, and the type domain.                           *)
(***************************************************************************)
\* The copy of register r that frame f keeps.
Saved(f, r) == 100 * f + r
Holder == Reg \cup {Saved(f, r) : f \in 1 .. MaxFrames, r \in CalleeSaved}

OffsetKinds == {"ctx_offset", "map_fd", "packet_offset", "shared_offset", "stack_offset", "shared_region_size"}
Kinds == OffsetKinds \cup {"type", "svalue", "uvalue"}
packet_size == <<-1, "packet_size">>
meta_offset == <<-1, "meta_offset">>
AllVariables == (Holder \X Kinds) \cup {packet_size, meta_offset}
Type(r) == <<r, "type">>
RegionSize(r) == <<r, "shared_region_size">>

\* get_type_offset_variable, for a type that has one.
KindOf(t) == CASE t = T_CTX -> "ctx_offset"
               [] t \in {T_MAP, T_MAP_PROGRAMS} -> "map_fd"
               [] t = T_PACKET -> "packet_offset"
               [] t = T_SHARED -> "shared_offset"
               [] t = T_STACK -> "stack_offset"
HasOffset(t) == t \notin {T_UNINIT, T_NUM}
Offset(r, t) == <<r, KindOf(t)>>

get_type(st, r) == IF HasNumber(At(st, Type(r))) THEN At(st, Type(r)).lb.n ELSE T_UNINIT
has_type(st, r, t) == contains(At(st, Type(r)), t)
TypesOf(st, r) == {t \in Types : has_type(st, r, t)}
entails(st, c) == entail(st.z, c)
when(st, c) == [st EXCEPT !.z = add_constraint(@, c)]
IsType(r, t) == Eq(V(Type(r)), N(t))
IsPointer(r) == Le(N(T_CTX), V(Type(r)))
same_type(st, a, b) == entails(st, Eq(V(Type(a)), V(Type(b))))
implies_type(st, a, b) == entails(when(st, a), b)
GroupConstraints(r, group) ==
    CASE group = "number" -> {IsType(r, T_NUM)}
      [] group = "map_fd" -> {IsType(r, T_MAP)}
      [] group = "ctx" -> {IsType(r, T_CTX)}
      [] group = "pointer" -> {IsPointer(r)}
      [] group = "ptr_or_num" -> {Le(N(T_NUM), V(Type(r)))}
      [] group = "mem" -> {Le(N(T_PACKET), V(Type(r)))}
      [] group = "mem_or_num" -> {Le(N(T_NUM), V(Type(r))), Con("#", V(Type(r)), N(T_CTX))}
      [] group = "singleton_ptr" -> {IsPointer(r), Le(V(Type(r)), N(T_STACK))}
entails_all(st, cs) == \A c \in cs : entails(st, c)
is_in_group(st, r, groups) == \E group \in groups : entails_all(st, GroupConstraints(r, group))

Forget(st, X) == IF st.z.bottom THEN st ELSE [st EXCEPT !.z = Zone(ForgetVertices(@.g, X))]
havoc_offsets(st, r) == Forget(st, {r} \X OffsetKinds)
HavocValue(st, r) == havoc_offsets(havoc_register(st, r), r)
HavocAll(st, r) == Forget(st, {r} \X Kinds)
NoTerms == [x \in Var |-> 0]
assign_type(st, r, t) == Let(st, Type(r), NoTerms, t)
Copy(st, x, y) == Let(st, x, Term(y), 0)

\* A variable that only a type of one side gives meaning to keeps its value;
\* of two types with the same variable the first decides.
TypesWith == [ctx_offset |-> <<T_CTX>>, map_fd |-> <<T_MAP, T_MAP_PROGRAMS>>, packet_offset |-> <<T_PACKET>>,
              shared_offset |-> <<T_SHARED>>, stack_offset |-> <<T_STACK>>, shared_region_size |-> <<T_SHARED>>]
selectively_join_based_on_type(dst, src) ==
    LET OneSided(r, t) == has_type(dst, r, t) # has_type(src, r, t)
        Deciding(x) == SelectSeq(TypesWith[x[2]], LAMBDA t : OneSided(x[1], t))
        extra == {x \in Holder \X OffsetKinds : Deciding(x) # <<>>}
        Kept(x) == At(IF has_type(dst, x[1], Deciding(x)[1]) THEN dst ELSE src, x)
        joined == [z |-> join(dst.z, src.z), error |-> dst.error \/ src.error]
    IN  IF dst.z.bottom THEN [src EXCEPT !.error = @ \/ dst.error]
        ELSE FoldSet(LAMBDA x, st : Learn(st, x, Kept(x)), joined, extra)

Bottom == [z |-> BottomZone, error |-> FALSE]
join_over_types(st, r, Transition(_, _)) ==
    FoldLeft(LAMBDA res, t : selectively_join_based_on_type(res, Transition(st, t)), Bottom,
             IF is_top(At(st, Type(r))) THEN <<T_UNINIT>> ELSE SetToSortSeq(TypesOf(st, r), <))

(***************************************************************************)
(* Instructions.  An operand is a register or a number.                    *)
(***************************************************************************)
Imm(n) == [reg |-> FALSE, n |-> n]
RegArg(r) == [reg |-> TRUE, r |-> r]
Load(r, base, off, width) == [kind |-> "Mem", load |-> TRUE, base |-> base, off |-> off, width |-> width, val |-> RegArg(r)]
Store(base, off, width, val) == [kind |-> "Mem", load |-> FALSE, base |-> base, off |-> off, width |-> width, val |-> val]
Atomic(op, base, off, width, r, fetch) ==
    [kind |-> "Atomic", op |-> op, base |-> base, off |-> off, width |-> width, val |-> RegArg(r), fetch |-> fetch]
BinOp(op, r, arg, is64) == [kind |-> "Bin", op |-> op, dst |-> r, arg |-> arg, is64 |-> is64]
Assume(op, r, arg) == [kind |-> "Assume", op |-> op, dst |-> r, arg |-> arg, is64 |-> TRUE]
LoadMapFd(r, fd) == [kind |-> "LoadMapFd", dst |-> r, fd |-> fd]
Call(singles, pairs, lookup, realloc) ==
    [kind |-> "Call", singles |-> singles, pairs |-> pairs, is_map_lookup |-> lookup, reallocate_packet |-> realloc]
Packet == [kind |-> "Packet"]
CallLocal(f) == [kind |-> "CallLocal", frame |-> f]      \* into frame f
Exit(f) == [kind |-> "Exit", frame |-> f]                \* from frame f, 0 for the program's own

(***************************************************************************)
(* Assertions.                                                             *)
(***************************************************************************)
TypeConstraint(r, group) == [a |-> "TypeConstraint", r |-> r, group |-> group]
Addable(ptr, num) == [a |-> "Addable", ptr |-> ptr, num |-> num]
Comparable(r1, r2) == [a |-> "Comparable", r1 |-> r1, r2 |-> r2]
ValidStore(mem, val) == [a |-> "ValidStore", mem |-> mem, val |-> val]
ZeroCtxOffset(r) == [a |-> "ZeroCtxOffset", r |-> r]
ValidMapKeyValue(r, fd, key) == [a |-> "ValidMapKeyValue", r |-> r, fd |-> fd, key |-> key]
ValidSize(r, zero) == [a |-> "ValidSize", r |-> r, zero |-> zero]
ValidAccess(r, off, width, or_null) == [a |-> "ValidAccess", r |-> r, off |-> off, width |-> width, or_null |-> or_null]
Accessed(r) == ValidAccess(r, 0, Imm(0), FALSE)
zero_offset_ctx(r) == {TypeConstraint(r, "ctx"), ZeroCtxOffset(r)}

MapFdReg(i) == (CHOOSE p \in i.singles : p.kind = "MAP_FD").reg
OfSingle(i, p) ==
    CASE p.kind = "ANYTHING" -> {TypeConstraint(p.reg, "number")}
      [] p.kind = "MAP_FD" -> {TypeConstraint(p.reg, "map_fd")}
      [] p.kind \in {"PTR_TO_MAP_KEY", "PTR_TO_MAP_VALUE"} ->
             {TypeConstraint(p.reg, "mem"), ValidMapKeyValue(p.reg, MapFdReg(i), p.kind = "PTR_TO_MAP_KEY")}
      [] p.kind = "PTR_TO_CTX" -> zero_offset_ctx(p.reg)
OfPair(p) == {TypeConstraint(p.size, "number"), ValidSize(p.size, p.can_be_zero),
              TypeConstraint(p.mem, IF p.or_null THEN "mem_or_num" ELSE "mem"),
              ValidAccess(p.mem, 0, RegArg(p.size), p.or_null)}

\* A jump's condition; the program is not privileged.
explicate(i) ==
    LET pointers == i.is64 /\ i.op \in {"EQ", "NE", "SET", "NSET", "LT", "LE", "GT", "GE"}
    IN  IF i.arg.reg
        THEN {Accessed(i.dst), Accessed(i.arg.r), Comparable(i.dst, i.arg.r)}
                 \cup {TypeConstraint(i.dst, "ptr_or_num") : o \in {i.op} \ {"EQ", "NE"}}
        ELSE IF i.arg.n # 0 THEN {TypeConstraint(i.dst, "number")}
        ELSE {Accessed(i.dst)} \cup (IF pointers THEN {} ELSE {TypeConstraint(i.dst, "number")})

OfMem(i) ==
    LET access == ValidAccess(i.base, i.off, Imm(i.width), FALSE)
    IN  IF i.base = R10
        THEN IF i.off < -FrameSize \/ i.off + i.width > 0 THEN {access} ELSE {}
        ELSE {TypeConstraint(i.base, "pointer"), access}
                 \cup IF i.load \/ ~ i.val.reg THEN {}
                      ELSE IF i.width # WordBytes THEN {TypeConstraint(i.val.r, "number")}
                      ELSE {ValidStore(i.base, i.val.r)}

OfBin(i) ==
    LET dst == TypeConstraint(i.dst, "ptr_or_num")
    IN  CASE i.op = "MOV" -> IF i.arg.reg /\ ~ i.is64 THEN {TypeConstraint(i.arg.r, "number")} ELSE {}
          [] i.op = "ADD" -> IF ~ i.arg.reg THEN {dst}
                             ELSE {dst, TypeConstraint(i.arg.r, "ptr_or_num"),
                                   Addable(i.arg.r, i.dst), Addable(i.dst, i.arg.r)}
          [] i.op = "SUB" -> IF i.arg.reg THEN {dst, Comparable(i.dst, i.arg.r)} ELSE {dst}

get_assertions(i) ==
    CASE i.kind = "Mem" -> OfMem(i)
      [] i.kind = "Atomic" -> {TypeConstraint(i.val.r, "number"), TypeConstraint(i.base, "pointer"),
                               ValidAccess(i.base, i.off, Imm(i.width), FALSE)}
      [] i.kind = "Bin" -> OfBin(i)
      [] i.kind = "Assume" -> explicate(i)
      [] i.kind \in {"LoadMapFd", "CallLocal"} -> {}
      [] i.kind = "Call" -> UNION ({OfSingle(i, p) : p \in i.singles} \cup {OfPair(p) : p \in i.pairs})
      [] i.kind = "Packet" -> zero_offset_ctx(R6)
      [] i.kind = "Exit" -> IF i.frame = 0 THEN {TypeConstraint(R0, "number")} ELSE {}

(***************************************************************************)
(* The checker.                                                            *)
(***************************************************************************)
Plus1(x, k) == [x |-> x, n |-> k]                        \* the operand x + k
Positive(r) == Con("<", N(0), V(S(r)))
check_access_stack(r10, x, lb, ub) ==
    {Le(Plus1(x, ub), N(StackSize))}
        \cup IF HasNumber(r10) THEN {Le(N(r10.lb.n - FrameSize), Plus1(x, lb))} ELSE {}
check_access_context(x, lb, ub) == {Le(N(0), Plus1(x, lb)), Le(Plus1(x, ub), N(CtxSize))}

\* Mutant of check_access_packet: the end of the packet is not looked at.
MutAccessPacket(x, lb, ub, limit) == {Le(V(meta_offset), Plus1(x, lb))}

check_access_packet(x, lb, ub, limit) == {Le(V(meta_offset), Plus1(x, lb)), Le(Plus1(x, ub), limit)}
check_access_shared(x, lb, ub, limit) == {Le(N(0), Plus1(x, lb)), Le(Plus1(x, ub), V(limit))}

\* A size in a register is a known number here.
WidthIn(st, w) == IF w.reg THEN At(st, S(w.r)).lb.n ELSE w.n

\* What must hold of an access through a.r if it has type t.
AccessNeeds(st, a, t, ub) ==
    LET x == Offset(a.r, t)
        compared == a.width = Imm(0)
    IN  CASE t = T_PACKET -> check_access_packet(x, a.off, ub, IF compared THEN N(MAX_PACKET_SIZE) ELSE V(packet_size))
          [] t = T_STACK -> check_access_stack(At(st, Offset(R10, T_STACK)), x, a.off, ub)
          [] t = T_CTX -> check_access_context(x, a.off, ub)
          [] t = T_SHARED -> check_access_shared(x, a.off, ub, RegionSize(a.r))
                                 \cup IF compared \/ a.or_null THEN {} ELSE {Positive(a.r)}
          [] t = T_NUM -> IF compared THEN {} ELSE IF a.or_null THEN {Eq(V(S(a.r)), N(0))} ELSE {false_const}
          [] t \in {T_MAP, T_MAP_PROGRAMS} -> IF compared THEN {} ELSE {false_const}
          [] t = T_UNINIT -> {false_const}
ValidAccessNeeds(st, a) ==
    UNION {AccessNeeds(st, a, t, a.off + WidthIn(st, a.width)) : t \in TypesOf(st, a.r)}

\* Maps of a range of fds.
FdRange(st, r) == LET i == At(st, <<r, "map_fd">>) IN IF HasFiniteSize(i) THEN i.lb.n .. i.ub.n ELSE {}
MapsOf(st, r) == {MapDesc[fd] : fd \in FdRange(st, r)}
HullOf(ns) == IF ns = {} THEN TopI ELSE Between(Min(ns), Max(ns))
get_map_key_size(st, r) == HullOf({m.key_size : m \in MapsOf(st, r)})
get_map_value_size(st, r) == HullOf({m.value_size : m \in MapsOf(st, r)})
OneMapType(st, r) == Cardinality({m.type : m \in MapsOf(st, r)}) = 1
get_map_type(st, r) == (CHOOSE m \in MapsOf(st, r) : TRUE).type
get_map_inner_map_fd(st, r) == (CHOOSE m \in MapsOf(st, r) : TRUE).inner

MapKeyValueNeeds(st, a, bytes) ==
    IF ~ HasNumber(bytes) THEN {false_const}
    ELSE UNION {CASE t = T_PACKET -> check_access_packet(Offset(a.r, t), 0, bytes.lb.n, N(MAX_PACKET_SIZE))
                  [] t = T_SHARED -> check_access_shared(Offset(a.r, t), 0, bytes.lb.n, RegionSize(a.r)) \cup {Positive(a.r)}
                  [] OTHER -> {false_const} : t \in TypesOf(st, a.r)}

CheckComparable(st, r1, r2) ==
    IF ~ same_type(st, r1, r2) THEN entails(st, IsType(r2, T_NUM))
    ELSE /\ is_in_group(when(st, Con("#", V(Type(r2)), N(T_NUM))), r1, {"singleton_ptr", "map_fd"})
         /\ entails_all(st, ValidAccessNeeds(st, Accessed(r1)) \cup ValidAccessNeeds(st, Accessed(r2)))

Needs(st, a) ==
    CASE a.a = "TypeConstraint" -> GroupConstraints(a.r, a.group)
      [] a.a = "ZeroCtxOffset" -> {Eq(V(Offset(a.r, T_CTX)), N(0))}
      [] a.a = "ValidMapKeyValue" ->
             MapKeyValueNeeds(st, a, IF a.key THEN get_map_key_size(st, a.fd) ELSE get_map_value_size(st, a.fd))
      [] a.a = "ValidSize" -> {IF a.zero THEN Le(N(0), V(S(a.r))) ELSE Positive(a.r)}
      [] a.a = "ValidAccess" -> ValidAccessNeeds(st, a)
ebpf_domain_check(st, a) ==
    CASE a.a = "Addable" -> implies_type(st, IsPointer(a.ptr), IsType(a.num, T_NUM))
      [] a.a = "ValidStore" -> implies_type(st, Con("#", V(Type(a.mem)), N(T_STACK)), IsType(a.val, T_NUM))
      [] a.a = "Comparable" -> CheckComparable(st, a.r1, a.r2)
      [] OTHER -> entails_all(st, Needs(st, a))

Accepted(st, i) == {} = {a \in get_assertions(i) : ~ ebpf_domain_check(st, a)}

(***************************************************************************)
(* The transformer.                                                        *)
(***************************************************************************)
WithMeta(st) ==
    IF CtxMeta < 0 THEN Let(st, meta_offset, NoTerms, 0)
    ELSE AddAll(st, <<Le(V(meta_offset), N(0)), Le(N(-PtrMin), V(meta_offset))>>)
initialize_packet(st) ==
    WithMeta(AddAll(Forget(st, {packet_size, meta_offset}),
                    <<Le(N(0), V(packet_size)), Con("<", V(packet_size), N(MAX_PACKET_SIZE))>>))

setup_entry ==
    LET Pointer(st, r, t, off, least) ==
            assign_type(Let(AddAll(st, <<Le(N(least), V(S(r))), Le(V(S(r)), N(PTR_MAX))>>), Offset(r, t), NoTerms, off), r, t)
    IN  initialize_packet(Pointer(Pointer(TopState, R10, T_STACK, StackSize, StackSize), R1, T_CTX, 0, 1))

\* Mutant of assign_valid_ptr: what the register held is not forgotten.
MutValidPtr(st, r, maybe_null) ==
    Copy(AddAll(st, <<IF maybe_null THEN Le(N(0), V(S(r))) ELSE Positive(r), Le(V(S(r)), N(PTR_MAX))>>), U(r), S(r))

assign_valid_ptr(st, r, maybe_null) ==
    Copy(AddAll(havoc_register(st, r), <<IF maybe_null THEN Le(N(0), V(S(r))) ELSE Positive(r), Le(V(S(r)), N(PTR_MAX))>>),
         U(r), S(r))

MapPointerType(fd) == IF MapDesc[fd].type = "programs" THEN T_MAP_PROGRAMS ELSE T_MAP
do_load_mapfd(st, r, fd, maybe_null) ==
    assign_valid_ptr(Let(assign_type(st, r, MapPointerType(fd)), <<r, "map_fd">>, NoTerms, fd), r, maybe_null)

\* Arithmetic.
MoveOffset(st, op, r, t, y, z) == IF HasOffset(t) THEN apply(st, op, Offset(r, t), y, z, 0) ELSE st
CopyRegion(st, r, q, t) == IF t = T_SHARED THEN Copy(st, RegionSize(r), RegionSize(q)) ELSE st

AddTo(st, r, t, n, w) == MoveOffset(add_overflow(st, r, N(n), w), "ADD", r, t, Offset(r, t), N(n))
AddImm(st, r, n, w) == AddTo(st, r, get_type(st, r), n, w)

BinImm(st, op, r, n, w) ==
    CASE op = "MOV" ->
             havoc_offsets(assign_type(overflow_bounds(Let(Let(st, S(r), NoTerms, n), U(r), NoTerms, n), U(r), w, FALSE),
                                       r, T_NUM), r)
      [] op \in {"ADD", "SUB"} -> AddImm(st, r, IF op = "ADD" THEN n ELSE -n, w)

\* A sum of a pointer and a number: the offset moves, then the value.
AddTypes(st, r, q, td, ts, w) ==
    IF td = T_NUM /\ ts = T_NUM THEN apply_signed(st, "ADD", r, S(r), V(S(q)), w)
    ELSE IF td = T_NUM
    THEN CopyRegion(MoveOffset(assign_type(st, r, ts), "ADD", r, ts, S(r), V(Offset(q, ts))), r, q, ts)
    ELSE IF ts = T_NUM
    THEN MoveOffset(assign_type(st, r, td), "ADD", r, td, Offset(r, td), V(S(q)))
    ELSE Bottom
AddReg(st, r, q, w) ==
    IF same_type(st, r, q) THEN add_overflow(st, r, V(S(q)), w)
    ELSE apply_signed(join_over_types(st, r, LAMBDA s, td : join_over_types(s, q, LAMBDA s1, ts : AddTypes(s1, r, q, td, ts, w))),
                      "ADD", r, S(r), V(S(q)), w)

Difference(st, r, q, t, w) ==
    IF t = T_NUM THEN apply_signed(st, "SUB", r, S(r), V(S(q)), w)
    ELSE IF HasOffset(t) THEN apply_signed(st, "SUB", r, Offset(r, t), V(Offset(q, t)), w)
    ELSE st
sub_overflow(st, r, z, w) == apply_signed(st, "SUB", r, IF is_top(At(st, S(r))) THEN U(r) ELSE S(r), z, w)
SubReg(st, r, q, w) ==
    IF same_type(st, r, q)
    THEN join_over_types(st, r, LAMBDA s, t : assign_type(havoc_offsets(Difference(s, r, q, t, w), r), r, T_NUM))
    ELSE IF get_type(st, q) # T_NUM THEN HavocAll(st, r)
    ELSE MoveOffset(sub_overflow(st, r, V(S(q)), w), "SUB",
                    r, get_type(st, r), Offset(r, get_type(st, r)), V(S(q)))

MovTypes(st, r, q, t, is64) ==
    IF ~ HasOffset(t) THEN assign_type(st, r, t)
    ELSE IF ~ is64 THEN st
    ELSE CopyRegion(Copy(assign_type(st, r, t), Offset(r, t), Offset(q, t)), r, q, t)
MovType(st, r, q, is64) ==
    IF ~ is64 THEN st
    ELSE Copy(IF r # q \/ get_type(st, r) = T_UNINIT THEN havoc(st, Type(r)) ELSE st, Type(r), Type(q))
MovReg(st, r, q, is64) ==
    MovType(join_over_types(havoc_offsets(Copy(Copy(st, S(r), S(q)), U(r), U(q)), r), q,
                            LAMBDA s, t : MovTypes(s, r, q, t, is64)), r, q, is64)

\* A 32-bit operation leaves the lower half; one with an immediate also begins
\* there, and forgets what is no number.
LowerHalf(st, i) == IF i.is64 THEN st ELSE bitwise_and32(st, i.dst)
NumberOnly(st, i) ==
    IF i.is64 \/ has_type(st, i.dst, T_NUM) THEN st ELSE HavocAll(st, i.dst)
BinResult(st, i) ==
    IF ~ i.arg.reg THEN BinImm(st, i.op, i.dst, i.arg.n, Bits(i.is64))
    ELSE CASE i.op = "ADD" -> AddReg(st, i.dst, i.arg.r, Bits(i.is64))
           [] i.op = "SUB" -> SubReg(st, i.dst, i.arg.r, Bits(i.is64))
           [] i.op = "MOV" -> MovReg(st, i.dst, i.arg.r, i.is64)
BinImmOf(st, i) ==
    IF i.op \in {"ADD", "SUB"} /\ i.arg.n = 0 THEN st ELSE LowerHalf(BinResult(st, i), i)
Bin(st, i) ==
    IF ~ i.arg.reg THEN BinImmOf(NumberOnly(LowerHalf(st, i), i), i)
    ELSE IF i.op = "MOV" /\ i.arg.r = i.dst /\ Within(At(st, U(i.dst)), unsigned_int(Bits(i.is64)))
    THEN st
    ELSE LowerHalf(BinResult(st, i), i)

assume_cst_offsets_reg(op, x, y) ==
    CASE op \in {"EQ", "NE"} -> Con(IF op = "EQ" THEN "=" ELSE "#", V(x), V(y))
      [] op \in {"GE", "SGE", "GT", "SGT"} -> Greater(op \in {"GT", "SGT"}, V(x), V(y))
      [] op \in {"LE", "SLE", "LT", "SLT"} -> Less(op \in {"LT", "SLT"}, V(x), V(y))
      [] op \in BitOps -> true_const

AssumeOfType(st, s, i, t) ==
    IF t = T_NUM THEN AddAll(s, assume_cst_reg(st, i.op, i.is64, i.dst, i.arg.r))
    ELSE IF HasOffset(t) THEN when(s, assume_cst_offsets_reg(i.op, Offset(i.dst, t), Offset(i.arg.r, t)))
    ELSE s
AssumeCond(st, i) ==
    IF ~ i.arg.reg THEN AddAll(st, assume_cst_imm(st, i.op, i.is64, i.dst, i.arg.n))
    ELSE IF same_type(st, i.dst, i.arg.r) THEN join_over_types(st, i.dst, LAMBDA s, t : AssumeOfType(st, s, i, t))
    ELSE TopState

\* Memory.  The context holds the ends of the packet in offset_width bytes each.
offset_width == CtxEnd - CtxData
PacketField(st, x, field) ==
    CASE field = CtxData -> Let(st, x, NoTerms, 0)
      [] field = CtxEnd -> Copy(st, x, packet_size)
      [] field = CtxMeta -> Copy(st, x, meta_offset)
PacketPointer(st, r, field) ==
    AddAll(assign_type(PacketField(st, Offset(r, T_PACKET), field), r, T_PACKET),
           <<Le(N(PtrMin), V(S(r))), Le(V(S(r)), N(PTR_MAX))>>)
CtxField(st, r, addr, width) ==
    LET touched == {field \in {CtxData, CtxEnd, CtxMeta} : contains(addr, field)}
    IN  IF touched = {} THEN assign_type(st, r, T_NUM)
        ELSE IF ~ HasNumber(addr) THEN havoc(st, Type(r))
        ELSE IF width # offset_width THEN st
        ELSE PacketPointer(st, r, addr.lb.n)
do_load_ctx(st, r, addr, width) == CtxField(HavocValue(st, r), r, addr, width)

FullRange(st, r, w) == Learn(Learn(st, S(r), unsigned_int(w)), U(r), unsigned_int(w))
LoadedNumber(st, r, width) == IF width > 2 THEN st ELSE FullRange(st, r, IF width = 1 THEN W8 ELSE W16)
do_load_packet_or_shared(st, r, width) == LoadedNumber(HavocValue(assign_type(st, r, T_NUM), r), r, width)

LoadOfType(st, i, t) ==
    CASE t \in {T_UNINIT, T_MAP, T_MAP_PROGRAMS, T_NUM} -> st
      [] t = T_CTX -> do_load_ctx(st, i.val.r, SumI(At(st, Offset(i.base, T_CTX)), Exactly(i.off)), i.width)
      [] t \in {T_PACKET, T_SHARED} -> do_load_packet_or_shared(st, i.val.r, i.width)
do_load(st, i) == join_over_types(st, i.base, LAMBDA s, t : LoadOfType(s, i, t))

\* Registers keep what is known of them when the stack changes.
do_mem_store(st, i) == IF i.base = R10 THEN st ELSE join_over_types(st, i.base, LAMBDA s, t : s)

\* Memory other than the stack is volatile: what the instruction reads from it
\* may be any number.  What it does to the stack is left to StackCells.
AtomicOp(st, i) ==
    IF ~ entails_all(st, {IsPointer(i.base), IsType(i.val.r, T_NUM), Con("#", V(Type(i.base)), N(T_STACK))}) THEN st
    ELSE IF i.op = "CMPXCHG" THEN HavocValue(st, R0)
    ELSE IF i.fetch THEN HavocValue(st, i.val.r)
    ELSE st

\* Helper calls.
scratch_caller_saved_registers(st) == Forget(st, CallerSaved \X Kinds)
\* Mutant of forget_packet_pointers: those a frame has saved are left.
MutForgetPackets(st) ==
    LET pointing == {r \in Reg : has_type(st, r, T_PACKET)}
    IN  initialize_packet(Forget(st, pointing \X {"type", "packet_offset", "svalue", "uvalue"}))

\* Packet pointers that a frame has saved are forgotten too.
forget_packet_pointers(st) ==
    LET pointing == {r \in Holder : has_type(st, r, T_PACKET)}
    IN  initialize_packet(Forget(st, pointing \X {"type", "packet_offset", "svalue", "uvalue"}))

SharedPointer(st) == assign_type(Let(assign_valid_ptr(st, R0, TRUE), Offset(R0, T_SHARED), NoTerms, 0), R0, T_SHARED)
MapLookup(st, fd_reg) ==
    IF OneMapType(st, fd_reg) /\ get_map_type(st, fd_reg) = "outer" /\ Cardinality(FdRange(st, fd_reg)) = 1
    THEN do_load_mapfd(st, R0, get_map_inner_map_fd(st, fd_reg), TRUE)
    ELSE IF OneMapType(st, fd_reg) /\ get_map_type(st, fd_reg) # "outer"
    THEN SharedPointer(Learn(SharedPointer(st), RegionSize(R0), get_map_value_size(st, fd_reg)))
    ELSE SharedPointer(st)

AfterCall(st, i) ==
    IF i.reallocate_packet THEN forget_packet_pointers(scratch_caller_saved_registers(st))
    ELSE scratch_caller_saved_registers(st)
HelperCall(st, i) ==
    AfterCall(IF i.is_map_lookup THEN MapLookup(st, MapFdReg(i)) ELSE assign_type(HavocValue(st, R0), R0, T_NUM), i)

\* Subprograms.  What is not known of a register is not saved.
save_callee_saved_registers(st, f) ==
    FoldSet(LAMBDA x, s : IF is_top(At(s, x)) THEN s ELSE Copy(s, <<Saved(f, x[1]), x[2]>>, x), st, CalleeSaved \X Kinds)
Restored(st, x, y) == Forget(IF is_top(At(st, y)) THEN Forget(st, {x}) ELSE Copy(st, x, y), {y})
restore_callee_saved_registers(st, f) ==
    FoldSet(LAMBDA x, s : Restored(s, x, <<Saved(f, x[1]), x[2]>>), st, CalleeSaved \X Kinds)
EnterFrame(st, f) == AddImm(save_callee_saved_registers(st, f), R10, -FrameSize, W64)
LeaveFrame(st, f) == IF f = 0 THEN st ELSE AddImm(restore_callee_saved_registers(st, f), R10, FrameSize, W64)

transform(st, i) ==
    CASE i.kind = "Bin" -> Bin(st, i)
      [] i.kind = "Assume" -> AssumeCond(st, i)
      [] i.kind = "Mem" -> IF i.load THEN do_load(st, i) ELSE do_mem_store(st, i)
      [] i.kind = "Atomic" -> AtomicOp(st, i)
      [] i.kind = "LoadMapFd" -> do_load_mapfd(st, i.dst, i.fd, FALSE)
      [] i.kind = "Call" -> HelperCall(st, i)
      [] i.kind = "Packet" -> scratch_caller_saved_registers(HavocValue(assign_type(st, R0, T_NUM), R0))
      [] i.kind = "CallLocal" -> EnterFrame(st, i.frame)
      [] i.kind = "Exit" -> LeaveFrame(st, i.frame)

(***************************************************************************)
(* The program: values have a type, the bits and, for a pointer, an offset *)
(* (of a map: its fd) and the size of the region, -1 for a null pointer.   *)
(***************************************************************************)
Value(t, n, off, bytes) == [t |-> t, n |-> Unsigned(n), off |-> off, size |-> bytes]
Num(n) == Value(T_NUM, n, 0, 0)
Junk == Value(T_UNINIT, 0, 0, 0)
IsPtr(v) == v.t \notin {T_NUM, T_UNINIT}
IsNull(v) == v.size < 0
Moved(v, k) == [v EXCEPT !.n = Unsigned(@ + k), !.off = @ + k]
Operand2(e, a) == IF a.reg THEN e.regs[a.r] ELSE Num(a.n)

\* A pointer whose bits do not fit is none any more.
Cut(v, is64) == IF is64 \/ v.n < 2^W32 THEN v ELSE IF v.t = T_NUM THEN Num(v.n % 2^W32) ELSE Junk
Result2(op, a, b) ==
    CASE op = "MOV" -> b
      [] op = "ADD" -> IF IsPtr(b) THEN IF IsPtr(a) THEN Junk ELSE Moved(b, Signed(a.n))
                       ELSE IF IsPtr(a) THEN Moved(a, Signed(b.n)) ELSE Num(a.n + b.n)
      [] op = "SUB" -> IF IsPtr(a) /\ ~ IsPtr(b) THEN Moved(a, -Signed(b.n)) ELSE Num(a.n - b.n)

\* What a load finds: the pointers of the context, or a number.
NumbersOf(width) == {Num(n) : n \in IF width = 1 THEN {k \in Numbers : k \in 0 .. 2^W8 - 1}
                                    ELSE IF width = 2 THEN {k \in Numbers : k \in 0 .. 2^W16 - 1} ELSE Numbers}
Loaded(e, i) ==
    LET v == e.regs[i.base]
        at == v.off + i.off
        Overlaps(field) == at < field + offset_width /\ field < at + i.width
    IN  IF v.t # T_CTX THEN NumbersOf(i.width)
        ELSE IF at = CtxData /\ i.width = offset_width THEN {Value(T_PACKET, e.base, 0, 0)}
        ELSE IF at = CtxEnd /\ i.width = offset_width THEN {Value(T_PACKET, e.base + e.size, e.size, 0)}
        ELSE IF at = CtxMeta /\ i.width = offset_width THEN {Value(T_PACKET, e.base + e.meta, e.meta, 0)}
        ELSE IF \E field \in {CtxData, CtxEnd, CtxMeta} \ {-1} : Overlaps(field) THEN {Junk}
        ELSE NumbersOf(i.width)

Found(e, i) ==
    LET fd == e.regs[MapFdReg(i)].off
        m == MapDesc[fd]
    IN  IF m.type = "outer"
        THEN {Value(MapPointerType(m.inner), m.value, m.inner, 0), Value(MapPointerType(m.inner), 0, m.inner, -1)}
        ELSE {Value(T_SHARED, m.value, 0, m.value_size), Value(T_SHARED, 0, 0, -1)}
MapValue(fd) == Value(MapPointerType(fd), MapDesc[fd].address, fd, 0)

Scratched(regs, v0) == [r \in Holder |-> IF r = R0 THEN v0 ELSE IF r \in CallerSaved THEN Junk ELSE regs[r]]
Execution(regs, p) == [regs |-> regs, base |-> p.base, size |-> p.size, meta |-> p.meta]
Reallocated(e, p) == Execution([r \in Holder |-> IF e.regs[r].t = T_PACKET THEN Junk ELSE e.regs[r]], p)

\* A frame below the caller's, with the caller's registers put away.
Entered(e, f) ==
    [r \in Holder |-> IF r \in {Saved(f, q) : q \in CalleeSaved} THEN e.regs[r - 100 * f]
                      ELSE IF r = R10 THEN Moved(e.regs[r], -FrameSize) ELSE e.regs[r]]
Left(e, f) ==
    [r \in Holder |-> IF r \in CalleeSaved THEN e.regs[Saved(f, r)]
                      ELSE IF r \in {Saved(f, q) : q \in CalleeSaved} THEN Junk
                      ELSE IF r = R10 THEN Moved(e.regs[r], FrameSize) ELSE e.regs[r]]

Execute(e, i) ==
    LET Set(r, v) == [e EXCEPT !.regs[r] = v]
        Called(v) == [e EXCEPT !.regs = Scratched(e.regs, v)]
        Same == Compare(i.op, e.regs[i.dst].n, Operand2(e, i.arg).n, W64)
    IN  CASE i.kind = "Bin" -> {Set(i.dst, Cut(Result2(i.op, e.regs[i.dst], Operand2(e, i.arg)), i.is64))}
          [] i.kind = "Assume" -> IF Same THEN {e} ELSE {}
          [] i.kind = "Mem" -> IF i.load THEN {Set(i.val.r, v) : v \in Loaded(e, i)} ELSE {e}
          [] i.kind = "Atomic" -> {IF i.op = "CMPXCHG" THEN Set(R0, v) ELSE IF i.fetch THEN Set(i.val.r, v) ELSE e : v \in NumbersOf(i.width)}
          [] i.kind = "LoadMapFd" -> {Set(i.dst, MapValue(i.fd))}
          [] i.kind = "Call" ->
                 LET after == {Called(v) : v \in IF i.is_map_lookup THEN Found(e, i) ELSE NumbersOf(WordBytes)}
                 IN  IF i.reallocate_packet THEN {Reallocated(f, p) : f \in after, p \in Entries} ELSE after
          [] i.kind = "Packet" -> {Called(v) : v \in NumbersOf(WordBytes)}
          [] i.kind = "CallLocal" -> {[e EXCEPT !.regs = Entered(e, i.frame)]}
          [] i.kind = "Exit" -> IF i.frame = 0 THEN {e} ELSE {[e EXCEPT !.regs = Left(e, i.frame)]}

\* Whether the bytes off .. off + width - 1 beyond v are those of its region.
InRegion(e, v, off, width) ==
    LET Between2(lo, hi) == lo <= v.off + off /\ v.off + off + width <= hi
    IN  CASE v.t = T_CTX -> Between2(0, CtxSize)
          [] v.t = T_PACKET -> Between2(e.meta, e.size)
          [] v.t = T_STACK -> Between2(e.regs[R10].off - FrameSize, StackSize)
          [] v.t = T_SHARED -> ~ IsNull(v) /\ Between2(0, v.size)
          [] OTHER -> FALSE

\* What goes wrong when an execution takes the instruction.
Faults(e, i) ==
    LET V2(r) == e.regs[r]
        When(fault, name) == IF fault THEN {name} ELSE {}
        BadSingle(p) ==
            CASE p.kind = "MAP_FD" -> V2(p.reg).t # T_MAP \/ IsNull(V2(p.reg))
              [] p.kind = "PTR_TO_MAP_KEY" -> ~ InRegion(e, V2(p.reg), 0, MapDesc[V2(MapFdReg(i)).off].key_size)
              [] p.kind = "PTR_TO_CTX" -> V2(p.reg).t # T_CTX \/ V2(p.reg).off # 0
              [] p.kind = "ANYTHING" -> FALSE
        BadPair(p) == /\ ~ InRegion(e, V2(p.mem), 0, Signed(V2(p.size).n))
                      /\ ~ (p.or_null /\ V2(p.mem).n = 0)
    IN  CASE i.kind \in {"Mem", "Atomic"} ->
                 When(~ InRegion(e, V2(i.base), i.off, i.width), "access")
                     \cup When(/\ i.kind = "Atomic" \/ ~ i.load
                               /\ i.val.reg
                               /\ V2(i.base).t # T_STACK
                               /\ Operand2(e, i.val).t # T_NUM, "leak")
          [] i.kind = "Bin" -> When(i.op = "ADD" /\ IsPtr(V2(i.dst)) /\ IsPtr(Operand2(e, i.arg)), "sum")
          [] i.kind = "Call" -> When(\/ \E p \in i.singles : BadSingle(p)
                                     \/ \E p \in i.pairs : BadPair(p), "argument")
          [] i.kind = "Packet" -> When(V2(R6).t # T_CTX \/ V2(R6).off # 0, "argument")
          [] i.kind = "Exit" -> When(i.frame = 0 /\ V2(R0).t # T_NUM, "leak")
          [] OTHER -> {}

(***************************************************************************)
(* Paths.                                                                  *)
(***************************************************************************)
\* Steps whose effect the analysis does not cover: the README names the lines.
PointerTypes == T_CTX .. T_SHARED
MayPoint(st, r) == TypesOf(st, r) \cap PointerTypes # {}
MaybeNull(st, r) == has_type(st, r, T_SHARED) /\ ~ entails(st, Positive(r))
RegistersOf(i) == {i.dst} \cup {a.r : a \in {b \in {i.arg} : b.reg}}
UnknownMap(st, i) == i.is_map_lookup /\ ~ OneMapType(st, MapFdReg(i))
UnsoundSteps(st, i) ==
    LET When(c, name) == IF c THEN {name} ELSE {}
    IN  CASE i.kind = "Bin" /\ i.op # "MOV" ->
                 When(Cardinality(TypesOf(st, i.dst)) > 1 /\ (IF i.arg.reg THEN i.op = "SUB" ELSE i.arg.n # 0), "mixed")
                     \cup When(\E r \in RegistersOf(i) : MaybeNull(st, r), "null")
                     \cup When(~ i.is64 /\ i.arg.reg /\ \E r \in RegistersOf(i) : MayPoint(st, r), "narrow")
          [] i.kind = "Assume" -> When(i.op = "NE" /\ i.arg.reg /\ has_type(st, i.dst, T_MAP), "instance")
          [] i.kind = "Atomic" -> When(i.op = "CMPXCHG" /\ ~ entails(st, IsType(R0, T_NUM)), "exchange")
          [] i.kind = "Mem" -> When(i.load /\ i.width # offset_width /\ has_type(st, i.base, T_CTX), "partial")
          [] i.kind = "Call" ->
                 When(UnknownMap(st, i) /\ ~ is_top(At(st, RegionSize(R0))), "stale")
                     \cup When(UnknownMap(st, i) /\ \E m \in MapsOf(st, MapFdReg(i)) : m.type = "outer", "outer")
                     \cup When(\E p \in i.singles : p.kind = "MAP_FD" /\ ~ entails(st, Positive(p.reg)), "nomap")
                     \cup When(\E p \in i.singles :
                                   /\ p.kind = "PTR_TO_MAP_KEY"
                                   /\ has_type(st, p.reg, T_PACKET)
                                   /\ ~ entails_all(st, check_access_packet(Offset(p.reg, T_PACKET), 0, get_map_key_size(st, MapFdReg(i)).ub.n, V(packet_size))),
                               "key")
          [] OTHER -> {}

\* What the stack holds is not followed here, nor sizes that are not known.
ReadsStack(st, i) ==
    CASE i.kind = "Atomic" -> has_type(st, i.base, T_STACK)
      [] i.kind = "Mem" -> i.load /\ has_type(st, i.base, T_STACK)
      [] i.kind = "Call" -> \/ \E p \in i.singles : p.kind = "PTR_TO_MAP_KEY" /\ has_type(st, p.reg, T_STACK)
                            \/ \E p \in i.pairs : ~ p.writes /\ has_type(st, p.mem, T_STACK)
      [] OTHER -> FALSE
UnknownSizes(st, i) == IF i.kind = "Call" THEN {p \in i.pairs : ~ HasNumber(At(st, S(p.size)))} ELSE {}

EntryRegs == [r \in Holder |-> CASE r = R1 -> Value(T_CTX, Address["ctx"], 0, 0)
                              [] r = R10 -> Value(T_STACK, Address["frame"], StackSize, 0)
                              [] OTHER -> Junk]
EntryRuns == {Execution(EntryRegs, p) : p \in Entries}

Begin == /\ inv' = setup_entry
         /\ runs' = EntryRuns
         /\ todo' \in Meeting
         /\ depth' = 0

Init == /\ inv = setup_entry
        /\ runs = EntryRuns
        /\ todo \in Prologues
        /\ parked = {}
        /\ body = 0
        /\ depth = 0
        /\ faults = {}

\* A state that becomes bottom at an instruction other than Assume ends the
\* analysis with an error.
CheckedBottom(st, i) == IF st.z.bottom /\ i.kind # "Assume" THEN fail(st) ELSE st
ebpf_domain_transform(st, i) == CheckedBottom(transform(st, i), i)

\* Frames are entered and left in turn, as CfgBuilder inlines them.
InTurn(i) == CASE i.kind = "CallLocal" -> i.frame = depth + 1
               [] i.kind = "Exit" -> i.frame = depth
               [] OTHER -> TRUE

Analyse(i) ==
    /\ InTurn(i)
    /\ ~ inv.z.bottom
    /\ ~ inv.error
    /\ ~ ReadsStack(inv, i)
    /\ UnknownSizes(inv, i) = {}
    /\ Accepted(inv, i)
    /\ UnsoundSteps(inv, i) \subseteq Allowed
    /\ inv' = ebpf_domain_transform(inv, i)
    /\ runs' = UNION {Execute(e, i) : e \in {f \in runs : Faults(f, i) = {}}}
    /\ depth' = depth + (IF i.kind = "CallLocal" THEN 1 ELSE IF i.kind = "Exit" /\ i.frame > 0 THEN -1 ELSE 0)
    /\ faults' = faults \cup UNION {Faults(e, i) : e \in runs}

\* The prologue, then instructions of any kind.
Following == IF todo # <<>> THEN {Head(todo)} ELSE IF parked = {} /\ body < MaxBody THEN Instructions ELSE {}
AnalyseNext ==
    /\ \E i \in Following : /\ Analyse(i)
                           /\ body' = IF todo # <<>> THEN body ELSE IF i = Exit(0) THEN MaxBody ELSE body + 1
    /\ todo' = IF todo = <<>> THEN todo ELSE Tail(todo)
    /\ UNCHANGED parked

\* The analysis comes to a join: it leaves the path and takes another one that
\* leads there.
Park ==
    /\ todo = <<>>
    /\ body = 0
    /\ parked = {}
    /\ parked' = {[inv |-> inv, runs |-> runs, depth |-> depth]}
    /\ Begin
    /\ UNCHANGED <<body, faults>>

MergePaths ==
    /\ todo = <<>>
    /\ body = 0
    /\ \E p \in parked :
           /\ p.depth = depth
           /\ inv' = IF inv.z.bottom THEN p.inv ELSE selectively_join_based_on_type(p.inv, inv)
           /\ runs' = runs \cup p.runs
    /\ parked' = {}
    /\ body' = 1
    /\ UNCHANGED <<todo, depth, faults>>

Next == AnalyseNext \/ Park \/ MergePaths
Spec == Init /\ [][Next]_vars
-----------------------------------------------------------------------------
(***************************************************************************)
(* Properties.                                                             *)
(***************************************************************************)
\* Variables stay within their sets; a graph has all pairs of its vertices.
Values == [t : Types, n : Word, off : Int, size : Int]
Executions == [regs : [Holder -> Values], base : Word, size : 0 .. MAX_PACKET_SIZE, meta : -PtrMin .. 0]
TypeOK == /\ inv.z.g \in Graphs(Vertices(inv.z.g))
          /\ Vertices(inv.z.g) \subseteq Node
          /\ {inv.z.bottom, inv.error} \subseteq BOOLEAN
          /\ runs \subseteq Executions
          /\ Cardinality(parked) <= 1
          /\ body \in 0 .. MaxBody
          /\ depth \in 0 .. MaxFrames
          /\ faults \subseteq {"access", "leak", "sum", "argument"}

\* What a variable of the analysis stands for in an execution, if anything.
Meaningful(e, x) ==
    CASE x \in {Zero, packet_size, meta_offset} -> TRUE
      [] OTHER -> LET v == e.regs[x[1]]
                  IN  CASE x[2] = "type" -> TRUE
                        [] x[2] \in {"svalue", "uvalue"} -> v.t # T_UNINIT
                        [] x[2] = "shared_region_size" -> v.t = T_SHARED /\ ~ IsNull(v)
                        [] OTHER -> HasOffset(v.t) /\ x = Offset(x[1], v.t)
Meaning(e, x) ==
    CASE x = Zero -> 0
      [] x = packet_size -> e.size
      [] x = meta_offset -> e.meta
      [] OTHER -> LET v == e.regs[x[1]]
                  IN  CASE x[2] = "type" -> v.t
                        [] x[2] = "svalue" -> Signed(v.n)
                        [] x[2] = "uvalue" -> v.n
                        [] x[2] = "shared_region_size" -> v.size
                        [] OTHER -> v.off

\* type_domain.cpp keeps, for each type a register may have, what holds of the
\* register if it has that type.  For every execution it is true: its types,
\* values, offsets and region sizes are within what the state says, across
\* joins of paths with different types, and no path an execution takes is
\* taken for unreachable.
Covered ==
    ~ inv.error =>
        \A e \in runs :
            /\ ~ inv.z.bottom
            /\ \A d \in DOMAIN inv.z.g :
                   Meaningful(e, d[1]) /\ Meaningful(e, d[2])
                       => BLeq(Fin(Meaning(e, d[2]) - Meaning(e, d[1])), inv.z.g[d])

\* Programs the checker accepts are safe: no execution of an accepted path
\* reaches outside the context, the packet, its frame or a map's value, goes
\* through a null pointer, hands a helper a bad argument, or lets a pointer
\* out through memory or its result.
AcceptedIsSafe == faults = {}

\* The transformer ends no analysis of accepted instructions with an error:
\* its states become bottom at conditions only.
NoInternalError == ~ inv.error
=============================================================================
