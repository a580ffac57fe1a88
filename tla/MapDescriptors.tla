--------------------------- MODULE MapDescriptors ---------------------------
(***************************************************************************)
(* The maps of a program: how read_elf (asm_files.cpp, linux_platform.cpp) *)
(* gives each map of a file a mock file descriptor, keeping the            *)
(* descriptors in the program info and the numbers handed out in a cache   *)
(* of the thread, and how the domain (ebpf_domain.cpp) answers questions   *)
(* about a register that holds one of a range of these numbers.            *)
(***************************************************************************)
EXTENDS Integers, Sequences, FiniteSets

CONSTANTS MapDefs,    \* definitions a maps section can hold
          BtfDefs,    \* definitions a .maps section can hold, with their type ids
          MapTypes,   \* get_map_type: what the platform says of a type number
          MaxMaps,    \* bound: maps per file
          MaxFiles,   \* bound: files read by the thread
          MaxRange    \* max_range

ASSUME BoundsAssumption == MaxMaps \in Nat /\ MaxFiles \in Nat /\ MaxRange \in Nat

ASSUME MapTypesAssumption ==
    \A t \in DOMAIN MapTypes : MapTypes[t] \in [value_type : {"ANY", "MAP", "PROGRAM"}, is_array : BOOLEAN]

(* Sizes are unsigned, a map has entries, and a type id stands for one     *)
(* definition.  An array of no entries, which the kernel refuses to make,  *)
(* would get the number of a map that is no array.                         *)
ASSUME DefsAssumption ==
    /\ MapDefs \subseteq [type : DOMAIN MapTypes, key_size : Nat, value_size : Nat,
                           max_entries : Nat \ {0}, inner : Nat]
    /\ BtfDefs \subseteq [type_id : Nat, type : DOMAIN MapTypes, key_size : Nat, value_size : Nat,
                           max_entries : Nat \ {0}, inner : Nat]
    /\ \A d, e \in BtfDefs : d.type_id = e.type_id => d = e

VARIABLES kind,             \* the section the file keeps its maps in
          phase,            \* how far the file has been read
          files,            \* files begun by this thread
          defs,             \* the definitions in the file, in order
          fresh,            \* the cache was empty when the file was begun
          cache,            \* thread_local_program_info->cache
          map_descriptors   \* info.map_descriptors, then those of the thread's info

vars == <<kind, phase, files, fresh, defs, cache, map_descriptors>>

DEFAULT_MAP_FD == -1

NoValue == -2

(* Mutants of EquivalenceKey: the entries of an array, or what the map     *)
(* holds, make no difference.                                              *)
MutKeyNoEntries(def) == <<MapTypes[def.type].value_type, def.key_size, def.value_size, 0>>

MutKeyNoValueType(def) ==
    <<"ANY", def.key_size, def.value_size, IF MapTypes[def.type].is_array THEN def.max_entries ELSE 0>>

EquivalenceKey(def) ==
    LET type == MapTypes[def.type]
    IN  <<type.value_type, def.key_size, def.value_size, IF type.is_array THEN def.max_entries ELSE 0>>

CacheWith(def) ==
    LET key == EquivalenceKey(def)
    IN  [k \in DOMAIN cache \cup {key} |->
           IF k \in DOMAIN cache THEN cache[k] ELSE Cardinality(DOMAIN cache) + 1]

Descriptor(def, fd, inner) ==
    [original_fd |-> fd, type |-> def.type, key_size |-> def.key_size,
     value_size |-> def.value_size, max_entries |-> def.max_entries, inner_map_fd |-> inner]

Init ==
    /\ kind \in {"maps", "btf"}
    /\ phase = "parsing"
    /\ files = 1
    /\ fresh = TRUE
    /\ defs = <<>>
    /\ cache = <<>>
    /\ map_descriptors = <<>>

(* parse_maps_section_linux, one map.  inner_map_fd is an index for now.   *)
parse_maps_section(def) ==
    /\ kind = "maps" /\ phase = "parsing" /\ Len(defs) < MaxMaps
    /\ defs' = Append(defs, def)
    /\ cache' = CacheWith(def)
    /\ map_descriptors' = Append(map_descriptors, Descriptor(def, cache'[EquivalenceKey(def)], def.inner))
    /\ UNCHANGED <<kind, phase, files, fresh>>

(* resolve_inner_map_references_linux                                      *)
resolve_inner_map_references ==
    /\ kind = "maps" /\ phase = "parsing"
    /\ IF \E i \in 1..Len(map_descriptors) : map_descriptors[i].inner_map_fd >= Len(map_descriptors)
       THEN phase' = "failed" /\ UNCHANGED map_descriptors
       ELSE /\ phase' = "read"
            /\ map_descriptors' =
                 [i \in 1..Len(map_descriptors) |->
                    [map_descriptors[i] EXCEPT
                       !.inner_map_fd = map_descriptors[@ + 1].original_fd]]
    /\ UNCHANGED <<kind, files, fresh, defs, cache>>

(* parse_map_section, one map of the .maps section.  Type ids for now.     *)
parse_map_section(def) ==
    /\ kind = "btf" /\ phase = "parsing" /\ Len(defs) < MaxMaps
    /\ defs' = Append(defs, def)
    /\ map_descriptors' =
         Append(map_descriptors,
                Descriptor(def, def.type_id, IF def.inner # 0 THEN def.inner ELSE DEFAULT_MAP_FD))
    /\ UNCHANGED <<kind, phase, files, fresh, cache>>

(* Mutant of PseudoFd: the place of the map in the file.                   *)
MutPseudoFd(id) ==
    LET is == {i \in 1..Len(map_descriptors) : map_descriptors[i].original_fd = id}
    IN  IF is = {} THEN 0 ELSE CHOOSE i \in is : \A j \in is : i <= j

(* type_id_to_fd_map: a number for each type id, in the order in which     *)
(* they first occur, and 0 for the others (operator[]).                    *)
PseudoFd(id) ==
    LET first == {i \in 1..Len(map_descriptors) :
                    /\ map_descriptors[i].original_fd = id
                    /\ \A j \in 1..(i - 1) : map_descriptors[j].original_fd # id}
    IN  IF first = {} THEN 0
        ELSE LET i == CHOOSE i \in first : TRUE
             IN  Cardinality({map_descriptors[j].original_fd : j \in 1..i})

AssignPseudoFds ==
    /\ kind = "btf" /\ phase = "parsing"
    /\ phase' = "read"
    /\ map_descriptors' =
         [i \in 1..Len(map_descriptors) |->
            [map_descriptors[i] EXCEPT
               !.original_fd = PseudoFd(@),
               !.inner_map_fd = IF @ # DEFAULT_MAP_FD THEN PseudoFd(@) ELSE @]]
    /\ UNCHANGED <<kind, files, fresh, defs, cache>>

(* unmarshal: the info of the program, whose cache was never filled,       *)
(* becomes that of the thread.                                             *)
unmarshal ==
    /\ phase = "read"
    /\ phase' = "analysing"
    /\ cache' = <<>>
    /\ UNCHANGED <<kind, files, fresh, defs, map_descriptors>>

(* The thread goes on to another file.                                     *)
read_elf ==
    /\ phase # "parsing"
    /\ files < MaxFiles
    /\ files' = files + 1
    /\ fresh' = (cache = <<>>)
    /\ kind' \in {"maps", "btf"}
    /\ phase' = "parsing"
    /\ defs' = <<>>
    /\ map_descriptors' = <<>>
    /\ UNCHANGED cache

Finished == phase \in {"failed", "analysing"} /\ files = MaxFiles

Next ==
    \/ \E def \in MapDefs : parse_maps_section(def)
    \/ resolve_inner_map_references
    \/ \E def \in BtfDefs : parse_map_section(def)
    \/ AssignPseudoFds
    \/ unmarshal
    \/ read_elf
    \/ Finished /\ UNCHANGED vars

Spec == Init /\ [][Next]_vars

-----------------------------------------------------------------------------
(* Queries on a register that holds a number in lo..hi.                    *)

Fds == {map_descriptors[i].original_fd : i \in 1..Len(map_descriptors)}

(* find_map_descriptor: the first one with the number.                     *)
find_map_descriptor(fd) ==
    map_descriptors[CHOOSE i \in 1..Len(map_descriptors) :
        /\ map_descriptors[i].original_fd = fd
        /\ \A j \in 1..(i - 1) : map_descriptors[j].original_fd # fd]

get_map_fd_range(lo, hi) == hi - lo < MaxRange

(* The query ends the analysis: get_map_descriptor throws.                 *)
Throws(lo, hi) == get_map_fd_range(lo, hi) /\ ~(lo..hi \subseteq Fds)

get_map_type(lo, hi) ==
    LET first == find_map_descriptor(lo).type
    IN  IF get_map_fd_range(lo, hi) /\ \A fd \in (lo + 1)..hi : find_map_descriptor(fd).type = first
        THEN first ELSE NoValue

(* The value is in the interval get_map_key_size, get_map_value_size or    *)
(* get_map_max_entries answer: the join over the range, or top.            *)
Covers(lo, hi, field, value) ==
    get_map_fd_range(lo, hi) =>
      /\ \E fd \in lo..hi : find_map_descriptor(fd)[field] <= value
      /\ \E fd \in lo..hi : find_map_descriptor(fd)[field] >= value

-----------------------------------------------------------------------------

Loaded == phase = "analysing"

Ranges == {r \in Fds \X Fds : r[1] <= r[2]}

(* The maps of the file a register with a number in lo..hi may refer to.   *)
MapsIn(r) == {i \in 1..Len(defs) : map_descriptors[i].original_fd \in r[1]..r[2]}

Sequential == /\ Fds = 1..Cardinality(Fds)
              /\ \A r \in Ranges : ~Throws(r[1], r[2])

(* FreshFdsSequential: in a file of the newer format, or one read with an  *)
(* empty cache, the numbers of the maps are 1 up to their count, so that a *)
(* range of them, such as the join of two branches leaves, has no gap that *)
(* a query would throw on.                                                 *)
FreshFdsSequential == Loaded /\ (kind = "btf" \/ fresh) => Sequential

(* SizesCovered: although maps that look alike share a number and only the *)
(* first of them is ever found, what the queries answer on a range covers  *)
(* the key and value size of every map of the file it may refer to, and    *)
(* the number of entries of the arrays, which strict mode bounds keys by.  *)
SizesCovered ==
    Loaded =>
      \A r \in Ranges : ~Throws(r[1], r[2]) =>
       \A i \in MapsIn(r) :
        /\ Covers(r[1], r[2], "key_size", defs[i].key_size)
        /\ Covers(r[1], r[2], "value_size", defs[i].value_size)
        /\ MapTypes[defs[i].type].is_array => Covers(r[1], r[2], "max_entries", defs[i].max_entries)

(* LookupKindKnown: when all maps of a range are said to have one type,    *)
(* every map of the file it may refer to is of that kind: a lookup never   *)
(* takes a map of maps, whose values are map descriptors, for one of data. *)
LookupKindKnown ==
    Loaded =>
      \A r \in Ranges : ~Throws(r[1], r[2]) =>
        LET type == get_map_type(r[1], r[2])
        IN  type # NoValue =>
              \A i \in MapsIn(r) : MapTypes[defs[i].type].value_type = MapTypes[type].value_type
=============================================================================
