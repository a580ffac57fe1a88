------------------------ MODULE MapDescriptorsProofs ------------------------
(***************************************************************************)
(* Proofs about the numbers of maps, for every set of map definitions,     *)
(* every table of map types and any number of files: the three invariants  *)
(* of MapDescriptors.                                                      *)
(***************************************************************************)
EXTENDS MapDescriptors, FiniteInduction, FiniteSetTheorems, TLAPS

(* What a thread knows of descriptors while it reads a file.               *)
Descriptors == [original_fd : Nat, type : DOMAIN MapTypes, key_size : Nat, value_size : Nat,
                max_entries : Nat, inner_map_fd : Int]

Ids(s) == {s[i].original_fd : i \in 1..Len(s)}

(* The numbers in the cache are 1 up to the count of its keys.             *)
Image(f) == {f[k] : k \in DOMAIN f}

Numbers(f) ==
    /\ IsFiniteSet(DOMAIN f)
    /\ Image(f) = 1..Cardinality(DOMAIN f)
    /\ \A k, l \in DOMAIN f : f[k] = f[l] => k = l

(* Each descriptor has its definition's fields.                            *)
FieldsKept ==
    /\ defs \in Seq(MapDefs \cup BtfDefs)
    /\ Len(map_descriptors) = Len(defs)
    /\ \A i \in 1..Len(defs) :
          /\ map_descriptors[i].original_fd \in Int
          /\ map_descriptors[i].type = defs[i].type
          /\ map_descriptors[i].key_size = defs[i].key_size
          /\ map_descriptors[i].value_size = defs[i].value_size
          /\ map_descriptors[i].max_entries = defs[i].max_entries

(* Maps that share a number share their key, and the first map with a      *)
(* number exists.                                                          *)
NumbersMeanKeys ==
    \A i, j \in 1..Len(defs) :
        map_descriptors[i].original_fd = map_descriptors[j].original_fd =>
            EquivalenceKey(defs[i]) = EquivalenceKey(defs[j])

(* While a file of the older format is parsed, numbers come from the       *)
(* cache, and in a fresh one all of its numbers are the file's.            *)
MapsParsing ==
    kind = "maps" /\ phase = "parsing" =>
        /\ map_descriptors \in Seq(Descriptors)
        /\ \A i \in 1..Len(defs) :
              /\ EquivalenceKey(defs[i]) \in DOMAIN cache
              /\ map_descriptors[i].original_fd = cache[EquivalenceKey(defs[i])]
        /\ fresh => Image(cache) \subseteq Fds

(* While a file of the newer format is parsed, numbers are type ids, and   *)
(* the pseudo numbers of those seen are 1 up to their count.               *)
BtfParsing ==
    kind = "btf" /\ phase = "parsing" =>
        /\ map_descriptors \in Seq(Descriptors)
        /\ defs \in Seq(BtfDefs)
        /\ \A i \in 1..Len(defs) : map_descriptors[i].original_fd = defs[i].type_id
        /\ IsFiniteSet(Fds)
        /\ {PseudoFd(id) : id \in Fds} = 1..Cardinality(Fds)
        /\ \A id, other \in Fds : PseudoFd(id) = PseudoFd(other) => id = other

(* Afterwards the numbers of the file have no gap.                         *)
NoGap ==
    phase \in {"read", "analysing"} /\ (kind = "btf" \/ fresh) =>
        \E n \in Nat : Fds = 1..n

Inv == /\ kind \in {"maps", "btf"}
       /\ Numbers(cache)
       /\ FieldsKept
       /\ NumbersMeanKeys
       /\ MapsParsing
       /\ BtfParsing
       /\ NoGap
-----------------------------------------------------------------------------
(* Among the descriptors with a number there is a first one.               *)
LEMMA FirstExists ==
    ASSUME NEW s, Len(s) \in Nat, NEW fd \in Ids(s)
    PROVE  \E i \in 1..Len(s) :
              /\ s[i].original_fd = fd
              /\ \A j \in 1..(i - 1) : s[j].original_fd # fd
<1> DEFINE T == {i \in 1..Len(s) : s[i].original_fd = fd}
<1>1. T \in SUBSET Nat /\ T # {}
  BY DEF Ids
<1>2. PICK i \in T : \A j \in T : i <= j
  BY <1>1, LeastExists
<1>3. \A j \in 1..(i - 1) : j \in 1..Len(s) /\ ~ (i <= j)
  OBVIOUS
<1>4. QED
  BY <1>2, <1>3

(* A new key gets the next number.                                         *)
LEMMA NextNumber ==
    ASSUME NEW f, Numbers(f), NEW key, NEW g,
           g = [k \in DOMAIN f \cup {key} |->
                  IF k \in DOMAIN f THEN f[k] ELSE Cardinality(DOMAIN f) + 1]
    PROVE  /\ Numbers(g)
           /\ DOMAIN f \subseteq DOMAIN g /\ key \in DOMAIN g
           /\ \A k \in DOMAIN f : g[k] = f[k]
           /\ Image(g) = Image(f) \cup {g[key]}
           /\ \A k \in DOMAIN g : g[k] \in Nat
<1> DEFINE n == Cardinality(DOMAIN f)
<1>1. n \in Nat
  BY FS_CardinalityType DEF Numbers
<1>n. n = Cardinality(DOMAIN f)
  OBVIOUS
<1> HIDE DEF n
<1>2. /\ DOMAIN g = DOMAIN f \cup {key}
      /\ \A k \in DOMAIN f : g[k] = f[k]
  OBVIOUS
<1>3. Image(g) = Image(f) \cup {g[key]}
  BY <1>2 DEF Image
<1>4. \A k \in DOMAIN f : f[k] \in 1..n
  BY <1>n DEF Numbers, Image
<1>5. CASE key \in DOMAIN f
  <2>1. DOMAIN g = DOMAIN f
    BY <1>2, <1>5
  <2>2. Image(g) = Image(f)
    BY <1>2, <2>1 DEF Image
  <2>3. Numbers(g)
    BY <1>2, <2>1, <2>2 DEF Numbers
  <2>4. \A k \in DOMAIN g : g[k] \in Nat
    BY <1>1, <1>2, <1>4, <2>1
  <2>5. QED
    BY <1>2, <1>3, <2>3, <2>4
<1>6. CASE key \notin DOMAIN f
  <2>1. IsFiniteSet(DOMAIN g) /\ Cardinality(DOMAIN g) = n + 1
    BY <1>2, <1>6, <1>n, FS_AddElement DEF Numbers
  <2>2. g[key] = n + 1
    BY <1>n, <1>6
  <2>3. Image(g) = 1..(n + 1)
    <3>1. Image(f) = 1..n
      BY <1>n DEF Numbers
    <3>2. 1..(n + 1) = 1..n \cup {n + 1}
      BY <1>1
    <3>3. QED
      BY <1>3, <2>2, <3>1, <3>2
  <2>4. ASSUME NEW k \in DOMAIN g, NEW l \in DOMAIN g, g[k] = g[l]
        PROVE  k = l
    BY <1>1, <1>2, <1>4, <2>2, <2>4 DEF Numbers
  <2>5. Numbers(g)
    BY <2>1, <2>3, <2>4 DEF Numbers
  <2>6. \A k \in DOMAIN g : g[k] \in Nat
    BY <1>1, <1>2, <1>4, <2>2
  <2>7. QED
    BY <1>2, <1>3, <2>5, <2>6
<1>7. QED
  BY <1>5, <1>6

-----------------------------------------------------------------------------
(* PseudoFd for any sequence of descriptors.                               *)
First(s, id) ==
    {i \in 1..Len(s) : s[i].original_fd = id /\ \A j \in 1..(i - 1) : s[j].original_fd # id}

Upto(s, i) == {s[j].original_fd : j \in 1..i}

PseudoOf(s, id) ==
    IF First(s, id) = {} THEN 0 ELSE Cardinality(Upto(s, CHOOSE i \in First(s, id) : TRUE))

(* The pseudo numbers of a sequence are 1 up to the count of its ids, and  *)
(* two ids have two.                                                       *)
Pseudo(s) ==
    /\ IsFiniteSet(Ids(s))
    /\ {PseudoOf(s, id) : id \in Ids(s)} = 1..Cardinality(Ids(s))
    /\ \A id, other \in Ids(s) : PseudoOf(s, id) = PseudoOf(s, other) => id = other

LEMMA PseudoFdIsOf == \A id : PseudoFd(id) = PseudoOf(map_descriptors, id)
  BY DEF PseudoFd, PseudoOf, First, Upto

(* An id that is there keeps its number, a new one gets the next.          *)
LEMMA PseudoAppend ==
    ASSUME NEW s \in Seq(Descriptors), Pseudo(s), NEW d \in Descriptors
    PROVE  Pseudo(Append(s, d))
<1> DEFINE t == Append(s, d)
           n == Len(s)
           new == d.original_fd
<1>1. /\ n \in Nat /\ Len(t) = n + 1
      /\ \A i \in 1..n : t[i] = s[i]
      /\ t[n + 1] = d
  OBVIOUS
<1> HIDE DEF t, new
<1>2. Ids(t) = Ids(s) \cup {new}
  BY <1>1 DEF Ids, new, n
<1>3. ASSUME NEW id \in Ids(s)
      PROVE  PseudoOf(t, id) = PseudoOf(s, id)
  <2>1. PICK k \in First(s, id) : TRUE
    BY <1>1, FirstExists DEF First, n
  <2>2. First(t, id) = First(s, id)
    <3>1. \A i \in 1..n : \A j \in 1..(i - 1) : j \in 1..n
      BY <1>1
    <3>2. \A i \in 1..n : i \in First(t, id) <=> i \in First(s, id)
      BY <1>1, <3>1 DEF First, n
    <3>3. k \in 1..n /\ t[k].original_fd = id
      BY <1>1, <2>1 DEF First, n
    <3>4. n + 1 \notin First(t, id)
      BY <1>1, <3>3 DEF First
    <3>5. First(s, id) \subseteq 1..n /\ First(t, id) \subseteq 1..(n + 1)
      BY <1>1 DEF First, n
    <3>6. QED
      BY <1>1, <3>2, <3>4, <3>5
  <2>3. \A i \in 1..n : Upto(t, i) = Upto(s, i)
    BY <1>1 DEF Upto
  <2>4. (CHOOSE i \in First(s, id) : TRUE) \in 1..n
    BY <1>1, <2>1 DEF First, n
  <2>5. QED
    BY <2>2, <2>3, <2>4 DEF PseudoOf
<1>4. \A id \in Ids(s) : PseudoOf(s, id) \in 1..Cardinality(Ids(s))
  BY DEF Pseudo
<1>5. Cardinality(Ids(s)) \in Nat
  BY FS_CardinalityType DEF Pseudo
<1>6. CASE new \in Ids(s)
  <2>1. Ids(t) = Ids(s)
    BY <1>2, <1>6
  <2>2. {PseudoOf(t, id) : id \in Ids(t)} = {PseudoOf(s, id) : id \in Ids(s)}
    BY <1>3, <2>1
  <2>3. QED
    BY <1>3, <2>1, <2>2 DEF Pseudo, t
<1>7. CASE new \notin Ids(s)
  <2> DEFINE c == Cardinality(Ids(s))
  <2>1. IsFiniteSet(Ids(t)) /\ Cardinality(Ids(t)) = c + 1
    BY <1>2, <1>7, FS_AddElement DEF Pseudo
  <2>2. PseudoOf(t, new) = c + 1
    <3>1. First(t, new) = {n + 1}
      <4>1. \A i \in 1..n : t[i].original_fd # new
        BY <1>1, <1>7 DEF Ids, n
      <4>2. QED
        BY <1>1, <4>1 DEF First, new
    <3>2. (CHOOSE i \in First(t, new) : TRUE) = n + 1
      BY <3>1
    <3>3. Upto(t, n + 1) = Ids(t)
      BY <1>1 DEF Upto, Ids
    <3>4. QED
      BY <2>1, <3>1, <3>2, <3>3 DEF PseudoOf
  <2>3. {PseudoOf(t, id) : id \in Ids(t)} = 1..(c + 1)
    <3>1. {PseudoOf(t, id) : id \in Ids(t)} = {PseudoOf(s, id) : id \in Ids(s)} \cup {c + 1}
      BY <1>2, <1>3, <2>2
    <3>2. 1..(c + 1) = 1..c \cup {c + 1}
      BY <1>5
    <3>3. QED
      BY <3>1, <3>2 DEF Pseudo
  <2>4. ASSUME NEW id \in Ids(t), NEW other \in Ids(t), PseudoOf(t, id) = PseudoOf(t, other)
        PROVE  id = other
    <3>1. \A a \in Ids(s) : PseudoOf(t, a) # c + 1
      BY <1>3, <1>4, <1>5
    <3>2. CASE id = new \/ other = new
      BY <1>2, <2>2, <2>4, <3>1, <3>2
    <3>3. CASE id \in Ids(s) /\ other \in Ids(s)
      BY <1>3, <2>4, <3>3 DEF Pseudo
    <3>4. QED
      BY <1>2, <3>2, <3>3
  <2>5. QED
    BY <2>1, <2>3, <2>4 DEF Pseudo, t
<1>8. QED
  BY <1>6, <1>7

-----------------------------------------------------------------------------
LEMMA InitInv == Init => Inv
<1> SUFFICES ASSUME Init PROVE Inv
  OBVIOUS
<1>1. Numbers(cache)
  <2>1. DOMAIN cache = {} /\ Image(cache) = {}
    BY DEF Init, Image
  <2>2. Cardinality(DOMAIN cache) = 0 /\ IsFiniteSet(DOMAIN cache)
    BY <2>1, FS_EmptySet
  <2>3. QED
    BY <2>1, <2>2 DEF Numbers
<1>2. Fds = {} /\ Image(cache) = {}
  BY DEF Init, Fds, Image
<1>3. FieldsKept /\ NumbersMeanKeys /\ MapsParsing
  BY <1>2 DEF Init, FieldsKept, NumbersMeanKeys, MapsParsing
<1>4. BtfParsing
  <2>1. Cardinality(Fds) = 0 /\ IsFiniteSet(Fds)
    BY <1>2, FS_EmptySet
  <2>2. QED
    BY <1>2, <2>1 DEF Init, BtfParsing
<1>5. QED
  BY <1>1, <1>3, <1>4 DEF Init, Inv, NoGap

(* The map just parsed keeps or takes a number of the cache.               *)
LEMMA MapStep ==
    ASSUME Inv, NEW def \in MapDefs, parse_maps_section(def)
    PROVE  Inv'
<1> DEFINE key == EquivalenceKey(def)
           d == Descriptor(def, cache'[key], def.inner)
           n == Len(defs)
<1>1. /\ n \in Nat /\ Len(map_descriptors) = n
      /\ map_descriptors \in Seq(Descriptors)
      /\ defs \in Seq(MapDefs \cup BtfDefs)
  BY DEF Inv, FieldsKept, MapsParsing, parse_maps_section
<1>2. /\ Numbers(cache')
      /\ DOMAIN cache \subseteq DOMAIN cache' /\ key \in DOMAIN cache'
      /\ \A k \in DOMAIN cache : cache'[k] = cache[k]
      /\ Image(cache') = Image(cache) \cup {cache'[key]}
      /\ \A k \in DOMAIN cache' : cache'[k] \in Nat
  <2>1. cache' = [k \in DOMAIN cache \cup {key} |->
                    IF k \in DOMAIN cache THEN cache[k] ELSE Cardinality(DOMAIN cache) + 1]
    BY DEF parse_maps_section, CacheWith
  <2> HIDE DEF key
  <2>2. QED
    BY <2>1, NextNumber DEF Inv
<1>3. def \in [type : DOMAIN MapTypes, key_size : Nat, value_size : Nat, max_entries : Nat \ {0}, inner : Nat]
  BY DefsAssumption
<1>4. d \in Descriptors
  BY <1>2, <1>3 DEF Descriptors, Descriptor
<1>5. /\ map_descriptors' = Append(map_descriptors, d)
      /\ defs' = Append(defs, def)
      /\ kind = "maps" /\ phase = "parsing"
      /\ UNCHANGED <<kind, phase, files, fresh>>
  BY DEF parse_maps_section
<1>6. /\ d.original_fd = cache'[key] /\ d.type = def.type /\ d.key_size = def.key_size
      /\ d.value_size = def.value_size /\ d.max_entries = def.max_entries
  BY DEF Descriptor
<1> HIDE DEF d
<1>7. /\ map_descriptors' \in Seq(Descriptors) /\ Len(map_descriptors') = n + 1
      /\ \A i \in 1..n : map_descriptors'[i] = map_descriptors[i]
      /\ map_descriptors'[n + 1] = d
      /\ defs' \in Seq(MapDefs \cup BtfDefs) /\ Len(defs') = n + 1
      /\ \A i \in 1..n : defs'[i] = defs[i]
      /\ defs'[n + 1] = def
  BY <1>1, <1>4, <1>5
<1> HIDE DEF n
<1>8. \A i \in 1..(n + 1) : i \in 1..n \/ i = n + 1
  BY <1>1
<1>9. FieldsKept'
  <2>1. d.original_fd \in Int
    BY <1>2, <1>6
  <2>2. QED
    BY <1>1, <1>6, <1>7, <1>8, <2>1 DEF Inv, FieldsKept, n
<1>10. \A i \in 1..(n + 1) :
          /\ EquivalenceKey(defs'[i]) \in DOMAIN cache'
          /\ map_descriptors'[i].original_fd = cache'[EquivalenceKey(defs'[i])]
  <2>1. \A i \in 1..n : /\ EquivalenceKey(defs[i]) \in DOMAIN cache
                        /\ map_descriptors[i].original_fd = cache[EquivalenceKey(defs[i])]
    BY <1>5 DEF Inv, MapsParsing, n
  <2> HIDE DEF key
  <2>2. EquivalenceKey(def) = key
    BY DEF key
  <2>3. QED
    BY <1>2, <1>6, <1>7, <1>8, <2>1, <2>2
<1>11. NumbersMeanKeys'
  <2>1. \A k, l \in DOMAIN cache' : cache'[k] = cache'[l] => k = l
    BY <1>2 DEF Numbers
  <2>2. \A i, j \in 1..(n + 1) :
            map_descriptors'[i].original_fd = map_descriptors'[j].original_fd =>
                EquivalenceKey(defs'[i]) = EquivalenceKey(defs'[j])
    BY <1>10, <2>1
  <2>3. QED
    BY <1>7, <2>2 DEF NumbersMeanKeys, EquivalenceKey
<1>12. fresh' => Image(cache') \subseteq Fds'
  <2>1. fresh' => Image(cache) \subseteq Fds
    BY <1>5 DEF Inv, MapsParsing
  <2>2. Fds \subseteq Fds' /\ cache'[key] \in Fds'
    BY <1>1, <1>6, <1>7, <1>8 DEF Fds, n
  <2>3. QED
    BY <1>2, <2>1, <2>2
<1>13. MapsParsing'
  BY <1>7, <1>10, <1>12 DEF MapsParsing, EquivalenceKey
<1>14. kind' = "maps" /\ BtfParsing' /\ NoGap'
  BY <1>5 DEF BtfParsing, NoGap
<1>15. QED
  BY <1>2, <1>9, <1>11, <1>13, <1>14 DEF Inv

LEMMA ResolveStep == ASSUME Inv, resolve_inner_map_references PROVE Inv'
<1>1. kind = "maps" /\ phase = "parsing" /\ UNCHANGED <<kind, files, fresh, defs, cache>>
  BY DEF resolve_inner_map_references
<1>2. map_descriptors \in Seq(Descriptors) /\ Len(map_descriptors) = Len(defs)
  BY <1>1 DEF Inv, MapsParsing, FieldsKept
<1>3. /\ Len(map_descriptors') = Len(defs)
      /\ \A i \in 1..Len(defs) :
            /\ map_descriptors'[i].original_fd = map_descriptors[i].original_fd
            /\ map_descriptors'[i].type = map_descriptors[i].type
            /\ map_descriptors'[i].key_size = map_descriptors[i].key_size
            /\ map_descriptors'[i].value_size = map_descriptors[i].value_size
            /\ map_descriptors'[i].max_entries = map_descriptors[i].max_entries
  <2>1. CASE UNCHANGED map_descriptors
    BY <1>2, <2>1
  <2>2. CASE map_descriptors' = [i \in 1..Len(map_descriptors) |->
                                   [map_descriptors[i] EXCEPT
                                      !.inner_map_fd = map_descriptors[@ + 1].original_fd]]
    <3>1. Len(map_descriptors') = Len(defs)
      BY <1>2, <2>2
    <3>2. ASSUME NEW i \in 1..Len(defs)
          PROVE  /\ map_descriptors[i] \in Descriptors
                 /\ map_descriptors'[i] =
                      [map_descriptors[i] EXCEPT
                         !.inner_map_fd = map_descriptors[map_descriptors[i].inner_map_fd + 1].original_fd]
      BY <1>2, <2>2
    <3>3. QED
      BY <3>1, <3>2 DEF Descriptors
  <2>3. QED
    BY <2>1, <2>2 DEF resolve_inner_map_references
<1>4. phase' \in {"failed", "read"}
  BY DEF resolve_inner_map_references
<1>5. FieldsKept'
  BY <1>1, <1>3 DEF Inv, FieldsKept
<1>6. NumbersMeanKeys'
  BY <1>1, <1>3 DEF Inv, NumbersMeanKeys, EquivalenceKey
<1>7. NoGap'
  <2>1. Fds' = Fds
    BY <1>2, <1>3 DEF Fds
  <2>2. ASSUME fresh PROVE Fds = 1..Cardinality(DOMAIN cache)
    <3>1. Fds \subseteq Image(cache)
      BY <1>1, <1>2 DEF Inv, MapsParsing, Fds, Image
    <3>2. Image(cache) \subseteq Fds
      BY <1>1, <2>2 DEF Inv, MapsParsing
    <3>3. QED
      BY <3>1, <3>2 DEF Inv, Numbers
  <2>3. Cardinality(DOMAIN cache) \in Nat
    BY FS_CardinalityType DEF Inv, Numbers
  <2>4. QED
    BY <1>1, <2>1, <2>2, <2>3 DEF NoGap
<1>8. MapsParsing' /\ BtfParsing'
  BY <1>1, <1>4 DEF MapsParsing, BtfParsing
<1>9. Numbers(cache)' /\ kind' \in {"maps", "btf"}
  BY <1>1 DEF Inv, Numbers, Image
<1>10. QED
  BY <1>5, <1>6, <1>7, <1>8, <1>9 DEF Inv

(* Type ids are appended; a type id that was there is the same definition. *)
LEMMA BtfStep ==
    ASSUME Inv, NEW def \in BtfDefs, parse_map_section(def)
    PROVE  Inv'
<1> DEFINE d == Descriptor(def, def.type_id, IF def.inner # 0 THEN def.inner ELSE DEFAULT_MAP_FD)
           n == Len(defs)
<1>1. /\ kind = "btf" /\ phase = "parsing"
      /\ UNCHANGED <<kind, phase, files, fresh, cache>>
      /\ map_descriptors' = Append(map_descriptors, d)
      /\ defs' = Append(defs, def)
  BY DEF parse_map_section
<1>2. /\ n \in Nat /\ Len(map_descriptors) = n
      /\ map_descriptors \in Seq(Descriptors)
      /\ defs \in Seq(BtfDefs)
      /\ \A i \in 1..n : map_descriptors[i].original_fd = defs[i].type_id
  BY <1>1 DEF Inv, FieldsKept, BtfParsing
<1>3. def \in [type_id : Nat, type : DOMAIN MapTypes, key_size : Nat, value_size : Nat,
               max_entries : Nat \ {0}, inner : Nat]
  BY DefsAssumption
<1>4. d \in Descriptors
  BY <1>3 DEF Descriptors, Descriptor, DEFAULT_MAP_FD
<1>5. /\ d.original_fd = def.type_id /\ d.type = def.type /\ d.key_size = def.key_size
      /\ d.value_size = def.value_size /\ d.max_entries = def.max_entries
  BY DEF Descriptor
<1> HIDE DEF d
<1>6. /\ map_descriptors' \in Seq(Descriptors) /\ Len(map_descriptors') = n + 1
      /\ \A i \in 1..n : map_descriptors'[i] = map_descriptors[i]
      /\ map_descriptors'[n + 1] = d
      /\ defs' \in Seq(BtfDefs) /\ defs' \in Seq(MapDefs \cup BtfDefs) /\ Len(defs') = n + 1
      /\ \A i \in 1..n : defs'[i] = defs[i]
      /\ defs'[n + 1] = def
  BY <1>1, <1>2, <1>4
<1> HIDE DEF n
<1>7. \A i \in 1..(n + 1) : i \in 1..n \/ i = n + 1
  BY <1>2
<1>8. FieldsKept'
  <2>1. d.original_fd \in Int
    BY <1>3, <1>5
  <2>2. QED
    BY <1>2, <1>5, <1>6, <1>7, <2>1 DEF Inv, FieldsKept, n
<1>9. \A i \in 1..(n + 1) : map_descriptors'[i].original_fd = defs'[i].type_id
  BY <1>2, <1>5, <1>6, <1>7
<1>10. NumbersMeanKeys'
  <2>1. \A i \in 1..(n + 1) : defs'[i] \in BtfDefs
    BY <1>2, <1>6
  <2>2. \A i, j \in 1..(n + 1) :
            map_descriptors'[i].original_fd = map_descriptors'[j].original_fd => defs'[i] = defs'[j]
    BY <1>9, <2>1, DefsAssumption
  <2>3. QED
    BY <1>6, <2>2 DEF NumbersMeanKeys, EquivalenceKey
<1>11. BtfParsing'
  <2>1. Fds = Ids(map_descriptors) /\ Fds' = Ids(map_descriptors')
    BY DEF Fds, Ids
  <2>2. Pseudo(map_descriptors)
    BY <1>1, <2>1, PseudoFdIsOf DEF Inv, BtfParsing, Pseudo
  <2>3. Pseudo(map_descriptors')
    BY <1>1, <1>2, <1>4, <2>2, PseudoAppend
  <2>4. \A id : PseudoFd(id)' = PseudoOf(map_descriptors', id)
    BY DEF PseudoFd, PseudoOf, First, Upto
  <2>5. /\ IsFiniteSet(Fds')
        /\ {PseudoFd(id)' : id \in Fds'} = 1..Cardinality(Fds')
        /\ \A id, other \in Fds' : PseudoFd(id)' = PseudoFd(other)' => id = other
    BY <2>1, <2>3, <2>4 DEF Pseudo
  <2>6. QED
    BY <1>6, <1>9, <2>5 DEF BtfParsing
<1>12. kind' = "btf" /\ Numbers(cache)' /\ MapsParsing' /\ NoGap'
  BY <1>1 DEF Inv, Numbers, Image, MapsParsing, NoGap
<1>13. QED
  BY <1>8, <1>10, <1>11, <1>12 DEF Inv

(* The pseudo numbers take the place of the type ids.                      *)
LEMMA PseudoStep == ASSUME Inv, AssignPseudoFds PROVE Inv'
<1>1. /\ kind = "btf" /\ phase = "parsing" /\ phase' = "read"
      /\ UNCHANGED <<kind, files, fresh, defs, cache>>
  BY DEF AssignPseudoFds
<1>2. map_descriptors \in Seq(Descriptors) /\ Len(map_descriptors) = Len(defs)
  BY <1>1 DEF Inv, BtfParsing, FieldsKept
<1>3. Len(map_descriptors') = Len(defs)
  <2>1. map_descriptors' = [i \in 1..Len(map_descriptors) |-> map_descriptors'[i]]
    BY DEF AssignPseudoFds
  <2>2. QED
    BY <1>2, <2>1
<1>4. ASSUME NEW i \in 1..Len(defs)
      PROVE  /\ map_descriptors'[i].original_fd = PseudoFd(map_descriptors[i].original_fd)
             /\ map_descriptors'[i].type = map_descriptors[i].type
             /\ map_descriptors'[i].key_size = map_descriptors[i].key_size
             /\ map_descriptors'[i].value_size = map_descriptors[i].value_size
             /\ map_descriptors'[i].max_entries = map_descriptors[i].max_entries
  <2> DEFINE m == map_descriptors[i]
  <2>1. m \in Descriptors
    BY <1>2
  <2>2. map_descriptors'[i] =
          [m EXCEPT !.original_fd = PseudoFd(m.original_fd),
                    !.inner_map_fd = IF m.inner_map_fd # DEFAULT_MAP_FD
                                     THEN PseudoFd(m.inner_map_fd) ELSE m.inner_map_fd]
    BY <1>2 DEF AssignPseudoFds
  <2>3. QED
    BY <2>1, <2>2 DEF Descriptors
<1>5. \A i \in 1..Len(defs) : map_descriptors[i].original_fd \in Fds
  BY <1>2 DEF Fds
<1>6. FieldsKept'
  <2>1. \A id \in Fds : PseudoFd(id) \in 1..Cardinality(Fds)
    BY <1>1 DEF Inv, BtfParsing
  <2>2. \A i \in 1..Len(defs) : map_descriptors'[i].original_fd \in Int
    BY <1>4, <1>5, <2>1
  <2>3. QED
    BY <1>1, <1>3, <1>4, <2>2 DEF Inv, FieldsKept
<1>7. NumbersMeanKeys'
  <2>1. ASSUME NEW i \in 1..Len(defs), NEW j \in 1..Len(defs),
               map_descriptors'[i].original_fd = map_descriptors'[j].original_fd
        PROVE  EquivalenceKey(defs[i]) = EquivalenceKey(defs[j])
    <3>1. map_descriptors[i].original_fd = map_descriptors[j].original_fd
      BY <1>1, <1>4, <1>5, <2>1 DEF Inv, BtfParsing
    <3>2. QED
      BY <3>1 DEF Inv, NumbersMeanKeys
  <2>2. QED
    BY <1>1, <2>1 DEF NumbersMeanKeys, EquivalenceKey
<1>8. NoGap'
  <2>1. Fds' = {PseudoFd(id) : id \in Fds}
    <3>1. Fds' = {map_descriptors'[i].original_fd : i \in 1..Len(defs)}
      BY <1>3 DEF Fds
    <3>2. Fds = {map_descriptors[i].original_fd : i \in 1..Len(defs)}
      BY <1>2 DEF Fds
    <3>3. QED
      BY <1>4, <3>1, <3>2
  <2>2. Fds' = 1..Cardinality(Fds) /\ Cardinality(Fds) \in Nat
    BY <1>1, <2>1, FS_CardinalityType DEF Inv, BtfParsing
  <2>3. QED
    BY <2>2 DEF NoGap
<1>9. MapsParsing' /\ BtfParsing' /\ Numbers(cache)' /\ kind' = "btf"
  BY <1>1 DEF Inv, MapsParsing, BtfParsing, Numbers, Image
<1>10. QED
  BY <1>6, <1>7, <1>8, <1>9 DEF Inv

LEMMA UnmarshalStep == ASSUME Inv, unmarshal PROVE Inv'
<1>1. /\ phase = "read" /\ phase' = "analysing" /\ cache' = <<>>
      /\ UNCHANGED <<kind, files, fresh, defs, map_descriptors>>
  BY DEF unmarshal
<1>2. Numbers(cache')
  <2>1. DOMAIN cache' = {} /\ Image(cache') = {}
    BY <1>1 DEF Image
  <2>2. Cardinality(DOMAIN cache') = 0 /\ IsFiniteSet(DOMAIN cache')
    BY <2>1, FS_EmptySet
  <2>3. QED
    BY <2>1, <2>2 DEF Numbers
<1>3. NoGap'
  BY <1>1 DEF Inv, NoGap, Fds
<1>4. QED
  BY <1>1, <1>2, <1>3
     DEF Inv, Numbers, Image, FieldsKept, NumbersMeanKeys, EquivalenceKey, MapsParsing, BtfParsing

(* Another file begins without descriptors and with the cache as it is.    *)
LEMMA ReadStep == ASSUME Inv, read_elf PROVE Inv'
<1>1. /\ kind' \in {"maps", "btf"} /\ phase' = "parsing" /\ fresh' = (cache = <<>>)
      /\ defs' = <<>> /\ map_descriptors' = <<>> /\ cache' = cache
  BY DEF read_elf
<1>2. Fds' = {}
  BY <1>1 DEF Fds
<1>3. FieldsKept' /\ NumbersMeanKeys'
  BY <1>1 DEF FieldsKept, NumbersMeanKeys
<1>4. MapsParsing'
  <2>1. fresh' => cache = <<>>
    BY <1>1, Zenon
  <2>2. fresh' => Image(cache') = {}
    BY <1>1, <2>1 DEF Image
  <2>3. QED
    BY <1>1, <2>2 DEF MapsParsing
<1>5. BtfParsing'
  <2>1. Cardinality(Fds') = 0 /\ IsFiniteSet(Fds')
    BY <1>2, FS_EmptySet
  <2>2. QED
    BY <1>1, <1>2, <2>1 DEF BtfParsing
<1>6. Numbers(cache)' /\ NoGap'
  BY <1>1 DEF Inv, Numbers, Image, NoGap
<1>7. QED
  BY <1>1, <1>3, <1>4, <1>5, <1>6 DEF Inv

LEMMA StutterStep == ASSUME Inv, UNCHANGED vars PROVE Inv'
<1>1. UNCHANGED <<kind, phase, files, fresh, defs, cache, map_descriptors>>
  BY DEF vars
<1>2. Numbers(cache)' /\ FieldsKept' /\ NumbersMeanKeys'
  BY <1>1 DEF Inv, Numbers, Image, FieldsKept, NumbersMeanKeys, EquivalenceKey
<1>3. Fds' = Fds
  BY <1>1 DEF Fds
<1>4. MapsParsing' /\ NoGap'
  BY <1>1, <1>3 DEF Inv, Image, MapsParsing, EquivalenceKey, NoGap
<1>5. BtfParsing'
  <2>1. \A id : PseudoFd(id)' = PseudoFd(id)
    BY <1>1 DEF PseudoFd
  <2>2. QED
    BY <1>1, <1>3, <2>1 DEF Inv, BtfParsing
<1>6. QED
  BY <1>1, <1>2, <1>4, <1>5 DEF Inv

(* Invariance: the inductive invariant holds of every behaviour.           *)
THEOREM Invariance == Spec => []Inv
<1>1. Init => Inv
  BY InitInv
<1>2. Inv /\ [Next]_vars => Inv'
  BY MapStep, ResolveStep, BtfStep, PseudoStep, UnmarshalStep, ReadStep, StutterStep DEF Next
<1>3. QED
  BY <1>1, <1>2, PTL DEF Spec

-----------------------------------------------------------------------------
LEMMA SequentialFromInv == Inv => FreshFdsSequential
<1> SUFFICES ASSUME Inv, Loaded, kind = "btf" \/ fresh PROVE Sequential
  BY DEF FreshFdsSequential
<1>1. PICK n \in Nat : Fds = 1..n
  BY DEF Inv, NoGap, Loaded
<1>2. Cardinality(1..n) = n
  BY FS_Interval
<1>3. ASSUME NEW r \in Ranges PROVE ~ Throws(r[1], r[2])
  <2>1. r[1] \in 1..n /\ r[2] \in 1..n
    BY <1>1 DEF Ranges
  <2>2. r[1]..r[2] \subseteq 1..n
    BY <2>1
  <2>3. QED
    BY <1>1, <2>2 DEF Throws
<1>4. QED
  BY <1>1, <1>2, <1>3 DEF Sequential

(* What is found under a map's number has its key.                         *)
LEMMA FoundMap ==
    ASSUME Inv, NEW fd \in Fds
    PROVE  \E k \in 1..Len(defs) :
              /\ find_map_descriptor(fd) = map_descriptors[k]
              /\ map_descriptors[k].original_fd = fd
<1>1. Len(map_descriptors) = Len(defs) /\ Len(defs) \in Nat
  BY DEF Inv, FieldsKept
<1>2. fd \in Ids(map_descriptors)
  BY DEF Fds, Ids
<1> DEFINE k == CHOOSE i \in 1..Len(map_descriptors) :
                   /\ map_descriptors[i].original_fd = fd
                   /\ \A j \in 1..(i - 1) : map_descriptors[j].original_fd # fd
<1>3. k \in 1..Len(map_descriptors) /\ map_descriptors[k].original_fd = fd
  BY <1>1, <1>2, FirstExists
<1>4. find_map_descriptor(fd) = map_descriptors[k]
  BY DEF find_map_descriptor
<1> HIDE DEF k
<1>5. QED
  BY <1>1, <1>3, <1>4

(* A map of the file and the one found under its number are alike.         *)
LEMMA AlikeFound ==
    ASSUME Inv, NEW i \in 1..Len(defs)
    PROVE  LET fd == map_descriptors[i].original_fd
               found == find_map_descriptor(fd)
           IN  /\ fd \in Fds
               /\ found.key_size = defs[i].key_size /\ found.key_size \in Nat
               /\ found.value_size = defs[i].value_size /\ found.value_size \in Nat
               /\ found.type \in DOMAIN MapTypes /\ defs[i].type \in DOMAIN MapTypes
               /\ MapTypes[found.type].value_type = MapTypes[defs[i].type].value_type
               /\ found.max_entries \in Nat
               /\ MapTypes[defs[i].type].is_array => found.max_entries = defs[i].max_entries
<1> DEFINE fd == map_descriptors[i].original_fd
<1>1. fd \in Fds
  BY DEF Inv, FieldsKept, Fds
<1>2. PICK k \in 1..Len(defs) : /\ find_map_descriptor(fd) = map_descriptors[k]
                                /\ map_descriptors[k].original_fd = fd
  BY <1>1, FoundMap
<1>3. EquivalenceKey(defs[k]) = EquivalenceKey(defs[i])
  BY <1>2 DEF Inv, NumbersMeanKeys
<1>4. /\ map_descriptors[k].type = defs[k].type
      /\ map_descriptors[k].key_size = defs[k].key_size
      /\ map_descriptors[k].value_size = defs[k].value_size
      /\ map_descriptors[k].max_entries = defs[k].max_entries
  BY DEF Inv, FieldsKept
<1>5. ASSUME NEW j \in 1..Len(defs)
      PROVE  /\ defs[j].type \in DOMAIN MapTypes /\ defs[j].key_size \in Nat
             /\ defs[j].value_size \in Nat /\ defs[j].max_entries \in Nat \ {0}
  <2>1. defs[j] \in MapDefs \cup BtfDefs
    BY DEF Inv, FieldsKept
  <2>2. QED
    BY <2>1, DefsAssumption
<1>6. /\ MapTypes[defs[k].type].value_type = MapTypes[defs[i].type].value_type
      /\ defs[k].key_size = defs[i].key_size
      /\ defs[k].value_size = defs[i].value_size
      /\ (IF MapTypes[defs[k].type].is_array THEN defs[k].max_entries ELSE 0) =
         (IF MapTypes[defs[i].type].is_array THEN defs[i].max_entries ELSE 0)
  BY <1>3 DEF EquivalenceKey
<1>7. QED
  BY <1>1, <1>2, <1>4, <1>5, <1>6

LEMMA SizesFromInv == Inv => SizesCovered
<1> SUFFICES ASSUME Inv, Loaded, NEW r \in Ranges, ~ Throws(r[1], r[2]), NEW i \in MapsIn(r)
             PROVE  /\ Covers(r[1], r[2], "key_size", defs[i].key_size)
                    /\ Covers(r[1], r[2], "value_size", defs[i].value_size)
                    /\ MapTypes[defs[i].type].is_array =>
                         Covers(r[1], r[2], "max_entries", defs[i].max_entries)
  BY DEF SizesCovered
<1> DEFINE fd == map_descriptors[i].original_fd
<1>1. i \in 1..Len(defs) /\ fd \in r[1]..r[2]
  BY DEF MapsIn
<1> DEFINE found == find_map_descriptor(fd)
<1>2. /\ found.key_size = defs[i].key_size /\ found.key_size \in Nat
      /\ found.value_size = defs[i].value_size /\ found.value_size \in Nat
      /\ found.max_entries \in Nat
      /\ MapTypes[defs[i].type].is_array => found.max_entries = defs[i].max_entries
  BY <1>1, AlikeFound
<1>3. \A field, value : found[field] \in Nat /\ found[field] = value =>
                         Covers(r[1], r[2], field, value)
  BY <1>1 DEF Covers
<1> HIDE DEF found
<1>4. QED
  BY <1>2, <1>3

LEMMA KindsFromInv == Inv => LookupKindKnown
<1> SUFFICES ASSUME Inv, Loaded, NEW r \in Ranges, ~ Throws(r[1], r[2]),
                    get_map_type(r[1], r[2]) # NoValue, NEW i \in MapsIn(r)
             PROVE  MapTypes[defs[i].type].value_type = MapTypes[get_map_type(r[1], r[2])].value_type
  BY DEF LookupKindKnown
<1> DEFINE fd == map_descriptors[i].original_fd
           type == get_map_type(r[1], r[2])
<1>1. i \in 1..Len(defs) /\ fd \in r[1]..r[2]
  BY DEF MapsIn
<1>2. find_map_descriptor(fd).type = type
  <2>1. /\ type = find_map_descriptor(r[1]).type
        /\ \A other \in (r[1] + 1)..r[2] : find_map_descriptor(other).type = type
    BY DEF get_map_type
  <2>2. r[1] \in Int /\ r[2] \in Int
    BY DEF Ranges, Fds, Inv, FieldsKept
  <2>3. fd = r[1] \/ fd \in (r[1] + 1)..r[2]
    BY <1>1, <2>2
  <2>4. QED
    BY <2>1, <2>3
<1>3. QED
  BY <1>1, <1>2, AlikeFound

(* NumbersSequential: however many files a thread has read, in a file of   *)
(* the newer format, or one read with an empty cache, the numbers are 1 up *)
(* to their count, and no query on a range of them throws.                 *)
THEOREM NumbersSequential == Spec => []FreshFdsSequential
  BY Invariance, SequentialFromInv, PTL

(* SharedNumbersHarmless: maps that look alike share a number, and every   *)
(* size the analysis asks for covers the maps that may be meant.           *)
THEOREM SharedNumbersHarmless == Spec => []SizesCovered
  BY Invariance, SizesFromInv, PTL

(* KindsKnown: a range of numbers said to have one type has maps of its    *)
(* kind only.                                                              *)
THEOREM KindsKnown == Spec => []LookupKindKnown
  BY Invariance, KindsFromInv, PTL
=============================================================================
