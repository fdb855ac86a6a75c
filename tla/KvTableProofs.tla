--------------------------- MODULE KvTableProofs ---------------------------
(***************************************************************************)
(* Proofs about the table of the key-value store (lab 3, kvstore.c), for   *)
(* tables of any size and any keys, values and heap: what each call does,  *)
(* and that every call keeps the table in order.  KvStoreProofs and the    *)
(* proofs about the dbserver build on them.                                *)
(***************************************************************************)
EXTENDS KvTable, TLAPS

(* The facts about numbers and finite sets that the arguments use.  The     *)
(* modules at the end of the arguments, which have the theorems of the      *)
(* library at hand, prove them.                                             *)
MinLaw == \A S \in SUBSET Nat : S # {} => \E i \in S : \A j \in S : i <= j
EmptyLaw == Cardinality({}) = 0
IntervalLaw == \A i, j \in Int : IsFiniteSet(i..j)
SpanLaw == \A i \in Nat : Cardinality(0..(i - 1)) = i
SizeLaw == \A S : IsFiniteSet(S) => Cardinality(S) \in Nat
SubsetLaw == \A S, T : IsFiniteSet(T) /\ S \subseteq T => IsFiniteSet(S)
PartLaw == \A S, T : IsFiniteSet(T) /\ S \subseteq T =>
             /\ Cardinality(S) <= Cardinality(T)
             /\ Cardinality(S) = Cardinality(T) => S = T
AddLaw == \A S, x : IsFiniteSet(S) =>
            /\ IsFiniteSet(S \cup {x})
            /\ x \notin S => Cardinality(S \cup {x}) = Cardinality(S) + 1
RemoveLaw == \A S, x : IsFiniteSet(S) =>
               /\ IsFiniteSet(S \ {x})
               /\ x \in S => Cardinality(S \ {x}) = Cardinality(S) - 1
BijectionLaw == \A S, T, f :
  /\ IsFiniteSet(S) /\ f \in [S -> T]
  /\ \A i, j \in S : f[i] = f[j] => i = j
  /\ \A t \in T : \E i \in S : f[i] = t
  => Cardinality(T) = Cardinality(S)
Counting == /\ MinLaw /\ EmptyLaw /\ IntervalLaw /\ SpanLaw /\ SizeLaw /\ SubsetLaw
            /\ PartLaw /\ AddLaw /\ RemoveLaw /\ BijectionLaw

\* kvstore.h: there are slots, and no key, value (from V) or buffer is the missing one.
Grounds(V) == /\ Counting
              /\ TABLE_MAX \in Nat \ {0}
              /\ Missing \notin V \cup Key
              /\ NULL \notin Bufs

\* Every used slot owns a live buffer and has a key, no two slots own the same
\* buffer, and every live buffer is owned.
SlotInv ==
  /\ \A i \in UsedSlots : /\ values[i] \in Bufs /\ heap[values[i]] # Missing
                          /\ keys[i].key \in Key
  /\ \A b \in Bufs : heap[b] # Missing => \E i \in UsedSlots : values[i] = b
  /\ \A i, j \in UsedSlots : values[i] = values[j] => i = j

\* The inductive invariant of all calls.
TableInv(V) == TableType(V) /\ SlotInv

-----------------------------------------------------------------------------
(* The loops that scan the table.                                          *)

\* What the loops return: the first match, or -1.
LEMMA FirstMatch ==
  ASSUME Counting, NEW S \in SUBSET Nat
  PROVE  /\ S = {} => First(S) = -1
         /\ S # {} => First(S) \in S /\ \A j \in S : First(S) <= j
         /\ First(S) >= 0 <=> S # {}
         /\ First(S) \in Int
<1>1. S = {} => First(S) = -1
  BY DEF First
<1>2. S # {} => First(S) \in S /\ \A j \in S : First(S) <= j
  <2>1. S # {} => \E i \in S : \A j \in S : i <= j
    BY DEF Counting, MinLaw
  <2> QED BY <2>1, Zenon DEF First
<1>3. S # {} => First(S) \in Nat
  BY <1>2
<1> HIDE DEF First
<1> QED BY <1>1, <1>2, <1>3

\* find_key finds the first used slot with the key.
LEMMA FindKey ==
  ASSUME Counting, TABLE_MAX \in Nat, NEW k
  PROVE  /\ find_key(k) \in Int
         /\ find_key(k) >= 0 => /\ find_key(k) \in UsedSlots
                                /\ keys[find_key(k)].key = k
         /\ find_key(k) < 0 => \A i \in UsedSlots : keys[i].key # k
<1> DEFINE S == {i \in UsedSlots : keys[i].key = k}
<1>1. S \in SUBSET Nat
  BY DEF UsedSlots, Slots
<1>2. find_key(k) = First(S)
  BY DEF find_key
<1> QED BY <1>1, <1>2, FirstMatch

\* The used slots can be counted: when fewer than TABLE_MAX are used,
\* get_new_index finds a free one, and otherwise there is none.
LEMMA NewIndex ==
  ASSUME Counting, TABLE_MAX \in Nat, keys \in [Slots -> [stat : {FREE, USED}, key : Key \cup {Missing}]]
  PROVE  /\ key_len \in Nat /\ IsFiniteSet(UsedSlots)
         /\ key_len < TABLE_MAX => /\ get_new_index \in Slots \ UsedSlots
                                   /\ keys[get_new_index].stat = FREE
         /\ key_len >= TABLE_MAX => UsedSlots = Slots /\ key_len = TABLE_MAX
<1>1. IsFiniteSet(Slots) /\ Cardinality(Slots) = TABLE_MAX
  BY DEF Slots, Counting, IntervalLaw, SpanLaw
<1>2. UsedSlots \in SUBSET Slots
  BY DEF UsedSlots
<1>3. /\ IsFiniteSet(UsedSlots) /\ key_len \in Nat /\ key_len <= TABLE_MAX
      /\ key_len = TABLE_MAX => UsedSlots = Slots
  BY <1>1, <1>2 DEF key_len, Counting, SubsetLaw, PartLaw, SizeLaw
<1>4. ASSUME key_len < TABLE_MAX
      PROVE  get_new_index \in Slots \ UsedSlots /\ keys[get_new_index].stat = FREE
  <2> DEFINE S == {i \in Slots : keys[i].stat = FREE}
  <2>1. UsedSlots # Slots
    BY <1>1, <1>4 DEF key_len
  <2>2. S # {}
    BY <2>1, <1>2 DEF UsedSlots
  <2>3. S \in SUBSET Nat
    BY DEF Slots
  <2>4. First(S) \in S
    BY <2>2, <2>3, FirstMatch
  <2> QED BY <2>4 DEF get_new_index, UsedSlots, FREE, USED
<1> QED BY <1>3, <1>4

-----------------------------------------------------------------------------
(* The invariant.                                                          *)

\* An overwrite exchanges the buffer of the key's slot i for the fresh buffer b and
\* frees the old one.
Overwritten(V, k, v, i, b) ==
  /\ i \in Slots /\ i = find_key(k) /\ keys[i].key = k
  /\ heap[b] = Missing /\ values[i] \in Bufs /\ b # values[i]
  /\ keys' = keys /\ UsedSlots' = UsedSlots
  /\ heap' \in [Bufs -> V \cup {Missing}]
  /\ heap'[b] = v /\ heap'[values[i]] = Missing
  /\ \A c \in Bufs : c # b /\ c # values[i] => heap'[c] = heap[c]
  /\ values' \in [Slots -> Bufs \cup {NULL}]
  /\ values'[i] = b /\ \A j \in Slots : j # i => values'[j] = values[j]
  /\ res' = [op |-> "write", key |-> k, val |-> v, ret |-> 0]

\* kv_write of a key that is there: its slot gets a new buffer and the old one is freed.
LEMMA OverwriteEffect ==
  ASSUME NEW V, Grounds(V), TableInv(V), NEW k \in Key, NEW v \in V, Overwrite(k, v)
  PROVE  \E i \in UsedSlots, b \in Bufs : Overwritten(V, k, v, i, b)
<1> DEFINE i == find_key(k)
<1>1. i \in UsedSlots /\ keys[i].key = k
  BY FindKey DEF Grounds, Overwrite
<1>2. PICK b \in Unallocated :
        /\ heap' = Free(calloc_val(heap, b, v), values[i])
        /\ values' = [values EXCEPT ![i] = b]
  BY DEF Overwrite
<1>3. /\ keys' = keys /\ UsedSlots' = UsedSlots /\ i = find_key(k)
      /\ res' = [op |-> "write", key |-> k, val |-> v, ret |-> 0]
  BY DEF Overwrite, UsedSlots, Returns
<1> HIDE DEF i
<1>4. /\ b \in Bufs /\ heap[b] = Missing /\ values[i] \in Bufs /\ b # values[i]
      /\ heap[values[i]] # Missing /\ i \in Slots
  BY <1>1 DEF Unallocated, TableInv, SlotInv, UsedSlots
<1>5. /\ heap' \in [Bufs -> V \cup {Missing}] /\ values' \in [Slots -> Bufs \cup {NULL}]
      /\ heap'[b] = v /\ heap'[values[i]] = Missing
      /\ \A c \in Bufs : c # b /\ c # values[i] => heap'[c] = heap[c]
      /\ values'[i] = b /\ \A j \in Slots : j # i => values'[j] = values[j]
  BY <1>2, <1>4 DEF TableInv, TableType, Free, calloc_val
<1>6. Overwritten(V, k, v, i, b)
  BY <1>1, <1>3, <1>4, <1>5 DEF Overwritten
<1> QED BY <1>1, <1>4, <1>6

\* An overwrite keeps the invariant.
LEMMA OverwriteKeeps ==
  ASSUME NEW V, Grounds(V), TableInv(V), NEW k \in Key, NEW v \in V, Overwrite(k, v)
  PROVE  TableInv(V)'
<1>1. PICK i \in UsedSlots, b \in Bufs : Overwritten(V, k, v, i, b)
  BY OverwriteEffect
<1>2. TableType(V)'
  BY <1>1 DEF TableInv, TableType, Overwritten
<1>3. \A j \in UsedSlots : j # i => values[j] # b /\ values[j] # values[i] /\ values[j] \in Bufs
  BY <1>1 DEF TableInv, SlotInv, Overwritten
<1>4. \A j \in UsedSlots : /\ values'[j] \in Bufs /\ heap'[values'[j]] # Missing
                           /\ keys'[j].key \in Key
  BY <1>1, <1>3 DEF TableInv, SlotInv, UsedSlots, Grounds, Overwritten
<1>5. \A c \in Bufs : heap'[c] # Missing => \E j \in UsedSlots : values'[j] = c
  <2> SUFFICES ASSUME NEW c \in Bufs, heap'[c] # Missing
               PROVE  \E j \in UsedSlots : values'[j] = c
    OBVIOUS
  <2>1. CASE c = b
    BY <1>1, <2>1 DEF Overwritten
  <2>2. CASE c # b
    <3>1. c # values[i] /\ heap[c] # Missing
      BY <1>1, <2>2 DEF Overwritten
    <3>2. PICK j \in UsedSlots : values[j] = c
      BY <3>1 DEF TableInv, SlotInv
    <3> QED BY <1>1, <3>1, <3>2 DEF UsedSlots, Overwritten
  <2> QED BY <2>1, <2>2
<1>6. \A j, m \in UsedSlots : values'[j] = values'[m] => j = m
  BY <1>1, <1>3 DEF TableInv, SlotInv, UsedSlots, Overwritten
<1>7. UsedSlots' = UsedSlots
  BY <1>1 DEF Overwritten
<1> QED BY <1>2, <1>4, <1>5, <1>6, <1>7 DEF TableInv, SlotInv

\* An insertion uses a free slot i and a fresh buffer b.
Inserted(V, k, v, i, b) ==
  /\ heap[b] = Missing /\ \A j \in UsedSlots : values[j] \in Bufs /\ values[j] # b
  /\ heap' \in [Bufs -> V \cup {Missing}]
  /\ heap'[b] = v /\ \A c \in Bufs : c # b => heap'[c] = heap[c]
  /\ values' \in [Slots -> Bufs \cup {NULL}]
  /\ values'[i] = b /\ \A j \in Slots : j # i => values'[j] = values[j]
  /\ keys' \in [Slots -> [stat : {FREE, USED}, key : Key \cup {Missing}]]
  /\ keys'[i].key = k /\ \A j \in Slots : j # i => keys'[j] = keys[j]
  /\ UsedSlots' = UsedSlots \cup {i}
  /\ res' = [op |-> "write", key |-> k, val |-> v, ret |-> 0]

\* kv_write of a key that is not there: a free slot gets the key and a new buffer.
LEMMA InsertEffect ==
  ASSUME NEW V, Grounds(V), TableInv(V), NEW k \in Key, NEW v \in V, Insert(k, v)
  PROVE  \E i \in Slots \ UsedSlots, b \in Bufs : Inserted(V, k, v, i, b)
<1> DEFINE i == get_new_index
<1>1. i \in Slots \ UsedSlots
  BY NewIndex DEF Grounds, Insert, TableInv, TableType
<1>2. PICK b \in Unallocated :
        heap' = calloc_val(heap, b, v) /\ values' = [values EXCEPT ![i] = b]
  BY DEF Insert
<1>3. /\ keys' = [keys EXCEPT ![i] = [stat |-> USED, key |-> k]]
      /\ res' = [op |-> "write", key |-> k, val |-> v, ret |-> 0]
  BY DEF Insert, Returns
<1> HIDE DEF i
<1>4. b \in Bufs /\ heap[b] = Missing /\ \A j \in UsedSlots : values[j] \in Bufs /\ values[j] # b
  BY DEF Unallocated, TableInv, SlotInv
<1>5. /\ heap' \in [Bufs -> V \cup {Missing}] /\ values' \in [Slots -> Bufs \cup {NULL}]
      /\ heap'[b] = v /\ \A c \in Bufs : c # b => heap'[c] = heap[c]
      /\ values'[i] = b /\ \A j \in Slots : j # i => values'[j] = values[j]
  BY <1>1, <1>2, <1>4 DEF TableInv, TableType, calloc_val
<1>6. /\ keys' \in [Slots -> [stat : {FREE, USED}, key : Key \cup {Missing}]]
      /\ keys'[i].key = k /\ keys'[i].stat = USED
      /\ \A j \in Slots : j # i => keys'[j] = keys[j]
  BY <1>1, <1>3 DEF TableInv, TableType
<1>7. UsedSlots' = UsedSlots \cup {i}
  BY <1>1, <1>6 DEF UsedSlots
<1>8. Inserted(V, k, v, i, b)
  BY <1>3, <1>4, <1>5, <1>6, <1>7 DEF Inserted
<1> QED BY <1>1, <1>4, <1>8

\* An insertion keeps the invariant.
LEMMA InsertKeeps ==
  ASSUME NEW V, Grounds(V), TableInv(V), NEW k \in Key, NEW v \in V, Insert(k, v)
  PROVE  TableInv(V)'
<1>1. PICK i \in Slots \ UsedSlots, b \in Bufs : Inserted(V, k, v, i, b)
  BY InsertEffect
<1>2. TableType(V)'
  BY <1>1 DEF TableInv, TableType, Inserted
<1>3. \A j \in UsedSlots : j \in Slots /\ j # i
  BY DEF UsedSlots
<1>4. \A j \in UsedSlots' : /\ values'[j] \in Bufs /\ heap'[values'[j]] # Missing
                            /\ keys'[j].key \in Key
  BY <1>1, <1>3 DEF TableInv, SlotInv, Grounds, Inserted
<1>5. \A c \in Bufs : heap'[c] # Missing => \E j \in UsedSlots' : values'[j] = c
  <2> SUFFICES ASSUME NEW c \in Bufs, heap'[c] # Missing
               PROVE  \E j \in UsedSlots' : values'[j] = c
    OBVIOUS
  <2>1. CASE c = b
    BY <1>1, <2>1 DEF Inserted
  <2>2. CASE c # b
    <3>1. PICK j \in UsedSlots : values[j] = c
      BY <1>1, <2>2 DEF TableInv, SlotInv, Inserted
    <3> QED BY <1>1, <1>3, <3>1 DEF Inserted
  <2> QED BY <2>1, <2>2
<1>6. \A j, m \in UsedSlots' : values'[j] = values'[m] => j = m
  BY <1>1, <1>3 DEF TableInv, SlotInv, Inserted
<1> QED BY <1>2, <1>4, <1>5, <1>6 DEF TableInv, SlotInv

\* A delete frees the key's slot i together with its buffer.
Deleted(V, k, i) ==
  /\ i \in Slots /\ i = find_key(k) /\ keys[i].key = k /\ values[i] \in Bufs
  /\ keys' \in [Slots -> [stat : {FREE, USED}, key : Key \cup {Missing}]]
  /\ \A j \in Slots : j # i => keys'[j] = keys[j]
  /\ UsedSlots' = UsedSlots \ {i}
  /\ heap' \in [Bufs -> V \cup {Missing}] /\ heap'[values[i]] = Missing
  /\ \A c \in Bufs : c # values[i] => heap'[c] = heap[c]

\* kv_delete: the slot of the key is freed with its buffer; without a slot nothing changes.
LEMMA DeleteEffect ==
  ASSUME NEW V, Grounds(V), TableInv(V), NEW k \in Key, kv_delete(k)
  PROVE  /\ values' = values /\ res' = [op |-> "delete", key |-> k, val |-> Missing, ret |-> 0]
         /\ find_key(k) < 0 => keys' = keys /\ heap' = heap
         /\ find_key(k) >= 0 => \E i \in UsedSlots : Deleted(V, k, i)
<1> DEFINE i == find_key(k)
<1>1. values' = values /\ res' = [op |-> "delete", key |-> k, val |-> Missing, ret |-> 0]
  BY DEF kv_delete, Returns
<1>2. find_key(k) < 0 => keys' = keys /\ heap' = heap
  BY FindKey DEF kv_delete, Grounds
<1>3. ASSUME find_key(k) >= 0 PROVE \E j \in UsedSlots : Deleted(V, k, j)
  <2>1. i \in UsedSlots /\ keys[i].key = k /\ i = find_key(k)
    BY <1>3, FindKey DEF Grounds
  <2>2. keys' = [keys EXCEPT ![i].stat = FREE] /\ heap' = Free(heap, values[i])
    BY <1>3 DEF kv_delete
  <2> HIDE DEF i
  <2>3. i \in Slots /\ values[i] \in Bufs
    BY <2>1 DEF TableInv, SlotInv, UsedSlots
  <2>4. /\ keys' \in [Slots -> [stat : {FREE, USED}, key : Key \cup {Missing}]]
        /\ keys'[i].stat = FREE /\ \A j \in Slots : j # i => keys'[j] = keys[j]
    BY <2>2, <2>3 DEF TableInv, TableType
  <2>5. /\ heap' \in [Bufs -> V \cup {Missing}] /\ heap'[values[i]] = Missing
        /\ \A c \in Bufs : c # values[i] => heap'[c] = heap[c]
    BY <2>2, <2>3 DEF TableInv, TableType, Free
  <2>6. UsedSlots' = UsedSlots \ {i}
    BY <2>4 DEF UsedSlots, FREE, USED
  <2>7. Deleted(V, k, i)
    BY <2>1, <2>3, <2>4, <2>5, <2>6 DEF Deleted
  <2> QED BY <2>1, <2>7
<1> QED BY <1>1, <1>2, <1>3

\* kv_delete keeps the invariant.
LEMMA DeleteKeeps ==
  ASSUME NEW V, Grounds(V), TableInv(V), NEW k \in Key, kv_delete(k)
  PROVE  TableInv(V)'
<1>0. values' = values /\ res' = [op |-> "delete", key |-> k, val |-> Missing, ret |-> 0]
  BY DeleteEffect
<1>1. CASE find_key(k) < 0
  <2>1. keys' = keys /\ heap' = heap /\ UsedSlots' = UsedSlots
    BY <1>1, DeleteEffect DEF UsedSlots
  <2> QED BY <1>0, <2>1 DEF TableInv, TableType, SlotInv
<1>2. CASE find_key(k) >= 0
  <2>1. PICK i \in UsedSlots : Deleted(V, k, i)
    BY <1>2, DeleteEffect
  <2>2. TableType(V)'
    BY <1>0, <2>1 DEF TableInv, TableType, Deleted
  <2>3. \A j \in UsedSlots' : values[j] # values[i] /\ j \in UsedSlots /\ keys'[j] = keys[j]
    BY <2>1 DEF TableInv, SlotInv, UsedSlots, Deleted
  <2>4. \A j \in UsedSlots' : /\ values[j] \in Bufs /\ heap'[values[j]] # Missing
                              /\ keys'[j].key \in Key
    BY <2>1, <2>3 DEF TableInv, SlotInv, Deleted
  <2>5. \A c \in Bufs : heap'[c] # Missing => \E j \in UsedSlots' : values[j] = c
    BY <2>1 DEF TableInv, SlotInv, Deleted
  <2> QED BY <1>0, <2>2, <2>3, <2>4, <2>5 DEF TableInv, SlotInv
<1> QED BY <1>1, <1>2, FindKey DEF Grounds

\* A read, and a write to a full table, change nothing but the result.
LEMMA ReadKeeps ==
  ASSUME NEW V, Grounds(V), TableInv(V), NEW k \in Key, kv_read(k)
  PROVE  TableInv(V)'
<1>1. UNCHANGED <<keys, values, heap>> /\ UsedSlots' = UsedSlots
  BY DEF kv_read, UsedSlots
<1>2. (IF find_key(k) >= 0 THEN heap[values[find_key(k)]] ELSE Missing) \in V \cup {Missing}
  BY FindKey DEF Grounds, TableInv, TableType, SlotInv
<1>3. res' = [op |-> "read", key |-> k, val |-> Missing,
              ret |-> IF find_key(k) >= 0 THEN heap[values[find_key(k)]] ELSE Missing]
  BY DEF kv_read, Returns
<1>4. TableType(V)'
  BY <1>1, <1>2, <1>3 DEF TableInv, TableType
<1> QED BY <1>1, <1>4 DEF TableInv, SlotInv

\* kv_write that finds no free slot keeps the invariant.
LEMMA TableFullKeeps ==
  ASSUME NEW V, Grounds(V), TableInv(V), NEW k \in Key, NEW v \in V, TableFull(k, v)
  PROVE  TableInv(V)'
<1>1. UNCHANGED <<keys, values, heap>> /\ UsedSlots' = UsedSlots
  BY DEF TableFull, UsedSlots
<1>2. TableType(V)'
  BY <1>1 DEF TableInv, TableType, TableFull, Returns
<1> QED BY <1>1, <1>2 DEF TableInv, SlotInv

\* The empty table satisfies it.
LEMMA InitTable ==
  ASSUME NEW V, Grounds(V), TableInit
  PROVE  TableInv(V)
<1>1. UsedSlots = {}
  BY DEF TableInit, UsedSlots, FREE, USED
<1>2. TableType(V)
  BY DEF TableInit, TableType
<1> QED BY <1>1, <1>2 DEF TableInit, TableInv, SlotInv
=============================================================================
