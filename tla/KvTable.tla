------------------------------- MODULE KvTable -------------------------------
(***************************************************************************)
(* The table of the key-value store (lab 3, kvstore.c): TABLE_MAX slots.   *)
(* A slot has a status (FREE = 0, USED = 1), a key and a pointer to a heap *)
(* buffer with the value.  Every function of the store runs from its first *)
(* to its last statement under kv_lock, so that each of them is one        *)
(* action.  What kv_read returns is a pointer: here it is read at once,    *)
(* module DbServer has the reader that uses it later.                      *)
(***************************************************************************)
EXTENDS Integers, FiniteSets

CONSTANTS
  Key,                  \* key strings
  Missing,              \* no key, no value
  TABLE_MAX,
  Bufs, NULL            \* heap addresses of value buffers

Slots == 0..(TABLE_MAX - 1)
FREE == 0
USED == 1

VARIABLES
  keys,                 \* keys[i].stat and keys[i].key
  values,               \* values[i], a pointer
  heap,                 \* the contents of the allocated buffers, else Missing
  res                   \* the last call and what it returned

table == <<keys, values, heap, res>>

TableInit ==
  /\ keys = [i \in Slots |-> [stat |-> FREE, key |-> Missing]]
  /\ values = [i \in Slots |-> NULL]
  /\ heap = [b \in Bufs |-> Missing]
  /\ res = [op |-> "none", key |-> Missing, val |-> Missing, ret |-> Missing]

-----------------------------------------------------------------------------
\* The loops of kvstore.c that scan the table stop at the first match.
First(S) == IF S = {} THEN -1 ELSE CHOOSE i \in S : \A j \in S : i <= j

UsedSlots == {i \in Slots : keys[i].stat = USED}

find_key(k) == First({i \in UsedSlots : keys[i].key = k})

key_len == Cardinality(UsedSlots)

get_new_index == First({i \in Slots : keys[i].stat = FREE})

Unallocated == {b \in Bufs : heap[b] = Missing}

\* a buffer that holds a copy of v, and a buffer given back
calloc_val(h, b, v) == [h EXCEPT ![b] = v]
Free(h, b) == [h EXCEPT ![b] = Missing]

-----------------------------------------------------------------------------
Returns(op, k, v, r) == res' = [op |-> op, key |-> k, val |-> v, ret |-> r]

kv_read(k) ==
  LET i == find_key(k)
  IN /\ Returns("read", k, Missing, IF i >= 0 THEN heap[values[i]] ELSE Missing)
     /\ UNCHANGED <<keys, values, heap>>

\* mutant: the old buffer is not freed
OverwriteLeak(k, v) ==
  LET i == find_key(k)
  IN /\ i > 0
     /\ \E b \in Unallocated :
          /\ heap' = calloc_val(heap, b, v)
          /\ values' = [values EXCEPT ![i] = b]
     /\ Returns("write", k, v, 0)
     /\ UNCHANGED keys

\* key_index > 0: the key exists, in any slot but the first
Overwrite(k, v) ==
  LET i == find_key(k)
  IN /\ i > 0
     /\ \E b \in Unallocated :
          /\ heap' = Free(calloc_val(heap, b, v), values[i])
          /\ values' = [values EXCEPT ![i] = b]
     /\ Returns("write", k, v, 0)
     /\ UNCHANGED keys

Insert(k, v) ==
  LET i == get_new_index
  IN /\ ~(find_key(k) > 0)
     /\ key_len < TABLE_MAX
     /\ keys' = [keys EXCEPT ![i] = [stat |-> USED, key |-> k]]
     /\ \E b \in Unallocated :
          /\ heap' = calloc_val(heap, b, v)
          /\ values' = [values EXCEPT ![i] = b]
     /\ Returns("write", k, v, 0)

TableFull(k, v) ==
  /\ ~(find_key(k) > 0)
  /\ key_len >= TABLE_MAX
  /\ Returns("write", k, v, 1)
  /\ UNCHANGED <<keys, values, heap>>

kv_write(k, v) == Overwrite(k, v) \/ Insert(k, v) \/ TableFull(k, v)

\* the slot becomes FREE and its buffer is freed; values[i] keeps dangling
kv_delete(k) ==
  LET i == find_key(k)
  IN /\ IF i >= 0
          THEN /\ keys' = [keys EXCEPT ![i].stat = FREE]
               /\ heap' = Free(heap, values[i])
          ELSE UNCHANGED <<keys, heap>>
     /\ Returns("delete", k, Missing, 0)
     /\ UNCHANGED values

\* the types of the table when its values are from V
TableType(V) ==
  /\ keys \in [Slots -> [stat : {FREE, USED}, key : Key \cup {Missing}]]
  /\ values \in [Slots -> Bufs \cup {NULL}]
  /\ heap \in [Bufs -> V \cup {Missing}]
  /\ res \in [op : {"none", "read", "write", "delete"}, key : Key \cup {Missing},
             val : V \cup {Missing}, ret : V \cup {Missing, 0, 1}]
=============================================================================
