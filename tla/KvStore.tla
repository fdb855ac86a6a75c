------------------------------- MODULE KvStore -------------------------------
(***************************************************************************)
(* The key-value store of the dbserver (lab 3, kvstore.c) and its callers: *)
(* the table of module KvTable, and threads that read, write and delete    *)
(* keys.                                                                   *)
(***************************************************************************)
EXTENDS KvTable

CONSTANT Val            \* value strings

vars == <<keys, values, heap, res>>

Init == TableInit

Next ==
  \E k \in Key : \/ kv_read(k)
                 \/ kv_delete(k)
                 \/ \E v \in Val : kv_write(k, v)

Spec == Init /\ [][Next]_vars

\* The store as long as no caller writes a key that sits in the first slot.
SafeNext ==
  \E k \in Key : \/ kv_read(k)
                 \/ kv_delete(k)
                 \/ find_key(k) # 0 /\ \E v \in Val : kv_write(k, v)

-----------------------------------------------------------------------------
(* Properties.                                                             *)

\* The variables have their types.
TypeOK == TableType(Val)

\* The live buffers are exactly the values of the used slots, one each: kvstore.c
\* frees no buffer twice, leaks none and never leaves a used slot dangling,
\* although it leaves the pointer of a freed slot in place.
HeapExact ==
  /\ Bufs \ Unallocated = {values[i] : i \in UsedSlots}
  /\ \A i, j \in UsedSlots : values[i] = values[j] => i = j

\* What a read of k finds.
Lookup(k) == LET i == find_key(k)
             IN IF i >= 0 THEN heap[values[i]] ELSE Missing

\* A call for one key never changes what a read of another key finds.
OtherKeysUntouched ==
  [][\A k \in Key : k # res'.key => Lookup(k)' = Lookup(k)]_vars

\* Writing a key that is not in the store succeeds unless TABLE_MAX slots are
\* used, and then the key reads as the value written; a failing write changes
\* nothing (kv_write returns 0 or 1).
FreshKeyReadable ==
  [][\A k \in Key :
       res'.op = "write" /\ res'.key = k /\ Lookup(k) = Missing =>
         IF res'.ret = 0 THEN Lookup(k)' = res'.val
                         ELSE /\ UsedSlots = Slots
                              /\ UNCHANGED <<keys, values, heap>>]_vars

\* kvstore.h, lines 30-46: the table behaves as a map.
Map == INSTANCE KvMap WITH map <- [k \in Key |-> Lookup(k)]
RefinesMap == Map!MapSpec
=============================================================================
