--------------------------- MODULE KvStoreProofs ---------------------------
(***************************************************************************)
(* Proofs about the key-value store of the dbserver (lab 3, kvstore.c),    *)
(* for tables of any size, any keys, values and heap: the heap is exact, a *)
(* call for one key leaves the others alone, a new key can be read back,   *)
(* and as long as nobody writes a key that sits in the first slot the      *)
(* table is the map of module KvMap.  Module KvTableProofs has what the    *)
(* single calls do to the table.                                           *)
(***************************************************************************)
EXTENDS KvStore, KvTableProofs

\* The inductive invariant of all calls.
IInv == TableInv(Val)

\* No key has two slots, which holds while no key in the first slot is written.
KeysDistinct == \A i, j \in UsedSlots : keys[i].key = keys[j].key => i = j

-----------------------------------------------------------------------------
(* The invariant.                                                          *)

\* Every call keeps the invariant.
LEMMA NextKeeps ==
  ASSUME Grounds(Val), IInv, [Next]_vars
  PROVE  IInv'
<1>1. CASE UNCHANGED vars
  BY <1>1 DEF vars, IInv, TableInv, TypeOK, TableType, SlotInv, UsedSlots
<1>2. CASE Next
  BY <1>2, OverwriteKeeps, InsertKeeps, TableFullKeeps, DeleteKeeps, ReadKeeps
     DEF Next, kv_write, IInv
<1> QED BY <1>1, <1>2

\* The empty table satisfies it.
LEMMA InitHolds ==
  ASSUME Grounds(Val), Init
  PROVE  IInv
  BY InitTable DEF Init, IInv

\* The invariant is HeapExact, said slot by slot.
LEMMA IInvHeapExact ==
  ASSUME IInv
  PROVE  TypeOK /\ HeapExact
<1>1. Bufs \ Unallocated = {values[i] : i \in UsedSlots}
  BY DEF IInv, TableInv, SlotInv, Unallocated
<1> QED BY <1>1 DEF IInv, TableInv, SlotInv, HeapExact, TypeOK

-----------------------------------------------------------------------------
(* What a read finds.                                                      *)

\* The used slots that have key k, which find_key scans.
Matches(k) == {i \in UsedSlots : keys[i].key = k}

\* A read finds nothing exactly when no used slot has the key.
LEMMA LookupFinds ==
  ASSUME Grounds(Val), IInv, NEW k
  PROVE  /\ Lookup(k) = Missing <=> find_key(k) < 0
         /\ find_key(k) >= 0 => Lookup(k) = heap[values[find_key(k)]] /\ Lookup(k) \in Val
<1>1. find_key(k) \in Int /\ (find_key(k) >= 0 => find_key(k) \in UsedSlots)
  BY FindKey DEF Grounds
<1>2. find_key(k) >= 0 => /\ values[find_key(k)] \in Bufs
                          /\ heap[values[find_key(k)]] \in Val
  BY <1>1 DEF IInv, TableInv, SlotInv, TypeOK, TableType
<1> QED BY <1>1, <1>2 DEF Lookup, Grounds

\* A call leaves what a read of k finds alone when it leaves the slots with key k
\* and their values alone.
LEMMA SameLookup ==
  ASSUME Grounds(Val), IInv, NEW k, Matches(k)' = Matches(k),
         \A i \in Matches(k) : heap'[values'[i]] = heap[values[i]]
  PROVE  Lookup(k)' = Lookup(k)
<1>1. find_key(k)' = find_key(k)
  BY DEF find_key, Matches
<1>2. find_key(k) >= 0 => find_key(k) \in Matches(k)
  BY FindKey DEF Matches, Grounds
<1> QED BY <1>1, <1>2 DEF Lookup

\* kv_read, kv_write and kv_delete for one key do not change what a read of another
\* key finds.
LEMMA OthersUntouched ==
  ASSUME Grounds(Val), IInv, [Next]_vars, NEW k \in Key, k # res'.key
  PROVE  Lookup(k)' = Lookup(k)
<1>1. CASE UNCHANGED <<keys, values, heap>>
  BY <1>1, SameLookup DEF Matches, UsedSlots
<1>2. ASSUME NEW c \in Key, NEW v \in Val, Overwrite(c, v)
      PROVE  Lookup(k)' = Lookup(k)
  <2>1. PICK i \in UsedSlots, b \in Bufs : Overwritten(Val, c, v, i, b)
    BY <1>2, OverwriteEffect DEF IInv
  <2>2. c # k
    BY <2>1 DEF Overwritten
  <2>3. Matches(k)' = Matches(k)
    BY <2>1 DEF Matches, Overwritten
  <2>4. \A j \in Matches(k) : /\ j \in Slots /\ j # i /\ values[j] \in Bufs
                              /\ values[j] # b /\ values[j] # values[i]
    BY <2>1, <2>2 DEF Matches, Overwritten, IInv, TableInv, SlotInv, UsedSlots
  <2>5. \A j \in Matches(k) : heap'[values'[j]] = heap[values[j]]
    BY <2>1, <2>4 DEF Overwritten
  <2> QED BY <2>3, <2>5, SameLookup
<1>3. ASSUME NEW c \in Key, NEW v \in Val, Insert(c, v)
      PROVE  Lookup(k)' = Lookup(k)
  <2>1. PICK i \in Slots \ UsedSlots, b \in Bufs : Inserted(Val, c, v, i, b)
    BY <1>3, InsertEffect DEF IInv
  <2>2. c # k
    BY <2>1 DEF Inserted
  <2>3. Matches(k)' = Matches(k)
    BY <2>1, <2>2 DEF Matches, Inserted, UsedSlots
  <2>4. \A j \in Matches(k) : heap'[values'[j]] = heap[values[j]]
    BY <2>1 DEF Matches, Inserted, UsedSlots
  <2> QED BY <2>3, <2>4, SameLookup
<1>4. ASSUME NEW c \in Key, kv_delete(c)
      PROVE  Lookup(k)' = Lookup(k)
  <2>0. values' = values /\ c # k
    BY <1>4, DeleteEffect DEF IInv
  <2>1. CASE find_key(c) < 0
    BY <1>1, <1>4, <2>0, <2>1, DeleteEffect DEF IInv
  <2>2. CASE find_key(c) >= 0
    <3>1. PICK i \in UsedSlots : Deleted(Val, c, i)
      BY <1>4, <2>2, DeleteEffect DEF IInv
    <3>2. Matches(k)' = Matches(k)
      BY <2>0, <3>1 DEF Matches, Deleted, UsedSlots
    <3>3. \A j \in Matches(k) : heap'[values'[j]] = heap[values[j]]
      BY <2>0, <3>1 DEF Matches, Deleted, IInv, TableInv, SlotInv
    <3> QED BY <3>2, <3>3, SameLookup
  <2> QED BY <2>1, <2>2, FindKey DEF Grounds
<1>5. CASE UNCHANGED vars
  BY <1>1, <1>5 DEF vars
<1>6. CASE Next
  BY <1>1, <1>2, <1>3, <1>4, <1>6 DEF Next, kv_write, kv_read, TableFull
<1> QED BY <1>5, <1>6

\* What a write does to its own key: it reads back afterwards, when the key was not
\* in the table or when it has only the slot that is overwritten.
LEMMA InsertReads ==
  ASSUME Grounds(Val), IInv, NEW k \in Key, NEW v \in Val, Insert(k, v), find_key(k) < 0
  PROVE  Lookup(k)' = v
<1>1. PICK i \in Slots \ UsedSlots, b \in Bufs : Inserted(Val, k, v, i, b)
  BY InsertEffect DEF IInv
<1>2. {j \in UsedSlots' : keys'[j].key = k} = {i}
  <2>1. \A j \in UsedSlots : keys[j].key # k /\ j \in Slots /\ j # i
    BY FindKey DEF Grounds, UsedSlots
  <2> QED BY <1>1, <2>1 DEF Inserted
<1>3. find_key(k)' = First({i})
  BY <1>2 DEF find_key
<1>4. First({i}) = i /\ i >= 0
  BY FirstMatch DEF Slots, Grounds
<1> QED BY <1>1, <1>3, <1>4 DEF Lookup, Inserted

\* After an overwrite the key reads as the new value.
LEMMA OverwriteReads ==
  ASSUME Grounds(Val), IInv, NEW k \in Key, NEW v \in Val, Overwrite(k, v)
  PROVE  Lookup(k)' = v
<1>1. PICK i \in UsedSlots, b \in Bufs : Overwritten(Val, k, v, i, b)
  BY OverwriteEffect DEF IInv
<1>2. find_key(k)' = find_key(k)
  BY <1>1 DEF find_key, Overwritten
<1>3. i >= 0
  BY <1>1 DEF Overwritten, Slots, Grounds
<1> QED BY <1>1, <1>2, <1>3 DEF Lookup, Overwritten

\* kv_write of a new key: it succeeds and reads back, or the table is full and
\* stays as it is.
LEMMA FreshKeyReads ==
  ASSUME Grounds(Val), IInv, [Next]_vars, NEW k \in Key,
         res'.op = "write", res'.key = k, Lookup(k) = Missing, ~UNCHANGED vars
  PROVE  IF res'.ret = 0 THEN Lookup(k)' = res'.val
                         ELSE UsedSlots = Slots /\ UNCHANGED <<keys, values, heap>>
<1>1. find_key(k) < 0
  BY LookupFinds
<1>2. PICK v \in Val : kv_write(k, v)
  <2>1. PICK c \in Key : kv_read(c) \/ kv_delete(c) \/ \E v \in Val : kv_write(c, v)
    BY DEF Next
  <2>2. ~kv_read(c) /\ ~kv_delete(c)
    BY DEF kv_read, kv_delete, Returns
  <2>3. \A v \in Val : kv_write(c, v) => c = k
    BY DEF kv_write, Overwrite, Insert, TableFull, Returns
  <2> QED BY <2>1, <2>2, <2>3
<1>3. ~Overwrite(k, v)
  BY <1>1, FindKey DEF Overwrite, Grounds
<1>4. CASE Insert(k, v)
  <2>1. res' = [op |-> "write", key |-> k, val |-> v, ret |-> 0]
    BY <1>4 DEF Insert, Returns
  <2> QED BY <1>1, <1>4, <2>1, InsertReads
<1>5. CASE TableFull(k, v)
  <2>1. res' = [op |-> "write", key |-> k, val |-> v, ret |-> 1]
    BY <1>5 DEF TableFull, Returns
  <2>2. UsedSlots = Slots
    BY <1>5, NewIndex DEF TableFull, IInv, TableInv, TypeOK, TableType, Grounds
  <2> QED BY <1>5, <2>1, <2>2 DEF TableFull
<1> QED BY <1>2, <1>3, <1>4, <1>5 DEF kv_write

-----------------------------------------------------------------------------
(* The map.                                                                *)

\* While nobody writes a key that sits in the first slot, no key gets two slots.
LEMMA SafeKeepsDistinct ==
  ASSUME Grounds(Val), IInv, KeysDistinct, [SafeNext]_vars
  PROVE  KeysDistinct'
<1>1. CASE UNCHANGED <<keys, values, heap>>
  BY <1>1 DEF KeysDistinct, UsedSlots
<1>2. ASSUME NEW k \in Key, NEW v \in Val, Overwrite(k, v)
      PROVE  KeysDistinct'
  BY <1>2, OverwriteEffect DEF Overwritten, KeysDistinct, IInv
<1>3. ASSUME NEW k \in Key, NEW v \in Val, find_key(k) # 0, Insert(k, v)
      PROVE  KeysDistinct'
  <2>1. PICK i \in Slots \ UsedSlots, b \in Bufs : Inserted(Val, k, v, i, b)
    BY <1>3, InsertEffect DEF IInv
  <2>2. find_key(k) < 0
    BY <1>3, FindKey DEF Insert, Grounds
  <2>3. \A j \in UsedSlots : keys[j].key # k /\ j \in Slots /\ j # i
    BY <2>2, FindKey DEF Grounds, UsedSlots
  <2> QED BY <2>1, <2>3 DEF Inserted, KeysDistinct
<1>4. ASSUME NEW k \in Key, kv_delete(k)
      PROVE  KeysDistinct'
  <2>1. CASE find_key(k) < 0
    BY <1>1, <1>4, <2>1, DeleteEffect DEF IInv
  <2>2. CASE find_key(k) >= 0
    <3>1. PICK i \in UsedSlots : Deleted(Val, k, i)
      BY <1>4, <2>2, DeleteEffect DEF IInv
    <3>2. \A j \in UsedSlots' : j \in UsedSlots /\ keys'[j] = keys[j]
      BY <3>1 DEF Deleted, UsedSlots
    <3> QED BY <3>2 DEF KeysDistinct
  <2> QED BY <2>1, <2>2, FindKey DEF Grounds
<1> QED BY <1>1, <1>2, <1>3, <1>4 DEF SafeNext, kv_write, kv_read, TableFull, vars

\* Then the keys that can be read are as many as the used slots.
LEMMA PresentCount ==
  ASSUME Grounds(Val), IInv, KeysDistinct
  PROVE  Cardinality(Map!Present) = key_len
<1> DEFINE P == {k \in Key : Lookup(k) # Missing}
           f == [i \in UsedSlots |-> keys[i].key]
<1>1. IsFiniteSet(UsedSlots)
  BY NewIndex DEF Grounds, IInv, TableInv, TypeOK, TableType
<1>2. \A k \in Key : Lookup(k) # Missing <=> \E i \in UsedSlots : keys[i].key = k
  <2> TAKE k \in Key
  <2>1. Lookup(k) # Missing <=> find_key(k) >= 0
    BY LookupFinds, FindKey DEF Grounds
  <2> QED BY <2>1, FindKey DEF Grounds
<1>3. f \in [UsedSlots -> P]
  BY <1>2 DEF IInv, TableInv, SlotInv
<1>4. \A i, j \in UsedSlots : f[i] = f[j] => i = j
  BY DEF KeysDistinct
<1>5. \A k \in P : \E i \in UsedSlots : f[i] = k
  BY <1>2
<1>6. Cardinality(P) = Cardinality(UsedSlots)
  BY <1>1, <1>3, <1>4, <1>5 DEF Grounds, Counting, BijectionLaw
<1>7. Map!Present = P
  BY DEF Map!Present
<1> QED BY <1>6, <1>7 DEF key_len

\* The map counts its keys as the table does.
LEMMA SameCount == \A S : Map!Cardinality(S) = Cardinality(S)
  BY DEF Map!Cardinality, Cardinality

\* kvstore.h: every call is the call of the map.
LEMMA SafeIsMap ==
  ASSUME Grounds(Val), IInv, KeysDistinct, SafeNext
  PROVE  Map!MapNext
<1> DEFINE m == [k \in Key |-> Lookup(k)]
<1>a. SafeNext => Next
  BY DEF SafeNext, Next
<1>o. ASSUME NEW k \in Key, res'.key = k
      PROVE  \A c \in Key : c # k => Lookup(c)' = Lookup(c)
  BY <1>a, <1>o, OthersUntouched
<1>u. ASSUME UNCHANGED <<keys, values, heap>>
      PROVE  m' = m
  <2>1. \A k \in Key : Lookup(k)' = Lookup(k)
    BY <1>u DEF Lookup, find_key, UsedSlots
  <2> QED BY <2>1
<1>w. ASSUME NEW k \in Key, NEW x, res'.key = k, Lookup(k)' = x
      PROVE  m' = [m EXCEPT ![k] = x]
  <2>1. \A c \in Key : Lookup(c)' = IF c = k THEN x ELSE Lookup(c)
    BY <1>o, <1>w
  <2> QED BY <2>1
<1>p. \A k \in Key : k \in Map!Present <=> find_key(k) >= 0
  <2> TAKE k \in Key
  <2>1. Lookup(k) # Missing <=> find_key(k) >= 0
    BY LookupFinds, FindKey DEF Grounds
  <2> QED BY <2>1 DEF Map!Present
<1>1. ASSUME NEW k \in Key, kv_read(k)
      PROVE  Map!MapRead(k)
  <2>1. res' = [op |-> "read", key |-> k, val |-> Missing, ret |-> Lookup(k)]
    BY <1>1 DEF kv_read, Returns, Lookup
  <2>2. m' = m
    BY <1>1, <1>u DEF kv_read
  <2> QED BY <2>1, <2>2 DEF Map!MapRead
<1>2. ASSUME NEW k \in Key, kv_delete(k)
      PROVE  Map!MapDelete(k)
  <2>1. res' = [op |-> "delete", key |-> k, val |-> Missing, ret |-> 0]
    BY <1>2, DeleteEffect DEF IInv
  <2>2. Lookup(k)' = Missing
    <3>1. \A i \in UsedSlots' : keys'[i].key # k
      <4>1. CASE find_key(k) < 0
        BY <1>2, <4>1, DeleteEffect, FindKey DEF UsedSlots, Grounds, IInv
      <4>2. CASE find_key(k) >= 0
        <5>1. PICK i \in UsedSlots : Deleted(Val, k, i)
          BY <1>2, <4>2, DeleteEffect DEF IInv
        <5> QED BY <5>1 DEF Deleted, KeysDistinct, UsedSlots
      <4> QED BY <4>1, <4>2, FindKey DEF Grounds
    <3>2. {i \in UsedSlots' : keys'[i].key = k} = {}
      BY <3>1
    <3>3. find_key(k)' = -1
      BY <3>2 DEF find_key, First
    <3> QED BY <3>3 DEF Lookup
  <2>3. m' = [m EXCEPT ![k] = Missing]
    BY <2>1, <2>2, <1>w
  <2> QED BY <2>1, <2>3 DEF Map!MapDelete
<1>3. ASSUME NEW k \in Key, NEW v \in Val, find_key(k) # 0, kv_write(k, v)
      PROVE  Map!MapWrite(k, v)
  <2>1. CASE Overwrite(k, v)
    <3>1. res' = [op |-> "write", key |-> k, val |-> v, ret |-> 0]
      BY <2>1 DEF Overwrite, Returns
    <3>2. m' = [m EXCEPT ![k] = v]
      BY <2>1, <3>1, <1>w, OverwriteReads
    <3>3. k \in Map!Present
      BY <1>p, <2>1, FindKey DEF Overwrite, Grounds
    <3> QED BY <3>1, <3>2, <3>3 DEF Map!MapWrite
  <2>2. CASE Insert(k, v)
    <3>1. res' = [op |-> "write", key |-> k, val |-> v, ret |-> 0]
      BY <2>2 DEF Insert, Returns
    <3>2. find_key(k) < 0
      BY <1>3, <2>2, FindKey DEF Insert, Grounds
    <3>3. m' = [m EXCEPT ![k] = v]
      BY <2>2, <3>1, <3>2, <1>w, InsertReads
    <3>4. Cardinality(Map!Present) < TABLE_MAX
      BY <2>2, PresentCount DEF Insert
    <3> QED BY <3>1, <3>3, <3>4, SameCount DEF Map!MapWrite
  <2>3. CASE TableFull(k, v)
    <3>1. res' = [op |-> "write", key |-> k, val |-> v, ret |-> 1]
      BY <2>3 DEF TableFull, Returns
    <3>2. m' = m
      BY <2>3, <1>u DEF TableFull
    <3>3. k \notin Map!Present
      BY <1>3, <1>p, <2>3, FindKey DEF TableFull, Grounds
    <3>4. Cardinality(Map!Present) = TABLE_MAX
      BY <2>3, PresentCount, NewIndex DEF TableFull, Grounds, IInv, TableInv, TypeOK, TableType
    <3> QED BY <3>1, <3>2, <3>3, <3>4, SameCount DEF Map!MapWrite
  <2> QED BY <1>3, <2>1, <2>2, <2>3 DEF kv_write
<1> QED BY <1>1, <1>2, <1>3 DEF SafeNext, Map!MapNext

-----------------------------------------------------------------------------
(* The theorems.                                                           *)

\* The empty table is the empty map.
LEMMA InitIsMap ==
  ASSUME Grounds(Val), Init
  PROVE  KeysDistinct /\ Map!MapInit
<1>1. UsedSlots = {}
  BY DEF Init, TableInit, UsedSlots, FREE, USED
<1>2. \A k \in Key : Lookup(k) = Missing
  BY <1>1 DEF Lookup, find_key, First
<1> QED BY <1>1, <1>2 DEF Init, TableInit, KeysDistinct, Map!MapInit

\* kvstore.h: there are slots, and no key, value or buffer is the missing one.
Sane == /\ TABLE_MAX \in Nat \ {0}
        /\ Missing \notin Val \cup Key
        /\ NULL \notin Bufs

INSTANCE FiniteSetTheorems

\* The arguments that count are right about numbers and finite sets.
LEMMA CountingHolds == Counting
<1>1. MinLaw
  <2>1. SUFFICES ASSUME NEW S \in SUBSET Nat, S # {}
                 PROVE  \E i \in S : \A j \in S : i <= j
    BY DEF MinLaw
  <2> DEFINE R == {ss \in Nat \X Nat : ss[1] < ss[2]}
  <2>2. IsWellFoundedOn(R, Nat)
    BY NatLessThanWellFounded DEF OpToRel
  <2>3. PICK x \in S : \A y \in S : ~(<<y, x>> \in R)
    BY <2>1, <2>2, WFMin
  <2>4. \A y \in S : ~(y < x)
    BY <2>1, <2>3
  <2> QED BY <2>1, <2>4
<1>2. EmptyLaw /\ SizeLaw
  BY FS_EmptySet, FS_CardinalityType DEF EmptyLaw, SizeLaw
<1>3. IntervalLaw /\ SpanLaw
  BY FS_Interval DEF IntervalLaw, SpanLaw
<1>4. SubsetLaw /\ PartLaw
  BY FS_Subset DEF SubsetLaw, PartLaw
<1>5. AddLaw
  BY FS_AddElement DEF AddLaw
<1>6. RemoveLaw
  BY FS_RemoveElement DEF RemoveLaw
<1>7. BijectionLaw
  <2>1. SUFFICES ASSUME NEW S, NEW T, NEW f \in [S -> T], IsFiniteSet(S),
                        \A i, j \in S : f[i] = f[j] => i = j,
                        \A t \in T : \E i \in S : f[i] = t
                 PROVE  Cardinality(T) = Cardinality(S)
    BY DEF BijectionLaw
  <2>2. f \in Bijection(S, T)
    BY <2>1 DEF Bijection, Injection, Surjection, IsInjective
  <2>3. ExistsBijection(S, T)
    BY <2>2 DEF ExistsBijection
  <2> QED BY <2>1, <2>3, FS_Bijection
<1> QED BY <1>1, <1>2, <1>3, <1>4, <1>5, <1>6, <1>7 DEF Counting

\* So the arguments about the table apply.
LEMMA Grounded == ASSUME Sane PROVE Grounds(Val)
  BY CountingHolds DEF Sane, Grounds

\* kvstore.c leaks no buffer, frees none twice and leaves no used slot dangling.
THEOREM HeapIsExact == ASSUME Sane PROVE Spec => [](TypeOK /\ HeapExact)
<1>1. Init => IInv
  BY Grounded, InitHolds
<1>2. IInv /\ [Next]_vars => IInv'
  BY Grounded, NextKeeps
<1>3. IInv => TypeOK /\ HeapExact
  BY IInvHeapExact
<1> QED BY <1>1, <1>2, <1>3, PTL DEF Spec

\* A call for one key never changes what a read of another key finds, and a new key
\* can be read back (kv_read, kv_write, kv_delete).
THEOREM CallsAreLocal == ASSUME Sane PROVE Spec => OtherKeysUntouched /\ FreshKeyReadable
<1>1. Init => IInv
  BY Grounded, InitHolds
<1>2. IInv /\ [Next]_vars => IInv'
  BY Grounded, NextKeeps
<1>3. IInv /\ [Next]_vars => [\A k \in Key : k # res'.key => Lookup(k)' = Lookup(k)]_vars
  BY Grounded, OthersUntouched
<1>4. IInv /\ [Next]_vars =>
        [\A k \in Key :
           res'.op = "write" /\ res'.key = k /\ Lookup(k) = Missing =>
             IF res'.ret = 0 THEN Lookup(k)' = res'.val
                             ELSE /\ UsedSlots = Slots
                                  /\ UNCHANGED <<keys, values, heap>>]_vars
  BY Grounded, FreshKeyReads
<1> QED BY <1>1, <1>2, <1>3, <1>4, PTL DEF Spec, OtherKeysUntouched, FreshKeyReadable

\* As long as nobody writes a key that sits in the first slot, the table implements
\* the map that kvstore.h describes.
THEOREM SafeRefinesMap == ASSUME Sane PROVE Init /\ [][SafeNext]_vars => RefinesMap
<1>1. Init => IInv /\ KeysDistinct /\ Map!MapInit
  BY Grounded, InitHolds, InitIsMap
<1>2. IInv /\ KeysDistinct /\ [SafeNext]_vars => IInv' /\ KeysDistinct'
  <2>1. [SafeNext]_vars => [Next]_vars
    BY DEF SafeNext, Next
  <2> QED BY Grounded, <2>1, NextKeeps, SafeKeepsDistinct
<1>3. IInv /\ KeysDistinct /\ [SafeNext]_vars => [Map!MapNext]_(Map!mapVars)
  <2>1. UNCHANGED vars => UNCHANGED Map!mapVars
    BY DEF vars, Map!mapVars, Lookup, find_key, UsedSlots
  <2> QED BY Grounded, <2>1, SafeIsMap
<1> QED BY <1>1, <1>2, <1>3, PTL DEF RefinesMap, Map!MapSpec
=============================================================================
