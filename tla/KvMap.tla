-------------------------------- MODULE KvMap --------------------------------
(***************************************************************************)
(* What the key-value store of the dbserver promises (kvstore.h, lines     *)
(* 30-46): a map with room for TABLE_MAX keys.  A write overwrites the     *)
(* value of an existing key, inserts a new key while there is room and     *)
(* fails otherwise; a delete removes the key.                              *)
(***************************************************************************)
EXTENDS Naturals, FiniteSets

CONSTANTS Key, Val, Missing, TABLE_MAX

VARIABLES map, res

mapVars == <<map, res>>

MapInit ==
  /\ map = [k \in Key |-> Missing]
  /\ res = [op |-> "none", key |-> Missing, val |-> Missing, ret |-> Missing]

Present == {k \in Key : map[k] # Missing}

MapRead(k) ==
  /\ res' = [op |-> "read", key |-> k, val |-> Missing, ret |-> map[k]]
  /\ UNCHANGED map

MapWrite(k, v) ==
  \/ /\ k \in Present \/ Cardinality(Present) < TABLE_MAX
     /\ map' = [map EXCEPT ![k] = v]
     /\ res' = [op |-> "write", key |-> k, val |-> v, ret |-> 0]
  \/ /\ k \notin Present /\ Cardinality(Present) = TABLE_MAX
     /\ res' = [op |-> "write", key |-> k, val |-> v, ret |-> 1]
     /\ UNCHANGED map

MapDelete(k) ==
  /\ map' = [map EXCEPT ![k] = Missing]
  /\ res' = [op |-> "delete", key |-> k, val |-> Missing, ret |-> 0]

MapNext ==
  \E k \in Key : \/ MapRead(k)
                 \/ MapDelete(k)
                 \/ \E v \in Val : MapWrite(k, v)

MapSpec == MapInit /\ [][MapNext]_mapVars
=============================================================================
