-------------------------------- MODULE MCDb --------------------------------
(***************************************************************************)
(* Two instances of DbServer for safety: "one" has one worker, values of   *)
(* several lengths and a client that is killed; "two" has two workers,     *)
(* quit requests and requests of an unknown kind.  The properties are      *)
(* those of DbServer, in both parts.                                       *)
(***************************************************************************)
EXTENDS MCDbServer

CONSTANT Pair           \* the workers of the part "two"

VARIABLE part

Two == INSTANCE DbServer WITH
         Workers <- Pair, Strings <- OneString, Ops <- {"W", "R", "D", "Q", "?"},
         MaxKills <- 0, MaxBadTasks <- 1

DbInit ==
  /\ part \in {"one", "two"}
  /\ IF part = "one" THEN Init ELSE Two!Init

DbNext ==
  \/ part = "one" /\ Next /\ UNCHANGED part
  \/ part = "two" /\ Two!Next /\ UNCHANGED part

DbSpec == DbInit /\ [][DbNext]_<<part, vars>>

BothInterchangeable == Interchangeable \cup Permutations(Pair)
=============================================================================
