------------------------------ MODULE MCLab3 ------------------------------
(***************************************************************************)
(* The three monitors of the dbserver (lab 3) beside each other: the work  *)
(* queue, the key-value store and the statistics.  They share no state,    *)
(* and so a behaviour is about one of them, its part.  The store is a part *)
(* twice: as it is, and as long as no caller writes a key that sits in the *)
(* first slot.  Module DbServer puts the three together.                   *)
(***************************************************************************)
EXTENDS WorkQueue

CONSTANTS
  Key, Val, Missing, TABLE_MAX, Bufs,   \* see KvStore
  Callers, Counters, MaxCount           \* see Stats

ASSUME StoreAssumption ==
  /\ TABLE_MAX \in Nat \ {0}
  /\ Missing \notin Val \cup Key /\ NULL \notin Bufs

ASSUME StatsAssumption == NULL \notin Callers /\ MaxCount \in Nat

VARIABLES
  part,
  keys, values, heap, res,                      \* KvStore
  lock, n, at, which, tmp, done, seen           \* Stats

storeVars == <<keys, values, heap, res>>
statsVars == <<lock, n, at, which, tmp, done, seen>>

Store == INSTANCE KvStore
Counts == INSTANCE Stats WITH Threads <- Callers, NoThread <- NULL, pc <- at

LabInit ==
  /\ part \in {"queue", "store", "safe store", "stats"}
  /\ Init
  /\ Store!Init
  /\ IF part = "stats" THEN Counts!Init
     ELSE Counts!Init /\ \E c \in Counters : which = [t \in Callers |-> c]

LabNext ==
  /\ UNCHANGED part
  /\ IF part = "queue" THEN Next ELSE UNCHANGED vars
  /\ CASE part = "store" -> Store!Next
       [] part = "safe store" -> Store!SafeNext
       [] OTHER -> UNCHANGED storeVars
  /\ IF part = "stats" THEN Counts!Next ELSE UNCHANGED statsVars

\* the fairness of WorkQueue and of Stats, each in the behaviours of its part
LabSpec ==
  /\ LabInit /\ [][LabNext]_<<part, vars, storeVars, statsVars>>
  /\ SF_vars(part = "queue" /\ EnqLock)
  /\ WF_vars(part = "queue" /\ (EnqLink \/ EnqTail \/ EnqSignal \/ EnqUnlock))
  /\ WF_vars(part = "queue" /\ (CountWalk \/ CountUnlock))
  /\ \A w \in Workers : WF_vars(part = "queue" /\ WorkerStep(w))
  /\ SF_vars(part = "queue" /\ \E w \in Workers : DeqLock(w))
  /\ \A t \in Callers : WF_statsVars(part = "stats" /\ Counts!Increment(t))

-----------------------------------------------------------------------------
(* Properties: MemorySafe, QueueRight and RefinesFifo of WorkQueue, and    *)
(* those of the three modules together.                                    *)

\* Nobody waits for ever.  queue.c, dequeue: every connection is handed to a worker,
\* and the queue delivers everything it accepts, as the fair FIFO does; stats.c: every
\* call returns.
NobodyStarves == AllServed /\ RefinesFairFifo /\ Counts!CallsReturn

\* kvstore.c, kvstore.h: no buffer is leaked, freed twice or left dangling, a call
\* for one key leaves the others alone, and a new key can be read back; without
\* writes to the first slot the table is the map of module KvMap.
StoreContract ==
  /\ [](Store!TypeOK /\ Store!HeapExact)
  /\ Store!OtherKeysUntouched /\ Store!FreshKeyReadable
  /\ Store!Map!MapInit /\ [][part = "safe store" => Store!Map!MapNext]_storeVars

\* stats.c: no increment is lost, and no counter is seen to fall.
StatsContract == [](Counts!TypeOK /\ Counts!NoLostUpdate) /\ Counts!SeenMonotone
=============================================================================
