-------------------------------- MODULE Stats --------------------------------
(***************************************************************************)
(* The statistics of the dbserver (lab 3, stats.c): one int per kind of    *)
(* event and one mutex per int.  inc_write, inc_read, inc_delete and       *)
(* inc_fail differ only in the counter, which is a parameter here; the     *)
(* increment is a load and a store.  The get_ functions take no lock.      *)
(***************************************************************************)
EXTENDS Naturals

CONSTANTS
  Threads,              \* the threads that count
  Counters,             \* n_writes, n_reads, n_deletes, n_fails
  NoThread,
  MaxCount              \* bound on each counter, well below INT_MAX

VARIABLES
  lock,                 \* the owner of each mutex
  n,                    \* the counters
  pc, which, tmp,       \* of each thread: statement, counter, value loaded
  done,                 \* history: how many increments have been stored
  seen                  \* what the control thread last printed

vars == <<lock, n, pc, which, tmp, done, seen>>

Init ==
  /\ lock = [c \in Counters |-> NoThread]
  /\ n = [c \in Counters |-> 0]
  /\ pc = [t \in Threads |-> "out"]
  /\ which \in [Threads -> Counters]
  /\ tmp = [t \in Threads |-> 0]
  /\ done = [c \in Counters |-> 0]
  /\ seen = [c \in Counters |-> 0]

Goto(t, from, to) == pc[t] = from /\ pc' = [pc EXCEPT ![t] = to]

\* a call of one of the inc_ functions
Call(t, c) ==
  /\ n[c] < MaxCount
  /\ Goto(t, "out", "lock")
  /\ which' = [which EXCEPT ![t] = c]
  /\ UNCHANGED <<lock, n, tmp, done, seen>>

\* mutant: the mutex is not waited for
LockAnyway(t) ==
  /\ Goto(t, "lock", "load")
  /\ lock' = [lock EXCEPT ![which[t]] = t]
  /\ UNCHANGED <<n, which, tmp, done, seen>>

Lock(t) ==
  /\ Goto(t, "lock", "load")
  /\ lock[which[t]] = NoThread
  /\ lock' = [lock EXCEPT ![which[t]] = t]
  /\ UNCHANGED <<n, which, tmp, done, seen>>

Load(t) ==
  /\ Goto(t, "load", "store")
  /\ tmp' = [tmp EXCEPT ![t] = n[which[t]]]
  /\ UNCHANGED <<lock, n, which, done, seen>>

Store(t) ==
  /\ Goto(t, "store", "unlock")
  /\ n' = [n EXCEPT ![which[t]] = tmp[t] + 1]
  /\ done' = [done EXCEPT ![which[t]] = @ + 1]
  /\ UNCHANGED <<lock, which, tmp, seen>>

Unlock(t) ==
  /\ Goto(t, "unlock", "out")
  /\ lock' = [lock EXCEPT ![which[t]] = NoThread]
  /\ UNCHANGED <<n, which, tmp, done, seen>>

Increment(t) == Lock(t) \/ Load(t) \/ Store(t) \/ Unlock(t)

\* get_writes, get_reads, get_deletes, get_fails
Get(c) ==
  /\ seen' = [seen EXCEPT ![c] = n[c]]
  /\ UNCHANGED <<lock, n, pc, which, tmp, done>>

Next ==
  \/ \E t \in Threads : (\E c \in Counters : Call(t, c)) \/ Increment(t)
  \/ \E c \in Counters : Get(c)

Spec == Init /\ [][Next]_vars

\* A thread that can run runs; whoever waits for a mutex that keeps being
\* released gets it (calls are bounded, so no thread can be overtaken for ever).
FairSpec == Spec /\ \A t \in Threads : WF_vars(Increment(t))

-----------------------------------------------------------------------------
\* The variables have their types.
TypeOK ==
  /\ lock \in [Counters -> Threads \cup {NoThread}]
  /\ n \in [Counters -> Nat]
  /\ pc \in [Threads -> {"out", "lock", "load", "store", "unlock"}]
  /\ which \in [Threads -> Counters]
  /\ tmp \in [Threads -> Nat]
  /\ done \in [Counters -> Nat]
  /\ seen \in [Counters -> Nat]

\* No increment is lost: a counter is the number of increments that have been
\* stored in it, whichever threads stored them (stats.c, "FIXME: ... not
\* thread-safe", which the four mutexes settle).
NoLostUpdate == n = done

\* The control thread, which reads without a lock, never sees a counter fall.
SeenMonotone == [][\A c \in Counters : seen'[c] >= seen[c]]_vars

\* Every inc_ call that has begun returns.
CallsReturn == \A t \in Threads : (pc[t] = "lock") ~> (pc[t] = "out")
=============================================================================
