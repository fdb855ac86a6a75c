----------------------------- MODULE Lab3Proofs -----------------------------
(***************************************************************************)
(* Proofs about the queue, the store and the statistics of the dbserver    *)
(* (lab 3) as module MCLab3 puts them beside each other.                   *)
(*                                                                         *)
(* The statistics (stats.c) come first; then the work queue (queue.c), for *)
(* any set of workers, any set of heap addresses and any number of         *)
(* connections: the safety properties of module WorkQueue, and that it     *)
(* implements FifoQueue.  Module KvStoreProofs has the argument about the  *)
(* store (kvstore.c), which is lifted to MCLab3 at the end.                *)
(***************************************************************************)
EXTENDS MCLab3, TLAPS

\* A leaf that names no prover is tried with Zenon, then with SMT.
USE ZenonT(15), SMTT(20)

labVars == <<part, vars, storeVars, statsVars>>

-----------------------------------------------------------------------------
(* The statistics.                                                         *)

Counting(t) == at[t] \in {"load", "store", "unlock"}

\* The inductive invariant of stats.c: a thread between its lock and its unlock owns
\* the mutex of its counter, what it has loaded is still the count, and nobody has
\* seen more than has been counted.
StatsInv ==
  /\ Counts!TypeOK
  /\ Counts!NoLostUpdate
  /\ \A t \in Callers : Counting(t) => lock[which[t]] = t
  /\ \A t \in Callers : at[t] = "store" => tmp[t] = n[which[t]]
  /\ \A c \in Counters : seen[c] <= n[c]

\* Every step of stats.c keeps the invariant.
LEMMA StatsKeeps ==
  ASSUME StatsInv, [Counts!Next]_statsVars
  PROVE  StatsInv'
<1> USE DEF StatsInv, Counts!TypeOK, Counts!NoLostUpdate, Counting, Counts!Goto
<1>1. CASE UNCHANGED statsVars
  BY <1>1 DEF statsVars
<1>2. ASSUME NEW t \in Callers, NEW c \in Counters, Counts!Call(t, c)
      PROVE  StatsInv'
  BY <1>2 DEF Counts!Call
<1>3. ASSUME NEW t \in Callers, Counts!Lock(t)
      PROVE  StatsInv'
  BY <1>3, StatsAssumption DEF Counts!Lock
<1>4. ASSUME NEW t \in Callers, Counts!Load(t)
      PROVE  StatsInv'
  BY <1>4 DEF Counts!Load
<1>5. ASSUME NEW t \in Callers, Counts!Store(t)
      PROVE  StatsInv'
  <2>1. \A u \in Callers : Counting(u) /\ which[u] = which[t] => u = t
    BY <1>5 DEF Counts!Store
  <2>2. n'[which[t]] = n[which[t]] + 1 /\ done'[which[t]] = done[which[t]] + 1
    BY <1>5 DEF Counts!Store
  <2>3. \A c \in Counters : c # which[t] => n'[c] = n[c] /\ done'[c] = done[c]
    BY <1>5 DEF Counts!Store
  <2>4. Counts!TypeOK' /\ DOMAIN n' = Counters /\ DOMAIN done' = Counters
    BY <1>5, SMTT(20) DEF Counts!Store
  <2>5. Counts!NoLostUpdate'
    BY <1>5 DEF Counts!Store
  <2>6. \A u \in Callers : (Counting(u) => lock[which[u]] = u)'
    BY <1>5 DEF Counts!Store
  <2>7. \A u \in Callers : at'[u] = "store" => tmp'[u] = n'[which'[u]]
    <3> SUFFICES ASSUME NEW u \in Callers, at'[u] = "store"
                 PROVE  tmp'[u] = n'[which'[u]]
      OBVIOUS
    <3>1. u # t /\ at[u] = "store" /\ which'[u] = which[u] /\ tmp'[u] = tmp[u]
      BY <1>5 DEF Counts!Store
    <3>2. which[u] # which[t] /\ which[u] \in Counters
      BY <2>1, <3>1
    <3> QED BY <2>3, <3>1, <3>2
  <2>8. \A c \in Counters : seen'[c] <= n'[c]
    BY <1>5, <2>2, <2>3, SMTT(20) DEF Counts!Store
  <2> QED BY <2>4, <2>5, <2>6, <2>7, <2>8
<1>6. ASSUME NEW t \in Callers, Counts!Unlock(t)
      PROVE  StatsInv'
  <2>1. \A u \in Callers : Counting(u) /\ which[u] = which[t] => u = t
    BY <1>6 DEF Counts!Unlock
  <2> QED BY <1>6, <2>1 DEF Counts!Unlock
<1>7. ASSUME NEW c \in Counters, Counts!Get(c)
      PROVE  StatsInv'
  BY <1>7, SMTT(20) DEF Counts!Get
<1> QED BY <1>1, <1>2, <1>3, <1>4, <1>5, <1>6, <1>7 DEF Counts!Next, Counts!Increment

\* stats.c: with any number of threads and counters, no increment is lost and no
\* counter is seen to fall.
THEOREM StatsKeepContract == LabSpec => StatsContract
<1>1. LabInit => StatsInv
  <2>1. LabInit => Counts!Init
    BY DEF LabInit
  <2> QED BY <2>1 DEF Counts!Init, StatsInv, Counts!TypeOK, Counts!NoLostUpdate, Counting
<1>2. [LabNext]_labVars => [Counts!Next]_statsVars
  BY DEF LabNext, labVars, statsVars
<1>3. StatsInv /\ [LabNext]_labVars => StatsInv'
  BY <1>2, StatsKeeps
<1>4. StatsInv /\ [LabNext]_labVars =>
        [\A c \in Counters : seen'[c] >= seen[c]]_(Counts!vars)
  <2> SUFFICES ASSUME StatsInv, Counts!Next
               PROVE  \A c \in Counters : seen'[c] >= seen[c]
    BY <1>2 DEF statsVars, Counts!vars
  <2>1. CASE UNCHANGED seen
    BY <2>1, SMTT(20) DEF StatsInv, Counts!TypeOK
  <2>2. ASSUME NEW c \in Counters, Counts!Get(c)
        PROVE  \A d \in Counters : seen'[d] >= seen[d]
    BY <2>2, SMTT(20) DEF Counts!Get, StatsInv, Counts!TypeOK
  <2> QED BY <2>1, <2>2 DEF Counts!Next, Counts!Increment, Counts!Call, Counts!Lock,
                            Counts!Load, Counts!Store, Counts!Unlock
<1>5. StatsInv => Counts!TypeOK /\ Counts!NoLostUpdate
  BY DEF StatsInv
<1>6. LabSpec => LabInit /\ [][LabNext]_labVars
  BY PTL DEF LabSpec, labVars
<1> QED BY <1>1, <1>3, <1>4, <1>5, <1>6, PTL DEF StatsContract, Counts!SeenMonotone

-----------------------------------------------------------------------------
(* The work queue.                                                         *)


\* The listener holds a task that is not in the list yet.
Fresh == pc[Listener] \in {"enq_lock", "enq_link"}
\* Worker w holds a task that it has taken from the list.
Held(w) == pc[w] \in {"deq_unlock", "dispatch", "free"}

-----------------------------------------------------------------------------
(* The inductive invariant.                                                *)

\* Mutual exclusion: a thread owns `queue' exactly while it executes the
\* critical section of enqueue, dequeue or queue_count.
MutexInv == \A t \in Threads : mutex = t <=> pc[t] \in Critical

\* The linked list: from head, the next pointers run through the nodes of q,
\* which are allocated and all different, and end in NULL.
ListInv ==
  /\ head = IF q = << >> THEN NULL ELSE q[1]
  /\ \A i \in 1..Len(q) : q[i] \in allocated
  /\ \A i \in 1..Len(q) : next[q[i]] = IF i = Len(q) THEN NULL ELSE q[i + 1]
  /\ \A i, j \in 1..Len(q) : q[i] = q[j] => i = j

\* q->tail is the last node of a list that is not empty, except between the
\* two assignments of enqueue. Nothing is said of the tail of an empty list:
\* dequeue leaves it dangling.
TailInv ==
  /\ q # << >> /\ pc[Listener] # "enq_tail" => tail = q[Len(q)]
  /\ pc[Listener] = "enq_tail" => q # << >> /\ q[Len(q)] = newtask

\* The task of the listener and the tasks of the workers are allocated, are
\* not in the list and differ from each other.
OwnInv ==
  /\ Fresh => /\ newtask \in allocated /\ next[newtask] = NULL
              /\ \A i \in 1..Len(q) : q[i] # newtask
  /\ \A w \in Workers : Held(w) =>
       /\ task[w] \in allocated
       /\ \A i \in 1..Len(q) : q[i] # task[w]
       /\ Fresh => task[w] # newtask
  /\ \A v, w \in Workers : Held(v) /\ Held(w) /\ task[v] = task[w] => v = w

\* Every allocated task is in the list or held by the listener or a worker.
LeakInv ==
  \A a \in allocated :
    \/ \E i \in 1..Len(q) : q[i] = a
    \/ Fresh /\ a = newtask
    \/ \E w \in Workers : Held(w) /\ task[w] = a

\* A worker that has left the while loop of dequeue finds a task.
TakeInv == \A w \in Workers : pc[w] = "deq_take" => q # << >>

\* The connections served, the ones in the list and the one in the listener's
\* hands are numbered consecutively.
OrderInv ==
  /\ \A i \in 1..Len(served) : served[i] = i
  /\ \A i \in 1..Len(q) : fd[q[i]] = Len(served) + i
  /\ Fresh => accepted = Len(served) + Len(q) + 1 /\ fd[newtask] = accepted
  /\ ~Fresh => accepted = Len(served) + Len(q)

\* The cursor of queue_count is `count' nodes into the list.
CountInv ==
  /\ pc[Admin] = "cnt_walk" =>
       count <= Len(q) /\ cur = IF count = Len(q) THEN NULL ELSE q[count + 1]
  /\ pc[Admin] = "cnt_unlock" => count = Len(q)

\* The inductive invariant.
IInv == /\ TypeOK /\ MutexInv /\ ListInv /\ TailInv /\ OwnInv /\ LeakInv
        /\ TakeInv /\ OrderInv /\ CountInv

\* A statement that only moves a program counter, the mutex or the cursor of
\* queue_count, and does not hand a task from one thread to another, leaves
\* the list and the ownership of the tasks as they are.
LEMMA ControlKeepsList ==
  ASSUME IInv, UNCHANGED <<head, next, fd, q, allocated, newtask, task, accepted, served>>,
         Fresh' <=> Fresh, \A w \in Workers : Held(w)' <=> Held(w)
  PROVE  ListInv' /\ OwnInv' /\ LeakInv' /\ OrderInv'
<1> USE DEF IInv
<1>1. ListInv'
  BY DEF ListInv
<1>2. OwnInv'
  BY DEF OwnInv
<1>3. LeakInv'
  BY DEF LeakInv
<1>4. OrderInv'
  BY DEF OrderInv
<1> QED BY <1>1, <1>2, <1>3, <1>4

-----------------------------------------------------------------------------
(* listen_thread and enqueue.                                              *)

\* The node that malloc returns is unknown to list and workers, so that
\* filling it in disturbs neither.
LEMMA AcceptConnPreserves ==
  ASSUME IInv, AcceptConn
  PROVE  IInv'
<1> USE ThreadsAssumption, HeapAssumption, BoundAssumption DEF IInv
<1>1. TypeOK'
  BY SMTT(20) DEF AcceptConn, Goto, Threads, Pointers, countVars, TypeOK, Labels,
         ListenerLabels
<1>2. MutexInv'
  BY SMTT(20) DEF AcceptConn, Goto, MutexInv, Critical
<1>3. ListInv'
  BY SMTT(20) DEF AcceptConn, ListInv, MutexInv, TailInv
<1>4. TailInv'
  BY SMTT(20) DEF AcceptConn, Goto, TailInv
<1>5. OwnInv'
  BY SMTT(20) DEF AcceptConn, Goto, TypeOK, OwnInv, Held, ListInv
<1>6. LeakInv'
  BY Zenon DEF AcceptConn, Goto, Threads, Pointers, listVars, heapVars,
               countVars, TypeOK, LeakInv, Fresh, Held
<1>7. TakeInv'
  BY SMTT(20) DEF AcceptConn, Goto, TakeInv
<1>8. OrderInv'
  BY SMTT(20) DEF AcceptConn, Goto, Threads, countVars, TypeOK, OrderInv, Fresh, OwnInv,
         ListInv, TakeInv
<1>9. CountInv'
  BY SMTT(20) DEF AcceptConn, Goto, countVars, CountInv
<1> QED BY <1>1, <1>2, <1>3, <1>4, <1>5, <1>6, <1>7, <1>8, <1>9

\* Entering enqueue touches nothing but the mutex.
LEMMA EnqLockPreserves ==
  ASSUME IInv, EnqLock
  PROVE  IInv'
<1> USE ThreadsAssumption, HeapAssumption, BoundAssumption DEF IInv
<1>u. UNCHANGED <<head, next, fd, q, allocated, newtask, task, accepted, served>>
  BY DEF EnqLock, listVars, heapVars
<1>h. (Fresh' <=> Fresh) /\ \A v \in Workers : Held(v)' <=> Held(v)
  BY DEF EnqLock, Goto, Acquire, Fresh, Held, TypeOK, Threads
<1>1. TypeOK'
  BY DEF EnqLock, Goto, Threads, listVars, heapVars, countVars, Acquire,
         TypeOK, Labels, ListenerLabels
<1>2. MutexInv'
  BY DEF EnqLock, Goto, Threads, Acquire, TypeOK, MutexInv, Critical
<1>3. ListInv' /\ OwnInv' /\ LeakInv' /\ OrderInv'
  BY <1>u, <1>h, ControlKeepsList
<1>4. TailInv'
  BY DEF EnqLock, Goto, listVars, Acquire, TailInv
<1>5. TakeInv'
  BY SMTT(20) DEF EnqLock, Goto, listVars, Acquire, TakeInv
<1>6. CountInv'
  BY SMTT(20) DEF EnqLock, Goto, listVars, countVars, Acquire, CountInv
<1> QED BY <1>1, <1>2, <1>3, <1>4, <1>5, <1>6

\* The heart of enqueue: linking the new task behind q->tail, which is the
\* last node of the list whenever the list is not empty, extends the list by
\* that task.
LEMMA EnqLinkPreserves ==
  ASSUME IInv, EnqLink
  PROVE  IInv'
<1> USE ThreadsAssumption, HeapAssumption, BoundAssumption DEF IInv
<1>a. newtask \in Nodes /\ q \in Seq(Nodes) /\ q' = Append(q, newtask)
  BY DEF EnqLink, Goto, OwnInv, Fresh, TypeOK
<1>b. /\ q' \in Seq(Nodes) /\ Len(q') = Len(q) + 1 /\ q' # << >>
      /\ q'[Len(q) + 1] = newtask
      /\ \A i \in 1..Len(q) : q'[i] = q[i]
  BY <1>a
<1>c. Fresh /\ ~Fresh' /\ \A w \in Workers : Held(w)' <=> Held(w)
  BY DEF EnqLink, Goto, Fresh, Held, TypeOK, Threads
<1>d. /\ head = NULL => q = << >> /\ head' = newtask /\ next' = next
      /\ head # NULL => /\ q # << >> /\ head' = head /\ tail = q[Len(q)]
                        /\ next' = [next EXCEPT ![tail] = newtask]
  BY SMTT(20) DEF EnqLink, Goto, ListInv, TailInv, TypeOK
<1>1. TypeOK'
  BY <1>a, <1>b, Zenon DEF EnqLink, Goto, TypeOK, Labels, WorkerLabels,
                           ListenerLabels, AdminLabels, Threads, Pointers,
                           listVars, heapVars, countVars
<1>2. MutexInv'
  BY SMTT(20) DEF EnqLink, Goto, MutexInv, Critical
<1>3. ListInv'
  <2>1. CASE head = NULL
    <3>1. /\ Len(q) = 0 /\ Len(q') = 1 /\ q'[1] = newtask /\ head' = newtask
          /\ newtask \in allocated /\ next[newtask] = NULL
          /\ UNCHANGED <<next, allocated>>
      BY <1>a, <1>b, <1>c, <1>d, <2>1, SMTT(20) DEF EnqLink, heapVars, OwnInv
    <3> QED BY <1>b, <3>1, SMTT(20) DEF ListInv
  <2>2. CASE head # NULL
    <3>1. head' = q'[1] /\ Len(q) \in Nat /\ Len(q) >= 1
      BY <1>a, <1>b, <1>d, <2>2, SMTT(20) DEF ListInv
    <3>2. \A i \in 1..Len(q') : q'[i] \in allocated'
      <4>1. allocated' = allocated /\ newtask \in allocated
        BY <1>c DEF EnqLink, heapVars, OwnInv
      <4>2. \A i \in 1..Len(q') : i \in 1..Len(q) \/ i = Len(q) + 1
        BY <1>b, <3>1
      <4> QED BY <1>b, <4>1, <4>2 DEF ListInv
    <3>3. \A i \in 1..Len(q') : next'[q'[i]] = IF i = Len(q') THEN NULL ELSE q'[i + 1]
      <4> SUFFICES ASSUME NEW i \in 1..Len(q')
                   PROVE  next'[q'[i]] = IF i = Len(q') THEN NULL ELSE q'[i + 1]
        OBVIOUS
      <4>1. CASE i < Len(q)
        <5>1. i \in 1..Len(q) /\ i + 1 \in 1..Len(q) /\ i # Len(q') /\ i # Len(q)
          BY <4>1, <3>1, <1>b
        <5>2. q'[i] = q[i] /\ q'[i + 1] = q[i + 1] /\ next[q[i]] = q[i + 1]
          BY <5>1, <1>b DEF ListInv
        <5>3. q[i] # tail
          BY <5>1, <3>1, <1>d, <2>2, SMTT(20) DEF ListInv
        <5> QED BY <5>1, <5>2, <5>3, <1>a, <1>d, <2>2, SMTT(20) DEF TypeOK
      <4>2. CASE i = Len(q)
        BY <4>2, <3>1, <1>a, <1>b, <1>d, <2>2, SMTT(20) DEF TypeOK
      <4>3. CASE i = Len(q')
        BY <4>3, <3>1, <1>a, <1>b, <1>c, <1>d, <2>2, SMTT(20) DEF TypeOK, OwnInv
      <4> QED BY <4>1, <4>2, <4>3, <1>b, <3>1, SMTT(20)
    <3>4. \A i, j \in 1..Len(q') : q'[i] = q'[j] => i = j
      BY <3>1, <1>a, <1>b, <1>c, SMTT(20) DEF ListInv, OwnInv
    <3> QED BY <3>1, <3>2, <3>3, <3>4, <1>b DEF ListInv
  <2> QED BY <2>1, <2>2
<1>4. TailInv'
  BY SMTT(20) DEF EnqLink, Goto, Threads, heapVars, TypeOK, TailInv, TakeInv, OwnInv,
         Fresh
<1>5. OwnInv'
  BY SMTT(20) DEF EnqLink, Goto, Threads, heapVars, TypeOK, OwnInv, Fresh, Held
<1>6. LeakInv'
  <2> SUFFICES ASSUME NEW a \in allocated
               PROVE  \/ \E i \in 1..Len(q') : q'[i] = a
                      \/ \E w \in Workers : Held(w) /\ task[w] = a
    BY <1>c DEF LeakInv, EnqLink, heapVars
  <2>1. CASE \E i \in 1..Len(q) : q[i] = a
    BY <1>a, <1>b, <2>1, SMTT(20)
  <2>2. CASE a = newtask
    BY <1>a, <1>b, <2>2
  <2> QED BY <2>1, <2>2 DEF LeakInv
<1>7. TakeInv'
  BY SMTT(20) DEF EnqLink, TakeInv, ListInv
<1>8. OrderInv'
  <2>1. UNCHANGED <<fd, served, accepted>> /\ Len(served) \in Nat /\ Len(q) \in Nat
    BY <1>a, SMTT(20) DEF EnqLink, heapVars
  <2>2. accepted = Len(served) + Len(q) + 1 /\ fd[newtask] = accepted
    BY <1>c DEF OrderInv
  <2>3. \A i \in 1..Len(q') : fd'[q'[i]] = Len(served') + i
    <3> SUFFICES ASSUME NEW i \in 1..Len(q')
                 PROVE  fd[q'[i]] = Len(served) + i
      BY <2>1
    <3>1. CASE i \in 1..Len(q)
      BY <3>1, <1>b, Zenon DEF OrderInv
    <3>2. CASE i = Len(q) + 1
      BY <3>2, <1>b, <2>1, <2>2, SMTT(20)
    <3> QED BY <3>1, <3>2, <1>b, <2>1, SMTT(20)
  <2> QED BY <1>b, <1>c, <2>1, <2>2, <2>3, SMTT(20) DEF OrderInv
<1>9. CountInv'
  BY SMTT(20) DEF EnqLink, Goto, Threads, CountInv, MutexInv, Critical
<1> QED BY <1>1, <1>2, <1>3, <1>4, <1>5, <1>6, <1>7, <1>8, <1>9

\* After q->tail = t the tail is the last node again.
LEMMA EnqTailPreserves ==
  ASSUME IInv, EnqTail
  PROVE  IInv'
<1> USE ThreadsAssumption, HeapAssumption, BoundAssumption DEF IInv
<1>u. UNCHANGED <<head, next, fd, q, allocated, newtask, task, accepted, served>>
  BY DEF EnqTail, heapVars
<1>h. (Fresh' <=> Fresh) /\ \A v \in Workers : Held(v)' <=> Held(v)
  BY DEF EnqTail, Goto, Fresh, Held, TypeOK, Threads
<1>1. TypeOK'
  BY DEF EnqTail, Goto, Threads, heapVars, countVars, TypeOK, Labels,
         ListenerLabels
<1>2. MutexInv'
  BY SMTT(20) DEF EnqTail, Goto, MutexInv, Critical
<1>3. ListInv' /\ OwnInv' /\ LeakInv' /\ OrderInv'
  BY <1>u, <1>h, ControlKeepsList
<1>4. TailInv'
  BY DEF EnqTail, Goto, heapVars, TailInv
<1>5. TakeInv'
  BY SMTT(20) DEF EnqTail, Goto, TakeInv
<1>6. CountInv'
  BY SMTT(20) DEF EnqTail, Goto, countVars, CountInv
<1> QED BY <1>1, <1>2, <1>3, <1>4, <1>5, <1>6

\* pthread_cond_signal moves one sleeping worker to the mutex and leaves the
\* list alone.
LEMMA EnqSignalPreserves ==
  ASSUME IInv, EnqSignal
  PROVE  IInv'
<1> USE ThreadsAssumption, HeapAssumption, BoundAssumption DEF IInv
<1>a. \A w \in Workers :
        /\ pc'[w] # pc[w] => pc[w] = "waiting" /\ pc'[w] = "deq_relock"
        /\ Held(w)' <=> Held(w)
  <2>1. CASE Waiting = {} /\ pc' = [pc EXCEPT ![Listener] = "enq_unlock"]
    BY <2>1, SMTT(20) DEF Held
  <2>2. ASSUME NEW v \in Waiting,
               pc' = [pc EXCEPT ![Listener] = "enq_unlock", ![v] = "deq_relock"]
        PROVE  \A w \in Workers :
                 /\ pc'[w] # pc[w] => pc[w] = "waiting" /\ pc'[w] = "deq_relock"
                 /\ Held(w)' <=> Held(w)
    BY <2>2 DEF Held, TypeOK, Threads, Waiting
  <2> QED BY <2>1, <2>2 DEF EnqSignal
<1>b. ~Fresh /\ ~Fresh'
  BY DEF EnqSignal, Fresh, TypeOK, Threads
<1>c. UNCHANGED <<q, next, allocated, newtask, task>>
  BY DEF EnqSignal, listVars, heapVars
<1>d. /\ pc' \in [Threads -> Labels]
      /\ pc'[Listener] = "enq_unlock" /\ pc'[Admin] = pc[Admin]
  BY Zenon DEF EnqSignal, Waiting, TypeOK, Threads, Labels, WorkerLabels,
               ListenerLabels
<1>u. UNCHANGED <<head, next, fd, q, allocated, newtask, task, accepted, served>>
  BY DEF EnqSignal, listVars, heapVars
<1>1. TypeOK'
  BY <1>a, <1>d DEF EnqSignal, listVars, heapVars, countVars, TypeOK,
                    WorkerLabels, ListenerLabels
<1>2. MutexInv'
  BY SMTT(20) DEF EnqSignal, Threads, TypeOK, MutexInv, Critical
<1>3. ListInv' /\ OwnInv' /\ LeakInv' /\ OrderInv'
  BY <1>u, <1>a, <1>b, ControlKeepsList
<1>4. TailInv'
  BY DEF EnqSignal, Threads, listVars, TypeOK, TailInv
<1>5. TakeInv'
  BY <1>a, <1>c DEF TakeInv
<1>6. CountInv'
  BY DEF EnqSignal, Threads, listVars, countVars, TypeOK, CountInv
<1> QED BY <1>1, <1>2, <1>3, <1>4, <1>5, <1>6

\* Leaving enqueue gives up the mutex.
LEMMA EnqUnlockPreserves ==
  ASSUME IInv, EnqUnlock
  PROVE  IInv'
<1> USE ThreadsAssumption, HeapAssumption, BoundAssumption DEF IInv
<1>u. UNCHANGED <<head, next, fd, q, allocated, newtask, task, accepted, served>>
  BY DEF EnqUnlock, listVars, heapVars
<1>h. (Fresh' <=> Fresh) /\ \A v \in Workers : Held(v)' <=> Held(v)
  BY DEF EnqUnlock, Goto, Release, Fresh, Held, TypeOK, Threads
<1>1. TypeOK'
  BY DEF EnqUnlock, Goto, Threads, listVars, heapVars, countVars, Release,
         TypeOK, Labels, ListenerLabels
<1>2. MutexInv'
  BY DEF EnqUnlock, Goto, Threads, Release, TypeOK, MutexInv, Critical
<1>3. ListInv' /\ OwnInv' /\ LeakInv' /\ OrderInv'
  BY <1>u, <1>h, ControlKeepsList
<1>4. TailInv'
  BY DEF EnqUnlock, Goto, listVars, Release, TailInv
<1>5. TakeInv'
  BY SMTT(20) DEF EnqUnlock, Goto, listVars, Release, TakeInv
<1>6. CountInv'
  BY SMTT(20) DEF EnqUnlock, Goto, listVars, countVars, Release, CountInv
<1> QED BY <1>1, <1>2, <1>3, <1>4, <1>5, <1>6

-----------------------------------------------------------------------------
(* dequeue and worker.                                                     *)

\* Entering dequeue, or coming back from pthread_cond_wait, touches nothing
\* but the mutex.
LEMMA DeqLockPreserves ==
  ASSUME IInv, NEW w \in Workers, DeqLock(w)
  PROVE  IInv'
<1> USE ThreadsAssumption, HeapAssumption, BoundAssumption DEF IInv
<1>a. /\ pc' = [pc EXCEPT ![w] = "deq_test"] /\ mutex' = w
      /\ pc[w] \in {"deq_lock", "deq_relock"}
  BY DEF DeqLock, Acquire, Goto
<1>b. (Fresh' <=> Fresh) /\ \A v \in Workers : Held(v)' <=> Held(v)
  BY <1>a DEF Fresh, Held, TypeOK, Threads
<1>c. UNCHANGED <<q, next, allocated, newtask, task>>
  BY DEF DeqLock, listVars, heapVars
<1>u. UNCHANGED <<head, next, fd, q, allocated, newtask, task, accepted, served>>
  BY DEF DeqLock, listVars, heapVars
<1>1. TypeOK'
  BY <1>a DEF DeqLock, listVars, heapVars, countVars, TypeOK, Threads, Labels,
              WorkerLabels
<1>2. MutexInv'
  BY DEF DeqLock, Goto, Threads, Acquire, TypeOK, MutexInv, Critical
<1>3. ListInv' /\ OwnInv' /\ LeakInv' /\ OrderInv'
  BY <1>u, <1>b, ControlKeepsList
<1>4. TailInv'
  BY DEF DeqLock, Goto, Threads, listVars, heapVars, Acquire, TypeOK, TailInv
<1>5. TakeInv'
  BY DEF DeqLock, Goto, Threads, listVars, Acquire, TypeOK, TakeInv
<1>6. CountInv'
  BY DEF DeqLock, Goto, Threads, listVars, countVars, Acquire, TypeOK, CountInv
<1> QED BY <1>1, <1>2, <1>3, <1>4, <1>5, <1>6

\* A worker passes the while loop of dequeue only when the list is not empty,
\* and gives up the mutex otherwise.
LEMMA DeqTestPreserves ==
  ASSUME IInv, NEW w \in Workers, DeqTest(w)
  PROVE  IInv'
<1> USE ThreadsAssumption, HeapAssumption, BoundAssumption DEF IInv
<1>a. /\ pc'[w] \in {"waiting", "deq_take"} /\ pc[w] = "deq_test"
      /\ pc' \in [Threads -> Labels]
      /\ \A t \in Threads : t # w => pc'[t] = pc[t]
  BY Zenon DEF DeqTest, Goto, Release, TypeOK, Threads, Labels, WorkerLabels
<1>b. (Fresh' <=> Fresh) /\ \A v \in Workers : Held(v)' <=> Held(v)
  BY <1>a DEF Fresh, Held, Threads
<1>u. UNCHANGED <<head, next, fd, q, allocated, newtask, task, accepted, served>>
  BY DEF DeqTest, listVars, heapVars
<1>1. TypeOK'
  <2>1. /\ mutex' \in Threads \cup {NULL}
        /\ UNCHANGED <<listVars, heapVars, task, served, countVars>>
    BY DEF DeqTest, Release, TypeOK
  <2>2. \A v \in Workers : pc'[v] \in WorkerLabels
    BY <1>a DEF TypeOK, WorkerLabels, Threads
  <2>3. pc'[Listener] = pc[Listener] /\ pc'[Admin] = pc[Admin]
    BY <1>a DEF Threads
  <2> QED BY <1>a, <2>1, <2>2, <2>3 DEF TypeOK, listVars, heapVars, countVars
<1>2. MutexInv'
  BY DEF DeqTest, Goto, Threads, listVars, heapVars, Release, TypeOK, MutexInv,
         Critical
<1>3. ListInv' /\ OwnInv' /\ LeakInv' /\ OrderInv'
  BY <1>u, <1>b, ControlKeepsList
<1>4. TailInv'
  BY DEF DeqTest, Goto, Threads, listVars, heapVars, Release, TypeOK, TailInv
<1>5. TakeInv'
  BY SMTT(20) DEF DeqTest, Goto, Threads, listVars, countVars, Release, TypeOK, TakeInv,
         ListInv
<1>6. CountInv'
  BY DEF DeqTest, Goto, Threads, listVars, countVars, Release, TypeOK, CountInv
<1> QED BY <1>1, <1>2, <1>3, <1>4, <1>5, <1>6

\* The heart of dequeue: head moves on to the next node, and the first task of
\* the list becomes the worker's. The tail of a list that becomes empty is
\* left dangling.
LEMMA DeqTakePreserves ==
  ASSUME IInv, NEW w \in Workers, DeqTake(w)
  PROVE  IInv'
<1> USE ThreadsAssumption, HeapAssumption, BoundAssumption DEF IInv
<1>a. /\ q \in Seq(Nodes) /\ q # << >>
      /\ head = q[1] /\ head \in Nodes /\ Len(q) \in Nat /\ Len(q) >= 1
  BY SMTT(20) DEF DeqTake, Goto, ListInv, TakeInv, TypeOK
<1>b. /\ q' \in Seq(Nodes) /\ Len(q') = Len(q) - 1
      /\ \A i \in 1..Len(q') : q'[i] = q[i + 1]
  BY <1>a DEF DeqTake
<1>c. /\ (Fresh' <=> Fresh) /\ ~Held(w) /\ Held(w)'
      /\ \A v \in Workers : v # w => (Held(v)' <=> Held(v)) /\ task'[v] = task[v]
      /\ task'[w] = head
  BY DEF DeqTake, Goto, Fresh, Held, TypeOK, Threads
<1>d. /\ head' = next[head] /\ UNCHANGED <<next, fd, allocated, accepted>>
  BY DEF DeqTake, heapVars
<1>e. \A i \in 1..Len(q') : i + 1 \in 1..Len(q) /\ (i = Len(q') <=> i + 1 = Len(q))
  BY <1>a, <1>b, SMTT(20)
<1>1. TypeOK'
  <2>1. served' \in Seq(Nat) /\ task' \in [Workers -> Pointers] /\ head' \in Pointers
    <3>1. served \in Seq(Nat) /\ fd[head] \in Nat /\ head \in Pointers
      BY <1>a DEF TypeOK, Pointers
    <3> QED BY <1>a, <3>1, SMTT(20) DEF DeqTake, TypeOK
  <2> QED BY <1>b, <2>1 DEF DeqTake, Goto, TypeOK, Labels, WorkerLabels,
                            Threads, heapVars, countVars
<1>2. MutexInv'
  BY SMTT(20) DEF DeqTake, Goto, MutexInv, Critical
<1>3. ListInv'
  <2>1. head' = IF q' = << >> THEN NULL ELSE q'[1]
    <3>1. CASE Len(q) = 1
      <4>1. q' = << >>
        BY <1>b, <3>1
      <4> QED BY <1>a, <1>d, <3>1, <4>1, SMTT(20) DEF ListInv
    <3>2. CASE Len(q) # 1
      <4>1. q' # << >> /\ 1 \in 1..Len(q') /\ 1 \in 1..Len(q)
        BY <1>a, <1>b, <3>2, SMTT(20)
      <4>2. q'[1] = q[2] /\ next[q[1]] = q[2]
        BY <1>a, <1>b, <3>2, <4>1, SMTT(20) DEF ListInv
      <4>3. head' = next[q[1]]
        BY <1>a, <1>d
      <4> QED BY <4>1, <4>2, <4>3
    <3> QED BY <3>1, <3>2
  <2>2. \A i \in 1..Len(q') : q'[i] \in allocated'
    BY <1>b, <1>d, <1>e DEF ListInv
  <2>3. \A i \in 1..Len(q') : next'[q'[i]] = IF i = Len(q') THEN NULL ELSE q'[i + 1]
    <3> SUFFICES ASSUME NEW i \in 1..Len(q')
                 PROVE  next[q[i + 1]] = IF i = Len(q') THEN NULL ELSE q'[i + 1]
      BY <1>b, <1>d
    <3>1. next[q[i + 1]] = IF i + 1 = Len(q) THEN NULL ELSE q[(i + 1) + 1]
      BY <1>e DEF ListInv
    <3>2. i # Len(q') => i + 1 \in 1..Len(q') /\ q'[i + 1] = q[(i + 1) + 1]
      BY <1>a, <1>b, SMTT(20)
    <3> QED BY <3>1, <3>2, <1>e
  <2>4. \A i, j \in 1..Len(q') : q'[i] = q'[j] => i = j
    <3> SUFFICES ASSUME NEW i \in 1..Len(q'), NEW j \in 1..Len(q'), q'[i] = q'[j]
                 PROVE  i = j
      OBVIOUS
    <3>1. q[i + 1] = q[j + 1] /\ i + 1 \in 1..Len(q) /\ j + 1 \in 1..Len(q)
      BY <1>b, <1>e
    <3>2. i + 1 = j + 1
      BY <3>1 DEF ListInv
    <3> QED BY <3>2
  <2> QED BY <2>1, <2>2, <2>3, <2>4 DEF ListInv
<1>4. TailInv'
  <2>1. UNCHANGED tail /\ pc'[Listener] = pc[Listener] /\ pc[Listener] # "enq_tail"
    BY DEF DeqTake, Goto, TypeOK, Threads, MutexInv, Critical
  <2>2. ASSUME q' # << >> PROVE q'[Len(q')] = q[Len(q)]
    <3>1. Len(q') \in 1..Len(q') /\ Len(q') + 1 = Len(q)
      BY <1>a, <1>b, <2>2
    <3> QED BY <1>b, <3>1
  <2> QED BY <1>a, <2>1, <2>2 DEF TailInv
<1>5. OwnInv'
  <2>1. UNCHANGED <<allocated, next, newtask>>
    BY DEF DeqTake, heapVars
  <2>2. head \in allocated /\ \A i \in 1..Len(q') : q'[i] # head
    <3>1. 1 \in 1..Len(q)
      BY <1>a
    <3>2. \A i \in 1..Len(q') : i + 1 # 1 /\ q'[i] = q[i + 1]
      BY <1>a, <1>b, SMTT(20)
    <3> QED BY <1>a, <1>e, <3>1, <3>2, SMTT(20) DEF ListInv
  <2>3. Fresh => newtask # head
    BY <1>a DEF OwnInv
  <2>4. \A v \in Workers : Held(v) => task[v] # head
    BY <1>a, SMTT(20) DEF OwnInv
  <2>5. Fresh => \A i \in 1..Len(q') : q'[i] # newtask
    BY <1>b, <1>e DEF OwnInv
  <2>6. \A v \in Workers : Held(v) => \A i \in 1..Len(q') : q'[i] # task[v]
    BY <1>b, <1>e, SMTT(20) DEF OwnInv
  <2> QED BY <1>c, <2>1, <2>2, <2>3, <2>4, <2>5, <2>6 DEF OwnInv
<1>6. LeakInv'
  <2> SUFFICES ASSUME NEW a \in allocated
               PROVE  \/ \E i \in 1..Len(q') : q'[i] = a
                      \/ Fresh' /\ a = newtask
                      \/ \E v \in Workers : Held(v)' /\ task'[v] = a
    BY Zenon DEF LeakInv, DeqTake, heapVars
  <2>1. ASSUME NEW i \in 1..Len(q), q[i] = a
        PROVE  (\E j \in 1..Len(q') : q'[j] = a) \/ (Held(w)' /\ task'[w] = a)
    <3>1. CASE i = 1
      BY <1>a, <1>c, <2>1, <3>1
    <3>2. CASE i # 1
      <4>1. i - 1 \in 1..Len(q') /\ q'[i - 1] = a
        BY <1>a, <1>b, <2>1, <3>2
      <4> QED BY <4>1
    <3> QED BY <3>1, <3>2
  <2> QED BY <2>1, <1>c DEF LeakInv
<1>7. TakeInv'
  BY DEF DeqTake, Goto, Threads, TypeOK, TakeInv, MutexInv, Critical
<1>8. OrderInv'
  <2>1. fd[head] = Len(served) + 1 /\ served \in Seq(Nat) /\ served' = Append(served, fd[head])
    BY <1>a, SMTT(20) DEF OrderInv, DeqTake, TypeOK
  <2>2. /\ Len(served') = Len(served) + 1 /\ Len(served) \in Nat
        /\ \A i \in 1..Len(served) : served'[i] = served[i]
        /\ served'[Len(served) + 1] = Len(served) + 1
    BY <2>1
  <2>3. \A i \in 1..Len(served') : served'[i] = i
    <3>1. \A i \in 1..Len(served') : i \in 1..Len(served) \/ i = Len(served) + 1
      BY <2>2, SMTT(20)
    <3> QED BY <2>2, <3>1 DEF OrderInv
  <2>4. \A i \in 1..Len(q') : fd'[q'[i]] = Len(served') + i
    BY <2>2, <1>b, <1>d, <1>e, SMTT(20) DEF OrderInv
  <2>5. /\ Len(served') + Len(q') = Len(served) + Len(q)
        /\ UNCHANGED <<newtask, fd, accepted>>
    BY <2>2, <1>a, <1>b, SMTT(20) DEF DeqTake, heapVars
  <2> QED BY <2>3, <2>4, <2>5, <1>c DEF OrderInv
<1>9. CountInv'
  <2>1. mutex = w /\ w # Admin /\ pc'[Admin] = pc[Admin]
    BY DEF DeqTake, Goto, Threads, TypeOK, MutexInv, Critical
  <2>2. pc[Admin] \notin Critical
    BY <2>1 DEF MutexInv, Threads
  <2> QED BY <2>1, <2>2 DEF CountInv, Critical
<1> QED BY <1>1, <1>2, <1>3, <1>4, <1>5, <1>6, <1>7, <1>8, <1>9

\* Leaving dequeue gives up the mutex; the task stays the worker's.
LEMMA DeqUnlockPreserves ==
  ASSUME IInv, NEW w \in Workers, DeqUnlock(w)
  PROVE  IInv'
<1> USE ThreadsAssumption, HeapAssumption, BoundAssumption DEF IInv
<1>u. UNCHANGED <<head, next, fd, q, allocated, newtask, task, accepted, served>>
  BY DEF DeqUnlock, listVars, heapVars
<1>h. (Fresh' <=> Fresh) /\ \A v \in Workers : Held(v)' <=> Held(v)
  BY DEF DeqUnlock, Goto, Release, Fresh, Held, TypeOK, Threads
<1>1. TypeOK'
  BY DEF DeqUnlock, Goto, Threads, listVars, heapVars, countVars, Release,
         TypeOK, Labels, WorkerLabels
<1>2. MutexInv'
  BY DEF DeqUnlock, Goto, Threads, Release, TypeOK, MutexInv, Critical
<1>3. ListInv' /\ OwnInv' /\ LeakInv' /\ OrderInv'
  BY <1>u, <1>h, ControlKeepsList
<1>4. TailInv'
  BY SMTT(20) DEF DeqUnlock, Goto, listVars, heapVars, Release, TailInv, Fresh
<1>5. TakeInv'
  BY DEF DeqUnlock, Goto, listVars, Release, TakeInv
<1>6. CountInv'
  BY SMTT(20) DEF DeqUnlock, Goto, listVars, countVars, Release, CountInv, ListInv
<1> QED BY <1>1, <1>2, <1>3, <1>4, <1>5, <1>6

\* Serving the connection does not touch the queue.
LEMMA DispatchPreserves ==
  ASSUME IInv, NEW w \in Workers, Dispatch(w)
  PROVE  IInv'
<1> USE ThreadsAssumption, HeapAssumption, BoundAssumption DEF IInv
<1>u. UNCHANGED <<head, next, fd, q, allocated, newtask, task, accepted, served>>
  BY DEF Dispatch, listVars, heapVars
<1>h. (Fresh' <=> Fresh) /\ \A v \in Workers : Held(v)' <=> Held(v)
  BY DEF Dispatch, Goto, Fresh, Held, TypeOK, Threads
<1>1. TypeOK'
  BY DEF Dispatch, Goto, Threads, listVars, heapVars, countVars, TypeOK,
         Labels, WorkerLabels
<1>2. MutexInv'
  BY SMTT(20) DEF Dispatch, Goto, MutexInv, Critical
<1>3. ListInv' /\ OwnInv' /\ LeakInv' /\ OrderInv'
  BY <1>u, <1>h, ControlKeepsList
<1>4. TailInv'
  BY SMTT(20) DEF Dispatch, Goto, listVars, heapVars, TailInv, Fresh
<1>5. TakeInv'
  BY DEF Dispatch, Goto, listVars, TakeInv
<1>6. CountInv'
  BY SMTT(20) DEF Dispatch, Goto, listVars, countVars, CountInv, ListInv
<1> QED BY <1>1, <1>2, <1>3, <1>4, <1>5, <1>6

\* free(w) returns a task that neither the list nor another thread knows, so
\* that what the allocator writes over it does no harm.
LEMMA FreeTaskPreserves ==
  ASSUME IInv, NEW w \in Workers, FreeTask(w)
  PROVE  IInv'
<1> USE ThreadsAssumption, HeapAssumption, BoundAssumption DEF IInv
<1>a. /\ allocated' = allocated \ {task[w]} /\ task' = [task EXCEPT ![w] = NULL]
      /\ pc' = [pc EXCEPT ![w] = "deq_lock"] /\ Held(w)
      /\ UNCHANGED <<head, tail, fd, newtask, accepted, q, served>>
  BY DEF FreeTask, Goto, Held
<1>b. task[w] \in Nodes /\ \A a \in Nodes : a # task[w] => next'[a] = next[a]
  BY <1>a DEF FreeTask, OwnInv, TypeOK
<1>c. (Fresh' <=> Fresh) /\ pc'[Listener] = pc[Listener]
  BY <1>a DEF Fresh, TypeOK, Threads
<1>d. /\ ~Held(w)'
      /\ \A v \in Workers : v # w => (Held(v)' <=> Held(v)) /\ task'[v] = task[v]
  BY <1>a, SMTT(20) DEF Held, TypeOK, Threads
<1>e. \A i \in 1..Len(q) : q[i] \in Nodes /\ q[i] # task[w]
  BY <1>a DEF OwnInv, ListInv, TypeOK
<1>1. TypeOK'
  <2>1. next' \in [Nodes -> Pointers]
    BY <1>b DEF FreeTask, TypeOK
  <2> QED BY <2>1 DEF FreeTask, Goto, TypeOK, Labels, WorkerLabels,
                      AdminLabels, Threads, Pointers, countVars
<1>2. MutexInv'
  BY SMTT(20) DEF FreeTask, Goto, Threads, Pointers, listVars, heapVars,
                  countVars, TypeOK, MutexInv, Critical
<1>3. ListInv'
  BY <1>a, <1>b, <1>e DEF ListInv
<1>4. TailInv'
  BY <1>a, <1>c, SMTT(20) DEF TailInv
<1>5. OwnInv'
  <2>1. Fresh => newtask \in Nodes /\ newtask # task[w]
    BY <1>a DEF OwnInv, TypeOK
  <2>2. Fresh' => /\ newtask' \in allocated' /\ next'[newtask'] = NULL
                  /\ \A i \in 1..Len(q') : q'[i] # newtask'
    BY <1>a, <1>b, <1>c, <2>1, SMTT(20) DEF OwnInv
  <2>3. \A v \in Workers : Held(v)' => Held(v) /\ task'[v] = task[v] /\ task[v] # task[w]
    BY <1>a, <1>d, SMTT(20) DEF OwnInv
  <2>4. \A v \in Workers : Held(v)' =>
          /\ task'[v] \in allocated'
          /\ \A i \in 1..Len(q') : q'[i] # task'[v]
          /\ Fresh' => task'[v] # newtask'
    <3> SUFFICES ASSUME NEW v \in Workers, Held(v)'
                 PROVE  /\ task'[v] \in allocated'
                        /\ \A i \in 1..Len(q') : q'[i] # task'[v]
                        /\ Fresh' => task'[v] # newtask'
      OBVIOUS
    <3>1. Held(v) /\ task'[v] = task[v] /\ task[v] # task[w]
      BY <2>3
    <3> QED BY <3>1, <1>a, <1>c, SMTT(20) DEF OwnInv
  <2>5. \A u, v \in Workers : Held(u)' /\ Held(v)' /\ task'[u] = task'[v] => u = v
    BY <2>3 DEF OwnInv
  <2> QED BY <2>2, <2>4, <2>5 DEF OwnInv
<1>6. LeakInv'
  BY <1>a, <1>c, <1>d DEF LeakInv
<1>7. TakeInv'
  BY <1>a DEF TypeOK, TakeInv, Threads
<1>8. OrderInv'
  BY <1>a, <1>c DEF OrderInv
<1>9. CountInv'
  <2>1. pc'[Admin] = pc[Admin] /\ UNCHANGED <<q, cur, count>>
    BY <1>a DEF FreeTask, countVars, TypeOK, Threads
  <2> QED BY <2>1 DEF CountInv
<1> QED BY <1>1, <1>2, <1>3, <1>4, <1>5, <1>6, <1>7, <1>8, <1>9

\* A worker that wakes up without a signal has not got the mutex yet.
LEMMA SpuriousWakeupPreserves ==
  ASSUME IInv, NEW w \in Workers, SpuriousWakeup(w)
  PROVE  IInv'
<1> USE ThreadsAssumption, HeapAssumption, BoundAssumption DEF IInv
<1>u. UNCHANGED <<head, next, fd, q, allocated, newtask, task, accepted, served>>
  BY DEF SpuriousWakeup, listVars, heapVars
<1>h. (Fresh' <=> Fresh) /\ \A v \in Workers : Held(v)' <=> Held(v)
  BY DEF SpuriousWakeup, Goto, Fresh, Held, TypeOK, Threads
<1>1. TypeOK'
  BY DEF SpuriousWakeup, Goto, Threads, listVars, heapVars, countVars, TypeOK,
         Labels, WorkerLabels, AdminLabels
<1>2. MutexInv'
  BY SMTT(20) DEF SpuriousWakeup, Goto, MutexInv, Critical
<1>3. ListInv' /\ OwnInv' /\ LeakInv' /\ OrderInv'
  BY <1>u, <1>h, ControlKeepsList
<1>4. TailInv'
  BY SMTT(20) DEF SpuriousWakeup, Goto, listVars, heapVars, TailInv, Fresh
<1>5. TakeInv'
  BY DEF SpuriousWakeup, Goto, listVars, TakeInv
<1>6. CountInv'
  BY SMTT(20) DEF SpuriousWakeup, Goto, listVars, countVars, CountInv, ListInv
<1> QED BY <1>1, <1>2, <1>3, <1>4, <1>5, <1>6

-----------------------------------------------------------------------------
(* queue_count.                                                            *)

\* queue_count starts at the head of the list with a count of 0.
LEMMA CountLockPreserves ==
  ASSUME IInv, CountLock
  PROVE  IInv'
<1> USE ThreadsAssumption, HeapAssumption, BoundAssumption DEF IInv
<1>u. UNCHANGED <<head, next, fd, q, allocated, newtask, task, accepted, served>>
  BY DEF CountLock, listVars, heapVars
<1>h. (Fresh' <=> Fresh) /\ \A v \in Workers : Held(v)' <=> Held(v)
  BY DEF CountLock, Goto, Acquire, Fresh, Held, TypeOK, Threads
<1>1. TypeOK'
  BY DEF CountLock, Goto, Threads, listVars, heapVars, Acquire, TypeOK, Labels,
         AdminLabels
<1>2. MutexInv'
  BY DEF CountLock, Goto, Threads, Acquire, TypeOK, MutexInv, Critical
<1>3. ListInv' /\ OwnInv' /\ LeakInv' /\ OrderInv'
  BY <1>u, <1>h, ControlKeepsList
<1>4. TailInv'
  BY DEF CountLock, Goto, listVars, heapVars, Acquire, TailInv, Fresh
<1>5. TakeInv'
  BY SMTT(20) DEF CountLock, Goto, listVars, Acquire, TakeInv
<1>6. CountInv'
  <2>1. /\ pc'[Admin] = "cnt_walk" /\ q' = q /\ cur' = head /\ count' = 0
        /\ Len(q) \in Nat
    BY SMTT(20) DEF CountLock, Goto, listVars, Acquire, TypeOK, Threads
  <2>2. cur' = IF 0 = Len(q) THEN NULL ELSE q[0 + 1]
    BY <2>1, SMTT(20) DEF ListInv, TypeOK
  <2> QED BY <2>1, <2>2 DEF CountInv
<1> QED BY <1>1, <1>2, <1>3, <1>4, <1>5, <1>6

\* Each round of queue_count's loop moves the cursor by one node, and the loop
\* ends when all have been counted.
LEMMA CountWalkPreserves ==
  ASSUME IInv, CountWalk
  PROVE  IInv'
<1> USE ThreadsAssumption, HeapAssumption, BoundAssumption DEF IInv
<1>u. UNCHANGED <<head, next, fd, q, allocated, newtask, task, accepted, served>>
  BY DEF CountWalk, listVars, heapVars
<1>h. (Fresh' <=> Fresh) /\ \A v \in Workers : Held(v)' <=> Held(v)
  BY SMTT(20) DEF CountWalk, Fresh, Held, TypeOK, Threads
<1>1. TypeOK'
  <2>1. CASE cur # NULL /\ cur' = next[cur] /\ count' = count + 1 /\ UNCHANGED pc
    BY <2>1, SMTT(20) DEF CountWalk, TypeOK, Pointers, listVars, heapVars, countVars
  <2>2. CASE pc' = [pc EXCEPT ![Admin] = "cnt_unlock"] /\ UNCHANGED countVars
    BY <2>2 DEF CountWalk, TypeOK, Labels, AdminLabels, Threads, listVars,
                heapVars, countVars
  <2> QED BY <2>1, <2>2 DEF CountWalk
<1>2. MutexInv'
  BY DEF CountWalk, TypeOK, MutexInv, Critical
<1>3. ListInv' /\ OwnInv' /\ LeakInv' /\ OrderInv'
  BY <1>u, <1>h, ControlKeepsList
<1>4. TailInv'
  BY DEF CountWalk, Threads, listVars, heapVars, TypeOK, TailInv, Critical,
         Fresh
<1>5. TakeInv'
  BY DEF CountWalk, Threads, listVars, TypeOK, TakeInv, Critical
<1>6. CountInv'
  <2>1. /\ q' = q /\ count \in Nat /\ Len(q) \in Nat /\ q \in Seq(Nodes)
        /\ count <= Len(q) /\ cur = IF count = Len(q) THEN NULL ELSE q[count + 1]
    BY SMTT(20) DEF CountWalk, listVars, TypeOK, CountInv
  <2>2. CASE cur # NULL /\ cur' = next[cur] /\ count' = count + 1 /\ UNCHANGED pc
    <3>1. count + 1 \in 1..Len(q) /\ cur = q[count + 1]
      BY <2>1, <2>2
    <3>2. cur' = IF count' = Len(q) THEN NULL ELSE q[count' + 1]
      BY <2>2, <3>1 DEF ListInv
    <3>3. count' <= Len(q')
      BY <2>1, <2>2, <3>1, SMTT(20)
    <3>4. pc'[Admin] = "cnt_walk"
      BY <2>2 DEF CountWalk
    <3> QED BY <2>1, <3>2, <3>3, <3>4 DEF CountInv
  <2>3. CASE /\ cur = NULL /\ pc' = [pc EXCEPT ![Admin] = "cnt_unlock"]
             /\ UNCHANGED countVars
    <3>1. count = Len(q)
      <4>1. count # Len(q) => count + 1 \in 1..Len(q)
        BY <2>1
      <4> QED BY <2>1, <2>3, <4>1
    <3>2. pc'[Admin] = "cnt_unlock" /\ count' = count
      BY <2>3 DEF countVars, TypeOK, Threads
    <3> QED BY <2>1, <3>1, <3>2 DEF CountInv
  <2> QED BY <2>2, <2>3 DEF CountWalk
<1> QED BY <1>1, <1>2, <1>3, <1>4, <1>5, <1>6

\* Leaving queue_count gives up the mutex.
LEMMA CountUnlockPreserves ==
  ASSUME IInv, CountUnlock
  PROVE  IInv'
<1> USE ThreadsAssumption, HeapAssumption, BoundAssumption DEF IInv
<1>u. UNCHANGED <<head, next, fd, q, allocated, newtask, task, accepted, served>>
  BY DEF CountUnlock, listVars, heapVars
<1>h. (Fresh' <=> Fresh) /\ \A v \in Workers : Held(v)' <=> Held(v)
  BY DEF CountUnlock, Goto, Release, Fresh, Held, TypeOK, Threads
<1>1. TypeOK'
  BY DEF CountUnlock, Goto, Threads, listVars, heapVars, countVars, Release,
         TypeOK, Labels, AdminLabels
<1>2. MutexInv'
  BY DEF CountUnlock, Goto, Threads, Release, TypeOK, MutexInv, Critical
<1>3. ListInv' /\ OwnInv' /\ LeakInv' /\ OrderInv'
  BY <1>u, <1>h, ControlKeepsList
<1>4. TailInv'
  BY DEF CountUnlock, Goto, listVars, heapVars, Release, TailInv, Fresh
<1>5. TakeInv'
  BY SMTT(20) DEF CountUnlock, Goto, listVars, Release, TakeInv
<1>6. CountInv'
  BY DEF CountUnlock, Goto, Threads, Release, TypeOK, CountInv, ListInv
<1> QED BY <1>1, <1>2, <1>3, <1>4, <1>5, <1>6

-----------------------------------------------------------------------------
(* The invariant holds.                                                    *)

\* What init() of dbserver.c sets up satisfies the invariant.
LEMMA InitEstablishes == Init => IInv
<1> SUFFICES ASSUME Init PROVE IInv
  OBVIOUS
<1> USE ThreadsAssumption, HeapAssumption, BoundAssumption
<1>e. Len(q) = 0 /\ Len(served) = 0 /\ q \in Seq(Nodes) /\ served \in Seq(Nat)
  BY DEF Init
<1>1. TypeOK
  BY <1>e DEF Init, TypeOK, Threads, Pointers, Labels, WorkerLabels,
              ListenerLabels, AdminLabels
<1>2. MutexInv
  BY DEF Init, MutexInv, Threads, Critical
<1>3. ListInv /\ TailInv
  BY <1>e, SMTT(20) DEF Init, ListInv, TailInv, Threads
<1>4. OwnInv /\ LeakInv
  BY DEF Init, OwnInv, LeakInv, Fresh, Held, Threads
<1>5. TakeInv
  BY DEF Init, TakeInv, Threads
<1>6. OrderInv
  BY <1>e DEF Init, OrderInv, Fresh, Threads
<1>7. CountInv
  BY DEF Init, CountInv, Threads
<1> QED BY <1>1, <1>2, <1>3, <1>4, <1>5, <1>6, <1>7 DEF IInv

\* A step that changes nothing preserves the invariant.
LEMMA StutterPreserves == ASSUME IInv, UNCHANGED vars PROVE IInv'
<1> USE DEF IInv, vars
<1>1. TypeOK'
  BY DEF TypeOK
<1>2. MutexInv' /\ ListInv' /\ TailInv'
  BY SMTT(20) DEF MutexInv, ListInv, TailInv
<1>3. OwnInv' /\ LeakInv'
  BY DEF OwnInv, LeakInv, Fresh, Held
<1>4. TakeInv' /\ OrderInv' /\ CountInv'
  BY DEF TakeInv, OrderInv, CountInv, Fresh
<1> QED BY <1>1, <1>2, <1>3, <1>4

\* Every statement of listener, workers and control thread preserves the
\* invariant.
LEMMA NextPreserves == ASSUME IInv, [Next]_vars PROVE IInv'
<1>1. CASE ListenerStep
  BY <1>1, AcceptConnPreserves, EnqLockPreserves, EnqLinkPreserves,
     EnqTailPreserves, EnqSignalPreserves, EnqUnlockPreserves
     DEF ListenerStep
<1>2. CASE AdminStep
  BY <1>2, CountLockPreserves, CountWalkPreserves, CountUnlockPreserves
     DEF AdminStep
<1>3. ASSUME NEW w \in Workers, WorkerStep(w) \/ SpuriousWakeup(w)
      PROVE  IInv'
  BY <1>3, DeqLockPreserves, DeqTestPreserves, DeqTakePreserves,
     DeqUnlockPreserves, DispatchPreserves, FreeTaskPreserves,
     SpuriousWakeupPreserves DEF WorkerStep
<1>4. CASE UNCHANGED vars
  BY <1>4, StutterPreserves
<1> QED BY <1>1, <1>2, <1>3, <1>4 DEF Next

\* The inductive invariant holds throughout every execution of the threads
\* that share the work queue.
THEOREM Invariance == Spec => []IInv
  BY InitEstablishes, NextPreserves, PTL DEF Spec

-----------------------------------------------------------------------------
(* The safety properties.                                                  *)

\* The variables of queue.c keep their types, and no thread leaves its code.
THEOREM TypeCorrect == Spec => []TypeOK
<1>1. IInv => TypeOK
  BY DEF IInv
<1> QED BY <1>1, Invariance, PTL

\* enqueue, dequeue, queue_count and worker only follow pointers to tasks that
\* are allocated, for any number of workers and any order of frees.
THEOREM MemorySafety == Spec => []MemorySafe
<1>1. IInv => MemorySafe
  <2> SUFFICES ASSUME IInv PROVE MemorySafe
    OBVIOUS
  <2> USE DEF IInv
  <2>a. q \in Seq(Nodes) /\ Len(q) \in Nat
    BY SMTT(20) DEF TypeOK
  <2>1. pc[Listener] = "enq_link" /\ head # NULL => tail \in allocated
    BY <2>a, SMTT(20) DEF ListInv, TailInv
  <2>2. \A w \in Workers : pc[w] = "deq_take" => head \in allocated
    BY <2>a, SMTT(20) DEF TakeInv, ListInv
  <2>3. \A w \in Workers : pc[w] \in {"dispatch", "free"} => task[w] \in allocated
    BY DEF OwnInv, Held
  <2>4. pc[Admin] = "cnt_walk" /\ cur # NULL => cur \in allocated
    <3> SUFFICES ASSUME pc[Admin] = "cnt_walk", cur # NULL PROVE cur \in allocated
      OBVIOUS
    <3>1. count \in Nat /\ count <= Len(q) /\ count # Len(q) /\ cur = q[count + 1]
      BY DEF CountInv, TypeOK
    <3>2. count + 1 \in 1..Len(q)
      BY <2>a, <3>1
    <3> QED BY <3>1, <3>2 DEF ListInv
  <2> QED BY <2>1, <2>2, <2>3, <2>4 DEF MemorySafe, Dereferenced
<1> QED BY <1>1, Invariance, PTL

\* Every task is in the list or belongs to one thread: none is handed out
\* twice, freed too early or leaked.
THEOREM Ownership == Spec => []OwnedOnce
<1>1. IInv => OwnedOnce
  <2> SUFFICES ASSUME IInv PROVE OwnedOnce
    OBVIOUS
  <2> DEFINE listed == {q[i] : i \in 1..Len(q)}
             fresh == IF Fresh THEN {newtask} ELSE {}
             holders == {w \in Workers : Held(w)}
             held == {task[w] : w \in holders}
  <2>1. listed \subseteq allocated
    BY DEF IInv, ListInv
  <2>2. fresh \subseteq allocated /\ held \subseteq allocated
    BY DEF IInv, OwnInv
  <2>3. allocated \subseteq listed \cup fresh \cup held
    BY DEF IInv, LeakInv
  <2>4. listed \cap fresh = {} /\ listed \cap held = {} /\ fresh \cap held = {}
    BY DEF IInv, OwnInv
  <2>5. \A v, w \in holders : task[v] = task[w] => v = w
    BY DEF IInv, OwnInv
  <2>6. \A i, j \in 1..Len(q) : q[i] = q[j] => i = j
    BY DEF IInv, ListInv
  <2>7. allocated = listed \cup fresh \cup held
    BY <2>1, <2>2, <2>3
  <2> QED BY <2>4, <2>5, <2>6, <2>7, Zenon DEF OwnedOnce, Fresh, Held
<1> QED BY <1>1, Invariance, PTL

\* dequeue hands out the connections in the order in which listen_thread
\* accepted them, each once.
THEOREM Order == Spec => []ServedInOrder
<1>1. IInv => ServedInOrder
  BY DEF IInv, OrderInv, ServedInOrder
<1> QED BY <1>1, Invariance, PTL

\* queue_count returns the length of the list.
THEOREM Count == Spec => []CountExact
<1>1. IInv => CountExact
  BY DEF IInv, CountInv, CountExact
<1> QED BY <1>1, Invariance, PTL

-----------------------------------------------------------------------------
(* The refinement.                                                         *)

INSTANCE SequenceTheorems

\* Reading the descriptors of a list of nodes yields a sequence as long as the
\* list (used for Pending, the abstract contents of the queue).
LEMMA ImageIsSeq ==
  ASSUME NEW S, NEW s \in Seq(S), NEW f \in [S -> Nat]
  PROVE  /\ [i \in 1..Len(s) |-> f[s[i]]] \in Seq(Nat)
         /\ Len([i \in 1..Len(s) |-> f[s[i]]]) = Len(s)
         /\ \A j \in 1..Len(s) : [i \in 1..Len(s) |-> f[s[i]]][j] = f[s[j]]
<1>1. Len(s) \in Nat /\ \A i \in 1..Len(s) : f[s[i]] \in Nat
  BY SMTT(20)
<1> QED BY <1>1

\* Appending a node to the list appends its descriptor to the abstract
\* contents (enqueue).
LEMMA ImageOfAppend ==
  ASSUME NEW S, NEW s \in Seq(S), NEW x \in S, NEW f \in [S -> Nat]
  PROVE  [i \in 1..Len(Append(s, x)) |-> f[Append(s, x)[i]]]
           = Append([i \in 1..Len(s) |-> f[s[i]]], f[x])
<1> DEFINE t == Append(s, x)
           ms == [i \in 1..Len(s) |-> f[s[i]]]
           mt == [i \in 1..Len(t) |-> f[t[i]]]
<1>1. /\ t \in Seq(S) /\ Len(t) = Len(s) + 1 /\ Len(s) \in Nat
      /\ \A i \in 1..Len(s) : t[i] = s[i]
      /\ t[Len(s) + 1] = x
  OBVIOUS
<1>2. ms \in Seq(Nat) /\ Len(ms) = Len(s) /\ \A j \in 1..Len(s) : ms[j] = f[s[j]]
  BY ImageIsSeq, SMTT(20)
<1>3. mt \in Seq(Nat) /\ Len(mt) = Len(t) /\ \A j \in 1..Len(t) : mt[j] = f[t[j]]
  BY <1>1, ImageIsSeq, SMTT(20)
<1> HIDE DEF t, ms, mt
<1>4. /\ Append(ms, f[x]) \in Seq(Nat) /\ Len(Append(ms, f[x])) = Len(s) + 1
      /\ \A j \in 1..Len(s) : Append(ms, f[x])[j] = f[s[j]]
      /\ Append(ms, f[x])[Len(s) + 1] = f[x]
  BY <1>2, SMTT(20)
<1>5. \A j \in 1..Len(mt) : mt[j] = Append(ms, f[x])[j]
  <2> SUFFICES ASSUME NEW j \in 1..Len(mt)
               PROVE  mt[j] = Append(ms, f[x])[j]
    BY Zenon
  <2>1. j \in 1..Len(t) /\ (j \in 1..Len(s) \/ j = Len(s) + 1)
    BY <1>1, <1>3
  <2>2. mt[j] = f[t[j]]
    BY <1>3, <2>1
  <2>3. CASE j \in 1..Len(s)
    BY <2>2, <2>3, <1>1, <1>4, SMTT(20)
  <2>4. CASE j = Len(s) + 1
    BY <2>2, <2>4, <1>1, <1>4
  <2> QED BY <2>1, <2>3, <2>4, Zenon
<1>6. mt = Append(ms, f[x])
  BY <1>1, <1>3, <1>4, <1>5, SeqEqual, SMTT(20)
<1> QED BY <1>6 DEF t, ms, mt

\* Removing the first node from the list removes its descriptor from the
\* abstract contents (dequeue).
LEMMA ImageOfTail ==
  ASSUME NEW S, NEW s \in Seq(S), s # << >>, NEW f \in [S -> Nat]
  PROVE  /\ [i \in 1..Len(s) |-> f[s[i]]] # << >>
         /\ Head([i \in 1..Len(s) |-> f[s[i]]]) = f[Head(s)]
         /\ [i \in 1..Len(Tail(s)) |-> f[Tail(s)[i]]]
              = Tail([i \in 1..Len(s) |-> f[s[i]]])
<1> DEFINE t == Tail(s)
           ms == [i \in 1..Len(s) |-> f[s[i]]]
           mt == [i \in 1..Len(t) |-> f[t[i]]]
<1>1. /\ t \in Seq(S) /\ Len(t) = Len(s) - 1 /\ Len(s) \in Nat \ {0}
      /\ \A i \in 1..Len(t) : t[i] = s[i + 1]
      /\ Head(s) = s[1]
  OBVIOUS
<1>2. ms \in Seq(Nat) /\ Len(ms) = Len(s) /\ \A j \in 1..Len(s) : ms[j] = f[s[j]]
  BY ImageIsSeq, SMTT(20)
<1>3. mt \in Seq(Nat) /\ Len(mt) = Len(t) /\ \A j \in 1..Len(t) : mt[j] = f[t[j]]
  BY <1>1, ImageIsSeq, SMTT(20)
<1> HIDE DEF t, ms, mt
<1>4. ms # << >> /\ Head(ms) = f[Head(s)]
  BY <1>1, <1>2, SMTT(20)
<1>5. /\ Tail(ms) \in Seq(Nat) /\ Len(Tail(ms)) = Len(s) - 1
      /\ \A j \in 1..Len(t) : Tail(ms)[j] = f[s[j + 1]]
  BY <1>1, <1>2, <1>4, HeadTailProperties, SMTT(20)
<1>6. \A j \in 1..Len(mt) : mt[j] = Tail(ms)[j]
  BY <1>1, <1>3, <1>5, Zenon
<1>7. Len(mt) = Len(Tail(ms))
  BY <1>1, <1>3, <1>5
<1>8. mt \in Seq(Nat) /\ Tail(ms) \in Seq(Nat)
  BY <1>3, <1>5
<1>9. mt = Tail(ms)
  BY <1>6, <1>7, <1>8, SeqEqual, Zenon
<1> QED BY <1>4, <1>9, SMTT(20) DEF t, ms, mt

\* The assignment by which enqueue links the task is the abstract Put.
LEMMA EnqLinkPuts ==
  ASSUME IInv, EnqLink
  PROVE  Fifo!Put
<1> USE DEF IInv
<1>1. /\ q' = Append(q, newtask) /\ q \in Seq(Nodes) /\ newtask \in Nodes
      /\ UNCHANGED <<fd, accepted, served>> /\ fd \in [Nodes -> Nat]
      /\ accepted \in 0..MaxConns /\ MaxConns \in Nat
  BY BoundAssumption
     DEF EnqLink, Goto, TypeOK, OwnInv, Fresh, heapVars
<1>2. Fresh /\ ~Fresh'
  BY DEF EnqLink, Goto, Fresh, TypeOK, Threads
<1>3. Enqueued = accepted - 1 /\ Enqueued' = accepted
  BY <1>1, <1>2 DEF Enqueued, Fresh
<1>4. fd[newtask] = accepted /\ accepted \in Nat \ {0}
  <2>1. Len(q) \in Nat /\ Len(served) \in Nat
    BY <1>1, SMTT(20) DEF TypeOK
  <2>2. accepted = Len(served) + Len(q) + 1 /\ fd[newtask] = accepted
    BY <1>2 DEF OrderInv
  <2> QED BY <2>1, <2>2
<1>5. Enqueued < MaxConns /\ Enqueued' = Enqueued + 1
  BY <1>1, <1>3, <1>4
<1>6. Pending' = Append(Pending, fd[newtask])
  BY <1>1, ImageOfAppend, SMTT(20) DEF Pending
<1> QED BY <1>1, <1>3, <1>4, <1>5, <1>6 DEF Fifo!Put

\* The assignment by which dequeue advances q->head is the abstract Get.
LEMMA DeqTakeGets ==
  ASSUME IInv, NEW w \in Workers, DeqTake(w)
  PROVE  Fifo!Get
<1> USE DEF IInv
<1>1. /\ q \in Seq(Nodes) /\ q # << >> /\ q' = Tail(q) /\ fd \in [Nodes -> Nat]
      /\ head = q[1] /\ served' = Append(served, fd[head])
      /\ UNCHANGED <<fd, accepted>>
  BY DEF DeqTake, Goto, TypeOK, TakeInv, ListInv, heapVars
<1>2. UNCHANGED Enqueued
  BY ThreadsAssumption DEF DeqTake, Goto, Enqueued, heapVars, TypeOK, Threads
<1>3. Pending # << >> /\ Head(Pending) = fd[Head(q)] /\ Pending' = Tail(Pending)
  <2>1. Pending' = [i \in 1..Len(Tail(q)) |-> fd[Tail(q)[i]]]
    BY <1>1 DEF Pending
  <2>2. /\ [i \in 1..Len(q) |-> fd[q[i]]] # << >>
        /\ Head([i \in 1..Len(q) |-> fd[q[i]]]) = fd[Head(q)]
        /\ [i \in 1..Len(Tail(q)) |-> fd[Tail(q)[i]]]
             = Tail([i \in 1..Len(q) |-> fd[q[i]]])
    BY <1>1, ImageOfTail, SMTT(20)
  <2> QED BY <2>1, <2>2, Zenon DEF Pending
<1> QED BY <1>1, <1>2, <1>3 DEF Fifo!Get

\* No other statement changes the abstract queue: filling in a task does not
\* change the descriptors in the list, nor does freeing one.
LEMMA OthersStutter ==
  ASSUME IInv, [Next]_vars, ~EnqLink, \A w \in Workers : ~DeqTake(w)
  PROVE  UNCHANGED <<Enqueued, Pending, served>>
<1> USE ThreadsAssumption DEF IInv
<1>1. CASE AcceptConn
  <2>1. UNCHANGED <<Enqueued, served>>
    <3>1. pc[Listener] = "accept" /\ pc'[Listener] = "enq_lock"
      BY <1>1 DEF AcceptConn, Goto, TypeOK, Threads
    <3>2. accepted' - 1 = accepted /\ served' = served
      BY <1>1, BoundAssumption, SMTT(20) DEF AcceptConn, TypeOK
    <3> QED BY <3>1, <3>2 DEF Enqueued
  <2>2. PICK a \in Nodes \ allocated : fd' = [fd EXCEPT ![a] = accepted + 1]
    BY <1>1, Zenon DEF AcceptConn
  <2>3. \A i \in 1..Len(q) : fd'[q[i]] = fd[q[i]]
    <3>1. fd \in [Nodes -> Nat] /\ \A i \in 1..Len(q) : q[i] \in Nodes /\ q[i] # a
      BY DEF TypeOK, ListInv
    <3> QED BY <2>2, <3>1
  <2>4. q' = q
    BY <1>1 DEF AcceptConn
  <2> QED BY <2>1, <2>3, <2>4 DEF Pending
<1>2. ASSUME UNCHANGED <<q, fd, accepted, served>>, Fresh' <=> Fresh
      PROVE  UNCHANGED <<Enqueued, Pending, served>>
  BY <1>2 DEF Enqueued, Pending, Fresh
<1>3. CASE EnqLock
  BY <1>2, <1>3 DEF EnqLock, Acquire, Goto, listVars, heapVars, Fresh, TypeOK,
                    Threads
<1>4. CASE EnqTail
  BY <1>2, <1>4 DEF EnqTail, Goto, heapVars, Fresh, TypeOK, Threads
<1>5. CASE EnqSignal
  <2>1. UNCHANGED <<q, fd, accepted, served>>
    BY <1>5 DEF EnqSignal, listVars, heapVars
  <2>2. Fresh' <=> Fresh
    BY <1>5 DEF EnqSignal, Goto, Waiting, Fresh, TypeOK, Threads
  <2> QED BY <1>2, <2>1, <2>2
<1>6. CASE EnqUnlock
  BY <1>2, <1>6 DEF EnqUnlock, Release, Goto, listVars, heapVars, Fresh,
                    TypeOK, Threads
<1>7. CASE CountLock
  BY <1>2, <1>7 DEF CountLock, Acquire, Goto, listVars, heapVars, Fresh,
                    TypeOK, Threads
<1>8. CASE CountWalk
  BY <1>2, <1>8 DEF CountWalk, listVars, heapVars, Fresh, TypeOK, Threads
<1>9. CASE CountUnlock
  BY <1>2, <1>9 DEF CountUnlock, Release, Goto, listVars, heapVars, Fresh,
                    TypeOK, Threads
<1>10. ASSUME NEW w \in Workers, WorkerStep(w) \/ SpuriousWakeup(w)
      PROVE  UNCHANGED <<Enqueued, Pending, served>>
  <2>1. CASE DeqLock(w)
    BY <1>2, <2>1 DEF DeqLock, Acquire, Goto, listVars, heapVars, Fresh,
                      TypeOK, Threads
  <2>2. CASE DeqTest(w)
    BY <1>2, <2>2 DEF DeqTest, Goto, Release, listVars, heapVars, Fresh,
                      TypeOK, Threads
  <2>3. CASE DeqUnlock(w)
    BY <1>2, <2>3 DEF DeqUnlock, Release, Goto, listVars, heapVars, Fresh,
                      TypeOK, Threads
  <2>4. CASE Dispatch(w)
    BY <1>2, <2>4 DEF Dispatch, Goto, listVars, heapVars, Fresh, TypeOK,
                      Threads
  <2>5. CASE FreeTask(w)
    BY <1>2, <2>5 DEF FreeTask, Goto, Fresh, TypeOK, Threads
  <2>6. CASE SpuriousWakeup(w)
    BY <1>2, <2>6 DEF SpuriousWakeup, Goto, listVars, heapVars, Fresh, TypeOK,
                      Threads
  <2> QED BY <1>10, <2>1, <2>2, <2>3, <2>4, <2>5, <2>6 DEF WorkerStep
<1>11. CASE UNCHANGED vars
  BY <1>2, <1>11 DEF vars, Fresh
<1> QED BY <1>1, <1>3, <1>4, <1>5, <1>6, <1>7, <1>8, <1>9, <1>10, <1>11
   DEF Next, ListenerStep, AdminStep

\* The monitor of queue.c implements the FIFO queue that queue.h promises.
THEOREM Refinement == Spec => RefinesFifo
<1>1. Init => Fifo!FifoInit
  BY ThreadsAssumption, SMTT(20) DEF Init, Fifo!FifoInit, Enqueued, Pending, Threads
<1>2. IInv /\ [Next]_vars => [Fifo!FifoNext]_(Fifo!fifoVars)
  <2> SUFFICES ASSUME IInv, [Next]_vars
               PROVE  [Fifo!FifoNext]_(Fifo!fifoVars)
    OBVIOUS
  <2>1. CASE EnqLink
    BY <2>1, EnqLinkPuts DEF Fifo!FifoNext
  <2>2. CASE \E w \in Workers : DeqTake(w)
    BY <2>2, DeqTakeGets DEF Fifo!FifoNext
  <2>3. CASE ~EnqLink /\ \A w \in Workers : ~DeqTake(w)
    BY <2>3, OthersStutter DEF Fifo!fifoVars
  <2> QED BY <2>1, <2>2, <2>3
<1> QED BY <1>1, <1>2, Invariance, PTL DEF Spec, RefinesFifo, Fifo!FifoSafety
-----------------------------------------------------------------------------
INSTANCE FiniteSetTheorems

(* No wakeup is lost.                                                      *)

\* enqueue has linked a task and not signalled yet.
Due == pc[Listener] \in {"enq_tail", "enq_signal"}

\* The workers on their way can be counted.
LEMMA RousedFinite == IsFiniteSet(Roused) /\ Cardinality(Roused) \in Nat
<1>1. Roused \subseteq Workers
  BY DEF Roused
<1> QED BY <1>1, BoundAssumption, FS_Subset, FS_CardinalityType

\* A step that leaves the list and the due signal alone, puts nobody to sleep and
\* sends no roused worker away keeps the balance of tasks and workers.
LEMMA RestKeepsWakeups ==
  ASSUME NoLostWakeup, q' = q, Due' <=> Due, Len(q) \in Nat,
         Waiting' \subseteq Waiting, Roused \subseteq Roused'
  PROVE  NoLostWakeup'
<1>1. IsFiniteSet(Roused') /\ Cardinality(Roused') \in Nat
  <2>1. Roused' \subseteq Workers
    BY DEF Roused
  <2> QED BY <2>1, BoundAssumption, FS_Subset, FS_CardinalityType
<1>2. Cardinality(Roused) <= Cardinality(Roused') /\ Cardinality(Roused) \in Nat
  BY <1>1, RousedFinite, FS_Subset
<1> QED BY <1>1, <1>2 DEF NoLostWakeup, Due

\* enqueue owes a wakeup for the task it links and pays it with its signal; dequeue
\* takes the task away with the worker; a worker goes to sleep only on an empty
\* list.
LEMMA NextKeepsWakeups ==
  ASSUME IInv, NoLostWakeup, [Next]_vars
  PROVE  NoLostWakeup'
<1> USE ThreadsAssumption DEF IInv
<1>q. q \in Seq(Nodes) /\ Len(q) \in Nat
  BY SMTT(20) DEF TypeOK
<1>pc. pc \in [Threads -> Labels] /\ Workers \subseteq Threads /\ Listener \in Threads
       /\ Admin \in Threads
  BY DEF TypeOK, Threads
<1>f. /\ IsFiniteSet(Roused) /\ Cardinality(Roused) \in Nat
      /\ IsFiniteSet(Roused') /\ Cardinality(Roused') \in Nat
  <2>1. Roused' \subseteq Workers
    BY DEF Roused
  <2> QED BY <2>1, RousedFinite, BoundAssumption, FS_Subset, FS_CardinalityType
<1>1. CASE EnqLink
  <2>1. Len(q') = Len(q) + 1 /\ ~Due /\ Due' /\ Waiting' = Waiting /\ Roused' = Roused
    <3>1. newtask \in Nodes
      BY <1>1 DEF EnqLink, Goto, OwnInv, Fresh, TypeOK
    <3>2. q' = Append(q, newtask)
      BY <1>1 DEF EnqLink
    <3>3. pc[Listener] = "enq_link" /\ pc' = [pc EXCEPT ![Listener] = "enq_tail"]
      BY <1>1 DEF EnqLink, Goto
    <3> QED BY <1>q, <1>pc, <3>1, <3>2, <3>3 DEF Due, Waiting, Roused
  <2> QED BY <2>1, <1>q, <1>f DEF NoLostWakeup, Due
<1>2. CASE EnqSignal
  <2>0. q' = q /\ pc[Listener] = "enq_signal"
    BY <1>2 DEF EnqSignal, listVars
  <2>1. CASE Waiting = {} /\ pc' = [pc EXCEPT ![Listener] = "enq_unlock"]
    BY <2>1, <1>pc DEF Waiting, NoLostWakeup
  <2>2. ASSUME NEW w \in Waiting,
               pc' = [pc EXCEPT ![Listener] = "enq_unlock", ![w] = "deq_relock"]
        PROVE  NoLostWakeup'
    <3>1. w \in Workers /\ pc[w] = "waiting" /\ w # Listener
      BY DEF Waiting
    <3>2. pc'[Listener] = "enq_unlock" /\ pc'[w] = "deq_relock"
      BY <2>2, <3>1, <1>pc
    <3>3. \A v \in Workers : v # w => pc'[v] = pc[v]
      BY <2>2, <3>1, <1>pc
    <3>4. w \notin Roused /\ Roused' = Roused \cup {w}
      BY <3>1, <3>2, <3>3 DEF Roused
    <3>5. Cardinality(Roused') = Cardinality(Roused) + 1
      BY <3>4, <1>f, FS_AddElement
    <3> QED BY <2>0, <3>1, <3>2, <3>5, <1>f, <1>q DEF NoLostWakeup
  <2> QED BY <1>2, <2>1, <2>2 DEF EnqSignal
<1>3. ASSUME NEW w \in Workers, DeqTake(w)
      PROVE  NoLostWakeup'
  <2>1. q # << >> /\ q' = Tail(q) /\ pc[w] = "deq_take"
        /\ pc' = [pc EXCEPT ![w] = "deq_unlock"]
    BY <1>3 DEF DeqTake, Goto, TakeInv
  <2>2. Len(q') = Len(q) - 1
    BY <2>1, <1>q
  <2>3. pc'[w] = "deq_unlock" /\ w # Listener
        /\ \A v \in Threads : v # w => pc'[v] = pc[v]
    BY <2>1, <1>pc
  <2>4. w \in Roused /\ Roused' = Roused \ {w} /\ Waiting' = Waiting /\ (Due' <=> Due)
    BY <2>1, <2>3, <1>pc DEF Roused, Waiting, Due
  <2>5. Cardinality(Roused') = Cardinality(Roused) - 1
    BY <2>4, <1>f, FS_RemoveElement
  <2> QED BY <2>2, <2>4, <2>5, <1>f, <1>q, SMTT(20) DEF NoLostWakeup, Due
<1>4. ASSUME NEW w \in Workers, DeqTest(w)
      PROVE  NoLostWakeup'
  <2>1. q' = q
    BY <1>4 DEF DeqTest, listVars
  <2>2. CASE head = NULL
    <3>1. q = << >>
      <4>1. q # << >> => q[1] \in Nodes
        BY <1>q
      <4> QED BY <2>2, <4>1, HeapAssumption DEF ListInv
    <3> QED BY <2>1, <3>1, <1>f DEF NoLostWakeup
  <2>3. CASE head # NULL
    <3>1. pc[w] = "deq_test" /\ pc' = [pc EXCEPT ![w] = "deq_take"]
      BY <1>4, <2>3 DEF DeqTest, Goto
    <3>2. (Due' <=> Due) /\ Waiting' \subseteq Waiting /\ Roused \subseteq Roused'
      BY <3>1, <1>pc DEF Due, Waiting, Roused
    <3> QED BY <2>1, <3>2, <1>q, RestKeepsWakeups
  <2> QED BY <2>2, <2>3
<1> DEFINE Quiet == /\ q' = q /\ (Due' <=> Due)
                    /\ Waiting' \subseteq Waiting /\ Roused \subseteq Roused'
<1>5. ASSUME Quiet PROVE NoLostWakeup'
  BY <1>5, <1>q, RestKeepsWakeups
<1>6. CASE AcceptConn
  BY <1>5, <1>6, <1>pc DEF AcceptConn, Goto, Due, Waiting, Roused
<1>7. CASE EnqLock
  BY <1>5, <1>7, <1>pc DEF EnqLock, Acquire, Goto, listVars, Due, Waiting, Roused
<1>8. CASE EnqTail
  BY <1>5, <1>8, <1>pc DEF EnqTail, Goto, Due, Waiting, Roused
<1>9. CASE EnqUnlock
  BY <1>5, <1>9, <1>pc DEF EnqUnlock, Release, Goto, listVars, Due, Waiting, Roused
<1>10. CASE CountLock
  BY <1>5, <1>10, <1>pc DEF CountLock, Acquire, Goto, listVars, Due, Waiting, Roused
<1>11. CASE CountWalk
  <2>1. q' = q
    BY <1>11 DEF CountWalk, listVars
  <2>2. CASE pc' = pc
    BY <2>1, <2>2, <1>q, RestKeepsWakeups DEF Due, Waiting, Roused
  <2>3. CASE pc[Admin] = "cnt_walk" /\ pc' = [pc EXCEPT ![Admin] = "cnt_unlock"]
    BY <1>5, <2>1, <2>3, <1>pc DEF Due, Waiting, Roused
  <2> QED BY <1>11, <2>2, <2>3 DEF CountWalk
<1>12. CASE CountUnlock
  BY <1>5, <1>12, <1>pc DEF CountUnlock, Release, Goto, listVars, Due, Waiting, Roused
<1>13. ASSUME NEW w \in Workers, WorkerStep(w) \/ SpuriousWakeup(w)
       PROVE  NoLostWakeup'
  <2>1. CASE DeqLock(w)
    BY <1>5, <2>1, <1>pc DEF DeqLock, Acquire, Goto, listVars, Due, Waiting, Roused
  <2>2. CASE DeqUnlock(w)
    BY <1>5, <2>2, <1>pc DEF DeqUnlock, Release, Goto, listVars, Due, Waiting, Roused
  <2>3. CASE Dispatch(w)
    BY <1>5, <2>3, <1>pc DEF Dispatch, Goto, listVars, Due, Waiting, Roused
  <2>4. CASE FreeTask(w)
    BY <1>5, <2>4, <1>pc DEF FreeTask, Goto, Due, Waiting, Roused
  <2>5. CASE SpuriousWakeup(w)
    BY <1>5, <2>5, <1>pc DEF SpuriousWakeup, Goto, listVars, Due, Waiting, Roused
  <2> QED BY <1>3, <1>4, <1>13, <2>1, <2>2, <2>3, <2>4, <2>5 DEF WorkerStep
<1>14. CASE UNCHANGED vars
  BY <1>14, <1>q, RestKeepsWakeups DEF vars, Due, Waiting, Roused
<1> QED BY <1>1, <1>2, <1>6, <1>7, <1>8, <1>9, <1>10, <1>11, <1>12, <1>13, <1>14
   DEF Next, ListenerStep, AdminStep

\* No task waits in the list while a worker sleeps that nobody will wake (enqueue,
\* dequeue): the signal of enqueue is not lost, whichever worker it finds.
THEOREM Wakeup == Spec => []NoLostWakeup
<1>1. Init => NoLostWakeup
  BY ThreadsAssumption DEF Init, NoLostWakeup, Waiting, Threads
<1>2. IInv /\ NoLostWakeup /\ [Next]_vars => NoLostWakeup'
  BY NextKeepsWakeups
<1> QED BY <1>1, <1>2, Invariance, PTL DEF Spec

\* The work queue is right at every step: see the five theorems above.
THEOREM QueueIsRight == Spec => []QueueRight
<1>1. TypeOK /\ OwnedOnce /\ ServedInOrder /\ CountExact /\ NoLostWakeup => QueueRight
  BY DEF QueueRight
<1> QED BY <1>1, TypeCorrect, Ownership, Order, Count, Wakeup, PTL

-----------------------------------------------------------------------------
(* The store.                                                              *)

SP == INSTANCE KvStoreProofs

\* kvstore.h: the assumptions of the argument about the store hold.
LEMMA StoreSane == SP!Grounds(Val)
  BY StoreAssumption, SP!Grounded DEF SP!Sane

\* Module KvStoreProofs and module MCLab3 speak of the same store: its calls,
LEMMA StoreSame ==
  /\ Store!Init <=> SP!Init
  /\ Store!Next <=> SP!Next
  /\ Store!SafeNext <=> SP!SafeNext
  BY DEF Store!Init, Store!TableInit, Store!Next, Store!SafeNext, Store!kv_read,
         Store!kv_delete, Store!kv_write, Store!Overwrite, Store!Insert, Store!TableFull,
         Store!Returns, Store!find_key, Store!key_len, Store!get_new_index, Store!First, Store!UsedSlots,
         Store!Slots, Store!FREE, Store!USED, Store!Unallocated, Store!calloc_val,
         Store!Free, Store!Cardinality,
         SP!Init, SP!TableInit, SP!Next, SP!SafeNext, SP!kv_read, SP!kv_delete,
         SP!kv_write, SP!Overwrite, SP!Insert, SP!TableFull, SP!Returns,
         SP!find_key, SP!key_len, SP!get_new_index, SP!First, SP!UsedSlots,
         SP!Slots, SP!FREE, SP!USED, SP!Unallocated, SP!calloc_val,
         SP!Free, SP!Cardinality

\* what a read finds,
LEMMA LookupSame ==
  \A k : Store!Lookup(k) = SP!Lookup(k) /\ Store!Lookup(k)' = SP!Lookup(k)'
  BY DEF Store!Lookup, Store!find_key, Store!First, Store!UsedSlots, Store!Slots, Store!USED,
         SP!Lookup, SP!find_key, SP!First, SP!UsedSlots, SP!Slots, SP!USED

\* and the shape of the table and the heap.
LEMMA InvSame ==
  /\ Store!TypeOK <=> SP!TypeOK
  /\ Store!HeapExact <=> SP!HeapExact
  BY DEF Store!TypeOK, Store!TableType, Store!HeapExact, Store!UsedSlots, Store!Slots, Store!FREE, Store!USED,
         Store!Unallocated,
         SP!TypeOK, SP!TableType, SP!HeapExact, SP!UsedSlots, SP!Slots, SP!FREE, SP!USED, SP!Unallocated

\* The abstract map is the same seen from the run and from the proofs about the store.
LEMMA MapSame ==
  /\ Store!Map!MapInit <=> SP!Map!MapInit
  /\ Store!Map!MapNext <=> SP!Map!MapNext
  BY DEF Store!Map!MapInit, Store!Map!MapNext, Store!Map!MapRead, Store!Map!MapWrite,
         Store!Map!MapDelete, Store!Map!Present, Store!Map!Cardinality, Store!Lookup,
         Store!find_key, Store!First, Store!UsedSlots, Store!Slots, Store!USED,
         SP!Map!MapInit, SP!Map!MapNext, SP!Map!MapRead, SP!Map!MapWrite,
         SP!Map!MapDelete, SP!Map!Present, SP!Map!Cardinality, SP!Lookup,
         SP!find_key, SP!First, SP!UsedSlots, SP!Slots, SP!USED

\* The inductive invariant of the store, in both of its parts.
StoreInv == SP!IInv /\ (part = "safe store" => SP!KeysDistinct)

\* A step of the three monitors is a step of the store or leaves it alone.
LEMMA StoreStep ==
  ASSUME [LabNext]_labVars
  PROVE  /\ [SP!Next]_(SP!vars)
         /\ part = "safe store" => [SP!SafeNext]_(SP!vars)
         /\ part' = part
<1>1. SP!SafeNext => SP!Next
  BY DEF SP!SafeNext, SP!Next
<1> QED BY <1>1, StoreSame DEF LabNext, labVars, storeVars, SP!vars

\* kvstore.c, kvstore.h: the store keeps its contract, for every table size and
\* every set of keys, values and buffers.
THEOREM StoreKeepsContract == LabSpec => StoreContract
<1>1. LabInit => StoreInv /\ Store!Map!MapInit
  BY StoreSame, StoreSane, MapSame, SP!InitHolds, SP!InitIsMap DEF LabInit, StoreInv
<1>2. StoreInv /\ [LabNext]_labVars => StoreInv'
  <2> SUFFICES ASSUME StoreInv, [LabNext]_labVars
               PROVE  StoreInv'
    OBVIOUS
  <2>1. SP!IInv'
    BY StoreStep, StoreSane, SP!NextKeeps DEF StoreInv
  <2>2. ASSUME part = "safe store"
        PROVE  SP!KeysDistinct'
    BY <2>2, StoreStep, StoreSane, SP!SafeKeepsDistinct DEF StoreInv
  <2> QED BY <2>1, <2>2, StoreStep DEF StoreInv
<1>3. StoreInv => Store!TypeOK /\ Store!HeapExact
  BY InvSame, StoreSane, SP!IInvHeapExact DEF StoreInv
<1>4. StoreInv /\ [LabNext]_labVars =>
        [\A k \in Key : k # res'.key => Store!Lookup(k)' = Store!Lookup(k)]_(Store!vars)
  BY StoreStep, StoreSane, LookupSame, SP!OthersUntouched
     DEF StoreInv, Store!vars, SP!vars
<1>5. StoreInv /\ [LabNext]_labVars =>
        [\A k \in Key :
           res'.op = "write" /\ res'.key = k /\ Store!Lookup(k) = Missing =>
             IF res'.ret = 0 THEN Store!Lookup(k)' = res'.val
                             ELSE /\ Store!UsedSlots = Store!Slots
                                  /\ UNCHANGED <<keys, values, heap>>]_(Store!vars)
  <2>1. Store!UsedSlots = SP!UsedSlots /\ Store!Slots = SP!Slots
    BY DEF Store!UsedSlots, Store!Slots, Store!USED, SP!UsedSlots, SP!Slots, SP!USED
  <2> QED BY <2>1, StoreStep, StoreSane, LookupSame, SP!FreshKeyReads
             DEF StoreInv, Store!vars, SP!vars
<1>6. StoreInv /\ [LabNext]_labVars =>
        [part = "safe store" => Store!Map!MapNext]_storeVars
  BY StoreStep, StoreSane, MapSame, SP!SafeIsMap DEF StoreInv, storeVars, SP!vars
<1>7. LabSpec => LabInit /\ [][LabNext]_labVars
  BY PTL DEF LabSpec, labVars
<1> QED BY <1>1, <1>2, <1>3, <1>4, <1>5, <1>6, <1>7, PTL
           DEF StoreContract, Store!OtherKeysUntouched, Store!FreshKeyReadable
=============================================================================
