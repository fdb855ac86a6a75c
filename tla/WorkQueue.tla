------------------------------ MODULE WorkQueue ------------------------------
(***************************************************************************)
(* The work queue of the dbserver (lab 3, queue.c): a linked list of       *)
(* malloc'ed tasks behind one mutex and one condition variable.  The       *)
(* listener thread enqueues (dbserver.c, listen_thread), the worker        *)
(* threads dequeue, dispatch and free (worker.c, worker), and the control  *)
(* thread counts (the "stats" command of dbserver.c, main).                *)
(*                                                                         *)
(* Every statement that touches the list is a step of its own, so that     *)
(* what the mutex protects can be seen to be protected.  A freed node may  *)
(* be handed out again by malloc, and free may scribble on its contents.   *)
(***************************************************************************)
EXTENDS Naturals, Sequences, FiniteSets

CONSTANTS
  Workers,              \* the worker threads
  Listener, Admin,      \* the listener thread and the control thread
  Nodes,                \* heap addresses at which a task_t can live
  NULL,
  MaxConns              \* bound on the number of connections ever accepted

ASSUME ThreadsAssumption ==
  /\ Listener \notin Workers
  /\ Admin \notin Workers
  /\ Listener # Admin
  /\ NULL \notin Workers \cup {Listener, Admin}

ASSUME HeapAssumption == NULL \notin Nodes

ASSUME BoundAssumption == MaxConns \in Nat /\ IsFiniteSet(Workers)

Threads == Workers \cup {Listener, Admin}
Pointers == Nodes \cup {NULL}

VARIABLES
  mutex,                \* the thread that owns `queue', or NULL
  pc,                   \* the statement each thread executes next
  head, tail,           \* queue_t
  next, fd,             \* task_t, per address
  allocated,            \* the addresses malloc has handed out
  newtask,              \* the listener's local variable
  task,                 \* what dequeue returned to each worker
  cur, count,           \* the locals of queue_count
  accepted,             \* connections accepted so far
  q,                    \* history: the nodes in the list, in order
  served                \* history: the connections dequeued, in order

vars == <<mutex, pc, head, tail, next, fd, allocated, newtask, task, cur,
          count, accepted, q, served>>

Init ==
  /\ mutex = NULL
  /\ pc = [t \in Threads |-> IF t \in Workers THEN "deq_lock"
                             ELSE IF t = Listener THEN "accept" ELSE "cmd"]
  /\ head = NULL
  /\ tail = NULL
  /\ next = [n \in Nodes |-> NULL]
  /\ fd = [n \in Nodes |-> 0]
  /\ allocated = {}
  /\ newtask = NULL
  /\ task = [w \in Workers |-> NULL]
  /\ cur = NULL
  /\ count = 0
  /\ accepted = 0
  /\ q = << >>
  /\ served = << >>

-----------------------------------------------------------------------------
(* Program counters and the mutex.                                         *)

Goto(t, from, to) ==
  /\ pc[t] = from
  /\ pc' = [pc EXCEPT ![t] = to]

\* pthread_mutex_lock(&queue)
Acquire(t, from, to) ==
  /\ Goto(t, from, to)
  /\ mutex = NULL
  /\ mutex' = t

\* pthread_mutex_unlock(&queue)
Release(t, from, to) ==
  /\ Goto(t, from, to)
  /\ mutex' = NULL

listVars == <<head, tail, next, fd, q>>
heapVars == <<allocated, newtask, accepted>>
countVars == <<cur, count>>

-----------------------------------------------------------------------------
(* listen_thread and enqueue.                                              *)

\* accept a connection and put it in a fresh task
AcceptConn ==
  /\ accepted < MaxConns
  /\ Goto(Listener, "accept", "enq_lock")
  /\ \E n \in Nodes \ allocated :
       /\ allocated' = allocated \cup {n}
       /\ newtask' = n
       /\ next' = [next EXCEPT ![n] = NULL]
       /\ fd' = [fd EXCEPT ![n] = accepted + 1]
  /\ accepted' = accepted + 1
  /\ UNCHANGED <<mutex, head, tail, task, q, served, countVars>>

EnqLock ==
  /\ Acquire(Listener, "enq_lock", "enq_link")
  /\ UNCHANGED <<listVars, heapVars, task, served, countVars>>

\* mutant: the new task is pushed at the head of the list
EnqLinkAtHead ==
  /\ Goto(Listener, "enq_link", "enq_tail")
  /\ head' = newtask
  /\ next' = [next EXCEPT ![newtask] = head]
  /\ q' = <<newtask>> \o q
  /\ UNCHANGED <<mutex, tail, fd, heapVars, task, served, countVars>>

\* q->head = t when the list is empty, q->tail->next = t otherwise
EnqLink ==
  /\ Goto(Listener, "enq_link", "enq_tail")
  /\ IF head = NULL
       THEN head' = newtask /\ UNCHANGED next
       ELSE next' = [next EXCEPT ![tail] = newtask] /\ UNCHANGED head
  /\ q' = Append(q, newtask)
  /\ UNCHANGED <<mutex, tail, fd, heapVars, task, served, countVars>>

EnqTail ==
  /\ Goto(Listener, "enq_tail", "enq_signal")
  /\ tail' = newtask
  /\ UNCHANGED <<mutex, head, next, fd, q, heapVars, task, served, countVars>>

Waiting == {w \in Workers : pc[w] = "waiting"}

\* mutant: enqueue does not signal
EnqSignalDropped ==
  /\ Goto(Listener, "enq_signal", "enq_unlock")
  /\ UNCHANGED <<mutex, listVars, heapVars, task, served, countVars>>

\* mutant: enqueue signals only when it finds the list empty
EnqSignalWhenEmpty ==
  /\ pc[Listener] = "enq_signal"
  /\ \/ /\ Waiting = {} \/ Len(q) > 1
        /\ pc' = [pc EXCEPT ![Listener] = "enq_unlock"]
     \/ \E w \in Waiting :
          /\ Len(q) = 1
          /\ pc' = [pc EXCEPT ![Listener] = "enq_unlock", ![w] = "deq_relock"]
  /\ UNCHANGED <<mutex, listVars, heapVars, task, served, countVars>>

\* pthread_cond_signal wakes one waiting worker, if there is one
EnqSignal ==
  /\ pc[Listener] = "enq_signal"
  /\ \/ /\ Waiting = {}
        /\ pc' = [pc EXCEPT ![Listener] = "enq_unlock"]
     \/ \E w \in Waiting :
          pc' = [pc EXCEPT ![Listener] = "enq_unlock", ![w] = "deq_relock"]
  /\ UNCHANGED <<mutex, listVars, heapVars, task, served, countVars>>

EnqUnlock ==
  /\ Release(Listener, "enq_unlock", "accept")
  /\ UNCHANGED <<listVars, heapVars, task, served, countVars>>

-----------------------------------------------------------------------------
(* worker and dequeue.                                                     *)

\* mutant: if instead of while around pthread_cond_wait
DeqLockIf(w) ==
  /\ \/ Acquire(w, "deq_lock", "deq_test")
     \/ Acquire(w, "deq_relock", "deq_take")
  /\ UNCHANGED <<listVars, heapVars, task, served, countVars>>

DeqLock(w) ==
  /\ \/ Acquire(w, "deq_lock", "deq_test")
     \/ Acquire(w, "deq_relock", "deq_test")   \* returning from cond_wait
  /\ UNCHANGED <<listVars, heapVars, task, served, countVars>>

\* while (q->head == NULL) pthread_cond_wait: give up the mutex and wait
DeqTest(w) ==
  /\ IF head = NULL THEN Release(w, "deq_test", "waiting")
                    ELSE Goto(w, "deq_test", "deq_take") /\ UNCHANGED mutex
  /\ UNCHANGED <<listVars, heapVars, task, served, countVars>>

\* pthread_cond_wait may return without a signal
SpuriousWakeup(w) ==
  /\ Goto(w, "waiting", "deq_relock")
  /\ UNCHANGED <<mutex, listVars, heapVars, task, served, countVars>>

\* task = q->head; q->head = q->head->next;  q->tail is left as it is
DeqTake(w) ==
  /\ Goto(w, "deq_take", "deq_unlock")
  /\ task' = [task EXCEPT ![w] = head]
  /\ head' = next[head]
  /\ served' = Append(served, fd[head])
  /\ q' = Tail(q)
  /\ UNCHANGED <<mutex, tail, next, fd, heapVars, countVars>>

DeqUnlock(w) ==
  /\ Release(w, "deq_unlock", "dispatch")
  /\ UNCHANGED <<listVars, heapVars, task, served, countVars>>

\* dispatch(w->fd, kv) is abstract here: module DbServer opens it up
Dispatch(w) ==
  /\ Goto(w, "dispatch", "free")
  /\ UNCHANGED <<mutex, listVars, heapVars, task, served, countVars>>

\* free(w): the allocator may overwrite the node's first word
FreeTask(w) ==
  /\ Goto(w, "free", "deq_lock")
  /\ allocated' = allocated \ {task[w]}
  /\ \E p \in Pointers : next' = [next EXCEPT ![task[w]] = p]
  /\ task' = [task EXCEPT ![w] = NULL]
  /\ UNCHANGED <<mutex, head, tail, fd, newtask, accepted, q, served, countVars>>

-----------------------------------------------------------------------------
(* queue_count, called by the control thread.                              *)

CountLock ==
  /\ Acquire(Admin, "cmd", "cnt_walk")
  /\ count' = 0
  /\ cur' = head
  /\ UNCHANGED <<listVars, heapVars, task, served>>

CountWalk ==
  /\ pc[Admin] = "cnt_walk"
  /\ \/ /\ cur # NULL
        /\ cur' = next[cur]
        /\ count' = count + 1
        /\ UNCHANGED pc
     \/ /\ cur = NULL
        /\ pc' = [pc EXCEPT ![Admin] = "cnt_unlock"]
        /\ UNCHANGED countVars
  /\ UNCHANGED <<mutex, listVars, heapVars, task, served>>

CountUnlock ==
  /\ Release(Admin, "cnt_unlock", "cmd")
  /\ UNCHANGED <<listVars, heapVars, task, served, countVars>>

-----------------------------------------------------------------------------
ListenerStep == AcceptConn \/ EnqLock \/ EnqLink \/ EnqTail \/ EnqSignal \/ EnqUnlock

WorkerStep(w) == \/ DeqLock(w) \/ DeqTest(w) \/ DeqTake(w) \/ DeqUnlock(w)
                 \/ Dispatch(w) \/ FreeTask(w)

AdminStep == CountLock \/ CountWalk \/ CountUnlock

Next ==
  \/ ListenerStep
  \/ AdminStep
  \/ \E w \in Workers : WorkerStep(w) \/ SpuriousWakeup(w)

Spec == Init /\ [][Next]_vars

\* Threads that can run do run.  No client has to connect, and the control
\* thread finishes a count it has begun but need not begin one.  A pthread mutex is not fair between
\* the threads that want it; the strong fairness only says that a control
\* thread, which waits for the next line of its user between two counts,
\* cannot keep the mutex from the others by counting again and again.
Fairness ==
  /\ SF_vars(EnqLock)
  /\ WF_vars(EnqLink \/ EnqTail \/ EnqSignal \/ EnqUnlock)
  /\ WF_vars(CountWalk \/ CountUnlock)
  /\ \A w \in Workers : WF_vars(WorkerStep(w))
  /\ SF_vars(\E w \in Workers : DeqLock(w))

FairSpec == Spec /\ Fairness

-----------------------------------------------------------------------------
(* Properties.                                                             *)

WorkerLabels == {"deq_lock", "deq_test", "waiting", "deq_relock", "deq_take",
                 "deq_unlock", "dispatch", "free"}
ListenerLabels == {"accept", "enq_lock", "enq_link", "enq_tail", "enq_signal",
                   "enq_unlock"}
AdminLabels == {"cmd", "cnt_walk", "cnt_unlock"}
Labels == WorkerLabels \cup ListenerLabels \cup AdminLabels
Critical == {"deq_test", "deq_take", "deq_unlock", "enq_link", "enq_tail",
             "enq_signal", "enq_unlock", "cnt_walk", "cnt_unlock"}

\* The variables have their types and no thread runs another thread's code.
TypeOK ==
  /\ mutex \in Threads \cup {NULL}
  /\ pc \in [Threads -> Labels]
  /\ \A w \in Workers : pc[w] \in WorkerLabels
  /\ pc[Listener] \in ListenerLabels
  /\ pc[Admin] \in AdminLabels
  /\ head \in Pointers /\ tail \in Pointers
  /\ next \in [Nodes -> Pointers]
  /\ fd \in [Nodes -> Nat]
  /\ allocated \in SUBSET Nodes
  /\ newtask \in Pointers
  /\ task \in [Workers -> Pointers]
  /\ cur \in Pointers /\ count \in Nat
  /\ accepted \in 0..MaxConns
  /\ q \in Seq(Nodes)
  /\ served \in Seq(Nat)

\* The nodes a thread is about to read or write through a pointer: tail in
\* enqueue, head in dequeue, the task of a worker, the cursor of queue_count.
Dereferenced ==
  (IF pc[Listener] = "enq_link" /\ head # NULL THEN {tail} ELSE {})
  \cup {head : w \in {v \in Workers : pc[v] = "deq_take"}}
  \cup {task[w] : w \in {v \in Workers : pc[v] \in {"dispatch", "free"}}}
  \cup (IF pc[Admin] = "cnt_walk" /\ cur # NULL THEN {cur} ELSE {})

\* queue.c never follows a NULL or dangling pointer, although dequeue leaves
\* q->tail pointing to a task that its worker frees and malloc hands out again.
MemorySafe == Dereferenced \subseteq allocated

\* A task belongs to the list, to the listener or to exactly one worker: no
\* task is handed to two workers, freed while it is queued, or leaked.
OwnedOnce ==
  LET listed == {q[i] : i \in 1..Len(q)}
      fresh == IF pc[Listener] \in {"enq_lock", "enq_link"} THEN {newtask} ELSE {}
      holders == {w \in Workers : pc[w] \in {"deq_unlock", "dispatch", "free"}}
      held == {task[w] : w \in holders}
  IN /\ allocated = listed \cup fresh \cup held
     /\ listed \cap fresh = {} /\ listed \cap held = {} /\ fresh \cap held = {}
     /\ \A v, w \in holders : task[v] = task[w] => v = w
     /\ \A i, j \in 1..Len(q) : q[i] = q[j] => i = j

\* Workers receive the connections in the order the listener accepted them,
\* each connection once.
ServedInOrder == \A i \in 1..Len(served) : served[i] = i

\* queue_count returns the number of tasks in the list when it unlocks.
CountExact == pc[Admin] = "cnt_unlock" => count = Len(q)

\* Workers that have been woken, or have the mutex and will look at the list.
Roused == {w \in Workers : pc[w] \in {"deq_relock", "deq_test", "deq_take"}}

\* No wakeup is lost: while a worker sleeps on queue_non_empty, there is a
\* worker on its way for every queued task (one signal may still be due).
NoLostWakeup ==
  Waiting # {} =>
    Len(q) <= Cardinality(Roused)
              + (IF pc[Listener] \in {"enq_tail", "enq_signal"} THEN 1 ELSE 0)

\* queue.c: every task has one owner, connections are served in their order, a
\* count is the length of the list, and no task waits while every worker sleeps.
QueueRight == TypeOK /\ OwnedOnce /\ ServedInOrder /\ CountExact /\ NoLostWakeup

\* The monitor implements the queue that queue.h promises.
Enqueued == IF pc[Listener] \in {"enq_lock", "enq_link"} THEN accepted - 1
                                                       ELSE accepted
Pending == [i \in 1..Len(q) |-> fd[q[i]]]
Fifo == INSTANCE FifoQueue WITH
          arrived   <- Enqueued,
          pending   <- Pending,
          delivered <- served

\* Seen through the list, every step of the monitor is a step of FifoQueue.
RefinesFifo == Fifo!FifoSafety

\* Under the fairness above it also delivers everything it accepts.
RefinesFairFifo == Fifo!FifoSpec

\* Every accepted connection is eventually handed to a worker.
AllServed == \A c \in 1..MaxConns : (accepted >= c) ~> (Len(served) >= c)
=============================================================================
