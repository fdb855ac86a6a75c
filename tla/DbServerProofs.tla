--------------------------- MODULE DbServerProofs ---------------------------
(***************************************************************************)
(* Proofs about the dbserver and its clients (lab 3), for any number of    *)
(* clients, workers, keys, buffers and byte strings: why the process ends, *)
(* what the counters count, the table, and the theorems.  The rest of the  *)
(* argument is in modules DbStepProofs and DbStoreProofs.                  *)
(***************************************************************************)
EXTENDS DbStoreProofs, KvTableProofs

\* A leaf that names no prover is tried with Zenon, then with SMT.
USE ZenonT(15), SMTT(20)

-----------------------------------------------------------------------------
(* Why the process ends.                                                   *)

\* A set with two members has more than one.
LEMMA TwoMembers ==
  ASSUME Counting, NEW S, IsFiniteSet(S), NEW a \in S, NEW b \in S, a # b
  PROVE  Cardinality(S) > 1
<1>1. Cardinality(S) \in Nat /\ Cardinality(S \ {a}) \in Nat /\ Cardinality(S \ {a, b}) \in Nat
      /\ IsFiniteSet(S \ {a})
  BY DEF Counting, SizeLaw, RemoveLaw, SubsetLaw
<1>2. Cardinality(S \ {a}) = Cardinality(S) - 1
  BY DEF Counting, RemoveLaw
<1>3. (S \ {a}) \ {b} = S \ {a, b} /\ b \in S \ {a}
  OBVIOUS
<1>4. Cardinality(S \ {a, b}) = Cardinality(S \ {a}) - 1
  BY Zenon, <1>1, <1>3 DEF Counting, RemoveLaw
<1> QED BY <1>1, <1>2, <1>4

\* The threads in cleanup.
Quitters == {t \in Threads : pc[t] \in {"c_close", "c_trace", "c_exit"}}

\* Threads do not leave cleanup, and there are finitely many.
LEMMA QuittersStay ==
  ASSUME Counting, TypeOK, [Next]_vars
  PROVE  Quitters \subseteq Quitters' /\ IsFiniteSet(Quitters) /\ IsFiniteSet(Quitters')
<1>1. IsFiniteSet(Threads)
  BY ThreadsAssumption DEF Threads, Counting, AddLaw
<1>2. Quitters \subseteq Threads /\ Quitters' \subseteq Threads
  BY DEF Quitters
<1>3. Quitters \subseteq Quitters'
  BY CleanupStays DEF Quitters
<1> QED BY <1>1, <1>2, <1>3 DEF Counting, SubsetLaw

\* A dead client stays dead.
LEMMA DeadStay ==
  ASSUME TypeOK, [Next]_vars, NEW c \in Clients, cpc[c] = "killed"
  PROVE  cpc'[c] = "killed" /\ rq' = rq
<1>1. ASSUME NEW d \in Clients, ClientStep(d) \/ Kill(d)
      PROVE  cpc'[c] = "killed" /\ rq' = rq
  <2>1. cpc[d] # "killed"
    BY Zenon, <1>1 DEF ClientStep, Connect, SendHeader, SendData, ReadReply, RecvData, Kill, Gone,
                ClientGoto
  <2> QED BY <1>1, <2>1, ClientFrames DEF ClientFrame
<1>2. ASSUME NEW w \in Workers, WorkerStep(w) \/ Cleanup(w)
      PROVE  cpc' = cpc /\ rq' = rq
  BY <1>2, WorkerLeaves
<1> QED BY <1>1, <1>2, AdminMoves DEF Next, Threads, Listen, ListenBad, vars, clients

\* How a step ends the process.
LEMMA EndSteps ==
  ASSUME TypeOK, [Next]_vars, server' # server
  PROVE  /\ server = "up"
         /\ \/ \E w \in Workers : TraceClosed(w)
            \/ \E w \in Workers : ReadData(w) /\ Gone(conn[w]) /\ server' = "sigpipe"
                                  /\ UNCHANGED <<pc, cpc, rq, down>>
            \/ \E t \in Threads : CleanupClose(t) \/ CleanupExit(t)
<1>1. ASSUME NEW d \in Clients, ClientStep(d) \/ Kill(d)
      PROVE  server' = server
  BY <1>1, ClientFrames DEF ClientFrame
<1>2. CASE Listen \/ ListenBad \/ AdminQuit \/ UNCHANGED vars
  BY <1>2 DEF Listen, ListenBad, AdminQuit, vars, process
<1>3. ASSUME NEW w \in Workers, WorkerStep(w)
      PROVE  \/ TraceClosed(w) \/ server' = server
             \/ /\ ReadData(w) /\ Gone(conn[w]) /\ server' = "sigpipe"
                /\ UNCHANGED <<pc, cpc, rq, down>>
  BY Zenon, <1>3 DEF WorkerStep, Dequeue, Dispatch, DispatchShort, Close, Okay,
       RecvValue, RecvEnd, TraceWrite, Store, ReadLookup, ReadLen, ReadTrace, ReadHeader,
       ReadData, Delete, TraceDelete, process, clients
<1>4. ASSUME NEW t \in Threads, Cleanup(t)
      PROVE  CleanupClose(t) \/ CleanupExit(t) \/ server' = server
  BY <1>4 DEF Cleanup, CleanupTrace
<1> QED BY <1>1, <1>2, <1>3, <1>4, UpBefore DEF Next

\* The process only ends for one of the reasons of ExitReason.
LEMMA ExitKeeps ==
  ASSUME Counting, TypeOK, BusyInv, OpInv, ReplyInv, PendingInv, CleanupInv, ExitReason,
         [Next]_vars
  PROVE  ExitReason'
<1> DEFINE Dead(c) == cpc[c] = "killed" /\ rq[c].op = "R" /\ down[c].st = "K"
<1>e. /\ server = "exit0" => Quitters # {}
      /\ server = "exit1" => Cardinality(Quitters) > 1
      /\ server = "crash" => \E t \in Threads : pc[t] = "c_exit"
      /\ server = "sigpipe" => \E c \in Clients : Dead(c)
  BY DEF ExitReason, Quitters, Killed
<1>f. ASSUME server' = "exit0" => Quitters' # {},
             server' = "exit1" => Cardinality(Quitters') > 1,
             server' = "crash" => \E t \in Threads : pc'[t] = "c_exit",
             server' = "sigpipe" => \E c \in Clients : Dead(c)'
      PROVE  ExitReason'
  BY <1>f DEF ExitReason, Quitters, Killed
<1> USE <1>f
<1>1. CASE server' = server
  <2>1. CASE server = "up"
    BY <1>1, <2>1
  <2>2. CASE server # "up"
    <3>1. UNCHANGED <<pc, down>>
      <4>1. ASSUME NEW c \in Clients, ClientStep(c) \/ Kill(c)
            PROVE  UNCHANGED <<pc, down>>
        BY <4>1, ClientFrames DEF ClientFrame
      <4> QED BY <2>2, <4>1, UpBefore DEF Next, Listen, ListenBad, AdminQuit, WorkerGoto, At,
                                          vars, sockets
    <3> USE <3>1
    <3>2. Quitters' = Quitters
      BY DEF Quitters
    <3>3. ASSUME NEW c \in Clients, Dead(c)
          PROVE  Dead(c)'
      BY <3>3, DeadStay
    <3> QED BY <1>1, <1>e, <3>2, <3>3
  <2> QED BY <2>1, <2>2
<1>2. ASSUME NEW w \in Workers, TraceClosed(w)
      PROVE  ExitReason'
  BY <1>2 DEF TraceClosed, CleanupInv
<1>3. ASSUME NEW w \in Workers, ReadData(w), Gone(conn[w]), server' = "sigpipe",
             server = "up", UNCHANGED <<pc, cpc, rq, down>>
      PROVE  ExitReason'
  <2> USE <1>3
  <2>1. pc[w] = "r_data" /\ conn[w] \in Clients
    BY ServesClient DEF ReadData, At
  <2> USE <2>1
  <2>2. cpc[conn[w]] = "killed"
    BY DEF Gone, PendingInv
  <2>3. rq[conn[w]].op = "R" /\ down[conn[w]].st = "K"
    <3>1. down[conn[w]] = [st |-> "K", len |-> size[w], data |-> << >>]
      BY DEF ReplyInv
    <3> QED BY <3>1 DEF OpInv
  <2>4. Dead(conn[w]) /\ \A c \in Clients : Dead(c) => Dead(c)'
    BY <2>2, <2>3
  <2> QED BY <2>4
<1>4. ASSUME NEW t \in Threads, CleanupExit(t)
      PROVE  ExitReason'
  <2>1. t \in Quitters' /\ server' = "exit0"
    BY <1>4 DEF CleanupExit, At, Quitters
  <2> QED BY <2>1
<1>5. ASSUME NEW t \in Threads, CleanupClose(t), server' # server
      PROVE  ExitReason'
  <2>1. server' = "exit1" /\ ~listenOpen /\ pc[t] = "c_close" /\ pc' = pc
    BY <1>5 DEF CleanupClose, At
  <2> USE <2>1
  <2>2. PICK u \in Threads : pc[u] \in {"c_trace", "c_exit"}
    BY DEF CleanupInv
  <2>3. t \in Quitters' /\ u \in Quitters' /\ t # u
    BY <2>2 DEF Quitters
  <2>4. Cardinality(Quitters') > 1
    BY <2>3, QuittersStay, TwoMembers
  <2> QED BY <2>4
<1> QED BY <1>1, <1>2, <1>3, <1>4, <1>5, EndSteps

-----------------------------------------------------------------------------
(* The counters of requests.                                               *)

\* The worker of c is past the label l, where its handler counts the request.
Past(c, l) == closed[c] \/ \E w \in Workers : conn[w] = c /\ pc[w] \notin {"dispatch", l}

\* stats.c: the counter f has counted clients with requests of kind op, each of them
\* once, and all that are past the counting; of the clients that were killed, the ones
\* whose request had been read.
Tally(f, op, l) ==
  \E S \in SUBSET Clients :
    /\ stats[f] = Cardinality(S)
    /\ \A c \in S : rq[c].op = op /\ Past(c, l)
    /\ \A c \in Clients : rq[c].op = op /\ Past(c, l) /\ cpc[c] # "killed" => c \in S

CountInv == /\ Tally("writes", "W", "dispatch")
            /\ Tally("reads", "R", "r_lookup")
            /\ Tally("deletes", "D", "d_delete")

\* A step that counts nobody.
LEMMA TallySame ==
  ASSUME NEW f, NEW op, NEW l, Tally(f, op, l), stats'[f] = stats[f], rq' = rq,
         \A c \in Clients : /\ cpc[c] = "killed" => cpc'[c] = "killed"
                            /\ Past(c, l) => Past(c, l)'
                            /\ Past(c, l)' => Past(c, l) \/ rq[c].op # op \/ cpc[c] = "killed"
  PROVE  Tally(f, op, l)'
<1>1. PICK S \in SUBSET Clients :
        /\ stats[f] = Cardinality(S)
        /\ \A c \in S : rq[c].op = op /\ Past(c, l)
        /\ \A c \in Clients : rq[c].op = op /\ Past(c, l) /\ cpc[c] # "killed" => c \in S
  BY DEF Tally
<1>2. /\ stats'[f] = Cardinality(S)
      /\ \A c \in S : rq'[c].op = op /\ Past(c, l)'
      /\ \A c \in Clients : rq'[c].op = op /\ Past(c, l)' /\ cpc'[c] # "killed" => c \in S
  BY <1>1
<1> QED BY <1>2 DEF Tally

\* A step that counts the client d.
LEMMA TallyNext ==
  ASSUME Counting, NEW f, NEW op, NEW l, Tally(f, op, l), stats'[f] = stats[f] + 1, rq' = rq,
         NEW d \in Clients, rq[d].op = op, ~Past(d, l), Past(d, l)',
         \A c \in Clients : /\ cpc[c] = "killed" => cpc'[c] = "killed"
                            /\ c # d => (Past(c, l)' <=> Past(c, l))
  PROVE  Tally(f, op, l)'
<1>1. PICK S \in SUBSET Clients :
        /\ stats[f] = Cardinality(S)
        /\ \A c \in S : rq[c].op = op /\ Past(c, l)
        /\ \A c \in Clients : rq[c].op = op /\ Past(c, l) /\ cpc[c] # "killed" => c \in S
  BY DEF Tally
<1>2. d \notin S /\ IsFiniteSet(S)
  BY <1>1, ClientsAssumption DEF Counting, SubsetLaw
<1>3. Cardinality(S \cup {d}) = Cardinality(S) + 1
  BY Zenon, <1>2 DEF Counting, AddLaw
<1> DEFINE T == S \cup {d}
<1>4. /\ T \in SUBSET Clients /\ stats'[f] = Cardinality(T)
      /\ \A c \in T : rq'[c].op = op /\ Past(c, l)'
      /\ \A c \in Clients : rq'[c].op = op /\ Past(c, l)' /\ cpc'[c] # "killed" => c \in T
  BY <1>1, <1>3
<1> HIDE DEF T
<1> QED BY <1>4 DEF Tally

\* Where the worker of a connection is.
LEMMA HeldPast ==
  ASSUME PlaceInv, NEW w \in Workers, conn[w] \in Clients, NEW l
  PROVE  Past(conn[w], l) <=> pc[w] \notin {"dispatch", l}
  BY HeldOpen DEF Past

\* A worker moves no connection but its own past a label.
LEMMA OthersPast ==
  ASSUME TypeOK, BusyInv, PlaceInv, NEW w \in Workers, WorkerStep(w) \/ Cleanup(w), NEW l,
         NEW c \in Clients, c # conn[w]
  PROVE  Past(c, l)' <=> Past(c, l)
<1>1. /\ closed'[c] <=> closed[c]
      /\ \A v \in Workers : v # w => pc'[v] = pc[v] /\ conn'[v] = conn[v]
  BY WorkerLeaves
<1>2. conn'[w] = c => pc'[w] = "dispatch"
  BY WorkerMoves, ClientsAssumption DEF Dequeue, Close, WorkerGoto, At, TypeOK, Threads
<1> QED BY <1>1, <1>2 DEF Past

\* What a worker does to its own connection and to the counters, after dispatch.
LEMMA HandlerCounts ==
  ASSUME TypeOK, BusyInv, NEW w \in Workers, WorkerStep(w) \/ Cleanup(w),
         ~Dequeue(w), ~Dispatch(w), ~DispatchShort(w)
  PROVE  /\ pc[w] \notin {"idle", "dispatch"} /\ pc'[w] \notin {"dispatch", "r_lookup", "d_delete"}
         /\ pc[w] = "r_lookup" <=> ReadLookup(w)
         /\ pc[w] = "d_delete" <=> Delete(w)
         /\ stats'["writes"] = stats["writes"]
         /\ stats'["reads"] = IF ReadLookup(w) THEN stats["reads"] + 1 ELSE stats["reads"]
         /\ stats'["deletes"] = IF Delete(w) THEN stats["deletes"] + 1 ELSE stats["deletes"]
<1> USE DEF At, WorkerGoto
<1>0. pc \in [Threads -> WorkerLabels] /\ w \in Threads /\ stats \in Counts
  BY DEF TypeOK, Threads
<1> USE <1>0
<1>1. CASE Close(w) \/ Okay(w) \/ RecvValue(w) \/ RecvEnd(w)
  BY <1>1 DEF Close, Okay, RecvValue, RecvEnd, ReadLookup, Delete
<1>2. CASE TraceWrite(w) \/ Store(w)
  BY <1>2 DEF TraceWrite, Store, RespFail, ReadLookup, Delete, Counts
<1>3. CASE ReadLookup(w)
  BY ZenonT(30), <1>3 DEF ReadLookup, RespFail, Counted, Delete, Counts
<1>4. CASE ReadLen(w) \/ ReadTrace(w) \/ ReadHeader(w) \/ ReadData(w)
  BY <1>4 DEF ReadLen, ReadTrace, ReadHeader, ReadData, ReadLookup, Delete
<1>5. CASE Delete(w)
  BY <1>5, Zenon DEF Delete, Counted, ReadLookup, Counts
<1>6. CASE TraceDelete(w) \/ TraceClosed(w)
  BY <1>6, Zenon DEF TraceDelete, TraceClosed, ReadLookup, Delete
<1>7. CASE Cleanup(w)
  BY <1>7, Zenon DEF Cleanup, CleanupClose, CleanupTrace, CleanupExit, ReadLookup, Delete
<1> QED BY <1>1, <1>2, <1>3, <1>4, <1>5, <1>6, <1>7, Zenon DEF WorkerStep

\* dispatch: a write is counted, and a request that cannot be read is a dead client's.
LEMMA DispatchCounts ==
  ASSUME TypeOK, BusyInv, PendingInv, NEW w \in Workers, Dispatch(w) \/ DispatchShort(w)
  PROVE  /\ pc[w] = "dispatch" /\ conn' = conn /\ closed' = closed
         /\ stats'["reads"] = stats["reads"] /\ stats'["deletes"] = stats["deletes"]
         /\ \/ /\ DispatchShort(w) /\ (conn[w] \in Clients => cpc[conn[w]] = "killed")
               /\ stats'["writes"] = stats["writes"]
            \/ /\ conn[w] \in Clients
               /\ rq[conn[w]].op = "W" => /\ pc'[w] = "w_recv"
                                          /\ stats'["writes"] = stats["writes"] + 1
               /\ rq[conn[w]].op # "W" => stats'["writes"] = stats["writes"]
               /\ rq[conn[w]].op = "R" => pc'[w] = "r_lookup"
               /\ rq[conn[w]].op = "D" => pc'[w] = "d_delete"
<1> USE DEF At
<1>0. pc \in [Threads -> WorkerLabels] /\ w \in Threads /\ stats \in Counts
  BY DEF TypeOK, Threads
<1> USE <1>0
<1>1. CASE DispatchShort(w)
  <2> USE <1>1
  <2>1. pc[w] = "dispatch" /\ conn' = conn /\ closed' = closed /\ RespFail(w, stats)
    BY DEF DispatchShort
  <2>2. conn[w] \in Clients => up[conn[w]] = << >> /\ Gone(conn[w]) /\ Waiting(conn[w])
    BY <2>1 DEF DispatchShort, Waiting
  <2>3. conn[w] \in Clients => cpc[conn[w]] = "killed"
    BY <2>2 DEF PendingInv, Gone
  <2> QED BY <2>1, <2>3 DEF RespFail, Counts
<1>2. CASE Dispatch(w)
  <2> USE <1>2
  <2>1. pc[w] = "dispatch" /\ conn' = conn /\ closed' = closed /\ conn[w] \in Clients
    BY DEF Dispatch
  <2>2. CASE rq[conn[w]].op \in {"W", "R", "D", "Q"}
    BY <2>1, <2>2 DEF Dispatch, Entry, Counted, Counts
  <2>3. CASE rq[conn[w]].op \notin {"W", "R", "D", "Q"}
    BY <2>1, <2>3 DEF Dispatch, RespFail, Counts
  <2> QED BY <2>2, <2>3
<1> QED BY <1>1, <1>2

\* Where the worker of a connection is after its step.
LEMMA HeldPastNext ==
  ASSUME TypeOK, BusyInv, PlaceInv, NEW w \in Workers, WorkerStep(w) \/ Cleanup(w),
         NEW d \in Clients, conn[w] = d, NEW l
  PROVE  /\ Past(d, l) <=> pc[w] \notin {"dispatch", l}
         /\ Past(d, l)' <=> Close(w) \/ pc'[w] \notin {"dispatch", l}
<1>1. Past(d, l) <=> pc[w] \notin {"dispatch", l}
  BY HeldPast
<1>2. ~closed[d] /\ \A v \in Workers : conn[v] = d => v = w
  BY HeldOpen
<1>3. CASE Close(w)
  BY Zenon, <1>1, <1>3 DEF Close, Past
<1>4. CASE ~Close(w)
  <2>1. UNCHANGED <<conn, closed>>
    BY <1>4, WorkerMoves, ClientsAssumption DEF BusyInv, Dequeue, WorkerGoto, At
  <2> QED BY <1>1, <1>2, <1>4, <2>1 DEF Past
<1> QED BY <1>3, <1>4

\* worker.c: every handler counts its request once.
LEMMA WorkerCounts ==
  ASSUME Counting, TypeOK, BusyInv, PlaceInv, OpInv, PendingInv, CountInv,
         NEW w \in Workers, WorkerStep(w) \/ Cleanup(w)
  PROVE  CountInv'
<1>0. rq' = rq /\ cpc' = cpc
  BY WorkerLeaves
<1> USE <1>0
<1>o. \A l : \A c \in Clients : c # conn[w] => (Past(c, l)' <=> Past(c, l))
  BY OthersPast
<1> USE <1>o
<1>i. /\ Tally("writes", "W", "dispatch") /\ Tally("reads", "R", "r_lookup")
      /\ Tally("deletes", "D", "d_delete")
  BY DEF CountInv
<1> USE <1>i
<1>1. CASE conn[w] \notin Clients
  <2> USE <1>1
  <2>1. /\ stats'["writes"] = stats["writes"] /\ stats'["reads"] = stats["reads"]
        /\ stats'["deletes"] = stats["deletes"]
    <3>1. CASE Dequeue(w)
      BY <3>1 DEF Dequeue
    <3>2. CASE Dispatch(w) \/ DispatchShort(w)
      BY <3>2, DispatchCounts
    <3>3. CASE ~Dequeue(w) /\ ~Dispatch(w) /\ ~DispatchShort(w)
      <4>1. ~ReadLookup(w) /\ ~Delete(w)
        BY ServesClient DEF ReadLookup, Delete, At, WorkerGoto
      <4> QED BY <3>3, <4>1, HandlerCounts
    <3> QED BY <3>1, <3>2, <3>3
  <2> USE <2>1
  <2>2. Tally("writes", "W", "dispatch")'
    BY TallySame
  <2>3. Tally("reads", "R", "r_lookup")'
    BY TallySame
  <2>4. Tally("deletes", "D", "d_delete")'
    BY TallySame
  <2> QED BY <2>2, <2>3, <2>4 DEF CountInv
<1>2. ASSUME NEW d \in Clients, conn[w] = d
      PROVE  CountInv'
  <2> USE <1>2
  <2>0. ~Dequeue(w)
    BY ClientsAssumption DEF Dequeue, WorkerGoto, At, BusyInv
  <2>h. \A l : /\ Past(d, l) <=> pc[w] \notin {"dispatch", l}
               /\ Past(d, l)' <=> Close(w) \/ pc'[w] \notin {"dispatch", l}
    BY HeldPastNext
  <2> USE <2>h
  <2>1. CASE DispatchShort(w) /\ cpc[d] = "killed" /\ stats'["writes"] = stats["writes"]
    <3> USE <2>1
    <3>1. /\ pc[w] = "dispatch" /\ stats'["reads"] = stats["reads"]
          /\ stats'["deletes"] = stats["deletes"]
      BY DispatchCounts
    <3> USE <3>1
    <3>2. Tally("writes", "W", "dispatch")'
      BY TallySame
    <3>3. Tally("reads", "R", "r_lookup")'
      BY TallySame
    <3>4. Tally("deletes", "D", "d_delete")'
      BY TallySame
    <3> QED BY <3>2, <3>3, <3>4 DEF CountInv
  <2>2. CASE /\ Dispatch(w) \/ DispatchShort(w)
             /\ rq[d].op = "W" => /\ pc'[w] = "w_recv"
                                  /\ stats'["writes"] = stats["writes"] + 1
             /\ rq[d].op # "W" => stats'["writes"] = stats["writes"]
             /\ rq[d].op = "R" => pc'[w] = "r_lookup"
             /\ rq[d].op = "D" => pc'[w] = "d_delete"
    <3> USE <2>2
    <3>1. /\ pc[w] = "dispatch" /\ stats'["reads"] = stats["reads"]
          /\ stats'["deletes"] = stats["deletes"] /\ ~Close(w)
      BY DispatchCounts DEF Close, WorkerGoto, At
    <3> USE <3>1
    <3>2. Tally("writes", "W", "dispatch")'
      <4>1. CASE rq[d].op = "W"
        <5>1. ~Past(d, "dispatch") /\ Past(d, "dispatch")'
          BY <4>1
        <5> QED BY <4>1, <5>1, TallyNext
      <4>2. CASE rq[d].op # "W"
        BY <4>2, TallySame
      <4> QED BY <4>1, <4>2
    <3>3. Tally("reads", "R", "r_lookup")'
      BY TallySame
    <3>4. Tally("deletes", "D", "d_delete")'
      BY TallySame
    <3> QED BY <3>2, <3>3, <3>4 DEF CountInv
  <2>3. CASE ~Dispatch(w) /\ ~DispatchShort(w)
    <3>1. /\ pc[w] \notin {"idle", "dispatch"}
          /\ pc'[w] \notin {"dispatch", "r_lookup", "d_delete"}
          /\ pc[w] = "r_lookup" <=> ReadLookup(w)
          /\ pc[w] = "d_delete" <=> Delete(w)
          /\ stats'["writes"] = stats["writes"]
          /\ stats'["reads"] = IF ReadLookup(w) THEN stats["reads"] + 1 ELSE stats["reads"]
          /\ stats'["deletes"] = IF Delete(w) THEN stats["deletes"] + 1 ELSE stats["deletes"]
      BY <2>0, <2>3, HandlerCounts
    <3> USE <3>1
    <3>2. Tally("writes", "W", "dispatch")'
      BY TallySame
    <3>3. Tally("reads", "R", "r_lookup")'
      <4>1. CASE ReadLookup(w)
        <5>1. ~Past(d, "r_lookup") /\ Past(d, "r_lookup")' /\ rq[d].op = "R"
          BY <4>1 DEF OpInv
        <5> QED BY <4>1, <5>1, TallyNext
      <4>2. CASE ~ReadLookup(w)
        BY <4>2, TallySame
      <4> QED BY <4>1, <4>2
    <3>4. Tally("deletes", "D", "d_delete")'
      <4>1. CASE Delete(w)
        <5>1. ~Past(d, "d_delete") /\ Past(d, "d_delete")' /\ rq[d].op = "D"
          BY <4>1 DEF OpInv
        <5> QED BY <4>1, <5>1, TallyNext
      <4>2. CASE ~Delete(w)
        BY <4>2, TallySame
      <4> QED BY <4>1, <4>2
    <3> QED BY <3>2, <3>3, <3>4 DEF CountInv
  <2> QED BY <2>1, <2>2, <2>3, DispatchCounts
<1> QED BY <1>1, <1>2

\* Every step keeps the counters right.
LEMMA CountKeeps ==
  ASSUME Counting, TypeOK, BusyInv, PlaceInv, OpInv, PendingInv, CountInv, [Next]_vars
  PROVE  CountInv'
<1>1. ASSUME \A w \in Workers : pc'[w] = pc[w], UNCHANGED <<stats, conn, rq, closed>>
      PROVE  CountInv'
  <2> USE <1>1
  <2>1. \A l : \A c \in Clients : Past(c, l)' <=> Past(c, l)
    BY DEF Past
  <2> USE <2>1
  <2>2. \A c \in Clients : cpc[c] = "killed" => cpc'[c] = "killed"
    BY DeadStay
  <2> USE <2>2
  <2>3. /\ Tally("writes", "W", "dispatch") /\ Tally("reads", "R", "r_lookup")
        /\ Tally("deletes", "D", "d_delete")
    BY DEF CountInv
  <2> USE <2>3
  <2>4. Tally("writes", "W", "dispatch")'
    BY TallySame
  <2>5. Tally("reads", "R", "r_lookup")'
    BY TallySame
  <2>6. Tally("deletes", "D", "d_delete")'
    BY TallySame
  <2> QED BY <2>4, <2>5, <2>6 DEF CountInv
<1> USE <1>1
<1>2. CASE AdminQuit \/ Cleanup(Admin) \/ Listen \/ ListenBad
  BY <1>2, ListenHolds
<1>3. ASSUME NEW c \in Clients, ClientStep(c) \/ Kill(c)
      PROVE  CountInv'
  BY <1>3, ClientFrames DEF ClientFrame
<1> QED BY <1>2, <1>3, WorkerCounts DEF Next, Threads, vars, clients, sockets

\* When all clients are through, the counters say how many there were of each kind.
LEMMA TallyExact ==
  ASSUME NEW f, NEW op, NEW l, Tally(f, op, l), \A c \in Clients : cpc[c] = "done" /\ closed[c]
  PROVE  stats[f] = Cardinality({c \in Clients : rq[c].op = op})
<1>1. PICK S \in SUBSET Clients :
        /\ stats[f] = Cardinality(S)
        /\ \A c \in S : rq[c].op = op /\ Past(c, l)
        /\ \A c \in Clients : rq[c].op = op /\ Past(c, l) /\ cpc[c] # "killed" => c \in S
  BY DEF Tally
<1>2. S = {c \in Clients : rq[c].op = op}
  BY <1>1 DEF Past
<1> QED BY <1>1, <1>2

\* stats.c: the counters are exact.
LEMMA InvCounters ==
  ASSUME CountInv
  PROVE  CountersExact
  BY TallyExact DEF CountInv, CountersExact

-----------------------------------------------------------------------------
(* The counter of failures.                                                *)

\* The clients that have an 'X', the tasks in the queue that are no connection, and the
\* workers that are about to fail on one.
Replied == {c \in Clients : down[c].st = "X"}
BadWaiting == {i \in 1..Len(queue) : queue[i] = BadFd}
BadHeld == {w \in Workers : pc[w] = "dispatch" /\ conn[w] = BadFd}

\* worker.c, resp_fail: every failure is a reply to a client or to no connection.
FailInv ==
  stats["fails"] = Cardinality(Replied) + bad - Cardinality(BadWaiting) - Cardinality(BadHeld)

\* These sets can be counted.
LEMMA FinitePlaces ==
  ASSUME Counting, TypeOK
  PROVE  /\ IsFiniteSet(Replied) /\ Cardinality(Replied) \in Nat
         /\ IsFiniteSet(BadWaiting) /\ Cardinality(BadWaiting) \in Nat
         /\ IsFiniteSet(BadHeld) /\ Cardinality(BadHeld) \in Nat
         /\ bad \in Nat /\ stats["fails"] \in Nat
<1>1. Replied \in SUBSET Clients /\ BadHeld \in SUBSET Workers
  BY DEF Replied, BadHeld
<1>2. Len(queue) \in Nat
  BY Types DEF QueueType
<1>3. IsFiniteSet(1..Len(queue))
  BY <1>2 DEF Counting, IntervalLaw
<1>4. BadWaiting \in SUBSET (1..Len(queue))
  BY DEF BadWaiting
<1>5. IsFiniteSet(Replied) /\ IsFiniteSet(BadWaiting) /\ IsFiniteSet(BadHeld)
  BY <1>1, <1>3, <1>4, ClientsAssumption, ThreadsAssumption, Zenon DEF Counting, SubsetLaw
<1>6. bad \in Nat
  BY Types, BadAssumption DEF BadType
<1>7. stats["fails"] \in Nat
  BY Types DEF StatsType, Counts
<1> QED BY <1>5, <1>6, <1>7 DEF Counting, SizeLaw

\* A reply that is no failure.
LEMMA RepliedSame ==
  ASSUME TypeOK, NEW c \in Clients, NEW r, r.st = "X" <=> down[c].st = "X",
         down' = [down EXCEPT ![c] = r]
  PROVE  Replied' = Replied
<1>1. DOMAIN down = Clients
  BY Types DEF DownType
<1> QED BY <1>1 DEF Replied

\* resp_fail: one more failure, and one more client with an 'X' if there is a client.
LEMMA RespFailCounts ==
  ASSUME TypeOK, BusyInv, PlaceInv, ReplyInv, NEW w \in Workers,
         pc[w] \notin {"idle", "r_data", "close"}, NEW s \in Counts,
         s["fails"] = stats["fails"], RespFail(w, s)
  PROVE  /\ stats'["fails"] = stats["fails"] + 1
         /\ conn[w] \in Clients => conn[w] \notin Replied /\ Replied' = Replied \cup {conn[w]}
         /\ conn[w] \notin Clients => Replied' = Replied
<1>1. stats'["fails"] = stats["fails"] + 1
  BY DEF RespFail, Counts
<1>2. [NoReply EXCEPT !.st = "X"].st = "X" /\ NoReply.st = "none"
  BY DEF NoReply
<1>3. conn[w] \in Clients => down[conn[w]] = NoReply
  BY NoReplyYet
<1>4. down' = [c \in Clients |-> IF c = conn[w] THEN [NoReply EXCEPT !.st = "X"] ELSE down[c]]
  BY DEF RespFail
<1>5. \A c \in Clients : down'[c].st = "X" <=> c = conn[w] \/ down[c].st = "X"
  BY <1>2, <1>4
<1>6. Replied' = {c \in Clients : c = conn[w] \/ c \in Replied}
  BY <1>5 DEF Replied
<1>7. conn[w] \in Clients => conn[w] \notin Replied
  BY <1>2, <1>3 DEF Replied
<1>8. Replied \subseteq Clients
  BY DEF Replied
<1> QED BY <1>1, <1>6, <1>7, <1>8

\* What a worker does to the counter of failures.
FailStep(w) ==
  \/ /\ stats'["fails"] = stats["fails"] /\ Replied' = Replied /\ w \notin BadHeld
  \/ /\ stats'["fails"] = stats["fails"] + 1 /\ w \notin BadHeld
     /\ conn[w] \notin Replied /\ Replied' = Replied \cup {conn[w]}
  \/ /\ stats'["fails"] = stats["fails"] + 1 /\ w \in BadHeld /\ Replied' = Replied

\* A failure is one of these.
LEMMA RespFailSteps ==
  ASSUME TypeOK, BusyInv, PlaceInv, ReplyInv, NEW w \in Workers,
         pc[w] \notin {"idle", "r_data", "close"}, NEW s \in Counts,
         s["fails"] = stats["fails"], RespFail(w, s)
  PROVE  FailStep(w)
<1>1. conn[w] \in Clients \/ (conn[w] = BadFd /\ pc[w] = "dispatch")
  <2>1. conn[w] \in Clients \cup {NULL, BadFd}
    BY Types DEF ConnType
  <2> QED BY <2>1 DEF BusyInv
<1>2. CASE conn[w] \in Clients
  <2>1. w \notin BadHeld
    BY <1>2, ClientsAssumption DEF BadHeld
  <2> QED BY <1>2, <2>1, RespFailCounts DEF FailStep
<1>3. CASE conn[w] = BadFd /\ pc[w] = "dispatch"
  <2>1. w \in BadHeld /\ conn[w] \notin Clients
    BY <1>3, ClientsAssumption DEF BadHeld
  <2> QED BY <2>1, RespFailCounts DEF FailStep
<1> QED BY <1>1, <1>2, <1>3

\* Every step of a worker that has a task is one of these.
LEMMA FailSteps ==
  ASSUME TypeOK, BusyInv, PlaceInv, ReplyInv, NEW w \in Workers, WorkerStep(w) \/ Cleanup(w),
         ~Dequeue(w)
  PROVE  FailStep(w)
<1>s. stats \in Counts
  BY Types DEF StatsType
<1> USE <1>s
<1>c. ASSUME NEW f \in {"writes", "reads", "deletes"}
      PROVE  Counted(f) \in Counts /\ Counted(f)["fails"] = stats["fails"]
  BY SMTT(20) DEF Counted, Counts
<1> USE <1>c
<1>d. UNCHANGED down => Replied' = Replied
  BY DEF Replied
<1> USE <1>d
<1>h. pc[w] # "dispatch" => w \notin BadHeld
  BY DEF BadHeld
<1> USE <1>h
<1>1. CASE Dispatch(w)
  <2>1. pc[w] = "dispatch" /\ conn[w] \in Clients
    BY <1>1 DEF Dispatch, At
  <2>2. w \notin BadHeld
    BY <2>1, ClientsAssumption DEF BadHeld
  <2>3. \/ RespFail(w, stats)
        \/ UNCHANGED down /\ (stats' = Counted("writes") \/ stats' = stats)
    BY <1>1 DEF Dispatch
  <2> QED BY <2>1, <2>2, <2>3, RespFailSteps DEF FailStep
<1>2. CASE DispatchShort(w)
  <2>1. pc[w] = "dispatch" /\ RespFail(w, stats)
    BY <1>2 DEF DispatchShort, At
  <2> QED BY <2>1, RespFailSteps
<1>3. CASE TraceWrite(w) \/ Store(w)
  <2>1. /\ pc[w] \in {"w_trace", "w_store"}
        /\ RespFail(w, stats) \/ UNCHANGED <<stats, down>>
    BY <1>3 DEF TraceWrite, Store, At
  <2> QED BY <2>1, RespFailSteps DEF FailStep
<1>4. CASE ReadLookup(w)
  <2>1. /\ pc[w] = "r_lookup"
        /\ \/ RespFail(w, Counted("reads"))
           \/ stats' = Counted("reads") /\ UNCHANGED down
    BY <1>4 DEF ReadLookup, At
  <2> QED BY <2>1, RespFailSteps DEF FailStep
<1>5. CASE Okay(w)
  <2>1. pc[w] = "okay" /\ stats' = stats
    BY <1>5 DEF Okay, WorkerGoto, At
  <2> USE <2>1
  <2>2. conn[w] \in Clients
    BY ServesClient
  <2>3. down[conn[w]] = NoReply
    BY <2>2, NoReplyYet
  <2>4. down' = [down EXCEPT ![conn[w]] = [down[conn[w]] EXCEPT !.st = "K"]]
    BY <1>5 DEF Okay
  <2>5. [down[conn[w]] EXCEPT !.st = "K"].st = "K" /\ down[conn[w]].st = "none"
    BY <2>3 DEF NoReply
  <2>6. Replied' = Replied
    BY <2>2, <2>4, <2>5, RepliedSame, Zenon
  <2> QED BY <2>6 DEF FailStep
<1>6. CASE ReadHeader(w)
  <2>1. pc[w] = "r_header" /\ stats' = stats
    BY <1>6 DEF ReadHeader, WorkerGoto, At
  <2> USE <2>1
  <2>2. conn[w] \in Clients
    BY ServesClient
  <2>3. down[conn[w]] = NoReply
    BY <2>2, NoReplyYet
  <2>4. down' = [down EXCEPT ![conn[w]] = [st |-> "K", len |-> size[w], data |-> << >>]]
    BY <1>6 DEF ReadHeader
  <2>5. [st |-> "K", len |-> size[w], data |-> << >>].st = "K" /\ down[conn[w]].st = "none"
    BY <2>3 DEF NoReply
  <2>6. Replied' = Replied
    BY <2>2, <2>4, <2>5, RepliedSame, Zenon
  <2> QED BY <2>6 DEF FailStep
<1>7. CASE ReadData(w)
  <2>1. pc[w] = "r_data" /\ stats' = stats
    BY <1>7 DEF ReadData, At
  <2>2. conn[w] \in Clients
    BY <2>1, ServesClient
  <2>3. down[conn[w]] \in Replies
    BY <2>2, Types DEF DownType
  <2>4. \/ UNCHANGED down
        \/ down' = [down EXCEPT ![conn[w]] = [down[conn[w]] EXCEPT !.data = BytesAt(w)]]
    BY <1>7 DEF ReadData
  <2>5. [down[conn[w]] EXCEPT !.data = BytesAt(w)].st = down[conn[w]].st
    BY <2>3 DEF Replies
  <2>6. Replied' = Replied
    BY <2>2, <2>4, <2>5, RepliedSame, Zenon
  <2> QED BY <2>1, <2>6 DEF FailStep
<1>8. CASE Delete(w)
  <2>1. pc[w] = "d_delete" /\ stats' = Counted("deletes") /\ UNCHANGED down
    BY <1>8 DEF Delete, WorkerGoto, At, sockets
  <2> QED BY <2>1 DEF FailStep
<1>9. CASE Close(w) \/ RecvValue(w) \/ RecvEnd(w) \/ ReadLen(w) \/ ReadTrace(w)
  <2>1. pc[w] # "dispatch" /\ stats' = stats /\ UNCHANGED down
    BY <1>9 DEF Close, RecvValue, RecvEnd, ReadLen, ReadTrace, WorkerGoto, At, sockets
  <2> QED BY <2>1 DEF FailStep
<1>10. CASE TraceDelete(w) \/ TraceClosed(w) \/ Cleanup(w)
  <2>1. pc[w] # "dispatch" /\ stats' = stats /\ UNCHANGED down
    BY <1>10 DEF TraceDelete, TraceClosed, Cleanup, CleanupClose, CleanupTrace, CleanupExit,
       WorkerGoto, At, sockets
  <2> QED BY <2>1 DEF FailStep
<1> QED BY <1>1, <1>2, <1>3, <1>4, <1>5, <1>6, <1>7, <1>8, <1>9, <1>10 DEF WorkerStep

\* A worker with a task is done with it as far as the counter goes.
LEMMA WorkerFails ==
  ASSUME Counting, TypeOK, BusyInv, PlaceInv, ReplyInv, FailInv, NEW w \in Workers,
         WorkerStep(w) \/ Cleanup(w), ~Dequeue(w)
  PROVE  FailInv'
<1>1. UNCHANGED <<queue, bad>>
  BY WorkerMoves, WorkerLeaves DEF Close, tasks
<1>2. BadWaiting' = BadWaiting
  BY <1>1 DEF BadWaiting
<1>3. \A v \in Workers : v # w => pc'[v] = pc[v] /\ conn'[v] = conn[v]
  BY WorkerLeaves
<1>4. pc'[w] # "dispatch"
  <2>1. pc \in [Threads -> WorkerLabels] /\ w \in Threads
    BY Types DEF PcType, Threads
  <2> QED BY <2>1, WorkerMoves DEF Close, WorkerGoto
<1>5. BadHeld' = BadHeld \ {w}
  BY <1>3, <1>4 DEF BadHeld
<1>6. Cardinality(BadHeld') = IF w \in BadHeld THEN Cardinality(BadHeld) - 1
                                               ELSE Cardinality(BadHeld)
  <2>1. BadHeld \ {w} = BadHeld \/ w \in BadHeld
    OBVIOUS
  <2> QED BY <1>5, <2>1, FinitePlaces, Zenon DEF Counting, RemoveLaw
<1> USE <1>6
<1>7. conn[w] \notin Replied => Cardinality(Replied \cup {conn[w]}) = Cardinality(Replied) + 1
  BY FinitePlaces, Zenon DEF Counting, AddLaw
<1>8. FailStep(w)
  BY FailSteps
<1>9. Cardinality(BadWaiting') = Cardinality(BadWaiting) /\ bad' = bad
  BY <1>1, <1>2
<1> USE <1>9
<1>10. CASE stats'["fails"] = stats["fails"] /\ Replied' = Replied /\ w \notin BadHeld
  BY <1>10 DEF FailInv
<1>11. CASE /\ stats'["fails"] = stats["fails"] + 1 /\ w \notin BadHeld
            /\ conn[w] \notin Replied /\ Replied' = Replied \cup {conn[w]}
  <2>1. Cardinality(Replied') = Cardinality(Replied) + 1
    BY <1>7, <1>11
  <2> QED BY <1>11, <2>1, FinitePlaces, SMTT(20) DEF FailInv
<1>12. CASE stats'["fails"] = stats["fails"] + 1 /\ w \in BadHeld /\ Replied' = Replied
  <2>1. Cardinality(BadHeld') = Cardinality(BadHeld) - 1
    BY <1>12
  <2> QED BY <1>12, <2>1, FinitePlaces DEF FailInv
<1> QED BY <1>8, <1>10, <1>11, <1>12 DEF FailStep

\* A worker takes a task from the queue.
LEMMA DequeueFails ==
  ASSUME Counting, TypeOK, BusyInv, FailInv, NEW w \in Workers, Dequeue(w)
  PROVE  FailInv'
<1>0. /\ queue \in Seq(Clients \cup {BadFd}) /\ queue # << >>
      /\ pc \in [Threads -> WorkerLabels] /\ conn \in [Workers -> Clients \cup {NULL, BadFd}]
  BY Types DEF Dequeue, QueueType, PcType, ConnType
<1>1. /\ queue' = Tail(queue) /\ UNCHANGED <<bad, stats, down>>
      /\ conn' = [conn EXCEPT ![w] = Head(queue)]
      /\ pc[w] = "idle" /\ pc' = [pc EXCEPT ![w] = "dispatch"]
  BY DEF Dequeue, WorkerGoto, At, sockets
<1> USE <1>1
<1>2. Replied' = Replied
  BY DEF Replied
<1>3. /\ Len(queue) \in Nat \ {0} /\ Len(queue') = Len(queue) - 1
      /\ \A i \in 1..Len(queue') : queue'[i] = queue[i + 1]
      /\ Head(queue) = queue[1]
  BY <1>0
<1> USE <1>3
<1> DEFINE T == BadWaiting \ {1}
<1>4. Cardinality(BadWaiting') = Cardinality(T)
  <2>1. IsFiniteSet(T)
    BY FinitePlaces DEF Counting, RemoveLaw
  <2> DEFINE f == [i \in T |-> i - 1]
  <2>2. f \in [T -> BadWaiting']
    BY SMTT(20) DEF BadWaiting
  <2>3. \A i, j \in T : f[i] = f[j] => i = j
    BY SMTT(20) DEF BadWaiting
  <2>4. \A j \in BadWaiting' : \E i \in T : f[i] = j
    <3>1. TAKE j \in BadWaiting'
    <3>2. j \in 1..Len(queue') /\ queue'[j] = BadFd
      BY <3>1 DEF BadWaiting
    <3>3. j + 1 \in T /\ j \in Nat
      BY <3>2, SMTT(20) DEF BadWaiting
    <3>4. f[j + 1] = j
      BY <3>3, SMTT(20)
    <3> QED BY <3>3, <3>4
  <2> HIDE DEF f, T
  <2> QED BY <2>1, <2>2, <2>3, <2>4, SMTT(20) DEF Counting, BijectionLaw
<1>5. Cardinality(T) = IF Head(queue) = BadFd THEN Cardinality(BadWaiting) - 1
                                              ELSE Cardinality(BadWaiting)
  <2>1. 1 \in BadWaiting <=> Head(queue) = BadFd
    BY SMTT(20) DEF BadWaiting
  <2>2. BadWaiting \ {1} = BadWaiting \/ 1 \in BadWaiting
    OBVIOUS
  <2> QED BY <2>1, <2>2, FinitePlaces, Zenon DEF Counting, RemoveLaw
<1>6. w \notin BadHeld
  BY DEF BadHeld
<1>7. BadHeld' = IF Head(queue) = BadFd THEN BadHeld \cup {w} ELSE BadHeld
  BY <1>0, <1>6 DEF BadHeld, Threads
<1>8. Cardinality(BadHeld') = IF Head(queue) = BadFd THEN Cardinality(BadHeld) + 1
                                                     ELSE Cardinality(BadHeld)
  BY <1>6, <1>7, FinitePlaces, Zenon DEF Counting, AddLaw
<1> HIDE DEF T
<1> QED BY <1>2, <1>4, <1>5, <1>8, FinitePlaces, SMTT(20) DEF FailInv

\* listen_thread: a failing accept makes a task that will be counted.
LEMMA ListenFails ==
  ASSUME Counting, TypeOK, FailInv, Listen \/ ListenBad
  PROVE  FailInv'
<1>0. queue \in Seq(Clients \cup {BadFd}) /\ backlog \in Seq(Clients) /\ Len(queue) \in Nat
  BY Types DEF QueueType, BacklogType
<1> USE <1>0
<1>1. UNCHANGED <<pc, conn, stats, down>>
  BY DEF Listen, ListenBad, sockets
<1> USE <1>1
<1>2. Replied' = Replied /\ BadHeld' = BadHeld
  BY DEF Replied, BadHeld
<1>3. CASE Listen
  <2>1. Head(backlog) \in Clients /\ queue' = Append(queue, Head(backlog)) /\ bad' = bad
    BY <1>3 DEF Listen
  <2>2. /\ Len(queue') = Len(queue) + 1 /\ queue'[Len(queue) + 1] # BadFd
        /\ \A i \in 1..Len(queue) : queue'[i] = queue[i]
    BY <2>1, ClientsAssumption, SMTT(20)
  <2>3. BadWaiting' = BadWaiting
    BY <2>2 DEF BadWaiting
  <2> QED BY <1>2, <2>1, <2>3 DEF FailInv
<1>4. CASE ListenBad
  <2>1. queue' = Append(queue, BadFd) /\ bad' = bad + 1
    BY <1>4 DEF ListenBad
  <2>2. /\ Len(queue') = Len(queue) + 1 /\ queue'[Len(queue) + 1] = BadFd
        /\ \A i \in 1..Len(queue) : queue'[i] = queue[i]
    BY <2>1
  <2>3. BadWaiting' = BadWaiting \cup {Len(queue) + 1} /\ Len(queue) + 1 \notin BadWaiting
    BY <2>2 DEF BadWaiting
  <2>4. Cardinality(BadWaiting') = Cardinality(BadWaiting) + 1
    BY <2>3, FinitePlaces, Zenon DEF Counting, AddLaw
  <2> QED BY <1>2, <2>1, <2>4, FinitePlaces DEF FailInv
<1> QED BY <1>3, <1>4

\* Every step keeps the counter of failures right.
LEMMA FailsKeep ==
  ASSUME Counting, TypeOK, BusyInv, PlaceInv, ReplyInv, FailInv, [Next]_vars
  PROVE  FailInv'
<1>1. ASSUME \A w \in Workers : pc'[w] = pc[w], UNCHANGED <<stats, conn, down, queue, bad>>
      PROVE  FailInv'
  BY <1>1, Zenon DEF FailInv, Replied, BadWaiting, BadHeld
<1> USE <1>1
<1>2. CASE AdminQuit \/ Cleanup(Admin)
  <2>1. UNCHANGED <<queue, bad>>
    BY <1>2 DEF AdminQuit, Cleanup, CleanupClose, CleanupTrace, CleanupExit, tasks
  <2> QED BY <1>2, <2>1, ListenHolds
<1>3. ASSUME NEW c \in Clients, ClientStep(c) \/ Kill(c)
      PROVE  FailInv'
  BY <1>3, ClientFrames DEF ClientFrame
<1>4. CASE UNCHANGED vars
  BY <1>4 DEF vars, tasks, sockets
<1> QED BY <1>2, <1>3, <1>4, WorkerFails, DequeueFails, ListenFails DEF Next, Threads

\* In the beginning there is nothing to count.
LEMMA InitCounts ==
  ASSUME Counting, Init
  PROVE  CountInv /\ FailInv
<1>1. /\ stats["writes"] = 0 /\ stats["reads"] = 0 /\ stats["deletes"] = 0
      /\ stats["fails"] = 0 /\ bad = 0 /\ Len(queue) = 0
  BY DEF Init
<1> USE <1>1
<1>2. \A w \in Workers : pc[w] = "idle" /\ conn[w] = NULL
  BY DEF Init, Threads
<1>3. \A c \in Clients : ~closed[c] /\ down[c].st = "none"
  BY DEF Init, NoReply
<1>4. Cardinality({}) = 0 /\ {} \in SUBSET Clients
  BY DEF Counting, EmptyLaw
<1> USE <1>4
<1>5. \A l : \A c \in Clients : ~Past(c, l)
  BY <1>2, <1>3, ClientsAssumption DEF Past
<1>6. ASSUME NEW f, NEW op, NEW l, stats[f] = 0
      PROVE  Tally(f, op, l)
  <2>1. /\ stats[f] = Cardinality({})
        /\ \A c \in {} : rq[c].op = op /\ Past(c, l)
        /\ \A c \in Clients : rq[c].op = op /\ Past(c, l) /\ cpc[c] # "killed" => c \in {}
    BY <1>5, <1>6
  <2> QED BY <2>1 DEF Tally
<1>7. Replied = {} /\ BadWaiting = {} /\ BadHeld = {}
  BY <1>2, <1>3 DEF Replied, BadWaiting, BadHeld
<1>8. CountInv
  BY <1>6 DEF CountInv
<1> QED BY <1>7, <1>8 DEF FailInv

\* stats.c: the counters are what has been done, and inc_fail counts the failures.
LEMMA InvCounts ==
  ASSUME TypeOK, CountInv, FailInv
  PROVE  CountsExact
<1>1. DOMAIN conn = Workers
  BY Types DEF ConnType
<1>2. FailsAreReplies
  BY <1>1 DEF FailInv, FailsAreReplies, Replied, BadWaiting, BadHeld
<1> QED BY <1>2, InvCounters DEF CountsExact

-----------------------------------------------------------------------------
(* The table.                                                              *)

\* What a step of the server does to the table.
LEMMA TableSteps ==
  ASSUME TypeOK, BusyInv, [Next]_vars
  PROVE  \/ UNCHANGED <<keys, values, heap, res, written>>
         \/ \E k \in Key : kv_read(k) /\ UNCHANGED written
         \/ \E k \in Key : kv_delete(k) /\ UNCHANGED written
         \/ \E k \in Key, v \in Seq(Bytes) :
              \/ TableFull(k, v) /\ UNCHANGED written
              \/ /\ Overwrite(k, v) \/ Insert(k, v)
                 /\ written' = [written EXCEPT ![k] = @ \cup {v}]
<1>1. ASSUME NEW c \in Clients, ClientStep(c) \/ Kill(c)
      PROVE  UNCHANGED <<keys, values, heap, res, written>>
  BY <1>1, ClientFrames DEF ClientFrame
<1>2. CASE Listen \/ ListenBad \/ AdminQuit \/ Cleanup(Admin) \/ UNCHANGED vars
  BY <1>2, AdminMoves DEF Listen, ListenBad, vars, table
<1>3. ASSUME NEW w \in Workers, WorkerStep(w) \/ Cleanup(w), ~Store(w), ~ReadLookup(w), ~Delete(w)
      PROVE  UNCHANGED <<keys, values, heap, res, written>>
  BY <1>3, Zenon DEF WorkerStep, Dequeue, Dispatch, DispatchShort, Close, Okay,
       RecvValue, RecvEnd, TraceWrite, ReadLen, ReadTrace, ReadHeader,
       ReadData, TraceDelete, TraceClosed, Cleanup, CleanupClose, CleanupTrace, CleanupExit, table
<1>4. ASSUME NEW w \in Workers, Store(w) \/ ReadLookup(w) \/ Delete(w)
      PROVE  conn[w] \in Clients /\ rq[conn[w]].key \in Key /\ buf[w] \in Seq(Bytes)
  BY <1>4, ServesClient, RequestType, Zenon DEF Store, ReadLookup, Delete, WorkerGoto, At, TypeOK
<1> USE <1>4
<1>5. ASSUME NEW w \in Workers, Store(w)
      PROVE  \E k \in Key, v \in Seq(Bytes) :
              \/ TableFull(k, v) /\ UNCHANGED written
              \/ /\ Overwrite(k, v) \/ Insert(k, v)
                 /\ written' = [written EXCEPT ![k] = @ \cup {v}]
  <2>1. \/ TableFull(rq[conn[w]].key, buf[w]) /\ UNCHANGED written
        \/ /\ Overwrite(rq[conn[w]].key, buf[w]) \/ Insert(rq[conn[w]].key, buf[w])
           /\ written' = [written EXCEPT ![rq[conn[w]].key] = @ \cup {buf[w]}]
    BY <1>5 DEF Store
  <2> QED BY <1>5, <2>1
<1>6. ASSUME NEW w \in Workers, ReadLookup(w)
      PROVE  \E k \in Key : kv_read(k) /\ UNCHANGED written
  BY <1>6 DEF ReadLookup
<1>7. ASSUME NEW w \in Workers, Delete(w)
      PROVE  \E k \in Key : kv_delete(k) /\ UNCHANGED written
  BY <1>7 DEF Delete
<1> QED BY <1>1, <1>2, <1>3, <1>5, <1>6, <1>7 DEF Next, Threads

-----------------------------------------------------------------------------
(* The table, by the lemmas of module KvTableProofs.                       *)

\* kvstore.h: the table has slots, and what is missing is no key and no value.
LEMMA StoreGrounds == ASSUME Counting PROVE Grounds(Seq(Bytes))
  BY TableAssumption DEF Grounds

\* What the rest of the server relies on.
LEMMA StoreFacts ==
  ASSUME Counting, TableInv(Seq(Bytes))
  PROVE  StoreTypes /\ Found
<1>1. TableType(Seq(Bytes)) /\ SlotInv
  BY DEF TableInv
<1>2. ASSUME NEW k \in Key, find_key(k) >= 0
      PROVE  /\ find_key(k) \in UsedSlots /\ keys[find_key(k)].key = k
             /\ values[find_key(k)] \in Bufs
  BY <1>1, <1>2, FindKey, TableAssumption DEF SlotInv
<1>3. StoreTypes
  BY <1>1, <1>2 DEF StoreTypes, TableType, FREE, USED
<1> QED BY <1>2, <1>3 DEF Found

\* Every step keeps the table in order.
LEMMA TableKeeps ==
  ASSUME Counting, TypeOK, BusyInv, TableInv(Seq(Bytes)), [Next]_vars
  PROVE  TableInv(Seq(Bytes))'
<1>1. CASE UNCHANGED <<keys, values, heap, res, written>>
  BY <1>1 DEF TableInv, TableType, SlotInv, UsedSlots
<1> QED BY <1>1, TableSteps, StoreGrounds, ReadKeeps, DeleteKeeps, TableFullKeeps,
           OverwriteKeeps, InsertKeeps

\* Every slot holds a value that was stored under its key.
LEMMA SlotsKeep ==
  ASSUME Counting, TypeOK, BusyInv, WInv, TableInv(Seq(Bytes)), SlotsWritten, [Next]_vars
  PROVE  SlotsWritten'
<1> DEFINE SW == \A i \in UsedSlots : heap[values[i]] \in written[keys[i].key]
<1>s. (SW <=> SlotsWritten) /\ (SW' <=> SlotsWritten')
  BY DEF SlotsWritten
<1> USE <1>s
<1>0. /\ SW /\ SlotInv /\ UsedSlots \subseteq Slots
  BY DEF TableInv, UsedSlots
<1> USE <1>0
<1>1. CASE UNCHANGED <<keys, values, heap, written>>
  BY <1>1 DEF UsedSlots
<1> USE <1>1
<1>2. ASSUME NEW k \in Key, kv_delete(k), UNCHANGED written
      PROVE  SW'
  <2> USE <1>2
  <2>1. CASE \E i \in UsedSlots : Deleted(Seq(Bytes), k, i)
    <3>1. PICK i \in UsedSlots : Deleted(Seq(Bytes), k, i)
      BY <2>1
    <3>2. values' = values
      BY StoreGrounds, DeleteEffect
    <3>3. \A j \in UsedSlots' : /\ j \in UsedSlots /\ keys'[j] = keys[j]
                                /\ heap'[values[j]] = heap[values[j]]
      BY <3>1 DEF Deleted, SlotInv
    <3> QED BY <3>2, <3>3
  <2>2. CASE keys' = keys /\ heap' = heap
    BY <2>2 DEF kv_delete
  <2>3. find_key(k) \in Int
    BY FindKey, TableAssumption
  <2> QED BY <2>1, <2>2, <2>3, StoreGrounds, DeleteEffect
<1>3. ASSUME NEW k \in Key, NEW v \in Seq(Bytes), Overwrite(k, v),
             written' = [written EXCEPT ![k] = @ \cup {v}]
      PROVE  SW'
  <2>1. PICK i \in UsedSlots, b \in Bufs : Overwritten(Seq(Bytes), k, v, i, b)
    BY <1>3, StoreGrounds, OverwriteEffect
  <2>2. \A j \in UsedSlots : keys[j].key \in Key
    BY DEF SlotInv
  <2>3. written'[k] = written[k] \cup {v} /\ \A c \in Key : written[c] \subseteq written'[c]
    BY <1>3 DEF WInv
  <2>4. \A j \in UsedSlots : j # i => heap'[values'[j]] = heap[values[j]]
    BY <2>1, SMTT(20) DEF Overwritten, SlotInv
  <2>5. heap'[values'[i]] = v /\ keys[i].key = k /\ keys' = keys /\ UsedSlots' = UsedSlots
    BY <2>1 DEF Overwritten
  <2> QED BY <2>2, <2>3, <2>4, <2>5
<1>4. ASSUME NEW k \in Key, NEW v \in Seq(Bytes), Insert(k, v),
             written' = [written EXCEPT ![k] = @ \cup {v}]
      PROVE  SW'
  <2>1. PICK i \in Slots \ UsedSlots, b \in Bufs : Inserted(Seq(Bytes), k, v, i, b)
    BY <1>4, StoreGrounds, InsertEffect
  <2>2. \A j \in UsedSlots : keys[j].key \in Key
    BY DEF SlotInv
  <2>3. written'[k] = written[k] \cup {v} /\ \A c \in Key : written[c] \subseteq written'[c]
    BY <1>4 DEF WInv
  <2>4. \A j \in UsedSlots : heap'[values'[j]] = heap[values[j]] /\ keys'[j] = keys[j]
    BY <2>1, SMTT(20) DEF Inserted, SlotInv
  <2>5. heap'[values'[i]] = v /\ keys'[i].key = k /\ UsedSlots' = UsedSlots \cup {i}
    BY <2>1 DEF Inserted
  <2> QED BY <2>2, <2>3, <2>4, <2>5
<1>5. ASSUME NEW k, NEW v, kv_read(k) \/ TableFull(k, v), UNCHANGED written
      PROVE  SW'
  BY <1>5 DEF kv_read, TableFull
<1> QED BY <1>2, <1>3, <1>4, <1>5, TableSteps

-----------------------------------------------------------------------------
(* The initial state, but for the counters and the table.                  *)

\* dbserver.c, main: in the beginning the table is empty and nobody has done anything.
LEMMA InitRest ==
  ASSUME Init
  PROVE  /\ TypeOK /\ BusyInv /\ PlaceInv /\ OpInv /\ ReplyInv /\ ClientInv /\ PendingInv
         /\ PtrInv /\ CleanupInv /\ WInv /\ SlotsWritten /\ ExitReason
         /\ WrittenInv /\ StoreInv
<1>1. UsedSlots = {}
  BY DEF Init, TableInit, UsedSlots, FREE, USED
<1>2. TypeOK
  <2>1. << >> \in Seq(Bytes) /\ << >> \in Seq(Clients) /\ << >> \in Seq(Clients \cup {BadFd})
        /\ << >> \in Seq(Bytes \cup {"hdr"})
    OBVIOUS
  <2>2. NoReply \in Replies
    BY <2>1, ReplyType, Zenon DEF NoReply
  <2>3. stats \in Counts
    BY DEF Init, Counts
  <2>4. bad \in 0..MaxBadTasks
    BY BadAssumption DEF Init
  <2> QED BY <2>1, <2>2, <2>3, <2>4 DEF Init, TypeOK, WorkerLabels, Signs
<1>3. Len(backlog) = 0 /\ Len(queue) = 0 /\ \A c : ~Queued(c)
  BY DEF Init, Queued
<1>4. \A w \in Workers : pc[w] = "idle" /\ conn[w] = NULL
  BY DEF Init, Threads
<1> USE <1>4
<1>5. BusyInv /\ OpInv /\ PtrInv /\ CleanupInv /\ ExitReason
  BY ClientsAssumption DEF BusyInv, OpInv, PtrInv, CleanupInv, ExitReason, Reading, Init
<1>6. PlaceInv
  BY <1>3, ClientsAssumption, SMTT(20) DEF PlaceInv, Init
<1>7. \A c \in Clients : down[c] = NoReply /\ Len(down[c].data) = 0 /\ Len(got[c]) = 0
                         /\ down[c].len = 0 /\ down[c].st = "none" /\ result[c] = "none"
  BY DEF Init, NoReply
<1> USE <1>7
<1>8. ReplyInv /\ ClientInv
  BY SMTT(20) DEF ReplyInv, ClientInv, Init
<1>9. PendingInv
  BY <1>3, ClientsAssumption DEF PendingInv, Init, Waiting
<1>10. WInv /\ SlotsWritten
  BY <1>1 DEF WInv, SlotsWritten, Init
<1>11. WrittenInv
  BY <1>10 DEF WrittenInv, SlotsWritten, Reading
<1>12. StoreInv
  BY DEF StoreInv
<1> QED BY <1>2, <1>5, <1>6, <1>8, <1>9, <1>10, <1>11, <1>12

-----------------------------------------------------------------------------
(* The theorems.                                                           *)

INSTANCE FiniteSetTheorems

\* The arguments that count are right about numbers and finite sets.
LEMMA CountingHolds == Counting
<1>1. MinLaw
  <2>1. SUFFICES ASSUME NEW S \in SUBSET Nat, S # {}
                 PROVE  \E i \in S : \A j \in S : i <= j
    BY DEF MinLaw
  <2> USE <2>1
  <2> DEFINE R == {ss \in Nat \X Nat : ss[1] < ss[2]}
  <2>2. IsWellFoundedOn(R, Nat)
    BY NatLessThanWellFounded DEF OpToRel
  <2>3. PICK x \in S : \A y \in S : ~(<<y, x>> \in R)
    BY <2>2, WFMin, Zenon
  <2>4. \A y \in S : ~(y < x)
    BY <2>3, Zenon
  <2> QED BY <2>4, SMTT(20)
<1>2. EmptyLaw /\ SizeLaw
  BY FS_EmptySet, FS_CardinalityType DEF EmptyLaw, SizeLaw
<1>3. IntervalLaw /\ SpanLaw
  BY FS_Interval DEF IntervalLaw, SpanLaw
<1>4. SubsetLaw /\ PartLaw
  BY FS_Subset DEF SubsetLaw, PartLaw
<1>5. AddLaw
  BY FS_AddElement DEF AddLaw
<1>6. RemoveLaw
  BY FS_RemoveElement DEF RemoveLaw
<1>7. BijectionLaw
  <2>1. SUFFICES ASSUME NEW S, NEW T, NEW f \in [S -> T], IsFiniteSet(S),
                        \A i, j \in S : f[i] = f[j] => i = j,
                        \A t \in T : \E i \in S : f[i] = t
                 PROVE  Cardinality(T) = Cardinality(S)
    BY DEF BijectionLaw
  <2>2. f \in Bijection(S, T)
    BY <2>1 DEF Bijection, Injection, Surjection, IsInjective
  <2>3. ExistsBijection(S, T)
    BY <2>2 DEF ExistsBijection
  <2> QED BY <2>1, <2>3, FS_Bijection
<1> QED BY <1>1, <1>2, <1>3, <1>4, <1>5, <1>6, <1>7 DEF Counting

\* The inductive invariant of the server and its clients.
DbInv ==
  /\ TypeOK /\ BusyInv /\ PlaceInv /\ OpInv /\ ReplyInv /\ ClientInv /\ PendingInv
  /\ PtrInv /\ CleanupInv /\ WInv /\ TableInv(Seq(Bytes)) /\ SlotsWritten /\ ExitReason
  /\ CountInv /\ FailInv
  /\ OneWorker => WrittenInv
  /\ ~PartialReads => StoreInv

\* The initial state satisfies it.
LEMMA InitInv ==
  ASSUME Init
  PROVE  DbInv
<1>1. TableInv(Seq(Bytes))
  BY StoreGrounds, CountingHolds, InitTable DEF Init
<1> QED BY <1>1, InitRest, InitCounts, CountingHolds DEF DbInv

\* Every step keeps it.
LEMMA InvKeeps ==
  ASSUME DbInv, [Next]_vars
  PROVE  DbInv'
<1>0. /\ TypeOK /\ BusyInv /\ PlaceInv /\ OpInv /\ ReplyInv /\ ClientInv /\ PendingInv
      /\ PtrInv /\ CleanupInv /\ WInv /\ TableInv(Seq(Bytes)) /\ SlotsWritten /\ ExitReason
      /\ CountInv /\ FailInv
  BY DEF DbInv
<1> USE <1>0
<1>1. StoreTypes /\ Found
  BY StoreFacts, CountingHolds
<1> USE <1>1
<1>2. TypeOK'
  BY TypesKeep
<1>3. BusyInv' /\ PlaceInv'
  BY BusyKeeps, PlacesKeep
<1>4. OpInv' /\ ReplyInv' /\ ClientInv'
  BY OpKeeps, ReplyKeeps, ClientKeeps
<1>5. PendingInv' /\ PtrInv' /\ CleanupInv'
  BY PendingKeeps, PtrKeeps, CleanupKeeps
<1>6. WInv' /\ TableInv(Seq(Bytes))' /\ SlotsWritten' /\ ExitReason'
  BY WrittenGrows, TableKeeps, SlotsKeep, ExitKeeps, CountingHolds
<1>7. OneWorker' => WrittenInv'
  <2>1. OneWorker' <=> OneWorker
    <3>1. DOMAIN conn = Workers /\ DOMAIN conn' = Workers
      BY <1>2, Types, TypesNext DEF ConnType
    <3> QED BY <3>1 DEF OneWorker
  <2> QED BY <1>6, <2>1, WrittenKeeps DEF DbInv
<1>8. ~PartialReads => StoreInv'
  BY StoreKeeps DEF DbInv
<1>9. CountInv' /\ FailInv'
  BY CountKeeps, FailsKeep, CountingHolds
<1> QED BY <1>2, <1>3, <1>4, <1>5, <1>6, <1>7, <1>8, <1>9 DEF DbInv

\* The invariant holds for any number of clients, workers, keys and buffers.
LEMMA AlwaysInv == Spec => []DbInv
<1>1. Init => DbInv
  BY InitInv
<1>2. DbInv /\ [Next]_vars => DbInv'
  BY InvKeeps
<1> QED BY <1>1, <1>2, PTL DEF Spec

\* dbserver.c, worker.c: the process keeps its types, and it ends only when somebody
\* asked it to or when a client died during its do_get; status 1 needs two threads in
\* cleanup, and a crash one between fclose and exit.
THEOREM ServerIsSound == Spec => []ServerSound
<1>1. DbInv => ServerSound
  BY DEF DbInv, ServerSound
<1> QED BY <1>1, AlwaysInv, PTL

\* worker.c, handle_write: when no read on a socket is short, a do_set that succeeds has
\* stored the bytes that the client sent.
THEOREM AcksAreStored == ASSUME ~PartialReads PROVE Spec => []AckMeansStored
<1>1. DbInv => AckMeansStored
  BY DEF DbInv, AckMeansStored, StoreInv, ClientInv
<1> QED BY <1>1, AlwaysInv, PTL

\* worker.c, handle_read: with one worker no value is freed while it is read, and a do_get
\* that succeeds returns a value that was stored under its key.
THEOREM ReadsAreWritten == Spec => []ReadsWritten
<1>1. DbInv => ReadsWritten
  BY InvReadsWritten DEF DbInv
<1> QED BY <1>1, AlwaysInv, PTL

\* stats.c, worker.c: when all clients are through, the counters are the numbers of their
\* requests of each kind; at any time, inc_fail has counted the clients that got an 'X' and
\* the tasks that were no connection.
THEOREM CountsAreExact == Spec => []CountsExact
<1>1. DbInv => CountsExact
  BY InvCounts DEF DbInv
<1> QED BY <1>1, AlwaysInv, PTL
=============================================================================
