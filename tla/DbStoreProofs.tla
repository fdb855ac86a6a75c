---------------------------- MODULE DbStoreProofs ---------------------------
(***************************************************************************)
(* What the dbserver and its clients (lab 3) owe each other, and what is   *)
(* stored and read: the conjuncts of the invariant that are about the      *)
(* handlers of worker.c.                                                   *)
(***************************************************************************)
EXTENDS DbStepProofs

\* A leaf that names no prover is tried with Zenon, then with SMT.
USE ZenonT(15), SMTT(20)

-----------------------------------------------------------------------------
(* What the server and a client owe each other.                            *)

\* A connection of the server.
Held(c) == Queued(c) \/ \E w \in Workers : conn[w] = c

\* The server never takes a connection back, and only its worker reads from it.
LEMMA WorkerHolds ==
  ASSUME TypeOK, BusyInv, PlaceInv, NEW w \in Workers, WorkerStep(w) \/ Cleanup(w),
         NEW c \in Clients
  PROVE  /\ Held(c)' => Held(c)
         /\ Waiting(c)' => Waiting(c) /\ up'[c] = up[c]
<1>0. /\ WorkerFrame(w)
      /\ \A v \in Workers : v # w => pc'[v] = pc[v] /\ conn'[v] = conn[v]
      /\ backlog' = backlog
  BY WorkerLeaves
<1> USE <1>0
<1>1. CASE Dequeue(w)
  <2>1. /\ Queued(c)' <=> Queued(c) /\ c # conn'[w]
        /\ conn'[w] = c => Queued(c)
        /\ up' = up
    BY Zenon, <1>1, DequeuePlaces DEF Dequeue, sockets
  <2> QED BY <2>1 DEF Held, Waiting
<1>2. CASE Close(w)
  <2>1. conn'[w] # c /\ up' = up /\ (Queued(c)' <=> Queued(c))
    BY <1>2, ClientsAssumption DEF Close, TypeOK, tasks, Queued
  <2> QED BY <2>1 DEF Held, Waiting
<1>3. CASE UNCHANGED <<conn, queue>> /\ pc'[w] # "dispatch"
  <2> USE <1>3
  <2>1. Queued(c)' <=> Queued(c)
    BY DEF Queued
  <2>2. Waiting(c)' => Waiting(c) /\ c # conn[w]
    BY <2>1, HeldOpen, SMTT(20) DEF Waiting, PlaceInv
  <2> QED BY <2>1, <2>2 DEF Held, WorkerFrame
<1> QED BY <1>1, <1>2, <1>3, WorkerMoves

\* A client becomes a connection by connecting.
LEMMA ClientHolds ==
  ASSUME TypeOK, PlaceInv, NEW c \in Clients, ClientStep(c) \/ Kill(c), NEW d \in Clients
  PROVE  /\ Held(d)' => Held(d) \/ (d = c /\ cpc[c] = "start" /\ cpc'[c] = "header")
         /\ Waiting(d)' => Waiting(d) \/ (d = c /\ cpc[c] = "start" /\ cpc'[c] = "header")
<1>0. ClientFrame(c)
  BY ClientFrames
<1> USE <1>0
<1>1. CASE UNCHANGED backlog
  BY <1>1 DEF Held, Waiting, Queued, ClientFrame
<1>2. CASE backlog' = Append(backlog, c) /\ cpc[c] = "start" /\ cpc'[c] = "header"
  <2>1. \A i \in 1..Len(backlog') : backlog'[i] = c \/ (i \in 1..Len(backlog) /\ backlog'[i] = backlog[i])
    <3>1. Len(backlog') = Len(backlog) + 1 /\ Len(backlog) \in Nat
          /\ (\A i \in 1..Len(backlog) : backlog'[i] = backlog[i])
          /\ backlog'[Len(backlog) + 1] = c
      BY <1>2 DEF TypeOK
    <3> TAKE i \in 1..Len(backlog')
    <3>2. i = Len(backlog) + 1 \/ i \in 1..Len(backlog)
      BY <3>1
    <3> QED BY <3>1, <3>2
  <2>2. Queued(d)' => Queued(d) \/ d = c
    BY <2>1 DEF Queued, ClientFrame
  <2> QED BY <1>2, <2>2 DEF Held, Waiting, ClientFrame
<1> QED BY <1>1, <1>2 DEF ClientStep, Connect, SendHeader, SendData, ReadReply, RecvData, Kill,
                          ClientGoto, tasks, TypeOK

\* The listener and the control thread neither answer nor read.
LEMMA ListenHolds ==
  ASSUME TypeOK, PlaceInv, Listen \/ ListenBad \/ AdminQuit \/ Cleanup(Admin)
  PROVE  /\ \A c \in Clients : (Held(c)' <=> Held(c)) /\ (Waiting(c)' <=> Waiting(c))
         /\ \A w \in Workers : pc'[w] = pc[w]
         /\ UNCHANGED <<stats, conn, buf, n, size, ptr, cpc, rq, result, got,
                        len, up, down, closed, keys, values, heap, res, written>>
         /\ server' = "up" => server = "up"
<1>1. CASE Listen \/ ListenBad
  <2>1. \A c \in Clients : Queued(c)' <=> Queued(c)
    BY <1>1, ListenPlaces, ListenBadPlaces
  <2> QED BY <1>1, <2>1
             DEF Listen, ListenBad, Held, Waiting, table, process, locals, clients, sockets
<1>2. CASE AdminQuit \/ Cleanup(Admin)
  <2> USE <1>2
  <2>1. \A c \in Clients : Queued(c)' <=> Queued(c)
    BY AdminMoves DEF Queued
  <2>2. server' = "up" => server = "up"
    BY DEF AdminQuit, process, Cleanup, CleanupClose, CleanupTrace, CleanupExit, WorkerGoto, At
  <2> QED BY <2>1, <2>2, AdminMoves DEF Held, Waiting
<1> QED BY <1>1, <1>2

\* The parts of PendingInv.
Owes(c) == Held(c) /\ server = "up" /\ cpc[c] = "done" => down[c].st # "none" \/ rq[c].op = "Q"
Quiet(c) == cpc[c] \in {"start", "header"} => up[c] = << >>
Sent(c) == Waiting(c) =>
             /\ cpc[c] \notin {"header", "killed"} => up[c] # << >>
             /\ up[c] \in {<< >>, <<"hdr">>, <<"hdr">> \o rq[c].data}
             /\ cpc[c] = "data" => up[c] = <<"hdr">>
Stays(w) == pc[w] = "r_data" /\ server = "up" => cpc[conn[w]] # "done"
Handled(w) == pc[w] \notin {"idle", "dispatch", "close"} =>
                cpc[conn[w]] \notin {"start", "header"} /\ up[conn[w]] \in Seq(Bytes)

\* PendingInv in parts.
LEMMA PendingParts ==
  /\ PendingInv <=> /\ \A c \in Clients : Owes(c) /\ Quiet(c) /\ Sent(c)
                    /\ \A w \in Workers : Stays(w) /\ Handled(w)
  /\ PendingInv' <=> /\ \A c \in Clients : Owes(c)' /\ Quiet(c)' /\ Sent(c)'
                     /\ \A w \in Workers : Stays(w)' /\ Handled(w)'
<1>1. \A c \in Clients :
        /\ Held(c) <=> Waiting(c) \/ \E w \in Workers : conn[w] = c
        /\ Held(c)' <=> Waiting(c)' \/ \E w \in Workers : conn'[w] = c
  BY DEF Held, Waiting
<1> QED BY <1>1 DEF PendingInv, Owes, Quiet, Sent, Stays, Handled

\* dbclient.c: a client that is through has its answer, or made no claim to one.
LEMMA ClientOwes ==
  ASSUME TypeOK, BusyInv, PlaceInv, OpInv, ReplyInv, ClientInv, PendingInv,
         NEW c \in Clients, ClientStep(c) \/ Kill(c)
  PROVE  PendingInv'
<1>0. ClientFrame(c) /\ rq' = rq /\ down' = down /\ pc' = pc /\ conn' = conn /\ size' = size
  BY ClientFrames DEF ClientFrame
<1>i. /\ \A d \in Clients : Owes(d) /\ Quiet(d) /\ Sent(d)
      /\ \A w \in Workers : Stays(w) /\ Handled(w)
  BY PendingParts
<1>t. /\ rq[c].data \in Seq(Bytes) /\ up[c] \in Seq(Bytes \cup {"hdr"}) /\ Len(got[c]) \in Nat
      /\ down[c] \in Replies /\ len[c] \in Nat
  BY RequestType, SMTT(20) DEF TypeOK
<1>h. << "hdr" >> # << >> /\ << "hdr" >> \o rq[c].data # << >>
  BY <1>t
<1>1. ASSUME NEW d \in Clients, d # c
      PROVE  Owes(d)' /\ Quiet(d)' /\ Sent(d)'
  <2>1. (Held(d)' => Held(d)) /\ (Waiting(d)' => Waiting(d))
    BY <1>1, ClientHolds
  <2> QED BY <1>i, <1>0, <1>1, <2>1 DEF Owes, Quiet, Sent, ClientFrame
<1> USE DEF ServerUnchanged, table, process, tasks, locals, sockets, ClientGoto
<1> DEFINE A == \/ Connect(c) /\ cpc[c] = "start" /\ cpc'[c] \in {"header", "done"} /\ up' = up
                                /\ (cpc'[c] = "done" => backlog' = backlog)
                \/ /\ cpc[c] = "header" /\ up'[c] = <<"hdr">>
                   /\ cpc'[c] = IF rq[c].op = "W" THEN "data" ELSE IF rq[c].op = "Q" THEN "done"
                                ELSE "await"
                \/ cpc[c] = "data" /\ cpc'[c] = "await" /\ up'[c] = up[c] \o rq[c].data
                \/ /\ cpc[c] = "await" /\ up' = up
                   /\ \/ /\ down[c].st # "none"
                         /\ cpc'[c] = IF rq[c].op = "R" /\ down[c].st = "K" THEN "recv" ELSE "done"
                      \/ AtEof(c) /\ down[c].st = "none" /\ cpc'[c] = "done"
                \/ /\ cpc[c] = "recv" /\ up' = up
                   /\ \/ cpc'[c] = "done" /\ Len(got[c]) >= len[c]
                      \/ cpc'[c] = cpc[c]
                \/ cpc'[c] = "killed" /\ up' = up /\ cpc[c] # "start"
<1>2. A
  <2>1. CASE Connect(c)
    BY <2>1 DEF Connect, TypeOK
  <2>2. CASE SendHeader(c)
    BY <2>2 DEF SendHeader, TypeOK
  <2>3. CASE SendData(c)
    BY <2>3 DEF SendData, TypeOK
  <2>4. CASE ReadReply(c)
    BY <2>4 DEF ReadReply, TypeOK
  <2>5. CASE RecvData(c)
    BY <2>5 DEF RecvData, TypeOK
  <2>6. CASE Kill(c)
    BY <2>6 DEF Kill, TypeOK
  <2> QED BY Zenon, <2>1, <2>2, <2>3, <2>4, <2>5, <2>6 DEF ClientStep
<1>s. cpc[c] = "start" => ~Held(c) /\ ~Waiting(c)
  BY DEF PlaceInv, Held, Waiting
<1>w. Waiting(c)' => Waiting(c) \/ (cpc[c] = "start" /\ cpc'[c] = "header")
  BY ClientHolds
<1>v. Held(c)' => Held(c) \/ (cpc[c] = "start" /\ cpc'[c] = "header")
  BY ClientHolds
<1>3. Owes(c)'
  <2>1. cpc[c] = "recv" => down[c].st # "none"
    BY DEF ClientInv
  <2>2. AtEof(c) /\ server = "up" => ~Held(c)
    BY DEF AtEof, PlaceInv, Held
  <2>3. server' = server
    BY <1>0 DEF ClientFrame
  <2> QED BY <1>0, <1>i, <1>2, <1>s, <1>v, <2>1, <2>2, <2>3 DEF Owes
<1>4. Quiet(c)'
  BY Zenon, <1>i, <1>2 DEF Quiet
<1>5. Sent(c)'
  <2>1. CASE Connect(c) /\ cpc[c] = "start"
    BY <1>0, <1>i, <1>2, <1>s, <1>w, <2>1 DEF Sent, Quiet
  <2>2. CASE cpc[c] # "start"
    BY Zenon, <1>0, <1>i, <1>2, <1>w, <1>h, <2>2 DEF Sent, Quiet
  <2> QED BY Zenon, <1>2, <2>1, <2>2
<1>6. ASSUME NEW w \in Workers
      PROVE  Stays(w)' /\ Handled(w)'
  <2>1. CASE conn[w] # c
    BY <1>0, <1>i, <2>1, ServesClient, SMTT(20) DEF Stays, Handled, ClientFrame
  <2>2. CASE conn[w] = c
    <3>0. cpc[c] # "start"
      BY <2>2, HeldOpen
    <3>1. pc[w] = "r_data" => /\ rq[c].op = "R" /\ size[w] > 0
                              /\ down[c] = [st |-> "K", len |-> size[w], data |-> << >>]
      BY <2>2 DEF OpInv, ReplyInv
    <3>2. pc[w] = "r_data" /\ cpc[c] = "recv" => Len(got[c]) = 0 /\ len[c] = size[w]
      BY <1>t, <3>1, SMTT(20) DEF ClientInv
    <3>3. Stays(w)'
      <4> SUFFICES ASSUME pc[w] = "r_data", server = "up"
                   PROVE  cpc'[c] # "done"
        BY <1>0, <2>2 DEF Stays, ClientFrame
      <4>1. cpc[c] \notin {"start", "header", "done"}
        BY <1>i, <2>2 DEF Stays, Handled
      <4>2. cpc[c] = "recv" => ~(Len(got[c]) >= len[c])
        <5>1. size[w] \in Nat
          BY DEF TypeOK
        <5> QED BY <3>1, <3>2, <5>1
      <4>3. down[c].st = "K" /\ rq[c].op = "R"
        BY <3>1
      <4> QED BY ZenonT(30), <1>2, <4>1, <4>2, <4>3
    <3>4. Handled(w)'
      <4>1. up[c] \in Seq(Bytes) => up[c] \o rq[c].data \in Seq(Bytes)
        BY <1>t
      <4> QED BY Zenon, <1>0, <1>i, <1>2, <2>2, <3>0, <4>1 DEF Handled
    <3> QED BY <3>3, <3>4
  <2> QED BY <2>1, <2>2
<1>7. \A d \in Clients : Owes(d)' /\ Quiet(d)' /\ Sent(d)'
  BY <1>1, <1>3, <1>4, <1>5
<1> QED BY <1>6, <1>7, PendingParts
\* What a worker reads from its socket.
LEMMA WorkerReads ==
  ASSUME TypeOK, BusyInv, NEW w \in Workers, WorkerStep(w) \/ Cleanup(w)
  PROVE  \/ UNCHANGED up /\ (pc[w] = "dispatch" => pc'[w] = "close")
         \/ Dispatch(w) \/ RecvValue(w)
<1> USE DEF table, process, tasks, locals, clients, sockets, At, WorkerGoto, RespFail
<1>0. pc \in [Threads -> WorkerLabels] /\ w \in Threads
  BY DEF TypeOK, Threads
<1> USE <1>0
<1>1. CASE DispatchShort(w) \/ Dequeue(w) \/ Close(w)
  BY <1>1 DEF DispatchShort, Dequeue, Close
<1>2. CASE Okay(w) \/ RecvEnd(w) \/ TraceWrite(w) \/ Store(w)
  BY <1>2 DEF Okay, RecvEnd, TraceWrite, Store
<1>3. CASE ReadLookup(w) \/ ReadLen(w) \/ ReadTrace(w) \/ ReadHeader(w) \/ ReadData(w)
  BY <1>3 DEF ReadLookup, ReadLen, ReadTrace, ReadHeader, ReadData
<1>4. CASE Delete(w) \/ TraceDelete(w) \/ TraceClosed(w) \/ Cleanup(w)
  BY <1>4, Zenon DEF Delete, TraceDelete, TraceClosed, Cleanup, CleanupClose, CleanupTrace,
                    CleanupExit
<1> QED BY <1>1, <1>2, <1>3, <1>4 DEF WorkerStep

\* The server does not come back.
LEMMA UpBefore ==
  ASSUME NEW w, WorkerStep(w) \/ Cleanup(w)
  PROVE  server = "up"
  BY Zenon
     DEF WorkerStep, Cleanup, CleanupClose, CleanupTrace, CleanupExit, At, WorkerGoto, Dequeue,
         Dispatch, DispatchShort, Close, Okay, RecvValue, RecvEnd, TraceWrite, Store, ReadLookup,
         ReadLen, ReadTrace, ReadHeader, ReadData, Delete, TraceDelete, TraceClosed

\* dispatch: what is left of the request when its header has been read.
LEMMA HeaderRead ==
  ASSUME TypeOK, BusyInv, PlaceInv, PendingInv, NEW w \in Workers, Dispatch(w)
  PROVE  /\ conn[w] \in Clients /\ up'[conn[w]] \in {<< >>, rq[conn[w]].data}
         /\ cpc[conn[w]] \notin {"start", "header"}
         /\ cpc[conn[w]] = "data" => up'[conn[w]] = << >>
<1> DEFINE c == conn[w]
<1>1. c \in Clients /\ pc[w] = "dispatch" /\ up[c] # << >> /\ up' = [up EXCEPT ![c] = Tail(@)]
  BY Zenon DEF Dispatch, At
<1> USE <1>1
<1>2. Waiting(c) /\ rq[c].data \in Seq(Bytes)
  BY RequestType DEF Waiting
<1>3. Sent(c) /\ Quiet(c)
  BY PendingParts
<1>4. up[c] \in {<<"hdr">>, <<"hdr">> \o rq[c].data} /\ (cpc[c] = "data" => up[c] = <<"hdr">>)
  BY <1>2, <1>3 DEF Sent
<1>5. Tail(<<"hdr">>) = << >> /\ Tail(<<"hdr">> \o rq[c].data) = rq[c].data
  <2>1. Tail(<<"hdr">>) = << >>
    OBVIOUS
  <2>2. Tail(<<"hdr">> \o rq[c].data) = rq[c].data
    BY <1>2
  <2> QED BY <2>1, <2>2
<1>6. up'[c] = Tail(up[c])
  BY DEF TypeOK
<1> QED BY ZenonT(30), <1>3, <1>4, <1>5, <1>6 DEF Quiet

\* worker.c: a handler answers a client that waits for the answer.
LEMMA WorkerOwes ==
  ASSUME TypeOK, BusyInv, PlaceInv, OpInv, ReplyInv, PendingInv,
         NEW w \in Workers, WorkerStep(w) \/ Cleanup(w)
  PROVE  PendingInv'
<1>0. /\ WorkerFrame(w) /\ server = "up"
      /\ rq' = rq /\ cpc' = cpc
  BY UpBefore, WorkerLeaves
<1> USE <1>0
<1>i. /\ \A d \in Clients : Owes(d) /\ Quiet(d) /\ Sent(d)
      /\ \A v \in Workers : Stays(v) /\ Handled(v)
  BY PendingParts
<1> USE <1>i
<1>1. ASSUME NEW c \in Clients, down[c].st # "none"
      PROVE  down'[c].st # "none"
  <2> USE <1>1
  <2>1. CASE c # conn[w] \/ UNCHANGED down
    BY <2>1 DEF WorkerFrame
  <2>2. CASE c = conn[w] /\ ReplyStep(w)
    <3>0. pc[w] = "r_data" => down[c] = [st |-> "K", len |-> size[w], data |-> << >>]
      BY <2>2 DEF ReplyInv
    <3>1. down[c] \in Replies /\ (pc[w] = "r_data" => down[c].st = "K")
      BY <3>0 DEF TypeOK
    <3>2. \A x : [down[c] EXCEPT !.data = x].st = down[c].st
      BY <3>1 DEF Replies
    <3>3. [down[c] EXCEPT !.st = "K"].st = "K"
      BY <3>1 DEF Replies
    <3>4. CASE down'[c] = [down[c] EXCEPT !.data = BytesAt(w)]
      BY <3>2, <3>4
    <3>5. CASE down'[c] = [down[c] EXCEPT !.st = "K"]
      BY <3>3, <3>5
    <3>6. CASE UNCHANGED down \/ down'[c].st \in {"K", "X"}
      BY <3>6
    <3> QED BY <2>2, <3>4, <3>5, <3>6, SMTT(20) DEF ReplyStep
  <2> QED BY <2>1, <2>2, ReplySteps DEF Dequeue, Close, sockets
<1>2. ASSUME NEW c \in Clients
      PROVE  Owes(c)' /\ Sent(c)'
  BY <1>1, WorkerHolds DEF Owes, Sent
<1>3. ASSUME NEW c \in Clients
      PROVE  Quiet(c)'
  <2>1. c # conn[w] => up'[c] = up[c]
    BY DEF WorkerFrame
  <2>2. Dispatch(w) \/ RecvValue(w) => up[conn[w]] # << >>
    BY DEF Dispatch, RecvValue
  <2> QED BY <2>1, <2>2, WorkerReads DEF Quiet
<1>4. ASSUME NEW v \in Workers, v # w
      PROVE  Stays(v)' /\ Handled(v)'
  BY <1>4, OthersSame, ServesClient, SMTT(20) DEF Stays, Handled
<1>5. Stays(w)'
  <2> SUFFICES ASSUME pc'[w] = "r_data"
               PROVE  cpc[conn'[w]] # "done"
    BY DEF Stays
  <2>0. ~Dequeue(w) /\ ~Close(w)
    BY DEF Dequeue, Close, WorkerGoto, At, TypeOK, Threads
  <2>1. conn' = conn /\ ReplyStep(w)
    BY <2>0, WorkerMoves, ReplySteps
  <2> USE <2>1
  <2>2. CASE pc[w] = "r_data"
    BY <2>2 DEF Stays
  <2>3. CASE pc[w] = "r_header"
    <3> USE <2>3
    <3>1. conn[w] \in Clients /\ Held(conn[w])
      BY ServesClient DEF Held
    <3>2. down[conn[w]].st = "none"
      BY <3>1, NoReplyYet DEF NoReply
    <3>3. rq[conn[w]].op = "R"
      BY DEF OpInv
    <3> QED BY <3>1, <3>2, <3>3 DEF Owes
  <2> QED BY <2>2, <2>3 DEF ReplyStep
<1>6. Handled(w)'
  <2> SUFFICES ASSUME pc'[w] \notin {"idle", "dispatch", "close"}
               PROVE  cpc[conn'[w]] \notin {"start", "header"} /\ up'[conn'[w]] \in Seq(Bytes)
    BY DEF Handled
  <2>0. ~Dequeue(w) /\ ~Close(w)
    BY DEF Dequeue, Close, WorkerGoto, At, TypeOK, Threads
  <2>1. conn' = conn /\ pc[w] \notin {"idle", "close"}
    BY <2>0, WorkerMoves
  <2> USE <2>1
  <2>2. CASE Dispatch(w)
    <3>1. << >> \in Seq(Bytes)
      OBVIOUS
    <3>2. rq[conn[w]].data \in Seq(Bytes)
      BY <2>2, HeaderRead, RequestType
    <3> QED BY Zenon, <2>2, <3>1, <3>2, HeaderRead
  <2>3. CASE UNCHANGED up /\ (pc[w] = "dispatch" => pc'[w] = "close")
    BY <2>3 DEF Handled
  <2>4. CASE RecvValue(w)
    <3>1. conn[w] \in Clients /\ pc[w] = "w_recv"
      BY <2>4, ServesClient DEF RecvValue, At
    <3>2. up[conn[w]] \in Seq(Bytes) /\ cpc[conn[w]] \notin {"start", "header"}
      BY <3>1 DEF Handled
    <3>3. PICK k \in 1..Len(up[conn[w]]) :
            up' = [up EXCEPT ![conn[w]] = SubSeq(up[conn[w]], k + 1, Len(up[conn[w]]))]
      BY Zenon, <2>4 DEF RecvValue
    <3>4. SubSeq(up[conn[w]], k + 1, Len(up[conn[w]])) \in Seq(Bytes)
      BY <3>2
    <3> QED BY <3>1, <3>2, <3>3, <3>4 DEF TypeOK
  <2> QED BY <2>2, <2>3, <2>4, WorkerReads
<1> QED BY <1>2, <1>3, <1>4, <1>5, <1>6, PendingParts

\* Every step keeps what is owed.
LEMMA PendingKeeps ==
  ASSUME TypeOK, BusyInv, PlaceInv, OpInv, ReplyInv, ClientInv, PendingInv, [Next]_vars
  PROVE  PendingInv'
<1>1. CASE UNCHANGED vars
  BY <1>1 DEF vars, table, process, tasks, locals, clients, sockets, PendingInv, Waiting, Queued
<1>2. CASE Listen \/ ListenBad \/ AdminQuit \/ Cleanup(Admin)
  <2>1. /\ \A d \in Clients : Owes(d) /\ Quiet(d) /\ Sent(d)
        /\ \A w \in Workers : Stays(w) /\ Handled(w)
    BY PendingParts
  <2>2. /\ \A d \in Clients : Owes(d)' /\ Quiet(d)' /\ Sent(d)'
        /\ \A w \in Workers : Stays(w)' /\ Handled(w)'
    BY <1>2, <2>1, ListenHolds, SMTT(20) DEF Owes, Quiet, Sent, Stays, Handled
  <2> QED BY <2>2, PendingParts
<1> QED BY <1>1, <1>2, ClientOwes, WorkerOwes DEF Next, Threads
-----------------------------------------------------------------------------
(* Pointers, and the end of the process.                                   *)

\* dbserver.c, cleanup: who closed the socket and the file has not left cleanup.
CleanupInv ==
  /\ ~listenOpen => \E t \in Threads : pc[t] \in {"c_trace", "c_exit"}
  /\ ~traceOpen => \E t \in Threads : pc[t] = "c_exit"

\* handle_read: the pointer is a buffer of the store.
LEMMA PtrKeeps ==
  ASSUME TypeOK, BusyInv, PlaceInv, StoreTypes, PtrInv, [Next]_vars
  PROVE  PtrInv'
<1>1. CASE UNCHANGED <<pc, ptr>>
  BY <1>1 DEF PtrInv
<1>2. ASSUME NEW w \in Workers, WorkerStep(w) \/ Cleanup(w)
      PROVE  PtrInv'
  <2> USE DEF At, WorkerGoto, table, process, tasks, locals, clients, sockets, RespFail, Reading
  <2>0. pc \in [Threads -> WorkerLabels] /\ w \in Threads /\ ptr \in [Workers -> Bufs \cup {NULL}]
    BY DEF TypeOK, Threads
  <2> USE <2>0
  <2>1. pc'[w] \in Reading => ptr'[w] \in Bufs
    <3>1. CASE Dequeue(w) \/ Close(w) \/ Okay(w) \/ Dispatch(w) \/ DispatchShort(w)
      BY <3>1 DEF Dequeue, Close, Okay, Dispatch, DispatchShort, Entry
    <3>2. CASE RecvValue(w) \/ RecvEnd(w) \/ TraceWrite(w) \/ Store(w)
      BY <3>2 DEF RecvValue, RecvEnd, TraceWrite, Store
    <3>3. CASE ReadLen(w) \/ ReadTrace(w) \/ ReadHeader(w) \/ ReadData(w)
      BY <3>3 DEF ReadLen, ReadTrace, ReadHeader, ReadData, PtrInv
    <3>4. CASE Delete(w) \/ TraceDelete(w) \/ TraceClosed(w) \/ Cleanup(w)
      BY <3>4 DEF Delete, TraceDelete, TraceClosed, Cleanup, CleanupClose,
                        CleanupTrace, CleanupExit, PtrInv
    <3>5. CASE ReadLookup(w)
      <4>1. conn[w] \in Clients /\ rq[conn[w]].key \in Key
        BY <3>5, ServesClient, RequestType DEF ReadLookup
      <4> QED BY <3>5, <4>1 DEF ReadLookup, StoreTypes
    <3> QED BY <1>2, <3>1, <3>2, <3>3, <3>4, <3>5 DEF WorkerStep
  <2> QED BY <1>2, <2>1, OthersSame, SMTT(20) DEF PtrInv
<1>3. CASE AdminQuit \/ Cleanup(Admin)
  BY <1>3, AdminMoves, Zenon DEF PtrInv
<1>4. ASSUME NEW c \in Clients, ClientStep(c) \/ Kill(c)
      PROVE  PtrInv'
  BY <1>1, <1>4, ClientFrames DEF ClientFrame
<1> QED BY <1>1, <1>2, <1>3, <1>4
        DEF Next, Listen, ListenBad, vars, Threads, table, process, tasks, locals, clients, sockets

\* cleanup: nobody leaves it.
LEMMA CleanupStays ==
  ASSUME TypeOK, [Next]_vars, NEW t \in Threads
  PROVE  /\ pc[t] = "c_close" => pc'[t] \in {"c_close", "c_trace"}
         /\ pc[t] = "c_trace" => pc'[t] \in {"c_trace", "c_exit"}
         /\ pc[t] = "c_exit" => pc'[t] = "c_exit"
<1>0. pc \in [Threads -> WorkerLabels]
  BY DEF TypeOK
<1>1. CASE pc'[t] = pc[t]
  BY <1>1
<1>2. ASSUME NEW w \in Workers, WorkerStep(w)
      PROVE  pc'[t] = pc[t] \/ pc[t] \notin {"c_close", "c_trace", "c_exit"}
  <2>1. t # w => pc'[t] = pc[t]
    BY <1>2, WorkerFrames, SMTT(20) DEF Threads, WorkerFrame
  <2>2. pc[w] \notin {"c_close", "c_trace", "c_exit"}
    BY Zenon, <1>2 DEF WorkerStep, At, WorkerGoto, Dequeue, Dispatch, DispatchShort, Close, Okay,
       RecvValue, RecvEnd, TraceWrite, Store, ReadLookup, ReadLen, ReadTrace, ReadHeader,
       ReadData, Delete, TraceDelete, TraceClosed
  <2> QED BY <2>1, <2>2
<1>3. ASSUME NEW u \in Threads, Cleanup(u)
      PROVE  \/ pc'[t] = pc[t]
             \/ pc[t] = "c_close" /\ pc'[t] = "c_trace"
             \/ pc[t] = "c_trace" /\ pc'[t] = "c_exit"
  BY <1>0, <1>3 DEF Cleanup, CleanupClose, CleanupTrace, CleanupExit, At, WorkerGoto
<1>4. CASE AdminQuit
  BY <1>0, <1>4 DEF AdminQuit, WorkerGoto, At
<1>5. ASSUME NEW c \in Clients, ClientStep(c) \/ Kill(c)
      PROVE  pc'[t] = pc[t]
  BY <1>5, ClientFrames DEF ClientFrame
<1>6. CASE Listen \/ ListenBad \/ UNCHANGED vars
  BY <1>6 DEF Listen, ListenBad, vars
<1> QED BY <1>1, <1>2, <1>3, <1>4, <1>5, <1>6 DEF Next

\* Who closes the socket or the file is in cleanup, and stays there.
LEMMA CleanupKeeps ==
  ASSUME TypeOK, CleanupInv, [Next]_vars
  PROVE  CleanupInv'
<1>1. CASE UNCHANGED <<listenOpen, traceOpen>>
  BY <1>1, CleanupStays DEF CleanupInv
<1> USE <1>1
<1>2. ASSUME NEW t \in Threads, Cleanup(t)
      PROVE  CleanupInv'
  <2>0. pc \in [Threads -> WorkerLabels]
    BY DEF TypeOK
  <2>1. CASE UNCHANGED <<listenOpen, traceOpen>>
    BY <2>1
  <2>2. CASE pc'[t] = "c_trace" /\ UNCHANGED traceOpen
    BY <2>2, CleanupStays DEF CleanupInv
  <2>3. CASE pc'[t] = "c_exit" /\ UNCHANGED listenOpen
    BY <2>3, CleanupStays DEF CleanupInv
  <2> QED BY <1>2, <2>0, <2>1, <2>2, <2>3
          DEF Cleanup, CleanupClose, CleanupTrace, CleanupExit, WorkerGoto
<1>3. ASSUME NEW w \in Workers, WorkerStep(w)
      PROVE  UNCHANGED <<listenOpen, traceOpen>>
  BY Zenon, <1>3 DEF WorkerStep, Dequeue, Dispatch, DispatchShort, Close, Okay,
       RecvValue, RecvEnd, TraceWrite, Store, ReadLookup, ReadLen, ReadTrace, ReadHeader,
       ReadData, Delete, TraceDelete, TraceClosed, process
<1>4. ASSUME NEW c \in Clients, ClientStep(c) \/ Kill(c)
      PROVE  UNCHANGED <<listenOpen, traceOpen>>
  BY <1>4, ClientFrames DEF ClientFrame
<1>5. CASE Listen \/ ListenBad \/ AdminQuit \/ UNCHANGED vars
  BY <1>5 DEF Listen, ListenBad, AdminQuit, vars, process
<1> QED BY <1>2, <1>3, <1>4, <1>5 DEF Next
-----------------------------------------------------------------------------
(* What is stored.                                                         *)

\* worker.c, handle_write: when no read on a socket is short, buf is the value as soon as
\* a byte of it has arrived, and an acknowledged value has been stored.
Received(w) == size[w] = Len(buf[w]) /\ buf[w] = rq[conn[w]].data
Awaited(w) == /\ size[w] = 0 /\ Len(buf[w]) = Len(rq[conn[w]].data)
              /\ up[conn[w]] \in {<< >>, rq[conn[w]].data}
              /\ cpc[conn[w]] = "data" => up[conn[w]] = << >>
StoreInv ==
  /\ \A w \in Workers :
       /\ pc[w] = "w_recv" => Received(w) \/ Awaited(w)
       /\ pc[w] = "w_recv" /\ n[w] = "pos" => Received(w)
       /\ pc[w] = "w_trace" /\ n[w] = "pos" => buf[w] = rq[conn[w]].data
       /\ pc[w] = "w_store" => buf[w] = rq[conn[w]].data
       /\ pc[w] = "okay" /\ rq[conn[w]].op = "W" => rq[conn[w]].data \in written[rq[conn[w]].key]
  /\ \A c \in Clients : rq[c].op = "W" /\ down[c].st = "K" => rq[c].data \in written[rq[c].key]

WInv == (\A k \in Key : written[k] \subseteq Seq(Bytes)) /\ DOMAIN written = Key

\* A byte string of length 0 is empty.
LEMMA EmptySeq ==
  ASSUME NEW s \in Seq(Bytes), Len(s) = 0
  PROVE  s = << >>
  BY SMTT(20)

\* Sequences of the same length with the same elements are equal.
LEMMA SeqEqual ==
  ASSUME NEW S, NEW s \in Seq(S), NEW t \in Seq(S), Len(s) = Len(t),
         \A i \in 1..Len(s) : s[i] = t[i]
  PROVE  s = t
<1>1. DOMAIN s = 1..Len(s) /\ DOMAIN t = 1..Len(t)
  OBVIOUS
<1>2. s = [i \in DOMAIN s |-> s[i]] /\ t = [i \in DOMAIN t |-> t[i]]
  OBVIOUS
<1> QED BY <1>1, <1>2

\* kv_write is called by handle_write only.
LEMMA WorkerWrites ==
  ASSUME NEW w \in Workers, WorkerStep(w) \/ Cleanup(w), ~Store(w)
  PROVE  UNCHANGED written
  BY Zenon DEF WorkerStep, Dequeue, Dispatch, DispatchShort, Close, Okay,
       RecvValue, RecvEnd, TraceWrite, ReadLookup, ReadLen, ReadTrace, ReadHeader,
       ReadData, Delete, TraceDelete, TraceClosed, Cleanup, CleanupClose, CleanupTrace, CleanupExit

\* What was written stays written.
LEMMA WrittenGrows ==
  ASSUME TypeOK, BusyInv, WInv, [Next]_vars
  PROVE  WInv' /\ \A k \in Key : written[k] \subseteq written'[k]
<1>1. CASE UNCHANGED written
  BY <1>1 DEF WInv
<1> USE <1>1
<1>2. ASSUME NEW w \in Workers, Store(w)
      PROVE  WInv' /\ \A k \in Key : written[k] \subseteq written'[k]
  <2>1. conn[w] \in Clients /\ rq[conn[w]].key \in Key /\ buf[w] \in Seq(Bytes)
    BY Zenon, <1>2, ServesClient, RequestType DEF Store, At, TypeOK
  <2>2. CASE written' = [written EXCEPT ![rq[conn[w]].key] = @ \cup {buf[w]}]
    BY <2>1, <2>2 DEF WInv
  <2> QED BY <1>2, <2>2 DEF Store
<1>3. ASSUME NEW c \in Clients, ClientStep(c) \/ Kill(c)
      PROVE  UNCHANGED written
  BY <1>3, ClientFrames DEF ClientFrame
<1>4. CASE Listen \/ ListenBad \/ AdminQuit \/ Cleanup(Admin) \/ UNCHANGED vars
  BY <1>4, AdminMoves DEF Listen, ListenBad, vars
<1> QED BY <1>2, <1>3, <1>4, WorkerWrites DEF Next, Threads

\* The parts of StoreInv.
Value(w) == /\ pc[w] = "w_recv" => Received(w) \/ Awaited(w)
            /\ pc[w] = "w_recv" /\ n[w] = "pos" => Received(w)
            /\ pc[w] = "w_trace" /\ n[w] = "pos" => buf[w] = rq[conn[w]].data
            /\ pc[w] = "w_store" => buf[w] = rq[conn[w]].data
            /\ pc[w] = "okay" /\ rq[conn[w]].op = "W" =>
                 rq[conn[w]].data \in written[rq[conn[w]].key]
Ack(c) == rq[c].op = "W" /\ down[c].st = "K" => rq[c].data \in written[rq[c].key]

\* do_set: the client sends its value once, and only after its request.
LEMMA ClientSends ==
  ASSUME TypeOK, NEW c \in Clients, ClientStep(c) \/ Kill(c), cpc[c] \notin {"start", "header"}
  PROVE  \/ up'[c] = up[c] /\ cpc'[c] # "data"
         \/ cpc[c] = "data" /\ cpc'[c] # "data" /\ up'[c] = up[c] \o rq[c].data
  BY DEF ClientStep, Connect, SendHeader, SendData, ReadReply, RecvData, Kill, ClientGoto,
         sockets, TypeOK

\* What a client does keeps what its worker has received.
LEMMA ClientStores ==
  ASSUME TypeOK, BusyInv, PlaceInv, PendingInv, NEW c \in Clients, ClientStep(c) \/ Kill(c),
         NEW w \in Workers, Value(w)
  PROVE  Value(w)'
<1>0. ClientFrame(c) /\ rq' = rq /\ pc' = pc /\ conn' = conn /\ size' = size /\ buf' = buf
      /\ n' = n /\ written' = written
  BY ClientFrames DEF ClientFrame
<1> USE <1>0
<1>1. pc[w] # "w_recv" => Value(w)'
  BY DEF Value
<1>2. ASSUME pc[w] = "w_recv"
      PROVE  /\ Received(w)' <=> Received(w)
             /\ Awaited(w) => Awaited(w)'
  <2>1. Received(w)' <=> Received(w)
    BY DEF Received
  <2>2. conn[w] \in Clients
    BY <1>2, ServesClient
  <2>3. CASE conn[w] # c
    BY <2>1, <2>2, <2>3 DEF Awaited, ClientFrame
  <2>4. CASE conn[w] = c
    <3>1. cpc[c] \notin {"start", "header"} /\ rq[c].data \in Seq(Bytes)
      BY <1>2, <2>4, RequestType DEF PendingInv
    <3>2. << >> \o rq[c].data = rq[c].data
      BY <3>1
    <3>3. Awaited(w) => Awaited(w)'
      BY Zenon, <2>4, <3>1, <3>2, ClientSends DEF Awaited
    <3> QED BY <2>1, <3>3
  <2> QED BY <2>3, <2>4
<1>3. pc[w] = "w_recv" => Value(w)'
  BY <1>2 DEF Value
<1> QED BY <1>1, <1>3

\* handle_write: the value arrives whole.
LEMMA WorkerReceives ==
  ASSUME ~PartialReads, TypeOK, BusyInv, NEW w \in Workers, Value(w), RecvValue(w)
  PROVE  Value(w)'
<1> DEFINE c == conn[w]
<1>1. pc[w] = "w_recv" /\ size[w] < Len(buf[w]) /\ up[c] # << >>
      /\ UNCHANGED <<pc, conn, rq>> /\ c \in Clients
  BY ServesClient DEF RecvValue, At, clients
<1> USE <1>1
<1>2. size[w] \in Nat /\ buf[w] \in Seq(Bytes) /\ rq[c].data \in Seq(Bytes)
  BY RequestType, Types DEF SizeType, BufType
<1> USE <1>2
<1>3. ~Received(w)
  BY DEF Received
<1>4. size[w] = 0 /\ Len(buf[w]) = Len(rq[c].data) /\ up[c] = rq[c].data
  BY <1>3 DEF Value, Awaited
<1>5. /\ buf' = [buf EXCEPT ![w] = [i \in 1..Len(buf[w]) |->
                                      IF i <= Len(up[c]) THEN up[c][i] ELSE buf[w][i]]]
      /\ size' = [size EXCEPT ![w] = size[w] + Len(up[c])]
  BY ZenonT(30) DEF RecvValue
<1> DEFINE b == [i \in 1..Len(buf[w]) |-> IF i <= Len(up[c]) THEN up[c][i] ELSE buf[w][i]]
<1>6. b = rq[c].data
  <2>1. b = [i \in 1..Len(rq[c].data) |-> rq[c].data[i]]
    BY <1>4, SMTT(20)
  <2>2. b \in Seq(Bytes) /\ Len(b) = Len(rq[c].data)
        /\ \A i \in 1..Len(b) : b[i] = rq[c].data[i]
    <3> HIDE DEF b
    <3> QED BY <2>1, SMTT(20)
  <2> HIDE DEF b
  <2> QED BY <2>2, SeqEqual
<1>7. buf'[w] = rq[c].data /\ size'[w] = Len(rq[c].data)
  <2>1. w \in DOMAIN buf /\ w \in DOMAIN size
    BY Types DEF SizeType, BufType
  <2>2. buf'[w] = b /\ size'[w] = size[w] + Len(up[c])
    <3> HIDE DEF b
    <3>1. buf' = [buf EXCEPT ![w] = b]
      BY <1>5 DEF b
    <3> QED BY <1>5, <2>1, <3>1
  <2> HIDE DEF b
  <2> QED BY <1>4, <1>6, <2>2
<1>8. Received(w)'
  BY <1>7 DEF Received
<1> QED BY <1>8 DEF Value

\* dispatch: a handler of a 'W' starts with an empty buffer of the right length.
LEMMA WorkerAwaits ==
  ASSUME TypeOK, BusyInv, PlaceInv, PendingInv, NEW w \in Workers, Dispatch(w)
  PROVE  Value(w)'
<1> DEFINE c == conn[w]
<1>1. c \in Clients /\ UNCHANGED <<conn, rq, cpc>> /\ w \in Threads
  BY DEF Dispatch, clients, Threads
<1> USE <1>1
<1>2. rq[c].data \in Seq(Bytes)
  BY RequestType
<1>3. /\ pc'[w] \in {"close", "w_recv", "r_lookup", "d_delete", "c_close"}
      /\ size'[w] = 0 /\ buf'[w] = [i \in 1..Len(rq[c].data) |-> Garbage]
      /\ n'[w] = "pos" => rq[c].data = << >>
  <2>1. pc'[w] \in {"close", "w_recv", "r_lookup", "d_delete", "c_close"}
    BY DEF Dispatch, Entry, RespFail, TypeOK
  <2>2. size'[w] = 0 /\ buf'[w] = [i \in 1..Len(rq[c].data) |-> Garbage]
    BY DEF Dispatch, TypeOK
  <2>3. n'[w] = "pos" => rq[c].data = << >>
    BY DEF Dispatch, TypeOK
  <2> QED BY <2>1, <2>2, <2>3
<1> USE <1>3
<1>4. Len(buf'[w]) = Len(rq[c].data)
  BY <1>2, SMTT(20)
<1>5. Awaited(w)'
  BY <1>4, HeaderRead DEF Awaited
<1>6. rq[c].data = << >> => Received(w)'
  <2>1. ASSUME rq[c].data = << >>
        PROVE  buf'[w] = << >> /\ Len(buf'[w]) = 0
    BY <1>4, <2>1, SMTT(20)
  <2> QED BY <2>1 DEF Received
<1> QED BY <1>5, <1>6 DEF Value
\* handle_write: what is stored and acknowledged is the value of the client.
LEMMA WorkerStores ==
  ASSUME ~PartialReads, TypeOK, BusyInv, PlaceInv, OpInv, PendingInv, WInv,
         NEW w \in Workers, Value(w), WorkerStep(w) \/ Cleanup(w)
  PROVE  Value(w)'
<1> USE DEF table, process, tasks, locals, clients, sockets, At, WorkerGoto, RespFail
<1>0. pc \in [Threads -> WorkerLabels] /\ w \in Threads /\ n \in [Workers -> Signs]
  BY DEF TypeOK, Threads
<1> USE <1>0
<1>1. ASSUME pc'[w] \notin {"w_recv", "w_trace", "w_store", "okay"}
      PROVE  Value(w)'
  BY <1>1 DEF Value
<1> USE <1>1
<1>2. CASE Dequeue(w) \/ Close(w) \/ Okay(w) \/ DispatchShort(w)
  BY <1>2 DEF Dequeue, Close, Okay, DispatchShort
<1>3. CASE ReadLookup(w) \/ ReadLen(w) \/ ReadTrace(w) \/ ReadHeader(w) \/ ReadData(w) \/ Delete(w)
  BY <1>3 DEF ReadLookup, ReadLen, ReadTrace, ReadHeader, ReadData, Delete
<1>4. CASE Cleanup(w)
  BY <1>4 DEF Cleanup, CleanupClose, CleanupTrace, CleanupExit
<1>5. CASE RecvEnd(w)
  <2>1. /\ pc[w] = "w_recv" /\ pc'[w] = "w_trace" /\ UNCHANGED <<conn, buf, rq>>
        /\ n'[w] = "pos" => n[w] = "pos"
    BY <1>5 DEF RecvEnd
  <2> QED BY <2>1 DEF Value, Received
<1>6. CASE TraceWrite(w)
  <2>1. /\ pc[w] = "w_trace" /\ UNCHANGED <<conn, buf, rq>>
        /\ pc'[w] = "close" \/ (pc'[w] = "w_store" /\ n[w] = "pos")
    BY <1>6 DEF TraceWrite
  <2> QED BY <2>1 DEF Value
<1>7. CASE Store(w)
  <2>1. /\ pc[w] = "w_store" /\ UNCHANGED <<conn, buf, rq>>
        /\ \/ pc'[w] = "close"
           \/ /\ pc'[w] = "okay"
              /\ written' = [written EXCEPT ![rq[conn[w]].key] = @ \cup {buf[w]}]
    BY <1>7 DEF Store
  <2>2. conn[w] \in Clients /\ rq[conn[w]].key \in Key
    BY <2>1, ServesClient, RequestType
  <2> QED BY <2>1, <2>2 DEF Value, WInv
<1>8. CASE TraceDelete(w)
  <2>1. pc'[w] = "okay" /\ UNCHANGED <<conn, rq>> /\ rq[conn[w]].op = "D"
    BY <1>8 DEF TraceDelete, OpInv
  <2> QED BY <2>1 DEF Value
<1>9. CASE TraceClosed(w)
  BY <1>9 DEF TraceClosed, Value, Received, Awaited
<1> QED BY <1>2, <1>3, <1>4, <1>5, <1>6, <1>7, <1>8, <1>9, WorkerAwaits, WorkerReceives
           DEF WorkerStep

\* resp_okay: an acknowledged value has been stored.
LEMMA WorkerAcks ==
  ASSUME TypeOK, BusyInv, PlaceInv, OpInv, ReplyInv, WInv, NEW w \in Workers, Value(w),
         WorkerStep(w) \/ Cleanup(w), \A k \in Key : written[k] \subseteq written'[k],
         NEW c \in Clients, Ack(c)
  PROVE  Ack(c)'
<1>0. WorkerFrame(w) /\ rq' = rq /\ rq[c].key \in Key
  BY WorkerLeaves, RequestType
<1> USE <1>0
<1>1. CASE down'[c].st = down[c].st
  BY <1>1 DEF Ack
<1>2. CASE c # conn[w] \/ Dequeue(w) \/ Close(w)
  BY <1>1, <1>2 DEF WorkerFrame, Dequeue, Close, sockets
<1>3. CASE c = conn[w] /\ ~Dequeue(w) /\ ~Close(w)
  <2> USE <1>3
  <2>1. ReplyStep(w) /\ down[c] \in Replies
    BY ReplySteps DEF TypeOK
  <2>2. CASE UNCHANGED down
    BY <1>1, <2>2
  <2>3. CASE down'[c] = [st |-> "X", len |-> 0, data |-> << >>]
    BY <2>3 DEF Ack
  <2>4. CASE pc[w] = "okay"
    BY <2>4 DEF Value, Ack
  <2>5. CASE pc[w] \in {"r_header", "r_data"}
    BY <2>5 DEF OpInv, Ack
  <2> QED BY <2>1, <2>2, <2>3, <2>4, <2>5 DEF ReplyStep
<1> QED BY <1>2, <1>3

\* Every step keeps it.
LEMMA StoreKeeps ==
  ASSUME ~PartialReads, TypeOK, BusyInv, PlaceInv, OpInv, ReplyInv, PendingInv, WInv, StoreInv,
         [Next]_vars
  PROVE  StoreInv'
<1>0. \A k \in Key : written[k] \subseteq written'[k]
  BY WrittenGrows
<1>i. (\A w \in Workers : Value(w)) /\ (\A c \in Clients : Ack(c))
  BY DEF StoreInv, Value, Ack
<1> USE <1>i
<1>j. ASSUME \A w \in Workers : Value(w)', \A c \in Clients : Ack(c)'
      PROVE  StoreInv'
  BY <1>j DEF StoreInv, Value, Ack
<1>1. CASE /\ UNCHANGED <<conn, buf, n, size, cpc, rq, up, down, written>>
           /\ \A w \in Workers : pc'[w] = pc[w]
  BY <1>1 DEF StoreInv, Received, Awaited
<1>2. ASSUME NEW w \in Workers, WorkerStep(w) \/ Cleanup(w)
      PROVE  StoreInv'
  <2> USE <1>2
  <2>1. Value(w)'
    BY WorkerStores
  <2>2. \A c \in Clients : Ack(c)'
    BY <1>0, WorkerAcks
  <2>3. ASSUME NEW v \in Workers, v # w
        PROVE  Value(v)'
    <3>1. CASE pc[v] \in {"w_recv", "w_trace", "w_store", "okay"}
      <4>1. conn[v] \in Clients /\ rq[conn[v]].key \in Key
        BY <3>1, ServesClient, RequestType
      <4>2. rq' = rq /\ cpc' = cpc
        BY WorkerLeaves
      <4>3. /\ pc'[v] = pc[v] /\ conn'[v] = conn[v] /\ buf'[v] = buf[v] /\ n'[v] = n[v]
            /\ size'[v] = size[v] /\ up'[conn[v]] = up[conn[v]]
        BY <2>3, <4>1, OthersSame, SMTT(20)
      <4>4. Value(v)
        OBVIOUS
      <4> QED BY <1>0, <4>1, <4>2, <4>3, <4>4 DEF Value, Received, Awaited
    <3>2. CASE pc[v] \notin {"w_recv", "w_trace", "w_store", "okay"}
      <4>1. pc'[v] = pc[v]
        BY <2>3, OthersSame
      <4> QED BY <3>2, <4>1 DEF Value
    <3> QED BY <3>1, <3>2
  <2> QED BY <1>j, <2>1, <2>2, <2>3
<1>3. CASE AdminQuit \/ Cleanup(Admin) \/ Listen \/ ListenBad
  BY <1>1, <1>3, ListenHolds
<1>4. ASSUME NEW c \in Clients, ClientStep(c) \/ Kill(c)
      PROVE  StoreInv'
  <2>1. \A w \in Workers : Value(w)'
    BY <1>4, ClientStores
  <2>2. \A d \in Clients : Ack(d)'
    BY <1>4, ClientFrames DEF ClientFrame, Ack
  <2> QED BY <1>j, <2>1, <2>2
<1> QED BY <1>1, <1>2, <1>3, <1>4
        DEF Next, vars, Threads, table, process, tasks, locals, clients, sockets
-----------------------------------------------------------------------------
(* What is read, with one worker.                                          *)

\* with one worker, a pointer of handle_read leads to a value that was stored under the key.
WrittenInv ==
  /\ \A i \in UsedSlots : heap[values[i]] \in written[keys[i].key]
  /\ \A w \in Workers : pc[w] \in Reading =>
       /\ Live(ptr[w])
       /\ heap[ptr[w]] \in written[rq[conn[w]].key]
       /\ pc[w] # "r_len" => size[w] = Len(heap[ptr[w]])
  /\ \A c \in Clients : rq[c].op = "R" /\ down[c].st = "K"
                        /\ (\A w \in Workers : conn[w] = c => pc[w] # "r_data")
                        => down[c].data \in written[rq[c].key]

\* find_key: the slot that is found is used and has the key.
Found == \A k \in Key : find_key(k) >= 0 =>
           find_key(k) \in UsedSlots /\ keys[find_key(k)].key = k

\* The parts of WrittenInv.
SlotsWritten == \A i \in UsedSlots : heap[values[i]] \in written[keys[i].key]
ReadsLive(w) == pc[w] \in Reading =>
                  /\ Live(ptr[w])
                  /\ heap[ptr[w]] \in written[rq[conn[w]].key]
                  /\ pc[w] # "r_len" => size[w] = Len(heap[ptr[w]])
RightReply(c) == rq[c].op = "R" /\ down[c].st = "K"
                 /\ (\A w \in Workers : conn[w] = c => pc[w] # "r_data")
                 => down[c].data \in written[rq[c].key]

\* handle_read: what the worker looks at is a value that was stored under the key.
LEMMA WorkerLooks ==
  ASSUME TypeOK, BusyInv, WInv, StoreTypes, PtrInv, Found, SlotsWritten,
         NEW w \in Workers, ReadsLive(w), WorkerStep(w) \/ Cleanup(w)
  PROVE  ReadsLive(w)'
<1> USE DEF table, process, tasks, locals, clients, sockets, At, WorkerGoto, RespFail, Reading
<1>0. pc \in [Threads -> WorkerLabels] /\ w \in Threads /\ ptr \in [Workers -> Bufs \cup {NULL}]
      /\ size \in [Workers -> Nat]
  BY DEF TypeOK, Threads
<1> USE <1>0
<1>1. ASSUME pc'[w] \notin Reading
      PROVE  ReadsLive(w)'
  BY <1>1 DEF ReadsLive
<1> USE <1>1
<1>2. CASE Dequeue(w) \/ Close(w) \/ Okay(w) \/ Dispatch(w) \/ DispatchShort(w)
  BY ZenonT(30), <1>2 DEF Dequeue, Close, Okay, Dispatch, DispatchShort, Entry
<1>3. CASE RecvValue(w) \/ RecvEnd(w) \/ TraceWrite(w) \/ Store(w)
  BY <1>3 DEF RecvValue, RecvEnd, TraceWrite, Store
<1>4. CASE Delete(w) \/ TraceDelete(w)
  BY <1>4, Zenon DEF Delete, TraceDelete
<1>5. CASE ReadTrace(w) \/ ReadHeader(w) \/ ReadData(w) \/ TraceClosed(w)
  BY <1>5 DEF ReadTrace, ReadHeader, ReadData, TraceClosed, ReadsLive, Live
<1>6. CASE Cleanup(w)
  BY <1>6 DEF Cleanup, CleanupClose, CleanupTrace, CleanupExit
<1>7. CASE ReadLen(w)
  <2>1. /\ pc[w] = "r_len" /\ pc'[w] = "r_trace" /\ UNCHANGED <<ptr, heap, written, rq, conn>>
        /\ Live(ptr[w]) => size'[w] = Len(heap[ptr[w]])
    BY <1>7 DEF ReadLen
  <2> QED BY <2>1, Zenon DEF ReadsLive, Live
<1>8. CASE ReadLookup(w)
  <2>1. conn[w] \in Clients /\ rq[conn[w]].key \in Key
    BY <1>8, ServesClient, RequestType DEF ReadLookup
  <2> DEFINE k == rq[conn[w]].key
             i == find_key(k)
  <2>2. CASE pc'[w] = "r_len" /\ i >= 0 /\ ptr'[w] = values[i] /\ UNCHANGED <<heap, written, rq, conn>>
    <3>1. i \in UsedSlots /\ keys[i].key = k
      BY <2>1, <2>2 DEF Found
    <3>2. heap[values[i]] \in written[k]
      BY <3>1 DEF SlotsWritten
    <3>3. Missing \notin written[k]
      BY <2>1, TableAssumption DEF WInv
    <3> QED BY <2>2, <3>2, <3>3, Zenon DEF ReadsLive, Live
  <2>3. CASE pc'[w] = "close"
    BY <2>3
  <2> QED BY <1>8, <2>2, <2>3 DEF ReadLookup, kv_read
<1> QED BY <1>2, <1>3, <1>4, <1>5, <1>6, <1>7, <1>8 DEF WorkerStep

\* resp_okay: what the worker sends is the value.
LEMMA SendsValue ==
  ASSUME TypeOK, WInv, StoreTypes, PtrInv, NEW w \in Workers, ReadsLive(w), pc[w] = "r_data"
  PROVE  BytesAt(w) = heap[ptr[w]]
<1>1. ptr[w] \in Bufs /\ Live(ptr[w]) /\ size[w] = Len(heap[ptr[w]])
  BY DEF ReadsLive, PtrInv, Reading
<1>2. heap[ptr[w]] \in Seq(Bytes)
  BY <1>1 DEF StoreTypes, Live
<1> USE <1>2
<1> DEFINE h == heap[ptr[w]]
<1>3. BytesAt(w) = [i \in 1..Len(h) |-> h[i]]
  BY <1>1 DEF BytesAt
<1>4. BytesAt(w) \in Seq(Bytes) /\ Len(BytesAt(w)) = Len(h) /\ \A i \in 1..Len(h) : BytesAt(w)[i] = h[i]
  BY <1>3, SMTT(20)
<1> QED BY <1>4, SeqEqual

\* A client gets the value that its worker looked up.
LEMMA WorkerReplies ==
  ASSUME OneWorker, TypeOK, BusyInv, PlaceInv, OpInv, ReplyInv, WInv, StoreTypes, PtrInv,
         NEW w \in Workers, ReadsLive(w), WorkerStep(w) \/ Cleanup(w),
         \A k \in Key : written[k] \subseteq written'[k],
         NEW c \in Clients, RightReply(c)
  PROVE  RightReply(c)'
<1>0. WorkerFrame(w) /\ rq' = rq /\ rq[c].key \in Key
  BY WorkerLeaves, RequestType
<1> USE <1>0
<1>1. \A v \in Workers : v = w
  BY Zenon DEF OneWorker, TypeOK
<1> USE <1>1
<1>2. CASE c # conn[w]
  BY <1>2 DEF WorkerFrame, RightReply
<1>3. CASE c = conn[w] /\ Close(w)
  BY <1>3 DEF RightReply, Close, WorkerGoto, At
<1>4. CASE c = conn[w] /\ Dequeue(w)
  BY <1>4, ClientsAssumption DEF Dequeue, WorkerGoto, At, BusyInv
<1>5. CASE c = conn[w] /\ ~Dequeue(w) /\ ~Close(w)
  <2> USE <1>5
  <2>1. ReplyStep(w) /\ down[c] \in Replies /\ conn' = conn
    BY Zenon, ReplySteps, WorkerMoves DEF TypeOK
  <2> USE <2>1
  <2>2. CASE UNCHANGED down /\ (pc[w] = "r_data" => pc'[w] = "r_data")
    BY <2>2, Zenon DEF RightReply
  <2>3. CASE down'[c] = [st |-> "X", len |-> 0, data |-> << >>]
    <3>1. down'[c].st = "X"
      BY <2>3
    <3> QED BY Zenon, <3>1 DEF RightReply
  <2>4. CASE pc[w] = "okay"
    BY <2>4 DEF OpInv, RightReply
  <2>5. CASE /\ pc[w] = "r_header" /\ pc'[w] = IF size[w] > 0 THEN "r_data" ELSE "close"
             /\ size[w] \in Nat
             /\ down'[c] = [st |-> "K", len |-> size[w], data |-> << >>]
    <3> USE <2>5
    <3>1. CASE size[w] > 0
      BY <3>1 DEF RightReply
    <3>2. CASE size[w] = 0
      <4>1. /\ ptr[w] \in Bufs /\ Live(ptr[w]) /\ Len(heap[ptr[w]]) = 0
            /\ heap[ptr[w]] \in written[rq[c].key]
        BY <3>2, Zenon DEF ReadsLive, PtrInv, Reading
      <4> USE <4>1
      <4>2. heap[ptr[w]] = << >>
        <5>1. heap[ptr[w]] \in Seq(Bytes)
          BY DEF StoreTypes, Live
        <5> QED BY <4>1, <5>1, EmptySeq
      <4>3. down'[c].data = heap[ptr[w]]
        BY <4>2
      <4>4. heap[ptr[w]] \in written'[rq[c].key]
        BY <4>1
      <4> QED BY <4>3, <4>4, ZenonT(20) DEF RightReply
    <3> QED BY <3>1, <3>2
  <2>6. CASE pc[w] = "r_data" /\ down'[c] = [down[c] EXCEPT !.data = BytesAt(w)]
    <3>1. heap[ptr[w]] \in written[rq[c].key] /\ BytesAt(w) = heap[ptr[w]]
      BY <2>6, SendsValue DEF ReadsLive, Reading
    <3>2. down'[c].data = BytesAt(w)
      BY <2>6 DEF Replies
    <3> QED BY <3>1, <3>2 DEF RightReply
  <2> QED BY <2>2, <2>3, <2>4, <2>5, <2>6 DEF ReplyStep
<1> QED BY <1>2, <1>3, <1>4, <1>5

\* With one worker every step keeps the readers right, if the store keeps its slots right.
LEMMA WrittenKeeps ==
  ASSUME OneWorker, TypeOK, BusyInv, PlaceInv, OpInv, ReplyInv, WInv, StoreTypes, PtrInv, Found,
         WrittenInv, [Next]_vars, SlotsWritten'
  PROVE  WrittenInv'
<1>0. (\A k \in Key : written[k] \subseteq written'[k]) /\ \A v, w \in Workers : v = w
  BY WrittenGrows DEF OneWorker, TypeOK
<1>i. SlotsWritten /\ (\A w \in Workers : ReadsLive(w)) /\ (\A c \in Clients : RightReply(c))
  BY DEF WrittenInv, SlotsWritten, ReadsLive, RightReply
<1> USE <1>i
<1>j. ASSUME \A w \in Workers : ReadsLive(w)', \A c \in Clients : RightReply(c)'
      PROVE  WrittenInv'
  BY <1>j DEF WrittenInv, SlotsWritten, ReadsLive, RightReply
<1>1. CASE /\ UNCHANGED <<conn, size, ptr, rq, down, written, heap>>
           /\ \A w \in Workers : pc'[w] = pc[w]
  BY <1>1, <1>j, SMTT(20) DEF ReadsLive, RightReply, Live
<1> USE <1>1
<1>2. ASSUME NEW w \in Workers, WorkerStep(w) \/ Cleanup(w)
      PROVE  WrittenInv'
  <2>1. ReadsLive(w)'
    BY <1>2, WorkerLooks
  <2>2. \A c \in Clients : RightReply(c)'
    BY <1>0, <1>2, WorkerReplies, Zenon
  <2>3. \A v \in Workers : ReadsLive(v)'
    BY <1>0, <2>1
  <2> QED BY <1>j, <2>2, <2>3
<1>3. CASE AdminQuit \/ Cleanup(Admin) \/ Listen \/ ListenBad
  BY <1>3, ListenHolds, Zenon
<1>4. ASSUME NEW c \in Clients, ClientStep(c) \/ Kill(c)
      PROVE  WrittenInv'
  BY <1>4, ClientFrames DEF ClientFrame
<1> QED BY <1>2, <1>3, <1>4
        DEF Next, vars, Threads, table, process, tasks, locals, clients, sockets

\* do_get: a client that has been through has the whole value.
LEMMA GotAll ==
  ASSUME TypeOK, ReplyInv, ClientInv, NEW c \in Clients,
         rq[c].op = "R", result[c] = "K", cpc[c] = "done"
  PROVE  /\ down[c].st = "K" /\ got[c] = down[c].data
         /\ \A w \in Workers : conn[w] = c => pc[w] # "r_data"
<1>1. /\ Len(got[c]) <= Len(down[c].data) /\ \A i \in 1..Len(got[c]) : got[c][i] = down[c].data[i]
      /\ down[c].st = "K" /\ len[c] = down[c].len /\ Len(got[c]) >= len[c]
  BY DEF ClientInv
<1> USE <1>1
<1>2. down[c] \in Replies /\ got[c] \in Seq(Bytes)
  BY DEF TypeOK
<1> USE <1>2
<1>3. down[c].data \in Seq(Bytes) /\ down[c].len \in Nat
  BY DEF Replies
<1> USE <1>3
<1>4. \A w \in Workers : conn[w] = c => pc[w] # "r_data"
  <2> SUFFICES ASSUME NEW w \in Workers, conn[w] = c, pc[w] = "r_data"
               PROVE  FALSE
    OBVIOUS
  <2>1. size[w] > 0 /\ down[c] = [st |-> "K", len |-> size[w], data |-> << >>]
    BY DEF ReplyInv
  <2>2. Len(down[c].data) = 0 /\ down[c].len > 0
    BY <2>1, SMTT(20)
  <2> QED BY <2>2, SMTT(20)
<1>5. Len(down[c].data) = down[c].len
  BY <1>4 DEF ReplyInv
<1>6. Len(got[c]) = Len(down[c].data)
  BY <1>5
<1>7. got[c] = down[c].data
  BY <1>6, SeqEqual
<1> QED BY <1>4, <1>7

\* worker.c: what the invariant says of readers.
LEMMA InvReadsWritten ==
  ASSUME TypeOK, ReplyInv, ClientInv, OneWorker => WrittenInv
  PROVE  ReadsWritten
<1> SUFFICES ASSUME OneWorker
             PROVE  NoUseAfterFree /\ ReadReturnsWritten
  BY DEF ReadsWritten
<1>1. NoUseAfterFree
  BY DEF WrittenInv, NoUseAfterFree, Reading
<1>2. ReadReturnsWritten
  BY GotAll DEF WrittenInv, ReadReturnsWritten
<1> QED BY <1>1, <1>2
=============================================================================
