---------------------------- MODULE DbStepProofs ----------------------------
(***************************************************************************)
(* Steps of the dbserver and its clients (lab 3): the conjuncts of the     *)
(* inductive invariant that are about types, about where a connection is   *)
(* and about requests and replies, and the lemmas about single steps.      *)
(* They hold for any number of clients, workers, keys, buffers and byte    *)
(* strings.                                                                *)
(***************************************************************************)
EXTENDS DbServer, TLAPS

\* A leaf that names no prover is tried with Zenon, then with SMT.
USE ZenonT(15), SMTT(20)

-----------------------------------------------------------------------------
(* The inductive invariant: where a connection is.                         *)

Queued(c) == \/ \E i \in 1..Len(backlog) : backlog[i] = c
             \/ \E i \in 1..Len(queue) : queue[i] = c

\* A connection that no worker has read from.
Waiting(c) == Queued(c) \/ \E w \in Workers : conn[w] = c /\ pc[w] = "dispatch"

\* dbserver.c, worker.c: a connection is in the backlog, or in the queue, or with one
\* worker, and in one place only; it has left them all when it is closed.
PlaceInv ==
  /\ \A i, j \in 1..Len(backlog) : backlog[i] = backlog[j] => i = j
  /\ \A i, j \in 1..Len(queue) : queue[i] = queue[j] => i = j \/ queue[i] = BadFd
  /\ \A i \in 1..Len(backlog), j \in 1..Len(queue) : backlog[i] # queue[j]
  /\ \A v, w \in Workers : conn[v] = conn[w] => v = w \/ conn[v] \notin Clients
  /\ \A c \in Clients : Queued(c) => \A w \in Workers : conn[w] # c
  /\ \A c \in Clients : cpc[c] = "start" \/ closed[c] =>
        ~Queued(c) /\ \A w \in Workers : conn[w] # c
  /\ \A c \in Clients : cpc[c] = "start" => ~closed[c]

\* worker.c, worker: a worker that is not idle has a connection, and a descriptor that
\* is none fails in dispatch.
BusyInv ==
  \A w \in Workers : /\ pc[w] = "idle" <=> conn[w] = NULL
                     /\ conn[w] = BadFd => pc[w] \in {"dispatch", "close"}

\* A client whose answer is not there has not ended, as long as the server is up; one
\* that only sends a 'Q' has sent it.
PendingInv ==
  /\ \A c \in Clients :
       (Waiting(c) \/ \E w \in Workers : conn[w] = c) /\ server = "up" /\ cpc[c] = "done" =>
         down[c].st # "none" \/ rq[c].op = "Q"
  /\ \A w \in Workers : pc[w] = "r_data" /\ server = "up" => cpc[conn[w]] # "done"
  /\ \A c \in Clients : cpc[c] \in {"start", "header"} => up[c] = << >>
  /\ \A c \in Clients : Waiting(c) =>
       /\ cpc[c] \notin {"header", "killed"} => up[c] # << >>
       /\ up[c] \in {<< >>, <<"hdr">>, <<"hdr">> \o rq[c].data}
       /\ cpc[c] = "data" => up[c] = <<"hdr">>
  /\ \A w \in Workers : pc[w] \notin {"idle", "dispatch", "close"} =>
       cpc[conn[w]] \notin {"start", "header"} /\ up[conn[w]] \in Seq(Bytes)

\* worker.c, handle_read: the pointer leads into the heap of the store.
Reading == {"r_len", "r_trace", "r_header", "r_data"}
PtrInv == \A w \in Workers : pc[w] \in Reading => ptr[w] \in Bufs

-----------------------------------------------------------------------------
(* Types.                                                                  *)

\* What the rest of the server relies on in the store.
StoreTypes ==
  /\ keys \in [Slots -> [stat : {0, 1}, key : Key \cup {Missing}]]
  /\ values \in [Slots -> Bufs \cup {NULL}]
  /\ heap \in [Bufs -> Seq(Bytes) \cup {Missing}]
  /\ \A k \in Key : find_key(k) >= 0 => values[find_key(k)] \in Bufs

\* TypeOK, variable by variable: a proof uses the types of the variables it is about.
ProcessType == /\ server \in {"up", "exit0", "exit1", "sigpipe", "crash"}
               /\ listenOpen \in BOOLEAN /\ traceOpen \in BOOLEAN
BacklogType == backlog \in Seq(Clients)
QueueType == queue \in Seq(Clients \cup {BadFd})
BadType == bad \in 0..MaxBadTasks
StatsType == stats \in Counts
PcType == pc \in [Threads -> WorkerLabels]
ConnType == conn \in [Workers -> Clients \cup {NULL, BadFd}]
BufType == buf \in [Workers -> Seq(Bytes)]
NType == n \in [Workers -> Signs]
SizeType == size \in [Workers -> Nat]
PtrType == ptr \in [Workers -> Bufs \cup {NULL}]
CpcType == cpc \in [Clients -> {"start", "header", "data", "await", "recv", "done", "killed"}]
RqType == rq \in [Clients -> Requests]
ResultType == result \in [Clients -> {"none", "K", "X"} \cup Ops]
GotType == got \in [Clients -> Seq(Bytes)]
LenType == len \in [Clients -> Nat]
UpType == up \in [Clients -> Seq(Bytes \cup {"hdr"})]
DownType == down \in [Clients -> Replies]
ClosedType == closed \in [Clients -> BOOLEAN]

TasksType == BacklogType /\ QueueType /\ BadType
LocalsType == BufType /\ NType /\ SizeType /\ PtrType
ClientsType == CpcType /\ RqType /\ ResultType /\ GotType /\ LenType
SocketsType == UpType /\ DownType /\ ClosedType

\* TypeOK says these things and no more.
LEMMA Types ==
  TypeOK <=> /\ ProcessType /\ BacklogType /\ QueueType /\ BadType /\ StatsType /\ PcType
             /\ ConnType /\ BufType /\ NType /\ SizeType /\ PtrType
             /\ CpcType /\ RqType /\ ResultType /\ GotType /\ LenType
             /\ UpType /\ DownType /\ ClosedType
  BY Zenon DEF TypeOK, ProcessType, BacklogType, QueueType, BadType, StatsType, PcType, ConnType,
     BufType, NType, SizeType, PtrType, CpcType, RqType, ResultType, GotType, LenType, UpType,
     DownType, ClosedType

\* The same of the next state.
LEMMA TypesNext ==
  TypeOK' <=> /\ ProcessType' /\ TasksType' /\ StatsType' /\ PcType' /\ ConnType'
              /\ LocalsType' /\ ClientsType' /\ SocketsType'
  BY Zenon DEF TypeOK, ProcessType, BacklogType, QueueType, BadType, StatsType, PcType, ConnType,
     BufType, NType, SizeType, PtrType, CpcType, RqType, ResultType, GotType, LenType, UpType,
     DownType, ClosedType, TasksType, LocalsType, ClientsType, SocketsType

\* A variable that does not change keeps its type.
LEMMA SameTypes ==
  ASSUME TypeOK
  PROVE  /\ UNCHANGED process => ProcessType'
         /\ UNCHANGED backlog => BacklogType'
         /\ UNCHANGED queue => QueueType'
         /\ UNCHANGED bad => BadType'
         /\ UNCHANGED tasks => TasksType'
         /\ UNCHANGED stats => StatsType'
         /\ UNCHANGED pc => PcType'
         /\ UNCHANGED conn => ConnType'
         /\ UNCHANGED buf => BufType'
         /\ UNCHANGED n => NType'
         /\ UNCHANGED size => SizeType'
         /\ UNCHANGED ptr => PtrType'
         /\ UNCHANGED locals => LocalsType'
         /\ UNCHANGED cpc => CpcType'
         /\ UNCHANGED rq => RqType'
         /\ UNCHANGED result => ResultType'
         /\ UNCHANGED got => GotType'
         /\ UNCHANGED len => LenType'
         /\ UNCHANGED clients => ClientsType'
         /\ UNCHANGED up => UpType'
         /\ UNCHANGED down => DownType'
         /\ UNCHANGED closed => ClosedType'
         /\ UNCHANGED sockets => SocketsType'
<1>1. UNCHANGED process => ProcessType'
  BY Types DEF ProcessType, process
<1>2. /\ UNCHANGED backlog => BacklogType'
      /\ UNCHANGED queue => QueueType'
      /\ UNCHANGED bad => BadType'
  BY Types DEF BacklogType, QueueType, BadType
<1>3. UNCHANGED tasks => TasksType'
  BY <1>2 DEF tasks, TasksType
<1>4. /\ UNCHANGED stats => StatsType'
      /\ UNCHANGED pc => PcType'
      /\ UNCHANGED conn => ConnType'
  BY Types DEF StatsType, PcType, ConnType
<1>5. /\ UNCHANGED buf => BufType'
      /\ UNCHANGED n => NType'
      /\ UNCHANGED size => SizeType'
      /\ UNCHANGED ptr => PtrType'
  BY Types DEF BufType, NType, SizeType, PtrType
<1>6. UNCHANGED locals => LocalsType'
  BY <1>5 DEF locals, LocalsType
<1>7. /\ UNCHANGED cpc => CpcType'
      /\ UNCHANGED rq => RqType'
      /\ UNCHANGED result => ResultType'
      /\ UNCHANGED got => GotType'
      /\ UNCHANGED len => LenType'
  BY Types DEF CpcType, RqType, ResultType, GotType, LenType
<1>8. UNCHANGED clients => ClientsType'
  BY <1>7 DEF clients, ClientsType
<1>9. /\ UNCHANGED up => UpType'
      /\ UNCHANGED down => DownType'
      /\ UNCHANGED closed => ClosedType'
  BY Types DEF UpType, DownType, ClosedType
<1>10. UNCHANGED sockets => SocketsType'
  BY <1>9 DEF sockets, SocketsType
<1> QED BY <1>1, <1>2, <1>3, <1>4, <1>5, <1>6, <1>7, <1>8, <1>9, <1>10

\* The request of a client.
LEMMA RequestType ==
  ASSUME TypeOK, NEW c \in Clients
  PROVE  /\ rq[c].op \in Ops /\ rq[c].key \in Key
         /\ rq[c].data \in Seq(Bytes)
         /\ rq[c].op = "W" => rq[c].data \in Strings
<1>1. rq[c] \in Requests
  BY Types DEF RqType
<1>2. rq[c].data \in Strings \cup {<< >>}
  BY <1>1 DEF Requests
<1>3. << >> \in Seq(Bytes)
  OBVIOUS
<1> QED BY Zenon, <1>1, <1>2, <1>3, StringsAssumption DEF Requests

\* A worker in a handler has a client.
LEMMA ServesClient ==
  ASSUME TypeOK, BusyInv, NEW w \in Workers, pc[w] \notin {"idle", "dispatch", "close"}
  PROVE  conn[w] \in Clients
<1>1. conn[w] \in Clients \cup {NULL, BadFd}
  BY Types DEF ConnType
<1> QED BY <1>1 DEF BusyInv

\* What nobody has written is a byte as well.
LEMMA GarbageByte == Garbage \in Bytes
  BY DEF Bytes

\* Replies have a type.
LEMMA ReplyType ==
  ASSUME NEW s \in {"none", "K", "X"}, NEW l \in Nat, NEW d \in Seq(Bytes)
  PROVE  [st |-> s, len |-> l, data |-> d] \in Replies
  BY DEF Replies

\* A thread goes from label to label.
LEMMA PcStep ==
  ASSUME TypeOK, NEW t, NEW l \in WorkerLabels, pc' = [pc EXCEPT ![t] = l]
  PROVE  PcType'
  BY Zenon, Types DEF PcType

\* What a client does keeps the types.
LEMMA ClientTypes ==
  ASSUME TypeOK, NEW c \in Clients, ClientStep(c) \/ Kill(c)
  PROVE  TypeOK'
<1>0. rq[c] \in Requests /\ rq[c].data \in Seq(Bytes) /\ rq[c].op \in Ops
  BY RequestType, Types DEF RqType
<1>d. down[c] \in Replies
  BY Types DEF DownType
<1> USE <1>d
<1>g. UNCHANGED <<process, stats, pc, conn, locals>> =>
        ProcessType' /\ StatsType' /\ PcType' /\ ConnType' /\ LocalsType'
  BY SameTypes
<1> USE <1>g
<1>c. ASSUME NEW l \in {"start", "header", "data", "await", "recv", "done", "killed"},
             cpc' = [cpc EXCEPT ![c] = l]
      PROVE  CpcType'
  BY <1>c, Types DEF CpcType
<1> USE <1>c
<1>1. CASE Connect(c)
  <2> USE <1>1
  <2>0. Append(backlog, c) \in Seq(Clients)
    BY Types DEF BacklogType
  <2>1. BacklogType'
    <3>1. backlog' = Append(backlog, c) \/ UNCHANGED backlog
      BY DEF Connect
    <3> QED BY <2>0, <3>1, SameTypes DEF BacklogType
  <2>2. CpcType'
    BY DEF Connect, ClientGoto
  <2>3. UNCHANGED <<queue, bad, rq, result, got, len, sockets, process, stats, pc, conn, locals>>
    BY DEF Connect, ServerUnchanged
  <2> QED BY <2>1, <2>2, <2>3, SameTypes, TypesNext DEF TasksType, ClientsType
<1>2. CASE SendHeader(c) \/ SendData(c)
  <2> USE <1>2
  <2>1. <<"hdr">> \in Seq(Bytes \cup {"hdr"})
    OBVIOUS
  <2>2. up[c] \o rq[c].data \in Seq(Bytes \cup {"hdr"})
    BY <1>0, Types, SMTT(20) DEF UpType
  <2>3. UpType'
    <3>1. \/ up' = [up EXCEPT ![c] = <<"hdr">>]
          \/ up' = [up EXCEPT ![c] = up[c] \o rq[c].data]
      BY Zenon DEF SendHeader, SendData
    <3> QED BY Zenon, <2>1, <2>2, <3>1, Types DEF UpType
  <2>4. CpcType'
    <3>1. CASE SendHeader(c)
      <4>1. PICK l : /\ l = CASE rq[c].op = "W" -> "data" [] rq[c].op = "Q" -> "done"
                              [] OTHER -> "await"
                     /\ cpc' = [cpc EXCEPT ![c] = l]
        BY Zenon, <3>1 DEF SendHeader, ClientGoto
      <4>2. l \in {"data", "done", "await"}
        BY <4>1
      <4> QED BY Zenon, <4>1, <4>2
    <3>2. CASE SendData(c)
      BY <3>2 DEF SendData, ClientGoto
    <3> QED BY <3>1, <3>2
  <2>5. UNCHANGED <<tasks, rq, result, got, len, down, closed, process, stats, pc, conn, locals>>
    BY Zenon DEF SendHeader, SendData, ServerUnchanged
  <2> QED BY <2>3, <2>4, <2>5, SameTypes, TypesNext DEF ClientsType, SocketsType
<1>3. CASE ReadReply(c)
  <2> USE <1>3
  <2>1. CpcType'
    BY DEF ReadReply
  <2>2. ResultType'
    <3>1. \/ result' = [result EXCEPT ![c] = down[c].st]
          \/ result' = [result EXCEPT ![c] = rq[c].op]
      BY DEF ReadReply
    <3>2. down[c].st \in {"none", "K", "X"} \cup Ops /\ rq[c].op \in {"none", "K", "X"} \cup Ops
      BY <1>0 DEF Replies
    <3> QED BY <3>1, <3>2, Types DEF ResultType
  <2>3. LenType'
    <3>1. UNCHANGED len \/ len' = [len EXCEPT ![c] = down[c].len]
      BY DEF ReadReply
    <3>2. down[c].len \in Nat
      BY DEF Replies
    <3> QED BY <3>1, <3>2, Types DEF LenType
  <2>4. UNCHANGED <<tasks, rq, got, sockets, process, stats, pc, conn, locals>>
    BY DEF ReadReply, ServerUnchanged
  <2> QED BY <2>1, <2>2, <2>3, <2>4, SameTypes, TypesNext DEF ClientsType
<1>4. CASE RecvData(c)
  <2> USE <1>4
  <2>1. GotType'
    <3>1. CASE UNCHANGED got
      BY <3>1, SameTypes
    <3>2. ASSUME NEW i \in Len(got[c])+1..Len(down[c].data),
                 got' = [got EXCEPT ![c] = SubSeq(down[c].data, 1, i)]
          PROVE  GotType'
      <4>1. got[c] \in Seq(Bytes) /\ down[c].data \in Seq(Bytes)
        BY Types DEF GotType, Replies
      <4>2. SubSeq(down[c].data, 1, i) \in Seq(Bytes)
        BY <4>1
      <4> QED BY <3>2, <4>2, Types DEF GotType
    <3> QED BY <3>1, <3>2 DEF RecvData
  <2>2. CpcType'
    <3>1. UNCHANGED cpc \/ cpc' = [cpc EXCEPT ![c] = "done"]
      BY DEF RecvData
    <3> QED BY <3>1, SameTypes
  <2>3. UNCHANGED <<tasks, rq, result, len, sockets, process, stats, pc, conn, locals>>
    BY DEF RecvData, ServerUnchanged
  <2> QED BY <2>1, <2>2, <2>3, SameTypes, TypesNext DEF ClientsType
<1>5. CASE Kill(c)
  <2>1. CpcType'
    BY <1>5 DEF Kill
  <2>2. UNCHANGED <<tasks, rq, result, got, len, sockets, process, stats, pc, conn, locals>>
    BY <1>5 DEF Kill, ServerUnchanged
  <2> QED BY <2>1, <2>2, SameTypes, TypesNext DEF ClientsType
<1> QED BY <1>1, <1>2, <1>3, <1>4, <1>5 DEF ClientStep

\* What listen_thread and the control thread do keeps the types.
LEMMA ListenTypes ==
  ASSUME TypeOK, Listen \/ ListenBad \/ AdminQuit
  PROVE  TypeOK'
<1>q. backlog \in Seq(Clients) /\ queue \in Seq(Clients \cup {BadFd}) /\ bad \in 0..MaxBadTasks
  BY Types DEF BacklogType, QueueType, BadType
<1> USE <1>q
<1>1. CASE Listen
  <2>1. Head(backlog) \in Clients /\ Tail(backlog) \in Seq(Clients)
    BY <1>1 DEF Listen
  <2>2. Append(queue, Head(backlog)) \in Seq(Clients \cup {BadFd})
    BY <2>1
  <2>3. /\ queue' = Append(queue, Head(backlog)) /\ backlog' = Tail(backlog)
        /\ UNCHANGED <<bad, pc, conn, locals, clients, sockets, process, stats>>
    BY <1>1 DEF Listen
  <2>4. BacklogType' /\ QueueType'
    BY <2>1, <2>2, <2>3 DEF BacklogType, QueueType
  <2> QED BY <2>3, <2>4, SameTypes, TypesNext DEF TasksType
<1>2. CASE ListenBad
  <2>1. Append(queue, BadFd) \in Seq(Clients \cup {BadFd})
    OBVIOUS
  <2>2. bad' \in 0..MaxBadTasks
    BY <1>2, BadAssumption DEF ListenBad
  <2>3. /\ queue' = Append(queue, BadFd)
        /\ UNCHANGED <<backlog, pc, conn, locals, clients, sockets, process, stats>>
    BY <1>2 DEF ListenBad
  <2>4. QueueType' /\ BadType'
    BY <2>1, <2>2, <2>3 DEF QueueType, BadType
  <2> QED BY <2>3, <2>4, SameTypes, TypesNext DEF TasksType
<1>3. CASE AdminQuit
  <2>1. PcType'
    BY Zenon, <1>3, PcStep DEF AdminQuit, WorkerGoto, WorkerLabels
  <2>2. UNCHANGED <<tasks, conn, locals, clients, sockets, process, stats>>
    BY <1>3 DEF AdminQuit
  <2> QED BY <2>1, <2>2, SameTypes, TypesNext
<1> QED BY <1>1, <1>2, <1>3

\* cleanup keeps the types.
LEMMA CleanupTypes ==
  ASSUME TypeOK, NEW t \in Threads, Cleanup(t)
  PROVE  TypeOK'
<1>1. PcType'
  <2>1. UNCHANGED pc \/ \E l \in {"c_trace", "c_exit"} : pc' = [pc EXCEPT ![t] = l]
    BY DEF Cleanup, CleanupClose, CleanupTrace, CleanupExit, WorkerGoto
  <2> QED BY <2>1, PcStep, SameTypes DEF WorkerLabels
<1>2. ProcessType'
  BY Zenon, Types DEF ProcessType, Cleanup, CleanupClose, CleanupTrace, CleanupExit
<1>3. UNCHANGED <<tasks, stats, conn, locals, clients, sockets>>
  BY DEF Cleanup, CleanupClose, CleanupTrace, CleanupExit
<1> QED BY <1>1, <1>2, <1>3, SameTypes, TypesNext

\* resp_fail leaves the types alone.
LEMMA RespFailTypes ==
  ASSUME TypeOK, NEW w \in Workers, NEW s \in Counts,
         RespFail(w, s)
  PROVE  PcType' /\ StatsType' /\ DownType'
<1>1. PcType'
  BY Zenon, PcStep DEF RespFail, WorkerLabels
<1>2. StatsType'
  BY SMTT(20) DEF RespFail, Counts, StatsType
<1>3. [NoReply EXCEPT !.st = "X"] \in Replies
  <2>1. [NoReply EXCEPT !.st = "X"] = [st |-> "X", len |-> 0, data |-> << >>]
    BY DEF NoReply
  <2>2. << >> \in Seq(Bytes)
    OBVIOUS
  <2>3. [st |-> "X", len |-> 0, data |-> << >>] \in Replies
    BY Zenon, <2>2, ReplyType
  <2> QED BY <2>1, <2>3
<1>4. DownType'
  BY <1>3, Types DEF RespFail, DownType
<1> QED BY <1>1, <1>2, <1>4

\* The loop around dispatch, and the replies without data, keep the types.
LEMMA LoopTypes ==
  ASSUME TypeOK, NEW w \in Workers, Dequeue(w) \/ Close(w) \/ Okay(w) \/ TraceClosed(w)
  PROVE  TypeOK'
<1>1. CASE Dequeue(w)
  <2> USE <1>1
  <2>0. queue \in Seq(Clients \cup {BadFd}) /\ queue # << >>
    BY Types DEF Dequeue, QueueType
  <2>1. Head(queue) \in Clients \cup {BadFd} /\ Tail(queue) \in Seq(Clients \cup {BadFd})
    BY <2>0
  <2>2. PcType'
    BY Zenon, PcStep DEF Dequeue, WorkerGoto, WorkerLabels
  <2>3. /\ conn' = [conn EXCEPT ![w] = Head(queue)] /\ queue' = Tail(queue)
        /\ UNCHANGED <<backlog, bad, locals, clients, sockets, process, stats>>
    BY DEF Dequeue
  <2>4. ConnType' /\ QueueType'
    BY <2>1, <2>3, Types DEF ConnType, QueueType
  <2> QED BY <2>2, <2>3, <2>4, SameTypes, TypesNext DEF TasksType
<1>2. CASE Close(w)
  <2> USE <1>2
  <2>1. PcType'
    BY Zenon, PcStep DEF Close, WorkerGoto, WorkerLabels
  <2>2. << >> \in Seq(Bytes) /\ "zero" \in Signs
    BY DEF Signs
  <2>3. ConnType' /\ PtrType'
    BY Types DEF Close, ConnType, PtrType
  <2>4. BufType' /\ NType' /\ SizeType'
    BY <2>2, Types DEF Close, BufType, NType, SizeType
  <2>5. ClosedType'
    BY Types DEF Close, ClosedType
  <2>6. UNCHANGED <<tasks, clients, up, down, process, stats>>
    BY DEF Close
  <2> QED BY <2>1, <2>3, <2>4, <2>5, <2>6, SameTypes, TypesNext DEF LocalsType, SocketsType
<1>3. CASE Okay(w)
  <2> USE <1>3
  <2>1. PcType'
    BY Zenon, PcStep DEF Okay, WorkerGoto, WorkerLabels
  <2>2. DownType'
    <3>1. \A r \in Replies : [r EXCEPT !.st = "K"] \in Replies
      BY DEF Replies
    <3>2. down' = [down EXCEPT ![conn[w]] = [down[conn[w]] EXCEPT !.st = "K"]]
      BY DEF Okay
    <3> QED BY Zenon, <3>1, <3>2, Types DEF DownType
  <2>3. UNCHANGED <<tasks, conn, locals, clients, up, closed, process, stats>>
    BY DEF Okay
  <2> QED BY <2>1, <2>2, <2>3, SameTypes, TypesNext DEF SocketsType
<1>4. CASE TraceClosed(w)
  <2>1. ProcessType'
    BY <1>4, Types DEF TraceClosed, ProcessType
  <2>2. UNCHANGED <<tasks, pc, conn, locals, clients, sockets, stats>>
    BY <1>4 DEF TraceClosed
  <2> QED BY <2>1, <2>2, SameTypes, TypesNext
<1> QED BY <1>1, <1>2, <1>3, <1>4

\* dispatch keeps the types.
LEMMA DispatchTypes ==
  ASSUME TypeOK, NEW w \in Workers, Dispatch(w) \/ DispatchShort(w)
  PROVE  TypeOK'
<1>s. stats \in Counts
  BY Types DEF StatsType
<1> USE <1>s
<1>1. CASE Dispatch(w)
  <2> USE <1>1
  <2>c. conn[w] \in Clients /\ up[conn[w]] # << >>
    BY DEF Dispatch
  <2> USE <2>c
  <2>0. rq[conn[w]].data \in Seq(Bytes)
    BY RequestType
  <2>1. UpType'
    <3>1. up[conn[w]] \in Seq(Bytes \cup {"hdr"})
      BY Types DEF UpType
    <3>2. Tail(up[conn[w]]) \in Seq(Bytes \cup {"hdr"})
      BY <3>1
    <3>3. up' = [up EXCEPT ![conn[w]] = Tail(up[conn[w]])]
      BY DEF Dispatch
    <3> QED BY Zenon, <3>2, <3>3, Types DEF UpType
  <2>2. PcType' /\ StatsType' /\ DownType'
    <3>1. CASE RespFail(w, stats)
      BY <3>1, RespFailTypes
    <3>2. CASE /\ rq[conn[w]].op \in {"W", "R", "D", "Q"}
               /\ pc' = [pc EXCEPT ![w] = Entry(rq[conn[w]].op)]
               /\ stats' = IF rq[conn[w]].op = "W" THEN Counted("writes") ELSE stats
               /\ UNCHANGED down
      <4> USE <3>2
      <4>1. Entry(rq[conn[w]].op) \in WorkerLabels
        BY DEF Entry, WorkerLabels
      <4>2. Counted("writes") \in Counts
        BY SMTT(20) DEF Counted, Counts
      <4>3. StatsType'
        BY <4>2 DEF StatsType
      <4> QED BY Zenon, <4>1, <4>3, PcStep, SameTypes
    <3> QED BY <3>1, <3>2 DEF Dispatch
  <2>3. NType' /\ SizeType'
    BY Types DEF Dispatch, NType, SizeType, Signs
  <2>4. BufType'
    <3>1. [i \in 1..Len(rq[conn[w]].data) |-> Garbage] \in Seq(Bytes)
      BY <2>0, GarbageByte
    <3>2. buf' = [buf EXCEPT ![w] = [i \in 1..Len(rq[conn[w]].data) |-> Garbage]]
      BY Zenon DEF Dispatch
    <3> QED BY <3>1, <3>2, Types DEF BufType
  <2>5. UNCHANGED <<tasks, conn, ptr, clients, closed, process>>
    BY DEF Dispatch
  <2> QED BY <2>1, <2>2, <2>3, <2>4, <2>5, SameTypes, TypesNext DEF LocalsType, SocketsType
<1>2. CASE DispatchShort(w)
  <2>1. RespFail(w, stats) /\ UNCHANGED <<tasks, conn, locals, clients, up, closed, process>>
    BY <1>2 DEF DispatchShort
  <2> QED BY <2>1, RespFailTypes, SameTypes, TypesNext DEF SocketsType
<1> QED BY <1>1, <1>2

\* handle_write keeps the types.
LEMMA WriteTypes ==
  ASSUME TypeOK, BusyInv, PendingInv, NEW w \in Workers,
         RecvValue(w) \/ RecvEnd(w) \/ TraceWrite(w) \/ Store(w)
  PROVE  TypeOK'
<1>s. stats \in Counts
  BY Types DEF StatsType
<1>1. CASE RecvValue(w)
  <2> USE <1>1
  <2>c. conn[w] \in Clients /\ pc[w] = "w_recv"
    BY ServesClient, Zenon DEF RecvValue, At
  <2>0. up[conn[w]] \in Seq(Bytes)
    BY <2>c DEF PendingInv
  <2> USE <2>0
  <2>1. PICK k \in 1..Len(up[conn[w]]) :
          /\ buf' = [buf EXCEPT ![w] = [i \in 1..Len(buf[w]) |->
                                          IF i <= k THEN up[conn[w]][i] ELSE buf[w][i]]]
          /\ up' = [up EXCEPT ![conn[w]] = SubSeq(up[conn[w]], k + 1, Len(up[conn[w]]))]
          /\ size' = [size EXCEPT ![w] = size[w] + k]
    BY Zenon DEF RecvValue
  <2> USE <2>1
  <2>2. SubSeq(up[conn[w]], k + 1, Len(up[conn[w]])) \in Seq(Bytes \cup {"hdr"})
    OBVIOUS
  <2>3. buf[w] \in Seq(Bytes) /\ size[w] \in Nat
    BY Types DEF BufType, SizeType
  <2> USE <2>3
  <2>4. [i \in 1..Len(buf[w]) |-> IF i <= k THEN up[conn[w]][i] ELSE buf[w][i]] \in Seq(Bytes)
    <3>1. ASSUME NEW i \in 1..Len(buf[w])
          PROVE  (IF i <= k THEN up[conn[w]][i] ELSE buf[w][i]) \in Bytes
      OBVIOUS
    <3> QED BY <3>1, SMTT(20)
  <2>5. BufType'
    BY <2>4, Types DEF BufType
  <2>6. UpType'
    BY Zenon, <2>2, Types DEF UpType
  <2>7. size[w] + k \in Nat
    OBVIOUS
  <2>8. SizeType'
    BY <2>7, Types DEF SizeType
  <2>9. n' = [n EXCEPT ![w] = "pos"]
    BY DEF RecvValue
  <2>10. NType'
    BY <2>9, Types DEF NType, Signs
  <2>11. UNCHANGED <<tasks, pc, conn, ptr, clients, down, closed, process, stats>>
    BY DEF RecvValue
  <2> QED BY <2>5, <2>6, <2>8, <2>10, <2>11, SameTypes, TypesNext DEF LocalsType, SocketsType
<1>2. CASE RecvEnd(w)
  <2> USE <1>2
  <2>1. PcType'
    BY Zenon, PcStep DEF RecvEnd, WorkerGoto, WorkerLabels
  <2>2. UNCHANGED n \/ \E x \in {"neg", "zero"} : n' = [n EXCEPT ![w] = x]
    BY Zenon DEF RecvEnd
  <2>3. NType'
    BY <2>2, Types DEF NType, Signs
  <2>4. UNCHANGED <<tasks, conn, buf, size, ptr, clients, sockets, process, stats>>
    BY DEF RecvEnd
  <2> QED BY <2>1, <2>3, <2>4, SameTypes, TypesNext DEF LocalsType
<1>3. CASE TraceWrite(w) \/ Store(w)
  <2>1. \/ RespFail(w, stats)
        \/ /\ \E l \in {"w_store", "okay"} : pc' = [pc EXCEPT ![w] = l]
           /\ UNCHANGED <<stats, down>>
    BY <1>3, Zenon DEF TraceWrite, Store
  <2>2. PcType' /\ StatsType' /\ DownType'
    <3>1. CASE RespFail(w, stats)
      BY <1>s, <3>1, RespFailTypes
    <3>2. ASSUME NEW l \in {"w_store", "okay"}, pc' = [pc EXCEPT ![w] = l],
                 UNCHANGED <<stats, down>>
          PROVE  PcType' /\ StatsType' /\ DownType'
      BY Zenon, <3>2, PcStep, SameTypes DEF WorkerLabels
    <3> QED BY <2>1, <3>1, <3>2
  <2>3. UNCHANGED <<tasks, conn, locals, clients, up, closed, process>>
    BY <1>3, Zenon DEF TraceWrite, Store
  <2> QED BY <2>2, <2>3, SameTypes, TypesNext DEF SocketsType
<1> QED BY <1>1, <1>2, <1>3

\* handle_read and handle_delete keep the types.
LEMMA ReadTypes ==
  ASSUME TypeOK, BusyInv, StoreTypes, PtrInv, NEW w \in Workers,
         \/ ReadLookup(w) \/ ReadLen(w) \/ ReadTrace(w) \/ ReadHeader(w) \/ ReadData(w)
         \/ Delete(w) \/ TraceDelete(w)
  PROVE  TypeOK'
<1>s. stats \in Counts
  BY Types DEF StatsType
<1>c. ASSUME NEW f \in {"writes", "reads", "deletes", "fails"}
      PROVE  Counted(f) \in Counts
  BY <1>s, SMTT(20) DEF Counted, Counts
<1> USE <1>c
<1>1. CASE ReadLookup(w)
  <2> USE <1>1
  <2>c. conn[w] \in Clients
    BY ServesClient DEF ReadLookup, At
  <2>0. rq[conn[w]].key \in Key
    BY <2>c, RequestType
  <2>1. \/ RespFail(w, Counted("reads")) /\ UNCHANGED ptr
        \/ /\ find_key(rq[conn[w]].key) >= 0
           /\ pc' = [pc EXCEPT ![w] = "r_len"]
           /\ ptr' = [ptr EXCEPT ![w] = values[find_key(rq[conn[w]].key)]]
           /\ stats' = Counted("reads")
           /\ UNCHANGED down
    BY DEF ReadLookup
  <2>2. PcType' /\ StatsType' /\ DownType' /\ PtrType'
    <3>1. CASE RespFail(w, Counted("reads")) /\ UNCHANGED ptr
      BY <3>1, RespFailTypes, SameTypes
    <3>2. CASE /\ find_key(rq[conn[w]].key) >= 0
               /\ pc' = [pc EXCEPT ![w] = "r_len"]
               /\ ptr' = [ptr EXCEPT ![w] = values[find_key(rq[conn[w]].key)]]
               /\ stats' = Counted("reads")
               /\ UNCHANGED down
      <4> USE <3>2
      <4>1. values[find_key(rq[conn[w]].key)] \in Bufs
        BY <2>0 DEF StoreTypes
      <4>2. PtrType'
        BY <4>1, Types DEF PtrType
      <4>3. StatsType'
        BY DEF StatsType
      <4> QED BY Zenon, <4>2, <4>3, PcStep, SameTypes DEF WorkerLabels
    <3> QED BY <2>1, <3>1, <3>2
  <2>3. UNCHANGED <<tasks, conn, buf, n, size, clients, up, closed, process>>
    BY DEF ReadLookup
  <2> QED BY <2>2, <2>3, SameTypes, TypesNext DEF LocalsType, SocketsType
<1>2. CASE ReadLen(w)
  <2> USE <1>2
  <2>1. ptr[w] \in Bufs
    BY DEF ReadLen, WorkerGoto, At, PtrInv, Reading
  <2>2. \A m \in IF Live(ptr[w]) THEN {Len(heap[ptr[w]])} ELSE Lengths : m \in Nat
    BY <2>1, StringsAssumption, SMTT(20) DEF StoreTypes, Live, Lengths
  <2>3. \E m \in IF Live(ptr[w]) THEN {Len(heap[ptr[w]])} ELSE Lengths :
          size' = [size EXCEPT ![w] = m]
    BY Zenon DEF ReadLen
  <2>4. SizeType'
    BY <2>2, <2>3, Types DEF SizeType
  <2>5. PcType'
    BY Zenon, PcStep DEF ReadLen, WorkerGoto, WorkerLabels
  <2>6. UNCHANGED <<tasks, conn, buf, n, ptr, clients, sockets, process, stats>>
    BY DEF ReadLen
  <2> QED BY <2>4, <2>5, <2>6, SameTypes, TypesNext DEF LocalsType
<1>3. CASE ReadTrace(w) \/ TraceDelete(w)
  <2>1. PcType'
    BY <1>3, PcStep DEF ReadTrace, TraceDelete, WorkerGoto, WorkerLabels
  <2>2. UNCHANGED <<tasks, conn, locals, clients, sockets, process, stats>>
    BY <1>3 DEF ReadTrace, TraceDelete
  <2> QED BY <2>1, <2>2, SameTypes, TypesNext
<1>4. CASE ReadHeader(w)
  <2> USE <1>4
  <2>1. PcType'
    <3>1. \E l \in {"r_data", "close"} : pc' = [pc EXCEPT ![w] = l]
      BY ZenonT(30) DEF ReadHeader, WorkerGoto
    <3> QED BY ZenonT(30), <3>1, PcStep DEF WorkerLabels
  <2>2. [st |-> "K", len |-> size[w], data |-> << >>] \in Replies
    <3>1. << >> \in Seq(Bytes)
      OBVIOUS
    <3>2. size[w] \in Nat
      BY Types DEF SizeType
    <3> QED BY ZenonT(30), <3>1, <3>2, ReplyType
  <2>3. down' = [down EXCEPT ![conn[w]] = [st |-> "K", len |-> size[w], data |-> << >>]]
    BY Zenon DEF ReadHeader
  <2>4. DownType'
    BY Zenon, <2>2, <2>3, Types DEF DownType
  <2>5. UNCHANGED <<tasks, conn, locals, clients, up, closed, process, stats>>
    BY Zenon DEF ReadHeader
  <2> QED BY <2>1, <2>4, <2>5, SameTypes, TypesNext DEF SocketsType
<1>5. CASE ReadData(w)
  <2> USE <1>5
  <2>p. pc[w] = "r_data"
    BY DEF ReadData, At
  <2>1. ptr[w] \in Bufs
    BY <2>p DEF PtrInv, Reading
  <2>s. size[w] \in Nat
    BY Types DEF SizeType
  <2>2. BytesAt(w) \in Seq(Bytes)
    <3>2. Live(ptr[w]) => heap[ptr[w]] \in Seq(Bytes)
      BY <2>1 DEF StoreTypes, Live
    <3>3. ASSUME NEW i \in 1..size[w]
          PROVE  (IF Live(ptr[w]) /\ i <= Len(heap[ptr[w]]) THEN heap[ptr[w]][i] ELSE Garbage)
                   \in Bytes
      BY <2>s, <3>2, GarbageByte
    <3> QED BY <2>s, <3>3 DEF BytesAt
  <2>3. DownType'
    <3>1. \A r \in Replies :
            [r EXCEPT !.data = BytesAt(w)] \in Replies
      BY <2>2 DEF Replies
    <3>2. \/ UNCHANGED down
          \/ down' = [down EXCEPT ![conn[w]] = [down[conn[w]] EXCEPT !.data = BytesAt(w)]]
      BY DEF ReadData
    <3> QED BY <3>1, <3>2, Types DEF DownType
  <2>4. PcType'
    <3>1. UNCHANGED pc \/ pc' = [pc EXCEPT ![w] = "close"]
      BY DEF ReadData
    <3> QED BY <3>1, PcStep, SameTypes DEF WorkerLabels
  <2>5. ProcessType'
    BY Types DEF ReadData, ProcessType
  <2>6. UNCHANGED <<tasks, conn, locals, clients, up, closed, stats>>
    BY DEF ReadData
  <2> QED BY <2>3, <2>4, <2>5, <2>6, SameTypes, TypesNext DEF SocketsType
<1>6. CASE Delete(w)
  <2> USE <1>6
  <2>1. PcType'
    BY Zenon, PcStep DEF Delete, WorkerGoto, WorkerLabels
  <2>2. StatsType'
    BY DEF Delete, StatsType
  <2>3. UNCHANGED <<tasks, conn, locals, clients, sockets, process>>
    BY DEF Delete
  <2> QED BY <2>1, <2>2, <2>3, SameTypes, TypesNext
<1> QED BY <1>1, <1>2, <1>3, <1>4, <1>5, <1>6

\* Every step keeps the types.
LEMMA TypesKeep ==
  ASSUME TypeOK, BusyInv, PendingInv, StoreTypes, PtrInv, [Next]_vars
  PROVE  TypeOK'
<1>1. CASE UNCHANGED vars
  <2>1. UNCHANGED <<process, tasks, stats, pc, conn, locals, clients, sockets>>
    BY <1>1 DEF vars
  <2> QED BY <2>1, SameTypes, TypesNext
<1>2. ASSUME NEW w \in Workers, WorkerStep(w)
      PROVE  TypeOK'
  BY <1>2, LoopTypes, DispatchTypes, WriteTypes, ReadTypes DEF WorkerStep
<1> QED BY <1>1, <1>2, ClientTypes, ListenTypes, CleanupTypes DEF Next

-----------------------------------------------------------------------------
(* What a step leaves alone.                                               *)

\* A thread of the server changes its own locals and the socket it serves.
WorkerFrame(w) ==
  /\ \A t \in Threads : t # w => pc'[t] = pc[t]
  /\ \A v \in Workers : v # w =>
       /\ conn'[v] = conn[v] /\ buf'[v] = buf[v] /\ n'[v] = n[v] /\ size'[v] = size[v]
       /\ ptr'[v] = ptr[v]
  /\ \A c \in Clients : c # conn[w] =>
       up'[c] = up[c] /\ down'[c] = down[c] /\ (closed'[c] <=> closed[c])
  /\ UNCHANGED <<backlog, bad, cpc, rq, result, got, len>>

\* A client changes its own locals and what it has sent.
ClientFrame(c) ==
  /\ \A d \in Clients : d # c => /\ cpc'[d] = cpc[d] /\ up'[d] = up[d] /\ result'[d] = result[d]
                                 /\ got'[d] = got[d] /\ len'[d] = len[d]
  /\ UNCHANGED <<keys, values, heap, res, server, listenOpen, traceOpen, queue, bad, stats, pc,
                 conn, buf, n, size, ptr, rq, down, closed, written>>

\* A client changes nothing but that.
LEMMA ClientFrames ==
  ASSUME TypeOK, NEW c \in Clients, ClientStep(c) \/ Kill(c)
  PROVE  ClientFrame(c)
<1> USE DEF ClientFrame, ServerUnchanged, table, process, tasks, locals, sockets, ClientGoto
<1>1. CASE Connect(c)
  BY <1>1 DEF Connect, TypeOK
<1>2. CASE SendHeader(c)
  BY <1>2 DEF SendHeader, TypeOK
<1>3. CASE SendData(c)
  BY <1>3 DEF SendData, TypeOK
<1>4. CASE ReadReply(c)
  BY <1>4 DEF ReadReply, TypeOK
<1>5. CASE RecvData(c)
  BY <1>5 DEF RecvData, TypeOK
<1>6. CASE Kill(c)
  BY <1>6 DEF Kill, TypeOK
<1> QED BY <1>1, <1>2, <1>3, <1>4, <1>5, <1>6 DEF ClientStep

\* A worker, or a thread in cleanup, changes nothing but that.
LEMMA WorkerFrames ==
  ASSUME TypeOK, NEW w \in Threads, (w \in Workers /\ WorkerStep(w)) \/ Cleanup(w)
  PROVE  WorkerFrame(w)
<1> USE DEF WorkerFrame, table, process, tasks, locals, clients, sockets, At, WorkerGoto, RespFail
<1>0. /\ pc \in [Threads -> WorkerLabels] /\ conn \in [Workers -> Clients \cup {NULL, BadFd}]
      /\ buf \in [Workers -> Seq(Bytes)] /\ n \in [Workers -> Signs]
      /\ size \in [Workers -> Nat] /\ ptr \in [Workers -> Bufs \cup {NULL}]
      /\ up \in [Clients -> Seq(Bytes \cup {"hdr"})] /\ down \in [Clients -> Replies]
  BY DEF TypeOK
<1> USE <1>0
<1>1. CASE Dequeue(w) /\ w \in Workers
  BY <1>1 DEF Dequeue
<1>2. CASE Dispatch(w) /\ w \in Workers
  BY <1>2 DEF Dispatch
<1>3. CASE DispatchShort(w) /\ w \in Workers
  BY <1>3 DEF DispatchShort
<1>4. CASE Close(w) /\ w \in Workers
  BY Zenon, <1>4 DEF Close
<1>5. CASE Okay(w) /\ w \in Workers
  BY <1>5 DEF Okay
<1>6. CASE RecvValue(w) /\ w \in Workers
  BY <1>6 DEF RecvValue
<1>7. CASE RecvEnd(w) /\ w \in Workers
  BY <1>7 DEF RecvEnd
<1>8. CASE TraceWrite(w) /\ w \in Workers
  BY <1>8 DEF TraceWrite
<1>9. CASE Store(w) /\ w \in Workers
  BY <1>9 DEF Store
<1>10. CASE ReadLookup(w) /\ w \in Workers
  BY <1>10 DEF ReadLookup
<1>11. CASE (ReadLen(w) \/ ReadTrace(w)) /\ w \in Workers
  BY <1>11 DEF ReadLen, ReadTrace
<1>12. CASE ReadHeader(w) /\ w \in Workers
  BY <1>12 DEF ReadHeader
<1>13. CASE ReadData(w) /\ w \in Workers
  BY <1>13 DEF ReadData
<1>14. CASE (Delete(w) \/ TraceDelete(w) \/ TraceClosed(w)) /\ w \in Workers
  BY <1>14 DEF Delete, TraceDelete, TraceClosed
<1>15. CASE Cleanup(w)
  BY <1>15 DEF Cleanup, CleanupClose, CleanupTrace, CleanupExit
<1> QED BY Zenon, <1>1, <1>2, <1>3, <1>4, <1>5, <1>6, <1>7, <1>8, <1>9, <1>10, <1>11, <1>12, <1>13,
           <1>14, <1>15 DEF WorkerStep

\* The same for a worker, in the form that most of the proofs use.
LEMMA WorkerLeaves ==
  ASSUME TypeOK, NEW w \in Workers, WorkerStep(w) \/ Cleanup(w)
  PROVE  /\ WorkerFrame(w)
         /\ \A v \in Workers : v # w => pc'[v] = pc[v] /\ conn'[v] = conn[v]
         /\ \A c \in Clients : c # conn[w] => (closed'[c] <=> closed[c])
         /\ backlog' = backlog /\ bad' = bad /\ cpc' = cpc /\ rq' = rq
<1>1. w \in Threads /\ Workers \subseteq Threads
  BY DEF Threads
<1>2. WorkerFrame(w)
  BY <1>1, WorkerFrames
<1> QED BY <1>1, <1>2, ZenonT(20) DEF WorkerFrame

\* What a step of a worker does to its connection.
LEMMA WorkerMoves ==
  ASSUME TypeOK, BusyInv, NEW w \in Workers, WorkerStep(w) \/ Cleanup(w)
  PROVE  \/ Dequeue(w) \/ Close(w)
         \/ /\ UNCHANGED <<conn, queue, closed>>
            /\ pc[w] \notin {"idle", "close"} /\ pc'[w] \notin {"idle", "dispatch"}
            /\ conn[w] = BadFd => pc'[w] = "close"
<1> USE DEF table, process, tasks, locals, clients, sockets, At, WorkerGoto, RespFail
<1>0. pc \in [Threads -> WorkerLabels] /\ w \in Threads
  BY DEF TypeOK, Threads
<1> USE <1>0
<1>b. conn[w] = BadFd => pc[w] \in {"dispatch", "close"}
  BY DEF BusyInv
<1> USE <1>b
<1>1. CASE Dispatch(w) \/ DispatchShort(w)
  BY <1>1, ClientsAssumption DEF Dispatch, DispatchShort, Entry
<1>2. CASE Okay(w) \/ RecvValue(w) \/ RecvEnd(w) \/ TraceWrite(w) \/ Store(w)
  BY <1>2 DEF Okay, RecvValue, RecvEnd, TraceWrite, Store
<1>3. CASE ReadLookup(w) \/ ReadLen(w) \/ ReadTrace(w) \/ ReadHeader(w) \/ ReadData(w)
  BY <1>3 DEF ReadLookup, ReadLen, ReadTrace, ReadHeader, ReadData
<1>4. CASE Delete(w) \/ TraceDelete(w) \/ TraceClosed(w)
  BY <1>4, Zenon DEF Delete, TraceDelete, TraceClosed
<1>5. CASE Cleanup(w)
  BY <1>5 DEF Cleanup, CleanupClose, CleanupTrace, CleanupExit
<1> QED BY <1>1, <1>2, <1>3, <1>4, <1>5, Zenon DEF WorkerStep

\* The control thread serves no connection.
LEMMA AdminMoves ==
  ASSUME TypeOK, AdminQuit \/ Cleanup(Admin)
  PROVE  /\ \A w \in Workers : pc'[w] = pc[w]
         /\ UNCHANGED <<backlog, queue, bad, stats, conn, buf, n, size, ptr, cpc, rq, result, got,
                        len, up, down, closed, keys, values, heap, res, written>>
<1>1. \A w \in Workers : w \in Threads /\ w # Admin
  BY ThreadsAssumption DEF Threads
<1> QED BY <1>1 DEF TypeOK, AdminQuit, Cleanup, CleanupClose, CleanupTrace, CleanupExit, At,
                    WorkerGoto, table, process, tasks, locals, clients, sockets

\* A worker is idle just when it has no connection.
LEMMA BusyKeeps ==
  ASSUME TypeOK, BusyInv, [Next]_vars
  PROVE  BusyInv'
<1>1. CASE UNCHANGED <<pc, conn>>
  BY <1>1 DEF BusyInv
<1>2. ASSUME NEW w \in Workers, WorkerStep(w) \/ Cleanup(w)
      PROVE  BusyInv'
  <2>0. w \in Threads /\ Workers \subseteq Threads /\ pc \in [Threads -> WorkerLabels]
        /\ conn \in [Workers -> Clients \cup {NULL, BadFd}]
    BY DEF Threads, TypeOK
  <2> USE <2>0
  <2>1. WorkerFrame(w)
    BY <1>2, WorkerFrames
  <2> USE <2>1
  <2>2. CASE Dequeue(w)
    <3>1. pc'[w] = "dispatch" /\ conn'[w] \in Clients \cup {BadFd}
      BY <2>2, SMTT(20) DEF Dequeue, WorkerGoto, TypeOK
    <3> QED BY <3>1, ClientsAssumption, SMTT(20) DEF BusyInv, WorkerFrame
  <2>3. CASE Close(w)
    <3>1. pc'[w] = "idle" /\ conn'[w] = NULL
      BY <2>3 DEF Close, WorkerGoto
    <3> QED BY <3>1, ClientsAssumption, SMTT(20) DEF BusyInv, WorkerFrame
  <2>4. CASE /\ UNCHANGED <<conn, queue, closed>>
             /\ pc[w] \notin {"idle", "close"} /\ pc'[w] \notin {"idle", "dispatch"}
             /\ conn[w] = BadFd => pc'[w] = "close"
    BY <2>4, SMTT(20) DEF BusyInv, WorkerFrame
  <2> QED BY <1>2, <2>2, <2>3, <2>4, WorkerMoves
<1>3. CASE AdminQuit \/ Cleanup(Admin)
  BY <1>3, AdminMoves, Zenon DEF BusyInv
<1>4. ASSUME NEW c \in Clients, ClientStep(c) \/ Kill(c)
      PROVE  BusyInv'
  BY <1>1, <1>4, ClientFrames DEF ClientFrame
<1> QED BY <1>1, <1>2, <1>3, <1>4
        DEF Next, Listen, ListenBad, vars, Threads, table, process, tasks, locals, clients, sockets

\* Nobody moves.
LEMMA QuietPlaces ==
  ASSUME PlaceInv, UNCHANGED <<backlog, queue, conn>>,
         \A c \in Clients : /\ cpc'[c] = "start" => cpc[c] = "start"
                            /\ closed'[c] <=> closed[c]
  PROVE  PlaceInv'
  BY DEF PlaceInv, Queued

\* do_connect: the connection is new.
LEMMA ConnectPlaces ==
  ASSUME TypeOK, PlaceInv, NEW c \in Clients, ClientStep(c) \/ Kill(c)
  PROVE  PlaceInv'
<1>0. ClientFrame(c)
  BY ClientFrames
<1> USE <1>0
<1>1. CASE backlog' = Append(backlog, c) /\ cpc[c] = "start" /\ cpc'[c] = "header"
  <2> USE <1>1
  <2>1. /\ Len(backlog') = Len(backlog) + 1 /\ Len(backlog) \in Nat
        /\ \A i \in 1..Len(backlog) : backlog'[i] = backlog[i]
        /\ backlog'[Len(backlog) + 1] = c
    BY DEF TypeOK
  <2>2. ~Queued(c) /\ \A w \in Workers : conn[w] # c
    BY DEF PlaceInv
  <2> USE <2>2
  <2>3. \A i \in 1..Len(backlog') : \/ i = Len(backlog) + 1 /\ backlog'[i] = c
                                    \/ i \in 1..Len(backlog) /\ backlog'[i] = backlog[i]
    <3> TAKE i \in 1..Len(backlog')
    <3>1. i = Len(backlog) + 1 \/ i \in 1..Len(backlog)
      BY <2>1, SMTT(20)
    <3> QED BY <2>1, <3>1
  <2> USE <2>3
  <2>4. \A d \in Clients : Queued(d)' => d = c \/ Queued(d)
    BY DEF Queued, ClientFrame
  <2>5. \A i, j \in 1..Len(backlog') : backlog'[i] = backlog'[j] => i = j
    BY SMTT(20) DEF PlaceInv, Queued
  <2>6. \A i \in 1..Len(backlog'), j \in 1..Len(queue) : backlog'[i] # queue[j]
    BY SMTT(20) DEF PlaceInv, Queued
  <2> QED BY <2>4, <2>5, <2>6, SMTT(20) DEF PlaceInv, ClientFrame
<1>2. CASE UNCHANGED backlog /\ cpc'[c] # "start"
  BY <1>2, QuietPlaces DEF ClientFrame
<1> QED BY Zenon, <1>1, <1>2
           DEF ClientStep, Connect, SendHeader, SendData, ReadReply, RecvData, Kill,
                          ClientGoto, tasks, TypeOK

\* listen_thread: a connection goes from the backlog to the queue.
LEMMA ListenPlaces ==
  ASSUME TypeOK, PlaceInv, Listen
  PROVE  PlaceInv' /\ \A c \in Clients : Queued(c)' <=> Queued(c)
<1> DEFINE b == Head(backlog)
<1>1. /\ Len(queue) \in Nat /\ Len(queue') = Len(queue) + 1
      /\ \A i \in 1..Len(queue) : queue'[i] = queue[i]
      /\ queue'[Len(queue) + 1] = b
  BY DEF Listen, TypeOK
<1> USE <1>1
<1>2. /\ Len(backlog) \in Nat /\ Len(backlog) > 0 /\ Len(backlog') = Len(backlog) - 1
      /\ \A i \in 1..Len(backlog') : backlog'[i] = backlog[i + 1]
      /\ b = backlog[1] /\ b \in Clients
  BY SMTT(20) DEF Listen, TypeOK
<1> USE <1>2
<1>3. \A i \in 1..Len(queue') : \/ i = Len(queue) + 1 /\ queue'[i] = b
                                \/ i \in 1..Len(queue) /\ queue'[i] = queue[i]
  <2> TAKE i \in 1..Len(queue')
  <2>1. i = Len(queue) + 1 \/ i \in 1..Len(queue)
    BY SMTT(20)
  <2> QED BY <2>1
<1> USE <1>3
<1>4. \A i \in 1..Len(backlog') : i + 1 \in 1..Len(backlog) /\ i + 1 # 1
                                  /\ backlog'[i] = backlog[i + 1]
  OBVIOUS
<1> USE <1>4
<1>5. \A c \in Clients : Queued(c)' <=> Queued(c)
  <2> TAKE c \in Clients
  <2>1. ASSUME Queued(c)'
        PROVE  Queued(c)
    <3>1. CASE \E i \in 1..Len(backlog') : backlog'[i] = c
      BY <3>1 DEF Queued
    <3>2. CASE \E i \in 1..Len(queue') : queue'[i] = c
      <4>1. 1 \in 1..Len(backlog)
        BY SMTT(20)
      <4> QED BY <3>2, <4>1, SMTT(20) DEF Queued
    <3> QED BY <2>1, <3>1, <3>2 DEF Queued
  <2>2. ASSUME NEW i \in 1..Len(backlog), backlog[i] = c
        PROVE  Queued(c)'
    <3>1. CASE i = 1
      <4>1. Len(queue) + 1 \in 1..Len(queue')
        BY SMTT(20)
      <4> QED BY <2>2, <3>1, <4>1 DEF Queued
    <3>2. CASE i # 1
      <4>1. i - 1 \in 1..Len(backlog') /\ (i - 1) + 1 = i
        BY <3>2, SMTT(20)
      <4>2. backlog'[i - 1] = c
        BY <2>2, <4>1
      <4> QED BY <4>1, <4>2 DEF Queued
    <3> QED BY <3>1, <3>2
  <2>3. ASSUME NEW i \in 1..Len(queue), queue[i] = c
        PROVE  Queued(c)'
    <3>1. i \in 1..Len(queue')
      BY SMTT(20)
    <3> QED BY <2>3, <3>1 DEF Queued
  <2> QED BY <2>1, <2>2, <2>3 DEF Queued
<1>6. \A i, j \in 1..Len(backlog') : backlog'[i] = backlog'[j] => i = j
  <2> TAKE i, j \in 1..Len(backlog')
  <2>1. backlog'[i] = backlog'[j] => i + 1 = j + 1
    BY SMTT(20) DEF PlaceInv
  <2> QED BY <2>1, SMTT(20)
<1>7. \A j \in 1..Len(queue) : queue[j] # b
  <2>1. 1 \in 1..Len(backlog)
    BY SMTT(20)
  <2> QED BY <2>1, SMTT(20) DEF PlaceInv
<1>8. \A i, j \in 1..Len(queue') : queue'[i] = queue'[j] => i = j \/ queue'[i] = BadFd
  BY <1>7, SMTT(20) DEF PlaceInv
<1>9. \A i \in 1..Len(backlog'), j \in 1..Len(queue') : backlog'[i] # queue'[j]
  <2> TAKE i \in 1..Len(backlog'), j \in 1..Len(queue')
  <2>1. backlog[i + 1] # b
    <3>1. 1 \in 1..Len(backlog)
      BY SMTT(20)
    <3> QED BY <3>1 DEF PlaceInv
  <2> QED BY <2>1, SMTT(20) DEF PlaceInv
<1> QED BY <1>5, <1>6, <1>8, <1>9, SMTT(20) DEF PlaceInv, Listen, clients, sockets

\* An accept that fails adds no client.
LEMMA ListenBadPlaces ==
  ASSUME TypeOK, PlaceInv, ListenBad
  PROVE  PlaceInv' /\ \A c \in Clients : Queued(c)' <=> Queued(c)
<1>1. /\ Len(queue) \in Nat /\ Len(queue') = Len(queue) + 1
      /\ \A i \in 1..Len(queue) : queue'[i] = queue[i]
      /\ queue'[Len(queue) + 1] = BadFd
  BY DEF ListenBad, TypeOK
<1> USE <1>1
<1>2. \A i \in 1..Len(queue') : \/ i = Len(queue) + 1 /\ queue'[i] = BadFd
                                \/ i \in 1..Len(queue) /\ queue'[i] = queue[i]
  <2> TAKE i \in 1..Len(queue')
  <2>1. i = Len(queue) + 1 \/ i \in 1..Len(queue)
    OBVIOUS
  <2> QED BY <2>1
<1> USE <1>2
<1>3. \A i \in 1..Len(queue) : i \in 1..Len(queue')
  OBVIOUS
<1>4. \A c \in Clients : Queued(c)' <=> Queued(c)
  BY <1>3, ClientsAssumption DEF Queued, ListenBad
<1>5. \A i \in 1..Len(backlog) : backlog[i] # BadFd
  BY ClientsAssumption, SMTT(20) DEF TypeOK
<1>6. \A i, j \in 1..Len(queue') : queue'[i] = queue'[j] => i = j \/ queue'[i] = BadFd
  BY DEF PlaceInv
<1>7. \A i \in 1..Len(backlog'), j \in 1..Len(queue') : backlog'[i] # queue'[j]
  BY <1>5, SMTT(20) DEF PlaceInv, ListenBad
<1> QED BY <1>4, <1>6, <1>7, SMTT(20) DEF PlaceInv, ListenBad, clients, sockets

\* worker: a task goes from the queue to a worker that had none.
LEMMA DequeuePlaces ==
  ASSUME TypeOK, BusyInv, PlaceInv, NEW w \in Workers, Dequeue(w)
  PROVE  /\ PlaceInv'
         /\ \A c \in Clients : Queued(c)' <=> Queued(c) /\ c # conn'[w]
         /\ conn'[w] \in Clients => Queued(conn'[w])
         /\ conn[w] = NULL
<1> DEFINE h == Head(queue)
<1>0. /\ conn[w] = NULL /\ conn'[w] = h /\ \A v \in Workers : v # w => conn'[v] = conn[v]
      /\ UNCHANGED <<backlog, cpc, closed>>
  BY DEF Dequeue, BusyInv, TypeOK, WorkerGoto, At, clients, sockets
<1>2. /\ Len(queue) \in Nat /\ Len(queue) > 0 /\ Len(queue') = Len(queue) - 1
      /\ \A i \in 1..Len(queue') : queue'[i] = queue[i + 1]
      /\ h = queue[1] /\ 1 \in 1..Len(queue) /\ h \in Clients \cup {BadFd}
  BY SMTT(20) DEF Dequeue, TypeOK
<1>4. \A i \in 1..Len(queue') : i + 1 \in 1..Len(queue) /\ i + 1 # 1
                                /\ queue'[i] = queue[i + 1]
  BY <1>2
<1>5. \A i \in 1..Len(queue) : i = 1 \/ (i - 1 \in 1..Len(queue') /\ queue'[i - 1] = queue[i])
  <2> TAKE i \in 1..Len(queue)
  <2>1. i # 1 => i - 1 \in 1..Len(queue') /\ (i - 1) + 1 = i
    BY <1>2, SMTT(20)
  <2> QED BY <1>4, <2>1
<1>6. \A i \in 1..Len(queue') : queue'[i] \in Clients => queue'[i] # h
  BY <1>2, <1>4, ClientsAssumption DEF PlaceInv
<1>7. h \in Clients => Queued(h) /\ \A i \in 1..Len(backlog) : backlog[i] # h
  BY <1>2, SMTT(20) DEF Queued, PlaceInv
<1>8. \A c \in Clients : Queued(c)' <=> Queued(c) /\ c # h
  <2> TAKE c \in Clients
  <2>1. (\E i \in 1..Len(queue') : queue'[i] = c) <=>
        (\E i \in 1..Len(queue) : queue[i] = c) /\ c # h
    <3>1. (\E i \in 1..Len(queue') : queue'[i] = c) =>
             (\E i \in 1..Len(queue) : queue[i] = c) /\ c # h
      BY <1>4, <1>6
    <3>2. (\E i \in 1..Len(queue) : queue[i] = c) /\ c # h =>
            \E i \in 1..Len(queue') : queue'[i] = c
      BY <1>2, <1>5
    <3> QED BY <3>1, <3>2
  <2>2. (\E i \in 1..Len(backlog) : backlog[i] = c) => c # h
    BY <1>7
  <2> QED BY <1>0, <2>1, <2>2 DEF Queued
<1>9. \A i, j \in 1..Len(queue') : queue'[i] = queue'[j] => i = j \/ queue'[i] = BadFd
  <2> TAKE i, j \in 1..Len(queue')
  <2>1. queue'[i] = queue'[j] => i + 1 = j + 1 \/ queue'[i] = BadFd
    BY <1>4, Zenon DEF PlaceInv
  <2> QED BY <2>1
<1>10. \A i \in 1..Len(backlog), j \in 1..Len(queue') : backlog[i] # queue'[j]
  BY <1>4, SMTT(20) DEF PlaceInv
<1>11. h \in Clients => \A v \in Workers : conn[v] # h
  BY <1>7 DEF PlaceInv
<1>12. \A u, v \in Workers : conn'[u] = conn'[v] => u = v \/ conn'[u] \notin Clients
  BY <1>0, <1>11, SMTT(20) DEF PlaceInv
<1>13. \A c \in Clients : Queued(c)' => \A v \in Workers : conn'[v] # c
  BY <1>0, <1>8 DEF PlaceInv
<1>14. \A c \in Clients : cpc[c] = "start" \/ closed[c] =>
         ~Queued(c)' /\ \A v \in Workers : conn'[v] # c
  BY <1>0, <1>7, <1>8, SMTT(20) DEF PlaceInv
<1>15. PlaceInv'
  BY <1>0, <1>9, <1>10, <1>12, <1>13, <1>14, SMTT(20) DEF PlaceInv
<1> QED BY <1>0, <1>7, <1>8, <1>15

\* dispatch: the connection is closed and forgotten.
LEMMA ClosePlaces ==
  ASSUME TypeOK, PlaceInv, NEW w \in Workers, Close(w)
  PROVE  PlaceInv'
<1>1. /\ conn'[w] = NULL /\ \A v \in Workers : v # w => conn'[v] = conn[v]
      /\ UNCHANGED <<backlog, queue, cpc>>
      /\ \A c \in Clients : closed'[c] <=> closed[c] \/ c = conn[w]
  BY Zenon DEF Close, TypeOK, clients, tasks
<1> USE <1>1
<1>2. \A c \in Clients : Queued(c)' <=> Queued(c)
  BY DEF Queued
<1>3. \A u, v \in Workers : conn'[u] = conn'[v] => u = v \/ conn'[u] \notin Clients
  BY ClientsAssumption DEF PlaceInv
<1>4. \A c \in Clients, v \in Workers : conn'[v] = c => conn[v] = c /\ v # w
  BY ClientsAssumption
<1>5. \A c \in Clients : Queued(c)' => \A v \in Workers : conn'[v] # c
  BY <1>2, <1>4 DEF PlaceInv
<1>6. \A c \in Clients : cpc[c] = "start" \/ closed'[c] =>
         ~Queued(c)' /\ \A v \in Workers : conn'[v] # c
  BY <1>2, <1>4, SMTT(20) DEF PlaceInv
<1>7. \A c \in Clients : cpc[c] = "start" => ~closed'[c]
  BY DEF PlaceInv
<1> QED BY <1>3, <1>5, <1>6, <1>7, SMTT(20) DEF PlaceInv

\* Every step keeps a connection in one place.
LEMMA PlacesKeep ==
  ASSUME TypeOK, BusyInv, PlaceInv, [Next]_vars
  PROVE  PlaceInv'
<1>1. CASE UNCHANGED <<backlog, queue, conn, cpc, closed>>
  BY <1>1, QuietPlaces
<1> USE <1>1
<1>2. ASSUME NEW w \in Workers, WorkerStep(w) \/ Cleanup(w)
      PROVE  PlaceInv'
  <2>1. WorkerFrame(w)
    BY <1>2, WorkerLeaves
  <2>2. CASE UNCHANGED <<conn, queue, closed>>
    BY <2>1, <2>2 DEF WorkerFrame
  <2> QED BY <1>2, <2>2, WorkerMoves, DequeuePlaces, ClosePlaces
<1>3. CASE AdminQuit \/ Cleanup(Admin)
  BY <1>3, AdminMoves
<1> QED BY <1>2, <1>3, ConnectPlaces, ListenPlaces, ListenBadPlaces
        DEF Next, Threads, vars, tasks, clients, sockets
-----------------------------------------------------------------------------
(* Requests and replies.                                                   *)

\* worker.c, dispatch: each handler runs for its own kind of request.
OpInv ==
  \A w \in Workers :
    /\ pc[w] \in {"w_recv", "w_trace", "w_store"} => rq[conn[w]].op = "W"
    /\ pc[w] \in {"r_lookup", "r_len", "r_trace", "r_header", "r_data"} => rq[conn[w]].op = "R"
    /\ pc[w] \in {"d_delete", "d_trace"} => rq[conn[w]].op = "D"
    /\ pc[w] = "okay" => rq[conn[w]].op \in {"W", "D"}

\* worker.c, resp_okay and resp_fail: a connection has no reply before its worker is
\* through, except for the header of a value.
ReplyInv ==
  /\ \A c \in Clients :
       ~closed[c] /\ (\A w \in Workers : conn[w] = c => pc[w] \notin {"r_data", "close"})
         => down[c] = NoReply
  /\ \A w \in Workers : pc[w] = "r_data" =>
       size[w] > 0 /\ down[conn[w]] = [st |-> "K", len |-> size[w], data |-> << >>]
  /\ \A c \in Clients : (\A w \in Workers : conn[w] = c => pc[w] # "r_data") =>
       Len(down[c].data) = down[c].len

\* Threads of the server do not touch each other's connections.
LEMMA OthersSame ==
  ASSUME TypeOK, BusyInv, PlaceInv, NEW w \in Workers, WorkerStep(w) \/ Cleanup(w),
         NEW v \in Workers, v # w
  PROVE  /\ pc'[v] = pc[v] /\ conn'[v] = conn[v] /\ buf'[v] = buf[v] /\ n'[v] = n[v]
         /\ size'[v] = size[v] /\ ptr'[v] = ptr[v]
         /\ conn[v] \in Clients => /\ conn[v] # conn[w]
                                   /\ up'[conn[v]] = up[conn[v]]
                                   /\ down'[conn[v]] = down[conn[v]]
                                   /\ closed'[conn[v]] <=> closed[conn[v]]
<1>1. WorkerFrame(w) /\ v \in Threads
  BY WorkerFrames DEF Threads
<1>2. conn[v] \in Clients => conn[v] # conn[w]
  BY DEF PlaceInv
<1> QED BY <1>1, <1>2 DEF WorkerFrame

\* What a handler does to the reply of its connection.
ReplyStep(w) ==
  LET c == conn[w]
  IN \/ /\ UNCHANGED down
        /\ \/ pc'[w] = pc[w] /\ (pc[w] = "r_data" => size' = size)
           \/ /\ pc[w] \notin {"r_data", "close", "okay"} /\ pc'[w] \notin {"r_data", "close"}
              /\ pc'[w] = "okay" => pc[w] \in {"w_store", "d_trace"}
     \/ /\ pc[w] \notin {"r_data", "close", "okay"} /\ pc'[w] = "close"
        /\ c \in Clients => down'[c] = [st |-> "X", len |-> 0, data |-> << >>]
     \/ /\ pc[w] = "okay" /\ pc'[w] = "close"
        /\ down'[c] = [down[c] EXCEPT !.st = "K"]
     \/ /\ pc[w] = "r_header" /\ pc'[w] = IF size[w] > 0 THEN "r_data" ELSE "close"
        /\ size' = size /\ size[w] \in Nat
        /\ down'[c] = [st |-> "K", len |-> size[w], data |-> << >>]
     \/ /\ pc[w] = "r_data" /\ pc'[w] = "close"
        /\ size' = size /\ size[w] \in Nat
        /\ down'[c] = [down[c] EXCEPT !.data = BytesAt(w)]

\* Every step of a handler is one of these.
LEMMA ReplySteps ==
  ASSUME TypeOK, BusyInv, NEW w \in Workers, WorkerStep(w) \/ Cleanup(w), ~Dequeue(w), ~Close(w)
  PROVE  ReplyStep(w)
<1> USE DEF ReplyStep, table, process, tasks, locals, clients, sockets, At, WorkerGoto
<1>0. pc \in [Threads -> WorkerLabels] /\ w \in Threads /\ down \in [Clients -> Replies]
      /\ size[w] \in Nat
  BY DEF TypeOK, Threads
<1> USE <1>0
<1>f. ASSUME NEW s, RespFail(w, s), pc[w] \notin {"r_data", "close", "okay"}
      PROVE  ReplyStep(w)
  <2>1. pc'[w] = "close" /\ (conn[w] \in Clients => down'[conn[w]] = [NoReply EXCEPT !.st = "X"])
    BY <1>f DEF RespFail
  <2>2. [NoReply EXCEPT !.st = "X"] = [st |-> "X", len |-> 0, data |-> << >>]
    BY DEF NoReply
  <2> QED BY <1>f, <2>1, <2>2
<1> USE <1>f
<1>1. CASE Dispatch(w) \/ DispatchShort(w)
  BY <1>1 DEF Dispatch, DispatchShort, Entry
<1>2. CASE Okay(w)
  <2>1. conn[w] \in Clients
    BY <1>2, ServesClient DEF Okay
  <2> QED BY <1>2, <2>1 DEF Okay
<1>3. CASE RecvValue(w) \/ RecvEnd(w) \/ TraceWrite(w) \/ Store(w)
  BY <1>3 DEF RecvValue, RecvEnd, TraceWrite, Store
<1>4. CASE ReadLookup(w) \/ ReadLen(w) \/ ReadTrace(w)
  BY <1>4 DEF ReadLookup, ReadLen, ReadTrace
<1>5. CASE ReadHeader(w)
  <2>1. conn[w] \in Clients
    BY <1>5, ServesClient DEF ReadHeader
  <2> QED BY <1>5, <2>1 DEF ReadHeader
<1>6. CASE ReadData(w)
  <2>1. conn[w] \in Clients
    BY <1>6, ServesClient DEF ReadData
  <2> QED BY <1>6, <2>1 DEF ReadData
<1>7. CASE Delete(w) \/ TraceDelete(w) \/ TraceClosed(w)
  BY <1>7 DEF Delete, TraceDelete, TraceClosed
<1>8. CASE Cleanup(w)
  BY <1>8 DEF Cleanup, CleanupClose, CleanupTrace, CleanupExit
<1> QED BY <1>1, <1>2, <1>3, <1>4, <1>5, <1>6, <1>7, <1>8, Zenon DEF WorkerStep

\* dispatch: a worker stays with the kind of request it got.
LEMMA OpKeeps ==
  ASSUME TypeOK, BusyInv, PlaceInv, OpInv, [Next]_vars
  PROVE  OpInv'
<1>1. CASE UNCHANGED <<pc, conn, rq>>
  BY <1>1 DEF OpInv
<1>2. ASSUME NEW w \in Workers, WorkerStep(w) \/ Cleanup(w)
      PROVE  OpInv'
  <2> USE DEF At, WorkerGoto, table, process, tasks, locals, clients, sockets, RespFail
  <2>0. pc \in [Threads -> WorkerLabels] /\ w \in Threads /\ rq' = rq
    BY <1>2, WorkerLeaves DEF TypeOK, Threads
  <2> DEFINE OpAt(v) ==
        /\ pc[v] \in {"w_recv", "w_trace", "w_store"} => rq[conn[v]].op = "W"
        /\ pc[v] \in {"r_lookup", "r_len", "r_trace", "r_header", "r_data"} =>
             rq[conn[v]].op = "R"
        /\ pc[v] \in {"d_delete", "d_trace"} => rq[conn[v]].op = "D"
        /\ pc[v] = "okay" => rq[conn[v]].op \in {"W", "D"}
  <2>1. OpAt(w)
    BY DEF OpInv
  <2>3. OpAt(w)'
    <3>1. CASE Dequeue(w) \/ Close(w)
      BY <2>0, <3>1 DEF Dequeue, Close
    <3>2. CASE Dispatch(w) \/ DispatchShort(w)
      BY <2>0, <3>2 DEF Dispatch, DispatchShort, Entry
    <3>3. CASE RecvValue(w) \/ RecvEnd(w) \/ TraceWrite(w) \/ Store(w) \/ Okay(w)
      BY <2>0, <2>1, <3>3 DEF RecvValue, RecvEnd, TraceWrite, Store, Okay
    <3>4. CASE ReadLookup(w) \/ ReadLen(w) \/ ReadTrace(w) \/ ReadHeader(w) \/ ReadData(w)
      BY <2>0, <2>1, <3>4 DEF ReadLookup, ReadLen, ReadTrace, ReadHeader, ReadData
    <3>5. CASE Delete(w) \/ TraceDelete(w)
      BY <2>0, <2>1, <3>5 DEF Delete, TraceDelete
    <3>6. CASE TraceClosed(w)
      BY <2>0, <2>1, <3>6 DEF TraceClosed
    <3>7. CASE Cleanup(w)
      BY <2>0, <2>1, <3>7 DEF Cleanup, CleanupClose, CleanupTrace, CleanupExit
    <3> QED BY <1>2, <3>1, <3>2, <3>3, <3>4, <3>5, <3>6, <3>7 DEF WorkerStep
  <2>4. ASSUME NEW v \in Workers, v # w
        PROVE  OpAt(v)'
    <3>1. pc'[v] = pc[v] /\ conn'[v] = conn[v]
      BY <1>2, <2>4, OthersSame
    <3>2. OpAt(v)
      BY DEF OpInv
    <3> QED BY <2>0, <3>1, <3>2, ZenonT(20)
  <2>5. \A v \in Workers : OpAt(v)'
    BY <2>3, <2>4
  <2> HIDE DEF OpAt
  <2>6. (\A v \in Workers : OpAt(v))' => OpInv'
    BY DEF OpInv, OpAt
  <2> QED BY <2>5, <2>6
<1>3. CASE AdminQuit \/ Cleanup(Admin)
  BY <1>3, AdminMoves DEF OpInv
<1>4. ASSUME NEW c \in Clients, ClientStep(c) \/ Kill(c)
      PROVE  OpInv'
  BY <1>1, <1>4, ClientFrames DEF ClientFrame
<1> QED BY <1>1, <1>2, <1>3, <1>4
        DEF Next, Listen, ListenBad, vars, Threads, table, process, tasks, locals, clients, sockets
\* A connection that a worker has is open, and its worker is the only one.
LEMMA HeldOpen ==
  ASSUME PlaceInv, NEW c \in Clients, NEW w \in Workers, conn[w] = c
  PROVE  ~closed[c] /\ cpc[c] # "start" /\ \A v \in Workers : conn[v] = c => v = w
  BY DEF PlaceInv

\* Before a handler has answered, there is no reply.
LEMMA NoReplyYet ==
  ASSUME TypeOK, BusyInv, PlaceInv, ReplyInv, NEW w \in Workers,
         pc[w] \notin {"idle", "r_data", "close"}, conn[w] \in Clients
  PROVE  down[conn[w]] = NoReply
  BY HeldOpen DEF ReplyInv

\* resp_okay and resp_fail: each connection gets one reply.
LEMMA ReplyKeeps ==
  ASSUME TypeOK, BusyInv, PlaceInv, ReplyInv, [Next]_vars
  PROVE  ReplyInv'
<1>1. CASE UNCHANGED <<pc, conn, down, closed, size>>
  BY <1>1 DEF ReplyInv
<1> DEFINE Silent(c) ==
      ~closed[c] /\ (\A w \in Workers : conn[w] = c => pc[w] \notin {"r_data", "close"})
        => down[c] = NoReply
    Whole(c) == (\A w \in Workers : conn[w] = c => pc[w] # "r_data") =>
                  Len(down[c].data) = down[c].len
    Half(w) == pc[w] = "r_data" =>
                 size[w] > 0 /\ down[conn[w]] = [st |-> "K", len |-> size[w], data |-> << >>]
<1>i. /\ \A c \in Clients : Silent(c) /\ Whole(c)
      /\ \A w \in Workers : Half(w)
  BY DEF ReplyInv
<1>j. ASSUME \A c \in Clients : Silent(c)' /\ Whole(c)', \A w \in Workers : Half(w)'
      PROVE  ReplyInv'
  BY <1>j DEF ReplyInv
<1>2. ASSUME NEW w \in Workers, WorkerStep(w) \/ Cleanup(w)
      PROVE  ReplyInv'
  <2>0. /\ WorkerFrame(w)
        /\ \A v \in Workers : v # w => pc'[v] = pc[v] /\ conn'[v] = conn[v]
    BY <1>2, WorkerLeaves
  <2>1. ASSUME NEW v \in Workers, v # w
        PROVE  Half(v)'
    <3>1. pc[v] = "r_data" => conn[v] \in Clients
      BY ServesClient
    <3>2. /\ pc'[v] = pc[v] /\ conn'[v] = conn[v] /\ size'[v] = size[v]
          /\ conn[v] \in Clients => down'[conn[v]] = down[conn[v]]
      BY <1>2, <2>1, OthersSame
    <3>3. Half(v)
      BY <1>i
    <3> QED BY <3>1, <3>2, <3>3, ZenonT(20)
  <2>2. CASE Dequeue(w)
    <3>0. /\ conn[w] = NULL /\ pc'[w] = "dispatch" /\ UNCHANGED <<down, closed>>
      BY <2>2 DEF Dequeue, TypeOK, Threads, WorkerGoto, At, BusyInv, sockets
    <3>1. ASSUME NEW c \in Clients
          PROVE  Silent(c)' /\ Whole(c)'
      <4>1. \A v \in Workers : conn[v] = c => conn'[v] = c /\ pc'[v] = pc[v]
        BY <2>0, <3>0, ClientsAssumption
      <4>2. Silent(c) /\ Whole(c)
        BY <1>i
      <4> QED BY <3>0, <4>1, <4>2, ZenonT(20)
    <3>2. Half(w)'
      BY <3>0
    <3> QED BY <1>j, <2>1, <3>1, <3>2
  <2>3. CASE Close(w)
    <3>0. /\ conn'[w] = NULL /\ pc[w] = "close" /\ pc'[w] = "idle" /\ UNCHANGED down
          /\ \A c \in Clients : closed'[c] <=> closed[c] \/ c = conn[w]
      BY Zenon, <2>3 DEF Close, TypeOK, Threads, WorkerGoto, At
    <3>1. ASSUME NEW c \in Clients
          PROVE  Silent(c)' /\ Whole(c)'
      <4>1. CASE c # conn[w]
        <5>1. \A v \in Workers : conn[v] = c => conn'[v] = c /\ pc'[v] = pc[v]
          BY <2>0, <4>1
        <5>2. down' = down /\ (closed'[c] <=> closed[c])
          BY <3>0, <4>1
        <5>3. Silent(c) /\ Whole(c)
          BY <1>i
        <5> QED BY <5>1, <5>2, <5>3, ZenonT(20)
      <4>2. CASE c = conn[w]
        BY <1>i, <3>0, <4>2, HeldOpen
      <4> QED BY <4>1, <4>2
    <3>2. Half(w)'
      BY <3>0
    <3> QED BY <1>j, <2>1, <3>1, <3>2
  <2>4. CASE ~Dequeue(w) /\ ~Close(w)
    <3>0. /\ UNCHANGED <<conn, closed>> /\ ReplyStep(w) /\ pc[w] \notin {"idle", "close"}
      BY <1>2, <2>4, ReplySteps, WorkerMoves
    <3>1. ASSUME NEW c \in Clients, c # conn[w]
          PROVE  Silent(c)' /\ Whole(c)'
      <4>1. down'[c] = down[c]
        BY <2>0, <3>1 DEF WorkerFrame
      <4> QED BY <1>i, <2>0, <3>0, <3>1, <4>1
    <3>2. ASSUME conn[w] \in Clients
          PROVE  Silent(conn[w])' /\ Whole(conn[w])'
      <4>1. ~closed[conn[w]] /\ \A v \in Workers : conn[v] = conn[w] => v = w
        BY <3>2, HeldOpen
      <4>2. Silent(conn[w])'
        BY <1>i, <3>0, <3>2, <4>1 DEF ReplyStep
      <4>3. pc[w] # "r_data" => down[conn[w]] = NoReply
        BY <3>0, <3>2, NoReplyYet
      <4>4. Whole(conn[w])'
        <5>1. CASE UNCHANGED down /\ (pc[w] = "r_data" => pc'[w] = "r_data")
          BY <1>i, <3>0, <3>2, <4>1, <5>1
        <5>2. CASE down'[conn[w]] = [st |-> "X", len |-> 0, data |-> << >>]
          BY <3>0, <5>2
        <5>3. CASE pc[w] = "okay" /\ down'[conn[w]] = [down[conn[w]] EXCEPT !.st = "K"]
          BY <3>0, <4>3, <5>3, SMTT(20) DEF NoReply
        <5>4. CASE /\ pc'[w] = IF size[w] > 0 THEN "r_data" ELSE "close"
                   /\ size[w] \in Nat
                   /\ down'[conn[w]] = [st |-> "K", len |-> size[w], data |-> << >>]
          BY <3>0, <5>4
        <5>5. CASE /\ pc[w] = "r_data" /\ size[w] \in Nat
                   /\ down'[conn[w]] = [down[conn[w]] EXCEPT !.data = BytesAt(w)]
          <6>1. Len(BytesAt(w)) = size[w]
            BY <5>5, SMTT(20) DEF BytesAt
          <6>2. down[conn[w]] = [st |-> "K", len |-> size[w], data |-> << >>]
            BY <1>i, <5>5
          <6>3. down'[conn[w]] = [st |-> "K", len |-> size[w], data |-> BytesAt(w)]
            BY <5>5, <6>2, SMTT(20)
          <6> QED BY <3>0, <6>1, <6>3
        <5> QED BY <3>0, <3>2, <5>1, <5>2, <5>3, <5>4, <5>5 DEF ReplyStep
      <4> QED BY <4>2, <4>4
    <3>3. Half(w)'
      BY <1>i, <3>0 DEF ReplyStep
    <3>4. \A c \in Clients : Silent(c)' /\ Whole(c)'
      BY <3>0, <3>1, <3>2
    <3> QED BY <1>j, <2>1, <3>3, <3>4
  <2> QED BY <2>2, <2>3, <2>4
<1>3. CASE AdminQuit \/ Cleanup(Admin)
  BY <1>3, AdminMoves DEF ReplyInv
<1>4. ASSUME NEW c \in Clients, ClientStep(c) \/ Kill(c)
      PROVE  ReplyInv'
  BY <1>1, <1>4, ClientFrames DEF ClientFrame
<1> QED BY <1>1, <1>2, <1>3, <1>4
        DEF Next, Listen, ListenBad, vars, Threads, table, process, tasks, locals, clients, sockets
-----------------------------------------------------------------------------
(* dbclient.                                                               *)

\* dbclient.c, do_get: what a client has received is the beginning of the reply, and it
\* ends when it has all of it.
ClientInv ==
  \A c \in Clients :
    /\ Len(got[c]) <= Len(down[c].data)
    /\ \A i \in 1..Len(got[c]) : got[c][i] = down[c].data[i]
    /\ rq[c].op \in {"R", "W"} /\ result[c] = "K" => down[c].st = "K"
    /\ cpc[c] = "recv" => rq[c].op = "R" /\ down[c].st = "K" /\ len[c] = down[c].len
    /\ cpc[c] = "done" /\ rq[c].op = "R" /\ result[c] = "K" =>
         len[c] = down[c].len /\ Len(got[c]) >= len[c]

\* What a client knows of its reply.
Knows(c) ==
  /\ Len(got[c]) <= Len(down[c].data)
  /\ \A i \in 1..Len(got[c]) : got[c][i] = down[c].data[i]
  /\ rq[c].op \in {"R", "W"} /\ result[c] = "K" => down[c].st = "K"
  /\ cpc[c] = "recv" => rq[c].op = "R" /\ down[c].st = "K" /\ len[c] = down[c].len
  /\ cpc[c] = "done" /\ rq[c].op = "R" /\ result[c] = "K" =>
       len[c] = down[c].len /\ Len(got[c]) >= len[c]

\* Before its worker has answered, a client knows nothing.
LEMMA KnowsNothing ==
  ASSUME TypeOK, NEW c \in Clients, Knows(c), down[c].st # "K", Len(down[c].data) = 0
  PROVE  /\ Len(got[c]) = 0 /\ cpc[c] # "recv"
         /\ ~(rq[c].op \in {"R", "W"} /\ result[c] = "K")
<1>1. Len(got[c]) \in Nat
  BY SMTT(20) DEF TypeOK
<1> QED BY <1>1 DEF Knows

\* A client that has not connected has no reply.
LEMMA StartSilent ==
  ASSUME PlaceInv, ReplyInv, NEW c \in Clients, cpc[c] = "start"
  PROVE  down[c] = NoReply
  BY DEF PlaceInv, ReplyInv

\* do_get: what a client does keeps what it knows.
LEMMA ClientLearns ==
  ASSUME TypeOK, PlaceInv, ReplyInv, NEW c \in Clients, Knows(c), ClientStep(c) \/ Kill(c)
  PROVE  Knows(c)'
<1>t. got[c] \in Seq(Bytes) /\ down[c] \in Replies /\ len[c] \in Nat
  BY DEF TypeOK
<1>0. ClientFrame(c) /\ got[c] \in Seq(Bytes) /\ down[c] \in Replies /\ len[c] \in Nat
      /\ Len(got[c]) \in Nat /\ down[c].data \in Seq(Bytes) /\ Len(down[c].data) \in Nat
  BY <1>t, ClientFrames, SMTT(20) DEF Replies
<1> USE <1>0
<1>d. rq' = rq /\ down' = down
  BY DEF ClientFrame
<1> USE <1>d
<1> USE DEF ServerUnchanged, table, process, tasks, locals, sockets, ClientGoto
<1>1. CASE Connect(c)
  <2>1. down[c] = NoReply /\ cpc[c] = "start"
    BY <1>1, StartSilent DEF Connect
  <2>2. ~(rq[c].op \in {"R", "W"} /\ result[c] = "K")
    BY <2>1, KnowsNothing DEF NoReply
  <2>3. cpc'[c] # "recv" /\ UNCHANGED <<got, result, len>>
    BY <1>1 DEF Connect, TypeOK
  <2> QED BY <2>2, <2>3 DEF Knows
<1>2. CASE SendHeader(c) \/ SendData(c)
  <2>1. /\ cpc'[c] # "recv" /\ UNCHANGED <<got, result, len>>
        /\ cpc'[c] = "done" => rq[c].op # "R"
    BY <1>2 DEF SendHeader, SendData, TypeOK
  <2> QED BY <2>1 DEF Knows
<1>3. CASE ReadReply(c)
  <2>1. CASE /\ result'[c] = down[c].st /\ len'[c] = down[c].len /\ got' = got
             /\ cpc'[c] = IF rq[c].op = "R" /\ down[c].st = "K" THEN "recv" ELSE "done"
    BY <2>1 DEF Knows
  <2>2. CASE result'[c] = rq[c].op /\ cpc'[c] = "done" /\ got' = got /\ len' = len
    BY <2>2 DEF Knows
  <2> QED BY <1>3, <2>1, <2>2 DEF ReadReply, TypeOK
<1>4. CASE RecvData(c)
  <2> USE <1>4
  <2>1. CASE Len(got[c]) >= len[c] /\ cpc'[c] = "done" /\ UNCHANGED got
    BY <2>1 DEF RecvData, Knows
  <2>2. CASE Len(got[c]) < len[c] /\ UNCHANGED cpc
    <3>1. PICK i \in Len(got[c])+1..Len(down[c].data) : got'[c] = SubSeq(down[c].data, 1, i)
      BY Zenon, <2>2 DEF RecvData, TypeOK
    <3>2. /\ Len(got'[c]) = i
          /\ \A j \in 1..i : got'[c][j] = down[c].data[j]
      BY <3>1
    <3>3. UNCHANGED <<result, len>> /\ cpc[c] = "recv" /\ i <= Len(down[c].data)
      BY SMTT(20) DEF RecvData
    <3> QED BY <2>2, <3>2, <3>3 DEF Knows
  <2> QED BY <2>1, <2>2 DEF RecvData, TypeOK
<1>5. CASE Kill(c)
  <2>1. cpc'[c] = "killed" /\ UNCHANGED <<got, result, len>>
    BY <1>5 DEF Kill, TypeOK
  <2> QED BY <2>1 DEF Knows
<1> QED BY <1>1, <1>2, <1>3, <1>4, <1>5 DEF ClientStep

\* Every step keeps what the clients know.
LEMMA ClientKeeps ==
  ASSUME TypeOK, BusyInv, PlaceInv, ReplyInv, ClientInv, [Next]_vars
  PROVE  ClientInv'
<1>i. \A c \in Clients : Knows(c)
  BY DEF ClientInv, Knows
<1> USE <1>i
<1>j. ASSUME \A c \in Clients : Knows(c)'
      PROVE  ClientInv'
  BY <1>j DEF ClientInv, Knows
<1> USE <1>j
<1>1. CASE UNCHANGED <<cpc, rq, result, got, len, down>>
  BY <1>1 DEF ClientInv
<1>2. ASSUME NEW w \in Workers, WorkerStep(w) \/ Cleanup(w)
      PROVE  ClientInv'
  <2>0. WorkerFrame(w)
    BY <1>2, WorkerLeaves
  <2> USE <2>0
  <2>1. ASSUME NEW c \in Clients, down'[c] = down[c]
        PROVE  Knows(c)'
    BY <2>1, SMTT(20) DEF WorkerFrame, Knows
  <2> USE <2>1
  <2>2. CASE Dequeue(w) \/ Close(w)
    BY <2>2 DEF Dequeue, Close, sockets
  <2>3. CASE ~Dequeue(w) /\ ~Close(w)
    <3>0. ReplyStep(w) /\ pc[w] \notin {"idle", "close"}
      BY <1>2, <2>3, ReplySteps, WorkerMoves
    <3>1. ASSUME NEW c \in Clients, c = conn[w]
          PROVE  Knows(c)'
      <4> USE <3>1
      <4>0. down[c] \in Replies /\ Len(got[c]) \in Nat /\ Len(down[c].data) \in Nat
        BY SMTT(20) DEF TypeOK, Replies
      <4>1. ASSUME pc[w] # "r_data", down'[c].data \in Seq(Bytes)
            PROVE  Knows(c)'
        <5>1. down[c] = NoReply
          BY <3>0, <4>1, NoReplyYet
        <5>2. down[c].st # "K" /\ Len(down[c].data) = 0 /\ Knows(c)
          BY <5>1 DEF NoReply
        <5>3. /\ Len(got[c]) = 0 /\ cpc[c] # "recv"
              /\ ~(rq[c].op \in {"R", "W"} /\ result[c] = "K")
          BY <5>2, KnowsNothing
        <5>4. UNCHANGED <<cpc, rq, result, got, len>>
          BY DEF WorkerFrame
        <5>5. Len(got'[c]) = 0 /\ Len(down'[c].data) \in Nat
          BY <4>1, <5>3, <5>4
        <5>6. /\ Len(got'[c]) <= Len(down'[c].data)
              /\ \A i \in 1..Len(got'[c]) : got'[c][i] = down'[c].data[i]
          BY <5>5, SMTT(20)
        <5> QED BY <5>3, <5>4, <5>6, ZenonT(20) DEF Knows
      <4>2. CASE UNCHANGED down
        BY <4>2
      <4>3. CASE pc[w] # "r_data" /\ down'[c].data = << >>
        BY <4>1, <4>3
      <4>4. CASE pc[w] = "okay" /\ down'[c] = [down[c] EXCEPT !.st = "K"]
        <5>1. down'[c].data \in Seq(Bytes)
          BY <4>0, <4>4 DEF Replies
        <5> QED BY <4>1, <4>4, <5>1
      <4>5. CASE /\ pc[w] = "r_data" /\ size[w] \in Nat
                 /\ down'[c] = [down[c] EXCEPT !.data = BytesAt(w)]
        <5> USE <4>5
        <5>1. down[c] = [st |-> "K", len |-> size[w], data |-> << >>] /\ size[w] > 0
          BY DEF ReplyInv
        <5> USE <5>1
        <5>2. down'[c] = [st |-> "K", len |-> size[w], data |-> BytesAt(w)]
          BY SMTT(20)
        <5>3. Len(BytesAt(w)) = size[w]
          BY SMTT(20) DEF BytesAt
        <5>4. Knows(c) /\ Len(got[c]) = 0
          BY <4>0, SMTT(20) DEF Knows
        <5>5. UNCHANGED <<cpc, rq, result, got, len>>
          BY DEF WorkerFrame
        <5> QED BY <5>2, <5>3, <5>4, <5>5, SMTT(20) DEF Knows
      <4> QED BY <3>0, <4>2, <4>3, <4>4, <4>5 DEF ReplyStep
    <3>2. ASSUME NEW c \in Clients, c # conn[w]
          PROVE  Knows(c)'
      BY <3>2, Zenon DEF WorkerFrame
    <3> QED BY <3>1, <3>2
  <2> QED BY <2>2, <2>3
<1>3. CASE AdminQuit \/ Cleanup(Admin)
  BY <1>1, <1>3, AdminMoves, Zenon
<1>4. ASSUME NEW c \in Clients, ClientStep(c) \/ Kill(c)
      PROVE  ClientInv'
  <2>1. ClientFrame(c) /\ Knows(c)'
    BY <1>4, ClientFrames, ClientLearns
  <2>2. ASSUME NEW d \in Clients, d # c
        PROVE  Knows(d)'
    <3>1. /\ cpc'[d] = cpc[d] /\ result'[d] = result[d] /\ got'[d] = got[d]
          /\ len'[d] = len[d] /\ rq' = rq /\ down' = down
      BY <2>1, <2>2 DEF ClientFrame
    <3>2. Knows(d)
      OBVIOUS
    <3> QED BY <3>1, <3>2 DEF Knows
  <2> QED BY <2>1, <2>2
<1> QED BY <1>1, <1>2, <1>3, <1>4
        DEF Next, Listen, ListenBad, vars, Threads, table, process, tasks, locals, clients, sockets
=============================================================================
