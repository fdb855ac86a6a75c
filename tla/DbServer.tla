------------------------------ MODULE DbServer ------------------------------
(***************************************************************************)
(* The dbserver and its clients (lab 3): dbclient.c on one side, the       *)
(* listener of dbserver.c and the workers of worker.c on the other, around *)
(* the table of module KvTable.  Every client makes one request on one     *)
(* connection, as each run of dbclient and each thread of its tests does.  *)
(*                                                                         *)
(* The work queue is the FIFO that module WorkQueue implements, and the    *)
(* counters are incremented atomically, as module Stats shows.  A value is *)
(* a sequence of bytes, and a read on a socket may return fewer bytes than *)
(* it asks for when PartialReads is TRUE.  The header of a request or of a *)
(* reply (40 bytes, one write) is read whole or not at all.                *)
(***************************************************************************)
EXTENDS KvTable, Sequences

CONSTANTS
  Workers, Admin,       \* worker threads, and the control thread
  Clients,              \* the connections
  Strings,              \* the byte strings clients send
  Ops,                  \* the requests clients make: W, R, D, Q or another
  Garbage,              \* the contents of memory nobody has written
  PartialReads,         \* may a read on a socket be short?
  AdminQuits,           \* does the control thread get a "quit"?
  MaxKills,             \* how many clients may be killed
  MaxBadTasks           \* bound on the tasks made from a failing accept

ASSUME BoolAssumption == PartialReads \in BOOLEAN /\ AdminQuits \in BOOLEAN
ASSUME BadAssumption == MaxKills \in Nat /\ MaxBadTasks \in Nat

BadFd == "bad"                  \* accept returned -1
Bytes == (UNION {{s[i] : i \in DOMAIN s} : s \in Strings}) \cup {Garbage}

ASSUME ThreadsAssumption == IsFiniteSet(Workers) /\ Admin \notin Workers
ASSUME ClientsAssumption ==
  IsFiniteSet(Clients) /\ {NULL, BadFd} \cap Clients = {} /\ NULL # BadFd
ASSUME StringsAssumption == Strings \subseteq Seq(Bytes)
ASSUME TableAssumption ==
  /\ TABLE_MAX \in Nat \ {0} /\ NULL \notin Bufs
  /\ Missing \notin Seq(Bytes) /\ Missing \notin Key

VARIABLES
  server,               \* "up", or how the process has ended
  listenOpen, traceOpen,        \* listen_sock and trace_fp
  backlog,              \* connections the kernel holds for accept
  queue,                \* the work queue, a task is its fd
  bad,                  \* tasks made from a failing accept
  stats,                \* the counters of stats.c
  pc, conn,             \* of each thread; the fd it serves
  buf, n, size, ptr,    \* locals of handle_write and handle_read
  cpc, rq, result, got, len,    \* the clients and their locals
  up, down, closed,     \* the sockets: what the client has sent, the reply, and
                        \* whether the server has closed its end
  written               \* history: what was stored under each key

process == <<server, listenOpen, traceOpen>>
tasks == <<backlog, queue, bad>>
locals == <<buf, n, size, ptr>>
clients == <<cpc, rq, result, got, len>>
sockets == <<up, down, closed>>
vars == <<table, process, tasks, stats, pc, conn, locals, clients, sockets, written>>

Threads == Workers \cup {Admin}
Signs == {"neg", "zero", "pos"} \* what the code looks at in n
NoReply == [st |-> "none", len |-> 0, data |-> << >>]
Requests == {r \in [op : Ops, key : Key, data : Strings \cup {<< >>}] :
               r.data \in IF r.op = "W" THEN Strings ELSE {<< >>}}

Init ==
  /\ TableInit
  /\ server = "up" /\ listenOpen = TRUE /\ traceOpen = TRUE
  /\ backlog = << >> /\ queue = << >> /\ bad = 0
  /\ stats = [writes |-> 0, reads |-> 0, deletes |-> 0, fails |-> 0]
  /\ pc = [t \in Threads |-> "idle"]
  /\ conn = [w \in Workers |-> NULL]
  /\ buf = [w \in Workers |-> << >>]
  /\ n = [w \in Workers |-> "zero"]
  /\ size = [w \in Workers |-> 0]
  /\ ptr = [w \in Workers |-> NULL]
  /\ cpc = [c \in Clients |-> "start"]
  /\ rq \in [Clients -> Requests]
  /\ result = [c \in Clients |-> "none"]
  /\ got = [c \in Clients |-> << >>]
  /\ len = [c \in Clients |-> 0]
  /\ up = [c \in Clients |-> << >>]
  /\ down = [c \in Clients |-> NoReply]
  /\ closed = [c \in Clients |-> FALSE]
  /\ written = [k \in Key |-> {}]

-----------------------------------------------------------------------------
(* dbclient: do_set, do_get, do_del and do_quit.                           *)

Gone(c) == cpc[c] \in {"done", "killed"}

ClientGoto(c, from, to) ==
  /\ cpc[c] = from
  /\ cpc' = [cpc EXCEPT ![c] = to]

ServerUnchanged == UNCHANGED <<table, process, stats, pc, conn, locals, written>>

\* do_connect: without a listening socket the client exits
Connect(c) ==
  /\ \/ /\ server = "up" /\ listenOpen
        /\ ClientGoto(c, "start", "header")
        /\ backlog' = Append(backlog, c)
     \/ /\ server # "up" \/ ~listenOpen
        /\ ClientGoto(c, "start", "done")
        /\ UNCHANGED backlog
  /\ UNCHANGED <<queue, bad, rq, result, got, len, sockets>> /\ ServerUnchanged

\* write(sock, &rq, sizeof(rq)); do_quit does not wait for a reply
SendHeader(c) ==
  /\ ClientGoto(c, "header", CASE rq[c].op = "W" -> "data"
                               [] rq[c].op = "Q" -> "done"
                               [] OTHER -> "await")
  /\ up' = [up EXCEPT ![c] = <<"hdr">>]
  /\ UNCHANGED <<tasks, rq, result, got, len, down, closed>> /\ ServerUnchanged

\* write(sock, data, len)
SendData(c) ==
  /\ ClientGoto(c, "data", "await")
  /\ up' = [up EXCEPT ![c] = @ \o rq[c].data]
  /\ UNCHANGED <<tasks, rq, result, got, len, down, closed>> /\ ServerUnchanged

AtEof(c) == closed[c] \/ server # "up"

\* mutant: the client does not notice that the server is gone
ReadReplyNoEof(c) ==
  /\ cpc[c] = "await"
  /\ down[c].st # "none"
  /\ result' = [result EXCEPT ![c] = down[c].st]
  /\ len' = [len EXCEPT ![c] = down[c].len]
  /\ cpc' = [cpc EXCEPT ![c] =
               IF rq[c].op = "R" /\ down[c].st = "K" THEN "recv" ELSE "done"]
  /\ UNCHANGED <<tasks, rq, got, sockets>> /\ ServerUnchanged

\* read the reply; after a short read rq.op_status is still the request's
ReadReply(c) ==
  /\ cpc[c] = "await"
  /\ \/ /\ down[c].st # "none"
        /\ result' = [result EXCEPT ![c] = down[c].st]
        /\ len' = [len EXCEPT ![c] = down[c].len]
        /\ cpc' = [cpc EXCEPT ![c] =
                     IF rq[c].op = "R" /\ down[c].st = "K" THEN "recv" ELSE "done"]
     \/ /\ down[c].st = "none" /\ AtEof(c)
        /\ result' = [result EXCEPT ![c] = rq[c].op]
        /\ cpc' = [cpc EXCEPT ![c] = "done"]
        /\ UNCHANGED len
  /\ UNCHANGED <<tasks, rq, got, sockets>> /\ ServerUnchanged

\* the loop of do_get that reads the value: each read appends what it gets
RecvData(c) ==
  /\ cpc[c] = "recv"
  /\ \/ /\ Len(got[c]) >= len[c]
        /\ cpc' = [cpc EXCEPT ![c] = "done"]
        /\ UNCHANGED got
     \/ /\ Len(got[c]) < len[c] /\ Len(got[c]) < Len(down[c].data)
        /\ \E i \in Len(got[c])+1..Len(down[c].data) :
             got' = [got EXCEPT ![c] = SubSeq(down[c].data, 1, i)]
        /\ UNCHANGED cpc
  /\ UNCHANGED <<tasks, rq, result, len, sockets>> /\ ServerUnchanged

\* read returns 0 for ever: the loop of do_get only leaves on n < 0
Spinning(c) == /\ cpc[c] = "recv" /\ AtEof(c)
               /\ Len(got[c]) < len[c] /\ Len(got[c]) >= Len(down[c].data)

\* a client process is killed; the kernel closes its socket
Killed == {c \in Clients : cpc[c] = "killed"}
Kill(c) ==
  /\ ~Gone(c) /\ cpc[c] # "start"
  /\ Cardinality(Killed) < MaxKills
  /\ cpc' = [cpc EXCEPT ![c] = "killed"]
  /\ UNCHANGED <<tasks, rq, result, got, len, sockets>> /\ ServerUnchanged

ClientStep(c) == \/ Connect(c) \/ SendHeader(c) \/ SendData(c)
                 \/ ReadReply(c) \/ RecvData(c)

-----------------------------------------------------------------------------
(* listen_thread, and the worker's loop around dispatch.                   *)

\* accept a connection and enqueue it; an accept that is already waiting when
\* cleanup closes the socket may still return a connection
Listen ==
  /\ server = "up"
  /\ backlog # << >>
  /\ queue' = Append(queue, Head(backlog))
  /\ backlog' = Tail(backlog)
  /\ UNCHANGED <<bad, pc, conn, locals, clients, sockets, table, process, stats, written>>

\* accept fails once cleanup has closed the socket, and -1 is enqueued
ListenBad ==
  /\ server = "up"
  /\ ~listenOpen /\ bad < MaxBadTasks
  /\ queue' = Append(queue, BadFd)
  /\ bad' = bad + 1
  /\ UNCHANGED <<backlog, pc, conn, locals, clients, sockets, table, process, stats, written>>

At(w, from) == server = "up" /\ pc[w] = from
WorkerGoto(w, from, to) == At(w, from) /\ pc' = [pc EXCEPT ![w] = to]

Dequeue(w) ==
  /\ WorkerGoto(w, "idle", "dispatch")
  /\ queue # << >>
  /\ conn' = [conn EXCEPT ![w] = Head(queue)]
  /\ queue' = Tail(queue)
  /\ UNCHANGED <<backlog, bad, locals, clients, sockets, table, process, stats, written>>

\* close(sock) at the end of dispatch, and free(w); the locals are gone
Close(w) ==
  /\ WorkerGoto(w, "close", "idle")
  /\ closed' = [c \in Clients |-> closed[c] \/ c = conn[w]]
  /\ conn' = [conn EXCEPT ![w] = NULL]
  /\ buf' = [buf EXCEPT ![w] = << >>]
  /\ n' = [n EXCEPT ![w] = "zero"]
  /\ size' = [size EXCEPT ![w] = 0]
  /\ ptr' = [ptr EXCEPT ![w] = NULL]
  /\ UNCHANGED <<tasks, clients, up, down, table, process, stats, written>>

-----------------------------------------------------------------------------
(* Replies.                                                                *)

Counted(field) == [stats EXCEPT ![field] = @ + 1]

\* resp_fail: n_fails and an 'X'
RespFail(w, counters) ==
  /\ pc' = [pc EXCEPT ![w] = "close"]
  /\ stats' = [counters EXCEPT !.fails = @ + 1]
  /\ down' = [c \in Clients |->
               IF c = conn[w] THEN [NoReply EXCEPT !.st = "X"] ELSE down[c]]

\* resp_okay without data
Okay(w) ==
  /\ WorkerGoto(w, "okay", "close")
  /\ down' = [down EXCEPT ![conn[w]].st = "K"]
  /\ UNCHANGED <<tasks, conn, locals, clients, up, closed, table, process, stats, written>>

-----------------------------------------------------------------------------
(* dispatch: read the header and branch on the operation.                  *)

Entry(op) == CASE op = "W" -> "w_recv" [] op = "R" -> "r_lookup"
               [] op = "D" -> "d_delete" [] op = "Q" -> "c_close"

\* n is read uninitialised when the announced length is 0
Dispatch(w) ==
  LET c == conn[w]
  IN /\ At(w, "dispatch") /\ c \in Clients /\ up[c] # << >>
     /\ up' = [up EXCEPT ![c] = Tail(@)]
     /\ \/ /\ rq[c].op \in {"W", "R", "D", "Q"}
           /\ pc' = [pc EXCEPT ![w] = Entry(rq[c].op)]
           /\ stats' = IF rq[c].op = "W" THEN Counted("writes") ELSE stats
           /\ UNCHANGED down
        \/ /\ rq[c].op \notin {"W", "R", "D", "Q"}
           /\ RespFail(w, stats)
     /\ \E x \in IF rq[c].op = "W" /\ rq[c].data = << >> THEN Signs ELSE {"zero"} :
          n' = [n EXCEPT ![w] = x]
     /\ size' = [size EXCEPT ![w] = 0]
     /\ buf' = [buf EXCEPT ![w] = [i \in 1..Len(rq[c].data) |-> Garbage]]
  /\ UNCHANGED <<tasks, conn, ptr, clients, closed, table, process, written>>

\* the client is gone, or the task came from a failing accept
DispatchShort(w) ==
  /\ At(w, "dispatch")
  /\ IF conn[w] \in Clients THEN up[conn[w]] = << >> /\ Gone(conn[w]) ELSE TRUE
  /\ RespFail(w, stats)
  /\ UNCHANGED <<tasks, conn, locals, clients, up, closed, table, process, written>>

-----------------------------------------------------------------------------
(* handle_write.                                                           *)

\* read(sock, buf, len) always stores at the start of buf
RecvValue(w) ==
  LET c == conn[w]
      max == Len(buf[w])
  IN /\ At(w, "w_recv") /\ size[w] < max /\ up[c] # << >>
     /\ \E k \in 1..Len(up[c]) :
          /\ PartialReads \/ k = Len(up[c])
          /\ buf' = [buf EXCEPT ![w] =
                       [i \in 1..max |-> IF i <= k THEN up[c][i] ELSE @[i]]]
          /\ up' = [up EXCEPT ![c] = SubSeq(@, k + 1, Len(@))]
          /\ size' = [size EXCEPT ![w] = @ + k]
     /\ n' = [n EXCEPT ![w] = "pos"]
     /\ UNCHANGED <<tasks, pc, conn, ptr, clients, down, closed, table, process,
                    stats, written>>

\* the loop ends: everything has arrived, or the client is gone
RecvEnd(w) ==
  LET c == conn[w]
  IN /\ WorkerGoto(w, "w_recv", "w_trace")
     /\ \/ size[w] >= Len(buf[w]) /\ UNCHANGED n
        \/ /\ size[w] < Len(buf[w]) /\ up[c] = << >> /\ Gone(c)
           /\ \E x \in {"neg", "zero"} : n' = [n EXCEPT ![w] = x]
     /\ UNCHANGED <<tasks, conn, buf, size, ptr, clients, sockets, table, process,
                    stats, written>>

\* mutant: kv_write is not called
TraceWriteNoStore(w) ==
  /\ At(w, "w_trace")
  /\ \/ /\ n[w] # "pos"
        /\ RespFail(w, stats)
     \/ /\ n[w] = "pos"
        /\ pc' = [pc EXCEPT ![w] = "okay"]
        /\ UNCHANGED <<stats, down>>
  /\ UNCHANGED <<tasks, conn, locals, clients, up, closed, table, process, written>>

\* trace(msg), then the test of n
TraceWrite(w) ==
  /\ At(w, "w_trace")
  /\ \/ /\ n[w] # "pos"
        /\ RespFail(w, stats)
     \/ /\ n[w] = "pos"
        /\ pc' = [pc EXCEPT ![w] = "w_store"]
        /\ UNCHANGED <<stats, down>>
  /\ UNCHANGED <<tasks, conn, locals, clients, up, closed, table, process, written>>

Store(w) ==
  LET k == rq[conn[w]].key
  IN /\ At(w, "w_store")
     /\ \/ /\ Overwrite(k, buf[w]) \/ Insert(k, buf[w])
           /\ pc' = [pc EXCEPT ![w] = "okay"]
           /\ written' = [written EXCEPT ![k] = @ \cup {buf[w]}]
           /\ UNCHANGED <<stats, down>>
        \/ /\ TableFull(k, buf[w])
           /\ RespFail(w, stats)
           /\ UNCHANGED written
     /\ UNCHANGED <<tasks, conn, locals, clients, up, closed, process>>

-----------------------------------------------------------------------------
(* handle_read: kv_read returns a pointer into the table's memory, and the *)
(* worker uses it after kv_lock has been released.                         *)

\* mutant: inc_read comes after the test for NULL
ReadLookupLateCount(w) ==
  LET k == rq[conn[w]].key
      i == find_key(k)
  IN /\ At(w, "r_lookup")
     /\ kv_read(k)
     /\ \/ /\ i < 0
           /\ RespFail(w, stats)
           /\ UNCHANGED ptr
        \/ /\ i >= 0
           /\ pc' = [pc EXCEPT ![w] = "r_len"]
           /\ ptr' = [ptr EXCEPT ![w] = values[i]]
           /\ stats' = Counted("reads")
           /\ UNCHANGED down
     /\ UNCHANGED <<tasks, conn, buf, n, size, clients, up, closed, process, written>>

ReadLookup(w) ==
  LET k == rq[conn[w]].key
      i == find_key(k)
  IN /\ At(w, "r_lookup")
     /\ kv_read(k)
     /\ \/ /\ i < 0
           /\ RespFail(w, Counted("reads"))
           /\ UNCHANGED ptr
        \/ /\ i >= 0
           /\ pc' = [pc EXCEPT ![w] = "r_len"]
           /\ ptr' = [ptr EXCEPT ![w] = values[i]]
           /\ stats' = Counted("reads")
           /\ UNCHANGED down
     /\ UNCHANGED <<tasks, conn, buf, n, size, clients, up, closed, process, written>>

Live(b) == heap[b] # Missing
Lengths == {Len(s) : s \in Strings}

\* mutants: the length counts the terminating NUL, or is one short
ReadLenNul(w) ==
  /\ WorkerGoto(w, "r_len", "r_trace")
  /\ size' = [size EXCEPT ![w] = Len(heap[ptr[w]]) + 1]
  /\ UNCHANGED <<tasks, conn, buf, n, ptr, clients, sockets, table, process, stats, written>>

\* strlen(ret): anything, if the buffer has been freed
ReadLen(w) ==
  /\ WorkerGoto(w, "r_len", "r_trace")
  /\ \E m \in IF Live(ptr[w]) THEN {Len(heap[ptr[w]])} ELSE Lengths :
       size' = [size EXCEPT ![w] = m]
  /\ UNCHANGED <<tasks, conn, buf, n, ptr, clients, sockets, table, process, stats, written>>

\* crc32 over the value, and trace(msg)
ReadTrace(w) ==
  /\ WorkerGoto(w, "r_trace", "r_header")
  /\ UNCHANGED <<tasks, conn, locals, clients, sockets, table, process, stats, written>>

\* resp_okay: the header with the length
ReadHeader(w) ==
  /\ WorkerGoto(w, "r_header", IF size[w] > 0 THEN "r_data" ELSE "close")
  /\ down' = [down EXCEPT ![conn[w]] = [st |-> "K", len |-> size[w], data |-> << >>]]
  /\ UNCHANGED <<tasks, conn, locals, clients, up, closed, table, process, stats, written>>

\* The size bytes at ptr: whatever is there, if the value is shorter or freed.
BytesAt(w) ==
  [i \in 1..size[w] |->
     IF Live(ptr[w]) /\ i <= Len(heap[ptr[w]]) THEN heap[ptr[w]][i] ELSE Garbage]

\* resp_okay: the value.  The second write to a client that is gone raises
\* SIGPIPE once its kernel has refused the first one.
ReadData(w) ==
  /\ At(w, "r_data")
  /\ \/ /\ pc' = [pc EXCEPT ![w] = "close"]
        /\ down' = [down EXCEPT ![conn[w]].data = BytesAt(w)]
        /\ UNCHANGED server
     \/ /\ Gone(conn[w])
        /\ server' = "sigpipe"
        /\ UNCHANGED <<pc, down>>
  /\ UNCHANGED <<tasks, conn, locals, clients, up, closed, table, listenOpen, traceOpen,
                 stats, written>>

-----------------------------------------------------------------------------
(* handle_delete.                                                          *)

Delete(w) ==
  /\ WorkerGoto(w, "d_delete", "d_trace")
  /\ stats' = Counted("deletes")
  /\ kv_delete(rq[conn[w]].key)
  /\ UNCHANGED <<tasks, conn, locals, clients, sockets, process, written>>

TraceDelete(w) ==
  /\ WorkerGoto(w, "d_trace", "okay")
  /\ UNCHANGED <<tasks, conn, locals, clients, sockets, table, process, stats, written>>

\* trace(msg) after cleanup has closed the file: fprintf uses a FILE that fclose
\* has freed, which goes unnoticed (the actions above) or crashes the process
TraceClosed(w) ==
  /\ \E l \in {"w_trace", "r_trace", "d_trace"} : At(w, l)
  /\ ~traceOpen
  /\ server' = "crash"
  /\ UNCHANGED <<tasks, pc, conn, locals, clients, sockets, table, listenOpen,
                 traceOpen, stats, written>>

-----------------------------------------------------------------------------
(* cleanup, run by the worker that got a 'Q' or by the control thread.     *)

\* "quit" calls cleanup, the end of the input calls exit(0) right away
AdminQuit ==
  /\ AdminQuits
  /\ \E to \in {"c_close", "c_exit"} : WorkerGoto(Admin, "idle", to)
  /\ UNCHANGED <<tasks, conn, locals, clients, sockets, table, process, stats, written>>

\* mutant: the test of close's result is inverted
CleanupCloseInverted(t) ==
  /\ At(t, "c_close")
  /\ \/ /\ ~listenOpen
        /\ pc' = [pc EXCEPT ![t] = "c_trace"]
        /\ UNCHANGED server
     \/ /\ listenOpen
        /\ server' = "exit1"
        /\ UNCHANGED pc
  /\ listenOpen' = FALSE
  /\ UNCHANGED <<tasks, conn, locals, clients, sockets, table, traceOpen, stats, written>>

\* close(listen_sock): the second thread to get here exits with status 1
CleanupClose(t) ==
  /\ At(t, "c_close")
  /\ \/ /\ listenOpen
        /\ listenOpen' = FALSE
        /\ pc' = [pc EXCEPT ![t] = "c_trace"]
        /\ UNCHANGED server
     \/ /\ ~listenOpen
        /\ server' = "exit1"
        /\ UNCHANGED <<pc, listenOpen>>
  /\ UNCHANGED <<tasks, conn, locals, clients, sockets, table, traceOpen, stats, written>>

\* mutant: cleanup returns instead of calling exit
CleanupTraceReturns(t) ==
  /\ WorkerGoto(t, "c_trace", "idle")
  /\ traceOpen' = FALSE
  /\ UNCHANGED <<tasks, conn, locals, clients, sockets, table, server, listenOpen,
                 stats, written>>

CleanupTrace(t) ==
  /\ WorkerGoto(t, "c_trace", "c_exit")
  /\ traceOpen' = FALSE
  /\ UNCHANGED <<tasks, conn, locals, clients, sockets, table, server, listenOpen,
                 stats, written>>

CleanupExit(t) ==
  /\ At(t, "c_exit")
  /\ server' = "exit0"
  /\ UNCHANGED <<tasks, pc, conn, locals, clients, sockets, table, listenOpen,
                 traceOpen, stats, written>>

Cleanup(t) == CleanupClose(t) \/ CleanupTrace(t) \/ CleanupExit(t)

-----------------------------------------------------------------------------
WorkerStep(w) ==
  \/ Dequeue(w) \/ Dispatch(w) \/ DispatchShort(w) \/ Close(w) \/ Okay(w)
  \/ RecvValue(w) \/ RecvEnd(w) \/ TraceWrite(w) \/ Store(w)
  \/ ReadLookup(w) \/ ReadLen(w) \/ ReadTrace(w) \/ ReadHeader(w) \/ ReadData(w)
  \/ Delete(w) \/ TraceDelete(w) \/ TraceClosed(w)

Next ==
  \/ \E c \in Clients : ClientStep(c) \/ Kill(c)
  \/ Listen \/ ListenBad \/ AdminQuit
  \/ \E w \in Workers : WorkerStep(w)
  \/ \E t \in Threads : Cleanup(t)

Spec == Init /\ [][Next]_vars

\* Processes and threads that can run do run; nobody has to be killed or to
\* type "quit".
Fairness ==
  /\ \A c \in Clients : WF_vars(ClientStep(c))
  /\ WF_vars(Listen)
  /\ \A w \in Workers : WF_vars(WorkerStep(w))
  /\ \A t \in Threads : WF_vars(Cleanup(t))

FairSpec == Spec /\ Fairness

-----------------------------------------------------------------------------
(* Properties.                                                             *)

WorkerLabels == {"idle", "dispatch", "close", "okay", "w_recv", "w_trace", "w_store",
                 "r_lookup", "r_len", "r_trace", "r_header", "r_data", "d_delete",
                 "d_trace", "c_close", "c_trace", "c_exit"}

Counts == [{"writes", "reads", "deletes", "fails"} -> Nat]
Replies == [st : {"none", "K", "X"}, len : Nat, data : Seq(Bytes)]

\* The variables have their types.
TypeOK ==
  /\ server \in {"up", "exit0", "exit1", "sigpipe", "crash"}
  /\ listenOpen \in BOOLEAN /\ traceOpen \in BOOLEAN
  /\ backlog \in Seq(Clients) /\ queue \in Seq(Clients \cup {BadFd})
  /\ bad \in 0..MaxBadTasks
  /\ stats \in Counts
  /\ pc \in [Threads -> WorkerLabels]
  /\ conn \in [Workers -> Clients \cup {NULL, BadFd}]
  /\ buf \in [Workers -> Seq(Bytes)]
  /\ n \in [Workers -> Signs]
  /\ size \in [Workers -> Nat]
  /\ ptr \in [Workers -> Bufs \cup {NULL}]
  /\ cpc \in [Clients -> {"start", "header", "data", "await", "recv", "done", "killed"}]
  /\ rq \in [Clients -> Requests]
  /\ result \in [Clients -> {"none", "K", "X"} \cup Ops]
  /\ got \in [Clients -> Seq(Bytes)] /\ len \in [Clients -> Nat]
  /\ up \in [Clients -> Seq(Bytes \cup {"hdr"})]
  /\ down \in [Clients -> Replies]
  /\ closed \in [Clients -> BOOLEAN]

\* With one worker no other thread calls the store while a reply is on its way.
OneWorker == \A v, w \in DOMAIN conn : v = w

\* kvstore.c, line 14: "kv-store must be implemented as a monitor".  The memory
\* that handle_read looks at belongs to the store as long as it looks at it.
NoUseAfterFree ==
  \A w \in Workers : pc[w] \in {"r_len", "r_trace", "r_header", "r_data"} => Live(ptr[w])

\* A do_get that succeeds returns a value that was stored under its key.
ReadReturnsWritten ==
  \A c \in Clients : rq[c].op = "R" /\ result[c] = "K" /\ cpc[c] = "done"
                     => got[c] \in written[rq[c].key]

\* worker.c, handle_read: with one worker a value is not freed while it is read,
\* and what a read returns was written under the key.
ReadsWritten == OneWorker => NoUseAfterFree /\ ReadReturnsWritten

\* A do_set that succeeds has stored the bytes that the client sent
\* (dbclient.c, line 524 asserts it of the value "val0").
AckMeansStored ==
  \A c \in Clients : rq[c].op = "W" /\ result[c] = "K"
                     => rq[c].data \in written[rq[c].key]

\* The failures the server counts are the 'X' replies it sends, one for each
\* connection at most, and one for every failed accept that was dispatched.
FailsAreReplies ==
  LET replied == {c \in Clients : down[c].st = "X"}
      waiting == {i \in 1..Len(queue) : queue[i] = BadFd}
      held == {w \in DOMAIN conn : pc[w] = "dispatch" /\ conn[w] = BadFd}
  IN stats.fails = Cardinality(replied) + bad - Cardinality(waiting) - Cardinality(held)

\* When the clients are through and the workers idle, the counters of stats.c
\* say how many requests of each kind the clients made.
CountersExact ==
  LET made(op) == Cardinality({c \in Clients : rq[c].op = op})
  IN server = "up" /\ (\A c \in Clients : cpc[c] = "done" /\ closed[c]) =>
       /\ stats.writes = made("W")
       /\ stats.reads = made("R")
       /\ stats.deletes = made("D")

\* stats.c, worker.c: the counters are what has been done, and inc_fail counts the
\* replies of failure.
CountsExact == CountersExact /\ FailsAreReplies

\* The process only ends when somebody asked it to or a client died during its
\* do_get; with status 1 only when two threads are in cleanup, and by a crash
\* only in the step of cleanup between fclose and exit.
ExitReason ==
  LET quitters == {t \in Threads : pc[t] \in {"c_close", "c_trace", "c_exit"}}
  IN /\ server = "exit0" => quitters # {}
     /\ server = "exit1" => Cardinality(quitters) > 1
     /\ server = "crash" => \E t \in Threads : pc[t] = "c_exit"
     /\ server = "sigpipe" => \E c \in Killed : rq[c].op = "R" /\ down[c].st = "K"

\* dbserver.c, worker.c: the process keeps its types and ends for a reason.
ServerSound == TypeOK /\ ExitReason

\* Every client gets through, unless the server went away in the middle of a
\* value: then do_get reads at the end of file for ever.
ClientsFinish == <>(\A c \in Clients : Gone(c) \/ Spinning(c))

\* A 'Q' that has been sent ends the server.
QuitStops == \A c \in Clients : (rq[c].op = "Q" /\ up[c] # << >>) ~> (server # "up")
=============================================================================
