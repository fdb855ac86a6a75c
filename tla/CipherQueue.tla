---------------------------- MODULE CipherQueue ----------------------------
(***************************************************************************)
(* The queue of lab 1 (queue.c) and the two programs that run a file of    *)
(* commands on it (queue_main.c, ciphered_queue_main.c).  A line of the    *)
(* file is its form: what strtok makes of it.  Nodes are addresses, and    *)
(* malloc may give again what has been freed.                              *)
(***************************************************************************)
EXTENDS Caesar, FiniteSets, SequencesExt

CONSTANTS
  Node, NULL,           \* addresses of nodes
  Words, Keys,
  Forms,                \* the forms of lines in the files
  MaxLines

VARIABLES
  pc,                   \* "run", "done", "error" (exit with ERROR) or "crash"
  head, tail,           \* the queue_t, pointers to nodes
  next, data,           \* the fields of the nodes
  heap,                 \* nodes that are allocated
  lines,                \* lines read
  fifo,                 \* what was put in: words with the key they were encoded with
  printed, wanted       \* the words of the last output, and those it should have

vars == <<pc, head, tail, next, data, heap, lines, fifo, printed, wanted>>

NoKey == INT_MIN - 1
Nothing == << >>
NullText == <<78, 85, 76, 76>>

Init ==
  /\ pc = "run" /\ lines = 0
  /\ head = NULL /\ tail = NULL
  /\ next = [n \in Node |-> NULL] /\ data = [n \in Node |-> Nothing]
  /\ heap = {}
  /\ fifo = << >>
  /\ printed = Nothing /\ wanted = Nothing

\* the nodes from n on, in order
Chain(n) ==
  LET from[k \in 0..Cardinality(Node), m \in Node \cup {NULL}] ==
        IF m = NULL \/ k = 0 THEN << >> ELSE <<m>> \o from[k - 1, next[m]]
  IN from[Cardinality(Node), n]

-----------------------------------------------------------------------------
(* queue.c                                                                 *)

Empty == head = NULL

enqueue(d) ==
  \E n \in Node \ heap :
    /\ heap' = heap \cup {n}
    /\ data' = [data EXCEPT ![n] = d]
    /\ next' = IF Empty THEN [next EXCEPT ![n] = NULL]
               ELSE [next EXCEPT ![n] = NULL, ![tail] = n]
    /\ head' = IF Empty THEN n ELSE head
    /\ tail' = n

\* dequeue of a queue that is not empty, and free_node of the node it returns
FreeNode(n) == heap' = heap \ {n}

dequeue ==
  /\ head' = next[head]
  /\ FreeNode(head)
  /\ UNCHANGED <<tail, next, data>>

\* free_queue: every node from the head on; and the lists that are left
free_queue == heap' = heap \ ToSet(Chain(head))

-----------------------------------------------------------------------------
(* process_line2; process_line has the forms without a cipher              *)
Goes(form) == pc = "run" /\ lines < MaxLines /\ form \in Forms /\ lines' = lines + 1

Shows(text, expected) == printed' = <<text>> /\ wanted' = <<expected>>
Quiet == UNCHANGED <<printed, wanted>>
Keeps == UNCHANGED <<head, tail, next, data, heap, fifo>>

\* "enqueue WORD\n"
EnqueueLine ==
  /\ Goes("enqueue word")
  /\ \E w \in Words : enqueue(w) /\ fifo' = Append(fifo, [word |-> w, key |-> NoKey])
  /\ Quiet /\ UNCHANGED pc

\* mutant: the word is queued as it is
Encoded_plain(w, k) == w

\* the data that encode_enqueue queues
Encoded(w, k) == encode(w, k)

\* "encode_enqueue KEY WORD\n"
EncodeLine ==
  /\ Goes("encode_enqueue key word")
  /\ \E w \in Words, k \in Keys :
       /\ enqueue(Encoded(w, k))
       /\ fifo' = Append(fifo, [word |-> w, key |-> k])
  /\ Quiet /\ UNCHANGED pc

\* what the element that is first has as its data
Stored(e) == IF e.key = NoKey THEN e.word ELSE encode(e.word, e.key)

\* "dequeue\n"
DequeueLine ==
  /\ Goes("dequeue")
  /\ UNCHANGED pc
  /\ IF head = NULL
       THEN Shows(NullText, IF fifo = << >> THEN NullText ELSE Stored(Head(fifo))) /\ Keeps
       ELSE /\ dequeue
            /\ Shows(data[head], IF fifo = << >> THEN Nothing ELSE Stored(Head(fifo)))
            /\ fifo' = Tail(fifo)

\* what dequeue_decode prints: ILLCHAR is not decoded
Decoded(d, k) == IF d = ILLCHAR THEN d ELSE decode(d, k)

\* the word of an element that was encoded with the same key, ILLCHAR for a word
\* that could not be, and the data decoded for every other element
Wanted(e, k) ==
  IF e.key = k THEN IF Illegal(e.word) = {} THEN e.word ELSE ILLCHAR
  ELSE IF Stored(e) = ILLCHAR /\ e.key # NoKey THEN ILLCHAR ELSE decode(Stored(e), k)

\* "dequeue_decode KEY\n": the node is used before it is known that there is one
DecodeLine ==
  /\ Goes("dequeue_decode key")
  /\ IF head = NULL
       THEN pc' = "crash" /\ Keeps /\ Quiet
       ELSE \E k \in Keys :
              /\ dequeue
              /\ Shows(Decoded(data[head], k), IF fifo = << >> THEN Nothing ELSE Wanted(Head(fifo), k))
              /\ fifo' = Tail(fifo)
              /\ UNCHANGED pc

\* a line with the argument missing after a space: strtok gives NULL, and strlen
\* is called on it ("enqueue \n", "encode_enqueue KEY\n")
NoArgument ==
  /\ \E form \in {"enqueue space", "encode_enqueue key"} : Goes(form)
  /\ pc' = "crash" /\ Keeps /\ Quiet

\* error(): a line that is none of these ("enqueue\n", an unknown word, a last
\* "dequeue" without a newline)
ErrorLine ==
  /\ Goes("other")
  /\ pc' = "error" /\ free_queue
  /\ UNCHANGED <<head, tail, next, data, fifo>> /\ Quiet

\* the end of the file: print_queue, free_and_close
Finish ==
  /\ pc = "run"
  /\ pc' = "done" /\ free_queue
  /\ printed' = [k \in 1..Len(Chain(head)) |-> data[Chain(head)[k]]]
  /\ wanted' = [k \in 1..Len(fifo) |-> Stored(fifo[k])]
  /\ UNCHANGED <<head, tail, next, data, fifo, lines>>

Next ==
  EnqueueLine \/ EncodeLine \/ DequeueLine \/ DecodeLine \/ NoArgument \/ ErrorLine \/ Finish

Spec == Init /\ [][Next]_vars

-----------------------------------------------------------------------------
\* The list of nodes is the queue: as many nodes as there are elements in it, all
\* of them allocated, with the data of the elements in order, and the last one
\* where the tail points.  Nothing else is allocated.
ListIsQueue ==
  pc = "run" =>
    LET c == Chain(head)
    IN /\ Len(c) = Len(fifo) /\ ToSet(c) = heap /\ Cardinality(heap) = Len(c)
       /\ \A k \in 1..Len(c) : data[c[k]] = Stored(fifo[k])
       /\ c # << >> => tail = c[Len(c)]

\* lab1-shell-APIs.txt:130: a word that was encoded comes out as it went in when it
\* is decoded with its key, in the order of the lines, and the last line shows
\* what is left.  A plain word "ILLCHAR" is the exception.
FirstOut ==
  (\A w \in Words : w # ILLCHAR) => printed = wanted

\* lab1-shell-APIs.txt:92-93: the program frees everything before it ends, also
\* when it ends with ERROR.
FreedAtExit == pc \in {"done", "error"} => heap = {}
=============================================================================
