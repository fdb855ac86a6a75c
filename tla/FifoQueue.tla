------------------------------ MODULE FifoQueue ------------------------------
(***************************************************************************)
(* What the work queue of the dbserver promises its users (queue.h): the   *)
(* tasks come out in the order in which they went in, each of them once.   *)
(* A task is identified by the connection it carries, and connections are  *)
(* numbered in the order in which the listener accepts them.               *)
(***************************************************************************)
EXTENDS Naturals, Sequences

CONSTANT MaxConns       \* bound on the number of connections ever accepted

VARIABLES
  arrived,              \* how many connections have been enqueued
  pending,              \* the connections enqueued and not yet dequeued
  delivered             \* the connections dequeued, in that order

fifoVars == <<arrived, pending, delivered>>

FifoInit ==
  /\ arrived = 0
  /\ pending = << >>
  /\ delivered = << >>

Put ==
  /\ arrived < MaxConns
  /\ arrived' = arrived + 1
  /\ pending' = Append(pending, arrived + 1)
  /\ UNCHANGED delivered

Get ==
  /\ pending # << >>
  /\ delivered' = Append(delivered, Head(pending))
  /\ pending' = Tail(pending)
  /\ UNCHANGED arrived

FifoNext == Put \/ Get

FifoSafety == FifoInit /\ [][FifoNext]_fifoVars

\* A pending connection does not stay pending for ever.
FifoSpec == FifoSafety /\ WF_fifoVars(Get)
=============================================================================
