------------------------------- MODULE Guard -------------------------------
(***************************************************************************)
(* __cxa_guard_acquire and __cxa_guard_release (lab 4, k-hardware.cc): the *)
(* lock around the initialisation of a static variable.  The functions are *)
(* written for processors that run beside each other; each access to the   *)
(* atomic guard is a step.                                                 *)
(***************************************************************************)
CONSTANT Cpus

VARIABLES
  guard,                \* 0, 1 (locked) or 2 (initialized)
  inits,                \* how often the statics have been initialized
  pc                    \* of each processor

vars == <<guard, inits, pc>>

Init ==
  /\ guard = 0 /\ inits = {}
  /\ pc = [c \in Cpus |-> "load"]

\* the first, relaxed load
Load(c) ==
  /\ pc[c] = "load"
  /\ pc' = [pc EXCEPT ![c] = IF guard = 2 THEN "use" ELSE "exchange"]
  /\ UNCHANGED <<guard, inits>>

\* mutant: a load and a store instead of an exchange, so that 1 does not keep others out
Exchange_blind(c) ==
  /\ pc[c] = "exchange"
  /\ guard' = 1
  /\ pc' = [pc EXCEPT ![c] = IF guard = 2 THEN "restore" ELSE "init"]
  /\ UNCHANGED inits

\* old_value = guard->exchange(1)
Exchange(c) ==
  /\ pc[c] = "exchange"
  /\ guard' = 1
  /\ pc' = [pc EXCEPT ![c] = CASE guard = 2 -> "restore"
                               [] guard = 1 -> "exchange"
                               [] OTHER -> "init"]
  /\ UNCHANGED inits

\* guard->exchange(2) after a processor has taken the 2 away
Restore(c) ==
  /\ pc[c] = "restore"
  /\ guard' = 2
  /\ pc' = [pc EXCEPT ![c] = "use"]
  /\ UNCHANGED inits

\* the caller of a 1 initializes the statics ...
Initialize(c) ==
  /\ pc[c] = "init"
  /\ inits' = inits \cup {c}
  /\ pc' = [pc EXCEPT ![c] = "release"]
  /\ UNCHANGED guard

\* ... and calls __cxa_guard_release
Release(c) ==
  /\ pc[c] = "release"
  /\ guard' = 2
  /\ pc' = [pc EXCEPT ![c] = "use"]
  /\ UNCHANGED inits

Step(c) == Load(c) \/ Exchange(c) \/ Restore(c) \/ Initialize(c) \/ Release(c)

Next == \E c \in Cpus : Step(c)

\* each processor goes on
Spec == Init /\ [][Next]_vars /\ \A c \in Cpus : WF_vars(Step(c))

-----------------------------------------------------------------------------
(* Properties.                                                             *)

\* The variables keep their types.
TypeOK ==
  /\ guard \in {0, 1, 2} /\ inits \subseteq Cpus
  /\ pc \in [Cpus -> {"load", "exchange", "restore", "init", "release", "use"}]

\* k-hardware.cc:1070-1073: the statics are initialized once, by one processor.
InitializedOnce == \A c, d \in inits : c = d

\* ... and no processor goes on to use them before.
UsesInitialized == \A c \in Cpus : pc[c] = "use" => inits # {}

\* Every processor gets to use them: the exchange of one that finds the 2 never
\* leaves the guard locked for the others.
AllUse == \A c \in Cpus : <>(pc[c] = "use")
=============================================================================
