---------------------------- MODULE CmdRunProofs ----------------------------
(***************************************************************************)
(* Proofs about the executor of the shell (lab 2), for any number of       *)
(* processes and any input of parsed lines.                                *)
(***************************************************************************)
EXTENDS CmdRun, WellFoundedInduction, TLAPS

-----------------------------------------------------------------------------
(* The lines.                                                              *)

\* The control operators that cmdparse.c puts after a command.
Ops == {"&&", "||", "end", ";", "|", "&"}

\* cmdparse.c: the commands of the input are in C. Each has one of the control operators,
\* and so have those in its parentheses.
Grammar(C) ==
  /\ \A c \in C : c.op \in Ops /\ c.sub \in Seq(C)
  /\ Inputs \subseteq Seq(Seq(C))

\* No subshell comes after a pipe.
Linked(list) == \A i \in 1..(Len(list) - 1) : list[i].op = "|" => list[i + 1].sub = << >>

\* The lines whose pipes cmd_exec connects: a program before a pipe is found and has
\* no <, and after the pipe comes no subshell.
Connects(C) ==
  /\ \A c \in C : /\ Linked(c.sub)
                  /\ c.op = "|" => ~c.in /\ c.prog # "missing"
  /\ \A lines \in Inputs : \A k \in 1..Len(lines) : Linked(lines[k])

-----------------------------------------------------------------------------
(* The inductive invariants.                                               *)

\* The command of a process that has none, and the ends of files and pipes.
NoCmd == Cmd("ok", FALSE, FALSE, "end")
Ends == {"tty", "file", "r", "w"} \X Nat

\* What a process is.
Process(C) ==
  [st : {"none", "shell", "child", "prog", "zombie"}, parent : 0..MaxProc, main : BOOLEAN,
   pc : {"none", "prompt", "exec", "wait"}, list : Seq(C), status : Nat, pass : Nat,
   pipe : Nat, from : Nat, wait : 0..MaxProc, stdin : Ends, stdout : Ends,
   open : SUBSET Ends, cmd : C \cup {NoCmd}]

\* A shell that waits, and a child that is about to start, have not done with their list.
Busy(s) ==
  /\ s.st = "shell" /\ s.pc = "wait" => s.list # << >>
  /\ s.st = "child" => s.list # << >> /\ s.pc = "exec"

\* The state has its types, and nobody has run out of commands too early.
TypeInv(C) ==
  /\ input \in Seq(Seq(C)) /\ proc \in [Pids -> Process(C)] /\ pipes \in Nat
  /\ \A p \in Pids : Busy(proc[p])

\* cmd_line_exec: a child that runs is one that its shell waits for, or one that it
\* need not wait for.
Waits(p, q) == proc[p].st = "shell" /\ proc[p].pc = "wait" /\ proc[p].wait = q
ChildInv ==
  \A p, q \in Pids : Running(q) /\ proc[q].parent = p => is_continue_cmd(proc[q].cmd) \/ Waits(p, q)

\* cmd_exec: a process that will start commands keeps the read end of the pipe before
\* the next one, which is no subshell then; the ends of a pipe are what a process has
\* as its input and output.
GoodShell(s) ==
  /\ Linked(s.list)
  /\ s.pass # 0 => /\ R(s.pass) \in s.open /\ s.pc = "exec"
                   /\ s.list # << >> => Head(s.list).sub = << >>
GoodChild(s) ==
  /\ Linked(s.list)
  /\ s.pc = "exec" /\ s.list # << >> /\ s.cmd = Head(s.list)
  /\ s.from = s.pass
  /\ s.pass # 0 => R(s.pass) \in s.open /\ s.cmd.sub = << >>
  /\ s.pipe # 0 <=> s.cmd.op = "|"
Plugged(s) ==
  /\ s.pipe # 0 => s.stdout = W(s.pipe)
  /\ s.from # 0 => s.stdin = R(s.from)
GoodProcess(s) ==
  /\ s.st = "shell" => GoodShell(s)
  /\ s.st = "child" => GoodChild(s)
  /\ s.st = "prog" \/ (s.st = "shell" /\ ~s.main) => Plugged(s)

\* All processes are so, and so are the lines that are still to come.
PipeInv == /\ \A p \in Pids : GoodProcess(proc[p])
           /\ \A k \in 1..Len(input) : Linked(input[k])

-----------------------------------------------------------------------------
(* What a step does to the processes.                                      *)

\* A process that does not exist can be in Process.
LEMMA NoneType ==
  ASSUME NEW C
  PROVE  /\ None \in Process(C) /\ None.st = "none"
         /\ \A par \in 0..MaxProc, code \in Nat, c \in C \cup {NoCmd} :
              [None EXCEPT !.st = "zombie", !.parent = par, !.status = code, !.cmd = c]
                \in Process(C)
<1>1. Tty \in Ends /\ << >> \in Seq(C) /\ 0 \in 0..MaxProc
  BY RunAssumption DEF Tty, Ends
<1>2. None \in Process(C)
  BY <1>1, Zenon DEF None, Process, NoCmd
<1>3. None.st = "none"
  BY DEF None
<1>4. \A par \in 0..MaxProc, code \in Nat, c \in C \cup {NoCmd} :
        [None EXCEPT !.st = "zombie", !.parent = par, !.status = code, !.cmd = c] \in Process(C)
  BY <1>2, Zenon DEF Process
<1> QED BY <1>2, <1>3, <1>4

\* What becomes of a process when another exits or waits: nothing, or it is reaped, or
\* it loses its parent.
Left(r, s) == s = r \/ (r.st = "zombie" /\ s = None) \/ s = [r EXCEPT !.parent = 0]

\* exit in cmdrun.c, main.c and the programs.
LEMMA ExitEffect ==
  ASSUME NEW C, NEW f \in [Pids -> Process(C)], NEW p \in Pids, NEW code \in Nat,
         NEW g, g = Exited(f, p, code)
  PROVE  /\ g \in [Pids -> Process(C)] /\ g[p].st \in {"none", "zombie"}
         /\ \A q \in Pids \ {p} : Left(f[q], g[q])
<1>1. ASSUME NEW q \in Pids
      PROVE  /\ g[q] \in Process(C)
             /\ q = p => g[q].st \in {"none", "zombie"}
             /\ q # p => Left(f[q], g[q])
  <2>0. f[q] \in Process(C) /\ f[p] \in Process(C)
    OBVIOUS
  <2>1. CASE q = p /\ f[p].parent = 0
    <3>1. g[q] = None
      BY <2>1 DEF Exited
    <3> QED BY <2>1, <3>1, NoneType, Zenon
  <2>2. CASE q = p /\ f[p].parent # 0
    <3> DEFINE z == [None EXCEPT !.st = "zombie", !.parent = f[p].parent, !.status = code,
                                 !.cmd = f[p].cmd]
    <3>1. g[q] = z
      BY <2>2 DEF Exited
    <3>2. z \in Process(C)
      <4>1. f[p].parent \in 0..MaxProc /\ f[p].cmd \in C \cup {NoCmd}
        BY <2>0 DEF Process
      <4> QED BY <4>1, NoneType, Zenon
    <3>3. z.st = "zombie"
      BY DEF None
    <3> QED BY <2>2, <3>1, <3>2, <3>3
  <2>3. CASE q # p /\ f[q].st # "none" /\ f[q].parent = p
    <3>1. (f[q].st = "zombie" /\ g[q] = None) \/ g[q] = [f[q] EXCEPT !.parent = 0]
      BY <2>3 DEF Exited
    <3>2. [f[q] EXCEPT !.parent = 0] \in Process(C)
      <4>1. 0 \in 0..MaxProc
        BY RunAssumption
      <4> QED BY <2>0, <4>1, Zenon DEF Process
    <3> QED BY <2>3, <3>1, <3>2, NoneType, Zenon DEF Left
  <2>4. CASE q # p /\ ~(f[q].st # "none" /\ f[q].parent = p)
    <3>1. g[q] = f[q]
      BY <2>4 DEF Exited
    <3> QED BY <2>0, <2>4, <3>1 DEF Left
  <2> QED BY <2>1, <2>2, <2>3, <2>4
<1>2. g = [q \in Pids |-> g[q]]
  BY DEF Exited
<1> QED BY <1>1, <1>2

\* A step of p that starts no process: the others are left alone or lose p, and p
\* becomes s.
Alone(C, p, s) ==
  /\ s \in Process(C)
  /\ proc' \in [Pids -> Process(C)]
  /\ proc'[p] = s
  /\ \A q \in Pids \ {p} : Left(proc[q], proc'[q])

\* p has exited.
Gone(C, p) == \E s : s.st \in {"none", "zombie"} /\ Alone(C, p, s)

\* A step that is an exit.
LEMMA Exits ==
  ASSUME NEW C, TypeInv(C), NEW p \in Pids, NEW code \in Nat, proc' = Exited(proc, p, code)
  PROVE  Gone(C, p)
<1>1. proc \in [Pids -> Process(C)]
  BY DEF TypeInv
<1>2. /\ proc' \in [Pids -> Process(C)] /\ proc'[p].st \in {"none", "zombie"}
      /\ \A q \in Pids \ {p} : Left(proc[q], proc'[q])
  BY <1>1, ExitEffect
<1> QED BY <1>2 DEF Gone, Alone

\* The rest of a list without a subshell after a pipe has none either.
LEMMA TailLinked ==
  ASSUME NEW C, NEW list \in Seq(C), list # << >>, Linked(list)
  PROVE  Linked(Tail(list))
<1>1. Tail(list) \in Seq(C) /\ Len(Tail(list)) = Len(list) - 1
      /\ \A i \in 1..(Len(list) - 1) : Tail(list)[i] = list[i + 1]
  OBVIOUS
<1> QED BY <1>1 DEF Linked

\* cmd_line_exec goes on in its list.
LEMMA AfterType ==
  ASSUME NEW C, NEW list \in Seq(C), list # << >>, NEW status
  PROVE  After(list, status) \in Seq(C) /\ (Linked(list) => Linked(After(list, status)))
<1>1. Tail(list) \in Seq(C)
  OBVIOUS
<1>2. Linked(list) => Linked(Tail(list))
  BY TailLinked
<1> DEFINE t == SubSeq(list, 3, Len(list))
<1>3. t \in Seq(C)
  OBVIOUS
<1>4. Len(t) = IF Len(list) < 3 THEN 0 ELSE Len(list) - 2
  OBVIOUS
<1>5. \A i \in 1..Len(t) : t[i] = list[i + 2]
  OBVIOUS
<1>6. Linked(list) => Linked(t)
  <2> HIDE DEF t
  <2>1. Len(list) \in Nat
    OBVIOUS
  <2>2. ASSUME Linked(list), NEW i \in 1..(Len(t) - 1), t[i].op = "|"
        PROVE  t[i + 1].sub = << >>
    <3>1. i + 2 \in 1..(Len(list) - 1) /\ i \in 1..Len(t) /\ i + 1 \in 1..Len(t)
      BY <1>4, <2>1
    <3>2. t[i] = list[i + 2] /\ t[i + 1] = list[(i + 2) + 1]
      BY <1>5, <3>1
    <3> QED BY <2>2, <3>1, <3>2 DEF Linked
  <2> QED BY <2>2 DEF Linked
<1> QED BY <1>1, <1>2, <1>3, <1>6 DEF After

\* main reads a line, or ends.
LEMMA ReadLineStep ==
  ASSUME NEW C, TypeInv(C), NEW p \in Pids, ReadLine(p)
  PROVE  \/ Gone(C, p) /\ UNCHANGED input
         \/ /\ input # << >> /\ input' = Tail(input)
            /\ Alone(C, p, [proc[p] EXCEPT !.list = Head(input), !.pc = "exec", !.status = 0])
<1>1. CASE proc' = Exited(proc, p, 0) /\ UNCHANGED <<input, ran>>
  BY <1>1, Exits
<1>2. CASE input # << >> /\ proc[p].stdin = Tty
  <2> DEFINE s == [proc[p] EXCEPT !.list = Head(input), !.pc = "exec", !.status = 0]
  <2>1. proc' = [proc EXCEPT ![p] = s] /\ input' = Tail(input)
    BY <1>2 DEF ReadLine
  <2>2. Head(input) \in Seq(C)
    BY <1>2 DEF TypeInv
  <2>3. s \in Process(C)
    <3>1. proc[p] \in Process(C)
      BY DEF TypeInv
    <3> QED BY <2>2, <3>1, Zenon DEF Process
  <2> HIDE DEF s
  <2>4. Alone(C, p, s)
    BY <2>1, <2>3 DEF Alone, TypeInv, Left
  <2> QED BY <1>2, <2>1, <2>4 DEF s
<1> QED BY <1>1, <1>2 DEF ReadLine

\* cmd_line_exec gets the status of the command that it waits for.
LEMMA WaitStep ==
  ASSUME NEW C, TypeInv(C), NEW p \in Pids, waitpid(p) \/ WaitNone(p)
  PROVE  /\ UNCHANGED input /\ proc[p].st = "shell" /\ proc[p].pc = "wait" /\ proc[p].list # << >>
         /\ proc[p].wait = 0 \/ proc[proc[p].wait].st = "zombie"
         /\ \E st : Alone(C, p, [proc[p] EXCEPT !.status = st, !.pc = "exec", !.wait = 0,
                                                !.list = After(proc[p].list, st)])
<1>0. /\ UNCHANGED input /\ proc[p].st = "shell" /\ proc[p].pc = "wait" /\ proc[p].list # << >>
      /\ proc[p].wait = 0 \/ proc[proc[p].wait].st = "zombie"
  BY DEF waitpid, WaitNone, TypeInv, Busy
<1> DEFINE s(st) == [proc[p] EXCEPT !.status = st, !.pc = "exec", !.wait = 0,
                                    !.list = After(proc[p].list, st)]
<1>1. ASSUME NEW st \in Nat PROVE s(st) \in Process(C)
  <2>1. After(proc[p].list, st) \in Seq(C)
    BY <1>0, AfterType DEF TypeInv, Process
  <2>2. 0 \in 0..MaxProc
    BY RunAssumption
  <2>3. proc[p] \in Process(C)
    BY DEF TypeInv
  <2> HIDE DEF After
  <2> QED BY <2>1, <2>2, <2>3, Zenon DEF Process
<1>2. CASE waitpid(p)
  <2> DEFINE q == proc[p].wait
  <2>1. q \in Pids /\ q # p /\ proc[q].status \in Nat /\ proc[q].st = "zombie"
    BY <1>0, <1>2, RunAssumption DEF waitpid, TypeInv, Process, Pids
  <2>2. proc' = [proc EXCEPT ![q] = None, ![p] = s(proc[q].status)]
    BY <1>2 DEF waitpid
  <2> HIDE DEF s, q
  <2>3. Alone(C, p, s(proc[q].status))
    BY <1>1, <2>1, <2>2, NoneType, Zenon DEF Alone, TypeInv, Left
  <2> QED BY <1>0, <2>3, Zenon DEF s
<1>3. CASE WaitNone(p)
  <2>1. PICK st \in {0, 1} :
          proc' = [proc EXCEPT ![p] = [proc[p] EXCEPT !.status = st, !.pc = "exec",
                                                      !.list = After(proc[p].list, st)]]
    BY <1>3, Zenon DEF WaitNone
  <2>2. [proc[p] EXCEPT !.status = st, !.pc = "exec", !.list = After(proc[p].list, st)] = s(st)
    BY <1>0, <1>3, Zenon DEF WaitNone, TypeInv, Process
  <2>3. proc' = [proc EXCEPT ![p] = s(st)]
    BY <2>1, <2>2, Zenon
  <2> HIDE DEF s
  <2>4. Alone(C, p, s(st))
    BY <1>1, <2>3 DEF Alone, TypeInv, Left
  <2> QED BY <1>0, <2>4, Zenon DEF s
<1> QED BY <1>2, <1>3, Zenon

\* What the exit of two processes leaves.
LEMMA LeftTwice ==
  ASSUME NEW C, NEW r \in Process(C), NEW s \in Process(C), NEW t, Left(r, s), Left(s, t)
  PROVE  Left(r, t)
<1>1. CASE s = None
  <2>1. [None EXCEPT !.parent = 0] = None
    <3>1. None \in Process(C) /\ None.parent = 0
      BY NoneType, Zenon DEF None
    <3> QED BY <3>1 DEF Process
  <2> QED BY <1>1, <2>1, NoneType, Zenon DEF Left
<1>2. CASE s = [r EXCEPT !.parent = 0]
  <2>1. [s EXCEPT !.parent = 0] = s /\ s.st = r.st
    BY <1>2, Zenon DEF Process
  <2> QED BY <1>2, <2>1 DEF Left
<1> QED BY <1>1, <1>2 DEF Left

\* The end of the list, in main and in a subshell.
LEMMA EndListStep ==
  ASSUME NEW C, TypeInv(C), NEW p \in Pids, EndList(p)
  PROVE  /\ UNCHANGED input
         /\ Gone(C, p) \/ Alone(C, p, [proc[p] EXCEPT !.pc = "prompt", !.pass = 0])
<1> DEFINE reaped == [q \in Pids |-> IF proc[q].st = "zombie" /\ proc[q].parent = p THEN None
                                     ELSE proc[q]]
<1>0. proc \in [Pids -> Process(C)] /\ proc[p].st = "shell" /\ UNCHANGED input
  BY DEF TypeInv, EndList
<1>1. /\ reaped \in [Pids -> Process(C)] /\ reaped[p] = proc[p]
      /\ \A q \in Pids : Left(proc[q], reaped[q])
  BY <1>0, NoneType, Zenon DEF Left
<1>2. proc' = IF proc[p].main THEN [reaped EXCEPT ![p].pc = "prompt", ![p].pass = 0]
              ELSE Exited(reaped, p, proc[p].status)
  BY DEF EndList
<1> HIDE DEF reaped
<1>3. CASE proc[p].main
  <2> DEFINE s == [proc[p] EXCEPT !.pc = "prompt", !.pass = 0]
  <2>1. proc' = [reaped EXCEPT ![p].pc = "prompt", ![p].pass = 0]
    BY <1>2, <1>3
  <2>2. proc' = [reaped EXCEPT ![p] = s]
    BY <1>1, <2>1, Zenon
  <2>3. s \in Process(C)
    <3>1. proc[p] \in Process(C)
      BY <1>0
    <3> QED BY <3>1, Zenon DEF Process
  <2> HIDE DEF s
  <2>4. Alone(C, p, s)
    BY <1>1, <2>2, <2>3 DEF Alone
  <2> QED BY <1>0, <2>4 DEF s
<1>4. CASE ~proc[p].main
  <2>1. proc' = Exited(reaped, p, proc[p].status)
    BY <1>2, <1>4
  <2>2. proc[p].status \in Nat
    BY <1>0 DEF Process
  <2>3. /\ proc' \in [Pids -> Process(C)] /\ proc'[p].st \in {"none", "zombie"}
        /\ \A q \in Pids \ {p} : Left(reaped[q], proc'[q])
    BY <1>1, <2>1, <2>2, ExitEffect
  <2>4. ASSUME NEW q \in Pids \ {p} PROVE Left(proc[q], proc'[q])
    <3>1. proc[q] \in Process(C) /\ reaped[q] \in Process(C)
      BY <1>0, <1>1
    <3> QED BY <1>1, <2>3, <3>1, LeftTwice
  <2> QED BY <1>0, <2>3, <2>4 DEF Gone, Alone
<1> QED BY <1>3, <1>4

\* A set of process numbers that is not empty has a smallest one.
LEMMA Smallest ==
  ASSUME NEW S \in SUBSET Nat, S # {}
  PROVE  Min(S) \in S
<1> DEFINE Rel == {ss \in Nat \X Nat : ss[1] < ss[2]}
<1>1. IsWellFoundedOn(Rel, Nat)
  BY NatLessThanWellFounded DEF OpToRel
<1>2. PICK x \in S : \A y \in S : ~(<<y, x>> \in Rel)
  BY <1>1, WFMin, Zenon
<1>3. \A y \in S : ~(y < x)
  BY <1>2, Zenon
<1>4. \A y \in S : x <= y
  BY <1>3
<1> QED BY <1>4, Zenon DEF Min

\* fork takes a process number that is free.
LEMMA FreeNumber ==
  ASSUME Free # {}
  PROVE  Min(Free) \in Pids /\ proc[Min(Free)].st = "none"
<1>1. Free \in SUBSET Nat
  BY RunAssumption DEF Free, Pids
<1>2. Min(Free) \in Free
  BY <1>1, Smallest
<1> QED BY <1>2 DEF Free

\* The ends of a new pipe.
LEMMA PipeEnds ==
  ASSUME NEW k \in Nat
  PROVE  R(k) \in Ends /\ W(k) \in Ends /\ File \in Ends /\ Tty \in Ends
  BY DEF R, W, File, Tty, Ends

\* A shell goes on after a command.
LEMMA StartedType ==
  ASSUME NEW C, NEW s \in Process(C), s.list # << >>, NEW c, NEW q \in 0..MaxProc
  PROVE  Started(s, c, q) \in Process(C)
<1>1. Tail(s.list) \in Seq(C) /\ [s EXCEPT !.list = Tail(@)] = [s EXCEPT !.list = Tail(s.list)]
  BY DEF Process
<1>2. [s EXCEPT !.pc = "wait", !.wait = q] \in Process(C)
  BY Zenon DEF Process
<1>3. [s EXCEPT !.list = Tail(s.list), !.status = 0] \in Process(C)
  BY <1>1, Zenon DEF Process
<1> QED BY <1>2, <1>3 DEF Started

\* p has started the process q, which did not exist.
Forks(C, p, q) ==
  /\ q # p /\ proc[q].st = "none" /\ proc[p].list # << >> /\ proc[p].pc = "exec"
  /\ proc[p].st = "shell"
  /\ Parent(p, q) \in Process(C) /\ Forked(p) \in Process(C)
  /\ proc' = [proc EXCEPT ![p] = Parent(p, q), ![q] = Forked(p)]
  /\ pipes' \in Nat

\* The shell after the fork, before it goes on.
Passed(p) == IF Piped(p) THEN [proc[p] EXCEPT !.pass = NewPipe, !.open = @ \cup {R(NewPipe)}]
             ELSE [proc[p] EXCEPT !.pass = 0]

\* The parent keeps the read end.
LEMMA PassedType ==
  ASSUME NEW C, TypeInv(C), NEW p \in Pids
  PROVE  /\ Passed(p) \in Process(C) /\ Passed(p).list = proc[p].list
         /\ \A q : Parent(p, q) = Started(Passed(p), Current(p), q)
<1>0. proc[p] \in Process(C) /\ NewPipe \in Nat
  BY DEF TypeInv, NewPipe
<1>1. proc[p].open \cup {R(NewPipe)} \in SUBSET Ends
  BY <1>0, PipeEnds DEF Process
<1>2. [proc[p] EXCEPT !.pass = NewPipe, !.open = proc[p].open \cup {R(NewPipe)}] \in Process(C)
  BY <1>0, <1>1, Zenon DEF Process
<1>3. [proc[p] EXCEPT !.pass = 0] \in Process(C)
  BY <1>0, Zenon DEF Process
<1>4. Passed(p) \in Process(C)
  BY <1>2, <1>3 DEF Passed
<1>5. Passed(p).list = proc[p].list
  BY <1>0 DEF Passed, Process
<1>6. \A q : Parent(p, q) = Started(Passed(p), Current(p), q)
  BY DEF Parent, Passed
<1> QED BY <1>4, <1>5, <1>6

\* The child is a process.
LEMMA ForkedType ==
  ASSUME NEW C, TypeInv(C), NEW p \in Pids, proc[p].list # << >>
  PROVE  Forked(p) \in Process(C)
<1>0. proc[p] \in Process(C) /\ NewPipe \in Nat
  BY DEF TypeInv, NewPipe
<1>1. Current(p) \in C
  BY <1>0 DEF Current, Process
<1> DEFINE o == IF Piped(p) THEN proc[p].open \cup {R(NewPipe), W(NewPipe)} ELSE proc[p].open
           k == IF Piped(p) THEN NewPipe ELSE 0
<1>2. o \in SUBSET Ends
  BY <1>0, PipeEnds DEF Process
<1>3. k \in Nat /\ p \in 0..MaxProc /\ 0 \in 0..MaxProc /\ proc[p].pass \in Nat
  BY <1>0, RunAssumption DEF Pids, Process
<1> DEFINE r == [proc[p] EXCEPT !.st = "child", !.parent = p, !.cmd = Current(p), !.wait = 0]
<1>4. Forked(p) = [r EXCEPT !.from = proc[p].pass, !.pipe = k, !.open = o]
  BY DEF Forked
<1>5. r \in Process(C)
  BY <1>0, <1>1, <1>3, Zenon DEF Process
<1> HIDE DEF o, k, r
<1> QED BY <1>2, <1>3, <1>4, <1>5, Zenon DEF Process

\* cmd_exec in the shell.
LEMMA ExecStep ==
  ASSUME NEW C, TypeInv(C), NEW p \in Pids, cmd_exec(p)
  PROVE  /\ UNCHANGED input
         /\ (Gone(C, p) /\ UNCHANGED pipes) \/ \E q \in Pids : Forks(C, p, q)
<1>0. UNCHANGED input /\ proc[p].list # << >> /\ proc[p].pc = "exec" /\ proc[p].st = "shell"
  BY DEF cmd_exec, AtCmd
<1>1. CASE proc' = Exited(proc, p, 0) /\ UNCHANGED pipes
  BY <1>0, <1>1, Exits
<1>2. CASE LET q == Min(Free)
           IN /\ proc' = [proc EXCEPT ![p] = Parent(p, q), ![q] = Forked(p)]
              /\ pipes' = IF Piped(p) THEN NewPipe ELSE pipes
  <2> DEFINE q == Min(Free)
  <2>1. q \in Pids /\ proc[q].st = "none"
    BY FreeNumber DEF cmd_exec
  <2>2. q \in 0..MaxProc /\ q # p
    BY <1>0, <2>1, RunAssumption DEF Pids
  <2>3. pipes' \in Nat
    BY <1>2 DEF TypeInv, NewPipe
  <2>4. Parent(p, q) \in Process(C) /\ Forked(p) \in Process(C)
    BY <1>0, <2>2, PassedType, StartedType, ForkedType
  <2>5. proc' = [proc EXCEPT ![p] = Parent(p, q), ![q] = Forked(p)]
    BY <1>2
  <2> HIDE DEF q
  <2>6. Forks(C, p, q)
    BY <1>0, <2>1, <2>2, <2>3, <2>4, <2>5 DEF Forks
  <2> QED BY <1>0, <2>1, <2>6
<1> QED BY <1>1, <1>2 DEF cmd_exec

\* What subshell_exec makes of the child s.
Subshell(s) ==
  [s EXCEPT !.st = "shell", !.main = FALSE, !.pc = "exec", !.list = s.cmd.sub,
            !.status = 0, !.pass = 0,
            !.stdout = IF s.pipe # 0 THEN W(s.pipe) ELSE IF s.cmd.out THEN File ELSE s.stdout,
            !.stdin = IF s.cmd.in THEN File ELSE s.stdin,
            !.open = s.open \ {R(s.pipe), W(s.pipe)}]

\* A subshell is a process.
LEMMA SubshellStep ==
  ASSUME NEW C, Grammar(C), TypeInv(C), NEW p \in Pids, subshell_exec(p)
  PROVE  /\ UNCHANGED input /\ proc[p].st = "child" /\ proc[p].cmd.sub # << >>
         /\ Alone(C, p, Subshell(proc[p]))
<1> DEFINE s == proc[p]
<1>0. s \in Process(C) /\ UNCHANGED input /\ s.st = "child" /\ s.cmd.sub # << >>
  BY DEF TypeInv, subshell_exec
<1>1. proc' = [proc EXCEPT ![p] = Subshell(s)]
  BY DEF subshell_exec, Subshell
<1>2. s.cmd.sub \in Seq(C)
  <2>1. s.cmd \in C \/ s.cmd = NoCmd
    BY <1>0 DEF Process
  <2> QED BY <1>0, <2>1 DEF Grammar, NoCmd, Cmd
<1> DEFINE out == IF s.pipe # 0 THEN W(s.pipe) ELSE IF s.cmd.out THEN File ELSE s.stdout
           in == IF s.cmd.in THEN File ELSE s.stdin
           r == [s EXCEPT !.st = "shell", !.main = FALSE, !.pc = "exec", !.list = s.cmd.sub]
<1>3. out \in Ends /\ in \in Ends
  BY <1>0, PipeEnds, Zenon DEF Process
<1>4. r \in Process(C)
  BY <1>0, <1>2, Zenon DEF Process
<1>5. s.open \ {R(s.pipe), W(s.pipe)} \in SUBSET Ends
  BY <1>0 DEF Process
<1> DEFINE t == [r EXCEPT !.status = 0, !.pass = 0]
<1>6. Subshell(s) = [t EXCEPT !.stdout = out, !.stdin = in,
                              !.open = s.open \ {R(s.pipe), W(s.pipe)}]
  BY DEF Subshell
<1> HIDE DEF out, in, r
<1>t. t \in Process(C)
  BY <1>4, Zenon DEF Process
<1> HIDE DEF t
<1>7. Subshell(s) \in Process(C)
  BY <1>3, <1>5, <1>6, <1>t, Zenon DEF Process
<1>8. Alone(C, p, Subshell(s))
  BY <1>1, <1>7 DEF Alone, TypeInv, Left
<1> QED BY <1>0, <1>8

\* What execve makes of the child s: the program, or a copy of the shell.
Failed(s) == [Connected(s) EXCEPT !.st = "shell", !.pass = s.pipe,
                                  !.open = Connected(s).open \ {W(s.pipe)}]
Program(s) == IF s.cmd.prog # "missing" THEN [Connected(s) EXCEPT !.st = "prog"]
              ELSE Started(Failed(s), s.cmd, 0)

\* The redirections change the descriptors only.
LEMMA ConnectedType ==
  ASSUME NEW C, NEW s \in Process(C)
  PROVE  /\ Connected(s) \in Process(C)
         /\ Connected(s).cmd = s.cmd /\ Connected(s).list = s.list /\ Connected(s).st = s.st
         /\ Connected(s).pipe = s.pipe /\ Connected(s).pc = s.pc /\ Connected(s).main = s.main
         /\ Connected(s).parent = s.parent /\ Connected(s).from = s.from
<1> DEFINE piped == s.pipe # 0 /\ ~s.cmd.in
           out == IF piped THEN W(s.pipe) ELSE IF s.cmd.out THEN File ELSE s.stdout
           in == IF R(s.pass) \in s.open THEN R(s.pass) ELSE IF s.cmd.in THEN File ELSE s.stdin
           o == (IF piped THEN s.open \ {R(s.pipe), W(s.pipe)} ELSE s.open) \ {R(s.pass)}
<1>1. s.open \in SUBSET Ends /\ s.pass \in Nat /\ s.pipe \in Nat /\ s.stdin \in Ends
      /\ s.stdout \in Ends
  BY DEF Process
<1>2. out \in Ends /\ in \in Ends
  BY <1>1, PipeEnds, Zenon
<1>3. o \in SUBSET Ends
  BY <1>1, Zenon
<1>4. Connected(s) = [s EXCEPT !.stdout = out, !.stdin = in, !.open = o]
  BY DEF Connected
<1> HIDE DEF out, in, o
<1>5. Connected(s) \in Process(C)
  BY <1>2, <1>3, <1>4, Zenon DEF Process
<1>6. /\ Connected(s).cmd = s.cmd /\ Connected(s).list = s.list /\ Connected(s).st = s.st
      /\ Connected(s).pipe = s.pipe /\ Connected(s).pc = s.pc /\ Connected(s).main = s.main
      /\ Connected(s).parent = s.parent /\ Connected(s).from = s.from
  BY <1>4, Zenon DEF Process
<1> QED BY <1>5, <1>6

\* execve in the child.
LEMMA ExecveStep ==
  ASSUME NEW C, TypeInv(C), NEW p \in Pids, execve(p)
  PROVE  /\ UNCHANGED input /\ proc[p].st = "child" /\ proc[p].cmd.sub = << >>
         /\ Alone(C, p, Program(proc[p]))
<1> DEFINE s == proc[p]
<1>0. s \in Process(C)
  BY DEF TypeInv
<1>1. UNCHANGED input /\ s.st = "child" /\ s.cmd.sub = << >>
  BY <1>0, ConnectedType DEF execve
<1>2. proc' = [proc EXCEPT ![p] = Program(s)]
  <2>1. Connected(s).cmd = s.cmd /\ Connected(s).pipe = s.pipe
    BY <1>0, ConnectedType
  <2> QED BY <2>1, Zenon DEF execve, Program, Failed
<1>3. [Connected(s) EXCEPT !.st = "prog"] \in Process(C)
  <2>1. Connected(s) \in Process(C)
    BY <1>0, ConnectedType
  <2> QED BY <2>1 DEF Process
<1>4. Failed(s) \in Process(C) /\ Failed(s).list = s.list
  <2>0. s.pipe \in Nat
    BY <1>0 DEF Process
  <2>1. Connected(s) \in Process(C) /\ s.pipe \in Nat /\ Connected(s).list = s.list
    BY <1>0, <2>0, ConnectedType
  <2>2. Connected(s).open \ {W(s.pipe)} \in SUBSET Ends
    BY <2>1 DEF Process
  <2> QED BY <2>1, <2>2, Zenon DEF Process, Failed
<1>5. s.list # << >>
  BY <1>1 DEF TypeInv, Busy
<1>6. 0 \in 0..MaxProc
  BY RunAssumption
<1>7. Program(s) \in Process(C)
  BY <1>3, <1>4, <1>5, <1>6, StartedType DEF Program
<1>8. Alone(C, p, Program(s))
  BY <1>2, <1>7 DEF Alone, TypeInv, Left
<1> QED BY <1>1, <1>8

-----------------------------------------------------------------------------
(* Types.                                                                  *)

\* A step of one process keeps the types.
LEMMA AloneTypes ==
  ASSUME NEW C, TypeInv(C), NEW p \in Pids, NEW s, Alone(C, p, s), Busy(s),
         input' \in Seq(Seq(C)), pipes' \in Nat
  PROVE  TypeInv(C)'
<1>1. proc' \in [Pids -> Process(C)] /\ proc'[p] = s
  BY DEF Alone
<1>2. ASSUME NEW q \in Pids \ {p} PROVE Busy(proc'[q])
  <2>1. Busy(proc[q]) /\ Left(proc[q], proc'[q]) /\ proc[q] \in Process(C)
    BY DEF TypeInv, Alone
  <2>2. [proc[q] EXCEPT !.parent = 0].st = proc[q].st
        /\ [proc[q] EXCEPT !.parent = 0].pc = proc[q].pc
        /\ [proc[q] EXCEPT !.parent = 0].list = proc[q].list
    BY <2>1 DEF Process
  <2> QED BY <2>1, <2>2, NoneType, Zenon DEF Left, Busy
<1>3. \A q \in Pids : Busy(proc'[q])
  BY <1>1, <1>2
<1> QED BY <1>1, <1>3 DEF TypeInv

\* An exit keeps the types.
LEMMA GoneTypes ==
  ASSUME NEW C, TypeInv(C), NEW p \in Pids, Gone(C, p), UNCHANGED <<input, pipes>>
  PROVE  TypeInv(C)'
<1>1. PICK s : s.st \in {"none", "zombie"} /\ Alone(C, p, s)
  BY DEF Gone
<1>2. Busy(s)
  BY <1>1 DEF Busy
<1> QED BY <1>1, <1>2, AloneTypes DEF TypeInv

\* A fork keeps the types.
LEMMA ForkTypes ==
  ASSUME NEW C, TypeInv(C), NEW p \in Pids, NEW q \in Pids, Forks(C, p, q), UNCHANGED input
  PROVE  TypeInv(C)'
<1>0. proc \in [Pids -> Process(C)]
  BY DEF TypeInv
<1>1. proc' \in [Pids -> Process(C)] /\ proc'[p] = Parent(p, q) /\ proc'[q] = Forked(p)
      /\ \A r \in Pids \ {p, q} : proc'[r] = proc[r]
  BY <1>0 DEF Forks
<1>2. Busy(Forked(p))
  <2>1. Forked(p).list = proc[p].list /\ Forked(p).pc = proc[p].pc /\ Forked(p).st = "child"
    BY <1>0 DEF Forked, Process
  <2> QED BY <2>1 DEF Busy, Forks
<1>3. Busy(Parent(p, q))
  <2>1. Passed(p) \in Process(C) /\ Passed(p).list # << >> /\ Passed(p).pc = "exec"
    <3>1. Passed(p).pc = proc[p].pc
      BY <1>0 DEF Passed, Process
    <3> QED BY <3>1, PassedType DEF Forks
  <2>2. /\ [Passed(p) EXCEPT !.pc = "wait", !.wait = q].list = Passed(p).list
        /\ [Passed(p) EXCEPT !.pc = "wait", !.wait = q].st = Passed(p).st
        /\ [Passed(p) EXCEPT !.list = Tail(Passed(p).list), !.status = 0].pc = "exec"
        /\ [Passed(p) EXCEPT !.list = Tail(Passed(p).list), !.status = 0].st = Passed(p).st
    BY <2>1 DEF Process
  <2>3. Passed(p).st = "shell"
    BY <1>0 DEF Passed, Process, Forks
  <2>4. Parent(p, q) = Started(Passed(p), Current(p), q)
    BY PassedType
  <2> QED BY <2>1, <2>2, <2>3, <2>4, Zenon DEF Busy, Started
<1>4. \A r \in Pids : Busy(proc'[r])
  BY <1>1, <1>2, <1>3 DEF TypeInv
<1>5. input' \in Seq(Seq(C)) /\ pipes' \in Nat
  BY DEF Forks, TypeInv
<1> QED BY <1>1, <1>4, <1>5 DEF TypeInv

\* A program that was not found goes on as a shell that is busy, or at its next command.
LEMMA ProgramBusy ==
  ASSUME NEW C, NEW s \in Process(C), s.list # << >>, s.pc = "exec"
  PROVE  Busy(Program(s))
<1>1. /\ Connected(s) \in Process(C) /\ s.pipe \in Nat /\ Connected(s).list = s.list
      /\ Connected(s).pc = s.pc
  BY ConnectedType DEF Process
<1>2. [Connected(s) EXCEPT !.st = "prog"].st = "prog"
  BY <1>1 DEF Process
<1>3. Failed(s).list = s.list /\ Failed(s).pc = "exec" /\ Failed(s).st = "shell"
      /\ Failed(s) = [x \in DOMAIN Failed(s) |-> Failed(s)[x]]
  BY <1>1, Zenon DEF Failed, Process
<1>4. Failed(s) \in Process(C)
  <2>1. Connected(s).open \ {W(s.pipe)} \in SUBSET Ends
    BY <1>1 DEF Process
  <2> QED BY <1>1, <2>1, Zenon DEF Failed, Process
<1>5. /\ [Failed(s) EXCEPT !.pc = "wait", !.wait = 0].list = Failed(s).list
      /\ [Failed(s) EXCEPT !.list = Tail(Failed(s).list), !.status = 0].pc = "exec"
      /\ [Failed(s) EXCEPT !.list = Tail(Failed(s).list), !.status = 0].st = "shell"
  BY <1>3, <1>4 DEF Process
<1> QED BY <1>2, <1>3, <1>5 DEF Program, Started, Busy

\* Every step keeps the types.
LEMMA TypesKeep ==
  ASSUME NEW C, Grammar(C), TypeInv(C), [Next]_vars
  PROVE  TypeInv(C)'
<1>0. input \in Seq(Seq(C)) /\ pipes \in Nat /\ proc \in [Pids -> Process(C)]
  BY DEF TypeInv
<1>1. CASE UNCHANGED vars
  BY <1>1 DEF vars, TypeInv
<1>2. ASSUME NEW p \in Pids, Step(p) PROVE TypeInv(C)'
  <2>t. proc[p] \in Process(C)
    BY <1>0
  <2>1. CASE ReadLine(p)
    <3>0. UNCHANGED pipes
      BY <2>1 DEF ReadLine
    <3>1. CASE Gone(C, p) /\ UNCHANGED input
      BY <3>0, <3>1, GoneTypes
    <3> DEFINE s == [proc[p] EXCEPT !.list = Head(input), !.pc = "exec", !.status = 0]
    <3>2. CASE input # << >> /\ input' = Tail(input) /\ Alone(C, p, s)
      <4>1. s.pc = "exec" /\ s.st = proc[p].st
        BY <2>t DEF Process
      <4>2. Busy(s)
        BY <2>1, <4>1 DEF Busy, ReadLine
      <4>3. input' \in Seq(Seq(C))
        BY <1>0, <3>2
      <4> HIDE DEF s
      <4> QED BY <1>0, <3>0, <3>2, <4>2, <4>3, AloneTypes
    <3> QED BY <2>1, <3>1, <3>2, ReadLineStep, Zenon
  <2>2. CASE cmd_exec(p)
    BY <2>2, ExecStep, GoneTypes, ForkTypes
  <2>3. CASE waitpid(p) \/ WaitNone(p)
    <3>0. UNCHANGED <<input, pipes>>
      BY <2>3 DEF waitpid, WaitNone
    <3>1. PICK st : Alone(C, p, [proc[p] EXCEPT !.status = st, !.pc = "exec", !.wait = 0,
                                                !.list = After(proc[p].list, st)])
      BY <2>3, WaitStep, Zenon
    <3> DEFINE s == [proc[p] EXCEPT !.status = st, !.pc = "exec", !.wait = 0,
                                    !.list = After(proc[p].list, st)]
    <3>2. s.pc = "exec" /\ s.st = proc[p].st
      BY <2>t DEF Process
    <3>3. Busy(s)
      BY <2>3, <3>2 DEF Busy, waitpid, WaitNone
    <3>4. Alone(C, p, s)
      BY <3>1
    <3> HIDE DEF s
    <3> QED BY <1>0, <3>0, <3>3, <3>4, AloneTypes
  <2>4. CASE EndList(p)
    <3>0. UNCHANGED <<input, pipes>> /\ proc[p].st = "shell"
      BY <2>4 DEF EndList
    <3> DEFINE s == [proc[p] EXCEPT !.pc = "prompt", !.pass = 0]
    <3>1. s.pc = "prompt" /\ s.st = proc[p].st
      BY <2>t DEF Process
    <3>2. Busy(s)
      BY <3>0, <3>1 DEF Busy
    <3>3. Gone(C, p) \/ Alone(C, p, s)
      BY <2>4, EndListStep, Zenon
    <3> HIDE DEF s
    <3> QED BY <1>0, <3>0, <3>2, <3>3, AloneTypes, GoneTypes
  <2>5. CASE subshell_exec(p)
    <3>0. UNCHANGED <<input, pipes>>
      BY <2>5 DEF subshell_exec
    <3>1. Subshell(proc[p]).pc = "exec" /\ Subshell(proc[p]).st = "shell"
      BY <2>t DEF Subshell, Process
    <3>2. Busy(Subshell(proc[p]))
      BY <3>1 DEF Busy
    <3> QED BY <1>0, <2>5, <3>0, <3>2, SubshellStep, AloneTypes
  <2>6. CASE Builtin(p) \/ ProgramEnds(p)
    <3>0. UNCHANGED <<input, pipes>> /\ \E code \in Nat : proc' = Exited(proc, p, code)
      BY <2>6 DEF Builtin, ProgramEnds
    <3> QED BY <3>0, Exits, GoneTypes
  <2>7. CASE execve(p)
    <3>0. UNCHANGED <<input, pipes>>
      BY <2>7 DEF execve
    <3>1. proc[p].list # << >> /\ proc[p].pc = "exec"
      BY <2>7, ExecveStep DEF TypeInv, Busy
    <3> QED BY <1>0, <2>7, <2>t, <3>0, <3>1, ExecveStep, ProgramBusy, AloneTypes
  <2> QED BY <1>2, <2>1, <2>2, <2>3, <2>4, <2>5, <2>6, <2>7 DEF Step
<1> QED BY <1>1, <1>2 DEF Next

-----------------------------------------------------------------------------
(* The children that a shell waits for.                                    *)

\* A process that does not wait for a running child, and keeps its command and its
\* parent or exits, keeps ChildInv.
LEMMA AloneChildren ==
  ASSUME NEW C, TypeInv(C), ChildInv, NEW p \in Pids, NEW s, Alone(C, p, s),
         \A q \in Pids : Waits(p, q) => ~Running(q),
         \/ s.st \in {"none", "zombie"}
         \/ Running(p) /\ s.cmd = proc[p].cmd /\ s.parent = proc[p].parent
  PROVE  ChildInv'
<1>1. ASSUME NEW q \in Pids, Running(q)', proc'[q].parent # 0
      PROVE  Running(q) /\ proc'[q].cmd = proc[q].cmd /\ proc'[q].parent = proc[q].parent
  <2>1. CASE q = p
    BY <1>1, <2>1 DEF Alone, Running
  <2>2. CASE q # p
    <3>1. Left(proc[q], proc'[q]) /\ proc[q] \in Process(C)
      BY <2>2 DEF Alone, TypeInv
    <3>2. [proc[q] EXCEPT !.parent = 0].parent = 0
      BY <3>1 DEF Process
    <3> QED BY <1>1, <3>1, <3>2, NoneType, Zenon DEF Left, Running
  <2> QED BY <2>1, <2>2
<1>2. ASSUME NEW a \in Pids, NEW q \in Pids, Waits(a, q), Running(q)
      PROVE  Waits(a, q)'
  <2>1. a # p
    BY <1>2
  <2>2. Left(proc[a], proc'[a]) /\ proc[a] \in Process(C) /\ proc[a].st = "shell"
    BY <1>2, <2>1 DEF Alone, TypeInv, Waits
  <2>3. /\ [proc[a] EXCEPT !.parent = 0].st = proc[a].st
        /\ [proc[a] EXCEPT !.parent = 0].pc = proc[a].pc
        /\ [proc[a] EXCEPT !.parent = 0].wait = proc[a].wait
    BY <2>2 DEF Process
  <2> QED BY <1>2, <2>2, <2>3, Zenon DEF Left, Waits
<1>3. ASSUME NEW a \in Pids, NEW q \in Pids, Running(q)', proc'[q].parent = a
      PROVE  is_continue_cmd(proc'[q].cmd) \/ Waits(a, q)'
  <2>1. a # 0
    BY RunAssumption DEF Pids
  <2>2. Running(q) /\ proc'[q].cmd = proc[q].cmd /\ proc[q].parent = a
    BY <1>1, <1>3, <2>1
  <2> QED BY <1>2, <2>2 DEF ChildInv
<1> QED BY <1>3 DEF ChildInv

\* cmd_exec: the shell waits for the new child, or need not.
LEMMA ForkChildren ==
  ASSUME NEW C, Grammar(C), TypeInv(C), ChildInv, NEW p \in Pids, NEW q \in Pids, Forks(C, p, q)
  PROVE  ChildInv'
<1>0. proc \in [Pids -> Process(C)] /\ proc[p] \in Process(C)
  BY DEF TypeInv
<1>1. proc'[p] = Parent(p, q) /\ proc'[q] = Forked(p) /\ p # q
      /\ \A r \in Pids \ {p, q} : proc'[r] = proc[r]
  BY <1>0 DEF Forks
<1>2. /\ Passed(p) \in Process(C) /\ Passed(p).cmd = proc[p].cmd
      /\ Passed(p).parent = proc[p].parent /\ Passed(p).st = "shell"
  <2>1. /\ Passed(p).cmd = proc[p].cmd /\ Passed(p).parent = proc[p].parent
        /\ Passed(p).st = proc[p].st
    BY <1>0 DEF Passed, Process
  <2> QED BY <2>1, PassedType DEF Forks
<1>3. Parent(p, q).cmd = proc[p].cmd /\ Parent(p, q).parent = proc[p].parent
  <2>1. /\ [Passed(p) EXCEPT !.pc = "wait", !.wait = q].cmd = Passed(p).cmd
        /\ [Passed(p) EXCEPT !.pc = "wait", !.wait = q].parent = Passed(p).parent
        /\ [Passed(p) EXCEPT !.list = Tail(Passed(p).list), !.status = 0].cmd = Passed(p).cmd
        /\ [Passed(p) EXCEPT !.list = Tail(Passed(p).list), !.status = 0].parent = Passed(p).parent
    BY <1>2 DEF Process
  <2> QED BY <1>2, <2>1, PassedType, Zenon DEF Started
<1>4. Forked(p).cmd = Current(p) /\ Forked(p).parent = p
  BY <1>0 DEF Forked, Process
<1>5. is_continue_cmd(Current(p)) \/ Waits(p, q)'
  <2>1. Current(p).op \in Ops
    <3>1. proc[p].list \in Seq(C) /\ proc[p].list # << >>
      BY <1>0 DEF Process, Forks
    <3>2. Current(p) \in C
      BY <3>1 DEF Current
    <3> QED BY <3>2 DEF Grammar
  <2>2. CASE is_wait_cmd(Current(p))
    <3>1. Parent(p, q) = [Passed(p) EXCEPT !.pc = "wait", !.wait = q]
      BY <2>2, PassedType, Zenon DEF Started
    <3>2. Parent(p, q).st = "shell" /\ Parent(p, q).pc = "wait" /\ Parent(p, q).wait = q
      BY <1>2, <3>1 DEF Process
    <3> QED BY <1>1, <3>2 DEF Waits
  <2> QED BY <2>1, <2>2, Zenon DEF Ops, is_wait_cmd, is_continue_cmd
<1>6. ASSUME NEW a \in Pids, NEW r \in Pids, Running(r)', proc'[r].parent = a
      PROVE  is_continue_cmd(proc'[r].cmd) \/ Waits(a, r)'
  <2>1. CASE r = q
    BY <1>1, <1>4, <1>5, <1>6, <2>1
  <2>2. CASE r # q
    <3>1. Running(r) /\ proc[r].parent = a /\ proc'[r].cmd = proc[r].cmd
      BY <1>1, <1>3, <1>6, <2>2, Zenon DEF Running, Forks
    <3>2. CASE Waits(a, r)
      <4>1. a # p /\ a # q
        BY <3>2 DEF Waits, Forks
      <4> QED BY <1>1, <3>2, <4>1 DEF Waits
    <3> QED BY <3>1, <3>2 DEF ChildInv
  <2> QED BY <2>1, <2>2
<1> QED BY <1>6 DEF ChildInv

\* A program that was not found is still the child it was.
LEMMA ProgramSame ==
  ASSUME NEW C, NEW s \in Process(C)
  PROVE  Program(s).cmd = s.cmd /\ Program(s).parent = s.parent
<1>1. Connected(s) \in Process(C) /\ Connected(s).cmd = s.cmd /\ Connected(s).parent = s.parent
  BY ConnectedType
<1>2. /\ [Connected(s) EXCEPT !.st = "prog"].cmd = s.cmd
      /\ [Connected(s) EXCEPT !.st = "prog"].parent = s.parent
  BY <1>1 DEF Process
<1>3. Failed(s).cmd = s.cmd /\ Failed(s).parent = s.parent
  BY <1>1 DEF Failed, Process
<1>4. Failed(s) \in Process(C)
  <2>1. Connected(s).open \ {W(s.pipe)} \in SUBSET Ends /\ s.pipe \in Nat
    BY <1>1 DEF Process
  <2> QED BY <1>1, <2>1, Zenon DEF Failed, Process
<1>5. /\ [Failed(s) EXCEPT !.pc = "wait", !.wait = 0].cmd = s.cmd
      /\ [Failed(s) EXCEPT !.pc = "wait", !.wait = 0].parent = s.parent
      /\ [Failed(s) EXCEPT !.list = Tail(Failed(s).list), !.status = 0].cmd = s.cmd
      /\ [Failed(s) EXCEPT !.list = Tail(Failed(s).list), !.status = 0].parent = s.parent
  BY <1>3, <1>4 DEF Process
<1> QED BY <1>2, <1>5 DEF Program, Started

\* Every step keeps ChildInv.
LEMMA ChildKeeps ==
  ASSUME NEW C, Grammar(C), TypeInv(C), ChildInv, [Next]_vars
  PROVE  ChildInv'
<1>1. CASE UNCHANGED vars
  BY <1>1 DEF vars, ChildInv, Running, Waits
<1>2. ASSUME NEW p \in Pids, Step(p) PROVE ChildInv'
  <2>t. proc[p] \in Process(C)
    BY DEF TypeInv
  <2>g. ASSUME Gone(C, p), proc[p].st # "shell" \/ proc[p].pc # "wait" PROVE ChildInv'
    <3>1. PICK s : s.st \in {"none", "zombie"} /\ Alone(C, p, s)
      BY <2>g DEF Gone
    <3>2. \A q \in Pids : ~Waits(p, q)
      BY <2>g DEF Waits
    <3> QED BY <3>1, <3>2, AloneChildren
  <2>s. ASSUME NEW s, Alone(C, p, s), proc[p].st \in {"shell", "child"},
               proc[p].st # "shell" \/ proc[p].pc # "wait",
               s.cmd = proc[p].cmd, s.parent = proc[p].parent
        PROVE  ChildInv'
    <3>1. \A q \in Pids : ~Waits(p, q)
      BY <2>s DEF Waits
    <3>2. Running(p)
      BY <2>s DEF Running
    <3> QED BY <2>s, <3>1, <3>2, AloneChildren
  <2>1. CASE ReadLine(p)
    <3>0. proc[p].st = "shell" /\ proc[p].pc = "prompt"
      BY <2>1 DEF ReadLine
    <3> DEFINE s == [proc[p] EXCEPT !.list = Head(input), !.pc = "exec", !.status = 0]
    <3>1. s.cmd = proc[p].cmd /\ s.parent = proc[p].parent
      BY <2>t DEF Process
    <3>2. Gone(C, p) \/ Alone(C, p, s)
      BY <2>1, ReadLineStep, Zenon
    <3> HIDE DEF s
    <3> QED BY <2>g, <2>s, <3>0, <3>1, <3>2
  <2>2. CASE cmd_exec(p)
    <3>0. proc[p].pc = "exec"
      BY <2>2 DEF cmd_exec, AtCmd
    <3> QED BY <2>2, <2>g, <3>0, ExecStep, ForkChildren
  <2>3. CASE waitpid(p) \/ WaitNone(p)
    <3>1. PICK st : Alone(C, p, [proc[p] EXCEPT !.status = st, !.pc = "exec", !.wait = 0,
                                                !.list = After(proc[p].list, st)])
      BY <2>3, WaitStep, Zenon
    <3> DEFINE s == [proc[p] EXCEPT !.status = st, !.pc = "exec", !.wait = 0,
                                    !.list = After(proc[p].list, st)]
    <3>2. s.cmd = proc[p].cmd /\ s.parent = proc[p].parent /\ Alone(C, p, s)
      BY <2>t, <3>1 DEF Process
    <3>3. \A q \in Pids : Waits(p, q) => ~Running(q)
      <4>1. proc[p].wait = 0 \/ proc[proc[p].wait].st = "zombie"
        BY <2>3, WaitStep, Zenon
      <4> QED BY <4>1, RunAssumption DEF Waits, Running, Pids
    <3>4. Running(p)
      BY <2>3 DEF waitpid, WaitNone, Running
    <3> HIDE DEF s
    <3> QED BY <3>2, <3>3, <3>4, AloneChildren
  <2>4. CASE EndList(p)
    <3>0. proc[p].st = "shell" /\ proc[p].pc = "exec"
      BY <2>4 DEF EndList
    <3> DEFINE s == [proc[p] EXCEPT !.pc = "prompt", !.pass = 0]
    <3>1. s.cmd = proc[p].cmd /\ s.parent = proc[p].parent
      BY <2>t DEF Process
    <3>2. Gone(C, p) \/ Alone(C, p, s)
      BY <2>4, EndListStep, Zenon
    <3> HIDE DEF s
    <3> QED BY <2>g, <2>s, <3>0, <3>1, <3>2
  <2>5. CASE subshell_exec(p)
    <3>1. Subshell(proc[p]).cmd = proc[p].cmd /\ Subshell(proc[p]).parent = proc[p].parent
      BY <2>t DEF Subshell, Process
    <3> QED BY <2>5, <2>s, <3>1, SubshellStep
  <2>6. CASE Builtin(p) \/ ProgramEnds(p)
    <3>0. proc[p].st # "shell" /\ \E code \in Nat : proc' = Exited(proc, p, code)
      BY <2>6 DEF Builtin, ProgramEnds
    <3> QED BY <2>g, <3>0, Exits
  <2>7. CASE execve(p)
    BY <2>7, <2>s, <2>t, ExecveStep, ProgramSame
  <2> QED BY <1>2, <2>1, <2>2, <2>3, <2>4, <2>5, <2>6, <2>7 DEF Step
<1> QED BY <1>1, <1>2 DEF Next

-----------------------------------------------------------------------------
(* The pipes.                                                              *)

\* A process with the same descriptors is as good.
LEMMA SameGood ==
  ASSUME NEW r, NEW s, GoodProcess(r), s.st = r.st, s.main = r.main, s.pc = r.pc, s.list = r.list,
         s.cmd = r.cmd, s.pass = r.pass, s.pipe = r.pipe, s.from = r.from, s.open = r.open,
         s.stdin = r.stdin, s.stdout = r.stdout
  PROVE  GoodProcess(s)
  BY Zenon DEF GoodProcess, GoodShell, GoodChild, Plugged

\* A step of one process.
LEMMA AlonePipes ==
  ASSUME NEW C, TypeInv(C), PipeInv, NEW p \in Pids, NEW s, Alone(C, p, s), GoodProcess(s)
  PROVE  \A q \in Pids : GoodProcess(proc[q])'
<1>1. ASSUME NEW q \in Pids, q # p PROVE GoodProcess(proc'[q])
  <2>1. Left(proc[q], proc'[q]) /\ proc[q] \in Process(C) /\ GoodProcess(proc[q])
    BY <1>1 DEF Alone, TypeInv, PipeInv
  <2>2. GoodProcess(None)
    BY NoneType, Zenon DEF GoodProcess
  <2>3. GoodProcess([proc[q] EXCEPT !.parent = 0])
    <3> DEFINE r == proc[q]
               t == [r EXCEPT !.parent = 0]
    <3>1. /\ t.st = r.st /\ t.main = r.main /\ t.pc = r.pc /\ t.list = r.list
          /\ t.cmd = r.cmd /\ t.pass = r.pass /\ t.pipe = r.pipe /\ t.from = r.from
          /\ t.open = r.open /\ t.stdin = r.stdin /\ t.stdout = r.stdout
      BY <2>1 DEF Process
    <3> HIDE DEF t
    <3>2. GoodProcess(t)
      BY <2>1, <3>1, SameGood
    <3> QED BY <3>2 DEF t
  <2> QED BY <2>1, <2>2, <2>3 DEF Left
<1>2. GoodProcess(proc'[p])
  BY DEF Alone
<1> QED BY <1>1, <1>2

\* A shell that has its descriptors, and no pipe before the next command, is good.
LEMMA QuietShell ==
  ASSUME NEW C, NEW r \in Process(C), GoodProcess(r), r.st = "shell", NEW s, s.st = "shell",
         s.main = r.main, s.pipe = r.pipe, s.from = r.from, s.stdin = r.stdin,
         s.stdout = r.stdout, Linked(s.list), s.pass = 0
  PROVE  GoodProcess(s)
<1>1. GoodShell(s)
  BY DEF GoodShell
<1>2. ~s.main => Plugged(s)
  BY Zenon DEF GoodProcess, Plugged
<1> QED BY <1>1, <1>2, Zenon DEF GoodProcess

\* subshell_exec connects the output.
LEMMA SubshellGood ==
  ASSUME NEW C, Grammar(C), Connects(C), NEW s \in Process(C), s.st = "child", GoodProcess(s),
         s.cmd.sub # << >>, s.list \in Seq(C)
  PROVE  GoodProcess(Subshell(s))
<1> DEFINE t == Subshell(s)
<1>0. GoodChild(s)
  BY DEF GoodProcess
<1>1. s.cmd \in C
  BY <1>0 DEF GoodChild
<1>2. t.list = s.cmd.sub /\ t.pass = 0 /\ t.st = "shell" /\ t.pipe = s.pipe /\ t.from = s.from
  BY DEF Subshell, Process
<1>3. t.pipe # 0 => t.stdout = W(t.pipe)
  <2>1. t.stdout = IF s.pipe # 0 THEN W(s.pipe) ELSE IF s.cmd.out THEN File ELSE s.stdout
    BY DEF Subshell, Process
  <2> QED BY <1>2, <2>1
<1>4. t.from = 0
  BY <1>0, <1>2 DEF GoodChild
<1>5. GoodShell(t)
  BY <1>1, <1>2 DEF GoodShell, Connects
<1> QED BY <1>2, <1>3, <1>4, <1>5, Zenon DEF GoodProcess, Plugged

\* cmd_exec connects the input and the output of a program, found or not.
LEMMA ConnectedGood ==
  ASSUME NEW C, Connects(C), NEW s \in Process(C), GoodChild(s)
  PROVE  /\ s.cmd \in C
         /\ s.pipe # 0 => Connected(s).stdout = W(s.pipe)
         /\ s.from # 0 => Connected(s).stdin = R(s.from)
         /\ s.cmd.prog = "missing" => s.pipe = 0
<1>1. s.list \in Seq(C)
  BY DEF Process
<1>2. s.cmd \in C
  BY <1>1 DEF GoodChild
<1>3. s.pipe # 0 => ~s.cmd.in /\ s.cmd.prog # "missing"
  BY <1>2 DEF GoodChild, Connects
<1>4. Connected(s).stdout = IF s.pipe # 0 /\ ~s.cmd.in THEN W(s.pipe)
                            ELSE IF s.cmd.out THEN File ELSE s.stdout
  BY DEF Connected, Process
<1>5. Connected(s).stdin = IF R(s.pass) \in s.open THEN R(s.pass)
                           ELSE IF s.cmd.in THEN File ELSE s.stdin
  BY DEF Connected, Process
<1>6. s.from # 0 => R(s.pass) \in s.open /\ s.from = s.pass
  BY DEF GoodChild
<1>7. s.pipe # 0 => Connected(s).stdout = W(s.pipe)
  BY <1>3, <1>4, Zenon
<1>8. s.from # 0 => Connected(s).stdin = R(s.from)
  BY <1>5, <1>6, Zenon
<1> QED BY <1>2, <1>3, <1>7, <1>8

\* What execve leaves is good.
LEMMA ProgramGood ==
  ASSUME NEW C, Connects(C), NEW s \in Process(C), s.st = "child", GoodProcess(s)
  PROVE  GoodProcess(Program(s))
<1>0. GoodChild(s)
  BY DEF GoodProcess
<1> DEFINE d == Connected(s)
<1>1. /\ d \in Process(C) /\ d.list = s.list /\ d.pipe = s.pipe /\ d.from = s.from
      /\ s.list \in Seq(C) /\ s.list # << >> /\ Linked(s.list)
  BY <1>0, ConnectedType DEF Process, GoodChild
<1>2. Plugged(d)
  BY <1>0, <1>1, ConnectedGood DEF Plugged
<1> HIDE DEF d
<1>3. CASE s.cmd.prog # "missing"
  <2> DEFINE t == [d EXCEPT !.st = "prog"]
  <2>1. /\ t.st = "prog" /\ t.pipe = d.pipe /\ t.from = d.from /\ t.stdin = d.stdin
        /\ t.stdout = d.stdout
    BY <1>1 DEF Process
  <2> HIDE DEF t
  <2>2. Plugged(t)
    BY <1>2, <2>1 DEF Plugged
  <2>3. GoodProcess(t)
    BY <2>1, <2>2 DEF GoodProcess
  <2> QED BY <1>3, <2>3 DEF Program, t, d
<1>4. CASE s.cmd.prog = "missing"
  <2> DEFINE f == Failed(s)
  <2>1. s.pipe = 0
    BY <1>0, <1>4, ConnectedGood
  <2>2. f = [d EXCEPT !.st = "shell", !.pass = s.pipe, !.open = d.open \ {W(s.pipe)}]
    BY DEF Failed, d
  <2>3. d.open \ {W(s.pipe)} \in SUBSET Ends
    BY <1>1 DEF Process
  <2> HIDE DEF f
  <2>4. /\ f \in Process(C) /\ f.st = "shell" /\ f.pass = 0 /\ f.list = s.list
        /\ f.pipe = d.pipe /\ f.from = d.from /\ f.stdin = d.stdin /\ f.stdout = d.stdout
    BY <1>1, <2>1, <2>2, <2>3, Zenon DEF Process
  <2>5. ASSUME NEW t, t.st = "shell", t.pass = 0, Linked(t.list), t.pipe = f.pipe,
               t.from = f.from, t.stdin = f.stdin, t.stdout = f.stdout
        PROVE  GoodProcess(t)
    BY <1>2, <2>4, <2>5 DEF GoodProcess, GoodShell, Plugged
  <2> DEFINE x == [f EXCEPT !.pc = "wait", !.wait = 0]
             y == [f EXCEPT !.list = Tail(f.list), !.status = 0]
  <2>6. /\ x.st = "shell" /\ x.pass = 0 /\ x.list = s.list /\ x.pipe = f.pipe
        /\ x.from = f.from /\ x.stdin = f.stdin /\ x.stdout = f.stdout
    BY <2>4 DEF Process
  <2>7. /\ y.st = "shell" /\ y.pass = 0 /\ y.list = Tail(s.list) /\ y.pipe = f.pipe
        /\ y.from = f.from /\ y.stdin = f.stdin /\ y.stdout = f.stdout
    BY <2>4 DEF Process
  <2>8. Linked(Tail(s.list))
    BY <1>1, TailLinked
  <2>9. Program(s) = x \/ Program(s) = y
    BY <1>4 DEF Program, Started, f
  <2> HIDE DEF x, y
  <2>10. GoodProcess(x)
    BY <1>1, <2>5, <2>6
  <2>11. GoodProcess(y)
    BY <2>5, <2>7, <2>8
  <2> QED BY <2>9, <2>10, <2>11
<1> QED BY <1>3, <1>4

\* cmd_exec: the child has the pipe that was made before it.
LEMMA ForkedGood ==
  ASSUME NEW C, TypeInv(C), PipeInv, NEW p \in Pids, NEW q \in Pids, Forks(C, p, q)
  PROVE  GoodProcess(Forked(p))
<1> DEFINE s == proc[p]
           t == Forked(p)
<1>0. s \in Process(C) /\ GoodShell(s) /\ pipes \in Nat /\ s.list # << >> /\ s.pc = "exec"
  BY DEF TypeInv, PipeInv, GoodProcess, Forks
<1>1. /\ t.st = "child" /\ t.cmd = Head(s.list) /\ t.from = s.pass /\ t.pass = s.pass
      /\ t.list = s.list /\ t.pc = s.pc
      /\ t.pipe = (IF Piped(p) THEN NewPipe ELSE 0)
      /\ t.open = (IF Piped(p) THEN s.open \cup {R(NewPipe), W(NewPipe)} ELSE s.open)
  BY <1>0 DEF Forked, Process, Current
<1>2. t.pipe # 0 <=> t.cmd.op = "|"
  <2>1. NewPipe # 0
    BY <1>0 DEF NewPipe
  <2>2. Piped(p) <=> t.cmd.op = "|"
    BY <1>1 DEF Piped, Current
  <2> QED BY <1>1, <2>1, <2>2
<1>3. s.open \subseteq t.open
  BY <1>1
<1> HIDE DEF t
<1>4. t.pass # 0 => R(t.pass) \in t.open /\ t.cmd.sub = << >>
  BY <1>0, <1>1, <1>3 DEF GoodShell
<1>5. GoodChild(t)
  BY <1>0, <1>1, <1>2, <1>4 DEF GoodChild, GoodShell
<1>6. GoodProcess(t)
  BY <1>1, <1>5 DEF GoodProcess
<1> QED BY <1>6 DEF t

\* cmd_exec: the shell keeps the read end for the next command.
LEMMA ParentGood ==
  ASSUME NEW C, TypeInv(C), PipeInv, NEW p \in Pids, NEW q \in Pids, Forks(C, p, q)
  PROVE  GoodProcess(Parent(p, q))
<1> DEFINE s == proc[p]
           d == Passed(p)
<1>0. s \in Process(C) /\ GoodProcess(s) /\ s.st = "shell" /\ s.list # << >> /\ s.pc = "exec"
  BY DEF TypeInv, PipeInv, Forks
<1>1. GoodShell(s) /\ s.list \in Seq(C)
  BY <1>0 DEF GoodProcess, Process
<1>2. /\ d \in Process(C) /\ d.list = s.list
      /\ Parent(p, q) = IF is_wait_cmd(Current(p)) THEN [d EXCEPT !.pc = "wait", !.wait = q]
                        ELSE [d EXCEPT !.list = Tail(d.list), !.status = 0]
  BY PassedType, Zenon DEF Started
<1>3. /\ d.st = "shell" /\ d.main = s.main /\ d.pc = "exec" /\ d.pipe = s.pipe
      /\ d.from = s.from /\ d.stdin = s.stdin /\ d.stdout = s.stdout
      /\ d.pass = (IF Piped(p) THEN NewPipe ELSE 0)
      /\ Piped(p) => R(NewPipe) \in d.open
  BY <1>0 DEF Passed, Process
<1>t. Linked(Tail(s.list))
  BY <1>0, <1>1, TailLinked DEF GoodShell
<1> HIDE DEF d
<1> DEFINE x == [d EXCEPT !.pc = "wait", !.wait = q]
           y == [d EXCEPT !.list = Tail(d.list), !.status = 0]
<1>4. CASE is_wait_cmd(Current(p))
  <2>1. ~Piped(p)
    BY <1>4, Zenon DEF is_wait_cmd, Piped
  <2>2. /\ x.st = "shell" /\ x.main = s.main /\ x.pipe = s.pipe /\ x.from = s.from
        /\ x.stdin = s.stdin /\ x.stdout = s.stdout /\ x.list = s.list /\ x.pass = 0
    BY <1>2, <1>3, <2>1 DEF Process
  <2>3. Parent(p, q) = x
    BY <1>2, <1>4
  <2> HIDE DEF x
  <2>4. GoodProcess(x)
    BY <1>0, <1>1, <2>2, QuietShell DEF GoodShell
  <2> QED BY <2>3, <2>4
<1>5. CASE ~is_wait_cmd(Current(p))
  <2>1. /\ y.st = "shell" /\ y.main = s.main /\ y.pipe = s.pipe /\ y.from = s.from
        /\ y.stdin = s.stdin /\ y.stdout = s.stdout /\ y.list = Tail(s.list) /\ y.pass = d.pass
        /\ y.pc = "exec" /\ y.open = d.open
    BY <1>2, <1>3 DEF Process
  <2>2. Parent(p, q) = y
    BY <1>2, <1>5
  <2> HIDE DEF y
  <2>3. y.pass # 0 => /\ R(y.pass) \in y.open
                      /\ y.list # << >> => Head(y.list).sub = << >>
    <3>1. CASE Piped(p)
      <4>1. s.list[1].op = "|"
        BY <1>0, <1>1, <3>1 DEF Piped, Current
      <4>2. Tail(s.list) # << >> => 1 \in 1..(Len(s.list) - 1) /\ Head(Tail(s.list)) = s.list[1 + 1]
        BY <1>0, <1>1
      <4>3. Tail(s.list) # << >> => Head(Tail(s.list)).sub = << >>
        BY <1>1, <4>1, <4>2 DEF GoodShell, Linked
      <4> QED BY <1>3, <2>1, <3>1, <4>3
    <3> QED BY <1>3, <2>1, <3>1
  <2>4. GoodShell(y)
    BY <1>t, <2>1, <2>3 DEF GoodShell
  <2>5. ~y.main => Plugged(y)
    BY <1>0, <2>1, Zenon DEF GoodProcess, Plugged
  <2>6. GoodProcess(y)
    BY <2>1, <2>4, <2>5, Zenon DEF GoodProcess
  <2> QED BY <2>2, <2>6
<1> QED BY <1>4, <1>5

\* Every step keeps PipeInv.
LEMMA PipesKeep ==
  ASSUME NEW C, Grammar(C), Connects(C), TypeInv(C), PipeInv, [Next]_vars
  PROVE  PipeInv'
<1>0. input \in Seq(Seq(C)) /\ \A k \in 1..Len(input) : Linked(input[k])
  BY DEF TypeInv, PipeInv
<1>1. CASE UNCHANGED vars
  BY <1>1 DEF vars, PipeInv
<1>2. ASSUME NEW p \in Pids, Step(p) PROVE PipeInv'
  <2> DEFINE r == proc[p]
             Good == \A q \in Pids : GoodProcess(proc[q])'
  <2>t. r \in Process(C) /\ GoodProcess(r)
    BY DEF TypeInv, PipeInv
  <2>g. Gone(C, p) => Good
    <3>1. ASSUME NEW s, s.st \in {"none", "zombie"} PROVE GoodProcess(s)
      BY <3>1 DEF GoodProcess
    <3> QED BY <3>1, AlonePipes DEF Gone
  <2>u. UNCHANGED input /\ Good => PipeInv'
    BY DEF PipeInv
  <2>1. CASE ReadLine(p)
    <3>0. r.st = "shell" /\ r.pc = "prompt"
      BY <2>1 DEF ReadLine
    <3> DEFINE s == [r EXCEPT !.list = Head(input), !.pc = "exec", !.status = 0]
    <3>1. /\ s.st = r.st /\ s.main = r.main /\ s.pipe = r.pipe /\ s.from = r.from
          /\ s.stdin = r.stdin /\ s.stdout = r.stdout /\ s.list = Head(input) /\ s.pass = r.pass
      BY <2>t DEF Process
    <3>2. r.pass = 0
      BY <2>t, <3>0 DEF GoodProcess, GoodShell
    <3>3. CASE input # << >> /\ input' = Tail(input) /\ Alone(C, p, s)
      <4>1. Linked(Head(input)) /\ \A k \in 1..Len(Tail(input)) : Linked(Tail(input)[k])
        <5>1. Head(input) = input[1] /\ 1 \in 1..Len(input)
          BY <1>0, <3>3
        <5>2. \A k \in 1..Len(Tail(input)) :
                k + 1 \in 1..Len(input) /\ Tail(input)[k] = input[k + 1]
          BY <1>0, <3>3
        <5> QED BY <1>0, <5>1, <5>2
      <4> HIDE DEF s
      <4>2. GoodProcess(s)
        BY <2>t, <3>0, <3>1, <3>2, <4>1, QuietShell
      <4>3. Good
        BY <3>3, <4>2, AlonePipes
      <4> QED BY <3>3, <4>1, <4>3 DEF PipeInv
    <3> QED BY <2>1, <2>g, <2>u, <3>3, ReadLineStep, Zenon
  <2>2. CASE cmd_exec(p)
    <3>1. ASSUME NEW q \in Pids, Forks(C, p, q) PROVE Good
      <4>1. proc' = [proc EXCEPT ![p] = Parent(p, q), ![q] = Forked(p)]
            /\ proc \in [Pids -> Process(C)] /\ q # p
        BY <3>1 DEF Forks, TypeInv
      <4>2. GoodProcess(Parent(p, q)) /\ GoodProcess(Forked(p))
        BY <3>1, ParentGood, ForkedGood
      <4>3. ASSUME NEW a \in Pids PROVE GoodProcess(proc'[a])
        <5>1. proc'[a] = IF a = q THEN Forked(p) ELSE IF a = p THEN Parent(p, q) ELSE proc[a]
          BY <4>1
        <5>2. GoodProcess(proc[a])
          BY DEF PipeInv
        <5> QED BY <4>2, <5>1, <5>2
      <4> QED BY <4>3
    <3> QED BY <2>2, <2>g, <2>u, <3>1, ExecStep
  <2>3. CASE waitpid(p) \/ WaitNone(p)
    <3>0. r.st = "shell" /\ r.pc = "wait" /\ r.list # << >> /\ r.list \in Seq(C) /\ UNCHANGED input
      BY <2>3, <2>t, WaitStep, Zenon DEF Process
    <3>1. PICK st : Alone(C, p, [r EXCEPT !.status = st, !.pc = "exec", !.wait = 0,
                                          !.list = After(r.list, st)])
      BY <2>3, WaitStep, Zenon
    <3> DEFINE s == [r EXCEPT !.status = st, !.pc = "exec", !.wait = 0, !.list = After(r.list, st)]
    <3>2. /\ s.st = r.st /\ s.main = r.main /\ s.pipe = r.pipe /\ s.from = r.from
          /\ s.stdin = r.stdin /\ s.stdout = r.stdout /\ s.list = After(r.list, st)
          /\ s.pass = r.pass /\ Alone(C, p, s)
      BY <2>t, <3>1 DEF Process
    <3>3. r.pass = 0 /\ Linked(r.list)
      BY <2>t, <3>0 DEF GoodProcess, GoodShell
    <3>4. Linked(After(r.list, st))
      BY <3>0, <3>3, AfterType
    <3> HIDE DEF s
    <3>5. GoodProcess(s)
      BY <2>t, <3>0, <3>2, <3>3, <3>4, QuietShell
    <3> QED BY <2>u, <3>0, <3>2, <3>5, AlonePipes
  <2>4. CASE EndList(p)
    <3>0. r.st = "shell" /\ UNCHANGED input /\ Linked(r.list)
      BY <2>4, <2>t DEF EndList, GoodProcess, GoodShell
    <3> DEFINE s == [r EXCEPT !.pc = "prompt", !.pass = 0]
    <3>1. /\ s.st = r.st /\ s.main = r.main /\ s.pipe = r.pipe /\ s.from = r.from
          /\ s.stdin = r.stdin /\ s.stdout = r.stdout /\ s.list = r.list /\ s.pass = 0
      BY <2>t DEF Process
    <3>2. Gone(C, p) \/ Alone(C, p, s)
      BY <2>4, EndListStep, Zenon
    <3> HIDE DEF s
    <3>3. GoodProcess(s)
      BY <2>t, <3>0, <3>1, QuietShell
    <3> QED BY <2>g, <2>u, <3>0, <3>2, <3>3, AlonePipes
  <2>5. CASE subshell_exec(p)
    <3>1. r.list \in Seq(C)
      BY <2>t DEF Process
    <3>2. GoodProcess(Subshell(r))
      BY <2>5, <2>t, <3>1, SubshellStep, SubshellGood
    <3> QED BY <2>5, <2>u, <3>2, SubshellStep, AlonePipes
  <2>6. CASE Builtin(p) \/ ProgramEnds(p)
    <3>0. UNCHANGED input /\ \E code \in Nat : proc' = Exited(proc, p, code)
      BY <2>6 DEF Builtin, ProgramEnds
    <3> QED BY <2>g, <2>u, <3>0, Exits
  <2>7. CASE execve(p)
    <3>1. GoodProcess(Program(r))
      BY <2>7, <2>t, ExecveStep, ProgramGood
    <3> QED BY <2>7, <2>u, <3>1, ExecveStep, AlonePipes
  <2> QED BY <1>2, <2>1, <2>2, <2>3, <2>4, <2>5, <2>6, <2>7 DEF Step
<1> QED BY <1>1, <1>2 DEF Next

-----------------------------------------------------------------------------
(* The theorems.                                                           *)

\* At the start there is the main shell alone.
LEMMA InitHolds ==
  ASSUME NEW C, Grammar(C), Init
  PROVE  TypeInv(C) /\ ChildInv /\ (Connects(C) => PipeInv)
<1> DEFINE m == [None EXCEPT !.st = "shell", !.main = TRUE, !.pc = "prompt"]
<1>1. m \in Process(C)
  <2>1. None \in Process(C)
    BY NoneType, Zenon
  <2> QED BY <2>1, Zenon DEF Process
<1>2. /\ m.st = "shell" /\ m.pc = "prompt" /\ m.list = << >> /\ m.pass = 0 /\ m.main = TRUE
      /\ m.parent = 0
  BY DEF None
<1>3. proc = [p \in Pids |-> IF p = 1 THEN m ELSE None]
  BY DEF Init
<1>4. input \in Inputs /\ pipes = 0
  BY DEF Init
<1> HIDE DEF m
<1>5. Busy(m) /\ Busy(None)
  BY <1>2, NoneType, Zenon DEF Busy
<1>6. TypeInv(C)
  <2>1. proc \in [Pids -> Process(C)] /\ \A p \in Pids : Busy(proc[p])
    BY <1>1, <1>3, <1>5, NoneType, Zenon
  <2> QED BY <1>4, <2>1 DEF TypeInv, Grammar
<1>7. ChildInv
  <2>1. \A q \in Pids : Running(q) => proc[q].parent = 0
    <3>1. None.st = "none"
      BY NoneType
    <3> QED BY <1>2, <1>3, <3>1, Zenon DEF Running
  <2> QED BY <2>1, RunAssumption DEF ChildInv, Pids
<1>8. ASSUME Connects(C) PROVE PipeInv
  <2>1. GoodShell(m)
    BY <1>2 DEF GoodShell, Linked
  <2>2. GoodProcess(m)
    BY <1>2, <2>1 DEF GoodProcess
  <2>3. GoodProcess(None)
    BY NoneType, Zenon DEF GoodProcess
  <2> QED BY <1>3, <1>4, <1>8, <2>2, <2>3 DEF PipeInv, Connects
<1> QED BY <1>6, <1>7, <1>8

\* cmdrun.c, cmd_line_exec: for any lines of the parser and any number of processes, the
\* shell, a subshell or a child that execve left a copy of the shell is at a prompt only
\* when every command has ended that it has to wait for.
THEOREM ForegroundIsDone ==
  ASSUME NEW CONSTANT C, Grammar(C)
  PROVE  Spec => []ForegroundDone
<1>1. Init => TypeInv(C) /\ ChildInv
  BY InitHolds
<1>2. TypeInv(C) /\ ChildInv /\ [Next]_vars => TypeInv(C)' /\ ChildInv'
  BY TypesKeep, ChildKeeps
<1>3. ChildInv => ForegroundDone
  BY DEF ChildInv, ForegroundDone, Children, Waits
<1> QED BY <1>1, <1>2, <1>3, PTL DEF Spec

\* cmdrun.c:25-33: a program before a pipe that is found and has no <, and every command
\* after a pipe that is no subshell, has the end of its pipe as output or input.
THEOREM PipesAreConnected ==
  ASSUME NEW CONSTANT C, Grammar(C), Connects(C)
  PROVE  Spec => []PipesConnect
<1>1. Init => TypeInv(C) /\ PipeInv
  BY InitHolds
<1>2. TypeInv(C) /\ PipeInv /\ [Next]_vars => TypeInv(C)' /\ PipeInv'
  BY TypesKeep, PipesKeep
<1>3. PipeInv => PipesConnect
  BY Zenon DEF PipeInv, PipesConnect, GoodProcess, Plugged
<1> QED BY <1>1, <1>2, <1>3, PTL DEF Spec
=============================================================================
