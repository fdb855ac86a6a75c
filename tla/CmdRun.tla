------------------------------- MODULE CmdRun -------------------------------
(***************************************************************************)
(* The executor of the lab 2 shell (cmdrun.c, main.c): the shell reads     *)
(* parsed lines and runs each command in a child, with pipes, redirections *)
(* and subshells; the children are processes of their own that run beside  *)
(* it.  The kernel's part (fork, pipe ends, exit, waitpid) is modelled as  *)
(* the code uses it; fork and pipe do not fail.                            *)
(***************************************************************************)
EXTENDS Integers, Sequences, FiniteSets, FiniteSetsExt

CONSTANTS
  Inputs,               \* sequences of lines; a line is a sequence of commands
  MaxProc               \* processes that exist at a time

ASSUME RunAssumption == MaxProc \in Nat \ {0}

VARIABLES
  input,                \* the lines that have not been read
  proc,                 \* the processes
  pipes,                \* the number of pipes made so far
  ran                   \* history: the statuses of the commands that the shell
                        \* has run for the current line, and the line

vars == <<input, proc, pipes, ran>>

Pids == 1..MaxProc
Tty == <<"tty", 0>>
File == <<"file", 0>>
R(k) == <<"r", k>>      \* the ends of pipe k
W(k) == <<"w", k>>

\* A command: the program, whether it has < and >, the control operator after it,
\* and the list in parentheses. Programs: ok and fail exit, cat reads to the end
\* of file, gen writes more than a pipe holds, missing is not in /usr/bin.
Cmd(prog, in, out, op) == [prog |-> prog, in |-> in, out |-> out, op |-> op, sub |-> << >>]
Sub(list, op) == [prog |-> "sub", in |-> FALSE, out |-> FALSE, op |-> op, sub |-> list]

None == [st |-> "none", parent |-> 0, main |-> FALSE, pc |-> "none", list |-> << >>,
         status |-> 0, pass |-> 0, pipe |-> 0, from |-> 0, wait |-> 0, stdin |-> Tty, stdout |-> Tty,
         open |-> {}, cmd |-> Cmd("ok", FALSE, FALSE, "end")]

Running(p) == proc[p].st \in {"shell", "child", "prog"}
Holders(e) == {p \in Pids : Running(p) /\ (e \in proc[p].open \cup {proc[p].stdin, proc[p].stdout})}
Children(p) == {q \in Pids : proc[q].st # "none" /\ proc[q].parent = p}
Free == {p \in Pids : proc[p].st = "none"}

\* p exits: a zombie until its parent waits for it; its children lose their parent
Exited(f, p, code) ==
  [q \in Pids |->
     IF q = p THEN IF f[p].parent = 0 THEN None
                   ELSE [None EXCEPT !.st = "zombie", !.parent = f[p].parent, !.status = code,
                                     !.cmd = f[p].cmd]
     ELSE IF f[q].st # "none" /\ f[q].parent = p
            THEN IF f[q].st = "zombie" THEN None ELSE [f[q] EXCEPT !.parent = 0]
     ELSE f[q]]

\* mutant: a command before || is not waited for
is_wait_cmd_or(c) == c.op \in {"&&", "end", ";"}

is_wait_cmd(c) == c.op \in {"&&", "||", "end", ";"}
is_continue_cmd(c) == c.op \in {"|", "&"}

AtCmd(p) == proc[p].st = "shell" /\ proc[p].pc = "exec" /\ proc[p].list # << >>
Current(p) == Head(proc[p].list)
IsMain(p) == p = 1

-----------------------------------------------------------------------------
(* cmd_line_exec, around cmd_exec.                                         *)

\* mutant: a failing && command does not skip the next one
AfterNoSkip(list, status) == Tail(list)

\* where the list goes on after a command with this status was waited for
After(list, status) ==
  IF (Head(list).op = "&&" /\ status # 0) \/ (Head(list).op = "||" /\ status = 0)
    THEN SubSeq(list, 3, Len(list)) ELSE Tail(list)

\* shell process s, whose command c was started as process q (0 in the child),
\* goes on: it waits, or takes the next command
Started(s, c, q) ==
  IF is_wait_cmd(c) THEN [s EXCEPT !.pc = "wait", !.wait = q]
  ELSE [s EXCEPT !.list = Tail(@), !.status = 0]

waitpid(p) ==
  LET q == proc[p].wait
      s == proc[q].status
  IN /\ proc[p].st = "shell" /\ proc[p].pc = "wait" /\ q # 0 /\ proc[q].st = "zombie"
     /\ proc' = [proc EXCEPT ![q] = None,
                             ![p] = [proc[p] EXCEPT !.status = s, !.pc = "exec", !.wait = 0,
                                                    !.list = After(proc[p].list, s)]]
     /\ ran' = IF IsMain(p) THEN [ran EXCEPT !.statuses = Append(@, s)] ELSE ran
     /\ UNCHANGED <<input, pipes>>

\* waitpid(0) in a child that has no children fails at once, and its status is
\* whatever wp_status holds
WaitNone(p) ==
  /\ proc[p].st = "shell" /\ proc[p].pc = "wait" /\ proc[p].wait = 0
  /\ \E s \in {0, 1} :
       proc' = [proc EXCEPT ![p] = [proc[p] EXCEPT !.status = s, !.pc = "exec",
                                                   !.list = After(proc[p].list, s)]]
  /\ UNCHANGED <<input, pipes, ran>>

\* the end of the list: zombies are reaped, and main or the subshell goes on
EndList(p) ==
  LET reaped == [q \in Pids |-> IF proc[q].st = "zombie" /\ proc[q].parent = p THEN None
                                ELSE proc[q]]
  IN /\ proc[p].st = "shell" /\ proc[p].pc = "exec" /\ proc[p].list = << >>
     /\ proc' = IF proc[p].main THEN [reaped EXCEPT ![p].pc = "prompt", ![p].pass = 0]
                ELSE Exited(reaped, p, proc[p].status)
     /\ UNCHANGED <<input, pipes, ran>>

\* main: the next line is read; at the end of the input the shell exits
ReadLine(p) ==
  /\ proc[p].st = "shell" /\ proc[p].pc = "prompt"
  /\ IF input = << >> \/ proc[p].stdin # Tty
       THEN proc' = Exited(proc, p, 0) /\ UNCHANGED <<input, ran>>
       ELSE /\ proc' = [proc EXCEPT ![p] = [proc[p] EXCEPT !.list = Head(input),
                                                           !.pc = "exec", !.status = 0]]
            /\ input' = Tail(input)
            /\ ran' = IF IsMain(p) THEN [line |-> Head(input), statuses |-> << >>] ELSE ran
  /\ UNCHANGED pipes

-----------------------------------------------------------------------------
(* cmd_exec and subshell_exec.                                             *)

Piped(p) == Current(p).op = "|"
NewPipe == pipes + 1

\* mutant: the parent keeps the write end of the pipe
ParentKeepsEnd(p, q) ==
  LET s == IF Piped(p) THEN [proc[p] EXCEPT !.pass = NewPipe, !.open = @ \cup {R(NewPipe), W(NewPipe)}]
           ELSE [proc[p] EXCEPT !.pass = 0]
  IN Started(s, Current(p), q)

\* The parent after the fork: it closes the write end of the new pipe and keeps
\* the read end for the next command. The read end of the pipe before is not closed.
Parent(p, q) ==
  LET s == IF Piped(p) THEN [proc[p] EXCEPT !.pass = NewPipe, !.open = @ \cup {R(NewPipe)}]
           ELSE [proc[p] EXCEPT !.pass = 0]
  IN Started(s, Current(p), q)

\* the child at the fork: it has the descriptors of the shell and the new pipe
Forked(p) ==
  [proc[p] EXCEPT !.st = "child", !.parent = p, !.cmd = Current(p), !.wait = 0, !.from = proc[p].pass,
                  !.pipe = IF Piped(p) THEN NewPipe ELSE 0,
                  !.open = IF Piped(p) THEN @ \cup {R(NewPipe), W(NewPipe)} ELSE @]

cmd_exec(p) ==
  /\ AtCmd(p) /\ Free # {}
  /\ IF Current(p).prog = "exit" /\ Current(p).sub = << >>
       THEN proc' = Exited(proc, p, 0) /\ UNCHANGED pipes
       ELSE LET q == Min(Free)
            IN /\ proc' = [proc EXCEPT ![p] = Parent(p, q), ![q] = Forked(p)]
               /\ pipes' = IF Piped(p) THEN NewPipe ELSE pipes
  /\ UNCHANGED <<input, ran>>

\* subshell_exec in the child: it does not look at pass_pipefd
subshell_exec(q) ==
  LET s == proc[q]
      out == IF s.pipe # 0 THEN W(s.pipe) ELSE IF s.cmd.out THEN File ELSE s.stdout
  IN /\ s.st = "child" /\ s.cmd.sub # << >>
     /\ proc' = [proc EXCEPT ![q] =
          [s EXCEPT !.st = "shell", !.main = FALSE, !.pc = "exec", !.list = s.cmd.sub,
                    !.status = 0, !.pass = 0, !.stdout = out,
                    !.stdin = IF s.cmd.in THEN File ELSE @,
                    !.open = @ \ {R(s.pipe), W(s.pipe)}]]
     /\ UNCHANGED <<input, pipes, ran>>

\* our_pwd and cd in the child, before any redirection
Builtin(q) ==
  /\ proc[q].st = "child" /\ proc[q].cmd.prog \in {"pwd", "cd"}
  /\ proc' = Exited(proc, q, 0)
  /\ UNCHANGED <<input, pipes, ran>>

\* mutant: the pipe is not connected to the output
ConnectedInput(s) ==
  [s EXCEPT !.stdout = IF s.cmd.out THEN File ELSE @,
            !.stdin = IF R(s.pass) \in s.open THEN R(s.pass) ELSE IF s.cmd.in THEN File ELSE @,
            !.open = @ \ {R(s.pipe), W(s.pipe), R(s.pass)}]

\* The descriptors of a program: with < the pipe to the next command is left alone;
\* dup2 of a descriptor that is closed changes nothing.
Connected(s) ==
  LET piped == s.pipe # 0 /\ ~s.cmd.in
  IN [s EXCEPT !.stdout = IF piped THEN W(s.pipe) ELSE IF s.cmd.out THEN File ELSE @,
               !.stdin = IF R(s.pass) \in s.open THEN R(s.pass) ELSE IF s.cmd.in THEN File ELSE @,
               !.open = (IF piped THEN @ \ {R(s.pipe), W(s.pipe)} ELSE @) \ {R(s.pass)}]

\* When execve fails the child returns from cmd_exec, with pid 0, into the loop of
\* the shell that it is a copy of.
execve(q) ==
  LET s == Connected(proc[q])
      c == s.cmd
      shell == [s EXCEPT !.st = "shell", !.pass = s.pipe, !.open = @ \ {W(s.pipe)}]
  IN /\ s.st = "child" /\ c.sub = << >> /\ c.prog \notin {"pwd", "cd"}
     /\ proc' = [proc EXCEPT ![q] = IF c.prog # "missing" THEN [s EXCEPT !.st = "prog"]
                                    ELSE Started(shell, c, 0)]
     /\ UNCHANGED <<input, pipes, ran>>

-----------------------------------------------------------------------------
(* The programs.                                                           *)

Pipe(e) == e[2]
IsPipe(e) == e[1] \in {"r", "w"}

CanFinish(q) ==
  LET s == proc[q] IN
  CASE s.cmd.prog = "cat" -> IsPipe(s.stdin) => Holders(W(Pipe(s.stdin))) = {}
    [] s.cmd.prog = "gen" -> IsPipe(s.stdout) =>
         \/ Holders(R(Pipe(s.stdout))) = {}
         \/ \E r \in Pids : /\ proc[r].st = "prog" /\ proc[r].cmd.prog = "cat"
                            /\ proc[r].stdin = R(Pipe(s.stdout))
    [] OTHER -> TRUE

ProgramEnds(q) ==
  /\ proc[q].st = "prog" /\ CanFinish(q)
  /\ proc' = Exited(proc, q, IF proc[q].cmd.prog = "fail" THEN 1 ELSE 0)
  /\ UNCHANGED <<input, pipes, ran>>

Step(p) ==
  \/ ReadLine(p) \/ cmd_exec(p) \/ waitpid(p) \/ WaitNone(p) \/ EndList(p)
  \/ subshell_exec(p) \/ Builtin(p) \/ execve(p) \/ ProgramEnds(p)

Init ==
  /\ input \in Inputs
  /\ proc = [p \in Pids |-> IF p = 1 THEN [None EXCEPT !.st = "shell", !.main = TRUE,
                                                       !.pc = "prompt"] ELSE None]
  /\ pipes = 0
  /\ ran = [line |-> << >>, statuses |-> << >>]

Next == \E p \in Pids : Step(p)

\* Every process runs, and the kernel starves none of them; only the next line of
\* the input may never come.
Spec == Init /\ [][Next]_vars /\ \A p \in Pids : WF_vars(Step(p) /\ ~ReadLine(p))

-----------------------------------------------------------------------------
(* Properties.                                                             *)

\* The shell prints its prompt only when every command of the line has ended
\* that it has to wait for: those before |  and & may go on.
ForegroundDone ==
  \A p \in Pids : proc[p].st = "shell" /\ proc[p].pc = "prompt" =>
    \A q \in Children(p) : Running(q) => is_continue_cmd(proc[q].cmd)

\* How many commands cmd_line_exec waits for, by the comment above it: && and ||
\* go on with the next command, or end the whole line.
Waited(line) == SelectSeq(line, is_wait_cmd)
StopsAt(k, statuses) ==
  LET c == Waited(ran.line)[k]
  IN (c.op = "&&" /\ statuses[k] # 0) \/ (c.op = "||" /\ statuses[k] = 0)

\* When && and || come last in a line, the shell runs the next command after the
\* status that the operator asks for, and ends the line after the other.
ChainRuns ==
  LET line == ran.line
      n == Len(ran.statuses)
      OneChain == \A k \in 1..Len(line) : line[k].op \in {"&&", "||"} => k = Len(line) - 1
  IN OneChain /\ proc[1].st = "shell" /\ proc[1].pc = "prompt" =>
       /\ \A k \in 1..(n - 1) : ~StopsAt(k, ran.statuses)
       /\ n = Len(Waited(line)) \/ (n > 0 /\ StopsAt(n, ran.statuses))

\* Every child of the shell ends: readers see the end of file when the writers
\* are gone, and writers die when the readers are gone.
ChildrenEnd == \A p \in Pids \ {1} : Running(p) ~> ~Running(p)

\* The shell comes back to its prompt, or exits.
PromptReturns == proc[1].st = "shell" ~> proc[1].st # "shell" \/ proc[1].pc = "prompt"

\* cmdrun.c:37: cmd_exec returns the id of the forked child, in the shell: no
\* child ever reads command lines.
OneShell == Cardinality({p \in Pids : proc[p].st = "shell" /\ proc[p].main}) <= 1

\* cmdrun.c:25-33: a command before | writes to the pipe, and the next command
\* reads from it.
PipesConnect ==
  \A q \in Pids : proc[q].st = "prog" \/ (proc[q].st = "shell" /\ ~proc[q].main) =>
    /\ proc[q].pipe # 0 => proc[q].stdout = W(proc[q].pipe)
    /\ proc[q].from # 0 => proc[q].stdin = R(proc[q].from)
=============================================================================
