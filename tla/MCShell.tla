------------------------------ MODULE MCShell ------------------------------
(***************************************************************************)
(* The programs of labs 1 and 2 that run lines of commands: the executor   *)
(* of the shell, its parser, and the queue programs.  They share no state, *)
(* and so a behaviour is about one of them, its part.                      *)
(***************************************************************************)
EXTENDS MCCmdRun

CONSTANTS Node, NullNode        \* see CipherQueue, its NULL

VARIABLES
  part,
  line, pos, last, stack, ret, cmds, lost, status,                      \* CmdParse
  pc, head, tail, next, data, heap, lines, fifo, printed, wanted        \* CipherQueue

parseVars == <<line, pos, last, stack, ret, cmds, lost, status>>
queueVars == <<pc, head, tail, next, data, heap, lines, fifo, printed, wanted>>

Parser == INSTANCE CmdParse WITH
            heap <- cmds, Tokens <- {"normal", "<", ";", "&&", "(", ")"}, MaxLine <- 5,
            BadEnds <- {FALSE}, MAXTOKENS <- 2

\* "Z", and "A+" which cannot be encoded
Queue == INSTANCE CipherQueue WITH
           NULL <- NullNode, INT_MIN <- -64,
           Words <- {<<90>>, <<65, 43>>}, Keys <- {1, 30}, MaxLines <- 5,
           Forms <- {"enqueue word", "encode_enqueue key word", "dequeue", "dequeue_decode key",
                     "enqueue space", "encode_enqueue key", "other"}

\* the parser rests on an empty line
ShellInit ==
  /\ part \in {"run", "parse", "queue"}
  /\ IF part = "run" THEN Init ELSE Init /\ input = CHOOSE i \in Inputs : TRUE
  /\ IF part = "parse" THEN Parser!Init ELSE Parser!Init /\ line = << >>
  /\ Queue!Init

ShellNext ==
  /\ UNCHANGED part
  /\ IF part = "run" THEN Next ELSE UNCHANGED vars
  /\ IF part = "parse" THEN Parser!Next ELSE UNCHANGED parseVars
  /\ IF part = "queue" THEN Queue!Next ELSE UNCHANGED queueVars

\* the fairness of CmdRun; and the parser does not stop
ShellSpec ==
  /\ ShellInit /\ [][ShellNext]_<<part, vars, parseVars, queueVars>>
  /\ \A p \in Pids : WF_vars(part = "run" /\ Step(p) /\ ~ReadLine(p))
  /\ WF_parseVars(part = "parse" /\ Parser!Next)

-----------------------------------------------------------------------------
(* Properties: ForegroundDone, ChainRuns and PipesConnect of CmdRun, and   *)
(* those of the other modules on the inputs of their parts.                *)

\* cmdrun.c: every child ends, and the shell comes back to its prompt.
AllEnd == ChildrenEnd /\ PromptReturns

\* cmdparse.c: a line of the grammar is parsed as it stands, and without
\* parentheses no other line is, see CmdParse.
ParsesGrammar == part = "parse" => Parser!ParsesGrammar /\ Parser!RejectsTheRest

\* cmdparse.c: no command is lost but the subshells that are overwritten, and the
\* assertions of parse_ungettoken and cmd_print hold.
ParserSound ==
  part = "parse" => Parser!TypeOK /\ Parser!NoOtherLeak /\ Parser!PrintSafe /\ Parser!NeverAborts

\* cmdparse.c, cmd_line_parse: it returns.
ParserTerminates == part = "parse" => Parser!Terminates

\* queue.c, queue_main.c, ciphered_queue_main.c: the list is the queue, words come
\* out in their order and decoded, and nothing is left allocated at the end.
QueueProgram == part = "queue" => Queue!ListIsQueue /\ Queue!FirstOut /\ Queue!FreedAtExit
=============================================================================
