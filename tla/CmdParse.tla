------------------------------ MODULE CmdParse ------------------------------
(***************************************************************************)
(* The parser of the lab 2 shell (cmdparse.c): cmd_line_parse and          *)
(* cmd_parse call each other and build a list of command_t in the heap,    *)
(* over the tokens of one line.  A step is one turn of the loop of the     *)
(* function on top of the stack: a call of parse_gettoken and its switch.  *)
(* malloc always succeeds.                                                 *)
(***************************************************************************)
EXTENDS Integers, Sequences, FiniteSets, SequencesExt, FiniteSetsExt

CONSTANTS
  Tokens,               \* the token types that lines are made of
  MaxLine,              \* lines have at most this many tokens
  BadEnds,              \* whether a line may end in a token that is an error
  MAXTOKENS             \* the arguments that a command may have

VARIABLES
  line,                 \* the tokens of the input line
  pos, last,            \* position and last_position of the parsestate
  stack,                \* the calls that are active, the innermost at the end
  ret,                  \* what the last call returned
  heap,                 \* the commands that are allocated, by number
  lost,                 \* history: subshells whose pointer was overwritten
  status                \* "parsing", "ok", "syntax" (error) or "aborted"

vars == <<line, pos, last, stack, ret, heap, lost, status>>

NULL == 0
Pending == -1           \* no call has returned since the caller's last step
Redirections == {"<", ">", "2>"}
Joins == {"&&", "||", "|"}
Ends == {";", "&"}

\* parse_gettoken: the type, and where the parsestate is then. An error leaves
\* the parsestate alone, the end of the line moves last_position only.
parse_gettoken(p, l) ==
  LET type == IF p > Len(line) THEN "end" ELSE line[p]
  IN [type |-> type,
      pos |-> IF type \in {"error", "end"} THEN p ELSE p + 1,
      last |-> IF type = "error" THEN l ELSE p]

Top == stack[Len(stack)]
Cmd == heap[Top.cmd]
SetTop(f) == stack' = [stack EXCEPT ![Len(stack)] = f]

cmd_alloc == [argc |-> 0, redirect |-> {}, subshell |-> NULL, controlop |-> "end",
              next |-> NULL]
NewCmd == Max(DOMAIN heap \cup {NULL}) + 1

\* The commands that cmd_free(c) frees; a command has a smaller number than
\* its subshell and than the next one.
Tree(h, c) ==
  LET from[k \in DOMAIN h \cup {NULL}] ==
        IF k = NULL THEN {} ELSE {k} \cup from[h[k].subshell] \cup from[h[k].next]
  IN from[c]

cmd_free(c) == heap' = [k \in DOMAIN heap \ Tree(heap, c) |-> heap[k]]

Return(c) == stack' = Front(stack) /\ ret' = c

\* goto error in cmd_parse and in cmd_line_parse: what was built is freed
Fail(c) == cmd_free(c) /\ Return(NULL) /\ UNCHANGED <<lost, status>>

-----------------------------------------------------------------------------
(* cmd_parse.                                                              *)

InCmd == status = "parsing" /\ stack # << >> /\ Top.fn = "cmd"
Token == parse_gettoken(pos, last)
Seen(t) == pos' = t.pos /\ last' = t.last
Waiting == ret = Pending

CmdNormal ==
  /\ InCmd /\ Waiting /\ Token.type = "normal"
  /\ Seen(Token)
  /\ IF Cmd.argc >= MAXTOKENS \/ Cmd.subshell # NULL THEN Fail(Top.cmd)
     ELSE /\ heap' = [heap EXCEPT ![Top.cmd].argc = @ + 1]
          /\ UNCHANGED <<stack, ret, lost, status>>
  /\ UNCHANGED line

CmdRedirect ==
  LET name == parse_gettoken(Token.pos, Token.last)
  IN /\ InCmd /\ Waiting /\ Token.type \in Redirections
     /\ IF Cmd.argc = 0 /\ Cmd.subshell = NULL THEN Seen(Token) /\ Fail(Top.cmd)
        ELSE /\ Seen(name)
             /\ IF name.type # "normal" THEN Fail(Top.cmd)
                ELSE /\ heap' = [heap EXCEPT ![Top.cmd].redirect = @ \cup {Token.type}]
                     /\ UNCHANGED <<stack, ret, lost, status>>
     /\ UNCHANGED line

LineFrame(parens) == [fn |-> "line", parens |-> parens, head |-> NULL, prev |-> NULL,
                      cmd |-> NULL]
CmdFrame(c) == [fn |-> "cmd", parens |-> FALSE, head |-> NULL, prev |-> NULL, cmd |-> c]

\* An open parenthesis calls cmd_line_parse, whatever the command has so far.
CmdOpenParen ==
  /\ InCmd /\ Waiting /\ Token.type = "("
  /\ Seen(Token)
  /\ stack' = Append(stack, LineFrame(TRUE))
  /\ UNCHANGED <<line, ret, heap, lost, status>>

\* mutant: after an error in parentheses the line is parsed again
CmdSubshellAgain ==
  /\ InCmd /\ ~Waiting
  /\ heap' = [heap EXCEPT ![Top.cmd].subshell = ret]
  /\ lost' = lost \cup ({Cmd.subshell} \ {NULL})
  /\ ret' = Pending
  /\ pos' = IF ret = NULL THEN 1 ELSE pos
  /\ UNCHANGED <<line, last, stack, status>>

\* It returns: the result becomes the subshell, also when it is NULL.
CmdSubshell ==
  /\ InCmd /\ ~Waiting
  /\ heap' = [heap EXCEPT ![Top.cmd].subshell = ret]
  /\ lost' = lost \cup ({Cmd.subshell} \ {NULL})
  /\ ret' = Pending
  /\ UNCHANGED <<line, pos, last, stack, status>>

\* mutant: the token that ends the command is not put back
CmdDoneKeep ==
  /\ InCmd /\ Waiting /\ Token.type \notin Redirections \cup {"normal", "("}
  /\ Seen(Token)
  /\ IF Cmd.argc = 0 /\ Cmd.subshell = NULL THEN cmd_free(Top.cmd) /\ Return(NULL)
     ELSE Return(Top.cmd) /\ UNCHANGED heap
  /\ UNCHANGED <<line, lost, status>>

\* Any other token ends the command and is put back by parse_ungettoken.
CmdDone ==
  /\ InCmd /\ Waiting /\ Token.type \notin Redirections \cup {"normal", "("}
  /\ IF Token.last = NULL
       THEN status' = "aborted" /\ UNCHANGED <<pos, last, stack, ret, heap>>
       ELSE /\ pos' = Token.last /\ last' = NULL
            /\ IF Cmd.argc = 0 /\ Cmd.subshell = NULL
                 THEN cmd_free(Top.cmd) /\ Return(NULL)
                 ELSE Return(Top.cmd) /\ UNCHANGED heap
            /\ UNCHANGED status
  /\ UNCHANGED <<line, lost>>

cmd_parse == CmdNormal \/ CmdRedirect \/ CmdOpenParen \/ CmdSubshell \/ CmdDone

-----------------------------------------------------------------------------
(* cmd_line_parse.                                                         *)

InLine == status = "parsing" /\ stack # << >> /\ Top.fn = "line"

\* the next command is parsed
LineCall ==
  /\ InLine /\ Waiting
  /\ heap' = [k \in DOMAIN heap \cup {NewCmd} |-> IF k = NewCmd THEN cmd_alloc ELSE heap[k]]
  /\ stack' = Append(stack, CmdFrame(NewCmd))
  /\ UNCHANGED <<line, pos, last, ret, lost, status>>

\* mutant: the commands before the empty one are not freed
LineEmptyLeak ==
  /\ InLine /\ ret = NULL
  /\ Return(NULL)
  /\ UNCHANGED <<line, pos, last, heap, lost, status>>

\* an empty command is an error
LineEmpty ==
  /\ InLine /\ ret = NULL
  /\ Fail(Top.head)
  /\ UNCHANGED <<line, pos, last>>

\* the command that was parsed, at the end of the list
Linked == IF Top.prev = NULL THEN heap ELSE [heap EXCEPT ![Top.prev].next = ret]
Head1 == IF Top.prev = NULL THEN ret ELSE Top.head

Freed(h, c) == [k \in DOMAIN h \ Tree(h, c) |-> h[k]]

\* The end of the line and a closing parenthesis end the list, each in its place,
\* and the last command must not ask for another one.
Close(t, h) ==
  /\ IF (t.type = "end") = Top.parens \/ h[ret].controlop \notin Ends \cup {"end"}
       THEN heap' = Freed(h, Head1) /\ Return(NULL)
       ELSE heap' = h /\ Return(Head1)
  /\ UNCHANGED <<lost, status>>

\* The token after a command says how it is joined to the next one. The semicolon
\* and the ampersand may end the line; the token after them is put back otherwise,
\* to which end the parsestate has to know where it began.
LineJoin ==
  LET h == [Linked EXCEPT ![ret].controlop = Token.type]
      t == parse_gettoken(Token.pos, Token.last)
      Go == /\ heap' = h /\ ret' = Pending
            /\ SetTop([Top EXCEPT !.head = Head1, !.prev = ret])
            /\ UNCHANGED <<lost, status>>
  IN /\ InLine /\ ret > NULL
     /\ CASE Token.type \in Joins       -> Seen(Token) /\ Go
          [] Token.type \in Ends /\ t.type \in {"end", ")"}
                                        -> Seen(t) /\ Close(t, h)
          [] Token.type \in Ends /\ t.type \notin {"end", ")"}
                                        -> pos' = t.last /\ last' = NULL /\ Go
          [] Token.type \in {"end", ")"} -> Seen(Token) /\ Close(Token, Linked)
          [] OTHER                      -> /\ Seen(Token)
                                           /\ heap' = Freed(Linked, Head1) /\ Return(NULL)
                                           /\ UNCHANGED <<lost, status>>
     /\ UNCHANGED line

cmd_line_parse == LineCall \/ LineEmpty \/ LineJoin

\* main: the result of the outermost call
Finish ==
  /\ status = "parsing" /\ stack = << >>
  /\ status' = IF ret = NULL THEN "syntax" ELSE "ok"
  /\ UNCHANGED <<line, pos, last, stack, ret, heap, lost>>

Lines == UNION {[1..n -> Tokens] : n \in 0..MaxLine}

parse_init(l) ==
  /\ line = l
  /\ pos = 1 /\ last = NULL

Init ==
  /\ \E l \in Lines, bad \in BadEnds : parse_init(IF bad THEN Append(l, "error") ELSE l)
  /\ stack = <<LineFrame(FALSE)>>
  /\ ret = Pending
  /\ heap = << >> /\ lost = {}
  /\ status = "parsing"

Done == status # "parsing" /\ UNCHANGED vars

Next == cmd_parse \/ cmd_line_parse \/ Finish \/ Done

Spec == Init /\ [][Next]_vars /\ WF_vars(Next)

-----------------------------------------------------------------------------
(* The grammar that the comments of cmdparse.c describe.                   *)

\* a run of arguments and redirections, the first of them an argument
RECURSIVE IsArgs(_), IsTail(_), IsList(_), IsCommand(_)
IsTail(l) == \/ l = << >>
             \/ Len(l) > 1 /\ l[1] \in Redirections /\ l[2] = "normal" /\ IsTail(SubSeq(l, 3, Len(l)))
IsArgs(l) ==
  \/ l = << >>
  \/ l[1] = "normal" /\ IsArgs(Tail(l))
  \/ Len(l) > 1 /\ l[1] \in Redirections /\ l[2] = "normal" /\ IsArgs(SubSeq(l, 3, Len(l)))

NumArgs(l) == Cardinality({i \in 1..Len(l) : l[i] = "normal" /\ (i = 1 \/ l[i - 1] \notin Redirections)})

\* a simple command, or a list in parentheses with redirections after it
IsCommand(l) ==
  /\ l # << >>
  /\ \/ l[1] = "normal" /\ IsArgs(l) /\ NumArgs(l) <= MAXTOKENS
     \/ /\ l[1] = "("
        /\ \E k \in 2..Len(l) : /\ l[k] = ")" /\ IsList(SubSeq(l, 2, k - 1))
                                /\ IsTail(SubSeq(l, k + 1, Len(l)))

\* commands with an operator between each two, and perhaps ; or & at the end
IsList(l) ==
  \/ IsCommand(l)
  \/ \E k \in 2..Len(l) :
       /\ l[k] \in Joins \cup Ends
       /\ IsCommand(SubSeq(l, 1, k - 1))
       /\ \/ IsList(SubSeq(l, k + 1, Len(l)))
          \/ k = Len(l) /\ l[k] \in Ends

Grammatical == IsList(line)

\* the line without its redirections
RECURSIVE Strip(_)
Strip(l) == IF l = << >> THEN << >>
            ELSE IF l[1] \in Redirections THEN Strip(SubSeq(l, 3, Len(l)))
            ELSE <<l[1]>> \o Strip(Tail(l))

\* the tokens that a list of commands stands for
Unparse(h, c) ==
  LET from[k \in DOMAIN h \cup {NULL}] ==
        IF k = NULL THEN << >>
        ELSE [i \in 1..h[k].argc |-> "normal"]
             \o (IF h[k].subshell = NULL THEN << >> ELSE <<"(">> \o from[h[k].subshell] \o <<")">>)
             \o (IF h[k].controlop = "end" THEN << >> ELSE <<h[k].controlop>>)
             \o from[h[k].next]
  IN from[c]

-----------------------------------------------------------------------------
(* Properties.                                                             *)

\* The variables keep their types.
TypeOK ==
  /\ pos \in 1..(MaxLine + 2) /\ last \in 0..(MaxLine + 2)
  /\ \A k \in DOMAIN heap : /\ heap[k].argc \in 0..MAXTOKENS
                            /\ heap[k].subshell \in DOMAIN heap \cup {NULL}
                            /\ heap[k].next \in DOMAIN heap \cup {NULL}
  /\ ret \in DOMAIN heap \cup {NULL, Pending}
  /\ status \in {"parsing", "ok", "syntax", "aborted"}

\* A line of the grammar is accepted, and the list that cmd_line_parse returns
\* has its commands, operators and parentheses in their order.
ParsesGrammar ==
  Grammatical => /\ status \notin {"syntax", "aborted"}
                 /\ status = "ok" => Unparse(heap, ret) = Strip(line)

\* Without parentheses nothing else is accepted.
RejectsTheRest ==
  status = "ok" /\ ~(\E i \in 1..Len(line) : line[i] = "(") => Grammatical

\* Nothing that was allocated is lost, except subshells whose pointer cmd_parse
\* has overwritten; after a syntax error nothing else is left.
NoOtherLeak ==
  LET Held == {ret} \cup UNION {{stack[i].head, stack[i].cmd} : i \in 1..Len(stack)}
      Kept == UNION {Tree(heap, c) : c \in (Held \cap DOMAIN heap) \cup (lost \cap DOMAIN heap)}
  IN DOMAIN heap \subseteq Kept

\* The assertions of cmd_print (cmdparse.c:480 and 530) hold for every command
\* of an accepted line, those of subshells included.
PrintSafe ==
  status = "ok" => \A k \in Tree(heap, ret) :
    heap[k].argc <= MAXTOKENS /\ (heap[k].next # NULL \/ heap[k].controlop \in Ends \cup {"end"})

\* cmdparse.c:166: parse_ungettoken backs up one token only, so that its
\* assertion never fails.
NeverAborts == status # "aborted"

\* cmdparse.c:371: cmd_line_parse returns, with the head of the list or NULL.
Terminates == <>(status # "parsing")
=============================================================================
