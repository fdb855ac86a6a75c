------------------------------ MODULE MCCmdRun ------------------------------
(* Lines for the executor of the shell: MCGood, and lines with a program   *)
(* that is not found, MCMissing.                                           *)
EXTENDS CmdRun

C(prog, op) == Cmd(prog, FALSE, FALSE, op)

\* lists of up to three plain commands, in which gen is read by a cat
Plain == {<<C(a, "end")>> : a \in {"ok", "fail", "cd", "pwd"}}
Joined == {<<C(a, op), C(b, "end")>> : a, b \in {"ok", "fail"}, op \in {"&&", "||", ";", "&"}}
Pipelines == {<<C("gen", "|"), C("cat", "end")>>, <<C("gen", "|"), C("cat", "|"), C("cat", "&")>>,
              <<C("gen", "|"), C("cat", "&&"), C("ok", "end")>>,
              <<C("ok", "&"), C("gen", "|"), C("cat", ";"), C("fail", "||"), C("ok", "end")>>}
Subshells == {<<Sub(<<C("ok", ";"), C("fail", "end")>>, "||"), C("ok", "end")>>,
              <<Sub(<<C("gen", "end")>>, "|"), C("cat", "end")>>,
              <<Sub(<<C("ok", "&"), C("ok", "end")>>, "&"), C("exit", "end")>>,
              <<Sub(<<C("missing", ";"), C("ok", "end")>>, "||"), C("ok", "end")>>}

Redirected == {<<Cmd("cat", TRUE, TRUE, "&&"), C("ok", "end")>>,
               <<C("gen", "|"), Cmd("cat", FALSE, TRUE, "end")>>}

GoodLines == Plain \cup Joined \cup Pipelines \cup Subshells \cup Redirected
\* what a line leaves behind meets a second line with a command, a pipe or a subshell
Second == Plain \cup {<<C("gen", "|"), C("cat", "end")>>, <<C("ok", "&&"), C("fail", "end")>>,
                      <<Sub(<<C("ok", ";"), C("fail", "end")>>, "||"), C("ok", "end")>>}
MCGood == {<<a, b>> : a \in GoodLines, b \in Second}

MCMissing == {<<<<C("missing", op), C("ok", "end")>>>> : op \in {";", "&&", "||"}}
=============================================================================
