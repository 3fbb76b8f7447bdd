----------------------------- MODULE MCTaskRun -----------------------------
(***************************************************************************)
(* Small instances of TaskRun.  Every command line is built with the       *)
(* semantic actions of the grammar, so its redirects have the order that   *)
(* the parser gives them.                                                  *)
(***************************************************************************)
EXTENDS TaskRun, Grammar

Quick(tokens)  == Cmd("quick", tokens)
Writer(tokens) == Cmd("writer", tokens)
Filter(tokens) == Cmd("filter", tokens)
Q == Quick(<<>>)
W == Writer(<<>>)
F == Filter(<<>>)

(* Every pair of separators between three commands.                         *)
SeqLines == {Cmds(<<Q, Q, Q>>, <<a, b>>) : a, b \in {";", "&&", "||", "|"}}

(* Every list of at most two redirection tokens, and some of three, on a    *)
(* command alone, before a pipe and after one.                              *)
Tokens == {"<", ">", ">&2", "2>&1", "2>", "&>"}
TokenLists ==
  {<<>>} \cup {<<a>> : a \in Tokens} \cup {<<a, b>> : a, b \in Tokens}
    \cup {<<"<", ">", "2>">>, <<"2>", ">&2", "<">>, <<">", "<", "2>&1">>}
RedirLines ==
  {Cmds(<<Quick(a)>>, <<>>) : a \in TokenLists}
    \cup {Cmds(<<Quick(a), Q>>, <<"|">>) : a \in TokenLists}
    \cup {Cmds(<<Q, Quick(a)>>, <<"|">>) : a \in TokenLists}

(* Pipelines that end only by SIGPIPE or end of file.                       *)
StreamLines ==
  { Cmds(<<W, Q>>, <<"|">>), Cmds(<<Q, F>>, <<"|">>),
    Cmds(<<W, F, Q>>, <<"|", "|">>), Cmds(<<Q, F, F>>, <<"|", "|">>),
    Cmds(<<F, F, Q>>, <<"|", "|">>), Cmds(<<Writer(<<"2>&1">>), Q>>, <<"|">>),
    Cmds(<<Filter(<<"<">>), F, Q>>, <<"|", "&&">>), Cmds(<<W, Q, Q>>, <<"|", "&&">>) }

(* What the run of whole command lines covers.                              *)
AllLines == SeqLines \cup RedirLines \cup StreamLines

(* Every kind of descriptor that can be open when something fails, in a     *)
(* call whose tasks do not give one descriptor to both stdout and stderr.   *)
FaultLines ==
  { Cmds(<<Q, Q, Q>>, <<"|", "|">>),
    Cmds(<<Quick(<<"<", "2>">>), Quick(<<">", "2>">>)>>, <<"|">>),
    Cmds(<<Quick(<<"2>&1">>), Q, Quick(<<"&>">>)>>, <<"|", "&&">>),
    Cmds(<<Q, Quick(<<">">>), Q>>, <<"||", ";">>) }

(* One pipe, one file shared by stdout and stderr.                          *)
PipeLines  == {Cmds(<<F, Q>>, <<"|">>), Cmds(<<Q, Q>>, <<"|">>)}
PlainLines == {Cmds(<<Q>>, <<>>), Cmds(<<Q, Q>>, <<";">>)}
ShareLines == {Cmds(<<Quick(<<">", "2>&1">>)>>, <<>>)}

AllEvents == Events \ {"fork", "eintr", "host"}
Std == 0..2
=============================================================================
