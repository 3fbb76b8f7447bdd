------------------------------ MODULE Grammar ------------------------------
(***************************************************************************)
(* The semantic actions of parser.y, from the reduction of a redirection   *)
(* token upwards: they fix the ORDER of a task's redirects, on which the   *)
(* wiring of its descriptors depends.                                      *)
(***************************************************************************)
EXTENDS CommandLine, SequencesExt

RedirectTo(s, tgt) == [stream |-> s, target |-> tgt]

(* "&>" is two redirects, the stderr one first.                             *)
Redirection(token) ==
  CASE token = "<"               -> <<RedirectTo("in", "file")>>
    [] token \in {">", ">>"}     -> <<RedirectTo("out", "file")>>
    [] token = ">&2"             -> <<RedirectTo("out", "share")>>
    [] token = "2>&1"            -> <<RedirectTo("err", "share")>>
    [] token \in {"2>", "2>>"}   -> <<RedirectTo("err", "file")>>
    [] token \in {"&>", "&>>"}   -> <<RedirectTo("err", "share"),
                                      RedirectTo("out", "file")>>

(* words redirects *)
Cmd(prog, tokens) ==
  [prog |-> prog,
   redirects |-> FlattenSeq([k \in DOMAIN tokens |-> Redirection(tokens[k])])]

RunIf(sep) ==
  CASE sep \in {";", "|"} -> "always"
    [] sep = "||"         -> "if_prev_failed"
    [] sep = "&&"         -> "if_prev_succeeded"

(* cmd sep cmds.  The rule is right recursive, so the innermost pipe is     *)
(* reduced first: a task in the middle of a pipeline gets its stdout pipe   *)
(* before its stdin pipe, both after its own redirects.                     *)
Cmds(cmds, seps) ==
  LET PipeAfter(k) == k \in DOMAIN seps /\ seps[k] = "|"
      End(b, s)    == IF b THEN <<RedirectTo(s, "pipe")>> ELSE <<>>
  IN  [k \in DOMAIN cmds |->
         [run_if    |-> IF k = 1 THEN "always" ELSE RunIf(seps[k-1]),
          prog      |-> cmds[k].prog,
          redirects |-> cmds[k].redirects \o End(PipeAfter(k), "out")
                                          \o End(PipeAfter(k-1), "in")]]
=============================================================================
