---------------------------- MODULE CommandLine ----------------------------
(***************************************************************************)
(* The task list that the parser builds and _sf1_tasks_run consumes        *)
(* (systemf-internal.h): the types, and what task.c reads off a list.      *)
(*                                                                         *)
(* A task keeps its run_if and its redirects, in list order.  Words, file  *)
(* names and the append flag are left out: no property here depends on     *)
(* them.  "prog" says how the program that the task executes behaves; it   *)
(* belongs to the environment and the library never reads it.              *)
(***************************************************************************)
EXTENDS Integers, Sequences

Streams == {"in", "out", "err"}
Targets == {"file", "share", "pipe"}
RunIfs  == {"always", "if_prev_failed", "if_prev_succeeded"}

Redirect == [stream : Streams, target : Targets]

(* quick  - exits by itself, whatever happens to its streams                *)
(* writer - writes to stdout for ever ("cmd count" of tests/cmd.c)          *)
(* filter - copies stdin to stdout until end of file ("cmd cat")            *)
Programs == {"quick", "writer", "filter"}

Task == [run_if : RunIfs, redirects : Seq(Redirect), prog : Programs]

HasRedirect(task, s, tgt) ==
  \E k \in 1..Len(task.redirects) :
     task.redirects[k].stream = s /\ task.redirects[k].target = tgt

(* Is there a redirect of stream s to tgt, and after it one of s2 to tgt2?  *)
Before(task, s, tgt, s2, tgt2) ==
  \E m, n \in 1..Len(task.redirects) :
     /\ m < n
     /\ task.redirects[m] = [stream |-> s, target |-> tgt]
     /\ task.redirects[n] = [stream |-> s2, target |-> tgt2]

(* Does task k write into a pipe that task k+1 reads?                       *)
Piped(line, k) == k < Len(line) /\ HasRedirect(line[k], "out", "pipe")

(* What parser.y guarantees: only stdout and stderr can be shared, only      *)
(* stdin and stdout piped, and that after the redirects of the task itself, *)
(* stdout first; both ends of a pipe are there, on neighbouring tasks, and  *)
(* the reader's run_if is "always".                                         *)
IsLine(line) ==
  /\ line \in Seq(Task) /\ line # <<>>
  /\ \A k \in 1..Len(line) : /\ ~HasRedirect(line[k], "err", "pipe")
                              /\ ~HasRedirect(line[k], "in", "share")
                              /\ \A s \in Streams, tgt \in Targets :
                                    Before(line[k], "out", "pipe", s, tgt)
                                      => s = "in" /\ tgt = "pipe"
  /\ ~HasRedirect(line[1], "in", "pipe")
  /\ ~HasRedirect(line[Len(line)], "out", "pipe")
  /\ \A k \in 1..(Len(line) - 1) :
        /\ HasRedirect(line[k], "out", "pipe")
              <=> HasRedirect(line[k+1], "in", "pipe")
        /\ HasRedirect(line[k], "out", "pipe") => line[k+1].run_if = "always"

(* At most one redirect per stream.                                         *)
RedirectsAreSane(line) ==
  \A k \in 1..Len(line) :
    \A m, n \in 1..Len(line[k].redirects) :
       line[k].redirects[m].stream = line[k].redirects[n].stream => m = n

(* The tasks that run concurrently with task k: its pipeline.               *)
Job(line, k) ==
  {j \in 1..Len(line) :
     /\ \A m \in j..(k-1) : Piped(line, m)
     /\ \A m \in k..(j-1) : Piped(line, m)}

JobFirst(line, k) == CHOOSE j \in Job(line, k) : \A m \in Job(line, k) : j <= m
JobLast(line, k)  == CHOOSE j \in Job(line, k) : \A m \in Job(line, k) : m <= j

(* "&&" refuses to run its right side after a nonzero status, "||" after a  *)
(* zero one.                                                                *)
Refuses(run_if, code) ==
  \/ run_if = "if_prev_succeeded" /\ code # 0
  \/ run_if = "if_prev_failed" /\ code = 0

(* The task list of a list that the parser has built.                       *)
Outline(list, Prog(_)) ==
  [k \in DOMAIN list |->
     [run_if    |-> list[k].run_if,
      prog      |-> Prog(list[k]),
      redirects |-> [j \in DOMAIN list[k].redirects |->
                       [stream |-> list[k].redirects[j].stream,
                        target |-> list[k].redirects[j].target]]]]
=============================================================================
