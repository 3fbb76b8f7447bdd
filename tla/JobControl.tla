----------------------------- MODULE JobControl -----------------------------
(***************************************************************************)
(* What a call promises, without descriptors and without the parent's loop *)
(* (README.md, "Format String" table and "Return Values"): the jobs of a   *)
(* command line, a job being the tasks joined by "|", run one after the    *)
(* other; ";", "&&" and "||" look at the status of the last task of the    *)
(* job before; the call returns that of the last job, or -1.               *)
(***************************************************************************)
EXTENDS CommandLine

CONSTANTS Lines, MaxTasks, Statuses, NoStatus

VARIABLES
  line,
  first,   (* first task of the current job                                *)
  over,    (* the call has settled what it returns                         *)
  ret,
  status   (* how each task ended                                          *)

vars == <<line, first, over, ret, status>>

Init ==
  /\ line \in Lines
  /\ first = 1 /\ over = FALSE /\ ret = -1
  /\ status = [c \in 1..MaxTasks |-> NoStatus]

(* A task of the current job ends, possibly after the call gave up on it.   *)
TaskEnds(c) ==
  /\ c \in Job(line, first)
  /\ status[c] = NoStatus
  /\ \E s \in Statuses : status' = [status EXCEPT ![c] = s]
  /\ UNCHANGED <<line, first, over, ret>>

(* Every task of the job has ended, the last one by exiting: run the next   *)
(* job, or be done with that exit code.                                     *)
JobEnds ==
  LET last == JobLast(line, first) IN
  /\ ~over
  /\ \A c \in Job(line, first) : status[c] # NoStatus
  /\ status[last].kind = "exit"
  /\ IF last < Len(line) /\ ~Refuses(line[last+1].run_if, status[last].code)
     THEN first' = last + 1 /\ UNCHANGED <<over, ret>>
     ELSE over' = TRUE /\ ret' = status[last].code /\ UNCHANGED first
  /\ UNCHANGED <<line, status>>

(* Anything that goes wrong, and the death by signal of a job's last task.  *)
Fails ==
  /\ ~over
  /\ over' = TRUE /\ ret' = -1
  /\ UNCHANGED <<line, first, status>>

Next == (\E c \in 1..MaxTasks : TaskEnds(c)) \/ JobEnds \/ Fails

Spec == Init /\ [][Next]_vars
=============================================================================
