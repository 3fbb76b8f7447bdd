------------------------------ MODULE TaskRun ------------------------------
(***************************************************************************)
(* One call of _sf1_tasks_run (task.c) with the pid chain (pid-chain.c),   *)
(* the child side of fork (task.c, close.c) and the part of the kernel the *)
(* code depends on: descriptor tables, pipes, fork, waitpid.               *)
(*                                                                         *)
(* The parent is one sequential process; pc names the statement it has     *)
(* reached.  Every child is a process of its own and interleaves freely    *)
(* with the parent and with the other children.                            *)
(***************************************************************************)
EXTENDS CommandLine, FiniteSets

CONSTANTS
  Lines,     (* the task lists a call may get                              *)
  MaxTasks,  (* bound on the length of a list; a child's pid is its task   *)
  MaxFd,     (* highest descriptor number of the process                   *)
  Rlim,      (* rlim_cur of RLIMIT_NOFILE: new descriptors are below it    *)
  HostFds,   (* descriptors the calling program holds when it calls        *)
  PipeCap,   (* how many writes a pipe buffers                             *)
  CapSteps,  (* cap_steps of _sf1_pid_chain_add                            *)
  Env        (* which of the environment's events may happen               *)

(* prep  - a glob fails, or a word is rejected by the sandbox check         *)
(* open, pipe, fork, exec - that system call fails                          *)
(* nomem - malloc or realloc of the pid chain fails                         *)
(* kill  - a running program is killed by a signal                          *)
(* eintr - a handler of the calling program interrupts waitpid              *)
(* host  - another thread of the calling program opens descriptors          *)
Events == {"prep", "open", "pipe", "fork", "exec", "nomem", "kill", "eintr",
           "host"}

Fd  == 0..MaxFd
Tid == 1..MaxTasks

ASSUME LineAssumption ==
  /\ MaxTasks \in Nat
  /\ \A line \in Lines : IsLine(line) /\ Len(line) <= MaxTasks
ASSUME FdAssumption ==
  /\ MaxFd \in Nat /\ MaxFd >= 2
  /\ Rlim \in 3..(MaxFd + 1)
  /\ HostFds \subseteq Fd
ASSUME BoundAssumption == PipeCap \in Nat \ {0} /\ CapSteps \in Nat \ {0}
ASSUME EnvAssumption   == Env \subseteq Events

(* What a descriptor refers to.                                             *)
Closed      == [kind |-> "closed", id |-> 0]
HostFile(d) == [kind |-> "host", id |-> d]
OpenFile(s, k) == [kind |-> s, id |-> k]    (* file of task k's redirect    *)
RdEnd(k)    == [kind |-> "rd", id |-> k]    (* pipe from task k to k+1      *)
WrEnd(k)    == [kind |-> "wr", id |-> k]
Objects     == [kind : {"closed", "host", "in", "out", "err", "rd", "wr"},
                id : Nat]

(* A wait status.                                                           *)
NoStatus     == [kind |-> "none", code |-> 0]
Exited(code) == [kind |-> "exit", code |-> code]
Killed       == [kind |-> "signal", code |-> 0]
ExitCodes    == 0..1
Statuses     == {Exited(code) : code \in ExitCodes} \cup {Killed}

(* struct _sf1_task_files; -1 is what a failed open leaves there.           *)
TaskFiles == [in : -1..MaxFd, out : -1..MaxFd, err : -1..MaxFd, out_rd_pipe : Fd]
StdFiles == [in |-> 0, out |-> 1, err |-> 2, out_rd_pipe |-> 0]

VARIABLES
  line,      (* tasks                                                       *)
  pc, t, i,  (* statement, task of the main loop, index of the inner loop   *)
  files,     (* struct _sf1_task_files                                      *)
  prev,      (* prev_out_rd_pipe                                            *)
  pid,       (* what fork returned                                          *)
  chain, cap,(* pid_chain: pids[0..size-1] and capacity, 0 when NULL        *)
  stat, retval,
  exiting,   (* past the main loop                                          *)
  fds,       (* descriptor table of the calling process                     *)
  host,      (* its descriptors that belong to the calling program          *)
  cst, cfd, cfiles, cstat,  (* children: state, table, files, wait status   *)
  buf        (* writes buffered in the pipe of each task                    *)

locals   == <<line, t, i, files, prev, pid, chain, cap, stat, retval, exiting>>
kernel   == <<fds, host>>
children == <<cst, cfd, cfiles, cstat, buf>>
vars     == <<pc, locals, kernel, children>>

ChildStates == {"none", "forked", "ready", "running", "zombie", "reaped"}
Unreaped(c) == cst[c] \notin {"none", "reaped"}

----------------------------------------------------------------------------
(* Descriptors                                                              *)

(* The kernel hands out the lowest free descriptor.                         *)
LowestFree(tab, d) == d < Rlim /\ tab[d] = Closed /\ \A e \in 0..(d-1) : tab[e] # Closed
NoneFree(tab)      == \A d \in Fd : ~LowestFree(tab, d)

(* Descriptors that _sf1_close_child_files takes for its own.               *)
OwnedFd_StderrToo(d) == d >= 2    \* a slip: off by one
OwnedFd_NotThree(d)  == d > 3     \* a slip: off by one, the other way
OwnedFd(d) == d > 2

Dup2(tab, from, to) ==
  IF from \in Fd /\ tab[from] # Closed THEN [tab EXCEPT ![to] = tab[from]] ELSE tab

DupStdio_ErrFirst(tab, f) ==      \* a slip: "2>&1" before stdout is in place
  Dup2(Dup2(Dup2(tab, f.err, 2), f.in, 0), f.out, 1)
DupStdio(tab, f) == Dup2(Dup2(Dup2(tab, f.in, 0), f.out, 1), f.err, 2)

(* _sf1_close_upper_fd                                                      *)
CloseUpper_Forgotten(tab) == tab  \* a slip: relies on close-on-exec
CloseUpper(tab) == [d \in Fd |-> IF d \in 3..(Rlim-1) THEN Closed ELSE tab[d]]

Holds(tab, obj) == \E d \in Fd : tab[d] = obj
HasReader(k) == Holds(fds, RdEnd(k)) \/ \E c \in Tid : Holds(cfd[c], RdEnd(k))
HasWriter(k) == Holds(fds, WrEnd(k)) \/ \E c \in Tid : Holds(cfd[c], WrEnd(k))

----------------------------------------------------------------------------
Init ==
  /\ line \in Lines
  /\ pc = "sane" /\ t = 1 /\ i = 1
  /\ files = StdFiles /\ prev = 0 /\ pid = 0
  /\ chain = <<>> /\ cap = 0
  /\ stat = NoStatus /\ retval = -1 /\ exiting = FALSE
  /\ fds = [d \in Fd |-> IF d \in HostFds THEN HostFile(d) ELSE Closed]
  /\ host = HostFds
  /\ cst = [c \in Tid |-> "none"]
  /\ cfd = [c \in Tid |-> [d \in Fd |-> Closed]]
  /\ cfiles = [c \in Tid |-> StdFiles]
  /\ cstat = [c \in Tid |-> NoStatus]
  /\ buf = [c \in Tid |-> 0]

(* Both ways out of the main loop end in _sf1_close_child_files.            *)
LeaveLoop(ret) == exiting' = TRUE /\ retval' = ret /\ pc' = "close_in"
ExitError      == LeaveLoop(-1)

(* task = task->next, or the end of the loop.                               *)
NextTask(ret) ==
  IF t < Len(line)
  THEN t' = t + 1 /\ pc' = "prep" /\ retval' = ret /\ UNCHANGED exiting
  ELSE LeaveLoop(ret) /\ UNCHANGED t

CheckRedirects ==
  /\ pc = "sane"
  /\ IF RedirectsAreSane(line)
     THEN pc' = "prep" /\ UNCHANGED <<retval, exiting>>
     ELSE ExitError
  /\ UNCHANGED <<line, t, i, files, prev, pid, chain, cap, stat, kernel, children>>

----------------------------------------------------------------------------
(* The head of the loop body: globs, sandbox check of the words, argv, and  *)
(* the locals with which _sf1_populate_task_files starts.                   *)
PrepareTask ==
  /\ pc = "prep"
  /\ prev' = files.out_rd_pipe
  /\ files' = StdFiles
  /\ pc' = "populate" /\ i' = 1
  /\ UNCHANGED <<line, t, pid, chain, cap, stat, retval, exiting, kernel, children>>

PrepareFails ==
  /\ pc = "prep" /\ "prep" \in Env
  /\ ExitError
  /\ UNCHANGED <<line, t, i, files, prev, pid, chain, cap, stat, kernel, children>>

----------------------------------------------------------------------------
(* _sf1_populate_task_files, one redirect at a time.                        *)
Redirects == line[t].redirects
AtRedirect(streams, tgt) ==
  /\ pc = "populate" /\ i <= Len(Redirects)
  /\ Redirects[i].stream \in streams /\ Redirects[i].target = tgt

NextRedirect(s, d) ==
  /\ files' = [files EXCEPT ![s] = d]
  /\ i' = i + 1
  /\ UNCHANGED <<pc, line, t, prev, pid, chain, cap, stat, retval, exiting, host, children>>

OpenRedirect ==
  /\ AtRedirect(Streams, "file")
  /\ LET s == Redirects[i].stream IN
     \E d \in Fd :
        /\ LowestFree(fds, d)
        /\ fds' = [fds EXCEPT ![d] = OpenFile(s, t)]
        /\ NextRedirect(s, d)

OpenFails ==
  /\ AtRedirect(Streams, "file")
  /\ "open" \in Env \/ NoneFree(fds)
  /\ files' = [files EXCEPT ![Redirects[i].stream] = -1]
  /\ ExitError
  /\ UNCHANGED <<line, t, i, prev, pid, chain, cap, stat, kernel, children>>

ShareRedirect ==
  /\ AtRedirect({"out", "err"}, "share")
  /\ LET s == Redirects[i].stream IN
     NextRedirect(s, IF s = "out" THEN files.err ELSE files.out)
  /\ UNCHANGED fds

StdinFromPipe ==
  /\ AtRedirect({"in"}, "pipe")
  /\ NextRedirect("in", prev)
  /\ UNCHANGED fds

StdoutToPipe ==
  /\ AtRedirect({"out"}, "pipe")
  /\ \E r, w \in Fd :
        /\ LowestFree(fds, r)
        /\ LowestFree([fds EXCEPT ![r] = RdEnd(t)], w)
        /\ fds' = [fds EXCEPT ![r] = RdEnd(t), ![w] = WrEnd(t)]
        /\ files' = [files EXCEPT !.out_rd_pipe = r, !.out = w]
  /\ i' = i + 1
  /\ UNCHANGED <<pc, line, t, prev, pid, chain, cap, stat, retval, exiting, host, children>>

StdoutToPipeFails ==
  /\ AtRedirect({"out"}, "pipe")
  /\ \/ "pipe" \in Env
     \/ \A r \in Fd : LowestFree(fds, r) => NoneFree([fds EXCEPT ![r] = RdEnd(t)])
  /\ ExitError
  /\ UNCHANGED <<line, t, i, files, prev, pid, chain, cap, stat, kernel, children>>

----------------------------------------------------------------------------
Fork ==
  /\ pc = "populate" /\ i > Len(Redirects)
  /\ pid' = t
  /\ cst' = [cst EXCEPT ![t] = "forked"]
  /\ cfd' = [cfd EXCEPT ![t] = fds]
  /\ cfiles' = [cfiles EXCEPT ![t] = files]
  /\ pc' = "close_in"
  /\ UNCHANGED <<line, t, i, files, prev, chain, cap, stat, retval, exiting, kernel,
                 cstat, buf>>

ForkFails ==
  /\ pc = "populate" /\ i > Len(Redirects)
  /\ "fork" \in Env
  /\ pid' = -1
  /\ pc' = "close_in"
  /\ UNCHANGED <<line, t, i, files, prev, chain, cap, stat, retval, exiting, kernel,
                 children>>

(* _sf1_close_child_files, one descriptor at a time.                        *)
AfterClose_Stale(s) == files[s]   \* a slip: the number of a closed descriptor stays
AfterClose(s) == StdFiles[s]

CloseOne(s, next) ==
  /\ pc' = next
  /\ IF OwnedFd(files[s])
     THEN /\ fds' = [fds EXCEPT ![files[s]] = Closed]
          /\ files' = [files EXCEPT ![s] = AfterClose(s)]
     ELSE UNCHANGED <<fds, files>>
  /\ UNCHANGED <<line, t, i, prev, pid, chain, cap, stat, retval, exiting, host, children>>

CloseIn  == pc = "close_in"  /\ CloseOne("in", "close_out")
CloseOut == pc = "close_out" /\ CloseOne("out", "close_err")
CloseErr == pc = "close_err" /\ CloseOne("err", IF exiting THEN "free" ELSE "chain")

----------------------------------------------------------------------------
(* The pid chain.                                                           *)
ShouldWait_Always(f) == TRUE      \* a slip: one task at a time
ShouldWait(f) == f.out_rd_pipe = 0

Grown_OneLate(n, c) == IF n > c THEN c + CapSteps ELSE c   \* a slip: ">"
Grown(n, c) == IF c = 0 \/ n = c THEN c + CapSteps ELSE c

AddPid ==
  /\ pc = "chain"
  /\ chain' = Append(chain, pid)
  /\ cap' = Grown(Len(chain), cap)
  /\ IF ShouldWait(files)
     THEN pc' = "wait" /\ i' = 1 /\ UNCHANGED <<t, retval, exiting>>
     ELSE NextTask(retval) /\ UNCHANGED i
  /\ UNCHANGED <<line, files, prev, pid, stat, kernel, children>>

AddPidFails ==
  /\ pc = "chain" /\ "nomem" \in Env
  /\ Len(chain) = cap
  /\ chain' = <<>> /\ cap' = 0
  /\ ExitError
  /\ UNCHANGED <<line, t, i, files, prev, pid, stat, kernel, children>>

(* What waitpid(p, ...) may do: the pid it returns and the child it reaps,  *)
(* 0 for none.  A pid of -1 waits for any child.                            *)
WaitOutcomes(p) ==
  LET waitable == {c \in Tid : Unreaped(c) /\ p \in {c, -1}}
      zombies  == {c \in waitable : cst[c] = "zombie"}
      failed   == [ret |-> -1, child |-> 0]
  IN  {[ret |-> c, child |-> c] : c \in zombies}
        \cup (IF waitable = {} THEN {failed} ELSE {})                 \* ECHILD
        \cup (IF zombies = {} /\ "eintr" \in Env THEN {failed} ELSE {})

(* Every waitpid overwrites stat.                                           *)
NewStat_First(c) == IF i = 1 THEN cstat[c] ELSE stat   \* a slip: the first one counts
NewStat(c) == cstat[c]

(* assert(pid == pid_chain->pids[i])                                        *)
AsExpected_NotAsserted(r) == TRUE   \* a slip: the result is not looked at
AsExpected(r) == r.ret = chain[i]

WaitPid ==
  /\ pc = "wait" /\ i <= Len(chain)
  /\ \E r \in WaitOutcomes(chain[i]) :
        /\ IF r.child \in Tid
           THEN cst' = [cst EXCEPT ![r.child] = "reaped"] /\ stat' = NewStat(r.child)
           ELSE UNCHANGED <<cst, stat>>
        /\ IF AsExpected(r)
           THEN i' = i + 1 /\ UNCHANGED pc
           ELSE pc' = "aborted" /\ UNCHANGED i
  /\ UNCHANGED <<line, t, files, prev, pid, chain, cap, retval, exiting, kernel,
                 cfd, cfiles, cstat, buf>>

Cleared_Not(c) == c               \* a slip: reaped pids are waited for again
Cleared(c) == <<>>

(* Does the loop stop before the next task?                                 *)
StopsLoop_OwnRunIf(k, code) ==    \* a slip: task->run_if, not task->next->run_if
  k < Len(line) /\ Refuses(line[k].run_if, code)
StopsLoop_OnlyAnd(k, code) ==     \* a slip: the "else" branch is missing
  k < Len(line) /\ line[k+1].run_if = "if_prev_succeeded" /\ code # 0
StopsLoop(k, code) == k < Len(line) /\ Refuses(line[k+1].run_if, code)

(* After the last waitpid.  A stat that no waitpid has set reads as any int, *)
(* also as one that is neither an exit nor a signal; the code takes that    *)
(* for a success.                                                           *)
Unset == [kind : {"other"}, code : ExitCodes]
Decide ==
  /\ pc = "wait" /\ i > Len(chain)
  /\ chain' = Cleared(chain)
  /\ \E s \in IF stat = NoStatus THEN Statuses \cup Unset ELSE {stat} :
       CASE s.kind = "signal" -> ExitError /\ UNCHANGED t
         [] s.kind # "signal" /\ StopsLoop(t, IF s.kind = "exit" THEN s.code ELSE 0) ->
              LeaveLoop(s.code) /\ UNCHANGED t
         [] OTHER -> NextTask(s.code)
  /\ UNCHANGED <<line, i, files, prev, pid, cap, stat, kernel, children>>

Return ==
  /\ pc = "free"
  /\ pc' = "returned"
  /\ chain' = <<>> /\ cap' = 0
  /\ UNCHANGED <<line, t, i, files, prev, pid, stat, retval, exiting, kernel, children>>

----------------------------------------------------------------------------
(* The child of task c, up to execv.  Its system calls between fork and     *)
(* exec touch only its own table, so they are one step.                     *)
ChildSetup(c) ==
  /\ cst[c] = "forked"
  /\ cst' = [cst EXCEPT ![c] = "ready"]
  /\ cfd' = [cfd EXCEPT ![c] = CloseUpper(DupStdio(cfd[c], cfiles[c]))]
  /\ UNCHANGED <<pc, locals, kernel, cfiles, cstat, buf>>

ChildExec(c) ==
  /\ cst[c] = "ready"
  /\ cst' = [cst EXCEPT ![c] = "running"]
  /\ UNCHANGED <<pc, locals, kernel, cfd, cfiles, cstat, buf>>

Dies(c, status) ==
  /\ cst' = [cst EXCEPT ![c] = "zombie"]
  /\ cfd' = [cfd EXCEPT ![c] = [d \in Fd |-> Closed]]
  /\ cstat' = [cstat EXCEPT ![c] = status]
  /\ UNCHANGED <<pc, locals, kernel, cfiles>>

ChildExecFails(c) ==
  /\ cst[c] = "ready" /\ "exec" \in Env
  /\ Dies(c, Killed) /\ UNCHANGED buf

----------------------------------------------------------------------------
(* The programs.                                                            *)
Running(c, prog) == cst[c] = "running" /\ line[c].prog = prog
PipeIn(c)  == {k \in Tid : cfd[c][0] = RdEnd(k)}
PipeOut(c) == {k \in Tid : cfd[c][1] = WrEnd(k)}
HasInput(c) == \E k \in PipeIn(c) : buf[k] > 0
AtEof(c)    == \A k \in PipeIn(c) : buf[k] = 0 /\ ~HasWriter(k)

(* Has the program something to write now?                                  *)
WantsToWrite(c) == Running(c, "writer") \/ (Running(c, "filter") /\ HasInput(c))

ProgExits(c) ==
  /\ Running(c, "quick")
  /\ \E code \in ExitCodes : Dies(c, Exited(code))
  /\ UNCHANGED buf

ProgKilled(c) ==
  /\ cst[c] = "running" /\ "kill" \in Env
  /\ Dies(c, Killed) /\ UNCHANGED buf

FilterEof(c) ==
  /\ Running(c, "filter") /\ AtEof(c)
  /\ Dies(c, Exited(0)) /\ UNCHANGED buf

(* SIGPIPE *)
BrokenPipe(c) ==
  /\ WantsToWrite(c)
  /\ \E k \in PipeOut(c) : ~HasReader(k)
  /\ Dies(c, Killed) /\ UNCHANGED buf

(* A write blocks while the pipe is full; a stdout that is not a pipe takes *)
(* everything.                                                              *)
ProgWrites(c) ==
  /\ WantsToWrite(c)
  /\ \A k \in PipeOut(c) : HasReader(k) /\ buf[k] < PipeCap
  /\ buf' = [k \in Tid |-> IF k \in PipeOut(c) THEN buf[k] + 1
                           ELSE IF Running(c, "filter") /\ k \in PipeIn(c) THEN buf[k] - 1
                           ELSE buf[k]]
  /\ UNCHANGED <<pc, locals, kernel, cst, cfd, cfiles, cstat>>

----------------------------------------------------------------------------
(* Another thread of the calling program opens a file.                      *)
HostOpens ==
  /\ "host" \in Env
  /\ \E d \in Fd :
        /\ LowestFree(fds, d)
        /\ fds' = [fds EXCEPT ![d] = HostFile(d)]
        /\ host' = host \cup {d}
  /\ UNCHANGED <<pc, locals, children>>

Parent ==
  \/ CheckRedirects \/ PrepareTask \/ PrepareFails
  \/ OpenRedirect \/ OpenFails \/ ShareRedirect
  \/ StdinFromPipe \/ StdoutToPipe \/ StdoutToPipeFails
  \/ Fork \/ ForkFails \/ CloseIn \/ CloseOut \/ CloseErr
  \/ AddPid \/ AddPidFails \/ WaitPid \/ Decide \/ Return

(* What a child does by itself; a signal from outside may end it as well.   *)
Proceeds(c) ==
  \/ ChildSetup(c) \/ ChildExec(c) \/ ChildExecFails(c)
  \/ ProgExits(c) \/ FilterEof(c)
  \/ BrokenPipe(c) \/ ProgWrites(c)

Child(c) == Proceeds(c) \/ ProgKilled(c)

(* The call is over.  A state in which only a blocked child is left before  *)
(* that is a deadlock, and TLC reports it.                                  *)
Over == pc \in {"returned", "aborted"} /\ UNCHANGED vars

Next == Parent \/ (\E c \in Tid : Child(c)) \/ HostOpens \/ Over

Spec     == Init /\ [][Next]_vars
FairSpec == Spec /\ WF_vars(Parent) /\ \A c \in Tid : WF_vars(Proceeds(c))

----------------------------------------------------------------------------
Labels == {"sane", "prep", "populate", "close_in", "close_out", "close_err", "chain",
           "wait", "free", "returned", "aborted"}

LoopType ==
  /\ line \in Lines
  /\ pc \in Labels /\ t \in 1..Len(line) /\ i \in Nat \ {0}
  /\ exiting \in BOOLEAN /\ retval \in {-1} \cup ExitCodes
FilesType == files \in TaskFiles /\ prev \in Fd
ChainType ==
  /\ pid \in Int
  /\ chain \in Seq(Int) /\ cap \in Nat /\ Len(chain) <= cap
  /\ stat \in Statuses \cup {NoStatus}
KernelType == fds \in [Fd -> Objects] /\ host \subseteq Fd
ChildType ==
  /\ cst \in [Tid -> ChildStates]
  /\ cfd \in [Tid -> [Fd -> Objects]]
  /\ cfiles \in [Tid -> TaskFiles]
  /\ cstat \in [Tid -> Statuses \cup {NoStatus}]
BufType == buf \in [Tid -> 0..PipeCap]

(* The types; and the chain never holds more pids than its memory has room  *)
(* for, across every growth, clear and failed realloc.                      *)
TypeOK == LoopType /\ FilesType /\ ChainType /\ KernelType /\ ChildType /\ BufType

----------------------------------------------------------------------------
(* Properties                                                               *)

Ended     == pc = "returned"
LeakedFds == {d \in Fd \ host : fds[d] # Closed}

(* The descriptors of the calling program stay what they are: whatever      *)
(* number open, pipe or dup2 came to use, _sf1_close_child_files closes     *)
(* none of them.                                                            *)
HostFdsKept == \A d \in host : fds[d] = HostFile(d)

(* Why it holds: a descriptor above 2 that the parent remembers, in files   *)
(* or between two tasks in prev, is none of the calling program's ...       *)
FileFields == {"in", "out", "err", "out_rd_pipe"}
RemembersOwn ==
  /\ \A s \in FileFields : files[s] > 2 => files[s] \notin host
  /\ pc = "populate" /\ prev > 2 => prev \notin host

(* ... and, unless a task shares a stream it has redirected before, each is *)
(* open and remembered once.  Without this another thread of the program    *)
(* could be given the number before the parent is through with it.          *)
SharesOwnFile(task) ==
  \/ \E tgt \in {"file", "pipe"} : Before(task, "out", tgt, "err", "share")
  \/ Before(task, "err", "file", "out", "share")
NoSharedFile == \A l \in Lines : \A k \in 1..Len(l) : ~SharesOwnFile(l[k])

RemembersOnce ==
  /\ \A s \in FileFields : files[s] > 2 =>
       /\ fds[files[s]] # Closed
       /\ \A u \in FileFields : u # s => files[u] # files[s]
  /\ pc = "populate" /\ prev > 2 =>
       /\ fds[prev] # Closed
       /\ \A u \in FileFields \ {"in"} : files[u] # prev
  /\ pc = "populate" =>
       /\ files.out > 2 => \E m \in 1..(i-1), tgt \in {"file", "pipe"} :
            line[t].redirects[m] = [stream |-> "out", target |-> tgt]
       /\ files.err > 2 => \E m \in 1..(i-1) :
            line[t].redirects[m] = [stream |-> "err", target |-> "file"]

OwnDescriptors == RemembersOwn /\ RemembersOnce

(* The one thing that can outlive a call is the read end of a pipe whose    *)
(* reader was never forked; a call that reports an exit status leaves       *)
(* nothing open.                                                            *)
LeakBounded ==
  Ended => /\ retval # -1 => LeakedFds = {}
           /\ \A d, e \in LeakedFds : d = e
           /\ \A d \in LeakedFds : \E k \in 1..t :
                 fds[d] = RdEnd(k) /\ Piped(line, k) /\ cst[k+1] = "none"

(* "cat | grep" runs the grep before it waits for the cat: the parent waits *)
(* only when every task of the pipeline has been forked, and it holds no    *)
(* end of a pipe then, or the pipeline would never see end of file or       *)
(* SIGPIPE.                                                                 *)
WaitsForWholeJob ==
  pc = "wait" => /\ t = JobLast(line, t)
                 /\ \A d \in Fd : fds[d].kind \notin {"rd", "wr"}

(* A program starts with stdin, stdout and stderr and nothing else.         *)
OnlyStdio ==
  \A c \in Tid : cst[c] = "running" => \A d \in Fd : d > 2 => cfd[c][d] = Closed

(* The descriptors of a program are those its redirects name (README.md,    *)
(* the token table), for every combination and order that passes the        *)
(* sanity check.  The two shares differ: "2>&1" follows stdout wherever it  *)
(* ends up, also when ">" or "|" comes later; ">&2" takes what stderr is    *)
(* when it is read.                                                         *)
WiredAsWritten ==
  \A c \in Tid : cst[c] = "running" =>
    LET has(s, tgt) == HasRedirect(line[c], s, tgt)
        plain(s)    == \A tgt \in Targets : ~has(s, tgt)
        std(d)      == cfd[c][d]
        errThenOut(tgt) == Before(line[c], "err", tgt, "out", "share")
    IN  /\ std(0) = IF has("in", "file") THEN OpenFile("in", c)
                    ELSE IF has("in", "pipe") THEN RdEnd(c-1) ELSE HostFile(0)
        /\ has("out", "file") => std(1) = OpenFile("out", c)
        /\ has("out", "pipe") => std(1) = WrEnd(c)
        /\ has("out", "share") =>
             std(1) = IF errThenOut("file") THEN OpenFile("err", c)
                      ELSE IF errThenOut("share") THEN HostFile(1) ELSE HostFile(2)
        /\ plain("out") => std(1) = HostFile(1)
        /\ has("err", "file") => std(2) = OpenFile("err", c)
        /\ has("err", "share") => std(2) = std(1)
        /\ plain("err") => std(2) = HostFile(2)

(* The first task of a job is forked only when the last task of the job     *)
(* before it has been reaped, has exited, and its exit code does not forbid *)
(* it; and then no other child is left.                                     *)
RunIfHonoured ==
  \A c \in 2..Len(line) : cst[c] # "none" /\ ~Piped(line, c-1) =>
     /\ \A k \in 1..(c-1) : cst[k] = "reaped"
     /\ cstat[c-1].kind = "exit"
     /\ ~Refuses(line[c].run_if, cstat[c-1].code)

(* The assertion on the result of waitpid never fires.                      *)
NeverAborts == pc # "aborted"

(* A call that has forked all its tasks and reports an exit status has      *)
(* reaped every child, and the status is that of the last one, also when a  *)
(* handler of the calling program interrupts waitpid: the call then does    *)
(* not return at all, by the assertion on its result.                      *)
StatusIsOfLastChild ==
  Ended /\ retval # -1 /\ (\A c \in 1..t : cst[c] # "none") =>
     /\ \A c \in Tid : ~Unreaped(c)
     /\ cstat[t] = Exited(retval)
     /\ \A c \in Tid : c > t => cst[c] = "none"

(* "Clean up everything locally created."                                   *)
CleanupComplete == Ended => LeakedFds = {}

(* "If any child process could not be created ... the return value is -1"   *)
ForkFailureReported == Ended /\ pid = -1 => retval = -1

(* The call comes to an end when its programs do.                           *)
Terminates == <>Ended

(* The call as the abstract job control sees it.                            *)
JC == INSTANCE JobControl WITH
        first  <- JobFirst(line, t),
        over   <- exiting,
        ret    <- IF exiting THEN retval ELSE -1,
        status <- cstat
JobControlSpec == JC!Spec
=============================================================================
