--------------------------- MODULE TaskRun_proofs ---------------------------
(***************************************************************************)
(* What holds of every call, whatever the command lines, the number of     *)
(* descriptors and the events of the environment are.                      *)
(***************************************************************************)
EXTENDS TaskRun, TLAPS

USE DEF Fd, Tid

(* A command line is a nonempty list of at most MaxTasks tasks.             *)
LEMMA LineFacts ==
  ASSUME NEW l \in Lines
  PROVE  /\ l \in Seq(Task) /\ Len(l) \in Nat \ {0}
         /\ 1..Len(l) \subseteq Tid
         /\ \A k \in 1..Len(l) : l[k].redirects \in Seq(Redirect)
<1>1. IsLine(l) /\ Len(l) <= MaxTasks /\ MaxTasks \in Nat
  BY LineAssumption
<1>2. l \in Seq(Task) /\ l # <<>>
  BY <1>1 DEF IsLine
<1>3. Len(l) \in Nat /\ Len(l) > 0
  BY <1>2
<1>4. \A k \in 1..Len(l) : l[k] \in Task
  BY <1>2
<1> QED
  BY <1>1, <1>2, <1>3, <1>4 DEF Task

(* Setting one of the three files.                                          *)
LEMMA SetFile ==
  ASSUME NEW f \in TaskFiles, NEW s \in Streams, NEW d \in -1..MaxFd
  PROVE  /\ [f EXCEPT ![s] = d] \in TaskFiles
         /\ [f EXCEPT ![s] = d][s] = d
         /\ \A x \in Streams : x # s => [f EXCEPT ![s] = d][x] = f[x]
         /\ [f EXCEPT ![s] = d].out_rd_pipe = f.out_rd_pipe
<1>1. CASE s = "in"
  BY <1>1 DEF TaskFiles, Streams
<1>2. CASE s = "out"
  BY <1>2 DEF TaskFiles, Streams
<1>3. CASE s = "err"
  BY <1>3 DEF TaskFiles, Streams
<1> QED
  BY <1>1, <1>2, <1>3 DEF Streams

(* The values the files start with.                                         *)
LEMMA StdFilesType == StdFiles \in TaskFiles
  BY FdAssumption DEF StdFiles, TaskFiles

(* The objects a descriptor may refer to.                                   *)
LEMMA ObjectFacts ==
  /\ Closed \in Objects
  /\ \A d \in Nat : /\ HostFile(d) \in Objects
                    /\ RdEnd(d) \in Objects /\ WrEnd(d) \in Objects
                    /\ HostFile(d) # Closed
  /\ \A s \in Streams, d \in Nat : OpenFile(s, d) \in Objects
  BY DEF Closed, HostFile, RdEnd, WrEnd, OpenFile, Objects, Streams

(* The statuses a child may end with.                                       *)
LEMMA StatusFacts ==
  /\ Killed \in Statuses
  /\ \A code \in ExitCodes : Exited(code) \in Statuses
  /\ \A s \in Statuses : s.kind \in {"exit", "signal"} /\ s.code \in ExitCodes
  BY DEF Killed, Exited, Statuses, ExitCodes

(* A task is in its own job, and tasks that no pipe joins are in two.       *)
LEMMA JobFromItself ==
  ASSUME NEW l, NEW k \in 1..Len(l)
  PROVE  k \in Job(l, k)
BY DEF Job

(* A job ends where there is no pipe, and the next one begins there.        *)
LEMMA JobEndsHere ==
  ASSUME NEW l, Len(l) \in Nat, NEW k \in 1..Len(l), ~Piped(l, k)
  PROVE  /\ \A j \in Job(l, k) : j <= k
         /\ k < Len(l) => \A j \in Job(l, k + 1) : k + 1 <= j
<1>1. ASSUME NEW j \in Job(l, k), ~(j <= k) PROVE FALSE
  <2>1. j \in 1..Len(l) /\ \A m \in k..(j - 1) : Piped(l, m)
    BY DEF Job
  <2>2. k \in k..(j - 1)
    BY <1>1, <2>1
  <2> QED BY <2>1, <2>2
<1>2. ASSUME k < Len(l), NEW j \in Job(l, k + 1), ~(k + 1 <= j) PROVE FALSE
  <2>1. j \in 1..Len(l) /\ \A m \in j..(k + 1 - 1) : Piped(l, m)
    BY DEF Job
  <2>2. k \in j..(k + 1 - 1)
    BY <1>2, <2>1
  <2> QED BY <2>1, <2>2
<1> QED BY <1>1, <1>2

(* The types hold when the call is made.                                    *)
LEMMA InitTypeOK == Init => TypeOK
<1> SUFFICES ASSUME Init PROVE TypeOK
  OBVIOUS
<1>1. LoopType
  <2>1. line \in Lines /\ pc = "sane" /\ t = 1 /\ i = 1 /\ exiting = FALSE /\ retval = -1
    BY DEF Init
  <2>2. 1 \in 1..Len(line) /\ 1 \in Nat \ {0}
    BY <2>1, LineFacts
  <2> QED
    BY <2>1, <2>2 DEF LoopType, Labels
<1>2. FilesType
  BY StdFilesType, FdAssumption DEF Init, FilesType
<1>3. ChainType
  BY DEF Init, ChainType
<1>4. KernelType
  BY ObjectFacts, FdAssumption DEF Init, KernelType
<1>5. ChildType
  BY ObjectFacts, StdFilesType DEF Init, ChildType, ChildStates
<1>6. BufType
  BY BoundAssumption DEF Init, BufType
<1> QED
  BY <1>1, <1>2, <1>3, <1>4, <1>5, <1>6 DEF TypeOK

----------------------------------------------------------------------------
(* The parts of the type that a step leaves alone.                          *)
LEMMA Frame ==
  ASSUME TypeOK
  PROVE  /\ UNCHANGED <<line, pc, t, i, exiting, retval>> => LoopType'
         /\ UNCHANGED <<files, prev>> => FilesType'
         /\ UNCHANGED <<pid, chain, cap, stat>> => ChainType'
         /\ UNCHANGED <<fds, host>> => KernelType'
         /\ UNCHANGED <<cst, cfd, cfiles, cstat>> => ChildType'
         /\ UNCHANGED buf => BufType'
<1>1. UNCHANGED <<line, pc, t, i, exiting, retval>> => LoopType'
  BY DEF TypeOK, LoopType
<1>2. UNCHANGED <<files, prev>> => FilesType'
  BY DEF TypeOK, FilesType
<1>3. UNCHANGED <<pid, chain, cap, stat>> => ChainType'
  BY DEF TypeOK, ChainType
<1>4. UNCHANGED <<fds, host>> => KernelType'
  BY DEF TypeOK, KernelType
<1>5. UNCHANGED <<cst, cfd, cfiles, cstat>> => ChildType'
  BY DEF TypeOK, ChildType
<1>6. UNCHANGED buf => BufType'
  BY DEF TypeOK, BufType
<1> QED
  BY <1>1, <1>2, <1>3, <1>4, <1>5, <1>6

(* What a step of the parent may do to the position in the loop.            *)
LEMMA LoopMoves ==
  ASSUME LoopType, line' = line, i' \in Nat \ {0}
  PROVE  /\ pc' \in Labels /\ UNCHANGED <<t, exiting, retval>> => LoopType'
         /\ ExitError /\ UNCHANGED t => LoopType'
         /\ \A ret \in {-1} \cup ExitCodes :
               /\ LeaveLoop(ret) /\ UNCHANGED t => LoopType'
               /\ NextTask(ret) => LoopType'
<1> USE DEF LoopType, Labels
<1>1. pc' \in Labels /\ UNCHANGED <<t, exiting, retval>> => LoopType'
  OBVIOUS
<1>2. \A ret \in {-1} \cup ExitCodes : LeaveLoop(ret) /\ UNCHANGED t => LoopType'
  BY DEF LeaveLoop
<1>3. ExitError /\ UNCHANGED t => LoopType'
  BY <1>2 DEF ExitError
<1>4. ASSUME NEW ret \in {-1} \cup ExitCodes, NextTask(ret)
      PROVE  LoopType'
  <2>1. Len(line) \in Nat \ {0}
    BY LineFacts
  <2>2. CASE t < Len(line)
    <3>1. t' = t + 1 /\ pc' = "prep" /\ retval' = ret /\ UNCHANGED exiting
      BY <1>4, <2>2 DEF NextTask
    <3>2. t' \in 1..Len(line')
      BY <2>1, <2>2, <3>1
    <3> QED
      BY <3>1, <3>2
  <2>3. CASE ~(t < Len(line))
    BY <1>2, <1>4, <2>3 DEF NextTask
  <2> QED
    BY <2>2, <2>3
<1> QED
  BY <1>1, <1>2, <1>3, <1>4

(* A program dies.                                                          *)
LEMMA DiesType ==
  ASSUME TypeOK, NEW c \in Tid, NEW s \in Statuses, Dies(c, s), UNCHANGED buf
  PROVE  TypeOK'
<1>1. ChildType'
  BY ObjectFacts DEF Dies, TypeOK, ChildType, ChildStates
<1> QED
  BY <1>1, Frame DEF Dies, locals, kernel, TypeOK

(* dup2 makes a descriptor table of a descriptor table ...                  *)
LEMMA Dup2Type ==
  ASSUME NEW tab \in [Fd -> Objects], NEW from \in -1..MaxFd, NEW to \in Fd
  PROVE  Dup2(tab, from, to) \in [Fd -> Objects]
BY DEF Dup2

(* ... and so does all the child does before exec.                          *)
LEMMA ChildTableType ==
  ASSUME NEW tab \in [Fd -> Objects], NEW f \in TaskFiles
  PROVE  CloseUpper(DupStdio(tab, f)) \in [Fd -> Objects]
<1>1. 0 \in Fd /\ 1 \in Fd /\ 2 \in Fd
  BY FdAssumption
<1>2. f.in \in -1..MaxFd /\ f.out \in -1..MaxFd /\ f.err \in -1..MaxFd
  BY DEF TaskFiles
<1>3. DupStdio(tab, f) \in [Fd -> Objects]
  BY <1>1, <1>2, Dup2Type DEF DupStdio
<1> QED
  BY <1>3, ObjectFacts DEF CloseUpper

----------------------------------------------------------------------------
(* The types, step by step of the parent.                                   *)
LEMMA ParentTypeOK == TypeOK /\ Parent => TypeOK'
<1> SUFFICES ASSUME TypeOK, Parent PROVE TypeOK'
  OBVIOUS
<1> USE DEF locals, kernel, children
<1>t. /\ LoopType /\ FilesType /\ ChainType /\ KernelType /\ ChildType /\ BufType
      /\ line \in Lines /\ t \in Tid /\ i \in Nat \ {0} /\ retval \in {-1} \cup ExitCodes
      /\ line[t].redirects \in Seq(Redirect)
  BY LineFacts DEF TypeOK, LoopType
<1>1. CASE CheckRedirects
  <2>1. LoopType'
    BY <1>1, <1>t, LoopMoves DEF CheckRedirects, Labels
  <2> QED
    BY <1>1, <2>1, Frame DEF CheckRedirects, TypeOK
<1>2. CASE PrepareTask
  <2>1. LoopType'
    BY <1>2, <1>t, LoopMoves DEF PrepareTask, Labels
  <2>2. FilesType'
    BY <1>2, <1>t, StdFilesType DEF PrepareTask, FilesType, TaskFiles
  <2> QED
    BY <1>2, <2>1, <2>2, Frame DEF PrepareTask, TypeOK
<1>3. CASE PrepareFails
  <2>1. LoopType'
    BY <1>3, <1>t, LoopMoves DEF PrepareFails
  <2> QED
    BY <1>3, <2>1, Frame DEF PrepareFails, TypeOK
<1>4. ASSUME NEW s \in Streams, NEW d \in -1..MaxFd, NextRedirect(s, d), KernelType'
      PROVE  TypeOK'
  <2>1. LoopType'
    BY <1>4, <1>t DEF NextRedirect, LoopType
  <2>2. FilesType'
    BY <1>4, <1>t, SetFile DEF NextRedirect, FilesType
  <2> QED
    BY <1>4, <2>1, <2>2, Frame DEF NextRedirect, TypeOK
<1>5. CASE OpenRedirect
  <2> DEFINE s == Redirects[i].stream
  <2>1. s \in Streams
    BY <1>5 DEF OpenRedirect, AtRedirect
  <2>2. PICK d \in Fd : fds' = [fds EXCEPT ![d] = OpenFile(s, t)] /\ NextRedirect(s, d)
    BY <1>5 DEF OpenRedirect
  <2>3. KernelType'
    BY <1>t, <2>1, <2>2, ObjectFacts DEF NextRedirect, KernelType
  <2>4. d \in -1..MaxFd
    BY FdAssumption
  <2> QED
    BY <1>4, <2>1, <2>2, <2>3, <2>4
<1>6. CASE OpenFails
  <2> DEFINE s == Redirects[i].stream
  <2>1. s \in Streams /\ files' = [files EXCEPT ![s] = -1] /\ -1 \in -1..MaxFd
    BY <1>6, FdAssumption DEF OpenFails, AtRedirect
  <2>2. FilesType'
    <3>1. files \in TaskFiles /\ prev \in Fd /\ prev' = prev
      BY <1>6, <1>t DEF OpenFails, FilesType
    <3>2. files' \in TaskFiles
      BY <2>1, <3>1, SetFile
    <3> QED
      BY <3>1, <3>2 DEF FilesType
  <2>3. ExitError /\ UNCHANGED <<line, t, i, prev, pid, chain, cap, stat, kernel, children>>
    BY <1>6 DEF OpenFails
  <2>4. LoopType'
    BY <1>t, <2>3, LoopMoves
  <2> QED
    BY <2>2, <2>3, <2>4, Frame DEF TypeOK
<1>7. CASE ShareRedirect
  <2>1. PICK s \in Streams, d \in -1..MaxFd : NextRedirect(s, d)
    BY <1>7, <1>t DEF ShareRedirect, AtRedirect, Streams, FilesType, TaskFiles
  <2>2. KernelType'
    BY <1>7, <1>t, <2>1 DEF ShareRedirect, NextRedirect, KernelType
  <2> QED
    BY <1>4, <2>1, <2>2
<1>8. CASE StdinFromPipe
  <2>1. NextRedirect("in", prev) /\ prev \in -1..MaxFd /\ "in" \in Streams
    BY <1>8, <1>t, FdAssumption DEF StdinFromPipe, FilesType, Streams
  <2>2. KernelType'
    BY <1>8, <1>t, <2>1 DEF StdinFromPipe, NextRedirect, KernelType
  <2> QED
    BY <1>4, <2>1, <2>2
<1>9. CASE StdoutToPipe
  <2>1. PICK r \in Fd, w \in Fd :
          /\ fds' = [fds EXCEPT ![r] = RdEnd(t), ![w] = WrEnd(t)]
          /\ files' = [files EXCEPT !.out_rd_pipe = r, !.out = w]
    BY <1>9 DEF StdoutToPipe
  <2>2. LoopType'
    BY <1>9, <1>t DEF StdoutToPipe, LoopType
  <2>3. FilesType'
    <3>1. files \in TaskFiles /\ prev \in Fd /\ prev' = prev
      BY <1>9, <1>t DEF StdoutToPipe, FilesType
    <3>2. r \in Fd /\ w \in -1..MaxFd
      BY FdAssumption
    <3>3. [files EXCEPT !.out_rd_pipe = r, !.out = w] \in TaskFiles
      BY <3>1, <3>2 DEF TaskFiles
    <3> QED
      BY <2>1, <3>1, <3>3 DEF FilesType
  <2>4. KernelType'
    BY <1>9, <1>t, <2>1, ObjectFacts DEF StdoutToPipe, KernelType
  <2> QED
    BY <1>9, <2>2, <2>3, <2>4, Frame DEF StdoutToPipe, TypeOK
<1>10. CASE StdoutToPipeFails
  <2>1. /\ ExitError
        /\ UNCHANGED <<line, t, i, files, prev, pid, chain, cap, stat, kernel, children>>
    BY <1>10 DEF StdoutToPipeFails
  <2>2. LoopType'
    BY <1>t, <2>1, LoopMoves
  <2> QED
    BY <2>1, <2>2, Frame DEF TypeOK
<1>11. CASE Fork
  <2>1. LoopType'
    BY <1>11, <1>t, LoopMoves DEF Fork, Labels
  <2>2. ChainType'
    BY <1>11, <1>t DEF Fork, ChainType
  <2>3. ChildType'
    BY <1>11, <1>t DEF Fork, ChildType, ChildStates, KernelType, FilesType
  <2> QED
    BY <1>11, <2>1, <2>2, <2>3, Frame DEF Fork, TypeOK
<1>12. CASE ForkFails
  <2>1. LoopType'
    BY <1>12, <1>t, LoopMoves DEF ForkFails, Labels
  <2>2. ChainType'
    BY <1>12, <1>t DEF ForkFails, ChainType
  <2> QED
    BY <1>12, <2>1, <2>2, Frame DEF ForkFails, TypeOK
<1>13. ASSUME NEW s \in {"in", "out", "err"}, NEW next \in Labels, CloseOne(s, next)
       PROVE  TypeOK'
  <2>1. LoopType'
    BY <1>13, <1>t, LoopMoves DEF CloseOne
  <2>2. StdFiles[s] \in -1..MaxFd /\ s \in Streams /\ files[s] \in -1..MaxFd
    BY <1>t, FdAssumption DEF StdFiles, Streams, FilesType, TaskFiles
  <2>3. FilesType'
    BY <1>13, <1>t, <2>2, SetFile DEF CloseOne, FilesType, AfterClose
  <2>4. KernelType'
    BY <1>13, <1>t, <2>2, ObjectFacts DEF CloseOne, KernelType, OwnedFd
  <2> QED
    BY <1>13, <2>1, <2>3, <2>4, Frame DEF CloseOne, TypeOK
<1>14. CASE CloseIn \/ CloseOut \/ CloseErr
  BY <1>13, <1>14 DEF CloseIn, CloseOut, CloseErr, Labels
<1>15. CASE AddPid
  <2>1. LoopType'
    BY <1>15, <1>t, LoopMoves DEF AddPid, Labels
  <2>2. ChainType'
    <3>1. chain' = Append(chain, pid) /\ Len(chain') = Len(chain) + 1 /\ chain' \in Seq(Int)
      BY <1>15, <1>t DEF AddPid, ChainType
    <3>2. cap' \in Nat /\ Len(chain) < cap'
      BY <1>15, <1>t, BoundAssumption DEF AddPid, ChainType, Grown
    <3> QED
      BY <1>15, <1>t, <3>1, <3>2 DEF AddPid, ChainType
  <2> QED
    BY <1>15, <2>1, <2>2, Frame DEF AddPid, TypeOK
<1>16. CASE AddPidFails
  <2>1. LoopType'
    BY <1>16, <1>t, LoopMoves DEF AddPidFails
  <2>2. ChainType'
    BY <1>16, <1>t DEF AddPidFails, ChainType
  <2> QED
    BY <1>16, <2>1, <2>2, Frame DEF AddPidFails, TypeOK
<1>17. CASE WaitPid
  <2>1. PICK r \in WaitOutcomes(chain[i]) :
          /\ IF r.child \in Tid
             THEN cst' = [cst EXCEPT ![r.child] = "reaped"] /\ stat' = NewStat(r.child)
             ELSE UNCHANGED <<cst, stat>>
          /\ IF r.ret = chain[i]
             THEN i' = i + 1 /\ UNCHANGED pc
             ELSE pc' = "aborted" /\ UNCHANGED i
    BY <1>17 DEF WaitPid, AsExpected
  <2>2. UNCHANGED <<line, t, files, prev, pid, chain, cap, retval, exiting, kernel,
                    cfd, cfiles, cstat, buf>>
    BY <1>17 DEF WaitPid
  <2>3. LoopType'
    BY <1>t, <2>1, <2>2 DEF LoopType, Labels
  <2>4. ChainType'
    BY <1>t, <2>1, <2>2 DEF ChainType, NewStat, ChildType
  <2>5. ChildType'
    BY <1>t, <2>1, <2>2 DEF ChildType, ChildStates
  <2> QED
    BY <2>2, <2>3, <2>4, <2>5, Frame DEF TypeOK
<1>18. CASE Decide
  <2>1. PICK s \in Statuses \cup Unset :
          CASE s.kind = "signal" -> ExitError /\ UNCHANGED t
            [] s.kind # "signal" /\ StopsLoop(t, IF s.kind = "exit" THEN s.code ELSE 0) ->
                 LeaveLoop(s.code) /\ UNCHANGED t
            [] OTHER -> NextTask(s.code)
    BY <1>18, <1>t DEF Decide, ChainType
  <2>2. s.code \in ExitCodes
    BY StatusFacts DEF Unset
  <2>3. UNCHANGED <<line, i, files, prev, pid, cap, stat, kernel, children>> /\ chain' = <<>>
    BY <1>18 DEF Decide, Cleared
  <2>4. LoopType'
    BY <1>t, <2>1, <2>2, <2>3, LoopMoves
  <2>5. ChainType'
    BY <1>t, <2>3 DEF ChainType
  <2> QED
    BY <2>3, <2>4, <2>5, Frame DEF TypeOK
<1>19. CASE Return
  <2>1. LoopType'
    BY <1>19, <1>t, LoopMoves DEF Return, Labels
  <2>2. ChainType'
    BY <1>19, <1>t DEF Return, ChainType
  <2> QED
    BY <1>19, <2>1, <2>2, Frame DEF Return, TypeOK
<1> QED
  BY <1>1, <1>2, <1>3, <1>5, <1>6, <1>7, <1>8, <1>9, <1>10, <1>11, <1>12, <1>14, <1>15,
     <1>16, <1>17, <1>18, <1>19 DEF Parent

(* The types, step by step of a child.                                      *)
LEMMA ChildTypeOK == ASSUME TypeOK, NEW c \in Tid, Child(c) PROVE TypeOK'
<1> USE DEF locals, kernel
<1>t. /\ LoopType /\ ChildType /\ BufType
  BY DEF TypeOK
<1>1. CASE ChildSetup(c)
  <2>1. CloseUpper(DupStdio(cfd[c], cfiles[c])) \in [Fd -> Objects]
    BY <1>t, ChildTableType DEF ChildType
  <2>2. ChildType'
    BY <1>1, <1>t, <2>1 DEF ChildSetup, ChildType, ChildStates
  <2> QED
    BY <1>1, <2>2, Frame DEF ChildSetup, TypeOK
<1>2. CASE ChildExec(c)
  <2>1. ChildType'
    BY <1>2, <1>t DEF ChildExec, ChildType, ChildStates
  <2> QED
    BY <1>2, <2>1, Frame DEF ChildExec, TypeOK
<1>3. CASE ChildExecFails(c) \/ ProgKilled(c) \/ BrokenPipe(c)
  BY <1>3, StatusFacts, DiesType DEF ChildExecFails, ProgKilled, BrokenPipe
<1>4. CASE ProgExits(c) \/ FilterEof(c)
  <2>1. 0 \in ExitCodes
    BY DEF ExitCodes
  <2>2. PICK code \in ExitCodes : Dies(c, Exited(code)) /\ UNCHANGED buf
    BY <1>4, <2>1 DEF ProgExits, FilterEof
  <2> QED
    BY <2>2, StatusFacts, DiesType
<1>5. CASE ProgWrites(c)
  <2>1. buf' \in [Tid -> 0..PipeCap]
    <3> SUFFICES ASSUME NEW k \in Tid PROVE buf'[k] \in 0..PipeCap
      BY <1>5 DEF ProgWrites
    <3>1. buf[k] \in 0..PipeCap
      BY <1>t DEF BufType
    <3>2. CASE k \in PipeOut(c)
      BY <1>5, <3>1, <3>2, BoundAssumption DEF ProgWrites
    <3>3. CASE k \notin PipeOut(c) /\ Running(c, "filter") /\ k \in PipeIn(c)
      <4>1. HasInput(c)
        BY <1>5, <3>3 DEF ProgWrites, WantsToWrite, Running
      <4>2. PICK m \in PipeIn(c) : buf[m] > 0
        BY <4>1 DEF HasInput
      <4>3. m = k
        BY <3>3, <4>2 DEF PipeIn, RdEnd
      <4> QED
        BY <1>5, <3>1, <3>3, <4>2, <4>3, BoundAssumption DEF ProgWrites
    <3>4. CASE k \notin PipeOut(c) /\ ~(Running(c, "filter") /\ k \in PipeIn(c))
      BY <1>5, <3>1, <3>4 DEF ProgWrites
    <3> QED
      BY <3>2, <3>3, <3>4
  <2> QED
    BY <1>5, <1>t, <2>1, Frame DEF ProgWrites, TypeOK, BufType
<1> QED
  BY <1>1, <1>2, <1>3, <1>4, <1>5 DEF Child, Proceeds

(* A step of a child changes its own state, and only before it is over.     *)
LEMMA ChildMoves ==
  ASSUME TypeOK, NEW c \in Tid, Child(c)
  PROVE  /\ UNCHANGED <<pc, locals>>
         /\ cst[c] \in {"forked", "ready", "running"}
         /\ \A k \in Tid : k # c => cst'[k] = cst[k] /\ cstat'[k] = cstat[k]
         /\ \/ cst'[c] \in {"ready", "running"} /\ cstat'[c] = cstat[c]
            \/ cst'[c] = "zombie" /\ cstat'[c] \in Statuses
<1>t. cst \in [Tid -> ChildStates] /\ cstat \in [Tid -> Statuses \cup {NoStatus}]
  BY DEF TypeOK, ChildType
<1>1. CASE ChildSetup(c)
  BY <1>1, <1>t DEF ChildSetup
<1>2. CASE ChildExec(c)
  BY <1>2, <1>t DEF ChildExec
<1>3. ASSUME NEW s \in Statuses, Dies(c, s), cst[c] \in {"ready", "running"}
      PROVE  /\ UNCHANGED <<pc, locals>>
             /\ \A k \in Tid : k # c => cst'[k] = cst[k] /\ cstat'[k] = cstat[k]
             /\ cst'[c] = "zombie" /\ cstat'[c] \in Statuses
  BY <1>3, <1>t DEF Dies
<1>4. CASE ChildExecFails(c) \/ ProgKilled(c) \/ BrokenPipe(c)
  <2>1. Dies(c, Killed) /\ cst[c] \in {"ready", "running"}
    BY <1>4 DEF ChildExecFails, ProgKilled, BrokenPipe, WantsToWrite, Running
  <2> QED BY <2>1, <1>3, StatusFacts
<1>5. CASE ProgExits(c) \/ FilterEof(c)
  <2>1. PICK code \in ExitCodes : Dies(c, Exited(code))
    BY <1>5 DEF ProgExits, FilterEof, ExitCodes
  <2>2. cst[c] = "running"
    BY <1>5 DEF ProgExits, FilterEof, Running
  <2> QED BY <2>1, <2>2, <1>3, StatusFacts
<1>6. CASE ProgWrites(c)
  <2>1. cst[c] = "running"
    BY <1>6 DEF ProgWrites, WantsToWrite, Running
  <2> QED BY <1>6, <2>1 DEF ProgWrites
<1> QED
  BY <1>1, <1>2, <1>4, <1>5, <1>6 DEF Child, Proceeds

(* The types, for every step.                                               *)
LEMMA StepTypeOK == TypeOK /\ [Next]_vars => TypeOK'
<1> SUFFICES ASSUME TypeOK, [Next]_vars PROVE TypeOK'
  OBVIOUS
<1>1. CASE Parent
  BY <1>1, ParentTypeOK
<1>2. ASSUME NEW c \in Tid, Child(c) PROVE TypeOK'
  BY <1>2, ChildTypeOK
<1>3. CASE HostOpens
  <2>1. KernelType'
    BY <1>3, ObjectFacts DEF HostOpens, TypeOK, KernelType
  <2> QED
    BY <1>3, <2>1, Frame DEF HostOpens, TypeOK, locals, children
<1>4. CASE Over \/ UNCHANGED vars
  BY <1>4, Frame DEF Over, TypeOK, vars, locals, kernel, children
<1> QED
  BY <1>1, <1>2, <1>3, <1>4 DEF Next

(* In every call the state keeps its types; in particular no pid is written *)
(* past the end of the chain (pid-chain.c:58) and t stays on the task list. *)
THEOREM TypeCorrect == Spec => []TypeOK
<1>1. Init => TypeOK
  BY InitTypeOK
<1>2. TypeOK /\ [Next]_vars => TypeOK'
  BY StepTypeOK
<1> QED
  BY <1>1, <1>2, PTL DEF Spec

----------------------------------------------------------------------------
(* The descriptors of the calling program.                                  *)
OwnInv == TypeOK /\ HostFdsKept /\ RemembersOwn

(* A descriptor the kernel hands out is not the calling program's.          *)
LEMMA FreshFd ==
  ASSUME OwnInv, NEW d \in Fd, LowestFree(fds, d)
  PROVE  fds[d] = Closed /\ d \notin host
BY ObjectFacts DEF OwnInv, HostFdsKept, LowestFree, TypeOK, KernelType

(* A step that leaves the parent's descriptors alone.                       *)
LEMMA OwnFrame ==
  ASSUME OwnInv, UNCHANGED <<files, fds, host>>, pc' # "populate" \/ UNCHANGED <<pc, prev>>
  PROVE  HostFdsKept' /\ RemembersOwn'
BY DEF OwnInv, HostFdsKept, RemembersOwn

(* A step that sets one of the three files to d.                            *)
LEMMA OwnSetFile ==
  ASSUME OwnInv, NEW s \in Streams, NEW d \in -1..MaxFd,
         files' = [files EXCEPT ![s] = d], prev' = prev, host' = host,
         d > 2 => d \notin host,
         pc' = "populate" => pc = "populate"
  PROVE  RemembersOwn'
<1>1. files \in TaskFiles
  BY DEF OwnInv, TypeOK, FilesType
<1>2. \A u \in FileFields : files'[u] = d \/ files'[u] = files[u]
  BY <1>1, SetFile DEF FileFields, Streams
<1> QED
  BY <1>2 DEF OwnInv, RemembersOwn

(* The parent's steps close none of the calling program's descriptors.      *)
LEMMA ParentOwn == ASSUME OwnInv, Parent PROVE HostFdsKept' /\ RemembersOwn'
<1> USE DEF locals, kernel, children
<1>t. /\ TypeOK /\ LoopType /\ FilesType /\ KernelType /\ HostFdsKept /\ RemembersOwn
      /\ files \in TaskFiles /\ prev \in Fd /\ t \in Nat
  BY LineFacts DEF OwnInv, TypeOK, FilesType, LoopType
<1>1. CASE CheckRedirects \/ PrepareFails \/ StdoutToPipeFails \/ Fork \/ ForkFails
             \/ AddPid \/ AddPidFails \/ Decide \/ Return
  <2>1. UNCHANGED <<files, fds, host>>
    BY <1>1 DEF CheckRedirects, PrepareFails, StdoutToPipeFails, Fork, ForkFails,
                AddPid, AddPidFails, Decide, Return
  <2>2. pc' # "populate"
    <3>1. CASE CheckRedirects
      BY <3>1 DEF CheckRedirects, ExitError, LeaveLoop
    <3>2. CASE PrepareFails \/ StdoutToPipeFails \/ AddPidFails
      BY <3>2 DEF PrepareFails, StdoutToPipeFails, AddPidFails, ExitError, LeaveLoop
    <3>3. CASE Fork \/ ForkFails \/ Return
      BY <3>3 DEF Fork, ForkFails, Return
    <3>4. CASE AddPid
      BY <3>4 DEF AddPid, NextTask, LeaveLoop
    <3>5. CASE Decide
      BY <3>5 DEF Decide, NextTask, ExitError, LeaveLoop
    <3> QED
      BY <1>1, <3>1, <3>2, <3>3, <3>4, <3>5
  <2> QED
    BY <2>1, <2>2, OwnFrame
<1>2. CASE PrepareTask
  <2>1. /\ prev' = files.out_rd_pipe /\ files' = StdFiles /\ UNCHANGED <<fds, host>>
    BY <1>2 DEF PrepareTask
  <2>2. \A s \in FileFields : ~(files'[s] > 2)
    BY <2>1 DEF StdFiles, FileFields
  <2> QED
    BY <1>t, <2>1, <2>2 DEF HostFdsKept, RemembersOwn, FileFields
<1>3. CASE OpenRedirect
  <2> DEFINE s == Redirects[i].stream
  <2>1. s \in Streams
    BY <1>3 DEF OpenRedirect, AtRedirect
  <2>2. PICK d \in Fd : /\ LowestFree(fds, d)
                        /\ fds' = [fds EXCEPT ![d] = OpenFile(s, t)]
                        /\ NextRedirect(s, d)
    BY <1>3 DEF OpenRedirect
  <2>3. d \notin host
    BY <2>2, FreshFd
  <2>4. /\ files' = [files EXCEPT ![s] = d]
        /\ UNCHANGED <<pc, prev, host>>
    BY <2>2 DEF NextRedirect
  <2>5. HostFdsKept'
    BY <1>t, <2>2, <2>3, <2>4 DEF HostFdsKept, KernelType
  <2>6. d \in -1..MaxFd
    BY FdAssumption
  <2>7. RemembersOwn'
    BY <2>1, <2>3, <2>4, <2>6, OwnSetFile
  <2> QED
    BY <2>5, <2>7
<1>4. CASE OpenFails
  <2> DEFINE s == Redirects[i].stream
  <2>1. s \in Streams /\ -1 \in -1..MaxFd /\ ~(-1 > 2)
    BY <1>4, FdAssumption DEF OpenFails, AtRedirect
  <2>2. /\ files' = [files EXCEPT ![s] = -1]
        /\ UNCHANGED <<prev, fds, host>>
        /\ pc' # "populate"
    BY <1>4 DEF OpenFails, ExitError, LeaveLoop
  <2>3. RemembersOwn'
    BY <2>1, <2>2, OwnSetFile
  <2> QED
    BY <1>t, <2>2, <2>3 DEF HostFdsKept
<1>5. CASE ShareRedirect \/ StdinFromPipe
  <2>1. PICK s \in Streams, d \in -1..MaxFd :
          /\ NextRedirect(s, d)
          /\ d \in {files.out, files.err, prev}
          /\ pc = "populate" /\ UNCHANGED fds
    <3>1. CASE ShareRedirect
      BY <1>t, <3>1 DEF ShareRedirect, AtRedirect, Streams, TaskFiles
    <3>2. CASE StdinFromPipe
      <4>1. prev \in -1..MaxFd /\ "in" \in Streams
        BY <1>t, FdAssumption DEF Streams
      <4> QED
        BY <3>2, <4>1 DEF StdinFromPipe, AtRedirect
    <3> QED
      BY <1>5, <3>1, <3>2
  <2>2. d > 2 => d \notin host
    BY <1>t, <2>1 DEF RemembersOwn, FileFields
  <2>3. files' = [files EXCEPT ![s] = d] /\ UNCHANGED <<pc, prev, host>>
    BY <2>1 DEF NextRedirect
  <2>4. RemembersOwn'
    BY <2>2, <2>3, OwnSetFile
  <2> QED
    BY <1>t, <2>1, <2>3, <2>4 DEF HostFdsKept
<1>6. CASE StdoutToPipe
  <2>1. PICK r \in Fd, w \in Fd :
          /\ LowestFree(fds, r)
          /\ LowestFree([fds EXCEPT ![r] = RdEnd(t)], w)
          /\ fds' = [fds EXCEPT ![r] = RdEnd(t), ![w] = WrEnd(t)]
          /\ files' = [files EXCEPT !.out_rd_pipe = r, !.out = w]
    BY <1>6 DEF StdoutToPipe
  <2>2. UNCHANGED <<pc, prev, host>>
    BY <1>6 DEF StdoutToPipe
  <2>3. r \notin host
    BY <2>1, FreshFd
  <2>4. w # r /\ fds[w] = Closed
    BY <1>t, <2>1 DEF LowestFree, KernelType, RdEnd, Closed
  <2>5. w \notin host
    BY <1>t, <2>4, ObjectFacts DEF HostFdsKept, KernelType
  <2>6. HostFdsKept'
    BY <1>t, <2>1, <2>2, <2>3, <2>5 DEF HostFdsKept, KernelType
  <2>7. /\ files'["in"] = files["in"] /\ files'["err"] = files["err"]
        /\ files'["out"] = w /\ files'["out_rd_pipe"] = r
    BY <1>t, <2>1 DEF TaskFiles
  <2>8. RemembersOwn'
    BY <1>t, <2>2, <2>3, <2>5, <2>7 DEF RemembersOwn, FileFields
  <2> QED
    BY <2>6, <2>8
<1>7. ASSUME NEW s \in Streams, NEW next \in Labels \ {"populate"}, CloseOne(s, next)
      PROVE  HostFdsKept' /\ RemembersOwn'
  <2>1. pc' # "populate" /\ UNCHANGED <<prev, host>>
    BY <1>7 DEF CloseOne
  <2>2. CASE OwnedFd(files[s])
    <3>1. /\ fds' = [fds EXCEPT ![files[s]] = Closed]
          /\ files' = [files EXCEPT ![s] = StdFiles[s]]
      BY <1>7, <2>2 DEF CloseOne, AfterClose
    <3>2. files[s] \notin host
      BY <1>t, <2>2 DEF RemembersOwn, OwnedFd, FileFields, Streams
    <3>3. HostFdsKept'
      BY <1>t, <2>1, <3>1, <3>2 DEF HostFdsKept, KernelType
    <3>4. StdFiles[s] \in -1..MaxFd /\ ~(StdFiles[s] > 2)
      BY FdAssumption DEF StdFiles, Streams
    <3>5. RemembersOwn'
      BY <2>1, <3>1, <3>4, OwnSetFile
    <3> QED
      BY <3>3, <3>5
  <2>3. CASE ~OwnedFd(files[s])
    BY <1>7, <2>1, <2>3, OwnFrame DEF CloseOne
  <2> QED
    BY <2>2, <2>3
<1>8. CASE CloseIn \/ CloseOut \/ CloseErr
  BY <1>7, <1>8 DEF CloseIn, CloseOut, CloseErr, Labels, Streams
<1>9. CASE WaitPid
  <2>1. UNCHANGED <<files, prev, fds, host>> /\ (pc' = pc \/ pc' = "aborted")
    BY <1>9 DEF WaitPid
  <2> QED
    BY <2>1, OwnFrame
<1> QED
  BY <1>1, <1>2, <1>3, <1>4, <1>5, <1>6, <1>8, <1>9 DEF Parent

(* The children's steps do not touch the parent's table.                    *)
LEMMA ChildOwn == ASSUME OwnInv, NEW c \in Tid, Child(c) PROVE HostFdsKept' /\ RemembersOwn'
<1>1. UNCHANGED <<pc, files, prev, fds, host>>
  BY DEF Child, Proceeds, ChildSetup, ChildExec, ChildExecFails, ProgExits, ProgKilled, FilterEof,
         BrokenPipe, ProgWrites, Dies, locals, kernel
<1> QED
  BY <1>1, OwnFrame

(* At the call nothing is remembered.                                       *)
LEMMA InitOwn == Init => OwnInv
<1> SUFFICES ASSUME Init PROVE OwnInv
  OBVIOUS
<1>1. TypeOK
  BY InitTypeOK
<1>2. \A d \in host : fds[d] = HostFile(d)
  <2>1. host = HostFds /\ fds = [d \in Fd |-> IF d \in HostFds THEN HostFile(d) ELSE Closed]
    BY DEF Init
  <2> QED
    BY <2>1, FdAssumption
<1>3. RemembersOwn
  <2>1. files = StdFiles /\ pc = "sane"
    BY DEF Init
  <2> QED
    BY <2>1 DEF RemembersOwn, StdFiles, FileFields
<1> QED
  BY <1>1, <1>2, <1>3 DEF OwnInv, HostFdsKept

(* While no other thread of the program opens files, a call leaves every    *)
(* descriptor of its caller alone (task.c:281), whatever the command line   *)
(* is, whichever descriptors are open or closed when it starts, and         *)
(* whatever fails.                                                          *)
THEOREM HostFdsKeptAlone ==
  ASSUME "host" \notin Env
  PROVE  Spec => []HostFdsKept
<1>1. Init => OwnInv
  BY InitOwn
<1>2. OwnInv /\ [Next]_vars => OwnInv'
  <2> SUFFICES ASSUME OwnInv, [Next]_vars PROVE OwnInv'
    OBVIOUS
  <2>1. TypeOK'
    BY StepTypeOK DEF OwnInv
  <2>2. ~HostOpens
    BY DEF HostOpens
  <2>3. HostFdsKept' /\ RemembersOwn'
    <3>1. CASE Parent
      BY <3>1, ParentOwn
    <3>2. CASE \E c \in Tid : Child(c)
      BY <3>2, ChildOwn
    <3>3. CASE Over \/ UNCHANGED vars
      BY <3>3, OwnFrame DEF Over, vars, locals, kernel
    <3> QED
      BY <2>2, <3>1, <3>2, <3>3 DEF Next
  <2> QED
    BY <2>1, <2>3 DEF OwnInv
<1>3. OwnInv => HostFdsKept
  BY DEF OwnInv
<1> QED
  BY <1>1, <1>2, <1>3, PTL DEF Spec

----------------------------------------------------------------------------
(* With other threads: what the parent remembers has to be open and         *)
(* remembered once.                                                         *)
OnceInv == OwnInv /\ RemembersOnce

(* A step that leaves the files and the table alone.                        *)
LEMMA OnceFrame ==
  ASSUME RemembersOnce, UNCHANGED <<files, fds>>,
         pc' # "populate" \/ UNCHANGED <<pc, line, t, i, prev>>
  PROVE  RemembersOnce'
BY DEF RemembersOnce

(* Outside the loop over the redirects only the first part says something.  *)
LEMMA OnceElsewhere ==
  ASSUME pc' # "populate",
         \A s \in FileFields : files'[s] > 2 =>
            /\ fds'[files'[s]] # Closed
            /\ \A u \in FileFields : u # s => files'[u] # files'[s]
  PROVE  RemembersOnce'
BY DEF RemembersOnce

(* One of the three files is set to d, which is a new descriptor, that of   *)
(* the pipe of the task before, or a standard one.                          *)
LEMMA OnceSetFile ==
  ASSUME OnceInv, NEW s \in Streams, NEW d \in -1..MaxFd, NextRedirect(s, d),
         pc = "populate", i <= Len(Redirects),
         \A e \in Fd : fds[e] # Closed => fds'[e] # Closed,
         d > 2 => /\ fds'[d] # Closed
                  /\ fds[d] = Closed \/ (s = "in" /\ d = prev)
                  /\ s = "out" => Redirects[i] = [stream |-> "out", target |-> "file"]
                  /\ s = "err" => Redirects[i] = [stream |-> "err", target |-> "file"]
  PROVE  RemembersOnce'
<1>t. /\ files \in TaskFiles /\ prev \in Fd /\ RemembersOnce /\ i \in Nat \ {0}
  BY DEF OnceInv, OwnInv, TypeOK, FilesType, LoopType
<1>1. /\ files' = [files EXCEPT ![s] = d] /\ i' = i + 1
      /\ UNCHANGED <<pc, line, t, prev>>
  BY DEF NextRedirect, locals
<1>2. /\ files'[s] = d /\ files'.out_rd_pipe = files.out_rd_pipe
      /\ \A u \in FileFields : u # s => files'[u] = files[u]
      /\ s \in FileFields
  BY <1>t, <1>1, SetFile DEF FileFields, Streams
<1>3. \A u \in FileFields : files[u] \in -1..MaxFd
  BY <1>t, FdAssumption DEF TaskFiles, FileFields
<1>4. ASSUME NEW u \in FileFields, u # s
      PROVE  /\ files[u] > 2 => /\ fds'[files[u]] # Closed /\ files[u] # d
                                /\ \A v \in FileFields : v \notin {u, s} => files[v] # files[u]
             /\ d > 2 => files[u] # d
  <2>1. files[u] > 2 => /\ fds[files[u]] # Closed /\ files[u] \in Fd
                        /\ \A v \in FileFields : v # u => files[v] # files[u]
    BY <1>t, <1>3 DEF RemembersOnce
  <2>2. d > 2 => files[u] # d
    <3> SUFFICES ASSUME d > 2, files[u] = d PROVE FALSE
      OBVIOUS
    <3>1. fds[d] # Closed
      BY <2>1
    <3>2. s = "in" /\ d = prev
      BY <3>1
    <3> QED
      BY <1>t, <1>4, <3>2 DEF RemembersOnce
  <2> QED
    BY <2>1, <2>2
<1>5. \A u \in FileFields : files'[u] > 2 =>
         /\ fds'[files'[u]] # Closed
         /\ \A v \in FileFields : v # u => files'[v] # files'[u]
  BY <1>2, <1>4
<1>6. prev > 2 => /\ fds'[prev] # Closed
                  /\ \A u \in FileFields \ {"in"} : files'[u] # prev
  <2> SUFFICES ASSUME prev > 2
               PROVE  /\ fds'[prev] # Closed
                      /\ \A u \in FileFields \ {"in"} : files'[u] # prev
    OBVIOUS
  <2>1. /\ fds[prev] # Closed
        /\ \A u \in FileFields \ {"in"} : files[u] # prev
    BY <1>t DEF RemembersOnce
  <2>2. s # "in" => d # prev
    BY <2>1
  <2> QED
    BY <1>t, <1>2, <2>1, <2>2
<1>7. /\ files'.out > 2 => \E m \in 1..(i'-1), tgt \in {"file", "pipe"} :
           line'[t'].redirects[m] = [stream |-> "out", target |-> tgt]
      /\ files'.err > 2 => \E m \in 1..(i'-1) :
           line'[t'].redirects[m] = [stream |-> "err", target |-> "file"]
  <2>1. i \in 1..(i'-1) /\ 1..(i-1) \subseteq 1..(i'-1)
    BY <1>t, <1>1
  <2>2. line'[t'].redirects = Redirects
    BY <1>1 DEF Redirects
  <2>3. files'.out > 2 => \E m \in 1..(i'-1), tgt \in {"file", "pipe"} :
           Redirects[m] = [stream |-> "out", target |-> tgt]
    <3>1. CASE s = "out"
      BY <1>2, <2>1, <3>1
    <3>2. CASE s # "out"
      <4>1. files'.out = files.out
        BY <1>2, <3>2 DEF FileFields
      <4> QED
        BY <1>t, <2>1, <4>1 DEF RemembersOnce, Redirects
    <3> QED
      BY <3>1, <3>2
  <2>4. files'.err > 2 => \E m \in 1..(i'-1) :
           Redirects[m] = [stream |-> "err", target |-> "file"]
    <3>1. CASE s = "err"
      BY <1>2, <2>1, <3>1
    <3>2. CASE s # "err"
      <4>1. files'.err = files.err
        BY <1>2, <3>2 DEF FileFields
      <4> QED
        BY <1>t, <2>1, <4>1 DEF RemembersOnce, Redirects
    <3> QED
      BY <3>1, <3>2
  <2> QED
    BY <2>2, <2>3, <2>4
<1> QED
  BY <1>1, <1>5, <1>6, <1>7 DEF RemembersOnce

(* The parent's steps remember each descriptor once.                        *)
LEMMA ParentOnce == ASSUME NoSharedFile, OnceInv, Parent PROVE RemembersOnce'
<1> USE DEF locals, kernel, children
<1>t. /\ TypeOK /\ LoopType /\ FilesType /\ KernelType /\ RemembersOnce
      /\ files \in TaskFiles /\ prev \in Fd /\ t \in Nat /\ i \in Nat \ {0}
      /\ line \in Lines /\ t \in 1..Len(line) /\ Redirects \in Seq(Redirect)
  BY LineFacts DEF OnceInv, OwnInv, TypeOK, FilesType, LoopType, Redirects
<1>f. \A u \in FileFields : files[u] \in -1..MaxFd /\ (files[u] > 2 => files[u] \in Fd)
  BY <1>t, FdAssumption DEF TaskFiles, FileFields
<1>r. ASSUME NEW k \in 1..Len(Redirects)
      PROVE  Redirects[k] = [stream |-> Redirects[k].stream, target |-> Redirects[k].target]
  <2>1. Redirects[k] \in Redirect
    BY <1>t
  <2> QED
    BY <2>1 DEF Redirect
<1>i. i <= Len(Redirects) => i \in 1..Len(Redirects)
  BY <1>t
<1>1. CASE CheckRedirects \/ PrepareFails \/ StdoutToPipeFails \/ Fork \/ ForkFails
             \/ AddPid \/ AddPidFails \/ Decide \/ Return
  <2>1. UNCHANGED <<files, fds>>
    BY <1>1 DEF CheckRedirects, PrepareFails, StdoutToPipeFails, Fork, ForkFails,
                AddPid, AddPidFails, Decide, Return
  <2>2. pc' # "populate"
    <3>1. CASE CheckRedirects
      BY <3>1 DEF CheckRedirects, ExitError, LeaveLoop
    <3>2. CASE PrepareFails \/ StdoutToPipeFails \/ AddPidFails
      BY <3>2 DEF PrepareFails, StdoutToPipeFails, AddPidFails, ExitError, LeaveLoop
    <3>3. CASE Fork \/ ForkFails \/ Return
      BY <3>3 DEF Fork, ForkFails, Return
    <3>4. CASE AddPid
      BY <3>4 DEF AddPid, NextTask, LeaveLoop
    <3>5. CASE Decide
      BY <3>5 DEF Decide, NextTask, ExitError, LeaveLoop
    <3> QED
      BY <1>1, <3>1, <3>2, <3>3, <3>4, <3>5
  <2> QED
    BY <1>t, <2>1, <2>2, OnceFrame
<1>2. CASE PrepareTask
  <2>1. prev' = files.out_rd_pipe /\ files' = StdFiles /\ fds' = fds
    BY <1>2 DEF PrepareTask
  <2>2. \A s \in FileFields : ~(files'[s] > 2) /\ files'[s] \in Nat
    BY <2>1 DEF StdFiles, FileFields
  <2>3. prev' > 2 => /\ fds'[prev'] # Closed
                     /\ \A u \in FileFields \ {"in"} : files'[u] # prev'
    BY <1>t, <2>1, <2>2 DEF RemembersOnce, FileFields
  <2> QED
    BY <2>2, <2>3 DEF RemembersOnce, FileFields
<1>3. CASE OpenRedirect
  <2> DEFINE s == Redirects[i].stream
  <2>1. /\ s \in Streams /\ Redirects[i].target = "file"
        /\ pc = "populate" /\ i <= Len(Redirects)
    BY <1>3 DEF OpenRedirect, AtRedirect
  <2>2. PICK d \in Fd : /\ LowestFree(fds, d)
                        /\ fds' = [fds EXCEPT ![d] = OpenFile(s, t)]
                        /\ NextRedirect(s, d)
    BY <1>3 DEF OpenRedirect
  <2>3. Redirects[i] = [stream |-> s, target |-> "file"]
    BY <1>r, <1>i, <2>1
  <2>4. fds[d] = Closed /\ fds'[d] # Closed /\ \A e \in Fd : fds[e] # Closed => fds'[e] # Closed
    BY <1>t, <2>1, <2>2 DEF KernelType, LowestFree, OpenFile, Closed, Streams
  <2>5. d \in -1..MaxFd
    BY FdAssumption
  <2> QED
    BY <2>1, <2>2, <2>3, <2>4, <2>5, OnceSetFile
<1>4. CASE OpenFails
  <2> DEFINE s == Redirects[i].stream
  <2>1. s \in Streams /\ -1 \in -1..MaxFd /\ ~(-1 > 2)
    BY <1>4, FdAssumption DEF OpenFails, AtRedirect
  <2>2. files' = [files EXCEPT ![s] = -1] /\ fds' = fds /\ pc' # "populate"
    BY <1>4 DEF OpenFails, ExitError, LeaveLoop
  <2>3. \A u \in FileFields : files'[u] = IF u = s THEN -1 ELSE files[u]
    BY <1>t, <2>1, <2>2, SetFile DEF FileFields, Streams
  <2> QED
    BY <1>t, <2>2, <2>3, OnceElsewhere DEF RemembersOnce
<1>5. CASE ShareRedirect
  <2> DEFINE s == Redirects[i].stream
             d == IF s = "out" THEN files.err ELSE files.out
  <2>1. /\ s \in {"out", "err"} /\ Redirects[i].target = "share"
        /\ pc = "populate" /\ i <= Len(Redirects)
        /\ NextRedirect(s, d) /\ fds' = fds
    BY <1>5 DEF ShareRedirect, AtRedirect
  <2>2. Redirects[i] = [stream |-> s, target |-> "share"] /\ i \in 1..Len(Redirects)
    BY <1>r, <1>i, <2>1
  <2>3. ~SharesOwnFile(line[t])
    BY <1>t DEF NoSharedFile
  <2>4. \A m \in 1..(i-1) : m \in 1..Len(Redirects) /\ m < i
    BY <1>t, <2>2
  <2>5. CASE s = "out"
    <3>1. ~(\E m \in 1..(i-1) : Redirects[m] = [stream |-> "err", target |-> "file"])
      BY <2>2, <2>3, <2>4, <2>5 DEF SharesOwnFile, Before, Redirects
    <3>2. ~(d > 2)
      BY <1>t, <2>1, <2>5, <3>1 DEF RemembersOnce, Redirects
    <3> QED
      BY <1>f, <2>1, <3>2, OnceSetFile DEF FileFields, Streams
  <2>6. CASE s = "err"
    <3>1. ~(\E m \in 1..(i-1), tgt \in {"file", "pipe"} :
               Redirects[m] = [stream |-> "out", target |-> tgt])
      BY <2>2, <2>3, <2>4, <2>6 DEF SharesOwnFile, Before, Redirects
    <3>2. ~(d > 2)
      BY <1>t, <2>1, <2>6, <3>1 DEF RemembersOnce, Redirects
    <3> QED
      BY <1>f, <2>1, <2>6, <3>2, OnceSetFile DEF FileFields, Streams
  <2> QED
    BY <2>1, <2>5, <2>6
<1>6. CASE StdinFromPipe
  <2>1. /\ NextRedirect("in", prev) /\ fds' = fds
        /\ pc = "populate" /\ i <= Len(Redirects)
    BY <1>6 DEF StdinFromPipe, AtRedirect
  <2>2. prev > 2 => fds[prev] # Closed
    BY <1>t, <2>1 DEF RemembersOnce
  <2>3. "in" \in Streams /\ prev \in -1..MaxFd
    BY <1>t, FdAssumption DEF Streams
  <2> QED
    BY <2>1, <2>2, <2>3, OnceSetFile
<1>7. CASE StdoutToPipe
  <2>1. PICK r \in Fd, w \in Fd :
          /\ LowestFree(fds, r)
          /\ LowestFree([fds EXCEPT ![r] = RdEnd(t)], w)
          /\ fds' = [fds EXCEPT ![r] = RdEnd(t), ![w] = WrEnd(t)]
          /\ files' = [files EXCEPT !.out_rd_pipe = r, !.out = w]
    BY <1>7 DEF StdoutToPipe
  <2>2. /\ AtRedirect({"out"}, "pipe") /\ i' = i + 1
        /\ UNCHANGED <<pc, line, t, prev>>
    BY <1>7 DEF StdoutToPipe
  <2>3. Redirects[i] = [stream |-> "out", target |-> "pipe"] /\ i \in 1..(i'-1)
    BY <1>t, <1>r, <1>i, <2>2 DEF AtRedirect
  <2>4. r # w /\ fds[r] = Closed /\ fds[w] = Closed
    BY <1>t, <2>1 DEF LowestFree, KernelType, RdEnd, Closed
  <2>5. /\ fds'[r] # Closed /\ fds'[w] # Closed
        /\ \A e \in Fd : fds[e] # Closed => fds'[e] = fds[e]
    BY <1>t, <2>1, <2>4 DEF KernelType, RdEnd, WrEnd, Closed
  <2>6. /\ files'["in"] = files["in"] /\ files'["err"] = files["err"]
        /\ files'["out"] = w /\ files'["out_rd_pipe"] = r
    BY <1>t, <2>1 DEF TaskFiles
  <2>7. \A u \in FileFields : files[u] > 2 =>
           fds[files[u]] # Closed /\ files[u] # r /\ files[u] # w
    BY <1>t, <2>4 DEF RemembersOnce
  <2>8. \A s \in FileFields : files'[s] > 2 =>
           /\ fds'[files'[s]] # Closed
           /\ \A u \in FileFields : u # s => files'[u] # files'[s]
    <3> SUFFICES ASSUME NEW s \in FileFields, files'[s] > 2
                 PROVE  /\ fds'[files'[s]] # Closed
                        /\ \A u \in FileFields : u # s => files'[u] # files'[s]
      OBVIOUS
    <3>1. CASE s \in {"out", "out_rd_pipe"}
      <4>1. files["in"] # files'[s] /\ files["err"] # files'[s]
        BY <2>6, <2>7, <3>1 DEF FileFields
      <4> QED
        BY <2>4, <2>5, <2>6, <3>1, <4>1 DEF FileFields
    <3>2. CASE s \in {"in", "err"}
      <4>1. files'[s] = files[s] /\ files[s] > 2 /\ files[s] \in Fd
        BY <1>f, <2>6, <3>2 DEF FileFields
      <4>2. fds[files[s]] # Closed /\ files[s] # r /\ files[s] # w
        BY <2>7, <3>2, <4>1 DEF FileFields
      <4>3. \A u \in FileFields : u # s => files[u] # files[s]
        BY <1>t, <4>1 DEF RemembersOnce
      <4> QED
        BY <2>5, <2>6, <3>2, <4>1, <4>2, <4>3 DEF FileFields
    <3> QED
      BY <3>1, <3>2 DEF FileFields
  <2>9. prev > 2 => /\ fds'[prev] # Closed
                    /\ \A u \in FileFields \ {"in"} : files'[u] # prev
    <3> SUFFICES ASSUME prev > 2
                 PROVE  /\ fds'[prev] # Closed
                        /\ \A u \in FileFields \ {"in"} : files'[u] # prev
      OBVIOUS
    <3>1. fds[prev] # Closed /\ files["err"] # prev
      BY <1>t, <2>2 DEF RemembersOnce, AtRedirect, FileFields
    <3> QED
      BY <1>t, <2>4, <2>5, <2>6, <3>1 DEF FileFields
  <2>10. files'["err"] > 2 => \E m \in 1..(i'-1) :
            line[t].redirects[m] = [stream |-> "err", target |-> "file"]
    <3>1. 1..(i-1) \subseteq 1..(i'-1)
      BY <1>t, <2>2
    <3> QED
      BY <1>t, <2>2, <2>6, <3>1 DEF RemembersOnce, AtRedirect
  <2>11. \E m \in 1..(i'-1), tgt \in {"file", "pipe"} :
            line[t].redirects[m] = [stream |-> "out", target |-> tgt]
    BY <2>3 DEF Redirects
  <2> QED
    BY <2>2, <2>8, <2>9, <2>10, <2>11 DEF RemembersOnce
<1>8. ASSUME NEW s \in Streams, NEW next \in Labels \ {"populate"}, CloseOne(s, next)
      PROVE  RemembersOnce'
  <2>1. pc' # "populate"
    BY <1>8 DEF CloseOne
  <2>2. CASE OwnedFd(files[s])
    <3>1. /\ fds' = [fds EXCEPT ![files[s]] = Closed]
          /\ files' = [files EXCEPT ![s] = StdFiles[s]]
      BY <1>8, <2>2 DEF CloseOne, AfterClose
    <3>2. StdFiles[s] \in -1..MaxFd /\ StdFiles[s] \in 0..2 /\ s \in FileFields
      BY FdAssumption DEF StdFiles, Streams, FileFields
    <3>3. \A u \in FileFields : files'[u] = IF u = s THEN StdFiles[s] ELSE files[u]
      BY <1>t, <3>1, <3>2, SetFile DEF FileFields, Streams
    <3> SUFFICES ASSUME NEW u \in FileFields, files'[u] > 2
                 PROVE  /\ fds'[files'[u]] # Closed
                        /\ \A v \in FileFields : v # u => files'[v] # files'[u]
      BY <2>1, OnceElsewhere
    <3>4. u # s /\ files'[u] = files[u] /\ files[u] \in Fd
      BY <1>f, <3>2, <3>3
    <3>5. fds[files[u]] # Closed /\ \A v \in FileFields : v # u => files[v] # files[u]
      BY <1>t, <3>4 DEF RemembersOnce
    <3>6. fds'[files[u]] # Closed
      BY <1>t, <3>1, <3>2, <3>4, <3>5 DEF KernelType
    <3> QED
      BY <3>2, <3>3, <3>4, <3>5, <3>6
  <2>3. CASE ~OwnedFd(files[s])
    BY <1>8, <1>t, <2>1, <2>3, OnceFrame DEF CloseOne
  <2> QED
    BY <2>2, <2>3
<1>9. CASE CloseIn \/ CloseOut \/ CloseErr
  BY <1>8, <1>9 DEF CloseIn, CloseOut, CloseErr, Labels, Streams
<1>10. CASE WaitPid
  <2>1. UNCHANGED <<files, fds>> /\ pc' # "populate"
    BY <1>10 DEF WaitPid
  <2> QED
    BY <1>t, <2>1, OnceFrame
<1> QED
  BY <1>1, <1>2, <1>3, <1>4, <1>5, <1>6, <1>7, <1>9, <1>10 DEF Parent

(* Another thread gets a number the parent does not remember.               *)
LEMMA HostOpensOnce == ASSUME OnceInv, HostOpens PROVE HostFdsKept' /\ RemembersOwn' /\ RemembersOnce'
<1>t. TypeOK /\ KernelType /\ HostFdsKept /\ RemembersOwn /\ RemembersOnce
      /\ prev \in Fd /\ files \in TaskFiles
  BY DEF OnceInv, OwnInv, TypeOK, FilesType
<1>1. PICK d \in Fd : /\ LowestFree(fds, d)
                      /\ fds' = [fds EXCEPT ![d] = HostFile(d)]
                      /\ host' = host \cup {d}
  BY DEF HostOpens
<1>2. UNCHANGED <<pc, line, t, i, files, prev>>
  BY DEF HostOpens, locals
<1>3. fds[d] = Closed
  BY <1>1 DEF LowestFree
<1>4. \A e \in Fd : fds[e] # Closed => e # d /\ fds'[e] # Closed
  BY <1>t, <1>1, <1>3 DEF KernelType
<1>5. \A u \in FileFields : files[u] > 2 => files[u] \in Fd /\ fds[files[u]] # Closed
  BY <1>t, FdAssumption DEF RemembersOnce, TaskFiles, FileFields
<1>6. pc = "populate" /\ prev > 2 => fds[prev] # Closed
  BY <1>t DEF RemembersOnce
<1>7. HostFdsKept'
  BY <1>t, <1>1, <1>3 DEF HostFdsKept, KernelType
<1>8. RemembersOwn'
  BY <1>t, <1>1, <1>2, <1>4, <1>5, <1>6 DEF RemembersOwn
<1>9. RemembersOnce'
  BY <1>t, <1>2, <1>4, <1>5, <1>6 DEF RemembersOnce
<1> QED
  BY <1>7, <1>8, <1>9

(* Also while other threads open files, a call leaves every descriptor of   *)
(* the program alone, those opened since it started included: provided no   *)
(* task first redirects a stream and then shares it (the double close of    *)
(* task.c:286-293).                                                         *)
THEOREM HostFdsKeptThreads ==
  ASSUME NoSharedFile
  PROVE  Spec => [](HostFdsKept /\ OwnDescriptors)
<1>1. Init => OnceInv
  <2> SUFFICES ASSUME Init PROVE RemembersOnce
    BY InitOwn DEF OnceInv
  <2>1. files = StdFiles /\ pc = "sane"
    BY DEF Init
  <2> QED
    BY <2>1 DEF RemembersOnce, StdFiles, FileFields
<1>2. OnceInv /\ [Next]_vars => OnceInv'
  <2> SUFFICES ASSUME OnceInv, [Next]_vars PROVE OnceInv'
    OBVIOUS
  <2>1. TypeOK' /\ OwnInv /\ RemembersOnce
    BY StepTypeOK DEF OwnInv, OnceInv
  <2>2. HostFdsKept' /\ RemembersOwn' /\ RemembersOnce'
    <3>1. CASE Parent
      BY <2>1, <3>1, ParentOwn, ParentOnce
    <3>2. ASSUME NEW c \in Tid, Child(c) PROVE HostFdsKept' /\ RemembersOwn' /\ RemembersOnce'
      <4>1. UNCHANGED <<pc, line, t, i, files, prev, fds>>
        BY <3>2 DEF Child, Proceeds, ChildSetup, ChildExec, ChildExecFails, ProgExits, ProgKilled,
                    FilterEof, BrokenPipe, ProgWrites, Dies, locals, kernel
      <4> QED
        BY <2>1, <3>2, <4>1, ChildOwn, OnceFrame
    <3>3. CASE HostOpens
      BY <3>3, HostOpensOnce
    <3>4. CASE Over \/ UNCHANGED vars
      BY <2>1, <3>4, OwnFrame, OnceFrame DEF Over, vars, locals, kernel
    <3> QED
      BY <3>1, <3>2, <3>3, <3>4 DEF Next
  <2> QED
    BY <2>1, <2>2 DEF OwnInv, OnceInv
<1>3. OnceInv => HostFdsKept /\ OwnDescriptors
  BY DEF OnceInv, OwnInv, OwnDescriptors
<1> QED
  BY <1>1, <1>2, <1>3, PTL DEF Spec

(***************************************************************************)
(* Jobs run one after the other, for every command line, every descriptor   *)
(* limit and every set of descriptors of the caller, as long as fork does   *)
(* not fail.  First the inductive invariant.                               *)
(***************************************************************************)
LoopLabels == {"sane", "prep", "populate", "close_in", "close_out", "close_err",
               "chain", "wait"}
ForkLabels == {"close_in", "close_out", "close_err", "chain", "wait"}
InLoop == pc \in LoopLabels /\ ~exiting

(* The chain holds the tasks after base and up to the last one added; those *)
(* up to base have been reaped.                                            *)
forked == IF pc \in ForkLabels THEN t ELSE t - 1
base   == IF pc = "wait" THEN t - Len(chain) ELSE t - 1 - Len(chain)
reapedTo == IF pc = "wait" THEN base + i - 1 ELSE base

ChainHolds ==
  /\ base \in Nat
  /\ \A n \in 1..Len(chain) : chain[n] = base + n
  /\ \A c \in Tid : /\ c <= reapedTo => cst[c] = "reaped"
                    /\ reapedTo < c /\ c <= forked => Unreaped(c)
                    /\ forked < c => cst[c] = "none"

Waiting ==
  /\ chain # <<>>
  /\ i \in 1..(Len(chain) + 1)
  /\ i > 1 => stat = cstat[base + i - 1]

(* May task t start, if it does not read from a pipe?                       *)
MayStart ==
  t > 1 /\ ~Piped(line, t - 1) =>
    /\ chain = <<>>
    /\ cstat[t - 1].kind = "exit"
    /\ ~Refuses(line[t].run_if, cstat[t - 1].code)

LoopInv ==
  InLoop =>
    /\ ChainHolds
    /\ pc \in ForkLabels => pid = t
    /\ pc = "wait" => Waiting
    /\ pc \in {"sane", "prep", "populate"} => MayStart
    /\ pc \notin {"sane", "prep", "wait"} /\ files.out_rd_pipe # 0 => Piped(line, t)

(* What the call returns, once it is settled.                               *)
ExitInv ==
  /\ exiting => pc \in {"close_in", "close_out", "close_err", "free", "returned"}
  /\ pc \in {"free", "returned"} => exiting
  /\ exiting /\ retval # -1 =>
       /\ cstat[t] = Exited(retval)
       /\ \A c \in Tid : /\ c <= t => cst[c] = "reaped"
                         /\ t < c => cst[c] = "none"

DeadHaveStatus == \A c \in Tid : cst[c] \in {"zombie", "reaped"} => cstat[c] \in Statuses

JobInv == TypeOK /\ LoopInv /\ ExitInv /\ DeadHaveStatus /\ RunIfHonoured

(***************************************************************************)
(* Children                                                                *)
(***************************************************************************)
(* Children that go on disturb nothing: what the invariant says of a child  *)
(* is that it is there, or that it has been reaped.                        *)
LEMMA ChildKeeps ==
  ASSUME JobInv, NEW c \in Tid, Child(c)
  PROVE  JobInv'
<1>t. TypeOK /\ TypeOK' /\ LoopInv /\ ExitInv /\ DeadHaveStatus /\ RunIfHonoured
  BY ChildTypeOK DEF JobInv
<1>1. UNCHANGED <<pc, line, t, i, files, pid, chain, stat, retval, exiting>>
  BY <1>t, ChildMoves DEF locals
<1>2. \A k \in Tid : /\ cst'[k] = "reaped" <=> cst[k] = "reaped"
                     /\ cst'[k] = "none" <=> cst[k] = "none"
                     /\ cst[k] \in {"reaped", "none"} => cstat'[k] = cstat[k]
  BY <1>t, ChildMoves
<1>3. DeadHaveStatus'
  BY <1>t, ChildMoves DEF DeadHaveStatus
<1>l. line \in Lines /\ Len(line) \in Nat /\ 1..Len(line) \subseteq Tid /\ t \in 1..Len(line)
  BY <1>t, LineFacts DEF TypeOK, LoopType
<1>c. chain \in Seq(Int) /\ Len(chain) \in Nat /\ i \in Nat
  BY <1>t DEF TypeOK, ChainType, LoopType
<1>4. RunIfHonoured'
  <2> SUFFICES ASSUME NEW k \in 2..Len(line), cst'[k] # "none", ~Piped(line, k - 1)
               PROVE  /\ \A m \in 1..(k - 1) : cst'[m] = "reaped"
                      /\ cstat'[k - 1].kind = "exit"
                      /\ ~Refuses(line[k].run_if, cstat'[k - 1].code)
    BY <1>1 DEF RunIfHonoured
  <2>1. /\ \A m \in 1..(k - 1) : cst[m] = "reaped"
        /\ cstat[k - 1].kind = "exit"
        /\ ~Refuses(line[k].run_if, cstat[k - 1].code)
    BY <1>t, <1>2, <1>l DEF RunIfHonoured
  <2>2. \A m \in 1..(k - 1) : m \in Tid
    BY <1>l
  <2>3. cstat'[k - 1] = cstat[k - 1]
    BY <1>2, <1>l, <2>1, <2>2
  <2> QED BY <1>2, <2>1, <2>2, <2>3
<1>5. ExitInv'
  <2>1. exiting /\ retval # -1 => cstat'[t] = cstat[t]
    BY <1>t, <1>2, <1>l DEF ExitInv
  <2> QED BY <1>t, <1>1, <1>2, <2>1 DEF ExitInv
<1>6. LoopInv'
  <2> SUFFICES ASSUME InLoop
               PROVE  /\ ChainHolds'
                      /\ pc \in ForkLabels => pid = t
                      /\ (pc = "wait" => Waiting')
                      /\ (pc \in {"sane", "prep", "populate"} => MayStart')
                      /\ pc \notin {"sane", "prep", "wait"} /\ files.out_rd_pipe # 0
                           => Piped(line, t)
    BY <1>1 DEF LoopInv, InLoop
  <2>1. /\ ChainHolds /\ (pc = "wait" => Waiting)
        /\ pc \in {"sane", "prep", "populate"} => MayStart
    BY <1>t DEF LoopInv
  <2>2. ChainHolds'
    BY <1>1, <1>2, <2>1 DEF ChainHolds, forked, base, reapedTo, Unreaped
  <2>3. pc = "wait" => Waiting'
    <3> SUFFICES ASSUME pc = "wait", i > 1 PROVE stat = cstat'[base + i - 1]
      BY <1>1, <2>1 DEF Waiting, base
    <3>1. base \in Nat /\ i \in 1..(Len(chain) + 1) /\ stat = cstat[base + i - 1]
      BY <2>1 DEF Waiting, ChainHolds
    <3>2. base + i - 1 \in Tid /\ base + i - 1 <= reapedTo
      BY <1>l, <1>c, <3>1 DEF base, reapedTo
    <3> QED BY <1>2, <2>1, <3>1, <3>2 DEF ChainHolds
  <2>4. pc \in {"sane", "prep", "populate"} => MayStart'
    <3> SUFFICES ASSUME pc \in {"sane", "prep", "populate"}, t > 1, ~Piped(line, t - 1)
                 PROVE  cstat'[t - 1] = cstat[t - 1]
      BY <1>1, <2>1 DEF MayStart
    <3>1. chain = <<>>
      BY <2>1 DEF MayStart
    <3>2. t - 1 \in Tid /\ t - 1 <= reapedTo
      BY <1>l, <3>1 DEF base, reapedTo
    <3> QED BY <1>2, <2>1, <3>2 DEF ChainHolds
  <2> QED BY <1>t, <2>2, <2>3, <2>4 DEF LoopInv
<1> QED BY <1>t, <1>3, <1>4, <1>5, <1>6 DEF JobInv

----------------------------------------------------------------------------
(* The parent.                                                              *)

(* What the invariant says of the types.                                    *)
LEMMA JobFacts ==
  ASSUME JobInv
  PROVE  /\ TypeOK /\ LoopInv /\ ExitInv /\ DeadHaveStatus /\ RunIfHonoured
         /\ line \in Lines /\ Len(line) \in Nat /\ 1..Len(line) \subseteq Tid
         /\ t \in 1..Len(line) /\ t \in Nat /\ i \in Nat \ {0}
         /\ chain \in Seq(Int) /\ Len(chain) \in Nat
         /\ files \in TaskFiles /\ files.out_rd_pipe \in Nat
         /\ cst \in [Tid -> ChildStates] /\ cstat \in [Tid -> Statuses \cup {NoStatus}]
         /\ pc \in LoopLabels \cup {"free", "returned", "aborted"}
         /\ exiting \in BOOLEAN
<1>1. TypeOK /\ LoopType /\ ChainType /\ FilesType /\ ChildType
  BY DEF JobInv, TypeOK
<1>2. line \in Lines /\ t \in 1..Len(line) /\ exiting \in BOOLEAN
  BY <1>1 DEF LoopType
<1>3. files \in TaskFiles /\ files.out_rd_pipe \in Nat
  BY <1>1 DEF FilesType, TaskFiles
<1> QED
  BY <1>1, <1>2, <1>3, LineFacts
  DEF JobInv, LoopType, ChainType, ChildType, LoopLabels, Labels

(* A step that leaves the place in the loop and the children alone.         *)
LEMMA JobFrame ==
  ASSUME JobInv, TypeOK', UNCHANGED <<pc, locals, cst, cstat>>
  PROVE  JobInv'
<1>1. UNCHANGED <<pc, line, t, i, files, pid, chain, stat, retval, exiting, cst, cstat>>
  BY DEF locals
<1>2. LoopInv'
  BY <1>1 DEF JobInv, LoopInv, InLoop, ChainHolds, Waiting, MayStart, base, forked,
              reapedTo, Unreaped
<1>3. ExitInv' /\ DeadHaveStatus' /\ RunIfHonoured'
  BY <1>1 DEF JobInv, ExitInv, DeadHaveStatus, RunIfHonoured
<1> QED BY <1>2, <1>3 DEF JobInv

(* An error ends the call with -1, wherever it happens.                     *)
LEMMA ErrorKeeps ==
  ASSUME JobInv, TypeOK', ExitError, UNCHANGED <<line, t, cst, cstat>>
  PROVE  JobInv'
<1>1. exiting' = TRUE /\ retval' = -1 /\ pc' = "close_in"
  BY DEF ExitError, LeaveLoop
<1>2. LoopInv' /\ ExitInv'
  BY <1>1 DEF LoopInv, InLoop, ExitInv
<1>3. DeadHaveStatus' /\ RunIfHonoured'
  BY DEF JobInv, DeadHaveStatus, RunIfHonoured
<1> QED BY <1>2, <1>3 DEF JobInv

(* Steps on the way to fork: the read end of a pipe is there only if the    *)
(* task has one to give to the next.                                        *)
LEMMA PreparingKeeps ==
  ASSUME JobInv, TypeOK', pc \in {"sane", "prep", "populate"}, pc' \in {"prep", "populate"},
         UNCHANGED <<line, t, pid, chain, stat, retval, exiting, cst, cstat>>,
         pc' = "populate" /\ files'.out_rd_pipe # 0 => Piped(line, t)
  PROVE  JobInv'
<1>1. LoopInv /\ ExitInv /\ InLoop
  BY JobFacts DEF ExitInv, InLoop, LoopLabels
<1>2. ChainHolds /\ MayStart
  BY <1>1 DEF LoopInv
<1>3. ChainHolds'
  BY <1>2 DEF ChainHolds, base, forked, reapedTo, Unreaped, ForkLabels
<1>4. MayStart'
  BY <1>2 DEF MayStart
<1>5. LoopInv'
  BY <1>3, <1>4 DEF LoopInv, ForkLabels
<1>6. ExitInv' /\ DeadHaveStatus' /\ RunIfHonoured'
  BY <1>1 DEF JobInv, ExitInv, DeadHaveStatus, RunIfHonoured, InLoop
<1> QED BY <1>5, <1>6 DEF JobInv

(* The three files of a task and the read end of its pipe are set apart.    *)
LEMMA KeepsReadEnd ==
  ASSUME NEW f \in TaskFiles, NEW g, NEW s \in Streams, NEW d \in -1..MaxFd,
         g = [f EXCEPT ![s] = d]
  PROVE  g.out_rd_pipe = f.out_rd_pipe
BY SetFile

(* What comes before fork: the redirects of one task.                       *)
LEMMA RedirectsKeep ==
  ASSUME JobInv, TypeOK',
         PrepareTask \/ OpenRedirect \/ ShareRedirect \/ StdinFromPipe \/ StdoutToPipe
  PROVE  JobInv'
<1>t. /\ files \in TaskFiles /\ t \in 1..Len(line) /\ line \in Lines /\ LoopInv /\ ExitInv
      /\ i \in Nat \ {0} /\ line[t].redirects \in Seq(Redirect)
  BY JobFacts, LineFacts
<1>1. CASE PrepareTask
  <2>1. files'.out_rd_pipe = 0
    BY <1>1 DEF PrepareTask, StdFiles
  <2> QED
    BY <1>1, <2>1, PreparingKeeps DEF PrepareTask, children
<1>2. ASSUME NEW s \in Streams, NEW d \in -1..MaxFd, NextRedirect(s, d), pc = "populate"
      PROVE  JobInv'
  <2>1. files'.out_rd_pipe = files.out_rd_pipe
    BY <1>2, <1>t, KeepsReadEnd DEF NextRedirect
  <2>2. files.out_rd_pipe # 0 => Piped(line, t)
    BY <1>2, <1>t DEF LoopInv, InLoop, ExitInv, LoopLabels
  <2> QED
    BY <1>2, <2>1, <2>2, PreparingKeeps DEF NextRedirect, children
<1>3. CASE OpenRedirect
  <2>1. PICK s \in Streams, d \in Fd : NextRedirect(s, d) /\ pc = "populate"
    BY <1>3 DEF OpenRedirect, AtRedirect
  <2>2. d \in -1..MaxFd
    BY FdAssumption
  <2> QED BY <1>2, <2>1, <2>2
<1>4. CASE ShareRedirect
  <2>1. PICK s \in Streams, d \in -1..MaxFd : NextRedirect(s, d) /\ pc = "populate"
    BY <1>4, <1>t DEF ShareRedirect, AtRedirect, Streams, TaskFiles
  <2> QED BY <1>2, <2>1
<1>5. CASE StdinFromPipe
  <2>1. prev \in -1..MaxFd /\ "in" \in Streams
    BY JobFacts, FdAssumption DEF TypeOK, FilesType, Streams
  <2> QED BY <1>2, <1>5, <2>1 DEF StdinFromPipe, AtRedirect
<1>6. CASE StdoutToPipe
  <2>0. AtRedirect({"out"}, "pipe")
    BY <1>6 DEF StdoutToPipe
  <2>1. pc = "populate" /\ i \in 1..Len(Redirects)
        /\ Redirects[i].stream = "out" /\ Redirects[i].target = "pipe"
    BY <1>t, <2>0 DEF AtRedirect, Redirects
  <2>2. HasRedirect(line[t], "out", "pipe")
    BY <2>1 DEF HasRedirect, Redirects
  <2>3. t # Len(line)
    BY <1>t, <2>2, LineAssumption DEF IsLine
  <2>4. Piped(line, t)
    BY <2>2, <2>3, JobFacts DEF Piped
  <2> QED
    BY <1>6, <2>1, <2>4, PreparingKeeps DEF StdoutToPipe, children
<1> QED BY <1>1, <1>3, <1>4, <1>5, <1>6

(* The steps that lead to an error.                                         *)
LEMMA ErrorsKeep ==
  ASSUME JobInv, TypeOK',
         PrepareFails \/ OpenFails \/ StdoutToPipeFails \/ AddPidFails
  PROVE  JobInv'
<1>1. ExitError /\ UNCHANGED <<line, t, cst, cstat>>
  BY DEF PrepareFails, OpenFails, StdoutToPipeFails, AddPidFails, children
<1> QED BY <1>1, ErrorKeeps

(* The first task of a job is forked only after its predecessor has been    *)
(* reaped and its status looked at.                                         *)
LEMMA ForkKeeps ==
  ASSUME JobInv, TypeOK', Fork
  PROVE  JobInv'
<1>t. /\ LoopInv /\ ExitInv /\ DeadHaveStatus /\ RunIfHonoured /\ t \in Tid
      /\ line \in Lines /\ Len(line) \in Nat /\ 1..Len(line) \subseteq Tid
      /\ t \in 1..Len(line) /\ t \in Nat /\ Len(chain) \in Nat
      /\ cst \in [Tid -> ChildStates]
  BY JobFacts
<1>1. /\ pc = "populate" /\ pc' = "close_in" /\ pid' = t
      /\ cst' = [cst EXCEPT ![t] = "forked"]
      /\ UNCHANGED <<line, t, i, files, chain, stat, retval, exiting, cstat>>
  BY DEF Fork
<1>2. InLoop /\ ~exiting
  BY <1>t, <1>1 DEF ExitInv, InLoop, LoopLabels
<1>3. ChainHolds /\ MayStart /\ (files.out_rd_pipe # 0 => Piped(line, t))
  BY <1>t, <1>1, <1>2 DEF LoopInv
<1>4. cst'[t] = "forked" /\ \A c \in Tid : c # t => cst'[c] = cst[c]
  BY <1>t, <1>1
<1>5. /\ base' = base /\ reapedTo' = reapedTo /\ reapedTo = base
      /\ base = t - 1 - Len(chain) /\ forked = t - 1 /\ forked' = t
  BY <1>1 DEF base, reapedTo, forked, ForkLabels
<1>6. ChainHolds'
  <2>1. base' \in Nat /\ \A n \in 1..Len(chain') : chain'[n] = base' + n
    BY <1>1, <1>3, <1>5 DEF ChainHolds
  <2>2. ASSUME NEW c \in Tid
        PROVE  /\ c <= reapedTo' => cst'[c] = "reaped"
               /\ reapedTo' < c /\ c <= forked' => Unreaped(c)'
               /\ forked' < c => cst'[c] = "none"
    <3>1. CASE c = t
      BY <1>t, <1>4, <1>5, <3>1 DEF Unreaped
    <3>2. CASE c # t
      <4>1. cst'[c] = cst[c]
        BY <1>4, <3>2
      <4>2. c \in Nat /\ (c <= t => c <= t - 1)
        BY <1>t, <3>2, LineAssumption
      <4> QED
        BY <1>3, <1>5, <1>t, <4>1, <4>2 DEF ChainHolds, Unreaped
    <3> QED BY <3>1, <3>2
  <2> QED BY <2>1, <2>2 DEF ChainHolds
<1>7. LoopInv'
  BY <1>1, <1>3, <1>6 DEF LoopInv
<1>8. ExitInv' /\ DeadHaveStatus'
  BY <1>t, <1>1, <1>2, <1>4 DEF ExitInv, DeadHaveStatus
<1>9. RunIfHonoured'
  <2> SUFFICES ASSUME NEW c \in 2..Len(line), cst'[c] # "none", ~Piped(line, c - 1)
               PROVE  /\ \A k \in 1..(c - 1) : cst'[k] = "reaped"
                      /\ cstat[c - 1].kind = "exit"
                      /\ ~Refuses(line[c].run_if, cstat[c - 1].code)
    BY <1>1 DEF RunIfHonoured
  <2>1. CASE c = t
    <3>1. chain = <<>> /\ cstat[t - 1].kind = "exit" /\ ~Refuses(line[t].run_if, cstat[t - 1].code)
      BY <1>3, <2>1 DEF MayStart
    <3>2. reapedTo = t - 1
      BY <1>t, <1>5, <3>1
    <3>3. \A k \in 1..(t - 1) : k \in Tid /\ k # t /\ k <= reapedTo
      BY <1>t, <3>2
    <3>4. \A k \in 1..(t - 1) : cst'[k] = "reaped"
      BY <1>3, <1>4, <3>3 DEF ChainHolds
    <3> QED BY <2>1, <3>1, <3>4
  <2>2. CASE c # t
    <3>1. c \in Tid /\ cst[c] # "none"
      BY <1>t, <1>4, <2>2
    <3>2. /\ \A k \in 1..(c - 1) : cst[k] = "reaped"
          /\ cstat[c - 1].kind = "exit"
          /\ ~Refuses(line[c].run_if, cstat[c - 1].code)
      BY <1>t, <3>1 DEF RunIfHonoured
    <3>3. \A k \in 1..(c - 1) : k \in Tid
      BY <1>t
    <3>4. cst[t] # "reaped"
      <4>1. t > reapedTo /\ forked < t
        BY <1>t, <1>5
      <4>2. cst[t] = "none"
        BY <1>t, <1>3, <4>1 DEF ChainHolds
      <4> QED BY <4>2
    <3> QED BY <1>4, <3>2, <3>3, <3>4
  <2> QED BY <2>1, <2>2
<1> QED BY <1>7, <1>8, <1>9 DEF JobInv

(* Closing descriptors moves on to the next statement and changes none of   *)
(* what the invariant speaks of.                                            *)
LEMMA ClosingKeeps ==
  ASSUME JobInv, TypeOK', CloseIn \/ CloseOut \/ CloseErr
  PROVE  JobInv'
<1>t. LoopInv /\ ExitInv /\ files \in TaskFiles
  BY JobFacts
<1>1. PICK s \in Streams, next \in {"close_out", "close_err", "chain", "free"} :
        /\ CloseOne(s, next)
        /\ next = "free" => exiting
        /\ next = "chain" => ~exiting
  BY DEF CloseIn, CloseOut, CloseErr, Streams
<1>2. /\ pc \in {"close_in", "close_out", "close_err"} /\ pc' = next
      /\ UNCHANGED <<line, t, i, pid, chain, stat, retval, exiting, cst, cstat>>
  BY <1>1 DEF CloseIn, CloseOut, CloseErr, CloseOne, children
<1>3. files'.out_rd_pipe = files.out_rd_pipe
  <2>1. StdFiles[s] \in -1..MaxFd
    BY FdAssumption DEF StdFiles, Streams
  <2>2. files' = files \/ files' = [files EXCEPT ![s] = StdFiles[s]]
    BY <1>1 DEF CloseOne, AfterClose
  <2>3. CASE files' = [files EXCEPT ![s] = StdFiles[s]]
    BY <1>t, <2>1, <2>3, KeepsReadEnd
  <2> QED BY <2>2, <2>3
<1>4. CASE exiting
  <2>1. LoopInv'
    BY <1>2, <1>4 DEF LoopInv, InLoop
  <2>2. ExitInv'
    BY <1>t, <1>1, <1>2, <1>4 DEF ExitInv
  <2> QED BY <1>2, <2>1, <2>2 DEF JobInv, DeadHaveStatus, RunIfHonoured
<1>5. CASE ~exiting
  <2>1. next # "free" /\ pc' \in {"close_out", "close_err", "chain"}
    BY <1>1, <1>2, <1>5
  <2>2. ChainHolds /\ pid = t /\ (files.out_rd_pipe # 0 => Piped(line, t))
    BY <1>t, <1>2, <1>5 DEF LoopInv, InLoop, LoopLabels, ForkLabels
  <2>3. ChainHolds'
    BY <1>2, <2>1, <2>2 DEF ChainHolds, base, forked, reapedTo, Unreaped, ForkLabels
  <2>4. LoopInv'
    BY <1>2, <1>3, <2>1, <2>2, <2>3 DEF LoopInv
  <2>5. ExitInv'
    BY <1>2, <1>5, <2>1 DEF ExitInv
  <2> QED BY <1>2, <2>4, <2>5 DEF JobInv, DeadHaveStatus, RunIfHonoured
<1> QED BY <1>4, <1>5, <1>t, JobFacts

(* A task that pipes into the next is not waited for.                       *)
LEMMA AddPidKeeps ==
  ASSUME JobInv, TypeOK', AddPid
  PROVE  JobInv'
<1>t. /\ LoopInv /\ ExitInv /\ DeadHaveStatus /\ RunIfHonoured
      /\ t \in 1..Len(line) /\ t \in Nat /\ Len(line) \in Nat
      /\ chain \in Seq(Int) /\ Len(chain) \in Nat /\ files.out_rd_pipe \in Nat
  BY JobFacts
<1>1. /\ pc = "chain" /\ chain' = Append(chain, pid)
      /\ UNCHANGED <<line, files, pid, stat, cst, cstat>>
      /\ IF files.out_rd_pipe = 0
         THEN pc' = "wait" /\ i' = 1 /\ UNCHANGED <<t, retval, exiting>>
         ELSE NextTask(retval) /\ UNCHANGED i
  BY DEF AddPid, ShouldWait, children
<1>2. InLoop /\ ~exiting
  BY <1>t, <1>1 DEF ExitInv, InLoop, LoopLabels
<1>3. ChainHolds /\ pid = t /\ (files.out_rd_pipe # 0 => Piped(line, t))
  BY <1>t, <1>1, <1>2 DEF LoopInv, ForkLabels
<1>4. base = t - 1 - Len(chain) /\ reapedTo = base /\ forked = t
  BY <1>1 DEF base, reapedTo, forked, ForkLabels
<1>5. /\ Len(chain') = Len(chain) + 1
      /\ \A n \in 1..Len(chain) : chain'[n] = chain[n]
      /\ chain'[Len(chain) + 1] = t
  BY <1>t, <1>1, <1>3
<1>6. \A n \in 1..Len(chain') : chain'[n] = base + n
  <2> SUFFICES ASSUME NEW n \in 1..Len(chain') PROVE chain'[n] = base + n
    OBVIOUS
  <2>1. CASE n <= Len(chain)
    BY <1>t, <1>3, <1>5, <2>1 DEF ChainHolds
  <2>2. CASE ~(n <= Len(chain))
    BY <1>t, <1>4, <1>5, <2>2
  <2> QED BY <2>1, <2>2
<1>7. CASE files.out_rd_pipe = 0
  <2>1. pc' = "wait" /\ i' = 1 /\ UNCHANGED <<t, retval, exiting>>
    BY <1>1, <1>7
  <2>2. base' = base /\ reapedTo' = reapedTo /\ forked' = forked
    BY <1>t, <1>4, <1>5, <2>1 DEF base, reapedTo, forked, ForkLabels
  <2>3. ChainHolds'
    BY <1>1, <1>3, <1>6, <2>2 DEF ChainHolds, Unreaped
  <2>4. Waiting'
    BY <1>t, <1>5, <2>1 DEF Waiting
  <2>5. LoopInv'
    BY <1>1, <1>3, <2>1, <2>3, <2>4 DEF LoopInv, ForkLabels
  <2>6. ExitInv'
    BY <1>2, <2>1 DEF ExitInv
  <2> QED BY <1>1, <2>5, <2>6 DEF JobInv, DeadHaveStatus, RunIfHonoured
<1>8. CASE files.out_rd_pipe # 0
  <2>1. Piped(line, t) /\ t < Len(line)
    BY <1>3, <1>8 DEF Piped
  <2>2. t' = t + 1 /\ pc' = "prep" /\ UNCHANGED <<retval, exiting, i>>
    BY <1>1, <1>8, <2>1 DEF NextTask
  <2>3. base' = base /\ reapedTo' = reapedTo /\ forked' = forked
    BY <1>t, <1>4, <1>5, <2>2 DEF base, reapedTo, forked, ForkLabels
  <2>4. ChainHolds'
    BY <1>1, <1>3, <1>6, <2>3 DEF ChainHolds, Unreaped
  <2>5. MayStart'
    <3>1. t' - 1 = t
      BY <1>t, <2>2
    <3> QED BY <1>1, <2>1, <3>1 DEF MayStart
  <2>6. LoopInv'
    BY <2>2, <2>4, <2>5 DEF LoopInv, ForkLabels
  <2>7. ExitInv'
    BY <1>2, <2>2 DEF ExitInv
  <2> QED BY <1>1, <2>6, <2>7 DEF JobInv, DeadHaveStatus, RunIfHonoured
<1> QED BY <1>7, <1>8

(* waitpid is called for the children of the job in order, each of which is *)
(* there and has not been reaped: it can only be interrupted.               *)
LEMMA WaitPidKeeps ==
  ASSUME JobInv, TypeOK', WaitPid
  PROVE  /\ JobInv'
         /\ "eintr" \notin Env => pc' # "aborted"
<1>t. /\ LoopInv /\ ExitInv /\ DeadHaveStatus /\ RunIfHonoured
      /\ line \in Lines /\ 1..Len(line) \subseteq Tid
      /\ t \in 1..Len(line) /\ t \in Nat /\ Len(line) \in Nat /\ i \in Nat \ {0}
      /\ chain \in Seq(Int) /\ Len(chain) \in Nat
      /\ cst \in [Tid -> ChildStates]
  BY JobFacts
<1>1. /\ pc = "wait" /\ i <= Len(chain)
      /\ UNCHANGED <<line, t, files, pid, chain, retval, exiting, cstat>>
  BY DEF WaitPid
<1>2. InLoop /\ ~exiting
  BY <1>t, <1>1 DEF ExitInv, InLoop, LoopLabels
<1>3. ChainHolds /\ Waiting
  BY <1>t, <1>1, <1>2 DEF LoopInv
<1>4. /\ base = t - Len(chain) /\ reapedTo = base + i - 1 /\ forked = t
      /\ base \in Nat
  BY <1>1, <1>3 DEF base, reapedTo, forked, ForkLabels, ChainHolds
<1> DEFINE p == chain[i]
<1>5. p = base + i /\ p \in 1..t /\ p \in Tid /\ p # -1 /\ p # 0
  <2>1. p = base + i
    BY <1>t, <1>1, <1>3 DEF ChainHolds
  <2>2. p \in 1..t
    BY <1>t, <1>1, <1>4, <2>1
  <2> QED BY <1>t, <2>1, <2>2
<1>6. Unreaped(p)
  BY <1>t, <1>3, <1>4, <1>5 DEF ChainHolds
<1>7. PICK r \in WaitOutcomes(p) :
        /\ IF r.child \in Tid
           THEN cst' = [cst EXCEPT ![r.child] = "reaped"] /\ stat' = NewStat(r.child)
           ELSE UNCHANGED <<cst, stat>>
        /\ IF r.ret = p
           THEN i' = i + 1 /\ UNCHANGED pc
           ELSE pc' = "aborted" /\ UNCHANGED i
  BY DEF WaitPid, AsExpected
<1>8. \/ r = [ret |-> p, child |-> p] /\ cst[p] = "zombie"
      \/ r = [ret |-> -1, child |-> 0] /\ "eintr" \in Env
  <2> DEFINE waitable == {c \in Tid : Unreaped(c) /\ p \in {c, -1}}
             zombies  == {c \in waitable : cst[c] = "zombie"}
             failed   == [ret |-> -1, child |-> 0]
  <2>1. waitable = {p}
    BY <1>5, <1>6
  <2>2. r \in {[ret |-> c, child |-> c] : c \in zombies}
               \cup (IF waitable = {} THEN {failed} ELSE {})
               \cup (IF zombies = {} /\ "eintr" \in Env THEN {failed} ELSE {})
    BY <1>5 DEF WaitOutcomes
  <2>3. r \in {[ret |-> c, child |-> c] : c \in zombies} \/ (r = failed /\ "eintr" \in Env)
    BY <2>1, <2>2
  <2>4. \A c \in zombies : c = p /\ cst[p] = "zombie"
    BY <2>1
  <2> HIDE DEF waitable, zombies
  <2> QED BY <2>3, <2>4
<1>9. CASE r = [ret |-> -1, child |-> 0] /\ "eintr" \in Env
  <2>1. UNCHANGED <<cst, stat>> /\ pc' = "aborted"
    BY <1>5, <1>7, <1>9
  <2>2. LoopInv' /\ ExitInv'
    BY <1>1, <1>2, <2>1 DEF LoopInv, ExitInv, InLoop, LoopLabels
  <2> QED BY <1>1, <1>9, <2>1, <2>2 DEF JobInv, DeadHaveStatus, RunIfHonoured
<1>10. CASE r = [ret |-> p, child |-> p] /\ cst[p] = "zombie"
  <2>1. /\ cst' = [cst EXCEPT ![p] = "reaped"] /\ stat' = cstat[p]
        /\ i' = i + 1 /\ pc' = "wait"
    BY <1>1, <1>5, <1>7, <1>10 DEF NewStat
  <2>2. cst'[p] = "reaped" /\ \A c \in Tid : c # p => cst'[c] = cst[c]
    BY <1>t, <1>5, <2>1
  <2>3. base' = base /\ reapedTo' = p /\ forked' = t /\ reapedTo = p - 1
    BY <1>t, <1>1, <1>4, <1>5, <2>1 DEF base, reapedTo, forked, ForkLabels
  <2>4. ChainHolds'
    <3>1. base' \in Nat /\ \A n \in 1..Len(chain') : chain'[n] = base' + n
      BY <1>1, <1>3, <2>3 DEF ChainHolds
    <3>2. ASSUME NEW c \in Tid
          PROVE  /\ c <= reapedTo' => cst'[c] = "reaped"
                 /\ reapedTo' < c /\ c <= forked' => Unreaped(c)'
                 /\ forked' < c => cst'[c] = "none"
      <4>1. CASE c = p
        BY <1>5, <1>t, <2>2, <2>3, <4>1
      <4>2. CASE c # p
        <5>1. cst'[c] = cst[c]
          BY <2>2, <4>2
        <5>2. c \in Nat /\ (c <= p => c <= p - 1) /\ (p < c => p - 1 < c)
          BY <1>5, <1>t, <4>2, LineAssumption
        <5> QED
          BY <1>3, <1>4, <2>3, <5>1, <5>2 DEF ChainHolds, Unreaped
      <4> QED BY <4>1, <4>2
    <3> QED BY <3>1, <3>2 DEF ChainHolds
  <2>5. Waiting'
    <3>1. base' + i' - 1 = p /\ i' \in 1..(Len(chain') + 1) /\ chain' # <<>>
      BY <1>t, <1>1, <1>3, <1>4, <1>5, <2>1, <2>3 DEF Waiting
    <3> QED BY <1>1, <2>1, <3>1 DEF Waiting
  <2>6. LoopInv'
    BY <1>t, <1>1, <1>2, <2>1, <2>4, <2>5 DEF LoopInv, ForkLabels
  <2>7. ExitInv'
    BY <1>1, <1>2, <2>1 DEF ExitInv
  <2>8. DeadHaveStatus'
    BY <1>t, <1>1, <1>5, <1>10, <2>2 DEF DeadHaveStatus
  <2>9. RunIfHonoured'
    <3> SUFFICES ASSUME NEW c \in 2..Len(line), cst'[c] # "none", ~Piped(line, c - 1)
                 PROVE  /\ \A k \in 1..(c - 1) : cst'[k] = "reaped"
                        /\ cstat[c - 1].kind = "exit"
                        /\ ~Refuses(line[c].run_if, cstat[c - 1].code)
      BY <1>1 DEF RunIfHonoured
    <3>1. c \in Tid /\ cst[c] # "none"
      BY <1>t, <1>10, <2>2
    <3>2. /\ \A k \in 1..(c - 1) : cst[k] = "reaped"
          /\ cstat[c - 1].kind = "exit"
          /\ ~Refuses(line[c].run_if, cstat[c - 1].code)
      BY <1>t, <3>1 DEF RunIfHonoured
    <3>3. \A k \in 1..(c - 1) : k \in Tid
      BY <1>t
    <3> QED BY <2>2, <3>2, <3>3
  <2> QED BY <2>1, <2>6, <2>7, <2>8, <2>9 DEF JobInv
<1> QED BY <1>8, <1>9, <1>10

(* The last child of the job has been reaped and decides what comes next.   *)
LEMMA DecideKeeps ==
  ASSUME JobInv, TypeOK', Decide
  PROVE  JobInv'
<1>t. /\ LoopInv /\ ExitInv /\ DeadHaveStatus /\ RunIfHonoured
      /\ line \in Lines /\ 1..Len(line) \subseteq Tid
      /\ t \in 1..Len(line) /\ t \in Tid /\ t \in Nat /\ Len(line) \in Nat /\ i \in Nat \ {0}
      /\ chain \in Seq(Int) /\ Len(chain) \in Nat
  BY JobFacts
<1>1. /\ pc = "wait" /\ i > Len(chain) /\ chain' = <<>>
      /\ UNCHANGED <<line, i, files, pid, stat, cst, cstat>>
  BY DEF Decide, Cleared, children
<1>2. InLoop /\ ~exiting
  BY <1>t, <1>1 DEF ExitInv, InLoop, LoopLabels
<1>3. ChainHolds /\ Waiting
  BY <1>t, <1>1, <1>2 DEF LoopInv
<1>4. i = Len(chain) + 1 /\ i > 1
  BY <1>t, <1>1, <1>3 DEF Waiting
<1>5. reapedTo = t /\ forked = t /\ base + i - 1 = t
  BY <1>t, <1>1, <1>4 DEF base, reapedTo, forked, ForkLabels
<1>6. /\ \A c \in Tid : (c <= t => cst[c] = "reaped") /\ (t < c => cst[c] = "none")
      /\ stat = cstat[t]
  BY <1>3, <1>4, <1>5 DEF ChainHolds, Waiting
<1>7. cstat[t] \in Statuses
  BY <1>t, <1>6 DEF DeadHaveStatus
<1>8. stat \in Statuses /\ stat # NoStatus
  BY <1>6, <1>7 DEF Statuses, NoStatus, Exited, Killed
<1>9. /\ stat.kind = "signal" => ExitError /\ UNCHANGED t
      /\ stat.kind # "signal" =>
           IF StopsLoop(t, stat.code) THEN LeaveLoop(stat.code) /\ UNCHANGED t
                                      ELSE NextTask(stat.code)
  <2>1. CASE stat.kind = "signal"
    BY <1>8, <2>1 DEF Decide
  <2>2. CASE stat.kind # "signal"
    <3>1. stat.kind = "exit"
      BY <1>8, <2>2, StatusFacts
    <3> QED BY <1>8, <2>2, <3>1 DEF Decide
  <2> QED BY <2>1, <2>2
<1>10. CASE stat.kind = "signal"
  BY <1>1, <1>9, <1>10, ErrorKeeps
<1>11. ASSUME stat.kind # "signal", LeaveLoop(stat.code), UNCHANGED t
       PROVE  JobInv'
  <2>1. exiting' = TRUE /\ retval' = stat.code /\ pc' = "close_in"
    BY <1>11 DEF LeaveLoop
  <2>2. cstat[t] = Exited(stat.code)
    BY <1>6, <1>8, <1>11 DEF Statuses, Exited, Killed
  <2>3. LoopInv' /\ ExitInv'
    BY <1>1, <1>6, <1>11, <2>1, <2>2 DEF LoopInv, InLoop, ExitInv
  <2> QED BY <1>1, <2>3 DEF JobInv, DeadHaveStatus, RunIfHonoured
<1>12. ASSUME stat.kind # "signal", ~StopsLoop(t, stat.code), t < Len(line),
              NextTask(stat.code)
       PROVE  JobInv'
  <2>1. t' = t + 1 /\ pc' = "prep" /\ UNCHANGED exiting
    BY <1>12 DEF NextTask
  <2>2. base' = t /\ reapedTo' = t /\ forked' = t /\ Len(chain') = 0 /\ t' - 1 = t
    BY <1>t, <1>1, <2>1 DEF base, reapedTo, forked, ForkLabels
  <2>3. ChainHolds'
    BY <1>t, <1>1, <1>6, <2>2 DEF ChainHolds
  <2>4. MayStart'
    <3>1. ~Refuses(line[t + 1].run_if, cstat[t].code)
      BY <1>6, <1>12 DEF StopsLoop
    <3>2. cstat[t].kind = "exit"
      BY <1>6, <1>8, <1>12, StatusFacts
    <3> QED BY <1>1, <2>1, <2>2, <3>1, <3>2 DEF MayStart
  <2>5. LoopInv'
    BY <2>1, <2>3, <2>4 DEF LoopInv, ForkLabels
  <2>6. ExitInv'
    BY <1>2, <2>1 DEF ExitInv
  <2> QED BY <1>1, <2>5, <2>6 DEF JobInv, DeadHaveStatus, RunIfHonoured
<1>13. CASE stat.kind # "signal"
  <2>1. CASE StopsLoop(t, stat.code)
    BY <1>9, <1>11, <1>13, <2>1
  <2>2. CASE ~StopsLoop(t, stat.code)
    BY <1>9, <1>11, <1>12, <1>13, <2>2 DEF NextTask
  <2> QED BY <2>1, <2>2
<1> QED BY <1>10, <1>13

(* The first step, which only looks at the redirects, and the last.         *)
LEMMA EndsKeep ==
  ASSUME JobInv, TypeOK', CheckRedirects \/ Return
  PROVE  JobInv'
<1>t. LoopInv /\ ExitInv
  BY JobFacts
<1>1. CASE CheckRedirects
  <2>1. CASE RedirectsAreSane(line)
    BY <1>1, <2>1, PreparingKeeps DEF CheckRedirects, children
  <2>2. CASE ~RedirectsAreSane(line)
    BY <1>1, <2>2, ErrorKeeps DEF CheckRedirects, children
  <2> QED BY <2>1, <2>2
<1>2. CASE Return
  <2>1. /\ pc = "free" /\ pc' = "returned"
        /\ UNCHANGED <<line, t, retval, exiting, cst, cstat>>
    BY <1>2 DEF Return, children
  <2>2. exiting
    BY <1>t, <2>1 DEF ExitInv
  <2>3. LoopInv' /\ ExitInv'
    BY <1>t, <2>1, <2>2 DEF LoopInv, InLoop, ExitInv
  <2> QED BY <2>1, <2>3 DEF JobInv, DeadHaveStatus, RunIfHonoured
<1> QED BY <1>1, <1>2

----------------------------------------------------------------------------
(* The invariant holds when a call starts ...                               *)
LEMMA InitJob == Init => JobInv
<1> SUFFICES ASSUME Init PROVE JobInv
  OBVIOUS
<1>1. /\ TypeOK /\ pc = "sane" /\ t = 1 /\ chain = <<>> /\ ~exiting /\ retval = -1
      /\ cst = [c \in Tid |-> "none"]
  BY InitTypeOK DEF Init
<1>2. base = 0 /\ reapedTo = 0 /\ forked = 0
  <2>1. Len(chain) = 0
    BY <1>1
  <2>2. t = 1 /\ pc # "wait" /\ pc \notin ForkLabels
    BY <1>1 DEF ForkLabels
  <2> QED BY <2>1, <2>2 DEF base, reapedTo, forked
<1>3. LoopInv
  BY <1>1, <1>2, LineAssumption DEF LoopInv, ChainHolds, MayStart, ForkLabels
<1>4. ExitInv
  BY <1>1 DEF ExitInv
<1>5. DeadHaveStatus
  BY <1>1 DEF DeadHaveStatus
<1>6. RunIfHonoured
  <2>1. line \in Lines /\ 1..Len(line) \subseteq Tid /\ Len(line) \in Nat
    BY LineFacts DEF Init
  <2>2. \A c \in 2..Len(line) : cst[c] = "none"
    BY <1>1, <2>1
  <2> QED BY <2>2 DEF RunIfHonoured
<1> QED BY <1>1, <1>3, <1>4, <1>5, <1>6 DEF JobInv

(* ... and every step keeps it, unless fork fails.                          *)
LEMMA StepJob ==
  ASSUME JobInv, ~ForkFails, [Next]_vars
  PROVE  /\ JobInv'
         /\ "eintr" \notin Env /\ pc # "aborted" => pc' # "aborted"
<1>1. TypeOK'
  BY StepTypeOK DEF JobInv
<1>2. CASE Parent
  <2>1. ~ForkFails
    OBVIOUS
  <2>2. CASE WaitPid
    BY <1>1, <2>2, WaitPidKeeps
  <2>3. CASE ~WaitPid
    <3>1. JobInv'
      BY <1>1, <1>2, <2>1, <2>3, RedirectsKeep, ErrorsKeep, ForkKeeps, ClosingKeeps,
         AddPidKeeps, DecideKeeps, EndsKeep DEF Parent
    <3>2. pc' # "aborted" \/ UNCHANGED pc
      <4>1. CASE CheckRedirects \/ PrepareTask \/ PrepareFails \/ OpenFails
                   \/ StdoutToPipe \/ StdoutToPipeFails \/ Fork \/ AddPidFails \/ Return
        BY <4>1 DEF CheckRedirects, PrepareTask, PrepareFails, OpenFails, StdoutToPipe,
                    StdoutToPipeFails, Fork, AddPidFails, Return, ExitError, LeaveLoop
      <4>2. CASE OpenRedirect \/ ShareRedirect \/ StdinFromPipe
        BY <4>2 DEF OpenRedirect, ShareRedirect, StdinFromPipe, NextRedirect
      <4>3. CASE CloseIn \/ CloseOut \/ CloseErr
        BY <4>3 DEF CloseIn, CloseOut, CloseErr, CloseOne
      <4>4. CASE AddPid
        BY <4>4 DEF AddPid, NextTask, LeaveLoop
      <4>5. CASE Decide
        BY <4>5 DEF Decide, NextTask, ExitError, LeaveLoop
      <4> QED BY <1>2, <2>1, <2>3, <4>1, <4>2, <4>3, <4>4, <4>5 DEF Parent
    <3> QED BY <3>1, <3>2
  <2> QED BY <2>2, <2>3
<1>3. ASSUME NEW c \in Tid, Child(c)
      PROVE  JobInv' /\ UNCHANGED pc
  <2>1. JobInv'
    BY <1>3, ChildKeeps
  <2>2. UNCHANGED pc
    BY <1>3, ChildMoves DEF JobInv
  <2> QED BY <2>1, <2>2
<1>4. CASE HostOpens \/ Over \/ UNCHANGED vars
  <2>1. UNCHANGED <<pc, locals, cst, cstat>>
    BY <1>4 DEF HostOpens, Over, vars, children
  <2> QED BY <1>1, <2>1, JobFrame
<1> QED BY <1>2, <1>3, <1>4 DEF Next

(* In every call in which fork does not fail, whatever else does, a job is  *)
(* started only after every task before it has been reaped, the last of     *)
(* them has exited, and its exit code lets the job run.                     *)
THEOREM JobsRunInOrder ==
  ASSUME "fork" \notin Env
  PROVE  Spec => []RunIfHonoured
<1>1. Init => JobInv
  BY InitJob
<1>2. JobInv /\ [Next]_vars => JobInv'
  BY StepJob DEF ForkFails
<1>3. JobInv => RunIfHonoured
  BY DEF JobInv
<1> QED BY <1>1, <1>2, <1>3, PTL DEF Spec

(* A task that the loop has passed was never forked: from now on nothing    *)
(* is said of the call.                                                    *)
Early    == {"sane", "prep", "populate"}
LostFork == \E c \in 1..t : cst[c] = "none" /\ (c < t \/ pc \notin Early)

(* That stays so: the loop only goes forward.                               *)
LEMMA LostForkStays ==
  ASSUME TypeOK, LostFork, [Next]_vars
  PROVE  LostFork'
<1>t. line \in Lines /\ 1..Len(line) \subseteq Tid /\ t \in 1..Len(line) /\ Len(line) \in Nat
      /\ t \in Nat /\ cst \in [Tid -> ChildStates] /\ pc \in Labels
  BY LineFacts DEF TypeOK, LoopType, ChildType
<1>p. PICK c \in 1..t : cst[c] = "none" /\ (c < t \/ pc \notin Early)
  BY DEF LostFork
<1>c. c \in Tid /\ c \in Nat
  BY <1>t
<1>1. SUFFICES /\ cst'[c] = "none"
               /\ \/ t' = t /\ (c < t \/ pc' \notin Early)
                  \/ t' = t + 1
  BY <1>t, <1>p, <1>1 DEF LostFork
<1>2. CASE UNCHANGED <<pc, t, cst>>
  BY <1>p, <1>2
<1>3. CASE CheckRedirects \/ PrepareTask \/ PrepareFails \/ OpenFails
             \/ StdoutToPipe \/ StdoutToPipeFails \/ ForkFails
  BY <1>p, <1>3 DEF CheckRedirects, PrepareTask, PrepareFails, OpenFails, StdoutToPipe,
                    StdoutToPipeFails, ForkFails, ExitError, LeaveLoop, children, Early
<1>4. CASE OpenRedirect \/ ShareRedirect \/ StdinFromPipe
  BY <1>p, <1>4 DEF OpenRedirect, ShareRedirect, StdinFromPipe, AtRedirect, NextRedirect,
                    children, Early
<1>5. CASE Fork
  <2>1. pc = "populate" /\ c # t
    BY <1>p, <1>5 DEF Fork, Early
  <2> QED BY <1>t, <1>p, <1>c, <1>5, <2>1 DEF Fork
<1>6. CASE CloseIn \/ CloseOut \/ CloseErr
  BY <1>p, <1>6 DEF CloseIn, CloseOut, CloseErr, CloseOne, children, Early
<1>7. CASE AddPid \/ AddPidFails
  BY <1>p, <1>7 DEF AddPid, AddPidFails, NextTask, LeaveLoop, ExitError, children, Early
<1>8. CASE WaitPid
  <2>1. PICK r \in WaitOutcomes(chain[i]) :
          /\ IF r.child \in Tid THEN cst' = [cst EXCEPT ![r.child] = "reaped"]
                               ELSE UNCHANGED cst
          /\ pc' = pc \/ pc' = "aborted"
    BY <1>8 DEF WaitPid
  <2>2. r.child \in Tid => Unreaped(r.child)
    BY <2>1 DEF WaitOutcomes
  <2>3. cst'[c] = "none"
    BY <1>t, <1>p, <1>c, <2>1, <2>2 DEF Unreaped
  <2> QED BY <1>p, <1>8, <2>1, <2>3 DEF WaitPid, Early
<1>9. CASE Decide
  BY <1>p, <1>9 DEF Decide, NextTask, LeaveLoop, ExitError, children, Early
<1>10. CASE Return
  BY <1>p, <1>10 DEF Return, children, Early
<1>11. ASSUME NEW d \in Tid, Child(d)
       PROVE  cst'[c] = "none" /\ UNCHANGED <<pc, t>>
  BY <1>c, <1>p, <1>11, ChildMoves DEF locals
<1>12. CASE HostOpens \/ Over
  BY <1>p, <1>12 DEF HostOpens, Over, vars, locals, children
<1> QED
  BY <1>p, <1>2, <1>3, <1>4, <1>5, <1>6, <1>7, <1>8, <1>9, <1>10, <1>11, <1>12
  DEF Next, Parent, vars, locals, children

(* Either a fork has failed or the invariant of the job holds.              *)
OrderedOrLost == TypeOK /\ (LostFork \/ JobInv)

LEMMA OrderedOrLostStep == OrderedOrLost /\ [Next]_vars => OrderedOrLost'
<1> SUFFICES ASSUME OrderedOrLost, [Next]_vars PROVE OrderedOrLost'
  OBVIOUS
<1>1. TypeOK /\ TypeOK'
  BY StepTypeOK DEF OrderedOrLost
<1>2. CASE LostFork
  BY <1>1, <1>2, LostForkStays DEF OrderedOrLost
<1>3. CASE JobInv /\ ~ForkFails
  BY <1>1, <1>3, StepJob DEF OrderedOrLost
<1>4. CASE JobInv /\ ForkFails
  <2>1. pc = "populate" /\ pc' = "close_in" /\ UNCHANGED <<t, cst>>
    BY <1>4 DEF ForkFails, children
  <2>2. ChainHolds /\ t \in Tid /\ t \in Nat /\ t >= 1
    BY <1>4, <2>1, JobFacts, LineFacts DEF LoopInv, InLoop, ExitInv, LoopLabels
  <2>3. forked < t
    BY <2>1, <2>2 DEF forked, ForkLabels
  <2>4. cst[t] = "none"
    BY <2>2, <2>3 DEF ChainHolds
  <2>5. LostFork'
    BY <2>1, <2>2, <2>4 DEF LostFork, Early
  <2> QED BY <1>1, <2>5 DEF OrderedOrLost
<1> QED BY <1>2, <1>3, <1>4 DEF OrderedOrLost

(* A return value other than -1 is the exit code of the last task that was  *)
(* run, and no child is left behind, in every call in which no fork has     *)
(* failed, whatever else happens.                                          *)
THEOREM ReturnsLastStatus == Spec => []StatusIsOfLastChild
<1>1. Init => OrderedOrLost
  BY InitJob DEF OrderedOrLost, JobInv
<1>2. OrderedOrLost /\ [Next]_vars => OrderedOrLost'
  BY OrderedOrLostStep
<1>3. OrderedOrLost => StatusIsOfLastChild
  <2> SUFFICES ASSUME OrderedOrLost, Ended, retval # -1, \A c \in 1..t : cst[c] # "none"
               PROVE  /\ \A c \in Tid : ~Unreaped(c)
                      /\ cstat[t] = Exited(retval)
                      /\ \A c \in Tid : c > t => cst[c] = "none"
    BY DEF StatusIsOfLastChild
  <2>0. JobInv
    BY DEF OrderedOrLost, LostFork
  <2>1. /\ cstat[t] = Exited(retval)
        /\ \A c \in Tid : (c <= t => cst[c] = "reaped") /\ (t < c => cst[c] = "none")
    BY <2>0, JobFacts DEF Ended, ExitInv
  <2>2. \A c \in Tid : c <= t \/ t < c
    BY <2>0, JobFacts, LineAssumption
  <2> QED BY <2>1, <2>2 DEF Unreaped
<1> QED BY <1>1, <1>2, <1>3, PTL DEF Spec

(* If no handler interrupts waitpid either, the assertion on its result     *)
(* (pid-chain.c) never fires: the pids of the chain are always children     *)
(* that are there to be waited for.                                         *)
THEOREM WaitNeverFails ==
  ASSUME "fork" \notin Env, "eintr" \notin Env
  PROVE  Spec => []NeverAborts
<1>1. Init => JobInv /\ NeverAborts
  BY InitJob DEF Init, NeverAborts
<1>2. JobInv /\ NeverAborts /\ [Next]_vars => JobInv' /\ NeverAborts'
  BY StepJob DEF NeverAborts, ForkFails
<1> QED BY <1>1, <1>2, PTL DEF Spec

----------------------------------------------------------------------------
(* The call implements the abstract job control.                            *)

(* Two tasks joined by a pipe are in one job.                               *)
LEMMA JobAcrossPipe ==
  ASSUME NEW l, Len(l) \in Nat, NEW k \in 1..(Len(l) - 1), Piped(l, k)
  PROVE  Job(l, k + 1) = Job(l, k)
<1> SUFFICES ASSUME NEW j \in 1..Len(l)
             PROVE  (/\ \A m \in j..(k + 1 - 1) : Piped(l, m)
                     /\ \A m \in (k + 1)..(j - 1) : Piped(l, m))
                    <=> (/\ \A m \in j..(k - 1) : Piped(l, m)
                         /\ \A m \in k..(j - 1) : Piped(l, m))
  BY DEF Job
<1>1. k + 1 - 1 = k
  OBVIOUS
<1>2. \A m \in j..k : m = k \/ m \in j..(k - 1)
  OBVIOUS
<1>3. \A m \in k..(j - 1) : m = k \/ m \in (k + 1)..(j - 1)
  OBVIOUS
<1>4. j..(k - 1) \subseteq j..k /\ (k + 1)..(j - 1) \subseteq k..(j - 1)
  OBVIOUS
<1> QED BY <1>1, <1>2, <1>3, <1>4

(* A job is the same seen from each of its tasks.                           *)
LEMMA JobSeenFromEach ==
  ASSUME NEW l, Len(l) \in Nat, NEW k \in 1..Len(l), NEW f \in Job(l, k)
  PROVE  Job(l, f) = Job(l, k)
<1>1. /\ f \in 1..Len(l)
      /\ \A m \in f..(k - 1) : Piped(l, m)
      /\ \A m \in k..(f - 1) : Piped(l, m)
  BY DEF Job
<1>2. ASSUME NEW j \in Job(l, k) PROVE j \in Job(l, f)
  <2>1. /\ j \in 1..Len(l)
        /\ \A m \in j..(k - 1) : Piped(l, m)
        /\ \A m \in k..(j - 1) : Piped(l, m)
    BY DEF Job
  <2>2. \A m \in j..(f - 1) : m \in j..(k - 1) \/ m \in k..(f - 1)
    BY <1>1, <2>1
  <2>3. \A m \in f..(j - 1) : m \in f..(k - 1) \/ m \in k..(j - 1)
    BY <1>1, <2>1
  <2> QED BY <1>1, <2>1, <2>2, <2>3 DEF Job
<1>3. ASSUME NEW j \in Job(l, f) PROVE j \in Job(l, k)
  <2>1. /\ j \in 1..Len(l)
        /\ \A m \in j..(f - 1) : Piped(l, m)
        /\ \A m \in f..(j - 1) : Piped(l, m)
    BY DEF Job
  <2>2. \A m \in j..(k - 1) : m \in j..(f - 1) \/ m \in f..(k - 1)
    BY <1>1, <2>1
  <2>3. \A m \in k..(j - 1) : m \in f..(j - 1) \/ m \in k..(f - 1)
    BY <1>1, <2>1
  <2> QED BY <1>1, <2>1, <2>2, <2>3 DEF Job
<1> QED BY <1>2, <1>3

(* The abstract specification has the definitions of CommandLine for itself. *)
LEMMA SameJobs ==
  /\ \A l, k : JC!Job(l, k) = Job(l, k)
  /\ \A l, k : JC!JobFirst(l, k) = JobFirst(l, k)
  /\ \A l, k : JC!JobLast(l, k) = JobLast(l, k)
  /\ \A r, c : JC!Refuses(r, c) = Refuses(r, c)
<1>1. \A l, k : JC!Piped(l, k) <=> Piped(l, k)
  BY DEF JC!Piped, Piped, JC!HasRedirect, HasRedirect
<1>2. \A l, k : JC!Job(l, k) = Job(l, k)
  BY <1>1 DEF JC!Job, Job
<1>3. \A r, c : JC!Refuses(r, c) = Refuses(r, c)
  BY DEF JC!Refuses, Refuses
<1>4. \A l, k : JC!JobFirst(l, k) = JobFirst(l, k) /\ JC!JobLast(l, k) = JobLast(l, k)
  BY <1>2 DEF JC!JobFirst, JobFirst, JC!JobLast, JobLast
<1> QED BY <1>2, <1>3, <1>4

(* What the refinement needs beyond the order of the jobs: every child that  *)
(* has not been reaped belongs to the job at hand, which has a first task,  *)
(* and a child has no status before it ends.                               *)
ChildrenOfJob == \A c \in Tid : Unreaped(c) => c \in Job(line, t)
JobHasFirst   == \E f \in Job(line, t) : \A m \in Job(line, t) : f <= m
NoStatusYet   == \A c \in Tid : cst[c] \notin {"zombie", "reaped"} => cstat[c] = NoStatus

RefInv == JobInv /\ ChildrenOfJob /\ JobHasFirst /\ NoStatusYet

(* JobFirst chooses a task of the job.                                      *)
LEMMA FirstInJob ==
  ASSUME JobHasFirst
  PROVE  JobFirst(line, t) \in Job(line, t)
BY DEF JobHasFirst, JobFirst

(* A call starts where the abstract specification starts.                   *)
LEMMA InitRef == Init => RefInv /\ JC!Init
<1> SUFFICES ASSUME Init PROVE RefInv /\ JC!Init
  OBVIOUS
<1>1. /\ line \in Lines /\ t = 1 /\ exiting = FALSE
      /\ cst = [c \in Tid |-> "none"] /\ cstat = [c \in Tid |-> NoStatus]
  BY DEF Init
<1>2. JobInv
  BY InitJob
<1>3. Len(line) \in Nat /\ 1 \in 1..Len(line)
  BY <1>1, LineFacts
<1>4. 1 \in Job(line, t) /\ \A m \in Job(line, t) : m \in 1..Len(line)
  BY <1>1, <1>3, JobFromItself DEF Job
<1>5. \A m \in Job(line, t) : 1 <= m
  BY <1>3, <1>4
<1>6. JobHasFirst
  BY <1>4, <1>5 DEF JobHasFirst
<1>7. JobFirst(line, t) = 1
  <2>1. \A f \in Job(line, t) : (\A m \in Job(line, t) : f <= m) => f = 1
    BY <1>3, <1>4, <1>5
  <2> QED BY <1>4, <1>5, <2>1 DEF JobFirst
<1>8. ChildrenOfJob /\ NoStatusYet
  BY <1>1 DEF ChildrenOfJob, NoStatusYet, Unreaped
<1>9. JC!Init
  BY <1>1, <1>7 DEF JC!Init
<1> QED BY <1>2, <1>6, <1>8, <1>9 DEF RefInv

(* A step that the job control does not see: it stays in the job and         *)
(* settles nothing.                                                         *)
LEMMA UnseenStep ==
  ASSUME RefInv, JobInv', UNCHANGED <<line, cstat, exiting>>, exiting => UNCHANGED retval,
         Job(line, t)' = Job(line, t),
         \A c \in Tid : Unreaped(c)' => Unreaped(c) \/ c = t',
         \A c \in Tid : cst'[c] \notin {"zombie", "reaped"} => cst[c] \notin {"zombie", "reaped"}
  PROVE  RefInv' /\ UNCHANGED JC!vars
<1>1. JobFirst(line, t)' = JobFirst(line, t)
  BY DEF JobFirst
<1>2. UNCHANGED JC!vars
  BY <1>1 DEF JC!vars
<1>3. t' \in 1..Len(line')
  BY DEF JobInv, TypeOK, LoopType
<1>4. t' \in Job(line', t')
  BY <1>3, JobFromItself
<1>5. ChildrenOfJob'
  BY <1>4 DEF RefInv, ChildrenOfJob
<1>6. JobHasFirst' /\ NoStatusYet'
  BY DEF RefInv, JobHasFirst, NoStatusYet
<1> QED BY <1>2, <1>5, <1>6 DEF RefInv

(* Giving up is a step of its own in the job control.                       *)
LEMMA ErrorRefines ==
  ASSUME RefInv, JobInv', ~exiting, ExitError, UNCHANGED <<line, t, cst, cstat>>
  PROVE  RefInv' /\ JC!Next
<1>1. exiting' = TRUE /\ retval' = -1
  BY DEF ExitError, LeaveLoop
<1>2. Job(line, t)' = Job(line, t) /\ JobFirst(line, t)' = JobFirst(line, t)
  OBVIOUS
<1>3. JC!Fails
  BY <1>1, <1>2 DEF JC!Fails
<1>4. ChildrenOfJob' /\ JobHasFirst' /\ NoStatusYet'
  BY <1>2 DEF RefInv, ChildrenOfJob, JobHasFirst, NoStatusYet, Unreaped
<1> QED BY <1>3, <1>4 DEF JC!Next, RefInv

(* Going on to the task that reads from the pipe stays in the job.          *)
LEMMA NextInJob ==
  ASSUME RefInv, JobInv', Piped(line, t), t' = t + 1,
         UNCHANGED <<line, cst, cstat, exiting, retval>>
  PROVE  RefInv' /\ UNCHANGED JC!vars
<1>1. Len(line) \in Nat /\ t \in 1..(Len(line) - 1)
  BY JobFacts DEF RefInv, Piped
<1>2. Job(line, t + 1) = Job(line, t)
  BY <1>1, JobAcrossPipe
<1>3. Job(line, t)' = Job(line, t)
  BY <1>2
<1>4. \A c \in Tid : Unreaped(c)' => Unreaped(c)
  BY DEF Unreaped
<1> QED BY <1>3, <1>4, UnseenStep

(* The end of a job: the decision of the parent is that of the job control. *)
LEMMA DecideRefines ==
  ASSUME RefInv, JobInv', Decide
  PROVE  RefInv' /\ [JC!Next]_JC!vars
<1>t. /\ LoopInv /\ ExitInv /\ DeadHaveStatus
      /\ line \in Lines /\ 1..Len(line) \subseteq Tid
      /\ t \in 1..Len(line) /\ t \in Tid /\ t \in Nat /\ Len(line) \in Nat /\ i \in Nat \ {0}
      /\ chain \in Seq(Int) /\ Len(chain) \in Nat
  BY JobFacts DEF RefInv
<1>1. /\ pc = "wait" /\ i > Len(chain) /\ UNCHANGED <<line, cst, cstat>>
  BY DEF Decide, children
<1>2. ~exiting
  BY <1>t, <1>1 DEF ExitInv
<1>3. ChainHolds /\ Waiting
  BY <1>t, <1>1, <1>2 DEF LoopInv, InLoop, LoopLabels
<1>4. i = Len(chain) + 1 /\ i > 1
  BY <1>t, <1>1, <1>3 DEF Waiting
<1>5. reapedTo = t /\ forked = t /\ base + i - 1 = t
  BY <1>t, <1>1, <1>4 DEF base, reapedTo, forked, ForkLabels
<1>6. /\ \A c \in Tid : (c <= t => cst[c] = "reaped") /\ (t < c => cst[c] = "none")
      /\ stat = cstat[t]
  BY <1>3, <1>4, <1>5 DEF ChainHolds, Waiting
<1>7. \A c \in Tid : c <= t => cstat[c] \in Statuses /\ cstat[c] # NoStatus
  <2>1. \A s \in Statuses : s # NoStatus
    BY DEF Statuses, NoStatus, Exited, Killed
  <2> QED BY <1>t, <1>6, <2>1 DEF DeadHaveStatus
<1>8. stat \in Statuses /\ stat # NoStatus
  BY <1>t, <1>6, <1>7
<1>9. /\ stat.kind = "signal" => ExitError /\ UNCHANGED t
      /\ stat.kind # "signal" =>
           IF StopsLoop(t, stat.code) THEN LeaveLoop(stat.code) /\ UNCHANGED t
                                      ELSE NextTask(stat.code)
  <2>1. CASE stat.kind = "signal"
    BY <1>8, <2>1 DEF Decide
  <2>2. CASE stat.kind # "signal"
    <3>1. stat.kind = "exit"
      BY <1>8, <2>2, StatusFacts
    <3> QED BY <1>8, <2>2, <3>1 DEF Decide
  <2> QED BY <2>1, <2>2
<1>10. CASE stat.kind = "signal"
  BY <1>1, <1>2, <1>9, <1>10, ErrorRefines
<1>11. CASE stat.kind # "signal" /\ Piped(line, t)
  <2>1. t < Len(line) /\ line[t + 1].run_if = "always"
    BY <1>t, <1>11, LineAssumption DEF Piped, IsLine
  <2>2. ~StopsLoop(t, stat.code)
    BY <2>1 DEF StopsLoop, Refuses
  <2>3. t' = t + 1 /\ UNCHANGED exiting
    BY <1>9, <1>11, <2>1, <2>2 DEF NextTask
  <2>4. Job(line, t)' = Job(line, t)
    <3>1. t \in 1..(Len(line) - 1)
      BY <1>t, <2>1
    <3>2. Job(line, t + 1) = Job(line, t)
      BY <1>t, <1>11, <3>1, JobAcrossPipe
    <3> QED BY <1>1, <2>3, <3>2
  <2>5. \A c \in Tid : Unreaped(c)' => Unreaped(c)
    BY <1>1 DEF Unreaped
  <2> QED BY <1>1, <1>2, <2>3, <2>4, <2>5, UnseenStep
<1>12. CASE stat.kind # "signal" /\ ~Piped(line, t)
  <2> DEFINE first == JobFirst(line, t)
  <2>1. first \in Job(line, t) /\ Job(line, first) = Job(line, t)
    BY <1>t, FirstInJob, JobSeenFromEach DEF RefInv
  <2>2. \A j \in Job(line, t) : j <= t
    BY <1>t, <1>12, JobEndsHere
  <2>3. t \in Job(line, t)
    BY <1>t, JobFromItself
  <2>4. JobLast(line, first) = t
    <3>1. \A j \in Job(line, t) : j \in Nat
      BY DEF Job
    <3>2. \A j \in Job(line, t) : (\A m \in Job(line, t) : m <= j) => j = t
      BY <1>t, <2>2, <2>3, <3>1
    <3>3. JobLast(line, first) = CHOOSE j \in Job(line, t) : \A m \in Job(line, t) : m <= j
      BY <2>1 DEF JobLast
    <3> QED BY <2>2, <2>3, <3>2, <3>3
  <2>5. \A c \in Job(line, first) : cstat[c] # NoStatus
    <3>1. \A c \in Job(line, t) : c \in Tid
      BY <1>t DEF Job
    <3> QED BY <1>7, <2>1, <2>2, <3>1
  <2>6. cstat[t].kind = "exit"
    BY <1>6, <1>8, <1>12, StatusFacts
  <2>7. CASE StopsLoop(t, stat.code) \/ t = Len(line)
    <3>1. LeaveLoop(stat.code) /\ UNCHANGED t
      BY <1>t, <1>9, <1>12, <2>7 DEF NextTask
    <3>2. exiting' = TRUE /\ retval' = cstat[t].code
      BY <1>6, <3>1 DEF LeaveLoop
    <3>3. Job(line, t)' = Job(line, t) /\ JobFirst(line, t)' = first
      BY <1>1, <3>1
    <3>4. ~(t < Len(line) /\ ~Refuses(line[t + 1].run_if, cstat[t].code))
      BY <1>t, <1>6, <2>7 DEF StopsLoop
    <3>5. JC!JobEnds
      BY <1>1, <1>2, <2>4, <2>5, <2>6, <3>2, <3>3, <3>4, SameJobs DEF JC!JobEnds
    <3>6. ChildrenOfJob' /\ JobHasFirst' /\ NoStatusYet'
      BY <1>1, <3>3 DEF RefInv, ChildrenOfJob, JobHasFirst, NoStatusYet, Unreaped
    <3> QED BY <3>5, <3>6 DEF JC!Next, RefInv
  <2>8. CASE ~(StopsLoop(t, stat.code) \/ t = Len(line))
    <3>1. t < Len(line)
      BY <1>t, <2>8
    <3>2. t' = t + 1 /\ UNCHANGED exiting
      BY <1>9, <1>12, <2>8, <3>1 DEF NextTask
    <3>3. ~Refuses(line[t + 1].run_if, cstat[t].code)
      BY <1>6, <2>8, <3>1 DEF StopsLoop
    <3>4. /\ \A j \in Job(line, t + 1) : t + 1 <= j
          /\ t + 1 \in Job(line, t + 1)
      BY <1>t, <1>12, <3>1, JobEndsHere, JobFromItself
    <3>5. JobFirst(line, t + 1) = t + 1
      <4>1. \A j \in Job(line, t + 1) : j \in Nat
        BY DEF Job
      <4>2. \A f \in Job(line, t + 1) : (\A m \in Job(line, t + 1) : f <= m) => f = t + 1
        BY <1>t, <3>4, <4>1
      <4> QED BY <3>4, <4>2 DEF JobFirst
    <3>6. JobFirst(line, t)' = t + 1
      BY <1>1, <3>2, <3>5
    <3>7. JC!JobEnds
      BY <1>1, <1>2, <2>4, <2>5, <2>6, <3>1, <3>2, <3>3, <3>6, SameJobs DEF JC!JobEnds
    <3>8. ChildrenOfJob'
      BY <1>1, <1>6, <1>t DEF ChildrenOfJob, Unreaped
    <3>9. JobHasFirst'
      BY <1>1, <3>2, <3>4 DEF JobHasFirst
    <3>10. NoStatusYet'
      BY <1>1 DEF RefInv, NoStatusYet
    <3> QED BY <3>7, <3>8, <3>9, <3>10 DEF JC!Next, RefInv
  <2> QED BY <2>7, <2>8
<1> QED BY <1>10, <1>11, <1>12

(* Preparing a task, closing descriptors and returning are not seen, ...    *)
LEMMA QuietRefines ==
  ASSUME RefInv, JobInv', UNCHANGED <<line, t, exiting, retval, cst, cstat>>
  PROVE  RefInv' /\ [JC!Next]_JC!vars
<1>1. \A c \in Tid : Unreaped(c)' => Unreaped(c)
  BY DEF Unreaped
<1>2. Job(line, t)' = Job(line, t)
  OBVIOUS
<1> QED BY <1>1, <1>2, UnseenStep

(* ... a fork puts a child into the job at hand, ...                        *)
LEMMA ForkRefines ==
  ASSUME RefInv, JobInv', Fork
  PROVE  RefInv' /\ [JC!Next]_JC!vars
<1>1. /\ UNCHANGED <<line, t, exiting, retval, cstat>>
      /\ cst' = [cst EXCEPT ![t] = "forked"]
      /\ pc = "populate"
  BY DEF Fork
<1>2. cst \in [Tid -> ChildStates] /\ t \in Tid
  BY JobFacts DEF RefInv, TypeOK, ChildType
<1>3. Job(line, t)' = Job(line, t)
  BY <1>1
<1>4. \A c \in Tid : Unreaped(c)' => Unreaped(c) \/ c = t'
  BY <1>1, <1>2 DEF Unreaped
<1>5. cst[t] \notin {"zombie", "reaped"}
  <2>1. LoopInv /\ ExitInv /\ t \in Nat
    BY JobFacts DEF RefInv
  <2>2. ChainHolds
    BY <1>1, <2>1 DEF LoopInv, ExitInv, InLoop, LoopLabels
  <2>3. forked < t
    BY <1>1, <2>1 DEF forked, ForkLabels
  <2> QED BY <1>2, <2>2, <2>3 DEF ChainHolds
<1>6. \A c \in Tid : cst'[c] \notin {"zombie", "reaped"} => cst[c] \notin {"zombie", "reaped"}
  BY <1>1, <1>2, <1>5
<1> QED BY <1>1, <1>3, <1>4, <1>6, UnseenStep

(* ... an added pid leads to the next task of the job or to the wait, ...   *)
LEMMA AddPidRefines ==
  ASSUME RefInv, JobInv', AddPid
  PROVE  RefInv' /\ [JC!Next]_JC!vars
<1>1. pc = "chain" /\ UNCHANGED <<line, cst, cstat>>
  BY DEF AddPid, children
<1>2. CASE ShouldWait(files)
  BY <1>1, <1>2, QuietRefines DEF AddPid
<1>3. CASE ~ShouldWait(files)
  <2>1. LoopInv /\ ExitInv /\ files.out_rd_pipe # 0
    BY <1>3, JobFacts DEF RefInv, ShouldWait
  <2>2. Piped(line, t)
    BY <1>1, <2>1 DEF LoopInv, ExitInv, InLoop, LoopLabels
  <2>3. t' = t + 1 /\ UNCHANGED <<exiting, retval>>
    BY <1>3, <2>2 DEF AddPid, NextTask, Piped
  <2> QED BY <1>1, <2>2, <2>3, NextInJob
<1> QED BY <1>2, <1>3

(* ... nor does anyone but the parent see a child reaped.                   *)
LEMMA WaitRefines ==
  ASSUME RefInv, JobInv', WaitPid
  PROVE  RefInv' /\ [JC!Next]_JC!vars
<1>1. UNCHANGED <<line, t, exiting, retval, cstat>>
  BY DEF WaitPid
<1>2. PICK r \in WaitOutcomes(chain[i]) :
        IF r.child \in Tid THEN cst' = [cst EXCEPT ![r.child] = "reaped"] ELSE UNCHANGED cst
  BY DEF WaitPid
<1>3. cst \in [Tid -> ChildStates]
  BY JobFacts DEF RefInv, TypeOK, ChildType
<1>4. \A c \in Tid : cst'[c] \in {cst[c], "reaped"}
  BY <1>2, <1>3
<1>5. \A c \in Tid : Unreaped(c)' => Unreaped(c)
  BY <1>4 DEF Unreaped
<1>6. \A c \in Tid : cst'[c] \notin {"zombie", "reaped"} => cst[c] \notin {"zombie", "reaped"}
  BY <1>2, <1>3, <1>4
<1>7. Job(line, t)' = Job(line, t)
  BY <1>1
<1> QED BY <1>1, <1>5, <1>6, <1>7, UnseenStep

(* A child that ends is a task that ends, one of the job at hand; whatever  *)
(* else a child does is not seen.                                           *)
LEMMA ChildRefines ==
  ASSUME RefInv, JobInv', NEW c \in Tid, Child(c)
  PROVE  RefInv' /\ [JC!Next]_JC!vars
<1>t. /\ TypeOK /\ TypeOK' /\ Len(line) \in Nat /\ t \in 1..Len(line)
  BY JobFacts DEF RefInv, JobInv
<1>1. /\ UNCHANGED <<line, t, exiting, retval>>
      /\ cst[c] \in {"forked", "ready", "running"}
      /\ \A k \in Tid : k # c => cst'[k] = cst[k] /\ cstat'[k] = cstat[k]
      /\ \/ cst'[c] \in {"ready", "running"} /\ cstat'[c] = cstat[c]
         \/ cst'[c] = "zombie" /\ cstat'[c] \in Statuses
  BY <1>t, ChildMoves DEF locals
<1>2. /\ cst \in [Tid -> ChildStates] /\ cst' \in [Tid -> ChildStates]
      /\ cstat \in [Tid -> Statuses \cup {NoStatus}]
      /\ cstat' \in [Tid -> Statuses \cup {NoStatus}]
  BY <1>t DEF TypeOK, ChildType
<1>3. Job(line, t)' = Job(line, t) /\ JobFirst(line, t)' = JobFirst(line, t)
  BY <1>1
<1>4. \A k \in Tid : Unreaped(k)' => Unreaped(k)
  BY <1>1 DEF Unreaped
<1>5. CASE cst'[c] \in {"ready", "running"} /\ cstat'[c] = cstat[c]
  <2>1. cstat' = cstat
    <3>1. \A k \in Tid : cstat'[k] = cstat[k]
      BY <1>1, <1>5
    <3> HIDE DEF Tid
    <3> QED BY <1>2, <3>1
  <2>2. \A k \in Tid : cst'[k] \notin {"zombie", "reaped"} => cst[k] \notin {"zombie", "reaped"}
    BY <1>1, <1>5
  <2> QED BY <1>1, <1>3, <1>4, <2>1, <2>2, UnseenStep
<1>6. CASE cst'[c] = "zombie" /\ cstat'[c] \in Statuses
  <2>1. cstat' = [cstat EXCEPT ![c] = cstat'[c]]
    BY <1>1, <1>2
  <2>2. cstat[c] = NoStatus
    BY <1>1 DEF RefInv, NoStatusYet
  <2>3. c \in Job(line, JobFirst(line, t))
    <3>1. c \in Job(line, t)
      BY <1>1 DEF RefInv, ChildrenOfJob, Unreaped
    <3>2. JobFirst(line, t) \in Job(line, t)
      BY FirstInJob DEF RefInv
    <3> QED BY <1>t, <3>1, <3>2, JobSeenFromEach
  <2>4. JC!TaskEnds(c)
    <3>1. c \in JC!Job(line, JobFirst(line, t))
      BY <2>3, SameJobs
    <3>2. \E s \in Statuses : cstat' = [cstat EXCEPT ![c] = s]
      BY <1>6, <2>1
    <3> QED BY <1>1, <1>3, <2>2, <3>1, <3>2 DEF JC!TaskEnds
  <2>5. ChildrenOfJob' /\ JobHasFirst'
    BY <1>1, <1>3, <1>4 DEF RefInv, ChildrenOfJob, JobHasFirst
  <2>6. NoStatusYet'
    BY <1>1, <1>6 DEF RefInv, NoStatusYet
  <2> QED BY <2>4, <2>5, <2>6 DEF JC!Next, RefInv
<1> QED BY <1>1, <1>5, <1>6

(* Every step of a call is a step of the job control or none.               *)
LEMMA StepRefines ==
  ASSUME "fork" \notin Env, RefInv, [Next]_vars
  PROVE  RefInv' /\ [JC!Next]_JC!vars
<1>1. JobInv'
  BY StepJob DEF RefInv, ForkFails
<1>2. ExitInv
  BY JobFacts DEF RefInv
<1>3. CASE PrepareTask \/ CloseIn \/ CloseOut \/ CloseErr \/ Return
  <2>1. UNCHANGED <<line, t, exiting, retval, cst, cstat>>
    BY <1>3 DEF PrepareTask, CloseIn, CloseOut, CloseErr, CloseOne, Return, children
  <2> QED BY <1>1, <2>1, QuietRefines
<1>4. CASE OpenRedirect \/ ShareRedirect \/ StdinFromPipe \/ StdoutToPipe
  <2>1. UNCHANGED <<line, t, exiting, retval, cst, cstat>>
    BY <1>4 DEF OpenRedirect, ShareRedirect, StdinFromPipe, NextRedirect, StdoutToPipe, children
  <2> QED BY <1>1, <2>1, QuietRefines
<1>5. CASE PrepareFails \/ OpenFails \/ StdoutToPipeFails \/ AddPidFails
  <2>1. /\ ExitError /\ UNCHANGED <<line, t, cst, cstat>>
        /\ pc \in {"prep", "populate", "chain"}
    BY <1>5 DEF PrepareFails, OpenFails, StdoutToPipeFails, AddPidFails, AtRedirect, children
  <2>2. ~exiting
    BY <1>2, <2>1 DEF ExitInv
  <2> QED BY <1>1, <2>1, <2>2, ErrorRefines
<1>6. CASE CheckRedirects
  <2>1. pc = "sane" /\ UNCHANGED <<line, t, cst, cstat>>
    BY <1>6 DEF CheckRedirects, children
  <2>2. CASE RedirectsAreSane(line)
    BY <1>1, <1>6, <2>1, <2>2, QuietRefines DEF CheckRedirects
  <2>3. CASE ~RedirectsAreSane(line)
    <3>1. ExitError /\ ~exiting
      BY <1>2, <1>6, <2>1, <2>3 DEF CheckRedirects, ExitInv
    <3> QED BY <1>1, <2>1, <3>1, ErrorRefines
  <2> QED BY <2>2, <2>3
<1>7. CASE Parent
  <2>1. ~ForkFails
    BY DEF ForkFails
  <2> QED BY <1>1, <1>3, <1>4, <1>5, <1>6, <1>7, <2>1, ForkRefines, AddPidRefines, WaitRefines,
             DecideRefines DEF Parent
<1>8. CASE \E c \in Tid : Child(c)
  BY <1>1, <1>8, ChildRefines
<1>9. CASE HostOpens \/ Over \/ UNCHANGED vars
  <2>1. UNCHANGED <<line, t, exiting, retval, cst, cstat>>
    BY <1>9 DEF HostOpens, Over, vars, locals, children
  <2> QED BY <1>1, <2>1, QuietRefines
<1> QED BY <1>7, <1>8, <1>9 DEF Next

(* In every call in which fork does not fail, the jobs of the command line  *)
(* run one after the other, each is started or refused by the status of the *)
(* last task of the one before, and the call returns the last status or -1, *)
(* as the abstract job control has it.                                      *)
THEOREM ImplementsJobControl ==
  ASSUME "fork" \notin Env
  PROVE  Spec => JobControlSpec
<1>1. Init => RefInv /\ JC!Init
  BY InitRef
<1>2. RefInv /\ [Next]_vars => RefInv' /\ [JC!Next]_JC!vars
  BY StepRefines
<1> QED BY <1>1, <1>2, PTL DEF Spec, JobControlSpec, JC!Spec
=============================================================================
