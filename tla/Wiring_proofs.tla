---------------------------- MODULE Wiring_proofs ----------------------------
(***************************************************************************)
(* Where the descriptors of a call go: a program gets those its redirects  *)
(* name and no other, and the parent keeps no end of a pipe while it waits *)
(* and at most one when the call is over.  For every command line and      *)
(* every failure, also of fork, and with other threads opening files; the  *)
(* calling program has stdin, stdout and stderr open.                      *)
(***************************************************************************)
EXTENDS TaskRun_proofs

USE DEF Fd, Tid

(***************************************************************************)
(* The descriptors of one task                                             *)
(***************************************************************************)
(* Is there a redirect of s to tgt among the first n?                       *)
SoFar(rs, n, s, tgt) ==
  \E m \in 1..n : rs[m] = [stream |-> s, target |-> tgt]

(* ... and one of s2 to tgt2 after it?                                      *)
BeforeSoFar(rs, n, s, tgt, s2, tgt2) ==
  \E m, p \in 1..n : /\ m < p
                     /\ rs[m] = [stream |-> s, target |-> tgt]
                     /\ rs[p] = [stream |-> s2, target |-> tgt2]

PlainSoFar(rs, n, s) == \A tgt \in Targets : ~SoFar(rs, n, s, tgt)

(* Descriptor d, above the standard ones, refers to obj in table tab.       *)
Is(tab, d, obj) == d > 2 /\ tab[d] = obj

(* The files of task k after its first n redirects, in descriptor table     *)
(* tab.                                                                    *)
InSoFar(rs, n, k, f, tab) ==
  /\ SoFar(rs, n, "in", "file") => Is(tab, f.in, OpenFile("in", k))
  /\ SoFar(rs, n, "in", "pipe") => Is(tab, f.in, RdEnd(k - 1))
  /\ PlainSoFar(rs, n, "in") => f.in = 0

OutSoFar(rs, n, k, f, tab) ==
  /\ SoFar(rs, n, "out", "file") => Is(tab, f.out, OpenFile("out", k))
  /\ SoFar(rs, n, "out", "pipe") => Is(tab, f.out, WrEnd(k))
  /\ SoFar(rs, n, "out", "share") =>
       IF BeforeSoFar(rs, n, "err", "file", "out", "share")
       THEN Is(tab, f.out, OpenFile("err", k))
       ELSE IF BeforeSoFar(rs, n, "err", "share", "out", "share") THEN f.out = 1
       ELSE f.out = 2
  /\ PlainSoFar(rs, n, "out") => f.out = 1

ErrSoFar(rs, n, k, f, tab) ==
  /\ SoFar(rs, n, "err", "file") => Is(tab, f.err, OpenFile("err", k))
  /\ SoFar(rs, n, "err", "share") => f.err \in {1, f.out}
  /\ PlainSoFar(rs, n, "err") => f.err = 2

RdSoFar(rs, n, k, f, tab) ==
  IF SoFar(rs, n, "out", "pipe") THEN Is(tab, f.out_rd_pipe, RdEnd(k)) ELSE f.out_rd_pipe = 0

FilesSoFar(rs, n, k, f, tab) ==
  /\ InSoFar(rs, n, k, f, tab)
  /\ OutSoFar(rs, n, k, f, tab)
  /\ ErrSoFar(rs, n, k, f, tab)
  /\ RdSoFar(rs, n, k, f, tab)

(* Descriptor d is the read end of the pipe between tasks k and k+1, or 0   *)
(* when there is no such pipe.                                             *)
PipeTo(d, k) ==
  IF k \in 1..Len(line) /\ Piped(line, k) THEN Is(fds, d, RdEnd(k)) ELSE d = 0

(***************************************************************************)
(* The descriptors of the parent                                           *)
(***************************************************************************)
(* What it opened itself and has not closed.                                *)
Own == {d \in Fd : fds[d] # Closed /\ fds[d].kind # "host"}

(* What _sf1_close_child_files has still to close.                          *)
ToClose == CASE pc = "close_in"  -> {files.in, files.out, files.err}
             [] pc = "close_out" -> {files.out, files.err}
             [] pc = "close_err" -> {files.err}
             [] OTHER -> {}

Closing == pc \in {"close_in", "close_out", "close_err"}

TableInv ==
  /\ \A d \in 0..2 : fds[d] = HostFile(d)
  /\ \A d \in Fd : fds[d].kind = "host" => d \in host

OrderInv ==
  /\ exiting => Closing \/ pc \in {"free", "returned"}
  /\ ~exiting => pc \notin {"free", "returned"} /\ (pc # "sane" => RedirectsAreSane(line))
  /\ \A c \in Tid : c > (IF pc \in {"sane", "prep", "populate"} THEN t - 1 ELSE t)
                      => cst[c] = "none"

LoopFds ==
  /\ pc = "sane" => t = 1 /\ Own = {} /\ files.out_rd_pipe = 0
  /\ pc = "prep" => Own \subseteq {files.out_rd_pipe} /\ PipeTo(files.out_rd_pipe, t - 1)
  /\ pc = "populate" =>
       /\ i <= Len(Redirects) + 1
       /\ Own \subseteq {prev, files.in, files.out, files.err, files.out_rd_pipe}
       /\ PipeTo(prev, t - 1)
       /\ SoFar(Redirects, i - 1, "in", "pipe") => files.in = prev
       /\ FilesSoFar(Redirects, i - 1, t, files, fds)
  /\ (Closing /\ ~exiting) \/ pc = "chain" =>
       /\ Own \subseteq ToClose \cup {files.out_rd_pipe}
       /\ PipeTo(files.out_rd_pipe, t)
       /\ files.out_rd_pipe \notin ToClose \/ files.out_rd_pipe = 0
  /\ pc = "wait" => Own = {} /\ files.out_rd_pipe = 0 /\ PipeTo(0, t)

(* Past the loop at most one read end is left, that of a pipe whose reader  *)
(* was not forked.                                                         *)
Orphan(d) == \E k \in 1..t : fds[d] = RdEnd(k) /\ Piped(line, k) /\ cst[k + 1] = "none"

ExitFds ==
  exiting =>
    /\ \E x \in Fd : Own \subseteq ToClose \cup {x} /\ (x \in Own => Orphan(x))
    /\ retval # -1 => Own \subseteq ToClose

ParentInv == TableInv /\ OrderInv /\ LoopFds /\ ExitFds

(***************************************************************************)
(* The descriptors of the children                                         *)
(***************************************************************************)
Wired(c) ==
  LET has(s, tgt) == HasRedirect(line[c], s, tgt)
      plain(s)    == \A tgt \in Targets : ~has(s, tgt)
      std(d)      == cfd[c][d]
      errThenOut(tgt) == Before(line[c], "err", tgt, "out", "share")
  IN  /\ std(0) = IF has("in", "file") THEN OpenFile("in", c)
                  ELSE IF has("in", "pipe") THEN RdEnd(c-1) ELSE HostFile(0)
      /\ has("out", "file") => std(1) = OpenFile("out", c)
      /\ has("out", "pipe") => std(1) = WrEnd(c)
      /\ has("out", "share") =>
           std(1) = IF errThenOut("file") THEN OpenFile("err", c)
                    ELSE IF errThenOut("share") THEN HostFile(1) ELSE HostFile(2)
      /\ plain("out") => std(1) = HostFile(1)
      /\ has("err", "file") => std(2) = OpenFile("err", c)
      /\ has("err", "share") => std(2) = std(1)
      /\ plain("err") => std(2) = HostFile(2)

ChildInv ==
  \A c \in Tid :
    /\ cst[c] = "forked" =>
         /\ FilesSoFar(line[c].redirects, Len(line[c].redirects), c, cfiles[c], cfd[c])
         /\ \A d \in 0..2 : cfd[c][d] = HostFile(d)
    /\ cst[c] \in {"ready", "running"} => Wired(c)

WireInv == TypeOK /\ ParentInv /\ ChildInv

(***************************************************************************)
(* One more redirect                                                       *)
(***************************************************************************)
(* A list of redirects that the parser can build and the sanity check lets  *)
(* pass.                                                                   *)
SaneList(rs) ==
  /\ rs \in Seq(Redirect)
  /\ \A m, p \in 1..Len(rs) : rs[m].stream = rs[p].stream => m = p
  /\ \A m \in 1..Len(rs) : rs[m] \notin {[stream |-> "err", target |-> "pipe"],
                                          [stream |-> "in", target |-> "share"]}

(* The table may only gain descriptors.                                     *)
Grows(tab, tab2) == \A d \in Fd : tab[d] # Closed => tab2[d] = tab[d]

(* What the n-th redirect adds, and that its stream was plain before it.    *)
LEMMA SoFarNext ==
  ASSUME NEW rs, SaneList(rs), NEW n \in 1..Len(rs)
  PROVE  /\ \A u, x : SoFar(rs, n, u, x)
                        <=> SoFar(rs, n - 1, u, x) \/ (u = rs[n].stream /\ x = rs[n].target)
         /\ \A x : ~SoFar(rs, n - 1, rs[n].stream, x)
         /\ \A a, x, b, y : BeforeSoFar(rs, n, a, x, b, y)
                              <=> \/ BeforeSoFar(rs, n - 1, a, x, b, y)
                                  \/ /\ SoFar(rs, n - 1, a, x)
                                     /\ b = rs[n].stream /\ y = rs[n].target
<1>1. Len(rs) \in Nat /\ \A m \in 1..Len(rs) : rs[m] \in Redirect
  BY DEF SaneList
<1>2. \A m \in 1..n : m \in 1..Len(rs) /\ (m = n \/ m \in 1..(n - 1))
  BY <1>1
<1>3. \A m \in 1..(n - 1) : m \in 1..n /\ m # n /\ m < n
  BY <1>1
<1>4. \A u, x : rs[n] = [stream |-> u, target |-> x] <=> u = rs[n].stream /\ x = rs[n].target
  BY <1>1 DEF Redirect
<1>5. \A u, x : SoFar(rs, n, u, x)
                  <=> SoFar(rs, n - 1, u, x) \/ (u = rs[n].stream /\ x = rs[n].target)
  <2> SUFFICES ASSUME NEW u, NEW x
               PROVE  SoFar(rs, n, u, x)
                        <=> SoFar(rs, n - 1, u, x) \/ rs[n] = [stream |-> u, target |-> x]
    BY <1>4
  <2>1. n \in 1..n
    BY <1>1
  <2> QED BY <1>2, <1>3, <2>1 DEF SoFar
<1>6. ASSUME NEW x, SoFar(rs, n - 1, rs[n].stream, x) PROVE FALSE
  <2>1. PICK m \in 1..(n - 1) : rs[m] = [stream |-> rs[n].stream, target |-> x]
    BY <1>6 DEF SoFar
  <2>2. rs[m].stream = rs[n].stream
    BY <2>1
  <2> QED BY <1>2, <1>3, <2>2 DEF SaneList
<1>7. ASSUME NEW a, NEW x, NEW b, NEW y
      PROVE  BeforeSoFar(rs, n, a, x, b, y)
                <=> \/ BeforeSoFar(rs, n - 1, a, x, b, y)
                    \/ SoFar(rs, n - 1, a, x) /\ b = rs[n].stream /\ y = rs[n].target
  <2>1. ASSUME BeforeSoFar(rs, n, a, x, b, y), ~BeforeSoFar(rs, n - 1, a, x, b, y)
        PROVE  SoFar(rs, n - 1, a, x) /\ b = rs[n].stream /\ y = rs[n].target
    <3>1. PICK m \in 1..n, p \in 1..n : /\ m < p
                                        /\ rs[m] = [stream |-> a, target |-> x]
                                        /\ rs[p] = [stream |-> b, target |-> y]
      BY <2>1 DEF BeforeSoFar
    <3>2. m \in 1..(n - 1)
      BY <1>1, <3>1
    <3>3. p = n
      BY <1>2, <2>1, <3>1, <3>2 DEF BeforeSoFar
    <3> QED BY <1>4, <3>1, <3>2, <3>3 DEF SoFar
  <2>2. ASSUME BeforeSoFar(rs, n - 1, a, x, b, y)
        PROVE  BeforeSoFar(rs, n, a, x, b, y)
    BY <1>3, <2>2 DEF BeforeSoFar
  <2>3. ASSUME SoFar(rs, n - 1, a, x), b = rs[n].stream, y = rs[n].target
        PROVE  BeforeSoFar(rs, n, a, x, b, y)
    <3>1. PICK m \in 1..(n - 1) : rs[m] = [stream |-> a, target |-> x]
      BY <2>3 DEF SoFar
    <3>2. n \in 1..n /\ m \in 1..n /\ m < n /\ rs[n] = [stream |-> b, target |-> y]
      BY <1>3, <1>4, <2>3
    <3> QED BY <3>1, <3>2 DEF BeforeSoFar
  <2> QED BY <2>1, <2>2, <2>3
<1> QED BY <1>5, <1>6, <1>7

(* The other streams are what they were.                                    *)
LEMMA PlainNext ==
  ASSUME NEW rs, SaneList(rs), NEW n \in 1..Len(rs)
  PROVE  /\ PlainSoFar(rs, n - 1, rs[n].stream) /\ ~PlainSoFar(rs, n, rs[n].stream)
         /\ \A u : u # rs[n].stream => (PlainSoFar(rs, n, u) <=> PlainSoFar(rs, n - 1, u))
<1>1. rs[n].target \in Targets
  <2>1. rs[n] \in Redirect
    BY DEF SaneList
  <2> QED BY <2>1 DEF Redirect
<1>2. PlainSoFar(rs, n - 1, rs[n].stream)
  BY SoFarNext DEF PlainSoFar
<1>3. SoFar(rs, n, rs[n].stream, rs[n].target)
  BY SoFarNext
<1>4. ~PlainSoFar(rs, n, rs[n].stream)
  BY <1>1, <1>3 DEF PlainSoFar
<1>5. ASSUME NEW u, u # rs[n].stream
      PROVE  PlainSoFar(rs, n, u) <=> PlainSoFar(rs, n - 1, u)
  <2>1. \A x : SoFar(rs, n, u, x) <=> SoFar(rs, n - 1, u, x)
    BY <1>5, SoFarNext
  <2> QED BY <2>1 DEF PlainSoFar
<1> QED BY <1>2, <1>4, <1>5

(* Nothing is redirected before the first redirect.                         *)
LEMMA SoFarNone ==
  ASSUME NEW rs
  PROVE  /\ \A s, tgt : ~SoFar(rs, 0, s, tgt)
         /\ \A s : PlainSoFar(rs, 0, s)
BY DEF SoFar, PlainSoFar

(* A share of stderr or a pipe of stdin is not there, ...                   *)
LEMMA NeverSoFar ==
  ASSUME NEW rs, SaneList(rs), NEW n \in 0..Len(rs)
  PROVE  ~SoFar(rs, n, "err", "pipe") /\ ~SoFar(rs, n, "in", "share")
<1>1. \A m \in 1..n : m \in 1..Len(rs)
  BY DEF SaneList
<1> QED BY <1>1 DEF SoFar, SaneList

(* An open descriptor stays what it is in a table that grows.               *)
LEMMA IsStays ==
  ASSUME NEW tab, NEW tab2, Grows(tab, tab2), NEW d \in -1..MaxFd, NEW obj, obj # Closed,
         Is(tab, d, obj)
  PROVE  Is(tab2, d, obj)
BY FdAssumption DEF Grows, Is

(* What a redirect opens is not "closed".                                   *)
LEMMA NotClosed ==
  /\ \A s \in Streams : \A k : OpenFile(s, k) # Closed
  /\ \A k : RdEnd(k) # Closed /\ WrEnd(k) # Closed
BY DEF OpenFile, RdEnd, WrEnd, Closed, Streams

(***************************************************************************)
(* A stream that the n-th redirect leaves alone                            *)
(***************************************************************************)
(* stdin, when another stream is redirected.                                *)
LEMMA InKept ==
  ASSUME NEW rs, SaneList(rs), NEW n \in 1..Len(rs), rs[n].stream # "in",
         NEW k, NEW f \in TaskFiles, NEW g, g.in = f.in,
         NEW tab, NEW tab2, Grows(tab, tab2), InSoFar(rs, n - 1, k, f, tab)
  PROVE  InSoFar(rs, n, k, g, tab2)
<1>1. f.in \in -1..MaxFd /\ "in" \in Streams
  BY DEF TaskFiles, Streams
<1>2. \A x : SoFar(rs, n, "in", x) <=> SoFar(rs, n - 1, "in", x)
  BY SoFarNext
<1>3. PlainSoFar(rs, n, "in") <=> PlainSoFar(rs, n - 1, "in")
  BY PlainNext
<1> QED BY <1>1, <1>2, <1>3, IsStays, NotClosed DEF InSoFar

(* stdout, when another stream is redirected.                               *)
LEMMA OutKept ==
  ASSUME NEW rs, SaneList(rs), NEW n \in 1..Len(rs), rs[n].stream # "out",
         NEW k, NEW f \in TaskFiles, NEW g, g.out = f.out,
         NEW tab, NEW tab2, Grows(tab, tab2), OutSoFar(rs, n - 1, k, f, tab)
  PROVE  OutSoFar(rs, n, k, g, tab2)
<1>1. f.out \in -1..MaxFd /\ "out" \in Streams /\ "err" \in Streams
  BY DEF TaskFiles, Streams
<1>2. \A x : SoFar(rs, n, "out", x) <=> SoFar(rs, n - 1, "out", x)
  BY SoFarNext
<1>3. PlainSoFar(rs, n, "out") <=> PlainSoFar(rs, n - 1, "out")
  BY PlainNext
<1>4. \A x : BeforeSoFar(rs, n, "err", x, "out", "share")
               <=> BeforeSoFar(rs, n - 1, "err", x, "out", "share")
  BY SoFarNext
<1>5. SoFar(rs, n, "out", "file") => Is(tab2, g.out, OpenFile("out", k))
  BY <1>1, <1>2, IsStays, NotClosed DEF OutSoFar
<1>6. SoFar(rs, n, "out", "pipe") => Is(tab2, g.out, WrEnd(k))
  BY <1>1, <1>2, IsStays, NotClosed DEF OutSoFar
<1>7. Is(tab, f.out, OpenFile("err", k)) => Is(tab2, g.out, OpenFile("err", k))
  BY <1>1, IsStays, NotClosed
<1> QED BY <1>2, <1>3, <1>4, <1>5, <1>6, <1>7 DEF OutSoFar

(* Where stderr follows stdout by number, stdout was still plain.            *)
LEMMA ErrKept ==
  ASSUME NEW rs, SaneList(rs), NEW n \in 1..Len(rs), rs[n].stream # "err",
         NEW k, NEW f \in TaskFiles, NEW g, g.err = f.err, g.out = f.out \/ f.out = 1,
         NEW tab, NEW tab2, Grows(tab, tab2), ErrSoFar(rs, n - 1, k, f, tab)
  PROVE  ErrSoFar(rs, n, k, g, tab2)
<1>1. f.err \in -1..MaxFd /\ "err" \in Streams
  BY DEF TaskFiles, Streams
<1>2. \A x : SoFar(rs, n, "err", x) <=> SoFar(rs, n - 1, "err", x)
  BY SoFarNext
<1>3. PlainSoFar(rs, n, "err") <=> PlainSoFar(rs, n - 1, "err")
  BY PlainNext
<1>4. SoFar(rs, n, "err", "file") => Is(tab2, g.err, OpenFile("err", k))
  BY <1>1, <1>2, IsStays, NotClosed DEF ErrSoFar
<1> QED BY <1>2, <1>3, <1>4 DEF ErrSoFar

(* The read end of a task's pipe, when no pipe is made.                     *)
LEMMA RdKept ==
  ASSUME NEW rs, SaneList(rs), NEW n \in 1..Len(rs), rs[n].stream # "out" \/ rs[n].target # "pipe",
         NEW k, NEW f \in TaskFiles, NEW g, g.out_rd_pipe = f.out_rd_pipe,
         NEW tab, NEW tab2, Grows(tab, tab2), RdSoFar(rs, n - 1, k, f, tab)
  PROVE  RdSoFar(rs, n, k, g, tab2)
<1>1. f.out_rd_pipe \in -1..MaxFd
  BY FdAssumption DEF TaskFiles
<1>2. SoFar(rs, n, "out", "pipe") <=> SoFar(rs, n - 1, "out", "pipe")
  BY SoFarNext
<1> QED BY <1>1, <1>2, IsStays, NotClosed DEF RdSoFar

(* A table that grows while no redirect is looked at: another thread opens  *)
(* a descriptor.                                                           *)
LEMMA FilesStay ==
  ASSUME NEW rs, NEW n, NEW k, NEW f \in TaskFiles,
         NEW tab, NEW tab2, Grows(tab, tab2), FilesSoFar(rs, n, k, f, tab)
  PROVE  FilesSoFar(rs, n, k, f, tab2)
<1>1. /\ f.in \in -1..MaxFd /\ f.out \in -1..MaxFd /\ f.err \in -1..MaxFd
      /\ f.out_rd_pipe \in -1..MaxFd
      /\ "in" \in Streams /\ "out" \in Streams /\ "err" \in Streams
  BY FdAssumption DEF TaskFiles, Streams
<1> USE <1>1, IsStays, NotClosed DEF FilesSoFar
<1>2. InSoFar(rs, n, k, f, tab2)
  BY DEF InSoFar
<1>3. OutSoFar(rs, n, k, f, tab2)
  <2>1. SoFar(rs, n, "out", "file") => Is(tab2, f.out, OpenFile("out", k))
    BY DEF OutSoFar
  <2>2. SoFar(rs, n, "out", "pipe") => Is(tab2, f.out, WrEnd(k))
    BY DEF OutSoFar
  <2>3. Is(tab, f.out, OpenFile("err", k)) => Is(tab2, f.out, OpenFile("err", k))
    OBVIOUS
  <2> QED BY <2>1, <2>2, <2>3 DEF OutSoFar
<1>4. ErrSoFar(rs, n, k, f, tab2)
  BY DEF ErrSoFar
<1>5. RdSoFar(rs, n, k, f, tab2)
  BY DEF RdSoFar
<1> QED BY <1>2, <1>3, <1>4, <1>5

(***************************************************************************)
(* The stream that the n-th redirect sets                                  *)
(***************************************************************************)
(* stdin is redirected.                                                     *)
LEMMA InSet ==
  ASSUME NEW rs, SaneList(rs), NEW n \in 1..Len(rs), rs[n].stream = "in",
         NEW k, NEW g, NEW tab2,
         rs[n].target = "file" => Is(tab2, g.in, OpenFile("in", k)),
         rs[n].target = "pipe" => Is(tab2, g.in, RdEnd(k - 1))
  PROVE  InSoFar(rs, n, k, g, tab2)
<1>1. \A x : SoFar(rs, n, "in", x) <=> x = rs[n].target
  <2>1. \A x : ~SoFar(rs, n - 1, "in", x)
    <3>1. \A x : ~SoFar(rs, n - 1, rs[n].stream, x)
      BY SoFarNext
    <3> QED BY <3>1
  <2>2. \A x : SoFar(rs, n, "in", x) <=> SoFar(rs, n - 1, "in", x) \/ x = rs[n].target
    BY SoFarNext
  <2> QED BY <2>1, <2>2
<1>2. ~PlainSoFar(rs, n, "in")
  BY PlainNext
<1> QED BY <1>1, <1>2 DEF InSoFar

(* stdout: a share takes the number stderr has now.                         *)
LEMMA OutSet ==
  ASSUME NEW rs, SaneList(rs), NEW n \in 1..Len(rs), rs[n].stream = "out",
         NEW k, NEW f \in TaskFiles, NEW g, NEW tab, NEW tab2, Grows(tab, tab2),
         rs[n].target = "file" => Is(tab2, g.out, OpenFile("out", k)),
         rs[n].target = "pipe" => Is(tab2, g.out, WrEnd(k)),
         rs[n].target = "share" => /\ g.out = f.err
                                   /\ OutSoFar(rs, n - 1, k, f, tab)
                                   /\ ErrSoFar(rs, n - 1, k, f, tab)
  PROVE  OutSoFar(rs, n, k, g, tab2)
<1>1. \A x : SoFar(rs, n, "out", x) <=> x = rs[n].target
  <2>1. \A x : ~SoFar(rs, n - 1, "out", x)
    <3>1. \A x : ~SoFar(rs, n - 1, rs[n].stream, x)
      BY SoFarNext
    <3> QED BY <3>1
  <2>2. \A x : SoFar(rs, n, "out", x) <=> SoFar(rs, n - 1, "out", x) \/ x = rs[n].target
    BY SoFarNext
  <2> QED BY <2>1, <2>2
<1>2. ~PlainSoFar(rs, n, "out") /\ PlainSoFar(rs, n - 1, "out")
  BY PlainNext
<1>3. ASSUME rs[n].target = "share"
      PROVE  IF BeforeSoFar(rs, n, "err", "file", "out", "share")
             THEN Is(tab2, g.out, OpenFile("err", k))
             ELSE IF BeforeSoFar(rs, n, "err", "share", "out", "share") THEN g.out = 1
             ELSE g.out = 2
  <2>1. \A x : ~BeforeSoFar(rs, n - 1, "err", x, "out", "share")
    <3>1. ~SoFar(rs, n - 1, rs[n].stream, "share")
      BY SoFarNext
    <3>2. ~SoFar(rs, n - 1, "out", "share")
      BY <3>1
    <3> QED BY <3>2 DEF BeforeSoFar, SoFar
  <2>2. \A x : BeforeSoFar(rs, n, "err", x, "out", "share") <=> SoFar(rs, n - 1, "err", x)
    BY <1>3, <2>1, SoFarNext
  <2>3. f.out = 1
    BY <1>2, <1>3 DEF OutSoFar
  <2>4. CASE SoFar(rs, n - 1, "err", "file")
    <3>1. f.err \in -1..MaxFd /\ "err" \in Streams
      BY DEF TaskFiles, Streams
    <3> QED BY <1>3, <2>2, <2>4, <3>1, IsStays, NotClosed DEF ErrSoFar
  <2>5. CASE ~SoFar(rs, n - 1, "err", "file") /\ SoFar(rs, n - 1, "err", "share")
    BY <1>3, <2>2, <2>3, <2>5 DEF ErrSoFar
  <2>6. CASE ~SoFar(rs, n - 1, "err", "file") /\ ~SoFar(rs, n - 1, "err", "share")
    <3>1. n - 1 \in 0..Len(rs)
      BY DEF SaneList
    <3>2. PlainSoFar(rs, n - 1, "err")
      BY <2>6, <3>1, NeverSoFar DEF PlainSoFar, Targets
    <3> QED BY <1>3, <2>2, <2>6, <3>2 DEF ErrSoFar
  <2> QED BY <2>4, <2>5, <2>6
<1> QED BY <1>1, <1>2, <1>3 DEF OutSoFar

(* stderr: a share takes the number stdout has now.                         *)
LEMMA ErrSet ==
  ASSUME NEW rs, SaneList(rs), NEW n \in 1..Len(rs), rs[n].stream = "err",
         NEW k, NEW g, NEW tab2,
         rs[n].target = "file" => Is(tab2, g.err, OpenFile("err", k)),
         rs[n].target = "share" => g.err = g.out
  PROVE  ErrSoFar(rs, n, k, g, tab2)
<1>1. \A x : SoFar(rs, n, "err", x) <=> x = rs[n].target
  <2>1. \A x : ~SoFar(rs, n - 1, "err", x)
    <3>1. \A x : ~SoFar(rs, n - 1, rs[n].stream, x)
      BY SoFarNext
    <3> QED BY <3>1
  <2>2. \A x : SoFar(rs, n, "err", x) <=> SoFar(rs, n - 1, "err", x) \/ x = rs[n].target
    BY SoFarNext
  <2> QED BY <2>1, <2>2
<1>2. ~PlainSoFar(rs, n, "err")
  BY PlainNext
<1> QED BY <1>1, <1>2 DEF ErrSoFar

(***************************************************************************)
(* The parent reads a redirect                                             *)
(***************************************************************************)
(* The types of everything the proofs below look at.                        *)
LEMMA WireFacts ==
  ASSUME TypeOK
  PROVE  /\ line \in Lines /\ Len(line) \in Nat /\ 1..Len(line) \subseteq Tid
         /\ t \in 1..Len(line) /\ t \in Nat /\ t \in Tid /\ i \in Nat \ {0}
         /\ exiting \in BOOLEAN
         /\ files \in TaskFiles /\ prev \in Fd
         /\ fds \in [Fd -> Objects]
         /\ Redirects \in Seq(Redirect) /\ Len(Redirects) \in Nat
         /\ cst \in [Tid -> ChildStates] /\ cfd \in [Tid -> [Fd -> Objects]]
         /\ cfiles \in [Tid -> TaskFiles]
<1>1. /\ line \in Lines /\ t \in 1..Len(line) /\ i \in Nat \ {0} /\ exiting \in BOOLEAN
      /\ files \in TaskFiles /\ prev \in Fd /\ fds \in [Fd -> Objects]
      /\ cst \in [Tid -> ChildStates] /\ cfd \in [Tid -> [Fd -> Objects]]
      /\ cfiles \in [Tid -> TaskFiles]
  BY DEF TypeOK, LoopType, FilesType, KernelType, ChildType
<1>2. Len(line) \in Nat /\ 1..Len(line) \subseteq Tid /\ line[t].redirects \in Seq(Redirect)
  BY <1>1, LineFacts
<1>3. Redirects \in Seq(Redirect)
  BY <1>2 DEF Redirects
<1>4. Len(Redirects) \in Nat
  BY <1>3
<1> QED BY <1>1, <1>2, <1>3, <1>4

(* What the sanity check of _sf1_tasks_run makes sure of.                   *)
LEMMA SaneLists ==
  ASSUME NEW l \in Lines, RedirectsAreSane(l), NEW k \in 1..Len(l)
  PROVE  SaneList(l[k].redirects)
<1> DEFINE rs == l[k].redirects
<1>1. rs \in Seq(Redirect)
  BY LineFacts
<1>2. \A m, p \in 1..Len(rs) : rs[m].stream = rs[p].stream => m = p
  BY DEF RedirectsAreSane
<1>3. ~HasRedirect(l[k], "err", "pipe") /\ ~HasRedirect(l[k], "in", "share")
  BY LineAssumption DEF IsLine
<1>4. \A m \in 1..Len(rs) : rs[m] \notin {[stream |-> "err", target |-> "pipe"],
                                          [stream |-> "in", target |-> "share"]}
  BY <1>3 DEF HasRedirect
<1> QED BY <1>1, <1>2, <1>4 DEF SaneList

(* Nothing of the parent's own is at a standard descriptor.                 *)
LEMMA OwnAboveStd ==
  ASSUME \A d \in 0..2 : fds[d] = HostFile(d), NEW d \in Own
  PROVE  d \in Fd /\ d > 2
BY FdAssumption DEF Own, HostFile

(* A new descriptor is above the standard ones and takes no other's place.  *)
LEMMA FreshFds ==
  ASSUME TypeOK, TableInv, NEW d \in Fd, LowestFree(fds, d), NEW obj,
         fds' = [fds EXCEPT ![d] = obj]
  PROVE  d > 2 /\ Grows(fds, fds') /\ fds'[d] = obj /\ \A e \in Fd : e # d => fds'[e] = fds[e]
<1>1. fds \in [Fd -> Objects]
  BY WireFacts
<1>2. fds[d] = Closed
  BY DEF LowestFree
<1>3. d > 2
  BY <1>2 DEF TableInv, HostFile, Closed
<1> QED BY <1>1, <1>2, <1>3 DEF Grows

(* The read end of the last pipe stays while the table grows.               *)
LEMMA PipeStays ==
  ASSUME TypeOK, Grows(fds, fds'), UNCHANGED line, NEW d \in Fd, NEW k, PipeTo(d, k)
  PROVE  PipeTo(d, k)'
<1>1. d \in -1..MaxFd
  BY FdAssumption
<1> QED BY <1>1, IsStays, NotClosed DEF PipeTo

(* What every redirect has in common: it sets one stream, and what the      *)
(* table gains is remembered in files.                                      *)
LEMMA NextPopulate ==
  ASSUME TypeOK, TypeOK', ParentInv, pc = "populate", i \in 1..Len(Redirects),
         NEW s \in Streams, s = Redirects[i].stream,
         i' = i + 1, UNCHANGED <<pc, line, t, prev, exiting, retval, host, cst>>,
         \A u \in Streams : u # s => files'[u] = files[u],
         \/ files'.out_rd_pipe = files.out_rd_pipe
         \/ s = "out" /\ Redirects[i].target = "pipe",
         Grows(fds, fds'),
         \A e \in Fd : fds'[e] # fds[e] => /\ e \in {files'[s], files'.out_rd_pipe}
                                           /\ fds'[e].kind # "host",
         s = "in" /\ Redirects[i].target = "pipe" => files'.in = prev,
         FilesSoFar(Redirects, i, t, files', fds')
  PROVE  ParentInv'
<1>t. /\ files \in TaskFiles /\ files' \in TaskFiles /\ prev \in Fd /\ i \in Nat \ {0}
      /\ fds \in [Fd -> Objects] /\ fds' \in [Fd -> Objects]
      /\ line \in Lines /\ t \in 1..Len(line) /\ Redirects \in Seq(Redirect) /\ exiting \in BOOLEAN
  BY WireFacts DEF TypeOK, FilesType, KernelType
<1>1. /\ TableInv /\ OrderInv /\ LoopFds /\ ~exiting /\ RedirectsAreSane(line)
  BY DEF ParentInv, OrderInv, Closing
<1>2. SaneList(Redirects)
  BY <1>t, <1>1, SaneLists DEF Redirects
<1>3. /\ Own \subseteq {prev, files.in, files.out, files.err, files.out_rd_pipe}
      /\ PipeTo(prev, t - 1)
      /\ SoFar(Redirects, i - 1, "in", "pipe") => files.in = prev
      /\ FilesSoFar(Redirects, i - 1, t, files, fds)
  BY <1>1 DEF LoopFds
<1>4. i' - 1 = i /\ Redirects' = Redirects
  BY <1>t DEF Redirects
<1>5. TableInv'
  <2>1. \A d \in 0..2 : d \in Fd /\ fds[d] = HostFile(d) /\ fds[d] # Closed
    BY <1>1, ObjectFacts, FdAssumption DEF TableInv
  <2>2. \A d \in 0..2 : fds'[d] = HostFile(d)
    BY <2>1 DEF Grows
  <2> QED BY <1>1, <2>2 DEF TableInv
<1>6. OrderInv'
  BY <1>1 DEF OrderInv, Closing
<1>7. files[s] \in 0..2
  <2>1. PlainSoFar(Redirects, i - 1, s)
    BY <1>2, PlainNext
  <2>2. /\ InSoFar(Redirects, i - 1, t, files, fds)
        /\ OutSoFar(Redirects, i - 1, t, files, fds)
        /\ ErrSoFar(Redirects, i - 1, t, files, fds)
    BY <1>3 DEF FilesSoFar
  <2>3. s = "in" => files["in"] = 0
    BY <2>1, <2>2 DEF InSoFar
  <2>4. s = "out" => files["out"] = 1
    BY <2>1, <2>2 DEF OutSoFar
  <2>5. s = "err" => files["err"] = 2
    BY <2>1, <2>2 DEF ErrSoFar
  <2> QED BY <2>3, <2>4, <2>5 DEF Streams
<1>8. files'.out_rd_pipe = files.out_rd_pipe \/ files.out_rd_pipe = 0
  <2> SUFFICES ASSUME s = "out" PROVE files.out_rd_pipe = 0
    OBVIOUS
  <2>1. ~SoFar(Redirects, i - 1, Redirects[i].stream, "pipe")
    BY <1>2, SoFarNext
  <2>2. ~SoFar(Redirects, i - 1, "out", "pipe")
    BY <2>1
  <2> QED BY <1>3, <2>2 DEF FilesSoFar, RdSoFar
<1>9. Own' \subseteq {prev, files'.in, files'.out, files'.err, files'.out_rd_pipe}
  <2> SUFFICES ASSUME NEW e \in Own'
               PROVE  e \in {prev, files'.in, files'.out, files'.err, files'.out_rd_pipe}
    OBVIOUS
  <2>0. e \in Fd
    BY DEF Own
  <2>1. CASE fds'[e] # fds[e]
    BY <2>0, <2>1 DEF Streams
  <2>2. CASE fds'[e] = fds[e]
    <3>1. e \in Own
      BY <2>2 DEF Own
    <3>2. e > 2
      BY <1>1, <3>1, OwnAboveStd DEF TableInv
    <3>3. e \in {prev, files.in, files.out, files.err, files.out_rd_pipe}
      BY <1>3, <3>1
    <3>4. e # files[s] /\ e # 0
      BY <1>7, <3>2
    <3>5. CASE s = "in"
      <4>1. files'["out"] = files["out"] /\ files'["err"] = files["err"]
        BY <3>5 DEF Streams
      <4> QED BY <1>8, <3>3, <3>4, <3>5, <4>1
    <3>6. CASE s = "out"
      <4>1. files'["in"] = files["in"] /\ files'["err"] = files["err"]
        BY <3>6 DEF Streams
      <4> QED BY <1>8, <3>3, <3>4, <3>6, <4>1
    <3>7. CASE s = "err"
      <4>1. files'["in"] = files["in"] /\ files'["out"] = files["out"]
        BY <3>7 DEF Streams
      <4> QED BY <1>8, <3>3, <3>4, <3>7, <4>1
    <3> QED BY <3>5, <3>6, <3>7 DEF Streams
  <2> QED BY <2>1, <2>2
<1>10. PipeTo(prev, t - 1)'
  BY <1>t, <1>3, PipeStays
<1>11. SoFar(Redirects, i, "in", "pipe") => files'.in = prev
  <2>1. SoFar(Redirects, i, "in", "pipe")
          <=> \/ SoFar(Redirects, i - 1, "in", "pipe")
              \/ "in" = s /\ "pipe" = Redirects[i].target
    BY <1>2, SoFarNext
  <2>2. SoFar(Redirects, i - 1, "in", "pipe") => s # "in"
    <3>1. ~SoFar(Redirects, i - 1, s, "pipe")
      BY <1>2, SoFarNext
    <3> QED BY <3>1
  <2>3. s # "in" => files'["in"] = files["in"]
    BY DEF Streams
  <2> QED BY <1>3, <2>1, <2>2, <2>3
<1>12. LoopFds'
  <2>1. i' <= Len(Redirects') + 1
    BY <1>t, <1>4
  <2> QED BY <2>1, <1>4, <1>9, <1>10, <1>11 DEF LoopFds, Closing
<1>13. ExitFds'
  BY <1>1 DEF ExitFds
<1> QED BY <1>5, <1>6, <1>12, <1>13 DEF ParentInv

(* A redirect of stdin to a pipe has the pipe of the task before.           *)
LEMMA PipeIsThere ==
  ASSUME NEW l \in Lines, NEW k \in 1..Len(l), HasRedirect(l[k], "in", "pipe")
  PROVE  k - 1 \in 1..Len(l) /\ Piped(l, k - 1)
<1>1. IsLine(l) /\ Len(l) \in Nat
  BY LineAssumption, LineFacts
<1>2. k # 1
  BY <1>1 DEF IsLine
<1>3. k - 1 \in 1..(Len(l) - 1) /\ (k - 1) + 1 = k
  BY <1>1, <1>2
<1>4. HasRedirect(l[k - 1], "out", "pipe")
  BY <1>1, <1>3 DEF IsLine
<1> QED BY <1>1, <1>3, <1>4 DEF Piped

(* Each redirect, and a pipe's two ends, leave the files as written so far. *)
LEMMA RedirectsWire ==
  ASSUME TypeOK, TypeOK', ParentInv,
         OpenRedirect \/ ShareRedirect \/ StdinFromPipe \/ StdoutToPipe
  PROVE  ParentInv'
<1> DEFINE rs == Redirects
           s == Redirects[i].stream
           tgt == Redirects[i].target
<1>t. /\ files \in TaskFiles /\ files' \in TaskFiles /\ prev \in Fd /\ i \in Nat \ {0}
      /\ fds \in [Fd -> Objects]
      /\ line \in Lines /\ t \in 1..Len(line) /\ t \in Nat
      /\ rs \in Seq(Redirect) /\ Len(rs) \in Nat
  BY WireFacts DEF TypeOK, FilesType
<1>1. pc = "populate" /\ i <= Len(rs)
  BY DEF OpenRedirect, ShareRedirect, StdinFromPipe, StdoutToPipe, AtRedirect
<1>2. i \in 1..Len(rs)
  BY <1>t, <1>1
<1>3. TableInv /\ LoopFds /\ ~exiting /\ RedirectsAreSane(line)
  BY <1>1 DEF ParentInv, OrderInv, Closing
<1>4. SaneList(rs)
  BY <1>t, <1>3, SaneLists DEF Redirects
<1>5. /\ InSoFar(rs, i - 1, t, files, fds)
      /\ OutSoFar(rs, i - 1, t, files, fds)
      /\ ErrSoFar(rs, i - 1, t, files, fds)
      /\ RdSoFar(rs, i - 1, t, files, fds)
      /\ PipeTo(prev, t - 1)
  BY <1>1, <1>3 DEF LoopFds, FilesSoFar
<1>6. Grows(fds, fds) /\ s \in Streams
  <2>1. Redirects[i] \in Redirect
    BY <1>t, <1>2
  <2> QED BY <2>1 DEF Grows, Redirect
<1>7. PlainSoFar(rs, i - 1, s)
  BY <1>2, <1>4, PlainNext
<1>8. s = "out" => files.out = 1
  <2>1. s = "out" => PlainSoFar(rs, i - 1, "out")
    BY <1>7
  <2> QED BY <1>5, <2>1 DEF OutSoFar
<1> HIDE DEF s, tgt, rs
<1> USE DEF s, tgt
<1>9. CASE OpenRedirect
  <2>1. PICK d \in Fd : /\ LowestFree(fds, d)
                        /\ fds' = [fds EXCEPT ![d] = OpenFile(s, t)]
                        /\ NextRedirect(s, d)
    BY <1>9 DEF OpenRedirect
  <2>2. tgt = "file"
    BY <1>9 DEF OpenRedirect, AtRedirect
  <2>3. /\ d > 2 /\ Grows(fds, fds') /\ fds'[d] = OpenFile(s, t)
        /\ \A e \in Fd : e # d => fds'[e] = fds[e]
    BY <1>3, <2>1, FreshFds
  <2>4. /\ files' = [files EXCEPT ![s] = d] /\ i' = i + 1
        /\ UNCHANGED <<pc, line, t, prev, exiting, retval, host, cst>>
    BY <2>1 DEF NextRedirect, children
  <2>5. /\ files'[s] = d /\ files'.out_rd_pipe = files.out_rd_pipe
        /\ \A u \in Streams : u # s => files'[u] = files[u]
    BY <1>t, <1>6, <2>4, SetFile, FdAssumption
  <2>6. Is(fds', files'[s], OpenFile(s, t)) /\ OpenFile(s, t).kind # "host"
    BY <1>6, <2>3, <2>5 DEF Is, OpenFile, Streams
  <2>7. InSoFar(rs, i, t, files', fds')
    <3>1. CASE s = "in"
      BY <1>2, <1>4, <2>2, <2>6, <3>1, InSet DEF rs
    <3>2. CASE s # "in"
      <4>1. files'["in"] = files["in"]
        BY <2>5, <3>2 DEF Streams
      <4> QED BY <1>t, <1>2, <1>4, <1>5, <2>3, <3>2, <4>1, InKept DEF rs
    <3> QED BY <3>1, <3>2
  <2>8. OutSoFar(rs, i, t, files', fds')
    <3>1. CASE s = "out"
      BY <1>t, <1>2, <1>4, <2>2, <2>3, <2>6, <3>1, OutSet DEF rs
    <3>2. CASE s # "out"
      <4>1. files'["out"] = files["out"]
        BY <2>5, <3>2 DEF Streams
      <4> QED BY <1>t, <1>2, <1>4, <1>5, <2>3, <3>2, <4>1, OutKept DEF rs
    <3> QED BY <3>1, <3>2
  <2>9. ErrSoFar(rs, i, t, files', fds')
    <3>1. CASE s = "err"
      BY <1>t, <1>2, <1>4, <2>2, <2>6, <3>1, ErrSet DEF rs
    <3>2. CASE s # "err"
      <4>1. files'["err"] = files["err"]
        BY <2>5, <3>2 DEF Streams
      <4>2. files'["out"] = files["out"] \/ files["out"] = 1
        BY <1>8, <2>5 DEF Streams
      <4> QED BY <1>t, <1>2, <1>4, <1>5, <2>3, <3>2, <4>1, <4>2, ErrKept DEF rs
    <3> QED BY <3>1, <3>2
  <2>10. RdSoFar(rs, i, t, files', fds')
    BY <1>t, <1>2, <1>4, <1>5, <2>2, <2>3, <2>5, RdKept DEF rs
  <2>11. FilesSoFar(rs, i, t, files', fds')
    BY <2>7, <2>8, <2>9, <2>10 DEF FilesSoFar
  <2>12. \A e \in Fd : fds'[e] # fds[e] => /\ e \in {files'[s], files'.out_rd_pipe}
                                            /\ fds'[e].kind # "host"
    BY <2>3, <2>5, <2>6
  <2> QED BY <1>1, <1>2, <1>6, <2>2, <2>3, <2>4, <2>5, <2>11, <2>12, NextPopulate DEF rs
<1>10. CASE ShareRedirect \/ StdinFromPipe
  <2> DEFINE d == IF s = "in" THEN prev ELSE IF s = "out" THEN files.err ELSE files.out
  <2>1. /\ NextRedirect(s, d) /\ fds' = fds
        /\ s = "in" => tgt = "pipe"
        /\ s # "in" => tgt = "share"
    <3>1. CASE ShareRedirect
      BY <3>1 DEF ShareRedirect, AtRedirect
    <3>2. CASE StdinFromPipe
      BY <3>2 DEF StdinFromPipe, AtRedirect
    <3> QED BY <1>10, <3>1, <3>2
  <2>2. d \in -1..MaxFd
    BY <1>t, FdAssumption DEF TaskFiles
  <2>3. /\ files' = [files EXCEPT ![s] = d] /\ i' = i + 1
        /\ UNCHANGED <<pc, line, t, prev, exiting, retval, host, cst>>
    BY <2>1 DEF NextRedirect, children
  <2> HIDE DEF d
  <2>4. /\ files'[s] = d /\ files'.out_rd_pipe = files.out_rd_pipe
        /\ \A u \in Streams : u # s => files'[u] = files[u]
    BY <1>t, <1>6, <2>2, <2>3, SetFile
  <2>5. InSoFar(rs, i, t, files', fds)
    <3>1. CASE s = "in"
      <4>1. HasRedirect(line[t], "in", "pipe")
        BY <1>2, <2>1, <3>1 DEF HasRedirect, Redirects, rs
      <4>2. Is(fds, prev, RdEnd(t - 1))
        BY <1>t, <1>5, <4>1, PipeIsThere DEF PipeTo
      <4>3. files'["in"] = prev
        BY <2>4, <3>1 DEF d
      <4> QED BY <1>2, <1>4, <2>1, <3>1, <4>2, <4>3, InSet DEF rs
    <3>2. CASE s # "in"
      <4>1. files'["in"] = files["in"]
        BY <2>4, <3>2 DEF Streams
      <4> QED BY <1>t, <1>2, <1>4, <1>5, <1>6, <3>2, <4>1, InKept DEF rs
    <3> QED BY <3>1, <3>2
  <2>6. OutSoFar(rs, i, t, files', fds)
    <3>1. CASE s = "out"
      <4>1. files'["out"] = files["err"]
        BY <2>4, <3>1 DEF d
      <4> QED BY <1>t, <1>2, <1>4, <1>5, <1>6, <2>1, <3>1, <4>1, OutSet DEF rs
    <3>2. CASE s # "out"
      <4>1. files'["out"] = files["out"]
        BY <2>4, <3>2 DEF Streams
      <4> QED BY <1>t, <1>2, <1>4, <1>5, <1>6, <3>2, <4>1, OutKept DEF rs
    <3> QED BY <3>1, <3>2
  <2>7. ErrSoFar(rs, i, t, files', fds)
    <3>1. CASE s = "err"
      <4>1. files'["err"] = files["out"] /\ files'["out"] = files["out"]
        BY <2>4, <3>1 DEF d, Streams
      <4> QED BY <1>t, <1>2, <1>4, <2>1, <3>1, <4>1, ErrSet DEF rs
    <3>2. CASE s # "err"
      <4>1. files'["err"] = files["err"]
        BY <2>4, <3>2 DEF Streams
      <4>2. files'["out"] = files["out"] \/ files["out"] = 1
        BY <1>8, <2>4 DEF Streams
      <4> QED BY <1>t, <1>2, <1>4, <1>5, <1>6, <3>2, <4>1, <4>2, ErrKept DEF rs
    <3> QED BY <3>1, <3>2
  <2>8. RdSoFar(rs, i, t, files', fds)
    <3>1. ~(s = "out" /\ tgt = "pipe")
      BY <2>1
    <3> QED BY <1>t, <1>2, <1>4, <1>5, <1>6, <2>4, <3>1, RdKept DEF rs
  <2>9. FilesSoFar(rs, i, t, files', fds')
    BY <2>1, <2>5, <2>6, <2>7, <2>8 DEF FilesSoFar
  <2>10. s = "in" => files'["in"] = prev
    BY <2>4 DEF d
  <2> QED BY <1>1, <1>2, <1>6, <2>1, <2>3, <2>4, <2>9, <2>10, NextPopulate DEF rs
<1>11. CASE StdoutToPipe
  <2>1. PICK r \in Fd, w \in Fd :
          /\ LowestFree(fds, r)
          /\ LowestFree([fds EXCEPT ![r] = RdEnd(t)], w)
          /\ fds' = [fds EXCEPT ![r] = RdEnd(t), ![w] = WrEnd(t)]
          /\ files' = [files EXCEPT !.out_rd_pipe = r, !.out = w]
    BY <1>11 DEF StdoutToPipe
  <2>2. /\ s = "out" /\ tgt = "pipe" /\ i' = i + 1
        /\ UNCHANGED <<pc, line, t, prev, exiting, retval, host, cst>>
    BY <1>11 DEF StdoutToPipe, AtRedirect, children
  <2>3. w # r /\ fds[w] = Closed /\ fds[r] = Closed
    BY <1>t, <2>1 DEF LowestFree, RdEnd, Closed
  <2>4. w > 2 /\ r > 2
    BY <1>3, <2>3 DEF TableInv, HostFile, Closed
  <2>5. /\ Grows(fds, fds') /\ fds'[r] = RdEnd(t) /\ fds'[w] = WrEnd(t)
        /\ \A e \in Fd : e \notin {r, w} => fds'[e] = fds[e]
    BY <1>t, <2>1, <2>3 DEF Grows
  <2>6. /\ files'["in"] = files["in"] /\ files'["err"] = files["err"]
        /\ files'["out"] = w /\ files'["out_rd_pipe"] = r
    BY <1>t, <2>1 DEF TaskFiles
  <2>7. RdEnd(t).kind # "host" /\ WrEnd(t).kind # "host"
    BY DEF RdEnd, WrEnd
  <2>8. InSoFar(rs, i, t, files', fds')
    BY <1>t, <1>2, <1>4, <1>5, <2>2, <2>5, <2>6, InKept DEF rs
  <2>9. OutSoFar(rs, i, t, files', fds')
    <3>1. Is(fds', files'["out"], WrEnd(t))
      BY <2>4, <2>5, <2>6 DEF Is
    <3> QED BY <1>t, <1>2, <1>4, <2>2, <2>5, <3>1, OutSet DEF rs
  <2>10. ErrSoFar(rs, i, t, files', fds')
    BY <1>t, <1>2, <1>4, <1>5, <1>8, <2>2, <2>5, <2>6, ErrKept DEF rs
  <2>11. RdSoFar(rs, i, t, files', fds')
    <3>1. SoFar(rs, i, "out", "pipe")
      BY <1>2, <1>4, <2>2, SoFarNext DEF rs
    <3> QED BY <2>4, <2>5, <2>6, <3>1 DEF RdSoFar, Is
  <2>12. FilesSoFar(rs, i, t, files', fds')
    BY <2>8, <2>9, <2>10, <2>11 DEF FilesSoFar
  <2>13. \A u \in Streams : u # s => files'[u] = files[u]
    BY <2>2, <2>6 DEF Streams
  <2>14. \A e \in Fd : fds'[e] # fds[e] => /\ e \in {files'[s], files'.out_rd_pipe}
                                            /\ fds'[e].kind # "host"
    BY <2>2, <2>5, <2>6, <2>7
  <2> QED BY <1>1, <1>2, <1>6, <2>2, <2>5, <2>12, <2>13, <2>14, NextPopulate DEF rs
<1> QED BY <1>9, <1>10, <1>11

(***************************************************************************)
(* The parent's other steps                                                *)
(***************************************************************************)
(* A read end that is left open has no reader if the task it leads to was   *)
(* not forked.                                                             *)
LEMMA PipeOrphan ==
  ASSUME TypeOK, TableInv, NEW k \in 0..t, NEW d \in Own, PipeTo(d, k),
         \A c \in Tid : c > k => cst[c] = "none"
  PROVE  Orphan(d)
<1>1. d # 0
  BY OwnAboveStd DEF TableInv
<1>2. k \in 1..Len(line) /\ Piped(line, k) /\ fds[d] = RdEnd(k)
  BY <1>1 DEF PipeTo, Is
<1>3. k + 1 \in Tid /\ k \in 1..t
  BY <1>2, WireFacts, LineAssumption DEF Piped
<1> QED BY <1>2, <1>3 DEF Orphan

(* Every error leaves the loop the same way.                                *)
LEMMA ErrorWire ==
  ASSUME TypeOK, ParentInv, ExitError, UNCHANGED <<line, t, fds, host, cst>>,
         NEW x \in Fd, Own \subseteq {files'.in, files'.out, files'.err, x},
         x \in Own => Orphan(x)
  PROVE  ParentInv'
<1>1. exiting' = TRUE /\ retval' = -1 /\ pc' = "close_in"
  BY DEF ExitError, LeaveLoop
<1>2. TableInv'
  BY DEF ParentInv, TableInv
<1>3. OrderInv'
  <2>1. \A c \in Tid : c > t => cst[c] = "none"
    BY WireFacts DEF ParentInv, OrderInv
  <2> QED BY <1>1, <2>1 DEF OrderInv, Closing
<1>4. LoopFds'
  BY <1>1 DEF LoopFds, Closing
<1>5. Own' = Own /\ (Orphan(x) => Orphan(x)')
  BY DEF Own, Orphan
<1>6. ToClose' = {files'.in, files'.out, files'.err}
  BY <1>1 DEF ToClose
<1>7. ExitFds'
  <2>1. Own' \subseteq ToClose' \cup {x} /\ (x \in Own' => Orphan(x)')
    BY <1>5, <1>6
  <2> QED BY <1>1, <2>1 DEF ExitFds
<1> QED BY <1>2, <1>3, <1>4, <1>7 DEF ParentInv

(* A failing redirect finds no pipe made for the next task yet: pipes come  *)
(* after the redirects of the task itself.                                 *)
LEMMA NoPipeYet ==
  ASSUME TypeOK, ParentInv, pc = "populate", i \in 1..Len(Redirects),
         Redirects[i] # [stream |-> "in", target |-> "pipe"]
  PROVE  files.out_rd_pipe = 0
<1>1. /\ line \in Lines /\ t \in 1..Len(line) /\ i \in Nat \ {0}
      /\ Redirects \in Seq(Redirect) /\ Len(Redirects) \in Nat
  BY WireFacts
<1>2. RdSoFar(Redirects, i - 1, t, files, fds)
  BY DEF ParentInv, LoopFds, FilesSoFar
<1>3. ASSUME SoFar(Redirects, i - 1, "out", "pipe") PROVE FALSE
  <2>1. PICK m \in 1..(i - 1) : Redirects[m] = [stream |-> "out", target |-> "pipe"]
    BY <1>3 DEF SoFar
  <2>2. m \in 1..Len(Redirects) /\ m < i
    BY <1>1
  <2>3. Redirects[i] \in Redirect
    BY <1>1
  <2>4. PICK s \in Streams, tgt \in Targets : Redirects[i] = [stream |-> s, target |-> tgt]
    BY <2>3 DEF Redirect
  <2>5. Before(line[t], "out", "pipe", s, tgt)
    BY <2>1, <2>2, <2>4 DEF Before, Redirects
  <2>6. s = "in" /\ tgt = "pipe"
    BY <1>1, <2>5, LineAssumption DEF IsLine
  <2> QED BY <2>4, <2>6
<1> QED BY <1>2, <1>3 DEF RdSoFar

(* The four ways out of the loop by an error.                               *)
LEMMA ErrorsWire ==
  ASSUME TypeOK, ParentInv, PrepareFails \/ OpenFails \/ StdoutToPipeFails \/ AddPidFails
  PROVE  ParentInv'
<1>t. /\ line \in Lines /\ t \in 1..Len(line) /\ t \in Nat /\ i \in Nat \ {0}
      /\ files \in TaskFiles /\ prev \in Fd /\ files.out_rd_pipe \in Fd
      /\ Redirects \in Seq(Redirect) /\ Len(Redirects) \in Nat
      /\ TableInv /\ OrderInv /\ LoopFds
  BY WireFacts DEF ParentInv, TaskFiles
<1>1. CASE PrepareFails
  <2>1. /\ pc = "prep" /\ ExitError /\ UNCHANGED <<line, t, files, fds, host, cst>>
    BY <1>1 DEF PrepareFails, kernel, children
  <2>2. Own \subseteq {files.out_rd_pipe} /\ PipeTo(files.out_rd_pipe, t - 1)
    BY <1>t, <2>1 DEF LoopFds
  <2>3. t - 1 \in 0..t /\ \A c \in Tid : c > t - 1 => cst[c] = "none"
    BY <1>t, <2>1 DEF OrderInv
  <2>4. files.out_rd_pipe \in Own => Orphan(files.out_rd_pipe)
    BY <1>t, <2>2, <2>3, PipeOrphan
  <2> QED BY <1>t, <2>1, <2>2, <2>4, ErrorWire
<1>2. CASE OpenFails \/ StdoutToPipeFails
  <2> DEFINE s == Redirects[i].stream
  <2>1. /\ pc = "populate" /\ i <= Len(Redirects) /\ s \in Streams
        /\ Redirects[i].target # "pipe" \/ s # "in"
    BY <1>2 DEF OpenFails, StdoutToPipeFails, AtRedirect, Streams
  <2>2. i \in 1..Len(Redirects) /\ Redirects[i] # [stream |-> "in", target |-> "pipe"]
    BY <1>t, <2>1
  <2>3. files.out_rd_pipe = 0
    BY <2>1, <2>2, NoPipeYet
  <2>4. /\ Own \subseteq {prev, files.in, files.out, files.err, files.out_rd_pipe}
        /\ PipeTo(prev, t - 1)
        /\ FilesSoFar(Redirects, i - 1, t, files, fds)
    BY <1>t, <2>1 DEF LoopFds
  <2>5. ExitError /\ UNCHANGED <<line, t, prev, fds, host, cst>>
    BY <1>2 DEF OpenFails, StdoutToPipeFails, kernel, children
  <2>6. t - 1 \in 0..t /\ \A c \in Tid : c > t - 1 => cst[c] = "none"
    BY <1>t, <2>1 DEF OrderInv
  <2>7. prev \in Own => Orphan(prev)
    BY <1>t, <2>4, <2>6, PipeOrphan
  <2>8. Own \subseteq {files'.in, files'.out, files'.err, prev}
    <3>1. CASE StdoutToPipeFails
      <4>1. files' = files
        BY <3>1 DEF StdoutToPipeFails
      <4>2. 0 \notin Own
        BY <1>t, OwnAboveStd DEF TableInv
      <4> QED BY <2>3, <2>4, <4>1, <4>2
    <3>2. CASE OpenFails
      <4>1. files' = [files EXCEPT ![s] = -1] /\ -1 \in -1..MaxFd
        BY <3>2, FdAssumption DEF OpenFails
      <4>2. \A u \in Streams : u # s => files'[u] = files[u]
        BY <1>t, <2>1, <4>1, SetFile
      <4>3. ~exiting /\ RedirectsAreSane(line)
        BY <1>t, <2>1 DEF OrderInv, Closing
      <4>4. PlainSoFar(Redirects, i - 1, s)
        BY <1>t, <2>2, <4>3, SaneLists, PlainNext DEF Redirects
      <4>5. /\ InSoFar(Redirects, i - 1, t, files, fds)
            /\ OutSoFar(Redirects, i - 1, t, files, fds)
            /\ ErrSoFar(Redirects, i - 1, t, files, fds)
        BY <2>4 DEF FilesSoFar
      <4>6. 0 \notin Own /\ 1 \notin Own /\ 2 \notin Own
        BY <1>t, OwnAboveStd DEF TableInv
      <4>7. CASE s = "in"
        <5>1. files["in"] = 0
          BY <4>4, <4>5, <4>7 DEF InSoFar
        <5>2. files'["out"] = files["out"] /\ files'["err"] = files["err"]
          BY <4>2, <4>7 DEF Streams
        <5> QED BY <2>3, <2>4, <4>6, <5>1, <5>2
      <4>8. CASE s = "out"
        <5>1. files["out"] = 1
          BY <4>4, <4>5, <4>8 DEF OutSoFar
        <5>2. files'["in"] = files["in"] /\ files'["err"] = files["err"]
          BY <4>2, <4>8 DEF Streams
        <5> QED BY <2>3, <2>4, <4>6, <5>1, <5>2
      <4>9. CASE s = "err"
        <5>1. files["err"] = 2
          BY <4>4, <4>5, <4>9 DEF ErrSoFar
        <5>2. files'["in"] = files["in"] /\ files'["out"] = files["out"]
          BY <4>2, <4>9 DEF Streams
        <5> QED BY <2>3, <2>4, <4>6, <5>1, <5>2
      <4> QED BY <2>1, <4>7, <4>8, <4>9 DEF Streams
    <3> QED BY <1>2, <3>1, <3>2
  <2> QED BY <1>t, <2>5, <2>7, <2>8, ErrorWire
<1>3. CASE AddPidFails
  <2>1. pc = "chain" /\ ExitError /\ UNCHANGED <<line, t, files, fds, host, cst>>
    BY <1>3 DEF AddPidFails, kernel, children
  <2>2. Own \subseteq {files.out_rd_pipe} /\ PipeTo(files.out_rd_pipe, t)
    BY <1>t, <2>1 DEF LoopFds, ToClose
  <2>3. t \in 0..t /\ \A c \in Tid : c > t => cst[c] = "none"
    BY <1>t, <2>1 DEF OrderInv
  <2>4. files.out_rd_pipe \in Own => Orphan(files.out_rd_pipe)
    BY <1>t, <2>2, <2>3, PipeOrphan
  <2> QED BY <1>t, <2>1, <2>2, <2>4, ErrorWire
<1> QED BY <1>1, <1>2, <1>3

(* The checks, and the start of a task.                                     *)
LEMMA StartsWire ==
  ASSUME TypeOK, ParentInv, CheckRedirects \/ PrepareTask
  PROVE  ParentInv'
<1>t. /\ line \in Lines /\ t \in 1..Len(line) /\ t \in Nat /\ files.out_rd_pipe \in Fd
      /\ TableInv /\ OrderInv /\ LoopFds
  BY WireFacts DEF ParentInv, TaskFiles
<1>1. CASE CheckRedirects /\ RedirectsAreSane(line)
  <2>1. /\ pc = "sane" /\ pc' = "prep"
        /\ UNCHANGED <<line, t, files, exiting, retval, fds, host, cst>>
    BY <1>1 DEF CheckRedirects, kernel, children
  <2>2. ~exiting /\ t = 1 /\ Own = {} /\ files.out_rd_pipe = 0
    BY <1>t, <2>1 DEF OrderInv, LoopFds, Closing
  <2>3. PipeTo(files.out_rd_pipe, t - 1)'
    BY <2>1, <2>2 DEF PipeTo
  <2>4. TableInv' /\ OrderInv' /\ ExitFds'
    BY <1>t, <1>1, <2>1, <2>2 DEF TableInv, OrderInv, Closing, ExitFds
  <2>5. LoopFds'
    BY <2>1, <2>2, <2>3 DEF LoopFds, Own, Closing
  <2> QED BY <2>4, <2>5 DEF ParentInv
<1>2. CASE CheckRedirects /\ ~RedirectsAreSane(line)
  <2>1. pc = "sane" /\ ExitError /\ UNCHANGED <<line, t, fds, host, cst>>
    BY <1>2 DEF CheckRedirects, kernel, children
  <2>2. Own = {} /\ 0 \in Fd
    BY <1>t, <2>1, FdAssumption DEF LoopFds
  <2> QED BY <2>1, <2>2, ErrorWire
<1>3. CASE PrepareTask
  <2>1. /\ pc = "prep" /\ pc' = "populate" /\ i' = 1
        /\ prev' = files.out_rd_pipe /\ files' = StdFiles
        /\ UNCHANGED <<line, t, exiting, retval, fds, host, cst>>
    BY <1>3 DEF PrepareTask, kernel, children
  <2>2. ~exiting
    BY <1>t, <2>1 DEF OrderInv, Closing
  <2>3. TableInv' /\ OrderInv' /\ ExitFds'
    BY <1>t, <2>1, <2>2 DEF TableInv, OrderInv, Closing, ExitFds
  <2>4. Own' \subseteq {prev'} /\ PipeTo(prev, t - 1)'
    BY <1>t, <2>1 DEF LoopFds, Own, PipeTo
  <2>5. i' - 1 = 0 /\ Redirects' = Redirects /\ Len(Redirects) \in Nat
    BY <2>1, WireFacts DEF Redirects
  <2>6. FilesSoFar(Redirects, 0, t, files', fds')
    <3>1. /\ InSoFar(Redirects, 0, t, files', fds')
          /\ OutSoFar(Redirects, 0, t, files', fds')
          /\ ErrSoFar(Redirects, 0, t, files', fds')
          /\ RdSoFar(Redirects, 0, t, files', fds')
      BY <2>1, SoFarNone DEF InSoFar, OutSoFar, ErrSoFar, RdSoFar, StdFiles
    <3> QED BY <3>1 DEF FilesSoFar
  <2>7. LoopFds'
    BY <2>1, <2>4, <2>5, <2>6, SoFarNone DEF LoopFds, Closing
  <2> QED BY <2>3, <2>7 DEF ParentInv
<1> QED BY <1>1, <1>2, <1>3

(* The read end a task leaves for the next is none of its other files.      *)
LEMMA RdDistinct ==
  ASSUME NEW rs, SaneList(rs), NEW n \in 0..Len(rs), NEW k \in Nat, NEW f, NEW tab,
         FilesSoFar(rs, n, k, f, tab), SoFar(rs, n, "out", "pipe")
  PROVE  f.out_rd_pipe \notin {f.in, f.out, f.err}
<1>1. Is(tab, f.out_rd_pipe, RdEnd(k))
  BY DEF FilesSoFar, RdSoFar
<1>2. /\ \A s \in Streams : OpenFile(s, k) # RdEnd(k)
      /\ WrEnd(k) # RdEnd(k) /\ RdEnd(k - 1) # RdEnd(k)
  BY DEF OpenFile, RdEnd, WrEnd, Streams
<1>3. f.in # f.out_rd_pipe
  <2>1. \/ SoFar(rs, n, "in", "file") \/ SoFar(rs, n, "in", "pipe") \/ PlainSoFar(rs, n, "in")
    BY NeverSoFar DEF PlainSoFar, Targets
  <2> QED BY <1>1, <1>2, <2>1 DEF FilesSoFar, InSoFar, Is, Streams
<1>4. f.out # f.out_rd_pipe
  BY <1>1, <1>2 DEF FilesSoFar, OutSoFar, Is
<1>5. f.err # f.out_rd_pipe
  <2>1. \/ SoFar(rs, n, "err", "file") \/ SoFar(rs, n, "err", "share") \/ PlainSoFar(rs, n, "err")
    BY NeverSoFar DEF PlainSoFar, Targets
  <2> QED BY <1>1, <1>2, <1>4, <2>1 DEF FilesSoFar, ErrSoFar, Is, Streams
<1> QED BY <1>3, <1>4, <1>5

(* What was so far is what is written once all redirects are read.          *)
LEMMA AllRead ==
  ASSUME NEW l \in Lines, NEW k \in 1..Len(l)
  PROVE  LET rs == l[k].redirects IN
         /\ \A s \in Streams, tgt \in Targets :
               SoFar(rs, Len(rs), s, tgt) <=> HasRedirect(l[k], s, tgt)
         /\ \A s, tgt, s2, tgt2 :
               BeforeSoFar(rs, Len(rs), s, tgt, s2, tgt2) <=> Before(l[k], s, tgt, s2, tgt2)
<1> DEFINE rs == l[k].redirects
<1>1. rs \in Seq(Redirect)
  BY LineFacts
<1>2. \A m \in 1..Len(rs) : rs[m] \in Redirect
  BY <1>1
<1>3. \A m \in 1..Len(rs), s \in Streams, tgt \in Targets :
        rs[m] = [stream |-> s, target |-> tgt] <=> rs[m].stream = s /\ rs[m].target = tgt
  BY <1>2 DEF Redirect
<1>4. \A s \in Streams, tgt \in Targets :
         SoFar(rs, Len(rs), s, tgt) <=> HasRedirect(l[k], s, tgt)
  <2> SUFFICES ASSUME NEW s \in Streams, NEW tgt \in Targets
               PROVE  SoFar(rs, Len(rs), s, tgt) <=> HasRedirect(l[k], s, tgt)
    OBVIOUS
  <2>1. SoFar(rs, Len(rs), s, tgt)
          <=> \E m \in 1..Len(rs) : rs[m].stream = s /\ rs[m].target = tgt
    BY <1>3 DEF SoFar
  <2> QED BY <2>1 DEF HasRedirect
<1>5. \A s, tgt, s2, tgt2 :
         BeforeSoFar(rs, Len(rs), s, tgt, s2, tgt2) <=> Before(l[k], s, tgt, s2, tgt2)
  BY DEF BeforeSoFar, Before
<1> QED BY <1>4, <1>5

(* When a task is forked its files are all there, the pipe of the task      *)
(* before is its stdin, and the read end of its own is kept for the next.   *)
LEMMA ReadyToFork ==
  ASSUME TypeOK, ParentInv, pc = "populate", i > Len(Redirects)
  PROVE  /\ FilesSoFar(Redirects, Len(Redirects), t, files, fds)
         /\ Own \subseteq {files.in, files.out, files.err, files.out_rd_pipe}
         /\ PipeTo(files.out_rd_pipe, t)
         /\ files.out_rd_pipe \notin {files.in, files.out, files.err} \/ files.out_rd_pipe = 0
<1>t. /\ line \in Lines /\ t \in 1..Len(line) /\ t \in Nat /\ i \in Nat \ {0} /\ Len(line) \in Nat
      /\ Redirects \in Seq(Redirect) /\ Len(Redirects) \in Nat
      /\ TableInv /\ OrderInv /\ LoopFds
  BY WireFacts DEF ParentInv
<1> DEFINE n == Len(Redirects)
<1>1. /\ i <= n + 1
      /\ Own \subseteq {prev, files.in, files.out, files.err, files.out_rd_pipe}
      /\ PipeTo(prev, t - 1)
      /\ SoFar(Redirects, i - 1, "in", "pipe") => files.in = prev
      /\ FilesSoFar(Redirects, i - 1, t, files, fds)
  BY <1>t DEF LoopFds
<1>2. i - 1 = n
  BY <1>t, <1>1
<1>3. SaneList(Redirects)
  BY <1>t, SaneLists DEF OrderInv, Closing, Redirects
<1>4. /\ "in" \in Streams /\ "out" \in Streams /\ "pipe" \in Targets
      /\ IsLine(line)
  BY <1>t, LineAssumption DEF Streams, Targets
<1>5. prev \in Own => prev = files.in
  <2> SUFFICES ASSUME prev \in Own PROVE prev = files.in
    OBVIOUS
  <2>1. prev # 0
    BY <1>t, OwnAboveStd DEF TableInv
  <2>2. t - 1 \in 1..Len(line) /\ Piped(line, t - 1)
    BY <1>1, <2>1 DEF PipeTo
  <2>3. t - 1 \in 1..(Len(line) - 1) /\ HasRedirect(line[t - 1], "out", "pipe")
    BY <1>t, <2>2 DEF Piped
  <2>4. (t - 1) + 1 = t
    BY <1>t
  <2>5. HasRedirect(line[t], "in", "pipe")
    BY <1>4, <2>3, <2>4 DEF IsLine
  <2>6. SoFar(Redirects, n, "in", "pipe")
    BY <1>t, <1>4, <2>5, AllRead DEF Redirects
  <2> QED BY <1>1, <1>2, <2>6
<1>6. Own \subseteq {files.in, files.out, files.err, files.out_rd_pipe}
  BY <1>1, <1>5
<1>7. SoFar(Redirects, n, "out", "pipe") <=> Piped(line, t)
  <2>1. SoFar(Redirects, n, "out", "pipe") <=> HasRedirect(line[t], "out", "pipe")
    BY <1>t, <1>4, AllRead DEF Redirects
  <2>2. HasRedirect(line[t], "out", "pipe") => t # Len(line)
    BY <1>4 DEF IsLine
  <2> QED BY <1>t, <2>1, <2>2 DEF Piped
<1>8. RdSoFar(Redirects, n, t, files, fds)
  BY <1>1, <1>2 DEF FilesSoFar
<1>9. PipeTo(files.out_rd_pipe, t)
  BY <1>t, <1>7, <1>8 DEF PipeTo, RdSoFar
<1>10. files.out_rd_pipe \notin {files.in, files.out, files.err} \/ files.out_rd_pipe = 0
  <2>1. CASE SoFar(Redirects, n, "out", "pipe")
    <3>1. n \in 0..n
      BY <1>t
    <3> QED BY <1>t, <1>1, <1>2, <1>3, <2>1, <3>1, RdDistinct
  <2>2. CASE ~SoFar(Redirects, n, "out", "pipe")
    BY <1>8, <2>2 DEF RdSoFar
  <2> QED BY <2>1, <2>2
<1> QED BY <1>1, <1>2, <1>6, <1>9, <1>10

(* fork, whether it succeeds or not, leaves the parent's table alone.       *)
LEMMA ForkWire ==
  ASSUME TypeOK, ParentInv, Fork \/ ForkFails
  PROVE  ParentInv'
<1>t. TableInv /\ OrderInv /\ cst \in [Tid -> ChildStates] /\ t \in Nat
  BY WireFacts DEF ParentInv
<1>1. /\ pc = "populate" /\ i > Len(Redirects) /\ pc' = "close_in"
      /\ UNCHANGED <<line, t, files, exiting, retval, fds, host>>
      /\ \A c \in Tid : c # t => cst'[c] = cst[c]
  BY <1>t DEF Fork, ForkFails, kernel, children
<1>2. ~exiting
  BY <1>t, <1>1 DEF OrderInv, Closing
<1>3. /\ Own \subseteq {files.in, files.out, files.err, files.out_rd_pipe}
      /\ PipeTo(files.out_rd_pipe, t)
      /\ files.out_rd_pipe \notin {files.in, files.out, files.err} \/ files.out_rd_pipe = 0
  BY <1>1, ReadyToFork
<1>4. TableInv' /\ ExitFds'
  BY <1>t, <1>1, <1>2 DEF TableInv, ExitFds
<1>5. OrderInv'
  <2>1. \A c \in Tid : c > t => cst'[c] = "none"
    BY <1>t, <1>1 DEF OrderInv
  <2> QED BY <1>t, <1>1, <1>2, <2>1 DEF OrderInv, Closing
<1>6. ToClose' = {files.in, files.out, files.err}
  BY <1>1 DEF ToClose
<1>7. Own' = Own /\ PipeTo(files.out_rd_pipe, t)'
  BY <1>1, <1>3 DEF Own, PipeTo
<1>8. LoopFds'
  BY <1>1, <1>3, <1>6, <1>7 DEF LoopFds, Closing
<1> QED BY <1>4, <1>5, <1>8 DEF ParentInv

(* _sf1_close_child_files takes one descriptor after the other off what is  *)
(* left to close; a standard one was never the parent's own.                *)
LEMMA CloseOneWire ==
  ASSUME TypeOK, ParentInv, Closing, NEW s \in Streams, NEW next,
         CloseOne(s, next), files[s] \in ToClose,
         ToClose \subseteq ToClose' \cup {files[s]}, ToClose' \subseteq ToClose,
         next \in {"close_out", "close_err", "free", "chain"},
         next = "free" => exiting, next = "chain" => ~exiting /\ ToClose' = {}
  PROVE  ParentInv'
<1>t. /\ files \in TaskFiles /\ fds \in [Fd -> Objects] /\ files[s] \in -1..MaxFd
      /\ files.out_rd_pipe \in Fd /\ exiting \in BOOLEAN
      /\ TableInv /\ OrderInv /\ LoopFds /\ ExitFds /\ t \in Nat
  BY WireFacts DEF ParentInv, TaskFiles, Streams
<1>1. /\ pc' = next
      /\ UNCHANGED <<line, t, exiting, retval, host, cst>>
      /\ files'.out_rd_pipe = files.out_rd_pipe
      /\ \A e \in Fd : fds'[e] = IF e > 2 /\ e = files[s] THEN Closed ELSE fds[e]
  <2>1. StdFiles[s] \in -1..MaxFd
    BY FdAssumption DEF StdFiles, Streams
  <2>2. CASE OwnedFd(files[s])
    <3>1. /\ fds' = [fds EXCEPT ![files[s]] = Closed]
          /\ files' = [files EXCEPT ![s] = StdFiles[s]]
      BY <2>2 DEF CloseOne, AfterClose
    <3>2. files'.out_rd_pipe = files.out_rd_pipe
      BY <1>t, <2>1, <3>1, SetFile
    <3> QED BY <1>t, <2>2, <3>1, <3>2 DEF CloseOne, OwnedFd, children
  <2>3. CASE ~OwnedFd(files[s])
    BY <1>t, <2>3 DEF CloseOne, OwnedFd, children
  <2> QED BY <2>2, <2>3
<1>2. Own' = Own \ {files[s]}
  <2>1. ASSUME NEW e \in Own' PROVE e \in Own /\ e # files[s]
    <3>1. e \in Fd /\ fds'[e] # Closed /\ fds'[e].kind # "host"
      BY DEF Own
    <3>2. e \in 0..2 => fds[e] = HostFile(e)
      BY <1>t DEF TableInv
    <3>3. fds'[e] = fds[e] /\ ~(e > 2 /\ e = files[s])
      BY <1>1, <3>1
    <3>4. e \in 0..2 => FALSE
      BY <3>1, <3>2, <3>3 DEF HostFile
    <3> QED BY <3>1, <3>3, <3>4 DEF Own
  <2>2. ASSUME NEW e \in Own, e # files[s] PROVE e \in Own'
    BY <1>1, <2>2 DEF Own
  <2> QED BY <2>1, <2>2
<1>4. TableInv'
  BY <1>t, <1>1, FdAssumption DEF TableInv, Closed
<1>5. OrderInv'
  BY <1>t, <1>1 DEF OrderInv, Closing
<1>6. ExitFds'
  <2> SUFFICES ASSUME exiting
               PROVE  /\ \E x \in Fd : Own' \subseteq ToClose' \cup {x} /\ (x \in Own' => Orphan(x)')
                      /\ retval # -1 => Own' \subseteq ToClose'
    BY <1>1 DEF ExitFds
  <2>1. PICK x \in Fd : Own \subseteq ToClose \cup {x} /\ (x \in Own => Orphan(x))
    BY <1>t DEF ExitFds
  <2>2. Own' \subseteq ToClose' \cup {x}
    BY <1>2, <2>1
  <2>3. x \in Own' => Orphan(x)'
    <3> SUFFICES ASSUME x \in Own' PROVE Orphan(x)'
      OBVIOUS
    <3>1. x \in Own /\ x # files[s] /\ x \in Fd
      BY <1>2
    <3>2. fds'[x] = fds[x]
      BY <1>1, <3>1
    <3> QED BY <1>1, <2>1, <3>1, <3>2 DEF Orphan
  <2>4. retval # -1 => Own' \subseteq ToClose'
    BY <1>t, <1>2 DEF ExitFds
  <2> QED BY <2>2, <2>3, <2>4
<1>7. LoopFds'
  <2>1. CASE exiting
    BY <1>1, <2>1 DEF LoopFds, Closing
  <2>2. CASE ~exiting
    <3>1. /\ Own \subseteq ToClose \cup {files.out_rd_pipe}
          /\ PipeTo(files.out_rd_pipe, t)
          /\ files.out_rd_pipe \notin ToClose \/ files.out_rd_pipe = 0
      BY <1>t, <2>2 DEF LoopFds
    <3>2. Own' \subseteq ToClose' \cup {files'.out_rd_pipe}
      BY <1>1, <1>2, <3>1
    <3>3. PipeTo(files.out_rd_pipe, t)'
      <4>1. CASE files.out_rd_pipe = 0
        BY <1>1, <3>1, <4>1 DEF PipeTo, Is
      <4>2. CASE files.out_rd_pipe # 0
        <5>1. fds'[files.out_rd_pipe] = fds[files.out_rd_pipe]
          BY <1>t, <1>1, <3>1, <4>2
        <5> QED BY <1>1, <3>1, <5>1 DEF PipeTo, Is
      <4> QED BY <4>1, <4>2
    <3>4. files'.out_rd_pipe \notin ToClose' \/ files'.out_rd_pipe = 0
      BY <1>1, <3>1
    <3> QED BY <1>1, <3>2, <3>3, <3>4 DEF LoopFds, Closing
  <2> QED BY <2>1, <2>2
<1> QED BY <1>4, <1>5, <1>6, <1>7 DEF ParentInv

(* The three steps of _sf1_close_child_files.                               *)
LEMMA ClosingWire ==
  ASSUME TypeOK, ParentInv, CloseIn \/ CloseOut \/ CloseErr
  PROVE  ParentInv'
<1>t. files \in TaskFiles /\ exiting \in BOOLEAN
  BY WireFacts
<1>1. ASSUME NEW s \in Streams, NEW next, CloseOne(s, next), NEW u \in Streams, u # s
      PROVE  files'[u] = files[u]
  <2>1. StdFiles[s] \in -1..MaxFd
    BY FdAssumption DEF StdFiles, Streams
  <2>2. files' = [files EXCEPT ![s] = StdFiles[s]] \/ files' = files
    BY <1>1 DEF CloseOne, AfterClose
  <2>3. [files EXCEPT ![s] = StdFiles[s]][u] = files[u]
    BY <1>t, <1>1, <2>1, SetFile
  <2> QED BY <2>2, <2>3
<1>s. "in" \in Streams /\ "out" \in Streams /\ "err" \in Streams
  BY DEF Streams
<1>2. CASE CloseIn
  <2>1. pc = "close_in" /\ CloseOne("in", "close_out") /\ pc' = "close_out"
    BY <1>2 DEF CloseIn, CloseOne
  <2>2. files'["out"] = files["out"] /\ files'["err"] = files["err"]
    BY <1>1, <1>s, <2>1
  <2>3. ToClose = {files.in, files.out, files.err} /\ ToClose' = {files.out, files.err}
    BY <2>1, <2>2 DEF ToClose
  <2> QED BY <1>s, <2>1, <2>3, CloseOneWire DEF Closing
<1>3. CASE CloseOut
  <2>1. pc = "close_out" /\ CloseOne("out", "close_err") /\ pc' = "close_err"
    BY <1>3 DEF CloseOut, CloseOne
  <2>2. files'["err"] = files["err"]
    BY <1>1, <1>s, <2>1
  <2>3. ToClose = {files.out, files.err} /\ ToClose' = {files.err}
    BY <2>1, <2>2 DEF ToClose
  <2> QED BY <1>s, <2>1, <2>3, CloseOneWire DEF Closing
<1>4. CASE CloseErr
  <2> DEFINE next == IF exiting THEN "free" ELSE "chain"
  <2>1. pc = "close_err" /\ CloseOne("err", next) /\ pc' = next
    BY <1>4 DEF CloseErr, CloseOne
  <2>2. ToClose = {files.err} /\ ToClose' = {}
    BY <2>1 DEF ToClose
  <2> QED BY <1>s, <1>t, <2>1, <2>2, CloseOneWire DEF Closing
<1> QED BY <1>2, <1>3, <1>4

(* From one task to the next, or out of the loop with a status.             *)
LEMMA NextTaskWire ==
  ASSUME TypeOK, ParentInv, pc \in {"chain", "wait"}, NEW ret,
         Own \subseteq {files.out_rd_pipe}, PipeTo(files.out_rd_pipe, t),
         UNCHANGED <<line, files, fds, host, cst>>,
         \/ NextTask(ret) /\ (t < Len(line) \/ Own = {})
         \/ LeaveLoop(ret) /\ UNCHANGED t /\ Own = {}
  PROVE  ParentInv'
<1>t. /\ t \in 1..Len(line) /\ t \in Nat /\ Len(line) \in Nat /\ TableInv /\ OrderInv
  BY WireFacts DEF ParentInv
<1>1. TableInv' /\ Own' = Own /\ ~exiting
  BY <1>t DEF TableInv, Own, OrderInv, Closing
<1>2. \A c \in Tid : c > t => cst[c] = "none"
  BY <1>t DEF OrderInv
<1>3. CASE LeaveLoop(ret) /\ UNCHANGED t /\ Own = {}
  <2>1. pc' = "close_in" /\ exiting' = TRUE
    BY <1>3 DEF LeaveLoop
  <2>2. OrderInv' /\ LoopFds'
    BY <1>2, <1>3, <2>1 DEF OrderInv, LoopFds, Closing
  <2>3. ExitFds'
    BY <1>1, <1>3, FdAssumption DEF ExitFds
  <2> QED BY <1>1, <2>2, <2>3 DEF ParentInv
<1>4. CASE NextTask(ret) /\ t < Len(line)
  <2>1. t' = t + 1 /\ pc' = "prep" /\ UNCHANGED exiting /\ t' - 1 = t
    BY <1>t, <1>4 DEF NextTask
  <2>2. OrderInv' /\ ExitFds'
    BY <1>t, <1>1, <1>2, <2>1 DEF OrderInv, ExitFds, Closing
  <2>3. PipeTo(files.out_rd_pipe, t - 1)'
    BY <2>1 DEF PipeTo
  <2>4. LoopFds'
    BY <1>1, <2>1, <2>3 DEF LoopFds, Closing
  <2> QED BY <1>1, <2>2, <2>4 DEF ParentInv
<1>5. CASE NextTask(ret) /\ ~(t < Len(line))
  BY <1>3, <1>5 DEF NextTask
<1> QED BY <1>3, <1>4, <1>5

(* The pid goes into the chain; the read end is kept for the next task.     *)
LEMMA AddPidWire ==
  ASSUME TypeOK, ParentInv, AddPid
  PROVE  ParentInv'
<1>t. TableInv /\ OrderInv /\ LoopFds
  BY DEF ParentInv
<1>1. pc = "chain" /\ UNCHANGED <<line, files, fds, host, cst>>
  BY DEF AddPid, kernel, children
<1>2. Own \subseteq {files.out_rd_pipe} /\ PipeTo(files.out_rd_pipe, t)
  BY <1>t, <1>1 DEF LoopFds, ToClose
<1>3. CASE ShouldWait(files)
  <2>1. pc' = "wait" /\ UNCHANGED <<t, retval, exiting>> /\ files.out_rd_pipe = 0
    BY <1>3 DEF AddPid, ShouldWait
  <2>2. Own = {}
    BY <1>t, <1>2, <2>1, OwnAboveStd DEF TableInv
  <2>3. TableInv' /\ OrderInv' /\ ExitFds'
    BY <1>t, <1>1, <2>1 DEF TableInv, OrderInv, ExitFds, Closing
  <2>4. LoopFds'
    BY <1>1, <1>2, <2>1, <2>2 DEF LoopFds, Own, PipeTo, Closing
  <2> QED BY <2>3, <2>4 DEF ParentInv
<1>4. CASE ~ShouldWait(files)
  <2>1. NextTask(retval) /\ files.out_rd_pipe # 0
    BY <1>4 DEF AddPid, ShouldWait
  <2>2. t < Len(line)
    BY <1>2, <2>1 DEF PipeTo, Piped
  <2> QED BY <1>1, <1>2, <2>1, <2>2, NextTaskWire
<1> QED BY <1>3, <1>4

(* After the wait the parent has no descriptor of its own.                  *)
LEMMA DecideWire ==
  ASSUME TypeOK, ParentInv, Decide
  PROVE  ParentInv'
<1>1. pc = "wait" /\ UNCHANGED <<line, files, fds, host, cst>>
  BY DEF Decide, kernel, children
<1>2. Own = {} /\ files.out_rd_pipe = 0 /\ PipeTo(files.out_rd_pipe, t)
  BY <1>1 DEF ParentInv, LoopFds
<1>3. \E ret : NextTask(ret) \/ (LeaveLoop(ret) /\ UNCHANGED t)
  <2>1. PICK x \in Statuses \cup Unset :
          CASE x.kind = "signal" -> ExitError /\ UNCHANGED t
            [] x.kind # "signal" /\ StopsLoop(t, IF x.kind = "exit" THEN x.code ELSE 0) ->
                 LeaveLoop(x.code) /\ UNCHANGED t
            [] OTHER -> NextTask(x.code)
    BY DEF Decide, TypeOK, ChainType
  <2> QED BY <2>1 DEF ExitError
<1> QED BY <1>1, <1>2, <1>3, NextTaskWire

(* Steps that leave the parent's descriptors alone, and may move children   *)
(* on that are there already.                                              *)
LEMMA FrameWire ==
  ASSUME ParentInv, UNCHANGED <<line, t, i, files, prev, exiting, retval, fds, host>>,
         \A c \in Tid : cst[c] = "none" => cst'[c] = "none", TypeOK,
         \/ UNCHANGED pc
         \/ pc = "wait" /\ pc' = "aborted"
         \/ pc = "free" /\ pc' = "returned"
  PROVE  ParentInv'
<1>1. TableInv /\ OrderInv /\ LoopFds /\ ExitFds
  BY DEF ParentInv
<1>2. TableInv' /\ Own' = Own /\ ToClose' = ToClose /\ Redirects' = Redirects
  BY <1>1 DEF TableInv, Own, ToClose, Redirects
<1>3. \A d, k : PipeTo(d, k) => PipeTo(d, k)'
  BY DEF PipeTo
<1>4. \A d : Orphan(d) => Orphan(d)'
  <2> SUFFICES ASSUME NEW d, Orphan(d) PROVE Orphan(d)'
    OBVIOUS
  <2>1. PICK k \in 1..t : fds[d] = RdEnd(k) /\ Piped(line, k) /\ cst[k + 1] = "none"
    BY DEF Orphan
  <2>2. k + 1 \in Tid
    BY <2>1, WireFacts, LineAssumption DEF Piped
  <2> QED BY <2>1, <2>2 DEF Orphan
<1>5. OrderInv'
  BY <1>1 DEF OrderInv, Closing
<1>6. LoopFds'
  <2>1. CASE UNCHANGED pc
    BY <1>1, <1>2, <1>3, <2>1 DEF LoopFds, Closing
  <2>2. CASE pc' \in {"aborted", "returned"}
    BY <2>2 DEF LoopFds, Closing
  <2> QED BY <2>1, <2>2
<1>7. ExitFds'
  BY <1>1, <1>2, <1>4 DEF ExitFds
<1> QED BY <1>2, <1>5, <1>6, <1>7 DEF ParentInv

(* waitpid, and the return.                                                 *)
LEMMA WaitWire ==
  ASSUME TypeOK, ParentInv, WaitPid \/ Return
  PROVE  ParentInv'
<1>1. CASE WaitPid
  <2>1. /\ pc = "wait" /\ (pc' = pc \/ pc' = "aborted")
        /\ UNCHANGED <<line, t, files, prev, exiting, retval, fds, host>>
    BY <1>1 DEF WaitPid, kernel
  <2>2. \A c \in Tid : cst[c] = "none" => cst'[c] = "none"
    <3>1. PICK r \in WaitOutcomes(chain[i]) :
            IF r.child \in Tid THEN cst' = [cst EXCEPT ![r.child] = "reaped"] ELSE UNCHANGED cst
      BY <1>1 DEF WaitPid
    <3>2. r.child \in Tid => Unreaped(r.child)
      BY <3>1 DEF WaitOutcomes
    <3> QED BY <3>1, <3>2, WireFacts DEF Unreaped
  <2>3. TableInv /\ OrderInv /\ LoopFds /\ ~exiting
    BY <2>1 DEF ParentInv, OrderInv, Closing
  <2>4. TableInv' /\ OrderInv' /\ ExitFds'
    BY <2>1, <2>2, <2>3 DEF TableInv, OrderInv, ExitFds, Closing
  <2>5. Own' = Own /\ (PipeTo(0, t) => PipeTo(0, t)')
    BY <2>1 DEF Own, PipeTo
  <2>6. LoopFds'
    BY <2>1, <2>3, <2>5 DEF LoopFds, Closing
  <2> QED BY <2>4, <2>6 DEF ParentInv
<1>2. CASE Return
  BY <1>2, FrameWire DEF Return, kernel, children
<1> QED BY <1>1, <1>2

(* Another thread opens a file.                                             *)
LEMMA HostOpensWire ==
  ASSUME TypeOK, ParentInv, HostOpens
  PROVE  ParentInv'
<1>t. /\ TableInv /\ OrderInv /\ LoopFds /\ ExitFds /\ fds \in [Fd -> Objects]
      /\ files \in TaskFiles /\ files.out_rd_pipe \in Fd /\ prev \in Fd
  BY WireFacts DEF ParentInv, TaskFiles
<1>1. PICK d \in Fd : /\ LowestFree(fds, d)
                      /\ fds' = [fds EXCEPT ![d] = HostFile(d)]
                      /\ host' = host \cup {d}
  BY DEF HostOpens
<1>2. UNCHANGED <<pc, line, t, i, files, prev, exiting, retval, cst>>
  BY DEF HostOpens, locals, children
<1>3. /\ d > 2 /\ Grows(fds, fds') /\ fds'[d] = HostFile(d) /\ fds[d] = Closed
      /\ \A e \in Fd : e # d => fds'[e] = fds[e]
  BY <1>t, <1>1, FreshFds DEF LowestFree
<1>4. Own' = Own
  BY <1>3 DEF Own, HostFile
<1>5. TableInv'
  BY <1>t, <1>1, <1>3, FdAssumption DEF TableInv
<1>6. OrderInv'
  BY <1>t, <1>2 DEF OrderInv, Closing
<1>7. \A e \in Own : fds'[e] = fds[e]
  BY <1>3 DEF Own
<1>8. ToClose' = ToClose /\ Redirects' = Redirects
  BY <1>2 DEF ToClose, Redirects
<1>9. ExitFds'
  <2>1. \A e \in Own : Orphan(e) => Orphan(e)'
    BY <1>2, <1>7 DEF Orphan
  <2> QED BY <1>t, <1>2, <1>4, <1>8, <2>1 DEF ExitFds
<1>10. LoopFds'
  <2>1. \A e \in Fd : \A k : PipeTo(e, k) => PipeTo(e, k)'
    BY <1>2, <1>3, PipeStays
  <2>2. 0 \in Fd
    BY FdAssumption
  <2>3. FilesSoFar(Redirects, i - 1, t, files, fds) => FilesSoFar(Redirects, i - 1, t, files, fds')
    BY <1>t, <1>3, FilesStay
  <2> QED BY <1>t, <1>2, <1>4, <1>8, <2>1, <2>2, <2>3 DEF LoopFds, Closing
<1> QED BY <1>5, <1>6, <1>9, <1>10 DEF ParentInv

(***************************************************************************)
(* The children                                                            *)
(***************************************************************************)
(* The three dup2 of the child, in their order: what they make of 0, 1 and  *)
(* 2 when stderr may follow stdout by number.                               *)
LEMMA DupFacts ==
  ASSUME NEW tab \in [Fd -> Objects], NEW f, f.in \in Fd, f.out \in Fd, f.err \in Fd,
         tab[f.in] # Closed, tab[f.out] # Closed, tab[f.err] # Closed,
         f.out # 0, f.err # 0
  PROVE  LET std == CloseUpper(DupStdio(tab, f)) IN
         /\ std[0] = tab[f.in]
         /\ std[1] = tab[f.out]
         /\ std[2] = IF f.err = 1 THEN tab[f.out] ELSE tab[f.err]
<1>1. 0 \in Fd /\ 1 \in Fd /\ 2 \in Fd /\ Fd \subseteq -1..MaxFd
  BY FdAssumption
<1>2. PICK T1 : T1 = Dup2(tab, f.in, 0)
  OBVIOUS
<1>3. PICK T2 : T2 = Dup2(T1, f.out, 1)
  OBVIOUS
<1>4. PICK T3 : T3 = Dup2(T2, f.err, 2)
  OBVIOUS
<1>5. T1 \in [Fd -> Objects] /\ T2 \in [Fd -> Objects]
  BY <1>1, <1>2, <1>3, Dup2Type
<1>6. T1[0] = tab[f.in] /\ \A e \in Fd : e # 0 => T1[e] = tab[e]
  BY <1>1, <1>2 DEF Dup2
<1>7. T2[1] = tab[f.out] /\ \A e \in Fd : e # 1 => T2[e] = T1[e]
  <2>1. T1[f.out] = tab[f.out]
    BY <1>6
  <2> QED BY <1>1, <1>3, <1>5, <2>1 DEF Dup2
<1>8. T3[2] = T2[f.err] /\ \A e \in Fd : e # 2 => T3[e] = T2[e]
  <2>1. T2[f.err] # Closed
    BY <1>6, <1>7
  <2> QED BY <1>1, <1>4, <1>5, <2>1 DEF Dup2
<1>9. DupStdio(tab, f) = T3
  BY <1>2, <1>3, <1>4 DEF DupStdio
<1>10. \A e \in 0..2 : CloseUpper(DupStdio(tab, f))[e] = T3[e]
  BY <1>1, <1>9 DEF CloseUpper
<1> QED BY <1>1, <1>6, <1>7, <1>8, <1>10

(* A child whose files are as written is wired as written.                  *)
LEMMA SetupWires ==
  ASSUME TypeOK, NEW c \in 1..Len(line), c \in Tid, ChildSetup(c),
         FilesSoFar(line[c].redirects, Len(line[c].redirects), c, cfiles[c], cfd[c]),
         \A d \in 0..2 : cfd[c][d] = HostFile(d)
  PROVE  Wired(c)'
<1> DEFINE rs == line[c].redirects
           n == Len(rs)
           f == cfiles[c]
           tab == cfd[c]
           std == cfd'[c]
<1>t. line \in Lines /\ f \in TaskFiles /\ tab \in [Fd -> Objects] /\ IsLine(line)
  BY WireFacts, LineAssumption
<1>1. /\ InSoFar(rs, n, c, f, tab) /\ OutSoFar(rs, n, c, f, tab)
      /\ ErrSoFar(rs, n, c, f, tab) /\ RdSoFar(rs, n, c, f, tab)
  BY DEF FilesSoFar
<1>2. /\ \A s \in Streams, tgt \in Targets : SoFar(rs, n, s, tgt) <=> HasRedirect(line[c], s, tgt)
      /\ \A s, tgt, s2, tgt2 :
            BeforeSoFar(rs, n, s, tgt, s2, tgt2) <=> Before(line[c], s, tgt, s2, tgt2)
  BY <1>t, AllRead
<1>3. \A s \in Streams : PlainSoFar(rs, n, s) <=> \A tgt \in Targets : ~HasRedirect(line[c], s, tgt)
  BY <1>2 DEF PlainSoFar
<1>s. /\ "in" \in Streams /\ "out" \in Streams /\ "err" \in Streams
      /\ "file" \in Targets /\ "pipe" \in Targets /\ "share" \in Targets
      /\ \A tgt \in Targets : tgt \in {"file", "share", "pipe"}
  BY DEF Streams, Targets
<1>4. ~HasRedirect(line[c], "err", "pipe") /\ ~HasRedirect(line[c], "in", "share")
  BY <1>t DEF IsLine
<1>5. /\ tab[0] = HostFile(0) /\ tab[1] = HostFile(1) /\ tab[2] = HostFile(2)
      /\ HostFile(0) # Closed /\ HostFile(1) # Closed /\ HostFile(2) # Closed
      /\ 0 \in Fd /\ 1 \in Fd /\ 2 \in Fd
  BY ObjectFacts, FdAssumption
<1>6. \A d \in -1..MaxFd : \A obj : Is(tab, d, obj) => d \in Fd /\ d > 2 /\ tab[d] = obj
  BY FdAssumption DEF Is
<1>7. f.in \in -1..MaxFd /\ f.out \in -1..MaxFd /\ f.err \in -1..MaxFd
  BY <1>t DEF TaskFiles
<1> HIDE DEF rs, n, f, tab
<1>in. /\ f.in \in Fd /\ tab[f.in] # Closed
       /\ tab[f.in] = IF HasRedirect(line[c], "in", "file") THEN OpenFile("in", c)
                      ELSE IF HasRedirect(line[c], "in", "pipe") THEN RdEnd(c - 1)
                      ELSE HostFile(0)
  <2>1. CASE HasRedirect(line[c], "in", "file")
    <3>1. Is(tab, f.in, OpenFile("in", c))
      BY <1>1, <1>2, <1>s, <2>1 DEF InSoFar
    <3> QED BY <1>6, <1>7, <1>s, <2>1, <3>1, NotClosed
  <2>2. CASE ~HasRedirect(line[c], "in", "file") /\ HasRedirect(line[c], "in", "pipe")
    <3>1. Is(tab, f.in, RdEnd(c - 1))
      BY <1>1, <1>2, <1>s, <2>2 DEF InSoFar
    <3> QED BY <1>6, <1>7, <2>2, <3>1, NotClosed
  <2>3. CASE ~HasRedirect(line[c], "in", "file") /\ ~HasRedirect(line[c], "in", "pipe")
    <3>1. PlainSoFar(rs, n, "in")
      BY <1>3, <1>4, <1>s, <2>3
    <3>2. f.in = 0
      BY <1>1, <3>1 DEF InSoFar
    <3> QED BY <1>5, <2>3, <3>2
  <2> QED BY <2>1, <2>2, <2>3
<1>out. /\ HasRedirect(line[c], "out", "file") => Is(tab, f.out, OpenFile("out", c))
        /\ HasRedirect(line[c], "out", "pipe") => Is(tab, f.out, WrEnd(c))
        /\ HasRedirect(line[c], "out", "share") =>
             IF Before(line[c], "err", "file", "out", "share")
             THEN Is(tab, f.out, OpenFile("err", c))
             ELSE IF Before(line[c], "err", "share", "out", "share") THEN f.out = 1
             ELSE f.out = 2
        /\ (\A tgt \in Targets : ~HasRedirect(line[c], "out", tgt)) => f.out = 1
  BY <1>1, <1>2, <1>3, <1>s DEF OutSoFar
<1>8. /\ f.out \in Fd /\ f.out # 0 /\ tab[f.out] # Closed
  <2>1. \/ \E tgt \in {"file", "share", "pipe"} : HasRedirect(line[c], "out", tgt)
        \/ \A tgt \in Targets : ~HasRedirect(line[c], "out", tgt)
    BY <1>s
  <2>2. \/ f.out \in {1, 2}
        \/ Is(tab, f.out, OpenFile("out", c)) \/ Is(tab, f.out, WrEnd(c))
        \/ Is(tab, f.out, OpenFile("err", c))
    BY <1>out, <2>1
  <2> QED BY <1>5, <1>6, <1>7, <1>s, <2>2, NotClosed
<1>err. /\ HasRedirect(line[c], "err", "file") => Is(tab, f.err, OpenFile("err", c))
        /\ HasRedirect(line[c], "err", "share") => f.err \in {1, f.out}
        /\ (\A tgt \in Targets : ~HasRedirect(line[c], "err", tgt)) => f.err = 2
  BY <1>1, <1>2, <1>3, <1>s DEF ErrSoFar
<1>9. /\ f.err \in Fd /\ f.err # 0 /\ tab[f.err] # Closed
  <2>1. \/ HasRedirect(line[c], "err", "file") \/ HasRedirect(line[c], "err", "share")
        \/ \A tgt \in Targets : ~HasRedirect(line[c], "err", tgt)
    BY <1>4, <1>s
  <2>2. f.err \in {1, 2, f.out} \/ Is(tab, f.err, OpenFile("err", c))
    BY <1>err, <2>1
  <2> QED BY <1>5, <1>6, <1>7, <1>8, <1>s, <2>2, NotClosed
<1>10. std = CloseUpper(DupStdio(tab, f))
  BY WireFacts DEF ChildSetup, tab, f
<1>11. /\ std[0] = tab[f.in] /\ std[1] = tab[f.out]
       /\ std[2] = IF f.err = 1 THEN tab[f.out] ELSE tab[f.err]
  BY <1>t, <1>in, <1>8, <1>9, <1>10, DupFacts DEF tab
<1>12. line' = line
  BY DEF ChildSetup, locals
<1> HIDE DEF std
<1>13. /\ HasRedirect(line[c], "out", "file") => std[1] = OpenFile("out", c)
       /\ HasRedirect(line[c], "out", "pipe") => std[1] = WrEnd(c)
       /\ HasRedirect(line[c], "out", "share") =>
            std[1] = IF Before(line[c], "err", "file", "out", "share") THEN OpenFile("err", c)
                     ELSE IF Before(line[c], "err", "share", "out", "share") THEN HostFile(1)
                     ELSE HostFile(2)
       /\ (\A tgt \in Targets : ~HasRedirect(line[c], "out", tgt)) => std[1] = HostFile(1)
  BY <1>out, <1>5, <1>6, <1>7, <1>11
<1>14. /\ HasRedirect(line[c], "err", "file") => std[2] = OpenFile("err", c)
       /\ HasRedirect(line[c], "err", "share") => std[2] = std[1]
       /\ (\A tgt \in Targets : ~HasRedirect(line[c], "err", tgt)) => std[2] = HostFile(2)
  BY <1>err, <1>5, <1>6, <1>7, <1>11
<1> QED BY <1>in, <1>11, <1>12, <1>13, <1>14 DEF Wired, std

(* A child keeps what it has while its own table stays.                     *)
LEMMA ChildStays ==
  ASSUME ChildInv, NEW c \in Tid, line' = line, cfd'[c] = cfd[c], cfiles'[c] = cfiles[c],
         cst'[c] \in {cst[c], "running", "reaped", "zombie"},
         cst'[c] = "running" => cst[c] \in {"ready", "running"}
  PROVE  /\ cst'[c] = "forked" =>
              /\ FilesSoFar(line[c].redirects, Len(line[c].redirects), c, cfiles[c], cfd[c])'
              /\ \A d \in 0..2 : cfd'[c][d] = HostFile(d)
         /\ cst'[c] \in {"ready", "running"} => Wired(c)'
<1>1. CASE cst'[c] = "forked"
  <2>1. cst[c] = "forked"
    BY <1>1
  <2> QED BY <1>1, <2>1 DEF ChildInv
<1>2. CASE cst'[c] \in {"ready", "running"}
  <2>1. Wired(c)
    BY <1>2 DEF ChildInv
  <2>2. Wired(c)'
    BY <2>1 DEF Wired
  <2> QED BY <1>2, <2>2
<1> QED BY <1>1, <1>2

(* The parent's steps: fork hands a child its files, waitpid takes one away. *)
LEMMA ParentChildren ==
  ASSUME TypeOK, ParentInv, ChildInv, Parent
  PROVE  ChildInv'
<1>t. /\ cst \in [Tid -> ChildStates] /\ cfd \in [Tid -> [Fd -> Objects]]
      /\ cfiles \in [Tid -> TaskFiles] /\ t \in Tid
  BY WireFacts
<1>1. CASE Fork
  <2>1. /\ pc = "populate" /\ i > Len(Redirects) /\ line' = line
        /\ cst' = [cst EXCEPT ![t] = "forked"]
        /\ cfd' = [cfd EXCEPT ![t] = fds]
        /\ cfiles' = [cfiles EXCEPT ![t] = files]
    BY <1>1 DEF Fork
  <2> SUFFICES ASSUME NEW c \in Tid
               PROVE  /\ cst'[c] = "forked" =>
                           /\ FilesSoFar(line[c].redirects, Len(line[c].redirects), c,
                                         cfiles[c], cfd[c])'
                           /\ \A d \in 0..2 : cfd'[c][d] = HostFile(d)
                      /\ cst'[c] \in {"ready", "running"} => Wired(c)'
    BY DEF ChildInv
  <2>2. CASE c = t
    <3>1. cst'[t] = "forked" /\ cfd'[t] = fds /\ cfiles'[t] = files
      BY <1>t, <2>1
    <3>2. FilesSoFar(line[t].redirects, Len(line[t].redirects), t, files, fds)
      BY <2>1, ReadyToFork DEF Redirects
    <3>3. \A d \in 0..2 : fds[d] = HostFile(d)
      BY DEF ParentInv, TableInv
    <3> QED BY <2>1, <2>2, <3>1, <3>2, <3>3
  <2>3. CASE c # t
    <3>1. cst'[c] = cst[c] /\ cfd'[c] = cfd[c] /\ cfiles'[c] = cfiles[c]
      BY <1>t, <2>1, <2>3
    <3> QED BY <2>1, <3>1, ChildStays
  <2> QED BY <2>2, <2>3
<1>2. CASE WaitPid
  <2>1. PICK r \in WaitOutcomes(chain[i]) :
          IF r.child \in Tid THEN cst' = [cst EXCEPT ![r.child] = "reaped"] ELSE UNCHANGED cst
    BY <1>2 DEF WaitPid
  <2>2. \A c \in Tid : cst'[c] \in {cst[c], "reaped"}
    BY <1>t, <2>1
  <2>3. UNCHANGED <<line, cfd, cfiles>>
    BY <1>2 DEF WaitPid
  <2> QED BY <2>2, <2>3, ChildStays DEF ChildInv
<1>3. ASSUME ~Fork, ~WaitPid PROVE ChildInv'
  <2>1. UNCHANGED <<line, cst, cfd, cfiles>>
    BY <1>3 DEF Parent, CheckRedirects, PrepareTask, PrepareFails, OpenRedirect, OpenFails,
                ShareRedirect, StdinFromPipe, StdoutToPipe, StdoutToPipeFails, ForkFails,
                CloseIn, CloseOut, CloseErr, CloseOne, AddPid, AddPidFails, Decide, Return,
                NextRedirect, children
  <2> QED BY <2>1, ChildStays DEF ChildInv
<1> QED BY <1>1, <1>2, <1>3

(* The children's own steps.                                                *)
LEMMA ChildrenWire ==
  ASSUME WireInv, NEW c \in Tid, Child(c)
  PROVE  WireInv'
<1>t. /\ TypeOK /\ ParentInv /\ ChildInv /\ OrderInv
      /\ cst \in [Tid -> ChildStates] /\ cfd \in [Tid -> [Fd -> Objects]]
      /\ cfiles \in [Tid -> TaskFiles]
      /\ t \in 1..Len(line) /\ Len(line) \in Nat
  BY WireFacts DEF WireInv, ParentInv
<1>1. TypeOK'
  BY <1>t, ChildTypeOK
<1>2. /\ UNCHANGED <<pc, locals>> /\ cst[c] \in {"forked", "ready", "running"}
      /\ \A k \in Tid : k # c => cst'[k] = cst[k]
  BY <1>t, ChildMoves
<1>3. UNCHANGED <<fds, host, cfiles>>
  BY DEF Child, Proceeds, ChildSetup, ChildExec, ChildExecFails, ProgExits, ProgKilled, FilterEof,
         BrokenPipe, ProgWrites, Dies, kernel
<1>4. ParentInv'
  <2>1. UNCHANGED <<line, pc, t, i, files, prev, exiting, retval, fds, host>>
    BY <1>2, <1>3 DEF locals
  <2>2. \A k \in Tid : cst[k] = "none" => cst'[k] = "none"
    BY <1>2
  <2> QED BY <1>t, <2>1, <2>2, FrameWire
<1>5. \A k \in Tid : k # c => cfd'[k] = cfd[k]
  BY <1>t DEF Child, Proceeds, ChildSetup, ChildExec, ChildExecFails, ProgExits, ProgKilled,
              FilterEof, BrokenPipe, ProgWrites, Dies
<1>6. line' = line
  BY <1>2 DEF locals
<1>7. c \in 1..Len(line)
  <2>1. ~(c > t)
    BY <1>t, <1>2 DEF OrderInv
  <2> QED BY <1>t, <2>1
<1>8. /\ cst'[c] = "forked" =>
           /\ FilesSoFar(line[c].redirects, Len(line[c].redirects), c, cfiles[c], cfd[c])'
           /\ \A d \in 0..2 : cfd'[c][d] = HostFile(d)
      /\ cst'[c] \in {"ready", "running"} => Wired(c)'
  <2>1. CASE ChildSetup(c)
    <3>1. cst[c] = "forked" /\ cst'[c] = "ready"
      BY <1>t, <2>1 DEF ChildSetup
    <3>2. Wired(c)'
      BY <1>t, <1>7, <2>1, <3>1, SetupWires DEF ChildInv
    <3> QED BY <3>1, <3>2
  <2>2. CASE ChildExec(c) \/ ProgWrites(c)
    <3>1. cfd'[c] = cfd[c] /\ cst[c] \in {"ready", "running"} /\ cst'[c] = "running"
      BY <1>t, <2>2 DEF ChildExec, ProgWrites, WantsToWrite, Running
    <3> QED BY <1>t, <1>3, <1>6, <3>1, ChildStays
  <2>3. CASE ChildExecFails(c) \/ ProgExits(c) \/ ProgKilled(c) \/ FilterEof(c) \/ BrokenPipe(c)
    <3>1. cst'[c] = "zombie"
      BY <1>t, <2>3 DEF ChildExecFails, ProgExits, ProgKilled, FilterEof, BrokenPipe, Dies
    <3> QED BY <3>1
  <2> QED BY <2>1, <2>2, <2>3 DEF Child, Proceeds
<1>9. ChildInv'
  <2> SUFFICES ASSUME NEW k \in Tid
               PROVE  /\ cst'[k] = "forked" =>
                           /\ FilesSoFar(line[k].redirects, Len(line[k].redirects), k,
                                         cfiles[k], cfd[k])'
                           /\ \A d \in 0..2 : cfd'[k][d] = HostFile(d)
                      /\ cst'[k] \in {"ready", "running"} => Wired(k)'
    BY DEF ChildInv
  <2>1. CASE k = c
    BY <1>8, <2>1
  <2>2. CASE k # c
    <3>1. cst'[k] = cst[k] /\ cfd'[k] = cfd[k] /\ cfiles'[k] = cfiles[k]
      BY <1>2, <1>3, <1>5, <2>2
    <3> QED BY <1>t, <1>6, <3>1, ChildStays
  <2> QED BY <2>1, <2>2
<1> QED BY <1>1, <1>4, <1>9 DEF WireInv

(***************************************************************************)
(* The inductive invariant                                                 *)
(***************************************************************************)
(* It holds when the call is made ...                                       *)
LEMMA InitWire ==
  ASSUME 0..2 \subseteq HostFds
  PROVE  Init => WireInv
<1> SUFFICES ASSUME Init PROVE WireInv
  OBVIOUS
<1>1. /\ TypeOK /\ pc = "sane" /\ t = 1 /\ ~exiting /\ files = StdFiles
      /\ fds = [d \in Fd |-> IF d \in HostFds THEN HostFile(d) ELSE Closed]
      /\ host = HostFds
      /\ cst = [c \in Tid |-> "none"]
  BY InitTypeOK DEF Init
<1>2. TableInv
  BY <1>1, FdAssumption DEF TableInv, HostFile, Closed
<1>3. OrderInv
  BY <1>1 DEF OrderInv, Closing
<1>4. LoopFds
  <2>1. Own = {}
    BY <1>1 DEF Own, HostFile, Closed
  <2> QED BY <1>1, <2>1 DEF LoopFds, Closing, StdFiles
<1>5. ExitFds /\ ChildInv
  BY <1>1 DEF ExitFds, ChildInv
<1> QED BY <1>1, <1>2, <1>3, <1>4, <1>5 DEF WireInv, ParentInv

(* ... and every step keeps it.                                             *)
LEMMA StepWire == WireInv /\ [Next]_vars => WireInv'
<1> SUFFICES ASSUME WireInv, [Next]_vars PROVE WireInv'
  OBVIOUS
<1>1. TypeOK /\ ParentInv /\ ChildInv /\ TypeOK'
  BY StepTypeOK DEF WireInv
<1>2. CASE Parent
  <2>1. ParentInv'
    <3>1. CASE CheckRedirects \/ PrepareTask
      BY <1>1, <3>1, StartsWire
    <3>2. CASE OpenRedirect \/ ShareRedirect \/ StdinFromPipe \/ StdoutToPipe
      BY <1>1, <3>2, RedirectsWire
    <3>3. CASE PrepareFails \/ OpenFails \/ StdoutToPipeFails \/ AddPidFails
      BY <1>1, <3>3, ErrorsWire
    <3>4. CASE Fork \/ ForkFails
      BY <1>1, <3>4, ForkWire
    <3>5. CASE CloseIn \/ CloseOut \/ CloseErr
      BY <1>1, <3>5, ClosingWire
    <3>6. CASE AddPid
      BY <1>1, <3>6, AddPidWire
    <3>7. CASE WaitPid \/ Return
      BY <1>1, <3>7, WaitWire
    <3>8. CASE Decide
      BY <1>1, <3>8, DecideWire
    <3> QED BY <1>2, <3>1, <3>2, <3>3, <3>4, <3>5, <3>6, <3>7, <3>8 DEF Parent
  <2>2. ChildInv'
    BY <1>1, <1>2, ParentChildren
  <2> QED BY <1>1, <2>1, <2>2 DEF WireInv
<1>3. ASSUME NEW c \in Tid, Child(c) PROVE WireInv'
  BY <1>3, ChildrenWire
<1>4. CASE HostOpens
  <2>1. ParentInv'
    BY <1>1, <1>4, HostOpensWire
  <2>2. UNCHANGED <<line, cst, cfd, cfiles>>
    BY <1>4 DEF HostOpens, locals, children
  <2>3. ChildInv'
    BY <1>1, <2>2, ChildStays DEF ChildInv
  <2> QED BY <1>1, <2>1, <2>3 DEF WireInv
<1>5. CASE UNCHANGED vars
  <2>1. /\ UNCHANGED <<line, pc, t, i, files, prev, exiting, retval, fds, host>>
        /\ UNCHANGED <<cst, cfd, cfiles>>
    BY <1>5 DEF vars, locals, kernel, children
  <2>2. ParentInv'
    BY <1>1, <2>1, FrameWire
  <2>3. ChildInv'
    BY <1>1, <2>1, ChildStays DEF ChildInv
  <2> QED BY <1>1, <2>2, <2>3 DEF WireInv
<1> QED BY <1>2, <1>3, <1>4, <1>5 DEF Next, Over

(* The steps above, as one theorem: the invariant holds of every call made  *)
(* with stdin, stdout and stderr open.                                     *)
THEOREM WiringInvariant ==
  ASSUME 0..2 \subseteq HostFds
  PROVE  Spec => []WireInv
<1>1. Init => WireInv
  BY InitWire
<1>2. WireInv /\ [Next]_vars => WireInv'
  BY StepWire
<1> QED BY <1>1, <1>2, PTL DEF Spec

(* A program's stdin, stdout and stderr are those its redirects name, for   *)
(* every combination and order of redirects that passes the sanity check,   *)
(* however many tasks were forked before it and whatever failed.            *)
THEOREM ProgramsAreWired ==
  ASSUME 0..2 \subseteq HostFds
  PROVE  Spec => []WiredAsWritten
<1>1. WireInv => WiredAsWritten
  BY DEF WireInv, ChildInv, Wired, WiredAsWritten
<1> QED BY <1>1, WiringInvariant, PTL

(* The parent waits only for a whole job, and it holds no end of a pipe     *)
(* while it does.                                                          *)
THEOREM WaitsWithoutPipes ==
  ASSUME 0..2 \subseteq HostFds
  PROVE  Spec => []WaitsForWholeJob
<1>1. WireInv => WaitsForWholeJob
  <2> SUFFICES ASSUME WireInv, pc = "wait"
               PROVE  t = JobLast(line, t) /\ \A d \in Fd : fds[d].kind \notin {"rd", "wr"}
    BY DEF WaitsForWholeJob
  <2>1. Own = {} /\ PipeTo(0, t)
    BY DEF WireInv, ParentInv, LoopFds
  <2>2. t \in 1..Len(line) /\ Len(line) \in Nat /\ t \in Nat
    BY WireFacts DEF WireInv
  <2>3. ~Piped(line, t)
    BY <2>1, <2>2 DEF PipeTo, Is
  <2>4. t \in Job(line, t) /\ \A j \in Job(line, t) : j <= t
    BY <2>2, <2>3, JobFromItself, JobEndsHere
  <2>5. \A j \in Job(line, t) : j \in Nat
    BY <2>2 DEF Job
  <2>6. \A j \in Job(line, t) : (\A m \in Job(line, t) : m <= j) => j = t
    BY <2>2, <2>4, <2>5
  <2>7. t = JobLast(line, t)
    BY <2>4, <2>6 DEF JobLast
  <2>8. \A d \in Fd : fds[d].kind \notin {"rd", "wr"}
    BY <2>1 DEF Own, Closed
  <2> QED BY <2>7, <2>8
<1> QED BY <1>1, WiringInvariant, PTL

(* When the call is over it has left at most one descriptor open, the read  *)
(* end of a pipe whose reader was never forked; and none if it reports an   *)
(* exit status.                                                            *)
THEOREM LeaksAtMostOne ==
  ASSUME 0..2 \subseteq HostFds
  PROVE  Spec => []LeakBounded
<1>1. WireInv => LeakBounded
  <2> SUFFICES ASSUME WireInv, Ended
               PROVE  /\ retval # -1 => LeakedFds = {}
                      /\ \A d, e \in LeakedFds : d = e
                      /\ \A d \in LeakedFds : \E k \in 1..t :
                            fds[d] = RdEnd(k) /\ Piped(line, k) /\ cst[k+1] = "none"
    BY DEF LeakBounded
  <2>1. /\ TableInv /\ exiting /\ ToClose = {} /\ ExitFds
    BY WireFacts DEF WireInv, ParentInv, OrderInv, Ended, ToClose
  <2>2. LeakedFds \subseteq Own
    BY <2>1 DEF LeakedFds, TableInv, Own
  <2>3. PICK x \in Fd : Own \subseteq ToClose \cup {x} /\ (x \in Own => Orphan(x))
    BY <2>1 DEF ExitFds
  <2>4. retval # -1 => Own = {}
    BY <2>1 DEF ExitFds
  <2> QED BY <2>1, <2>2, <2>3, <2>4 DEF Orphan
<1> QED BY <1>1, WiringInvariant, PTL

(***************************************************************************)
(* A program gets nothing else                                             *)
(***************************************************************************)
(* New descriptors are below rlim_cur, so neither the parent nor a child    *)
(* has one that _sf1_close_upper_fd would not reach.                        *)
UpperClosed(tab) == \A d \in Fd : d >= Rlim => tab[d] = Closed

UpperInv ==
  /\ TypeOK
  /\ UpperClosed(fds)
  /\ \A c \in Tid : UpperClosed(cfd[c])
  /\ \A c \in Tid : cst[c] \in {"ready", "running"} => \A d \in Fd : d > 2 => cfd[c][d] = Closed

(* The parent's table changes at descriptors the kernel has just handed out *)
(* or that are closed.                                                     *)
LEMMA UpperStays ==
  ASSUME TypeOK, UpperClosed(fds), Parent \/ HostOpens
  PROVE  UpperClosed(fds')
<1>t. fds \in [Fd -> Objects] /\ Rlim \in Nat /\ Closed \in Objects
  BY WireFacts, FdAssumption, ObjectFacts
<1>1. CASE OpenRedirect \/ HostOpens
  <2>1. PICK d, obj : d \in Fd /\ d < Rlim /\ fds' = [fds EXCEPT ![d] = obj]
    BY <1>1 DEF OpenRedirect, HostOpens, LowestFree
  <2> QED BY <1>t, <2>1 DEF UpperClosed
<1>2. CASE StdoutToPipe
  <2>1. PICK r \in Fd, w \in Fd :
          r < Rlim /\ w < Rlim /\ fds' = [fds EXCEPT ![r] = RdEnd(t), ![w] = WrEnd(t)]
    BY <1>2 DEF StdoutToPipe, LowestFree
  <2> QED BY <1>t, <2>1 DEF UpperClosed
<1>3. ASSUME NEW s, NEW next, CloseOne(s, next) PROVE UpperClosed(fds')
  <2>1. UNCHANGED fds \/ fds' = [fds EXCEPT ![files[s]] = Closed]
    BY <1>3 DEF CloseOne
  <2> QED BY <1>t, <2>1 DEF UpperClosed
<1>4. ASSUME ~OpenRedirect, ~HostOpens, ~StdoutToPipe, ~CloseIn, ~CloseOut, ~CloseErr
      PROVE  UNCHANGED fds
  BY <1>4 DEF Parent, CheckRedirects, PrepareTask, PrepareFails, OpenFails, ShareRedirect,
              StdinFromPipe, StdoutToPipeFails, Fork, ForkFails, AddPid, AddPidFails, WaitPid,
              Decide, Return, kernel
<1> QED BY <1>1, <1>2, <1>3, <1>4 DEF CloseIn, CloseOut, CloseErr

(* What the child's setup leaves open.                                      *)
LEMMA SetupCloses ==
  ASSUME NEW tab \in [Fd -> Objects], NEW f \in TaskFiles, UpperClosed(tab), NEW d \in Fd, d > 2
  PROVE  CloseUpper(DupStdio(tab, f))[d] = Closed
<1>1. /\ f.in \in -1..MaxFd /\ f.out \in -1..MaxFd /\ f.err \in -1..MaxFd
      /\ 0 \in Fd /\ 1 \in Fd /\ 2 \in Fd /\ Rlim \in Nat
  BY FdAssumption DEF TaskFiles
<1>2. PICK T1 : T1 = Dup2(tab, f.in, 0)
  OBVIOUS
<1>3. PICK T2 : T2 = Dup2(T1, f.out, 1)
  OBVIOUS
<1>4. T1 \in [Fd -> Objects] /\ T2 \in [Fd -> Objects]
  BY <1>1, <1>2, <1>3, Dup2Type
<1>5. T1[d] = tab[d]
  BY <1>1, <1>2 DEF Dup2
<1>6. T2[d] = T1[d]
  BY <1>1, <1>3, <1>4 DEF Dup2
<1>7. Dup2(T2, f.err, 2)[d] = T2[d]
  BY <1>1, <1>4 DEF Dup2
<1>8. DupStdio(tab, f)[d] = tab[d]
  BY <1>2, <1>3, <1>5, <1>6, <1>7 DEF DupStdio
<1> QED BY <1>1, <1>8 DEF CloseUpper, UpperClosed

(* The steps of a child.                                                    *)
LEMMA UpperChild ==
  ASSUME UpperInv, NEW c \in Tid, Child(c)
  PROVE  UpperInv'
<1>t. /\ TypeOK /\ TypeOK' /\ UpperClosed(fds)
      /\ cst \in [Tid -> ChildStates] /\ cfd \in [Tid -> [Fd -> Objects]]
      /\ cfiles \in [Tid -> TaskFiles]
  BY ChildTypeOK, WireFacts DEF UpperInv
<1>1. fds' = fds
  BY DEF Child, Proceeds, ChildSetup, ChildExec, ChildExecFails, ProgExits, ProgKilled, FilterEof,
         BrokenPipe, ProgWrites, Dies, kernel
<1>2. \A k \in Tid : k # c => cst'[k] = cst[k] /\ cfd'[k] = cfd[k]
  BY <1>t DEF Child, Proceeds, ChildSetup, ChildExec, ChildExecFails, ProgExits, ProgKilled,
              FilterEof, BrokenPipe, ProgWrites, Dies
<1>3. \/ cfd'[c] = cfd[c] /\ cst[c] \in {"ready", "running"}
      \/ \A d \in Fd : d > 2 => cfd'[c][d] = Closed
  <2>1. CASE ChildSetup(c)
    <3>1. cfd'[c] = CloseUpper(DupStdio(cfd[c], cfiles[c]))
      BY <1>t, <2>1 DEF ChildSetup
    <3>2. UpperClosed(cfd[c]) /\ cfd[c] \in [Fd -> Objects] /\ cfiles[c] \in TaskFiles
      BY <1>t DEF UpperInv
    <3> QED BY <3>1, <3>2, SetupCloses
  <2>2. CASE ChildExec(c) \/ ProgWrites(c)
    BY <1>t, <2>2 DEF ChildExec, ProgWrites, WantsToWrite, Running
  <2>3. CASE ChildExecFails(c) \/ ProgExits(c) \/ ProgKilled(c) \/ FilterEof(c) \/ BrokenPipe(c)
    <3>1. cfd'[c] = [d \in Fd |-> Closed]
      BY <1>t, <2>3 DEF ChildExecFails, ProgExits, ProgKilled, FilterEof, BrokenPipe, Dies
    <3> QED BY <3>1
  <2> QED BY <2>1, <2>2, <2>3 DEF Child, Proceeds
<1>4. \A d \in Fd : d >= Rlim => d > 2
  BY FdAssumption
<1> QED BY <1>t, <1>1, <1>2, <1>3, <1>4 DEF UpperInv, UpperClosed

(* A program starts with stdin, stdout and stderr and nothing else, as long *)
(* as the calling program has no descriptor at or above rlim_cur, which     *)
(* _sf1_close_upper_fd would not reach.                                     *)
THEOREM ProgramsGetNothingElse ==
  ASSUME \A d \in HostFds : d < Rlim
  PROVE  Spec => []OnlyStdio
<1>1. Init => UpperInv
  <2> SUFFICES ASSUME Init PROVE UpperInv
    OBVIOUS
  <2>1. UpperClosed(fds)
    BY FdAssumption DEF Init, UpperClosed
  <2> QED BY <2>1, InitTypeOK DEF Init, UpperInv, UpperClosed
<1>2. UpperInv /\ [Next]_vars => UpperInv'
  <2> SUFFICES ASSUME UpperInv, [Next]_vars PROVE UpperInv'
    OBVIOUS
  <2>t. /\ TypeOK /\ TypeOK' /\ UpperClosed(fds)
        /\ cst \in [Tid -> ChildStates] /\ cfd \in [Tid -> [Fd -> Objects]] /\ t \in Tid
    BY StepTypeOK, WireFacts DEF UpperInv
  <2>1. CASE Parent \/ HostOpens
    <3>1. UpperClosed(fds')
      BY <2>t, <2>1, UpperStays
    <3>2. CASE Fork
      <4>1. cst' = [cst EXCEPT ![t] = "forked"] /\ cfd' = [cfd EXCEPT ![t] = fds]
        BY <3>2 DEF Fork
      <4>2. \A c \in Tid : IF c = t THEN cfd'[c] = fds /\ cst'[c] = "forked"
                           ELSE cfd'[c] = cfd[c] /\ cst'[c] = cst[c]
        BY <2>t, <4>1
      <4> QED BY <2>t, <3>1, <4>2 DEF UpperInv
    <3>3. CASE WaitPid
      <4>1. PICK r \in WaitOutcomes(chain[i]) :
              IF r.child \in Tid THEN cst' = [cst EXCEPT ![r.child] = "reaped"] ELSE UNCHANGED cst
        BY <3>3 DEF WaitPid
      <4>2. \A c \in Tid : cst'[c] \in {cst[c], "reaped"}
        BY <2>t, <4>1
      <4>3. cfd' = cfd
        BY <3>3 DEF WaitPid
      <4> QED BY <2>t, <3>1, <4>2, <4>3 DEF UpperInv
    <3>4. ASSUME ~Fork, ~WaitPid PROVE UNCHANGED <<cst, cfd>>
      BY <2>1, <3>4 DEF Parent, CheckRedirects, PrepareTask, PrepareFails, OpenRedirect, OpenFails,
                ShareRedirect, StdinFromPipe, StdoutToPipe, StdoutToPipeFails, ForkFails,
                CloseIn, CloseOut, CloseErr, CloseOne, AddPid, AddPidFails, Decide, Return,
                NextRedirect, HostOpens, children
    <3> QED BY <2>t, <3>1, <3>2, <3>3, <3>4 DEF UpperInv
  <2>2. ASSUME NEW c \in Tid, Child(c) PROVE UpperInv'
    BY <2>2, UpperChild
  <2>3. CASE UNCHANGED vars
    BY <2>t, <2>3 DEF UpperInv, vars, kernel, children
  <2> QED BY <2>1, <2>2, <2>3 DEF Next, Over
<1>3. UpperInv => OnlyStdio
  BY DEF UpperInv, OnlyStdio
<1> QED BY <1>1, <1>2, <1>3, PTL DEF Spec
=============================================================================
