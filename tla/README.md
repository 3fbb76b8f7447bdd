# A TLA+ model of systemf

systemf is a C library with one entry point, `systemf1(fmt, ...)`: a replacement
for `system()` that parses a small shell-like language, substitutes its
arguments, checks file names against a trusted path and runs the resulting
programs itself with `fork` and `execv`. This directory models what the library
does at run time, checks it with TLC on small instances and proves part of it,
for every value of the constants, with TLAPS.

## The system

| Part | Source | State | Operations |
| --- | --- | --- | --- |
| Entry point | `systemf.c` | scanner, buffer, `va_list`, parse result | `systemf1`: scan, parse, run, free |
| Scanner | `lexer.l`, `derived-lexer.c` | a copy of the format, the place in it, the byte held back, the last accepting state | set up, scan a copy of the format, next token, delete, destroy |
| Parser | `parser.y`, `derived-parser.c` | state and value stack, lookahead | shift, reduce, grow the stacks, report an error |
| Grammar actions | `parser-support.c` | syllables, then the task list | reductions that build tasks, arguments, redirects; merging the syllables of a word |
| Task execution | `task.c` | task list, `struct _sf1_task_files`, `pid`, `stat`, `retval` | `_sf1_tasks_run` and what it calls |
| Pid chain | `pid-chain.c` | `size`, `capacity`, `pids[]` | `add`, `waitpids`, `clear`, `free` |
| Closing in the child | `close.c` | the child's descriptor table | `_sf1_close_upper_fd` |
| File name sandbox | `file-sandbox-check.c` | two cursors on two paths | `_sf1_file_sandbox_check` |

A call runs in the thread that makes it. `systemf1` hands the format to the
scanner, which copies it, and calls `yyparse`; the parser asks the scanner for one
token after another. A token that is a syllable carries a piece of a word, with
flags that say whether it is trusted, a file name, a glob; for `%s` and its like
the scanner fetches the next argument of the call. The reductions make arguments,
redirects and tasks of the syllables. Then the scanner is taken down, the tasks
run, and everything is freed; after a syntax error the call returns at once.

`parser.y` leaves a list of tasks; each
has a `run_if` (how it depends on the task before) and a list of redirects, in
the order in which the reductions append them. `_sf1_tasks_run` goes through the
list once: it expands and checks the words of the task, opens its redirects,
forks, closes its own copies of the descriptors, appends the pid to the chain
and, unless the task writes into a pipe, waits for the whole chain. The status
of the last pid decides whether the loop goes on. What one task hands to the
next is the read end of a pipe, in `files.out_rd_pipe`.

The parts of the environment the code depends on are the kernel (lowest free
descriptor, pipes with reference counts, `fork` copying the table, `waitpid`),
the programs, and the calling program, which owns descriptors of its own and
may have signal handlers and other threads.

### What is hard here

* **Descriptors.** A small set of numbers is shared by the calling program, the
  library and the children, and the kernel reuses a number as soon as it is
  free. Every path through `_sf1_populate_task_files`, every failure included,
  must close what the library opened, once, and nothing else.
* **Concurrency.** The children of a pipeline run beside each other and beside
  the parent. Whether a pipeline ends depends on who holds which end of a pipe.
* **Order.** `>`, `2>`, `>&2`, `2>&1`, `&>` and `|` combine; the wiring depends on
  the order of the redirect list and on the order of the three `dup2` calls.
* **Status.** All children of a job share one `stat`, and `&&`, `||` and the
  return value look at it after the last one.
* **A scanner that writes into its buffer.** Each token is ended by a NUL in the
  copy of the format, the byte under it is put back later; two NULs behind the
  format are all that stops the match loop.
* **Tables.** Five compressed tables of the scanner and nine of the parser decide
  which C statements run on which values; nothing at run time checks them.
* **A parser that looks ahead.** Arguments are fetched while tokens are scanned,
  at most one token before they are used; right recursion makes the stacks as high
  as the format is long.
* **Lengths computed once and used later.** Texts of words, trusted paths and
  `argv` are measured by one loop and filled by another.
* **Failure.** `open`, `pipe`, `fork`, `exec`, `malloc`, `realloc`, `waitpid` and
  the checks of the words may each fail, at a moment when earlier tasks of the
  same job already run.

`PROJECT.json` lists these hazards one by one, each at its line.

### What makes each part correct

* Task execution: the descriptors of the caller are kept; nothing is left open;
  a program gets exactly the streams its redirects name; a job starts only when
  the job before is over and its status allows it; the value returned is that of
  the last child; the call returns when its programs do.
* Pid chain: never more pids than room; every wait is for a child not yet reaped.
* Closing: a program starts with descriptors 0, 1 and 2 only.
* Scanner: the tokens are those of `lexer.l` (longest match, then first rule); no
  byte outside the buffer is touched and none of the format is lost; its memory is
  freed once.
* Parser: it accepts the sentences of `parser.y`, its stacks stay in their memory,
  and every semantic action gets the values of its right-hand side.
* Grammar actions: the order of the redirects and the `run_if` of every task; texts
  and trusted paths have the lengths that were measured, and the trusted path of a
  file reference, a word with untrusted data and a wildcard or a `%p`, is the one that
  the README of the library describes.
* Arguments: each program gets its words in order, and no name that a file reference
  has become gets there unchecked. Words with only a plain `%s` or `%d` are not checked;
  of a command the README of the library says otherwise (`CommandWord`).
* Sandbox: a path is accepted if and only if it is contained in the trusted path,
  and the check always gives an answer.
* Entry point: a call runs what the format spells, each conversion with the argument
  at its place; a call that runs its tasks has freed everything when it returns.

## The modules

| Module | Models | Role |
| --- | --- | --- |
| `CommandLine` | the structures of `systemf-internal.h`, `_sf1_redirects_are_sane` | task lists; what the others read off them |
| `Grammar` | the actions of `parser.y` with `parser-support.c` | builds task lists with redirects in the order of the parser |
| `JobControl` | what a call promises | abstract specification: jobs one after the other |
| `TaskRun` | `task.c`, `pid-chain.c`, `close.c`, the kernel calls they use | detailed specification |
| `MCTaskRun` | | instances for TLC |
| `TaskRun_proofs`, `Wiring_proofs` | | theorems about `TaskRun`: types, the caller's descriptors, the order of jobs, and that it implements `JobControl`; where the descriptors of a call go |
| `ScanTables` | the tables of `derived-lexer.c` | transitions of the scanner's automaton |
| `Syllables` | what the actions of rules 1 to 8 put into a syllable | flags; which rules fetch an argument |
| `Scanner` | `yylex`, `yylex_init`, `yy_scan_string`, `yy_delete_buffer`, `yylex_destroy` and what they call | detailed specification, with any caller |
| `Lexer` | the patterns of `lexer.l` | reference: the longest match |
| `ParseTables` | the tables of `derived-parser.c` | actions of the parser's automaton |
| `Parser` | `yyparse` with its semantic actions | detailed specification, with any scanner |
| `Sentences` | the rules of `parser.y` | reference: which token sequences are sentences, and what a task list must say of one |
| `MCParser` | | the parser alone, for TLC |
| `Systemf` | `systemf.c` | composes `Scanner` and `Parser` to a whole call |
| `MCSystemf` | | formats, for TLC |
| `Words` | `_sf1_merge_and_free_syllables`, `task.c:325-358` | from syllables to `argv` |
| `MCWords` | | words and tasks, for TLC |
| `Words_proofs` | | theorems about `Words` |
| `CArrays` | | subscripts counted from 0 |
| `Scanner_proofs`, `Parser_proofs`, `Systemf_proofs` | | theorems about these three |
| `Sandbox` | `file-sandbox-check.c` | one call of the check, against a definition of containment |
| `MCSandbox` | | instances for TLC |
| `Sandbox_proofs` | | theorems about `Sandbox` |
| `Induction` | | induction over the naturals and recursive functions, for the proofs |

### TaskRun

The parent is one process; `pc` names the statement it has reached and `t` the
task of the main loop. The other variables have the names of the code: `files`
(`struct _sf1_task_files`), `prev` (`prev_out_rd_pipe`), `pid`, `stat`, `retval`.
`chain` and `cap` are the pid chain (a NULL chain has capacity 0). `fds` is the
descriptor table of the calling process; a descriptor refers to nothing, to a
file of the calling program, to the file of a redirect, or to one end of a pipe.
`host` is the set of descriptors that belong to the calling program. Each child
has a state, a table of its own (`cfd`), the copy of `files` it got from `fork`,
and a wait status; `buf` counts the writes in each pipe.

| Code | Actions |
| --- | --- |
| `_sf1_redirects_are_sane`, `task.c:318` | `CheckRedirects` |
| head of the loop, `task.c:325-358` | `PrepareTask`, `PrepareFails` |
| `_sf1_populate_task_files` | `OpenRedirect`, `OpenFails`, `ShareRedirect`, `StdinFromPipe`, `StdoutToPipe`, `StdoutToPipeFails`, one redirect each |
| `fork`, `task.c:372` | `Fork`, `ForkFails` |
| `_sf1_close_child_files`, also at `task.c:436` | `CloseIn`, `CloseOut`, `CloseErr` |
| `_sf1_pid_chain_add` and the test of `task.c:399` | `AddPid`, `AddPidFails` |
| `_sf1_pid_chain_waitpids` | `WaitPid`, one `waitpid` each |
| `task.c:405-428` | `Decide` |
| `task.c:437-439` | `Return` |
| child, `task.c:373-388` | `ChildSetup`, `ChildExec`, `ChildExecFails` |

The three closes are separate steps because another thread of the program may
open a file between them. The child's system calls between `fork` and `execv`
touch only its own table, so they are one step. Names, words, the append flag,
messages and modes of files are left out: no property depends on them. A glob
that matches nothing and a word that the sandbox rejects both leave the loop in
the same way, so both are `PrepareFails`.

The programs are of three kinds: one that exits with any code, whatever happens
to its streams; one that writes for ever; one that copies stdin to stdout until
end of file. They are the behaviours of `tests/cmd.c` that differ in how they use
a pipe. Writing into a pipe without readers kills the program; a full pipe blocks.

Events of the environment are switched on by the constant `Env`: failing
allocations, system calls and checks, programs killed by a signal, an interrupted
`waitpid`, another thread that opens files.

A status that nobody set (`int stat` at `task.c:310` is not initialised) is read
in `Decide` as any status. The branch of `task.c:400-404` cannot be taken, because
`_sf1_pid_chain_waitpids` returns only after its last assertion held, and has no
action.

### JobControl and the refinement

`JobControl` knows no descriptors, no `fork` and no loop: a job is a maximal run of
tasks joined by `|`; when every task of the current job has ended and the last one
exited, the next job starts or the call is over, depending on the exit code and
the `run_if` of the next task; any failure ends the call with -1. `TaskRun` maps
to it by: the current job is that of `t`, the call is over when the parent has
left the main loop, the status of a task is that of its child. `JobControlSpec`
is checked as a property of `TaskRun`.

### Sandbox

`Sandbox` is a state machine of its own: it takes one of the paths of two
constants and goes through the loops of `_sf1_file_sandbox_check` one directory
at a time. It does not interact with `TaskRun`, where the verdict is one of the
outcomes of `PrepareTask`.

A path is `[root, names]`: whether it begins with a slash, and the names between
its slashes. Repeated slashes and the slash after the last name are the same
path for the code, too (`next_dir` skips them). The trusted path is empty or ends
with a slash, as the reductions leave it, so the path that is checked is the two
lists of names joined. `depth` is `up.depth`, `simple` is what
`extract_simplified_path` has copied so far, `zero` says whether `simple_dir` is
still the `zero_dir`, and `tp` is the result for the trusted path. One effect of
the code is easy to miss and is kept: `next_dir` gives the leading slash of a path
no extent (`end` is `buffer`, line 64, although the comment at line 10 says
`&a[1]`), so the simplified path never begins with a slash.

| Code | Actions |
| --- | --- |
| `simple_sandbox_check` | `CountLevel`, `CountEnds` |
| `extract_simplified_path` with `next_dir`, `prev_dir`, `path_copy` | `SimplifyDir`, `TrustedEnds`, `OutOfMemory` |
| the comparison in `complex_sandbox_check` | `Compare` (`StartsLike`, `NameEnds`) |

The reference is `Under`: both paths are resolved to the number of levels they go
up from where they start and the names they then go down, by the meaning of `.`
and `..` and not by text; the first must go through the second.

### Scanner

`Scanner` is `yylex` as a state machine, one byte of the match loop at a time, on
the tables of the generated file. `ch_buf` is the copy of the format with its two
NULs; `c_buf_p`, `hold_char`, `text_ptr`, `cp`, `cur`, `last_state` and `last_cpos`
are the pointers and states of the code, and `at` names the statement. `heap` counts
the four blocks that the scanner allocates. `args` counts the arguments that have
been fetched; the text of a syllable that holds the n-th argument is `<<-n>>`. The
environment is any caller: it may call `yylex` as often as it likes and stop at any
time, which is what the theorems are about.

| Code | Actions |
| --- | --- |
| `yylex_init` | `LexInit`, `LexInitFails` |
| `yy_scan_string`, `yy_scan_bytes`, `yy_scan_buffer` | `ScanString`, `ScanStringFails` (`yy_fatal_error` ends the program) |
| head of the loop of `yylex` | `CallLex` |
| `yy_match`, `yy_find_action` | `Match`, `FindAction` |
| the actions of the rules | `ReturnSyllable`, `ReturnOperator`, `ReturnByte` |
| `YY_END_OF_BUFFER`, `yy_get_next_buffer`, `yy_get_previous_state` | `LastMatch`, `MatchAgain`, `MatchedAgain`, `EndOfFile` |
| `yy_delete_buffer`, `yylex_destroy` | `DeleteBuffer`, `LexDestroy` |

`Lexer` says the same without a table: the text that each of the 23 rules matches,
and `TokenAt`, the longest match and among equally long ones the first rule. `Scanner`
extends it for one property, `ScansLexer`, that the tables agree with the rules.

### Parser

`Parser` is `yyparse` on its tables. `pat` is the label that it has reached, `yyss`
and `yyvs` are the two stacks, `yystacksize` their size, `yychar` and `lookahead`
the token read ahead. A linked list is a sequence. `PSpec` allows any token with
any value; `MCParser` feeds it sequences of tokens, `Systemf` the scanner. One
variable is none of the code's: `input` records the symbols that `yylex` has
returned, so that the properties can speak of them; no guard reads it but the bound
of `MCParser`.

| Code | Actions |
| --- | --- |
| `yysetstate` | `SetState`, `Accept`, `Grow`, `Exhausted` |
| `yybackup` | `ReadToken`, `Shift` |
| `yyreduce` with the actions of the 24 rules | `Reduce`, `GlobTarget` (the assertion of `parser-support.c:189`) |
| `yyerrlab`, `yyerrlab1` | `SyntaxError` |
| `YYABORT` of the rule for `error` | `Abort` |

`Sentences` says which sequences of tokens the rules of `parser.y` derive, and what
the task list of a sentence must say (`Means`), without a stack: a sequence is cut into
`Pieces` at its separators, a command at its redirections, what is left of it at its
spaces. `Cutters` are the tokens it was cut at, `Between` what lies between them.
`AcceptsOnlySentences` and `RefusesNoSentence` compare `Parser` with it.

### Systemf

`Systemf` composes the two: `CallYylex` when the parser wants a token, `YylexReturns`
when the scanner has one, and the steps of each in between. `blocks` counts what the
call allocates besides: the parse result, syllables, tasks, arguments, redirects; each
reduction frees and allocates as its semantic action does. `Run` stands for
`_sf1_tasks_run`, about which `TaskRun` is. `SentenceOf` is what `lexer.l` makes of a
format: its tokens as symbols of the grammar, each syllable with its text or with the
number of the argument that it stands for. `RunsWhatIsWritten` says that what is run is
the `Meaning` of that.

| Code | Actions |
| --- | --- |
| `systemf.c:19-28` | `Start`, `StartFails`, `Load`, `LoadFails` |
| `yyparse`, `systemf.c:29` | `CallYylex`, `Yylex`, `YylexReturns`, `Yyparse` |
| `systemf.c:29-32` | `Refuse`: frees the result only; buffer, scanner, syllables and tasks stay allocated |
| `systemf.c:33-41` | `Delete`, `Destroy`, `Run`, `FreeAll` |

### Words

`Words` follows each word of a list of tasks from its syllables to `argv`. Both walks
of `_sf1_merge_and_free_syllables` take one syllable at a time.

| Code | Actions |
| --- | --- |
| `parser-support.c:17-95`, first walk | `Measure` |
| `parser-support.c:97-118` | `Allocate` |
| `parser-support.c:120-156`, second walk | `Copy` |
| `parser-support.c:157-172`, `_sf1_task_add_arg` | `Merged` (its guard is the assertion on the length) |
| `_sf1_extract_glob` | `ExtractGlob`, `GlobFails` |
| `task.c:332-339` | `CountArgs` |
| `_sf1_file_sandbox_check_args` | `CheckArg`, `CheckFails` |
| `task.c:345-358` | `AllocateArgv`, `FillArg`, `Terminate` |

## What TLC checks

`tlc -config <run>.cfg <module>.tla`, with `MCSandbox` for `Containment`, `TrustedHere`
and `LeadingSlash`, `MCParser` for `Parsing`, `MCSystemf` for `Calling` and `NonAscii`,
`MCWords` for `Words` and `CommandWord`, and `MCTaskRun` for the others. Runs that must hold:

| Run | Instance | Shows |
| --- | --- | --- |
| `Commands` | three commands with all 16 pairs of separators; every list of at most two redirections and some of three, on a command alone, before and after a pipe; pipelines that end only by end of file or SIGPIPE; every event but a failing `fork`, an interrupted wait and other threads; weak fairness | `RunIfHonoured`, `StatusIsOfLastChild`, `NeverAborts`, `WiredAsWritten`, `OnlyStdio`, `WaitsForWholeJob`, the capacity in `TypeOK`, the refinement of `JobControl`, `Terminates` |
| `Faults` | four lines in which every kind of descriptor is open when something fails; failing checks, opens, pipes, forks, allocations, interrupted waits, another thread | `HostFdsKept`, `LeakBounded`, `OwnDescriptors`, `StatusIsOfLastChild` (of calls in which no fork failed) |
| `Containment` | every untrusted part of up to four names after every trusted path of up to three names (two after a slash) that names a directory below its start, and after the empty one | `AcceptsOnlyContained`, `RefusesNoContained`, `AlwaysReturns` |
| `Parsing` | every sequence of at most five tokens, among them a syllable with and without a glob and a byte that is no token; stacks of two entries that may grow to seven | `AcceptsOnlySentences`, `RefusesNoSentence`, `BuildsLines`, `ReducesWhatItRead`, `StackFits`, `ExhaustedOnlyWhenFull`, `ParseReturns` |
| `Calling` | whole calls for every format of up to three bytes of every class, and up to six of the bytes that combine; allocations of the scanner that fail | `ScansLexer`, `RunsWhatIsWritten`, `BufferKept`, `StaysInBuffer`, `FreedOnce`, `RanClean`, `CallReturns` |
| `Words` | every word of two pieces and of three short ones, the seven rows of the table of trusted paths in the library's README, tasks of two words, lists of two tasks, globs that find one or two names | `MergeFits`, `TrustedAsDocumented`, `PatternAsMeant`, `ArgvFits`, `ArgvAsWritten`, `CheckedBeforeUse` |

Runs in which the code contradicts a comment or the README, each a finding in
`PROJECT.json`:

| Run | What happens |
| --- | --- |
| `LeakedPipe` | a failure between the two tasks of a pipe leaves the read end open in the caller; the function that would close it, `_sf1_close_child_files_and_pipe`, is never called |
| `ForkLost` | `fork` fails, `waitpid(-1)` fails too, -1 equals -1, and the call returns what it finds in an uninitialised variable |
| `TrustedHere` | a trusted path that simplifies to nothing, `./` or `/`, makes the assertion on its last slash fail |
| `LeadingSlash` | a slash at the start of the untrusted part counts as a level, and one `..` after it is not noticed |
| `NonAscii` | a byte above 127 is returned as a negative token and ends the format instead of being refused: what stands before it runs |
| `CommandWord` | `"./a/%s %s/x/y"`, row 7 of the table of trusted paths in the library's README: the command is to be sandboxed in `./a/`, but neither a literal piece nor `%s` makes a word a file name, so it has no trusted path and is run unchecked |

Other disagreements that the models show and no run is kept for; each can be seen
by changing an instance as told:

* `waitpid` may fail with EINTR, when a signal handler of the calling program is
  installed without `SA_RESTART`; the assertion under "This should never fail"
  (`pid-chain.c:21`) then aborts the program. `ForkLost.cfg` with `Env <- {"eintr"}`
  and the invariant `NeverAborts`.
* With descriptor 0 closed in the caller `pipe()` may return 0, which the code reads as
  "not piped" (`task.c:399`): it waits for the writer before it forks the reader.
  `LeakedPipe.cfg` with `HostFds <- {1, 2}` and the invariant `WaitsForWholeJob`.
* After `> f 2>&1` the same descriptor is closed twice (`task.c:287`, `task.c:291`); in
  between another thread of the program may have been given the number, and loses its
  file. The comment above speaks only of descriptors shared with the parent.
  `Faults.cfg` with `Lines <- ShareLines` and the invariant `HostFdsKept`.
* A redirection to a word with a wildcard (`a >*`) fails the assertion at
  `parser-support.c:189` and ends the calling program; a comment there says so.
  In `Calling` such calls end with `call = "aborted"`.
* The trusted path of a redirection's file is built but never checked:
  `_sf1_file_sandbox_check_args` goes through the arguments only.
* Where the table of trusted paths in the library's README says `./` (rows 3 and 5), the
  code has the empty string, which the check takes for the current directory
  (`file-sandbox-check.c:217`). The properties read the two as the same (`Directory`); a
  path that is written `./` is another matter (`TrustedHere`).
* `_sf1_merge_and_free_syllables` escapes the wildcards of an untrusted piece in a
  glob, but not a backslash.
* A refused call leaves the scanner, its buffer, and the syllables and tasks built so
  far allocated (`systemf.c:29`).

### Bounds

Three tasks are enough for a task in the middle of a pipeline, for a job after a
pipeline and a pipeline after a job, and for a decision that depends on an earlier
one. `CapSteps` is 2 instead of 4, so that a pipeline of three makes the chain
grow. The descriptor table has room for the three standard streams and for all
that a task can hold at once, and in `Faults` one more, so that the table also
runs full while another thread opens files. One write fills a pipe: a writer
blocks, the reader drains it, the writer goes on. Two exit codes and one signal
are all that the code tells apart. A child's number is its task's: pids are not
reused during a call (the kernel does not reuse the pid of a child that has not
been reaped, and reaped pids are never used again).

In `MCSandbox` one of the two names is the start of the other, the only relation
between names that the comparison can see. Three names of a trusted path are enough
for `a/../b`, and four of an untrusted part for leaving the trusted directory by one
level more than it is deep and for coming back. A path that climbs above the root
on its way is refused where the kernel would take `/..` for `/`:
`RefusesNoContained` says nothing of it. `Containment` leaves out trusted paths that
do not end with a directory below where they get to (`../hope/` does, `hope/../` does
not) and untrusted parts that begin with a slash. `TrustedHere` and `LeadingSlash` are
such instances. A trusted path that goes up, `../`, is another: the comparison is
one of text, `../` is the start of `../../`, and `AcceptsOnlyContained` fails in the
same way (give `TrustedPaths` the value `ParentDirectory` in `LeadingSlash.cfg`, with
`ShortParts`).

In `Parsing` five tokens are enough for each of the 24 rules, for two separators, and
for an error after any prefix. `InitDepth` 2 makes the stacks grow twice within seven
entries and leaves sentences that need more; the real values, 200 and 10000, are
covered by the theorems. In `Calling` the alphabet has one byte, or more, of every
class of `yy_ec`; three bytes reach every state of the scanner but those of `%!p`,
`%*p`, `2>&1`, `[...]` and of longer operators, for which the larger sets of formats
are. Formats longer than that differ from these by repetition: the scanner keeps
nothing from one token to the next but the held byte, and the last accepting state,
which `ScansLexer` checks at every token; for formats of any length it is proved. A
format has no NUL in it.

In `Words` the characters are the slash, one wildcard, a bracket expression and a
letter: all that the two walks tell apart (the rows of the table, `TableJobs`, have a
few more). `TableAssumption` checks that `DocumentedPath`, with which the properties
compare the program, gives each row the path that the table gives it; of row 7 the
program is compared with it in `CommandWord` only, whose instance is these rows. Texts have no backslash (see above). Two
tasks show what the count of arguments keeps from the task before. What the
words of a task expand to is at most two names: one more than one.

`HostFds` is `{0, 1, 2}`. In every run the
resource limit is at least the size of the table: `_sf1_close_upper_fd` stops at
`rlim_cur`, so a descriptor that was opened before the limit was lowered below it
is still open in the program, and `OnlyStdio` does not hold of it.

### Fairness

`FairSpec` has weak fairness for the parent and for what each child does by itself
(`Proceeds`; a signal from outside is never owed to it): each is a process
that the kernel schedules, and none of their steps is disabled again by another
process once it is enabled, except a write that becomes a broken pipe, which is
again a step of the same child. The programs of `Commands` end by themselves, or
at end of file, or by SIGPIPE; nothing is assumed about failures, and no event is
fair.

`Calling` and `Parsing` have weak fairness for the whole next-state relation: a call
is one thread that the kernel schedules, and until the call is over it always has a
next statement. Nothing makes an allocation fail or succeed in the end.
`Words` is checked for safety only.

## What is proved

`TaskRun_proofs`, checked by `tlapm` for every set of command lines the grammar
can produce, every number of descriptors, every set of descriptors the caller
holds (also one without 0, 1 or 2), every resource limit, and, unless said
otherwise, every set of events:

* `TypeCorrect`: `Spec => []TypeOK`. The types are inductive as they stand. They
  include that a pid is never written past the capacity of the chain and that the
  loop stays on the task list.
* `HostFdsKeptAlone`: without other threads, `Spec => []HostFdsKept`. The
  invariant is made inductive by `RemembersOwn`: a number above 2 that the parent
  remembers, in `files` or in `prev` while it goes through the redirects, is none
  of the caller's. `_sf1_close_child_files` closes only such numbers.
* `HostFdsKeptThreads`: with other threads, the same for command lines in which no
  task redirects a stream and then shares it. Now a number must not be closed by
  one statement and remembered by another, so the invariant needs `RemembersOnce`:
  each number the parent remembers is open, and remembered in one place. The
  premise is needed: `Faults.cfg` with `Lines <- ShareLines` shows what happens without.

`TaskRun_proofs` also, for the same instances, if `fork` does not fail (whatever else
does):

* `JobsRunInOrder`: `Spec => []RunIfHonoured`; and, if no handler interrupts `waitpid`
  either, `WaitNeverFails`: `Spec => []NeverAborts`.
* `ReturnsLastStatus`: `Spec => []StatusIsOfLastChild`, with no premise on the events: the
  property itself leaves out the calls in which a fork has failed. Its invariant,
  `OrderedOrLost`, says that the one below holds or that a task which the loop has
  passed was never forked (`LostFork`), which stays so.
* None of the three is inductive: they speak of children, and what decides is in the
  parent's locals. The strengthening `JobInv` ties them together: the chain holds
  consecutive tasks, ending at the last one added; every task before them has been
  reaped, those from there to the last one forked have not, the later ones have not
  been forked (`ChainHolds`); while the parent waits, `stat` is the status of the task
  reaped last (`Waiting`); a task that does not read from a pipe is prepared only with
  an empty chain and after a status that permits it (`MayStart`); and after the
  descriptors have been prepared, `out_rd_pipe` is nonzero only for a task that
  pipes into the next, so that the loop ends only behind a wait or an error.
* What is assumed of `fork` is needed: a pid of -1 goes into the chain and `waitpid(-1)`
  then takes any child (`ForkLost`). So is the one on `waitpid`. That descriptor 0 is
  open is not needed: if a pipe gets number 0 as its read end, the parent waits early
  but in order.
* `ImplementsJobControl`: `Spec => JobControlSpec`, step by step. The abstract state is
  the first task of the current job, `exiting`, the result and the statuses, so a step
  of the parent is a step there only when it decides (`Decide`), fails, or a child
  ends; forking, redirecting, closing and the pid chain are stutters. Beyond `JobInv`
  the proof needs that whatever child is alive belongs to the current job
  (`ChildrenOfJob`), that the job has a first task (`JobHasFirst`), and that a child
  has no status before it ends (`NoStatusYet`); together they are `RefInv`. Safety
  only: `JC!Spec` states no fairness.

`Wiring_proofs`, for calls made with descriptors 0, 1 and 2 open (`0..2 \subseteq
HostFds`), whatever fails, `fork` included, and with other threads:

* `WiringInvariant`: `Spec => []WireInv`. It says of the parent, at each statement of
  the loop, which descriptors it has opened and not closed (`Own`) and where it
  remembers them: before a task at most the read end of the pipe before it, in the
  middle of the redirects what those read so far have opened (`FilesSoFar`, over the
  first `i - 1` of them), after `fork` what `_sf1_close_child_files` has still to close
  and the next read end (`ToClose`), while it waits nothing. Past the loop at most one
  is left, a read end whose reader was not forked (`Orphan`). Of a child it says that
  after `fork` its files are those of its redirects, and after the `dup2`s that its
  stdin, stdout and stderr are.
* `ProgramsAreWired` (`WiredAsWritten`), `WaitsWithoutPipes` (`WaitsForWholeJob`) and
  `LeaksAtMostOne` (`LeakBounded`) follow from it. Two orders matter in the argument.
  The grammar attaches pipes behind the redirects the user wrote, so that when the
  write end is opened nothing can fail any more (`NoPipeYet`); and the child sets up
  stdout before stderr, so that a stderr of 1 means what stdout has become (`DupFacts`).
  The premise is needed: a pipe whose read end gets number 0 is taken for no pipe.
* `ProgramsGetNothingElse`: `Spec => []OnlyStdio`, for every caller whose descriptors
  are below `rlim_cur` (`0..2` need not be open). The kernel hands out only
  numbers below the limit, so `_sf1_close_upper_fd` reaches every one. A caller that
  lowered its limit after opening a descriptor above it is outside the premise; that
  descriptor reaches the program (see the hazards).

Only the assumptions at the top of `TaskRun` are used (`IsLine` for every line, a
limit of at least 3, positive bounds). The proofs about wiring made one guarantee of
the grammar explicit in `IsLine`, that a pipe comes after the redirects of the
task itself (`append_redirect` in `parser-support.c`). That the parser delivers such
lines is `AcceptedListsAreLines`, below.

`Scanner_proofs`, for every set of formats and every caller that sets up, scans,
deletes and destroys in this order:

* `ScannerInvariant`, `BufferIsNotLeft`, `FormatIsKept`, `BlocksAreFreedOnce`: `SSpec`
  implies that `StaysInBuffer`, `BufferKept` and `FreedOnce` hold always. None is
  inductive. The strengthening `SInv` relates the buffer to the format at each place of
  `yylex`: while the scanner matches, the buffer is the format and its two NULs; while
  a token is handled, one byte of it is held; the scanner is in the state that ends the
  buffer just when it has read one of the NULs; the place to back up to is
  inside. It rests on what the tables guarantee: a NUL, and only a NUL, leads to the
  state that ends the buffer, and from there a NUL jams, so the match loop
  stops at the second one at the latest; every byte leads from the start state to an
  accepting state, so there is a place to back up to within the match at hand. These
  facts are lemmas, proved on the tables.
* `ScannerScansLexer`: `SSpec => []ScansLexer`. The rule and the length that `yylex`
  acts on are those of `TokenAt`, for every format. First the compressed tables are
  unpacked (`Arrows`): behind each state and class of bytes, the next state, as a table
  that can be read. Then each state is given the texts that lead to it (`Reads`): state
  17, say, to the words, 37 to the bracket expressions that are not closed yet. `ReadsOn`
  shows for every state that the texts of the next state are those of this one and one
  more byte, `RulesAsk` and `TableAccepts` that a state accepts by rule `r` just when `r`
  is the first rule that matches them, and `JamIsSilent` that no rule matches a text that
  goes on behind one that has led into the jam state. The inductive invariant, `LongestInv`, says of the match loop that
  `cur` is the state of the text read so far and that the last accepting state and
  place are those of its longest prefix that a rule matches, also when the loop is
  entered a second time at the end of the buffer.

`Parser_proofs`, for every sequence of tokens, every `InitDepth` and `MaxDepth`:

* `StackInvariant`: the state stack is a path of the automaton, each state entered by
  the symbol of that state from the one below. This is the classical invariant of an
  LR parser, and the strengthening for the next two.
* `StacksFit`, `ReductionsMatch`: `PSpec` implies `[]StackFits` and
  `[]ReducesWhatItRead`. A reduction is safe because in the automaton every path that
  ends in a state that reduces by a rule ends in the right-hand side of that rule; the
  lemmas check this on the tables.
* `ExhaustedMeansFull` (`ExhaustedOnlyWhenFull`), an action property: unless memory is
  short, doubling and clipping the size give up only when `MaxDepth` entries are used.
* `ValuesInvariant`: each value on the stack has the type of its symbol (`Fits`). The
  types say what a semantic action may rely on: a `cmd` has only redirections of its
  own, so that the pipe of rule 6 goes behind them; a `cmds` is a task list in which
  both ends of every pipe are there, on neighbouring tasks, stdout before stdin, the
  reader runs always, and neither end is left over (`IsTaskList`); and the list in
  `tasks` is one as soon as a `cmds` is on the stack. `SemanticActions` and
  `ChainIsList` show it rule by rule, `TopFits` that the values an action
  reads are those of its right-hand side.
* `AcceptedListsAreLines`: `PSpec => []BuildsLines`. What the parser accepts is a line
  in the sense of `IsLine`, which `TaskRun` assumes of its command lines.
* `AnswersAreRight`, `RefusalsAreRight`: `PSpec` implies `[]Answers` and
  `[]RefusesNoSentence`. The prover is asked whether a stack automaton agrees with a
  definition that cuts a whole sequence into pieces. What connects them is the `Phases`
  of a sentence: at the begin of a word, in a word, behind an operator that wants a
  file, in the name of the file, behind an operator that wants none, or dead. `After`
  gives the next phase, and `InPhase(s, d)` says of the tokens read which sequences
  make a sentence of them: `s \o t` is one just when `Continues(d, t)`. That `After` is
  right is shown for every token from lemmas about `Pieces`. The inductive invariant,
  `PhaseInv`, gives every entry of the stack a phase: each state of the automaton may
  `Stand` only for some of them; the top entry stands for the phase behind all that was
  read; and a state that can only have been reached by a default reduction `Faces` only
  some tokens (bison lets such a state reduce on any token, also on one at which no
  sentence goes on, so an error shows up some reductions later). When `yyparse`
  reports an error, the phase behind the token is dead, or at the end of the input not
  one at which a sentence may end. This is more than `RefusesNoSentence` says: where
  `yyparse` gives up early, no continuation would have helped.
* `AcceptsAreRight`: `PSpec => []AcceptsOnlySentences`. The invariant `YieldInv` gives
  every entry of the stack the tokens it stands for, one entry's behind the other's,
  together all that has been taken from the input; `IsPart` says for each symbol how
  its value comes from these tokens, for a `cmd` the task that they mean, for a `cmds`
  the task list. `OnePart`, `TwoParts` and `ThreeParts` show for each of the 24 rules that the
  value which its action builds is that of the joined tokens; right recursion is harmless
  because a piece in front of others goes before them. `MeansIt` turns
  this into `Means`, when the stack holds nothing but the list (`WholeList`) and the
  list is the one in `tasks` (`ListInv`).

`Systemf_proofs`: `UsesScanner` and `UsesParser` show that a call of `systemf1`
implements `SSpec` and `PSpec`; `ScannerInCalls` and `ParserInCalls` conclude that the
invariants above hold in every call. The components were specified with any caller
and any scanner, so nothing about the other one is needed. Then:

* `CallsScanLexer`: so does `ScansLexer`: every token of a call is one of `lexer.l`.
* `CallsLeaveNothing`: `Spec => []RanClean`, for every format. Of the scanner's blocks
  it follows from `FreedOnce`. For the others, allocated by one semantic action and
  freed by another or by `_sf1_task_free`, each symbol is worth the blocks that its
  value is made of (`Worth`): a syllable one, a word and a list of words as many
  as they have syllables, redirections one each, a task itself, its arguments
  and its redirections. `RuleBalances` shows that each action allocates and frees just
  the difference between its right-hand and its left-hand side.
* `BooksBalance`: so the blocks of each kind are those on the stack, in the lookahead
  and of the parse result (`StackBalance`), until a syntax error, after which the
  parser can only give up; when it accepts, all that is left is the list, because
  below the final state there is nothing else (`WholeList` and `ListInv` of
  `Parser_proofs`), so the
  books carry over to `tasks` (`ListBalance`); and freeing the list leaves nothing.
  The worth of a list is a sum over a sequence; `SumOf` is a recursive function, and
  the lemmas about it use `Induction`.
* `CallsRunWhatIsWritten`: `Spec => [](fmt \in Seq(1..127) => RunsWhatIsWritten)`, for
  formats of any length. `AcceptsAreRight` and `AnswersAreRight` speak of the tokens
  that the parser has read, `CallsScanLexer` of each token by itself; what is left is
  that the parser has read the tokens of the format, all of them and in their order,
  each conversion with its own argument. `TokensFrom` are the tokens from a place of
  the format on. `AlongInv` says that between two calls of `yylex` the parser has read
  the tokens before the place that the scanner has reached, and that as many
  arguments have been fetched as these tokens ask for; `WholeInv` that once the
  parser has seen the end of the input, it has read them all. A format that is
  given up earlier is no sentence because its tokens so far are the beginning of
  none. The premise is needed: of a format with a byte above 127 the parser
  reads only what stands before it (run `NonAscii`).

`Sandbox_proofs`, for every set of names, every relation of names that start others,
and paths of any length:

* `SandboxInductive`: `Spec => []SandboxInvariant`. While `simple_sandbox_check`
  counts, `depth` is how many levels the path has got below the trusted directory
  (`Counted`), so a depth that never gets negative proves it contained. While
  `extract_simplified_path` copies, `simple` is the place the path has led to so far,
  as a row of `..` and then names (`Form`). One level is missing where an absolute
  path begins with `..`: the zero_dir is given up for the leading slash, so this `..`
  removes nothing and is not copied (`Absorbs`). The trusted path and the
  path begin alike, so both lose it or neither does, and the comparison is not
  misled.
* `AcceptedIsContained` (`AcceptsOnlyContained`), `ContainedIsAccepted`
  (`RefusesNoContained`) and `NeverAborts` (`AlwaysReturns`) follow. Two premises,
  both needed: a trusted path is empty or names a directory below where it gets to
  (`TrustedNamesDirectory`; `TrustedHere` shows what happens otherwise), and no
  part behind it begins with a slash (`PartsAreRelative`; see `LeadingSlash`). The
  paths of `Containment` satisfy both.
* Where a path leads is a recursive function, so the lemmas about it (`WalkIs` to
  `UpGrows`) need induction. `SetInduction` gets it from the well-founded order of the
  naturals, with a set in place of a predicate, and `RecursionExists` shows
  that such a function exists; both are in `Induction`, which the proofs about words,
  the scanner, the parser and whole calls use as well.

`Words_proofs`, for words of any number of syllables, texts of any length, lists of any
number of tasks, and globs that find any names (`WordsAssumption` only says
what these sets are made of):

* `WordsInductive`: `Spec => []WordsInv`. Between any two syllables the first walk
  has measured the syllables before this one (`Measured`), the second has copied
  the texts and the part of the trusted path that belong to them (`Copied`), and both
  speak of the same definitions of the length, the last slash and the text, over
  the first `n` syllables; the arguments made so far are what their words merge
  to (`ArgsMade`, `IsMergeOf`). In the loop of `_sf1_tasks_run`, `argc` is at least
  the number of strings that the arguments expand to (`Exp`) and one, the arguments
  before this one have been checked (`CheckedTo`), and `argv` holds their expansions.
* `MergeAlwaysFits` (`MergeFits`), `FileReferencesHaveDocumentedPaths`
  (`TrustedAsDocumented`), `ArgvAlwaysFits` (`ArgvFits`), `ArgvIsAsWritten`
  (`ArgvAsWritten`) and `FileReferencesAreChecked` (`CheckedBeforeUse`) follow. The two
  about file references are about words with untrusted data and a wildcard or a `%p`, as
  their names say, and say nothing of a plain `%s`. For these words
  the invariant has the path that the code finds (`FoundPath`), with `""` where the
  library's README says `./`. The lemmas are about joined
  sequences: how long the first `n` are together, and where the last slash of a
  text is that consists of several pieces (`LastSlashJoined`).
* `PatternsMeanWhatIsWritten` (`PatternAsMeant`): glob reads an escaped piece as its
  characters and a wildcard of the format as a wildcard. The premise
  `TextsHaveNoBackslash` is needed: the code does not escape a backslash.

Every safety invariant and every action property that a passing run checks is stated
by a theorem, and so is the refinement of `JobControl`. Model-checked only is liveness:
`Terminates`, `ParseReturns` and `CallReturns`. The prover has no rules for `ENABLED`, so
nothing that needs fairness can be proved with it.

Where a property speaks of a sequence of any length, its proof needs induction over
data. The theorems of the library take a predicate as a parameter, which no installed
prover can instantiate; here a set stands for the predicate (`SetInduction`), and a
function that is defined from the end of a sequence is shown to exist before it is used
(`RecursionExists`, `TokenizesExists`).

## What is not modelled, and the plan

Worth doing next: the contents of the three files that a program gets, so that the
theorem about calls reaches from the format to what its programs read and write;
`Systemf` ends where `Run` begins, and `TaskRun` begins with a line that
`AcceptedListsAreLines` delivers, but the two are not one specification.

Not modelled:

* In `derived-lexer.c`: the branches that a call cannot take (a NUL inside the text,
  refilling a buffer from a file), `yyrestart`, creating, pushing and popping
  buffers, the accessors, and `yy_user_action`, which counts lines and columns for
  messages. systemf calls none of these but the last.
* In `derived-parser.c`: locations, debugging output, and the verbose error messages
  (`YYERROR_VERBOSE` is 0 and they are not compiled); the branch that discards a
  lookahead after a second error, because the first one ends in `YYABORT`. Where no
  action reads the value of a token the model gives it `NoValue`, the code the value
  of the token before.
* Allocations whose result the code does not check (`syl`, `_sf1_create_redirect` and
  their like) are taken to succeed.
* What glob matches, the order of the names it finds, and the modes of files.
* The test harness and the build.

`DBG` and error messages are left out everywhere. `NDEBUG` builds, in which the
assertions around `getrlimit` and `waitpid` disappear, are not modelled.
