------------------------------- MODULE Words -------------------------------
(***************************************************************************)
(* From the pieces of a word to the argument vector of a program: while     *)
(* the format is parsed _sf1_merge_and_free_syllables makes one text of     *)
(* each word and finds the part of it that is trusted (parser-support.c);  *)
(* later _sf1_tasks_run expands the globs of each task, has the file names *)
(* checked and fills argv (task.c).                                        *)
(*                                                                         *)
(* A text is a sequence of characters.  trusted_path is a set: empty for    *)
(* NULL, otherwise with the path as its member.                            *)
(***************************************************************************)
EXTENDS Syllables, SequencesExt

CONSTANTS Chars,
          Jobs,       \* lists of tasks; a task is a list of words, a word one
                      \* of syllables, each with flags and text
          Matches     \* what glob may find for a pattern: lists of names

Text     == Seq(Chars)
Syllable == [flags : SUBSET {"trusted", "file", "glob", "escape"}, text : Text]

ASSUME WordsAssumption ==
  /\ "\\" \in Chars
  /\ Jobs \subseteq Seq(Seq(Seq(Syllable)))
  /\ \A tasks \in Jobs : tasks # <<>> /\ \A t \in DOMAIN tasks : tasks[t] # <<>>
  /\ Matches \subseteq Seq(Text) /\ <<>> \notin Matches

VARIABLES
  job,
  pc,
  i, j, k,       \* the task, the word and the syllable at hand
  is_glob, is_file, is_trusted,
  escapes, slen, sandbox_len, sandbox_candidate,
  detecting,     \* doing_sandbox_detection
  text,          \* from text to cursor
  trusted,       \* trusted_path, the sandbox_index bytes copied so far
  args,          \* for each task: its arguments
  globs,         \* for each argument of task i: what its glob found
  argc, argv,
  checked,       \* the <<trusted path, name>> pairs that passed the check
  ret

flags  == <<is_glob, is_file, is_trusted, detecting>>
sizes  == <<escapes, slen, sandbox_len, sandbox_candidate>>
built  == <<text, trusted>>
run    == <<globs, argc, argv, checked, ret>>
vars   == <<job, pc, i, j, k, flags, sizes, built, args, run>>

GlobChars == {"?", "*", "[", "]"}

(***************************************************************************)
(* _sf1_merge_and_free_syllables                                           *)
(***************************************************************************)
NewWord ==
  /\ k' = 1
  /\ is_glob' = FALSE /\ is_file' = FALSE /\ is_trusted' = TRUE
  /\ detecting' = TRUE
  /\ escapes' = 0 /\ slen' = 0 /\ sandbox_len' = 0 /\ sandbox_candidate' = 0
  /\ text' = <<>> /\ trusted' = <<>>

Init ==
  /\ job \in Jobs
  /\ pc = "measure"
  /\ i = 1 /\ j = 1 /\ k = 1
  /\ is_glob = FALSE /\ is_file = FALSE /\ is_trusted = TRUE
  /\ detecting = TRUE
  /\ escapes = 0 /\ slen = 0 /\ sandbox_len = 0 /\ sandbox_candidate = 0
  /\ text = <<>> /\ trusted = <<>>
  /\ args = [t \in DOMAIN job |-> <<>>]
  /\ globs = <<>> /\ argc = 1 /\ argv = <<>> /\ checked = {} /\ ret = -1

word == job[i][j]
Has(flag) == flag \in word[k].flags

Places(chars, s) == {n \in DOMAIN s : s[n] \in chars}
LastSlash(s) ==
  LET slashes == Places({"/"}, s)
  IN  IF slashes = {} THEN 0 ELSE CHOOSE n \in slashes : \A m \in slashes : m <= n

(* Mutant: a wildcard does not end the trusted path.                        *)
Scans_Wildcards == detecting /\ Has("trusted")

Scans == detecting /\ Has("trusted") /\ ~Has("glob")

(* The first walk, one syllable: lengths, flags, and where the last slash   *)
(* before anything untrusted or any wildcard is.                           *)
Measure ==
  /\ pc = "measure" /\ k <= Len(word)
  /\ LET s    == word[k].text
         scan == Scans
         cut  == LastSlash(s)
     IN  /\ escapes' = escapes + IF Has("escape") THEN Cardinality(Places(GlobChars, s))
                                                  ELSE 0
         /\ slen' = slen + Len(s)
         /\ detecting' = scan
         /\ sandbox_len' = sandbox_len + IF scan /\ cut > 0
                                         THEN sandbox_candidate + cut ELSE 0
         /\ sandbox_candidate' = IF ~scan THEN sandbox_candidate
                                 ELSE Len(s) - cut + IF cut > 0 THEN 0
                                                     ELSE sandbox_candidate
  /\ is_glob' = (is_glob \/ Has("glob"))
  /\ is_file' = (is_file \/ Has("file"))
  /\ is_trusted' = (is_trusted /\ Has("trusted"))
  /\ k' = k + 1
  /\ UNCHANGED <<job, pc, i, j, built, args, run>>

(* The memory for both texts: there is a trusted path if the word is a file *)
(* name and not all of it is trusted.                                      *)
HasTrustedPath == is_file /\ ~is_trusted

(* Mutant: no room for the backslashes.                                     *)
TextSize_NoEscapes == slen

TextSize == IF is_glob THEN slen + escapes ELSE slen

Allocate ==
  /\ pc = "measure" /\ k > Len(word)
  /\ slen' = TextSize
  /\ sandbox_len' = IF HasTrustedPath THEN sandbox_len ELSE 0
  /\ k' = 1
  /\ pc' = "copy"
  /\ UNCHANGED <<job, i, j, flags, escapes, sandbox_candidate, built, args, run>>

(* Mutant: the backslash behind the character that it is for.               *)
Escaped_Behind(s) ==
  FlattenSeq([n \in DOMAIN s |-> IF s[n] \in GlobChars THEN <<s[n], "\\">> ELSE <<s[n]>>])

Escaped(s) ==
  FlattenSeq([n \in DOMAIN s |-> IF s[n] \in GlobChars THEN <<"\\", s[n]>> ELSE <<s[n]>>])
AsPattern(s) == IF is_glob /\ "escape" \in s.flags THEN Escaped(s.text) ELSE s.text
Shorter(a, b) == IF a < b THEN a ELSE b

(* The second walk, one syllable: fill the trusted path up to its length    *)
(* and append the text, escaped if the word is a glob.                     *)
Copy ==
  /\ pc = "copy" /\ k <= Len(word)
  /\ LET s == word[k]
     IN  /\ trusted' = trusted \o SubSeq(s.text, 1, Shorter(sandbox_len - Len(trusted),
                                                            Len(s.text)))
         /\ text' = text \o AsPattern(s)
  /\ k' = k + 1
  /\ UNCHANGED <<job, pc, i, j, flags, sizes, args, run>>

(* The assertion that the text is as long as measured, and                 *)
(* _sf1_task_add_arg.                                                      *)
NewArg == [text |-> text, is_glob |-> is_glob,
           trusted_path |-> IF HasTrustedPath THEN {trusted} ELSE {}]

Merged ==
  /\ pc = "copy" /\ k > Len(word)
  /\ Len(text) = slen
  /\ args' = [args EXCEPT ![i] = Append(@, NewArg)]
  /\ NewWord
  /\ IF j < Len(job[i])
     THEN pc' = "measure" /\ j' = j + 1 /\ i' = i
     ELSE /\ j' = 1
          /\ IF i < Len(job) THEN pc' = "measure" /\ i' = i + 1
                             ELSE pc' = "glob" /\ i' = 1
  /\ UNCHANGED <<job, run>>

(***************************************************************************)
(* The head of the loop of _sf1_tasks_run, for task i                      *)
(***************************************************************************)
merging == <<k, flags, sizes, built, args>>
arg == args[i][j]
AllArgs == j > Len(args[i])

(* _sf1_extract_glob: the next argument.  glob finds at least one name, or  *)
(* fails: no match, no memory, or an error while reading.                  *)
ExtractGlob ==
  /\ pc = "glob" /\ ~AllArgs
  /\ IF arg.is_glob THEN \E found \in Matches : globs' = Append(globs, found)
                    ELSE globs' = Append(globs, <<>>)
  /\ j' = j + 1
  /\ UNCHANGED <<job, pc, i, merging, argc, argv, checked, ret>>

GlobFails ==
  /\ pc = "glob" /\ ~AllArgs /\ arg.is_glob
  /\ pc' = "failed"
  /\ UNCHANGED <<job, i, j, merging, run>>

(* The strings that an argument becomes.                                   *)
Expansion(n) == IF args[i][n].is_glob THEN globs[n] ELSE <<args[i][n].text>>

(* Mutant: one for each argument, however many names its glob has found.    *)
Counted_Arguments == Len(args[i])

Counted ==
  LET count[n \in 0..Len(args[i])] ==
        IF n = 0 THEN 0 ELSE count[n - 1] + Len(Expansion(n))
  IN  count[Len(args[i])]

(* The count goes on from the tasks before; it began with one for the NULL. *)
CountArgs ==
  /\ pc = "glob" /\ AllArgs
  /\ argc' = argc + Counted
  /\ j' = 1
  /\ pc' = "check"
  /\ UNCHANGED <<job, i, merging, globs, argv, checked, ret>>

(* Mutant: of the names that a glob found only the first is checked.         *)
NamesToCheck_First == {Head(Expansion(j))}

NamesToCheck == ToSet(Expansion(j))

(* _sf1_file_sandbox_check_args: the next argument.  The names of a glob    *)
(* are checked one after another; module Sandbox is about one check.       *)
CheckArg ==
  /\ pc = "check" /\ ~AllArgs
  /\ checked' = checked \cup {<<tp, name>> : tp \in arg.trusted_path, name \in NamesToCheck}
  /\ j' = j + 1
  /\ UNCHANGED <<job, pc, i, merging, globs, argc, argv, ret>>

CheckFails ==
  /\ pc = "check" /\ ~AllArgs /\ arg.trusted_path # {}
  /\ pc' = "failed"
  /\ UNCHANGED <<job, i, j, merging, run>>

(* Mutant: argv goes on where the task before left it.                      *)
AllocateArgv_Kept ==
  /\ pc = "check" /\ AllArgs
  /\ j' = 1
  /\ pc' = "fill"
  /\ UNCHANGED <<job, i, merging, globs, argc, argv, checked, ret>>

(* malloc(argc * sizeof(char * )), then the next argument.                 *)
AllocateArgv ==
  /\ pc = "check" /\ AllArgs
  /\ argv' = <<>>
  /\ j' = 1
  /\ pc' = "fill"
  /\ UNCHANGED <<job, i, merging, globs, argc, checked, ret>>

FillArg ==
  /\ pc = "fill" /\ ~AllArgs
  /\ argv' = argv \o Expansion(j)
  /\ j' = j + 1
  /\ UNCHANGED <<job, pc, i, merging, globs, argc, checked, ret>>

(* The terminating NULL.                                                   *)
Terminate ==
  /\ pc = "fill" /\ AllArgs
  /\ argv' = Append(argv, <<"NULL">>)
  /\ pc' = "exec"
  /\ UNCHANGED <<job, i, j, merging, globs, argc, checked, ret>>

(* The rest of the loop, which module TaskRun is about: the next task, or   *)
(* the end.                                                                *)
NextTask ==
  /\ pc = "exec"
  /\ globs' = <<>>
  /\ j' = 1
  /\ IF i < Len(job) THEN pc' = "glob" /\ i' = i + 1 /\ ret' = ret
                     ELSE pc' = "over" /\ i' = i /\ ret' = 0
  /\ UNCHANGED <<job, merging, argc, argv, checked>>

Merge   == Measure \/ Allocate \/ Copy \/ Merged
Prepare == \/ ExtractGlob \/ GlobFails \/ CountArgs \/ CheckArg \/ CheckFails
           \/ AllocateArgv \/ FillArg \/ Terminate
Next == Merge \/ Prepare \/ NextTask

Spec == Init /\ [][Next]_vars

(***************************************************************************)
(* Properties                                                              *)
(***************************************************************************)
(* Both walks over the syllables agree: what the second writes fits what    *)
(* the first has measured, byte for byte when it ends, so that neither text *)
(* overflows, keeps a byte that was not written, or fails the assertion.   *)
MergeFits ==
  pc = "copy" =>
    /\ Len(text) <= slen /\ Len(trusted) <= sandbox_len
    /\ k > Len(word) => Len(text) = slen /\ Len(trusted) = sandbox_len

(* What argv needs was allocated: the count is never reset between tasks,   *)
(* and what a glob found was counted before.                               *)
ArgvFits == pc \in {"fill", "exec"} => Len(argv) <= argc

Joined(w) == FlattenSeq([n \in DOMAIN w |-> w[n].text])

(***************************************************************************)
(* What README.md, "File Sandboxing", says of a word.                       *)
(***************************************************************************)
(* It has untrusted data: a %s, %d, %p or %*p.                             *)
Untrusted(w) == \E n \in DOMAIN w : "trusted" \notin w[n].flags

(* Step 1: it also has a wildcard of the format, or any %p.                 *)
IsFileReference(w) == Untrusted(w) /\ \E n \in DOMAIN w : "file" \in w[n].flags

(* Step 2: the longest path before anything untrusted and any wildcard.     *)
TrustedStart(w) ==
  LET Plain(n) == "trusted" \in w[n].flags /\ "glob" \notin w[n].flags
      lead     == {n \in DOMAIN w : \A m \in 1..n : Plain(m)}
      start    == Joined(SubSeq(w, 1, Cardinality(lead)))
  IN  SubSeq(start, 1, LastSlash(start))

(* Where there is none, "the current directory is assumed": ./ in the table *)
(* of README.md, "" in the program.                                        *)
Directory(path)   == IF path = <<>> THEN <<".", "/">> ELSE path
DocumentedPath(w) == Directory(TrustedStart(w))

(* A file reference has the trusted path of README.md, and of the words     *)
(* behind the command no other has one.  (A command with untrusted data but *)
(* no wildcard and no %p, row 7 of the table, has none either, and is       *)
(* nevertheless said to be sandboxed: CommandSandboxed.)                   *)
TrustedAsDocumented ==
  \A t \in DOMAIN args : \A n \in DOMAIN args[t] :
    LET w     == job[t][n]
        found == {Directory(path) : path \in args[t][n].trusted_path}
    IN  /\ IsFileReference(w) => found = {DocumentedPath(w)}
        /\ ~IsFileReference(w) /\ n > 1 => found = {}

(* How glob reads a pattern: each character, and whether it is taken as it  *)
(* stands.                                                                 *)
ReadAsPattern(p) ==
  LET Escapes(n) == n > 0 /\ p[n] = "\\"
      Reading(n) == <<p[n], p[n] \notin GlobChars \/ Escapes(n - 1)>>
  IN  FlattenSeq([n \in DOMAIN p |-> IF Escapes(n) THEN <<>> ELSE <<Reading(n)>>])

(* In a glob the characters of %s, %p and %!p stand for themselves and      *)
(* those of the format and of %*p are wildcards; any other word is its      *)
(* pieces, joined.                                                         *)
PatternAsMeant ==
  \A t \in DOMAIN args : \A n \in DOMAIN args[t] :
    LET w == job[t][n]
        Meant(s) == [m \in DOMAIN s.text |->
                       <<s.text[m], \/ s.text[m] \notin GlobChars
                                    \/ "escape" \in s.flags>>]
    IN  IF args[t][n].is_glob
        THEN ReadAsPattern(args[t][n].text) = FlattenSeq([m \in DOMAIN w |-> Meant(w[m])])
        ELSE args[t][n].text = Joined(w)

(* A program gets the words of its command in order, each glob replaced by  *)
(* what it matched.                                                        *)
ArgvAsWritten ==
  pc = "exec" =>
    argv = FlattenSeq([n \in DOMAIN args[i] |-> Expansion(n)]) \o << <<"NULL">> >>

(* A name that passed the check against the documented path of its word.    *)
Passed(name, w) ==
  \E c \in checked : c[2] = name /\ Directory(c[1]) = DocumentedPath(w)

(* No file reference, a word with untrusted data and a wildcard or a %p,    *)
(* reaches a program unchecked, be it the word itself or one of the names   *)
(* that a glob found.  Other words with untrusted data, a plain %s, are not *)
(* checked (row 6 of the table), nor is such a command (row 7).            *)
CheckedBeforeUse ==
  pc = "exec" =>
    \A n \in DOMAIN job[i] : IsFileReference(job[i][n]) =>
      \A name \in ToSet(Expansion(n)) : Passed(name, job[i][n])

(* Row 7 of the table in README.md, "./a/%s" with the trusted path ./a/:    *)
(* "sandboxing also happens on the command itself", which must live below   *)
(* the path that it begins with.  The program does not check it: neither    *)
(* the literal piece nor %s makes a word a file name.                      *)
CommandSandboxed ==
  pc = "exec" =>
    LET w == Head(job[i])
    IN  Untrusted(w) /\ TrustedStart(w) # <<>> =>
          \A name \in ToSet(Expansion(1)) : Passed(name, w)
=============================================================================
