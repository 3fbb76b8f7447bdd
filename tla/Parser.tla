------------------------------- MODULE Parser -------------------------------
(***************************************************************************)
(* The generated parser (derived-parser.c): a stack automaton that reads    *)
(* tokens, reduces them by the rules of parser.y and builds the task list. *)
(*                                                                         *)
(* Linked lists are sequences: a word is a sequence of syllables, words is  *)
(* a sequence of words, cmds a sequence of tasks.  The semantic value that *)
(* no action reads is NoValue.  The location stack is left out.  input is  *)
(* no variable of the code: it records what yylex has returned, for the     *)
(* properties.                                                             *)
(***************************************************************************)
EXTENDS ParseTables, Sentences

CONSTANTS InitDepth,   \* YYINITDEPTH: 200
          MaxDepth,    \* YYMAXDEPTH: 10000
          NoStack      \* may the allocation of larger stacks fail?

ASSUME DepthsAssumption ==
  /\ InitDepth \in Nat \ {0} /\ MaxDepth \in Nat
  /\ InitDepth <= MaxDepth
ASSUME NoStackIsBoolean == NoStack \in BOOLEAN

VARIABLES
  pat,          \* where the parser is: a label of yyparse
  yyss,         \* the state stack, from yyss to yyssp
  yyvs,         \* the value stack
  yystacksize,
  relocated,    \* have the stacks been moved to allocated memory?
  yychar,       \* the lookahead token
  lookahead,    \* yylval, its value
  yynerrs,      \* how often yyerror reported a syntax error
  tasks,        \* results->tasks
  yyresult,
  input         \* the symbols read so far, without the end of input

stacks == <<yyss, yyvs, yystacksize, relocated>>
pvars  == <<pat, stacks, yychar, lookahead, yynerrs, tasks, yyresult, input>>

yystate == Last(yyss)
NoValue == <<>>

(***************************************************************************)
(* The semantic actions                                                    *)
(***************************************************************************)
NoFile == <<>>
NewRedirect(stream, target, append, file) ==
  [stream |-> stream, target |-> target, append |-> append, file |-> file]

(* _sf1_create_redirect for the rules 11 to 19, on the words of the file.   *)
Redirects(rule, file) ==
  CASE rule = 11 -> <<NewRedirect("in",  "file",  0, file)>>
    [] rule = 12 -> <<NewRedirect("out", "file",  0, file)>>
    [] rule = 13 -> <<NewRedirect("out", "file",  1, file)>>
    [] rule = 14 -> <<NewRedirect("out", "share", 0, NoFile)>>
    [] rule = 15 -> <<NewRedirect("err", "share", 0, NoFile)>>
    [] rule = 16 -> <<NewRedirect("err", "file",  0, file)>>
    [] rule = 17 -> <<NewRedirect("err", "file",  1, file)>>
    [] rule = 18 -> <<NewRedirect("err", "share", 0, NoFile),
                      NewRedirect("out", "file",  0, file)>>
    [] rule = 19 -> <<NewRedirect("err", "share", 1, NoFile),
                      NewRedirect("out", "file",  1, file)>>

RedirectRules == 11..19
IsShare(rule) == rule \in {14, 15}
HasGlob(word) == \E k \in DOMAIN word : "glob" \in word[k].flags

(* _sf1_create_redirect_pipe appends to both tasks.                        *)
WithPipe(task, stream) ==
  [task EXCEPT !.redirects = Append(@, NewRedirect(stream, "pipe", 0, NoFile))]

(* Mutant: && and || exchanged.                                            *)
RunIfOfRule_Swapped(rule) ==
  CASE rule \in {3, 6} -> "always"
    [] rule = 4        -> "if_prev_succeeded"
    [] rule = 5        -> "if_prev_failed"

RunIfOfRule(rule) ==
  CASE rule \in {3, 6} -> "always"
    [] rule = 4        -> "if_prev_failed"
    [] rule = 5        -> "if_prev_succeeded"

(* Mutant: the pipe is appended to its writer only.                         *)
Chain_WriterOnly(rule, task, rest) ==
  LET next == [Head(rest) EXCEPT !.run_if = RunIfOfRule(rule)]
  IN  <<IF rule = 6 THEN WithPipe(task, "out") ELSE task, next>> \o Tail(rest)

(* cmd sep cmds                                                            *)
Chain(rule, task, rest) ==
  LET next == [Head(rest) EXCEPT !.run_if = RunIfOfRule(rule)]
  IN  IF rule = 6
      THEN <<WithPipe(task, "out"), WithPipe(next, "in")>> \o Tail(rest)
      ELSE <<task, next>> \o Tail(rest)

(* The value of the left-hand side; v are the values of the right-hand side. *)
Value(rule, v) ==
  CASE rule = 2         -> <<v[1]>>
    [] rule \in 3..6    -> Chain(rule, v[1], v[3])
    [] rule = 7         -> [run_if |-> "always", words |-> v[1],
                            redirects |-> v[2]]
    [] rule = 8         -> v[1] \o v[2]
    [] rule \in {9, 22} -> v[1]
    [] rule = 10        -> <<>>
    [] IsShare(rule)    -> Redirects(rule, NoFile)
    [] rule \in RedirectRules /\ ~IsShare(rule) -> Redirects(rule, v[2])
    [] rule = 20        -> <<v[1]>>
    [] rule = 21        -> <<v[1]>> \o v[3]
    [] rule = 23        -> <<v[1]>>
    [] rule = 24        -> <<v[1]>> \o v[2]

(***************************************************************************)
(* yyparse                                                                 *)
(***************************************************************************)
ParserIdle ==
  /\ yyss = <<0>>
  /\ yyvs = <<NoValue>>
  /\ yystacksize = InitDepth
  /\ relocated = FALSE
  /\ yychar = YYEMPTY
  /\ lookahead = NoValue
  /\ yynerrs = 0
  /\ tasks = <<>>
  /\ yyresult = -1
  /\ input = <<>>

PInit == pat = "setstate" /\ ParserIdle

(* Mutant: full one entry early.                                           *)
Full_OneEarly(size) == Len(yyss) + 1 >= size

Full(size) == Len(yyss) >= size

(* yyreturn, reached with a result: the stacks are popped and freed, what   *)
(* the values on them point to is not.                                     *)
ReturnWith(result) ==
  /\ yyresult' = result
  /\ yyss' = <<0>>
  /\ yyvs' = <<NoValue>>
  /\ relocated' = FALSE
  /\ pat' = "returned"

(* yysetstate, with room for the next symbol; the final state accepts.      *)
SetState ==
  /\ pat = "setstate" /\ ~Full(yystacksize)
  /\ yystate # YYFINAL
  /\ pat' = "backup"
  /\ UNCHANGED <<stacks, yychar, lookahead, yynerrs, tasks, yyresult, input>>

Accept ==
  /\ pat = "setstate" /\ ~Full(yystacksize)
  /\ yystate = YYFINAL
  /\ ReturnWith(0)
  /\ UNCHANGED <<yystacksize, yychar, lookahead, yynerrs, tasks, input>>

(* Mutants: doubled past YYMAXDEPTH; not doubled.                           *)
GrownSize_NoLimit == yystacksize * 2
GrownSize_Same    == yystacksize

(* The stacks are full: double them, up to YYMAXDEPTH, ...                  *)
GrownSize == IF MaxDepth < yystacksize * 2 THEN MaxDepth ELSE yystacksize * 2

Grow ==
  /\ pat = "setstate" /\ Full(yystacksize)
  /\ yystacksize < MaxDepth
  /\ yystacksize' = GrownSize
  /\ IF Full(GrownSize)
     THEN ReturnWith(1)
     ELSE relocated' = TRUE /\ UNCHANGED <<pat, yyss, yyvs, yyresult>>
  /\ UNCHANGED <<yychar, lookahead, yynerrs, tasks, input>>

(* ... unless they are as large already, or there is no memory.             *)
Exhausted ==
  /\ pat = "setstate" /\ Full(yystacksize)
  /\ MaxDepth <= yystacksize \/ NoStack
  /\ ReturnWith(2)
  /\ yystacksize' = IF MaxDepth <= yystacksize THEN yystacksize ELSE GrownSize
  /\ UNCHANGED <<yychar, lookahead, yynerrs, tasks, input>>

(* yybackup: a state whose action depends on the lookahead reads one; a     *)
(* token that is not positive is the end of input.                         *)
WantsToken == pat = "backup" /\ NeedsToken(yystate) /\ yychar = YYEMPTY

Record(token, value) ==
  input' = IF token <= YYEOF THEN input
           ELSE Append(input, [id |-> YYTRANSLATE(token), value |-> value])

(* Mutant: the value of the token before is kept.                           *)
ReadToken_Stale(token, value) ==
  /\ WantsToken
  /\ yychar' = IF token <= YYEOF THEN YYEOF ELSE token
  /\ Record(token, value)
  /\ UNCHANGED <<pat, stacks, lookahead, yynerrs, tasks, yyresult>>

ReadToken(token, value) ==
  /\ WantsToken
  /\ yychar' = IF token <= YYEOF THEN YYEOF ELSE token
  /\ lookahead' = value
  /\ Record(token, value)
  /\ UNCHANGED <<pat, stacks, yynerrs, tasks, yyresult>>

Ready == pat = "backup" /\ (NeedsToken(yystate) => yychar # YYEMPTY)
Action == IF NeedsToken(yystate) THEN ParseAction(yystate, YYTRANSLATE(yychar))
                                 ELSE DefaultAction(yystate)

Shift ==
  /\ Ready /\ Action[1] = "shift"
  /\ yyss' = Append(yyss, Action[2])
  /\ yyvs' = Append(yyvs, lookahead)
  /\ yychar' = YYEMPTY
  /\ pat' = "setstate"
  /\ UNCHANGED <<yystacksize, relocated, lookahead, yynerrs, tasks, yyresult, input>>

(* yyreduce: run the semantic action on the top values, pop them, go on     *)
(* with the left-hand side.                                                *)
Rest(seq, rule)    == SubSeq(seq, 1, Len(seq) - Length(rule))
TopOf(seq, rule)   == SubSeq(seq, Len(seq) - Length(rule) + 1, Len(seq))
AbortsOnGlob(rule) ==
  rule \in RedirectRules /\ ~IsShare(rule) /\ HasGlob(TopOf(yyvs, rule)[2])

Reduce ==
  LET rule == Action[2] IN
  /\ Ready /\ Action[1] = "reduce" /\ rule # 22
  /\ ~AbortsOnGlob(rule)
  /\ LET rest  == Rest(yyss, rule)
         value == Value(rule, TopOf(yyvs, rule))
     IN  /\ yyss' = Append(rest, GotoState(Last(rest), Lhs(rule)))
         /\ yyvs' = Append(Rest(yyvs, rule), value)
         /\ tasks' = IF rule \in 2..6 THEN value ELSE tasks
  /\ pat' = "setstate"
  /\ UNCHANGED <<yystacksize, relocated, yychar, lookahead, yynerrs, yyresult, input>>

(* A redirection to a glob fails the assertion in _sf1_create_redirect.     *)
GlobTarget ==
  /\ Ready /\ Action[1] = "reduce" /\ AbortsOnGlob(Action[2])
  /\ pat' = "aborted"
  /\ UNCHANGED <<stacks, yychar, lookahead, yynerrs, tasks, yyresult, input>>

(* Mutant: after an error the same token is tried in the same state.        *)
SyntaxError_Retried ==
  Ready /\ Action[1] = "error" /\ UNCHANGED pvars

(* yyerrlab and yyerrlab1: report, then pop states until one can shift the  *)
(* error token, and shift it.                                              *)
SyntaxError ==
  /\ Ready /\ Action[1] = "error"
  /\ yynerrs' = yynerrs + 1
  /\ \E top \in DOMAIN yyss :
       /\ ShiftsError(yyss[top])
       /\ \A k \in top + 1 .. Len(yyss) : ~ShiftsError(yyss[k])
       /\ yyss' = Append(SubSeq(yyss, 1, top), Entry(yyss[top], YYTERROR))
       /\ yyvs' = Append(SubSeq(yyvs, 1, top), lookahead)
  /\ pat' = "setstate"
  /\ UNCHANGED <<yystacksize, relocated, yychar, lookahead, tasks, yyresult, input>>

(* words: error, whose action is YYABORT.                                  *)
Abort ==
  /\ Ready /\ Action = <<"reduce", 22>>
  /\ ReturnWith(1)
  /\ UNCHANGED <<yystacksize, yychar, lookahead, yynerrs, tasks, input>>

Step ==
  \/ SetState \/ Accept \/ Grow \/ Exhausted
  \/ Shift \/ Reduce \/ GlobTarget \/ SyntaxError \/ Abort

(* With any scanner: yylex may return any token with any value.            *)
PNext == Step \/ \E token, value : ReadToken(token, value)

PSpec == PInit /\ [][PNext]_pvars

(***************************************************************************)
(* Properties                                                              *)
(***************************************************************************)
(* The stacks stay within their memory, also while they are doubled up to   *)
(* YYMAXDEPTH, and one more entry always fits when a symbol is pushed.      *)
StackFits ==
  /\ Len(yyvs) = Len(yyss)
  /\ yystacksize <= MaxDepth
  /\ Len(yyss) <= yystacksize
  /\ pat = "backup" => Len(yyss) < yystacksize

(* The right-hand sides of the rules of parser.y.                          *)
RightHandSide ==
  << <<>>, <<21>>, <<21, 17, 20>>, <<21, 16, 20>>, <<21, 15, 20>>, <<21, 18, 20>>,
     <<24, 22>>, <<23, 22>>, <<23>>, <<>>, <<6, 25>>, <<10, 25>>, <<13, 25>>,
     <<14>>, <<7>>, <<8, 25>>, <<11, 25>>, <<9, 25>>, <<12, 25>>,
     <<25>>, <<25, 4, 24>>, <<1>>, <<3>>, <<3, 25>> >>

(* Every reduction finds its own right-hand side on top of the stack: the   *)
(* state stack never underflows and the values have the types that the      *)
(* action expects.                                                         *)
ReducesWhatItRead ==
  Ready /\ Action[1] = "reduce" =>
    LET n == Length(Action[2])
    IN  /\ Len(yyss) > n
        /\ \A k \in 1..n :
             Symbol(yyss[Len(yyss) - n + k]) = RightHandSide[Action[2]][k]

(* "memory exhausted" is reported only when YYMAXDEPTH entries are in use   *)
(* or memory is short.                                                     *)
ExhaustedOnlyWhenFull ==
  [][yyresult' = 2 => yyresult = 2 \/ Len(yyss) = MaxDepth \/ NoStack]_pvars

(* What _sf1_tasks_run relies on: both ends of a pipe are there, on          *)
(* neighbouring tasks, the reader runs always, and only stdout and stderr   *)
(* are shared.                                                             *)
BuildsLines == yyresult = 0 => IsLine(Outline(tasks, LAMBDA t : "quick"))

(* An accepted format is a sentence of parser.y, and its task list has the  *)
(* commands, words, redirections and conditions that the grammar gives it,  *)
(* in the order of the text, although the rules are right recursive.        *)
AcceptsOnlySentences ==
  yyresult = 0 => IsSentence(input) /\ Means(tasks, input)

(* A format is refused as a syntax error only if the tokens read are no      *)
(* sentence and, when the end of the input was not yet read, are none with  *)
(* one more syllable either: yyparse gives up on a token, never on the      *)
(* prefix of a sentence that a word would complete.                        *)
RefusesNoSentence ==
  yyresult = 1 =>
    /\ ~IsSentence(input)
    /\ yychar # YYEOF =>
         ~IsSentence(Append(input, [id |-> SYL, value |-> NoValue]))
=============================================================================
