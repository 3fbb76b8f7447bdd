------------------------------ MODULE Systemf ------------------------------
(***************************************************************************)
(* One call of systemf1 (systemf.c): set the scanner up, parse, take the    *)
(* scanner down, run the tasks, free them.  The parser asks the scanner for *)
(* tokens; the scanner fetches the arguments of the call.                  *)
(*                                                                         *)
(* blocks counts what is allocated outside of the scanner and the stacks:  *)
(* the parse result, the syllables that the scanner returns, and the tasks, *)
(* arguments and redirects that the semantic actions make of them.         *)
(***************************************************************************)
EXTENDS Scanner, Parser

CONSTANT Statuses    \* what _sf1_tasks_run may return

ASSUME StatusesAreIntegers == Statuses \subseteq Int

Kinds == {"result", "syllable", "task", "arg", "redirect"}

VARIABLES
  call,     \* where systemf1 is
  blocks,   \* for each kind: allocations less frees
  ret       \* what it returns

vars == <<svars, pvars, call, blocks, ret>>

Init ==
  /\ SInit /\ PInit
  /\ call = "start"
  /\ blocks = [k \in Kinds |-> 0]
  /\ ret = -1

(* Adds delta[k] blocks of each kind k that delta mentions.                *)
Count(delta) ==
  blocks' = [k \in Kinds |-> IF k \in DOMAIN delta THEN blocks[k] + delta[k]
                                                  ELSE blocks[k]]

SumOf(seq) ==
  LET sum[n \in 0..Len(seq)] == IF n = 0 THEN 0 ELSE sum[n - 1] + seq[n]
  IN  sum[Len(seq)]
SyllablesIn(words) == SumOf([k \in DOMAIN words |-> Len(words[k])])

(***************************************************************************)
(* Before the parser                                                       *)
(***************************************************************************)
Start ==
  /\ call = "start" /\ LexInit
  /\ Count([result |-> 1])
  /\ call' = "scan"
  /\ UNCHANGED <<pvars, ret>>

StartFails ==
  /\ call = "start" /\ LexInitFails
  /\ Count([result |-> 1])
  /\ call' = "returned"
  /\ UNCHANGED <<pvars, ret>>

Load ==
  /\ call = "scan" /\ ScanString
  /\ call' = "parse"
  /\ UNCHANGED <<pvars, blocks, ret>>

LoadFails ==
  /\ call = "scan" /\ ScanStringFails
  /\ call' = "exited"
  /\ UNCHANGED <<pvars, blocks, ret>>

(***************************************************************************)
(* yyparse, and yylex when it wants a token                                *)
(***************************************************************************)
CallYylex ==
  /\ call = "parse" /\ WantsToken /\ CallLex
  /\ call' = "lex"
  /\ UNCHANGED <<pvars, blocks, ret>>

Yylex ==
  /\ call = "lex"
  /\ Match \/ FindAction \/ LastMatch \/ MatchAgain \/ MatchedAgain
  /\ UNCHANGED <<pvars, call, blocks, ret>>

YylexReturns ==
  /\ call = "lex" /\ Return
  /\ ReadToken(token', yylval')
  /\ Count([syllable |-> IF token' = SYLLABLE THEN 1 ELSE 0])
  /\ call' = "parse"
  /\ UNCHANGED ret

(* Mutant: the syllables of the words of a command are not freed.           *)
Allocated_KeepsSyllables(rule, v) ==
  CASE rule = 6 -> [redirect |-> 2]
    [] rule = 7 -> [task |-> 1, arg |-> Len(v[1])]
    [] IsShare(rule) -> [redirect |-> 1]
    [] rule \in RedirectRules /\ ~IsShare(rule) ->
         [redirect |-> Len(Redirects(rule, NoFile)), syllable |-> -Len(v[2])]
    [] OTHER -> [result |-> 0]

(* What the semantic action of a rule allocates and frees; v are the values *)
(* of its right-hand side.  A word becomes an argument and a file the text  *)
(* of a redirect; _sf1_merge_and_free_syllables frees their syllables.      *)
Allocated(rule, v) ==
  CASE rule = 6 -> [redirect |-> 2]
    [] rule = 7 -> [task |-> 1, arg |-> Len(v[1]), syllable |-> -SyllablesIn(v[1])]
    [] IsShare(rule) -> [redirect |-> 1]
    [] rule \in RedirectRules /\ ~IsShare(rule) ->
         [redirect |-> Len(Redirects(rule, NoFile)), syllable |-> -Len(v[2])]
    [] OTHER -> [result |-> 0]

Yyparse ==
  /\ call = "parse" /\ Step
  /\ IF Ready /\ Action[1] = "reduce"
     THEN Count(Allocated(Action[2], TopOf(yyvs, Action[2])))
     ELSE UNCHANGED blocks
  /\ call' = IF pat' = "aborted" THEN "aborted" ELSE "parse"
  /\ UNCHANGED <<svars, ret>>

(* An error: free the result; the rest stays allocated.                    *)
Refuse ==
  /\ call = "parse" /\ pat = "returned" /\ yyresult # 0
  /\ Count([result |-> -1])
  /\ ret' = -1
  /\ call' = "returned"
  /\ UNCHANGED <<svars, pvars>>

(***************************************************************************)
(* After the parser                                                        *)
(***************************************************************************)
Delete ==
  /\ call = "parse" /\ pat = "returned" /\ yyresult = 0
  /\ DeleteBuffer
  /\ call' = "destroy"
  /\ UNCHANGED <<pvars, blocks, ret>>

Destroy ==
  /\ call = "destroy" /\ LexDestroy
  /\ call' = "run"
  /\ UNCHANGED <<pvars, blocks, ret>>

(* TaskRun models what happens here.                                       *)
Run ==
  /\ call = "run"
  /\ ret' \in Statuses
  /\ call' = "ran"
  /\ UNCHANGED <<svars, pvars, blocks>>

(* _sf1_task_free, and the result.                                          *)
FreeAll ==
  /\ call = "ran"
  /\ Count([result   |-> -1,
            task     |-> -Len(tasks),
            arg      |-> -SumOf([k \in DOMAIN tasks |-> Len(tasks[k].words)]),
            redirect |-> -SumOf([k \in DOMAIN tasks |-> Len(tasks[k].redirects)])])
  /\ call' = "returned"
  /\ UNCHANGED <<svars, pvars, ret>>

Next ==
  \/ Start \/ StartFails \/ Load \/ LoadFails
  \/ CallYylex \/ Yylex \/ YylexReturns \/ Yyparse \/ Refuse
  \/ Delete \/ Destroy \/ Run \/ FreeAll

Spec == Init /\ [][Next]_vars

(* One thread that the kernel schedules.                                   *)
FairSpec == Spec /\ WF_vars(Next)

(***************************************************************************)
(* What lexer.l and parser.y say of the format.                            *)
(***************************************************************************)
IdOf(rule) ==
  CASE rule \in 1..8   -> SYL
    [] rule = 9        -> SPC
    [] rule \in 10..22 -> YYTRANSLATE(Operator(rule))
    [] rule = 23       -> YYUNDEFTOK

(* The tokens of format f as symbols of the grammar with their syllables.   *)
(* The arguments go to the conversions in the order of the text.           *)
TextOf(f, t) == SubSeq(f, t.start, t.start + t.length - 1)
Argument(tokens, k) == Cardinality({j \in 1..k : Fetches(tokens[j].rule)})

Symbols(f, tokens) ==
  [k \in DOMAIN tokens |->
     [id    |-> IdOf(tokens[k].rule),
      value |-> IF tokens[k].rule \notin 1..8 THEN NoSyllable
                ELSE [flags |-> SyllableFlags(tokens[k].rule),
                      text  |-> IF Fetches(tokens[k].rule)
                                THEN <<-Argument(tokens, k)>>
                                ELSE TextOf(f, tokens[k])]]]
SentenceOf(f) == Symbols(f, TokensOf(f))

(***************************************************************************)
(* Properties                                                              *)
(***************************************************************************)
Over == {"returned", "aborted", "exited"}

(* A call that runs its tasks has freed everything when it returns, each    *)
(* block once: what the scanner, the parser and the actions allocated has   *)
(* been handed from one to the next and nothing was dropped on the way.     *)
RanClean ==
  call = "returned" /\ yyresult = 0 =>
    /\ \A k \in Kinds : blocks[k] = 0
    /\ \A b \in Blocks : heap[b] = 0

(* A call runs exactly the formats that are sentences, and what it runs has *)
(* the commands, words, conditions and redirections that the format spells, *)
(* each conversion with the argument at its place in the text, although the *)
(* arguments are fetched while the scanner runs ahead of the parser.       *)
RunsWhatIsWritten ==
  /\ call = "run" => IsSentence(SentenceOf(fmt)) /\ Means(tasks, SentenceOf(fmt))
  /\ call = "parse" /\ yyresult = 1 => ~IsSentence(SentenceOf(fmt))

(* The call comes to an end, whatever the format.                          *)
CallReturns == <>(call \in Over)
=============================================================================
