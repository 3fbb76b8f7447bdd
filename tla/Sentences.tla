----------------------------- MODULE Sentences -----------------------------
(***************************************************************************)
(* The language of parser.y, and what a sentence means, without a stack:    *)
(* commands between separators, each of them words and then redirections.  *)
(* A token is [id, value]; ids are the symbol numbers of parser.y.          *)
(***************************************************************************)
EXTENDS Grammar

SYL == 3
SPC == 4
FileOps    == {6, 8, 9, 10, 11, 12, 13}
ShareOps   == {7, 14}
Separators == 15..18
AppendOps  == 11..13

OpText(id) ==
  CASE id = 6 -> "<"    [] id = 7 -> "2>&1" [] id = 8 -> "2>"
    [] id = 9 -> "&>"   [] id = 10 -> ">"   [] id = 11 -> "2>>"
    [] id = 12 -> "&>>" [] id = 13 -> ">>"  [] id = 14 -> ">&2"
    [] id = 15 -> "&&"  [] id = 16 -> "||"  [] id = 17 -> ";"
    [] id = 18 -> "|"

(* The pieces of s: each begins with a token in cuts, but the first, which is  *)
(* what comes before the first of them.                                    *)
Pieces(s, cuts) ==
  LET last[n \in 0..Len(s)] ==    \* the pieces of the last n tokens
        IF n = 0 THEN << <<>> >>
        ELSE LET token == s[Len(s) + 1 - n]
                 rest  == last[n - 1]
                 piece == Cons(token, Head(rest))
             IN  IF token.id \in cuts THEN Cons(<<>>, Cons(piece, Tail(rest)))
                                      ELSE Cons(piece, Tail(rest))
  IN  last[Len(s)]

(* What lies between the tokens in cuts, and these tokens.                 *)
Between(s, cuts) ==
  LET p == Pieces(s, cuts)
  IN  [k \in DOMAIN p |-> IF k = 1 THEN p[k] ELSE Tail(p[k])]
Cutters(s, cuts) ==
  LET p == Tail(Pieces(s, cuts)) IN [k \in DOMAIN p |-> Head(p[k])]

Commands(s) == Between(s, Separators)

(* A command is its words and then its redirections, each an operator and   *)
(* what follows it.                                                        *)
WordsOf(c)      == Between(Head(Pieces(c, FileOps \cup ShareOps)), {SPC})
Redirections(c) == Tail(Pieces(c, FileOps \cup ShareOps))

AllSyllables(s) == \A k \in DOMAIN s : s[k].id = SYL
IsWord(s) == s # <<>> /\ AllSyllables(s)

IsCommand(c) ==
  /\ \A k \in DOMAIN WordsOf(c) : IsWord(WordsOf(c)[k])
  /\ \A k \in DOMAIN Redirections(c) :
       LET r == Redirections(c)[k]
       IN  /\ AllSyllables(Tail(r))
           /\ (Head(r).id \in FileOps) <=> (Len(r) > 1)

IsSentence(s) == \A k \in DOMAIN Commands(s) : IsCommand(Commands(s)[k])

(* The meaning of a sentence: what Grammar says of its operators, and for   *)
(* each command its words.                                                 *)
Syllables(s) == [k \in DOMAIN s |-> s[k].value]
WordTexts(c) == [j \in DOMAIN WordsOf(c) |-> Syllables(WordsOf(c)[j])]
OpTexts(tokens) == [k \in DOMAIN tokens |-> OpText(tokens[k].id)]
Meaning(s) ==
  Cmds([k \in DOMAIN Commands(s) |->
          Cmd(WordTexts(Commands(s)[k]),
              OpTexts(Cutters(Commands(s)[k], FileOps \cup ShareOps)))],
       OpTexts(Cutters(s, Separators)))

(* The files that a command opens, one entry for each of its redirects:     *)
(* the words behind the operator, and whether it appends.                  *)
OpenedBy(r) ==
  [j \in DOMAIN Redirection(OpText(Head(r).id)) |->
     [file   |-> Syllables(Tail(r)),
      append |-> IF Head(r).id \in AppendOps THEN 1 ELSE 0]]
Files(c) == FlattenSeq([k \in DOMAIN Redirections(c) |-> OpenedBy(Redirections(c)[k])])

(* Does the task open these files, before it has its pipes?                 *)
Opens(task, files) ==
  \A j \in DOMAIN files :
    task.redirects[j].target = "file" =>
      [file |-> task.redirects[j].file, append |-> task.redirects[j].append] = files[j]

Means(list, s) ==
  /\ Outline(list, LAMBDA t : t.words) = Meaning(s)
  /\ \A k \in DOMAIN Commands(s) : Opens(list[k], Files(Commands(s)[k]))
=============================================================================
