------------------------------ MODULE MCWords ------------------------------
(***************************************************************************)
(* Words of up to three pieces, small lists of tasks, and the table of the   *)
(* library's README.                                                       *)
(***************************************************************************)
EXTENDS Words

MCChars == {"a", "b", "c", "x", "y", "7", ".", "/", "*", "[", "]", "\\"}
Piece(rule, s) == [flags |-> SyllableFlags(rule), text |-> s]
Strings(S, n) == UNION {[1..m -> S] : m \in 0..n}

(* What the rules can give: the texts of the format and those of arguments  *)
(* of at most n characters.                                                *)
Arguments(n) == Strings({"a", "/", "*"}, n)
Pieces(n) ==
  {Piece(1, s) : s \in Strings({"a", "/"}, n) \ {<<>>}}
  \cup {Piece(3, <<"*">>), Piece(2, <<"[", "a", "]">>), Piece(8, <<"7">>)}
  \cup {Piece(r, s) : r \in 4..7, s \in Arguments(n)}

(* The scanner makes one piece of neighbouring bytes of a word.            *)
IsPlain(p) == p.flags = {"trusted"}
IsScanned(w) == \A n \in 1..(Len(w) - 1) : ~(IsPlain(w[n]) /\ IsPlain(w[n + 1]))

SomeWords ==
  {w \in [1..2 -> Pieces(2)] \cup [1..3 -> Pieces(1)] : IsScanned(w)}

(* Tasks of several words and lists of two tasks, of a few kinds of words.  *)
Command == <<Piece(1, <<"/", "a">>)>>
FewWords == {<<Piece(4, <<"*">>)>>, <<Piece(3, <<"*">>)>>,
             <<Piece(1, <<"a", "/">>), Piece(7, <<"*">>)>>,
             <<Piece(1, <<"a", "/">>), Piece(5, <<"a">>)>>}
FewTasks == {<<Command, w>> : w \in FewWords}
              \cup {<<v, w>> : v \in FewWords, w \in FewWords}

(* The table in README.md, "Determine the trusted path of that argument":   *)
(* the word of each row, and its trusted path where it has one.            *)
Literal(s) == Piece(1, s)
Data(rule) == Piece(rule, <<"a">>)
X_Y        == Literal(<<"/", "x", "/", "y">>)
A_B_C      == Literal(<<".", "/", "a", "/", "b", "/", "c">>)
Table ==
  << [word |-> <<A_B_C, Piece(3, <<"*">>), Literal(<<"/">>), Data(4)>>,
      path |-> {<<".", "/", "a", "/", "b", "/">>}],
     [word |-> <<A_B_C, Data(4), Literal(<<"/">>), Piece(3, <<"*">>)>>,
      path |-> {<<".", "/", "a", "/", "b", "/">>}],
     [word |-> <<Data(5), X_Y>>, path |-> {<<".", "/">>}],
     [word |-> <<Data(6), X_Y>>, path |-> {}],
     [word |-> <<Data(4), X_Y, Literal(<<"/">>), Data(6)>>, path |-> {<<".", "/">>}],
     [word |-> <<Data(4), X_Y>>, path |-> {}],
     [word |-> <<Literal(<<".", "/", "a", "/">>), Data(4)>>,
      path |-> {<<".", "/", "a", "/">>}] >>

(* The definitions of module Words give what the table says.                *)
ASSUME TableAssumption ==
  /\ \A row \in 1..6 :
       Table[row].path = IF IsFileReference(Table[row].word)
                         THEN {DocumentedPath(Table[row].word)} ELSE {}
  /\ Table[7].path = {DocumentedPath(Table[7].word)}

(* The rows as commands: the last is one with two words.                    *)
TableJobs == {<< <<Command, Table[row].word>> >> : row \in 1..6}
               \cup {<< <<Table[7].word, Table[6].word>> >>}

MCJobs == {<< <<w>> >> : w \in SomeWords}
            \cup {<<t>> : t \in FewTasks}
            \cup {<<t, u>> : t \in FewTasks, u \in FewTasks}
            \cup TableJobs

(* One name or two.                                                        *)
MCMatches == { << <<"x">> >>, << <<"x">>, <<"y">> >> }
=============================================================================
