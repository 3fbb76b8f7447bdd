------------------------------ MODULE MCParser ------------------------------
(***************************************************************************)
(* The parser on its own: the tokens come one by one, any token at any      *)
(* place, and then the end of the input.                                   *)
(***************************************************************************)
EXTENDS Parser

CONSTANT MaxTokens    \* bound on the tokens before the end of the input

(* Every token of the grammar, and a byte that is none.  A syllable carries *)
(* its place, so that no two of a format are alike.                        *)
TokenSet == {258, 259} \cup (261..273) \cup {36}
Values(token) ==
  IF token # 258 THEN {NoValue}
  ELSE {[flags |-> f, text |-> <<Len(input) + 1>>] :
          f \in {{"trusted"}, {"file", "glob", "trusted"}}}

Supply ==
  \/ /\ Len(input) < MaxTokens
     /\ \E token \in TokenSet : \E value \in Values(token) : ReadToken(token, value)
  \/ ReadToken(0, NoValue)

MCNext == Supply \/ Step
MCSpec == PInit /\ [][MCNext]_pvars /\ WF_pvars(MCNext)

(***************************************************************************)
(* Properties                                                              *)
(***************************************************************************)
(* yyparse returns, or fails its assertion.                                *)
ParseReturns == <>(pat \in {"returned", "aborted"})
=============================================================================
