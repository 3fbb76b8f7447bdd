----------------------------- MODULE Syllables -----------------------------
(***************************************************************************)
(* The pieces of a word as the rules 1 to 8 of lexer.l make them.          *)
(***************************************************************************)
EXTENDS Integers

(* 1 a word; 2 a bracket; 3 a wildcard; 4 %s; 5 %p; 6 %!p; 7 %*p; 8 %d.     *)
SyllableFlags(rule) ==
  CASE rule = 1       -> {"trusted"}
    [] rule \in {2, 3} -> {"file", "glob", "trusted"}
    [] rule = 4       -> {"escape"}
    [] rule = 5       -> {"file", "escape"}
    [] rule = 6       -> {"file", "trusted", "escape"}
    [] rule = 7       -> {"file", "glob"}
    [] rule = 8       -> {}

(* The rules whose text is the next argument of systemf1.                  *)
Fetches(rule) == rule \in 4..8
=============================================================================
