------------------------------ MODULE MCSystemf ------------------------------
(***************************************************************************)
(* Whole calls of systemf1, for every format of a bounded set.             *)
(***************************************************************************)
EXTENDS Systemf

Strings(S, n) == UNION {[1..k -> S] : k \in 0..n}

(* A byte of every class that yy_ec tells apart: $ tab newline blank ! % & *)
(* * a 1 2 ; < > ? [ ] d p s |.                                            *)
EveryClass == {36, 9, 10, 32, 33, 37, 38, 42, 97, 49, 50, 59, 60, 62, 63, 91, 93,
               100, 112, 115, 124}

(* All short formats; longer ones of the bytes that combine: redirections,  *)
(* brackets, separators and conversions.                                   *)
MCFormats ==
  Strings(EveryClass, 3) \cup Strings({32, 38, 49, 50, 62}, 5)
  \cup Strings({42, 91, 93, 97}, 4) \cup Strings({32, 62, 97, 124}, 6)
  \cup Strings({33, 37, 42, 112}, 4)

(* Formats with a byte that is not ASCII.                                  *)
NonAsciiFormats == Strings({32, 97, 124, 200}, 4)

(* What the tasks may end with: success, another exit code, a failure.      *)
MCStatuses == {0, 1, -1}

(***************************************************************************)
(* Properties                                                              *)
(***************************************************************************)
(* A format with a byte that lexer.l knows only as "any other" is refused.  *)
RefusesUnknownBytes ==
  call = "run" =>
    LET tokens == TokensOf(fmt) IN \A k \in DOMAIN tokens : tokens[k].rule # 23
=============================================================================
