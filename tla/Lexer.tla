------------------------------- MODULE Lexer -------------------------------
(***************************************************************************)
(* What lexer.l asks of the scanner: 23 patterns; at every place the        *)
(* longest match wins, and among equally long ones the first rule.         *)
(***************************************************************************)
EXTENDS Integers, Sequences

Blank  == {9, 32}
InWord == (45..57) \cup (65..90) \cup {95} \cup (97..122)
AllIn(S, s) == \A k \in DOMAIN s : s[k] \in S

(* The operators: their bytes, and whether blanks may follow.  Blanks may   *)
(* precede every one of them.                                              *)
Operators == 10..22
OperatorText ==
  [r \in Operators |->
     CASE r = 10 -> <<60>>          \* <
       [] r = 11 -> <<50, 62, 38, 49>>  \* 2>&1
       [] r = 12 -> <<50, 62>>      \* 2>
       [] r = 13 -> <<38, 62>>      \* &>
       [] r = 14 -> <<62>>          \* >
       [] r = 15 -> <<62, 38, 50>>  \* >&2
       [] r = 16 -> <<50, 62, 62>>  \* 2>>
       [] r = 17 -> <<38, 62, 62>>  \* &>>
       [] r = 18 -> <<62, 62>>      \* >>
       [] r = 19 -> <<38, 38>>      \* &&
       [] r = 20 -> <<124>>         \* |
       [] r = 21 -> <<124, 124>>    \* ||
       [] r = 22 -> <<59>>]         \* ;
NoBlankAfter == {11, 15}

Conversion ==
  [r \in 4..8 |->
     CASE r = 4 -> <<37, 115>>      \* %s
       [] r = 5 -> <<37, 112>>      \* %p
       [] r = 6 -> <<37, 33, 112>>  \* %!p
       [] r = 7 -> <<37, 42, 112>>  \* %*p
       [] r = 8 -> <<37, 100>>]     \* %d

(* The text s is the operator of rule r, between blanks where they may be.  *)
BetweenBlanks(r, s) ==
  \E before \in 0..(Len(s) - Len(OperatorText[r])) :
    LET op == OperatorText[r]
        after == before + Len(op) + 1
    IN  /\ AllIn(Blank, SubSeq(s, 1, before))
        /\ SubSeq(s, before + 1, after - 1) = op
        /\ AllIn(Blank, SubSeq(s, after, Len(s)))
        /\ r \in NoBlankAfter => after > Len(s)

(* Does the text s, which is not empty, match the pattern of rule r?        *)
Matches(r, s) ==
  \/ r = 1 /\ AllIn(InWord, s)
  \/ /\ r = 2 /\ Len(s) > 2 /\ s[1] = 91 /\ s[Len(s)] = 93
     /\ AllIn(InWord, SubSeq(s, 2, Len(s) - 1))
  \/ r = 3 /\ s \in {<<42>>, <<63>>}
  \/ r \in 4..8 /\ s = Conversion[r]
  \/ r = 9 /\ AllIn(Blank, s)
  \/ r \in Operators /\ BetweenBlanks(r, s)
  \/ r = 23 /\ Len(s) = 1

(* The token of format f that starts at byte i.                            *)
TokenAt(f, i) ==
  LET Fits(r, len) == Matches(r, SubSeq(f, i, i + len - 1))
      lengths == {len \in 1..(Len(f) + 1 - i) : \E r \in 1..23 : Fits(r, len)}
      longest == CHOOSE len \in lengths : \A m \in lengths : m <= len
  IN  [rule   |-> CHOOSE r \in 1..23 : /\ Fits(r, longest)
                                       /\ \A q \in 1..(r - 1) : ~Fits(q, longest),
       length |-> longest]

(* All tokens of f, one after another: rule, first byte, length.           *)
TokensOf(f) ==
  LET From[i \in 1..(Len(f) + 1)] ==
        IF i = Len(f) + 1 THEN <<>>
        ELSE LET t == TokenAt(f, i)
             IN  <<[rule |-> t.rule, start |-> i, length |-> t.length]>>
                   \o From[i + t.length]
  IN  From[1]
=============================================================================
