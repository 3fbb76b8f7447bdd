----------------------------- MODULE ScanTables -----------------------------
(***************************************************************************)
(* The tables of the generated scanner (derived-lexer.c) and the automaton *)
(* that they compress.                                                     *)
(***************************************************************************)
EXTENDS CArrays

Bytes == 0..255

(* The equivalence class of a byte: 0 the NUL, 2 blanks, 3 the newline, 4 to  *)
(* 20 the bytes that some rule names, in the order of their codes; the bytes *)
(* of words are 8 and, where other rules name them too, 9, 10 and 17 to 19; *)
(* 1 any other byte.                                                       *)
yy_ec == <<
   0,  1,  1,  1,  1,  1,  1,  1,  1,  2,  3,  1,  1,  1,  1,  1,  1,  1,  1,  1,
   1,  1,  1,  1,  1,  1,  1,  1,  1,  1,  1,  1,  2,  4,  1,  1,  1,  5,  6,  1,
   1,  1,  7,  1,  1,  8,  8,  8,  8,  9, 10,  8,  8,  8,  8,  8,  8,  8,  1, 11,
  12,  1, 13, 14,  1,  8,  8,  8,  8,  8,  8,  8,  8,  8,  8,  8,  8,  8,  8,  8,
   8,  8,  8,  8,  8,  8,  8,  8,  8,  8,  8, 15,  1, 16,  1,  8,  1,  8,  8,  8,
  17,  8,  8,  8,  8,  8,  8,  8,  8,  8,  8,  8, 18,  8,  8, 19,  8,  8,  8,  8,
   8,  8,  8,  1, 20,  1,  1,  1,  1,  1,  1,  1,  1,  1,  1,  1,  1,  1,  1,  1,
   1,  1,  1,  1,  1,  1,  1,  1,  1,  1,  1,  1,  1,  1,  1,  1,  1,  1,  1,  1,
   1,  1,  1,  1,  1,  1,  1,  1,  1,  1,  1,  1,  1,  1,  1,  1,  1,  1,  1,  1,
   1,  1,  1,  1,  1,  1,  1,  1,  1,  1,  1,  1,  1,  1,  1,  1,  1,  1,  1,  1,
   1,  1,  1,  1,  1,  1,  1,  1,  1,  1,  1,  1,  1,  1,  1,  1,  1,  1,  1,  1,
   1,  1,  1,  1,  1,  1,  1,  1,  1,  1,  1,  1,  1,  1,  1,  1,  1,  1,  1,  1,
   1,  1,  1,  1,  1,  1,  1,  1,  1,  1,  1,  1,  1,  1,  1,  1 >>

(* The action of each state: 0 none, 1..23 a rule of lexer.l, 25 the end of *)
(* the buffer.                                                             *)
yy_accept == <<
   0, 0, 0, 25, 23, 9, 23, 23, 3, 1, 1, 22, 10, 14, 23, 20, 9, 0, 0, 22, 10,
   14, 20, 0, 0, 8, 5, 4, 19, 13, 1, 12, 22, 10, 14, 0, 18, 0, 20, 21, 6, 7,
   19, 13, 17, 12, 0, 16, 15, 18, 2, 21, 17, 11, 16, 0 >>

yy_meta == <<
   0, 1, 1, 1, 1, 1, 1, 1, 2, 2, 2, 1, 1, 1, 1, 1, 1, 2, 2, 2, 1 >>

yy_base == <<
   0, 0, 0, 78, 79, 19, 36, 20, 79, 0, 64, 74, 73, 21, 0, 22, 0, 22, 61, 71,
   70, 0, 36, 53, 52, 79, 79, 79, 67, 34, 0, 35, 66, 65, 64, 55, 62, 47, 60,
   59, 79, 79, 58, 57, 56, 55, 43, 49, 79, 48, 79, 47, 44, 79, 43, 79, 42, 20 >>

yy_def == <<
   0, 55, 1, 55, 55, 55, 55, 55, 55, 56, 56, 55, 55, 55, 57, 55, 5, 55, 55, 55,
   55, 13, 55, 55, 55, 55, 55, 55, 55, 55, 56, 55, 55, 55, 55, 55, 55, 57, 55,
   55, 55, 55, 55, 55, 55, 55, 55, 55, 55, 55, 55, 55, 55, 55, 55, 0, 55, 55 >>

yy_nxt == <<
   0, 4, 5, 4, 4, 6, 7, 8, 9, 9, 10, 11, 12, 13, 8, 14, 4, 9, 9, 9, 15, 16, 37,
   34, 38, 17, 28, 35, 28, 18, 19, 20, 21, 29, 36, 29, 43, 45, 38, 22, 23, 46,
   39, 24, 30, 54, 52, 44, 47, 51, 49, 54, 53, 25, 26, 27, 39, 45, 52, 43, 42,
   51, 38, 50, 49, 48, 34, 33, 32, 42, 41, 40, 33, 32, 31, 33, 32, 31, 55, 3,
   55, 55, 55, 55, 55, 55, 55, 55, 55, 55, 55, 55, 55, 55, 55, 55, 55, 55, 55,
   55 >>

yy_chk == <<
   0, 1, 1, 1, 1, 1, 1, 1, 1, 1, 1, 1, 1, 1, 1, 1, 1, 1, 1, 1, 1, 5, 57, 13,
   15, 5, 7, 13, 17, 5, 5, 5, 5, 7, 13, 17, 29, 31, 22, 5, 6, 31, 15, 6, 56, 54,
   52, 29, 31, 51, 49, 47, 46, 6, 6, 6, 22, 45, 44, 43, 42, 39, 38, 37, 36, 35,
   34, 33, 32, 28, 24, 23, 20, 19, 18, 12, 11, 10, 3, 55, 55, 55, 55, 55, 55,
   55, 55, 55, 55, 55, 55, 55, 55, 55, 55, 55, 55, 55, 55, 55 >>

StartState     == 1
EndOfBufState  == 3
JamState       == 55
JamBase        == 79
END_OF_BUFFER  == 25
ScanStates     == 1..55

(* One transition.  The slot of a state and class belongs to the state that *)
(* yy_chk names; while that is another one, go on with the default state,   *)
(* whose templates (56, 57) know only the two meta classes.  No state needs *)
(* more than two defaults.                                                 *)
Slot(p)    == At(yy_base, p[1]) + p[2]
Owned(p)   == At(yy_chk, Slot(p)) = p[1]
(* Mutant: the templates are asked for the class itself.                    *)
Default_NoMeta(p) == <<At(yy_def, p[1]), p[2]>>

Default(p) == LET d == At(yy_def, p[1])
              IN  <<d, IF d >= 56 THEN At(yy_meta, p[2]) ELSE p[2]>>

Transition(p) ==
  LET q == IF Owned(p) THEN p
           ELSE IF Owned(Default(p)) THEN Default(p) ELSE Default(Default(p))
  IN  At(yy_nxt, Slot(q))

Goto(s, byte) == Transition(<<s, At(yy_ec, byte)>>)
Jammed(s)     == At(yy_base, s) = JamBase
Accepts(s)    == At(yy_accept, s) # 0
=============================================================================
