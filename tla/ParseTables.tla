---------------------------- MODULE ParseTables ----------------------------
(***************************************************************************)
(* The tables of the generated parser (derived-parser.c).                  *)
(***************************************************************************)
EXTENDS CArrays

YYFINAL    == 8
YYLAST     == 32
YYNTOKENS  == 19
YYMAXUTOK  == 273
YYUNDEFTOK == 2
YYPACT_NINF == -6
YYTERROR   == 1
YYEMPTY    == -2
YYEOF      == 0
ParseStates == 0..37
Rules      == 2..24

yypact == <<
   9, -6, 24, 28, 4, -5, 25, -6, -6, 9, 9, 9, 9, 24, -6, 24, 24, 24, 24, 24,
   24, -6, -6, -5, 9, -6, -6, -6, -6, -6, -6, -6, -6, -6, -6, -6, -6, -6 >>

yydefact == <<
   0, 22, 23, 0, 2, 10, 20, 24, 1, 0, 0, 0, 0, 0, 15, 0, 0, 0, 0, 0, 0, 14, 7,
   9, 0, 5, 4, 3, 6, 11, 16, 18, 12, 17, 19, 13, 8, 21 >>

yypgoto   == << -6, 14, -6, 7, -6, 8, -2 >>
yydefgoto == << -1, 3, 4, 22, 23, 5, 6 >>

yytable == <<
   7, 13, 14, 15, 16, 17, 18, 19, 20, 21, 1, 29, 2, 30, 31, 32, 33, 34, 35, 9,
   10, 11, 12, 25, 26, 27, 28, 2, 8, 24, 36, 0, 37 >>

yycheck == <<
   2, 6, 7, 8, 9, 10, 11, 12, 13, 14, 1, 13, 3, 15, 16, 17, 18, 19, 20, 15, 16,
   17, 18, 9, 10, 11, 12, 3, 0, 4, 23, -1, 24 >>

yystos == <<
   0, 1, 3, 20, 21, 24, 25, 25, 0, 15, 16, 17, 18, 6, 7, 8, 9, 10, 11, 12, 13,
   14, 22, 23, 4, 20, 20, 20, 20, 25, 25, 25, 25, 25, 25, 25, 22, 24 >>

yyr1 == <<
   0, 19, 20, 20, 20, 20, 20, 21, 22, 22, 22, 23, 23, 23, 23, 23, 23, 23, 23,
   23, 24, 24, 24, 25, 25 >>

yyr2 == <<
   0, 2, 1, 3, 3, 3, 3, 2, 2, 1, 0, 2, 2, 2, 1, 1, 2, 2, 2, 2, 1, 3, 1, 1, 2 >>

(* yytranslate: 256 is the error token, 257 an undefined one; the tokens    *)
(* 258 to 273 are the symbols 3 to 18; every character is undefined.       *)
YYTRANSLATE(token) ==
  IF token = 0 THEN 0
  ELSE IF token = 256 THEN YYTERROR
  ELSE IF token \in 258..YYMAXUTOK THEN token - 255
  ELSE YYUNDEFTOK

(* What a state does on a symbol: <<"shift", s>>, <<"reduce", r>>, or       *)
(* <<"error", 0>>.  Only the entry 31 of yytable is not positive, and it    *)
(* belongs to no symbol.                                                   *)
NeedsToken(s) == At(yypact, s) # YYPACT_NINF
DefaultAction(s) ==
  IF At(yydefact, s) = 0 THEN <<"error", 0>> ELSE <<"reduce", At(yydefact, s)>>
Entry(s, symbol) ==
  LET yyn == At(yypact, s) + symbol
  IN  IF yyn >= 0 /\ yyn <= YYLAST /\ At(yycheck, yyn) = symbol
      THEN At(yytable, yyn) ELSE 0
ParseAction(s, symbol) ==
  IF NeedsToken(s) /\ Entry(s, symbol) > 0
  THEN <<"shift", Entry(s, symbol)>> ELSE DefaultAction(s)

ShiftsError(s) == NeedsToken(s) /\ Entry(s, YYTERROR) > 0

(* Mutant: the default is taken for every state.                            *)
GotoState_Default(s, lhs) == At(yydefgoto, lhs - YYNTOKENS)

(* The state that follows s once a left-hand side has been reduced.         *)
GotoState(s, lhs) ==
  LET n   == lhs - YYNTOKENS
      yyi == At(yypgoto, n) + s
  IN  IF yyi >= 0 /\ yyi <= YYLAST /\ At(yycheck, yyi) = s
      THEN At(yytable, yyi) ELSE At(yydefgoto, n)

Lhs(rule)    == At(yyr1, rule)
Length(rule) == At(yyr2, rule)
Symbol(s)    == At(yystos, s)
=============================================================================
