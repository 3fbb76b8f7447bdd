--------------------------- MODULE Parser_proofs ---------------------------
(***************************************************************************)
(* The stacks of the generated parser, for every input and every depth.     *)
(***************************************************************************)
EXTENDS Parser, Induction, SequenceTheorems, TLAPS

(***************************************************************************)
(* The automaton.  Below(s) are the states that s can lie on: those with a   *)
(* shift or a goto to s that some input takes.                             *)
(***************************************************************************)
predecessors == <<
  {}, {0, 9, 10, 11, 12, 24},
  {0, 2, 9, 10, 11, 12, 13, 15, 16, 17, 18, 19, 20, 24},
  {0}, {0, 9, 10, 11, 12}, {0, 9, 10, 11, 12}, {0, 9, 10, 11, 12, 24},
  {2}, {3}, {4}, {4}, {4}, {4},
  {5, 23}, {5, 23}, {5, 23}, {5, 23}, {5, 23}, {5, 23}, {5, 23}, {5, 23}, {5, 23},
  {5}, {5, 23}, {6}, {9}, {10}, {11}, {12},
  {13}, {15}, {16}, {17}, {18}, {19}, {20}, {23}, {24} >>
Below(s) == At(predecessors, s)

(* Every token, whatever yylex returned, is a symbol of the tables.         *)
LEMMA SymbolOfToken == \A token : YYTRANSLATE(token) \in 0..18
  BY DEF YYTRANSLATE, YYTERROR, YYMAXUTOK, YYUNDEFTOK

(* An entry that is used lies inside the tables and belongs to its symbol.  *)
LEMMA EntryFound ==
  \A s \in ParseStates, x \in 0..18 :
    Entry(s, x) > 0 =>
      /\ At(yypact, s) \in Int
      /\ At(yypact, s) + x \in 0..32
      /\ At(yycheck, At(yypact, s) + x) = x
      /\ Entry(s, x) = At(yytable, At(yypact, s) + x)
<1> SUFFICES ASSUME NEW s \in ParseStates, NEW x \in 0..18, Entry(s, x) > 0
             PROVE  /\ At(yypact, s) \in Int
                    /\ At(yypact, s) + x \in 0..32
                    /\ At(yycheck, At(yypact, s) + x) = x
                    /\ Entry(s, x) = At(yytable, At(yypact, s) + x)
  OBVIOUS
<1> DEFINE c == At(yypact, s)
<1>1. c \in Int
  BY DEF At, yypact, ParseStates
<1> HIDE DEF c
<1>2. Entry(s, x) = IF c + x >= 0 /\ c + x <= 32 /\ At(yycheck, c + x) = x
                    THEN At(yytable, c + x) ELSE 0
  BY DEF Entry, YYLAST, c
<1>3. c + x >= 0 /\ c + x <= 32 /\ At(yycheck, c + x) = x
  BY <1>2, SMT
<1> QED BY <1>1, <1>2, <1>3 DEF c

(* A shift, also that of the error token, goes to a state that the old one  *)
(* can lie under.                                                          *)
LEMMA ShiftEdge ==
  \A s \in ParseStates, x \in 0..18 :
    NeedsToken(s) /\ Entry(s, x) > 0 =>
      /\ Entry(s, x) \in ParseStates \ {0}
      /\ s \in Below(Entry(s, x))
      /\ Symbol(Entry(s, x)) = x
<1> SUFFICES ASSUME NEW s \in ParseStates, NEW x \in 0..18, NeedsToken(s), Entry(s, x) > 0
             PROVE /\ Entry(s, x) \in ParseStates \ {0}
                   /\ s \in Below(Entry(s, x))
                   /\ Symbol(Entry(s, x)) = x
  OBVIOUS
<1> DEFINE c == At(yypact, s)
<1>1. s \notin {1, 7, 8, 14, 21, 22} \cup 25..37
  BY DEF NeedsToken, At, yypact, YYPACT_NINF
<1>2. s \in {0, 2, 3, 4, 5, 6, 9, 10, 11, 12, 13, 15, 16, 17, 18, 19, 20, 23, 24}
  BY <1>1 DEF ParseStates
<1>3. /\ c + x \in 0..32 /\ At(yycheck, c + x) = x
      /\ Entry(s, x) = At(yytable, c + x)
  BY EntryFound
<1>4. CASE s \in {0, 9, 10, 11, 12}
  BY <1>3, <1>4 DEF At, yypact, yycheck, yytable, Below, predecessors, ParseStates, Symbol, yystos
<1>5. CASE s \in {2, 13, 15, 16, 17, 18, 19, 20}
  BY <1>3, <1>5 DEF At, yypact, yycheck, yytable, Below, predecessors, ParseStates, Symbol, yystos
<1>6. CASE s \in {3, 24}
  BY <1>3, <1>6 DEF At, yypact, yycheck, yytable, Below, predecessors, ParseStates, Symbol, yystos
<1>7. CASE s \in {5, 23}
  BY <1>3, <1>7 DEF At, yypact, yycheck, yytable, Below, predecessors, ParseStates, Symbol, yystos
<1>8. CASE s \in {4, 6}
  BY <1>3, <1>8 DEF At, yypact, yycheck, yytable, Below, predecessors, ParseStates, Symbol, yystos
<1> QED BY <1>2, <1>4, <1>5, <1>6, <1>7, <1>8

(* So does the goto from q on a left-hand side.                            *)
Follows(q, lhs) ==
  LET s == GotoState(q, lhs)
  IN  s \in ParseStates \ {0} /\ q \in Below(s) /\ Symbol(s) = lhs

(* Each left-hand side, and the states it is reduced in.                   *)
LEMMA Goto20 == \A q \in {0, 9, 10, 11, 12} : Follows(q, 20)
  BY DEF Follows, GotoState, YYNTOKENS, YYLAST, At, yypgoto, yydefgoto, yycheck, yytable,
         Below, predecessors, ParseStates, Symbol, yystos
LEMMA Goto21 == \A q \in {0, 9, 10, 11, 12} : Follows(q, 21)
  BY DEF Follows, GotoState, YYNTOKENS, YYLAST, At, yypgoto, yydefgoto, yycheck, yytable,
         Below, predecessors, ParseStates, Symbol, yystos
LEMMA Goto22 == \A q \in {5, 23} : Follows(q, 22)
  BY DEF Follows, GotoState, YYNTOKENS, YYLAST, At, yypgoto, yydefgoto, yycheck, yytable,
         Below, predecessors, ParseStates, Symbol, yystos
LEMMA Goto23 == \A q \in {5, 23} : Follows(q, 23)
  BY DEF Follows, GotoState, YYNTOKENS, YYLAST, At, yypgoto, yydefgoto, yycheck, yytable,
         Below, predecessors, ParseStates, Symbol, yystos
LEMMA Goto24 == \A q \in {0, 9, 10, 11, 12, 24} : Follows(q, 24)
  BY DEF Follows, GotoState, YYNTOKENS, YYLAST, At, yypgoto, yydefgoto, yycheck, yytable,
         Below, predecessors, ParseStates, Symbol, yystos
LEMMA Goto25 == \A q \in {0, 2, 9, 10, 11, 12, 13, 15, 16, 17, 18, 19, 20, 24} : Follows(q, 25)
  BY DEF Follows, GotoState, YYNTOKENS, YYLAST, At, yypgoto, yydefgoto, yycheck, yytable,
         Below, predecessors, ParseStates, Symbol, yystos

(* The states that reduce, by the length of their rule.                    *)
LEMMA Reductions ==
  ASSUME NEW t \in ParseStates, t # YYFINAL, NEW r, r = At(yydefact, t), r > 0
  PROVE  \/ t = 1 /\ r = 22
         \/ Length(r) = 0 /\ Lhs(r) = 22 /\ t = 5 /\ r # 22
         \/ Length(r) = 1 /\ r # 22 /\ t \in {2, 4, 6, 14, 21, 23}
         \/ Length(r) = 2 /\ r # 22 /\ t \in {7, 22, 29, 30, 31, 32, 33, 34, 35, 36}
         \/ Length(r) = 3 /\ r # 22 /\ t \in {25, 26, 27, 28, 37}
  BY DEF At, yydefact, ParseStates, Length, Lhs, yyr1, yyr2, YYFINAL

(* The entries of RightHandSide.                                           *)
LEMMA Sides ==
  /\ RightHandSide[2][1] = 21
  /\ RightHandSide[3][1] = 21 /\ RightHandSide[3][2] = 17 /\ RightHandSide[3][3] = 20
  /\ RightHandSide[4][1] = 21 /\ RightHandSide[4][2] = 16 /\ RightHandSide[4][3] = 20
  /\ RightHandSide[5][1] = 21 /\ RightHandSide[5][2] = 15 /\ RightHandSide[5][3] = 20
  /\ RightHandSide[6][1] = 21 /\ RightHandSide[6][2] = 18 /\ RightHandSide[6][3] = 20
  /\ RightHandSide[7][1] = 24 /\ RightHandSide[7][2] = 22
  /\ RightHandSide[8][1] = 23 /\ RightHandSide[8][2] = 22
  /\ RightHandSide[9][1] = 23
  /\ RightHandSide[11][1] = 6 /\ RightHandSide[11][2] = 25
  /\ RightHandSide[12][1] = 10 /\ RightHandSide[12][2] = 25
  /\ RightHandSide[13][1] = 13 /\ RightHandSide[13][2] = 25
  /\ RightHandSide[14][1] = 14
  /\ RightHandSide[15][1] = 7
  /\ RightHandSide[16][1] = 8 /\ RightHandSide[16][2] = 25
  /\ RightHandSide[17][1] = 11 /\ RightHandSide[17][2] = 25
  /\ RightHandSide[18][1] = 9 /\ RightHandSide[18][2] = 25
  /\ RightHandSide[19][1] = 12 /\ RightHandSide[19][2] = 25
  /\ RightHandSide[20][1] = 25
  /\ RightHandSide[21][1] = 25 /\ RightHandSide[21][2] = 4 /\ RightHandSide[21][3] = 24
  /\ RightHandSide[22][1] = 1
  /\ RightHandSide[23][1] = 3
  /\ RightHandSide[24][1] = 3 /\ RightHandSide[24][2] = 25
  BY DEF RightHandSide

(* A state and those that can lie below it spell the right-hand side of the *)
(* rule it reduces, and what lies under them follows.                      *)
LEMMA One == 
  \A t \in {1, 2, 4, 6, 14, 21, 23} :
    LET r == At(yydefact, t) IN
     /\ Symbol(t) = RightHandSide[r][1]
     /\ t # 1 => \A p \in Below(t) : Follows(p, Lhs(r))
<1>0. ASSUME NEW t \in {1, 2, 4, 6, 14, 21, 23} 
      PROVE Symbol(t) = RightHandSide[At(yydefact, t)][1]
  BY Sides DEF Symbol, At, yystos, yydefact
<1>1. ASSUME NEW p \in Below(2) PROVE Follows(p, Lhs(At(yydefact, 2)))
  BY Goto25 DEF Below, At, predecessors, yydefact, Lhs, yyr1
<1>2. ASSUME NEW p \in Below(4) PROVE Follows(p, Lhs(At(yydefact, 4)))
  BY Goto20 DEF Below, At, predecessors, yydefact, Lhs, yyr1
<1>3. ASSUME NEW p \in Below(6) PROVE Follows(p, Lhs(At(yydefact, 6)))
  BY Goto24 DEF Below, At, predecessors, yydefact, Lhs, yyr1
<1>4. ASSUME NEW t \in {14, 21, 23}, NEW p \in Below(t) PROVE Follows(p, Lhs(At(yydefact, t)))
  BY Goto22, Goto23 DEF Below, At, predecessors, yydefact, Lhs, yyr1
<1> QED BY <1>0, <1>1, <1>2, <1>3, <1>4

LEMMA Two ==
  ASSUME NEW t \in {7, 22, 29, 30, 31, 32, 33, 34, 35, 36},
         NEW r, r = At(yydefact, t)
  PROVE  /\ Symbol(t) = RightHandSide[r][2]
         /\ \A p \in Below(t) :
             /\ p # 0
             /\ Symbol(p) = RightHandSide[r][1]
             /\ \A q \in Below(p) : Follows(q, Lhs(r))
<1>1. /\ Symbol(t) = RightHandSide[r][2]
      /\ \A p \in Below(t) : p # 0 /\ Symbol(p) = RightHandSide[r][1]
  BY Sides DEF Symbol, At, yystos, yydefact, Below, predecessors
<1>2. ASSUME NEW p \in Below(t), NEW q \in Below(p) PROVE Follows(q, Lhs(r))
  <2>1. CASE t = 7
    BY <2>1, Goto25 DEF Below, At, predecessors, yydefact, Lhs, yyr1
  <2>2. CASE t = 22
    BY <2>2, Goto21 DEF Below, At, predecessors, yydefact, Lhs, yyr1
  <2>3. CASE t = 36
    BY <2>3, Goto22 DEF Below, At, predecessors, yydefact, Lhs, yyr1
  <2>4. CASE t \in {29, 30, 31, 32, 33, 34, 35}
    <3>1. Lhs(r) = 23
      BY <2>4 DEF At, yydefact, Lhs, yyr1
    <3>2. p \in {13, 15, 16, 17, 18, 19, 20}
      BY <2>4 DEF Below, At, predecessors
    <3>3. q \in {5, 23}
      BY <3>2 DEF Below, At, predecessors
    <3> QED BY <3>1, <3>3, Goto23
  <2> QED BY <2>1, <2>2, <2>3, <2>4
<1> QED BY <1>1, <1>2

LEMMA Three ==
  \A t \in {25, 26, 27, 28, 37} :
    LET r == At(yydefact, t) IN
     /\ Symbol(t) = RightHandSide[r][3]
     /\ \A p \in Below(t) :
         /\ p # 0
         /\ Symbol(p) = RightHandSide[r][2]
         /\ \A q \in Below(p) :
              /\ q # 0
              /\ Symbol(q) = RightHandSide[r][1]
              /\ \A u \in Below(q) : Follows(u, Lhs(r))
<1> SUFFICES ASSUME NEW t \in {25, 26, 27, 28, 37}, NEW r, r = At(yydefact, t)
    PROVE 
     /\ Symbol(t) = RightHandSide[r][3]
     /\ \A p \in Below(t) :
         /\ p # 0
         /\ Symbol(p) = RightHandSide[r][2]
         /\ \A q \in Below(p) :
              /\ q # 0
              /\ Symbol(q) = RightHandSide[r][1]
              /\ \A u \in Below(q) : Follows(u, Lhs(r))
  OBVIOUS
<1>1. CASE t \in {25, 26, 27, 28}
  <2>1. /\ Symbol(t) = RightHandSide[r][3]
        /\ Lhs(r) = 20
        /\ Below(t) = {t - 16} /\ Symbol(t - 16) = RightHandSide[r][2]
        /\ RightHandSide[r][1] = 21
    BY Sides, <1>1 DEF Symbol, At, yystos, yydefact, Below, predecessors, Lhs, yyr1
  <2>2. \A p \in {9, 10, 11, 12} : Below(p) = {4}
    BY DEF Below, At, predecessors
  <2>3. Below(4) = {0, 9, 10, 11, 12} /\ Symbol(4) = 21
    BY DEF Below, At, predecessors, Symbol, yystos
  <2> QED BY <1>1, <2>1, <2>2, <2>3, Goto20
<1>2. CASE t = 37
  <2>1. /\ Symbol(t) = RightHandSide[r][3]
        /\ Lhs(r) = 24
        /\ Below(t) = {24} /\ Symbol(24) = RightHandSide[r][2]
        /\ RightHandSide[r][1] = 25
    BY Sides, <1>2 DEF Symbol, At, yystos, yydefact, Below, predecessors, Lhs, yyr1
  <2>2. Below(24) = {6} /\ Symbol(6) = 25
    BY DEF Below, At, predecessors, Symbol, yystos
  <2>3. Below(6) = {0, 9, 10, 11, 12, 24}
    BY DEF Below, At, predecessors
  <2> QED BY <1>2, <2>1, <2>2, <2>3, Goto24
<1> QED BY <1>1, <1>2
(***************************************************************************)
(* The inductive invariant: neighbours on the state stack are neighbours in  *)
(* the automaton.                                                          *)
(***************************************************************************)
Legal(stack) ==
  /\ stack \in Seq(ParseStates)
  /\ Len(stack) >= 1
  /\ stack[1] = 0
  /\ \A k \in 1..Len(stack) - 1 : stack[k] \in Below(stack[k + 1])

StackInv ==
  /\ Legal(yyss)
  /\ \E S : yyvs \in Seq(S)
  /\ Len(yyvs) = Len(yyss)
  /\ yystacksize \in Nat
  /\ yystacksize <= MaxDepth
  /\ Len(yyss) <= yystacksize
  /\ pat = "backup" => Len(yyss) < yystacksize /\ yystate # YYFINAL

(* What is left when states are popped.                                    *)
LEMMA LegalPrefix ==
  ASSUME NEW stack, Legal(stack), NEW n \in 1..Len(stack)
  PROVE  /\ Legal(SubSeq(stack, 1, n))
         /\ Len(SubSeq(stack, 1, n)) = n
         /\ SubSeq(stack, 1, n)[n] = stack[n]
<1>1. Len(stack) \in Nat /\ \A i \in 1..n : stack[i] \in ParseStates
  BY ElementOfSeq DEF Legal
<1> DEFINE s == SubSeq(stack, 1, n)
<1>2. /\ s \in Seq(ParseStates)
      /\ Len(s) = n
      /\ \A i \in 1..n : s[i] = stack[i]
  <2>1. /\ s \in Seq(ParseStates)
        /\ Len(s) = IF 1 <= n THEN n - 1 + 1 ELSE 0
        /\ \A i \in 1 .. n - 1 + 1 : s[i] = stack[1 + i - 1]
    <3> HIDE DEF s
    <3> QED BY <1>1, SubSeqProperties, SMT DEF s
  <2> QED BY <2>1, <1>1
<1> HIDE DEF s
<1> QED BY <1>1, <1>2 DEF Legal, s

(* A state pushed on one of its predecessors.                              *)
LEMMA LegalPush ==
  ASSUME NEW stack, Legal(stack), NEW s \in ParseStates, stack[Len(stack)] \in Below(s)
  PROVE  /\ Legal(Append(stack, s))
         /\ Len(Append(stack, s)) = Len(stack) + 1
<1>1. stack \in Seq(ParseStates) /\ Len(stack) \in Nat
  BY LenProperties DEF Legal
<1> DEFINE t == Append(stack, s)
<1>2. /\ t \in Seq(ParseStates)
      /\ Len(t) = Len(stack) + 1
      /\ \A i \in 1..Len(stack) : t[i] = stack[i]
      /\ t[Len(stack) + 1] = s
  BY <1>1, AppendProperties
<1> HIDE DEF t
<1> QED BY <1>1, <1>2 DEF Legal, t

(* The last state and the one below it.                                    *)
LEMMA LegalTop ==
  ASSUME NEW stack, Legal(stack)
  PROVE  /\ Len(stack) \in Nat
         /\ \A k \in 1..Len(stack) : stack[k] \in ParseStates
         /\ stack[Len(stack)] # 0 =>
              Len(stack) > 1 /\ stack[Len(stack) - 1] \in Below(stack[Len(stack)])
  BY LenProperties, ElementOfSeq DEF Legal

(* Rule 22 is error.                                                       *)
LEMMA LengthOfError == Length(22) = 1
  BY DEF Length, At, yyr2

(* A state that reduces has the right-hand side of its rule below it, and   *)
(* the state that is uncovered has a goto.                                 *)
LEMMA Uncovers ==
  ASSUME NEW stack, Legal(stack), NEW n, n = Len(stack),
         NEW t, t = stack[n], t # YYFINAL,
         NEW r, r = At(yydefact, t), r > 0
  PROVE  /\ Length(r) \in 0..3 /\ n > Length(r)
         /\ \A k \in 1..Length(r) :
              Symbol(stack[n - Length(r) + k]) = RightHandSide[r][k]
         /\ r # 22 => Follows(stack[n - Length(r)], Lhs(r))
<1>1. /\ n \in Nat /\ n >= 1 /\ t \in ParseStates
      /\ \A k \in 1..n - 1 : stack[k] \in Below(stack[k + 1])
      /\ stack[1] = 0
  BY LegalTop DEF Legal
<1>2. CASE \/ t = 1 /\ r = 22
           \/ Length(r) = 1 /\ r # 22 /\ t \in {2, 4, 6, 14, 21, 23}
  <2>1. t # 0 /\ n - 1 \in 1..n - 1 /\ stack[n] = t
    BY <1>1, <1>2
  <2>2. n > 1 /\ stack[n - 1] \in Below(t)
    BY <1>1, <2>1
  <2>3. Length(r) = 1
    BY <1>2, LengthOfError
  <2>4. /\ Symbol(t) = RightHandSide[r][1]
        /\ r # 22 => \A p \in Below(t) : Follows(p, Lhs(r))
    BY One, <1>2
  <2> QED BY <1>1, <2>1, <2>2, <2>3, <2>4
<1>3. CASE Length(r) = 0 /\ Lhs(r) = 22 /\ t = 5
  <2>1. n - Length(r) = n /\ 1..Length(r) = {}
    BY <1>1, <1>3
  <2>2. Follows(stack[n], Lhs(r))
    BY <1>3, Goto22
  <2>3. Length(r) \in 0..3 /\ n > Length(r)
    BY <1>1, <1>3
  <2>4. Follows(stack[n - Length(r)], Lhs(r))
    BY <2>1, <2>2
  <2> QED BY <2>1, <2>3, <2>4
<1>4. CASE Length(r) = 2 /\ r # 22 /\ t \in {7, 22, 29, 30, 31, 32, 33, 34, 35, 36}
  <2>1. n - 1 \in 1..n - 1 /\ stack[n - 1] \in Below(t)
    BY <1>1, <1>4
  <2>2. /\ Symbol(t) = RightHandSide[r][2]
        /\ \A p \in Below(t) :
            /\ p # 0
            /\ Symbol(p) = RightHandSide[r][1]
            /\ \A q \in Below(p) : Follows(q, Lhs(r))
    <3>1. t \in {7, 22, 29, 30, 31, 32, 33, 34, 35, 36}
      BY <1>4
    <3> QED BY ONLY <3>1, r = At(yydefact, t), Two
  <2>3. n - 2 \in 1..n - 1 /\ stack[n - 2] \in Below(stack[n - 1])
    BY <1>1, <2>1, <2>2
  <2>4. /\ n > 2 /\ Symbol(stack[n - 1]) = RightHandSide[r][1]
        /\ Follows(stack[n - 2], Lhs(r))
    BY <1>1, <2>1, <2>2, <2>3
  <2> QED BY <1>1, <1>4, <2>2, <2>4
<1>5. CASE Length(r) = 3 /\ r # 22 /\ t \in {25, 26, 27, 28, 37}
  <2>1. n - 1 \in 1..n - 1 /\ stack[n - 1] \in Below(t)
    BY <1>1, <1>5
  <2>2. /\ Symbol(t) = RightHandSide[r][3]
        /\ \A p \in Below(t) :
         /\ p # 0
         /\ Symbol(p) = RightHandSide[r][2]
         /\ \A q \in Below(p) :
              /\ q # 0
              /\ Symbol(q) = RightHandSide[r][1]
              /\ \A u \in Below(q) : Follows(u, Lhs(r))
    BY Three, <1>5
  <2>3. n - 2 \in 1..n - 1 /\ stack[n - 2] \in Below(stack[n - 1])
    BY <1>1, <2>1, <2>2
  <2>4. n - 3 \in 1..n - 1 /\ stack[n - 3] \in Below(stack[n - 2])
    BY <1>1, <2>1, <2>2, <2>3
  <2>5. /\ n > 3
        /\ Symbol(stack[n - 1]) = RightHandSide[r][2]
        /\ Symbol(stack[n - 2]) = RightHandSide[r][1]
        /\ Follows(stack[n - 3], Lhs(r))
    BY <1>1, <2>1, <2>2, <2>3, <2>4
  <2> QED BY <1>1, <1>5, <2>2, <2>5
<1>6. \/ t = 1 /\ r = 22
      \/ Length(r) = 1 /\ r # 22 /\ t \in {2, 4, 6, 14, 21, 23}
      \/ Length(r) = 0 /\ Lhs(r) = 22 /\ t = 5
      \/ Length(r) = 2 /\ r # 22 /\ t \in {7, 22, 29, 30, 31, 32, 33, 34, 35, 36}
      \/ Length(r) = 3 /\ r # 22 /\ t \in {25, 26, 27, 28, 37}
  <2>1. t \in ParseStates
    BY <1>1
  <2> QED BY ONLY <2>1, t # YYFINAL, r = At(yydefact, t), r > 0, Reductions
<1> QED BY <1>2, <1>3, <1>4, <1>5, <1>6

(***************************************************************************)
(* The steps                                                               *)
(***************************************************************************)
(* Steps that leave the stacks alone.                                      *)
LEMMA Kept ==
  ASSUME StackInv, UNCHANGED stacks, pat' = "backup" => pat = "backup"
  PROVE  StackInv'
  BY DEF StackInv, Legal, stacks, yystate, Last

(* yyparse starts with one entry and YYINITDEPTH places.                    *)
LEMMA InitKeeps ==
  ASSUME PInit
  PROVE  StackInv
<1>1. yyss \in Seq(ParseStates) /\ Len(yyss) = 1 /\ yyss[1] = 0
  BY DEF PInit, ParserIdle, ParseStates
<1>2. yyvs \in Seq({NoValue}) /\ Len(yyvs) = 1
  BY DEF PInit, ParserIdle
<1>3. /\ yystacksize \in Nat /\ yystacksize <= MaxDepth /\ 1 <= yystacksize
      /\ pat # "backup"
  BY DepthsAssumption DEF PInit, ParserIdle
<1> QED
  BY <1>1, <1>2, <1>3 DEF StackInv, Legal

(* yyreturn.                                                               *)
LEMMA ReturnKeeps ==
  ASSUME StackInv, NEW result, ReturnWith(result),
         yystacksize' \in Nat \ {0}, yystacksize' <= MaxDepth
  PROVE  StackInv'
<1>1. yyss' \in Seq(ParseStates) /\ Len(yyss') = 1 /\ yyss'[1] = 0
  BY DEF ReturnWith, ParseStates
<1>2. yyvs' \in Seq({NoValue}) /\ Len(yyvs') = 1
  BY DEF ReturnWith
<1>3. pat' # "backup"
  BY DEF ReturnWith
<1> QED
  BY <1>1, <1>2, <1>3 DEF StackInv, Legal

(* Doubling the size stays below YYMAXDEPTH and makes room.                 *)
LEMMA SizeIsPositive ==
  ASSUME StackInv
  PROVE  /\ yystacksize \in Nat \ {0}
         /\ yystacksize <= MaxDepth
         /\ yystacksize < MaxDepth =>
              /\ GrownSize \in Nat \ {0}
              /\ GrownSize <= MaxDepth
              /\ GrownSize > yystacksize
<1>1. Len(yyss) \in Nat /\ Len(yyss) >= 1
  BY LegalTop DEF StackInv, Legal
<1>2. yystacksize \in Nat /\ Len(yyss) <= yystacksize /\ yystacksize <= MaxDepth
  BY DEF StackInv
<1>3. MaxDepth \in Nat
  BY DepthsAssumption
<1> QED BY <1>1, <1>2, <1>3 DEF GrownSize

(* Pop all but n entries, then push a state and its value.                  *)
LEMMA PushKeeps ==
  ASSUME StackInv, pat = "backup", pat' # "backup",
         NEW n \in 1..Len(yyss), NEW s \in ParseStates, NEW value,
         yyss[n] \in Below(s),
         yyss' = Append(SubSeq(yyss, 1, n), s),
         yyvs' = Append(SubSeq(yyvs, 1, n), value),
         yystacksize' = yystacksize
  PROVE  StackInv'
<1>1. Len(yyss) \in Nat /\ Len(yyss) < yystacksize /\ Legal(yyss)
  BY LegalTop DEF StackInv
<1>2. Legal(yyss') /\ Len(yyss') = n + 1
  <2> DEFINE low == SubSeq(yyss, 1, n)
  <2>1. Legal(low) /\ Len(low) = n /\ low[n] = yyss[n]
    BY <1>1, LegalPrefix
  <2> HIDE DEF low
  <2>2. Legal(Append(low, s)) /\ Len(Append(low, s)) = n + 1
    BY <2>1, LegalPush
  <2> QED BY <2>2 DEF low
<1>3. PICK S : yyvs \in Seq(S) /\ Len(yyvs) = Len(yyss)
  BY DEF StackInv
<1>4. SubSeq(yyvs, 1, n) \in Seq(S) /\ Len(SubSeq(yyvs, 1, n)) = n
  <2>1. \A i \in 1..n : yyvs[i] \in S
    BY <1>1, <1>3, ElementOfSeq
  <2> QED BY <2>1, SubSeqProperties
<1>5. SubSeq(yyvs, 1, n) \in Seq(S \cup {value})
  BY <1>4
<1>6. yyvs' \in Seq(S \cup {value}) /\ Len(yyvs') = n + 1
  BY <1>4, <1>5, AppendProperties
<1>7. n + 1 <= yystacksize
  BY <1>1, SizeIsPositive
<1> QED
  BY <1>2, <1>6, <1>7 DEF StackInv

(* Popping nothing.                                                        *)
LEMMA WholePrefix ==
  ASSUME NEW S, NEW stack \in Seq(S)
  PROVE  SubSeq(stack, 1, Len(stack)) = stack
<1> DEFINE n == Len(stack)
           s == SubSeq(stack, 1, n)
<1>1. n \in Nat /\ \A i \in 1..n : stack[i] \in S
  BY ElementOfSeq
<1>2. s \in Seq(S) /\ Len(s) = n /\ \A i \in 1..n : s[i] = stack[i]
  BY <1>1, SubSeqProperties
<1> HIDE DEF s
<1>3. s = stack
  BY <1>1, <1>2, SeqEqual
<1> QED BY <1>3 DEF s

(* YYBACKUP.                                                                *)
LEMMA ShiftKeeps == StackInv /\ Shift => StackInv'
<1> SUFFICES ASSUME StackInv, Shift
             PROVE  StackInv'
  OBVIOUS
<1>1. /\ Len(yyss) \in 1..Len(yyss) /\ yystate \in ParseStates
      /\ yystate = yyss[Len(yyss)]
      /\ yyss \in Seq(ParseStates)
  BY LegalTop DEF StackInv, Legal, yystate, Last
<1>2. /\ NeedsToken(yystate) /\ Entry(yystate, YYTRANSLATE(yychar)) > 0
      /\ Action[2] = Entry(yystate, YYTRANSLATE(yychar))
  BY DEF Shift, Action, ParseAction, DefaultAction
<1>3. Action[2] \in ParseStates /\ yystate \in Below(Action[2])
  BY <1>1, <1>2, SymbolOfToken, ShiftEdge
<1>4. SubSeq(yyss, 1, Len(yyss)) = yyss /\ SubSeq(yyvs, 1, Len(yyss)) = yyvs
  BY <1>1, WholePrefix DEF StackInv
<1>5. /\ pat = "backup" /\ pat' # "backup" /\ yystacksize' = yystacksize
      /\ yyss' = Append(yyss, Action[2]) /\ yyvs' = Append(yyvs, lookahead)
  BY DEF Shift, Ready
<1> QED BY <1>1, <1>3, <1>4, <1>5, PushKeeps

(* A state reduces the rule of yydefact, with or without a lookahead.       *)
LEMMA RuleOfState ==
  ASSUME StackInv, Ready, Action[1] = "reduce"
  PROVE  /\ yystate = yyss[Len(yyss)] /\ yystate # YYFINAL
         /\ Action[2] = At(yydefact, yystate) /\ Action[2] > 0
<1>1. /\ yystate = yyss[Len(yyss)] /\ yystate # YYFINAL
      /\ yystate \in ParseStates
  BY LegalTop DEF StackInv, Legal, yystate, Last, Ready
<1>2. Action = DefaultAction(yystate)
  BY DEF Action, ParseAction
<1>3. At(yydefact, yystate) # 0 /\ Action[2] = At(yydefact, yystate)
  BY <1>2 DEF DefaultAction
<1>4. \A t \in ParseStates : At(yydefact, t) >= 0
  BY DEF At, yydefact, ParseStates
<1>5. \A t \in ParseStates : At(yydefact, t) \in Int
  BY DEF At, yydefact, ParseStates
<1> QED BY <1>1, <1>3, <1>4, <1>5

(* YYREDUCE pops the right-hand side and pushes the left-hand side.         *)
LEMMA ReducePushes ==
  ASSUME StackInv, Reduce, NEW n, n = Len(yyss) - Length(Action[2])
  PROVE  /\ Ready /\ Action[1] = "reduce" /\ Action[2] # 22 /\ n \in 1..Len(yyss)
         /\ Follows(yyss[n], Lhs(Action[2]))
         /\ yyss' = Append(SubSeq(yyss, 1, n), GotoState(yyss[n], Lhs(Action[2])))
         /\ yyvs' = Append(SubSeq(yyvs, 1, n), Value(Action[2], TopOf(yyvs, Action[2])))
<1> DEFINE rule == Action[2]
<1>1. Ready /\ Action[1] = "reduce" /\ rule # 22
  BY DEF Reduce
<1>2. /\ Length(rule) \in 0..3 /\ Len(yyss) > Length(rule)
      /\ Follows(yyss[n], Lhs(rule))
  BY <1>1, RuleOfState, Uncovers DEF StackInv
<1>3. n \in 1..Len(yyss) /\ Len(yyvs) = Len(yyss)
  BY <1>2, LegalTop DEF StackInv
<1>4. Rest(yyss, rule) = SubSeq(yyss, 1, n) /\ Rest(yyvs, rule) = SubSeq(yyvs, 1, n)
  BY <1>3 DEF Rest
<1>5. Last(Rest(yyss, rule)) = yyss[n]
  <2>1. Legal(yyss)
    BY DEF StackInv
  <2> QED BY <1>3, <1>4, <2>1, LegalPrefix DEF Last
<1>6. /\ yyss' = Append(Rest(yyss, rule), GotoState(Last(Rest(yyss, rule)), Lhs(rule)))
      /\ yyvs' = Append(Rest(yyvs, rule), Value(rule, TopOf(yyvs, rule)))
  BY DEF Reduce
<1> QED BY <1>1, <1>2, <1>3, <1>4, <1>5, <1>6

LEMMA ReduceKeeps == StackInv /\ Reduce => StackInv'
<1> SUFFICES ASSUME StackInv, Reduce
             PROVE  StackInv'
  OBVIOUS
<1> DEFINE n == Len(yyss) - Length(Action[2])
           s == GotoState(yyss[n], Lhs(Action[2]))
           value == Value(Action[2], TopOf(yyvs, Action[2]))
<1>1. /\ n \in 1..Len(yyss) /\ Follows(yyss[n], Lhs(Action[2]))
      /\ yyss' = Append(SubSeq(yyss, 1, n), s)
      /\ yyvs' = Append(SubSeq(yyvs, 1, n), value)
  BY ReducePushes
<1>2. pat = "backup" /\ pat' # "backup" /\ yystacksize' = yystacksize
  BY DEF Reduce, Ready
<1>3. s \in ParseStates /\ yyss[n] \in Below(s)
  BY <1>1 DEF Follows
<1> HIDE DEF n, s, value
<1> QED BY <1>1, <1>2, <1>3, PushKeeps

(* YYERRLAB1: the state that shifts the error token is on the stack.       *)
LEMMA SyntaxErrorKeeps == StackInv /\ SyntaxError => StackInv'
<1> SUFFICES ASSUME StackInv, SyntaxError
             PROVE  StackInv'
  OBVIOUS
<1>1. PICK top \in DOMAIN yyss :
        /\ ShiftsError(yyss[top])
        /\ yyss' = Append(SubSeq(yyss, 1, top), Entry(yyss[top], YYTERROR))
        /\ yyvs' = Append(SubSeq(yyvs, 1, top), lookahead)
  BY DEF SyntaxError
<1>2. /\ pat = "backup" /\ pat' # "backup" /\ yystacksize' = yystacksize
  BY DEF SyntaxError, Ready
<1>3. top \in 1..Len(yyss) /\ yyss[top] \in ParseStates
  BY LenProperties, ElementOfSeq DEF StackInv, Legal
<1>4. /\ Entry(yyss[top], YYTERROR) \in ParseStates
      /\ yyss[top] \in Below(Entry(yyss[top], YYTERROR))
  <2>1. YYTERROR \in 0..18
    BY DEF YYTERROR
  <2> QED BY <1>1, <1>3, <2>1, ShiftEdge DEF ShiftsError
<1> QED BY <1>1, <1>2, <1>3, <1>4, PushKeeps

(* Every step of yyparse, whatever token it reads.                          *)
LEMMA StepKeeps == StackInv /\ [PNext]_pvars => StackInv'
<1> SUFFICES ASSUME StackInv, [PNext]_pvars
             PROVE  StackInv'
  OBVIOUS
<1>1. CASE SetState
  <2>1. Len(yyss) < yystacksize /\ yystate # YYFINAL
    BY <1>1, LegalTop, SizeIsPositive DEF SetState, Full, StackInv
  <2> QED BY <1>1, <2>1 DEF SetState, StackInv, Legal, stacks, yystate, Last
<1>2. CASE Accept
  BY <1>2, ReturnKeeps, SizeIsPositive DEF Accept
<1>3. CASE Grow
  <2>1. /\ yystacksize' = GrownSize /\ GrownSize \in Nat \ {0}
        /\ GrownSize <= MaxDepth /\ GrownSize > yystacksize
    BY <1>3, SizeIsPositive DEF Grow
  <2>2. CASE Full(GrownSize)
    <3>1. ReturnWith(1)
      BY <1>3, <2>2 DEF Grow
    <3> QED BY <2>1, <3>1, ReturnKeeps
  <2>3. CASE ~Full(GrownSize)
    <3>1. UNCHANGED <<pat, yyss, yyvs>> /\ pat = "setstate"
      BY <1>3, <2>3 DEF Grow
    <3>2. Len(yyss) \in Nat /\ Len(yyss) <= GrownSize
      BY <2>1, <2>3, LegalTop DEF Full, StackInv
    <3> QED BY <2>1, <3>1, <3>2 DEF StackInv, Legal
  <2> QED BY <2>2, <2>3
<1>4. CASE Exhausted
  <2>1. ReturnWith(2)
    BY <1>4 DEF Exhausted
  <2>2. /\ yystacksize' \in Nat \ {0} /\ yystacksize' <= MaxDepth
    BY <1>4, SizeIsPositive, DepthsAssumption DEF Exhausted
  <2> QED BY <2>1, <2>2, ReturnKeeps
<1>5. CASE Shift
  BY <1>5, ShiftKeeps
<1>6. CASE Reduce
  BY <1>6, ReduceKeeps
<1>7. CASE GlobTarget
  BY <1>7, Kept DEF GlobTarget
<1>8. CASE SyntaxError
  BY <1>8, SyntaxErrorKeeps
<1>9. CASE Abort
  BY <1>9, ReturnKeeps, SizeIsPositive DEF Abort
<1>10. CASE \E token, value : ReadToken(token, value)
  BY <1>10, Kept DEF ReadToken
<1>11. CASE UNCHANGED pvars
  BY <1>11, Kept DEF pvars
<1> QED
  BY <1>1, <1>2, <1>3, <1>4, <1>5, <1>6, <1>7, <1>8, <1>9, <1>10, <1>11
  DEF PNext, Step

(* The stack is always a path of the automaton.                            *)
THEOREM StackInvariant == PSpec => []StackInv
<1>1. PInit => StackInv
  BY InitKeeps
<1> QED BY <1>1, StepKeeps, PTL DEF PSpec

(* For every YYINITDEPTH and YYMAXDEPTH and every sequence of tokens, the   *)
(* value stack is as high as the state stack, and both stay inside the      *)
(* memory they have (derived-parser.c:1322-1407).                          *)
THEOREM StacksFit == PSpec => []StackFits
<1>1. StackInv => StackFits
  BY DEF StackInv, StackFits
<1> QED BY <1>1, StackInvariant, PTL

(* Every reduction finds its right-hand side on the stack: neither stack    *)
(* underflows and each semantic action gets values of the symbols it was    *)
(* written for (derived-parser.c:1490-1686).                               *)
THEOREM ReductionsMatch == PSpec => []ReducesWhatItRead
<1>1. StackInv => ReducesWhatItRead
  <2> SUFFICES ASSUME StackInv, Ready, Action[1] = "reduce"
               PROVE  /\ Len(yyss) > Length(Action[2])
                      /\ \A k \in 1..Length(Action[2]) :
                           Symbol(yyss[Len(yyss) - Length(Action[2]) + k])
                             = RightHandSide[Action[2]][k]
    BY DEF ReducesWhatItRead
  <2> QED BY RuleOfState, Uncovers DEF StackInv
<1> QED BY <1>1, StackInvariant, PTL
(* The parser reports exhausted memory (derived-parser.c:1331-1350) only     *)
(* when YYMAXDEPTH entries are in use or an allocation failed.              *)
THEOREM ExhaustedMeansFull == PSpec => ExhaustedOnlyWhenFull
<1> DEFINE Reason == yyresult' = 2 => yyresult = 2 \/ Len(yyss) = MaxDepth \/ NoStack
<1>1. StackInv /\ [PNext]_pvars => [Reason]_pvars
  <2> SUFFICES ASSUME StackInv, PNext, yyresult' = 2, yyresult # 2
               PROVE  Len(yyss) = MaxDepth \/ NoStack
    BY DEF pvars
  <2>1. Exhausted
    BY DEF PNext, Step, SetState, Accept, Grow, ReturnWith, Shift, Reduce, GlobTarget,
           SyntaxError, Abort, ReadToken
  <2>2. Len(yyss) \in Nat /\ Len(yyss) <= yystacksize /\ yystacksize <= MaxDepth
    BY LegalTop DEF StackInv
  <2> QED BY <2>1, <2>2, SizeIsPositive, DepthsAssumption DEF Exhausted, Full
<1> QED BY <1>1, StackInvariant, PTL DEF PSpec, ExhaustedOnlyWhenFull
(***************************************************************************)
(* What the semantic actions build                                         *)
(***************************************************************************)
IsSeq(s) == \E S : s \in Seq(S)

LEMMA SeqFacts ==
  ASSUME NEW s, IsSeq(s)
  PROVE  Len(s) \in Nat /\ DOMAIN s = 1..Len(s)
  BY LenProperties DEF IsSeq

LEMMA SeqOne ==
  ASSUME NEW x
  PROVE  IsSeq(<<x>>) /\ Len(<<x>>) = 1 /\ <<x>>[1] = x
<1>1. <<x>> \in Seq({x})
  OBVIOUS
<1> QED BY <1>1 DEF IsSeq

LEMMA SeqNone == IsSeq(<<>>) /\ Len(<<>>) = 0
<1>1. <<>> \in Seq({})
  OBVIOUS
<1> QED BY <1>1 DEF IsSeq

LEMMA SeqAppend ==
  ASSUME NEW s, IsSeq(s), NEW x
  PROVE  /\ IsSeq(Append(s, x))
         /\ Len(Append(s, x)) = Len(s) + 1
         /\ \A k \in 1..Len(s) : Append(s, x)[k] = s[k]
         /\ Append(s, x)[Len(s) + 1] = x
<1>1. PICK S : s \in Seq(S)
  BY DEF IsSeq
<1>2. s \in Seq(S \cup {x}) /\ Len(s) \in Nat
  BY <1>1
<1> DEFINE a == Append(s, x)
<1>3. /\ a \in Seq(S \cup {x}) /\ Len(a) = Len(s) + 1
      /\ \A k \in 1..Len(s) : a[k] = s[k]
      /\ a[Len(s) + 1] = x
  <2> HIDE DEF a
  <2> QED BY <1>2, AppendProperties DEF a
<1> QED BY <1>3 DEF IsSeq

LEMMA SeqConcat ==
  ASSUME NEW s, IsSeq(s), NEW t, IsSeq(t)
  PROVE  /\ IsSeq(s \o t)
         /\ Len(s \o t) = Len(s) + Len(t)
         /\ \A k \in 1..(Len(s) + Len(t)) :
              (s \o t)[k] = IF k <= Len(s) THEN s[k] ELSE t[k - Len(s)]
<1>1. PICK S, T : s \in Seq(S) /\ t \in Seq(T)
  BY DEF IsSeq
<1>2. s \in Seq(S \cup T) /\ t \in Seq(S \cup T)
  BY <1>1
<1> DEFINE a == s \o t
<1>3. /\ a \in Seq(S \cup T) /\ Len(a) = Len(s) + Len(t)
      /\ \A k \in 1..(Len(s) + Len(t)) : a[k] = IF k <= Len(s) THEN s[k] ELSE t[k - Len(s)]
  <2> HIDE DEF a
  <2> QED BY <1>2, ConcatProperties DEF a
<1> QED BY <1>3 DEF IsSeq

LEMMA SeqTail ==
  ASSUME NEW s, IsSeq(s), s # <<>>
  PROVE  /\ IsSeq(Tail(s)) /\ Len(Tail(s)) = Len(s) - 1 /\ Len(s) >= 1
         /\ \A k \in 1..(Len(s) - 1) : Tail(s)[k] = s[k + 1]
         /\ Head(s) = s[1]
<1>1. PICK S : s \in Seq(S)
  BY DEF IsSeq
<1>2. s \in Seq(S) /\ s # <<>>
  BY <1>1
<1> DEFINE a == Tail(s)
<1>3. /\ a \in Seq(S) /\ Len(a) = Len(s) - 1 /\ Len(s) >= 1
      /\ \A k \in 1..(Len(s) - 1) : a[k] = s[k + 1]
  <2>1. Len(s) \in Nat /\ Len(s) # 0
    BY <1>2, LenProperties, EmptySeq
  <2> HIDE DEF a
  <2> QED BY <1>2, <2>1, HeadTailProperties DEF a
<1>4. Head(s) = s[1]
  BY <1>2
<1> QED BY <1>3, <1>4 DEF IsSeq

(* The redirections of a task itself.                                      *)
IsOwn(r) ==
  /\ r.stream \in Streams /\ r.target \in {"file", "share"}
  /\ ~(r.stream = "in" /\ r.target = "share")
AreOwn(redirects) == IsSeq(redirects) /\ \A k \in 1..Len(redirects) : IsOwn(redirects[k])

AreWords(words) == IsSeq(words) /\ \A k \in 1..Len(words) : IsSeq(words[k])

IsTask(t) ==
  /\ t = [run_if |-> t.run_if, words |-> t.words, redirects |-> t.redirects]
  /\ t.run_if \in RunIfs /\ AreWords(t.words) /\ IsSeq(t.redirects)

(* A task with its redirections in an order that the parser makes: pipes    *)
(* behind its own, the one it writes to first.                             *)
Goes(r, s, tgt) == r.stream = s /\ r.target = tgt
Has(t, s, tgt) == \E k \in 1..Len(t.redirects) : Goes(t.redirects[k], s, tgt)
IsOrdered(t) ==
  /\ \A k \in 1..Len(t.redirects) :
       /\ t.redirects[k].stream \in Streams /\ t.redirects[k].target \in Targets
       /\ ~Goes(t.redirects[k], "in", "share") /\ ~Goes(t.redirects[k], "err", "pipe")
  /\ \A m, n \in 1..Len(t.redirects) :
       m < n /\ Goes(t.redirects[m], "out", "pipe") => Goes(t.redirects[n], "in", "pipe")

IsCommandTask(t) == IsTask(t) /\ AreOwn(t.redirects)

IsTaskList(list) ==
  /\ IsSeq(list) /\ list # <<>>
  /\ \A k \in 1..Len(list) : IsTask(list[k]) /\ IsOrdered(list[k])
  /\ ~Has(list[1], "in", "pipe")
  /\ ~Has(list[Len(list)], "out", "pipe")
  /\ \A k \in 1..(Len(list) - 1) :
       /\ Has(list[k], "out", "pipe") <=> Has(list[k + 1], "in", "pipe")
       /\ Has(list[k], "out", "pipe") => list[k + 1].run_if = "always"

(* Such a list is what _sf1_tasks_run relies on.                           *)
LEMMA OutlineIsLine ==
  ASSUME NEW list, IsTaskList(list)
  PROVE  IsLine(Outline(list, LAMBDA t : "quick"))
<1> DEFINE n == Len(list)
           Red(k) == [j \in DOMAIN list[k].redirects |->
                        [stream |-> list[k].redirects[j].stream,
                         target |-> list[k].redirects[j].target]]
           out == [k \in DOMAIN list |->
                     [run_if |-> list[k].run_if, prog |-> "quick", redirects |-> Red(k)]]
<1>1. n \in Nat /\ DOMAIN list = 1..n /\ n >= 1
  <2>1. n \in Nat /\ DOMAIN list = 1..n
    BY SeqFacts DEF IsTaskList
  <2>2. n # 0
    BY EmptySeq DEF IsTaskList, IsSeq
  <2> QED BY <2>1, <2>2
<1>2. out = [k \in 1..n |-> [run_if |-> list[k].run_if, prog |-> "quick", redirects |-> Red(k)]]
  BY <1>1
<1> HIDE DEF out, n
<1>3. ASSUME NEW k \in 1..n
      PROVE  /\ DOMAIN list[k].redirects = 1..Len(list[k].redirects)
             /\ Len(list[k].redirects) \in Nat
             /\ Red(k) \in Seq(Redirect) /\ Len(Red(k)) = Len(list[k].redirects)
             /\ \A j \in 1..Len(list[k].redirects) :
                  Red(k)[j] = [stream |-> list[k].redirects[j].stream,
                               target |-> list[k].redirects[j].target]
  <2>1. IsTask(list[k]) /\ IsOrdered(list[k])
    BY DEF IsTaskList, n
  <2>2. DOMAIN list[k].redirects = 1..Len(list[k].redirects) /\ Len(list[k].redirects) \in Nat
    BY <2>1, SeqFacts DEF IsTask
  <2>3. \A j \in 1..Len(list[k].redirects) :
          [stream |-> list[k].redirects[j].stream,
           target |-> list[k].redirects[j].target] \in Redirect
    BY <2>1 DEF IsOrdered, Redirect
  <2> QED BY <2>2, <2>3
<1> HIDE DEF Red
<1>4. out \in Seq(Task) /\ Len(out) = n
  <2>1. ASSUME NEW k \in 1..n
        PROVE [run_if |-> list[k].run_if, prog |-> "quick", redirects |-> Red(k)] \in Task
    <3>1. list[k].run_if \in RunIfs
      BY DEF IsTaskList, IsTask, n
    <3> QED BY <3>1, <1>3 DEF Task, Programs
  <2> QED BY <1>1, <1>2, <2>1
<1>5. \A k \in 1..n : out[k].run_if = list[k].run_if /\ out[k].redirects = Red(k)
  BY <1>2
<1>6. ASSUME NEW k \in 1..n, NEW s, NEW tgt
      PROVE  HasRedirect(out[k], s, tgt) <=> Has(list[k], s, tgt)
  <2>1. /\ Len(out[k].redirects) = Len(list[k].redirects)
        /\ \A j \in 1..Len(list[k].redirects) :
             /\ out[k].redirects[j].stream = list[k].redirects[j].stream
             /\ out[k].redirects[j].target = list[k].redirects[j].target
    <3>1. out[k].redirects = Red(k)
      BY <1>5
    <3>2. ASSUME NEW j \in 1..Len(list[k].redirects)
          PROVE  /\ Red(k)[j].stream = list[k].redirects[j].stream
                 /\ Red(k)[j].target = list[k].redirects[j].target
      <4>1. Red(k)[j] = [stream |-> list[k].redirects[j].stream,
                         target |-> list[k].redirects[j].target]
        BY <1>3
      <4> QED BY <4>1
    <3>3. Len(Red(k)) = Len(list[k].redirects)
      BY <1>3
    <3> QED BY <3>1, <3>2, <3>3
  <2> QED BY <2>1 DEF HasRedirect, Has, Goes
<1>7. ASSUME NEW k \in 1..n
      PROVE  /\ ~HasRedirect(out[k], "err", "pipe")
             /\ ~HasRedirect(out[k], "in", "share")
             /\ \A s \in Streams, tgt \in Targets :
                  Before(out[k], "out", "pipe", s, tgt) => s = "in" /\ tgt = "pipe"
  <2>1. IsOrdered(list[k])
    BY DEF IsTaskList, n
  <2>2. ~Has(list[k], "err", "pipe") /\ ~Has(list[k], "in", "share")
    BY <2>1 DEF IsOrdered, Has
  <2>3. ASSUME NEW s \in Streams, NEW tgt \in Targets, Before(out[k], "out", "pipe", s, tgt)
        PROVE  s = "in" /\ tgt = "pipe"
    <3>1. PICK m, j \in 1..Len(list[k].redirects) :
            /\ m < j
            /\ Red(k)[m] = [stream |-> "out", target |-> "pipe"]
            /\ Red(k)[j] = [stream |-> s, target |-> tgt]
      <4>1. /\ out[k].redirects = Red(k)
            /\ Len(Red(k)) = Len(list[k].redirects)
        BY <1>3, <1>5
      <4> QED BY <4>1, <2>3 DEF Before
    <3>2. /\ list[k].redirects[m].stream = "out" /\ list[k].redirects[m].target = "pipe"
          /\ list[k].redirects[j].stream = s /\ list[k].redirects[j].target = tgt
      <4>1. /\ Red(k)[m] = [stream |-> list[k].redirects[m].stream,
                            target |-> list[k].redirects[m].target]
            /\ Red(k)[j] = [stream |-> list[k].redirects[j].stream,
                            target |-> list[k].redirects[j].target]
        BY <1>3
      <4>2. /\ Red(k)[m].stream = "out" /\ Red(k)[m].target = "pipe"
            /\ Red(k)[j].stream = s /\ Red(k)[j].target = tgt
        BY <3>1
      <4> QED BY <4>1, <4>2
    <3> QED BY <2>1, <3>1, <3>2 DEF IsOrdered, Goes
  <2> QED BY <2>2, <2>3, <1>6
<1>8. /\ ~HasRedirect(out[1], "in", "pipe")
      /\ ~HasRedirect(out[n], "out", "pipe")
  BY <1>1, <1>6 DEF IsTaskList, n
<1>9. ASSUME NEW k \in 1..(n - 1)
      PROVE  /\ HasRedirect(out[k], "out", "pipe") <=> HasRedirect(out[k + 1], "in", "pipe")
             /\ HasRedirect(out[k], "out", "pipe") => out[k + 1].run_if = "always"
  <2>1. k \in 1..n /\ k + 1 \in 1..n
    BY <1>1
  <2> QED BY <2>1, <1>5, <1>6 DEF IsTaskList, n
<1>10. out # <<>>
  BY <1>1, <1>4
<1>11. IsLine(out)
  BY <1>4, <1>7, <1>8, <1>9, <1>10 DEF IsLine
<1> QED BY <1>11 DEF Outline, out, Red

(* A command alone, and one in front of a list.                            *)
LEMMA CommandIsList ==
  ASSUME NEW t, IsCommandTask(t)
  PROVE  IsOrdered(t) /\ ~Has(t, "in", "pipe") /\ ~Has(t, "out", "pipe") /\ IsTaskList(<<t>>)
<1>1. IsTask(t) /\ IsSeq(t.redirects) /\ \A k \in 1..Len(t.redirects) : IsOwn(t.redirects[k])
  BY DEF IsCommandTask, IsTask, AreOwn
<1>2. IsOrdered(t)
  BY <1>1 DEF IsOrdered, IsOwn, Goes, Targets
<1>3. ~Has(t, "in", "pipe") /\ ~Has(t, "out", "pipe")
  BY <1>1 DEF Has, IsOwn, Goes
<1> DEFINE list == <<t>>
<1>4. IsSeq(list) /\ Len(list) = 1 /\ list[1] = t
  BY SeqOne
<1>5. list # <<>>
  OBVIOUS
<1> HIDE DEF list
<1>6. IsTaskList(list)
  BY <1>1, <1>2, <1>3, <1>4, <1>5 DEF IsTaskList
<1> QED BY <1>2, <1>3, <1>6 DEF list

(* _sf1_create_redirect_pipe.                                              *)
LEMMA PipeAdded ==
  ASSUME NEW t, IsTask(t), IsOrdered(t), NEW s \in {"in", "out"},
         s = "out" => ~Has(t, "out", "pipe")
  PROVE  /\ IsTask(WithPipe(t, s)) /\ IsOrdered(WithPipe(t, s))
         /\ WithPipe(t, s).run_if = t.run_if /\ WithPipe(t, s).words = t.words
         /\ Len(WithPipe(t, s).redirects) = Len(t.redirects) + 1
         /\ Has(WithPipe(t, s), s, "pipe")
         /\ \A s2, tgt : <<s2, tgt>> # <<s, "pipe">> =>
              (Has(WithPipe(t, s), s2, tgt) <=> Has(t, s2, tgt))
<1> DEFINE r == [stream |-> s, target |-> "pipe", append |-> 0, file |-> NoFile]
           rs == Append(t.redirects, r)
           u == WithPipe(t, s)
<1>1. u = [run_if |-> t.run_if, words |-> t.words, redirects |-> rs]
  <2> DEFINE a == t.run_if
             b == t.words
             c == t.redirects
  <2>1. t = [run_if |-> a, words |-> b, redirects |-> c] /\ t.redirects = c
    BY DEF IsTask
  <2>2. u = [t EXCEPT !.redirects = rs]
    BY DEF WithPipe, NewRedirect
  <2> HIDE DEF a, b, c, u, rs
  <2>3. [t EXCEPT !.redirects = rs] = [run_if |-> a, words |-> b, redirects |-> rs]
    BY <2>1
  <2> QED BY <2>2, <2>3 DEF a, b
<1>2. r.stream = s /\ r.target = "pipe"
  OBVIOUS
<1> HIDE DEF r
<1>3. /\ IsSeq(rs) /\ Len(rs) = Len(t.redirects) + 1 /\ Len(t.redirects) \in Nat
      /\ \A k \in 1..Len(t.redirects) : rs[k] = t.redirects[k]
      /\ rs[Len(t.redirects) + 1] = r
  BY SeqAppend, SeqFacts DEF IsTask
<1> HIDE DEF rs, u
<1>4. u.run_if = t.run_if /\ u.words = t.words /\ u.redirects = rs
  BY <1>1
<1>5. IsTask(u)
  BY <1>1, <1>3, <1>4 DEF IsTask
<1>6. ASSUME NEW k \in 1..Len(rs)
      PROVE  \/ k \in 1..Len(t.redirects) /\ rs[k] = t.redirects[k]
             \/ k = Len(t.redirects) + 1 /\ rs[k] = r
  BY <1>3
<1>7. Has(u, s, "pipe")
  <2>1. Len(t.redirects) + 1 \in 1..Len(u.redirects)
    BY <1>3, <1>4
  <2> QED BY <2>1, <1>2, <1>3, <1>4 DEF Has, Goes
<1>8. ASSUME NEW s2, NEW tgt, <<s2, tgt>> # <<s, "pipe">>
      PROVE  Has(u, s2, tgt) <=> Has(t, s2, tgt)
  <2>1. s2 # s \/ tgt # "pipe"
    BY <1>8
  <2>2. ~Goes(r, s2, tgt)
    BY <1>2, <2>1 DEF Goes
  <2>3. Has(u, s2, tgt) => Has(t, s2, tgt)
    BY <1>4, <1>6, <2>2 DEF Has
  <2>4. \A k \in 1..Len(t.redirects) : k \in 1..Len(rs)
    BY <1>3
  <2>5. Has(t, s2, tgt) => Has(u, s2, tgt)
    BY <1>3, <1>4, <2>4 DEF Has
  <2> QED BY <2>3, <2>5
<1>9. IsOrdered(u)
  <2>1. ASSUME NEW k \in 1..Len(rs)
        PROVE  /\ rs[k].stream \in Streams /\ rs[k].target \in Targets
               /\ ~Goes(rs[k], "in", "share") /\ ~Goes(rs[k], "err", "pipe")
    BY <1>2, <1>6 DEF IsOrdered, Streams, Targets, Goes
  <2>2. ASSUME NEW m \in 1..Len(rs), NEW n \in 1..Len(rs), m < n, Goes(rs[m], "out", "pipe")
        PROVE  Goes(rs[n], "in", "pipe")
    <3>1. m \in 1..Len(t.redirects) /\ rs[m] = t.redirects[m]
      BY <2>2, <1>3, <1>6
    <3>2. CASE n \in 1..Len(t.redirects) /\ rs[n] = t.redirects[n]
      BY <2>2, <3>1, <3>2 DEF IsOrdered
    <3>3. CASE n = Len(t.redirects) + 1 /\ rs[n] = r
      <4>1. Has(t, "out", "pipe")
        BY <2>2, <3>1 DEF Has
      <4>2. s = "in"
        BY <4>1
      <4> QED BY <3>3, <4>2, <1>2 DEF Goes
    <3> QED BY <1>6, <3>2, <3>3
  <2> QED BY <1>4, <2>1, <2>2 DEF IsOrdered
<1> QED BY <1>3, <1>4, <1>5, <1>7, <1>8, <1>9 DEF u

(* What cmd sep cmds makes: the task, then the list with its first task     *)
(* conditioned.                                                            *)
LEMMA Joined2 ==
  ASSUME NEW x, NEW y, NEW rest, IsSeq(rest), rest # <<>>
  PROVE  /\ IsSeq(<<x, y>> \o Tail(rest)) /\ Len(<<x, y>> \o Tail(rest)) = Len(rest) + 1
         /\ (<<x, y>> \o Tail(rest))[1] = x /\ (<<x, y>> \o Tail(rest))[2] = y
         /\ \A k \in 3..(Len(rest) + 1) : (<<x, y>> \o Tail(rest))[k] = rest[k - 1]
<1> DEFINE two == <<x, y>>
           c == two \o Tail(rest)
<1>1. IsSeq(two) /\ Len(two) = 2 /\ two[1] = x /\ two[2] = y
  <2>1. two \in Seq({x, y})
    OBVIOUS
  <2>2. Len(two) = 2 /\ two[1] = x /\ two[2] = y
    OBVIOUS
  <2> QED BY <2>1, <2>2 DEF IsSeq
<1>2. /\ IsSeq(Tail(rest)) /\ Len(Tail(rest)) = Len(rest) - 1 /\ Len(rest) >= 1
      /\ Len(rest) \in Nat
      /\ \A k \in 1..(Len(rest) - 1) : Tail(rest)[k] = rest[k + 1]
  BY SeqTail, SeqFacts
<1> HIDE DEF two
<1>3. /\ IsSeq(c) /\ Len(c) = Len(two) + Len(Tail(rest))
      /\ \A k \in 1..(Len(two) + Len(Tail(rest))) :
           c[k] = IF k <= Len(two) THEN two[k] ELSE Tail(rest)[k - Len(two)]
  BY <1>1, <1>2, SeqConcat
<1> HIDE DEF c
<1>4. Len(c) = Len(rest) + 1
  BY <1>1, <1>2, <1>3
<1>5. c[1] = x /\ c[2] = y
  BY <1>1, <1>2, <1>3
<1>6. ASSUME NEW k \in 3..(Len(rest) + 1)
      PROVE  c[k] = rest[k - 1]
  <2>1. k - 2 \in 1..(Len(rest) - 1) /\ k - 2 + 1 = k - 1 /\ ~(k <= 2)
    BY <1>2
  <2>2. k \in 1..(Len(two) + Len(Tail(rest)))
    BY <1>1, <1>2
  <2>3. c[k] = Tail(rest)[k - 2]
    BY <1>1, <1>3, <2>1, <2>2
  <2>4. Tail(rest)[k - 2] = rest[k - 2 + 1]
    BY <1>2, <2>1
  <2> QED BY <2>1, <2>3, <2>4
<1> QED BY <1>3, <1>4, <1>5, <1>6 DEF c, two

(* The task list that such a chain is.  A pipe has an end at each task.     *)
EndOfPipe(rule) == IF rule = 6 THEN 1 ELSE 0
IsChain(c, rule, task, rest) ==
  /\ IsTaskList(c) /\ Len(c) = Len(rest) + 1
  /\ c[1].words = task.words /\ c[2].words = rest[1].words
  /\ Len(c[1].redirects) = Len(task.redirects) + EndOfPipe(rule)
  /\ Len(c[2].redirects) = Len(rest[1].redirects) + EndOfPipe(rule)
  /\ \A k \in 3..(Len(rest) + 1) : c[k] = rest[k - 1]

LEMMA ChainIsList ==
  ASSUME NEW task, IsCommandTask(task), NEW rest, IsTaskList(rest),
         NEW rule, rule \in 3..6
  PROVE  IsChain(Chain(rule, task, rest), rule, task, rest)
<1> DEFINE next == [Head(rest) EXCEPT !.run_if = RunIfOfRule(rule)]
           x == IF rule = 6 THEN WithPipe(task, "out") ELSE task
           y == IF rule = 6 THEN WithPipe(next, "in") ELSE next
           c == <<x, y>> \o Tail(rest)
           n == Len(rest)
<1>1. Chain(rule, task, rest) = c
  BY DEF Chain
<1>2. /\ IsSeq(rest) /\ rest # <<>> /\ n \in Nat /\ n >= 1 /\ Head(rest) = rest[1]
      /\ IsTask(rest[1]) /\ IsOrdered(rest[1]) /\ ~Has(rest[1], "in", "pipe")
  BY SeqTail, SeqFacts DEF IsTaskList
<1>3. next = [run_if |-> RunIfOfRule(rule), words |-> rest[1].words,
              redirects |-> rest[1].redirects]
  <2> DEFINE a == rest[1].run_if
             b == rest[1].words
             d == rest[1].redirects
             v == RunIfOfRule(rule)
  <2>1. rest[1] = [run_if |-> a, words |-> b, redirects |-> d]
    BY <1>2 DEF IsTask
  <2>2. next = [rest[1] EXCEPT !.run_if = v]
    BY <1>2
  <2> HIDE DEF a, b, d, v, next
  <2>3. [rest[1] EXCEPT !.run_if = v] = [run_if |-> v, words |-> b, redirects |-> d]
    BY <2>1
  <2> QED BY <2>2, <2>3 DEF b, d, v
<1>4. RunIfOfRule(rule) \in RunIfs /\ (rule = 6 => RunIfOfRule(rule) = "always")
  BY DEF RunIfOfRule, RunIfs
<1>5. /\ IsTask(next) /\ IsOrdered(next)
      /\ \A s, tgt : Has(next, s, tgt) <=> Has(rest[1], s, tgt)
      /\ rule = 6 => next.run_if = "always"
      /\ next.words = rest[1].words /\ next.redirects = rest[1].redirects
  <2> HIDE DEF next
  <2>1. /\ next.run_if = RunIfOfRule(rule) /\ next.words = rest[1].words
        /\ next.redirects = rest[1].redirects
    BY <1>3
  <2>2. IsTask(next)
    BY <1>2, <1>3, <1>4, <2>1 DEF IsTask
  <2>3. IsOrdered(next)
    BY <1>2, <2>1 DEF IsOrdered
  <2>4. \A s, tgt : Has(next, s, tgt) <=> Has(rest[1], s, tgt)
    BY <2>1 DEF Has
  <2> QED BY <1>4, <2>1, <2>2, <2>3, <2>4
<1>6. /\ IsTask(task) /\ IsOrdered(task)
      /\ ~Has(task, "in", "pipe") /\ ~Has(task, "out", "pipe")
  BY CommandIsList DEF IsCommandTask
<1> HIDE DEF next
<1> DEFINE up == EndOfPipe(rule)
<1>0. (rule = 6 => up = 1) /\ (rule # 6 => up = 0)
  BY DEF EndOfPipe
<1> HIDE DEF up
<1>7. /\ IsTask(x) /\ IsOrdered(x) /\ ~Has(x, "in", "pipe")
      /\ Has(x, "out", "pipe") <=> rule = 6
      /\ x.words = task.words /\ Len(x.redirects) = Len(task.redirects) + up
  <2>1. CASE rule = 6
    <3>1. <<"in", "pipe">> # <<"out", "pipe">>
      OBVIOUS
    <3> QED BY <2>1, <3>1, <1>0, <1>6, PipeAdded
  <2>2. CASE rule # 6
    <3>1. Len(task.redirects) \in Nat
      BY <1>6, SeqFacts DEF IsTask
    <3> QED BY <2>2, <3>1, <1>0, <1>6
  <2> QED BY <2>1, <2>2
<1>8. /\ IsTask(y) /\ IsOrdered(y)
      /\ Has(y, "in", "pipe") <=> rule = 6
      /\ Has(y, "out", "pipe") <=> Has(rest[1], "out", "pipe")
      /\ rule = 6 => y.run_if = "always"
      /\ y.words = rest[1].words /\ Len(y.redirects) = Len(rest[1].redirects) + up
  <2>1. CASE rule = 6
    <3>1. <<"out", "pipe">> # <<"in", "pipe">>
      OBVIOUS
    <3>2. /\ IsTask(WithPipe(next, "in")) /\ IsOrdered(WithPipe(next, "in"))
          /\ WithPipe(next, "in").run_if = next.run_if
          /\ WithPipe(next, "in").words = next.words
          /\ Len(WithPipe(next, "in").redirects) = Len(next.redirects) + 1
          /\ Has(WithPipe(next, "in"), "in", "pipe")
          /\ Has(WithPipe(next, "in"), "out", "pipe") <=> Has(next, "out", "pipe")
      BY <3>1, <1>5, PipeAdded
    <3> QED BY <2>1, <3>2, <1>0, <1>5
  <2>2. CASE rule # 6
    <3>1. Len(rest[1].redirects) \in Nat
      BY <1>2, SeqFacts DEF IsTask
    <3> QED BY <2>2, <3>1, <1>0, <1>2, <1>5
  <2> QED BY <2>1, <2>2
<1> HIDE DEF x, y
<1>9. /\ IsSeq(c) /\ Len(c) = n + 1 /\ c[1] = x /\ c[2] = y
      /\ \A k \in 3..(n + 1) : c[k] = rest[k - 1]
  BY <1>2, Joined2
<1> HIDE DEF c
<1>10. c # <<>>
  BY <1>2, <1>9
<1>11. ASSUME NEW k \in 3..(n + 1)
       PROVE  k - 1 \in 1..n /\ c[k] = rest[k - 1]
  BY <1>2, <1>9
<1>12. ASSUME NEW k \in 1..(n + 1)
       PROVE  IsTask(c[k]) /\ IsOrdered(c[k])
  <2>1. k = 1 \/ k = 2 \/ k \in 3..(n + 1)
    BY <1>2
  <2>2. CASE k \in 3..(n + 1)
    BY <2>2, <1>11 DEF IsTaskList
  <2> QED BY <2>1, <2>2, <1>7, <1>8, <1>9
<1>13. ~Has(c[n + 1], "out", "pipe")
  <2>1. CASE n = 1
    BY <2>1, <1>8, <1>9 DEF IsTaskList
  <2>2. CASE n # 1
    <3>1. n + 1 \in 3..(n + 1) /\ n + 1 - 1 = n
      BY <2>2, <1>2
    <3>2. c[n + 1] = rest[n]
      BY <3>1, <1>9
    <3> QED BY <3>2 DEF IsTaskList
  <2> QED BY <2>1, <2>2
<1>14. ASSUME NEW k \in 1..n
       PROVE  /\ Has(c[k], "out", "pipe") <=> Has(c[k + 1], "in", "pipe")
              /\ Has(c[k], "out", "pipe") => c[k + 1].run_if = "always"
  <2>1. CASE k = 1
    BY <2>1, <1>7, <1>8, <1>9
  <2>2. CASE k = 2
    <3>1. 3 \in 3..(n + 1) /\ 1 \in 1..(n - 1) /\ 3 - 1 = 2 /\ 1 + 1 = 2
      <4>1. n \in Nat /\ n >= 2
        BY <2>2, <1>2
      <4> HIDE DEF n
      <4> QED BY <4>1
    <3>2. c[k] = y /\ c[k + 1] = rest[2]
      BY <2>2, <3>1, <1>9
    <3>3. /\ Has(rest[1], "out", "pipe") <=> Has(rest[2], "in", "pipe")
          /\ Has(rest[1], "out", "pipe") => rest[2].run_if = "always"
      BY <3>1 DEF IsTaskList
    <3> QED BY <3>2, <3>3, <1>8
  <2>3. CASE k > 2
    <3>1. k \in 3..(n + 1) /\ k + 1 \in 3..(n + 1) /\ k - 1 \in 1..(n - 1)
          /\ k + 1 - 1 = k /\ k - 1 + 1 = k
      BY <2>3, <1>2
    <3>2. c[k] = rest[k - 1] /\ c[k + 1] = rest[k]
      BY <3>1, <1>9
    <3>3. /\ Has(rest[k - 1], "out", "pipe") <=> Has(rest[k], "in", "pipe")
          /\ Has(rest[k - 1], "out", "pipe") => rest[k].run_if = "always"
      BY <3>1 DEF IsTaskList
    <3> QED BY <3>2, <3>3
  <2> QED BY <2>1, <2>2, <2>3
<1>15. n + 1 - 1 = n
  BY <1>2
<1>16. IsTaskList(c)
  BY <1>7, <1>9, <1>10, <1>12, <1>13, <1>14, <1>15 DEF IsTaskList
<1>17. IsChain(c, rule, task, rest)
  BY <1>7, <1>8, <1>9, <1>16 DEF IsChain, n, up
<1> QED BY <1>1, <1>17 DEF c

(* The value of a symbol has the type that the actions expect.              *)
Fits(symbol, v) ==
  /\ symbol = 20 => IsTaskList(v)
  /\ symbol = 21 => IsCommandTask(v)
  /\ symbol \in {22, 23} => AreOwn(v)
  /\ symbol = 24 => AreWords(v)
  /\ symbol = 25 => IsSeq(v)

LEMMA RedirectsAreOwn ==
  ASSUME NEW rule \in RedirectRules, NEW file
  PROVE  AreOwn(Redirects(rule, file))
<1>1. ASSUME NEW r, IsOwn(r) PROVE AreOwn(<<r>>)
  <2> DEFINE s == <<r>>
  <2>1. IsSeq(s) /\ Len(s) = 1 /\ s[1] = r
    BY SeqOne
  <2> HIDE DEF s
  <2>2. AreOwn(s)
    BY <1>1, <2>1 DEF AreOwn
  <2> QED BY <2>2 DEF s
<1>2. ASSUME NEW r, NEW q, IsOwn(r), IsOwn(q) PROVE AreOwn(<<r, q>>)
  <2> DEFINE s == <<r, q>>
  <2>1. s \in Seq({r, q}) /\ Len(s) = 2 /\ s[1] = r /\ s[2] = q
    OBVIOUS
  <2> HIDE DEF s
  <2>2. AreOwn(s)
    BY <1>2, <2>1 DEF AreOwn, IsSeq
  <2> QED BY <2>2 DEF s
<1>3. ASSUME NEW s, NEW tgt, NEW a, NEW f
      PROVE  NewRedirect(s, tgt, a, f).stream = s /\ NewRedirect(s, tgt, a, f).target = tgt
  BY DEF NewRedirect
<1>4. ASSUME NEW s \in Streams, NEW tgt \in {"file", "share"}, NEW a, NEW f,
             ~(s = "in" /\ tgt = "share")
      PROVE  IsOwn(NewRedirect(s, tgt, a, f))
  BY <1>3, <1>4 DEF IsOwn
<1>5. "in" \in Streams /\ "out" \in Streams /\ "err" \in Streams
  BY DEF Streams
<1>6. CASE rule = 11
  <2>1. Redirects(rule, file) = <<NewRedirect("in", "file", 0, file)>>
    BY <1>6 DEF Redirects
  <2>2. IsOwn(NewRedirect("in", "file", 0, file))
    BY <1>4, <1>5
  <2> QED BY <1>1, <2>1, <2>2
<1>7. CASE rule \in {12, 13}
  <2>1. PICK a : Redirects(rule, file) = <<NewRedirect("out", "file", a, file)>>
    BY <1>7 DEF Redirects
  <2>2. IsOwn(NewRedirect("out", "file", a, file))
    BY <1>4, <1>5
  <2> QED BY <1>1, <2>1, <2>2
<1>8. CASE rule \in {14, 15}
  <2>1. PICK s \in {"out", "err"} : Redirects(rule, file) = <<NewRedirect(s, "share", 0, NoFile)>>
    BY <1>8 DEF Redirects
  <2>2. IsOwn(NewRedirect(s, "share", 0, NoFile))
    BY <1>4, <1>5
  <2> QED BY <1>1, <2>1, <2>2
<1>9. CASE rule \in {16, 17}
  <2>1. PICK a : Redirects(rule, file) = <<NewRedirect("err", "file", a, file)>>
    BY <1>9 DEF Redirects
  <2>2. IsOwn(NewRedirect("err", "file", a, file))
    BY <1>4, <1>5
  <2> QED BY <1>1, <2>1, <2>2
<1>10. CASE rule \in {18, 19}
  <2>1. PICK a : Redirects(rule, file) = <<NewRedirect("err", "share", a, NoFile),
                                           NewRedirect("out", "file", a, file)>>
    BY <1>10 DEF Redirects
  <2>2. IsOwn(NewRedirect("err", "share", a, NoFile)) /\ IsOwn(NewRedirect("out", "file", a, file))
    BY <1>4, <1>5
  <2> QED BY <1>2, <2>1, <2>2
<1>11. rule \in 11..19
  BY DEF RedirectRules
<1> QED BY <1>6, <1>7, <1>8, <1>9, <1>10, <1>11

LEMMA OwnConcat ==
  ASSUME NEW s, AreOwn(s), NEW t, AreOwn(t)
  PROVE  AreOwn(s \o t)
<1>1. /\ IsSeq(s) /\ IsSeq(t) /\ Len(s) \in Nat /\ Len(t) \in Nat
  BY SeqFacts DEF AreOwn
<1> DEFINE c == s \o t
<1>2. /\ IsSeq(c) /\ Len(c) = Len(s) + Len(t)
      /\ \A k \in 1..(Len(s) + Len(t)) : c[k] = IF k <= Len(s) THEN s[k] ELSE t[k - Len(s)]
  BY <1>1, SeqConcat
<1> HIDE DEF c
<1>3. ASSUME NEW k \in 1..Len(c) PROVE IsOwn(c[k])
  <2>1. CASE k <= Len(s)
    BY <2>1, <1>1, <1>2 DEF AreOwn
  <2>2. CASE ~(k <= Len(s))
    <3>1. k - Len(s) \in 1..Len(t)
      BY <2>2, <1>1, <1>2
    <3> QED BY <2>2, <3>1, <1>2 DEF AreOwn
  <2> QED BY <2>1, <2>2
<1>4. AreOwn(c)
  BY <1>2, <1>3 DEF AreOwn
<1> QED BY <1>4 DEF c

LEMMA WordInFront ==
  ASSUME NEW w, IsSeq(w), NEW words, AreWords(words)
  PROVE  AreWords(<<w>>) /\ AreWords(<<w>> \o words)
<1> DEFINE s == <<w>>
           c == s \o words
<1>1. IsSeq(s) /\ Len(s) = 1 /\ s[1] = w
  BY SeqOne
<1>2. IsSeq(words) /\ Len(words) \in Nat
  BY SeqFacts DEF AreWords
<1> HIDE DEF s
<1>3. /\ IsSeq(c) /\ Len(c) = Len(s) + Len(words)
      /\ \A k \in 1..(Len(s) + Len(words)) : c[k] = IF k <= Len(s) THEN s[k] ELSE words[k - Len(s)]
  BY <1>1, <1>2, SeqConcat
<1> HIDE DEF c
<1>4. ASSUME NEW k \in 1..Len(c) PROVE IsSeq(c[k])
  <2>1. CASE k = 1
    BY <2>1, <1>1, <1>2, <1>3
  <2>2. CASE k # 1
    <3>1. k - 1 \in 1..Len(words) /\ ~(k <= 1)
      BY <2>2, <1>1, <1>2, <1>3
    <3>2. c[k] = words[k - 1]
      BY <3>1, <1>1, <1>2, <1>3
    <3> QED BY <3>1, <3>2 DEF AreWords
  <2> QED BY <2>1, <2>2
<1>5. AreWords(c) /\ AreWords(s)
  BY <1>1, <1>3, <1>4 DEF AreWords
<1> QED BY <1>5 DEF c, s

(* The actions, one by one, and what the tables say of their rules.         *)
LEMMA SemanticActions ==
  ASSUME NEW rule, NEW v
  PROVE  /\ rule = 2 => Value(rule, v) = <<v[1]>>
         /\ rule \in 3..6 => Value(rule, v) = Chain(rule, v[1], v[3])
         /\ rule = 7 => Value(rule, v) = [run_if |-> "always", words |-> v[1], redirects |-> v[2]]
         /\ rule = 8 => Value(rule, v) = v[1] \o v[2]
         /\ rule = 9 => Value(rule, v) = v[1]
         /\ rule = 10 => Value(rule, v) = <<>>
         /\ rule \in {14, 15} => Value(rule, v) = Redirects(rule, NoFile)
         /\ rule \in {11, 12, 13, 16, 17, 18, 19} => Value(rule, v) = Redirects(rule, v[2])
         /\ rule = 20 => Value(rule, v) = <<v[1]>>
         /\ rule = 21 => Value(rule, v) = <<v[1]>> \o v[3]
         /\ rule = 23 => Value(rule, v) = <<v[1]>>
         /\ rule = 24 => Value(rule, v) = <<v[1]>> \o v[2]
<1>1. ASSUME rule = 2 PROVE Value(rule, v) = <<v[1]>>
  BY <1>1 DEF Value, IsShare, RedirectRules
<1>2. ASSUME rule \in 3..6 PROVE Value(rule, v) = Chain(rule, v[1], v[3])
  <2>1. /\ rule # 2 /\ rule # 7 /\ rule # 8 /\ rule \notin {9, 22} /\ rule # 10 /\ ~IsShare(rule)
        /\ rule \notin RedirectRules
        /\ rule # 20 /\ rule # 21 /\ rule # 23 /\ rule # 24
    BY <1>2 DEF IsShare, RedirectRules
  <2> QED BY <1>2, <2>1, Zenon DEF Value
<1>3. ASSUME rule = 7 PROVE Value(rule, v) = [run_if |-> "always", words |-> v[1], redirects |-> v[2]]
  BY <1>3 DEF Value, IsShare, RedirectRules
<1>4. ASSUME rule = 8 PROVE Value(rule, v) = v[1] \o v[2]
  <2>1. /\ rule # 2 /\ rule # 7 /\ rule \notin 3..6 /\ rule \notin {9, 22} /\ rule # 10 /\ ~IsShare(rule)
        /\ rule \notin RedirectRules
        /\ rule # 20 /\ rule # 21 /\ rule # 23 /\ rule # 24
    BY <1>4 DEF IsShare, RedirectRules
  <2> QED BY <1>4, <2>1, Zenon DEF Value
<1>5. ASSUME rule = 9 PROVE Value(rule, v) = v[1]
  BY <1>5 DEF Value, IsShare, RedirectRules
<1>6. ASSUME rule = 10 PROVE Value(rule, v) = <<>>
  BY <1>6 DEF Value, IsShare, RedirectRules
<1>7. ASSUME rule \in {14, 15} PROVE Value(rule, v) = Redirects(rule, NoFile)
  BY <1>7 DEF Value, IsShare, RedirectRules
<1>8. ASSUME rule \in {11, 12, 13, 16, 17, 18, 19} PROVE Value(rule, v) = Redirects(rule, v[2])
  <2>1. /\ rule # 2 /\ rule # 7 /\ rule \notin 3..6 /\ rule # 8 /\ rule \notin {9, 22} /\ rule # 10
        /\ ~IsShare(rule) /\ rule \in RedirectRules
        /\ rule # 20 /\ rule # 21 /\ rule # 23 /\ rule # 24
    BY <1>8 DEF IsShare, RedirectRules
  <2> QED BY <2>1, Zenon DEF Value
<1>9. ASSUME rule = 20 PROVE Value(rule, v) = <<v[1]>>
  BY <1>9 DEF Value, IsShare, RedirectRules
<1>10. ASSUME rule = 21 PROVE Value(rule, v) = <<v[1]>> \o v[3]
  BY <1>10 DEF Value, IsShare, RedirectRules
<1>11. ASSUME rule = 23 PROVE Value(rule, v) = <<v[1]>>
  BY <1>11 DEF Value, IsShare, RedirectRules
<1>12. ASSUME rule = 24 PROVE Value(rule, v) = <<v[1]>> \o v[2]
  BY <1>12 DEF Value, IsShare, RedirectRules
<1> QED BY <1>1, <1>2, <1>3, <1>4, <1>5, <1>6, <1>7, <1>8, <1>9, <1>10, <1>11, <1>12

(* An action makes a value of its left-hand side of values of its           *)
(* right-hand side.                                                        *)
LEMMA ValueFits ==
  ASSUME NEW rule \in 2..24, rule # 22, NEW v,
         \A k \in 1..Length(rule) : Fits(RightHandSide[rule][k], v[k])
  PROVE  Fits(Lhs(rule), Value(rule, v))
<1>1. CASE rule = 2
  <2>1. Lhs(rule) = 20 /\ Value(rule, v) = <<v[1]>> /\ 1 \in 1..Length(rule)
        /\ RightHandSide[rule][1] = 21
    <3>1. Lhs(rule) = 20 /\ 1 \in 1..Length(rule)
      BY <1>1 DEF Lhs, Length, At, yyr1, yyr2
    <3>2. RightHandSide[rule][1] = 21
      BY <1>1, Sides
    <3>3. Value(rule, v) = <<v[1]>>
      BY <1>1, SemanticActions
    <3> QED BY <3>1, <3>2, <3>3
  <2>2. IsCommandTask(v[1])
    BY <2>1 DEF Fits
  <2> QED BY <2>1, <2>2, CommandIsList DEF Fits
<1>2. CASE rule \in 3..6
  <2>1. Lhs(rule) = 20 /\ Value(rule, v) = Chain(rule, v[1], v[3])
        /\ 1 \in 1..Length(rule) /\ 3 \in 1..Length(rule)
        /\ RightHandSide[rule][1] = 21 /\ RightHandSide[rule][3] = 20
    <3>1. Lhs(rule) = 20 /\ 1 \in 1..Length(rule) /\ 3 \in 1..Length(rule)
      BY <1>2 DEF Lhs, Length, At, yyr1, yyr2
    <3>2. RightHandSide[rule][1] = 21 /\ RightHandSide[rule][3] = 20
      BY <1>2, Sides
    <3>3. Value(rule, v) = Chain(rule, v[1], v[3])
      BY <1>2, SemanticActions
    <3> QED BY <3>1, <3>2, <3>3
  <2>2. IsCommandTask(v[1]) /\ IsTaskList(v[3])
    BY <2>1 DEF Fits
  <2>3. IsTaskList(Chain(rule, v[1], v[3]))
    BY <1>2, <2>2, ChainIsList DEF IsChain
  <2> QED BY <2>1, <2>3 DEF Fits
<1>3. CASE rule = 7
  <2>1. Lhs(rule) = 21 /\ 1 \in 1..Length(rule) /\ 2 \in 1..Length(rule)
        /\ RightHandSide[rule][1] = 24 /\ RightHandSide[rule][2] = 22
        /\ Value(rule, v) = [run_if |-> "always", words |-> v[1], redirects |-> v[2]]
    <3>1. Lhs(rule) = 21 /\ 1 \in 1..Length(rule) /\ 2 \in 1..Length(rule)
      BY <1>3 DEF Lhs, Length, At, yyr1, yyr2
    <3>2. RightHandSide[rule][1] = 24 /\ RightHandSide[rule][2] = 22
      BY <1>3, Sides
    <3>3. Value(rule, v) = [run_if |-> "always", words |-> v[1], redirects |-> v[2]]
      BY <1>3, SemanticActions
    <3> QED BY <3>1, <3>2, <3>3
  <2>2. AreWords(v[1]) /\ AreOwn(v[2])
    BY <2>1 DEF Fits
  <2> DEFINE t == [run_if |-> "always", words |-> v[1], redirects |-> v[2]]
  <2>3. t.run_if = "always" /\ t.words = v[1] /\ t.redirects = v[2]
    OBVIOUS
  <2>4. t = [run_if |-> t.run_if, words |-> t.words, redirects |-> t.redirects]
    OBVIOUS
  <2> HIDE DEF t
  <2>5. IsCommandTask(t)
    BY <2>2, <2>3, <2>4 DEF IsCommandTask, IsTask, AreOwn, RunIfs
  <2>6. Value(rule, v) = t
    BY <2>1 DEF t
  <2> QED BY <2>1, <2>5, <2>6 DEF Fits
<1>4. CASE rule = 8
  <2>1. Lhs(rule) = 22 /\ 1 \in 1..Length(rule) /\ 2 \in 1..Length(rule)
        /\ RightHandSide[rule][1] = 23 /\ RightHandSide[rule][2] = 22
        /\ Value(rule, v) = v[1] \o v[2]
    <3>1. Lhs(rule) = 22 /\ 1 \in 1..Length(rule) /\ 2 \in 1..Length(rule)
      BY <1>4 DEF Lhs, Length, At, yyr1, yyr2
    <3>2. RightHandSide[rule][1] = 23 /\ RightHandSide[rule][2] = 22
      BY <1>4, Sides
    <3>3. Value(rule, v) = v[1] \o v[2]
      BY <1>4, SemanticActions
    <3> QED BY <3>1, <3>2, <3>3
  <2>2. AreOwn(v[1]) /\ AreOwn(v[2])
    BY <2>1 DEF Fits
  <2>3. AreOwn(v[1] \o v[2])
    BY <2>2, OwnConcat
  <2> QED BY <2>1, <2>3 DEF Fits
<1>5. CASE rule = 9
  <2>1. Lhs(rule) = 22 /\ 1 \in 1..Length(rule) /\ RightHandSide[rule][1] = 23
        /\ Value(rule, v) = v[1]
    <3>1. Lhs(rule) = 22 /\ 1 \in 1..Length(rule)
      BY <1>5 DEF Lhs, Length, At, yyr1, yyr2
    <3>2. RightHandSide[rule][1] = 23
      BY <1>5, Sides
    <3>3. Value(rule, v) = v[1]
      BY <1>5, SemanticActions
    <3> QED BY <3>1, <3>2, <3>3
  <2> QED BY <2>1 DEF Fits
<1>6. CASE rule = 10
  <2>1. Lhs(rule) = 22 /\ Value(rule, v) = <<>>
    <3>1. Lhs(rule) = 22
      BY <1>6 DEF Lhs, Length, At, yyr1, yyr2
    <3>2. Value(rule, v) = <<>>
      BY <1>6, SemanticActions
    <3> QED BY <3>1, <3>2
  <2>2. AreOwn(<<>>)
    BY SeqNone DEF AreOwn
  <2> QED BY <2>1, <2>2 DEF Fits
<1>7. CASE rule \in RedirectRules
  <2>1. PICK file : Value(rule, v) = Redirects(rule, file)
    <3>1. rule \in {14, 15} \/ rule \in {11, 12, 13, 16, 17, 18, 19}
      BY <1>7 DEF RedirectRules
    <3>2. \/ Value(rule, v) = Redirects(rule, NoFile)
          \/ Value(rule, v) = Redirects(rule, v[2])
      BY <3>1, SemanticActions
    <3> QED BY <3>2
  <2>2. Lhs(rule) = 23
    BY <1>7 DEF RedirectRules, Lhs, At, yyr1
  <2>3. AreOwn(Redirects(rule, file))
    BY <1>7, RedirectsAreOwn
  <2> QED BY <2>1, <2>2, <2>3 DEF Fits
<1>8. CASE rule = 20
  <2>1. Lhs(rule) = 24 /\ 1 \in 1..Length(rule) /\ RightHandSide[rule][1] = 25
        /\ Value(rule, v) = <<v[1]>>
    <3>1. Lhs(rule) = 24 /\ 1 \in 1..Length(rule)
      BY <1>8 DEF Lhs, Length, At, yyr1, yyr2
    <3>2. RightHandSide[rule][1] = 25
      BY <1>8, Sides
    <3>3. Value(rule, v) = <<v[1]>>
      BY <1>8, SemanticActions
    <3> QED BY <3>1, <3>2, <3>3
  <2>2. IsSeq(v[1])
    BY <2>1 DEF Fits
  <2>3. AreWords(<<>>)
    BY SeqNone DEF AreWords
  <2>4. AreWords(<<v[1]>>)
    BY <2>2, <2>3, WordInFront
  <2> QED BY <2>1, <2>4 DEF Fits
<1>9. CASE rule = 21
  <2>1. Lhs(rule) = 24 /\ 1 \in 1..Length(rule) /\ 3 \in 1..Length(rule)
        /\ RightHandSide[rule][1] = 25 /\ RightHandSide[rule][3] = 24
        /\ Value(rule, v) = <<v[1]>> \o v[3]
    <3>1. Lhs(rule) = 24 /\ 1 \in 1..Length(rule) /\ 3 \in 1..Length(rule)
      BY <1>9 DEF Lhs, Length, At, yyr1, yyr2
    <3>2. RightHandSide[rule][1] = 25 /\ RightHandSide[rule][3] = 24
      BY <1>9, Sides
    <3>3. Value(rule, v) = <<v[1]>> \o v[3]
      BY <1>9, SemanticActions
    <3> QED BY <3>1, <3>2, <3>3
  <2>2. IsSeq(v[1]) /\ AreWords(v[3])
    BY <2>1 DEF Fits
  <2>3. AreWords(<<v[1]>> \o v[3])
    BY <2>2, WordInFront
  <2> QED BY <2>1, <2>3 DEF Fits
<1>10. CASE rule = 23
  <2>1. Lhs(rule) = 25 /\ Value(rule, v) = <<v[1]>>
    <3>1. Lhs(rule) = 25
      BY <1>10 DEF Lhs, Length, At, yyr1, yyr2
    <3>2. Value(rule, v) = <<v[1]>>
      BY <1>10, SemanticActions
    <3> QED BY <3>1, <3>2
  <2>2. IsSeq(<<v[1]>>)
    BY SeqOne
  <2> QED BY <2>1, <2>2 DEF Fits
<1>11. CASE rule = 24
  <2>1. Lhs(rule) = 25 /\ 2 \in 1..Length(rule) /\ RightHandSide[rule][2] = 25
        /\ Value(rule, v) = <<v[1]>> \o v[2]
    <3>1. Lhs(rule) = 25 /\ 2 \in 1..Length(rule)
      BY <1>11 DEF Lhs, Length, At, yyr1, yyr2
    <3>2. RightHandSide[rule][2] = 25
      BY <1>11, Sides
    <3>3. Value(rule, v) = <<v[1]>> \o v[2]
      BY <1>11, SemanticActions
    <3> QED BY <3>1, <3>2, <3>3
  <2>2. IsSeq(v[2])
    BY <2>1 DEF Fits
  <2>3. IsSeq(<<v[1]>> \o v[2])
    BY <2>2, SeqOne, SeqConcat
  <2> QED BY <2>1, <2>3 DEF Fits
<1>12. rule \in {2, 7, 8, 9, 10, 20, 21, 23, 24} \cup (3..6) \cup (11..19)
  OBVIOUS
<1> QED
  BY <1>1, <1>2, <1>3, <1>4, <1>5, <1>6, <1>7, <1>8, <1>9, <1>10, <1>11, <1>12
  DEF RedirectRules

(* The values on the stack, and the task list.                             *)
ValuesInv ==
  /\ \A k \in 1..Len(yyss) : Fits(Symbol(yyss[k]), yyvs[k])
  /\ \A k \in 1..Len(yyss) : Symbol(yyss[k]) = 20 => IsTaskList(tasks)
  /\ yyresult = 0 => IsTaskList(tasks)

LEMMA ValuesKept ==
  ASSUME ValuesInv, UNCHANGED <<yyss, yyvs, tasks, yyresult>>
  PROVE  ValuesInv'
  BY DEF ValuesInv

(* A stack that has been emptied.                                          *)
LEMMA ValuesReturn ==
  ASSUME NEW result, ReturnWith(result), result = 0 => IsTaskList(tasks'),
         tasks' = tasks
  PROVE  ValuesInv'
<1>1. Len(yyss') = 1 /\ yyss'[1] = 0
  BY DEF ReturnWith
<1>2. Symbol(0) = 0
  BY DEF Symbol, At, yystos
<1>3. yyresult' = result
  BY DEF ReturnWith
<1> QED BY <1>1, <1>2, <1>3 DEF ValuesInv, Fits

(* All but n entries popped, a state and a value pushed.                    *)
LEMMA Pushed ==
  ASSUME NEW stack, IsSeq(stack), NEW n \in 0..Len(stack), NEW x
  PROVE  LET new == Append(SubSeq(stack, 1, n), x)
         IN  /\ IsSeq(new) /\ Len(new) = n + 1 /\ new[n + 1] = x
             /\ \A k \in 1..n : new[k] = stack[k]
<1> DEFINE low == SubSeq(stack, 1, n)
           new == Append(low, x)
<1>1. PICK S : stack \in Seq(S)
  BY DEF IsSeq
<1>2. Len(stack) \in Nat /\ n \in Nat /\ n <= Len(stack)
  BY <1>1
<1>3. low \in Seq(S) /\ Len(low) = n /\ \A k \in 1..n : low[k] = stack[k]
  BY <1>1, <1>2
<1> HIDE DEF low
<1>4. /\ IsSeq(new) /\ Len(new) = n + 1 /\ new[n + 1] = x
      /\ \A k \in 1..n : new[k] = low[k]
  <2>1. IsSeq(low)
    BY <1>3 DEF IsSeq
  <2> QED BY <2>1, <1>3, SeqAppend
<1> HIDE DEF new
<1>5. \A k \in 1..n : new[k] = stack[k]
  BY <1>3, <1>4
<1> QED BY <1>4, <1>5 DEF new, low

LEMMA ValuesPush ==
  ASSUME StackInv, ValuesInv, NEW n \in 1..Len(yyss), NEW s, NEW value,
         yyss' = Append(SubSeq(yyss, 1, n), s),
         yyvs' = Append(SubSeq(yyvs, 1, n), value),
         Fits(Symbol(s), value),
         yyresult' = yyresult, yyresult # 0,
         IF Symbol(s) = 20 THEN IsTaskList(tasks') ELSE tasks' = tasks
  PROVE  ValuesInv'
<1>1. IsSeq(yyss) /\ IsSeq(yyvs) /\ Len(yyss) = Len(yyvs) /\ Len(yyss) \in Nat
  BY LegalTop DEF StackInv, Legal, IsSeq
<1>2. /\ Len(yyss') = n + 1 /\ yyss'[n + 1] = s
      /\ \A k \in 1..n : yyss'[k] = yyss[k]
  BY <1>1, Pushed
<1>3. /\ Len(yyvs') = n + 1 /\ yyvs'[n + 1] = value
      /\ \A k \in 1..n : yyvs'[k] = yyvs[k]
  BY <1>1, Pushed
<1>4. ASSUME NEW k \in 1..Len(yyss')
      PROVE  \/ k = n + 1
             \/ k \in 1..n /\ k \in 1..Len(yyss)
  BY <1>1, <1>2
<1>5. ASSUME NEW k \in 1..Len(yyss')
      PROVE  Fits(Symbol(yyss'[k]), yyvs'[k])
  <2>1. CASE k = n + 1
    BY <2>1, <1>2, <1>3
  <2>2. CASE k \in 1..n /\ k \in 1..Len(yyss)
    BY <2>2, <1>2, <1>3 DEF ValuesInv
  <2> QED BY <1>4, <2>1, <2>2
<1>6. ASSUME NEW k \in 1..Len(yyss'), Symbol(yyss'[k]) = 20
      PROVE  IsTaskList(tasks')
  <2>1. CASE Symbol(s) = 20
    BY <2>1
  <2>2. CASE Symbol(s) # 20
    <3>1. k \in 1..n /\ k \in 1..Len(yyss) /\ Symbol(yyss[k]) = 20
      BY <2>2, <1>2, <1>4, <1>6
    <3> QED BY <3>1, <2>2 DEF ValuesInv
  <2> QED BY <2>1, <2>2
<1> QED BY <1>5, <1>6 DEF ValuesInv

(* While it has not returned, there is no result.                          *)
NoResultYet == pat # "returned" => yyresult = -1

LEMMA NoResultKept == NoResultYet /\ [PNext]_pvars => NoResultYet'
<1> SUFFICES ASSUME NoResultYet, [PNext]_pvars PROVE NoResultYet'
  OBVIOUS
<1>1. CASE SetState \/ Accept \/ Grow \/ Exhausted
  BY <1>1 DEF SetState, Accept, Grow, Exhausted, ReturnWith, NoResultYet
<1>2. CASE Shift \/ Reduce \/ GlobTarget \/ SyntaxError \/ Abort
  BY <1>2 DEF Shift, Reduce, GlobTarget, SyntaxError, Abort, ReturnWith, NoResultYet, Ready
<1>3. CASE \E token, value : ReadToken(token, value)
  BY <1>3 DEF ReadToken, WantsToken, NoResultYet
<1>4. CASE UNCHANGED pvars
  BY <1>4 DEF pvars, NoResultYet
<1> QED BY <1>1, <1>2, <1>3, <1>4 DEF PNext, Step

LEMMA DefaultRules ==
  \A t \in ParseStates \ {YYFINAL} : At(yydefact, t) \in {0} \cup 2..24
  BY DEF ParseStates, At, yydefact, YYFINAL

(* The symbols and values on top of the stack, which a reduction pops.      *)
LEMMA TopValues ==
  ASSUME StackInv, Ready, Action[1] = "reduce", Action[2] # 22,
         NEW n, n = Len(yyss) - Length(Action[2])
  PROVE  /\ Action[2] \in 2..24
         /\ Length(Action[2]) \in 0..3 /\ n \in 1..Len(yyss)
         /\ Len(yyss) = n + Length(Action[2])
         /\ \A k \in 1..Length(Action[2]) :
              /\ n + k \in 1..Len(yyss)
              /\ Symbol(yyss[n + k]) = RightHandSide[Action[2]][k]
              /\ yyvs[n + k] = TopOf(yyvs, Action[2])[k]
<1> DEFINE r == Action[2]
           m == Length(r)
           high == Len(yyss)
<1>1. /\ yystate = yyss[high] /\ yystate # YYFINAL
      /\ r = At(yydefact, yystate) /\ r > 0 /\ Legal(yyss)
  BY RuleOfState DEF StackInv
<1>2. /\ m \in 0..3 /\ high > m /\ high \in Nat
      /\ \A k \in 1..m : Symbol(yyss[high - m + k]) = RightHandSide[r][k]
  <2>1. high \in Nat
    BY <1>1, LegalTop
  <2> HIDE DEF r
  <2>2. /\ m \in 0..3 /\ high > m
        /\ \A k \in 1..m : Symbol(yyss[high - m + k]) = RightHandSide[r][k]
    BY <1>1, Uncovers
  <2> QED BY <2>1, <2>2
<1>3. r \in 2..24
  <2>1. yystate \in ParseStates
    BY <1>1, <1>2, LegalTop
  <2>2. r \in {0} \cup 2..24
    BY <1>1, <2>1, DefaultRules
  <2> HIDE DEF r
  <2> QED BY <1>1, <2>2
<1>4. IsSeq(yyvs) /\ Len(yyvs) = high
  BY DEF StackInv, IsSeq
<1>5. TopOf(yyvs, r) = SubSeq(yyvs, high - m + 1, high)
  BY <1>4 DEF TopOf
<1>6. n = high - m
  OBVIOUS
<1> HIDE DEF high, m, r
<1>7. \A k \in 1..m : SubSeq(yyvs, high - m + 1, high)[k] = yyvs[high - m + k]
  <2>1. PICK S : yyvs \in Seq(S)
    BY <1>4 DEF IsSeq
  <2> QED BY <2>1, <1>2, <1>4
<1>8. ASSUME NEW k \in 1..m
      PROVE  /\ n + k \in 1..high /\ Symbol(yyss[n + k]) = RightHandSide[r][k]
             /\ yyvs[n + k] = TopOf(yyvs, r)[k]
  BY <1>2, <1>5, <1>6, <1>7
<1>9. n \in 1..high /\ high = n + m
  BY <1>2, <1>6
<1> QED BY <1>2, <1>3, <1>8, <1>9 DEF high, m, r

LEMMA TopFits ==
  ASSUME StackInv, ValuesInv, Ready, Action[1] = "reduce", Action[2] # 22
  PROVE  \A k \in 1..Length(Action[2]) :
           Fits(RightHandSide[Action[2]][k], TopOf(yyvs, Action[2])[k])
<1> DEFINE n == Len(yyss) - Length(Action[2])
<1>1. \A k \in 1..Length(Action[2]) :
        /\ n + k \in 1..Len(yyss)
        /\ Symbol(yyss[n + k]) = RightHandSide[Action[2]][k]
        /\ yyvs[n + k] = TopOf(yyvs, Action[2])[k]
  BY TopValues
<1> HIDE DEF n
<1>2. \A k \in 1..Length(Action[2]) : Fits(Symbol(yyss[n + k]), yyvs[n + k])
  BY <1>1 DEF ValuesInv
<1> QED BY <1>1, <1>2

LEMMA ReduceValues ==
  ASSUME StackInv, NoResultYet, ValuesInv, Reduce
  PROVE  ValuesInv'
<1> DEFINE rule == Action[2]
           n == Len(yyss) - Length(rule)
           s == GotoState(yyss[n], Lhs(rule))
           value == Value(rule, TopOf(yyvs, rule))
<1>1. /\ Ready /\ Action[1] = "reduce" /\ rule # 22 /\ n \in 1..Len(yyss)
      /\ Symbol(s) = Lhs(rule)
      /\ yyss' = Append(SubSeq(yyss, 1, n), s)
      /\ yyvs' = Append(SubSeq(yyvs, 1, n), value)
  BY ReducePushes DEF Follows
<1>2. rule \in 2..24 /\ Fits(Lhs(rule), value)
  <2>1. rule \in 2..24
    BY <1>1, TopValues
  <2>2. \A k \in 1..Length(rule) : Fits(RightHandSide[rule][k], TopOf(yyvs, rule)[k])
    BY <1>1, TopFits
  <2> HIDE DEF rule
  <2> QED BY <1>1, <2>1, <2>2, ValueFits
<1>3. tasks' = (IF rule \in 2..6 THEN value ELSE tasks) /\ yyresult' = yyresult
  BY DEF Reduce
<1>4. rule \in 2..6 <=> Lhs(rule) = 20
  <2> HIDE DEF rule
  <2> QED BY <1>2 DEF Lhs, At, yyr1
<1>5. IF Symbol(s) = 20 THEN IsTaskList(tasks') ELSE tasks' = tasks
  <2>1. CASE Lhs(rule) = 20
    BY <2>1, <1>1, <1>2, <1>3, <1>4 DEF Fits
  <2>2. CASE Lhs(rule) # 20
    BY <2>2, <1>1, <1>3, <1>4
  <2> QED BY <2>1, <2>2
<1>6. yyresult # 0
  BY <1>1 DEF Ready, NoResultYet
<1>7. Fits(Symbol(s), value)
  BY <1>1, <1>2
<1> HIDE DEF n, s, value, rule
<1> QED BY <1>1, <1>3, <1>5, <1>6, <1>7, ValuesPush

(* A token that is shifted is none of the symbols with a type.              *)
LEMMA TokensFit == \A x \in 0..18 : \A value : Fits(x, value)
  BY DEF Fits

LEMMA ValuesStep == StackInv /\ NoResultYet /\ ValuesInv /\ [PNext]_pvars => ValuesInv'
<1> SUFFICES ASSUME StackInv, NoResultYet, ValuesInv, [PNext]_pvars
             PROVE  ValuesInv'
  OBVIOUS
<1>1. CASE SetState
  BY <1>1, ValuesKept DEF SetState, stacks
<1>2. CASE Accept
  <2>1. IsTaskList(tasks)
    <3> DEFINE n == Len(yyss)
    <3>1. yyss[n] = 8 /\ Legal(yyss) /\ n \in Nat
      BY <1>2, LegalTop DEF Accept, yystate, Last, YYFINAL, StackInv
    <3>2. n > 1 /\ yyss[n - 1] \in Below(8)
      BY <3>1, LegalTop
    <3>3. Below(8) = {3} /\ Symbol(3) = 20
      BY DEF Below, At, predecessors, Symbol, yystos
    <3>4. n - 1 \in 1..n
      BY <3>1, <3>2
    <3> QED BY <3>2, <3>3, <3>4 DEF ValuesInv
  <2> QED BY <1>2, <2>1, ValuesReturn DEF Accept
<1>3. CASE Grow
  <2>1. CASE Full(GrownSize)
    BY <1>3, <2>1, ValuesReturn DEF Grow
  <2>2. CASE ~Full(GrownSize)
    BY <1>3, <2>2, ValuesKept DEF Grow
  <2> QED BY <2>1, <2>2
<1>4. CASE Exhausted
  BY <1>4, ValuesReturn DEF Exhausted
<1>5. CASE Shift
  <2>1. /\ Len(yyss) \in 1..Len(yyss) /\ yystate \in ParseStates
        /\ yyss \in Seq(ParseStates)
    BY LegalTop DEF StackInv, Legal, yystate, Last
  <2>2. /\ NeedsToken(yystate) /\ Entry(yystate, YYTRANSLATE(yychar)) > 0
        /\ Action[2] = Entry(yystate, YYTRANSLATE(yychar))
    BY <1>5 DEF Shift, Action, ParseAction, DefaultAction
  <2>3. Symbol(Action[2]) \in 0..18
    BY <2>1, <2>2, SymbolOfToken, ShiftEdge
  <2>4. SubSeq(yyss, 1, Len(yyss)) = yyss /\ SubSeq(yyvs, 1, Len(yyss)) = yyvs
    BY <2>1, WholePrefix DEF StackInv
  <2>5. /\ yyss' = Append(yyss, Action[2]) /\ yyvs' = Append(yyvs, lookahead)
        /\ tasks' = tasks /\ yyresult' = yyresult /\ yyresult # 0
    BY <1>5 DEF Shift, Ready, NoResultYet
  <2>6. Fits(Symbol(Action[2]), lookahead) /\ Symbol(Action[2]) # 20
    BY <2>3, TokensFit
  <2> QED BY <2>1, <2>4, <2>5, <2>6, ValuesPush
<1>6. CASE Reduce
  BY <1>6, ReduceValues
<1>7. CASE GlobTarget
  BY <1>7, ValuesKept DEF GlobTarget, stacks
<1>8. CASE SyntaxError
  <2>1. PICK top \in DOMAIN yyss :
          /\ ShiftsError(yyss[top])
          /\ yyss' = Append(SubSeq(yyss, 1, top), Entry(yyss[top], YYTERROR))
          /\ yyvs' = Append(SubSeq(yyvs, 1, top), lookahead)
    BY <1>8 DEF SyntaxError
  <2>2. top \in 1..Len(yyss) /\ yyss[top] \in ParseStates
    BY LenProperties, ElementOfSeq DEF StackInv, Legal
  <2>3. Symbol(Entry(yyss[top], YYTERROR)) = YYTERROR /\ YYTERROR \in 0..18
    <3>1. YYTERROR \in 0..18
      BY DEF YYTERROR
    <3> QED BY <2>1, <2>2, <3>1, ShiftEdge DEF ShiftsError
  <2>4. Fits(YYTERROR, lookahead) /\ YYTERROR # 20
    BY <2>3, TokensFit DEF YYTERROR
  <2>5. tasks' = tasks /\ yyresult' = yyresult /\ yyresult # 0
    BY <1>8 DEF SyntaxError, Ready, NoResultYet
  <2> QED BY <2>1, <2>2, <2>3, <2>4, <2>5, ValuesPush
<1>9. CASE Abort
  BY <1>9, ValuesReturn DEF Abort
<1>10. CASE \E token, value : ReadToken(token, value)
  BY <1>10, ValuesKept DEF ReadToken, stacks
<1>11. CASE UNCHANGED pvars
  BY <1>11, ValuesKept DEF pvars, stacks
<1> QED
  BY <1>1, <1>2, <1>3, <1>4, <1>5, <1>6, <1>7, <1>8, <1>9, <1>10, <1>11
  DEF PNext, Step

(* Whatever the tokens are, each value on the stack has the type of its     *)
(* symbol and the task list, once there is one, is one that _sf1_tasks_run  *)
(* can rely on.                                                            *)
THEOREM ValuesInvariant == PSpec => [](NoResultYet /\ ValuesInv)
<1>1. PInit => NoResultYet /\ ValuesInv
  <2> SUFFICES ASSUME PInit PROVE NoResultYet /\ ValuesInv
    OBVIOUS
  <2>1. yyss = <<0>> /\ yyresult = -1
    BY DEF PInit, ParserIdle
  <2>2. Len(yyss) = 1 /\ yyss[1] = 0 /\ Symbol(0) = 0
    BY <2>1 DEF Symbol, At, yystos
  <2> QED BY <2>1, <2>2 DEF NoResultYet, ValuesInv, Fits
<1> QED BY <1>1, ValuesStep, NoResultKept, StackInvariant, PTL DEF PSpec

(* What the parser accepts it has made a task list of as TaskRun assumes it *)
(* (parser.y, _sf1_create_redirect_pipe): both ends of a pipe, on           *)
(* neighbouring tasks, behind their own redirections; the reader always     *)
(* runs; only stdout and stderr are shared.                                *)
THEOREM AcceptedListsAreLines == PSpec => []BuildsLines
<1>1. ValuesInv => BuildsLines
  BY OutlineIsLine DEF ValuesInv, BuildsLines, Outline
<1> QED BY <1>1, ValuesInvariant, PTL

(***************************************************************************)
(* Sequences                                                               *)
(***************************************************************************)
LEMMA ConsFacts ==
  ASSUME NEW x, NEW s, IsSeq(s)
  PROVE  /\ IsSeq(Cons(x, s)) /\ Len(Cons(x, s)) = Len(s) + 1
         /\ Cons(x, s)[1] = x
         /\ \A k \in 2..(Len(s) + 1) : Cons(x, s)[k] = s[k - 1]
         /\ \A k \in 1..Len(s) : Cons(x, s)[k + 1] = s[k]
<1> DEFINE o == <<x>>
           c == o \o s
<1>0. Cons(x, s) = c
  BY DEF Cons
<1>1. IsSeq(o) /\ Len(o) = 1 /\ o[1] = x /\ Len(s) \in Nat
  BY SeqOne, SeqFacts
<1> HIDE DEF o
<1>2. /\ IsSeq(c) /\ Len(c) = 1 + Len(s)
      /\ \A k \in 1..(1 + Len(s)) : c[k] = IF k <= 1 THEN o[k] ELSE s[k - 1]
  BY <1>1, SeqConcat
<1> HIDE DEF c
<1>3. Len(c) = Len(s) + 1 /\ c[1] = x /\ \A k \in 2..(Len(s) + 1) : c[k] = s[k - 1]
  BY <1>1, <1>2
<1>4. \A k \in 1..Len(s) : k + 1 \in 2..(Len(s) + 1) /\ (k + 1) - 1 = k
  BY <1>1
<1> QED BY <1>0, <1>2, <1>3, <1>4

(* Two sequences of the same elements are equal.                           *)
LEMMA SameSeq ==
  ASSUME NEW s, NEW t, IsSeq(s), IsSeq(t), Len(s) = Len(t),
         \A k \in 1..Len(s) : s[k] = t[k]
  PROVE  s = t
<1>1. PICK S, T : s \in Seq(S) /\ t \in Seq(T)
  BY DEF IsSeq
<1>2. s \in Seq(S \cup T) /\ t \in Seq(S \cup T)
  BY <1>1
<1> QED BY <1>2, SeqEqual

(* A sequence is its head and its tail.                                    *)
LEMMA HeadAndTail ==
  ASSUME NEW s, IsSeq(s), Len(s) >= 1
  PROVE  /\ IsSeq(Tail(s)) /\ Len(Tail(s)) = Len(s) - 1 /\ Head(s) = s[1]
         /\ \A k \in 1..(Len(s) - 1) : Tail(s)[k] = s[k + 1]
         /\ s = Cons(Head(s), Tail(s))
<1> DEFINE h == Head(s)
           t == Tail(s)
           c == Cons(h, t)
<1>1. s # <<>> /\ Len(s) \in Nat
  BY SeqFacts, SeqNone
<1>2. /\ IsSeq(t) /\ Len(t) = Len(s) - 1 /\ h = s[1]
      /\ \A k \in 1..(Len(s) - 1) : t[k] = s[k + 1]
  BY <1>1, SeqTail
<1> HIDE DEF h, t
<1>3. /\ IsSeq(c) /\ Len(c) = Len(t) + 1 /\ c[1] = h
      /\ \A k \in 2..(Len(t) + 1) : c[k] = t[k - 1]
  BY <1>2, ConsFacts
<1> HIDE DEF c
<1>4. ASSUME NEW k \in 1..Len(s) PROVE s[k] = c[k]
  <2>1. CASE k = 1
    BY <2>1, <1>2, <1>3
  <2>2. CASE k # 1
    <3>1. k - 1 \in 1..(Len(s) - 1) /\ k \in 2..(Len(t) + 1) /\ (k - 1) + 1 = k
      BY <2>2, <1>1, <1>2
    <3> QED BY <3>1, <1>2, <1>3
  <2> QED BY <2>1, <2>2
<1>5. s = c
  <2>1. Len(s) = Len(c)
    BY <1>1, <1>2, <1>3
  <2> QED BY <2>1, <1>3, <1>4, <1>1, SameSeq
<1> QED BY <1>2, <1>5 DEF c, h, t

(* The head and the tail of what an element is put in front of.            *)
LEMMA ConsParts ==
  ASSUME NEW x, NEW s, IsSeq(s)
  PROVE  Head(Cons(x, s)) = x /\ Tail(Cons(x, s)) = s
<1> DEFINE c == Cons(x, s)
<1>1. /\ IsSeq(c) /\ Len(c) = Len(s) + 1 /\ c[1] = x
      /\ \A k \in 1..Len(s) : c[k + 1] = s[k]
  BY ConsFacts
<1> HIDE DEF c
<1>2. Len(s) \in Nat /\ Len(c) >= 1
  BY <1>1, SeqFacts
<1>3. /\ IsSeq(Tail(c)) /\ Len(Tail(c)) = Len(c) - 1 /\ Head(c) = c[1]
      /\ \A k \in 1..(Len(c) - 1) : Tail(c)[k] = c[k + 1]
  BY <1>1, <1>2, HeadAndTail
<1>4. Len(Tail(c)) = Len(s) /\ \A k \in 1..Len(s) : Tail(c)[k] = s[k]
  BY <1>1, <1>2, <1>3
<1>5. Tail(c) = s
  BY <1>3, <1>4, SameSeq
<1> QED BY <1>1, <1>3, <1>5 DEF c

(***************************************************************************)
(* Pieces                                                                  *)
(***************************************************************************)
(* One token in front of pieces.                                           *)
InFront(x, p, cuts) ==
  IF x.id \in cuts THEN Cons(<<>>, Cons(Cons(x, Head(p)), Tail(p)))
                   ELSE Cons(Cons(x, Head(p)), Tail(p))

(* Pieces: a first one, and further ones that a token in cuts begins.       *)
ArePieces(p, cuts) ==
  /\ IsSeq(p) /\ Len(p) >= 1
  /\ \A k \in 1..Len(p) : IsSeq(p[k])
  /\ \A j \in 1..Len(p[1]) : p[1][j].id \notin cuts
  /\ \A k \in 2..Len(p) :
       /\ Len(p[k]) >= 1 /\ p[k][1].id \in cuts
       /\ \A j \in 2..Len(p[k]) : p[k][j].id \notin cuts

(* A token put in front of pieces starts a piece if it cuts, and else      *)
(* lengthens the first one.                                                *)
LEMMA InFrontMakesPieces ==
  ASSUME NEW x, NEW r, NEW cuts, ArePieces(r, cuts)
  PROVE  /\ ArePieces(InFront(x, r, cuts), cuts)
         /\ IF x.id \in cuts
            THEN /\ Head(InFront(x, r, cuts)) = <<>>
                 /\ Tail(InFront(x, r, cuts)) = Cons(Cons(x, Head(r)), Tail(r))
            ELSE /\ Head(InFront(x, r, cuts)) = Cons(x, Head(r))
                 /\ Tail(InFront(x, r, cuts)) = Tail(r)
<1> DEFINE e == <<>>
           o == Head(r)
           t == Tail(r)
           h == Cons(x, o)
           p == Cons(h, t)
           q == Cons(e, p)
<1>1. /\ IsSeq(r) /\ Len(r) >= 1 /\ Len(r) \in Nat
      /\ \A k \in 1..Len(r) : IsSeq(r[k])
      /\ \A k \in 1..Len(r[1]) : r[1][k].id \notin cuts
      /\ \A k \in 2..Len(r) :
           /\ Len(r[k]) >= 1 /\ r[k][1].id \in cuts
           /\ \A j \in 2..Len(r[k]) : r[k][j].id \notin cuts
  BY SeqFacts DEF ArePieces
<1>2. /\ IsSeq(t) /\ Len(t) = Len(r) - 1 /\ o = r[1]
      /\ \A k \in 1..(Len(r) - 1) : t[k] = r[k + 1]
  BY <1>1, HeadAndTail
<1> HIDE DEF o, t, e
<1>3. IsSeq(o) /\ Len(o) \in Nat
  <2>1. 1 \in 1..Len(r)
    BY <1>1
  <2> QED BY <2>1, <1>1, <1>2, SeqFacts
<1>4. /\ IsSeq(h) /\ Len(h) = Len(o) + 1 /\ h[1] = x
      /\ \A k \in 2..(Len(o) + 1) : h[k] = o[k - 1]
  BY <1>3, ConsFacts
<1> HIDE DEF h
<1>5. /\ IsSeq(p) /\ Len(p) = Len(t) + 1 /\ p[1] = h
      /\ \A k \in 2..(Len(t) + 1) : p[k] = t[k - 1]
      /\ Head(p) = h /\ Tail(p) = t
  BY <1>2, ConsFacts, ConsParts
<1> HIDE DEF p
<1>6. /\ IsSeq(q) /\ Len(q) = Len(p) + 1 /\ q[1] = e
      /\ \A k \in 2..(Len(p) + 1) : q[k] = p[k - 1]
      /\ Head(q) = e /\ Tail(q) = p
  BY <1>5, ConsFacts, ConsParts
<1> HIDE DEF q
<1>7. InFront(x, r, cuts) = IF x.id \in cuts THEN q ELSE p
  BY DEF InFront, h, p, q, e, o, t
<1>8. Len(p) = Len(r) /\ \A k \in 2..Len(r) : p[k] = r[k]
  <2>1. Len(p) = Len(r)
    BY <1>1, <1>2, <1>5
  <2>2. ASSUME NEW k \in 2..Len(r) PROVE p[k] = r[k]
    <3>1. k \in 2..(Len(t) + 1) /\ k - 1 \in 1..(Len(r) - 1) /\ (k - 1) + 1 = k
      BY <1>1, <1>2
    <3> QED BY <3>1, <1>2, <1>5
  <2> QED BY <2>1, <2>2
<1>9. \A j \in 2..Len(h) : h[j].id \notin cuts
  <2> SUFFICES ASSUME NEW j \in 2..Len(h) PROVE h[j].id \notin cuts
    OBVIOUS
  <2>1. j \in 2..(Len(o) + 1) /\ j - 1 \in 1..Len(o)
    BY <1>3, <1>4
  <2> QED BY <2>1, <1>1, <1>2, <1>4
<1>10. CASE x.id \notin cuts
  <2>1. \A k \in 1..Len(h) : h[k].id \notin cuts
    BY <1>10, <1>3, <1>4, <1>9
  <2>2. \A k \in 1..Len(p) : IsSeq(p[k])
    BY <1>1, <1>4, <1>5, <1>8
  <2>3. ArePieces(p, cuts)
    BY <2>1, <2>2, <1>1, <1>5, <1>8 DEF ArePieces
  <2> QED BY <2>3, <1>5, <1>7, <1>10 DEF h, o, t
<1>11. CASE x.id \in cuts
  <2>1. ASSUME NEW k \in 2..Len(q)
        PROVE  /\ IsSeq(q[k]) /\ Len(q[k]) >= 1 /\ q[k][1].id \in cuts
               /\ \A j \in 2..Len(q[k]) : q[k][j].id \notin cuts
    <3>1. q[k] = p[k - 1] /\ k - 1 \in 1..Len(p)
      BY <1>1, <1>6, <1>8
    <3>2. CASE k - 1 = 1
      BY <3>1, <3>2, <1>3, <1>4, <1>5, <1>9, <1>11
    <3>3. CASE k - 1 # 1
      <4>1. k - 1 \in 2..Len(r) /\ k - 1 \in 1..Len(r) /\ p[k - 1] = r[k - 1]
        BY <3>1, <3>3, <1>1, <1>8
      <4> QED BY <3>1, <4>1, <1>1
    <3> QED BY <3>2, <3>3
  <2>2. IsSeq(q[1]) /\ Len(q[1]) = 0
    BY <1>6, SeqNone DEF e
  <2>3. Len(q) \in Nat /\ Len(q) >= 1 /\ \A k \in 1..Len(q) : k = 1 \/ k \in 2..Len(q)
    BY <1>1, <1>6, <1>8
  <2>4. ArePieces(q, cuts)
    BY <2>1, <2>2, <2>3, <1>6 DEF ArePieces
  <2> QED BY <2>4, <1>6, <1>7, <1>11 DEF h, p, o, t, e
<1> QED BY <1>10, <1>11

(***************************************************************************)
(* Cutting a sequence at some tokens                                       *)
(***************************************************************************)
Nothing == << <<>> >>

(* f[n] are the pieces of the last n elements of s.                         *)
CutsUp(f, s, cuts) ==
  f = [n \in 0..Len(s) |-> IF n = 0 THEN Nothing ELSE InFront(s[Len(s) + 1 - n], f[n - 1], cuts)]

(* The empty first piece alone is a sequence of pieces.                    *)
LEMMA NothingIsPieces == \A cuts : ArePieces(Nothing, cuts)
<1>1. \A e : IsSeq(e) /\ Len(e) = 0 => \A cuts : ArePieces(<<e>>, cuts)
  BY SeqOne DEF ArePieces
<1>2. IsSeq(<<>>) /\ Len(<<>>) = 0
  BY SeqNone
<1> QED BY <1>1, <1>2, Zenon DEF Nothing

(* The sequences that InFront stays within.                                *)
LEMMA InFrontStays ==
  ASSUME NEW S, NEW x \in S, NEW p \in Seq(Seq(S)), p # <<>>, NEW cuts
  PROVE  InFront(x, p, cuts) \in Seq(Seq(S)) \ {<<>>}
<1> DEFINE o == Head(p)
           t == Tail(p)
           h == Cons(x, o)
           c == Cons(h, t)
           d == Cons(<<>>, c)
<1>1. o \in Seq(S) /\ t \in Seq(Seq(S))
  OBVIOUS
<1> HIDE DEF o, t
<1>2. \A T : \A y \in T, s \in Seq(T) : Cons(y, s) \in Seq(T) /\ Cons(y, s) # <<>>
  <2> SUFFICES ASSUME NEW T, NEW y \in T, NEW s \in Seq(T)
               PROVE  Cons(y, s) \in Seq(T) /\ Cons(y, s) # <<>>
    OBVIOUS
  <2>1. Cons(y, s) \in Seq(T)
    BY DEF Cons
  <2>2. Len(Cons(y, s)) = Len(s) + 1 /\ Len(s) \in Nat /\ Len(<<>>) = 0
    BY ConsFacts, SeqFacts, SeqNone DEF IsSeq
  <2> QED BY <2>1, <2>2
<1>3. h \in Seq(S)
  BY <1>1, <1>2
<1> HIDE DEF h
<1>4. c \in Seq(Seq(S)) /\ c # <<>>
  BY <1>1, <1>2, <1>3
<1> HIDE DEF c
<1>5. <<>> \in Seq(S)
  OBVIOUS
<1>6. d \in Seq(Seq(S)) /\ d # <<>>
  BY <1>2, <1>4, <1>5
<1> HIDE DEF d
<1>7. InFront(x, p, cuts) = IF x.id \in cuts THEN d ELSE c
  BY DEF InFront, d, c, h, o, t
<1> QED BY <1>4, <1>6, <1>7

(* There is a function that cuts a sequence up, suffix by suffix.          *)
LEMMA CutsExist ==
  ASSUME NEW s, IsSeq(s), NEW cuts
  PROVE  \E f : CutsUp(f, s, cuts)
<1>0. PICK S : s \in Seq(S)
  BY DEF IsSeq
<1> DEFINE m == Len(s)
           V == Seq(Seq(S)) \ {<<>>}
           step == [x \in (1..m) \X V |-> InFront(s[m + 1 - x[1]], x[2], cuts)]
<1>1. m \in Nat /\ \A n \in 1..m : m + 1 - n \in 1..m /\ s[m + 1 - n] \in S
  <2>1. m \in Nat /\ \A n \in 1..m : s[n] \in S
    BY <1>0
  <2>2. \A n \in 1..m : m + 1 - n \in 1..m
    BY <2>1
  <2> HIDE DEF m
  <2> QED BY <2>1, <2>2
<1> HIDE DEF m
<1>2. ASSUME NEW n \in 1..m, NEW p \in V PROVE InFront(s[m + 1 - n], p, cuts) \in V
  BY <1>1, InFrontStays
<1>3. step \in [(1..m) \X V -> V]
  <2> HIDE DEF V
  <2>1. \A x \in (1..m) \X V : InFront(s[m + 1 - x[1]], x[2], cuts) \in V
    BY <1>2
  <2> QED BY <2>1
<1>4. Nothing \in V
  <2>1. <<>> \in Seq(S)
    OBVIOUS
  <2>2. \A e \in Seq(S) : <<e>> \in Seq(Seq(S)) /\ Len(<<e>>) = 1
    BY SeqOne
  <2>3. Nothing \in Seq(Seq(S)) /\ Len(Nothing) = 1
    BY <2>1, <2>2, Zenon DEF Nothing
  <2> QED BY <2>3, SeqNone
<1>5. PICK f : Recurses(f, V, Nothing, m, step)
  <2> HIDE DEF step, V
  <2> QED BY <1>1, <1>3, <1>4, RecursionExists
<1>6. f \in [0..m -> V] /\ f[0] = Nothing /\ \A n \in 1..m : f[n] = step[<<n, f[n - 1]>>]
  BY <1>5 DEF Recurses
<1>7. ASSUME NEW n \in 1..m PROVE f[n] = InFront(s[m + 1 - n], f[n - 1], cuts)
  <2> HIDE DEF V
  <2>1. n - 1 \in 0..m
    BY <1>1
  <2>2. f[n - 1] \in V
    BY <1>6, <2>1
  <2>3. <<n, f[n - 1]>> \in (1..m) \X V
    BY <2>2
  <2>4. \A p \in V : step[<<n, p>>] = InFront(s[m + 1 - n], p, cuts)
    OBVIOUS
  <2> HIDE DEF step
  <2> QED BY <1>6, <2>2, <2>4
<1> DEFINE G(n) == IF n = 0 THEN Nothing ELSE InFront(s[m + 1 - n], f[n - 1], cuts)
<1>8. \A n \in 0..m : f[n] = G(n)
  <2> SUFFICES ASSUME NEW n \in 0..m PROVE f[n] = G(n)
    OBVIOUS
  <2>1. n = 0 \/ n \in 1..m
    BY <1>1
  <2> HIDE DEF V, step
  <2> QED BY <1>6, <1>7, <2>1
<1>9. f = [n \in 0..m |-> G(n)]
  <2> HIDE DEF G, V, step
  <2> QED BY <1>6, <1>8
<1> QED BY <1>9 DEF CutsUp, m

(* Two such functions are the same.                                        *)
LEMMA CutsAre ==
  ASSUME NEW s, IsSeq(s), NEW cuts, NEW f, CutsUp(f, s, cuts)
  PROVE  /\ f[0] = Nothing
         /\ \A n \in 1..Len(s) : f[n] = InFront(s[Len(s) + 1 - n], f[n - 1], cuts)
         /\ \A n \in 0..Len(s) : ArePieces(f[n], cuts)
<1> DEFINE m == Len(s)
           G(n) == IF n = 0 THEN Nothing ELSE InFront(s[m + 1 - n], f[n - 1], cuts)
<1>1. m \in Nat
  BY SeqFacts
<1>2. f = [n \in 0..m |-> G(n)]
  BY DEF CutsUp
<1> HIDE DEF m
<1>3. ASSUME NEW n \in 0..m PROVE f[n] = G(n)
  <2> HIDE DEF G
  <2> QED BY <1>2
<1>4. f[0] = Nothing /\ \A n \in 1..m : f[n] = InFront(s[m + 1 - n], f[n - 1], cuts)
  <2>1. 0 \in 0..m /\ \A n \in 1..m : n \in 0..m /\ n # 0
    BY <1>1
  <2> QED BY <1>3, <2>1
<1> DEFINE T == {n \in 0..m : ArePieces(f[n], cuts)}
<1>5. 0 \in T
  BY <1>1, <1>4, NothingIsPieces
<1>6. ASSUME NEW n \in 0..(m - 1), n \in T PROVE n + 1 \in T
  <2>1. n + 1 \in 1..m /\ n + 1 \in 0..m /\ (n + 1) - 1 = n
    BY <1>1
  <2>2. f[n + 1] = InFront(s[m + 1 - (n + 1)], f[n], cuts)
    <3>1. f[n + 1] = InFront(s[m + 1 - (n + 1)], f[(n + 1) - 1], cuts)
      BY <1>4, <2>1
    <3> QED BY <2>1, <3>1
  <2>3. ArePieces(f[n + 1], cuts)
    BY <1>6, <2>2, InFrontMakesPieces
  <2> QED BY <2>1, <2>3
<1>7. \A n \in 0..m : n \in T
  <2> HIDE DEF T
  <2> QED BY <1>1, <1>5, <1>6, BoundedInduction
<1> QED BY <1>4, <1>7 DEF m

(* Pieces takes the last value of such a function.                         *)
LEMMA PiecesIs ==
  ASSUME NEW s, IsSeq(s), NEW cuts
  PROVE  \E f : CutsUp(f, s, cuts) /\ Pieces(s, cuts) = f[Len(s)]
<1> DEFINE f == CHOOSE f_ : CutsUp(f_, s, cuts)
<1>1. CutsUp(f, s, cuts)
  BY CutsExist
<1>2. Pieces(s, cuts) = f[Len(s)]
  BY DEF Pieces, CutsUp, InFront, Nothing
<1> HIDE DEF f
<1> QED BY <1>1, <1>2

(* The pieces of a sequence with one more token in front.                  *)
LEMMA PiecesCons ==
  ASSUME NEW s, IsSeq(s), NEW x, NEW cuts
  PROVE  Pieces(Cons(x, s), cuts) = InFront(x, Pieces(s, cuts), cuts)
<1> DEFINE c == Cons(x, s)
           m == Len(s)
<1>1. /\ IsSeq(c) /\ Len(c) = m + 1 /\ c[1] = x /\ m \in Nat
      /\ \A k \in 1..m : c[k + 1] = s[k]
  BY ConsFacts, SeqFacts
<1>2. PICK f : CutsUp(f, s, cuts) /\ Pieces(s, cuts) = f[m]
  BY PiecesIs
<1>3. PICK g : CutsUp(g, c, cuts) /\ Pieces(c, cuts) = g[m + 1]
  <2> HIDE DEF c
  <2> QED BY <1>1, PiecesIs
<1>4. f[0] = Nothing /\ \A n \in 1..m : f[n] = InFront(s[m + 1 - n], f[n - 1], cuts)
  BY <1>2, CutsAre
<1> HIDE DEF c
<1>5. g[0] = Nothing /\ \A n \in 1..(m + 1) : g[n] = InFront(c[(m + 1) + 1 - n], g[n - 1], cuts)
  <2>1. g[0] = Nothing /\ \A n \in 1..Len(c) : g[n] = InFront(c[Len(c) + 1 - n], g[n - 1], cuts)
    BY <1>1, <1>3, CutsAre
  <2> QED BY <2>1, <1>1
<1> HIDE DEF m
<1> DEFINE T == {n \in 0..m : f[n] = g[n]}
<1>6. 0 \in T
  BY <1>1, <1>4, <1>5
<1>7. ASSUME NEW n \in 0..(m - 1), n \in T PROVE n + 1 \in T
  <2> DEFINE p == n + 1
             q == m + 1 - p
  <2>1. /\ p \in 1..m /\ p \in 1..(m + 1) /\ p \in 0..m /\ p - 1 = n
        /\ q \in 1..m /\ (m + 1) + 1 - p = q + 1
    BY <1>1
  <2>2. f[p] = InFront(s[q], f[n], cuts)
    BY <1>4, <2>1
  <2> HIDE DEF p, q
  <2>3. g[p] = InFront(c[q + 1], g[n], cuts)
    <3>1. g[p] = InFront(c[(m + 1) + 1 - p], g[p - 1], cuts)
      BY <1>5, <2>1
    <3> QED BY <2>1, <3>1
  <2>4. c[q + 1] = s[q]
    BY <1>1, <2>1
  <2> QED BY <2>1, <2>2, <2>3, <2>4, <1>7 DEF p
<1>8. \A n \in 0..m : n \in T
  <2> HIDE DEF T
  <2> QED BY <1>1, <1>6, <1>7, BoundedInduction
<1>9. f[m] = g[m] /\ m + 1 \in 1..(m + 1) /\ (m + 1) + 1 - (m + 1) = 1 /\ (m + 1) - 1 = m
  BY <1>1, <1>8
<1>10. g[m + 1] = InFront(c[1], g[m], cuts)
  BY <1>5, <1>9
<1> QED BY <1>1, <1>2, <1>3, <1>9, <1>10 DEF c

(* Nothing is cut into one empty piece.                                    *)
LEMMA PiecesNone ==
  ASSUME NEW cuts
  PROVE  Pieces(<<>>, cuts) = Nothing
<1> DEFINE e == <<>>
<1>1. IsSeq(e) /\ Len(e) = 0
  BY SeqNone
<1> HIDE DEF e
<1>2. PICK f : CutsUp(f, e, cuts) /\ Pieces(e, cuts) = f[0]
  <2>1. \E f : CutsUp(f, e, cuts) /\ Pieces(e, cuts) = f[Len(e)]
    BY <1>1, PiecesIs
  <2> QED BY <1>1, <2>1
<1>3. f[0] = Nothing
  BY <1>1, <1>2, CutsAre
<1> QED BY <1>2, <1>3 DEF e

(* Every piece but the first begins with a token that cuts.                *)
LEMMA PiecesArePieces ==
  ASSUME NEW s, IsSeq(s), NEW cuts
  PROVE  ArePieces(Pieces(s, cuts), cuts)
<1>1. PICK f : CutsUp(f, s, cuts) /\ Pieces(s, cuts) = f[Len(s)]
  BY PiecesIs
<1>2. Len(s) \in 0..Len(s)
  BY SeqFacts
<1> QED BY <1>1, <1>2, CutsAre

(***************************************************************************)
(* The symbols of a sentence, and what lies between its cuts               *)
(***************************************************************************)
(* The elements of a sequence with an element put in front.                *)
LEMMA RangeCons ==
  ASSUME NEW x, NEW s, IsSeq(s)
  PROVE  Range(Cons(x, s)) = {x} \cup Range(s)
<1> DEFINE c == Cons(x, s)
<1>1. /\ IsSeq(c) /\ Len(c) = Len(s) + 1 /\ c[1] = x /\ Len(s) \in Nat
      /\ \A k \in 2..(Len(s) + 1) : c[k] = s[k - 1]
      /\ \A k \in 1..Len(s) : c[k + 1] = s[k]
  BY ConsFacts, SeqFacts
<1> HIDE DEF c
<1>2. DOMAIN c = 1..(Len(s) + 1) /\ DOMAIN s = 1..Len(s)
  BY <1>1, SeqFacts
<1>3. ASSUME NEW y \in Range(c) PROVE y \in {x} \cup Range(s)
  <2>1. PICK k \in 1..(Len(s) + 1) : y = c[k]
    BY <1>2 DEF Range
  <2>2. CASE k = 1
    BY <2>1, <2>2, <1>1
  <2>3. CASE k # 1
    <3>1. k \in 2..(Len(s) + 1) /\ k - 1 \in 1..Len(s)
      BY <1>1, <2>3
    <3>2. y = s[k - 1]
      BY <1>1, <2>1, <3>1
    <3> QED BY <1>2, <3>1, <3>2 DEF Range
  <2> QED BY <2>2, <2>3
<1>4. ASSUME NEW y \in {x} \cup Range(s) PROVE y \in Range(c)
  <2>1. CASE y = x
    <3>1. 1 \in 1..(Len(s) + 1)
      BY <1>1
    <3> QED BY <2>1, <3>1, <1>1, <1>2 DEF Range
  <2>2. CASE y \in Range(s)
    <3>1. PICK k \in 1..Len(s) : y = s[k]
      BY <2>2, <1>2 DEF Range
    <3>2. k + 1 \in 1..(Len(s) + 1) /\ y = c[k + 1]
      BY <1>1, <3>1
    <3> QED BY <3>2, <1>2 DEF Range
  <2> QED BY <2>1, <2>2
<1> QED BY <1>3, <1>4 DEF c

(* The empty sequence has no elements.                                     *)
LEMMA RangeNone == Range(<<>>) = {}
  BY SeqNone, SeqFacts DEF Range

(* The elements of a sequence are its head and those of its tail.          *)
LEMMA RangeParts ==
  ASSUME NEW s, IsSeq(s), Len(s) >= 1
  PROVE  Range(s) = {Head(s)} \cup Range(Tail(s))
<1> DEFINE h == Head(s)
           t == Tail(s)
<1>1. IsSeq(t) /\ s = Cons(h, t)
  BY HeadAndTail
<1> HIDE DEF h, t
<1>2. Range(Cons(h, t)) = {h} \cup Range(t)
  BY <1>1, RangeCons
<1> QED BY <1>1, <1>2 DEF h, t

(* An element of a sequence is at one of its places.                       *)
LEMMA RangeIs ==
  ASSUME NEW s, IsSeq(s)
  PROVE  Range(s) = {s[k] : k \in 1..Len(s)}
  BY SeqFacts DEF Range

(***************************************************************************)
(* What lies between, and what cuts                                        *)
(***************************************************************************)
LEMMA BetweenFacts ==
  ASSUME NEW s, IsSeq(s), NEW cuts
  PROVE  LET b == Between(s, cuts)
             p == Pieces(s, cuts)
         IN  /\ IsSeq(b) /\ Len(b) = Len(p) /\ Len(b) >= 1
             /\ b[1] = p[1]
             /\ \A k \in 2..Len(p) : b[k] = Tail(p[k])
             /\ \A k \in 1..Len(b) : IsSeq(b[k])
             /\ Head(b) = Head(p)
<1> DEFINE p == Pieces(s, cuts)
           b == [k \in 1..Len(p) |-> IF k = 1 THEN p[k] ELSE Tail(p[k])]
<1>1. ArePieces(p, cuts)
  BY PiecesArePieces
<1>2. /\ IsSeq(p) /\ Len(p) >= 1 /\ Len(p) \in Nat
      /\ \A k \in 1..Len(p) : IsSeq(p[k])
      /\ \A k \in 2..Len(p) : Len(p[k]) >= 1
  <2> HIDE DEF p
  <2> QED BY <1>1, SeqFacts DEF ArePieces
<1>3. Between(s, cuts) = b
  <2>1. DOMAIN p = 1..Len(p)
    BY <1>2, SeqFacts
  <2> QED BY <2>1 DEF Between
<1> HIDE DEF p
<1>4. \A k \in 1..Len(p) : b[k] = IF k = 1 THEN p[k] ELSE Tail(p[k])
  OBVIOUS
<1>5. IsSeq(b) /\ Len(b) = Len(p)
  <2>1. b \in Seq({b[k] : k \in 1..Len(p)}) /\ Len(b) = Len(p)
    BY <1>2
  <2> QED BY <2>1 DEF IsSeq
<1> HIDE DEF b
<1>6. b[1] = p[1] /\ \A k \in 2..Len(p) : b[k] = Tail(p[k])
  <2>1. 1 \in 1..Len(p) /\ \A k \in 2..Len(p) : k \in 1..Len(p) /\ k # 1
    BY <1>2
  <2> QED BY <2>1, <1>4
<1>7. ASSUME NEW k \in 1..Len(b) PROVE IsSeq(b[k])
  <2>1. CASE k = 1
    BY <2>1, <1>2, <1>5, <1>6
  <2>2. CASE k # 1
    <3>1. k \in 2..Len(p) /\ k \in 1..Len(p)
      BY <2>2, <1>2, <1>5
    <3>2. IsSeq(Tail(p[k]))
      BY <3>1, <1>2, HeadAndTail
    <3> QED BY <3>1, <3>2, <1>6
  <2> QED BY <2>1, <2>2
<1>8. Head(b) = Head(p)
  BY <1>2, <1>5, <1>6, HeadAndTail
<1> QED BY <1>2, <1>3, <1>5, <1>6, <1>7, <1>8 DEF p

(* There is one empty part between the cuts of nothing.                    *)
LEMMA BetweenNone ==
  ASSUME NEW cuts
  PROVE  Between(<<>>, cuts) = Nothing
<1> DEFINE b == Between(<<>>, cuts)
           e == <<>>
<1>1. IsSeq(e) /\ Pieces(e, cuts) = Nothing
  BY SeqNone, PiecesNone
<1>2. IsSeq(Nothing) /\ Len(Nothing) = 1
  BY SeqOne DEF Nothing
<1> HIDE DEF e
<1>3. IsSeq(b) /\ Len(b) = 1 /\ b[1] = Nothing[1]
  BY <1>1, <1>2, BetweenFacts DEF e
<1> HIDE DEF b
<1> QED BY <1>2, <1>3, SameSeq DEF b

(* A sequence with one more token in front.                                *)
LEMMA BetweenCut ==
  ASSUME NEW s, IsSeq(s), NEW cuts, NEW x, x.id \in cuts
  PROVE  Between(Cons(x, s), cuts) = Cons(<<>>, Between(s, cuts))
<1> DEFINE r == Pieces(s, cuts)
           a == Between(s, cuts)
           c == Cons(x, s)
           p == Pieces(c, cuts)
           b == Between(c, cuts)
           o == Head(r)
           t == Tail(r)
           h == Cons(x, o)
           i == Cons(h, t)
           e == <<>>
           d == Cons(e, a)
<1>1. /\ IsSeq(a) /\ Len(a) = Len(r) /\ Len(a) >= 1 /\ Len(r) \in Nat
      /\ a[1] = r[1]
      /\ \A k \in 2..Len(r) : a[k] = Tail(r[k])
  BY BetweenFacts, SeqFacts
<1>2. IsSeq(c)
  BY ConsFacts
<1> HIDE DEF c
<1>3. /\ IsSeq(b) /\ Len(b) = Len(p) /\ b[1] = p[1]
      /\ \A k \in 2..Len(p) : b[k] = Tail(p[k])
  BY <1>2, BetweenFacts
<1> HIDE DEF a, b
<1>4. ArePieces(r, cuts)
  BY PiecesArePieces
<1>5. p = InFront(x, r, cuts)
  BY PiecesCons DEF c
<1> HIDE DEF p, r
<1>6. /\ IsSeq(t) /\ Len(t) = Len(r) - 1 /\ o = r[1] /\ IsSeq(o)
      /\ \A k \in 1..(Len(r) - 1) : t[k] = r[k + 1]
  <2>1. IsSeq(r) /\ Len(r) >= 1 /\ IsSeq(r[1])
    BY <1>4 DEF ArePieces
  <2> QED BY <2>1, HeadAndTail
<1>7. p = Cons(e, i)
  BY <1>5 DEF InFront
<1> HIDE DEF o, t, e
<1>8. Tail(h) = o
  BY <1>6, ConsParts
<1> HIDE DEF h
<1>9. /\ IsSeq(i) /\ Len(i) = Len(t) + 1 /\ i[1] = h
      /\ \A k \in 2..(Len(t) + 1) : i[k] = t[k - 1]
  BY <1>6, ConsFacts
<1> HIDE DEF i
<1>10. /\ Len(p) = Len(i) + 1 /\ p[1] = e
       /\ \A k \in 2..(Len(i) + 1) : p[k] = i[k - 1]
  BY <1>7, <1>9, ConsFacts
<1>11. /\ IsSeq(d) /\ Len(d) = Len(a) + 1 /\ d[1] = e
       /\ \A k \in 2..(Len(a) + 1) : d[k] = a[k - 1]
  BY <1>1, ConsFacts
<1> HIDE DEF d
<1>12. Len(i) = Len(r) /\ Len(b) = Len(r) + 1 /\ Len(d) = Len(r) + 1
  BY <1>1, <1>3, <1>6, <1>9, <1>10, <1>11
<1>13. ASSUME NEW k \in 1..Len(b) PROVE b[k] = d[k]
  <2>1. CASE k = 1
    BY <2>1, <1>3, <1>10, <1>11
  <2>2. CASE k = 2
    <3>1. 2 \in 2..Len(p) /\ 2 \in 2..(Len(i) + 1) /\ 2 \in 2..(Len(a) + 1) /\ 2 - 1 = 1
      BY <1>1, <1>3, <1>12
    <3>2. b[2] = Tail(p[2]) /\ p[2] = i[1] /\ d[2] = a[1]
      BY <3>1, <1>3, <1>10, <1>11
    <3> QED BY <2>2, <3>2, <1>1, <1>6, <1>8, <1>9
  <2>3. CASE k > 2
    <3> DEFINE j == k - 1
               n == j - 1
    <3>1. /\ k \in 2..Len(p) /\ k \in 2..(Len(i) + 1) /\ k \in 2..(Len(a) + 1)
          /\ j \in 2..(Len(t) + 1) /\ j \in 2..Len(r)
          /\ n \in 1..(Len(r) - 1) /\ n + 1 = j
      BY <1>1, <1>3, <1>6, <1>12, <2>3
    <3>2. b[k] = Tail(p[k]) /\ p[k] = i[j] /\ i[j] = t[n] /\ t[n] = r[n + 1]
      BY <3>1, <1>3, <1>6, <1>9, <1>10
    <3>3. d[k] = a[j] /\ a[j] = Tail(r[j])
      BY <3>1, <1>1, <1>11
    <3> QED BY <3>1, <3>2, <3>3
  <2> QED BY <1>1, <1>12, <2>1, <2>2, <2>3
<1>14. b = d
  <2>1. Len(b) = Len(d)
    BY <1>12
  <2> QED BY <2>1, <1>3, <1>11, <1>13, SameSeq
<1> QED BY <1>14 DEF b, d, a, c, e

(* A token that does not cut lengthens the first part between cuts.        *)
LEMMA BetweenOn ==
  ASSUME NEW s, IsSeq(s), NEW cuts, NEW x, x.id \notin cuts
  PROVE  Between(Cons(x, s), cuts)
           = Cons(Cons(x, Head(Between(s, cuts))), Tail(Between(s, cuts)))
<1> DEFINE r == Pieces(s, cuts)
           a == Between(s, cuts)
           c == Cons(x, s)
           p == Pieces(c, cuts)
           b == Between(c, cuts)
           o == Head(r)
           t == Tail(r)
           h == Cons(x, o)
           u == Tail(a)
           d == Cons(h, u)
<1>1. /\ IsSeq(a) /\ Len(a) = Len(r) /\ Len(a) >= 1 /\ Len(r) \in Nat
      /\ \A k \in 2..Len(r) : a[k] = Tail(r[k])
      /\ Head(a) = o
  BY BetweenFacts, SeqFacts
<1>2. IsSeq(c)
  BY ConsFacts
<1> HIDE DEF c
<1>3. /\ IsSeq(b) /\ Len(b) = Len(p) /\ b[1] = p[1]
      /\ \A k \in 2..Len(p) : b[k] = Tail(p[k])
  BY <1>2, BetweenFacts
<1> HIDE DEF a, b
<1>4. ArePieces(r, cuts)
  BY PiecesArePieces
<1>5. p = InFront(x, r, cuts)
  BY PiecesCons DEF c
<1> HIDE DEF p, r
<1>6. /\ IsSeq(t) /\ Len(t) = Len(r) - 1 /\ o = r[1] /\ IsSeq(o)
      /\ \A k \in 1..(Len(r) - 1) : t[k] = r[k + 1]
  <2>1. IsSeq(r) /\ Len(r) >= 1 /\ IsSeq(r[1])
    BY <1>4 DEF ArePieces
  <2> QED BY <2>1, HeadAndTail
<1>7. p = Cons(h, t)
  BY <1>5 DEF InFront
<1>8. /\ IsSeq(u) /\ Len(u) = Len(a) - 1
      /\ \A k \in 1..(Len(a) - 1) : u[k] = a[k + 1]
  BY <1>1, HeadAndTail
<1> HIDE DEF t, h, u
<1>9. /\ Len(p) = Len(t) + 1 /\ p[1] = h
      /\ \A k \in 2..(Len(t) + 1) : p[k] = t[k - 1]
  BY <1>6, <1>7, ConsFacts
<1>10. /\ IsSeq(d) /\ Len(d) = Len(u) + 1 /\ d[1] = h
       /\ \A k \in 2..(Len(u) + 1) : d[k] = u[k - 1]
  BY <1>8, ConsFacts
<1> HIDE DEF d
<1>11. Len(b) = Len(r) /\ Len(d) = Len(r)
  BY <1>1, <1>3, <1>6, <1>8, <1>9, <1>10
<1>12. ASSUME NEW k \in 1..Len(b) PROVE b[k] = d[k]
  <2>1. CASE k = 1
    BY <2>1, <1>3, <1>9, <1>10
  <2>2. CASE k # 1
    <3> DEFINE j == k - 1
    <3>1. /\ k \in 2..Len(p) /\ k \in 2..(Len(t) + 1) /\ k \in 2..(Len(u) + 1)
          /\ j \in 1..(Len(r) - 1) /\ j \in 1..(Len(a) - 1) /\ k \in 2..Len(r) /\ j + 1 = k
      BY <1>1, <1>3, <1>6, <1>8, <1>11, <2>2
    <3>2. b[k] = Tail(p[k]) /\ p[k] = t[j] /\ t[j] = r[j + 1]
      BY <3>1, <1>3, <1>6, <1>9
    <3>3. d[k] = u[j] /\ u[j] = a[j + 1] /\ a[k] = Tail(r[k])
      BY <3>1, <1>1, <1>8, <1>10
    <3> QED BY <3>1, <3>2, <3>3
  <2> QED BY <1>1, <1>11, <2>1, <2>2
<1>13. b = d
  <2>1. Len(b) = Len(d)
    BY <1>11
  <2> QED BY <2>1, <1>3, <1>10, <1>12, SameSeq
<1> QED BY <1>1, <1>13 DEF b, d, c, a, h, u

(***************************************************************************)
(* The language, token by token                                            *)
(***************************************************************************)
Ops == FileOps \cup ShareOps
FrontOf(c) == Head(Pieces(c, Ops))

(* Where a sentence is: at the begin of a word, in a word, behind an        *)
(* operator that wants a file, in the name of the file, behind one that     *)
(* wants none, or where no sentence gets.                                  *)
Phases    == {"begin", "word", "file", "named", "shared", "dead"}
Accepting == {"word", "named", "shared"}

After(d, id) ==
  CASE id = SYL /\ d \in {"begin", "word"}        -> "word"
    [] id = SYL /\ d \in {"file", "named"}        -> "named"
    [] id = SPC /\ d = "word"                     -> "begin"
    [] id \in FileOps /\ d \in Accepting          -> "file"
    [] id \in ShareOps /\ d \in Accepting         -> "shared"
    [] id \in Separators /\ d \in Accepting       -> "begin"
    [] OTHER                                      -> "dead"

(* What goes on before the first operator, ...                             *)
HeadOk(d, h) ==
  LET w == Between(h, {SPC})
  IN  CASE d = "begin"  -> \A v \in Range(w) : IsWord(v)
        [] d = "word"   -> AllSyllables(Head(w)) /\ \A v \in Range(Tail(w)) : IsWord(v)
        [] d = "file"   -> IsWord(h)
        [] d = "named"  -> AllSyllables(h)
        [] d = "shared" -> h = <<>>
        [] OTHER        -> FALSE

RedirectionOk(r) ==
  /\ AllSyllables(Tail(r))
  /\ (Head(r).id \in FileOps) <=> (Len(r) > 1)

(* ... in the command, ...                                                 *)
InCommand(d, c) ==
  HeadOk(d, FrontOf(c)) /\ \A r \in Range(Redirections(c)) : RedirectionOk(r)

(* ... and to the end.                                                     *)
Continues(d, s) ==
  /\ InCommand(d, Head(Commands(s)))
  /\ \A c \in Range(Tail(Commands(s))) : IsCommand(c)

(* The kinds of tokens do not overlap.                                     *)
LEMMA Tokens ==
  /\ Separators = {15, 16, 17, 18}
  /\ SYL \notin Separators /\ SYL \notin Ops /\ SYL \notin {SPC}
  /\ SPC \notin Separators /\ SPC \notin Ops
  /\ \A id \in Ops : id \notin Separators
  /\ \A id \in FileOps : id \notin ShareOps
  BY DEF Separators, SYL, SPC, Ops, FileOps, ShareOps

(* The parts of the empty first piece.                                     *)
LEMMA NothingParts ==
  Head(Nothing) = <<>> /\ Tail(Nothing) = <<>> /\ Range(Nothing) = {<<>>}
<1> DEFINE e == <<>>
           n == <<e>>
<1>1. IsSeq(e) /\ Len(e) = 0
  BY SeqNone
<1> HIDE DEF e
<1>2. IsSeq(n) /\ Len(n) = 1 /\ n[1] = e
  BY SeqOne
<1>3. Nothing = n
  BY DEF Nothing, n, e
<1> HIDE DEF n
<1> DEFINE t == Tail(n)
<1>4. Head(n) = e /\ IsSeq(t) /\ Len(t) = 0
  BY <1>2, HeadAndTail
<1> HIDE DEF t
<1>5. t = e
  BY <1>1, <1>4, SameSeq
<1>6. Range(n) = {e}
  BY <1>2, RangeIs
<1> QED BY <1>3, <1>4, <1>5, <1>6 DEF e, t

(* A sequence is all syllables when each of its tokens is one.             *)
LEMMA AllSyllablesIs ==
  ASSUME NEW s, IsSeq(s)
  PROVE  AllSyllables(s) <=> \A t \in Range(s) : t.id = SYL
  BY DEF AllSyllables, Range

(* Nothing is all syllables, and no word.                                  *)
LEMMA SyllablesNone == AllSyllables(<<>>) /\ ~IsWord(<<>>)
  BY SeqNone, AllSyllablesIs, RangeNone DEF IsWord

(* Words, and what is all syllables, with one more token in front.         *)
LEMMA SyllablesCons ==
  ASSUME NEW x, NEW s, IsSeq(s)
  PROVE  /\ AllSyllables(Cons(x, s)) <=> x.id = SYL /\ AllSyllables(s)
         /\ IsWord(Cons(x, s)) <=> x.id = SYL /\ AllSyllables(s)
<1> DEFINE c == Cons(x, s)
<1>1. IsSeq(c) /\ Len(c) = Len(s) + 1 /\ Len(s) \in Nat
  BY ConsFacts, SeqFacts
<1>2. Range(c) = {x} \cup Range(s)
  BY RangeCons
<1> HIDE DEF c
<1>3. AllSyllables(c) <=> x.id = SYL /\ AllSyllables(s)
  BY <1>1, <1>2, AllSyllablesIs
<1>4. c # <<>>
  BY <1>1, SeqNone
<1> QED BY <1>3, <1>4 DEF IsWord, c

(* A command, without operators and with one.                              *)
LEMMA CommandNone == FrontOf(<<>>) = <<>> /\ Redirections(<<>>) = <<>>
  BY PiecesNone, NothingParts DEF FrontOf, Redirections, Ops

(* The redirections of a command are not empty.                            *)
LEMMA CommandFacts ==
  ASSUME NEW c, IsSeq(c)
  PROVE  /\ IsSeq(FrontOf(c)) /\ IsSeq(Redirections(c))
         /\ \A r \in Range(Redirections(c)) : IsSeq(r) /\ Len(r) >= 1
<1> DEFINE p == Pieces(c, Ops)
           t == Tail(p)
<1>1. ArePieces(p, Ops)
  BY PiecesArePieces
<1> HIDE DEF p
<1>2. /\ IsSeq(p) /\ Len(p) >= 1 /\ Len(p) \in Nat
      /\ \A k \in 1..Len(p) : IsSeq(p[k])
      /\ \A k \in 2..Len(p) : Len(p[k]) >= 1
  BY <1>1, SeqFacts DEF ArePieces
<1>3. /\ IsSeq(t) /\ Len(t) = Len(p) - 1 /\ Head(p) = p[1]
      /\ \A k \in 1..(Len(p) - 1) : t[k] = p[k + 1]
  BY <1>2, HeadAndTail
<1> HIDE DEF t
<1>4. Range(t) = {t[k] : k \in 1..Len(t)}
  BY <1>3, RangeIs
<1>5. ASSUME NEW r \in Range(t) PROVE IsSeq(r) /\ Len(r) >= 1
  <2>1. PICK k \in 1..Len(t) : r = t[k]
    BY <1>4
  <2>2. k \in 1..(Len(p) - 1) /\ k + 1 \in 2..Len(p) /\ k + 1 \in 1..Len(p)
    BY <1>2, <1>3
  <2> QED BY <2>1, <2>2, <1>2, <1>3
<1>6. IsSeq(Head(p))
  <2>1. 1 \in 1..Len(p)
    BY <1>2
  <2> QED BY <2>1, <1>2, <1>3
<1> QED BY <1>3, <1>5, <1>6 DEF FrontOf, Redirections, Ops, p, t

(* A command with one more token in front.                                 *)
LEMMA CommandCons ==
  ASSUME NEW x, NEW c, IsSeq(c)
  PROVE  IF x.id \in Ops
         THEN /\ FrontOf(Cons(x, c)) = <<>>
              /\ Redirections(Cons(x, c)) = Cons(Cons(x, FrontOf(c)), Redirections(c))
         ELSE /\ FrontOf(Cons(x, c)) = Cons(x, FrontOf(c))
              /\ Redirections(Cons(x, c)) = Redirections(c)
<1> DEFINE p == Pieces(c, Ops)
<1>1. ArePieces(p, Ops)
  BY PiecesArePieces
<1>2. Pieces(Cons(x, c), Ops) = InFront(x, p, Ops)
  BY PiecesCons
<1>3. FrontOf(c) = Head(p) /\ Redirections(c) = Tail(p)
  BY DEF FrontOf, Redirections, Ops
<1>4. /\ FrontOf(Cons(x, c)) = Head(InFront(x, p, Ops))
      /\ Redirections(Cons(x, c)) = Tail(InFront(x, p, Ops))
  BY <1>2 DEF FrontOf, Redirections, Ops
<1> HIDE DEF p
<1> QED BY <1>1, <1>3, <1>4, InFrontMakesPieces

(* The words of a command.                                                 *)
LEMMA HeadNone ==
  ASSUME NEW d \in Phases
  PROVE  HeadOk(d, <<>>) <=> d \in Accepting
<1> DEFINE e == <<>>
           w == Between(e, {SPC})
<1>1. Head(w) = e /\ Tail(w) = e /\ Range(w) = {e}
  BY BetweenNone, NothingParts, Zenon
<1>2. AllSyllables(e) /\ ~IsWord(e) /\ Range(e) = {}
  BY SyllablesNone, RangeNone
<1> HIDE DEF w
<1> HIDE DEF e
<1>3. HeadOk(d, e) <=> CASE d = "begin" -> \A v \in Range(w) : IsWord(v)
        [] d = "word"   -> AllSyllables(Head(w)) /\ \A v \in Range(Tail(w)) : IsWord(v)
        [] d = "file"   -> IsWord(e)
        [] d = "named"  -> AllSyllables(e)
        [] d = "shared" -> e = <<>>
        [] OTHER        -> FALSE
  BY DEF HeadOk, w
<1>4. e = <<>>
  BY DEF e
<1>5. CASE d = "begin"
  <2>1. HeadOk(d, e) <=> \A v \in Range(w) : IsWord(v)
    BY <1>3, <1>5
  <2>2. ~HeadOk(d, e)
    BY <1>1, <1>2, <2>1
  <2> QED BY <1>4, <1>5, <2>2 DEF Accepting
<1>6. CASE d = "word"
  <2>1. HeadOk(d, e) <=> AllSyllables(Head(w)) /\ \A v \in Range(Tail(w)) : IsWord(v)
    BY <1>3, <1>6
  <2>2. HeadOk(d, e)
    BY <1>1, <1>2, <2>1, Zenon
  <2> QED BY <1>4, <1>6, <2>2 DEF Accepting
<1>7. CASE d \in {"file", "named", "shared", "dead"}
  BY <1>2, <1>3, <1>4, <1>7 DEF Accepting
<1> QED BY <1>4, <1>5, <1>6, <1>7 DEF Phases

(* What may follow up to the next operator, with a token in front.         *)
LEMMA HeadCons ==
  ASSUME NEW d \in Phases, NEW x, x.id \notin Ops, x.id \notin Separators,
         NEW h, IsSeq(h)
  PROVE  HeadOk(d, Cons(x, h)) <=> HeadOk(After(d, x.id), h)
<1> DEFINE c == Cons(x, h)
           w == Between(h, {SPC})
           v == Between(c, {SPC})
           a == After(d, x.id)
<1>1. IsSeq(w) /\ Len(w) >= 1 /\ IsSeq(Head(w)) /\ IsSeq(Tail(w))
       /\ Range(w) = {Head(w)} \cup Range(Tail(w))
  <2> DEFINE b == Between(h, {SPC})
  <2>1. IsSeq(b) /\ Len(b) >= 1 /\ Len(b) \in Nat /\ \A k \in 1..Len(b) : IsSeq(b[k])
    BY BetweenFacts, SeqFacts
  <2> HIDE DEF b
  <2>2. 1 \in 1..Len(b)
    BY <2>1
  <2>3. IsSeq(Head(b)) /\ IsSeq(Tail(b)) /\ Range(b) = {Head(b)} \cup Range(Tail(b))
    BY <2>1, <2>2, HeadAndTail, RangeParts
  <2> QED BY <2>1, <2>3 DEF b
<1>2. x.id # SPC => /\ Head(v) = Cons(x, Head(w)) /\ Tail(v) = Tail(w)
                    /\ Range(v) = {Cons(x, Head(w))} \cup Range(Tail(w))
  <2> SUFFICES ASSUME x.id # SPC
               PROVE  /\ Head(v) = Cons(x, Head(w)) /\ Tail(v) = Tail(w)
                      /\ Range(v) = {Cons(x, Head(w))} \cup Range(Tail(w))
    OBVIOUS
  <2> DEFINE f == Head(w)
             t == Tail(w)
             g == Cons(x, f)
  <2>1. v = Cons(g, t)
    BY BetweenOn
  <2>2. IsSeq(f) /\ IsSeq(t)
    BY <1>1
  <2> HIDE DEF f, t, v
  <2>3. Head(v) = g /\ Tail(v) = t /\ Range(v) = {g} \cup Range(t)
    <3> HIDE DEF g
    <3> QED BY <2>1, <2>2, ConsParts, RangeCons
  <2> QED BY <2>3 DEF f, t
<1>3. x.id = SPC => Head(v) = <<>> /\ Tail(v) = w /\ Range(v) = {<<>>} \cup Range(w)
  <2> SUFFICES ASSUME x.id = SPC
               PROVE  Head(v) = <<>> /\ Tail(v) = w /\ Range(v) = {<<>>} \cup Range(w)
    OBVIOUS
  <2> DEFINE e == <<>>
  <2>1. v = Cons(e, w)
    BY BetweenCut
  <2>2. IsSeq(w)
    BY <1>1
  <2> HIDE DEF e, w, v
  <2>3. Head(v) = e /\ Tail(v) = w /\ Range(v) = {e} \cup Range(w)
    BY <2>1, <2>2, ConsParts, RangeCons
  <2> QED BY <2>3 DEF e
<1>4. /\ AllSyllables(c) <=> x.id = SYL /\ AllSyllables(h)
      /\ IsWord(c) <=> x.id = SYL /\ AllSyllables(h)
      /\ c # <<>>
  <2>1. IsSeq(c) /\ Len(c) = Len(h) + 1 /\ Len(h) \in Nat
    BY ConsFacts, SeqFacts
  <2>2. c # <<>>
    <3> HIDE DEF c
    <3> QED BY <2>1, SeqNone
  <2> QED BY <2>2, SyllablesCons
<1>5. /\ AllSyllables(Cons(x, Head(w))) <=> x.id = SYL /\ AllSyllables(Head(w))
      /\ IsWord(Cons(x, Head(w))) <=> x.id = SYL /\ AllSyllables(Head(w))
  <2> DEFINE f == Head(w)
  <2>1. IsSeq(f)
    BY <1>1
  <2> HIDE DEF f
  <2>2. /\ AllSyllables(Cons(x, f)) <=> x.id = SYL /\ AllSyllables(f)
        /\ IsWord(Cons(x, f)) <=> x.id = SYL /\ AllSyllables(f)
    BY <2>1, SyllablesCons
  <2> QED BY <2>2 DEF f
<1>6. AllSyllables(<<>>) /\ ~IsWord(<<>>)
  BY SyllablesNone
<1>7. SYL # SPC
  BY Tokens
<1>8. a = CASE x.id = SYL /\ d \in {"begin", "word"} -> "word"
            [] x.id = SYL /\ d \in {"file", "named"} -> "named"
            [] x.id = SPC /\ d = "word" -> "begin"
            [] OTHER -> "dead"
  BY DEF After, Ops
<1>9. \A f : HeadOk(f, h) <=>
        CASE f = "begin"  -> \A u \in Range(w) : IsWord(u)
          [] f = "word"   -> AllSyllables(Head(w)) /\ \A u \in Range(Tail(w)) : IsWord(u)
          [] f = "file"   -> IsWord(h)
          [] f = "named"  -> AllSyllables(h)
          [] f = "shared" -> h = <<>>
          [] OTHER        -> FALSE
  BY DEF HeadOk
<1>10. HeadOk(d, c) <=>
        CASE d = "begin"  -> \A u \in Range(v) : IsWord(u)
          [] d = "word"   -> AllSyllables(Head(v)) /\ \A u \in Range(Tail(v)) : IsWord(u)
          [] d = "file"   -> IsWord(c)
          [] d = "named"  -> AllSyllables(c)
          [] d = "shared" -> c = <<>>
          [] OTHER        -> FALSE
  BY DEF HeadOk
<1> HIDE DEF c, w, v, a
<1>11. CASE x.id = SYL
  <2>2. CASE d = "begin"
    <3>1. a = "word"
      BY <1>7, <1>8, <1>11, <2>2
    <3>2. HeadOk(d, c) <=> \A u \in Range(v) : IsWord(u)
      BY <1>10, <2>2
    <3>3. HeadOk(a, h) <=> AllSyllables(Head(w)) /\ \A u \in Range(Tail(w)) : IsWord(u)
      BY <1>9, <3>1
    <3> QED BY <1>2, <1>5, <1>7, <1>11, <3>2, <3>3 DEF a, c
  <2>3. CASE d = "word"
    <3>1. a = "word"
      BY <1>7, <1>8, <1>11, <2>3
    <3>2. HeadOk(d, c) <=> AllSyllables(Head(v)) /\ \A u \in Range(Tail(v)) : IsWord(u)
      BY <1>10, <2>3
    <3>3. HeadOk(a, h) <=> AllSyllables(Head(w)) /\ \A u \in Range(Tail(w)) : IsWord(u)
      BY <1>9, <3>1
    <3> QED BY <1>2, <1>5, <1>7, <1>11, <3>2, <3>3 DEF a, c
  <2>4. CASE d \in {"file", "named"}
    <3>1. a = "named"
      BY <1>7, <1>8, <1>11, <2>4
    <3>2. HeadOk(d, c) <=> AllSyllables(h)
      BY <1>4, <1>10, <1>11, <2>4
    <3>3. HeadOk(a, h) <=> AllSyllables(h)
      BY <1>9, <3>1
    <3> QED BY <3>2, <3>3 DEF a, c
  <2>5. CASE d \in {"shared", "dead"}
    <3>1. a = "dead"
      BY <1>7, <1>8, <1>11, <2>5
    <3>2. ~HeadOk(d, c)
      BY <1>4, <1>10, <2>5
    <3>3. ~HeadOk(a, h)
      BY <1>9, <3>1
    <3> QED BY <3>2, <3>3 DEF a, c
  <2> QED BY <2>2, <2>3, <2>4, <2>5 DEF Phases
<1>12. CASE x.id # SYL
  <2>1. CASE x.id = SPC /\ d = "word"
    <3>1. a = "begin"
      BY <1>8, <1>12, <2>1
    <3>2. HeadOk(d, c) <=> AllSyllables(Head(v)) /\ \A u \in Range(Tail(v)) : IsWord(u)
      BY <1>10, <2>1
    <3>3. HeadOk(a, h) <=> \A u \in Range(w) : IsWord(u)
      BY <1>9, <3>1
    <3> QED BY <1>3, <1>6, <2>1, <3>2, <3>3 DEF a, c
  <2>2. CASE ~(x.id = SPC /\ d = "word")
    <3>1. a = "dead"
      BY <1>8, <1>12, <2>2
    <3>2. ~HeadOk(a, h)
      BY <1>9, <3>1
    <3>3. CASE d = "begin"
      <4>1. HeadOk(d, c) <=> \A u \in Range(v) : IsWord(u)
        BY <1>10, <3>3
      <4>2. \E u \in Range(v) : ~IsWord(u)
        BY <1>2, <1>3, <1>5, <1>6, <1>12
      <4> QED BY <3>2, <4>1, <4>2 DEF a, c
    <3>4. CASE d = "word"
      <4>1. HeadOk(d, c) => AllSyllables(Head(v))
        BY <1>10, <3>4
      <4>2. ~AllSyllables(Head(v))
        BY <1>2, <1>5, <1>12, <2>2, <3>4
      <4> QED BY <3>2, <4>1, <4>2 DEF a, c
    <3>5. CASE d \in {"file", "named", "shared", "dead"}
      <4>1. ~HeadOk(d, c)
        BY <1>4, <1>10, <1>12, <3>5
      <4> QED BY <3>2, <4>1 DEF a, c
    <3> QED BY <3>3, <3>4, <3>5 DEF Phases
  <2> QED BY <2>1, <2>2
<1> QED BY <1>11, <1>12

(* A command is what may follow at the beginning of one.                   *)
LEMMA CommandBegins ==
  ASSUME NEW c, IsSeq(c)
  PROVE  IsCommand(c) <=> InCommand("begin", c)
<1> DEFINE w == WordsOf(c)
           r == Redirections(c)
<1>1. w = Between(FrontOf(c), {SPC})
  BY DEF WordsOf, FrontOf, Ops
<1>2. IsCommand(c) <=> /\ \A k \in DOMAIN w : IsWord(w[k])
                       /\ \A k \in DOMAIN r : RedirectionOk(r[k])
  BY DEF IsCommand, RedirectionOk
<1>3. HeadOk("begin", FrontOf(c)) <=> \A v \in Range(w) : IsWord(v)
  BY <1>1 DEF HeadOk
<1> HIDE DEF w, r
<1>4. IsCommand(c) <=> /\ \A v \in Range(w) : IsWord(v)
                       /\ \A v \in Range(r) : RedirectionOk(v)
  BY <1>2 DEF Range
<1> QED BY <1>3, <1>4 DEF InCommand, r

(* A command may end in the accepting phases only.                         *)
LEMMA InCommandNone ==
  ASSUME NEW d \in Phases
  PROVE  InCommand(d, <<>>) <=> d \in Accepting
  BY CommandNone, HeadNone, RangeNone DEF InCommand

(* What may follow in a command, read from its first token on.             *)
LEMMA InCommandCons ==
  ASSUME NEW d \in Phases, NEW x, x.id \notin Separators, NEW c, IsSeq(c)
  PROVE  InCommand(d, Cons(x, c)) <=> InCommand(After(d, x.id), c)
<1> DEFINE h == FrontOf(c)
           r == Redirections(c)
           a == After(d, x.id)
           s == Cons(x, h)
           q == Cons(x, c)
<1>1. IsSeq(h) /\ IsSeq(r)
  BY CommandFacts
<1>2. InCommand(a, c) <=> HeadOk(a, h) /\ \A v \in Range(r) : RedirectionOk(v)
  BY DEF InCommand
<1>3. InCommand(d, q) <=>
        HeadOk(d, FrontOf(q)) /\ \A v \in Range(Redirections(q)) : RedirectionOk(v)
  BY DEF InCommand
<1>4. CASE x.id \notin Ops
  <2>1. FrontOf(q) = s /\ Redirections(q) = r
    BY <1>4, CommandCons
  <2>2. HeadOk(d, s) <=> HeadOk(a, h)
    BY <1>1, <1>4, HeadCons
  <2> QED BY <1>2, <1>3, <2>1, <2>2
<1>5. CASE x.id \in Ops
  <2>1. FrontOf(q) = <<>> /\ Redirections(q) = Cons(s, r)
    BY <1>5, CommandCons
  <2> HIDE DEF h, r
  <2>2. IsSeq(s) /\ Len(s) = Len(h) + 1 /\ Head(s) = x /\ Tail(s) = h /\ Len(h) \in Nat
    BY <1>1, ConsFacts, ConsParts, SeqFacts
  <2> HIDE DEF s
  <2>3. Range(Cons(s, r)) = {s} \cup Range(r)
    BY <1>1, RangeCons
  <2>4. HeadOk(d, <<>>) <=> d \in Accepting
    BY HeadNone
  <2>5. RedirectionOk(s) <=> AllSyllables(h) /\ (x.id \in FileOps <=> Len(h) > 0)
    <3>1. RedirectionOk(s) <=> /\ AllSyllables(Tail(s))
                               /\ (Head(s).id \in FileOps <=> Len(s) > 1)
      BY DEF RedirectionOk
    <3>2. RedirectionOk(s) <=> AllSyllables(h) /\ (x.id \in FileOps <=> Len(s) > 1)
      BY <2>2, <3>1, Zenon
    <3>3. Len(s) > 1 <=> Len(h) > 0
      BY <2>2
    <3> QED BY <3>2, <3>3
  <2>6. InCommand(d, q) <=> /\ d \in Accepting /\ RedirectionOk(s)
                            /\ \A v \in Range(r) : RedirectionOk(v)
    BY <1>3, <2>1, <2>3, <2>4
  <2>7. Len(h) > 0 <=> h # <<>>
    <3>1. Len(h) = 0 => h = <<>>
      BY <1>1, SeqNone, SameSeq
    <3> QED BY <3>1, <2>2, SeqNone
  <2>8. CASE x.id \in FileOps
    <3>1. a = IF d \in Accepting THEN "file" ELSE "dead"
      BY <2>8, Tokens DEF After, FileOps, SPC, Ops
    <3>2. RedirectionOk(s) <=> IsWord(h)
      BY <2>5, <2>7, <2>8 DEF IsWord
    <3>3. (HeadOk("file", h) <=> IsWord(h)) /\ ~HeadOk("dead", h)
      BY DEF HeadOk
    <3> QED BY <1>2, <2>6, <3>1, <3>2, <3>3
  <2>9. CASE x.id \in ShareOps
    <3>1. a = IF d \in Accepting THEN "shared" ELSE "dead"
      BY <2>9, Tokens DEF After, ShareOps, SPC, Ops
    <3>2. RedirectionOk(s) <=> h = <<>>
      BY <2>5, <2>7, <2>9, SyllablesNone, Tokens
    <3>3. (HeadOk("shared", h) <=> h = <<>>) /\ ~HeadOk("dead", h)
      BY DEF HeadOk
    <3> QED BY <1>2, <2>6, <3>1, <3>2, <3>3
  <2> QED BY <1>5, <2>8, <2>9 DEF Ops
<1> QED BY <1>4, <1>5

(* A sentence.                                                             *)
LEMMA CommandsFacts ==
  ASSUME NEW s, IsSeq(s)
  PROVE  /\ IsSeq(Commands(s)) /\ Len(Commands(s)) >= 1
         /\ IsSeq(Head(Commands(s))) /\ IsSeq(Tail(Commands(s)))
         /\ \A k \in 1..Len(Commands(s)) : IsSeq(Commands(s)[k])
         /\ Range(Commands(s)) = {Head(Commands(s))} \cup Range(Tail(Commands(s)))
<1> DEFINE b == Between(s, Separators)
<1>1. IsSeq(b) /\ Len(b) >= 1 /\ Len(b) \in Nat /\ \A k \in 1..Len(b) : IsSeq(b[k])
  BY BetweenFacts, SeqFacts
<1> HIDE DEF b
<1>2. 1 \in 1..Len(b)
  BY <1>1
<1>3. IsSeq(Head(b)) /\ IsSeq(Tail(b)) /\ Range(b) = {Head(b)} \cup Range(Tail(b))
  BY <1>1, <1>2, HeadAndTail, RangeParts
<1> QED BY <1>1, <1>3 DEF Commands, b

(* A sentence is what may follow at the beginning.                         *)
LEMMA SentenceBegins ==
  ASSUME NEW s, IsSeq(s)
  PROVE  IsSentence(s) <=> Continues("begin", s)
<1> DEFINE b == Commands(s)
<1>1. /\ IsSeq(b) /\ IsSeq(Head(b))
      /\ Range(b) = {Head(b)} \cup Range(Tail(b))
  BY CommandsFacts
<1>2. IsSentence(s) <=> \A k \in DOMAIN b : IsCommand(b[k])
  BY DEF IsSentence
<1>3. Continues("begin", s) <=> /\ InCommand("begin", Head(b))
                                /\ \A c \in Range(Tail(b)) : IsCommand(c)
  BY DEF Continues
<1>4. IsCommand(Head(b)) <=> InCommand("begin", Head(b))
  BY <1>1, CommandBegins
<1> HIDE DEF b
<1>5. IsSentence(s) <=> \A c \in Range(b) : IsCommand(c)
  BY <1>2 DEF Range
<1> QED BY <1>1, <1>3, <1>4, <1>5

(* A sentence may end in the accepting phases only.                        *)
LEMMA ContinuesNone ==
  ASSUME NEW d \in Phases
  PROVE  Continues(d, <<>>) <=> d \in Accepting
<1>1. Head(Commands(<<>>)) = <<>> /\ Tail(Commands(<<>>)) = <<>>
  BY BetweenNone, NothingParts DEF Commands
<1> QED BY <1>1, InCommandNone, RangeNone DEF Continues

(* What may follow in a sentence, read from its first token on.            *)
LEMMA ContinuesCons ==
  ASSUME NEW d \in Phases, NEW x, NEW s, IsSeq(s)
  PROVE  Continues(d, Cons(x, s)) <=> Continues(After(d, x.id), s)
<1> DEFINE b == Commands(s)
           f == Head(b)
           t == Tail(b)
           q == Commands(Cons(x, s))
           a == After(d, x.id)
<1>1. IsSeq(b) /\ IsSeq(f) /\ IsSeq(t) /\ Range(b) = {f} \cup Range(t)
  BY CommandsFacts
<1>2. Continues(a, s) <=> InCommand(a, f) /\ \A c \in Range(t) : IsCommand(c)
  BY DEF Continues
<1>3. Continues(d, Cons(x, s)) <=> InCommand(d, Head(q)) /\ \A c \in Range(Tail(q)) : IsCommand(c)
  BY DEF Continues
<1>4. CASE x.id \in Separators
  <2> DEFINE e == <<>>
  <2>1. q = Cons(e, b)
    BY <1>4, BetweenCut DEF Commands
  <2> HIDE DEF q, b, e
  <2>2. Head(q) = e /\ Tail(q) = b
    BY <1>1, <2>1, ConsParts
  <2>3. InCommand(d, e) <=> d \in Accepting
    BY InCommandNone DEF e
  <2>4. a = IF d \in Accepting THEN "begin" ELSE "dead"
    BY <1>4, Tokens DEF After, Ops
  <2>5. IsCommand(f) <=> InCommand("begin", f)
    BY <1>1, CommandBegins
  <2>6. ~InCommand("dead", f)
    BY DEF InCommand, HeadOk
  <2>7. (\A c \in Range(b) : IsCommand(c)) <=> IsCommand(f) /\ \A c \in Range(t) : IsCommand(c)
    BY <1>1
  <2> HIDE DEF f, t
  <2> QED BY <1>2, <1>3, <2>2, <2>3, <2>4, <2>5, <2>6, <2>7
<1>5. CASE x.id \notin Separators
  <2> DEFINE g == Cons(x, f)
  <2>1. q = Cons(g, t)
    BY <1>5, BetweenOn DEF Commands
  <2> HIDE DEF q, b, f, t
  <2>2. Head(q) = g /\ Tail(q) = t
    <3> HIDE DEF g
    <3> QED BY <1>1, <2>1, ConsParts
  <2>3. InCommand(d, g) <=> InCommand(a, f)
    BY <1>1, <1>5, InCommandCons
  <2> QED BY <1>2, <1>3, <2>2, <2>3
<1> QED BY <1>4, <1>5

(***************************************************************************)
(* Phases: where a sentence is that has begun with the tokens read         *)
(***************************************************************************)
(* Where a sentence is that has begun with s.                              *)
InPhase(s, d) ==
  d \in Phases /\ \A t : IsSeq(t) => (IsSentence(s \o t) <=> Continues(d, t))

(* Every token leads from a phase to a phase.                              *)
LEMMA AfterIsPhase == \A d, id : After(d, id) \in Phases
  BY DEF After, Phases

(* Before the first token the phase is the first one.                      *)
LEMMA PhaseNone == InPhase(<<>>, "begin")
<1>1. ASSUME NEW t, IsSeq(t) PROVE <<>> \o t = t
  <2> DEFINE e == <<>>
             c == e \o t
  <2>1. IsSeq(e) /\ Len(e) = 0 /\ Len(t) \in Nat
    BY SeqNone, SeqFacts
  <2> HIDE DEF e
  <2>2. /\ IsSeq(c) /\ Len(c) = 0 + Len(t)
        /\ \A k \in 1..(0 + Len(t)) : c[k] = IF k <= 0 THEN e[k] ELSE t[k - 0]
    BY <1>1, <2>1, SeqConcat
  <2> HIDE DEF c
  <2>3. Len(c) = Len(t) /\ \A k \in 1..Len(c) : c[k] = t[k]
    BY <2>1, <2>2
  <2>4. c = t
    BY <1>1, <2>2, <2>3, SameSeq
  <2> QED BY <2>4 DEF c, e
<1>2. "begin" \in Phases
  BY DEF Phases
<1> QED BY <1>1, <1>2, SentenceBegins DEF InPhase

(* Appending an element moves it in front of what follows.                 *)
LEMMA AppendThen ==
  ASSUME NEW s, IsSeq(s), NEW x, NEW t, IsSeq(t)
  PROVE  Append(s, x) \o t = s \o Cons(x, t)
<1> DEFINE a == Append(s, x)
           b == Cons(x, t)
           c == a \o t
           d == s \o b
<1>1. /\ IsSeq(a) /\ Len(a) = Len(s) + 1 /\ Len(s) \in Nat /\ Len(t) \in Nat
      /\ \A k \in 1..Len(s) : a[k] = s[k]
      /\ a[Len(s) + 1] = x
  BY SeqAppend, SeqFacts
<1>2. /\ IsSeq(b) /\ Len(b) = Len(t) + 1 /\ b[1] = x
      /\ \A k \in 2..(Len(t) + 1) : b[k] = t[k - 1]
  BY ConsFacts
<1> HIDE DEF a, b
<1>3. /\ IsSeq(c) /\ Len(c) = Len(a) + Len(t)
      /\ \A k \in 1..(Len(a) + Len(t)) : c[k] = IF k <= Len(a) THEN a[k] ELSE t[k - Len(a)]
  BY <1>1, SeqConcat
<1>4. /\ IsSeq(d) /\ Len(d) = Len(s) + Len(b)
      /\ \A k \in 1..(Len(s) + Len(b)) : d[k] = IF k <= Len(s) THEN s[k] ELSE b[k - Len(s)]
  BY <1>2, SeqConcat
<1> HIDE DEF c, d
<1>5. Len(c) = Len(d) /\ Len(c) = Len(a) + Len(t) /\ Len(c) = Len(s) + Len(b)
  BY <1>1, <1>2, <1>3, <1>4
<1>6. ASSUME NEW k \in 1..Len(c) PROVE c[k] = d[k]
  <2>0. c[k] = (IF k <= Len(a) THEN a[k] ELSE t[k - Len(a)])
         /\ d[k] = (IF k <= Len(s) THEN s[k] ELSE b[k - Len(s)])
    BY <1>3, <1>4, <1>5
  <2>1. CASE k <= Len(s)
    BY <2>0, <2>1, <1>1
  <2>2. CASE k = Len(s) + 1
    <3>1. k - Len(s) = 1 /\ ~(k <= Len(s)) /\ k <= Len(a)
      BY <2>2, <1>1
    <3> QED BY <2>0, <2>2, <3>1, <1>1, <1>2
  <2>3. CASE k > Len(s) + 1
    <3>1. /\ k - Len(s) \in 2..(Len(t) + 1) /\ (k - Len(s)) - 1 = k - Len(a)
          /\ ~(k <= Len(s)) /\ ~(k <= Len(a))
      BY <2>3, <1>1, <1>2, <1>5
    <3> QED BY <2>0, <3>1, <1>2
  <2> QED BY <1>1, <2>1, <2>2, <2>3
<1>7. c = d
  BY <1>3, <1>4, <1>5, <1>6, SameSeq
<1> QED BY <1>7 DEF a, b, c, d

(* One more token moves the phase on.                                      *)
LEMMA PhaseNext ==
  ASSUME NEW s, IsSeq(s), NEW d, InPhase(s, d), NEW x
  PROVE  InPhase(Append(s, x), After(d, x.id))
<1>1. d \in Phases /\ \A t : IsSeq(t) => (IsSentence(s \o t) <=> Continues(d, t))
  BY DEF InPhase
<1>2. ASSUME NEW t, IsSeq(t)
      PROVE  IsSentence(Append(s, x) \o t) <=> Continues(After(d, x.id), t)
  <2> DEFINE c == Cons(x, t)
  <2>1. IsSeq(c) /\ Append(s, x) \o t = s \o c
    BY <1>2, ConsFacts, AppendThen
  <2>2. IsSentence(s \o c) <=> Continues(d, c)
    <3> HIDE DEF c
    <3> QED BY <1>1, <2>1
  <2>3. Continues(d, c) <=> Continues(After(d, x.id), t)
    BY <1>1, <1>2, ContinuesCons
  <2> QED BY <2>1, <2>2, <2>3
<1> QED BY <1>2, AfterIsPhase DEF InPhase

(* The phase says whether what was read is a sentence.                     *)
LEMMA PhaseSays ==
  ASSUME NEW s, IsSeq(s), NEW d, InPhase(s, d)
  PROVE  IsSentence(s) <=> d \in Accepting
<1> DEFINE e == <<>>
           c == s \o e
<1>1. IsSeq(e) /\ Len(e) = 0 /\ Len(s) \in Nat
  BY SeqNone, SeqFacts
<1>2. Continues(d, e) <=> d \in Accepting
  BY ContinuesNone DEF InPhase
<1> HIDE DEF e
<1>3. IsSentence(c) <=> Continues(d, e)
  BY <1>1 DEF InPhase
<1>4. c = s
  <2>1. /\ IsSeq(c) /\ Len(c) = Len(s) + Len(e)
        /\ \A k \in 1..(Len(s) + Len(e)) : c[k] = IF k <= Len(s) THEN s[k] ELSE e[k - Len(s)]
    BY <1>1, SeqConcat
  <2> HIDE DEF c
  <2>2. Len(c) = Len(s) /\ \A k \in 1..Len(c) : c[k] = s[k]
    BY <1>1, <2>1
  <2> QED BY <2>1, <2>2, SameSeq
<1> QED BY <1>2, <1>3, <1>4

(***************************************************************************)
(* The phases of the states                                                *)
(***************************************************************************)
NoToken == -1
NextSymbol == IF yychar = YYEMPTY THEN NoToken ELSE YYTRANSLATE(yychar)

(* The phase in which a state is on the stack.                             *)
Stands(s, d) ==
  /\ s \in {0, 9, 10, 11, 12, 24} => d = "begin"
  /\ s \in {5, 6, 37} => d = "word"
  /\ s \in {2, 7} => d \in {"word", "named"}
  /\ s \in {13, 15, 16, 17, 18, 19, 20} => d = "file"
  /\ s \in 29..35 => d = "named"
  /\ s \in {14, 21} => d = "shared"
  /\ s = 23 => d \in {"named", "shared"}
  /\ s \in {3, 4, 8, 22, 25, 26, 27, 28, 36} => d \in Accepting

(* No sentence goes on with x.                                             *)
Refused(d, x) ==
  IF x = YYEOF THEN d \notin Accepting
  ELSE IF x = NoToken THEN d = "dead" ELSE After(d, x) = "dead"

(* What follows a state on top of the stack.                               *)
Faces(s, d, x) ==
  /\ s \in {5, 6, 7, 37} \cup (29..35) => x \notin {NoToken, SYL}
  /\ s \in {5, 37} => x # SPC
  /\ s = 23 /\ d = "named" => x \notin {NoToken, SYL}
  /\ s \in {4, 22, 36} =>
       x # NoToken /\ (x = YYEOF \/ x \in Separators \/ After(d, x) = "dead")
  /\ s \in {3, 25, 26, 27, 28} => x # NoToken /\ (x = YYEOF \/ After(d, x) = "dead")
  /\ s = 8 => x = NoToken
  /\ s = 1 => Refused(d, x)

(* The states of parser.c that stand for each symbol of parser.y.          *)
LEMMA StatesOfSymbols ==
  \A s \in ParseStates \ {0} :
    LET x == Symbol(s) IN
    /\ x = 0 => s = 8
    /\ x = 1 => s = 1
    /\ x = 3 => s = 2
    /\ x = 4 => s = 24
    /\ x \in 15..18 => s \in {9, 10, 11, 12}
    /\ x \in FileOps => s \in {13, 15, 16, 17, 18, 19, 20}
    /\ x \in ShareOps => s \in {14, 21}
    /\ x = 20 => s \in {3, 25, 26, 27, 28}
    /\ x = 21 => s = 4
    /\ x = 22 => s \in {22, 36}
    /\ x = 23 => s = 23
    /\ x = 24 => s \in {5, 37}
    /\ x = 25 => s \in {6, 7} \cup (29..35)
    /\ x \notin {2, 5, 19}
  BY DEF ParseStates, Symbol, At, yystos, FileOps, ShareOps

(* The states that may lie below the states of a word, a space, a          *)
(* separator, an operator and the list.                                    *)
LEMMA BelowSymbols ==
  /\ \A s \in ParseStates : Symbol(s) = 25 => Below(s) \subseteq
       CASE s = 6 -> {0, 9, 10, 11, 12, 24}
         [] s = 7 -> {2}
         [] OTHER -> {13, 15, 16, 17, 18, 19, 20}
  /\ Below(2) = {0, 2, 9, 10, 11, 12, 13, 15, 16, 17, 18, 19, 20, 24}
  /\ Below(24) = {6}
  /\ \A s \in {9, 10, 11, 12} : Below(s) = {4}
  /\ \A s \in 13..21 : Below(s) = {5, 23}
  /\ Below(8) = {3}
<1>1. \A s \in ParseStates : Symbol(s) = 25 => s \in {6, 7} \cup (29..35)
  BY DEF ParseStates, Symbol, At, yystos
<1>2. /\ Below(6) = {0, 9, 10, 11, 12, 24} /\ Below(7) = {2}
      /\ \A s \in 29..35 : Below(s) \subseteq {13, 15, 16, 17, 18, 19, 20}
  BY DEF Below, At, predecessors
<1>3. /\ Below(2) = {0, 2, 9, 10, 11, 12, 13, 15, 16, 17, 18, 19, 20, 24}
      /\ Below(24) = {6}
      /\ \A s \in {9, 10, 11, 12} : Below(s) = {4}
      /\ \A s \in 13..21 : Below(s) = {5, 23}
      /\ Below(8) = {3}
  BY DEF Below, At, predecessors
<1> QED BY <1>1, <1>2, <1>3

(* The numbers of the symbols, as the tables have them.                    *)
LEMMA Phrases ==
  /\ SYL = 3 /\ SPC = 4 /\ YYEOF = 0 /\ NoToken = -1
  /\ FileOps = {6, 8, 9, 10, 11, 12, 13} /\ ShareOps = {7, 14} /\ Separators = {15, 16, 17, 18}
  BY DEF SYL, SPC, YYEOF, NoToken, FileOps, ShareOps, Separators

(* After, by the token.                                                    *)
LEMMA AfterIs ==
  /\ \A d \in {"begin", "word"} : After(d, 3) = "word"
  /\ \A d \in {"file", "named"} : After(d, 3) = "named"
  /\ After("word", 4) = "begin"
  /\ \A d \in Accepting : \A x \in {6, 8, 9, 10, 11, 12, 13} : After(d, x) = "file"
  /\ \A d \in Accepting : \A x \in {7, 14} : After(d, x) = "shared"
  /\ \A d \in Accepting : \A x \in {15, 16, 17, 18} : After(d, x) = "begin"
  /\ \A d : \A x \in {1, 2, 5} : After(d, x) = "dead"
  /\ \A x \in 1..18 : x # 3 => After("begin", x) = "dead" /\ After("file", x) = "dead"
  /\ \A d \in {"named", "shared"} : After(d, 4) = "dead"
  /\ After("shared", 3) = "dead"
  /\ \A x : After("dead", x) = "dead"
<1>1. \A d \in {"begin", "word"} : After(d, 3) = "word"
  BY Phrases DEF After, Accepting
<1>2. \A d \in {"file", "named"} : After(d, 3) = "named"
  BY Phrases DEF After, Accepting
<1>3. After("word", 4) = "begin"
  BY Phrases DEF After, Accepting
<1>4. \A d \in Accepting : \A x \in {6, 8, 9, 10, 11, 12, 13} : After(d, x) = "file"
  BY Phrases DEF After, Accepting
<1>5. \A d \in Accepting : \A x \in {7, 14} : After(d, x) = "shared"
  BY Phrases DEF After, Accepting
<1>6. \A d \in Accepting : \A x \in {15, 16, 17, 18} : After(d, x) = "begin"
  BY Phrases DEF After, Accepting
<1>7. \A d : \A x \in {1, 2, 5} : After(d, x) = "dead"
  BY Phrases DEF After, Accepting
<1>8. \A x \in 1..18 : x # 3 => After("begin", x) = "dead" /\ After("file", x) = "dead"
  BY Phrases DEF After, Accepting
<1>9. \A d \in {"named", "shared"} : After(d, 4) = "dead"
  BY Phrases DEF After, Accepting
<1>10. After("shared", 3) = "dead"
  BY Phrases DEF After, Accepting
<1>11. \A x : After("dead", x) = "dead"
  BY Phrases DEF After, Accepting
<1> QED BY <1>1, <1>2, <1>3, <1>4, <1>5, <1>6, <1>7, <1>8, <1>9, <1>10, <1>11

(* The phase behind a shift of x in phase d.                               *)
Shifted(d, x) == IF x = YYEOF THEN d ELSE After(d, x)

(* A shift leads to a state that stands for the phase behind the token.    *)
(* Every entry of the tables is looked at.                                 *)
LEMMA ShiftStands ==
  ASSUME NEW s \in ParseStates, NEW d \in Phases, Stands(s, d), NEW x \in 0..18,
         NeedsToken(s), Entry(s, x) > 0, NEW t, t = Entry(s, x)
  PROVE  /\ Stands(t, Shifted(d, x)) /\ Faces(t, Shifted(d, x), NoToken)
         /\ Symbol(t) \in {3, 25} => Shifted(d, x) = After(d, SYL)
<1> DEFINE e == Shifted(d, x)
<1>1. t \in ParseStates \ {0} /\ s \in Below(t) /\ Symbol(t) = x
  BY ShiftEdge
<1>2. /\ x = 0 => t = 8
      /\ x = 1 => t = 1
      /\ x = 3 => t = 2
      /\ x = 4 => t = 24
      /\ x \in {15, 16, 17, 18} => t \in {9, 10, 11, 12}
      /\ x \in {6, 8, 9, 10, 11, 12, 13} => t \in {13, 15, 16, 17, 18, 19, 20}
      /\ x \in {7, 14} => t \in {14, 21}
      /\ x \notin {2, 5}
  BY <1>1, StatesOfSymbols, Phrases
<1>3. CASE x = 0
  <2>1. t = 8 /\ s = 3 /\ e = d
    BY <1>1, <1>2, <1>3, BelowSymbols, Phrases DEF Shifted
  <2>2. d \in Accepting
    BY <2>1 DEF Stands
  <2> QED BY <2>1, <2>2, <1>1, <1>3 DEF Stands, Faces
<1>4. CASE x = 1
  <2>1. t = 1 /\ e = "dead"
    BY <1>2, <1>4, AfterIs, Phrases DEF Shifted
  <2> QED BY <2>1, <1>1, <1>4, Phrases DEF Stands, Faces, Refused
<1>5. CASE x = 3
  <2>1. t = 2 /\ e = After(d, 3)
    BY <1>2, <1>5, Phrases DEF Shifted
  <2>2. d \in {"begin", "word", "named", "file"}
    <3>1. s \in {0, 2, 9, 10, 11, 12, 13, 15, 16, 17, 18, 19, 20, 24}
      BY <1>1, <2>1, BelowSymbols
    <3> QED BY <3>1 DEF Stands
  <2>3. e \in {"word", "named"}
    BY <2>1, <2>2, AfterIs
  <2> QED BY <2>1, <2>3, Phrases DEF Stands, Faces
<1>6. CASE x = 4
  <2>1. t = 24 /\ e = After(d, 4) /\ s = 6
    BY <1>1, <1>2, <1>6, BelowSymbols, Phrases DEF Shifted
  <2>2. e = "begin"
    BY <2>1, AfterIs DEF Stands
  <2> QED BY <2>1, <2>2, <1>1, <1>6 DEF Stands, Faces
<1>7. CASE x \in {15, 16, 17, 18}
  <2>1. t \in {9, 10, 11, 12} /\ e = After(d, x)
    BY <1>2, <1>7, Phrases DEF Shifted
  <2>2. s = 4
    BY <1>1, <2>1, BelowSymbols
  <2>3. e = "begin"
    BY <2>1, <2>2, <1>7, AfterIs DEF Stands
  <2> QED BY <2>1, <2>3, <1>1, <1>7 DEF Stands, Faces
<1>8. CASE x \in {6, 8, 9, 10, 11, 12, 13}
  <2>1. t \in {13, 15, 16, 17, 18, 19, 20} /\ e = After(d, x)
    BY <1>2, <1>8, Phrases DEF Shifted
  <2>2. s \in {5, 23}
    BY <1>1, <2>1, BelowSymbols
  <2>3. e = "file"
    BY <2>1, <2>2, <1>8, AfterIs DEF Stands, Accepting
  <2> QED BY <2>1, <2>3, <1>1, <1>8 DEF Stands, Faces
<1>9. CASE x \in {7, 14}
  <2>1. t \in {14, 21} /\ e = After(d, x)
    BY <1>2, <1>9, Phrases DEF Shifted
  <2>2. s \in {5, 23}
    BY <1>1, <2>1, BelowSymbols
  <2>3. e = "shared"
    BY <2>1, <2>2, <1>9, AfterIs DEF Stands, Accepting
  <2> QED BY <2>1, <2>3, <1>1, <1>9 DEF Stands, Faces
<1> QED BY <1>2, <1>3, <1>4, <1>5, <1>6, <1>7, <1>8, <1>9

(* A state that wants a token takes every token.                           *)
LEMMA FacesAny ==
  ASSUME NEW s \in ParseStates, NEW d, Stands(s, d), Faces(s, d, NoToken),
         NeedsToken(s), NEW x \in 0..18
  PROVE  Faces(s, d, x)
<1>1. s \notin {1, 7, 8, 22, 25, 26, 27, 28, 29, 30, 31, 32, 33, 34, 35, 36, 37}
  BY DEF NeedsToken, At, yypact, YYPACT_NINF
<1>2. s \notin {3, 4, 5, 6}
  BY DEF Faces
<1>3. ~(s = 23 /\ d = "named")
  BY DEF Faces
<1>4. s \in {0, 2, 9, 10, 11, 12, 13, 14, 15, 16, 17, 18, 19, 20, 21, 23, 24}
  BY <1>1, <1>2 DEF ParseStates
<1> QED BY <1>3, <1>4 DEF Faces

(* The entries that are not empty.                                         *)
LEMMA Entries ==
  /\ \A s \in {0, 2, 9, 10, 11, 12, 13, 15, 16, 17, 18, 19, 20, 24} : NeedsToken(s)
      /\ Entry(s, 3) > 0
  /\ NeedsToken(6) /\ Entry(6, 4) > 0
  /\ \A s \in {5, 23} : NeedsToken(s) /\ \A x \in 6..14 : Entry(s, x) > 0
  /\ NeedsToken(4) /\ \A x \in 15..18 : Entry(4, x) > 0
  /\ NeedsToken(3) /\ Entry(3, 0) > 0
  BY DEF NeedsToken, Entry, At, yypact, yytable, yycheck, YYLAST, YYPACT_NINF

(* A reduction in state t, for the token x.                                *)
LEMMA ReduceStands ==
  ASSUME NEW t \in ParseStates, t \notin {1, 8}, NEW d, Stands(t, d), NEW x, Faces(t, d, x),
         x = NoToken \/ x \in 0..18,
         NeedsToken(t) => x \in 0..18 /\ ~(Entry(t, x) > 0),
         NEW r, r = At(yydefact, t), r > 0,
         NEW s \in ParseStates \ {0}, Symbol(s) = Lhs(r)
  PROVE  Faces(s, d, x) /\ (Lhs(r) # 25 => Stands(s, d))
<1>1. \/ t \in {2, 7} /\ Lhs(r) = 25
      \/ t \in {29, 30, 31, 32, 33, 34, 35} /\ Lhs(r) = 23
      \/ t \in {14, 21} /\ Lhs(r) = 23
      \/ t \in {6, 37} /\ Lhs(r) = 24
      \/ t = 5 /\ Lhs(r) = 22
      \/ t = 23 /\ Lhs(r) = 22
      \/ t = 22 /\ Lhs(r) = 21
      \/ t = 36 /\ Lhs(r) = 22
      \/ t = 4 /\ Lhs(r) = 20
      \/ t \in {25, 26, 27, 28} /\ Lhs(r) = 20
  BY DEF At, yydefact, ParseStates, Lhs, yyr1
<1>2. /\ Symbol(s) = 20 => s \in {3, 25, 26, 27, 28}
      /\ Symbol(s) = 21 => s = 4
      /\ Symbol(s) = 22 => s \in {22, 36}
      /\ Symbol(s) = 23 => s = 23
      /\ Symbol(s) = 24 => s \in {5, 37}
      /\ Symbol(s) = 25 => s \in {6, 7} \cup (29..35)
  BY StatesOfSymbols
<1> DEFINE l == Lhs(r)
<1>3. Symbol(s) = l
  OBVIOUS
<1> HIDE DEF l
<1>4. CASE t \in {2, 7} /\ l = 25
  <2>1. s \in {6, 7} \cup (29..35)
    BY <1>2, <1>3, <1>4
  <2>2. x \notin {NoToken, SYL}
    <3>1. CASE t = 2
      BY <3>1, Entries, Phrases
    <3>2. CASE t = 7
      BY <3>2 DEF Faces
    <3> QED BY <3>1, <3>2, <1>4
  <2> QED BY <2>1, <2>2, <1>4 DEF Faces, l
<1>5. CASE t \in {29, 30, 31, 32, 33, 34, 35} /\ l = 23
  <2>1. s = 23
    BY <1>2, <1>3, <1>5
  <2>2. d = "named" /\ x \notin {NoToken, SYL}
    BY <1>5 DEF Faces, Stands
  <2> QED BY <2>1, <2>2 DEF Faces, Stands
<1>6. CASE t \in {14, 21} /\ l = 23
  <2>1. s = 23
    BY <1>2, <1>3, <1>6
  <2>2. d = "shared"
    BY <1>6 DEF Stands
  <2> QED BY <2>1, <2>2 DEF Faces, Stands
<1>7. CASE t \in {6, 37} /\ l = 24
  <2>1. s \in {5, 37}
    BY <1>2, <1>3, <1>7
  <2>2. d = "word" /\ x \notin {NoToken, SYL, SPC}
    <3>1. d = "word" /\ x \notin {NoToken, SYL}
      BY <1>7 DEF Faces, Stands
    <3>2. CASE t = 6
      BY <3>1, <3>2, Entries, Phrases
    <3>3. CASE t = 37
      BY <3>1, <3>3 DEF Faces
    <3> QED BY <3>2, <3>3, <1>7
  <2> QED BY <2>1, <2>2 DEF Faces, Stands
<1>8. CASE t \in {5, 23} /\ l = 22
  <2>1. s \in {22, 36}
    BY <1>2, <1>3, <1>8
  <2>2. x \in 0..18 /\ x \notin 6..14
    BY <1>8, Entries
  <2>3. d \in {"word", "named", "shared"}
    BY <1>8 DEF Stands
  <2>4. CASE t = 5
    <3>1. d = "word" /\ x \notin {3, 4}
      BY <2>4, Phrases DEF Stands, Faces
    <3>2. x = 0 \/ x \in {15, 16, 17, 18} \/ x \in {1, 2, 5}
      BY <2>2, <3>1
    <3>3. x = 0 \/ x \in {15, 16, 17, 18} \/ After(d, x) = "dead"
      BY <3>2, AfterIs
    <3>4. x # NoToken
      BY <2>2, Phrases
    <3> QED BY <2>1, <2>3, <3>3, <3>4, Phrases DEF Faces, Stands, Accepting
  <2>5. CASE t = 23
    <3>1. d \in {"named", "shared"} /\ (d = "named" => x # 3)
      BY <2>5, Phrases DEF Stands, Faces
    <3>2. x = 0 \/ x \in {15, 16, 17, 18} \/ x \in {1, 2, 5} \/ x \in {3, 4}
      BY <2>2, <3>1
    <3>3. x \in {3, 4} => After(d, x) = "dead"
      BY <3>1, AfterIs
    <3>4. x = 0 \/ x \in {15, 16, 17, 18} \/ After(d, x) = "dead"
      BY <3>2, <3>3, AfterIs
    <3>5. x # NoToken
      BY <2>2, Phrases
    <3> QED BY <2>1, <2>3, <3>4, <3>5, Phrases DEF Faces, Stands, Accepting
  <2> QED BY <2>4, <2>5, <1>8
<1>9. CASE t \in {22, 36} /\ l \in {21, 22}
  <2>1. s \in {4, 22, 36}
    BY <1>2, <1>3, <1>9
  <2> QED BY <2>1, <1>9 DEF Faces, Stands
<1>10. CASE t \in {4, 25, 26, 27, 28} /\ l = 20
  <2>1. s \in {3, 25, 26, 27, 28} /\ d \in Accepting
    BY <1>2, <1>3, <1>10 DEF Stands
  <2>2. x # NoToken /\ (x = YYEOF \/ After(d, x) = "dead")
    <3>1. CASE t = 4
      <4>1. x # NoToken /\ (x = YYEOF \/ x \in Separators \/ After(d, x) = "dead")
        BY <3>1 DEF Faces
      <4>2. x \notin Separators
        BY <3>1, Entries, Phrases
      <4> QED BY <4>1, <4>2
    <3>2. CASE t \in {25, 26, 27, 28}
      BY <3>2 DEF Faces
    <3> QED BY <3>1, <3>2, <1>10
  <2> QED BY <2>1, <2>2 DEF Faces, Stands
<1> QED BY <1>1, <1>4, <1>5, <1>6, <1>7, <1>8, <1>9, <1>10 DEF l

(* Syllables, read one by one.                                             *)
LEMMA WordStands ==
  ASSUME NEW p \in ParseStates, NEW d, Stands(p, d),
         NEW s \in ParseStates, p \in Below(s), Symbol(s) = 25
  PROVE  Stands(s, After(d, SYL))
<1>1. s \in {6, 7} \cup (29..35)
  <2>1. s # 0
    BY DEF Symbol, At, yystos
  <2> QED BY <2>1, StatesOfSymbols
<1>2. CASE s = 6
  <2>1. p \in {0, 9, 10, 11, 12, 24}
    BY <1>2, BelowSymbols
  <2>2. d = "begin"
    BY <2>1 DEF Stands
  <2> QED BY <1>2, <2>2, AfterIs, Phrases DEF Stands
<1>3. CASE s = 7
  <2>1. p = 2
    BY <1>3, BelowSymbols
  <2>2. d \in {"word", "named"}
    BY <2>1 DEF Stands
  <2> QED BY <1>3, <2>2, AfterIs, Phrases DEF Stands
<1>4. CASE s \in 29..35
  <2>1. p \in {13, 15, 16, 17, 18, 19, 20}
    BY <1>4, BelowSymbols
  <2>2. d = "file"
    BY <2>1 DEF Stands
  <2>3. After(d, SYL) = "named"
    BY <2>2, AfterIs, Phrases
  <2> QED BY <1>4, <2>3 DEF Stands
<1> QED BY <1>1, <1>2, <1>3, <1>4

(* Further syllables of a word leave the phase alone.                      *)
LEMMA AfterTwice ==
  \A d \in {"word", "named"} : After(d, SYL) = d
  BY AfterIs, Phrases

(* No state, no rule: no sentence.                                         *)
LEMMA ErrorStands ==
  ASSUME NEW t \in ParseStates, NEW d, Stands(t, d), NEW x \in 0..18, Faces(t, d, x),
         ~(Entry(t, x) > 0), At(yydefact, t) = 0
  PROVE  Refused(d, x)
<1>1. t \in {0, 3, 9, 10, 11, 12, 13, 15, 16, 17, 18, 19, 20, 24}
  BY DEF At, yydefact, ParseStates
<1>2. CASE t = 3
  <2>1. x # 0
    BY <1>2, Entries
  <2>2. After(d, x) = "dead"
    BY <1>2, <2>1, Phrases DEF Faces
  <2> QED BY <2>1, <2>2, Phrases DEF Refused
<1>3. CASE t # 3
  <2>1. d \in {"begin", "file"}
    BY <1>1, <1>3 DEF Stands
  <2>2. x # 3
    BY <1>1, <1>3, Entries
  <2>3. x # 0 => After(d, x) = "dead"
    BY <2>1, <2>2, AfterIs
  <2>4. d \notin Accepting
    BY <2>1 DEF Accepting
  <2> QED BY <2>3, <2>4, Phrases DEF Refused
<1> QED BY <1>2, <1>3

(***************************************************************************)
(* The steps                                                               *)
(***************************************************************************)
(* A phase for each entry of the stack.                                    *)
Phased(stack, ph) ==
  /\ IsSeq(ph) /\ Len(ph) = Len(stack)
  /\ \A k \in 1..Len(stack) : ph[k] \in Phases /\ Stands(stack[k], ph[k])
  /\ \A k \in 2..Len(stack) : Symbol(stack[k]) \in {3, 25} => ph[k] = After(ph[k - 1], SYL)

(* What has been read, without the token that is looked at.                *)
IsRead(r) ==
  /\ IsSeq(r)
  /\ IF yychar \in {YYEMPTY, YYEOF} THEN input = r
     ELSE \E v : input = Append(r, [id |-> YYTRANSLATE(yychar), value |-> v])

(* Between two tokens: the entries of the stack stand for phases, the top   *)
(* one for the phase behind all that was read, and it may face the token    *)
(* that comes next.                                                        *)
PhaseInv ==
  pat \in {"setstate", "backup"} =>
    \E r, ph :
      /\ IsRead(r) /\ Phased(yyss, ph)
      /\ InPhase(r, ph[Len(yyss)])
      /\ Faces(yyss[Len(yyss)], ph[Len(yyss)], NextSymbol)

(* What yyparse answers of the tokens it has read.                         *)
Answers ==
  /\ yyresult = 0 => IsSentence(input)
  /\ yyresult = 1 /\ yychar # YYEOF => InPhase(input, "dead")
  /\ RefusesNoSentence

(* The symbol of the lookahead is the one yytranslate has for it.          *)
LEMMA NextSymbolIs ==
  /\ yychar = YYEMPTY <=> NextSymbol = NoToken
  /\ yychar # YYEMPTY => NextSymbol \in 0..18 /\ NextSymbol = YYTRANSLATE(yychar)
  /\ yychar = YYEOF <=> NextSymbol = YYEOF
<1>1. YYTRANSLATE(yychar) \in 0..18
  BY SymbolOfToken
<1>2. YYTRANSLATE(yychar) = 0 <=> yychar = 0
  BY DEF YYTRANSLATE, YYTERROR, YYUNDEFTOK, YYMAXUTOK
<1>3. YYEMPTY = -2 /\ YYEOF = 0 /\ NoToken = -1
  BY DEF YYEMPTY, YYEOF, NoToken
<1> QED BY <1>1, <1>2, <1>3 DEF NextSymbol

(* A stack stays phased when a state that stands for a phase is pushed on  *)
(* what is left of it.                                                     *)
LEMMA PhasedPush ==
  ASSUME NEW stack, IsSeq(stack), NEW ph, Phased(stack, ph), NEW n \in 1..Len(stack),
         NEW s, NEW d \in Phases, Stands(s, d),
         Symbol(s) \in {3, 25} => d = After(ph[n], SYL)
  PROVE  /\ Phased(Append(SubSeq(stack, 1, n), s), Append(SubSeq(ph, 1, n), d))
         /\ Len(Append(SubSeq(stack, 1, n), s)) = n + 1
         /\ Append(SubSeq(stack, 1, n), s)[n + 1] = s
         /\ Append(SubSeq(ph, 1, n), d)[n + 1] = d
<1> DEFINE u == Append(SubSeq(stack, 1, n), s)
           v == Append(SubSeq(ph, 1, n), d)
<1>1. Len(stack) \in Nat /\ IsSeq(ph) /\ Len(ph) = Len(stack)
  BY SeqFacts DEF Phased
<1>2. n \in 0..Len(stack) /\ n \in 0..Len(ph) /\ n \in Nat
  BY <1>1
<1>3. /\ IsSeq(u) /\ Len(u) = n + 1 /\ u[n + 1] = s
      /\ \A k \in 1..n : u[k] = stack[k]
  BY <1>2, Pushed
<1>4. /\ IsSeq(v) /\ Len(v) = n + 1 /\ v[n + 1] = d
      /\ \A k \in 1..n : v[k] = ph[k]
  BY <1>1, <1>2, Pushed
<1> HIDE DEF u, v
<1>5. ASSUME NEW k \in 1..Len(u) PROVE v[k] \in Phases /\ Stands(u[k], v[k])
  <2>1. CASE k = n + 1
    BY <2>1, <1>3, <1>4
  <2>2. CASE k # n + 1
    <3>1. k \in 1..n /\ k \in 1..Len(stack)
      BY <2>2, <1>1, <1>2, <1>3
    <3> QED BY <3>1, <1>3, <1>4 DEF Phased
  <2> QED BY <2>1, <2>2
<1>6. ASSUME NEW k \in 2..Len(u), Symbol(u[k]) \in {3, 25}
      PROVE  v[k] = After(v[k - 1], SYL)
  <2>1. CASE k = n + 1
    <3>1. k - 1 = n /\ n \in 1..n
      BY <2>1, <1>2
    <3>2. v[k - 1] = ph[n]
      BY <3>1, <1>4
    <3> QED BY <2>1, <3>2, <1>3, <1>4, <1>6
  <2>2. CASE k # n + 1
    <3>1. k \in 1..n /\ k - 1 \in 1..n /\ k \in 2..Len(stack)
      BY <2>2, <1>1, <1>2, <1>3
    <3>2. u[k] = stack[k] /\ v[k] = ph[k] /\ v[k - 1] = ph[k - 1]
      BY <3>1, <1>3, <1>4
    <3> QED BY <3>1, <3>2, <1>6 DEF Phased
  <2> QED BY <2>1, <2>2
<1>7. Phased(u, v)
  BY <1>3, <1>4, <1>5, <1>6 DEF Phased
<1> QED BY <1>3, <1>4, <1>7 DEF u, v

(* A shift or a reduction that pushes such a state keeps the phases right. *)
LEMMA PhasePush ==
  ASSUME StackInv, NEW ph, Phased(yyss, ph), NEW n \in 1..Len(yyss),
         NEW s, NEW d \in Phases, Stands(s, d),
         Symbol(s) \in {3, 25} => d = After(ph[n], SYL),
         yyss' = Append(SubSeq(yyss, 1, n), s),
         NEW r, IsRead(r)', InPhase(r, d), Faces(s, d, NextSymbol')
  PROVE  PhaseInv'
<1> DEFINE q == Append(SubSeq(ph, 1, n), d)
<1>1. IsSeq(yyss)
  BY DEF StackInv, Legal, IsSeq
<1>2. Phased(yyss', q) /\ Len(yyss') = n + 1 /\ yyss'[n + 1] = s /\ q[n + 1] = d
  BY <1>1, PhasedPush
<1> HIDE DEF q
<1> QED BY <1>2 DEF PhaseInv

(* A step that leaves stack, lookahead and input alone keeps the phases    *)
(* right.                                                                  *)
LEMMA PhaseKept ==
  ASSUME PhaseInv, UNCHANGED <<yyss, yychar, input>>,
         pat' \in {"setstate", "backup"} => pat \in {"setstate", "backup"}
  PROVE  PhaseInv'
  BY DEF PhaseInv, IsRead, NextSymbol

(* The phases are right when yyparse starts.                               *)
LEMMA InitPhase ==
  ASSUME PInit
  PROVE  PhaseInv
<1>1. yyss = <<0>> /\ yychar = YYEMPTY /\ input = <<>>
  BY DEF PInit, ParserIdle
<1> DEFINE ph == <<"begin">>
<1>2. /\ IsSeq(yyss) /\ Len(yyss) = 1 /\ yyss[1] = 0
      /\ IsSeq(ph) /\ Len(ph) = 1 /\ ph[1] = "begin"
  BY <1>1, SeqOne
<1> HIDE DEF ph
<1>3. Stands(0, "begin") /\ Faces(0, "begin", NextSymbol) /\ "begin" \in Phases
  BY DEF Stands, Faces, Phases
<1>4. Phased(yyss, ph)
  BY <1>2, <1>3 DEF Phased
<1>5. IsRead(<<>>)
  BY <1>1, SeqNone DEF IsRead
<1> QED BY <1>2, <1>3, <1>4, <1>5, PhaseNone DEF PhaseInv

(* The state on top, with its phase and what it faces.                     *)
LEMMA TopOfStack ==
  ASSUME StackInv
  PROVE  /\ Len(yyss) \in 1..Len(yyss) /\ yystate = yyss[Len(yyss)]
         /\ yystate \in ParseStates /\ IsSeq(yyss)
         /\ \A k \in 1..Len(yyss) : yyss[k] \in ParseStates
         /\ \A k \in 2..Len(yyss) : yyss[k - 1] \in Below(yyss[k])
<1>1. /\ Len(yyss) \in 1..Len(yyss) /\ yystate = yyss[Len(yyss)]
      /\ yystate \in ParseStates /\ IsSeq(yyss)
      /\ \A k \in 1..Len(yyss) : yyss[k] \in ParseStates
      /\ \A k \in 1..Len(yyss) - 1 : yyss[k] \in Below(yyss[k + 1])
  BY LegalTop DEF StackInv, Legal, yystate, Last, IsSeq
<1>2. ASSUME NEW k \in 2..Len(yyss) PROVE yyss[k - 1] \in Below(yyss[k])
  <2>1. k - 1 \in 1..Len(yyss) - 1 /\ (k - 1) + 1 = k
    BY <1>1
  <2> QED BY <1>1, <2>1
<1> QED BY <1>1, <1>2

(* Reading a token keeps the phases right.                                 *)
LEMMA ReadPhase ==
  ASSUME StackInv, PhaseInv, NEW token, NEW value, ReadToken(token, value)
  PROVE  PhaseInv'
<1>1. /\ pat = "backup" /\ pat' = pat /\ NeedsToken(yystate) /\ yychar = YYEMPTY
      /\ yyss' = yyss
      /\ yychar' = IF token <= YYEOF THEN YYEOF ELSE token
      /\ Record(token, value)
  BY DEF ReadToken, WantsToken, stacks
<1>2. PICK r, ph :
        /\ IsRead(r) /\ Phased(yyss, ph)
        /\ InPhase(r, ph[Len(yyss)])
        /\ Faces(yyss[Len(yyss)], ph[Len(yyss)], NextSymbol)
  BY <1>1 DEF PhaseInv
<1>3. IsSeq(r) /\ input = r
  BY <1>1, <1>2 DEF IsRead
<1>4. /\ yychar' = YYEOF => input' = r
      /\ yychar' \notin {YYEMPTY, YYEOF} =>
           input' = Append(r, [id |-> YYTRANSLATE(yychar'), value |-> value])
      /\ yychar' # YYEMPTY
  <2>1. YYEOF = 0 /\ YYEMPTY = -2
    BY DEF YYEOF, YYEMPTY
  <2>2. CASE token <= YYEOF
    BY <2>1, <2>2, <1>1, <1>3 DEF Record
  <2>3. CASE ~(token <= YYEOF)
    <3>1. yychar' = token /\ token # 0 /\ token # -2
      BY <2>1, <2>3, <1>1
    <3>2. input' = Append(r, [id |-> YYTRANSLATE(token), value |-> value])
      BY <2>3, <1>1, <1>3 DEF Record
    <3> QED BY <2>1, <3>1, <3>2
  <2> QED BY <2>2, <2>3
<1>5. IsRead(r)'
  BY <1>3, <1>4 DEF IsRead
<1>6. NextSymbol' \in 0..18
  <2>1. NextSymbol' = YYTRANSLATE(yychar')
    BY <1>4 DEF NextSymbol
  <2> QED BY <2>1, SymbolOfToken
<1>7. Faces(yyss[Len(yyss)], ph[Len(yyss)], NextSymbol')
  <2>1. yystate = yyss[Len(yyss)] /\ yystate \in ParseStates /\ Len(yyss) \in 1..Len(yyss)
    BY TopOfStack
  <2>2. NextSymbol = NoToken
    BY <1>1 DEF NextSymbol
  <2>3. Stands(yystate, ph[Len(yyss)])
    BY <2>1, <1>2 DEF Phased
  <2> QED BY <2>1, <2>2, <2>3, <1>1, <1>2, <1>6, FacesAny
<1>8. Phased(yyss', ph) /\ InPhase(r, ph[Len(yyss')])
       /\ Faces(yyss'[Len(yyss')], ph[Len(yyss')], NextSymbol')
  BY <1>1, <1>2, <1>7
<1> QED BY <1>5, <1>8 DEF PhaseInv

(* The token that is looked at is read.                                    *)
LEMMA TokenPhase ==
  ASSUME NEW r, IsRead(r), NEW d, InPhase(r, d), NextSymbol # NoToken
  PROVE  InPhase(input, Shifted(d, NextSymbol)) /\ IsSeq(input)
<1>1. IsSeq(r)
  BY DEF IsRead
<1>2. CASE yychar = YYEOF
  <2>1. input = r /\ NextSymbol = YYEOF
    BY <1>2, NextSymbolIs DEF IsRead
  <2> QED BY <1>1, <2>1 DEF Shifted
<1>3. CASE yychar # YYEOF
  <2>1. yychar # YYEMPTY /\ NextSymbol = YYTRANSLATE(yychar) /\ NextSymbol # YYEOF
    BY <1>3, NextSymbolIs
  <2>2. PICK v : input = Append(r, [id |-> NextSymbol, value |-> v])
    BY <1>3, <2>1 DEF IsRead
  <2> DEFINE t == [id |-> NextSymbol, value |-> v]
  <2>3. t.id = NextSymbol
    OBVIOUS
  <2> HIDE DEF t
  <2>4. input = Append(r, t)
    BY <2>2 DEF t
  <2>5. InPhase(Append(r, t), After(d, t.id)) /\ IsSeq(Append(r, t))
    BY <1>1, PhaseNext, SeqAppend
  <2> QED BY <2>1, <2>3, <2>4, <2>5 DEF Shifted
<1> QED BY <1>2, <1>3

(* A shift keeps the phases right.                                         *)
LEMMA ShiftPhase == ASSUME StackInv, PhaseInv, Shift PROVE PhaseInv'
<1> DEFINE n == Len(yyss)
           x == NextSymbol
           s == Action[2]
<1>1. /\ n \in 1..Len(yyss) /\ yystate = yyss[n] /\ yystate \in ParseStates
  BY TopOfStack
<1>2. /\ NeedsToken(yystate) /\ Entry(yystate, YYTRANSLATE(yychar)) > 0
      /\ s = Entry(yystate, YYTRANSLATE(yychar))
  BY DEF Shift, Action, ParseAction, DefaultAction
<1>3. /\ pat = "backup" /\ yychar # YYEMPTY /\ yyss' = Append(yyss, s)
      /\ yychar' = YYEMPTY /\ input' = input
  BY <1>2 DEF Shift, Ready
<1>4. x \in 0..18 /\ x = YYTRANSLATE(yychar) /\ x # NoToken
  BY <1>3, NextSymbolIs, Phrases
<1>5. PICK r, ph :
        /\ IsRead(r) /\ Phased(yyss, ph)
        /\ InPhase(r, ph[n]) /\ Faces(yyss[n], ph[n], x)
  BY <1>3 DEF PhaseInv
<1> DEFINE d == Shifted(ph[n], x)
<1>6. ph[n] \in Phases /\ Stands(yystate, ph[n])
  BY <1>1, <1>5 DEF Phased
<1>7. s \in ParseStates
  <2> HIDE DEF s, x
  <2> QED BY <1>1, <1>2, <1>4, ShiftEdge
<1>8. /\ Stands(s, d) /\ Faces(s, d, NoToken)
      /\ Symbol(s) \in {3, 25} => d = After(ph[n], SYL)
  <2> HIDE DEF s, x
  <2> QED BY <1>1, <1>2, <1>4, <1>6, ShiftStands
<1>9. InPhase(input, d) /\ IsSeq(input)
  BY <1>4, <1>5, TokenPhase
<1>10. d \in Phases
  BY <1>6, AfterIsPhase DEF Shifted
<1>11. PICK i : i = input
  OBVIOUS
<1>12. IsRead(i)' /\ NextSymbol' = NoToken /\ InPhase(i, d)
  BY <1>3, <1>9, <1>11 DEF IsRead, NextSymbol
<1>13. yyss' = Append(SubSeq(yyss, 1, n), s)
  BY <1>3, WholePrefix DEF StackInv, Legal
<1> HIDE DEF s, d, x
<1>14. Faces(s, d, NextSymbol')
  BY <1>8, <1>12
<1> QED BY <1>1, <1>5, <1>8, <1>10, <1>12, <1>13, <1>14, PhasePush

(* The states of a syllable and its neighbours, those without a rule.       *)
LEMMA SyllableStates ==
  /\ Symbol(2) = 3 /\ Symbol(7) = 25
  /\ \A p \in Below(7) : Symbol(p) = 3
  /\ \A t \in ParseStates :
       At(yydefact, t) = 0 => t \in {0, 3, 9, 10, 11, 12, 13, 15, 16, 17, 18, 19, 20, 24}
<1>1. Symbol(2) = 3 /\ Symbol(7) = 25
  BY DEF Symbol, At, yystos
<1>2. Below(7) = {2}
  BY DEF Below, At, predecessors
<1>3. \A t \in ParseStates :
        At(yydefact, t) = 0 => t \in {0, 3, 9, 10, 11, 12, 13, 15, 16, 17, 18, 19, 20, 24}
  BY DEF At, yydefact, ParseStates
<1> QED BY <1>1, <1>2, <1>3

(* A reduction keeps the phases right. Every rule is looked at, with every *)
(* state it can be found in.                                               *)
LEMMA ReducePhase == ASSUME StackInv, PhaseInv, Reduce PROVE PhaseInv'
<1> DEFINE l == Len(yyss)
           x == NextSymbol
           rule == Action[2]
           n == l - Length(rule)
           s == GotoState(yyss[n], Lhs(rule))
<1>1. /\ l \in 1..l /\ yystate = yyss[l] /\ yystate \in ParseStates /\ l \in Nat
  BY TopOfStack
<1>2. /\ Ready /\ rule # 22 /\ n \in 1..l
      /\ s \in ParseStates \ {0} /\ yyss[n] \in Below(s) /\ Symbol(s) = Lhs(rule)
      /\ yyss' = Append(SubSeq(yyss, 1, n), s)
  BY ReducePushes DEF Follows
<1>3. yystate # 8 /\ rule = At(yydefact, yystate) /\ rule > 0 /\ Action[1] = "reduce"
  BY RuleOfState DEF Reduce, YYFINAL
<1>4. yystate # 1
  <2>1. At(yydefact, 1) = 22
    BY DEF At, yydefact
  <2> HIDE DEF rule
  <2> QED BY <2>1, <1>2, <1>3
<1>5. /\ x = NoToken \/ x \in 0..18
      /\ NeedsToken(yystate) => x \in 0..18 /\ ~(Entry(yystate, x) > 0)
  <2>1. x = NoToken \/ x \in 0..18
    BY NextSymbolIs
  <2>2. ASSUME NeedsToken(yystate) PROVE x \in 0..18 /\ ~(Entry(yystate, x) > 0)
    <3>1. yychar # YYEMPTY
      BY <1>2, <2>2 DEF Ready
    <3>2. x \in 0..18 /\ x = YYTRANSLATE(yychar)
      BY <3>1, NextSymbolIs
    <3>3. Action = ParseAction(yystate, YYTRANSLATE(yychar))
      BY <2>2 DEF Action
    <3>4. ~(Entry(yystate, YYTRANSLATE(yychar)) > 0)
      BY <2>2, <3>3, <1>3 DEF ParseAction
    <3> QED BY <3>2, <3>4
  <2> QED BY <2>1, <2>2
<1>6. PICK r, ph :
        /\ IsRead(r) /\ Phased(yyss, ph)
        /\ InPhase(r, ph[l]) /\ Faces(yyss[l], ph[l], x)
  BY <1>2 DEF PhaseInv, Ready
<1> DEFINE d == ph[l]
<1>7. d \in Phases /\ Stands(yystate, d) /\ Faces(yystate, d, x)
  BY <1>1, <1>6 DEF Phased
<1>8. Faces(s, d, x) /\ (Lhs(rule) # 25 => Stands(s, d))
  <2> HIDE DEF d, x, s, rule
  <2> QED BY <1>1, <1>2, <1>3, <1>4, <1>5, <1>7, ReduceStands
<1>9. /\ Lhs(rule) = 25 => yystate \in {2, 7} /\ Length(rule) = (IF yystate = 2 THEN 1 ELSE 2)
      /\ Lhs(rule) # 3
  <2> HIDE DEF d, x, s, n
  <2>1. yystate \in ParseStates /\ rule = At(yydefact, yystate) /\ rule > 0
    BY <1>1, <1>3
  <2> HIDE DEF rule
  <2> QED BY <2>1 DEF Lhs, Length, At, yydefact, yyr1, yyr2, ParseStates
<1>10. ASSUME Lhs(rule) = 25 PROVE d = After(ph[n], SYL) /\ Stands(s, d)
  <2>1. yyss[n] \in ParseStates /\ ph[n] \in Phases /\ Stands(yyss[n], ph[n])
    BY <1>1, <1>2, <1>6, TopOfStack DEF Phased
  <2>2. Stands(s, After(ph[n], SYL))
    <3> HIDE DEF s, n
    <3> QED BY <1>2, <1>10, <2>1, WordStands
  <2>3. d = After(ph[n], SYL)
    <3>1. CASE yystate = 2
      <4>1. n = l - 1 /\ l \in 2..l
        <5> HIDE DEF rule, l
        <5> QED BY <3>1, <1>1, <1>2, <1>9, <1>10
      <4>2. Symbol(yyss[l]) = 3
        BY <3>1, <1>1, SyllableStates
      <4> QED BY <4>1, <4>2, <1>6 DEF Phased
    <3>2. CASE yystate = 7
      <4>1. n = l - 2 /\ l \in 2..l /\ l - 1 \in 2..l /\ n = (l - 1) - 1
        <5> HIDE DEF rule, l
        <5> QED BY <3>2, <1>1, <1>2, <1>9, <1>10
      <4>2. Symbol(yyss[l]) = 25 /\ yyss[l - 1] \in Below(7)
        <5>1. yyss[l - 1] \in Below(yyss[l])
          BY <4>1, TopOfStack
        <5> QED BY <5>1, <3>2, <1>1, SyllableStates
      <4>3. Symbol(yyss[l - 1]) = 3
        BY <4>2, SyllableStates
      <4>4. d = After(ph[l - 1], SYL) /\ ph[l - 1] = After(ph[n], SYL)
        BY <4>1, <4>2, <4>3, <1>6 DEF Phased
      <4>5. After(ph[n], SYL) \in {"word", "named"} \/ After(ph[n], SYL) = "dead"
        BY Phrases DEF After
      <4>6. After("dead", SYL) = "dead"
        BY AfterIs
      <4> QED BY <4>4, <4>5, <4>6, AfterTwice
    <3> QED BY <3>1, <3>2, <1>9, <1>10
  <2> QED BY <2>2, <2>3
<1>11. yychar' = yychar /\ input' = input
  BY DEF Reduce
<1>12. IsRead(r)' /\ NextSymbol' = x
  BY <1>6, <1>11 DEF IsRead, NextSymbol
<1>13. Stands(s, d) /\ (Symbol(s) \in {3, 25} => d = After(ph[n], SYL))
  BY <1>2, <1>8, <1>9, <1>10
<1>14. Faces(s, d, NextSymbol') /\ InPhase(r, d)
  BY <1>6, <1>8, <1>12
<1> HIDE DEF s, d, x, n, rule
<1> QED BY <1>2, <1>6, <1>7, <1>12, <1>13, <1>14, PhasePush

(* A syntax error keeps the phases right.                                  *)
LEMMA ErrorPhase == ASSUME StackInv, PhaseInv, SyntaxError PROVE PhaseInv'
<1> DEFINE l == Len(yyss)
           x == NextSymbol
<1>1. /\ l \in 1..l /\ yystate = yyss[l] /\ yystate \in ParseStates /\ l \in Nat
  BY TopOfStack
<1>2. PICK n \in DOMAIN yyss :
        /\ ShiftsError(yyss[n])
        /\ yyss' = Append(SubSeq(yyss, 1, n), Entry(yyss[n], YYTERROR))
  BY DEF SyntaxError
<1> DEFINE s == Entry(yyss[n], YYTERROR)
<1>3. n \in 1..l /\ yyss[n] \in ParseStates
  BY <1>1, TopOfStack, LenProperties DEF StackInv, Legal
<1>4. s = 1
  <2>1. YYTERROR \in 0..18 /\ YYTERROR = 1
    BY DEF YYTERROR
  <2>2. s \in ParseStates \ {0} /\ Symbol(s) = 1
    BY <1>2, <1>3, <2>1, ShiftEdge DEF ShiftsError
  <2> HIDE DEF s
  <2> QED BY <2>2, StatesOfSymbols
<1>5. /\ Ready /\ Action[1] = "error"
      /\ yychar' = yychar /\ input' = input
  BY DEF SyntaxError
<1>6. PICK r, ph :
        /\ IsRead(r) /\ Phased(yyss, ph)
        /\ InPhase(r, ph[l]) /\ Faces(yyss[l], ph[l], x)
  BY <1>5 DEF PhaseInv, Ready
<1> DEFINE d == ph[l]
<1>7. d \in Phases /\ Stands(yystate, d) /\ Faces(yystate, d, x)
  BY <1>1, <1>6 DEF Phased
<1>8. NeedsToken(yystate) /\ At(yydefact, yystate) = 0
  <2>1. CASE ~NeedsToken(yystate)
    <3>1. At(yydefact, yystate) = 0
      BY <2>1, <1>5 DEF Action, DefaultAction
    <3>2. yystate \notin {0, 3, 9, 10, 11, 12, 13, 15, 16, 17, 18, 19, 20, 24}
      BY <2>1, Entries
    <3> QED BY <3>1, <3>2, <1>1, SyllableStates
  <2>2. CASE NeedsToken(yystate)
    <3>1. Action = ParseAction(yystate, YYTRANSLATE(yychar))
      BY <2>2 DEF Action
    <3> QED BY <2>2, <3>1, <1>5 DEF ParseAction, DefaultAction
  <2> QED BY <2>1, <2>2
<1>9. x \in 0..18 /\ ~(Entry(yystate, x) > 0)
  <2>1. yychar # YYEMPTY
    BY <1>5, <1>8 DEF Ready
  <2>2. x \in 0..18 /\ x = YYTRANSLATE(yychar)
    BY <2>1, NextSymbolIs
  <2>3. Action = ParseAction(yystate, YYTRANSLATE(yychar))
    BY <1>8 DEF Action
  <2>4. ~(Entry(yystate, YYTRANSLATE(yychar)) > 0)
    BY <1>5, <1>8, <2>3 DEF ParseAction
  <2> QED BY <2>2, <2>4
<1>10. Refused(d, x)
  <2> HIDE DEF d, x
  <2> QED BY <1>1, <1>7, <1>8, <1>9, ErrorStands
<1>11. IsRead(r)' /\ NextSymbol' = x
  BY <1>5, <1>6 DEF IsRead, NextSymbol
<1>12. /\ Stands(1, d) /\ Faces(1, d, NextSymbol')
       /\ Symbol(1) \notin {3, 25} /\ InPhase(r, d)
  <2>1. Symbol(1) = 1
    BY DEF Symbol, At, yystos
  <2> QED BY <2>1, <1>6, <1>10, <1>11 DEF Stands, Faces
<1>13. yyss' = Append(SubSeq(yyss, 1, n), 1)
  BY <1>2, <1>4
<1> HIDE DEF s, d, x
<1> QED BY <1>3, <1>6, <1>7, <1>11, <1>12, <1>13, PhasePush

(* Every step of the parser keeps the phases right.                        *)
LEMMA PhaseStep == StackInv /\ PhaseInv /\ [PNext]_pvars => PhaseInv'
<1> SUFFICES ASSUME StackInv, PhaseInv, [PNext]_pvars PROVE PhaseInv'
  OBVIOUS
<1>1. CASE SetState
  BY <1>1, PhaseKept DEF SetState, stacks
<1>2. CASE Accept \/ Exhausted \/ Abort
  BY <1>2 DEF Accept, Exhausted, Abort, ReturnWith, PhaseInv
<1>3. CASE Grow
  <2>1. CASE Full(GrownSize)
    BY <1>3, <2>1 DEF Grow, ReturnWith, PhaseInv
  <2>2. CASE ~Full(GrownSize)
    BY <1>3, <2>2, PhaseKept DEF Grow
  <2> QED BY <2>1, <2>2
<1>4. CASE Shift
  BY <1>4, ShiftPhase
<1>5. CASE Reduce
  BY <1>5, ReducePhase
<1>6. CASE GlobTarget
  BY <1>6 DEF GlobTarget, PhaseInv
<1>7. CASE SyntaxError
  BY <1>7, ErrorPhase
<1>8. CASE \E token, value : ReadToken(token, value)
  BY <1>8, ReadPhase
<1>9. CASE UNCHANGED pvars
  BY <1>9, PhaseKept DEF pvars, stacks
<1> QED BY <1>1, <1>2, <1>3, <1>4, <1>5, <1>6, <1>7, <1>8, <1>9 DEF PNext, Step

(* What the parser says when it returns.                                   *)
LEMMA AcceptAnswers ==
  ASSUME StackInv, PhaseInv, Accept
  PROVE  IsSentence(input)
<1> DEFINE l == Len(yyss)
           x == NextSymbol
<1>1. l \in 1..l /\ yyss[l] = 8
  BY TopOfStack DEF Accept, YYFINAL
<1>2. PICK r, ph :
        /\ IsRead(r) /\ Phased(yyss, ph)
        /\ InPhase(r, ph[l]) /\ Faces(yyss[l], ph[l], x)
  BY DEF PhaseInv, Accept
<1>3. ph[l] \in Accepting /\ x = NoToken
  BY <1>1, <1>2 DEF Phased, Stands, Faces
<1>4. input = r /\ IsSeq(r)
  BY <1>2, <1>3, NextSymbolIs DEF IsRead
<1> QED BY <1>2, <1>3, <1>4, PhaseSays

(* When yyparse gives up, what was read is no sentence, and no sentence    *)
(* begins with it unless the whole input was read.                         *)
LEMMA AbortAnswers ==
  ASSUME StackInv, PhaseInv, Abort
  PROVE  /\ ~IsSentence(input)
         /\ yychar # YYEOF => ~IsSentence(Append(input, [id |-> SYL, value |-> NoValue]))
         /\ yychar # YYEOF => InPhase(input, "dead")
<1> DEFINE l == Len(yyss)
           x == NextSymbol
           t == [id |-> SYL, value |-> NoValue]
<1>1. l \in 1..l /\ yyss[l] = 1
  <2>1. /\ yystate = yyss[l] /\ yystate \in ParseStates /\ l \in 1..l
    BY TopOfStack
  <2>2. Action[1] = "reduce" /\ Action[2] = 22 /\ Ready
    BY DEF Abort
  <2>3. yystate # YYFINAL /\ At(yydefact, yystate) = 22
    BY <2>2, RuleOfState
  <2>4. yystate = 1
    BY <2>1, <2>3, Reductions
  <2> QED BY <2>1, <2>4
<1>2. PICK r, ph :
        /\ IsRead(r) /\ Phased(yyss, ph)
        /\ InPhase(r, ph[l]) /\ Faces(yyss[l], ph[l], x)
  BY DEF PhaseInv, Abort, Ready
<1> DEFINE d == ph[l]
           e == IF x = NoToken THEN d ELSE Shifted(d, x)
<1>3. Refused(d, x)
  BY <1>1, <1>2 DEF Faces
<1>4. IsSeq(input) /\ InPhase(input, e)
  <2>1. CASE x = NoToken
    BY <2>1, <1>2, NextSymbolIs DEF IsRead
  <2>2. CASE x # NoToken
    BY <2>2, <1>2, TokenPhase
  <2> QED BY <2>1, <2>2
<1>5. /\ x = YYEOF => e = d /\ d \notin Accepting
      /\ x # YYEOF => e = "dead"
  BY <1>3, Phrases DEF Refused, Shifted
<1>6. e \notin Accepting
  BY <1>5 DEF Accepting
<1>7. t.id = SYL
  OBVIOUS
<1> HIDE DEF t, e, d
<1>8. ~IsSentence(input)
  BY <1>4, <1>6, PhaseSays
<1>9. ASSUME yychar # YYEOF PROVE ~IsSentence(Append(input, t))
  <2>1. x # YYEOF
    BY <1>9, NextSymbolIs, Phrases
  <2>2. After(e, SYL) = "dead"
    BY <2>1, <1>5, AfterIs
  <2>3. InPhase(Append(input, t), "dead") /\ IsSeq(Append(input, t))
    BY <1>4, <1>7, <2>2, PhaseNext, SeqAppend
  <2> QED BY <2>3, PhaseSays DEF Accepting
<1>10. ASSUME yychar # YYEOF PROVE InPhase(input, "dead")
  <2>1. x # YYEOF
    BY <1>10, NextSymbolIs, Phrases
  <2> QED BY <2>1, <1>4, <1>5
<1> QED BY <1>8, <1>9, <1>10 DEF t

(* Every step keeps the answers of yyparse right.                          *)
LEMMA AnswersStep ==
  StackInv /\ NoResultYet /\ PhaseInv /\ Answers /\ [PNext]_pvars => Answers'
<1> SUFFICES ASSUME StackInv, NoResultYet, PhaseInv, Answers, [PNext]_pvars PROVE Answers'
  OBVIOUS
<1>1. CASE Accept
  <2>1. yyresult' = 0 /\ input' = input
    BY <1>1 DEF Accept, ReturnWith
  <2> QED BY <1>1, <2>1, AcceptAnswers DEF Answers, RefusesNoSentence
<1>2. CASE Abort
  <2>1. yyresult' = 1 /\ input' = input /\ yychar' = yychar
    BY <1>2 DEF Abort, ReturnWith
  <2> QED BY <1>2, <2>1, AbortAnswers DEF Answers, RefusesNoSentence
<1>3. CASE Exhausted
  BY <1>3 DEF Exhausted, ReturnWith, Answers, RefusesNoSentence
<1>4. CASE Grow
  <2>1. ~Full(GrownSize)
    BY <1>4, SizeIsPositive, TopOfStack DEF Full, StackInv, Grow
  <2>2. UNCHANGED <<yyresult, input, yychar>>
    BY <1>4, <2>1 DEF Grow
  <2> QED BY <2>2 DEF Answers, RefusesNoSentence
<1>5. CASE SetState \/ Shift \/ Reduce \/ GlobTarget \/ SyntaxError
  <2>1. yyresult' = yyresult /\ pat # "returned"
    BY <1>5 DEF SetState, Shift, Reduce, GlobTarget, SyntaxError, Ready
  <2> QED BY <2>1 DEF NoResultYet, Answers, RefusesNoSentence
<1>6. CASE \E token, value : ReadToken(token, value)
  <2>1. yyresult' = yyresult /\ pat # "returned"
    BY <1>6 DEF ReadToken, WantsToken
  <2> QED BY <2>1 DEF NoResultYet, Answers, RefusesNoSentence
<1>7. CASE UNCHANGED pvars
  BY <1>7 DEF pvars, Answers, RefusesNoSentence
<1> QED BY <1>1, <1>2, <1>3, <1>4, <1>5, <1>6, <1>7 DEF PNext, Step

(* For every format and every scanner: when yyparse gives up, what it has  *)
(* read (token by token, in input) is no sentence of parser.y; and when    *)
(* the last token it read was not the end of the input, what it has read   *)
(* is the beginning of no sentence either, so that no more input could     *)
(* have helped.                                                            *)
THEOREM AnswersAreRight == PSpec => []Answers
<1>1. PInit => PhaseInv /\ Answers
  <2> SUFFICES ASSUME PInit PROVE PhaseInv /\ Answers
    OBVIOUS
  <2>1. yyresult = -1
    BY DEF PInit, ParserIdle
  <2> QED BY <2>1, InitPhase DEF Answers, RefusesNoSentence
<1> QED BY <1>1, PhaseStep, AnswersStep, StackInvariant, ValuesInvariant, PTL DEF PSpec

(* RefusesNoSentence for every format and every scanner: yyparse           *)
(* (parser.y:51-87, as the tables bison made of it have it) refuses no     *)
(* sentence of the grammar, and stops early only where no sentence begins  *)
(* with the tokens it has read.                                            *)
THEOREM RefusalsAreRight == PSpec => []RefusesNoSentence
<1>1. Answers => RefusesNoSentence
  BY DEF Answers
<1> QED BY <1>1, AnswersAreRight, PTL

(***************************************************************************)
(* Putting sequences of tokens one behind the other                        *)
(***************************************************************************)
(* Nothing, then a sequence.                                               *)
LEMMA NoneThen ==
  ASSUME NEW t, IsSeq(t)
  PROVE  <<>> \o t = t
<1> DEFINE e == <<>>
           c == e \o t
<1>1. IsSeq(e) /\ Len(e) = 0 /\ Len(t) \in Nat
  BY SeqNone, SeqFacts
<1> HIDE DEF e
<1>2. /\ IsSeq(c) /\ Len(c) = 0 + Len(t)
      /\ \A k \in 1..(0 + Len(t)) : c[k] = IF k <= 0 THEN e[k] ELSE t[k - 0]
  BY <1>1, SeqConcat
<1> HIDE DEF c
<1>3. Len(c) = Len(t) /\ \A k \in 1..Len(c) : c[k] = t[k]
  BY <1>1, <1>2
<1>4. c = t
  BY <1>2, <1>3, SameSeq
<1> QED BY <1>4 DEF c, e

(* A sequence, then nothing.                                               *)
LEMMA ThenNone ==
  ASSUME NEW s, IsSeq(s)
  PROVE  s \o <<>> = s
<1> DEFINE e == <<>>
           c == s \o e
<1>1. IsSeq(e) /\ Len(e) = 0 /\ Len(s) \in Nat
  BY SeqNone, SeqFacts
<1> HIDE DEF e
<1>2. /\ IsSeq(c) /\ Len(c) = Len(s) + Len(e)
      /\ \A k \in 1..(Len(s) + Len(e)) : c[k] = IF k <= Len(s) THEN s[k] ELSE e[k - Len(s)]
  BY <1>1, SeqConcat
<1> HIDE DEF c
<1>3. Len(c) = Len(s) /\ \A k \in 1..Len(c) : c[k] = s[k]
  BY <1>1, <1>2
<1>4. c = s
  BY <1>2, <1>3, SameSeq
<1> QED BY <1>4 DEF c, e

(* An element put in front of a sequence that another one follows.         *)
LEMMA ConsThen ==
  ASSUME NEW x, NEW s, IsSeq(s), NEW t, IsSeq(t)
  PROVE  Cons(x, s) \o t = Cons(x, s \o t)
<1> DEFINE a == Cons(x, s)
           b == s \o t
           c == a \o t
           d == Cons(x, b)
<1>1. /\ IsSeq(a) /\ Len(a) = Len(s) + 1 /\ Len(s) \in Nat /\ Len(t) \in Nat
      /\ a[1] = x /\ \A k \in 2..(Len(s) + 1) : a[k] = s[k - 1]
  BY ConsFacts, SeqFacts
<1>2. /\ IsSeq(b) /\ Len(b) = Len(s) + Len(t)
      /\ \A k \in 1..(Len(s) + Len(t)) : b[k] = IF k <= Len(s) THEN s[k] ELSE t[k - Len(s)]
  BY SeqConcat
<1> HIDE DEF a, b
<1>3. /\ IsSeq(c) /\ Len(c) = Len(a) + Len(t)
      /\ \A k \in 1..(Len(a) + Len(t)) : c[k] = IF k <= Len(a) THEN a[k] ELSE t[k - Len(a)]
  BY <1>1, SeqConcat
<1>4. /\ IsSeq(d) /\ Len(d) = Len(b) + 1 /\ d[1] = x
      /\ \A k \in 2..(Len(b) + 1) : d[k] = b[k - 1]
  <2>1. IsSeq(b)
    BY <1>2
  <2> QED BY <2>1, ConsFacts
<1> HIDE DEF c, d
<1>5. Len(c) = Len(d) /\ Len(c) = Len(a) + Len(t) /\ Len(c) = Len(b) + 1
  BY <1>1, <1>2, <1>3, <1>4
<1>6. ASSUME NEW k \in 1..Len(c) PROVE c[k] = d[k]
  <2>0. c[k] = IF k <= Len(a) THEN a[k] ELSE t[k - Len(a)]
    BY <1>3, <1>5
  <2>1. CASE k = 1
    BY <2>0, <2>1, <1>1, <1>4
  <2>2. CASE k # 1
    <3>1. k \in 2..(Len(b) + 1) /\ k - 1 \in 1..(Len(s) + Len(t))
      BY <2>2, <1>1, <1>2, <1>5
    <3>2. d[k] = IF k - 1 <= Len(s) THEN s[k - 1] ELSE t[(k - 1) - Len(s)]
      BY <3>1, <1>2, <1>4
    <3>3. CASE k <= Len(a)
      <4>1. k \in 2..(Len(s) + 1) /\ k - 1 <= Len(s)
        BY <3>1, <3>3, <1>1
      <4> QED BY <2>0, <3>2, <3>3, <4>1, <1>1
    <3>4. CASE ~(k <= Len(a))
      <4>1. ~(k - 1 <= Len(s)) /\ (k - 1) - Len(s) = k - Len(a)
        BY <3>1, <3>4, <1>1
      <4> QED BY <2>0, <3>2, <3>4, <4>1
    <3> QED BY <3>3, <3>4
  <2> QED BY <2>1, <2>2
<1>7. c = d
  BY <1>3, <1>4, <1>5, <1>6, SameSeq
<1> QED BY <1>7 DEF a, b, c, d

(* No token in cuts.                                                       *)
Uncut(s, cuts) == IsSeq(s) /\ \A k \in 1..Len(s) : s[k].id \notin cuts

(* Tokens that do not cut lengthen the first piece of what follows.        *)
LEMMA PiecesAfter ==
  ASSUME NEW cuts, NEW t, IsSeq(t), NEW s, Uncut(s, cuts)
  PROVE  Pieces(s \o t, cuts) = Cons(s \o Head(Pieces(t, cuts)), Tail(Pieces(t, cuts)))
<1> DEFINE p == Pieces(t, cuts)
           h == Head(p)
           u == Tail(p)
           Holds(a) == Pieces(a \o t, cuts) = Cons(a \o h, u)
           T == {n \in Nat : \A a : Uncut(a, cuts) /\ Len(a) = n => Holds(a)}
<1>1. ArePieces(p, cuts)
  BY PiecesArePieces
<1>2. IsSeq(p) /\ IsSeq(h) /\ IsSeq(u) /\ p = Cons(h, u)
  <2> HIDE DEF p
  <2>1. IsSeq(p) /\ Len(p) >= 1 /\ Len(p) \in Nat
    BY <1>1, SeqFacts DEF ArePieces
  <2>2. IsSeq(u) /\ h = p[1] /\ p = Cons(h, u)
    BY <2>1, HeadAndTail
  <2>3. IsSeq(p[1])
    BY <1>1, <2>1 DEF ArePieces
  <2> QED BY <2>1, <2>2, <2>3
<1> HIDE DEF h, u
<1>3. 0 \in T
  <2> SUFFICES ASSUME NEW a, Uncut(a, cuts), Len(a) = 0 PROVE Holds(a)
    OBVIOUS
  <2> DEFINE e == <<>>
  <2>1. a = e
    <3>1. IsSeq(e) /\ Len(e) = 0
      BY SeqNone
    <3> HIDE DEF e
    <3> QED BY <3>1, SameSeq DEF Uncut
  <2>2. e \o t = t /\ e \o h = h
    BY <1>2, NoneThen
  <2> HIDE DEF e
  <2>3. Pieces(a \o t, cuts) = p /\ Cons(a \o h, u) = p
    BY <2>1, <2>2, <1>2
  <2> QED BY <2>3
<1>4. ASSUME NEW n \in Nat, n \in T PROVE n + 1 \in T
  <2> SUFFICES ASSUME NEW a, Uncut(a, cuts), Len(a) = n + 1 PROVE Holds(a)
    OBVIOUS
  <2> DEFINE x == Head(a)
             b == Tail(a)
             q == Pieces(b \o t, cuts)
  <2>1. /\ IsSeq(a) /\ IsSeq(b) /\ Len(b) = (n + 1) - 1 /\ x = a[1] /\ a = Cons(x, b)
        /\ \A k \in 1..((n + 1) - 1) : b[k] = a[k + 1]
    <3>1. IsSeq(a) /\ Len(a) >= 1
      BY DEF Uncut
    <3> QED BY <3>1, HeadAndTail
  <2> HIDE DEF b, x
  <2>2. Len(b) = n /\ Uncut(b, cuts) /\ x.id \notin cuts
    <3>1. ASSUME NEW k \in 1..n PROVE b[k].id \notin cuts
      <4>1. k + 1 \in 1..(n + 1) /\ b[k] = a[k + 1]
        BY <2>1
      <4> QED BY <4>1 DEF Uncut
    <3>2. 1 \in 1..(n + 1)
      OBVIOUS
    <3> QED BY <2>1, <3>1, <3>2 DEF Uncut
  <2>3. q = Cons(b \o h, u)
    BY <1>4, <2>2
  <2>4. IsSeq(b \o t) /\ IsSeq(b \o h) /\ a \o t = Cons(x, b \o t) /\ a \o h = Cons(x, b \o h)
    <3>1. IsSeq(b \o t) /\ IsSeq(b \o h)
      BY <1>2, <2>1, SeqConcat
    <3> HIDE DEF T, Holds, q, p
    <3>0. IsSeq(b) /\ IsSeq(h) /\ IsSeq(t)
      BY <1>2, <2>1
    <3>2. Cons(x, b) \o t = Cons(x, b \o t)
      BY <3>0, ConsThen
    <3>3. Cons(x, b) \o h = Cons(x, b \o h)
      BY <3>0, ConsThen
    <3> QED BY <2>1, <3>1, <3>2, <3>3
  <2>5. Head(q) = b \o h /\ Tail(q) = u
    BY <1>2, <2>3, <2>4, ConsParts
  <2>6. Pieces(Cons(x, b \o t), cuts) = InFront(x, q, cuts)
    <3> DEFINE bt == b \o t
    <3>1. IsSeq(bt)
      BY <2>4
    <3> HIDE DEF bt
    <3> QED BY <3>1, PiecesCons DEF bt
  <2>7. InFront(x, q, cuts) = Cons(Cons(x, Head(q)), Tail(q))
    BY <2>2 DEF InFront
  <2> HIDE DEF q, p
  <2> QED BY <2>4, <2>5, <2>6, <2>7
<1>5. Nat \subseteq T
  <2> HIDE DEF T
  <2> QED BY <1>3, <1>4, SetInduction
<1>6. Len(s) \in Nat
  BY SeqFacts DEF Uncut
<1> HIDE DEF p
<1>7. Holds(s)
  BY <1>5, <1>6
<1> QED BY <1>7 DEF p, h, u

(* Pieces are sequences, and there is always a first one.                  *)
LEMMA PiecesFacts ==
  ASSUME NEW cuts, NEW t, IsSeq(t)
  PROVE  LET p == Pieces(t, cuts) IN
         IsSeq(p) /\ IsSeq(Head(p)) /\ IsSeq(Tail(p)) /\ p = Cons(Head(p), Tail(p))
<1> DEFINE p == Pieces(t, cuts)
<1>1. ArePieces(p, cuts)
  BY PiecesArePieces
<1> HIDE DEF p
<1>2. IsSeq(p) /\ Len(p) >= 1 /\ Len(p) \in Nat /\ 1 \in 1..Len(p) /\ IsSeq(p[1])
  BY <1>1, SeqFacts DEF ArePieces
<1>3. IsSeq(Tail(p)) /\ Head(p) = p[1] /\ p = Cons(Head(p), Tail(p))
  BY <1>2, HeadAndTail
<1>4. IsSeq(Head(p))
  BY <1>2, <1>3
<1> QED BY <1>2, <1>3, <1>4 DEF p

(* The parts of the empty first piece.                                     *)
LEMMA NothingIs == Head(Nothing) = <<>> /\ Tail(Nothing) = <<>>
  BY NothingParts

(* Nothing is cut, and cut behind s.                                       *)
LEMMA PiecesWhole ==
  ASSUME NEW cuts, NEW s, Uncut(s, cuts)
  PROVE  Pieces(s, cuts) = Cons(s, <<>>)
<1> DEFINE e == <<>>
           p == Pieces(e, cuts)
<1>1. IsSeq(e) /\ IsSeq(s)
  BY SeqNone DEF Uncut
<1>2. p = Nothing /\ Head(Nothing) = e /\ Tail(Nothing) = e /\ s \o e = s
  BY <1>1, PiecesNone, NothingIs, ThenNone
<1>3. Pieces(s \o e, cuts) = Cons(s \o Head(p), Tail(p))
  <2> HIDE DEF e, p
  <2> QED BY <1>1, PiecesAfter DEF p
<1> HIDE DEF e, p
<1>4. Pieces(s, cuts) = Cons(s, e)
  BY <1>2, <1>3
<1> QED BY <1>4 DEF e

(* A token that cuts ends the first piece and begins the next one.         *)
LEMMA PiecesSplit ==
  ASSUME NEW cuts, NEW s, Uncut(s, cuts), NEW x, x.id \in cuts, NEW t, IsSeq(t)
  PROVE  Pieces(s \o Cons(x, t), cuts)
           = Cons(s, Cons(Cons(x, Head(Pieces(t, cuts))), Tail(Pieces(t, cuts))))
<1> DEFINE e == <<>>
           c == Cons(x, t)
           p == Pieces(t, cuts)
           h == Head(p)
           u == Tail(p)
           d == Cons(Cons(x, h), u)
           q == Pieces(c, cuts)
<1>1. IsSeq(c) /\ IsSeq(s) /\ IsSeq(h) /\ IsSeq(u) /\ s \o e = s
  <2>1. IsSeq(c)
    BY ConsFacts
  <2>2. IsSeq(h) /\ IsSeq(u)
    BY PiecesFacts
  <2>3. IsSeq(s) /\ s \o e = s
    BY ThenNone DEF Uncut
  <2> QED BY <2>1, <2>2, <2>3
<1>2. q = InFront(x, p, cuts)
  <2> HIDE DEF p
  <2> QED BY PiecesCons DEF p
<1>3. InFront(x, p, cuts) = Cons(e, d)
  BY DEF InFront
<1>4. IsSeq(d)
  <2> DEFINE xh == Cons(x, h)
  <2> HIDE DEF h, u, xh
  <2>1. IsSeq(Cons(xh, u))
    BY <1>1, ConsFacts
  <2> QED BY <2>1 DEF xh
<1> HIDE DEF e, d, p, h, u
<1>5. Head(q) = e /\ Tail(q) = d
  <2>1. q = Cons(e, d)
    BY <1>2, <1>3
  <2> HIDE DEF q
  <2> QED BY <1>4, <2>1, ConsParts
<1>6. Pieces(s \o c, cuts) = Cons(s \o Head(q), Tail(q))
  <2> HIDE DEF c
  <2> QED BY <1>1, PiecesAfter
<1> HIDE DEF q, c
<1>7. Pieces(s \o c, cuts) = Cons(s, d)
  BY <1>1, <1>5, <1>6
<1> QED BY <1>7 DEF c, d, h, u, p

(* The same for what lies between the cuts, and for the cuts.              *)
Tails(q) == [k \in 1..Len(q) |-> Tail(q[k])]
Heads(q) == [k \in 1..Len(q) |-> Head(q[k])]

(* The tails and the heads of the elements of a sequence, one each.        *)
LEMMA TailsFacts ==
  ASSUME NEW q, IsSeq(q)
  PROVE  /\ IsSeq(Tails(q)) /\ Len(Tails(q)) = Len(q)
         /\ IsSeq(Heads(q)) /\ Len(Heads(q)) = Len(q)
         /\ \A k \in 1..Len(q) : Tails(q)[k] = Tail(q[k]) /\ Heads(q)[k] = Head(q[k])
<1> DEFINE f == [k \in 1..Len(q) |-> Tail(q[k])]
           g == [k \in 1..Len(q) |-> Head(q[k])]
<1>1. Len(q) \in Nat
  BY SeqFacts
<1>2. /\ f \in Seq({Tail(q[k]) : k \in 1..Len(q)}) /\ Len(f) = Len(q)
      /\ g \in Seq({Head(q[k]) : k \in 1..Len(q)}) /\ Len(g) = Len(q)
  BY <1>1
<1>3. \A k \in 1..Len(q) : f[k] = Tail(q[k]) /\ g[k] = Head(q[k])
  OBVIOUS
<1>4. IsSeq(f) /\ IsSeq(g)
  <2> HIDE DEF f, g
  <2> QED BY <1>2 DEF IsSeq
<1> HIDE DEF f, g
<1> QED BY <1>2, <1>3, <1>4 DEF f, g, Tails, Heads

(* Tails and heads with one more element in front.                         *)
LEMMA TailsCons ==
  ASSUME NEW y, NEW u, IsSeq(u)
  PROVE  /\ Tails(Cons(y, u)) = Cons(Tail(y), Tails(u))
         /\ Heads(Cons(y, u)) = Cons(Head(y), Heads(u))
<1> DEFINE q == Cons(y, u)
           ty == Tail(y)
           hy == Head(y)
           a == Tails(q)
           b == Heads(q)
           c == Cons(ty, Tails(u))
           d == Cons(hy, Heads(u))
<1>1. /\ IsSeq(q) /\ Len(q) = Len(u) + 1 /\ q[1] = y /\ Len(u) \in Nat
      /\ \A k \in 2..(Len(u) + 1) : q[k] = u[k - 1]
  BY ConsFacts, SeqFacts
<1> HIDE DEF q
<1>2. /\ IsSeq(a) /\ Len(a) = Len(q) /\ IsSeq(b) /\ Len(b) = Len(q)
      /\ \A k \in 1..Len(q) : a[k] = Tail(q[k]) /\ b[k] = Head(q[k])
  BY <1>1, TailsFacts
<1>3. /\ IsSeq(Tails(u)) /\ Len(Tails(u)) = Len(u)
      /\ IsSeq(Heads(u)) /\ Len(Heads(u)) = Len(u)
      /\ \A k \in 1..Len(u) : Tails(u)[k] = Tail(u[k]) /\ Heads(u)[k] = Head(u[k])
  BY TailsFacts
<1> HIDE DEF ty, hy
<1>4. /\ IsSeq(c) /\ Len(c) = Len(u) + 1 /\ c[1] = ty
      /\ \A k \in 2..(Len(u) + 1) : c[k] = Tails(u)[k - 1]
      /\ IsSeq(d) /\ Len(d) = Len(u) + 1 /\ d[1] = hy
      /\ \A k \in 2..(Len(u) + 1) : d[k] = Heads(u)[k - 1]
  BY <1>3, ConsFacts
<1> HIDE DEF a, b, c, d
<1>5. ASSUME NEW k \in 1..(Len(u) + 1) PROVE a[k] = c[k] /\ b[k] = d[k]
  <2>1. CASE k = 1
    BY <2>1, <1>1, <1>2, <1>4 DEF ty, hy
  <2>2. CASE k # 1
    <3>1. k \in 2..(Len(u) + 1) /\ k - 1 \in 1..Len(u)
      BY <2>2, <1>1
    <3> QED BY <3>1, <1>1, <1>2, <1>3, <1>4
  <2> QED BY <2>1, <2>2
<1>6. a = c /\ b = d
  BY <1>1, <1>2, <1>4, <1>5, SameSeq
<1> QED BY <1>6 DEF a, b, c, d, q, ty, hy

(* No element, no tails and heads.                                         *)
LEMMA TailsNone == Tails(<<>>) = <<>> /\ Heads(<<>>) = <<>>
  BY DEF Tails, Heads

(* Between and Cutters are the tails and heads of the pieces behind the    *)
(* first one.                                                              *)
LEMMA BetweenIs ==
  ASSUME NEW cuts, NEW s, IsSeq(s), NEW h, NEW q, IsSeq(q), Pieces(s, cuts) = Cons(h, q)
  PROVE  /\ Between(s, cuts) = Cons(h, Tails(q))
         /\ Cutters(s, cuts) = Heads(q)
<1> DEFINE p == Pieces(s, cuts)
           b == [k \in DOMAIN p |-> IF k = 1 THEN p[k] ELSE Tail(p[k])]
           f == [k \in 1..Len(q) |-> Tail(q[k])]
           d == Cons(h, f)
<1>1. /\ IsSeq(p) /\ Len(p) = Len(q) + 1 /\ p[1] = h /\ Len(q) \in Nat
      /\ \A k \in 2..(Len(q) + 1) : p[k] = q[k - 1]
      /\ Tail(p) = q /\ DOMAIN p = 1..(Len(q) + 1) /\ DOMAIN q = 1..Len(q)
  <2> HIDE DEF p
  <2>1. p = Cons(h, q)
    BY DEF p
  <2>2. /\ IsSeq(p) /\ Len(p) = Len(q) + 1 /\ p[1] = h
        /\ \A k \in 2..(Len(q) + 1) : p[k] = q[k - 1]
        /\ Tail(p) = q
    BY <2>1, ConsFacts, ConsParts
  <2>3. Len(q) \in Nat /\ DOMAIN q = 1..Len(q) /\ DOMAIN p = 1..Len(p)
    BY <2>2, SeqFacts
  <2> QED BY <2>2, <2>3
<1>2. Cutters(s, cuts) = [k \in 1..Len(q) |-> Head(q[k])]
  BY <1>1 DEF Cutters
<1>3. Between(s, cuts) = b
  BY DEF Between
<1> HIDE DEF p
<1>4. IsSeq(f) /\ Len(f) = Len(q)
  <2>1. f \in Seq({Tail(q[k]) : k \in 1..Len(q)}) /\ Len(f) = Len(q)
    BY <1>1
  <2> QED BY <2>1 DEF IsSeq
<1>5. \A k \in 1..Len(q) : f[k] = Tail(q[k])
  OBVIOUS
<1>6. IsSeq(b) /\ Len(b) = Len(q) + 1
  <2>1. /\ b \in Seq({IF k = 1 THEN p[k] ELSE Tail(p[k]) : k \in 1..(Len(q) + 1)})
        /\ Len(b) = Len(q) + 1
    BY <1>1
  <2> QED BY <2>1 DEF IsSeq
<1>7. \A k \in 1..(Len(q) + 1) : b[k] = IF k = 1 THEN p[k] ELSE Tail(p[k])
  BY <1>1
<1> HIDE DEF f, b
<1>8. /\ IsSeq(d) /\ Len(d) = Len(q) + 1 /\ d[1] = h
      /\ \A k \in 2..(Len(q) + 1) : d[k] = f[k - 1]
  BY <1>4, ConsFacts
<1> HIDE DEF d
<1>9. ASSUME NEW k \in 1..(Len(q) + 1) PROVE b[k] = d[k]
  <2>1. CASE k = 1
    BY <2>1, <1>1, <1>7, <1>8
  <2>2. CASE k # 1
    <3>1. k \in 2..(Len(q) + 1) /\ k - 1 \in 1..Len(q)
      BY <2>2, <1>1
    <3> QED BY <2>2, <3>1, <1>1, <1>5, <1>7, <1>8
  <2> QED BY <2>1, <2>2
<1>10. b = d
  BY <1>6, <1>8, <1>9, SameSeq
<1> QED BY <1>2, <1>3, <1>10 DEF d, f, Tails, Heads

(* What no token cuts is one part.                                         *)
LEMMA WholeParts ==
  ASSUME NEW cuts, NEW s, Uncut(s, cuts)
  PROVE  Between(s, cuts) = Cons(s, <<>>) /\ Cutters(s, cuts) = <<>>
<1> DEFINE e == <<>>
<1>1. IsSeq(e) /\ IsSeq(s) /\ Tails(e) = e /\ Heads(e) = e
  BY SeqNone, TailsNone DEF Uncut
<1>2. Pieces(s, cuts) = Cons(s, e)
  BY PiecesWhole
<1> HIDE DEF e
<1>3. Between(s, cuts) = Cons(s, Tails(e)) /\ Cutters(s, cuts) = Heads(e)
  BY <1>1, <1>2, BetweenIs
<1> QED BY <1>1, <1>3 DEF e

(* A token that cuts ends the first part.                                  *)
LEMMA SplitParts ==
  ASSUME NEW cuts, NEW s, Uncut(s, cuts), NEW x, x.id \in cuts, NEW t, IsSeq(t)
  PROVE  /\ Between(s \o Cons(x, t), cuts) = Cons(s, Between(t, cuts))
         /\ Cutters(s \o Cons(x, t), cuts) = Cons(x, Cutters(t, cuts))
<1> DEFINE c == s \o Cons(x, t)
           h == Head(Pieces(t, cuts))
           u == Tail(Pieces(t, cuts))
           xh == Cons(x, h)
           q == Cons(xh, u)
<1>1. IsSeq(h) /\ IsSeq(u) /\ Pieces(t, cuts) = Cons(h, u)
  BY PiecesFacts
<1>2. Pieces(c, cuts) = Cons(s, q)
  BY PiecesSplit
<1>3. IsSeq(c)
  <2> DEFINE xt == Cons(x, t)
  <2>1. IsSeq(xt) /\ IsSeq(s)
    BY ConsFacts DEF Uncut
  <2> HIDE DEF xt
  <2>2. IsSeq(s \o xt)
    BY <2>1, SeqConcat
  <2> QED BY <2>2 DEF xt
<1> HIDE DEF c, h, u
<1>4. Head(xh) = x /\ Tail(xh) = h
  BY <1>1, ConsParts
<1> HIDE DEF xh
<1>5. IsSeq(q) /\ Tails(q) = Cons(Tail(xh), Tails(u)) /\ Heads(q) = Cons(Head(xh), Heads(u))
  BY <1>1, ConsFacts, TailsCons
<1> HIDE DEF q
<1>6. Between(t, cuts) = Cons(h, Tails(u)) /\ Cutters(t, cuts) = Heads(u)
  BY <1>1, BetweenIs
<1>7. Between(c, cuts) = Cons(s, Tails(q)) /\ Cutters(c, cuts) = Heads(q)
  BY <1>2, <1>3, <1>5, BetweenIs
<1> QED BY <1>4, <1>5, <1>6, <1>7 DEF c

IsSeqs(q) == IsSeq(q) /\ \A k \in 1..Len(q) : IsSeq(q[k])

(* f[i] are the first i sequences of q, one behind the other.              *)
Flattens(f, q) ==
  f = [i \in 1..Len(q) |-> IF i = 1 THEN q[i] ELSE f[i - 1] \o q[i]]

(* There is a function that joins more and more of some sequences.         *)
LEMMA FlattenExists ==
  ASSUME NEW q, IsSeqs(q)
  PROVE  \E f : Flattens(f, q)
<1> DEFINE m == Len(q)
           S == {q[p[1]][p[2]] : p \in Nat \X Nat}
           V == Seq(S)
           e == <<>>
           step == [x \in (1..m) \X V |-> x[2] \o q[x[1]]]
<1>1. m \in Nat /\ IsSeq(e) /\ e \in V
  BY SeqNone, SeqFacts DEF IsSeqs
<1>2. ASSUME NEW k \in 1..m PROVE q[k] \in V /\ IsSeq(q[k])
  <2>1. IsSeq(q[k])
    BY DEF IsSeqs
  <2> DEFINE s == q[k]
             l == Len(s)
  <2>2. PICK T : s \in Seq(T)
    BY <2>1 DEF IsSeq
  <2>3. l \in Nat /\ k \in Nat
    BY <2>2, <1>1
  <2>4. \A j \in 1..l : s[j] \in S
    <3> SUFFICES ASSUME NEW j \in 1..l PROVE s[j] \in S
      OBVIOUS
    <3>1. <<k, j>> \in Nat \X Nat
      BY <2>3
    <3> QED BY <3>1
  <2> HIDE DEF S, s
  <2>5. s \in Seq(S)
    <3>1. s = [j \in 1..l |-> s[j]]
      BY <2>2
    <3>2. s \in [1..l -> S]
      BY <3>1, <2>4
    <3> QED BY <3>2, <2>3
  <2> QED BY <2>1, <2>5 DEF s
<1> HIDE DEF S, m
<1>3. step \in [(1..m) \X V -> V]
  <2>1. \A x \in (1..m) \X V : x[2] \o q[x[1]] \in V
    <3> SUFFICES ASSUME NEW x \in (1..m) \X V PROVE x[2] \o q[x[1]] \in V
      OBVIOUS
    <3>1. x[2] \in Seq(S) /\ q[x[1]] \in Seq(S)
      BY <1>2
    <3> QED BY <3>1
  <2> HIDE DEF V
  <2> QED BY <2>1
<1>4. PICK f : Recurses(f, V, e, m, step)
  <2> HIDE DEF step, V, e
  <2> QED BY <1>1, <1>3, RecursionExists
<1>5. f \in [0..m -> V] /\ f[0] = e /\ \A n \in 1..m : f[n] = step[<<n, f[n - 1]>>]
  BY <1>4 DEF Recurses
<1>6. ASSUME NEW n \in 1..m PROVE f[n] = f[n - 1] \o q[n]
  <2>1. n - 1 \in 0..m
    BY <1>1
  <2>2. f[n - 1] \in V
    BY <1>5, <2>1
  <2>3. \A p \in V : step[<<n, p>>] = p \o q[n]
    OBVIOUS
  <2> HIDE DEF step, V
  <2> QED BY <1>5, <2>2, <2>3
<1> DEFINE g == [i \in 1..m |-> f[i]]
           G(i) == IF i = 1 THEN q[i] ELSE g[i - 1] \o q[i]
<1>7. ASSUME NEW i \in 1..m PROVE f[i] = G(i)
  <2>1. CASE i = 1
    <3>1. f[1] = e \o q[1] /\ 1 \in 1..m
      <4>1. f[1] = f[1 - 1] \o q[1] /\ 1 \in 1..m
        BY <1>6, <2>1
      <4>2. 1 - 1 = 0 /\ f[0] = e
        BY <1>5
      <4> HIDE DEF e, V, step
      <4> QED BY <4>1, <4>2
    <3>2. f[1] = q[1]
      BY <3>1, <1>2, NoneThen
    <3> QED BY <2>1, <3>2
  <2>2. CASE i # 1
    <3>1. i - 1 \in 1..m
      BY <2>2, <1>1
    <3>2. g[i - 1] = f[i - 1]
      BY <3>1
    <3> QED BY <2>2, <3>2, <1>6
  <2> QED BY <2>1, <2>2
<1>8. g = [i \in 1..m |-> G(i)]
  <2> HIDE DEF G
  <2> QED BY <1>7
<1> HIDE DEF g
<1>9. Flattens(g, q)
  BY <1>8 DEF Flattens, m
<1> QED BY <1>9

(* No sequences join to nothing.                                           *)
LEMMA FlattenNone == FlattenSeq(<<>>) = <<>>
<1>1. Len(<<>>) = 0
  BY SeqNone
<1> QED BY <1>1 DEF FlattenSeq

(* FlattenSeq is the last value of such a function.                        *)
LEMMA FlattenIs ==
  ASSUME NEW q, IsSeqs(q), Len(q) >= 1
  PROVE  \E f : /\ FlattenSeq(q) = f[Len(q)] /\ f[1] = q[1] /\ IsSeq(f[1])
                /\ \A i \in 1..(Len(q) - 1) : f[i + 1] = f[i] \o q[i + 1]
                /\ \A i \in 1..Len(q) : IsSeq(f[i])
<1> DEFINE f == CHOOSE f_ : Flattens(f_, q)
           n == Len(q)
<1>1. Flattens(f, q)
  BY FlattenExists
<1>2. n \in Nat /\ n >= 1
  BY SeqFacts DEF IsSeqs
<1>3. FlattenSeq(q) = f[n]
  <2>1. Len(q) # 0
    BY <1>2
  <2> QED BY <2>1 DEF FlattenSeq, Flattens
<1> HIDE DEF f
<1> DEFINE G(i) == IF i = 1 THEN q[i] ELSE f[i - 1] \o q[i]
<1>4. f = [i \in 1..n |-> G(i)]
  BY <1>1 DEF Flattens
<1> HIDE DEF n
<1>5. ASSUME NEW i \in 1..n PROVE f[i] = G(i)
  <2> HIDE DEF G
  <2> QED BY <1>4
<1>6. f[1] = q[1]
  BY <1>2, <1>5
<1>7. ASSUME NEW i \in 1..(n - 1) PROVE f[i + 1] = f[i] \o q[i + 1]
  <2>1. i + 1 \in 1..n /\ i + 1 # 1 /\ (i + 1) - 1 = i
    BY <1>2
  <2>2. f[i + 1] = f[(i + 1) - 1] \o q[i + 1]
    BY <1>5, <2>1
  <2> QED BY <2>1, <2>2
<1>8. \A k \in 1..n : IsSeq(q[k])
  BY DEF IsSeqs, n
<1>9. \A i \in 1..n : IsSeq(f[i])
  <2> DEFINE T == {i \in Nat : i + 1 <= n => IsSeq(f[i + 1])}
             m == n - 1
  <2>1. 0 \in T
    BY <1>2, <1>6, <1>8
  <2>2. ASSUME NEW i \in Nat, i \in T PROVE i + 1 \in T
    <3> SUFFICES ASSUME (i + 1) + 1 <= n PROVE IsSeq(f[(i + 1) + 1])
      OBVIOUS
    <3>1. i + 1 <= n /\ i + 1 \in 1..(n - 1) /\ (i + 1) + 1 \in 1..n
      BY <1>2
    <3>2. IsSeq(f[i + 1]) /\ IsSeq(q[(i + 1) + 1])
      BY <3>1, <2>2, <1>8
    <3>3. f[(i + 1) + 1] = f[i + 1] \o q[(i + 1) + 1]
      BY <3>1, <1>7
    <3> QED BY <3>2, <3>3, SeqConcat
  <2>3. Nat \subseteq T
    <3> HIDE DEF T
    <3> QED BY <2>1, <2>2, SetInduction
  <2> SUFFICES ASSUME NEW i \in 1..n PROVE IsSeq(f[i])
    OBVIOUS
  <2>4. i - 1 \in Nat /\ (i - 1) + 1 = i /\ (i - 1) + 1 <= n
    BY <1>2
  <2> QED BY <2>3, <2>4
<1>10. 1 \in 1..n
  BY <1>2
<1> QED BY <1>3, <1>6, <1>7, <1>9, <1>10 DEF n

(* Joining sequences is associative.                                       *)
LEMMA ThenThen ==
  ASSUME NEW s, IsSeq(s), NEW t, IsSeq(t), NEW u, IsSeq(u)
  PROVE  (s \o t) \o u = s \o (t \o u)
<1>1. PICK S, T, U : s \in Seq(S) /\ t \in Seq(T) /\ u \in Seq(U)
  BY DEF IsSeq
<1> DEFINE V == S \cup T \cup U
<1>2. s \in Seq(V) /\ t \in Seq(V) /\ u \in Seq(V)
  BY <1>1
<1> HIDE DEF V
<1> QED BY <1>2, ConcatAssociative

(* FlattenSeq with one more sequence in front.                             *)
LEMMA FlattenCons ==
  ASSUME NEW x, IsSeq(x), NEW q, IsSeqs(q)
  PROVE  /\ IsSeqs(Cons(x, q)) /\ IsSeq(FlattenSeq(q))
         /\ FlattenSeq(Cons(x, q)) = x \o FlattenSeq(q)
<1> DEFINE c == Cons(x, q)
           n == Len(q)
           e == <<>>
<1>1. /\ IsSeq(c) /\ Len(c) = n + 1 /\ c[1] = x /\ n \in Nat
      /\ \A k \in 2..(n + 1) : c[k] = q[k - 1]
      /\ \A k \in 1..n : c[k + 1] = q[k]
  BY ConsFacts, SeqFacts DEF IsSeqs
<1>2. \A k \in 1..n : IsSeq(q[k])
  BY DEF IsSeqs
<1> HIDE DEF c, n
<1>3. IsSeqs(c)
  <2> SUFFICES ASSUME NEW k \in 1..(n + 1) PROVE IsSeq(c[k])
    BY <1>1 DEF IsSeqs
  <2>1. CASE k = 1
    BY <2>1, <1>1
  <2>2. CASE k # 1
    <3>1. k \in 2..(n + 1) /\ k - 1 \in 1..n
      BY <2>2, <1>1
    <3> QED BY <3>1, <1>1, <1>2
  <2> QED BY <2>1, <2>2
<1>4. Len(c) >= 1
  BY <1>1
<1>5. PICK g :
        /\ FlattenSeq(c) = g[Len(c)] /\ g[1] = c[1] /\ IsSeq(g[1])
        /\ \A i \in 1..(Len(c) - 1) : g[i + 1] = g[i] \o c[i + 1]
        /\ \A i \in 1..Len(c) : IsSeq(g[i])
  BY <1>3, <1>4, FlattenIs
<1>6. CASE n = 0
  <2>1. q = e
    <3>1. IsSeq(e) /\ Len(e) = 0 /\ IsSeq(q) /\ Len(q) = 0
      BY <1>6, SeqNone DEF IsSeqs, n
    <3> HIDE DEF e
    <3> QED BY <3>1, SameSeq
  <2>2. FlattenSeq(q) = e /\ IsSeq(e) /\ x \o e = x
    BY <2>1, FlattenNone, SeqNone, ThenNone
  <2>3. FlattenSeq(c) = x
    BY <1>1, <1>5, <1>6
  <2> HIDE DEF e
  <2> QED BY <2>2, <2>3, <1>3 DEF c
<1>7. CASE n # 0
  <2>1. Len(q) >= 1
    BY <1>1, <1>7 DEF n
  <2>2. PICK f :
          /\ FlattenSeq(q) = f[n] /\ f[1] = q[1] /\ IsSeq(f[1])
          /\ \A i \in 1..(n - 1) : f[i + 1] = f[i] \o q[i + 1]
          /\ \A i \in 1..n : IsSeq(f[i])
    BY <2>1, FlattenIs DEF n
  <2> DEFINE T == {i \in Nat : i + 1 <= n => g[i + 2] = x \o f[i + 1]}
  <2>3. 0 \in T
    <3>1. 1 \in 1..((n + 1) - 1) /\ 1 \in 1..n /\ 1 + 1 = 2
      BY <1>1, <1>7
    <3>2. g[2] = g[1] \o c[1 + 1] /\ c[1 + 1] = q[1]
      BY <3>1, <1>1, <1>5
    <3>3. g[2] = x \o f[1]
      BY <3>2, <1>1, <1>5, <2>2
    <3> QED BY <3>3
  <2>4. ASSUME NEW i \in Nat, i \in T PROVE i + 1 \in T
    <3> SUFFICES ASSUME (i + 1) + 1 <= n PROVE g[(i + 1) + 2] = x \o f[(i + 1) + 1]
      OBVIOUS
    <3> DEFINE j == i + 1
    <3>0. g[j + 1] = x \o f[j]
      BY <2>4, <1>1
    <3>1. /\ j \in 1..(n - 1) /\ j \in 1..n /\ j + 1 \in 1..n /\ j + 1 \in 1..((n + 1) - 1)
          /\ (i + 1) + 2 = (j + 1) + 1
      BY <1>1
    <3> HIDE DEF j, T
    <3>2. f[j + 1] = f[j] \o q[j + 1] /\ IsSeq(f[j]) /\ IsSeq(q[j + 1])
      BY <3>1, <2>2, <1>2
    <3>3. g[(j + 1) + 1] = g[j + 1] \o c[(j + 1) + 1] /\ c[(j + 1) + 1] = q[j + 1]
      BY <3>1, <1>1, <1>5
    <3>4. (x \o f[j]) \o q[j + 1] = x \o (f[j] \o q[j + 1])
      <4> DEFINE a == f[j]
                 b == q[j + 1]
      <4>1. IsSeq(a) /\ IsSeq(b)
        BY <3>2
      <4> HIDE DEF a, b
      <4>2. (x \o a) \o b = x \o (a \o b)
        BY <4>1, ThenThen
      <4> QED BY <4>2 DEF a, b
    <3>5. g[(j + 1) + 1] = x \o f[j + 1]
      BY <3>0, <3>2, <3>3, <3>4
    <3> QED BY <3>1, <3>5 DEF j
  <2>5. Nat \subseteq T
    <3> HIDE DEF T
    <3> QED BY <2>3, <2>4, SetInduction
  <2>6. n - 1 \in Nat /\ (n - 1) + 1 = n /\ (n - 1) + 2 = n + 1
    BY <1>1, <1>7
  <2>7. g[n + 1] = x \o f[n]
    <3>1. n - 1 \in T
      <4> HIDE DEF T
      <4> QED BY <2>5, <2>6
    <3>2. (n - 1) + 1 <= n
      BY <1>1, <2>6
    <3>3. g[(n - 1) + 2] = x \o f[(n - 1) + 1]
      BY <3>1, <3>2
    <3> QED BY <3>3, <2>6
  <2> QED BY <2>2, <2>6, <2>7, <1>1, <1>3, <1>5, <1>7 DEF c
<1> QED BY <1>6, <1>7

(* Flattening two sequences alike.                                         *)
LEMMA FlattenAlike ==
  ASSUME NEW p, IsSeqs(p), NEW q, IsSeqs(q), Len(p) = Len(q),
         \A k \in 1..Len(p) : Len(p[k]) = Len(q[k])
  PROVE  /\ IsSeq(FlattenSeq(p)) /\ IsSeq(FlattenSeq(q))
         /\ Len(FlattenSeq(p)) = Len(FlattenSeq(q))
         /\ \A j \in 1..Len(FlattenSeq(p)) :
              \E k \in 1..Len(p) : \E m \in 1..Len(p[k]) :
                FlattenSeq(p)[j] = p[k][m] /\ FlattenSeq(q)[j] = q[k][m]
<1> DEFINE n == Len(p)
           e == <<>>
           Comes(a, b, j) == \E k \in 1..n : \E m \in 1..Len(p[k]) : a[j] = p[k][m]
            /\ b[j] = q[k][m]
           Alike(a, b) == /\ IsSeq(a) /\ IsSeq(b) /\ Len(a) = Len(b)
                          /\ \A j \in 1..Len(a) : Comes(a, b, j)
<1>1. n \in Nat /\ \A k \in 1..n : IsSeq(p[k]) /\ IsSeq(q[k]) /\ Len(p[k]) = Len(q[k])
  BY SeqFacts DEF IsSeqs
<1>2. CASE n = 0
  <2>1. IsSeq(e) /\ Len(e) = 0 /\ IsSeq(p) /\ IsSeq(q) /\ Len(p) = 0 /\ Len(q) = 0
    BY <1>2, SeqNone DEF IsSeqs
  <2>2. p = e /\ q = e
    <3> HIDE DEF e
    <3> QED BY <2>1, SameSeq
  <2>3. FlattenSeq(p) = e /\ FlattenSeq(q) = e
    BY <2>2, FlattenNone
  <2> HIDE DEF e
  <2> QED BY <2>1, <2>3
<1>3. CASE n # 0
  <2>1. Len(p) >= 1 /\ Len(q) >= 1
    BY <1>1, <1>3
  <2>2. PICK f :
          /\ FlattenSeq(p) = f[n] /\ f[1] = p[1] /\ IsSeq(f[1])
          /\ \A i \in 1..(n - 1) : f[i + 1] = f[i] \o p[i + 1]
          /\ \A i \in 1..n : IsSeq(f[i])
    BY <2>1, FlattenIs
  <2>3. PICK g :
          /\ FlattenSeq(q) = g[n] /\ g[1] = q[1] /\ IsSeq(g[1])
          /\ \A i \in 1..(n - 1) : g[i + 1] = g[i] \o q[i + 1]
          /\ \A i \in 1..n : IsSeq(g[i])
    BY <2>1, FlattenIs
  <2> DEFINE T == {i \in Nat : i + 1 <= n => Alike(f[i + 1], g[i + 1])}
  <2> HIDE DEF n, e
  <2>4. 0 \in T
    <3>1. 1 \in 1..n /\ f[1] = p[1] /\ g[1] = q[1]
      BY <1>1, <1>3, <2>2, <2>3
    <3>2. IsSeq(p[1]) /\ IsSeq(q[1]) /\ Len(p[1]) = Len(q[1])
      BY <3>1, <1>1
    <3>3. \A j \in 1..Len(f[1]) : Comes(f[1], g[1], j)
      BY <3>1
    <3>4. Alike(f[1], g[1])
      BY <3>1, <3>2, <3>3
    <3> HIDE DEF Alike
    <3> QED BY <3>4
  <2>5. ASSUME NEW i \in Nat, i \in T PROVE i + 1 \in T
    <3> SUFFICES ASSUME (i + 1) + 1 <= n PROVE Alike(f[(i + 1) + 1], g[(i + 1) + 1])
      OBVIOUS
    <3> DEFINE l == i + 1
               a == f[l]
               b == g[l]
               c == f[l + 1]
               d == g[l + 1]
    <3>0. Alike(a, b)
      <4> HIDE DEF Alike
      <4> QED BY <2>5, <1>1
    <3>1. l \in 1..(n - 1) /\ l + 1 \in 1..n
      BY <1>1
    <3> HIDE DEF l, T
    <3>2. c = a \o p[l + 1] /\ d = b \o q[l + 1]
      BY <3>1, <2>2, <2>3
    <3> HIDE DEF a, b, c, d, Comes
    <3>3. IsSeq(a) /\ IsSeq(b) /\ Len(a) = Len(b) /\ Len(a) \in Nat
      BY <3>0, SeqFacts
    <3> DEFINE u == p[l + 1]
               v == q[l + 1]
    <3>4. IsSeq(u) /\ IsSeq(v) /\ Len(u) = Len(v) /\ Len(u) \in Nat
      BY <3>1, <1>1, SeqFacts
    <3>5. c = a \o u /\ d = b \o v
      BY <3>2
    <3> HIDE DEF u, v, Alike
    <3>6. /\ IsSeq(c) /\ Len(c) = Len(a) + Len(u)
          /\ \A k \in 1..(Len(a) + Len(u)) : c[k] = IF k <= Len(a) THEN a[k] ELSE u[k - Len(a)]
          /\ IsSeq(d) /\ Len(d) = Len(b) + Len(v)
          /\ \A k \in 1..(Len(b) + Len(v)) : d[k] = IF k <= Len(b) THEN b[k] ELSE v[k - Len(b)]
      BY <3>3, <3>4, <3>5, SeqConcat
    <3>7. ASSUME NEW j \in 1..Len(c) PROVE Comes(c, d, j)
      <4>1. CASE j <= Len(a)
        <5>1. j \in 1..Len(a) /\ c[j] = a[j] /\ d[j] = b[j]
          BY <4>1, <3>3, <3>4, <3>6
        <5>2. Comes(a, b, j)
          BY <5>1, <3>0 DEF Alike
        <5> QED BY <5>1, <5>2 DEF Comes
      <4>2. CASE ~(j <= Len(a))
        <5>1. j - Len(a) \in 1..Len(u) /\ c[j] = u[j - Len(a)] /\ d[j] = v[j - Len(a)]
          BY <4>2, <3>3, <3>4, <3>6
        <5> QED BY <5>1, <3>1 DEF Comes, u, v
      <4> QED BY <4>1, <4>2
    <3>8. Alike(c, d)
      BY <3>3, <3>4, <3>6, <3>7 DEF Alike
    <3> QED BY <3>8 DEF c, d, l
  <2>6. Nat \subseteq T
    <3> HIDE DEF T
    <3> QED BY <2>4, <2>5, SetInduction
  <2>7. n - 1 \in Nat /\ (n - 1) + 1 = n
    BY <1>1, <1>3
  <2>8. Alike(f[n], g[n])
    <3>1. n - 1 \in T /\ (n - 1) + 1 <= n
      <4> HIDE DEF T
      <4> QED BY <1>1, <2>6, <2>7
    <3> HIDE DEF Alike
    <3>2. Alike(f[(n - 1) + 1], g[(n - 1) + 1])
      BY <3>1
    <3> QED BY <3>2, <2>7
  <2> QED BY <2>2, <2>3, <2>8 DEF n
<1> QED BY <1>2, <1>3

(***************************************************************************)
(* What a part of a sentence stands for                                    *)
(***************************************************************************)
(* A function on the first numbers is a sequence.                          *)
LEMMA Mapped ==
  ASSUME NEW n \in Nat, NEW f, f = [k \in 1..n |-> f[k]]
  PROVE  IsSeq(f) /\ Len(f) = n
<1>1. f \in Seq({f[k] : k \in 1..n}) /\ Len(f) = n
  <2> DEFINE S == {f[k] : k \in 1..n}
  <2>1. \A k \in 1..n : f[k] \in S
    OBVIOUS
  <2> HIDE DEF S
  <2>2. f \in [1..n -> S]
    BY <2>1
  <2> QED BY <2>2 DEF S
<1> QED BY <1>1 DEF IsSeq

(* The texts of words, the redirects of pieces.                            *)
WordsIn(w) == [j \in 1..Len(w) |-> Syllables(w[j])]

RuleOf(id) ==
  CASE id = 6  -> 11 [] id = 10 -> 12 [] id = 13 -> 13 [] id = 14 -> 14 [] id = 7 -> 15
    [] id = 8  -> 16 [] id = 11 -> 17 [] id = 9  -> 18 [] id = 12 -> 19
MadeBy(r)      == Redirects(RuleOf(Head(r).id), Syllables(Tail(r)))
MadeByAll(q)   == [k \in 1..Len(q) |-> MadeBy(q[k])]
MadeIn(q) == FlattenSeq(MadeByAll(q))

(* The syllables of a word, one for each token.                            *)
LEMMA SyllablesOf ==
  ASSUME NEW s, IsSeq(s)
  PROVE  /\ IsSeq(Syllables(s)) /\ Len(Syllables(s)) = Len(s)
         /\ \A k \in 1..Len(s) : Syllables(s)[k] = s[k].value
<1> DEFINE f == [k \in 1..Len(s) |-> s[k].value]
<1>1. Len(s) \in Nat /\ DOMAIN s = 1..Len(s)
  BY SeqFacts
<1>2. Syllables(s) = f
  BY <1>1 DEF Syllables
<1>3. f = [k \in 1..Len(s) |-> f[k]] /\ \A k \in 1..Len(s) : f[k] = s[k].value
  OBVIOUS
<1> HIDE DEF f
<1> QED BY <1>1, <1>2, <1>3, Mapped

(* The texts of words, one for each word.                                  *)
LEMMA TextsOf ==
  ASSUME NEW w, IsSeq(w)
  PROVE  /\ IsSeq(WordsIn(w)) /\ Len(WordsIn(w)) = Len(w)
         /\ \A k \in 1..Len(w) : WordsIn(w)[k] = Syllables(w[k])
<1> DEFINE f == [k \in 1..Len(w) |-> Syllables(w[k])]
<1>1. Len(w) \in Nat
  BY SeqFacts
<1>2. WordsIn(w) = f
  BY DEF WordsIn
<1>3. f = [k \in 1..Len(w) |-> f[k]] /\ \A k \in 1..Len(w) : f[k] = Syllables(w[k])
  OBVIOUS
<1> HIDE DEF f
<1> QED BY <1>1, <1>2, <1>3, Mapped

(* The redirects made by redirections, one sequence for each.              *)
LEMMA MadeByOf ==
  ASSUME NEW q, IsSeq(q)
  PROVE  /\ IsSeq(MadeByAll(q)) /\ Len(MadeByAll(q)) = Len(q)
         /\ \A k \in 1..Len(q) : MadeByAll(q)[k] = MadeBy(q[k])
<1> DEFINE f == [k \in 1..Len(q) |-> MadeBy(q[k])]
<1>1. Len(q) \in Nat
  BY SeqFacts
<1>2. MadeByAll(q) = f
  BY DEF MadeByAll
<1>3. f = [k \in 1..Len(q) |-> f[k]] /\ \A k \in 1..Len(q) : f[k] = MadeBy(q[k])
  OBVIOUS
<1> HIDE DEF f
<1> QED BY <1>1, <1>2, <1>3, Mapped

(* All three go element by element.                                        *)
LEMMA ElementWise ==
  ASSUME NEW x, NEW s, IsSeq(s), NEW a, IsSeq(a), Len(a) = Len(s) + 1,
         NEW b, IsSeq(b), Len(b) = Len(s), NEW y, a[1] = y,
         \A k \in 1..Len(s) : a[k + 1] = b[k]
  PROVE  a = Cons(y, b)
<1> DEFINE c == Cons(y, b)
<1>1. /\ IsSeq(c) /\ Len(c) = Len(b) + 1 /\ c[1] = y /\ Len(s) \in Nat
      /\ \A k \in 2..(Len(b) + 1) : c[k] = b[k - 1]
  BY ConsFacts, SeqFacts
<1> HIDE DEF c
<1>2. ASSUME NEW k \in 1..Len(a) PROVE a[k] = c[k]
  <2>1. CASE k = 1
    BY <2>1, <1>1
  <2>2. CASE k # 1
    <3>1. k - 1 \in 1..Len(s) /\ (k - 1) + 1 = k /\ k \in 2..(Len(b) + 1)
      BY <2>2, <1>1
    <3>2. a[(k - 1) + 1] = b[k - 1]
      BY <3>1
    <3> QED BY <3>1, <3>2, <1>1
  <2> QED BY <2>1, <2>2
<1>3. a = c
  BY <1>1, <1>2, SameSeq
<1> QED BY <1>3 DEF c

(* The syllables with one more token in front.                             *)
LEMMA SyllablesInFront ==
  ASSUME NEW x, NEW s, IsSeq(s)
  PROVE  Syllables(Cons(x, s)) = Cons(x.value, Syllables(s))
<1> DEFINE c == Cons(x, s)
           a == Syllables(c)
           b == Syllables(s)
           y == x.value
<1>1. /\ IsSeq(c) /\ Len(c) = Len(s) + 1 /\ c[1] = x /\ Len(s) \in Nat
      /\ \A k \in 1..Len(s) : c[k + 1] = s[k]
  BY ConsFacts, SeqFacts
<1> HIDE DEF c
<1>2. IsSeq(a) /\ Len(a) = Len(c) /\ \A k \in 1..Len(c) : a[k] = c[k].value
  BY <1>1, SyllablesOf
<1>3. IsSeq(b) /\ Len(b) = Len(s) /\ \A k \in 1..Len(s) : b[k] = s[k].value
  BY SyllablesOf
<1>4. a[1] = y
  BY <1>1, <1>2
<1>5. ASSUME NEW k \in 1..Len(s) PROVE a[k + 1] = b[k]
  <2>1. k + 1 \in 1..Len(c)
    BY <1>1
  <2> QED BY <2>1, <1>1, <1>2, <1>3
<1> HIDE DEF a, b, y
<1>6. a = Cons(y, b)
  BY <1>1, <1>2, <1>3, <1>4, <1>5, ElementWise
<1> QED BY <1>6 DEF a, b, c, y

(* The texts with one more word in front.                                  *)
LEMMA TextsInFront ==
  ASSUME NEW x, NEW s, IsSeq(s)
  PROVE  WordsIn(Cons(x, s)) = Cons(Syllables(x), WordsIn(s))
<1> DEFINE c == Cons(x, s)
           a == WordsIn(c)
           b == WordsIn(s)
           y == Syllables(x)
<1>1. /\ IsSeq(c) /\ Len(c) = Len(s) + 1 /\ c[1] = x /\ Len(s) \in Nat
      /\ \A k \in 1..Len(s) : c[k + 1] = s[k]
  BY ConsFacts, SeqFacts
<1> HIDE DEF c
<1>2. IsSeq(a) /\ Len(a) = Len(c) /\ \A k \in 1..Len(c) : a[k] = Syllables(c[k])
  BY <1>1, TextsOf
<1>3. IsSeq(b) /\ Len(b) = Len(s) /\ \A k \in 1..Len(s) : b[k] = Syllables(s[k])
  BY TextsOf
<1>4. a[1] = y
  BY <1>1, <1>2
<1>5. ASSUME NEW k \in 1..Len(s) PROVE a[k + 1] = b[k]
  <2>1. k + 1 \in 1..Len(c)
    BY <1>1
  <2> QED BY <2>1, <1>1, <1>2, <1>3
<1> HIDE DEF a, b, y
<1>6. a = Cons(y, b)
  BY <1>1, <1>2, <1>3, <1>4, <1>5, ElementWise
<1> QED BY <1>6 DEF a, b, c, y

(* The redirects made with one more redirection in front.                  *)
LEMMA MadeByInFront ==
  ASSUME NEW x, NEW s, IsSeq(s)
  PROVE  MadeByAll(Cons(x, s)) = Cons(MadeBy(x), MadeByAll(s))
<1> DEFINE c == Cons(x, s)
           a == MadeByAll(c)
           b == MadeByAll(s)
           y == MadeBy(x)
<1>1. /\ IsSeq(c) /\ Len(c) = Len(s) + 1 /\ c[1] = x /\ Len(s) \in Nat
      /\ \A k \in 1..Len(s) : c[k + 1] = s[k]
  BY ConsFacts, SeqFacts
<1> HIDE DEF c
<1>2. IsSeq(a) /\ Len(a) = Len(c) /\ \A k \in 1..Len(c) : a[k] = MadeBy(c[k])
  BY <1>1, MadeByOf
<1>3. IsSeq(b) /\ Len(b) = Len(s) /\ \A k \in 1..Len(s) : b[k] = MadeBy(s[k])
  BY MadeByOf
<1>4. a[1] = y
  BY <1>1, <1>2
<1>5. ASSUME NEW k \in 1..Len(s) PROVE a[k + 1] = b[k]
  <2>1. k + 1 \in 1..Len(c)
    BY <1>1
  <2> QED BY <2>1, <1>1, <1>2, <1>3
<1> HIDE DEF a, b, y
<1>6. a = Cons(y, b)
  BY <1>1, <1>2, <1>3, <1>4, <1>5, ElementWise
<1> QED BY <1>6 DEF a, b, c, y

(* Nothing is made of nothing.                                             *)
LEMMA MappedNone == Syllables(<<>>) = <<>> /\ WordsIn(<<>>) = <<>> /\ MadeByAll(<<>>) = <<>>
<1>1. DOMAIN <<>> = 1..0
  OBVIOUS
<1> QED BY <1>1, SeqNone DEF Syllables, WordsIn, MadeByAll

(* The redirects of operators.                                             *)
IsPiece(r) ==
  /\ IsSeq(r) /\ Len(r) >= 1 /\ r[1].id \in Ops

(* A redirection of a sentence makes redirects of its own.                 *)
LEMMA MadeByPiece ==
  ASSUME NEW r, IsPiece(r)
  PROVE  /\ Head(r) = r[1] /\ RuleOf(r[1].id) \in 11..19
         /\ IsSeq(Tail(r)) /\ Len(Tail(r)) = Len(r) - 1
         /\ AreOwn(MadeBy(r)) /\ IsSeq(MadeBy(r))
<1>1. /\ IsSeq(Tail(r)) /\ Len(Tail(r)) = Len(r) - 1 /\ Head(r) = r[1]
  BY HeadAndTail DEF IsPiece
<1>2. r[1].id \in {6, 7, 8, 9, 10, 11, 12, 13, 14}
  BY DEF IsPiece, Ops, FileOps, ShareOps
<1> DEFINE id == r[1].id
<1>3. RuleOf(id) \in 11..19
  <2>1. id \in {6, 7, 8, 9, 10, 11, 12, 13, 14}
    BY <1>2
  <2> HIDE DEF id
  <2> QED BY <2>1 DEF RuleOf
<1>4. AreOwn(MadeBy(r))
  <2>1. MadeBy(r) = Redirects(RuleOf(id), Syllables(Tail(r)))
    BY <1>1 DEF MadeBy
  <2> QED BY <1>3, <2>1, RedirectsAreOwn DEF RedirectRules
<1> QED BY <1>1, <1>3, <1>4 DEF AreOwn

(* The redirects of some redirections begin with those of the first one.   *)
LEMMA RedirectsInFront ==
  ASSUME NEW r, IsPiece(r), NEW q, IsSeq(q), \A k \in 1..Len(q) : IsPiece(q[k])
  PROVE  MadeIn(Cons(r, q)) = MadeBy(r) \o MadeIn(q) /\ IsSeq(MadeIn(q))
<1> DEFINE m == MadeBy(r)
           a == MadeByAll(q)
<1>1. IsSeq(m) /\ IsSeqs(a)
  BY MadeByPiece, MadeByOf DEF IsSeqs
<1> HIDE DEF m, a
<1>2. FlattenSeq(Cons(m, a)) = m \o FlattenSeq(a) /\ IsSeq(FlattenSeq(a))
  BY <1>1, FlattenCons
<1>3. MadeByAll(Cons(r, q)) = Cons(m, a)
  BY MadeByInFront DEF m, a
<1> QED BY <1>2, <1>3 DEF MadeIn, m, a

(* No redirections, no redirects.                                          *)
LEMMA RedirectsInNone == MadeIn(<<>>) = <<>>
  BY MappedNone, FlattenNone DEF MadeIn

(* Tokens of some kinds only.                                              *)
Only(p, ids) == IsSeq(p) /\ \A k \in 1..Len(p) : p[k].id \in ids

(* Two sequences of some tokens only, joined.                              *)
LEMMA OnlyConcat ==
  ASSUME NEW ids, NEW s, Only(s, ids), NEW t, Only(t, ids)
  PROVE  Only(s \o t, ids)
<1> DEFINE c == s \o t
<1>1. /\ IsSeq(s) /\ IsSeq(t) /\ Len(s) \in Nat /\ Len(t) \in Nat
      /\ \A k \in 1..Len(s) : s[k].id \in ids
      /\ \A k \in 1..Len(t) : t[k].id \in ids
  BY SeqFacts DEF Only
<1>2. /\ IsSeq(c) /\ Len(c) = Len(s) + Len(t)
      /\ \A k \in 1..(Len(s) + Len(t)) : c[k] = IF k <= Len(s) THEN s[k] ELSE t[k - Len(s)]
  BY <1>1, SeqConcat
<1> HIDE DEF c
<1>3. ASSUME NEW k \in 1..Len(c) PROVE c[k].id \in ids
  <2>1. CASE k <= Len(s)
    BY <2>1, <1>1, <1>2
  <2>2. CASE ~(k <= Len(s))
    <3>1. k - Len(s) \in 1..Len(t) /\ c[k] = t[k - Len(s)]
      BY <2>2, <1>1, <1>2
    <3> QED BY <3>1, <1>1
  <2> QED BY <2>1, <2>2
<1>4. Only(c, ids)
  BY <1>2, <1>3 DEF Only
<1> QED BY <1>4 DEF c

(* A sequence of some tokens is one of more tokens.                        *)
LEMMA OnlyMore ==
  ASSUME NEW ids, NEW p, Only(p, ids), NEW more, ids \subseteq more
  PROVE  Only(p, more)
  BY DEF Only

(* A sequence of tokens that do not cut is not cut.                        *)
LEMMA OnlyUncut ==
  ASSUME NEW ids, NEW p, Only(p, ids), NEW cuts, \A id \in ids : id \notin cuts
  PROVE  Uncut(p, cuts)
  BY DEF Only, Uncut

(* The empty sequence has no tokens.                                       *)
LEMMA OnlyNone == \A ids : Only(<<>>, ids)
  BY SeqNone DEF Only

(* One token.                                                              *)
LEMMA OnlyOne ==
  ASSUME NEW p, IsSeq(p), Len(p) = 1, NEW ids, p[1].id \in ids
  PROVE  Only(p, ids)
<1>1. \A k \in 1..Len(p) : k = 1
  OBVIOUS
<1> QED BY <1>1 DEF Only

(* One more token in front.                                                *)
LEMMA OnlyCons ==
  ASSUME NEW ids, NEW x, x.id \in ids, NEW s, Only(s, ids)
  PROVE  Only(Cons(x, s), ids)
<1> DEFINE c == Cons(x, s)
<1>1. /\ IsSeq(c) /\ Len(c) = Len(s) + 1 /\ c[1] = x /\ Len(s) \in Nat
      /\ \A k \in 2..(Len(s) + 1) : c[k] = s[k - 1]
  BY ConsFacts, SeqFacts DEF Only
<1> HIDE DEF c
<1>2. ASSUME NEW k \in 1..Len(c) PROVE c[k].id \in ids
  <2>1. CASE k = 1
    BY <2>1, <1>1
  <2>2. CASE k # 1
    <3>1. k - 1 \in 1..Len(s) /\ c[k] = s[k - 1]
      BY <2>2, <1>1
    <3> QED BY <3>1 DEF Only
  <2> QED BY <2>1, <2>2
<1>3. Only(c, ids)
  BY <1>1, <1>2 DEF Only
<1> QED BY <1>3 DEF c

(* A single token, alone and in front.                                     *)
LEMMA OneInFront ==
  ASSUME NEW p, IsSeq(p), Len(p) = 1
  PROVE  /\ p = Cons(p[1], <<>>)
         /\ \A t : IsSeq(t) => p \o t = Cons(p[1], t)
<1> DEFINE h == Head(p)
           u == Tail(p)
           e == <<>>
<1>1. IsSeq(u) /\ Len(u) = 0 /\ h = p[1] /\ p = Cons(h, u)
  BY HeadAndTail
<1>2. IsSeq(e) /\ Len(e) = 0
  BY SeqNone
<1> HIDE DEF h, u, e
<1>3. u = e
  BY <1>1, <1>2, SameSeq
<1>4. p = Cons(h, e)
  BY <1>1, <1>3
<1>5. ASSUME NEW t, IsSeq(t) PROVE p \o t = Cons(h, t)
  <2>1. Cons(h, e) \o t = Cons(h, e \o t)
    <3>1. PICK g, z : g = h /\ z = e
      OBVIOUS
    <3>2. IsSeq(z)
      BY <1>2, <3>1
    <3>3. Cons(g, z) \o t = Cons(g, z \o t)
      BY <1>5, <3>2, ConsThen
    <3> QED BY <3>1, <3>3
  <2>2. e \o t = t
    BY <1>5, NoneThen DEF e
  <2> QED BY <2>1, <2>2, <1>4
<1>6. p = Cons(p[1], e) /\ \A t : IsSeq(t) => p \o t = Cons(p[1], t)
  BY <1>1, <1>4, <1>5
<1> QED BY <1>6 DEF e

(* An element put in front of nothing.                                     *)
LEMMA ConsNone == \A x : <<x>> = Cons(x, <<>>)
<1> TAKE x
<1> DEFINE o == <<x>>
<1>1. IsSeq(o) /\ Len(o) = 1 /\ o[1] = x
  BY SeqOne
<1> HIDE DEF o
<1>2. o = Cons(o[1], <<>>)
  BY <1>1, OneInFront
<1> QED BY <1>1, <1>2 DEF o

(***************************************************************************)
(* What a sentence makes, without a stack                                  *)
(***************************************************************************)
TaskOf(c) ==
  [run_if |-> "always", words |-> WordTexts(c), redirects |-> MadeIn(Redirections(c))]

PipeAt(x, k) == k \in 1..Len(x) /\ x[k].id = 18
EndOf(b, s)  == IF b THEN <<NewRedirect(s, "pipe", 0, NoFile)>> ELSE <<>>

TaskAt(c, x, k) ==
  [run_if    |-> IF k = 1 THEN "always" ELSE RunIf(OpText(x[k - 1].id)),
   words     |-> WordTexts(c[k]),
   redirects |-> (MadeIn(Redirections(c[k])) \o EndOf(PipeAt(x, k), "out"))
                   \o EndOf(PipeAt(x, k - 1), "in")]
TasksAt(c, x) == [k \in 1..Len(c) |-> TaskAt(c, x, k)]
TasksOf(s)    == TasksAt(Commands(s), Cutters(s, Separators))

(* The tokens p that a symbol stands for, and its value.                   *)
IsPart(x, v, p) ==
  /\ IsSeq(p)
  /\ x = 0 => p = <<>>
  /\ x \in 1..18 => Len(p) = 1 /\ p[1].id = x /\ p[1].value = v
  /\ x = 25 => Only(p, {SYL}) /\ v = Syllables(p)
  /\ x = 24 => Only(p, {SYL, SPC}) /\ v = WordsIn(Between(p, {SPC}))
  /\ x = 23 => IsPiece(p) /\ Only(Tail(p), {SYL}) /\ v = MadeBy(p)
  /\ x = 22 => /\ Only(p, Ops \cup {SYL})
               /\ \E q : IsSeq(q) /\ Pieces(p, Ops) = Cons(<<>>, q) /\ v = MadeIn(q)
  /\ x = 21 => Only(p, Ops \cup {SYL, SPC}) /\ v = TaskOf(p)
  /\ x = 20 => v = TasksOf(p)

(* Words.                                                                  *)
LEMMA PartOfSyllable ==
  ASSUME NEW v, NEW p, IsPart(3, v, p)
  PROVE  IsPart(25, <<v>>, p)
<1> DEFINE e == <<>>
           t == p[1]
<1>1. IsSeq(p) /\ Len(p) = 1 /\ t.id = SYL /\ t.value = v
  BY DEF IsPart, SYL
<1>2. p = Cons(t, e) /\ IsSeq(e)
  BY <1>1, OneInFront, SeqNone
<1>3. Only(p, {SYL})
  BY <1>1, OnlyOne
<1>4. Syllables(e) = e /\ <<v>> = Cons(v, e)
  BY MappedNone, ConsNone
<1> HIDE DEF e, t
<1>5. Syllables(p) = Cons(v, e)
  BY <1>1, <1>2, <1>4, SyllablesInFront
<1>6. IsPart(25, Cons(v, e), p)
  BY <1>1, <1>3, <1>5 DEF IsPart
<1> QED BY <1>4, <1>6

(* syllables: SYLLABLE syllables (parser.y:87).                            *)
LEMMA PartOfWord ==
  ASSUME NEW v, NEW p, IsPart(3, v, p), NEW w, NEW q, IsPart(25, w, q)
  PROVE  IsPart(25, <<v>> \o w, p \o q)
<1> DEFINE t == p[1]
<1>1. IsSeq(p) /\ Len(p) = 1 /\ t.id = SYL /\ t.value = v
  BY DEF IsPart, SYL
<1>2. IsSeq(q) /\ Only(q, {SYL}) /\ w = Syllables(q)
  BY DEF IsPart
<1>3. p \o q = Cons(t, q)
  BY <1>1, <1>2, OneInFront
<1> HIDE DEF t
<1>4. Only(Cons(t, q), {SYL})
  BY <1>1, <1>2, OnlyCons
<1>5. Syllables(Cons(t, q)) = Cons(v, w)
  BY <1>1, <1>2, SyllablesInFront
<1>6. IsPart(25, Cons(v, w), Cons(t, q))
  BY <1>4, <1>5 DEF IsPart, Only
<1> QED BY <1>3, <1>6 DEF Cons

(* words: syllables (parser.y:81).                                         *)
LEMMA PartOfOneWord ==
  ASSUME NEW v, NEW p, IsPart(25, v, p)
  PROVE  IsPart(24, <<v>>, p)
<1> DEFINE e == <<>>
<1>1. IsSeq(p) /\ Only(p, {SYL}) /\ v = Syllables(p)
  BY DEF IsPart
<1>2. Only(p, {SYL, SPC})
  BY <1>1, OnlyMore
<1>3. Uncut(p, {SPC})
  BY <1>1, OnlyUncut, Tokens
<1>4. Between(p, {SPC}) = Cons(p, e) /\ IsSeq(e)
  BY <1>3, WholeParts, SeqNone
<1>5. WordsIn(e) = e /\ <<v>> = Cons(v, e)
  BY MappedNone, ConsNone
<1> HIDE DEF e
<1>6. WordsIn(Between(p, {SPC})) = Cons(v, e)
  BY <1>1, <1>4, <1>5, TextsInFront
<1>7. IsPart(24, Cons(v, e), p)
  BY <1>1, <1>2, <1>6 DEF IsPart
<1> QED BY <1>5, <1>7

(* words: syllables SPACE words (parser.y:82).                             *)
LEMMA PartOfWords ==
  ASSUME NEW v, NEW p, IsPart(25, v, p), NEW u, NEW q, IsPart(4, u, q),
         NEW w, NEW r, IsPart(24, w, r)
  PROVE  IsPart(24, <<v>> \o w, p \o (q \o r))
<1> DEFINE t == q[1]
           b == Between(r, {SPC})
           c == Cons(t, r)
<1>1. IsSeq(p) /\ Only(p, {SYL}) /\ v = Syllables(p)
  BY DEF IsPart
<1>2. IsSeq(q) /\ Len(q) = 1 /\ t.id = SPC
  BY DEF IsPart, SPC
<1>3. IsSeq(r) /\ Only(r, {SYL, SPC}) /\ w = WordsIn(b)
  BY DEF IsPart
<1>4. q \o r = c
  BY <1>2, <1>3, OneInFront
<1>5. IsSeq(b)
  BY <1>3, BetweenFacts
<1> HIDE DEF t, b
<1>6. Uncut(p, {SPC}) /\ t.id \in {SPC} /\ t.id \in {SYL, SPC}
  BY <1>1, <1>2, OnlyUncut, Tokens
<1>7. Between(p \o c, {SPC}) = Cons(p, b)
  BY <1>3, <1>6, SplitParts DEF b
<1>8. WordsIn(Cons(p, b)) = Cons(v, w)
  BY <1>1, <1>3, <1>5, TextsInFront
<1>9. Only(c, {SYL, SPC})
  BY <1>3, <1>6, OnlyCons
<1> HIDE DEF c
<1>10. Only(p \o c, {SYL, SPC})
  <2>1. Only(p, {SYL, SPC})
    BY <1>1, OnlyMore
  <2> QED BY <2>1, <1>9, OnlyConcat
<1>11. IsPart(24, Cons(v, w), p \o c)
  BY <1>7, <1>8, <1>10 DEF IsPart, Only
<1> QED BY <1>4, <1>11 DEF Cons

(* Redirections.                                                           *)
LEMMA RuleOfOp ==
  \A id \in 6..14 :
    \A rule \in 11..19 : RightHandSide[rule][1] = id => RuleOf(id) = rule
<1>1. SUFFICES ASSUME NEW id \in 6..14, NEW rule \in 11..19, RightHandSide[rule][1] = id
      PROVE RuleOf(id) = rule
  OBVIOUS
<1>2. /\ rule = 11 => id = 6
      /\ rule = 12 => id = 10
      /\ rule = 13 => id = 13
      /\ rule = 14 => id = 14
      /\ rule = 15 => id = 7
      /\ rule = 16 => id = 8
      /\ rule = 17 => id = 11
      /\ rule = 18 => id = 9
      /\ rule = 19 => id = 12
  BY <1>1, Sides
<1> QED BY <1>2 DEF RuleOf

(* The numbers of the operators.                                           *)
LEMMA OpsAre == Ops = 6..14 /\ \A id \in 6..14 : id \in Ops /\ id \in 1..18
  BY DEF Ops, FileOps, ShareOps

(* An operator and its word stand for the redirects made by them.          *)
LEMMA PieceIsPart ==
  ASSUME NEW p, IsPiece(p), Only(Tail(p), {SYL}), NEW v, v = MadeBy(p)
  PROVE  IsPart(23, v, p)
  BY DEF IsPart, IsPiece

(* redirect: an operator and syllables (parser.y:68-78).                   *)
LEMMA PartOfRedirect ==
  ASSUME NEW rule \in 11..19, NEW id, id = RightHandSide[rule][1], id \in 6..14,
         NEW v, NEW p, IsPart(id, v, p), NEW w, NEW q, IsPart(25, w, q)
  PROVE  IsPart(23, Redirects(rule, w), p \o q)
<1> DEFINE t == p[1]
           c == Cons(t, q)
<1>1. IsSeq(p) /\ Len(p) = 1 /\ t.id = id
  BY OpsAre DEF IsPart
<1>2. IsSeq(q) /\ Only(q, {SYL}) /\ w = Syllables(q) /\ Len(q) \in Nat
  BY SeqFacts DEF IsPart
<1>3. p \o q = c
  BY <1>1, <1>2, OneInFront
<1> HIDE DEF t
<1>4. IsSeq(c) /\ Len(c) = Len(q) + 1 /\ c[1] = t
  BY <1>2, ConsFacts
<1>5. Head(c) = t /\ Tail(c) = q
  BY <1>2, ConsParts
<1> HIDE DEF c
<1>6. IsPiece(c)
  BY <1>1, <1>2, <1>4, OpsAre DEF IsPiece
<1>7. RuleOf(id) = rule
  BY RuleOfOp
<1>8. MadeBy(c) = Redirects(rule, w)
  BY <1>1, <1>2, <1>5, <1>7 DEF MadeBy
<1>9. IsPart(23, Redirects(rule, w), c)
  <2>1. Only(Tail(c), {SYL})
    BY <1>2, <1>5
  <2> QED BY <1>6, <1>8, <2>1, PieceIsPart
<1> QED BY <1>3, <1>9

(* The syllables that an operator without a word has.                      *)
LEMMA PartOfNoWord == IsPart(25, <<>>, <<>>)
  BY MappedNone, OnlyNone, SeqNone DEF IsPart

(* redirect: an operator without a word (parser.y:71-72).                  *)
LEMMA PartOfShare ==
  ASSUME NEW rule \in {14, 15}, NEW id, id = RightHandSide[rule][1],
         NEW v, NEW p, IsPart(id, v, p)
  PROVE  IsPart(23, Redirects(rule, NoFile), p)
<1> DEFINE e == <<>>
<1>1. IsPart(25, e, e) /\ IsSeq(p)
  BY PartOfNoWord DEF IsPart
<1>2. p \o e = p
  BY <1>1, ThenNone
<1>3. rule \in 11..19 /\ id \in 6..14
  BY Sides
<1> HIDE DEF e
<1>4. IsPart(23, Redirects(rule, e), p)
  BY <1>1, <1>2, <1>3, PartOfRedirect
<1> QED BY <1>4 DEF e, NoFile

(* redirects: nothing (parser.y:65).                                       *)
LEMMA PartOfNoRedirects == IsPart(22, <<>>, <<>>)
<1>1. PICK e : e = <<>>
  OBVIOUS
<1>2. Pieces(e, Ops) = Cons(<<>>, e) /\ IsSeq(e)
  BY <1>1, PiecesNone, SeqNone, ConsNone DEF Nothing
<1>3. e = MadeIn(e) /\ Only(e, Ops \cup {SYL})
  BY <1>1, RedirectsInNone, OnlyNone
<1>4. IsPart(22, e, e)
  BY <1>2, <1>3 DEF IsPart
<1> QED BY <1>1, <1>4

(* redirects: redirect redirects (parser.y:63).                            *)
LEMMA PartOfRedirects ==
  ASSUME NEW v, NEW p, IsPart(23, v, p), NEW w, NEW r, IsPart(22, w, r)
  PROVE  IsPart(22, v \o w, p \o r)
<1> DEFINE e == <<>>
           x == Head(p)
           u == Tail(p)
<1>1. /\ IsSeq(p) /\ IsPiece(p) /\ Only(u, {SYL}) /\ v = MadeBy(p)
      /\ IsSeq(u) /\ x = p[1] /\ x.id \in Ops /\ p = Cons(x, u)
  <2>1. IsSeq(p) /\ IsPiece(p) /\ Only(Tail(p), {SYL}) /\ v = MadeBy(p)
    BY DEF IsPart
  <2>2. Len(p) >= 1 /\ p[1].id \in Ops
    BY <2>1 DEF IsPiece
  <2> QED BY <2>1, <2>2, HeadAndTail
<1>2. PICK q : IsSeq(q) /\ Pieces(r, Ops) = Cons(e, q) /\ w = MadeIn(q)
  BY DEF IsPart
<1>3. IsSeq(r) /\ Only(r, Ops \cup {SYL})
  BY DEF IsPart
<1> DEFINE f == u \o r
           pr == Pieces(r, Ops)
           pf == Pieces(f, Ops)
<1>4. Uncut(u, Ops) /\ IsSeq(f) /\ u \o e = u
  BY <1>1, <1>3, OnlyUncut, Tokens, SeqConcat, ThenNone
<1>5. Head(pr) = e /\ Tail(pr) = q
  <2> HIDE DEF e
  <2> QED BY <1>2, ConsParts
<1>6. pf = Cons(u \o Head(pr), Tail(pr))
  BY <1>3, <1>4, PiecesAfter
<1> HIDE DEF x, u, f, pr, pf
<1>7. pf = Cons(u, q)
  BY <1>4, <1>5, <1>6
<1>8. Head(pf) = u /\ Tail(pf) = q
  BY <1>2, <1>7, ConsParts
<1>9. Pieces(Cons(x, f), Ops) = Cons(e, Cons(p, q))
  <2>1. Pieces(Cons(x, f), Ops) = InFront(x, pf, Ops)
    BY <1>4, PiecesCons DEF pf
  <2> QED BY <2>1, <1>1, <1>8 DEF InFront, e
<1>10. p \o r = Cons(x, f)
  <2>1. PICK g, z : g = x /\ z = u
    OBVIOUS
  <2>2. IsSeq(z)
    BY <1>1, <2>1
  <2>3. Cons(g, z) \o r = Cons(g, z \o r)
    BY <1>3, <2>2, ConsThen
  <2> QED BY <1>1, <2>1, <2>3 DEF f
<1>11. MadeIn(Cons(p, q)) = v \o w
  <2>1. \A k \in 1..Len(q) : IsPiece(q[k])
    <3>1. ArePieces(pr, Ops)
      BY <1>3, PiecesArePieces DEF pr
    <3>2. pr = Cons(e, q)
      BY <1>2 DEF pr
    <3>3. /\ Len(pr) = Len(q) + 1 /\ Len(q) \in Nat
          /\ \A k \in 1..Len(q) : pr[k + 1] = q[k]
      BY <1>2, <3>2, ConsFacts, SeqFacts
    <3>4. ASSUME NEW k \in 1..Len(q) PROVE IsPiece(q[k])
      <4>1. k + 1 \in 2..Len(pr) /\ k + 1 \in 1..Len(pr)
        BY <3>3
      <4>2. IsSeq(pr[k + 1]) /\ Len(pr[k + 1]) >= 1 /\ pr[k + 1][1].id \in Ops
        BY <3>1, <4>1 DEF ArePieces
      <4> QED BY <3>3, <4>2 DEF IsPiece
    <3> QED BY <3>4
  <2> QED BY <1>1, <1>2, <2>1, RedirectsInFront
<1>12. IsSeq(Cons(p, q))
  BY <1>2, ConsFacts
<1>13. Only(p \o r, Ops \cup {SYL})
  <2>1. Only(u, Ops \cup {SYL})
    BY <1>1, OnlyMore DEF u
  <2>2. Only(p, Ops \cup {SYL})
    BY <1>1, <2>1, OnlyCons
  <2> QED BY <1>3, <2>2, OnlyConcat
<1> DEFINE z == Cons(p, q)
<1>14. IsSeq(z) /\ Pieces(p \o r, Ops) = Cons(e, z) /\ v \o w = MadeIn(z)
  BY <1>9, <1>10, <1>11, <1>12
<1> HIDE DEF z
<1> QED BY <1>13, <1>14 DEF IsPart, Only, e

(* redirects: redirect (parser.y:64).                                      *)
LEMMA PartOfOneRedirect ==
  ASSUME NEW v, NEW p, IsPart(23, v, p)
  PROVE  IsPart(22, v, p)
<1> DEFINE e == <<>>
<1>1. IsPart(22, e, e)
  BY PartOfNoRedirects
<1>2. IsSeq(p) /\ IsSeq(v)
  BY MadeByPiece DEF IsPart
<1>3. v \o e = v /\ p \o e = p
  BY <1>2, ThenNone
<1> HIDE DEF e
<1> QED BY <1>1, <1>3, PartOfRedirects

(* A command.                                                              *)
LEMMA PartOfCommand ==
  ASSUME NEW v, NEW p, IsPart(24, v, p), NEW w, NEW r, IsPart(22, w, r)
  PROVE  IsPart(21, [run_if |-> "always", words |-> v, redirects |-> w], p \o r)
<1> DEFINE e == <<>>
           c == p \o r
           pr == Pieces(r, Ops)
           pc == Pieces(c, Ops)
<1>1. IsSeq(p) /\ Only(p, {SYL, SPC}) /\ v = WordsIn(Between(p, {SPC}))
  BY DEF IsPart
<1>2. PICK q : IsSeq(q) /\ pr = Cons(e, q) /\ w = MadeIn(q)
  BY DEF IsPart
<1>3. IsSeq(r) /\ Only(r, Ops \cup {SYL})
  BY DEF IsPart
<1>4. Uncut(p, Ops) /\ IsSeq(c) /\ p \o e = p
  BY <1>1, <1>3, OnlyUncut, Tokens, SeqConcat, ThenNone
<1>5. Head(pr) = e /\ Tail(pr) = q
  <2> HIDE DEF e, pr
  <2> QED BY <1>2, ConsParts
<1>6. pc = Cons(p \o Head(pr), Tail(pr))
  BY <1>3, <1>4, PiecesAfter
<1>7. Only(c, Ops \cup {SYL, SPC})
  <2>1. Only(p, Ops \cup {SYL, SPC}) /\ Only(r, Ops \cup {SYL, SPC})
    BY <1>1, <1>3, OnlyMore
  <2> QED BY <2>1, OnlyConcat
<1> HIDE DEF e, c, pr, pc
<1>8. pc = Cons(p, q)
  BY <1>4, <1>5, <1>6
<1>9. Head(pc) = p /\ Tail(pc) = q
  BY <1>2, <1>8, ConsParts
<1>10. Redirections(c) = q /\ WordsOf(c) = Between(p, {SPC})
  BY <1>9 DEF Redirections, WordsOf, pc, Ops
<1>11. WordTexts(c) = WordsIn(Between(p, {SPC}))
  <2>1. IsSeq(Between(p, {SPC}))
    BY <1>1, BetweenFacts
  <2>2. DOMAIN Between(p, {SPC}) = 1..Len(Between(p, {SPC}))
    BY <2>1, SeqFacts
  <2> QED BY <1>10, <2>2 DEF WordTexts, WordsIn
<1>12. TaskOf(c) = [run_if |-> "always", words |-> v, redirects |-> w]
  BY <1>1, <1>2, <1>10, <1>11 DEF TaskOf
<1>13. IsPart(21, TaskOf(c), c)
  BY <1>4, <1>7 DEF IsPart
<1> QED BY <1>12, <1>13 DEF c

(* Task lists.                                                             *)
LEMMA RedirectionsOf ==
  ASSUME NEW c, IsSeq(c)
  PROVE  /\ IsSeq(Redirections(c)) /\ \A k \in 1..Len(Redirections(c)) : IsPiece(Redirections(c)[k])
         /\ IsSeq(MadeIn(Redirections(c)))
<1> DEFINE p == Pieces(c, Ops)
           h == Head(p)
           q == Tail(p)
<1>1. Redirections(c) = q
  BY DEF Redirections, Ops
<1>2. ArePieces(p, Ops)
  BY PiecesArePieces
<1>3. IsSeq(p) /\ Len(p) >= 1
  BY <1>2 DEF ArePieces
<1>4. /\ IsSeq(q) /\ Len(q) = Len(p) - 1 /\ Len(p) \in Nat
      /\ \A k \in 1..(Len(p) - 1) : q[k] = p[k + 1]
  <2> HIDE DEF p
  <2> QED BY <1>3, HeadAndTail, SeqFacts
<1> HIDE DEF p, q
<1>5. ASSUME NEW k \in 1..Len(q) PROVE IsPiece(q[k])
  <2>1. k + 1 \in 2..Len(p) /\ k + 1 \in 1..Len(p) /\ k \in 1..(Len(p) - 1)
    BY <1>4
  <2>2. IsSeq(p[k + 1]) /\ Len(p[k + 1]) >= 1 /\ p[k + 1][1].id \in Ops
    BY <1>2, <2>1 DEF ArePieces
  <2> QED BY <1>4, <2>1, <2>2 DEF IsPiece
<1>6. IsSeqs(MadeByAll(q))
  <2>1. /\ IsSeq(MadeByAll(q)) /\ Len(MadeByAll(q)) = Len(q)
        /\ \A k \in 1..Len(q) : MadeByAll(q)[k] = MadeBy(q[k])
    BY <1>4, MadeByOf
  <2>2. \A k \in 1..Len(q) : IsSeq(MadeBy(q[k]))
    BY <1>5, MadeByPiece
  <2> QED BY <2>1, <2>2 DEF IsSeqs
<1>7. IsSeq(MadeIn(q))
  <2>1. PICK e : e = <<>>
    OBVIOUS
  <2>2. IsSeq(e)
    BY <2>1, SeqNone
  <2> QED BY <1>6, <2>2, FlattenCons DEF MadeIn
<1> QED BY <1>1, <1>4, <1>5, <1>7

(* The tasks of some commands, one for each.                               *)
LEMMA TasksFacts ==
  ASSUME NEW c, IsSeq(c), NEW x
  PROVE  /\ IsSeq(TasksAt(c, x)) /\ Len(TasksAt(c, x)) = Len(c)
         /\ \A k \in 1..Len(c) : TasksAt(c, x)[k] = TaskAt(c, x, k)
<1> DEFINE f == [k \in 1..Len(c) |-> TaskAt(c, x, k)]
<1>1. Len(c) \in Nat
  BY SeqFacts
<1>2. TasksAt(c, x) = f
  BY DEF TasksAt
<1>3. f = [k \in 1..Len(c) |-> f[k]] /\ \A k \in 1..Len(c) : f[k] = TaskAt(c, x, k)
  OBVIOUS
<1> HIDE DEF f
<1> QED BY <1>1, <1>2, <1>3, Mapped

(* Append joins a sequence of one element.                                 *)
LEMMA AppendIs ==
  ASSUME NEW s, IsSeq(s), NEW x
  PROVE  Append(s, x) = s \o <<x>>
<1> DEFINE a == Append(s, x)
           o == <<x>>
           b == s \o o
<1>1. /\ IsSeq(a) /\ Len(a) = Len(s) + 1 /\ Len(s) \in Nat
      /\ \A k \in 1..Len(s) : a[k] = s[k]
      /\ a[Len(s) + 1] = x
  BY SeqAppend, SeqFacts
<1>2. IsSeq(o) /\ Len(o) = 1 /\ o[1] = x
  BY SeqOne
<1> HIDE DEF a, o
<1>3. /\ IsSeq(b) /\ Len(b) = Len(s) + Len(o)
      /\ \A k \in 1..(Len(s) + Len(o)) : b[k] = IF k <= Len(s) THEN s[k] ELSE o[k - Len(s)]
  BY <1>2, SeqConcat
<1> HIDE DEF b
<1>4. ASSUME NEW k \in 1..Len(a) PROVE a[k] = b[k]
  <2>1. CASE k <= Len(s)
    BY <2>1, <1>1, <1>2, <1>3
  <2>2. CASE ~(k <= Len(s))
    <3>1. k = Len(s) + 1 /\ k - Len(s) = 1
      BY <2>2, <1>1
    <3> QED BY <2>2, <3>1, <1>1, <1>2, <1>3
  <2> QED BY <2>1, <2>2
<1>5. a = b
  BY <1>1, <1>2, <1>3, <1>4, SameSeq
<1> QED BY <1>5 DEF a, b, o

(* Where the pipes are, with one more separator in front.                  *)
LEMMA PipeAtCons ==
  ASSUME NEW t, NEW x, IsSeq(x)
  PROVE  /\ PipeAt(Cons(t, x), 1) <=> t.id = 18
         /\ ~PipeAt(Cons(t, x), 0) /\ ~PipeAt(x, 0)
         /\ \A k \in Nat \ {0} : PipeAt(Cons(t, x), k + 1) <=> PipeAt(x, k)
<1> DEFINE c == Cons(t, x)
<1>1. /\ IsSeq(c) /\ Len(c) = Len(x) + 1 /\ c[1] = t /\ Len(x) \in Nat
      /\ \A k \in 1..Len(x) : c[k + 1] = x[k]
  BY ConsFacts, SeqFacts
<1> HIDE DEF c
<1>2. PipeAt(c, 1) <=> t.id = 18
  BY <1>1 DEF PipeAt
<1>3. ~PipeAt(c, 0) /\ ~PipeAt(x, 0)
  BY <1>1 DEF PipeAt
<1>4. ASSUME NEW k \in Nat \ {0} PROVE PipeAt(c, k + 1) <=> PipeAt(x, k)
  <2>1. k + 1 \in 1..Len(c) <=> k \in 1..Len(x)
    BY <1>1
  <2>2. CASE k \in 1..Len(x)
    <3>1. c[k + 1] = x[k]
      BY <1>1, <2>2
    <3> QED BY <2>1, <2>2, <3>1 DEF PipeAt
  <2>3. CASE k \notin 1..Len(x)
    BY <2>1, <2>3 DEF PipeAt
  <2> QED BY <2>2, <2>3
<1> QED BY <1>2, <1>3, <1>4 DEF c

(* What a pipe adds to the redirects of a task.                            *)
LEMMA EndsAre ==
  ASSUME NEW s, IsSeq(s), NEW stream
  PROVE  /\ EndOf(FALSE, stream) = <<>> /\ s \o EndOf(FALSE, stream) = s
         /\ s \o EndOf(TRUE, stream) = Append(s, NewRedirect(stream, "pipe", 0, NoFile))
         /\ IsSeq(Append(s, NewRedirect(stream, "pipe", 0, NoFile)))
  BY AppendIs, ThenNone, SeqAppend DEF EndOf

(* A sequence of one element.                                              *)
LEMMA ConsOne ==
  ASSUME NEW x
  PROVE  IsSeq(Cons(x, <<>>)) /\ Len(Cons(x, <<>>)) = 1 /\ Cons(x, <<>>)[1] = x
<1>1. Cons(x, <<>>) = <<x>>
  BY ConsNone
<1> QED BY <1>1, SeqOne

(* Neither a part of a word, nor a space, nor an operator separates        *)
(* commands.                                                               *)
LEMMA OneSeparator == \A id \in Ops \cup {SYL, SPC} : id \notin Separators
  BY Tokens

(* cmds: cmd (parser.y:52).                                                *)
LEMMA PartOfOneCommand ==
  ASSUME NEW v, NEW p, IsPart(21, v, p)
  PROVE  IsPart(20, <<v>>, p)
<1>1. IsSeq(p) /\ Only(p, Ops \cup {SYL, SPC}) /\ v = TaskOf(p)
  BY DEF IsPart
<1>2. Uncut(p, Separators)
  BY <1>1, OneSeparator, OnlyUncut
<1>3. PICK e : e = <<>>
  OBVIOUS
<1> DEFINE c == Cons(p, e)
           r == MadeIn(Redirections(p))
           l == TasksAt(c, e)
           m == Cons(v, e)
<1>4. Commands(p) = c /\ Cutters(p, Separators) = e
  BY <1>2, <1>3, WholeParts DEF Commands
<1>5. IsSeq(e) /\ Len(e) = 0
  BY <1>3, SeqNone
<1>6. IsSeq(c) /\ Len(c) = 1 /\ c[1] = p
  BY <1>3, ConsOne
<1>7. IsSeq(r)
  BY <1>1, RedirectionsOf
<1> HIDE DEF c, r
<1>8. TaskAt(c, e, 1) = v
  <2>1. ~PipeAt(e, 1) /\ ~PipeAt(e, 1 - 1)
    BY <1>5 DEF PipeAt
  <2>2. r \o EndOf(FALSE, "out") = r /\ r \o EndOf(FALSE, "in") = r
    BY <1>7, EndsAre
  <2>3. PipeAt(e, 1) = FALSE /\ PipeAt(e, 1 - 1) = FALSE
    BY <2>1 DEF PipeAt
  <2>4. TaskAt(c, e, 1) = [run_if |-> "always", words |-> WordTexts(c[1]),
                           redirects |-> (MadeIn(Redirections(c[1])) \o EndOf(FALSE, "out")) \o EndOf(FALSE, "in")]
    BY <2>3 DEF TaskAt
  <2> QED BY <1>1, <1>6, <2>2, <2>4 DEF TaskOf, r
<1>9. IsSeq(l) /\ Len(l) = 1 /\ l[1] = v
  BY <1>6, <1>8, TasksFacts
<1>10. IsSeq(m) /\ Len(m) = 1 /\ m[1] = v
  BY <1>3, ConsOne
<1> HIDE DEF l, m
<1>11. l = m
  <2>1. \A k \in 1..Len(l) : l[k] = m[k]
    BY <1>9, <1>10
  <2> QED BY <1>9, <1>10, <2>1, SameSeq
<1>12. TasksOf(p) = l
  BY <1>4 DEF TasksOf, l
<1>13. m = <<v>>
  BY <1>3, ConsNone DEF m
<1> QED BY <1>1, <1>11, <1>12, <1>13 DEF IsPart

(* One part more than there are cuts.                                      *)
LEMMA CuttersFacts ==
  ASSUME NEW cuts, NEW s, IsSeq(s)
  PROVE  /\ Cutters(s, cuts) = Heads(Tail(Pieces(s, cuts)))
         /\ IsSeq(Cutters(s, cuts)) /\ Len(Cutters(s, cuts)) = Len(Between(s, cuts)) - 1
         /\ IsSeq(Tail(Pieces(s, cuts)))
         /\ Len(Tail(Pieces(s, cuts))) = Len(Between(s, cuts)) - 1
<1>1. PICK h, q : /\ IsSeq(q) /\ Pieces(s, cuts) = Cons(h, q)
                  /\ h = Head(Pieces(s, cuts)) /\ q = Tail(Pieces(s, cuts))
  BY PiecesFacts
<1>2. Between(s, cuts) = Cons(h, Tails(q)) /\ Cutters(s, cuts) = Heads(q)
  BY <1>1, BetweenIs
<1>3. IsSeq(Tails(q)) /\ Len(Tails(q)) = Len(q) /\ IsSeq(Heads(q)) /\ Len(Heads(q)) = Len(q)
  BY <1>1, TailsFacts
<1>4. Len(Cons(h, Tails(q))) = Len(Tails(q)) + 1
  BY <1>3, ConsFacts
<1>5. Len(q) \in Nat
  BY <1>1, SeqFacts
<1>6. PICK b : b = Between(s, cuts)
  OBVIOUS
<1>7. Len(b) = Len(q) + 1
  BY <1>2, <1>3, <1>4, <1>6
<1>8. Len(b) - 1 = Len(q)
  BY <1>5, <1>7
<1> QED BY <1>1, <1>2, <1>3, <1>6, <1>8

(* The rule of each separator and the condition it sets.                   *)
LEMMA RunIfIs ==
  \A rule \in 3..6 : \A id :
    id = RightHandSide[rule][2] =>
      /\ id \in Separators /\ id \in 1..18 /\ RunIfOfRule(rule) = RunIf(OpText(id))
      /\ id = 18 <=> rule = 6
<1> SUFFICES ASSUME NEW rule \in 3..6, NEW id, id = RightHandSide[rule][2]
    PROVE  /\ id \in Separators /\ id \in 1..18 /\ RunIfOfRule(rule) = RunIf(OpText(id))
           /\ id = 18 <=> rule = 6
  OBVIOUS
<1>1. /\ rule = 3 => id = 17
      /\ rule = 4 => id = 16
      /\ rule = 5 => id = 15
      /\ rule = 6 => id = 18
  BY Sides
<1>2. id = 20 - rule \/ rule = 6
  BY <1>1
<1>3. OpText(15) = "&&" /\ OpText(16) = "||" /\ OpText(17) = ";" /\ OpText(18) = "|"
  BY DEF OpText
<1>4. /\ RunIf("&&") = "if_prev_succeeded" /\ RunIf("||") = "if_prev_failed"
      /\ RunIf(";") = "always" /\ RunIf("|") = "always"
  BY DEF RunIf
<1>5. RunIfOfRule(rule) = RunIf(OpText(id))
  <2>1. CASE rule = 3
    BY <2>1, <1>1, <1>3, <1>4 DEF RunIfOfRule
  <2>2. CASE rule = 4
    BY <2>2, <1>1, <1>3, <1>4 DEF RunIfOfRule
  <2>3. CASE rule = 5
    BY <2>3, <1>1, <1>3, <1>4 DEF RunIfOfRule
  <2>4. CASE rule = 6
    BY <2>4, <1>1, <1>3, <1>4 DEF RunIfOfRule
  <2> QED BY <2>1, <2>2, <2>3, <2>4
<1> QED BY <1>1, <1>2, <1>5, Tokens

(* The record of a task.                                                   *)
LEMMA TaskMade ==
  ASSUME NEW c, NEW x, NEW k
  PROVE  /\ TaskAt(c, x, k).words = WordTexts(c[k])
         /\ TaskAt(c, x, k) = [run_if |-> TaskAt(c, x, k).run_if, words |-> TaskAt(c, x, k).words,
                               redirects |-> TaskAt(c, x, k).redirects]
  BY DEF TaskAt

(* A task with the redirect of a pipe appended.                            *)
LEMMA PipedTask ==
  ASSUME NEW i, NEW w, NEW m, NEW stream
  PROVE  WithPipe([run_if |-> i, words |-> w, redirects |-> m], stream) =
         [run_if |-> i, words |-> w, redirects |-> Append(m, NewRedirect(stream, "pipe", 0, NoFile))]
<1> DEFINE d == NewRedirect(stream, "pipe", 0, NoFile)
           task == [run_if |-> i, words |-> w, redirects |-> m]
<1>1. WithPipe(task, stream) = [task EXCEPT !.redirects = Append(task.redirects, d)]
  BY DEF WithPipe
<1> HIDE DEF d
<1>2. task.redirects = m
  OBVIOUS
<1>3. [task EXCEPT !.redirects = Append(m, d)] =
      [run_if |-> i, words |-> w, redirects |-> Append(m, d)]
  OBVIOUS
<1>4. WithPipe(task, stream) = [run_if |-> i, words |-> w, redirects |-> Append(m, d)]
  BY <1>1, <1>2, <1>3
<1> QED BY <1>4 DEF d

(* The list of a rule for two commands: the first task, and the other list *)
(* with the condition and the pipe added to its first task.                *)
LEMMA ChainIs ==
  ASSUME NEW rule \in 3..6, NEW v, NEW w, IsSeq(w), Len(w) >= 1,
         NEW task, task = [w[1] EXCEPT !.run_if = RunIfOfRule(rule)]
  PROVE  /\ IsSeq(Chain(rule, v, w)) /\ Len(Chain(rule, v, w)) = Len(w) + 1
         /\ Chain(rule, v, w)[1] = IF rule = 6 THEN WithPipe(v, "out") ELSE v
         /\ Chain(rule, v, w)[2] = IF rule = 6 THEN WithPipe(task, "in") ELSE task
         /\ \A k \in 3..(Len(w) + 1) : Chain(rule, v, w)[k] = w[k - 1]
<1>1. w # <<>> /\ Head(w) = w[1]
  <2>1. Len(<<>>) = 0
    BY SeqNone
  <2> QED BY <2>1, HeadAndTail
<1>2. [Head(w) EXCEPT !.run_if = RunIfOfRule(rule)] = task
  BY <1>1
<1>3. Chain(rule, v, w) = IF rule = 6 THEN <<WithPipe(v, "out"), WithPipe(task, "in")>> \o Tail(w)
                                      ELSE <<v, task>> \o Tail(w)
  BY <1>2 DEF Chain
<1>4. PICK x, y : /\ x = IF rule = 6 THEN WithPipe(v, "out") ELSE v
                  /\ y = IF rule = 6 THEN WithPipe(task, "in") ELSE task
  OBVIOUS
<1>5. Chain(rule, v, w) = <<x, y>> \o Tail(w)
  BY <1>3, <1>4
<1> DEFINE c == <<x, y>> \o Tail(w)
<1>6. /\ IsSeq(c) /\ Len(c) = Len(w) + 1 /\ c[1] = x /\ c[2] = y
      /\ \A k \in 3..(Len(w) + 1) : c[k] = w[k - 1]
  BY <1>1, Joined2
<1>7. Chain(rule, v, w) = c
  BY <1>5
<1> HIDE DEF c
<1> QED BY <1>4, <1>6, <1>7

(* cmds: cmd, a separator and cmds (parser.y:53-57).                       *)
LEMMA PartOfChain ==
  ASSUME NEW rule \in 3..6, NEW id, id = RightHandSide[rule][2],
         NEW v, NEW p, IsPart(21, v, p), NEW u, NEW q, IsPart(id, u, q),
         NEW w, NEW r, IsPart(20, w, r)
  PROVE  IsPart(20, Chain(rule, v, w), p \o (q \o r))
<1> DEFINE t == q[1]
           s == p \o (q \o r)
           C == Commands(r)
           X == Cutters(r, Separators)
           D == Cons(p, C)
           Y == Cons(t, X)
           n == Len(C)
           R(k) == MadeIn(Redirections(C[k]))
           P == MadeIn(Redirections(p))
           to == NewRedirect("out", "pipe", 0, NoFile)
           from == NewRedirect("in", "pipe", 0, NoFile)
           pipe == t.id = 18
<1>1. /\ id \in Separators /\ id \in 1..18 /\ RunIfOfRule(rule) = RunIf(OpText(id))
      /\ id = 18 <=> rule = 6
  BY RunIfIs
<1>2. IsSeq(p) /\ Only(p, Ops \cup {SYL, SPC}) /\ v = TaskOf(p) /\ Uncut(p, Separators)
  BY OneSeparator, OnlyUncut DEF IsPart
<1>3. IsSeq(q) /\ Len(q) = 1 /\ t.id = id
  BY <1>1 DEF IsPart
<1>4. IsSeq(r) /\ w = TasksAt(C, X)
  BY DEF IsPart, TasksOf
<1>5. q \o r = Cons(t, r)
  BY <1>3, <1>4, OneInFront
<1>6. /\ IsSeq(C) /\ n >= 1 /\ n \in Nat /\ IsSeq(X) /\ \A k \in 1..n : IsSeq(C[k])
  BY <1>4, BetweenFacts, CuttersFacts, SeqFacts DEF Commands
<1> HIDE DEF t
<1>7. Commands(s) = D /\ Cutters(s, Separators) = Y /\ IsSeq(s)
  <2>1. Between(p \o Cons(t, r), Separators) = Cons(p, Between(r, Separators))
        /\ Cutters(p \o Cons(t, r), Separators) = Cons(t, Cutters(r, Separators))
    BY <1>1, <1>2, <1>3, <1>4, SplitParts
  <2>2. IsSeq(Cons(t, r))
    BY <1>4, ConsFacts
  <2>3. IsSeq(p \o Cons(t, r))
    BY <1>2, <2>2, SeqConcat
  <2> QED BY <1>5, <2>1, <2>3 DEF Commands
<1> HIDE DEF s, C, X
<1>8. /\ IsSeq(D) /\ Len(D) = n + 1 /\ D[1] = p /\ \A k \in 2..(n + 1) : D[k] = C[k - 1]
  BY <1>6, ConsFacts
<1>9. /\ IsSeq(Y) /\ Y[1] = t /\ \A k \in 1..Len(X) : Y[k + 1] = X[k]
      /\ PipeAt(Y, 1) <=> pipe
      /\ ~PipeAt(Y, 0) /\ ~PipeAt(X, 0)
      /\ \A k \in Nat \ {0} : PipeAt(Y, k + 1) <=> PipeAt(X, k)
  BY <1>6, ConsFacts, PipeAtCons
<1> HIDE DEF D, Y
<1>10. /\ IsSeq(TasksAt(D, Y)) /\ Len(TasksAt(D, Y)) = n + 1
       /\ \A k \in 1..(n + 1) : TasksAt(D, Y)[k] = TaskAt(D, Y, k)
  BY <1>8, TasksFacts
<1>11. /\ IsSeq(w) /\ Len(w) = n /\ w # <<>> /\ Head(w) = w[1]
       /\ \A k \in 1..n : w[k] = TaskAt(C, X, k)
  <2>1. IsSeq(w) /\ Len(w) = n /\ \A k \in 1..n : w[k] = TaskAt(C, X, k)
    BY <1>4, <1>6, TasksFacts
  <2>2. Len(<<>>) = 0
    BY SeqNone
  <2> QED BY <2>1, <2>2, <1>6, HeadAndTail
<1>12. IsSeq(P) /\ IsSeq(R(1))
  BY <1>2, <1>6, RedirectionsOf
<1> HIDE DEF n
<1>13. ~PipeAt(X, 0) /\ PipeAt(X, 0) = FALSE /\ PipeAt(Y, 0) = FALSE
       /\ PipeAt(Y, 1) = (rule = 6) /\ PipeAt(Y, 2) = PipeAt(X, 1)
  <2>1. PipeAt(Y, 1 + 1) <=> PipeAt(X, 1)
    BY <1>9
  <2> QED BY <1>1, <1>3, <1>9, <2>1 DEF PipeAt, pipe
<1> HIDE DEF pipe
<1>14. PICK wt, mid, task :
         /\ wt = WordTexts(C[1]) /\ mid = R(1) \o EndOf(PipeAt(X, 1), "out")
         /\ task = [run_if |-> RunIfOfRule(rule), words |-> wt, redirects |-> mid]
  OBVIOUS
<1>15. IsSeq(mid)
  BY <1>12, <1>14, EndsAre DEF PipeAt
<1>16. w[1] = [run_if |-> "always", words |-> wt, redirects |-> mid]
  <2>1. w[1] = TaskAt(C, X, 1)
    BY <1>6, <1>11
  <2>2. TaskAt(C, X, 1) = [run_if |-> "always", words |-> wt, redirects |-> mid \o EndOf(PipeAt(X, 1 - 1), "in")]
    BY <1>14 DEF TaskAt
  <2>3. mid \o EndOf(PipeAt(X, 1 - 1), "in") = mid
    <3>1. 1 - 1 = 0 /\ PipeAt(X, 1 - 1) = FALSE
      BY <1>13
    <3> QED BY <3>1, <1>15, EndsAre
  <2> QED BY <2>1, <2>2, <2>3
<1>17. PICK c : c = Chain(rule, v, w)
  OBVIOUS
<1>18. /\ IsSeq(c) /\ Len(c) = n + 1
       /\ c[1] = IF rule = 6 THEN WithPipe(v, "out") ELSE v
       /\ c[2] = IF rule = 6 THEN WithPipe(task, "in") ELSE task
       /\ \A k \in 3..(n + 1) : c[k] = w[k - 1]
  <2>1. Len(w) >= 1
    BY <1>6, <1>11
  <2> HIDE DEF R, P, to, from
  <2>2. /\ IsSeq(c) /\ Len(c) = Len(w) + 1
        /\ c[1] = IF rule = 6 THEN WithPipe(v, "out") ELSE v
        /\ c[2] = IF rule = 6 THEN WithPipe(task, "in") ELSE task
        /\ \A k \in 3..(Len(w) + 1) : c[k] = w[k - 1]
    <3>1. task = [w[1] EXCEPT !.run_if = RunIfOfRule(rule)]
      <4>1. PICK f, i : f = w[1] /\ i = RunIfOfRule(rule)
        OBVIOUS
      <4>2. f = [run_if |-> "always", words |-> wt, redirects |-> mid]
        BY <1>16, <4>1
      <4>3. task = [run_if |-> i, words |-> wt, redirects |-> mid]
        BY <1>14, <4>1
      <4>4. task = [f EXCEPT !.run_if = i]
        BY <4>2, <4>3
      <4> QED BY <4>1, <4>4
    <3> QED BY <3>1, <1>11, <1>17, <2>1, ChainIs
  <2> QED BY <2>2, <1>11
<1>19. c[1] = TaskAt(D, Y, 1)
  <2>1. TaskAt(D, Y, 1) = [run_if |-> "always", words |-> WordTexts(p),
                           redirects |-> (P \o EndOf(rule = 6, "out")) \o EndOf(FALSE, "in")]
    <3>1. 1 - 1 = 0 /\ PipeAt(Y, 1 - 1) = FALSE /\ PipeAt(Y, 1) = (rule = 6)
      BY <1>13
    <3> QED BY <1>8, <3>1 DEF TaskAt
  <2>2. IsSeq(P \o EndOf(rule = 6, "out"))
    <3>1. PICK e, o, g : e = EndOf(rule = 6, "out") /\ o = <<to>> /\ g = <<>>
      OBVIOUS
    <3>2. IsSeq(o) /\ IsSeq(g)
      <4> HIDE DEF to
      <4> QED BY <3>1, SeqOne, SeqNone
    <3>3. e = IF rule = 6 THEN o ELSE g
      BY <3>1 DEF EndOf
    <3>4. IsSeq(e)
      BY <3>2, <3>3
    <3>5. IsSeq(P \o e)
      BY <1>12, <3>4, SeqConcat
    <3> QED BY <3>1, <3>5
  <2>3. (P \o EndOf(rule = 6, "out")) \o EndOf(FALSE, "in") = P \o EndOf(rule = 6, "out")
    BY <2>2, EndsAre
  <2>4. v = [run_if |-> "always", words |-> WordTexts(p), redirects |-> P]
    BY <1>2 DEF TaskOf
  <2>5. CASE rule = 6
    <3>1. P \o EndOf(rule = 6, "out") = Append(P, to)
      BY <1>12, <2>5, EndsAre
    <3>2. WithPipe(v, "out") = [run_if |-> "always", words |-> WordTexts(p), redirects |-> Append(P, to)]
      BY <2>4, PipedTask
    <3> HIDE DEF P, to
    <3> QED BY <1>18, <2>1, <2>3, <2>5, <3>1, <3>2
  <2>6. CASE rule # 6
    <3>1. P \o EndOf(rule = 6, "out") = P
      BY <1>12, <2>6, EndsAre
    <3> HIDE DEF P
    <3> QED BY <1>18, <2>1, <2>3, <2>4, <2>6, <3>1
  <2> QED BY <2>5, <2>6
<1>20. c[2] = TaskAt(D, Y, 2)
  <2>1. D[2] = C[1] /\ Y[2 - 1] = t
    BY <1>6, <1>8, <1>9
  <2>2. TaskAt(D, Y, 2) = [run_if |-> RunIfOfRule(rule), words |-> wt,
                           redirects |-> mid \o EndOf(rule = 6, "in")]
    <3>1. 2 - 1 = 1 /\ PipeAt(Y, 2 - 1) = (rule = 6) /\ PipeAt(Y, 2) = PipeAt(X, 1) /\ 2 # 1
      BY <1>13
    <3>2. RunIf(OpText(Y[2 - 1].id)) = RunIfOfRule(rule)
      BY <1>1, <1>3, <2>1
    <3>3. mid = R(1) \o EndOf(PipeAt(X, 1), "out") /\ wt = WordTexts(C[1])
      BY <1>14
    <3> HIDE DEF from, to, P
    <3> QED BY <2>1, <3>1, <3>2, <3>3 DEF TaskAt
  <2>3. CASE rule = 6
    <3>1. mid \o EndOf(rule = 6, "in") = Append(mid, from)
      BY <1>15, <2>3, EndsAre
    <3>2. WithPipe(task, "in") = [run_if |-> RunIfOfRule(rule), words |-> wt, redirects |-> Append(mid, from)]
      BY <1>14, PipedTask
    <3> HIDE DEF from
    <3> QED BY <1>18, <2>2, <2>3, <3>1, <3>2
  <2>4. CASE rule # 6
    <3>1. mid \o EndOf(rule = 6, "in") = mid
      BY <1>15, <2>4, EndsAre
    <3> QED BY <1>14, <1>18, <2>2, <2>4, <3>1
  <2> QED BY <2>3, <2>4
<1>21. ASSUME NEW k \in 3..(n + 1) PROVE c[k] = TaskAt(D, Y, k)
  <2>1. k - 1 \in 1..n /\ k - 1 # 1 /\ k - 2 \in 1..Len(X) /\ (k - 2) + 1 = k - 1
        /\ (k - 1) - 1 = k - 2 /\ (k - 1) + 1 = k /\ k - 1 \in Nat \ {0}
            /\ k - 2 \in Nat \ {0} /\ k # 1
        /\ k \in 2..(n + 1)
    <3>1. Len(X) = n - 1
      BY <1>4, CuttersFacts DEF X, C, n, Commands
    <3> QED BY <1>6, <3>1
  <2>2. c[k] = TaskAt(C, X, k - 1)
    BY <1>11, <1>18, <2>1
  <2>3. D[k] = C[k - 1] /\ Y[k - 1] = X[k - 2]
    BY <1>8, <1>9, <2>1
  <2>4. PipeAt(Y, k) = PipeAt(X, k - 1) /\ PipeAt(Y, k - 1) = PipeAt(X, k - 2)
    <3>1. PipeAt(Y, (k - 1) + 1) <=> PipeAt(X, k - 1)
      BY <1>9, <2>1
    <3>2. PipeAt(Y, (k - 2) + 1) <=> PipeAt(X, k - 2)
      BY <1>9, <2>1
    <3> QED BY <2>1, <3>1, <3>2 DEF PipeAt
  <2>5. PICK j, i : j = k - 1 /\ i = k - 2
    OBVIOUS
  <2>6. TaskAt(D, Y, k) = TaskAt(C, X, j)
    <3>1. /\ j # 1 /\ k # 1 /\ D[k] = C[j] /\ k - 1 = j /\ j - 1 = i /\ Y[j] = X[i]
          /\ PipeAt(Y, k) = PipeAt(X, j) /\ PipeAt(Y, j) = PipeAt(X, i)
      BY <2>1, <2>3, <2>4, <2>5
    <3> QED BY <3>1 DEF TaskAt
  <2> QED BY <2>2, <2>5, <2>6
<1>22. c = TasksAt(D, Y)
  <2>1. \A k \in 1..(n + 1) : c[k] = TaskAt(D, Y, k)
    <3>1. \A k \in 1..(n + 1) : k = 1 \/ k = 2 \/ k \in 3..(n + 1)
      BY <1>6 DEF n
    <3> QED BY <1>19, <1>20, <1>21, <3>1
  <2>2. \A k \in 1..Len(c) : c[k] = TasksAt(D, Y)[k]
    BY <1>10, <1>18, <2>1
  <2> QED BY <1>10, <1>18, <2>2, SameSeq
<1>23. TasksOf(s) = TasksAt(D, Y)
  BY <1>7 DEF TasksOf
<1>24. IsPart(20, c, s)
  BY <1>7, <1>22, <1>23 DEF IsPart
<1> QED BY <1>17, <1>24 DEF s

(***************************************************************************)
(* A left-hand side stands for what its right-hand side stands for         *)
(***************************************************************************)
(* The rules of parser.y by the length of their right-hand sides.          *)
LEMMA RuleLengths ==
  \A rule \in 2..24 :
    /\ Length(rule) = 0 => rule = 10 /\ Lhs(rule) = 22
    /\ Length(rule) = 1 /\ rule # 22 =>
         \/ rule = 2 /\ Lhs(rule) = 20
         \/ rule = 9 /\ Lhs(rule) = 22
         \/ rule \in {14, 15} /\ Lhs(rule) = 23
         \/ rule = 20 /\ Lhs(rule) = 24
         \/ rule = 23 /\ Lhs(rule) = 25
    /\ Length(rule) = 2 =>
         \/ rule = 7 /\ Lhs(rule) = 21
         \/ rule = 8 /\ Lhs(rule) = 22
         \/ rule \in {11, 12, 13, 16, 17, 18, 19} /\ Lhs(rule) = 23
         \/ rule = 24 /\ Lhs(rule) = 25
    /\ Length(rule) = 3 =>
         \/ rule \in 3..6 /\ Lhs(rule) = 20
         \/ rule = 21 /\ Lhs(rule) = 24
  BY DEF Length, Lhs, At, yyr1, yyr2

(* The value of a left-hand side is that of its parts put together.         *)
LEMMA NoPart ==
  ASSUME NEW rule \in 2..24, Length(rule) = 0, NEW v
  PROVE  IsPart(Lhs(rule), Value(rule, v), <<>>)
<1>1. rule = 10 /\ Lhs(rule) = 22
  BY RuleLengths
<1>2. Value(rule, v) = <<>>
  BY <1>1, SemanticActions
<1> QED BY <1>1, <1>2, PartOfNoRedirects

(* A rule with one symbol on its right-hand side.                          *)
LEMMA OnePart ==
  ASSUME NEW rule \in 2..24 \ {22}, Length(rule) = 1, NEW v,
         NEW p, IsPart(RightHandSide[rule][1], v[1], p)
  PROVE  IsPart(Lhs(rule), Value(rule, v), p)
<1>0. PICK a : a = v[1]
  OBVIOUS
<1>1. CASE rule = 2
  <2>1. RightHandSide[rule][1] = 21
    BY <1>1, Sides
  <2>2. IsPart(21, a, p)
    BY <1>0, <2>1
  <2>3. Lhs(rule) = 20
    BY <1>1, RuleLengths
  <2>4. Value(rule, v) = <<a>>
    BY <1>0, <1>1, SemanticActions
  <2> QED BY <2>2, <2>3, <2>4, PartOfOneCommand
<1>2. CASE rule = 9
  <2>1. RightHandSide[rule][1] = 23
    BY <1>2, Sides
  <2>2. IsPart(23, a, p)
    BY <1>0, <2>1
  <2>3. Lhs(rule) = 22
    BY <1>2, RuleLengths
  <2>4. Value(rule, v) = a
    BY <1>0, <1>2, SemanticActions
  <2> QED BY <2>2, <2>3, <2>4, PartOfOneRedirect
<1>3. CASE rule \in {14, 15}
  <2>1. PICK id : id = RightHandSide[rule][1]
    OBVIOUS
  <2>2. IsPart(id, a, p)
    BY <1>0, <2>1
  <2>3. Lhs(rule) = 23
    BY <1>3, RuleLengths
  <2>4. Value(rule, v) = Redirects(rule, NoFile)
    BY <1>3, SemanticActions
  <2> QED BY <1>3, <2>1, <2>2, <2>3, <2>4, PartOfShare
<1>4. CASE rule = 20
  <2>1. RightHandSide[rule][1] = 25
    BY <1>4, Sides
  <2>2. IsPart(25, a, p)
    BY <1>0, <2>1
  <2>3. Lhs(rule) = 24
    BY <1>4, RuleLengths
  <2>4. Value(rule, v) = <<a>>
    BY <1>0, <1>4, SemanticActions
  <2> QED BY <2>2, <2>3, <2>4, PartOfOneWord
<1>5. CASE rule = 23
  <2>1. RightHandSide[rule][1] = 3
    BY <1>5, Sides
  <2>2. IsPart(3, a, p)
    BY <1>0, <2>1
  <2>3. Lhs(rule) = 25
    BY <1>5, RuleLengths
  <2>4. Value(rule, v) = <<a>>
    BY <1>0, <1>5, SemanticActions
  <2> QED BY <2>2, <2>3, <2>4, PartOfSyllable
<1> QED BY <1>1, <1>2, <1>3, <1>4, <1>5, RuleLengths

(* A redirection to a file is an operator and a text.                      *)
LEMMA OpOfRule ==
  \A rule \in {11, 12, 13, 16, 17, 18, 19} :
    RightHandSide[rule][1] \in 6..14 /\ RightHandSide[rule][2] = 25
  BY Sides

(* A rule with two symbols on its right-hand side.                         *)
LEMMA TwoParts ==
  ASSUME NEW rule \in 2..24, Length(rule) = 2, NEW v,
         NEW p, IsPart(RightHandSide[rule][1], v[1], p),
         NEW q, IsPart(RightHandSide[rule][2], v[2], q)
  PROVE  IsPart(Lhs(rule), Value(rule, v), p \o q)
<1>0. PICK a, b : a = v[1] /\ b = v[2]
  OBVIOUS
<1>1. CASE rule = 7
  <2>1. RightHandSide[rule][1] = 24 /\ RightHandSide[rule][2] = 22
    BY <1>1, Sides
  <2>2. IsPart(24, a, p) /\ IsPart(22, b, q)
    BY <1>0, <2>1
  <2>3. Lhs(rule) = 21
    BY <1>1, RuleLengths
  <2>4. Value(rule, v) = [run_if |-> "always", words |-> a, redirects |-> b]
    BY <1>0, <1>1, SemanticActions
  <2> QED BY <2>2, <2>3, <2>4, PartOfCommand
<1>2. CASE rule = 8
  <2>1. RightHandSide[rule][1] = 23 /\ RightHandSide[rule][2] = 22
    BY <1>2, Sides
  <2>2. IsPart(23, a, p) /\ IsPart(22, b, q)
    BY <1>0, <2>1
  <2>3. Lhs(rule) = 22
    BY <1>2, RuleLengths
  <2>4. Value(rule, v) = a \o b
    BY <1>0, <1>2, SemanticActions
  <2> QED BY <2>2, <2>3, <2>4, PartOfRedirects
<1>3. CASE rule \in {11, 12, 13, 16, 17, 18, 19}
  <2>1. PICK id : id = RightHandSide[rule][1]
    OBVIOUS
  <2>2. IsPart(id, a, p) /\ id \in 6..14 /\ RightHandSide[rule][2] = 25
    BY <1>0, <1>3, <2>1, OpOfRule
  <2>3. IsPart(25, b, q) /\ rule \in 11..19
    BY <1>0, <1>3, <2>2
  <2>4. Lhs(rule) = 23
    BY <1>3, RuleLengths
  <2>5. Value(rule, v) = Redirects(rule, b)
    BY <1>0, <1>3, SemanticActions
  <2> QED BY <2>1, <2>2, <2>3, <2>4, <2>5, PartOfRedirect
<1>4. CASE rule = 24
  <2>1. RightHandSide[rule][1] = 3 /\ RightHandSide[rule][2] = 25
    BY <1>4, Sides
  <2>2. IsPart(3, a, p) /\ IsPart(25, b, q)
    BY <1>0, <2>1
  <2>3. Lhs(rule) = 25
    BY <1>4, RuleLengths
  <2>4. Value(rule, v) = <<a>> \o b
    BY <1>0, <1>4, SemanticActions
  <2> QED BY <2>2, <2>3, <2>4, PartOfWord
<1> QED BY <1>1, <1>2, <1>3, <1>4, RuleLengths

(* A rule with three symbols on its right-hand side.                       *)
LEMMA ThreeParts ==
  ASSUME NEW rule \in 2..24, Length(rule) = 3, NEW v,
         NEW p, IsPart(RightHandSide[rule][1], v[1], p),
         NEW q, IsPart(RightHandSide[rule][2], v[2], q),
         NEW r, IsPart(RightHandSide[rule][3], v[3], r)
  PROVE  IsPart(Lhs(rule), Value(rule, v), p \o (q \o r))
<1>0. PICK a, b, c : a = v[1] /\ b = v[2] /\ c = v[3]
  OBVIOUS
<1>1. CASE rule \in 3..6
  <2>1. RightHandSide[rule][1] = 21 /\ RightHandSide[rule][3] = 20
    BY <1>1, Sides
  <2>2. PICK id : id = RightHandSide[rule][2]
    OBVIOUS
  <2>3. IsPart(21, a, p) /\ IsPart(id, b, q) /\ IsPart(20, c, r)
    BY <1>0, <2>1, <2>2
  <2>4. Lhs(rule) = 20
    BY <1>1, RuleLengths
  <2>5. Value(rule, v) = Chain(rule, a, c)
    BY <1>0, <1>1, SemanticActions
  <2> QED BY <1>1, <2>2, <2>3, <2>4, <2>5, PartOfChain
<1>2. CASE rule = 21
  <2>1. RightHandSide[rule][1] = 25 /\ RightHandSide[rule][2] = 4 /\ RightHandSide[rule][3] = 24
    BY <1>2, Sides
  <2>2. IsPart(25, a, p) /\ IsPart(4, b, q) /\ IsPart(24, c, r)
    BY <1>0, <2>1
  <2>3. Lhs(rule) = 24
    BY <1>2, RuleLengths
  <2>4. Value(rule, v) = <<a>> \o c
    BY <1>0, <1>2, SemanticActions
  <2> QED BY <2>2, <2>3, <2>4, PartOfWords
<1> QED BY <1>1, <1>2, RuleLengths

(***************************************************************************)
(* What the tasks mean                                                     *)
(***************************************************************************)
(* The redirects m that a rule makes are those g that the grammar gives the *)
(* operator, and the files among them are f, opened with the append flag a. *)
Alike(m, g, f, a) ==
  /\ IsSeq(m) /\ IsSeq(g) /\ Len(m) = Len(g)
  /\ \A j \in 1..Len(m) :
       /\ g[j] = [stream |-> m[j].stream, target |-> m[j].target]
       /\ m[j].target = "file" => m[j].file = f /\ m[j].append = a

(* One redirect made, one meant.                                           *)
LEMMA AlikeOne ==
  ASSUME NEW f, NEW a, NEW s, NEW t, NEW b, NEW file, t = "file" => file = f /\ b = a
  PROVE  Alike(<<NewRedirect(s, t, b, file)>>, <<RedirectTo(s, t)>>, f, a)
<1> DEFINE x == NewRedirect(s, t, b, file)
           y == RedirectTo(s, t)
           m == <<x>>
           g == <<y>>
<1>1. /\ x.stream = s /\ x.target = t /\ x.append = b /\ x.file = file
      /\ y = [stream |-> s, target |-> t]
  BY DEF NewRedirect, RedirectTo
<1> HIDE DEF x, y
<1>2. IsSeq(m) /\ Len(m) = 1 /\ m[1] = x /\ IsSeq(g) /\ Len(g) = 1 /\ g[1] = y
  BY SeqOne
<1> HIDE DEF m, g
<1>3. Alike(m, g, f, a)
  <2>1. \A j \in 1..Len(m) : j = 1
    BY <1>2
  <2> QED BY <1>1, <1>2, <2>1 DEF Alike
<1> QED BY <1>3 DEF m, g, x, y

(* A redirect of the error output and one of the output.                   *)
LEMMA AlikeTwo ==
  ASSUME NEW f, NEW a, NEW s, NEW b, NEW r, NEW file, NEW none, file = f
  PROVE  Alike(<<NewRedirect(s, "share", b, none), NewRedirect(r, "file", a, file)>>,
               <<RedirectTo(s, "share"), RedirectTo(r, "file")>>, f, a)
<1> DEFINE x == NewRedirect(s, "share", b, none)
           y == RedirectTo(s, "share")
           z == NewRedirect(r, "file", a, file)
           w == RedirectTo(r, "file")
           m == <<x, z>>
           g == <<y, w>>
<1>1. /\ x.stream = s /\ x.target = "share"
      /\ y = [stream |-> s, target |-> "share"]
      /\ z.stream = r /\ z.target = "file" /\ z.append = a /\ z.file = file
      /\ w = [stream |-> r, target |-> "file"]
  BY DEF NewRedirect, RedirectTo
<1> HIDE DEF x, y, z, w
<1>2. /\ IsSeq(m) /\ Len(m) = 2 /\ m[1] = x /\ m[2] = z
      /\ IsSeq(g) /\ Len(g) = 2 /\ g[1] = y /\ g[2] = w
  <2>1. m \in Seq({x, z}) /\ g \in Seq({y, w})
    OBVIOUS
  <2>2. Len(m) = 2 /\ m[1] = x /\ m[2] = z /\ Len(g) = 2 /\ g[1] = y /\ g[2] = w
    OBVIOUS
  <2> QED BY <2>1, <2>2 DEF IsSeq
<1> HIDE DEF m, g
<1>3. Alike(m, g, f, a)
  <2>1. \A j \in 1..Len(m) : j = 1 \/ j = 2
    BY <1>2
  <2> QED BY <1>1, <1>2, <2>1 DEF Alike
<1> QED BY <1>3 DEF m, g, x, y, z, w

AppendOf(id) == IF id \in AppendOps THEN 1 ELSE 0

(* The nine operators: the rule that reduces each, and what it makes.       *)
LEMMA RedirectsOfRules ==
  ASSUME NEW f
  PROVE  /\ Redirects(11, f) = <<NewRedirect("in",  "file",  0, f)>>
         /\ Redirects(12, f) = <<NewRedirect("out", "file",  0, f)>>
         /\ Redirects(13, f) = <<NewRedirect("out", "file",  1, f)>>
         /\ Redirects(14, f) = <<NewRedirect("out", "share", 0, NoFile)>>
         /\ Redirects(15, f) = <<NewRedirect("err", "share", 0, NoFile)>>
         /\ Redirects(16, f) = <<NewRedirect("err", "file",  0, f)>>
         /\ Redirects(17, f) = <<NewRedirect("err", "file",  1, f)>>
         /\ Redirects(18, f) = <<NewRedirect("err", "share", 0, NoFile), NewRedirect("out", "file", 0, f)>>
         /\ Redirects(19, f) = <<NewRedirect("err", "share", 1, NoFile), NewRedirect("out", "file", 1, f)>>
  BY DEF Redirects

(* How the operators are written.                                          *)
LEMMA TextsOfOps ==
  /\ OpText(6) = "<" /\ OpText(7) = "2>&1" /\ OpText(8) = "2>" /\ OpText(9) = "&>"
  /\ OpText(10) = ">" /\ OpText(11) = "2>>" /\ OpText(12) = "&>>" /\ OpText(13) = ">>"
  /\ OpText(14) = ">&2" /\ OpText(18) = "|"
  /\ \A id \in {15, 16, 17} : OpText(id) # "|"
  BY DEF OpText

(* What the operators mean in Grammar.                                     *)
LEMMA RedirectionOfOps ==
  /\ Redirection("<") = <<RedirectTo("in", "file")>>
  /\ Redirection(">") = <<RedirectTo("out", "file")>>
  /\ Redirection(">>") = <<RedirectTo("out", "file")>>
  /\ Redirection(">&2") = <<RedirectTo("out", "share")>>
  /\ Redirection("2>&1") = <<RedirectTo("err", "share")>>
  /\ Redirection("2>") = <<RedirectTo("err", "file")>>
  /\ Redirection("2>>") = <<RedirectTo("err", "file")>>
  /\ Redirection("&>") = <<RedirectTo("err", "share"), RedirectTo("out", "file")>>
  /\ Redirection("&>>") = <<RedirectTo("err", "share"), RedirectTo("out", "file")>>
  BY DEF Redirection

(* The rule of parser.y of each operator.                                  *)
LEMMA RulesOfOps ==
  /\ RuleOf(6) = 11 /\ RuleOf(7) = 15 /\ RuleOf(8) = 16 /\ RuleOf(9) = 18 /\ RuleOf(10) = 12
  /\ RuleOf(11) = 17 /\ RuleOf(12) = 19 /\ RuleOf(13) = 13 /\ RuleOf(14) = 14
  BY DEF RuleOf

(* The operators that append.                                              *)
LEMMA AppendsOf ==
  /\ AppendOf(6) = 0 /\ AppendOf(8) = 0 /\ AppendOf(9) = 0 /\ AppendOf(10) = 0
  /\ AppendOf(11) = 1 /\ AppendOf(12) = 1 /\ AppendOf(13) = 1
  BY DEF AppendOf, AppendOps

(* Each rule makes the redirects that its operator means.                  *)
LEMMA OpMakes ==
  ASSUME NEW id \in Ops, NEW f
  PROVE  Alike(Redirects(RuleOf(id), f), Redirection(OpText(id)), f, AppendOf(id))
<1>1. id \in {6, 7, 8, 9, 10, 11, 12, 13, 14}
  BY DEF Ops, FileOps, ShareOps
<1>2. CASE id = 6
  <2>1. Alike(<<NewRedirect("in", "file", 0, f)>>, <<RedirectTo("in", "file")>>, f, 0)
    BY AlikeOne
  <2> QED BY <1>2, <2>1, RedirectsOfRules, TextsOfOps, RedirectionOfOps, RulesOfOps, AppendsOf
<1>3. CASE id = 7
  <2>1. Alike(<<NewRedirect("err", "share", 0, NoFile)>>, <<RedirectTo("err", "share")>>, f, AppendOf(7))
    BY AlikeOne
  <2> QED BY <1>3, <2>1, RedirectsOfRules, TextsOfOps, RedirectionOfOps, RulesOfOps
<1>4. CASE id = 8
  <2>1. Alike(<<NewRedirect("err", "file", 0, f)>>, <<RedirectTo("err", "file")>>, f, 0)
    BY AlikeOne
  <2> QED BY <1>4, <2>1, RedirectsOfRules, TextsOfOps, RedirectionOfOps, RulesOfOps, AppendsOf
<1>5. CASE id = 9
  <2>1. Alike(<<NewRedirect("err", "share", 0, NoFile), NewRedirect("out", "file", 0, f)>>,
              <<RedirectTo("err", "share"), RedirectTo("out", "file")>>, f, 0)
    BY AlikeTwo
  <2> QED BY <1>5, <2>1, RedirectsOfRules, TextsOfOps, RedirectionOfOps, RulesOfOps, AppendsOf
<1>6. CASE id = 10
  <2>1. Alike(<<NewRedirect("out", "file", 0, f)>>, <<RedirectTo("out", "file")>>, f, 0)
    BY AlikeOne
  <2> QED BY <1>6, <2>1, RedirectsOfRules, TextsOfOps, RedirectionOfOps, RulesOfOps, AppendsOf
<1>7. CASE id = 11
  <2>1. Alike(<<NewRedirect("err", "file", 1, f)>>, <<RedirectTo("err", "file")>>, f, 1)
    BY AlikeOne
  <2> QED BY <1>7, <2>1, RedirectsOfRules, TextsOfOps, RedirectionOfOps, RulesOfOps, AppendsOf
<1>8. CASE id = 12
  <2>1. Alike(<<NewRedirect("err", "share", 1, NoFile), NewRedirect("out", "file", 1, f)>>,
              <<RedirectTo("err", "share"), RedirectTo("out", "file")>>, f, 1)
    BY AlikeTwo
  <2> QED BY <1>8, <2>1, RedirectsOfRules, TextsOfOps, RedirectionOfOps, RulesOfOps, AppendsOf
<1>9. CASE id = 13
  <2>1. Alike(<<NewRedirect("out", "file", 1, f)>>, <<RedirectTo("out", "file")>>, f, 1)
    BY AlikeOne
  <2> QED BY <1>9, <2>1, RedirectsOfRules, TextsOfOps, RedirectionOfOps, RulesOfOps, AppendsOf
<1>10. CASE id = 14
  <2>1. Alike(<<NewRedirect("out", "share", 0, NoFile)>>, <<RedirectTo("out", "share")>>, f, AppendOf(14))
    BY AlikeOne
  <2> QED BY <1>10, <2>1, RedirectsOfRules, TextsOfOps, RedirectionOfOps, RulesOfOps
<1> QED BY <1>1, <1>2, <1>3, <1>4, <1>5, <1>6, <1>7, <1>8, <1>9, <1>10

(* The redirections of a piece.                                            *)
LEMMA PieceMakes ==
  ASSUME NEW r, IsPiece(r)
  PROVE  /\ Alike(MadeBy(r), Redirection(OpText(Head(r).id)), Syllables(Tail(r)), AppendOf(Head(r).id))
         /\ IsSeq(OpenedBy(r)) /\ Len(OpenedBy(r)) = Len(MadeBy(r))
         /\ \A j \in 1..Len(MadeBy(r)) :
              OpenedBy(r)[j] = [file |-> Syllables(Tail(r)), append |-> AppendOf(Head(r).id)]
<1> DEFINE g == Redirection(OpText(Head(r).id))
           f == Syllables(Tail(r))
           a == AppendOf(Head(r).id)
           o == [j \in 1..Len(g) |-> [file |-> f, append |-> a]]
<1>1. Head(r).id \in Ops
  BY MadeByPiece DEF IsPiece
<1>2. Alike(MadeBy(r), g, f, a)
  BY <1>1, OpMakes DEF MadeBy
<1>3. IsSeq(g) /\ DOMAIN g = 1..Len(g) /\ Len(g) \in Nat /\ Len(g) = Len(MadeBy(r))
  <2> HIDE DEF g
  <2>1. IsSeq(g) /\ Len(g) = Len(MadeBy(r))
    BY <1>2 DEF Alike
  <2> QED BY <2>1, SeqFacts
<1>4. OpenedBy(r) = o
  BY <1>3 DEF OpenedBy, AppendOf
<1>5. IsSeq(o) /\ Len(o) = Len(g) /\ \A j \in 1..Len(g) : o[j] = [file |-> f, append |-> a]
  <2> HIDE DEF g, f, a
  <2>1. o = [j \in 1..Len(g) |-> o[j]] /\ \A j \in 1..Len(g) : o[j] = [file |-> f, append |-> a]
    OBVIOUS
  <2> HIDE DEF o
  <2> QED BY <1>3, <2>1, Mapped
<1> QED BY <1>2, <1>3, <1>4, <1>5

(* Redirects as the grammar has them: without their files.                  *)
Bare(rs) == [j \in DOMAIN rs |-> [stream |-> rs[j].stream, target |-> rs[j].target]]

(* Stream and target of redirects, one for each.                           *)
LEMMA BareFacts ==
  ASSUME NEW s, IsSeq(s)
  PROVE  /\ IsSeq(Bare(s)) /\ Len(Bare(s)) = Len(s)
         /\ \A j \in 1..Len(s) : Bare(s)[j] = [stream |-> s[j].stream, target |-> s[j].target]
<1> DEFINE f == [j \in 1..Len(s) |-> [stream |-> s[j].stream, target |-> s[j].target]]
<1>1. Len(s) \in Nat /\ DOMAIN s = 1..Len(s)
  BY SeqFacts
<1>2. Bare(s) = f
  BY <1>1 DEF Bare
<1>3. f = [j \in 1..Len(s) |-> f[j]]
      /\ \A j \in 1..Len(s) : f[j] = [stream |-> s[j].stream, target |-> s[j].target]
  OBVIOUS
<1> HIDE DEF f
<1> QED BY <1>1, <1>2, <1>3, Mapped

(* Stream and target of joined redirects.                                  *)
LEMMA BareConcat ==
  ASSUME NEW s, IsSeq(s), NEW t, IsSeq(t)
  PROVE  Bare(s \o t) = Bare(s) \o Bare(t)
<1> DEFINE c == s \o t
           b == Bare(c)
           x == Bare(s)
           y == Bare(t)
           z == x \o y
<1>1. /\ IsSeq(c) /\ Len(c) = Len(s) + Len(t) /\ Len(s) \in Nat /\ Len(t) \in Nat
      /\ \A k \in 1..(Len(s) + Len(t)) : c[k] = IF k <= Len(s) THEN s[k] ELSE t[k - Len(s)]
  BY SeqConcat, SeqFacts
<1>2. /\ IsSeq(x) /\ Len(x) = Len(s)
      /\ \A j \in 1..Len(s) : x[j] = [stream |-> s[j].stream, target |-> s[j].target]
      /\ IsSeq(y) /\ Len(y) = Len(t)
      /\ \A j \in 1..Len(t) : y[j] = [stream |-> t[j].stream, target |-> t[j].target]
  BY BareFacts
<1> HIDE DEF c, x, y
<1>3. /\ IsSeq(b) /\ Len(b) = Len(c)
      /\ \A j \in 1..Len(c) : b[j] = [stream |-> c[j].stream, target |-> c[j].target]
  BY <1>1, BareFacts
<1>4. /\ IsSeq(z) /\ Len(z) = Len(x) + Len(y)
      /\ \A k \in 1..(Len(x) + Len(y)) : z[k] = IF k <= Len(x) THEN x[k] ELSE y[k - Len(x)]
  BY <1>2, SeqConcat
<1> HIDE DEF b, z
<1>5. ASSUME NEW k \in 1..Len(b) PROVE b[k] = z[k]
  <2>1. CASE k <= Len(s)
    <3>1. k \in 1..Len(s) /\ k \in 1..Len(c) /\ k \in 1..(Len(x) + Len(y))
           /\ k \in 1..(Len(s) + Len(t))
      BY <2>1, <1>1, <1>2, <1>3
    <3>2. c[k] = s[k] /\ z[k] = x[k]
      BY <2>1, <3>1, <1>1, <1>2, <1>4
    <3> QED BY <3>1, <3>2, <1>2, <1>3
  <2>2. CASE ~(k <= Len(s))
    <3>1. /\ k - Len(s) \in 1..Len(t) /\ k \in 1..Len(c) /\ k \in 1..(Len(x) + Len(y))
          /\ k \in 1..(Len(s) + Len(t))
      BY <2>2, <1>1, <1>2, <1>3
    <3>2. PICK j : j = k - Len(s)
      OBVIOUS
    <3>3. c[k] = t[j] /\ z[k] = y[j] /\ j \in 1..Len(t)
      BY <2>2, <3>1, <3>2, <1>1, <1>2, <1>4
    <3> QED BY <3>1, <3>3, <1>2, <1>3
  <2> QED BY <2>1, <2>2
<1>6. b = z
  BY <1>1, <1>2, <1>3, <1>4, <1>5, SameSeq
<1> QED BY <1>6 DEF b, z, c, x, y

(* Stream and target of a pipe's end.                                      *)
LEMMA BareEnd ==
  ASSUME NEW b \in BOOLEAN, NEW s
  PROVE  /\ IsSeq(EndOf(b, s))
         /\ Bare(EndOf(b, s)) = IF b THEN <<RedirectTo(s, "pipe")>> ELSE <<>>
<1>1. CASE b
  <2> DEFINE x == NewRedirect(s, "pipe", 0, NoFile)
             y == RedirectTo(s, "pipe")
             o == <<x>>
             p == <<y>>
             q == Bare(o)
  <2>1. y = [stream |-> x.stream, target |-> x.target]
    BY DEF NewRedirect, RedirectTo
  <2> HIDE DEF x, y
  <2>2. IsSeq(o) /\ Len(o) = 1 /\ o[1] = x /\ IsSeq(p) /\ Len(p) = 1 /\ p[1] = y
    BY SeqOne
  <2> HIDE DEF o, p
  <2>3. /\ IsSeq(q) /\ Len(q) = Len(o)
        /\ \A j \in 1..Len(o) : q[j] = [stream |-> o[j].stream, target |-> o[j].target]
    BY <2>2, BareFacts
  <2> HIDE DEF q
  <2>4. q[1] = y
    BY <2>1, <2>2, <2>3
  <2>5. \A j \in 1..Len(q) : q[j] = p[j]
    BY <2>2, <2>3, <2>4
  <2>6. q = p
    BY <2>2, <2>3, <2>5, SameSeq
  <2>7. EndOf(b, s) = o
    BY <1>1 DEF EndOf, o, x
  <2> QED BY <1>1, <2>2, <2>6, <2>7 DEF q, p, y
<1>2. CASE ~b
  <2>1. PICK e : e = <<>>
    OBVIOUS
  <2>2. EndOf(b, s) = e
    BY <1>2, <2>1 DEF EndOf
  <2>3. IsSeq(e) /\ Len(e) = 0
    BY <2>1, SeqNone
  <2>4. IsSeq(Bare(e)) /\ Len(Bare(e)) = 0
    BY <2>3, BareFacts
  <2>5. PICK f : f = Bare(e)
    OBVIOUS
  <2>6. f = e
    <3>1. \A j \in 1..Len(f) : f[j] = e[j]
      BY <2>4, <2>5
    <3> QED BY <2>3, <2>4, <2>5, <3>1, SameSeq
  <2> QED BY <1>2, <2>1, <2>2, <2>3, <2>5, <2>6
<1> QED BY <1>1, <1>2

(* The texts of some operators, one for each.                              *)
LEMMA OpTextsFacts ==
  ASSUME NEW t, IsSeq(t)
  PROVE  /\ IsSeq(OpTexts(t)) /\ Len(OpTexts(t)) = Len(t)
         /\ DOMAIN OpTexts(t) = 1..Len(t)
         /\ \A k \in 1..Len(t) : OpTexts(t)[k] = OpText(t[k].id)
<1> DEFINE f == [k \in 1..Len(t) |-> OpText(t[k].id)]
<1>1. Len(t) \in Nat /\ DOMAIN t = 1..Len(t)
  BY SeqFacts
<1>2. OpTexts(t) = f
  BY <1>1 DEF OpTexts
<1>3. f = [k \in 1..Len(t) |-> f[k]] /\ \A k \in 1..Len(t) : f[k] = OpText(t[k].id)
  OBVIOUS
<1> HIDE DEF f
<1>4. IsSeq(f) /\ Len(f) = Len(t)
  BY <1>1, <1>3, Mapped
<1>5. DOMAIN f = 1..Len(t)
  BY <1>3
<1> QED BY <1>2, <1>3, <1>4, <1>5

(* What a command makes of its redirections is what the grammar makes of    *)
(* their operators, and they open its files.                               *)
GrammarOf(c) ==
  LET tokens == OpTexts(Cutters(c, Ops))
  IN  FlattenSeq([k \in DOMAIN tokens |-> Redirection(tokens[k])])

(* A command makes the redirects it means, with their files.               *)
LEMMA RedirectsAreMeant ==
  ASSUME NEW c, IsSeq(c)
  PROVE  /\ IsSeq(MadeIn(Redirections(c)))
         /\ Bare(MadeIn(Redirections(c))) = GrammarOf(c)
         /\ IsSeq(Files(c)) /\ Len(Files(c)) = Len(MadeIn(Redirections(c)))
         /\ \A j \in 1..Len(Files(c)) :
              MadeIn(Redirections(c))[j].target = "file" =>
                [file   |-> MadeIn(Redirections(c))[j].file,
                 append |-> MadeIn(Redirections(c))[j].append] = Files(c)[j]
<1>1. PICK Q : Q = Redirections(c)
  OBVIOUS
<1>2. IsSeq(Q) /\ \A k \in 1..Len(Q) : IsPiece(Q[k])
  BY <1>1, RedirectionsOf
<1>3. Len(Q) \in Nat /\ DOMAIN Q = 1..Len(Q)
  BY <1>2, SeqFacts
<1> DEFINE P == MadeByAll(Q)
           G == [k \in 1..Len(Q) |-> Redirection(OpText(Head(Q[k]).id))]
           O == [k \in 1..Len(Q) |-> OpenedBy(Q[k])]
<1>4. /\ IsSeq(P) /\ Len(P) = Len(Q) /\ \A k \in 1..Len(Q) : P[k] = MadeBy(Q[k])
  BY <1>2, MadeByOf
<1>5. IsSeq(G) /\ Len(G) = Len(Q) /\ \A k \in 1..Len(Q) : G[k] = Redirection(OpText(Head(Q[k]).id))
  <2>1. G = [k \in 1..Len(Q) |-> G[k]]
         /\ \A k \in 1..Len(Q) : G[k] = Redirection(OpText(Head(Q[k]).id))
    OBVIOUS
  <2> HIDE DEF G
  <2> QED BY <1>3, <2>1, Mapped
<1>6. IsSeq(O) /\ Len(O) = Len(Q) /\ \A k \in 1..Len(Q) : O[k] = OpenedBy(Q[k])
  <2>1. O = [k \in 1..Len(Q) |-> O[k]] /\ \A k \in 1..Len(Q) : O[k] = OpenedBy(Q[k])
    OBVIOUS
  <2> HIDE DEF O
  <2> QED BY <1>3, <2>1, Mapped
<1>7. FlattenSeq(P) = MadeIn(Redirections(c)) /\ FlattenSeq(O) = Files(c)
  BY <1>1, <1>3 DEF MadeIn, Files
<1>8. FlattenSeq(G) = GrammarOf(c)
  <2>1. PICK H : H = Heads(Q)
    OBVIOUS
  <2>2. Cutters(c, Ops) = H
    BY <2>1, <1>1, CuttersFacts DEF Redirections, Ops
  <2>3. IsSeq(H) /\ Len(H) = Len(Q) /\ \A k \in 1..Len(Q) : H[k] = Head(Q[k])
    BY <2>1, <1>2, TailsFacts
  <2>4. PICK T : T = OpTexts(H)
    OBVIOUS
  <2>5. DOMAIN T = 1..Len(Q) /\ \A k \in 1..Len(Q) : T[k] = OpText(Head(Q[k]).id)
    <3>1. DOMAIN T = 1..Len(H) /\ \A k \in 1..Len(H) : T[k] = OpText(H[k].id)
      BY <2>3, <2>4, OpTextsFacts
    <3> QED BY <3>1, <2>3
  <2>6. [k \in DOMAIN T |-> Redirection(T[k])] = G
    BY <2>5
  <2>7. GrammarOf(c) = FlattenSeq([k \in DOMAIN T |-> Redirection(T[k])])
    BY <2>2, <2>4 DEF GrammarOf
  <2> HIDE DEF G
  <2> QED BY <2>6, <2>7
<1>9. ASSUME NEW k \in 1..Len(Q)
      PROVE  /\ IsSeq(P[k]) /\ IsSeq(G[k]) /\ IsSeq(O[k])
             /\ Len(P[k]) = Len(G[k]) /\ Len(P[k]) = Len(O[k])
             /\ \A m \in 1..Len(P[k]) :
                  /\ G[k][m] = [stream |-> P[k][m].stream, target |-> P[k][m].target]
                  /\ P[k][m].target = "file" =>
                       [file |-> P[k][m].file, append |-> P[k][m].append] = O[k][m]
  <2>1. PICK r : r = Q[k]
    OBVIOUS
  <2>2. PICK f, a : f = Syllables(Tail(r)) /\ a = AppendOf(Head(r).id)
    OBVIOUS
  <2>3. IsPiece(r)
    BY <1>2, <2>1
  <2>4. P[k] = MadeBy(r) /\ G[k] = Redirection(OpText(Head(r).id)) /\ O[k] = OpenedBy(r)
    BY <1>4, <1>5, <1>6, <2>1
  <2> HIDE DEF P, G, O
  <2>5. PICK x, y, z : x = P[k] /\ y = G[k] /\ z = O[k]
    OBVIOUS
  <2>6. Alike(x, y, f, a) /\ IsSeq(z) /\ Len(z) = Len(x)
        /\ \A j \in 1..Len(x) : z[j] = [file |-> f, append |-> a]
    BY <2>2, <2>3, <2>4, <2>5, PieceMakes
  <2>7. /\ IsSeq(x) /\ IsSeq(y) /\ IsSeq(z) /\ Len(x) = Len(y) /\ Len(x) = Len(z)
        /\ \A m \in 1..Len(x) :
             /\ y[m] = [stream |-> x[m].stream, target |-> x[m].target]
             /\ x[m].target = "file" => [file |-> x[m].file, append |-> x[m].append] = z[m]
    BY <2>6 DEF Alike
  <2> QED BY <2>5, <2>7
<1> HIDE DEF P, G, O
<1>10. PICK p, g, o : p = P /\ g = G /\ o = O
  OBVIOUS
<1>11. /\ IsSeqs(p) /\ IsSeqs(g) /\ IsSeqs(o) /\ Len(p) = Len(g) /\ Len(p) = Len(o)
       /\ \A k \in 1..Len(p) : Len(p[k]) = Len(g[k])
       /\ \A k \in 1..Len(p) : Len(p[k]) = Len(o[k])
  BY <1>4, <1>5, <1>6, <1>9, <1>10 DEF IsSeqs
<1>12. /\ \A k \in 1..Len(p) : \A m \in 1..Len(p[k]) :
            g[k][m] = [stream |-> p[k][m].stream, target |-> p[k][m].target]
       /\ \A k \in 1..Len(p) : \A m \in 1..Len(p[k]) :
            p[k][m].target = "file" =>
              [file |-> p[k][m].file, append |-> p[k][m].append] = o[k][m]
  BY <1>4, <1>9, <1>10
<1>13. PICK R, B, F : R = FlattenSeq(p) /\ B = FlattenSeq(g) /\ F = FlattenSeq(o)
  OBVIOUS
<1>14. /\ IsSeq(R) /\ IsSeq(B) /\ Len(R) = Len(B)
       /\ \A j \in 1..Len(R) : B[j] = [stream |-> R[j].stream, target |-> R[j].target]
  <2>1. /\ IsSeq(R) /\ IsSeq(B) /\ Len(R) = Len(B)
        /\ \A j \in 1..Len(R) :
             \E k \in 1..Len(p) : \E m \in 1..Len(p[k]) : R[j] = p[k][m] /\ B[j] = g[k][m]
    <3>1. IsSeqs(p) /\ IsSeqs(g) /\ Len(p) = Len(g) /\ \A k \in 1..Len(p) : Len(p[k]) = Len(g[k])
      BY <1>11
    <3>2. /\ IsSeq(FlattenSeq(p)) /\ IsSeq(FlattenSeq(g))
          /\ Len(FlattenSeq(p)) = Len(FlattenSeq(g))
          /\ \A j \in 1..Len(FlattenSeq(p)) :
               \E k \in 1..Len(p) : \E m \in 1..Len(p[k]) :
                 FlattenSeq(p)[j] = p[k][m] /\ FlattenSeq(g)[j] = g[k][m]
      BY <3>1, FlattenAlike
    <3> QED BY <1>13, <3>2
  <2>2. ASSUME NEW j \in 1..Len(R) PROVE B[j] = [stream |-> R[j].stream, target |-> R[j].target]
    <3>1. PICK k \in 1..Len(p) : \E m \in 1..Len(p[k]) : R[j] = p[k][m] /\ B[j] = g[k][m]
      BY <2>1, <2>2
    <3>2. PICK m \in 1..Len(p[k]) : R[j] = p[k][m] /\ B[j] = g[k][m]
      BY <3>1
    <3> QED BY <3>2, <1>12
  <2> QED BY <2>1, <2>2
<1>15. /\ IsSeq(F) /\ Len(R) = Len(F)
       /\ \A j \in 1..Len(R) :
            R[j].target = "file" => [file |-> R[j].file, append |-> R[j].append] = F[j]
  <2>1. /\ IsSeq(F) /\ Len(R) = Len(F)
        /\ \A j \in 1..Len(R) :
             \E k \in 1..Len(p) : \E m \in 1..Len(p[k]) : R[j] = p[k][m] /\ F[j] = o[k][m]
    <3>1. IsSeqs(p) /\ IsSeqs(o) /\ Len(p) = Len(o) /\ \A k \in 1..Len(p) : Len(p[k]) = Len(o[k])
      BY <1>11
    <3>2. /\ IsSeq(FlattenSeq(p)) /\ IsSeq(FlattenSeq(o))
          /\ Len(FlattenSeq(p)) = Len(FlattenSeq(o))
          /\ \A j \in 1..Len(FlattenSeq(p)) :
               \E k \in 1..Len(p) : \E m \in 1..Len(p[k]) :
                 FlattenSeq(p)[j] = p[k][m] /\ FlattenSeq(o)[j] = o[k][m]
      BY <3>1, FlattenAlike
    <3> QED BY <1>13, <3>2
  <2>2. ASSUME NEW j \in 1..Len(R), R[j].target = "file"
        PROVE  [file |-> R[j].file, append |-> R[j].append] = F[j]
    <3>1. PICK k \in 1..Len(p) : \E m \in 1..Len(p[k]) : R[j] = p[k][m] /\ F[j] = o[k][m]
      BY <2>1, <2>2
    <3>2. PICK m \in 1..Len(p[k]) : R[j] = p[k][m] /\ F[j] = o[k][m]
      BY <3>1
    <3> QED BY <3>2, <2>2, <1>12
  <2> QED BY <2>1, <2>2
<1>16. Bare(R) = B
  <2>1. PICK b : b = Bare(R)
    OBVIOUS
  <2>2. /\ IsSeq(b) /\ Len(b) = Len(R)
        /\ \A j \in 1..Len(R) : b[j] = [stream |-> R[j].stream, target |-> R[j].target]
    BY <2>1, <1>14, BareFacts
  <2>3. \A j \in 1..Len(b) : b[j] = B[j]
    BY <2>2, <1>14
  <2>4. b = B
    BY <2>2, <2>3, <1>14, SameSeq
  <2> QED BY <2>1, <2>4
<1>17. R = MadeIn(Redirections(c)) /\ F = Files(c) /\ B = GrammarOf(c)
  BY <1>7, <1>8, <1>10, <1>13
<1> QED BY <1>14, <1>15, <1>16, <1>17

(* What stands between the parts cuts.                                     *)
LEMMA CuttersCut ==
  ASSUME NEW s, IsSeq(s), NEW cuts
  PROVE  \A k \in 1..Len(Cutters(s, cuts)) : Cutters(s, cuts)[k].id \in cuts
<1> DEFINE p == Pieces(s, cuts)
           q == Tail(p)
<1>1. ArePieces(p, cuts)
  BY PiecesArePieces
<1>2. IsSeq(p) /\ Len(p) >= 1
  BY <1>1 DEF ArePieces
<1>3. /\ IsSeq(q) /\ Len(q) = Len(p) - 1 /\ Len(p) \in Nat
      /\ \A k \in 1..(Len(p) - 1) : q[k] = p[k + 1]
  <2> HIDE DEF p
  <2> QED BY <1>2, HeadAndTail, SeqFacts
<1>4. Cutters(s, cuts) = Heads(q)
  BY CuttersFacts
<1> HIDE DEF p, q
<1>5. Len(Heads(q)) = Len(q) /\ \A k \in 1..Len(q) : Heads(q)[k] = Head(q[k])
  BY <1>3, TailsFacts
<1>6. ASSUME NEW k \in 1..Len(q) PROVE Head(q[k]).id \in cuts
  <2>1. k + 1 \in 2..Len(p) /\ k + 1 \in 1..Len(p) /\ k \in 1..(Len(p) - 1)
    BY <1>3
  <2>2. PICK r : r = q[k]
    OBVIOUS
  <2>3. IsSeq(r) /\ Len(r) >= 1 /\ r[1].id \in cuts
    BY <1>1, <1>3, <2>1, <2>2 DEF ArePieces
  <2>4. Head(r) = r[1]
    BY <2>3, HeadAndTail
  <2> QED BY <2>2, <2>3, <2>4
<1> QED BY <1>4, <1>5, <1>6

(* The list that the grammar gives.                                        *)
PipeEnd(b, s) == IF b THEN <<RedirectTo(s, "pipe")>> ELSE <<>>
CmdAt(cmds, seps, k) ==
  [run_if    |-> IF k = 1 THEN "always" ELSE RunIf(seps[k-1]),
   prog      |-> cmds[k].prog,
   redirects |-> (cmds[k].redirects \o PipeEnd(k \in DOMAIN seps /\ seps[k] = "|", "out"))
                   \o PipeEnd(k - 1 \in DOMAIN seps /\ seps[k-1] = "|", "in")]
(* Cmds, element by element.                                               *)
LEMMA CmdsIs ==
  ASSUME NEW cmds, NEW seps, NEW n, DOMAIN cmds = 1..n
  PROVE  Cmds(cmds, seps) = [k \in 1..n |-> CmdAt(cmds, seps, k)]
  BY DEF Cmds, CmdAt, PipeEnd

OutlineAt(list, k) ==
  [run_if |-> list[k].run_if, prog |-> list[k].words, redirects |-> Bare(list[k].redirects)]
(* Outline, element by element.                                            *)
LEMMA OutlineOf ==
  ASSUME NEW list, NEW n, DOMAIN list = 1..n
  PROVE  Outline(list, LAMBDA t : t.words) = [k \in 1..n |-> OutlineAt(list, k)]
  BY DEF Outline, OutlineAt, Bare

(* A pipe is written as a bar.                                             *)
LEMMA PipesAre ==
  ASSUME NEW X, IsSeq(X), \A k \in 1..Len(X) : X[k].id \in Separators
  PROVE  \A k : (k \in DOMAIN OpTexts(X) /\ OpTexts(X)[k] = "|") <=> PipeAt(X, k)
<1>1. /\ DOMAIN OpTexts(X) = 1..Len(X)
      /\ \A k \in 1..Len(X) : OpTexts(X)[k] = OpText(X[k].id)
  BY OpTextsFacts
<1>2. ASSUME NEW id \in Separators PROVE OpText(id) = "|" <=> id = 18
  <2>1. id \in {15, 16, 17} \/ id = 18
    BY DEF Separators
  <2> QED BY <2>1, TextsOfOps
<1> QED BY <1>1, <1>2 DEF PipeAt

(* A task, and the same task in the grammar.                               *)
LEMMA TaskIsMeant ==
  ASSUME NEW C, NEW X, IsSeq(X), \A k \in 1..Len(X) : X[k].id \in Separators,
         NEW k, k \in 1..(Len(X) + 1), IsSeq(C[k]),
         NEW cmds, cmds[k].prog = WordTexts(C[k]), cmds[k].redirects = GrammarOf(C[k]),
         NEW list, list[k] = TaskAt(C, X, k)
  PROVE  /\ OutlineAt(list, k) = CmdAt(cmds, OpTexts(X), k)
         /\ Opens(list[k], Files(C[k]))
<1>1. PICK R, E, D : /\ R = MadeIn(Redirections(C[k]))
                     /\ E = EndOf(PipeAt(X, k), "out") /\ D = EndOf(PipeAt(X, k - 1), "in")
  OBVIOUS
<1>2. PICK a, w : a = (IF k = 1 THEN "always" ELSE RunIf(OpText(X[k - 1].id)))
       /\ w = WordTexts(C[k])
  OBVIOUS
<1>3. list[k] = [run_if |-> a, words |-> w, redirects |-> (R \o E) \o D]
  BY <1>1, <1>2 DEF TaskAt
<1>4. /\ IsSeq(R) /\ Bare(R) = GrammarOf(C[k])
      /\ IsSeq(Files(C[k])) /\ Len(Files(C[k])) = Len(R)
      /\ \A j \in 1..Len(R) :
           R[j].target = "file" => [file |-> R[j].file, append |-> R[j].append] = Files(C[k])[j]
  BY <1>1, RedirectsAreMeant
<1>5. PipeAt(X, k) \in BOOLEAN /\ PipeAt(X, k - 1) \in BOOLEAN
  BY DEF PipeAt
<1>6. /\ IsSeq(E) /\ Bare(E) = PipeEnd(PipeAt(X, k), "out")
      /\ IsSeq(D) /\ Bare(D) = PipeEnd(PipeAt(X, k - 1), "in")
  BY <1>1, <1>5, BareEnd DEF PipeEnd
<1>7. IsSeq(R \o E)
  BY <1>4, <1>6, SeqConcat
<1>8. Bare((R \o E) \o D) = (Bare(R) \o Bare(E)) \o Bare(D)
  <2>1. PICK f : f = R \o E
    OBVIOUS
  <2>2. Bare(f \o D) = Bare(f) \o Bare(D)
    BY <1>6, <1>7, <2>1, BareConcat
  <2>3. Bare(R \o E) = Bare(R) \o Bare(E)
    BY <1>4, <1>6, BareConcat
  <2> QED BY <2>1, <2>2, <2>3
<1>9. PICK T : T = OpTexts(X)
  OBVIOUS
<1>10. /\ (k \in DOMAIN T /\ T[k] = "|") = PipeAt(X, k)
       /\ (k - 1 \in DOMAIN T /\ T[k - 1] = "|") = PipeAt(X, k - 1)
  <2>1. \A j : (j \in DOMAIN T /\ T[j] = "|") <=> PipeAt(X, j)
    BY <1>9, PipesAre
  <2> QED BY <2>1, <1>5
<1>11. (IF k = 1 THEN "always" ELSE RunIf(T[k - 1])) = a
  <2>1. CASE k = 1
    BY <2>1, <1>2
  <2>2. CASE k # 1
    <3>1. k - 1 \in 1..Len(X)
      BY <2>2, SeqFacts
    <3>2. T[k - 1] = OpText(X[k - 1].id)
      BY <1>9, <3>1, OpTextsFacts
    <3> QED BY <2>2, <3>2, <1>2
  <2> QED BY <2>1, <2>2
<1>12. OutlineAt(list, k) = CmdAt(cmds, OpTexts(X), k)
  <2>1. PICK b, d, e : b = Bare(R) /\ d = Bare(D) /\ e = Bare(E)
    OBVIOUS
  <2>2. OutlineAt(list, k) = [run_if |-> a, prog |-> w, redirects |-> (b \o e) \o d]
    <3>1. list[k].run_if = a /\ list[k].words = w /\ list[k].redirects = (R \o E) \o D
      BY <1>3
    <3> QED BY <3>1, <1>8, <2>1 DEF OutlineAt
  <2>3. CmdAt(cmds, T, k) = [run_if |-> a, prog |-> w, redirects |-> (b \o e) \o d]
    <3>1. /\ PipeEnd(k \in DOMAIN T /\ T[k] = "|", "out") = e
          /\ PipeEnd(k - 1 \in DOMAIN T /\ T[k - 1] = "|", "in") = d
      BY <1>6, <1>10, <2>1
    <3>2. cmds[k].prog = w /\ cmds[k].redirects = b
      BY <1>2, <1>4, <2>1
    <3> QED BY <1>11, <3>1, <3>2 DEF CmdAt
  <2> QED BY <1>9, <2>2, <2>3
<1>13. Opens(list[k], Files(C[k]))
  <2>1. PICK F : F = Files(C[k])
    OBVIOUS
  <2>2. PICK r : r = (R \o E) \o D
    OBVIOUS
  <2>3. list[k].redirects = r
    BY <1>3, <2>2
  <2>4. \A j \in 1..Len(R) : r[j] = R[j]
    <3>1. PICK f : f = R \o E
      OBVIOUS
    <3>2. /\ IsSeq(f) /\ Len(f) = Len(R) + Len(E) /\ Len(R) \in Nat /\ Len(E) \in Nat
              /\ Len(D) \in Nat
          /\ \A j \in 1..(Len(R) + Len(E)) : f[j] = IF j <= Len(R) THEN R[j] ELSE E[j - Len(R)]
      BY <1>4, <1>6, <3>1, SeqConcat, SeqFacts
    <3>3. \A j \in 1..(Len(f) + Len(D)) : r[j] = IF j <= Len(f) THEN f[j] ELSE D[j - Len(f)]
      BY <1>6, <2>2, <3>1, <3>2, SeqConcat
    <3> QED BY <3>2, <3>3
  <2>5. DOMAIN F = 1..Len(R)
    BY <1>4, <2>1, SeqFacts
  <2>6. Opens(list[k], F)
    BY <1>4, <2>1, <2>3, <2>4, <2>5 DEF Opens
  <2> QED BY <2>1, <2>6
<1> QED BY <1>12, <1>13

(* The tasks the rules build of a sentence are those it means.             *)
LEMMA MeansIt ==
  ASSUME NEW s, IsSeq(s)
  PROVE  Means(TasksOf(s), s)
<1>1. PICK C, X, n, list : /\ C = Commands(s) /\ X = Cutters(s, Separators)
                           /\ n = Len(C) /\ list = TasksAt(C, X)
  OBVIOUS
<1>2. /\ IsSeq(C) /\ n \in Nat /\ DOMAIN C = 1..n /\ \A k \in 1..n : IsSeq(C[k])
      /\ IsSeq(X) /\ Len(X) = n - 1
      /\ \A k \in 1..Len(X) : X[k].id \in Separators
  <2>1. /\ IsSeq(C) /\ \A k \in 1..n : IsSeq(C[k])
    BY <1>1, BetweenFacts DEF Commands
  <2>2. IsSeq(X) /\ Len(X) = n - 1
    BY <1>1, CuttersFacts DEF Commands
  <2>3. \A k \in 1..Len(X) : X[k].id \in Separators
    BY <1>1, CuttersCut
  <2> QED BY <2>1, <2>2, <2>3, <1>1, SeqFacts
<1>3. TasksOf(s) = list
  BY <1>1 DEF TasksOf
<1>4. /\ IsSeq(list) /\ Len(list) = n /\ DOMAIN list = 1..n
      /\ \A k \in 1..n : list[k] = TaskAt(C, X, k)
  <2>1. IsSeq(list) /\ Len(list) = n /\ \A k \in 1..n : list[k] = TaskAt(C, X, k)
    BY <1>1, <1>2, TasksFacts
  <2> QED BY <2>1, SeqFacts
<1>5. PICK cmds : cmds = [k \in DOMAIN C |-> Cmd(WordTexts(C[k]), OpTexts(Cutters(C[k], Ops)))]
  OBVIOUS
<1>6. /\ DOMAIN cmds = 1..n
      /\ \A k \in 1..n : cmds[k].prog = WordTexts(C[k]) /\ cmds[k].redirects = GrammarOf(C[k])
  BY <1>2, <1>5 DEF Cmd, GrammarOf
<1>7. PICK T : T = OpTexts(X)
  OBVIOUS
<1>8. Meaning(s) = Cmds(cmds, T)
  BY <1>1, <1>5, <1>7 DEF Meaning, Ops
<1>9. Cmds(cmds, T) = [k \in 1..n |-> CmdAt(cmds, T, k)]
  BY <1>6, CmdsIs
<1>10. Outline(list, LAMBDA t : t.words) = [k \in 1..n |-> OutlineAt(list, k)]
  BY <1>4, OutlineOf
<1>11. ASSUME NEW k \in 1..n
       PROVE  OutlineAt(list, k) = CmdAt(cmds, T, k) /\ Opens(list[k], Files(C[k]))
  <2>1. k \in 1..(Len(X) + 1)
    BY <1>2
  <2> QED BY <2>1, <1>2, <1>4, <1>6, <1>7, TaskIsMeant
<1>12. [k \in 1..n |-> OutlineAt(list, k)] = [k \in 1..n |-> CmdAt(cmds, T, k)]
  BY <1>11
<1>13. Outline(list, LAMBDA t : t.words) = Meaning(s)
  BY <1>8, <1>9, <1>10, <1>12
<1>14. \A k \in DOMAIN Commands(s) : Opens(list[k], Files(Commands(s)[k]))
  BY <1>1, <1>2, <1>11
<1> QED BY <1>3, <1>13, <1>14 DEF Means

(***************************************************************************)
(* The value of the whole list                                             *)
(***************************************************************************)
(* The states around the list of commands.                                 *)
LEMMA StatesOfAList ==
  /\ Symbol(0) = 0 /\ Symbol(YYFINAL) = 0 /\ Symbol(3) = 20
  /\ Below(3) = {0} /\ Below(YYFINAL) = {3} /\ Below(0) = {}
  /\ \A s \in ParseStates : Symbol(s) = 1 => s = 1
  /\ \A s \in ParseStates : 3 \in Below(s) => s = YYFINAL
  /\ \A s \in ParseStates : YYFINAL \notin Below(s)
  /\ ~NeedsToken(1) /\ DefaultAction(1) = <<"reduce", 22>>
  /\ At(yydefact, 3) = 0
<1>1. /\ Symbol(0) = 0 /\ Symbol(YYFINAL) = 0 /\ Symbol(3) = 20
      /\ \A s \in ParseStates : Symbol(s) = 1 => s = 1
  BY DEF Symbol, At, yystos, YYFINAL, ParseStates
<1>2. /\ Below(3) = {0} /\ Below(YYFINAL) = {3} /\ Below(0) = {}
      /\ \A s \in ParseStates : 3 \in Below(s) => s = YYFINAL
      /\ \A s \in ParseStates : YYFINAL \notin Below(s)
  BY DEF Below, At, predecessors, YYFINAL, ParseStates
<1>3. ~NeedsToken(1) /\ DefaultAction(1) = <<"reduce", 22>> /\ At(yydefact, 3) = 0
  BY DEF NeedsToken, DefaultAction, At, yypact, yydefact, YYPACT_NINF
<1> QED BY <1>1, <1>2, <1>3

(* The state of a whole list is on the stack only alone or below the final  *)
(* state.                                                                  *)
LEMMA WholeList ==
  ASSUME StackInv
  PROVE  /\ yystate = yyss[Len(yyss)] /\ yystate \in ParseStates
         /\ yystate # YYFINAL /\ yystate # 3 => \A k \in 1..Len(yyss) : yyss[k] # 3
         /\ yystate = YYFINAL =>
              Len(yyss) = 3 /\ yyss[1] = 0 /\ yyss[2] = 3 /\ yyss[3] = YYFINAL
<1> DEFINE n == Len(yyss)
<1>1. /\ n \in Nat /\ n >= 1 /\ yyss[1] = 0
      /\ \A k \in 1..n : yyss[k] \in ParseStates
      /\ \A k \in 1..n - 1 : yyss[k] \in Below(yyss[k + 1])
  BY LegalTop DEF StackInv, Legal
<1>2. yystate = yyss[n] /\ yystate \in ParseStates
  BY <1>1 DEF yystate, Last
<1> HIDE DEF n
<1>3. ASSUME NEW k \in 1..n, yyss[k] = 3, k # n PROVE k + 1 = n /\ yyss[n] = YYFINAL
  <2>1. k \in 1..n - 1 /\ k + 1 \in 1..n
    BY <1>1, <1>3
  <2>2. yyss[k + 1] = YYFINAL
    BY <1>1, <1>3, <2>1, StatesOfAList
  <2>3. k + 1 = n
    <3> SUFFICES ASSUME k + 1 # n PROVE FALSE
      OBVIOUS
    <3>1. k + 1 \in 1..n - 1 /\ (k + 1) + 1 \in 1..n
      BY <1>1, <2>1
    <3> QED BY <1>1, <2>2, <3>1, StatesOfAList
  <2> QED BY <2>2, <2>3
<1>4. ASSUME yyss[n] = YYFINAL
      PROVE  n = 3 /\ yyss[2] = 3 /\ yyss[3] = YYFINAL
  <2>1. n # 1 /\ n - 1 \in 1..n - 1 /\ (n - 1) + 1 = n
    BY <1>1, <1>4 DEF YYFINAL
  <2>2. yyss[n - 1] = 3
    BY <1>1, <1>4, <2>1, StatesOfAList
  <2>3. n - 2 \in 1..n - 1 /\ (n - 2) + 1 = n - 1
    BY <1>1, <2>1, <2>2
  <2>4. yyss[n - 2] = 0
    BY <1>1, <2>2, <2>3, StatesOfAList
  <2>5. n - 2 = 1
    <3> SUFFICES ASSUME n - 2 # 1 PROVE FALSE
      OBVIOUS
    <3>1. n - 3 \in 1..n - 1 /\ (n - 3) + 1 = n - 2
      BY <1>1, <2>3
    <3> QED BY <1>1, <2>4, <3>1, StatesOfAList
  <2>6. n = 3 /\ n - 1 = 2
    BY <1>1, <2>5
  <2> QED BY <1>4, <2>2, <2>6
<1> QED BY <1>1, <1>2, <1>3, <1>4 DEF n

(* State 3 has the value of the whole list; the final state comes with the  *)
(* end of input.                                                           *)
ListInv ==
  /\ \A k \in 1..Len(yyss) : yyss[k] = 3 => yyvs[k] = tasks
  /\ yyss[Len(yyss)] = YYFINAL => yychar = YYEMPTY

(* A push keeps the list's value in tasks.                                 *)
LEMMA ListPush ==
  ASSUME StackInv, NEW n \in 1..Len(yyss), NEW s, NEW value,
         yyss' = Append(SubSeq(yyss, 1, n), s),
         yyvs' = Append(SubSeq(yyvs, 1, n), value),
         \A k \in 1..n : yyss[k] = 3 => yyvs[k] = tasks',
         s = 3 => value = tasks', s = YYFINAL => yychar' = YYEMPTY
  PROVE  ListInv'
<1>1. IsSeq(yyss) /\ IsSeq(yyvs) /\ Len(yyss) = Len(yyvs) /\ Len(yyss) \in Nat
  BY LegalTop DEF StackInv, Legal, IsSeq
<1>2. /\ Len(yyss') = n + 1 /\ yyss'[n + 1] = s
      /\ \A k \in 1..n : yyss'[k] = yyss[k]
  BY <1>1, Pushed
<1>3. /\ Len(yyvs') = n + 1 /\ yyvs'[n + 1] = value
      /\ \A k \in 1..n : yyvs'[k] = yyvs[k]
  BY <1>1, Pushed
<1>4. ASSUME NEW k \in 1..Len(yyss'), yyss'[k] = 3 PROVE yyvs'[k] = tasks'
  <2>1. k = n + 1 \/ k \in 1..n
    BY <1>1, <1>2
  <2> QED BY <2>1, <1>2, <1>3, <1>4
<1> QED BY <1>2, <1>4 DEF ListInv

(* The list's value is right when yyparse starts.                          *)
LEMMA InitList == PInit => ListInv
<1> SUFFICES ASSUME PInit PROVE ListInv
  OBVIOUS
<1>1. Len(yyss) = 1 /\ yyss[1] = 0
  BY SeqOne DEF PInit, ParserIdle
<1> QED BY <1>1 DEF ListInv, YYFINAL

(* Returning keeps the list's value in tasks.                              *)
LEMMA ListReturn ==
  ASSUME NEW result, ReturnWith(result)
  PROVE  ListInv'
<1>1. Len(yyss') = 1 /\ yyss'[1] = 0
  BY SeqOne DEF ReturnWith
<1> QED BY <1>1 DEF ListInv, YYFINAL

(* The rules for the list of commands.                                     *)
LEMMA RulesOfAList == \A rule \in 2..24 : Lhs(rule) \in 20..25 /\ (Lhs(rule) = 20 => rule \in 2..6)
  BY DEF Lhs, At, yyr1

(* Every step keeps the list's value in tasks.                             *)
LEMMA ListStep == StackInv /\ ListInv /\ [PNext]_pvars => ListInv'
<1> SUFFICES ASSUME StackInv, ListInv, [PNext]_pvars PROVE ListInv'
  OBVIOUS
<1>1. CASE Accept \/ Exhausted \/ Abort
  BY <1>1, ListReturn DEF Accept, Exhausted, Abort
<1>2. CASE Grow
  <2>1. CASE Full(GrownSize)
    BY <1>2, <2>1, ListReturn DEF Grow
  <2>2. CASE ~Full(GrownSize)
    BY <1>2, <2>2 DEF Grow, ListInv
  <2> QED BY <2>1, <2>2
<1>3. CASE SetState \/ GlobTarget \/ UNCHANGED pvars
  BY <1>3 DEF SetState, GlobTarget, ListInv, pvars, stacks
<1>4. CASE \E token, value : ReadToken(token, value)
  <2>1. /\ pat = "backup" /\ yystate = yyss[Len(yyss)]
        /\ UNCHANGED <<yyss, yyvs, tasks>>
    BY <1>4, TopOfStack DEF ReadToken, WantsToken, stacks
  <2>2. yyss[Len(yyss)] # YYFINAL
    BY <2>1 DEF StackInv
  <2> QED BY <2>1, <2>2 DEF ListInv
<1>5. CASE Shift
  <2> DEFINE n == Len(yyss)
             s == Action[2]
  <2>1. /\ n \in 1..n /\ yystate \in ParseStates
    BY TopOfStack
  <2>2. /\ NeedsToken(yystate) /\ Entry(yystate, YYTRANSLATE(yychar)) > 0
        /\ s = Entry(yystate, YYTRANSLATE(yychar))
    BY <1>5 DEF Shift, Action, ParseAction, DefaultAction
  <2>3. Symbol(s) \in 0..18
    <3> HIDE DEF s
    <3> QED BY <2>1, <2>2, SymbolOfToken, ShiftEdge
  <2>4. s # 3
    BY <2>3, StatesOfAList
  <2>5. /\ yyss' = Append(SubSeq(yyss, 1, n), s) /\ yyvs' = Append(SubSeq(yyvs, 1, n), lookahead)
        /\ yychar' = YYEMPTY /\ tasks' = tasks
    BY <1>5, WholePrefix DEF Shift, StackInv, Legal
  <2> HIDE DEF s
  <2> QED BY <2>1, <2>4, <2>5, ListPush DEF ListInv
<1>6. CASE Reduce
  <2> DEFINE rule == Action[2]
             n == Len(yyss) - Length(rule)
             s == GotoState(yyss[n], Lhs(rule))
             value == Value(rule, TopOf(yyvs, rule))
  <2>1. /\ Ready /\ Action[1] = "reduce" /\ rule # 22 /\ n \in 1..Len(yyss)
        /\ Symbol(s) = Lhs(rule)
        /\ yyss' = Append(SubSeq(yyss, 1, n), s) /\ yyvs' = Append(SubSeq(yyvs, 1, n), value)
    BY <1>6, ReducePushes DEF Follows
  <2>2. rule \in 2..24
    BY <2>1, TopValues
  <2>3. yystate # YYFINAL /\ yystate # 3
    <3>1. yystate # YYFINAL /\ rule = At(yydefact, yystate) /\ rule > 0
      BY <2>1, RuleOfState
    <3> HIDE DEF rule
    <3> QED BY <3>1, StatesOfAList
  <2>4. \A k \in 1..Len(yyss) : yyss[k] # 3
    BY <2>3, WholeList
  <2>5. \A k \in 1..n : yyss[k] = 3 => yyvs[k] = tasks'
    BY <2>1, <2>4
  <2>6. s # YYFINAL /\ (s = 3 => value = tasks')
    <3>1. tasks' = IF rule \in 2..6 THEN value ELSE tasks
      BY <1>6 DEF Reduce
    <3>0. Symbol(s) = Lhs(rule)
      BY <2>1
    <3> HIDE DEF value, s, rule, n
    <3>2. Lhs(rule) \in 20..25 /\ (Lhs(rule) = 20 => rule \in 2..6)
      BY <2>2, RulesOfAList
    <3>3. Symbol(s) # 0 /\ (Symbol(s) = 20 => rule \in 2..6)
      BY <3>0, <3>2
    <3>4. s # YYFINAL
      BY <3>3, StatesOfAList
    <3>5. s = 3 => rule \in 2..6
      BY <3>3, StatesOfAList
    <3> QED BY <3>1, <3>4, <3>5
  <2>7. /\ n \in 1..Len(yyss)
        /\ yyss' = Append(SubSeq(yyss, 1, n), s) /\ yyvs' = Append(SubSeq(yyvs, 1, n), value)
    BY <2>1
  <2> HIDE DEF value, s, rule, n
  <2> QED BY <2>5, <2>6, <2>7, ListPush
<1>7. CASE SyntaxError
  <2>1. PICK n \in DOMAIN yyss :
          /\ ShiftsError(yyss[n])
          /\ yyss' = Append(SubSeq(yyss, 1, n), Entry(yyss[n], YYTERROR))
          /\ yyvs' = Append(SubSeq(yyvs, 1, n), lookahead)
    BY <1>7 DEF SyntaxError
  <2> DEFINE s == Entry(yyss[n], YYTERROR)
  <2>2. n \in 1..Len(yyss) /\ yyss[n] \in ParseStates
    BY TopOfStack, LenProperties DEF StackInv, Legal
  <2>3. s = 1
    <3>1. YYTERROR \in 0..18 /\ YYTERROR = 1
      BY DEF YYTERROR
    <3>2. s \in ParseStates \ {0} /\ Symbol(s) = 1
      BY <2>1, <2>2, <3>1, ShiftEdge DEF ShiftsError
    <3> HIDE DEF s
    <3> QED BY <3>2, StatesOfSymbols
  <2>4. s # 3 /\ s # YYFINAL
    BY <2>3 DEF YYFINAL
  <2>5. tasks' = tasks
    BY <1>7 DEF SyntaxError
  <2>6. \A k \in 1..n : yyss[k] = 3 => yyvs[k] = tasks'
    BY <2>2, <2>5 DEF ListInv
  <2>7. PICK m, e, v : m = n /\ e = s /\ v = lookahead
    OBVIOUS
  <2> HIDE DEF s
  <2>8. /\ m \in 1..Len(yyss)
        /\ yyss' = Append(SubSeq(yyss, 1, m), e) /\ yyvs' = Append(SubSeq(yyvs, 1, m), v)
    BY <2>1, <2>2, <2>7 DEF s
  <2>9. e # 3 /\ e # YYFINAL
    BY <2>4, <2>7
  <2>10. \A k \in 1..m : yyss[k] = 3 => yyvs[k] = tasks'
    BY <2>6, <2>7
  <2> QED BY <2>8, <2>9, <2>10, ListPush
<1> QED BY <1>1, <1>2, <1>3, <1>4, <1>5, <1>6, <1>7 DEF PNext, Step

(***************************************************************************)
(* What each entry of the stack has read                                   *)
(***************************************************************************)
(* r has been read, without the token that is looked at.                    *)
Taken(r) ==
  /\ IsSeq(r)
  /\ IF yychar \in {YYEMPTY, YYEOF} THEN input = r
     ELSE input = Append(r, [id |-> YYTRANSLATE(yychar), value |-> lookahead])

(* ps[k] has been read up to entry k, whose own part has its value.         *)
Yields(stack, vals, ps) ==
  /\ IsSeq(ps) /\ Len(ps) = Len(stack)
  /\ \A k \in 1..Len(stack) : IsSeq(ps[k])
  /\ ps[1] = <<>>
  /\ \A k \in 2..Len(stack) :
       \E p : IsPart(Symbol(stack[k]), vals[k], p) /\ ps[k] = ps[k - 1] \o p

(* The stack yields what was read. (State 1 is left by a step of its own.)  *)
YieldInv ==
  pat \in {"setstate", "backup"} /\ yystate # 1 =>
    \E ps, r : Yields(yyss, yyvs, ps) /\ ps[Len(yyss)] = r /\ Taken(r)

(* A push keeps the yield of the stack right when the pushed symbol stands *)
(* for the tokens added.                                                   *)
LEMMA YieldPush ==
  ASSUME StackInv, NEW ps, Yields(yyss, yyvs, ps), NEW n \in 1..Len(yyss),
         NEW s, NEW value, NEW p, IsPart(Symbol(s), value, p),
         yyss' = Append(SubSeq(yyss, 1, n), s),
         yyvs' = Append(SubSeq(yyvs, 1, n), value),
         NEW r, r = ps[n] \o p, Taken(r)'
  PROVE  YieldInv'
<1>0. IsSeq(yyss) /\ IsSeq(yyvs) /\ Len(yyvs) = Len(yyss)
  BY DEF StackInv, Legal, IsSeq
<1> DEFINE q == Append(SubSeq(ps, 1, n), r)
<1>1. Len(yyss) \in Nat /\ IsSeq(ps) /\ Len(ps) = Len(yyss)
  BY <1>0, SeqFacts DEF Yields
<1>2. n \in 0..Len(yyss) /\ n \in 0..Len(yyvs) /\ n \in 0..Len(ps) /\ n \in Nat /\ n >= 1
  BY <1>0, <1>1
<1>3. /\ IsSeq(yyss') /\ Len(yyss') = n + 1 /\ yyss'[n + 1] = s
      /\ \A k \in 1..n : yyss'[k] = yyss[k]
  BY <1>0, <1>2, Pushed
<1>4. /\ IsSeq(yyvs') /\ Len(yyvs') = n + 1 /\ yyvs'[n + 1] = value
      /\ \A k \in 1..n : yyvs'[k] = yyvs[k]
  BY <1>0, <1>2, Pushed
<1>5. /\ IsSeq(q) /\ Len(q) = n + 1 /\ q[n + 1] = r
      /\ \A k \in 1..n : q[k] = ps[k]
  BY <1>1, <1>2, Pushed
<1> HIDE DEF q
<1>6. IsSeq(r)
  <2>1. PICK a : a = ps[n]
    OBVIOUS
  <2>2. IsSeq(a) /\ IsSeq(p)
    BY <2>1 DEF Yields, IsPart
  <2>3. IsSeq(a \o p)
    BY <2>2, SeqConcat
  <2> QED BY <2>1, <2>3
<1>7. \A k \in 1..Len(yyss') : IsSeq(q[k])
  <2> SUFFICES ASSUME NEW k \in 1..Len(yyss') PROVE IsSeq(q[k])
    OBVIOUS
  <2>1. k = n + 1 \/ (k \in 1..n /\ k \in 1..Len(yyss))
    BY <1>2, <1>3
  <2> QED BY <2>1, <1>5, <1>6 DEF Yields
<1>8. q[1] = <<>>
  <2>1. 1 \in 1..n
    BY <1>2
  <2> QED BY <2>1, <1>5 DEF Yields
<1>9. ASSUME NEW k \in 2..Len(yyss')
      PROVE  \E o : IsPart(Symbol(yyss'[k]), yyvs'[k], o) /\ q[k] = q[k - 1] \o o
  <2>1. CASE k = n + 1
    <3>1. k - 1 = n /\ n \in 1..n
      BY <2>1, <1>2
    <3>2. q[k - 1] = ps[n] /\ q[k] = r /\ yyss'[k] = s /\ yyvs'[k] = value
      BY <3>1, <2>1, <1>3, <1>4, <1>5
    <3> QED BY <3>2
  <2>2. CASE k # n + 1
    <3>1. k \in 1..n /\ k - 1 \in 1..n /\ k \in 2..Len(yyss)
      BY <2>2, <1>1, <1>2, <1>3
    <3>2. yyss'[k] = yyss[k] /\ yyvs'[k] = yyvs[k] /\ q[k] = ps[k] /\ q[k - 1] = ps[k - 1]
      BY <3>1, <1>3, <1>4, <1>5
    <3> QED BY <3>1, <3>2 DEF Yields
  <2> QED BY <2>1, <2>2
<1>10. Yields(yyss', yyvs', q)
  <2>1. IsSeq(q) /\ Len(q) = Len(yyss')
    BY <1>3, <1>5
  <2> QED BY <2>1, <1>7, <1>8, <1>9 DEF Yields
<1> QED BY <1>3, <1>5, <1>10 DEF YieldInv

(* A step that leaves stack, lookahead and input alone keeps the yield.    *)
LEMMA YieldKept ==
  ASSUME YieldInv, UNCHANGED <<yyss, yyvs, yychar, lookahead, input>>,
         pat' \in {"setstate", "backup"} => pat \in {"setstate", "backup"}
  PROVE  YieldInv'
  BY DEF YieldInv, Taken, yystate

(* An empty stack yields nothing.                                          *)
LEMMA InitYield == PInit => YieldInv
<1> SUFFICES ASSUME PInit PROVE YieldInv
  OBVIOUS
<1>1. yyss = <<0>> /\ yychar = YYEMPTY /\ input = <<>>
  BY DEF PInit, ParserIdle
<1>2. PICK e : e = <<>>
  OBVIOUS
<1> DEFINE ps == <<e>>
<1>3. IsSeq(e) /\ Len(yyss) = 1 /\ IsSeq(ps) /\ Len(ps) = 1 /\ ps[1] = e
  BY <1>1, <1>2, SeqNone, SeqOne
<1> HIDE DEF ps
<1>4. Yields(yyss, yyvs, ps) /\ ps[Len(yyss)] = e
  BY <1>2, <1>3 DEF Yields
<1>5. Taken(e)
  BY <1>1, <1>2, <1>3 DEF Taken
<1> QED BY <1>4, <1>5 DEF YieldInv

(* Reading a token keeps the yield.                                        *)
LEMMA ReadYield ==
  ASSUME StackInv, YieldInv, NEW token, NEW value, ReadToken(token, value)
  PROVE  YieldInv'
<1>1. /\ pat = "backup" /\ NeedsToken(yystate) /\ yychar = YYEMPTY
      /\ yyss' = yyss /\ yyvs' = yyvs /\ lookahead' = value
      /\ yychar' = IF token <= YYEOF THEN YYEOF ELSE token
      /\ Record(token, value)
  BY DEF ReadToken, WantsToken, stacks
<1>2. PICK ps, r : Yields(yyss, yyvs, ps) /\ ps[Len(yyss)] = r /\ Taken(r)
  BY <1>1, StatesOfAList DEF YieldInv
<1>4. IsSeq(r) /\ input = r
  BY <1>1, <1>2 DEF Taken
<1>5. Taken(r)'
  <2>1. YYEOF = 0 /\ YYEMPTY = -2
    BY DEF YYEOF, YYEMPTY
  <2>2. CASE token <= YYEOF
    BY <2>1, <2>2, <1>1, <1>4 DEF Record, Taken
  <2>3. CASE ~(token <= YYEOF)
    <3>1. yychar' = token /\ token # 0 /\ token # -2
      BY <2>1, <2>3, <1>1
    <3>2. input' = Append(r, [id |-> YYTRANSLATE(token), value |-> value])
      BY <2>3, <1>1, <1>4 DEF Record
    <3> QED BY <2>1, <3>1, <3>2, <1>1, <1>4 DEF Taken
  <2> QED BY <2>2, <2>3
<1>6. Yields(yyss', yyvs', ps) /\ ps[Len(yyss')] = r
  BY <1>1, <1>2
<1> QED BY <1>5, <1>6 DEF YieldInv

(* A token is shifted with its own value.                                  *)
LEMMA TokenPart ==
  ASSUME NEW x \in 1..18, NEW v, NEW p, p = <<[id |-> x, value |-> v]>>
  PROVE  IsPart(x, v, p)
<1>1. PICK t : t = [id |-> x, value |-> v]
  OBVIOUS
<1>2. IsSeq(p) /\ Len(p) = 1 /\ p[1] = t
  BY <1>1, SeqOne
<1> QED BY <1>1, <1>2 DEF IsPart

(* A shift adds its token to the yield.                                    *)
LEMMA ShiftYield == ASSUME StackInv, YieldInv, Shift PROVE YieldInv'
<1> DEFINE n == Len(yyss)
           x == YYTRANSLATE(yychar)
           s == Action[2]
<1>1. n \in 1..Len(yyss) /\ yystate = yyss[n] /\ yystate \in ParseStates
  BY TopOfStack
<1>2. NeedsToken(yystate) /\ Entry(yystate, x) > 0 /\ s = Entry(yystate, x)
  BY DEF Shift, Action, ParseAction, DefaultAction
<1>3. /\ pat = "backup" /\ yychar # YYEMPTY /\ yychar' = YYEMPTY /\ input' = input
      /\ yyss' = Append(yyss, s) /\ yyvs' = Append(yyvs, lookahead)
  BY <1>2 DEF Shift, Ready
<1>4. x \in 0..18 /\ (x = 0 <=> yychar = YYEOF)
  BY <1>3, NextSymbolIs DEF YYEOF
<1>5. Symbol(s) = x
  <2> HIDE DEF s, x
  <2> QED BY <1>1, <1>2, <1>4, ShiftEdge
<1>6. PICK ps, r : Yields(yyss, yyvs, ps) /\ ps[n] = r /\ Taken(r)
  BY <1>2, <1>3, StatesOfAList DEF YieldInv
<1>7. PICK i, v, e, w : i = input /\ v = lookahead /\ e = s /\ w = x
  OBVIOUS
<1>8. IsSeq(r)
  BY <1>6 DEF Taken
<1>9. \E p : IsPart(w, v, p) /\ i = r \o p
  <2>1. CASE w = 0
    <3>1. i = r
      BY <2>1, <1>4, <1>6, <1>7 DEF Taken
    <3>2. PICK p : p = <<>>
      OBVIOUS
    <3>3. IsPart(w, v, p) /\ r \o p = r
      BY <2>1, <3>2, <1>8, SeqNone, ThenNone DEF IsPart
    <3> QED BY <3>1, <3>3
  <2>2. CASE w # 0
    <3>1. PICK t : t = [id |-> w, value |-> v]
      OBVIOUS
    <3>2. i = Append(r, t)
      BY <2>2, <3>1, <1>3, <1>4, <1>6, <1>7 DEF Taken
    <3>3. PICK p : p = <<t>>
      OBVIOUS
    <3>4. w \in 1..18
      BY <2>2, <1>4, <1>7
    <3>5. IsPart(w, v, p)
      BY <3>1, <3>3, <3>4, TokenPart
    <3>6. i = r \o p
      BY <3>2, <3>3, <1>8, AppendIs
    <3> QED BY <3>5, <3>6
  <2> QED BY <2>1, <2>2
<1>10. PICK p : IsPart(w, v, p) /\ i = r \o p
  BY <1>9
<1>11. IsSeq(i)
  <2>1. IsSeq(p)
    BY <1>10 DEF IsPart
  <2>2. IsSeq(r \o p)
    BY <2>1, <1>8, SeqConcat
  <2> QED BY <2>2, <1>10
<1>12. Taken(i)'
  BY <1>3, <1>7, <1>11 DEF Taken
<1>13. IsPart(Symbol(e), v, p) /\ i = ps[n] \o p
  BY <1>5, <1>6, <1>7, <1>10
<1>14. yyss' = Append(SubSeq(yyss, 1, n), e) /\ yyvs' = Append(SubSeq(yyvs, 1, n), v)
  BY <1>3, <1>7, WholePrefix DEF StackInv, Legal
<1> HIDE DEF s, x
<1> QED BY <1>1, <1>6, <1>12, <1>13, <1>14, YieldPush

(* A reduction puts the parts of its right-hand side together.              *)
LEMMA ReducedPart ==
  ASSUME StackInv, NEW ps, Yields(yyss, yyvs, ps),
         Ready, Action[1] = "reduce", Action[2] # 22
  PROVE  \E p : /\ IsPart(Lhs(Action[2]), Value(Action[2], TopOf(yyvs, Action[2])), p)
                /\ ps[Len(yyss)] = ps[Len(yyss) - Length(Action[2])] \o p
<1>0. PICK rule, n : rule = Action[2] /\ n = Len(yyss) - Length(rule)
  OBVIOUS
<1>1. /\ rule \in 2..24 \ {22} /\ Length(rule) \in 0..3 /\ n \in 1..Len(yyss)
      /\ Len(yyss) = n + Length(rule)
  BY <1>0, TopValues
<1>2. ASSUME NEW k \in 1..Length(rule)
      PROVE  /\ n + k \in 1..Len(yyss)
             /\ Symbol(yyss[n + k]) = RightHandSide[rule][k]
             /\ yyvs[n + k] = TopOf(yyvs, rule)[k]
  BY <1>0, TopValues
<1>3. PICK top : top = TopOf(yyvs, rule)
  OBVIOUS
<1>4. PICK m, a : m = Len(yyss) /\ a = ps[n]
  OBVIOUS
<1>5. IsSeq(a) /\ n \in Nat /\ m \in Nat
  BY <1>1, <1>4, TopOfStack DEF Yields
<1>6. ASSUME Length(rule) >= 1
      PROVE  \E p : IsPart(RightHandSide[rule][1], top[1], p) /\ ps[n + 1] = ps[n] \o p
  <2>1. 1 \in 1..Length(rule) /\ n + 1 \in 2..Len(yyss)
    BY <1>1, <1>4, <1>5, <1>6
  <2>2. Symbol(yyss[n + 1]) = RightHandSide[rule][1] /\ yyvs[n + 1] = top[1]
    BY <1>2, <1>3, <2>1
  <2>3. PICK p : IsPart(Symbol(yyss[n + 1]), yyvs[n + 1], p) /\ ps[n + 1] = ps[(n + 1) - 1] \o p
    BY <2>1 DEF Yields
  <2>4. (n + 1) - 1 = n
    BY <1>5
  <2> QED BY <2>2, <2>3, <2>4
<1>7. ASSUME Length(rule) >= 2
      PROVE  \E p : IsPart(RightHandSide[rule][2], top[2], p) /\ ps[n + 2] = ps[n + 1] \o p
  <2>1. 2 \in 1..Length(rule) /\ n + 2 \in 2..Len(yyss)
    BY <1>1, <1>4, <1>5, <1>7
  <2>2. Symbol(yyss[n + 2]) = RightHandSide[rule][2] /\ yyvs[n + 2] = top[2]
    BY <1>2, <1>3, <2>1
  <2>3. PICK p : IsPart(Symbol(yyss[n + 2]), yyvs[n + 2], p) /\ ps[n + 2] = ps[(n + 2) - 1] \o p
    BY <2>1 DEF Yields
  <2>4. (n + 2) - 1 = n + 1
    BY <1>5
  <2> QED BY <2>2, <2>3, <2>4
<1>8. ASSUME Length(rule) >= 3
      PROVE  \E p : IsPart(RightHandSide[rule][3], top[3], p) /\ ps[n + 3] = ps[n + 2] \o p
  <2>1. 3 \in 1..Length(rule) /\ n + 3 \in 2..Len(yyss)
    BY <1>1, <1>4, <1>5, <1>8
  <2>2. Symbol(yyss[n + 3]) = RightHandSide[rule][3] /\ yyvs[n + 3] = top[3]
    BY <1>2, <1>3, <2>1
  <2>3. PICK p : IsPart(Symbol(yyss[n + 3]), yyvs[n + 3], p) /\ ps[n + 3] = ps[(n + 3) - 1] \o p
    BY <2>1 DEF Yields
  <2>4. (n + 3) - 1 = n + 2
    BY <1>5
  <2> QED BY <2>2, <2>3, <2>4
<1>9. \E p : IsPart(Lhs(rule), Value(rule, top), p) /\ ps[m] = a \o p
  <2>1. CASE Length(rule) = 0
    <3>1. PICK e : e = <<>>
      OBVIOUS
    <3>2. IsPart(Lhs(rule), Value(rule, top), e)
      BY <1>1, <2>1, <3>1, NoPart
    <3>3. m = n
      BY <1>1, <1>4, <1>5, <2>1
    <3>4. ps[m] = a \o e
      BY <3>1, <3>3, <1>4, <1>5, ThenNone
    <3> QED BY <3>2, <3>4
  <2>2. CASE Length(rule) = 1
    <3>1. PICK p : IsPart(RightHandSide[rule][1], top[1], p) /\ ps[n + 1] = ps[n] \o p
      BY <2>2, <1>6
    <3>2. IsPart(Lhs(rule), Value(rule, top), p)
      BY <1>1, <2>2, <3>1, OnePart
    <3>3. m = n + 1
      BY <1>1, <1>4, <2>2
    <3> QED BY <3>1, <3>2, <3>3, <1>4
  <2>3. CASE Length(rule) = 2
    <3>1. PICK p : IsPart(RightHandSide[rule][1], top[1], p) /\ ps[n + 1] = ps[n] \o p
      BY <2>3, <1>6
    <3>2. PICK q : IsPart(RightHandSide[rule][2], top[2], q) /\ ps[n + 2] = ps[n + 1] \o q
      BY <2>3, <1>7
    <3>3. rule \in 2..24
      BY <1>1
    <3>4. IsPart(Lhs(rule), Value(rule, top), p \o q)
      <4>1. /\ IsPart(RightHandSide[rule][1], top[1], p)
            /\ IsPart(RightHandSide[rule][2], top[2], q)
        BY <3>1, <3>2
      <4> QED BY <2>3, <3>3, <4>1, TwoParts
    <3>5. m = n + 2
      BY <1>1, <1>4, <2>3
    <3>6. IsSeq(p) /\ IsSeq(q)
      BY <3>1, <3>2 DEF IsPart
    <3>7. (a \o p) \o q = a \o (p \o q)
      BY <1>5, <3>6, ThenThen
    <3>8. ps[m] = a \o (p \o q)
      BY <3>1, <3>2, <3>5, <3>7, <1>4
    <3> QED BY <3>4, <3>8
  <2>4. CASE Length(rule) = 3
    <3>1. PICK p : IsPart(RightHandSide[rule][1], top[1], p) /\ ps[n + 1] = ps[n] \o p
      BY <2>4, <1>6
    <3>2. PICK q : IsPart(RightHandSide[rule][2], top[2], q) /\ ps[n + 2] = ps[n + 1] \o q
      BY <2>4, <1>7
    <3>3. PICK r : IsPart(RightHandSide[rule][3], top[3], r) /\ ps[n + 3] = ps[n + 2] \o r
      BY <2>4, <1>8
    <3>4. rule \in 2..24
      BY <1>1
    <3>5. IsPart(Lhs(rule), Value(rule, top), p \o (q \o r))
      <4>1. /\ IsPart(RightHandSide[rule][1], top[1], p)
            /\ IsPart(RightHandSide[rule][2], top[2], q)
            /\ IsPart(RightHandSide[rule][3], top[3], r)
        BY <3>1, <3>2, <3>3
      <4> QED BY <2>4, <3>4, <4>1, ThreeParts
    <3>6. m = n + 3
      BY <1>1, <1>4, <2>4
    <3>7. IsSeq(p) /\ IsSeq(q) /\ IsSeq(r)
      BY <3>1, <3>2, <3>3 DEF IsPart
    <3>8. IsSeq(a \o p)
      BY <1>5, <3>7, SeqConcat
    <3>9. ((a \o p) \o q) \o r = (a \o p) \o (q \o r)
      BY <3>7, <3>8, ThenThen
    <3>10. IsSeq(q \o r)
      BY <3>7, SeqConcat
    <3>11. (a \o p) \o (q \o r) = a \o (p \o (q \o r))
      <4>1. PICK u : u = q \o r
        OBVIOUS
      <4>2. IsSeq(a) /\ IsSeq(p) /\ IsSeq(u)
        BY <4>1, <1>5, <3>7, <3>10
      <4>3. (a \o p) \o u = a \o (p \o u)
        BY <4>2, ThenThen
      <4> QED BY <4>1, <4>3
    <3>12. ps[m] = a \o (p \o (q \o r))
      BY <3>1, <3>2, <3>3, <3>6, <3>9, <3>11, <1>4
    <3> QED BY <3>5, <3>12
  <2>5. Length(rule) = 0 \/ Length(rule) = 1 \/ Length(rule) = 2 \/ Length(rule) = 3
    <3>1. Length(rule) \in 0..3
      BY <1>1
    <3> QED BY <3>1
  <2> QED BY <2>1, <2>2, <2>3, <2>4, <2>5
<1> QED BY <1>0, <1>3, <1>4, <1>9

(* A reduction keeps the yield: the left-hand side stands for the tokens   *)
(* of the right-hand side, joined.                                         *)
LEMMA ReduceYield == ASSUME StackInv, YieldInv, Reduce PROVE YieldInv'
<1>1. PICK rule, n : rule = Action[2] /\ n = Len(yyss) - Length(rule)
  OBVIOUS
<1>2. /\ Ready /\ Action[1] = "reduce" /\ rule # 22 /\ n \in 1..Len(yyss)
      /\ Symbol(GotoState(yyss[n], Lhs(rule))) = Lhs(rule)
      /\ yyss' = Append(SubSeq(yyss, 1, n), GotoState(yyss[n], Lhs(rule)))
      /\ yyvs' = Append(SubSeq(yyvs, 1, n), Value(rule, TopOf(yyvs, rule)))
  BY <1>1, ReducePushes DEF Follows
<1>3. yystate # 1
  <2>1. At(yydefact, 1) = 22
    BY DEF At, yydefact
  <2>2. rule = At(yydefact, yystate)
    BY <1>1, <1>2, RuleOfState
  <2> QED BY <2>1, <2>2, <1>2
<1>4. PICK ps, r : Yields(yyss, yyvs, ps) /\ ps[Len(yyss)] = r /\ Taken(r)
  BY <1>2, <1>3 DEF YieldInv, Ready
<1>5. PICK s, value : /\ s = GotoState(yyss[n], Lhs(rule))
                      /\ value = Value(rule, TopOf(yyvs, rule))
  OBVIOUS
<1>6. PICK p : IsPart(Lhs(rule), value, p) /\ r = ps[n] \o p
  <2>1. /\ Ready /\ Action[1] = "reduce" /\ Action[2] # 22
        /\ rule = Action[2] /\ n = Len(yyss) - Length(rule)
        /\ Yields(yyss, yyvs, ps)
    BY <1>1, <1>2, <1>4
  <2>2. \E p : /\ IsPart(Lhs(rule), Value(rule, TopOf(yyvs, rule)), p)
               /\ ps[Len(yyss)] = ps[n] \o p
    BY <2>1, ReducedPart
  <2> QED BY <2>2, <1>4, <1>5
<1>7. IsPart(Symbol(s), value, p)
  BY <1>2, <1>5, <1>6
<1>8. /\ yyss' = Append(SubSeq(yyss, 1, n), s)
      /\ yyvs' = Append(SubSeq(yyvs, 1, n), value)
  BY <1>2, <1>5
<1>9. Taken(r)'
  <2>1. yychar' = yychar /\ lookahead' = lookahead /\ input' = input
    BY DEF Reduce
  <2> QED BY <1>4, <2>1 DEF Taken
<1>10. n \in 1..Len(yyss)
  BY <1>2
<1> QED BY <1>4, <1>6, <1>7, <1>8, <1>9, <1>10, YieldPush

(* A syntax error keeps the yield.                                         *)
LEMMA ErrorYield == ASSUME StackInv, SyntaxError PROVE YieldInv'
<1>1. PICK n \in DOMAIN yyss :
        /\ ShiftsError(yyss[n])
        /\ yyss' = Append(SubSeq(yyss, 1, n), Entry(yyss[n], YYTERROR))
  BY DEF SyntaxError
<1>2. n \in 1..Len(yyss) /\ yyss[n] \in ParseStates
  BY TopOfStack, LenProperties DEF StackInv, Legal
<1>3. PICK s : s = Entry(yyss[n], YYTERROR)
  OBVIOUS
<1>4. s = 1
  <2>1. YYTERROR \in 0..18 /\ YYTERROR = 1
    BY DEF YYTERROR
  <2>2. s \in ParseStates \ {0} /\ Symbol(s) = 1
    BY <1>1, <1>2, <1>3, <2>1, ShiftEdge DEF ShiftsError
  <2> QED BY <2>2, StatesOfSymbols
<1>5. yyss' = Append(SubSeq(yyss, 1, n), s)
  BY <1>1, <1>3
<1>6. IsSeq(yyss) /\ n \in 0..Len(yyss)
  BY <1>2, TopOfStack
<1>7. Len(yyss') = n + 1 /\ yyss'[n + 1] = s
  BY <1>5, <1>6, Pushed
<1>8. yystate' = 1
  BY <1>4, <1>7 DEF yystate, Last
<1> QED BY <1>8 DEF YieldInv

(* Every step of the parser keeps the yield.                               *)
LEMMA YieldStep == StackInv /\ YieldInv /\ [PNext]_pvars => YieldInv'
<1> SUFFICES ASSUME StackInv, YieldInv, [PNext]_pvars PROVE YieldInv'
  OBVIOUS
<1>1. CASE SetState
  BY <1>1, YieldKept DEF SetState, stacks
<1>2. CASE Accept \/ Exhausted \/ Abort
  BY <1>2 DEF Accept, Exhausted, Abort, ReturnWith, YieldInv
<1>3. CASE Grow
  <2>1. CASE Full(GrownSize)
    BY <1>3, <2>1 DEF Grow, ReturnWith, YieldInv
  <2>2. CASE ~Full(GrownSize)
    BY <1>3, <2>2, YieldKept DEF Grow
  <2> QED BY <2>1, <2>2
<1>4. CASE Shift
  BY <1>4, ShiftYield
<1>5. CASE Reduce
  BY <1>5, ReduceYield
<1>6. CASE GlobTarget
  BY <1>6 DEF GlobTarget, YieldInv
<1>7. CASE SyntaxError
  BY <1>7, ErrorYield
<1>8. CASE \E token, value : ReadToken(token, value)
  BY <1>8, ReadYield
<1>9. CASE UNCHANGED pvars
  BY <1>9, YieldKept DEF pvars, stacks
<1> QED BY <1>1, <1>2, <1>3, <1>4, <1>5, <1>6, <1>7, <1>8, <1>9 DEF PNext, Step

(* What is accepted has been built from all that was read.                  *)
Meant == yyresult = 0 => Means(tasks, input)

(* When yyparse accepts, the tasks are those that what it has read means.  *)
LEMMA AcceptMeans ==
  ASSUME StackInv, ListInv, YieldInv, Accept
  PROVE  Means(tasks, input)
<1>1. pat = "setstate" /\ yystate = YYFINAL /\ yystate # 1
  BY DEF Accept, YYFINAL
<1>2. Len(yyss) = 3 /\ yyss[1] = 0 /\ yyss[2] = 3 /\ yyss[3] = YYFINAL
  BY <1>1, WholeList
<1>3. yyvs[2] = tasks /\ yychar = YYEMPTY
  BY <1>2 DEF ListInv
<1>4. PICK ps, r : Yields(yyss, yyvs, ps) /\ ps[3] = r /\ Taken(r)
  BY <1>1, <1>2 DEF YieldInv
<1>5. PICK i, t : i = input /\ t = tasks
  OBVIOUS
<1>6. i = ps[3]
  BY <1>3, <1>4, <1>5 DEF Taken
<1>7. PICK p : IsPart(Symbol(yyss[2]), yyvs[2], p) /\ ps[2] = ps[1] \o p
  <2>1. 2 \in 2..Len(yyss) /\ 2 - 1 = 1
    BY <1>2
  <2>2. \E p : IsPart(Symbol(yyss[2]), yyvs[2], p) /\ ps[2] = ps[2 - 1] \o p
    BY <2>1, <1>4 DEF Yields
  <2> QED BY <2>1, <2>2
<1>8. PICK q : IsPart(Symbol(yyss[3]), yyvs[3], q) /\ ps[3] = ps[2] \o q
  <2>1. 3 \in 2..Len(yyss) /\ 3 - 1 = 2
    BY <1>2
  <2>2. \E q : IsPart(Symbol(yyss[3]), yyvs[3], q) /\ ps[3] = ps[3 - 1] \o q
    BY <2>1, <1>4 DEF Yields
  <2> QED BY <2>1, <2>2
<1>9. IsPart(20, t, p)
  BY <1>2, <1>3, <1>5, <1>7, StatesOfAList
<1>10. IsSeq(p) /\ t = TasksOf(p)
  BY <1>9 DEF IsPart
<1>11. q = <<>>
  BY <1>2, <1>8, StatesOfAList DEF IsPart
<1>12. ps[2] = p
  <2>1. ps[1] = <<>>
    BY <1>4 DEF Yields
  <2>2. <<>> \o p = p
    BY <1>10, NoneThen
  <2> QED BY <2>1, <2>2, <1>7
<1>13. i = p
  <2>1. p \o <<>> = p
    BY <1>10, ThenNone
  <2> QED BY <2>1, <1>6, <1>8, <1>11, <1>12
<1>14. Means(t, i)
  <2>1. Means(TasksOf(p), p)
    BY <1>10, MeansIt
  <2> QED BY <2>1, <1>10, <1>13
<1> QED BY <1>5, <1>14

(* Every step keeps the tasks of an accepted sentence right.               *)
LEMMA MeantStep ==
  StackInv /\ NoResultYet /\ ListInv /\ YieldInv /\ Meant /\ [PNext]_pvars => Meant'
<1> SUFFICES ASSUME StackInv, NoResultYet, ListInv, YieldInv, Meant, [PNext]_pvars
             PROVE  Meant'
  OBVIOUS
<1>1. CASE Accept
  <2>1. tasks' = tasks /\ input' = input
    BY <1>1 DEF Accept
  <2> QED BY <1>1, <2>1, AcceptMeans DEF Meant
<1>2. CASE Abort \/ Exhausted
  BY <1>2 DEF Abort, Exhausted, ReturnWith, Meant
<1>3. CASE Grow
  <2>1. yyresult' = 1 \/ yyresult' = yyresult
    BY <1>3 DEF Grow, ReturnWith
  <2>2. tasks' = tasks /\ input' = input
    BY <1>3 DEF Grow
  <2> QED BY <2>1, <2>2 DEF Meant
<1>4. CASE SetState \/ Shift \/ Reduce \/ GlobTarget \/ SyntaxError
  <2>1. yyresult' = yyresult /\ pat # "returned"
    BY <1>4 DEF SetState, Shift, Reduce, GlobTarget, SyntaxError, Ready
  <2> QED BY <2>1 DEF NoResultYet, Meant
<1>5. CASE \E token, value : ReadToken(token, value)
  <2>1. yyresult' = yyresult /\ pat # "returned"
    BY <1>5 DEF ReadToken, WantsToken
  <2> QED BY <2>1 DEF NoResultYet, Meant
<1>6. CASE UNCHANGED pvars
  BY <1>6 DEF pvars, Meant
<1> QED BY <1>1, <1>2, <1>3, <1>4, <1>5, <1>6 DEF PNext, Step

(* AcceptsOnlySentences for every format and every scanner: when yyparse   *)
(* returns 0, the tokens it has read are a sentence of parser.y, and the   *)
(* list it has built holds the tasks they mean: the words of each command, *)
(* its redirects with their files, the pipes and the conditions, in the    *)
(* order of the text although the rules are right recursive.               *)
THEOREM AcceptsAreRight == PSpec => []AcceptsOnlySentences
<1>1. PInit => ListInv /\ YieldInv /\ Meant
  <2> SUFFICES ASSUME PInit PROVE ListInv /\ YieldInv /\ Meant
    OBVIOUS
  <2>1. yyresult = -1
    BY DEF PInit, ParserIdle
  <2> QED BY <2>1, InitList, InitYield DEF Meant
<1>2. Answers /\ Meant => AcceptsOnlySentences
  BY DEF Answers, Meant, AcceptsOnlySentences
<1> QED BY <1>1, <1>2, ListStep, YieldStep, MeantStep, AnswersAreRight,
           StackInvariant, ValuesInvariant, PTL DEF PSpec

=============================================================================
