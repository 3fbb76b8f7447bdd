--------------------------- MODULE Systemf_proofs ---------------------------
(***************************************************************************)
(* A call of systemf1 uses its scanner and its parser as their own modules  *)
(* allow it, so what holds of them with any caller holds of them in a call. *)
(*                                                                         *)
(* A call also gives back what it allocates.  Each symbol on the stack of   *)
(* the parser is worth the blocks that its value is made of (Worth); a      *)
(* semantic action allocates and frees the difference between the worth of  *)
(* its right-hand side and that of its left-hand side (RuleBalances).       *)
(*                                                                         *)
(* And it runs what the format says: yylex is at a place of the format up   *)
(* to which the parser has read the tokens (AlongInv), and once the end is  *)
(* seen it has read them all (WholeInv).                                   *)
(***************************************************************************)
EXTENDS Systemf, Scanner_proofs, Parser_proofs, Induction, FiniteSetTheorems

(* The scanner sees calls that its specification allows.                   *)
THEOREM UsesScanner == Spec => SSpec
<1>1. Init => SInit
  BY DEF Init
<1>2. [Next]_vars => [SNext]_svars
  <2> SUFFICES ASSUME [Next]_vars
               PROVE  [SNext]_svars
    OBVIOUS
  <2>1. CASE Start \/ StartFails \/ Load \/ LoadFails
    BY <2>1 DEF Start, StartFails, Load, LoadFails, SNext
  <2>2. CASE CallYylex \/ Yylex \/ YylexReturns
    BY <2>2 DEF CallYylex, Yylex, YylexReturns, SNext, Lex
  <2>3. CASE Yyparse \/ Refuse \/ Run \/ FreeAll
    BY <2>3 DEF Yyparse, Refuse, Run, FreeAll
  <2>4. CASE Delete \/ Destroy
    BY <2>4 DEF Delete, Destroy, SNext
  <2>5. CASE UNCHANGED vars
    BY <2>5 DEF vars
  <2> QED BY <2>1, <2>2, <2>3, <2>4, <2>5 DEF Next
<1> QED BY <1>1, <1>2, PTL DEF Spec, SSpec

(* The parser gets what a scanner may return.                              *)
THEOREM UsesParser == Spec => PSpec
<1>1. Init => PInit
  BY DEF Init
<1>2. [Next]_vars => [PNext]_pvars
  <2> SUFFICES ASSUME [Next]_vars
               PROVE  [PNext]_pvars
    OBVIOUS
  <2>1. CASE Start \/ StartFails \/ Load \/ LoadFails
    BY <2>1 DEF Start, StartFails, Load, LoadFails
  <2>2. CASE CallYylex \/ Yylex
    BY <2>2 DEF CallYylex, Yylex
  <2>3. CASE YylexReturns
    BY <2>3 DEF YylexReturns, PNext
  <2>4. CASE Yyparse
    BY <2>4 DEF Yyparse, PNext
  <2>5. CASE Refuse \/ Run \/ FreeAll \/ Delete \/ Destroy
    BY <2>5 DEF Refuse, Run, FreeAll, Delete, Destroy
  <2>6. CASE UNCHANGED vars
    BY <2>6 DEF vars
  <2> QED BY <2>1, <2>2, <2>3, <2>4, <2>5, <2>6 DEF Next
<1> QED BY <1>1, <1>2, PTL DEF Spec, PSpec

(* In a call the scanner neither leaves its buffer nor loses a byte of the  *)
(* format, and frees its blocks once, whatever the format is and whenever   *)
(* the parser asks for tokens or gives up.                                 *)
THEOREM ScannerInCalls == Spec => [](StaysInBuffer /\ BufferKept /\ FreedOnce)
<1> QED
  BY UsesScanner, BufferIsNotLeft, FormatIsKept, BlocksAreFreedOnce, PTL

(* The parser of a call is handed the tokens that lexer.l asks for: each   *)
(* token that yylex has found stands for the longest text at its place     *)
(* that a pattern matches, and for the first of the rules that match it.   *)
THEOREM CallsScanLexer == Spec => []ScansLexer
<1> QED
  BY UsesScanner, ScannerScansLexer, PTL

(* In a call the stacks of the parser stay in their memory, every semantic  *)
(* action gets the values of its right-hand side, and the list that is run  *)
(* is one that _sf1_tasks_run can run.                                     *)
THEOREM ParserInCalls == Spec => [](StackFits /\ ReducesWhatItRead /\ BuildsLines)
<1> QED
  BY UsesParser, StacksFit, ReductionsMatch, AcceptedListsAreLines, PTL
(***************************************************************************)
(* Sums over sequences                                                     *)
(***************************************************************************)
(* f[n] is the sum of the first n numbers of s.                            *)
Runs(f, s) ==
  f \in [0..Len(s) -> Int] /\ f[0] = 0 /\ \A n \in 1..Len(s) : f[n] = f[n - 1] + s[n]

LEMMA RunExists ==
  ASSUME NEW s \in Seq(Int)
  PROVE  \E f : Runs(f, s)
<1> DEFINE m == Len(s)
           step == [x \in (1..m) \X Int |-> x[2] + s[x[1]]]
<1>1. m \in Nat /\ \A n \in 1..m : s[n] \in Int
  OBVIOUS
<1>2. step \in [(1..m) \X Int -> Int]
  BY <1>1
<1> HIDE DEF m
<1>3. PICK f : Recurses(f, Int, 0, m, step)
  <2>1. 0 \in Int
    OBVIOUS
  <2> HIDE DEF step
  <2> QED BY <1>1, <1>2, <2>1, RecursionExists
<1>4. f \in [0..m -> Int] /\ f[0] = 0 /\ \A n \in 1..m : f[n] = step[<<n, f[n - 1]>>]
  BY <1>3 DEF Recurses
<1>5. ASSUME NEW n \in 1..m PROVE f[n] = f[n - 1] + s[n]
  <2>1. n - 1 \in 0..m
    BY <1>1
  <2>2. f[n - 1] \in Int
    BY <1>4, <2>1
  <2> QED BY <1>4, <2>2
<1> QED BY <1>4, <1>5 DEF Runs, m

LEMMA SumIs ==
  ASSUME NEW s \in Seq(Int), NEW g, Runs(g, s)
  PROVE  SumOf(s) = g[Len(s)] /\ SumOf(s) \in Int
<1> DEFINE m == Len(s)
           Is(f) == f = [n \in 0..m |-> IF n = 0 THEN 0 ELSE f[n - 1] + s[n]]
           sum == CHOOSE f : Is(f)
<1>1. m \in Nat
  OBVIOUS
<1>2. SumOf(s) = sum[m]
  BY DEF SumOf
<1> HIDE DEF m
<1>3. g \in [0..m -> Int] /\ g[0] = 0 /\ \A n \in 1..m : g[n] = g[n - 1] + s[n]
  BY DEF Runs, m
<1>4. Is(g)
  <2>1. ASSUME NEW n \in 0..m
        PROVE  g[n] = IF n = 0 THEN 0 ELSE g[n - 1] + s[n]
    <3>1. n = 0 \/ n \in 1..m
      BY <1>1
    <3> QED BY <1>3, <3>1
  <2> QED BY <1>3, <2>1
<1>5. Is(sum)
  <2> HIDE DEF Is
  <2> QED BY <1>4
<1>6. ASSUME NEW n \in 0..m
      PROVE  sum[n] = IF n = 0 THEN 0 ELSE sum[n - 1] + s[n]
  <2> HIDE DEF sum
  <2> DEFINE G(x) == IF x = 0 THEN 0 ELSE sum[x - 1] + s[x]
  <2>1. sum = [x \in 0..m |-> G(x)]
    BY <1>5
  <2>2. sum[n] = G(n)
    <3> HIDE DEF G
    <3> QED BY <2>1
  <2> QED BY <2>2
<1> HIDE DEF sum, Is
<1> DEFINE T == {n \in 0..m : sum[n] = g[n]}
<1>7. 0 \in T
  BY <1>1, <1>3, <1>6
<1>8. ASSUME NEW n \in 0..(m - 1), n \in T PROVE n + 1 \in T
  <2>1. n + 1 \in 1..m /\ n + 1 \in 0..m /\ n + 1 # 0 /\ (n + 1) - 1 = n
    BY <1>1
  <2>2. sum[n + 1] = sum[n] + s[n + 1] /\ g[n + 1] = g[n] + s[n + 1]
    BY <1>3, <1>6, <2>1
  <2> QED BY <1>8, <2>1, <2>2
<1>9. \A n \in 0..m : n \in T
  <2> HIDE DEF T
  <2> QED BY <1>1, <1>7, <1>8, BoundedInduction
<1>10. m \in 0..m
  BY <1>1
<1>11. sum[m] = g[m] /\ g[m] \in Int
  BY <1>3, <1>9, <1>10
<1> QED BY <1>2, <1>11 DEF m

LEMMA SumIsInt ==
  ASSUME NEW s \in Seq(Int)
  PROVE  SumOf(s) \in Int
  BY RunExists, SumIs

LEMMA SumNone == SumOf(<<>>) = 0
<1> DEFINE g == [n \in 0..0 |-> 0]
<1>1. <<>> \in Seq(Int) /\ Len(<<>>) = 0
  OBVIOUS
<1>2. Runs(g, <<>>)
  BY <1>1 DEF Runs
<1>3. g[0] = 0
  OBVIOUS
<1> HIDE DEF g
<1> QED BY <1>1, <1>2, <1>3, SumIs

(* One number more behind, ...                                             *)
LEMMA SumBehind ==
  ASSUME NEW s \in Seq(Int), NEW t \in Seq(Int), Len(t) = Len(s) + 1,
         \A k \in 1..Len(s) : t[k] = s[k]
  PROVE  SumOf(t) = SumOf(s) + t[Len(t)]
<1> DEFINE m == Len(s)
<1>1. m \in Nat /\ t[m + 1] \in Int
  <2>1. m \in Nat /\ m + 1 \in 1..Len(t)
    OBVIOUS
  <2> QED BY <2>1, ElementOfSeq
<1>2. PICK f : Runs(f, s)
  BY RunExists
<1> DEFINE g == [n \in 0..(m + 1) |-> IF n = m + 1 THEN f[m] + t[m + 1] ELSE f[n]]
<1>3. f \in [0..m -> Int] /\ f[0] = 0 /\ \A n \in 1..m : f[n] = f[n - 1] + s[n]
  BY <1>2 DEF Runs
<1> HIDE DEF m
<1>4. f[m] \in Int /\ m \in 0..m
  BY <1>1, <1>3
<1>5. g \in [0..(m + 1) -> Int] /\ g[0] = 0 /\ g[m + 1] = f[m] + t[m + 1]
  BY <1>1, <1>3, <1>4
<1>6. ASSUME NEW n \in 1..(m + 1) PROVE g[n] = g[n - 1] + t[n]
  <2>1. n - 1 \in 0..(m + 1) /\ n - 1 # m + 1 /\ n \in 0..(m + 1)
    BY <1>1
  <2>2. g[n - 1] = f[n - 1]
    BY <2>1
  <2>3. CASE n = m + 1
    <3>1. n - 1 = m
      BY <2>3, <1>1
    <3> QED BY <2>2, <2>3, <3>1, <1>5
  <2>4. CASE n # m + 1
    <3>1. n \in 1..m
      BY <1>1, <2>4
    <3>2. g[n] = f[n] /\ t[n] = s[n]
      BY <2>1, <2>4, <3>1 DEF m
    <3> QED BY <2>2, <3>1, <3>2, <1>3
  <2> QED BY <2>3, <2>4
<1> HIDE DEF g
<1>7. Runs(g, t)
  BY <1>5, <1>6 DEF Runs, m
<1> QED BY <1>2, <1>5, <1>7, SumIs DEF m

(* ... or in front.                                                        *)
LEMMA SumInFront ==
  ASSUME NEW s \in Seq(Int), NEW t \in Seq(Int), Len(t) = Len(s) + 1,
         \A k \in 2..Len(t) : t[k] = s[k - 1]
  PROVE  SumOf(t) = t[1] + SumOf(s)
<1> DEFINE m == Len(s)
<1>1. m \in Nat /\ t[1] \in Int
  <2>1. m \in Nat /\ 1 \in 1..Len(t)
    OBVIOUS
  <2> QED BY <2>1, ElementOfSeq
<1>2. PICK f : Runs(f, s)
  BY RunExists
<1> DEFINE g == [n \in 0..(m + 1) |-> IF n = 0 THEN 0 ELSE t[1] + f[n - 1]]
<1>3. f \in [0..m -> Int] /\ f[0] = 0 /\ \A n \in 1..m : f[n] = f[n - 1] + s[n]
  BY <1>2 DEF Runs
<1> HIDE DEF m
<1>4. \A n \in 1..(m + 1) : n - 1 \in 0..m /\ f[n - 1] \in Int
  BY <1>1, <1>3
<1>5. g \in [0..(m + 1) -> Int] /\ g[0] = 0 /\ g[m + 1] = t[1] + f[m]
  <2>1. m + 1 \in 0..(m + 1) /\ m + 1 # 0 /\ m + 1 - 1 = m /\ 0 \in 0..(m + 1)
    BY <1>1
  <2> QED BY <1>1, <1>4, <2>1
<1>6. ASSUME NEW n \in 1..(m + 1) PROVE g[n] = g[n - 1] + t[n]
  <2>1. n - 1 \in 0..(m + 1) /\ n \in 0..(m + 1) /\ n # 0
    BY <1>1
  <2>2. g[n] = t[1] + f[n - 1]
    BY <2>1
  <2>3. CASE n = 1
    BY <2>1, <2>2, <2>3, <1>1, <1>3, <1>5
  <2>4. CASE n # 1
    <3> DEFINE p == n - 1
               q == p - 1
    <3>1. p \in 1..m /\ q \in 0..m /\ n \in 2..Len(t) /\ p # 0 /\ p \in 0..(m + 1)
      BY <1>1, <2>4 DEF m
    <3>2. g[p] = t[1] + f[q]
      BY <3>1
    <3>3. f[p] = f[q] + s[p] /\ t[n] = s[p]
      BY <1>3, <3>1
    <3>4. f[q] \in Int /\ s[p] \in Int
      BY <1>3, <3>1, ElementOfSeq DEF m
    <3>5. g[n] = t[1] + f[p]
      BY <2>2
    <3> HIDE DEF p, q, g
    <3>6. g[n] = g[p] + t[n]
      <4>1. g[n] = t[1] + (f[q] + s[p])
        BY <3>3, <3>5
      <4>2. g[p] + t[n] = (t[1] + f[q]) + s[p]
        BY <3>2, <3>3
      <4>3. \A a, b, c \in Int : a + (b + c) = (a + b) + c
        OBVIOUS
      <4> QED BY <1>1, <3>4, <4>1, <4>2, <4>3
    <3> QED BY <3>6 DEF p
  <2> QED BY <2>3, <2>4
<1> HIDE DEF g
<1>7. Runs(g, t)
  BY <1>5, <1>6 DEF Runs, m
<1> QED BY <1>2, <1>5, <1>7, SumIs DEF m

(***************************************************************************)
(* What the values on the stack hold                                       *)
(***************************************************************************)
Lengths(words) == [k \in DOMAIN words |-> Len(words[k])]
ArgsIn(list)      == [k \in DOMAIN list |-> Len(list[k].words)]
RedirectsIn(list) == [k \in DOMAIN list |-> Len(list[k].redirects)]

(* How many blocks of a kind belong to the value of a symbol.               *)
Worth(kind, symbol, v) ==
  CASE kind = "syllable" /\ symbol = 3  -> 1
    [] kind = "syllable" /\ symbol = 25 -> Len(v)
    [] kind = "syllable" /\ symbol = 24 -> SyllablesIn(v)
    [] kind = "task" /\ symbol = 21     -> 1
    [] kind = "task" /\ symbol = 20     -> Len(v)
    [] kind = "arg" /\ symbol = 21      -> Len(v.words)
    [] kind = "arg" /\ symbol = 20      -> SumOf(ArgsIn(v))
    [] kind = "redirect" /\ symbol \in {22, 23} -> Len(v)
    [] kind = "redirect" /\ symbol = 21 -> Len(v.redirects)
    [] kind = "redirect" /\ symbol = 20 -> SumOf(RedirectsIn(v))
    [] OTHER -> 0

LEMMA WorthIs ==
  ASSUME NEW v
  PROVE  /\ Worth("syllable", 3, v) = 1 /\ Worth("syllable", 25, v) = Len(v)
         /\ Worth("syllable", 24, v) = SyllablesIn(v)
         /\ \A symbol : symbol \notin {3, 24, 25} => Worth("syllable", symbol, v) = 0
         /\ Worth("task", 21, v) = 1 /\ Worth("task", 20, v) = Len(v)
         /\ \A symbol : symbol \notin {20, 21} => Worth("task", symbol, v) = 0
         /\ Worth("arg", 21, v) = Len(v.words) /\ Worth("arg", 20, v) = SumOf(ArgsIn(v))
         /\ \A symbol : symbol \notin {20, 21} => Worth("arg", symbol, v) = 0
         /\ \A symbol \in {22, 23} : Worth("redirect", symbol, v) = Len(v)
         /\ Worth("redirect", 21, v) = Len(v.redirects)
         /\ Worth("redirect", 20, v) = SumOf(RedirectsIn(v))
         /\ \A symbol : symbol \notin {20, 21, 22, 23} => Worth("redirect", symbol, v) = 0
         /\ \A symbol : Worth("result", symbol, v) = 0
<1>1. /\ Worth("syllable", 3, v) = 1 /\ Worth("syllable", 25, v) = Len(v)
      /\ Worth("syllable", 24, v) = SyllablesIn(v)
      /\ \A symbol : symbol \notin {3, 24, 25} => Worth("syllable", symbol, v) = 0
  BY DEF Worth
<1>2. /\ Worth("task", 21, v) = 1 /\ Worth("task", 20, v) = Len(v)
      /\ \A symbol : symbol \notin {20, 21} => Worth("task", symbol, v) = 0
  BY DEF Worth
<1>3. /\ Worth("arg", 21, v) = Len(v.words) /\ Worth("arg", 20, v) = SumOf(ArgsIn(v))
      /\ \A symbol : symbol \notin {20, 21} => Worth("arg", symbol, v) = 0
  BY DEF Worth
<1>4. /\ \A symbol \in {22, 23} : Worth("redirect", symbol, v) = Len(v)
      /\ Worth("redirect", 21, v) = Len(v.redirects)
      /\ Worth("redirect", 20, v) = SumOf(RedirectsIn(v))
      /\ \A symbol : symbol \notin {20, 21, 22, 23} => Worth("redirect", symbol, v) = 0
  BY DEF Worth
<1>5. \A symbol : Worth("result", symbol, v) = 0
  BY DEF Worth
<1> QED BY <1>1, <1>2, <1>3, <1>4, <1>5

LEMMA LengthsAre ==
  ASSUME NEW words, AreWords(words)
  PROVE  /\ Lengths(words) \in Seq(Int) /\ Len(Lengths(words)) = Len(words)
         /\ \A k \in 1..Len(words) : Lengths(words)[k] = Len(words[k])
         /\ SyllablesIn(words) = SumOf(Lengths(words)) /\ SyllablesIn(words) \in Int
<1>1. Len(words) \in Nat /\ DOMAIN words = 1..Len(words)
  BY SeqFacts DEF AreWords
<1>2. \A k \in 1..Len(words) : Len(words[k]) \in Int
  BY SeqFacts DEF AreWords
<1>3. /\ Lengths(words) \in Seq(Int) /\ Len(Lengths(words)) = Len(words)
      /\ \A k \in 1..Len(words) : Lengths(words)[k] = Len(words[k])
  BY <1>1, <1>2 DEF Lengths
<1>4. SyllablesIn(words) = SumOf(Lengths(words))
  BY DEF SyllablesIn, Lengths
<1> QED BY <1>3, <1>4, SumIsInt

LEMMA CountsAre ==
  ASSUME NEW list, IsTaskList(list)
  PROVE  /\ Len(list) \in Nat /\ Len(list) >= 1 /\ DOMAIN list = 1..Len(list)
         /\ ArgsIn(list) \in Seq(Int) /\ Len(ArgsIn(list)) = Len(list)
         /\ RedirectsIn(list) \in Seq(Int) /\ Len(RedirectsIn(list)) = Len(list)
         /\ \A k \in 1..Len(list) : /\ ArgsIn(list)[k] = Len(list[k].words)
                                     /\ RedirectsIn(list)[k] = Len(list[k].redirects)
                                     /\ Len(list[k].words) \in Int
                                     /\ Len(list[k].redirects) \in Int
         /\ SumOf(ArgsIn(list)) \in Int /\ SumOf(RedirectsIn(list)) \in Int
<1>1. Len(list) \in Nat /\ DOMAIN list = 1..Len(list) /\ Len(list) >= 1
  BY SeqFacts, SeqTail DEF IsTaskList
<1>2. \A k \in 1..Len(list) : Len(list[k].words) \in Int /\ Len(list[k].redirects) \in Int
  BY SeqFacts DEF IsTaskList, IsTask, AreWords
<1>3. /\ ArgsIn(list) \in Seq(Int) /\ Len(ArgsIn(list)) = Len(list)
      /\ \A k \in 1..Len(list) : ArgsIn(list)[k] = Len(list[k].words)
  BY <1>1, <1>2 DEF ArgsIn
<1>4. /\ RedirectsIn(list) \in Seq(Int) /\ Len(RedirectsIn(list)) = Len(list)
      /\ \A k \in 1..Len(list) : RedirectsIn(list)[k] = Len(list[k].redirects)
  BY <1>1, <1>2 DEF RedirectsIn
<1>5. SumOf(ArgsIn(list)) \in Int /\ SumOf(RedirectsIn(list)) \in Int
  BY <1>3, <1>4, SumIsInt
<1> QED BY <1>1, <1>2, <1>3, <1>4, <1>5

LEMMA WorthIsInt ==
  ASSUME NEW kind \in Kinds, NEW symbol, NEW v, Fits(symbol, v)
  PROVE  Worth(kind, symbol, v) \in Int
<1>1. CASE kind = "syllable"
  <2>1. CASE symbol = 25
    BY <1>1, <2>1, WorthIs, SeqFacts DEF Fits
  <2>2. CASE symbol = 24
    BY <1>1, <2>2, WorthIs, LengthsAre DEF Fits
  <2>3. CASE symbol \notin {24, 25}
    BY <1>1, <2>3, WorthIs
  <2> QED BY <2>1, <2>2, <2>3
<1>2. CASE kind = "task"
  <2>1. CASE symbol = 20
    BY <1>2, <2>1, WorthIs, CountsAre DEF Fits
  <2>2. CASE symbol # 20
    BY <1>2, <2>2, WorthIs
  <2> QED BY <2>1, <2>2
<1>3. CASE kind = "arg"
  <2>1. CASE symbol = 20
    BY <1>3, <2>1, WorthIs, CountsAre DEF Fits
  <2>2. CASE symbol = 21
    BY <1>3, <2>2, WorthIs, SeqFacts DEF Fits, IsCommandTask, IsTask, AreWords
  <2>3. CASE symbol \notin {20, 21}
    BY <1>3, <2>3, WorthIs
  <2> QED BY <2>1, <2>2, <2>3
<1>4. CASE kind = "redirect"
  <2>1. CASE symbol = 20
    BY <1>4, <2>1, WorthIs, CountsAre DEF Fits
  <2>2. CASE symbol = 21
    BY <1>4, <2>2, WorthIs, SeqFacts DEF Fits, IsCommandTask, IsTask
  <2>3. CASE symbol \in {22, 23}
    <3>1. Worth("redirect", symbol, v) = Len(v)
      BY <2>3, WorthIs
    <3>2. IsSeq(v)
      BY <2>3 DEF Fits, AreOwn
    <3> QED BY <1>4, <3>1, <3>2, SeqFacts
  <2>4. CASE symbol \notin {20, 21, 22, 23}
    BY <1>4, <2>4, WorthIs
  <2> QED BY <2>1, <2>2, <2>3, <2>4
<1>5. CASE kind = "result"
  <2>1. Worth("result", symbol, v) = 0
    BY WorthIs
  <2> QED BY <1>5, <2>1
<1> QED BY <1>1, <1>2, <1>3, <1>4, <1>5 DEF Kinds

(* The words and lists that the actions make.                              *)
LEMMA WordsWeigh ==
  ASSUME NEW w, IsSeq(w)
  PROVE  /\ SyllablesIn(<<w>>) = Len(w)
         /\ \A words : AreWords(words) =>
              SyllablesIn(<<w>> \o words) = Len(w) + SyllablesIn(words)
<1>1. Len(w) \in Nat /\ AreWords(<<w>>)
  <2>1. AreWords(<<>>)
    BY SeqNone DEF AreWords
  <2> QED BY <2>1, SeqFacts, WordInFront
<1>2. SyllablesIn(<<w>>) = Len(w)
  <2> DEFINE s == <<w>>
             none == <<>>
             t == Lengths(s)
  <2>1. Len(s) = 1 /\ s[1] = w
    OBVIOUS
  <2> HIDE DEF s
  <2>2. t \in Seq(Int) /\ Len(t) = 1 /\ t[1] = Len(w) /\ SyllablesIn(s) = SumOf(t)
    BY <1>1, <2>1, LengthsAre DEF s
  <2>3. none \in Seq(Int) /\ Len(none) = 0 /\ SumOf(none) = 0
    BY SumNone
  <2> HIDE DEF t, none
  <2>4. Len(t) = Len(none) + 1 /\ \A k \in 1..Len(none) : t[k] = none[k]
    BY <2>2, <2>3
  <2>5. SumOf(t) = SumOf(none) + t[Len(t)]
    BY <2>2, <2>3, <2>4, SumBehind
  <2> QED BY <1>1, <2>2, <2>3, <2>5 DEF s
<1>3. ASSUME NEW words, AreWords(words)
      PROVE  SyllablesIn(<<w>> \o words) = Len(w) + SyllablesIn(words)
  <2> DEFINE one == <<w>>
             c == one \o words
             s == Lengths(words)
             t == Lengths(c)
  <2>1. /\ s \in Seq(Int) /\ Len(s) = Len(words) /\ Len(words) \in Nat
        /\ \A k \in 1..Len(words) : s[k] = Len(words[k])
        /\ SyllablesIn(words) = SumOf(s)
    BY <1>3, LengthsAre, SeqFacts DEF AreWords
  <2>2. IsSeq(one) /\ Len(one) = 1 /\ one[1] = w
    BY SeqOne
  <2>3. AreWords(c)
    BY <1>3, WordInFront
  <2>4. IsSeq(words)
    BY <1>3 DEF AreWords
  <2> HIDE DEF one, s
  <2>5. /\ Len(c) = Len(words) + 1 /\ c[1] = w
        /\ \A k \in 2..(Len(words) + 1) : c[k] = words[k - 1]
    <3>1. /\ Len(c) = Len(one) + Len(words)
          /\ \A k \in 1..(Len(one) + Len(words)) :
               c[k] = IF k <= Len(one) THEN one[k] ELSE words[k - Len(one)]
      BY <2>2, <2>4, SeqConcat
    <3> HIDE DEF c
    <3> QED BY <2>1, <2>2, <3>1
  <2> HIDE DEF c
  <2>6. /\ t \in Seq(Int) /\ Len(t) = Len(s) + 1
        /\ \A k \in 1..Len(c) : t[k] = Len(c[k])
        /\ SyllablesIn(c) = SumOf(t)
    BY <2>1, <2>3, <2>5, LengthsAre
  <2> HIDE DEF t
  <2>7. t[1] = Len(w) /\ \A k \in 2..Len(t) : t[k] = s[k - 1]
    <3>1. Len(t) = Len(words) + 1 /\ Len(c) = Len(words) + 1
      BY <2>1, <2>5, <2>6
    <3>2. ASSUME NEW k \in 2..Len(t) PROVE t[k] = s[k - 1]
      <4>1. k \in 1..Len(c) /\ k - 1 \in 1..Len(words) /\ k \in 2..(Len(words) + 1)
        BY <2>1, <3>1
      <4>2. t[k] = Len(c[k]) /\ s[k - 1] = Len(words[k - 1]) /\ c[k] = words[k - 1]
        BY <2>1, <2>5, <2>6, <4>1
      <4> QED BY <4>2
    <3>3. 1 \in 1..Len(c)
      BY <2>1, <3>1
    <3> QED BY <2>5, <2>6, <3>2, <3>3
  <2>8. SumOf(t) = t[1] + SumOf(s)
    BY <2>1, <2>6, <2>7, SumInFront
  <2> QED BY <2>1, <2>6, <2>7, <2>8 DEF c, one
<1> QED BY <1>2, <1>3

(* A list of one task.                                                     *)
LEMMA CommandWeighs ==
  ASSUME NEW t, IsCommandTask(t)
  PROVE  /\ SumOf(ArgsIn(<<t>>)) = Len(t.words)
         /\ SumOf(RedirectsIn(<<t>>)) = Len(t.redirects)
<1> DEFINE list == <<t>>
           a == ArgsIn(list)
           r == RedirectsIn(list)
           none == <<>>
<1>1. IsTaskList(list) /\ Len(list) = 1 /\ list[1] = t
  BY CommandIsList
<1> HIDE DEF list
<1>2. /\ a \in Seq(Int) /\ Len(a) = 1 /\ a[1] = Len(t.words)
      /\ r \in Seq(Int) /\ Len(r) = 1 /\ r[1] = Len(t.redirects)
      /\ Len(t.words) \in Int /\ Len(t.redirects) \in Int
  <2>1. 1 \in 1..Len(list)
    BY <1>1
  <2> QED BY <1>1, <2>1, CountsAre
<1>3. none \in Seq(Int) /\ Len(none) = 0 /\ SumOf(none) = 0
  BY SumNone
<1> HIDE DEF a, r, none
<1>4. SumOf(a) = SumOf(none) + a[Len(a)] /\ SumOf(r) = SumOf(none) + r[Len(r)]
  <2>1. /\ Len(a) = Len(none) + 1 /\ \A k \in 1..Len(none) : a[k] = none[k]
        /\ Len(r) = Len(none) + 1 /\ \A k \in 1..Len(none) : r[k] = none[k]
    BY <1>2, <1>3
  <2> QED BY <1>2, <1>3, <2>1, SumBehind
<1> QED BY <1>2, <1>3, <1>4 DEF list, a, r

(* Two sequences that differ in their first number.                        *)
LEMMA SumBump ==
  ASSUME NEW s \in Seq(Int), NEW t \in Seq(Int), Len(s) = Len(t), Len(s) >= 1,
         NEW d \in Int, t[1] = s[1] + d, \A k \in 2..Len(s) : t[k] = s[k]
  PROVE  SumOf(t) = SumOf(s) + d
<1> DEFINE rest == [k \in 1..(Len(s) - 1) |-> s[k + 1]]
<1>1. Len(s) \in Nat /\ s[1] \in Int /\ \A k \in 1..Len(s) : s[k] \in Int
  BY ElementOfSeq
<1>2. rest \in Seq(Int) /\ Len(rest) = Len(s) - 1
  <2>1. \A k \in 1..(Len(s) - 1) : s[k + 1] \in Int
    BY <1>1
  <2> QED BY <1>1, <2>1
<1>3. \A k \in 2..Len(s) : s[k] = rest[k - 1]
  BY <1>1
<1> HIDE DEF rest
<1>4. SumOf(s) = s[1] + SumOf(rest) /\ SumOf(t) = t[1] + SumOf(rest)
  BY <1>1, <1>2, <1>3, SumInFront
<1>5. SumOf(rest) \in Int
  BY <1>2, SumIsInt
<1> QED BY <1>1, <1>4, <1>5

LEMMA ChainWeighs ==
  ASSUME NEW task, IsCommandTask(task), NEW rest, IsTaskList(rest), NEW rule \in 3..6
  PROVE  LET c == Chain(rule, task, rest)
         IN  /\ Len(c) = Len(rest) + 1
             /\ SumOf(ArgsIn(c)) = Len(task.words) + SumOf(ArgsIn(rest))
             /\ SumOf(RedirectsIn(c)) = Len(task.redirects) + SumOf(RedirectsIn(rest))
                                        + (IF rule = 6 THEN 2 ELSE 0)
<1> DEFINE c  == Chain(rule, task, rest)
           up == EndOfPipe(rule)
           n  == Len(rest)
           a  == ArgsIn(rest)
           r  == RedirectsIn(rest)
           ca == ArgsIn(c)
           cr == RedirectsIn(c)
<1>1. /\ IsTaskList(c) /\ Len(c) = n + 1
      /\ c[1].words = task.words /\ c[2].words = rest[1].words
      /\ Len(c[1].redirects) = Len(task.redirects) + up
      /\ Len(c[2].redirects) = Len(rest[1].redirects) + up
      /\ \A k \in 3..(n + 1) : c[k] = rest[k - 1]
  <2>1. IsChain(c, rule, task, rest)
    BY ChainIsList
  <2> HIDE DEF c
  <2> QED BY <2>1 DEF IsChain
<1> HIDE DEF c
<1>2. /\ n \in Nat /\ n >= 1
      /\ a \in Seq(Int) /\ Len(a) = n /\ r \in Seq(Int) /\ Len(r) = n
      /\ \A k \in 1..n : /\ a[k] = Len(rest[k].words) /\ r[k] = Len(rest[k].redirects)
                         /\ Len(rest[k].words) \in Int /\ Len(rest[k].redirects) \in Int
      /\ SumOf(a) \in Int /\ SumOf(r) \in Int
  BY CountsAre
<1>3. /\ ca \in Seq(Int) /\ Len(ca) = n + 1 /\ cr \in Seq(Int) /\ Len(cr) = n + 1
      /\ \A k \in 1..(n + 1) : ca[k] = Len(c[k].words) /\ cr[k] = Len(c[k].redirects)
  <2>1. IsTaskList(c) /\ Len(c) = n + 1
    BY <1>1
  <2> HIDE DEF n
  <2> QED BY <2>1, CountsAre
<1>4. (rule = 6 => up = 1) /\ (rule # 6 => up = 0) /\ up \in Int
  BY DEF EndOfPipe
<1> HIDE DEF up
<1>13. Len(task.words) \in Nat /\ Len(task.redirects) \in Nat
  BY SeqFacts DEF IsCommandTask, IsTask, AreWords
<1> HIDE DEF n, a, r, ca, cr
<1>5. /\ ca[1] = Len(task.words) /\ ca[2] = a[1]
      /\ cr[1] = Len(task.redirects) + up /\ cr[2] = r[1] + up
  <2>1. 1 \in 1..(n + 1) /\ 2 \in 1..(n + 1) /\ 1 \in 1..n
    BY <1>2
  <2> QED BY <1>1, <1>2, <1>3, <2>1
<1>6. \A k \in 3..(n + 1) : ca[k] = a[k - 1] /\ cr[k] = r[k - 1]
  <2> SUFFICES ASSUME NEW k \in 3..(n + 1) PROVE ca[k] = a[k - 1] /\ cr[k] = r[k - 1]
    OBVIOUS
  <2>1. k \in 1..(n + 1) /\ k - 1 \in 1..n
    BY <1>2
  <2>2. c[k] = rest[k - 1]
    BY <1>1
  <2>3. ca[k] = Len(c[k].words) /\ cr[k] = Len(c[k].redirects)
    BY <1>3, <2>1
  <2>4. a[k - 1] = Len(rest[k - 1].words) /\ r[k - 1] = Len(rest[k - 1].redirects)
    BY <1>2, <2>1
  <2> QED BY <2>2, <2>3, <2>4
<1>7. SumOf(ca) = ca[1] + SumOf(a)
  <2>1. \A k \in 2..(n + 1) : ca[k] = a[k - 1]
    BY <1>2, <1>5, <1>6
  <2> QED BY <1>2, <1>3, <2>1, SumInFront
<1> DEFINE b == [k \in 1..n |-> IF k = 1 THEN r[1] + up ELSE r[k]]
<1>8. b \in Seq(Int) /\ Len(b) = n /\ b[1] = r[1] + up /\ \A k \in 2..n : b[k] = r[k]
  <2>1. \A k \in 1..n : r[k] \in Int
    BY <1>2
  <2>2. \A k \in 1..n : (IF k = 1 THEN r[1] + up ELSE r[k]) \in Int
    BY <1>2, <1>4, <2>1
  <2>3. b \in Seq(Int) /\ Len(b) = n
    BY <1>2, <2>2
  <2> QED BY <1>2, <2>3
<1> HIDE DEF b
<1>9. SumOf(b) = SumOf(r) + up
  <2>1. Len(r) = Len(b) /\ Len(r) >= 1 /\ \A k \in 2..Len(r) : b[k] = r[k]
    BY <1>2, <1>8
  <2> QED BY <1>2, <1>4, <1>8, <2>1, SumBump
<1>10. SumOf(cr) = cr[1] + SumOf(b)
  <2>1. \A k \in 2..(n + 1) : cr[k] = b[k - 1]
    <3> SUFFICES ASSUME NEW k \in 2..(n + 1) PROVE cr[k] = b[k - 1]
      OBVIOUS
    <3>1. CASE k = 2
      BY <3>1, <1>5, <1>8
    <3>2. CASE k # 2
      <4>1. k \in 3..(n + 1) /\ k - 1 \in 2..n
        BY <1>2, <3>2
      <4> QED BY <4>1, <1>6, <1>8
    <3> QED BY <3>1, <3>2
  <2> QED BY <1>2, <1>3, <1>8, <2>1, SumInFront
<1>11. SumOf(cr) = Len(task.redirects) + SumOf(r) + (IF rule = 6 THEN 2 ELSE 0)
  <2>1. SumOf(cr) = (Len(task.redirects) + up) + (SumOf(r) + up)
    BY <1>5, <1>9, <1>10
  <2>2. Len(task.redirects) \in Int /\ SumOf(r) \in Int
    BY <1>2, <1>4
  <2>3. CASE rule = 6
    BY <2>1, <2>2, <2>3, <1>4
  <2>4. CASE rule # 6
    BY <2>1, <2>2, <2>4, <1>4
  <2> QED BY <2>3, <2>4
<1>12. SumOf(ca) = Len(task.words) + SumOf(a)
  BY <1>5, <1>7
<1> QED BY <1>1, <1>11, <1>12 DEF c, n, a, r, ca, cr

(***************************************************************************)
(* A semantic action allocates and frees the difference between what its    *)
(* right-hand side and its left-hand side account for.                     *)
(***************************************************************************)
Delta(kind, rule, v) ==
  IF kind \in DOMAIN Allocated(rule, v) THEN Allocated(rule, v)[kind] ELSE 0

RhsWorth(kind, rule, v) ==
  (IF Length(rule) >= 1 THEN Worth(kind, RightHandSide[rule][1], v[1]) ELSE 0)
  + (IF Length(rule) >= 2 THEN Worth(kind, RightHandSide[rule][2], v[2]) ELSE 0)
  + (IF Length(rule) >= 3 THEN Worth(kind, RightHandSide[rule][3], v[3]) ELSE 0)

Balances(rule, v) ==
  \A kind \in Kinds :
    Worth(kind, Lhs(rule), Value(rule, v)) = RhsWorth(kind, rule, v) + Delta(kind, rule, v)

LEMMA Deltas ==
  ASSUME NEW rule, NEW v
  PROVE  /\ rule \in {2, 3, 4, 5, 8, 9, 10, 20, 21, 23, 24} =>
              \A kind : Delta(kind, rule, v) = 0
         /\ rule = 6 => Delta("redirect", rule, v) = 2
                        /\ \A kind : kind # "redirect" => Delta(kind, rule, v) = 0
         /\ rule = 7 => /\ Delta("task", rule, v) = 1 /\ Delta("arg", rule, v) = Len(v[1])
                        /\ Delta("syllable", rule, v) = -SyllablesIn(v[1])
                        /\ Delta("redirect", rule, v) = 0 /\ Delta("result", rule, v) = 0
         /\ rule \in {14, 15} => Delta("redirect", rule, v) = 1
                        /\ \A kind : kind # "redirect" => Delta(kind, rule, v) = 0
         /\ rule \in {11, 12, 13, 16, 17, 18, 19} =>
              /\ Delta("redirect", rule, v) = Len(Redirects(rule, NoFile))
              /\ Delta("syllable", rule, v) = -Len(v[2])
              /\ \A kind : kind \notin {"redirect", "syllable"} => Delta(kind, rule, v) = 0
<1>1. ASSUME rule \in {2, 3, 4, 5, 8, 9, 10, 20, 21, 23, 24}
      PROVE  \A kind : Delta(kind, rule, v) = 0
  <2>1. rule # 6 /\ rule # 7 /\ ~IsShare(rule) /\ rule \notin RedirectRules
    BY <1>1 DEF IsShare, RedirectRules
  <2>2. Allocated(rule, v) = [result |-> 0]
    BY <2>1, Zenon DEF Allocated
  <2> QED BY <2>2 DEF Delta
<1>2. ASSUME rule = 6
      PROVE  Delta("redirect", rule, v) = 2
             /\ \A kind : kind # "redirect" => Delta(kind, rule, v) = 0
  <2>1. Allocated(rule, v) = [redirect |-> 2]
    <3>1. rule # 7 /\ ~IsShare(rule) /\ rule \notin RedirectRules
      BY <1>2 DEF IsShare, RedirectRules
    <3> QED BY <1>2, <3>1, Zenon DEF Allocated
  <2> QED BY <2>1 DEF Delta
<1>3. ASSUME rule = 7
      PROVE  /\ Delta("task", rule, v) = 1 /\ Delta("arg", rule, v) = Len(v[1])
             /\ Delta("syllable", rule, v) = -SyllablesIn(v[1])
             /\ Delta("redirect", rule, v) = 0 /\ Delta("result", rule, v) = 0
  <2> DEFINE s == -SyllablesIn(v[1])
             n == Len(v[1])
  <2>1. Allocated(rule, v) = [task |-> 1, arg |-> n, syllable |-> s]
    <3>1. rule # 6 /\ ~IsShare(rule) /\ rule \notin RedirectRules
      BY <1>3 DEF IsShare, RedirectRules
    <3> QED BY <1>3, <3>1, Zenon DEF Allocated
  <2> HIDE DEF s, n
  <2>2. /\ Delta("task", rule, v) = 1 /\ Delta("arg", rule, v) = n
        /\ Delta("syllable", rule, v) = s
        /\ Delta("redirect", rule, v) = 0 /\ Delta("result", rule, v) = 0
    BY <2>1 DEF Delta
  <2> QED BY <2>2 DEF s, n
<1>4. ASSUME rule \in {14, 15}
      PROVE  Delta("redirect", rule, v) = 1
             /\ \A kind : kind # "redirect" => Delta(kind, rule, v) = 0
  <2>1. Allocated(rule, v) = [redirect |-> 1]
    <3>1. rule # 6 /\ rule # 7 /\ IsShare(rule)
      BY <1>4 DEF IsShare
    <3> QED BY <3>1, Zenon DEF Allocated
  <2> QED BY <2>1 DEF Delta
<1>5. ASSUME rule \in {11, 12, 13, 16, 17, 18, 19}
      PROVE  /\ Delta("redirect", rule, v) = Len(Redirects(rule, NoFile))
             /\ Delta("syllable", rule, v) = -Len(v[2])
             /\ \A kind : kind \notin {"redirect", "syllable"} => Delta(kind, rule, v) = 0
  <2> DEFINE s == -Len(v[2])
             n == Len(Redirects(rule, NoFile))
  <2>1. Allocated(rule, v) = [redirect |-> n, syllable |-> s]
    <3>1. rule # 6 /\ rule # 7 /\ ~IsShare(rule) /\ rule \in RedirectRules
      BY <1>5 DEF IsShare, RedirectRules
    <3> QED BY <3>1, Zenon DEF Allocated
  <2> HIDE DEF s, n
  <2>2. /\ Delta("redirect", rule, v) = n /\ Delta("syllable", rule, v) = s
        /\ \A kind : kind \notin {"redirect", "syllable"} => Delta(kind, rule, v) = 0
    BY <2>1 DEF Delta
  <2> QED BY <2>2 DEF s, n
<1> QED BY <1>1, <1>2, <1>3, <1>4, <1>5

LEMMA RhsIs ==
  ASSUME NEW rule \in 2..24, NEW v,
         \A k \in 1..Length(rule) : Fits(RightHandSide[rule][k], v[k]),
         NEW kind \in Kinds
  PROVE  /\ \A k \in 1..Length(rule) : Worth(kind, RightHandSide[rule][k], v[k]) \in Int
         /\ Length(rule) = 0 => RhsWorth(kind, rule, v) = 0
         /\ Length(rule) = 1 => RhsWorth(kind, rule, v) = Worth(kind, RightHandSide[rule][1], v[1])
         /\ Length(rule) = 2 => RhsWorth(kind, rule, v) = Worth(kind, RightHandSide[rule][1], v[1])
                                                        + Worth(kind, RightHandSide[rule][2], v[2])
         /\ Length(rule) = 3 => RhsWorth(kind, rule, v) = Worth(kind, RightHandSide[rule][1], v[1])
                                                        + Worth(kind, RightHandSide[rule][2], v[2])
                                                        + Worth(kind, RightHandSide[rule][3], v[3])
<1> DEFINE W(k) == Worth(kind, RightHandSide[rule][k], v[k])
<1>1. \A k \in 1..Length(rule) : W(k) \in Int
  BY WorthIsInt
<1>2. RhsWorth(kind, rule, v) = (IF Length(rule) >= 1 THEN W(1) ELSE 0)
                                + (IF Length(rule) >= 2 THEN W(2) ELSE 0)
                                + (IF Length(rule) >= 3 THEN W(3) ELSE 0)
  BY DEF RhsWorth
<1> HIDE DEF W
<1>3. CASE Length(rule) = 0
  BY <1>1, <1>2, <1>3 DEF W
<1>4. CASE Length(rule) = 1
  <2>1. W(1) \in Int
    BY <1>1, <1>4
  <2> QED BY <1>1, <1>2, <1>4, <2>1 DEF W
<1>5. CASE Length(rule) = 2
  <2>1. W(1) \in Int /\ W(2) \in Int
    BY <1>1, <1>5
  <2> QED BY <1>1, <1>2, <1>5, <2>1 DEF W
<1>6. CASE Length(rule) = 3
  <2>1. W(1) \in Int /\ W(2) \in Int /\ W(3) \in Int
    BY <1>1, <1>6
  <2> QED BY <1>1, <1>2, <1>6, <2>1 DEF W
<1>7. Length(rule) \in 0..3
  BY DEF Length, At, yyr2
<1> QED BY <1>1, <1>3, <1>4, <1>5, <1>6, <1>7 DEF W

(* Symbol by symbol.                                                       *)
LEMMA WorthOf ==
  ASSUME NEW v
  PROVE  /\ Worth("syllable", 20, v) = 0 /\ Worth("task", 20, v) = Len(v)
         /\ Worth("arg", 20, v) = SumOf(ArgsIn(v)) /\ Worth("redirect", 20, v) = SumOf(RedirectsIn(v))
         /\ Worth("syllable", 21, v) = 0 /\ Worth("task", 21, v) = 1
         /\ Worth("arg", 21, v) = Len(v.words) /\ Worth("redirect", 21, v) = Len(v.redirects)
         /\ \A x \in {22, 23} : /\ Worth("syllable", x, v) = 0 /\ Worth("task", x, v) = 0
                               /\ Worth("arg", x, v) = 0 /\ Worth("redirect", x, v) = Len(v)
         /\ Worth("syllable", 24, v) = SyllablesIn(v) /\ Worth("task", 24, v) = 0
         /\ Worth("arg", 24, v) = 0 /\ Worth("redirect", 24, v) = 0
         /\ Worth("syllable", 25, v) = Len(v) /\ Worth("task", 25, v) = 0
         /\ Worth("arg", 25, v) = 0 /\ Worth("redirect", 25, v) = 0
         /\ \A x \in 0..18 : /\ Worth("syllable", x, v) = IF x = 3 THEN 1 ELSE 0
                            /\ Worth("task", x, v) = 0 /\ Worth("arg", x, v) = 0
                            /\ Worth("redirect", x, v) = 0
         /\ \A x \in 0..25 : Worth("result", x, v) = 0
<1>1. /\ Worth("syllable", 20, v) = 0 /\ Worth("task", 20, v) = Len(v)
      /\ Worth("arg", 20, v) = SumOf(ArgsIn(v)) /\ Worth("redirect", 20, v) = SumOf(RedirectsIn(v))
  BY DEF Worth
<1>2. /\ Worth("syllable", 21, v) = 0 /\ Worth("task", 21, v) = 1
      /\ Worth("arg", 21, v) = Len(v.words) /\ Worth("redirect", 21, v) = Len(v.redirects)
  BY DEF Worth
<1>3. \A x \in {22, 23} : /\ Worth("syllable", x, v) = 0 /\ Worth("task", x, v) = 0
                          /\ Worth("arg", x, v) = 0 /\ Worth("redirect", x, v) = Len(v)
  BY DEF Worth
<1>4. /\ Worth("syllable", 24, v) = SyllablesIn(v) /\ Worth("task", 24, v) = 0
      /\ Worth("arg", 24, v) = 0 /\ Worth("redirect", 24, v) = 0
  BY DEF Worth
<1>5. /\ Worth("syllable", 25, v) = Len(v) /\ Worth("task", 25, v) = 0
      /\ Worth("arg", 25, v) = 0 /\ Worth("redirect", 25, v) = 0
  BY DEF Worth
<1>6. ASSUME NEW x \in 0..18
      PROVE  /\ Worth("syllable", x, v) = IF x = 3 THEN 1 ELSE 0
             /\ Worth("task", x, v) = 0 /\ Worth("arg", x, v) = 0
             /\ Worth("redirect", x, v) = 0
  <2>1. x \notin {20, 21, 22, 23, 24, 25}
    OBVIOUS
  <2>2. Worth("syllable", x, v) = IF x = 3 THEN 1 ELSE 0
    BY <2>1 DEF Worth
  <2>3. Worth("task", x, v) = 0 /\ Worth("arg", x, v) = 0 /\ Worth("redirect", x, v) = 0
    BY <2>1 DEF Worth
  <2> QED BY <2>2, <2>3
<1>7. \A x \in 0..25 : Worth("result", x, v) = 0
  BY DEF Worth
<1> QED BY <1>1, <1>2, <1>3, <1>4, <1>5, <1>6, <1>7

(* cmd; cmd sep cmds                                                       *)
LEMMA ListBalances ==
  ASSUME NEW rule \in 2..6, NEW v,
         \A k \in 1..Length(rule) : Fits(RightHandSide[rule][k], v[k])
  PROVE  Balances(rule, v)
<1>1. CASE rule = 2
  <2> DEFINE t == v[1]
             list == <<t>>
  <2>1. Lhs(rule) = 20 /\ Length(rule) = 1 /\ RightHandSide[rule][1] = 21 /\ Value(rule, v) = list
    <3>1. Lhs(rule) = 20 /\ Length(rule) = 1
      BY <1>1 DEF Lhs, Length, At, yyr1, yyr2
    <3>2. RightHandSide[rule][1] = 21
      BY <1>1, Sides
    <3>3. Value(rule, v) = list
      BY <1>1, SemanticActions
    <3> QED BY <3>1, <3>2, <3>3
  <2>2. IsCommandTask(t)
    <3>1. 1 \in 1..Length(rule)
      BY <2>1
    <3> QED BY <2>1, <3>1 DEF Fits
  <2>3. Len(list) = 1
    OBVIOUS
  <2>4. SumOf(ArgsIn(list)) = Len(t.words) /\ SumOf(RedirectsIn(list)) = Len(t.redirects)
    BY <2>2, CommandWeighs
  <2> HIDE DEF t, list
  <2>5. ASSUME NEW kind \in Kinds PROVE Worth(kind, 20, list) = Worth(kind, 21, t)
    <3>1. /\ Worth("syllable", 20, list) = Worth("syllable", 21, t)
          /\ Worth("result", 20, list) = Worth("result", 21, t)
      BY WorthOf
    <3>2. Worth("task", 20, list) = Worth("task", 21, t)
      BY <2>3, WorthOf
    <3>3. /\ Worth("arg", 20, list) = Worth("arg", 21, t)
          /\ Worth("redirect", 20, list) = Worth("redirect", 21, t)
      <4>1. /\ Worth("arg", 20, list) = SumOf(ArgsIn(list)) /\ Worth("arg", 21, t) = Len(t.words)
            /\ Worth("redirect", 20, list) = SumOf(RedirectsIn(list))
            /\ Worth("redirect", 21, t) = Len(t.redirects)
        BY WorthOf
      <4> QED BY <2>4, <4>1
    <3> QED BY <3>1, <3>2, <3>3 DEF Kinds
  <2>6. ASSUME NEW kind \in Kinds
        PROVE  /\ RhsWorth(kind, rule, v) = Worth(kind, 21, t) /\ Worth(kind, 21, t) \in Int
               /\ Delta(kind, rule, v) = 0
    <3>1. rule \in 2..24 /\ 1 \in 1..Length(rule)
      BY <2>1
    <3>2. RhsWorth(kind, rule, v) = Worth(kind, 21, t) /\ Worth(kind, 21, t) \in Int
      BY <2>1, <3>1, RhsIs DEF t
    <3>3. Delta(kind, rule, v) = 0
      <4>1. rule \in {2, 3, 4, 5, 8, 9, 10, 20, 21, 23, 24}
        BY <1>1
      <4> QED BY <4>1, Deltas
    <3> QED BY <3>2, <3>3
  <2> QED BY <2>1, <2>5, <2>6 DEF Balances
<1>2. CASE rule \in 3..6
  <2> DEFINE t == v[1]
             rest == v[3]
             c == Chain(rule, t, rest)
             x == RightHandSide[rule][2]
             two == IF rule = 6 THEN 2 ELSE 0
  <2>1. /\ Lhs(rule) = 20 /\ Length(rule) = 3 /\ RightHandSide[rule][1] = 21
        /\ RightHandSide[rule][3] = 20 /\ x \in 15..18 /\ Value(rule, v) = c
    <3>1. Lhs(rule) = 20 /\ Length(rule) = 3
      BY <1>2 DEF Lhs, Length, At, yyr1, yyr2
    <3>2. RightHandSide[rule][1] = 21 /\ RightHandSide[rule][3] = 20 /\ x \in 15..18
      BY <1>2, Sides
    <3>3. Value(rule, v) = c
      BY <1>2, SemanticActions
    <3> QED BY <3>1, <3>2, <3>3
  <2>2. IsCommandTask(t) /\ IsTaskList(rest)
    <3>1. 1 \in 1..Length(rule) /\ 3 \in 1..Length(rule)
      BY <2>1
    <3> QED BY <2>1, <3>1 DEF Fits
  <2>3. /\ Len(c) = Len(rest) + 1
        /\ SumOf(ArgsIn(c)) = Len(t.words) + SumOf(ArgsIn(rest))
        /\ SumOf(RedirectsIn(c)) = Len(t.redirects) + SumOf(RedirectsIn(rest)) + two
    BY <1>2, <2>2, ChainWeighs
  <2> HIDE DEF t, rest, c, x
  <2>4. /\ Len(rest) \in Int
        /\ Len(t.words) \in Int /\ Len(t.redirects) \in Int
        /\ SumOf(ArgsIn(rest)) \in Int /\ SumOf(RedirectsIn(rest)) \in Int
    <3>1. Len(t.words) \in Int /\ Len(t.redirects) \in Int
      BY <2>2, SeqFacts DEF IsCommandTask, IsTask, AreWords
    <3> QED BY <2>2, <3>1, CountsAre
  <2>5. ASSUME NEW kind \in Kinds
        PROVE  /\ RhsWorth(kind, rule, v) = Worth(kind, 21, t) + Worth(kind, 20, rest)
               /\ Worth(kind, 21, t) \in Int /\ Worth(kind, 20, rest) \in Int
    <3>1. rule \in 2..24 /\ 1 \in 1..Length(rule) /\ 2 \in 1..Length(rule) /\ 3 \in 1..Length(rule)
      BY <2>1
    <3>2. /\ Worth(kind, 21, t) \in Int /\ Worth(kind, x, v[2]) \in Int
          /\ Worth(kind, 20, rest) \in Int
          /\ RhsWorth(kind, rule, v)
               = Worth(kind, 21, t) + Worth(kind, x, v[2]) + Worth(kind, 20, rest)
      BY <2>1, <3>1, RhsIs DEF t, rest, x
    <3>3. Worth(kind, x, v[2]) = 0
      <4>1. x \in 0..18 /\ x # 3 /\ x \in 0..25
        BY <2>1
      <4>2. /\ Worth("syllable", x, v[2]) = 0 /\ Worth("task", x, v[2]) = 0
            /\ Worth("arg", x, v[2]) = 0 /\ Worth("redirect", x, v[2]) = 0
            /\ Worth("result", x, v[2]) = 0
        BY <4>1, WorthOf
      <4> QED BY <4>2 DEF Kinds
    <3> QED BY <3>2, <3>3
  <2>6. ASSUME NEW kind \in Kinds
        PROVE  Worth(kind, 20, c) = Worth(kind, 21, t) + Worth(kind, 20, rest)
                                    + (IF kind = "redirect" THEN two ELSE 0)
    <3>0. two \in Int
      OBVIOUS
    <3> HIDE DEF two
    <3>1. /\ Worth("syllable", 20, c) = Worth("syllable", 21, t) + Worth("syllable", 20, rest)
          /\ Worth("result", 20, c) = Worth("result", 21, t) + Worth("result", 20, rest)
      BY WorthOf
    <3>2. Worth("task", 20, c) = Worth("task", 21, t) + Worth("task", 20, rest)
      <4>1. /\ Worth("task", 20, c) = Len(c) /\ Worth("task", 21, t) = 1
            /\ Worth("task", 20, rest) = Len(rest)
        BY WorthOf
      <4>2. Len(rest) + 1 = 1 + Len(rest)
        BY <2>4
      <4> QED BY <2>3, <4>1, <4>2
    <3>3. Worth("arg", 20, c) = Worth("arg", 21, t) + Worth("arg", 20, rest)
      <4>1. /\ Worth("arg", 20, c) = SumOf(ArgsIn(c)) /\ Worth("arg", 21, t) = Len(t.words)
            /\ Worth("arg", 20, rest) = SumOf(ArgsIn(rest))
        BY WorthOf
      <4> QED BY <2>3, <4>1
    <3>4. Worth("redirect", 20, c)
            = Worth("redirect", 21, t) + Worth("redirect", 20, rest) + two
      <4>1. /\ Worth("redirect", 20, c) = SumOf(RedirectsIn(c))
            /\ Worth("redirect", 21, t) = Len(t.redirects)
            /\ Worth("redirect", 20, rest) = SumOf(RedirectsIn(rest))
        BY WorthOf
      <4> QED BY <2>3, <4>1
    <3>5. Worth(kind, 21, t) + Worth(kind, 20, rest) \in Int
      BY <2>5
    <3> QED BY <3>0, <3>1, <3>2, <3>3, <3>4, <3>5 DEF Kinds
  <2>7. ASSUME NEW kind \in Kinds
        PROVE  Delta(kind, rule, v) = IF kind = "redirect" THEN two ELSE 0
    <3>1. CASE rule = 6
      <4>1. Delta("redirect", rule, v) = 2 /\ (kind # "redirect" => Delta(kind, rule, v) = 0)
        BY <3>1, Deltas
      <4> QED BY <3>1, <4>1
    <3>2. CASE rule # 6
      <4>1. rule \in {2, 3, 4, 5, 8, 9, 10, 20, 21, 23, 24}
        BY <1>2, <3>2
      <4>2. Delta(kind, rule, v) = 0
        BY <4>1, Deltas
      <4> QED BY <3>2, <4>2
    <3> QED BY <3>1, <3>2
  <2> HIDE DEF two
  <2> QED BY <2>1, <2>5, <2>6, <2>7 DEF Balances
<1> QED BY <1>1, <1>2

(* words redirections: the words become arguments.                         *)
LEMMA CommandBalances ==
  ASSUME NEW v, \A k \in 1..Length(7) : Fits(RightHandSide[7][k], v[k])
  PROVE  Balances(7, v)
<1> DEFINE words == v[1]
           own == v[2]
           t == [run_if |-> "always", words |-> words, redirects |-> own]
<1>1. /\ Lhs(7) = 21 /\ Length(7) = 2 /\ RightHandSide[7][1] = 24 /\ RightHandSide[7][2] = 22
      /\ Value(7, v) = t
  <2>1. Lhs(7) = 21 /\ Length(7) = 2
    BY DEF Lhs, Length, At, yyr1, yyr2
  <2>2. RightHandSide[7][1] = 24 /\ RightHandSide[7][2] = 22
    BY Sides
  <2>3. Value(7, v) = t
    BY SemanticActions
  <2> QED BY <2>1, <2>2, <2>3
<1>2. AreWords(words) /\ AreOwn(own)
  <2>1. 1 \in 1..Length(7) /\ 2 \in 1..Length(7)
    BY <1>1
  <2> QED BY <1>1, <2>1 DEF Fits
<1>3. t.words = words /\ t.redirects = own
  OBVIOUS
<1> HIDE DEF t
<1>4. SyllablesIn(words) \in Int /\ Len(words) \in Int /\ Len(own) \in Int
  BY <1>2, LengthsAre, SeqFacts DEF AreWords, AreOwn
<1>5. /\ Delta("task", 7, v) = 1 /\ Delta("arg", 7, v) = Len(words)
      /\ Delta("syllable", 7, v) = -SyllablesIn(words)
      /\ Delta("redirect", 7, v) = 0 /\ Delta("result", 7, v) = 0
  BY Deltas
<1>6. ASSUME NEW kind \in Kinds
      PROVE  RhsWorth(kind, 7, v) = Worth(kind, 24, words) + Worth(kind, 22, own)
  <2>1. 7 \in 2..24
    OBVIOUS
  <2> QED BY <1>1, <2>1, RhsIs
<1> HIDE DEF words, own
<1>7. 22 \in {22, 23} /\ 21 \in 0..25 /\ 22 \in 0..25 /\ 24 \in 0..25
  OBVIOUS
<1>8. Worth("syllable", 21, t) = RhsWorth("syllable", 7, v) + Delta("syllable", 7, v)
  <2>1. /\ Worth("syllable", 21, t) = 0 /\ Worth("syllable", 24, words) = SyllablesIn(words)
        /\ Worth("syllable", 22, own) = 0
    BY <1>7, WorthOf
  <2> QED BY <1>4, <1>5, <1>6, <2>1 DEF Kinds
<1>9. Worth("task", 21, t) = RhsWorth("task", 7, v) + Delta("task", 7, v)
  <2>1. Worth("task", 21, t) = 1 /\ Worth("task", 24, words) = 0 /\ Worth("task", 22, own) = 0
    BY <1>7, WorthOf
  <2> QED BY <1>5, <1>6, <2>1 DEF Kinds
<1>10. Worth("arg", 21, t) = RhsWorth("arg", 7, v) + Delta("arg", 7, v)
  <2>1. Worth("arg", 21, t) = Len(words) /\ Worth("arg", 24, words) = 0 /\ Worth("arg", 22, own) = 0
    BY <1>3, <1>7, WorthOf
  <2> QED BY <1>4, <1>5, <1>6, <2>1 DEF Kinds
<1>11. Worth("redirect", 21, t) = RhsWorth("redirect", 7, v) + Delta("redirect", 7, v)
  <2>1. /\ Worth("redirect", 21, t) = Len(own) /\ Worth("redirect", 24, words) = 0
        /\ Worth("redirect", 22, own) = Len(own)
    BY <1>3, <1>7, WorthOf
  <2> QED BY <1>4, <1>5, <1>6, <2>1 DEF Kinds
<1>12. Worth("result", 21, t) = RhsWorth("result", 7, v) + Delta("result", 7, v)
  <2>1. Worth("result", 21, t) = 0 /\ Worth("result", 24, words) = 0 /\ Worth("result", 22, own) = 0
    BY <1>7, WorthOf
  <2> QED BY <1>5, <1>6, <2>1 DEF Kinds
<1> QED BY <1>1, <1>8, <1>9, <1>10, <1>11, <1>12 DEF Balances, Kinds

(* redirections                                                            *)
LEMMA RedirectionsBalance ==
  ASSUME NEW rule \in {8, 9, 10}, NEW v,
         \A k \in 1..Length(rule) : Fits(RightHandSide[rule][k], v[k])
  PROVE  Balances(rule, v)
<1>0. rule \in 2..24 /\ rule \in {2, 3, 4, 5, 8, 9, 10, 20, 21, 23, 24}
  OBVIOUS
<1>1. \A kind : Delta(kind, rule, v) = 0
  BY <1>0, Deltas
<1>2. Lhs(rule) = 22
  BY DEF Lhs, At, yyr1
<1>3. ASSUME NEW u, NEW x \in {22, 23}
      PROVE  /\ Worth("syllable", x, u) = 0 /\ Worth("task", x, u) = 0
             /\ Worth("arg", x, u) = 0 /\ Worth("redirect", x, u) = Len(u)
             /\ Worth("result", x, u) = 0
  <2>1. x \in 0..25
    OBVIOUS
  <2> QED BY <2>1, WorthOf
<1>4. CASE rule = 8
  <2> DEFINE c == v[1] \o v[2]
  <2>1. /\ Length(rule) = 2 /\ RightHandSide[rule][1] = 23 /\ RightHandSide[rule][2] = 22
        /\ Value(rule, v) = c
    <3>1. Length(rule) = 2
      BY <1>4 DEF Length, At, yyr2
    <3>2. RightHandSide[rule][1] = 23 /\ RightHandSide[rule][2] = 22
      BY <1>4, Sides
    <3>3. Value(rule, v) = c
      BY <1>4, SemanticActions
    <3> QED BY <3>1, <3>2, <3>3
  <2>2. IsSeq(v[1]) /\ IsSeq(v[2])
    <3>1. 1 \in 1..Length(rule) /\ 2 \in 1..Length(rule)
      BY <2>1
    <3> QED BY <2>1, <3>1 DEF Fits, AreOwn
  <2>3. Len(c) = Len(v[1]) + Len(v[2]) /\ Len(v[1]) \in Int /\ Len(v[2]) \in Int
    BY <2>2, SeqConcat, SeqFacts
  <2>4. ASSUME NEW kind \in Kinds
        PROVE  RhsWorth(kind, rule, v) = Worth(kind, 23, v[1]) + Worth(kind, 22, v[2])
    BY <1>0, <2>1, RhsIs
  <2> HIDE DEF c
  <2>5. /\ 22 \in {22, 23} /\ 23 \in {22, 23}
    OBVIOUS
  <2>6. /\ Worth("syllable", 22, c) = 0 /\ Worth("syllable", 23, v[1]) = 0
        /\ Worth("syllable", 22, v[2]) = 0
        /\ Worth("task", 22, c) = 0 /\ Worth("task", 23, v[1]) = 0 /\ Worth("task", 22, v[2]) = 0
        /\ Worth("arg", 22, c) = 0 /\ Worth("arg", 23, v[1]) = 0 /\ Worth("arg", 22, v[2]) = 0
        /\ Worth("result", 22, c) = 0 /\ Worth("result", 23, v[1]) = 0
        /\ Worth("result", 22, v[2]) = 0
    BY <1>3, <2>5
  <2>7. /\ Worth("redirect", 22, c) = Len(c) /\ Worth("redirect", 23, v[1]) = Len(v[1])
        /\ Worth("redirect", 22, v[2]) = Len(v[2])
    BY <1>3, <2>5
  <2>8. ASSUME NEW kind \in Kinds
        PROVE  Worth(kind, 22, c) = RhsWorth(kind, rule, v) + Delta(kind, rule, v)
    <3>1. CASE kind = "redirect"
      <4>1. /\ Delta(kind, rule, v) = 0 /\ Worth(kind, 22, c) = Len(c)
            /\ RhsWorth(kind, rule, v) = Len(v[1]) + Len(v[2])
        BY <1>1, <2>4, <2>7, <3>1
      <4> DEFINE a == Len(v[1])
                 b == Len(v[2])
      <4>2. a \in Int /\ b \in Int /\ Len(c) = a + b
        BY <2>3
      <4>3. Worth(kind, 22, c) = Len(c) /\ RhsWorth(kind, rule, v) = a + b
        BY <4>1
      <4> HIDE DEF a, b
      <4>4. a + b = (a + b) + 0
        BY <4>2
      <4> QED BY <4>1, <4>2, <4>3, <4>4
    <3>2. CASE kind # "redirect"
      <4>1. Worth(kind, 22, c) = 0 /\ Worth(kind, 23, v[1]) = 0 /\ Worth(kind, 22, v[2]) = 0
        BY <2>6, <3>2 DEF Kinds
      <4> QED BY <1>1, <2>4, <4>1
    <3> QED BY <3>1, <3>2
  <2> QED BY <1>2, <2>1, <2>8 DEF Balances
<1>5. CASE rule = 9
  <2>1. Length(rule) = 1 /\ RightHandSide[rule][1] = 23 /\ Value(rule, v) = v[1]
    <3>1. Length(rule) = 1
      BY <1>5 DEF Length, At, yyr2
    <3>2. RightHandSide[rule][1] = 23
      BY <1>5, Sides
    <3>3. Value(rule, v) = v[1]
      BY <1>5, SemanticActions
    <3> QED BY <3>1, <3>2, <3>3
  <2>2. 1 \in 1..Length(rule) /\ 22 \in {22, 23} /\ 23 \in {22, 23}
    BY <2>1
  <2>3. ASSUME NEW kind \in Kinds
        PROVE  /\ RhsWorth(kind, rule, v) = Worth(kind, 23, v[1])
               /\ Worth(kind, 23, v[1]) \in Int
    BY <1>0, <2>1, <2>2, RhsIs
  <2>4. ASSUME NEW kind \in Kinds PROVE Worth(kind, 22, v[1]) = Worth(kind, 23, v[1])
    <3>1. /\ Worth("syllable", 22, v[1]) = Worth("syllable", 23, v[1])
          /\ Worth("task", 22, v[1]) = Worth("task", 23, v[1])
          /\ Worth("arg", 22, v[1]) = Worth("arg", 23, v[1])
          /\ Worth("redirect", 22, v[1]) = Worth("redirect", 23, v[1])
          /\ Worth("result", 22, v[1]) = Worth("result", 23, v[1])
      BY <1>3, <2>2
    <3> QED BY <3>1 DEF Kinds
  <2> QED BY <1>1, <1>2, <2>1, <2>3, <2>4 DEF Balances
<1>6. CASE rule = 10
  <2> DEFINE none == <<>>
  <2>1. Length(rule) = 0 /\ Value(rule, v) = none
    <3>1. Length(rule) = 0
      BY <1>6 DEF Length, At, yyr2
    <3>2. Value(rule, v) = none
      BY <1>6, SemanticActions
    <3> QED BY <3>1, <3>2
  <2>2. ASSUME NEW kind \in Kinds PROVE RhsWorth(kind, rule, v) = 0
    BY <1>0, <2>1, RhsIs
  <2>3. Len(none) = 0 /\ 22 \in {22, 23}
    OBVIOUS
  <2> HIDE DEF none
  <2>4. ASSUME NEW kind \in Kinds PROVE Worth(kind, 22, none) = 0
    <3>1. /\ Worth("syllable", 22, none) = 0 /\ Worth("task", 22, none) = 0
          /\ Worth("arg", 22, none) = 0 /\ Worth("redirect", 22, none) = Len(none)
          /\ Worth("result", 22, none) = 0
      BY <1>3, <2>3
    <3> QED BY <2>3, <3>1 DEF Kinds
  <2> QED BY <1>1, <1>2, <2>1, <2>2, <2>4 DEF Balances
<1> QED BY <1>4, <1>5, <1>6

(* The redirections of rules 11 to 19.  The syllables of a file become its  *)
(* name.                                                                   *)
LEMMA RedirectBalances ==
  ASSUME NEW rule \in RedirectRules, NEW v,
         \A k \in 1..Length(rule) : Fits(RightHandSide[rule][k], v[k])
  PROVE  Balances(rule, v)
<1> DEFINE new == Value(rule, v)
<1>0. rule \in 2..24 /\ (rule \in {14, 15} \/ rule \in {11, 12, 13, 16, 17, 18, 19})
  BY DEF RedirectRules
<1>1. Lhs(rule) = 23 /\ (rule \in {14, 15} => Length(rule) = 1)
      /\ (rule \in {11, 12, 13, 16, 17, 18, 19} => Length(rule) = 2)
  BY <1>0 DEF Lhs, Length, At, yyr1, yyr2
<1>2. /\ Worth("syllable", 23, new) = 0 /\ Worth("task", 23, new) = 0
      /\ Worth("arg", 23, new) = 0 /\ Worth("redirect", 23, new) = Len(new)
      /\ Worth("result", 23, new) = 0
  <2>1. 23 \in {22, 23} /\ 23 \in 0..25
    OBVIOUS
  <2> HIDE DEF new
  <2> QED BY <2>1, WorthOf
<1>3. CASE rule \in {14, 15}
  <2> DEFINE x == RightHandSide[rule][1]
  <2>1. x \in 0..18 /\ x # 3 /\ x \in 0..25
    BY <1>3, Sides
  <2>2. ASSUME NEW kind \in Kinds PROVE RhsWorth(kind, rule, v) = 0
    <3>1. RhsWorth(kind, rule, v) = Worth(kind, x, v[1])
      BY <1>0, <1>1, <1>3, RhsIs
    <3> HIDE DEF x
    <3>2. /\ Worth("syllable", x, v[1]) = 0 /\ Worth("task", x, v[1]) = 0
          /\ Worth("arg", x, v[1]) = 0 /\ Worth("redirect", x, v[1]) = 0
          /\ Worth("result", x, v[1]) = 0
      BY <2>1, WorthOf
    <3> QED BY <3>1, <3>2 DEF Kinds
  <2>3. Len(new) = 1
    <3>1. new = Redirects(rule, NoFile)
      BY <1>3, SemanticActions
    <3>2. PICK r : Redirects(rule, NoFile) = <<r>>
      BY <1>3 DEF Redirects
    <3> QED BY <3>1, <3>2
  <2>4. Delta("redirect", rule, v) = 1 /\ \A kind : kind # "redirect" => Delta(kind, rule, v) = 0
    BY <1>3, Deltas
  <2> HIDE DEF new
  <2>5. ASSUME NEW kind \in Kinds
        PROVE  Worth(kind, 23, new) = RhsWorth(kind, rule, v) + Delta(kind, rule, v)
    <3>1. CASE kind = "redirect"
      BY <1>2, <2>2, <2>3, <2>4, <3>1
    <3>2. CASE kind # "redirect"
      <4>1. Worth(kind, 23, new) = 0
        BY <1>2, <3>2 DEF Kinds
      <4> QED BY <2>2, <2>4, <3>2, <4>1
    <3> QED BY <3>1, <3>2
  <2> QED BY <1>1, <2>5 DEF Balances, new
<1>4. CASE rule \in {11, 12, 13, 16, 17, 18, 19}
  <2> DEFINE x == RightHandSide[rule][1]
             w == v[2]
             n == Len(Redirects(rule, NoFile))
  <2>1. x \in 0..18 /\ x # 3 /\ x \in 0..25 /\ RightHandSide[rule][2] = 25
    BY <1>4, Sides
  <2>2. ASSUME NEW kind \in Kinds
        PROVE  RhsWorth(kind, rule, v) = Worth(kind, x, v[1]) + Worth(kind, 25, w)
    BY <1>0, <1>1, <1>4, <2>1, RhsIs
  <2>3. IsSeq(w)
    <3>1. 2 \in 1..Length(rule)
      BY <1>1, <1>4
    <3> QED BY <2>1, <3>1 DEF Fits
  <2>4. Len(w) \in Int
    BY <2>3, SeqFacts
  <2>5. new = Redirects(rule, w) /\ Len(Redirects(rule, w)) = n /\ n \in Int
    <3>1. new = Redirects(rule, w)
      BY <1>4, SemanticActions
    <3>2. CASE rule \in {11, 12, 13, 16, 17}
      <4>1. ASSUME NEW file PROVE \E r : Redirects(rule, file) = <<r>>
        <5>1. rule = 11 \/ rule = 12 \/ rule = 13 \/ rule = 16 \/ rule = 17
          BY <3>2
        <5> QED BY <5>1 DEF Redirects
      <4>2. PICK r, q : Redirects(rule, w) = <<r>> /\ Redirects(rule, NoFile) = <<q>>
        BY <4>1
      <4> QED BY <3>1, <4>2
    <3>3. CASE rule \in {18, 19}
      <4>1. ASSUME NEW file PROVE \E r, q : Redirects(rule, file) = <<r, q>>
        <5>1. rule = 18 \/ rule = 19
          BY <3>3
        <5> QED BY <5>1 DEF Redirects
      <4>2. PICK a, b, r, q : Redirects(rule, w) = <<a, b>> /\ Redirects(rule, NoFile) = <<r, q>>
        BY <4>1
      <4> QED BY <3>1, <4>2
    <3> QED BY <1>4, <3>2, <3>3
  <2>6. /\ Delta("redirect", rule, v) = n /\ Delta("syllable", rule, v) = -Len(w)
        /\ \A kind : kind \notin {"redirect", "syllable"} => Delta(kind, rule, v) = 0
    BY <1>4, Deltas
  <2> HIDE DEF x, w, n, new
  <2>7. /\ Worth("syllable", x, v[1]) = 0 /\ Worth("task", x, v[1]) = 0
        /\ Worth("arg", x, v[1]) = 0 /\ Worth("redirect", x, v[1]) = 0
        /\ Worth("result", x, v[1]) = 0
    BY <2>1, WorthOf
  <2>8. /\ Worth("syllable", 25, w) = Len(w) /\ Worth("task", 25, w) = 0
        /\ Worth("arg", 25, w) = 0 /\ Worth("redirect", 25, w) = 0
        /\ Worth("result", 25, w) = 0
    <3>1. 25 \in 0..25
      OBVIOUS
    <3> QED BY <3>1, WorthOf
  <2>9. ASSUME NEW kind \in Kinds
        PROVE  Worth(kind, 23, new) = RhsWorth(kind, rule, v) + Delta(kind, rule, v)
    <3>1. CASE kind = "redirect"
      <4>1. /\ Worth(kind, 23, new) = n /\ RhsWorth(kind, rule, v) = 0 + 0
            /\ Delta(kind, rule, v) = n
        BY <1>2, <2>2, <2>5, <2>6, <2>7, <2>8, <3>1
      <4> QED BY <2>5, <4>1
    <3>2. CASE kind = "syllable"
      <4>1. /\ Worth(kind, 23, new) = 0 /\ RhsWorth(kind, rule, v) = 0 + Len(w)
            /\ Delta(kind, rule, v) = -Len(w)
        BY <1>2, <2>2, <2>6, <2>7, <2>8, <3>2
      <4> QED BY <2>4, <4>1
    <3>3. CASE kind \notin {"redirect", "syllable"}
      <4>1. Worth(kind, 23, new) = 0 /\ Worth(kind, x, v[1]) = 0 /\ Worth(kind, 25, w) = 0
        BY <1>2, <2>7, <2>8, <3>3 DEF Kinds
      <4> QED BY <2>2, <2>6, <3>3, <4>1
    <3> QED BY <3>1, <3>2, <3>3
  <2> QED BY <1>1, <2>9 DEF Balances, new
<1> QED BY <1>0, <1>3, <1>4

(* words and word.                                                         *)
LEMMA WordsBalance ==
  ASSUME NEW rule \in {20, 21, 23, 24}, NEW v,
         \A k \in 1..Length(rule) : Fits(RightHandSide[rule][k], v[k])
  PROVE  Balances(rule, v)
<1> DEFINE new == Value(rule, v)
           x == RightHandSide[rule][1]
           y == Lhs(rule)
<1>0. rule \in 2..24 /\ rule \in {2, 3, 4, 5, 8, 9, 10, 20, 21, 23, 24}
  OBVIOUS
<1>1. \A kind : Delta(kind, rule, v) = 0
  BY <1>0, Deltas
<1>2. /\ y = IF rule \in {20, 21} THEN 24 ELSE 25
      /\ Length(rule) = CASE rule \in {20, 23} -> 1 [] rule = 24 -> 2 [] rule = 21 -> 3
      /\ x = IF rule \in {20, 21} THEN 25 ELSE 3
  <2>1. /\ y = IF rule \in {20, 21} THEN 24 ELSE 25
        /\ Length(rule) = CASE rule \in {20, 23} -> 1 [] rule = 24 -> 2 [] rule = 21 -> 3
    BY DEF Lhs, Length, At, yyr1, yyr2
  <2>2. x = IF rule \in {20, 21} THEN 25 ELSE 3
    BY Sides
  <2> QED BY <2>1, <2>2
<1>3. /\ 1 \in 1..Length(rule)
      /\ rule \in {20, 23} => Length(rule) = 1
      /\ rule = 24 => Length(rule) = 2 /\ RightHandSide[rule][2] = 25 /\ 2 \in 1..Length(rule)
      /\ rule = 21 => /\ Length(rule) = 3 /\ RightHandSide[rule][2] = 4
                      /\ RightHandSide[rule][3] = 24 /\ 3 \in 1..Length(rule)
  BY <1>2, Sides
<1> HIDE DEF new, x, y
<1>4. ASSUME NEW kind \in {"task", "arg", "redirect", "result"}, NEW s \in {3, 4, 24, 25}, NEW u
      PROVE  Worth(kind, s, u) = 0
  <2>1. s \in 0..25 /\ (s \in {3, 4} => s \in 0..18)
    OBVIOUS
  <2>2. Worth("result", s, u) = 0
    BY <2>1, WorthOf
  <2>3. Worth("task", s, u) = 0 /\ Worth("arg", s, u) = 0 /\ Worth("redirect", s, u) = 0
    <3>1. CASE s \in {3, 4}
      BY <2>1, <3>1, WorthOf
    <3>2. CASE s \in {24, 25}
      BY <3>2, WorthOf
    <3> QED BY <3>1, <3>2
  <2> QED BY <2>2, <2>3
<1>5. ASSUME NEW kind \in {"task", "arg", "redirect", "result"}
      PROVE  Worth(kind, y, new) = RhsWorth(kind, rule, v) + Delta(kind, rule, v)
  <2>1. kind \in Kinds
    BY DEF Kinds
  <2>2. Worth(kind, y, new) = 0 /\ Worth(kind, x, v[1]) = 0
    BY <1>2, <1>4
  <2>3. CASE rule \in {20, 23}
    <3>1. RhsWorth(kind, rule, v) = Worth(kind, x, v[1])
      BY <1>0, <1>3, <2>1, <2>3, RhsIs DEF x
    <3> QED BY <1>1, <2>2, <3>1
  <2>4. CASE rule = 24
    <3>1. RhsWorth(kind, rule, v) = Worth(kind, x, v[1]) + Worth(kind, 25, v[2])
      BY <1>0, <1>3, <2>1, <2>4, RhsIs DEF x
    <3>2. Worth(kind, 25, v[2]) = 0
      BY <1>4
    <3> QED BY <1>1, <2>2, <3>1, <3>2
  <2>5. CASE rule = 21
    <3>1. RhsWorth(kind, rule, v) = Worth(kind, x, v[1]) + Worth(kind, 4, v[2])
                                    + Worth(kind, 24, v[3])
      BY <1>0, <1>3, <2>1, <2>5, RhsIs DEF x
    <3>2. Worth(kind, 4, v[2]) = 0 /\ Worth(kind, 24, v[3]) = 0
      BY <1>4
    <3> QED BY <1>1, <2>2, <3>1, <3>2
  <2> QED BY <2>3, <2>4, <2>5
<1>6. Worth("syllable", y, new) = RhsWorth("syllable", rule, v) + Delta("syllable", rule, v)
  <2>1. "syllable" \in Kinds /\ 3 \in 0..18 /\ 4 \in 0..18
    BY DEF Kinds
  <2>2. CASE rule = 20
    <3> DEFINE w == v[1]
               c == <<w>>
    <3>1. IsSeq(w)
      BY <1>2, <1>3, <2>2 DEF Fits, x
    <3>2. new = c
      BY <2>2, SemanticActions DEF new
    <3>3. SyllablesIn(c) = Len(w) /\ Len(w) \in Int
      BY <3>1, WordsWeigh, SeqFacts
    <3>4. RhsWorth("syllable", rule, v) = Worth("syllable", 25, w)
      BY <1>0, <1>2, <1>3, <2>1, <2>2, RhsIs DEF x
    <3> HIDE DEF w, c
    <3>5. Worth("syllable", 24, c) = SyllablesIn(c) /\ Worth("syllable", 25, w) = Len(w)
      BY WorthOf
    <3>6. y = 24
      BY <1>2, <2>2
    <3> QED BY <1>1, <3>2, <3>3, <3>4, <3>5, <3>6
  <2>3. CASE rule = 21
    <3> DEFINE w == v[1]
               rest == v[3]
               c == <<w>> \o rest
    <3>1. IsSeq(w) /\ AreWords(rest)
      BY <1>2, <1>3, <2>3 DEF Fits, x
    <3>2. new = c
      BY <2>3, SemanticActions DEF new
    <3>3. /\ SyllablesIn(c) = Len(w) + SyllablesIn(rest)
          /\ Len(w) \in Int /\ SyllablesIn(rest) \in Int
      BY <3>1, WordsWeigh, LengthsAre, SeqFacts
    <3>4. RhsWorth("syllable", rule, v) = Worth("syllable", 25, w) + Worth("syllable", 4, v[2])
                                          + Worth("syllable", 24, rest)
      <4>1. RhsWorth("syllable", rule, v) = Worth("syllable", x, v[1]) + Worth("syllable", 4, v[2])
                                            + Worth("syllable", 24, v[3])
        BY <1>0, <1>3, <2>1, <2>3, RhsIs DEF x
      <4>2. x = 25
        BY <1>2, <2>3
      <4> QED BY <4>1, <4>2
    <3> HIDE DEF w, c, rest
    <3>5. /\ Worth("syllable", 24, c) = SyllablesIn(c) /\ Worth("syllable", 25, w) = Len(w)
          /\ Worth("syllable", 4, v[2]) = 0 /\ Worth("syllable", 24, rest) = SyllablesIn(rest)
      BY <2>1, WorthOf
    <3>6. y = 24
      BY <1>2, <2>3
    <3> QED BY <1>1, <3>2, <3>3, <3>4, <3>5, <3>6
  <2>4. CASE rule = 23
    <3> DEFINE c == <<v[1]>>
    <3>1. new = c
      BY <2>4, SemanticActions DEF new
    <3>2. Len(c) = 1
      OBVIOUS
    <3>3. RhsWorth("syllable", rule, v) = Worth("syllable", 3, v[1])
      BY <1>0, <1>2, <1>3, <2>1, <2>4, RhsIs DEF x
    <3> HIDE DEF c
    <3>4. Worth("syllable", 25, c) = Len(c) /\ Worth("syllable", 3, v[1]) = 1
      BY <2>1, WorthOf
    <3>5. y = 25
      BY <1>2, <2>4
    <3> QED BY <1>1, <3>1, <3>2, <3>3, <3>4, <3>5
  <2>5. CASE rule = 24
    <3> DEFINE one == <<v[1]>>
               w == v[2]
               c == one \o w
    <3>1. IsSeq(w)
      BY <1>3, <2>5 DEF Fits
    <3>2. new = c
      BY <2>5, SemanticActions DEF new
    <3>3. Len(c) = 1 + Len(w) /\ Len(w) \in Int
      <4>1. IsSeq(one) /\ Len(one) = 1
        BY SeqOne
      <4> HIDE DEF one, w
      <4>2. /\ IsSeq(c) /\ Len(c) = Len(one) + Len(w)
            /\ \A k \in 1..(Len(one) + Len(w)) :
                 c[k] = IF k <= Len(one) THEN one[k] ELSE w[k - Len(one)]
        BY <3>1, <4>1, SeqConcat
      <4>3. Len(w) \in Int
        BY <3>1, SeqFacts
      <4> HIDE DEF c
      <4> QED BY <4>1, <4>2, <4>3
    <3>4. RhsWorth("syllable", rule, v) = Worth("syllable", 3, v[1]) + Worth("syllable", 25, w)
      <4>1. RhsWorth("syllable", rule, v) = Worth("syllable", x, v[1]) + Worth("syllable", 25, v[2])
        BY <1>0, <1>3, <2>1, <2>5, RhsIs DEF x
      <4>2. x = 3
        BY <1>2, <2>5
      <4> QED BY <4>1, <4>2
    <3> HIDE DEF c, w
    <3>5. /\ Worth("syllable", 25, c) = Len(c) /\ Worth("syllable", 3, v[1]) = 1
          /\ Worth("syllable", 25, w) = Len(w)
      BY <2>1, WorthOf
    <3>6. y = 25
      BY <1>2, <2>5
    <3> QED BY <1>1, <3>2, <3>3, <3>4, <3>5, <3>6
  <2> QED BY <2>2, <2>3, <2>4, <2>5
<1> QED BY <1>5, <1>6 DEF Balances, Kinds, new, y

LEMMA RuleBalances ==
  ASSUME NEW rule \in 2..24, rule # 22, NEW v,
         \A k \in 1..Length(rule) : Fits(RightHandSide[rule][k], v[k])
  PROVE  Balances(rule, v)
<1>1. CASE rule \in 2..6
  BY <1>1, ListBalances
<1>2. CASE rule = 7
  BY <1>2, CommandBalances
<1>3. CASE rule \in {8, 9, 10}
  BY <1>3, RedirectionsBalance
<1>4. CASE rule \in RedirectRules
  BY <1>4, RedirectBalances
<1>5. CASE rule \in {20, 21, 23, 24}
  BY <1>5, WordsBalance
<1> QED BY <1>1, <1>2, <1>3, <1>4, <1>5 DEF RedirectRules

(***************************************************************************)
(* What is allocated is what the values on the stack, the lookahead and the *)
(* parse result account for.                                               *)
(***************************************************************************)
Upto(kind, states, values, n) ==
  SumOf([k \in 1..n |-> Worth(kind, Symbol(states[k]), values[k])])
Stacked(kind) == Upto(kind, yyss, yyvs, Len(yyss))

Result(kind) == IF kind = "result" /\ call # "start" THEN 1 ELSE 0
Ahead(kind)  == IF kind = "syllable" /\ yychar = SYLLABLE THEN 1 ELSE 0

Parsing == pat \in {"setstate", "backup"}

(* While it parses; when it has accepted; when everything has been freed.   *)
StackBalance ==
  Parsing /\ yystate # 1 =>
    \A kind \in Kinds : blocks[kind] = Result(kind) + Stacked(kind) + Ahead(kind)
ListBalance ==
  yyresult = 0 /\ call # "returned" =>
    \A kind \in Kinds : blocks[kind] = Result(kind) + Worth(kind, 20, tasks)
NoneLeft ==
  yyresult = 0 /\ call = "returned" => \A kind \in Kinds : blocks[kind] = 0

CallInv ==
  /\ yyresult = 0 => call \in {"parse", "destroy", "run", "ran", "returned"}
  /\ call \in {"destroy", "run", "ran"} => yyresult = 0
  /\ call \in {"run", "ran"} => at = "done"
  /\ call = "returned" /\ yyresult = 0 => at = "done"

BooksInv == ListInv /\ CallInv /\ StackBalance /\ ListBalance /\ NoneLeft

(* The empty stack, one entry more, and a stack with the same entries.      *)
LEMMA UptoNone ==
  ASSUME NEW kind, NEW states, NEW values
  PROVE  Upto(kind, states, values, 0) = 0
<1> DEFINE s == [k \in 1..0 |-> Worth(kind, Symbol(states[k]), values[k])]
<1>1. s = <<>>
  OBVIOUS
<1> HIDE DEF s
<1>2. SumOf(s) = 0
  BY <1>1, SumNone
<1> QED BY <1>2 DEF Upto, s

LEMMA UptoNext ==
  ASSUME NEW kind \in Kinds, NEW states, NEW values, NEW n \in Nat, NEW m, m = n + 1,
         \A k \in 1..m : Fits(Symbol(states[k]), values[k])
  PROVE  /\ Upto(kind, states, values, n) \in Int
         /\ Worth(kind, Symbol(states[m]), values[m]) \in Int
         /\ Upto(kind, states, values, m)
              = Upto(kind, states, values, n) + Worth(kind, Symbol(states[m]), values[m])
<1> DEFINE W(k) == Worth(kind, Symbol(states[k]), values[k])
           s == [k \in 1..n |-> W(k)]
           t == [k \in 1..m |-> W(k)]
<1>1. \A k \in 1..m : W(k) \in Int
  BY WorthIsInt
<1>2. Upto(kind, states, values, n) = SumOf(s) /\ Upto(kind, states, values, m) = SumOf(t)
  BY DEF Upto
<1> HIDE DEF W
<1>3. /\ s \in Seq(Int) /\ Len(s) = n /\ t \in Seq(Int) /\ Len(t) = m
      /\ \A k \in 1..n : t[k] = s[k]
  <2>1. \A k \in 1..n : k \in 1..m
    OBVIOUS
  <2> QED BY <1>1, <2>1
<1>4. t[m] = W(m) /\ W(m) \in Int
  <2>1. m \in 1..m
    OBVIOUS
  <2> QED BY <1>1, <2>1
<1> HIDE DEF s, t
<1>5. SumOf(s) \in Int /\ SumOf(t) = SumOf(s) + t[m]
  BY <1>3, SumIsInt, SumBehind
<1> QED BY <1>2, <1>4, <1>5 DEF W

LEMMA UptoSame ==
  ASSUME NEW kind, NEW n \in Nat, NEW states, NEW values, NEW states2, NEW values2,
         \A k \in 1..n : states2[k] = states[k] /\ values2[k] = values[k]
  PROVE  Upto(kind, states2, values2, n) = Upto(kind, states, values, n)
<1> DEFINE s == [k \in 1..n |-> Worth(kind, Symbol(states[k]), values[k])]
           t == [k \in 1..n |-> Worth(kind, Symbol(states2[k]), values2[k])]
<1>1. s = t
  OBVIOUS
<1> HIDE DEF s, t
<1>2. SumOf(s) = SumOf(t)
  BY <1>1
<1> QED BY <1>2 DEF Upto, s, t

(* Pop all but n entries and push one.                                     *)
LEMMA PushWorth ==
  ASSUME StackInv, ValuesInv, NEW n \in 1..Len(yyss), NEW s, NEW value,
         yyss' = Append(SubSeq(yyss, 1, n), s),
         yyvs' = Append(SubSeq(yyvs, 1, n), value),
         Fits(Symbol(s), value), NEW kind \in Kinds
  PROVE  /\ Stacked(kind)' = Upto(kind, yyss, yyvs, n) + Worth(kind, Symbol(s), value)
         /\ Upto(kind, yyss, yyvs, n) \in Int /\ Worth(kind, Symbol(s), value) \in Int
         /\ Len(yyss') = n + 1 /\ yyss'[n + 1] = s /\ yyvs'[n + 1] = value
         /\ \A k \in 1..n : yyss'[k] = yyss[k] /\ yyvs'[k] = yyvs[k]
<1>1. IsSeq(yyss) /\ IsSeq(yyvs) /\ Len(yyss) = Len(yyvs) /\ Len(yyss) \in Nat
  BY LegalTop DEF StackInv, Legal, IsSeq
<1>2. /\ Len(yyss') = n + 1 /\ yyss'[n + 1] = s
      /\ \A k \in 1..n : yyss'[k] = yyss[k]
  BY <1>1, Pushed
<1>3. yyvs'[n + 1] = value /\ \A k \in 1..n : yyvs'[k] = yyvs[k]
  BY <1>1, Pushed
<1> DEFINE m == n + 1
<1>4. n \in Nat /\ \A k \in 1..m : Fits(Symbol(yyss'[k]), yyvs'[k])
  <2>1. ASSUME NEW k \in 1..m PROVE Fits(Symbol(yyss'[k]), yyvs'[k])
    <3>1. CASE k = m
      BY <1>2, <1>3, <3>1
    <3>2. CASE k # m
      <4>1. k \in 1..n /\ k \in 1..Len(yyss)
        BY <1>1, <3>2
      <4> QED BY <1>2, <1>3, <4>1 DEF ValuesInv
    <3> QED BY <3>1, <3>2
  <2> QED BY <1>1, <2>1
<1>8. m = n + 1
  OBVIOUS
<1> HIDE DEF m
<1>5. /\ Upto(kind, yyss', yyvs', n) \in Int
      /\ Worth(kind, Symbol(yyss'[m]), yyvs'[m]) \in Int
      /\ Upto(kind, yyss', yyvs', m)
           = Upto(kind, yyss', yyvs', n) + Worth(kind, Symbol(yyss'[m]), yyvs'[m])
  <2>1. ASSUME NEW ss, NEW vv, \A k \in 1..m : Fits(Symbol(ss[k]), vv[k])
        PROVE  /\ Upto(kind, ss, vv, n) \in Int
               /\ Worth(kind, Symbol(ss[m]), vv[m]) \in Int
               /\ Upto(kind, ss, vv, m) = Upto(kind, ss, vv, n) + Worth(kind, Symbol(ss[m]), vv[m])
    BY <1>4, <1>8, <2>1, UptoNext
  <2> QED BY <1>4, <2>1, Zenon
<1>6. Upto(kind, yyss', yyvs', n) = Upto(kind, yyss, yyvs, n)
  BY <1>2, <1>3, <1>4, UptoSame
<1>7. Stacked(kind)' = Upto(kind, yyss', yyvs', m)
  BY <1>2, <1>8 DEF Stacked, Upto
<1> QED BY <1>2, <1>3, <1>5, <1>6, <1>7, <1>8

(* What a reduction pops.                                                  *)
LEMMA PopWorth ==
  ASSUME StackInv, ValuesInv, Ready, Action[1] = "reduce", Action[2] # 22,
         NEW n, n = Len(yyss) - Length(Action[2]), NEW kind \in Kinds
  PROVE  /\ Stacked(kind) = Upto(kind, yyss, yyvs, n)
                            + RhsWorth(kind, Action[2], TopOf(yyvs, Action[2]))
         /\ RhsWorth(kind, Action[2], TopOf(yyvs, Action[2])) \in Int
<1> DEFINE r == Action[2]
           v == TopOf(yyvs, r)
           m == Length(r)
           U(k) == Upto(kind, yyss, yyvs, k)
           W(k) == Worth(kind, RightHandSide[r][k], v[k])
<1>1. /\ r \in 2..24 /\ m \in 0..3 /\ n \in 1..Len(yyss) /\ Len(yyss) = n + m
      /\ \A k \in 1..m : /\ n + k \in 1..Len(yyss)
                         /\ Symbol(yyss[n + k]) = RightHandSide[r][k] /\ yyvs[n + k] = v[k]
  BY TopValues
<1>2. \A k \in 1..m : Fits(RightHandSide[r][k], v[k])
  BY TopFits
<1>3. Len(yyss) \in Nat /\ \A k \in 1..Len(yyss) : Fits(Symbol(yyss[k]), yyvs[k])
  BY LegalTop DEF StackInv, ValuesInv
<1>4. Stacked(kind) = U(n + m)
  BY <1>1 DEF Stacked
<1> HIDE DEF r, v, m
<1>5. ASSUME NEW k \in 1..m
      PROVE  U(n + k) = U(n + (k - 1)) + W(k) /\ U(n + (k - 1)) \in Int /\ W(k) \in Int
  <2> DEFINE p == n + (k - 1)
             q == n + k
  <2>1. p \in Nat /\ q = p + 1 /\ q \in 1..Len(yyss)
    BY <1>1, <1>3
  <2>2. \A j \in 1..q : j \in 1..Len(yyss)
    BY <1>3, <2>1
  <2>3. \A j \in 1..q : Fits(Symbol(yyss[j]), yyvs[j])
    BY <1>3, <2>2
  <2>4. Worth(kind, Symbol(yyss[q]), yyvs[q]) = W(k)
    BY <1>1
  <2> HIDE DEF p, q, W
  <2>5. /\ U(p) \in Int /\ Worth(kind, Symbol(yyss[q]), yyvs[q]) \in Int
        /\ U(q) = U(p) + Worth(kind, Symbol(yyss[q]), yyvs[q])
    BY <2>1, <2>3, UptoNext
  <2> QED BY <2>4, <2>5 DEF p, q
<1>6. /\ m = 0 => RhsWorth(kind, r, v) = 0
      /\ m = 1 => RhsWorth(kind, r, v) = W(1)
      /\ m = 2 => RhsWorth(kind, r, v) = W(1) + W(2)
      /\ m = 3 => RhsWorth(kind, r, v) = W(1) + W(2) + W(3)
  BY <1>1, <1>2, RhsIs DEF m
<1>7. U(n) \in Int
  <2>1. CASE n = Len(yyss)
    <3> DEFINE p == n - 1
    <3>1. p \in Nat /\ n = p + 1 /\ \A j \in 1..n : Fits(Symbol(yyss[j]), yyvs[j])
      BY <1>1, <1>3, <2>1
    <3> HIDE DEF p
    <3>2. /\ U(p) \in Int /\ Worth(kind, Symbol(yyss[n]), yyvs[n]) \in Int
          /\ U(n) = U(p) + Worth(kind, Symbol(yyss[n]), yyvs[n])
      BY <3>1, UptoNext
    <3> QED BY <3>2
  <2>2. CASE n # Len(yyss)
    <3> DEFINE q == n + 1
    <3>1. n \in Nat /\ q \in 1..Len(yyss) /\ \A j \in 1..q : j \in 1..Len(yyss)
      BY <1>1, <1>3, <2>2
    <3>2. \A j \in 1..q : Fits(Symbol(yyss[j]), yyvs[j])
      BY <1>3, <3>1
    <3> QED BY <3>1, <3>2, UptoNext
  <2> QED BY <2>1, <2>2
<1>8. n \in Nat
  BY <1>1
<1> HIDE DEF U, W
<1>9. U(n + m) = U(n) + RhsWorth(kind, r, v) /\ RhsWorth(kind, r, v) \in Int
  <2>1. CASE m = 0
    BY <1>6, <1>7, <1>8, <2>1
  <2>2. CASE m = 1
    <3>1. 1 \in 1..m /\ n + (1 - 1) = n
      BY <1>8, <2>2
    <3>2. U(n + 1) = U(n + (1 - 1)) + W(1) /\ W(1) \in Int
      BY <1>5, <3>1
    <3> QED BY <1>6, <1>7, <2>2, <3>1, <3>2
  <2>3. CASE m = 2
    <3>1. 1 \in 1..m /\ 2 \in 1..m /\ n + (1 - 1) = n /\ 2 - 1 = 1
      BY <1>8, <2>3
    <3>2. U(n + 1) = U(n + (1 - 1)) + W(1) /\ W(1) \in Int
      BY <1>5, <3>1
    <3>3. U(n + 2) = U(n + (2 - 1)) + W(2) /\ W(2) \in Int
      BY <1>5, <3>1
    <3>4. U(n + 2) = U(n) + W(1) + W(2)
      BY <3>1, <3>2, <3>3
    <3> QED BY <1>6, <1>7, <2>3, <3>2, <3>3, <3>4
  <2>4. CASE m = 3
    <3>1. 1 \in 1..m /\ 2 \in 1..m /\ 3 \in 1..m /\ n + (1 - 1) = n /\ 2 - 1 = 1 /\ 3 - 1 = 2
      BY <1>8, <2>4
    <3>2. U(n + 1) = U(n + (1 - 1)) + W(1) /\ W(1) \in Int
      BY <1>5, <3>1
    <3>3. U(n + 2) = U(n + (2 - 1)) + W(2) /\ W(2) \in Int
      BY <1>5, <3>1
    <3>4. U(n + 3) = U(n + (3 - 1)) + W(3) /\ W(3) \in Int
      BY <1>5, <3>1
    <3>5. RhsWorth(kind, r, v) = W(1) + W(2) + W(3)
      BY <1>6, <2>4
    <3> DEFINE a == W(1)
               b == W(2)
               c == W(3)
               u == U(n)
    <3>6. U(n + 3) = u + a + b + c /\ a \in Int /\ b \in Int /\ c \in Int /\ u \in Int
      BY <1>7, <3>1, <3>2, <3>3, <3>4
    <3>7. RhsWorth(kind, r, v) = a + b + c /\ U(n + m) = U(n + 3)
      BY <2>4, <3>5
    <3>8. U(n) = u
      OBVIOUS
    <3> HIDE DEF a, b, c, u
    <3> QED BY <3>6, <3>7, <3>8
  <2> QED BY <1>1, <2>1, <2>2, <2>3, <2>4
<1> QED BY <1>4, <1>9 DEF U, r, v

(***************************************************************************)
(* The books balance from the first step of a call to the last.            *)
(***************************************************************************)
LEMMA StackedIsInt ==
  ASSUME StackInv, ValuesInv, NEW kind \in Kinds
  PROVE  Stacked(kind) \in Int /\ Result(kind) \in Int /\ Ahead(kind) \in Int
<1> DEFINE m == Len(yyss)
           n == m - 1
<1>1. n \in Nat /\ m = n + 1
  BY LegalTop DEF StackInv, Legal
<1>2. \A k \in 1..m : Fits(Symbol(yyss[k]), yyvs[k])
  BY DEF ValuesInv
<1>3. Stacked(kind) = Upto(kind, yyss, yyvs, m)
  BY DEF Stacked
<1> HIDE DEF n, m
<1>4. /\ Upto(kind, yyss, yyvs, n) \in Int
      /\ Worth(kind, Symbol(yyss[m]), yyvs[m]) \in Int
      /\ Upto(kind, yyss, yyvs, m)
           = Upto(kind, yyss, yyvs, n) + Worth(kind, Symbol(yyss[m]), yyvs[m])
  BY <1>1, <1>2, UptoNext
<1>5. Result(kind) \in Int /\ Ahead(kind) \in Int
  BY DEF Result, Ahead
<1> QED BY <1>3, <1>4, <1>5

(* A token is worth a block if it is a syllable.                           *)
LEMMA TokenWorth ==
  ASSUME NEW x \in 0..18, NEW v, NEW kind \in Kinds
  PROVE  Worth(kind, x, v) = IF kind = "syllable" /\ x = 3 THEN 1 ELSE 0
<1>1. x \in 0..25
  OBVIOUS
<1>2. /\ Worth("syllable", x, v) = IF x = 3 THEN 1 ELSE 0
      /\ Worth("task", x, v) = 0 /\ Worth("arg", x, v) = 0
      /\ Worth("redirect", x, v) = 0 /\ Worth("result", x, v) = 0
  BY <1>1, WorthOf
<1> QED BY <1>2 DEF Kinds

(* The list that the parser accepts is all that is left of the stack.       *)
LEMMA AcceptedWorth ==
  ASSUME StackInv, ValuesInv, ListInv, yystate = YYFINAL, NEW kind \in Kinds
  PROVE  Stacked(kind) + Ahead(kind) = Worth(kind, 20, tasks)
<1>1. Len(yyss) = 3 /\ yyss[1] = 0 /\ yyss[2] = 3 /\ yyss[3] = YYFINAL
  BY WholeList
<1>2. yyvs[2] = tasks /\ Ahead(kind) = 0
  <2>1. 2 \in 1..Len(yyss) /\ yyss[Len(yyss)] = YYFINAL
    BY <1>1
  <2>2. yyvs[2] = tasks /\ yychar = YYEMPTY
    BY <1>1, <2>1 DEF ListInv
  <2> QED BY <2>2 DEF Ahead, YYEMPTY, SYLLABLE
<1>3. \A k \in 1..3 : Fits(Symbol(yyss[k]), yyvs[k])
  BY <1>1 DEF ValuesInv
<1> DEFINE U(k) == Upto(kind, yyss, yyvs, k)
           W(k) == Worth(kind, Symbol(yyss[k]), yyvs[k])
<1>4. Stacked(kind) = U(3)
  BY <1>1 DEF Stacked
<1>5. U(0) = 0
  BY UptoNone
<1>6. U(1) = U(0) + W(1) /\ W(1) = 0
  <2>1. \A k \in 1..1 : Fits(Symbol(yyss[k]), yyvs[k])
    BY <1>3
  <2>2. U(1) = U(0) + W(1)
    <3>1. 0 \in Nat /\ 1 = 0 + 1
      OBVIOUS
    <3> QED BY <2>1, <3>1, UptoNext
  <2>3. Symbol(yyss[1]) = 0 /\ 0 \in 0..18
    BY <1>1, StatesOfAList
  <2>4. W(1) = 0
    BY <2>3, TokenWorth
  <2> QED BY <2>2, <2>4
<1>7. U(2) = U(1) + W(2) /\ W(2) = Worth(kind, 20, tasks) /\ W(2) \in Int
  <2>1. \A k \in 1..2 : Fits(Symbol(yyss[k]), yyvs[k])
    BY <1>3
  <2>2. U(2) = U(1) + W(2) /\ W(2) \in Int
    <3>1. 1 \in Nat /\ 2 = 1 + 1
      OBVIOUS
    <3> QED BY <2>1, <3>1, UptoNext
  <2>3. W(2) = Worth(kind, 20, tasks)
    BY <1>1, <1>2, StatesOfAList
  <2> QED BY <2>2, <2>3
<1>8. U(3) = U(2) + W(3) /\ W(3) = 0
  <2>2. U(3) = U(2) + W(3)
    <3>1. 2 \in Nat /\ 3 = 2 + 1
      OBVIOUS
    <3> QED BY <1>3, <3>1, UptoNext
  <2>3. Symbol(yyss[3]) = 0 /\ 0 \in 0..18
    BY <1>1, StatesOfAList
  <2>4. W(3) = 0
    BY <2>3, TokenWorth
  <2> QED BY <2>2, <2>4
<1> HIDE DEF U, W
<1> QED BY <1>2, <1>4, <1>5, <1>6, <1>7, <1>8

(* What happens around the parser.                                         *)
LEMMA ParserKept ==
  ASSUME BooksInv, UNCHANGED <<pvars, blocks>>, CallInv',
         \A c \in {"start", "returned"} : (call = c) = (call' = c)
  PROVE  BooksInv'
<1>1. ListInv'
  BY DEF BooksInv, pvars, stacks, ListInv
<1>2. ASSUME NEW kind
      PROVE  /\ Result(kind)' = Result(kind) /\ Stacked(kind)' = Stacked(kind)
             /\ Ahead(kind)' = Ahead(kind)
  BY DEF Result, Stacked, Upto, Ahead, pvars, stacks
<1>3. StackBalance'
  <2>1. Parsing' = Parsing /\ yystate' = yystate
    BY DEF Parsing, pvars, stacks, yystate, Last
  <2> QED BY <1>2, <2>1 DEF BooksInv, StackBalance
<1>4. ListBalance'
  BY <1>2 DEF BooksInv, ListBalance, pvars
<1>5. NoneLeft'
  BY DEF BooksInv, ListBalance, NoneLeft, pvars
<1> QED BY <1>1, <1>3, <1>4, <1>5 DEF BooksInv

LEMMA InitBooks ==
  ASSUME Init
  PROVE  BooksInv
<1>1. /\ yyss = <<0>> /\ yyvs = <<NoValue>> /\ yychar = YYEMPTY /\ yyresult = -1
      /\ call = "start" /\ blocks = [k \in Kinds |-> 0]
  BY DEF Init, PInit, ParserIdle
<1>2. Len(yyss) = 1 /\ yyss[1] = 0 /\ yyvs[1] = NoValue
  BY <1>1
<1>3. ListInv
  BY <1>1, <1>2 DEF ListInv, YYFINAL
<1>4. CallInv /\ ListBalance /\ NoneLeft
  BY <1>1 DEF CallInv, ListBalance, NoneLeft
<1>5. ASSUME NEW kind \in Kinds PROVE blocks[kind] = Result(kind) + Stacked(kind) + Ahead(kind)
  <2>1. Symbol(yyss[1]) = 0 /\ 0 \in 0..18
    BY <1>2, StatesOfAList
  <2>2. \A k \in 1..1 : Fits(Symbol(yyss[k]), yyvs[k])
    BY <2>1 DEF Fits
  <2>3. Upto(kind, yyss, yyvs, 1) = Upto(kind, yyss, yyvs, 0) + Worth(kind, Symbol(yyss[1]), yyvs[1])
    <3>1. 0 \in Nat /\ 1 = 0 + 1
      OBVIOUS
    <3> QED BY <2>2, <3>1, UptoNext
  <2>4. Upto(kind, yyss, yyvs, 0) = 0
    BY UptoNone
  <2>5. Worth(kind, Symbol(yyss[1]), yyvs[1]) = 0
    BY <2>1, TokenWorth
  <2>6. Stacked(kind) = 0
    <3>1. Stacked(kind) = Upto(kind, yyss, yyvs, 1)
      BY <1>2 DEF Stacked
    <3> QED BY <2>3, <2>4, <2>5, <3>1
  <2>7. Result(kind) = 0 /\ Ahead(kind) = 0 /\ blocks[kind] = 0
    BY <1>1 DEF Result, Ahead, YYEMPTY, SYLLABLE
  <2> QED BY <2>6, <2>7
<1>6. StackBalance
  BY <1>5 DEF StackBalance
<1> QED BY <1>3, <1>4, <1>6 DEF BooksInv

LEMMA StartBooks ==
  ASSUME StackInv, ValuesInv, BooksInv, Start \/ StartFails
  PROVE  BooksInv'
<1>1. /\ call = "start" /\ UNCHANGED pvars /\ Count([result |-> 1])
      /\ call' \in {"scan", "returned"}
  BY DEF Start, StartFails
<1>2. yyresult # 0 /\ yyresult' # 0
  BY <1>1 DEF BooksInv, CallInv, pvars
<1>3. ListInv'
  BY <1>1 DEF BooksInv, pvars, stacks, ListInv
<1>4. CallInv' /\ ListBalance' /\ NoneLeft'
  BY <1>1, <1>2 DEF CallInv, ListBalance, NoneLeft
<1>5. ASSUME Parsing, yystate # 1, NEW kind \in Kinds
      PROVE  blocks'[kind] = Result(kind)' + Stacked(kind)' + Ahead(kind)'
  <2>1. blocks[kind] = Result(kind) + Stacked(kind) + Ahead(kind)
    BY <1>5 DEF BooksInv, StackBalance
  <2>2. Result(kind) \in Int /\ Stacked(kind) \in Int /\ Ahead(kind) \in Int
    BY StackedIsInt
  <2>3. Stacked(kind)' = Stacked(kind) /\ Ahead(kind)' = Ahead(kind)
    BY <1>1 DEF Stacked, Upto, Ahead, pvars, stacks
  <2>4. Result(kind) = 0 /\ Result(kind)' = IF kind = "result" THEN 1 ELSE 0
    BY <1>1 DEF Result
  <2>5. blocks'[kind] = IF kind = "result" THEN blocks[kind] + 1 ELSE blocks[kind]
    BY <1>1 DEF Count
  <2> QED BY <2>1, <2>2, <2>3, <2>4, <2>5
<1>6. Parsing' = Parsing /\ yystate' = yystate
  BY <1>1 DEF Parsing, pvars, stacks, yystate, Last
<1>7. StackBalance'
  BY <1>5, <1>6 DEF StackBalance
<1> QED BY <1>3, <1>4, <1>7 DEF BooksInv

(* A syllable that yylex returns is the lookahead's.                        *)
LEMMA TokenBooks ==
  ASSUME StackInv, ValuesInv, NoResultYet, BooksInv, YylexReturns
  PROVE  BooksInv'
<1>1. /\ call = "lex" /\ call' = "parse" /\ WantsToken
      /\ yychar' = IF token' <= YYEOF THEN YYEOF ELSE token'
      /\ UNCHANGED <<pat, stacks, tasks, yyresult>>
      /\ Count([syllable |-> IF token' = SYLLABLE THEN 1 ELSE 0])
  BY DEF YylexReturns, ReadToken
<1>2. pat = "backup" /\ yychar = YYEMPTY /\ yystate # YYFINAL /\ yyresult = -1 /\ yyresult' = -1
  BY <1>1 DEF WantsToken, StackInv, NoResultYet
<1>3. ListInv'
  <2>1. yyss[Len(yyss)] # YYFINAL
    BY <1>2, WholeList
  <2> QED BY <1>1, <2>1 DEF BooksInv, ListInv, stacks
<1>4. CallInv' /\ ListBalance' /\ NoneLeft'
  BY <1>1, <1>2 DEF CallInv, ListBalance, NoneLeft
<1>5. ASSUME Parsing, yystate # 1, NEW kind \in Kinds
      PROVE  blocks'[kind] = Result(kind)' + Stacked(kind)' + Ahead(kind)'
  <2>1. blocks[kind] = Result(kind) + Stacked(kind) + Ahead(kind)
    BY <1>5 DEF BooksInv, StackBalance
  <2>2. Result(kind) \in Int /\ Stacked(kind) \in Int /\ Ahead(kind) \in Int
    BY StackedIsInt
  <2>3. Stacked(kind)' = Stacked(kind) /\ Result(kind)' = Result(kind)
    BY <1>1 DEF Stacked, Upto, Result, stacks
  <2>4. Ahead(kind) = 0
    BY <1>2 DEF Ahead, YYEMPTY, SYLLABLE
  <2>5. Ahead(kind)' = IF kind = "syllable" /\ token' = SYLLABLE THEN 1 ELSE 0
    BY <1>1 DEF Ahead, SYLLABLE, YYEOF
  <2>6. blocks'[kind] = IF kind = "syllable" /\ token' = SYLLABLE THEN blocks[kind] + 1
                                                                  ELSE blocks[kind]
    <3>1. blocks[kind] + 0 = blocks[kind]
      BY <2>1, <2>2
    <3> DEFINE d == [syllable |-> IF token' = SYLLABLE THEN 1 ELSE 0]
    <3>2. DOMAIN d = {"syllable"} /\ d["syllable"] = IF token' = SYLLABLE THEN 1 ELSE 0
      OBVIOUS
    <3>3. blocks'[kind] = IF kind \in DOMAIN d THEN blocks[kind] + d[kind] ELSE blocks[kind]
      BY <1>1 DEF Count
    <3> HIDE DEF d
    <3> QED BY <3>1, <3>2, <3>3
  <2> QED BY <2>1, <2>2, <2>3, <2>4, <2>5, <2>6
<1>6. Parsing' = Parsing /\ yystate' = yystate
  BY <1>1 DEF Parsing, stacks, yystate, Last
<1>7. StackBalance'
  BY <1>5, <1>6 DEF StackBalance
<1> QED BY <1>3, <1>4, <1>7 DEF BooksInv

LEMMA RefuseBooks ==
  ASSUME BooksInv, Refuse
  PROVE  BooksInv'
<1>1. /\ pat = "returned" /\ pat' = "returned" /\ yyresult # 0 /\ yyresult' # 0
      /\ UNCHANGED pvars /\ call' = "returned"
  BY DEF Refuse, pvars
<1>2. ListInv'
  BY <1>1 DEF BooksInv, pvars, stacks, ListInv
<1>3. CallInv' /\ StackBalance' /\ ListBalance' /\ NoneLeft'
  BY <1>1 DEF CallInv, StackBalance, ListBalance, NoneLeft, Parsing
<1> QED BY <1>2, <1>3 DEF BooksInv

(* The list accounts for every block, so freeing it leaves none.            *)
LEMMA FreeBooks ==
  ASSUME ValuesInv, NoResultYet, BooksInv, FreeAll
  PROVE  BooksInv'
<1>1. call = "ran" /\ call' = "returned" /\ UNCHANGED <<svars, pvars>>
  BY DEF FreeAll
<1>2. yyresult = 0 /\ yyresult' = 0 /\ at = "done" /\ at' = "done"
  BY <1>1 DEF BooksInv, CallInv, pvars, svars
<1>3. ListInv'
  BY <1>1 DEF BooksInv, pvars, stacks, ListInv
<1>4. CallInv' /\ ListBalance'
  BY <1>1, <1>2 DEF CallInv, ListBalance
<1>5. IsTaskList(tasks)
  BY <1>2 DEF ValuesInv
<1> DEFINE t == Len(tasks)
           a == SumOf(ArgsIn(tasks))
           r == SumOf(RedirectsIn(tasks))
           d == [result |-> -1, task |-> -t, arg |-> -a, redirect |-> -r]
<1>6. t \in Int /\ a \in Int /\ r \in Int
  BY <1>5, CountsAre
<1>7. /\ Worth("syllable", 20, tasks) = 0 /\ Worth("task", 20, tasks) = t
      /\ Worth("arg", 20, tasks) = a /\ Worth("redirect", 20, tasks) = r
      /\ Worth("result", 20, tasks) = 0
  <2>1. 20 \in 0..25
    OBVIOUS
  <2> QED BY <2>1, WorthOf
<1>8. Count(d)
  BY DEF FreeAll, ArgsIn, RedirectsIn
<1> HIDE DEF t, a, r
<1>9. /\ "result" \in DOMAIN d /\ "task" \in DOMAIN d /\ "arg" \in DOMAIN d
      /\ "redirect" \in DOMAIN d /\ "syllable" \notin DOMAIN d
      /\ d["result"] = -1 /\ d["task"] = -t /\ d["arg"] = -a /\ d["redirect"] = -r
  OBVIOUS
<1> HIDE DEF d
<1>10. \A kind \in Kinds : blocks[kind] = Result(kind) + Worth(kind, 20, tasks)
  BY <1>1, <1>2 DEF BooksInv, ListBalance
<1>11. ASSUME NEW kind \in Kinds PROVE blocks'[kind] = 0
  <2>1. blocks'[kind] = IF kind \in DOMAIN d THEN blocks[kind] + d[kind] ELSE blocks[kind]
    BY <1>8 DEF Count
  <2>2. Result(kind) = IF kind = "result" THEN 1 ELSE 0
    BY <1>1 DEF Result
  <2>3. kind \in {"result", "syllable", "task", "arg", "redirect"}
    BY DEF Kinds
  <2> QED BY <1>6, <1>7, <1>9, <1>10, <2>1, <2>2, <2>3
<1>12. NoneLeft'
  BY <1>11 DEF NoneLeft
<1>13. StackBalance'
  <2>1. pat' = "returned"
    BY <1>1, <1>2 DEF NoResultYet, pvars
  <2> QED BY <2>1 DEF StackBalance, Parsing
<1> QED BY <1>3, <1>4, <1>12, <1>13 DEF BooksInv

(* What the steps of the parser do.                                        *)
LEMMA NoDelta ==
  ASSUME NEW rule, NEW v, NEW kind
  PROVE  /\ rule \in {2, 3, 4, 5, 8, 9, 10, 20, 21, 23, 24} => Delta(kind, rule, v) = 0
         /\ rule = 6 => /\ Delta("redirect", rule, v) = 2
                        /\ kind # "redirect" => Delta(kind, rule, v) = 0
<1>1. rule \in {2, 3, 4, 5, 8, 9, 10, 20, 21, 23, 24} => Delta(kind, rule, v) = 0
  BY Deltas
<1>2. rule = 6 => Delta("redirect", rule, v) = 2
  BY Deltas
<1>3. rule = 6 => (kind # "redirect" => Delta(kind, rule, v) = 0)
  BY Deltas
<1> QED BY <1>1, <1>2, <1>3

LEMMA DeltaIsInt ==
  ASSUME NEW rule \in 2..24, rule # 22, NEW v, NEW kind \in Kinds,
         \A k \in 1..Length(rule) : Fits(RightHandSide[rule][k], v[k])
  PROVE  Delta(kind, rule, v) \in Int
<1>0. /\ rule \in {2, 3, 4, 5, 8, 9, 10, 20, 21, 23, 24} => Delta(kind, rule, v) = 0
      /\ rule = 6 => /\ Delta("redirect", rule, v) = 2
                     /\ kind # "redirect" => Delta(kind, rule, v) = 0
  BY NoDelta
<1>1. CASE rule \in {2, 3, 4, 5, 8, 9, 10, 20, 21, 23, 24}
  <2>1. Delta(kind, rule, v) = 0
    BY <1>0, <1>1
  <2> QED BY <2>1
<1>2. CASE rule = 6 \/ rule \in {14, 15}
  <2>1. /\ Delta("redirect", rule, v) \in {1, 2}
        /\ kind # "redirect" => Delta(kind, rule, v) = 0
    <3>1. CASE rule = 6
      BY <1>0, <3>1
    <3>2. CASE rule \in {14, 15}
      <4>1. /\ Delta("redirect", rule, v) = 1
            /\ \A other : other # "redirect" => Delta(other, rule, v) = 0
        BY <3>2, Deltas
      <4> QED BY <4>1
    <3> QED BY <1>2, <3>1, <3>2
  <2>2. CASE kind = "redirect"
    BY <2>1, <2>2
  <2>3. CASE kind # "redirect"
    BY <2>1, <2>3
  <2> QED BY <2>2, <2>3
<1>3. CASE rule = 7
  <2>1. AreWords(v[1])
    <3>1. 1 \in 1..Length(rule) /\ RightHandSide[rule][1] = 24
      BY <1>3, Sides DEF Length, At, yyr2
    <3> QED BY <3>1 DEF Fits
  <2> DEFINE n == Len(v[1])
             s == SyllablesIn(v[1])
  <2>2. n \in Int /\ s \in Int
    BY <2>1, SeqFacts, LengthsAre DEF AreWords
  <2>3. /\ Delta("task", rule, v) = 1 /\ Delta("arg", rule, v) = n
        /\ Delta("syllable", rule, v) = -s
        /\ Delta("redirect", rule, v) = 0 /\ Delta("result", rule, v) = 0
    BY <1>3, Deltas
  <2> HIDE DEF n, s
  <2> QED BY <2>2, <2>3 DEF Kinds
<1>4. CASE rule \in {11, 12, 13, 16, 17, 18, 19}
  <2>1. IsSeq(v[2])
    <3>1. 2 \in 1..Length(rule)
      BY <1>4 DEF Length, At, yyr2
    <3>2. RightHandSide[rule][2] = 25
      BY <1>4, Sides
    <3> QED BY <3>1, <3>2 DEF Fits
  <2> DEFINE n == Len(v[2])
             m == Len(Redirects(rule, NoFile))
  <2>2. n \in Int /\ m \in Int
    <3>1. IsSeq(Redirects(rule, NoFile))
      <4>1. rule \in RedirectRules
        BY <1>4 DEF RedirectRules
      <4> QED BY <4>1, RedirectsAreOwn DEF AreOwn
    <3> QED BY <2>1, <3>1, SeqFacts
  <2>3. /\ Delta("redirect", rule, v) = m /\ Delta("syllable", rule, v) = -n
        /\ \A other : other \notin {"redirect", "syllable"} => Delta(other, rule, v) = 0
    BY <1>4, Deltas
  <2> HIDE DEF n, m
  <2>4. CASE kind = "redirect"
    BY <2>2, <2>3, <2>4
  <2>5. CASE kind = "syllable"
    BY <2>2, <2>3, <2>5
  <2>6. CASE kind \notin {"redirect", "syllable"}
    <3>1. Delta(kind, rule, v) = 0
      BY <2>3, <2>6
    <3> QED BY <3>1
  <2> QED BY <2>4, <2>5, <2>6
<1> QED BY <1>1, <1>2, <1>3, <1>4

(* In state 1 the parser can only give up.                                 *)
LEMMA NotInError ==
  ASSUME Ready, NeedsToken(yystate) \/ Action[1] # "reduce" \/ Action[2] # 22
  PROVE  yystate # 1
<1> SUFFICES ASSUME yystate = 1 PROVE FALSE
  OBVIOUS
<1>1. ~NeedsToken(yystate) /\ DefaultAction(yystate) = <<"reduce", 22>>
  BY StatesOfAList
<1>2. Action = <<"reduce", 22>>
  BY <1>1 DEF Action
<1> QED BY <1>1, <1>2

LEMMA ShiftFacts ==
  ASSUME StackInv, Shift
  PROVE  /\ Ready /\ NeedsToken(yystate) /\ yystate = yyss[Len(yyss)]
         /\ Action[2] \in ParseStates /\ Symbol(Action[2]) = YYTRANSLATE(yychar)
<1>1. yystate = yyss[Len(yyss)] /\ yystate \in ParseStates
  BY WholeList
<1>2. YYTRANSLATE(yychar) \in 0..18
  BY SymbolOfToken
<1>3. Ready /\ Action[1] = "shift"
  BY DEF Shift
<1>4. /\ NeedsToken(yystate) /\ Entry(yystate, YYTRANSLATE(yychar)) > 0
      /\ Action = <<"shift", Entry(yystate, YYTRANSLATE(yychar))>>
  BY <1>3 DEF Action, ParseAction, DefaultAction
<1> QED BY <1>1, <1>2, <1>3, <1>4, ShiftEdge

LEMMA ShiftBooks ==
  ASSUME StackInv, ValuesInv, NoResultYet, BooksInv, call = "parse", call' = "parse",
         Shift, UNCHANGED blocks
  PROVE  BooksInv'
<1> DEFINE n == Len(yyss)
           s == Action[2]
<1>1. /\ Ready /\ NeedsToken(yystate) /\ yystate = yyss[n]
      /\ s \in ParseStates /\ Symbol(s) = YYTRANSLATE(yychar)
  BY ShiftFacts
<1>2. /\ yyss' = Append(yyss, s) /\ yyvs' = Append(yyvs, lookahead) /\ yychar' = YYEMPTY
      /\ pat' = "setstate" /\ UNCHANGED <<tasks, yyresult>>
  BY DEF Shift
<1>3. yystate # 1 /\ pat = "backup" /\ yyresult = -1 /\ yyresult' = -1
  BY <1>1, <1>2, NotInError DEF Ready, NoResultYet
<1>4. Symbol(s) \in 0..18 /\ Fits(Symbol(s), lookahead)
  BY <1>1, SymbolOfToken, TokensFit
<1>5. n \in 1..Len(yyss) /\ n \in Nat
  BY LegalTop DEF StackInv, Legal
<1>6. yyss' = Append(SubSeq(yyss, 1, n), s) /\ yyvs' = Append(SubSeq(yyvs, 1, n), lookahead)
  <2>1. SubSeq(yyss, 1, n) = yyss
    BY WholePrefix DEF StackInv, Legal
  <2>2. SubSeq(yyvs, 1, n) = yyvs
    <3>1. PICK S : yyvs \in Seq(S) /\ Len(yyvs) = n
      BY DEF StackInv
    <3> QED BY <3>1, WholePrefix
  <2> QED BY <1>2, <2>1, <2>2
<1> HIDE DEF n, s
<1>7. ASSUME NEW kind \in Kinds
      PROVE  /\ Stacked(kind)' = Upto(kind, yyss, yyvs, n) + Worth(kind, Symbol(s), lookahead)
             /\ Upto(kind, yyss, yyvs, n) \in Int
             /\ Len(yyss') = n + 1 /\ yyss'[n + 1] = s
             /\ \A k \in 1..n : yyss'[k] = yyss[k] /\ yyvs'[k] = yyvs[k]
  BY <1>4, <1>5, <1>6, PushWorth
<1>8. /\ Len(yyss') = n + 1 /\ yyss'[n + 1] = s
      /\ \A k \in 1..n : yyss'[k] = yyss[k] /\ yyvs'[k] = yyvs[k]
  <2>1. "task" \in Kinds
    BY DEF Kinds
  <2> QED BY <1>7, <2>1
<1>9. ListInv'
  <2>1. s # 3
    BY <1>4, StatesOfAList
  <2>2. ASSUME NEW k \in 1..Len(yyss'), yyss'[k] = 3 PROVE yyvs'[k] = tasks'
    <3>1. k \in 1..n
      BY <1>5, <1>8, <2>1, <2>2
    <3>2. k \in 1..Len(yyss) /\ yyss[k] = 3
      BY <1>8, <2>2, <3>1 DEF n
    <3>3. yyvs[k] = tasks
      BY <3>2 DEF BooksInv, ListInv
    <3> QED BY <1>2, <1>8, <3>1, <3>3
  <2> QED BY <1>2, <2>2 DEF ListInv
<1>10. CallInv' /\ ListBalance' /\ NoneLeft'
  BY <1>3 DEF CallInv, ListBalance, NoneLeft
<1>11. ASSUME NEW kind \in Kinds
       PROVE  blocks'[kind] = Result(kind)' + Stacked(kind)' + Ahead(kind)'
  <2>1. blocks[kind] = Result(kind) + Stacked(kind) + Ahead(kind)
    BY <1>3 DEF BooksInv, StackBalance, Parsing
  <2>2. Result(kind) \in Int /\ Result(kind)' = Result(kind)
    BY StackedIsInt DEF Result
  <2>3. Stacked(kind) = Upto(kind, yyss, yyvs, n)
    BY DEF Stacked, n
  <2>4. Worth(kind, Symbol(s), lookahead) = Ahead(kind) /\ Ahead(kind) \in {0, 1}
    <3>1. Symbol(s) = 3 <=> yychar = SYLLABLE
      BY <1>1 DEF YYTRANSLATE, SYLLABLE, YYTERROR, YYMAXUTOK, YYUNDEFTOK
    <3>2. Worth(kind, Symbol(s), lookahead) = IF kind = "syllable" /\ Symbol(s) = 3 THEN 1 ELSE 0
      BY <1>4, TokenWorth
    <3> QED BY <3>1, <3>2 DEF Ahead
  <2>5. Ahead(kind)' = 0
    BY <1>2 DEF Ahead, YYEMPTY, SYLLABLE
  <2>6. Stacked(kind)' = Upto(kind, yyss, yyvs, n) + Ahead(kind) /\ Upto(kind, yyss, yyvs, n) \in Int
    BY <1>7, <2>4
  <2> QED BY <2>1, <2>2, <2>3, <2>4, <2>5, <2>6
<1>12. StackBalance'
  BY <1>11 DEF StackBalance
<1> QED BY <1>9, <1>10, <1>12 DEF BooksInv

LEMMA ReduceBooks ==
  ASSUME StackInv, ValuesInv, NoResultYet, BooksInv, call = "parse", call' = "parse",
         Reduce, Count(Allocated(Action[2], TopOf(yyvs, Action[2])))
  PROVE  BooksInv'
<1> DEFINE r == Action[2]
           v == TopOf(yyvs, r)
           n == Len(yyss) - Length(r)
           s == GotoState(yyss[n], Lhs(r))
           value == Value(r, v)
<1>1. /\ Ready /\ Action[1] = "reduce" /\ r # 22 /\ n \in 1..Len(yyss)
      /\ Follows(yyss[n], Lhs(r))
      /\ yyss' = Append(SubSeq(yyss, 1, n), s) /\ yyvs' = Append(SubSeq(yyvs, 1, n), value)
  BY ReducePushes
<1>2. /\ r \in 2..24 /\ Len(yyss) \in Nat
      /\ \A k \in 1..Length(r) : Fits(RightHandSide[r][k], v[k])
  <2>1. r \in 2..24
    BY <1>1, TopValues
  <2> QED BY <1>1, <2>1, TopFits, LegalTop DEF StackInv
<1>3. s \in ParseStates /\ Symbol(s) = Lhs(r) /\ Fits(Symbol(s), value)
  BY <1>1, <1>2, ValueFits DEF Follows
<1>4. Balances(r, v)
  BY <1>1, <1>2, RuleBalances
<1>5. yystate # 1 /\ pat = "backup" /\ yyresult = -1
  BY <1>1, NotInError DEF Ready, NoResultYet
<1>6. /\ UNCHANGED <<yychar, yyresult>>
      /\ tasks' = IF r \in 2..6 THEN value ELSE tasks
  BY DEF Reduce
<1>7. yystate # YYFINAL /\ yystate # 3
  <2>1. yystate # YYFINAL /\ r = At(yydefact, yystate) /\ r > 0
    BY <1>1, RuleOfState
  <2> QED BY <2>1, StatesOfAList
<1>8. \A k \in 1..Len(yyss) : yyss[k] # 3
  BY <1>7, WholeList
<1>9. Lhs(r) \in 20..25 /\ (Lhs(r) = 20 => r \in 2..6)
  <2>1. \A x \in 2..24 : Lhs(x) \in 20..25 /\ (Lhs(x) = 20 => x \in 2..6)
    BY DEF Lhs, At, yyr1
  <2> QED BY <1>1, <1>2, <2>1
<1>10. ASSUME NEW kind \in Kinds
       PROVE  /\ Stacked(kind) = Upto(kind, yyss, yyvs, n) + RhsWorth(kind, r, v)
              /\ RhsWorth(kind, r, v) \in Int /\ Delta(kind, r, v) \in Int
              /\ Worth(kind, Lhs(r), value) = RhsWorth(kind, r, v) + Delta(kind, r, v)
  <2>1. /\ Stacked(kind) = Upto(kind, yyss, yyvs, n) + RhsWorth(kind, r, v)
        /\ RhsWorth(kind, r, v) \in Int
    BY <1>1, PopWorth
  <2>2. Delta(kind, r, v) \in Int
    BY <1>1, <1>2, DeltaIsInt
  <2> QED BY <1>4, <2>1, <2>2 DEF Balances
<1>11. ASSUME NEW kind \in Kinds, blocks[kind] \in Int
       PROVE  blocks'[kind] = blocks[kind] + Delta(kind, r, v)
  BY <1>11 DEF Count, Delta
<1> HIDE DEF r, v, n, s, value
<1>12. ASSUME NEW kind \in Kinds
       PROVE  /\ Stacked(kind)' = Upto(kind, yyss, yyvs, n) + Worth(kind, Symbol(s), value)
              /\ Upto(kind, yyss, yyvs, n) \in Int
              /\ Len(yyss') = n + 1 /\ yyss'[n + 1] = s /\ yyvs'[n + 1] = value
              /\ \A k \in 1..n : yyss'[k] = yyss[k] /\ yyvs'[k] = yyvs[k]
  BY <1>1, <1>3, PushWorth
<1>13. /\ Len(yyss') = n + 1 /\ yyss'[n + 1] = s /\ yyvs'[n + 1] = value
       /\ \A k \in 1..n : yyss'[k] = yyss[k] /\ yyvs'[k] = yyvs[k]
  <2>1. "task" \in Kinds
    BY DEF Kinds
  <2> QED BY <1>12, <2>1
<1>14. ListInv'
  <2>1. ASSUME NEW k \in 1..Len(yyss'), yyss'[k] = 3 PROVE yyvs'[k] = tasks'
    <3>1. k = n + 1
      <4> SUFFICES ASSUME k # n + 1 PROVE FALSE
        OBVIOUS
      <4>1. k \in 1..n /\ k \in 1..Len(yyss)
        BY <1>1, <1>2, <1>13
      <4> QED BY <1>8, <1>13, <2>1, <4>1
    <3>2. r \in 2..6
      BY <1>3, <1>9, <1>13, <2>1, <3>1, StatesOfAList
    <3> QED BY <1>6, <1>13, <3>1, <3>2
  <2>2. s # YYFINAL
    <3>1. Symbol(s) # 0
      BY <1>3, <1>9
    <3> QED BY <3>1, StatesOfAList
  <2> QED BY <1>13, <2>1, <2>2 DEF ListInv
<1>15. CallInv' /\ ListBalance' /\ NoneLeft'
  BY <1>5, <1>6 DEF CallInv, ListBalance, NoneLeft
<1>16. ASSUME NEW kind \in Kinds
       PROVE  blocks'[kind] = Result(kind)' + Stacked(kind)' + Ahead(kind)'
  <2>1. blocks[kind] = Result(kind) + Stacked(kind) + Ahead(kind)
    BY <1>5 DEF BooksInv, StackBalance, Parsing
  <2>2. /\ Result(kind) \in Int /\ Ahead(kind) \in Int /\ Stacked(kind) \in Int
        /\ Result(kind)' = Result(kind) /\ Ahead(kind)' = Ahead(kind)
    BY <1>6, StackedIsInt DEF Result, Ahead
  <2>3. blocks'[kind] = blocks[kind] + Delta(kind, r, v)
    BY <1>11, <2>1, <2>2
  <2>4. Stacked(kind)' = Upto(kind, yyss, yyvs, n) + (RhsWorth(kind, r, v) + Delta(kind, r, v))
        /\ Upto(kind, yyss, yyvs, n) \in Int
    BY <1>3, <1>10, <1>12
  <2> QED BY <1>10, <2>1, <2>2, <2>3, <2>4
<1>17. StackBalance'
  BY <1>16 DEF StackBalance
<1> QED BY <1>14, <1>15, <1>17 DEF BooksInv

(* After an error the parser is in state 1, whose only way out is YYABORT.  *)
LEMMA ErrorBooks ==
  ASSUME StackInv, ValuesInv, NoResultYet, BooksInv, call = "parse", call' = "parse",
         SyntaxError
  PROVE  BooksInv'
<1>1. /\ pat = "backup" /\ pat' = "setstate" /\ UNCHANGED <<tasks, yyresult>>
      /\ \E top \in DOMAIN yyss :
           /\ ShiftsError(yyss[top])
           /\ yyss' = Append(SubSeq(yyss, 1, top), Entry(yyss[top], YYTERROR))
           /\ yyvs' = Append(SubSeq(yyvs, 1, top), lookahead)
  BY DEF SyntaxError, Ready
<1>2. PICK n \in DOMAIN yyss :
        /\ ShiftsError(yyss[n])
        /\ yyss' = Append(SubSeq(yyss, 1, n), Entry(yyss[n], YYTERROR))
        /\ yyvs' = Append(SubSeq(yyvs, 1, n), lookahead)
  BY <1>1
<1> DEFINE s == Entry(yyss[n], YYTERROR)
<1>3. /\ IsSeq(yyss) /\ IsSeq(yyvs) /\ Len(yyss) = Len(yyvs) /\ Len(yyss) \in Nat
      /\ n \in 1..Len(yyss) /\ yyss[n] \in ParseStates
  BY LegalTop DEF StackInv, Legal, IsSeq
<1>4. s = 1
  <2>1. NeedsToken(yyss[n]) /\ s > 0
    BY <1>2 DEF ShiftsError
  <2>2. YYTERROR \in 0..18 /\ YYTERROR = 1
    BY DEF YYTERROR
  <2>3. s \in ParseStates /\ Symbol(s) = 1
    BY <1>3, <2>1, <2>2, ShiftEdge
  <2> QED BY <2>3, StatesOfAList
<1> HIDE DEF s
<1>5. /\ Len(yyss') = n + 1 /\ yyss'[n + 1] = 1
      /\ \A k \in 1..n : yyss'[k] = yyss[k] /\ yyvs'[k] = yyvs[k]
  <2>1. /\ yyss' = Append(SubSeq(yyss, 1, n), 1) /\ yyvs' = Append(SubSeq(yyvs, 1, n), lookahead)
    BY <1>2, <1>4 DEF s
  <2>2. Len(yyss') = n + 1 /\ yyss'[n + 1] = 1 /\ \A k \in 1..n : yyss'[k] = yyss[k]
    BY <1>3, <2>1, Pushed
  <2>3. \A k \in 1..n : yyvs'[k] = yyvs[k]
    BY <1>3, <2>1, Pushed
  <2> QED BY <2>2, <2>3
<1>6. ListInv'
  <2>1. ASSUME NEW k \in 1..Len(yyss'), yyss'[k] = 3 PROVE yyvs'[k] = tasks'
    <3>1. k \in 1..n /\ k \in 1..Len(yyss)
      BY <1>3, <1>5, <2>1
    <3>2. yyvs[k] = tasks
      BY <1>5, <2>1, <3>1 DEF BooksInv, ListInv
    <3> QED BY <1>1, <1>5, <3>1, <3>2
  <2>2. yyss'[Len(yyss')] # YYFINAL
    BY <1>5 DEF YYFINAL
  <2> QED BY <2>1, <2>2 DEF ListInv
<1>7. CallInv' /\ ListBalance' /\ NoneLeft'
  BY <1>1 DEF CallInv, ListBalance, NoneLeft, NoResultYet
<1>8. StackBalance'
  <2>1. yystate' = 1
    BY <1>5 DEF yystate, Last
  <2> QED BY <2>1 DEF StackBalance
<1> QED BY <1>6, <1>7, <1>8 DEF BooksInv

(* The result is there: the whole list, or nothing that is freed.           *)
LEMMA ReturnBooks ==
  ASSUME StackInv, ValuesInv, NoResultYet, BooksInv, call = "parse", call' = "parse",
         NEW result, ReturnWith(result), UNCHANGED <<yychar, tasks>>,
         result = 0 => Accept /\ UNCHANGED blocks
  PROVE  BooksInv'
<1>1. yyss' = <<0>> /\ yyresult' = result /\ pat' = "returned"
  BY DEF ReturnWith
<1>2. ListInv'
  BY <1>1 DEF ListInv, YYFINAL
<1>3. CallInv' /\ StackBalance' /\ NoneLeft'
  BY <1>1 DEF CallInv, StackBalance, NoneLeft, Parsing
<1>4. ListBalance'
  <2> SUFFICES ASSUME result = 0, NEW kind \in Kinds
               PROVE  blocks'[kind] = Result(kind)' + Worth(kind, 20, tasks')
    BY <1>1 DEF ListBalance
  <2>1. pat = "setstate" /\ yystate = YYFINAL /\ yystate # 1
    BY DEF Accept, YYFINAL
  <2>2. blocks[kind] = Result(kind) + Stacked(kind) + Ahead(kind)
    BY <2>1 DEF BooksInv, StackBalance, Parsing
  <2>3. Stacked(kind) + Ahead(kind) = Worth(kind, 20, tasks)
    BY <2>1, AcceptedWorth DEF BooksInv
  <2>4. Stacked(kind) \in Int /\ Result(kind) \in Int /\ Ahead(kind) \in Int
    BY StackedIsInt
  <2>5. Result(kind)' = Result(kind) /\ tasks' = tasks /\ blocks' = blocks
    BY DEF Result
  <2> QED BY <2>2, <2>3, <2>4, <2>5
<1> QED BY <1>2, <1>3, <1>4 DEF BooksInv

LEMMA ParseBooks ==
  ASSUME StackInv, ValuesInv, NoResultYet, BooksInv, Yyparse
  PROVE  BooksInv'
<1>1. /\ call = "parse" /\ Step /\ UNCHANGED svars
      /\ call' = IF pat' = "aborted" THEN "aborted" ELSE "parse"
      /\ IF Ready /\ Action[1] = "reduce"
         THEN Count(Allocated(Action[2], TopOf(yyvs, Action[2])))
         ELSE UNCHANGED blocks
  BY DEF Yyparse
<1>2. CASE SetState \/ (Grow /\ UNCHANGED <<pat, yyss, yyvs, yyresult>>)
  <2>1. /\ pat = "setstate" /\ pat' \in {"setstate", "backup"}
        /\ UNCHANGED <<yyss, yyvs, yychar, tasks, yyresult>>
    BY <1>2 DEF SetState, Grow, stacks
  <2>2. call' = "parse" /\ UNCHANGED blocks
    BY <1>1, <2>1 DEF Ready
  <2>3. ListInv'
    BY <2>1 DEF BooksInv, ListInv
  <2>4. yyresult' = -1
    BY <2>1 DEF NoResultYet
  <2>5. CallInv' /\ ListBalance' /\ NoneLeft'
    BY <2>2, <2>4 DEF CallInv, ListBalance, NoneLeft
  <2>6. ASSUME NEW kind
        PROVE  /\ Result(kind)' = Result(kind) /\ Stacked(kind)' = Stacked(kind)
               /\ Ahead(kind)' = Ahead(kind)
    BY <1>1, <2>1, <2>2 DEF Result, Stacked, Upto, Ahead
  <2>7. Parsing /\ yystate' = yystate
    BY <2>1 DEF Parsing, yystate, Last
  <2>8. StackBalance'
    BY <2>2, <2>6, <2>7 DEF BooksInv, StackBalance
  <2> QED BY <2>3, <2>5, <2>8 DEF BooksInv
<1>3. CASE Accept
  <2>1. pat = "setstate" /\ ReturnWith(0) /\ pat' = "returned" /\ UNCHANGED <<yychar, tasks>>
    BY <1>3 DEF Accept, ReturnWith
  <2>2. call' = "parse" /\ UNCHANGED blocks
    BY <1>1, <2>1 DEF Ready
  <2> QED BY <1>1, <1>3, <2>1, <2>2, ReturnBooks
<1>4. CASE Exhausted \/ Abort \/ (Grow /\ ReturnWith(1))
  <2>1. \E result \in {1, 2} : ReturnWith(result)
    BY <1>4 DEF Exhausted, Abort
  <2>2. UNCHANGED <<yychar, tasks>>
    BY <1>4 DEF Exhausted, Abort, Grow
  <2>3. PICK result \in {1, 2} : ReturnWith(result)
    BY <2>1
  <2>4. call' = "parse" /\ result # 0
    BY <1>1, <2>3 DEF ReturnWith
  <2> QED BY <1>1, <2>2, <2>3, <2>4, ReturnBooks
<1>5. CASE Shift
  <2>1. call' = "parse" /\ UNCHANGED blocks
    BY <1>1, <1>5 DEF Shift
  <2> QED BY <1>1, <1>5, <2>1, ShiftBooks
<1>6. CASE Reduce
  <2>1. call' = "parse" /\ Count(Allocated(Action[2], TopOf(yyvs, Action[2])))
    BY <1>1, <1>6 DEF Reduce
  <2> QED BY <1>1, <1>6, <2>1, ReduceBooks
<1>7. CASE GlobTarget
  <2>1. pat = "backup" /\ pat' = "aborted" /\ UNCHANGED <<yyss, yyvs, yychar, tasks, yyresult>>
    BY <1>7 DEF GlobTarget, Ready, stacks
  <2>2. yyresult' = -1 /\ call' = "aborted"
    BY <1>1, <2>1 DEF NoResultYet
  <2>3. ListInv'
    BY <2>1 DEF BooksInv, ListInv
  <2>4. CallInv' /\ StackBalance' /\ ListBalance' /\ NoneLeft'
    BY <2>1, <2>2 DEF CallInv, StackBalance, ListBalance, NoneLeft, Parsing
  <2> QED BY <2>3, <2>4 DEF BooksInv
<1>8. CASE SyntaxError
  <2>1. call' = "parse"
    BY <1>1, <1>8 DEF SyntaxError
  <2> QED BY <1>1, <1>8, <2>1, ErrorBooks
<1>9. Grow => (Grow /\ UNCHANGED <<pat, yyss, yyvs, yyresult>>) \/ (Grow /\ ReturnWith(1))
  BY DEF Grow
<1> QED BY <1>1, <1>2, <1>3, <1>4, <1>5, <1>6, <1>7, <1>8, <1>9 DEF Step

LEMMA NextBooks ==
  ASSUME StackInv, ValuesInv, NoResultYet, BooksInv, [Next]_vars
  PROVE  BooksInv'
<1>1. CASE Start \/ StartFails
  BY <1>1, StartBooks
<1>2. CASE Load \/ LoadFails \/ CallYylex \/ Yylex
  <2>1. /\ UNCHANGED <<pvars, blocks>> /\ call \in {"scan", "parse", "lex"}
        /\ call' \in {"parse", "exited", "lex"}
    BY <1>2 DEF Load, LoadFails, CallYylex, Yylex
  <2>2. yyresult # 0
    <3>1. CASE CallYylex
      BY <3>1 DEF CallYylex, WantsToken, NoResultYet
    <3>2. CASE ~CallYylex
      <4>1. call \in {"scan", "lex"}
        BY <1>2, <3>2 DEF Load, LoadFails, Yylex
      <4> QED BY <4>1 DEF BooksInv, CallInv
    <3> QED BY <3>1, <3>2
  <2>3. CallInv'
    BY <2>1, <2>2 DEF CallInv, pvars
  <2> QED BY <2>1, <2>3, ParserKept
<1>3. CASE YylexReturns
  BY <1>3, TokenBooks
<1>4. CASE Yyparse
  BY <1>4, ParseBooks
<1>5. CASE Refuse
  BY <1>5, RefuseBooks
<1>6. CASE Delete \/ Destroy \/ Run
  <2>1. /\ UNCHANGED <<pvars, blocks>> /\ call \in {"parse", "destroy", "run"}
        /\ call' \in {"destroy", "run", "ran"} /\ yyresult = 0
        /\ call' \in {"run", "ran"} => at' = "done"
    BY <1>6 DEF Delete, Destroy, Run, LexDestroy, BooksInv, CallInv, svars
  <2>2. CallInv'
    BY <2>1 DEF CallInv, pvars
  <2> QED BY <2>1, <2>2, ParserKept
<1>7. CASE FreeAll
  BY <1>7, FreeBooks
<1>8. CASE UNCHANGED vars
  <2>1. UNCHANGED <<pvars, blocks>> /\ call' = call /\ at' = at
    BY <1>8 DEF vars, svars
  <2>2. CallInv'
    BY <2>1 DEF BooksInv, CallInv, pvars
  <2> QED BY <2>1, <2>2, ParserKept
<1> QED BY <1>1, <1>2, <1>3, <1>4, <1>5, <1>6, <1>7, <1>8 DEF Next

(* In a call every block is accounted for: while it parses, by the values   *)
(* on the stack and the lookahead, then by the list, and at the end by      *)
(* nothing.                                                                *)
THEOREM BooksBalance == Spec => []BooksInv
<1>1. Init => BooksInv
  BY InitBooks
<1>2. StackInv /\ (NoResultYet /\ ValuesInv) /\ BooksInv /\ [Next]_vars => BooksInv'
  BY NextBooks
<1> QED BY <1>1, <1>2, UsesParser, StackInvariant, ValuesInvariant, PTL DEF Spec

(* A call that has run its tasks has freed each block, the scanner's, the   *)
(* parse result's, the syllables', the tasks', the arguments' and the       *)
(* redirections', whatever the format and the arguments are.                *)
THEOREM CallsLeaveNothing == Spec => []RanClean
<1>1. BooksInv /\ FreedOnce => RanClean
  BY DEF BooksInv, CallInv, NoneLeft, FreedOnce, RanClean
<1> QED BY <1>1, BooksBalance, ScannerInCalls, PTL

(***************************************************************************)
(* What a call reads: the tokens of the format, one after another          *)
(***************************************************************************)
(* Every place of a text has a token, which ends in the text.              *)
LEMMA TokenEnds ==
  ASSUME NEW f \in Texts, NEW i \in 1..Len(f)
  PROVE  TokenAt(f, i).length \in 1..(Len(f) + 1 - i)
<1> DEFINE Asks(r, m) == Matches(r, SubSeq(f, i, i + m - 1))
           lengths == {m \in 1..(Len(f) + 1 - i) : \E r \in 1..23 : Asks(r, m)}
           longest == CHOOSE m \in lengths : \A n \in lengths : n <= m
           first   == CHOOSE r \in 1..23 : Asks(r, longest)
                                           /\ \A q \in 1..(r - 1) : ~Asks(q, longest)
<1>1. TokenAt(f, i) = [rule |-> first, length |-> longest]
  BY Zenon DEF TokenAt
<1>2. Len(f) \in Nat /\ i \in Nat \ {0} /\ i <= Len(f)
  BY LenProperties DEF Texts
<1>3. 1 \in lengths
  <2>1. /\ i \in Nat \ {0} /\ i + 1 - 1 \in Nat /\ i + 1 - 1 <= Len(f) /\ i <= i + 1 - 1 + 1
        /\ i + 1 - 1 - i + 1 = 1
    BY <1>2
  <2>2. Len(SubSeq(f, i, i + 1 - 1)) = 1
    BY <2>1, PartOfText
  <2>3. Asks(23, 1)
    BY <2>2 DEF Matches
  <2>4. 1 \in 1..(Len(f) + 1 - i) /\ 23 \in 1..23
    BY <1>2
  <2> HIDE DEF Asks
  <2> QED BY <2>3, <2>4
<1> HIDE DEF Asks
<1> DEFINE T == {n \in Nat : \E m \in lengths : \A k \in lengths : k <= n + 1 => k <= m}
<1>4. 0 \in T
  BY <1>3
<1>5. ASSUME NEW n \in Nat, n \in T PROVE n + 1 \in T
  <2>1. PICK m \in lengths : \A k \in lengths : k <= n + 1 => k <= m
    BY <1>5
  <2>2. CASE n + 2 \in lengths
    <3>1. \A k \in lengths : k <= (n + 1) + 1 => k <= n + 2
      BY <1>5
    <3> QED BY <2>2, <3>1
  <2>3. CASE n + 2 \notin lengths
    <3>1. ASSUME NEW k \in lengths, k <= (n + 1) + 1 PROVE k <= m
      <4>1. k \in Int /\ k # n + 2
        BY <1>2, <2>3
      <4>2. k <= n + 1
        BY <3>1, <4>1
      <4> QED BY <2>1, <4>2
    <3>2. n + 1 \in Nat /\ m \in lengths
      BY <2>1
    <3>3. \A k \in lengths : k <= (n + 1) + 1 => k <= m
      BY <3>1
    <3> HIDE DEF lengths
    <3> QED BY <3>2, <3>3
  <2> QED BY <2>2, <2>3
<1>6. Nat \subseteq T
  <2> HIDE DEF T
  <2> QED BY <1>4, <1>5, SetInduction
<1>7. PICK m \in lengths : \A k \in lengths : k <= m
  <2>1. Len(f) \in T
    BY <1>2, <1>6
  <2>2. PICK m \in lengths : \A k \in lengths : k <= Len(f) + 1 => k <= m
    BY <2>1
  <2>3. \A k \in lengths : k <= Len(f) + 1
    BY <1>2
  <2> QED BY <2>2, <2>3
<1>8. longest \in lengths
  <2> HIDE DEF lengths
  <2> QED BY <1>7
<1>9. longest \in 1..(Len(f) + 1 - i)
  BY <1>8
<1> HIDE DEF longest, first, lengths
<1> QED BY <1>1, <1>9

(* The tokens of f from byte i on, when g has those from later bytes on.    *)
Onward(g, f, i) ==
  IF i = Len(f) + 1 THEN <<>>
  ELSE <<[rule |-> TokenAt(f, i).rule, start |-> i, length |-> TokenAt(f, i).length]>>
         \o g[i + TokenAt(f, i).length]
Tokenizes(g, f)  == g = [i \in 1..(Len(f) + 1) |-> Onward(g, f, i)]
TokensFrom(f)    == CHOOSE g : Tokenizes(g, f)

(* Such a function exists: it is built from the end of the text.           *)
LEMMA TokenizesExists ==
  ASSUME NEW f \in Texts
  PROVE  \E g : Tokenizes(g, f) /\ \A i \in 1..(Len(f) + 1) : IsSeq(g[i])
<1> DEFINE l == Len(f)
           Done(g, n) == \A i \in (l + 1 - n)..(l + 1) : g[i] = Onward(g, f, i) /\ IsSeq(g[i])
           T == {n \in Nat : n <= l => \E g : Done(g, n)}
<1>1. l \in Nat
  BY LenProperties DEF Texts
<1>2. PICK e : e = <<>> /\ IsSeq(e)
  BY SeqNone
<1>3. 0 \in T
  <2> DEFINE g == [i \in {l + 1} |-> e]
  <2>1. g[l + 1] = e
    OBVIOUS
  <2>2. Onward(g, f, l + 1) = e
    BY <1>2 DEF Onward
  <2> HIDE DEF g
  <2>3. Done(g, 0)
    <3> SUFFICES ASSUME NEW i \in (l + 1 - 0)..(l + 1)
                 PROVE  g[i] = Onward(g, f, i) /\ IsSeq(g[i])
      OBVIOUS
    <3>1. i = l + 1
      BY <1>1
    <3> QED BY <1>2, <2>1, <2>2, <3>1
  <2> HIDE DEF Done
  <2> QED BY <2>3
<1>4. ASSUME NEW n \in Nat, n \in T PROVE n + 1 \in T
  <2> SUFFICES ASSUME n + 1 <= l PROVE \E g : Done(g, n + 1)
    OBVIOUS
  <2>1. PICK g : Done(g, n)
    BY <1>1, <1>4
  <2>2. PICK j : j = l - n
    OBVIOUS
  <2>3. j \in 1..l /\ l + 1 - n = j + 1 /\ l + 1 - (n + 1) = j
    BY <1>1, <2>2
  <2>4. PICK w : w = Onward(g, f, j)
    OBVIOUS
  <2> DEFINE h == [i \in 1..(l + 1) |-> IF i = j THEN w ELSE g[i]]
  <2>5. h[j] = w /\ \A i \in (j + 1)..(l + 1) : h[i] = g[i]
    BY <1>1, <2>3
  <2> HIDE DEF h
  <2>6. ASSUME NEW i \in j..(l + 1) PROVE Onward(h, f, i) = Onward(g, f, i)
    <3>1. CASE i = l + 1
      BY <3>1 DEF Onward
    <3>2. CASE i # l + 1
      <4>1. i \in 1..l
        BY <1>1, <2>3, <3>2
      <4>2. TokenAt(f, i).length \in 1..(l + 1 - i)
        BY <4>1, TokenEnds
      <4>3. i + TokenAt(f, i).length \in (j + 1)..(l + 1)
        BY <1>1, <2>3, <4>1, <4>2
      <4>4. h[i + TokenAt(f, i).length] = g[i + TokenAt(f, i).length]
        BY <2>5, <4>3
      <4> QED BY <3>2, <4>4 DEF Onward
    <3> QED BY <3>1, <3>2
  <2>7. IsSeq(w)
    <3>1. PICK t : t = [rule |-> TokenAt(f, j).rule, start |-> j, length |-> TokenAt(f, j).length]
      OBVIOUS
    <3>2. j # l + 1
      BY <1>1, <2>3
    <3>3. PICK r : r = g[j + TokenAt(f, j).length]
      OBVIOUS
    <3>4. w = <<t>> \o r
      BY <2>4, <3>1, <3>2, <3>3 DEF Onward
    <3>5. TokenAt(f, j).length \in 1..(l + 1 - j)
      BY <2>3, TokenEnds
    <3>6. j + TokenAt(f, j).length \in (l + 1 - n)..(l + 1)
      BY <1>1, <2>3, <3>5
    <3>7. IsSeq(r)
      BY <2>1, <3>3, <3>6
    <3>8. PICK o : o = <<t>> /\ IsSeq(o)
      BY SeqOne
    <3>9. IsSeq(o \o r)
      BY <3>7, <3>8, SeqConcat
    <3> QED BY <3>4, <3>8, <3>9
  <2>8. ASSUME NEW i \in (l + 1 - (n + 1))..(l + 1)
        PROVE  h[i] = Onward(h, f, i) /\ IsSeq(h[i])
    <3>1. i \in j..(l + 1)
      BY <2>3
    <3>2. CASE i = j
      BY <2>4, <2>5, <2>6, <2>7, <3>1, <3>2
    <3>3. CASE i # j
      <4>1. i \in (j + 1)..(l + 1) /\ i \in (l + 1 - n)..(l + 1)
        BY <1>1, <2>3, <3>1, <3>3
      <4>2. g[i] = Onward(g, f, i) /\ IsSeq(g[i])
        BY <2>1, <4>1
      <4> QED BY <2>5, <2>6, <3>1, <4>1, <4>2
    <3> QED BY <3>2, <3>3
  <2>9. Done(h, n + 1)
    BY <2>8
  <2> HIDE DEF Done
  <2> QED BY <2>9
<1>5. Nat \subseteq T
  <2> HIDE DEF T
  <2> QED BY <1>3, <1>4, SetInduction
<1>6. PICK g : Done(g, l)
  <2>1. l \in T
    BY <1>1, <1>5
  <2> HIDE DEF Done
  <2> QED BY <1>1, <2>1
<1> DEFINE h == [i \in 1..(l + 1) |-> g[i]]
<1>7. \A i \in 1..(l + 1) : h[i] = g[i]
  OBVIOUS
<1>8. DOMAIN h = 1..(l + 1) /\ h = [i \in 1..(l + 1) |-> h[i]]
  OBVIOUS
<1> HIDE DEF h
<1>9. ASSUME NEW i \in 1..(l + 1) PROVE h[i] = Onward(h, f, i) /\ IsSeq(h[i])
  <2>1. l + 1 - l = 1
    BY <1>1
  <2>2. g[i] = Onward(g, f, i) /\ IsSeq(g[i])
    BY <1>6, <2>1
  <2>3. Onward(h, f, i) = Onward(g, f, i)
    <3>1. CASE i = l + 1
      BY <3>1 DEF Onward
    <3>2. CASE i # l + 1
      <4>1. i \in 1..l
        BY <1>1, <3>2
      <4>2. TokenAt(f, i).length \in 1..(l + 1 - i)
        BY <4>1, TokenEnds
      <4>3. i + TokenAt(f, i).length \in 1..(l + 1)
        BY <1>1, <4>1, <4>2
      <4>4. h[i + TokenAt(f, i).length] = g[i + TokenAt(f, i).length]
        BY <1>7, <4>3
      <4> QED BY <3>2, <4>4 DEF Onward
    <3> QED BY <3>1, <3>2
  <2> QED BY <1>7, <2>2, <2>3
<1>10. [i \in 1..(l + 1) |-> h[i]] = [i \in 1..(l + 1) |-> Onward(h, f, i)]
  BY <1>9
<1>11. Tokenizes(h, f)
  BY <1>8, <1>10 DEF Tokenizes
<1> HIDE DEF l
<1> QED BY <1>9, <1>11 DEF l

(* The tokens of a text are the one at its first byte and those behind it.  *)
LEMMA TokensAre ==
  ASSUME NEW f \in Texts
  PROVE  /\ TokensOf(f) = TokensFrom(f)[1]
         /\ TokensFrom(f)[Len(f) + 1] = <<>>
         /\ \A i \in 1..(Len(f) + 1) :
              /\ TokensFrom(f)[i] = Onward(TokensFrom(f), f, i)
              /\ IsSeq(TokensFrom(f)[i])
<1> DEFINE l == Len(f)
<1>1. PICK g : g = TokensFrom(f) /\ Tokenizes(g, f)
  BY TokenizesExists DEF TokensFrom
<1>2. TokensOf(f) = TokensFrom(f)[1]
  BY DEF TokensOf, TokensFrom, Tokenizes, Onward
<1>3. l \in Nat
  BY LenProperties DEF Texts
<1> HIDE DEF l
<1>4. \A i \in 1..(l + 1) : g[i] = Onward(g, f, i)
  BY <1>1 DEF Tokenizes, l
<1>5. g[l + 1] = <<>>
  <2>1. l + 1 \in 1..(l + 1)
    BY <1>3
  <2> QED BY <1>4, <2>1 DEF Onward, l
<1> DEFINE T == {n \in Nat : n <= l => \A i \in (l + 1 - n)..(l + 1) : IsSeq(g[i])}
<1>6. 0 \in T
  <2>1. PICK e : e = <<>> /\ IsSeq(e)
    BY SeqNone
  <2>2. \A i \in (l + 1 - 0)..(l + 1) : i = l + 1
    BY <1>3
  <2> QED BY <1>5, <2>1, <2>2
<1>7. ASSUME NEW n \in Nat, n \in T PROVE n + 1 \in T
  <2> SUFFICES ASSUME n + 1 <= l, NEW i \in (l + 1 - (n + 1))..(l + 1) PROVE IsSeq(g[i])
    OBVIOUS
  <2>1. n <= l /\ i \in 1..(l + 1)
    BY <1>3
  <2>2. \A j \in (l + 1 - n)..(l + 1) : IsSeq(g[j])
    BY <1>7, <2>1
  <2>3. CASE i \in (l + 1 - n)..(l + 1)
    BY <2>2, <2>3
  <2>4. CASE i \notin (l + 1 - n)..(l + 1)
    <3>1. i \in 1..l /\ i + 1 = l + 1 - n /\ i # l + 1
      BY <1>3, <2>1, <2>4
    <3>2. PICK d : d = TokenAt(f, i).length
      OBVIOUS
    <3>3. d \in 1..(l + 1 - i)
      BY <3>1, <3>2, TokenEnds DEF l
    <3>4. i + d \in (l + 1 - n)..(l + 1)
      BY <1>3, <3>1, <3>3
    <3>5. PICK r : r = g[i + d] /\ IsSeq(r)
      BY <2>2, <3>4
    <3>6. PICK o : o = <<[rule |-> TokenAt(f, i).rule, start |-> i, length |-> d]>> /\ IsSeq(o)
      BY SeqOne
    <3>7. g[i] = o \o r
      BY <1>4, <2>1, <3>1, <3>2, <3>5, <3>6 DEF Onward, l
    <3>8. IsSeq(o \o r)
      BY <3>5, <3>6, SeqConcat
    <3> QED BY <3>7, <3>8
  <2> QED BY <2>3, <2>4
<1>8. Nat \subseteq T
  <2> HIDE DEF T
  <2> QED BY <1>6, <1>7, SetInduction
<1>9. \A i \in 1..(l + 1) : IsSeq(g[i])
  <2>1. l \in T /\ l + 1 - l = 1
    BY <1>3, <1>8
  <2> QED BY <2>1
<1>10. g[l + 1] = <<>> /\ \A i \in 1..(l + 1) : g[i] = Onward(g, f, i) /\ IsSeq(g[i])
  BY <1>4, <1>5, <1>9
<1> HIDE DEF T
<1> QED BY <1>1, <1>2, <1>10 DEF l

(* Before the end there is a token, and the rest comes behind it.           *)
LEMMA TokensGoOn ==
  ASSUME NEW f \in Texts, NEW i \in 1..Len(f)
  PROVE  LET t == [rule |-> TokenAt(f, i).rule, start |-> i, length |-> TokenAt(f, i).length]
             j == i + TokenAt(f, i).length
         IN  /\ j \in 1..(Len(f) + 1) /\ IsSeq(TokensFrom(f)[j])
             /\ TokensFrom(f)[i] = Cons(t, TokensFrom(f)[j])
<1>1. Len(f) \in Nat
  BY LenProperties DEF Texts
<1>2. PICK d : d = TokenAt(f, i).length
  OBVIOUS
<1>3. d \in 1..(Len(f) + 1 - i)
  BY <1>2, TokenEnds
<1>4. i + d \in 1..(Len(f) + 1) /\ i \in 1..(Len(f) + 1) /\ i # Len(f) + 1
  BY <1>1, <1>3
<1>5. PICK g : g = TokensFrom(f)
  OBVIOUS
<1>6. g[i] = Onward(g, f, i) /\ IsSeq(g[i + d])
  BY <1>4, <1>5, TokensAre
<1>7. g[i] = <<[rule |-> TokenAt(f, i).rule, start |-> i, length |-> d]>> \o g[i + d]
  BY <1>2, <1>4, <1>6 DEF Onward
<1> QED BY <1>2, <1>4, <1>5, <1>6, <1>7 DEF Cons

(* The number of arguments that the first tokens fetch.                     *)
LEMMA ArgumentNone == \A tokens : Argument(tokens, 0) = 0
<1> SUFFICES ASSUME NEW tokens PROVE Argument(tokens, 0) = 0
  OBVIOUS
<1>1. {j \in 1..0 : Fetches(tokens[j].rule)} = {}
  OBVIOUS
<1> QED BY <1>1, FS_EmptySet DEF Argument

(* One token more.                                                         *)
LEMMA ArgumentNext ==
  ASSUME NEW tokens, NEW n \in Nat
  PROVE  /\ Argument(tokens, n) \in Nat
         /\ Argument(tokens, n + 1)
              = Argument(tokens, n) + (IF Fetches(tokens[n + 1].rule) THEN 1 ELSE 0)
<1> DEFINE A == {j \in 1..n : Fetches(tokens[j].rule)}
           B == {j \in 1..(n + 1) : Fetches(tokens[j].rule)}
<1>1. IsFiniteSet(1..n)
  BY FS_Interval
<1>2. A \subseteq 1..n
  OBVIOUS
<1>3. IsFiniteSet(A)
  BY <1>1, <1>2, FS_Subset
<1>4. Cardinality(A) \in Nat
  BY <1>3, FS_CardinalityType
<1>5. n + 1 \notin A
  BY <1>2
<1>6. Cardinality(A \cup {n + 1}) = Cardinality(A) + 1
  BY <1>3, <1>5, FS_AddElement
<1>7. B = IF Fetches(tokens[n + 1].rule) THEN A \cup {n + 1} ELSE A
  OBVIOUS
<1>8. Argument(tokens, n) = Cardinality(A) /\ Argument(tokens, n + 1) = Cardinality(B)
  BY DEF Argument
<1> HIDE DEF A, B
<1> QED BY <1>4, <1>6, <1>7, <1>8

(* It depends on the first tokens only.                                     *)
LEMMA ArgumentSame ==
  ASSUME NEW a, NEW b, NEW n \in Nat, \A j \in 1..n : a[j] = b[j]
  PROVE  Argument(a, n) = Argument(b, n)
<1>1. {j \in 1..n : Fetches(a[j].rule)} = {j \in 1..n : Fetches(b[j].rule)}
  OBVIOUS
<1> QED BY <1>1 DEF Argument

(* The symbol of a token, when the text up to it fetches n arguments.       *)
SymbolOf(f, t, n) ==
  [id    |-> IdOf(t.rule),
   value |-> IF t.rule \notin 1..8 THEN NoSyllable
             ELSE [flags |-> SyllableFlags(t.rule),
                   text  |-> IF Fetches(t.rule) THEN <<-n>> ELSE TextOf(f, t)]]

(* The symbols of tokens, one for each.                                    *)
LEMMA SymbolsAre ==
  ASSUME NEW f, NEW tokens, IsSeq(tokens)
  PROVE  /\ IsSeq(Symbols(f, tokens)) /\ Len(Symbols(f, tokens)) = Len(tokens)
         /\ \A k \in 1..Len(tokens) :
              Symbols(f, tokens)[k] = SymbolOf(f, tokens[k], Argument(tokens, k))
<1>1. Len(tokens) \in Nat /\ DOMAIN tokens = 1..Len(tokens)
  BY SeqFacts
<1> DEFINE s == [k \in 1..Len(tokens) |-> SymbolOf(f, tokens[k], Argument(tokens, k))]
<1>2. Symbols(f, tokens) = s
  BY <1>1 DEF Symbols, SymbolOf
<1>3. IsSeq(s) /\ Len(s) = Len(tokens)
  <2>1. \A k \in 1..Len(tokens) : s[k] = SymbolOf(f, tokens[k], Argument(tokens, k))
    OBVIOUS
  <2>2. s = [k \in 1..Len(tokens) |-> s[k]]
    OBVIOUS
  <2> HIDE DEF s
  <2> QED BY <1>1, <2>2, Mapped
<1>4. \A k \in 1..Len(tokens) : s[k] = SymbolOf(f, tokens[k], Argument(tokens, k))
  OBVIOUS
<1> HIDE DEF s
<1> QED BY <1>2, <1>3, <1>4

(* No tokens, no symbols.                                                  *)
LEMMA SymbolsNone == \A f : Symbols(f, <<>>) = <<>>
<1> SUFFICES ASSUME NEW f PROVE Symbols(f, <<>>) = <<>>
  OBVIOUS
<1>1. PICK e : e = <<>> /\ IsSeq(e) /\ Len(e) = 0
  BY SeqNone
<1>2. IsSeq(Symbols(f, e)) /\ Len(Symbols(f, e)) = 0
  BY <1>1, SymbolsAre
<1>3. PICK s : s = Symbols(f, e)
  OBVIOUS
<1>4. \A k \in 1..0 : s[k] = e[k]
  OBVIOUS
<1>5. s = e
  BY <1>1, <1>2, <1>3, <1>4, SameSeq
<1> QED BY <1>1, <1>3, <1>5

(* One token more.                                                         *)
LEMMA SymbolsNext ==
  ASSUME NEW f, NEW pre, IsSeq(pre), NEW t
  PROVE  /\ Argument(pre, Len(pre)) \in Nat
         /\ Argument(Append(pre, t), Len(Append(pre, t)))
              = Argument(pre, Len(pre)) + (IF Fetches(t.rule) THEN 1 ELSE 0)
         /\ Symbols(f, Append(pre, t))
              = Append(Symbols(f, pre),
                       SymbolOf(f, t, Argument(Append(pre, t), Len(Append(pre, t)))))
<1>1. PICK q : q = Append(pre, t)
  OBVIOUS
<1>2. /\ Len(pre) \in Nat /\ IsSeq(q) /\ Len(q) = Len(pre) + 1
      /\ \A k \in 1..Len(pre) : q[k] = pre[k]
      /\ q[Len(pre) + 1] = t
  BY <1>1, SeqAppend, SeqFacts
<1>3. Argument(q, Len(pre)) = Argument(pre, Len(pre))
  BY <1>2, ArgumentSame
<1>4. /\ Argument(q, Len(pre)) \in Nat
      /\ Argument(q, Len(pre) + 1)
           = Argument(q, Len(pre)) + (IF Fetches(q[Len(pre) + 1].rule) THEN 1 ELSE 0)
  BY <1>2, ArgumentNext
<1>5. Argument(q, Len(q)) = Argument(pre, Len(pre)) + (IF Fetches(t.rule) THEN 1 ELSE 0)
  BY <1>2, <1>3, <1>4
<1>6. PICK x : x = SymbolOf(f, t, Argument(q, Len(q)))
  OBVIOUS
<1>7. PICK s : s = Symbols(f, pre)
  OBVIOUS
<1>8. PICK u : u = Symbols(f, q)
  OBVIOUS
<1>9. /\ IsSeq(s) /\ Len(s) = Len(pre)
      /\ \A k \in 1..Len(pre) : s[k] = SymbolOf(f, pre[k], Argument(pre, k))
  BY <1>7, SymbolsAre
<1>10. /\ IsSeq(u) /\ Len(u) = Len(pre) + 1
       /\ \A k \in 1..(Len(pre) + 1) : u[k] = SymbolOf(f, q[k], Argument(q, k))
  BY <1>2, <1>8, SymbolsAre
<1>11. PICK v : v = Append(s, x)
  OBVIOUS
<1>12. /\ IsSeq(v) /\ Len(v) = Len(pre) + 1 /\ v[Len(pre) + 1] = x
       /\ \A k \in 1..Len(pre) : v[k] = s[k]
  BY <1>9, <1>11, SeqAppend
<1>13. ASSUME NEW k \in 1..Len(pre) PROVE u[k] = v[k]
  <2>1. k \in Nat /\ k \in 1..(Len(pre) + 1) /\ \A j \in 1..k : q[j] = pre[j]
    BY <1>2
  <2>2. Argument(q, k) = Argument(pre, k)
    BY <2>1, ArgumentSame
  <2> QED BY <1>2, <1>9, <1>10, <1>12, <2>1, <2>2
<1>14. u[Len(pre) + 1] = x
  <2>1. Len(pre) + 1 \in 1..(Len(pre) + 1)
    BY <1>2
  <2> QED BY <1>2, <1>6, <1>10, <2>1
<1>15. \A k \in 1..(Len(pre) + 1) : u[k] = v[k]
  BY <1>2, <1>12, <1>13, <1>14
<1>16. u = v
  BY <1>2, <1>10, <1>12, <1>15, SameSeq
<1> QED BY <1>1, <1>3, <1>4, <1>5, <1>6, <1>7, <1>8, <1>11, <1>16

(* A sequence is the beginning of another one.                              *)
Begins(s, whole) == \E t : IsSeq(t) /\ whole = s \o t

(* The symbols of the first tokens come first.                              *)
LEMMA SymbolsGoOn ==
  ASSUME NEW f, NEW pre, IsSeq(pre), NEW rest, IsSeq(rest)
  PROVE  Begins(Symbols(f, pre), Symbols(f, pre \o rest))
<1>1. PICK q : q = pre \o rest
  OBVIOUS
<1>2. /\ Len(pre) \in Nat /\ Len(rest) \in Nat /\ IsSeq(q) /\ Len(q) = Len(pre) + Len(rest)
      /\ \A k \in 1..(Len(pre) + Len(rest)) :
           q[k] = IF k <= Len(pre) THEN pre[k] ELSE rest[k - Len(pre)]
  BY <1>1, SeqConcat, SeqFacts
<1>3. PICK s : s = Symbols(f, pre)
  OBVIOUS
<1>4. PICK u : u = Symbols(f, q)
  OBVIOUS
<1>5. /\ IsSeq(s) /\ Len(s) = Len(pre)
      /\ \A k \in 1..Len(pre) : s[k] = SymbolOf(f, pre[k], Argument(pre, k))
  BY <1>3, SymbolsAre
<1>6. /\ IsSeq(u) /\ Len(u) = Len(pre) + Len(rest)
      /\ \A k \in 1..Len(u) : u[k] = SymbolOf(f, q[k], Argument(q, k))
  BY <1>2, <1>4, SymbolsAre
<1> DEFINE g == [k \in 1..Len(rest) |-> u[k + Len(pre)]]
<1>7. g = [k \in 1..Len(rest) |-> g[k]] /\ \A k \in 1..Len(rest) : g[k] = u[k + Len(pre)]
  OBVIOUS
<1>8. PICK t : t = g
  OBVIOUS
<1> HIDE DEF g
<1>9. /\ IsSeq(t) /\ Len(t) = Len(rest)
      /\ \A k \in 1..Len(rest) : t[k] = u[k + Len(pre)]
  <2>1. t = [k \in 1..Len(rest) |-> t[k]]
    BY <1>7, <1>8
  <2>2. Len(rest) \in Nat
    BY <1>2
  <2>3. IsSeq(t) /\ Len(t) = Len(rest)
    BY <2>1, <2>2, Mapped
  <2> QED BY <1>7, <1>8, <2>3
<1>10. PICK v : v = s \o t
  OBVIOUS
<1>11. /\ IsSeq(v) /\ Len(v) = Len(pre) + Len(rest)
       /\ \A k \in 1..(Len(pre) + Len(rest)) :
            v[k] = IF k <= Len(pre) THEN s[k] ELSE t[k - Len(pre)]
  <2>1. IsSeq(s) /\ IsSeq(t) /\ Len(s) = Len(pre) /\ Len(t) = Len(rest)
    BY <1>5, <1>9
  <2>2. /\ IsSeq(s \o t)
        /\ Len(s \o t) = Len(s) + Len(t)
        /\ \A k \in 1..(Len(s) + Len(t)) :
             (s \o t)[k] = IF k <= Len(s) THEN s[k] ELSE t[k - Len(s)]
    BY <2>1, SeqConcat
  <2> QED BY <1>10, <2>1, <2>2
<1>12. ASSUME NEW k \in 1..(Len(pre) + Len(rest)) PROVE u[k] = v[k]
  <2>1. CASE k <= Len(pre)
    <3>1. k \in Nat /\ k \in 1..Len(pre)
      BY <1>2, <2>1
    <3>2. \A j \in 1..k : q[j] = pre[j]
      BY <1>2, <3>1
    <3>3. Argument(q, k) = Argument(pre, k)
      BY <3>1, <3>2, ArgumentSame
    <3>4. q[k] = pre[k]
      BY <3>1, <3>2
    <3>5. v[k] = s[k] /\ k \in 1..Len(u)
      BY <1>2, <1>6, <1>11, <2>1
    <3> QED BY <1>5, <1>6, <3>1, <3>3, <3>4, <3>5
  <2>2. CASE ~(k <= Len(pre))
    <3>1. k - Len(pre) \in 1..Len(rest) /\ (k - Len(pre)) + Len(pre) = k
      BY <1>2, <2>2
    <3>2. t[k - Len(pre)] = u[k]
      BY <1>9, <3>1
    <3>3. v[k] = t[k - Len(pre)]
      BY <1>11, <2>2
    <3> QED BY <3>2, <3>3
  <2> QED BY <2>1, <2>2
<1>13. u = v
  <2>1. \A k \in 1..(Len(pre) + Len(rest)) : u[k] = v[k]
    BY <1>12
  <2>2. PICK n : n = Len(pre) + Len(rest)
    OBVIOUS
  <2> QED BY <1>2, <1>6, <1>11, <2>1, <2>2, SameSeq
<1>14. IsSeq(t) /\ u = s \o t
  BY <1>9, <1>10, <1>13
<1> QED BY <1>1, <1>3, <1>4, <1>14 DEF Begins

(* lexer.l reads the bytes of formats as signed characters.                 *)
Ascii == fmt \in Seq(1..127)

(* The numbers of the tokens.                                              *)
LEMMA IdsOfRules ==
  /\ \A rule \in 1..8 : IdOf(rule) = YYTRANSLATE(258)
  /\ IdOf(9) = YYTRANSLATE(259)
  /\ \A rule \in 10..22 : IdOf(rule) = YYTRANSLATE(Operator(rule)) /\ Operator(rule) \in Nat \ {0}
  /\ \A byte \in 1..127 : IdOf(23) = YYTRANSLATE(byte)
<1>1. \A rule \in 1..8 : IdOf(rule) = YYTRANSLATE(258)
  BY DEF IdOf, YYTRANSLATE, YYMAXUTOK, SYL
<1>2. IdOf(9) = YYTRANSLATE(259)
  BY DEF IdOf, YYTRANSLATE, YYMAXUTOK, SPC
<1>3. \A rule \in 10..22 : Operator(rule) \in Nat \ {0}
  BY DEF Operator
<1>4. \A rule \in 10..22 : IdOf(rule) = YYTRANSLATE(Operator(rule))
  BY DEF IdOf
<1>5. \A byte \in 1..127 : YYTRANSLATE(byte) = YYUNDEFTOK
  BY DEF YYTRANSLATE, YYMAXUTOK
<1>6. IdOf(23) = YYUNDEFTOK
  BY DEF IdOf
<1> QED BY <1>1, <1>2, <1>3, <1>4, <1>5, <1>6

(* The text that an action sees is a part of the format.                    *)
LEMMA TextSeen ==
  ASSUME SInv, at = "act", cp <= Len(fmt) + 1
  PROVE  /\ text_ptr \in 1..Len(fmt) /\ cp \in (text_ptr + 1)..(Len(fmt) + 1) /\ c_buf_p = cp
         /\ yytext = SubSeq(fmt, text_ptr, cp - 1)
         /\ yytext[1] = fmt[text_ptr]
<1>1. fmt \in Formats /\ Acting
  BY DEF SInv
<1>2. N \in Nat /\ N = Len(fmt) /\ fmt \in Texts /\ Len(Whole) = N + 2
  BY <1>1, FullBuffer, FormatsAreStrings DEF N, Texts
<1>3. /\ text_ptr \in 1..N /\ cp \in (text_ptr + 1)..(N + 1) /\ c_buf_p = cp
      /\ ch_buf \in Seq(Bytes) /\ Len(ch_buf) = N + 2
      /\ [ch_buf EXCEPT ![c_buf_p] = hold_char] = Whole
  BY <1>1, <1>2 DEF Acting, Held
<1>4. ASSUME NEW k \in text_ptr..(cp - 1)
      PROVE  ch_buf[k] = fmt[k] /\ fmt[k] \in 1..255
  <2>1. k \in 1..(N + 2) /\ k # c_buf_p /\ k <= N /\ k \in 1..N
    BY <1>2, <1>3
  <2>2. k \in DOMAIN ch_buf
    BY <1>3, <2>1
  <2>3. Whole[k] = ch_buf[k]
    BY <1>3, <2>1, <2>2
  <2>4. Whole[k] = fmt[k] /\ fmt[k] \in 1..255
    BY <1>2, <2>1 DEF Whole, Texts
  <2> QED BY <2>3, <2>4
<1>5. PICK i, j : i = text_ptr /\ j = cp - 1
  OBVIOUS
<1>6. i \in Int /\ j \in Int /\ i <= j /\ 1 \in 1..(j - i + 1) /\ i + 1 - 1 = i
  BY <1>2, <1>3, <1>5
<1>7. PICK a : a = SubSeq(ch_buf, i, j)
  OBVIOUS
<1>8. PICK b : b = SubSeq(fmt, i, j)
  OBVIOUS
<1>9. /\ a \in Seq(1..255) /\ Len(a) = j - i + 1
      /\ \A k \in 1..(j - i + 1) : a[k] = ch_buf[i + k - 1]
  <2>1. \A k \in i..j : ch_buf[k] \in 1..255
    BY <1>4, <1>5
  <2> QED BY <1>6, <1>7, <2>1, SubSeqProperties
<1>10. /\ b \in Seq(1..255) /\ Len(b) = j - i + 1
       /\ \A k \in 1..(j - i + 1) : b[k] = fmt[i + k - 1]
  <2>1. \A k \in i..j : fmt[k] \in 1..255
    BY <1>4, <1>5
  <2> QED BY <1>6, <1>8, <2>1, SubSeqProperties
<1>11. \A k \in 1..(j - i + 1) : a[k] = b[k]
  <2>1. ASSUME NEW k \in 1..(j - i + 1) PROVE a[k] = b[k]
    <3>1. i + k - 1 \in i..j
      BY <1>6
    <3>2. ch_buf[i + k - 1] = fmt[i + k - 1]
      BY <1>4, <1>5, <3>1
    <3> QED BY <1>9, <1>10, <3>2
  <2> QED BY <2>1
<1>12. a = b
  BY <1>9, <1>10, <1>11, SameText DEF Texts
<1>13. b[1] = fmt[i]
  BY <1>6, <1>10
<1> QED BY <1>2, <1>3, <1>5, <1>7, <1>8, <1>12, <1>13 DEF yytext

(* The token at the place where yylex started to read.                      *)
TokenHere == [rule   |-> TokenAt(fmt, text_ptr).rule, start |-> text_ptr,
              length |-> TokenAt(fmt, text_ptr).length]

(* What a call of yylex hands to yyparse.                                   *)
LEMMA TokenHandedOver ==
  ASSUME SInv, ScansLexer, Ascii, args \in Nat, Return
  PROVE  \/ /\ token' = 0 /\ text_ptr = Len(fmt) + 1 /\ c_buf_p' = text_ptr
            /\ args' = args
         \/ /\ text_ptr \in 1..Len(fmt) /\ token' \in Nat \ {0}
            /\ c_buf_p' = text_ptr + TokenAt(fmt, text_ptr).length
            /\ args' = args + (IF Fetches(TokenAt(fmt, text_ptr).rule) THEN 1 ELSE 0)
            /\ [id |-> YYTRANSLATE(token'), value |-> yylval']
                 = SymbolOf(fmt, TokenHere, args')
<1>0. Len(fmt) \in Nat /\ fmt \in Formats
  BY FormatsAreStrings, LenProperties DEF SInv
<1>1. CASE EndOfFile
  <2>1. at = "act" /\ Rule = END_OF_BUFFER /\ c_buf_p - text_ptr = 1
        /\ token' = 0 /\ c_buf_p' = text_ptr /\ args' = args
    BY <1>1 DEF EndOfFile
  <2>2. text_ptr = Len(fmt) + 1
    BY <2>1 DEF ScansLexer
  <2> QED BY <2>1, <2>2
<1>2. CASE ReturnSyllable \/ ReturnOperator \/ ReturnByte
  <2>1. at = "act" /\ Rule \in 1..23 /\ c_buf_p' = c_buf_p
    BY <1>2 DEF ReturnSyllable, ReturnOperator, ReturnByte, place
  <2>2. Rule # END_OF_BUFFER
    BY <2>1 DEF END_OF_BUFFER
  <2>3. PICK m : m = TokenAt(fmt, text_ptr)
    OBVIOUS
  <2>4. [rule |-> Rule, length |-> cp - text_ptr] = m
    BY <2>1, <2>2, <2>3 DEF ScansLexer
  <2>5. m.rule = Rule /\ m.length = cp - text_ptr
    BY <2>4
  <2>6. cp <= Len(fmt) + 1
    <3>1. Acting
      BY <2>1 DEF SInv
    <3>2. cur # EndOfBufState /\ cp \in Int /\ cp <= N + 2
      <4>1. cur # EndOfBufState
        BY <2>2, <3>1, Actions DEF Acting, Rule
      <4> QED BY <1>0, <3>1, <4>1 DEF Acting, N
    <3> QED BY <1>0, <3>1, <3>2 DEF Acting, EndsTogether, N
  <2>7. /\ text_ptr \in 1..Len(fmt) /\ cp \in (text_ptr + 1)..(Len(fmt) + 1) /\ c_buf_p = cp
        /\ yytext = SubSeq(fmt, text_ptr, cp - 1)
        /\ yytext[1] = fmt[text_ptr]
    BY <2>1, <2>6, TextSeen
  <2>8. c_buf_p' = text_ptr + m.length
    BY <1>0, <2>1, <2>5, <2>7
  <2>9. PICK t : t = TokenHere
    OBVIOUS
  <2>10. t.rule = Rule /\ TextOf(fmt, t) = yytext
    <3>1. t.rule = Rule /\ t.start = text_ptr /\ t.length = cp - text_ptr
      BY <2>3, <2>5, <2>9 DEF TokenHere
    <3>2. text_ptr + (cp - text_ptr) - 1 = cp - 1
      BY <1>0, <2>7
    <3> QED BY <2>7, <3>1, <3>2 DEF TextOf
  <2>11. /\ token' \in Nat \ {0}
         /\ args' = args + (IF Fetches(Rule) THEN 1 ELSE 0)
         /\ YYTRANSLATE(token') = IdOf(Rule)
         /\ yylval' = IF Rule \notin 1..8 THEN NoSyllable
                      ELSE [flags |-> SyllableFlags(Rule),
                            text  |-> IF Fetches(Rule) THEN <<-args'>> ELSE yytext]
    <3>1. CASE ReturnSyllable
      <4>1. /\ Rule \in 1..8 /\ token' = 258
            /\ args' = IF Fetches(Rule) THEN args + 1 ELSE args
            /\ yylval' = [flags |-> SyllableFlags(Rule),
                          text  |-> IF Fetches(Rule) THEN <<-args'>> ELSE yytext]
        BY <3>1 DEF ReturnSyllable, SYLLABLE
      <4>2. YYTRANSLATE(token') = IdOf(Rule) /\ token' \in Nat \ {0}
        BY <4>1, IdsOfRules
      <4>3. args' = args + (IF Fetches(Rule) THEN 1 ELSE 0)
        BY <4>1
      <4> QED BY <4>1, <4>2, <4>3
    <3>2. CASE ReturnOperator
      <4>1. /\ Rule \in 9..22 /\ token' = IF Rule = 9 THEN 259 ELSE Operator(Rule)
            /\ yylval' = NoSyllable /\ args' = args
        BY <3>2 DEF ReturnOperator, SPACE
      <4>2. ~Fetches(Rule) /\ Rule \notin 1..8
        BY <4>1 DEF Fetches
      <4>3. YYTRANSLATE(token') = IdOf(Rule) /\ token' \in Nat \ {0}
        BY <4>1, IdsOfRules
      <4>4. args' = args + (IF Fetches(Rule) THEN 1 ELSE 0)
        BY <4>1, <4>2
      <4> QED BY <4>1, <4>2, <4>3, <4>4
    <3>3. CASE ReturnByte
      <4>1. /\ Rule = 23 /\ token' = SignedChar(yytext[1])
            /\ yylval' = NoSyllable /\ args' = args
        BY <3>3 DEF ReturnByte
      <4>2. ~Fetches(Rule) /\ Rule \notin 1..8
        BY <4>1 DEF Fetches
      <4>3. fmt[text_ptr] \in 1..127
        BY <2>7, ElementOfSeq DEF Ascii
      <4>4. token' = fmt[text_ptr] /\ token' \in 1..127
        <5>1. PICK byte : byte = fmt[text_ptr]
          OBVIOUS
        <5>2. byte \in 1..127 /\ ~(byte >= 128)
          BY <4>3, <5>1
        <5>3. SignedChar(byte) = byte
          BY <5>2 DEF SignedChar
        <5>4. token' = SignedChar(byte)
          BY <2>7, <4>1, <5>1
        <5> QED BY <5>1, <5>2, <5>3, <5>4
      <4>5. YYTRANSLATE(token') = IdOf(Rule) /\ token' \in Nat \ {0}
        BY <4>1, <4>4, IdsOfRules
      <4>6. args' = args + (IF Fetches(Rule) THEN 1 ELSE 0)
        BY <4>1, <4>2
      <4> QED BY <4>1, <4>2, <4>5, <4>6
    <3> QED BY <1>2, <3>1, <3>2, <3>3
  <2>12. SymbolOf(fmt, t, args')
           = [id |-> IdOf(Rule),
              value |-> IF Rule \notin 1..8 THEN NoSyllable
                        ELSE [flags |-> SyllableFlags(Rule),
                              text  |-> IF Fetches(Rule) THEN <<-args'>> ELSE yytext]]
    BY <2>10 DEF SymbolOf
  <2>13. [id |-> YYTRANSLATE(token'), value |-> yylval'] = SymbolOf(fmt, t, args')
    BY <2>11, <2>12
  <2> QED BY <2>3, <2>5, <2>7, <2>8, <2>9, <2>11, <2>13
<1> QED BY <1>1, <1>2 DEF Return

(* The parser knows that the input has ended.                               *)
EndSeen == yychar = YYEOF \/ yyss[Len(yyss)] = YYFINAL \/ yyresult = 0

(* Returning leaves the final state.                                       *)
LEMMA EndAfterReturn ==
  ASSUME NEW result, ReturnWith(result)
  PROVE  yyss'[Len(yyss')] # YYFINAL /\ yyresult' = result
<1>1. Len(yyss') = 1 /\ yyss'[1] = 0
  BY SeqOne DEF ReturnWith
<1> QED BY <1>1 DEF ReturnWith, YYFINAL

(* The state that is pushed is on top.                                     *)
LEMMA EndAfterPush ==
  ASSUME StackInv, NEW n \in 1..Len(yyss), NEW s, s # YYFINAL,
         yyss' = Append(SubSeq(yyss, 1, n), s)
  PROVE  yyss'[Len(yyss')] # YYFINAL
<1>1. PICK a : a = SubSeq(yyss, 1, n)
  OBVIOUS
<1>2. IsSeq(a)
  <2>1. a \in Seq(ParseStates)
    BY <1>1, LegalPrefix DEF StackInv, Legal
  <2> QED BY <2>1 DEF IsSeq
<1>3. PICK b : b = Append(a, s)
  OBVIOUS
<1>4. Len(b) = Len(a) + 1 /\ b[Len(a) + 1] = s
  BY <1>2, <1>3, SeqAppend
<1> QED BY <1>1, <1>3, <1>4

(* Only a token ends the input.                                            *)
LEMMA EndStays ==
  ASSUME StackInv, NoResultYet, Step
  PROVE  input' = input /\ (EndSeen' => EndSeen)
<1>1. CASE SetState \/ GlobTarget
  BY <1>1 DEF SetState, GlobTarget, EndSeen, stacks
<1>2. CASE Accept
  <2>1. yyss[Len(yyss)] = YYFINAL /\ input' = input
    BY <1>2, TopOfStack DEF Accept
  <2> QED BY <2>1 DEF EndSeen
<1>3. CASE Exhausted
  <2>1. ReturnWith(2) /\ yychar' = yychar /\ input' = input
    BY <1>3 DEF Exhausted
  <2>2. yyss'[Len(yyss')] # YYFINAL /\ yyresult' = 2
    BY <2>1, EndAfterReturn
  <2> QED BY <2>1, <2>2 DEF EndSeen
<1>4. CASE Abort
  <2>1. ReturnWith(1) /\ yychar' = yychar /\ input' = input
    BY <1>4 DEF Abort
  <2>2. yyss'[Len(yyss')] # YYFINAL /\ yyresult' = 1
    BY <2>1, EndAfterReturn
  <2> QED BY <2>1, <2>2 DEF EndSeen
<1>5. CASE Grow
  <2>1. CASE Full(GrownSize)
    <3>1. ReturnWith(1) /\ yychar' = yychar /\ input' = input
      BY <1>5, <2>1 DEF Grow
    <3>2. yyss'[Len(yyss')] # YYFINAL /\ yyresult' = 1
      BY <3>1, EndAfterReturn
    <3> QED BY <3>1, <3>2 DEF EndSeen
  <2>2. CASE ~Full(GrownSize)
    BY <1>5, <2>2 DEF Grow, EndSeen
  <2> QED BY <2>1, <2>2
<1>6. CASE Shift
  <2> DEFINE s == Action[2]
  <2>1. /\ NeedsToken(yystate) /\ Entry(yystate, YYTRANSLATE(yychar)) > 0
        /\ s = Entry(yystate, YYTRANSLATE(yychar))
    BY <1>6 DEF Shift, Action, ParseAction, DefaultAction
  <2>2. yystate \in ParseStates /\ YYTRANSLATE(yychar) \in 0..18 /\ IsSeq(yyss)
    BY TopOfStack, SymbolOfToken
  <2>3. Symbol(s) = YYTRANSLATE(yychar)
    <3> HIDE DEF s
    <3> QED BY <2>1, <2>2, ShiftEdge
  <2>4. yyss' = Append(yyss, s) /\ yychar' = YYEMPTY /\ input' = input /\ yyresult' = yyresult
    BY <1>6 DEF Shift
  <2> HIDE DEF s
  <2>5. yyss'[Len(yyss')] = s
    <3>1. PICK b : b = Append(yyss, s)
      OBVIOUS
    <3>2. Len(b) = Len(yyss) + 1 /\ b[Len(yyss) + 1] = s
      BY <2>2, <3>1, SeqAppend
    <3> QED BY <2>4, <3>1, <3>2
  <2>6. s = YYFINAL => yychar = YYEOF
    <3> SUFFICES ASSUME s = YYFINAL PROVE yychar = YYEOF
      OBVIOUS
    <3>1. YYTRANSLATE(yychar) = 0
      BY <2>3, StatesOfAList
    <3> QED BY <3>1 DEF YYTRANSLATE, YYTERROR, YYUNDEFTOK, YYMAXUTOK, YYEOF
  <2>7. YYEMPTY # YYEOF
    BY DEF YYEMPTY, YYEOF
  <2> QED BY <2>4, <2>5, <2>6, <2>7 DEF EndSeen
<1>7. CASE Reduce
  <2> DEFINE rule == Action[2]
             n == Len(yyss) - Length(rule)
             s == GotoState(yyss[n], Lhs(rule))
  <2>1. /\ Ready /\ Action[1] = "reduce" /\ rule # 22 /\ n \in 1..Len(yyss)
        /\ Symbol(s) = Lhs(rule)
        /\ yyss' = Append(SubSeq(yyss, 1, n), s)
    BY <1>7, ReducePushes DEF Follows
  <2>2. rule \in 2..24
    BY <2>1, TopValues
  <2>3. UNCHANGED <<yychar, input, yyresult>>
    BY <1>7 DEF Reduce
  <2>4. s # YYFINAL
    <3>1. Symbol(s) = Lhs(rule)
      BY <2>1
    <3> HIDE DEF s, rule, n
    <3>2. Lhs(rule) \in 20..25
      BY <2>2, RulesOfAList
    <3> QED BY <3>1, <3>2, StatesOfAList
  <2>5. n \in 1..Len(yyss) /\ yyss' = Append(SubSeq(yyss, 1, n), s)
    BY <2>1
  <2> HIDE DEF s, rule, n
  <2>6. yyss'[Len(yyss')] # YYFINAL
    BY <2>4, <2>5, EndAfterPush
  <2> QED BY <2>3, <2>6 DEF EndSeen
<1>8. CASE SyntaxError
  <2>1. PICK n \in DOMAIN yyss :
          /\ ShiftsError(yyss[n])
          /\ yyss' = Append(SubSeq(yyss, 1, n), Entry(yyss[n], YYTERROR))
    BY <1>8 DEF SyntaxError
  <2>2. n \in 1..Len(yyss) /\ yyss[n] \in ParseStates
    BY TopOfStack, LenProperties DEF StackInv, Legal
  <2>3. PICK s : s = Entry(yyss[n], YYTERROR)
    OBVIOUS
  <2>4. s # YYFINAL
    <3>1. YYTERROR \in 0..18 /\ YYTERROR = 1
      BY DEF YYTERROR
    <3>2. Symbol(s) = 1
      <4>1. PICK u, y : u = yyss[n] /\ y = YYTERROR
        OBVIOUS
      <4>2. u \in ParseStates /\ y \in 0..18 /\ NeedsToken(u) /\ Entry(u, y) > 0
        BY <2>1, <2>2, <3>1, <4>1 DEF ShiftsError
      <4>3. Symbol(Entry(u, y)) = y
        BY <4>2, ShiftEdge
      <4> QED BY <2>3, <3>1, <4>1, <4>3
    <3> QED BY <3>2, StatesOfAList
  <2>5. UNCHANGED <<yychar, input, yyresult>>
    BY <1>8 DEF SyntaxError
  <2>6. yyss'[Len(yyss')] # YYFINAL
    BY <2>1, <2>2, <2>3, <2>4, EndAfterPush
  <2> QED BY <2>5, <2>6 DEF EndSeen
<1> QED BY <1>1, <1>2, <1>3, <1>4, <1>5, <1>6, <1>7, <1>8 DEF Step

(* Reading a token that is not the end does not end the input.             *)
LEMMA EndNotYet ==
  ASSUME StackInv, NoResultYet, NEW id \in Nat \ {0}, NEW value, ReadToken(id, value)
  PROVE  ~EndSeen'
<1>1. /\ pat = "backup" /\ yyss' = yyss /\ yyresult' = yyresult
      /\ yychar' = IF id <= YYEOF THEN YYEOF ELSE id
  BY DEF ReadToken, WantsToken, stacks
<1>2. yystate # YYFINAL /\ yystate = yyss[Len(yyss)]
  BY <1>1, TopOfStack DEF StackInv
<1>3. yyresult = -1
  BY <1>1 DEF NoResultYet
<1>4. yychar' # YYEOF
  BY <1>1 DEF YYEOF
<1> QED BY <1>1, <1>2, <1>3, <1>4 DEF EndSeen

(* The next token to read is at byte p: those before it have been read, and *)
(* their conversions have fetched the arguments.                            *)
Along(p) ==
  \E pre : /\ IsSeq(pre)
           /\ TokensOf(fmt) = pre \o TokensFrom(fmt)[p]
           /\ input = Symbols(fmt, pre)
           /\ args = Argument(pre, Len(pre))

(* The parser has read the tokens of the format, in their order.            *)
AlongInv ==
  /\ call \in {"start", "scan"} => input = <<>> /\ args = 0
  /\ call = "parse" => at = "ready" /\ Along(c_buf_p)
  /\ call = "lex" => at \in {"match", "find", "act", "again"} /\ Along(text_ptr)

WholeInv == EndSeen => input = SentenceOf(fmt)

(* A call of yylex moves the place on by the token that it returns.        *)
LEMMA TokenAlong ==
  ASSUME SInv, StackInv, NoResultYet, ScansLexer, Ascii, Along(text_ptr), WholeInv,
         YylexReturns
  PROVE  at' = "ready" /\ Along(c_buf_p)' /\ WholeInv'
<1>1. /\ Return /\ ReadToken(token', yylval') /\ fmt' = fmt /\ at' = "ready"
  BY DEF YylexReturns, Return, ReturnSyllable, ReturnOperator, ReturnByte, EndOfFile
<1>2. PICK pre : /\ IsSeq(pre)
                 /\ TokensOf(fmt) = pre \o TokensFrom(fmt)[text_ptr]
                 /\ input = Symbols(fmt, pre)
                 /\ args = Argument(pre, Len(pre))
  BY DEF Along
<1>3. fmt \in Texts
  BY FormatsAreStrings DEF SInv, Texts
<1>4. args \in Nat
  BY <1>2, ArgumentNext, SeqFacts
<1>5. CASE /\ token' = 0 /\ text_ptr = Len(fmt) + 1 /\ c_buf_p' = text_ptr
           /\ args' = args
  <2>1. input' = input
    BY <1>1, <1>5 DEF ReadToken, Record, YYEOF
  <2>2. Along(c_buf_p)'
    BY <1>1, <1>2, <1>5, <2>1 DEF Along
  <2>3. TokensFrom(fmt)[text_ptr] = <<>>
    BY <1>3, <1>5, TokensAre
  <2>4. TokensOf(fmt) = pre
    BY <1>2, <2>3, ThenNone
  <2>5. input' = SentenceOf(fmt)'
    BY <1>1, <1>2, <2>1, <2>4 DEF SentenceOf
  <2> QED BY <1>1, <2>2, <2>5 DEF WholeInv
<1>6. CASE /\ text_ptr \in 1..Len(fmt) /\ token' \in Nat \ {0}
           /\ c_buf_p' = text_ptr + TokenAt(fmt, text_ptr).length
           /\ args' = args + (IF Fetches(TokenAt(fmt, text_ptr).rule) THEN 1 ELSE 0)
           /\ [id |-> YYTRANSLATE(token'), value |-> yylval']
                = SymbolOf(fmt, TokenHere, args')
  <2>1. PICK t : t = TokenHere
    OBVIOUS
  <2>2. t.rule = TokenAt(fmt, text_ptr).rule
    BY <2>1 DEF TokenHere
  <2>3. PICK r : r = TokensFrom(fmt)[text_ptr + TokenAt(fmt, text_ptr).length]
    OBVIOUS
  <2>4. IsSeq(r) /\ TokensFrom(fmt)[text_ptr] = Cons(t, r)
    <3>1. PICK i : i = text_ptr
      OBVIOUS
    <3>2. i \in 1..Len(fmt)
      BY <1>6, <3>1
    <3>3. LET u == [rule |-> TokenAt(fmt, i).rule, start |-> i,
                    length |-> TokenAt(fmt, i).length]
              j == i + TokenAt(fmt, i).length
          IN  /\ j \in 1..(Len(fmt) + 1) /\ IsSeq(TokensFrom(fmt)[j])
              /\ TokensFrom(fmt)[i] = Cons(u, TokensFrom(fmt)[j])
      BY <1>3, <3>2, TokensGoOn
    <3> QED BY <2>1, <2>3, <3>1, <3>3 DEF TokenHere
  <2>5. PICK q : q = Append(pre, t)
    OBVIOUS
  <2>6. IsSeq(q) /\ q \o r = pre \o Cons(t, r)
    BY <1>2, <2>4, <2>5, AppendThen, SeqAppend
  <2>7. /\ Argument(q, Len(q)) = Argument(pre, Len(pre)) + (IF Fetches(t.rule) THEN 1 ELSE 0)
        /\ Symbols(fmt, q) = Append(Symbols(fmt, pre), SymbolOf(fmt, t, Argument(q, Len(q))))
    BY <1>2, <2>5, SymbolsNext
  <2>8. args' = Argument(q, Len(q))
    BY <1>2, <1>6, <2>2, <2>7
  <2>9. input' = Append(input, [id |-> YYTRANSLATE(token'), value |-> yylval'])
    <3>1. ~(token' <= YYEOF)
      BY <1>6 DEF YYEOF
    <3> QED BY <1>1, <3>1 DEF ReadToken, Record
  <2>10. [id |-> YYTRANSLATE(token'), value |-> yylval'] = SymbolOf(fmt, t, Argument(q, Len(q)))
    BY <1>6, <2>1, <2>8
  <2>11. input' = Symbols(fmt, q)
    BY <1>2, <2>7, <2>9, <2>10
  <2>12. TokensOf(fmt) = q \o TokensFrom(fmt)[c_buf_p']
    BY <1>2, <1>6, <2>3, <2>4, <2>6
  <2>13. Along(c_buf_p)'
    BY <1>1, <2>6, <2>8, <2>11, <2>12 DEF Along
  <2>14. ~EndSeen'
    <3>1. PICK id, value : id = token' /\ value = yylval'
      OBVIOUS
    <3>2. id \in Nat \ {0} /\ ReadToken(id, value)
      BY <1>1, <1>6, <3>1
    <3> QED BY <3>2, EndNotYet
  <2> QED BY <1>1, <2>13, <2>14 DEF WholeInv
<1> QED BY <1>1, <1>4, <1>5, <1>6, TokenHandedOver

(* The scanner starts at the first token.                                  *)
LEMMA LoadAlong ==
  ASSUME SInv, AlongInv, Load
  PROVE  Along(c_buf_p)'
<1>1. fmt' = fmt /\ c_buf_p' = 1 /\ args' = 0 /\ input' = <<>>
  BY DEF Load, ScanString, AlongInv, results, pvars
<1>2. fmt \in Texts
  BY FormatsAreStrings DEF SInv, Texts
<1>3. Len(fmt) \in Nat /\ 1 \in 1..(Len(fmt) + 1)
  BY <1>2, LenProperties DEF Texts
<1>4. IsSeq(TokensFrom(fmt)[1]) /\ TokensOf(fmt) = TokensFrom(fmt)[1]
  BY <1>2, <1>3, TokensAre
<1>5. PICK e : e = <<>> /\ IsSeq(e) /\ Len(e) = 0
  BY SeqNone
<1>6. TokensOf(fmt) = e \o TokensFrom(fmt)[1]
  BY <1>4, <1>5, NoneThen
<1>7. Symbols(fmt, e) = <<>> /\ Argument(e, Len(e)) = 0
  BY <1>5, SymbolsNone, ArgumentNone
<1> QED BY <1>1, <1>5, <1>6, <1>7 DEF Along

(* Nothing has been read when a call begins.                               *)
LEMMA InitAlong == Init => AlongInv /\ WholeInv
<1> SUFFICES ASSUME Init PROVE AlongInv /\ WholeInv
  OBVIOUS
<1>1. /\ call = "start" /\ input = <<>> /\ args = 0
      /\ yychar = YYEMPTY /\ yyss = <<0>> /\ yyresult = -1
  BY DEF Init, SInit, ScannerIdle, PInit, ParserIdle
<1>2. Len(yyss) = 1 /\ yyss[1] = 0
  BY <1>1, SeqOne
<1>3. ~EndSeen
  BY <1>1, <1>2 DEF EndSeen, YYEMPTY, YYEOF, YYFINAL
<1> QED BY <1>1, <1>3 DEF AlongInv, WholeInv

(* What a step that neither reads nor parses leaves alone.                  *)
LEMMA WholeKept ==
  ASSUME WholeInv, UNCHANGED <<fmt, pvars>>
  PROVE  WholeInv'
  BY DEF WholeInv, EndSeen, pvars, stacks, SentenceOf

(* Every step of a call keeps the place and what was read right.           *)
LEMMA AlongStep ==
  ASSUME SInv, StackInv, NoResultYet, ScansLexer, Ascii, AlongInv, WholeInv, [Next]_vars
  PROVE  AlongInv' /\ WholeInv'
<1>1. CASE Start
  <2>1. UNCHANGED <<fmt, pvars, args>> /\ call = "start" /\ call' = "scan"
    BY <1>1 DEF Start, LexInit, results
  <2>2. WholeInv'
    BY <2>1, WholeKept
  <2> QED BY <2>1, <2>2 DEF AlongInv, pvars
<1>2. CASE StartFails \/ LoadFails \/ Refuse \/ Delete \/ Destroy \/ Run \/ FreeAll
  <2>1. UNCHANGED <<fmt, pvars>> /\ call' \notin {"start", "scan", "parse", "lex"}
    BY <1>2 DEF StartFails, LoadFails, Refuse, Delete, Destroy, Run, FreeAll,
                LexInitFails, ScanStringFails, DeleteBuffer, LexDestroy, svars
  <2>2. WholeInv'
    BY <2>1, WholeKept
  <2> QED BY <2>1, <2>2 DEF AlongInv
<1>3. CASE Load
  <2>1. UNCHANGED <<fmt, pvars>> /\ call' = "parse" /\ at' = "ready"
    BY <1>3 DEF Load, ScanString
  <2>2. Along(c_buf_p)'
    BY <1>3, LoadAlong
  <2>3. WholeInv'
    BY <2>1, WholeKept
  <2> QED BY <2>1, <2>2, <2>3 DEF AlongInv
<1>4. CASE CallYylex
  <2>1. /\ UNCHANGED <<fmt, pvars, args>> /\ call = "parse" /\ call' = "lex"
        /\ at' = "match" /\ text_ptr' = c_buf_p
    BY <1>4 DEF CallYylex, CallLex, results
  <2>2. Along(text_ptr)'
    BY <2>1 DEF AlongInv, Along, pvars
  <2>3. WholeInv'
    BY <2>1, WholeKept
  <2> QED BY <2>1, <2>2, <2>3 DEF AlongInv
<1>5. CASE Yylex
  <2>1. /\ UNCHANGED <<fmt, pvars, args, text_ptr>> /\ call = "lex" /\ call' = "lex"
    BY <1>5 DEF Yylex, Match, FindAction, LastMatch, MatchAgain, MatchedAgain,
                place, results, match
  <2>2. at' \in {"match", "find", "act", "again"}
    BY <1>5 DEF Yylex, Match, FindAction, LastMatch, MatchAgain, MatchedAgain
  <2>3. Along(text_ptr)'
    BY <2>1 DEF AlongInv, Along, pvars
  <2>4. WholeInv'
    BY <2>1, WholeKept
  <2> QED BY <2>1, <2>2, <2>3, <2>4 DEF AlongInv
<1>6. CASE YylexReturns
  <2>1. call = "lex" /\ call' = "parse"
    BY <1>6 DEF YylexReturns
  <2>2. Along(text_ptr)
    BY <2>1 DEF AlongInv
  <2>3. at' = "ready" /\ Along(c_buf_p)' /\ WholeInv'
    BY <1>6, <2>2, TokenAlong
  <2> QED BY <2>1, <2>3 DEF AlongInv
<1>7. CASE Yyparse
  <2>1. /\ UNCHANGED svars /\ call = "parse" /\ call' \in {"aborted", "parse"} /\ Step
    BY <1>7 DEF Yyparse
  <2>2. UNCHANGED <<fmt, at, args, c_buf_p>>
    BY <2>1 DEF svars, results, place
  <2>3. input' = input /\ (EndSeen' => EndSeen)
    BY <2>1, EndStays
  <2>4. WholeInv'
    BY <2>2, <2>3 DEF WholeInv, SentenceOf
  <2>5. at' = "ready" /\ Along(c_buf_p)'
    BY <2>1, <2>2, <2>3 DEF AlongInv, Along
  <2> QED BY <2>1, <2>4, <2>5 DEF AlongInv
<1>8. CASE UNCHANGED vars
  <2>1. UNCHANGED <<fmt, at, args, c_buf_p, text_ptr, pvars, call>>
    BY <1>8 DEF vars, svars, results, place
  <2>2. WholeInv'
    BY <2>1, WholeKept
  <2>3. Along(c_buf_p)' = Along(c_buf_p) /\ Along(text_ptr)' = Along(text_ptr)
    BY <2>1 DEF Along, pvars
  <2> QED BY <2>1, <2>2, <2>3 DEF AlongInv, pvars
<1> QED BY <1>1, <1>2, <1>3, <1>4, <1>5, <1>6, <1>7, <1>8 DEF Next

(* No step changes the format.                                             *)
LEMMA FormatStays ==
  ASSUME [Next]_vars
  PROVE  fmt' = fmt
<1>1. CASE Start \/ StartFails \/ Load \/ LoadFails
  BY <1>1 DEF Start, StartFails, Load, LoadFails, LexInit, LexInitFails, ScanString,
              ScanStringFails
<1>2. CASE CallYylex \/ Yylex
  BY <1>2 DEF CallYylex, CallLex, Yylex, Match, FindAction, LastMatch, MatchAgain,
              MatchedAgain
<1>3. CASE YylexReturns
  BY <1>3 DEF YylexReturns, Return, ReturnSyllable, ReturnOperator, ReturnByte, EndOfFile
<1>4. CASE Yyparse \/ Refuse \/ Run \/ FreeAll \/ UNCHANGED vars
  BY <1>4 DEF Yyparse, Refuse, Run, FreeAll, vars, svars
<1>5. CASE Delete \/ Destroy
  BY <1>5 DEF Delete, Destroy, DeleteBuffer, LexDestroy
<1> QED BY <1>1, <1>2, <1>3, <1>4, <1>5 DEF Next

(* What was read is the beginning of the sentence.                         *)
LEMMA ReadIsBeginning ==
  ASSUME SInv, AlongInv, call = "parse"
  PROVE  Begins(input, SentenceOf(fmt))
<1>1. fmt \in Texts
  BY FormatsAreStrings DEF SInv, Texts
<1>2. at = "ready" /\ c_buf_p \in 1..(Len(fmt) + 1)
  BY DEF AlongInv, SInv, N
<1>3. PICK pre : /\ IsSeq(pre)
                 /\ TokensOf(fmt) = pre \o TokensFrom(fmt)[c_buf_p]
                 /\ input = Symbols(fmt, pre)
  BY DEF AlongInv, Along
<1>4. PICK r : r = TokensFrom(fmt)[c_buf_p] /\ IsSeq(r)
  BY <1>1, <1>2, TokensAre
<1>5. PICK f : f = fmt
  OBVIOUS
<1>6. Begins(Symbols(f, pre), Symbols(f, pre \o r))
  BY <1>3, <1>4, SymbolsGoOn
<1>7. input = Symbols(f, pre) /\ SentenceOf(fmt) = Symbols(f, pre \o r)
  BY <1>3, <1>4, <1>5 DEF SentenceOf
<1> QED BY <1>6, <1>7

(* No sentence goes on from the dead phase.                                 *)
LEMMA DeadIsDead ==
  ASSUME NEW s, InPhase(s, "dead"), NEW t, IsSeq(t)
  PROVE  ~IsSentence(s \o t)
<1>1. IsSentence(s \o t) <=> Continues("dead", t)
  BY DEF InPhase
<1>2. ~InCommand("dead", Head(Commands(t)))
  <2>1. ~HeadOk("dead", FrontOf(Head(Commands(t))))
    BY DEF HeadOk
  <2> QED BY <2>1 DEF InCommand
<1> QED BY <1>1, <1>2 DEF Continues

(* RunsWhatIsWritten for every format of ASCII bytes, whatever the other    *)
(* formats are.  A call of systemf1 (systemf.c) runs exactly the formats    *)
(* that are sentences of parser.y in the tokens that lexer.l finds in them, *)
(* and what it runs has the commands, words, conditions and redirections of *)
(* the sentence, each conversion with the argument at its place.  A byte    *)
(* above 127 is a negative token, which yyparse takes for the end of the    *)
(* input (the run NonAscii), so that no such theorem holds of it.           *)
THEOREM CallsRunWhatIsWritten == Spec => [](fmt \in Seq(1..127) => RunsWhatIsWritten)
<1> DEFINE Read == Ascii => AlongInv /\ WholeInv
<1>1. Init => Read
  BY InitAlong
<1>2. SInv /\ (StackInv /\ NoResultYet) /\ ScansLexer /\ Read /\ [Next]_vars => Read'
  <2> SUFFICES ASSUME SInv, StackInv, NoResultYet, ScansLexer, Read, [Next]_vars, Ascii'
               PROVE  AlongInv' /\ WholeInv'
    OBVIOUS
  <2>1. fmt' = fmt
    BY FormatStays
  <2>2. Ascii
    BY <2>1 DEF Ascii
  <2>3. AlongInv /\ WholeInv
    BY <2>2
  <2> QED BY <2>2, <2>3, AlongStep
<1>3. /\ SInv /\ (StackInv /\ NoResultYet) /\ BooksInv /\ Read
      /\ AcceptsOnlySentences /\ Answers
      => (fmt \in Seq(1..127) => RunsWhatIsWritten)
  <2> SUFFICES ASSUME SInv, BooksInv, Read, AcceptsOnlySentences, Answers, Ascii
               PROVE  RunsWhatIsWritten
    BY DEF Ascii
  <2>1. AlongInv /\ WholeInv
    OBVIOUS
  <2>2. ASSUME call = "run"
        PROVE  IsSentence(SentenceOf(fmt)) /\ Means(tasks, SentenceOf(fmt))
    <3>1. yyresult = 0
      BY <2>2 DEF BooksInv, CallInv
    <3>2. input = SentenceOf(fmt)
      BY <2>1, <3>1 DEF WholeInv, EndSeen
    <3> QED BY <3>1, <3>2 DEF AcceptsOnlySentences
  <2>3. ASSUME call = "parse", yyresult = 1
        PROVE  ~IsSentence(SentenceOf(fmt))
    <3>1. CASE yychar = YYEOF
      <4>1. input = SentenceOf(fmt)
        BY <2>1, <3>1 DEF WholeInv, EndSeen
      <4>2. ~IsSentence(input)
        BY <2>3 DEF Answers, RefusesNoSentence
      <4> QED BY <4>1, <4>2
    <3>2. CASE yychar # YYEOF
      <4>1. PICK s : s = input
        OBVIOUS
      <4>2. InPhase(s, "dead")
        BY <2>3, <3>2, <4>1 DEF Answers
      <4>3. PICK t : IsSeq(t) /\ SentenceOf(fmt) = s \o t
        BY <2>1, <2>3, <4>1, ReadIsBeginning DEF Begins
      <4> QED BY <4>2, <4>3, DeadIsDead
    <3> QED BY <3>1, <3>2
  <2> QED BY <2>2, <2>3 DEF RunsWhatIsWritten
<1> QED
  BY <1>1, <1>2, <1>3, UsesScanner, ScannerInvariant, CallsScanLexer, UsesParser,
     StackInvariant, ValuesInvariant, BooksBalance, AcceptsAreRight, AnswersAreRight,
     PTL DEF Spec

=============================================================================
