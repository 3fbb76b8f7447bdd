----------------------------- MODULE Words_proofs -----------------------------
(***************************************************************************)
(* What becomes of the words of a command, for words of any number of      *)
(* syllables, texts of any length and globs that find any number of names: *)
(* the two walks that merge a word agree, its trusted path is the          *)
(* documented one, argv fits and holds what the command says, and nothing  *)
(* gets into it unchecked.                                                 *)
(***************************************************************************)
EXTENDS Words, FiniteSetTheorems, SequenceTheorems, Induction

(***************************************************************************)
(* Joined sequences                                                        *)
(***************************************************************************)
(* f joins the sequences ss one by one.                                     *)
Joins(f, S, ss) ==
  /\ f \in [0..Len(ss) -> Seq(S)] /\ f[0] = <<>>
  /\ \A n \in 1..Len(ss) : f[n] = f[n - 1] \o ss[n]

(* FlattenSeq is defined by such a function.                                *)
LEMMA FlattenIs ==
  ASSUME NEW S, NEW ss \in Seq(Seq(S))
  PROVE  \E f : Joins(f, S, ss) /\ FlattenSeq(ss) = f[Len(ss)]
<1> DEFINE m == Len(ss)
           V == Seq(S)
           step == [x \in (1..m) \X V |-> x[2] \o ss[x[1]]]
<1>1. m \in Nat /\ <<>> \in V /\ \A n \in 1..m : ss[n] \in V
  OBVIOUS
<1>2. step \in [(1..m) \X V -> V]
  BY <1>1
<1> HIDE DEF m
<1>3. PICK f : Recurses(f, V, <<>>, m, step)
  <2>1. m \in Nat /\ <<>> \in V
    BY <1>1
  <2> HIDE DEF step, V
  <2> QED BY <1>2, <2>1, RecursionExists
<1>4. f \in [0..m -> V] /\ f[0] = <<>> /\ \A n \in 1..m : f[n] = step[<<n, f[n - 1]>>]
  BY <1>3 DEF Recurses
<1>5. \A n \in 1..m : f[n] = f[n - 1] \o ss[n]
  <2>1. \A n \in 1..m : n - 1 \in 0..m /\ f[n - 1] \in V
    BY <1>1, <1>4
  <2> QED BY <1>4, <2>1
<1>6. Joins(f, S, ss)
  BY <1>4, <1>5 DEF Joins, m
<1>7. CASE m = 0
  <2>1. ss = <<>>
    BY <1>7, EmptySeq DEF m
  <2>2. FlattenSeq(ss) = <<>>
    BY <1>7, <2>1 DEF FlattenSeq, m
  <2> QED BY <1>4, <1>6, <1>7, <2>2 DEF m
<1>8. CASE m # 0
  <2> DEFINE Is(g) == g = [n \in 1..m |-> IF n = 1 THEN ss[n] ELSE g[n - 1] \o ss[n]]
             f1 == [n \in 1..m |-> f[n]]
             g1 == CHOOSE g : Is(g)
  <2>1. FlattenSeq(ss) = g1[m]
    BY <1>8 DEF FlattenSeq, m
  <2>2. Is(f1)
    <3> SUFFICES ASSUME NEW n \in 1..m
                 PROVE  f[n] = IF n = 1 THEN ss[n] ELSE f1[n - 1] \o ss[n]
      OBVIOUS
    <3>1. f[n] = f[n - 1] \o ss[n] /\ ss[n] \in V
      BY <1>1, <1>5
    <3>2. CASE n = 1
      <4>0. f[n - 1] = <<>>
        BY <1>4, <3>2
      <4>1. f[n] = <<>> \o ss[n]
        BY <3>1, <4>0
      <4> QED BY <3>1, <3>2, <4>1, ConcatEmptySeq
    <3>3. CASE n # 1
      <4>1. n - 1 \in 1..m
        BY <1>1, <3>3
      <4> QED BY <3>1, <3>3, <4>1
    <3> QED BY <3>2, <3>3
  <2>3. Is(g1)
    <3> HIDE DEF Is, f1
    <3> QED BY <2>2
  <2> HIDE DEF g1
  <2> DEFINE T == {n \in Nat : n >= 1 /\ n <= m => g1[n] = f[n]}
  <2>4. ASSUME NEW n \in Nat, n \in T PROVE n + 1 \in T
    <3> SUFFICES ASSUME n + 1 >= 1, n + 1 <= m PROVE g1[n + 1] = f[n + 1]
      OBVIOUS
    <3>1. n + 1 \in 1..m /\ (n + 1) - 1 = n
      BY <1>1
    <3> DEFINE G(x) == IF x = 1 THEN ss[x] ELSE g1[x - 1] \o ss[x]
               F(x) == IF x = 1 THEN ss[x] ELSE f1[x - 1] \o ss[x]
    <3>a. \A x \in 1..m : g1[x] = G(x)
      <4>1. g1 = [x \in 1..m |-> G(x)]
        BY <2>3
      <4> HIDE DEF G
      <4> QED BY <4>1
    <3>b. \A x \in 1..m : f[x] = F(x)
      <4>1. f1 = [x \in 1..m |-> F(x)]
        BY <2>2
      <4> HIDE DEF F
      <4> QED BY <4>1
    <3>2. g1[n + 1] = IF n + 1 = 1 THEN ss[n + 1] ELSE g1[n] \o ss[n + 1]
      <4>1. g1[n + 1] = G(n + 1)
        BY <3>1, <3>a
      <4> QED BY <3>1, <4>1
    <3>3. f[n + 1] = IF n + 1 = 1 THEN ss[n + 1] ELSE f1[n] \o ss[n + 1]
      <4>1. f[n + 1] = F(n + 1)
        BY <3>1, <3>b
      <4> QED BY <3>1, <4>1
    <3>4. CASE n = 0
      BY <3>2, <3>3, <3>4
    <3>5. CASE n # 0
      <4>1. n \in 1..m /\ g1[n] = f[n]
        BY <1>1, <2>4, <3>5
      <4>2. f1[n] = f[n]
        BY <4>1
      <4> QED BY <3>2, <3>3, <3>5, <4>1, <4>2
    <3> QED BY <3>4, <3>5
  <2>5. 0 \in T
    OBVIOUS
  <2>6. Nat \subseteq T
    <3> HIDE DEF T
    <3> QED BY <2>4, <2>5, SetInduction
  <2>7. g1[m] = f[m]
    BY <1>1, <1>8, <2>6
  <2> QED BY <1>6, <2>1, <2>7 DEF m
<1> QED BY <1>7, <1>8

(* Sequences that begin alike are joined alike.                             *)
LEMMA JoinsAlike ==
  ASSUME NEW S, NEW ss \in Seq(Seq(S)), NEW tt \in Seq(Seq(S)), NEW f, NEW g,
         Joins(f, S, ss), Joins(g, S, tt), NEW m \in Nat, m <= Len(ss), m <= Len(tt),
         \A n \in 1..m : ss[n] = tt[n]
  PROVE  f[m] = g[m]
<1> DEFINE T == {n \in 0..m : f[n] = g[n]}
<1>1. 0 \in T
  BY DEF Joins
<1>2. ASSUME NEW n \in 0..(m - 1), n \in T PROVE n + 1 \in T
  <2>1. n + 1 \in 1..m /\ n + 1 \in 1..Len(ss) /\ n + 1 \in 1..Len(tt) /\ (n + 1) - 1 = n
    OBVIOUS
  <2>2. f[n + 1] = f[n] \o ss[n + 1]
    BY <2>1 DEF Joins
  <2>3. g[n + 1] = g[n] \o tt[n + 1]
    BY <2>1 DEF Joins
  <2>4. f[n] = g[n] /\ ss[n + 1] = tt[n + 1] /\ n + 1 \in 0..m
    BY <1>2, <2>1
  <2> QED BY <2>2, <2>3, <2>4
<1>3. \A n \in 0..m : n \in T
  <2> HIDE DEF T
  <2> QED BY <1>1, <1>2, BoundedInduction
<1> QED BY <1>3

(* The first n entries of ss, joined.                                       *)
FlatTo(ss, n) == FlattenSeq([m \in 1..n |-> ss[m]])

(* The joined first n sequences, step by step.                              *)
LEMMA FlatToFacts ==
  ASSUME NEW S, NEW ss \in Seq(Seq(S))
  PROVE  /\ Len(ss) \in Nat
         /\ FlatTo(ss, 0) = <<>>
         /\ \A n \in 0..Len(ss) : FlatTo(ss, n) \in Seq(S)
         /\ \A n \in 1..Len(ss) : FlatTo(ss, n) = FlatTo(ss, n - 1) \o ss[n]
         /\ FlattenSeq(ss) = FlatTo(ss, Len(ss))
<1>1. PICK f : Joins(f, S, ss) /\ FlattenSeq(ss) = f[Len(ss)]
  BY FlattenIs
<1>2. ASSUME NEW n \in 0..Len(ss) PROVE FlatTo(ss, n) = f[n]
  <2> DEFINE tt == [m \in 1..n |-> ss[m]]
  <2>1. tt \in Seq(Seq(S)) /\ Len(tt) = n /\ n \in Nat /\ n <= Len(ss) /\ \A m \in 1..n : ss[m] = tt[m]
    OBVIOUS
  <2> HIDE DEF tt
  <2>2. PICK g : Joins(g, S, tt) /\ FlattenSeq(tt) = g[Len(tt)]
    BY <2>1, FlattenIs
  <2>3. f[n] = g[n]
    BY <1>1, <2>1, <2>2, JoinsAlike
  <2> QED BY <2>1, <2>2, <2>3 DEF FlatTo, tt
<1>3. Len(ss) \in Nat
  OBVIOUS
<1>4. \A n \in 1..Len(ss) : n \in 0..Len(ss) /\ n - 1 \in 0..Len(ss)
  BY <1>3
<1>5. 0 \in 0..Len(ss) /\ Len(ss) \in 0..Len(ss)
  BY <1>3
<1>6. f \in [0..Len(ss) -> Seq(S)] /\ f[0] = <<>> /\ \A n \in 1..Len(ss) : f[n] = f[n - 1] \o ss[n]
  BY <1>1 DEF Joins
<1> QED BY <1>1, <1>2, <1>3, <1>4, <1>5, <1>6

(* A longer beginning only adds to what is joined.                          *)
LEMMA FlatToGrows ==
  ASSUME NEW S, NEW ss \in Seq(Seq(S)), NEW m \in 0..Len(ss), NEW n \in 0..m
  PROVE  /\ Len(FlatTo(ss, n)) <= Len(FlatTo(ss, m))
         /\ \A h \in 1..Len(FlatTo(ss, n)) : FlatTo(ss, m)[h] = FlatTo(ss, n)[h]
<1> DEFINE a == FlatTo(ss, n)
           b(h) == FlatTo(ss, n + h)
           T == {h \in 0..(m - n) : Len(a) <= Len(b(h)) /\ \A x \in 1..Len(a) : b(h)[x] = a[x]}
<1>1. Len(ss) \in Nat /\ a \in Seq(S) /\ m - n \in Nat
      /\ \A h \in 0..(m - n) : b(h) \in Seq(S)
  <2>1. Len(ss) \in Nat /\ m - n \in Nat /\ n \in 0..Len(ss)
        /\ \A h \in 0..(m - n) : n + h \in 0..Len(ss)
    OBVIOUS
  <2>2. \A x \in 0..Len(ss) : FlatTo(ss, x) \in Seq(S)
    BY FlatToFacts
  <2> QED BY <2>1, <2>2
<1>2. 0 \in T
  BY <1>1
<1>3. ASSUME NEW h \in 0..((m - n) - 1), h \in T PROVE h + 1 \in T
  <2>1. n + (h + 1) \in 1..Len(ss) /\ (n + (h + 1)) - 1 = n + h /\ h \in 0..(m - n) /\ h + 1 \in 0..(m - n)
    BY <1>1
  <2>2. b(h + 1) = b(h) \o ss[n + (h + 1)]
    BY <2>1, FlatToFacts
  <2> DEFINE p == b(h)
             q == ss[n + (h + 1)]
  <2>3. p \in Seq(S) /\ q \in Seq(S) /\ b(h + 1) = p \o q
    <3>1. p \in Seq(S)
      BY <1>1, <2>1
    <3>2. q \in Seq(S)
      <4> DEFINE x == n + (h + 1)
      <4>1. x \in 1..Len(ss)
        BY <2>1
      <4> HIDE DEF x
      <4>2. ss[x] \in Seq(S)
        BY <4>1
      <4> QED BY <4>2 DEF x
    <3> QED BY <2>2, <3>1, <3>2
  <2>4. Len(a) <= Len(p) /\ \A x \in 1..Len(a) : p[x] = a[x]
    BY <1>3
  <2> HIDE DEF a, b, p, q
  <2>5. Len(p \o q) = Len(p) + Len(q) /\ Len(p) \in Nat /\ Len(q) \in Nat /\ Len(a) \in Nat
        /\ \A x \in 1..Len(p) : (p \o q)[x] = p[x]
    BY <1>1, <2>3
  <2>6. Len(a) <= Len(b(h + 1)) /\ \A x \in 1..Len(a) : b(h + 1)[x] = a[x]
    BY <2>3, <2>4, <2>5
  <2> QED BY <2>1, <2>6
<1>4. \A h \in 0..(m - n) : h \in T
  <2> HIDE DEF T
  <2> QED BY <1>1, <1>2, <1>3, BoundedInduction
<1>5. m - n \in T /\ n + (m - n) = m
  BY <1>1, <1>4
<1> QED BY <1>5

(***************************************************************************)
(* The last slash                                                          *)
(***************************************************************************)
(* Nothing behind n is a slash, and n is one or the beginning.              *)
EndsAt(s, n) ==
  /\ n \in 0..Len(s) /\ (n > 0 => s[n] = "/")
  /\ \A m \in (n + 1)..Len(s) : s[m] # "/"

(* A text has one such place.                                               *)
LEMMA LastSlashIs ==
  ASSUME NEW s \in Text
  PROVE  /\ EndsAt(s, LastSlash(s))
         /\ \A n : EndsAt(s, n) => n = LastSlash(s)
<1> DEFINE slashes == Places({"/"}, s)
           len == Len(s)
<1>1. len \in Nat /\ slashes = {n \in 1..len : s[n] = "/"}
  BY DEF Places, Text
<1>2. CASE slashes = {}
  <2>1. LastSlash(s) = 0
    BY <1>2 DEF LastSlash
  <2>2. EndsAt(s, 0)
    BY <1>1, <1>2 DEF EndsAt
  <2>3. ASSUME NEW n, EndsAt(s, n) PROVE n = 0
    BY <1>1, <1>2, <2>3 DEF EndsAt
  <2> QED BY <2>1, <2>2, <2>3
<1>3. CASE slashes # {}
  <2> DEFINE T == {n \in 0..len : (\A m \in slashes : m > n) \/ \E x \in slashes : \A m \in slashes : m <= n => m <= x}
  <2>1. 0 \in T
    BY <1>1
  <2>2. ASSUME NEW n \in 0..(len - 1), n \in T PROVE n + 1 \in T
    <3>1. CASE n + 1 \in slashes
      <4>1. \A m \in slashes : m <= n + 1 => m <= n + 1
        OBVIOUS
      <4> QED BY <1>1, <3>1, <4>1
    <3>2. CASE n + 1 \notin slashes
      <4>1. \A m \in slashes : m \in Nat /\ (m <= n + 1 => m <= n)
        BY <1>1, <3>2
      <4> QED BY <1>1, <2>2, <4>1
    <3> QED BY <3>1, <3>2
  <2>3. \A n \in 0..len : n \in T
    <3> HIDE DEF T, slashes, len
    <3> QED BY <1>1, <2>1, <2>2, BoundedInduction
  <2>4. len \in T
    <3>1. len \in 0..len
      BY <1>1
    <3> HIDE DEF T, slashes, len
    <3> QED BY <2>3, <3>1
  <2>5. PICK x \in slashes : \A m \in slashes : m <= x
    BY <1>1, <1>3, <2>4
  <2> DEFINE c == CHOOSE n \in slashes : \A m \in slashes : m <= n
  <2>6. c \in slashes /\ \A m \in slashes : m <= c
    BY <2>5
  <2>7. LastSlash(s) = c
    BY <1>3 DEF LastSlash
  <2> HIDE DEF c
  <2>8. EndsAt(s, c)
    BY <1>1, <2>6 DEF EndsAt
  <2>9. ASSUME NEW n, EndsAt(s, n) PROVE n = c
    <3>1. n \in 0..len /\ (n > 0 => s[n] = "/") /\ \A m \in (n + 1)..len : s[m] # "/"
      BY <2>9 DEF EndsAt
    <3>2. c \in 1..len /\ s[c] = "/"
      BY <1>1, <2>6
    <3>3. c <= n
      BY <1>1, <3>1, <3>2
    <3>4. n \in slashes
      BY <1>1, <3>1, <3>2, <3>3
    <3> QED BY <1>1, <2>6, <3>1, <3>2, <3>3, <3>4
  <2> QED BY <2>7, <2>8, <2>9
<1> QED BY <1>2, <1>3

(* ... of two texts in a row: that of the second, if it has a slash.        *)
LEMMA LastSlashJoined ==
  ASSUME NEW a \in Text, NEW b \in Text
  PROVE  LastSlash(a \o b) = IF LastSlash(b) > 0 THEN Len(a) + LastSlash(b) ELSE LastSlash(a)
<1> DEFINE p == a \o b
           x == LastSlash(a)
           y == LastSlash(b)
<1>1. /\ p \in Text /\ Len(p) = Len(a) + Len(b) /\ Len(a) \in Nat /\ Len(b) \in Nat
      /\ \A n \in 1..Len(a) : p[n] = a[n]
      /\ \A n \in 1..Len(b) : p[Len(a) + n] = b[n]
  BY DEF Text
<1>2. EndsAt(a, x) /\ EndsAt(b, y)
  BY LastSlashIs
<1> HIDE DEF p, x, y
<1>3. x \in 0..Len(a) /\ (x > 0 => a[x] = "/") /\ \A m \in (x + 1)..Len(a) : a[m] # "/"
  BY <1>2 DEF EndsAt
<1>4. y \in 0..Len(b) /\ (y > 0 => b[y] = "/") /\ \A m \in (y + 1)..Len(b) : b[m] # "/"
  BY <1>2 DEF EndsAt
<1>5. CASE y > 0
  <2>1. p[Len(a) + y] = "/"
    BY <1>1, <1>4, <1>5
  <2>2. ASSUME NEW m \in ((Len(a) + y) + 1)..Len(p) PROVE p[m] # "/"
    <3>1. m - Len(a) \in (y + 1)..Len(b) /\ m - Len(a) \in 1..Len(b) /\ Len(a) + (m - Len(a)) = m
      BY <1>1, <1>4
    <3>2. p[Len(a) + (m - Len(a))] = b[m - Len(a)]
      BY <1>1, <3>1
    <3>3. b[m - Len(a)] # "/"
      BY <1>4, <3>1
    <3> QED BY <3>1, <3>2, <3>3
  <2>3. EndsAt(p, Len(a) + y)
    BY <1>1, <1>4, <1>5, <2>1, <2>2 DEF EndsAt
  <2>4. Len(a) + y = LastSlash(p)
    BY <1>1, <2>3, LastSlashIs
  <2> QED BY <1>5, <2>4 DEF p, y
<1>6. CASE ~(y > 0)
  <2>1. x > 0 => p[x] = "/"
    BY <1>1, <1>3
  <2>2. ASSUME NEW m \in (x + 1)..Len(p) PROVE p[m] # "/"
    <3>1. CASE m <= Len(a)
      <4>1. m \in (x + 1)..Len(a) /\ m \in 1..Len(a)
        BY <1>1, <1>3, <3>1
      <4> QED BY <1>1, <1>3, <4>1
    <3>2. CASE ~(m <= Len(a))
      <4>1. m - Len(a) \in (y + 1)..Len(b) /\ m - Len(a) \in 1..Len(b) /\ Len(a) + (m - Len(a)) = m
        BY <1>1, <1>3, <1>4, <1>6, <3>2
      <4>2. p[Len(a) + (m - Len(a))] = b[m - Len(a)]
        BY <1>1, <4>1
      <4>3. b[m - Len(a)] # "/"
        BY <1>4, <4>1
      <4> QED BY <4>1, <4>2, <4>3
    <3> QED BY <3>1, <3>2
  <2>3. EndsAt(p, x)
    BY <1>1, <1>3, <2>1, <2>2 DEF EndsAt
  <2>4. x = LastSlash(p)
    BY <1>1, <2>3, LastSlashIs
  <2> QED BY <1>6, <2>4 DEF p, x, y
<1> QED BY <1>5, <1>6

(***************************************************************************)
(* Escaped texts                                                           *)
(***************************************************************************)
(* One byte more for each wildcard.                                         *)
LEMMA EscapedFacts ==
  ASSUME NEW s \in Text
  PROVE  /\ Escaped(s) \in Text /\ Len(s) \in Nat
         /\ Cardinality(Places(GlobChars, s)) \in Nat
         /\ Len(Escaped(s)) = Len(s) + Cardinality(Places(GlobChars, s))
<1> DEFINE len == Len(s)
           e == [n \in 1..len |-> IF s[n] \in GlobChars THEN <<"\\", s[n]>> ELSE <<s[n]>>]
           P(n) == {m \in 1..n : s[m] \in GlobChars}
           T == {n \in 0..len : Len(FlatTo(e, n)) = n + Cardinality(P(n))}
<1>1. len \in Nat /\ DOMAIN s = 1..len /\ \A n \in 1..len : s[n] \in Chars
  BY DEF Text
<1>2. \A n \in 1..len : /\ e[n] \in Seq(Chars)
                        /\ Len(e[n]) = IF s[n] \in GlobChars THEN 2 ELSE 1
  <2> SUFFICES ASSUME NEW n \in 1..len
               PROVE  e[n] \in Seq(Chars) /\ Len(e[n]) = IF s[n] \in GlobChars THEN 2 ELSE 1
    OBVIOUS
  <2>1. "\\" \in Chars /\ s[n] \in Chars
    BY <1>1, WordsAssumption
  <2>2. e[n] = IF s[n] \in GlobChars THEN <<"\\", s[n]>> ELSE <<s[n]>>
    OBVIOUS
  <2>3. <<"\\", s[n]>> \in Seq(Chars) /\ Len(<<"\\", s[n]>>) = 2
    BY <2>1
  <2>4. <<s[n]>> \in Seq(Chars) /\ Len(<<s[n]>>) = 1
    BY <2>1
  <2> HIDE DEF e
  <2> QED BY <2>2, <2>3, <2>4
<1>3. e \in Seq(Seq(Chars)) /\ Len(e) = len /\ Escaped(s) = FlattenSeq(e)
  <2>1. DOMAIN e = 1..len
    OBVIOUS
  <2>2. Escaped(s) = FlattenSeq(e)
    BY <1>1 DEF Escaped
  <2> HIDE DEF e
  <2>3. e = [n \in 1..len |-> e[n]]
    BY <2>1 DEF e
  <2>4. e \in [1..len -> Seq(Chars)]
    BY <1>2, <2>3
  <2> QED BY <1>1, <2>2, <2>4
<1> HIDE DEF e
<1>4. \A n \in 0..len : IsFiniteSet(P(n)) /\ Cardinality(P(n)) \in Nat
  <2> SUFFICES ASSUME NEW n \in 0..len PROVE IsFiniteSet(P(n)) /\ Cardinality(P(n)) \in Nat
    OBVIOUS
  <2>1. n \in Int /\ 1 \in Int
    BY <1>1
  <2>2. IsFiniteSet(1..n)
    BY <2>1, FS_Interval
  <2>3. IsFiniteSet(P(n))
    BY <2>2, FS_Subset
  <2> QED BY <2>3, FS_CardinalityType
<1>5. 0 \in T
  <2>1. P(0) = {}
    OBVIOUS
  <2>2. FlatTo(e, 0) = <<>>
    BY <1>3, FlatToFacts
  <2> QED BY <1>1, <2>1, <2>2, FS_EmptySet
<1>6. ASSUME NEW n \in 0..(len - 1), n \in T PROVE n + 1 \in T
  <2>1. n \in 0..len /\ n + 1 \in 0..len /\ n + 1 \in 1..len /\ (n + 1) - 1 = n
    BY <1>1
  <2>2. FlatTo(e, n + 1) = FlatTo(e, n) \o e[n + 1]
    BY <1>3, <2>1, FlatToFacts
  <2>3. FlatTo(e, n) \in Seq(Chars) /\ e[n + 1] \in Seq(Chars)
    BY <1>2, <1>3, <2>1, FlatToFacts
  <2>4. Len(FlatTo(e, n + 1)) = Len(FlatTo(e, n)) + Len(e[n + 1])
    <3> DEFINE p == FlatTo(e, n)
               q == e[n + 1]
    <3> HIDE DEF p, q
    <3>1. p \in Seq(Chars) /\ q \in Seq(Chars)
      BY <2>3 DEF p, q
    <3>2. Len(p \o q) = Len(p) + Len(q)
      BY <3>1
    <3> QED BY <2>2, <3>2 DEF p, q
  <2>5. Len(FlatTo(e, n)) = n + Cardinality(P(n))
    BY <1>6
  <2>6. CASE s[n + 1] \in GlobChars
    <3>1. P(n + 1) = P(n) \cup {n + 1} /\ n + 1 \notin P(n)
      BY <2>1, <2>6
    <3>2. Cardinality(P(n + 1)) = Cardinality(P(n)) + 1
      <4> HIDE DEF P
      <4> QED BY <1>4, <2>1, <3>1, FS_AddElement
    <3>3. Len(e[n + 1]) = 2
      BY <1>2, <2>1, <2>6
    <3> QED
      <4> HIDE DEF P
      <4> QED BY <1>4, <2>1, <2>4, <2>5, <3>2, <3>3
  <2>7. CASE s[n + 1] \notin GlobChars
    <3>1. P(n + 1) = P(n)
      BY <2>1, <2>7
    <3>2. Len(e[n + 1]) = 1
      BY <1>2, <2>1, <2>7
    <3> QED
      <4> HIDE DEF P
      <4> QED BY <1>4, <2>1, <2>4, <2>5, <3>1, <3>2
  <2> QED BY <2>6, <2>7
<1>7. len \in T
  <2>1. \A n \in 0..len : n \in T
    <3> HIDE DEF T, len
    <3> QED BY <1>1, <1>5, <1>6, BoundedInduction
  <2> QED BY <1>1, <2>1
<1>8. Places(GlobChars, s) = P(len) /\ len \in 0..len
  BY <1>1 DEF Places
<1>9. Escaped(s) = FlatTo(e, len) /\ FlatTo(e, len) \in Seq(Chars)
  BY <1>1, <1>3, <1>8, FlatToFacts
<1> QED BY <1>1, <1>4, <1>7, <1>8, <1>9 DEF Text

(***************************************************************************)
(* The syllables of a word                                                 *)
(***************************************************************************)
(* The texts of the syllables of a word, as they are and as a pattern.      *)
Texts(w) == [m \in 1..Len(w) |-> w[m].text]
Patterns(w) ==
  [m \in 1..Len(w) |-> IF "escape" \in w[m].flags THEN Escaped(w[m].text) ELSE w[m].text]

(* A syllable that the trusted path may go through.                         *)
Plain(s) == "trusted" \in s.flags /\ "glob" \notin s.flags

(* The first c syllables are those before anything untrusted or any         *)
(* wildcard, as far as the first n go.                                      *)
Leads(w, n, c) ==
  /\ c \in 0..n /\ \A m \in 1..c : Plain(w[m])
  /\ c < n => ~Plain(w[c + 1])

(* The types of both, entry by entry.                                       *)
LEMMA TextsFacts ==
  ASSUME NEW w \in Seq(Syllable)
  PROVE  /\ Len(w) \in Nat
         /\ Texts(w) \in Seq(Seq(Chars)) /\ Len(Texts(w)) = Len(w)
         /\ Patterns(w) \in Seq(Seq(Chars)) /\ Len(Patterns(w)) = Len(w)
         /\ \A m \in 1..Len(w) : /\ w[m] \in Syllable /\ w[m].text \in Text
                                 /\ Texts(w)[m] = w[m].text
                                 /\ Patterns(w)[m] = IF "escape" \in w[m].flags
                                                     THEN Escaped(w[m].text) ELSE w[m].text
         /\ Joined(w) = FlatTo(Texts(w), Len(w))
<1> DEFINE len == Len(w)
<1>0. len \in Nat /\ \A m \in 1..len : w[m] \in Syllable
  OBVIOUS
<1>1. len \in Nat /\ \A m \in 1..len : w[m] \in Syllable /\ w[m].text \in Text
  <2>1. \A s \in Syllable : s.text \in Text
    BY DEF Syllable
  <2> QED BY <1>0, <2>1
<1>2. \A m \in 1..len : Escaped(w[m].text) \in Text
  BY <1>1, EscapedFacts
<1>3. Texts(w) = [m \in 1..len |-> w[m].text]
      /\ Patterns(w) = [m \in 1..len |-> IF "escape" \in w[m].flags
                                         THEN Escaped(w[m].text) ELSE w[m].text]
  BY DEF Texts, Patterns
<1> DEFINE a == Texts(w)
           b == Patterns(w)
<1>4. a \in [1..len -> Text] /\ \A m \in 1..len : a[m] = w[m].text
  BY <1>1, <1>3
<1>5. b \in [1..len -> Text] /\ \A m \in 1..len : b[m] = IF "escape" \in w[m].flags
                                                        THEN Escaped(w[m].text) ELSE w[m].text
  BY <1>1, <1>2, <1>3
<1>6. Joined(w) = FlattenSeq(a)
  <2>1. DOMAIN w = 1..len
    OBVIOUS
  <2>2. Joined(w) = FlattenSeq([m \in 1..len |-> w[m].text])
    BY <2>1 DEF Joined
  <2> QED BY <1>3, <2>2
<1> HIDE DEF len, a, b
<1>7. a \in Seq(Seq(Chars)) /\ Len(a) = len /\ b \in Seq(Seq(Chars)) /\ Len(b) = len
  BY <1>1, <1>4, <1>5 DEF Text
<1>8. FlattenSeq(a) = FlatTo(a, Len(a))
  BY <1>7, FlatToFacts
<1> QED BY <1>1, <1>4, <1>5, <1>6, <1>7, <1>8 DEF len, a, b

(* One syllable more.                                                       *)
LEMMA NextSyllable ==
  ASSUME NEW w \in Seq(Syllable), NEW n \in 1..Len(w)
  PROVE  /\ n - 1 \in 0..Len(w) /\ n \in 0..Len(w) /\ w[n].text \in Text
         /\ FlatTo(Texts(w), n - 1) \in Text /\ FlatTo(Patterns(w), n - 1) \in Text
         /\ FlatTo(Texts(w), n) = FlatTo(Texts(w), n - 1) \o w[n].text
         /\ FlatTo(Patterns(w), n) = FlatTo(Patterns(w), n - 1) \o Patterns(w)[n]
         /\ Patterns(w)[n] \in Text
         /\ Len(Patterns(w)[n]) = Len(w[n].text)
                                    + IF "escape" \in w[n].flags
                                      THEN Cardinality(Places(GlobChars, w[n].text)) ELSE 0
         /\ Cardinality(Places(GlobChars, w[n].text)) \in Nat
<1>1. n - 1 \in 0..Len(w) /\ n \in 0..Len(w) /\ Len(w) \in Nat
  BY TextsFacts
<1>2. /\ w[n].text \in Text /\ Texts(w)[n] = w[n].text
      /\ Patterns(w)[n] = IF "escape" \in w[n].flags THEN Escaped(w[n].text) ELSE w[n].text
      /\ Texts(w) \in Seq(Seq(Chars)) /\ Len(Texts(w)) = Len(w)
      /\ Patterns(w) \in Seq(Seq(Chars)) /\ Len(Patterns(w)) = Len(w)
  BY TextsFacts
<1>3. /\ FlatTo(Texts(w), n - 1) \in Text
      /\ FlatTo(Texts(w), n) = FlatTo(Texts(w), n - 1) \o Texts(w)[n]
  BY <1>1, <1>2, FlatToFacts DEF Text
<1>4. /\ FlatTo(Patterns(w), n - 1) \in Text
      /\ FlatTo(Patterns(w), n) = FlatTo(Patterns(w), n - 1) \o Patterns(w)[n]
  BY <1>1, <1>2, FlatToFacts DEF Text
<1>5. /\ Escaped(w[n].text) \in Text /\ Len(w[n].text) \in Nat
      /\ Cardinality(Places(GlobChars, w[n].text)) \in Nat
      /\ Len(Escaped(w[n].text)) = Len(w[n].text) + Cardinality(Places(GlobChars, w[n].text))
  BY <1>2, EscapedFacts
<1> QED BY <1>1, <1>2, <1>3, <1>4, <1>5

(* What the program finds for a word, with "" for the current directory.    *)
FoundPath(w) == IF IsFileReference(w) THEN {TrustedStart(w)} ELSE {}

(* The same, from the number of leading syllables.                          *)
LEMMA FoundIs ==
  ASSUME NEW w \in Seq(Syllable), NEW c, Leads(w, Len(w), c)
  PROVE  FoundPath(w) =
           IF /\ \E n \in 1..Len(w) : "file" \in w[n].flags
              /\ \E n \in 1..Len(w) : "trusted" \notin w[n].flags
           THEN {SubSeq(FlatTo(Texts(w), c), 1, LastSlash(FlatTo(Texts(w), c)))} ELSE {}
<1> DEFINE len == Len(w)
           lead == {n \in DOMAIN w : \A m \in 1..n : Plain(w[m])}
<1>1. len \in Nat /\ DOMAIN w = 1..len /\ c \in 0..len /\ (\A m \in 1..c : Plain(w[m]))
      /\ (c < len => ~Plain(w[c + 1]))
  BY DEF Leads
<1>2. lead = 1..c
  <2>1. ASSUME NEW n \in 1..len, \A m \in 1..n : Plain(w[m]) PROVE n <= c
    <3> SUFFICES ASSUME n > c PROVE FALSE
      BY <1>1
    <3>1. c + 1 \in 1..n /\ c < len
      BY <1>1
    <3> QED BY <1>1, <2>1, <3>1
  <2>2. ASSUME NEW n \in 1..c PROVE n \in lead
    BY <1>1
  <2> QED BY <1>1, <2>1, <2>2
<1>3. Cardinality(lead) = c
  <2> HIDE DEF lead
  <2>1. 1 \in Int /\ c \in Int
    BY <1>1
  <2>2. Cardinality(1..c) = IF 1 > c THEN 0 ELSE c - 1 + 1
    BY <2>1, FS_Interval
  <2>3. Cardinality(1..c) = c
    BY <1>1, <2>2
  <2> QED BY <1>2, <2>3
<1>4. Joined(SubSeq(w, 1, c)) = FlatTo(Texts(w), c)
  <2> DEFINE v == SubSeq(w, 1, c)
  <2>1. v \in Seq(Syllable) /\ Len(v) = c /\ \A m \in 1..c : v[m] = w[m]
    BY <1>1
  <2> HIDE DEF v
  <2>2. DOMAIN v = 1..c
    BY <2>1
  <2>3. [n \in DOMAIN v |-> v[n].text] = [n \in 1..c |-> Texts(w)[n]]
    <3>1. \A n \in 1..c : Texts(w)[n] = w[n].text
      BY <1>1, TextsFacts
    <3> QED BY <2>1, <2>2, <3>1
  <2> QED BY <2>3 DEF Joined, FlatTo, v
<1>5. lead = {n \in DOMAIN w : \A m \in 1..n : "trusted" \in w[m].flags /\ "glob" \notin w[m].flags}
  BY DEF Plain
<1>6. FoundPath(w) =
        IF /\ \E n \in DOMAIN w : "file" \in w[n].flags
           /\ \E n \in DOMAIN w : ~("trusted" \in w[n].flags)
        THEN {SubSeq(Joined(SubSeq(w, 1, Cardinality(lead))), 1,
                     LastSlash(Joined(SubSeq(w, 1, Cardinality(lead)))))} ELSE {}
  <2> HIDE DEF lead
  <2> QED BY <1>5 DEF FoundPath, IsFileReference, Untrusted, TrustedStart
<1> HIDE DEF lead
<1> QED BY <1>1, <1>3, <1>4, <1>6

(***************************************************************************)
(* The invariant                                                           *)
(***************************************************************************)
(* What is known of the first n syllables of the word.                      *)
FlagsSeen(w, n) ==
  /\ is_glob \in BOOLEAN /\ is_file \in BOOLEAN /\ is_trusted \in BOOLEAN
  /\ is_glob    <=> \E m \in 1..n : "glob" \in w[m].flags
  /\ is_file    <=> \E m \in 1..n : "file" \in w[m].flags
  /\ is_trusted <=> \A m \in 1..n : "trusted" \in w[m].flags

Measured(w, n) ==
  /\ FlagsSeen(w, n)
  /\ detecting \in BOOLEAN /\ (detecting <=> \A m \in 1..n : Plain(w[m]))
  /\ slen = Len(FlatTo(Texts(w), n))
  /\ slen + escapes = Len(FlatTo(Patterns(w), n)) /\ escapes \in Int
  /\ sandbox_len \in Nat /\ sandbox_candidate \in Nat
  /\ \E c \in 0..n : /\ Leads(w, n, c)
                     /\ sandbox_len = LastSlash(FlatTo(Texts(w), c))
                     /\ sandbox_len + sandbox_candidate = Len(FlatTo(Texts(w), c))

(* What Allocate has decided, and what has been copied of n syllables.      *)
Source(w) == IF is_glob THEN Patterns(w) ELSE Texts(w)
Copied(w, n) ==
  /\ FlagsSeen(w, Len(w))
  /\ slen = Len(FlatTo(Source(w), Len(w)))
  /\ sandbox_len \in 0..Len(FlatTo(Texts(w), Len(w)))
  /\ FoundPath(w) = IF HasTrustedPath
                         THEN {SubSeq(FlatTo(Texts(w), Len(w)), 1, sandbox_len)} ELSE {}
  /\ text = FlatTo(Source(w), n)
  /\ trusted = SubSeq(FlatTo(Texts(w), n), 1, Shorter(sandbox_len, Len(FlatTo(Texts(w), n))))

(* What _sf1_task_add_arg stores.                                           *)
Arg == [text : Text, is_glob : BOOLEAN, trusted_path : SUBSET Text]

(* What an argument is to the word that it was made of.                     *)
IsMergeOf(a, w) ==
  /\ a.trusted_path = FoundPath(w)
  /\ a.text = FlatTo(IF a.is_glob THEN Patterns(w) ELSE Texts(w), Len(w))

(* How many arguments task t has.                                           *)
Merging == pc \in {"measure", "copy"}
Made(t) == IF ~Merging \/ t < i THEN Len(job[t]) ELSE IF t = i THEN j - 1 ELSE 0

(* Each word so far has become an argument of its task.                     *)
ArgsMade ==
  /\ job \in Jobs /\ i \in 1..Len(job)
  /\ args \in [1..Len(job) -> Seq(Arg)]
  /\ \A t \in 1..Len(job) : /\ Len(args[t]) = Made(t)
                            /\ \A n \in 1..Len(args[t]) :
                                 IsMergeOf(args[t][n], job[t][n])

(* The strings of each argument of the task at hand.                        *)
Exp == [n \in 1..Len(args[i]) |-> Expansion(n)]

(* The names of the first n arguments have been checked.                    *)
CheckedTo(n) ==
  \A m \in 1..n : \A tp \in args[i][m].trusted_path : \A name \in ToSet(Expansion(m)) :
    <<tp, name>> \in checked

(* What is known at each statement.                                         *)
WordsInv ==
  /\ pc \in {"measure", "copy", "glob", "check", "fill", "exec", "failed", "over"}
  /\ ArgsMade
  /\ argc \in Nat /\ argc >= 1
  /\ Merging => /\ j \in 1..Len(job[i]) /\ k \in 1..(Len(word) + 1) /\ globs = <<>>
  /\ pc = "measure" => Measured(word, k - 1) /\ text = <<>> /\ trusted = <<>>
  /\ pc = "copy" => Copied(word, k - 1)
  /\ pc \in {"glob", "check", "fill"} => j \in 1..(Len(args[i]) + 1)
  /\ pc = "glob" => globs \in Seq(Seq(Text)) /\ Len(globs) = j - 1
  /\ pc \in {"check", "fill", "exec"} =>
       globs \in Seq(Seq(Text)) /\ Len(globs) = Len(args[i])
         /\ argc >= 1 + Len(FlattenSeq(Exp))
  /\ pc = "check" => CheckedTo(j - 1)
  /\ pc = "fill" => CheckedTo(Len(args[i])) /\ argv = FlatTo(Exp, j - 1)
  /\ pc = "exec" => CheckedTo(Len(args[i])) /\ argv = FlattenSeq(Exp) \o << <<"NULL">> >>

(***************************************************************************)
(* Merging                                                                 *)
(***************************************************************************)
(* What is in a job.                                                        *)
LEMMA JobFacts ==
  ASSUME job \in Jobs, NEW t \in 1..Len(job)
  PROVE  /\ Len(job) \in Nat /\ Len(job) >= 1
         /\ Len(job[t]) \in Nat /\ Len(job[t]) >= 1
         /\ \A n \in 1..Len(job[t]) : job[t][n] \in Seq(Syllable)
<1>1. job \in Seq(Seq(Seq(Syllable))) /\ job # <<>> /\ \A x \in DOMAIN job : job[x] # <<>>
  BY WordsAssumption
<1>2. DOMAIN job = 1..Len(job) /\ Len(job) \in Nat
  BY <1>1
<1>3. job[t] \in Seq(Seq(Syllable)) /\ job[t] # <<>>
  <2>1. job[t] \in Seq(Seq(Syllable))
    BY <1>1, ElementOfSeq
  <2> QED BY <1>1, <1>2, <2>1
<1> DEFINE task == job[t]
<1> HIDE DEF task
<1>4. Len(task) \in Nat /\ Len(task) >= 1 /\ \A n \in 1..Len(task) : task[n] \in Seq(Syllable)
  <2>1. task \in Seq(Seq(Syllable)) /\ task # <<>>
    BY <1>3 DEF task
  <2> QED BY <2>1, EmptySeq
<1>5. Len(job) >= 1
  BY <1>1, <1>2
<1> QED BY <1>2, <1>4, <1>5 DEF task

(* The first walk knows one syllable more.                                  *)
LEMMA MeasureKeeps ==
  ASSUME NEW w \in Seq(Syllable), NEW n \in 1..Len(w), w = word, n = k,
         Measured(w, n - 1), Measure
  PROVE  Measured(w, n)'
<1> DEFINE A == FlatTo(Texts(w), n - 1)
           P == FlatTo(Patterns(w), n - 1)
           s == w[n].text
           e == IF "escape" \in w[n].flags THEN Cardinality(Places(GlobChars, s)) ELSE 0
           cut == LastSlash(s)
           scan == detecting /\ Plain(w[n])
<1>1. /\ n \in Nat /\ n >= 1 /\ n - 1 \in 0..Len(w) /\ s \in Text /\ A \in Text /\ P \in Text
      /\ FlatTo(Texts(w), n) = A \o s /\ FlatTo(Patterns(w), n) = P \o Patterns(w)[n]
      /\ Patterns(w)[n] \in Text /\ Len(Patterns(w)[n]) = Len(s) + e /\ e \in Nat
  <2>1. Len(w) \in Nat
    BY TextsFacts
  <2>2. n \in Nat /\ n >= 1
    BY <2>1
  <2>3. e \in Nat
    <3>1. Cardinality(Places(GlobChars, w[n].text)) \in Nat
      BY NextSyllable
    <3> QED BY <3>1
  <2> QED BY <2>2, <2>3, NextSyllable
<1>2. /\ escapes' = escapes + e
      /\ slen' = slen + Len(s)
      /\ detecting' = scan
      /\ sandbox_len' = sandbox_len + IF scan /\ cut > 0 THEN sandbox_candidate + cut ELSE 0
      /\ sandbox_candidate' = IF ~scan THEN sandbox_candidate
                              ELSE Len(s) - cut + IF cut > 0 THEN 0 ELSE sandbox_candidate
      /\ is_glob' = (is_glob \/ "glob" \in w[n].flags)
      /\ is_file' = (is_file \/ "file" \in w[n].flags)
      /\ is_trusted' = (is_trusted /\ "trusted" \in w[n].flags)
  BY DEF Measure, Has, Scans, Plain
<1>3. /\ Measured(w, n - 1)!1
      /\ detecting \in BOOLEAN /\ (detecting <=> \A m \in 1..(n - 1) : Plain(w[m]))
      /\ slen = Len(A)
      /\ slen + escapes = Len(P) /\ escapes \in Int
      /\ sandbox_len \in Nat /\ sandbox_candidate \in Nat
  BY DEF Measured
<1>4. PICK c \in 0..(n - 1) : /\ Leads(w, n - 1, c)
                              /\ sandbox_len = LastSlash(FlatTo(Texts(w), c))
                              /\ sandbox_len + sandbox_candidate = Len(FlatTo(Texts(w), c))
  BY DEF Measured
<1>5. \A m : m \in 1..n <=> m \in 1..(n - 1) \/ m = n
  BY <1>1
<1>6. cut \in 0..Len(s) /\ Len(s) \in Nat /\ Len(A) \in Nat /\ Len(P) \in Nat
      /\ Len(A \o s) = Len(A) + Len(s) /\ A \o s \in Text
      /\ Len(P \o Patterns(w)[n]) = Len(P) + Len(Patterns(w)[n])
      /\ LastSlash(A \o s) = IF cut > 0 THEN Len(A) + cut ELSE LastSlash(A)
  <2>1. cut \in 0..Len(s)
    BY <1>1, LastSlashIs DEF EndsAt
  <2>2. LastSlash(A \o s) = IF cut > 0 THEN Len(A) + cut ELSE LastSlash(A)
    BY <1>1, LastSlashJoined
  <2> HIDE DEF A, P, s, cut
  <2> DEFINE q == Patterns(w)[n]
  <2>3. q \in Text
    BY <1>1
  <2> HIDE DEF q
  <2>4. Len(P \o q) = Len(P) + Len(q) /\ Len(P) \in Nat
    BY <1>1, <2>3 DEF Text
  <2>5. Len(A \o s) = Len(A) + Len(s) /\ Len(A) \in Nat /\ A \o s \in Text /\ Len(s) \in Nat
    BY <1>1 DEF Text
  <2> QED BY <2>1, <2>2, <2>4, <2>5 DEF q
<1> HIDE DEF A, P, s, e, cut
<1>7. FlagsSeen(w, n)'
  <2>1. /\ is_glob \in BOOLEAN /\ is_file \in BOOLEAN /\ is_trusted \in BOOLEAN
        /\ is_glob    <=> \E m \in 1..(n - 1) : "glob" \in w[m].flags
        /\ is_file    <=> \E m \in 1..(n - 1) : "file" \in w[m].flags
        /\ is_trusted <=> \A m \in 1..(n - 1) : "trusted" \in w[m].flags
    BY <1>3 DEF FlagsSeen
  <2>2. is_glob' \in BOOLEAN /\ (is_glob' <=> \E m \in 1..n : "glob" \in w[m].flags)
    BY <1>2, <1>5, <2>1, Zenon
  <2>3. is_file' \in BOOLEAN /\ (is_file' <=> \E m \in 1..n : "file" \in w[m].flags)
    BY <1>2, <1>5, <2>1, Zenon
  <2>4. is_trusted' \in BOOLEAN /\ (is_trusted' <=> \A m \in 1..n : "trusted" \in w[m].flags)
    BY <1>2, <1>5, <2>1, Zenon
  <2> QED BY <2>2, <2>3, <2>4, Zenon DEF FlagsSeen
<1>8. detecting' \in BOOLEAN /\ (detecting' <=> \A m \in 1..n : Plain(w[m]))
  BY <1>2, <1>3, <1>5, Zenon
<1>9. slen' = Len(FlatTo(Texts(w), n)) /\ escapes' \in Int
      /\ slen' + escapes' = Len(FlatTo(Patterns(w), n))
  <2>1. /\ FlatTo(Texts(w), n) = A \o s /\ FlatTo(Patterns(w), n) = P \o Patterns(w)[n]
        /\ Len(Patterns(w)[n]) = Len(s) + e /\ e \in Nat
    BY <1>1
  <2>2. escapes' = escapes + e /\ slen' = slen + Len(s)
    BY <1>2
  <2>3. slen = Len(A) /\ slen + escapes = Len(P) /\ escapes \in Int
    BY <1>3
  <2>4. /\ Len(A) \in Nat /\ Len(P) \in Nat /\ Len(s) \in Nat /\ Len(A \o s) = Len(A) + Len(s)
        /\ Len(P \o Patterns(w)[n]) = Len(P) + Len(Patterns(w)[n])
    BY <1>6
  <2>5. Len(FlatTo(Texts(w), n)) = Len(A) + Len(s)
        /\ Len(FlatTo(Patterns(w), n)) = Len(P) + (Len(s) + e)
    BY <2>1, <2>4
  <2>6. e \in Nat
    BY <2>1
  <2>7. slen' = Len(A) + Len(s) /\ escapes' = escapes + e
    BY <2>2, <2>3
  <2>8. escapes' \in Int /\ slen' + escapes' = Len(P) + (Len(s) + e)
    BY <2>3, <2>4, <2>6, <2>7
  <2> QED BY <2>5, <2>7, <2>8
<1>10. /\ sandbox_len' \in Nat /\ sandbox_candidate' \in Nat
       /\ \E d \in 0..n : /\ Leads(w, n, d)
                          /\ sandbox_len' = LastSlash(FlatTo(Texts(w), d))
                          /\ sandbox_len' + sandbox_candidate' = Len(FlatTo(Texts(w), d))
  <2>1. c \in 0..(n - 1) /\ (\A m \in 1..c : Plain(w[m])) /\ (c < n - 1 => ~Plain(w[c + 1]))
    BY <1>4 DEF Leads
  <2>2. CASE scan
    <3>1. (\A m \in 1..(n - 1) : Plain(w[m])) /\ Plain(w[n])
      BY <1>3, <2>2
    <3>2. c = n - 1
      <4> SUFFICES ASSUME c < n - 1 PROVE FALSE
        BY <1>1, <2>1
      <4>1. c + 1 \in 1..(n - 1)
        BY <1>1, <2>1
      <4> QED BY <2>1, <3>1, <4>1
    <3>3. Leads(w, n, n)
      BY <1>1, <1>5, <3>1 DEF Leads
    <3>4. sandbox_len = LastSlash(A) /\ sandbox_len + sandbox_candidate = Len(A)
      BY <1>4, <3>2 DEF A
    <3>5. /\ sandbox_len' = sandbox_len + IF cut > 0 THEN sandbox_candidate + cut ELSE 0
          /\ sandbox_candidate' = Len(s) - cut + IF cut > 0 THEN 0 ELSE sandbox_candidate
      BY <1>2, <2>2
    <3>6. /\ sandbox_len' \in Nat /\ sandbox_candidate' \in Nat
          /\ sandbox_len' = LastSlash(A \o s) /\ sandbox_len' + sandbox_candidate' = Len(A \o s)
      <4>1. sandbox_len \in Nat /\ sandbox_candidate \in Nat
        BY <1>3
      <4>2. /\ cut \in 0..Len(s) /\ Len(s) \in Nat /\ Len(A) \in Nat
            /\ Len(A \o s) = Len(A) + Len(s)
        BY <1>6
      <4>3. CASE cut > 0
        <5>1. LastSlash(A \o s) = Len(A) + cut
          BY <1>6, <4>3
        <5>2. sandbox_len' = sandbox_len + (sandbox_candidate + cut)
              /\ sandbox_candidate' = Len(s) - cut
          BY <3>5, <4>2, <4>3
        <5>3. sandbox_len' \in Nat /\ sandbox_candidate' \in Nat
          BY <4>1, <4>2, <5>2
        <5>4. sandbox_len' = Len(A) + cut
          <6>1. sandbox_len + (sandbox_candidate + cut) = (sandbox_len + sandbox_candidate) + cut
            BY <4>1, <4>2
          <6>2. sandbox_len + sandbox_candidate = Len(A)
            BY <3>4
          <6> QED BY <5>2, <6>1, <6>2
        <5>5. (Len(A) + cut) + (Len(s) - cut) = Len(A) + Len(s)
          BY <4>2
        <5>6. sandbox_len' + sandbox_candidate' = Len(A) + Len(s)
          BY <5>2, <5>4, <5>5
        <5> QED BY <4>2, <5>1, <5>3, <5>4, <5>6
      <4>4. CASE ~(cut > 0)
        <5>1. LastSlash(A \o s) = LastSlash(A)
          BY <1>6, <4>4
        <5> QED BY <3>4, <3>5, <4>1, <4>2, <4>4, <5>1
      <4> QED BY <4>3, <4>4
    <3>7. n \in 0..n
      BY <1>1
    <3> QED BY <1>1, <3>3, <3>6, <3>7
  <2>3. CASE ~scan
    <3>1. sandbox_len' = sandbox_len /\ sandbox_candidate' = sandbox_candidate
      BY <1>2, <1>3, <2>3
    <3>2. Leads(w, n, c)
      <4>1. c \in 0..n /\ (c < n => c < n - 1 \/ c = n - 1)
        BY <1>1, <2>1
      <4>2. c = n - 1 => ~Plain(w[c + 1])
        <5> SUFFICES ASSUME c = n - 1 PROVE ~Plain(w[n])
          BY <1>1
        <5> QED BY <1>3, <2>1, <2>3
      <4> QED BY <2>1, <4>1, <4>2 DEF Leads
    <3>3. c \in 0..n
      BY <1>1, <2>1
    <3> QED BY <1>3, <1>4, <3>1, <3>2, <3>3
  <2> QED BY <2>2, <2>3
<1> QED BY <1>7, <1>8, <1>9, <1>10 DEF Measured

(* The first n entries.                                                     *)
LEMMA Beginning ==
  ASSUME NEW S, NEW a \in Seq(S), NEW n \in 0..Len(a)
  PROVE  /\ SubSeq(a, 1, n) \in Seq(S) /\ Len(SubSeq(a, 1, n)) = n
         /\ \A h \in 1..n : SubSeq(a, 1, n)[h] = a[h]
<1>1. Len(a) \in Nat /\ n \in Nat
  OBVIOUS
<1> QED BY <1>1

(* A beginning is the same in any longer sequence.                          *)
LEMMA SameBeginning ==
  ASSUME NEW S, NEW a \in Seq(S), NEW b \in Seq(S), Len(a) <= Len(b),
         \A h \in 1..Len(a) : b[h] = a[h], NEW n \in 0..Len(a)
  PROVE  SubSeq(b, 1, n) = SubSeq(a, 1, n)
<1>1. Len(a) \in Nat /\ Len(b) \in Nat /\ n \in Nat /\ n \in 0..Len(b)
  OBVIOUS
<1> DEFINE p == SubSeq(b, 1, n)
           q == SubSeq(a, 1, n)
<1>2. p \in Seq(S) /\ Len(p) = n /\ \A h \in 1..n : p[h] = b[h]
  BY <1>1
<1>3. q \in Seq(S) /\ Len(q) = n /\ \A h \in 1..n : q[h] = a[h]
  BY <1>1
<1>4. \A h \in 1..n : h \in 1..Len(a)
  BY <1>1
<1> HIDE DEF p, q
<1>5. p = q
  BY <1>2, <1>3, <1>4, SeqEqual
<1> QED BY <1>5 DEF p, q

(* Filling the trusted path piece by piece gives the beginning of all.      *)
LEMMA FilledByPieces ==
  ASSUME NEW S, NEW a \in Seq(S), NEW b \in Seq(S), NEW size \in Nat,
         NEW path, path = SubSeq(a, 1, Shorter(size, Len(a)))
  PROVE  path \o SubSeq(b, 1, Shorter(size - Len(path), Len(b)))
           = SubSeq(a \o b, 1, Shorter(size, Len(a \o b)))
<1> DEFINE n == Shorter(size, Len(a))
           rest == SubSeq(b, 1, Shorter(size - Len(path), Len(b)))
           m == Shorter(size - Len(path), Len(b))
           c == a \o b
           all == SubSeq(c, 1, Shorter(size, Len(c)))
           x == Shorter(size, Len(c))
<1>1. Len(a) \in Nat /\ Len(b) \in Nat /\ c \in Seq(S) /\ Len(c) = Len(a) + Len(b)
      /\ (\A h \in 1..Len(a) : c[h] = a[h])
      /\ (\A h \in 1..Len(b) : c[Len(a) + h] = b[h])
  OBVIOUS
<1>2. n \in 0..Len(a) /\ n \in 0..size /\ n \in Nat
  BY <1>1 DEF Shorter
<1>3. path \in Seq(S) /\ Len(path) = n /\ \A h \in 1..n : path[h] = a[h]
  <2>1. path = SubSeq(a, 1, n)
    OBVIOUS
  <2> HIDE DEF n
  <2> QED BY <1>2, <2>1, Beginning
<1>4. m \in 0..Len(b) /\ m \in Nat
  BY <1>1, <1>2, <1>3 DEF Shorter
<1>5. rest \in Seq(S) /\ Len(rest) = m /\ \A h \in 1..m : rest[h] = b[h]
  <2>1. rest = SubSeq(b, 1, m)
    OBVIOUS
  <2> HIDE DEF m, rest
  <2> QED BY <1>4, <2>1, Beginning
<1>6. x \in 0..Len(c) /\ x \in Nat /\ x = n + m /\ (m > 0 => n = Len(a))
  <2>1. n = IF size < Len(a) THEN size ELSE Len(a)
    BY DEF Shorter
  <2>2. m = IF size - n < Len(b) THEN size - n ELSE Len(b)
    BY <1>3 DEF Shorter
  <2>3. x = IF size < Len(a) + Len(b) THEN size ELSE Len(a) + Len(b)
    BY <1>1 DEF Shorter
  <2>4. Len(c) = Len(a) + Len(b) /\ Len(a) \in Nat /\ Len(b) \in Nat
    BY <1>1
  <2> HIDE DEF n, m, x, c
  <2>5. CASE size < Len(a)
    <3>1. n = size /\ m = 0 /\ x = size
      BY <2>1, <2>2, <2>3, <2>4, <2>5
    <3> QED BY <2>4, <2>5, <3>1
  <2>6. CASE ~(size < Len(a))
    <3>1. n = Len(a)
      BY <2>1, <2>6
    <3>2. CASE size < Len(a) + Len(b)
      <4>1. x = size /\ m = size - n
        BY <2>2, <2>3, <2>4, <3>1, <3>2
      <4> QED BY <2>4, <2>6, <3>1, <3>2, <4>1
    <3>3. CASE ~(size < Len(a) + Len(b))
      <4>1. x = Len(a) + Len(b) /\ m = Len(b)
        BY <2>2, <2>3, <2>4, <3>1, <3>3
      <4> QED BY <2>4, <3>1, <4>1
    <3> QED BY <3>2, <3>3
  <2> QED BY <2>5, <2>6
<1>7. all \in Seq(S) /\ Len(all) = x /\ \A h \in 1..x : all[h] = c[h]
  <2>1. all = SubSeq(c, 1, x)
    OBVIOUS
  <2>2. c \in Seq(S)
    BY <1>1
  <2> HIDE DEF c, x, all
  <2> QED BY <1>6, <2>1, <2>2, Beginning
<1> DEFINE both == path \o rest
<1> HIDE DEF n, rest, m, c, all, x
<1>8. both \in Seq(S) /\ Len(both) = n + m /\ (\A h \in 1..n : both[h] = path[h])
      /\ (\A h \in 1..m : both[n + h] = rest[h])
  BY <1>3, <1>5
<1> HIDE DEF both
<1>9. ASSUME NEW h \in 1..x PROVE both[h] = all[h]
  <2>1. CASE h <= n
    <3>1. h \in 1..n /\ h \in 1..Len(a)
      BY <1>1, <1>2, <1>6, <2>1
    <3> QED BY <1>1, <1>3, <1>7, <1>8, <3>1
  <2>2. CASE h > n
    <3>1. n = Len(a) /\ h - n \in 1..m /\ h - n \in 1..Len(b) /\ n + (h - n) = h
      BY <1>1, <1>2, <1>4, <1>6, <2>2
    <3>2. both[n + (h - n)] = rest[h - n] /\ rest[h - n] = b[h - n]
      BY <1>5, <1>8, <3>1
    <3>3. c[Len(a) + (h - n)] = b[h - n]
      BY <1>1, <3>1
    <3> QED BY <1>7, <3>1, <3>2, <3>3
  <2> QED BY <1>2, <1>6, <2>1, <2>2
<1>10. Len(both) = Len(all) /\ Len(both) = x
  BY <1>6, <1>7, <1>8
<1>11. both = all
  BY <1>7, <1>8, <1>9, <1>10, SeqEqual
<1> QED BY <1>11 DEF both, all, rest, c

(* The sizes are those of what will be copied.                              *)
LEMMA AllocateKeeps ==
  ASSUME NEW w \in Seq(Syllable), w = word, k = Len(w) + 1, Measured(w, Len(w)), Allocate,
         text = <<>>, trusted = <<>>
  PROVE  Copied(w, 0)'
<1> DEFINE len == Len(w)
           all == FlatTo(Texts(w), len)
<1>1. /\ slen' = TextSize
      /\ sandbox_len' = IF HasTrustedPath THEN sandbox_len ELSE 0
      /\ UNCHANGED <<is_glob, is_file, is_trusted, text, trusted>>
  BY DEF Allocate, flags, built
<1>2. /\ FlagsSeen(w, len)
      /\ slen = Len(all)
      /\ slen + escapes = Len(FlatTo(Patterns(w), len)) /\ escapes \in Int
      /\ sandbox_len \in Nat
  BY DEF Measured
<1>3. PICK c \in 0..len : /\ Leads(w, len, c)
                          /\ sandbox_len = LastSlash(FlatTo(Texts(w), c))
  BY DEF Measured
<1>4. /\ len \in Nat /\ Texts(w) \in Seq(Seq(Chars)) /\ Len(Texts(w)) = len
      /\ Patterns(w) \in Seq(Seq(Chars)) /\ Len(Patterns(w)) = len
  BY TextsFacts
<1> DEFINE lead == FlatTo(Texts(w), c)
<1>5. /\ FlatTo(Texts(w), 0) = <<>> /\ FlatTo(Patterns(w), 0) = <<>>
      /\ all \in Text /\ lead \in Text
  <2>1. FlatTo(Texts(w), 0) = <<>> /\ FlatTo(Patterns(w), 0) = <<>>
    BY <1>4, FlatToFacts
  <2>2. \A n \in 0..len : FlatTo(Texts(w), n) \in Text
    <3> HIDE DEF len
    <3> QED BY <1>4, FlatToFacts DEF Text
  <2>3. len \in 0..len /\ c \in 0..len
    BY <1>3, <1>4
  <2> QED BY <2>1, <2>2, <2>3
<1>6. Len(lead) <= Len(all) /\ \A h \in 1..Len(lead) : all[h] = lead[h]
  <2>1. len \in 0..Len(Texts(w)) /\ c \in 0..len
    BY <1>3, <1>4
  <2> QED BY <1>4, <2>1, FlatToGrows
<1> HIDE DEF len, all, lead
<1>7. FlagsSeen(w, len)'
  BY <1>1, <1>2 DEF FlagsSeen
<1>8. Source(w)' = Source(w)
  BY <1>1 DEF Source
<1>9. slen' = Len(FlatTo(Source(w), len))
  BY <1>1, <1>2 DEF TextSize, Source, all
<1>10. sandbox_len \in 0..Len(lead) /\ Len(lead) \in Nat /\ Len(all) \in Nat
  <2>1. EndsAt(lead, LastSlash(lead)) /\ LastSlash(lead) = sandbox_len
    BY <1>3, <1>5, LastSlashIs DEF lead
  <2> QED BY <1>5, <2>1 DEF EndsAt, Text
<1>11. sandbox_len' \in 0..Len(all) /\ sandbox_len' \in Nat
  BY <1>1, <1>6, <1>10
<1>12. FoundPath(w) = IF HasTrustedPath THEN {SubSeq(all, 1, sandbox_len)} ELSE {}
  <2>1. FoundPath(w) =
          IF /\ \E n \in 1..len : "file" \in w[n].flags
             /\ \E n \in 1..len : "trusted" \notin w[n].flags
          THEN {SubSeq(lead, 1, LastSlash(lead))} ELSE {}
    BY <1>3, FoundIs DEF len, lead
  <2>2. HasTrustedPath <=> /\ \E n \in 1..len : "file" \in w[n].flags
                           /\ \E n \in 1..len : "trusted" \notin w[n].flags
    <3>1. /\ is_file    <=> \E m \in 1..len : "file" \in w[m].flags
          /\ is_trusted <=> \A m \in 1..len : "trusted" \in w[m].flags
      BY <1>2 DEF FlagsSeen
    <3> QED BY <3>1, Zenon DEF HasTrustedPath
  <2>3. SubSeq(all, 1, sandbox_len) = SubSeq(lead, 1, sandbox_len)
    BY <1>5, <1>6, <1>10, SameBeginning DEF Text
  <2>4. LastSlash(lead) = sandbox_len
    BY <1>3 DEF lead
  <2> QED BY <2>1, <2>2, <2>3, <2>4
<1>13. HasTrustedPath' = HasTrustedPath
  BY <1>1 DEF HasTrustedPath
<1>14. FoundPath(w) = IF HasTrustedPath' THEN {SubSeq(all, 1, sandbox_len')} ELSE {}
  BY <1>1, <1>12, <1>13
<1>15. text' = FlatTo(Source(w), 0)
  BY <1>1, <1>5 DEF Source
<1>16. trusted' = SubSeq(FlatTo(Texts(w), 0), 1, Shorter(sandbox_len', Len(FlatTo(Texts(w), 0))))
  <2> DEFINE z == Shorter(sandbox_len', Len(FlatTo(Texts(w), 0)))
  <2>1. z = 0
    BY <1>5, <1>11 DEF Shorter
  <2> HIDE DEF z
  <2>2. SubSeq(FlatTo(Texts(w), 0), 1, z) = <<>>
    BY <2>1, SubSeqEmpty
  <2> QED BY <1>1, <2>2 DEF z
<1> QED BY <1>7, <1>8, <1>9, <1>11, <1>14, <1>15, <1>16 DEF Copied, len, all

(* The second walk has copied one syllable more.                            *)
LEMMA CopyKeeps ==
  ASSUME NEW w \in Seq(Syllable), NEW n \in 1..Len(w), w = word, n = k,
         Copied(w, n - 1), Copy
  PROVE  Copied(w, n)'
<1> DEFINE A == FlatTo(Texts(w), n - 1)
           s == w[n].text
<1>1. /\ trusted' = trusted \o SubSeq(s, 1, Shorter(sandbox_len - Len(trusted), Len(s)))
      /\ text' = text \o AsPattern(w[n])
      /\ UNCHANGED <<is_glob, is_file, is_trusted, slen, sandbox_len>>
  BY DEF Copy, flags, sizes
<1>2. /\ n - 1 \in 0..Len(w) /\ s \in Text /\ A \in Text
      /\ FlatTo(Texts(w), n) = A \o s
      /\ FlatTo(Patterns(w), n) = FlatTo(Patterns(w), n - 1) \o Patterns(w)[n]
  BY NextSyllable
<1>3. Patterns(w)[n] = (IF "escape" \in w[n].flags THEN Escaped(s) ELSE s)
      /\ FlatTo(Texts(w), Len(w)) \in Text
  <2>1. Len(w) \in Nat /\ Texts(w) \in Seq(Seq(Chars)) /\ Len(Texts(w)) = Len(w)
    BY TextsFacts
  <2>2. FlatTo(Texts(w), Len(w)) \in Text
    <3> DEFINE len == Len(w)
    <3> HIDE DEF len
    <3>1. len \in 0..len /\ Texts(w) \in Seq(Seq(Chars)) /\ Len(Texts(w)) = len
      BY <2>1 DEF len
    <3> QED BY <3>1, FlatToFacts DEF Text, len
  <2> QED BY <2>2, TextsFacts
<1>4. /\ FlagsSeen(w, Len(w))
      /\ slen = Len(FlatTo(Source(w), Len(w)))
      /\ sandbox_len \in 0..Len(FlatTo(Texts(w), Len(w)))
      /\ FoundPath(w) = IF HasTrustedPath
                             THEN {SubSeq(FlatTo(Texts(w), Len(w)), 1, sandbox_len)} ELSE {}
      /\ text = FlatTo(Source(w), n - 1)
      /\ trusted = SubSeq(A, 1, Shorter(sandbox_len, Len(A)))
  BY DEF Copied
<1> HIDE DEF A, s
<1>5. text' = FlatTo(Source(w), n)
  <2>1. CASE is_glob
    <3>1. Source(w) = Patterns(w) /\ AsPattern(w[n]) = Patterns(w)[n]
      BY <1>3, <2>1 DEF Source, AsPattern, s
    <3> QED BY <1>1, <1>2, <1>4, <3>1
  <2>2. CASE ~is_glob
    <3>1. Source(w) = Texts(w) /\ AsPattern(w[n]) = s
      BY <2>2 DEF Source, AsPattern, s
    <3> QED BY <1>1, <1>2, <1>4, <3>1 DEF A
  <2> QED BY <2>1, <2>2
<1>6. trusted' = SubSeq(FlatTo(Texts(w), n), 1, Shorter(sandbox_len, Len(FlatTo(Texts(w), n))))
  <2>1. sandbox_len \in Nat
    BY <1>3, <1>4 DEF Text
  <2>2. A \in Seq(Chars) /\ s \in Seq(Chars) /\ FlatTo(Texts(w), n) = A \o s
    BY <1>2 DEF Text
  <2>3. trusted = SubSeq(A, 1, Shorter(sandbox_len, Len(A)))
        /\ trusted' = trusted \o SubSeq(s, 1, Shorter(sandbox_len - Len(trusted), Len(s)))
    BY <1>1, <1>4
  <2>4. trusted' = SubSeq(A \o s, 1, Shorter(sandbox_len, Len(A \o s)))
    BY <2>1, <2>2, <2>3, FilledByPieces
  <2> QED BY <2>2, <2>4
<1>7. FlagsSeen(w, Len(w))' /\ Source(w)' = Source(w) /\ HasTrustedPath' = HasTrustedPath
  BY <1>1, <1>4 DEF FlagsSeen, Source, HasTrustedPath
<1> QED BY <1>1, <1>4, <1>5, <1>6, <1>7 DEF Copied

(* Of no syllables at all.                                                  *)
LEMMA NoSyllables ==
  ASSUME NEW w \in Seq(Syllable)
  PROVE  /\ FlatTo(Texts(w), 0) = <<>> /\ FlatTo(Patterns(w), 0) = <<>>
         /\ Len(<<>>) = 0 /\ LastSlash(<<>>) = 0 /\ Leads(w, 0, 0)
<1>1. Texts(w) \in Seq(Seq(Chars)) /\ Patterns(w) \in Seq(Seq(Chars))
  BY TextsFacts
<1>2. FlatTo(Texts(w), 0) = <<>> /\ FlatTo(Patterns(w), 0) = <<>>
  BY <1>1, FlatToFacts
<1>3. Len(<<>>) = 0
  OBVIOUS
<1>4. LastSlash(<<>>) = 0
  <2>1. Places({"/"}, <<>>) = {}
    BY DEF Places
  <2> QED BY <2>1 DEF LastSlash
<1>5. Leads(w, 0, 0)
  BY DEF Leads
<1> QED BY <1>2, <1>3, <1>4, <1>5

(* The state that NewWord sets up.                                          *)
Fresh ==
  /\ k = 1 /\ is_glob = FALSE /\ is_file = FALSE /\ is_trusted = TRUE
  /\ detecting = TRUE
  /\ escapes = 0 /\ slen = 0 /\ sandbox_len = 0 /\ sandbox_candidate = 0
  /\ text = <<>> /\ trusted = <<>>

(* ... is that of a walk before its first syllable.                         *)
LEMMA FreshIsMeasured ==
  ASSUME NEW w \in Seq(Syllable)
  PROVE  (Fresh => Measured(w, 0)) /\ (Fresh' => Measured(w, 0)')
<1>1. /\ FlatTo(Texts(w), 0) = <<>> /\ FlatTo(Patterns(w), 0) = <<>>
      /\ Len(<<>>) = 0 /\ LastSlash(<<>>) = 0 /\ Leads(w, 0, 0) /\ 0 \in 0..0
  BY NoSyllables
<1>2. \A m : m \notin 1..0
  OBVIOUS
<1>3. ASSUME Fresh PROVE Measured(w, 0)
  <2>1. FlagsSeen(w, 0)
    BY <1>2, <1>3 DEF Fresh, FlagsSeen
  <2>2. /\ detecting \in BOOLEAN /\ (detecting <=> \A m \in 1..0 : Plain(w[m]))
        /\ slen = Len(FlatTo(Texts(w), 0))
        /\ slen + escapes = Len(FlatTo(Patterns(w), 0)) /\ escapes \in Int
        /\ sandbox_len \in Nat /\ sandbox_candidate \in Nat
        /\ sandbox_len = LastSlash(FlatTo(Texts(w), 0))
        /\ sandbox_len + sandbox_candidate = Len(FlatTo(Texts(w), 0))
    BY <1>1, <1>2, <1>3 DEF Fresh
  <2> QED BY <1>1, <2>1, <2>2 DEF Measured
<1>4. ASSUME Fresh' PROVE Measured(w, 0)'
  <2>1. FlagsSeen(w, 0)'
    BY <1>2, <1>4 DEF Fresh, FlagsSeen
  <2>2. /\ detecting' \in BOOLEAN /\ (detecting' <=> \A m \in 1..0 : Plain(w[m]))
        /\ slen' = Len(FlatTo(Texts(w), 0))
        /\ slen' + escapes' = Len(FlatTo(Patterns(w), 0)) /\ escapes' \in Int
        /\ sandbox_len' \in Nat /\ sandbox_candidate' \in Nat
        /\ sandbox_len' = LastSlash(FlatTo(Texts(w), 0))
        /\ sandbox_len' + sandbox_candidate' = Len(FlatTo(Texts(w), 0))
    BY <1>1, <1>2, <1>4 DEF Fresh
  <2> QED BY <1>1, <2>1, <2>2 DEF Measured
<1> QED BY <1>3, <1>4

(* The arguments that are made stay.                                        *)
LEMMA ArgsStay ==
  ASSUME ArgsMade, UNCHANGED <<job, args>>,
         \/ Merging /\ Merging' /\ UNCHANGED <<i, j>>
         \/ ~Merging /\ ~Merging' /\ i' \in 1..Len(job)
  PROVE  ArgsMade'
<1>1. i' \in 1..Len(job)
  BY DEF ArgsMade
<1>2. ASSUME NEW t \in 1..Len(job) PROVE Made(t)' = Made(t)
  BY DEF Made
<1> QED BY <1>1, <1>2 DEF ArgsMade

(* The word at hand.                                                        *)
LEMMA WordFacts ==
  ASSUME WordsInv, Merging
  PROVE  /\ word \in Seq(Syllable) /\ Len(word) \in Nat
         /\ k \in 1..(Len(word) + 1) /\ j \in 1..Len(job[i])
<1>1. job \in Jobs /\ i \in 1..Len(job) /\ j \in 1..Len(job[i]) /\ k \in 1..(Len(word) + 1)
  BY DEF WordsInv, ArgsMade
<1>2. word \in Seq(Syllable)
  BY <1>1, JobFacts DEF word
<1> QED BY <1>1, <1>2

(* It is that of the first word of the first task.                          *)
LEMMA InitEstablishes == Init => WordsInv
<1> SUFFICES ASSUME Init PROVE WordsInv
  OBVIOUS
<1>1. job \in Jobs /\ pc = "measure" /\ i = 1 /\ j = 1 /\ k = 1 /\ Fresh
      /\ args = [t \in DOMAIN job |-> <<>>] /\ globs = <<>> /\ argc = 1
      /\ text = <<>> /\ trusted = <<>>
  BY DEF Init, Fresh
<1>2. DOMAIN job = 1..Len(job) /\ Len(job) \in Nat /\ 1 \in 1..Len(job)
  <2>1. job \in Seq(Seq(Seq(Syllable))) /\ job # <<>>
    BY <1>1, WordsAssumption
  <2> QED BY <2>1, EmptySeq
<1>3. Len(job[1]) \in Nat /\ Len(job[1]) >= 1 /\ word \in Seq(Syllable)
  BY <1>1, <1>2, JobFacts DEF word
<1>4. ArgsMade
  <2>1. ASSUME NEW t \in 1..Len(job)
        PROVE  args[t] = <<>> /\ args[t] \in Seq(Arg) /\ Len(args[t]) = 0 /\ Made(t) = 0
    BY <1>1, <1>2, <2>1 DEF Made, Merging
  <2>2. args \in [1..Len(job) -> Seq(Arg)]
    BY <1>1, <1>2
  <2> QED BY <1>1, <1>2, <2>1, <2>2 DEF ArgsMade
<1>5. Measured(word, k - 1)
  BY <1>1, <1>3, FreshIsMeasured
<1>6. k \in 1..(Len(word) + 1) /\ j \in 1..Len(job[i])
  BY <1>1, <1>3
<1> QED BY <1>1, <1>4, <1>5, <1>6 DEF WordsInv, Merging

(* A step of the first walk.                                                *)
LEMMA MeasureStep == ASSUME WordsInv, Measure PROVE WordsInv'
<1>1. /\ pc = "measure" /\ pc' = "measure" /\ k \in 1..Len(word) /\ k' = k + 1
      /\ UNCHANGED <<job, i, j, text, trusted, args, globs, argc>> /\ Merging /\ Merging'
  <2>1. pc = "measure" /\ k <= Len(word) /\ k' = k + 1
        /\ UNCHANGED <<job, pc, i, j, text, trusted, args, globs, argc>>
    BY DEF Measure, built, run
  <2>2. Merging /\ Merging'
    BY <2>1 DEF Merging
  <2> QED BY <2>1, <2>2, WordFacts
<1>2. word \in Seq(Syllable) /\ Len(word) \in Nat /\ j \in 1..Len(job[i])
  BY <1>1, WordFacts
<1>3. Measured(word, k - 1) /\ text = <<>> /\ trusted = <<>> /\ globs = <<>> /\ argc \in Nat /\ argc >= 1
      /\ ArgsMade
  BY <1>1 DEF WordsInv
<1>4. Measured(word, k - 1)'
  <2>1. word' = word /\ k' - 1 = k
    BY <1>1, <1>2 DEF word
  <2>2. \A v \in Seq(Syllable) : \A m \in 1..Len(v) :
          v = word /\ m = k /\ Measured(v, m - 1) => Measured(v, m)'
    BY MeasureKeeps
  <2>3. PICK v \in Seq(Syllable) : v = word
    BY <1>2
  <2>4. PICK m \in 1..Len(v) : m = k
    BY <1>1, <2>3
  <2>5. Measured(v, m)'
    BY <1>3, <2>2, <2>3, <2>4
  <2>6. v = word' /\ m = k' - 1
    BY <2>1, <2>3, <2>4
  <2> QED BY <2>5, <2>6
<1>5. ArgsMade'
  BY <1>1, <1>3, ArgsStay
<1>6. k' \in 1..(Len(word') + 1) /\ j' \in 1..Len(job'[i'])
  BY <1>1, <1>2 DEF word
<1> QED BY <1>1, <1>3, <1>4, <1>5, <1>6 DEF WordsInv

(* The end of the first walk.                                               *)
LEMMA AllocateStep == ASSUME WordsInv, Allocate PROVE WordsInv'
<1>1. /\ pc = "measure" /\ pc' = "copy" /\ k > Len(word) /\ k' = 1
      /\ UNCHANGED <<job, i, j, args, globs, argc>> /\ Merging /\ Merging'
  <2>1. pc = "measure" /\ pc' = "copy" /\ k > Len(word) /\ k' = 1
        /\ UNCHANGED <<job, i, j, args, globs, argc>>
    BY DEF Allocate, run
  <2> QED BY <2>1 DEF Merging
<1>2. word \in Seq(Syllable) /\ Len(word) \in Nat /\ k \in 1..(Len(word) + 1) /\ j \in 1..Len(job[i])
  BY <1>1, WordFacts
<1>3. Measured(word, k - 1) /\ text = <<>> /\ trusted = <<>> /\ globs = <<>> /\ argc \in Nat /\ argc >= 1
      /\ ArgsMade
  BY <1>1 DEF WordsInv
<1>4. Copied(word, k - 1)'
  <2>1. k = Len(word) + 1 /\ k - 1 = Len(word) /\ k' - 1 = 0 /\ word' = word
    BY <1>1, <1>2 DEF word
  <2>2. PICK v \in Seq(Syllable) : v = word
    BY <1>2
  <2>3. Copied(v, 0)'
    BY <1>3, <2>1, <2>2, AllocateKeeps
  <2>4. v = word' /\ 0 = k' - 1
    BY <2>1, <2>2
  <2> QED BY <2>3, <2>4
<1>5. ArgsMade'
  BY <1>1, <1>3, ArgsStay
<1>6. k' \in 1..(Len(word') + 1) /\ j' \in 1..Len(job'[i'])
  BY <1>1, <1>2 DEF word
<1> QED BY <1>1, <1>3, <1>4, <1>5, <1>6 DEF WordsInv

(* A step of the second walk.                                               *)
LEMMA CopyStep == ASSUME WordsInv, Copy PROVE WordsInv'
<1>1. /\ pc = "copy" /\ pc' = "copy" /\ k \in 1..Len(word) /\ k' = k + 1
      /\ UNCHANGED <<job, i, j, args, globs, argc>> /\ Merging /\ Merging'
  <2>1. pc = "copy" /\ k <= Len(word) /\ k' = k + 1
        /\ UNCHANGED <<job, pc, i, j, args, globs, argc>>
    BY DEF Copy, run
  <2>2. Merging /\ Merging'
    BY <2>1 DEF Merging
  <2> QED BY <2>1, <2>2, WordFacts
<1>2. word \in Seq(Syllable) /\ Len(word) \in Nat /\ j \in 1..Len(job[i])
  BY <1>1, WordFacts
<1>3. Copied(word, k - 1) /\ globs = <<>> /\ argc \in Nat /\ argc >= 1 /\ ArgsMade
  BY <1>1 DEF WordsInv
<1>4. Copied(word, k - 1)'
  <2>1. word' = word /\ k' - 1 = k
    BY <1>1, <1>2 DEF word
  <2>2. PICK v \in Seq(Syllable) : v = word
    BY <1>2
  <2>3. PICK m \in 1..Len(v) : m = k
    BY <1>1, <2>2
  <2>4. Copied(v, m)'
    BY <1>3, <2>2, <2>3, CopyKeeps
  <2>5. v = word' /\ m = k' - 1
    BY <2>1, <2>2, <2>3
  <2> QED BY <2>4, <2>5
<1>5. ArgsMade'
  BY <1>1, <1>3, ArgsStay
<1>6. k' \in 1..(Len(word') + 1) /\ j' \in 1..Len(job'[i'])
  BY <1>1, <1>2 DEF word
<1> QED BY <1>1, <1>3, <1>4, <1>5, <1>6 DEF WordsInv

(* The argument that is made of a word whose syllables are all copied.      *)
LEMMA NewArgIs ==
  ASSUME NEW w \in Seq(Syllable), Copied(w, Len(w))
  PROVE  NewArg \in Arg /\ IsMergeOf(NewArg, w)
<1> DEFINE len == Len(w)
           all == FlatTo(Texts(w), len)
<1>1. /\ len \in Nat /\ Texts(w) \in Seq(Seq(Chars)) /\ Len(Texts(w)) = len
      /\ Patterns(w) \in Seq(Seq(Chars)) /\ Len(Patterns(w)) = len
  BY TextsFacts
<1>2. all \in Text /\ FlatTo(Patterns(w), len) \in Text
  <2> HIDE DEF len
  <2>1. len \in 0..len
    BY <1>1
  <2> QED BY <1>1, <2>1, FlatToFacts DEF Text
<1> HIDE DEF len, all
<1>3. /\ is_glob \in BOOLEAN
      /\ sandbox_len \in 0..Len(all)
      /\ FoundPath(w) = IF HasTrustedPath THEN {SubSeq(all, 1, sandbox_len)} ELSE {}
      /\ text = FlatTo(Source(w), len)
      /\ trusted = SubSeq(all, 1, Shorter(sandbox_len, Len(all)))
  BY DEF Copied, FlagsSeen, len, all
<1>4. Len(all) \in Nat
  BY <1>2 DEF Text
<1>5. Shorter(sandbox_len, Len(all)) = sandbox_len
  BY <1>3, <1>4 DEF Shorter
<1>6. trusted = SubSeq(all, 1, sandbox_len) /\ trusted \in Text
  BY <1>2, <1>3, <1>5, Beginning DEF Text
<1>7. text \in Text
  BY <1>2, <1>3 DEF Source, all
<1>8. NewArg \in Arg
  BY <1>3, <1>6, <1>7 DEF NewArg, Arg
<1>9. NewArg.trusted_path = FoundPath(w)
  BY <1>3, <1>6 DEF NewArg
<1>10. NewArg.text = FlatTo(IF NewArg.is_glob THEN Patterns(w) ELSE Texts(w), Len(w))
  BY <1>3 DEF NewArg, Source, len
<1> QED BY <1>8, <1>9, <1>10 DEF IsMergeOf

(* The argument is appended to those of its task; the next word, or the     *)
(* next task, or the globs.                                                 *)
LEMMA MergedStep == ASSUME WordsInv, Merged PROVE WordsInv'
<1>1. pc = "copy" /\ k > Len(word) /\ Merging
      /\ args' = [args EXCEPT ![i] = Append(@, NewArg)] /\ Fresh'
      /\ UNCHANGED <<job, globs, argc>>
  BY DEF Merged, NewWord, Fresh, run, Merging
<1>2. word \in Seq(Syllable) /\ Len(word) \in Nat /\ k \in 1..(Len(word) + 1) /\ j \in 1..Len(job[i])
  BY <1>1, WordFacts
<1>3. Copied(word, k - 1) /\ globs = <<>> /\ argc \in Nat /\ argc >= 1 /\ ArgsMade
  BY <1>1 DEF WordsInv
<1>4. /\ job \in Jobs /\ i \in 1..Len(job)
      /\ args \in [1..Len(job) -> Seq(Arg)]
      /\ \A t \in 1..Len(job) : /\ Len(args[t]) = Made(t)
                                /\ \A n \in 1..Len(args[t]) :
                                     IsMergeOf(args[t][n], job[t][n])
  BY <1>3 DEF ArgsMade
<1>5. Len(job) \in Nat /\ \A t \in 1..Len(job) : Len(job[t]) \in Nat /\ Len(job[t]) >= 1
  BY <1>4, JobFacts
<1>6. NewArg \in Arg /\ IsMergeOf(NewArg, job[i][j])
  <2>1. k - 1 = Len(word)
    BY <1>1, <1>2
  <2> QED BY <1>2, <1>3, <2>1, NewArgIs DEF word
<1>7. Len(args[i]) = j - 1 /\ args[i] \in Seq(Arg) /\ j \in Nat /\ j >= 1
  <2>1. i \in Nat /\ ~(i < i)
    BY <1>4, <1>5
  <2>2. Made(i) = j - 1
    BY <1>1, <2>1 DEF Made
  <2>3. Len(args[i]) = Made(i) /\ args[i] \in Seq(Arg)
    BY <1>4
  <2>4. Len(job[i]) \in Nat
    BY <1>4, <1>5
  <2> QED BY <1>2, <2>2, <2>3, <2>4
<1>8. /\ args'[i] \in Seq(Arg) /\ Len(args'[i]) = j
      /\ \A n \in 1..j : IsMergeOf(args'[i][n], job[i][n])
  <2> DEFINE a == args[i]
             b == Append(a, NewArg)
  <2>1. args'[i] = b
    BY <1>1, <1>4
  <2>2. a \in Seq(Arg) /\ Len(a) = j - 1
        /\ \A n \in 1..Len(a) : IsMergeOf(a[n], job[i][n])
    BY <1>4, <1>7
  <2> HIDE DEF a
  <2>3. b \in Seq(Arg) /\ Len(b) = Len(a) + 1
        /\ (\A n \in 1..Len(a) : b[n] = a[n]) /\ b[Len(a) + 1] = NewArg
    BY <1>6, <2>2, AppendProperties
  <2> HIDE DEF b
  <2>4. Len(b) = j /\ b[j] = NewArg
    BY <1>7, <2>2, <2>3
  <2>5. ASSUME NEW n \in 1..j PROVE IsMergeOf(b[n], job[i][n])
    <3>1. CASE n = j
      BY <1>6, <2>4, <3>1
    <3>2. CASE n # j
      <4>1. n \in 1..Len(a)
        BY <1>7, <2>2, <3>2
      <4> QED BY <2>2, <2>3, <4>1
    <3> QED BY <3>1, <3>2
  <2> QED BY <2>1, <2>3, <2>4, <2>5
<1>9. args' \in [1..Len(job) -> Seq(Arg)] /\ \A t \in 1..Len(job) : t # i => args'[t] = args[t]
  BY <1>1, <1>4, <1>8
<1>10. \/ j < Len(job[i]) /\ pc' = "measure" /\ j' = j + 1 /\ i' = i
       \/ j = Len(job[i]) /\ i < Len(job) /\ pc' = "measure" /\ j' = 1 /\ i' = i + 1
       \/ j = Len(job[i]) /\ i = Len(job) /\ pc' = "glob" /\ j' = 1 /\ i' = 1
  BY <1>2, <1>4, <1>5 DEF Merged
<1>11. pc' \in {"measure", "glob"} /\ i' \in 1..Len(job)
       /\ (pc' = "measure" => j' \in 1..Len(job[i']))
  BY <1>2, <1>4, <1>5, <1>10
<1>12. ASSUME NEW t \in 1..Len(job) PROVE Len(args'[t]) = Made(t)'
  <2>1. Made(t)' = IF pc' # "measure" \/ t < i' THEN Len(job[t]) ELSE IF t = i' THEN j' - 1 ELSE 0
    BY <1>1, <1>11 DEF Made, Merging
  <2>2. CASE t = i
    BY <1>4, <1>5, <1>7, <1>8, <1>10, <2>1, <2>2
  <2>3. CASE t # i
    <3>1. Len(args'[t]) = IF t < i THEN Len(job[t]) ELSE 0
      BY <1>1, <1>4, <1>9, <2>3 DEF Made
    <3> QED BY <1>4, <1>5, <1>7, <1>10, <2>1, <2>3, <3>1
  <2> QED BY <2>2, <2>3
<1>13. ASSUME NEW t \in 1..Len(job), NEW n \in 1..Len(args'[t])
       PROVE  IsMergeOf(args'[t][n], job[t][n])
  <2>1. CASE t = i
    BY <1>8, <2>1
  <2>2. CASE t # i
    BY <1>4, <1>9, <2>2
  <2> QED BY <2>1, <2>2
<1>14. ArgsMade'
  BY <1>1, <1>4, <1>9, <1>11, <1>12, <1>13 DEF ArgsMade
<1>15. CASE pc' = "measure"
  <2>1. word' \in Seq(Syllable) /\ word' = job[i'][j'] /\ Len(word') \in Nat
    <3>1. job[i'][j'] \in Seq(Syllable)
      BY <1>4, <1>11, <1>15, JobFacts
    <3> QED BY <1>1, <3>1 DEF word
  <2>2. k' = 1 /\ text' = <<>> /\ trusted' = <<>>
    BY <1>1 DEF Fresh
  <2>3. Measured(word, k - 1)'
    <3>1. PICK v \in Seq(Syllable) : v = word'
      BY <2>1
    <3>2. Measured(v, 0)'
      BY <1>1, FreshIsMeasured
    <3>3. v = word' /\ 0 = k' - 1
      BY <2>2, <3>1
    <3> QED BY <3>2, <3>3
  <2>4. k' \in 1..(Len(word') + 1) /\ j' \in 1..Len(job'[i'])
    BY <1>1, <1>11, <1>15, <2>1, <2>2
  <2> QED BY <1>1, <1>3, <1>14, <1>15, <2>2, <2>3, <2>4 DEF WordsInv, Merging
<1>16. CASE pc' = "glob"
  <2>1. j' = 1 /\ j' - 1 = 0
    BY <1>10, <1>16
  <2>2. globs' = <<>> /\ globs' \in Seq(Seq(Text)) /\ Len(globs') = 0
    BY <1>1, <1>3
  <2>3. 1 \in 1..(Len(args'[i']) + 1)
    <3>1. args'[i'] \in Seq(Arg)
      BY <1>9, <1>11
    <3> QED BY <3>1
  <2> QED BY <1>1, <1>3, <1>14, <1>16, <2>1, <2>2, <2>3 DEF WordsInv, Merging
<1> QED BY <1>11, <1>15, <1>16

(***************************************************************************)
(* The argument vector                                                     *)
(***************************************************************************)
(* Each argument has as many strings as its glob found, or one.             *)
LEMMA ExpFacts ==
  ASSUME ArgsMade, ~Merging, globs \in Seq(Seq(Text)), Len(globs) = Len(args[i])
  PROVE  /\ Len(args[i]) \in Nat /\ Exp \in Seq(Seq(Text)) /\ Len(Exp) = Len(args[i])
         /\ \A n \in 1..Len(args[i]) : Exp[n] = Expansion(n)
<1> DEFINE as == args[i]
           len == Len(as)
<1>1. as \in Seq(Arg)
  BY DEF ArgsMade
<1>2. len \in Nat /\ \A n \in 1..len : as[n] \in Arg
  <2> HIDE DEF as
  <2>1. Len(as) \in Nat
    BY <1>1, LenProperties
  <2>2. \A n \in 1..Len(as) : as[n] \in Arg
    BY <1>1, ElementOfSeq
  <2> QED BY <2>1, <2>2
<1>3. \A a \in Arg : a.text \in Text /\ a.is_glob \in BOOLEAN
  BY DEF Arg
<1>4. \A n \in 1..len : Expansion(n) = IF as[n].is_glob THEN globs[n] ELSE <<as[n].text>>
  BY DEF Expansion
<1> HIDE DEF as, len
<1>5. ASSUME NEW n \in 1..len PROVE Expansion(n) \in Seq(Text)
  <2>1. n \in 1..Len(globs)
    BY DEF as, len
  <2>2. globs[n] \in Seq(Text)
    BY <2>1, ElementOfSeq
  <2>3. <<as[n].text>> \in Seq(Text)
    <3> DEFINE x == as[n].text
    <3>1. x \in Text
      BY <1>2, <1>3
    <3> HIDE DEF x
    <3>2. <<x>> \in Seq(Text)
      BY <3>1
    <3> QED BY <3>2 DEF x
  <2> QED BY <1>4, <2>2, <2>3
<1>6. Exp = [n \in 1..len |-> Expansion(n)]
  BY DEF Exp, as, len
<1>7. Exp \in Seq(Seq(Text)) /\ Len(Exp) = len /\ \A n \in 1..len : Exp[n] = Expansion(n)
  BY <1>2, <1>5, <1>6
<1> QED BY <1>2, <1>7 DEF as, len

(* The count is the number of strings.                                      *)
LEMMA CountedIs ==
  ASSUME ArgsMade, ~Merging, globs \in Seq(Seq(Text)), Len(globs) = Len(args[i])
  PROVE  Counted = Len(FlattenSeq(Exp)) /\ Counted \in Nat
<1> DEFINE m == Len(args[i])
           e == Exp
           Is(f) == f = [n \in 0..m |-> IF n = 0 THEN 0 ELSE f[n - 1] + Len(Expansion(n))]
           count == CHOOSE f : Is(f)
           flat == [n \in 0..m |-> Len(FlatTo(e, n))]
<1>1. /\ m \in Nat /\ e \in Seq(Seq(Text)) /\ Len(e) = m
      /\ \A n \in 1..m : e[n] = Expansion(n)
  BY ExpFacts
<1>2. Counted = count[m]
  BY DEF Counted
<1> HIDE DEF m, e
<1>3. /\ FlatTo(e, 0) = <<>> /\ FlattenSeq(e) = FlatTo(e, m)
      /\ \A n \in 0..m : FlatTo(e, n) \in Seq(Text)
      /\ \A n \in 1..m : FlatTo(e, n) = FlatTo(e, n - 1) \o e[n]
  BY <1>1, FlatToFacts
<1>4. ASSUME NEW n \in 1..m
      PROVE  Len(FlatTo(e, n)) = Len(FlatTo(e, n - 1)) + Len(Expansion(n)) /\ n - 1 \in 0..m
  <2> DEFINE a == FlatTo(e, n - 1)
             b == e[n]
  <2>1. n - 1 \in 0..m /\ n \in 1..Len(e)
    BY <1>1
  <2>2. a \in Seq(Text) /\ b \in Seq(Text) /\ FlatTo(e, n) = a \o b /\ b = Expansion(n)
    BY <1>1, <1>3, <2>1, ElementOfSeq
  <2> HIDE DEF a, b
  <2>3. Len(a \o b) = Len(a) + Len(b)
    BY <2>2
  <2> QED BY <2>1, <2>2, <2>3 DEF a
<1>5. Is(flat)
  <2> SUFFICES ASSUME NEW n \in 0..m
               PROVE  Len(FlatTo(e, n)) = IF n = 0 THEN 0 ELSE flat[n - 1] + Len(Expansion(n))
    OBVIOUS
  <2>1. CASE n = 0
    BY <1>3, <2>1
  <2>2. CASE n # 0
    <3>1. n \in 1..m
      BY <1>1, <2>2
    <3> QED BY <1>4, <2>2, <3>1
  <2> QED BY <2>1, <2>2
<1>6. Is(count)
  <2> HIDE DEF Is, flat
  <2> QED BY <1>5
<1>7. ASSUME NEW n \in 0..m
      PROVE  count[n] = IF n = 0 THEN 0 ELSE count[n - 1] + Len(Expansion(n))
  <2> HIDE DEF count
  <2> DEFINE G(x) == IF x = 0 THEN 0 ELSE count[x - 1] + Len(Expansion(x))
  <2>1. count = [x \in 0..m |-> G(x)]
    BY <1>6
  <2>2. count[n] = G(n)
    <3> HIDE DEF G
    <3> QED BY <2>1
  <2> QED BY <2>2
<1> HIDE DEF count, Is, flat
<1> DEFINE T == {n \in 0..m : count[n] = Len(FlatTo(e, n))}
<1>8. 0 \in T
  <2>1. 0 \in 0..m /\ Len(<<>>) = 0
    BY <1>1
  <2> QED BY <1>3, <1>7, <2>1
<1>9. ASSUME NEW n \in 0..(m - 1), n \in T PROVE n + 1 \in T
  <2>1. n + 1 \in 1..m /\ n + 1 \in 0..m /\ n + 1 # 0 /\ (n + 1) - 1 = n
    BY <1>1
  <2>2. count[n + 1] = count[n] + Len(Expansion(n + 1))
    BY <1>7, <2>1
  <2>3. Len(FlatTo(e, n + 1)) = Len(FlatTo(e, n)) + Len(Expansion(n + 1))
    BY <1>4, <2>1
  <2>4. count[n] = Len(FlatTo(e, n))
    BY <1>9
  <2> QED BY <2>1, <2>2, <2>3, <2>4
<1>10. \A n \in 0..m : n \in T
  <2> HIDE DEF T
  <2> QED BY <1>1, <1>8, <1>9, BoundedInduction
<1>11. count[m] = Len(FlatTo(e, m)) /\ Len(FlatTo(e, m)) \in Nat
  <2>1. m \in 0..m
    BY <1>1
  <2>2. FlatTo(e, m) \in Seq(Text)
    BY <1>3, <2>1
  <2> QED BY <1>10, <2>1, <2>2
<1> QED BY <1>2, <1>3, <1>11 DEF e

(* While the arguments, their globs and the count stay.                     *)
LEMMA RunStays ==
  ASSUME ArgsMade, ~Merging, ~Merging', UNCHANGED <<job, args>>, i' = i
  PROVE  ArgsMade'
<1>1. i' \in 1..Len(job)
  BY DEF ArgsMade
<1> QED BY <1>1, ArgsStay

(* One argument more whose names are known.                                 *)
LEMMA ExtractGlobStep == ASSUME WordsInv, ExtractGlob PROVE WordsInv'
<1>1. /\ pc = "glob" /\ pc' = "glob" /\ ~Merging /\ ~Merging' /\ ~AllArgs /\ j' = j + 1
      /\ UNCHANGED <<job, args, i, argc>>
  BY DEF ExtractGlob, merging, Merging
<1>2. /\ ArgsMade /\ argc \in Nat /\ argc >= 1 /\ j \in 1..(Len(args[i]) + 1)
      /\ globs \in Seq(Seq(Text)) /\ Len(globs) = j - 1
  BY <1>1 DEF WordsInv
<1>3. ArgsMade' /\ Len(args[i]) \in Nat
  <2>1. args[i] \in Seq(Arg)
    BY <1>2 DEF ArgsMade
  <2> QED BY <1>1, <1>2, <2>1, RunStays
<1>4. PICK found \in Seq(Text) : globs' = Append(globs, found)
  <2>1. CASE arg.is_glob
    BY <2>1, WordsAssumption DEF ExtractGlob
  <2>2. CASE ~arg.is_glob
    <3>1. <<>> \in Seq(Text)
      OBVIOUS
    <3> QED BY <2>2, <3>1 DEF ExtractGlob
  <2> QED BY <2>1, <2>2
<1>5. globs' \in Seq(Seq(Text)) /\ Len(globs') = Len(globs) + 1
  BY <1>2, <1>4, AppendProperties
<1>6. j' \in 1..(Len(args[i]) + 1) /\ Len(globs') = j' - 1
  BY <1>1, <1>2, <1>3, <1>5 DEF AllArgs
<1> QED BY <1>1, <1>2, <1>3, <1>5, <1>6 DEF WordsInv

(* An error ends the call.                                                  *)
LEMMA FailStep == ASSUME WordsInv, GlobFails \/ CheckFails PROVE WordsInv'
<1>1. /\ pc \in {"glob", "check"} /\ pc' = "failed" /\ ~Merging /\ ~Merging'
      /\ UNCHANGED <<job, args, i, argc>>
  BY DEF GlobFails, CheckFails, merging, run, Merging
<1>2. ArgsMade /\ argc \in Nat /\ argc >= 1
  BY DEF WordsInv
<1>3. ArgsMade'
  BY <1>1, <1>2, RunStays
<1> QED BY <1>1, <1>2, <1>3 DEF WordsInv

(* argc grows by what this task needs; it was at least 1 before.            *)
LEMMA CountStep == ASSUME WordsInv, CountArgs PROVE WordsInv'
<1>1. /\ pc = "glob" /\ pc' = "check" /\ ~Merging /\ ~Merging' /\ AllArgs /\ j' = 1
      /\ UNCHANGED <<job, args, i, globs>> /\ argc' = argc + Counted
  BY DEF CountArgs, merging, Merging
<1>2. /\ ArgsMade /\ argc \in Nat /\ argc >= 1 /\ j \in 1..(Len(args[i]) + 1)
      /\ globs \in Seq(Seq(Text)) /\ Len(globs) = j - 1
  BY <1>1 DEF WordsInv
<1>3. ArgsMade' /\ Len(args[i]) \in Nat
  <2>1. args[i] \in Seq(Arg)
    BY <1>2 DEF ArgsMade
  <2> QED BY <1>1, <1>2, <2>1, RunStays
<1>4. Len(globs) = Len(args[i])
  BY <1>1, <1>2, <1>3 DEF AllArgs
<1>5. Counted = Len(FlattenSeq(Exp)) /\ Counted \in Nat
  BY <1>1, <1>2, <1>4, CountedIs
<1>6. Exp' = Exp
  BY <1>1 DEF Exp, Expansion
<1>7. argc' \in Nat /\ argc' >= 1 /\ argc' >= 1 + Len(FlattenSeq(Exp'))
  BY <1>1, <1>2, <1>5, <1>6
<1>8. CheckedTo(j - 1)' /\ j' \in 1..(Len(args[i]) + 1)
  <2>1. j' - 1 = 0 /\ \A n : n \notin 1..0
    BY <1>1
  <2> QED BY <1>1, <1>3, <2>1 DEF CheckedTo
<1> QED BY <1>1, <1>2, <1>3, <1>4, <1>7, <1>8 DEF WordsInv

(* What the steps behind the count have in common.                          *)
Counting == pc \in {"check", "fill", "exec"}

(* The arguments, the names of the globs and the count fit each other.      *)
LEMMA CountedFacts ==
  ASSUME WordsInv, Counting
  PROVE  /\ ArgsMade /\ ~Merging /\ argc \in Nat /\ argc >= 1
         /\ globs \in Seq(Seq(Text)) /\ Len(globs) = Len(args[i])
         /\ argc >= 1 + Len(FlattenSeq(Exp))
         /\ Len(args[i]) \in Nat /\ Exp \in Seq(Seq(Text)) /\ Len(Exp) = Len(args[i])
         /\ \A n \in 1..Len(args[i]) : Exp[n] = Expansion(n)
<1>1. /\ ArgsMade /\ ~Merging /\ argc \in Nat /\ argc >= 1
      /\ globs \in Seq(Seq(Text)) /\ Len(globs) = Len(args[i])
      /\ argc >= 1 + Len(FlattenSeq(Exp))
  BY DEF WordsInv, Counting, Merging
<1> QED BY <1>1, ExpFacts

(* ... as long as none of them is changed.                                  *)
LEMMA CountedStays ==
  ASSUME WordsInv, Counting, Counting', UNCHANGED <<job, args, i, globs, argc>>
  PROVE  /\ ArgsMade' /\ ~Merging' /\ argc' \in Nat /\ argc' >= 1
         /\ globs' \in Seq(Seq(Text)) /\ Len(globs') = Len(args'[i'])
         /\ argc' >= 1 + Len(FlattenSeq(Exp'))
         /\ Exp' = Exp
<1>1. ~Merging'
  BY DEF Counting, Merging
<1>2. Exp' = Exp
  BY DEF Exp, Expansion
<1>3. ArgsMade'
  BY <1>1, CountedFacts, RunStays
<1> QED BY <1>1, <1>2, <1>3, CountedFacts

(* One argument more whose names are checked.                               *)
LEMMA CheckStep == ASSUME WordsInv, CheckArg PROVE WordsInv'
<1>1. /\ pc = "check" /\ pc' = "check" /\ Counting /\ Counting' /\ ~AllArgs /\ j' = j + 1
      /\ UNCHANGED <<job, args, i, globs, argc>>
      /\ checked' = checked \cup {<<tp, name>> : tp \in args[i][j].trusted_path,
                                                 name \in ToSet(Expansion(j))}
  BY DEF CheckArg, merging, Counting, arg, NamesToCheck
<1>2. j \in 1..(Len(args[i]) + 1) /\ CheckedTo(j - 1) /\ Len(args[i]) \in Nat
  BY <1>1, CountedFacts DEF WordsInv
<1>3. j \in 1..Len(args[i]) /\ j' \in 1..(Len(args[i]) + 1) /\ j' - 1 = j
  BY <1>1, <1>2 DEF AllArgs
<1>4. CheckedTo(j - 1)'
  <2>1. \A m : Expansion(m)' = Expansion(m)
    BY <1>1 DEF Expansion
  <2>2. ASSUME NEW m \in 1..j, NEW tp \in args[i][m].trusted_path, NEW name \in ToSet(Expansion(m))
        PROVE  <<tp, name>> \in checked'
    <3>1. CASE m = j
      BY <1>1, <3>1
    <3>2. CASE m # j
      <4>1. m \in 1..(j - 1)
        BY <1>3, <3>2
      <4>2. <<tp, name>> \in checked
        BY <1>2, <4>1 DEF CheckedTo
      <4> QED BY <1>1, <4>2
    <3> QED BY <3>1, <3>2
  <2> QED BY <1>1, <1>3, <2>1, <2>2 DEF CheckedTo
<1> QED BY <1>1, <1>3, <1>4, CountedStays DEF WordsInv

(* All are checked; none is in argv.                                        *)
LEMMA AllocateArgvStep == ASSUME WordsInv, AllocateArgv PROVE WordsInv'
<1>1. /\ pc = "check" /\ pc' = "fill" /\ Counting /\ Counting' /\ AllArgs /\ j' = 1 /\ argv' = <<>>
      /\ UNCHANGED <<job, args, i, globs, argc, checked>>
  BY DEF AllocateArgv, merging, Counting
<1>2. j \in 1..(Len(args[i]) + 1) /\ CheckedTo(j - 1) /\ Len(args[i]) \in Nat /\ Exp \in Seq(Seq(Text))
  <2>1. j \in 1..(Len(args[i]) + 1) /\ CheckedTo(j - 1)
    BY <1>1 DEF WordsInv
  <2>2. Len(args[i]) \in Nat /\ Exp \in Seq(Seq(Text))
    BY <1>1, CountedFacts
  <2> QED BY <2>1, <2>2
<1>3. j - 1 = Len(args[i]) /\ j' \in 1..(Len(args[i]) + 1) /\ j' - 1 = 0
  <2>1. j > Len(args[i]) /\ j' = 1
    BY <1>1 DEF AllArgs
  <2>2. j \in 1..(Len(args[i]) + 1) /\ Len(args[i]) \in Nat
    BY <1>2
  <2> QED BY <2>1, <2>2
<1>4. CheckedTo(Len(args[i]))'
  <2>1. CheckedTo(Len(args[i])) /\ UNCHANGED <<args, i, globs, checked>>
    BY <1>1, <1>2, <1>3
  <2> QED BY <2>1 DEF CheckedTo, Expansion
<1>5. argv' = FlatTo(Exp', j' - 1)
  BY <1>1, <1>2, <1>3, CountedStays, FlatToFacts
<1> QED BY <1>1, <1>3, <1>4, <1>5, CountedStays DEF WordsInv

(* One argument more is in argv.                                            *)
LEMMA FillStep == ASSUME WordsInv, FillArg PROVE WordsInv'
<1>1. /\ pc = "fill" /\ pc' = "fill" /\ Counting /\ Counting' /\ ~AllArgs /\ j' = j + 1
      /\ argv' = argv \o Expansion(j)
      /\ UNCHANGED <<job, args, i, globs, argc, checked>>
  BY DEF FillArg, merging, Counting
<1>2. /\ j \in 1..(Len(args[i]) + 1) /\ CheckedTo(Len(args[i])) /\ argv = FlatTo(Exp, j - 1)
      /\ Len(args[i]) \in Nat /\ Exp \in Seq(Seq(Text)) /\ Len(Exp) = Len(args[i])
      /\ \A n \in 1..Len(args[i]) : Exp[n] = Expansion(n)
  BY <1>1, CountedFacts DEF WordsInv
<1>3. j \in 1..Len(args[i]) /\ j' \in 1..(Len(args[i]) + 1) /\ j' - 1 = j
  BY <1>1, <1>2 DEF AllArgs
<1>4. CheckedTo(Len(args[i]))'
  <2>1. CheckedTo(Len(args[i])) /\ UNCHANGED <<args, i, globs, checked>>
    BY <1>1, <1>2
  <2> QED BY <2>1 DEF CheckedTo, Expansion
<1>5. argv' = FlatTo(Exp', j' - 1)
  <2>1. FlatTo(Exp, j) = FlatTo(Exp, j - 1) \o Exp[j]
    BY <1>2, <1>3, FlatToFacts
  <2> QED BY <1>1, <1>2, <1>3, <2>1, CountedStays
<1> QED BY <1>1, <1>3, <1>4, <1>5, CountedStays DEF WordsInv

(* The NULL is the last entry.                                              *)
LEMMA TerminateStep == ASSUME WordsInv, Terminate PROVE WordsInv'
<1>1. /\ pc = "fill" /\ pc' = "exec" /\ Counting /\ Counting' /\ AllArgs
      /\ argv' = Append(argv, <<"NULL">>)
      /\ UNCHANGED <<job, args, i, globs, argc, checked>>
  BY DEF Terminate, merging, Counting
<1>2. /\ j \in 1..(Len(args[i]) + 1) /\ CheckedTo(Len(args[i])) /\ argv = FlatTo(Exp, j - 1)
      /\ Len(args[i]) \in Nat /\ Exp \in Seq(Seq(Text)) /\ Len(Exp) = Len(args[i])
  BY <1>1, CountedFacts DEF WordsInv
<1>3. j - 1 = Len(args[i])
  BY <1>1, <1>2 DEF AllArgs
<1>4. CheckedTo(Len(args[i]))'
  <2>1. CheckedTo(Len(args[i])) /\ UNCHANGED <<args, i, globs, checked>>
    BY <1>1, <1>2
  <2> QED BY <2>1 DEF CheckedTo, Expansion
<1>5. argv = FlattenSeq(Exp) /\ argv \in Seq(Text)
  <2>1. Len(Exp) \in 0..Len(Exp)
    BY <1>2
  <2> QED BY <1>2, <1>3, <2>1, FlatToFacts
<1>6. argv' = FlattenSeq(Exp') \o << <<"NULL">> >>
  <2> DEFINE S == Text \cup {<<"NULL">>}
  <2>1. argv \in Seq(S) /\ <<"NULL">> \in S
    BY <1>5
  <2> HIDE DEF S
  <2>2. Append(argv, <<"NULL">>) = argv \o << <<"NULL">> >>
    BY <2>1, AppendIsConcat
  <2>3. Exp' = Exp
    BY <1>1, CountedStays
  <2> QED BY <1>1, <1>5, <2>2, <2>3
<1> QED BY <1>1, <1>4, <1>6, CountedStays DEF WordsInv

(* The next task has no globs, counts and names of its own yet.             *)
LEMMA NextTaskStep == ASSUME WordsInv, NextTask PROVE WordsInv'
<1>1. /\ pc = "exec" /\ pc' \in {"glob", "over"} /\ ~Merging /\ ~Merging' /\ j' = 1 /\ globs' = <<>>
      /\ UNCHANGED <<job, args, argc>>
      /\ i' = (IF i < Len(job) THEN i + 1 ELSE i)
  BY DEF NextTask, merging, Merging
<1>2. ArgsMade /\ argc \in Nat /\ argc >= 1
  BY DEF WordsInv
<1>3. i' \in 1..Len(job)
  <2>1. i \in 1..Len(job) /\ job \in Jobs
    BY <1>2 DEF ArgsMade
  <2>2. Len(job) \in Nat
    BY <2>1, JobFacts
  <2> QED BY <1>1, <2>1, <2>2
<1>4. ArgsMade'
  BY <1>1, <1>2, <1>3, ArgsStay
<1>5. 1 \in 1..(Len(args'[i']) + 1)
  <2>1. args'[i'] \in Seq(Arg)
    BY <1>1, <1>3, <1>4 DEF ArgsMade
  <2> QED BY <2>1
<1>6. globs' \in Seq(Seq(Text)) /\ Len(globs') = j' - 1
  BY <1>1
<1> QED BY <1>1, <1>2, <1>4, <1>5, <1>6 DEF WordsInv

(* Every step keeps the invariant.                                          *)
LEMMA NextKeeps == WordsInv /\ [Next]_vars => WordsInv'
<1> SUFFICES ASSUME WordsInv, [Next]_vars PROVE WordsInv'
  OBVIOUS
<1>1. CASE Merge
  BY <1>1, MeasureStep, AllocateStep, CopyStep, MergedStep DEF Merge
<1>2. CASE Prepare
  BY <1>2, ExtractGlobStep, FailStep, CountStep, CheckStep, AllocateArgvStep, FillStep,
     TerminateStep DEF Prepare
<1>3. CASE NextTask
  BY <1>3, NextTaskStep
<1>4. CASE UNCHANGED vars
  <2>1. UNCHANGED <<job, pc, i, j, k, is_glob, is_file, is_trusted, detecting, escapes, slen,
                    sandbox_len, sandbox_candidate, text, trusted, args, globs, argc, argv,
                    checked>>
    BY <1>4 DEF vars, flags, sizes, built, run
  <2>2. ArgsMade' = ArgsMade /\ Merging' = Merging /\ word' = word /\ Exp' = Exp
    BY <2>1 DEF ArgsMade, Made, Merging, word, Exp, Expansion
  <2>3. Measured(word, k - 1)' = Measured(word, k - 1) /\ Copied(word, k - 1)' = Copied(word, k - 1)
    BY <2>1, <2>2 DEF Measured, Copied, FlagsSeen, Source, HasTrustedPath
  <2>4. CheckedTo(j - 1)' = CheckedTo(j - 1)
        /\ CheckedTo(Len(args[i]))' = CheckedTo(Len(args[i]))
    BY <2>1 DEF CheckedTo, Expansion
  <2> QED BY <2>1, <2>2, <2>3, <2>4 DEF WordsInv
<1> QED BY <1>1, <1>2, <1>3, <1>4 DEF Next

(* The invariant holds always: each walk of _sf1_merge_and_free_syllables   *)
(* knows of the syllables that it has seen what the README and the          *)
(* assertions rely on, every argument is what its word says, and argv holds *)
(* the strings of the arguments that have been filled in.                   *)
THEOREM WordsInductive == Spec => []WordsInv
BY InitEstablishes, NextKeeps, PTL DEF Spec

(* What a walk has copied is the beginning of what was measured.            *)
LEMMA FitsWhileCopying == WordsInv => MergeFits
<1> SUFFICES ASSUME WordsInv, pc = "copy"
             PROVE  /\ Len(text) <= slen /\ Len(trusted) <= sandbox_len
                    /\ k > Len(word) => Len(text) = slen /\ Len(trusted) = sandbox_len
  BY DEF MergeFits
<1>1. Merging /\ Copied(word, k - 1)
  BY DEF WordsInv, Merging
<1>2. PICK w \in Seq(Syllable) : w = word
  BY <1>1, WordFacts
<1>3. Len(w) \in Nat /\ k \in 1..(Len(w) + 1)
  BY <1>1, <1>2, WordFacts
<1>4. PICK n \in 0..Len(w) : n = k - 1
  BY <1>3
<1> DEFINE len == Len(w)
           path == FlatTo(Texts(w), n)
           paths == FlatTo(Texts(w), len)
           part == FlatTo(Source(w), n)
           whole == FlatTo(Source(w), len)
<1>5. /\ slen = Len(whole) /\ text = part
      /\ sandbox_len \in 0..Len(paths)
      /\ trusted = SubSeq(path, 1, Shorter(sandbox_len, Len(path)))
  BY <1>1, <1>2, <1>4 DEF Copied
<1>6. /\ Texts(w) \in Seq(Seq(Chars)) /\ Len(Texts(w)) = len
      /\ Source(w) \in Seq(Seq(Chars)) /\ Len(Source(w)) = len
  BY TextsFacts DEF Source
<1>7. path \in Text /\ paths \in Text /\ part \in Text /\ whole \in Text
  <2> HIDE DEF len
  <2>1. n \in 0..len /\ len \in 0..len
    BY <1>3, <1>4 DEF len
  <2> QED BY <1>6, <2>1, FlatToFacts DEF Text
<1>8. Len(part) <= Len(whole)
  <2> HIDE DEF len
  <2>1. len \in 0..len /\ n \in 0..len
    BY <1>3, <1>4 DEF len
  <2> QED BY <1>6, <2>1, FlatToGrows
<1> HIDE DEF len, path, paths, part, whole
<1>9. Len(path) \in Nat /\ Len(paths) \in Nat /\ sandbox_len \in Nat
  BY <1>5, <1>7 DEF Text
<1>10. Shorter(sandbox_len, Len(path)) \in 0..Len(path) /\ Shorter(sandbox_len, Len(path)) <= sandbox_len
  BY <1>9 DEF Shorter
<1>11. Len(trusted) = Shorter(sandbox_len, Len(path))
  BY <1>5, <1>7, <1>10, Beginning DEF Text
<1>12. ASSUME k > Len(word) PROVE Len(text) = slen /\ Len(trusted) = sandbox_len
  <2>1. n = len
    BY <1>2, <1>3, <1>4, <1>12 DEF len
  <2>2. path = paths /\ part = whole
    BY <2>1 DEF path, paths, part, whole
  <2>3. Shorter(sandbox_len, Len(path)) = sandbox_len
    BY <1>5, <1>9, <2>2 DEF Shorter
  <2> QED BY <1>5, <1>11, <2>2, <2>3
<1> QED BY <1>5, <1>8, <1>10, <1>11, <1>12

(* The two walks of _sf1_merge_and_free_syllables agree: the text and the   *)
(* trusted path never get longer than what was allocated for them, and are  *)
(* as long in the end, so that its assertion on the length never fails. For *)
(* words of any number of syllables of any length.                          *)
THEOREM MergeAlwaysFits == Spec => []MergeFits
BY WordsInductive, FitsWhileCopying, PTL

(* The trusted path of an argument is set when it is made.                  *)
LEMMA PathsAreFound ==
  ASSUME WordsInv, NEW t \in DOMAIN args, NEW n \in DOMAIN args[t]
  PROVE  args[t][n].trusted_path = FoundPath(job[t][n])
<1>1. ArgsMade
  BY DEF WordsInv
<1>2. t \in 1..Len(job) /\ args[t] \in Seq(Arg)
  BY <1>1 DEF ArgsMade
<1>3. n \in 1..Len(args[t])
  BY <1>2
<1> QED BY <1>1, <1>2, <1>3 DEF ArgsMade, IsMergeOf

(* For a file reference that is the path of README.md, with "" read as ./ , *)
(* and for any other word there is none.                                   *)
LEMMA PathsAreDocumented == WordsInv => TrustedAsDocumented
<1> SUFFICES ASSUME WordsInv, NEW t \in DOMAIN args, NEW n \in DOMAIN args[t]
             PROVE  LET w     == job[t][n]
                        found == {Directory(path) : path \in args[t][n].trusted_path}
                    IN  /\ IsFileReference(w) => found = {DocumentedPath(w)}
                        /\ ~IsFileReference(w) /\ n > 1 => found = {}
  BY DEF TrustedAsDocumented
<1> DEFINE w == job[t][n]
           p == args[t][n].trusted_path
<1>1. p = FoundPath(w)
  BY PathsAreFound
<1> HIDE DEF w, p
<1>2. ASSUME IsFileReference(w)
      PROVE  {Directory(path) : path \in p} = {DocumentedPath(w)}
  BY <1>1, <1>2 DEF FoundPath, DocumentedPath
<1>3. ASSUME ~IsFileReference(w)
      PROVE  {Directory(path) : path \in p} = {}
  BY <1>1, <1>3 DEF FoundPath
<1> QED BY <1>2, <1>3 DEF w, p

(* The trusted path that _sf1_merge_and_free_syllables finds for a file     *)
(* reference, a word with untrusted data and a wildcard or a %p, is that of *)
(* README.md: up to the last slash before anything untrusted and before any *)
(* wildcard, in whichever syllable it is, and the current directory where   *)
(* there is none.  No other word behind the command has one.  Of a command  *)
(* with a plain %s, row 7 of the README's table, it says nothing: there the *)
(* program does not do what the table says (CommandSandboxed).             *)
THEOREM FileReferencesHaveDocumentedPaths == Spec => []TrustedAsDocumented
BY WordsInductive, PathsAreDocumented, PTL

(* A task needs no more than its own count and the one for the NULL.        *)
LEMMA VectorFits == WordsInv => ArgvFits
<1> SUFFICES ASSUME WordsInv, pc \in {"fill", "exec"} PROVE Len(argv) <= argc
  BY DEF ArgvFits
<1>1. /\ argc \in Nat /\ argc >= 1 + Len(FlattenSeq(Exp))
      /\ Len(args[i]) \in Nat /\ Exp \in Seq(Seq(Text)) /\ Len(Exp) = Len(args[i])
  BY CountedFacts DEF Counting
<1> DEFINE len == Len(args[i])
           all == FlatTo(Exp, len)
<1> HIDE DEF len
<1>2. FlattenSeq(Exp) = all /\ all \in Seq(Text) /\ len \in 0..len
  <2>1. len \in 0..len /\ Len(Exp) = len
    BY <1>1 DEF len
  <2> QED BY <1>1, <2>1, FlatToFacts
<1>3. CASE pc = "fill"
  <2>1. j \in 1..(Len(args[i]) + 1) /\ argv = FlatTo(Exp, j - 1)
    BY <1>3 DEF WordsInv
  <2>2. PICK n \in 0..len : n = j - 1
    BY <1>1, <2>1 DEF len
  <2>3. Len(FlatTo(Exp, n)) <= Len(all) /\ FlatTo(Exp, n) \in Seq(Text)
    <3>1. len \in 0..Len(Exp) /\ n \in 0..Len(Exp)
      BY <1>1, <1>2, <2>2 DEF len
    <3> QED BY <1>1, <2>2, <3>1, FlatToGrows, FlatToFacts
  <2> HIDE DEF all
  <2>4. Len(all) \in Nat /\ Len(FlatTo(Exp, n)) \in Nat
    BY <1>2, <2>3
  <2> QED BY <1>1, <1>2, <2>1, <2>2, <2>3, <2>4
<1>4. CASE pc = "exec"
  <2>1. argv = FlattenSeq(Exp) \o << <<"NULL">> >>
    BY <1>4 DEF WordsInv
  <2> DEFINE S == Text \cup {<<"NULL">>}
             z == << <<"NULL">> >>
  <2>2. all \in Seq(S) /\ z \in Seq(S) /\ Len(z) = 1
    BY <1>2
  <2> HIDE DEF all, S, z
  <2>3. Len(all \o z) = Len(all) + 1 /\ Len(all) \in Nat
    BY <2>2, ConcatProperties, LenProperties
  <2>4. argv = all \o z
    BY <1>2, <2>1 DEF z
  <2>5. argc >= 1 + Len(all) /\ argc \in Nat
    BY <1>1, <1>2
  <2>6. Len(argv) = Len(all) + 1
    BY <2>3, <2>4
  <2> QED BY <2>3, <2>5, <2>6
<1> QED BY <1>3, <1>4

(* The loop of _sf1_tasks_run never writes behind argv: argc, which it      *)
(* never resets, is at least the number of strings of the task and one.     *)
THEOREM ArgvAlwaysFits == Spec => []ArgvFits
BY WordsInductive, VectorFits, PTL

(* All arguments are in argv, in order.                                     *)
LEMMA VectorIsWritten == WordsInv => ArgvAsWritten
<1> SUFFICES ASSUME WordsInv, pc = "exec"
             PROVE  argv = FlattenSeq([n \in DOMAIN args[i] |-> Expansion(n)]) \o << <<"NULL">> >>
  BY DEF ArgvAsWritten
<1>1. argv = FlattenSeq(Exp) \o << <<"NULL">> >>
  BY DEF WordsInv
<1>2. DOMAIN args[i] = 1..Len(args[i])
  <2>1. args[i] \in Seq(Arg)
    BY DEF WordsInv, ArgsMade
  <2> QED BY <2>1
<1> QED BY <1>1, <1>2 DEF Exp

(* When _sf1_tasks_run forks, argv holds the strings of all arguments of    *)
(* the task in order, each glob replaced by the names that it found, and    *)
(* NULL.                                                                    *)
THEOREM ArgvIsAsWritten == Spec => []ArgvAsWritten
BY WordsInductive, VectorIsWritten, PTL

(* The loop of the check has passed every argument.                         *)
LEMMA NamesAreChecked == WordsInv => CheckedBeforeUse
<1> SUFFICES ASSUME WordsInv, pc = "exec", NEW n \in DOMAIN job[i],
                    IsFileReference(job[i][n]), NEW name \in ToSet(Expansion(n))
             PROVE  Passed(name, job[i][n])
  BY DEF CheckedBeforeUse
<1>1. ArgsMade /\ CheckedTo(Len(args[i])) /\ ~Merging
  BY DEF WordsInv, Merging
<1>2. job \in Jobs /\ i \in 1..Len(job) /\ Len(args[i]) = Len(job[i])
  BY <1>1 DEF ArgsMade, Made
<1>3. n \in 1..Len(args[i])
  <2>1. DOMAIN job[i] = 1..Len(job[i])
    <3>1. job \in Seq(Seq(Seq(Syllable)))
      BY <1>2, WordsAssumption
    <3>2. job[i] \in Seq(Seq(Syllable))
      BY <1>2, <3>1, ElementOfSeq
    <3> QED BY <3>2
  <2> QED BY <1>2, <2>1
<1>4. args[i][n].trusted_path = FoundPath(job[i][n])
  BY <1>1, <1>2, <1>3 DEF ArgsMade, IsMergeOf
<1> DEFINE w == job[i][n]
           c == <<TrustedStart(w), name>>
<1>5. TrustedStart(w) \in args[i][n].trusted_path
  BY <1>4 DEF FoundPath
<1>6. c \in checked
  BY <1>1, <1>3, <1>5 DEF CheckedTo
<1> HIDE DEF w
<1>7. c[2] = name /\ Directory(c[1]) = DocumentedPath(w)
  BY DEF DocumentedPath
<1>8. Passed(name, w)
  BY <1>6, <1>7 DEF Passed
<1> QED BY <1>8 DEF w

(* Before _sf1_tasks_run forks, _sf1_file_sandbox_check_args has checked    *)
(* every name that a file reference has become, also each name that a glob  *)
(* found, against the path that README.md gives for that word.  It says     *)
(* nothing of words with untrusted data but no wildcard and no %p: those    *)
(* are not checked.                                                        *)
THEOREM FileReferencesAreChecked == Spec => []CheckedBeforeUse
BY WordsInductive, NamesAreChecked, PTL

(***************************************************************************)
(* How glob reads what was made                                            *)
(***************************************************************************)
(* Two rows of sequences are joined one after the other.                    *)
LEMMA FlattenConcat ==
  ASSUME NEW S, NEW ss \in Seq(Seq(S)), NEW tt \in Seq(Seq(S))
  PROVE  /\ FlattenSeq(ss \o tt) = FlattenSeq(ss) \o FlattenSeq(tt)
         /\ FlattenSeq(ss) \in Seq(S) /\ FlattenSeq(tt) \in Seq(S)
<1> DEFINE c == ss \o tt
           m == Len(ss)
           len == Len(tt)
           A == FlattenSeq(ss)
           T == {n \in 0..len : FlatTo(c, m + n) = A \o FlatTo(tt, n)}
<1>1. /\ m \in Nat /\ len \in Nat /\ c \in Seq(Seq(S)) /\ Len(c) = m + len
      /\ (\A n \in 1..m : c[n] = ss[n]) /\ (\A n \in 1..len : c[m + n] = tt[n])
  BY ConcatProperties, LenProperties
<1> HIDE DEF c
<1>2. /\ A = FlatTo(ss, m) /\ FlatTo(tt, 0) = <<>> /\ FlattenSeq(tt) = FlatTo(tt, len)
      /\ FlattenSeq(c) = FlatTo(c, m + len)
  BY <1>1, FlatToFacts
<1>3. \A n \in 0..m : FlatTo(ss, n) \in Seq(S)
  BY FlatToFacts
<1>4. /\ \A n \in 0..len : FlatTo(tt, n) \in Seq(S)
      /\ \A n \in 1..len : FlatTo(tt, n) = FlatTo(tt, n - 1) \o tt[n]
  BY FlatToFacts
<1>5. \A n \in 1..(m + len) : FlatTo(c, n) = FlatTo(c, n - 1) \o c[n]
  BY <1>1, FlatToFacts
<1>6. A \in Seq(S) /\ FlattenSeq(tt) \in Seq(S)
  <2>1. m \in 0..m /\ len \in 0..len
    BY <1>1
  <2> QED BY <1>2, <1>3, <1>4, <2>1
<1>7. FlatTo(c, m) = A
  <2>1. [n \in 1..m |-> c[n]] = [n \in 1..m |-> ss[n]]
    BY <1>1
  <2> QED BY <1>2, <2>1 DEF FlatTo
<1> HIDE DEF m, len, A
<1>8. 0 \in T
  <2>1. m + 0 = m /\ A \o <<>> = A /\ 0 \in 0..len
    BY <1>1, <1>6, ConcatEmptySeq
  <2> QED BY <1>2, <1>7, <2>1
<1>9. ASSUME NEW n \in 0..(len - 1), n \in T PROVE n + 1 \in T
  <2>1. /\ n + 1 \in 1..len /\ n + 1 \in 0..len /\ n \in 0..len /\ (n + 1) - 1 = n
        /\ m + (n + 1) \in 1..(m + len) /\ (m + (n + 1)) - 1 = m + n
    BY <1>1
  <2>2. FlatTo(c, m + (n + 1)) = FlatTo(c, m + n) \o c[m + (n + 1)]
    BY <1>5, <2>1
  <2>3. FlatTo(tt, n + 1) = FlatTo(tt, n) \o tt[n + 1]
    BY <1>4, <2>1
  <2>4. c[m + (n + 1)] = tt[n + 1] /\ tt[n + 1] \in Seq(S) /\ FlatTo(tt, n) \in Seq(S)
    <3>1. tt[n + 1] \in Seq(S)
      BY <2>1, ElementOfSeq DEF len
    <3> QED BY <1>1, <1>4, <2>1, <3>1
  <2>5. FlatTo(c, m + n) = A \o FlatTo(tt, n)
    BY <1>9
  <2>6. (A \o FlatTo(tt, n)) \o tt[n + 1] = A \o (FlatTo(tt, n) \o tt[n + 1])
    <3> DEFINE x == FlatTo(tt, n)
               y == tt[n + 1]
    <3>1. A \in Seq(S) /\ x \in Seq(S) /\ y \in Seq(S)
      BY <1>6, <2>4
    <3> HIDE DEF x, y
    <3>2. (A \o x) \o y = A \o (x \o y)
      BY <3>1, ConcatAssociative
    <3> QED BY <3>2 DEF x, y
  <2>7. FlatTo(c, m + (n + 1)) = (A \o FlatTo(tt, n)) \o tt[n + 1]
    BY <2>2, <2>4, <2>5
  <2>8. FlatTo(c, m + (n + 1)) = A \o FlatTo(tt, n + 1)
    BY <2>3, <2>6, <2>7
  <2> QED BY <2>1, <2>8
<1>10. len \in T
  <2>1. \A n \in 0..len : n \in T
    <3> HIDE DEF T
    <3> QED BY <1>1, <1>8, <1>9, BoundedInduction
  <2> QED BY <1>1, <2>1
<1> QED BY <1>2, <1>6, <1>10 DEF c, A

(* ss has the entries of f, each alone.                                     *)
Singles(ss, f, m) == Len(ss) = m /\ \A n \in 1..m : ss[n] = <<f[n]>>

(* Sequences of one entry each are joined to the sequence of the entries.   *)
LEMMA FlattenSingles ==
  ASSUME NEW S, NEW ss \in Seq(Seq(S)), NEW m \in Nat, NEW f \in [1..m -> S], Singles(ss, f, m)
  PROVE  FlattenSeq(ss) = f
<1> DEFINE beg(n) == [x \in 1..n |-> f[x]]
           T == {n \in 0..m : FlatTo(ss, n) = beg(n)}
<1>1. Len(ss) = m /\ \A n \in 1..m : ss[n] = <<f[n]>>
  BY DEF Singles
<1>2. \A n \in 0..m : beg(n) \in Seq(S) /\ Len(beg(n)) = n
  OBVIOUS
<1>3. 0 \in T
  <2>1. beg(0) = <<>>
    OBVIOUS
  <2>2. FlatTo(ss, 0) = <<>>
    BY FlatToFacts
  <2>3. FlatTo(ss, 0) = beg(0) /\ 0 \in 0..m
    BY <2>1, <2>2
  <2> HIDE DEF beg
  <2> QED BY <2>3
<1>4. ASSUME NEW n \in 0..(m - 1), n \in T PROVE n + 1 \in T
  <2>1. n + 1 \in 1..m /\ n + 1 \in 0..m /\ n \in 0..m /\ (n + 1) - 1 = n
    OBVIOUS
  <2>2. FlatTo(ss, n + 1) = beg(n) \o <<f[n + 1]>>
    <3>1. FlatTo(ss, n) = beg(n)
      BY <1>4
    <3>2. FlatTo(ss, n + 1) = FlatTo(ss, n) \o ss[n + 1]
      <4> HIDE DEF beg, T
      <4>1. n + 1 \in 1..Len(ss)
        BY <1>1, <2>1
      <4> QED BY <2>1, <4>1, FlatToFacts
    <3>3. ss[n + 1] = <<f[n + 1]>>
      BY <1>1, <2>1
    <3> HIDE DEF beg, T
    <3> QED BY <3>1, <3>2, <3>3
  <2> DEFINE a == beg(n)
             x == f[n + 1]
             b == beg(n + 1)
  <2>3. /\ a \in Seq(S) /\ Len(a) = n /\ x \in S /\ b \in Seq(S) /\ Len(b) = n + 1
        /\ (\A h \in 1..n : a[h] = b[h]) /\ b[n + 1] = x
    BY <1>2, <2>1
  <2> HIDE DEF a, x, b
  <2>4. a \o <<x>> = b
    <3> DEFINE c == a \o <<x>>
    <3>1. c \in Seq(S) /\ Len(c) = n + 1 /\ (\A h \in 1..n : c[h] = a[h]) /\ c[n + 1] = x
      BY <2>3
    <3>2. \A h \in 1..(n + 1) : h \in 1..n \/ h = n + 1
      OBVIOUS
    <3> HIDE DEF c
    <3>3. \A h \in 1..Len(c) : c[h] = b[h]
      BY <2>3, <3>1, <3>2
    <3>4. c = b
      BY <2>3, <3>1, <3>3, SeqEqual
    <3> QED BY <3>4 DEF c
  <2> QED BY <2>1, <2>2, <2>4 DEF a, x, b
<1>5. m \in T
  <2>1. \A n \in 0..m : n \in T
    <3> HIDE DEF T
    <3> QED BY <1>3, <1>4, BoundedInduction
  <2> QED BY <2>1
<1>6. beg(m) = f
  OBVIOUS
<1>7. FlattenSeq(ss) = FlatTo(ss, m)
  <2>1. Len(ss) = m
    BY <1>1
  <2> QED BY <2>1, FlatToFacts
<1>8. FlatTo(ss, m) = beg(m)
  BY <1>5
<1> QED BY <1>6, <1>7, <1>8

(* One character of a pattern, and all of them.                             *)
Reads == Chars \X BOOLEAN
Reading(p, n) == <<p[n], p[n] \notin GlobChars \/ (n - 1 > 0 /\ p[n - 1] = "\\")>>
Readings(p) == [n \in 1..Len(p) |-> IF p[n] = "\\" THEN <<>> ELSE <<Reading(p, n)>>]

(* The types of both, and the pattern is read one character after the       *)
(* other.                                                                   *)
LEMMA ReadingsFacts ==
  ASSUME NEW p \in Text
  PROVE  /\ Len(p) \in Nat /\ Readings(p) \in Seq(Seq(Reads)) /\ Len(Readings(p)) = Len(p)
         /\ \A n \in 1..Len(p) : Readings(p)[n] = IF p[n] = "\\" THEN <<>> ELSE <<Reading(p, n)>>
         /\ ReadAsPattern(p) = FlattenSeq(Readings(p))
<1> DEFINE len == Len(p)
<1>1. len \in Nat /\ DOMAIN p = 1..len /\ \A n \in 1..len : p[n] \in Chars
  BY DEF Text
<1>2. ASSUME NEW n \in 1..len PROVE Reading(p, n) \in Reads
  <2> DEFINE b == p[n] \notin GlobChars \/ (n - 1 > 0 /\ p[n - 1] = "\\")
  <2>1. b \in BOOLEAN
    OBVIOUS
  <2> HIDE DEF b
  <2>2. <<p[n], b>> \in Chars \X BOOLEAN
    BY <1>1, <2>1
  <2> QED BY <2>2 DEF Reading, Reads, b
<1>3. ASSUME NEW n \in 1..len PROVE (IF p[n] = "\\" THEN <<>> ELSE <<Reading(p, n)>>) \in Seq(Reads)
  BY <1>2
<1>4. Readings(p) \in Seq(Seq(Reads)) /\ Len(Readings(p)) = len
      /\ \A n \in 1..len : Readings(p)[n] = IF p[n] = "\\" THEN <<>> ELSE <<Reading(p, n)>>
  BY <1>1, <1>3 DEF Readings
<1>5. ReadAsPattern(p)
        = FlattenSeq([n \in DOMAIN p |-> IF n > 0 /\ p[n] = "\\" THEN <<>> ELSE <<Reading(p, n)>>])
  BY DEF ReadAsPattern, Reading
<1>6. [n \in DOMAIN p |-> IF n > 0 /\ p[n] = "\\" THEN <<>> ELSE <<Reading(p, n)>>] = Readings(p)
  BY <1>1 DEF Readings
<1> QED BY <1>1, <1>4, <1>5, <1>6

(* A pattern that ends within an escape.                                    *)
Open(p) == Len(p) > 0 /\ p[Len(p)] = "\\"

(* Two patterns in a row are read in turn if the first does not end so.     *)
LEMMA ReadJoined ==
  ASSUME NEW a \in Text, NEW b \in Text, ~Open(a)
  PROVE  ReadAsPattern(a \o b) = ReadAsPattern(a) \o ReadAsPattern(b)
<1> DEFINE c == a \o b
           m == Len(a)
           len == Len(b)
<1>1. /\ m \in Nat /\ len \in Nat /\ c \in Text /\ Len(c) = m + len
      /\ (\A n \in 1..m : c[n] = a[n]) /\ (\A n \in 1..len : c[m + n] = b[n])
  BY ConcatProperties, LenProperties DEF Text
<1>2. m > 0 => a[m] # "\\"
  BY DEF Open
<1> HIDE DEF c, m, len
<1>3. ASSUME NEW n \in 1..m PROVE Reading(c, n) = Reading(a, n)
  <2>1. c[n] = a[n] /\ (n - 1 > 0 => c[n - 1] = a[n - 1])
    BY <1>1
  <2> QED BY <2>1, Zenon DEF Reading
<1>4. ASSUME NEW n \in 1..len PROVE Reading(c, m + n) = Reading(b, n)
  <2>1. c[m + n] = b[n]
    BY <1>1
  <2>2. (m + n) - 1 > 0 /\ c[(m + n) - 1] = "\\" <=> n - 1 > 0 /\ b[n - 1] = "\\"
    <3>1. CASE n = 1
      <4>1. (m + n) - 1 = m /\ ~(n - 1 > 0)
        BY <1>1, <3>1
      <4>2. m > 0 => c[m] = a[m]
        BY <1>1
      <4> QED BY <1>2, <4>1, <4>2
    <3>2. CASE n # 1
      <4>1. n - 1 \in 1..len /\ (m + n) - 1 = m + (n - 1) /\ n - 1 > 0 /\ (m + n) - 1 > 0
        BY <1>1, <3>2
      <4> QED BY <1>1, <4>1
    <3> QED BY <3>1, <3>2
  <2> QED BY <2>1, <2>2, Zenon DEF Reading
<1>5. Readings(c) = Readings(a) \o Readings(b)
  <2> DEFINE x == Readings(c)
             y == Readings(a)
             z == Readings(b)
             S == Seq(Reads)
  <2>1. /\ x \in Seq(S) /\ Len(x) = m + len
        /\ \A n \in 1..(m + len) : x[n] = IF c[n] = "\\" THEN <<>> ELSE <<Reading(c, n)>>
    BY <1>1, ReadingsFacts
  <2>2. /\ y \in Seq(S) /\ Len(y) = m
        /\ \A n \in 1..m : y[n] = IF a[n] = "\\" THEN <<>> ELSE <<Reading(a, n)>>
    BY ReadingsFacts DEF m
  <2>3. /\ z \in Seq(S) /\ Len(z) = len
        /\ \A n \in 1..len : z[n] = IF b[n] = "\\" THEN <<>> ELSE <<Reading(b, n)>>
    BY ReadingsFacts DEF len
  <2> HIDE DEF x, y, z, S
  <2> DEFINE w == y \o z
  <2>4. /\ w \in Seq(S) /\ Len(w) = m + len
        /\ (\A n \in 1..m : w[n] = y[n]) /\ (\A n \in 1..len : w[m + n] = z[n])
    <3>1. y \in Seq(S) /\ Len(y) = m /\ z \in Seq(S) /\ Len(z) = len
      BY <2>2, <2>3
    <3>2. w \in Seq(S) /\ Len(w) = m + len
          /\ \A n \in 1..(m + len) : w[n] = IF n <= m THEN y[n] ELSE z[n - m]
      <4>1. w \in Seq(S) /\ Len(w) = Len(y) + Len(z)
            /\ \A n \in 1..(Len(y) + Len(z)) : w[n] = IF n <= Len(y) THEN y[n] ELSE z[n - Len(y)]
        BY <3>1, ConcatProperties
      <4> HIDE DEF w
      <4> QED BY <3>1, <4>1
    <3> HIDE DEF w
    <3>3. \A n \in 1..len : m + n \in 1..(m + len) /\ ~(m + n <= m) /\ (m + n) - m = n
      BY <1>1
    <3>4. \A n \in 1..m : n \in 1..(m + len) /\ n <= m
      BY <1>1
    <3>5. \A n \in 1..len : w[m + n] = z[n]
      BY <3>2, <3>3
    <3> QED BY <3>2, <3>4, <3>5
  <2> HIDE DEF w
  <2>5. ASSUME NEW n \in 1..(m + len) PROVE x[n] = w[n]
    <3>1. CASE n \in 1..m
      BY <1>1, <1>3, <2>1, <2>2, <2>4, <3>1
    <3>2. CASE n \notin 1..m
      <4>1. n - m \in 1..len /\ m + (n - m) = n
        BY <1>1, <3>2
      <4>2. w[n] = z[n - m] /\ c[n] = b[n - m] /\ Reading(c, n) = Reading(b, n - m)
        BY <1>1, <1>4, <2>4, <4>1
      <4> QED BY <2>1, <2>3, <4>1, <4>2
    <3> QED BY <3>1, <3>2
  <2>6. x = w
    BY <2>1, <2>4, <2>5, SeqEqual
  <2> QED BY <2>6 DEF x, w, y, z
<1>6. /\ ReadAsPattern(c) = FlattenSeq(Readings(c))
      /\ ReadAsPattern(a) = FlattenSeq(Readings(a)) /\ Readings(a) \in Seq(Seq(Reads))
      /\ ReadAsPattern(b) = FlattenSeq(Readings(b)) /\ Readings(b) \in Seq(Seq(Reads))
  <2>1. ReadAsPattern(c) = FlattenSeq(Readings(c))
    BY <1>1, ReadingsFacts
  <2>2. ReadAsPattern(a) = FlattenSeq(Readings(a)) /\ Readings(a) \in Seq(Seq(Reads))
    BY ReadingsFacts
  <2>3. ReadAsPattern(b) = FlattenSeq(Readings(b)) /\ Readings(b) \in Seq(Seq(Reads))
    BY ReadingsFacts
  <2> QED BY <2>1, <2>2, <2>3
<1>7. FlattenSeq(Readings(a) \o Readings(b)) = FlattenSeq(Readings(a)) \o FlattenSeq(Readings(b))
  BY <1>6, FlattenConcat
<1>8. ReadAsPattern(c) = ReadAsPattern(a) \o ReadAsPattern(b)
  BY <1>5, <1>6, <1>7
<1> QED BY <1>8 DEF c

(* ... and neither do both together if none does.                           *)
LEMMA OpenJoined ==
  ASSUME NEW a \in Text, NEW b \in Text, ~Open(a), ~Open(b)
  PROVE  ~Open(a \o b) /\ a \o b \in Text
<1> DEFINE c == a \o b
           m == Len(a)
           len == Len(b)
<1>1. /\ m \in Nat /\ len \in Nat /\ c \in Text /\ Len(c) = m + len
      /\ (\A n \in 1..m : c[n] = a[n]) /\ (\A n \in 1..len : c[m + n] = b[n])
  BY ConcatProperties, LenProperties DEF Text
<1>2. (m > 0 => a[m] # "\\") /\ (len > 0 => b[len] # "\\")
  BY DEF Open
<1> HIDE DEF c, m, len
<1>3. CASE len = 0
  BY <1>1, <1>2, <1>3 DEF Open, c
<1>4. CASE len # 0
  BY <1>1, <1>2, <1>4 DEF Open, c
<1> QED BY <1>3, <1>4

(* What is read is a row of characters and how each is taken.               *)
LEMMA ReadType ==
  ASSUME NEW p \in Text
  PROVE  ReadAsPattern(p) \in Seq(Reads)
BY ReadingsFacts, FlattenConcat

(* Pieces that end no escape early are read one by one.                     *)
LEMMA ReadPieces ==
  ASSUME NEW ss \in Seq(Text), \A m \in 1..Len(ss) : ~Open(ss[m]),
         NEW tt, tt = [m \in 1..Len(ss) |-> ReadAsPattern(ss[m])]
  PROVE  ReadAsPattern(FlattenSeq(ss)) = FlattenSeq(tt) /\ ~Open(FlattenSeq(ss))
<1> DEFINE len == Len(ss)
           T == {n \in 0..len : /\ ReadAsPattern(FlatTo(ss, n)) = FlatTo(tt, n)
                                /\ ~Open(FlatTo(ss, n))}
<1>1. len \in Nat /\ ss \in Seq(Seq(Chars)) /\ \A m \in 1..len : ss[m] \in Text
  BY DEF Text
<1>2. /\ tt \in Seq(Seq(Reads)) /\ Len(tt) = len
      /\ \A m \in 1..len : tt[m] = ReadAsPattern(ss[m])
  <2>1. \A m \in 1..len : ReadAsPattern(ss[m]) \in Seq(Reads)
    BY <1>1, ReadType
  <2> QED BY <1>1, <2>1
<1> HIDE DEF len
<1>3. /\ FlatTo(ss, 0) = <<>> /\ FlattenSeq(ss) = FlatTo(ss, len)
      /\ \A n \in 0..len : FlatTo(ss, n) \in Text
      /\ \A n \in 1..len : FlatTo(ss, n) = FlatTo(ss, n - 1) \o ss[n]
  BY <1>1, FlatToFacts DEF Text, len
<1>4. /\ FlatTo(tt, 0) = <<>> /\ FlattenSeq(tt) = FlatTo(tt, len)
      /\ \A n \in 1..len : FlatTo(tt, n) = FlatTo(tt, n - 1) \o tt[n]
  BY <1>2, FlatToFacts
<1>5. 0 \in T
  <2>1. <<>> \in Text /\ Len(<<>>) = 0
    BY DEF Text
  <2>2. Readings(<<>>) = <<>>
    BY <2>1, ReadingsFacts, EmptySeq
  <2>3. FlattenSeq(<<>>) = <<>>
    BY DEF FlattenSeq
  <2>4. ReadAsPattern(<<>>) = <<>>
    BY <2>1, <2>2, <2>3, ReadingsFacts
  <2>5. ~Open(<<>>)
    BY DEF Open
  <2>6. 0 \in 0..len
    BY <1>1
  <2> QED BY <1>3, <1>4, <2>4, <2>5, <2>6
<1>6. ASSUME NEW n \in 0..(len - 1), n \in T PROVE n + 1 \in T
  <2>1. n + 1 \in 1..len /\ n + 1 \in 0..len /\ n \in 0..len /\ (n + 1) - 1 = n
    BY <1>1
  <2> DEFINE a == FlatTo(ss, n)
             b == ss[n + 1]
  <2>2. FlatTo(ss, n + 1) = a \o b
    BY <1>3, <2>1
  <2>3. FlatTo(tt, n + 1) = FlatTo(tt, n) \o tt[n + 1]
    BY <1>4, <2>1
  <2>4. a \in Text /\ b \in Text /\ ~Open(b)
    BY <1>1, <1>3, <2>1 DEF len
  <2>5. ReadAsPattern(a) = FlatTo(tt, n) /\ ~Open(a)
    BY <1>6
  <2>6. tt[n + 1] = ReadAsPattern(b)
    BY <1>2, <2>1
  <2> HIDE DEF a, b
  <2>7. ReadAsPattern(a \o b) = ReadAsPattern(a) \o ReadAsPattern(b) /\ ~Open(a \o b)
    BY <2>4, <2>5, ReadJoined, OpenJoined
  <2> QED BY <2>1, <2>2, <2>3, <2>5, <2>6, <2>7
<1>7. len \in T
  <2>1. \A n \in 0..len : n \in T
    <3> HIDE DEF T
    <3> QED BY <1>1, <1>5, <1>6, BoundedInduction
  <2> QED BY <1>1, <2>1
<1> QED BY <1>3, <1>4, <1>7

(* A text that needs no escape of its own.                                  *)
NoBackslash(s) == \A n \in 1..Len(s) : s[n] # "\\"

(* What is not escaped: its wildcards are wildcards.                        *)
LEMMA ReadPlain ==
  ASSUME NEW s \in Text, NoBackslash(s)
  PROVE  ReadAsPattern(s) = [m \in 1..Len(s) |-> <<s[m], s[m] \notin GlobChars>>] /\ ~Open(s)
<1> DEFINE len == Len(s)
           f == [m \in 1..len |-> <<s[m], s[m] \notin GlobChars>>]
           ss == [m \in 1..len |-> <<f[m]>>]
<1>1. len \in Nat /\ \A m \in 1..len : s[m] \in Chars /\ s[m] # "\\"
  BY DEF Text, NoBackslash
<1>2. ASSUME NEW m \in 1..len
      PROVE  <<s[m], s[m] \notin GlobChars>> \in Reads
  <2> DEFINE b == s[m] \notin GlobChars
  <2>1. b \in BOOLEAN
    OBVIOUS
  <2> HIDE DEF b
  <2>2. <<s[m], b>> \in Chars \X BOOLEAN
    BY <1>1, <2>1
  <2> QED BY <2>2 DEF Reads, b
<1>3. f \in [1..len -> Reads] /\ \A m \in 1..len : f[m] = <<s[m], s[m] \notin GlobChars>>
  <2> DEFINE g(m) == <<s[m], s[m] \notin GlobChars>>
  <2>1. \A m \in 1..len : g(m) \in Reads
    BY <1>2
  <2>2. f = [m \in 1..len |-> g(m)]
    OBVIOUS
  <2>3. \A m \in 1..len : f[m] = g(m)
    <3> HIDE DEF g, f
    <3> QED BY <2>2
  <2> QED
    <3> SUFFICES f \in [1..len -> Reads]
      BY <2>3
    <3> HIDE DEF g, f
    <3> QED BY <2>1, <2>2
<1>4. Readings(s) = ss
  <2>1. ASSUME NEW m \in 1..len PROVE Readings(s)[m] = <<f[m]>>
    <3>1. Readings(s)[m] = <<Reading(s, m)>>
      BY <1>1, ReadingsFacts
    <3>2. ~(m - 1 > 0 /\ s[m - 1] = "\\")
      <4>1. m - 1 > 0 => m - 1 \in 1..len
        BY <1>1
      <4> QED BY <1>1, <4>1
    <3>3. Reading(s, m) = <<s[m], s[m] \notin GlobChars>>
      BY <3>2, Zenon DEF Reading
    <3> HIDE DEF f
    <3> QED BY <1>3, <3>1, <3>3
  <2> HIDE DEF f
  <2>2. Readings(s) \in Seq(Seq(Reads)) /\ Len(Readings(s)) = len
    BY ReadingsFacts
  <2>3. ss \in Seq(Seq(Reads)) /\ Len(ss) = len /\ \A m \in 1..len : ss[m] = <<f[m]>>
    <3>1. \A m \in 1..len : <<f[m]>> \in Seq(Reads)
      BY <1>3
    <3> QED BY <1>1, <3>1
  <2> HIDE DEF ss, len
  <2> QED BY <2>1, <2>2, <2>3, SeqEqual
<1>5. FlattenSeq(ss) = f
  <2>1. ss \in Seq(Seq(Reads)) /\ Singles(ss, f, len) /\ len \in Nat
    <3>1. \A m \in 1..len : <<f[m]>> \in Seq(Reads)
      BY <1>3
    <3> HIDE DEF f
    <3>2. /\ ss \in Seq(Seq(Reads)) /\ Len(ss) = len /\ len \in Nat
          /\ \A m \in 1..len : ss[m] = <<f[m]>>
      BY <1>1, <3>1
    <3> HIDE DEF ss, len
    <3> QED BY <3>2 DEF Singles
  <2>2. f \in [1..len -> Reads]
    BY <1>3
  <2> HIDE DEF f, len, ss
  <2> QED BY <2>1, <2>2, FlattenSingles
<1>6. ReadAsPattern(s) = f
  BY <1>4, <1>5, ReadingsFacts
<1>7. ~Open(s)
  BY <1>1 DEF Open
<1> QED BY <1>6, <1>7

(* What is escaped: every character stands for itself.                      *)
LEMMA ReadEscaped ==
  ASSUME NEW s \in Text, NoBackslash(s)
  PROVE  /\ ReadAsPattern(Escaped(s)) = [m \in 1..Len(s) |-> <<s[m], TRUE>>]
         /\ ~Open(Escaped(s))
<1> DEFINE len == Len(s)
           e == [n \in 1..len |-> IF s[n] \in GlobChars THEN <<"\\", s[n]>> ELSE <<s[n]>>]
           f == [m \in 1..len |-> <<s[m], TRUE>>]
           tt == [m \in 1..len |-> ReadAsPattern(e[m])]
<1>1. len \in Nat /\ DOMAIN s = 1..len /\ \A m \in 1..len : s[m] \in Chars /\ s[m] # "\\"
  BY DEF Text, NoBackslash
<1>2. "\\" \in Chars
  BY WordsAssumption
<1>3. ASSUME NEW c \in Chars, c # "\\", c \notin GlobChars
      PROVE  <<c>> \in Text /\ ReadAsPattern(<<c>>) = << <<c, TRUE>> >> /\ ~Open(<<c>>)
  <2>1. <<c>> \in Text /\ NoBackslash(<<c>>) /\ Len(<<c>>) = 1 /\ <<c>>[1] = c
    BY <1>3 DEF Text, NoBackslash
  <2>2. ReadAsPattern(<<c>>) = [m \in 1..1 |-> << <<c>>[m], <<c>>[m] \notin GlobChars>>]
        /\ ~Open(<<c>>)
    BY <2>1, ReadPlain
  <2>3. [m \in 1..1 |-> << <<c>>[m], <<c>>[m] \notin GlobChars>>] = << <<c, TRUE>> >>
    <3>1. \A m \in 1..1 : << <<c>>[m], <<c>>[m] \notin GlobChars>> = <<c, TRUE>>
      <4>1. \A m \in 1..1 : <<c>>[m] = c
        OBVIOUS
      <4>2. (c \notin GlobChars) = TRUE
        BY <1>3
      <4> QED BY <4>1, <4>2
    <3> DEFINE x == <<c, TRUE>>
    <3>2. [m \in 1..1 |-> << <<c>>[m], <<c>>[m] \notin GlobChars>>] = [m \in 1..1 |-> x]
      BY <3>1
    <3>3. [m \in 1..1 |-> x] = <<x>>
      <4> HIDE DEF x
      <4> QED OBVIOUS
    <3> QED BY <3>2, <3>3
  <2> QED BY <2>1, <2>2, <2>3
<1>4. ASSUME NEW c \in Chars, c # "\\"
      PROVE  /\ <<"\\", c>> \in Text /\ ReadAsPattern(<<"\\", c>>) = << <<c, TRUE>> >>
             /\ ~Open(<<"\\", c>>)
  <2> DEFINE p == <<"\\", c>>
             one == << <<c, TRUE>> >>
  <2>1. p \in Text /\ Len(p) = 2 /\ p[1] = "\\" /\ p[2] = c
    BY <1>2 DEF Text
  <2>2. one \in Seq(Reads)
    <3>1. <<c, TRUE>> \in Reads
      BY DEF Reads
    <3> QED BY <3>1
  <2> HIDE DEF p
  <2>3. Reading(p, 2) = <<c, TRUE>>
    <3>1. 2 - 1 = 1 /\ 1 > 0 /\ p[2 - 1] = "\\"
      BY <2>1
    <3>2. (p[2] \notin GlobChars \/ (2 - 1 > 0 /\ p[2 - 1] = "\\")) = TRUE
      BY <3>1
    <3> QED BY <2>1, <3>2 DEF Reading
  <2>4. Readings(p) \in Seq(Seq(Reads)) /\ Len(Readings(p)) = 2 /\ Readings(p)[1] = <<>>
        /\ Readings(p)[2] = one
    <3>1. /\ Readings(p) \in Seq(Seq(Reads)) /\ Len(Readings(p)) = Len(p)
          /\ \A n \in 1..Len(p) : Readings(p)[n] = IF p[n] = "\\" THEN <<>> ELSE <<Reading(p, n)>>
      BY <2>1, ReadingsFacts
    <3>2. 1 \in 1..Len(p) /\ 2 \in 1..Len(p) /\ Len(p) = 2
      BY <2>1
    <3>3. Readings(p)[1] = <<>>
      BY <2>1, <3>1, <3>2
    <3>4. Readings(p)[2] = <<Reading(p, 2)>>
      BY <1>4, <2>1, <3>1, <3>2
    <3> QED BY <2>3, <3>1, <3>2, <3>3, <3>4
  <2> DEFINE r == Readings(p)
  <2> HIDE DEF r, one
  <2>5. /\ FlatTo(r, 0) = <<>> /\ FlattenSeq(r) = FlatTo(r, 2)
        /\ FlatTo(r, 1) = FlatTo(r, 0) \o r[1] /\ FlatTo(r, 2) = FlatTo(r, 1) \o r[2]
    <3>1. r \in Seq(Seq(Reads)) /\ Len(r) = 2
      BY <2>4 DEF r
    <3>2. /\ FlatTo(r, 0) = <<>> /\ FlattenSeq(r) = FlatTo(r, 2)
          /\ \A n \in 1..2 : FlatTo(r, n) = FlatTo(r, n - 1) \o r[n]
      BY <3>1, FlatToFacts
    <3>3. 1 \in 1..2 /\ 2 \in 1..2 /\ 1 - 1 = 0 /\ 2 - 1 = 1
      OBVIOUS
    <3> QED BY <3>2, <3>3
  <2>6. <<>> \o <<>> = <<>> /\ <<>> \o one = one
    BY <2>2, ConcatEmptySeq
  <2>7. FlattenSeq(r) = one
    BY <2>4, <2>5, <2>6 DEF r
  <2>8. ReadAsPattern(p) = one
    BY <2>1, <2>7, ReadingsFacts DEF r
  <2>9. ~Open(p)
    BY <1>4, <2>1 DEF Open
  <2> QED BY <2>1, <2>8, <2>9 DEF p, one
<1>5. ASSUME NEW m \in 1..len
      PROVE  e[m] \in Text /\ ReadAsPattern(e[m]) = <<f[m]>> /\ ~Open(e[m])
  <2>1. f[m] = <<s[m], TRUE>>
    OBVIOUS
  <2>2. e[m] = IF s[m] \in GlobChars THEN <<"\\", s[m]>> ELSE <<s[m]>>
    OBVIOUS
  <2> HIDE DEF e, f
  <2>3. CASE s[m] \in GlobChars
    BY <1>1, <1>4, <2>1, <2>2, <2>3
  <2>4. CASE s[m] \notin GlobChars
    BY <1>1, <1>3, <2>1, <2>2, <2>4
  <2> QED BY <2>3, <2>4
<1>6. e \in Seq(Text) /\ Len(e) = len /\ f \in [1..len -> Reads]
  <2>1. e \in [1..len -> Text]
    <3> DEFINE g(n) == IF s[n] \in GlobChars THEN <<"\\", s[n]>> ELSE <<s[n]>>
    <3>1. \A m \in 1..len : e[m] = g(m)
      OBVIOUS
    <3>2. \A m \in 1..len : g(m) \in Text
      <4> HIDE DEF g, e
      <4> QED BY <1>5, <3>1
    <3>3. e = [m \in 1..len |-> g(m)]
      OBVIOUS
    <3> HIDE DEF g, e
    <3> QED BY <3>2, <3>3
  <2>2. f \in [1..len -> Reads]
    BY <1>1 DEF Reads
  <2>3. len \in Nat
    BY <1>1
  <2> HIDE DEF e, f, len
  <2> QED BY <2>1, <2>2, <2>3
<1>7. Escaped(s) = FlattenSeq(e)
  BY <1>1 DEF Escaped
<1>8. tt = [m \in 1..len |-> <<f[m]>>]
  <2> HIDE DEF e, f
  <2> QED BY <1>5
<1> HIDE DEF e, f
<1>9. ReadAsPattern(FlattenSeq(e)) = FlattenSeq(tt) /\ ~Open(FlattenSeq(e))
  <2>1. tt = [m \in 1..Len(e) |-> ReadAsPattern(e[m])] /\ \A m \in 1..Len(e) : ~Open(e[m])
    BY <1>5, <1>6
  <2> HIDE DEF tt
  <2> QED BY <1>6, <2>1, ReadPieces
<1>10. FlattenSeq(tt) = f
  <2>1. len \in Nat
    BY <1>1
  <2>2. f \in [1..len -> Reads]
    BY <1>6
  <2>3. tt \in Seq(Seq(Reads)) /\ Singles(tt, f, len)
    <3>1. \A m \in 1..len : <<f[m]>> \in Seq(Reads)
      BY <1>6
    <3> HIDE DEF tt, len
    <3>2. tt \in Seq(Seq(Reads)) /\ Len(tt) = len /\ \A m \in 1..len : tt[m] = <<f[m]>>
      BY <1>8, <2>1, <3>1
    <3> QED BY <3>2 DEF Singles
  <2> HIDE DEF tt, len
  <2> QED BY <2>1, <2>2, <2>3, FlattenSingles
<1> QED BY <1>7, <1>9, <1>10 DEF f

(* What a syllable of a glob means.                                         *)
MeantBy(s) ==
  [m \in DOMAIN s.text |-> <<s.text[m], s.text[m] \notin GlobChars \/ "escape" \in s.flags>>]

(* glob reads in a merged word what its syllables mean.                     *)
LEMMA ReadWord ==
  ASSUME NEW w \in Seq(Syllable), \A m \in 1..Len(w) : NoBackslash(w[m].text)
  PROVE  ReadAsPattern(FlatTo(Patterns(w), Len(w))) = FlattenSeq([m \in DOMAIN w |-> MeantBy(w[m])])
<1> DEFINE len == Len(w)
           p == Patterns(w)
           tt == [m \in 1..Len(p) |-> ReadAsPattern(p[m])]
           want == [m \in DOMAIN w |-> MeantBy(w[m])]
<1>1. /\ len \in Nat /\ DOMAIN w = 1..len /\ p \in Seq(Seq(Chars)) /\ Len(p) = len
      /\ \A m \in 1..len : /\ w[m].text \in Text
                           /\ p[m] = IF "escape" \in w[m].flags THEN Escaped(w[m].text)
                                                                 ELSE w[m].text
  <2>1. DOMAIN w = 1..len
    OBVIOUS
  <2> QED BY <2>1, TextsFacts
<1> HIDE DEF p
<1>2. ASSUME NEW m \in 1..len
      PROVE  ReadAsPattern(p[m]) = MeantBy(w[m]) /\ ~Open(p[m])
  <2> DEFINE s == w[m].text
  <2>1. s \in Text /\ NoBackslash(s) /\ DOMAIN s = 1..Len(s)
    BY <1>1 DEF Text
  <2>2. MeantBy(w[m]) = [x \in 1..Len(s) |-> <<s[x], s[x] \notin GlobChars \/ "escape" \in w[m].flags>>]
    BY <2>1 DEF MeantBy
  <2>3. p[m] = IF "escape" \in w[m].flags THEN Escaped(s) ELSE s
    BY <1>1
  <2> HIDE DEF s
  <2>4. CASE "escape" \in w[m].flags
    <3>1. \A x \in 1..Len(s) :
            <<s[x], s[x] \notin GlobChars \/ "escape" \in w[m].flags>> = <<s[x], TRUE>>
      <4>1. \A x \in 1..Len(s) : (s[x] \notin GlobChars \/ "escape" \in w[m].flags) = TRUE
        BY <2>4
      <4> QED BY <4>1
    <3>2. MeantBy(w[m]) = [x \in 1..Len(s) |-> <<s[x], TRUE>>]
      BY <2>2, <3>1
    <3> QED BY <2>1, <2>3, <2>4, <3>2, ReadEscaped
  <2>5. CASE "escape" \notin w[m].flags
    <3>1. \A x \in 1..Len(s) :
            <<s[x], s[x] \notin GlobChars \/ "escape" \in w[m].flags>> = <<s[x], s[x] \notin GlobChars>>
      <4>1. \A x \in 1..Len(s) :
              (s[x] \notin GlobChars \/ "escape" \in w[m].flags) = (s[x] \notin GlobChars)
        BY <2>5
      <4> QED BY <4>1
    <3>2. MeantBy(w[m]) = [x \in 1..Len(s) |-> <<s[x], s[x] \notin GlobChars>>]
      BY <2>2, <3>1
    <3> QED BY <2>1, <2>3, <2>5, <3>2, ReadPlain
  <2> QED BY <2>4, <2>5
<1>3. tt = want
  BY <1>1, <1>2
<1>4. p \in Seq(Text) /\ \A m \in 1..Len(p) : ~Open(p[m])
  BY <1>1, <1>2 DEF Text
<1>5. ReadAsPattern(FlattenSeq(p)) = FlattenSeq(tt)
  <2> HIDE DEF want
  <2> QED BY <1>4, ReadPieces
<1>6. FlattenSeq(p) = FlatTo(p, len)
  BY <1>1, FlatToFacts
<1> QED BY <1>3, <1>5, <1>6 DEF p

(* The premise of the last theorem.                                         *)
TextsHaveNoBackslash ==
  \A tasks \in Jobs : \A t \in DOMAIN tasks : \A n \in DOMAIN tasks[t] : \A m \in DOMAIN tasks[t][n] :
    NoBackslash(tasks[t][n][m].text)

(* ... so it does in every argument.                                        *)
LEMMA PatternsAreRead == TextsHaveNoBackslash /\ WordsInv => PatternAsMeant
<1> SUFFICES ASSUME TextsHaveNoBackslash, WordsInv, NEW t \in DOMAIN args, NEW n \in DOMAIN args[t]
             PROVE  IF args[t][n].is_glob
                    THEN ReadAsPattern(args[t][n].text)
                           = FlattenSeq([m \in DOMAIN job[t][n] |-> MeantBy(job[t][n][m])])
                    ELSE args[t][n].text = Joined(job[t][n])
  BY DEF PatternAsMeant, MeantBy
<1>1. ArgsMade
  BY DEF WordsInv
<1>2. /\ job \in Jobs /\ t \in 1..Len(job) /\ args[t] \in Seq(Arg) /\ Len(args[t]) = Made(t)
      /\ \A x \in 1..Len(args[t]) : IsMergeOf(args[t][x], job[t][x])
  BY <1>1 DEF ArgsMade
<1>3. n \in 1..Len(args[t])
  BY <1>2
<1>4. n \in 1..Len(job[t])
  <2>1. Made(t) <= Len(job[t])
    <3>1. Len(job[t]) \in Nat /\ i \in 1..Len(job) /\ Len(job) \in Nat
      BY <1>1, <1>2, JobFacts DEF ArgsMade
    <3>2. Merging => j \in 1..Len(job[i])
      BY DEF WordsInv
    <3> QED BY <1>2, <3>1, <3>2 DEF Made
  <2>2. Len(job[t]) \in Nat
    BY <1>2, JobFacts
  <2> QED BY <1>2, <1>3, <2>1, <2>2
<1> DEFINE w == job[t][n]
<1>5. w \in Seq(Syllable)
  BY <1>2, <1>4, JobFacts
<1>6. \A m \in 1..Len(w) : NoBackslash(w[m].text)
  <2>1. job \in Seq(Seq(Seq(Syllable)))
    BY <1>2, WordsAssumption
  <2>2. job[t] \in Seq(Seq(Syllable))
    BY <1>2, <2>1, ElementOfSeq
  <2>3. t \in DOMAIN job /\ n \in DOMAIN job[t]
    BY <1>2, <1>4, <2>1, <2>2
  <2>4. DOMAIN w = 1..Len(w)
    <3> HIDE DEF w
    <3> QED BY <1>5
  <2>5. \A m \in DOMAIN w : NoBackslash(w[m].text)
    BY <1>2, <2>3 DEF TextsHaveNoBackslash
  <2> QED BY <2>4, <2>5
<1>7. args[t][n].text = FlatTo(IF args[t][n].is_glob THEN Patterns(w) ELSE Texts(w), Len(w))
  BY <1>2, <1>3 DEF IsMergeOf
<1> HIDE DEF w
<1>8. CASE args[t][n].is_glob
  BY <1>5, <1>6, <1>7, <1>8, ReadWord DEF w
<1>9. CASE ~args[t][n].is_glob
  BY <1>5, <1>7, <1>9, TextsFacts DEF w
<1> QED BY <1>8, <1>9

(* What _sf1_merge_and_free_syllables escapes is what it has to: glob takes *)
(* the characters of %s, %p and %!p as they stand and those of the format   *)
(* and of %*p as wildcards; a word that is no glob is its pieces, joined.   *)
(* If no text has a backslash in it, which the code does not escape.        *)
THEOREM PatternsMeanWhatIsWritten ==
  ASSUME TextsHaveNoBackslash
  PROVE  Spec => []PatternAsMeant
<1>1. WordsInv => PatternAsMeant
  BY PatternsAreRead
<1> QED BY <1>1, WordsInductive, PTL
=============================================================================
