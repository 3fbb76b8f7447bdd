---------------------------- MODULE Sandbox_proofs ----------------------------
(***************************************************************************)
(* The check accepts a path if and only if it is contained in the trusted  *)
(* one: for every set of names, for trusted paths and parts of any length, *)
(* however they go up and down.  Two premises, both needed, are stated     *)
(* with the path that is checked.                                          *)
(***************************************************************************)
EXTENDS Sandbox, SequenceTheorems, Induction

(***************************************************************************)
(* Where a path leads                                                      *)
(***************************************************************************)
Places == [root : BOOLEAN, up : Nat, down : Seq(Names)]
NamesInPath == Names \cup {".", ".."}

(* A name of a path leads from place to place.                              *)
LEMMA FollowType ==
  ASSUME NEW at \in Places, NEW n \in NamesInPath
  PROVE  Follow(at, n) \in Places /\ Follow(at, n).root = at.root
<1>1. CASE n = "."
  BY <1>1 DEF Follow
<1>2. CASE n = ".." /\ at.down # <<>>
  <2>1. Front(at.down) \in Seq(Names)
    BY <1>2 DEF Front, Places
  <2> QED BY <1>2, <2>1 DEF Follow, Places
<1>3. CASE n = ".." /\ at.down = <<>>
  BY <1>3 DEF Follow, Places
<1>4. CASE n \in Names
  <2>1. n # "." /\ n # ".."
    BY <1>4, PathAssumption
  <2> QED BY <1>4, <2>1 DEF Follow, Places
<1> QED BY <1>1, <1>2, <1>3, <1>4 DEF NamesInPath

(* A walk is the function its recursive definition says.                    *)
LEMMA WalkIs ==
  ASSUME NEW path \in Path
  PROVE  /\ Walk(path) \in [0..Len(path.names) -> Places]
         /\ Walk(path)[0] = [root |-> path.root, up |-> 0, down |-> <<>>]
         /\ \A n \in 1..Len(path.names) : Walk(path)[n] = Follow(Walk(path)[n - 1], path.names[n])
<1> DEFINE m == Len(path.names)
           v0 == [root |-> path.root, up |-> 0, down |-> <<>>]
           step == [x \in (1..m) \X Places |-> Follow(x[2], path.names[x[1]])]
           Is(f) == f = [n \in 0..m |-> IF n = 0 THEN v0 ELSE Follow(f[n - 1], path.names[n])]
<1>1. m \in Nat /\ v0 \in Places /\ \A n \in 1..m : path.names[n] \in NamesInPath
  BY DEF Path, Places, NamesInPath
<1>2. step \in [(1..m) \X Places -> Places]
  BY <1>1, FollowType
<1> HIDE DEF m
<1>3. PICK f : Recurses(f, Places, v0, m, step)
  <2>1. m \in Nat /\ v0 \in Places
    BY <1>1
  <2> HIDE DEF v0, step
  <2> QED BY <1>2, <2>1, RecursionExists
<1>f. f \in [0..m -> Places] /\ f[0] = v0 /\ \A n \in 1..m : f[n] = step[<<n, f[n - 1]>>]
  BY <1>3 DEF Recurses
<1>4. \A n \in 1..m : f[n] = Follow(f[n - 1], path.names[n])
  <2>1. \A n \in 1..m : n - 1 \in 0..m /\ f[n - 1] \in Places
    BY <1>1, <1>f
  <2> QED BY <1>f, <2>1
<1>5. Is(f)
  BY <1>1, <1>f, <1>4
<1>6. Is(Walk(path))
  <2>1. Walk(path) = CHOOSE g : Is(g)
    BY DEF Walk, m
  <2> HIDE DEF Is
  <2> QED BY <1>5, <2>1
<1> DEFINE w == Walk(path)
           T == {n \in Nat : n <= m => w[n] = f[n]}
<1>7. w = [n \in 0..m |-> IF n = 0 THEN v0 ELSE Follow(w[n - 1], path.names[n])]
  BY <1>6
<1> HIDE DEF w, v0
<1>8. 0 \in T
  BY <1>1, <1>f, <1>7
<1>9. ASSUME NEW n \in Nat, n \in T PROVE n + 1 \in T
  <2> SUFFICES ASSUME n + 1 <= m PROVE w[n + 1] = f[n + 1]
    OBVIOUS
  <2>1. w[n + 1] = Follow(w[n], path.names[n + 1])
    BY <1>1, <1>7
  <2>2. f[n + 1] = Follow(f[n], path.names[n + 1])
    BY <1>1, <1>4
  <2> QED BY <1>1, <1>9, <2>1, <2>2
<1>10. Nat \subseteq T
  <2> HIDE DEF T
  <2> QED BY <1>8, <1>9, SetInduction
<1>11. w = f
  <2>1. \A n \in 0..m : w[n] = f[n]
    BY <1>1, <1>10
  <2>2. DOMAIN w = 0..m /\ w = [n \in 0..m |-> w[n]]
    BY <1>7
  <2> QED BY <1>f, <2>1, <2>2
<1> QED BY <1>f, <1>4, <1>11 DEF w, m, v0

(* Where a name leads.                                                      *)
LEMMA FollowCases ==
  ASSUME NEW at \in Places
  PROVE  /\ Follow(at, ".") = at
         /\ at.down # <<>> => /\ Follow(at, "..").up = at.up
                              /\ Follow(at, "..").down = Front(at.down)
         /\ at.down = <<>> => /\ Follow(at, "..").up = IF at.root THEN 0 ELSE at.up + 1
                              /\ Follow(at, "..").down = <<>>
         /\ \A n \in Names : /\ Follow(at, n).up = at.up
                             /\ Follow(at, n).down = Append(at.down, n)
<1>1. \A n \in Names : n # "." /\ n # ".."
  BY PathAssumption
<1>2. DOMAIN at = {"root", "up", "down"}
  BY DEF Places
<1>3. Follow(at, ".") = at
  BY DEF Follow
<1>4. at.down # <<>> => Follow(at, "..") = [at EXCEPT !.down = Front(@)]
  BY DEF Follow
<1>5. at.down = <<>> => Follow(at, "..") = [at EXCEPT !.up = IF at.root THEN 0 ELSE @ + 1]
  BY DEF Follow
<1>6. ASSUME NEW n \in Names PROVE Follow(at, n) = [at EXCEPT !.down = Append(@, n)]
  BY <1>1 DEF Follow
<1> QED BY <1>2, <1>3, <1>4, <1>5, <1>6

(* The names below the start depend on the names below the start alone.     *)
LEMMA SameDown ==
  ASSUME NEW a \in Places, NEW b \in Places, a.down = b.down, NEW x \in NamesInPath
  PROVE  Follow(a, x).down = Follow(b, x).down
<1>1. CASE x = "."
  BY <1>1, FollowCases
<1>2. CASE x = ".."
  BY <1>2, FollowCases
<1>3. CASE x \in Names
  <2>1. Follow(a, x).down = Append(a.down, x)
    BY <1>3, FollowCases
  <2>2. Follow(b, x).down = Append(b.down, x)
    BY <1>3, FollowCases
  <2> QED BY <2>1, <2>2
<1> QED BY <1>1, <1>2, <1>3 DEF NamesInPath

(* What is at place n of a walk.                                            *)
LEMMA WalkTypes ==
  ASSUME NEW path \in Path, NEW n \in 0..Len(path.names)
  PROVE  /\ Len(path.names) \in Nat
         /\ Walk(path)[n] \in Places /\ Walk(path)[n].up \in Nat
         /\ Walk(path)[n].down \in Seq(Names)
         /\ Walk(path)[n].root = path.root
         /\ n > 0 => path.names[n] \in NamesInPath
<1>1. Len(path.names) \in Nat /\ \A j \in 1..Len(path.names) : path.names[j] \in NamesInPath
  BY DEF Path, NamesInPath
<1>2. \A j \in 0..Len(path.names) : Walk(path)[j] \in Places
  BY WalkIs
<1> DEFINE T == {j \in 0..Len(path.names) : Walk(path)[j].root = path.root}
<1>3. 0 \in T
  <2>1. Walk(path)[0] = [root |-> path.root, up |-> 0, down |-> <<>>]
    BY WalkIs
  <2> QED BY <1>1, <2>1
<1>4. ASSUME NEW j \in 0..(Len(path.names) - 1), j \in T PROVE j + 1 \in T
  <2>1. j + 1 \in 1..Len(path.names) /\ (j + 1) - 1 = j
    BY <1>1
  <2>2. Walk(path)[j + 1] = Follow(Walk(path)[j], path.names[j + 1])
    BY <2>1, WalkIs
  <2>3. Follow(Walk(path)[j], path.names[j + 1]).root = Walk(path)[j].root
    BY <1>1, <1>2, <2>1, FollowType
  <2> QED BY <1>1, <1>4, <2>2, <2>3
<1>5. \A j \in 0..Len(path.names) : j \in T
  <2> HIDE DEF T
  <2> QED BY <1>1, <1>3, <1>4, BoundedInduction
<1> QED BY <1>1, <1>2, <1>5 DEF Places

(* The next place of a walk.                                                *)
LEMMA WalkStep ==
  ASSUME NEW path \in Path, NEW n \in 1..Len(path.names)
  PROVE  /\ n - 1 \in 0..Len(path.names) /\ path.names[n] \in NamesInPath
         /\ Walk(path)[n - 1] \in Places
         /\ Walk(path)[n] = Follow(Walk(path)[n - 1], path.names[n])
<1>1. Len(path.names) \in Nat /\ n \in 0..Len(path.names) /\ n - 1 \in 0..Len(path.names) /\ n > 0
  BY DEF Path
<1>2. path.names[n] \in NamesInPath
  BY <1>1, WalkTypes
<1>3. Walk(path)[n - 1] \in Places
  BY <1>1, WalkTypes
<1>4. Walk(path)[n] = Follow(Walk(path)[n - 1], path.names[n])
  BY WalkIs
<1> QED BY <1>1, <1>2, <1>3, <1>4

(* Two paths that begin alike lead to the same places.                      *)
LEMMA SameWalk ==
  ASSUME NEW p \in Path, NEW q \in Path, p.root = q.root, NEW m \in Nat,
         m <= Len(p.names), m <= Len(q.names), \A n \in 1..m : p.names[n] = q.names[n]
  PROVE  \A n \in 0..m : Walk(p)[n] = Walk(q)[n]
<1> DEFINE T == {n \in 0..m : Walk(p)[n] = Walk(q)[n]}
<1>1. 0 \in T
  <2>1. Walk(p)[0] = [root |-> p.root, up |-> 0, down |-> <<>>]
    BY WalkIs
  <2>2. Walk(q)[0] = [root |-> q.root, up |-> 0, down |-> <<>>]
    BY WalkIs
  <2> QED BY <2>1, <2>2
<1>2. ASSUME NEW n \in 0..(m - 1), n \in T PROVE n + 1 \in T
  <2>1. n + 1 \in 1..Len(p.names) /\ n + 1 \in 1..Len(q.names) /\ n + 1 \in 1..m /\ (n + 1) - 1 = n
    BY DEF Path
  <2>2. Walk(p)[n + 1] = Follow(Walk(p)[n], p.names[n + 1])
    BY <2>1, WalkStep
  <2>3. Walk(q)[n + 1] = Follow(Walk(q)[n], q.names[n + 1])
    BY <2>1, WalkStep
  <2> QED BY <1>2, <2>1, <2>2, <2>3
<1>3. \A n \in 0..m : n \in T
  <2> HIDE DEF T
  <2> QED BY <1>1, <1>2, BoundedInduction
<1> QED BY <1>3

(* A path without its leading slash.                                        *)
LEMMA RootlessPath ==
  ASSUME NEW p \in Path
  PROVE  Rootless(p) \in Path /\ Rootless(p).names = p.names /\ ~Rootless(p).root
BY DEF Rootless, Path

(* With or without the root, a path leads down through the same names.      *)
LEMMA RootlessDown ==
  ASSUME NEW p \in Path
  PROVE  \A n \in 0..Len(p.names) : Walk(p)[n].down = Walk(Rootless(p))[n].down
<1> DEFINE T == {n \in 0..Len(p.names) : Walk(p)[n].down = Walk(Rootless(p))[n].down}
           q == Rootless(p)
<1>t. Len(p.names) \in Nat /\ q \in Path /\ q.names = p.names
  BY RootlessPath DEF Path
<1> HIDE DEF q
<1>1. Walk(p)[0].down = Walk(q)[0].down
  <2>1. Walk(p)[0] = [root |-> p.root, up |-> 0, down |-> <<>>]
    BY WalkIs
  <2>2. Walk(q)[0] = [root |-> q.root, up |-> 0, down |-> <<>>]
    BY <1>t, WalkIs
  <2> QED BY <2>1, <2>2
<1>2. ASSUME NEW n \in 0..(Len(p.names) - 1), n \in T PROVE n + 1 \in T
  <2>1. n + 1 \in 1..Len(p.names) /\ (n + 1) - 1 = n
    BY <1>t
  <2>2. Walk(p)[n + 1] = Follow(Walk(p)[n], p.names[n + 1]) /\ Walk(p)[n] \in Places
        /\ p.names[n + 1] \in NamesInPath
    BY <2>1, WalkStep
  <2>3. Walk(q)[n + 1] = Follow(Walk(q)[n], p.names[n + 1]) /\ Walk(q)[n] \in Places
    BY <1>t, <2>1, WalkStep
  <2>4. Walk(p)[n].down = Walk(q)[n].down
    BY <1>2 DEF q
  <2>5. Follow(Walk(p)[n], p.names[n + 1]).down = Follow(Walk(q)[n], p.names[n + 1]).down
    BY <2>2, <2>3, <2>4, SameDown
  <2>6. Walk(p)[n + 1].down = Walk(q)[n + 1].down
    BY <2>2, <2>3, <2>5
  <2> QED BY <2>1, <2>6 DEF q
<1>3. \A n \in 0..Len(p.names) : n \in T
  <2>1. 0 \in T
    BY <1>t, <1>1 DEF q
  <2> HIDE DEF T
  <2> QED BY <1>t, <1>2, <2>1, BoundedInduction
<1> QED BY <1>3

(* The root has no parent ...                                               *)
LEMMA RootUp ==
  ASSUME NEW p \in Path, p.root
  PROVE  \A n \in 0..Len(p.names) : Walk(p)[n].up = 0
<1> DEFINE T == {n \in 0..Len(p.names) : Walk(p)[n].up = 0}
<1>t. Len(p.names) \in Nat
  BY DEF Path
<1>1. 0 \in T
  <2>1. Walk(p)[0] = [root |-> p.root, up |-> 0, down |-> <<>>]
    BY WalkIs
  <2> QED BY <1>t, <2>1
<1>2. ASSUME NEW n \in 0..(Len(p.names) - 1), n \in T PROVE n + 1 \in T
  <2>1. n + 1 \in 1..Len(p.names) /\ (n + 1) - 1 = n
    BY <1>t
  <2>2. Walk(p)[n + 1] = Follow(Walk(p)[n], p.names[n + 1]) /\ Walk(p)[n] \in Places
        /\ p.names[n + 1] \in NamesInPath
    BY <2>1, WalkStep
  <2>3. Walk(p)[n].root
    BY <1>t, <2>1, WalkTypes
  <2> QED BY <1>2, <2>1, <2>2, <2>3, FollowCases DEF NamesInPath
<1>3. \A n \in 0..Len(p.names) : n \in T
  <2> HIDE DEF T
  <2> QED BY <1>t, <1>1, <1>2, BoundedInduction
<1> QED BY <1>3

(* ... and elsewhere what a path has gone up it does not come back.         *)
LEMMA UpGrows ==
  ASSUME NEW p \in Path, ~p.root, NEW m \in 0..Len(p.names)
  PROVE  Walk(p)[m].up <= Walk(p)[Len(p.names)].up
<1> DEFINE len == Len(p.names)
           T == {n \in 0..(len - m) : Walk(p)[m].up <= Walk(p)[m + n].up}
<1>t. len \in Nat /\ len - m \in Nat /\ \A n \in 0..len : Walk(p)[n].up \in Nat
  BY WalkTypes DEF Path
<1>1. 0 \in T
  BY <1>t
<1>2. ASSUME NEW n \in 0..((len - m) - 1), n \in T PROVE n + 1 \in T
  <2>1. m + (n + 1) \in 1..len /\ (m + (n + 1)) - 1 = m + n /\ m + n \in 0..len
    BY <1>t
  <2>2. Walk(p)[m + (n + 1)] = Follow(Walk(p)[m + n], p.names[m + (n + 1)])
        /\ Walk(p)[m + n] \in Places /\ p.names[m + (n + 1)] \in NamesInPath
    BY <2>1, WalkStep
  <2>3. ~Walk(p)[m + n].root
    BY <2>1, WalkTypes
  <2>4. Walk(p)[m + n].up <= Walk(p)[m + (n + 1)].up
    BY <1>t, <2>1, <2>2, <2>3, FollowCases DEF NamesInPath
  <2> QED BY <1>t, <1>2, <2>1, <2>4
<1>3. \A n \in 0..(len - m) : n \in T
  <2> HIDE DEF T, len
  <2> QED BY <1>t, <1>1, <1>2, BoundedInduction
<1> QED
  <2>1. len - m \in T /\ m + (len - m) = len
    BY <1>t, <1>3
  <2> QED BY <2>1

(***************************************************************************)
(* Simplified paths: so many "..", then names                              *)
(***************************************************************************)
Ups(m) == [j \in 1..m |-> ".."]

(* A row of ".." and one more.                                              *)
LEMMA UpsFacts ==
  ASSUME NEW m \in Nat
  PROVE  /\ Ups(m) \in Seq({".."}) /\ Ups(m) \in Seq(NamesInPath) /\ Len(Ups(m)) = m
         /\ \A j \in 1..m : Ups(m)[j] = ".."
         /\ Append(Ups(m), "..") = Ups(m + 1)
         /\ Ups(m) = <<>> <=> m = 0
<1>1. /\ Ups(m) \in Seq({".."}) /\ Ups(m) \in Seq(NamesInPath) /\ Len(Ups(m)) = m
      /\ \A j \in 1..m : Ups(m)[j] = ".."
  BY DEF Ups, NamesInPath
<1>2. Ups(m + 1) \in Seq({".."}) /\ Len(Ups(m + 1)) = m + 1 /\ \A j \in 1..(m + 1) : Ups(m + 1)[j] = ".."
  BY DEF Ups
<1>3. Append(Ups(m), "..") = Ups(m + 1)
  <2>1. Append(Ups(m), "..") \in Seq({".."}) /\ Len(Append(Ups(m), "..")) = m + 1
    BY <1>1
  <2>2. \A j \in 1..(m + 1) : Append(Ups(m), "..")[j] = ".."
    BY <1>1
  <2> QED BY <1>2, <2>1, <2>2, SeqEqual
<1> QED BY <1>1, <1>3

(* A name is neither "." nor "..", nor the root.                            *)
LEMMA NameFacts ==
  /\ \A n \in Names : n # "." /\ n # ".." /\ n # "/"
  /\ "/" \notin NamesInPath
  /\ \A d \in Seq(Names) : d \in Seq(NamesInPath) /\ Len(d) \in Nat
BY PathAssumption DEF NamesInPath

(* Entry by entry, a row of ".." and then the names d.                      *)
LEMMA JoinFacts ==
  ASSUME NEW m \in Nat, NEW d \in Seq(Names)
  PROVE  /\ Ups(m) \o d \in Seq(NamesInPath)
         /\ Len(Ups(m) \o d) = m + Len(d)
         /\ \A j \in 1..(m + Len(d)) : (Ups(m) \o d)[j] = IF j <= m THEN ".." ELSE d[j - m]
         /\ Ups(m) \o d = <<>> <=> m = 0 /\ d = <<>>
         /\ Ups(m) \o <<>> = Ups(m)
<1>1. Ups(m) \in Seq(NamesInPath) /\ Len(Ups(m)) = m /\ \A j \in 1..m : Ups(m)[j] = ".."
  BY UpsFacts
<1>2. d \in Seq(NamesInPath) /\ Len(d) \in Nat
  BY NameFacts
<1>3. /\ Ups(m) \o d \in Seq(NamesInPath)
      /\ Len(Ups(m) \o d) = m + Len(d)
      /\ \A j \in 1..(m + Len(d)) : (Ups(m) \o d)[j] = IF j <= m THEN Ups(m)[j] ELSE d[j - m]
  <2> DEFINE u == Ups(m)
  <2>1. u \in Seq(NamesInPath) /\ Len(u) = m
    BY <1>1
  <2> HIDE DEF u
  <2>2. u \o d \in Seq(NamesInPath) /\ Len(u \o d) = m + Len(d)
    BY <1>2, <2>1
  <2>3. \A j \in 1..(m + Len(d)) : (u \o d)[j] = IF j <= m THEN u[j] ELSE d[j - m]
    BY <1>2, <2>1
  <2> QED BY <2>2, <2>3 DEF u
<1>4. Ups(m) \o d = <<>> <=> m = 0 /\ d = <<>>
  BY <1>1, <1>2, <1>3, EmptySeq
<1>5. Ups(m) \o <<>> = Ups(m)
  BY <1>1, ConcatEmptySeq
<1> QED BY <1>1, <1>3, <1>4, <1>5

(* What Append, Front and Last do to it.                                    *)
LEMMA JoinAppend ==
  ASSUME NEW m \in Nat, NEW d \in Seq(Names), NEW n \in Names
  PROVE  Append(Ups(m) \o d, n) = Ups(m) \o Append(d, n)
<1>1. Ups(m) \in Seq(NamesInPath) /\ d \in Seq(NamesInPath) /\ n \in NamesInPath
  BY UpsFacts, NameFacts DEF NamesInPath
<1> QED BY <1>1

(* All entries but the last.                                                *)
LEMMA FrontFacts ==
  ASSUME NEW S, NEW s \in Seq(S), s # <<>>
  PROVE  /\ Front(s) \in Seq(S) /\ Len(s) \in Nat /\ Len(s) > 0
         /\ Len(Front(s)) = Len(s) - 1
         /\ \A j \in 1..(Len(s) - 1) : Front(s)[j] = s[j]
<1>1. Len(s) \in Nat /\ Len(s) > 0
  BY EmptySeq
<1>2. PICK n \in Nat : n = Len(s) - 1
  BY <1>1
<1>3. SubSeq(s, 1, n) \in Seq(S) /\ Len(SubSeq(s, 1, n)) = n
  BY <1>1, <1>2
<1>4. \A j \in 1..n : SubSeq(s, 1, n)[j] = s[j]
  BY <1>1, <1>2
<1>5. Front(s) = SubSeq(s, 1, n)
  BY <1>2 DEF Front
<1> QED BY <1>1, <1>2, <1>3, <1>4, <1>5

(* ... of a row of ".." and then names.                                     *)
LEMMA JoinFront ==
  ASSUME NEW m \in Nat, NEW d \in Seq(Names), d # <<>>
  PROVE  /\ Front(Ups(m) \o d) = Ups(m) \o Front(d)
         /\ Last(Ups(m) \o d) = Last(d) /\ Last(d) \in Names
         /\ Front(d) \in Seq(Names)
<1>1. Len(d) \in Nat /\ Len(d) > 0
  BY EmptySeq
<1>2. /\ Front(d) \in Seq(Names) /\ Len(Front(d)) = Len(d) - 1
      /\ \A j \in 1..(Len(d) - 1) : Front(d)[j] = d[j]
  BY FrontFacts
<1> DEFINE p == Ups(m) \o d
<1>3. /\ p \in Seq(NamesInPath) /\ Len(p) = m + Len(d)
      /\ \A j \in 1..(m + Len(d)) : p[j] = IF j <= m THEN ".." ELSE d[j - m]
  BY JoinFacts
<1>4. /\ Ups(m) \o Front(d) \in Seq(NamesInPath)
      /\ Len(Ups(m) \o Front(d)) = m + (Len(d) - 1)
      /\ \A j \in 1..(m + (Len(d) - 1)) :
            (Ups(m) \o Front(d))[j] = IF j <= m THEN ".." ELSE Front(d)[j - m]
  <2> DEFINE e == Front(d)
  <2>1. e \in Seq(Names) /\ Len(e) = Len(d) - 1
    BY <1>2
  <2> HIDE DEF e
  <2>2. /\ Ups(m) \o e \in Seq(NamesInPath)
        /\ Len(Ups(m) \o e) = m + Len(e)
        /\ \A j \in 1..(m + Len(e)) : (Ups(m) \o e)[j] = IF j <= m THEN ".." ELSE e[j - m]
    BY <2>1, JoinFacts
  <2> QED BY <2>1, <2>2 DEF e
<1> HIDE DEF p
<1>5. /\ Front(p) \in Seq(NamesInPath) /\ Len(Front(p)) = m + (Len(d) - 1)
      /\ \A j \in 1..(m + (Len(d) - 1)) : Front(p)[j] = p[j]
  <2>1. p # <<>> /\ Len(p) - 1 = m + (Len(d) - 1)
    BY <1>1, <1>3, EmptySeq
  <2> QED BY <1>3, <2>1, FrontFacts
<1>6. \A j \in 1..(m + (Len(d) - 1)) : Front(p)[j] = (Ups(m) \o Front(d))[j]
  <2> SUFFICES ASSUME NEW j \in 1..(m + (Len(d) - 1)) PROVE Front(p)[j] = (Ups(m) \o Front(d))[j]
    OBVIOUS
  <2>1. Front(p)[j] = IF j <= m THEN ".." ELSE d[j - m]
    BY <1>1, <1>3, <1>5
  <2>2. (Ups(m) \o Front(d))[j] = IF j <= m THEN ".." ELSE Front(d)[j - m]
    BY <1>4
  <2>3. j > m => j - m \in 1..(Len(d) - 1)
    BY <1>1
  <2> QED BY <1>2, <2>1, <2>2, <2>3
<1>7. Front(p) = Ups(m) \o Front(d)
  BY <1>4, <1>5, <1>6, SeqEqual
<1>8. Last(p) = Last(d) /\ Last(d) \in Names
  BY <1>1, <1>3 DEF Last
<1> QED BY <1>2, <1>7, <1>8 DEF p

(* A row of ".." ends with one.                                             *)
LEMMA UpsLast ==
  ASSUME NEW m \in Nat, m > 0
  PROVE  Ups(m) # <<>> /\ Last(Ups(m)) = ".."
<1>1. Len(Ups(m)) = m /\ Ups(m)[m] = ".." /\ Ups(m) # <<>>
  BY UpsFacts
<1> QED BY <1>1 DEF Last

(* Entry by entry.                                                          *)
LEMMA PrefixIs ==
  ASSUME NEW S, NEW s \in Seq(S), NEW u \in Seq(S)
  PROVE  IsPrefix(s, u) <=> Len(s) <= Len(u) /\ \A j \in 1..Len(s) : s[j] = u[j]
<1>1. CASE Len(s) <= Len(u)
  <2>1. SubSeq(s, 1, Len(s)) \in Seq(S) /\ Len(SubSeq(s, 1, Len(s))) = Len(s)
        /\ \A j \in 1..Len(s) : SubSeq(s, 1, Len(s))[j] = s[j]
    OBVIOUS
  <2>2. SubSeq(u, 1, Len(s)) \in Seq(S) /\ Len(SubSeq(u, 1, Len(s))) = Len(s)
        /\ \A j \in 1..Len(s) : SubSeq(u, 1, Len(s))[j] = u[j]
    BY <1>1
  <2>3. SubSeq(s, 1, Len(s)) = SubSeq(u, 1, Len(s)) <=> \A j \in 1..Len(s) : s[j] = u[j]
    <3>1. ASSUME \A j \in 1..Len(s) : s[j] = u[j] PROVE SubSeq(s, 1, Len(s)) = SubSeq(u, 1, Len(s))
      BY <2>1, <2>2, <3>1, SeqEqual
    <3>2. ASSUME SubSeq(s, 1, Len(s)) = SubSeq(u, 1, Len(s)) PROVE \A j \in 1..Len(s) : s[j] = u[j]
      BY <2>1, <2>2, <3>2
    <3> QED BY <3>1, <3>2
  <2> QED BY <1>1, <2>3 DEF IsPrefix
<1>2. CASE ~(Len(s) <= Len(u))
  BY <1>2 DEF IsPrefix
<1> QED BY <1>1, <1>2

(* One simplified path with a name in it starts another when both go up as  *)
(* far and the names of the one start those of the other.                  *)
LEMMA PrefixMeans ==
  ASSUME NEW m \in Nat, NEW d \in Seq(Names), NEW l \in Nat, NEW e \in Seq(Names), e # <<>>
  PROVE  IsPrefix(Ups(l) \o e, Ups(m) \o d) <=> l = m /\ IsPrefix(e, d)
<1> DEFINE p == Ups(m) \o d
           q == Ups(l) \o e
<1>1. /\ p \in Seq(NamesInPath) /\ Len(p) = m + Len(d)
      /\ \A j \in 1..(m + Len(d)) : p[j] = IF j <= m THEN ".." ELSE d[j - m]
  BY JoinFacts
<1>2. /\ q \in Seq(NamesInPath) /\ Len(q) = l + Len(e)
      /\ \A j \in 1..(l + Len(e)) : q[j] = IF j <= l THEN ".." ELSE e[j - l]
  BY JoinFacts
<1>3. /\ Len(d) \in Nat /\ Len(e) \in Nat /\ Len(e) > 0
      /\ \A j \in 1..Len(d) : d[j] \in Names /\ d[j] # ".."
      /\ \A j \in 1..Len(e) : e[j] \in Names /\ e[j] # ".."
  BY NameFacts, EmptySeq
<1> HIDE DEF p, q
<1>4. IsPrefix(q, p) <=> Len(q) <= Len(p) /\ \A j \in 1..Len(q) : q[j] = p[j]
  <2> HIDE DEF NamesInPath
  <2>1. p \in Seq(NamesInPath) /\ q \in Seq(NamesInPath)
    BY <1>1, <1>2
  <2> QED BY <2>1, PrefixIs
<1>5. IsPrefix(e, d) <=> Len(e) <= Len(d) /\ \A j \in 1..Len(e) : e[j] = d[j]
  BY PrefixIs
<1>6. ASSUME IsPrefix(q, p) PROVE l = m /\ IsPrefix(e, d)
  <2>1. l + Len(e) <= m + Len(d) /\ \A j \in 1..(l + Len(e)) : q[j] = p[j]
    BY <1>1, <1>2, <1>4, <1>6
  <2>2. ~(l < m)
    <3> SUFFICES ASSUME l < m PROVE FALSE
      OBVIOUS
    <3>1. l + 1 \in 1..(l + Len(e)) /\ l + 1 \in 1..(m + Len(d)) /\ l + 1 <= m /\ ~(l + 1 <= l)
          /\ (l + 1) - l = 1 /\ 1 \in 1..Len(e)
      BY <1>3
    <3>2. q[l + 1] = e[1] /\ p[l + 1] = ".."
      BY <1>1, <1>2, <3>1
    <3> QED BY <1>3, <2>1, <3>1, <3>2
  <2>3. ~(m < l)
    <3> SUFFICES ASSUME m < l PROVE FALSE
      OBVIOUS
    <3>1. m + 1 \in 1..(l + Len(e)) /\ m + 1 \in 1..(m + Len(d)) /\ m + 1 <= l /\ ~(m + 1 <= m)
          /\ (m + 1) - m = 1 /\ 1 \in 1..Len(d)
      BY <1>3, <2>1
    <3>2. p[m + 1] = d[1] /\ q[m + 1] = ".."
      BY <1>1, <1>2, <3>1
    <3> QED BY <1>3, <2>1, <3>1, <3>2
  <2>4. l = m
    BY <2>2, <2>3
  <2>5. ASSUME NEW j \in 1..Len(e) PROVE e[j] = d[j]
    <3>1. l + j \in 1..(l + Len(e)) /\ l + j \in 1..(m + Len(d)) /\ ~(l + j <= l) /\ (l + j) - l = j
      BY <1>3, <2>1, <2>4
    <3>2. q[l + j] = e[j] /\ p[l + j] = d[j]
      BY <1>1, <1>2, <2>4, <3>1
    <3> QED BY <2>1, <3>1, <3>2
  <2> QED BY <1>3, <1>5, <2>1, <2>4, <2>5
<1>7. ASSUME l = m, IsPrefix(e, d) PROVE IsPrefix(q, p)
  <2>1. Len(e) <= Len(d) /\ \A j \in 1..Len(e) : e[j] = d[j]
    BY <1>5, <1>7
  <2>2. ASSUME NEW j \in 1..(l + Len(e)) PROVE q[j] = p[j]
    <3>1. j \in 1..(m + Len(d)) /\ (j > l => j - l \in 1..Len(e))
      BY <1>3, <1>7, <2>1
    <3>2. q[j] = IF j <= l THEN ".." ELSE e[j - l]
      BY <1>2
    <3>3. p[j] = IF j <= l THEN ".." ELSE d[j - l]
      BY <1>1, <1>7, <3>1
    <3> QED BY <2>1, <3>1, <3>2, <3>3
  <2> QED BY <1>1, <1>2, <1>3, <1>4, <1>7, <2>1, <2>2
<1> QED BY <1>6, <1>7 DEF p, q

(* What _sf1_file_sandbox_check compares.                                   *)
LEMMA CompareMeans ==
  ASSUME NEW s \in Seq(NamesInPath), NEW u \in Seq(NamesInPath), u # <<>>
  PROVE  (StartsLike(s, u) /\ NameEnds(s, u)) <=> IsPrefix(u, s)
<1>1. Len(u) \in Nat /\ Len(u) > 0 /\ Len(s) \in Nat
  BY EmptySeq
<1>2. IsPrefix(u, s) <=> Len(u) <= Len(s) /\ \A j \in 1..Len(u) : u[j] = s[j]
  BY PrefixIs
<1>3. \A j \in 1..Len(u) : j \in 1..(Len(u) - 1) \/ j = Len(u)
  BY <1>1
<1> QED BY <1>1, <1>2, <1>3 DEF StartsLike, NameEnds
(***************************************************************************)
(* extract_simplified_path                                                 *)
(***************************************************************************)
(* A name other than "." has been seen.                                     *)
Started(path, n) == \E j \in 1..n : path.names[j] # "."

(* "/.." becomes nothing, and so one level of the way up is lost.           *)
Absorbs(path, n) ==
  /\ path.root
  /\ \E j \in 1..n : path.names[j] = ".." /\ \A h \in 1..(j - 1) : path.names[h] = "."
Lost(path, n) == IF Absorbs(path, n) THEN 1 ELSE 0

(* What is left of the first n names.                                       *)
Form(path, n) ==
  Ups(Walk(Rootless(path))[n].up - Lost(path, n)) \o Walk(Rootless(path))[n].down

(* Whether a path has begun after one more name.                            *)
LEMMA StartedStep ==
  ASSUME NEW path \in Path, NEW n \in 0..(Len(path.names) - 1)
  PROVE  Started(path, n + 1) <=> Started(path, n) \/ path.names[n + 1] # "."
<1>1. 1..(n + 1) = (1..n) \cup {n + 1}
  OBVIOUS
<1> QED BY <1>1 DEF Started

(* Only a first name ".." is lost.                                          *)
LEMMA LostStep ==
  ASSUME NEW path \in Path, NEW n \in 0..(Len(path.names) - 1)
  PROVE  Absorbs(path, n + 1)
           <=> Absorbs(path, n) \/ (path.root /\ path.names[n + 1] = ".." /\ ~Started(path, n))
<1>1. 1..(n + 1) = (1..n) \cup {n + 1} /\ (n + 1) - 1 = n
  OBVIOUS
<1>2. (\A h \in 1..n : path.names[h] = ".") <=> ~Started(path, n)
  BY DEF Started
<1> DEFINE At(j) == path.names[j] = ".." /\ \A h \in 1..(j - 1) : path.names[h] = "."
<1>3. At(n + 1) <=> path.names[n + 1] = ".." /\ ~Started(path, n)
  BY <1>1, <1>2
<1>4. \A m : Absorbs(path, m) <=> path.root /\ \E j \in 1..m : At(j)
  BY DEF Absorbs
<1> HIDE DEF At
<1> QED BY <1>1, <1>3, <1>4

(* Before that the path leads nowhere.                                      *)
LEMMA NotStarted ==
  ASSUME NEW path \in Path, NEW m \in 0..Len(path.names), ~Started(path, m)
  PROVE  /\ Walk(Rootless(path))[m].up = 0 /\ Walk(Rootless(path))[m].down = <<>>
         /\ ~Absorbs(path, m)
<1> DEFINE w == Walk(Rootless(path))
           T == {n \in 0..m : w[n].up = 0 /\ w[n].down = <<>>}
<1>t. Len(path.names) \in Nat /\ m \in Nat /\ Rootless(path) \in Path /\ Rootless(path).names = path.names
  BY RootlessPath DEF Path
<1>1. \A j \in 1..m : path.names[j] = "."
  BY DEF Started
<1>2. 0 \in T
  <2>1. w[0] = [root |-> Rootless(path).root, up |-> 0, down |-> <<>>]
    BY <1>t, WalkIs
  <2> QED BY <1>t, <2>1
<1>3. ASSUME NEW n \in 0..(m - 1), n \in T PROVE n + 1 \in T
  <2>1. n + 1 \in 1..Len(path.names) /\ n + 1 \in 1..m /\ (n + 1) - 1 = n
    BY <1>t
  <2>2. w[n + 1] = Follow(w[n], ".") /\ w[n] \in Places
    BY <1>t, <1>1, <2>1, WalkStep
  <2>3. w[n + 1] = w[n]
    BY <2>2, FollowCases
  <2> QED BY <1>3, <2>1, <2>3
<1>4. \A n \in 0..m : n \in T
  <2> HIDE DEF T
  <2> QED BY <1>t, <1>2, <1>3, BoundedInduction
<1>5. ~Absorbs(path, m)
  BY <1>1 DEF Absorbs
<1> QED BY <1>t, <1>4, <1>5

(* What is lost had been gone up.                                           *)
LEMMA LostWasUp ==
  ASSUME NEW path \in Path, NEW n \in 0..Len(path.names)
  PROVE  /\ Absorbs(path, n) => Walk(Rootless(path))[n].up >= 1
         /\ Walk(Rootless(path))[n].up - Lost(path, n) \in Nat
         /\ Walk(Rootless(path))[n].up \in Nat
         /\ Walk(Rootless(path))[n].down \in Seq(Names)
<1> DEFINE w == Walk(Rootless(path))
           T == {i \in 0..Len(path.names) : Absorbs(path, i) => w[i].up >= 1}
<1>t. Len(path.names) \in Nat /\ Rootless(path) \in Path /\ Rootless(path).names = path.names
      /\ ~Rootless(path).root
  BY RootlessPath DEF Path
<1>u. \A i \in 0..Len(path.names) : w[i].up \in Nat /\ w[i].down \in Seq(Names) /\ ~w[i].root
  BY <1>t, WalkTypes
<1>1. 0 \in T
  BY <1>t DEF Absorbs
<1>2. ASSUME NEW i \in 0..(Len(path.names) - 1), i \in T PROVE i + 1 \in T
  <2> SUFFICES ASSUME Absorbs(path, i + 1) PROVE w[i + 1].up >= 1
    BY <1>t
  <2>1. i + 1 \in 1..Len(path.names) /\ i \in 0..Len(path.names) /\ (i + 1) - 1 = i
    BY <1>t
  <2>2. w[i + 1] = Follow(w[i], path.names[i + 1]) /\ w[i] \in Places /\ path.names[i + 1] \in NamesInPath
    BY <1>t, <2>1, WalkStep
  <2>3. CASE Absorbs(path, i)
    <3>1. w[i].up >= 1
      BY <1>2, <2>3
    <3>2. w[i + 1].up >= w[i].up
      BY <1>u, <2>1, <2>2, FollowCases DEF NamesInPath
    <3> QED BY <1>u, <2>1, <3>1, <3>2
  <2>4. CASE ~Absorbs(path, i)
    <3>1. path.names[i + 1] = ".." /\ ~Started(path, i)
      BY <2>4, LostStep
    <3>2. w[i].up = 0 /\ w[i].down = <<>>
      BY <2>1, <3>1, NotStarted
    <3> QED BY <1>u, <2>1, <2>2, <3>1, <3>2, FollowCases
  <2> QED BY <2>3, <2>4
<1>3. \A i \in 0..Len(path.names) : i \in T
  <2> HIDE DEF T
  <2> QED BY <1>t, <1>1, <1>2, BoundedInduction
<1> QED BY <1>t, <1>u, <1>3 DEF Lost

(* Nothing is lost after the start.                                         *)
LEMMA LostOnce ==
  ASSUME NEW path \in Path, NEW m \in 0..Len(path.names), Started(path, m)
  PROVE  Lost(path, Len(path.names)) = Lost(path, m)
<1>1. PICK i \in 1..m : path.names[i] # "."
  BY DEF Started
<1>2. Len(path.names) \in Nat /\ m \in Nat
  BY DEF Path
<1>3. ASSUME NEW j \in 1..Len(path.names), path.names[j] = "..",
             \A h \in 1..(j - 1) : path.names[h] = "."
      PROVE  j \in 1..m
  BY <1>1, <1>2, <1>3
<1>4. Absorbs(path, Len(path.names)) <=> Absorbs(path, m)
  BY <1>2, <1>3 DEF Absorbs
<1> QED BY <1>4 DEF Lost

(* The five ways a directory is copied.                                     *)
LEMMA FormStep ==
  ASSUME NEW path \in Path, NEW n \in 0..(Len(path.names) - 1),
         NEW x, x = path.names[n + 1], NEW s, s = Form(path, n), NEW z \in BOOLEAN,
         z <=> s = <<>> /\ (path.root => Started(path, n))
  PROVE  /\ x = "." => Form(path, n + 1) = s
         /\ x = ".." /\ ~z /\ s = <<>> => Form(path, n + 1) = <<>>
         /\ x = ".." /\ s # <<>> /\ Last(s) # ".." => Form(path, n + 1) = Front(s)
         /\ x = ".." /\ (z \/ (s # <<>> /\ Last(s) = "..")) => Form(path, n + 1) = Append(s, "..")
         /\ x \in Names => Form(path, n + 1) = Append(s, x)
<1> DEFINE w == Walk(Rootless(path))
           u == w[n].up - Lost(path, n)
           d == w[n].down
<1>1. /\ n \in 0..Len(path.names) /\ n + 1 \in 0..Len(path.names) /\ n + 1 \in 1..Len(path.names)
      /\ (n + 1) - 1 = n
      /\ Rootless(path) \in Path /\ Rootless(path).names = path.names /\ ~Rootless(path).root
  BY RootlessPath DEF Path
<1>2. u \in Nat /\ w[n].up \in Nat /\ d \in Seq(Names) /\ s = Ups(u) \o d
  BY <1>1, LostWasUp DEF Form
<1>3. w[n + 1] = Follow(w[n], x) /\ w[n] \in Places /\ x \in NamesInPath /\ ~w[n].root
  BY <1>1, WalkStep, WalkTypes
<1>4. Form(path, n + 1) = Ups(w[n + 1].up - Lost(path, n + 1)) \o w[n + 1].down
  BY DEF Form
<1>5. Absorbs(path, n + 1) <=> Absorbs(path, n) \/ (path.root /\ x = ".." /\ ~Started(path, n))
  BY LostStep
<1>6. ~Started(path, n) => w[n].up = 0 /\ d = <<>> /\ ~Absorbs(path, n)
  BY <1>1, NotStarted
<1>7. s = <<>> <=> u = 0 /\ d = <<>>
  <2> HIDE DEF u, d
  <2>1. Ups(u) \o d = <<>> <=> u = 0 /\ d = <<>>
    BY <1>2, JoinFacts
  <2> QED BY <1>2, <2>1
<1>8. Lost(path, n) \in {0, 1} /\ (Absorbs(path, n) <=> Lost(path, n) = 1)
  BY DEF Lost
<1>9. w[n].up = u + Lost(path, n)
  BY <1>2, <1>8
<1>10. (path.root /\ x = ".." => Started(path, n)) => Lost(path, n + 1) = Lost(path, n)
  BY <1>5 DEF Lost
<1> HIDE DEF w, u, d
<1>11. CASE x = "."
  <2>1. w[n + 1] = w[n]
    BY <1>3, <1>11, FollowCases
  <2>2. Lost(path, n + 1) = Lost(path, n)
    BY <1>10, <1>11
  <2>3. Form(path, n + 1) = s
    BY <1>2, <1>4, <2>1, <2>2 DEF u, d
  <2> QED BY <1>11, <2>3, NameFacts
<1>12. CASE x = ".." /\ ~z /\ s = <<>>
  <2>1. path.root /\ ~Started(path, n)
    BY <1>12
  <2>2. w[n].up = 0 /\ d = <<>> /\ Lost(path, n + 1) = 1
    BY <1>5, <1>6, <1>12, <2>1 DEF Lost
  <2>3. w[n + 1].up = 1 /\ w[n + 1].down = <<>>
    BY <1>3, <1>12, <2>2, FollowCases DEF d
  <2>4. Form(path, n + 1) = Ups(0) \o <<>>
    BY <1>4, <2>2, <2>3
  <2>5. Ups(0) \o <<>> = <<>>
    BY JoinFacts, UpsFacts
  <2> QED BY <1>12, <2>4, <2>5, NameFacts
<1>13. CASE x = ".." /\ s # <<>> /\ Last(s) # ".."
  <2>1. d # <<>>
    <3> SUFFICES ASSUME d = <<>> PROVE FALSE
      OBVIOUS
    <3>1. s = Ups(u) /\ u > 0
      BY <1>2, <1>7, <1>13, JoinFacts
    <3> QED BY <1>2, <1>13, <3>1, UpsLast
  <2>2. w[n + 1].up = w[n].up /\ w[n + 1].down = Front(d)
    BY <1>3, <1>13, <2>1, FollowCases DEF d
  <2>3. Lost(path, n + 1) = Lost(path, n)
    BY <1>6, <1>10, <2>1
  <2>4. Form(path, n + 1) = Ups(u) \o Front(d)
    BY <1>4, <2>2, <2>3 DEF u
  <2>5. Front(s) = Ups(u) \o Front(d)
    BY <1>2, <2>1, JoinFront
  <2> QED BY <1>13, <2>4, <2>5, NameFacts
<1>14. CASE x = ".." /\ (z \/ (s # <<>> /\ Last(s) = ".."))
  <2>1. d = <<>>
    <3> SUFFICES ASSUME d # <<>> PROVE FALSE
      OBVIOUS
    <3>1. Last(s) \in Names
      BY <1>2, JoinFront
    <3> QED BY <1>7, <1>14, <3>1, NameFacts
  <2>2. path.root => Started(path, n)
    <3> SUFFICES ASSUME ~Started(path, n) PROVE ~path.root
      OBVIOUS
    <3>1. w[n].up = 0 /\ Lost(path, n) = 0
      BY <1>6, <1>8
    <3>2. u = 0
      BY <1>2, <1>9, <3>1
    <3>3. s = <<>>
      BY <1>7, <2>1, <3>2
    <3>4. z
      BY <1>14, <3>3
    <3> QED BY <3>4
  <2>3. w[n + 1].up = w[n].up + 1 /\ w[n + 1].down = <<>>
    BY <1>3, <1>14, <2>1, FollowCases DEF d
  <2>4. w[n + 1].up - Lost(path, n + 1) = u + 1
    BY <1>2, <1>8, <1>9, <1>10, <2>2, <2>3
  <2>5. Form(path, n + 1) = Ups(u + 1) \o <<>>
    BY <1>4, <2>3, <2>4
  <2>6. s = Ups(u)
    BY <1>2, <2>1, JoinFacts
  <2>7. Ups(u + 1) \o <<>> = Ups(u + 1)
    <3>1. u + 1 \in Nat /\ <<>> \in Seq(Names)
      BY <1>2
    <3> QED BY <3>1, JoinFacts
  <2>8. Append(Ups(u), "..") = Ups(u + 1)
    BY <1>2, UpsFacts
  <2> QED BY <1>14, <2>5, <2>6, <2>7, <2>8, NameFacts
<1>15. CASE x \in Names
  <2>1. w[n + 1].up = w[n].up /\ w[n + 1].down = Append(d, x)
    BY <1>3, <1>15, FollowCases DEF d
  <2>2. Lost(path, n + 1) = Lost(path, n)
    BY <1>10, <1>15, NameFacts
  <2>3. Form(path, n + 1) = Ups(u) \o Append(d, x)
    BY <1>4, <2>1, <2>2 DEF u
  <2>4. Append(s, x) = Ups(u) \o Append(d, x)
    BY <1>2, <1>15, JoinAppend
  <2> QED BY <1>15, <2>3, <2>4, NameFacts
<1> QED BY <1>3, <1>11, <1>12, <1>13, <1>14, <1>15 DEF NamesInPath

(* The simplified path s, and z for the zero_dir, when directory i is next. *)
SimplIs(path, i, s, z) ==
  LET n == IF path.root THEN i - 2 ELSE i - 1 IN
  /\ i \in 1..(Len(Dirs(path)) + 1) /\ z \in BOOLEAN
  /\ n < 0 => s = <<>> /\ z
  /\ n >= 0 => s = Form(path, n) /\ (z <=> s = <<>> /\ (path.root => Started(path, n)))

(* What next_dir yields, one by one.                                        *)
LEMMA DirsFacts ==
  ASSUME NEW path \in Path
  PROVE  /\ path.root \in BOOLEAN /\ Len(path.names) \in Nat
         /\ path.root => /\ Len(Dirs(path)) = Len(path.names) + 1
                         /\ Dirs(path)[1] = "/"
                         /\ \A j \in 1..Len(path.names) : Dirs(path)[j + 1] = path.names[j]
         /\ ~path.root => Dirs(path) = path.names
<1>1. path.names \in Seq(NamesInPath) /\ path.root \in BOOLEAN /\ Len(path.names) \in Nat
  BY DEF Path, NamesInPath
<1> DEFINE p == path.names
<1> HIDE DEF p
<1>2. p \in Seq(NamesInPath) /\ Len(p) \in Nat
  BY <1>1 DEF p
<1> DEFINE A == NamesInPath \cup {"/"}
<1>3. p \in Seq(A) /\ <<"/">> \in Seq(A)
  BY <1>2
<1> HIDE DEF A
<1>4. Len(<<"/">> \o p) = Len(p) + 1
  BY <1>3
<1>5. (<<"/">> \o p)[1] = "/"
  BY <1>3
<1>6. \A j \in 1..Len(p) : (<<"/">> \o p)[j + 1] = p[j]
  BY <1>3
<1>7. path.root => Dirs(path) = <<"/">> \o p
  BY DEF Dirs, p
<1>8. ~path.root => Dirs(path) = p
  <2>1. <<>> \o p = p
    BY <1>2, ConcatEmptySeq
  <2> QED BY <2>1 DEF Dirs, p
<1> QED BY <1>1, <1>4, <1>5, <1>6, <1>7, <1>8 DEF p

(* At first the simplified path is empty.                                   *)
LEMMA FormStart ==
  ASSUME NEW path \in Path
  PROVE  Form(path, 0) = <<>> /\ ~Started(path, 0)
<1>1. ~Started(path, 0) /\ 0 \in 0..Len(path.names)
  BY DEF Started, Path
<1>2. Walk(Rootless(path))[0].up = 0 /\ Walk(Rootless(path))[0].down = <<>> /\ Lost(path, 0) = 0
  BY <1>1, NotStarted DEF Lost
<1>3. Ups(0) \o <<>> = <<>>
  BY JoinFacts, UpsFacts
<1> QED BY <1>1, <1>2, <1>3 DEF Form

(* ... and simple_dir is the zero_dir.                                      *)
LEMMA SimplStart ==
  ASSUME NEW path \in Path
  PROVE  SimplIs(path, 1, <<>>, TRUE)
<1>1. Len(Dirs(path)) \in Nat
  BY DirsFacts
<1>2. path.root \in BOOLEAN
  BY DirsFacts
<1> QED BY <1>1, <1>2, FormStart DEF SimplIs

(* One directory of extract_simplified_path.                                *)
LEMMA SimplStep ==
  ASSUME NEW path \in Path, NEW i, NEW s, NEW z, SimplIs(path, i, s, z), i <= Len(Dirs(path)),
         NEW x, x = Dirs(path)[i], NEW s2, NEW z2 \in BOOLEAN,
         NEW collapses \in BOOLEAN,
         collapses <=> x = ".." /\ ~z /\ (s = <<>> \/ Last(s) # ".."),
         x = "." => s2 = s /\ (z2 <=> z),
         collapses => s2 = (IF s = <<>> THEN <<>> ELSE Front(s)) /\ (z2 <=> s2 = <<>>),
         x # "." /\ ~collapses => s2 = (IF x = "/" THEN s ELSE Append(s, x)) /\ ~z2
  PROVE  SimplIs(path, i + 1, s2, z2)
<1> DEFINE n == IF path.root THEN i - 2 ELSE i - 1
<1>1. /\ Len(path.names) \in Nat /\ path.root \in BOOLEAN /\ Len(Dirs(path)) \in Nat
      /\ i \in 1..Len(Dirs(path)) /\ z \in BOOLEAN
      /\ i + 1 \in 1..(Len(Dirs(path)) + 1)
      /\ (IF path.root THEN (i + 1) - 2 ELSE (i + 1) - 1) = n + 1 /\ n \in Int
  BY DirsFacts DEF SimplIs
<1>2. /\ n < 0 => s = <<>> /\ z
      /\ n >= 0 => s = Form(path, n) /\ (z <=> s = <<>> /\ (path.root => Started(path, n)))
  BY DEF SimplIs
<1>3. n >= 0 => n \in 0..(Len(path.names) - 1) /\ x = path.names[n + 1]
  <2>1. CASE path.root
    <3>1. n = i - 2 /\ Len(Dirs(path)) = Len(path.names) + 1
      BY <1>1, <2>1, DirsFacts
    <3>2. n >= 0 => n + 1 \in 1..Len(path.names) /\ (n + 1) + 1 = i
      BY <1>1, <3>1
    <3>3. n >= 0 => Dirs(path)[(n + 1) + 1] = path.names[n + 1]
      BY <2>1, <3>2, DirsFacts
    <3> QED BY <1>1, <3>1, <3>2, <3>3
  <2>2. CASE ~path.root
    <3>1. n = i - 1 /\ Dirs(path) = path.names /\ n + 1 = i
      BY <1>1, <2>2, DirsFacts
    <3> QED BY <1>1, <3>1
  <2> QED BY <2>1, <2>2
<1>4. n < 0 => path.root /\ i = 1 /\ n + 1 = 0 /\ x = "/"
  BY <1>1, DirsFacts
<1>5. SUFFICES /\ n + 1 >= 0
               /\ s2 = Form(path, n + 1)
               /\ z2 <=> s2 = <<>> /\ (path.root => Started(path, n + 1))
  BY <1>1 DEF SimplIs
<1>6. n + 1 >= 0
  BY <1>1, <1>4
<1> HIDE DEF n
<1>7. CASE n < 0
  <2>1. x = "/" /\ "/" # "." /\ "/" # ".." /\ s = <<>> /\ n + 1 = 0 /\ path.root
    BY <1>2, <1>4, <1>7
  <2>2. s2 = <<>> /\ ~z2
    BY <2>1
  <2> QED BY <1>6, <2>1, <2>2, FormStart
<1>8. CASE n >= 0
  <2>1. /\ n \in 0..(Len(path.names) - 1) /\ x = path.names[n + 1] /\ s = Form(path, n)
        /\ (z <=> s = <<>> /\ (path.root => Started(path, n)))
    BY <1>2, <1>3, <1>8
  <2>2. /\ x = "." => Form(path, n + 1) = s
        /\ x = ".." /\ ~z /\ s = <<>> => Form(path, n + 1) = <<>>
        /\ x = ".." /\ s # <<>> /\ Last(s) # ".." => Form(path, n + 1) = Front(s)
        /\ x = ".." /\ (z \/ (s # <<>> /\ Last(s) = "..")) => Form(path, n + 1) = Append(s, "..")
        /\ x \in Names => Form(path, n + 1) = Append(s, x)
    BY <1>1, <2>1, FormStep
  <2>3. Started(path, n + 1) <=> Started(path, n) \/ x # "."
    BY <2>1, StartedStep
  <2>4. x \in NamesInPath /\ s \in Seq(NamesInPath)
    <3>1. n + 1 \in 0..Len(path.names) /\ n + 1 > 0 /\ n \in 0..Len(path.names)
      BY <1>1, <2>1
    <3>2. x \in NamesInPath
      BY <2>1, <3>1, WalkTypes
    <3>3. s \in Seq(NamesInPath)
      BY <2>1, <3>1, LostWasUp, JoinFacts DEF Form
    <3> QED BY <3>2, <3>3
  <2>5. x # "/" /\ Append(s, x) # <<>>
    <3>1. x # "/"
      BY <2>4, NameFacts
    <3>2. Len(Append(s, x)) = Len(s) + 1 /\ Len(s) \in Nat
      BY <2>4
    <3>3. Append(s, x) # <<>>
      BY <3>2
    <3> QED BY <3>1, <3>3
  <2>6. CASE x = "."
    <3>1. s2 = s /\ (z2 <=> z) /\ Form(path, n + 1) = s
      BY <2>2, <2>6
    <3>2. Started(path, n + 1) <=> Started(path, n)
      BY <2>3, <2>6
    <3> QED BY <1>6, <2>1, <3>1, <3>2
  <2>7. CASE collapses
    <3>1. x = ".." /\ ~z /\ (s = <<>> \/ Last(s) # "..") /\ Started(path, n + 1)
      BY <2>3, <2>7
    <3>2. s2 = Form(path, n + 1)
      BY <2>2, <2>7, <3>1
    <3> QED BY <1>6, <2>7, <3>1, <3>2
  <2>8. CASE x # "." /\ ~collapses
    <3>1. s2 = Append(s, x) /\ ~z2
      BY <2>5, <2>8
    <3>2. Form(path, n + 1) = Append(s, x)
      <4>1. CASE x \in Names
        BY <2>2, <4>1
      <4>2. CASE x = ".."
        <5>1. z \/ (s # <<>> /\ Last(s) = "..")
          BY <2>8, <4>2
        <5> QED BY <2>2, <4>2, <5>1
      <4> QED BY <2>4, <2>8, <4>1, <4>2 DEF NamesInPath
    <3> QED BY <1>6, <2>5, <3>1, <3>2
  <2> QED BY <2>6, <2>7, <2>8
<1> QED BY <1>1, <1>7, <1>8

(* One directory of simple_sandbox_check: as long as the depth does not get *)
(* negative the path stays under the directory with the names t.            *)
LEMMA CountStep ==
  ASSUME NEW at \in Places, NEW t \in Seq(Names), NEW g \in Nat,
         IsPrefix(t, at.down), Len(at.down) = Len(t) + g,
         NEW x \in NamesInPath, g + Level(x) >= 0
  PROVE  /\ Follow(at, x).up = at.up /\ IsPrefix(t, Follow(at, x).down)
         /\ Len(Follow(at, x).down) = Len(t) + (g + Level(x)) /\ g + Level(x) \in Nat
<1> DEFINE d == at.down
<1>1. d \in Seq(Names) /\ Len(d) \in Nat /\ Len(t) \in Nat /\ Len(d) = Len(t) + g
  BY NameFacts DEF Places
<1>2. \A j \in 1..Len(t) : t[j] = d[j]
  BY <1>1, PrefixIs
<1>3. CASE x = "."
  <2>1. Follow(at, x) = at /\ Level(x) = 0
    BY <1>3, FollowCases DEF Level
  <2> QED BY <1>1, <2>1
<1>4. CASE x = ".."
  <2>1. Level(x) = -1 /\ g > 0
    BY <1>4 DEF Level
  <2>2. d # <<>>
    BY <1>1, <2>1, EmptySeq
  <2>3. Follow(at, x).up = at.up /\ Follow(at, x).down = Front(d)
    BY <1>4, <2>2, FollowCases
  <2>4. Front(d) \in Seq(Names) /\ Len(Front(d)) = Len(d) - 1
        /\ \A j \in 1..(Len(d) - 1) : Front(d)[j] = d[j]
    BY <1>1, <2>2, FrontFacts
  <2>5. IsPrefix(t, Front(d))
    <3>1. Len(t) <= Len(Front(d)) /\ \A j \in 1..Len(t) : t[j] = Front(d)[j]
      BY <1>1, <1>2, <2>1, <2>4
    <3> QED BY <2>4, <3>1, PrefixIs
  <2> QED BY <1>1, <2>1, <2>3, <2>4, <2>5
<1>5. CASE x \in Names
  <2>1. Level(x) = 1
    BY <1>5, NameFacts DEF Level
  <2>2. Follow(at, x).up = at.up /\ Follow(at, x).down = Append(d, x)
    BY <1>5, FollowCases
  <2> HIDE DEF d
  <2>3. Append(d, x) \in Seq(Names) /\ Len(Append(d, x)) = Len(d) + 1
    BY <1>1, <1>5
  <2>4. \A j \in 1..Len(d) : Append(d, x)[j] = d[j]
    BY <1>1, <1>5
  <2>5. IsPrefix(t, Append(d, x))
    <3>1. Len(t) <= Len(Append(d, x)) /\ \A j \in 1..Len(t) : t[j] = Append(d, x)[j]
      BY <1>1, <1>2, <2>3, <2>4
    <3> QED BY <2>3, <3>1, PrefixIs
  <2> QED BY <1>1, <2>1, <2>2, <2>3, <2>5
<1> QED BY <1>3, <1>4, <1>5 DEF NamesInPath

(***************************************************************************)
(* The path that is checked                                                *)
(***************************************************************************)
(* A trusted path that is not empty names a directory below its start, and  *)
(* no part behind it begins with "/".  Without the first, tp may be empty   *)
(* (TrustedHere); without the second, that slash counts as a level          *)
(* (LeadingSlash).                                                          *)
TrustedNamesDirectory == \A path \in TrustedPaths : NamesADirectory(path)
PartsAreRelative == \A part \in UntrustedParts : ~part.root

(* The names of the path are those of its two parts, in turn.               *)
LEMMA FullPathIs ==
  ASSUME trusted \in Path, untrusted \in Path, ~untrusted.root
  PROVE  /\ FullPath \in Path /\ FullPath.root = trusted.root
         /\ FullPath.names = trusted.names \o untrusted.names
         /\ Len(trusted.names) \in Nat /\ Len(untrusted.names) \in Nat
         /\ Len(FullPath.names) = Len(trusted.names) + Len(untrusted.names)
         /\ \A j \in 1..Len(trusted.names) : FullPath.names[j] = trusted.names[j]
         /\ \A j \in 1..Len(untrusted.names) :
               FullPath.names[Len(trusted.names) + j] = untrusted.names[j]
<1> DEFINE a == trusted.names
           b == untrusted.names
<1>1. a \in Seq(NamesInPath) /\ b \in Seq(NamesInPath) /\ trusted.root \in BOOLEAN
  BY DEF Path, NamesInPath
<1>2. FullPath.root = trusted.root /\ FullPath.names = a \o b
  BY <1>1 DEF FullPath
<1>3. FullPath = [root |-> trusted.root, names |-> a \o b]
  BY <1>1 DEF FullPath
<1> HIDE DEF a, b
<1>4. Len(a) \in Nat /\ Len(b) \in Nat /\ a \o b \in Seq(NamesInPath) /\ Len(a \o b) = Len(a) + Len(b)
  BY <1>1
<1>5. \A j \in 1..Len(a) : (a \o b)[j] = a[j]
  BY <1>1
<1>6. \A j \in 1..Len(b) : (a \o b)[Len(a) + j] = b[j]
  BY <1>1
<1>7. FullPath \in Path
  BY <1>1, <1>3, <1>4 DEF Path, NamesInPath
<1> QED BY <1>2, <1>4, <1>5, <1>6, <1>7 DEF a, b

(* As far as the trusted path goes, both lead to the same places.           *)
LEMMA FullPathStarts ==
  ASSUME trusted \in Path, untrusted \in Path, ~untrusted.root
  PROVE  /\ Walk(FullPath)[Len(trusted.names)] = Resolve(trusted)
         /\ Walk(Rootless(FullPath))[Len(trusted.names)] = Resolve(Rootless(trusted))
         /\ Lost(FullPath, Len(trusted.names)) = Lost(trusted, Len(trusted.names))
         /\ Started(FullPath, Len(trusted.names)) <=> Started(trusted, Len(trusted.names))
<1> DEFINE m == Len(trusted.names)
<1>1. /\ FullPath \in Path /\ FullPath.root = trusted.root /\ m \in Nat
      /\ m <= Len(trusted.names) /\ m <= Len(FullPath.names) /\ m \in 0..m
      /\ \A j \in 1..m : FullPath.names[j] = trusted.names[j]
  <2> DEFINE names == FullPath.names
  <2>1. FullPath \in Path /\ FullPath.root = trusted.root
    BY FullPathIs
  <2>2. m \in Nat /\ Len(untrusted.names) \in Nat /\ Len(names) = m + Len(untrusted.names)
    BY FullPathIs
  <2>3. \A j \in 1..m : names[j] = trusted.names[j]
    BY FullPathIs
  <2> HIDE DEF names, m
  <2>4. m <= Len(names) /\ m \in 0..m /\ m <= m
    BY <2>2
  <2> QED BY <2>1, <2>2, <2>3, <2>4 DEF names, m
<1> DEFINE full == FullPath
<1> HIDE DEF full, m
<1>2. full \in Path /\ full.root = trusted.root /\ \A j \in 1..m : full.names[j] = trusted.names[j]
  BY <1>1 DEF full
<1>3. \A n \in 0..m : Walk(full)[n] = Walk(trusted)[n]
  BY <1>1, <1>2, SameWalk DEF full
<1>4. \A n \in 0..m : Walk(Rootless(full))[n] = Walk(Rootless(trusted))[n]
  <2> DEFINE p == Rootless(full)
             q == Rootless(trusted)
  <2>1. p \in Path /\ q \in Path /\ p.names = full.names /\ q.names = trusted.names /\ ~p.root /\ ~q.root
    BY <1>2, RootlessPath
  <2>2. p.root = q.root
    BY <2>1 DEF Path
  <2>3. m <= Len(p.names) /\ m <= Len(q.names) /\ \A j \in 1..m : p.names[j] = q.names[j]
    BY <1>1, <1>2, <2>1 DEF full
  <2> HIDE DEF p, q
  <2> QED BY <1>1, <2>1, <2>2, <2>3, SameWalk DEF p, q
<1>5. Absorbs(full, m) <=> Absorbs(trusted, m)
  <2>1. ASSUME NEW j \in 1..m
        PROVE (\A h \in 1..(j - 1) : full.names[h] = ".") <=> \A h \in 1..(j - 1) : trusted.names[h] = "."
    <3>1. \A h \in 1..(j - 1) : full.names[h] = trusted.names[h]
      BY <1>1, <1>2
    <3> QED BY <3>1
  <2> QED BY <1>2, <2>1 DEF Absorbs
<1>6. Started(full, m) <=> Started(trusted, m)
  BY <1>2 DEF Started
<1>7. Walk(full)[m] = Resolve(trusted)
  BY <1>1, <1>3 DEF Resolve, m
<1>8. Walk(Rootless(full))[m] = Resolve(Rootless(trusted))
  <2>1. Rootless(trusted).names = trusted.names
    BY RootlessPath
  <2> QED BY <1>1, <1>4, <2>1 DEF Resolve, m
<1> QED BY <1>5, <1>6, <1>7, <1>8 DEF full, m, Lost

(* The comparison at the end asks whether the path is in the trusted        *)
(* directory, "/.." being a directory of its own.                           *)
LEMMA ComparesPlaces ==
  ASSUME trusted \in Path, untrusted \in Path, ~untrusted.root, Resolve(trusted).down # <<>>
  PROVE  LET s == Form(FullPath, Len(FullPath.names))
             t == Form(trusted, Len(trusted.names))
         IN  /\ t # <<>>
             /\ StartsLike(s, t) /\ NameEnds(s, t) <=> Under(Rootless(FullPath), Rootless(trusted))
             /\ Under(Rootless(FullPath), Rootless(trusted)) => Under(FullPath, trusted)
<1> DEFINE full == FullPath
           r == Rootless(full)
           rt == Rootless(trusted)
           m == Len(trusted.names)
           n == Len(full.names)
           s == Form(full, n)
           t == Form(trusted, m)
           lost == Lost(trusted, m)
<1>1. /\ full \in Path /\ full.root = trusted.root /\ m \in Nat /\ n \in Nat /\ m <= n
      /\ r \in Path /\ rt \in Path /\ r.names = full.names /\ rt.names = trusted.names
      /\ ~r.root /\ ~rt.root
  <2>1. full \in Path /\ full.root = trusted.root
    BY FullPathIs
  <2>2. m \in Nat /\ n \in Nat /\ m <= n
    <3>1. m \in Nat /\ Len(untrusted.names) \in Nat /\ n = m + Len(untrusted.names)
      BY FullPathIs
    <3> HIDE DEF m, n
    <3> QED BY <3>1
  <2> HIDE DEF full
  <2>3. r \in Path /\ r.names = full.names /\ ~r.root
    BY <2>1, RootlessPath
  <2>4. rt \in Path /\ rt.names = trusted.names /\ ~rt.root
    BY RootlessPath
  <2> QED BY <2>1, <2>2, <2>3, <2>4
<1>2. /\ Resolve(full) = Walk(full)[n] /\ Resolve(r) = Walk(r)[n]
      /\ Resolve(trusted) = Walk(trusted)[m] /\ Resolve(rt) = Walk(rt)[m]
  BY <1>1 DEF Resolve
<1> HIDE DEF full, r, rt, m, n
<1>3. Resolve(trusted).down = Resolve(rt).down /\ Resolve(full).down = Resolve(r).down
  <2>1. Walk(trusted)[m].down = Walk(rt)[m].down
    BY <1>1, RootlessDown DEF m, rt
  <2>2. Walk(full)[n].down = Walk(r)[n].down
    BY <1>1, RootlessDown DEF n, r
  <2> QED BY <1>2, <2>1, <2>2
<1>4. Started(trusted, m)
  <2> SUFFICES ASSUME ~Started(trusted, m) PROVE FALSE
    OBVIOUS
  <2>1. Walk(rt)[m].down = <<>>
    BY <1>1, NotStarted DEF m, rt
  <2> QED BY <1>2, <1>3, <2>1
<1>5. Lost(full, n) = lost
  <2>1. Started(full, m) /\ Lost(full, m) = lost
    BY <1>4, FullPathStarts DEF full, m
  <2>2. m \in 0..n
    BY <1>1
  <2> QED BY <1>1, <2>1, <2>2, LostOnce DEF n
<1>6. /\ Resolve(r).up - lost \in Nat /\ Resolve(r).up \in Nat /\ Resolve(r).down \in Seq(Names)
      /\ s = Ups(Resolve(r).up - lost) \o Resolve(r).down
  <2>1. n \in 0..Len(full.names)
    BY <1>1 DEF n
  <2>2. Walk(r)[n].up - Lost(full, n) \in Nat /\ Walk(r)[n].up \in Nat /\ Walk(r)[n].down \in Seq(Names)
    BY <1>1, <2>1, LostWasUp DEF r
  <2> QED BY <1>2, <1>5, <2>2 DEF Form, r
<1>7. /\ Resolve(rt).up - lost \in Nat /\ Resolve(rt).up \in Nat /\ Resolve(rt).down \in Seq(Names)
      /\ t = Ups(Resolve(rt).up - lost) \o Resolve(rt).down
  <2>1. m \in 0..Len(trusted.names)
    BY <1>1 DEF m
  <2>2. Walk(rt)[m].up - lost \in Nat /\ Walk(rt)[m].up \in Nat /\ Walk(rt)[m].down \in Seq(Names)
    BY <2>1, LostWasUp DEF rt
  <2> QED BY <1>2, <2>2 DEF Form, rt
<1>8. lost \in {0, 1}
  BY DEF Lost
<1> HIDE DEF s, t, lost
<1>9. Resolve(rt).down # <<>>
  BY <1>3
<1> DEFINE a == Resolve(r).up - lost
           b == Resolve(rt).up - lost
           d == Resolve(r).down
           e == Resolve(rt).down
<1>10. a \in Nat /\ b \in Nat /\ d \in Seq(Names) /\ e \in Seq(Names) /\ e # <<>>
       /\ s = Ups(a) \o d /\ t = Ups(b) \o e
  BY <1>6, <1>7, <1>9
<1>11. a = b <=> Resolve(r).up = Resolve(rt).up
  BY <1>6, <1>7, <1>8
<1>12. Under(r, rt) <=> Resolve(r).up = Resolve(rt).up /\ IsPrefix(e, d)
  <2>1. Resolve(r).root = Resolve(rt).root
    <3>1. Walk(r)[n].root = r.root /\ Walk(rt)[m].root = rt.root
      <4>1. n \in 0..Len(r.names) /\ m \in 0..Len(rt.names)
        BY <1>1 DEF n, m
      <4> QED BY <1>1, <4>1, WalkTypes
    <3>2. r.root = rt.root
      BY <1>1 DEF Path
    <3> QED BY <1>2, <3>1, <3>2
  <2> QED BY <2>1 DEF Under
<1>13. Under(r, rt) => Under(full, trusted)
  <2> SUFFICES ASSUME Under(r, rt) PROVE Under(full, trusted)
    OBVIOUS
  <2>1. Resolve(full).root = Resolve(trusted).root
    <3>1. n \in 0..Len(full.names) /\ m \in 0..Len(trusted.names)
      BY <1>1 DEF n, m
    <3>2. Walk(full)[n].root = full.root /\ Walk(trusted)[m].root = trusted.root
      BY <1>1, <3>1, WalkTypes
    <3> QED BY <1>1, <1>2, <3>2
  <2>2. Resolve(full).up = Resolve(trusted).up
    <3>1. CASE trusted.root
      <4>1. n \in 0..Len(full.names) /\ m \in 0..Len(trusted.names)
        BY <1>1 DEF n, m
      <4>2. Walk(full)[n].up = 0 /\ Walk(trusted)[m].up = 0
        BY <1>1, <3>1, <4>1, RootUp
      <4> QED BY <1>2, <4>2
    <3>2. CASE ~trusted.root
      <4>1. r = full /\ rt = trusted
        BY <1>1, <3>2 DEF r, rt, Rootless, Path
      <4> QED BY <1>12, <4>1
    <3> QED BY <3>1, <3>2
  <2> QED BY <1>3, <1>12, <2>1, <2>2 DEF Under
<1> HIDE DEF a, b, d, e
<1>14. s \in Seq(NamesInPath) /\ t \in Seq(NamesInPath) /\ t # <<>>
  <2>1. Ups(a) \o d \in Seq(NamesInPath) /\ Ups(b) \o e \in Seq(NamesInPath) /\ Ups(b) \o e # <<>>
    BY <1>10, JoinFacts
  <2> QED BY <1>10, <2>1
<1>15. StartsLike(s, t) /\ NameEnds(s, t) <=> IsPrefix(t, s)
  BY <1>14, CompareMeans
<1>16. IsPrefix(t, s) <=> b = a /\ IsPrefix(e, d)
  <2>1. IsPrefix(Ups(b) \o e, Ups(a) \o d) <=> b = a /\ IsPrefix(e, d)
    BY <1>10, PrefixMeans
  <2> QED BY <1>10, <2>1
<1>17. StartsLike(s, t) /\ NameEnds(s, t) <=> Under(r, rt)
  BY <1>11, <1>12, <1>15, <1>16
<1> QED BY <1>13, <1>14, <1>17 DEF s, t, n, m, r, rt, full

(***************************************************************************)
(* The invariant                                                           *)
(***************************************************************************)
(* simple_sandbox_check knows where the path has led so far: in the trusted *)
(* directory, depth levels below it.                                        *)
Counted ==
  LET at == Walk(FullPath)[Len(trusted.names) + k - 1] IN
  /\ depth \in Nat /\ k \in 1..(Len(untrusted.names) + 1)
  /\ at.up = Resolve(trusted).up /\ IsPrefix(Resolve(trusted).down, at.down)
  /\ Len(at.down) = Len(Resolve(trusted).down) + depth

SandboxInvariant ==
  /\ trusted \in TrustedPaths /\ untrusted \in UntrustedParts
  /\ phase \in {"simple", "trusted", "path", "done"}
  /\ phase = "simple" => Counted /\ simple = <<>> /\ zero = TRUE
  /\ phase = "trusted" => ~IsEmpty(trusted) /\ SimplIs(trusted, k, simple, zero)
  /\ phase = "path" => /\ ~IsEmpty(trusted) /\ SimplIs(FullPath, k, simple, zero)
                       /\ tp = Form(trusted, Len(trusted.names))
  /\ phase # "done" => verdict = "none"
  /\ AcceptsOnlyContained /\ RefusesNoContained /\ AlwaysReturns

(* What the premises say of the arguments of a call.                        *)
LEMMA PathsAre ==
  ASSUME TrustedNamesDirectory, PartsAreRelative,
         trusted \in TrustedPaths, untrusted \in UntrustedParts
  PROVE  /\ trusted \in Path /\ untrusted \in Path /\ ~untrusted.root
         /\ Dirs(untrusted) = untrusted.names
         /\ ~IsEmpty(trusted) => Resolve(trusted).down # <<>>
<1>1. trusted \in Path /\ untrusted \in Path
  BY PathAssumption
<1>2. ~untrusted.root /\ (~IsEmpty(trusted) => Resolve(trusted).down # <<>>)
  BY DEF TrustedNamesDirectory, NamesADirectory, PartsAreRelative
<1> QED BY <1>1, <1>2, DirsFacts

(* Neither the paths nor the verdict change: what is unchanged.             *)
LEMMA SamePaths ==
  ASSUME trusted' = trusted, untrusted' = untrusted
  PROVE  /\ FullPath' = FullPath /\ IsEmpty(trusted)' = IsEmpty(trusted)
         /\ Under(FullPath, trusted)' = Under(FullPath, trusted)
         /\ Under(Rootless(FullPath), Rootless(trusted))' = Under(Rootless(FullPath), Rootless(trusted))
<1>1. FullPath' = FullPath
  BY DEF FullPath, IsEmpty
<1>2. Walk(FullPath)' = Walk(FullPath) /\ Walk(trusted)' = Walk(trusted)
      /\ Walk(Rootless(FullPath))' = Walk(Rootless(FullPath))
      /\ Walk(Rootless(trusted))' = Walk(Rootless(trusted))
      /\ Rootless(FullPath)' = Rootless(FullPath) /\ Rootless(trusted)' = Rootless(trusted)
  BY <1>1
<1>3. IsEmpty(trusted)' = IsEmpty(trusted)
  BY DEF IsEmpty
<1>4. Under(FullPath, trusted)' = Under(FullPath, trusted)
  BY <1>1 DEF Under, Resolve
<1>5. Under(Rootless(FullPath), Rootless(trusted))' = Under(Rootless(FullPath), Rootless(trusted))
  BY <1>1 DEF Under, Resolve
<1> QED BY <1>1, <1>3, <1>4, <1>5

(* Before the first directory nothing has been counted.                     *)
LEMMA InvariantAtInit ==
  ASSUME TrustedNamesDirectory, PartsAreRelative, Init
  PROVE  SandboxInvariant
<1>1. /\ trusted \in TrustedPaths /\ untrusted \in UntrustedParts /\ phase = "simple" /\ k = 1
      /\ depth = 0 /\ simple = <<>> /\ zero = TRUE /\ verdict = "none"
  BY DEF Init
<1>2. trusted \in Path /\ untrusted \in Path /\ ~untrusted.root
  BY <1>1, PathsAre
<1>3. Len(trusted.names) \in Nat /\ Len(untrusted.names) \in Nat
  BY <1>2, FullPathIs
<1>4. Walk(FullPath)[Len(trusted.names) + k - 1] = Resolve(trusted)
  <2>1. Len(trusted.names) + k - 1 = Len(trusted.names)
    BY <1>1, <1>3
  <2> QED BY <1>2, <2>1, FullPathStarts
<1>5. Resolve(trusted).down \in Seq(Names)
  <2>1. Len(trusted.names) \in 0..Len(trusted.names)
    BY <1>3
  <2> QED BY <1>2, <2>1, WalkTypes DEF Resolve
<1>6. IsPrefix(Resolve(trusted).down, Resolve(trusted).down) /\ Len(Resolve(trusted).down) \in Nat
  <2>1. ASSUME NEW d \in Seq(Names) PROVE IsPrefix(d, d) /\ Len(d) \in Nat
    BY PrefixIs
  <2> QED BY <1>5, <2>1
<1>7. Counted
  BY <1>1, <1>3, <1>4, <1>6 DEF Counted
<1> QED BY <1>1, <1>7 DEF SandboxInvariant, AcceptsOnlyContained, RefusesNoContained, AlwaysReturns

(* simple_sandbox_check, and what its negative depth leads to.              *)
LEMMA CountLevelKeeps ==
  ASSUME TrustedNamesDirectory, PartsAreRelative, SandboxInvariant, CountLevel
  PROVE  SandboxInvariant'
<1>1. /\ trusted \in TrustedPaths /\ untrusted \in UntrustedParts /\ phase = "simple"
      /\ Counted /\ simple = <<>> /\ zero = TRUE /\ verdict = "none"
  BY DEF SandboxInvariant, CountLevel
<1>2. /\ trusted' = trusted /\ untrusted' = untrusted /\ simple' = simple /\ zero' = zero /\ tp' = tp
  BY DEF CountLevel
<1>3. /\ trusted \in Path /\ untrusted \in Path /\ ~untrusted.root
      /\ Dirs(untrusted) = untrusted.names
  BY <1>1, PathsAre
<1> DEFINE m == Len(trusted.names)
           n == Len(untrusted.names)
           full == FullPath
           w == Walk(full)
           x == untrusted.names[k]
           t == Resolve(trusted).down
           at == w[m + k - 1]
<1>4. /\ full \in Path /\ full.root = trusted.root
      /\ m \in Nat /\ n \in Nat /\ Len(full.names) = m + n
      /\ \A j \in 1..n : full.names[m + j] = untrusted.names[j]
  BY <1>3, FullPathIs
<1>5. /\ depth \in Nat /\ k \in 1..(n + 1) /\ at.up = Resolve(trusted).up /\ IsPrefix(t, at.down)
      /\ Len(at.down) = Len(t) + depth
  BY <1>1 DEF Counted
<1>6. k <= n /\ depth' = depth + Level(x)
  BY <1>3 DEF CountLevel
<1>7. t \in Seq(Names)
  <2>1. m \in 0..Len(trusted.names)
    BY <1>4
  <2> QED BY <1>3, <2>1, WalkTypes DEF Resolve
<1> HIDE DEF n, m, full
<1>8. m + k \in 1..Len(full.names) /\ (m + k) - 1 = m + k - 1 /\ k \in 1..n
  BY <1>4, <1>5, <1>6
<1>9. w[m + k] = Follow(at, x) /\ at \in Places /\ x \in NamesInPath
  <2>1. full.names[m + k] = x
    BY <1>4, <1>8
  <2>2. w[m + k] = Follow(w[(m + k) - 1], full.names[m + k]) /\ w[(m + k) - 1] \in Places
        /\ full.names[m + k] \in NamesInPath
    BY <1>4, <1>8, WalkStep
  <2> QED BY <1>8, <2>1, <2>2
<1>10. FullPath' = FullPath /\ IsEmpty(trusted)' = IsEmpty(trusted)
  BY <1>2, SamePaths
<1>11. CASE depth' >= 0
  <2>1. k' = k + 1 /\ phase' = "simple" /\ verdict' = "none"
    BY <1>1, <1>11 DEF CountLevel
  <2>2. /\ w[m + k].up = at.up /\ IsPrefix(t, w[m + k].down)
        /\ Len(w[m + k].down) = Len(t) + depth' /\ depth' \in Nat
    <3> HIDE DEF w, at, x, t
    <3>1. /\ Follow(at, x).up = at.up /\ IsPrefix(t, Follow(at, x).down)
          /\ Len(Follow(at, x).down) = Len(t) + (depth + Level(x)) /\ depth + Level(x) \in Nat
      <4>1. depth + Level(x) >= 0
        BY <1>6, <1>11
      <4>2. IsPrefix(t, at.down) /\ Len(at.down) = Len(t) + depth /\ depth \in Nat
        BY <1>5
      <4> QED BY <1>7, <1>9, <4>1, <4>2, CountStep
    <3> QED BY <1>6, <1>9, <3>1
  <2>3. Counted'
    <3>1. m + k' - 1 = m + k /\ k' \in 1..(n + 1)
      BY <1>4, <1>8, <2>1
    <3>2. Walk(FullPath')[m + k' - 1] = w[m + k]
      BY <1>10, <3>1 DEF full
    <3>3. Walk(FullPath)'[Len(trusted.names)' + k' - 1] = w[m + k]
      BY <1>2, <3>2 DEF m
    <3>4. Resolve(trusted)' = Resolve(trusted)
      BY <1>2 DEF Resolve, Walk
    <3> QED BY <1>2, <1>5, <2>2, <3>1, <3>3, <3>4 DEF Counted, n
  <2> QED BY <1>1, <1>2, <2>1, <2>3
          DEF SandboxInvariant, AcceptsOnlyContained, RefusesNoContained, AlwaysReturns
<1>12. CASE ~(depth' >= 0) /\ IsEmpty(trusted)
  <2>1. phase' = "done" /\ verdict' = "EACCES"
    BY <1>12 DEF CountLevel, IsHere, Decide
  <2>2. m = 0 /\ ~full.root
    BY <1>4, <1>12 DEF IsEmpty, m
  <2>3. x = ".." /\ depth = 0
    <3>1. x = "." => Level(x) = 0
      BY DEF Level
    <3>2. x \in Names => Level(x) = 1
      BY NameFacts DEF Level
    <3>3. Level(x) = -1 \/ Level(x) \in Nat
      BY DEF Level
    <3>4. x = ".." => Level(x) = -1
      BY DEF Level
    <3> HIDE DEF x
    <3> QED BY <1>5, <1>6, <1>9, <1>12, <3>1, <3>2, <3>3, <3>4 DEF NamesInPath
  <2>4. Resolve(trusted).up = 0 /\ t = <<>>
    <3>1. Walk(trusted)[0] = [root |-> trusted.root, up |-> 0, down |-> <<>>]
      BY <1>3, WalkIs
    <3>2. Resolve(trusted) = Walk(trusted)[0]
      BY <2>2 DEF Resolve, m
    <3> QED BY <3>1, <3>2
  <2>5. at.up = 0 /\ at.down = <<>>
    <3>1. Len(at.down) = 0 /\ at.down \in Seq(Names)
      <4>1. at.down \in Seq(Names)
        BY <1>9 DEF Places
      <4>2. Len(t) = 0
        BY <2>4
      <4> QED BY <1>5, <2>3, <4>1, <4>2
    <3>2. at.down = <<>>
      BY <3>1, EmptySeq
    <3> QED BY <1>5, <2>4, <3>2
  <2>6. w[m + k].up = 1
    <3>1. ~at.root
      <4>1. m + k - 1 \in 0..Len(full.names)
        BY <1>4, <1>8
      <4> QED BY <1>4, <2>2, <4>1, WalkTypes
    <3> QED BY <1>9, <2>3, <2>5, <3>1, FollowCases
  <2>7. Resolve(full).up >= 1
    <3>1. m + k \in 0..Len(full.names) /\ Len(full.names) \in 0..Len(full.names)
      BY <1>4, <1>8
    <3>2. w[m + k].up <= w[Len(full.names)].up
      BY <1>4, <2>2, <3>1, UpGrows
    <3>3. w[Len(full.names)].up \in Nat
      BY <1>4, <3>1, WalkTypes
    <3> QED BY <2>6, <3>2, <3>3 DEF Resolve
  <2>8. ~Under(Rootless(FullPath), Rootless(trusted))
    <3>1. Rootless(FullPath) = full
      BY <1>4, <2>2 DEF Rootless, Path, full
    <3>2. Rootless(trusted) = trusted
      BY <1>3, <1>4, <2>2 DEF Rootless, Path
    <3> QED BY <2>4, <2>7, <3>1, <3>2 DEF Under
  <2>9. ~Under(Rootless(FullPath), Rootless(trusted))'
    BY <1>2, <2>8, SamePaths
  <2> QED BY <1>1, <1>2, <2>1, <2>9
          DEF SandboxInvariant, AcceptsOnlyContained, RefusesNoContained, AlwaysReturns
<1>13. CASE ~(depth' >= 0) /\ ~IsEmpty(trusted)
  <2>1. phase' = "trusted" /\ k' = 1 /\ verdict' = "none"
    BY <1>1, <1>13 DEF CountLevel, IsHere
  <2>2. SimplIs(trusted, 1, <<>>, TRUE)
    BY <1>3, SimplStart
  <2>3. SimplIs(trusted, k, simple, zero)'
    BY <1>1, <1>2, <2>1, <2>2 DEF SimplIs, Form, Started, Lost, Absorbs
  <2> QED BY <1>1, <1>2, <1>10, <1>13, <2>1, <2>3
          DEF SandboxInvariant, AcceptsOnlyContained, RefusesNoContained, AlwaysReturns
<1> QED BY <1>11, <1>12, <1>13

(* A depth that never got negative proves the path contained.               *)
LEMMA CountEndsKeeps ==
  ASSUME TrustedNamesDirectory, PartsAreRelative, SandboxInvariant, CountEnds
  PROVE  SandboxInvariant'
<1>1. /\ trusted \in TrustedPaths /\ untrusted \in UntrustedParts /\ phase = "simple" /\ Counted
      /\ trusted' = trusted /\ untrusted' = untrusted /\ phase' = "done" /\ verdict' = "ok"
  BY DEF SandboxInvariant, CountEnds, Decide
<1>2. /\ trusted \in Path /\ untrusted \in Path /\ ~untrusted.root
      /\ Dirs(untrusted) = untrusted.names
  BY <1>1, PathsAre
<1> DEFINE m == Len(trusted.names)
           n == Len(untrusted.names)
<1>3. /\ FullPath \in Path /\ FullPath.root = trusted.root
      /\ m \in Nat /\ n \in Nat /\ Len(FullPath.names) = m + n
  BY <1>2, FullPathIs
<1>4. k = n + 1
  <2>1. k > n
    BY <1>2 DEF CountEnds
  <2>2. k \in 1..(n + 1)
    BY <1>1 DEF Counted
  <2> QED BY <1>3, <2>1, <2>2
<1>5. Walk(FullPath)[m + k - 1] = Resolve(FullPath)
  <2>1. m + k - 1 = Len(FullPath.names)
    BY <1>3, <1>4
  <2> QED BY <2>1 DEF Resolve
<1>6. Resolve(FullPath).root = Resolve(trusted).root
  <2>1. Len(FullPath.names) \in 0..Len(FullPath.names) /\ m \in 0..m
    <3> HIDE DEF m, n
    <3> QED BY <1>3
  <2>2. Walk(FullPath)[Len(FullPath.names)].root = FullPath.root
    BY <1>3, <2>1, WalkTypes
  <2>3. Walk(trusted)[m].root = trusted.root
    BY <1>2, <2>1, WalkTypes
  <2> QED BY <1>3, <2>2, <2>3 DEF Resolve
<1>7. Under(FullPath, trusted)
  BY <1>1, <1>5, <1>6 DEF Under, Counted
<1>8. Under(FullPath, trusted)'
  BY <1>1, <1>7, SamePaths
<1> QED BY <1>1, <1>8 DEF SandboxInvariant, AcceptsOnlyContained, RefusesNoContained, AlwaysReturns

(* After its last directory a path is simplified.                           *)
LEMMA SimplEnds ==
  ASSUME NEW path \in Path, NEW i, NEW s, NEW z, SimplIs(path, i, s, z), i > Len(Dirs(path))
  PROVE  s = Form(path, Len(path.names))
<1>1. Len(path.names) \in Nat /\ path.root \in BOOLEAN /\ i = Len(Dirs(path)) + 1
  <2>1. Len(Dirs(path)) \in Nat
    BY DirsFacts
  <2>2. i \in 1..(Len(Dirs(path)) + 1)
    BY DEF SimplIs
  <2> QED BY <2>1, <2>2, DirsFacts
<1>2. CASE path.root
  <2>1. i - 2 = Len(path.names)
    BY <1>1, <1>2, DirsFacts
  <2> QED BY <1>1, <1>2, <2>1 DEF SimplIs
<1>3. CASE ~path.root
  <2>1. i - 1 = Len(path.names)
    BY <1>1, <1>3, DirsFacts
  <2> QED BY <1>1, <1>3, <2>1 DEF SimplIs
<1> QED BY <1>2, <1>3

(* extract_simplified_path.                                                 *)
LEMMA SimplifyDirKeeps ==
  ASSUME TrustedNamesDirectory, PartsAreRelative, SandboxInvariant, SimplifyDir
  PROVE  SandboxInvariant'
<1>1. /\ trusted \in TrustedPaths /\ untrusted \in UntrustedParts
      /\ phase \in {"trusted", "path"} /\ k <= Len(Dirs(Simplified)) /\ k' = k + 1
      /\ trusted' = trusted /\ untrusted' = untrusted /\ phase' = phase /\ tp' = tp
      /\ verdict' = verdict /\ verdict = "none" /\ ~IsEmpty(trusted)
  BY DEF SandboxInvariant, SimplifyDir
<1>2. trusted \in Path /\ untrusted \in Path /\ ~untrusted.root
  BY <1>1, PathsAre
<1>3. Simplified \in Path /\ SimplIs(Simplified, k, simple, zero)
  <2>1. FullPath \in Path
    BY <1>2, FullPathIs
  <2>2. CASE phase = "trusted"
    BY <1>2, <2>2 DEF Simplified, SandboxInvariant
  <2>3. CASE phase = "path"
    BY <1>2, <2>1, <2>3 DEF Simplified, SandboxInvariant
  <2> QED BY <1>1, <2>2, <2>3
<1>4. zero \in BOOLEAN
  BY <1>3 DEF SimplIs
<1> DEFINE x == Dirs(Simplified)[k]
<1>5. x = "." => simple' = simple /\ zero' = zero
  BY DEF SimplifyDir, Skips, Collapses
<1>6. Collapses(x) => /\ simple' = (IF simple = <<>> THEN <<>> ELSE Front(simple))
                      /\ zero' = (simple' = <<>>)
  BY DEF SimplifyDir, Skips, Collapses
<1>7. x # "." /\ ~Collapses(x) => /\ simple' = (IF x = "/" THEN simple ELSE Append(simple, x))
                                  /\ zero' = FALSE
  BY DEF SimplifyDir, Skips
<1>8. Collapses(x) <=> x = ".." /\ ~zero /\ (simple = <<>> \/ Last(simple) # "..")
  BY <1>4 DEF Collapses
<1>9. zero' \in BOOLEAN /\ Collapses(x) \in BOOLEAN
  BY <1>4, <1>5, <1>6, <1>7 DEF Collapses
<1>10. SimplIs(Simplified, k + 1, simple', zero')
  <2> DEFINE p == Simplified
             s2 == simple'
             z2 == zero'
             c == Collapses(x)
  <2>1. p \in Path /\ SimplIs(p, k, simple, zero) /\ k <= Len(Dirs(p)) /\ x = Dirs(p)[k]
    BY <1>1, <1>3
  <2>2. z2 \in BOOLEAN /\ c \in BOOLEAN
        /\ (c <=> x = ".." /\ ~zero /\ (simple = <<>> \/ Last(simple) # ".."))
    BY <1>8, <1>9
  <2>3. /\ x = "." => s2 = simple /\ (z2 <=> zero)
        /\ c => s2 = (IF simple = <<>> THEN <<>> ELSE Front(simple)) /\ (z2 <=> s2 = <<>>)
        /\ x # "." /\ ~c => s2 = (IF x = "/" THEN simple ELSE Append(simple, x)) /\ ~z2
    <3> HIDE DEF x
    <3>1. x = "." => s2 = simple /\ (z2 <=> zero)
      BY <1>5
    <3>2. c => s2 = (IF simple = <<>> THEN <<>> ELSE Front(simple)) /\ (z2 <=> s2 = <<>>)
      BY <1>6
    <3>3. x # "." /\ ~c => s2 = (IF x = "/" THEN simple ELSE Append(simple, x)) /\ ~z2
      BY <1>7
    <3> QED BY <3>1, <3>2, <3>3
  <2> HIDE DEF p, s2, z2, c, x
  <2>4. SimplIs(p, k + 1, s2, z2)
    BY <2>1, <2>2, <2>3, SimplStep
  <2> QED BY <2>4 DEF p, s2, z2
<1>11. FullPath' = FullPath /\ IsEmpty(trusted)' = IsEmpty(trusted) /\ Simplified' = Simplified
  BY <1>1, SamePaths DEF Simplified
<1>12. SimplIs(Simplified, k, simple, zero)'
  <2>1. SimplIs(Simplified', k', simple', zero')
    BY <1>1, <1>10, <1>11
  <2> QED BY <2>1, <1>11 DEF SimplIs, Form, Started, Lost, Absorbs
<1>13. CASE phase = "trusted"
  <2>1. SimplIs(trusted, k, simple, zero)'
    BY <1>1, <1>11, <1>12, <1>13 DEF Simplified, SimplIs, Form, Started, Lost, Absorbs
  <2> QED BY <1>1, <1>11, <1>13, <2>1
          DEF SandboxInvariant, AcceptsOnlyContained, RefusesNoContained, AlwaysReturns
<1>14. CASE phase = "path"
  <2>1. SimplIs(FullPath, k, simple, zero)'
    BY <1>1, <1>11, <1>12, <1>14 DEF Simplified, SimplIs, Form, Started, Lost, Absorbs
  <2>2. (tp = Form(trusted, Len(trusted.names)))'
    <3>1. tp = Form(trusted, Len(trusted.names))
      BY <1>14 DEF SandboxInvariant
    <3> QED BY <1>1, <3>1 DEF Form, Lost, Absorbs
  <2> QED BY <1>1, <1>11, <1>14, <2>1, <2>2
          DEF SandboxInvariant, AcceptsOnlyContained, RefusesNoContained, AlwaysReturns
<1> QED BY <1>1, <1>13, <1>14

(* tp is the simplified trusted path.                                       *)
LEMMA TrustedEndsKeeps ==
  ASSUME TrustedNamesDirectory, PartsAreRelative, SandboxInvariant, TrustedEnds
  PROVE  SandboxInvariant'
<1>1. /\ trusted \in TrustedPaths /\ untrusted \in UntrustedParts
      /\ phase = "trusted" /\ k > Len(Dirs(trusted)) /\ phase' = "path" /\ k' = 1
      /\ tp' = simple /\ simple' = <<>> /\ zero' = TRUE /\ trusted' = trusted
      /\ untrusted' = untrusted /\ verdict' = verdict /\ verdict = "none"
      /\ ~IsEmpty(trusted) /\ SimplIs(trusted, k, simple, zero)
  BY DEF SandboxInvariant, TrustedEnds
<1>2. trusted \in Path /\ untrusted \in Path /\ ~untrusted.root
  BY <1>1, PathsAre
<1>3. simple = Form(trusted, Len(trusted.names))
  BY <1>1, <1>2, SimplEnds
<1>4. FullPath' = FullPath /\ IsEmpty(trusted)' = IsEmpty(trusted)
  BY <1>1, SamePaths
<1>5. SimplIs(FullPath, k, simple, zero)'
  <2>1. SimplIs(FullPath, 1, <<>>, TRUE)
    BY <1>2, FullPathIs, SimplStart
  <2> QED BY <1>1, <1>4, <2>1 DEF SimplIs, Form, Started, Lost, Absorbs
<1>6. (tp = Form(trusted, Len(trusted.names)))'
  BY <1>1, <1>3 DEF Form, Lost, Absorbs
<1> QED BY <1>1, <1>4, <1>5, <1>6
        DEF SandboxInvariant, AcceptsOnlyContained, RefusesNoContained, AlwaysReturns

(* A failed malloc decides nothing about the path.                          *)
LEMMA OutOfMemoryKeeps ==
  ASSUME SandboxInvariant, OutOfMemory
  PROVE  SandboxInvariant'
BY DEF SandboxInvariant, OutOfMemory, Decide, AcceptsOnlyContained, RefusesNoContained, AlwaysReturns

(* The comparison accepts what is contained and nothing else.               *)
LEMMA CompareKeeps ==
  ASSUME TrustedNamesDirectory, PartsAreRelative, SandboxInvariant, Compare
  PROVE  SandboxInvariant'
<1>1. /\ trusted \in TrustedPaths /\ untrusted \in UntrustedParts
      /\ phase = "path" /\ k > Len(Dirs(FullPath)) /\ phase' = "done"
      /\ trusted' = trusted /\ untrusted' = untrusted
      /\ ~IsEmpty(trusted) /\ SimplIs(FullPath, k, simple, zero)
      /\ tp = Form(trusted, Len(trusted.names))
      /\ verdict' = IF tp = <<>> THEN "aborted"
                    ELSE IF StartsLike(simple, tp) /\ NameEnds(simple, tp) THEN "ok"
                    ELSE "EACCES"
  BY DEF SandboxInvariant, Compare, Decide
<1>2. trusted \in Path /\ untrusted \in Path /\ ~untrusted.root /\ Resolve(trusted).down # <<>>
  BY <1>1, PathsAre
<1>3. simple = Form(FullPath, Len(FullPath.names))
  BY <1>1, <1>2, FullPathIs, SimplEnds
<1>4. /\ tp # <<>>
      /\ StartsLike(simple, tp) /\ NameEnds(simple, tp) <=> Under(Rootless(FullPath), Rootless(trusted))
      /\ Under(Rootless(FullPath), Rootless(trusted)) => Under(FullPath, trusted)
  BY <1>1, <1>2, <1>3, ComparesPlaces
<1>5. /\ Under(FullPath, trusted)' = Under(FullPath, trusted)
      /\ Under(Rootless(FullPath), Rootless(trusted))' = Under(Rootless(FullPath), Rootless(trusted))
  BY <1>1, SamePaths
<1>6. CASE Under(Rootless(FullPath), Rootless(trusted))
  BY <1>1, <1>4, <1>5, <1>6
     DEF SandboxInvariant, AcceptsOnlyContained, RefusesNoContained, AlwaysReturns
<1>7. CASE ~Under(Rootless(FullPath), Rootless(trusted))
  BY <1>1, <1>4, <1>5, <1>7
     DEF SandboxInvariant, AcceptsOnlyContained, RefusesNoContained, AlwaysReturns
<1> QED BY <1>6, <1>7

(* Nothing happens after the verdict.                                       *)
LEMMA StutterKeeps ==
  ASSUME SandboxInvariant, UNCHANGED vars
  PROVE  SandboxInvariant'
<1>1. /\ trusted' = trusted /\ untrusted' = untrusted /\ phase' = phase /\ k' = k /\ depth' = depth
      /\ simple' = simple /\ zero' = zero /\ tp' = tp /\ verdict' = verdict
  BY DEF vars
<1>2. FullPath' = FullPath /\ IsEmpty(trusted)' = IsEmpty(trusted)
  BY <1>1, SamePaths
<1>3. Counted' = Counted
  BY <1>1, <1>2 DEF Counted, Resolve, Walk
<1>4. SimplIs(trusted, k, simple, zero)' = SimplIs(trusted, k, simple, zero)
  BY <1>1 DEF SimplIs, Form, Started, Lost, Absorbs
<1>5. SimplIs(FullPath, k, simple, zero)' = SimplIs(FullPath, k, simple, zero)
  BY <1>1, <1>2 DEF SimplIs, Form, Started, Lost, Absorbs
<1>6. Form(trusted, Len(trusted.names))' = Form(trusted, Len(trusted.names))
  BY <1>1 DEF Form, Lost, Absorbs
<1>7. AcceptsOnlyContained' = AcceptsOnlyContained /\ RefusesNoContained' = RefusesNoContained
      /\ AlwaysReturns' = AlwaysReturns
  BY <1>1, SamePaths DEF AcceptsOnlyContained, RefusesNoContained, AlwaysReturns
<1> QED BY <1>1, <1>2, <1>3, <1>4, <1>5, <1>6, <1>7 DEF SandboxInvariant

(* The invariant holds always: while simple_sandbox_check counts, its depth *)
(* is how far the path has got below the trusted directory; while           *)
(* extract_simplified_path copies, what it has is the path so far, up and   *)
(* then down, but for "/..".                                                *)
THEOREM SandboxInductive ==
  ASSUME TrustedNamesDirectory, PartsAreRelative
  PROVE  Spec => []SandboxInvariant
<1>1. Init => SandboxInvariant
  BY InvariantAtInit
<1>2. SandboxInvariant /\ [Next]_vars => SandboxInvariant'
  <2> SUFFICES ASSUME SandboxInvariant, [Next]_vars PROVE SandboxInvariant'
    OBVIOUS
  <2>1. CASE CountLevel
    BY <2>1, CountLevelKeeps
  <2>2. CASE CountEnds
    BY <2>2, CountEndsKeeps
  <2>3. CASE SimplifyDir
    BY <2>3, SimplifyDirKeeps
  <2>4. CASE TrustedEnds
    BY <2>4, TrustedEndsKeeps
  <2>5. CASE OutOfMemory
    BY <2>5, OutOfMemoryKeeps
  <2>6. CASE Compare
    BY <2>6, CompareKeeps
  <2>7. CASE Done
    BY <2>7, StutterKeeps DEF Done
  <2>8. CASE UNCHANGED vars
    BY <2>8, StutterKeeps
  <2> QED BY <2>1, <2>2, <2>3, <2>4, <2>5, <2>6, <2>7, <2>8 DEF Next
<1> QED BY <1>1, <1>2, PTL DEF Spec

(* What _sf1_file_sandbox_check accepts is in the trusted directory,        *)
(* however it goes up and down on its way ("Verify that the final paths are *)
(* contained in the trusted path").                                         *)
THEOREM AcceptedIsContained ==
  ASSUME TrustedNamesDirectory, PartsAreRelative
  PROVE  Spec => []AcceptsOnlyContained
<1>1. SandboxInvariant => AcceptsOnlyContained
  BY DEF SandboxInvariant
<1> QED BY <1>1, SandboxInductive, PTL

(* A path that leaves the trusted directory and comes back is not refused,  *)
(* unless it climbs above the root on its way.                              *)
THEOREM ContainedIsAccepted ==
  ASSUME TrustedNamesDirectory, PartsAreRelative
  PROVE  Spec => []RefusesNoContained
<1>1. SandboxInvariant => RefusesNoContained
  BY DEF SandboxInvariant
<1> QED BY <1>1, SandboxInductive, PTL

(* The assertion on the last slash of the trusted path never fails: there   *)
(* is a directory in the simplified trusted path to compare.                *)
THEOREM NeverAborts ==
  ASSUME TrustedNamesDirectory, PartsAreRelative
  PROVE  Spec => []AlwaysReturns
<1>1. SandboxInvariant => AlwaysReturns
  BY DEF SandboxInvariant
<1> QED BY <1>1, SandboxInductive, PTL
=============================================================================
