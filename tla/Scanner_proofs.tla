--------------------------- MODULE Scanner_proofs ---------------------------
(***************************************************************************)
(* For every format: the scanner stays in its buffer, keeps the bytes of    *)
(* the format, frees what it allocates once, and finds the tokens that     *)
(* lexer.l asks for.                                                       *)
(***************************************************************************)
EXTENDS Scanner, Induction, SequenceTheorems, TLAPS

(***************************************************************************)
(* The tables, one at a time                                               *)
(***************************************************************************)
(* Only the NUL has class 0.                                               *)
LEMMA Classes ==
  \A b \in Bytes : /\ At(yy_ec, b) \in 0..20
                   /\ At(yy_ec, b) = 0 <=> b = 0
BY DEF yy_ec, At, Bytes

(* The meta classes keep the NUL apart.                                     *)
LEMMA Metas ==
  \A c \in 0..20 : /\ At(yy_meta, c) \in 0..20
                   /\ At(yy_meta, c) = 0 <=> c = 0
BY DEF yy_meta, At

(* Every slot of a state and class lies in yy_nxt and yy_chk.               *)
LEMMA Bases ==
  /\ \A s \in 1..57 : At(yy_base, s) \in 0..79
  /\ At(yy_base, JamState) = JamBase
  /\ At(yy_base, EndOfBufState) # JamBase
BY DEF yy_base, At, JamState, JamBase, EndOfBufState

(* Two steps along yy_def lead to the jam state.                            *)
LEMMA Defaults ==
  \A s \in 1..54 : \/ At(yy_def, s) = JamState
                   \/ /\ At(yy_def, s) \in (1..57) \ {EndOfBufState, JamState}
                      /\ At(yy_def, At(yy_def, s)) = JamState
BY DEF yy_def, At, JamState, EndOfBufState

(* Slot 79 alone leads to the state that ends the buffer.                   *)
LEMMA Nexts ==
  \A i \in 1..99 : /\ At(yy_nxt, i) \in ScanStates
                   /\ At(yy_nxt, i) = EndOfBufState <=> i = 79
BY DEF yy_nxt, At, ScanStates, EndOfBufState

(* The slots of the jam state are the last ones; slot 0 is nobody's.        *)
LEMMA Checks ==
  \A i \in 0..99 : /\ At(yy_chk, i) = JamState <=> i >= 79
                   /\ At(yy_chk, i) = 0 <=> i = 0
BY DEF yy_chk, At, JamState

(* Only two states have a transition of their own on a NUL.                 *)
LEMMA OwnNuls ==
  \A s \in 1..57 :
    At(yy_chk, At(yy_base, s)) = s <=> s \in {EndOfBufState, JamState}
BY DEF yy_chk, yy_base, At, JamState, EndOfBufState

LEMMA Actions ==
  \A s \in ScanStates :
    /\ At(yy_accept, s) \in (0..23) \cup {END_OF_BUFFER}
    /\ At(yy_accept, s) = END_OF_BUFFER <=> s = EndOfBufState
BY DEF yy_accept, At, ScanStates, EndOfBufState, END_OF_BUFFER

(***************************************************************************)
(* The automaton                                                           *)
(***************************************************************************)
(* The transitions stay among the states, and a NUL, and only a NUL, leads  *)
(* to the state that ends the buffer.                                      *)
LEMMA Transitions ==
  ASSUME NEW s \in ScanStates, NEW c \in 0..20
  PROVE  /\ Transition(<<s, c>>) \in ScanStates
         /\ Transition(<<s, c>>) = EndOfBufState <=> c = 0 /\ s # EndOfBufState
<1> DEFINE p == <<s, c>>
           d == Default(p)
           e == Default(d)
<1> USE DEF ScanStates
<1>p. p[1] = s /\ p[2] = c
  OBVIOUS
<1>0. \A r, x : Slot(<<r, x>>) = At(yy_base, r) + x
                 /\ (Owned(<<r, x>>) <=> At(yy_chk, Slot(<<r, x>>)) = r)
  BY DEF Slot, Owned
<1>1. \A x \in 0..20 : LET q == <<JamState, x>>
                     IN  Owned(q) /\ Slot(q) \in 1..99 /\ (Slot(q) = 79 <=> x = 0)
  BY <1>0, Bases, Checks DEF JamBase, JamState
<1>2. \A x \in 0..20, r \in (1..57) \ {JamState} :
        LET q == <<r, x>> IN Owned(q) => Slot(q) \in 1..99 /\ Slot(q) # 79
  <2> SUFFICES ASSUME NEW x \in 0..20, NEW r \in 1..57, r # JamState, Owned(<<r, x>>)
               PROVE  Slot(<<r, x>>) \in 1..99 /\ Slot(<<r, x>>) # 79
    OBVIOUS
  <2>1. At(yy_base, r) \in 0..79
    BY Bases
  <2>2. Slot(<<r, x>>) = At(yy_base, r) + x /\ At(yy_chk, Slot(<<r, x>>)) = r
    BY <1>0
  <2>3. Slot(<<r, x>>) \in 0..99
    BY <2>1, <2>2
  <2>4. /\ At(yy_chk, Slot(<<r, x>>)) = JamState <=> Slot(<<r, x>>) >= 79
        /\ At(yy_chk, Slot(<<r, x>>)) = 0 <=> Slot(<<r, x>>) = 0
    BY <2>3, Checks
  <2> QED BY <2>2, <2>3, <2>4 DEF JamState
<1>3. CASE Owned(p)
  <2>1. Transition(p) = At(yy_nxt, Slot(p))
    BY <1>3 DEF Transition
  <2>2. CASE s = JamState
    <3>1. Slot(p) \in 1..99 /\ (Slot(p) = 79 <=> c = 0)
      BY <1>1, <2>2
    <3> QED BY <2>1, <2>2, <3>1, Nexts DEF JamState, EndOfBufState
  <2>3. CASE s # JamState
    <3>1. Slot(p) \in 1..99 /\ Slot(p) # 79
      BY <1>2, <1>3, <2>3
    <3>2. c = 0 => s = EndOfBufState
      BY SMTT(30), <1>3, <1>p, <2>3, OwnNuls, Bases DEF Owned, Slot
    <3> QED BY <2>1, <3>1, <3>2, Nexts
  <2> QED BY <2>2, <2>3
<1>4. CASE ~Owned(p)
  <2>1. s \in 1..54
    BY <1>4, <1>1 DEF JamState
  <2>2. ~(c = 0 /\ s = EndOfBufState)
    BY <1>4, <1>p, OwnNuls, Bases DEF Owned, Slot, EndOfBufState
  <2>3. \E x \in 0..20 : d = <<At(yy_def, s), x>> /\ (x = 0 <=> c = 0)
    BY <1>p, Metas DEF Default
  <2>4. PICK x \in 0..20 : d = <<At(yy_def, s), x>> /\ (x = 0 <=> c = 0)
    BY <2>3
  <2>d. d[1] = At(yy_def, s) /\ d[2] = x
    BY <2>4
  <2>5. CASE At(yy_def, s) = JamState
    <3>1. Owned(d) /\ Slot(d) \in 1..99 /\ (Slot(d) = 79 <=> c = 0)
      BY <1>1, <2>4, <2>5
    <3>2. Transition(p) = At(yy_nxt, Slot(d))
      BY <1>4, <3>1 DEF Transition
    <3> QED BY <2>2, <3>1, <3>2, Nexts
  <2>6. CASE At(yy_def, s) # JamState
    <3>1. /\ At(yy_def, s) \in (1..57) \ {EndOfBufState, JamState}
          /\ At(yy_def, At(yy_def, s)) = JamState
      BY <2>1, <2>6, Defaults
    <3>2. CASE Owned(d)
      <4>1. Slot(d) \in 1..99 /\ Slot(d) # 79
        BY <1>2, <2>4, <2>6, <3>1, <3>2
      <4>2. c # 0
        BY SMTT(30), <3>1, <3>2, <2>4, <2>d, OwnNuls, Bases DEF Owned, Slot
      <4>3. Transition(p) = At(yy_nxt, Slot(d))
        BY <1>4, <3>2 DEF Transition
      <4> QED BY <4>1, <4>2, <4>3, Nexts
    <3>3. CASE ~Owned(d)
      <4>1. \E y \in 0..20 : e = <<JamState, y>> /\ (y = 0 <=> c = 0)
        BY <2>4, <2>d, <3>1, Metas DEF Default, JamState
      <4>2. PICK y \in 0..20 : e = <<JamState, y>> /\ (y = 0 <=> c = 0)
        BY <4>1
      <4>3. Slot(e) \in 1..99 /\ (Slot(e) = 79 <=> c = 0)
        BY <1>1, <4>2
      <4>4. Transition(p) = At(yy_nxt, Slot(e))
        BY <1>4, <3>3 DEF Transition
      <4> QED BY <2>2, <4>3, <4>4, Nexts
    <3> QED BY <3>2, <3>3
  <2> QED BY <2>5, <2>6
<1> QED BY <1>3, <1>4

(* The same for a byte instead of a class.                                  *)
LEMMA Gotos ==
  ASSUME NEW s \in ScanStates, NEW b \in Bytes
  PROVE  /\ Goto(s, b) \in ScanStates
         /\ Goto(s, b) = EndOfBufState <=> b = 0 /\ s # EndOfBufState
BY Transitions, Classes DEF Goto

(* The state that ends the buffer has no way on, and every byte is the      *)
(* start of a token.                                                       *)
LEMMA EndStops == Goto(EndOfBufState, 0) = JamState
<1>1. Transition(<<3, 0>>) = JamState
  BY SMTT(30) DEF Transition, Slot, Owned, Default, At, yy_base, yy_chk, yy_def,
         yy_nxt, yy_meta, JamState
<1>2. At(yy_ec, 0) = 0
  BY Classes DEF Bytes
<1> QED BY <1>1, <1>2 DEF Goto, EndOfBufState

LEMMA StartAccepts == \A b \in Bytes : Accepts(Goto(StartState, b))
<1>1. ASSUME NEW c \in 1..20
      PROVE  Accepts(Transition(<<1, c>>))
  <2>1. Transition(<<1, c>>) = At(yy_nxt, c)
    BY DEF Transition, Slot, Owned, At, yy_base, yy_chk
  <2>2. At(yy_accept, At(yy_nxt, c)) # 0
    BY DEF At, yy_nxt, yy_accept
  <2> QED BY <2>1, <2>2 DEF Accepts
<1>2. ASSUME NEW b \in Bytes
      PROVE  Accepts(Goto(StartState, b))
  <2>1. CASE b = 0
    <3>1. Goto(StartState, b) = EndOfBufState
      BY <2>1, Gotos DEF StartState, EndOfBufState, ScanStates
    <3> QED BY <3>1 DEF Accepts, yy_accept, At, EndOfBufState
  <2>2. CASE b # 0
    BY <1>1, <2>2, Classes DEF Goto, StartState
  <2> QED BY <2>1, <2>2
<1> QED BY <1>2

(* What stops the match loop is the jam state.                             *)
LEMMA JamDoesNotAccept == ~Accepts(JamState) /\ Jammed(JamState) /\ ~Jammed(EndOfBufState)
  /\ Accepts(EndOfBufState)
BY Bases DEF Accepts, Jammed, JamState, EndOfBufState, yy_accept, At

(***************************************************************************)
(* The inductive invariant                                                 *)
(***************************************************************************)
N    == Len(fmt)
Whole == fmt \o <<0, 0>>

(* The buffer with the byte at c_buf_p held back.                          *)
Held ==
  /\ ch_buf \in Seq(Bytes) /\ Len(ch_buf) = N + 2 /\ hold_char \in Bytes
  /\ [ch_buf EXCEPT ![c_buf_p] = hold_char] = Whole

(* A state and a place are at the end of the buffer together.              *)
EndsTogether(state, place_) == state = EndOfBufState <=> place_ = N + 2

(* An accepting state has been passed in this match.                       *)
Remembered ==
  /\ last_state \in ScanStates /\ Accepts(last_state)
  /\ last_cpos \in (text_ptr + 1)..(N + 2)
  /\ EndsTogether(last_state, last_cpos)

Matching ==
  /\ ch_buf = Whole
  /\ text_ptr \in 1..(N + 1) /\ cp \in text_ptr..(N + 2)
  /\ cur \in ScanStates
  /\ EndsTogether(cur, cp)
  /\ cp = text_ptr => cur = StartState
  /\ cp = text_ptr + 1 => Accepts(cur)
  /\ cp > text_ptr + 1 => Remembered

Found ==
  /\ ch_buf = Whole
  /\ text_ptr \in 1..(N + 1)
  /\ IF Accepts(cur)
     THEN cur \in ScanStates /\ cp \in (text_ptr + 1)..(N + 2) /\ EndsTogether(cur, cp)
     ELSE Remembered

Acting ==
  /\ Held
  /\ text_ptr \in 1..(N + 1) /\ cp \in (text_ptr + 1)..(N + 2) /\ c_buf_p = cp
  /\ cur \in ScanStates /\ Accepts(cur)
  /\ EndsTogether(cur, cp)

SInv ==
  /\ fmt \in Formats
  /\ at \in {"ready", "match", "find", "act", "again"} => n_chars = N
  /\ at = "ready" => Held /\ c_buf_p \in 1..(N + 1)
  /\ at = "match" => Matching
  /\ at = "again" => Matching /\ c_buf_p = N + 1 /\ cp <= N + 1 /\ text_ptr <= N
  /\ at = "find" => Found
  /\ at = "act" => Acting

(***************************************************************************)
(* The buffer                                                              *)
(***************************************************************************)
(* The whole buffer: no NUL in the format, two behind it.                   *)
LEMMA FullBuffer ==
  ASSUME fmt \in Formats
  PROVE  /\ N \in Nat
         /\ Whole \in Seq(Bytes) /\ Len(Whole) = N + 2
         /\ \A n \in 1..(N + 2) : Whole[n] \in Bytes /\ (Whole[n] = 0 <=> n > N)
<1>1. fmt \in Seq(1..255)
  BY FormatsAreStrings
<1>2. fmt \in Seq(Bytes)
  BY <1>1, SeqMonotonic DEF Bytes
<1>3. <<0, 0>> \in Seq(Bytes) /\ Len(<<0, 0>>) = 2
  BY DEF Bytes
<1>4. N \in Nat
  BY <1>1, LenProperties DEF N
<1>5. /\ Whole \in Seq(Bytes) /\ Len(Whole) = N + 2
      /\ \A n \in 1..(N + 2) : Whole[n] = IF n <= N THEN fmt[n] ELSE <<0, 0>>[n - N]
  BY <1>2, <1>3, ConcatProperties DEF Whole, N
<1>6. ASSUME NEW n \in 1..(N + 2)
      PROVE  Whole[n] \in Bytes /\ (Whole[n] = 0 <=> n > N)
  <2>1. CASE n <= N
    <3>1. fmt[n] \in 1..255
      BY <1>1, <1>4, <2>1, ElementOfSeq DEF N
    <3>2. Whole[n] = fmt[n]
      BY <1>5, <2>1
    <3> QED BY <1>4, <2>1, <3>1, <3>2 DEF Bytes
  <2>2. CASE n = N + 1
    BY <1>4, <1>5, <2>2 DEF Bytes
  <2>3. CASE n = N + 2
    BY <1>4, <1>5, <2>3 DEF Bytes
  <2> QED BY <1>4, <2>1, <2>2, <2>3
<1> QED BY <1>4, <1>5, <1>6

(* To overwrite a byte, and to put back what was there.                    *)
LEMMA PutBack ==
  ASSUME NEW buf \in Seq(Bytes), NEW p \in 1..Len(buf), NEW b \in Bytes
  PROVE  /\ [buf EXCEPT ![p] = b] \in Seq(Bytes)
         /\ Len([buf EXCEPT ![p] = b]) = Len(buf)
         /\ [[buf EXCEPT ![p] = b] EXCEPT ![p] = buf[p]] = buf
<1> DEFINE put == [buf EXCEPT ![p] = b]
           back == [put EXCEPT ![p] = buf[p]]
<1>1. /\ put \in Seq(Bytes) /\ Len(put) = Len(buf)
      /\ \A n \in 1..Len(buf) : put[n] = IF n = p THEN b ELSE buf[n]
  BY ExceptSeq
<1>2. buf[p] \in Bytes
  BY ElementOfSeq
<1> HIDE DEF put
<1>3. /\ back \in Seq(Bytes) /\ Len(back) = Len(buf)
      /\ \A n \in 1..Len(buf) : back[n] = IF n = p THEN buf[p] ELSE put[n]
  BY <1>1, <1>2, ExceptSeq
<1>4. \A n \in 1..Len(buf) : back[n] = buf[n]
  BY <1>1, <1>3
<1> HIDE DEF back
<1>5. back = buf
  BY <1>3, <1>4, SeqEqual
<1> QED BY <1>1, <1>5 DEF put, back

(***************************************************************************)
(* The steps                                                               *)
(***************************************************************************)
(* The first state.                                                        *)
LEMMA InitInv == SInit => SInv
BY DEF SInit, SInv

(* Setting up: the buffer is whole and its first byte is held.              *)
LEMMA LoadKeeps == ASSUME SInv, ScanString PROVE SInv'
<1>1. fmt \in Formats /\ fmt' = fmt /\ N' = N /\ Whole' = Whole
  BY DEF SInv, ScanString, EndBytes, N, Whole
<1>2. /\ N \in Nat /\ Whole \in Seq(Bytes) /\ Len(Whole) = N + 2
      /\ 1 \in 1..Len(Whole) /\ Whole[1] \in Bytes
  BY <1>1, FullBuffer
<1>3. ch_buf' = Whole /\ c_buf_p' = 1 /\ hold_char' = Whole[1] /\ n_chars' = N
  BY DEF ScanString, EndBytes, Whole, N
<1>4. [Whole EXCEPT ![1] = Whole[1]] = Whole
  BY <1>2
<1>5. Held'
  BY <1>1, <1>2, <1>3, <1>4 DEF Held
<1> QED BY <1>1, <1>2, <1>3, <1>5 DEF SInv, ScanString

(* A call puts the held byte back and starts to match in a whole buffer.    *)
LEMMA CallKeeps == ASSUME SInv, CallLex PROVE SInv'
<1>1. fmt \in Formats /\ fmt' = fmt /\ N' = N /\ Whole' = Whole
  BY DEF SInv, CallLex, HeldPutBack, N, Whole
<1>2. Held /\ c_buf_p \in 1..(N + 1) /\ n_chars = N
  BY DEF SInv, CallLex
<1>3. ch_buf' = Whole /\ text_ptr' = c_buf_p /\ cp' = c_buf_p /\ cur' = StartState
  BY <1>2 DEF CallLex, HeldPutBack, Held
<1>4. N \in Nat
  BY <1>1, FullBuffer
<1>5. Matching'
  BY <1>1, <1>2, <1>3, <1>4
     DEF Matching, EndsTogether, StartState, EndOfBufState, ScanStates
<1> QED BY <1>1, <1>2, <1>5 DEF SInv, CallLex

(* One byte of a match, the first time or again.                           *)
OneByte ==
  /\ last_state' = IF Accepts(cur) THEN cur ELSE last_state
  /\ last_cpos'  = IF Accepts(cur) THEN cp ELSE last_cpos
  /\ cur' = Goto(cur, ch_buf[cp])
  /\ cp' = cp + 1
  /\ UNCHANGED <<fmt, ch_buf, text_ptr>>

(* One more byte: the loop ends at the latest behind the second end byte,   *)
(* and by then it has been in an accepting state.                          *)
LEMMA MatchingGoesOn ==
  ASSUME fmt \in Formats, Matching, OneByte
  PROVE  /\ cp <= N + 1 => Matching'
         /\ cp = N + 2 => cur' = JamState /\ Remembered'
<1>1. /\ N \in Nat /\ N' = N /\ Whole' = Whole
      /\ \A n \in 1..(N + 2) : Whole[n] \in Bytes /\ (Whole[n] = 0 <=> n > N)
  BY FullBuffer DEF OneByte, N, Whole
<1>2. /\ text_ptr' = text_ptr /\ ch_buf' = ch_buf /\ ch_buf = Whole
      /\ text_ptr \in 1..(N + 1) /\ cp \in text_ptr..(N + 2)
      /\ cur \in ScanStates /\ (cur = EndOfBufState <=> cp = N + 2)
  BY DEF Matching, OneByte, EndsTogether
<1>3. cp > text_ptr => Remembered'
  <2>1. CASE Accepts(cur)
    BY <1>1, <1>2, <2>1 DEF Remembered, OneByte, EndsTogether
  <2>2. CASE ~Accepts(cur) /\ cp > text_ptr
    <3>1. Remembered
      BY <1>1, <1>2, <2>2 DEF Matching
    <3>2. last_state' = last_state /\ last_cpos' = last_cpos
      BY <2>2 DEF OneByte
    <3> QED BY <1>1, <1>2, <3>1, <3>2 DEF Remembered, EndsTogether
  <2> QED BY <2>1, <2>2
<1>4. ASSUME cp <= N + 1
      PROVE  Matching'
  <2>1. Whole[cp] \in Bytes /\ (Whole[cp] = 0 <=> cp = N + 1)
    BY <1>1, <1>2, <1>4
  <2>2. cur' \in ScanStates /\ (cur' = EndOfBufState <=> cp = N + 1)
    BY <1>1, <1>2, <1>4, <2>1, Gotos DEF OneByte
  <2>3. cp = text_ptr => Accepts(cur')
    BY <1>2, <2>1, StartAccepts DEF Matching, OneByte
  <2>4. cp' = cp + 1
    BY DEF OneByte
  <2> QED BY <1>1, <1>2, <1>3, <1>4, <2>2, <2>3, <2>4 DEF Matching, EndsTogether
<1>5. ASSUME cp = N + 2
      PROVE  cur' = JamState /\ Remembered'
  <2>1. Whole[cp] = 0 /\ cur = EndOfBufState
    BY <1>1, <1>2, <1>5
  <2> QED BY <1>1, <1>2, <1>3, <1>5, <2>1, EndStops DEF OneByte
<1> QED BY <1>4, <1>5

(* The first match.                                                        *)
LEMMA MatchKeeps == ASSUME SInv, Match PROVE SInv'
<1>1. fmt \in Formats /\ Matching /\ OneByte /\ N' = N /\ Whole' = Whole /\ n_chars' = N
  BY DEF SInv, Match, OneByte, N, Whole, buffer, place
<1>2. /\ cp <= N + 1 => Matching'
      /\ cp = N + 2 => cur' = JamState /\ Remembered'
  BY <1>1, MatchingGoesOn
<1>3. N \in Nat /\ cp \in text_ptr..(N + 2) /\ text_ptr \in 1..(N + 1)
  BY <1>1, FullBuffer DEF Matching
<1>4. CASE ~Jammed(cur')
  <2>1. cp <= N + 1
    BY <1>2, <1>3, <1>4, JamDoesNotAccept
  <2> QED BY <1>1, <1>2, <1>4, <2>1 DEF SInv, Match
<1>5. CASE Jammed(cur')
  <2>1. CASE cp <= N + 1
    <3>1. Matching' /\ cp' = cp + 1 /\ text_ptr' = text_ptr
      BY <1>1, <1>2, <2>1 DEF OneByte
    <3>2. ~Accepts(cur') => Remembered'
      BY <1>1, <1>3, <3>1 DEF Matching
    <3>3. Found'
      BY <1>1, <1>3, <3>1, <3>2 DEF Found, Matching
    <3> QED BY <1>1, <1>5, <3>3 DEF SInv, Match
  <2>2. CASE cp = N + 2
    <3>1. ~Accepts(cur')
      BY <1>2, <2>2, JamDoesNotAccept
    <3>2. Found'
      BY <1>1, <1>2, <2>2, <3>1 DEF Found, OneByte, Matching
    <3> QED BY <1>1, <1>5, <3>2 DEF SInv, Match
  <2> QED BY <1>3, <2>1, <2>2
<1> QED BY <1>4, <1>5

(* The second match, over the text before the end of the buffer.            *)
LEMMA AgainKeeps == ASSUME SInv, MatchAgain PROVE SInv'
<1>1. /\ fmt \in Formats /\ Matching /\ OneByte /\ N' = N /\ Whole' = Whole /\ n_chars' = N
      /\ c_buf_p' = c_buf_p /\ c_buf_p = N + 1 /\ text_ptr' = text_ptr /\ text_ptr <= N
      /\ cp < c_buf_p /\ cp' = cp + 1 /\ at' = "again" /\ fmt' = fmt
  BY DEF SInv, MatchAgain, OneByte, N, Whole, buffer, place
<1>2. N \in Nat /\ cp \in Nat
  BY <1>1, FullBuffer DEF Matching
<1>3. Matching'
  BY <1>1, <1>2, MatchingGoesOn
<1> QED BY <1>1, <1>2, <1>3 DEF SInv

(* Its end: the text is not empty, so some byte of it was accepted.         *)
LEMMA MatchedKeeps == ASSUME SInv, MatchedAgain PROVE SInv'
<1>1. /\ fmt \in Formats /\ Matching /\ N' = N /\ Whole' = Whole /\ n_chars' = N
      /\ text_ptr <= N /\ cp = N + 1 /\ at' = "find" /\ fmt' = fmt
      /\ UNCHANGED <<ch_buf, text_ptr, cp, cur, last_state, last_cpos>>
  BY DEF SInv, MatchedAgain, N, Whole, buffer, place, match
<1>2. N \in Nat
  BY <1>1, FullBuffer
<1>3. ~Accepts(cur) => Remembered
  BY <1>1, <1>2 DEF Matching
<1>4. Found
  BY <1>1, <1>2, <1>3 DEF Found, Matching
<1>5. Found'
  BY <1>1, <1>4 DEF Found, Remembered, EndsTogether
<1> QED BY <1>1, <1>5 DEF SInv

(* The token ends inside the buffer, and the byte behind it is held.        *)
LEMMA FindKeeps == ASSUME SInv, FindAction PROVE SInv'
<1>1. /\ fmt \in Formats /\ Found /\ N' = N /\ Whole' = Whole /\ n_chars' = N
      /\ fmt' = fmt /\ text_ptr' = text_ptr /\ at' = "act" /\ c_buf_p' = cp'
      /\ cur' = (IF Accepts(cur) THEN cur ELSE last_state)
      /\ cp' = (IF Accepts(cur) THEN cp ELSE last_cpos)
      /\ hold_char' = ch_buf[cp'] /\ ch_buf' = [ch_buf EXCEPT ![cp'] = 0]
  BY DEF SInv, FindAction, N, Whole
<1>2. /\ N \in Nat /\ Whole \in Seq(Bytes) /\ Len(Whole) = N + 2
      /\ \A n \in 1..(N + 2) : Whole[n] \in Bytes
  BY <1>1, FullBuffer
<1>3. /\ cur' \in ScanStates /\ Accepts(cur')
      /\ cp' \in (text_ptr + 1)..(N + 2) /\ text_ptr \in 1..(N + 1)
      /\ cur' = EndOfBufState <=> cp' = N + 2
  BY <1>1 DEF Found, Remembered, EndsTogether
<1>4. cp' \in 1..Len(Whole) /\ ch_buf = Whole /\ 0 \in Bytes
  <2>1. cp' \in 1..(N + 2)
    BY <1>2, <1>3
  <2>2. ch_buf = Whole
    BY <1>1 DEF Found
  <2> QED BY <1>2, <2>1, <2>2 DEF Bytes
<1>5. /\ ch_buf' \in Seq(Bytes) /\ Len(ch_buf') = N + 2 /\ hold_char' \in Bytes
      /\ [ch_buf' EXCEPT ![cp'] = hold_char'] = Whole
  BY <1>1, <1>2, <1>4, PutBack
<1>6. Held'
  BY <1>1, <1>5 DEF Held
<1>7. Acting'
  BY <1>1, <1>3, <1>6 DEF Acting, EndsTogether
<1> QED BY <1>1, <1>7 DEF SInv

(* The buffer stays as it is when a token is returned.                     *)
LEMMA TokenKeeps ==
  ASSUME SInv, ReturnSyllable \/ ReturnOperator \/ ReturnByte PROVE SInv'
<1>1. /\ fmt \in Formats /\ Acting /\ Rule \in 1..23 /\ at' = "ready"
      /\ fmt' = fmt /\ UNCHANGED <<ch_buf, n_chars, c_buf_p, hold_char>>
      /\ N' = N /\ Whole' = Whole /\ n_chars = N
  BY DEF SInv, ReturnSyllable, ReturnOperator, ReturnByte, N, Whole, buffer, place
<1>2. N \in Nat
  BY <1>1, FullBuffer
<1>3. cp # N + 2
  BY <1>1, Actions DEF Acting, EndsTogether, Rule, END_OF_BUFFER
<1>4. Held' /\ c_buf_p' \in 1..(N + 1)
  BY <1>1, <1>2, <1>3 DEF Acting, Held
<1> QED BY <1>1, <1>4 DEF SInv

(* At the end of the buffer the token ends with the first end byte.         *)
LEMMA AtTheEnd ==
  ASSUME SInv, at = "act", Rule = END_OF_BUFFER
  PROVE  /\ fmt \in Formats /\ N \in Nat /\ n_chars = N
         /\ text_ptr \in 1..(N + 1) /\ c_buf_p = N + 2
         /\ Restored = Whole /\ hold_char = 0
         /\ Whole[N + 1] = 0 /\ Whole \in Seq(Bytes) /\ Len(Whole) = N + 2
<1>1. fmt \in Formats /\ Acting /\ n_chars = N
  BY DEF SInv
<1>2. /\ N \in Nat /\ Whole \in Seq(Bytes) /\ Len(Whole) = N + 2
      /\ Whole[N + 1] = 0 /\ Whole[N + 2] = 0
  BY <1>1, FullBuffer
<1>3. cp = N + 2 /\ c_buf_p = cp
  BY <1>1, Actions DEF Acting, EndsTogether, Rule
<1>4. Restored = Whole
  BY <1>1, <1>3 DEF Restored, Acting, Held
<1>5. Restored[cp] = hold_char
  BY <1>1, <1>2, <1>3, ExceptSeq DEF Restored, Acting, Held
<1> QED BY <1>1, <1>2, <1>3, <1>4, <1>5 DEF Acting

(* Text before the end: put back, to be matched again.                      *)
LEMMA LastKeeps == ASSUME SInv, LastMatch PROVE SInv'
<1>1. /\ fmt \in Formats /\ N \in Nat /\ n_chars = N
      /\ text_ptr \in 1..(N + 1) /\ c_buf_p = N + 2 /\ Restored = Whole
  BY AtTheEnd DEF LastMatch
<1>2. /\ fmt' = fmt /\ N' = N /\ Whole' = Whole /\ n_chars' = N /\ text_ptr' = text_ptr
      /\ ch_buf' = Whole /\ c_buf_p' = N + 1 /\ cp' = text_ptr /\ cur' = StartState
      /\ text_ptr <= N /\ at' = "again"
  BY <1>1 DEF LastMatch, TextEnd, N, Whole
<1>3. Matching'
  BY <1>1, <1>2 DEF Matching, EndsTogether, StartState, EndOfBufState, ScanStates
<1> QED BY <1>1, <1>2, <1>3 DEF SInv

(* The end of the input: the next call finds the same end again.            *)
LEMMA EofKeeps == ASSUME SInv, EndOfFile PROVE SInv'
<1>1. /\ fmt \in Formats /\ N \in Nat /\ n_chars = N /\ c_buf_p = N + 2
      /\ text_ptr \in 1..(N + 1) /\ Restored = Whole /\ hold_char = 0
      /\ Whole[N + 1] = 0 /\ Whole \in Seq(Bytes) /\ Len(Whole) = N + 2
  BY AtTheEnd DEF EndOfFile
<1>2. /\ fmt' = fmt /\ N' = N /\ Whole' = Whole /\ n_chars' = N /\ hold_char' = 0
      /\ ch_buf' = Whole /\ c_buf_p' = N + 1 /\ at' = "ready"
  BY <1>1 DEF EndOfFile, N, Whole
<1>3. [Whole EXCEPT ![N + 1] = 0] = Whole
  BY <1>1
<1>4. Held'
  BY <1>1, <1>2, <1>3 DEF Held, Bytes
<1> QED BY <1>1, <1>2, <1>4 DEF SInv

(* Every step.                                                             *)
LEMMA NextKeeps == SInv /\ [SNext]_svars => SInv'
<1> SUFFICES ASSUME SInv, [SNext]_svars
             PROVE  SInv'
  OBVIOUS
<1>1. CASE LexInit \/ LexInitFails \/ ScanStringFails \/ DeleteBuffer \/ LexDestroy
  BY <1>1 DEF SInv, LexInit, LexInitFails, ScanStringFails, DeleteBuffer, LexDestroy
<1>2. CASE UNCHANGED svars
  BY <1>2 DEF SInv, Held, Matching, Found, Acting, Remembered, EndsTogether, N, Whole,
              svars, memory, buffer, place, match, results
<1> QED
  BY <1>1, <1>2, LoadKeeps, CallKeeps, MatchKeeps, AgainKeeps, MatchedKeeps, FindKeeps,
     TokenKeeps, LastKeeps, EofKeeps DEF SNext, Lex, Return

(* The invariant that the properties of the scanner follow from: while it  *)
(* matches the buffer is whole, while a token is handled one byte of it is  *)
(* held, and a place where it can back up to is inside.                    *)
THEOREM ScannerInvariant == SSpec => []SInv
BY InitInv, NextKeeps, PTL DEF SSpec

(* No byte outside of the buffer is read or written, whatever the format.   *)
THEOREM BufferIsNotLeft == SSpec => []StaysInBuffer
<1>1. SInv => StaysInBuffer
  <2> SUFFICES ASSUME SInv
               PROVE  StaysInBuffer
    OBVIOUS
  <2>1. N \in Nat /\ Len(Whole) = N + 2
    BY FullBuffer DEF SInv
  <2>2. at \in {"match", "again"} => cp \in 1..Len(ch_buf)
    BY <2>1 DEF SInv, Matching
  <2>3. at = "find" => (IF Accepts(cur) THEN cp ELSE last_cpos) \in 1..Len(ch_buf)
    BY <2>1 DEF SInv, Found, Remembered
  <2>4. at = "ready" => c_buf_p \in 1..Len(ch_buf)
    BY <2>1 DEF SInv, Held
  <2> QED BY <2>2, <2>3, <2>4 DEF StaysInBuffer
<1> QED BY <1>1, ScannerInvariant, PTL

(* Ending tokens with NULs loses no byte of the format.                    *)
THEOREM FormatIsKept == SSpec => []BufferKept
<1>1. SInv => BufferKept
  BY DEF SInv, BufferKept, Held, Whole
<1> QED BY <1>1, ScannerInvariant, PTL

(***************************************************************************)
(* The memory of the scanner                                               *)
(***************************************************************************)
Loaded == {"ready", "match", "find", "act", "again"}

HeapInv ==
  /\ heap \in [Blocks -> {0, 1}]
  /\ at \in {"start", "failed", "done"} => \A b \in Blocks : heap[b] = 0
  /\ at = "inited" => \A b \in Blocks : heap[b] = IF b = "guts" THEN 1 ELSE 0
  /\ at \in Loaded => \A b \in Blocks : heap[b] = 1
  /\ at = "deleted" => ~current /\ \A b \in Blocks :
                          heap[b] = IF b \in {"guts", "stack"} THEN 1 ELSE 0

(* Two functions free the current buffer, and yet each block is freed once. *)
THEOREM BlocksAreFreedOnce == SSpec => []FreedOnce
<1>1. SInit => HeapInv
  BY DEF SInit, ScannerIdle, HeapInv, Blocks, Loaded
<1>2. HeapInv /\ [SNext]_svars => HeapInv'
  <2> SUFFICES ASSUME HeapInv, [SNext]_svars
               PROVE  HeapInv'
    OBVIOUS
  <2> USE DEF HeapInv, Blocks, Loaded, memory
  <2>1. CASE LexInit \/ LexInitFails
    BY <2>1 DEF LexInit, LexInitFails, Allocate
  <2>2. CASE ScanString
    BY <2>2 DEF ScanString
  <2>3. CASE ScanStringFails
    BY <2>3 DEF ScanStringFails
  <2>4. CASE DeleteBuffer
    BY <2>4 DEF DeleteBuffer, Free
  <2>5. CASE LexDestroy
    BY <2>5 DEF LexDestroy, Free
  <2>6. CASE CallLex \/ Lex
    BY <2>6 DEF CallLex, Lex, Match, FindAction, LastMatch, MatchAgain, MatchedAgain,
                Return, ReturnSyllable, ReturnOperator, ReturnByte, EndOfFile
  <2>7. CASE UNCHANGED svars
    BY <2>7 DEF svars
  <2> QED BY <2>1, <2>2, <2>3, <2>4, <2>5, <2>6, <2>7 DEF SNext
<1>3. HeapInv => FreedOnce
  BY DEF HeapInv, FreedOnce, Blocks
<1> QED BY <1>1, <1>2, <1>3, PTL DEF SSpec

(***************************************************************************)
(* The automaton: where each byte leads                                    *)
(***************************************************************************)
WordClasses == {8, 9, 10, 17, 18, 19}
(* The states that the text of a token can lead to.                        *)
KnownStates == {StartState} \cup (4..JamState)

(* The compressed tables, unpacked: the state behind state s and class c.  *)
Arrow(s, c) ==
  CASE s = 1 ->
         (CASE c \in {1, 3, 4, 16} -> 4 [] c = 2 -> 5 [] c = 5 -> 6
              [] c = 6 -> 7 [] c \in {7, 14} -> 8
              [] c \in {8, 9, 17, 18, 19} -> 9 [] c = 10 -> 10
              [] c = 11 -> 11 [] c = 12 -> 12 [] c = 13 -> 13
              [] c = 15 -> 14 [] c = 20 -> 15 [] OTHER -> JamState)
    [] s \in {5, 16} ->
         (CASE c = 2 -> 16 [] c = 6 -> 17 [] c = 10 -> 18
              [] c = 11 -> 19 [] c = 12 -> 20 [] c = 13 -> 21
              [] c = 20 -> 22 [] OTHER -> JamState)
    [] s = 6 ->
         (CASE c = 4 -> 23 [] c = 7 -> 24 [] c = 17 -> 25
              [] c = 18 -> 26 [] c = 19 -> 27 [] OTHER -> JamState)
    [] s \in {7, 17} ->
         (CASE c = 6 -> 28 [] c = 13 -> 29 [] OTHER -> JamState)
    [] s \in {9, 30} -> (IF c \in WordClasses THEN 30 ELSE JamState)
    [] s = 10 ->
         (CASE c \in WordClasses -> 30 [] c = 13 -> 31
              [] OTHER -> JamState)
    [] s \in {11, 19} -> (IF c = 2 THEN 32 ELSE JamState)
    [] s \in {12, 20} -> (IF c = 2 THEN 33 ELSE JamState)
    [] s \in {13, 21} ->
         (CASE c = 2 -> 34 [] c = 6 -> 35 [] c = 13 -> 36
              [] OTHER -> JamState)
    [] s = 14 -> (IF c \in WordClasses THEN 37 ELSE JamState)
    [] s \in {15, 22} ->
         (CASE c = 2 -> 38 [] c = 20 -> 39 [] OTHER -> JamState)
    [] s = 18 -> (IF c = 13 THEN 31 ELSE JamState)
    [] s = 23 -> (IF c = 18 THEN 40 ELSE JamState)
    [] s = 24 -> (IF c = 18 THEN 41 ELSE JamState)
    [] s = 28 -> (IF c = 2 THEN 42 ELSE JamState)
    [] s = 29 ->
         (CASE c = 2 -> 43 [] c = 13 -> 44 [] OTHER -> JamState)
    [] s = 31 ->
         (CASE c = 2 -> 45 [] c = 6 -> 46 [] c = 13 -> 47
              [] OTHER -> JamState)
    [] s = 35 -> (IF c = 10 THEN 48 ELSE JamState)
    [] s = 36 -> (IF c = 2 THEN 49 ELSE JamState)
    [] s = 37 ->
         (CASE c \in WordClasses -> 37 [] c = 16 -> 50
              [] OTHER -> JamState)
    [] s = 39 -> (IF c = 2 THEN 51 ELSE JamState)
    [] s = 44 -> (IF c = 2 THEN 52 ELSE JamState)
    [] s = 46 -> (IF c = 9 THEN 53 ELSE JamState)
    [] s = 47 -> (IF c = 2 THEN 54 ELSE JamState)
    [] s \in {32, 33, 34, 38, 42, 43, 45, 49, 51, 52, 54} -> (IF c = 2 THEN s ELSE JamState)
    [] OTHER -> JamState

(* The tables say no more and no less, one state at a time.                *)
LEMMA Arrows ==
  \A s \in KnownStates, c \in 1..20 : Transition(<<s, c>>) = Arrow(s, c)
<1> SUFFICES ASSUME NEW s \in KnownStates, NEW c \in 1..20
             PROVE  Transition(<<s, c>>) = Arrow(s, c)
  OBVIOUS
<1>0. s \in {1, 4, 5, 6, 7, 8, 9, 10, 11, 12, 13, 14, 15, 16, 17, 18, 19, 20, 21, 22,
            23, 24, 25, 26, 27, 28, 29, 30, 31, 32, 33, 34, 35, 36, 37, 38, 39, 40, 41,
            42, 43, 44, 45, 46, 47, 48, 49, 50, 51, 52, 53, 54, 55}
  BY DEF KnownStates, StartState, JamState
<1> USE DEF Transition, Slot, Owned, Default, At, yy_base, yy_chk, yy_def, yy_nxt, yy_meta,
            JamState, Arrow, WordClasses
<1>1. Transition(<<1, c>>) = Arrow(1, c)
  OBVIOUS
<1>4. Transition(<<4, c>>) = Arrow(4, c)
  OBVIOUS
<1>5. Transition(<<5, c>>) = Arrow(5, c)
  OBVIOUS
<1>6. Transition(<<6, c>>) = Arrow(6, c)
  OBVIOUS
<1>7. Transition(<<7, c>>) = Arrow(7, c)
  OBVIOUS
<1>8. Transition(<<8, c>>) = Arrow(8, c)
  OBVIOUS
<1>9. Transition(<<9, c>>) = Arrow(9, c)
  OBVIOUS
<1>10. Transition(<<10, c>>) = Arrow(10, c)
  OBVIOUS
<1>11. Transition(<<11, c>>) = Arrow(11, c)
  OBVIOUS
<1>12. Transition(<<12, c>>) = Arrow(12, c)
  OBVIOUS
<1>13. Transition(<<13, c>>) = Arrow(13, c)
  OBVIOUS
<1>14. Transition(<<14, c>>) = Arrow(14, c)
  OBVIOUS
<1>15. Transition(<<15, c>>) = Arrow(15, c)
  OBVIOUS
<1>16. Transition(<<16, c>>) = Arrow(16, c)
  OBVIOUS
<1>17. Transition(<<17, c>>) = Arrow(17, c)
  OBVIOUS
<1>18. Transition(<<18, c>>) = Arrow(18, c)
  OBVIOUS
<1>19. Transition(<<19, c>>) = Arrow(19, c)
  OBVIOUS
<1>20. Transition(<<20, c>>) = Arrow(20, c)
  OBVIOUS
<1>21. Transition(<<21, c>>) = Arrow(21, c)
  OBVIOUS
<1>22. Transition(<<22, c>>) = Arrow(22, c)
  OBVIOUS
<1>23. Transition(<<23, c>>) = Arrow(23, c)
  OBVIOUS
<1>24. Transition(<<24, c>>) = Arrow(24, c)
  OBVIOUS
<1>25. Transition(<<25, c>>) = Arrow(25, c)
  OBVIOUS
<1>26. Transition(<<26, c>>) = Arrow(26, c)
  OBVIOUS
<1>27. Transition(<<27, c>>) = Arrow(27, c)
  OBVIOUS
<1>28. Transition(<<28, c>>) = Arrow(28, c)
  OBVIOUS
<1>29. Transition(<<29, c>>) = Arrow(29, c)
  OBVIOUS
<1>30. Transition(<<30, c>>) = Arrow(30, c)
  OBVIOUS
<1>31. Transition(<<31, c>>) = Arrow(31, c)
  OBVIOUS
<1>32. Transition(<<32, c>>) = Arrow(32, c)
  OBVIOUS
<1>33. Transition(<<33, c>>) = Arrow(33, c)
  OBVIOUS
<1>34. Transition(<<34, c>>) = Arrow(34, c)
  OBVIOUS
<1>35. Transition(<<35, c>>) = Arrow(35, c)
  OBVIOUS
<1>36. Transition(<<36, c>>) = Arrow(36, c)
  OBVIOUS
<1>37. Transition(<<37, c>>) = Arrow(37, c)
  OBVIOUS
<1>38. Transition(<<38, c>>) = Arrow(38, c)
  OBVIOUS
<1>39. Transition(<<39, c>>) = Arrow(39, c)
  OBVIOUS
<1>40. Transition(<<40, c>>) = Arrow(40, c)
  OBVIOUS
<1>41. Transition(<<41, c>>) = Arrow(41, c)
  OBVIOUS
<1>42. Transition(<<42, c>>) = Arrow(42, c)
  OBVIOUS
<1>43. Transition(<<43, c>>) = Arrow(43, c)
  OBVIOUS
<1>44. Transition(<<44, c>>) = Arrow(44, c)
  OBVIOUS
<1>45. Transition(<<45, c>>) = Arrow(45, c)
  OBVIOUS
<1>46. Transition(<<46, c>>) = Arrow(46, c)
  OBVIOUS
<1>47. Transition(<<47, c>>) = Arrow(47, c)
  OBVIOUS
<1>48. Transition(<<48, c>>) = Arrow(48, c)
  OBVIOUS
<1>49. Transition(<<49, c>>) = Arrow(49, c)
  OBVIOUS
<1>50. Transition(<<50, c>>) = Arrow(50, c)
  OBVIOUS
<1>51. Transition(<<51, c>>) = Arrow(51, c)
  OBVIOUS
<1>52. Transition(<<52, c>>) = Arrow(52, c)
  OBVIOUS
<1>53. Transition(<<53, c>>) = Arrow(53, c)
  OBVIOUS
<1>54. Transition(<<54, c>>) = Arrow(54, c)
  OBVIOUS
<1>55. Transition(<<55, c>>) = Arrow(55, c)
  OBVIOUS
<1> HIDE DEF Transition, Slot, Owned, Default, At, yy_base, yy_chk, yy_def, yy_nxt, yy_meta,
            JamState, Arrow, WordClasses
<1> QED BY SMTT(60), <1>0, <1>1, <1>4, <1>5, <1>6, <1>7, <1>8, <1>9, <1>10, <1>11, <1>12,
           <1>13, <1>14, <1>15, <1>16, <1>17, <1>18, <1>19, <1>20, <1>21, <1>22,
           <1>23, <1>24, <1>25, <1>26, <1>27, <1>28, <1>29, <1>30, <1>31, <1>32,
           <1>33, <1>34, <1>35, <1>36, <1>37, <1>38, <1>39, <1>40, <1>41, <1>42,
           <1>43, <1>44, <1>45, <1>46, <1>47, <1>48, <1>49, <1>50, <1>51, <1>52,
           <1>53, <1>54, <1>55

(* The bytes that a pattern names have classes of their own.               *)
LEMMA ByteClasses ==
  \A b \in 1..255 :
    /\ At(yy_ec, b) \in 1..20
    /\ b \in Blank <=> At(yy_ec, b) = 2
    /\ b \in InWord <=> At(yy_ec, b) \in WordClasses
    /\ (b = 33 <=> At(yy_ec, b) = 4) /\ (b = 37 <=> At(yy_ec, b) = 5)
    /\ (b = 38 <=> At(yy_ec, b) = 6) /\ (b = 42 <=> At(yy_ec, b) = 7)
    /\ (b = 49 <=> At(yy_ec, b) = 9) /\ (b = 50 <=> At(yy_ec, b) = 10)
    /\ (b = 59 <=> At(yy_ec, b) = 11) /\ (b = 60 <=> At(yy_ec, b) = 12)
    /\ (b = 62 <=> At(yy_ec, b) = 13) /\ (b = 63 <=> At(yy_ec, b) = 14)
    /\ (b = 91 <=> At(yy_ec, b) = 15) /\ (b = 93 <=> At(yy_ec, b) = 16)
    /\ (b = 100 <=> At(yy_ec, b) = 17) /\ (b = 112 <=> At(yy_ec, b) = 18)
    /\ (b = 115 <=> At(yy_ec, b) = 19) /\ (b = 124 <=> At(yy_ec, b) = 20)
BY DEF yy_ec, At, Blank, InWord, WordClasses

(* The same read backwards: which states and bytes lead to g.              *)
ArrowsInto(g, s, b) ==
  /\ g # StartState
  /\ g \in {5, 16} <=> s \in {1, 5, 16} /\ b \in Blank
  /\ g \in {9, 10, 30} <=> s \in {1, 9, 10, 30} /\ b \in InWord
  /\ g \in 4..15 <=> s = 1
  /\ g = 14 <=> s = 1 /\ b = 91
  /\ g = 37 <=> s \in {14, 37} /\ b \in InWord
  /\ g = 50 <=> s = 37 /\ b = 93
  /\ g = 8 <=> s = 1 /\ b \in {42, 63}
  /\ g = 6 <=> s = 1 /\ b = 37
  /\ g = 23 <=> s = 6 /\ b = 33
  /\ g = 24 <=> s = 6 /\ b = 42
  /\ g = 25 <=> s = 6 /\ b = 100
  /\ g = 26 <=> s = 6 /\ b = 112
  /\ g = 27 <=> s = 6 /\ b = 115
  /\ g = 40 <=> s = 23 /\ b = 112
  /\ g = 41 <=> s = 24 /\ b = 112
  /\ g \in {10, 18} <=> s \in {1, 5, 16} /\ b = 50
  /\ g \in {7, 17} <=> s \in {1, 5, 16} /\ b = 38
  /\ g \in {12, 20} <=> s \in {1, 5, 16} /\ b = 60
  /\ g \in {13, 21} <=> s \in {1, 5, 16} /\ b = 62
  /\ g \in {11, 19} <=> s \in {1, 5, 16} /\ b = 59
  /\ g \in {15, 22} <=> s \in {1, 5, 16} /\ b = 124
  /\ g = 31 <=> s \in {10, 18} /\ b = 62
  /\ g = 46 <=> s = 31 /\ b = 38
  /\ g = 53 <=> s = 46 /\ b = 49
  /\ g = 29 <=> s \in {7, 17} /\ b = 62
  /\ g = 35 <=> s \in {13, 21} /\ b = 38
  /\ g = 48 <=> s = 35 /\ b = 50
  /\ g = 47 <=> s = 31 /\ b = 62
  /\ g = 44 <=> s = 29 /\ b = 62
  /\ g = 36 <=> s \in {13, 21} /\ b = 62
  /\ g = 28 <=> s \in {7, 17} /\ b = 38
  /\ g = 39 <=> s \in {15, 22} /\ b = 124
  /\ g = 33 <=> s \in {12, 20, 33} /\ b \in Blank
  /\ g = 45 <=> s \in {31, 45} /\ b \in Blank
  /\ g = 43 <=> s \in {29, 43} /\ b \in Blank
  /\ g = 34 <=> s \in {13, 21, 34} /\ b \in Blank
  /\ g = 54 <=> s \in {47, 54} /\ b \in Blank
  /\ g = 52 <=> s \in {44, 52} /\ b \in Blank
  /\ g = 49 <=> s \in {36, 49} /\ b \in Blank
  /\ g = 42 <=> s \in {28, 42} /\ b \in Blank
  /\ g = 38 <=> s \in {15, 22, 38} /\ b \in Blank
  /\ g = 51 <=> s \in {39, 51} /\ b \in Blank
  /\ g = 32 <=> s \in {11, 19, 32} /\ b \in Blank

(* Each state is reached from where ArrowsInto says.                       *)
LEMMA Into ==
  ASSUME NEW s \in KnownStates, NEW b \in 1..255, NEW g, g = Goto(s, b)
  PROVE  g \in KnownStates /\ ArrowsInto(g, s, b)
<1> DEFINE c == At(yy_ec, b)
<1>a. c \in 1..20 /\ g = Transition(<<s, c>>)
  BY ByteClasses DEF Goto
<1>c. /\ (b \in Blank <=> c = 2) /\ (b \in InWord <=> c \in WordClasses)
      /\ (b = 33 <=> c = 4) /\ (b = 37 <=> c = 5) /\ (b = 38 <=> c = 6)
      /\ (b = 42 <=> c = 7) /\ (b = 49 <=> c = 9) /\ (b = 50 <=> c = 10)
      /\ (b = 59 <=> c = 11) /\ (b = 60 <=> c = 12) /\ (b = 62 <=> c = 13)
      /\ (b = 63 <=> c = 14) /\ (b = 91 <=> c = 15) /\ (b = 93 <=> c = 16)
      /\ (b = 100 <=> c = 17) /\ (b = 112 <=> c = 18) /\ (b = 115 <=> c = 19)
      /\ (b = 124 <=> c = 20)
  BY ByteClasses
<1> HIDE DEF c
<1>0. g = Arrow(s, c) /\ c \in 1..20
  BY <1>a, Arrows
<1> USE DEF KnownStates, StartState, JamState, Arrow, WordClasses
<1>1. g \in KnownStates /\ g # StartState
  <2>1. g \in Int
    BY <1>0
  <2>2. g >= 4
    BY <1>0
  <2>3. g <= 55
    BY <1>0
  <2> QED BY <2>1, <2>2, <2>3
<1>2. g \in {5, 16} <=> s \in {1, 5, 16} /\ b \in Blank
  BY <1>0, <1>c
<1>3. g \in {9, 10, 30} <=> s \in {1, 9, 10, 30} /\ b \in InWord
  BY <1>0, <1>c
<1>4. g \in 4..15 <=> s = 1
  BY <1>0, <1>c
<1>5. g = 14 <=> s = 1 /\ b = 91
  BY <1>0, <1>c
<1>6. g = 37 <=> s \in {14, 37} /\ b \in InWord
  BY <1>0, <1>c
<1>7. g = 50 <=> s = 37 /\ b = 93
  BY <1>0, <1>c
<1>8. g = 8 <=> s = 1 /\ b \in {42, 63}
  BY <1>0, <1>c
<1>9. g = 6 <=> s = 1 /\ b = 37
  BY <1>0, <1>c
<1>10. g = 23 <=> s = 6 /\ b = 33
  BY <1>0, <1>c
<1>11. g = 24 <=> s = 6 /\ b = 42
  BY <1>0, <1>c
<1>12. g = 25 <=> s = 6 /\ b = 100
  BY <1>0, <1>c
<1>13. g = 26 <=> s = 6 /\ b = 112
  BY <1>0, <1>c
<1>14. g = 27 <=> s = 6 /\ b = 115
  BY <1>0, <1>c
<1>15. g = 40 <=> s = 23 /\ b = 112
  BY <1>0, <1>c
<1>16. g = 41 <=> s = 24 /\ b = 112
  BY <1>0, <1>c
<1>17. g \in {10, 18} <=> s \in {1, 5, 16} /\ b = 50
  BY <1>0, <1>c
<1>18. g \in {7, 17} <=> s \in {1, 5, 16} /\ b = 38
  BY <1>0, <1>c
<1>19. g \in {12, 20} <=> s \in {1, 5, 16} /\ b = 60
  BY <1>0, <1>c
<1>20. g \in {13, 21} <=> s \in {1, 5, 16} /\ b = 62
  BY <1>0, <1>c
<1>21. g \in {11, 19} <=> s \in {1, 5, 16} /\ b = 59
  BY <1>0, <1>c
<1>22. g \in {15, 22} <=> s \in {1, 5, 16} /\ b = 124
  BY <1>0, <1>c
<1>23. g = 31 <=> s \in {10, 18} /\ b = 62
  BY <1>0, <1>c
<1>24. g = 46 <=> s = 31 /\ b = 38
  BY <1>0, <1>c
<1>25. g = 53 <=> s = 46 /\ b = 49
  BY <1>0, <1>c
<1>26. g = 29 <=> s \in {7, 17} /\ b = 62
  BY <1>0, <1>c
<1>27. g = 35 <=> s \in {13, 21} /\ b = 38
  BY <1>0, <1>c
<1>28. g = 48 <=> s = 35 /\ b = 50
  BY <1>0, <1>c
<1>29. g = 47 <=> s = 31 /\ b = 62
  BY <1>0, <1>c
<1>30. g = 44 <=> s = 29 /\ b = 62
  BY <1>0, <1>c
<1>31. g = 36 <=> s \in {13, 21} /\ b = 62
  BY <1>0, <1>c
<1>32. g = 28 <=> s \in {7, 17} /\ b = 38
  BY <1>0, <1>c
<1>33. g = 39 <=> s \in {15, 22} /\ b = 124
  BY <1>0, <1>c
<1>34. g = 33 <=> s \in {12, 20, 33} /\ b \in Blank
  BY <1>0, <1>c
<1>35. g = 45 <=> s \in {31, 45} /\ b \in Blank
  BY <1>0, <1>c
<1>36. g = 43 <=> s \in {29, 43} /\ b \in Blank
  BY <1>0, <1>c
<1>37. g = 34 <=> s \in {13, 21, 34} /\ b \in Blank
  BY <1>0, <1>c
<1>38. g = 54 <=> s \in {47, 54} /\ b \in Blank
  BY <1>0, <1>c
<1>39. g = 52 <=> s \in {44, 52} /\ b \in Blank
  BY <1>0, <1>c
<1>40. g = 49 <=> s \in {36, 49} /\ b \in Blank
  BY <1>0, <1>c
<1>41. g = 42 <=> s \in {28, 42} /\ b \in Blank
  BY <1>0, <1>c
<1>42. g = 38 <=> s \in {15, 22, 38} /\ b \in Blank
  BY <1>0, <1>c
<1>43. g = 51 <=> s \in {39, 51} /\ b \in Blank
  BY <1>0, <1>c
<1>44. g = 32 <=> s \in {11, 19, 32} /\ b \in Blank
  BY <1>0, <1>c
<1> QED BY <1>1, <1>2, <1>3, <1>4, <1>5, <1>6, <1>7, <1>8, <1>9, <1>10, <1>11, <1>12, <1>13,
     <1>14, <1>15, <1>16, <1>17, <1>18, <1>19, <1>20, <1>21, <1>22, <1>23, <1>24, <1>25, <1>26,
     <1>27, <1>28, <1>29, <1>30, <1>31, <1>32, <1>33, <1>34, <1>35, <1>36, <1>37, <1>38, <1>39,
     <1>40, <1>41, <1>42, <1>43, <1>44 DEF ArrowsInto

(***************************************************************************)
(* Texts, byte by byte                                                     *)
(***************************************************************************)
Texts == Seq(1..255)

(* A text and one more byte.                                               *)
LEMMA OneMore ==
  ASSUME NEW x \in Texts, NEW b \in 1..255
  PROVE  /\ Len(x) \in Nat /\ Append(x, b) \in Texts /\ Len(Append(x, b)) = Len(x) + 1
         /\ DOMAIN x = 1..Len(x) /\ DOMAIN Append(x, b) = 1..(Len(x) + 1)
         /\ Append(x, b)[Len(x) + 1] = b
         /\ \A k \in 1..Len(x) : Append(x, b)[k] = x[k]
BY DEF Texts

(* Two texts are the same if their bytes are.                              *)
LEMMA SameText ==
  ASSUME NEW x \in Texts, NEW y \in Texts
  PROVE  x = y <=> Len(x) = Len(y) /\ \A k \in 1..Len(x) : x[k] = y[k]
BY SeqEqual DEF Texts

(* Texts of one to three bytes.                                             *)
Text1(x, a)       == Len(x) = 1 /\ x[1] = a
Text2(x, a, c)    == Len(x) = 2 /\ x[1] = a /\ x[2] = c
Text3(x, a, c, d) == Len(x) = 3 /\ x[1] = a /\ x[2] = c /\ x[3] = d

(* ... which is what the patterns without a repetition ask for.            *)
LEMMA Spelled ==
  ASSUME NEW x \in Texts
  PROVE  /\ \A a : x = <<a>> <=> Text1(x, a)
         /\ \A a, c : x = <<a, c>> <=> Text2(x, a, c)
         /\ \A a, c, d : x = <<a, c, d>> <=> Text3(x, a, c, d)
<1> SUFFICES ASSUME NEW a, NEW c, NEW d
             PROVE  /\ x = <<a>> <=> Text1(x, a)
                    /\ x = <<a, c>> <=> Text2(x, a, c)
                    /\ x = <<a, c, d>> <=> Text3(x, a, c, d)
  BY Zenon
<1> DEFINE S == (1..255) \cup {a, c, d}
<1>1. x \in Seq(S) /\ <<a>> \in Seq(S) /\ <<a, c>> \in Seq(S) /\ <<a, c, d>> \in Seq(S)
  BY SeqMonotonic DEF Texts
<1>2. \A y \in Seq(S) : Len(x) = Len(y) /\ (\A i \in 1..Len(x) : x[i] = y[i]) => x = y
  BY <1>1, SeqEqual
<1> HIDE DEF S
<1>3. Text1(x, a) => x = <<a>>
  BY <1>1, <1>2 DEF Text1
<1>4. Text2(x, a, c) => x = <<a, c>>
  BY <1>1, <1>2 DEF Text2
<1>5. Text3(x, a, c, d) => x = <<a, c, d>>
  BY <1>1, <1>2 DEF Text3
<1> QED BY <1>3, <1>4, <1>5 DEF Text1, Text2, Text3

(* A short text grows out of the one before.                               *)
LEMMA TextsGrow ==
  ASSUME NEW x \in Texts, NEW b \in 1..255
  PROVE  /\ \A a : Text1(Append(x, b), a) <=> Len(x) = 0 /\ b = a
         /\ \A a, c : Text2(Append(x, b), a, c) <=> Text1(x, a) /\ b = c
         /\ \A a, c, d : Text3(Append(x, b), a, c, d) <=> Text2(x, a, c) /\ b = d
<1> DEFINE y == Append(x, b)
<1>1. /\ Len(x) \in Nat /\ Len(y) = Len(x) + 1
      /\ y[Len(x) + 1] = b /\ \A k \in 1..Len(x) : y[k] = x[k]
  BY OneMore
<1> HIDE DEF y
<1>2. \A a : Text1(y, a) <=> Len(x) = 0 /\ b = a
  BY <1>1 DEF Text1
<1>3. Len(x) = 1 \/ Len(x) = 2 => y[1] = x[1]
  BY <1>1
<1>4. Len(x) = 2 => y[2] = x[2]
  BY <1>1
<1>5. \A a, c : Text2(y, a, c) <=> Text1(x, a) /\ b = c
  <2>1. Len(y) = 2 <=> Len(x) = 1
    BY <1>1
  <2> QED BY <1>1, <1>3, <2>1 DEF Text1, Text2
<1>6. \A a, c, d : Text3(y, a, c, d) <=> Text2(x, a, c) /\ b = d
  <2>1. Len(y) = 3 <=> Len(x) = 2
    <3>1. \A m, n : m \in Nat /\ n = m + 1 => (n = 3 <=> m = 2)
      OBVIOUS
    <3> QED BY <1>1, <3>1, Zenon
  <2>2. Len(x) = 2 => y[3] = b
    BY <1>1
  <2> QED BY <1>3, <1>4, <2>1, <2>2 DEF Text2, Text3
<1> QED BY <1>2, <1>5, <1>6 DEF y

(* All bytes are in a set if those so far were and the new one is.         *)
LEMMA AllInGrows ==
  ASSUME NEW S, NEW x \in Texts, NEW b \in 1..255
  PROVE  AllIn(S, Append(x, b)) <=> AllIn(S, x) /\ b \in S
<1> DEFINE y == Append(x, b)
<1>1. /\ Len(x) \in Nat /\ DOMAIN x = 1..Len(x) /\ DOMAIN y = 1..(Len(x) + 1)
      /\ y[Len(x) + 1] = b /\ \A k \in 1..Len(x) : y[k] = x[k]
  BY OneMore
<1> HIDE DEF y
<1>2. AllIn(S, y) <=> AllIn(S, x) /\ b \in S
  BY <1>1 DEF AllIn
<1> QED BY <1>2 DEF y

(* A bracket that has been opened, and one that has been closed.            *)
Opened(x) == Len(x) > 1 /\ x[1] = 91 /\ \A k \in 2..Len(x) : x[k] \in InWord
Closed(x) ==
  /\ Len(x) > 2 /\ x[1] = 91 /\ x[Len(x)] = 93
  /\ \A k \in 2..(Len(x) - 1) : x[k] \in InWord

(* A bracket expression is opened, filled with words and closed.           *)
LEMMA BracketGrows ==
  ASSUME NEW x \in Texts, NEW b \in 1..255
  PROVE  /\ Opened(Append(x, b)) <=> (Text1(x, 91) \/ Opened(x)) /\ b \in InWord
         /\ Closed(Append(x, b)) <=> Opened(x) /\ b = 93
<1> DEFINE y == Append(x, b)
<1>1. /\ Len(x) \in Nat /\ Len(y) = Len(x) + 1
      /\ y[Len(x) + 1] = b /\ \A k \in 1..Len(x) : y[k] = x[k]
  BY OneMore
<1>2. Text1(x, 91) <=> Len(x) = 1 /\ x[1] = 91
  BY DEF Text1
<1> HIDE DEF y
<1>3. Opened(y) <=> (Text1(x, 91) \/ Opened(x)) /\ b \in InWord
  <2>1. ASSUME Opened(y) PROVE (Text1(x, 91) \/ Opened(x)) /\ b \in InWord
    <3>1. Len(x) \in Nat \ {0} /\ x[1] = 91 /\ b \in InWord
      BY <1>1, <2>1 DEF Opened
    <3>2. \A k \in 2..Len(x) : x[k] \in InWord
      BY <1>1, <2>1 DEF Opened
    <3>3. Len(x) > 1 => Opened(x)
      BY <3>1, <3>2 DEF Opened
    <3>4. Len(x) = 1 => Text1(x, 91)
      BY <1>2, <3>1
    <3>5. Len(x) = 1 \/ Len(x) > 1
      BY <3>1
    <3> QED BY <3>1, <3>3, <3>4, <3>5
  <2>2. ASSUME Text1(x, 91) \/ Opened(x), b \in InWord PROVE Opened(y)
    <3>1. Len(x) >= 1 /\ x[1] = 91 /\ \A k \in 2..Len(x) : x[k] \in InWord
      BY <1>1, <1>2, <2>2 DEF Opened
    <3>2. ASSUME NEW k \in 2..Len(y) PROVE y[k] \in InWord
      BY <1>1, <2>2, <3>1
    <3> QED BY <1>1, <3>1, <3>2 DEF Opened
  <2> QED BY <2>1, <2>2
<1>4. Closed(y) <=> Opened(x) /\ b = 93
  BY <1>1 DEF Opened, Closed
<1> QED BY <1>3, <1>4 DEF y

(* The operator core between n blanks and any number of blanks.             *)
Framed(core, x, n) ==
  /\ n \in Nat /\ n + Len(core) <= Len(x)
  /\ \A k \in 1..n : x[k] \in Blank
  /\ \A k \in 1..Len(core) : x[n + k] = core[k]
  /\ \A k \in (n + Len(core) + 1)..Len(x) : x[k] \in Blank
Spells(core, x) == Framed(core, x, Len(x) - Len(core))
Trails(core, x) == \E n \in 0..(Len(x) - Len(core) - 1) : Framed(core, x, n)

(* An operator is spelled byte by byte,                                    *)
LEMMA SpellsGrows ==
  ASSUME NEW x \in Texts, NEW b \in 1..255, NEW S, NEW c \in Seq(S), NEW d \in S
  PROVE  Spells(Append(c, d), Append(x, b)) <=> Spells(c, x) /\ b = d
<1> DEFINE y == Append(x, b)
           w == Append(c, d)
<1>1. /\ Len(x) \in Nat /\ y \in Texts /\ Len(y) = Len(x) + 1
      /\ y[Len(x) + 1] = b /\ \A k \in 1..Len(x) : y[k] = x[k]
  BY OneMore
<1>2. /\ Len(c) \in Nat /\ Len(w) = Len(c) + 1
      /\ w[Len(c) + 1] = d /\ \A k \in 1..Len(c) : w[k] = c[k]
  OBVIOUS
<1> HIDE DEF y, w
<1>3. ASSUME NEW n, n = Len(x) - Len(c)
      PROVE  Framed(w, y, n) <=> Framed(c, x, n) /\ b = d
  <2>1. ASSUME Framed(w, y, n) PROVE Framed(c, x, n) /\ b = d
    <3>1. n \in Nat /\ \A k \in 1..Len(w) : y[n + k] = w[k]
      BY <2>1 DEF Framed
    <3>2. y[n + Len(w)] = w[Len(w)]
      BY <1>2, <3>1
    <3>3. b = d
      BY <3>2, <1>1, <1>2, <1>3
    <3>4. ASSUME NEW k \in 1..Len(c) PROVE x[n + k] = c[k]
      <4>1. n + k \in 1..Len(x) /\ k \in 1..Len(w)
        BY <1>1, <1>2, <1>3, <3>1
      <4>2. y[n + k] = w[k] /\ y[n + k] = x[n + k] /\ w[k] = c[k]
        BY <1>1, <1>2, <3>1, <4>1
      <4> QED BY <4>2
    <3>5. \A k \in 1..n : x[k] \in Blank
      BY <2>1, <1>1, <1>2, <1>3 DEF Framed
    <3> QED BY <1>1, <1>2, <1>3, <3>1, <3>3, <3>4, <3>5 DEF Framed
  <2>2. ASSUME Framed(c, x, n), b = d PROVE Framed(w, y, n)
    <3>1. n \in Nat /\ \A k \in 1..Len(c) : x[n + k] = c[k]
      BY <2>2 DEF Framed
    <3>2. ASSUME NEW k \in 1..Len(w) PROVE y[n + k] = w[k]
      <4>1. CASE k <= Len(c)
        <5>1. n + k \in 1..Len(x) /\ k \in 1..Len(c)
          BY <1>1, <1>2, <1>3, <3>1, <4>1
        <5>2. x[n + k] = c[k] /\ y[n + k] = x[n + k] /\ w[k] = c[k]
          BY <1>1, <1>2, <3>1, <5>1
        <5> QED BY <5>2
      <4>2. CASE k = Len(c) + 1
        BY <1>1, <1>2, <1>3, <2>2, <4>2
      <4> QED BY <1>2, <4>1, <4>2
    <3>3. \A k \in 1..n : y[k] \in Blank
      BY <2>2, <1>1, <1>2, <1>3 DEF Framed
    <3> QED BY <1>1, <1>2, <1>3, <3>1, <3>2, <3>3 DEF Framed
  <2> QED BY <2>1, <2>2
<1>4. Len(y) - Len(w) = Len(x) - Len(c)
  BY <1>1, <1>2
<1>5. Spells(w, y) <=> Spells(c, x) /\ b = d
  BY <1>3, <1>4 DEF Spells
<1> QED BY <1>5 DEF y, w

(* and then blanks may follow.                                             *)
LEMMA TrailsGrows ==
  ASSUME NEW x \in Texts, NEW b \in 1..255, NEW S, NEW c \in Seq(S)
  PROVE  Trails(c, Append(x, b)) <=> (Spells(c, x) \/ Trails(c, x)) /\ b \in Blank
<1> DEFINE y == Append(x, b)
<1>1. /\ Len(x) \in Nat /\ y \in Texts /\ Len(y) = Len(x) + 1
      /\ y[Len(x) + 1] = b /\ \A k \in 1..Len(x) : y[k] = x[k]
  BY OneMore
<1>2. Len(c) \in Nat
  BY LenProperties
<1> HIDE DEF y
<1>3. ASSUME NEW n \in 0..(Len(x) - Len(c))
      PROVE  Framed(c, y, n) <=> Framed(c, x, n) /\ b \in Blank
  <2>1. n \in Nat /\ n + Len(c) <= Len(x) /\ n + Len(c) <= Len(y)
    BY <1>1, <1>2, <1>3
  <2>2. (\A k \in 1..n : y[k] \in Blank) <=> \A k \in 1..n : x[k] \in Blank
    BY <1>1, <1>2, <2>1
  <2>3. \A k \in 1..Len(c) : y[n + k] = x[n + k]
    <3> TAKE k \in 1..Len(c)
    <3>1. n + k \in 1..Len(x)
      BY <1>1, <1>2, <2>1
    <3> QED BY <1>1, <3>1
  <2>4. (\A k \in (n + Len(c) + 1)..Len(y) : y[k] \in Blank)
          <=> (\A k \in (n + Len(c) + 1)..Len(x) : x[k] \in Blank) /\ b \in Blank
    <3>1. ASSUME \A k \in (n + Len(c) + 1)..Len(y) : y[k] \in Blank
          PROVE  (\A k \in (n + Len(c) + 1)..Len(x) : x[k] \in Blank) /\ b \in Blank
      BY <1>1, <1>2, <2>1, <3>1
    <3>2. ASSUME \A k \in (n + Len(c) + 1)..Len(x) : x[k] \in Blank, b \in Blank
          PROVE  \A k \in (n + Len(c) + 1)..Len(y) : y[k] \in Blank
      BY <1>1, <1>2, <2>1, <3>2
    <3> QED BY <3>1, <3>2
  <2> QED BY <2>1, <2>2, <2>3, <2>4 DEF Framed
<1>4. Trails(c, y) <=> \E n \in 0..(Len(x) - Len(c)) : Framed(c, y, n)
  BY <1>1, <1>2 DEF Trails
<1>5. Spells(c, x) \/ Trails(c, x) <=> \E n \in 0..(Len(x) - Len(c)) : Framed(c, x, n)
  <2>1. Spells(c, x) => Len(x) - Len(c) \in 0..(Len(x) - Len(c))
    BY <1>1, <1>2 DEF Spells, Framed
  <2>2. \A n \in 0..(Len(x) - Len(c)) : n = Len(x) - Len(c) \/ n \in 0..(Len(x) - Len(c) - 1)
    BY <1>1, <1>2
  <2>3. \A n \in 0..(Len(x) - Len(c) - 1) : n \in 0..(Len(x) - Len(c))
    BY <1>1, <1>2
  <2> QED BY <2>1, <2>2, <2>3, Zenon DEF Spells, Trails
<1>6. Trails(c, y) <=> (Spells(c, x) \/ Trails(c, x)) /\ b \in Blank
  BY <1>3, <1>4, <1>5
<1> QED BY <1>6 DEF y

(* Before the first byte of an operator there are only blanks.             *)
LEMMA SpellsNothing == \A x \in Texts : Spells(<<>>, x) <=> AllIn(Blank, x)
<1> TAKE x \in Texts
<1>1. Len(x) \in Nat /\ DOMAIN x = 1..Len(x) /\ Len(<<>>) = 0
  BY LenProperties DEF Texts
<1> QED BY <1>1 DEF Spells, Framed, AllIn

(* The same for operators of one to four bytes.                             *)
LEMMA OperatorOfOne ==
  ASSUME NEW x \in Texts, NEW b \in 1..255, NEW a
  PROVE  Spells(<<a>>, Append(x, b)) <=> AllIn(Blank, x) /\ b = a
<1>1. <<>> \in Seq({a}) /\ a \in {a}
  OBVIOUS
<1>3. <<a>> = Append(<<>>, a)
  OBVIOUS
<1>2. Spells(Append(<<>>, a), Append(x, b)) <=> Spells(<<>>, x) /\ b = a
  BY <1>1, SpellsGrows, Zenon
<1> QED BY <1>2, <1>3, SpellsNothing, Zenon

LEMMA OperatorOfTwo ==
  ASSUME NEW x \in Texts, NEW b \in 1..255, NEW a, NEW c
  PROVE  Spells(<<a, c>>, Append(x, b)) <=> Spells(<<a>>, x) /\ b = c
<1>1. <<a>> \in Seq({a, c}) /\ c \in {a, c}
  OBVIOUS
<1>3. <<a, c>> = Append(<<a>>, c)
  OBVIOUS
<1>2. Spells(Append(<<a>>, c), Append(x, b)) <=> Spells(<<a>>, x) /\ b = c
  BY <1>1, SpellsGrows, Zenon
<1> QED BY <1>2, <1>3, Zenon

LEMMA OperatorOfThree ==
  ASSUME NEW x \in Texts, NEW b \in 1..255, NEW a, NEW c, NEW d
  PROVE  Spells(<<a, c, d>>, Append(x, b)) <=> Spells(<<a, c>>, x) /\ b = d
<1>1. <<a, c>> \in Seq({a, c, d}) /\ d \in {a, c, d}
  OBVIOUS
<1>3. <<a, c, d>> = Append(<<a, c>>, d)
  OBVIOUS
<1>2. Spells(Append(<<a, c>>, d), Append(x, b)) <=> Spells(<<a, c>>, x) /\ b = d
  BY <1>1, SpellsGrows, Zenon
<1> QED BY <1>2, <1>3, Zenon

LEMMA OperatorOfFour ==
  ASSUME NEW x \in Texts, NEW b \in 1..255, NEW a, NEW c, NEW d, NEW e
  PROVE  Spells(<<a, c, d, e>>, Append(x, b)) <=> Spells(<<a, c, d>>, x) /\ b = e
<1>1. <<a, c, d>> \in Seq({a, c, d, e}) /\ e \in {a, c, d, e}
  OBVIOUS
<1>3. <<a, c, d, e>> = Append(<<a, c, d>>, e)
  OBVIOUS
<1>2. Spells(Append(<<a, c, d>>, e), Append(x, b)) <=> Spells(<<a, c, d>>, x) /\ b = e
  BY <1>1, SpellsGrows, Zenon
<1> QED BY <1>2, <1>3, Zenon

LEMMA BlanksAfterOne ==
  ASSUME NEW x \in Texts, NEW b \in 1..255, NEW a
  PROVE  Trails(<<a>>, Append(x, b))
           <=> (Spells(<<a>>, x) \/ Trails(<<a>>, x)) /\ b \in Blank
<1>1. <<a>> \in Seq({a})
  OBVIOUS
<1> QED BY <1>1, TrailsGrows, Zenon

LEMMA BlanksAfterTwo ==
  ASSUME NEW x \in Texts, NEW b \in 1..255, NEW a, NEW c
  PROVE  Trails(<<a, c>>, Append(x, b))
           <=> (Spells(<<a, c>>, x) \/ Trails(<<a, c>>, x)) /\ b \in Blank
<1>1. <<a, c>> \in Seq({a, c})
  OBVIOUS
<1> QED BY <1>1, TrailsGrows, Zenon

LEMMA BlanksAfterThree ==
  ASSUME NEW x \in Texts, NEW b \in 1..255, NEW a, NEW c, NEW d
  PROVE  Trails(<<a, c, d>>, Append(x, b))
           <=> (Spells(<<a, c, d>>, x) \/ Trails(<<a, c, d>>, x)) /\ b \in Blank
<1>1. <<a, c, d>> \in Seq({a, c, d})
  OBVIOUS
<1> QED BY <1>1, TrailsGrows, Zenon

(***************************************************************************)
(* What a text is when it leads to a state                                 *)
(***************************************************************************)
(* The bytes that the rules name.                                           *)
Bang == 33
Percent == 37
Ampersand == 38
Star == 42
Digit1 == 49
Digit2 == 50
Semicolon == 59
Less == 60
Greater == 62
Question == 63
Open == 91
Close == 93
LetterD == 100
LetterP == 112
LetterS == 115
Pipe == 124

(* State s has read text x.  First the words, the blanks, the brackets and * and ?; *)
ReadsPlain(s, x) ==
  /\ Len(x) = 0 <=> s = 1
  /\ Len(x) = 1 <=> s \in 4..15
  /\ AllIn(Blank, x) <=> s \in {1, 5, 16}
  /\ AllIn(InWord, x) <=> s \in {1, 9, 10, 30}
  /\ Text1(x, Open) <=> s = 14
  /\ Opened(x) <=> s = 37
  /\ Closed(x) <=> s = 50
  /\ Text1(x, Star) \/ Text1(x, Question) <=> s = 8

(* the conversions;                                                        *)
ReadsConversion(s, x) ==
  /\ Text1(x, Percent) <=> s = 6
  /\ Text2(x, Percent, Bang) <=> s = 23
  /\ Text2(x, Percent, Star) <=> s = 24
  /\ Text2(x, Percent, LetterD) <=> s = 25
  /\ Text2(x, Percent, LetterP) <=> s = 26
  /\ Text2(x, Percent, LetterS) <=> s = 27
  /\ Text3(x, Percent, Bang, LetterP) <=> s = 40
  /\ Text3(x, Percent, Star, LetterP) <=> s = 41

(* the operators with the blanks before them;                              *)
ReadsOperator(s, x) ==
  /\ Spells(<<Digit2>>, x) <=> s \in {10, 18}
  /\ Spells(<<Ampersand>>, x) <=> s \in {7, 17}
  /\ Spells(<<Less>>, x) <=> s \in {12, 20}
  /\ Spells(<<Greater>>, x) <=> s \in {13, 21}
  /\ Spells(<<Semicolon>>, x) <=> s \in {11, 19}
  /\ Spells(<<Pipe>>, x) <=> s \in {15, 22}
  /\ Spells(<<Digit2, Greater>>, x) <=> s = 31
  /\ Spells(<<Digit2, Greater, Ampersand>>, x) <=> s = 46
  /\ Spells(<<Digit2, Greater, Ampersand, Digit1>>, x) <=> s = 53
  /\ Spells(<<Ampersand, Greater>>, x) <=> s = 29
  /\ Spells(<<Greater, Ampersand>>, x) <=> s = 35
  /\ Spells(<<Greater, Ampersand, Digit2>>, x) <=> s = 48
  /\ Spells(<<Digit2, Greater, Greater>>, x) <=> s = 47
  /\ Spells(<<Ampersand, Greater, Greater>>, x) <=> s = 44
  /\ Spells(<<Greater, Greater>>, x) <=> s = 36
  /\ Spells(<<Ampersand, Ampersand>>, x) <=> s = 28
  /\ Spells(<<Pipe, Pipe>>, x) <=> s = 39

(* and those with blanks behind them.                                      *)
ReadsBlanksAfter(s, x) ==
  /\ Trails(<<Less>>, x) <=> s = 33
  /\ Trails(<<Digit2, Greater>>, x) <=> s = 45
  /\ Trails(<<Ampersand, Greater>>, x) <=> s = 43
  /\ Trails(<<Greater>>, x) <=> s = 34
  /\ Trails(<<Digit2, Greater, Greater>>, x) <=> s = 54
  /\ Trails(<<Ampersand, Greater, Greater>>, x) <=> s = 52
  /\ Trails(<<Greater, Greater>>, x) <=> s = 49
  /\ Trails(<<Ampersand, Ampersand>>, x) <=> s = 42
  /\ Trails(<<Pipe>>, x) <=> s = 38
  /\ Trails(<<Pipe, Pipe>>, x) <=> s = 51
  /\ Trails(<<Semicolon>>, x) <=> s = 32

Reads(s, x) ==
  /\ s \in KnownStates /\ x \in Texts
  /\ ReadsPlain(s, x) /\ ReadsConversion(s, x)
  /\ ReadsOperator(s, x) /\ ReadsBlanksAfter(s, x)

(* With one more byte, the next state has read the longer text.            *)
LEMMA ReadsOn ==
  ASSUME NEW s, NEW x, Reads(s, x), NEW b \in 1..255, NEW g, g = Goto(s, b)
  PROVE  Reads(g, Append(x, b))
<1> DEFINE y == Append(x, b)
<1>s. /\ s \in KnownStates /\ x \in Texts
      /\ ReadsPlain(s, x) /\ ReadsConversion(s, x)
      /\ ReadsOperator(s, x) /\ ReadsBlanksAfter(s, x)
  BY DEF Reads
<1>y. y \in Texts /\ Len(x) \in Nat /\ Len(y) = Len(x) + 1
  BY <1>s, OneMore
<1>a. \A S : AllIn(S, y) <=> AllIn(S, x) /\ b \in S
  BY <1>s, AllInGrows
<1>b. /\ Opened(y) <=> (Text1(x, Open) \/ Opened(x)) /\ b \in InWord
      /\ Closed(y) <=> Opened(x) /\ b = Close
  BY <1>s, BracketGrows DEF Open, Close
<1>t. /\ \A a : Text1(y, a) <=> Len(x) = 0 /\ b = a
      /\ \A a, c : Text2(y, a, c) <=> Text1(x, a) /\ b = c
      /\ \A a, c, d : Text3(y, a, c, d) <=> Text2(x, a, c) /\ b = d
  BY <1>s, TextsGrow, Zenon
<1>l. Len(y) # 0 /\ (Len(y) = 1 <=> Len(x) = 0)
  BY <1>y
<1>g. g \in KnownStates /\ ArrowsInto(g, s, b)
  BY <1>s, Into
<1>w1. /\ Text1(y, Open) <=> Len(x) = 0 /\ b = Open
       /\ Text1(y, Star) <=> Len(x) = 0 /\ b = Star
       /\ Text1(y, Question) <=> Len(x) = 0 /\ b = Question
       /\ Text1(y, Percent) <=> Len(x) = 0 /\ b = Percent
  BY <1>t, Zenon
<1>w2. /\ Text2(y, Percent, Bang) <=> Text1(x, Percent) /\ b = Bang
       /\ Text2(y, Percent, Star) <=> Text1(x, Percent) /\ b = Star
       /\ Text2(y, Percent, LetterD) <=> Text1(x, Percent) /\ b = LetterD
       /\ Text2(y, Percent, LetterP) <=> Text1(x, Percent) /\ b = LetterP
       /\ Text2(y, Percent, LetterS) <=> Text1(x, Percent) /\ b = LetterS
  BY <1>t, Zenon
<1>w3. /\ Text3(y, Percent, Bang, LetterP) <=> Text2(x, Percent, Bang) /\ b = LetterP
       /\ Text3(y, Percent, Star, LetterP) <=> Text2(x, Percent, Star) /\ b = LetterP
  BY <1>t, Zenon
<1>o1. /\ Spells(<<Digit2>>, y) <=> AllIn(Blank, x) /\ b = Digit2
       /\ Spells(<<Ampersand>>, y) <=> AllIn(Blank, x) /\ b = Ampersand
       /\ Spells(<<Less>>, y) <=> AllIn(Blank, x) /\ b = Less
       /\ Spells(<<Greater>>, y) <=> AllIn(Blank, x) /\ b = Greater
       /\ Spells(<<Semicolon>>, y) <=> AllIn(Blank, x) /\ b = Semicolon
       /\ Spells(<<Pipe>>, y) <=> AllIn(Blank, x) /\ b = Pipe
  BY <1>s, OperatorOfOne, Zenon
<1>o2. /\ Spells(<<Digit2, Greater>>, y) <=> Spells(<<Digit2>>, x) /\ b = Greater
       /\ Spells(<<Ampersand, Greater>>, y) <=> Spells(<<Ampersand>>, x) /\ b = Greater
       /\ Spells(<<Greater, Ampersand>>, y) <=> Spells(<<Greater>>, x) /\ b = Ampersand
       /\ Spells(<<Greater, Greater>>, y) <=> Spells(<<Greater>>, x) /\ b = Greater
       /\ Spells(<<Ampersand, Ampersand>>, y) <=> Spells(<<Ampersand>>, x) /\ b = Ampersand
       /\ Spells(<<Pipe, Pipe>>, y) <=> Spells(<<Pipe>>, x) /\ b = Pipe
  BY <1>s, OperatorOfTwo, Zenon
<1>o3. /\ Spells(<<Digit2, Greater, Ampersand>>, y)
            <=> Spells(<<Digit2, Greater>>, x) /\ b = Ampersand
       /\ Spells(<<Greater, Ampersand, Digit2>>, y)
            <=> Spells(<<Greater, Ampersand>>, x) /\ b = Digit2
       /\ Spells(<<Digit2, Greater, Greater>>, y)
            <=> Spells(<<Digit2, Greater>>, x) /\ b = Greater
       /\ Spells(<<Ampersand, Greater, Greater>>, y)
            <=> Spells(<<Ampersand, Greater>>, x) /\ b = Greater
  BY <1>s, OperatorOfThree, Zenon
<1>o4. Spells(<<Digit2, Greater, Ampersand, Digit1>>, y)
         <=> Spells(<<Digit2, Greater, Ampersand>>, x) /\ b = Digit1
  BY <1>s, OperatorOfFour, Zenon
<1>e1. /\ Trails(<<Less>>, y) <=> (Spells(<<Less>>, x) \/ Trails(<<Less>>, x)) /\ b \in Blank
       /\ Trails(<<Greater>>, y)
            <=> (Spells(<<Greater>>, x) \/ Trails(<<Greater>>, x)) /\ b \in Blank
       /\ Trails(<<Pipe>>, y) <=> (Spells(<<Pipe>>, x) \/ Trails(<<Pipe>>, x)) /\ b \in Blank
       /\ Trails(<<Semicolon>>, y)
            <=> (Spells(<<Semicolon>>, x) \/ Trails(<<Semicolon>>, x)) /\ b \in Blank
  BY <1>s, BlanksAfterOne, Zenon
<1>e2. /\ Trails(<<Digit2, Greater>>, y)
            <=> (Spells(<<Digit2, Greater>>, x)
                 \/ Trails(<<Digit2, Greater>>, x)) /\ b \in Blank
       /\ Trails(<<Ampersand, Greater>>, y)
            <=> (Spells(<<Ampersand, Greater>>, x)
                 \/ Trails(<<Ampersand, Greater>>, x)) /\ b \in Blank
       /\ Trails(<<Greater, Greater>>, y)
            <=> (Spells(<<Greater, Greater>>, x)
                 \/ Trails(<<Greater, Greater>>, x)) /\ b \in Blank
       /\ Trails(<<Ampersand, Ampersand>>, y)
            <=> (Spells(<<Ampersand, Ampersand>>, x)
                 \/ Trails(<<Ampersand, Ampersand>>, x)) /\ b \in Blank
       /\ Trails(<<Pipe, Pipe>>, y)
            <=> (Spells(<<Pipe, Pipe>>, x) \/ Trails(<<Pipe, Pipe>>, x)) /\ b \in Blank
  BY <1>s, BlanksAfterTwo, Zenon
<1>e3. /\ Trails(<<Digit2, Greater, Greater>>, y)
            <=> (Spells(<<Digit2, Greater, Greater>>, x)
                 \/ Trails(<<Digit2, Greater, Greater>>, x)) /\ b \in Blank
       /\ Trails(<<Ampersand, Greater, Greater>>, y)
            <=> (Spells(<<Ampersand, Greater, Greater>>, x)
                 \/ Trails(<<Ampersand, Greater, Greater>>, x)) /\ b \in Blank
  BY <1>s, BlanksAfterThree, Zenon
<1> HIDE DEF y
<1>4. ReadsPlain(g, y)
  <2> USE <1>s, <1>l, <1>a, <1>b, <1>w1, <1>g DEF ReadsPlain, ArrowsInto, KnownStates,
       StartState, Open, Close, Star, Question
  <2>1. Len(y) = 0 <=> g = 1
    OBVIOUS
  <2>2. Len(y) = 1 <=> g \in 4..15
    OBVIOUS
  <2>3. AllIn(Blank, y) <=> g \in {1, 5, 16}
    OBVIOUS
  <2>4. AllIn(InWord, y) <=> g \in {1, 9, 10, 30}
    OBVIOUS
  <2>5. Text1(y, Open) <=> g = 14
    OBVIOUS
  <2>6. Opened(y) <=> g = 37
    OBVIOUS
  <2>7. Closed(y) <=> g = 50
    OBVIOUS
  <2>8. Text1(y, Star) \/ Text1(y, Question) <=> g = 8
    OBVIOUS
  <2> QED BY <2>1, <2>2, <2>3, <2>4, <2>5, <2>6, <2>7, <2>8
<1>5. ReadsConversion(g, y)
  <2> USE <1>s, <1>w1, <1>w2, <1>w3, <1>g DEF ReadsPlain, ReadsConversion, ArrowsInto,
       Percent, Bang, Star, LetterD, LetterP, LetterS
  <2>1. Text1(y, Percent) <=> g = 6
    OBVIOUS
  <2>2. Text2(y, Percent, Bang) <=> g = 23
    OBVIOUS
  <2>3. Text2(y, Percent, Star) <=> g = 24
    OBVIOUS
  <2>4. Text2(y, Percent, LetterD) <=> g = 25
    OBVIOUS
  <2>5. Text2(y, Percent, LetterP) <=> g = 26
    OBVIOUS
  <2>6. Text2(y, Percent, LetterS) <=> g = 27
    OBVIOUS
  <2>7. Text3(y, Percent, Bang, LetterP) <=> g = 40
    OBVIOUS
  <2>8. Text3(y, Percent, Star, LetterP) <=> g = 41
    OBVIOUS
  <2> QED BY <2>1, <2>2, <2>3, <2>4, <2>5, <2>6, <2>7, <2>8
<1>6. ReadsOperator(g, y)
  <2> USE <1>s, <1>o1, <1>o2, <1>o3, <1>o4, <1>g DEF ReadsPlain, ReadsOperator, ArrowsInto,
       Digit1, Digit2, Ampersand, Less, Greater, Semicolon, Pipe
  <2>1. Spells(<<Digit2>>, y) <=> g \in {10, 18}
    OBVIOUS
  <2>2. Spells(<<Ampersand>>, y) <=> g \in {7, 17}
    OBVIOUS
  <2>3. Spells(<<Less>>, y) <=> g \in {12, 20}
    OBVIOUS
  <2>4. Spells(<<Greater>>, y) <=> g \in {13, 21}
    OBVIOUS
  <2>5. Spells(<<Semicolon>>, y) <=> g \in {11, 19}
    OBVIOUS
  <2>6. Spells(<<Pipe>>, y) <=> g \in {15, 22}
    OBVIOUS
  <2>7. Spells(<<Digit2, Greater>>, y) <=> g = 31
    OBVIOUS
  <2>8. Spells(<<Digit2, Greater, Ampersand>>, y) <=> g = 46
    OBVIOUS
  <2>9. Spells(<<Digit2, Greater, Ampersand, Digit1>>, y) <=> g = 53
    OBVIOUS
  <2>10. Spells(<<Ampersand, Greater>>, y) <=> g = 29
    OBVIOUS
  <2>11. Spells(<<Greater, Ampersand>>, y) <=> g = 35
    OBVIOUS
  <2>12. Spells(<<Greater, Ampersand, Digit2>>, y) <=> g = 48
    OBVIOUS
  <2>13. Spells(<<Digit2, Greater, Greater>>, y) <=> g = 47
    OBVIOUS
  <2>14. Spells(<<Ampersand, Greater, Greater>>, y) <=> g = 44
    OBVIOUS
  <2>15. Spells(<<Greater, Greater>>, y) <=> g = 36
    OBVIOUS
  <2>16. Spells(<<Ampersand, Ampersand>>, y) <=> g = 28
    OBVIOUS
  <2>17. Spells(<<Pipe, Pipe>>, y) <=> g = 39
    OBVIOUS
  <2> QED BY <2>1, <2>2, <2>3, <2>4, <2>5, <2>6, <2>7, <2>8, <2>9, <2>10, <2>11, <2>12,
       <2>13, <2>14, <2>15, <2>16, <2>17
<1>7. ReadsBlanksAfter(g, y)
  <2> USE <1>s, <1>e1, <1>e2, <1>e3, <1>g DEF ReadsOperator, ReadsBlanksAfter, ArrowsInto
  <2>1. Trails(<<Less>>, y) <=> g = 33
    OBVIOUS
  <2>2. Trails(<<Digit2, Greater>>, y) <=> g = 45
    OBVIOUS
  <2>3. Trails(<<Ampersand, Greater>>, y) <=> g = 43
    OBVIOUS
  <2>4. Trails(<<Greater>>, y) <=> g = 34
    OBVIOUS
  <2>5. Trails(<<Digit2, Greater, Greater>>, y) <=> g = 54
    OBVIOUS
  <2>6. Trails(<<Ampersand, Greater, Greater>>, y) <=> g = 52
    OBVIOUS
  <2>7. Trails(<<Greater, Greater>>, y) <=> g = 49
    OBVIOUS
  <2>8. Trails(<<Ampersand, Ampersand>>, y) <=> g = 42
    OBVIOUS
  <2>9. Trails(<<Pipe>>, y) <=> g = 38
    OBVIOUS
  <2>10. Trails(<<Pipe, Pipe>>, y) <=> g = 51
    OBVIOUS
  <2>11. Trails(<<Semicolon>>, y) <=> g = 32
    OBVIOUS
  <2> QED BY <2>1, <2>2, <2>3, <2>4, <2>5, <2>6, <2>7, <2>8, <2>9, <2>10, <2>11
<1>8. Reads(g, y)
  BY <1>g, <1>y, <1>4, <1>5, <1>6, <1>7 DEF Reads
<1> QED BY <1>8 DEF y

(* The start state has read nothing.                                       *)
LEMMA NothingRead == Reads(StartState, <<>>)
<1>1. StartState \in KnownStates /\ <<>> \in Texts /\ Len(<<>>) = 0 /\ StartState = 1
  BY DEF KnownStates, Texts, StartState
<1>2. ReadsPlain(1, <<>>)
  BY DEF ReadsPlain, AllIn, Opened, Closed, Text1
<1>3. ReadsConversion(1, <<>>)
  BY DEF ReadsConversion, Text1, Text2, Text3
<1>6. ReadsOperator(1, <<>>)
  BY DEF ReadsOperator, Spells, Framed
<1>7. ReadsBlanksAfter(1, <<>>)
  BY DEF ReadsBlanksAfter, Trails
<1> QED BY <1>1, <1>2, <1>3, <1>6, <1>7 DEF Reads

(***************************************************************************)
(* The rules and the states                                                *)
(***************************************************************************)
(* The part of a text between two places, byte by byte.                      *)
LEMMA PartOfText ==
  ASSUME NEW x \in Texts, NEW i \in Nat \ {0}, NEW j \in Nat, j <= Len(x), i <= j + 1
  PROVE  /\ SubSeq(x, i, j) \in Texts /\ Len(SubSeq(x, i, j)) = j - i + 1
         /\ \A k \in 1..(j - i + 1) : SubSeq(x, i, j)[k] = x[i + k - 1]
         /\ \A S : AllIn(S, SubSeq(x, i, j)) <=> \A k \in i..j : x[k] \in S
<1> DEFINE y == SubSeq(x, i, j)
<1>1. Len(x) \in Nat /\ \A k \in 1..Len(x) : x[k] \in 1..255
  BY LenProperties DEF Texts
<1>2. y \in Texts /\ Len(y) = j - i + 1 /\ \A k \in 1..(j - i + 1) : y[k] = x[i + k - 1]
  <2>1. y \in Texts
    BY <1>1 DEF Texts
  <2>2. Len(y) = j - i + 1
    BY <1>1 DEF Texts
  <2>3. \A k \in 1..(j - i + 1) : y[k] = x[i + k - 1]
    BY <1>1 DEF Texts
  <2> QED BY <2>1, <2>2, <2>3
<1>3. DOMAIN y = 1..(j - i + 1)
  BY <1>2 DEF Texts
<1> HIDE DEF y
<1>4. ASSUME NEW S PROVE AllIn(S, y) <=> \A k \in i..j : x[k] \in S
  <2>1. ASSUME AllIn(S, y), NEW k \in i..j PROVE x[k] \in S
    <3>1. k - i + 1 \in 1..(j - i + 1) /\ i + (k - i + 1) - 1 = k
      OBVIOUS
    <3>2. y[k - i + 1] = x[k] /\ y[k - i + 1] \in S
      BY <1>2, <1>3, <2>1, <3>1 DEF AllIn
    <3> QED BY <3>2
  <2>2. ASSUME \A k \in i..j : x[k] \in S, NEW k \in 1..(j - i + 1) PROVE y[k] \in S
    <3>1. i + k - 1 \in i..j
      OBVIOUS
    <3> QED BY <1>2, <2>2, <3>1
  <2> QED BY <1>3, <2>1, <2>2 DEF AllIn
<1> QED BY <1>2, <1>4 DEF y

(* The operators are texts.                                                *)
LEMMA OperatorTexts ==
  \A r \in Operators : OperatorText[r] \in Texts /\ Len(OperatorText[r]) \in Nat \ {0}
<1> DEFINE Good(t) == t \in Texts /\ Len(t) \in Nat \ {0}
<1>10. Good(OperatorText[10])
  BY DEF OperatorText, Operators, Texts
<1>11. Good(OperatorText[11])
  BY DEF OperatorText, Operators, Texts
<1>12. Good(OperatorText[12])
  BY DEF OperatorText, Operators, Texts
<1>13. Good(OperatorText[13])
  BY DEF OperatorText, Operators, Texts
<1>14. Good(OperatorText[14])
  BY DEF OperatorText, Operators, Texts
<1>15. Good(OperatorText[15])
  BY DEF OperatorText, Operators, Texts
<1>16. Good(OperatorText[16])
  BY DEF OperatorText, Operators, Texts
<1>17. Good(OperatorText[17])
  BY DEF OperatorText, Operators, Texts
<1>18. Good(OperatorText[18])
  BY DEF OperatorText, Operators, Texts
<1>19. Good(OperatorText[19])
  BY DEF OperatorText, Operators, Texts
<1>20. Good(OperatorText[20])
  BY DEF OperatorText, Operators, Texts
<1>21. Good(OperatorText[21])
  BY DEF OperatorText, Operators, Texts
<1>22. Good(OperatorText[22])
  BY DEF OperatorText, Operators, Texts
<1> HIDE DEF Good
<1> SUFFICES ASSUME NEW r \in Operators
             PROVE  Good(OperatorText[r])
  BY DEF Good
<1>2. r \in {10, 11, 12, 13, 14, 15, 16, 17, 18, 19, 20, 21, 22}
  BY DEF Operators
<1> QED BY <1>2, <1>10, <1>11, <1>12, <1>13, <1>14, <1>15, <1>16, <1>17, <1>18, <1>19,
     <1>20, <1>21, <1>22

(* An operator's pattern: its bytes between blanks.                          *)
LEMMA MatchesOperator ==
  ASSUME NEW x \in Texts, NEW r \in Operators
  PROVE  Matches(r, x) <=>
           Spells(OperatorText[r], x) \/ (r \notin NoBlankAfter /\ Trails(OperatorText[r], x))
<1> DEFINE op == OperatorText[r]
           Before(n) == AllIn(Blank, SubSeq(x, 1, n))
           There(n)  == SubSeq(x, n + 1, (n + Len(op) + 1) - 1) = op
           After(n)  == AllIn(Blank, SubSeq(x, n + Len(op) + 1, Len(x)))
           Alone(n)  == r \in NoBlankAfter => n + Len(op) + 1 > Len(x)
<1>1. Len(x) \in Nat /\ op \in Texts /\ Len(op) \in Nat \ {0}
  BY OperatorTexts, LenProperties DEF Texts
<1>2. Matches(r, x) <=> \E n \in 0..(Len(x) - Len(op)) :
                         Before(n) /\ There(n) /\ After(n) /\ Alone(n)
  <2>1. Matches(r, x) <=> BetweenBlanks(r, x)
    BY DEF Matches, Operators
  <2> QED BY <2>1, Zenon DEF BetweenBlanks
<1> HIDE DEF op
<1>3. ASSUME NEW n \in 0..(Len(x) - Len(op))
      PROVE  Before(n) /\ There(n) /\ After(n) <=> Framed(op, x, n)
  <2>1. n \in Nat /\ n + Len(op) \in Nat /\ n + Len(op) <= Len(x) /\ n <= Len(x)
    BY <1>1
  <2>2. Before(n) <=> \A k \in 1..n : x[k] \in Blank
    <3>1. 1 \in Nat \ {0} /\ n \in Nat /\ n <= Len(x) /\ 1 <= n + 1
      BY <2>1
    <3> QED BY <3>1, PartOfText, Zenon
  <2>3. After(n) <=> \A k \in (n + Len(op) + 1)..Len(x) : x[k] \in Blank
    <3>1. n + Len(op) + 1 \in Nat \ {0} /\ n + Len(op) + 1 <= Len(x) + 1
      BY <1>1, <2>1
    <3>2. Len(x) <= Len(x)
      BY <1>1
    <3> QED BY <1>1, <3>1, <3>2, PartOfText, Zenon
  <2>4. There(n) <=> \A k \in 1..Len(op) : x[n + k] = op[k]
    <3> DEFINE y == SubSeq(x, n + 1, (n + Len(op) + 1) - 1)
    <3>1. /\ n + 1 \in Nat \ {0} /\ (n + Len(op) + 1) - 1 \in Nat
          /\ (n + Len(op) + 1) - 1 <= Len(x) /\ n + 1 <= (n + Len(op) + 1) - 1 + 1
          /\ (n + Len(op) + 1) - 1 - (n + 1) + 1 = Len(op)
      BY <1>1, <2>1
    <3>2. /\ y \in Texts /\ Len(y) = (n + Len(op) + 1) - 1 - (n + 1) + 1
          /\ \A k \in 1..((n + Len(op) + 1) - 1 - (n + 1) + 1) : y[k] = x[n + 1 + k - 1]
      BY <3>1, PartOfText
    <3> HIDE DEF y
    <3>3. Len(y) = Len(op) /\ \A k \in 1..Len(op) : y[k] = x[n + k]
      <4>1. \A k \in 1..Len(op) : n + 1 + k - 1 = n + k
        BY <1>1, <2>1
      <4> QED BY <3>1, <3>2, <4>1
    <3>4. y = op <=> \A k \in 1..Len(op) : y[k] = op[k]
      BY <1>1, <3>2, <3>3, SameText
    <3>5. y = op <=> \A k \in 1..Len(op) : x[n + k] = op[k]
      BY <3>3, <3>4
    <3> QED BY <3>5 DEF y
  <2> QED BY <2>1, <2>2, <2>3, <2>4 DEF Framed
<1>4. \A n \in 0..(Len(x) - Len(op)) : Alone(n)
        <=> r \notin NoBlankAfter \/ n = Len(x) - Len(op)
  BY <1>1
<1>5. Matches(r, x) <=> \E n \in 0..(Len(x) - Len(op)) :
                         Framed(op, x, n) /\ (r \notin NoBlankAfter \/ n = Len(x) - Len(op))
  BY <1>2, <1>3, <1>4
<1>6. Framed(op, x, Len(x) - Len(op)) => Len(x) - Len(op) \in 0..(Len(x) - Len(op))
  BY <1>1 DEF Framed
<1>7. \A n : n \in 0..(Len(x) - Len(op)) /\ n # Len(x) - Len(op)
              <=> n \in 0..(Len(x) - Len(op) - 1)
  BY <1>1
<1>8. Matches(r, x) <=> Spells(op, x) \/ (r \notin NoBlankAfter /\ Trails(op, x))
  BY <1>5, <1>6, <1>7, Zenon DEF Spells, Trails
<1> QED BY <1>8 DEF op

(* What each rule asks of a text that is not empty.                           *)
LEMMA RulesAsk ==
  ASSUME NEW x \in Texts
  PROVE  /\ Matches(1, x) <=> AllIn(InWord, x)
         /\ Matches(2, x) <=> Closed(x)
         /\ Matches(3, x) <=> Text1(x, Star) \/ Text1(x, Question)
         /\ Matches(4, x) <=> Text2(x, Percent, LetterS)
         /\ Matches(5, x) <=> Text2(x, Percent, LetterP)
         /\ Matches(6, x) <=> Text3(x, Percent, Bang, LetterP)
         /\ Matches(7, x) <=> Text3(x, Percent, Star, LetterP)
         /\ Matches(8, x) <=> Text2(x, Percent, LetterD)
         /\ Matches(9, x) <=> AllIn(Blank, x)
         /\ Matches(10, x) <=> Spells(<<Less>>, x) \/ Trails(<<Less>>, x)
         /\ Matches(11, x) <=> Spells(<<Digit2, Greater, Ampersand, Digit1>>, x)
         /\ Matches(12, x) <=> Spells(<<Digit2, Greater>>, x) \/ Trails(<<Digit2, Greater>>, x)
         /\ Matches(13, x)
              <=> Spells(<<Ampersand, Greater>>, x) \/ Trails(<<Ampersand, Greater>>, x)
         /\ Matches(14, x) <=> Spells(<<Greater>>, x) \/ Trails(<<Greater>>, x)
         /\ Matches(15, x) <=> Spells(<<Greater, Ampersand, Digit2>>, x)
         /\ Matches(16, x)
              <=> Spells(<<Digit2, Greater, Greater>>, x)
                  \/ Trails(<<Digit2, Greater, Greater>>, x)
         /\ Matches(17, x)
              <=> Spells(<<Ampersand, Greater, Greater>>, x)
                  \/ Trails(<<Ampersand, Greater, Greater>>, x)
         /\ Matches(18, x)
              <=> Spells(<<Greater, Greater>>, x) \/ Trails(<<Greater, Greater>>, x)
         /\ Matches(19, x)
              <=> Spells(<<Ampersand, Ampersand>>, x) \/ Trails(<<Ampersand, Ampersand>>, x)
         /\ Matches(20, x) <=> Spells(<<Pipe>>, x) \/ Trails(<<Pipe>>, x)
         /\ Matches(21, x) <=> Spells(<<Pipe, Pipe>>, x) \/ Trails(<<Pipe, Pipe>>, x)
         /\ Matches(22, x) <=> Spells(<<Semicolon>>, x) \/ Trails(<<Semicolon>>, x)
         /\ Matches(23, x) <=> Len(x) = 1
<1>1. Matches(1, x) <=> AllIn(InWord, x)
  BY DEF Matches, Operators
<1>2. Matches(2, x) <=> Closed(x)
  <2>1. Len(x) \in Nat
    BY LenProperties DEF Texts
  <2>2. Matches(2, x) <=> /\ Len(x) > 2 /\ x[1] = 91 /\ x[Len(x)] = 93
                          /\ AllIn(InWord, SubSeq(x, 2, Len(x) - 1))
    BY DEF Matches, Operators
  <2>3. Len(x) > 2 => (AllIn(InWord, SubSeq(x, 2, Len(x) - 1))
                         <=> \A k \in 2..(Len(x) - 1) : x[k] \in InWord)
    <3>1. Len(x) > 2 => 2 \in Nat \ {0} /\ Len(x) - 1 \in Nat
                        /\ Len(x) - 1 <= Len(x) /\ 2 <= Len(x) - 1 + 1
      BY <2>1
    <3> QED BY <3>1, PartOfText
  <2> QED BY <2>2, <2>3 DEF Closed
<1>3. Matches(3, x) <=> Text1(x, Star) \/ Text1(x, Question)
  <2>1. Matches(3, x) <=> x = <<Star>> \/ x = <<Question>>
    BY DEF Matches, Operators, Star, Question
  <2> QED BY <2>1, Spelled, Zenon
<1>4. Matches(4, x) <=> Text2(x, Percent, LetterS)
  <2>1. Matches(4, x) <=> x = Conversion[4]
    BY DEF Matches, Operators
  <2>2. Conversion[4] = <<Percent, LetterS>>
    BY DEF Conversion, Percent, LetterS
  <2>3. x = <<Percent, LetterS>> <=> Text2(x, Percent, LetterS)
    BY Spelled, Zenon
  <2> QED BY <2>1, <2>2, <2>3, Zenon
<1>5. Matches(5, x) <=> Text2(x, Percent, LetterP)
  <2>1. Matches(5, x) <=> x = Conversion[5]
    BY DEF Matches, Operators
  <2>2. Conversion[5] = <<Percent, LetterP>>
    BY DEF Conversion, Percent, LetterP
  <2>3. x = <<Percent, LetterP>> <=> Text2(x, Percent, LetterP)
    BY Spelled, Zenon
  <2> QED BY <2>1, <2>2, <2>3, Zenon
<1>6. Matches(6, x) <=> Text3(x, Percent, Bang, LetterP)
  <2>1. Matches(6, x) <=> x = Conversion[6]
    BY DEF Matches, Operators
  <2>2. Conversion[6] = <<Percent, Bang, LetterP>>
    BY DEF Conversion, Percent, Bang, LetterP
  <2>3. x = <<Percent, Bang, LetterP>> <=> Text3(x, Percent, Bang, LetterP)
    BY Spelled, Zenon
  <2> QED BY <2>1, <2>2, <2>3, Zenon
<1>7. Matches(7, x) <=> Text3(x, Percent, Star, LetterP)
  <2>1. Matches(7, x) <=> x = Conversion[7]
    BY DEF Matches, Operators
  <2>2. Conversion[7] = <<Percent, Star, LetterP>>
    BY DEF Conversion, Percent, Star, LetterP
  <2>3. x = <<Percent, Star, LetterP>> <=> Text3(x, Percent, Star, LetterP)
    BY Spelled, Zenon
  <2> QED BY <2>1, <2>2, <2>3, Zenon
<1>8. Matches(8, x) <=> Text2(x, Percent, LetterD)
  <2>1. Matches(8, x) <=> x = Conversion[8]
    BY DEF Matches, Operators
  <2>2. Conversion[8] = <<Percent, LetterD>>
    BY DEF Conversion, Percent, LetterD
  <2>3. x = <<Percent, LetterD>> <=> Text2(x, Percent, LetterD)
    BY Spelled, Zenon
  <2> QED BY <2>1, <2>2, <2>3, Zenon
<1>9. Matches(9, x) <=> AllIn(Blank, x)
  BY DEF Matches, Operators
<1>10. Matches(10, x) <=> Spells(<<Less>>, x) \/ Trails(<<Less>>, x)
  <2>1. ASSUME NEW r, r = 10
        PROVE  OperatorText[r] = <<Less>> /\ r \in Operators /\ r \notin NoBlankAfter
    BY <2>1 DEF OperatorText, Operators, NoBlankAfter, Less
  <2>2. \A r : r = 10 => (Matches(r, x) <=> Spells(<<Less>>, x) \/ Trails(<<Less>>, x))
    BY <2>1, MatchesOperator, Zenon
  <2> QED BY <2>2
<1>11. Matches(11, x) <=> Spells(<<Digit2, Greater, Ampersand, Digit1>>, x)
  <2>1. ASSUME NEW r, r = 11
        PROVE  OperatorText[r] = <<Digit2, Greater, Ampersand, Digit1>>
               /\ r \in Operators /\ r \in NoBlankAfter
    BY <2>1 DEF OperatorText, Operators, NoBlankAfter, Digit2, Greater, Ampersand, Digit1
  <2>2. \A r : r = 11 => (Matches(r, x) <=> Spells(<<Digit2, Greater, Ampersand, Digit1>>, x))
    BY <2>1, MatchesOperator, Zenon
  <2> QED BY <2>2
<1>12. Matches(12, x) <=> Spells(<<Digit2, Greater>>, x) \/ Trails(<<Digit2, Greater>>, x)
  <2>1. ASSUME NEW r, r = 12
        PROVE  OperatorText[r] = <<Digit2, Greater>>
               /\ r \in Operators /\ r \notin NoBlankAfter
    BY <2>1 DEF OperatorText, Operators, NoBlankAfter, Digit2, Greater
  <2>2. \A r : r = 12 => (Matches(r, x)
          <=> Spells(<<Digit2, Greater>>, x) \/ Trails(<<Digit2, Greater>>, x))
    BY <2>1, MatchesOperator, Zenon
  <2> QED BY <2>2
<1>13. Matches(13, x) <=> Spells(<<Ampersand, Greater>>, x) \/ Trails(<<Ampersand, Greater>>, x)
  <2>1. ASSUME NEW r, r = 13
        PROVE  OperatorText[r] = <<Ampersand, Greater>>
               /\ r \in Operators /\ r \notin NoBlankAfter
    BY <2>1 DEF OperatorText, Operators, NoBlankAfter, Ampersand, Greater
  <2>2. \A r : r = 13 => (Matches(r, x)
          <=> Spells(<<Ampersand, Greater>>, x) \/ Trails(<<Ampersand, Greater>>, x))
    BY <2>1, MatchesOperator, Zenon
  <2> QED BY <2>2
<1>14. Matches(14, x) <=> Spells(<<Greater>>, x) \/ Trails(<<Greater>>, x)
  <2>1. ASSUME NEW r, r = 14
        PROVE  OperatorText[r] = <<Greater>> /\ r \in Operators /\ r \notin NoBlankAfter
    BY <2>1 DEF OperatorText, Operators, NoBlankAfter, Greater
  <2>2. \A r : r = 14 => (Matches(r, x) <=> Spells(<<Greater>>, x) \/ Trails(<<Greater>>, x))
    BY <2>1, MatchesOperator, Zenon
  <2> QED BY <2>2
<1>15. Matches(15, x) <=> Spells(<<Greater, Ampersand, Digit2>>, x)
  <2>1. ASSUME NEW r, r = 15
        PROVE  OperatorText[r] = <<Greater, Ampersand, Digit2>>
               /\ r \in Operators /\ r \in NoBlankAfter
    BY <2>1 DEF OperatorText, Operators, NoBlankAfter, Greater, Ampersand, Digit2
  <2>2. \A r : r = 15 => (Matches(r, x) <=> Spells(<<Greater, Ampersand, Digit2>>, x))
    BY <2>1, MatchesOperator, Zenon
  <2> QED BY <2>2
<1>16. Matches(16, x)
         <=> Spells(<<Digit2, Greater, Greater>>, x) \/ Trails(<<Digit2, Greater, Greater>>, x)
  <2>1. ASSUME NEW r, r = 16
        PROVE  OperatorText[r] = <<Digit2, Greater, Greater>>
               /\ r \in Operators /\ r \notin NoBlankAfter
    BY <2>1 DEF OperatorText, Operators, NoBlankAfter, Digit2, Greater
  <2>2. \A r : r = 16 => (Matches(r, x)
          <=> Spells(<<Digit2, Greater, Greater>>, x)
              \/ Trails(<<Digit2, Greater, Greater>>, x))
    BY <2>1, MatchesOperator, Zenon
  <2> QED BY <2>2
<1>17. Matches(17, x)
         <=> Spells(<<Ampersand, Greater, Greater>>, x)
             \/ Trails(<<Ampersand, Greater, Greater>>, x)
  <2>1. ASSUME NEW r, r = 17
        PROVE  OperatorText[r] = <<Ampersand, Greater, Greater>>
               /\ r \in Operators /\ r \notin NoBlankAfter
    BY <2>1 DEF OperatorText, Operators, NoBlankAfter, Ampersand, Greater
  <2>2. \A r : r = 17 => (Matches(r, x)
          <=> Spells(<<Ampersand, Greater, Greater>>, x)
              \/ Trails(<<Ampersand, Greater, Greater>>, x))
    BY <2>1, MatchesOperator, Zenon
  <2> QED BY <2>2
<1>18. Matches(18, x) <=> Spells(<<Greater, Greater>>, x) \/ Trails(<<Greater, Greater>>, x)
  <2>1. ASSUME NEW r, r = 18
        PROVE  OperatorText[r] = <<Greater, Greater>>
               /\ r \in Operators /\ r \notin NoBlankAfter
    BY <2>1 DEF OperatorText, Operators, NoBlankAfter, Greater
  <2>2. \A r : r = 18 => (Matches(r, x)
          <=> Spells(<<Greater, Greater>>, x) \/ Trails(<<Greater, Greater>>, x))
    BY <2>1, MatchesOperator, Zenon
  <2> QED BY <2>2
<1>19. Matches(19, x)
         <=> Spells(<<Ampersand, Ampersand>>, x) \/ Trails(<<Ampersand, Ampersand>>, x)
  <2>1. ASSUME NEW r, r = 19
        PROVE  OperatorText[r] = <<Ampersand, Ampersand>>
               /\ r \in Operators /\ r \notin NoBlankAfter
    BY <2>1 DEF OperatorText, Operators, NoBlankAfter, Ampersand
  <2>2. \A r : r = 19 => (Matches(r, x)
          <=> Spells(<<Ampersand, Ampersand>>, x) \/ Trails(<<Ampersand, Ampersand>>, x))
    BY <2>1, MatchesOperator, Zenon
  <2> QED BY <2>2
<1>20. Matches(20, x) <=> Spells(<<Pipe>>, x) \/ Trails(<<Pipe>>, x)
  <2>1. ASSUME NEW r, r = 20
        PROVE  OperatorText[r] = <<Pipe>> /\ r \in Operators /\ r \notin NoBlankAfter
    BY <2>1 DEF OperatorText, Operators, NoBlankAfter, Pipe
  <2>2. \A r : r = 20 => (Matches(r, x) <=> Spells(<<Pipe>>, x) \/ Trails(<<Pipe>>, x))
    BY <2>1, MatchesOperator, Zenon
  <2> QED BY <2>2
<1>21. Matches(21, x) <=> Spells(<<Pipe, Pipe>>, x) \/ Trails(<<Pipe, Pipe>>, x)
  <2>1. ASSUME NEW r, r = 21
        PROVE  OperatorText[r] = <<Pipe, Pipe>> /\ r \in Operators /\ r \notin NoBlankAfter
    BY <2>1 DEF OperatorText, Operators, NoBlankAfter, Pipe
  <2>2. \A r : r = 21 => (Matches(r, x)
          <=> Spells(<<Pipe, Pipe>>, x) \/ Trails(<<Pipe, Pipe>>, x))
    BY <2>1, MatchesOperator, Zenon
  <2> QED BY <2>2
<1>22. Matches(22, x) <=> Spells(<<Semicolon>>, x) \/ Trails(<<Semicolon>>, x)
  <2>1. ASSUME NEW r, r = 22
        PROVE  OperatorText[r] = <<Semicolon>> /\ r \in Operators /\ r \notin NoBlankAfter
    BY <2>1 DEF OperatorText, Operators, NoBlankAfter, Semicolon
  <2>2. \A r : r = 22 => (Matches(r, x)
          <=> Spells(<<Semicolon>>, x) \/ Trails(<<Semicolon>>, x))
    BY <2>1, MatchesOperator, Zenon
  <2> QED BY <2>2
<1>23. Matches(23, x) <=> Len(x) = 1
  BY DEF Matches, Operators
<1> QED BY <1>1, <1>2, <1>3, <1>4, <1>5, <1>6, <1>7, <1>8, <1>9, <1>10, <1>11, <1>12, <1>13,
     <1>14, <1>15, <1>16, <1>17, <1>18, <1>19, <1>20, <1>21, <1>22, <1>23

(* The states that a rule's pattern leads to.                                *)
MatchStates(r) ==
  CASE r = 1 -> {9, 10, 30}
    [] r = 2 -> {50}
    [] r = 3 -> {8}
    [] r = 4 -> {27}
    [] r = 5 -> {26}
    [] r = 6 -> {40}
    [] r = 7 -> {41}
    [] r = 8 -> {25}
    [] r = 9 -> {5, 16}
    [] r = 10 -> {12, 20, 33}
    [] r = 11 -> {53}
    [] r = 12 -> {31, 45}
    [] r = 13 -> {29, 43}
    [] r = 14 -> {13, 21, 34}
    [] r = 15 -> {48}
    [] r = 16 -> {47, 54}
    [] r = 17 -> {44, 52}
    [] r = 18 -> {36, 49}
    [] r = 19 -> {28, 42}
    [] r = 20 -> {15, 22, 38}
    [] r = 21 -> {39, 51}
    [] r = 22 -> {11, 19, 32}
    [] r = 23 -> 4..15

(* A rule matches a text exactly if the text leads to one of its states.   *)
LEMMA MatchedWhere ==
  ASSUME NEW s, NEW x, Reads(s, x), Len(x) # 0
  PROVE  s \in 4..JamState /\ \A r \in 1..23 : Matches(r, x) <=> s \in MatchStates(r)
<1>0. /\ s \in KnownStates /\ x \in Texts
      /\ ReadsPlain(s, x) /\ ReadsConversion(s, x)
      /\ ReadsOperator(s, x) /\ ReadsBlanksAfter(s, x)
  BY DEF Reads
<1>1. s # 1 /\ s \in 4..JamState
  BY <1>0 DEF ReadsPlain, KnownStates, StartState
<1>r1. Matches(1, x) <=> s \in MatchStates(1)
  <2>1. Matches(1, x) <=> s \in {9, 10, 30}
    BY <1>0, <1>1, RulesAsk DEF ReadsPlain
  <2> QED BY <2>1 DEF MatchStates
<1>r2. Matches(2, x) <=> s \in MatchStates(2)
  <2>1. Matches(2, x) <=> s \in {50}
    BY <1>0, <1>1, RulesAsk DEF ReadsPlain
  <2> QED BY <2>1 DEF MatchStates
<1>r3. Matches(3, x) <=> s \in MatchStates(3)
  <2>1. Matches(3, x) <=> s \in {8}
    BY <1>0, <1>1, RulesAsk DEF ReadsPlain
  <2> QED BY <2>1 DEF MatchStates
<1>r4. Matches(4, x) <=> s \in MatchStates(4)
  <2>1. Matches(4, x) <=> s \in {27}
    BY <1>0, <1>1, RulesAsk DEF ReadsConversion
  <2> QED BY <2>1 DEF MatchStates
<1>r5. Matches(5, x) <=> s \in MatchStates(5)
  <2>1. Matches(5, x) <=> s \in {26}
    BY <1>0, <1>1, RulesAsk DEF ReadsConversion
  <2> QED BY <2>1 DEF MatchStates
<1>r6. Matches(6, x) <=> s \in MatchStates(6)
  <2>1. Matches(6, x) <=> s \in {40}
    BY <1>0, <1>1, RulesAsk DEF ReadsConversion
  <2> QED BY <2>1 DEF MatchStates
<1>r7. Matches(7, x) <=> s \in MatchStates(7)
  <2>1. Matches(7, x) <=> s \in {41}
    BY <1>0, <1>1, RulesAsk DEF ReadsConversion
  <2> QED BY <2>1 DEF MatchStates
<1>r8. Matches(8, x) <=> s \in MatchStates(8)
  <2>1. Matches(8, x) <=> s \in {25}
    BY <1>0, <1>1, RulesAsk DEF ReadsConversion
  <2> QED BY <2>1 DEF MatchStates
<1>r9. Matches(9, x) <=> s \in MatchStates(9)
  <2>1. Matches(9, x) <=> s \in {5, 16}
    BY <1>0, <1>1, RulesAsk DEF ReadsPlain
  <2> QED BY <2>1 DEF MatchStates
<1>r10. Matches(10, x) <=> s \in MatchStates(10)
  <2>1. Matches(10, x) <=> s \in {12, 20, 33}
    BY <1>0, <1>1, RulesAsk DEF ReadsOperator, ReadsBlanksAfter
  <2> QED BY <2>1 DEF MatchStates
<1>r11. Matches(11, x) <=> s \in MatchStates(11)
  <2>1. Matches(11, x) <=> s \in {53}
    BY <1>0, <1>1, RulesAsk DEF ReadsOperator
  <2> QED BY <2>1 DEF MatchStates
<1>r12. Matches(12, x) <=> s \in MatchStates(12)
  <2>1. Matches(12, x) <=> s \in {31, 45}
    BY <1>0, <1>1, RulesAsk DEF ReadsOperator, ReadsBlanksAfter
  <2> QED BY <2>1 DEF MatchStates
<1>r13. Matches(13, x) <=> s \in MatchStates(13)
  <2>1. Matches(13, x) <=> s \in {29, 43}
    BY <1>0, <1>1, RulesAsk DEF ReadsOperator, ReadsBlanksAfter
  <2> QED BY <2>1 DEF MatchStates
<1>r14. Matches(14, x) <=> s \in MatchStates(14)
  <2>1. Matches(14, x) <=> s \in {13, 21, 34}
    BY <1>0, <1>1, RulesAsk DEF ReadsOperator, ReadsBlanksAfter
  <2> QED BY <2>1 DEF MatchStates
<1>r15. Matches(15, x) <=> s \in MatchStates(15)
  <2>1. Matches(15, x) <=> s \in {48}
    BY <1>0, <1>1, RulesAsk DEF ReadsOperator
  <2> QED BY <2>1 DEF MatchStates
<1>r16. Matches(16, x) <=> s \in MatchStates(16)
  <2>1. Matches(16, x) <=> s \in {47, 54}
    BY <1>0, <1>1, RulesAsk DEF ReadsOperator, ReadsBlanksAfter
  <2> QED BY <2>1 DEF MatchStates
<1>r17. Matches(17, x) <=> s \in MatchStates(17)
  <2>1. Matches(17, x) <=> s \in {44, 52}
    BY <1>0, <1>1, RulesAsk DEF ReadsOperator, ReadsBlanksAfter
  <2> QED BY <2>1 DEF MatchStates
<1>r18. Matches(18, x) <=> s \in MatchStates(18)
  <2>1. Matches(18, x) <=> s \in {36, 49}
    BY <1>0, <1>1, RulesAsk DEF ReadsOperator, ReadsBlanksAfter
  <2> QED BY <2>1 DEF MatchStates
<1>r19. Matches(19, x) <=> s \in MatchStates(19)
  <2>1. Matches(19, x) <=> s \in {28, 42}
    BY <1>0, <1>1, RulesAsk DEF ReadsOperator, ReadsBlanksAfter
  <2> QED BY <2>1 DEF MatchStates
<1>r20. Matches(20, x) <=> s \in MatchStates(20)
  <2>1. Matches(20, x) <=> s \in {15, 22, 38}
    BY <1>0, <1>1, RulesAsk DEF ReadsOperator, ReadsBlanksAfter
  <2> QED BY <2>1 DEF MatchStates
<1>r21. Matches(21, x) <=> s \in MatchStates(21)
  <2>1. Matches(21, x) <=> s \in {39, 51}
    BY <1>0, <1>1, RulesAsk DEF ReadsOperator, ReadsBlanksAfter
  <2> QED BY <2>1 DEF MatchStates
<1>r22. Matches(22, x) <=> s \in MatchStates(22)
  <2>1. Matches(22, x) <=> s \in {11, 19, 32}
    BY <1>0, <1>1, RulesAsk DEF ReadsOperator, ReadsBlanksAfter
  <2> QED BY <2>1 DEF MatchStates
<1>r23. Matches(23, x) <=> s \in MatchStates(23)
  <2>1. Matches(23, x) <=> s \in 4..15
    BY <1>0, <1>1, RulesAsk DEF ReadsPlain
  <2> QED BY <2>1 DEF MatchStates
<1> QED
  <2> SUFFICES ASSUME NEW r \in 1..23 PROVE Matches(r, x) <=> s \in MatchStates(r)
    BY <1>1
  <2>1. r \in {1, 2, 3, 4, 5, 6, 7, 8, 9, 10, 11, 12, 13, 14, 15, 16, 17, 18, 19, 20, 21, 22, 23}
    OBVIOUS
  <2> QED BY <2>1, <1>r1, <1>r2, <1>r3, <1>r4, <1>r5, <1>r6, <1>r7, <1>r8, <1>r9, <1>r10,
       <1>r11, <1>r12, <1>r13, <1>r14, <1>r15, <1>r16, <1>r17, <1>r18, <1>r19, <1>r20, <1>r21,
       <1>r22, <1>r23

(***************************************************************************)
(* The longest match                                                       *)
(***************************************************************************)
(* A state that accepts knows the first rule that matches, and one that does *)
(* not is reached by no text that a rule matches.                           *)
LEMMA TableAccepts ==
  \A s \in 4..JamState :
    IF Accepts(s)
    THEN /\ At(yy_accept, s) \in 1..23 /\ s \in MatchStates(At(yy_accept, s))
         /\ \A q \in 1..(At(yy_accept, s) - 1) : s \notin MatchStates(q)
    ELSE \A r \in 1..23 : s \notin MatchStates(r)
BY DEF Accepts, yy_accept, At, MatchStates, JamState

(* A text that is no token.                                                *)
NoRuleMatches(x) == \A r \in 1..23 : ~Matches(r, x)

(* So the table of actions knows the first rule that matches.              *)
LEMMA Accepted ==
  ASSUME NEW s, NEW x, Reads(s, x), Len(x) # 0
  PROVE  IF Accepts(s)
         THEN /\ At(yy_accept, s) \in 1..23 /\ Matches(At(yy_accept, s), x)
              /\ \A q \in 1..(At(yy_accept, s) - 1) : ~Matches(q, x)
         ELSE NoRuleMatches(x)
<1>1. s \in 4..JamState /\ \A r \in 1..23 : Matches(r, x) <=> s \in MatchStates(r)
  BY MatchedWhere
<1>2. CASE Accepts(s)
  <2>1. /\ At(yy_accept, s) \in 1..23 /\ s \in MatchStates(At(yy_accept, s))
        /\ \A q \in 1..(At(yy_accept, s) - 1) : s \notin MatchStates(q)
    BY <1>1, <1>2, TableAccepts, Zenon
  <2> DEFINE a == At(yy_accept, s)
  <2> HIDE DEF a
  <2>2. a \in 1..23 /\ s \in MatchStates(a) /\ \A q \in 1..(a - 1) : s \notin MatchStates(q)
    BY <2>1 DEF a
  <2>3. a \in 1..23 /\ Matches(a, x) /\ \A q \in 1..(a - 1) : ~Matches(q, x)
    <3>1. Matches(a, x)
      BY <1>1, <2>2
    <3>2. ASSUME NEW q \in 1..(a - 1) PROVE ~Matches(q, x)
      <4>1. q \in 1..23 /\ s \notin MatchStates(q)
        BY <2>2
      <4> QED BY <1>1, <4>1
    <3> QED BY <2>2, <3>1, <3>2
  <2> QED BY <1>2, <2>3 DEF a
<1>3. CASE ~Accepts(s)
  <2>1. \A r \in 1..23 : s \notin MatchStates(r)
    BY <1>1, <1>3, TableAccepts, Zenon
  <2> QED BY <1>1, <1>3, <2>1 DEF NoRuleMatches
<1> QED BY <1>2, <1>3

(* A state that stops the match loop has no way on.                          *)
LEMMA JammedGoesNowhere ==
  ASSUME NEW s \in KnownStates, Jammed(s), NEW b \in 1..255
  PROVE  Goto(s, b) = JamState
<1>1. s \in {4, 8, 25, 26, 27, 40, 41, 48, 50, 53, 55}
  BY DEF KnownStates, StartState, JamState, Jammed, yy_base, At, JamBase
<1>2. At(yy_ec, b) \in 1..20
  BY Classes DEF Bytes
<1>3. Arrow(s, At(yy_ec, b)) = JamState
  BY <1>1 DEF Arrow
<1> QED BY <1>2, <1>3, Arrows DEF Goto

(* The text of the match at hand that ends before place p.                   *)
Text(p) == SubSeq(fmt, text_ptr, p - 1)

(* The text grows by the bytes of the format.                              *)
LEMMA TextTo ==
  ASSUME fmt \in Formats, text_ptr \in 1..(N + 1)
  PROVE  /\ Text(text_ptr) = <<>>
         /\ \A p \in text_ptr..(N + 1) : /\ Text(p) \in Texts /\ Len(Text(p)) = p - text_ptr
         /\ \A p \in text_ptr..N : fmt[p] \in 1..255 /\ Text(p + 1) = Append(Text(p), fmt[p])
<1>1. fmt \in Texts /\ N \in Nat /\ N = Len(fmt)
  BY FormatsAreStrings, LenProperties DEF Texts, N
<1>2. ASSUME NEW p \in text_ptr..(N + 1)
      PROVE  /\ Text(p) \in Texts /\ Len(Text(p)) = p - text_ptr
             /\ \A k \in 1..(p - text_ptr) : Text(p)[k] = fmt[text_ptr + k - 1]
  <2>1. /\ text_ptr \in Nat \ {0} /\ p - 1 \in Nat /\ p - 1 <= Len(fmt) /\ text_ptr <= p - 1 + 1
        /\ p - 1 - text_ptr + 1 = p - text_ptr
    BY <1>1
  <2>2. /\ SubSeq(fmt, text_ptr, p - 1) \in Texts
        /\ Len(SubSeq(fmt, text_ptr, p - 1)) = p - 1 - text_ptr + 1
        /\ \A k \in 1..(p - 1 - text_ptr + 1) :
             SubSeq(fmt, text_ptr, p - 1)[k] = fmt[text_ptr + k - 1]
    BY <1>1, <2>1, PartOfText, Zenon
  <2> QED BY <2>1, <2>2 DEF Text
<1>3. Text(text_ptr) = <<>>
  <2>1. Len(Text(text_ptr)) = 0 /\ Text(text_ptr) \in Texts
    BY <1>1, <1>2
  <2> QED BY <2>1, EmptySeq DEF Texts
<1>4. ASSUME NEW p \in text_ptr..N
      PROVE  fmt[p] \in 1..255 /\ Text(p + 1) = Append(Text(p), fmt[p])
  <2>1. fmt[p] \in 1..255
    BY <1>1, ElementOfSeq DEF Texts
  <2> DEFINE x == Text(p)
             y == Text(p + 1)
             z == Append(Text(p), fmt[p])
  <2>2. /\ x \in Texts /\ Len(x) = p - text_ptr
        /\ \A k \in 1..(p - text_ptr) : x[k] = fmt[text_ptr + k - 1]
    <3>1. p \in text_ptr..(N + 1)
      BY <1>1
    <3> QED BY <1>2, <3>1
  <2>3. /\ y \in Texts /\ Len(y) = p + 1 - text_ptr
        /\ \A k \in 1..(p + 1 - text_ptr) : y[k] = fmt[text_ptr + k - 1]
    <3>1. p + 1 \in text_ptr..(N + 1)
      BY <1>1
    <3> QED BY <1>2, <3>1
  <2>4. /\ z \in Texts /\ Len(z) = Len(x) + 1 /\ z[Len(x) + 1] = fmt[p]
        /\ \A k \in 1..Len(x) : z[k] = x[k]
    BY <2>1, <2>2, OneMore
  <2> HIDE DEF x, y, z
  <2>5. Len(y) = Len(z)
    BY <1>1, <2>2, <2>3, <2>4
  <2>6. ASSUME NEW k \in 1..Len(y) PROVE y[k] = z[k]
    <3>1. CASE k <= p - text_ptr
      <4>1. k \in 1..Len(x)
        BY <1>1, <2>2, <2>3, <3>1
      <4> QED BY <2>2, <2>3, <2>4, <4>1
    <3>2. CASE k = p - text_ptr + 1
      <4>1. text_ptr + k - 1 = p /\ k = Len(x) + 1
        BY <1>1, <2>2, <3>2
      <4> QED BY <2>3, <2>4, <4>1
    <3> QED BY <1>1, <2>3, <3>1, <3>2
  <2>7. y = z
    BY <2>3, <2>4, <2>5, <2>6, SameText
  <2> QED BY <2>1, <2>7 DEF y, z
<1> QED BY <1>2, <1>3, <1>4

(* No rule matches a text that ends behind p and up to q.                    *)
Silent(p, q) == \A m \in (p + 1)..q : NoRuleMatches(Text(m))

(* Where the match loop stops no longer text matches.                      *)
LEMMA JamIsSilent ==
  ASSUME fmt \in Formats, text_ptr \in 1..(N + 1), NEW p \in (text_ptr + 1)..(N + 1),
         NEW s, Reads(s, Text(p)), Jammed(s)
  PROVE  Silent(p, N + 1)
<1>1. N \in Nat /\ p \in Nat
  BY FullBuffer
<1>2. /\ \A q \in text_ptr..(N + 1) : /\ Text(q) \in Texts /\ Len(Text(q)) = q - text_ptr
      /\ \A q \in text_ptr..N : fmt[q] \in 1..255 /\ Text(q + 1) = Append(Text(q), fmt[q])
  BY TextTo
<1> DEFINE K == N + 1 - p
           T == {n \in Nat : \E t : Reads(t, Text(p + n)) /\ Jammed(t)
                                    /\ (n > 0 => t = JamState)}
<1>3. 0 \in T
  <2>1. p + 0 = p
    BY <1>1
  <2> QED BY <2>1
<1>4. ASSUME NEW n \in 0..(K - 1), n \in T PROVE n + 1 \in T
  <2>1. PICK t : Reads(t, Text(p + n)) /\ Jammed(t)
    BY <1>4
  <2>2. p + n \in text_ptr..N /\ p + (n + 1) = p + n + 1 /\ n + 1 \in Nat
    BY <1>1
  <2>3. fmt[p + n] \in 1..255 /\ Text(p + n + 1) = Append(Text(p + n), fmt[p + n])
    BY <1>2, <2>2
  <2>4. t \in KnownStates
    BY <2>1 DEF Reads
  <2>5. JamState = Goto(t, fmt[p + n])
    BY <2>1, <2>3, <2>4, JammedGoesNowhere
  <2>6. Reads(JamState, Append(Text(p + n), fmt[p + n]))
    BY <2>1, <2>3, <2>5, ReadsOn
  <2>7. Reads(JamState, Text(p + (n + 1)))
    BY <2>2, <2>3, <2>6
  <2> QED BY <2>2, <2>7, JamDoesNotAccept
<1>5. \A n \in 0..K : n \in T
  <2>1. K \in Nat
    BY <1>1
  <2> HIDE DEF T, K
  <2> QED BY <1>3, <1>4, <2>1, BoundedInduction
<1>6. ASSUME NEW m \in (p + 1)..(N + 1) PROVE NoRuleMatches(Text(m))
  <2>1. m - p \in 0..K /\ m - p > 0 /\ p + (m - p) = m /\ m \in text_ptr..(N + 1)
        /\ m - text_ptr # 0
    BY <1>1
  <2>2. Reads(JamState, Text(m))
    BY <1>5, <2>1
  <2>3. Len(Text(m)) # 0
    BY <1>2, <2>1
  <2> QED BY <2>2, <2>3, Accepted, JamDoesNotAccept
<1> QED BY <1>6 DEF Silent

(* The longest match and the first rule determine the token.                 *)
LEMMA TokenIs ==
  ASSUME NEW f \in Texts, NEW i \in 1..(Len(f) + 1), NEW len \in 1..(Len(f) + 1 - i),
         NEW r \in 1..23, Matches(r, SubSeq(f, i, i + len - 1)),
         \A q \in 1..(r - 1) : ~Matches(q, SubSeq(f, i, i + len - 1)),
         \A m \in (len + 1)..(Len(f) + 1 - i) : NoRuleMatches(SubSeq(f, i, i + m - 1))
  PROVE  TokenAt(f, i) = [rule |-> r, length |-> len]
<1> DEFINE Fits(q, m) == Matches(q, SubSeq(f, i, i + m - 1))
           lengths == {m \in 1..(Len(f) + 1 - i) : \E q \in 1..23 : Fits(q, m)}
           longest == CHOOSE m \in lengths : \A n \in lengths : n <= m
           first   == CHOOSE q \in 1..23 : Fits(q, longest)
                                           /\ \A p \in 1..(q - 1) : ~Fits(p, longest)
<1>1. TokenAt(f, i) = [rule |-> first, length |-> longest]
  BY Zenon DEF TokenAt
<1>2. Len(f) \in Nat
  BY LenProperties DEF Texts
<1>3. /\ Fits(r, len) /\ \A q \in 1..(r - 1) : ~Fits(q, len)
      /\ \A m \in (len + 1)..(Len(f) + 1 - i) : \A q \in 1..23 : ~Fits(q, m)
  BY DEF NoRuleMatches
<1> HIDE DEF Fits
<1>4. len \in lengths /\ \A n \in lengths : n \in Nat /\ n <= len
  <2>1. len \in lengths
    BY <1>3
  <2>2. ASSUME NEW n \in lengths PROVE n \in Nat /\ n <= len
    <3>1. n \in 1..(Len(f) + 1 - i) /\ \E q \in 1..23 : Fits(q, n)
      OBVIOUS
    <3>2. ~(n \in (len + 1)..(Len(f) + 1 - i))
      BY <1>3, <3>1
    <3> QED BY <1>2, <3>1, <3>2
  <2> QED BY <2>1, <2>2
<1>5. longest = len
  <2> HIDE DEF lengths
  <2>1. \A m \in lengths : (\A n \in lengths : n <= m) => m = len
    BY <1>4
  <2>2. longest \in lengths /\ \A n \in lengths : n <= longest
    BY <1>4
  <2> QED BY <2>1, <2>2
<1>6. first = r
  <2> DEFINE Is(q) == Fits(q, len) /\ \A p \in 1..(q - 1) : ~Fits(p, len)
  <2>1. \A q \in 1..23 : Is(q) => q = r
    BY <1>3
  <2>2. r \in 1..23 /\ Is(r)
    BY <1>3
  <2>3. first = CHOOSE q \in 1..23 : Is(q)
    BY <1>5
  <2> HIDE DEF Is, first
  <2> QED BY <2>1, <2>2, <2>3
<1> QED BY <1>1, <1>5, <1>6

(***************************************************************************)
(* The inductive invariant of the longest match                            *)
(***************************************************************************)
(* A state has read the text before p, and no longer text up to q is one.    *)
TokenRead(state, p, q) == Reads(state, Text(p)) /\ Silent(p, q)

(* While a match goes on.                                                  *)
ReadSoFar ==
  cp <= N + 1 =>
    /\ Reads(cur, Text(cp))
    /\ cp > text_ptr + 1 => last_cpos < cp /\ TokenRead(last_state, last_cpos, cp - 1)

(* When it has found a token, which is not the end of the buffer.          *)
TokenFound(state, p) == p <= N + 1 => TokenRead(state, p, N + 1)

(* While it matches, the state is where the text leads, and the state that the *)
(* scanner backs up to read the longest token so far.                      *)
LongestInv ==
  /\ at \in {"match", "again"} => ReadSoFar
  /\ at = "find"
       => IF Accepts(cur) THEN TokenFound(cur, cp) ELSE TokenFound(last_state, last_cpos)
  /\ at = "act" => TokenFound(cur, cp)

(* A match starts with nothing read.                                         *)
LEMMA NothingReadYet ==
  ASSUME fmt \in Formats, NEW i \in 1..(N + 1)
  PROVE  Reads(StartState, SubSeq(fmt, i, i - 1))
<1>1. fmt \in Texts /\ N \in Nat /\ N = Len(fmt)
  BY FormatsAreStrings, LenProperties DEF Texts, N
<1>2. /\ i \in Nat \ {0} /\ i - 1 \in Nat /\ i - 1 <= Len(fmt) /\ i <= i - 1 + 1
      /\ i - 1 - i + 1 = 0
  BY <1>1
<1>3. SubSeq(fmt, i, i - 1) \in Texts /\ Len(SubSeq(fmt, i, i - 1)) = i - 1 - i + 1
  BY <1>1, <1>2, PartOfText, Zenon
<1>4. SubSeq(fmt, i, i - 1) = <<>>
  BY <1>2, <1>3, EmptySeq DEF Texts
<1> QED BY <1>4, NothingRead

(* One more byte, the first time or again.                                   *)
LEMMA OneByteRead ==
  ASSUME fmt \in Formats, Matching, OneByte, ReadSoFar, cp <= N + 1
  PROVE  /\ cp <= N => Reads(cur', Text(cp + 1))
         /\ cp > text_ptr => last_cpos' <= cp /\ TokenRead(last_state', last_cpos', cp)
<1>1. /\ N \in Nat /\ text_ptr \in 1..(N + 1) /\ cp \in text_ptr..(N + 1) /\ ch_buf = Whole
      /\ \A n \in 1..N : Whole[n] = fmt[n]
  <2>1. fmt \in Seq(1..255)
    BY FormatsAreStrings
  <2>2. \A n \in 1..N : Whole[n] = fmt[n]
    <3>1. fmt \in Seq(Bytes) /\ <<0, 0>> \in Seq(Bytes) /\ N = Len(fmt)
      BY <2>1, SeqMonotonic DEF Bytes, N
    <3> QED BY <3>1, ConcatProperties DEF Whole
  <2> QED BY <2>2, FullBuffer DEF Matching
<1>2. /\ \A p \in text_ptr..(N + 1) : /\ Text(p) \in Texts /\ Len(Text(p)) = p - text_ptr
      /\ \A p \in text_ptr..N : fmt[p] \in 1..255 /\ Text(p + 1) = Append(Text(p), fmt[p])
  BY <1>1, TextTo
<1>3. Reads(cur, Text(cp))
  BY DEF ReadSoFar
<1>4. ASSUME cp <= N PROVE Reads(cur', Text(cp + 1))
  <2>1. cp \in text_ptr..N
    BY <1>1, <1>4
  <2>2. fmt[cp] \in 1..255 /\ Text(cp + 1) = Append(Text(cp), fmt[cp]) /\ ch_buf[cp] = fmt[cp]
    BY <1>1, <1>2, <2>1
  <2>3. cur' = Goto(cur, fmt[cp])
    BY <2>2 DEF OneByte
  <2> QED BY <1>3, <2>2, <2>3, ReadsOn
<1>5. ASSUME cp > text_ptr
      PROVE  last_cpos' <= cp /\ TokenRead(last_state', last_cpos', cp)
  <2>1. Len(Text(cp)) # 0
    BY <1>1, <1>2, <1>5
  <2>2. CASE Accepts(cur)
    <3>1. last_state' = cur /\ last_cpos' = cp
      BY <2>2 DEF OneByte
    <3>2. Silent(cp, cp)
      BY <1>1 DEF Silent
    <3> QED BY <1>1, <1>3, <3>1, <3>2 DEF TokenRead
  <2>3. CASE ~Accepts(cur)
    <3>1. last_state' = last_state /\ last_cpos' = last_cpos
      BY <2>3 DEF OneByte
    <3>2. cp > text_ptr + 1
      BY <1>1, <1>5, <2>3 DEF Matching
    <3>3. /\ last_cpos < cp /\ Reads(last_state, Text(last_cpos))
          /\ Silent(last_cpos, cp - 1) /\ last_cpos \in Nat
      BY <1>1, <3>2 DEF ReadSoFar, TokenRead, Matching, Remembered
    <3>4. NoRuleMatches(Text(cp))
      BY <1>3, <2>1, <2>3, Accepted
    <3>5. Silent(last_cpos, cp)
      <4> SUFFICES ASSUME NEW m \in (last_cpos + 1)..cp PROVE NoRuleMatches(Text(m))
        BY DEF Silent
      <4>1. CASE m = cp
        BY <3>4, <4>1
      <4>2. CASE m # cp
        BY <1>1, <3>3, <4>2 DEF Silent
      <4> QED BY <4>1, <4>2
    <3> QED BY <1>1, <3>1, <3>3, <3>5 DEF TokenRead
  <2> QED BY <2>2, <2>3
<1> QED BY <1>4, <1>5

(* Where the match loop stops, the token that it remembers is the longest.   *)
LEMMA NoneLonger ==
  ASSUME fmt \in Formats, text_ptr \in 1..(N + 1), NEW p \in (text_ptr + 1)..(N + 1),
         NEW s, Reads(s, Text(p)), ~Accepts(s), Silent(p, N + 1),
         NEW t, NEW q \in Nat, q < p, TokenRead(t, q, p - 1)
  PROVE  TokenRead(t, q, N + 1)
<1>1. N \in Nat /\ p \in Nat
  BY FullBuffer
<1>2. Len(Text(p)) # 0
  BY <1>1, TextTo
<1>3. NoRuleMatches(Text(p))
  BY <1>2, Accepted
<1>4. ASSUME NEW m \in (q + 1)..(N + 1) PROVE NoRuleMatches(Text(m))
  <2>1. CASE m < p
    BY <1>1, <2>1 DEF TokenRead, Silent
  <2>2. CASE m = p
    BY <1>3, <2>2
  <2>3. CASE m > p
    BY <1>1, <2>3 DEF Silent
  <2> QED BY <1>1, <2>1, <2>2, <2>3
<1> QED BY <1>4 DEF TokenRead, Silent

(* Each step keeps it.  A call and a second match start with nothing read, *)
LEMMA CallReads == ASSUME SInv, CallLex PROVE LongestInv'
<1>1. fmt \in Formats /\ c_buf_p \in 1..(N + 1) /\ N \in Nat
  BY FullBuffer DEF SInv, CallLex
<1>2. /\ fmt' = fmt /\ text_ptr' = c_buf_p /\ cp' = c_buf_p /\ cur' = StartState
      /\ at' = "match"
  BY DEF CallLex
<1>3. Reads(StartState, SubSeq(fmt, c_buf_p, c_buf_p - 1))
  BY <1>1, NothingReadYet
<1>4. ReadSoFar'
  BY <1>1, <1>2, <1>3 DEF ReadSoFar, Text
<1> QED BY <1>2, <1>4 DEF LongestInv

LEMMA LastReads == ASSUME SInv, LastMatch PROVE LongestInv'
<1>1. fmt \in Formats /\ text_ptr \in 1..(N + 1) /\ N \in Nat
  BY AtTheEnd DEF LastMatch
<1>2. /\ fmt' = fmt /\ text_ptr' = text_ptr /\ cp' = text_ptr /\ cur' = StartState
      /\ at' = "again"
  BY DEF LastMatch
<1>3. Reads(StartState, SubSeq(fmt, text_ptr, text_ptr - 1))
  BY <1>1, NothingReadYet
<1>4. ReadSoFar'
  BY <1>1, <1>2, <1>3 DEF ReadSoFar, Text
<1> QED BY <1>2, <1>4 DEF LongestInv

(* One more byte inside the format.                                          *)
LEMMA ByteOfFormat ==
  ASSUME fmt \in Formats, Matching, OneByte, ReadSoFar, cp <= N
  PROVE  ReadSoFar'
<1>1. N \in Nat /\ N' = N /\ fmt' = fmt /\ text_ptr' = text_ptr /\ cp' = cp + 1
      /\ cp \in text_ptr..N /\ text_ptr \in Nat
  BY FullBuffer DEF OneByte, Matching, N
<1>2. /\ Reads(cur', Text(cp + 1))
      /\ cp > text_ptr => last_cpos' <= cp /\ TokenRead(last_state', last_cpos', cp)
  BY <1>1, OneByteRead
<1>3. last_cpos' \in Int \/ ~(cp > text_ptr)
  BY <1>1, MatchingGoesOn DEF Matching, Remembered
<1>4. Reads(cur, Text(cp))'
  BY <1>1, <1>2 DEF Text
<1>5. ASSUME cp' > text_ptr' + 1
      PROVE  last_cpos' < cp' /\ TokenRead(last_state, last_cpos, cp - 1)'
  <2>1. cp > text_ptr /\ cp' - 1 = cp
    BY <1>1, <1>5
  <2>2. last_cpos' <= cp /\ TokenRead(last_state', last_cpos', cp)
    BY <1>2, <2>1
  <2>3. last_cpos' < cp'
    BY <1>1, <1>3, <2>1, <2>2
  <2>4. TokenRead(last_state, last_cpos, cp - 1)'
    BY <1>1, <2>1, <2>2 DEF TokenRead, Silent, Text
  <2> QED BY <2>3, <2>4
<1> QED BY <1>1, <1>4, <1>5 DEF ReadSoFar

(* the first match reads on until it stops,                                *)
LEMMA MatchReads == ASSUME SInv, LongestInv, Match PROVE LongestInv'
<1>1. /\ fmt \in Formats /\ Matching /\ OneByte /\ ReadSoFar
      /\ N \in Nat /\ N' = N /\ fmt' = fmt /\ text_ptr' = text_ptr /\ cp' = cp + 1
      /\ text_ptr \in 1..(N + 1) /\ cp \in text_ptr..(N + 2)
  BY FullBuffer DEF SInv, LongestInv, Match, OneByte, Matching, N, buffer, place
<1>2. CASE cp <= N
  <2>1. ReadSoFar' /\ Matching'
    BY <1>1, <1>2, ByteOfFormat, MatchingGoesOn
  <2>2. CASE ~Jammed(cur')
    BY <2>1, <2>2 DEF LongestInv, Match
  <2>3. CASE Jammed(cur')
    <3>1. /\ Reads(cur', Text(cp + 1))
          /\ cp > text_ptr => last_cpos' <= cp /\ TokenRead(last_state', last_cpos', cp)
      BY <1>1, <1>2, OneByteRead
    <3>2. cp + 1 \in (text_ptr + 1)..(N + 1) /\ cp + 1 - 1 = cp
      BY <1>1, <1>2
    <3>3. Silent(cp + 1, N + 1)
      BY <1>1, <2>3, <3>1, <3>2, JamIsSilent
    <3>4. CASE Accepts(cur')
      <4>1. TokenFound(cur, cp)'
        BY <1>1, <3>1, <3>3 DEF TokenFound, TokenRead, Silent, Text
      <4> QED BY <2>3, <3>4, <4>1 DEF LongestInv, Match
    <3>5. CASE ~Accepts(cur')
      <4>1. cp > text_ptr /\ last_cpos' \in Nat
        BY <1>1, <2>1, <3>5 DEF Matching, Remembered
      <4>2. last_cpos' < cp + 1 /\ TokenRead(last_state', last_cpos', cp + 1 - 1)
        BY <1>1, <3>1, <3>2, <4>1
      <4>3. TokenRead(last_state', last_cpos', N + 1)
        BY <1>1, <3>1, <3>2, <3>3, <3>5, <4>1, <4>2, NoneLonger
      <4>4. TokenFound(last_state, last_cpos)'
        BY <1>1, <4>3 DEF TokenFound, TokenRead, Silent, Text
      <4> QED BY <2>3, <3>5, <4>4 DEF LongestInv, Match
    <3> QED BY <3>4, <3>5
  <2> QED BY <2>2, <2>3
<1>3. CASE cp = N + 1
  <2>1. Matching' /\ cp' = N + 2
    BY <1>1, <1>3, MatchingGoesOn
  <2>2. ~Jammed(cur')
    BY <1>1, <2>1, JamDoesNotAccept DEF Matching, EndsTogether
  <2>3. ReadSoFar'
    BY <1>1, <2>1 DEF ReadSoFar
  <2> QED BY <2>2, <2>3 DEF LongestInv, Match
<1>4. CASE cp = N + 2
  <2>1. cur' = JamState /\ cur = EndOfBufState
    BY <1>1, <1>4, MatchingGoesOn DEF Matching, EndsTogether
  <2>2. last_cpos' = N + 2
    BY <1>4, <2>1, JamDoesNotAccept DEF OneByte, Match
  <2>3. TokenFound(last_state, last_cpos)'
    BY <1>1, <2>2 DEF TokenFound
  <2> QED BY <2>1, <2>3, JamDoesNotAccept DEF LongestInv, Match
<1> QED BY <1>1, <1>2, <1>3, <1>4

(* the second one until the end of the format,                             *)
LEMMA AgainReads == ASSUME SInv, LongestInv, MatchAgain PROVE LongestInv'
<1>1. /\ fmt \in Formats /\ Matching /\ OneByte /\ ReadSoFar /\ N \in Nat
      /\ c_buf_p = N + 1 /\ cp < c_buf_p /\ cp \in Nat /\ at' = "again"
  BY FullBuffer DEF SInv, LongestInv, MatchAgain, OneByte, Matching, place, buffer
<1>2. ReadSoFar'
  BY <1>1, ByteOfFormat
<1> QED BY <1>1, <1>2 DEF LongestInv

LEMMA MatchedReads == ASSUME SInv, LongestInv, MatchedAgain PROVE LongestInv'
<1>1. /\ fmt \in Formats /\ Matching /\ ReadSoFar /\ N \in Nat /\ N' = N /\ cp = N + 1
      /\ text_ptr \in 1..N /\ at' = "find"
      /\ UNCHANGED <<fmt, text_ptr, cp, cur, last_state, last_cpos>>
  BY FullBuffer DEF SInv, LongestInv, MatchedAgain, Matching, N, place, buffer, match
<1>2. Reads(cur, Text(N + 1)) /\ Silent(N + 1, N + 1)
  BY <1>1 DEF ReadSoFar, Silent
<1>3. IF Accepts(cur) THEN TokenFound(cur, cp) ELSE TokenFound(last_state, last_cpos)
  <2>1. CASE Accepts(cur)
    BY <1>1, <1>2, <2>1 DEF TokenFound, TokenRead
  <2>2. CASE ~Accepts(cur)
    <3>1. cp > text_ptr + 1 /\ last_cpos \in Nat
      BY <1>1, <2>2 DEF Matching, Remembered
    <3>2. last_cpos < N + 1 /\ TokenRead(last_state, last_cpos, N + 1 - 1)
      BY <1>1, <3>1 DEF ReadSoFar
    <3>3. text_ptr \in 1..(N + 1) /\ N + 1 \in (text_ptr + 1)..(N + 1)
      BY <1>1
    <3>4. TokenRead(last_state, last_cpos, N + 1)
      BY <1>1, <1>2, <2>2, <3>1, <3>2, <3>3, NoneLonger
    <3> QED BY <2>2, <3>4 DEF TokenFound
  <2> QED BY <2>1, <2>2
<1> QED BY <1>1, <1>3 DEF LongestInv, TokenFound, TokenRead, Silent, Text

(* and the token is the longest one, backed up to or not.                  *)
LEMMA FindReads == ASSUME SInv, LongestInv, FindAction PROVE LongestInv'
<1>1. /\ N' = N /\ fmt' = fmt /\ text_ptr' = text_ptr /\ at' = "act"
      /\ cur' = (IF Accepts(cur) THEN cur ELSE last_state)
      /\ cp' = (IF Accepts(cur) THEN cp ELSE last_cpos)
  BY DEF FindAction, N
<1>2. IF Accepts(cur) THEN TokenFound(cur, cp) ELSE TokenFound(last_state, last_cpos)
  BY DEF LongestInv, FindAction
<1>3. TokenFound(cur', cp')
  BY <1>1, <1>2
<1>4. TokenFound(cur, cp)'
  BY <1>1, <1>3 DEF TokenFound, TokenRead, Silent, Text
<1> QED BY <1>1, <1>4 DEF LongestInv

(* Every step.                                                             *)
LEMMA LongestKeeps == SInv /\ LongestInv /\ [SNext]_svars => LongestInv'
<1> SUFFICES ASSUME SInv, LongestInv, [SNext]_svars
             PROVE  LongestInv'
  OBVIOUS
<1>1. CASE LexInit \/ LexInitFails \/ ScanString \/ ScanStringFails \/ DeleteBuffer
             \/ LexDestroy \/ Return
  BY <1>1 DEF LongestInv, LexInit, LexInitFails, ScanString, ScanStringFails, DeleteBuffer,
              LexDestroy, Return, ReturnSyllable, ReturnOperator, ReturnByte, EndOfFile
<1>2. CASE UNCHANGED svars
  BY <1>2 DEF LongestInv, ReadSoFar, TokenFound, TokenRead, Silent, Text, N,
              svars, place, match
<1> QED
  BY <1>1, <1>2, CallReads, LastReads, MatchReads, AgainReads, MatchedReads, FindReads
     DEF SNext, Lex

(* The token found is that of lexer.l.                                     *)
LEMMA LongestTokens == SInv /\ LongestInv => ScansLexer
<1> SUFFICES ASSUME SInv, LongestInv, at = "act"
             PROVE  IF Rule = END_OF_BUFFER /\ c_buf_p - text_ptr = 1
                    THEN text_ptr = Len(fmt) + 1
                    ELSE Rule # END_OF_BUFFER =>
                           [rule |-> Rule, length |-> cp - text_ptr] = TokenAt(fmt, text_ptr)
  BY DEF ScansLexer
<1>1. fmt \in Formats /\ Acting /\ fmt \in Texts /\ N \in Nat /\ N = Len(fmt)
      /\ text_ptr \in 1..(N + 1)
  BY FormatsAreStrings, FullBuffer DEF SInv, Acting, Texts, N
<1>2. CASE Rule = END_OF_BUFFER /\ c_buf_p - text_ptr = 1
  BY <1>1, <1>2, AtTheEnd
<1>3. CASE Rule # END_OF_BUFFER
  <2>1. cp \in (text_ptr + 1)..(N + 1)
    BY <1>1, <1>3, Actions DEF Acting, EndsTogether, Rule
  <2>2. Reads(cur, Text(cp)) /\ Silent(cp, N + 1)
    BY <1>1, <2>1 DEF LongestInv, TokenFound, TokenRead
  <2> DEFINE i == text_ptr
             len == cp - text_ptr
  <2>3. /\ i \in 1..(Len(fmt) + 1) /\ len \in 1..(Len(fmt) + 1 - i) /\ i + len - 1 = cp - 1
    BY <1>1, <2>1
  <2>4. Len(Text(cp)) # 0
    BY <1>1, <2>1, TextTo
  <2>5. /\ Rule \in 1..23 /\ Matches(Rule, Text(cp))
        /\ \A q \in 1..(Rule - 1) : ~Matches(q, Text(cp))
    BY <1>1, <2>2, <2>4, Accepted, Zenon DEF Acting, Rule
  <2>6. SubSeq(fmt, i, i + len - 1) = Text(cp)
    BY <2>3 DEF Text
  <2>7. ASSUME NEW m \in (len + 1)..(Len(fmt) + 1 - i)
        PROVE  NoRuleMatches(SubSeq(fmt, i, i + m - 1))
    <3>1. i + m \in (cp + 1)..(N + 1)
      BY <1>1, <2>1
    <3>2. NoRuleMatches(Text(i + m))
      BY <2>2, <3>1 DEF Silent
    <3>3. (i + m) - 1 = i + m - 1
      BY <1>1, <2>1
    <3> QED BY <3>2, <3>3 DEF Text
  <2>8. /\ Matches(Rule, SubSeq(fmt, i, i + len - 1))
        /\ \A q \in 1..(Rule - 1) : ~Matches(q, SubSeq(fmt, i, i + len - 1))
    BY <2>5, <2>6
  <2> HIDE DEF i, len
  <2>9. TokenAt(fmt, i) = [rule |-> Rule, length |-> len]
    BY <1>1, <2>3, <2>5, <2>7, <2>8, TokenIs, Zenon
  <2> QED BY <1>3, <2>9 DEF i, len
<1> QED BY <1>2, <1>3

(* The scanner finds the tokens of lexer.l in every format: the compressed  *)
(* tables, the backing up and the second pass over the end of the buffer   *)
(* come to the longest match and the first rule.                           *)
THEOREM ScannerScansLexer == SSpec => []ScansLexer
<1>1. SInit => LongestInv
  BY DEF SInit, LongestInv
<1> QED BY <1>1, LongestKeeps, LongestTokens, ScannerInvariant, PTL DEF SSpec
=============================================================================
