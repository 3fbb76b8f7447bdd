------------------------------ MODULE Scanner ------------------------------
(***************************************************************************)
(* The generated scanner (derived-lexer.c) as systemf1 uses it: set up,    *)
(* pointed at a copy of the format, called for one token after another,    *)
(* deleted and destroyed.                                                  *)
(*                                                                         *)
(* Pointers into the buffer yy_ch_buf are indices into ch_buf, from 1; 0   *)
(* is the null pointer.  The scanner writes into its buffer: the byte      *)
(* after a token is replaced by a NUL while the token is handled and put   *)
(* back when the next one is scanned.                                      *)
(***************************************************************************)
EXTENDS ScanTables, Syllables, Lexer, FiniteSets

CONSTANTS Formats,    \* the formats that systemf1 may be called with
          NoMemory    \* may an allocation of the scanner fail?

ASSUME FormatsAreStrings == Formats \subseteq Seq(1..255)
ASSUME NoMemoryIsBoolean == NoMemory \in BOOLEAN

Blocks == {"guts", "stack", "buffer", "chars"}

VARIABLES
  fmt,         \* the format
  at,          \* where the scanner is
  heap,        \* for each block: allocations less frees
  current,     \* YY_CURRENT_BUFFER: is there one?
  inited,      \* yy_init
  status,      \* yy_buffer_status
  ch_buf,      \* yy_ch_buf: the bytes, with two end-of-buffer bytes
  n_chars,     \* yy_n_chars
  c_buf_p,     \* yy_c_buf_p: where the next token starts
  hold_char,   \* yy_hold_char: the byte that belongs there
  text_ptr,    \* yy_bp, then yytext_ptr: where the token at hand starts
  cp,          \* yy_cp, local to yylex
  cur,         \* yy_current_state, local to yylex
  last_state,  \* yy_last_accepting_state
  last_cpos,   \* yy_last_accepting_cpos
  args,        \* how many of systemf1's arguments have been fetched
  token,       \* what yylex returned last
  yylval       \* and the syllable that came with it

memory  == <<heap, current>>
buffer  == <<ch_buf, n_chars, status>>
place   == <<c_buf_p, hold_char, text_ptr>>
match   == <<cp, cur, last_state, last_cpos>>
results == <<args, token, yylval>>
svars == <<fmt, at, memory, inited, buffer, place, match, results>>

SYLLABLE == 258
SPACE    == 259
NoSyllable == [flags |-> {}, text |-> <<>>]

(***************************************************************************)
(* The rules of lexer.l, by number.                                        *)
(***************************************************************************)
(* The token numbers of derived-parser.h for the rules 10 to 22.             *)
Operator(rule) ==
  CASE rule = 10 -> 261   \* LESSER               <
    [] rule = 11 -> 262   \* TWO_GREATER_AND_ONE  2>&1
    [] rule = 12 -> 263   \* TWO_GREATER          2>
    [] rule = 13 -> 264   \* AND_GREATER          &>
    [] rule = 14 -> 265   \* GREATER              >
    [] rule = 15 -> 269   \* GREATER_AND_TWO      >&2
    [] rule = 16 -> 266   \* TWO_GREATER_GREATER  2>>
    [] rule = 17 -> 267   \* AND_GREATER_GREATER  &>>
    [] rule = 18 -> 268   \* GREATER_GREATER      >>
    [] rule = 19 -> 270   \* AND_AND              &&
    [] rule = 20 -> 273   \* OR                   |
    [] rule = 21 -> 271   \* OR_OR                ||
    [] rule = 22 -> 272   \* SEMICOLON            ;

(* yytext[0] is a char, which is signed here.                              *)
SignedChar(byte) == IF byte >= 128 THEN byte - 256 ELSE byte

(***************************************************************************)
(* Setting up and taking down                                              *)
(***************************************************************************)
Allocate(b) == heap' = [heap EXCEPT ![b] = @ + 1]
Free(bs)    == [b \in Blocks |-> IF b \in bs THEN heap[b] - 1 ELSE heap[b]]

ScannerIdle ==
  /\ heap = [b \in Blocks |-> 0]
  /\ current = FALSE
  /\ inited = FALSE
  /\ status = "none"
  /\ ch_buf = <<>>
  /\ n_chars = 0
  /\ c_buf_p = 0
  /\ hold_char = 0
  /\ text_ptr = 0
  /\ cp = 0
  /\ cur = 0
  /\ last_state = 0
  /\ last_cpos = 0
  /\ args = 0
  /\ token = -1
  /\ yylval = NoSyllable

SInit == fmt \in Formats /\ at = "start" /\ ScannerIdle

(* yylex_init: the state of the scanner, zeroed; it reports a failure.      *)
LexInit ==
  /\ at = "start"
  /\ Allocate("guts")
  /\ at' = "inited"
  /\ UNCHANGED <<fmt, current, inited, buffer, place, match, results>>

LexInitFails ==
  /\ at = "start" /\ NoMemory
  /\ at' = "failed"
  /\ UNCHANGED <<fmt, memory, inited, buffer, place, match, results>>

(* Mutant: one end-of-buffer byte where two are needed.                     *)
EndBytes_One == <<0>>

EndBytes == <<0, 0>>

(* yy_scan_string, yy_scan_bytes and yy_scan_buffer: copy the format and    *)
(* its two end-of-buffer bytes, own the copy, make it the current buffer    *)
(* and load it.                                                            *)
ScanString ==
  /\ at = "inited"
  /\ heap' = [heap EXCEPT !["chars"] = @ + 1, !["buffer"] = @ + 1,
                          !["stack"] = @ + 1]
  /\ current' = TRUE
  /\ ch_buf' = fmt \o EndBytes
  /\ n_chars' = Len(fmt)
  /\ status' = "new"
  /\ c_buf_p' = 1
  /\ text_ptr' = 1
  /\ hold_char' = ch_buf'[1]
  /\ at' = "ready"
  /\ UNCHANGED <<fmt, inited, match, results>>

(* Any of the three allocations above: yy_fatal_error ends the program.     *)
ScanStringFails ==
  /\ at = "inited" /\ NoMemory
  /\ \E got \in {{}, {"chars"}, {"chars", "buffer"}} :
       heap' = [b \in Blocks |-> IF b \in got THEN heap[b] + 1 ELSE heap[b]]
  /\ at' = "exited"
  /\ UNCHANGED <<fmt, current, inited, buffer, place, match, results>>

(* Mutant: yy_delete_buffer does not forget the current buffer.             *)
DeleteBuffer_KeepsCurrent ==
  /\ at = "ready"
  /\ heap' = Free({"chars", "buffer"})
  /\ at' = "deleted"
  /\ UNCHANGED <<fmt, current, inited, buffer, place, match, results>>

(* yy_delete_buffer                                                        *)
DeleteBuffer ==
  /\ at = "ready"
  /\ current' = FALSE
  /\ heap' = Free({"chars", "buffer"})
  /\ at' = "deleted"
  /\ UNCHANGED <<fmt, inited, buffer, place, match, results>>

(* yylex_destroy: the buffers that are still on the stack, the stack, the   *)
(* state; yy_init_globals resets the rest.                                 *)
LexDestroy ==
  /\ at = "deleted"
  /\ heap' = Free({"stack", "guts"}
                    \cup (IF current THEN {"chars", "buffer"} ELSE {}))
  /\ current' = FALSE
  /\ inited' = FALSE
  /\ c_buf_p' = 0
  /\ at' = "done"
  /\ UNCHANGED <<fmt, buffer, hold_char, text_ptr, match, results>>

(***************************************************************************)
(* yylex                                                                   *)
(***************************************************************************)
(* Mutant: the NUL that ended the last token stays.                         *)
HeldPutBack_Not == ch_buf

HeldPutBack == [ch_buf EXCEPT ![c_buf_p] = hold_char]

(* The call: on the first one load the buffer; put the held byte back and   *)
(* start to match.                                                         *)
CallLex ==
  /\ at = "ready"
  /\ inited' = TRUE
  /\ text_ptr' = c_buf_p
  /\ ch_buf' = HeldPutBack
  /\ cp' = c_buf_p
  /\ cur' = StartState
  /\ at' = "match"
  /\ UNCHANGED <<fmt, memory, n_chars, status, c_buf_p, hold_char,
                 last_state, last_cpos, results>>

(* yy_match: one byte.  The state before it is remembered if it accepts.    *)
Match ==
  /\ at = "match"
  /\ last_state' = IF Accepts(cur) THEN cur ELSE last_state
  /\ last_cpos'  = IF Accepts(cur) THEN cp ELSE last_cpos
  /\ cur' = Goto(cur, ch_buf[cp])
  /\ cp' = cp + 1
  /\ at' = IF Jammed(cur') THEN "find" ELSE "match"
  /\ UNCHANGED <<fmt, memory, inited, buffer, place, results>>

(* yy_find_action and YY_DO_BEFORE_ACTION: back up to the last accepting    *)
(* state if this one does not accept, then end the token with a NUL.       *)
FindAction ==
  /\ at = "find"
  /\ cur' = IF Accepts(cur) THEN cur ELSE last_state
  /\ cp'  = IF Accepts(cur) THEN cp ELSE last_cpos
  /\ hold_char' = ch_buf[cp']
  /\ ch_buf' = [ch_buf EXCEPT ![cp'] = 0]
  /\ c_buf_p' = cp'
  /\ at' = "act"
  /\ UNCHANGED <<fmt, memory, inited, n_chars, status, text_ptr,
                 last_state, last_cpos, results>>

Rule   == At(yy_accept, cur)
yytext == SubSeq(ch_buf, text_ptr, cp - 1)

(* The rules 1 to 8: a syllable with the text of the token or with the      *)
(* next argument of systemf1.                                              *)
ReturnSyllable ==
  /\ at = "act" /\ Rule \in 1..8
  /\ args' = IF Fetches(Rule) THEN args + 1 ELSE args
  /\ yylval' = [flags |-> SyllableFlags(Rule),
                text  |-> IF Fetches(Rule) THEN <<-args'>> ELSE yytext]
  /\ token' = SYLLABLE
  /\ at' = "ready"
  /\ UNCHANGED <<fmt, memory, inited, buffer, place, match>>

(* The rules 9 to 22.                                                       *)
ReturnOperator ==
  /\ at = "act" /\ Rule \in 9..22
  /\ token' = IF Rule = 9 THEN SPACE ELSE Operator(Rule)
  /\ yylval' = NoSyllable
  /\ at' = "ready"
  /\ UNCHANGED <<fmt, memory, inited, buffer, place, match, args>>

(* Rule 23: any byte that nothing else matches is its own token.           *)
ReturnByte ==
  /\ at = "act" /\ Rule = 23
  /\ token' = SignedChar(yytext[1])
  /\ yylval' = NoSyllable
  /\ at' = "ready"
  /\ UNCHANGED <<fmt, memory, inited, buffer, place, match, args>>

(* YY_END_OF_BUFFER and yy_get_next_buffer.  The buffer holds the whole     *)
(* format and is never refilled: after some text, handle that text first;  *)
(* otherwise this is the end of the input, for this call and for any later *)
(* one.                                                                    *)
Restored == [ch_buf EXCEPT ![cp] = hold_char]

(* Mutant: the text is taken to end behind the first end-of-buffer byte.    *)
TextEnd_OneFar == n_chars + 2

TextEnd == n_chars + 1

LastMatch ==
  /\ at = "act" /\ Rule = END_OF_BUFFER
  /\ c_buf_p - text_ptr # 1
  /\ ch_buf' = Restored
  /\ status' = "normal"
  /\ c_buf_p' = TextEnd
  /\ cp' = text_ptr
  /\ cur' = StartState
  /\ at' = "again"
  /\ UNCHANGED <<fmt, memory, inited, n_chars, hold_char, text_ptr,
                 last_state, last_cpos, results>>

(* yy_get_previous_state: match the text before the end of the buffer      *)
(* again, to find the state that it led to.  It takes a NUL for class 1;    *)
(* the text has none, because a format ends at its first NUL.              *)
MatchAgain ==
  /\ at = "again" /\ cp < c_buf_p
  /\ last_state' = IF Accepts(cur) THEN cur ELSE last_state
  /\ last_cpos'  = IF Accepts(cur) THEN cp ELSE last_cpos
  /\ cur' = Goto(cur, ch_buf[cp])
  /\ cp' = cp + 1
  /\ UNCHANGED <<fmt, at, memory, inited, buffer, place, results>>

MatchedAgain ==
  /\ at = "again" /\ cp = c_buf_p
  /\ at' = "find"
  /\ UNCHANGED <<fmt, memory, inited, buffer, place, match, results>>

EndOfFile ==
  /\ at = "act" /\ Rule = END_OF_BUFFER
  /\ c_buf_p - text_ptr = 1
  /\ ch_buf' = Restored
  /\ status' = "normal"
  /\ c_buf_p' = text_ptr
  /\ token' = 0
  /\ yylval' = NoSyllable
  /\ at' = "ready"
  /\ UNCHANGED <<fmt, memory, inited, n_chars, hold_char, text_ptr, match, args>>

Return == ReturnSyllable \/ ReturnOperator \/ ReturnByte \/ EndOfFile

Lex ==
  Match \/ FindAction \/ LastMatch \/ MatchAgain \/ MatchedAgain \/ Return

(* With any caller: it asks for tokens, also past the end, and stops when   *)
(* it likes.                                                               *)
SNext ==
  \/ LexInit \/ LexInitFails \/ ScanString \/ ScanStringFails
  \/ CallLex \/ Lex \/ DeleteBuffer \/ LexDestroy

SSpec == SInit /\ [][SNext]_svars

(***************************************************************************)
(* Properties                                                              *)
(***************************************************************************)
(* No byte outside the buffer is read or written, whatever the format: the  *)
(* end-of-buffer bytes stop the match loop, and no token swallows them.     *)
StaysInBuffer ==
  /\ at \in {"match", "again"} => cp \in 1..Len(ch_buf)
  /\ at = "find" => (IF Accepts(cur) THEN cp ELSE last_cpos) \in 1..Len(ch_buf)
  /\ at = "ready" => c_buf_p \in 1..Len(ch_buf)

(* Ending a token with a NUL does not lose a byte of the format: with the   *)
(* held byte put back the buffer is the format and its two end bytes, each  *)
(* time yylex has returned.                                                *)
BufferKept ==
  at = "ready" => [ch_buf EXCEPT ![c_buf_p] = hold_char] = fmt \o <<0, 0>>

(* Every block is freed once and at the latest by yylex_destroy, although   *)
(* two functions free the current buffer.                                  *)
FreedOnce ==
  /\ \A b \in Blocks : heap[b] \in {0, 1}
  /\ at \in {"done", "failed"} => \A b \in Blocks : heap[b] = 0

(* The compressed tables, the backing up to the last accepting state and    *)
(* the second pass over the end of the buffer find the tokens of lexer.l:  *)
(* the longest match and among equally long ones the first rule.           *)
ScansLexer ==
  at = "act" =>
    IF Rule = END_OF_BUFFER /\ c_buf_p - text_ptr = 1
    THEN text_ptr = Len(fmt) + 1
    ELSE Rule # END_OF_BUFFER =>
           [rule |-> Rule, length |-> cp - text_ptr] = TokenAt(fmt, text_ptr)
=============================================================================
