------------------------------ MODULE TtyInput ------------------------------
(***************************************************************************)
(* The input parser of the terminal frontend (parse_input in               *)
(* src/frontend/tty.rs): from the bytes of one read to tokens.  Bytes are  *)
(* numbers; a token is its kind and the bytes it took.                     *)
(***************************************************************************)
EXTENDS Naturals, Sequences, FiniteSetsExt

ESC == 27
Bracket == 91

(* What a single byte stands for, when it is neither text nor an escape.   *)
ControlKey == [b \in {3, 8, 10, 13, 21, 23, 127} |->
  CASE b \in {10, 13} -> "Enter"
    [] b = 3 -> "Cc"
    [] b = 8 -> "CBackspace"
    [] b = 21 -> "Cu"
    [] b = 23 -> "Cw"
    [] b = 127 -> "Backspace"]

(* The length a lead byte announces, 0 for a byte that cannot lead.        *)
Utf8SeqLen(b) ==
  CASE b < 128 -> 1
    [] b \in 192..223 -> 2
    [] b \in 224..239 -> 3
    [] b \in 240..247 -> 4
    [] OTHER -> 0

(* std::str::from_utf8 of one sequence: no overlong form, no surrogate,    *)
(* nothing above U+10FFFF.                                                 *)
SecondByte(lead) ==
  CASE lead = 224 -> 160..191
    [] lead = 237 -> 128..159
    [] lead = 240 -> 144..191
    [] lead = 244 -> 128..143
    [] OTHER -> 128..191

WellFormed(s) ==
  /\ s # <<>> /\ Utf8SeqLen(s[1]) = Len(s)
  /\ Len(s) = 1 \/ (s[1] \in 194..244 /\ s[2] \in SecondByte(s[1]))
  /\ \A i \in 3..Len(s) : s[i] \in 128..191

(* ESC [ takes everything up to its final byte or the end of the read;     *)
(* another ESC takes one more byte.                                        *)
EscapeLen(buf, i) ==
  LET final == {j \in i + 2..Len(buf) : buf[j] \in 64..126} IN
  IF buf[i + 1] # Bracket THEN 2
  ELSE (IF final = {} THEN Len(buf) ELSE Min(final)) - i + 1

Token(kind, bytes) == [kind |-> kind, bytes |-> bytes]

(* Mutant: the bytes a lead byte announces are not looked at.              *)
TrustTheLead(buf, i) ==
  LET n == Utf8SeqLen(buf[i]) IN
  IF n # 0 /\ i + n - 1 <= Len(buf)
  THEN Token("Codepoint", SubSeq(buf, i, i + n - 1))
  ELSE Token("Unknown", <<buf[i]>>)

TextAt(buf, i) ==
  LET n == Utf8SeqLen(buf[i]) IN
  IF n # 0 /\ i + n - 1 <= Len(buf) /\ WellFormed(SubSeq(buf, i, i + n - 1))
  THEN Token("Codepoint", SubSeq(buf, i, i + n - 1))
  ELSE Token("Unknown", <<buf[i]>>)

(* Mutant: ESC [ takes no parameters.                                      *)
ShortSequences(buf, i) ==
  CASE buf[i] \in DOMAIN ControlKey -> Token(ControlKey[buf[i]], <<buf[i]>>)
    [] buf[i] = ESC /\ i = Len(buf) -> Token("Escape", <<ESC>>)
    [] buf[i] = ESC /\ i < Len(buf) ->
         Token("Unknown", SubSeq(buf, i, Min({Len(buf), i + (IF buf[i + 1] = Bracket THEN 2 ELSE 1)})))
    [] OTHER -> TextAt(buf, i)

TokenAt(buf, i) ==
  CASE buf[i] \in DOMAIN ControlKey -> Token(ControlKey[buf[i]], <<buf[i]>>)
    [] buf[i] = ESC /\ i = Len(buf) -> Token("Escape", <<ESC>>)
    [] buf[i] = ESC /\ i < Len(buf) ->
         Token("Unknown", SubSeq(buf, i, i + EscapeLen(buf, i) - 1))
    [] OTHER -> TextAt(buf, i)

parse_input(buf) ==
  LET From[i \in 1..Len(buf) + 1] ==
        IF i > Len(buf) THEN <<>>
        ELSE LET t == TokenAt(buf, i) IN <<t>> \o From[i + Len(t.bytes)]
  IN From[1]
=============================================================================
