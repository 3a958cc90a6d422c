------------------------------- MODULE Decode -------------------------------
(***************************************************************************)
(* Percent-decoding of the Assuan arguments (assuan_decode in              *)
(* src/protocol/assuan.rs).  Bytes are numbers.  The first pass computes   *)
(* the length of the result, the second decodes; the result is Ok, an      *)
(* error, or a panic when the first pass wraps below zero and the vector   *)
(* is asked for that much.                                                 *)
(***************************************************************************)
EXTENDS Integers, FiniteSets, TtyInput

Percent == 37
Plus == 43
Underscore == 95

Ok(bytes) == [kind |-> "ok", bytes |-> bytes]
DecodeError == [kind |-> "error"]
Panic == [kind |-> "panic"]

(* The value of one hexadecimal digit, -1 when it is none.                 *)
Digit(b) ==
  CASE b \in 48..57 -> b - 48
    [] b \in 65..70 -> b - 55
    [] b \in 97..102 -> b - 87
    [] OTHER -> -1

(* u8::from_str_radix of two characters in base 16, -1 on an error: a      *)
(* number may begin with its sign.                                         *)
FromHex(a, b) ==
  CASE Digit(a) >= 0 /\ Digit(b) >= 0 -> Digit(a) * 16 + Digit(b)
    [] a = Plus /\ Digit(b) >= 0 -> Digit(b)
    [] OTHER -> -1

Count(input, b) == Cardinality({i \in DOMAIN input : input[i] = b})

(* Pass 1.                                                                 *)
DecodedLen(input, strip_hotkey) ==
  Len(input) - 2 * Count(input, Percent) - (IF strip_hotkey THEN Count(input, Underscore) ELSE 0)

(* Pass 2: an escape needs two more bytes, a hotkey mark is passed over.   *)
Pushed(b, rest) == IF rest.kind = "ok" THEN Ok(<<b>> \o rest.bytes) ELSE rest

Decoded(input, strip_hotkey) ==
  LET Escape(i) == IF i + 2 > Len(input) THEN -1 ELSE FromHex(input[i + 1], input[i + 2])
      From[i \in 1..Len(input) + 1] ==
        CASE i > Len(input) -> Ok(<<>>)
          [] i <= Len(input) /\ input[i] = Percent ->
               IF Escape(i) < 0 THEN DecodeError ELSE Pushed(Escape(i), From[i + 3])
          [] i <= Len(input) /\ input[i] = Underscore /\ strip_hotkey -> From[i + 1]
          [] OTHER -> Pushed(input[i], From[i + 1])
  IN From[1]

(* String::from_utf8.                                                      *)
IsUtf8(s) ==
  LET From[i \in 1..Len(s) + 1] ==
        \/ i > Len(s)
        \/ \E n \in 1..4 : /\ i + n - 1 <= Len(s)
                           /\ WellFormed(SubSeq(s, i, i + n - 1))
                           /\ From[i + n]
  IN From[1]

assuan_decode(input, strip_hotkey) ==
  LET out == Decoded(input, strip_hotkey) IN
  IF DecodedLen(input, strip_hotkey) < 0 THEN Panic
  ELSE IF out.kind = "ok" /\ ~IsUtf8(out.bytes) THEN DecodeError
  ELSE out
-----------------------------------------------------------------------------
(* What the client means: a byte may stand for itself, unless it is a      *)
(* percent sign or a hotkey mark, or be escaped, in either case of the     *)
(* digits; with hotkeys a mark may stand before it.  Clients escape whole  *)
(* characters; their encodings are among these.                            *)
Hex(n) == IF n < 10 THEN {48 + n} ELSE {55 + n, 87 + n}

EscapesOf(b) == {<<Percent, h, l>> : h \in Hex(b \div 16), l \in Hex(b % 16)}

ByteEncodings(b, strip_hotkey) ==
  LET forms == EscapesOf(b)
                 \cup (IF b = Percent \/ (strip_hotkey /\ b = Underscore) THEN {} ELSE {<<b>>})
  IN forms \cup (IF strip_hotkey THEN {<<Underscore>> \o f : f \in forms} ELSE {})

Concatenations(heads, tails) == {head \o tail : head \in heads, tail \in tails}

Encodings(bytes, strip_hotkey) ==
  LET Of[i \in 1..Len(bytes) + 1] ==
        IF i > Len(bytes) THEN {<<>>}
        ELSE Concatenations(ByteEncodings(bytes[i], strip_hotkey), Of[i + 1])
  IN Of[1]

HexDigits == (48..57) \cup (65..70) \cup (97..102)

(* Every percent sign has two hexadecimal digits behind it.  As the code   *)
(* reads them as a number, a sign may stand for the first one; a client    *)
(* never means that (openspec/specs/assuan-ipc/spec.md:21 asks for an      *)
(* error).                                                                 *)
Readable(input) ==
  \A i \in DOMAIN input : input[i] = Percent =>
    /\ i + 2 <= Len(input)
    /\ input[i + 1] \in HexDigits \cup {Plus} /\ input[i + 2] \in HexDigits

(* A line is accepted exactly when its escapes are whole and the result is *)
(* UTF-8, and then pass 1 has counted what pass 2 pushed.  Any other is    *)
(* refused, with an error or with the panic of a length that wrapped.      *)
Judged(input, strip_hotkey) ==
  LET answer == assuan_decode(input, strip_hotkey) IN
  /\ answer.kind = "ok" <=> Readable(input) /\ IsUtf8(Decoded(input, strip_hotkey).bytes)
  /\ answer.kind = "ok" => Len(answer.bytes) = DecodedLen(input, strip_hotkey)
=============================================================================
