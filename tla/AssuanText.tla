----------------------------- MODULE AssuanText -----------------------------
(***************************************************************************)
(* The texts of module Assuan as what they are, UTF-8, and the lines that  *)
(* carry them: what handle_line and get_option cut out of a line, and what *)
(* assuan_decode makes of that (src/protocol/assuan.rs).                   *)
(*                                                                         *)
(* A line begins with its keyword and has one space behind it, as clients  *)
(* write it.  Of a keyword or an option's name only the length counts.     *)
(***************************************************************************)
EXTENDS Assuan, Decode

CONSTANT Meant   \* what clients mean by their arguments

ASSUME MeantAssumption == \A t \in Meant : t \in Seq(0..255) /\ IsUtf8(t)

Space == 32

TextLabel == {"title", "prompt", "description", "err_message"}
ButtonLabel == {"ok", "not_ok", "cancel"}

\* SETTITLE, SETPROMPT, ...; "OPTION default-ok=" and so on.
KeywordLength ==
  [title |-> 8, prompt |-> 9, description |-> 7, err_message |-> 8, ok |-> 5, not_ok |-> 8, cancel |-> 9,
   default_ok |-> 18, default_cancel |-> 22, default_yes |-> 19, default_no |-> 18]

Keyword(name) == [i \in 1..KeywordLength[name] |-> 65]

(* The line that brings an argument.  An option's is behind its equals     *)
(* sign.                                                                   *)
Line(name, input) == Keyword(name) \o (IF name \in DefaultName THEN <<>> ELSE <<Space>>) \o input

From(line, offset) == SubSeq(line, offset + 1, Len(line))

(* Mutant: the text of a button is cut out like any other.                 *)
Argument_KeepsTheSpace(name, line) == From(line, KeywordLength[name])

(* What is decoded: of a text everything behind the keyword, the space     *)
(* too; of a button what is behind that space, if anything is; of a        *)
(* default what is behind the option's name.                               *)
Argument(name, line) ==
  IF name \in ButtonLabel THEN From(line, KeywordLength[name] + 1) ELSE From(line, KeywordLength[name])

(* What a line leaves to be stored.  The process ends at an error of       *)
(* assuan_decode and at its panic, without a reply.                        *)
Arrives(name, line) ==
  LET answer == assuan_decode(Argument(name, line), name \in DefaultName) IN
  IF answer.kind = "ok" THEN answer.bytes ELSE Malformed

-----------------------------------------------------------------------------
(* The lines by which a client may say a text.  To a button it may say     *)
(* nothing at all.                                                         *)
Saying(name, t) ==
  {Line(name, e) : e \in Encodings(t, name \in DefaultName)}
    \cup (IF t = <<>> /\ name \in ButtonLabel THEN {Keyword(name)} ELSE {})

(* The vocabulary of a client that says what it means, or says it wrongly. *)
ASSUME SayingAssumption ==
  \A c \in Vocabulary :
    c.op = "SET" \/ (c.op = "OPTION" /\ c.arg \in DefaultName) =>
      c.text = Malformed \/ \E t \in Meant : \E line \in Saying(c.arg, t) : c.text = Arrives(c.arg, line)

(* Every line up to four bytes over percent, underscore, plus, digits, a   *)
(* letter.                                                                 *)
ShortLines == UNION {[1..k -> {Percent, Plus, Underscore, 56, 65, 103}] : k \in 0..4}

AllJudged == \A input \in ShortLines, strip_hotkey \in BOOLEAN : Judged(input, strip_hotkey)

(* The text as it is kept: title, description, prompt and error message    *)
(* keep the space that was between keyword and text, where                 *)
(* openspec/specs/assuan-ipc/spec.md:47-61 has them without.               *)
Kept(name, t) == IF name \in TextLabel THEN <<Space>> \o t ELSE t

(* A label or a default is always a text the client meant, as it is kept,  *)
(* whichever of its encodings was sent and whichever way it came, by a     *)
(* command, as a default or both: decoding undoes each escape, hotkey      *)
(* marks vanish from defaults and from nothing else, what is cut off is    *)
(* the keyword, and a broken escape is never taken for text (handle_line,  *)
(* get_option, assuan_decode).                                             *)
LabelsAreMeant ==
  /\ AllJudged
  /\ \A l \in LabelName : labels[l] \in {Unset} \cup {Kept(l, t) : t \in Meant}
  /\ \A d \in DefaultName : defaults[d] \in {Unset} \cup Meant
=============================================================================
