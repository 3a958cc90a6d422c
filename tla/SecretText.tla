----------------------------- MODULE SecretText -----------------------------
(***************************************************************************)
(* What a SecretBuffer promises: a text that fits a page, edited at its    *)
(* end by whole codepoints and never by half an edit, empty when it is     *)
(* opened, and gone for good once an operation on the page has failed.     *)
(***************************************************************************)
EXTENDS Naturals, Sequences

CONSTANTS Width,     \* the UTF-8 length of each codepoint
          Capacity,  \* the bytes one page holds
          Slices     \* what the callers append

VARIABLES text,      \* the codepoints
          status     \* "closed", "open" or "over"

Size(t) ==
  LET size[i \in 0..Len(t)] == IF i = 0 THEN 0 ELSE size[i-1] + Width[t[i]] IN size[Len(t)]

Init == text = <<>> /\ status = "closed"

Open ==
  /\ status = "closed"
  /\ status' \in {"open", "over"}
  /\ UNCHANGED text

AppendAll(slice) ==
  /\ status = "open"
  /\ Size(text) + Size(slice) <= Capacity
  /\ text' = text \o slice
  /\ UNCHANGED status

DeleteLast ==
  /\ status = "open" /\ text # <<>>
  /\ text' = SubSeq(text, 1, Len(text) - 1)
  /\ UNCHANGED status

Clear ==
  /\ status = "open"
  /\ text' = <<>>
  /\ status' \in {"open", "over"}

Next == Open \/ (\E slice \in Slices : AppendAll(slice)) \/ DeleteLast \/ Clear

Spec == Init /\ [][Next]_<<text, status>>
=============================================================================
