--------------------------- MODULE MCSecretBuffer ---------------------------
(* Constants of the runs that check the secret page.                       *)
EXTENDS SecretBuffer

CONSTANTS a, euro

\* One codepoint of one byte and one of three: a page of six bytes can be
\* filled to the brim, and the last codepoint can be too long for it.
MCWidth == [c \in Chars |-> IF c = euro THEN 3 ELSE 1]
MCSlices == {<<a>>, <<euro>>, <<euro, a>>}
=============================================================================
