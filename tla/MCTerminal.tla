----------------------------- MODULE MCTerminal -----------------------------
(* Constants of the run that checks the terminal frontend.                 *)
EXTENDS Terminal

Plain == [e \in Element |-> IF e \in {"title", "ok"} THEN <<"text">> ELSE <<>>]

\* Every label; a description with a blank line in it and a final newline,
\* a prompt with a blank line alone, an error with a final newline alone.
Crowded ==
  [e \in Element |->
     CASE e = "description" -> <<"text", "", "text", "">>
       [] e = "prompt" -> <<"text", "", "text">>
       [] e = "error" -> <<"text", "">>
       [] e = "ok" -> <<"", "text">>
       [] OTHER -> <<"text">>]

MCLabelSets == {Plain, Crowded}

\* Two settings are told apart, and nothing else is known of them.
SettingsSymmetry == Permutations(Settings)
=============================================================================
