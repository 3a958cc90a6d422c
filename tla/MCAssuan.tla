------------------------------ MODULE MCAssuan ------------------------------
(* Constants of the run that checks the REPL on its own.  The texts of the *)
(* lines are bytes here, and arrive through assuan_decode.                 *)
EXTENDS AssuanText

\* A letter, a percent sign and a codepoint of two bytes; a hotkey mark.
text == <<65, Percent, 195, 169>>
mark == <<Underscore>>

MCMeant == {text, mark, <<>>}
MCTexts == MCMeant \cup {<<Space>> \o t : t \in MCMeant}

Cmd(op) == [op |-> op, arg |-> "none", text |-> Unset]
Set(label, line) == [op |-> "SET", arg |-> label, text |-> Arrives(label, line)]
Option(name, input) == [op |-> "OPTION", arg |-> name, text |-> Arrives(name, Line(name, input))]

\* "A%25é" partly escaped, "_", a broken escape, "_%5f" with a hotkey mark; a bare SETOK.
MCVocabulary ==
  {Cmd(op) : op \in {"GETPIN", "CONFIRM", "MESSAGE", "RESET", "BYE", "QUERY", "BLANK",
                     "NOT_IMPLEMENTED", "UNKNOWN", "OPTION"}}
    \cup {Set("err_message", Line("err_message", <<65, Percent, 50, 53, Percent, 99, 51, Percent, 65, 57>>)),
          Set("err_message", Line("err_message", mark)),
          Set("ok", Line("ok", <<65, Percent, 50, 53, 195, 169>>)),
          Set("ok", Line("ok", <<65, Percent, 50>>)),
          Set("ok", Keyword("ok")),
          Option("default_ok", <<Underscore, Percent, 53, 102>>),
          Option("default_yes", <<Underscore, 65, Percent, 50, 53, 195, 169>>),
          [op |-> "OPTION", arg |-> "ttyname", text |-> text]}

MCPins == {<<>>} \cup {<<c>> : c \in Chars}
=============================================================================
