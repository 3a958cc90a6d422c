----------------------------- MODULE MCPinentry -----------------------------
(* Constants of the runs that check pinentry mode as a whole.              *)
EXTENDS Pinentry

CONSTANTS text, blank, tty, display

Cmd(op) == [op |-> op, arg |-> "none", text |-> Unset]
Set(label, t) == [op |-> "SET", arg |-> label, text |-> t]
Option(name, t) == [op |-> "OPTION", arg |-> name, text |-> t]

\* Two prompts of different modes after the option that selects the terminal.
TtyVocabulary ==
  {Cmd("GETPIN"), Cmd("CONFIRM"), Set("not_ok", text), Option("ttyname", tty)}

\* Prompts from the first line on, and a label that cannot be drawn.
WaylandVocabulary ==
  {Cmd("GETPIN"), Cmd("CONFIRM"), Cmd("BYE"), Set("not_ok", text), Set("title", blank)}
=============================================================================
