------------------------------- MODULE Assuan -------------------------------
(***************************************************************************)
(* The Assuan REPL of pinentry mode (src/protocol/assuan.rs): what one     *)
(* input line and one frontend event do to the protocol mode, the labels,  *)
(* the default button labels, the runtime settings and the reply stream.   *)
(*                                                                         *)
(* A line is a record: its command, what the command names, and the text   *)
(* assuan_decode makes of its argument.  Replies are recorded in `log',    *)
(* one entry per accepted command: a command that opens a prompt enters    *)
(* the log with the reply "PENDING", which the frontend event that ends    *)
(* the prompt replaces.  A reply written while no command waits for one is *)
(* logged under NoCommand.                                                 *)
(***************************************************************************)
EXTENDS Naturals, Sequences

CONSTANTS
  Texts,      \* the decoded argument texts clients use
  Unset,      \* a label, default or setting that holds None
  Malformed,  \* an argument assuan_decode refuses
  Chars,      \* what a passphrase is made of
  Vocabulary, \* the commands the client uses
  Pins,       \* the secrets users enter while the REPL is on its own
  MaxLines    \* bound: how many commands the client has answered

ASSUME TextsAssumption == Unset \notin Texts /\ Malformed \notin Texts \cup {Unset}

LabelName == {"title", "prompt", "description", "err_message", "ok", "not_ok", "cancel"}
DefaultName == {"default_ok", "default_cancel", "default_yes", "default_no"}
SettingName == {"ttyname", "wayland_display"}

SetupOp == {"SET", "OPTION", "RESET", "BYE", "QUERY", "NOT_IMPLEMENTED", "UNKNOWN"}
PromptOp == {"GETPIN", "CONFIRM", "MESSAGE"}
\* QUERY is NOP, HELP, SETKEYINFO or GETINFO; BLANK is a line of white space.
Op == SetupOp \cup PromptOp \cup {"BLANK"}

Command ==
  [op: {"SET"}, arg: LabelName, text: Texts \cup {Malformed}] \cup
  [op: {"OPTION"}, arg: DefaultName, text: Texts \cup {Malformed}] \cup
  [op: {"OPTION"}, arg: SettingName, text: Texts] \cup
  [op: Op \ {"SET"}, arg: {"none"}, text: {Unset}]
NoCommand == [op |-> "none", arg |-> "none", text |-> Unset]

AssuanMode == {"None", "GetPin", "Confirm", "Message"}
PromptReply == {"OK", "PIN", "CANCELLED", "NOT_CONFIRMED"}
ReplyKind == PromptReply \cup {"NOT_IMPLEMENTED", "UNKNOWN", "PENDING"}
Secret == Seq(Chars)
LogEntry == [cmd: Command \cup {NoCommand}, reply: ReplyKind, pin: Secret]
ASSUME VocabularyAssumption == Vocabulary \subseteq Command
ASSUME PinsAssumption == Pins \subseteq Secret
UserEvent == {"UserOk", "UserAbort", "UserNotOk"}

VARIABLES
  mode,       \* AssuanRepl::mode
  labels,     \* Config::labels
  defaults,   \* AssuanRepl::default_ok, default_cancel, default_yes, default_no
  settings,   \* Config::tty_name and Config::wayland_display
  isRunning,  \* AssuanRepl::is_running
  fate,       \* "running", or how run_pinentry returned
  log         \* the accepted commands and what was replied to each

replVars == <<mode, labels, defaults, settings, isRunning, fate, log>>

ReplTypeOK ==
  /\ mode \in AssuanMode
  /\ labels \in [LabelName -> Texts \cup {Unset}]
  /\ defaults \in [DefaultName -> Texts \cup {Unset}]
  /\ settings \in [SettingName -> Texts \cup {Unset}]
  /\ isRunning \in BOOLEAN
  /\ fate \in {"running", "ok", "failed"}
  /\ log \in Seq(LogEntry)

ReplInit ==
  /\ mode = "None"
  /\ labels = [l \in LabelName |-> Unset]
  /\ defaults = [d \in DefaultName |-> Unset]
  /\ settings = [s \in SettingName |-> Unset]
  /\ isRunning = TRUE
  /\ fate = "running"
  /\ log = <<>>

-----------------------------------------------------------------------------
(* The replies.                                                            *)

Entry(c, reply) == [cmd |-> c, reply |-> reply, pin |-> <<>>]
Logged(c, reply) == log' = Append(log, Entry(c, reply))

(* The reply to a finished prompt; nobody waits for one while mode is None. *)
Answered(reply, pin) ==
  IF mode = "None"
  THEN log' = Append(log, [cmd |-> NoCommand, reply |-> reply, pin |-> pin])
  ELSE log' = [log EXCEPT ![Len(log)] = [cmd |-> @.cmd, reply |-> reply, pin |-> pin]]

-----------------------------------------------------------------------------
(* Setup commands: answered at once.  assuan_decode's error ends the       *)
(* process without a reply.                                                *)

DecodeFails ==
  /\ fate' = "failed"
  /\ UNCHANGED <<mode, labels, defaults, settings, isRunning, log>>

(* Mutant: assuan_decode's error is not looked at.                         *)
SetLabelUndecoded(c) ==
  /\ c.op = "SET"
  /\ labels' = [labels EXCEPT ![c.arg] = c.text]
  /\ Logged(c, "OK")
  /\ UNCHANGED <<mode, defaults, settings, isRunning, fate>>

SetLabel(c) ==
  /\ c.op = "SET"
  /\ c.text # Malformed
  /\ labels' = [labels EXCEPT ![c.arg] = c.text]
  /\ Logged(c, "OK")
  /\ UNCHANGED <<mode, defaults, settings, isRunning, fate>>

(* handle_option: an option it does not know (arg "none") is accepted and  *)
(* ignored.                                                                *)
SetOption(c) ==
  /\ c.op = "OPTION"
  /\ c.text # Malformed
  /\ defaults' = IF c.arg \in DefaultName THEN [defaults EXCEPT ![c.arg] = c.text] ELSE defaults
  /\ settings' = IF c.arg \in SettingName THEN [settings EXCEPT ![c.arg] = c.text] ELSE settings
  /\ Logged(c, "OK")
  /\ UNCHANGED <<mode, labels, isRunning, fate>>

BadArgument(c) ==
  /\ \/ c.op = "SET"
     \/ c.op = "OPTION" /\ c.arg \in DefaultName
  /\ c.text = Malformed
  /\ DecodeFails

(* Config::reset clears the labels; defaults and settings survive.         *)
Reset(c) ==
  /\ c.op = "RESET"
  /\ labels' = [l \in LabelName |-> Unset]
  /\ Logged(c, "OK")
  /\ UNCHANGED <<mode, defaults, settings, isRunning, fate>>

Bye(c) ==
  /\ c.op = "BYE"
  /\ isRunning' = FALSE
  /\ Logged(c, "OK")
  /\ UNCHANGED <<mode, labels, defaults, settings, fate>>

StatelessReply(op) == IF op = "QUERY" THEN "OK" ELSE op

Stateless(c) ==
  /\ c.op \in {"QUERY", "NOT_IMPLEMENTED", "UNKNOWN"}
  /\ Logged(c, StatelessReply(c.op))
  /\ UNCHANGED <<mode, labels, defaults, settings, isRunning, fate>>

Blank(c) == c.op = "BLANK" /\ UNCHANGED replVars

NothingToShow == \A l \in {"title", "description", "err_message"} : labels[l] = Unset

EmptyMessage(c) ==
  /\ c.op = "MESSAGE"
  /\ NothingToShow
  /\ Logged(c, "OK")
  /\ UNCHANGED <<mode, labels, defaults, settings, isRunning, fate>>

SetupCommand(c) ==
  /\ mode = "None"
  /\ \/ SetLabel(c) \/ SetOption(c) \/ BadArgument(c) \/ Reset(c)
     \/ Bye(c) \/ Stateless(c) \/ Blank(c) \/ EmptyMessage(c)

-----------------------------------------------------------------------------
(* Prompts.                                                                *)

RequiresFrontend(c) ==
  /\ mode = "None"
  /\ \/ c.op \in {"GETPIN", "CONFIRM"}
     \/ c.op = "MESSAGE" /\ ~NothingToShow

ModeOf(op) == CASE op = "GETPIN" -> "GetPin"
                [] op = "CONFIRM" -> "Confirm"
                [] op = "MESSAGE" -> "Message"

DefaultFor(op, l) ==
  CASE op = "GETPIN" /\ l = "ok" -> "default_ok"
    [] op = "GETPIN" /\ l = "cancel" -> "default_cancel"
    [] op = "CONFIRM" /\ l = "ok" -> "default_yes"
    [] op = "CONFIRM" /\ l = "cancel" -> "default_no"
    [] OTHER -> "none"

(* Mutant: a default label overrides an explicit one.                      *)
UsesDefaultAnyway(op, l) == DefaultFor(op, l) # "none"

(* The button takes its default label: it has none of its own.  `take'     *)
(* leaves the default unset.                                               *)
UsesDefault(op, l) == DefaultFor(op, l) # "none" /\ labels[l] = Unset

SpentDefaults(op) == {DefaultFor(op, l) : l \in {k \in LabelName : UsesDefault(op, k)}}

(* The REPL's part of GETPIN, CONFIRM and MESSAGE: the mode is set before  *)
(* the frontend is asked to enter its own, whose failure ends the process. *)
StartPrompt(c) ==
  /\ RequiresFrontend(c)
  /\ labels' = [l \in LabelName |->
                  IF UsesDefault(c.op, l) THEN defaults[DefaultFor(c.op, l)] ELSE labels[l]]
  /\ defaults' = [d \in DefaultName |-> IF d \in SpentDefaults(c.op) THEN Unset ELSE defaults[d]]
  /\ mode' = ModeOf(c.op)
  /\ Logged(c, "PENDING")
  /\ UNCHANGED <<settings, isRunning>>

(* Mutant: a line that arrives during a prompt is answered.                *)
AnswerLine(c) == mode # "None" /\ Logged(c, "OK")
                 /\ UNCHANGED <<mode, labels, defaults, settings, isRunning, fate>>

(* A line that arrives during a prompt is dropped without a reply.         *)
DropLine(c) == mode # "None" /\ UNCHANGED replVars

-----------------------------------------------------------------------------
(* handle_frontend_event.  The caller decides `fate': secbuf.reset() is    *)
(* the last call and its failure ends the process after the reply.         *)

(* Mutant: the mode is not asked.                                          *)
AnswersAnyPrompt(event, secret) == event = "UserOk" /\ secret # <<>>

(* Only an accepted GETPIN with a non-empty secret is answered with it.    *)
AnswersWithPin(event, secret) ==
  event = "UserOk" /\ mode = "GetPin" /\ secret # <<>>

ReplyTo(event, secret) ==
  CASE event = "UserAbort" -> "CANCELLED"
    [] event = "UserNotOk" -> "NOT_CONFIRMED"
    [] OTHER -> IF AnswersWithPin(event, secret) THEN "PIN" ELSE "OK"

(* Mutant: a confirmed CONFIRM keeps the message of the attempt before.    *)
ClearsOnlyAfterGetPin == mode = "GetPin"

ClearsError == mode \in {"GetPin", "Confirm"}

HandleFrontendEvent(event, secret) ==
  /\ Answered(ReplyTo(event, secret),
              IF AnswersWithPin(event, secret) THEN secret ELSE <<>>)
  /\ labels' = IF ClearsError THEN [labels EXCEPT !["err_message"] = Unset] ELSE labels
  /\ mode' = "None"
  /\ UNCHANGED <<defaults, settings, isRunning>>

-----------------------------------------------------------------------------
(* The REPL on its own: lines until BYE, and, while a prompt is active,    *)
(* the frontend event that ends it.  enter_mode and secbuf.reset() may     *)
(* fail.                                                                   *)

HandleLine(c) ==
  /\ isRunning
  /\ \/ Len(log) < MaxLines /\ SetupCommand(c)
     \/ Len(log) < MaxLines /\ StartPrompt(c) /\ fate' \in {"running", "failed"}
     \/ DropLine(c)

EndPrompt(event, secret) ==
  /\ mode # "None"
  /\ HandleFrontendEvent(event, secret)
  /\ fate' \in {"running", "failed"}

ReplNext ==
  /\ fate = "running"
  /\ \/ \E c \in Vocabulary : HandleLine(c)
     \/ \E event \in UserEvent, secret \in Pins : EndPrompt(event, secret)

ReplSpec == ReplInit /\ [][ReplNext]_replVars

-----------------------------------------------------------------------------
(* Properties of the reply stream and of the labels, for whoever composes  *)
(* the REPL with a dispatch loop.                                          *)

Pending(e) == e.reply = "PENDING"

(* Every accepted command is answered exactly once and in order: the only  *)
(* entry still waiting is the last one, it opened the prompt the REPL is   *)
(* in, and no reply was written that no command asked for.                 *)
OneReplyPerCommand ==
  /\ \A i \in 1..Len(log) : log[i].cmd # NoCommand
  /\ \A i \in 1..Len(log) : Pending(log[i]) => i = Len(log) /\ mode = ModeOf(log[i].cmd.op)
  /\ mode # "None" => Len(log) > 0 /\ Pending(log[Len(log)])

(* A passphrase leaves the process only as the answer to a GETPIN, and a   *)
(* cancelled or refused command is always a prompt.                        *)
ReplyFits(e) ==
  /\ e.reply = "PIN" => e.cmd.op = "GETPIN"
  /\ e.pin # <<>> => e.reply = "PIN"
  /\ e.reply \in {"CANCELLED", "NOT_CONFIRMED", "PENDING"} => e.cmd.op \in PromptOp

RepliesFit == \A i \in 1..Len(log) : ReplyFits(log[i])

(* i is a command after which an earlier error message is no longer shown. *)
EndsError(i) ==
  \/ log[i].cmd.op = "RESET"
  \/ log[i].cmd.op \in {"GETPIN", "CONFIRM"} /\ ~Pending(log[i])

SetsLabel(i, l) == log[i].cmd.op = "SET" /\ log[i].cmd.arg = l

(* An error message the user can be shown was sent by the client after the *)
(* last GETPIN or CONFIRM was answered: a stale "bad PIN" is never shown   *)
(* for a fresh attempt.                                                    *)
ErrorIsFresh ==
  labels["err_message"] # Unset =>
    \E i \in 1..Len(log) :
      /\ SetsLabel(i, "err_message")
      /\ log[i].cmd.text = labels["err_message"]
      /\ \A j \in i+1..Len(log) : ~EndsError(j)

(* A button label the client set explicitly stays until the client sets it *)
(* again or sends RESET: no default label ever takes its place.            *)
ExplicitLabelWins ==
  \A l \in {"ok", "not_ok", "cancel"} : \A i \in 1..Len(log) :
    /\ SetsLabel(i, l)
    /\ \A j \in i+1..Len(log) : ~SetsLabel(j, l) /\ log[j].cmd.op # "RESET"
    => labels[l] = log[i].cmd.text

=============================================================================
