------------------------------- MODULE Prompt -------------------------------
(***************************************************************************)
(* One prompt from the command line, or for ssh as askpass                 *)
(* (src/command.rs): the request and the configuration are read, a Wayland *)
(* frontend is opened, asked and closed, and stdout and the exit status    *)
(* tell the answer.                                                        *)
(*                                                                         *)
(* The frontend is what module Pinentry says of it, without the terminal   *)
(* that only pinentry mode falls back to.  A poll that a signal interrupts *)
(* is repeated and left out, and so are the help text and the wording of   *)
(* the answer.                                                             *)
(***************************************************************************)
EXTENDS ConfigFile

CONSTANTS
  Invocations,  \* basename and arguments
  Homes,        \* what the configuration is found in
  BlankText,    \* an argument that is white space only
  Typed,        \* the characters the user types
  MaxKeys       \* bound: keys waiting to be read

ASSUME KeysAssumption == MaxKeys \in Nat \ {0}
ASSUME ArgumentsAssumption == \A v \in Invocations : v.args \in Seq(STRING)
ASSUME HomesAssumption ==
  \A h \in Homes : \A base \in Base :
    LET files == h.files[base]
    IN {files.nowayprompt, files.wayprompt} \subseteq {Absent, Unreadable} \cup Seq(FileLine)

Decision == {"UserOk", "UserAbort", "UserNotOk"}
ASSUME TypedAssumption == Typed \cap (Decision \cup {"Erase", "Sync", "SyncBare", "Closed"}) = {}

VARIABLES
  invocation, home,
  pc,        \* the next call of the process
  request,   \* the parsed request
  config,    \* the values of the configuration
  frontend,  \* "none", "open", "closed"
  delayed,   \* the mode that waits for the sync callback
  mode,
  events,    \* what the compositor sent and the frontend has not read
  link,      \* the compositor: "up", "down", "broken" (the client noticed)
  secret,
  result,    \* of the closure in prompt: an event or "Error"
  stdout,    \* the lines delivered
  reader,    \* whether somebody reads stdout
  status,    \* the exit status
  answer     \* what the user really did: typed and decided

asked == <<invocation, home, request, config>>
wayland == <<delayed, mode, events, link, secret>>
output == <<stdout, reader, status>>
vars == <<invocation, home, pc, request, config, frontend, delayed, mode, events, link, secret,
          result, stdout, reader, status, answer>>

Init ==
  /\ invocation \in Invocations /\ home \in Homes
  /\ pc = "arguments"
  /\ request = Absent /\ config = Absent
  /\ frontend = "none" /\ delayed = "None" /\ mode = "None"
  /\ events = <<>> /\ link \in {"up", "down"}
  /\ secret = <<>>
  /\ result = Absent
  /\ stdout = <<>> /\ reader = TRUE /\ status = Absent
  /\ answer = [typed |-> <<>>, decided |-> Absent]

Exit(code) == pc' = "ended" /\ status' = code

-----------------------------------------------------------------------------
(* The request.                                                            *)

Labels == {"title", "description", "prompt", "error", "ok", "not_ok", "cancel"}
ValueFlags ==
  [flag \in {"--title", "--description", "--prompt", "--error", "--button-ok", "--button-not-ok",
             "--button-cancel", "--wayland-display"} |->
     CASE flag = "--title" -> "title" [] flag = "--description" -> "description"
       [] flag = "--prompt" -> "prompt" [] flag = "--error" -> "error" [] flag = "--button-ok" -> "ok"
       [] flag = "--button-not-ok" -> "not_ok" [] flag = "--button-cancel" -> "cancel"
       [] flag = "--wayland-display" -> "wayland_display"]
Switches == [flag \in {"--get-pin", "--json"} |-> IF flag = "--json" THEN "json" ELSE "get_pin"]

NoRequest ==
  [f \in Labels \cup {"wayland_display", "get_pin", "json"} |->
     IF f \in {"get_pin", "json"} THEN FALSE ELSE Absent]

\* What is absent is the name of nothing.
ASSUME NamesAssumption == Absent \notin DOMAIN NoRequest \cup Decision \cup {"Error"}

(* One argument.  The value of a flag is the next argument, whatever it    *)
(* looks like; nothing is read behind a refused argument or --help.        *)
TakeArgument(acc, arg) ==
  IF acc.outcome # "reading" THEN acc
  ELSE IF acc.wants # Absent
    THEN [acc EXCEPT !.request[acc.wants] = arg, !.wants = Absent]
  ELSE IF arg \in DOMAIN ValueFlags /\ acc.request[ValueFlags[arg]] = Absent
    THEN [acc EXCEPT !.wants = ValueFlags[arg]]
  ELSE IF arg \in DOMAIN Switches /\ ~acc.request[Switches[arg]]
    THEN [acc EXCEPT !.request[Switches[arg]] = TRUE]
  ELSE [acc EXCEPT !.outcome = IF arg \in {"--help", "-h"} THEN "help" ELSE "refused"]

parse_cli(args) ==
  LET read == FoldLeft(TakeArgument, [outcome |-> "reading", wants |-> Absent, request |-> NoRequest],
                       args)
  IN IF read.wants # Absent THEN [read EXCEPT !.outcome = "refused"] ELSE read

validate_cli(r) ==
  /\ r.prompt # Absent => r.get_pin
  /\ ~r.get_pin => \E label \in {"title", "description", "error"} : r[label] # Absent

(* ssh gives the question as arguments; without any there is a default.    *)
AskpassRequest(args) ==
  [NoRequest EXCEPT !.get_pin = TRUE, !.ok = "Ok", !.cancel = "Abort",
     !.title = CASE args = <<>> -> "SSH Password:"
                 [] args # <<>> /\ \A i \in DOMAIN args : args[i] = BlankText -> BlankText
                 [] OTHER -> "joined"]

Refuse == Exit(1) /\ UNCHANGED <<asked, frontend, wayland, result, stdout, reader, answer>>

Accept(r) ==
  /\ request' = r /\ pc' = "config"
  /\ UNCHANGED <<invocation, home, config, frontend, wayland, result, output, answer>>

ReadArguments ==
  /\ pc = "arguments"
  /\ CASE invocation.name = "nowayprompt" ->
            LET parsed == parse_cli(invocation.args)
            IN IF parsed.outcome = "help"
                 THEN Exit(IF reader THEN 0 ELSE 1) /\ UNCHANGED <<asked, frontend, wayland, result, stdout, reader, answer>>
               ELSE IF parsed.outcome = "reading" /\ validate_cli(parsed.request) THEN Accept(parsed.request)
               ELSE Refuse
       [] invocation.name = "nowayprompt-ssh-askpass" -> Accept(AskpassRequest(invocation.args))
       [] OTHER -> Refuse

(* An error anywhere in the file ends the process.                         *)
ReadConfig ==
  /\ pc = "config"
  /\ IF ParseConfig(home).ok
       THEN /\ config' = ParseConfig(home).values /\ pc' = "secret"
            /\ UNCHANGED <<invocation, home, request, frontend, wayland, result, output, answer>>
       ELSE Refuse

(* The secret page may not be had.                                         *)
MakeSecret ==
  /\ pc = "secret"
  /\ \/ /\ pc' = "select"
        /\ UNCHANGED <<asked, frontend, wayland, result, output, answer>>
     \/ Refuse

-----------------------------------------------------------------------------
(* The prompt.                                                             *)

(* Without a compositor there is no prompt: no terminal takes its place.   *)
(* A compositor may lack the globals a dialog needs; the callback of sync  *)
(* finds that out.                                                         *)
Select ==
  /\ pc = "select"
  /\ IF link # "up" THEN Refuse
     ELSE /\ frontend' = "open" /\ pc' = "enter"
          /\ \E e \in {"Sync", "SyncBare"} : events' = <<e>>
          /\ UNCHANGED <<asked, delayed, mode, link, secret, result, output, answer>>

(* The sync callback has not been dispatched yet: the mode is put off.     *)
EnterMode ==
  /\ pc = "enter"
  /\ delayed' = (IF request.get_pin THEN "GetPin" ELSE "Message")
  /\ pc' = "flush"
  /\ UNCHANGED <<asked, frontend, mode, events, link, secret, result, output, answer>>

(* A bug: an error leaves prompt at once, past deinit.                     *)
Finish_Early(r) ==
  /\ result' = r
  /\ pc' = IF r = "Error" THEN "write" ELSE "deinit"

(* The closure returns, and prompt goes on with deinit.                    *)
Finish(r) == result' = r /\ pc' = "deinit"

(* A bug: whether the compositor is still there is not looked at.          *)
Flush_Deaf ==
  /\ pc = "flush" /\ pc' = "poll"
  /\ UNCHANGED <<asked, frontend, wayland, result, output, answer>>

(* Writing to a compositor that is gone fails, if there is something to    *)
(* write or a read has noticed.  Nothing is left to return: handle_event   *)
(* took it.                                                                *)
Flush ==
  /\ pc = "flush"
  /\ \/ link # "up" /\ Finish("Error")
     \/ link # "broken" /\ pc' = "poll" /\ UNCHANGED result
  /\ UNCHANGED <<asked, frontend, wayland, output, answer>>

(* What dispatching an event does.                                         *)
Drawable == \A label \in Labels : request[label] # BlankText
Dispatch(st, e) ==
  CASE e = "Sync" -> [st EXCEPT !.mode = delayed, !.reason = IF Drawable THEN @ ELSE "Error"]
    [] e = "SyncBare" -> [st EXCEPT !.mode = delayed, !.reason = "Error"]
    [] e = "Closed" -> [st EXCEPT !.reason = "Error"]
    [] e \in Decision -> [st EXCEPT !.reason = e]
    [] e \in Typed -> IF st.mode = "GetPin" THEN [st EXCEPT !.secret = Append(@, e)] ELSE st
    [] e = "Erase" /\ st.mode = "GetPin" /\ st.secret # <<>> -> [st EXCEPT !.secret = Front(@)]
    [] OTHER -> st

(* Everything that arrived is dispatched.  A hangup is readable; the error *)
(* of the read is dropped, and left to the next flush.                     *)
HandleEvent ==
  LET st == FoldLeft(Dispatch, [mode |-> mode, secret |-> secret, reason |-> "None"], events)
  IN /\ pc = "poll" /\ (events # <<>> \/ link # "up")
     /\ mode' = st.mode /\ secret' = st.secret /\ events' = <<>>
     /\ link' = IF link = "up" THEN "up" ELSE "broken"
     /\ delayed' = IF \E i \in DOMAIN events : events[i] \in {"Sync", "SyncBare"} THEN "None" ELSE delayed
     /\ CASE st.reason = "None" -> pc' = "flush" /\ UNCHANGED result
          [] st.reason = "Error" -> Finish("Error")
          [] OTHER -> result' = st.reason /\ pc' = "leave"
     /\ UNCHANGED <<asked, frontend, output, answer>>

LeaveMode ==
  /\ pc = "leave"
  /\ mode' = "None" /\ pc' = "deinit"
  /\ UNCHANGED <<asked, frontend, delayed, events, link, secret, result, output, answer>>

(* The frontend goes, whatever came of the prompt.                         *)
Deinit ==
  /\ pc = "deinit"
  /\ frontend' = "closed"
  /\ pc' = "write"
  /\ UNCHANGED <<asked, wayland, result, output, answer>>

-----------------------------------------------------------------------------
(* The answer.                                                             *)

(* What JSON makes of a character of the secret.                           *)
JsonCharacter(c) ==
  CASE c = "quote" -> <<"backslash", "quote">>
    [] c = "backslash" -> <<"backslash", "backslash">>
    [] c = "return" -> <<"backslash", "r">>
    [] OTHER -> <<c>>
write_json_bytes(pin) == FoldLeft(LAMBDA out, c : out \o JsonCharacter(c), <<>>, pin)

Line(what, value) == [what |-> what, value |-> value]

(* A bug: the pin is written whatever the user decided.                    *)
PinToTell_Always == IF request.get_pin THEN secret ELSE <<>>

(* The pin is told if it was asked for, confirmed, and is not empty.       *)
PinToTell == IF request.get_pin /\ result = "UserOk" THEN secret ELSE <<>>

(* The lines of write_cli_output: without JSON, a pin that is not told is  *)
(* said to be none; JSON says null.                                        *)
CliLines ==
  LET pin == PinToTell
  IN <<Line("action", result)>>
       \o (IF pin # <<>>
             THEN <<Line("pin", IF request.json THEN write_json_bytes(pin) ELSE pin)>>
           ELSE IF request.get_pin THEN <<Line("no pin", <<>>)>> ELSE <<>>)
       \o (IF request.json THEN <<Line("}", <<>>)>> ELSE <<>>)

exit_status == [UserOk |-> 0, UserAbort |-> 10, UserNotOk |-> 20]

AskpassLines == IF PinToTell = <<>> THEN <<>> ELSE <<Line("pin", secret)>>

OfCli == invocation.name = "nowayprompt"
AnswerLines == IF OfCli THEN CliLines ELSE AskpassLines
AnswerStatus == IF OfCli THEN exit_status[result] ELSE IF AskpassLines = <<>> THEN 1 ELSE 0

(* stdout is flushed at every line; a line nobody reads is an error.       *)
WriteLine ==
  /\ pc = "write" /\ result # "Error"
  /\ Len(stdout) < Len(AnswerLines)
  /\ IF reader
       THEN stdout' = Append(stdout, AnswerLines[Len(stdout) + 1]) /\ UNCHANGED <<pc, status>>
       ELSE Exit(1) /\ UNCHANGED stdout
  /\ UNCHANGED <<asked, frontend, wayland, result, reader, answer>>

(* prompt's error is run's, and the process fails.                         *)
Return ==
  /\ pc = "write" /\ (result = "Error" \/ Len(stdout) = Len(AnswerLines))
  /\ Exit(IF result = "Error" THEN 1 ELSE AnswerStatus)
  /\ UNCHANGED <<asked, frontend, wayland, result, stdout, reader, answer>>

-----------------------------------------------------------------------------
(* The user, the compositor, and who reads stdout.                         *)

(* The keyboard goes to a prompt that is on the screen.  The user presses  *)
(* nothing behind a decision.                                              *)
Press(key) ==
  /\ mode # "None" /\ link = "up" /\ answer.decided = Absent
  /\ Len(events) < MaxKeys
  /\ events' = Append(events, key)
  /\ answer' = CASE key \in Decision -> [answer EXCEPT !.decided = key]
                 [] key = "Erase" /\ answer.typed # <<>> -> [answer EXCEPT !.typed = Front(@)]
                 [] key \in Typed /\ mode = "GetPin" -> [answer EXCEPT !.typed = Append(@, key)]
                 [] OTHER -> answer
  /\ Len(answer'.typed) <= MaxKeys
  /\ UNCHANGED <<asked, pc, frontend, delayed, mode, link, secret, result, output>>

CompositorCloses ==
  /\ mode # "None" /\ link = "up" /\ Len(events) < MaxKeys
  /\ events' = Append(events, "Closed")
  /\ UNCHANGED <<asked, pc, frontend, delayed, mode, link, secret, result, output, answer>>

(* What it had sent may still be read, or not.                             *)
CompositorDies ==
  /\ pc # "ended" /\ link = "up"
  /\ link' = "down" /\ events' \in {events, <<>>}
  /\ UNCHANGED <<asked, pc, frontend, delayed, mode, secret, result, output, answer>>

ReaderLeaves ==
  /\ pc # "ended" /\ reader
  /\ reader' = FALSE
  /\ UNCHANGED <<asked, pc, frontend, wayland, result, stdout, status, answer>>

Environment ==
  \/ \E key \in Typed \cup Decision \cup {"Erase"} : Press(key)
  \/ CompositorCloses \/ CompositorDies \/ ReaderLeaves

Process ==
  \/ ReadArguments \/ ReadConfig \/ MakeSecret
  \/ Select \/ EnterMode \/ Flush \/ HandleEvent \/ LeaveMode \/ Deinit
  \/ WriteLine \/ Return

Next == Process \/ Environment

(* The process runs.  Nothing is assumed of the user, the compositor or    *)
(* whoever reads stdout.                                                   *)
Spec == Init /\ [][Next]_vars /\ WF_vars(Process)
-----------------------------------------------------------------------------
(* What a caller relies on.                                                *)

TypeOK ==
  /\ pc \in {"arguments", "config", "secret", "select", "enter", "flush", "poll", "leave", "deinit",
             "write", "ended"}
  /\ frontend \in {"none", "open", "closed"}
  /\ delayed \in {"None", "GetPin", "Message"} /\ mode \in {"None", "GetPin", "Message"}
  /\ secret \in Seq(Typed) /\ Len(secret) <= MaxKeys
  /\ result \in Decision \cup {Absent, "Error"}
  /\ status \in {Absent, 0, 1, 10, 20} /\ (status # Absent <=> pc = "ended")

(* How a reader takes JSON's escapes back.  A bare quote ends the string.  *)
Unescape(st, c) ==
  CASE st.escaped -> [escaped |-> FALSE, text |-> Append(st.text, IF c = "r" THEN "return" ELSE c)]
    [] ~st.escaped /\ c = "backslash" -> [st EXCEPT !.escaped = TRUE]
    [] ~st.escaped /\ c = "quote" -> [st EXCEPT !.text = Append(@, "end of string")]
    [] OTHER -> [st EXCEPT !.text = Append(@, c)]
PinRead(line) ==
  IF ~request.json THEN line.value
  ELSE FoldLeft(Unescape, [escaped |-> FALSE, text |-> <<>>], line.value).text

ToldPins == {i \in DOMAIN stdout : stdout[i].what = "pin"}

(* Whatever fails on the way, the secret is on stdout only if it was asked *)
(* for, typed and confirmed, and then it reads as it was typed; an exit    *)
(* status other than 1 is the one of the user's decision, with that        *)
(* decision on stdout, and with the secret if there is one to tell (run,   *)
(* write_cli_output, write_askpass_output).                                *)
AnswerIsTold ==
  /\ \A i \in ToldPins :
       /\ request.get_pin /\ answer.decided = "UserOk" /\ answer.typed # <<>>
       /\ PinRead(stdout[i]) = answer.typed
  /\ status \notin {Absent, 1} /\ frontend # "none" =>
       /\ status = CASE answer.decided = "UserOk" -> 0 [] answer.decided = "UserAbort" -> 10
                     [] answer.decided = "UserNotOk" -> 20
       /\ OfCli => stdout[1] = Line("action", answer.decided)
       /\ ToldPins # {} <=> status = 0 /\ request.get_pin /\ answer.typed # <<>>

(* The arguments split into flags and the values behind them, every flag   *)
(* known and there once.                                                   *)
WellFormed(args) ==
  \E flags \in SUBSET DOMAIN args :
    /\ \A i \in DOMAIN args :
         i \in flags <=> i = 1 \/ i - 1 \notin flags \/ args[i - 1] \notin DOMAIN ValueFlags
    /\ \A i \in flags :
         /\ args[i] \in DOMAIN ValueFlags \cup DOMAIN Switches
         /\ args[i] \in DOMAIN ValueFlags => i + 1 \in DOMAIN args
         /\ \A j \in flags \ {i} : args[j] # args[i]

(* No frontend is opened, and so no secret asked for, unless the basename  *)
(* is a known one, the arguments are well formed and ask for something,    *)
(* and the one configuration file that counts is valid from its first line *)
(* to its last; its values are then in force, whatever the other           *)
(* candidates hold.                                                        *)
OpensOnlyForValidRequests ==
  frontend # "none" =>
    /\ \/ invocation.name = "nowayprompt-ssh-askpass"
       \/ OfCli /\ WellFormed(invocation.args) /\ validate_cli(request)
    /\ LET file == SelectedFile(home)
       IN IF file = Absent THEN config = Defaults
          ELSE file # Unreadable /\ IsValid(file) /\ config = Meaning(file)

(* The frontend holds pointers to the secret and the configuration: it is  *)
(* closed before the process ends, however the prompt ended.               *)
FrontendIsReleased == status # Absent => frontend # "open"

(* A prompt that was answered, or whose compositor is gone, ends.          *)
PromptEnds == answer.decided # Absent \/ (frontend # "none" /\ link # "up") ~> status # Absent
=============================================================================
