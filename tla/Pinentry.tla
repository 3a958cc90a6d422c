------------------------------ MODULE Pinentry ------------------------------
(***************************************************************************)
(* Pinentry mode as a whole: the dispatch loop of run_pinentry             *)
(* (src/command.rs) between a client that writes Assuan lines to stdin, the *)
(* REPL (module Assuan), and the frontend the first prompt selects: the    *)
(* Wayland dialog or the terminal (src/frontend).                          *)
(*                                                                         *)
(* One iteration of the loop is four steps, pc = "head" (flush, exit       *)
(* test), "poll", "stdin" (one byte) and "frontend", and a readable        *)
(* frontend adds "dispatch", the loop over what was read from it.  The     *)
(* client, the user and the compositor act between any two steps.          *)
(*                                                                         *)
(* Abstractions: the bytes of a line before its newline are read in one    *)
(* step; a key is what it does to the prompt; drawing does not fail.       *)
(***************************************************************************)
EXTENDS Assuan

CONSTANTS
  BlankText,      \* the text that is white space only
  LiveDisplays,   \* the Wayland sockets a compositor listens on
  EnvDisplay,     \* WAYLAND_DISPLAY in the environment, or Unset
  Terminals,      \* the names of terminals that can be opened
  StdinKinds,     \* what stdin may be: "pipe", "stream"
  PatientUser,    \* the user presses nothing after the key that decides
  UserKeys,       \* the keys the user presses
  Capacity,       \* how many characters the secret page holds
  MaxKeys         \* bound: keys waiting to be read

ASSUME CapacityAssumption == Capacity \in Nat \ {0}
ASSUME MaxKeysAssumption == MaxKeys \in Nat \ {0}
ASSUME PatientAssumption == PatientUser \in BOOLEAN
\* A pipe reports POLLHUP as soon as its writer is gone; a stream (a half-closed
\* socket, a terminal, a redirected file) is readable then and yields no byte.
ASSUME StdinAssumption == StdinKinds \subseteq {"pipe", "stream"}

VARIABLES
  stdinKind, \* what stdin is
  writing,   \* the client still holds the other end of stdin open
  sent,      \* every line the client began to write
  avail,     \* how much it wrote, in halves of a line: the command, the newline
  rd,        \* how much of that run_pinentry has read
  stdinClosed,
  pc,        \* where the loop is
  ready,     \* revents: "in" and "hup" of stdin, "fe" of the frontend
  fe,        \* the frontend: "none", "tty", "wayland"
  feMode,    \* the frontend's InterfaceMode
  synced,    \* Wayland: the sync callback has fired (sync is None)
  delayed,   \* Wayland: delayed_mode
  keys,      \* what the user did that the frontend has not read yet
  batch,     \* what it read and has not dispatched yet
  reason,    \* the event to return: TTY's ret, Wayland's exit_reason
  secret,    \* the contents of the SecretBuffer
  focus,     \* the prompt the compositor gives the keyboard: "none", "current", "stale"
  link       \* terminal or compositor: "up", "down", "broken" (the client noticed)

stdinVars == <<stdinKind, writing, sent, avail, rd, stdinClosed>>
clientVars == <<stdinKind, writing, sent, avail>>
feVars == <<fe, feMode, synced, delayed, keys, batch, reason, secret, focus, link>>
vars == <<replVars, stdinVars, pc, ready, feVars>>

InterfaceMode == {"None", "GetPin", "Message"}
DecisionKey == {"Enter", "Escape", "NotOk"}
CompositorEvent == {"Sync", "Closed"}
EditKey == Chars \cup {"Backspace", "Clear"}
Key == EditKey \cup DecisionKey \cup CompositorEvent
ASSUME CharsAssumption == Chars \cap ({"Backspace", "Clear"} \cup DecisionKey \cup CompositorEvent) = {}
ASSUME UserKeysAssumption == UserKeys \subseteq EditKey \cup DecisionKey
\* fresh: pressed at the prompt that is active now, not at one already answered.
KeyPress == [key: Key, fresh: BOOLEAN]

TypeOK ==
  /\ ReplTypeOK
  /\ stdinKind \in StdinKinds
  /\ writing \in BOOLEAN
  /\ sent \in Seq(Vocabulary)
  /\ avail \in Nat /\ avail <= 2 * Len(sent)
  /\ rd \in Nat /\ rd <= avail
  /\ stdinClosed \in BOOLEAN
  /\ pc \in {"head", "poll", "stdin", "frontend", "dispatch"}
  /\ ready \in SUBSET {"in", "hup", "fe"}
  /\ fe \in {"none", "tty", "wayland"}
  /\ feMode \in InterfaceMode
  /\ synced \in BOOLEAN
  /\ delayed \in InterfaceMode
  /\ keys \in Seq(KeyPress)
  /\ batch \in Seq(KeyPress)
  /\ reason \in UserEvent \cup {"None", "Error"}
  /\ secret \in Secret /\ Len(secret) <= Capacity
  /\ focus \in {"none", "current", "stale"}
  /\ link \in {"up", "down", "broken"}

Init ==
  /\ ReplInit
  /\ stdinKind \in StdinKinds
  /\ writing = TRUE
  /\ sent = <<>>
  /\ avail = 0
  /\ rd = 0
  /\ stdinClosed = FALSE
  /\ pc = "head"
  /\ ready = {}
  /\ fe = "none"
  /\ feMode = "None"
  /\ synced = FALSE
  /\ delayed = "None"
  /\ keys = <<>>
  /\ batch = <<>>
  /\ reason = "None"
  /\ secret = <<>>
  /\ focus = "none"
  /\ link = "up"

(* The loop is at p; a process that returned is nowhere.                   *)
At(p) == fate = "running" /\ pc = p

-----------------------------------------------------------------------------
(* The client.  The loop looks at stdin when it polls: when between two    *)
(* polls the client writes makes no difference.                            *)

WriteCommand(c) ==
  /\ At("poll") /\ writing
  /\ avail = 2 * Len(sent)
  /\ Len(sent) < MaxLines
  /\ sent' = Append(sent, c)
  /\ avail' = avail + 1
  /\ UNCHANGED <<stdinKind, writing, rd, stdinClosed, replVars, pc, ready, feVars>>

WriteNewline ==
  /\ At("poll") /\ writing
  /\ avail < 2 * Len(sent)
  /\ avail' = avail + 1
  /\ UNCHANGED <<stdinKind, writing, sent, rd, stdinClosed, replVars, pc, ready, feVars>>

CloseStdin ==
  /\ At("poll") /\ writing
  /\ writing' = FALSE
  /\ UNCHANGED <<stdinKind, sent, avail, rd, stdinClosed, replVars, pc, ready, feVars>>

Client == (\E c \in Vocabulary : WriteCommand(c)) \/ WriteNewline \/ CloseStdin

-----------------------------------------------------------------------------
(* The user, and what carries the keys: a terminal that is cooked while no *)
(* prompt is active, or a compositor that gives the keyboard to the        *)
(* surface it shows.                                                       *)

PromptInView == IF fe = "tty" THEN feMode # "None" ELSE focus = "current" /\ feMode # "None"

Decides(ks) == \E i \in 1..Len(ks) : ks[i].key \in DecisionKey
Decided == reason # "None" \/ Decides(keys) \/ Decides(batch)

CanPress(k) ==
  CASE fe = "tty" -> feMode # "None" \/ k \in Chars \cup {"Enter"}
    [] fe = "wayland" -> focus # "none" /\ (k = "NotOk" => labels["not_ok"] # Unset)
    [] OTHER -> FALSE

(* The steps before which a key makes a difference: the poll, the read, and *)
(* the end of a prompt, which discards or strands what is left.            *)
KeyMatters == At("poll") \/ At("frontend") \/ (At("dispatch") /\ batch = <<>>)

Press(k) ==
  /\ KeyMatters
  /\ link = "up"
  /\ CanPress(k)
  /\ Len(keys) < MaxKeys \/ (k \in DecisionKey /\ ~Decided)
  /\ PatientUser => PromptInView /\ ~Decided
  /\ keys' = Append(keys, [key |-> k, fresh |-> PromptInView])
  /\ UNCHANGED <<replVars, stdinVars, pc, ready, fe, feMode, synced, delayed, batch, reason,
                 secret, focus, link>>

Decide == PromptInView /\ ~Decided /\ \E k \in DecisionKey \cap UserKeys : Press(k)

(* The compositor acts on requests that were flushed, which the loop does  *)
(* before it polls.                                                        *)
AnswerSync ==
  /\ At("poll") /\ link = "up"
  /\ fe = "wayland" /\ ~synced
  /\ keys = <<>>
  /\ keys' = <<[key |-> "Sync", fresh |-> TRUE]>>
  /\ UNCHANGED <<replVars, stdinVars, pc, ready, fe, feMode, synced, delayed, batch, reason,
                 secret, focus, link>>

ShowPrompt ==
  /\ At("poll") /\ link = "up"
  /\ fe = "wayland" /\ feMode # "None"
  /\ focus = "none"
  /\ \A i \in 1..Len(keys) : keys[i].key # "Closed"
  /\ focus' = "current"
  /\ UNCHANGED <<replVars, stdinVars, pc, ready, fe, feMode, synced, delayed, keys, batch, reason,
                 secret, link>>

HidePrompt ==
  /\ At("poll") /\ link = "up"
  /\ focus = "stale"
  /\ focus' = "none"
  /\ UNCHANGED <<replVars, stdinVars, pc, ready, fe, feMode, synced, delayed, keys, batch, reason,
                 secret, link>>

(* The compositor closes the surface it shows.                             *)
CloseSurface ==
  /\ At("poll") /\ link = "up"
  /\ focus = "current"
  /\ focus' = "none"
  /\ keys' = Append(keys, [key |-> "Closed", fresh |-> TRUE])
  /\ UNCHANGED <<replVars, stdinVars, pc, ready, fe, feMode, synced, delayed, batch, reason,
                 secret, link>>

(* The terminal hangs up, or the compositor goes away.                     *)
LoseLink ==
  /\ fate = "running"
  /\ fe # "none" /\ link = "up"
  /\ link' = "down"
  /\ keys' = IF fe = "tty" THEN <<>> ELSE keys
  /\ UNCHANGED <<replVars, stdinVars, pc, ready, fe, feMode, synced, delayed, batch, reason,
                 secret, focus>>

Environment ==
  \/ \E k \in UserKeys : Press(k)
  \/ AnswerSync \/ ShowPrompt \/ HidePrompt \/ CloseSurface \/ LoseLink

-----------------------------------------------------------------------------
(* Frontend::enter_mode, for a prompt mode and for InterfaceMode::None.    *)

(* Mutant: what was typed before the prompt stays in the terminal.         *)
KeepsTypeAhead(m) ==
  /\ UNCHANGED <<delayed, keys>>
  /\ IF feMode = "None" /\ link = "up"
     THEN feMode' = m /\ UNCHANGED fate
     ELSE fate' = "failed" /\ UNCHANGED feMode

(* RawTty::new discards pending input (TCSAFLUSH) and fails on a terminal  *)
(* that hung up.                                                           *)
TtyEnterMode(m) ==
  /\ UNCHANGED delayed
  /\ IF feMode = "None" /\ link = "up"
     THEN feMode' = m /\ keys' = <<>> /\ UNCHANGED fate
     ELSE fate' = "failed" /\ UNCHANGED <<feMode, keys>>

BlankIn(ls) == \E l \in LabelName : ls[l] = BlankText

(* The mode is set first; Surface::new then fails on a label with nothing  *)
(* to show.                                                                *)
CreateSurface(m) ==
  /\ feMode' = m
  /\ fate' = IF BlankIn(labels') THEN "failed" ELSE fate

(* Mutant: a prompt before the sync callback is forgotten.                 *)
ForgetsMode(m) ==
  /\ UNCHANGED <<keys, delayed>>
  /\ IF synced THEN CreateSurface(m) ELSE UNCHANGED <<feMode, fate>>

(* Until the sync callback fires the mode is only noted.                   *)
WaylandEnterMode(m) ==
  /\ UNCHANGED keys
  /\ IF synced
     THEN CreateSurface(m) /\ UNCHANGED delayed
     ELSE delayed' = m /\ UNCHANGED <<feMode, fate>>

EnterMode(f, m) == IF f = "tty" THEN TtyEnterMode(m) ELSE WaylandEnterMode(m)

Stale(ks) == [i \in 1..Len(ks) |-> [ks[i] EXCEPT !.fresh = FALSE]]

(* Leaving: RawTty's drop discards pending input again; Wayland destroys   *)
(* the surface, and keys already on their way stay in the queue.           *)
TtyLeaveMode ==
  /\ feMode # "None"
  /\ feMode' = "None"
  /\ keys' = <<>>
  /\ UNCHANGED focus

WaylandLeaveMode ==
  /\ feMode' = "None"
  /\ keys' = Stale(keys)
  /\ focus' = IF focus = "current" THEN "stale" ELSE focus

-----------------------------------------------------------------------------
(* run_pinentry.                                                           *)

Display == IF settings["wayland_display"] # Unset THEN settings["wayland_display"] ELSE EnvDisplay

(* FrontendOwner::select: Wayland first, the terminal when no display can  *)
(* be reached.                                                             *)
Selected ==
  IF Display \in LiveDisplays THEN "wayland"
  ELSE IF settings["ttyname"] \in Terminals THEN "tty"
  ELSE "none"

FrontendFor == IF fe = "none" THEN Selected ELSE fe

(* Flushing to a compositor that is gone may fail, and does fail once a    *)
(* read has seen it gone.                                                  *)
FlushFails == fe = "wayland" /\ link # "up"

(* Mutant: the result of the flush is dropped.                             *)
FlushAlwaysWorks == TRUE

FlushWorks == fe = "wayland" => link # "broken"

(* Mutant: the end of input ends the loop whatever the user is asked.      *)
NothingMoreToRead == stdinClosed

NothingLeft == stdinClosed /\ (mode = "None" \/ fe = "none")

LoopHead ==
  /\ At("head")
  /\ \/ ~isRunning /\ fate' = "ok" /\ UNCHANGED pc
     \/ isRunning /\ FlushFails /\ fate' = "failed" /\ UNCHANGED pc
     \/ isRunning /\ FlushWorks /\ NothingLeft /\ fate' = "ok" /\ UNCHANGED pc
     \/ isRunning /\ FlushWorks /\ ~NothingLeft /\ pc' = "poll" /\ UNCHANGED fate
  /\ UNCHANGED <<mode, labels, defaults, settings, isRunning, log, stdinVars, ready, feVars>>

(* Mutant: the last byte that was written is not noticed.                  *)
MissesLastByte == rd + 1 < avail \/ (stdinKind = "stream" /\ ~writing)

StdinReadable == rd < avail \/ (stdinKind = "stream" /\ ~writing)
StdinHungUp == stdinKind = "pipe" /\ ~writing

TerminalReadable ==
  IF feMode = "None" THEN \E i \in 1..Len(keys) : keys[i].key = "Enter" ELSE keys # <<>>

FrontendReadable ==
  /\ fe # "none"
  /\ \/ link # "up"
     \/ IF fe = "tty" THEN TerminalReadable ELSE keys # <<>>

Revents ==
  (IF ~stdinClosed /\ StdinReadable THEN {"in"} ELSE {}) \cup
  (IF ~stdinClosed /\ StdinHungUp THEN {"hup"} ELSE {}) \cup
  (IF FrontendReadable THEN {"fe"} ELSE {})

Poll ==
  /\ At("poll")
  /\ Revents # {}
  /\ ready' = Revents
  /\ pc' = "stdin"
  /\ UNCHANGED <<replVars, stdinVars, feVars>>

(* The line whose newline is read: select a frontend for the first prompt, *)
(* then AssuanRepl::handle_line.                                           *)
NoFrontend(c) ==
  /\ RequiresFrontend(c)
  /\ FrontendFor = "none"
  /\ fate' = "failed"
  /\ UNCHANGED <<mode, labels, defaults, settings, isRunning, log, feVars>>

OpenPrompt(c) ==
  /\ FrontendFor # "none"
  /\ fe' = FrontendFor
  /\ StartPrompt(c)
  /\ EnterMode(FrontendFor, IF c.op = "GETPIN" THEN "GetPin" ELSE "Message")
  /\ UNCHANGED <<synced, batch, reason, secret, focus, link>>

DispatchLine(c) ==
  \/ NoFrontend(c)
  \/ OpenPrompt(c)
  \/ (SetupCommand(c) \/ DropLine(c)) /\ UNCHANGED feVars

(* Mutant: POLLHUP is not looked at.                                       *)
IgnoresHangup == stdinClosed

ClosedAfter == stdinClosed \/ "hup" \in ready

(* One byte of stdin, then POLLHUP: with the writer gone, what the pipe    *)
(* still holds is not read.                                                *)
StdinStep ==
  /\ At("stdin")
  /\ pc' = "frontend"
  /\ \/ /\ "in" \notin ready
        /\ stdinClosed' = ClosedAfter
        /\ UNCHANGED <<rd, replVars, feVars>>
     \/ /\ "in" \in ready /\ rd = avail
        /\ stdinClosed' = TRUE
        /\ UNCHANGED <<rd, replVars, feVars>>
     \/ /\ "in" \in ready /\ rd < avail
        /\ rd' = rd + 1
        /\ stdinClosed' = ClosedAfter
        /\ IF rd' % 2 = 0
           THEN DispatchLine(sent[rd' \div 2])
           ELSE UNCHANGED <<replVars, feVars>>
  /\ UNCHANGED <<clientVars, ready>>

NoEvent ==
  /\ At("frontend")
  /\ "fe" \notin ready
  /\ pc' = "head"
  /\ ready' = {}
  /\ UNCHANGED <<replVars, stdinVars, feVars>>

(* handle_event blocks on a terminal whose input was just discarded.  A    *)
(* cooked terminal yields one line, a raw one whatever it has.             *)
TerminalYields(n) ==
  /\ n \in 1..Len(keys)
  /\ IF feMode = "None"
     THEN keys[n].key = "Enter" /\ \A i \in 1..n-1 : keys[i].key # "Enter"
     ELSE n = Len(keys)

ReadTerminal(n) ==
  /\ At("frontend") /\ "fe" \in ready /\ fe = "tty" /\ link = "up"
  /\ TerminalYields(n)
  /\ batch' = SubSeq(keys, 1, n)
  /\ keys' = SubSeq(keys, n + 1, Len(keys))
  /\ pc' = "dispatch"
  /\ ready' = {}
  /\ UNCHANGED <<replVars, stdinVars, fe, feMode, synced, delayed, reason, secret, focus, link>>

(* read(2) returns 0 on a terminal that hung up: no event.                 *)
ReadHungUpTerminal ==
  /\ At("frontend") /\ "fe" \in ready /\ fe = "tty" /\ link # "up"
  /\ pc' = "head"
  /\ ready' = {}
  /\ UNCHANGED <<replVars, stdinVars, feVars>>

(* The result of the socket read is dropped; the connection remembers an   *)
(* error for the next flush.                                               *)
ReadWayland ==
  /\ At("frontend") /\ "fe" \in ready /\ fe = "wayland"
  /\ batch' = keys
  /\ keys' = <<>>
  /\ link' = IF link = "up" THEN "up" ELSE "broken"
  /\ pc' = "dispatch"
  /\ ready' = {}
  /\ UNCHANGED <<replVars, stdinVars, fe, feMode, synced, delayed, reason, secret, focus>>

-----------------------------------------------------------------------------
(* The loop over what was read: parse_input's results on the terminal, the *)
(* queued events on Wayland.                                               *)

DropLast(s) == IF s = <<>> THEN s ELSE SubSeq(s, 1, Len(s) - 1)

(* Typing beyond the page is dropped silently (the append error is).       *)
Edited(k) ==
  CASE k \in Chars -> IF Len(secret) < Capacity THEN Append(secret, k) ELSE secret
    [] k = "Backspace" -> DropLast(secret)
    [] k = "Clear" -> <<>>

(* Mutant: keys edit the secret in every mode.                             *)
EditAnyMode(k) ==
  /\ secret' = Edited(k)
  /\ batch' = Tail(batch)
  /\ UNCHANGED reason

EditSecret(k) ==
  /\ secret' = IF feMode = "GetPin" THEN Edited(k) ELSE secret
  /\ batch' = Tail(batch)
  /\ UNCHANGED reason

EventOf(k) ==
  CASE k = "Enter" -> "UserOk"
    [] k = "Escape" -> "UserAbort"
    [] k = "NotOk" -> IF fe = "wayland" \/ labels["not_ok"] # Unset THEN "UserNotOk" ELSE "UserAbort"

(* Mutant: the terminal goes on with what was read after the decision.     *)
TtyGoesOn(k) ==
  /\ fe = "tty"
  /\ reason' = EventOf(k)
  /\ batch' = Tail(batch)
  /\ UNCHANGED secret

(* The terminal stops at a decision and forgets the rest of what it read.  *)
TtyDecision(k) ==
  /\ fe = "tty"
  /\ reason' = EventOf(k)
  /\ batch' = <<>>
  /\ UNCHANGED secret

(* WaylandState::abort overwrites an earlier reason and the queue goes on. *)
(* A button needs a surface; Return and Escape do not.                     *)
WaylandDecision(k) ==
  /\ fe = "wayland"
  /\ reason' = IF k = "NotOk" /\ (feMode = "None" \/ labels["not_ok"] = Unset)
               THEN reason ELSE EventOf(k)
  /\ batch' = Tail(batch)
  /\ UNCHANGED secret

DispatchKey ==
  /\ At("dispatch") /\ batch # <<>>
  /\ LET k == Head(batch).key IN
       \/ k \in DecisionKey /\ (TtyDecision(k) \/ WaylandDecision(k))
       \/ k \in EditKey /\ EditSecret(k)
  /\ UNCHANGED <<replVars, stdinVars, pc, ready, fe, feMode, synced, delayed, keys, focus, link>>

(* Ctrl-U whose reset fails to lock the new page: the terminal goes on,    *)
(* which is EditSecret; Wayland gives up, with an empty page.  A reset     *)
(* that fails earlier is the subject of module SecretBuffer.               *)
ClearFails ==
  /\ At("dispatch") /\ batch # <<>> /\ Head(batch).key = "Clear"
  /\ fe = "wayland" /\ feMode = "GetPin"
  /\ secret' = <<>>
  /\ reason' = "Error"
  /\ batch' = Tail(batch)
  /\ UNCHANGED <<replVars, stdinVars, pc, ready, fe, feMode, synced, delayed, keys, focus, link>>

(* The sync callback: the deferred mode is entered now.  An error is an    *)
(* exit reason like a decision; a compositor without the interfaces a      *)
(* prompt needs is one.                                                    *)
DispatchSync ==
  /\ At("dispatch") /\ batch # <<>> /\ Head(batch).key = "Sync"
  /\ synced' = TRUE
  /\ delayed' = "None"
  /\ feMode' = IF delayed # "None" THEN delayed ELSE feMode
  /\ \/ reason' = IF delayed # "None" /\ BlankIn(labels) THEN "Error" ELSE reason
     \/ reason' = "Error"
  /\ batch' = Tail(batch)
  /\ UNCHANGED <<replVars, stdinVars, pc, ready, fe, keys, secret, focus, link>>

(* An event of a surface that has been destroyed is dropped by the client  *)
(* library.                                                                *)
DispatchClosed ==
  /\ At("dispatch") /\ batch # <<>> /\ Head(batch).key = "Closed"
  /\ reason' = IF Head(batch).fresh THEN "Error" ELSE reason
  /\ batch' = Tail(batch)
  /\ UNCHANGED <<replVars, stdinVars, pc, ready, fe, feMode, synced, delayed, keys, secret, focus,
                 link>>

FrontendFails ==
  /\ At("dispatch") /\ batch = <<>>
  /\ reason = "Error"
  /\ fate' = "failed"
  /\ UNCHANGED <<mode, labels, defaults, settings, isRunning, log, stdinVars, pc, ready, feVars>>

NoDecision ==
  /\ At("dispatch") /\ batch = <<>>
  /\ reason = "None"
  /\ pc' = "head"
  /\ UNCHANGED <<replVars, stdinVars, ready, feVars>>

(* handle_assuan_event: leave the mode, reply, reset the secret.  A failed *)
(* reset ends the process, after the reply.                                *)
EndPromptOf(leave) ==
  /\ At("dispatch") /\ batch = <<>>
  /\ reason \in UserEvent
  /\ leave
  /\ HandleFrontendEvent(reason, secret)
  /\ secret' = <<>>
  /\ reason' = "None"
  /\ fate' \in {"running", "failed"}
  /\ pc' = "head"
  /\ UNCHANGED <<stdinVars, ready, fe, synced, delayed, batch, link>>

EndPromptOnTerminal == fe = "tty" /\ EndPromptOf(TtyLeaveMode)
EndPromptOnWayland == fe = "wayland" /\ EndPromptOf(WaylandLeaveMode)

(* A line typed at a terminal that shows no prompt: enter_mode(None) is an *)
(* invalid transition there and its error ends the process.                *)
IdleTerminalFails ==
  /\ At("dispatch") /\ batch = <<>>
  /\ reason # "None"
  /\ fe = "tty" /\ feMode = "None"
  /\ fate' = "failed"
  /\ UNCHANGED <<mode, labels, defaults, settings, isRunning, log, stdinVars, pc, ready, feVars>>

Loop ==
  \/ LoopHead \/ Poll \/ StdinStep
  \/ NoEvent \/ (\E n \in 1..Len(keys) : ReadTerminal(n)) \/ ReadHungUpTerminal \/ ReadWayland
  \/ DispatchKey \/ ClearFails \/ DispatchSync \/ DispatchClosed \/ FrontendFails \/ NoDecision
  \/ EndPromptOnTerminal \/ EndPromptOnWayland \/ IdleTerminalFails

Returned == fate # "running" /\ UNCHANGED vars

Next == Client \/ Environment \/ Loop \/ Returned

Spec == Init /\ [][Next]_vars

(* The process keeps running, the user decides every prompt in view in the *)
(* end, and the compositor acts on what was flushed to it.                 *)
FairSpec ==
  /\ Spec
  /\ WF_vars(Loop)
  /\ SF_vars(Decide)
  /\ WF_vars(AnswerSync) /\ WF_vars(ShowPrompt) /\ WF_vars(HidePrompt)

-----------------------------------------------------------------------------
(* Safety.                                                                 *)

InterfaceFor(m) == CASE m = "None" -> "None" [] m = "GetPin" -> "GetPin" [] OTHER -> "Message"
EffectiveMode == IF fe = "wayland" /\ ~synced THEN delayed ELSE feMode

(* The REPL and the frontend are never in different modes when the loop    *)
(* gets to the next command or event, although each keeps its own and the  *)
(* Wayland one is entered only after the sync callback: a line is dropped  *)
(* exactly while the user is being asked.                                  *)
ModesAgree == fate = "running" => EffectiveMode = InterfaceFor(mode)

(* The secret page holds characters only while a GETPIN waits: nothing     *)
(* typed for one prompt is left over for the next.                         *)
NoSecretOutsideGetPin == fate # "failed" /\ mode # "GetPin" => secret = <<>>

(* The key that ends a prompt was pressed at that prompt: type-ahead and   *)
(* keys left over from an earlier prompt confirm nothing.                  *)
AnswersOwnPrompt ==
  [][mode # "None" /\ reason' \notin {reason, "None"} => Head(batch).fresh]_vars

(* Once the user has decided, the rest of what was read changes neither    *)
(* the decision nor the passphrase it sends.                               *)
DecisionIsFinal ==
  [][reason # "None" /\ pc' = "dispatch" => UNCHANGED <<reason, secret>>]_vars

(* Every complete line the client wrote before it closed stdin has been    *)
(* read when run_pinentry returns normally without a BYE.                  *)
NoLineLost == fate = "ok" /\ isRunning => rd \div 2 = avail \div 2

(* A frontend leaves a mode only when it is in one: the contract of        *)
(* Frontend::enter_mode in src/frontend/mod.rs.                            *)
LeavesOnlyAPrompt == [][reason # "None" /\ reason' = "None" => feMode # "None"]_vars

(* The client sees the service AssuanService promises.                     *)
Service == INSTANCE AssuanService
             WITH sent <- SubSeq(sent, 1, avail \div 2), open <- writing, taken <- rd \div 2
ServiceSpec == Service!Spec

-----------------------------------------------------------------------------
(* Liveness, under FairSpec.                                               *)

(* A client that closes stdin sees the process end, whatever was pending,  *)
(* as long as the user answers and the terminal or compositor stays.       *)
EofEnds == ~writing ~> (fate # "running" \/ link # "up")

(* A prompt that was opened is answered.                                   *)
PromptAnswered == mode # "None" ~> (mode = "None" \/ fate # "running" \/ link # "up")

(* A lost compositor ends the process, even when nothing else happens.     *)
LostCompositorEnds == (fe = "wayland" /\ link # "up") ~> fate # "running"

(* Every line is read in the end when stdin is a stream.                   *)
LinesTaken ==
  (stdinKind = "stream" /\ rd < avail) ~> (rd = avail \/ fate # "running" \/ ~isRunning)
=============================================================================
