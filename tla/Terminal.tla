------------------------------ MODULE Terminal ------------------------------
(***************************************************************************)
(* The terminal frontend (src/frontend/tty.rs) down to bytes, settings and *)
(* rows: raw mode and its guard, the signal handlers' statics, the parser  *)
(* over reads that may split a key, the secret, and what is drawn.         *)
(*                                                                         *)
(* The caller is run_pinentry: it opens the frontend, enters a mode,       *)
(* handles events until one decides, leaves the mode, and ends with deinit *)
(* or, after an error, by dropping the frontend.                           *)
(***************************************************************************)
EXTENDS TtyInput, SequencesExt

CONSTANTS
  Settings,     \* terminal settings with echo and line editing
  Absent,       \* no settings saved
  UserKeys,     \* the keys the user presses
  LabelSets,    \* the labels a prompt may have
  Heights,      \* heights of the terminal, all of them wide enough
  Squares,      \* pin_square_amount
  ReadSize,     \* the size of handle_event's buffer
  Capacity,     \* the size of the secret page in bytes
  MaxKeys       \* bound: keys waiting to be read

ASSUME SettingsAssumption == "raw" \notin Settings /\ Absent \notin Settings \cup {"raw"}
ASSUME SizesAssumption ==
  /\ ReadSize \in Nat \ {0} /\ Capacity \in Nat /\ MaxKeys \in Nat \ {0}
  /\ Squares \in Nat /\ Heights \subseteq Nat

VARIABLES
  fate,      \* of the process: "running", "ok", "failed", "killed"
  pc,        \* where the caller is
  isTty,     \* ttyname names a terminal
  termios,   \* the settings of the terminal
  owner,     \* the settings others gave it last
  saved,     \* ORIG_TERMIOS_PTR
  guard,     \* raw: what RawTty saved
  mode,
  labels,
  rows,      \* the height of the terminal
  height,    \* Tty's copy of it
  queue,     \* keys that are not wholly read
  split,     \* how many bytes of the first of them are
  secret,    \* codepoints, each its bytes
  event,     \* what handle_event returned
  screen     \* the last picture that was drawn as a whole

device == <<isTty, termios, owner, saved, guard>>
prompt == <<mode, labels, height>>
vars == <<fate, pc, isTty, termios, owner, saved, guard, mode, labels, rows, height, queue, split,
          secret, event, screen>>

KeyBytes ==
  [A |-> <<65>>, Umlaut |-> <<195, 164>>, Latin1 |-> <<196>>, AltA |-> <<27, 65>>,
   Up |-> <<27, 91, 65>>, PageUp |-> <<27, 91, 53, 126>>, Enter |-> <<13>>, Escape |-> <<27>>,
   Backspace |-> <<127>>, CtrlC |-> <<3>>, CtrlU |-> <<21>>, CtrlW |-> <<23>>,
   CtrlBackspace |-> <<8>>]
ASSUME UserKeysAssumption == UserKeys \subseteq DOMAIN KeyBytes

\* The lines of a label, as split('\n') gives them.
Element == {"title", "description", "prompt", "error", "ok", "not_ok", "cancel"}
Line == {"", "text"}
ASSUME LabelsAssumption == LabelSets \subseteq [Element -> Seq(Line)]

-----------------------------------------------------------------------------
(* Drawing.                                                                *)

EndsInNewline(c) == Len(c) > 1 /\ c[Len(c)] = ""

(* How many lines of a label are drawn from a row on when there is room    *)
(* for all: up to the first empty one, not drawn on row floor or above, of *)
(* a label that ends in a newline.                                         *)
LinesShown(c, row, floor) ==
  LET stops == {i \in 1..Len(c) : c[i] = "" /\ EndsInNewline(c) /\ row + i - 1 > floor} IN
  IF stops = {} THEN Len(c) ELSE Min(stops) - 1

(* Mutant: a block may run over the last row.                              *)
BlockOver(at, e, c, floor, gap) ==
  LET n == LinesShown(c, at.row, floor) IN
  [row |-> at.row + n + gap,
   drawn |-> at.drawn \cup {<<at.row + i - 1, e, i>> : i \in 1..n}]

(* render_content (a gap of one row after the block) and render_button     *)
(* (none): a block that meets the last row ends there, without its gap.    *)
Block(at, e, c, floor, gap) ==
  LET n == LinesShown(c, at.row, floor)
      room == IF at.row < height' THEN height' - at.row ELSE 0
  IN [row |-> IF n > room THEN at.row + room ELSE at.row + n + gap,
      drawn |-> at.drawn \cup {<<at.row + i - 1, e, i>> : i \in 1..Min({n, room})}]

PinRow(at) ==
  IF at.row >= height' THEN at
  ELSE [row |-> at.row + 2, drawn |-> at.drawn \cup {<<at.row, "pin", 1>>}]

Place(at, e) ==
  IF e = "pin" THEN IF mode' = "GetPin" THEN PinRow(at) ELSE at
  ELSE IF labels'[e] = <<>> THEN at
  ELSE IF e \in {"ok", "not_ok", "cancel"} THEN Block(at, e, labels'[e], at.row, 0)
  ELSE Block(at, e, labels'[e], 0, 1)

(* render with a secret: what it draws, and how many of the squares are    *)
(* stars.  A picture is stale once the write of a later one has failed, at *)
(* once or in the middle: the screen shows it, or a part of the later one. *)
Order == <<"title", "description", "prompt", "pin", "error", "ok", "not_ok", "cancel">>
Blank == [drawn |-> {}, stars |-> 0, stale |-> FALSE]
Picture(s) ==
  IF height' < 5 THEN Blank
  ELSE [drawn |-> FoldLeft(Place, [row |-> 0, drawn |-> {}], Order).drawn,
        stars |-> Min({Squares, Len(s)}), stale |-> FALSE]
Rendered == Picture(secret')

-----------------------------------------------------------------------------
TypeOK ==
  /\ fate \in {"running", "ok", "failed", "killed"}
  /\ pc \in {"start", "idle", "entered", "prompt", "answered", "unregister", "close"}
  /\ isTty \in BOOLEAN
  /\ termios \in Settings \cup {"raw"}
  /\ owner \in Settings
  /\ saved \in Settings \cup {Absent}
  /\ guard \in Settings \cup {Absent}
  /\ mode \in {"None", "GetPin", "Message"}
  /\ labels \in LabelSets
  /\ rows \in Heights /\ height \in Heights
  /\ queue \in Seq(UserKeys) /\ Len(queue) <= MaxKeys
  /\ split \in Nat /\ (split > 0 => queue # <<>> /\ split < Len(KeyBytes[queue[1]]))
  /\ \A i \in 1..Len(secret) : WellFormed(secret[i])
  /\ Len(FlattenSeq(secret)) <= Capacity
  /\ event \in {"None", "UserOk", "UserAbort", "UserNotOk"}
  /\ screen.stars \in 0..Squares /\ screen.stale \in BOOLEAN

Init ==
  /\ fate = "running"
  /\ pc = "start"
  /\ isTty \in BOOLEAN
  /\ owner \in Settings
  /\ termios = owner
  /\ saved = Absent
  /\ guard = Absent
  /\ mode = "None"
  /\ labels \in LabelSets
  /\ rows \in Heights
  /\ height = rows
  /\ queue = <<>>
  /\ split = 0
  /\ secret = <<>>
  /\ event = "None"
  /\ screen = Blank

At(p) == fate = "running" /\ pc = p

-----------------------------------------------------------------------------
(* Everybody else.                                                         *)

Press(k) ==
  /\ At("prompt")
  /\ Len(queue) < MaxKeys
  /\ queue' = Append(queue, k)
  /\ UNCHANGED <<fate, pc, device, prompt, rows, split, secret, event, screen>>

(* A shell or an editor on the same terminal changes its settings between  *)
(* two prompts.                                                            *)
ChangeSettings(s) ==
  /\ At("start") \/ At("idle")
  /\ owner' = s
  /\ termios' = s
  /\ UNCHANGED <<fate, pc, isTty, saved, guard, prompt, rows, queue, split, secret, event, screen>>

(* enter_mode alone looks at the size; when it changed before that makes   *)
(* no difference.                                                          *)
Resize(h) ==
  /\ At("idle")
  /\ rows' = h
  /\ UNCHANGED <<fate, pc, device, prompt, queue, split, secret, event, screen>>

(* SIGINT, SIGTERM and the like, between any two system calls.             *)
Signal ==
  /\ fate = "running"
  /\ fate' = "killed"
  /\ termios' = IF saved = Absent THEN termios ELSE saved
  /\ UNCHANGED <<pc, isTty, owner, saved, guard, prompt, rows, queue, split, secret, event, screen>>

-----------------------------------------------------------------------------
(* An error of the frontend is an error of run_pinentry: the frontend is   *)
(* dropped, not deinitialised, and with it RawTty.                         *)

(* Mutant: the guard has no drop.                                          *)
LeaveAsIs == fate' = "failed" /\ guard' = Absent /\ UNCHANGED <<termios, saved, owner, isTty>>

FailAndDrop ==
  /\ fate' = "failed"
  /\ guard' = Absent
  /\ termios' = IF guard = Absent THEN termios ELSE guard
  /\ UNCHANGED <<saved, owner, isTty>>

(* Tty::init.  On a file that is no terminal tcgetattr fails, and no       *)
(* handler is registered.                                                  *)
OpenTty ==
  /\ At("start")
  /\ saved' = IF isTty THEN termios ELSE Absent
  /\ pc' = "idle"
  /\ UNCHANGED <<fate, isTty, termios, owner, guard, prompt, rows, queue, split, secret, event, screen>>

(* Mutant: the guard saves what the handlers restore.                      *)
GuardFromStatics == saved

RawTtySaves == termios

(* Tty::enter_mode up to RawTty::new, which discards pending input, and    *)
(* the size of the terminal.                                               *)
EnterMode(m, ls) ==
  /\ At("idle")
  /\ isTty
  /\ guard' = RawTtySaves
  /\ termios' = "raw"
  /\ mode' = m
  /\ labels' = ls
  /\ height' = rows
  /\ queue' = <<>> /\ split' = 0
  /\ pc' = "entered"
  /\ UNCHANGED <<fate, isTty, owner, saved, rows, secret, event, screen>>

EnterModeFails ==
  /\ At("idle")
  /\ ~isTty
  /\ FailAndDrop
  /\ UNCHANGED <<pc, prompt, rows, queue, split, secret, event, screen>>

(* The rest of enter_mode: the first drawing, an error when the write      *)
(* fails.                                                                  *)
FirstRender ==
  /\ At("entered")
  /\ UNCHANGED <<prompt, rows, queue, split, secret, event>>
  /\ \/ pc' = "prompt" /\ screen' = Rendered /\ UNCHANGED <<fate, device>>
     \/ FailAndDrop /\ UNCHANGED <<pc, screen>>

-----------------------------------------------------------------------------
(* Tty::handle_event.                                                      *)

Waiting == SubSeq(FlattenSeq([i \in 1..Len(queue) |-> KeyBytes[queue[i]]]), split + 1,
                  Len(FlattenSeq([i \in 1..Len(queue) |-> KeyBytes[queue[i]]])))

NotOkEvent == IF labels["not_ok"] # <<>> THEN "UserNotOk" ELSE "UserAbort"

Edited(s, t) ==
  IF mode # "GetPin" THEN s
  ELSE CASE t.kind = "Unknown" -> s
         [] t.kind = "Codepoint" ->
              IF Len(FlattenSeq(s)) + Len(t.bytes) <= Capacity THEN Append(s, t.bytes) ELSE s
         [] t.kind = "Backspace" -> IF s = <<>> THEN s ELSE Front(s)
         [] t.kind \in {"Cu", "Cw", "CBackspace"} -> <<>>

(* One input of the loop over what was read; nothing behind a decision.    *)
HandleInput(acc, t) ==
  IF acc.event # "None" THEN acc
  ELSE CASE t.kind = "Enter" -> [acc EXCEPT !.event = "UserOk"]
         [] t.kind = "Escape" -> [acc EXCEPT !.event = "UserAbort"]
         [] t.kind = "Cc" -> [acc EXCEPT !.event = NotOkEvent]
         [] OTHER -> [acc EXCEPT !.secret = Edited(@, t)]

(* The edits among the inputs, up to a decision; each of them draws.       *)
Edits(ts) ==
  LET decisions == {i \in 1..Len(ts) : ts[i].kind \in {"Enter", "Escape", "Cc"}}
      last == IF decisions = {} THEN Len(ts) ELSE Min(decisions) - 1
  IN IF mode = "GetPin" THEN {i \in 1..last : ts[i].kind # "Unknown"} ELSE {}

After(ts, i) == FoldLeft(HandleInput, [secret |-> secret, event |-> "None"], SubSeq(ts, 1, i)).secret

(* Where reading n bytes leaves the queue.                                 *)
KeyEnd(i) == Len(FlattenSeq([j \in 1..i |-> KeyBytes[queue[j]]])) - split
KeysRead(n) == Max({0} \cup {i \in 1..Len(queue) : KeyEnd(i) <= n})

Consume(n) ==
  LET k == KeysRead(n) IN
  /\ queue' = SubSeq(queue, k + 1, Len(queue))
  /\ split' = IF k = 0 THEN split + n ELSE n - KeyEnd(k)

(* Mutant: deleting a character is not drawn.                              *)
RedrawsTextOnly(ts) ==
  IF \E i \in Edits(ts) : ts[i].kind = "Codepoint" THEN {Rendered} ELSE {screen}

(* The errors of these drawings are dropped.  When the last of them fails, *)
(* the picture before the read or that of an earlier edit was the last.    *)
Stale(p) == [drawn |-> p.drawn, stars |-> p.stars, stale |-> TRUE]
Failed(ts) ==
  {Stale(p) : p \in {screen} \cup {Picture(After(ts, i)) : i \in Edits(ts)}}

Redraw(ts) == IF Edits(ts) = {} THEN {screen} ELSE {Rendered} \cup Failed(ts)

(* A read yields the first n bytes: as many as have arrived and fit.       *)
HandleEvent(n) ==
  /\ At("prompt")
  /\ n \in 1..Min({ReadSize, Len(Waiting)})
  /\ UNCHANGED <<fate, device, prompt, rows>>
  /\ LET ts == parse_input(SubSeq(Waiting, 1, n))
         done == FoldLeft(HandleInput, [secret |-> secret, event |-> "None"], ts)
     IN /\ secret' = done.secret
        /\ event' = done.event
        /\ pc' = IF done.event = "None" THEN "prompt" ELSE "answered"
        /\ screen' \in Redraw(ts)
  /\ Consume(n)

ReadFails ==
  /\ At("prompt")
  /\ FailAndDrop
  /\ UNCHANGED <<pc, prompt, rows, queue, split, secret, event, screen>>

(* enter_mode(None) discards what was not read; then the REPL replies and  *)
(* resets the secret.                                                      *)
LeaveMode ==
  /\ At("answered")
  /\ termios' = guard
  /\ guard' = Absent
  /\ mode' = "None"
  /\ queue' = <<>> /\ split' = 0
  /\ secret' = <<>>
  /\ event' = "None"
  /\ pc' = "idle"
  /\ UNCHANGED <<fate, isTty, owner, saved, labels, rows, height, screen>>

(* Tty::deinit, step by step: a signal may come between its calls.         *)
Deinit ==
  /\ At("idle")
  /\ termios' = IF guard = Absent THEN termios ELSE guard
  /\ guard' = Absent
  /\ pc' = "unregister"
  /\ UNCHANGED <<fate, isTty, owner, saved, prompt, rows, queue, split, secret, event, screen>>

Unregister ==
  /\ At("unregister")
  /\ saved' = Absent
  /\ pc' = "close"
  /\ UNCHANGED <<fate, isTty, termios, owner, guard, prompt, rows, queue, split, secret, event, screen>>

CloseAndReturn ==
  /\ At("close")
  /\ fate' = "ok"
  /\ UNCHANGED <<pc, device, prompt, rows, queue, split, secret, event, screen>>

Next ==
  \/ \E k \in UserKeys : Press(k)
  \/ \E s \in Settings : ChangeSettings(s)
  \/ \E h \in Heights : Resize(h)
  \/ Signal
  \/ OpenTty
  \/ \E m \in {"GetPin", "Message"}, ls \in LabelSets : EnterMode(m, ls)
  \/ EnterModeFails \/ FirstRender
  \/ \E n \in 1..ReadSize : HandleEvent(n)
  \/ ReadFails \/ LeaveMode \/ Deinit \/ Unregister \/ CloseAndReturn

Spec == Init /\ [][Next]_vars

-----------------------------------------------------------------------------
(* Safety.                                                                 *)

(* A terminal is never left raw by a process that is gone, however it      *)
(* went: by deinit, by an error that drops the frontend, or by a signal in *)
(* the middle of a prompt, which only the statics can undo.                *)
CookedWhenGone == fate # "running" => termios # "raw"

(* A process that was not killed hands the terminal back as its owner last *)
(* set it, also when the settings changed between two prompts: what raw    *)
(* mode saves is taken at each prompt.                                     *)
OwnersSettingsReturn ==
  fate # "killed" /\ (mode = "None" \/ fate # "running") => termios = owner

(* What a key means, key by key, to someone who knows nothing of bytes.    *)
KeyMeans(acc, k) ==
  IF acc.event # "None" THEN acc
  ELSE
    CASE k = "Enter" -> [acc EXCEPT !.event = "UserOk"]
      [] k = "Escape" -> [acc EXCEPT !.event = "UserAbort"]
      [] k = "CtrlC" -> [acc EXCEPT !.event = NotOkEvent]
      [] k \in {"A", "Umlaut"} /\ mode = "GetPin"
           /\ Len(FlattenSeq(acc.secret)) + Len(KeyBytes[k]) <= Capacity ->
           [acc EXCEPT !.secret = Append(@, KeyBytes[k])]
      [] k = "Backspace" /\ mode = "GetPin" /\ acc.secret # <<>> -> [acc EXCEPT !.secret = Front(@)]
      [] k \in {"CtrlU", "CtrlW", "CtrlBackspace"} /\ mode = "GetPin" -> [acc EXCEPT !.secret = <<>>]
      [] OTHER -> acc

(* A read that begins and ends between two keys, and in which an Escape is *)
(* the last one, does what the keys mean: cursor keys, Alt and bytes of    *)
(* another encoding leave the secret alone, and nothing behind a decision  *)
(* counts.  (Escape and another key in one read are one Alt sequence.)     *)
WholeKeysAreHeard ==
  [][ LET ks == SubSeq(queue, 1, Len(queue) - Len(queue')) IN
      pc = "prompt" /\ ks # <<>> /\ split = 0 /\ split' = 0
        /\ (\A i \in 1..Len(ks) - 1 : ks[i] # "Escape")
      => [secret |-> secret', event |-> event']
           = FoldLeft(KeyMeans, [secret |-> secret, event |-> "None"], ks) ]_vars

(* While a passphrase is asked for on a terminal that is large enough, the *)
(* stars on the screen are the characters of the secret, as far as there   *)
(* are squares, unless the last drawing failed: its error is dropped, and  *)
(* only the next edit whose drawing succeeds shows what was typed since.   *)
StarsAreCurrent ==
  At("prompt") /\ mode = "GetPin" /\ height >= 5 /\ ~screen.stale
    => screen.stars = Min({Squares, Len(secret)})

(* What a prompt owes the user: every line of text of a label, but not one *)
(* that the code loses, and the squares when a passphrase is asked for.    *)
(* Lost is a flaw of the code: the test that is to skip the empty element  *)
(* behind a final newline stops at any empty line of such a label, and the *)
(* text behind that line is never drawn, however much room there is.       *)
Lost(c, i) == EndsInNewline(c) /\ \E j \in 1..i - 1 : c[j] = ""

IsShown(e) ==
  IF e = "pin" THEN mode = "GetPin" => \E d \in screen.drawn : d[2] = e
  ELSE \A i \in 1..Len(labels[e]) :
         labels[e][i] = "text" /\ ~Lost(labels[e], i) => \E d \in screen.drawn : d[2] = e /\ d[3] = i

FromTheFirst(drawn) == \A d \in drawn : \A i \in 1..d[3] : \E e \in drawn : e[2] = d[2] /\ e[3] = i

(* On a screen that is not stale: no two lines are drawn in the same row   *)
(* and none below the terminal; of a label the first lines are drawn, none *)
(* without those before it; and what is left out for want of rows is the   *)
(* end of the prompt: everything owed before an element of which a line is *)
(* drawn is there.                                                         *)
LinesHaveTheirRow ==
  At("prompt") /\ height >= 5 /\ ~screen.stale =>
    /\ \A d \in screen.drawn : d[1] < height
    /\ \A d, e \in screen.drawn : d[1] = e[1] => d = e
    /\ FromTheFirst(screen.drawn)
    /\ \A i, j \in 1..Len(Order) :
         i < j /\ (\E d \in screen.drawn : d[2] = Order[j]) => IsShown(Order[i])
=============================================================================
