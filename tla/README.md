# nowayprompt: a TLA+ verification project

nowayprompt is a `pinentry` for gpg-agent (also a command line prompt and an
ssh-askpass): it reads Assuan commands from stdin, shows a prompt on Wayland or
on a terminal, keeps what the user types in one locked page of memory and
writes the answer to stdout. One process, one thread, one `poll` loop; what
makes it hard is everything around it that acts between two of its steps: the
client, the user, the compositor, the kernel.

## The parts of the program

| Part | State | Operations | Talks to |
| --- | --- | --- | --- |
| Assuan REPL (`protocol/assuan.rs`) | mode, labels, default labels, settings, running | `handle_line`, `requires_frontend`, `handle_frontend_event` | calls the frontend's `enter_mode`, resets the secret, writes replies |
| Dispatch loop (`command.rs`, `run_pinentry`) | stdin closed, the frontend, the partial line | flush, exit test, poll, one byte of stdin, POLLHUP, frontend event | everything below |
| Selection and trait (`frontend/mod.rs`) | – | `select`, `enter_mode`, `handle_event`, `flush` | Wayland first, terminal otherwise |
| Terminal (`frontend/tty.rs`) | mode, raw settings, signal handlers | `enter_mode`, `handle_event`, `parse_input`, `render` | terminal driver, secret |
| Wayland state (`frontend/wayland/mod.rs`) | mode, deferred mode, sync callback, exit reason, outputs, seats | callbacks, `enter_mode`, `take_exit` | compositor, secret |
| Wayland input (`input.rs`) | keymap, pointer and touch positions | key, button and touch events | state, secret, rendering |
| Wayland rendering (`render.rs`) and scale (`scale.rs`) | surface, hot spots, scale | `Surface::new`, `render` | buffer pool |
| Buffer pool (`shm.rs`) | slots with a buffer, its size, busy | `next_buffer`, cull, release event, `deinit` | compositor |
| Secret page (`secret.rs`) | page, byte length, codepoint count | `new`, `append_slice`, `delete_backwards`, `reset`, drop | kernel |
| Configuration (`config.rs`) | labels, colours, sizes | parse at start, `reset` of the labels | – |
| Command line and askpass (`command.rs`) | – | one prompt, then output and exit status | a frontend, the secret |

What should hold, part by part:

* **REPL**: one fitting reply per accepted command, in order; a passphrase only
  for a GETPIN; no stale error message; explicit labels win over defaults.
* **Loop and frontends**: the REPL and the frontend are in the same mode; a
  lost input, a lost compositor and the end of stdin end the process; a key
  answers the prompt it was pressed at.
* **Secret page**: what is typed is only ever in a protected page, leaves
  nothing behind, and is edited by whole codepoints.
* **Buffer pool**: never draws into a buffer on the screen, loses none, and
  shrinks after a burst.
* **Terminal**: never left raw; its settings come back as their owner made
  them; a key does what it means; the lines of the labels have rows of their
  own, and the stars are those of the secret.
* **Dialog**: the frame on the screen has the scale and the stars of now, in
  the size of the layout; a press acts on the button it began on or on none.
* **Command line and askpass**: nothing is asked for an invalid request; what
  stdout and the exit status tell is what the user did; the frontend is
  released.

## The modules

| Module | Models | State and actions |
| --- | --- | --- |
| `Assuan` | the REPL | `mode`, `labels`, `defaults`, `settings`, `isRunning` are its fields and the configuration's; `log` holds each accepted command and its reply, `fate` how the process returned. One action per kind of command, `StartPrompt`, `DropLine`, `HandleFrontendEvent`. `ReplSpec` runs it alone. |
| `Decode` | `assuan_decode` | no state: the two passes as functions over bytes, the encodings a client may choose, and what each must decode to. |
| `AssuanText` | `ReplSpec` with its texts as UTF-8 | no state: the lines that carry a text, what `handle_line` and `get_option` cut out of them, and what a label must have been sent as (`LabelsAreMeant`). |
| `AssuanService` | what pinentry mode promises its client | lines written, lines taken, replies: `Accept`, `Drop`, `Answer`, `Return`, `Fail`. |
| `Pinentry` | `run_pinentry` with the REPL and both frontends, the client, the user, the terminal driver and the compositor | `pc` walks through the loop: `LoopHead`, `Poll`, `StdinStep`, `NoEvent`/`ReadTerminal`/`ReadWayland`, then `Dispatch...` for each key or event read, and `EndPromptOf...`. |
| `TtyInput` | `parse_input` | no state: one read's bytes to tokens. |
| `Terminal` | the terminal frontend, its device and its caller | `termios` is the terminal's, `guard` is what `RawTty` saved, `saved` the signal handler's static; `queue` and `split` are the keys the kernel holds, the first perhaps read in part; `screen` is the last picture drawn as a whole, `stale` once a later drawing failed. `OpenTty`, `EnterMode`, `FirstRender`, `HandleEvent`, `LeaveMode`, `Deinit`, `Unregister`, `CloseAndReturn`, errors (`EnterModeFails`, `ReadFails`) and `Signal`. |
| `Scale`, `Layout` | the scale of a surface; the size of the dialog and its hotspots | no state: the functions of `scale.rs`, `calculate_size` and the walk of `render`. |
| `Surface` | the dialog, the outputs and the compositor's copy | `outputs`, `managers`, `surface`, `exit` are `WaylandState`'s; `shown` is the state the compositor holds after the last commit, with the buffer scale and destination that stay until they are set again. One action per event of the registry, an output, the surface and the layer surface, and per key. |
| `Pointing` | pointer and touch above `Surface` | `press_hotspot` and `touchpoints` are the seat's; `button` and `fingers` are what the hand did, and are read by the properties and by the rules the compositor keeps. Press, release (heard or not), touch down, motion, up and cancel, the loss of the pointer, and the end of a prompt, which clears nothing of the seat. |
| `ConfigFile` | the choice of a configuration file and its lines | no state: `parse_line` folded over the lines, and the meaning of a file said without reading it line by line. |
| `Prompt` | `run_cli`, `run_askpass`, `prompt` | `pc` walks through the calls, from `ReadArguments` to `Return`; beside it the compositor, the user and whoever reads stdout. |
| `SecretText` | what the secret page promises | a text, open or over. |
| `SecretBuffer` | the secret page | the fields of the struct plus memory: which pages are mapped, locked, undumped, and what every page holds. Each system call may fail. |
| `BufferOwnership` | what the pool promises the compositor | who owns each buffer. |
| `BufferPool` | the pool, `render`'s use of it, the compositor's releases | `slots` as in the code, the user data of each object, what the compositor holds, the releases on their way. |
| `Assuan_proofs`, `Pinentry_proofs`, `Terminal_proofs`, `Surface_proofs`, `BufferPool_proofs`, `SecretBuffer_proofs`, `Prompt_proofs` | theorems about these modules and those they extend | no state: inductive invariants, lemmas, proofs |
| `NatInduction` | induction over the naturals, stated for sets | no state |
| `MC...` | constants of the runs | |

`Pinentry` extends `Assuan` and uses its actions, so that every step of the
REPL happens inside the step of the loop that makes it. `Pointing` extends
`Surface`, which extends `Layout` and `Scale`; `Prompt` extends `ConfigFile`;
`Terminal` extends `TtyInput`; `AssuanText` sends the texts of `Assuan` through `Decode`, and
`MCAssuan` extends it.

The same code is seen at two distances. `Pinentry` keeps the secret as a
sequence of characters and a key as one input; `SecretBuffer` is the same
secret down to bytes and pages, `Terminal` the same frontend down to reads,
settings and rows, `Surface` the same dialog down to scales and commits.

Definitions whose comment starts with "Mutant:" or "A bug:" are wrong on purpose and used
by nothing: each is a plausible bug in the definition below it, and replacing
that definition by it breaks a property of one of the runs. `PROJECT.json`
pairs them.

### Abstractions

* A line is a record (command, what it names, the decoded text). In `Pinentry`
  texts are model values; one of them, `BlankText`, is white space. A line that
  is not UTF-8 is not modelled. In `AssuanText` a line is bytes: it begins with
  its keyword and has one space behind it; other white space is left out.
* The bytes of a line before its newline are read in one step, and the newline
  in another, so that the writer can go away in between.
* A key is what it does: a character, Backspace, Clear (Ctrl-U and its like),
  Enter, Escape, NotOk (Ctrl-C on the terminal, the third button on Wayland).
  The OK and Cancel buttons are Enter and Escape. `fresh` marks a key
  that was pressed at the prompt now active; it is read by properties only,
  except that an event of a destroyed surface is dropped, as the client library
  does.
* In `Pinentry` drawing does not fail; a surface with a blank label does.
  (`Terminal` has the signals and the drawings that fail, the first with an
  error and a later one unnoticed; `Surface` has the size that does not fit.) A client that closes the end it reads from is not modelled
  there; `Prompt` has a reader of stdout who leaves.
* `Terminal`: the terminal is wide enough, so that a line takes one row. Of the
  signals one is kept, at any time. The user's keys come as their bytes, in
  reads of any length up to `ReadSize`.
* `Layout` measures labels: a label is the extent of its shaped text. `Surface`
  never has a label that cannot be drawn (`Pinentry` and `Prompt` have them).
  `MaxWord` stands for `u32::MAX`; padding and measures are small against it,
  so of the arithmetic only the product with the scale can overflow.
* `Pointing`: one pointer whose left button counts, touch ids that are used
  again. A finger or a button may stay down when its prompt ends. A compositor
  either ends every touch, also one whose surface is destroyed, by an up or a
  cancel that may come late (`EndsTouches`), or says nothing more of it and uses
  the id again. The release of a button may be unheard with either.
* `ConfigFile`: a line is what is left when comments, quotes and the semicolon
  are off; a value is one that a number and a colour take, or one that neither
  takes. There is one variable of each type, and `border`, which is a number in
  one section and a colour in the other.
* `Prompt`: the user presses nothing behind a decision (`wayland_type_ahead`
  shows what becomes of it). Help and wording are left out.
* A compositor may lack the interfaces a prompt needs, may close the surface
  it shows, and may go away. Once it is gone a flush may still succeed, until a
  read has noticed (`link` is then "broken", in `Pinentry` and in `Prompt`).
* Two reductions keep the state space small. The client acts only while the
  loop is at its poll, because nothing else looks at stdin; keys are pressed
  only before the poll, before the read, and before a prompt ends, the steps at
  which it matters where a key is.

## The runs

| Run | Question | Outcome |
| --- | --- | --- |
| `repl` | Is every command answered once, fittingly, with fresh errors, the right labels, and labels the client meant? | holds |
| `pinentry_tty` | Do REPL and terminal stay in step, does type-ahead confirm nothing, is the service kept, and does everything end? | holds |
| `pinentry_wayland` | The same on Wayland, with the deferred mode and a compositor that fails. | holds, for a user who presses nothing after deciding |
| `wayland_type_ahead` | Without that assumption, does the frontend leave only a prompt it is in? | no |
| `pipe_hangup` | Is every line written before the client closed a pipe read? | no |
| `terminal` | Is the terminal given back, does a whole key mean what it should, does the screen show the labels and the stars? | holds, for a screen whose last drawing succeeded, and but for the lines the code loses |
| `surface` | Is the frame the one for the present scale and secret, in its size, and does a gesture act where it began? | holds, for a compositor that ends every touch |
| `stale_touch` | Without that assumption, does a touch act where it began? | no |
| `prompt` | Does one prompt from the command line or for ssh tell the truth and end? | holds |
| `secret` | Is the passphrase always in a protected page, and gone afterwards? | holds, for a caller that stops at an error |
| `secret_ctrl_u` | Does that hold for Ctrl-U, which ignores the error? | no |
| `pool` | Is a buffer on the screen left alone, are all buffers accounted for? | holds |

Four runs find a disagreement between the code and what its documentation says;
`PROJECT.json` quotes both sides under "findings":

1. POLLHUP ends the reading of a pipe whose bytes are not all read, so
   `printf 'NOP\nNOP\n' | nowayprompt` may lose both commands.
2. On Wayland a key that arrives just after the answer is an event without a
   prompt: mode None is "left" again and an unsolicited reply is written. (A
   terminal refuses, and the process ends.)
3. Ctrl-U on the terminal drops the error of a failed reset: what is typed next
   is in a page that is not locked.
4. A touch point is found by its id and outlives its surface: with a compositor
   that does not report the end of a touch whose surface is destroyed, a finger
   left on Cancel by one prompt answers the next one when the id comes up again
   on another button.

Others were met while modelling and have no run of their own; the models do what
the code does:

* MESSAGE keeps the error message for the next prompt, although
  `openspec/specs/assuan-ipc/spec.md:91` says that it clears it.
* A reset whose `mmap` fails leaves the old pointer and length behind, and drop
  writes through them (`secret.rs:371`).
* The pool grows past three buffers when the compositor is slow
  (`shm.rs:216`, against `openspec/specs/wayland-shm-buffer/spec.md:21`).
* SETTITLE, SETPROMPT, SETDESC and SETERROR keep the space behind the keyword
  (`assuan.rs:199-216`; the test at `assuan.rs:584` expects `Some(" T")`), where
  `openspec/specs/assuan-ipc/spec.md:47-61` stores `SETTITLE My Title` as
  `My Title`. SETOK, SETNOTOK and SETCANCEL strip it.
* `SETOK %` subtracts more than the length of the line (`assuan.rs:57`) and
  ends in a panic, where `openspec/specs/assuan-ipc/spec.md:21` asks for an
  error; `%+5` is accepted as an escape. `Decode` has both, and no property
  excludes them.
* The errors of the drawings that follow an edit are dropped (`tty.rs:754`, 760,
  768): after a failed one the stars are those of an earlier secret, or of a part
  of a picture, until a later edit is drawn.
* Of a label that ends in a newline nothing is drawn behind an empty line
  (`tty.rs:317-321`): a description of `a`, an empty line and `b`, with a newline
  at its end, loses `b`. The comment there means the empty element behind the
  final newline only, and `openspec/specs/tty-fallback/spec.md:49` has the label
  rendered.
* A button of the dialog acts when the mouse button is released or the finger
  lifted on it ("for better UX", `input.rs:396`, 474), where
  `openspec/specs/wayland-input/spec.md:53-61` has the press and the touch-down
  set the exit reason.
* A gesture outlasts its prompt. A finger left down acts when it comes up, be it
  between two prompts, where nothing looks for a surface (`input.rs:489-492`), or
  at the next one; a mouse press carried over acts on a button of the same effect
  and place.
* A key split between two reads is misread: its ESC is a decision, its tail is
  text. `Terminal` has such reads, and `WholeKeysAreHeard` speaks of the others.
* A signal ends the process with status 0, also after the handler was
  "unregistered", and without overwriting the secret (`tty.rs:80`).
* The value of a flag is the next argument, whatever it looks like
  (`--title --json`); a file of the preferred name that cannot be read is an
  error even when the second one could be.

### Properties worth reading

* `ModesAgree`: the REPL's mode and the frontend's (or the deferred one) agree
  whenever the process runs. It spans the sync callback, a failed surface and
  the end of a prompt.
* `ServiceSpec`: `Pinentry` implements `AssuanService` under the mapping of
  complete lines to `sent`, lines read to `taken`. This is "one reply per
  command" for the whole program, and "returns only without a prompt".
* `AnswersOwnPrompt` and `DecisionIsFinal` (terminal): the key that ends a
  prompt was pressed at it, and what was read behind it changes nothing.
* `EofEnds`, `PromptAnswered`, `LostCompositorEnds`, `LinesTaken`: progress.
* `LabelsAreMeant`: a label is a text the client meant, whichever line said it:
  what is cut off the line is the keyword and, for buttons only, its space (four
  commands keep it, and `Kept` says so), and each encoding of a text decodes to
  it; on short lines, what is accepted is exactly what is well formed (or has a
  plus sign for a digit, as `Readable` says), and pass 1 has counted what pass 2
  pushes.
* `CookedWhenGone`, `OwnersSettingsReturn`: three copies of the settings (the
  guard's, the handler's, the owner's) and four ways to go.
* `WholeKeysAreHeard`: the byte parser and the loop over its tokens against the
  meaning of the keys, key by key.
* `StarsAreCurrent`: every edit of a read draws, and the last drawing that
  succeeded was of the secret as it is, unless a later one failed.
* `LinesHaveTheirRow`: the arithmetic of rows, with blank lines, final newlines
  and a terminal that is too low. It names the lines that the code loses (`Lost`)
  and asks for all others.
* `FrameIsCurrent`, `CommitsKeepTheSize`: every event that changes the scale or
  the secret redraws, and the sticky state of a surface fits each buffer.
* `ButtonsApart`: two walks over the labels agree on where things are.
* `GesturesActWhereTheyBegan`: the seat's memory of a press against the hand,
  across prompts: what acts is the button it began on or none. It does not say
  that a gesture is forgotten with its prompt, because it is not.
* `AnswerIsTold`, `FrontendIsReleased`, `OpensOnlyForValidRequests`,
  `PromptEnds`: one prompt, through every error.
* `NoResidue`, `SecretIsProtected`, `TextSpec`: the page.
* `BusyIsHeld`, `OwnershipSpec`, `PoolShrinks`: the pool.

### Bounds

* `repl`: 4 answered commands of 18 kinds are enough for an error message to be
  set, a prompt answered and a second one opened, or for a label, a default, a
  prompt and a RESET in any order. One text has a letter, a percent sign and a
  codepoint of two bytes, one is a hotkey mark and one is empty, said by a SETOK
  without an argument; they come by commands that keep the space, by ones that
  strip it and by options. Besides, every line of up to four bytes over six bytes
  that matter is judged.
* `pinentry_tty`: 3 lines, the first of which must select the terminal for
  anything to be shown; so two prompts of different modes follow each other, or
  a prompt and a line that is dropped. 2 waiting keys make a batch with a key
  behind a decision; a page of 1 character is full after one. Stdin is a pipe or
  a stream.
* `pinentry_wayland`: 2 lines and 2 keys; a prompt is the first line, so that
  it may come before the sync callback, and the second may follow it.
* `terminal`: reads of 5 bytes and 2 waiting keys of up to 4 bytes: a read may
  end in either of them, or hold both. A page of 2 bytes takes two letters or a
  codepoint of two bytes, and refuses one behind a letter; one key is a byte of
  another encoding, which announces a second byte that is not its own. Labels with an empty
  line inside, with and without a newline at the end. Heights below 5 (nothing is drawn), of 7 (the labels do not
  fit) and 24; 2 settings.
* `surface`: 2 outputs, so that one may go while the other stays; a scale that
  is no number, 2, and fractions of which one overflows `MaxWord`; prompts with
  three buttons of unequal width and with one; 2 prompts, so that the second
  has what the first left behind; 1 finger and 1 button at 3 places.
* `prompt`: 15 invocations (the granted ones with each output, the refused ones
  with one reason each), 9 homes (each base, each candidate, each way a line is
  refused), 2 keys.
* `secret`: a page of 6 bytes, codepoints of 1 and 3 bytes and slices of up to 4
  bytes: it can be filled exactly, and a slice can be one byte too long. Of 3
  pages one is in use and two are free, one of them with a history.
* `pool`: a limit of 2 with 4 buffers and 2 sizes: the pool can be over its
  limit by as much as the limit itself. Objects are symmetric.

`CHECK_DEADLOCK FALSE` is said only where the model really stops: after BYE,
after a drop, after the pool is gone, when the process or the frontend has
ended.

### Fairness

`FairSpec` assumes that the process takes steps (`WF` of `Loop`: the loop is one
thread with nothing to wait for but `poll`), that the user decides a prompt that
is in view again and again (`SF` of `Decide`: strong, because the model lets a
key be pressed only at the steps where it matters), and that the compositor
answers the sync request, shows the surface and takes a destroyed one away (`WF`
of `AnswerSync`, `ShowPrompt`, `HidePrompt`). Nothing makes the client write or
close, and nothing makes a link fail or hold. The properties name their
exceptions: a terminal that hung up leaves the loop spinning for ever, which
`EofEnds` and `PromptAnswered` exempt. `Prompt` assumes only that the process
takes steps (`WF` of `Process`): `PromptEnds` starts from a decision the user
has made, or from a compositor that is gone.

## What is proved

The theorems, in one proof module per component, hold for every value of the
constants. Of the runs that pass they state every invariant, every action
property and every refinement; what is left to TLC is liveness, and a safety
half of most of it is proved too. The assumptions on constants are the named
`ASSUME`s of the modules; what a theorem assumes besides is said with it and
collected below.

**`Assuan_proofs`** (`ReplSpec`, any vocabulary, texts, number of lines). That
the answer to a prompt goes to the command that opened it needs the log to be
well typed and its last entry to be the pending one whose mode is the REPL's:
`ReplInv`. The label properties speak about positions in the log and need
`ReplInv` to know that an event changes only the last entry, which no `SET`
command is: `LabelInv` adds them. `ErrorIsFresh` is proved by naming, at each
step, the entry that set the message. The lemmas speak of one command or one
event, so that `Pinentry_proofs` uses them again.

The other half is about bytes: `EveryEncodingIsDecoded` (whatever a client
sends for a text, each byte escaped or not, with digits of either case, is
decoded to that text), `EveryLineIsJudged` (a line of any length is accepted
exactly when it is well formed, a plus sign counting for a digit as the code has
it), and with them `LabelsArriveAsMeant`, which begins at the line: what is cut
out is what the client put behind the keyword. Both
passes of `assuan_decode` go forward; the proofs go backward. A scan is a
function of the places of the line, what it makes of the rest of the line does
not depend on what came before, and each form of a byte is read as that byte;
so the claim for the rest gives the claim for one byte more. That pass 1 counts
what pass 2 pushes is a lemma on the way.

**`Pinentry_proofs`** (any interleaving of client, user, compositor and loop).
Three invariants, each a part of the next:

* `ModesInv`: types, which bytes of stdin are read, what an unselected, a
  terminal and an unsynced Wayland frontend can be, `ModesAgree` and
  `NoSecretOutsideGetPin`. The last two need each other, and both need to know
  that before the sync callback nothing but that callback waits.
* `KeysInv` adds who pressed the keys that wait. A key answers its own prompt
  because every key in the queue or in the batch was pressed at the active
  prompt (`Owned`), and that survives the end of a prompt because nothing of
  the user waits behind the key that decides: the terminal throws it away
  (`TerminalStops`), on Wayland the user must not press it (`Patience`).
* `ServeInv` adds `LabelInv` and that BYE, once taken, is seen by the exit test
  before another line is read. It gives the three REPL properties for the whole
  program and `TheClientIsServed`, the step simulation of `AssuanService`:
  complete lines are lines sent, one command or one dropped line is one taken.

A fourth, `RoundInv` over `ModesInv`, is about one round of the loop: what poll
found of stdin still holds when stdin is read, a stream is closed only at its
end, and a connection is broken only between a read and the next flush. It gives
`StreamsAreReadToTheEnd`, and the safety halves of liveness properties, for a
loop of which nothing is assumed but its steps. `NoByteIsPassedOver`: while a
byte waits, each step of the loop lowers `ReadStage` (or leaves it and shortens
the batch), and no step of anybody else touches either. `TheLossIsNoticed`: the
same for `LostStage` and a compositor that is gone, down to the flush that ends
the process. `DecisionsArriveInTime` (from `ModesInv` alone, for any user): a key
that decides the prompt in view is in the queue, in the batch or in `reason`, and
each step lowers `AnswerStage` until the prompt ends; it needs `ModesAgree`, for
a terminal in the wrong mode would read another part of the queue. Fairness of
`Loop` adds only that the steps are taken.

**`Terminal_proofs`** (any settings, keys, labels, sizes). `DeviceInv` says
where the owner's settings are while the terminal is raw (in the guard, and in
the handler's static) and that they are back when it is not: neither
`CookedWhenGone` nor `OwnersSettingsReturn` says it alone. `TerminalInv` adds
`TextInv` (the secret is UTF-8 that fits its page, and a read cuts at most the
first key) and `ScreenInv` (`StarsAreCurrent`: a screen that is not stale was drawn
from the secret of now, whichever drawings of a read failed). The number of stars follows only
because every token leaves UTF-8 behind, whatever bytes a read returned.
`PromptIsLaidOut` proves `LinesHaveTheirRow` from a run of the fold in `render`.
`KeysMeanWhatTheySay` proves `WholeKeysAreHeard`: each key's bytes are where those
before it end (`KeysInPlace`), the parser cuts one token out there, because no key
begins with a byte that could continue the one before (`KeysAreCut`), and the loop
makes of that token what the key means (`KeyIsHeard`).
`EveryByteIsRead` is about the parser and any bytes at all: its tokens lie end to
end from the first byte of a read to the last.

**`Surface_proofs`** (any outputs, factors, labels, paddings). `PhysicalCovers`
is about `physical_dim` itself: an extent that is not refused is a positive u32,
covers the logical one and wastes less than a pixel. `ScaleInv` adds to
`ScaleIsEffective` that an entered output is a tracked one: without it an output
that is announced could change the choice without an event of its own.
`DialogInv` says what the compositor holds: the last commit fits the surface's
size, and while the prompt goes on it is the frame of the present scale and
stars. `PointingInv` types the seat, `GestureInv` ties `touchpoints` and
`press_hotspot` to what the hand did (`TouchInv`, `PressInv`). `ButtonsAreApart`
rests on lemmas about the folds of `Layout`: every hotspot is in the dialog, each
begins behind the end of the one before, and there is one for each button.

**`BufferPool_proofs`** (any limit, objects, sizes). `BusyIsHeld` and
`SlotsAreStable` need each other: a release finds its buffer by the slot in the
buffer's user data, and two slots never hold one buffer because each buffer
knows one slot. `PoolInv` is both with the types. From it, the refinement of
`BufferOwnership` step by step, and `PoolShrinks`.

**`SecretBuffer_proofs`** (any capacity, pages, codepoints of one to four bytes).
`PageInv` adds to `NoResidue` that the text begins with a lead byte, so that
going back over continuation bytes ends inside it, that no more codepoints are
counted than there are lead bytes, and that a caller that stops at a failed
reset has a protected page that counts them all. `TextInv` adds that the page
holds the UTF-8 of a text; a slice that is appended makes it the encoding of the
longer text, and Backspace that of the text without its last codepoint, so
`EditsAreWhole` is the implementation of `SecretText`.

**`Prompt_proofs`** (any invocation, home, keys). `FilesAreRead`: what
`parse_line`, folded over a file of any length, accepts and computes is what
`IsValid` and `Meaning` say of the file as a whole. `ArgumentsAreRead`: a command
line that is accepted is well formed. `PhaseInv` (what is known at each call)
gives `OpensOnlyForValidRequests` and `FrontendIsReleased`. `AnswerIsTold` relates
stdout and status to what the user did, which the process knows only through
events not yet dispatched: `TalkInv` says that dispatching all events that wait
makes of the prompt what the user did. `AnswerInv` adds that the lines on stdout
are the first of those the answer has, and that `ssh-askpass` never writes JSON.
`ThePromptEndsInTime` is the safety half of `PromptEnds`: once the user has
decided or the compositor is gone, `CallsLeft` (at most ten) falls with every
call and never rises. `DecidedInv` says why a decision counts although it was
not dispatched yet: it waits in the queue the next read empties, and a reason to
go stays one behind whatever is dispatched after it.

**`NatInduction`** is what the proofs about data rest on: induction over the
naturals for a set of numbers (`SetInduction`, `IndexInduction`, `LeastMember`),
which the provers can instantiate where they cannot with a predicate, and
`FoldExists`, which turns a fold over a sequence into a run, the function that
holds what was made of the first i items. `BackwardInduction` and
`BackwardExists` are the same from the last place to the first.

### What the theorems assume

* `~Ignores` (`SecretStaysProtected`, `CodepointsAreCounted`, `EditsAreWhole`): a
  caller that stops when a reset fails. The callers do, except Ctrl-U on the
  terminal, for which `secret_ctrl_u` refutes `SecretIsProtected`.
* `hp > 0` (`ButtonsAreApart`): the configuration leaves a gap between buttons,
  as the default of 15 does. With `horizontal-padding = 0` neighbours touch.
* `EndsTouches` (`GesturesBeginWhereTheyAct`): a compositor that ends every
  touch, also on a surface that is destroyed, before it uses the id again;
  `stale_touch` is the other one. Of the mouse nothing is assumed but that a
  second press follows a release, heard or not.
* `NoTypeAhead` (`KeysAnswerTheirPrompt`, `NoModeIsLeftTwice`, the three REPL
  properties and `TheClientIsServed` in `Pinentry_proofs`): no compositor is
  found, so that the frontend is the terminal, or the user presses nothing after
  deciding; `wayland_type_ahead` is the rest. `LiveDisplays = {}`
  (`TheDecisionStands`): what is read behind a decision is ignored by the
  terminal only. `NoModeIsLeftTwice` proves, under the assumption, the property
  that `wayland_type_ahead` refutes without it.
* `AbsentAssumption` (twice), `NamesAssumption`, `TypedAssumption`,
  `CharsAssumption`, `SettingsAssumption`, `TextsAssumption`: values that stand
  for "nothing" (an `Option`'s `None`), and the kinds of keys, are not confused
  with each other. The code has them apart by type.
* `MeantAssumption`, `SayingAssumption` (`LabelsArriveAsMeant`): what a client
  means is UTF-8, and each argument in `Vocabulary` is what `Arrives` makes of a
  line that says such a text, or malformed.
* `OutputsAssumption`: factors are i32, preferences u32, as on the wire.
  `UiAssumption`, `WidthAssumption`: sizes are natural numbers, a codepoint has
  one to four bytes.
* `ArgumentsAssumption`, `HomesAssumption`, `LabelsAssumption`: arguments are
  strings, a file is unreadable or a sequence of lines, a label is the lines
  `split('\n')` gives.

### What is only model-checked

* Liveness (`EofEnds`, `LinesTaken`, `PromptAnswered`, `LostCompositorEnds`,
  `PromptEnds`): temporal reasoning under fairness and `ENABLED` are out of the
  prover's reach. For `LinesTaken`, `LostCompositorEnds`, `PromptEnds` and, once
  the user has decided, `PromptAnswered`, the theorems above say how many steps it
  takes; that the process can always take the next one, and does, is what TLC
  checks. That the user gets to decide, and `EofEnds`, wait for the user and the
  compositor.
* The runs that end in a counterexample.
* RECURSIVE operators are out of reach too; what a proof is about is a recursive
  function or a fold.

## What is not modelled

* Pixels, fonts and the drawing of rectangles (`render.rs`, about a third of
  it): their result is looked at, not computed with.
* The keymap and its modifiers, the cursor's shape, several seats; two touch
  points at a time.
* The lexing of a line of the configuration, and colours as numbers: sequential,
  run once, covered by tests with whole files.
* The display's socket path, and the required globals one by one (the sync
  callback finds them complete or not).
* A line of stdin that is not UTF-8, a poll that fails, stdout that breaks in
  pinentry mode.
* Labels wider than the terminal (a length is cut to 16 bits at `tty.rs:333`).
* `set_rlimit_core_zero` (one call, its failure ignored by pinentry mode) and
  MADV_WIPEONFORK (best effort).
* Packaging, tests and the Wayland test client.

## Plan

The composition of `Pinentry` with `SecretBuffer`, so that each caller's reaction
to a failed reset is part of one model.
