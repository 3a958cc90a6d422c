------------------------------ MODULE Surface ------------------------------
(***************************************************************************)
(* The dialog's surface (src/frontend/wayland): the outputs the registry   *)
(* announces, the scale that follows from them, the frames committed to    *)
(* the compositor, the keys that change what is drawn, and the reason to   *)
(* leave the prompt that dispatching an event leaves behind.               *)
(*                                                                         *)
(* Left to other modules: the deferral until the sync callback and the     *)
(* failing labels (Pinentry), where a frame's memory comes from            *)
(* (BufferPool).  A keysym is what it does; the pin is its length.         *)
(***************************************************************************)
EXTENDS Layout

CONSTANTS
  Outputs,       \* names of wl_output globals
  Factors,       \* the scales an output reports
  Preferences,   \* the numerators preferred_scale brings
  Prompts,       \* what may be asked for: a mode and the labels
  Capacity,      \* how many characters the secret page holds
  MaxPrompts     \* bound: prompts in a row

(* An output reports an i32, the compositor prefers a u32.                 *)
ASSUME OutputsAssumption ==
  Factors \subseteq Int /\ (\A f \in Factors : f <= MaxWord) /\ Preferences \subseteq Word
ASSUME PromptsAssumption == Prompts \subseteq [mode : {"GetPin", "Message"}, views : Views]
ASSUME BoundsAssumption == Capacity \in Nat /\ MaxPrompts \in Nat

VARIABLES
  fate,      \* of the frontend: "running", or "failed" after an error was returned
  managers,  \* which of the two optional globals are bound
  outputs,   \* the scale of every tracked output
  mode,
  prompt,    \* the number of the prompt, to tell one from the next
  views,     \* the labels of the prompt
  surface,
  pin,       \* the length of the secret
  exit,      \* exit_reason
  shown      \* what the compositor holds of the surface: the state committed last

globals == <<fate, managers, outputs>>
mine == <<mode, prompt, views, pin>>
surfaceVars == <<globals, mine, surface, exit, shown>>

Manager == {"fractional_scale", "viewporter"}
ExitReason == {"UserOk", "UserAbort", "UserNotOk", "Error"}
InterfaceMode == {"None", "GetPin", "Message"}

HotSpotRecord == [effect : Button, x : Nat, y : Nat, width : Nat, height : Nat]
SurfaceRecord ==
  [configured : BOOLEAN, width : Nat, height : Nat, scale : Scales, hotspots : Seq(HotSpotRecord),
   fractional : BOOLEAN, entered : SUBSET Outputs, preferred : Preferences \cup {Absent}]
FrameRecord ==
  [width : Word, height : Word, buffer_scale : Word, squares : 0 .. Capacity,
   destination : [width : Nat, height : Nat] \cup {Absent}]

(* None is no value of any of the types it stands beside.                  *)
ASSUME AbsentAssumption ==
  /\ Absent \notin SurfaceRecord /\ Absent \notin FrameRecord /\ Absent \notin HotSpotRecord
  /\ Absent \notin ExitReason /\ Absent \notin [width : Nat, height : Nat]

SurfaceTypeOK ==
  /\ fate \in {"running", "failed"}
  /\ managers \subseteq Manager
  /\ DOMAIN outputs \subseteq Outputs /\ \A o \in DOMAIN outputs : outputs[o] \in Word
  /\ mode \in InterfaceMode
  /\ prompt \in 0 .. MaxPrompts
  /\ views \in Views
  /\ surface \in SurfaceRecord \cup {Absent} /\ (surface = Absent <=> mode = "None")
  /\ pin \in 0 .. Capacity
  /\ exit \in ExitReason \cup {Absent}
  /\ shown \in FrameRecord \cup {Absent} /\ (shown # Absent => surface # Absent)

SurfaceInit ==
  /\ fate = "running"
  /\ managers = {}
  /\ outputs = <<>>
  /\ mode = "None" /\ prompt = 0 /\ views = [e \in Element |-> Absent]
  /\ surface = Absent
  /\ pin = 0
  /\ exit = Absent
  /\ shown = Absent

Running == fate = "running"
HasSurface == Running /\ surface # Absent

-----------------------------------------------------------------------------
(* Drawing.                                                                *)

SquaresShown == IF mode = "GetPin" THEN Min({pin, Ui.pin_square_amount}) ELSE 0

(* What is in the state of a surface nothing was committed to.             *)
Unset == [buffer_scale |-> 1, destination |-> Absent]
Before == IF shown = Absent THEN Unset ELSE shown

(* A bug: a fractional commit leaves the buffer scale of the one before.   *)
Commit_KeepsTheBufferScale(s, size, squares) ==
  [width |-> size[1], height |-> size[2], squares |-> squares,
   buffer_scale |-> IF s.scale.mode = "Integer" THEN s.scale.numerator ELSE Before.buffer_scale,
   destination |-> IF s.scale.mode = "Integer" THEN Absent
                   ELSE [width |-> s.width, height |-> s.height]]

(* The buffer scale and the destination stay until the next request: a     *)
(* frame is committed with what was there and is not set again.            *)
Commit(s, size, squares) ==
  [width |-> size[1], height |-> size[2], squares |-> squares,
   buffer_scale |-> IF s.scale.mode = "Integer" THEN s.scale.numerator ELSE 1,
   destination |-> IF s.scale.mode = "Fractional" /\ s.fractional
                     THEN [width |-> s.width, height |-> s.height]
                   ELSE IF s.fractional THEN Absent
                   ELSE Before.destination]

physical_size(s) == <<physical_dim(s.scale, s.width), physical_dim(s.scale, s.height)>>

(* render: nothing before the first configure, and nothing but the error   *)
(* when the size does not fit.  The buttons are recorded once.             *)
Render(s, squares, otherwise) ==
  IF ~s.configured
    THEN surface' = s /\ exit' = otherwise /\ UNCHANGED shown
  ELSE IF Overflow \in {physical_size(s)[1], physical_size(s)[2]}
    THEN surface' = s /\ exit' = "Error" /\ UNCHANGED shown
  ELSE /\ surface' = [s EXCEPT !.hotspots =
                        IF @ = <<>> THEN Hotspots(views, mode, s.width) ELSE @]
       /\ shown' = Commit(s, physical_size(s), squares)
       /\ exit' = otherwise

(* A bug: the new scale waits for the next key.                            *)
Rescale_Silently(s, scales) ==
  /\ surface' = [s EXCEPT !.scale = compute_effective_scale(s.fractional, s.preferred,
                                      {scales[o] : o \in s.entered \cap DOMAIN scales})]
  /\ UNCHANGED <<exit, shown>>

(* recompute_scale, and a frame if the scale is another one.               *)
Rescale(s, scales) ==
  LET scale == compute_effective_scale(s.fractional, s.preferred,
                                       {scales[o] : o \in s.entered \cap DOMAIN scales})
  IN IF scale = s.scale THEN surface' = s /\ UNCHANGED <<exit, shown>>
     ELSE Render([s EXCEPT !.scale = scale], SquaresShown, exit)

-----------------------------------------------------------------------------
(* The registry and the outputs.                                           *)

BindManager(m) ==
  /\ Running /\ m \notin managers
  /\ managers' = managers \cup {m}
  /\ UNCHANGED <<fate, outputs, mine, surface, exit, shown>>

OutputAppears(o) ==
  /\ Running /\ o \notin DOMAIN outputs
  /\ outputs' = [p \in DOMAIN outputs \cup {o} |-> IF p = o THEN 0 ELSE outputs[p]]
  /\ UNCHANGED <<fate, managers, mine, surface, exit, shown>>

Without(o) == [p \in DOMAIN outputs \ {o} |-> outputs[p]]

(* A bug: the record goes, and the scale it gave stays.                    *)
OutputRemoved_Unnoticed(o) ==
  /\ Running /\ o \in DOMAIN outputs
  /\ outputs' = Without(o)
  /\ UNCHANGED <<fate, managers, mine, surface, exit, shown>>

OutputRemoved(o) ==
  /\ Running /\ o \in DOMAIN outputs
  /\ outputs' = Without(o)
  /\ IF surface = Absent THEN UNCHANGED <<surface, exit, shown>>
     ELSE Rescale([surface EXCEPT !.entered = @ \ {o}], outputs')
  /\ UNCHANGED <<fate, managers, mine>>

(* A bug: the factor is taken as it comes.                                 *)
Reported_Raw(factor) == factor

(* A factor that is no u32 counts as none.                                 *)
Reported(factor) == IF factor < 0 THEN 0 ELSE factor

OutputScale(o, factor) ==
  /\ Running /\ o \in DOMAIN outputs /\ outputs[o] # Reported(factor)
  /\ outputs' = [outputs EXCEPT ![o] = Reported(factor)]
  /\ IF surface = Absent THEN UNCHANGED <<surface, exit, shown>> ELSE Rescale(surface, outputs')
  /\ UNCHANGED <<fate, managers, mine>>

EnterOutput(o) ==
  /\ HasSurface /\ o \in DOMAIN outputs \ surface.entered
  /\ Rescale([surface EXCEPT !.entered = @ \cup {o}], outputs)
  /\ UNCHANGED <<globals, mine>>

LeaveOutput(o) ==
  /\ HasSurface /\ o \in surface.entered \cap DOMAIN outputs
  /\ Rescale([surface EXCEPT !.entered = @ \ {o}], outputs)
  /\ UNCHANGED <<globals, mine>>

PreferredScale(p) ==
  /\ HasSurface /\ surface.fractional /\ surface.preferred # p
  /\ Rescale([surface EXCEPT !.preferred = p], outputs)
  /\ UNCHANGED <<globals, mine>>

Registry ==
  \/ \E m \in Manager : BindManager(m)
  \/ \E o \in Outputs : OutputAppears(o) \/ OutputRemoved(o)
  \/ \E o \in Outputs, f \in Factors : OutputScale(o, f)
  \/ \E o \in Outputs : EnterOutput(o) \/ LeaveOutput(o)
  \/ \E p \in Preferences : PreferredScale(p)

-----------------------------------------------------------------------------
(* The prompt.                                                             *)

(* enter_mode of a prompt.  Whether scales may be fractional is settled by *)
(* the managers there are now.                                             *)
EnterMode(asked) ==
  /\ Running /\ mode = "None" /\ exit = Absent /\ prompt < MaxPrompts
  /\ mode' = asked.mode /\ prompt' = prompt + 1 /\ views' = asked.views
  /\ LET size == calculate_size(asked.views, asked.mode)
     IN surface' = [configured |-> FALSE, width |-> size.width, height |-> size.height,
                    scale |-> One, hotspots |-> <<>>, fractional |-> managers = Manager,
                    entered |-> {}, preferred |-> Absent]
  /\ UNCHANGED <<globals, pin, exit, shown>>

Configure ==
  /\ HasSurface
  /\ Render([surface EXCEPT !.configured = TRUE], SquaresShown, exit)
  /\ UNCHANGED <<globals, mine>>

Closed ==
  /\ HasSurface
  /\ exit' = "Error"
  /\ UNCHANGED <<globals, mine, surface, shown>>

(* A key that edits the secret redraws the dialog; a full page takes none. *)
Edit(length) ==
  /\ HasSurface /\ mode = "GetPin"
  /\ pin' = length
  /\ Render(surface, Min({length, Ui.pin_square_amount}), exit)
  /\ UNCHANGED <<globals, mode, prompt, views>>

TypeChar == Edit(Min({pin + 1, Capacity}))
Backspace == Edit(IF pin = 0 THEN 0 ELSE pin - 1)
Reset == Edit(0)

(* Ctrl-U when there is no new page: nothing is drawn.  The old one may be *)
(* gone already.                                                           *)
ResetFails ==
  /\ HasSurface /\ mode = "GetPin"
  /\ pin' \in {0, pin}
  /\ exit' = "Error"
  /\ UNCHANGED <<globals, mode, prompt, views, surface, shown>>

(* abort: the last reason is the one that counts.                          *)
Decide(reason) ==
  /\ HasSurface
  /\ exit' = reason
  /\ UNCHANGED <<globals, mine, surface, shown>>

(* handle_event returns what dispatching left behind.  After a decision    *)
(* the caller resets the secret and enters mode None, which destroys the   *)
(* surface; after an error it gives the frontend up.                       *)
TakeExit ==
  /\ Running /\ exit # Absent
  /\ exit' = Absent
  /\ IF exit = "Error"
       THEN fate' = "failed" /\ UNCHANGED <<mode, surface, pin, shown>>
       ELSE mode' = "None" /\ surface' = Absent /\ pin' = 0 /\ shown' = Absent /\ UNCHANGED fate
  /\ UNCHANGED <<managers, outputs, prompt, views>>

Prompting ==
  \/ \E asked \in Prompts : EnterMode(asked)
  \/ Configure \/ Closed \/ TypeChar \/ Backspace \/ Reset \/ ResetFails
  \/ Decide("UserOk") \/ Decide("UserAbort")

-----------------------------------------------------------------------------
(* What the surface promises.                                              *)

(* The surface is drawn at the scale its outputs and preferences ask for   *)
(* now, whatever came, went or changed its mind before or after it was     *)
(* configured (recompute_scale runs at every one of these events).         *)
ScaleIsEffective ==
  HasSurface =>
    surface.scale = compute_effective_scale(surface.fractional, surface.preferred,
                                            {outputs[o] : o \in surface.entered \cap DOMAIN outputs})

(* As long as nothing has ended the prompt, a configured surface shows its *)
(* present scale and as many squares as there are characters: no event     *)
(* that changes either forgets to redraw.                                  *)
FrameIsCurrent ==
  HasSurface /\ surface.configured /\ exit = Absent =>
    /\ shown # Absent
    /\ <<shown.width, shown.height>> = physical_size(surface)
    /\ shown.destination # Absent <=> surface.scale.mode = "Fractional"
    /\ shown.squares = SquaresShown

(* Every commit is one the compositor accepts and shows in the size the    *)
(* dialog was laid out in: the buffer is a multiple of the buffer scale,   *)
(* and what the compositor makes of buffer, scale and destination is the   *)
(* logical size, also after the surface went from one kind of scale to the *)
(* other.                                                                  *)
CommitsKeepTheSize ==
  shown # Absent =>
    LET Logical(extent, side) ==
          IF shown.destination = Absent THEN extent \div shown.buffer_scale ELSE shown.destination[side]
    IN /\ shown.width % shown.buffer_scale = 0 /\ shown.height % shown.buffer_scale = 0
       /\ Logical(shown.width, "width") = surface.width
       /\ Logical(shown.height, "height") = surface.height

(* The buttons are inside the dialog, apart from each other, and each is   *)
(* recorded once, though the list outlives every later render and was made *)
(* by another walk over the labels than the size.                          *)
ButtonsApart ==
  HasSurface =>
    LET spots == surface.hotspots
    IN /\ \A i \in DOMAIN spots :
            /\ spots[i].x + spots[i].width <= surface.width
            /\ spots[i].y + spots[i].height <= surface.height
       /\ \A i, j \in DOMAIN spots :
            i < j => spots[i].x + spots[i].width < spots[j].x
       /\ shown # Absent => {spots[i].effect : i \in DOMAIN spots}
                              = {b \in Button : views[b] # Absent}
=============================================================================
