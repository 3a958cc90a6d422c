------------------------------ MODULE Pointing ------------------------------
(***************************************************************************)
(* A seat's pointer and touch screen (src/frontend/wayland/input.rs) above *)
(* the dialog of module Surface: a button of the dialog acts when the      *)
(* mouse button or the finger that went down on it comes up again (not     *)
(* when it goes down, as the specification of the project has it).         *)
(*                                                                         *)
(* The frontend keeps press_hotspot and touchpoints in the seat, which     *)
(* outlives the prompts, and ends no gesture with the surface; what the    *)
(* hand really did is kept beside it, in button and fingers.  One pointer, *)
(* one mouse button that counts; the cursor's shape is left out.           *)
(***************************************************************************)
EXTENDS Surface, SequencesExt

CONSTANTS
  Fingers,       \* touch ids
  Points,        \* places in the dialog
  EndsTouches    \* the compositor ends every touch, also on a surface that is destroyed

ASSUME PointingAssumption == Points \subseteq [x : Nat, y : Nat] /\ EndsTouches \in BOOLEAN

VARIABLES
  press_hotspot,
  touchpoints,
  button,         \* the press that is not released: its prompt and hotspot
  fingers         \* per finger that is down: the hotspot, and whether it stayed there

seat == <<press_hotspot, touchpoints>>
hand == <<button, fingers>>
vars == <<surfaceVars, press_hotspot, touchpoints, button, fingers>>

Press == [prompt : 1 .. MaxPrompts, on : HotSpotRecord \cup {Absent}]

TypeOK ==
  /\ SurfaceTypeOK
  /\ press_hotspot \in HotSpotRecord \cup {Absent}
  /\ touchpoints \in Seq([id : Fingers, hotspot : HotSpotRecord])
  /\ button \in Press \cup {Absent}
  /\ \A f \in DOMAIN fingers : f \in Fingers /\ fingers[f].stayed \in BOOLEAN

Init ==
  /\ SurfaceInit
  /\ press_hotspot = Absent /\ touchpoints = <<>>
  /\ button = Absent /\ fingers = <<>>

(* The compositor shows a surface, and gives it input, once it has a frame.*)
Visible == HasSurface /\ shown # Absent

Under(p) == hotspot_from_point(surface.hotspots, p)

EffectReason ==
  [cancel |-> "UserAbort", not_ok |-> "UserNotOk", ok |-> "UserOk"]

-----------------------------------------------------------------------------
(* The pointer.                                                            *)

(* A press or a release at p, where the enter or motion before it put the  *)
(* pointer: a compositor sends no button to a surface it did not enter.    *)
ButtonPressed(p) ==
  /\ Visible /\ button = Absent
  /\ press_hotspot' = Under(p)
  /\ button' = [prompt |-> prompt, on |-> Under(p)]
  /\ UNCHANGED <<surfaceVars, touchpoints, fingers>>

(* A bug: the release counts wherever the press was.                       *)
Clicked_WhereReleased(p) == press_hotspot # Absent /\ Under(p) # Absent

Clicked(p) == press_hotspot # Absent /\ Under(p) = press_hotspot

ButtonReleased(p) ==
  /\ Visible /\ button # Absent
  /\ exit' = IF Clicked(p) THEN EffectReason[Under(p).effect] ELSE exit
  /\ press_hotspot' = Absent
  /\ button' = Absent
  /\ UNCHANGED <<globals, mine, surface, shown, touchpoints, fingers>>

(* Nobody hears of a release when the surface of the press is gone: the    *)
(* compositor has no one to tell, or the frontend ignores it.              *)
ReleasedUnheard ==
  /\ Running /\ button # Absent /\ (~Visible \/ button.prompt # prompt)
  /\ button' = Absent
  /\ UNCHANGED <<surfaceVars, seat, fingers>>

(* Without the pointer capability the press is forgotten.                  *)
PointerUnplugged ==
  /\ Running
  /\ press_hotspot' = Absent
  /\ button' = Absent
  /\ UNCHANGED <<surfaceVars, touchpoints, fingers>>

-----------------------------------------------------------------------------
(* Touch.                                                                  *)

Lifted(f) == [g \in DOMAIN fingers \ {f} |-> fingers[g]]

(* Where touchpoint_from_id finds a finger, 0 for nowhere.                 *)
TouchpointOf(f) ==
  SelectInSeq(touchpoints, LAMBDA tp : tp.id = f)

TouchDown(f, p) ==
  /\ Visible /\ f \notin DOMAIN fingers
  /\ touchpoints' = IF Under(p) = Absent THEN touchpoints
                    ELSE Append(touchpoints, [id |-> f, hotspot |-> Under(p)])
  /\ fingers' = [g \in DOMAIN fingers \cup {f} |->
                   IF g = f THEN [on |-> Under(p), stayed |-> TRUE] ELSE fingers[g]]
  /\ UNCHANGED <<surfaceVars, press_hotspot, button>>

TouchMotion(f, p) ==
  LET i == TouchpointOf(f)
  IN /\ Running /\ f \in DOMAIN fingers
     /\ touchpoints' = IF i = 0 \/ contains_point(touchpoints[i].hotspot, p) THEN touchpoints
                       ELSE RemoveAt(touchpoints, i)
     /\ fingers' = [fingers EXCEPT ![f].stayed =
                      @ /\ fingers[f].on # Absent /\ contains_point(fingers[f].on, p)]
     /\ UNCHANGED <<surfaceVars, press_hotspot, button>>

TouchUp(f) ==
  LET i == TouchpointOf(f)
  IN /\ Running /\ f \in DOMAIN fingers
     /\ IF i = 0 THEN UNCHANGED <<exit, touchpoints>>
        ELSE /\ exit' = EffectReason[touchpoints[i].hotspot.effect]
             /\ touchpoints' = RemoveAt(touchpoints, i)
     /\ fingers' = Lifted(f)
     /\ UNCHANGED <<globals, mine, surface, shown, press_hotspot, button>>

(* The compositor takes the touch stream for itself, or the screen goes.   *)
TouchCancel ==
  /\ Running /\ DOMAIN fingers # {}
  /\ touchpoints' = <<>>
  /\ fingers' = <<>>
  /\ UNCHANGED <<surfaceVars, press_hotspot, button>>

-----------------------------------------------------------------------------
(* The surface goes, and the seat keeps what it has.  A compositor that    *)
(* does not end the touches says nothing more of them, and its ids are     *)
(* free.                                                                   *)
PromptEnds ==
  /\ TakeExit
  /\ fingers' = IF EndsTouches THEN fingers ELSE <<>>
  /\ UNCHANGED <<seat, button>>

Pointer ==
  \/ \E p \in Points : ButtonPressed(p) \/ ButtonReleased(p)
  \/ ReleasedUnheard \/ PointerUnplugged
Touch ==
  \/ \E f \in Fingers, p \in Points : TouchDown(f, p) \/ TouchMotion(f, p)
  \/ \E f \in Fingers : TouchUp(f)
  \/ TouchCancel

Next ==
  \/ (Registry \/ Prompting) /\ UNCHANGED <<seat, hand>>
  \/ PromptEnds
  \/ Pointer
  \/ Touch

Spec == Init /\ [][Next]_vars

-----------------------------------------------------------------------------

ActsAs(on, stayed) ==
  exit' = IF on # Absent /\ stayed THEN EffectReason[on.effect] ELSE exit

TouchUpActs ==
  \A f \in DOMAIN fingers \ DOMAIN fingers' :
    TouchUp(f) => ActsAs(fingers[f].on, fingers[f].stayed)

ReleaseActs ==
  button # Absent /\ button' = Absent =>
    \A p \in Points : ButtonReleased(p) => ActsAs(button.on, Under(p) = button.on)

(* A finger or a mouse button that comes up acts as the button it went     *)
(* down on, if it is still there, and not at all otherwise, although the   *)
(* seat keeps press_hotspot and touchpoints from prompt to prompt and some *)
(* releases are never heard of.  What went down at an earlier prompt is    *)
(* not forgotten: a finger that comes up later still acts, and so does the *)
(* mouse over a button of the same effect and place.                       *)
GesturesActWhereTheyBegan == [][TouchUpActs /\ ReleaseActs]_vars

(* The same of fingers alone: a touch on one button is never taken for a   *)
(* touch on another (wl_touch Down and Up).                                *)
TouchActsWhereItBegan == [][TouchUpActs]_vars
=============================================================================
