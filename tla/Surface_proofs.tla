---------------------------- MODULE Surface_proofs ----------------------------
(***************************************************************************)
(* Theorems about the dialog's surface and what points at it, in four      *)
(* parts: the checked arithmetic of physical_dim and the effective scale   *)
(* (ScaleInv); the layout and its record of the buttons; the dialog and    *)
(* the frame the compositor has of it (DialogInv), with the types of the   *)
(* seat (PointingInv); and the gestures (GestureInv).                      *)
(***************************************************************************)
EXTENDS Pointing, NatInduction, FiniteSetTheorems, TLAPS

(* The physical extent covers the logical one and is less than a pixel     *)
(* larger than it need be; it is never zero and it is always a u32         *)
(* (Scale::physical_dim).                                                  *)
THEOREM PhysicalCovers ==
  ASSUME NEW scale \in Scales, NEW logical \in Nat,
         physical_dim(scale, logical) # Overflow
  PROVE  LET extent == physical_dim(scale, logical)
         IN /\ extent \in 1 .. MaxWord
            /\ extent * denominator(scale) >= logical * scale.numerator
            /\ (extent - 1) * denominator(scale) < logical * scale.numerator
<1> DEFINE product == logical * scale.numerator
           d == denominator(scale)
           rounded == product + d - 1
           extent == rounded \div d
<1>1. product \in Nat /\ d \in {1, 120}
  BY WordAssumption DEF Scales, Word, denominator, FractionalDenominator
<1>2. physical_dim(scale, logical) = IF rounded > MaxWord \/ extent = 0 THEN Overflow ELSE extent
  BY DEF physical_dim
<1> HIDE DEF product, d
<1>3. rounded <= MaxWord /\ extent # 0 /\ physical_dim(scale, logical) = extent
  BY <1>1, <1>2, WordAssumption
<1>4. CASE d = 1
  <2>1. extent = product
    BY <1>1, <1>4
  <2> QED
    BY <2>1, <1>1, <1>3, <1>4, WordAssumption DEF product, d
<1>5. CASE d = 120
  <2>1. extent \in Nat /\ extent * 120 <= rounded /\ rounded < extent * 120 + 120
    BY <1>1, <1>5
  <2>2. extent <= MaxWord
    BY <2>1, <1>1, <1>3, <1>5, WordAssumption
  <2>3. extent * 120 >= product /\ (extent - 1) * 120 < product
    BY <2>1, <1>1, <1>5
  <2> QED
    BY <2>1, <2>2, <2>3, <1>3, <1>5 DEF product, d
<1> QED
  BY <1>1, <1>4, <1>5
-----------------------------------------------------------------------------
Fields == {"configured", "width", "height", "scale", "hotspots", "fractional", "entered", "preferred"}

ScaleOf(s, scales) ==
  compute_effective_scale(s.fractional, s.preferred, {scales[o] : o \in s.entered \cap DOMAIN scales})

(* ScaleIsEffective and what it needs to be inductive: an output that is   *)
(* entered is one that is tracked, so that a new one changes nothing.      *)
ScaleInv ==
  surface # Absent =>
    /\ DOMAIN surface = Fields
    /\ surface.entered \subseteq DOMAIN outputs
    /\ surface.scale = ScaleOf(surface, outputs)

SameChoice(s, t) ==
  s.fractional = t.fractional /\ s.preferred = t.preferred /\ s.entered = t.entered

(* A render records hotspots, and leaves the rest of the surface alone.    *)
LEMMA RenderKeepsScale ==
  ASSUME NEW s, DOMAIN s = Fields, NEW squares, NEW otherwise, Render(s, squares, otherwise)
  PROVE  DOMAIN surface' = Fields /\ surface'.scale = s.scale /\ SameChoice(surface', s)
BY DEF Render, Fields, SameChoice

LEMMA RescaleChooses ==
  ASSUME NEW s, DOMAIN s = Fields, NEW scales, s.entered \subseteq DOMAIN scales,
         Rescale(s, scales), outputs' = scales
  PROVE  ScaleInv'
<1> DEFINE now == ScaleOf(s, scales)
           t == [s EXCEPT !.scale = now]
<1>1. CASE now = s.scale /\ surface' = s
  BY <1>1 DEF ScaleInv, ScaleOf
<1>2. CASE Render(t, SquaresShown, exit)
  <2>1. DOMAIN t = Fields /\ t.scale = now /\ SameChoice(t, s)
    BY DEF Fields, SameChoice
  <2> HIDE DEF t
  <2>2. DOMAIN surface' = Fields /\ surface'.scale = now /\ SameChoice(surface', s)
    BY <1>2, <2>1, RenderKeepsScale DEF SameChoice
  <2> QED
    BY <2>2 DEF ScaleInv, ScaleOf, SameChoice
<1> QED
  BY <1>1, <1>2 DEF Rescale, ScaleOf

(* What changes neither the surface nor the outputs.                       *)
LEMMA ScaleUntouched ==
  ASSUME ScaleInv, UNCHANGED <<surface, outputs>>
  PROVE  ScaleInv'
BY DEF ScaleInv, ScaleOf

LEMMA ScaleAfterRender ==
  ASSUME ScaleInv, surface # Absent, UNCHANGED outputs,
         NEW s, DOMAIN s = Fields, s.scale = surface.scale, SameChoice(s, surface),
         NEW squares, NEW otherwise, Render(s, squares, otherwise)
  PROVE  ScaleInv'
<1>1. DOMAIN surface' = Fields /\ surface'.scale = s.scale /\ SameChoice(surface', s)
  BY RenderKeepsScale
<1> QED
  BY <1>1 DEF ScaleInv, ScaleOf, SameChoice

LEMMA OutputAppearsKeeps ==
  ASSUME ScaleInv, NEW o \in Outputs, OutputAppears(o)
  PROVE  ScaleInv'
<1>1. surface' = surface /\ DOMAIN outputs \subseteq DOMAIN outputs'
      /\ \A p \in DOMAIN outputs : outputs'[p] = outputs[p]
  BY DEF OutputAppears
<1>2. CASE surface # Absent
  <2>1. surface.entered \cap DOMAIN outputs' = surface.entered
        /\ surface.entered \cap DOMAIN outputs = surface.entered
    BY <1>1, <1>2 DEF ScaleInv
  <2>2. {outputs'[p] : p \in surface.entered} = {outputs[p] : p \in surface.entered}
    BY <1>1, <1>2 DEF ScaleInv
  <2> QED
    BY <1>1, <1>2, <2>1, <2>2 DEF ScaleInv, ScaleOf
<1> QED
  BY <1>1, <1>2 DEF ScaleInv

LEMMA OutputRemovedKeeps ==
  ASSUME ScaleInv, NEW o \in Outputs, OutputRemoved(o)
  PROVE  ScaleInv'
<1>1. CASE surface = Absent
  BY <1>1 DEF OutputRemoved, ScaleInv
<1>2. CASE surface # Absent
  <2> DEFINE s == [surface EXCEPT !.entered = @ \ {o}]
  <2>1. DOMAIN s = Fields /\ s.entered = surface.entered \ {o}
    BY <1>2 DEF ScaleInv, Fields
  <2>2. outputs' = Without(o) /\ DOMAIN Without(o) = DOMAIN outputs \ {o} /\ Rescale(s, outputs')
    BY <1>2 DEF OutputRemoved, Without
  <2>3. s.entered \subseteq DOMAIN outputs'
    BY <1>2, <2>1, <2>2 DEF ScaleInv
  <2> HIDE DEF s
  <2> QED
    BY <2>1, <2>2, <2>3, RescaleChooses
<1> QED
  BY <1>1, <1>2

LEMMA OutputScaleKeeps ==
  ASSUME ScaleInv, NEW o \in Outputs, NEW factor \in Factors, OutputScale(o, factor)
  PROVE  ScaleInv'
<1>1. CASE surface = Absent
  BY <1>1 DEF OutputScale, ScaleInv
<1>2. CASE surface # Absent
  <2>1. DOMAIN outputs' = DOMAIN outputs /\ Rescale(surface, outputs')
    BY <1>2 DEF OutputScale
  <2> QED
    BY <1>2, <2>1, RescaleChooses DEF ScaleInv
<1> QED
  BY <1>1, <1>2

(* Entering and leaving an output, and another preference.                 *)
LEMMA ChoiceKeeps ==
  ASSUME ScaleInv,
         \/ \E o \in Outputs : EnterOutput(o) \/ LeaveOutput(o)
         \/ \E p \in Preferences : PreferredScale(p)
  PROVE  ScaleInv'
<1>1. ASSUME NEW o \in Outputs, EnterOutput(o) PROVE ScaleInv'
  <2> DEFINE s == [surface EXCEPT !.entered = @ \cup {o}]
  <2>1. DOMAIN s = Fields /\ s.entered \subseteq DOMAIN outputs
    BY <1>1 DEF EnterOutput, HasSurface, ScaleInv, Fields
  <2>2. Rescale(s, outputs) /\ outputs' = outputs
    BY <1>1 DEF EnterOutput, globals
  <2> HIDE DEF s
  <2> QED
    BY <2>1, <2>2, RescaleChooses
<1>2. ASSUME NEW o \in Outputs, LeaveOutput(o) PROVE ScaleInv'
  <2> DEFINE s == [surface EXCEPT !.entered = @ \ {o}]
  <2>1. DOMAIN s = Fields /\ s.entered \subseteq DOMAIN outputs
    BY <1>2 DEF LeaveOutput, HasSurface, ScaleInv, Fields
  <2>2. Rescale(s, outputs) /\ outputs' = outputs
    BY <1>2 DEF LeaveOutput, globals
  <2> HIDE DEF s
  <2> QED
    BY <2>1, <2>2, RescaleChooses
<1>3. ASSUME NEW p \in Preferences, PreferredScale(p) PROVE ScaleInv'
  <2> DEFINE s == [surface EXCEPT !.preferred = p]
  <2>1. DOMAIN s = Fields /\ s.entered \subseteq DOMAIN outputs
    BY <1>3 DEF PreferredScale, HasSurface, ScaleInv, Fields
  <2>2. Rescale(s, outputs) /\ outputs' = outputs
    BY <1>3 DEF PreferredScale, globals
  <2> HIDE DEF s
  <2> QED
    BY <2>1, <2>2, RescaleChooses
<1> QED
  BY <1>1, <1>2, <1>3

LEMMA EnterModeKeeps ==
  ASSUME NEW asked \in Prompts, EnterMode(asked)
  PROVE  ScaleInv'
BY DEF EnterMode, ScaleInv, ScaleOf, Fields, compute_effective_scale, IntegerScale, One

LEMMA ConfigureKeeps ==
  ASSUME ScaleInv, Configure
  PROVE  ScaleInv'
<1> DEFINE s == [surface EXCEPT !.configured = TRUE]
<1>1. /\ DOMAIN s = Fields /\ s.scale = surface.scale /\ SameChoice(s, surface)
      /\ surface # Absent
  BY DEF Configure, HasSurface, ScaleInv, Fields, SameChoice
<1>2. Render(s, SquaresShown, exit) /\ UNCHANGED outputs
  BY DEF Configure, globals
<1> HIDE DEF s
<1> QED
  BY <1>1, <1>2, ScaleAfterRender

LEMMA EditKeeps ==
  ASSUME ScaleInv, NEW length, Edit(length)
  PROVE  ScaleInv'
<1>1. surface # Absent /\ DOMAIN surface = Fields /\ UNCHANGED outputs
  BY DEF Edit, HasSurface, ScaleInv, globals
<1>2. Render(surface, Min({length, Ui.pin_square_amount}), exit)
  BY DEF Edit
<1> QED
  BY <1>1, <1>2, ScaleAfterRender DEF SameChoice

LEMMA PromptingKeeps ==
  ASSUME ScaleInv, Prompting
  PROVE  ScaleInv'
<1>1. CASE TypeChar \/ Backspace \/ Reset
  BY <1>1, EditKeeps DEF TypeChar, Backspace, Reset
<1>2. CASE Closed \/ ResetFails \/ Decide("UserOk") \/ Decide("UserAbort")
  BY <1>2, ScaleUntouched DEF Closed, ResetFails, Decide, globals
<1> QED
  BY <1>1, <1>2, EnterModeKeeps, ConfigureKeeps DEF Prompting

LEMMA RegistryKeeps ==
  ASSUME ScaleInv, Registry
  PROVE  ScaleInv'
<1>1. ASSUME NEW m \in Manager, BindManager(m) PROVE ScaleInv'
  BY <1>1, ScaleUntouched DEF BindManager
<1> QED
  BY <1>1, OutputAppearsKeeps, OutputRemovedKeeps, OutputScaleKeeps, ChoiceKeeps DEF Registry

LEMMA PromptEndsKeeps ==
  ASSUME ScaleInv, PromptEnds
  PROVE  ScaleInv'
<1>1. outputs' = outputs /\ (surface' = surface \/ surface' = Absent)
  BY DEF PromptEnds, TakeExit
<1> QED
  BY <1>1 DEF ScaleInv, ScaleOf

LEMMA PointingKeeps ==
  ASSUME ScaleInv, Pointer \/ Touch
  PROVE  ScaleInv'
<1>1. CASE Pointer
  BY <1>1, ScaleUntouched
  DEF Pointer, ButtonPressed, ButtonReleased, ReleasedUnheard, PointerUnplugged, surfaceVars,
      globals
<1>2. CASE Touch
  BY <1>2, ScaleUntouched
  DEF Touch, TouchDown, TouchMotion, TouchUp, TouchCancel, surfaceVars, globals
<1> QED
  BY <1>1, <1>2

LEMMA ScaleStep == ScaleInv /\ [Next]_vars => ScaleInv'
<1> SUFFICES ASSUME ScaleInv, [Next]_vars PROVE ScaleInv'
  OBVIOUS
<1>1. CASE UNCHANGED vars
  BY <1>1, ScaleUntouched DEF vars, surfaceVars, globals
<1> QED
  BY <1>1, PromptingKeeps, RegistryKeeps, PromptEndsKeeps, PointingKeeps DEF Next

(* The dialog is always drawn at the scale its outputs and the compositor  *)
(* ask for now (recompute_scale at every event that may change it).        *)
THEOREM ScaleIsAlwaysEffective == Spec => []ScaleIsEffective
<1>1. Init => ScaleInv
  BY DEF Init, SurfaceInit, ScaleInv
<1>2. ScaleInv => ScaleIsEffective
  BY DEF ScaleInv, ScaleIsEffective, HasSurface, ScaleOf
<1> QED
  BY <1>1, <1>2, ScaleStep, PTL DEF Spec

-----------------------------------------------------------------------------
(* Maxima and minima of the numbers a layout compares.                     *)

LEMMA MaxIsGreatest ==
  ASSUME NEW S \in SUBSET Nat, S # {}, NEW bound \in Nat, \A x \in S : x <= bound
  PROVE  Max(S) \in S /\ \A x \in S : x <= Max(S)
<1>1. \E m \in S : \A x \in S : x <= m
  BY GreatestMember
<1>2. \E m \in S : \A x \in S : m >= x
  BY <1>1
<1>3. Max(S) \in S /\ \A x \in S : Max(S) >= x
  BY <1>2 DEF Max
<1> QED  BY <1>3

LEMMA MinOfTwo ==
  ASSUME NEW a \in Nat, NEW b \in Nat
  PROVE  Min({a, b}) = IF a <= b THEN a ELSE b
<1>1. CASE a <= b
  BY <1>1 DEF Min
<1>2. CASE ~(a <= b)
  BY <1>2 DEF Min
<1> QED  BY <1>1, <1>2

(* The scale of a surface is one the checked arithmetic is made for, and a *)
(* fraction only when there is a viewport to map it with.                  *)
LEMMA EffectiveScaleTypes ==
  ASSUME NEW fractional \in BOOLEAN, NEW preferred \in Preferences \cup {Absent},
         NEW entered \in SUBSET Word
  PROVE  LET scale == compute_effective_scale(fractional, preferred, entered)
         IN scale \in Scales /\ (scale.mode = "Fractional" => fractional)
<1> USE WordAssumption
<1> DEFINE positive == {s \in entered : s > 0}
           largest == IF positive = {} THEN 1 ELSE Max(positive)
<1>1. largest \in Word
  <2>1. CASE positive # {}
    <3>1. positive \in SUBSET Nat /\ \A x \in positive : x <= MaxWord /\ x \in Word
      <4>1. \A x \in positive : x \in Word
        OBVIOUS
      <4>2. \A x \in Word : x \in Nat /\ x <= MaxWord
        BY DEF Word
      <4> HIDE DEF positive
      <4> QED  BY <4>1, <4>2
    <3> HIDE DEF positive
    <3>2. Max(positive) \in positive
      BY <2>1, <3>1, MaxIsGreatest
    <3> QED  BY <2>1, <3>1, <3>2
  <2> QED  BY <2>1 DEF Word
<1> HIDE DEF largest
<1>2. IntegerScale(largest) \in Scales /\ IntegerScale(largest).mode = "Integer"
  BY <1>1 DEF IntegerScale, Scales, ScaleMode
<1>3. CASE fractional /\ preferred # Absent
  BY <1>3, OutputsAssumption DEF compute_effective_scale, FractionalScale, Scales, ScaleMode
<1>4. CASE ~(fractional /\ preferred # Absent)
  BY <1>2, <1>4 DEF compute_effective_scale, largest
<1> QED  BY <1>3, <1>4

-----------------------------------------------------------------------------
(* The layout: what the size leaves room for.                              *)

Label == [width : Nat, height : Nat] \cup {Absent}

LEMMA UiTypes ==
  /\ vp \in Nat /\ hp \in Nat /\ bip \in Nat
  /\ PinAreaHeight \in Nat /\ PinAreaWidth \in Nat
<1>1. /\ vp \in Nat /\ hp \in Nat /\ bip \in Nat
      /\ Ui.pin_square_size \in Nat /\ Ui.pin_square_amount \in Nat
  BY UiAssumption DEF UiField, vp, hp, bip
<1>2. SquarePadding \in Nat
  BY <1>1 DEF SquarePadding
<1>3. Ui.pin_square_amount * (Ui.pin_square_size + SquarePadding) \in Nat
  BY <1>1, <1>2
<1> QED  BY <1>1, <1>2, <1>3 DEF PinAreaHeight, PinAreaWidth

LEMMA LabelTypes ==
  ASSUME NEW view \in Label
  PROVE  /\ Row(view) \in Nat /\ Wide(view) \in Nat /\ Step(view) \in Nat
         /\ view # Absent =>
              /\ ButtonWidth(view) \in Nat /\ ButtonHeight(view) \in Nat
              /\ Step(view) = ButtonWidth(view) + hp
BY UiTypes DEF Label, Row, Wide, Step, ButtonWidth, ButtonHeight

LEMMA RowTypes ==
  ASSUME NEW v \in Views, NEW m \in InterfaceMode
  PROVE  /\ \A e \in Element : v[e] \in Label
         /\ TextRows(v) \in Nat /\ PinRows(v, m) \in Nat /\ ButtonsY(v, m) \in Nat
         /\ CombinedButtonLength(v) \in Nat
<1>1. \A e \in Element : v[e] \in Label
  BY DEF Views, Label
<1> QED  BY <1>1, LabelTypes, UiTypes
         DEF Element, Button, TextRows, PinRows, ButtonsY, CombinedButtonLength

(* The dialog is as wide as its buttons side by side, and as high as the   *)
(* place of the highest of them asks for.                                  *)
LEMMA SizeHasRoom ==
  ASSUME NEW v \in Views, NEW m \in InterfaceMode
  PROVE  LET size == calculate_size(v, m)
         IN /\ size \in [width : Nat, height : Nat]
            /\ size.width >= CombinedButtonLength(v) + hp
            /\ \A b \in Button : v[b] # Absent =>
                 size.height >= ButtonsY(v, m) + ButtonHeight(v[b])
<1> USE UiTypes
<1>1. /\ \A e \in Element : v[e] \in Label
      /\ TextRows(v) \in Nat /\ PinRows(v, m) \in Nat /\ CombinedButtonLength(v) \in Nat
  BY RowTypes
<1> DEFINE W == {hp, Wide(v["title"]), Wide(v["description"]), Wide(v["error"]),
                 CombinedButtonLength(v) + hp} \cup PinWide(v, m)
           H == {0} \cup {ButtonHeight(v[b]) : b \in {b \in Button : v[b] # Absent}}
<1>2. Max(W) \in Nat /\ Max(W) >= CombinedButtonLength(v) + hp
  <2> DEFINE w == Wide(v["title"]) + Wide(v["description"]) + Wide(v["error"]) + Wide(v["prompt"])
                    + CombinedButtonLength(v) + hp + PinAreaWidth + 2 * hp
  <2>1. /\ Wide(v["title"]) \in Nat /\ Wide(v["description"]) \in Nat
        /\ Wide(v["error"]) \in Nat /\ Wide(v["prompt"]) \in Nat
    BY <1>1, LabelTypes DEF Element
  <2>2. W \in SUBSET Nat /\ w \in Nat /\ \A x \in W : x <= w
    BY <1>1, <2>1 DEF PinWide
  <2>3. W # {} /\ CombinedButtonLength(v) + hp \in W
    OBVIOUS
  <2> HIDE DEF W, w
  <2>4. Max(W) \in W /\ CombinedButtonLength(v) + hp <= Max(W)
    BY <2>2, <2>3, MaxIsGreatest
  <2> QED  BY <1>1, <2>2, <2>4
<1>3. MaxButtonHeight(v) \in Nat
      /\ \A b \in Button : v[b] # Absent =>
           ButtonHeight(v[b]) \in Nat /\ ButtonHeight(v[b]) <= MaxButtonHeight(v)
  <2> DEFINE Height(b) == IF v[b] = Absent THEN 0 ELSE ButtonHeight(v[b])
             h == Height("ok") + Height("not_ok") + Height("cancel")
  <2>1. \A b \in Button : Height(b) \in Nat
    BY <1>1, LabelTypes DEF Element
  <2>2. H \in SUBSET Nat /\ h \in Nat /\ \A x \in H : x <= h
    <3>1. \A x \in H : x = 0 \/ \E b \in Button : x = Height(b)
      OBVIOUS
    <3> HIDE DEF H, Height
    <3> QED  BY <2>1, <3>1 DEF Button
  <2>3. H # {} /\ \A b \in Button : v[b] # Absent => ButtonHeight(v[b]) \in H
    OBVIOUS
  <2>4. MaxButtonHeight(v) = Max(H)
    BY DEF MaxButtonHeight
  <2> HIDE DEF H, h, Height
  <2>5. Max(H) \in H /\ \A x \in H : x <= Max(H)
    BY <2>2, <2>3, MaxIsGreatest
  <2> QED  BY <2>2, <2>3, <2>4, <2>5
<1>4. \A b \in Button : v[b] # Absent => ButtonHeight(v[b]) \in Nat
  BY <1>3
<1> DEFINE size == calculate_size(v, m)
<1>5. /\ size.width = Max(W)
      /\ size.height = vp + PinRows(v, m) + TextRows(v)
                        + (IF MaxButtonHeight(v) > 0 THEN MaxButtonHeight(v) + vp ELSE 0)
      /\ size = [width |-> size.width, height |-> size.height]
  BY DEF calculate_size
<1> HIDE DEF W, H, size
<1>6. size \in [width : Nat, height : Nat]
  BY <1>1, <1>2, <1>3, <1>5
<1>7. ASSUME NEW b \in Button, v[b] # Absent
      PROVE  size.height >= ButtonsY(v, m) + ButtonHeight(v[b])
  BY <1>1, <1>3, <1>5, <1>7 DEF ButtonsY
<1> QED  BY <1>2, <1>5, <1>6, <1>7 DEF size

(* What the record of the buttons holds: a hotspot for every button there  *)
(* is, in the order of drawing.                                            *)
Rank == [cancel |-> 1, not_ok |-> 2, ok |-> 3]

(* A record of hotspots that holds the buttons of B there are.             *)
Records(spots, B, v, m, width) ==
  /\ spots \in Seq(HotSpotRecord)
  /\ \A i \in DOMAIN spots :
       /\ spots[i].effect \in B /\ v[spots[i].effect] # Absent
       /\ spots[i] = HotSpot(v, m, width, spots[i].effect)
  /\ \A i, j \in DOMAIN spots : i < j => Rank[spots[i].effect] < Rank[spots[j].effect]
  /\ \A b \in B : v[b] # Absent => \E i \in DOMAIN spots : spots[i].effect = b

LEMMA HotSpotTypes ==
  ASSUME NEW v \in Views, NEW m \in InterfaceMode, NEW width \in Nat,
         NEW b \in Button, v[b] # Absent
  PROVE  HotSpot(v, m, width, b) \in HotSpotRecord
<1>1. /\ v[b] \in Label /\ v["cancel"] \in Label /\ v["not_ok"] \in Label
      /\ ButtonsY(v, m) \in Nat /\ CombinedButtonLength(v) \in Nat
  BY RowTypes DEF Element, Button
<1>2. /\ ButtonWidth(v[b]) \in Nat /\ ButtonHeight(v[b]) \in Nat
      /\ Step(v["cancel"]) \in Nat /\ Step(v["not_ok"]) \in Nat
  BY <1>1, LabelTypes
<1>3. ButtonsX(v, width) \in Nat
  BY <1>1, UiTypes DEF ButtonsX
<1>4. ButtonX(v, width, b) \in Nat
  BY <1>2, <1>3 DEF ButtonX
<1> QED  BY <1>1, <1>2, <1>4 DEF HotSpot, HotSpotRecord

LEMMA OneIsRecorded ==
  ASSUME NEW v \in Views, NEW m \in InterfaceMode, NEW width \in Nat, NEW b \in Button
  PROVE  Records(IF v[b] = Absent THEN <<>> ELSE <<HotSpot(v, m, width, b)>>, {b}, v, m, width)
<1>1. CASE v[b] = Absent
  BY <1>1 DEF Records
<1>2. CASE v[b] # Absent
  <2> DEFINE spot == HotSpot(v, m, width, b)
  <2>1. spot \in HotSpotRecord /\ spot.effect = b
    BY <1>2, HotSpotTypes DEF HotSpot
  <2> HIDE DEF spot
  <2>2. /\ <<spot>> \in Seq(HotSpotRecord) /\ DOMAIN <<spot>> = {1} /\ <<spot>>[1] = spot
    BY <2>1
  <2>3. Records(<<spot>>, {b}, v, m, width)
    BY <1>2, <2>1, <2>2 DEF Records, spot
  <2> QED  BY <1>2, <2>3 DEF spot
<1> QED  BY <1>1, <1>2

LEMMA MoreAreRecorded ==
  ASSUME NEW v, NEW m, NEW width, NEW B \in SUBSET Button, NEW C \in SUBSET Button,
         \A b \in B, c \in C : Rank[b] < Rank[c],
         NEW s, NEW t, Records(s, B, v, m, width), Records(t, C, v, m, width)
  PROVE  Records(s \o t, B \cup C, v, m, width)
<1> DEFINE u == s \o t
<1>1. /\ s \in Seq(HotSpotRecord) /\ t \in Seq(HotSpotRecord)
      /\ DOMAIN s = 1 .. Len(s) /\ DOMAIN t = 1 .. Len(t) /\ Len(s) \in Nat /\ Len(t) \in Nat
  BY DEF Records
<1>2. /\ u \in Seq(HotSpotRecord) /\ DOMAIN u = 1 .. Len(s) + Len(t)
      /\ \A i \in DOMAIN s : i \in DOMAIN u /\ u[i] = s[i]
      /\ \A i \in DOMAIN t : i + Len(s) \in DOMAIN u /\ u[i + Len(s)] = t[i]
      /\ \A i \in DOMAIN u : \/ i \in DOMAIN s /\ u[i] = s[i]
                             \/ i > Len(s) /\ i - Len(s) \in DOMAIN t /\ u[i] = t[i - Len(s)]
  BY <1>1
<1> HIDE DEF u
<1>3. ASSUME NEW i \in DOMAIN u
      PROVE  /\ u[i].effect \in B \cup C /\ v[u[i].effect] # Absent
             /\ u[i] = HotSpot(v, m, width, u[i].effect)
  BY <1>2 DEF Records
<1>4. ASSUME NEW i \in DOMAIN u, NEW j \in DOMAIN u, i < j
      PROVE  Rank[u[i].effect] < Rank[u[j].effect]
  <2>1. i \in Nat /\ j \in Nat
    BY <1>1, <1>2
  <2>2. CASE i \in DOMAIN s /\ u[i] = s[i] /\ j \in DOMAIN s /\ u[j] = s[j]
    BY <1>4, <2>2 DEF Records
  <2>3. CASE i \in DOMAIN s /\ u[i] = s[i] /\ j - Len(s) \in DOMAIN t /\ u[j] = t[j - Len(s)]
    BY <2>3 DEF Records
  <2>4. CASE /\ i > Len(s) /\ i - Len(s) \in DOMAIN t /\ u[i] = t[i - Len(s)]
             /\ j - Len(s) \in DOMAIN t /\ u[j] = t[j - Len(s)]
    <3>1. i - Len(s) < j - Len(s)
      BY <1>1, <1>4, <2>1
    <3> QED  BY <2>4, <3>1 DEF Records
  <2>5. CASE i > Len(s) /\ j \in DOMAIN s
    BY <1>1, <1>4, <2>1, <2>5
  <2> QED  BY <1>2, <2>2, <2>3, <2>4, <2>5
<1>5. ASSUME NEW b \in B \cup C, v[b] # Absent PROVE \E i \in DOMAIN u : u[i].effect = b
  <2>1. CASE b \in B
    <3>1. PICK i \in DOMAIN s : s[i].effect = b
      BY <1>5, <2>1 DEF Records
    <3> QED  BY <1>2, <3>1
  <2>2. CASE b \in C
    <3>1. PICK i \in DOMAIN t : t[i].effect = b
      BY <1>5, <2>2 DEF Records
    <3> QED  BY <1>2, <3>1
  <2> QED  BY <2>1, <2>2
<1> QED  BY <1>2, <1>3, <1>4, <1>5 DEF Records, u

LEMMA HotspotsRecordButtons ==
  ASSUME NEW v \in Views, NEW m \in InterfaceMode, NEW width \in Nat
  PROVE  Records(Hotspots(v, m, width), Button, v, m, width)
<1> DEFINE Drawn(b) == IF v[b] = Absent THEN <<>> ELSE <<HotSpot(v, m, width, b)>>
<1>1. /\ Records(Drawn("cancel"), {"cancel"}, v, m, width)
      /\ Records(Drawn("not_ok"), {"not_ok"}, v, m, width)
      /\ Records(Drawn("ok"), {"ok"}, v, m, width)
  BY OneIsRecorded DEF Button
<1>2. Hotspots(v, m, width) = Drawn("cancel") \o Drawn("not_ok") \o Drawn("ok")
  BY DEF Hotspots
<1> HIDE DEF Drawn
<1>3. Records(Drawn("cancel") \o Drawn("not_ok"), {"cancel"} \cup {"not_ok"}, v, m, width)
  BY <1>1, MoreAreRecorded DEF Button, Rank
<1>4. Records(Drawn("cancel") \o Drawn("not_ok") \o Drawn("ok"),
              ({"cancel"} \cup {"not_ok"}) \cup {"ok"}, v, m, width)
  <2>1. \A b \in {"cancel"} \cup {"not_ok"}, c \in {"ok"} : Rank[b] < Rank[c]
    BY DEF Rank
  <2> QED  BY <1>1, <1>3, <2>1, MoreAreRecorded DEF Button
<1>5. ({"cancel"} \cup {"not_ok"}) \cup {"ok"} = Button
  BY DEF Button
<1> QED  BY <1>2, <1>4, <1>5

(* In a dialog that is as wide as its buttons and the gaps around them, no *)
(* button reaches beyond the edge, and the next one starts where this one  *)
(* ended and the gap is over.                                              *)
LEMMA ButtonsHaveRoom ==
  ASSUME NEW v \in Views, NEW m \in InterfaceMode, NEW width \in Nat,
         width >= CombinedButtonLength(v) + hp, NEW b \in Button, v[b] # Absent
  PROVE  /\ ButtonX(v, width, b) + ButtonWidth(v[b]) <= width
         /\ \A c \in Button : Rank[b] < Rank[c] =>
              ButtonX(v, width, b) + ButtonWidth(v[b]) + hp <= ButtonX(v, width, c)
<1> USE UiTypes
<1>1. /\ v["cancel"] \in Label /\ v["not_ok"] \in Label /\ v["ok"] \in Label
  BY RowTypes DEF Element, Button
<1>2. /\ Step(v["cancel"]) \in Nat /\ Step(v["not_ok"]) \in Nat /\ Step(v["ok"]) \in Nat
      /\ ButtonWidth(v[b]) \in Nat /\ Step(v[b]) = ButtonWidth(v[b]) + hp
  BY <1>1, LabelTypes DEF Button
<1> DEFINE C == CombinedButtonLength(v)
<1>3. C = Step(v["ok"]) + Step(v["not_ok"]) + Step(v["cancel"]) /\ C \in Nat
  BY <1>2 DEF CombinedButtonLength
<1>4. ButtonsX(v, width) \in Nat /\ ButtonsX(v, width) + C <= width + hp
  BY <1>2, <1>3 DEF ButtonsX
<1>5. CASE b = "cancel"
  BY <1>2, <1>3, <1>4, <1>5 DEF ButtonX, Button, Rank
<1>6. CASE b = "not_ok"
  BY <1>2, <1>3, <1>4, <1>6 DEF ButtonX, Button, Rank
<1>7. CASE b = "ok"
  BY <1>2, <1>3, <1>4, <1>7 DEF ButtonX, Button, Rank
<1> QED  BY <1>5, <1>6, <1>7 DEF Button

(* Dialog: what holds of a surface s with its labels v in mode m, and of   *)
(* the frame f the compositor has of it.                                   *)
KeepsSize(s, f) ==
  /\ f.buffer_scale > 0
  /\ f.width % f.buffer_scale = 0 /\ f.height % f.buffer_scale = 0
  /\ IF f.destination = Absent
       THEN f.width \div f.buffer_scale = s.width /\ f.height \div f.buffer_scale = s.height
       ELSE f.destination.width = s.width /\ f.destination.height = s.height

Sound(s, f, v, m) ==
  /\ s \in SurfaceRecord
  /\ s.width = calculate_size(v, m).width /\ s.height = calculate_size(v, m).height
  /\ s.hotspots \in {<<>>, Hotspots(v, m, s.width)}
  /\ s.scale.mode = "Fractional" => s.fractional
  /\ f \in FrameRecord \cup {Absent}
  /\ f # Absent =>
       /\ s.hotspots = Hotspots(v, m, s.width)
       /\ ~s.fractional => f.destination = Absent
       /\ KeepsSize(s, f)

(* The frame is that of the surface as it is, with so many squares.        *)
Current(s, f, squares) ==
  s.configured =>
    /\ f # Absent
    /\ <<f.width, f.height>> = physical_size(s)
    /\ f.destination # Absent <=> s.scale.mode = "Fractional"
    /\ f.squares = squares

LEMMA WholeMultiple ==
  ASSUME NEW w \in Nat, NEW n \in Nat, n > 0
  PROVE  (w * n) % n = 0 /\ (w * n) \div n = w
OBVIOUS

LEMMA IntegerExtent ==
  ASSUME NEW scale \in Scales, scale.mode = "Integer", NEW logical \in Nat,
         physical_dim(scale, logical) # Overflow
  PROVE  /\ physical_dim(scale, logical) = logical * scale.numerator
         /\ scale.numerator \in Nat /\ scale.numerator > 0
<1> DEFINE n == scale.numerator
           rounded == logical * n + 1 - 1
<1>1. n \in Nat
  BY WordAssumption DEF Scales, Word
<1>2. logical * n \in Nat
  BY <1>1
<1>3. rounded = logical * n /\ rounded \div 1 = logical * n
  BY <1>2
<1>4. physical_dim(scale, logical) =
        IF rounded > MaxWord \/ rounded \div 1 = 0 THEN Overflow ELSE rounded \div 1
  BY DEF physical_dim, denominator
<1>5. physical_dim(scale, logical) = logical * n /\ logical * n # 0
  BY <1>3, <1>4
<1>6. n # 0
  BY <1>1, <1>5
<1> QED  BY <1>1, <1>5, <1>6

(* Drawing a sound surface leaves a sound surface; without an error it is  *)
(* drawn as it is now.                                                     *)
LEMMA CommitIsSound ==
  ASSUME NEW s, NEW v, NEW m, Sound(s, shown, v, m), NEW squares \in 0 .. Capacity,
         Overflow \notin {physical_size(s)[1], physical_size(s)[2]}
  PROVE  LET f == Commit(s, physical_size(s), squares)
         IN /\ f \in FrameRecord
            /\ ~s.fractional => f.destination = Absent
            /\ f.destination # Absent <=> s.scale.mode = "Fractional"
            /\ KeepsSize(s, f)
            /\ <<f.width, f.height>> = physical_size(s)
            /\ f.squares = squares
<1> DEFINE f == Commit(s, physical_size(s), squares)
           w == physical_dim(s.scale, s.width)
           h == physical_dim(s.scale, s.height)
<1>1. /\ s.width \in Nat /\ s.height \in Nat /\ s.scale \in Scales /\ s.fractional \in BOOLEAN
      /\ s.scale.mode = "Fractional" => s.fractional
      /\ s.scale.mode \in {"Integer", "Fractional"} /\ s.scale.numerator \in Word
  BY DEF Sound, SurfaceRecord, Scales, ScaleMode
<1>2. physical_size(s) = <<w, h>>
  BY DEF physical_size
<1> HIDE DEF w, h
<1>3. w # Overflow /\ h # Overflow /\ physical_size(s)[1] = w /\ physical_size(s)[2] = h
  BY <1>2
<1>4. w \in Word /\ h \in Word
  BY <1>1, <1>3, PhysicalCovers, WordAssumption DEF Word, w, h
<1>5. Before.destination \in [width : Nat, height : Nat] \cup {Absent}
      /\ (~s.fractional => Before.destination = Absent)
  BY DEF Sound, Before, Unset, FrameRecord
<1>6. /\ f.width = w /\ f.height = h /\ f.squares = squares
      /\ f.buffer_scale = IF s.scale.mode = "Integer" THEN s.scale.numerator ELSE 1
      /\ f.destination = IF s.scale.mode = "Fractional" /\ s.fractional
                           THEN [width |-> s.width, height |-> s.height]
                         ELSE IF s.fractional THEN Absent ELSE Before.destination
      /\ f = [width |-> f.width, height |-> f.height, squares |-> f.squares,
              buffer_scale |-> f.buffer_scale, destination |-> f.destination]
  BY <1>3 DEF Commit
<1> HIDE DEF f
<1>7. [width |-> s.width, height |-> s.height] \in [width : Nat, height : Nat]
      /\ [width |-> s.width, height |-> s.height] # Absent
  BY <1>1, AbsentAssumption
<1>8. f \in FrameRecord
  <2>1. f.buffer_scale \in Word /\ f.destination \in [width : Nat, height : Nat] \cup {Absent}
    BY <1>1, <1>5, <1>6, <1>7, WordAssumption DEF Word
  <2> QED  BY <2>1, <1>4, <1>6 DEF FrameRecord
<1>9. (~s.fractional => f.destination = Absent) /\ (f.destination # Absent <=> s.scale.mode = "Fractional")
  BY <1>1, <1>5, <1>6, <1>7
<1>10. KeepsSize(s, f)
  <2>1. CASE s.scale.mode = "Integer"
    <3>1. w = s.width * s.scale.numerator /\ h = s.height * s.scale.numerator
          /\ s.scale.numerator \in Nat /\ s.scale.numerator > 0
      BY <1>1, <1>3, <2>1, IntegerExtent DEF w, h
    <3>2. f.destination = Absent /\ f.buffer_scale = s.scale.numerator
      BY <1>6, <1>9, <2>1
    <3>3. /\ w % s.scale.numerator = 0 /\ w \div s.scale.numerator = s.width
          /\ h % s.scale.numerator = 0 /\ h \div s.scale.numerator = s.height
      BY <1>1, <3>1, WholeMultiple
    <3> QED  BY <1>6, <3>1, <3>2, <3>3 DEF KeepsSize
  <2>2. CASE s.scale.mode = "Fractional"
    <3>1. f.destination = [width |-> s.width, height |-> s.height] /\ f.buffer_scale = 1
          /\ f.destination # Absent
      BY <1>1, <1>6, <1>7, <2>2
    <3>2. w % 1 = 0 /\ h % 1 = 0
      BY <1>4, WordAssumption DEF Word
    <3> QED  BY <1>6, <3>1, <3>2 DEF KeepsSize
  <2> QED  BY <1>1, <2>1, <2>2
<1> QED  BY <1>2, <1>6, <1>8, <1>9, <1>10 DEF f

LEMMA RenderIsSound ==
  ASSUME NEW s, Sound(s, shown, views, mode), views \in Views, mode \in InterfaceMode,
         NEW squares \in 0 .. Capacity, NEW otherwise \in ExitReason \cup {Absent},
         Render(s, squares, otherwise)
  PROVE  /\ surface' # Absent /\ Sound(surface', shown', views, mode)
         /\ exit' \in ExitReason \cup {Absent}
         /\ exit' = Absent => Current(surface', shown', squares)
<1>1. s \in SurfaceRecord /\ s.width \in Nat /\ "Error" \in ExitReason /\ "Error" # Absent
  BY AbsentAssumption DEF Sound, SurfaceRecord, ExitReason
<1>2. CASE ~s.configured
  <2>1. surface' = s /\ exit' = otherwise /\ shown' = shown
    BY <1>2 DEF Render
  <2> QED  BY <1>1, <1>2, <2>1, AbsentAssumption DEF Current
<1>3. CASE s.configured /\ Overflow \in {physical_size(s)[1], physical_size(s)[2]}
  <2>1. surface' = s /\ exit' = "Error" /\ shown' = shown
    BY <1>3 DEF Render
  <2> QED  BY <1>1, <2>1, AbsentAssumption
<1>4. CASE s.configured /\ Overflow \notin {physical_size(s)[1], physical_size(s)[2]}
  <2> DEFINE t == [s EXCEPT !.hotspots = IF @ = <<>> THEN Hotspots(views, mode, s.width) ELSE @]
             f == Commit(s, physical_size(s), squares)
  <2>1. surface' = t /\ shown' = f /\ exit' = otherwise
    BY <1>4 DEF Render
  <2>2. /\ f \in FrameRecord /\ (~s.fractional => f.destination = Absent)
        /\ f.destination # Absent <=> s.scale.mode = "Fractional"
        /\ KeepsSize(s, f) /\ <<f.width, f.height>> = physical_size(s) /\ f.squares = squares
    BY <1>4, CommitIsSound
  <2>3. Hotspots(views, mode, s.width) \in Seq(HotSpotRecord)
    BY <1>1, HotspotsRecordButtons DEF Records
  <2>4. /\ t \in SurfaceRecord /\ t.hotspots = Hotspots(views, mode, s.width)
        /\ t.width = s.width /\ t.height = s.height /\ t.scale = s.scale
        /\ t.fractional = s.fractional /\ t.configured = s.configured
    BY <1>1, <2>3 DEF Sound, SurfaceRecord
  <2> HIDE DEF t, f
  <2>5. KeepsSize(t, f) /\ physical_size(t) = physical_size(s)
    BY <2>2, <2>4 DEF KeepsSize, physical_size
  <2>6. Sound(t, f, views, mode)
    BY <1>1, <2>2, <2>4, <2>5 DEF Sound
  <2>7. Current(t, f, squares)
    BY <2>2, <2>4, <2>5, AbsentAssumption DEF Current
  <2> QED  BY <2>1, <2>4, <2>6, <2>7, AbsentAssumption
<1> QED  BY <1>2, <1>3, <1>4

DialogInv ==
  /\ SurfaceTypeOK
  /\ surface # Absent => prompt > 0 /\ Sound(surface, shown, views, mode)
  /\ HasSurface /\ exit = Absent => Current(surface, shown, SquaresShown)

LEMMA SquaresTypes ==
  ASSUME NEW length \in 0 .. Capacity
  PROVE  Min({length, Ui.pin_square_amount}) \in 0 .. Capacity
<1>1. Ui.pin_square_amount \in Nat /\ Capacity \in Nat
  BY UiAssumption, BoundsAssumption DEF UiField
<1> QED  BY <1>1, MinOfTwo

LEMMA SquaresShownTypes ==
  ASSUME pin \in 0 .. Capacity
  PROVE  SquaresShown \in 0 .. Capacity
BY SquaresTypes, BoundsAssumption DEF SquaresShown

(* Another scale, computed from what the outputs and preferences are now.  *)
LEMMA RescaleIsSound ==
  ASSUME NEW s, Sound(s, shown, views, mode), views \in Views, mode \in InterfaceMode,
         pin \in 0 .. Capacity, exit \in ExitReason \cup {Absent},
         NEW scales, \A o \in DOMAIN scales : scales[o] \in Word,
         exit = Absent => Current(s, shown, SquaresShown),
         Rescale(s, scales)
  PROVE  /\ surface' # Absent /\ Sound(surface', shown', views, mode)
         /\ exit' \in ExitReason \cup {Absent}
         /\ exit' = Absent => Current(surface', shown', SquaresShown)
<1> DEFINE now == ScaleOf(s, scales)
           t == [s EXCEPT !.scale = now]
<1>1. s \in SurfaceRecord /\ s.fractional \in BOOLEAN /\ s.preferred \in Preferences \cup {Absent}
  BY DEF Sound, SurfaceRecord
<1>2. CASE now = s.scale /\ surface' = s /\ UNCHANGED <<exit, shown>>
  BY <1>1, <1>2, AbsentAssumption
<1>3. CASE Render(t, SquaresShown, exit)
  <2>1. {scales[o] : o \in s.entered \cap DOMAIN scales} \in SUBSET Word
    OBVIOUS
  <2>2. now \in Scales /\ (now.mode = "Fractional" => s.fractional)
    BY <1>1, <2>1, EffectiveScaleTypes DEF ScaleOf
  <2> HIDE DEF now
  <2>3. /\ t \in SurfaceRecord /\ t.width = s.width /\ t.height = s.height
        /\ t.hotspots = s.hotspots /\ t.fractional = s.fractional /\ t.scale = now
    BY <1>1, <2>2 DEF SurfaceRecord
  <2> HIDE DEF t
  <2>4. shown # Absent => KeepsSize(t, shown)
    BY <2>3 DEF Sound, KeepsSize
  <2>5. Sound(t, shown, views, mode)
    BY <2>2, <2>3, <2>4 DEF Sound
  <2>6. SquaresShown \in 0 .. Capacity
    BY SquaresShownTypes
  <2> QED  BY <1>3, <2>5, <2>6, RenderIsSound
<1> QED  BY <1>2, <1>3 DEF Rescale, ScaleOf

OutputsTyped(scales) ==
  DOMAIN scales \subseteq Outputs /\ \A o \in DOMAIN scales : scales[o] \in Word

(* Whatever redraws the dialog of the prompt there is.                     *)
LEMMA DialogRedrawn ==
  ASSUME DialogInv, surface # Absent, surface' # Absent, UNCHANGED <<fate, managers, mine>>,
         OutputsTyped(outputs'), Sound(surface', shown', views, mode),
         exit' \in ExitReason \cup {Absent},
         exit' = Absent => Current(surface', shown', SquaresShown)
  PROVE  DialogInv'
<1>1. mode' = mode /\ prompt' = prompt /\ views' = views /\ pin' = pin /\ SquaresShown' = SquaresShown
  BY DEF mine, SquaresShown
<1>2. SurfaceTypeOK'
  BY <1>1 DEF DialogInv, SurfaceTypeOK, OutputsTyped, Sound
<1> QED  BY <1>1, <1>2 DEF DialogInv

(* What leaves the dialog and its frame alone, and may end the prompt.     *)
LEMMA DialogUntouched ==
  ASSUME DialogInv, UNCHANGED <<fate, mine, surface, shown>>, managers' \subseteq Manager,
         OutputsTyped(outputs'), exit' = exit \/ exit' \in ExitReason
  PROVE  DialogInv'
<1>1. mode' = mode /\ prompt' = prompt /\ views' = views /\ pin' = pin /\ SquaresShown' = SquaresShown
  BY DEF mine, SquaresShown
<1>2. SurfaceTypeOK' /\ (exit' = Absent => exit = Absent)
  BY <1>1, AbsentAssumption DEF DialogInv, SurfaceTypeOK, OutputsTyped
<1> QED  BY <1>1, <1>2 DEF DialogInv, HasSurface, Running

(* Whatever computes the scale anew.                                       *)
LEMMA DialogRescaled ==
  ASSUME DialogInv, HasSurface, NEW s, UNCHANGED <<fate, managers, mine>>,
         s \in SurfaceRecord, s.configured = surface.configured, s.width = surface.width,
         s.height = surface.height, s.scale = surface.scale, s.hotspots = surface.hotspots,
         s.fractional = surface.fractional,
         OutputsTyped(outputs'), Rescale(s, outputs')
  PROVE  DialogInv'
<1>1. /\ Sound(surface, shown, views, mode) /\ SurfaceTypeOK /\ surface # Absent
      /\ exit = Absent => Current(surface, shown, SquaresShown)
  BY DEF DialogInv, HasSurface
<1>2. Sound(s, shown, views, mode) /\ (exit = Absent => Current(s, shown, SquaresShown))
  BY <1>1 DEF Sound, Current, KeepsSize, physical_size
<1>3. /\ surface' # Absent /\ Sound(surface', shown', views, mode)
      /\ exit' \in ExitReason \cup {Absent}
      /\ exit' = Absent => Current(surface', shown', SquaresShown)
  BY <1>1, <1>2, RescaleIsSound DEF SurfaceTypeOK, OutputsTyped
<1> QED  BY <1>1, <1>3, DialogRedrawn

LEMMA ReportedTypes ==
  ASSUME NEW factor \in Factors
  PROVE  Reported(factor) \in Word
BY OutputsAssumption, WordAssumption DEF Reported, Word

LEMMA RegistryKeepsDialog ==
  ASSUME DialogInv, Registry
  PROVE  DialogInv'
<1>1. SurfaceTypeOK /\ OutputsTyped(outputs) /\ (surface # Absent => surface \in SurfaceRecord)
  BY DEF DialogInv, SurfaceTypeOK, OutputsTyped
<1>2. ASSUME NEW m \in Manager, BindManager(m) PROVE DialogInv'
  BY <1>1, <1>2, DialogUntouched DEF BindManager, SurfaceTypeOK
<1>3. ASSUME NEW o \in Outputs, OutputAppears(o) PROVE DialogInv'
  <2>1. OutputsTyped(outputs')
    BY <1>1, <1>3, WordAssumption DEF OutputAppears, OutputsTyped, Word
  <2> QED  BY <1>1, <1>3, <2>1, DialogUntouched DEF OutputAppears, SurfaceTypeOK
<1>4. ASSUME NEW o \in Outputs, OutputRemoved(o) PROVE DialogInv'
  <2>1. OutputsTyped(outputs')
    BY <1>1, <1>4 DEF OutputRemoved, OutputsTyped, Without
  <2>2. CASE surface = Absent
    BY <1>1, <1>4, <2>1, <2>2, DialogUntouched DEF OutputRemoved, SurfaceTypeOK
  <2>3. CASE surface # Absent
    <3> DEFINE s == [surface EXCEPT !.entered = @ \ {o}]
    <3>1. /\ s \in SurfaceRecord /\ s.configured = surface.configured /\ s.width = surface.width
          /\ s.height = surface.height /\ s.scale = surface.scale /\ s.hotspots = surface.hotspots
          /\ s.fractional = surface.fractional
      BY <1>1, <2>3 DEF SurfaceRecord
    <3>2. HasSurface /\ Rescale(s, outputs') /\ UNCHANGED <<fate, managers, mine>>
      BY <1>4, <2>3 DEF OutputRemoved, HasSurface
    <3> HIDE DEF s
    <3> QED  BY <2>1, <3>1, <3>2, DialogRescaled
  <2> QED  BY <2>2, <2>3
<1>5. ASSUME NEW o \in Outputs, NEW factor \in Factors, OutputScale(o, factor) PROVE DialogInv'
  <2>1. OutputsTyped(outputs')
    BY <1>1, <1>5, ReportedTypes DEF OutputScale, OutputsTyped
  <2>2. CASE surface = Absent
    BY <1>1, <1>5, <2>1, <2>2, DialogUntouched DEF OutputScale, SurfaceTypeOK
  <2>3. CASE surface # Absent
    <3>1. HasSurface /\ Rescale(surface, outputs') /\ UNCHANGED <<fate, managers, mine>>
      BY <1>5, <2>3 DEF OutputScale, HasSurface
    <3> QED  BY <1>1, <2>1, <2>3, <3>1, DialogRescaled
  <2> QED  BY <2>2, <2>3
<1>6. ASSUME NEW o \in Outputs, EnterOutput(o) PROVE DialogInv'
  <2> DEFINE s == [surface EXCEPT !.entered = @ \cup {o}]
  <2>1. /\ HasSurface /\ surface # Absent /\ Rescale(s, outputs')
        /\ UNCHANGED <<fate, managers, outputs, mine>>
    BY <1>6 DEF EnterOutput, HasSurface, globals
  <2>2. /\ s \in SurfaceRecord /\ s.configured = surface.configured /\ s.width = surface.width
        /\ s.height = surface.height /\ s.scale = surface.scale /\ s.hotspots = surface.hotspots
        /\ s.fractional = surface.fractional
    BY <1>1, <2>1 DEF SurfaceRecord
  <2> HIDE DEF s
  <2> QED  BY <1>1, <2>1, <2>2, DialogRescaled
<1>7. ASSUME NEW o \in Outputs, LeaveOutput(o) PROVE DialogInv'
  <2> DEFINE s == [surface EXCEPT !.entered = @ \ {o}]
  <2>1. /\ HasSurface /\ surface # Absent /\ Rescale(s, outputs')
        /\ UNCHANGED <<fate, managers, outputs, mine>>
    BY <1>7 DEF LeaveOutput, HasSurface, globals
  <2>2. /\ s \in SurfaceRecord /\ s.configured = surface.configured /\ s.width = surface.width
        /\ s.height = surface.height /\ s.scale = surface.scale /\ s.hotspots = surface.hotspots
        /\ s.fractional = surface.fractional
    BY <1>1, <2>1 DEF SurfaceRecord
  <2> HIDE DEF s
  <2> QED  BY <1>1, <2>1, <2>2, DialogRescaled
<1>8. ASSUME NEW p \in Preferences, PreferredScale(p) PROVE DialogInv'
  <2> DEFINE s == [surface EXCEPT !.preferred = p]
  <2>1. /\ HasSurface /\ surface # Absent /\ Rescale(s, outputs')
        /\ UNCHANGED <<fate, managers, outputs, mine>>
    BY <1>8 DEF PreferredScale, HasSurface, globals
  <2>2. /\ s \in SurfaceRecord /\ s.configured = surface.configured /\ s.width = surface.width
        /\ s.height = surface.height /\ s.scale = surface.scale /\ s.hotspots = surface.hotspots
        /\ s.fractional = surface.fractional
    BY <1>1, <2>1 DEF SurfaceRecord
  <2> HIDE DEF s
  <2> QED  BY <1>1, <2>1, <2>2, DialogRescaled
<1> QED  BY <1>2, <1>3, <1>4, <1>5, <1>6, <1>7, <1>8 DEF Registry

LEMMA EnterModeKeepsDialog ==
  ASSUME DialogInv, NEW asked \in Prompts, EnterMode(asked)
  PROVE  DialogInv'
<1> DEFINE size == calculate_size(asked.views, asked.mode)
<1>1. /\ asked.mode \in {"GetPin", "Message"} /\ asked.views \in Views
      /\ asked.mode \in InterfaceMode /\ asked.mode # "None"
  BY PromptsAssumption DEF InterfaceMode
<1>2. size \in [width : Nat, height : Nat]
  BY <1>1, SizeHasRoom
<1>3. /\ SurfaceTypeOK /\ shown = Absent /\ prompt \in Nat /\ MaxPrompts \in Nat
  BY BoundsAssumption DEF DialogInv, SurfaceTypeOK, EnterMode
<1>4. /\ mode' = asked.mode /\ views' = asked.views /\ prompt' = prompt + 1 /\ prompt < MaxPrompts
      /\ shown' = shown /\ exit' = exit /\ pin' = pin /\ fate' = fate
      /\ managers' = managers /\ outputs' = outputs
      /\ surface' = [configured |-> FALSE, width |-> size.width, height |-> size.height,
                     scale |-> One, hotspots |-> <<>>, fractional |-> managers = Manager,
                     entered |-> {}, preferred |-> Absent]
  BY DEF EnterMode, globals
<1>5. One \in Scales /\ One.mode = "Integer"
  BY WordAssumption DEF One, IntegerScale, Scales, ScaleMode, Word
<1> HIDE DEF size
<1>6. surface' \in SurfaceRecord
  BY <1>2, <1>4, <1>5 DEF SurfaceRecord
<1>7. Sound(surface', shown', views', mode')
  BY <1>3, <1>4, <1>5, <1>6 DEF Sound, size
<1>8. SurfaceTypeOK' /\ prompt' > 0
  <2>1. surface' # Absent
    BY <1>6, AbsentAssumption
  <2> QED  BY <1>1, <1>3, <1>4, <1>6, <2>1 DEF SurfaceTypeOK
<1>9. ~surface'.configured
  BY <1>4
<1> QED  BY <1>7, <1>8, <1>9 DEF DialogInv, Current

LEMMA EditKeepsDialog ==
  ASSUME DialogInv, NEW length \in 0 .. Capacity, Edit(length)
  PROVE  DialogInv'
<1> DEFINE squares == Min({length, Ui.pin_square_amount})
<1>1. /\ HasSurface /\ surface # Absent /\ mode = "GetPin" /\ pin' = length
      /\ Render(surface, squares, exit)
      /\ UNCHANGED <<fate, managers, outputs, mode, prompt, views>>
  BY DEF Edit, HasSurface, globals
<1>2. SurfaceTypeOK /\ Sound(surface, shown, views, mode) /\ prompt > 0
  BY <1>1 DEF DialogInv
<1>3. squares \in 0 .. Capacity /\ SquaresShown' = squares
  BY <1>1, SquaresTypes DEF SquaresShown
<1> HIDE DEF squares
<1>4. /\ surface' # Absent /\ Sound(surface', shown', views, mode)
      /\ exit' \in ExitReason \cup {Absent}
      /\ exit' = Absent => Current(surface', shown', squares)
  BY <1>1, <1>2, <1>3, RenderIsSound DEF SurfaceTypeOK
<1>5. SurfaceTypeOK'
  BY <1>1, <1>2, <1>4 DEF SurfaceTypeOK, Sound
<1> QED  BY <1>1, <1>2, <1>3, <1>4, <1>5 DEF DialogInv

LEMMA PromptingKeepsDialog ==
  ASSUME DialogInv, Prompting
  PROVE  DialogInv'
<1>1. SurfaceTypeOK /\ OutputsTyped(outputs) /\ managers \subseteq Manager /\ Capacity \in Nat
      /\ pin \in 0 .. Capacity
  BY BoundsAssumption DEF DialogInv, SurfaceTypeOK, OutputsTyped
<1>2. CASE Configure
  <2> DEFINE s == [surface EXCEPT !.configured = TRUE]
  <2>1. /\ HasSurface /\ surface # Absent /\ Render(s, SquaresShown, exit)
        /\ UNCHANGED <<fate, managers, outputs, mine>>
    BY <1>2 DEF Configure, HasSurface, globals
  <2>2. Sound(surface, shown, views, mode)
    BY <2>1 DEF DialogInv
  <2>3. /\ s \in SurfaceRecord /\ s.width = surface.width /\ s.height = surface.height
        /\ s.scale = surface.scale /\ s.hotspots = surface.hotspots
        /\ s.fractional = surface.fractional
    BY <2>2 DEF Sound, SurfaceRecord
  <2> HIDE DEF s
  <2>4. Sound(s, shown, views, mode)
    BY <2>2, <2>3 DEF Sound, KeepsSize
  <2>5. /\ surface' # Absent /\ Sound(surface', shown', views, mode)
        /\ exit' \in ExitReason \cup {Absent}
        /\ exit' = Absent => Current(surface', shown', SquaresShown)
    BY <1>1, <2>1, <2>4, SquaresShownTypes, RenderIsSound DEF SurfaceTypeOK
  <2> QED  BY <1>1, <2>1, <2>5, DialogRedrawn DEF OutputsTyped
<1>3. CASE TypeChar
  <2>1. Min({pin + 1, Capacity}) \in 0 .. Capacity
    BY <1>1, MinOfTwo
  <2> QED  BY <1>3, <2>1, EditKeepsDialog DEF TypeChar
<1>4. CASE Backspace
  BY <1>1, <1>4, EditKeepsDialog DEF Backspace
<1>5. CASE Reset
  BY <1>1, <1>5, EditKeepsDialog DEF Reset
<1>6. CASE ResetFails
  <2>1. /\ UNCHANGED <<fate, managers, outputs, mode, prompt, views, surface, shown>>
        /\ pin' \in 0 .. Capacity /\ exit' = "Error" /\ exit' \in ExitReason /\ exit' # Absent
    BY <1>1, <1>6, AbsentAssumption DEF ResetFails, globals, ExitReason
  <2>2. SurfaceTypeOK'
    BY <1>1, <2>1 DEF SurfaceTypeOK
  <2> QED  BY <2>1, <2>2 DEF DialogInv
<1>7. CASE Closed \/ Decide("UserOk") \/ Decide("UserAbort")
  <2>1. UNCHANGED <<fate, managers, outputs, mine, surface, shown>> /\ exit' \in ExitReason
    BY <1>7 DEF Closed, Decide, globals, ExitReason
  <2> QED  BY <1>1, <2>1, DialogUntouched DEF OutputsTyped
<1> QED  BY <1>2, <1>3, <1>4, <1>5, <1>6, <1>7, EnterModeKeepsDialog DEF Prompting

LEMMA TakeExitKeepsDialog ==
  ASSUME DialogInv, TakeExit
  PROVE  DialogInv'
<1>1. SurfaceTypeOK /\ exit' = Absent /\ UNCHANGED <<managers, outputs, prompt, views>>
  BY DEF DialogInv, TakeExit
<1>2. CASE exit = "Error"
  <2>1. fate' = "failed" /\ UNCHANGED <<mode, surface, pin, shown>>
    BY <1>2 DEF TakeExit
  <2>2. SurfaceTypeOK'
    BY <1>1, <2>1 DEF SurfaceTypeOK
  <2> QED  BY <1>1, <2>1, <2>2 DEF DialogInv, HasSurface, Running
<1>3. CASE exit # "Error"
  <2>1. mode' = "None" /\ surface' = Absent /\ pin' = 0 /\ shown' = Absent /\ fate' = fate
    BY <1>3 DEF TakeExit
  <2>2. SurfaceTypeOK'
    BY <1>1, <2>1, BoundsAssumption DEF SurfaceTypeOK, InterfaceMode
  <2> QED  BY <2>1, <2>2 DEF DialogInv, HasSurface
<1> QED  BY <1>2, <1>3

-----------------------------------------------------------------------------
(* Lists of buttons and fingers.                                           *)

LEMMA MinIsLeast ==
  ASSUME NEW S \in SUBSET Nat, S # {}
  PROVE  Min(S) \in S /\ \A x \in S : Min(S) <= x
<1>1. \E m \in S : \A x \in S : m <= x
  BY LeastMember
<1> QED  BY <1>1 DEF Min

LEMMA HotspotFound ==
  ASSUME NEW spots \in Seq(HotSpotRecord), NEW p
  PROVE  hotspot_from_point(spots, p) \in HotSpotRecord \cup {Absent}
<1> DEFINE hit == {i \in DOMAIN spots : contains_point(spots[i], p)}
<1>1. hit \in SUBSET Nat /\ hit \subseteq DOMAIN spots
  OBVIOUS
<1>2. hotspot_from_point(spots, p) = IF hit = {} THEN Absent ELSE spots[Min(hit)]
  BY DEF hotspot_from_point
<1> HIDE DEF hit
<1>3. CASE hit # {}
  <2>1. Min(hit) \in DOMAIN spots
    BY <1>1, <1>3, MinIsLeast
  <2> QED  BY <1>2, <1>3, <2>1
<1> QED  BY <1>2, <1>3

Touchpoint == [id : Fingers, hotspot : HotSpotRecord]

(* touchpoint_from_id finds a finger if it is there.                       *)
LEMMA TouchpointFound ==
  ASSUME touchpoints \in Seq(Touchpoint), NEW f
  PROVE  /\ TouchpointOf(f) \in 0 .. Len(touchpoints)
         /\ TouchpointOf(f) # 0 => touchpoints[TouchpointOf(f)].id = f
         /\ TouchpointOf(f) = 0 => \A i \in DOMAIN touchpoints : touchpoints[i].id # f
<1> DEFINE I == {i \in 1 .. Len(touchpoints) : touchpoints[i].id = f}
<1> DEFINE Of(i) == touchpoints[i].id = f
<1>1. /\ I \in SUBSET Nat /\ I \subseteq 1 .. Len(touchpoints)
      /\ \A i \in I : Of(i)
      /\ \A i \in 1 .. Len(touchpoints) : Of(i) => i \in I
  OBVIOUS
<1>0. DOMAIN touchpoints = 1 .. Len(touchpoints) /\ Len(touchpoints) \in Nat
  OBVIOUS
<1>2. TouchpointOf(f) = IF I # {} THEN Min(I) ELSE 0
  BY DEF TouchpointOf, SelectInSeq
<1> HIDE DEF I, Of
<1> DEFINE found == TouchpointOf(f)
<1>3. found = IF I # {} THEN Min(I) ELSE 0
  BY <1>2
<1> HIDE DEF found
<1>4. found # 0 => found \in I
  BY <1>1, <1>3, MinIsLeast
<1>5. found = 0 => I = {}
  <2>1. I # {} => Min(I) \in 1 .. Len(touchpoints)
    BY <1>1, MinIsLeast
  <2> QED  BY <1>1, <1>3, <2>1
<1>6. found \in 0 .. Len(touchpoints)
  <2>1. CASE found # 0
    <3>1. found \in 1 .. Len(touchpoints)
      BY <1>1, <1>4, <2>1
    <3> QED  BY <1>0, <3>1
  <2> QED  BY <1>0, <2>1
<1>7. found # 0 => Of(found)
  BY <1>1, <1>4
<1>8. found = 0 => \A i \in DOMAIN touchpoints : ~Of(i)
  BY <1>0, <1>1, <1>5
<1> QED  BY <1>6, <1>7, <1>8 DEF found, Of

LEMMA OneRemoved ==
  ASSUME NEW T, NEW s \in Seq(T), NEW i \in 1 .. Len(s)
  PROVE  /\ RemoveAt(s, i) \in Seq(T) /\ DOMAIN RemoveAt(s, i) = 1 .. Len(s) - 1
         /\ \A j \in 1 .. Len(s) - 1 : RemoveAt(s, i)[j] = IF j < i THEN s[j] ELSE s[j + 1]
<1> DEFINE before == SubSeq(s, 1, i - 1)
           after == SubSeq(s, i + 1, Len(s))
<1>1. /\ before \in Seq(T) /\ Len(before) = i - 1
      /\ \A j \in 1 .. i - 1 : before[j] = s[j]
  OBVIOUS
<1>2. /\ after \in Seq(T) /\ Len(after) = Len(s) - i
      /\ \A j \in 1 .. Len(s) - i : after[j] = s[i + j]
  OBVIOUS
<1>3. RemoveAt(s, i) = before \o after
  BY DEF RemoveAt
<1> HIDE DEF before, after
<1>4. /\ before \o after \in Seq(T) /\ Len(before \o after) = Len(s) - 1
      /\ DOMAIN (before \o after) = 1 .. Len(s) - 1
  BY <1>1, <1>2
<1>5. ASSUME NEW j \in 1 .. Len(s) - 1
      PROVE  (before \o after)[j] = IF j < i THEN s[j] ELSE s[j + 1]
  <2>1. CASE j < i
    BY <1>1, <1>2, <2>1
  <2>2. CASE ~(j < i)
    <3>1. j - (i - 1) \in 1 .. Len(s) - i /\ i + (j - (i - 1)) = j + 1
      BY <2>2
    <3>2. (before \o after)[j] = after[j - (i - 1)]
      BY <1>1, <1>2, <2>2, <3>1
    <3>3. after[j - (i - 1)] = s[i + (j - (i - 1))]
      BY <1>2, <3>1
    <3> QED  BY <2>2, <3>1, <3>2, <3>3
  <2> QED  BY <2>1, <2>2
<1> DEFINE rest == before \o after
<1>6. RemoveAt(s, i) = rest
  BY <1>3
<1>7. rest \in Seq(T) /\ DOMAIN rest = 1 .. Len(s) - 1
      /\ \A j \in 1 .. Len(s) - 1 : rest[j] = IF j < i THEN s[j] ELSE s[j + 1]
  BY <1>4, <1>5
<1> HIDE DEF rest
<1> QED  BY <1>6, <1>7

-----------------------------------------------------------------------------
Contact == [on : HotSpotRecord \cup {Absent}, stayed : BOOLEAN]

SeatTypeOK ==
  /\ press_hotspot \in HotSpotRecord \cup {Absent}
  /\ touchpoints \in Seq(Touchpoint)
  /\ button \in Press \cup {Absent}
  /\ DOMAIN fingers \subseteq Fingers
  /\ \A f \in DOMAIN fingers : fingers[f] \in Contact

PointingInv == DialogInv /\ SeatTypeOK

LEMMA UnderTypes ==
  ASSUME DialogInv, surface # Absent, NEW p
  PROVE  Under(p) \in HotSpotRecord \cup {Absent} /\ prompt \in 1 .. MaxPrompts
<1>1. surface.hotspots \in Seq(HotSpotRecord)
  BY DEF DialogInv, Sound, SurfaceRecord
<1>2. prompt \in 1 .. MaxPrompts
  BY BoundsAssumption DEF DialogInv, SurfaceTypeOK
<1> QED  BY <1>1, <1>2, HotspotFound DEF Under

LEMMA EffectsAreReasons ==
  ASSUME NEW spot \in HotSpotRecord
  PROVE  EffectReason[spot.effect] \in ExitReason
BY DEF HotSpotRecord, EffectReason, ExitReason, Button

LEMMA PointerTypes ==
  ASSUME PointingInv, Pointer
  PROVE  PointingInv'
<1>1. DialogInv /\ SeatTypeOK /\ OutputsTyped(outputs) /\ managers \subseteq Manager
  BY DEF PointingInv, DialogInv, SurfaceTypeOK, OutputsTyped
<1>2. ASSUME NEW p \in Points, ButtonPressed(p) PROVE PointingInv'
  <2>1. UNCHANGED <<fate, managers, outputs, mine, surface, exit, shown, touchpoints, fingers>>
        /\ surface # Absent /\ press_hotspot' = Under(p)
        /\ button' = [prompt |-> prompt, on |-> Under(p)]
    BY <1>2 DEF ButtonPressed, surfaceVars, globals, Visible, HasSurface
  <2>2. DialogInv'
    BY <1>1, <2>1, DialogUntouched
  <2>3. SeatTypeOK'
    BY <1>1, <2>1, UnderTypes DEF SeatTypeOK, Press
  <2> QED  BY <2>2, <2>3 DEF PointingInv
<1>3. ASSUME NEW p \in Points, ButtonReleased(p) PROVE PointingInv'
  <2>1. UNCHANGED <<fate, managers, outputs, mine, surface, shown, touchpoints, fingers>>
        /\ surface # Absent /\ press_hotspot' = Absent /\ button' = Absent
        /\ exit' = IF Clicked(p) THEN EffectReason[Under(p).effect] ELSE exit
    BY <1>3 DEF ButtonReleased, globals, Visible, HasSurface
  <2>2. exit' = exit \/ exit' \in ExitReason
    BY <1>1, <2>1, UnderTypes, EffectsAreReasons DEF Clicked
  <2>3. DialogInv'
    BY <1>1, <2>1, <2>2, DialogUntouched
  <2> QED  BY <1>1, <2>1, <2>3 DEF SeatTypeOK, PointingInv
<1>4. CASE ReleasedUnheard \/ PointerUnplugged
  <2>1. UNCHANGED <<fate, managers, outputs, mine, surface, exit, shown, touchpoints, fingers>>
        /\ press_hotspot' \in {press_hotspot, Absent} /\ button' = Absent
    BY <1>4 DEF ReleasedUnheard, PointerUnplugged, surfaceVars, globals, seat
  <2>2. DialogInv'
    BY <1>1, <2>1, DialogUntouched
  <2> QED  BY <1>1, <2>1, <2>2 DEF SeatTypeOK, PointingInv
<1> QED  BY <1>2, <1>3, <1>4 DEF Pointer

LEMMA TouchTypes ==
  ASSUME PointingInv, Touch
  PROVE  PointingInv'
<1>1. DialogInv /\ SeatTypeOK /\ OutputsTyped(outputs) /\ managers \subseteq Manager
  BY DEF PointingInv, DialogInv, SurfaceTypeOK, OutputsTyped
<1>2. ASSUME NEW f \in Fingers, NEW p \in Points, TouchDown(f, p) PROVE PointingInv'
  <2>1. /\ UNCHANGED <<fate, managers, outputs, mine, surface, exit, shown, press_hotspot, button>>
        /\ surface # Absent
        /\ touchpoints' = IF Under(p) = Absent THEN touchpoints
                          ELSE Append(touchpoints, [id |-> f, hotspot |-> Under(p)])
        /\ fingers' = [g \in DOMAIN fingers \cup {f} |->
                         IF g = f THEN [on |-> Under(p), stayed |-> TRUE] ELSE fingers[g]]
    BY <1>2 DEF TouchDown, surfaceVars, globals, Visible, HasSurface
  <2>2. DialogInv'
    BY <1>1, <2>1, DialogUntouched
  <2>3. Under(p) \in HotSpotRecord \cup {Absent} /\ prompt \in 1 .. MaxPrompts
    BY <1>1, <2>1, UnderTypes
  <2>4. touchpoints' \in Seq(Touchpoint)
    <3>1. Under(p) # Absent => [id |-> f, hotspot |-> Under(p)] \in Touchpoint
      BY <2>3 DEF Touchpoint
    <3> QED  BY <1>1, <2>1, <3>1 DEF SeatTypeOK
  <2>5. \A g \in DOMAIN fingers' : g \in Fingers /\ fingers'[g] \in Contact
    BY <1>1, <2>1, <2>3 DEF SeatTypeOK, Contact
  <2> QED  BY <1>1, <2>1, <2>2, <2>4, <2>5 DEF PointingInv, SeatTypeOK
<1>3. ASSUME NEW f \in Fingers, NEW p \in Points, TouchMotion(f, p) PROVE PointingInv'
  <2> DEFINE i == TouchpointOf(f)
             stays == fingers[f].stayed /\ fingers[f].on # Absent /\ contains_point(fingers[f].on, p)
  <2>1. /\ UNCHANGED <<fate, managers, outputs, mine, surface, exit, shown, press_hotspot, button>>
        /\ f \in DOMAIN fingers
        /\ touchpoints' = touchpoints \/ (i # 0 /\ touchpoints' = RemoveAt(touchpoints, i))
        /\ fingers' = [fingers EXCEPT ![f].stayed = stays]
    BY <1>3 DEF TouchMotion, surfaceVars, globals
  <2>2. DialogInv'
    BY <1>1, <2>1, DialogUntouched
  <2>3. i \in 0 .. Len(touchpoints) /\ touchpoints \in Seq(Touchpoint)
    BY <1>1, TouchpointFound DEF SeatTypeOK
  <2>4. stays \in BOOLEAN
    OBVIOUS
  <2> HIDE DEF i, stays
  <2>5. touchpoints' \in Seq(Touchpoint)
    BY <2>1, <2>3, OneRemoved
  <2>6. DOMAIN fingers' = DOMAIN fingers /\ \A g \in DOMAIN fingers : fingers'[g] \in Contact
    BY <1>1, <2>1, <2>4 DEF SeatTypeOK, Contact
  <2> QED  BY <1>1, <2>1, <2>2, <2>5, <2>6 DEF PointingInv, SeatTypeOK
<1>4. ASSUME NEW f \in Fingers, TouchUp(f) PROVE PointingInv'
  <2> DEFINE i == TouchpointOf(f)
  <2>1. /\ UNCHANGED <<fate, managers, outputs, mine, surface, shown, press_hotspot, button>>
        /\ fingers' = Lifted(f)
        /\ \/ UNCHANGED <<exit, touchpoints>>
           \/ /\ i # 0 /\ touchpoints' = RemoveAt(touchpoints, i)
              /\ exit' = EffectReason[touchpoints[i].hotspot.effect]
    BY <1>4 DEF TouchUp, globals
  <2>2. i \in 0 .. Len(touchpoints) /\ touchpoints \in Seq(Touchpoint)
    BY <1>1, TouchpointFound DEF SeatTypeOK
  <2> HIDE DEF i
  <2>3. exit' = exit \/ exit' \in ExitReason
    <3>1. CASE i # 0
      <4>1. touchpoints[i] \in Touchpoint
        BY <2>2, <3>1
      <4>2. touchpoints[i].hotspot \in HotSpotRecord
        BY <4>1 DEF Touchpoint
      <4> QED  BY <2>1, <4>2, EffectsAreReasons
    <3> QED  BY <2>1, <3>1
  <2>4. DialogInv'
    BY <1>1, <2>1, <2>3, DialogUntouched
  <2>5. touchpoints' \in Seq(Touchpoint)
    BY <2>1, <2>2, OneRemoved
  <2> QED  BY <1>1, <2>1, <2>4, <2>5 DEF PointingInv, SeatTypeOK, Lifted
<1>5. CASE TouchCancel
  <2>1. UNCHANGED <<fate, managers, outputs, mine, surface, exit, shown, press_hotspot, button>>
        /\ touchpoints' = <<>> /\ fingers' = <<>>
    BY <1>5 DEF TouchCancel, surfaceVars, globals
  <2>2. DialogInv'
    BY <1>1, <2>1, DialogUntouched
  <2> QED  BY <1>1, <2>1, <2>2 DEF PointingInv, SeatTypeOK
<1> QED  BY <1>2, <1>3, <1>4, <1>5 DEF Touch

LEMMA PointingStep == PointingInv /\ [Next]_vars => PointingInv'
<1> SUFFICES ASSUME PointingInv, [Next]_vars PROVE PointingInv'
  OBVIOUS
<1>1. DialogInv /\ SeatTypeOK /\ OutputsTyped(outputs) /\ managers \subseteq Manager
  BY DEF PointingInv, DialogInv, SurfaceTypeOK, OutputsTyped
<1>2. CASE UNCHANGED vars
  <2>1. UNCHANGED <<fate, managers, outputs, mine, surface, exit, shown>>
    BY <1>2 DEF vars, surfaceVars, globals
  <2>2. UNCHANGED <<press_hotspot, touchpoints, button, fingers>>
    BY <1>2 DEF vars
  <2> QED  BY <1>1, <2>1, <2>2, DialogUntouched DEF PointingInv, SeatTypeOK
<1>3. CASE (Registry \/ Prompting) /\ UNCHANGED <<seat, hand>>
  BY <1>1, <1>3, RegistryKeepsDialog, PromptingKeepsDialog DEF PointingInv, SeatTypeOK, seat, hand
<1>4. CASE PromptEnds
  <2>1. TakeExit /\ UNCHANGED <<press_hotspot, touchpoints>>
        /\ fingers' \in {fingers, <<>>} /\ button' = button
    BY <1>4 DEF PromptEnds, seat
  <2>2. SeatTypeOK'
    BY <1>1, <2>1 DEF SeatTypeOK
  <2> QED  BY <1>1, <2>1, <2>2, TakeExitKeepsDialog DEF PointingInv
<1> QED  BY <1>2, <1>3, <1>4, PointerTypes, TouchTypes DEF Next

LEMMA PointingStarts == Init => PointingInv
<1> SUFFICES ASSUME Init PROVE PointingInv
  OBVIOUS
<1>1. SurfaceTypeOK
  BY BoundsAssumption DEF Init, SurfaceInit, SurfaceTypeOK, InterfaceMode, Views
<1> QED  BY <1>1 DEF Init, SurfaceInit, PointingInv, DialogInv, SeatTypeOK, HasSurface

LEMMA PointingInvariant == Spec => []PointingInv
BY PointingStarts, PointingStep, PTL DEF Spec

-----------------------------------------------------------------------------
(* The theorems the invariant carries.                                     *)

LEMMA InvTypes == PointingInv => TypeOK
BY DEF PointingInv, DialogInv, SeatTypeOK, TypeOK, Touchpoint, Contact

(* Every variable of the dialog and its seat keeps its type.               *)
THEOREM DialogTypeCorrect == Spec => []TypeOK
BY PointingInvariant, InvTypes, PTL

LEMMA InvCommits == PointingInv => CommitsKeepTheSize
<1> SUFFICES ASSUME PointingInv, shown # Absent PROVE CommitsKeepTheSize
  BY DEF CommitsKeepTheSize
<1>1. KeepsSize(surface, shown)
  BY DEF PointingInv, DialogInv, SurfaceTypeOK, Sound
<1> QED  BY <1>1 DEF KeepsSize, CommitsKeepTheSize

(* Every committed frame is a multiple of its buffer scale and is shown in *)
(* the size the dialog was laid out in, for every scale the outputs report *)
(* and every fraction the compositor prefers (render, Scale::physical_dim, *)
(* wp_viewport.set_destination).                                           *)
THEOREM EveryCommitKeepsTheSize == Spec => []CommitsKeepTheSize
BY PointingInvariant, InvCommits, PTL

LEMMA InvFrame == PointingInv => FrameIsCurrent
BY DEF PointingInv, DialogInv, Current, FrameIsCurrent

(* As long as the prompt goes on, a configured dialog shows its scale and  *)
(* its secret's length as they are: whatever changes either redraws.       *)
THEOREM TheFrameIsCurrent == Spec => []FrameIsCurrent
BY PointingInvariant, InvFrame, PTL

LEMMA InvButtons ==
  ASSUME hp > 0
  PROVE  PointingInv => ButtonsApart
<1> SUFFICES ASSUME PointingInv, HasSurface PROVE ButtonsApart
  BY DEF ButtonsApart
<1> DEFINE spots == surface.hotspots
           size == calculate_size(views, mode)
<1>1. /\ Sound(surface, shown, views, mode) /\ views \in Views /\ mode \in InterfaceMode
  BY DEF PointingInv, DialogInv, HasSurface, SurfaceTypeOK
<1>2. /\ surface.width = size.width /\ surface.height = size.height
      /\ spots \in {<<>>, Hotspots(views, mode, surface.width)}
      /\ shown # Absent => spots = Hotspots(views, mode, surface.width)
  BY <1>1 DEF Sound
<1>3. /\ surface.width \in Nat /\ surface.height \in Nat
      /\ surface.width >= CombinedButtonLength(views) + hp
      /\ \A b \in Button : views[b] # Absent =>
           surface.height >= ButtonsY(views, mode) + ButtonHeight(views[b])
  BY <1>1, <1>2, SizeHasRoom
<1>4. Records(Hotspots(views, mode, surface.width), Button, views, mode, surface.width)
  BY <1>1, <1>3, HotspotsRecordButtons
<1>5. \A i \in DOMAIN spots : spots = Hotspots(views, mode, surface.width)
  BY <1>2
<1> HIDE DEF spots, size
<1>6. ASSUME NEW i \in DOMAIN spots
      PROVE  LET b == spots[i].effect
             IN /\ b \in Button /\ views[b] # Absent
                /\ spots[i].x = ButtonX(views, surface.width, b)
                /\ spots[i].y = ButtonsY(views, mode)
                /\ spots[i].width = ButtonWidth(views[b])
                /\ spots[i].height = ButtonHeight(views[b])
  <2> DEFINE b == spots[i].effect
  <2>1. b \in Button /\ views[b] # Absent /\ spots[i] = HotSpot(views, mode, surface.width, b)
    BY <1>4, <1>5 DEF Records
  <2> HIDE DEF b
  <2>2. /\ spots[i].x = ButtonX(views, surface.width, b)
        /\ spots[i].y = ButtonsY(views, mode)
        /\ spots[i].width = ButtonWidth(views[b])
        /\ spots[i].height = ButtonHeight(views[b])
    BY <2>1 DEF HotSpot
  <2> QED  BY <2>1, <2>2 DEF b
<1>7. ASSUME NEW i \in DOMAIN spots
      PROVE  /\ spots[i].x + spots[i].width <= surface.width
             /\ spots[i].y + spots[i].height <= surface.height
  BY <1>1, <1>3, <1>6, ButtonsHaveRoom
<1>8. ASSUME NEW i \in DOMAIN spots, NEW j \in DOMAIN spots, i < j
      PROVE  spots[i].x + spots[i].width < spots[j].x
  <2> DEFINE b == spots[i].effect
             c == spots[j].effect
             reach == ButtonX(views, surface.width, b) + ButtonWidth(views[b])
             next == ButtonX(views, surface.width, c)
  <2>1. b \in Button /\ views[b] # Absent /\ c \in Button /\ Rank[b] < Rank[c]
        /\ spots[i].x + spots[i].width = reach /\ spots[j].x = next
    BY <1>4, <1>5, <1>6, <1>8 DEF Records
  <2>2. reach + hp <= next
    BY <1>1, <1>3, <2>1, ButtonsHaveRoom
  <2>3. reach \in Nat /\ next \in Nat
    BY <1>1, <1>3, <1>6, HotSpotTypes DEF HotSpot, HotSpotRecord
  <2> HIDE DEF reach, next, b, c
  <2> QED  BY <2>1, <2>2, <2>3, UiTypes
<1>9. shown # Absent => {spots[i].effect : i \in DOMAIN spots} = {b \in Button : views[b] # Absent}
  <2> SUFFICES ASSUME shown # Absent
               PROVE  {spots[i].effect : i \in DOMAIN spots} = {b \in Button : views[b] # Absent}
    OBVIOUS
  <2>1. Records(spots, Button, views, mode, surface.width)
    BY <1>2, <1>4 DEF spots
  <2> QED  BY <2>1 DEF Records
<1> QED  BY <1>7, <1>8, <1>9 DEF ButtonsApart, spots

(* With a gap between them, the buttons of every dialog are inside of it,  *)
(* apart from each other and all recorded, whatever the labels measure     *)
(* (calculate_size and the walk of render over the same labels).           *)
THEOREM ButtonsAreApart ==
  ASSUME hp > 0
  PROVE  Spec => []ButtonsApart
BY PointingInvariant, InvButtons, PTL

-----------------------------------------------------------------------------
(* Gestures.  touchpoints holds exactly the fingers that are on the button *)
(* they went down on, under the hotspot they went down on, and each once;  *)
(* press_hotspot is where the button that is down went down.               *)

TouchInv ==
  /\ \A i \in DOMAIN touchpoints :
       /\ touchpoints[i].id \in DOMAIN fingers
       /\ fingers[touchpoints[i].id].stayed
       /\ fingers[touchpoints[i].id].on = touchpoints[i].hotspot
  /\ \A i, j \in DOMAIN touchpoints : touchpoints[i].id = touchpoints[j].id => i = j
  /\ \A f \in DOMAIN fingers :
       fingers[f].stayed /\ fingers[f].on # Absent =>
         \E i \in DOMAIN touchpoints : touchpoints[i].id = f

PressInv == button # Absent => press_hotspot = button.on

GestureInv == PointingInv /\ TouchInv /\ PressInv

(* The touch point of a finger that is removed was its only one.           *)
LEMMA RemovalForgetsOne ==
  ASSUME PointingInv, TouchInv, NEW f \in DOMAIN fingers, NEW i, i = TouchpointOf(f), i # 0,
         touchpoints' = RemoveAt(touchpoints, i),
         DOMAIN fingers \ {f} \subseteq DOMAIN fingers', DOMAIN fingers' \subseteq DOMAIN fingers,
         \A g \in DOMAIN fingers \ {f} : fingers'[g] = fingers[g],
         f \in DOMAIN fingers' => ~(fingers'[f].stayed /\ fingers'[f].on # Absent)
  PROVE  TouchInv'
<1>1. touchpoints \in Seq(Touchpoint)
  BY DEF PointingInv, SeatTypeOK
<1>2. i \in 1 .. Len(touchpoints) /\ touchpoints[i].id = f /\ Len(touchpoints) \in Nat
      /\ DOMAIN touchpoints = 1 .. Len(touchpoints)
  <2>1. i \in 0 .. Len(touchpoints) /\ touchpoints[i].id = f
    BY <1>1, TouchpointFound
  <2> QED  BY <1>1, <2>1
<1>3. /\ DOMAIN touchpoints' = 1 .. Len(touchpoints) - 1
      /\ \A j \in 1 .. Len(touchpoints) - 1 :
           touchpoints'[j] = IF j < i THEN touchpoints[j] ELSE touchpoints[j + 1]
  BY <1>1, <1>2, OneRemoved
<1> DEFINE Old(j) == IF j < i THEN j ELSE j + 1
<1>4. \A j \in DOMAIN touchpoints' :
        /\ Old(j) \in DOMAIN touchpoints /\ Old(j) # i /\ touchpoints'[j] = touchpoints[Old(j)]
  BY <1>2, <1>3
<1>5. \A j, k \in DOMAIN touchpoints' : Old(j) = Old(k) => j = k
  BY <1>2, <1>3
<1>6. \A j \in DOMAIN touchpoints : j # i => \E k \in DOMAIN touchpoints' : Old(k) = j
  <2> TAKE j \in DOMAIN touchpoints
  <2> HAVE j # i
  <2>1. CASE j < i
    <3>1. j \in DOMAIN touchpoints' /\ Old(j) = j
      BY <1>2, <1>3, <2>1
    <3> QED  BY <3>1
  <2>2. CASE ~(j < i)
    <3>1. j - 1 \in DOMAIN touchpoints' /\ Old(j - 1) = j
      BY <1>2, <1>3, <2>2
    <3> QED  BY <3>1
  <2> QED  BY <2>1, <2>2
<1> HIDE DEF Old
<1>7. ASSUME NEW j \in DOMAIN touchpoints'
      PROVE  /\ touchpoints'[j].id \in DOMAIN fingers'
             /\ fingers'[touchpoints'[j].id].stayed
             /\ fingers'[touchpoints'[j].id].on = touchpoints'[j].hotspot
  <2>1. touchpoints[Old(j)].id # f
    BY <1>2, <1>4 DEF TouchInv
  <2> QED  BY <1>4, <2>1 DEF TouchInv
<1>8. ASSUME NEW j \in DOMAIN touchpoints', NEW k \in DOMAIN touchpoints',
             touchpoints'[j].id = touchpoints'[k].id
      PROVE  j = k
  BY <1>4, <1>5, <1>8 DEF TouchInv
<1>9. ASSUME NEW g \in DOMAIN fingers', fingers'[g].stayed, fingers'[g].on # Absent
      PROVE  \E j \in DOMAIN touchpoints' : touchpoints'[j].id = g
  <2>1. g # f /\ g \in DOMAIN fingers /\ fingers[g].stayed /\ fingers[g].on # Absent
    BY <1>9
  <2>2. PICK j \in DOMAIN touchpoints : touchpoints[j].id = g
    BY <2>1 DEF TouchInv
  <2>3. j # i
    BY <1>2, <2>1, <2>2
  <2>4. PICK k \in DOMAIN touchpoints' : Old(k) = j
    BY <1>6, <2>3
  <2> QED  BY <1>4, <2>2, <2>4
<1> QED  BY <1>7, <1>8, <1>9 DEF TouchInv

LEMMA TouchDownKeeps ==
  ASSUME PointingInv, TouchInv, NEW f \in Fingers, NEW p \in Points, TouchDown(f, p)
  PROVE  TouchInv'
<1> DEFINE tp == [id |-> f, hotspot |-> Under(p)]
<1>1. /\ f \notin DOMAIN fingers
      /\ touchpoints' = IF Under(p) = Absent THEN touchpoints ELSE Append(touchpoints, tp)
      /\ DOMAIN fingers' = DOMAIN fingers \cup {f}
      /\ fingers'[f].on = Under(p) /\ fingers'[f].stayed
      /\ \A g \in DOMAIN fingers : fingers'[g] = fingers[g]
  BY DEF TouchDown
<1>2. touchpoints \in Seq(Touchpoint) /\ Len(touchpoints) \in Nat
      /\ DOMAIN touchpoints = 1 .. Len(touchpoints)
  BY DEF PointingInv, SeatTypeOK
<1>3. \A i \in DOMAIN touchpoints : touchpoints[i].id # f
  BY <1>1 DEF TouchInv
<1>4. CASE Under(p) = Absent
  BY <1>1, <1>4 DEF TouchInv
<1>5. CASE Under(p) # Absent
  <2> DEFINE n == Len(touchpoints) + 1
  <2>1. /\ DOMAIN touchpoints' = 1 .. n /\ touchpoints'[n] = tp
        /\ \A i \in DOMAIN touchpoints : i \in DOMAIN touchpoints' /\ touchpoints'[i] = touchpoints[i]
        /\ \A i \in DOMAIN touchpoints' : i = n \/ i \in DOMAIN touchpoints
    BY <1>1, <1>2, <1>5
  <2>2. tp.id = f /\ tp.hotspot = Under(p) /\ n \in DOMAIN touchpoints'
    BY <1>2, <2>1
  <2> HIDE DEF n, tp
  <2>3. ASSUME NEW i \in DOMAIN touchpoints'
        PROVE  /\ touchpoints'[i].id \in DOMAIN fingers'
               /\ fingers'[touchpoints'[i].id].stayed
               /\ fingers'[touchpoints'[i].id].on = touchpoints'[i].hotspot
    BY <1>1, <2>1, <2>2 DEF TouchInv
  <2>4. ASSUME NEW i \in DOMAIN touchpoints', NEW j \in DOMAIN touchpoints',
               touchpoints'[i].id = touchpoints'[j].id
        PROVE  i = j
    BY <1>3, <2>1, <2>2, <2>4 DEF TouchInv
  <2>5. ASSUME NEW g \in DOMAIN fingers', fingers'[g].stayed, fingers'[g].on # Absent
        PROVE  \E i \in DOMAIN touchpoints' : touchpoints'[i].id = g
    <3>1. CASE g = f
      BY <2>1, <2>2, <3>1
    <3>2. CASE g # f
      <4>1. g \in DOMAIN fingers /\ fingers[g].stayed /\ fingers[g].on # Absent
        BY <1>1, <2>5, <3>2
      <4>2. PICK i \in DOMAIN touchpoints : touchpoints[i].id = g
        BY <4>1 DEF TouchInv
      <4> QED  BY <2>1, <4>2
    <3> QED  BY <3>1, <3>2
  <2> QED  BY <2>3, <2>4, <2>5 DEF TouchInv
<1> QED  BY <1>4, <1>5

LEMMA TouchMotionKeeps ==
  ASSUME PointingInv, TouchInv, NEW f \in Fingers, NEW p \in Points, TouchMotion(f, p)
  PROVE  TouchInv'
<1> DEFINE i == TouchpointOf(f)
           on == fingers[f].on
           stays == fingers[f].stayed /\ on # Absent /\ contains_point(on, p)
<1>1. /\ f \in DOMAIN fingers /\ fingers[f] \in Contact
      /\ fingers' = [fingers EXCEPT ![f].stayed = stays]
      /\ touchpoints' = IF i = 0 \/ contains_point(touchpoints[i].hotspot, p) THEN touchpoints
                        ELSE RemoveAt(touchpoints, i)
  BY DEF TouchMotion, PointingInv, SeatTypeOK
<1>2. /\ DOMAIN fingers' = DOMAIN fingers /\ fingers'[f].on = on /\ fingers'[f].stayed = stays
      /\ \A g \in DOMAIN fingers \ {f} : fingers'[g] = fingers[g]
  BY <1>1 DEF Contact
<1>3. /\ i \in 0 .. Len(touchpoints) /\ (i # 0 => touchpoints[i].id = f)
      /\ i = 0 => \A j \in DOMAIN touchpoints : touchpoints[j].id # f
  BY TouchpointFound DEF PointingInv, SeatTypeOK
<1>4. i # 0 => i \in DOMAIN touchpoints /\ touchpoints[i].hotspot = on /\ fingers[f].stayed
  <2>1. i # 0 => i \in DOMAIN touchpoints
    BY <1>3 DEF PointingInv, SeatTypeOK
  <2> QED  BY <1>3, <2>1 DEF TouchInv
<1>5. i = 0 => ~(fingers[f].stayed /\ on # Absent)
  BY <1>1, <1>3 DEF TouchInv
<1> HIDE DEF i, on
<1>6. CASE i = 0
  <2>1. touchpoints' = touchpoints /\ ~stays /\ ~fingers'[f].stayed
    BY <1>1, <1>2, <1>5, <1>6
  <2> QED  BY <1>2, <1>3, <1>6, <2>1 DEF TouchInv
<1>7. CASE i # 0 /\ contains_point(on, p)
  <2>1. touchpoints' = touchpoints
    BY <1>1, <1>4, <1>7
  <2>2. on # Absent
    <3>1. touchpoints[i] \in Touchpoint
      BY <1>4, <1>7 DEF PointingInv, SeatTypeOK
    <3> QED  BY <1>4, <1>7, <3>1, AbsentAssumption DEF Touchpoint
  <2>3. stays /\ fingers'[f].stayed
    BY <1>2, <1>4, <1>7, <2>2
  <2> QED  BY <1>2, <1>4, <1>7, <2>1, <2>3 DEF TouchInv, on
<1>8. CASE i # 0 /\ ~contains_point(on, p)
  <2>1. touchpoints' = RemoveAt(touchpoints, i)
    BY <1>1, <1>4, <1>8
  <2>2. ~fingers'[f].stayed
    BY <1>2, <1>8
  <2> QED  BY <1>1, <1>2, <1>8, <2>1, <2>2, RemovalForgetsOne DEF i
<1> QED  BY <1>6, <1>7, <1>8

LEMMA TouchUpKeeps ==
  ASSUME PointingInv, TouchInv, NEW f \in Fingers, TouchUp(f)
  PROVE  TouchInv'
<1> DEFINE i == TouchpointOf(f)
<1>1. /\ f \in DOMAIN fingers /\ DOMAIN fingers' = DOMAIN fingers \ {f}
      /\ \A g \in DOMAIN fingers \ {f} : fingers'[g] = fingers[g]
      /\ touchpoints' = IF i = 0 THEN touchpoints ELSE RemoveAt(touchpoints, i)
  BY DEF TouchUp, Lifted
<1>2. i = 0 => \A j \in DOMAIN touchpoints : touchpoints[j].id # f
  BY TouchpointFound DEF PointingInv, SeatTypeOK
<1> HIDE DEF i
<1>3. CASE i = 0
  BY <1>1, <1>2, <1>3 DEF TouchInv
<1>4. CASE i # 0
  BY <1>1, <1>4, RemovalForgetsOne DEF i
<1> QED  BY <1>3, <1>4

LEMMA GestureStep ==
  ASSUME EndsTouches
  PROVE  GestureInv /\ [Next]_vars => GestureInv'
<1> SUFFICES ASSUME GestureInv, [Next]_vars PROVE GestureInv'
  OBVIOUS
<1>1. PointingInv /\ TouchInv /\ PressInv /\ PointingInv'
  BY PointingStep DEF GestureInv
<1>3. CASE UNCHANGED vars
  BY <1>1, <1>3 DEF vars, TouchInv, PressInv, GestureInv
<1>4. CASE (Registry \/ Prompting) /\ UNCHANGED <<seat, hand>>
  <2>1. UNCHANGED <<press_hotspot, touchpoints, button, fingers>>
    BY <1>4 DEF seat, hand
  <2>2. TouchInv'
    BY <1>1, <2>1 DEF TouchInv
  <2>4. PressInv'
    BY <1>1, <2>1 DEF PressInv
  <2> QED  BY <1>1, <2>2, <2>4 DEF GestureInv
<1>5. CASE PromptEnds
  <2>1. UNCHANGED <<press_hotspot, touchpoints, button, fingers>>
    BY <1>5 DEF PromptEnds, seat
  <2> QED  BY <1>1, <2>1 DEF TouchInv, PressInv, GestureInv
<1>6. CASE Pointer
  <2>1. UNCHANGED <<touchpoints, fingers>>
    BY <1>6 DEF Pointer, ButtonPressed, ButtonReleased, ReleasedUnheard, PointerUnplugged, seat
  <2>2. PressInv'
    <3>1. ASSUME NEW p \in Points, ButtonPressed(p) PROVE PressInv'
      BY <3>1 DEF ButtonPressed, PressInv
    <3>2. CASE button' = Absent
      BY <3>2 DEF PressInv
    <3> QED  BY <1>6, <3>1, <3>2 DEF Pointer, ButtonReleased, ReleasedUnheard, PointerUnplugged
  <2> QED  BY <1>1, <2>1, <2>2 DEF TouchInv, GestureInv
<1>7. CASE Touch
  <2>1. UNCHANGED <<press_hotspot, button>>
    BY <1>7 DEF Touch, TouchDown, TouchMotion, TouchUp, TouchCancel
  <2>2. PressInv'
    BY <1>1, <2>1 DEF PressInv
  <2>3. ASSUME TouchCancel PROVE TouchInv'
    BY <2>3 DEF TouchCancel, TouchInv
  <2>4. TouchInv'
    BY <1>1, <1>7, <2>3, TouchDownKeeps, TouchMotionKeeps, TouchUpKeeps DEF Touch
  <2> QED  BY <1>1, <2>2, <2>4 DEF GestureInv
<1> QED  BY <1>3, <1>4, <1>5, <1>6, <1>7 DEF Next

LEMMA GesturesAct ==
  ASSUME GestureInv
  PROVE  TouchUpActs /\ ReleaseActs
<1>1. ASSUME NEW f \in DOMAIN fingers \ DOMAIN fingers', TouchUp(f)
      PROVE  ActsAs(fingers[f].on, fingers[f].stayed)
  <2> DEFINE i == TouchpointOf(f)
  <2>1. exit' = IF i = 0 THEN exit ELSE EffectReason[touchpoints[i].hotspot.effect]
    BY <1>1 DEF TouchUp
  <2>2. /\ i \in 0 .. Len(touchpoints) /\ (i # 0 => touchpoints[i].id = f)
        /\ i = 0 => \A j \in DOMAIN touchpoints : touchpoints[j].id # f
        /\ touchpoints \in Seq(Touchpoint)
    BY TouchpointFound DEF GestureInv, PointingInv, SeatTypeOK
  <2> HIDE DEF i
  <2>3. CASE i = 0
    BY <2>1, <2>2, <2>3 DEF GestureInv, TouchInv, ActsAs
  <2>4. CASE i # 0
    <3>1. i \in DOMAIN touchpoints /\ touchpoints[i] \in Touchpoint
      BY <2>2, <2>4
    <3>2. fingers[f].stayed /\ fingers[f].on = touchpoints[i].hotspot
      BY <2>2, <2>4, <3>1 DEF GestureInv, TouchInv
    <3>3. fingers[f].on # Absent
      BY <3>1, <3>2, AbsentAssumption DEF Touchpoint
    <3> QED  BY <2>1, <2>4, <3>2, <3>3 DEF ActsAs
  <2> QED  BY <2>3, <2>4
<1>2. ASSUME button # Absent, NEW p \in Points, ButtonReleased(p)
      PROVE  ActsAs(button.on, Under(p) = button.on)
  BY <1>2 DEF ButtonReleased, Clicked, GestureInv, PressInv, ActsAs
<1> QED  BY <1>1, <1>2 DEF TouchUpActs, ReleaseActs

(* A finger or a mouse button acts as the button it went down on, if it is *)
(* still there, or not at all, for any number of fingers, prompts and      *)
(* buttons and with releases that nobody hears of, if the compositor ends  *)
(* every touch (touchpoints and press_hotspot outlive the surface).        *)
THEOREM GesturesBeginWhereTheyAct ==
  ASSUME EndsTouches
  PROVE  Spec => GesturesActWhereTheyBegan
<1>1. Init => GestureInv
  <2>1. Init => TouchInv /\ PressInv
    BY DEF Init, TouchInv, PressInv
  <2> QED  BY <2>1, PointingStarts DEF GestureInv
<1>2. GestureInv /\ [Next]_vars => [TouchUpActs /\ ReleaseActs]_vars
  BY GesturesAct
<1> QED  BY <1>1, <1>2, GestureStep, PTL DEF Spec, GesturesActWhereTheyBegan
=============================================================================
