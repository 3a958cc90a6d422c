------------------------------- MODULE Layout -------------------------------
(***************************************************************************)
(* Where the Wayland dialog puts things, in logical pixels                 *)
(* (src/frontend/wayland/render.rs).  The size is computed once, from the  *)
(* measured labels; each render walks the same labels again and places     *)
(* them, and the first one records where the buttons are.  The two walks   *)
(* agree only if they count the same paddings.                             *)
(*                                                                         *)
(* A label is the extent of its shaped text, or Absent.                    *)
(***************************************************************************)
EXTENDS Scale, Sequences

CONSTANT Ui  \* the [general] values the layout depends on

UiField == {"vertical_padding", "horizontal_padding", "button_inner_padding",
            "pin_square_size", "pin_square_amount"}
ASSUME UiAssumption == Ui \in [UiField -> Nat]

vp == Ui.vertical_padding
hp == Ui.horizontal_padding
bip == Ui.button_inner_padding

Button == {"cancel", "not_ok", "ok"}
Element == Button \cup {"title", "description", "prompt", "error"}
Views == [Element -> [width : Nat, height : Nat] \cup {Absent}]

(* The room a label takes above the next one.                              *)
Row(view) == IF view = Absent THEN 0 ELSE view.height + vp
Wide(view) == IF view = Absent THEN 0 ELSE view.width + 2 * hp

SquarePadding == Ui.pin_square_size \div 2
PinAreaHeight == Ui.pin_square_size + 2 * SquarePadding
PinAreaWidth == Ui.pin_square_amount * (Ui.pin_square_size + SquarePadding) + SquarePadding

(* What a prompt for a secret adds to the other labels.                    *)
PinRows(views, mode) ==
  IF mode = "GetPin" THEN Row(views["prompt"]) + PinAreaHeight + vp ELSE 0
PinWide(views, mode) ==
  IF mode = "GetPin" THEN {Wide(views["prompt"]), PinAreaWidth + 2 * hp} ELSE {}

ButtonWidth(view) == view.width + 2 * bip
ButtonHeight(view) == view.height + 2 * bip

(* From the left end of a button to that of the next one.                  *)
Step(view) == IF view = Absent THEN 0 ELSE ButtonWidth(view) + hp
CombinedButtonLength(views) == Step(views["ok"]) + Step(views["not_ok"]) + Step(views["cancel"])
MaxButtonHeight(views) ==
  Max({0} \cup {ButtonHeight(views[b]) : b \in {b \in Button : views[b] # Absent}})

TextRows(views) == Row(views["title"]) + Row(views["description"]) + Row(views["error"])

calculate_size(views, mode) ==
  [width |-> Max({hp, Wide(views["title"]), Wide(views["description"]), Wide(views["error"]),
                  CombinedButtonLength(views) + hp} \cup PinWide(views, mode)),
   height |-> vp + PinRows(views, mode) + TextRows(views)
                 + (IF MaxButtonHeight(views) > 0 THEN MaxButtonHeight(views) + vp ELSE 0)]

(* Where the buttons start.  The subtraction saturates.                    *)
ButtonsX(views, width) ==
  LET middle == (width + hp) \div 2
      half == CombinedButtonLength(views) \div 2
  IN IF half > middle THEN 0 ELSE middle - half
ButtonsY(views, mode) == vp + TextRows(views) + PinRows(views, mode)

(* A bug: the next button starts where this one ends.                      *)
ButtonX_WithoutGap(views, width, b) ==
  ButtonsX(views, width)
    + (IF b # "cancel" /\ views["cancel"] # Absent THEN ButtonWidth(views["cancel"]) ELSE 0)
    + (IF b = "ok" /\ views["not_ok"] # Absent THEN ButtonWidth(views["not_ok"]) ELSE 0)

ButtonX(views, width, b) ==
  ButtonsX(views, width)
    + (IF b # "cancel" THEN Step(views["cancel"]) ELSE 0)
    + (IF b = "ok" THEN Step(views["not_ok"]) ELSE 0)

HotSpot(views, mode, width, b) ==
  [effect |-> b, x |-> ButtonX(views, width, b), y |-> ButtonsY(views, mode),
   width |-> ButtonWidth(views[b]), height |-> ButtonHeight(views[b])]

(* The hotspots of the buttons there are, in the order they are drawn.     *)
Hotspots(views, mode, width) ==
  LET Drawn(b) == IF views[b] = Absent THEN <<>> ELSE <<HotSpot(views, mode, width, b)>>
  IN Drawn("cancel") \o Drawn("not_ok") \o Drawn("ok")

(* Both ends belong to the hotspot.                                        *)
contains_point(spot, p) ==
  p.x \in spot.x .. spot.x + spot.width /\ p.y \in spot.y .. spot.y + spot.height

(* The first hotspot a point is in, or Absent.                             *)
hotspot_from_point(spots, p) ==
  LET hit == {i \in DOMAIN spots : contains_point(spots[i], p)}
  IN IF hit = {} THEN Absent ELSE spots[Min(hit)]
=============================================================================
