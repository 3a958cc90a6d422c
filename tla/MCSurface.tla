----------------------------- MODULE MCSurface -----------------------------
(* Constants of the runs that check the dialog and its pointing devices.   *)
EXTENDS Pointing

MCUi ==
  [vertical_padding |-> 2, horizontal_padding |-> 3, button_inner_padding |-> 1,
   pin_square_size |-> 5, pin_square_amount |-> 1]

MCFactors == {-1, 2}

Text(w, h) == [width |-> w, height |-> h]

\* Every label, the buttons of unequal and odd widths.
ThreeButtons ==
  [e \in Element |-> CASE e = "ok" -> Text(5, 4) [] e = "cancel" -> Text(8, 3) [] OTHER -> Text(7, 3)]

\* A title and one button.
OneButton == [e \in Element |-> IF e \in {"title", "ok"} THEN Text(10, 3) ELSE Absent]

MCPrompts ==
  {[mode |-> "GetPin", views |-> ThreeButtons], [mode |-> "Message", views |-> OneButton]}

\* The outer corners of two of the three buttons, and outside of them.
Spot(b) == HotSpot(ThreeButtons, "GetPin", calculate_size(ThreeButtons, "GetPin").width, b)
MCPoints ==
  {[x |-> Spot("cancel").x, y |-> Spot("cancel").y],
   [x |-> Spot("ok").x + Spot("ok").width, y |-> Spot("ok").y + Spot("ok").height],
   [x |-> 0, y |-> 0]}

\* Outputs differ in nothing but their names.
OutputSymmetry == Permutations(Outputs)
=============================================================================
