------------------------------- MODULE Scale -------------------------------
(***************************************************************************)
(* The exact scales of src/frontend/wayland/scale.rs: an integer output    *)
(* scale, or a numerator over 120, and the checked arithmetic from logical *)
(* to physical pixels.  MaxWord stands for u32::MAX.                       *)
(***************************************************************************)
EXTENDS Integers, FiniteSetsExt

CONSTANTS
  MaxWord,  \* the largest number a u32 holds
  Absent    \* None

ASSUME WordAssumption == MaxWord \in Nat /\ MaxWord >= 120

FractionalDenominator == 120

Word == 0 .. MaxWord
ScaleMode == {"Integer", "Fractional"}
Scales == [mode : ScaleMode, numerator : Word]

IntegerScale(n) == [mode |-> "Integer", numerator |-> n]
FractionalScale(p) == [mode |-> "Fractional", numerator |-> p]
One == IntegerScale(1)

denominator(scale) == IF scale.mode = "Integer" THEN 1 ELSE FractionalDenominator

Overflow == -1

(* The physical extent, or Overflow: the product and the sum are checked,  *)
(* and no extent is zero.                                                  *)
physical_dim(scale, logical) ==
  LET rounded == logical * scale.numerator + denominator(scale) - 1
      extent == rounded \div denominator(scale)
  IN IF rounded > MaxWord \/ extent = 0 THEN Overflow ELSE extent

(* The scale a surface is drawn at: the preferred fraction where there is  *)
(* one and a viewport to map it with, else the largest integer scale of    *)
(* the outputs it is on that reported one.                                 *)
compute_effective_scale(fractional_enabled, preferred, entered_scales) ==
  LET positive == {s \in entered_scales : s > 0}
  IN IF fractional_enabled /\ preferred # Absent THEN FractionalScale(preferred)
     ELSE IntegerScale(IF positive = {} THEN 1 ELSE Max(positive))
=============================================================================
