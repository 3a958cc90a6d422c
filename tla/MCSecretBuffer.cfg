SPECIFICATION Spec
CONSTANTS
  a = a
  euro = euro
  NUL = NUL
  Chars = {a, euro, NUL}
  Width <- MCWidth
  Slices <- MCSlices
  Capacity = 6
  Pages = {p1, p2, p3}
  Ignores = FALSE
INVARIANTS SecretIsProtected NoResidue LenCountsCodepoints
PROPERTY TextSpec
CHECK_DEADLOCK FALSE
