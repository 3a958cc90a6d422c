SPECIFICATION Spec
CONSTANTS
  a = a
  euro = euro
  NUL = NUL
  Chars = {a, euro, NUL}
  Width <- MCWidth
  Slices <- MCSlices
  Capacity = 6
  Pages = {p1, p2, p3}
  Ignores = TRUE
INVARIANT SecretIsProtected
CHECK_DEADLOCK FALSE
