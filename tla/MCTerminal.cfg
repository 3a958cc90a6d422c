SPECIFICATION Spec
CONSTANTS
  Settings = {s1, s2}
  Absent = Absent
  UserKeys = {"A", "Umlaut", "Latin1", "AltA", "PageUp", "Enter", "Escape", "Backspace", "CtrlC", "CtrlU"}
  LabelSets <- MCLabelSets
  Heights = {4, 7, 24}
  Squares = 1
  ReadSize = 5
  Capacity = 2
  MaxKeys = 2
INVARIANTS TypeOK CookedWhenGone OwnersSettingsReturn StarsAreCurrent LinesHaveTheirRow
PROPERTY WholeKeysAreHeard
SYMMETRY SettingsSymmetry
CHECK_DEADLOCK FALSE
