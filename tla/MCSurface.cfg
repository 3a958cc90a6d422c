SPECIFICATION Spec
CONSTANTS
  MaxWord = 10000
  Absent = Absent
  Ui <- MCUi
  Outputs = {o1, o2}
  Factors <- MCFactors
  Preferences = {150, 900}
  Prompts <- MCPrompts
  Capacity = 2
  MaxPrompts = 2
  Fingers = {f1}
  Points <- MCPoints
  EndsTouches = TRUE
INVARIANTS TypeOK ScaleIsEffective FrameIsCurrent CommitsKeepTheSize ButtonsApart
PROPERTY GesturesActWhereTheyBegan
SYMMETRY OutputSymmetry
CHECK_DEADLOCK FALSE
