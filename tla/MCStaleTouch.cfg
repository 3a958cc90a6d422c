SPECIFICATION Spec
CONSTANTS
  MaxWord = 10000
  Absent = Absent
  Ui <- MCUi
  Outputs = {}
  Factors <- MCFactors
  Preferences = {}
  Prompts <- MCPrompts
  Capacity = 2
  MaxPrompts = 2
  Fingers = {f1}
  Points <- MCPoints
  EndsTouches = FALSE
PROPERTY TouchActsWhereItBegan
CHECK_DEADLOCK FALSE
