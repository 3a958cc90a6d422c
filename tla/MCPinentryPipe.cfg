SPECIFICATION Spec
CONSTANTS
  text = text
  blank = blank
  tty = tty
  display = display
  Texts = {text, blank, tty}
  Unset = Unset
  Malformed = Malformed
  Chars = {"x"}
  Vocabulary <- TtyVocabulary
  Pins = {}
  MaxLines = 3
  BlankText = blank
  LiveDisplays = {}
  EnvDisplay = Unset
  Terminals = {tty}
  StdinKinds = {"pipe"}
  PatientUser = FALSE
  UserKeys = {"x", "Backspace", "Enter", "NotOk"}
  Capacity = 1
  MaxKeys = 2
INVARIANT NoLineLost

