SPECIFICATION FairSpec
CONSTANTS
  text = text
  blank = blank
  tty = tty
  display = display
  Texts = {text, blank, tty}
  Unset = Unset
  Malformed = Malformed
  Chars = {"x"}
  Vocabulary <- WaylandVocabulary
  Pins = {}
  MaxLines = 2
  BlankText = blank
  LiveDisplays = {display}
  EnvDisplay = display
  Terminals = {}
  StdinKinds = {"pipe", "stream"}
  PatientUser = TRUE
  UserKeys = {"x", "Clear", "Enter", "Escape", "NotOk"}
  Capacity = 1
  MaxKeys = 2
INVARIANT ModesAgree
PROPERTIES ServiceSpec PromptAnswered LostCompositorEnds
