SPECIFICATION ReplSpec
CONSTANTS
  Texts <- MCTexts
  Meant <- MCMeant
  Unset = Unset
  Malformed = Malformed
  Chars = {"x"}
  Vocabulary <- MCVocabulary
  Pins <- MCPins
  MaxLines = 4
INVARIANTS ReplTypeOK OneReplyPerCommand RepliesFit ErrorIsFresh ExplicitLabelWins LabelsAreMeant
CHECK_DEADLOCK FALSE
