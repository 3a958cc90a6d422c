SPECIFICATION Spec
CONSTANTS
  Absent = Absent
  Unreadable = Unreadable
  Values = {"1", "2"}
  Invocations <- MCInvocations
  Homes <- MCHomes
  BlankText = " "
  Typed = {"x", "quote", "return"}
  MaxKeys = 2
INVARIANTS AnswerIsTold OpensOnlyForValidRequests FrontendIsReleased
PROPERTY PromptEnds
CHECK_DEADLOCK FALSE
