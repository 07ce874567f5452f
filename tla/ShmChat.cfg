CONSTANTS
  Words = {"hello"}
SPECIFICATION FairSpec
INVARIANTS
  ExclusiveUse
  AnswerIsHeard
  NothingLeft
  CallsSucceed
PROPERTIES
  BothEnd
