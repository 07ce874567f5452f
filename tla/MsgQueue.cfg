CONSTANTS
  Words = {"a", "b", "over"}
  Leftovers <- UpToTwo
SPECIFICATION FairSpec
INVARIANTS
  NeverFails
  QueueBounded
  EndHeard
PROPERTIES
  TalksInTurn
  Terminates
