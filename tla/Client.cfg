\* One client with five requests, two users and two groups; everything the
\* network may do to the limits of messages.
SPECIFICATION FairSpec
CONSTANTS
  MaxUser = 2
  MaxGroup = 2
  Registered = 1
  SqlMayFail = TRUE
  NoId = NoId
  Wire = {"merge", "split"}
  MaxSent = 5
  MaxPushed = 1
INVARIANTS
  TypeOK
  AnswerAwaited
  
  
  ClosedLeavesNothing
  GroupHasItsCreator
PROPERTIES
  AnswerComes
CHECK_DEADLOCK FALSE
