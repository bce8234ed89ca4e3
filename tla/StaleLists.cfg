\* A list of one user is shown to the next, whose answer has none.
SPECIFICATION Spec
CONSTANTS
  MaxUser = 2
  MaxGroup = 1
  Registered = 2
  SqlMayFail = FALSE
  NoId = NoId
  Wire = {}
  MaxSent = 6
  MaxPushed = 0
INVARIANT
  ListsAreCurrent
CHECK_DEADLOCK FALSE
