\* One server: nothing is sent twice and everything that starts ends.
SPECIFICATION FairSpec
CONSTANTS
  s1 = s1  s2 = s2  c1 = c1  c2 = c2  c3 = c3  a = a  b = b
  m1 = m1  m2 = m2  g1 = g1
  Servers = {s1}
  Conns = {c1, c2}
  Users = {a, b}
  ChatMsgs = {m1}
  GroupMsgs = {g1}
  ServerOf <- AllOnS1
  ToId <- ToB
  Members <- OnlyA
  OverlappingLogins = FALSE
  Faults = {"redis"}
  MaxFailures = 1
  PipeCap = 1
  NoUser = NoUser
  NoConn = NoConn
  NoMsg = NoMsg
INVARIANTS
  AtMostOnce
PROPERTIES
  HandlersFinish
  GoneIsClosed
  StoredReachesLogin
  MessagesSettle
CHECK_DEADLOCK FALSE
