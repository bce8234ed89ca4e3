\* One group of two members, one group message.
SPECIFICATION Spec
CONSTANTS
  s1 = s1  s2 = s2  c1 = c1  c2 = c2  c3 = c3  a = a  b = b
  m1 = m1  m2 = m2  g1 = g1
  Servers = {s1}
  Conns = {c1, c2}
  Users = {a, b}
  ChatMsgs = {}
  GroupMsgs = {g1}
  ServerOf <- AllOnS1
  ToId <- ToB
  Members <- Both
  OverlappingLogins = FALSE
  Faults = {}
  MaxFailures = 0
  PipeCap = 1
  NoUser = NoUser
  NoConn = NoConn
  NoMsg = NoMsg
INVARIANTS
  GroupListIsOthers
CHECK_DEADLOCK FALSE
