\* Two servers, a chat message on its way, and one of every kind of failure.
SPECIFICATION Spec
CONSTANTS
  s1 = s1  s2 = s2  c1 = c1  c2 = c2  c3 = c3  a = a  b = b
  m1 = m1  m2 = m2  g1 = g1
  Servers = {s1, s2}
  Conns = {c1, c2}
  Users = {a, b}
  ChatMsgs = {m1}
  GroupMsgs = {}
  ServerOf <- OneAndTwo
  ToId <- ToB
  Members <- Both
  OverlappingLogins = TRUE
  Faults = {"crash", "sigint", "sql", "redis"}
  MaxFailures = 1
  PipeCap = 1
  NoUser = NoUser
  NoConn = NoConn
  NoMsg = NoMsg
INVARIANTS
  MapSound
PROPERTIES
  NoMisdelivery
  
CHECK_DEADLOCK FALSE
