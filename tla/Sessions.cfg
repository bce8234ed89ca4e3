\* Two servers, three connections, two users: logins, logouts,
\* closes, a crash or a lost Redis.
SPECIFICATION Spec
CONSTANTS
  s1 = s1  s2 = s2  c1 = c1  c2 = c2  c3 = c3  a = a  b = b
  m1 = m1  m2 = m2  g1 = g1
  Servers = {s1, s2}
  Conns = {c1, c2, c3}
  Users = {a, b}
  ChatMsgs = {}
  GroupMsgs = {}
  ServerOf <- OneAndTwo
  ToId <- ToB
  Members <- Both
  OverlappingLogins = FALSE
  Faults = {"crash", "redis"}
  MaxFailures = 1
  PipeCap = 1
  NoUser = NoUser
  NoConn = NoConn
  NoMsg = NoMsg
INVARIANTS
  TypeOK
  SessionExclusive
  OnlineIsHeld
  EstablishedReachable
  NoGhostSession
PROPERTIES
  ImplementsRegistry
CHECK_DEADLOCK FALSE
