-------------------------- MODULE SessionRegistry --------------------------
(***************************************************************************)
(* What the cluster promises about sessions, wherever it keeps them: a     *)
(* user is in use on at most one connection, a new session begins only     *)
(* after the old one has ended, a connection serves one user at a time,    *)
(* and a server that stops ends the sessions on its connections.           *)
(***************************************************************************)

CONSTANTS Users, Conns

VARIABLE sessions      \* the connections each user is in use on

Unused(c) == \A u \in Users : c \notin sessions[u]

RegistryInit == sessions = [u \in Users |-> {}]

Begin(u, c) ==
  /\ sessions[u] = {} /\ Unused(c)
  /\ sessions' = [sessions EXCEPT ![u] = {c}]

End(u) ==
  /\ sessions[u] # {}
  /\ sessions' = [sessions EXCEPT ![u] = {}]

Stop(lost) == sessions' = [u \in Users |-> sessions[u] \ lost]

RegistryNext ==
  \/ \E u \in Users : End(u) \/ \E c \in Conns : Begin(u, c)
  \/ \E lost \in SUBSET Conns : Stop(lost)

RegistrySpec == RegistryInit /\ [][RegistryNext]_sessions
============================================================================
