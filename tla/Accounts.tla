------------------------------ MODULE Accounts ------------------------------
(***************************************************************************)
(* The tables behind registration, friends and groups, and what the data   *)
(* access objects do to them.  Every call opens a connection to MySQL of   *)
(* its own; a failed statement changes nothing and is at most reported to  *)
(* the caller, who goes on.                                                *)
(***************************************************************************)
EXTENDS Naturals, FiniteSets

CONSTANTS
  MaxUser,        \* bound on the rows of table user
  MaxGroup,       \* bound on the rows of table allgroup
  Registered,     \* how many users are registered at the start
  SqlMayFail,     \* may a statement fail?
  NoId            \* -1: no user, no group

ASSUME AccountsAssumption ==
  /\ MaxUser \in Nat /\ MaxGroup \in Nat
  /\ Registered \in 0..MaxUser
  /\ SqlMayFail \in BOOLEAN
  /\ NoId \notin Nat

VARIABLES
  user,           \* ids in table user
  friend,         \* rows of table friend
  allgroup,       \* ids in table allgroup
  groupuser,      \* rows of table groupuser
  sqlFailed       \* an insert of a row of groupuser has failed

tables == <<user, friend, allgroup, groupuser, sqlFailed>>

UserIds == 1..MaxUser
GroupIds == 1..MaxGroup

TablesOK ==
  /\ user \subseteq UserIds
  /\ friend \subseteq UserIds \X UserIds
  /\ allgroup \subseteq GroupIds
  /\ groupuser \subseteq UserIds \X GroupIds \X {"creator"}
  /\ sqlFailed \in BOOLEAN

TablesInit ==
  /\ user = 1..Registered
  /\ friend = {}
  /\ allgroup = {}
  /\ groupuser = {}
  /\ sqlFailed = FALSE

\* AUTO_INCREMENT.
NewId(rows) == Cardinality(rows) + 1

\* id is what mysql_insert_id returns for the caller's own connection; no
\* account is made when the name is taken or the statement fails.
InsertUser(id) ==
  \/ /\ id = NewId(user) /\ id \in UserIds
     /\ user' = user \cup {id}
  \/ id = NoId /\ UNCHANGED user

\* One direction only.
InsertFriend(u, f) ==
  \/ friend' = friend \cup {<<u, f>>}
  \/ SqlMayFail /\ UNCHANGED friend

FriendsOf(u) == {f \in user : <<u, f>> \in friend}

InsertGroup(id) ==
  \/ /\ id = NewId(allgroup) /\ id \in GroupIds
     /\ allgroup' = allgroup \cup {id}
  \/ SqlMayFail /\ id = NoId /\ UNCHANGED allgroup

AddMember(u, g, role) ==
  \/ groupuser' = groupuser \cup {<<u, g, role>>} /\ UNCHANGED sqlFailed
  \/ SqlMayFail /\ sqlFailed' = TRUE /\ UNCHANGED groupuser

\* "inner join groupuser on ..": the groups of a user. All members are creators, as
\* no client asks to join a group.
GroupsOf(u) == {g \in allgroup : <<u, g, "creator">> \in groupuser}

Creators(g) == {u \in UserIds : <<u, g, "creator">> \in groupuser}
============================================================================
