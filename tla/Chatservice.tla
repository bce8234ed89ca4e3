---------------------------- MODULE Chatservice ----------------------------
(***************************************************************************)
(* The business layer of a cluster of ChatServer processes that share one  *)
(* MySQL database and one Redis server.  Each server keeps a map from user *)
(* id to TCP connection, guarded by a mutex; whether a user is online, and *)
(* the messages kept for users who are not, are columns and rows of the    *)
(* shared database; a message for a user of another server is published on *)
(* the Redis channel of that user.                                         *)
(*                                                                         *)
(* A handler runs on the I/O thread of its connection: the handlers of one *)
(* connection never overlap, those of different connections interleave.    *)
(* One action is what a handler does between two points at which another   *)
(* thread can interfere: one SQL statement, one Redis command, or one      *)
(* critical section of the mutex.                                          *)
(***************************************************************************)
EXTENDS Naturals, Sequences

CONSTANTS
  Servers,            \* the ChatServer processes behind the load balancer
  Conns,              \* TCP connections, each used for one client's lifetime
  Users,              \* registered user ids
  ChatMsgs,           \* one-to-one messages, each sent at most once
  GroupMsgs,          \* group messages, each sent at most once
  ServerOf,           \* the server the load balancer gives a connection to
  ToId,               \* "toid" of each one-to-one message
  Members,            \* rows of groupuser for the group of each group message
  OverlappingLogins,  \* may two logins of one user be handled at a time?
  Faults,             \* which ways of stopping a server or failing are possible
  MaxFailures,        \* bound on the variable failures
  PipeCap,            \* bound on unread commands in a subscribe socket
  NoUser,             \* id -1: "no user" in clientCloseException
  NoConn,             \* a user with no entry in _userConnectionMap
  NoMsg               \* a handler that carries no message

ASSUME ConstAssumption ==
  /\ ServerOf \in [Conns -> Servers]
  /\ ToId \in [ChatMsgs -> Users]
  /\ Members \in [GroupMsgs -> SUBSET Users]
  /\ ChatMsgs \cap GroupMsgs = {}
  /\ OverlappingLogins \in BOOLEAN
  /\ Faults \subseteq {"sigint", "crash", "sql", "redis"}
  /\ MaxFailures \in Nat /\ PipeCap \in Nat \ {0}
  /\ NoUser \notin Users /\ NoConn \notin Conns
  /\ NoMsg \notin ChatMsgs \cup GroupMsgs

VARIABLES
  userState,          \* MySQL: column state of table user
  offlineMessage,     \* MySQL: rows of table offlinemessage, as a bag per user
  subscribed,         \* Redis: set of <<server, user>>
  subCmds,            \* Redis: commands written by a server, not yet executed
  channel,            \* Redis: published messages a server has not yet read
  link,               \* whether a server's connections to Redis still work
  life,               \* "up", "sigint" (in resetHandler) or "down"
  failures,           \* stops of servers, losses of Redis, failed updates
  userConnectionMap,  \* _userConnectionMap of each server
  connMutex,          \* the handler that holds _connMutex between two steps
  connState,          \* life of a TCP connection
  session,            \* the user a connection was last acknowledged for
  unanswered,         \* a login was answered after the client had gone
  pc, uid, msg, ids, vec,  \* progress and locals of a connection's handler
  sent,               \* messages already sent by clients
  pushed              \* how often a message was sent on a connection

db == <<userState, offlineMessage>>
redis == <<subscribed, subCmds, channel, link>>
client == <<connState, session, unanswered>>
handler == <<pc, uid, msg, ids, vec>>
memory == <<userConnectionMap, connMutex>>
vars == <<db, redis, life, failures, memory, client, handler, sent, pushed>>

Msgs == ChatMsgs \cup GroupMsgs
NoRows == [m \in Msgs |-> 0]
LoginPcs == {"register", "subscribe", "setOnline",
             "queryOffline", "removeOffline", "ack"}
LogoutPcs == {"unsubscribe", "setOffline"}
ChatPcs == {"chatQuery", "chatPublish", "chatStore"}
GroupPcs == {"groupLock", "groupLoop", "groupPublish", "groupStore"}
MsgPcs == ChatPcs \cup GroupPcs

TypeOK ==
  /\ userState \in [Users -> {"online", "offline"}]
  /\ offlineMessage \in [Users -> [Msgs -> Nat]]
  /\ subscribed \subseteq Servers \X (Users \cup {NoUser})
  /\ subCmds \in [Servers ->
       Seq({"SUBSCRIBE", "UNSUBSCRIBE"} \X (Users \cup {NoUser}))]
  /\ channel \in [Servers -> Seq(Users \X Msgs)]
  /\ link \in [Servers -> BOOLEAN]
  /\ life \in [Servers -> {"up", "sigint", "down"}]
  /\ failures \in Nat
  /\ userConnectionMap \in [Servers -> [Users -> Conns \cup {NoConn}]]
  /\ connMutex \in [Servers -> Conns \cup {NoConn}]
  /\ connState \in [Conns -> {"new", "open", "gone", "closing", "closed"}]
  /\ session \in [Conns -> Users \cup {NoUser}]
  /\ unanswered \in [Conns -> BOOLEAN]
  /\ pc \in [Conns -> {"idle"} \cup LoginPcs \cup LogoutPcs \cup MsgPcs]
  /\ uid \in [Conns -> Users \cup {NoUser}]
  /\ msg \in [Conns -> Msgs \cup {NoMsg}]
  /\ ids \in [Conns -> SUBSET Users]
  /\ vec \in [Conns -> [Msgs -> Nat]]
  /\ sent \subseteq Msgs
  /\ pushed \in [Conns -> [Msgs -> Nat]]

Init ==
  /\ userState = [u \in Users |-> "offline"]
  /\ offlineMessage = [u \in Users |-> NoRows]
  /\ subscribed = {}
  /\ subCmds = [s \in Servers |-> <<>>]
  /\ channel = [s \in Servers |-> <<>>]
  /\ link = [s \in Servers |-> TRUE]
  /\ life = [s \in Servers |-> "up"]
  /\ failures = 0
  /\ userConnectionMap = [s \in Servers |-> [u \in Users |-> NoConn]]
  /\ connMutex = [s \in Servers |-> NoConn]
  /\ connState = [c \in Conns |-> "new"]
  /\ session = [c \in Conns |-> NoUser]
  /\ unanswered = [c \in Conns |-> FALSE]
  /\ pc = [c \in Conns |-> "idle"]
  /\ uid = [c \in Conns |-> NoUser]
  /\ msg = [c \in Conns |-> NoMsg]
  /\ ids = [c \in Conns |-> {}]
  /\ vec = [c \in Conns |-> NoRows]
  /\ sent = {}
  /\ pushed = [c \in Conns |-> NoRows]

----------------------------------------------------------------------------
(* Plausible mistakes in the definitions that follow.  No action uses these; *)
(* each takes the place of its original to show that a property notices.   *)

EraseNothing(s, u) == UNCHANGED userConnectionMap
UpdateStateFails(u, state) == UNCHANGED <<userState, failures>>
UpdateStateOnlineOnly(u, state) ==
  userState' = [userState EXCEPT ![u] = "online"] /\ UNCHANGED failures
UpdateStateBlank(u, state) ==
  /\ userState' = [userState EXCEPT ![u] = IF state = "online" THEN state ELSE ""]
  /\ UNCHANGED failures
InsertOfflineFails(u, m) == UNCHANGED <<offlineMessage, failures>>
RemoveOfflineFails(u) == UNCHANGED <<offlineMessage, failures>>
CommandDropsWhenFull(s, name, u) ==
  subCmds' = [subCmds EXCEPT ![s] =
                IF Len(@) < PipeCap THEN Append(@, <<name, u>>) ELSE @]
CommandSubscribeOnly(s, name, u) ==
  /\ Len(subCmds[s]) < PipeCap
  /\ subCmds' = [subCmds EXCEPT ![s] =
                   IF name = "SUBSCRIBE" THEN Append(@, <<name, u>>) ELSE @]
CommandNeedsUser(s, name, u) ==
  /\ Len(subCmds[s]) < PipeCap /\ u # NoUser
  /\ subCmds' = [subCmds EXCEPT ![s] = Append(@, <<name, u>>)]
QueryGroupsUsersOfAnyGroup(u, m) == {{u}}
RestartResets(s) ==
  /\ life[s] = "down"
  /\ life' = [life EXCEPT ![s] = "up"]
  /\ userState' = [u \in Users |-> "offline"]
  /\ UNCHANGED <<offlineMessage, redis, failures, memory, client, handler, sent,
                 pushed>>
RemoveBeforeQuery(c) ==
  /\ pc[c] = "queryOffline"
  /\ offlineMessage' = [offlineMessage EXCEPT ![uid[c]] = NoRows]
  /\ pc' = [pc EXCEPT ![c] = "ack"]
  /\ UNCHANGED <<userState, redis, life, failures, memory, client, uid, msg, ids,
                 vec, sent, pushed>>
GroupReturnWithoutUnlock(c) ==
  /\ pc[c] = "groupLoop" /\ ids[c] = {}
  /\ pc' = [pc EXCEPT ![c] = "idle"]
  /\ msg' = [msg EXCEPT ![c] = NoMsg]
  /\ UNCHANGED <<db, redis, life, failures, memory, client, uid, ids, vec, sent,
                 pushed>>

----------------------------------------------------------------------------
(* Data access objects, Redis commands and small helpers.                  *)

Goto(c, label) == pc' = [pc EXCEPT ![c] = label]
MutexFree(s) == connMutex[s] = NoConn
Find(s, u) == userConnectionMap[s][u]

\* conn->send(...): at most one send of m per connection and step.
Push(c, m) == pushed' = [pushed EXCEPT ![c][m] = @ + 1]

Erase(s, u) ==
  userConnectionMap' = [userConnectionMap EXCEPT ![s][u] = NoConn]

\* Every statement opens a connection of its own, and nobody asks whether that
\* or the statement failed: a failed update changes nothing, a failed query of
\* a user returns the default User, which is "offline", and others nothing.
SqlFails == "sql" \in Faults
UpdateFails ==
  SqlFails /\ failures < MaxFailures /\ failures' = failures + 1

QueryState(u) == {userState[u]} \cup {x \in {"offline"} : SqlFails}
UpdateState(u, state) ==
  \/ userState' = [userState EXCEPT ![u] = state] /\ UNCHANGED failures
  \/ UpdateFails /\ UNCHANGED userState
QueryRows(u) == {offlineMessage[u]} \cup {x \in {NoRows} : SqlFails}
InsertOffline(u, m) ==
  \/ /\ offlineMessage' = [offlineMessage EXCEPT ![u][m] = @ + 1]
     /\ UNCHANGED failures
  \/ UpdateFails /\ UNCHANGED offlineMessage
RemoveOffline(u) ==
  \/ offlineMessage' = [offlineMessage EXCEPT ![u] = NoRows] /\ UNCHANGED failures
  \/ UpdateFails /\ UNCHANGED offlineMessage
ResetState ==
  \/ userState' = [u \in Users |-> "offline"] /\ UNCHANGED failures
  \/ UpdateFails /\ UNCHANGED userState

\* PUBLISH is answered once every subscriber's socket has the message; over a
\* broken connection it fails, which nobody notices.
Publish(s, u, m) ==
  channel' = [t \in Servers |-> IF link[s] /\ <<t, u>> \in subscribed
                                THEN Append(channel[t], <<u, m>>)
                                ELSE channel[t]]

\* SUBSCRIBE and UNSUBSCRIBE are only written; nobody waits for the answer, and
\* nobody notices when the connection is broken.
Command(s, name, u) ==
  \/ /\ link[s] /\ Len(subCmds[s]) < PipeCap
     /\ subCmds' = [subCmds EXCEPT ![s] = Append(@, <<name, u>>)]
  \/ ~link[s] /\ UNCHANGED subCmds

\* observer_channel_message blocks until a message of the socket is complete.
Observed(s) == Head(channel[s])

----------------------------------------------------------------------------
(* Clients and connections.                                                *)

Accept(c) ==
  /\ connState[c] = "new"
  /\ life[ServerOf[c]] # "down"
  /\ connState' = [connState EXCEPT ![c] = "open"]
  /\ UNCHANGED <<db, redis, life, failures, memory, session, unanswered, handler,
                 sent, pushed>>

\* The client quits or its socket breaks; the server has not noticed yet.
PeerClose(c) ==
  /\ connState[c] = "open"
  /\ connState' = [connState EXCEPT ![c] = "gone"]
  /\ UNCHANGED <<db, redis, life, failures, memory, session, unanswered, handler,
                 sent, pushed>>

\* The next request of c can be handled; what a client sent before it quit
\* is still read by the server.
Ready(c) == pc[c] = "idle" /\ connState[c] \in {"open", "gone"}

\* The client sends commands from its main menu only after LOGIN_MSG_ACK.
LoggedIn(c) == session[c] # NoUser /\ ~unanswered[c]

\* The client waits for the answer to a login; one that has gone sends
\* nothing more.
Answer(c) ==
  unanswered' = [unanswered EXCEPT ![c] = connState[c] = "gone"]

LoginInProgress(c, u) == pc[c] \in LoginPcs /\ uid[c] = u

----------------------------------------------------------------------------
(* login                                                                   *)

\* The request is read and the user's row queried.  A user that is not
\* registered or not found because the query failed, or whose password differs,
\* and one that is online already are refused with errno 1.
Login(c, u) ==
  /\ Ready(c) /\ session[c] = NoUser /\ ~unanswered[c]
  /\ OverlappingLogins \/ \A d \in Conns : ~LoginInProgress(d, u)
  /\ \/ /\ Answer(c)
        /\ UNCHANGED <<pc, uid>>
     \/ /\ userState[u] = "offline"
        /\ Goto(c, "register")
        /\ uid' = [uid EXCEPT ![c] = u]
        /\ UNCHANGED unanswered
  /\ UNCHANGED <<db, redis, life, failures, memory, connState, session, msg,
                 ids, vec, sent, pushed>>

\* unordered_map::insert leaves an existing entry alone.
Register(c) ==
  LET s == ServerOf[c] IN
  /\ pc[c] = "register" /\ MutexFree(s)
  /\ userConnectionMap' =
       [userConnectionMap EXCEPT ![s][uid[c]] = IF @ = NoConn THEN c ELSE @]
  /\ Goto(c, "subscribe")
  /\ UNCHANGED <<db, redis, life, failures, connMutex, client, uid, msg, ids,
                 vec, sent, pushed>>

Subscribe(c) ==
  /\ pc[c] = "subscribe"
  /\ Command(ServerOf[c], "SUBSCRIBE", uid[c])
  /\ Goto(c, "setOnline")
  /\ UNCHANGED <<db, subscribed, channel, link, life, failures, memory, client,
                 uid, msg, ids, vec, sent, pushed>>

SetOnline(c) ==
  /\ pc[c] = "setOnline"
  /\ UpdateState(uid[c], "online")
  /\ Goto(c, "queryOffline")
  /\ UNCHANGED <<offlineMessage, redis, life, memory, client, uid,
                 msg, ids, vec, sent, pushed>>

QueryOffline(c) ==
  /\ pc[c] = "queryOffline"
  /\ \E rows \in QueryRows(uid[c]) :
       /\ vec' = [vec EXCEPT ![c] = rows]
       /\ Goto(c, IF rows = NoRows THEN "ack" ELSE "removeOffline")
  /\ UNCHANGED <<db, redis, life, failures, memory, client, uid, msg, ids, sent,
                 pushed>>

RemoveRead(c) ==
  /\ pc[c] = "removeOffline"
  /\ RemoveOffline(uid[c])
  /\ Goto(c, "ack")
  /\ UNCHANGED <<userState, redis, life, memory, client, uid, msg, ids,
                 vec, sent, pushed>>

\* The friend and group queries only read; the answer carries the messages
\* read by QueryOffline.
LoginAck(c) ==
  /\ pc[c] = "ack"
  /\ Answer(c)
  /\ session' = [session EXCEPT ![c] = uid[c]]
  /\ pushed' = [pushed EXCEPT ![c] = [m \in Msgs |-> @[m] + vec[c][m]]]
  /\ Goto(c, "idle")
  /\ uid' = [uid EXCEPT ![c] = NoUser]
  /\ vec' = [vec EXCEPT ![c] = NoRows]
  /\ UNCHANGED <<db, redis, life, failures, memory, connState, msg, ids, sent>>

----------------------------------------------------------------------------
(* oneChat                                                                 *)

OneChat(c, m) ==
  LET s == ServerOf[c]
      found == Find(s, ToId[m]) IN
  /\ Ready(c) /\ LoggedIn(c) /\ m \notin sent /\ MutexFree(s)
  /\ sent' = sent \cup {m}
  /\ \/ /\ found # NoConn
        /\ Push(found, m)
        /\ UNCHANGED <<pc, msg>>
     \/ /\ found = NoConn
        /\ Goto(c, "chatQuery")
        /\ msg' = [msg EXCEPT ![c] = m]
        /\ UNCHANGED pushed
  /\ UNCHANGED <<db, redis, life, failures, memory, client, uid, ids, vec>>

ChatQuery(c) ==
  /\ pc[c] = "chatQuery"
  /\ \E state \in QueryState(ToId[msg[c]]) :
       Goto(c, IF state = "online" THEN "chatPublish" ELSE "chatStore")
  /\ UNCHANGED <<db, redis, life, failures, memory, client, uid, msg, ids, vec,
                 sent, pushed>>

ChatPublish(c) ==
  /\ pc[c] = "chatPublish"
  /\ Publish(ServerOf[c], ToId[msg[c]], msg[c])
  /\ Goto(c, "idle")
  /\ msg' = [msg EXCEPT ![c] = NoMsg]
  /\ UNCHANGED <<db, subscribed, subCmds, link, life, failures, memory, client,
                 uid, ids, vec, sent, pushed>>

ChatStore(c) ==
  /\ pc[c] = "chatStore"
  /\ InsertOffline(ToId[msg[c]], msg[c])
  /\ Goto(c, "idle")
  /\ msg' = [msg EXCEPT ![c] = NoMsg]
  /\ UNCHANGED <<userState, redis, life, memory, client, uid, ids, vec,
                 sent, pushed>>

----------------------------------------------------------------------------
(* groupChat                                                               *)

\* "select userid from groupuser where groupid = .. and userid = ..": the
\* sender's own row, if it is a member; nothing if the query fails.
QueryGroupsUsers(u, m) == {Members[m] \cap {u}} \cup {x \in {{}} : SqlFails}

GroupChat(c, m) ==
  /\ Ready(c) /\ LoggedIn(c) /\ m \notin sent
  /\ sent' = sent \cup {m}
  /\ \E found \in QueryGroupsUsers(session[c], m) : ids' = [ids EXCEPT ![c] = found]
  /\ msg' = [msg EXCEPT ![c] = m]
  /\ Goto(c, "groupLock")
  /\ UNCHANGED <<db, redis, life, failures, memory, client, uid, vec, pushed>>

GroupLock(c) ==
  LET s == ServerOf[c] IN
  /\ pc[c] = "groupLock" /\ MutexFree(s)
  /\ connMutex' = [connMutex EXCEPT ![s] = c]
  /\ Goto(c, "groupLoop")
  /\ UNCHANGED <<db, redis, life, failures, userConnectionMap, client, uid, msg,
                 ids, vec, sent, pushed>>

\* One turn of the loop for a member that is connected here.
GroupPush(c) ==
  /\ pc[c] = "groupLoop"
  /\ \E id \in ids[c] :
       /\ Find(ServerOf[c], id) # NoConn
       /\ Push(Find(ServerOf[c], id), msg[c])
       /\ ids' = [ids EXCEPT ![c] = @ \ {id}]
  /\ UNCHANGED <<db, redis, life, failures, memory, client, pc, uid, msg, vec,
                 sent>>

\* One that is not: the code looks up the state of the sender ("userid").
GroupQuery(c) ==
  /\ pc[c] = "groupLoop"
  /\ \E id \in ids[c] :
       /\ Find(ServerOf[c], id) = NoConn
       /\ ids' = [ids EXCEPT ![c] = @ \ {id}]
  /\ \E state \in QueryState(session[c]) :
       Goto(c, IF state = "online" THEN "groupPublish" ELSE "groupStore")
  /\ UNCHANGED <<db, redis, life, failures, memory, client, uid, msg, vec, sent,
                 pushed>>

GroupPublish(c) ==
  /\ pc[c] = "groupPublish"
  /\ Publish(ServerOf[c], session[c], msg[c])
  /\ Goto(c, "groupLoop")
  /\ UNCHANGED <<db, subscribed, subCmds, link, life, failures, memory, client,
                 uid, msg, ids, vec, sent, pushed>>

GroupStore(c) ==
  /\ pc[c] = "groupStore"
  /\ InsertOffline(session[c], msg[c])
  /\ Goto(c, "groupLoop")
  /\ UNCHANGED <<userState, redis, life, memory, client, uid, msg, ids,
                 vec, sent, pushed>>

GroupUnlock(c) ==
  LET s == ServerOf[c] IN
  /\ pc[c] = "groupLoop" /\ ids[c] = {}
  /\ connMutex' = [connMutex EXCEPT ![s] = NoConn]
  /\ Goto(c, "idle")
  /\ msg' = [msg EXCEPT ![c] = NoMsg]
  /\ UNCHANGED <<db, redis, life, failures, userConnectionMap, client, uid, ids,
                 vec, sent, pushed>>

----------------------------------------------------------------------------
(* loginout and clientCloseException                                       *)

\* The client leaves its main menu when it sends LOGINOUT_MSG.
Loginout(c) ==
  LET s == ServerOf[c] IN
  /\ Ready(c) /\ LoggedIn(c) /\ MutexFree(s)
  /\ Erase(s, session[c])
  /\ uid' = [uid EXCEPT ![c] = session[c]]
  /\ session' = [session EXCEPT ![c] = NoUser]
  /\ Goto(c, "unsubscribe")
  /\ UNCHANGED <<db, redis, life, failures, connMutex, connState, unanswered, msg,
                 ids, vec, sent, pushed>>

\* onConnection with a connection that is down: the first entry that holds
\* the connection is erased, in the map's unspecified order.
CloseConn(c) ==
  LET s == ServerOf[c]
      owners == {u \in Users : Find(s, u) = c} IN
  /\ pc[c] = "idle" /\ connState[c] = "gone" /\ MutexFree(s)
  /\ \/ \E u \in owners :
          /\ Erase(s, u)
          /\ uid' = [uid EXCEPT ![c] = u]
     \/ owners = {} /\ UNCHANGED <<userConnectionMap, uid>>
  /\ connState' = [connState EXCEPT ![c] = "closing"]
  /\ session' = [session EXCEPT ![c] = NoUser]
  /\ unanswered' = [unanswered EXCEPT ![c] = FALSE]
  /\ Goto(c, "unsubscribe")
  /\ UNCHANGED <<db, redis, life, failures, connMutex, msg, ids, vec, sent,
                 pushed>>

\* The end of either handler: a closed connection is gone for good.
Finish(c) ==
  /\ Goto(c, "idle")
  /\ uid' = [uid EXCEPT ![c] = NoUser]
  /\ connState' = [connState EXCEPT ![c] = IF @ = "closing" THEN "closed"
                                                            ELSE @]

Unsubscribe(c) ==
  /\ pc[c] = "unsubscribe"
  /\ Command(ServerOf[c], "UNSUBSCRIBE", uid[c])
  /\ \/ uid[c] # NoUser /\ Goto(c, "setOffline") /\ UNCHANGED <<uid, connState>>
     \/ uid[c] = NoUser /\ Finish(c)
  /\ UNCHANGED <<db, subscribed, channel, link, life, failures, memory, session,
                 unanswered, msg, ids, vec, sent, pushed>>

SetOffline(c) ==
  /\ pc[c] = "setOffline"
  /\ UpdateState(uid[c], "offline")
  /\ Finish(c)
  /\ UNCHANGED <<offlineMessage, redis, life, memory, session, unanswered,
                 msg, ids, vec, sent, pushed>>

----------------------------------------------------------------------------
(* Redis and the thread that reads the subscribe context                   *)

\* Redis executes the next command a server has written.
RedisExec(s) ==
  /\ subCmds[s] # <<>>
  /\ LET name == Head(subCmds[s])[1]
         u == Head(subCmds[s])[2]
     IN subscribed' = IF name = "SUBSCRIBE"
                      THEN subscribed \cup {<<s, u>>}
                      ELSE subscribed \ {<<s, u>>}
  /\ subCmds' = [subCmds EXCEPT ![s] = Tail(@)]
  /\ UNCHANGED <<db, channel, link, life, failures, memory, client, handler, sent,
                 pushed>>

\* observer_channel_message reports the next message; the map is read and
\* the message stored under one hold of the mutex.
HandleRedisSubscribeMessage(s) ==
  LET u == Observed(s)[1]
      m == Observed(s)[2]
      found == Find(s, u) IN
  /\ channel[s] # <<>> /\ MutexFree(s)
  /\ \/ found # NoConn /\ Push(found, m) /\ UNCHANGED <<offlineMessage, failures>>
     \/ found = NoConn /\ InsertOffline(u, m) /\ UNCHANGED pushed
  /\ channel' = [channel EXCEPT ![s] = Tail(@)]
  /\ UNCHANGED <<userState, subscribed, subCmds, link, life, memory,
                 client, handler, sent>>

\* A server loses its connections to Redis; messages that have arrived can
\* still be read, then the observer thread ends.  Nobody connects again.
RedisLost(s) ==
  /\ "redis" \in Faults /\ link[s] /\ failures < MaxFailures
  /\ failures' = failures + 1
  /\ link' = [link EXCEPT ![s] = FALSE]
  /\ subscribed' = {x \in subscribed : x[1] # s}
  /\ subCmds' = [subCmds EXCEPT ![s] = <<>>]
  /\ \E n \in 0..Len(channel[s]) :
       channel' = [channel EXCEPT ![s] = SubSeq(@, 1, n)]
  /\ UNCHANGED <<db, life, memory, client, handler, sent, pushed>>

----------------------------------------------------------------------------
(* A server process stops and is started again                             *)

\* SIGINT: resetHandler runs reset() while the other threads go on.
ResetHandler(s) ==
  /\ "sigint" \in Faults /\ life[s] = "up" /\ failures < MaxFailures
  /\ ResetState
  /\ life' = [life EXCEPT ![s] = "sigint"]
  /\ UNCHANGED <<offlineMessage, redis, memory, client, handler, sent,
                 pushed>>

\* exit(0) after reset(), or an uncaught exception: memory is gone, every
\* connection is closed by the kernel and no handler runs for it.
Exit(s) ==
  LET lost == {c \in Conns : ServerOf[c] = s} IN
  /\ failures < MaxFailures
  /\ life[s] = "sigint" \/ ("crash" \in Faults /\ life[s] = "up")
  /\ life' = [life EXCEPT ![s] = "down"]
  /\ failures' = failures + 1
  /\ userConnectionMap' = [userConnectionMap EXCEPT ![s] = [u \in Users |-> NoConn]]
  /\ connMutex' = [connMutex EXCEPT ![s] = NoConn]
  /\ subscribed' = {x \in subscribed : x[1] # s}
  /\ subCmds' = [subCmds EXCEPT ![s] = <<>>]
  /\ channel' = [channel EXCEPT ![s] = <<>>]
  /\ link' = [link EXCEPT ![s] = TRUE]
  /\ connState' = [c \in Conns |->
       IF c \in lost /\ connState[c] # "new" THEN "closed" ELSE connState[c]]
  /\ session' = [c \in Conns |-> IF c \in lost THEN NoUser ELSE session[c]]
  /\ unanswered' = [c \in Conns |-> IF c \in lost THEN FALSE ELSE unanswered[c]]
  /\ pc' = [c \in Conns |-> IF c \in lost THEN "idle" ELSE pc[c]]
  /\ uid' = [c \in Conns |-> IF c \in lost THEN NoUser ELSE uid[c]]
  /\ msg' = [c \in Conns |-> IF c \in lost THEN NoMsg ELSE msg[c]]
  /\ ids' = [c \in Conns |-> IF c \in lost THEN {} ELSE ids[c]]
  /\ vec' = [c \in Conns |-> IF c \in lost THEN NoRows ELSE vec[c]]
  /\ UNCHANGED <<db, sent, pushed>>

Restart(s) ==
  /\ life[s] = "down"
  /\ life' = [life EXCEPT ![s] = "up"]
  /\ UNCHANGED <<db, redis, failures, memory, client, handler, sent, pushed>>

----------------------------------------------------------------------------

\* The rest of a handler that has started.
HandlerStep(c) ==
  \/ Register(c) \/ Subscribe(c) \/ SetOnline(c)
  \/ QueryOffline(c) \/ RemoveRead(c) \/ LoginAck(c)
  \/ ChatQuery(c) \/ ChatPublish(c) \/ ChatStore(c)
  \/ GroupLock(c) \/ GroupPush(c) \/ GroupQuery(c)
  \/ GroupPublish(c) \/ GroupStore(c) \/ GroupUnlock(c)
  \/ Unsubscribe(c) \/ SetOffline(c)

Request(c) ==
  \/ \E u \in Users : Login(c, u)
  \/ \E m \in ChatMsgs : OneChat(c, m)
  \/ \E m \in GroupMsgs : GroupChat(c, m)
  \/ Loginout(c)

Next ==
  \/ \E c \in Conns : Accept(c) \/ PeerClose(c) \/ Request(c)
                      \/ HandlerStep(c) \/ CloseConn(c)
  \/ \E s \in Servers : RedisExec(s) \/ HandleRedisSubscribeMessage(s) \/ RedisLost(s)
                        \/ ResetHandler(s) \/ Exit(s) \/ Restart(s)

Spec == Init /\ [][Next]_vars

\* What the I/O thread of c does by itself; one of the two at a time.
ThreadStep(c) == HandlerStep(c) \/ CloseConn(c)

\* The threads of a server and Redis keep running; clients owe nothing.  The
\* mutex and the socket let a thread that waits for them through in the end.
Fairness ==
  /\ \A c \in Conns : SF_vars(ThreadStep(c))
  /\ \A s \in Servers : /\ WF_vars(RedisExec(s))
                        /\ WF_vars(HandleRedisSubscribeMessage(s))

FairSpec == Spec /\ Fairness

(***************************************************************************)
(* Properties                                                              *)
(***************************************************************************)

\* Connection c stands for user u at its server: the login of u on c has
\* passed the duplicate check and its logout or close has not ended.
Holds(c, u) ==
  \/ session[c] = u
  \/ uid[c] = u /\ pc[c] \in LoginPcs \cup LogoutPcs

\* Every entry of a _userConnectionMap is a connection of that server that
\* stands for that user: logout, close and exit leave no stale entry behind,
\* although each finds its entry by a different key.
MapSound ==
  \A s \in Servers, u \in Users :
    LET c == Find(s, u) IN
    c # NoConn => /\ ServerOf[c] = s
                  /\ connState[c] \in {"open", "gone"}
                  /\ Holds(c, u)

Addressees(m) == IF m \in ChatMsgs THEN {ToId[m]} ELSE Members[m]

\* A message is only ever sent on a connection that stands for a user it is
\* addressed to, whichever way it takes: the local map, Redis, or the offline
\* messages of a later login.
NoMisdelivery ==
  [][\A c \in Conns, m \in Msgs : pushed'[c][m] # pushed[c][m] =>
       \E u \in Addressees(m) : Holds(c, u)]_vars

\* While two logins of one user never overlap, the state column works as a
\* lock: over the whole cluster at most one connection stands for a user.
SessionExclusive ==
  \A c, d \in Conns, u \in Users : Holds(c, u) /\ Holds(d, u) => c = d

\* Three stores and six steps of a login act as one registry of sessions: a login
\* takes effect when it has passed the duplicate check, and only if nobody
\* stands for the user; logout, close and a stopping server take it back.
HeldSessions == [u \in Users |-> {c \in Conns : Holds(c, u)}]

Registry == INSTANCE SessionRegistry WITH sessions <- HeldSessions

ImplementsRegistry == Registry!RegistrySpec

\* Unless a server has stopped, a user the database shows as online is one that
\* some connection stands for, so a login refused as a duplicate was one.
OnlineIsHeld ==
  failures = 0 =>
    \A u \in Users : userState[u] = "online" => \E c \in Conns : Holds(c, u)

\* The last command of user u still on its way from server s to Redis
\* decides whether s will be subscribed; without one, the set decides.
WillBeSubscribed(s, u) ==
  LET mine == {i \in 1..Len(subCmds[s]) : subCmds[s][i][2] = u} IN
  IF mine = {} THEN <<s, u>> \in subscribed
  ELSE \E i \in mine : /\ subCmds[s][i][1] = "SUBSCRIBE"
                       /\ \A j \in mine : j <= i

\* An established session is consistent over all three stores: the server's
\* map, the user table and, while its server is connected to it, Redis (once it
\* has executed what was written).
EstablishedReachable ==
  \A c \in Conns, u \in Users :
    session[c] = u => /\ Find(ServerOf[c], u) = c
                      /\ userState[u] = "online"
                      /\ link[ServerOf[c]] => WillBeSubscribed(ServerOf[c], u)

\* Once nobody stands for a user no trace of a session is left: no entry in
\* a map, no subscription that outlives the commands on their way and, unless
\* a server has stopped, nothing in the table.
NoGhostSession ==
  \A u \in Users : (\A c \in Conns : ~Holds(c, u)) =>
    /\ failures = 0 => userState[u] = "offline"
    /\ \A s \in Servers : Find(s, u) = NoConn /\ ~WillBeSubscribed(s, u)

\* The places of the copies of chat message m that a client has or can still get.
\* What a login has read and not yet removed is one copy, the row's.
Copies(m) ==
  (UNION { {<<"client", c, i>> : i \in 1..pushed[c][m]} : c \in Conns })
    \cup {<<"handler", c, 1>> : c \in {d \in Conns : msg[d] = m}}
    \cup (UNION { {<<"login", c, i>> : i \in 1..vec[c][m]} :
                    c \in {d \in Conns : pc[d] = "ack"} })
    \cup (UNION { {<<"Redis", s, i>> : i \in {j \in 1..Len(channel[s]) :
                                              channel[s][j][2] = m}} : s \in Servers })
    \cup (UNION { {<<"row", u, i>> : i \in 1..offlineMessage[u][m]} : u \in Users })

\* On one server a chat message is never sent twice, nor sent and also kept
\* for the next login, whatever its recipient does meanwhile.
AtMostOnce == \A m \in ChatMsgs : \A p, q \in Copies(m) : p = q

\* Chat message m has been sent on some connection, or somebody has it still.
Kept(m) ==
  \/ \E c \in Conns : msg[c] = m \/ vec[c][m] > 0 \/ pushed[c][m] > 0
  \/ \E s \in Servers : \E i \in 1..Len(channel[s]) : channel[s][i][2] = m
  \/ \E u \in Users : offlineMessage[u][m] > 0

\* Store m for its recipient: oneChat, or the callback of Redis.
Stores(m) ==
  \/ \E c \in Conns : pc[c] = "chatStore" /\ msg[c] = m
  \/ \E s \in Servers : /\ channel[s] # <<>> /\ Observed(s)[2] = m
                        /\ Find(s, Observed(s)[1]) = NoConn

\* The steps that may lose m.
Race(m) ==
  \/ \E c \in Conns : /\ pc[c] = "chatPublish" /\ msg[c] = m
                      /\ \/ ~link[ServerOf[c]]
                         \/ \A s \in Servers : <<s, ToId[m]>> \notin subscribed
  \/ \E c \in Conns : pc[c] = "removeOffline" /\ uid[c] = ToId[m] /\ vec[c][m] = 0
  \/ Stores(m) /\ failures' > failures
  \/ \E s \in Servers : link[s] /\ ~link'[s]
  \/ \E s \in Servers : life[s] # "down" /\ life'[s] = "down"

\* A chat message gets lost in five ways only: it is published when nobody is
\* subscribed or over a broken connection, a login removes its row without having
\* read it, the statement that stores it fails, Redis is lost, or a server stops.
\* No logout, close, login or message from Redis loses one.
LostOnlyInRaces == [][\A m \in ChatMsgs : Kept(m) /\ ~Kept(m)' => Race(m)]_vars

\* Every handler returns, also one that waits for the mutex that a group
\* message holds over its queries or for room in the subscribe socket.
HandlersFinish == \A c \in Conns : pc[c] # "idle" ~> pc[c] = "idle"

\* The server deals with every connection whose client has gone.
GoneIsClosed ==
  \A c \in Conns : connState[c] = "gone" ~> connState[c] = "closed"

\* A message kept for a user when its login looks for them is sent to it,
\* unless the server stops.
StoredReachesLogin ==
  \A c \in Conns, m \in ChatMsgs :
    /\ pc[c] = "queryOffline" /\ uid[c] = ToId[m]
    /\ offlineMessage[ToId[m]][m] > 0
    ~> pushed[c][m] > 0 \/ life[ServerOf[c]] = "down"

\* Every message leaves the handlers and Redis: it ends with a client, in the
\* table or nowhere.
MessagesSettle ==
  \A m \in Msgs : m \in sent ~>
    /\ \A c \in Conns : msg[c] # m
    /\ \A s \in Servers : \A i \in 1..Len(channel[s]) : channel[s][i][2] # m

(***************************************************************************)
(* What comments of the repository say and the code does not do            *)
(***************************************************************************)

\* "重复登陆，登录失败" (chatservice.cpp:51): a user that is logged in cannot log
\* in a second time.
OneSessionPerUser ==
  \A c, d \in Conns : session[c] # NoUser /\ session[c] = session[d] => c = d

\* "用户不在线,存储离线消息" (chatservice.cpp:244): a chat message whose handling
\* has ended was sent to somebody, or is kept.
NotDropped == \A m \in ChatMsgs \cap sent : Kept(m)

\* "读取完消息对离线消息进行删除" (chatservice.cpp:83): a login removes the offline
\* messages it has read, and no others.
OnlyReadRemoved ==
  [][\A u \in Users, m \in Msgs :
       offlineMessage'[u][m] < offlineMessage[u][m] =>
         \E c \in Conns : uid[c] = u /\ vec[c][m] = offlineMessage[u][m]]_vars

\* "除了userid自己" (groupmodel.cpp:102): a group message is for the members of
\* its group other than the sender.
GroupListIsOthers ==
  \A c \in Conns : pc[c] = "groupLock" => ids[c] = Members[msg[c]] \ {session[c]}

============================================================================
