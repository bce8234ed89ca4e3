------------------------------- MODULE Client -------------------------------
(***************************************************************************)
(* The console client, the TCP connection and the server's end of it.  The *)
(* client has two threads: main reads the keyboard and sends, and waits    *)
(* for a semaphore after a login or registration; readTask receives,       *)
(* stores the user of a login answer and posts the semaphore.              *)
(*                                                                         *)
(* TCP keeps order but not the limits of messages, and neither end looks   *)
(* for them: both parse what one read returns as one JSON text.  The       *)
(* server stops at the NUL byte a request ends with, so it ignores what    *)
(* follows in the same read; answers have no such byte.  A text that is    *)
(* not whole, or not alone, raises an exception that nobody catches.       *)
(*                                                                         *)
(* What the server does with chat messages, other clients and other        *)
(* servers is the subject of Chatservice.                                  *)
(***************************************************************************)
EXTENDS Accounts, Sequences

CONSTANTS
  Wire,           \* may a read return several messages, or part of one?
  MaxSent,        \* bound on the requests the client sends
  MaxPushed       \* bound on the chat messages sent to the client

ASSUME WireAssumption ==
  /\ Wire \subseteq {"merge", "split"}
  /\ MaxSent \in Nat /\ MaxPushed \in Nat

VARIABLES
  main,               \* where the client's main thread is
  g_currentUser,      \* the user of the last successful login
  lists,              \* whose friends and groups are in the lists of friends
                      \* and groups
  g_isLoginSuccess,
  rwsem,
  reader, answer,     \* where readTask is, and the answer it deals with
  toServer, toClient, \* the two directions of the connection
  alive,              \* the server process runs
  conn,               \* the server's end of the connection
  entries,            \* users whose map entry is this connection
  handler, id, gid,   \* where the server's handler is, and its locals
  ignored,            \* kinds of requests the server has ignored
  sent, pushed        \* how many messages were sent in each direction

shared == <<g_currentUser, lists, g_isLoginSuccess, rwsem>>
process == <<main, shared, reader, answer>>
wire == <<toServer, toClient, sent, pushed>>
service == <<alive, conn, entries, handler, id, gid, ignored>>
vars == <<process, wire, service, tables>>

Ids == UserIds \cup {NoId}
Awaiting == {"waitLogin", "waitReg"}
UserCommands == {"CHAT", "ADD_FRIEND_MSG", "CREATE_GROUP_MSG", "LOGINOUT_MSG"}

\* A request: its kind, "id", and "friendid".  "CHAT" stands for ONE_CHAT_MSG and
\* GROUP_CHAT_MAG, "REST" for what is left of a request that was read in part.
Requests ==
  [msgid : UserCommands \cup {"LOGIN_MSG", "REG_MSG", "REST"}, id : Ids, arg : Ids]

ListNames == {"friends", "groups"}

\* An answer: its kind, "id" (NoId with errno 1), and which lists it has.
Answers ==
  [msgid : {"LOGIN_MSG_ACK", "REG_MSG_ACK", "CHAT"}, id : Ids,
   arg : SUBSET ListNames]

Message(msgid, u, arg) == [msgid |-> msgid, id |-> u, arg |-> arg]
Rest == Message("REST", NoId, NoId)
Nothing == Message("CHAT", NoId, {})

TypeOK ==
  /\ TablesOK
  /\ main \in {"menu", "login", "chat", "gone"} \cup Awaiting
  /\ g_currentUser \in Ids /\ lists \in [ListNames -> Ids]
  /\ g_isLoginSuccess \in BOOLEAN /\ rwsem \in Nat
  /\ reader \in {"recv", "login", "post"} /\ answer \in Answers
  /\ toServer \in Seq(Requests) /\ toClient \in Seq(Answers)
  /\ alive \in BOOLEAN /\ conn \in {"open", "closed"}
  /\ entries \subseteq UserIds
  /\ handler \in {"idle", "login", "creator"}
  /\ id \in Ids /\ gid \in GroupIds \cup {NoId}
  /\ ignored \subseteq UserCommands \cup {"LOGIN_MSG", "REG_MSG", "REST"}
  /\ sent \in 0..MaxSent /\ pushed \in 0..MaxPushed

Init ==
  /\ TablesInit
  /\ main = "menu" /\ reader = "recv" /\ answer = Nothing
  /\ g_currentUser = NoId /\ lists = [l \in ListNames |-> NoId]
  /\ g_isLoginSuccess = FALSE /\ rwsem = 0
  /\ toServer = <<>> /\ toClient = <<>>
  /\ alive = TRUE /\ conn = "open" /\ entries = {}
  /\ handler = "idle" /\ id = NoId /\ gid = NoId
  /\ ignored = {} /\ sent = 0 /\ pushed = 0

----------------------------------------------------------------------------
(* Plausible mistakes in the definitions that follow.  No action uses these; *)
(* each takes the place of its original to show that a property notices.   *)

LoginNotReset ==
  /\ main = "menu"
  /\ main' = "login"
  /\ UNCHANGED <<shared, reader, answer, wire, service, tables>>

WakeAtOnce ==
  /\ main \in Awaiting
  /\ rwsem' = rwsem - 1
  /\ main' = IF main = "waitLogin" /\ g_isLoginSuccess THEN "chat" ELSE "menu"
  /\ UNCHANGED <<g_currentUser, lists, g_isLoginSuccess, reader, answer, wire,
                 service, tables>>

RecvPostsForAll ==
  /\ main # "gone" /\ reader = "recv" /\ toClient # <<>>
  /\ LET m == Head(toClient) IN
       /\ answer' = m
       /\ reader' = IF m.msgid = "LOGIN_MSG_ACK" /\ m.id # NoId THEN "login" ELSE "post"
  /\ toClient' = Tail(toClient)
  /\ UNCHANGED <<main, shared, toServer, sent, pushed, service, tables>>

RecvNeverFails == FALSE

AddCreatorToNewest ==
  /\ alive /\ handler = "creator"
  /\ AddMember(id, Cardinality(allgroup), "creator")
  /\ handler' = "idle" /\ id' = NoId /\ gid' = NoId
  /\ UNCHANGED <<process, wire, alive, conn, entries, ignored, user, friend,
                 allgroup>>

----------------------------------------------------------------------------
(* The client's main thread                                                *)

\* Nothing arrives at a server that has stopped.
Send(r) ==
  /\ sent < MaxSent /\ sent' = sent + 1
  /\ toServer' = IF alive THEN Append(toServer, r) ELSE toServer
  /\ UNCHANGED <<toClient, pushed>>

\* Menu choice 1: the state of the last login is reset, then the request sent.
ResetLogin ==
  /\ main = "menu"
  /\ main' = "login"
  /\ g_isLoginSuccess' = FALSE
  /\ UNCHANGED <<g_currentUser, lists, rwsem, reader, answer, wire, service,
                 tables>>

SendLogin(u) ==
  /\ main = "login"
  /\ Send(Message("LOGIN_MSG", u, NoId))
  /\ main' = "waitLogin"
  /\ UNCHANGED <<shared, reader, answer, service, tables>>

SendReg ==
  /\ main = "menu"
  /\ Send(Message("REG_MSG", NoId, NoId))
  /\ main' = "waitReg"
  /\ UNCHANGED <<shared, reader, answer, service, tables>>

\* sem_wait returns.
Wake ==
  /\ main \in Awaiting /\ rwsem > 0
  /\ rwsem' = rwsem - 1
  /\ main' = IF main = "waitLogin" /\ g_isLoginSuccess THEN "chat" ELSE "menu"
  /\ UNCHANGED <<g_currentUser, lists, g_isLoginSuccess, reader, answer, wire,
                 service, tables>>

\* chat, groupchat, addfriend and creategroup; "addgroup" sends an ADD_FRIEND_MSG
\* with "groupid" in place of "friendid".
Command(r) ==
  /\ main = "chat"
  /\ Send(r)
  /\ UNCHANGED <<process, service, tables>>

Commands ==
  LET me == g_currentUser IN
  \/ Command(Message("CHAT", me, NoId))
  \/ \E f \in UserIds : Command(Message("ADD_FRIEND_MSG", me, f))
  \/ Command(Message("ADD_FRIEND_MSG", me, NoId))
  \/ Command(Message("CREATE_GROUP_MSG", me, NoId))

\* The main menu is left unless the send failed.
Loginout ==
  /\ main = "chat"
  /\ Send(Message("LOGINOUT_MSG", g_currentUser, NoId))
  /\ main' \in {"menu"} \cup {m \in {"chat"} : ~alive}
  /\ UNCHANGED <<shared, reader, answer, service, tables>>

\* Menu choice 3, a signal, or a groupchat command without its second colon; the
\* kernel may throw away what the server has not read yet.
Quit ==
  /\ main # "gone"
  /\ main' = "gone" /\ reader' = "recv" /\ answer' = Nothing
  /\ \E n \in 0..Len(toServer) : toServer' = SubSeq(toServer, 1, n)
  /\ toClient' = <<>>
  /\ UNCHANGED <<shared, sent, pushed, service, tables>>

----------------------------------------------------------------------------
(* The client's thread readTask                                            *)

\* recv returns one whole answer.
Recv ==
  /\ main # "gone" /\ reader = "recv" /\ toClient # <<>>
  /\ LET m == Head(toClient) IN
       /\ answer' = m
       /\ reader' = CASE m.msgid = "CHAT" -> "recv"
                      [] m.msgid = "LOGIN_MSG_ACK" /\ m.id # NoId -> "login"
                      [] OTHER -> "post"
       /\ g_isLoginSuccess' =
            IF m.msgid = "LOGIN_MSG_ACK" /\ m.id = NoId THEN FALSE
                                                        ELSE g_isLoginSuccess
  /\ toClient' = Tail(toClient)
  /\ UNCHANGED <<main, g_currentUser, lists, rwsem, toServer, sent, pushed,
                 service, tables>>

\* doLoginResponse: a list is cleared only if the answer has a new one.
DoLoginResponse ==
  /\ reader = "login"
  /\ g_currentUser' = answer.id
  /\ lists' = [l \in ListNames |-> IF l \in answer.arg THEN answer.id ELSE lists[l]]
  /\ g_isLoginSuccess' = TRUE
  /\ reader' = "post"
  /\ UNCHANGED <<main, rwsem, answer, wire, service, tables>>

Post ==
  /\ reader = "post"
  /\ rwsem' = rwsem + 1
  /\ reader' = "recv"
  /\ answer' = Nothing
  /\ UNCHANGED <<main, g_currentUser, lists, g_isLoginSuccess, wire, service,
                 tables>>

\* The process ends: recv returns 0 or -1, or what it returns is not one
\* whole answer.
RecvFails ==
  /\ main # "gone" /\ reader = "recv"
  /\ \/ ~alive
     \/ "merge" \in Wire /\ Len(toClient) > 1
     \/ "split" \in Wire /\ toClient # <<>>
  /\ Quit

----------------------------------------------------------------------------
(* The server's end                                                        *)

\* onMessage handles the first request of a read and ignores the others; the last
\* may have arrived without its end.
Read(r) ==
  /\ alive /\ conn = "open" /\ handler = "idle"
  /\ toServer # <<>> /\ r = Head(toServer)
  /\ \E n \in 1..Len(toServer) :
       /\ n = 1 \/ "merge" \in Wire
       /\ ignored' = ignored \cup {toServer[i].msgid : i \in 2..n}
       /\ \E rest \in {<<>>} \cup {<<Rest>> : w \in Wire \cap {"split"}} :
            toServer' = rest \o SubSeq(toServer, n + 1, Len(toServer))

\* conn->send; nobody is there to receive it once the client has gone.
Reply(m) == toClient' = IF main = "gone" THEN toClient ELSE Append(toClient, m)

\* An answer has no list of what the user has none of.
ListsOf(u) == {l \in ListNames : IF l = "friends" THEN FriendsOf(u) # {}
                                                 ELSE GroupsOf(u) # {}}

\* A user that is online, here or on another connection, is refused with
\* LOGIN_MSG_ACK; one that is not found or has another password with
\* REG_MSG_ACK.
HandleLogin(u) ==
  /\ Read(Message("LOGIN_MSG", u, NoId))
  /\ \/ /\ u \in user \ entries
        /\ entries' = entries \cup {u}
        /\ handler' = "login" /\ id' = u
        /\ UNCHANGED toClient
     \/ /\ u \in user /\ Reply(Message("LOGIN_MSG_ACK", NoId, {}))
        /\ UNCHANGED <<entries, handler, id>>
     \/ /\ Reply(Message("REG_MSG_ACK", NoId, {}))
        /\ UNCHANGED <<entries, handler, id>>
  /\ UNCHANGED <<process, sent, pushed, alive, conn, gid, tables>>

\* The answer follows when the database has been asked for messages, friends and
\* groups; chat messages may be sent to the client before it.
LoginAck ==
  /\ alive /\ handler = "login"
  /\ Reply(Message("LOGIN_MSG_ACK", id, ListsOf(id)))
  /\ handler' = "idle" /\ id' = NoId
  /\ UNCHANGED <<process, toServer, sent, pushed, alive, conn, entries, gid, ignored,
                 tables>>

HandleReg ==
  /\ Read(Message("REG_MSG", NoId, NoId))
  /\ \E new \in Ids :
       /\ InsertUser(new)
       /\ Reply(Message("REG_MSG_ACK", new, {}))
  /\ UNCHANGED <<process, sent, pushed, alive, conn, entries, handler, id, gid,
                 friend, allgroup, groupuser, sqlFailed>>

\* oneChat and groupChat: nothing comes back on this connection.
HandleChat(u) ==
  /\ Read(Message("CHAT", u, NoId))
  /\ UNCHANGED <<process, toClient, sent, pushed, alive, conn, entries, handler, id,
                 gid, tables>>

HandleAddFriend(u, f) ==
  /\ Read(Message("ADD_FRIEND_MSG", u, f))
  /\ InsertFriend(u, f)
  /\ UNCHANGED <<process, toClient, sent, pushed, alive, conn, entries, handler, id,
                 gid, user, allgroup, groupuser, sqlFailed>>

HandleCreateGroup(u) ==
  /\ Read(Message("CREATE_GROUP_MSG", u, NoId))
  /\ \E g \in GroupIds \cup {NoId} :
       /\ InsertGroup(g)
       /\ IF g # NoId THEN handler' = "creator" /\ id' = u /\ gid' = g
                      ELSE UNCHANGED <<handler, id, gid>>
  /\ UNCHANGED <<process, toClient, sent, pushed, alive, conn, entries,
                 user, friend, groupuser, sqlFailed>>

AddCreator ==
  /\ alive /\ handler = "creator"
  /\ AddMember(id, gid, "creator")
  /\ handler' = "idle" /\ id' = NoId /\ gid' = NoId
  /\ UNCHANGED <<process, wire, alive, conn, entries, ignored, user, friend,
                 allgroup>>

\* Mistakes: a logout or a close that leaves the entry in the map.
LoginoutKeepsEntry(u) ==
  /\ Read(Message("LOGINOUT_MSG", u, NoId))
  /\ UNCHANGED <<process, toClient, sent, pushed, alive, conn, entries, handler, id,
                 gid, tables>>

CloseKeepsEntry ==
  /\ alive /\ conn = "open" /\ handler = "idle"
  /\ main = "gone" /\ toServer = <<>>
  /\ conn' = "closed"
  /\ UNCHANGED <<process, wire, alive, entries, handler, id, gid, ignored, tables>>

\* The entry of "id" is erased and its user set offline.
HandleLoginout(u) ==
  /\ Read(Message("LOGINOUT_MSG", u, NoId))
  /\ entries' = entries \ {u}
  /\ UNCHANGED <<process, toClient, sent, pushed, alive, conn, handler, id, gid,
                 tables>>

\* The server sees the end of the connection: clientCloseException erases one
\* entry that holds it and sets its user offline.
HandleClose ==
  /\ alive /\ conn = "open" /\ handler = "idle"
  /\ main = "gone" /\ toServer = <<>>
  /\ conn' = "closed"
  /\ \/ \E u \in entries : entries' = entries \ {u}
     \/ entries = {} /\ UNCHANGED entries
  /\ UNCHANGED <<process, wire, alive, handler, id, gid, ignored, tables>>

\* Another handler sends a chat message to the user of an entry.
Push ==
  /\ alive /\ conn = "open" /\ entries # {} /\ main # "gone"
  /\ pushed < MaxPushed /\ pushed' = pushed + 1
  /\ Reply(Nothing)
  /\ UNCHANGED <<process, toServer, sent, service, tables>>

\* What another client does to the tables.
OtherCreatesGroup(u) ==
  /\ u \in user
  /\ \E g \in GroupIds :
       /\ g = NewId(allgroup)
       /\ allgroup' = allgroup \cup {g}
       /\ groupuser' = groupuser \cup {<<u, g, "creator">>}
  /\ UNCHANGED <<process, wire, service, user, friend, sqlFailed>>

Stops ==
  /\ alive' = FALSE
  /\ toServer' = <<>>
  /\ UNCHANGED <<process, toClient, sent, pushed, conn, entries, handler, id, gid,
                 ignored, tables>>

\* An exception nobody catches: the text read is not whole, or it has no
\* "friendid".
Throws ==
  /\ alive /\ conn = "open" /\ handler = "idle" /\ toServer # <<>>
  /\ \/ "split" \in Wire
     \/ Head(toServer).msgid = "REST"
     \/ Head(toServer).msgid = "ADD_FRIEND_MSG" /\ Head(toServer).arg = NoId
  /\ Stops

\* It stops for another reason, in the middle of a handler or not.
ServerExit == alive /\ Stops

----------------------------------------------------------------------------

MainSends ==
  ResetLogin \/ SendReg \/ Commands \/ Loginout \/ \E u \in UserIds : SendLogin(u)

ReadTask == Recv \/ DoLoginResponse \/ Post \/ RecvFails

ServerReads ==
  \/ HandleReg \/ HandleClose \/ Throws
  \/ \E u \in UserIds : \/ HandleLogin(u) \/ HandleChat(u) \/ HandleCreateGroup(u)
                        \/ HandleLoginout(u)
                        \/ \E f \in UserIds : HandleAddFriend(u, f)

ServerStep == ServerReads \/ LoginAck \/ AddCreator

Next ==
  \/ MainSends \/ Wake \/ Quit \/ ReadTask
  \/ ServerStep \/ Push \/ ServerExit
  \/ \E u \in UserIds : OtherCreatesGroup(u)

Spec == Init /\ [][Next]_vars

\* Threads that can go on do so.  Whoever sits at the keyboard owes nothing.
FairSpec == Spec /\ WF_vars(Wake) /\ WF_vars(ReadTask) /\ WF_vars(ServerStep)

(***************************************************************************)
(* Properties                                                              *)
(***************************************************************************)

\* The places where the answer to a login or registration can be: not asked for
\* yet, being worked out, on its way, being read, or posted.
Pending ==
  {<<"toServer", i>> : i \in {j \in 1..Len(toServer) :
                                toServer[j].msgid \in {"LOGIN_MSG", "REG_MSG"}}}
    \cup {<<"handler", 1>> : h \in {handler} \cap {"login"}}
    \cup {<<"toClient", i>> : i \in {j \in 1..Len(toClient) :
                                       toClient[j].msgid # "CHAT"}}
    \cup {<<"reader", 1>> : r \in {reader} \cap {"login", "post"}}
    \cup {<<"rwsem", i>> : i \in 1..rwsem}

\* The semaphore fits the protocol: while the main thread waits for an answer, one
\* and no more is pending, unless the server has ignored the request or stopped;
\* and none is while it does not wait, so that readTask never writes the user
\* while the main menu reads it, nor does a stray post end a later wait.
AnswerAwaited ==
  main # "gone" =>
    IF main \in Awaiting
    THEN \/ Cardinality(Pending) = 1
         \/ Pending = {} /\ (ignored \cap {"LOGIN_MSG", "REG_MSG"} # {} \/ ~alive)
    ELSE Pending = {}

\* Whoever is in the main menu is the user the server takes the connection for,
\* also after logins that failed, one way or the other.
SpeaksForUser == main = "chat" /\ alive => g_currentUser \in entries

\* What Chatservice assumes of its clients: a command is handled for a user that
\* is logged in on the connection, and a login when nobody is - unless the
\* server has ignored a logout.
RequestsFit ==
  alive /\ handler = "idle" /\ toServer # <<>> =>
    LET r == Head(toServer) IN
    /\ r.msgid \in UserCommands => r.id \in entries
    /\ r.msgid = "LOGIN_MSG" => entries = {} \/ "LOGINOUT_MSG" \in ignored

\* A closed connection leaves no entry behind, although only one is looked for,
\* unless the server has ignored a logout.
ClosedLeavesNothing ==
  alive /\ conn = "closed" => entries = {} \/ "LOGINOUT_MSG" \in ignored

\* Group and creator are two statements: others may create groups in between,
\* and still no group gets two creators; it has none only while its handler runs,
\* after a failed insert, or when the server has stopped.
GroupHasItsCreator ==
  \A g \in allgroup :
    \/ Cardinality(Creators(g)) = 1
    \/ /\ Creators(g) = {}
       /\ gid = g \/ sqlFailed \/ ~alive

\* A wait for an answer ends, also when the server stops, unless the server has
\* ignored the request.
AnswerComes ==
  main \in Awaiting ~>
    main \notin Awaiting \/ ignored \cap {"LOGIN_MSG", "REG_MSG"} # {}

\* "记录当前登录的用户的好友列表信息" (main.cpp:30), and the same of groups (:32):
\* the lists are those of the user who is logged in.
ListsAreCurrent ==
  main = "chat" => \A l \in ListNames : lists[l] \in {NoId, g_currentUser}
============================================================================
