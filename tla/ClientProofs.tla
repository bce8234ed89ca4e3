---------------------------- MODULE ClientProofs ----------------------------
(***************************************************************************)
(* Safety of Client for any number of users, groups and messages, and      *)
(* whatever a read returns.  The inductive invariant has four parts: types *)
(* and the order of requests; in which of its stages the answer to a login *)
(* or registration is; where the client's user is known; and which map     *)
(* entries a connection has.  A fifth, about groups, stands alone.         *)
(***************************************************************************)
EXTENDS Client, SequenceTheorems, FiniteSetTheorems, TLAPS

----------------------------------------------------------------------------
(* The inductive invariant                                                 *)

Ask == {"LOGIN_MSG", "REG_MSG"}
Ack == {"LOGIN_MSG_ACK", "REG_MSG_ACK"}

Carries(q, kinds) == \E i \in 1..Len(q) : q[i].msgid \in kinds
Asked == Carries(toServer, Ask)
Answered == Carries(toClient, Ack)
Success(m) == m.msgid = "LOGIN_MSG_ACK" /\ m.id # NoId
Succeeded == \E i \in 1..Len(toClient) : Success(toClient[i])

\* The locals of a handler are set while it may use them.
LocalsOK ==
  /\ handler # "idle" => id \in UserIds
  /\ handler = "creator" => gid \in GroupIds

\* A client that waits sends nothing, so what it waits for is the last request;
\* a logout is the last command.
Ordered(q) ==
  \A i, j \in 1..Len(q) : i < j =>
    /\ q[i].msgid \notin Ask
    /\ q[i].msgid = "LOGINOUT_MSG" => q[j].msgid \notin UserCommands

OneAnswer(q) ==
  \A i, j \in 1..Len(q) : q[i].msgid \in Ack /\ q[j].msgid \in Ack => i = j

\* Nothing is on its way to a process that is gone.
QueueOK ==
  /\ ~alive => toServer = <<>>
  /\ main = "gone" => toClient = <<>> /\ reader = "recv"
  /\ main = "chat" => ~Carries(toServer, {"LOGINOUT_MSG"})
  /\ Ordered(toServer)

\* An answer is in one of five stages while the main thread waits for it, and
\* in none while it does not.
StageOK ==
  main # "gone" =>
    /\ OneAnswer(toClient)
    /\ rwsem \in {0, 1}
    /\ Asked => /\ main \in Awaiting /\ handler # "login" /\ ~Answered
                /\ reader = "recv" /\ rwsem = 0
    /\ handler = "login" => /\ main \in Awaiting /\ ~Answered
                            /\ reader = "recv" /\ rwsem = 0
    /\ Answered => main \in Awaiting /\ reader = "recv" /\ rwsem = 0
    /\ reader # "recv" => main \in Awaiting /\ rwsem = 0
    /\ rwsem = 1 => main \in Awaiting
    /\ main \in Awaiting =>
         \/ Asked \/ handler = "login" \/ Answered \/ reader # "recv" \/ rwsem = 1
         \/ ignored \cap Ask # {} \/ ~alive
    /\ main \in Awaiting /\ ~Asked => ~Carries(toServer, UserCommands)

StageInv == TypeOK /\ LocalsOK /\ QueueOK /\ StageOK

\* A login is under way.
LoggingIn ==
  Carries(toServer, {"LOGIN_MSG"}) \/ handler = "login" \/ Succeeded \/ reader = "login"

\* The flag is down until the login that is waited for has succeeded.
FlagOK ==
  main # "gone" =>
    /\ LoggingIn => main = "waitLogin"
    /\ main = "login" => ~g_isLoginSuccess
    /\ main = "waitLogin" /\ g_isLoginSuccess =>
         ~Asked /\ handler # "login" /\ ~Answered /\ reader # "login"

\* Whom the client, its requests and the answers on their way speak for has
\* an entry.
UserOK ==
  alive =>
    /\ handler = "login" => id \in entries
    /\ \A i \in 1..Len(toClient) : Success(toClient[i]) => toClient[i].id \in entries
    /\ reader = "login" => Success(answer) /\ answer.id \in entries
    /\ main = "waitLogin" /\ g_isLoginSuccess => g_currentUser \in entries
    /\ main = "chat" => g_currentUser \in entries
    /\ \A i \in 1..Len(toServer) : toServer[i].msgid \in UserCommands =>
         toServer[i].id = g_currentUser /\ g_currentUser \in entries

UserInv == StageInv /\ FlagOK /\ UserOK

\* The client knows, or will, that a login was successful.
Known ==
  \/ main = "chat" \/ handler = "login" \/ Succeeded \/ reader = "login"
  \/ main = "waitLogin" /\ g_isLoginSuccess

\* Unless a logout has been ignored, the connection has one entry at most, and
\* while the client runs it is in use or about to be erased.
EntryOK ==
  alive /\ "LOGINOUT_MSG" \notin ignored =>
    /\ \A u, v \in entries : u = v
    /\ conn = "closed" => entries = {}
    /\ Carries(toServer, {"LOGIN_MSG"}) /\ entries # {} =>
         Carries(toServer, {"LOGINOUT_MSG"})
    /\ main # "gone" /\ entries # {} => Known \/ Carries(toServer, {"LOGINOUT_MSG"})

EntryInv == UserInv /\ EntryOK

\* Ids of groups are given out in order; the group whose creator is being added
\* has none yet, and no other group lacks its creator without a reason.
GroupOK ==
  /\ allgroup = 1..Cardinality(allgroup)
  /\ \A g \in GroupIds : Creators(g) # {} => g \in allgroup
  /\ \A g \in GroupIds : \A u, v \in Creators(g) : u = v
  /\ gid # NoId => handler = "creator" /\ gid \in allgroup /\ Creators(gid) = {}
  /\ \A g \in allgroup : Creators(g) # {} \/ gid = g \/ sqlFailed \/ ~alive

GroupInv == TypeOK /\ LocalsOK /\ GroupOK

----------------------------------------------------------------------------
(* Queues                                                                  *)

USE DEF shared, process, wire, service, tables, vars

LEMMA Constants == NoId \notin UserIds \cup GroupIds /\ UserIds \subseteq Nat /\ GroupIds \subseteq Nat
BY AccountsAssumption DEF UserIds, GroupIds

\* A read takes the first request; of the others it ignores some and leaves the
\* rest, in order, perhaps behind the tail of the last one.
LEMMA ReadQueue ==
  ASSUME TypeOK, NEW r, Read(r)
  PROVE  /\ toServer # <<>> /\ r = toServer[1]
         /\ toServer' \in Seq(Requests)
         /\ \E n \in 1..Len(toServer), k \in {0, 1} :
              /\ ignored' = ignored \cup {toServer[i].msgid : i \in 2..n}
              /\ Len(toServer') = k + Len(toServer) - n
              /\ \A i \in 1..Len(toServer') :
                   toServer'[i] = IF i <= k THEN Rest ELSE toServer[i - k + n]
<1>1. PICK n \in 1..Len(toServer) :
        /\ ignored' = ignored \cup {toServer[i].msgid : i \in 2..n}
        /\ \E rest \in {<<>>} \cup {<<Rest>> : w \in Wire \cap {"split"}} :
             toServer' = rest \o SubSeq(toServer, n + 1, Len(toServer))
  BY DEF Read
<1>2. PICK rest \in {<<>>, <<Rest>>} :
        toServer' = rest \o SubSeq(toServer, n + 1, Len(toServer))
  BY <1>1
<1>3. toServer \in Seq(Requests) /\ toServer # <<>> /\ r = toServer[1] /\ Rest \in Requests
  BY Constants DEF TypeOK, Read, Rest, Message, Requests, Ids
<1> DEFINE left == SubSeq(toServer, n + 1, Len(toServer))
<1>4. /\ left \in Seq(Requests)
      /\ Len(left) = Len(toServer) - n
      /\ \A i \in 1..Len(left) : left[i] = toServer[i + n]
  BY <1>3
<1>5. Len(toServer) \in Nat /\ n \in Nat /\ Len(left) \in Nat
  BY <1>3, <1>4
<1> HIDE DEF left
<1>6. CASE rest = <<>>
  <2>1. toServer' = left
    BY <1>2, <1>4, <1>6, ConcatEmptySeq DEF left
  <2>2. /\ Len(toServer') = 0 + Len(toServer) - n
        /\ \A i \in 1..Len(toServer') :
             toServer'[i] = IF i <= 0 THEN Rest ELSE toServer[i - 0 + n]
    BY <1>4, <1>5, <2>1
  <2>3. QED
    BY <1>1, <1>3, <1>4, <2>1, <2>2
<1>7. CASE rest = <<Rest>>
  <2>1. rest \in Seq(Requests) /\ Len(rest) = 1 /\ rest[1] = Rest
    BY <1>3, <1>7
  <2>a. toServer' = rest \o left
    BY <1>2 DEF left
  <2>b. /\ rest \o left \in Seq(Requests)
        /\ Len(rest \o left) = Len(rest) + Len(left)
        /\ \A i \in 1..Len(rest) + Len(left) :
             (rest \o left)[i] = IF i <= Len(rest) THEN rest[i] ELSE left[i - Len(rest)]
    <3>1. rest \in Seq(Requests) /\ left \in Seq(Requests)
      BY <1>4, <2>1
    <3>2. QED
      BY <3>1, ConcatProperties, Zenon
  <2>c. toServer' \in Seq(Requests) /\ Len(toServer') = 1 + Len(left)
    BY <2>1, <2>a, <2>b
  <2>d. \A i \in 1..Len(toServer') :
          toServer'[i] = IF i <= 1 THEN rest[i] ELSE left[i - 1]
    BY <2>1, <2>a, <2>b, <2>c
  <2>2. /\ toServer' \in Seq(Requests)
        /\ Len(toServer') = 1 + Len(left)
        /\ \A i \in 1..Len(toServer') :
             toServer'[i] = IF i <= 1 THEN Rest ELSE left[i - 1]
    <3>1. \A i \in 1..Len(toServer') : i <= 1 => i = 1
      BY <1>5, <2>c
    <3>2. QED
      BY <2>1, <2>c, <2>d, <3>1
  <2>3. \A i \in 1..Len(toServer') : ~(i <= 1) => left[i - 1] = toServer[i - 1 + n]
    <3>1. SUFFICES ASSUME NEW i \in 1..Len(toServer'), ~(i <= 1)
                   PROVE  left[i - 1] = toServer[i - 1 + n]
      OBVIOUS
    <3>2. i - 1 \in 1..Len(left)
      BY <1>5, <2>2, <3>1
    <3>3. QED
      BY <1>4, <3>2
  <2>4. QED
    BY <1>1, <1>3, <1>4, <1>5, <2>2, <2>3
<1>8. QED
  BY <1>2, <1>6, <1>7

----------------------------------------------------------------------------
(* Types                                                                   *)

\* Requests from the main menu other than a logout.
Commanded ==
  {r \in Requests : /\ r.msgid \in UserCommands \ {"LOGINOUT_MSG"}
                    /\ r.id = g_currentUser}

\* Next, with the actions that share their effect put together.
LEMMA NextCases ==
  ASSUME TypeOK, Next
  PROVE  \/ ResetLogin \/ SendReg \/ Loginout \/ Wake \/ Quit
         \/ Recv \/ DoLoginResponse \/ Post
         \/ HandleReg \/ HandleClose \/ LoginAck \/ AddCreator \/ Push
         \/ alive /\ Stops
         \/ \E r \in Commanded : Command(r)
         \/ \E u \in UserIds :
              \/ SendLogin(u) \/ HandleLogin(u) \/ HandleChat(u)
              \/ HandleCreateGroup(u) \/ HandleLoginout(u) \/ OtherCreatesGroup(u)
              \/ \E f \in UserIds : HandleAddFriend(u, f)
<1>1. Commands => \E r \in Commanded : Command(r)
  <2>1. \A f \in UserIds \cup {NoId} :
          /\ Message("CHAT", g_currentUser, NoId) \in Commanded
          /\ Message("ADD_FRIEND_MSG", g_currentUser, f) \in Commanded
          /\ Message("CREATE_GROUP_MSG", g_currentUser, NoId) \in Commanded
    BY DEF TypeOK, Commanded, Message, Requests, UserCommands, Ids
  <2>2. QED
    BY <2>1 DEF Commands
<1>2. QED
  BY <1>1 DEF Next, MainSends, ReadTask, RecvFails, ServerStep, ServerReads, Throws,
              ServerExit

LEMMA MessageTypes ==
  /\ \A k \in UserCommands \cup Ask \cup {"REST"}, u \in Ids, x \in Ids :
       Message(k, u, x) \in Requests
  /\ \A k \in Ack \cup {"CHAT"}, u \in Ids, x \in SUBSET ListNames :
       Message(k, u, x) \in Answers
  /\ Rest \in Requests /\ Nothing \in Answers
BY DEF Message, Requests, Answers, Ask, Ack, Rest, Nothing, Ids

LEMMA SendType ==
  ASSUME TypeOK, NEW r \in Requests, Send(r)
  PROVE  /\ toServer' \in Seq(Requests) /\ sent' \in 0..MaxSent
         /\ UNCHANGED <<toClient, pushed>>
BY WireAssumption DEF TypeOK, Send

LEMMA ReplyType ==
  ASSUME TypeOK, NEW m \in Answers, Reply(m)
  PROVE  toClient' \in Seq(Answers)
BY DEF TypeOK, Reply

LEMMA ReadType ==
  ASSUME TypeOK, NEW r, Read(r)
  PROVE  /\ r \in Requests /\ r = toServer[1]
         /\ toServer' \in Seq(Requests)
         /\ ignored' \subseteq UserCommands \cup {"LOGIN_MSG", "REG_MSG", "REST"}
<1>1. \A i \in 1..Len(toServer) :
        /\ toServer[i] \in Requests
        /\ toServer[i].msgid \in UserCommands \cup {"LOGIN_MSG", "REG_MSG", "REST"}
  <2>1. \A i \in 1..Len(toServer) : toServer[i] \in Requests
    BY DEF TypeOK
  <2>2. \A q \in Requests : q.msgid \in UserCommands \cup {"LOGIN_MSG", "REG_MSG", "REST"}
    BY DEF Requests
  <2>3. QED
    BY <2>1, <2>2
<1>2. PICK n \in 1..Len(toServer) :
        ignored' = ignored \cup {toServer[i].msgid : i \in 2..n}
  BY ReadQueue
<1>3. n \in Nat /\ Len(toServer) \in Nat
  BY DEF TypeOK
<1>4. \A i \in 2..n : i \in 1..Len(toServer)
  BY <1>3
<1>5. ignored' \subseteq UserCommands \cup {"LOGIN_MSG", "REG_MSG", "REST"}
  BY <1>1, <1>2, <1>4 DEF TypeOK
<1>6. 1 \in 1..Len(toServer)
  BY <1>3
<1>7. QED
  BY <1>1, <1>5, <1>6, ReadQueue

\* Messages stay whole: what is known of their parts is in the lemmas above.
USE DEF Awaiting, Ids, ListNames

LEMMA TypeInit == Init => TypeOK /\ LocalsOK
<1> SUFFICES ASSUME Init PROVE TypeOK /\ LocalsOK
  OBVIOUS
<1>1. TablesOK
  <2>1. 1..Registered \subseteq UserIds
    BY AccountsAssumption DEF UserIds
  <2>2. QED
    BY <2>1 DEF Init, TablesInit, TablesOK
<1>2. toServer \in Seq(Requests) /\ toClient \in Seq(Answers)
  BY DEF Init
<1>3. lists \in [ListNames -> Ids] /\ answer \in Answers /\ 0 \in 0..MaxSent /\ 0 \in 0..MaxPushed
  BY MessageTypes, WireAssumption DEF Init
<1>4. LocalsOK
  BY DEF Init, LocalsOK
<1>5. QED
  BY <1>1, <1>2, <1>3, <1>4 DEF Init, TypeOK

LEMMA TypeNext == TypeOK /\ LocalsOK /\ [Next]_vars => TypeOK' /\ LocalsOK'
<1> SUFFICES ASSUME TypeOK, LocalsOK, [Next]_vars PROVE TypeOK' /\ LocalsOK'
  OBVIOUS
<1> USE Constants DEF TypeOK, LocalsOK, TablesOK
<1>1. ASSUME ResetLogin PROVE TypeOK' /\ LocalsOK'
  BY <1>1 DEF ResetLogin
<1>2. ASSUME NEW u \in UserIds, SendLogin(u) PROVE TypeOK' /\ LocalsOK'
  <2>1. Message("LOGIN_MSG", u, NoId) \in Requests
    BY MessageTypes DEF Ask
  <2>2. toServer' \in Seq(Requests) /\ sent' \in 0..MaxSent
        /\ UNCHANGED <<toClient, pushed>>
    BY <1>2, <2>1, SendType DEF SendLogin
  <2>3. QED
    BY <1>2, <2>2 DEF SendLogin
<1>3. ASSUME SendReg PROVE TypeOK' /\ LocalsOK'
  <2>1. Message("REG_MSG", NoId, NoId) \in Requests
    BY MessageTypes DEF Ask
  <2>2. toServer' \in Seq(Requests) /\ sent' \in 0..MaxSent
        /\ UNCHANGED <<toClient, pushed>>
    BY <1>3, <2>1, SendType DEF SendReg
  <2>3. QED
    BY <1>3, <2>2 DEF SendReg
<1>4. ASSUME Wake PROVE TypeOK' /\ LocalsOK'
  BY <1>4 DEF Wake
<1>5. ASSUME NEW r \in Commanded, Command(r) PROVE TypeOK' /\ LocalsOK'
  <2>1. r \in Requests
    BY DEF Commanded
  <2>2. toServer' \in Seq(Requests) /\ sent' \in 0..MaxSent
        /\ UNCHANGED <<toClient, pushed>>
    BY <1>5, <2>1, SendType DEF Command
  <2>3. QED
    BY <1>5, <2>2 DEF Command
<1>6. ASSUME Loginout PROVE TypeOK' /\ LocalsOK'
  <2>1. Message("LOGINOUT_MSG", g_currentUser, NoId) \in Requests
    BY MessageTypes DEF UserCommands
  <2>2. toServer' \in Seq(Requests) /\ sent' \in 0..MaxSent
        /\ UNCHANGED <<toClient, pushed>>
    BY <1>6, <2>1, SendType DEF Loginout
  <2>3. QED
    BY <1>6, <2>2 DEF Loginout
<1>7. ASSUME Quit PROVE TypeOK' /\ LocalsOK'
  <2>1. PICK n \in 0..Len(toServer) : toServer' = SubSeq(toServer, 1, n)
    BY <1>7 DEF Quit
  <2>2. toServer' \in Seq(Requests) /\ toClient' \in Seq(Answers)
    BY <1>7, <2>1 DEF Quit
  <2>3. QED
    BY <1>7, <2>2, MessageTypes DEF Quit
<1>8. ASSUME Recv PROVE TypeOK' /\ LocalsOK'
  <2>1. answer' \in Answers /\ toClient' \in Seq(Answers)
    BY <1>8 DEF Recv
  <2>2. QED
    BY <1>8, <2>1 DEF Recv
<1>9. ASSUME DoLoginResponse PROVE TypeOK' /\ LocalsOK'
  <2>1. answer.id \in Ids
    BY DEF Answers
  <2>2. lists' \in [ListNames -> Ids]
    BY <1>9, <2>1 DEF DoLoginResponse
  <2>3. QED
    BY <1>9, <2>1, <2>2 DEF DoLoginResponse
<1>10. ASSUME Post PROVE TypeOK' /\ LocalsOK'
  BY <1>10, MessageTypes DEF Post
<1>11. ASSUME HandleReg PROVE TypeOK' /\ LocalsOK'
  <2>1. PICK new \in Ids : InsertUser(new) /\ Reply(Message("REG_MSG_ACK", new, {}))
    BY <1>11 DEF HandleReg
  <2>2. user' \subseteq UserIds
    BY <2>1 DEF InsertUser
  <2>3. toClient' \in Seq(Answers)
    BY <2>1, MessageTypes, ReplyType DEF Ack
  <2>4. QED
    BY <1>11, <2>2, <2>3, ReadType DEF HandleReg
<1>12. ASSUME HandleClose PROVE TypeOK' /\ LocalsOK'
  BY <1>12 DEF HandleClose
<1>13. ASSUME Stops PROVE TypeOK' /\ LocalsOK'
  <2>1. toServer' \in Seq(Requests)
    BY <1>13 DEF Stops
  <2>2. UNCHANGED <<process, toClient, sent, pushed, conn, entries, handler, id, gid,
                    ignored, tables>> /\ alive' \in BOOLEAN
    BY <1>13 DEF Stops
  <2>3. QED
    BY <2>1, <2>2
<1>14. ASSUME NEW u \in UserIds, HandleLogin(u) PROVE TypeOK' /\ LocalsOK'
  <2>1. /\ toServer' \in Seq(Requests)
        /\ ignored' \subseteq UserCommands \cup {"LOGIN_MSG", "REG_MSG", "REST"}
    BY <1>14, ReadType DEF HandleLogin
  <2>2. toClient' \in Seq(Answers)
    BY <1>14, MessageTypes, ReplyType DEF HandleLogin, Ack
  <2>3. /\ entries' \subseteq UserIds /\ handler' \in {"idle", "login", "creator"}
        /\ id' \in Ids /\ handler' # "idle" => id' \in UserIds
        /\ handler' = "creator" => handler = "creator"
    BY <1>14 DEF HandleLogin
  <2>4. QED
    BY <1>14, <2>1, <2>2, <2>3 DEF HandleLogin
<1>15. ASSUME NEW u \in UserIds, HandleChat(u) PROVE TypeOK' /\ LocalsOK'
  BY <1>15, ReadType DEF HandleChat
<1>16. ASSUME NEW u \in UserIds, HandleCreateGroup(u) PROVE TypeOK' /\ LocalsOK'
  <2>1. /\ toServer' \in Seq(Requests)
        /\ ignored' \subseteq UserCommands \cup {"LOGIN_MSG", "REG_MSG", "REST"}
    BY <1>16, ReadType DEF HandleCreateGroup
  <2>2. PICK g \in GroupIds \cup {NoId} :
          /\ InsertGroup(g)
          /\ IF g # NoId THEN handler' = "creator" /\ id' = u /\ gid' = g
                         ELSE UNCHANGED <<handler, id, gid>>
    BY <1>16 DEF HandleCreateGroup
  <2>3. allgroup' \subseteq GroupIds
    BY <2>2 DEF InsertGroup
  <2>4. QED
    BY <1>16, <2>1, <2>2, <2>3 DEF HandleCreateGroup
<1>17. ASSUME NEW u \in UserIds, HandleLoginout(u) PROVE TypeOK' /\ LocalsOK'
  BY <1>17, ReadType DEF HandleLoginout
<1>18. ASSUME NEW u \in UserIds, NEW f \in UserIds, HandleAddFriend(u, f)
       PROVE  TypeOK' /\ LocalsOK'
  <2>1. friend' \subseteq UserIds \X UserIds
    BY <1>18 DEF HandleAddFriend, InsertFriend
  <2>2. QED
    BY <1>18, <2>1, ReadType DEF HandleAddFriend
<1>19. ASSUME LoginAck PROVE TypeOK' /\ LocalsOK'
  <2>1. Message("LOGIN_MSG_ACK", id, ListsOf(id)) \in Answers
    BY MessageTypes DEF Ack, ListsOf
  <2>2. toClient' \in Seq(Answers)
    BY <1>19, <2>1, ReplyType DEF LoginAck
  <2>3. QED
    BY <1>19, <2>2 DEF LoginAck
<1>20. ASSUME AddCreator PROVE TypeOK' /\ LocalsOK'
  <2>1. <<id, gid, "creator">> \in UserIds \X GroupIds \X {"creator"}
    BY <1>20 DEF AddCreator
  <2>2. groupuser' \subseteq UserIds \X GroupIds \X {"creator"}
    BY <1>20, <2>1 DEF AddCreator, AddMember
  <2>3. sqlFailed' \in BOOLEAN
    BY <1>20 DEF AddCreator, AddMember
  <2>4. QED
    BY <1>20, <2>2, <2>3 DEF AddCreator
<1>21. ASSUME Push PROVE TypeOK' /\ LocalsOK'
  <2>1. toClient' \in Seq(Answers) /\ pushed' \in 0..MaxPushed
    BY <1>21, MessageTypes, ReplyType, WireAssumption DEF Push
  <2>2. QED
    BY <1>21, <2>1 DEF Push
<1>22. ASSUME NEW u \in UserIds, OtherCreatesGroup(u) PROVE TypeOK' /\ LocalsOK'
  <2>1. PICK g \in GroupIds : /\ allgroup' = allgroup \cup {g}
                              /\ groupuser' = groupuser \cup {<<u, g, "creator">>}
    BY <1>22 DEF OtherCreatesGroup
  <2>2. <<u, g, "creator">> \in UserIds \X GroupIds \X {"creator"}
    OBVIOUS
  <2>3. /\ allgroup' \subseteq GroupIds
        /\ groupuser' \subseteq UserIds \X GroupIds \X {"creator"}
    BY <2>1, <2>2
  <2>4. QED
    BY <1>22, <2>3 DEF OtherCreatesGroup
<1>23. ASSUME UNCHANGED vars PROVE TypeOK' /\ LocalsOK'
  BY <1>23
<1> HIDE DEF TypeOK, LocalsOK, TablesOK
<1>24. QED
  BY NextCases, <1>1, <1>2, <1>3, <1>4, <1>5, <1>6, <1>7, <1>8, <1>9, <1>10, <1>11,
     <1>12, <1>13, <1>14, <1>15, <1>16, <1>17, <1>18, <1>19, <1>20, <1>21, <1>22,
     <1>23

----------------------------------------------------------------------------
(* What the actions do to the queues                                       *)

Kinds == UserCommands \cup Ask

LEMMA CarriesAppend ==
  ASSUME NEW S, NEW q \in Seq(S), NEW r \in S, NEW K
  PROVE  Carries(Append(q, r), K) <=> Carries(q, K) \/ r.msgid \in K
BY DEF Carries

LEMMA CarriesTail ==
  ASSUME NEW S, NEW q \in Seq(S), q # <<>>, NEW K
  PROVE  /\ Carries(Tail(q), K) => Carries(q, K)
         /\ Carries(q, K) => Carries(Tail(q), K) \/ Head(q).msgid \in K
<1>1. /\ Len(Tail(q)) = Len(q) - 1 /\ Len(q) \in Nat \ {0}
      /\ \A i \in 1..Len(Tail(q)) : Tail(q)[i] = q[i + 1]
      /\ Head(q) = q[1]
  BY HeadTailProperties
<1>2. ASSUME NEW i \in 1..Len(Tail(q)), Tail(q)[i].msgid \in K
      PROVE  i + 1 \in 1..Len(q) /\ q[i + 1].msgid \in K
  BY <1>1, <1>2
<1>3. ASSUME NEW i \in 1..Len(q), q[i].msgid \in K, i # 1
      PROVE  i - 1 \in 1..Len(Tail(q)) /\ Tail(q)[i - 1].msgid \in K
  <2>1. i - 1 \in 1..Len(Tail(q))
    BY <1>1, <1>3
  <2>2. Tail(q)[i - 1] = q[i]
    BY <1>1, <2>1
  <2>3. QED
    BY <1>3, <2>1, <2>2
<1>4. QED
  BY <1>1, <1>2, <1>3 DEF Carries

\* The client sends: in order, if no answer is awaited and a command comes before
\* the logout.
LEMMA SendQueue ==
  ASSUME TypeOK, QueueOK, NEW r \in Requests, Send(r)
  PROVE  /\ \A K : Carries(toServer', K) <=> Carries(toServer, K) \/ (alive /\ r.msgid \in K)
         /\ ~alive => toServer' = <<>>
         /\ ~Asked /\ (r.msgid \in UserCommands => ~Carries(toServer, {"LOGINOUT_MSG"}))
              => Ordered(toServer')
         /\ \A i \in 1..Len(toServer') :
              toServer'[i] = r \/ \E j \in 1..Len(toServer) : toServer'[i] = toServer[j]
<1>1. toServer \in Seq(Requests)
  BY DEF TypeOK
<1>2. CASE ~alive
  BY <1>2 DEF Send, QueueOK, Carries
<1>3. CASE alive
  <2>1. toServer' = Append(toServer, r)
    BY <1>3 DEF Send
  <2>2. /\ Len(toServer') = Len(toServer) + 1 /\ Len(toServer) \in Nat
        /\ \A i \in 1..Len(toServer) : toServer'[i] = toServer[i]
        /\ toServer'[Len(toServer) + 1] = r
    BY <1>1, <2>1, AppendProperties
  <2>3. \A i \in 1..Len(toServer') : i \in 1..Len(toServer) \/ i = Len(toServer) + 1
    BY <2>2
  <2>4. ASSUME ~Asked, r.msgid \in UserCommands => ~Carries(toServer, {"LOGINOUT_MSG"})
        PROVE  Ordered(toServer')
    <3>1. SUFFICES ASSUME NEW i \in 1..Len(toServer'), NEW j \in 1..Len(toServer'), i < j
                   PROVE  /\ toServer'[i].msgid \notin Ask
                          /\ toServer'[i].msgid = "LOGINOUT_MSG" =>
                               toServer'[j].msgid \notin UserCommands
      BY DEF Ordered
    <3>2. i \in 1..Len(toServer) /\ toServer'[i] = toServer[i]
      BY <2>2, <2>3, <3>1
    <3>3. toServer'[i].msgid \notin Ask
      BY <2>4, <3>2 DEF Asked, Carries
    <3>4. CASE j = Len(toServer) + 1
      BY <2>2, <2>4, <3>2, <3>3, <3>4 DEF Carries
    <3>5. CASE j \in 1..Len(toServer)
      BY <2>2, <3>1, <3>2, <3>5 DEF QueueOK, Ordered
    <3>6. QED
      BY <2>3, <3>3, <3>4, <3>5
  <2>5. QED
    BY <1>1, <1>3, <2>1, <2>2, <2>3, <2>4, CarriesAppend
<1>4. QED
  BY <1>2, <1>3

\* The server reads: the order stays, what was behind a request for an answer,
\* and what is missing has been handled or ignored.
LEMMA ReadKinds ==
  ASSUME TypeOK, QueueOK, NEW r, Read(r)
  PROVE  /\ Carries(toServer, {r.msgid})
         /\ \A K \in SUBSET Kinds : Carries(toServer', K) => Carries(toServer, K)
         /\ \A K \in SUBSET Kinds :
              Carries(toServer, K) =>
                r.msgid \in K \/ Carries(toServer', K) \/ ignored' \cap K # {}
         /\ ignored \subseteq ignored'
         /\ Ordered(toServer')
         /\ r.msgid \in Ask => toServer = <<r>> /\ ~Carries(toServer', Kinds)
         /\ Asked /\ ~Asked' => ~Carries(toServer', Kinds)
         /\ r.msgid = "LOGINOUT_MSG" => ~Carries(toServer', UserCommands)
         /\ \A i \in 1..Len(toServer') :
              toServer'[i] = Rest \/ \E j \in 1..Len(toServer) : toServer'[i] = toServer[j]
<1>1. /\ toServer # <<>> /\ r = toServer[1] /\ toServer \in Seq(Requests)
      /\ toServer' \in Seq(Requests)
  BY ReadQueue DEF TypeOK
<1>2. PICK n \in 1..Len(toServer), k \in {0, 1} :
        /\ ignored' = ignored \cup {toServer[i].msgid : i \in 2..n}
        /\ Len(toServer') = k + Len(toServer) - n
        /\ \A i \in 1..Len(toServer') :
             toServer'[i] = IF i <= k THEN Rest ELSE toServer[i - k + n]
  BY ReadQueue
<1>3. /\ n \in Nat /\ k \in Nat /\ Len(toServer) \in Nat /\ 1 <= n /\ n <= Len(toServer)
      /\ Len(toServer') \in Nat
  BY <1>1, <1>2
<1>4. Rest.msgid \notin Kinds
  BY DEF Rest, Message, Kinds, UserCommands, Ask
<1>5. \A i \in 1..Len(toServer') :
        \/ toServer'[i] = Rest /\ i <= k
        \/ /\ i > k /\ i - k + n \in 2..Len(toServer)
           /\ toServer'[i] = toServer[i - k + n]
  BY <1>2, <1>3
<1>6. \A j \in n + 1..Len(toServer) :
        j - n + k \in 1..Len(toServer') /\ toServer'[j - n + k] = toServer[j]
  <2>1. SUFFICES ASSUME NEW j \in n + 1..Len(toServer)
                 PROVE  j - n + k \in 1..Len(toServer') /\ toServer'[j - n + k] = toServer[j]
    OBVIOUS
  <2>2. j - n + k \in 1..Len(toServer') /\ ~(j - n + k <= k)
    BY <1>2, <1>3, <2>1
  <2>3. (j - n + k) - k + n = j
    BY <1>3, <2>1
  <2>4. QED
    BY <1>2, <2>2, <2>3
<1>7. /\ 1 \in 1..Len(toServer) /\ \A j \in 2..Len(toServer) : j \in 1..Len(toServer)
      /\ Len(toServer) # 1 => 2 \in 1..Len(toServer)
  <2>1. \A l \in Nat : 1 <= l /\ l # 1 => 2 \in 1..l
    OBVIOUS
  <2>2. 1 <= Len(toServer)
    BY <1>3
  <2>3. QED
    BY <1>3, <2>1, <2>2
<1>8. \A K \in SUBSET Kinds : Carries(toServer', K) => Carries(toServer, K)
  BY <1>4, <1>5, <1>7 DEF Carries
<1>9. ASSUME NEW K \in SUBSET Kinds, Carries(toServer, K), r.msgid \notin K
      PROVE  Carries(toServer', K) \/ ignored' \cap K # {}
  <2>1. PICK j \in 1..Len(toServer) : toServer[j].msgid \in K
    BY <1>9 DEF Carries
  <2>2. CASE j \in 2..n
    BY <1>2, <2>1, <2>2
  <2>3. CASE j \in n + 1..Len(toServer)
    BY <1>6, <2>1, <2>3 DEF Carries
  <2>4. j # 1
    BY <1>1, <1>9, <2>1
  <2>5. QED
    BY <1>3, <2>1, <2>2, <2>3, <2>4
<1>10. Ordered(toServer')
  <2>1. SUFFICES ASSUME NEW i \in 1..Len(toServer'), NEW j \in 1..Len(toServer'), i < j
                 PROVE  /\ toServer'[i].msgid \notin Ask
                        /\ toServer'[i].msgid = "LOGINOUT_MSG" =>
                             toServer'[j].msgid \notin UserCommands
    BY DEF Ordered
  <2>2. CASE i <= k
    BY <1>4, <1>5, <2>2 DEF Kinds, UserCommands
  <2>3. CASE i > k
    <3>1. /\ i - k + n \in 1..Len(toServer) /\ toServer'[i] = toServer[i - k + n]
          /\ j - k + n \in 1..Len(toServer) /\ toServer'[j] = toServer[j - k + n]
          /\ i - k + n < j - k + n
      BY <1>3, <1>5, <1>7, <2>1, <2>3
    <3>2. QED
      BY <3>1 DEF QueueOK, Ordered
  <2>4. QED
    BY <1>3, <2>2, <2>3
<1>11. ASSUME r.msgid \in Ask PROVE toServer = <<r>> /\ ~Carries(toServer', Kinds)
  <2>1. Len(toServer) = 1
    BY <1>1, <1>7, <1>11 DEF QueueOK, Ordered
  <2>2. toServer = <<r>>
    BY <1>1, <2>1
  <2>3. QED
    BY <1>4, <1>5, <2>1, <2>2 DEF Carries
<1>12. ASSUME r.msgid = "LOGINOUT_MSG" PROVE ~Carries(toServer', UserCommands)
  <2>1. \A j \in 2..Len(toServer) : toServer[j].msgid \notin UserCommands
    BY <1>1, <1>3, <1>7, <1>12 DEF QueueOK, Ordered
  <2>2. QED
    BY <1>4, <1>5, <2>1 DEF Carries, Kinds
<1>13. \A i \in 1..Len(toServer') :
         toServer'[i] = Rest \/ \E j \in 1..Len(toServer) : toServer'[i] = toServer[j]
  BY <1>5, <1>7
<1>14. Carries(toServer, {r.msgid}) /\ ignored \subseteq ignored'
  BY <1>1, <1>2, <1>7 DEF Carries
<1>15. ASSUME Asked, ~Asked' PROVE ~Carries(toServer', Kinds)
  <2>1. PICK j \in 1..Len(toServer) : toServer[j].msgid \in Ask
    BY <1>15 DEF Asked, Carries
  <2>2. Len(toServer) \in 1..Len(toServer) /\ ~(j < Len(toServer))
    BY <1>3, <2>1 DEF QueueOK, Ordered
  <2>3. j \notin n + 1..Len(toServer)
    BY <1>6, <1>15, <2>1 DEF Asked, Carries
  <2>4. n = Len(toServer)
    BY <1>3, <2>2, <2>3
  <2>5. \A i \in 1..Len(toServer') : toServer'[i] = Rest
    BY <1>3, <1>5, <2>4
  <2>6. QED
    BY <1>4, <2>5 DEF Carries
<1>16. QED
  BY <1>8, <1>9, <1>10, <1>11, <1>12, <1>13, <1>14, <1>15

\* The server answers a client that is there.
LEMMA ReplyQueue ==
  ASSUME TypeOK, main # "gone", NEW m \in Answers, Reply(m)
  PROVE  /\ \A K : Carries(toClient', K) <=> Carries(toClient, K) \/ m.msgid \in K
         /\ OneAnswer(toClient) /\ (m.msgid \in Ack => ~Answered) => OneAnswer(toClient')
         /\ \A i \in 1..Len(toClient') :
              toClient'[i] = m \/ \E j \in 1..Len(toClient) : toClient'[i] = toClient[j]
<1>1. toClient \in Seq(Answers) /\ toClient' = Append(toClient, m)
  BY DEF TypeOK, Reply
<1>2. /\ Len(toClient') = Len(toClient) + 1 /\ Len(toClient) \in Nat
      /\ \A i \in 1..Len(toClient) : toClient'[i] = toClient[i]
      /\ toClient'[Len(toClient) + 1] = m
  BY <1>1, AppendProperties
<1>3. \A i \in 1..Len(toClient') : i \in 1..Len(toClient) \/ i = Len(toClient) + 1
  BY <1>2
<1>4. ASSUME OneAnswer(toClient), m.msgid \in Ack => ~Answered
      PROVE  OneAnswer(toClient')
  BY <1>2, <1>3, <1>4 DEF OneAnswer, Answered, Carries
<1>5. QED
  BY <1>1, <1>2, <1>3, <1>4, CarriesAppend

\* The client receives an answer.
LEMMA RecvQueue ==
  ASSUME TypeOK, Recv
  PROVE  /\ \A K : Carries(toClient', K) => Carries(toClient, K)
         /\ \A K : Carries(toClient, K) => Carries(toClient', K) \/ answer'.msgid \in K
         /\ answer'.msgid \in Ack \cup {"CHAT"}
         /\ answer'.msgid \in Ack => Answered
         /\ OneAnswer(toClient) => /\ OneAnswer(toClient')
                                   /\ answer'.msgid \in Ack => ~Carries(toClient', Ack)
         /\ \E i \in 1..Len(toClient) : answer' = toClient[i]
         /\ \A i \in 1..Len(toClient') : \E j \in 1..Len(toClient) : toClient'[i] = toClient[j]
<1>1. /\ toClient \in Seq(Answers) /\ toClient # <<>>
      /\ toClient' = Tail(toClient) /\ answer' = Head(toClient)
  BY DEF TypeOK, Recv
<1>2. /\ Len(toClient') = Len(toClient) - 1 /\ Len(toClient) \in Nat \ {0}
      /\ \A i \in 1..Len(toClient') : toClient'[i] = toClient[i + 1]
      /\ answer' = toClient[1] /\ answer' \in Answers
  BY <1>1, HeadTailProperties
<1>3. /\ 1 \in 1..Len(toClient)
      /\ \A i \in 1..Len(toClient') : i + 1 \in 1..Len(toClient) /\ i + 1 # 1
  BY <1>2
<1>4. answer'.msgid \in Ack \cup {"CHAT"}
  BY <1>2 DEF Answers, Ack
<1>5. answer'.msgid \in Ack => Answered
  BY <1>2, <1>3 DEF Answered, Carries
<1>6. ASSUME OneAnswer(toClient)
      PROVE  OneAnswer(toClient') /\ (answer'.msgid \in Ack => ~Carries(toClient', Ack))
  <2>1. OneAnswer(toClient')
    <3>1. SUFFICES ASSUME NEW i \in 1..Len(toClient'), NEW j \in 1..Len(toClient'),
                          toClient'[i].msgid \in Ack, toClient'[j].msgid \in Ack
                   PROVE  i = j
      BY DEF OneAnswer
    <3>2. i + 1 = j + 1
      BY <1>2, <1>3, <1>6, <3>1 DEF OneAnswer
    <3>3. QED
      BY <1>2, <3>2
  <2>2. QED
    BY <1>2, <1>3, <1>6, <2>1 DEF OneAnswer, Carries
<1>7. QED
  BY <1>1, <1>2, <1>3, <1>4, <1>5, <1>6, CarriesTail

\* The client is gone: the server may still read a prefix of what was sent.
LEMMA QuitQueue ==
  ASSUME TypeOK, QueueOK, Quit
  PROVE  /\ \A K : Carries(toServer', K) => Carries(toServer, K)
         /\ Asked' => toServer' = toServer
         /\ ~alive => toServer' = <<>>
         /\ Ordered(toServer')
         /\ \A i \in 1..Len(toServer') : \E j \in 1..Len(toServer) : toServer'[i] = toServer[j]
<1>1. toServer \in Seq(Requests) /\ Len(toServer) \in Nat
  BY DEF TypeOK
<1>2. PICK n \in 0..Len(toServer) : toServer' = SubSeq(toServer, 1, n)
  BY DEF Quit
<1>3. /\ Len(toServer') = n /\ n \in Nat /\ n <= Len(toServer)
      /\ \A i \in 1..n : toServer'[i] = toServer[i]
  BY <1>1, <1>2
<1>4. \A i \in 1..Len(toServer') : i \in 1..Len(toServer) /\ toServer'[i] = toServer[i]
  BY <1>1, <1>3
<1>5. ASSUME Asked' PROVE toServer' = toServer
  <2>1. PICK i \in 1..n : toServer[i].msgid \in Ask
    BY <1>3, <1>5 DEF Asked, Carries
  <2>2. Len(toServer) \in 1..Len(toServer) /\ i \in 1..Len(toServer) /\ ~(i < Len(toServer))
    BY <1>1, <1>3, <2>1 DEF QueueOK, Ordered
  <2>3. n = Len(toServer)
    BY <1>1, <1>3, <2>1, <2>2
  <2>4. QED
    BY <1>1, <1>2, <2>3
<1>6. Ordered(toServer')
  BY <1>4 DEF QueueOK, Ordered
<1>7. ASSUME ~alive PROVE toServer' = <<>>
  BY <1>2, <1>7 DEF QueueOK
<1>8. QED
  BY <1>4, <1>5, <1>6, <1>7 DEF Carries

----------------------------------------------------------------------------
(* The stages of an answer                                                 *)

LEMMA KindSets ==
  /\ Ask \in SUBSET Kinds /\ UserCommands \in SUBSET Kinds
  /\ {"LOGIN_MSG"} \in SUBSET Kinds /\ {"LOGINOUT_MSG"} \in SUBSET Kinds
  /\ Ask \cap UserCommands = {}
  /\ "LOGINOUT_MSG" \in UserCommands /\ "LOGIN_MSG" \in Ask /\ "REG_MSG" \in Ask
  /\ "CHAT" \in UserCommands /\ "ADD_FRIEND_MSG" \in UserCommands
  /\ "CREATE_GROUP_MSG" \in UserCommands
  /\ "CHAT" \notin Ack /\ "REG_MSG_ACK" \in Ack /\ "LOGIN_MSG_ACK" \in Ack
BY DEF Kinds, UserCommands, Ask, Ack

\* While the main thread does not wait, no answer is in any stage.
LEMMA NoStage ==
  ASSUME TypeOK, StageOK, main \notin Awaiting, main # "gone"
  PROVE  ~Asked /\ handler # "login" /\ ~Answered /\ reader = "recv" /\ rwsem = 0
BY DEF StageOK

LEMMA StageInit == Init => StageInv
<1> SUFFICES ASSUME Init PROVE StageInv
  OBVIOUS
<1>1. toServer = <<>> /\ toClient = <<>> /\ Len(toServer) = 0 /\ Len(toClient) = 0
  BY DEF Init
<1>2. (\A K : ~Carries(toServer, K)) /\ (\A K : ~Carries(toClient, K))
  BY <1>1 DEF Carries
<1>3. QueueOK
  BY <1>1, <1>2 DEF Init, QueueOK, Ordered
<1>4. StageOK
  BY <1>1, <1>2 DEF Init, StageOK, OneAnswer, Asked, Answered
<1>5. QED
  BY <1>3, <1>4, TypeInit DEF StageInv

\* Main sends a request: what it asks for becomes the answer it waits for.
LEMMA SendStage ==
  ASSUME TypeOK, QueueOK, StageOK, NEW r \in Requests, Send(r),
         UNCHANGED <<shared, reader, service>>,
         main \notin Awaiting \cup {"gone"}, main' # "gone",
         r.msgid \in Kinds,
         r.msgid \in Ask <=> main' \in Awaiting,
         r.msgid \in UserCommands => main = "chat",
         main' = "chat" => main = "chat" /\ (alive => r.msgid # "LOGINOUT_MSG")
  PROVE  QueueOK' /\ StageOK'
<1>1. ~Asked /\ handler # "login" /\ ~Answered /\ reader = "recv" /\ rwsem = 0
  BY NoStage
<1>2. /\ \A K : Carries(toServer', K) <=> Carries(toServer, K) \/ (alive /\ r.msgid \in K)
      /\ ~alive => toServer' = <<>>
      /\ ~Asked /\ (r.msgid \in UserCommands => ~Carries(toServer, {"LOGINOUT_MSG"}))
           => Ordered(toServer')
      /\ UNCHANGED toClient
  BY SendQueue, SendType
<1>3. Ordered(toServer')
  BY <1>1, <1>2 DEF QueueOK
<1>4. main' = "chat" => ~Carries(toServer', {"LOGINOUT_MSG"})
  BY <1>2 DEF QueueOK
<1>5. QueueOK'
  BY <1>2, <1>3, <1>4 DEF QueueOK
<1>6. ~Answered' /\ OneAnswer(toClient') /\ (Asked' => alive /\ r.msgid \in Ask)
  BY <1>1, <1>2 DEF Answered, Asked, StageOK
<1>7. main' \in Awaiting => Asked' \/ ~alive'
  BY <1>2 DEF Asked
<1>8. main' \in Awaiting /\ ~Asked' => ~Carries(toServer', UserCommands)
  <2>1. SUFFICES ASSUME ~alive, ~Asked' PROVE ~Carries(toServer', UserCommands)
    BY <1>7
  <2>2. Len(toServer') = 0
    BY <1>2, <2>1
  <2>3. QED
    BY <2>2 DEF Carries
<1>9. QED
  BY <1>1, <1>2, <1>5, <1>6, <1>7, <1>8 DEF StageOK

\* The server reads a request that is not answered with an Ack.
LEMMA ReadStage ==
  ASSUME TypeOK, QueueOK, StageOK, NEW r, Read(r), r.msgid \in UserCommands,
         UNCHANGED <<process, toClient, alive>>, handler' # "login"
  PROVE  QueueOK' /\ StageOK'
<1>1. /\ Asked' => Asked
      /\ Asked => Asked' \/ ignored' \cap Ask # {}
      /\ ignored \subseteq ignored'
      /\ Ordered(toServer')
      /\ Asked /\ ~Asked' => ~Carries(toServer', UserCommands)
      /\ Carries(toServer', UserCommands) => Carries(toServer, UserCommands)
      /\ Carries(toServer', {"LOGINOUT_MSG"}) => Carries(toServer, {"LOGINOUT_MSG"})
  <2>1. Carries(toServer', UserCommands) => Carries(toServer', Kinds)
    BY DEF Carries, Kinds
  <2>2. QED
    BY <2>1, ReadKinds, KindSets DEF Asked
<1>2. alive /\ handler = "idle"
  BY DEF Read
<1>3. QueueOK'
  BY <1>1, <1>2 DEF QueueOK
<1>4. Answered' <=> Answered
  BY DEF Answered
<1>5. QED
  BY <1>1, <1>2, <1>3, <1>4 DEF StageOK

\* The server reads a login or registration: its answer is in no stage then.
LEMMA ReadAsk ==
  ASSUME TypeOK, QueueOK, StageOK, NEW r, Read(r), r.msgid \in Ask
  PROVE  /\ alive /\ handler = "idle" /\ Asked
         /\ ~Asked' /\ ~Carries(toServer', UserCommands)
         /\ ~Carries(toServer', {"LOGINOUT_MSG"}) /\ Ordered(toServer')
         /\ main # "gone" =>
              main \in Awaiting /\ ~Answered /\ reader = "recv" /\ rwsem = 0
<1>1. /\ ~Carries(toServer', Kinds) /\ Ordered(toServer')
      /\ toServer = <<r>> /\ Carries(toServer, {r.msgid})
  BY ReadKinds
<1>2. Asked
  BY <1>1 DEF Carries, Asked
<1>3. ~Asked' /\ ~Carries(toServer', UserCommands) /\ ~Carries(toServer', {"LOGINOUT_MSG"})
  BY <1>1, KindSets DEF Carries, Asked
<1>4. QED
  BY <1>1, <1>2, <1>3 DEF Read, StageOK

\* It answers at once.
LEMMA ReadReplyStage ==
  ASSUME TypeOK, QueueOK, StageOK, NEW r, Read(r), r.msgid \in Ask,
         NEW m \in Answers, m.msgid \in Ack, Reply(m),
         UNCHANGED <<process, handler, alive>>
  PROVE  QueueOK' /\ StageOK'
<1>1. QueueOK'
  BY ReadAsk DEF QueueOK, Reply
<1>2. CASE main = "gone"
  BY <1>1, <1>2 DEF StageOK
<1>3. CASE main # "gone"
  <2>1. OneAnswer(toClient') /\ Answered'
    BY <1>3, ReadAsk, ReplyQueue DEF StageOK, Answered
  <2>2. QED
    BY <1>1, <1>3, <2>1, ReadAsk DEF StageOK
<1>4. QED
  BY <1>2, <1>3

LEMMA StageNext == StageInv /\ [Next]_vars => StageInv'
<1> SUFFICES ASSUME TypeOK, LocalsOK, QueueOK, StageOK, [Next]_vars PROVE QueueOK' /\ StageOK'
  BY TypeNext DEF StageInv
<1>1. ASSUME ResetLogin PROVE QueueOK' /\ StageOK'
  <2>1. UNCHANGED <<toServer, toClient>> /\ main = "menu" /\ main' = "login"
        /\ UNCHANGED <<reader, handler, alive, rwsem, ignored>>
    BY <1>1 DEF ResetLogin
  <2>2. QueueOK' /\ (Asked' <=> Asked) /\ (Answered' <=> Answered)
    BY <2>1 DEF QueueOK, Asked, Answered
  <2>3. QED
    BY <2>1, <2>2 DEF StageOK
<1>2. ASSUME NEW u \in UserIds, SendLogin(u) PROVE QueueOK' /\ StageOK'
  <2>1. Message("LOGIN_MSG", u, NoId) \in Requests
    BY MessageTypes DEF Ask
  <2>2. Message("LOGIN_MSG", u, NoId).msgid = "LOGIN_MSG"
    BY DEF Message
  <2>3. QED
    BY <1>2, <2>1, <2>2, KindSets, SendStage DEF SendLogin
<1>3. ASSUME SendReg PROVE QueueOK' /\ StageOK'
  <2>1. Message("REG_MSG", NoId, NoId) \in Requests
    BY MessageTypes DEF Ask
  <2>2. Message("REG_MSG", NoId, NoId).msgid = "REG_MSG"
    BY DEF Message
  <2>3. QED
    BY <1>3, <2>1, <2>2, KindSets, SendStage DEF SendReg
<1>4. ASSUME Wake PROVE QueueOK' /\ StageOK'
  <2>1. /\ UNCHANGED <<toServer, toClient, reader, handler, alive, ignored>>
        /\ main \in Awaiting /\ rwsem = 1 /\ rwsem' = 0
        /\ main' \in {"chat", "menu"}
    BY <1>4 DEF Wake, StageOK
  <2>2. (Asked' <=> Asked) /\ (Answered' <=> Answered)
    BY <2>1 DEF Asked, Answered
  <2>3. ~Asked /\ handler # "login" /\ ~Answered /\ reader = "recv"
    BY <2>1 DEF StageOK
  <2>4. ~Carries(toServer, {"LOGINOUT_MSG"})
    BY <2>1, <2>3, KindSets DEF StageOK, Carries
  <2>5. QED
    BY <2>1, <2>2, <2>3, <2>4 DEF QueueOK, StageOK
<1>5. ASSUME NEW r \in Commanded, Command(r) PROVE QueueOK' /\ StageOK'
  <2>1. r \in Requests /\ r.msgid \in UserCommands \ {"LOGINOUT_MSG"}
    BY DEF Commanded
  <2>2. QED
    BY <1>5, <2>1, KindSets, SendStage DEF Command
<1>6. ASSUME Loginout PROVE QueueOK' /\ StageOK'
  <2>1. Message("LOGINOUT_MSG", g_currentUser, NoId) \in Requests
    BY MessageTypes DEF UserCommands, TypeOK
  <2>2. Message("LOGINOUT_MSG", g_currentUser, NoId).msgid = "LOGINOUT_MSG"
    BY DEF Message
  <2>3. QED
    BY <1>6, <2>1, <2>2, KindSets, SendStage DEF Loginout
<1>7. ASSUME Quit PROVE QueueOK' /\ StageOK'
  <2>1. main' = "gone" /\ toClient' = <<>> /\ reader' = "recv" /\ alive' = alive
    BY <1>7 DEF Quit
  <2>2. QED
    BY <1>7, <2>1, QuitQueue DEF QueueOK, StageOK
<1>8. ASSUME Recv PROVE QueueOK' /\ StageOK'
  <2>1. /\ UNCHANGED <<toServer, main, rwsem, handler, alive, ignored>>
        /\ main # "gone" /\ reader = "recv"
        /\ reader' \in {"recv", "login", "post"}
        /\ reader' = "recv" <=> answer'.msgid = "CHAT"
    BY <1>8 DEF Recv
  <2>2. QueueOK' /\ (Asked' <=> Asked)
    BY <2>1 DEF QueueOK, Asked
  <2>3. /\ Answered' => Answered
        /\ Answered => Answered' \/ answer'.msgid \in Ack
        /\ answer'.msgid \in Ack \cup {"CHAT"}
        /\ answer'.msgid \in Ack => Answered /\ ~Answered'
        /\ OneAnswer(toClient')
    BY <1>8, <2>1, RecvQueue DEF Answered, StageOK
  <2>4. QED
    BY <2>1, <2>2, <2>3, KindSets DEF StageOK
<1>9. ASSUME DoLoginResponse PROVE QueueOK' /\ StageOK'
  <2>1. /\ UNCHANGED <<toServer, toClient, main, rwsem, handler, alive, ignored>>
        /\ reader = "login" /\ reader' = "post"
    BY <1>9 DEF DoLoginResponse
  <2>2. QueueOK' /\ (Asked' <=> Asked) /\ (Answered' <=> Answered)
    BY <2>1 DEF QueueOK, Asked, Answered
  <2>3. QED
    BY <2>1, <2>2 DEF StageOK
<1>10. ASSUME Post PROVE QueueOK' /\ StageOK'
  <2>1. /\ UNCHANGED <<toServer, toClient, main, handler, alive, ignored>>
        /\ reader = "post" /\ reader' = "recv" /\ rwsem' = rwsem + 1
    BY <1>10 DEF Post
  <2>2. QueueOK' /\ (Asked' <=> Asked) /\ (Answered' <=> Answered)
    BY <2>1 DEF QueueOK, Asked, Answered
  <2>3. main # "gone" => rwsem' = 1
    BY <2>1 DEF StageOK
  <2>4. QED
    BY <2>1, <2>2, <2>3 DEF StageOK
<1>11. ASSUME HandleReg PROVE QueueOK' /\ StageOK'
  <2>1. PICK new \in Ids : Reply(Message("REG_MSG_ACK", new, {}))
    BY <1>11 DEF HandleReg
  <2>2. /\ Message("REG_MSG_ACK", new, {}) \in Answers
        /\ Message("REG_MSG_ACK", new, {}).msgid \in Ack
    BY MessageTypes, KindSets DEF Message
  <2>3. Message("REG_MSG", NoId, NoId).msgid \in Ask
    BY DEF Message, Ask
  <2>4. QED
    BY <1>11, <2>1, <2>2, <2>3, ReadReplyStage DEF HandleReg
<1>12. ASSUME HandleClose PROVE QueueOK' /\ StageOK'
  <2>1. UNCHANGED <<toServer, toClient, main, reader, alive>> /\ main = "gone"
    BY <1>12 DEF HandleClose
  <2>2. QED
    BY <2>1 DEF QueueOK, StageOK
<1>13. ASSUME alive, Stops PROVE QueueOK' /\ StageOK'
  <2>1. /\ UNCHANGED <<toClient, main, reader, rwsem, handler, ignored>>
        /\ ~alive' /\ toServer' = <<>> /\ Len(toServer') = 0
    BY <1>13 DEF Stops
  <2>2. \A K : ~Carries(toServer', K)
    BY <2>1 DEF Carries
  <2>3. QueueOK'
    BY <2>1, <2>2 DEF QueueOK, Ordered
  <2>4. ~Asked' /\ (Answered' <=> Answered)
    BY <2>1, <2>2 DEF Asked, Answered
  <2>5. QED
    BY <2>1, <2>2, <2>3, <2>4 DEF StageOK
<1>14. ASSUME NEW u \in UserIds, HandleLogin(u) PROVE QueueOK' /\ StageOK'
  <2>1. /\ Message("LOGIN_MSG", u, NoId).msgid \in Ask
        /\ Read(Message("LOGIN_MSG", u, NoId)) /\ UNCHANGED <<process, alive>>
    BY <1>14 DEF Message, Ask, HandleLogin
  <2>2. ASSUME handler' = "login", UNCHANGED toClient PROVE QueueOK' /\ StageOK'
    <3>1. QueueOK'
      BY <2>1, <2>2, ReadAsk DEF QueueOK
    <3>2. Answered' <=> Answered
      BY <2>2 DEF Answered
    <3>3. QED
      BY <2>1, <2>2, <3>1, <3>2, ReadAsk DEF StageOK
  <2>3. ASSUME NEW m \in Answers, m.msgid \in Ack, Reply(m), UNCHANGED handler
        PROVE  QueueOK' /\ StageOK'
    BY <2>1, <2>3, ReadReplyStage
  <2>4. \A k \in Ack : Message(k, NoId, {}) \in Answers /\ Message(k, NoId, {}).msgid = k
    <3>1. \A k \in Ack : Message(k, NoId, {}) \in Answers
      BY MessageTypes
    <3>2. \A k \in Ack : Message(k, NoId, {}).msgid = k
      BY DEF Message
    <3>3. QED
      BY <3>1, <3>2
  <2>5. QED
    BY <1>14, <2>2, <2>3, <2>4, KindSets DEF HandleLogin
<1>15. ASSUME NEW u \in UserIds, HandleChat(u) PROVE QueueOK' /\ StageOK'
  <2>1. Message("CHAT", u, NoId).msgid = "CHAT"
    BY DEF Message
  <2>2. QED
    BY <1>15, <2>1, KindSets, ReadStage DEF HandleChat, Read
<1>16. ASSUME NEW u \in UserIds, HandleCreateGroup(u) PROVE QueueOK' /\ StageOK'
  <2>1. Message("CREATE_GROUP_MSG", u, NoId).msgid = "CREATE_GROUP_MSG"
    BY DEF Message
  <2>2. handler = "idle" /\ handler' # "login"
    BY <1>16 DEF HandleCreateGroup, Read
  <2>3. QED
    BY <1>16, <2>1, <2>2, KindSets, ReadStage DEF HandleCreateGroup
<1>17. ASSUME NEW u \in UserIds, HandleLoginout(u) PROVE QueueOK' /\ StageOK'
  <2>1. Message("LOGINOUT_MSG", u, NoId).msgid = "LOGINOUT_MSG"
    BY DEF Message
  <2>2. QED
    BY <1>17, <2>1, KindSets, ReadStage DEF HandleLoginout, Read
<1>18. ASSUME NEW u \in UserIds, NEW f \in UserIds, HandleAddFriend(u, f)
       PROVE  QueueOK' /\ StageOK'
  <2>1. Message("ADD_FRIEND_MSG", u, f).msgid = "ADD_FRIEND_MSG"
    BY DEF Message
  <2>2. QED
    BY <1>18, <2>1, KindSets, ReadStage DEF HandleAddFriend, Read
<1>19. ASSUME LoginAck PROVE QueueOK' /\ StageOK'
  <2>1. Message("LOGIN_MSG_ACK", id, ListsOf(id)) \in Answers
    BY MessageTypes, KindSets DEF ListsOf, TypeOK
  <2>2. Message("LOGIN_MSG_ACK", id, ListsOf(id)).msgid \in Ack
    BY KindSets DEF Message
  <2>3. /\ Reply(Message("LOGIN_MSG_ACK", id, ListsOf(id)))
        /\ UNCHANGED <<toServer, main, reader, rwsem, alive, ignored>>
        /\ handler = "login" /\ handler' = "idle"
    BY <1>19 DEF LoginAck
  <2>4. QueueOK'
    BY <2>3 DEF QueueOK, Reply
  <2>5. Asked' <=> Asked
    BY <2>3 DEF Asked
  <2>6. CASE main = "gone"
    BY <2>3, <2>4, <2>6 DEF StageOK
  <2>7. CASE main # "gone"
    <3>1. main \in Awaiting /\ ~Answered /\ ~Asked /\ reader = "recv" /\ rwsem = 0
      BY <2>3, <2>7 DEF StageOK
    <3>2. Answered' /\ OneAnswer(toClient')
      BY <2>1, <2>2, <2>3, <2>7, <3>1, ReplyQueue DEF Answered, StageOK
    <3>3. QED
      BY <2>3, <2>4, <2>5, <2>7, <3>1, <3>2 DEF StageOK
  <2>8. QED
    BY <2>4, <2>6, <2>7
<1>20. ASSUME AddCreator PROVE QueueOK' /\ StageOK'
  <2>1. /\ UNCHANGED <<toServer, toClient, main, reader, rwsem, alive, ignored>>
        /\ handler = "creator" /\ handler' = "idle"
    BY <1>20 DEF AddCreator
  <2>2. QueueOK' /\ (Asked' <=> Asked) /\ (Answered' <=> Answered)
    BY <2>1 DEF QueueOK, Asked, Answered
  <2>3. QED
    BY <2>1, <2>2 DEF StageOK
<1>21. ASSUME Push PROVE QueueOK' /\ StageOK'
  <2>1. Nothing \in Answers /\ Nothing.msgid = "CHAT"
    BY MessageTypes DEF Nothing, Message
  <2>2. /\ Reply(Nothing) /\ main # "gone"
        /\ UNCHANGED <<toServer, main, reader, rwsem, handler, alive, ignored>>
    BY <1>21 DEF Push
  <2>3. QueueOK' /\ (Asked' <=> Asked)
    BY <2>2 DEF QueueOK, Asked
  <2>4. (Answered' <=> Answered) /\ OneAnswer(toClient')
    BY <2>1, <2>2, KindSets, ReplyQueue DEF Answered, StageOK
  <2>5. QED
    BY <2>2, <2>3, <2>4 DEF StageOK
<1>22. ASSUME \/ UNCHANGED vars
              \/ \E u \in UserIds : OtherCreatesGroup(u)
       PROVE  QueueOK' /\ StageOK'
  <2>1. UNCHANGED <<process, wire, service>>
    BY <1>22 DEF OtherCreatesGroup
  <2>2. QueueOK' /\ (Asked' <=> Asked) /\ (Answered' <=> Answered)
    BY <2>1 DEF QueueOK, Asked, Answered
  <2>3. QED
    BY <2>1, <2>2 DEF StageOK
<1>23. QED
  BY NextCases, <1>1, <1>2, <1>3, <1>4, <1>5, <1>6, <1>7, <1>8, <1>9, <1>10, <1>11,
     <1>12, <1>13, <1>14, <1>15, <1>16, <1>17, <1>18, <1>19, <1>20, <1>21, <1>22

----------------------------------------------------------------------------
(* Whom the client speaks for                                              *)

\* A login under way is in one of the stages of an answer.
LEMMA LoginStage ==
  /\ LoggingIn => Asked \/ handler = "login" \/ Answered \/ reader # "recv"
  /\ Succeeded => Answered
  /\ Carries(toServer, {"LOGIN_MSG"}) => Asked
<1>1. Succeeded => Answered
  BY DEF Succeeded, Answered, Carries, Success, Ack
<1>2. Carries(toServer, {"LOGIN_MSG"}) => Asked
  BY DEF Asked, Carries, Ask
<1>3. QED
  BY <1>1, <1>2 DEF LoggingIn

LEMMA UserInit == Init => UserInv
<1> SUFFICES ASSUME Init PROVE UserInv
  OBVIOUS
<1>1. toServer = <<>> /\ toClient = <<>> /\ Len(toServer) = 0 /\ Len(toClient) = 0
  BY DEF Init
<1>2. FlagOK
  BY <1>1 DEF Init, FlagOK, LoggingIn, Succeeded, Carries
<1>3. UserOK
  BY <1>1 DEF Init, UserOK
<1>4. QED
  BY <1>2, <1>3, StageInit DEF UserInv

\* Main sends: a login with the flag down, a command as its user.
LEMMA SendUser ==
  ASSUME StageInv, FlagOK, UserOK, NEW r \in Requests, Send(r),
         UNCHANGED <<shared, reader, answer, service>>,
         main \notin Awaiting \cup {"gone"},
         r.msgid = "LOGIN_MSG" => main' = "waitLogin",
         main' = "waitLogin" => main = "login",
         main' # "login",
         main' = "chat" => main = "chat",
         r.msgid \in UserCommands => main = "chat" /\ r.id = g_currentUser
  PROVE  FlagOK' /\ UserOK'
<1>1. ~Asked /\ handler # "login" /\ ~Answered /\ reader = "recv" /\ rwsem = 0
  BY NoStage DEF StageInv
<1>2. /\ \A K : Carries(toServer', K) => Carries(toServer, K) \/ r.msgid \in K
      /\ UNCHANGED toClient
      /\ \A i \in 1..Len(toServer') :
           toServer'[i] = r \/ \E j \in 1..Len(toServer) : toServer'[i] = toServer[j]
  BY SendQueue, SendType DEF StageInv
<1>3. ~Succeeded /\ ~Carries(toServer, {"LOGIN_MSG"})
  BY <1>1, LoginStage
<1>4. ~Succeeded'
  BY <1>2, <1>3 DEF Succeeded
<1>5. LoggingIn' => main' = "waitLogin"
  BY <1>1, <1>2, <1>3, <1>4 DEF LoggingIn
<1>6. FlagOK'
  BY <1>5 DEF FlagOK
<1>7. ASSUME alive' PROVE UserOK'
  <2>1. alive
    BY <1>7
  <2>2. \A i \in 1..Len(toServer') : toServer'[i].msgid \in UserCommands =>
          toServer'[i].id = g_currentUser' /\ g_currentUser' \in entries'
    BY <1>2, <2>1 DEF UserOK
  <2>3. main' = "waitLogin" => ~g_isLoginSuccess'
    BY DEF FlagOK
  <2>4. \A i \in 1..Len(toClient') : Success(toClient'[i]) => toClient'[i].id \in entries'
    BY <1>2, <2>1 DEF UserOK
  <2>5. QED
    BY <1>1, <2>1, <2>2, <2>3, <2>4 DEF UserOK
<1>8. QED
  BY <1>6, <1>7 DEF UserOK

\* A read adds no login and no command to what the server has not read.
LEMMA ReadUser ==
  ASSUME StageInv, UserOK, NEW r, Read(r)
  PROVE  /\ alive /\ conn = "open" /\ handler = "idle"
         /\ Carries(toServer', {"LOGIN_MSG"}) => Carries(toServer, {"LOGIN_MSG"})
         /\ Asked' => Asked
         /\ r \in Requests
         /\ r.msgid \in UserCommands => r.id = g_currentUser /\ r.id \in entries
         /\ \A i \in 1..Len(toServer') : toServer'[i].msgid \in UserCommands =>
              toServer'[i].id = g_currentUser /\ g_currentUser \in entries
<1>1. /\ Carries(toServer', {"LOGIN_MSG"}) => Carries(toServer, {"LOGIN_MSG"})
      /\ Asked' => Asked
  BY ReadKinds, KindSets DEF StageInv, Asked
<1>2. \A i \in 1..Len(toServer') :
        toServer'[i] = Rest \/ \E j \in 1..Len(toServer) : toServer'[i] = toServer[j]
  BY ReadKinds DEF StageInv
<1>3. Rest.msgid \notin UserCommands
  BY DEF Rest, Message, UserCommands
<1>4. alive /\ conn = "open" /\ handler = "idle"
  BY DEF Read
<1>5. \A j \in 1..Len(toServer) : toServer[j].msgid \in UserCommands =>
        toServer[j].id = g_currentUser /\ g_currentUser \in entries
  BY <1>4 DEF UserOK
<1>6. r \in Requests /\ \E j \in 1..Len(toServer) : r = toServer[j]
  <2>1. r \in Requests /\ r = toServer[1] /\ toServer # <<>>
    BY ReadQueue, ReadType DEF StageInv
  <2>2. 1 \in 1..Len(toServer)
    BY <2>1 DEF StageInv, TypeOK
  <2>3. QED
    BY <2>1, <2>2
<1>7. QED
  BY <1>1, <1>2, <1>3, <1>4, <1>5, <1>6

\* It handles a command other than the logout.
LEMMA ReadCommandUser ==
  ASSUME StageInv, FlagOK, UserOK, NEW r, Read(r), handler' # "login",
         UNCHANGED <<process, toClient, alive, entries>>
  PROVE  FlagOK' /\ UserOK'
<1>1. Succeeded' => Succeeded
  BY DEF Succeeded
<1>2. Answered' <=> Answered
  BY DEF Answered
<1>3. LoggingIn' => LoggingIn
  BY <1>1, ReadUser DEF LoggingIn
<1>4. FlagOK'
  BY <1>2, <1>3, ReadUser DEF FlagOK
<1>5. UserOK'
  BY ReadUser DEF UserOK
<1>6. QED
  BY <1>4, <1>5

\* It answers a login or registration with a refusal.
LEMMA RefuseUser ==
  ASSUME StageInv, FlagOK, UserOK, NEW r, Read(r), r.msgid \in Ask,
         NEW m \in Answers, ~Success(m), Reply(m),
         UNCHANGED <<process, handler, alive, entries>>
  PROVE  FlagOK' /\ UserOK'
<1>1. /\ Asked /\ ~Asked' /\ handler = "idle"
      /\ main # "gone" => ~Answered /\ reader = "recv"
  BY ReadAsk DEF StageInv
<1>2. CASE main = "gone"
  <2>1. toClient' = toClient
    BY <1>2 DEF Reply
  <2>2. QED
    BY <1>2, <2>1, ReadUser DEF FlagOK, UserOK
<1>3. CASE main # "gone"
  <2>1. \A i \in 1..Len(toClient') :
          toClient'[i] = m \/ \E j \in 1..Len(toClient) : toClient'[i] = toClient[j]
    BY <1>3, ReplyQueue DEF StageInv
  <2>2. ~Succeeded'
    BY <1>1, <1>3, <2>1, LoginStage DEF Succeeded
  <2>3. ~LoggingIn'
    <3>1. ~Carries(toServer', {"LOGIN_MSG"})
      BY <1>1 DEF Asked, Carries, Ask
    <3>2. QED
      BY <1>1, <1>3, <2>2, <3>1 DEF LoggingIn
  <2>4. main = "waitLogin" => ~g_isLoginSuccess
    BY <1>1, <1>3 DEF FlagOK
  <2>5. FlagOK'
    BY <1>3, <2>3, <2>4 DEF FlagOK
  <2>6. UserOK'
    BY <1>1, <1>3, <2>2, <2>4, ReadUser DEF UserOK, Succeeded
  <2>7. QED
    BY <2>5, <2>6
<1>4. QED
  BY <1>2, <1>3

LEMMA UserNext == UserInv /\ [Next]_vars => UserInv'
<1> SUFFICES ASSUME StageInv, StageInv', FlagOK, UserOK, [Next]_vars
             PROVE  FlagOK' /\ UserOK'
  BY StageNext DEF UserInv
<1>t. TypeOK
  BY DEF StageInv
<1>1. ASSUME ResetLogin PROVE FlagOK' /\ UserOK'
  <2>1. /\ main = "menu" /\ main' = "login" /\ ~g_isLoginSuccess'
        /\ UNCHANGED <<g_currentUser, toServer, toClient, reader, answer, handler, id,
                       alive, entries>>
    BY <1>1 DEF ResetLogin
  <2>2. ~LoggingIn /\ (LoggingIn' <=> LoggingIn)
    BY <2>1 DEF FlagOK, LoggingIn, Succeeded
  <2>3. QED
    BY <2>1, <2>2 DEF FlagOK, UserOK
<1>2. ASSUME NEW u \in UserIds, SendLogin(u) PROVE FlagOK' /\ UserOK'
  <2>1. Message("LOGIN_MSG", u, NoId) \in Requests
    BY MessageTypes DEF Ask
  <2>2. Message("LOGIN_MSG", u, NoId).msgid = "LOGIN_MSG"
    BY DEF Message
  <2>3. QED
    BY <1>2, <2>1, <2>2, KindSets, SendUser DEF SendLogin
<1>3. ASSUME SendReg PROVE FlagOK' /\ UserOK'
  <2>1. Message("REG_MSG", NoId, NoId) \in Requests
    BY MessageTypes DEF Ask
  <2>2. Message("REG_MSG", NoId, NoId).msgid = "REG_MSG"
    BY DEF Message
  <2>3. QED
    BY <1>3, <2>1, <2>2, KindSets, SendUser DEF SendReg
<1>4. ASSUME Wake PROVE FlagOK' /\ UserOK'
  <2>1. /\ UNCHANGED <<g_currentUser, g_isLoginSuccess, toServer, toClient, reader,
                       answer, handler, id, alive, entries>>
        /\ main \in Awaiting /\ rwsem = 1
        /\ main' = IF main = "waitLogin" /\ g_isLoginSuccess THEN "chat" ELSE "menu"
    BY <1>4 DEF Wake, StageInv, StageOK
  <2>2. ~Asked /\ handler # "login" /\ ~Answered /\ reader = "recv"
    BY <2>1 DEF StageInv, StageOK
  <2>3. ~LoggingIn'
    BY <2>1, <2>2, LoginStage DEF LoggingIn, Succeeded
  <2>4. QED
    BY <2>1, <2>2, <2>3 DEF FlagOK, UserOK
<1>5. ASSUME NEW r \in Commanded, Command(r) PROVE FlagOK' /\ UserOK'
  <2>1. /\ r \in Requests /\ r.msgid \in UserCommands \ {"LOGINOUT_MSG"}
        /\ r.id = g_currentUser
    BY DEF Commanded
  <2>2. QED
    BY <1>5, <2>1, KindSets, SendUser DEF Command
<1>6. ASSUME Loginout PROVE FlagOK' /\ UserOK'
  <2>1. Message("LOGINOUT_MSG", g_currentUser, NoId) \in Requests
    BY MessageTypes DEF UserCommands, TypeOK, StageInv
  <2>2. /\ Message("LOGINOUT_MSG", g_currentUser, NoId).msgid = "LOGINOUT_MSG"
        /\ Message("LOGINOUT_MSG", g_currentUser, NoId).id = g_currentUser
    BY DEF Message
  <2>3. QED
    BY <1>6, <2>1, <2>2, KindSets, SendUser DEF Loginout
<1>7. ASSUME Quit PROVE FlagOK' /\ UserOK'
  <2>1. /\ main' = "gone" /\ toClient' = <<>> /\ Len(toClient') = 0 /\ reader' = "recv"
        /\ UNCHANGED <<g_currentUser, alive, entries, handler, id>>
    BY <1>7 DEF Quit
  <2>2. \A i \in 1..Len(toServer') : \E j \in 1..Len(toServer) : toServer'[i] = toServer[j]
    BY <1>7, QuitQueue DEF StageInv
  <2>3. UserOK'
    BY <2>1, <2>2 DEF UserOK
  <2>4. QED
    BY <2>1, <2>3 DEF FlagOK
<1>8. ASSUME Recv PROVE FlagOK' /\ UserOK'
  <2>1. /\ UNCHANGED <<toServer, main, g_currentUser, handler, id, alive, entries>>
        /\ main # "gone" /\ reader = "recv"
        /\ reader' = "login" => Success(answer')
        /\ reader' # "recv" => answer'.msgid # "CHAT"
        /\ g_isLoginSuccess' => g_isLoginSuccess
    BY <1>8, <1>t DEF Recv, Success, TypeOK
  <2>2. /\ Answered' => Answered
        /\ answer'.msgid \in Ack \cup {"CHAT"}
        /\ answer'.msgid \in Ack => Answered
        /\ \E i \in 1..Len(toClient) : answer' = toClient[i]
        /\ \A i \in 1..Len(toClient') : \E j \in 1..Len(toClient) : toClient'[i] = toClient[j]
    BY <1>8, RecvQueue DEF Answered, StageInv
  <2>3. LoggingIn' => LoggingIn
    BY <2>1, <2>2 DEF LoggingIn, Succeeded
  <2>4. Asked' <=> Asked
    BY <2>1 DEF Asked
  <2>5. FlagOK'
    BY <2>1, <2>2, <2>3, <2>4, KindSets DEF FlagOK
  <2>6. UserOK'
    BY <2>1, <2>2 DEF UserOK
  <2>7. QED
    BY <2>5, <2>6
<1>9. ASSUME DoLoginResponse PROVE FlagOK' /\ UserOK'
  <2>1. /\ UNCHANGED <<toServer, toClient, main, handler, id, alive, entries, answer>>
        /\ reader = "login" /\ reader' = "post"
        /\ g_currentUser' = answer.id
    BY <1>9 DEF DoLoginResponse
  <2>2. main = "waitLogin"
    BY <2>1 DEF FlagOK, LoggingIn, StageInv, QueueOK
  <2>3. ~Asked /\ handler # "login" /\ ~Answered /\ ~Carries(toServer, UserCommands)
    BY <2>1, <2>2 DEF StageInv, StageOK
  <2>4. ~LoggingIn' /\ ~Asked' /\ ~Answered'
    BY <2>1, <2>3, LoginStage DEF LoggingIn, Succeeded, Asked, Answered
  <2>5. FlagOK'
    BY <2>1, <2>2, <2>3, <2>4 DEF FlagOK
  <2>6. UserOK'
    BY <2>1, <2>2, <2>3 DEF UserOK, Carries
  <2>7. QED
    BY <2>5, <2>6
<1>10. ASSUME Post PROVE FlagOK' /\ UserOK'
  <2>1. /\ UNCHANGED <<g_currentUser, g_isLoginSuccess, toServer, toClient, main, handler,
                       id, alive, entries>>
        /\ reader = "post" /\ reader' = "recv"
    BY <1>10 DEF Post
  <2>2. /\ LoggingIn' => LoggingIn
        /\ Asked' <=> Asked
        /\ Answered' <=> Answered
    BY <2>1 DEF LoggingIn, Succeeded, Asked, Answered
  <2>3. QED
    BY <2>1, <2>2 DEF FlagOK, UserOK
<1>11. ASSUME HandleReg PROVE FlagOK' /\ UserOK'
  <2>1. PICK new \in Ids : Reply(Message("REG_MSG_ACK", new, {}))
    BY <1>11 DEF HandleReg
  <2>2. Message("REG_MSG_ACK", new, {}) \in Answers
    BY MessageTypes, KindSets
  <2>3. /\ ~Success(Message("REG_MSG_ACK", new, {}))
        /\ Message("REG_MSG", NoId, NoId).msgid \in Ask
    BY DEF Message, Ask, Success
  <2>4. QED
    BY <1>11, <2>1, <2>2, <2>3, RefuseUser DEF HandleReg
<1>12. ASSUME HandleClose PROVE FlagOK' /\ UserOK'
  <2>1. /\ UNCHANGED <<toServer, toClient, main, reader, handler, alive>>
        /\ main = "gone" /\ toServer = <<>> /\ Len(toServer) = 0 /\ handler = "idle"
    BY <1>12 DEF HandleClose
  <2>2. toClient = <<>> /\ Len(toClient) = 0 /\ reader = "recv"
    BY <2>1 DEF StageInv, QueueOK
  <2>3. QED
    BY <2>1, <2>2 DEF FlagOK, UserOK
<1>13. ASSUME alive, Stops PROVE FlagOK' /\ UserOK'
  <2>1. /\ UNCHANGED <<toClient, main, g_isLoginSuccess, reader, handler>>
        /\ ~alive' /\ toServer' = <<>> /\ Len(toServer') = 0
    BY <1>13 DEF Stops
  <2>2. ~Asked' /\ ~Carries(toServer', {"LOGIN_MSG"}) /\ (Answered' <=> Answered)
    BY <2>1 DEF Asked, Carries, Answered
  <2>3. LoggingIn' => LoggingIn
    BY <2>1, <2>2 DEF LoggingIn, Succeeded
  <2>4. QED
    BY <2>1, <2>2, <2>3 DEF FlagOK, UserOK
<1>14. ASSUME NEW u \in UserIds, HandleLogin(u) PROVE FlagOK' /\ UserOK'
  <2>1. /\ Message("LOGIN_MSG", u, NoId).msgid = "LOGIN_MSG"
        /\ Read(Message("LOGIN_MSG", u, NoId)) /\ UNCHANGED <<process, alive>>
    BY <1>14 DEF Message, HandleLogin
  <2>2. ASSUME handler' = "login", UNCHANGED toClient, entries' = entries \cup {u}, id' = u
        PROVE  FlagOK' /\ UserOK'
    <3>1. /\ Asked /\ ~Asked' /\ Carries(toServer, {"LOGIN_MSG"})
          /\ main # "gone" => ~Answered /\ reader = "recv"
      BY <2>1, KindSets, ReadAsk, ReadKinds DEF StageInv
    <3>2. main # "gone" => main = "waitLogin" /\ ~g_isLoginSuccess
      BY <3>1 DEF FlagOK, LoggingIn
    <3>3. FlagOK'
      BY <2>1, <3>2 DEF FlagOK
    <3>4. UserOK'
      BY <2>1, <2>2, ReadUser DEF UserOK
    <3>5. QED
      BY <3>3, <3>4
  <2>3. ASSUME NEW m \in Answers, ~Success(m), Reply(m), UNCHANGED <<handler, entries>>
        PROVE  FlagOK' /\ UserOK'
    BY <2>1, <2>3, KindSets, RefuseUser
  <2>4. \A k \in Ack : Message(k, NoId, {}) \in Answers /\ ~Success(Message(k, NoId, {}))
    <3>1. \A k \in Ack : Message(k, NoId, {}) \in Answers
      BY MessageTypes
    <3>2. \A k \in Ack : ~Success(Message(k, NoId, {}))
      BY DEF Message, Success
    <3>3. QED
      BY <3>1, <3>2
  <2>5. QED
    BY <1>14, <2>2, <2>3, <2>4, KindSets DEF HandleLogin
<1>15. ASSUME NEW u \in UserIds, HandleChat(u) PROVE FlagOK' /\ UserOK'
  BY <1>15, ReadCommandUser DEF HandleChat, Read
<1>16. ASSUME NEW u \in UserIds, HandleCreateGroup(u) PROVE FlagOK' /\ UserOK'
  <2>1. handler = "idle" /\ handler' # "login"
    BY <1>16 DEF HandleCreateGroup, Read
  <2>2. QED
    BY <1>16, <2>1, ReadCommandUser DEF HandleCreateGroup
<1>17. ASSUME NEW u \in UserIds, HandleLoginout(u) PROVE FlagOK' /\ UserOK'
  <2>1. /\ Message("LOGINOUT_MSG", u, NoId).msgid = "LOGINOUT_MSG"
        /\ Message("LOGINOUT_MSG", u, NoId).id = u
        /\ Read(Message("LOGINOUT_MSG", u, NoId))
        /\ UNCHANGED <<process, toClient, alive, handler, id>>
        /\ entries' = entries \ {u} /\ handler = "idle"
    BY <1>17 DEF Message, HandleLoginout, Read
  <2>2. /\ Carries(toServer, {"LOGINOUT_MSG"}) /\ ~Carries(toServer', UserCommands)
        /\ Carries(toServer, UserCommands)
    BY <2>1, KindSets, ReadKinds DEF StageInv, Carries
  <2>3. main # "gone" => ~Answered /\ reader = "recv"
    BY <2>2, NoStage DEF StageInv, StageOK
  <2>4. main = "waitLogin" => ~g_isLoginSuccess
    BY <2>2 DEF StageInv, StageOK, FlagOK
  <2>5. main # "chat"
    BY <2>2 DEF StageInv, QueueOK
  <2>6. ~Succeeded
    <3>1. CASE main = "gone"
      BY <3>1 DEF StageInv, QueueOK, Succeeded
    <3>2. CASE main # "gone"
      BY <2>3, <3>2, LoginStage
    <3>3. QED
      BY <3>1, <3>2
  <2>7. reader = "recv"
    BY <2>3 DEF StageInv, QueueOK
  <2>8. UserOK'
    BY <2>1, <2>2, <2>4, <2>5, <2>6, <2>7 DEF UserOK, Succeeded, Carries
  <2>9. LoggingIn' => LoggingIn
    BY <2>1, ReadUser DEF LoggingIn, Succeeded
  <2>10. FlagOK'
    BY <2>1, <2>4, <2>9 DEF FlagOK
  <2>11. QED
    BY <2>8, <2>10
<1>18. ASSUME NEW u \in UserIds, NEW f \in UserIds, HandleAddFriend(u, f)
       PROVE  FlagOK' /\ UserOK'
  BY <1>18, ReadCommandUser DEF HandleAddFriend, Read
<1>19. ASSUME LoginAck PROVE FlagOK' /\ UserOK'
  <2>1. Message("LOGIN_MSG_ACK", id, ListsOf(id)) \in Answers
    BY <1>t, MessageTypes, KindSets DEF ListsOf, TypeOK
  <2>2. Message("LOGIN_MSG_ACK", id, ListsOf(id)).id = id
    BY DEF Message
  <2>3. /\ Reply(Message("LOGIN_MSG_ACK", id, ListsOf(id)))
        /\ UNCHANGED <<g_currentUser, g_isLoginSuccess, toServer, main, reader, answer,
                       alive, entries>>
        /\ handler = "login" /\ handler' = "idle"
    BY <1>19 DEF LoginAck
  <2>4. alive => id \in entries
    BY <2>3 DEF UserOK
  <2>5. CASE main = "gone"
    BY <2>3, <2>5 DEF FlagOK, UserOK, Reply
  <2>6. CASE main # "gone"
    <3>1. main = "waitLogin" /\ ~g_isLoginSuccess
      BY <2>3, <2>6 DEF FlagOK, LoggingIn
    <3>2. FlagOK'
      BY <2>3, <3>1 DEF FlagOK
    <3>3. \A i \in 1..Len(toClient') :
            \/ toClient'[i] = Message("LOGIN_MSG_ACK", id, ListsOf(id))
            \/ \E j \in 1..Len(toClient) : toClient'[i] = toClient[j]
      BY <1>t, <2>1, <2>3, <2>6, ReplyQueue
    <3>4. UserOK'
      BY <2>2, <2>3, <2>4, <3>1, <3>3 DEF UserOK
    <3>5. QED
      BY <3>2, <3>4
  <2>7. QED
    BY <2>5, <2>6
<1>20. ASSUME AddCreator PROVE FlagOK' /\ UserOK'
  <2>1. /\ UNCHANGED <<process, toServer, toClient, alive, entries>>
        /\ handler = "creator" /\ handler' = "idle"
    BY <1>20 DEF AddCreator
  <2>2. /\ LoggingIn' => LoggingIn
        /\ Asked' <=> Asked
        /\ Answered' <=> Answered
    BY <2>1 DEF LoggingIn, Succeeded, Asked, Answered
  <2>3. QED
    BY <2>1, <2>2 DEF FlagOK, UserOK
<1>21. ASSUME Push PROVE FlagOK' /\ UserOK'
  <2>1. Nothing \in Answers /\ Nothing.msgid = "CHAT" /\ ~Success(Nothing)
    BY MessageTypes DEF Nothing, Message, Success
  <2>2. /\ Reply(Nothing) /\ main # "gone"
        /\ UNCHANGED <<process, toServer, service>>
    BY <1>21 DEF Push
  <2>3. /\ \A i \in 1..Len(toClient') :
             toClient'[i] = Nothing \/ \E j \in 1..Len(toClient) : toClient'[i] = toClient[j]
        /\ Answered' => Answered
    BY <1>t, <2>1, <2>2, KindSets, ReplyQueue DEF Answered
  <2>4. LoggingIn' => LoggingIn
    BY <2>1, <2>2, <2>3 DEF LoggingIn, Succeeded
  <2>5. Asked' <=> Asked
    BY <2>2 DEF Asked
  <2>6. QED
    BY <2>1, <2>2, <2>3, <2>4, <2>5 DEF FlagOK, UserOK
<1>22. ASSUME \/ UNCHANGED vars
              \/ \E u \in UserIds : OtherCreatesGroup(u)
       PROVE  FlagOK' /\ UserOK'
  <2>1. UNCHANGED <<process, wire, service>>
    BY <1>22 DEF OtherCreatesGroup
  <2>2. (LoggingIn' <=> LoggingIn) /\ (Asked' <=> Asked) /\ (Answered' <=> Answered)
    BY <2>1 DEF LoggingIn, Succeeded, Asked, Answered
  <2>3. QED
    BY <2>1, <2>2 DEF FlagOK, UserOK
<1>23. QED
  BY NextCases, <1>t, <1>1, <1>2, <1>3, <1>4, <1>5, <1>6, <1>7, <1>8, <1>9, <1>10,
     <1>11, <1>12, <1>13, <1>14, <1>15, <1>16, <1>17, <1>18, <1>19, <1>20, <1>21, <1>22

----------------------------------------------------------------------------
(* The entries of the connection                                           *)

LEMMA EntryInit == Init => EntryInv
<1>1. Init => EntryOK
  BY DEF Init, EntryOK
<1>2. QED
  BY <1>1, UserInit DEF EntryInv

\* A step that leaves the entries alone, asks for no login, handles no logout
\* and forgets no login.
LEMMA EntriesKept ==
  ASSUME EntryOK, UNCHANGED <<entries, conn>>,
         alive' => alive,
         ignored \subseteq ignored',
         Carries(toServer', {"LOGIN_MSG"}) /\ entries # {} =>
           \/ Carries(toServer, {"LOGIN_MSG"})
           \/ Carries(toServer, {"LOGINOUT_MSG"}),
         alive' /\ Carries(toServer, {"LOGINOUT_MSG"}) /\
             (main' # "gone" \/ Carries(toServer', {"LOGIN_MSG"})) =>
           Carries(toServer', {"LOGINOUT_MSG"}) \/ "LOGINOUT_MSG" \in ignored',
         main' # "gone" => main # "gone",
         main' # "gone" /\ Known => Known' \/ Carries(toServer', {"LOGINOUT_MSG"})
  PROVE  EntryOK'
BY DEF EntryOK

\* A read that is not of a logout.
LEMMA ReadEntries ==
  ASSUME StageInv, UserOK, EntryOK, NEW r, Read(r), r.msgid # "LOGINOUT_MSG",
         UNCHANGED <<entries, conn, alive, main>>, main' # "gone" /\ Known => Known'
  PROVE  EntryOK'
<1>1. /\ Carries(toServer', {"LOGIN_MSG"}) => Carries(toServer, {"LOGIN_MSG"})
      /\ Carries(toServer, {"LOGINOUT_MSG"}) =>
           \/ Carries(toServer', {"LOGINOUT_MSG"})
           \/ ignored' \cap {"LOGINOUT_MSG"} # {}
      /\ ignored \subseteq ignored'
  BY ReadKinds, KindSets DEF StageInv
<1>2. QED
  BY <1>1, EntriesKept

LEMMA EntryNext == EntryInv /\ [Next]_vars => EntryInv'
<1> SUFFICES ASSUME UserInv, UserInv', EntryOK, [Next]_vars
             PROVE  EntryOK'
  BY UserNext DEF EntryInv
<1>t. StageInv /\ TypeOK /\ QueueOK /\ StageOK /\ FlagOK /\ UserOK
  BY DEF UserInv, StageInv
<1>1. ASSUME ResetLogin PROVE EntryOK'
  <2>1. /\ main = "menu" /\ main' = "login"
        /\ UNCHANGED <<toServer, toClient, reader, handler, alive, conn, entries, ignored>>
    BY <1>1 DEF ResetLogin
  <2>2. Known => Known'
    BY <2>1 DEF Known, Succeeded
  <2>3. QED
    BY <2>1, <2>2, EntriesKept
<1>2. ASSUME NEW u \in UserIds, SendLogin(u) PROVE EntryOK'
  <2>1. /\ Send(Message("LOGIN_MSG", u, NoId)) /\ main = "login" /\ main' = "waitLogin"
        /\ UNCHANGED <<reader, handler, alive, conn, entries, ignored>>
    BY <1>2 DEF SendLogin
  <2>2. Message("LOGIN_MSG", u, NoId) \in Requests
    BY MessageTypes DEF Ask
  <2>3. /\ Carries(toServer, {"LOGINOUT_MSG"}) /\ alive => Carries(toServer', {"LOGINOUT_MSG"})
        /\ UNCHANGED toClient
    BY <1>t, <2>1, <2>2, SendQueue, SendType
  <2>4. ~Known
    BY <1>t, <2>1, LoginStage, NoStage DEF Known
  <2>5. alive /\ "LOGINOUT_MSG" \notin ignored /\ entries # {} =>
          Carries(toServer, {"LOGINOUT_MSG"})
    BY <2>1, <2>4 DEF EntryOK
  <2>6. QED
    BY <2>1, <2>3, <2>4, <2>5 DEF EntryOK
<1>3. ASSUME SendReg PROVE EntryOK'
  <2>1. /\ Send(Message("REG_MSG", NoId, NoId)) /\ main = "menu" /\ main' = "waitReg"
        /\ UNCHANGED <<reader, handler, alive, conn, entries, ignored>>
    BY <1>3 DEF SendReg
  <2>2. Message("REG_MSG", NoId, NoId) \in Requests
    BY MessageTypes DEF Ask
  <2>3. Message("REG_MSG", NoId, NoId).msgid \notin {"LOGIN_MSG", "LOGINOUT_MSG"}
    BY DEF Message
  <2>4. /\ Carries(toServer, {"LOGINOUT_MSG"}) /\ alive => Carries(toServer', {"LOGINOUT_MSG"})
        /\ Carries(toServer', {"LOGIN_MSG"}) => Carries(toServer, {"LOGIN_MSG"})
    BY <1>t, <2>1, <2>2, <2>3, SendQueue
  <2>5. ~Known
    BY <1>t, <2>1, LoginStage, NoStage DEF Known
  <2>6. QED
    BY <2>1, <2>4, <2>5, EntriesKept
<1>4. ASSUME Wake PROVE EntryOK'
  <2>1. /\ UNCHANGED <<toServer, toClient, reader, handler, alive, conn, entries, ignored>>
        /\ main \in Awaiting /\ rwsem = 1
        /\ main' = IF main = "waitLogin" /\ g_isLoginSuccess THEN "chat" ELSE "menu"
    BY <1>4, <1>t DEF Wake, StageOK
  <2>2. handler # "login" /\ ~Answered /\ reader = "recv"
    BY <1>t, <2>1 DEF StageOK
  <2>3. Known => Known'
    BY <2>1, <2>2, LoginStage DEF Known
  <2>4. QED
    BY <2>1, <2>3, EntriesKept
<1>5. ASSUME NEW r \in Commanded, Command(r) PROVE EntryOK'
  <2>1. r \in Requests /\ r.msgid \notin {"LOGIN_MSG", "LOGINOUT_MSG"}
    BY DEF Commanded, UserCommands
  <2>2. Send(r) /\ UNCHANGED <<process, service>> /\ main = "chat"
    BY <1>5 DEF Command
  <2>3. /\ Carries(toServer, {"LOGINOUT_MSG"}) /\ alive => Carries(toServer', {"LOGINOUT_MSG"})
        /\ Carries(toServer', {"LOGIN_MSG"}) => Carries(toServer, {"LOGIN_MSG"})
    BY <1>t, <2>1, <2>2, SendQueue
  <2>4. Known'
    BY <2>2 DEF Known
  <2>5. QED
    BY <2>2, <2>3, <2>4, EntriesKept
<1>6. ASSUME Loginout PROVE EntryOK'
  <2>1. /\ Send(Message("LOGINOUT_MSG", g_currentUser, NoId)) /\ main = "chat"
        /\ UNCHANGED <<service, reader>>
    BY <1>6 DEF Loginout
  <2>2. Message("LOGINOUT_MSG", g_currentUser, NoId) \in Requests
    BY <1>t, MessageTypes DEF UserCommands, TypeOK
  <2>3. Message("LOGINOUT_MSG", g_currentUser, NoId).msgid = "LOGINOUT_MSG"
    BY DEF Message
  <2>4. /\ alive => Carries(toServer', {"LOGINOUT_MSG"})
        /\ Carries(toServer', {"LOGIN_MSG"}) => Carries(toServer, {"LOGIN_MSG"})
    BY <1>t, <2>1, <2>2, <2>3, SendQueue
  <2>5. QED
    BY <2>1, <2>4 DEF EntryOK
<1>7. ASSUME Quit PROVE EntryOK'
  <2>1. main' = "gone" /\ UNCHANGED <<alive, conn, entries, ignored>>
    BY <1>7 DEF Quit
  <2>2. /\ Carries(toServer', {"LOGIN_MSG"}) => Carries(toServer, {"LOGIN_MSG"})
        /\ Asked' => toServer' = toServer
    BY <1>7, <1>t, QuitQueue
  <2>3. Carries(toServer', {"LOGIN_MSG"}) => Asked'
    BY DEF Asked, Carries, Ask
  <2>4. QED
    BY <2>1, <2>2, <2>3, EntriesKept
<1>8. ASSUME Recv PROVE EntryOK'
  <2>1. /\ UNCHANGED <<toServer, main, handler, alive, conn, entries, ignored>>
        /\ reader = "recv" /\ toClient # <<>>
        /\ answer' = Head(toClient) /\ toClient' = Tail(toClient)
        /\ Success(answer') => reader' = "login"
        /\ ~(answer'.msgid = "LOGIN_MSG_ACK" /\ answer'.id = NoId) =>
             UNCHANGED g_isLoginSuccess
    BY <1>8 DEF Recv, Success
  <2>2. Succeeded => Succeeded' \/ Success(answer')
    <3>1. /\ \A i \in 1..Len(toClient) :
               i = 1 \/ /\ i - 1 \in 1..Len(toClient')
                        /\ toClient'[i - 1] = toClient[i]
          /\ answer' = toClient[1]
      <4>1. /\ toClient \in Seq(Answers)
            /\ Len(Tail(toClient)) = Len(toClient) - 1 /\ Len(toClient) \in Nat
            /\ \A i \in 1..Len(Tail(toClient)) : Tail(toClient)[i] = toClient[i + 1]
            /\ Head(toClient) = toClient[1]
        BY <1>t, <2>1, HeadTailProperties DEF TypeOK
      <4>2. \A i \in 1..Len(toClient) :
              i = 1 \/ (i - 1 \in 1..Len(Tail(toClient)) /\ (i - 1) + 1 = i)
        BY <4>1
      <4>3. QED
        BY <2>1, <4>1, <4>2
    <3>2. QED
      BY <3>1 DEF Succeeded
  <2>3. main = "waitLogin" /\ g_isLoginSuccess => UNCHANGED g_isLoginSuccess
    <3>1. answer'.msgid \in Ack => Answered
      BY <1>8, <1>t, RecvQueue
    <3>2. QED
      BY <1>t, <1>8, <2>1, <3>1, KindSets DEF FlagOK, Recv
  <2>4. Known => Known'
    BY <2>1, <2>2, <2>3 DEF Known
  <2>5. QED
    BY <2>1, <2>4, EntriesKept
<1>9. ASSUME DoLoginResponse PROVE EntryOK'
  <2>1. /\ UNCHANGED <<toServer, toClient, main, handler, alive, conn, entries, ignored>>
        /\ reader = "login" /\ g_isLoginSuccess'
    BY <1>9 DEF DoLoginResponse
  <2>2. main = "waitLogin"
    BY <1>t, <2>1 DEF FlagOK, LoggingIn, QueueOK
  <2>3. Known'
    BY <2>1, <2>2 DEF Known
  <2>4. QED
    BY <2>1, <2>3, EntriesKept
<1>10. ASSUME Post PROVE EntryOK'
  <2>1. /\ UNCHANGED <<toServer, toClient, main, g_isLoginSuccess, handler, alive, conn,
                       entries, ignored>>
        /\ reader = "post"
    BY <1>10 DEF Post
  <2>2. Known => Known'
    BY <2>1 DEF Known, Succeeded
  <2>3. QED
    BY <2>1, <2>2, EntriesKept
<1>11. ASSUME HandleReg PROVE EntryOK'
  <2>1. PICK new \in Ids : Reply(Message("REG_MSG_ACK", new, {}))
    BY <1>11 DEF HandleReg
  <2>2. /\ Message("REG_MSG", NoId, NoId).msgid # "LOGINOUT_MSG"
        /\ Message("REG_MSG", NoId, NoId).msgid \in Ask
        /\ Read(Message("REG_MSG", NoId, NoId))
        /\ UNCHANGED <<process, entries, conn, alive, handler>>
    BY <1>11 DEF HandleReg, Message, Ask
  <2>3. main # "gone" => main \in Awaiting /\ ~Answered
    BY <1>t, <2>2, ReadAsk
  <2>4. main # "gone" /\ Known => Known'
    BY <2>2, <2>3, LoginStage DEF Known
  <2>5. QED
    BY <1>t, <2>2, <2>4, ReadEntries
<1>12. ASSUME HandleClose PROVE EntryOK'
  <2>1. /\ UNCHANGED <<toServer, main, alive, ignored>>
        /\ main = "gone" /\ toServer = <<>> /\ Len(toServer) = 0
        /\ \/ \E u \in entries : entries' = entries \ {u}
           \/ entries = {} /\ entries' = {}
    BY <1>12 DEF HandleClose
  <2>2. alive /\ "LOGINOUT_MSG" \notin ignored => entries' = {}
    BY <2>1 DEF EntryOK
  <2>3. QED
    BY <2>1, <2>2 DEF EntryOK
<1>13. ASSUME alive, Stops PROVE EntryOK'
  BY <1>13 DEF Stops, EntryOK
<1>14. ASSUME NEW u \in UserIds, HandleLogin(u) PROVE EntryOK'
  <2>1. /\ Message("LOGIN_MSG", u, NoId).msgid = "LOGIN_MSG"
        /\ Read(Message("LOGIN_MSG", u, NoId)) /\ UNCHANGED <<process, alive, conn>>
    BY <1>14 DEF Message, HandleLogin
  <2>2. /\ alive /\ conn = "open"
        /\ toServer = <<Message("LOGIN_MSG", u, NoId)>> /\ ~Carries(toServer', Kinds)
        /\ Carries(toServer, {"LOGIN_MSG"}) /\ ignored \subseteq ignored'
    BY <1>t, <2>1, KindSets, ReadKinds, ReadUser
  <2>3. ~Carries(toServer, {"LOGINOUT_MSG"}) /\ ~Carries(toServer', {"LOGIN_MSG"})
    BY <2>1, <2>2, KindSets DEF Carries
  <2>4. "LOGINOUT_MSG" \notin ignored => entries = {}
    BY <2>2, <2>3 DEF EntryOK
  <2>5. ASSUME handler' = "login", entries' = entries \cup {u} PROVE EntryOK'
    BY <2>1, <2>2, <2>3, <2>4, <2>5 DEF EntryOK, Known
  <2>6. ASSUME entries' = entries PROVE EntryOK'
    BY <2>1, <2>2, <2>3, <2>4, <2>6 DEF EntryOK
  <2>7. QED
    BY <1>14, <2>5, <2>6 DEF HandleLogin
<1>15. ASSUME NEW u \in UserIds, HandleChat(u) PROVE EntryOK'
  <2>1. /\ Message("CHAT", u, NoId).msgid # "LOGINOUT_MSG"
        /\ Read(Message("CHAT", u, NoId))
        /\ UNCHANGED <<process, toClient, alive, conn, entries, handler>>
    BY <1>15 DEF HandleChat, Message
  <2>2. Known => Known'
    BY <2>1 DEF Known, Succeeded
  <2>3. QED
    BY <1>t, <2>1, <2>2, ReadEntries
<1>16. ASSUME NEW u \in UserIds, HandleCreateGroup(u) PROVE EntryOK'
  <2>1. /\ Message("CREATE_GROUP_MSG", u, NoId).msgid # "LOGINOUT_MSG"
        /\ Read(Message("CREATE_GROUP_MSG", u, NoId)) /\ handler = "idle"
        /\ UNCHANGED <<process, toClient, alive, conn, entries>>
    BY <1>16 DEF HandleCreateGroup, Message, Read
  <2>2. Known => Known'
    BY <2>1 DEF Known, Succeeded
  <2>3. QED
    BY <1>t, <2>1, <2>2, ReadEntries
<1>17. ASSUME NEW u \in UserIds, HandleLoginout(u) PROVE EntryOK'
  <2>1. /\ Message("LOGINOUT_MSG", u, NoId).msgid = "LOGINOUT_MSG"
        /\ Message("LOGINOUT_MSG", u, NoId).id = u
        /\ Read(Message("LOGINOUT_MSG", u, NoId))
        /\ UNCHANGED <<alive, conn>> /\ entries' = entries \ {u}
    BY <1>17 DEF Message, HandleLoginout
  <2>2. u \in entries /\ ignored \subseteq ignored' /\ alive
    BY <1>t, <2>1, KindSets, ReadKinds, ReadUser
  <2>3. "LOGINOUT_MSG" \notin ignored' => entries' = {}
    BY <2>1, <2>2 DEF EntryOK
  <2>4. QED
    BY <2>3 DEF EntryOK
<1>18. ASSUME NEW u \in UserIds, NEW f \in UserIds, HandleAddFriend(u, f)
       PROVE  EntryOK'
  <2>1. /\ Message("ADD_FRIEND_MSG", u, f).msgid # "LOGINOUT_MSG"
        /\ Read(Message("ADD_FRIEND_MSG", u, f))
        /\ UNCHANGED <<process, toClient, alive, conn, entries, handler>>
    BY <1>18 DEF HandleAddFriend, Message
  <2>2. Known => Known'
    BY <2>1 DEF Known, Succeeded
  <2>3. QED
    BY <1>t, <2>1, <2>2, ReadEntries
<1>19. ASSUME LoginAck PROVE EntryOK'
  <2>1. /\ Reply(Message("LOGIN_MSG_ACK", id, ListsOf(id)))
        /\ UNCHANGED <<toServer, main, alive, conn, entries, ignored>>
        /\ handler = "login"
    BY <1>19 DEF LoginAck
  <2>2. ASSUME main # "gone" PROVE Known'
    <3>1. id \in UserIds /\ id # NoId
      BY <1>t, <2>1, Constants DEF LocalsOK, StageInv
    <3>2. Success(Message("LOGIN_MSG_ACK", id, ListsOf(id)))
      BY <3>1 DEF Message, Success
    <3>3. toClient' = Append(toClient, Message("LOGIN_MSG_ACK", id, ListsOf(id)))
      BY <2>1, <2>2 DEF Reply
    <3>4. /\ Len(toClient') \in 1..Len(toClient')
          /\ toClient'[Len(toClient')] = Message("LOGIN_MSG_ACK", id, ListsOf(id))
      BY <1>t, <3>3 DEF TypeOK
    <3>5. QED
      BY <3>2, <3>4 DEF Known, Succeeded
  <2>3. QED
    BY <2>1, <2>2, EntriesKept
<1>20. ASSUME AddCreator PROVE EntryOK'
  <2>1. /\ UNCHANGED <<process, toServer, toClient, alive, conn, entries, ignored>>
        /\ handler = "creator"
    BY <1>20 DEF AddCreator
  <2>2. Known => Known'
    BY <2>1 DEF Known, Succeeded
  <2>3. QED
    BY <2>1, <2>2, EntriesKept
<1>21. ASSUME Push PROVE EntryOK'
  <2>1. /\ Reply(Nothing) /\ main # "gone"
        /\ UNCHANGED <<process, toServer, service>>
    BY <1>21 DEF Push
  <2>2. Succeeded => Succeeded'
    <3>1. toClient' = Append(toClient, Nothing) /\ toClient \in Seq(Answers)
      BY <1>t, <2>1 DEF Reply, TypeOK
    <3>2. \A i \in 1..Len(toClient) :
            i \in 1..Len(toClient') /\ toClient'[i] = toClient[i]
      BY <3>1, AppendProperties
    <3>3. QED
      BY <3>2 DEF Succeeded
  <2>3. Known => Known'
    BY <2>1, <2>2 DEF Known
  <2>4. QED
    BY <2>1, <2>3, EntriesKept
<1>22. ASSUME \/ UNCHANGED vars
              \/ \E u \in UserIds : OtherCreatesGroup(u)
       PROVE  EntryOK'
  <2>1. UNCHANGED <<process, wire, service>>
    BY <1>22 DEF OtherCreatesGroup
  <2>2. Known => Known'
    BY <2>1 DEF Known, Succeeded
  <2>3. QED
    BY <2>1, <2>2, EntriesKept
<1>23. QED
  BY NextCases, <1>t, <1>1, <1>2, <1>3, <1>4, <1>5, <1>6, <1>7, <1>8, <1>9, <1>10,
     <1>11, <1>12, <1>13, <1>14, <1>15, <1>16, <1>17, <1>18, <1>19, <1>20, <1>21, <1>22

----------------------------------------------------------------------------
(* Groups                                                                  *)

\* AUTO_INCREMENT gives an id that no group has, and the next one after it.
LEMMA NewGroup ==
  ASSUME TypeOK, allgroup = 1..Cardinality(allgroup), NEW g, g = NewId(allgroup),
         allgroup' = allgroup \cup {g}
  PROVE  g \notin allgroup /\ allgroup' = 1..Cardinality(allgroup')
<1> DEFINE n == Cardinality(allgroup)
<1>1. IsFiniteSet(allgroup)
  <2>1. 1 \in Int /\ MaxGroup \in Int
    BY AccountsAssumption
  <2>2. IsFiniteSet(GroupIds)
    BY <2>1, FS_Interval DEF GroupIds
  <2>3. QED
    BY <2>2, FS_Subset DEF TypeOK, TablesOK
<1>2. n \in Nat /\ g = n + 1 /\ allgroup = 1..n
  BY <1>1, FS_CardinalityType DEF NewId
<1> HIDE DEF n
<1>3. g \notin allgroup /\ allgroup' = 1..(n + 1)
  BY <1>2
<1>4. Cardinality(1..(n + 1)) = n + 1
  BY <1>2, FS_Interval
<1>5. QED
  BY <1>3, <1>4

LEMMA GroupsKept ==
  ASSUME GroupOK, UNCHANGED <<allgroup, groupuser, sqlFailed, gid>>, alive' => alive,
         handler = "creator" => handler' = "creator"
  PROVE  GroupOK'
<1>1. \A g : Creators(g)' = Creators(g)
  BY DEF Creators
<1>2. QED
  BY <1>1 DEF GroupOK

\* A user becomes the creator of a group that had none.
LEMMA CreatorAdded ==
  ASSUME NEW u \in UserIds, NEW g \in GroupIds,
         groupuser' = groupuser \cup {<<u, g, "creator">>}
  PROVE  \A h : Creators(h)' = IF h = g THEN Creators(h) \cup {u} ELSE Creators(h)
BY DEF Creators

LEMMA GroupInit == Init => GroupInv
<1> SUFFICES ASSUME Init PROVE GroupInv
  OBVIOUS
<1>1. allgroup = {} /\ groupuser = {} /\ gid = NoId
  BY DEF Init, TablesInit
<1>2. allgroup = 1..Cardinality(allgroup)
  BY <1>1, FS_EmptySet
<1>3. \A g : Creators(g) = {}
  BY <1>1 DEF Creators
<1>4. QED
  BY <1>1, <1>2, <1>3, TypeInit DEF GroupInv, GroupOK

LEMMA GroupNext == GroupInv /\ [Next]_vars => GroupInv'
<1> SUFFICES ASSUME TypeOK, LocalsOK, GroupOK, [Next]_vars PROVE GroupOK'
  BY TypeNext DEF GroupInv
<1>1. ASSUME NEW u \in UserIds, HandleCreateGroup(u) PROVE GroupOK'
  <2>1. PICK g \in GroupIds \cup {NoId} :
          /\ InsertGroup(g)
          /\ IF g # NoId THEN handler' = "creator" /\ gid' = g
                         ELSE UNCHANGED <<handler, gid>>
    BY <1>1 DEF HandleCreateGroup
  <2>2. handler = "idle" /\ gid = NoId /\ UNCHANGED <<groupuser, sqlFailed, alive>>
    BY <1>1 DEF HandleCreateGroup, Read, GroupOK
  <2>3. \A h : Creators(h)' = Creators(h)
    BY <2>2 DEF Creators
  <2>4. CASE UNCHANGED allgroup /\ g = NoId
    BY <2>1, <2>2, <2>4, GroupsKept
  <2>5. CASE g = NewId(allgroup) /\ g \in GroupIds /\ allgroup' = allgroup \cup {g}
    <3>1. g \notin allgroup /\ allgroup' = 1..Cardinality(allgroup')
      BY <2>5, NewGroup DEF GroupOK
    <3>2. g # NoId /\ handler' = "creator" /\ gid' = g
      BY <2>1, <2>5, Constants
    <3>3. Creators(g) = {}
      BY <2>5, <3>1 DEF GroupOK
    <3>4. \A h \in allgroup' : h \in allgroup \/ gid' = h
      BY <2>5, <3>2
    <3>5. \A h \in allgroup : Creators(h) # {} \/ sqlFailed \/ ~alive
      BY <2>2, Constants DEF GroupOK, TypeOK, TablesOK
    <3>6. QED
      BY <2>2, <2>3, <2>5, <3>1, <3>2, <3>3, <3>4, <3>5 DEF GroupOK
  <2>6. QED
    BY <2>1, <2>4, <2>5 DEF InsertGroup
<1>2. ASSUME AddCreator PROVE GroupOK'
  <2>1. /\ handler = "creator" /\ id \in UserIds /\ gid \in GroupIds /\ gid # NoId
        /\ AddMember(id, gid, "creator") /\ gid' = NoId
        /\ UNCHANGED <<allgroup, alive>>
    BY <1>2, Constants DEF AddCreator, LocalsOK
  <2>2. gid \in allgroup /\ Creators(gid) = {}
    BY <2>1 DEF GroupOK
  <2>3. CASE groupuser' = groupuser \cup {<<id, gid, "creator">>} /\ UNCHANGED sqlFailed
    <3>1. \A h : Creators(h)' = IF h = gid THEN {id} ELSE Creators(h)
      BY <2>1, <2>2, <2>3, CreatorAdded
    <3>2. QED
      BY <2>1, <2>2, <2>3, <3>1 DEF GroupOK
  <2>4. CASE sqlFailed' /\ UNCHANGED groupuser
    <3>1. \A h : Creators(h)' = Creators(h)
      BY <2>4 DEF Creators
    <3>2. QED
      BY <2>1, <2>4, <3>1 DEF GroupOK
  <2>5. QED
    BY <2>1, <2>3, <2>4 DEF AddMember
<1>3. ASSUME NEW u \in UserIds, OtherCreatesGroup(u) PROVE GroupOK'
  <2>1. PICK g \in GroupIds :
          /\ g = NewId(allgroup)
          /\ allgroup' = allgroup \cup {g}
          /\ groupuser' = groupuser \cup {<<u, g, "creator">>}
    BY <1>3 DEF OtherCreatesGroup
  <2>2. UNCHANGED <<handler, gid, alive, sqlFailed>>
    BY <1>3 DEF OtherCreatesGroup
  <2>3. g \notin allgroup /\ allgroup' = 1..Cardinality(allgroup')
    BY <2>1, NewGroup DEF GroupOK
  <2>4. Creators(g) = {}
    BY <2>3 DEF GroupOK
  <2>5. \A h : Creators(h)' = IF h = g THEN {u} ELSE Creators(h)
    BY <2>1, <2>4, CreatorAdded
  <2>6. QED
    BY <2>1, <2>2, <2>3, <2>5 DEF GroupOK
<1>4. ASSUME UNCHANGED <<allgroup, groupuser, sqlFailed, gid, alive>>,
             handler = "creator" => handler' = "creator"
      PROVE  GroupOK'
  BY <1>4, GroupsKept
<1>5. ASSUME NEW r, Read(r) PROVE handler # "creator"
  BY <1>5 DEF Read
<1>6. ASSUME HandleReg \/ HandleClose \/ LoginAck PROVE GroupOK'
  BY <1>4, <1>5, <1>6 DEF HandleReg, HandleClose, LoginAck
<1>7. ASSUME NEW u \in UserIds,
             \/ HandleLogin(u) \/ HandleChat(u) \/ HandleLoginout(u)
             \/ \E f \in UserIds : HandleAddFriend(u, f)
      PROVE  GroupOK'
  BY <1>4, <1>5, <1>7 DEF HandleLogin, HandleChat, HandleLoginout, HandleAddFriend
<1>8. ASSUME alive /\ Stops PROVE GroupOK'
  BY <1>8, GroupsKept DEF Stops
<1>9. ASSUME \/ ResetLogin \/ SendReg \/ Loginout \/ Wake \/ Quit
             \/ Recv \/ DoLoginResponse \/ Post \/ Push \/ UNCHANGED vars
             \/ \E r \in Commanded : Command(r)
             \/ \E u \in UserIds : SendLogin(u)
      PROVE  GroupOK'
  BY <1>4, <1>9 DEF ResetLogin, SendReg, Loginout, Wake, Quit, Recv, DoLoginResponse,
                    Post, Push, Command, SendLogin
<1>10. QED
  BY NextCases, <1>1, <1>2, <1>3, <1>6, <1>7, <1>8, <1>9

----------------------------------------------------------------------------
(* Where an answer is pending                                              *)

LEMMA PendingPlaces ==
  ASSUME TypeOK
  PROVE  \A x : x \in Pending <=>
           \/ \E i \in 1..Len(toServer) : toServer[i].msgid \in Ask /\ x = <<"toServer", i>>
           \/ handler = "login" /\ x = <<"handler", 1>>
           \/ \E i \in 1..Len(toClient) : toClient[i].msgid \in Ack /\ x = <<"toClient", i>>
           \/ reader # "recv" /\ x = <<"reader", 1>>
           \/ \E i \in 1..rwsem : x = <<"rwsem", i>>
<1>1. \A i \in 1..Len(toClient) :
        toClient[i].msgid # "CHAT" <=> toClient[i].msgid \in Ack
  <2>1. \A m \in Answers : m.msgid # "CHAT" <=> m.msgid \in Ack
    BY DEF Answers, Ack
  <2>2. \A i \in 1..Len(toClient) : toClient[i] \in Answers
    BY DEF TypeOK
  <2>3. QED
    BY <2>1, <2>2
<1>2. reader # "recv" <=> reader \in {"login", "post"}
  BY DEF TypeOK
<1>3. QED
  BY <1>1, <1>2 DEF Pending, Ask

\* At most one answer is pending, and where.
LEMMA PendingOnce ==
  ASSUME StageInv, main # "gone"
  PROVE  /\ Pending = {} \/ \E x : Pending = {x}
         /\ Pending = {} <=> /\ ~Asked /\ handler # "login" /\ ~Answered
                             /\ reader = "recv" /\ rwsem = 0
<1>1. \A x : x \in Pending <=>
        \/ \E i \in 1..Len(toServer) : toServer[i].msgid \in Ask /\ x = <<"toServer", i>>
        \/ handler = "login" /\ x = <<"handler", 1>>
        \/ \E i \in 1..Len(toClient) : toClient[i].msgid \in Ack /\ x = <<"toClient", i>>
        \/ reader # "recv" /\ x = <<"reader", 1>>
        \/ \E i \in 1..rwsem : x = <<"rwsem", i>>
  BY PendingPlaces DEF StageInv
<1>2. /\ OneAnswer(toClient) /\ rwsem \in {0, 1}
      /\ Asked => handler # "login" /\ ~Answered /\ reader = "recv" /\ rwsem = 0
      /\ handler = "login" => ~Answered /\ reader = "recv" /\ rwsem = 0
      /\ Answered => reader = "recv" /\ rwsem = 0
      /\ reader # "recv" => rwsem = 0
  BY DEF StageInv, StageOK
<1>3. \A i, j \in 1..Len(toServer) :
        toServer[i].msgid \in Ask /\ toServer[j].msgid \in Ask => i = j
  <2>1. SUFFICES ASSUME NEW i \in 1..Len(toServer), NEW j \in 1..Len(toServer),
                        toServer[i].msgid \in Ask, toServer[j].msgid \in Ask
                 PROVE  i = j
    OBVIOUS
  <2>2. ~(i < j) /\ ~(j < i)
    BY <2>1 DEF StageInv, QueueOK, Ordered
  <2>3. i \in Int /\ j \in Int
    BY DEF StageInv, TypeOK
  <2>4. QED
    BY <2>2, <2>3
<1>4. 1..0 = {} /\ 1..1 = {1}
  OBVIOUS
<1>5. (1..rwsem = {} /\ rwsem = 0) \/ (1..rwsem = {1} /\ rwsem = 1 /\ rwsem # 0)
  BY <1>2, <1>4
<1>6. CASE Asked
  <2>1. PICK i \in 1..Len(toServer) : toServer[i].msgid \in Ask
    BY <1>6 DEF Asked, Carries
  <2>2. \A x : x \in Pending <=> x = <<"toServer", i>>
    BY <1>1, <1>2, <1>3, <1>5, <1>6, <2>1 DEF Answered, Carries
  <2>3. Pending = {<<"toServer", i>>}
    BY <2>2
  <2>4. QED
    BY <1>6, <2>3
<1>7. CASE ~Asked /\ Answered
  <2>1. PICK i \in 1..Len(toClient) : toClient[i].msgid \in Ack
    BY <1>7 DEF Answered, Carries
  <2>2. \A x : x \in Pending <=> x = <<"toClient", i>>
    BY <1>1, <1>2, <1>5, <1>7, <2>1 DEF Asked, Carries, OneAnswer
  <2>3. Pending = {<<"toClient", i>>}
    BY <2>2
  <2>4. QED
    BY <1>7, <2>3
<1>8. CASE ~Asked /\ ~Answered
  <2>1. \A x : x \in Pending <=>
          \/ handler = "login" /\ x = <<"handler", 1>>
          \/ reader # "recv" /\ x = <<"reader", 1>>
          \/ \E i \in 1..rwsem : x = <<"rwsem", i>>
    BY <1>1, <1>8 DEF Asked, Answered, Carries
  <2>2. CASE handler = "login"
    <3>1. \A x : x \in Pending <=> x = <<"handler", 1>>
      BY <1>2, <1>5, <2>1, <2>2
    <3>2. Pending = {<<"handler", 1>>}
      BY <3>1
    <3>3. QED
      BY <2>2, <3>2
  <2>3. CASE reader # "recv" /\ handler # "login"
    <3>1. \A x : x \in Pending <=> x = <<"reader", 1>>
      BY <1>2, <1>5, <2>1, <2>3
    <3>2. Pending = {<<"reader", 1>>}
      BY <3>1
    <3>3. QED
      BY <2>3, <3>2
  <2>4. CASE reader = "recv" /\ handler # "login" /\ rwsem = 0
    <3>1. \A x : x \notin Pending
      BY <1>5, <2>1, <2>4
    <3>2. QED
      BY <1>8, <2>4, <3>1
  <2>5. CASE reader = "recv" /\ handler # "login" /\ rwsem # 0
    <3>1. \A x : x \in Pending <=> x = <<"rwsem", 1>>
      BY <1>5, <2>1, <2>5
    <3>2. Pending = {<<"rwsem", 1>>}
      BY <3>1
    <3>3. QED
      BY <2>5, <3>2
  <2>6. QED
    BY <2>2, <2>3, <2>4, <2>5
<1>9. QED
  BY <1>6, <1>7, <1>8

----------------------------------------------------------------------------
(* Theorems                                                                *)

LEMMA EntryAlways == Spec => []EntryInv
<1>1. EntryInv /\ [Next]_vars => EntryInv'
  BY EntryNext
<1>2. QED
  BY <1>1, EntryInit, PTL DEF Spec

\* What the variables hold.
THEOREM ClientTypes == Spec => []TypeOK
<1>1. EntryInv => TypeOK
  BY DEF EntryInv, UserInv, StageInv
<1>2. QED
  BY <1>1, EntryAlways, PTL

\* The semaphore fits the protocol (main.cpp:98-156, 343-399): whatever the reads of
\* both ends return, a main thread that waits has one answer coming, or none ever.
THEOREM OneAnswerPerWait == Spec => []AnswerAwaited
<1>1. ASSUME StageInv PROVE AnswerAwaited
  <2>1. SUFFICES ASSUME main # "gone"
                 PROVE  IF main \in Awaiting
                        THEN \/ Cardinality(Pending) = 1
                             \/ /\ Pending = {}
                                /\ ignored \cap {"LOGIN_MSG", "REG_MSG"} # {} \/ ~alive
                        ELSE Pending = {}
    BY DEF AnswerAwaited
  <2>2. CASE main \in Awaiting
    <3>1. CASE Pending = {}
      <4>1. ignored \cap Ask # {} \/ ~alive
        BY <1>1, <2>1, <2>2, <3>1, PendingOnce DEF StageInv, StageOK
      <4>2. QED
        BY <2>2, <3>1, <4>1 DEF Ask
    <3>2. CASE \E x : Pending = {x}
      BY <2>2, <3>2, FS_Singleton
    <3>3. QED
      BY <1>1, <2>1, <3>1, <3>2, PendingOnce
  <2>3. CASE main \notin Awaiting
    BY <1>1, <2>1, <2>3, NoStage, PendingOnce DEF StageInv
  <2>4. QED
    BY <2>2, <2>3
<1>2. EntryInv => StageInv
  BY DEF EntryInv, UserInv
<1>3. QED
  BY <1>1, <1>2, EntryAlways, PTL

\* In the main menu g_currentUser is a user the server has the connection for,
\* although readTask writes it and failed logins come in two forms.
THEOREM ClientSpeaksForItsUser == Spec => []SpeaksForUser
<1>1. EntryInv => SpeaksForUser
  BY DEF EntryInv, UserInv, UserOK, SpeaksForUser
<1>2. QED
  BY <1>1, EntryAlways, PTL

\* The server gets what Chatservice takes for granted of its clients: commands of
\* users with an entry, and logins on connections without one.
THEOREM ServerGetsFittingRequests == Spec => []RequestsFit
<1>1. ASSUME EntryInv PROVE RequestsFit
  <2>1. SUFFICES ASSUME alive, handler = "idle", toServer # <<>>
                 PROVE  /\ Head(toServer).msgid \in UserCommands => Head(toServer).id \in entries
                        /\ Head(toServer).msgid = "LOGIN_MSG" =>
                             entries = {} \/ "LOGINOUT_MSG" \in ignored
    BY DEF RequestsFit
  <2>2. /\ Head(toServer) = toServer[1] /\ 1 \in 1..Len(toServer)
        /\ Len(toServer) \in Nat
    <3>1. toServer \in Seq(Requests)
      BY <1>1 DEF EntryInv, UserInv, StageInv, TypeOK
    <3>2. QED
      BY <2>1, <3>1
  <2>3. toServer[1].msgid \in UserCommands => toServer[1].id \in entries
    BY <1>1, <2>1, <2>2 DEF EntryInv, UserInv, UserOK
  <2>4. ASSUME toServer[1].msgid = "LOGIN_MSG"
        PROVE  entries = {} \/ "LOGINOUT_MSG" \in ignored
    <3>1. Carries(toServer, {"LOGIN_MSG"})
      BY <2>2, <2>4 DEF Carries
    <3>2. \A i \in 1..Len(toServer) : ~(1 < i)
      BY <1>1, <2>2, <2>4 DEF EntryInv, UserInv, StageInv, QueueOK, Ordered, Ask
    <3>3. \A i \in 1..Len(toServer) : i = 1
      BY <2>2, <3>2
    <3>4. ~Carries(toServer, {"LOGINOUT_MSG"})
      BY <2>4, <3>3 DEF Carries
    <3>5. QED
      BY <1>1, <2>1, <3>1, <3>4 DEF EntryInv, EntryOK
  <2>5. QED
    BY <2>2, <2>3, <2>4
<1>2. QED
  BY <1>1, EntryAlways, PTL

\* clientCloseException looks for one entry, and one is all there is.
THEOREM CloseFindsItsEntry == Spec => []ClosedLeavesNothing
<1>1. EntryInv => ClosedLeavesNothing
  BY DEF EntryInv, EntryOK, ClosedLeavesNothing
<1>2. QED
  BY <1>1, EntryAlways, PTL

\* createGroup's two statements (groupmodel.cpp:5-29), with any others in between,
\* give every group one creator, or none for one of the known reasons.
THEOREM GroupsHaveOneCreator == Spec => []GroupHasItsCreator
<1>1. GroupInv /\ [Next]_vars => GroupInv'
  BY GroupNext
<1>2. ASSUME GroupInv PROVE GroupHasItsCreator
  <2>1. SUFFICES ASSUME NEW g \in allgroup
                 PROVE  \/ Cardinality(Creators(g)) = 1
                        \/ Creators(g) = {} /\ (gid = g \/ sqlFailed \/ ~alive)
    BY DEF GroupHasItsCreator
  <2>2. g \in GroupIds
    BY <1>2 DEF GroupInv, TypeOK, TablesOK
  <2>3. CASE Creators(g) = {}
    BY <1>2, <2>3 DEF GroupInv, GroupOK
  <2>4. CASE Creators(g) # {}
    <3>1. PICK u : u \in Creators(g)
      BY <2>4
    <3>2. \A v \in Creators(g) : v = u
      BY <1>2, <2>2, <3>1 DEF GroupInv, GroupOK
    <3>3. Creators(g) = {u}
      BY <3>1, <3>2
    <3>4. QED
      BY <3>3, FS_Singleton
  <2>5. QED
    BY <2>3, <2>4
<1>3. QED
  BY <1>1, <1>2, GroupInit, PTL DEF Spec

============================================================================
