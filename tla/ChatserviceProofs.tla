------------------------- MODULE ChatserviceProofs -------------------------
(***************************************************************************)
(* Safety of Chatservice for every number of servers, connections, users   *)
(* and messages.  Each property is a consequence of an inductive invariant *)
(* that is built in layers: types, who may own a map entry, whom a stored  *)
(* or published message is for, and the state column as a lock.            *)
(***************************************************************************)
EXTENDS Chatservice, TLAPS

----------------------------------------------------------------------------
(* Types                                                                   *)

\* The locals of a handler are set while it may use them.
LocalsOK ==
  \A c \in Conns :
    /\ pc[c] \in LoginPcs \cup {"setOffline"} => uid[c] \in Users
    /\ pc[c] \in ChatPcs => msg[c] \in ChatMsgs
    /\ pc[c] \in GroupPcs => msg[c] \in GroupMsgs /\ session[c] \in Users

TypeInv == TypeOK /\ LocalsOK

USE DEF db, redis, client, handler, memory, Goto, MutexFree, Find, QueryState,
        QueryRows, Observed, Msgs, NoRows,
        LoginPcs, LogoutPcs, ChatPcs, GroupPcs, MsgPcs

\* Replacing one entry keeps a table's type.
LEMMA PutType ==
  ASSUME NEW X, NEW Y, NEW Z, NEW f \in [X -> [Y -> Z]], NEW x \in X,
         NEW y \in Y, NEW z \in Z
  PROVE  [f EXCEPT ![x][y] = z] \in [X -> [Y -> Z]]
<1>1. [f[x] EXCEPT ![y] = z] \in [Y -> Z]
  OBVIOUS
<1>2. QED
  BY <1>1

\* Counting one more copy keeps the type of the tables of copies.
LEMMA PushType ==
  ASSUME TypeOK, NEW c \in Conns, NEW m \in Msgs, Push(c, m)
  PROVE  pushed' \in [Conns -> [Msgs -> Nat]]
<1>1. [pushed[c] EXCEPT ![m] = @ + 1] \in [Msgs -> Nat]
  BY DEF TypeOK
<1>2. QED
  BY <1>1 DEF Push, TypeOK

\* A statement that fails changes no table and is counted.
LEMMA FailureType ==
  ASSUME TypeOK, UpdateFails
  PROVE  failures' \in Nat
BY DEF TypeOK, UpdateFails

LEMMA InsertType ==
  ASSUME TypeOK, NEW u \in Users, NEW m \in Msgs, InsertOffline(u, m)
  PROVE  offlineMessage' \in [Users -> [Msgs -> Nat]] /\ failures' \in Nat
<1>1. [offlineMessage[u] EXCEPT ![m] = @ + 1] \in [Msgs -> Nat]
  BY DEF TypeOK
<1>2. CASE UpdateFails /\ UNCHANGED offlineMessage
  BY <1>2, FailureType DEF TypeOK
<1>3. CASE /\ offlineMessage' = [offlineMessage EXCEPT ![u][m] = @ + 1]
           /\ UNCHANGED failures
  BY <1>1, <1>3 DEF TypeOK
<1>4. QED
  BY <1>2, <1>3 DEF InsertOffline

LEMMA RemoveType ==
  ASSUME TypeOK, NEW u \in Users, RemoveOffline(u)
  PROVE  offlineMessage' \in [Users -> [Msgs -> Nat]] /\ failures' \in Nat
<1>1. CASE UpdateFails /\ UNCHANGED offlineMessage
  BY <1>1, FailureType DEF TypeOK
<1>2. CASE /\ offlineMessage' = [offlineMessage EXCEPT ![u] = NoRows]
           /\ UNCHANGED failures
  BY <1>2 DEF TypeOK
<1>3. QED
  BY <1>1, <1>2 DEF RemoveOffline

LEMMA StateType ==
  ASSUME TypeOK, \/ ResetState
                 \/ \E u \in Users, state \in {"online", "offline"} : UpdateState(u, state)
  PROVE  userState' \in [Users -> {"online", "offline"}] /\ failures' \in Nat
<1>1. CASE UpdateFails /\ UNCHANGED userState
  BY <1>1, FailureType DEF TypeOK
<1>2. CASE UNCHANGED failures /\
             \/ userState' = [u \in Users |-> "offline"]
             \/ \E u \in Users, state \in {"online", "offline"} :
                  userState' = [userState EXCEPT ![u] = state]
  BY <1>2 DEF TypeOK
<1>3. QED
  BY <1>1, <1>2 DEF UpdateState, ResetState

LEMMA CommandType ==
  ASSUME TypeOK, NEW s \in Servers, NEW name \in {"SUBSCRIBE", "UNSUBSCRIBE"},
         NEW u \in Users \cup {NoUser}, Command(s, name, u)
  PROVE  subCmds' \in [Servers -> Seq({"SUBSCRIBE", "UNSUBSCRIBE"}
                                        \X (Users \cup {NoUser}))]
<1> DEFINE Cmd == {"SUBSCRIBE", "UNSUBSCRIBE"} \X (Users \cup {NoUser})
<1>1. /\ subCmds \in [Servers -> Seq(Cmd)] /\ <<name, u>> \in Cmd
      /\ \/ subCmds' = [subCmds EXCEPT ![s] = Append(@, <<name, u>>)]
         \/ subCmds' = subCmds
  BY DEF TypeOK, Command
<1> HIDE DEF Cmd
<1>2. Append(subCmds[s], <<name, u>>) \in Seq(Cmd)
  BY <1>1
<1>3. subCmds' \in [Servers -> Seq(Cmd)]
  BY <1>1, <1>2
<1>4. QED
  BY <1>3 DEF Cmd

\* TypeInv holds initially.
LEMMA TypeInit == Init => TypeInv
BY ConstAssumption DEF Init, TypeInv, TypeOK, LocalsOK

\* Every step preserves TypeInv: only the variables that an action changes in
\* a table or a queue need a step of their own.
LEMMA TypeNext == TypeInv /\ [Next]_vars => TypeInv'
<1> SUFFICES ASSUME TypeInv, [Next]_vars PROVE TypeInv'
  OBVIOUS
<1> USE ConstAssumption DEF TypeInv, TypeOK, LocalsOK
<1> DEFINE MapType == [Servers -> [Users -> Conns \cup {NoConn}]]
           CmdType == [Servers -> Seq({"SUBSCRIBE", "UNSUBSCRIBE"}
                                        \X (Users \cup {NoUser}))]
           ChannelType == [Servers -> Seq(Users \X Msgs)]
           RowType == [Users -> [Msgs -> Nat]]
           PushedType == [Conns -> [Msgs -> Nat]]
           IdsType == [Conns -> SUBSET Users]
           PcType == [Conns -> {"idle"} \cup LoginPcs \cup LogoutPcs \cup MsgPcs]
<1>1. ASSUME NEW c \in Conns, Accept(c) PROVE TypeInv'
  BY <1>1 DEF Accept
<1>2. ASSUME NEW c \in Conns, PeerClose(c) PROVE TypeInv'
  BY <1>2 DEF PeerClose
<1>3. ASSUME NEW c \in Conns, Register(c) PROVE TypeInv'
  <2>1. userConnectionMap' \in MapType
    BY <1>3 DEF Register
  <2>2. QED
    BY <1>3, <2>1, ZenonT(60) DEF Register
<1>4. ASSUME NEW c \in Conns, Subscribe(c) PROVE TypeInv'
  <2>1. subCmds' \in CmdType
    <3>1. /\ Command(ServerOf[c], "SUBSCRIBE", uid[c]) /\ ServerOf[c] \in Servers
          /\ uid[c] \in Users \cup {NoUser}
      BY <1>4 DEF Subscribe
    <3> HIDE DEF TypeOK
    <3>2. TypeOK
      BY DEF TypeInv
    <3>3. QED
      BY <3>1, <3>2, CommandType
  <2>2. QED
    BY <1>4, <2>1, ZenonT(60) DEF Subscribe
<1>5. ASSUME NEW c \in Conns, SetOnline(c) PROVE TypeInv'
  <2>1. userState' \in [Users -> {"online", "offline"}] /\ failures' \in Nat
    BY <1>5, StateType DEF SetOnline
  <2>2. QED
    BY <1>5, <2>1, ZenonT(60) DEF SetOnline
<1>6. ASSUME NEW c \in Conns, QueryOffline(c) PROVE TypeInv'
  <2>1. PICK rows \in QueryRows(uid[c]) :
          /\ vec' = [vec EXCEPT ![c] = rows]
          /\ Goto(c, IF rows = NoRows THEN "ack" ELSE "removeOffline")
    BY <1>6 DEF QueryOffline
  <2>2. pc[c] = "queryOffline" /\ uid[c] \in Users
    BY <1>6 DEF QueryOffline
  <2>8. rows = offlineMessage[uid[c]] \/ rows = NoRows
    BY <2>1
  <2>9. rows \in [Msgs -> Nat]
    <3>1. offlineMessage[uid[c]] \in [Msgs -> Nat]
      BY <2>2
    <3>2. NoRows \in [Msgs -> Nat]
      OBVIOUS
    <3>3. QED
      BY <2>8, <3>1, <3>2
  <2>3. vec' \in PushedType /\ pc' \in PcType
    BY <2>1, <2>2, <2>9
  <2>4. UNCHANGED <<db, redis, life, failures, memory, client, uid, msg, ids, sent,
                    pushed>>
    BY <1>6 DEF QueryOffline
  <2>5. TypeOK'
    BY <2>3, <2>4
  <2>6. LocalsOK'
    BY <2>1, <2>2, <2>4
  <2>7. QED
    BY <2>5, <2>6
<1>7. ASSUME NEW c \in Conns, RemoveRead(c) PROVE TypeInv'
  <2>1. offlineMessage' \in RowType /\ failures' \in Nat
    <3>1. RemoveOffline(uid[c]) /\ uid[c] \in Users
      BY <1>7 DEF RemoveRead
    <3>2. QED
      BY <3>1, RemoveType
  <2>2. QED
    BY <1>7, <2>1, ZenonT(60) DEF RemoveRead
<1>8. ASSUME NEW c \in Conns, LoginAck(c) PROVE TypeInv'
  <2>1. [m \in Msgs |-> pushed[c][m] + vec[c][m]] \in [Msgs -> Nat]
    OBVIOUS
  <2>2. pushed' \in PushedType
    BY <1>8, <2>1 DEF LoginAck
  <2>3. QED
    BY <1>8, <2>2, ZenonT(60) DEF LoginAck, Answer
<1>9. ASSUME NEW c \in Conns, ChatQuery(c) PROVE TypeInv'
  <2>1. /\ pc[c] = "chatQuery"
        /\ \E label \in {"chatPublish", "chatStore"} : pc' = [pc EXCEPT ![c] = label]
        /\ UNCHANGED <<db, redis, life, failures, memory, client, uid, msg, ids, vec,
                       sent, pushed>>
    BY <1>9 DEF ChatQuery
  <2>2. pc' \in PcType /\ UNCHANGED <<db, redis, memory, client, uid, msg, ids, vec>>
    BY <2>1
  <2>3. TypeOK'
    BY <2>1, <2>2, ZenonT(60)
  <2>4. LocalsOK'
    BY <2>1
  <2>5. QED
    BY <2>3, <2>4
<1>10. ASSUME NEW c \in Conns, ChatPublish(c) PROVE TypeInv'
  <2>1. channel' \in ChannelType
    BY <1>10 DEF ChatPublish, Publish
  <2>2. QED
    BY <1>10, <2>1, ZenonT(60) DEF ChatPublish, Publish
<1>11. ASSUME NEW c \in Conns, ChatStore(c) PROVE TypeInv'
  <2>1. offlineMessage' \in RowType /\ failures' \in Nat
    <3>1. ToId[msg[c]] \in Users /\ msg[c] \in Msgs
      BY <1>11 DEF ChatStore
    <3>2. QED
      BY <1>11, <3>1, InsertType DEF ChatStore
  <2>2. QED
    BY <1>11, <2>1, ZenonT(60) DEF ChatStore
<1>12. ASSUME NEW c \in Conns, GroupLock(c) PROVE TypeInv'
  BY <1>12, ZenonT(60) DEF GroupLock
<1>13. ASSUME NEW c \in Conns, GroupPush(c) PROVE TypeInv'
  <2>1. PICK id \in ids[c] : /\ Find(ServerOf[c], id) # NoConn
                             /\ Push(Find(ServerOf[c], id), msg[c])
                             /\ ids' = [ids EXCEPT ![c] = @ \ {id}]
    BY <1>13 DEF GroupPush
  <2>2. Find(ServerOf[c], id) \in Conns /\ msg[c] \in Msgs
    BY <1>13, <2>1 DEF GroupPush
  <2>3. pushed' \in PushedType
    BY <2>1, <2>2, PushType
  <2>4. ids' \in IdsType
    BY <2>1
  <2>5. QED
    BY <1>13, <2>3, <2>4 DEF GroupPush
<1>14. ASSUME NEW c \in Conns, GroupQuery(c) PROVE TypeInv'
  <2>1. ids' \in IdsType
    BY <1>14 DEF GroupQuery
  <2>2. \E label \in {"groupPublish", "groupStore"} : pc' = [pc EXCEPT ![c] = label]
    BY <1>14 DEF GroupQuery
  <2>3. pc' \in PcType
    BY <2>2
  <2>4. UNCHANGED <<db, redis, life, failures, memory, client, uid, msg, vec, sent, pushed>>
    BY <1>14 DEF GroupQuery
  <2>5. TypeOK'
    BY <2>1, <2>3, <2>4
  <2>6. pc[c] = "groupLoop"
    BY <1>14 DEF GroupQuery
  <2>7. LocalsOK'
    BY <2>2, <2>4, <2>6
  <2>8. QED
    BY <2>5, <2>7
<1>15. ASSUME NEW c \in Conns, GroupPublish(c) PROVE TypeInv'
  <2>1. channel' \in ChannelType
    BY <1>15 DEF GroupPublish, Publish
  <2>2. QED
    BY <1>15, <2>1, ZenonT(60) DEF GroupPublish, Publish
<1>16. ASSUME NEW c \in Conns, GroupStore(c) PROVE TypeInv'
  <2>1. offlineMessage' \in RowType /\ failures' \in Nat
    <3>1. session[c] \in Users /\ msg[c] \in Msgs
      BY <1>16 DEF GroupStore
    <3>2. QED
      BY <1>16, <3>1, InsertType DEF GroupStore
  <2>2. QED
    BY <1>16, <2>1, ZenonT(60) DEF GroupStore
<1>17. ASSUME NEW c \in Conns, GroupUnlock(c) PROVE TypeInv'
  BY <1>17, ZenonT(60) DEF GroupUnlock
<1>18. ASSUME NEW c \in Conns, Unsubscribe(c) PROVE TypeInv'
  <2>1. subCmds' \in CmdType
    <3>1. /\ Command(ServerOf[c], "UNSUBSCRIBE", uid[c]) /\ ServerOf[c] \in Servers
          /\ uid[c] \in Users \cup {NoUser}
      BY <1>18 DEF Unsubscribe
    <3> HIDE DEF TypeOK
    <3>2. TypeOK
      BY DEF TypeInv
    <3>3. QED
      BY <3>1, <3>2, CommandType
  <2>2. CASE uid[c] # NoUser /\ Goto(c, "setOffline") /\ UNCHANGED <<uid, connState>>
    BY <1>18, <2>1, <2>2, ZenonT(60) DEF Unsubscribe
  <2>3. CASE uid[c] = NoUser /\ Finish(c)
    BY <1>18, <2>1, <2>3, ZenonT(60) DEF Unsubscribe, Finish
  <2>4. QED
    BY <1>18, <2>2, <2>3 DEF Unsubscribe
<1>19. ASSUME NEW c \in Conns, SetOffline(c) PROVE TypeInv'
  <2>1. userState' \in [Users -> {"online", "offline"}] /\ failures' \in Nat
    BY <1>19, StateType DEF SetOffline
  <2>2. QED
    BY <1>19, <2>1, ZenonT(60) DEF SetOffline, Finish
<1>20. ASSUME NEW c \in Conns, Loginout(c) PROVE TypeInv'
  BY <1>20, ZenonT(60) DEF Loginout, Ready, LoggedIn, Erase
<1>21. ASSUME NEW c \in Conns, CloseConn(c) PROVE TypeInv'
  <2>1. userConnectionMap' \in MapType /\ uid' \in [Conns -> Users \cup {NoUser}]
    <3>1. CASE UNCHANGED <<userConnectionMap, uid>>
      BY <3>1
    <3>2. ASSUME NEW u \in Users, Erase(ServerOf[c], u), uid' = [uid EXCEPT ![c] = u]
          PROVE  userConnectionMap' \in MapType /\ uid' \in [Conns -> Users \cup {NoUser}]
      BY <3>2, PutType DEF Erase
    <3>3. QED
      BY <1>21, <3>1, <3>2 DEF CloseConn
  <2>2. LocalsOK'
    BY <1>21 DEF CloseConn
  <2>3. QED
    BY <1>21, <2>1, <2>2 DEF CloseConn
<1>22. ASSUME NEW c \in Conns, NEW u \in Users, Login(c, u) PROVE TypeInv'
  <2>1. CASE Answer(c) /\ UNCHANGED <<pc, uid>>
    BY <1>22, <2>1 DEF Login, Answer
  <2>2. CASE /\ Goto(c, "register") /\ uid' = [uid EXCEPT ![c] = u]
             /\ UNCHANGED unanswered
    BY <1>22, <2>2, ZenonT(60) DEF Login
  <2>3. QED
    BY <1>22, <2>1, <2>2 DEF Login
<1>23. ASSUME NEW c \in Conns, NEW m \in ChatMsgs, OneChat(c, m) PROVE TypeInv'
  <2>1. CASE /\ Find(ServerOf[c], ToId[m]) # NoConn
             /\ Push(Find(ServerOf[c], ToId[m]), m)
             /\ UNCHANGED <<pc, msg>>
    <3>1. Find(ServerOf[c], ToId[m]) \in Conns /\ m \in Msgs
      BY <2>1
    <3>2. pushed' \in PushedType
      BY <2>1, <3>1, PushType
    <3>3. QED
      BY <1>23, <2>1, <3>2 DEF OneChat
  <2>2. CASE /\ Goto(c, "chatQuery") /\ msg' = [msg EXCEPT ![c] = m]
             /\ UNCHANGED pushed
    <3>1. TypeOK'
      BY <1>23, <2>2, ZenonT(60) DEF OneChat
    <3>2. pc[c] = "idle"
      BY <1>23 DEF OneChat, Ready
    <3>3. LocalsOK'
      BY <1>23, <2>2, <3>2 DEF OneChat
    <3>4. QED
      BY <3>1, <3>3
  <2>3. QED
    BY <1>23, <2>1, <2>2 DEF OneChat
<1>24. ASSUME NEW c \in Conns, NEW m \in GroupMsgs, GroupChat(c, m) PROVE TypeInv'
  <2>1. PICK found \in QueryGroupsUsers(session[c], m) :
          ids' = [ids EXCEPT ![c] = found]
    BY <1>24 DEF GroupChat
  <2>2. found \in SUBSET Users /\ session[c] \in Users /\ pc[c] = "idle"
    BY <1>24 DEF GroupChat, Ready, LoggedIn, QueryGroupsUsers
  <2>3. ids' \in IdsType
    BY <2>1, <2>2
  <2>4. QED
    BY <1>24, <2>2, <2>3, ZenonT(60) DEF GroupChat
<1>25. ASSUME NEW s \in Servers, RedisExec(s) PROVE TypeInv'
  <2>1. subCmds' \in CmdType
    BY <1>25 DEF RedisExec
  <2>2. subscribed' \subseteq Servers \X (Users \cup {NoUser})
    BY <1>25 DEF RedisExec
  <2>3. QED
    BY <1>25, <2>1, <2>2 DEF RedisExec
<1>26. ASSUME NEW s \in Servers, HandleRedisSubscribeMessage(s) PROVE TypeInv'
  <2>1. channel' \in ChannelType
    BY <1>26 DEF HandleRedisSubscribeMessage
  <2> DEFINE u == Head(channel[s])[1]
             m == Head(channel[s])[2]
  <2>2. u \in Users /\ m \in Msgs
    BY <1>26 DEF HandleRedisSubscribeMessage
  <2>3. CASE /\ Find(s, u) # NoConn /\ Push(Find(s, u), m)
             /\ UNCHANGED offlineMessage
    <3>1. Find(s, u) \in Conns
      BY <2>2, <2>3
    <3>2. pushed' \in PushedType
      BY <2>2, <2>3, <3>1, PushType
    <3>3. QED
      BY <1>26, <2>1, <2>3, <3>2 DEF HandleRedisSubscribeMessage
  <2>4. CASE InsertOffline(u, m) /\ UNCHANGED pushed
    <3>1. offlineMessage' \in RowType /\ failures' \in Nat
      BY <2>2, <2>4, InsertType
    <3>2. QED
      BY <1>26, <2>1, <2>4, <3>1 DEF HandleRedisSubscribeMessage
  <2>5. QED
    BY <1>26, <2>3, <2>4 DEF HandleRedisSubscribeMessage
<1>27. ASSUME NEW s \in Servers, ResetHandler(s) PROVE TypeInv'
  <2>1. userState' \in [Users -> {"online", "offline"}] /\ failures' \in Nat
    BY <1>27, StateType DEF ResetHandler
  <2>2. QED
    BY <1>27, <2>1 DEF ResetHandler
<1>28. ASSUME NEW s \in Servers, Exit(s) PROVE TypeInv'
  <2>1. /\ userConnectionMap' \in MapType
        /\ subCmds' \in CmdType /\ channel' \in ChannelType
    BY <1>28 DEF Exit
  <2>2. subscribed' \subseteq Servers \X (Users \cup {NoUser})
    BY <1>28 DEF Exit
  <2>3. /\ life' \in [Servers -> {"up", "sigint", "down"}] /\ failures' \in Nat
        /\ connMutex' \in [Servers -> Conns \cup {NoConn}]
    BY <1>28 DEF Exit
  <2>4. /\ connState' \in [Conns -> {"new", "open", "gone", "closing", "closed"}]
        /\ session' \in [Conns -> Users \cup {NoUser}]
        /\ unanswered' \in [Conns -> BOOLEAN]
    BY <1>28 DEF Exit
  <2>5. /\ pc' \in PcType /\ uid' \in [Conns -> Users \cup {NoUser}]
        /\ msg' \in [Conns -> Msgs \cup {NoMsg}]
    BY <1>28 DEF Exit
  <2>6. ids' \in IdsType /\ vec' \in PushedType
    BY <1>28 DEF Exit
  <2>7. TypeOK'
    BY <1>28, <2>1, <2>2, <2>3, <2>4, <2>5, <2>6 DEF Exit
  <2>8. LocalsOK'
    BY <1>28 DEF Exit
  <2>9. QED
    BY <2>7, <2>8
<1>29. ASSUME NEW s \in Servers, Restart(s) PROVE TypeInv'
  BY <1>29 DEF Restart
<1>32. ASSUME NEW s \in Servers, RedisLost(s) PROVE TypeInv'
  <2>1. subscribed' \subseteq Servers \X (Users \cup {NoUser})
    BY <1>32 DEF RedisLost
  <2>2. subCmds' \in CmdType
    BY <1>32 DEF RedisLost
  <2>3. channel' \in ChannelType
    <3>1. PICK n \in 0..Len(channel[s]) :
            channel' = [channel EXCEPT ![s] = SubSeq(@, 1, n)]
      BY <1>32 DEF RedisLost
    <3>2. channel[s] \in Seq(Users \X Msgs)
      OBVIOUS
    <3>3. SubSeq(channel[s], 1, n) \in Seq(Users \X Msgs)
      BY <3>2
    <3>4. QED
      BY <3>1, <3>3
  <2>4. link' \in [Servers -> BOOLEAN] /\ failures' \in Nat
    BY <1>32 DEF RedisLost
  <2>5. QED
    BY <1>32, <2>1, <2>2, <2>3, <2>4, ZenonT(60) DEF RedisLost
<1>30. CASE UNCHANGED vars
  BY <1>30 DEF vars
<1>31. QED
  BY <1>1, <1>2, <1>3, <1>4, <1>5, <1>6, <1>7, <1>8, <1>9, <1>10, <1>11, <1>12, <1>13, <1>14, <1>15, <1>16, <1>17, <1>18, <1>19, <1>20, <1>21, <1>22, <1>23, <1>24, <1>25, <1>26, <1>27, <1>28, <1>29, <1>32, <1>30 DEF Next, Request, HandlerStep

\* No handler and no thread ever stores a value of the wrong type: types of
\* every table, queue, map and local variable of Chatservice.
THEOREM TypeCorrect == Spec => []TypeOK
<1>1. TypeInv => TypeOK
  BY DEF TypeInv
<1>2. QED
  BY TypeInit, TypeNext, <1>1, PTL DEF Spec

----------------------------------------------------------------------------
(* Map entries                                                             *)

\* A handler that logs in or out works for a connection without a session,
\* one that logs out has already erased its entry, only a connection that is
\* open, as far as the server knows, logs in, and no other handler has an id.
HandlerOK ==
  \A c \in Conns :
    /\ pc[c] \in LoginPcs \cup LogoutPcs => session[c] = NoUser
    /\ pc[c] \in LogoutPcs => \A s \in Servers, u \in Users : Find(s, u) # c
    /\ pc[c] \in LoginPcs => connState[c] \in {"open", "gone"}
    /\ pc[c] \notin LoginPcs \cup LogoutPcs => uid[c] = NoUser

MapInv == TypeInv /\ HandlerOK /\ MapSound

\* What MapSound says of one entry.
LEMMA EntryHolds ==
  ASSUME MapSound, NEW s \in Servers, NEW u \in Users, Find(s, u) # NoConn
  PROVE  Holds(Find(s, u), u) /\ ServerOf[Find(s, u)] = s
BY DEF MapSound

\* A connection without a running handler is only entered for its session.
LEMMA IdleEntry ==
  ASSUME MapInv, NEW c \in Conns, pc[c] = "idle",
         NEW s \in Servers, NEW u \in Users, Find(s, u) = c
  PROVE  s = ServerOf[c] /\ u = session[c]
<1>1. Find(s, u) # NoConn
  BY ConstAssumption
<1>2. Holds(c, u) /\ ServerOf[c] = s
  BY <1>1, EntryHolds DEF MapInv
<1>3. QED
  BY <1>2 DEF Holds

LEMMA MapInit == Init => MapInv
BY TypeInit, ConstAssumption DEF Init, MapInv, HandlerOK, MapSound, Holds

LEMMA MapNext == MapInv /\ [Next]_vars => MapInv'
<1> SUFFICES ASSUME MapInv, [Next]_vars PROVE MapInv'
  OBVIOUS
<1>0. TypeInv'
  BY TypeNext DEF MapInv
<1> USE ConstAssumption DEF MapInv, TypeInv, TypeOK, LocalsOK, HandlerOK, MapSound, Holds
<1>1. ASSUME NEW c \in Conns, Accept(c) PROVE HandlerOK' /\ MapSound'
  BY <1>1 DEF Accept
<1>2. ASSUME NEW c \in Conns, PeerClose(c) PROVE HandlerOK' /\ MapSound'
  BY <1>2 DEF PeerClose
<1>3. ASSUME NEW c \in Conns, Register(c) PROVE HandlerOK' /\ MapSound'
  BY <1>3, SMTT(30) DEF Register
<1>4. ASSUME NEW c \in Conns, Subscribe(c) PROVE HandlerOK' /\ MapSound'
  BY <1>4 DEF Subscribe
<1>5. ASSUME NEW c \in Conns, SetOnline(c) PROVE HandlerOK' /\ MapSound'
  BY <1>5 DEF SetOnline
<1>6. ASSUME NEW c \in Conns, QueryOffline(c) PROVE HandlerOK' /\ MapSound'
  BY <1>6 DEF QueryOffline
<1>7. ASSUME NEW c \in Conns, RemoveRead(c) PROVE HandlerOK' /\ MapSound'
  BY <1>7 DEF RemoveRead
<1>8. ASSUME NEW c \in Conns, LoginAck(c) PROVE HandlerOK' /\ MapSound'
  BY <1>8 DEF LoginAck
<1>9. ASSUME NEW c \in Conns, ChatQuery(c) PROVE HandlerOK' /\ MapSound'
  <2>1. /\ pc[c] = "chatQuery"
        /\ \E label \in {"chatPublish", "chatStore"} : pc' = [pc EXCEPT ![c] = label]
        /\ UNCHANGED <<connState, session, uid, userConnectionMap>>
    BY <1>9 DEF ChatQuery
  <2>2. QED
    BY <2>1
<1>10. ASSUME NEW c \in Conns, ChatPublish(c) PROVE HandlerOK' /\ MapSound'
  BY <1>10 DEF ChatPublish
<1>11. ASSUME NEW c \in Conns, ChatStore(c) PROVE HandlerOK' /\ MapSound'
  BY <1>11 DEF ChatStore
<1>12. ASSUME NEW c \in Conns, GroupLock(c) PROVE HandlerOK' /\ MapSound'
  BY <1>12 DEF GroupLock
<1>13. ASSUME NEW c \in Conns, GroupPush(c) PROVE HandlerOK' /\ MapSound'
  BY <1>13 DEF GroupPush
<1>14. ASSUME NEW c \in Conns, GroupQuery(c) PROVE HandlerOK' /\ MapSound'
  BY <1>14 DEF GroupQuery
<1>15. ASSUME NEW c \in Conns, GroupPublish(c) PROVE HandlerOK' /\ MapSound'
  BY <1>15 DEF GroupPublish
<1>16. ASSUME NEW c \in Conns, GroupStore(c) PROVE HandlerOK' /\ MapSound'
  BY <1>16 DEF GroupStore
<1>17. ASSUME NEW c \in Conns, GroupUnlock(c) PROVE HandlerOK' /\ MapSound'
  BY <1>17 DEF GroupUnlock
<1>18. ASSUME NEW c \in Conns, Unsubscribe(c) PROVE HandlerOK' /\ MapSound'
  <2>1. CASE uid[c] # NoUser /\ Goto(c, "setOffline") /\ UNCHANGED <<uid, connState>>
    BY <1>18, <2>1 DEF Unsubscribe
  <2>2. CASE uid[c] = NoUser /\ Finish(c)
    BY <1>18, <2>2 DEF Unsubscribe, Finish
  <2>3. QED
    BY <1>18, <2>1, <2>2 DEF Unsubscribe
<1>19. ASSUME NEW c \in Conns, SetOffline(c) PROVE HandlerOK' /\ MapSound'
  BY <1>19 DEF SetOffline, Finish
<1>20. ASSUME NEW c \in Conns, Loginout(c) PROVE HandlerOK' /\ MapSound'
  BY <1>20 DEF Loginout, Ready, LoggedIn, Erase
<1>21. ASSUME NEW c \in Conns, CloseConn(c) PROVE HandlerOK' /\ MapSound'
  <2>1. /\ pc[c] = "idle" /\ ServerOf[c] \in Servers
        /\ pc' = [pc EXCEPT ![c] = "unsubscribe"]
        /\ session' = [session EXCEPT ![c] = NoUser]
        /\ connState' = [connState EXCEPT ![c] = "closing"]
    BY <1>21 DEF CloseConn
  <2>2. \A s \in Servers, u \in Users :
          Find(s, u) = c => s = ServerOf[c] /\ u = session[c]
    BY <2>1, IdleEntry
  <2>3. /\ \A s \in Servers, u \in Users :
             /\ Find(s, u)' # c
             /\ Find(s, u)' # NoConn => Find(s, u)' = Find(s, u)
        /\ \A d \in Conns : d # c => uid'[d] = uid[d]
    <3>1. CASE /\ {u \in Users : Find(ServerOf[c], u) = c} = {}
               /\ UNCHANGED <<userConnectionMap, uid>>
      BY <2>2, <3>1
    <3>2. ASSUME NEW v \in {u \in Users : Find(ServerOf[c], u) = c},
                 Erase(ServerOf[c], v), uid' = [uid EXCEPT ![c] = v]
          PROVE  <2>3!2 /\ <2>3!1
      BY <2>2, <3>2 DEF Erase
    <3>3. QED
      BY <1>21, <3>1, <3>2 DEF CloseConn
  <2>4. HandlerOK'
    <3>1. SUFFICES ASSUME NEW d \in Conns
                   PROVE  /\ pc'[d] \in LoginPcs \cup LogoutPcs => session'[d] = NoUser
                          /\ pc'[d] \in LogoutPcs =>
                               \A s \in Servers, u \in Users : Find(s, u)' # d
                          /\ pc'[d] \in LoginPcs => connState'[d] \in {"open", "gone"}
                          /\ pc'[d] \notin LoginPcs \cup LogoutPcs => uid'[d] = NoUser
      OBVIOUS
    <3>2. CASE d = c
      BY <2>1, <2>3, <3>2
    <3>3. CASE d # c
      <4>1. /\ pc'[d] = pc[d] /\ session'[d] = session[d]
            /\ connState'[d] = connState[d] /\ uid'[d] = uid[d]
        BY <2>1, <2>3, <3>3
      <4>2. ASSUME pc[d] \in LogoutPcs, NEW s \in Servers, NEW u \in Users
            PROVE  Find(s, u)' # d
        <5>1. Find(s, u) # d /\ d # NoConn
          BY <4>2
        <5>2. QED
          BY <2>3, <5>1
      <4>3. QED
        BY <4>1, <4>2
    <3>4. QED
      BY <3>2, <3>3
  <2>5. \A d \in Conns, u \in Users : d # c => (Holds(d, u)' <=> Holds(d, u))
    BY <2>1, <2>3
  <2>6. MapSound'
    BY <2>1, <2>3, <2>5
  <2>7. QED
    BY <2>4, <2>6
<1>22. ASSUME NEW c \in Conns, NEW u \in Users, Login(c, u) PROVE HandlerOK' /\ MapSound'
  <2>1. UNCHANGED <<connState, session, userConnectionMap>>
    BY <1>22 DEF Login
  <2>2. CASE UNCHANGED <<pc, uid>>
    BY <2>1, <2>2
  <2>3. CASE Goto(c, "register") /\ uid' = [uid EXCEPT ![c] = u]
    BY <1>22, <2>1, <2>3 DEF Login, Ready
  <2>4. QED
    BY <1>22, <2>2, <2>3 DEF Login
<1>23. ASSUME NEW c \in Conns, NEW m \in ChatMsgs, OneChat(c, m) PROVE HandlerOK' /\ MapSound'
  <2>1. CASE UNCHANGED <<pc, msg>>
    BY <1>23, <2>1 DEF OneChat
  <2>2. CASE Goto(c, "chatQuery")
    BY <1>23, <2>2 DEF OneChat, Ready
  <2>3. QED
    BY <1>23, <2>1, <2>2 DEF OneChat
<1>24. ASSUME NEW c \in Conns, NEW m \in GroupMsgs, GroupChat(c, m) PROVE HandlerOK' /\ MapSound'
  BY <1>24, SMTT(30) DEF GroupChat, Ready
<1>25. ASSUME NEW s \in Servers, RedisExec(s) PROVE HandlerOK' /\ MapSound'
  BY <1>25 DEF RedisExec
<1>26. ASSUME NEW s \in Servers, HandleRedisSubscribeMessage(s) PROVE HandlerOK' /\ MapSound'
  BY <1>26 DEF HandleRedisSubscribeMessage
<1>27. ASSUME NEW s \in Servers, ResetHandler(s) PROVE HandlerOK' /\ MapSound'
  BY <1>27 DEF ResetHandler
<1>28. ASSUME NEW s \in Servers, Exit(s) PROVE HandlerOK' /\ MapSound'
  BY <1>28 DEF Exit
<1>29. ASSUME NEW s \in Servers, Restart(s) PROVE HandlerOK' /\ MapSound'
  BY <1>29 DEF Restart
<1>32. ASSUME NEW s \in Servers, RedisLost(s) PROVE HandlerOK' /\ MapSound'
  BY <1>32 DEF RedisLost
<1>30. ASSUME UNCHANGED vars PROVE HandlerOK' /\ MapSound'
  <2>1. /\ UNCHANGED <<connState, session, pc, uid, userConnectionMap>>
    BY <1>30 DEF vars
  <2>2. HandlerOK'
    BY <2>1
  <2>3. MapSound'
    BY <2>1
  <2>4. QED
    BY <2>2, <2>3
<1> HIDE DEF TypeInv, TypeOK, LocalsOK, HandlerOK, MapSound, Holds
<1>31. QED
  BY <1>0, <1>1, <1>2, <1>3, <1>4, <1>5, <1>6, <1>7, <1>8, <1>9, <1>10, <1>11, <1>12, <1>13, <1>14, <1>15, <1>16, <1>17, <1>18, <1>19, <1>20, <1>21, <1>22, <1>23, <1>24, <1>25, <1>26, <1>27, <1>28, <1>29, <1>32, <1>30 DEF Next, Request, HandlerStep

\* No entry of any server's map is stale, whatever stops, breaks or overlaps.
THEOREM MapAlwaysSound == Spec => []MapSound
<1>1. MapInv => MapSound
  BY DEF MapInv
<1>2. QED
  BY MapInit, MapNext, <1>1, PTL DEF Spec

----------------------------------------------------------------------------
(* Messages on their way                                                   *)

RowsAddressed ==
  \A u \in Users, m \in Msgs : offlineMessage[u][m] > 0 => u \in Addressees(m)

VecAddressed ==
  \A c \in Conns, m \in Msgs : vec[c][m] > 0 =>
    pc[c] \in {"removeOffline", "ack"} /\ uid[c] \in Addressees(m)

ChannelAddressed ==
  \A s \in Servers : \A i \in 1..Len(channel[s]) :
    channel[s][i][1] \in Addressees(channel[s][i][2])

GroupAddressed ==
  \A c \in Conns :
    /\ pc[c] \in GroupPcs => ids[c] \subseteq Members[msg[c]] \cap {session[c]}
    /\ pc[c] \in {"groupPublish", "groupStore"} => session[c] \in Members[msg[c]]

AddressInv ==
  MapInv /\ RowsAddressed /\ VecAddressed /\ ChannelAddressed /\ GroupAddressed

\* What OneChat publishes and stores is for the user it is addressed to, and
\* what groupChat does is for a member.
LEMMA ChatAddressee ==
  \A m \in ChatMsgs : ToId[m] \in Addressees(m)
BY DEF Addressees

LEMMA GroupAddressee ==
  \A m \in GroupMsgs, u \in Users : u \in Members[m] => u \in Addressees(m)
BY ConstAssumption DEF Addressees

\* Publishing for an addressee, and storing for one.
LEMMA PublishAddressed ==
  ASSUME TypeOK, ChannelAddressed, NEW u \in Users, NEW m \in Msgs,
         u \in Addressees(m), NEW from \in Servers, Publish(from, u, m)
  PROVE  ChannelAddressed'
<1>1. SUFFICES ASSUME NEW s \in Servers, NEW i \in 1..Len(channel'[s])
               PROVE  channel'[s][i][1] \in Addressees(channel'[s][i][2])
  BY DEF ChannelAddressed
<1>2. channel[s] \in Seq(Users \X Msgs) /\ <<u, m>> \in Users \X Msgs
  BY DEF TypeOK
<1>3. CASE channel'[s] = channel[s]
  BY <1>3 DEF ChannelAddressed
<1>4. CASE channel'[s] = Append(channel[s], <<u, m>>)
  <2>1. CASE i = Len(channel[s]) + 1
    BY <1>2, <1>4, <2>1
  <2>2. CASE i \in 1..Len(channel[s])
    BY <1>2, <1>4, <2>2 DEF ChannelAddressed
  <2>3. QED
    BY <1>1, <1>2, <1>4, <2>1, <2>2
<1>5. QED
  BY <1>3, <1>4 DEF Publish

LEMMA InsertAddressed ==
  ASSUME TypeOK, RowsAddressed, NEW u \in Users, NEW m \in Msgs,
         u \in Addressees(m), InsertOffline(u, m)
  PROVE  RowsAddressed'
<1>1. CASE UNCHANGED offlineMessage
  BY <1>1 DEF RowsAddressed
<1>2. CASE offlineMessage' = [offlineMessage EXCEPT ![u][m] = @ + 1]
  BY <1>2 DEF TypeOK, RowsAddressed
<1>3. QED
  BY <1>1, <1>2 DEF InsertOffline

LEMMA AddressInit == Init => AddressInv
<1>1. ASSUME Init
      PROVE  RowsAddressed /\ VecAddressed /\ ChannelAddressed /\ GroupAddressed
  BY <1>1, ConstAssumption
     DEF Init, RowsAddressed, VecAddressed, ChannelAddressed, GroupAddressed
<1>2. QED
  BY <1>1, MapInit DEF AddressInv

LEMMA AddressNext == AddressInv /\ [Next]_vars => AddressInv'
<1> SUFFICES ASSUME AddressInv, [Next]_vars PROVE AddressInv'
  OBVIOUS
<1>0. MapInv'
  BY MapNext DEF AddressInv
<1>a. TypeOK /\ RowsAddressed /\ ChannelAddressed
  BY DEF AddressInv, MapInv, TypeInv
<1> DEFINE Addressed == RowsAddressed /\ VecAddressed /\ ChannelAddressed /\ GroupAddressed
<1> USE ConstAssumption DEF AddressInv, MapInv, TypeInv, TypeOK, LocalsOK, HandlerOK,
        RowsAddressed, VecAddressed, ChannelAddressed, GroupAddressed
<1>1. ASSUME NEW c \in Conns, Accept(c) PROVE Addressed'
  BY <1>1 DEF Accept
<1>2. ASSUME NEW c \in Conns, PeerClose(c) PROVE Addressed'
  BY <1>2 DEF PeerClose
<1>3. ASSUME NEW c \in Conns, Register(c) PROVE Addressed'
  BY <1>3 DEF Register
<1>4. ASSUME NEW c \in Conns, Subscribe(c) PROVE Addressed'
  BY <1>4 DEF Subscribe
<1>5. ASSUME NEW c \in Conns, SetOnline(c) PROVE Addressed'
  BY <1>5 DEF SetOnline
<1>6. ASSUME NEW c \in Conns, QueryOffline(c) PROVE Addressed'
  <2>1. /\ pc[c] = "queryOffline" /\ uid[c] \in Users
        /\ \E rows \in {offlineMessage[uid[c]], NoRows} : vec' = [vec EXCEPT ![c] = rows]
        /\ UNCHANGED <<offlineMessage, channel, session, uid, msg, ids>>
    BY <1>6 DEF QueryOffline
  <2>2. \E label \in {"removeOffline", "ack"} : pc' = [pc EXCEPT ![c] = label]
    BY <1>6 DEF QueryOffline
  <2>3. VecAddressed'
    BY <2>1, <2>2
  <2>4. QED
    BY <2>1, <2>2, <2>3
<1>7. ASSUME NEW c \in Conns, RemoveRead(c) PROVE Addressed'
  <2>1. /\ pc[c] = "removeOffline" /\ uid[c] \in Users
        /\ pc' = [pc EXCEPT ![c] = "ack"]
        /\ UNCHANGED <<channel, session, uid, msg, ids, vec>>
    BY <1>7 DEF RemoveRead
  <2>2. \/ offlineMessage' = offlineMessage
        \/ offlineMessage' = [offlineMessage EXCEPT ![uid[c]] = NoRows]
    BY <1>7 DEF RemoveRead, RemoveOffline
  <2>3. RowsAddressed'
    <3>1. CASE offlineMessage' = offlineMessage
      BY <3>1
    <3>2. CASE offlineMessage' = [offlineMessage EXCEPT ![uid[c]] = NoRows]
      <4>1. SUFFICES ASSUME NEW u \in Users, NEW m \in Msgs, offlineMessage'[u][m] > 0
                     PROVE  u \in Addressees(m)
        BY DEF RowsAddressed
      <4>2. CASE u = uid[c]
        <5>1. offlineMessage'[u][m] = 0
          BY <3>2, <4>2
        <5>2. QED
          BY <4>1, <5>1
      <4>3. CASE u # uid[c]
        <5>1. offlineMessage'[u] = offlineMessage[u]
          BY <3>2, <4>3
        <5>2. QED
          BY <4>1, <5>1
      <4>4. QED
        BY <4>2, <4>3
    <3>3. QED
      BY <2>2, <3>1, <3>2
  <2>4. ChannelAddressed' /\ VecAddressed' /\ GroupAddressed'
    BY <2>1
  <2>5. QED
    BY <2>3, <2>4
<1>8. ASSUME NEW c \in Conns, LoginAck(c) PROVE Addressed'
  BY <1>8 DEF LoginAck
<1>9. ASSUME NEW c \in Conns, ChatQuery(c) PROVE Addressed'
  BY <1>9 DEF ChatQuery
<1>10. ASSUME NEW c \in Conns, ChatPublish(c) PROVE Addressed'
  <2>1. /\ ToId[msg[c]] \in Users /\ msg[c] \in Msgs
        /\ ToId[msg[c]] \in Addressees(msg[c])
    BY <1>10, ChatAddressee DEF ChatPublish
  <2>2. ChannelAddressed'
    <3> HIDE DEF TypeOK, LocalsOK, HandlerOK, RowsAddressed, VecAddressed,
             ChannelAddressed, GroupAddressed
    <3>1. Publish(ServerOf[c], ToId[msg[c]], msg[c])
      BY <1>10 DEF ChatPublish
    <3>2. QED
      BY <1>a, <2>1, <3>1, PublishAddressed
  <2>3. RowsAddressed' /\ VecAddressed' /\ GroupAddressed'
    BY <1>10 DEF ChatPublish
  <2>4. QED
    BY <2>2, <2>3
<1>11. ASSUME NEW c \in Conns, ChatStore(c) PROVE Addressed'
  <2>1. /\ ToId[msg[c]] \in Users /\ msg[c] \in Msgs
        /\ ToId[msg[c]] \in Addressees(msg[c])
    BY <1>11, ChatAddressee DEF ChatStore
  <2>2. RowsAddressed'
    <3> HIDE DEF TypeOK, LocalsOK, HandlerOK, RowsAddressed, VecAddressed,
             ChannelAddressed, GroupAddressed
    <3>1. InsertOffline(ToId[msg[c]], msg[c])
      BY <1>11 DEF ChatStore
    <3>2. QED
      BY <1>a, <2>1, <3>1, InsertAddressed
  <2>3. ChannelAddressed' /\ VecAddressed' /\ GroupAddressed'
    BY <1>11 DEF ChatStore
  <2>4. QED
    BY <2>2, <2>3
<1>12. ASSUME NEW c \in Conns, GroupLock(c) PROVE Addressed'
  BY <1>12, SMTT(30) DEF GroupLock
<1>13. ASSUME NEW c \in Conns, GroupPush(c) PROVE Addressed'
  <2>1. \E id \in Users : ids' = [ids EXCEPT ![c] = @ \ {id}]
    BY <1>13 DEF GroupPush
  <2>2. UNCHANGED <<offlineMessage, channel, session, pc, uid, msg, vec>>
    BY <1>13 DEF GroupPush
  <2>3. QED
    BY <2>1, <2>2
<1>14. ASSUME NEW c \in Conns, GroupQuery(c) PROVE Addressed'
  BY <1>14, SMTT(30) DEF GroupQuery
<1>15. ASSUME NEW c \in Conns, GroupPublish(c) PROVE Addressed'
  <2>1. /\ session[c] \in Users /\ msg[c] \in Msgs
        /\ session[c] \in Addressees(msg[c])
    BY <1>15, GroupAddressee DEF GroupPublish
  <2>2. ChannelAddressed'
    <3> HIDE DEF TypeOK, LocalsOK, HandlerOK, RowsAddressed, VecAddressed,
             ChannelAddressed, GroupAddressed
    <3>1. Publish(ServerOf[c], session[c], msg[c])
      BY <1>15 DEF GroupPublish
    <3>2. QED
      BY <1>a, <2>1, <3>1, PublishAddressed
  <2>3. RowsAddressed' /\ VecAddressed' /\ GroupAddressed'
    BY <1>15 DEF GroupPublish
  <2>4. QED
    BY <2>2, <2>3
<1>16. ASSUME NEW c \in Conns, GroupStore(c) PROVE Addressed'
  <2>1. /\ session[c] \in Users /\ msg[c] \in Msgs
        /\ session[c] \in Addressees(msg[c])
    BY <1>16, GroupAddressee DEF GroupStore
  <2>2. RowsAddressed'
    <3> HIDE DEF TypeOK, LocalsOK, HandlerOK, RowsAddressed, VecAddressed,
             ChannelAddressed, GroupAddressed
    <3>1. InsertOffline(session[c], msg[c])
      BY <1>16 DEF GroupStore
    <3>2. QED
      BY <1>a, <2>1, <3>1, InsertAddressed
  <2>3. ChannelAddressed' /\ VecAddressed' /\ GroupAddressed'
    BY <1>16 DEF GroupStore
  <2>4. QED
    BY <2>2, <2>3
<1>17. ASSUME NEW c \in Conns, GroupUnlock(c) PROVE Addressed'
  BY <1>17 DEF GroupUnlock
<1>18. ASSUME NEW c \in Conns, Unsubscribe(c) PROVE Addressed'
  <2>1. /\ pc[c] = "unsubscribe"
        /\ \E label \in {"setOffline", "idle"} : pc' = [pc EXCEPT ![c] = label]
        /\ \/ uid' = uid
           \/ uid' = [uid EXCEPT ![c] = NoUser]
        /\ UNCHANGED <<offlineMessage, channel, session, msg, ids, vec>>
    BY <1>18 DEF Unsubscribe, Finish
  <2>2. QED
    BY <2>1
<1>19. ASSUME NEW c \in Conns, SetOffline(c) PROVE Addressed'
  BY <1>19 DEF SetOffline, Finish
<1>20. ASSUME NEW c \in Conns, Loginout(c) PROVE Addressed'
  BY <1>20 DEF Loginout, Ready
<1>21. ASSUME NEW c \in Conns, CloseConn(c) PROVE Addressed'
  BY <1>21 DEF CloseConn
<1>22. ASSUME NEW c \in Conns, NEW u \in Users, Login(c, u) PROVE Addressed'
  <2>1. /\ pc[c] = "idle"
        /\ UNCHANGED <<offlineMessage, channel, session, msg, ids, vec>>
    BY <1>22 DEF Login, Ready
  <2>2. CASE UNCHANGED <<pc, uid>>
    BY <2>1, <2>2
  <2>3. CASE Goto(c, "register") /\ uid' = [uid EXCEPT ![c] = u]
    BY <2>1, <2>3
  <2>4. QED
    BY <1>22, <2>2, <2>3 DEF Login
<1>23. ASSUME NEW c \in Conns, NEW m \in ChatMsgs, OneChat(c, m) PROVE Addressed'
  <2>1. /\ pc[c] = "idle"
        /\ UNCHANGED <<offlineMessage, channel, session, uid, ids, vec>>
    BY <1>23 DEF OneChat, Ready
  <2>2. CASE UNCHANGED <<pc, msg>>
    BY <2>1, <2>2
  <2>3. CASE Goto(c, "chatQuery") /\ msg' = [msg EXCEPT ![c] = m]
    BY <2>1, <2>3
  <2>4. QED
    BY <1>23, <2>2, <2>3 DEF OneChat
<1>24. ASSUME NEW c \in Conns, NEW m \in GroupMsgs, GroupChat(c, m) PROVE Addressed'
  BY <1>24 DEF GroupChat, Ready, LoggedIn, QueryGroupsUsers
<1>25. ASSUME NEW s \in Servers, RedisExec(s) PROVE Addressed'
  BY <1>25 DEF RedisExec
<1>26. ASSUME NEW s \in Servers, HandleRedisSubscribeMessage(s) PROVE Addressed'
  <2> DEFINE u == Head(channel[s])[1]
             m == Head(channel[s])[2]
  <2>1. channel[s] \in Seq(Users \X Msgs) /\ channel[s] # <<>>
    BY <1>26 DEF HandleRedisSubscribeMessage
  <2>2. u \in Users /\ m \in Msgs /\ u \in Addressees(m)
    BY <2>1
  <2>3. RowsAddressed'
    <3>1. CASE UNCHANGED offlineMessage
      BY <3>1
    <3>2. CASE InsertOffline(u, m)
      <4> HIDE DEF u, m, TypeOK, LocalsOK, HandlerOK, RowsAddressed,
               VecAddressed, ChannelAddressed, GroupAddressed
      <4>1. QED
        BY <1>a, <2>2, <3>2, InsertAddressed
    <3>3. QED
      BY <1>26, <3>1, <3>2 DEF HandleRedisSubscribeMessage
  <2>4. ChannelAddressed'
    <3>1. channel' = [channel EXCEPT ![s] = Tail(@)]
      BY <1>26 DEF HandleRedisSubscribeMessage
    <3>2. QED
      BY <2>1, <3>1
  <2>5. VecAddressed' /\ GroupAddressed'
    BY <1>26 DEF HandleRedisSubscribeMessage
  <2>6. QED
    BY <2>3, <2>4, <2>5
<1>27. ASSUME NEW s \in Servers, ResetHandler(s) PROVE Addressed'
  BY <1>27 DEF ResetHandler
<1>28. ASSUME NEW s \in Servers, Exit(s) PROVE Addressed'
  BY <1>28 DEF Exit
<1>29. ASSUME NEW s \in Servers, Restart(s) PROVE Addressed'
  BY <1>29 DEF Restart
<1>32. ASSUME NEW s \in Servers, RedisLost(s) PROVE Addressed'
  <2>1. PICK n \in 0..Len(channel[s]) :
          channel' = [channel EXCEPT ![s] = SubSeq(@, 1, n)]
    BY <1>32 DEF RedisLost
  <2>2. channel[s] \in Seq(Users \X Msgs)
    OBVIOUS
  <2>3. /\ Len(SubSeq(channel[s], 1, n)) = n
        /\ \A i \in 1..n : SubSeq(channel[s], 1, n)[i] = channel[s][i] /\ i \in 1..Len(channel[s])
    BY <2>2
  <2>4. ChannelAddressed'
    BY <2>1, <2>3
  <2>5. RowsAddressed' /\ VecAddressed' /\ GroupAddressed'
    BY <1>32 DEF RedisLost
  <2>6. QED
    BY <2>4, <2>5
<1>30. ASSUME UNCHANGED vars PROVE Addressed'
  BY <1>30 DEF vars
<1> HIDE DEF MapInv, TypeInv, TypeOK, LocalsOK, HandlerOK, RowsAddressed,
         VecAddressed, ChannelAddressed, GroupAddressed
<1>31. QED
  BY <1>0, <1>1, <1>2, <1>3, <1>4, <1>5, <1>6, <1>7, <1>8, <1>9, <1>10, <1>11, <1>12, <1>13, <1>14, <1>15, <1>16, <1>17, <1>18, <1>19, <1>20, <1>21, <1>22, <1>23, <1>24, <1>25, <1>26, <1>27, <1>28, <1>29, <1>32, <1>30 DEF Next, Request, HandlerStep

\* A step that sends m on connection d changes nothing else in pushed.
LEMMA PushOnly ==
  ASSUME TypeOK, NEW d \in Conns, NEW m \in Msgs, Push(d, m),
         NEW c \in Conns, NEW k \in Msgs, pushed'[c][k] # pushed[c][k]
  PROVE  c = d /\ k = m
BY DEF TypeOK, Push

\* Whatever is sent on a connection is for the user it stands for.
LEMMA DeliveryStep ==
  ASSUME AddressInv, Next, NEW c \in Conns, NEW m \in Msgs,
         pushed'[c][m] # pushed[c][m]
  PROVE  \E u \in Addressees(m) : Holds(c, u)
<1>1. TypeOK /\ MapSound
  BY DEF AddressInv, MapInv, TypeInv
<1>2. ASSUME NEW d \in Conns, LoginAck(d)
      PROVE  \E u \in Addressees(m) : Holds(c, u)
  <2>1. c = d /\ vec[c][m] > 0
    BY <1>1, <1>2 DEF LoginAck, TypeOK
  <2>2. uid[c] \in Addressees(m) /\ pc[c] = "ack"
    BY <1>2, <2>1 DEF LoginAck, AddressInv, VecAddressed
  <2>3. Holds(c, uid[c])
    BY <2>2 DEF Holds
  <2>4. QED
    BY <2>2, <2>3
<1>3. ASSUME NEW d \in Conns, NEW k \in ChatMsgs, OneChat(d, k)
      PROVE  \E u \in Addressees(m) : Holds(c, u)
  <2>1. /\ Find(ServerOf[d], ToId[k]) # NoConn
        /\ Push(Find(ServerOf[d], ToId[k]), k)
    BY <1>3 DEF OneChat
  <2>2. /\ ServerOf[d] \in Servers /\ ToId[k] \in Users
        /\ Find(ServerOf[d], ToId[k]) \in Conns
    BY <1>1, <2>1, ConstAssumption DEF TypeOK
  <2>3. c = Find(ServerOf[d], ToId[k]) /\ m = k
    BY <1>1, <2>1, <2>2, PushOnly
  <2>4. Holds(c, ToId[m])
    BY <1>1, <2>1, <2>2, <2>3, EntryHolds
  <2>5. QED
    BY <2>3, <2>4, ChatAddressee
<1>4. ASSUME NEW d \in Conns, GroupPush(d)
      PROVE  \E u \in Addressees(m) : Holds(c, u)
  <2>1. PICK id \in ids[d] : /\ Find(ServerOf[d], id) # NoConn
                             /\ Push(Find(ServerOf[d], id), msg[d])
    BY <1>4 DEF GroupPush
  <2>2. pc[d] = "groupLoop"
    BY <1>4 DEF GroupPush
  <2>3. msg[d] \in GroupMsgs /\ id \in Members[msg[d]] /\ id \in Users
    BY <1>1, <2>1, <2>2
       DEF AddressInv, GroupAddressed, MapInv, TypeInv, LocalsOK, TypeOK
  <2>4. ServerOf[d] \in Servers /\ Find(ServerOf[d], id) \in Conns
    BY <1>1, <2>1, <2>3, ConstAssumption DEF TypeOK
  <2>5. c = Find(ServerOf[d], id) /\ m = msg[d]
    BY <1>1, <2>1, <2>3, <2>4, PushOnly
  <2>6. Holds(c, id)
    BY <1>1, <2>1, <2>3, <2>4, <2>5, EntryHolds
  <2>7. QED
    BY <2>3, <2>5, <2>6, GroupAddressee
<1>5. ASSUME NEW s \in Servers, HandleRedisSubscribeMessage(s)
      PROVE  \E u \in Addressees(m) : Holds(c, u)
  <2> DEFINE v == Head(channel[s])[1]
             k == Head(channel[s])[2]
  <2>1. Find(s, v) # NoConn /\ Push(Find(s, v), k)
    BY <1>5 DEF HandleRedisSubscribeMessage
  <2>2. channel[s] \in Seq(Users \X Msgs) /\ channel[s] # <<>>
    BY <1>1, <1>5 DEF HandleRedisSubscribeMessage, TypeOK
  <2>3. v \in Users /\ k \in Msgs /\ v \in Addressees(k)
    BY <2>2 DEF AddressInv, ChannelAddressed
  <2>4. Find(s, v) \in Conns
    BY <1>1, <2>1, <2>3 DEF TypeOK
  <2> HIDE DEF v, k
  <2>5. c = Find(s, v) /\ m = k
    BY <1>1, <2>1, <2>3, <2>4, PushOnly
  <2>6. Holds(c, v)
    BY <1>1, <2>1, <2>3, <2>5, EntryHolds
  <2>7. QED
    BY <2>3, <2>5, <2>6
<1>6. ASSUME UNCHANGED pushed PROVE FALSE
  BY <1>6
<1>7. ASSUME NEW d \in Conns, HandlerStep(d)
      PROVE  \E u \in Addressees(m) : Holds(c, u)
  BY <1>2, <1>4, <1>6, <1>7
     DEF HandlerStep, Register, Subscribe, SetOnline, QueryOffline, RemoveRead,
         ChatQuery, ChatPublish, ChatStore, GroupLock, GroupQuery, GroupPublish,
         GroupStore, GroupUnlock, Unsubscribe, SetOffline
<1>8. ASSUME NEW d \in Conns, Accept(d) \/ PeerClose(d) \/ Request(d) \/ CloseConn(d)
      PROVE  \E u \in Addressees(m) : Holds(c, u)
  BY <1>3, <1>6, <1>8
     DEF Request, Accept, PeerClose, Login, GroupChat, Loginout, CloseConn
<1>9. ASSUME NEW s \in Servers,
             RedisExec(s) \/ RedisLost(s) \/ ResetHandler(s) \/ Exit(s)
               \/ Restart(s)
      PROVE  FALSE
  BY <1>6, <1>9 DEF RedisExec, RedisLost, ResetHandler, Exit, Restart
<1>10. QED
  BY <1>5, <1>7, <1>8, <1>9 DEF Next

\* A message is never sent to a user it is not addressed to, whatever stops,
\* breaks or overlaps.
THEOREM NeverMisdelivered == Spec => NoMisdelivery
<1>1. ASSUME AddressInv, [Next]_vars
      PROVE  [\A c \in Conns, m \in Msgs : pushed'[c][m] # pushed[c][m] =>
                \E u \in Addressees(m) : Holds(c, u)]_vars
  BY <1>1, DeliveryStep
<1>2. QED
  BY AddressInit, AddressNext, <1>1, PTL DEF Spec, NoMisdelivery

----------------------------------------------------------------------------
(* The state column as a lock                                              *)

\* What the lock is lost by: logins that overlap, the reset of Ctrl-C, and a
\* statement that fails to set the column.
LoginsOneByOne == ~OverlappingLogins /\ Faults \cap {"sigint", "sql"} = {}

LEMMA NoSqlFailure == ASSUME LoginsOneByOne PROVE ~UpdateFails
BY DEF LoginsOneByOne, UpdateFails, SqlFails

BeforeOnline == {"register", "subscribe", "setOnline"}

\* From SetOnline until SetOffline the column shows the user online.
HeldIsOnline ==
  \A c \in Conns, u \in Users :
    Holds(c, u) /\ pc[c] \notin BeforeOnline => userState[u] = "online"

LockInv == MapInv /\ SessionExclusive /\ HeldIsOnline

LEMMA LockInit == Init => LockInv
<1>1. ASSUME Init PROVE SessionExclusive /\ HeldIsOnline
  BY <1>1, ConstAssumption DEF Init, SessionExclusive, HeldIsOnline, Holds
<1>2. QED
  BY <1>1, MapInit DEF LockInv

LEMMA LockNext ==
  ASSUME LoginsOneByOne, LockInv, [Next]_vars PROVE LockInv'
<1>0. MapInv'
  BY MapNext DEF LockInv
<1>a. \A c \in Conns, s \in Servers, u \in Users :
        pc[c] = "idle" /\ Find(s, u) = c => s = ServerOf[c] /\ u = session[c]
  BY IdleEntry DEF LockInv
<1> USE ConstAssumption DEF LockInv, MapInv, TypeInv, TypeOK, LocalsOK, HandlerOK,
        LoginsOneByOne, SessionExclusive, HeldIsOnline, Holds, BeforeOnline
<1>1. ASSUME NEW c \in Conns, Accept(c) PROVE SessionExclusive' /\ HeldIsOnline'
  BY <1>1 DEF Accept
<1>2. ASSUME NEW c \in Conns, PeerClose(c) PROVE SessionExclusive' /\ HeldIsOnline'
  BY <1>2 DEF PeerClose
<1>3. ASSUME NEW c \in Conns, Register(c) PROVE SessionExclusive' /\ HeldIsOnline'
  BY <1>3 DEF Register
<1>4. ASSUME NEW c \in Conns, Subscribe(c) PROVE SessionExclusive' /\ HeldIsOnline'
  BY <1>4 DEF Subscribe
<1>5. ASSUME NEW c \in Conns, SetOnline(c) PROVE SessionExclusive' /\ HeldIsOnline'
  <2>1. /\ pc[c] = "setOnline" /\ uid[c] \in Users
        /\ pc' = [pc EXCEPT ![c] = "queryOffline"]
        /\ userState' = [userState EXCEPT ![uid[c]] = "online"]
        /\ UNCHANGED <<session, uid>>
    BY <1>5, NoSqlFailure DEF SetOnline, UpdateState
  <2>2. QED
    BY <2>1
<1>6. ASSUME NEW c \in Conns, QueryOffline(c) PROVE SessionExclusive' /\ HeldIsOnline'
  BY <1>6 DEF QueryOffline
<1>7. ASSUME NEW c \in Conns, RemoveRead(c) PROVE SessionExclusive' /\ HeldIsOnline'
  BY <1>7 DEF RemoveRead
<1>8. ASSUME NEW c \in Conns, LoginAck(c) PROVE SessionExclusive' /\ HeldIsOnline'
  BY <1>8 DEF LoginAck
<1>9. ASSUME NEW c \in Conns, ChatQuery(c) PROVE SessionExclusive' /\ HeldIsOnline'
  BY <1>9 DEF ChatQuery
<1>10. ASSUME NEW c \in Conns, ChatPublish(c) PROVE SessionExclusive' /\ HeldIsOnline'
  BY <1>10 DEF ChatPublish
<1>11. ASSUME NEW c \in Conns, ChatStore(c) PROVE SessionExclusive' /\ HeldIsOnline'
  BY <1>11, SMTT(30) DEF ChatStore
<1>12. ASSUME NEW c \in Conns, GroupLock(c) PROVE SessionExclusive' /\ HeldIsOnline'
  BY <1>12, SMTT(30) DEF GroupLock
<1>13. ASSUME NEW c \in Conns, GroupPush(c) PROVE SessionExclusive' /\ HeldIsOnline'
  <2>1. UNCHANGED <<userState, session, pc, uid>>
    BY <1>13 DEF GroupPush
  <2>2. QED
    BY <2>1
<1>14. ASSUME NEW c \in Conns, GroupQuery(c) PROVE SessionExclusive' /\ HeldIsOnline'
  BY <1>14, SMTT(30) DEF GroupQuery
<1>15. ASSUME NEW c \in Conns, GroupPublish(c) PROVE SessionExclusive' /\ HeldIsOnline'
  BY <1>15, SMTT(30) DEF GroupPublish
<1>16. ASSUME NEW c \in Conns, GroupStore(c) PROVE SessionExclusive' /\ HeldIsOnline'
  BY <1>16, SMTT(30) DEF GroupStore
<1>17. ASSUME NEW c \in Conns, GroupUnlock(c) PROVE SessionExclusive' /\ HeldIsOnline'
  BY <1>17, SMTT(30) DEF GroupUnlock
<1>18. ASSUME NEW c \in Conns, Unsubscribe(c) PROVE SessionExclusive' /\ HeldIsOnline'
  <2>1. CASE uid[c] # NoUser /\ Goto(c, "setOffline") /\ UNCHANGED <<uid, connState>>
    BY <1>18, <2>1 DEF Unsubscribe
  <2>2. CASE uid[c] = NoUser /\ Finish(c)
    BY <1>18, <2>2 DEF Unsubscribe, Finish
  <2>3. QED
    BY <1>18, <2>1, <2>2 DEF Unsubscribe
<1>19. ASSUME NEW c \in Conns, SetOffline(c) PROVE SessionExclusive' /\ HeldIsOnline'
  BY <1>19 DEF SetOffline, UpdateState, Finish
<1>20. ASSUME NEW c \in Conns, Loginout(c) PROVE SessionExclusive' /\ HeldIsOnline'
  BY <1>20 DEF Loginout, Ready, LoggedIn
<1>21. ASSUME NEW c \in Conns, CloseConn(c) PROVE SessionExclusive' /\ HeldIsOnline'
  <2>1. /\ pc[c] = "idle" /\ ServerOf[c] \in Servers
        /\ pc' = [pc EXCEPT ![c] = "unsubscribe"]
        /\ session' = [session EXCEPT ![c] = NoUser]
        /\ userState' = userState
    BY <1>21 DEF CloseConn
  <2>2. \/ uid' = uid
        \/ \E u \in Users : Find(ServerOf[c], u) = c /\ uid' = [uid EXCEPT ![c] = u]
    BY <1>21 DEF CloseConn
  <2>3. ASSUME NEW u \in Users, Find(ServerOf[c], u) = c PROVE session[c] = u
    BY <1>a, <2>1, <2>3
  <2>4. \A d \in Conns, u \in Users : Holds(d, u)' =>
          Holds(d, u) /\ (pc'[d] \notin BeforeOnline => pc[d] \notin BeforeOnline)
    <3>1. CASE uid' = uid
      BY <2>1, <3>1
    <3>2. CASE \E u \in Users : Find(ServerOf[c], u) = c /\ uid' = [uid EXCEPT ![c] = u]
      BY <2>1, <2>3, <3>2
    <3>3. QED
      BY <2>2, <3>1, <3>2
  <2>5. QED
    BY <2>1, <2>4
<1>22. ASSUME NEW c \in Conns, NEW u \in Users, Login(c, u) PROVE SessionExclusive' /\ HeldIsOnline'
  <2>1. CASE UNCHANGED <<pc, uid>>
    BY <1>22, <2>1 DEF Login
  <2>2. CASE /\ userState[u] = "offline"
             /\ Goto(c, "register") /\ uid' = [uid EXCEPT ![c] = u]
    <3>1. \A d \in Conns : ~Holds(d, u)
      BY <1>22, <2>2 DEF Login, LoginInProgress
    <3>2. UNCHANGED <<userState, session>> /\ session[c] = NoUser
      BY <1>22 DEF Login
    <3>3. QED
      BY <2>2, <3>1, <3>2
  <2>3. QED
    BY <1>22, <2>1, <2>2 DEF Login
<1>23. ASSUME NEW c \in Conns, NEW m \in ChatMsgs, OneChat(c, m) PROVE SessionExclusive' /\ HeldIsOnline'
  <2>1. UNCHANGED <<userState, session, uid>>
    BY <1>23 DEF OneChat
  <2>2. CASE UNCHANGED pc
    BY <2>1, <2>2, SMTT(30)
  <2>3. CASE pc[c] = "idle" /\ Goto(c, "chatQuery")
    BY <2>1, <2>3, SMTT(30)
  <2>4. QED
    BY <1>23, <2>2, <2>3 DEF OneChat, Ready
<1>24. ASSUME NEW c \in Conns, NEW m \in GroupMsgs, GroupChat(c, m) PROVE SessionExclusive' /\ HeldIsOnline'
  BY <1>24 DEF GroupChat, Ready
<1>25. ASSUME NEW s \in Servers, RedisExec(s) PROVE SessionExclusive' /\ HeldIsOnline'
  BY <1>25 DEF RedisExec
<1>26. ASSUME NEW s \in Servers, HandleRedisSubscribeMessage(s) PROVE SessionExclusive' /\ HeldIsOnline'
  BY <1>26 DEF HandleRedisSubscribeMessage
<1>27. ASSUME NEW s \in Servers, ResetHandler(s) PROVE SessionExclusive' /\ HeldIsOnline'
  BY <1>27 DEF ResetHandler, ResetState
<1>28. ASSUME NEW s \in Servers, Exit(s) PROVE SessionExclusive' /\ HeldIsOnline'
  BY <1>28 DEF Exit
<1>29. ASSUME NEW s \in Servers, Restart(s) PROVE SessionExclusive' /\ HeldIsOnline'
  BY <1>29 DEF Restart
<1>32. ASSUME NEW s \in Servers, RedisLost(s) PROVE SessionExclusive' /\ HeldIsOnline'
  BY <1>32 DEF RedisLost
<1>30. ASSUME UNCHANGED vars PROVE SessionExclusive' /\ HeldIsOnline'
  <2>1. UNCHANGED <<userState, session, pc, uid>>
    BY <1>30 DEF vars
  <2>2. SessionExclusive'
    BY <2>1
  <2>3. HeldIsOnline'
    BY <2>1
  <2> HIDE DEF SessionExclusive, HeldIsOnline
  <2>4. QED
    BY <2>2, <2>3
<1> HIDE DEF MapInv, TypeInv, TypeOK, LocalsOK, HandlerOK, SessionExclusive,
         HeldIsOnline, Holds
<1>31. QED
  BY <1>0, <1>1, <1>2, <1>3, <1>4, <1>5, <1>6, <1>7, <1>8, <1>9, <1>10, <1>11, <1>12, <1>13, <1>14, <1>15, <1>16, <1>17, <1>18, <1>19, <1>20, <1>21, <1>22, <1>23, <1>24, <1>25, <1>26, <1>27, <1>28, <1>29, <1>32, <1>30 DEF Next, Request, HandlerStep

\* The state column works as a lock of the whole cluster.
THEOREM SessionsExclude ==
  ASSUME LoginsOneByOne PROVE Spec => []SessionExclusive
<1>1. LockInv /\ [Next]_vars => LockInv'
  BY LockNext
<1>2. LockInv => SessionExclusive
  BY DEF LockInv
<1>3. QED
  BY LockInit, <1>1, <1>2, PTL DEF Spec

\* From Register until its logout or close, a session is the one in the map.
Registered ==
  \A c \in Conns, u \in Users :
    Holds(c, u) /\ pc[c] \notin LogoutPcs \cup {"register"}
      => Find(ServerOf[c], u) = c

RegisteredInv == LockInv /\ Registered

LEMMA RegisteredInit == Init => RegisteredInv
<1>1. ASSUME Init PROVE Registered
  BY <1>1, ConstAssumption DEF Init, Registered, Holds
<1>2. QED
  BY <1>1, LockInit DEF RegisteredInv

LEMMA RegisteredNext ==
  ASSUME LoginsOneByOne, RegisteredInv, [Next]_vars PROVE RegisteredInv'
<1>0. LockInv'
  BY LockNext DEF RegisteredInv
<1>a. \A c \in Conns, s \in Servers, u \in Users :
        pc[c] = "idle" /\ Find(s, u) = c => s = ServerOf[c] /\ u = session[c]
  BY IdleEntry DEF RegisteredInv, LockInv
<1>b. \A s \in Servers, u \in Users :
        Find(s, u) # NoConn => Holds(Find(s, u), u) /\ ServerOf[Find(s, u)] = s
  BY EntryHolds DEF RegisteredInv, LockInv, MapInv
<1> USE ConstAssumption DEF RegisteredInv, LockInv, MapInv, TypeInv, TypeOK, LocalsOK,
        HandlerOK, SessionExclusive, Registered, Holds
<1>1. ASSUME NEW c \in Conns, Accept(c) PROVE Registered'
  BY <1>1 DEF Accept
<1>2. ASSUME NEW c \in Conns, PeerClose(c) PROVE Registered'
  BY <1>2 DEF PeerClose
<1>3. ASSUME NEW c \in Conns, Register(c) PROVE Registered'
  <2>1. /\ pc[c] = "register" /\ pc' = [pc EXCEPT ![c] = "subscribe"]
        /\ UNCHANGED <<session, uid>> /\ session[c] = NoUser
        /\ ServerOf[c] \in Servers /\ uid[c] \in Users
    BY <1>3 DEF Register
  <2>2. Holds(c, uid[c])
    BY <2>1
  <2>3. Find(ServerOf[c], uid[c]) \in {NoConn, c}
    <3>1. ASSUME Find(ServerOf[c], uid[c]) # NoConn
          PROVE  Find(ServerOf[c], uid[c]) = c
      <4>1. Find(ServerOf[c], uid[c]) \in Conns
        BY <2>1, <3>1
      <4>2. Holds(Find(ServerOf[c], uid[c]), uid[c])
        BY <1>b, <2>1, <3>1
      <4>3. QED
        BY <2>1, <2>2, <4>1, <4>2
    <3>2. QED
      BY <3>1
  <2>4. userConnectionMap' = [userConnectionMap EXCEPT ![ServerOf[c]][uid[c]] = c]
    BY <1>3, <2>3 DEF Register
  <2>5. SUFFICES ASSUME NEW d \in Conns, NEW u \in Users, Holds(d, u)',
                        pc'[d] \notin LogoutPcs \cup {"register"}
                 PROVE  Find(ServerOf[d], u)' = d
    OBVIOUS
  <2>6. CASE d = c
    <3>1. u = uid[c]
      BY <2>1, <2>5, <2>6
    <3>2. QED
      BY <2>1, <2>4, <2>6, <3>1
  <2>7. CASE d # c
    <3>1. Holds(d, u) /\ pc[d] \notin LogoutPcs \cup {"register"}
      BY <2>1, <2>5, <2>7
    <3>2. Find(ServerOf[d], u) = d /\ ServerOf[d] \in Servers
      BY <3>1
    <3>3. u # uid[c]
      BY <2>1, <2>2, <2>7, <3>1
    <3>4. QED
      BY <2>1, <2>4, <3>2, <3>3
  <2>8. QED
    BY <2>6, <2>7
<1>4. ASSUME NEW c \in Conns, Subscribe(c) PROVE Registered'
  BY <1>4 DEF Subscribe
<1>5. ASSUME NEW c \in Conns, SetOnline(c) PROVE Registered'
  BY <1>5 DEF SetOnline
<1>6. ASSUME NEW c \in Conns, QueryOffline(c) PROVE Registered'
  BY <1>6 DEF QueryOffline
<1>7. ASSUME NEW c \in Conns, RemoveRead(c) PROVE Registered'
  BY <1>7 DEF RemoveRead
<1>8. ASSUME NEW c \in Conns, LoginAck(c) PROVE Registered'
  BY <1>8 DEF LoginAck
<1>9. ASSUME NEW c \in Conns, ChatQuery(c) PROVE Registered'
  BY <1>9 DEF ChatQuery
<1>10. ASSUME NEW c \in Conns, ChatPublish(c) PROVE Registered'
  BY <1>10 DEF ChatPublish
<1>11. ASSUME NEW c \in Conns, ChatStore(c) PROVE Registered'
  BY <1>11 DEF ChatStore
<1>12. ASSUME NEW c \in Conns, GroupLock(c) PROVE Registered'
  BY <1>12 DEF GroupLock
<1>13. ASSUME NEW c \in Conns, GroupPush(c) PROVE Registered'
  BY <1>13 DEF GroupPush
<1>14. ASSUME NEW c \in Conns, GroupQuery(c) PROVE Registered'
  BY <1>14 DEF GroupQuery
<1>15. ASSUME NEW c \in Conns, GroupPublish(c) PROVE Registered'
  BY <1>15 DEF GroupPublish
<1>16. ASSUME NEW c \in Conns, GroupStore(c) PROVE Registered'
  BY <1>16 DEF GroupStore
<1>17. ASSUME NEW c \in Conns, GroupUnlock(c) PROVE Registered'
  BY <1>17 DEF GroupUnlock
<1>18. ASSUME NEW c \in Conns, Unsubscribe(c) PROVE Registered'
  <2>1. /\ pc[c] = "unsubscribe" /\ UNCHANGED <<session, userConnectionMap>>
        /\ session[c] = NoUser
        /\ \E label \in {"setOffline", "idle"} : pc' = [pc EXCEPT ![c] = label]
        /\ \/ uid' = uid /\ pc'[c] = "setOffline"
           \/ uid' = [uid EXCEPT ![c] = NoUser]
    BY <1>18 DEF Unsubscribe, Finish
  <2>2. QED
    BY <2>1
<1>19. ASSUME NEW c \in Conns, SetOffline(c) PROVE Registered'
  BY <1>19 DEF SetOffline, Finish
<1>20. ASSUME NEW c \in Conns, Loginout(c) PROVE Registered'
  BY <1>20 DEF Loginout, Ready, LoggedIn, Erase
<1>21. ASSUME NEW c \in Conns, CloseConn(c) PROVE Registered'
  <2>1. /\ pc[c] = "idle" /\ ServerOf[c] \in Servers
        /\ pc' = [pc EXCEPT ![c] = "unsubscribe"]
        /\ session' = [session EXCEPT ![c] = NoUser]
    BY <1>21 DEF CloseConn
  <2>2. SUFFICES ASSUME NEW d \in Conns, NEW u \in Users, Holds(d, u)',
                        pc'[d] \notin LogoutPcs \cup {"register"}
                 PROVE  Find(ServerOf[d], u)' = d
    OBVIOUS
  <2>3. d # c /\ pc[d] = pc'[d] /\ session[d] = session'[d]
    BY <2>1, <2>2
  <2>4. CASE UNCHANGED <<userConnectionMap, uid>>
    BY <2>2, <2>3, <2>4
  <2>5. ASSUME NEW v \in Users, Find(ServerOf[c], v) = c,
               Erase(ServerOf[c], v), uid' = [uid EXCEPT ![c] = v]
        PROVE  Find(ServerOf[d], u)' = d
    <3>1. Holds(d, u) /\ Holds(c, v)
      BY <1>a, <2>1, <2>2, <2>3, <2>5
    <3>2. Find(ServerOf[d], u) = d /\ ServerOf[d] \in Servers
      BY <2>2, <2>3, <3>1
    <3>3. u # v
      BY <2>3, <3>1
    <3>4. QED
      BY <2>5, <3>2, <3>3 DEF Erase
  <2>6. QED
    BY <1>21, <2>4, <2>5 DEF CloseConn
<1>22. ASSUME NEW c \in Conns, NEW u \in Users, Login(c, u) PROVE Registered'
  <2>1. pc[c] = "idle" /\ session[c] = NoUser /\ UNCHANGED <<session, userConnectionMap>>
    BY <1>22 DEF Login, Ready
  <2>2. CASE UNCHANGED <<pc, uid>>
    BY <2>1, <2>2
  <2>3. CASE Goto(c, "register") /\ uid' = [uid EXCEPT ![c] = u]
    BY <2>1, <2>3
  <2>4. QED
    BY <1>22, <2>2, <2>3 DEF Login
<1>23. ASSUME NEW c \in Conns, NEW m \in ChatMsgs, OneChat(c, m) PROVE Registered'
  <2>1. pc[c] = "idle" /\ UNCHANGED <<session, uid, userConnectionMap>>
    BY <1>23 DEF OneChat, Ready
  <2>2. CASE UNCHANGED pc
    BY <2>1, <2>2
  <2>3. CASE Goto(c, "chatQuery")
    BY <2>1, <2>3
  <2>4. QED
    BY <1>23, <2>2, <2>3 DEF OneChat
<1>24. ASSUME NEW c \in Conns, NEW m \in GroupMsgs, GroupChat(c, m) PROVE Registered'
  BY <1>24 DEF GroupChat, Ready
<1>25. ASSUME NEW s \in Servers, RedisExec(s) PROVE Registered'
  BY <1>25 DEF RedisExec
<1>26. ASSUME NEW s \in Servers, HandleRedisSubscribeMessage(s) PROVE Registered'
  BY <1>26 DEF HandleRedisSubscribeMessage
<1>27. ASSUME NEW s \in Servers, ResetHandler(s) PROVE Registered'
  BY <1>27 DEF ResetHandler
<1>28. ASSUME NEW s \in Servers, Exit(s) PROVE Registered'
  BY <1>28 DEF Exit
<1>29. ASSUME NEW s \in Servers, Restart(s) PROVE Registered'
  BY <1>29 DEF Restart
<1>32. ASSUME NEW s \in Servers, RedisLost(s) PROVE Registered'
  BY <1>32 DEF RedisLost
<1>30. ASSUME UNCHANGED vars PROVE Registered'
  BY <1>30 DEF vars
<1> HIDE DEF LockInv, Registered
<1>31. QED
  BY <1>0, <1>1, <1>2, <1>3, <1>4, <1>5, <1>6, <1>7, <1>8, <1>9, <1>10, <1>11, <1>12, <1>13, <1>14, <1>15, <1>16, <1>17, <1>18, <1>19, <1>20, <1>21, <1>22, <1>23, <1>24, <1>25, <1>26, <1>27, <1>28, <1>29, <1>32, <1>30 DEF Next, Request, HandlerStep


\* No server stops without being counted.
AllUp == failures = 0 => \A s \in Servers : life[s] = "up"

SessionInv == RegisteredInv /\ AllUp /\ OnlineIsHeld

LEMMA SessionInit == Init => SessionInv
<1>1. ASSUME Init PROVE AllUp /\ OnlineIsHeld
  BY <1>1 DEF Init, AllUp, OnlineIsHeld
<1>2. QED
  BY <1>1, RegisteredInit DEF SessionInv

LEMMA SessionNext ==
  ASSUME LoginsOneByOne, SessionInv, [Next]_vars PROVE SessionInv'
<1>0. RegisteredInv'
  BY RegisteredNext DEF SessionInv
<1>f. failures \in Nat
  BY DEF SessionInv, RegisteredInv, LockInv, MapInv, TypeInv, TypeOK
<1>a. \A c \in Conns, s \in Servers, u \in Users :
        pc[c] = "idle" /\ Find(s, u) = c => s = ServerOf[c] /\ u = session[c]
  BY IdleEntry DEF SessionInv, RegisteredInv, LockInv
<1> DEFINE Goal == AllUp' /\ OnlineIsHeld'
<1> USE ConstAssumption DEF LoginsOneByOne, SessionInv, RegisteredInv, LockInv, MapInv, TypeInv,
        TypeOK, LocalsOK, HandlerOK, Registered, AllUp, OnlineIsHeld, Holds
<1>1. ASSUME NEW c \in Conns, Accept(c) PROVE Goal
  BY <1>1 DEF Accept
<1>2. ASSUME NEW c \in Conns, PeerClose(c) PROVE Goal
  BY <1>2 DEF PeerClose
<1>3. ASSUME NEW c \in Conns, Register(c) PROVE Goal
  BY <1>3 DEF Register
<1>4. ASSUME NEW c \in Conns, Subscribe(c) PROVE Goal
  BY <1>4 DEF Subscribe
<1>5. ASSUME NEW c \in Conns, SetOnline(c) PROVE Goal
  BY <1>5, NoSqlFailure DEF SetOnline, UpdateState
<1>6. ASSUME NEW c \in Conns, QueryOffline(c) PROVE Goal
  BY <1>6 DEF QueryOffline
<1>7. ASSUME NEW c \in Conns, RemoveRead(c) PROVE Goal
  BY <1>7, NoSqlFailure DEF RemoveRead, RemoveOffline
<1>8. ASSUME NEW c \in Conns, LoginAck(c) PROVE Goal
  BY <1>8 DEF LoginAck
<1>9. ASSUME NEW c \in Conns, ChatQuery(c) PROVE Goal
  <2>1. /\ pc[c] = "chatQuery" /\ UNCHANGED <<userState, life, failures, session, uid>>
        /\ \E label \in {"chatPublish", "chatStore"} : pc' = [pc EXCEPT ![c] = label]
    BY <1>9 DEF ChatQuery
  <2>2. \A d \in Conns, u \in Users : Holds(d, u) => Holds(d, u)'
    BY <2>1
  <2>3. QED
    BY <2>1, <2>2
<1>10. ASSUME NEW c \in Conns, ChatPublish(c) PROVE Goal
  BY <1>10 DEF ChatPublish
<1>11. ASSUME NEW c \in Conns, ChatStore(c) PROVE Goal
  BY <1>11, NoSqlFailure DEF ChatStore, InsertOffline
<1>12. ASSUME NEW c \in Conns, GroupLock(c) PROVE Goal
  BY <1>12 DEF GroupLock
<1>13. ASSUME NEW c \in Conns, GroupPush(c) PROVE Goal
  BY <1>13 DEF GroupPush
<1>14. ASSUME NEW c \in Conns, GroupQuery(c) PROVE Goal
  BY <1>14 DEF GroupQuery
<1>15. ASSUME NEW c \in Conns, GroupPublish(c) PROVE Goal
  BY <1>15 DEF GroupPublish
<1>16. ASSUME NEW c \in Conns, GroupStore(c) PROVE Goal
  BY <1>16, NoSqlFailure DEF GroupStore, InsertOffline
<1>17. ASSUME NEW c \in Conns, GroupUnlock(c) PROVE Goal
  BY <1>17 DEF GroupUnlock
<1>18. ASSUME NEW c \in Conns, Unsubscribe(c) PROVE Goal
  <2>1. pc[c] = "unsubscribe" /\ session[c] = NoUser
        /\ UNCHANGED <<userState, life, failures, session>>
    BY <1>18 DEF Unsubscribe
  <2>2. CASE uid[c] # NoUser /\ Goto(c, "setOffline") /\ UNCHANGED <<uid, connState>>
    BY <2>1, <2>2
  <2>3. CASE uid[c] = NoUser /\ Goto(c, "idle") /\ uid' = [uid EXCEPT ![c] = NoUser]
    BY <2>1, <2>3
  <2>4. QED
    BY <1>18, <2>2, <2>3 DEF Unsubscribe, Finish
<1>19. ASSUME NEW c \in Conns, SetOffline(c) PROVE Goal
  <2>1. /\ pc[c] = "setOffline" /\ uid[c] \in Users /\ session[c] = NoUser
        /\ userState' = [userState EXCEPT ![uid[c]] = "offline"]
        /\ pc' = [pc EXCEPT ![c] = "idle"] /\ uid' = [uid EXCEPT ![c] = NoUser]
        /\ UNCHANGED <<life, failures, session>>
    BY <1>19, NoSqlFailure DEF SetOffline, UpdateState, Finish
  <2>2. \A d \in Conns, u \in Users : Holds(d, u) /\ u # uid[c] => Holds(d, u)'
    BY <2>1
  <2>3. QED
    BY <2>1, <2>2
<1>20. ASSUME NEW c \in Conns, Loginout(c) PROVE Goal
  <2>1. /\ pc[c] = "idle" /\ UNCHANGED <<userState, life, failures>>
        /\ pc' = [pc EXCEPT ![c] = "unsubscribe"]
        /\ uid' = [uid EXCEPT ![c] = session[c]]
        /\ session' = [session EXCEPT ![c] = NoUser]
    BY <1>20 DEF Loginout, Ready
  <2>2. \A d \in Conns, u \in Users : Holds(d, u) => Holds(d, u)'
    BY <2>1
  <2>3. QED
    BY <2>1, <2>2
<1>21. ASSUME NEW c \in Conns, CloseConn(c) PROVE Goal
  <2>1. /\ pc[c] = "idle" /\ UNCHANGED <<userState, life, failures>> /\ ServerOf[c] \in Servers
        /\ pc' = [pc EXCEPT ![c] = "unsubscribe"]
        /\ session' = [session EXCEPT ![c] = NoUser]
    BY <1>21 DEF CloseConn
  <2>2. ASSUME session[c] \in Users PROVE uid' = [uid EXCEPT ![c] = session[c]]
    <3>1. Find(ServerOf[c], session[c]) = c
      <4>1. pc[c] \notin LogoutPcs \cup {"register"}
        BY <2>1
      <4>2. Registered
        OBVIOUS
      <4>3. QED
        BY <2>2, <4>1, <4>2
    <3>2. \A u \in Users : Find(ServerOf[c], u) = c => u = session[c]
      BY <1>a, <2>1
    <3>3. QED
      BY <1>21, <2>2, <3>1, <3>2 DEF CloseConn
  <2>3. \A d \in Conns : d # c => uid'[d] = uid[d]
    BY <1>21 DEF CloseConn
  <2>4. \A d \in Conns, u \in Users : Holds(d, u) => Holds(d, u)'
    BY <2>1, <2>2, <2>3
  <2>5. QED
    BY <2>1, <2>4
<1>22. ASSUME NEW c \in Conns, NEW u \in Users, Login(c, u) PROVE Goal
  BY <1>22 DEF Login, Ready
<1>23. ASSUME NEW c \in Conns, NEW m \in ChatMsgs, OneChat(c, m) PROVE Goal
  <2>1. pc[c] = "idle" /\ UNCHANGED <<userState, life, failures, session, uid>>
    BY <1>23 DEF OneChat, Ready
  <2>2. \A d \in Conns : pc'[d] = pc[d] \/ (d = c /\ pc'[d] = "chatQuery")
    BY <1>23 DEF OneChat
  <2>3. \A d \in Conns, u \in Users : Holds(d, u) => Holds(d, u)'
    BY <2>1, <2>2
  <2>4. QED
    BY <2>1, <2>3
<1>24. ASSUME NEW c \in Conns, NEW m \in GroupMsgs, GroupChat(c, m) PROVE Goal
  BY <1>24 DEF GroupChat, Ready
<1>25. ASSUME NEW s \in Servers, RedisExec(s) PROVE Goal
  BY <1>25 DEF RedisExec
<1>26. ASSUME NEW s \in Servers, HandleRedisSubscribeMessage(s) PROVE Goal
  BY <1>26, NoSqlFailure DEF HandleRedisSubscribeMessage, InsertOffline
<1>27. ASSUME NEW s \in Servers, ResetHandler(s) PROVE Goal
  BY <1>27 DEF ResetHandler
<1>28. ASSUME NEW s \in Servers, Exit(s) PROVE Goal
  BY <1>28 DEF Exit
<1>29. ASSUME NEW s \in Servers, Restart(s) PROVE Goal
  BY <1>29 DEF Restart
<1>32. ASSUME NEW s \in Servers, RedisLost(s) PROVE Goal
  BY <1>32 DEF RedisLost
<1>30. ASSUME UNCHANGED vars PROVE Goal
  BY <1>30 DEF vars
<1> HIDE DEF RegisteredInv, AllUp, OnlineIsHeld
<1>31. QED
  BY <1>0, <1>1, <1>2, <1>3, <1>4, <1>5, <1>6, <1>7, <1>8, <1>9, <1>10, <1>11, <1>12, <1>13, <1>14, <1>15, <1>16, <1>17, <1>18, <1>19, <1>20, <1>21, <1>22, <1>23, <1>24, <1>25, <1>26, <1>27, <1>28, <1>29, <1>32, <1>30 DEF Next, Request, HandlerStep


\* Until a server stops, and with logins of one user that do not overlap, nobody
\* is shown online, and so refused as a duplicate, without a connection that is it.
THEOREM OnlineUsersAreHeld ==
  ASSUME LoginsOneByOne PROVE Spec => []OnlineIsHeld
<1>1. SessionInv /\ [Next]_vars => SessionInv'
  BY SessionNext
<1>2. SessionInv => OnlineIsHeld
  BY DEF SessionInv
<1>3. QED
  BY SessionInit, <1>1, <1>2, PTL DEF Spec

============================================================================
