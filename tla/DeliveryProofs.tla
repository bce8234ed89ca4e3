--------------------------- MODULE DeliveryProofs ---------------------------
(***************************************************************************)
(* What becomes of a chat message in Chatservice, for every number of      *)
(* servers, connections, users and messages: in which steps it can be      *)
(* lost, whatever fails, and that one server never makes two of it.        *)
(***************************************************************************)
EXTENDS ChatserviceProofs, SequenceTheorems

USE DEF db, redis, client, handler, memory, Goto, MutexFree, Find, QueryState,
        QueryRows, Observed, Msgs, NoRows,
        LoginPcs, LogoutPcs, ChatPcs, GroupPcs, MsgPcs

----------------------------------------------------------------------------
(* Effects of the helpers                                                  *)

LEMMA PushEffect ==
  ASSUME TypeOK, NEW c \in Conns, NEW k \in Msgs, Push(c, k)
  PROVE  \A d \in Conns, m \in Msgs :
           pushed'[d][m] = IF d = c /\ m = k THEN pushed[d][m] + 1 ELSE pushed[d][m]
BY DEF TypeOK, Push

LEMMA InsertEffect ==
  ASSUME TypeOK, NEW u \in Users, NEW k \in Msgs, InsertOffline(u, k)
  PROVE  \/ UpdateFails /\ UNCHANGED offlineMessage
         \/ \A v \in Users, m \in Msgs :
              offlineMessage'[v][m] = IF v = u /\ m = k THEN offlineMessage[v][m] + 1
                                                        ELSE offlineMessage[v][m]
BY DEF TypeOK, InsertOffline

\* Sending a message and storing one make no message disappear.
LEMMA PushKeeps ==
  ASSUME TypeOK, NEW c \in Conns, NEW k \in Msgs, Push(c, k), NEW m \in Msgs
  PROVE  \A d \in Conns : pushed[d][m] > 0 => pushed'[d][m] > 0
<1>1. \A d \in Conns : pushed[d][m] \in Nat
  BY DEF TypeOK
<1>2. \A d \in Conns : pushed'[d][m] = pushed[d][m] \/ pushed'[d][m] = pushed[d][m] + 1
  BY PushEffect
<1>3. QED
  BY <1>1, <1>2

LEMMA InsertKeeps ==
  ASSUME TypeOK, NEW u \in Users, NEW k \in Msgs, InsertOffline(u, k), NEW m \in Msgs
  PROVE  \A v \in Users : offlineMessage[v][m] > 0 => offlineMessage'[v][m] > 0
<1>1. \A v \in Users : offlineMessage[v][m] \in Nat
  BY DEF TypeOK
<1>2. \A v \in Users : \/ offlineMessage'[v][m] = offlineMessage[v][m]
                       \/ offlineMessage'[v][m] = offlineMessage[v][m] + 1
  BY InsertEffect
<1>3. QED
  BY <1>1, <1>2

LEMMA RemoveEffect ==
  ASSUME TypeOK, NEW u \in Users, RemoveOffline(u)
  PROVE  \/ UpdateFails /\ UNCHANGED offlineMessage
         \/ \A v \in Users, m \in Msgs :
              offlineMessage'[v][m] = IF v = u THEN 0 ELSE offlineMessage[v][m]
BY DEF TypeOK, RemoveOffline

\* A published message comes behind what a subscribed server has not read yet.
LEMMA PublishEffect ==
  ASSUME TypeOK, NEW from \in Servers, NEW u \in Users, NEW k \in Msgs,
         Publish(from, u, k), NEW t \in Servers
  PROVE  /\ \A i \in 1..Len(channel[t]) :
              i \in 1..Len(channel'[t]) /\ channel'[t][i] = channel[t][i]
         /\ link[from] /\ <<t, u>> \in subscribed =>
              /\ Len(channel[t]) + 1 \in 1..Len(channel'[t])
              /\ channel'[t][Len(channel[t]) + 1] = <<u, k>>
<1>1. channel[t] \in Seq(Users \X Msgs) /\ <<u, k>> \in Users \X Msgs
  BY DEF TypeOK
<1>2. channel'[t] = IF link[from] /\ <<t, u>> \in subscribed
                    THEN Append(channel[t], <<u, k>>) ELSE channel[t]
  BY DEF Publish
<1>3. CASE link[from] /\ <<t, u>> \in subscribed
  <2>1. /\ Len(channel'[t]) = Len(channel[t]) + 1 /\ Len(channel[t]) \in Nat
        /\ \A i \in 1..Len(channel[t]) : channel'[t][i] = channel[t][i]
        /\ channel'[t][Len(channel[t]) + 1] = <<u, k>>
    BY <1>1, <1>2, <1>3, AppendProperties
  <2>2. QED
    BY <2>1
<1>4. CASE ~(link[from] /\ <<t, u>> \in subscribed)
  <2>1. channel'[t] = channel[t]
    BY <1>2, <1>4
  <2>2. QED
    BY <1>4, <2>1
<1>5. QED
  BY <1>3, <1>4

\* A message that is read leaves the channel of its server.
LEMMA ObserveEffect ==
  ASSUME TypeOK, NEW s \in Servers, channel[s] # <<>>,
         channel' = [channel EXCEPT ![s] = Tail(@)]
  PROVE  /\ 1 \in 1..Len(channel[s]) /\ Observed(s) = channel[s][1]
         /\ channel[s][1] \in Users \X Msgs
         /\ \A i \in 1..Len(channel'[s]) :
              i + 1 \in 1..Len(channel[s]) /\ channel'[s][i] = channel[s][i + 1]
         /\ \A i \in 1..Len(channel[s]) :
              i # 1 => i - 1 \in 1..Len(channel'[s]) /\ channel'[s][i - 1] = channel[s][i]
         /\ \A t \in Servers : t # s => channel'[t] = channel[t]
<1> DEFINE q == channel[s]
<1>1. q \in Seq(Users \X Msgs) /\ q # <<>> /\ channel'[s] = Tail(q)
  BY DEF TypeOK
<1>2. \A t \in Servers : t # s => channel'[t] = channel[t]
  BY DEF TypeOK
<1>3. Observed(s) = Head(q)
  BY DEF Observed
<1> HIDE DEF q
<1>4. /\ Len(Tail(q)) = Len(q) - 1 /\ Len(q) \in Nat /\ Len(q) # 0
      /\ \A i \in 1..Len(Tail(q)) : Tail(q)[i] = q[i + 1]
      /\ Head(q) = q[1]
  BY <1>1, HeadTailProperties
<1>5. 1 \in 1..Len(q) /\ q[1] \in Users \X Msgs
  BY <1>1, <1>4
<1>6. \A i \in 1..Len(Tail(q)) : i + 1 \in 1..Len(q)
  BY <1>4
<1>7. \A i \in 1..Len(q) :
        i = 1 \/ (i - 1 \in 1..Len(Tail(q)) /\ (i - 1) + 1 = i)
  BY <1>4
<1>8. \A i \in 1..Len(channel'[s]) : i + 1 \in 1..Len(q) /\ channel'[s][i] = q[i + 1]
  BY <1>1, <1>4, <1>6
<1>9. \A i \in 1..Len(q) :
        i # 1 => i - 1 \in 1..Len(channel'[s]) /\ channel'[s][i - 1] = q[i]
  <2>1. SUFFICES ASSUME NEW i \in 1..Len(q), i # 1
                 PROVE  i - 1 \in 1..Len(channel'[s]) /\ channel'[s][i - 1] = q[i]
    OBVIOUS
  <2>2. i - 1 \in 1..Len(Tail(q)) /\ (i - 1) + 1 = i
    BY <1>7, <2>1
  <2>3. Tail(q)[i - 1] = q[(i - 1) + 1]
    BY <1>4, <2>2, Zenon
  <2>4. QED
    BY <1>1, <2>2, <2>3, Zenon
<1>10. Head(q) = q[1]
  BY <1>4
<1>11. QED
  BY <1>2, <1>5, <1>8, <1>9, <1>10 DEF q

----------------------------------------------------------------------------
(* Handlers carry a message only while they deliver it                     *)

MsgOK == \A c \in Conns : pc[c] \notin MsgPcs => msg[c] = NoMsg

CarryInv == AddressInv /\ MsgOK

LEMMA CarryInit == Init => CarryInv
<1>1. Init => MsgOK
  BY DEF Init, MsgOK
<1>2. QED
  BY <1>1, AddressInit DEF CarryInv

LEMMA CarryNext == CarryInv /\ [Next]_vars => CarryInv'
<1> SUFFICES ASSUME AddressInv, MsgOK, [Next]_vars PROVE MsgOK'
  BY AddressNext DEF CarryInv
<1>t. TypeOK
  BY DEF AddressInv, MapInv, TypeInv
<1>1. ASSUME NEW c \in Conns, HandlerStep(c) PROVE MsgOK'
  <2> USE <1>t DEF TypeOK, MsgOK
  <2>1. CASE \/ Register(c) \/ Subscribe(c) \/ SetOnline(c) \/ QueryOffline(c)
             \/ RemoveRead(c) \/ LoginAck(c) \/ Unsubscribe(c) \/ SetOffline(c)
    <3>1. /\ UNCHANGED msg /\ msg[c] = NoMsg
          /\ \A d \in Conns : d # c => pc'[d] = pc[d]
      BY <2>1 DEF Register, Subscribe, SetOnline, QueryOffline, RemoveRead, LoginAck,
                  Unsubscribe, SetOffline, Finish
    <3>2. QED
      BY <3>1
  <2>2. CASE \/ ChatQuery(c) \/ GroupLock(c) \/ GroupPush(c) \/ GroupQuery(c)
             \/ GroupPublish(c) \/ GroupStore(c)
    <3>1. /\ UNCHANGED msg /\ pc'[c] \in MsgPcs
          /\ \A d \in Conns : d # c => pc'[d] = pc[d]
      BY <2>2 DEF ChatQuery, GroupLock, GroupPush, GroupQuery, GroupPublish, GroupStore
    <3>2. QED
      BY <3>1
  <2>3. CASE ChatPublish(c) \/ ChatStore(c) \/ GroupUnlock(c)
    BY <2>3 DEF ChatPublish, ChatStore, GroupUnlock
  <2>4. QED
    BY <1>1, <2>1, <2>2, <2>3 DEF HandlerStep
<1>2. ASSUME NEW c \in Conns, Accept(c) \/ PeerClose(c) \/ Request(c) \/ CloseConn(c)
      PROVE  MsgOK'
  <2> USE <1>t DEF TypeOK, MsgOK
  <2>1. CASE Accept(c) \/ PeerClose(c)
    BY <2>1 DEF Accept, PeerClose
  <2>2. CASE (\E u \in Users : Login(c, u)) \/ Loginout(c) \/ CloseConn(c)
    <3>1. /\ UNCHANGED msg /\ pc[c] = "idle"
          /\ \A d \in Conns : d # c => pc'[d] = pc[d]
      BY <2>2 DEF Login, Loginout, CloseConn, Ready
    <3>2. QED
      BY <3>1
  <2>3. CASE \/ \E m \in ChatMsgs : OneChat(c, m)
             \/ \E m \in GroupMsgs : GroupChat(c, m)
    <3>1. \/ UNCHANGED <<pc, msg>>
          \/ /\ pc'[c] \in MsgPcs
             /\ \A d \in Conns : d # c => pc'[d] = pc[d] /\ msg'[d] = msg[d]
      BY <2>3 DEF OneChat, GroupChat
    <3>2. QED
      BY <3>1
  <2>4. QED
    BY <1>2, <2>1, <2>2, <2>3 DEF Request
<1>3. ASSUME NEW s \in Servers, Exit(s) PROVE MsgOK'
  BY <1>3 DEF Exit, MsgOK
<1>4. ASSUME NEW s \in Servers,
             \/ RedisExec(s) \/ HandleRedisSubscribeMessage(s) \/ RedisLost(s)
             \/ ResetHandler(s) \/ Restart(s)
      PROVE  MsgOK'
  BY <1>4 DEF RedisExec, HandleRedisSubscribeMessage, RedisLost, ResetHandler,
              Restart, MsgOK
<1>5. CASE UNCHANGED vars
  BY <1>5 DEF vars, MsgOK
<1>6. QED
  BY <1>1, <1>2, <1>3, <1>4, <1>5 DEF Next

----------------------------------------------------------------------------
(* The steps that may lose a message                                       *)

\* A message that is lost has left one of the places in which it was.
LEMMA LostSomewhere ==
  ASSUME NEW m \in ChatMsgs, Kept(m), ~Kept(m)'
  PROVE  \/ \E c \in Conns : msg[c] = m /\ msg'[c] # m
         \/ \E c \in Conns : vec[c][m] > 0 /\ ~(vec'[c][m] > 0)
         \/ \E c \in Conns : pushed[c][m] > 0 /\ ~(pushed'[c][m] > 0)
         \/ \E s \in Servers : \E i \in 1..Len(channel[s]) :
              /\ channel[s][i][2] = m
              /\ ~ \E j \in 1..Len(channel'[s]) : channel'[s][j][2] = m
         \/ \E u \in Users : offlineMessage[u][m] > 0 /\ ~(offlineMessage'[u][m] > 0)
BY DEF Kept

LEMMA KeptUnchanged ==
  ASSUME UNCHANGED <<offlineMessage, channel, msg, vec, pushed>>, NEW m \in ChatMsgs, Kept(m)
  PROVE  Kept(m)'
BY DEF Kept

LEMMA LoginLoses ==
  ASSUME CarryInv, NEW c \in Conns, NEW m \in ChatMsgs, Kept(m), ~Kept(m)',
         QueryOffline(c) \/ RemoveRead(c) \/ LoginAck(c)
  PROVE  Race(m)
<1>t. TypeOK /\ LocalsOK /\ VecAddressed /\ RowsAddressed /\ m \in Msgs
  BY DEF CarryInv, AddressInv, MapInv, TypeInv
<1>v. vec[c][m] \in Nat /\ pushed[c][m] \in Nat
  BY <1>t DEF TypeOK
<1>n. ~(vec'[c][m] > 0) /\ ~(pushed'[c][m] > 0)
  BY DEF Kept
<1>1. ASSUME QueryOffline(c) PROVE FALSE
  <2>1. /\ ~(vec[c][m] > 0) /\ UNCHANGED <<offlineMessage, channel, msg, pushed>>
        /\ \A d \in Conns : d # c => vec'[d] = vec[d]
    BY <1>t, <1>1 DEF QueryOffline, VecAddressed, TypeOK
  <2>2. QED
    BY <2>1, LostSomewhere
<1>2. ASSUME RemoveRead(c) PROVE Race(m)
  <2>1. /\ pc[c] = "removeOffline" /\ uid[c] \in Users /\ RemoveOffline(uid[c])
        /\ UNCHANGED <<channel, msg, vec, pushed>>
    BY <1>t, <1>2 DEF RemoveRead, LocalsOK
  <2>2. PICK u \in Users : offlineMessage[u][m] > 0 /\ ~(offlineMessage'[u][m] > 0)
    BY <2>1, LostSomewhere
  <2>3. u = uid[c]
    BY <1>t, <2>1, <2>2, RemoveEffect
  <2>4. u = ToId[m]
    BY <1>t, <2>2 DEF RowsAddressed, Addressees
  <2>5. vec[c][m] = 0
    BY <1>v, <1>n, <2>1
  <2>6. QED
    BY <2>1, <2>3, <2>4, <2>5 DEF Race
<1>3. ASSUME LoginAck(c) PROVE FALSE
  <2>1. /\ UNCHANGED <<offlineMessage, channel, msg>>
        /\ \A d \in Conns : d # c => vec'[d] = vec[d] /\ pushed'[d] = pushed[d]
        /\ pushed'[c][m] = pushed[c][m] + vec[c][m]
    BY <1>t, <1>3 DEF LoginAck, TypeOK
  <2>2. vec[c][m] = 0 /\ pushed[c][m] = 0
    BY <1>v, <1>n, <2>1
  <2>3. QED
    BY <2>1, <2>2, LostSomewhere
<1>4. QED
  BY <1>1, <1>2, <1>3

LEMMA ChatLoses ==
  ASSUME CarryInv, NEW c \in Conns, NEW m \in ChatMsgs, Kept(m), ~Kept(m)',
         \/ \E k \in ChatMsgs : OneChat(c, k)
         \/ ChatQuery(c) \/ ChatPublish(c) \/ ChatStore(c)
  PROVE  Race(m)
<1>t. TypeOK /\ LocalsOK /\ MsgOK /\ m \in Msgs /\ NoMsg # m
  BY ConstAssumption DEF CarryInv, AddressInv, MapInv, TypeInv
<1>1. ASSUME NEW k \in ChatMsgs, OneChat(c, k) PROVE FALSE
  <2>1. UNCHANGED <<offlineMessage, channel, vec>> /\ msg[c] = NoMsg
    BY <1>t, <1>1 DEF OneChat, Ready, MsgOK
  <2>2. \A d \in Conns : msg[d] = m => msg'[d] = m
    BY <1>t, <1>1, <2>1 DEF OneChat, TypeOK
  <2>3. \A d \in Conns : pushed[d][m] > 0 => pushed'[d][m] > 0
    <3>1. CASE UNCHANGED pushed
      BY <3>1
    <3>2. CASE /\ Find(ServerOf[c], ToId[k]) # NoConn
               /\ Push(Find(ServerOf[c], ToId[k]), k)
      <4>1. Find(ServerOf[c], ToId[k]) \in Conns /\ k \in Msgs
        BY <1>t, <3>2, ConstAssumption DEF TypeOK
      <4>2. QED
        BY <1>t, <3>2, <4>1, PushKeeps
    <3>3. QED
      BY <1>1, <3>1, <3>2 DEF OneChat
  <2>4. QED
    BY <2>1, <2>2, <2>3, LostSomewhere
<1>2. ASSUME ChatQuery(c) PROVE FALSE
  BY <1>2, KeptUnchanged DEF ChatQuery
<1>3. ASSUME ChatPublish(c) PROVE Race(m)
  <2>1. /\ pc[c] = "chatPublish" /\ msg[c] \in ChatMsgs /\ ToId[msg[c]] \in Users
        /\ Publish(ServerOf[c], ToId[msg[c]], msg[c]) /\ ServerOf[c] \in Servers
        /\ UNCHANGED <<offlineMessage, vec, pushed>>
        /\ \A d \in Conns : d # c => msg'[d] = msg[d]
    BY <1>t, <1>3, ConstAssumption DEF ChatPublish, LocalsOK, TypeOK
  <2>2. \A s \in Servers : \A i \in 1..Len(channel[s]) :
          i \in 1..Len(channel'[s]) /\ channel'[s][i] = channel[s][i]
    BY <1>t, <2>1, PublishEffect
  <2>3. msg[c] = m
    BY <2>1, <2>2, LostSomewhere
  <2>4. ASSUME link[ServerOf[c]],
               NEW s \in Servers, <<s, ToId[m]>> \in subscribed
        PROVE  FALSE
    <3>1. /\ Len(channel[s]) + 1 \in 1..Len(channel'[s])
          /\ channel'[s][Len(channel[s]) + 1] = <<ToId[m], m>>
      BY <1>t, <2>1, <2>3, <2>4, PublishEffect
    <3>2. <<ToId[m], m>>[2] = m
      OBVIOUS
    <3>3. QED
      BY <3>1, <3>2 DEF Kept
  <2>5. QED
    BY <2>1, <2>3, <2>4 DEF Race
<1>4. ASSUME ChatStore(c) PROVE Race(m)
  <2>1. /\ pc[c] = "chatStore" /\ msg[c] \in ChatMsgs /\ ToId[msg[c]] \in Users
        /\ InsertOffline(ToId[msg[c]], msg[c])
        /\ UNCHANGED <<channel, vec, pushed>>
        /\ \A d \in Conns : d # c => msg'[d] = msg[d]
    BY <1>t, <1>4, ConstAssumption DEF ChatStore, LocalsOK, TypeOK
  <2>2. \/ UpdateFails /\ UNCHANGED offlineMessage
        \/ \A v \in Users, k \in Msgs :
             offlineMessage'[v][k] = IF v = ToId[msg[c]] /\ k = msg[c]
                                     THEN offlineMessage[v][k] + 1
                                     ELSE offlineMessage[v][k]
    BY <1>t, <2>1, InsertEffect
  <2>3. \A v \in Users : offlineMessage[v][m] \in Nat
    BY <1>t DEF TypeOK
  <2>4. msg[c] = m
    <3>1. \A v \in Users : offlineMessage[v][m] > 0 => offlineMessage'[v][m] > 0
      BY <1>t, <2>1, InsertKeeps
    <3>2. QED
      BY <2>1, <3>1, LostSomewhere
  <2>5. UpdateFails
    <3>1. ~(offlineMessage'[ToId[m]][m] > 0)
      BY <2>1, <2>4 DEF Kept
    <3>2. QED
      BY <1>t, <2>1, <2>2, <2>3, <2>4, <3>1
  <2>6. failures' > failures
    BY <1>t, <2>5 DEF UpdateFails, TypeOK
  <2>7. QED
    BY <2>1, <2>4, <2>6 DEF Race, Stores
<1>5. QED
  BY <1>1, <1>2, <1>3, <1>4

LEMMA GroupLoses ==
  ASSUME CarryInv, NEW c \in Conns, NEW m \in ChatMsgs, Kept(m),
         \/ \E k \in GroupMsgs : GroupChat(c, k)
         \/ GroupLock(c) \/ GroupPush(c) \/ GroupQuery(c)
         \/ GroupPublish(c) \/ GroupStore(c) \/ GroupUnlock(c)
  PROVE  Kept(m)'
<1>t. /\ TypeOK /\ LocalsOK /\ MsgOK /\ m \in Msgs /\ NoMsg # m
      /\ \A k \in GroupMsgs : k # m
  BY ConstAssumption DEF CarryInv, AddressInv, MapInv, TypeInv
<1> SUFFICES ASSUME ~Kept(m)' PROVE FALSE
  OBVIOUS
<1>1. ASSUME NEW k \in GroupMsgs, GroupChat(c, k) PROVE FALSE
  <2>1. UNCHANGED <<offlineMessage, channel, vec, pushed>> /\ msg[c] = NoMsg
    BY <1>t, <1>1 DEF GroupChat, Ready, MsgOK
  <2>2. \A d \in Conns : msg[d] = m => msg'[d] = m
    BY <1>t, <1>1, <2>1 DEF GroupChat, TypeOK
  <2>3. QED
    BY <2>1, <2>2, LostSomewhere
<1>2. ASSUME GroupLock(c) \/ GroupQuery(c) PROVE FALSE
  BY <1>2, KeptUnchanged DEF GroupLock, GroupQuery
<1>3. ASSUME GroupPush(c) PROVE FALSE
  <2>1. PICK id \in ids[c] : /\ Find(ServerOf[c], id) # NoConn
                             /\ Push(Find(ServerOf[c], id), msg[c])
    BY <1>3 DEF GroupPush
  <2>2. ServerOf[c] \in Servers /\ id \in Users /\ msg[c] \in Msgs
    BY <1>t, <1>3, <2>1, ConstAssumption DEF GroupPush, LocalsOK, TypeOK
  <2>3. Find(ServerOf[c], id) \in Conns
    BY <1>t, <2>1, <2>2 DEF TypeOK
  <2>4. \A d \in Conns : pushed[d][m] > 0 => pushed'[d][m] > 0
    BY <1>t, <2>1, <2>2, <2>3, PushKeeps
  <2>5. QED
    BY <1>3, <2>4, LostSomewhere DEF GroupPush
<1>4. ASSUME GroupPublish(c) PROVE FALSE
  <2>1. /\ session[c] \in Users /\ msg[c] \in Msgs /\ ServerOf[c] \in Servers
        /\ Publish(ServerOf[c], session[c], msg[c])
    BY <1>t, <1>4, ConstAssumption DEF GroupPublish, LocalsOK
  <2>2. \A s \in Servers : \A i \in 1..Len(channel[s]) :
          i \in 1..Len(channel'[s]) /\ channel'[s][i] = channel[s][i]
    BY <1>t, <2>1, PublishEffect
  <2>3. QED
    BY <1>4, <2>2, LostSomewhere DEF GroupPublish
<1>5. ASSUME GroupStore(c) PROVE FALSE
  <2>1. /\ session[c] \in Users /\ msg[c] \in Msgs
        /\ InsertOffline(session[c], msg[c])
    BY <1>t, <1>5 DEF GroupStore, LocalsOK
  <2>2. \A v \in Users : offlineMessage[v][m] > 0 => offlineMessage'[v][m] > 0
    BY <1>t, <2>1, InsertKeeps
  <2>3. QED
    BY <1>5, <2>2, LostSomewhere DEF GroupStore
<1>6. ASSUME GroupUnlock(c) PROVE FALSE
  <2>1. msg[c] # m /\ UNCHANGED <<offlineMessage, channel, vec, pushed>>
    BY <1>t, <1>6 DEF GroupUnlock, LocalsOK
  <2>2. \A d \in Conns : d # c => msg'[d] = msg[d]
    BY <1>t, <1>6 DEF GroupUnlock, TypeOK
  <2>3. QED
    BY <2>1, <2>2, LostSomewhere
<1>7. QED
  BY <1>1, <1>2, <1>3, <1>4, <1>5, <1>6

LEMMA RedisLoses ==
  ASSUME CarryInv, NEW s \in Servers, NEW m \in ChatMsgs, Kept(m), ~Kept(m)',
         HandleRedisSubscribeMessage(s)
  PROVE  Race(m)
<1>t. TypeOK /\ m \in Msgs
  BY DEF CarryInv, AddressInv, MapInv, TypeInv
<1> DEFINE u == Head(channel[s])[1]
           k == Head(channel[s])[2]
<1>1. /\ channel[s] # <<>> /\ channel' = [channel EXCEPT ![s] = Tail(@)]
      /\ \/ Find(s, u) # NoConn /\ Push(Find(s, u), k) /\ UNCHANGED offlineMessage
         \/ Find(s, u) = NoConn /\ InsertOffline(u, k) /\ UNCHANGED pushed
      /\ UNCHANGED <<msg, vec>>
  BY DEF HandleRedisSubscribeMessage
<1>2. /\ 1 \in 1..Len(channel[s]) /\ Head(channel[s]) = channel[s][1]
      /\ channel[s][1] \in Users \X Msgs
      /\ \A i \in 1..Len(channel[s]) :
           i # 1 => i - 1 \in 1..Len(channel'[s]) /\ channel'[s][i - 1] = channel[s][i]
      /\ \A t \in Servers : t # s => channel'[t] = channel[t]
  BY <1>t, <1>1, ObserveEffect
<1>3. u \in Users /\ k \in Msgs
  BY <1>2
<1>4. Find(s, u) # NoConn => Find(s, u) \in Conns
  BY <1>t, <1>3 DEF TypeOK
<1> HIDE DEF u, k
<1>5. \A d \in Conns : pushed[d][m] > 0 => pushed'[d][m] > 0
  BY <1>t, <1>1, <1>3, <1>4, PushKeeps
<1>6. \A v \in Users : offlineMessage[v][m] > 0 => offlineMessage'[v][m] > 0
  BY <1>t, <1>1, <1>3, InsertKeeps
<1>7. PICK t \in Servers : \E i \in 1..Len(channel[t]) :
        /\ channel[t][i][2] = m
        /\ ~ \E j \in 1..Len(channel'[t]) : channel'[t][j][2] = m
  BY <1>1, <1>5, <1>6, LostSomewhere
<1>8. k = m
  BY <1>2, <1>7 DEF k
<1>9. \A d \in Conns : ~(pushed'[d][m] > 0)
  BY DEF Kept
<1>10. \A v \in Users : ~(offlineMessage'[v][m] > 0)
  BY DEF Kept
<1>11. Find(s, u) = NoConn /\ InsertOffline(u, m)
  <2>1. ASSUME Find(s, u) # NoConn PROVE FALSE
    <3>1. pushed'[Find(s, u)][m] = pushed[Find(s, u)][m] + 1
      BY <1>t, <1>1, <1>4, <1>8, <2>1, PushEffect
    <3>2. pushed[Find(s, u)][m] \in Nat
      BY <1>t, <1>4, <2>1 DEF TypeOK
    <3>3. QED
      BY <1>4, <1>9, <2>1, <3>1, <3>2
  <2>2. QED
    BY <1>1, <1>8, <2>1
<1>12. UpdateFails
  <2>1. offlineMessage[u][m] \in Nat
    BY <1>t, <1>3 DEF TypeOK
  <2>2. UpdateFails \/ offlineMessage'[u][m] = offlineMessage[u][m] + 1
    BY <1>t, <1>3, <1>11, InsertEffect
  <2>3. QED
    BY <1>3, <1>10, <2>1, <2>2
<1>13. failures' > failures
  BY <1>t, <1>12 DEF UpdateFails, TypeOK
<1>14. Stores(m)
  BY <1>1, <1>8, <1>11 DEF Stores, u, k
<1>15. QED
  BY <1>13, <1>14 DEF Race

\* A step that loses a message is one of the five races.
LEMMA LossIsRace ==
  ASSUME CarryInv, [Next]_vars, NEW m \in ChatMsgs, Kept(m), ~Kept(m)'
  PROVE  Race(m)
<1>1. ASSUME NEW c \in Conns, HandlerStep(c) PROVE Race(m)
  <2>1. CASE \/ Register(c) \/ Subscribe(c) \/ SetOnline(c)
             \/ Unsubscribe(c) \/ SetOffline(c)
    BY <2>1, KeptUnchanged
       DEF Register, Subscribe, SetOnline, Unsubscribe, SetOffline, Finish
  <2>2. QED
    BY <1>1, <2>1, LoginLoses, ChatLoses, GroupLoses DEF HandlerStep
<1>2. ASSUME NEW c \in Conns, Accept(c) \/ PeerClose(c) \/ Request(c) \/ CloseConn(c)
      PROVE  Race(m)
  <2>1. CASE \/ Accept(c) \/ PeerClose(c) \/ (\E u \in Users : Login(c, u))
             \/ Loginout(c) \/ CloseConn(c)
    BY <2>1, KeptUnchanged DEF Accept, PeerClose, Login, Loginout, CloseConn
  <2>2. QED
    BY <1>2, <2>1, ChatLoses, GroupLoses DEF Request
<1>3. ASSUME NEW s \in Servers, RedisExec(s) \/ ResetHandler(s) \/ Restart(s)
      PROVE  Race(m)
  BY <1>3, KeptUnchanged DEF RedisExec, ResetHandler, Restart
<1>4. ASSUME NEW s \in Servers, RedisLost(s) \/ Exit(s) PROVE Race(m)
  <2>1. link \in [Servers -> BOOLEAN] /\ life \in [Servers -> {"up", "sigint", "down"}]
    BY DEF CarryInv, AddressInv, MapInv, TypeInv, TypeOK
  <2>2. CASE RedisLost(s)
    BY <2>1, <2>2 DEF RedisLost, Race
  <2>3. CASE Exit(s)
    BY <2>1, <2>3 DEF Exit, Race
  <2>4. QED
    BY <1>4, <2>2, <2>3
<1>5. CASE UNCHANGED vars
  BY <1>5, KeptUnchanged DEF vars
<1>6. QED
  BY <1>1, <1>2, <1>3, <1>4, <1>5, RedisLoses DEF Next

\* Whatever fails, overlaps or stops, and on any number of servers: a chat
\* message that a client has sent is lost in the five races only.
THEOREM LossesAreRaces == Spec => LostOnlyInRaces
<1>1. ASSUME CarryInv, [Next]_vars
      PROVE  [\A m \in ChatMsgs : Kept(m) /\ ~Kept(m)' => Race(m)]_vars
  BY <1>1, LossIsRace
<1>2. QED
  BY CarryInit, CarryNext, <1>1, PTL DEF Spec, LostOnlyInRaces

----------------------------------------------------------------------------
(* The copies of a message                                                 *)

\* p is the place of a copy of m, kind by kind.
Place(m, p) ==
  \/ \E c \in Conns : \E i \in 1..pushed[c][m] : p = <<"client", c, i>>
  \/ \E c \in Conns : msg[c] = m /\ p = <<"handler", c, 1>>
  \/ \E c \in Conns : pc[c] = "ack" /\ \E i \in 1..vec[c][m] : p = <<"login", c, i>>
  \/ \E s \in Servers : \E i \in 1..Len(channel[s]) :
       channel[s][i][2] = m /\ p = <<"Redis", s, i>>
  \/ \E u \in Users : \E i \in 1..offlineMessage[u][m] : p = <<"row", u, i>>

LEMMA CopyPlaces == \A m \in ChatMsgs : \A p : p \in Copies(m) <=> Place(m, p)
<1> SUFFICES ASSUME NEW m \in ChatMsgs, NEW p
             PROVE  p \in Copies(m) <=> Place(m, p)
  OBVIOUS
<1> DEFINE Client == UNION {{<<"client", c, i>> : i \in 1..pushed[c][m]} : c \in Conns}
           Handler == {<<"handler", c, 1>> : c \in {d \in Conns : msg[d] = m}}
           Read == UNION {{<<"login", c, i>> : i \in 1..vec[c][m]}
                            : c \in {d \in Conns : pc[d] = "ack"}}
           InRedis == UNION {{<<"Redis", s, i>> :
                                i \in {j \in 1..Len(channel[s]) : channel[s][j][2] = m}} :
                              s \in Servers}
           Row == UNION {{<<"row", u, i>> : i \in 1..offlineMessage[u][m]} : u \in Users}
<1>1. p \in Client <=>
        \E c \in Conns : \E i \in 1..pushed[c][m] : p = <<"client", c, i>>
  OBVIOUS
<1>2. p \in Handler <=> \E c \in Conns : msg[c] = m /\ p = <<"handler", c, 1>>
  OBVIOUS
<1>3. p \in Read <=>
        \E c \in Conns : pc[c] = "ack" /\ \E i \in 1..vec[c][m] : p = <<"login", c, i>>
  OBVIOUS
<1>4. p \in InRedis <=>
        \E s \in Servers : \E i \in 1..Len(channel[s]) :
          channel[s][i][2] = m /\ p = <<"Redis", s, i>>
  OBVIOUS
<1>5. p \in Row <=>
        \E u \in Users : \E i \in 1..offlineMessage[u][m] : p = <<"row", u, i>>
  OBVIOUS
<1>6. Copies(m) = Client \cup Handler \cup Read \cup InRedis \cup Row
  BY DEF Copies
<1> HIDE DEF Client, Handler, Read, InRedis, Row
<1>7. QED
  BY <1>1, <1>2, <1>3, <1>4, <1>5, <1>6 DEF Place

LEMMA CopyPlacesNext ==
  (\A m \in ChatMsgs : \A p : p \in Copies(m) <=> Place(m, p))'
BY CopyPlaces, PTL

\* A message has one copy at most, and none before it is sent.
CopyOK(m) == /\ \A p, q \in Copies(m) : p = q
             /\ m \notin sent => Copies(m) = {}

\* A step that leaves the copies where they are, or takes them away.
LEMMA CopiesStay ==
  ASSUME NEW m \in ChatMsgs, CopyOK(m), sent \subseteq sent',
         \A p : Place(m, p)' => Place(m, p)
  PROVE  CopyOK(m)'
BY CopyPlaces, CopyPlacesNext DEF CopyOK

\* A step that takes the copy from p0 and leaves one at n0.
LEMMA CopyMoves ==
  ASSUME NEW m \in ChatMsgs, CopyOK(m), sent \subseteq sent', NEW p0, NEW n0,
         Place(m, p0), \A p : Place(m, p)' => p = n0 \/ (Place(m, p) /\ p # p0)
  PROVE  CopyOK(m)'
<1>1. \A p : Place(m, p) => p = p0
  BY CopyPlaces DEF CopyOK
<1>2. \A p \in Copies(m)' : p = n0
  BY <1>1, CopyPlacesNext
<1>3. m \in sent
  BY CopyPlaces DEF CopyOK
<1>4. QED
  BY <1>2, <1>3 DEF CopyOK

\* A step that sends m and leaves a copy at n0.
LEMMA CopyAppears ==
  ASSUME NEW m \in ChatMsgs, CopyOK(m), m \notin sent, m \in sent', NEW n0,
         \A p : Place(m, p)' => p = n0 \/ Place(m, p)
  PROVE  CopyOK(m)'
<1>1. \A p : ~Place(m, p)
  BY CopyPlaces DEF CopyOK
<1>2. \A p \in Copies(m)' : p = n0
  BY <1>1, CopyPlacesNext
<1>3. QED
  BY <1>2 DEF CopyOK

\* The places that remain when nothing is added to the stores.
LEMMA NoNewPlace ==
  ASSUME NEW m \in ChatMsgs,
         \A c \in Conns : pushed'[c][m] = pushed[c][m],
         \A c \in Conns : msg'[c] = m => msg[c] = m,
         \A c \in Conns : pc'[c] = "ack" =>
           (pc[c] = "ack" /\ vec'[c][m] = vec[c][m]) \/ vec'[c][m] = 0,
         \A s \in Servers : \A i \in 1..Len(channel'[s]) : channel'[s][i][2] = m =>
           i \in 1..Len(channel[s]) /\ channel[s][i][2] = m,
         \A u \in Users : \/ offlineMessage'[u][m] = offlineMessage[u][m]
                          \/ offlineMessage'[u][m] = 0
  PROVE  \A p : Place(m, p)' => Place(m, p)
<1> SUFFICES ASSUME NEW p, Place(m, p)' PROVE Place(m, p)
  OBVIOUS
<1>1. 1..0 = {}
  OBVIOUS
<1>2. CASE \E c \in Conns : \E i \in 1..pushed'[c][m] : p = <<"client", c, i>>
  BY <1>2 DEF Place
<1>3. CASE \E c \in Conns : msg'[c] = m /\ p = <<"handler", c, 1>>
  BY <1>3 DEF Place
<1>4. CASE \E c \in Conns :
             pc'[c] = "ack" /\ \E i \in 1..vec'[c][m] : p = <<"login", c, i>>
  BY <1>1, <1>4 DEF Place
<1>5. CASE \E s \in Servers : \E i \in 1..Len(channel'[s]) :
             channel'[s][i][2] = m /\ p = <<"Redis", s, i>>
  BY <1>5 DEF Place
<1>6. CASE \E u \in Users : \E i \in 1..offlineMessage'[u][m] : p = <<"row", u, i>>
  BY <1>1, <1>6 DEF Place
<1>7. QED
  BY <1>2, <1>3, <1>4, <1>5, <1>6 DEF Place

----------------------------------------------------------------------------
(* One server never has two copies of a message                            *)

OneServer == \A s, t \in Servers : s = t

\* What a login has read and is about to remove is still in the table.
VecKept ==
  \A c \in Conns, m \in ChatMsgs :
    pc[c] = "removeOffline" => vec[c][m] <= offlineMessage[uid[c]][m]

CopyInv == LockInv /\ CarryInv /\ VecKept /\ \A m \in ChatMsgs : CopyOK(m)

\* There is no second copy anywhere, and no second row of a message.
LEMMA OnlyCopy ==
  ASSUME NEW m \in ChatMsgs, CopyOK(m), NEW p, NEW q, Place(m, p), Place(m, q)
  PROVE  p = q
BY CopyPlaces DEF CopyOK

LEMMA OneRow ==
  ASSUME TypeOK, NEW m \in ChatMsgs, CopyOK(m), NEW u \in Users
  PROVE  offlineMessage[u][m] \in {0, 1}
<1>1. offlineMessage[u][m] \in Nat
  BY DEF TypeOK
<1>2. ASSUME offlineMessage[u][m] > 1 PROVE FALSE
  <2>1. 1 \in 1..offlineMessage[u][m] /\ 2 \in 1..offlineMessage[u][m]
    BY <1>1, <1>2
  <2>2. Place(m, <<"row", u, 1>>) /\ Place(m, <<"row", u, 2>>)
    BY <2>1 DEF Place
  <2>3. <<"row", u, 1>> = <<"row", u, 2>>
    BY <2>2, OnlyCopy
  <2>4. QED
    BY <2>3
<1>3. QED
  BY <1>1, <1>2

LEMMA CopyInit == Init => CopyInv
<1>1. ASSUME Init PROVE VecKept /\ \A m \in ChatMsgs : CopyOK(m)
  <2>1. VecKept
    BY <1>1 DEF Init, VecKept
  <2>2. ASSUME NEW m \in ChatMsgs, NEW p, Place(m, p) PROVE FALSE
    <3>1. /\ \A c \in Conns : pushed[c][m] = 0 /\ msg[c] # m /\ pc[c] # "ack"
          /\ \A s \in Servers : channel[s] = <<>>
          /\ \A u \in Users : offlineMessage[u][m] = 0
      BY <1>1, ConstAssumption DEF Init
    <3>2. 1..0 = {} /\ 1..Len(<<>>) = {}
      OBVIOUS
    <3>3. QED
      BY <2>2, <3>1, <3>2 DEF Place
  <2>3. QED
    BY <2>1, <2>2, CopyPlaces DEF CopyOK
<1>2. QED
  BY <1>1, LockInit, CarryInit DEF CopyInv

LEMMA QueryCopies ==
  ASSUME CopyInv, NEW c \in Conns, QueryOffline(c), NEW m \in ChatMsgs
  PROVE  CopyOK(m)'
<1>t. TypeOK /\ m \in Msgs
  BY DEF CopyInv, LockInv, MapInv, TypeInv
<1>1. /\ UNCHANGED <<offlineMessage, channel, msg, sent, pushed>>
      /\ \A d \in Conns : d # c => vec'[d] = vec[d] /\ pc'[d] = pc[d]
      /\ pc'[c] = "ack" => vec'[c][m] = 0
  BY <1>t DEF QueryOffline, TypeOK
<1>2. \A p : Place(m, p)' => Place(m, p)
  BY <1>1, NoNewPlace
<1>3. QED
  BY <1>1, <1>2, CopiesStay DEF CopyInv

LEMMA RemoveCopies ==
  ASSUME LoginsOneByOne, CopyInv, NEW c \in Conns, RemoveRead(c), NEW m \in ChatMsgs
  PROVE  CopyOK(m)'
<1>t. TypeOK /\ LocalsOK /\ VecKept /\ CopyOK(m) /\ m \in Msgs
  BY DEF CopyInv, LockInv, MapInv, TypeInv
<1>1. /\ pc[c] = "removeOffline" /\ uid[c] \in Users /\ RemoveOffline(uid[c])
      /\ UNCHANGED <<channel, msg, vec, sent, pushed>>
      /\ \A d \in Conns : d # c => pc'[d] = pc[d]
  BY <1>t DEF RemoveRead, LocalsOK, TypeOK
<1>2. /\ offlineMessage'[uid[c]][m] = 0
      /\ \A u \in Users : u # uid[c] => offlineMessage'[u][m] = offlineMessage[u][m]
  BY <1>t, <1>1, NoSqlFailure, RemoveEffect
<1>3. /\ vec[c][m] \in Nat /\ vec[c][m] <= offlineMessage[uid[c]][m]
      /\ offlineMessage[uid[c]][m] \in {0, 1}
  BY <1>t, <1>1, OneRow DEF VecKept, TypeOK
<1>4. CASE vec[c][m] = 0
  <2>1. \A p : Place(m, p)' => Place(m, p)
    BY <1>1, <1>2, <1>4, NoNewPlace
  <2>2. QED
    BY <1>t, <1>1, <2>1, CopiesStay
<1>5. CASE vec[c][m] # 0
  <2> DEFINE p0 == <<"row", uid[c], 1>>
             n0 == <<"login", c, 1>>
  <2>1. vec[c][m] = 1 /\ offlineMessage[uid[c]][m] = 1
    BY <1>3, <1>5
  <2>2. 1..1 = {1} /\ 1..0 = {}
    OBVIOUS
  <2>3. Place(m, p0)
    BY <1>1, <2>1, <2>2 DEF Place
  <2>4. ASSUME NEW p, Place(m, p)' PROVE p = n0 \/ (Place(m, p) /\ p # p0)
    <3>1. CASE \E d \in Conns : \E i \in 1..pushed'[d][m] : p = <<"client", d, i>>
      BY <1>1, <3>1 DEF Place
    <3>2. CASE \E d \in Conns : msg'[d] = m /\ p = <<"handler", d, 1>>
      BY <1>1, <3>2 DEF Place
    <3>3. CASE \E d \in Conns :
                 pc'[d] = "ack" /\ \E i \in 1..vec'[d][m] : p = <<"login", d, i>>
      <4>1. PICK d \in Conns :
              pc'[d] = "ack" /\ \E i \in 1..vec[d][m] : p = <<"login", d, i>>
        BY <1>1, <3>3
      <4>2. CASE d = c
        BY <2>1, <2>2, <4>1, <4>2
      <4>3. CASE d # c
        BY <1>1, <4>1, <4>3 DEF Place
      <4>4. QED
        BY <4>2, <4>3
    <3>4. CASE \E s \in Servers : \E i \in 1..Len(channel'[s]) :
                 channel'[s][i][2] = m /\ p = <<"Redis", s, i>>
      BY <1>1, <3>4 DEF Place
    <3>5. CASE \E u \in Users : \E i \in 1..offlineMessage'[u][m] : p = <<"row", u, i>>
      <4>1. PICK u \in Users : \E i \in 1..offlineMessage'[u][m] : p = <<"row", u, i>>
        BY <3>5
      <4>2. u # uid[c]
        BY <1>2, <2>2, <4>1
      <4>3. QED
        BY <1>2, <4>1, <4>2 DEF Place
    <3>6. QED
      BY <2>4, <3>1, <3>2, <3>3, <3>4, <3>5 DEF Place
  <2> HIDE DEF p0, n0
  <2>5. QED
    BY <1>t, <1>1, <2>3, <2>4, CopyMoves
<1>6. QED
  BY <1>4, <1>5

LEMMA AckCopies ==
  ASSUME CopyInv, NEW c \in Conns, LoginAck(c), NEW m \in ChatMsgs
  PROVE  CopyOK(m)'
<1>t. TypeOK /\ CopyOK(m) /\ m \in Msgs
  BY DEF CopyInv, LockInv, MapInv, TypeInv
<1>1. /\ UNCHANGED <<offlineMessage, channel, msg, sent>>
      /\ pc[c] = "ack" /\ pc'[c] # "ack"
      /\ \A d \in Conns : d # c => /\ vec'[d] = vec[d] /\ pc'[d] = pc[d]
                                   /\ pushed'[d] = pushed[d]
      /\ pushed'[c][m] = pushed[c][m] + vec[c][m]
  BY <1>t DEF LoginAck, TypeOK
<1>2. vec[c][m] \in Nat /\ pushed[c][m] \in Nat
  BY <1>t DEF TypeOK
<1>3. CASE vec[c][m] = 0
  <2>1. pushed'[c][m] = pushed[c][m]
    BY <1>1, <1>2, <1>3
  <2>2. \A p : Place(m, p)' => Place(m, p)
    BY <1>1, <2>1, NoNewPlace
  <2>3. QED
    BY <1>t, <1>1, <2>2, CopiesStay
<1>4. CASE vec[c][m] # 0
  <2> DEFINE p0 == <<"login", c, 1>>
             n0 == <<"client", c, 1>>
  <2>1. Place(m, p0)
    <3>1. 1 \in 1..vec[c][m]
      BY <1>2, <1>4
    <3>2. QED
      BY <1>1, <3>1 DEF Place
  <2>2. vec[c][m] = 1
    <3>1. ASSUME vec[c][m] > 1 PROVE FALSE
      <4>1. 2 \in 1..vec[c][m]
        BY <1>2, <3>1
      <4>2. Place(m, <<"login", c, 2>>)
        BY <1>1, <4>1 DEF Place
      <4>3. p0 = <<"login", c, 2>>
        BY <1>t, <2>1, <4>2, OnlyCopy
      <4>4. QED
        BY <4>3
    <3>2. QED
      BY <1>2, <1>4, <3>1
  <2>3. pushed[c][m] = 0
    <3>1. ASSUME pushed[c][m] > 0 PROVE FALSE
      <4>1. 1 \in 1..pushed[c][m]
        BY <1>2, <3>1
      <4>2. Place(m, n0)
        BY <4>1 DEF Place
      <4>3. p0 = n0
        BY <1>t, <2>1, <4>2, OnlyCopy
      <4>4. QED
        BY <4>3
    <3>2. QED
      BY <1>2, <3>1
  <2>4. pushed'[c][m] = 1 /\ 1..1 = {1}
    BY <1>1, <2>2, <2>3
  <2>5. ASSUME NEW p, Place(m, p)' PROVE p = n0 \/ (Place(m, p) /\ p # p0)
    <3>1. CASE \E d \in Conns : \E i \in 1..pushed'[d][m] : p = <<"client", d, i>>
      <4>1. PICK d \in Conns : \E i \in 1..pushed'[d][m] : p = <<"client", d, i>>
        BY <3>1
      <4>2. CASE d = c
        BY <2>4, <4>1, <4>2
      <4>3. CASE d # c
        BY <1>1, <4>1, <4>3 DEF Place
      <4>4. QED
        BY <4>2, <4>3
    <3>2. CASE \E d \in Conns : msg'[d] = m /\ p = <<"handler", d, 1>>
      BY <1>1, <3>2 DEF Place
    <3>3. CASE \E d \in Conns :
                 pc'[d] = "ack" /\ \E i \in 1..vec'[d][m] : p = <<"login", d, i>>
      <4>1. PICK d \in Conns :
              pc'[d] = "ack" /\ \E i \in 1..vec'[d][m] : p = <<"login", d, i>>
        BY <3>3
      <4>2. d # c /\ vec'[d] = vec[d] /\ pc[d] = "ack"
        BY <1>1, <4>1
      <4>3. QED
        BY <4>1, <4>2 DEF Place
    <3>4. CASE \E s \in Servers : \E i \in 1..Len(channel'[s]) :
                 channel'[s][i][2] = m /\ p = <<"Redis", s, i>>
      BY <1>1, <3>4 DEF Place
    <3>5. CASE \E u \in Users : \E i \in 1..offlineMessage'[u][m] : p = <<"row", u, i>>
      BY <1>1, <3>5 DEF Place
    <3>6. QED
      BY <2>5, <3>1, <3>2, <3>3, <3>4, <3>5 DEF Place
  <2> HIDE DEF p0, n0
  <2>6. QED
    BY <1>t, <1>1, <2>1, <2>5, CopyMoves
<1>5. QED
  BY <1>3, <1>4

\* The places after a step that makes one copy.
LEMMA OneNewPlace ==
  ASSUME NEW m \in ChatMsgs, NEW n0,
         \A c \in Conns : \A i \in 1..pushed'[c][m] :
           i \in 1..pushed[c][m] \/ <<"client", c, i>> = n0,
         \A c \in Conns : msg'[c] = m => msg[c] = m \/ <<"handler", c, 1>> = n0,
         \A c \in Conns : pc'[c] = "ack" => pc[c] = "ack" /\ vec'[c] = vec[c],
         \A s \in Servers : \A i \in 1..Len(channel'[s]) : channel'[s][i][2] = m =>
           \/ i \in 1..Len(channel[s]) /\ channel[s][i][2] = m
           \/ <<"Redis", s, i>> = n0,
         \A u \in Users : \A i \in 1..offlineMessage'[u][m] :
           i \in 1..offlineMessage[u][m] \/ <<"row", u, i>> = n0
  PROVE  \A p : Place(m, p)' => p = n0 \/ Place(m, p)
<1> SUFFICES ASSUME NEW p, Place(m, p)', p # n0 PROVE Place(m, p)
  OBVIOUS
<1>1. CASE \E c \in Conns : \E i \in 1..pushed'[c][m] : p = <<"client", c, i>>
  BY <1>1 DEF Place
<1>2. CASE \E c \in Conns : msg'[c] = m /\ p = <<"handler", c, 1>>
  BY <1>2 DEF Place
<1>3. CASE \E c \in Conns :
             pc'[c] = "ack" /\ \E i \in 1..vec'[c][m] : p = <<"login", c, i>>
  BY <1>3 DEF Place
<1>4. CASE \E s \in Servers : \E i \in 1..Len(channel'[s]) :
             channel'[s][i][2] = m /\ p = <<"Redis", s, i>>
  BY <1>4 DEF Place
<1>5. CASE \E u \in Users : \E i \in 1..offlineMessage'[u][m] : p = <<"row", u, i>>
  BY <1>5 DEF Place
<1>6. QED
  BY <1>1, <1>2, <1>3, <1>4, <1>5 DEF Place

\* The copy that Push makes, and the one that InsertOffline makes.
LEMMA PushPlace ==
  ASSUME TypeOK, NEW d \in Conns, NEW k \in Msgs, Push(d, k)
  PROVE  \A c \in Conns : \A i \in 1..pushed'[c][k] :
           i \in 1..pushed[c][k] \/ <<"client", c, i>> = <<"client", d, pushed[d][k] + 1>>
<1>1. \A c \in Conns : pushed[c][k] \in Nat
  BY DEF TypeOK
<1>2. \A c \in Conns : c # d => pushed'[c][k] = pushed[c][k]
  BY PushEffect
<1>3. pushed'[d][k] = pushed[d][k] + 1
  BY PushEffect
<1>4. \A i \in 1..(pushed[d][k] + 1) : i \in 1..pushed[d][k] \/ i = pushed[d][k] + 1
  BY <1>1
<1>5. QED
  BY <1>2, <1>3, <1>4

LEMMA PublishPlaces ==
  ASSUME TypeOK, NEW from \in Servers, NEW u \in Users, NEW k \in Msgs,
         Publish(from, u, k), NEW m \in Msgs
  PROVE  \A t \in Servers : \A i \in 1..Len(channel'[t]) : channel'[t][i][2] = m =>
           \/ i \in 1..Len(channel[t]) /\ channel[t][i][2] = m
           \/ m = k /\ i = Len(channel[t]) + 1
<1>1. <<u, k>>[2] = k
  OBVIOUS
<1>2. SUFFICES ASSUME NEW t \in Servers, NEW i \in 1..Len(channel'[t]),
                      channel'[t][i][2] = m
               PROVE  \/ i \in 1..Len(channel[t]) /\ channel[t][i][2] = m
                      \/ m = k /\ i = Len(channel[t]) + 1
  OBVIOUS
<1>3. channel[t] \in Seq(Users \X Msgs) /\ <<u, k>> \in Users \X Msgs
  BY DEF TypeOK
<1>4. channel'[t] = channel[t] \/ channel'[t] = Append(channel[t], <<u, k>>)
  BY DEF Publish
<1>5. CASE channel'[t] = Append(channel[t], <<u, k>>)
  <2>1. /\ Len(channel'[t]) = Len(channel[t]) + 1 /\ Len(channel[t]) \in Nat
        /\ \A j \in 1..Len(channel[t]) : channel'[t][j] = channel[t][j]
        /\ channel'[t][Len(channel[t]) + 1] = <<u, k>>
    BY <1>3, <1>5, AppendProperties
  <2>2. i \in 1..Len(channel[t]) \/ i = Len(channel[t]) + 1
    BY <2>1
  <2>3. QED
    BY <1>1, <1>2, <2>1, <2>2
<1>6. QED
  BY <1>2, <1>4, <1>5

LEMMA InsertPlace ==
  ASSUME TypeOK, NEW u \in Users, NEW k \in Msgs, InsertOffline(u, k), ~UpdateFails
  PROVE  \A v \in Users : \A i \in 1..offlineMessage'[v][k] :
           \/ i \in 1..offlineMessage[v][k]
           \/ <<"row", v, i>> = <<"row", u, offlineMessage[u][k] + 1>>
<1>1. \A v \in Users : offlineMessage[v][k] \in Nat
  BY DEF TypeOK
<1>2. \A v \in Users : v # u => offlineMessage'[v][k] = offlineMessage[v][k]
  BY InsertEffect
<1>3. offlineMessage'[u][k] = offlineMessage[u][k] + 1
  BY InsertEffect
<1>4. \A i \in 1..(offlineMessage[u][k] + 1) :
        i \in 1..offlineMessage[u][k] \/ i = offlineMessage[u][k] + 1
  BY <1>1
<1>5. QED
  BY <1>2, <1>3, <1>4

LEMMA OneChatCopies ==
  ASSUME CopyInv, NEW c \in Conns, NEW k \in ChatMsgs, OneChat(c, k), NEW m \in ChatMsgs
  PROVE  CopyOK(m)'
<1>t. TypeOK /\ MsgOK /\ CopyOK(m) /\ m \in Msgs /\ k \in Msgs /\ NoMsg # m
  BY ConstAssumption DEF CopyInv, LockInv, MapInv, TypeInv, CarryInv
<1>1. /\ UNCHANGED <<offlineMessage, channel, vec>> /\ pc[c] = "idle" /\ msg[c] = NoMsg
      /\ k \notin sent /\ sent' = sent \cup {k}
      /\ \A d \in Conns : pc'[d] = "ack" => pc[d] = "ack"
      /\ \A d \in Conns : d # c => msg'[d] = msg[d]
      /\ msg'[c] # NoMsg => msg'[c] = k
  BY <1>t DEF OneChat, Ready, MsgOK, TypeOK
<1> DEFINE f == Find(ServerOf[c], ToId[k])
<1>2. \/ f \in Conns /\ Push(f, k) /\ UNCHANGED msg
      \/ UNCHANGED pushed
  <2>1. ServerOf[c] \in Servers /\ ToId[k] \in Users
    BY ConstAssumption
  <2>2. f # NoConn => f \in Conns
    BY <1>t, <2>1 DEF TypeOK
  <2>3. QED
    BY <2>2 DEF OneChat
<1> HIDE DEF f
<1>3. CASE m # k
  <2>1. \A d \in Conns : pushed'[d][m] = pushed[d][m]
    BY <1>t, <1>2, <1>3, PushEffect
  <2>2. \A d \in Conns : msg'[d] = m => msg[d] = m
    BY <1>t, <1>1, <1>3
  <2>3. \A p : Place(m, p)' => Place(m, p)
    BY <1>1, <2>1, <2>2, NoNewPlace
  <2>4. QED
    BY <1>t, <1>1, <2>3, CopiesStay
<1>4. CASE m = k
  <2>1. CASE f \in Conns /\ Push(f, k) /\ UNCHANGED msg
    <3> DEFINE n0 == <<"client", f, pushed[f][m] + 1>>
    <3>1. \A d \in Conns : \A i \in 1..pushed'[d][m] :
            i \in 1..pushed[d][m] \/ <<"client", d, i>> = n0
      BY <1>t, <1>4, <2>1, PushPlace
    <3> HIDE DEF n0
    <3>2. \A p : Place(m, p)' => p = n0 \/ Place(m, p)
      BY <1>1, <2>1, <3>1, OneNewPlace
    <3>3. QED
      BY <1>t, <1>1, <1>4, <3>2, CopyAppears
  <2>2. CASE UNCHANGED pushed
    <3> DEFINE n0 == <<"handler", c, 1>>
    <3>1. \A d \in Conns : msg'[d] = m => msg[d] = m \/ <<"handler", d, 1>> = n0
      BY <1>1
    <3> HIDE DEF n0
    <3>2. \A p : Place(m, p)' => p = n0 \/ Place(m, p)
      BY <1>1, <2>2, <3>1, OneNewPlace
    <3>3. QED
      BY <1>t, <1>1, <1>4, <3>2, CopyAppears
  <2>3. QED
    BY <1>2, <2>1, <2>2
<1>5. QED
  BY <1>3, <1>4

\* The copy of a handler that has published or stored its message is gone.
LEMMA HandlerGone ==
  ASSUME NEW m \in ChatMsgs, NEW c \in Conns, msg'[c] # m
  PROVE  ~Place(m, <<"handler", c, 1>>)'
BY DEF Place

LEMMA PublishCopies ==
  ASSUME OneServer, CopyInv, NEW c \in Conns, ChatPublish(c), NEW m \in ChatMsgs
  PROVE  CopyOK(m)'
<1>t. TypeOK /\ LocalsOK /\ CopyOK(m) /\ m \in Msgs /\ NoMsg # m
  BY ConstAssumption DEF CopyInv, LockInv, MapInv, TypeInv
<1> DEFINE k == msg[c]
           s == ServerOf[c]
<1>1. /\ UNCHANGED <<offlineMessage, vec, pushed, sent>>
      /\ \A d \in Conns : pc'[d] = "ack" => pc[d] = "ack"
      /\ \A d \in Conns : d # c => msg'[d] = msg[d]
      /\ msg'[c] = NoMsg
  BY <1>t DEF ChatPublish, TypeOK
<1>2. /\ k \in ChatMsgs /\ k \in Msgs /\ ToId[k] \in Users /\ s \in Servers
      /\ Publish(s, ToId[k], k)
  BY <1>t, ConstAssumption DEF ChatPublish, LocalsOK
<1> HIDE DEF k, s
<1>3. \A t \in Servers : \A i \in 1..Len(channel'[t]) : channel'[t][i][2] = m =>
        \/ i \in 1..Len(channel[t]) /\ channel[t][i][2] = m
        \/ m = k /\ i = Len(channel[t]) + 1
  BY <1>t, <1>2, PublishPlaces
<1>4. \A t \in Servers : t = s
  BY <1>2 DEF OneServer
<1>5. \A d \in Conns : msg'[d] = m => msg[d] = m
  BY <1>t, <1>1
<1>6. CASE m # k
  <2>1. \A p : Place(m, p)' => Place(m, p)
    BY <1>1, <1>3, <1>5, <1>6, NoNewPlace
  <2>2. QED
    BY <1>t, <1>1, <2>1, CopiesStay
<1>7. CASE m = k
  <2> DEFINE p0 == <<"handler", c, 1>>
             n0 == <<"Redis", s, Len(channel[s]) + 1>>
  <2>1. Place(m, p0) /\ ~Place(m, p0)'
    BY <1>t, <1>1, <1>7, HandlerGone DEF k, Place
  <2>2. \A t \in Servers : \A i \in 1..Len(channel'[t]) : channel'[t][i][2] = m =>
          \/ i \in 1..Len(channel[t]) /\ channel[t][i][2] = m
          \/ <<"Redis", t, i>> = n0
    BY <1>3, <1>4
  <2> HIDE DEF p0, n0
  <2>3. \A p : Place(m, p)' => p = n0 \/ Place(m, p)
    BY <1>1, <1>5, <2>2, OneNewPlace
  <2>4. \A p : Place(m, p)' => p = n0 \/ (Place(m, p) /\ p # p0)
    BY <2>1, <2>3
  <2>5. QED
    BY <1>t, <1>1, <2>1, <2>4, CopyMoves
<1>8. QED
  BY <1>6, <1>7

LEMMA StoreCopies ==
  ASSUME LoginsOneByOne, CopyInv, NEW c \in Conns, ChatStore(c), NEW m \in ChatMsgs
  PROVE  CopyOK(m)'
<1>t. TypeOK /\ LocalsOK /\ CopyOK(m) /\ m \in Msgs /\ NoMsg # m
  BY ConstAssumption DEF CopyInv, LockInv, MapInv, TypeInv
<1> DEFINE k == msg[c]
           u == ToId[k]
<1>1. /\ UNCHANGED <<channel, vec, pushed, sent>>
      /\ \A d \in Conns : pc'[d] = "ack" => pc[d] = "ack"
      /\ \A d \in Conns : d # c => msg'[d] = msg[d]
      /\ msg'[c] = NoMsg
  BY <1>t DEF ChatStore, TypeOK
<1>2. k \in ChatMsgs /\ k \in Msgs /\ u \in Users /\ InsertOffline(u, k) /\ ~UpdateFails
  BY <1>t, NoSqlFailure, ConstAssumption DEF ChatStore, LocalsOK
<1> HIDE DEF k, u
<1>3. \A d \in Conns : msg'[d] = m => msg[d] = m
  BY <1>t, <1>1
<1>4. CASE m # k
  <2>1. \A v \in Users : offlineMessage'[v][m] = offlineMessage[v][m]
    BY <1>t, <1>2, <1>4, InsertEffect
  <2>2. \A p : Place(m, p)' => Place(m, p)
    BY <1>1, <1>3, <2>1, NoNewPlace
  <2>3. QED
    BY <1>t, <1>1, <2>2, CopiesStay
<1>5. CASE m = k
  <2> DEFINE p0 == <<"handler", c, 1>>
             n0 == <<"row", u, offlineMessage[u][m] + 1>>
  <2>1. Place(m, p0) /\ ~Place(m, p0)'
    BY <1>t, <1>1, <1>5, HandlerGone DEF k, Place
  <2>2. \A v \in Users : \A i \in 1..offlineMessage'[v][m] :
          i \in 1..offlineMessage[v][m] \/ <<"row", v, i>> = n0
    BY <1>t, <1>2, <1>5, InsertPlace
  <2> HIDE DEF p0, n0
  <2>3. \A p : Place(m, p)' => p = n0 \/ Place(m, p)
    BY <1>1, <1>3, <2>2, OneNewPlace
  <2>4. \A p : Place(m, p)' => p = n0 \/ (Place(m, p) /\ p # p0)
    BY <2>1, <2>3
  <2>5. QED
    BY <1>t, <1>1, <2>1, <2>4, CopyMoves
<1>6. QED
  BY <1>4, <1>5

\* A step that moves what server s has not yet read up by one.
LEMMA CopiesShift ==
  ASSUME NEW m \in ChatMsgs, NEW s \in Servers, CopyOK(m), sent \subseteq sent',
         \A p : Place(m, p)' =>
           \/ Place(m, p) /\ \A i \in Nat : p # <<"Redis", s, i>>
           \/ \E i \in Nat : p = <<"Redis", s, i>> /\ Place(m, <<"Redis", s, i + 1>>)
  PROVE  CopyOK(m)'
<1>1. ASSUME NEW p, NEW q, Place(m, p)', Place(m, q)' PROVE p = q
  <2>1. CASE Place(m, p) /\ \A i \in Nat : p # <<"Redis", s, i>>
    <3>1. ASSUME NEW i \in Nat, Place(m, <<"Redis", s, i + 1>>) PROVE FALSE
      <4>1. p = <<"Redis", s, i + 1>> /\ i + 1 \in Nat
        BY <2>1, <3>1, OnlyCopy
      <4>2. QED
        BY <2>1, <4>1
    <3>2. Place(m, q)
      BY <1>1, <3>1
    <3>3. QED
      BY <2>1, <3>2, OnlyCopy
  <2>2. ASSUME NEW i \in Nat, p = <<"Redis", s, i>>, Place(m, <<"Redis", s, i + 1>>)
        PROVE  p = q
    <3>1. CASE Place(m, q) /\ \A j \in Nat : q # <<"Redis", s, j>>
      <4>1. q = <<"Redis", s, i + 1>> /\ i + 1 \in Nat
        BY <2>2, <3>1, OnlyCopy
      <4>2. QED
        BY <3>1, <4>1
    <3>2. ASSUME NEW j \in Nat, q = <<"Redis", s, j>>, Place(m, <<"Redis", s, j + 1>>)
          PROVE  p = q
      <4>1. <<"Redis", s, i + 1>> = <<"Redis", s, j + 1>>
        BY <2>2, <3>2, OnlyCopy
      <4>2. i = j
        BY <4>1
      <4>3. QED
        BY <2>2, <3>2, <4>2
    <3>3. QED
      BY <1>1, <3>1, <3>2
  <2>3. QED
    BY <1>1, <2>1, <2>2
<1>2. ASSUME NEW p, Place(m, p)' PROVE m \in sent
  <2>1. \E r : Place(m, r)
    BY <1>2
  <2>2. QED
    BY <2>1, CopyPlaces DEF CopyOK
<1>3. QED
  BY <1>1, <1>2, CopyPlacesNext DEF CopyOK

LEMMA RedisCopies ==
  ASSUME LoginsOneByOne, CopyInv, NEW s \in Servers, HandleRedisSubscribeMessage(s),
         NEW m \in ChatMsgs
  PROVE  CopyOK(m)'
<1>t. TypeOK /\ CopyOK(m) /\ m \in Msgs
  BY DEF CopyInv, LockInv, MapInv, TypeInv
<1> DEFINE u == Head(channel[s])[1]
           k == Head(channel[s])[2]
           f == Find(s, u)
<1>1. /\ channel[s] # <<>> /\ channel' = [channel EXCEPT ![s] = Tail(@)]
      /\ \/ f # NoConn /\ Push(f, k) /\ UNCHANGED offlineMessage
         \/ InsertOffline(u, k) /\ UNCHANGED pushed
      /\ UNCHANGED <<pc, msg, vec, sent>>
  BY DEF HandleRedisSubscribeMessage
<1>2. /\ 1 \in 1..Len(channel[s]) /\ Head(channel[s]) = channel[s][1]
      /\ channel[s][1] \in Users \X Msgs
      /\ \A i \in 1..Len(channel'[s]) :
           i + 1 \in 1..Len(channel[s]) /\ channel'[s][i] = channel[s][i + 1]
      /\ \A t \in Servers : t # s => channel'[t] = channel[t]
  BY <1>t, <1>1, ObserveEffect
<1>3. u \in Users /\ k \in Msgs /\ ~UpdateFails
  BY <1>2, NoSqlFailure
<1>4. f # NoConn => f \in Conns
  BY <1>t, <1>3 DEF TypeOK
<1>5. \A i \in 1..Len(channel'[s]) : channel'[s][i][2] = m =>
        Place(m, <<"Redis", s, i + 1>>)
  BY <1>2 DEF Place
<1>6. k = m => Place(m, <<"Redis", s, 1>>)
  BY <1>2 DEF k, Place
<1>7. \A i \in 1..Len(channel'[s]) : i \in Nat /\ i + 1 # 1
  OBVIOUS
<1> HIDE DEF u, k, f
<1>8. CASE k # m
  <2>1. /\ \A c \in Conns : pushed'[c][m] = pushed[c][m]
        /\ \A v \in Users : offlineMessage'[v][m] = offlineMessage[v][m]
    BY <1>t, <1>1, <1>3, <1>4, <1>8, PushEffect, InsertEffect
  <2>2. ASSUME NEW p, Place(m, p)'
        PROVE  \/ Place(m, p) /\ \A i \in Nat : p # <<"Redis", s, i>>
               \/ \E i \in Nat : p = <<"Redis", s, i>> /\ Place(m, <<"Redis", s, i + 1>>)
    <3>1. CASE \E c \in Conns : \E i \in 1..pushed'[c][m] : p = <<"client", c, i>>
      BY <2>1, <3>1 DEF Place
    <3>2. CASE \E c \in Conns : msg'[c] = m /\ p = <<"handler", c, 1>>
      BY <1>1, <3>2 DEF Place
    <3>3. CASE \E c \in Conns :
                 pc'[c] = "ack" /\ \E i \in 1..vec'[c][m] : p = <<"login", c, i>>
      BY <1>1, <3>3 DEF Place
    <3>4. CASE \E t \in Servers : \E i \in 1..Len(channel'[t]) :
                 channel'[t][i][2] = m /\ p = <<"Redis", t, i>>
      <4>1. PICK t \in Servers : \E i \in 1..Len(channel'[t]) :
              channel'[t][i][2] = m /\ p = <<"Redis", t, i>>
        BY <3>4
      <4>2. CASE t = s
        BY <1>5, <1>7, <4>1, <4>2
      <4>3. CASE t # s
        BY <1>2, <4>1, <4>3 DEF Place
      <4>4. QED
        BY <4>2, <4>3
    <3>5. CASE \E v \in Users : \E i \in 1..offlineMessage'[v][m] : p = <<"row", v, i>>
      BY <2>1, <3>5 DEF Place
    <3>6. QED
      BY <2>2, <3>1, <3>2, <3>3, <3>4, <3>5 DEF Place
  <2>3. QED
    BY <1>t, <1>1, <2>2, CopiesShift
<1>9. CASE k = m
  <2> DEFINE p0 == <<"Redis", s, 1>>
  <2>1. \A i \in 1..Len(channel'[s]) : channel'[s][i][2] # m
    <3>1. ASSUME NEW i \in 1..Len(channel'[s]), channel'[s][i][2] = m PROVE FALSE
      <4>1. Place(m, <<"Redis", s, i + 1>>) /\ Place(m, <<"Redis", s, 1>>)
        BY <1>5, <1>6, <1>9, <3>1
      <4>2. <<"Redis", s, i + 1>> = <<"Redis", s, 1>>
        BY <1>t, <4>1, OnlyCopy
      <4>3. QED
        BY <1>7, <4>2
    <3>2. QED
      BY <3>1
  <2>2. \A t \in Servers : \A i \in 1..Len(channel'[t]) : channel'[t][i][2] = m =>
          i \in 1..Len(channel[t]) /\ channel[t][i][2] = m
    BY <1>2, <2>1
  <2>3. Place(m, p0) /\ ~Place(m, p0)'
    <3>1. ~Place(m, p0)'
      BY <2>1 DEF Place
    <3>2. QED
      BY <1>6, <1>9, <3>1
  <2> HIDE DEF p0
  <2>4. ASSUME NEW n0, \A p : Place(m, p)' => p = n0 \/ Place(m, p)
        PROVE  CopyOK(m)'
    <3>1. \A p : Place(m, p)' => p = n0 \/ (Place(m, p) /\ p # p0)
      BY <2>3, <2>4
    <3>2. QED
      BY <1>t, <1>1, <2>3, <3>1, CopyMoves
  <2>5. CASE f # NoConn /\ Push(f, k) /\ UNCHANGED offlineMessage
    <3> DEFINE n0 == <<"client", f, pushed[f][m] + 1>>
    <3>1. \A c \in Conns : \A i \in 1..pushed'[c][m] :
            i \in 1..pushed[c][m] \/ <<"client", c, i>> = n0
      BY <1>t, <1>4, <1>9, <2>5, PushPlace
    <3> HIDE DEF n0
    <3>2. \A p : Place(m, p)' => p = n0 \/ Place(m, p)
      BY <1>1, <2>2, <2>5, <3>1, OneNewPlace
    <3>3. QED
      BY <2>4, <3>2
  <2>6. CASE InsertOffline(u, k) /\ UNCHANGED pushed
    <3> DEFINE n0 == <<"row", u, offlineMessage[u][m] + 1>>
    <3>1. \A v \in Users : \A i \in 1..offlineMessage'[v][m] :
            i \in 1..offlineMessage[v][m] \/ <<"row", v, i>> = n0
      BY <1>t, <1>3, <1>9, <2>6, InsertPlace
    <3> HIDE DEF n0
    <3>2. \A p : Place(m, p)' => p = n0 \/ Place(m, p)
      BY <1>1, <2>2, <2>6, <3>1, OneNewPlace
    <3>3. QED
      BY <2>4, <3>2
  <2>7. QED
    BY <1>1, <2>5, <2>6
<1>10. QED
  BY <1>8, <1>9

LEMMA GroupCopies ==
  ASSUME CopyInv, NEW c \in Conns, NEW m \in ChatMsgs,
         \/ \E k \in GroupMsgs : GroupChat(c, k)
         \/ GroupLock(c) \/ GroupPush(c) \/ GroupQuery(c)
         \/ GroupPublish(c) \/ GroupStore(c) \/ GroupUnlock(c)
  PROVE  CopyOK(m)'
<1>t. /\ TypeOK /\ LocalsOK /\ CopyOK(m) /\ m \in Msgs
      /\ \A k \in GroupMsgs : k \in Msgs /\ k # m
  BY ConstAssumption DEF CopyInv, LockInv, MapInv, TypeInv
<1>1. /\ UNCHANGED vec /\ sent \subseteq sent'
      /\ \A d \in Conns : pc'[d] = "ack" => pc[d] = "ack"
  BY <1>t DEF GroupChat, GroupLock, GroupPush, GroupQuery, GroupPublish, GroupStore,
              GroupUnlock, TypeOK
<1>2. \A d \in Conns : msg'[d] = m => msg[d] = m
  <2>1. CASE \E k \in GroupMsgs : GroupChat(c, k)
    BY <1>t, <2>1 DEF GroupChat, TypeOK
  <2>2. CASE GroupUnlock(c)
    BY <1>t, <2>2, ConstAssumption DEF GroupUnlock, TypeOK
  <2>3. CASE GroupLock(c) \/ GroupPush(c) \/ GroupQuery(c) \/ GroupPublish(c) \/ GroupStore(c)
    BY <2>3 DEF GroupLock, GroupPush, GroupQuery, GroupPublish, GroupStore
  <2>4. QED
    BY <2>1, <2>2, <2>3
<1>3. CASE GroupPush(c)
  <2>1. PICK id \in ids[c] : /\ Find(ServerOf[c], id) # NoConn
                             /\ Push(Find(ServerOf[c], id), msg[c])
    BY <1>3 DEF GroupPush
  <2>2. ServerOf[c] \in Servers /\ id \in Users /\ msg[c] \in GroupMsgs
    BY <1>t, <1>3, <2>1, ConstAssumption DEF GroupPush, LocalsOK, TypeOK
  <2>3. Find(ServerOf[c], id) \in Conns
    BY <1>t, <2>1, <2>2 DEF TypeOK
  <2>4. \A d \in Conns : pushed'[d][m] = pushed[d][m]
    BY <1>t, <2>1, <2>2, <2>3, PushEffect
  <2>5. UNCHANGED <<offlineMessage, channel>>
    BY <1>3 DEF GroupPush
  <2>6. \A p : Place(m, p)' => Place(m, p)
    BY <1>1, <1>2, <2>4, <2>5, NoNewPlace
  <2>7. QED
    BY <1>t, <1>1, <2>6, CopiesStay
<1>4. CASE GroupPublish(c)
  <2>1. /\ session[c] \in Users /\ msg[c] \in GroupMsgs /\ ServerOf[c] \in Servers
        /\ Publish(ServerOf[c], session[c], msg[c])
    BY <1>t, <1>4, ConstAssumption DEF GroupPublish, LocalsOK
  <2>2. \A t \in Servers : \A i \in 1..Len(channel'[t]) : channel'[t][i][2] = m =>
          i \in 1..Len(channel[t]) /\ channel[t][i][2] = m
    BY <1>t, <2>1, PublishPlaces
  <2>3. UNCHANGED <<offlineMessage, pushed>>
    BY <1>4 DEF GroupPublish
  <2>4. \A p : Place(m, p)' => Place(m, p)
    BY <1>1, <1>2, <2>2, <2>3, NoNewPlace
  <2>5. QED
    BY <1>t, <1>1, <2>4, CopiesStay
<1>5. CASE GroupStore(c)
  <2>1. /\ session[c] \in Users /\ msg[c] \in GroupMsgs
        /\ InsertOffline(session[c], msg[c])
    BY <1>t, <1>5 DEF GroupStore, LocalsOK
  <2>2. \A v \in Users : offlineMessage'[v][m] = offlineMessage[v][m]
    BY <1>t, <2>1, InsertEffect
  <2>3. UNCHANGED <<channel, pushed>>
    BY <1>5 DEF GroupStore
  <2>4. \A p : Place(m, p)' => Place(m, p)
    BY <1>1, <1>2, <2>2, <2>3, NoNewPlace
  <2>5. QED
    BY <1>t, <1>1, <2>4, CopiesStay
<1>6. CASE \/ \E k \in GroupMsgs : GroupChat(c, k)
           \/ GroupLock(c) \/ GroupQuery(c) \/ GroupUnlock(c)
  <2>1. UNCHANGED <<offlineMessage, channel, pushed>>
    BY <1>6 DEF GroupChat, GroupLock, GroupQuery, GroupUnlock
  <2>2. \A p : Place(m, p)' => Place(m, p)
    BY <1>1, <1>2, <2>1, NoNewPlace
  <2>3. QED
    BY <1>t, <1>1, <2>2, CopiesStay
<1>7. QED
  BY <1>3, <1>4, <1>5, <1>6

\* A server that stops or loses Redis takes copies away.
LEMMA StopCopies ==
  ASSUME CopyInv, NEW s \in Servers, Exit(s) \/ RedisLost(s), NEW m \in ChatMsgs
  PROVE  CopyOK(m)'
<1>t. TypeOK /\ CopyOK(m) /\ m \in Msgs /\ NoMsg # m
  BY ConstAssumption DEF CopyInv, LockInv, MapInv, TypeInv
<1>1. UNCHANGED <<offlineMessage, pushed, sent>>
  BY DEF Exit, RedisLost
<1>2. CASE Exit(s)
  <2>1. \A c \in Conns :
          \/ pc'[c] = "idle" /\ msg'[c] = NoMsg
          \/ pc'[c] = pc[c] /\ msg'[c] = msg[c] /\ vec'[c] = vec[c]
    BY <1>2 DEF Exit
  <2>2. channel' = [channel EXCEPT ![s] = <<>>]
    BY <1>2 DEF Exit
  <2>3. \A t \in Servers : \A i \in 1..Len(channel'[t]) : channel'[t][i][2] = m =>
          i \in 1..Len(channel[t]) /\ channel[t][i][2] = m
    <3>1. 1..Len(<<>>) = {}
      OBVIOUS
    <3>2. \A t \in Servers : channel'[t] = <<>> \/ channel'[t] = channel[t]
      BY <1>t, <2>2 DEF TypeOK
    <3>3. QED
      BY <3>1, <3>2
  <2>4. \A p : Place(m, p)' => Place(m, p)
    BY <1>t, <1>1, <2>1, <2>3, NoNewPlace
  <2>5. QED
    BY <1>t, <1>1, <2>4, CopiesStay
<1>3. CASE RedisLost(s)
  <2>1. PICK n \in 0..Len(channel[s]) :
          channel' = [channel EXCEPT ![s] = SubSeq(@, 1, n)]
    BY <1>3 DEF RedisLost
  <2>2. channel[s] \in Seq(Users \X Msgs)
    BY <1>t DEF TypeOK
  <2>3. /\ Len(SubSeq(channel[s], 1, n)) = n
        /\ \A i \in 1..n : SubSeq(channel[s], 1, n)[i] = channel[s][i] /\ i \in 1..Len(channel[s])
    BY <2>2
  <2>4. channel'[s] = SubSeq(channel[s], 1, n) /\ \A t \in Servers : t # s => channel'[t] = channel[t]
    BY <1>t, <2>1 DEF TypeOK
  <2>5. \A t \in Servers : \A i \in 1..Len(channel'[t]) : channel'[t][i][2] = m =>
          i \in 1..Len(channel[t]) /\ channel[t][i][2] = m
    BY <2>3, <2>4
  <2>6. UNCHANGED <<pc, msg, vec>>
    BY <1>3 DEF RedisLost
  <2>7. \A p : Place(m, p)' => Place(m, p)
    BY <1>1, <2>5, <2>6, NoNewPlace
  <2>8. QED
    BY <1>t, <1>1, <2>7, CopiesStay
<1>4. QED
  BY <1>2, <1>3

\* A step in which no login reads and no row is removed.
LEMMA VecStays ==
  ASSUME TypeInv, VecKept,
         \A c \in Conns : pc'[c] = "removeOffline" =>
           pc[c] = "removeOffline" /\ uid'[c] = uid[c] /\ vec'[c] = vec[c],
         \A u \in Users, m \in Msgs : \/ offlineMessage'[u][m] = offlineMessage[u][m]
                                      \/ offlineMessage'[u][m] = offlineMessage[u][m] + 1
  PROVE  VecKept'
<1>1. SUFFICES ASSUME NEW c \in Conns, NEW m \in ChatMsgs, pc'[c] = "removeOffline"
               PROVE  vec'[c][m] <= offlineMessage'[uid'[c]][m]
  BY DEF VecKept
<1>2. /\ pc[c] = "removeOffline" /\ uid'[c] = uid[c] /\ vec'[c] = vec[c]
      /\ uid[c] \in Users /\ m \in Msgs
  BY <1>1 DEF TypeInv, LocalsOK
<1>3. vec[c][m] \in Nat /\ offlineMessage[uid[c]][m] \in Nat
  BY <1>2 DEF TypeInv, TypeOK
<1>4. vec[c][m] <= offlineMessage[uid[c]][m]
  BY <1>2 DEF VecKept
<1>5. \/ offlineMessage'[uid[c]][m] = offlineMessage[uid[c]][m]
      \/ offlineMessage'[uid[c]][m] = offlineMessage[uid[c]][m] + 1
  BY <1>2
<1>6. QED
  BY <1>2, <1>3, <1>4, <1>5

LEMMA VecNext ==
  ASSUME LoginsOneByOne, LockInv, VecKept, [Next]_vars
  PROVE  VecKept'
<1>t. TypeInv /\ TypeOK /\ LocalsOK /\ SessionExclusive
  BY DEF LockInv, MapInv, TypeInv
<1> DEFINE Quiet == \A c \in Conns : pc'[c] = "removeOffline" =>
                      pc[c] = "removeOffline" /\ uid'[c] = uid[c] /\ vec'[c] = vec[c]
           Grown == \A u \in Users, m \in Msgs :
                      \/ offlineMessage'[u][m] = offlineMessage[u][m]
                      \/ offlineMessage'[u][m] = offlineMessage[u][m] + 1
<1>1. ASSUME NEW c \in Conns, QueryOffline(c) PROVE VecKept'
  <2>1. /\ pc[c] = "queryOffline" /\ UNCHANGED <<offlineMessage, uid>>
        /\ \A d \in Conns : d # c => pc'[d] = pc[d] /\ vec'[d] = vec[d]
        /\ vec'[c] = offlineMessage[uid[c]] \/ vec'[c] = NoRows
    BY <1>t, <1>1 DEF QueryOffline, TypeOK
  <2>2. \A m \in ChatMsgs : vec'[c][m] <= offlineMessage'[uid'[c]][m]
    <3>1. \A m \in ChatMsgs : offlineMessage[uid[c]][m] \in Nat
      BY <1>t, <2>1 DEF LocalsOK, TypeOK
    <3>2. \A m \in ChatMsgs : vec'[c][m] = offlineMessage[uid[c]][m] \/ vec'[c][m] = 0
      BY <2>1
    <3>3. QED
      BY <2>1, <3>1, <3>2
  <2>3. QED
    BY <2>1, <2>2 DEF VecKept
<1>2. ASSUME NEW c \in Conns, RemoveRead(c) PROVE VecKept'
  <2>1. /\ pc[c] = "removeOffline" /\ uid[c] \in Users /\ RemoveOffline(uid[c])
        /\ UNCHANGED <<uid, vec>> /\ pc'[c] = "ack"
        /\ \A d \in Conns : d # c => pc'[d] = pc[d]
    BY <1>t, <1>2 DEF RemoveRead, LocalsOK, TypeOK
  <2>2. \A v \in Users, m \in Msgs : v # uid[c] => offlineMessage'[v][m] = offlineMessage[v][m]
    BY <1>t, <2>1, RemoveEffect
  <2>3. \A d \in Conns : pc'[d] = "removeOffline" => d # c /\ uid[d] # uid[c] /\ uid[d] \in Users
    BY <1>t, <2>1 DEF SessionExclusive, Holds, LocalsOK
  <2>4. QED
    BY <2>1, <2>2, <2>3 DEF VecKept
<1>3. ASSUME NEW c \in Conns, HandlerStep(c), ~QueryOffline(c), ~RemoveRead(c)
      PROVE  VecKept'
  <2>1. Quiet
    <3>1. CASE Register(c) \/ Subscribe(c) \/ SetOnline(c) \/ LoginAck(c)
      BY <1>t, <3>1 DEF Register, Subscribe, SetOnline, LoginAck, TypeOK
    <3>2. CASE ChatQuery(c) \/ ChatPublish(c) \/ ChatStore(c)
      BY <1>t, <3>2 DEF ChatQuery, ChatPublish, ChatStore, TypeOK
    <3>3. CASE \/ GroupLock(c) \/ GroupPush(c) \/ GroupQuery(c)
               \/ GroupPublish(c) \/ GroupStore(c) \/ GroupUnlock(c)
      BY <1>t, <3>3 DEF GroupLock, GroupPush, GroupQuery, GroupPublish, GroupStore,
                        GroupUnlock, TypeOK
    <3>4. CASE Unsubscribe(c) \/ SetOffline(c)
      BY <1>t, <3>4 DEF Unsubscribe, SetOffline, Finish, TypeOK
    <3>5. QED
      BY <1>3, <3>1, <3>2, <3>3, <3>4 DEF HandlerStep
  <2>2. Grown
    <3>1. CASE ChatStore(c)
      <4>1. /\ InsertOffline(ToId[msg[c]], msg[c])
            /\ ToId[msg[c]] \in Users /\ msg[c] \in Msgs
        BY <1>t, <3>1, ConstAssumption DEF ChatStore, LocalsOK
      <4>2. QED
        BY <1>t, <4>1, InsertEffect
    <3>2. CASE GroupStore(c)
      <4>1. /\ InsertOffline(session[c], msg[c])
            /\ session[c] \in Users /\ msg[c] \in Msgs
        BY <1>t, <3>2 DEF GroupStore, LocalsOK
      <4>2. QED
        BY <1>t, <4>1, InsertEffect
    <3>3. CASE ~ChatStore(c) /\ ~GroupStore(c)
      <4>1. UNCHANGED offlineMessage
        BY <1>3, <3>3
           DEF HandlerStep, Register, Subscribe, SetOnline, LoginAck, ChatQuery,
               ChatPublish, GroupLock, GroupPush, GroupQuery, GroupPublish,
               GroupUnlock, Unsubscribe, SetOffline
      <4>2. QED
        BY <4>1
    <3>4. QED
      BY <3>1, <3>2, <3>3
  <2>3. QED
    BY <1>t, <2>1, <2>2, VecStays
<1>4. ASSUME NEW c \in Conns, Accept(c) \/ PeerClose(c) \/ Request(c) \/ CloseConn(c)
      PROVE  VecKept'
  <2>1. Quiet
    <3>1. CASE Accept(c) \/ PeerClose(c) \/ Loginout(c) \/ CloseConn(c)
      BY <1>t, <3>1 DEF Accept, PeerClose, Loginout, CloseConn, TypeOK
    <3>2. CASE \E u \in Users : Login(c, u)
      BY <1>t, <3>2 DEF Login, Ready, TypeOK
    <3>3. CASE (\E m \in ChatMsgs : OneChat(c, m)) \/ (\E m \in GroupMsgs : GroupChat(c, m))
      BY <1>t, <3>3 DEF OneChat, GroupChat, TypeOK
    <3>4. QED
      BY <1>4, <3>1, <3>2, <3>3 DEF Request
  <2>2. UNCHANGED offlineMessage
    BY <1>4 DEF Accept, PeerClose, Request, Login, OneChat, GroupChat, Loginout, CloseConn
  <2>3. QED
    BY <1>t, <2>1, <2>2, VecStays
<1>5. ASSUME NEW s \in Servers, HandleRedisSubscribeMessage(s) PROVE VecKept'
  <2> DEFINE u == Head(channel[s])[1]
             k == Head(channel[s])[2]
  <2>1. channel[s] # <<>> /\ channel' = [channel EXCEPT ![s] = Tail(@)]
    BY <1>5 DEF HandleRedisSubscribeMessage
  <2>2. u \in Users /\ k \in Msgs
    BY <1>t, <2>1, ObserveEffect
  <2>3. InsertOffline(u, k) \/ UNCHANGED offlineMessage
    BY <1>5 DEF HandleRedisSubscribeMessage
  <2> HIDE DEF u, k
  <2>4. Grown
    BY <1>t, <2>2, <2>3, InsertEffect
  <2>5. Quiet
    BY <1>5 DEF HandleRedisSubscribeMessage
  <2>6. QED
    BY <1>t, <2>4, <2>5, VecStays
<1>6. ASSUME NEW s \in Servers,
             RedisExec(s) \/ RedisLost(s) \/ ResetHandler(s) \/ Exit(s) \/ Restart(s)
      PROVE  VecKept'
  <2>1. UNCHANGED offlineMessage
    BY <1>6 DEF RedisExec, RedisLost, ResetHandler, Exit, Restart
  <2>2. Quiet
    BY <1>6 DEF RedisExec, RedisLost, ResetHandler, Exit, Restart
  <2>3. QED
    BY <1>t, <2>1, <2>2, VecStays
<1>7. CASE UNCHANGED vars
  BY <1>7 DEF vars, VecKept
<1>8. QED
  BY <1>1, <1>2, <1>3, <1>4, <1>5, <1>6, <1>7 DEF Next

LEMMA CopyNext ==
  ASSUME LoginsOneByOne, OneServer, CopyInv, [Next]_vars
  PROVE  CopyInv'
<1>1. LockInv' /\ CarryInv' /\ VecKept'
  BY LockNext, CarryNext, VecNext DEF CopyInv
<1> SUFFICES ASSUME NEW m \in ChatMsgs PROVE CopyOK(m)'
  BY <1>1 DEF CopyInv
<1>t. TypeOK /\ CopyOK(m)
  BY DEF CopyInv, LockInv, MapInv, TypeInv
<1>2. ASSUME UNCHANGED <<offlineMessage, channel, msg, vec, sent, pushed>>,
             \A c \in Conns : pc'[c] = "ack" => pc[c] = "ack"
      PROVE  CopyOK(m)'
  <2>1. \A p : Place(m, p)' => Place(m, p)
    BY <1>2, NoNewPlace
  <2>2. QED
    BY <1>t, <1>2, <2>1, CopiesStay
<1>3. ASSUME NEW c \in Conns, HandlerStep(c) PROVE CopyOK(m)'
  <2>1. CASE \/ Register(c) \/ Subscribe(c) \/ SetOnline(c) \/ ChatQuery(c)
             \/ Unsubscribe(c) \/ SetOffline(c)
    <3>1. UNCHANGED <<offlineMessage, channel, msg, vec, sent, pushed>>
      BY <2>1 DEF Register, Subscribe, SetOnline, ChatQuery, Unsubscribe, SetOffline
    <3>2. \A d \in Conns : pc'[d] = "ack" => pc[d] = "ack"
      BY <1>t, <2>1 DEF Register, Subscribe, SetOnline, ChatQuery, Unsubscribe,
                        SetOffline, Finish, TypeOK
    <3>3. QED
      BY <1>2, <3>1, <3>2
  <2>2. QED
    BY <1>3, <2>1, QueryCopies, RemoveCopies, AckCopies, PublishCopies, StoreCopies,
       GroupCopies DEF HandlerStep
<1>4. ASSUME NEW c \in Conns, Accept(c) \/ PeerClose(c) \/ Request(c) \/ CloseConn(c)
      PROVE  CopyOK(m)'
  <2>1. CASE \/ Accept(c) \/ PeerClose(c) \/ (\E u \in Users : Login(c, u))
             \/ Loginout(c) \/ CloseConn(c)
    <3>1. UNCHANGED <<offlineMessage, channel, msg, vec, sent, pushed>>
      BY <2>1 DEF Accept, PeerClose, Login, Loginout, CloseConn
    <3>2. \A d \in Conns : pc'[d] = "ack" => pc[d] = "ack"
      BY <1>t, <2>1 DEF Accept, PeerClose, Login, Loginout, CloseConn, TypeOK
    <3>3. QED
      BY <1>2, <3>1, <3>2
  <2>2. QED
    BY <1>4, <2>1, OneChatCopies, GroupCopies DEF Request
<1>5. ASSUME NEW s \in Servers, RedisExec(s) \/ ResetHandler(s) \/ Restart(s)
      PROVE  CopyOK(m)'
  BY <1>2, <1>5 DEF RedisExec, ResetHandler, Restart
<1>6. CASE UNCHANGED vars
  BY <1>2, <1>6 DEF vars
<1>7. QED
  BY <1>3, <1>4, <1>5, <1>6, RedisCopies, StopCopies DEF Next

\* On one server on which the logins of a user do not overlap and every
\* statement succeeds, a chat message has one copy at most, whatever its
\* recipient does meanwhile, and though Redis is lost or the server crashes.
THEOREM NothingTwice ==
  ASSUME LoginsOneByOne, OneServer PROVE Spec => []AtMostOnce
<1>1. CopyInv /\ [Next]_vars => CopyInv'
  BY CopyNext
<1>2. CopyInv => AtMostOnce
  BY DEF CopyInv, CopyOK, AtMostOnce
<1>3. QED
  BY CopyInit, <1>1, <1>2, PTL DEF Spec

============================================================================
