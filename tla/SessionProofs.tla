--------------------------- MODULE SessionProofs ---------------------------
(***************************************************************************)
(* What Redis knows of a session, and the theorems about the three stores  *)
(* of a session that follow: an established session is in all of them, an  *)
(* ended one in none.                                                      *)
(***************************************************************************)
EXTENDS ChatserviceProofs, SequenceTheorems

----------------------------------------------------------------------------
(* The last command of a user                                              *)

\* Whether u is subscribed once the commands of q are executed, from "in" on.
Decides(q, u, in) ==
  \/ in /\ \A i \in 1..Len(q) : q[i][2] # u
  \/ \E i \in 1..Len(q) : /\ q[i][2] = u /\ q[i][1] = "SUBSCRIBE"
                          /\ \A j \in 1..Len(q) : q[j][2] = u => j <= i

LEMMA WillBeDecided ==
  \A s \in Servers, u \in Users :
    WillBeSubscribed(s, u) <=> Decides(subCmds[s], u, <<s, u>> \in subscribed)
<1> SUFFICES ASSUME NEW s \in Servers, NEW u \in Users
             PROVE  WillBeSubscribed(s, u)
                      <=> Decides(subCmds[s], u, <<s, u>> \in subscribed)
  OBVIOUS
<1> DEFINE mine == {i \in 1..Len(subCmds[s]) : subCmds[s][i][2] = u}
<1>1. CASE mine = {}
  <2>1. \A i \in 1..Len(subCmds[s]) : subCmds[s][i][2] # u  BY <1>1
  <2> QED  BY <1>1, <2>1 DEF WillBeSubscribed, Decides
<1>2. CASE mine # {}
  <2>1. ~\A i \in 1..Len(subCmds[s]) : subCmds[s][i][2] # u  BY <1>2
  <2> QED  BY <1>2, <2>1 DEF WillBeSubscribed, Decides
<1> QED  BY <1>1, <1>2

\* A new command decides for its user and changes nothing for others.
LEMMA AppendDecides ==
  ASSUME NEW S, NEW q \in Seq(S), NEW x \in S, NEW u, NEW in \in BOOLEAN
  PROVE  /\ x[2] # u => (Decides(Append(q, x), u, in) <=> Decides(q, u, in))
         /\ x[2] = u => (Decides(Append(q, x), u, in) <=> x[1] = "SUBSCRIBE")
<1> DEFINE n == Len(q)
           r == Append(q, x)
<1>1. /\ n \in Nat /\ Len(r) = n + 1 /\ r[n + 1] = x
      /\ \A i \in 1..n : r[i] = q[i] /\ i \in 1..(n + 1)
  BY AppendProperties
<1>2. \A i \in 1..(n + 1) : i \in 1..n \/ i = n + 1  BY <1>1
<1> HIDE DEF r
<1>3. ASSUME x[2] # u PROVE Decides(r, u, in) <=> Decides(q, u, in)
  BY <1>1, <1>2, <1>3 DEF Decides
<1>4. ASSUME x[2] = u PROVE Decides(r, u, in) <=> x[1] = "SUBSCRIBE"
  <2>1. \E i \in 1..Len(r) : r[i][2] = u  BY <1>1, <1>4
  <2>2. ASSUME x[1] = "SUBSCRIBE" PROVE Decides(r, u, in)
    <3>1. n + 1 \in 1..Len(r) /\ \A j \in 1..Len(r) : j <= n + 1  BY <1>1
    <3> QED  BY <1>1, <1>4, <2>2, <3>1 DEF Decides
  <2>3. ASSUME Decides(r, u, in) PROVE x[1] = "SUBSCRIBE"
    <3>1. PICK i \in 1..Len(r) : /\ r[i][1] = "SUBSCRIBE"
                                 /\ \A j \in 1..Len(r) : r[j][2] = u => j <= i
      BY <2>1, <2>3 DEF Decides
    <3>2. n + 1 <= i /\ i <= n + 1  BY <1>1, <1>4, <3>1
    <3>3. i = n + 1  BY <1>1, <3>1, <3>2
    <3> QED  BY <1>1, <3>1, <3>3
  <2> QED  BY <2>2, <2>3
<1> QED  BY <1>3, <1>4 DEF r

\* Executing the first command leaves the decision as it is.
LEMMA TailDecides ==
  ASSUME NEW S, NEW q \in Seq(S), q # <<>>, NEW u, NEW in \in BOOLEAN,
         NEW after \in BOOLEAN,
         after <=> IF Head(q)[2] = u THEN Head(q)[1] = "SUBSCRIBE" ELSE in
  PROVE  Decides(Tail(q), u, after) <=> Decides(q, u, in)
<1> DEFINE n == Len(q)
           r == Tail(q)
<1>1. /\ n \in Nat /\ n > 0 /\ Len(r) = n - 1 /\ Head(q) = q[1]
      /\ \A i \in 1..(n - 1) : r[i] = q[i + 1] /\ i + 1 \in 1..n
  BY HeadTailProperties, EmptySeq
<1>2. \A i \in 1..n : i = 1 \/ (i - 1 \in 1..(n - 1) /\ r[i - 1] = q[i])
  BY <1>1
<1>3. 1 \in 1..n  BY <1>1
<1> HIDE DEF r, n
<1>4. ASSUME \A i \in 1..(n - 1) : r[i][2] # u
      PROVE  Decides(r, u, after) <=> Decides(q, u, in)
  <2>1. Decides(r, u, after) <=> after  BY <1>1, <1>4 DEF Decides
  <2>2. \A i \in 1..n : q[i][2] = u => i = 1  BY <1>2, <1>4
  <2>3. CASE q[1][2] = u
    <3>1. \A j \in 1..n : q[j][2] = u => j <= 1  BY <1>1, <2>2
    <3> QED  BY <1>1, <1>3, <2>1, <2>2, <2>3, <3>1 DEF Decides, n
  <2>4. CASE q[1][2] # u
    <3>1. \A i \in 1..n : q[i][2] # u  BY <2>2, <2>4
    <3> QED  BY <1>1, <2>1, <2>4, <3>1 DEF Decides, n
  <2> QED  BY <2>3, <2>4
<1>5. ASSUME \E i \in 1..(n - 1) : r[i][2] = u
      PROVE  Decides(r, u, after) <=> Decides(q, u, in)
  <2>1. PICK k \in 1..(n - 1) : r[k][2] = u  BY <1>5
  <2>2. q[k + 1][2] = u /\ k + 1 \in 1..n  BY <1>1, <2>1
  <2>3. ASSUME Decides(r, u, after) PROVE Decides(q, u, in)
    <3>1. PICK i \in 1..(n - 1) :
            /\ r[i][2] = u /\ r[i][1] = "SUBSCRIBE"
            /\ \A j \in 1..(n - 1) : r[j][2] = u => j <= i
      BY <1>1, <2>1, <2>3 DEF Decides
    <3>2. /\ i + 1 \in 1..n
          /\ q[i + 1][2] = u /\ q[i + 1][1] = "SUBSCRIBE"
      BY <1>1, <3>1
    <3>3. ASSUME NEW j \in 1..n, q[j][2] = u PROVE j <= i + 1
      <4>1. CASE j = 1  BY <3>1, <4>1
      <4>2. CASE j - 1 \in 1..(n - 1) /\ r[j - 1] = q[j]
        <5>1. j - 1 <= i  BY <3>1, <3>3, <4>2
        <5> QED  BY <3>1, <5>1
      <4> QED  BY <1>2, <4>1, <4>2
    <3> QED  BY <3>2, <3>3 DEF Decides, n
  <2>4. ASSUME Decides(q, u, in) PROVE Decides(r, u, after)
    <3>1. PICK i \in 1..n :
            /\ q[i][2] = u /\ q[i][1] = "SUBSCRIBE"
            /\ \A j \in 1..n : q[j][2] = u => j <= i
      BY <2>2, <2>4 DEF Decides, n
    <3>2. k + 1 <= i  BY <2>2, <3>1
    <3>3. i - 1 \in 1..(n - 1) /\ r[i - 1] = q[i]  BY <1>2, <2>1, <3>1, <3>2
    <3>4. ASSUME NEW j \in 1..(n - 1), r[j][2] = u PROVE j <= i - 1
      <4>1. j + 1 \in 1..n /\ q[j + 1][2] = u  BY <1>1, <3>4
      <4>2. j + 1 <= i  BY <3>1, <4>1
      <4> QED  BY <3>1, <4>2
    <3> QED  BY <1>1, <3>1, <3>3, <3>4 DEF Decides
  <2> QED  BY <2>3, <2>4
<1> QED  BY <1>4, <1>5 DEF r

----------------------------------------------------------------------------
(* What the steps do to the subscriptions                                  *)

LEMMA WillBeDecidedNext ==
  (\A s \in Servers, u \in Users :
     WillBeSubscribed(s, u)
       <=> Decides(subCmds[s], u, <<s, u>> \in subscribed))'
BY WillBeDecided, PTL

LEMMA CommandWill ==
  ASSUME TypeOK, NEW s \in Servers, NEW name \in {"SUBSCRIBE", "UNSUBSCRIBE"},
         NEW v \in Users \cup {NoUser}, Command(s, name, v),
         subscribed' = subscribed
  PROVE  /\ \A t \in Servers, u \in Users : t # s \/ u # v \/ ~link[s] =>
              (WillBeSubscribed(t, u)' <=> WillBeSubscribed(t, u))
         /\ v \in Users /\ link[s] =>
              (WillBeSubscribed(s, v)' <=> name = "SUBSCRIBE")
<1> DEFINE Cmd == {"SUBSCRIBE", "UNSUBSCRIBE"} \X (Users \cup {NoUser})
<1>1. subCmds[s] \in Seq(Cmd) /\ <<name, v>> \in Cmd  BY DEF TypeOK
<1>2. CASE ~link[s]
  <2>1. UNCHANGED <<subCmds, subscribed>>  BY <1>2 DEF Command
  <2> QED  BY <1>2, <2>1 DEF WillBeSubscribed
<1>3. CASE link[s]
  <2>1. /\ subCmds'[s] = Append(subCmds[s], <<name, v>>)
        /\ \A t \in Servers \ {s} : subCmds'[t] = subCmds[t]
    BY <1>3 DEF Command, TypeOK
  <2> HIDE DEF Cmd
  <2>2. ASSUME NEW t \in Servers \ {s}, NEW u \in Users
        PROVE  WillBeSubscribed(t, u)' <=> WillBeSubscribed(t, u)
    BY <2>1, <2>2, WillBeDecided, WillBeDecidedNext
  <2>3. ASSUME NEW u \in Users
        PROVE  /\ v # u => (WillBeSubscribed(s, u)' <=> WillBeSubscribed(s, u))
               /\ v = u => (WillBeSubscribed(s, u)' <=> name = "SUBSCRIBE")
    <3> DEFINE in == <<s, u>> \in subscribed
               x == <<name, v>>
    <3>1. in \in BOOLEAN /\ x[1] = name /\ x[2] = v  OBVIOUS
    <3>2. /\ x[2] # u => (Decides(Append(subCmds[s], x), u, in)
                           <=> Decides(subCmds[s], u, in))
          /\ x[2] = u => (Decides(Append(subCmds[s], x), u, in)
                           <=> x[1] = "SUBSCRIBE")
      <4> HIDE DEF in, x
      <4>1. x \in Cmd  BY <1>1 DEF x
      <4> QED  BY <1>1, <3>1, <4>1, AppendDecides
    <3>3. /\ WillBeSubscribed(s, u) <=> Decides(subCmds[s], u, in)
          /\ WillBeSubscribed(s, u)' <=> Decides(Append(subCmds[s], x), u, in)
      BY <2>1, WillBeDecided, WillBeDecidedNext
    <3> HIDE DEF in, x
    <3> QED  BY <3>1, <3>2, <3>3
  <2> QED  BY <1>3, <2>2, <2>3
<1> QED  BY <1>2, <1>3

LEMMA ExecWill ==
  ASSUME TypeOK, NEW s \in Servers, RedisExec(s)
  PROVE  \A t \in Servers, u \in Users :
           WillBeSubscribed(t, u)' <=> WillBeSubscribed(t, u)
<1> DEFINE Cmd == {"SUBSCRIBE", "UNSUBSCRIBE"} \X (Users \cup {NoUser})
           x == Head(subCmds[s])
<1>1. subCmds[s] \in Seq(Cmd) /\ subCmds[s] # <<>>  BY DEF RedisExec, TypeOK
<1>2. /\ subCmds'[s] = Tail(subCmds[s])
      /\ \A t \in Servers \ {s} : subCmds'[t] = subCmds[t]
      /\ subscribed' = IF x[1] = "SUBSCRIBE" THEN subscribed \cup {<<s, x[2]>>}
                                             ELSE subscribed \ {<<s, x[2]>>}
  BY DEF RedisExec, TypeOK
<1> HIDE DEF Cmd, x
<1>3. ASSUME NEW t \in Servers \ {s}, NEW u \in Users
      PROVE  WillBeSubscribed(t, u)' <=> WillBeSubscribed(t, u)
  <2>1. <<t, u>> \in subscribed' <=> <<t, u>> \in subscribed  BY <1>2, <1>3
  <2> QED  BY <1>2, <1>3, <2>1, WillBeDecided, WillBeDecidedNext
<1>4. ASSUME NEW u \in Users
      PROVE  WillBeSubscribed(s, u)' <=> WillBeSubscribed(s, u)
  <2> DEFINE in == <<s, u>> \in subscribed
             after == <<s, u>> \in subscribed'
  <2>1. in \in BOOLEAN /\ after \in BOOLEAN  OBVIOUS
  <2>2. after <=> IF x[2] = u THEN x[1] = "SUBSCRIBE" ELSE in
    BY <1>2
  <2>3. /\ WillBeSubscribed(s, u) <=> Decides(subCmds[s], u, in)
        /\ WillBeSubscribed(s, u)' <=> Decides(Tail(subCmds[s]), u, after)
    BY <1>2, WillBeDecided, WillBeDecidedNext
  <2> HIDE DEF in, after
  <2>4. Decides(Tail(subCmds[s]), u, after) <=> Decides(subCmds[s], u, in)
    BY <1>1, <2>1, <2>2, TailDecides DEF x
  <2> QED  BY <2>3, <2>4
<1> QED  BY <1>3, <1>4

\* A process that stops, or loses Redis, loses its subscriptions and its unread
\* commands.
LEMMA ExitWill ==
  ASSUME TypeOK, NEW s \in Servers, Exit(s) \/ RedisLost(s)
  PROVE  \A t \in Servers, u \in Users :
           /\ t # s => (WillBeSubscribed(t, u)' <=> WillBeSubscribed(t, u))
           /\ t = s => ~WillBeSubscribed(t, u)'
<1> SUFFICES ASSUME NEW t \in Servers, NEW u \in Users
             PROVE  /\ t # s => (WillBeSubscribed(t, u)' <=> WillBeSubscribed(t, u))
                    /\ t = s => ~WillBeSubscribed(t, u)'
  OBVIOUS
<1>1. /\ subCmds'[s] = <<>>
      /\ t # s => subCmds'[t] = subCmds[t]
      /\ subscribed' = {x \in subscribed : x[1] # s}
  BY DEF Exit, RedisLost, TypeOK
<1>2. CASE t # s
  <2>1. <<t, u>> \in subscribed' <=> <<t, u>> \in subscribed  BY <1>1, <1>2
  <2> QED  BY <1>1, <1>2, <2>1, WillBeDecided, WillBeDecidedNext
<1>3. CASE t = s
  <2>1. <<s, u>> \notin subscribed'  BY <1>1
  <2>2. ~Decides(<<>>, u, FALSE)  BY DEF Decides
  <2>3. ~Decides(subCmds'[s], u, <<s, u>> \in subscribed')
    BY <1>1, <2>1, <2>2 DEF Decides
  <2> QED  BY <1>3, <2>3, WillBeDecidedNext
<1> QED  BY <1>2, <1>3

----------------------------------------------------------------------------
(* Sessions and subscriptions                                              *)

\* c stands for u and its SUBSCRIBE, but no UNSUBSCRIBE, has been written.
HasSubscribed(c, u) ==
  Holds(c, u) /\ pc[c] \notin LogoutPcs \cup {"register", "subscribe"}

\* c stands for u and its UNSUBSCRIBE has not been written.
MaySubscribe(c, u) == Holds(c, u) /\ pc[c] # "setOffline"

\* Whoever has subscribed will be, while the connection to Redis works, and only
\* for one who has not unsubscribed.
Subscribing ==
  \A c \in Conns, u \in Users :
    HasSubscribed(c, u) /\ link[ServerOf[c]] => WillBeSubscribed(ServerOf[c], u)

SubscriptionHeld ==
  \A s \in Servers, u \in Users :
    WillBeSubscribed(s, u) => \E c \in Conns : ServerOf[c] = s /\ MaySubscribe(c, u)

\* Without a connection there are no subscriptions.
Unlinked ==
  \A s \in Servers, u \in Users : ~link[s] => ~WillBeSubscribed(s, u)

WillInv == RegisteredInv /\ Subscribing /\ SubscriptionHeld /\ Unlinked

\* A step that changes no subscription and no claim to one.
Calm ==
  /\ link' = link
  /\ \A s \in Servers, u \in Users :
       WillBeSubscribed(s, u)' <=> WillBeSubscribed(s, u)
  /\ \A c \in Conns, u \in Users :
       /\ HasSubscribed(c, u)' => HasSubscribed(c, u)
       /\ MaySubscribe(c, u) => MaySubscribe(c, u)'

LEMMA CalmKeeps ==
  ASSUME WillInv, Calm PROVE Subscribing' /\ SubscriptionHeld' /\ Unlinked'
<1>1. Subscribing'
  BY ConstAssumption DEF WillInv, Calm, Subscribing
<1>2. SubscriptionHeld'
  BY DEF WillInv, Calm, SubscriptionHeld
<1>3. Unlinked'
  BY DEF WillInv, Calm, Unlinked
<1> QED  BY <1>1, <1>2, <1>3

LEMMA SameWill ==
  ASSUME UNCHANGED <<subCmds, subscribed>>
  PROVE  \A s \in Servers, u \in Users :
           WillBeSubscribed(s, u)' <=> WillBeSubscribed(s, u)
BY DEF WillBeSubscribed

LEMMA WillInit == Init => WillInv
<1> SUFFICES ASSUME Init PROVE Subscribing /\ SubscriptionHeld /\ Unlinked
  BY RegisteredInit DEF WillInv
<1>1. Subscribing
  BY ConstAssumption DEF Init, Subscribing, HasSubscribed, Holds
<1>2. \A s \in Servers, u \in Users : ~WillBeSubscribed(s, u)
  <2> SUFFICES ASSUME NEW s \in Servers, NEW u \in Users
               PROVE  ~Decides(subCmds[s], u, <<s, u>> \in subscribed)
    BY WillBeDecided
  <2>1. subCmds[s] = <<>> /\ <<s, u>> \notin subscribed  BY DEF Init
  <2> QED  BY <2>1 DEF Decides
<1> QED  BY <1>1, <1>2 DEF SubscriptionHeld, Unlinked

USE DEF db, redis, client, handler, memory, Goto, MutexFree, Find, QueryState,
        QueryRows, Observed, Msgs, NoRows,
        LoginPcs, LogoutPcs, ChatPcs, GroupPcs, MsgPcs

\* The steps of the protocol, one by one: most are calm.
LEMMA WillNext ==
  ASSUME LoginsOneByOne, WillInv, [Next]_vars PROVE WillInv'
<1>0. RegisteredInv'
  BY RegisteredNext DEF WillInv
<1>a. TypeOK
  BY DEF WillInv, RegisteredInv, LockInv, MapInv, TypeInv
<1>b. \A c \in Conns, s \in Servers, u \in Users :
        pc[c] = "idle" /\ Find(s, u) = c => s = ServerOf[c] /\ u = session[c]
  BY IdleEntry DEF WillInv, RegisteredInv, LockInv
<1>c. \A c, d \in Conns, u \in Users : Holds(c, u) /\ Holds(d, u) => c = d
  BY DEF WillInv, RegisteredInv, LockInv, SessionExclusive
<1>d. \A c \in Conns : ServerOf[c] \in Servers
  BY ConstAssumption
<1> USE ConstAssumption DEF RegisteredInv, LockInv, MapInv, TypeInv, TypeOK, LocalsOK,
        HandlerOK, Registered, Holds, HasSubscribed, MaySubscribe
<1>1. ASSUME NEW c \in Conns, Accept(c) PROVE Calm
  BY <1>1, SameWill DEF WillInv, Accept, Calm
<1>2. ASSUME NEW c \in Conns, PeerClose(c) PROVE Calm
  BY <1>2, SameWill DEF WillInv, PeerClose, Calm
<1>3. ASSUME NEW c \in Conns, Register(c) PROVE Calm
  BY <1>3, SameWill DEF WillInv, Register, Calm
<1>4. ASSUME NEW c \in Conns, SetOnline(c) PROVE Calm
  BY <1>4, SameWill DEF WillInv, SetOnline, Calm
<1>5. ASSUME NEW c \in Conns, QueryOffline(c) PROVE Calm
  BY <1>5, SameWill DEF WillInv, QueryOffline, Calm
<1>6. ASSUME NEW c \in Conns, RemoveRead(c) PROVE Calm
  BY <1>6, SameWill DEF WillInv, RemoveRead, Calm
<1>7. ASSUME NEW c \in Conns, LoginAck(c) PROVE Calm
  BY <1>7, SameWill DEF WillInv, LoginAck, Calm
<1>8. ASSUME NEW c \in Conns, ChatQuery(c) PROVE Calm
  BY <1>8, SameWill DEF WillInv, ChatQuery, Calm
<1>9. ASSUME NEW c \in Conns, ChatPublish(c) PROVE Calm
  BY <1>9, SameWill DEF WillInv, ChatPublish, Calm
<1>10. ASSUME NEW c \in Conns, ChatStore(c) PROVE Calm
  BY <1>10, SameWill DEF WillInv, ChatStore, Calm
<1>11. ASSUME NEW c \in Conns, GroupLock(c) PROVE Calm
  BY <1>11, SameWill DEF WillInv, GroupLock, Calm
<1>12. ASSUME NEW c \in Conns, GroupPush(c) PROVE Calm
  BY <1>12, SameWill DEF WillInv, GroupPush, Calm
<1>13. ASSUME NEW c \in Conns, GroupQuery(c) PROVE Calm
  BY <1>13, SameWill DEF WillInv, GroupQuery, Calm
<1>14. ASSUME NEW c \in Conns, GroupPublish(c) PROVE Calm
  BY <1>14, SameWill DEF WillInv, GroupPublish, Calm
<1>15. ASSUME NEW c \in Conns, GroupStore(c) PROVE Calm
  BY <1>15, SameWill DEF WillInv, GroupStore, Calm
<1>16. ASSUME NEW c \in Conns, GroupUnlock(c) PROVE Calm
  BY <1>16, SameWill DEF WillInv, GroupUnlock, Calm
<1>17. ASSUME NEW c \in Conns, SetOffline(c) PROVE Calm
  BY <1>17, SameWill DEF WillInv, SetOffline, Finish, Calm
<1>18. ASSUME NEW c \in Conns, Loginout(c) PROVE Calm
  BY <1>18, SameWill DEF WillInv, Loginout, Ready, LoggedIn, Erase, Calm
<1>19. ASSUME NEW c \in Conns, Subscribe(c)
       PROVE  Subscribing' /\ SubscriptionHeld' /\ Unlinked'
  <2>1. /\ pc[c] = "subscribe" /\ pc' = [pc EXCEPT ![c] = "setOnline"]
        /\ UNCHANGED <<session, uid, subscribed, link>>
        /\ Command(ServerOf[c], "SUBSCRIBE", uid[c])
    BY <1>19 DEF Subscribe
  <2>2. uid[c] \in Users /\ Holds(c, uid[c])
    BY <2>1 DEF WillInv
  <2> PICK v \in Users : v = uid[c]
    BY <2>2
  <2>3. /\ \A t \in Servers, u \in Users :
             t # ServerOf[c] \/ u # v \/ ~link[ServerOf[c]] =>
               (WillBeSubscribed(t, u)' <=> WillBeSubscribed(t, u))
        /\ link[ServerOf[c]] => WillBeSubscribed(ServerOf[c], v)'
    <3> HIDE DEF TypeOK
    <3>1. Command(ServerOf[c], "SUBSCRIBE", v)  BY <2>1
    <3> QED  BY <1>a, <1>d, <2>1, <3>1, CommandWill
  <2>4. Subscribing'
    <3> SUFFICES ASSUME NEW d \in Conns, NEW u \in Users, HasSubscribed(d, u)',
                        link'[ServerOf[d]]
                 PROVE  WillBeSubscribed(ServerOf[d], u)'
      BY DEF Subscribing
    <3>1. CASE u = v
      <4>1. Holds(d, u) /\ Holds(c, u)  BY <2>1, <2>2, <3>1
      <4> HIDE DEF Holds
      <4>2. d = c  BY <1>c, <4>1
      <4> QED  BY <2>1, <2>3, <3>1, <4>2
    <3>2. CASE u # v
      <4>1. d # c  BY <2>1, <3>2 DEF WillInv
      <4>2. HasSubscribed(d, u)  BY <2>1, <4>1 DEF WillInv
      <4>3. WillBeSubscribed(ServerOf[d], u)
        BY <2>1, <4>2 DEF WillInv, Subscribing
      <4> QED  BY <1>d, <2>3, <3>2, <4>3
    <3> QED  BY <3>1, <3>2
  <2>5. SubscriptionHeld'
    <3> SUFFICES ASSUME NEW t \in Servers, NEW u \in Users, WillBeSubscribed(t, u)'
                 PROVE  \E d \in Conns : ServerOf[d] = t /\ MaySubscribe(d, u)'
      BY DEF SubscriptionHeld
    <3>1. CASE t = ServerOf[c] /\ u = v
      <4>1. MaySubscribe(c, u)'  BY <2>1, <2>2, <3>1 DEF WillInv
      <4> QED  BY <3>1, <4>1
    <3>2. CASE t # ServerOf[c] \/ u # v
      <4>1. PICK d \in Conns : ServerOf[d] = t /\ MaySubscribe(d, u)
        BY <2>3, <3>2 DEF WillInv, SubscriptionHeld
      <4>2. MaySubscribe(d, u)'  BY <2>1, <4>1 DEF WillInv
      <4> QED  BY <4>1, <4>2
    <3> QED  BY <3>1, <3>2
  <2>6. Unlinked'
    BY <1>d, <2>1, <2>3 DEF WillInv, Unlinked
  <2> QED  BY <2>4, <2>5, <2>6
<1>20. ASSUME NEW c \in Conns, Unsubscribe(c)
       PROVE  Subscribing' /\ SubscriptionHeld' /\ Unlinked'
  <2>1. /\ pc[c] = "unsubscribe" /\ pc' \in {[pc EXCEPT ![c] = "setOffline"],
                                            [pc EXCEPT ![c] = "idle"]}
        /\ session' = session /\ session[c] = NoUser
        /\ UNCHANGED <<subscribed, link>>
        /\ Command(ServerOf[c], "UNSUBSCRIBE", uid[c])
    BY <1>20 DEF WillInv, Unsubscribe, Finish
  <2>2. /\ uid[c] \in Users \cup {NoUser}
        /\ \A d \in Conns \ {c} : uid'[d] = uid[d] /\ pc'[d] = pc[d]
        /\ uid'[c] = NoUser \/ pc'[c] = "setOffline"
    BY <1>20 DEF WillInv, Unsubscribe, Finish
  <2> PICK v \in Users \cup {NoUser} : v = uid[c]
    BY <2>2
  <2>3. /\ \A t \in Servers, u \in Users :
             t # ServerOf[c] \/ u # v \/ ~link[ServerOf[c]] =>
               (WillBeSubscribed(t, u)' <=> WillBeSubscribed(t, u))
        /\ v \in Users /\ link[ServerOf[c]] => ~WillBeSubscribed(ServerOf[c], v)'
    <3> HIDE DEF TypeOK
    <3>1. Command(ServerOf[c], "UNSUBSCRIBE", v)  BY <2>1
    <3> QED  BY <1>a, <1>d, <2>1, <3>1, CommandWill
  <2>4. \A u \in Users : Holds(c, u) <=> u = v
    BY <2>1
  <2>5. Subscribing'
    <3> SUFFICES ASSUME NEW d \in Conns, NEW u \in Users, HasSubscribed(d, u)',
                        link'[ServerOf[d]]
                 PROVE  WillBeSubscribed(ServerOf[d], u)'
      BY DEF Subscribing
    <3>1. d # c  BY <2>1, <2>2
    <3>2. HasSubscribed(d, u)  BY <2>1, <2>2, <3>1
    <3>3. u # v  BY <1>c, <2>4, <3>1, <3>2
    <3>4. WillBeSubscribed(ServerOf[d], u)
      BY <2>1, <3>2 DEF WillInv, Subscribing
    <3> QED  BY <1>d, <2>3, <3>3, <3>4
  <2>6. SubscriptionHeld'
    <3> SUFFICES ASSUME NEW t \in Servers, NEW u \in Users, WillBeSubscribed(t, u)'
                 PROVE  \E d \in Conns : ServerOf[d] = t /\ MaySubscribe(d, u)'
      BY DEF SubscriptionHeld
    <3>1. WillBeSubscribed(t, u) /\ (t # ServerOf[c] \/ u # v)
      BY <1>d, <2>3 DEF WillInv, Unlinked
    <3>2. PICK d \in Conns : ServerOf[d] = t /\ MaySubscribe(d, u)
      BY <3>1 DEF WillInv, SubscriptionHeld
    <3>3. d # c  BY <2>4, <3>1, <3>2
    <3>4. MaySubscribe(d, u)'  BY <2>1, <2>2, <3>2, <3>3
    <3> QED  BY <3>2, <3>4
  <2>7. Unlinked'
    BY <1>d, <2>1, <2>3 DEF WillInv, Unlinked
  <2> QED  BY <2>5, <2>6, <2>7
<1>21. ASSUME NEW c \in Conns, CloseConn(c) PROVE Calm
  <2>1. /\ pc[c] = "idle" /\ pc' = [pc EXCEPT ![c] = "unsubscribe"]
        /\ session' = [session EXCEPT ![c] = NoUser]
        /\ UNCHANGED <<subCmds, subscribed, link>>
    BY <1>21 DEF CloseConn
  <2>2. \A d \in Conns \ {c} : uid'[d] = uid[d] /\ pc'[d] = pc[d]
    BY <1>21 DEF WillInv, CloseConn
  <2>3. \A d \in Conns, u \in Users : HasSubscribed(d, u)' => HasSubscribed(d, u)
    BY <2>1, <2>2 DEF WillInv
  <2>4. ASSUME NEW u \in Users, Holds(c, u) PROVE uid'[c] = u
    <3>1. session[c] = u  BY <2>1, <2>4
    <3>2. Find(ServerOf[c], u) = c  BY <2>1, <2>4 DEF WillInv
    <3>3. \A v \in Users : Find(ServerOf[c], v) = c => v = u
      BY <1>b, <1>d, <2>1, <3>1
    <3> QED  BY <1>21, <3>2, <3>3 DEF WillInv, CloseConn
  <2>5. \A d \in Conns, u \in Users : MaySubscribe(d, u) => MaySubscribe(d, u)'
    BY <2>1, <2>2, <2>4 DEF WillInv
  <2> QED  BY <2>1, <2>3, <2>5, SameWill DEF Calm
<1>22. ASSUME NEW c \in Conns, NEW v \in Users, Login(c, v) PROVE Calm
  BY <1>22, SameWill DEF WillInv, Login, Ready, Calm
<1>23. ASSUME NEW c \in Conns, NEW m \in ChatMsgs, OneChat(c, m) PROVE Calm
  BY <1>23, SameWill DEF WillInv, OneChat, Ready, Calm
<1>24. ASSUME NEW c \in Conns, NEW m \in GroupMsgs, GroupChat(c, m) PROVE Calm
  BY <1>24, SameWill DEF WillInv, GroupChat, Ready, Calm
<1>25. ASSUME NEW s \in Servers, RedisExec(s) PROVE Calm
  <2>1. UNCHANGED <<link, session, uid, pc>>
    BY <1>25 DEF RedisExec
  <2>2. \A t \in Servers, u \in Users :
          WillBeSubscribed(t, u)' <=> WillBeSubscribed(t, u)
    BY <1>a, <1>25, ExecWill
  <2> QED  BY <2>1, <2>2 DEF Calm
<1>26. ASSUME NEW s \in Servers, HandleRedisSubscribeMessage(s) PROVE Calm
  BY <1>26, SameWill DEF WillInv, HandleRedisSubscribeMessage, Calm
<1>27. ASSUME NEW s \in Servers, ResetHandler(s) PROVE Calm
  BY <1>27, SameWill DEF WillInv, ResetHandler, Calm
<1>28. ASSUME NEW s \in Servers, Exit(s) \/ RedisLost(s)
       PROVE  Subscribing' /\ SubscriptionHeld' /\ Unlinked'
  <2>1. \A t \in Servers, u \in Users :
          /\ t # s => (WillBeSubscribed(t, u)' <=> WillBeSubscribed(t, u))
          /\ t = s => ~WillBeSubscribed(t, u)'
    BY <1>a, <1>28, ExitWill
  <2>2. \A t \in Servers \ {s} : link'[t] = link[t]
    <3>1. link \in [Servers -> BOOLEAN]  BY <1>a
    <3>2. link' \in {[link EXCEPT ![s] = TRUE], [link EXCEPT ![s] = FALSE]}
      BY <1>28 DEF Exit, RedisLost
    <3> QED  BY <3>1, <3>2
  <2>3. \A d \in Conns : \/ /\ pc'[d] = pc[d] /\ uid'[d] = uid[d]
                            /\ session'[d] = session[d]
                         \/ /\ ServerOf[d] = s /\ pc'[d] = "idle"
                            /\ uid'[d] = NoUser /\ session'[d] = NoUser
    BY <1>28 DEF Exit, RedisLost
  <2>4. \A d \in Conns : ServerOf[d] = s =>
          \/ ~link'[s]
          \/ pc'[d] = "idle" /\ uid'[d] = NoUser /\ session'[d] = NoUser
    <3>1. CASE Exit(s)  BY <3>1 DEF Exit
    <3>2. CASE RedisLost(s)
      <4>1. link \in [Servers -> BOOLEAN]  BY <1>a
      <4>2. link' = [link EXCEPT ![s] = FALSE]  BY <3>2 DEF RedisLost
      <4> QED  BY <4>1, <4>2
    <3> QED  BY <1>28, <3>1, <3>2
  <2>5. Subscribing'
    <3> SUFFICES ASSUME NEW d \in Conns, NEW u \in Users, HasSubscribed(d, u)',
                        link'[ServerOf[d]]
                 PROVE  WillBeSubscribed(ServerOf[d], u)'
      BY DEF Subscribing
    <3>1. HasSubscribed(d, u)  BY <2>3
    <3>2. ServerOf[d] # s  BY <2>4
    <3>3. WillBeSubscribed(ServerOf[d], u)
      BY <1>d, <2>2, <3>1, <3>2 DEF WillInv, Subscribing
    <3> QED  BY <1>d, <2>1, <3>2, <3>3
  <2>6. SubscriptionHeld'
    <3> SUFFICES ASSUME NEW t \in Servers, NEW u \in Users, WillBeSubscribed(t, u)'
                 PROVE  \E d \in Conns : ServerOf[d] = t /\ MaySubscribe(d, u)'
      BY DEF SubscriptionHeld
    <3>1. t # s /\ WillBeSubscribed(t, u)  BY <2>1
    <3>2. PICK d \in Conns : ServerOf[d] = t /\ MaySubscribe(d, u)
      BY <3>1 DEF WillInv, SubscriptionHeld
    <3>3. pc'[d] = pc[d] /\ uid'[d] = uid[d] /\ session'[d] = session[d]
      BY <2>3, <3>1, <3>2
    <3>4. MaySubscribe(d, u)'  BY <3>2, <3>3
    <3> QED  BY <3>2, <3>4
  <2>7. Unlinked'
    BY <2>1, <2>2 DEF WillInv, Unlinked
  <2> QED  BY <2>5, <2>6, <2>7
<1>29. ASSUME NEW s \in Servers, Restart(s) PROVE Calm
  BY <1>29, SameWill DEF WillInv, Restart, Calm
<1>30. ASSUME UNCHANGED vars PROVE Calm
  BY <1>30, SameWill DEF WillInv, vars, db, redis, Calm
<1>31. Calm => Subscribing' /\ SubscriptionHeld' /\ Unlinked'
  BY CalmKeeps
<1> QED
  BY <1>0, <1>1, <1>2, <1>3, <1>4, <1>5, <1>6, <1>7, <1>8, <1>9, <1>10, <1>11, <1>12, <1>13, <1>14, <1>15, <1>16, <1>17, <1>18, <1>19, <1>20, <1>21, <1>22, <1>23, <1>24, <1>25, <1>26, <1>27, <1>28, <1>29, <1>30, <1>31
  DEF WillInv, Next, Request, HandlerStep

\* With logins of one user that do not overlap and nobody pressing Ctrl-C, an
\* acknowledged session is in the server's map, in the table, and in Redis once
\* it has executed what was written, unless the server has lost Redis; also when
\* other servers crash.
THEOREM EstablishedIsReachable ==
  ASSUME LoginsOneByOne PROVE Spec => []EstablishedReachable
<1>1. WillInv /\ [Next]_vars => WillInv'
  BY WillNext
<1>2. WillInv => EstablishedReachable
  <2> SUFFICES ASSUME WillInv, NEW c \in Conns, NEW u \in Users, session[c] = u
               PROVE  /\ Find(ServerOf[c], u) = c
                      /\ userState[u] = "online"
                      /\ link[ServerOf[c]] => WillBeSubscribed(ServerOf[c], u)
    BY DEF EstablishedReachable
  <2>1. Holds(c, u) /\ pc[c] \notin LoginPcs \cup LogoutPcs
    BY ConstAssumption
    DEF WillInv, RegisteredInv, LockInv, MapInv, HandlerOK, Holds
  <2>2. pc[c] \notin LogoutPcs \cup {"register", "subscribe"} \cup BeforeOnline
    BY <2>1 DEF LoginPcs, BeforeOnline
  <2>3. Find(ServerOf[c], u) = c
    BY <2>1, <2>2 DEF WillInv, RegisteredInv, Registered
  <2>4. userState[u] = "online"
    BY <2>1, <2>2 DEF WillInv, RegisteredInv, LockInv, HeldIsOnline
  <2>5. link[ServerOf[c]] => WillBeSubscribed(ServerOf[c], u)
    BY <2>1, <2>2 DEF WillInv, Subscribing, HasSubscribed
  <2> QED  BY <2>3, <2>4, <2>5
<1> QED
  BY WillInit, <1>1, <1>2, PTL DEF Spec

\* Once nobody stands for a user neither a map nor Redis shows a session of it, nor,
\* until a server stops, does the table.
THEOREM NoGhostRemains ==
  ASSUME LoginsOneByOne PROVE Spec => []NoGhostSession
<1>1. WillInv /\ [Next]_vars => WillInv'
  BY WillNext
<1>2. SessionInv /\ [Next]_vars => SessionInv'
  BY SessionNext
<1>3. WillInv /\ SessionInv => NoGhostSession
  <2> SUFFICES ASSUME WillInv, SessionInv, NEW u \in Users,
                      \A c \in Conns : ~Holds(c, u)
               PROVE  /\ failures = 0 => userState[u] = "offline"
                      /\ \A s \in Servers : /\ Find(s, u) = NoConn
                                            /\ ~WillBeSubscribed(s, u)
    BY DEF NoGhostSession
  <2>1. failures = 0 => userState[u] = "offline"
    <3>1. userState[u] \in {"online", "offline"}
      BY DEF WillInv, RegisteredInv, LockInv, MapInv, TypeInv, TypeOK
    <3> QED  BY <3>1 DEF SessionInv, OnlineIsHeld
  <2>2. ASSUME NEW s \in Servers PROVE Find(s, u) = NoConn
    <3>1. Find(s, u) \in Conns \cup {NoConn}
      BY DEF WillInv, RegisteredInv, LockInv, MapInv, TypeInv, TypeOK, Find
    <3> QED  BY <3>1, EntryHolds DEF WillInv, RegisteredInv, LockInv, MapInv
  <2>3. ASSUME NEW s \in Servers PROVE ~WillBeSubscribed(s, u)
    BY DEF WillInv, SubscriptionHeld, MaySubscribe
  <2> QED  BY <2>1, <2>2, <2>3
<1> QED
  BY WillInit, SessionInit, <1>1, <1>2, <1>3, PTL DEF Spec
----------------------------------------------------------------------------
(* The registry of sessions                                                *)

SameHolds ==
  \A c \in Conns, u \in Users : Holds(c, u)' <=> Holds(c, u)

LEMMA StepSame == ASSUME SameHolds PROVE HeldSessions' = HeldSessions
BY DEF SameHolds, HeldSessions

LEMMA StepBegin ==
  ASSUME NEW c \in Conns, NEW u \in Users,
         \A d \in Conns : ~Holds(d, u), \A v \in Users : ~Holds(c, v),
         \A d \in Conns, v \in Users :
           Holds(d, v)' <=> Holds(d, v) \/ (d = c /\ v = u)
  PROVE  Registry!Begin(u, c)
<1>1. HeldSessions[u] = {}  BY DEF HeldSessions
<1>2. \A v \in Users : c \notin HeldSessions[v]  BY DEF HeldSessions
<1>3. HeldSessions' = [HeldSessions EXCEPT ![u] = {c}]  BY DEF HeldSessions
<1> QED  BY <1>1, <1>2, <1>3 DEF Registry!Begin, Registry!Unused

LEMMA StepEnd ==
  ASSUME NEW c \in Conns, NEW u \in Users, Holds(c, u),
         \A d \in Conns, v \in Users : Holds(d, v)' <=> Holds(d, v) /\ v # u
  PROVE  Registry!End(u)
<1>1. c \in HeldSessions[u]  BY DEF HeldSessions
<1>2. HeldSessions' = [HeldSessions EXCEPT ![u] = {}]  BY DEF HeldSessions
<1> QED  BY <1>1, <1>2 DEF Registry!End

LEMMA StepStop ==
  ASSUME NEW lost \in SUBSET Conns,
         \A d \in Conns, v \in Users :
           Holds(d, v)' <=> Holds(d, v) /\ d \notin lost
  PROVE  Registry!Stop(lost)
BY DEF HeldSessions, Registry!Stop

LEMMA RegistryStep ==
  ASSUME LoginsOneByOne, RegisteredInv, [Next]_vars
  PROVE  Registry!RegistryNext \/ HeldSessions' = HeldSessions
<1>a. \A c \in Conns, s \in Servers, u \in Users :
        pc[c] = "idle" /\ Find(s, u) = c => s = ServerOf[c] /\ u = session[c]
  BY IdleEntry DEF RegisteredInv, LockInv
<1>b. \A c, d \in Conns, u \in Users : Holds(c, u) /\ Holds(d, u) => c = d
  BY DEF RegisteredInv, LockInv, SessionExclusive
<1> USE ConstAssumption DEF RegisteredInv, LockInv, MapInv, TypeInv, TypeOK, LocalsOK,
        HandlerOK, Holds, SameHolds
<1>1. ASSUME NEW c \in Conns, Accept(c) PROVE SameHolds
  BY <1>1 DEF Accept
<1>2. ASSUME NEW c \in Conns, PeerClose(c) PROVE SameHolds
  BY <1>2 DEF PeerClose
<1>3. ASSUME NEW c \in Conns, Register(c) PROVE SameHolds
  BY <1>3 DEF Register
<1>4. ASSUME NEW c \in Conns, Subscribe(c) PROVE SameHolds
  BY <1>4 DEF Subscribe
<1>5. ASSUME NEW c \in Conns, SetOnline(c) PROVE SameHolds
  BY <1>5 DEF SetOnline
<1>6. ASSUME NEW c \in Conns, QueryOffline(c) PROVE SameHolds
  BY <1>6 DEF QueryOffline
<1>7. ASSUME NEW c \in Conns, RemoveRead(c) PROVE SameHolds
  BY <1>7 DEF RemoveRead
<1>8. ASSUME NEW c \in Conns, LoginAck(c) PROVE SameHolds
  BY <1>8 DEF LoginAck
<1>9. ASSUME NEW c \in Conns, ChatQuery(c) PROVE SameHolds
  BY <1>9 DEF ChatQuery
<1>10. ASSUME NEW c \in Conns, ChatPublish(c) PROVE SameHolds
  BY <1>10 DEF ChatPublish
<1>11. ASSUME NEW c \in Conns, ChatStore(c) PROVE SameHolds
  BY <1>11 DEF ChatStore
<1>12. ASSUME NEW c \in Conns, GroupLock(c) PROVE SameHolds
  BY <1>12 DEF GroupLock
<1>13. ASSUME NEW c \in Conns, GroupPush(c) PROVE SameHolds
  BY <1>13 DEF GroupPush
<1>14. ASSUME NEW c \in Conns, GroupQuery(c) PROVE SameHolds
  BY <1>14 DEF GroupQuery
<1>15. ASSUME NEW c \in Conns, GroupPublish(c) PROVE SameHolds
  BY <1>15 DEF GroupPublish
<1>16. ASSUME NEW c \in Conns, GroupStore(c) PROVE SameHolds
  BY <1>16 DEF GroupStore
<1>17. ASSUME NEW c \in Conns, GroupUnlock(c) PROVE SameHolds
  BY <1>17 DEF GroupUnlock
<1>18. ASSUME NEW c \in Conns, Loginout(c) PROVE SameHolds
  BY <1>18 DEF Loginout, Ready, LoggedIn
<1>19. ASSUME NEW c \in Conns, Unsubscribe(c) PROVE SameHolds
  <2>1. CASE uid[c] # NoUser /\ Goto(c, "setOffline") /\ UNCHANGED <<uid, connState>>
    BY <1>19, <2>1 DEF Unsubscribe
  <2>2. CASE uid[c] = NoUser /\ Finish(c)
    BY <1>19, <2>2 DEF Unsubscribe, Finish
  <2> QED  BY <1>19, <2>1, <2>2 DEF Unsubscribe
<1>20. ASSUME NEW c \in Conns, SetOffline(c) PROVE Registry!RegistryNext
  <2>1. /\ pc[c] = "setOffline" /\ session[c] = NoUser /\ uid[c] \in Users
        /\ pc' = [pc EXCEPT ![c] = "idle"] /\ uid' = [uid EXCEPT ![c] = NoUser]
        /\ session' = session
    BY <1>20 DEF SetOffline, Finish
  <2>2. PICK u \in Users : u = uid[c]
    BY <2>1
  <2>3. Holds(c, u)
    BY <2>1, <2>2
  <2>4. \A d \in Conns : Holds(d, u) => d = c
    <3> HIDE DEF Holds
    <3> QED  BY <1>b, <2>3
  <2>5. \A d \in Conns, v \in Users :
          Holds(d, v)' <=> Holds(d, v) /\ v # u
    <3> SUFFICES ASSUME NEW d \in Conns, NEW v \in Users
                 PROVE  Holds(d, v)' <=> Holds(d, v) /\ v # u
      OBVIOUS
    <3>1. CASE d = c  BY <2>1, <2>2, <3>1
    <3>2. CASE d # c
      <4>1. Holds(d, v)' <=> Holds(d, v)  BY <2>1, <3>2
      <4>2. ~Holds(d, u)  BY <2>4, <3>2
      <4> HIDE DEF Holds
      <4> QED  BY <4>1, <4>2
    <3> QED  BY <3>1, <3>2
  <2> HIDE DEF Holds
  <2> QED  BY <2>3, <2>5, StepEnd DEF Registry!RegistryNext
<1>21. ASSUME NEW c \in Conns, CloseConn(c) PROVE SameHolds
  <2>1. /\ pc[c] = "idle" /\ ServerOf[c] \in Servers
        /\ pc' = [pc EXCEPT ![c] = "unsubscribe"]
        /\ session' = [session EXCEPT ![c] = NoUser]
    BY <1>21 DEF CloseConn
  <2>2. \A d \in Conns \ {c} : uid'[d] = uid[d]
    BY <1>21 DEF CloseConn
  <2>3. uid'[c] = session[c]
    <3>1. \A u \in Users : Find(ServerOf[c], u) = c => u = session[c]
      BY <1>a, <2>1
    <3>2. session[c] \in Users => Find(ServerOf[c], session[c]) = c
      <4>1. SUFFICES ASSUME NEW u \in Users, session[c] = u
                     PROVE  Find(ServerOf[c], u) = c
        OBVIOUS
      <4> QED  BY <2>1, <4>1 DEF Registered
    <3>3. uid[c] = NoUser /\ session[c] \in Users \cup {NoUser}
      BY <2>1
    <3>4. CASE \E u \in Users : /\ Find(ServerOf[c], u) = c
                               /\ uid' = [uid EXCEPT ![c] = u]
      BY <3>1, <3>4
    <3>5. CASE /\ \A u \in Users : Find(ServerOf[c], u) # c
               /\ uid' = uid
      BY <3>2, <3>3, <3>5
    <3> QED  BY <1>21, <3>4, <3>5 DEF CloseConn
  <2> QED  BY <2>1, <2>2, <2>3
<1>22. ASSUME NEW c \in Conns, NEW u \in Users, Login(c, u)
       PROVE  SameHolds \/ Registry!RegistryNext
  <2>1. CASE UNCHANGED <<pc, uid>>
    BY <1>22, <2>1 DEF Login
  <2>2. CASE /\ userState[u] = "offline"
             /\ Goto(c, "register") /\ uid' = [uid EXCEPT ![c] = u]
    <3>1. \A d \in Conns : ~Holds(d, u)
      BY <1>22, <2>2 DEF Login, LoginInProgress, LoginsOneByOne, HeldIsOnline, BeforeOnline
    <3>2. session' = session /\ session[c] = NoUser /\ pc[c] = "idle"
      BY <1>22 DEF Login, Ready
    <3>3. \A v \in Users : ~Holds(c, v)
      BY <3>2
    <3>4. \A d \in Conns, v \in Users :
            Holds(d, v)' <=> Holds(d, v) \/ (d = c /\ v = u)
      BY <2>2, <3>2
    <3> HIDE DEF Holds
    <3>5. Registry!Begin(u, c)
      BY <3>1, <3>3, <3>4, StepBegin
    <3> QED  BY <3>5 DEF Registry!RegistryNext
  <2> QED  BY <1>22, <2>1, <2>2 DEF Login
<1>23. ASSUME NEW c \in Conns, NEW m \in ChatMsgs, OneChat(c, m) PROVE SameHolds
  <2>1. UNCHANGED <<session, uid>>
    BY <1>23 DEF OneChat
  <2>2. pc' = pc \/ (pc[c] = "idle" /\ Goto(c, "chatQuery"))
    BY <1>23 DEF OneChat, Ready
  <2> QED  BY <2>1, <2>2
<1>24. ASSUME NEW c \in Conns, NEW m \in GroupMsgs, GroupChat(c, m) PROVE SameHolds
  BY <1>24 DEF GroupChat, Ready
<1>25. ASSUME NEW s \in Servers, RedisExec(s) PROVE SameHolds
  BY <1>25 DEF RedisExec
<1>26. ASSUME NEW s \in Servers, HandleRedisSubscribeMessage(s) PROVE SameHolds
  BY <1>26 DEF HandleRedisSubscribeMessage
<1>27. ASSUME NEW s \in Servers, RedisLost(s) PROVE SameHolds
  BY <1>27 DEF RedisLost
<1>28. ASSUME NEW s \in Servers, ResetHandler(s) PROVE SameHolds
  BY <1>28 DEF ResetHandler
<1>29. ASSUME NEW s \in Servers, Exit(s) PROVE Registry!RegistryNext
  <2> DEFINE lost == {c \in Conns : ServerOf[c] = s}
  <2>1. \A d \in Conns, v \in Users :
          Holds(d, v)' <=> Holds(d, v) /\ d \notin lost
    BY <1>29 DEF Exit
  <2>2. lost \in SUBSET Conns
    OBVIOUS
  <2> HIDE DEF Holds, lost
  <2>3. Registry!Stop(lost)
    BY <2>1, <2>2, StepStop
  <2> QED  BY <2>2, <2>3 DEF Registry!RegistryNext
<1>30. ASSUME NEW s \in Servers, Restart(s) PROVE SameHolds
  BY <1>30 DEF Restart
<1>31. ASSUME UNCHANGED vars PROVE SameHolds
  <2>1. UNCHANGED <<session, pc, uid>>  BY <1>31 DEF vars
  <2> QED  BY <2>1
<1> HIDE DEF RegisteredInv, LockInv, MapInv, TypeInv, TypeOK, LocalsOK, HandlerOK,
         Holds, SameHolds
<1> QED
  BY <1>1, <1>2, <1>3, <1>4, <1>5, <1>6, <1>7, <1>8, <1>9, <1>10, <1>11, <1>12, <1>13, <1>14, <1>15, <1>16, <1>17, <1>18, <1>19, <1>20, <1>21, <1>22, <1>23, <1>24, <1>25, <1>26, <1>27, <1>28, <1>29, <1>30, <1>31, StepSame
  DEF Next, Request, HandlerStep

\* With logins of one user that do not overlap, nobody pressing Ctrl-C and a
\* database that answers, the cluster is a registry of sessions; also when servers
\* crash or lose Redis.
THEOREM RegistryImplemented ==
  ASSUME LoginsOneByOne PROVE Spec => ImplementsRegistry
<1>1. Init => Registry!RegistryInit
  BY ConstAssumption DEF Init, Holds, HeldSessions, Registry!RegistryInit
<1>2. RegisteredInv /\ [Next]_vars => RegisteredInv'
  BY RegisteredNext
<1>3. RegisteredInv /\ [Next]_vars => [Registry!RegistryNext]_HeldSessions
  BY RegistryStep
<1> QED
  BY RegisteredInit, <1>1, <1>2, <1>3, PTL
  DEF Spec, ImplementsRegistry, Registry!RegistrySpec
============================================================================
