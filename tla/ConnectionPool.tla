--------------------------- MODULE ConnectionPool ---------------------------
(***************************************************************************)
(* The pool of MySQL connections.  A producer thread, a scanner thread and *)
(* the threads that call getConnection share a queue of idle connections   *)
(* under one mutex and one condition variable.                             *)
(*                                                                         *)
(* One action is one hold of the mutex: from taking it, or taking it again *)
(* after a wait, to the next wait or unlock.  After undefined behaviour    *)
(* the program has no state to speak of, and none of its actions is taken. *)
(***************************************************************************)
EXTENDS Integers, FiniteSets, Sequences

CONSTANTS
  Consumers,          \* threads of the server that use the pool
  Connections,        \* addresses a Connection object can have
  InitSize, MaxSize, MaxIdleTime,    \* of mysql.ini
  MaxTime,            \* bound on the clock
  NoConn              \* a thread without a connection

ASSUME PoolAssumption ==
  /\ InitSize \in Nat /\ MaxSize \in Nat
  /\ MaxIdleTime \in Nat /\ MaxTime \in Nat
  /\ NoConn \notin Connections
  /\ IsFiniteSet(Consumers) /\ IsFiniteSet(Connections)

VARIABLES
  connectionQue,      \* _connectionQue
  connectionCnt,      \* _connectionCnt
  alivetime,          \* _alivetime of each Connection
  now,                \* clock()
  held,               \* the connection of a thread's shared_ptr
  consumer,           \* where a thread is in getConnection
  producer,           \* where the producer thread is; "none" without a config
  undefined           \* front() and pop() were called on an empty queue

queue == <<connectionQue, connectionCnt, alivetime>>
vars == <<queue, now, held, consumer, producer, undefined>>

Idle == {connectionQue[i] : i \in 1..Len(connectionQue)}
Borrowed == {held[t] : t \in Consumers} \ {NoConn}
Borrowers == {t \in Consumers : held[t] # NoConn}

TypeOK ==
  /\ connectionQue \in Seq(Connections)
  /\ connectionCnt \in Nat
  /\ alivetime \in [Connections -> Nat]
  /\ now \in Nat
  /\ held \in [Consumers -> Connections \cup {NoConn}]
  /\ consumer \in [Consumers -> {"out", "wait", "notified", "timeout"}]
  /\ producer \in {"none", "ready", "wait"}
  /\ undefined \in BOOLEAN

\* The constructor: without a configuration file no thread is started and
\* nothing is connected.
Init ==
  /\ now = 0
  /\ alivetime = [k \in Connections |-> 0]
  /\ held = [t \in Consumers |-> NoConn]
  /\ consumer = [t \in Consumers |-> "out"]
  /\ undefined = FALSE
  /\ \/ /\ producer = "ready"
        /\ connectionCnt = InitSize
        /\ connectionQue \in [1..InitSize -> Connections]
        /\ \A i, j \in 1..InitSize : connectionQue[i] = connectionQue[j] => i = j
     \/ producer = "none" /\ connectionCnt = 0 /\ connectionQue = <<>>

----------------------------------------------------------------------------
(* Plausible mistakes in the definitions that follow, which no action uses: *)
(* each takes the place of its original to show that a property notices.   *)

ReturnWithoutRefresh(k) ==
  /\ connectionQue' = Append(connectionQue, k)
  /\ alivetime' = IF k \in Borrowed THEN alivetime
                  ELSE [alivetime EXCEPT ![k] = now]
NotifyNobody(c) == consumer' = c /\ UNCHANGED producer
DeletableDownToNone(n) ==
  \A i \in 1..n : now - alivetime[connectionQue[i]] >= MaxIdleTime
NotCounted == connectionCnt' = connectionCnt
CountedDown == connectionCnt' = connectionCnt - 1

----------------------------------------------------------------------------
\* refreshAlivetime and push, for a new connection or a returned one.
PushBack(k) ==
  /\ connectionQue' = Append(connectionQue, k)
  /\ alivetime' = [alivetime EXCEPT ![k] = now]

Expired(k) == now - alivetime[k] >= MaxIdleTime

Woken(c) == [t \in Consumers |-> IF c[t] = "wait" THEN "notified" ELSE c[t]]

\* cv.notify_all, by a thread that is not waiting itself.
NotifyAll(c) ==
  /\ consumer' = Woken(c)
  /\ producer' = IF producer = "wait" THEN "ready" ELSE producer

----------------------------------------------------------------------------
(* produceConnectionTask                                                   *)

CanProduce == connectionCnt < MaxSize

Count == connectionCnt' = connectionCnt + 1

ProducerWait ==
  /\ ~undefined
  /\ producer = "ready" /\ connectionQue # <<>>
  /\ producer' = "wait"
  /\ UNCHANGED <<queue, now, held, consumer, undefined>>

\* The loop goes round with the queue empty: at maxSize it only notifies.
Produce ==
  /\ ~undefined
  /\ producer = "ready" /\ connectionQue = <<>>
  /\ \/ /\ CanProduce
        /\ \E k \in Connections \ Borrowed : PushBack(k)
        /\ Count
     \/ ~CanProduce /\ UNCHANGED queue
  /\ NotifyAll(consumer)
  /\ UNCHANGED <<now, held, undefined>>

----------------------------------------------------------------------------
(* getConnection and the deleter of the pointer it returns                 *)

\* front, pop and notify_all.
Take(t) ==
  /\ connectionQue # <<>>
  /\ held' = [held EXCEPT ![t] = Head(connectionQue)]
  /\ connectionQue' = Tail(connectionQue)
  /\ NotifyAll([consumer EXCEPT ![t] = "out"])
  /\ UNCHANGED <<connectionCnt, alivetime>>

WaitFor(t) ==
  /\ connectionQue = <<>>
  /\ consumer' = [consumer EXCEPT ![t] = "wait"]
  /\ UNCHANGED <<queue, held, producer>>

GetConnection(t) ==
  /\ ~undefined
  /\ consumer[t] = "out" /\ held[t] = NoConn
  /\ Take(t) \/ WaitFor(t)
  /\ UNCHANGED <<now, undefined>>

\* wait_for has returned no_timeout: back to the condition of the loop, with
\* the whole timeout again.
Notified(t) ==
  /\ ~undefined
  /\ consumer[t] = "notified"
  /\ Take(t) \/ WaitFor(t)
  /\ UNCHANGED <<now, undefined>>

\* wait_for has returned timeout: nullptr if the queue is still empty.
TimedOut(t) ==
  /\ ~undefined
  /\ consumer[t] = "timeout"
  /\ \/ Take(t)
     \/ /\ connectionQue = <<>>
        /\ consumer' = [consumer EXCEPT ![t] = "out"]
        /\ UNCHANGED <<queue, held, producer>>
  /\ UNCHANGED <<now, undefined>>

\* The deleter puts the connection back and notifies nobody.
Return(t) ==
  /\ ~undefined
  /\ held[t] # NoConn
  /\ PushBack(held[t])
  /\ held' = [held EXCEPT ![t] = NoConn]
  /\ UNCHANGED <<connectionCnt, now, consumer, producer, undefined>>

----------------------------------------------------------------------------
(* scanConnectionTask                                                      *)

\* The loop may delete the first n connections: it stops at initSize and at
\* the first connection that has not been idle for long.
Deletable(n) ==
  /\ n = 0 \/ connectionCnt - n >= InitSize
  /\ \A i \in 1..n : Expired(connectionQue[i])

\* The loop deletes as many as it may.  If the queue runs empty while there
\* are more than initSize connections, front() reads a slot that holds no
\* element: the loop ends if a recently used connection is still found there,
\* and otherwise the process crashes or pops from the empty queue.
Scan ==
  /\ ~undefined
  /\ producer # "none"
  /\ \E n \in 0..Len(connectionQue) :
       /\ Deletable(n)
       /\ n < Len(connectionQue) => ~Deletable(n + 1)
       /\ connectionQue' = SubSeq(connectionQue, n + 1, Len(connectionQue))
       /\ connectionCnt' = connectionCnt - n
       /\ undefined' \in IF n = Len(connectionQue) /\ connectionCnt - n > InitSize
                         THEN BOOLEAN ELSE {FALSE}
  /\ UNCHANGED <<alivetime, now, held, consumer, producer>>

----------------------------------------------------------------------------
(* The clock and the condition variable                                    *)

Tick ==
  /\ now < MaxTime
  /\ now' = now + 1
  /\ UNCHANGED <<queue, held, consumer, producer, undefined>>

Timeout(t) ==
  /\ ~undefined
  /\ consumer[t] = "wait"
  /\ consumer' = [consumer EXCEPT ![t] = "timeout"]
  /\ UNCHANGED <<queue, now, held, producer, undefined>>

SpuriousWakeup ==
  /\ ~undefined
  /\ \/ \E t \in Consumers :
          /\ consumer[t] = "wait"
          /\ consumer' = [consumer EXCEPT ![t] = "notified"]
          /\ UNCHANGED producer
     \/ producer = "wait" /\ producer' = "ready" /\ UNCHANGED consumer
  /\ UNCHANGED <<queue, now, held, undefined>>

----------------------------------------------------------------------------
Next ==
  \/ ProducerWait \/ Produce \/ Scan \/ Tick \/ SpuriousWakeup
  \/ \E t \in Consumers : \/ GetConnection(t) \/ Notified(t) \/ TimedOut(t)
                          \/ Return(t) \/ Timeout(t)

Spec == Init /\ [][Next]_vars

(***************************************************************************)
(* Properties                                                              *)
(***************************************************************************)

\* No connection is in two places at a time: twice in the queue, lent to two
\* threads, or lent and queued.
InOnePlace ==
  /\ \A i, j \in 1..Len(connectionQue) :
       connectionQue[i] = connectionQue[j] => i = j
  /\ \A t, r \in Consumers : held[t] # NoConn /\ held[t] = held[r] => t = r
  /\ Idle \cap Borrowed = {}

\* The counter that the producer and the scanner decide by is the number of
\* connections that exist, idle or borrowed, each of them in one place.
Accounted ==
  /\ connectionCnt = Len(connectionQue) + Cardinality(Borrowers)
  /\ InOnePlace

\* "队头连接没有超过最大连接时间，则其他都不会超时" (connectionpool.cpp:167): the scanner
\* may stop at the first connection that has not expired, since the queue is
\* ordered by the time its connections were put into it.
OldestFirst ==
  \A i, j \in 1..Len(connectionQue) :
    i < j => alivetime[connectionQue[i]] <= alivetime[connectionQue[j]]

\* Whatever its threads do, the pool is a ResourcePool between initSize and
\* the larger of the two sizes.
Pool == INSTANCE ResourcePool WITH
  Borrowers <- Consumers, Resources <- Connections, Floor <- InitSize,
  Cap <- MaxSize, None <- NoConn, idle <- Idle

ImplementsPool == Pool!PoolSpec

\* The producer that waits while the queue is empty produces nothing until
\* somebody takes a connection, which nobody can.  Only the scanner, which
\* does not notify, brings this about.
SleepsOnEmpty == producer = "wait" /\ connectionQue = <<>>
OnlyScanStrandsProducer == [][~SleepsOnEmpty /\ SleepsOnEmpty' => Scan]_vars

\* "扫描超过maxIdleTime时间的空闲连接，进行回收" (ConnectionPool.hpp:32): the scanner
\* looks at idle connections, which are those in the queue.
ScansIdleOnly == ~undefined

=============================================================================
