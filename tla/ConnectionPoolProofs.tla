------------------------ MODULE ConnectionPoolProofs ------------------------
(***************************************************************************)
(* Proofs about ConnectionPool, for any number of threads and connections  *)
(* and any sizes of the configuration file.                                *)
(***************************************************************************)
EXTENDS ConnectionPool, FiniteSetTheorems, SequenceTheorems, TLAPS

----------------------------------------------------------------------------
(* What the operations do to the queue                                     *)

\* push puts the connection behind those that are there.
LEMMA PushedBack ==
  ASSUME TypeOK, NEW k \in Connections, PushBack(k)
  PROVE  /\ connectionQue' \in Seq(Connections)
         /\ Len(connectionQue') = Len(connectionQue) + 1
         /\ \A i \in 1..Len(connectionQue) : connectionQue'[i] = connectionQue[i]
         /\ connectionQue'[Len(connectionQue) + 1] = k
         /\ alivetime' \in [Connections -> Nat]
         /\ alivetime'[k] = now
         /\ \A j \in Connections \ {k} : alivetime'[j] = alivetime[j]
  BY DEF TypeOK, PushBack

\* front and pop move every connection one place forward.
LEMMA Popped ==
  ASSUME TypeOK, NEW t \in Consumers, Take(t)
  PROVE  /\ connectionQue' \in Seq(Connections)
         /\ Len(connectionQue') = Len(connectionQue) - 1
         /\ \A i \in 1..Len(connectionQue') : connectionQue'[i] = connectionQue[i + 1]
         /\ Len(connectionQue) > 0
         /\ connectionQue[1] \in Connections
         /\ held' = [held EXCEPT ![t] = connectionQue[1]]
         /\ UNCHANGED <<connectionCnt, alivetime>>
  BY DEF TypeOK, Take

\* The scanner moves every connection that stays forward by as many places as
\* it deletes connections.
LEMMA Scanned ==
  ASSUME TypeOK, Scan
  PROVE  \E n \in 0..Len(connectionQue) :
           /\ connectionQue' \in Seq(Connections)
           /\ Len(connectionQue') = Len(connectionQue) - n
           /\ \A i \in 1..Len(connectionQue') : connectionQue'[i] = connectionQue[i + n]
           /\ connectionCnt' = connectionCnt - n
           /\ n = 0 \/ connectionCnt' >= InitSize
           /\ undefined' \in BOOLEAN
           /\ UNCHANGED <<alivetime, now, held, consumer, producer>>
<1>1. PICK n \in 0..Len(connectionQue) :
        /\ Deletable(n)
        /\ connectionQue' = SubSeq(connectionQue, n + 1, Len(connectionQue))
        /\ connectionCnt' = connectionCnt - n
        /\ undefined' \in BOOLEAN
  BY DEF Scan
<1>2. connectionQue \in Seq(Connections) /\ Len(connectionQue) \in Nat
  BY DEF TypeOK
<1>3. /\ connectionQue' \in Seq(Connections)
      /\ Len(connectionQue') = Len(connectionQue) - n
      /\ \A i \in 1..Len(connectionQue') : connectionQue'[i] = connectionQue[i + n]
  BY <1>1, <1>2, SubSeqProperties
<1>4. n = 0 \/ connectionCnt' >= InitSize
  BY <1>1, PoolAssumption DEF Deletable, TypeOK
<1> QED  BY <1>1, <1>3, <1>4 DEF Scan

----------------------------------------------------------------------------
(* Types                                                                   *)

LEMMA TypeInitially == Init => TypeOK
<1> SUFFICES ASSUME Init PROVE TypeOK  OBVIOUS
<1>1. connectionQue \in Seq(Connections)
  <2>1. CASE connectionQue \in [1..InitSize -> Connections]
    BY <2>1, PoolAssumption, SeqDef
  <2>2. CASE connectionQue = <<>>  BY <2>2
  <2> QED  BY <2>1, <2>2 DEF Init
<1>2. connectionCnt \in Nat /\ producer \in {"none", "ready", "wait"}
  BY PoolAssumption DEF Init
<1>3. now = 0 /\ undefined = FALSE  BY DEF Init
<1>4. /\ alivetime \in [Connections -> Nat]
      /\ held \in [Consumers -> Connections \cup {NoConn}]
      /\ consumer \in [Consumers -> {"out", "wait", "notified", "timeout"}]
  BY DEF Init
<1> QED  BY <1>1, <1>2, <1>3, <1>4 DEF TypeOK

LEMMA TypeInductive == TypeOK /\ [Next]_vars => TypeOK'
<1> SUFFICES ASSUME TypeOK, [Next]_vars PROVE TypeOK'  OBVIOUS
<1> USE DEF TypeOK
<1>1. ASSUME NEW t \in Consumers, Take(t), UNCHANGED <<now, undefined>>
      PROVE  TypeOK'
  <2>1. held' \in [Consumers -> Connections \cup {NoConn}]
    BY <1>1, Popped
  <2>2. /\ consumer' \in [Consumers -> {"out", "wait", "notified", "timeout"}]
        /\ producer' \in {"none", "ready", "wait"}
    BY <1>1 DEF Take, NotifyAll, Woken
  <2> QED  BY <1>1, <2>1, <2>2, Popped
<1>2. ASSUME NEW t \in Consumers, WaitFor(t), UNCHANGED <<now, undefined>>
      PROVE  TypeOK'
  BY <1>2 DEF WaitFor, queue
<1>3. CASE ProducerWait  BY <1>3 DEF ProducerWait, queue
<1>4. CASE Produce
  <2>1. /\ consumer' \in [Consumers -> {"out", "wait", "notified", "timeout"}]
        /\ producer' \in {"none", "ready", "wait"}
    BY <1>4 DEF Produce, NotifyAll, Woken
  <2>2. CASE CanProduce
    <3>1. PICK k \in Connections \ Borrowed : PushBack(k)
      BY <1>4, <2>2 DEF Produce
    <3> QED  BY <1>4, <2>1, <2>2, <3>1, PushedBack DEF Produce, Count
  <2>3. CASE ~CanProduce  BY <1>4, <2>1, <2>3 DEF Produce, queue
  <2> QED  BY <2>2, <2>3
<1>5. CASE Scan
  <2>1. connectionCnt' \in Nat  BY <1>5, Scanned, PoolAssumption
  <2> QED  BY <1>5, <2>1, Scanned
<1>6. CASE Tick  BY <1>6 DEF Tick, queue
<1>7. CASE SpuriousWakeup  BY <1>7 DEF SpuriousWakeup, queue
<1>8. ASSUME NEW t \in Consumers, GetConnection(t) PROVE TypeOK'
  BY <1>1, <1>2, <1>8 DEF GetConnection
<1>9. ASSUME NEW t \in Consumers, Notified(t) PROVE TypeOK'
  BY <1>1, <1>2, <1>9 DEF Notified
<1>10. ASSUME NEW t \in Consumers, TimedOut(t) PROVE TypeOK'
  BY <1>1, <1>10 DEF TimedOut, queue
<1>11. ASSUME NEW t \in Consumers, Return(t) PROVE TypeOK'
  <2>1. held[t] \in Connections /\ PushBack(held[t])  BY <1>11 DEF Return
  <2> QED  BY <1>11, <2>1, PushedBack DEF Return
<1>12. ASSUME NEW t \in Consumers, Timeout(t) PROVE TypeOK'
  BY <1>12 DEF Timeout, queue
<1>13. CASE UNCHANGED vars  BY <1>13 DEF vars, queue
<1> QED
  BY <1>3, <1>4, <1>5, <1>6, <1>7, <1>8, <1>9, <1>10, <1>11, <1>12, <1>13 DEF Next

\* The queue, the counter and the states of all threads keep their types; in
\* particular the counter never falls below zero.
THEOREM PoolTypeCorrect == Spec => []TypeOK
BY TypeInitially, TypeInductive, PTL DEF Spec

----------------------------------------------------------------------------
(* Accounting and age                                                      *)

\* A thread that waits for a connection has none.
WaitsWithout == \A t \in Consumers : consumer[t] # "out" => held[t] = NoConn

\* No connection was put into the queue in the future.
NotInFuture == \A k \in Connections : alivetime[k] <= now

\* The inductive invariant.  That a returned connection is nowhere in the
\* queue keeps the queue ordered, and that a thread waits without one keeps it
\* from losing one.
PoolInv ==
  /\ TypeOK
  /\ Accounted
  /\ OldestFirst
  /\ WaitsWithout
  /\ NotInFuture

LEMMA BorrowersFinite == IsFiniteSet(Borrowers)
BY PoolAssumption, FS_Subset DEF Borrowers

\* Putting back a connection that is not queued keeps the order and the
\* connections distinct.
LEMMA PushedInOrder ==
  ASSUME PoolInv, NEW k \in Connections \ Idle, PushBack(k), now' = now
  PROVE  /\ Idle' = Idle \cup {k}
         /\ \A i, j \in 1..Len(connectionQue') :
              connectionQue'[i] = connectionQue'[j] => i = j
         /\ OldestFirst'
         /\ NotInFuture'
<1> USE DEF PoolInv
<1> DEFINE n == Len(connectionQue)
<1>1. /\ n \in Nat /\ Len(connectionQue') = n + 1
      /\ \A i \in 1..n : connectionQue'[i] = connectionQue[i]
      /\ \A i \in 1..n : connectionQue[i] \in Connections \ {k}
      /\ connectionQue'[n + 1] = k
  <2>1. n \in Nat /\ \A i \in 1..n : connectionQue[i] \in Connections
    BY DEF TypeOK
  <2>2. \A i \in 1..n : connectionQue[i] # k  BY DEF Idle
  <2>3. TypeOK /\ k \in Connections  OBVIOUS
  <2> QED  BY <2>1, <2>2, <2>3, PushedBack
<1>2. /\ alivetime'[k] = now
      /\ \A j \in Connections \ {k} : alivetime'[j] = alivetime[j]
      /\ \A j \in Connections : alivetime[j] \in Nat /\ alivetime[j] <= now
      /\ now \in Nat
  BY PushedBack DEF NotInFuture, TypeOK
<1>3. Idle' = Idle \cup {k}
  <2>1. Idle' = {connectionQue'[i] : i \in 1..(n + 1)}  BY <1>1 DEF Idle
  <2>2. 1..(n + 1) = (1..n) \cup {n + 1}  BY <1>1
  <2> QED  BY <1>1, <2>1, <2>2 DEF Idle
<1>4. \A i, j \in 1..(n + 1) : connectionQue'[i] = connectionQue'[j] => i = j
  BY <1>1 DEF Accounted, InOnePlace
<1>5. OldestFirst'
  <2> SUFFICES ASSUME NEW i \in 1..(n + 1), NEW j \in 1..(n + 1), i < j
               PROVE  alivetime'[connectionQue'[i]] <= alivetime'[connectionQue'[j]]
    BY <1>1 DEF OldestFirst
  <2>1. i \in 1..n  BY <1>1
  <2>2. CASE j \in 1..n
    <3>1. alivetime[connectionQue[i]] <= alivetime[connectionQue[j]]
      BY <2>1, <2>2 DEF OldestFirst
    <3> QED  BY <1>1, <1>2, <2>1, <2>2, <3>1
  <2>3. CASE j = n + 1  BY <1>1, <1>2, <2>1, <2>3
  <2> QED  BY <1>1, <2>2, <2>3
<1>6. NotInFuture'  BY <1>2 DEF NotInFuture
<1> QED  BY <1>1, <1>3, <1>4, <1>5, <1>6

\* A thread that has no connection takes the oldest idle one.
LEMMA TakenFromQueue ==
  ASSUME PoolInv, NEW t \in Consumers, held[t] = NoConn, Take(t), now' = now
  PROVE  /\ Accounted' /\ OldestFirst' /\ WaitsWithout' /\ NotInFuture'
         /\ connectionQue[1] \in Idle
         /\ Idle' = Idle \ {connectionQue[1]}
<1> USE DEF PoolInv
<1> DEFINE n == Len(connectionQue)
           k == connectionQue[1]
<1>1. /\ n \in Nat /\ n > 0 /\ Len(connectionQue') = n - 1
      /\ \A i \in 1..(n - 1) : connectionQue'[i] = connectionQue[i + 1]
      /\ held' = [held EXCEPT ![t] = k]
      /\ k \in Connections /\ k # NoConn
      /\ UNCHANGED <<connectionCnt, alivetime>>
  <2>1. n \in Nat  BY DEF TypeOK
  <2>2. k \in Connections  BY Popped
  <2>3. k # NoConn  BY <2>2, PoolAssumption
  <2> QED  BY <2>1, <2>2, <2>3, Popped
<1>2. \A i, j \in 1..n : connectionQue[i] = connectionQue[j] => i = j
  BY DEF Accounted, InOnePlace
<1>3. k \in Idle  BY <1>1 DEF Idle
<1>4. Idle' = Idle \ {k}
  <2>1. ASSUME NEW x \in Idle' PROVE x \in Idle \ {k}
    <3>1. PICK i \in 1..(n - 1) : x = connectionQue[i + 1]
      BY <1>1, <2>1 DEF Idle
    <3>2. i + 1 \in 1..n /\ i + 1 # 1  BY <1>1
    <3>3. connectionQue[i + 1] # connectionQue[1]  BY <1>1, <1>2, <3>2
    <3> QED  BY <3>1, <3>2, <3>3 DEF Idle
  <2>2. ASSUME NEW x \in Idle \ {k} PROVE x \in Idle'
    <3>1. PICK i \in 1..n : x = connectionQue[i]  BY DEF Idle
    <3>2. i - 1 \in 1..(n - 1) /\ (i - 1) + 1 = i  BY <1>1, <3>1
    <3>3. connectionQue'[i - 1] = x  BY <1>1, <3>1, <3>2
    <3> QED  BY <1>1, <3>2, <3>3 DEF Idle
  <2> QED  BY <2>1, <2>2
<1>5. Cardinality(Borrowers') = Cardinality(Borrowers) + 1
  <2>1. Borrowers' = Borrowers \cup {t} /\ t \notin Borrowers
    BY <1>1 DEF Borrowers, TypeOK
  <2> QED  BY <2>1, BorrowersFinite, FS_AddElement
<1>6. InOnePlace'
  <2>1. \A i, j \in 1..(n - 1) : connectionQue'[i] = connectionQue'[j] => i = j
    <3> SUFFICES ASSUME NEW i \in 1..(n - 1), NEW j \in 1..(n - 1),
                        connectionQue[i + 1] = connectionQue[j + 1]
                 PROVE  i = j
      BY <1>1
    <3>1. i + 1 \in 1..n /\ j + 1 \in 1..n  BY <1>1
    <3>2. i + 1 = j + 1  BY <1>2, <3>1
    <3> QED  BY <3>2
  <2>2. \A r \in Consumers : held[r] # k
    BY <1>1, <1>3 DEF Accounted, InOnePlace, Borrowed
  <2>3. \A r, q \in Consumers :
          held'[r] # NoConn /\ held'[r] = held'[q] => r = q
    BY <1>1, <2>2 DEF Accounted, InOnePlace, TypeOK
  <2>4. Borrowed' \subseteq Borrowed \cup {k}
    BY <1>1 DEF Borrowed, TypeOK
  <2>5. Idle' \cap Borrowed' = {}
    BY <1>4, <2>4 DEF Accounted, InOnePlace
  <2> QED  BY <1>1, <2>1, <2>3, <2>5 DEF InOnePlace
<1>7. Accounted'
  <2>1. Cardinality(Borrowers) \in Nat  BY BorrowersFinite, FS_CardinalityType
  <2> QED  BY <1>1, <1>5, <1>6, <2>1 DEF Accounted, TypeOK
<1>8. OldestFirst'
  <2> SUFFICES ASSUME NEW i \in 1..(n - 1), NEW j \in 1..(n - 1), i < j
               PROVE  alivetime[connectionQue[i + 1]] <= alivetime[connectionQue[j + 1]]
    BY <1>1, SMTT(30) DEF OldestFirst
  <2>1. i + 1 \in 1..n /\ j + 1 \in 1..n /\ i + 1 < j + 1  BY <1>1
  <2> QED  BY <2>1 DEF OldestFirst
<1>9. WaitsWithout'
  <2>1. \A r \in Consumers \ {t} : consumer'[r] # "out" => consumer[r] # "out"
    BY DEF Take, NotifyAll, Woken, TypeOK
  <2>2. consumer'[t] = "out"  BY DEF Take, NotifyAll, Woken, TypeOK
  <2> QED  BY <1>1, <2>1, <2>2 DEF WaitsWithout, TypeOK
<1>10. NotInFuture'  BY <1>1 DEF NotInFuture
<1> QED  BY <1>3, <1>4, <1>7, <1>8, <1>9, <1>10

\* A thread gives back what it has; nobody else has it.
LEMMA GivenBack ==
  ASSUME PoolInv, NEW t \in Consumers, Return(t)
  PROVE  /\ Accounted' /\ OldestFirst' /\ WaitsWithout' /\ NotInFuture'
         /\ Idle' = Idle \cup {held[t]}
<1> USE DEF PoolInv
<1> DEFINE k == held[t]
<1>1. /\ k \in Connections \ Idle /\ PushBack(k)
      /\ held' = [held EXCEPT ![t] = NoConn]
      /\ UNCHANGED <<connectionCnt, now, consumer, producer, undefined>>
  <2>1. k \in Connections  BY DEF Return, TypeOK
  <2>2. k \in Borrowed  BY DEF Return, Borrowed
  <2> QED  BY <2>1, <2>2 DEF Return, Accounted, InOnePlace
<1>2. /\ Idle' = Idle \cup {k}
      /\ \A i, j \in 1..Len(connectionQue') :
           connectionQue'[i] = connectionQue'[j] => i = j
      /\ OldestFirst'
      /\ NotInFuture'
      /\ Len(connectionQue') = Len(connectionQue) + 1
  BY <1>1, PushedInOrder, PushedBack
<1>3. InOnePlace'
  <2>1. \A r \in Consumers \ {t} : held'[r] = held[r] /\ held[r] # k
    BY <1>1 DEF Accounted, InOnePlace, TypeOK, Return
  <2>2. held'[t] = NoConn  BY <1>1 DEF TypeOK
  <2>3. Borrowed' \subseteq Borrowed \ {k}  BY <2>1, <2>2 DEF Borrowed
  <2>4. \A r, q \in Consumers :
          held'[r] # NoConn /\ held'[r] = held'[q] => r = q
    BY <2>1, <2>2 DEF Accounted, InOnePlace
  <2> QED  BY <1>2, <2>3, <2>4 DEF Accounted, InOnePlace
<1>4. Cardinality(Borrowers') = Cardinality(Borrowers) - 1
  <2>1. Borrowers' = Borrowers \ {t}  BY <1>1 DEF Borrowers, TypeOK
  <2>2. t \in Borrowers  BY DEF Borrowers, Return
  <2> QED  BY <2>1, <2>2, BorrowersFinite, FS_RemoveElement
<1>5. Accounted'
  <2>1. Cardinality(Borrowers) \in Nat  BY BorrowersFinite, FS_CardinalityType
  <2> QED  BY <1>1, <1>2, <1>3, <1>4, <2>1 DEF Accounted, TypeOK
<1>6. WaitsWithout'  BY <1>1 DEF WaitsWithout, TypeOK
<1> QED  BY <1>2, <1>5, <1>6

\* The producer, who finds the queue empty, puts a new connection into it.
LEMMA Produced ==
  ASSUME PoolInv, Produce
  PROVE  Accounted' /\ OldestFirst' /\ WaitsWithout' /\ NotInFuture'
<1> USE DEF PoolInv
<1>1. connectionQue = <<>> /\ Idle = {} /\ UNCHANGED <<held, now>>
  BY DEF Produce, Idle
<1>2. WaitsWithout'  BY <1>1 DEF WaitsWithout, Produce, NotifyAll, Woken, TypeOK
<1>3. Borrowers' = Borrowers /\ Borrowed' = Borrowed
  BY <1>1 DEF Borrowers, Borrowed
<1>4. CASE CanProduce
  <2>1. PICK k \in Connections \ Borrowed : PushBack(k)
    BY <1>4 DEF Produce
  <2>2. /\ Idle' = {k}
        /\ \A i, j \in 1..Len(connectionQue') :
             connectionQue'[i] = connectionQue'[j] => i = j
        /\ OldestFirst' /\ NotInFuture'
        /\ Len(connectionQue') = Len(connectionQue) + 1
    BY <1>1, <2>1, PushedInOrder, PushedBack
  <2>3. InOnePlace'  BY <1>1, <1>3, <2>1, <2>2 DEF Accounted, InOnePlace
  <2>4. connectionCnt' = connectionCnt + 1  BY <1>4 DEF Produce, Count
  <2>5. Cardinality(Borrowers) \in Nat  BY BorrowersFinite, FS_CardinalityType
  <2>6. Accounted'  BY <1>1, <1>3, <2>2, <2>3, <2>4, <2>5 DEF Accounted, TypeOK
  <2> QED  BY <1>2, <2>2, <2>6
<1>5. CASE ~CanProduce
  <2>1. UNCHANGED <<connectionQue, connectionCnt, alivetime>>
    BY <1>5 DEF Produce, queue
  <2>2. Idle' = Idle  BY <2>1 DEF Idle
  <2> QED
    BY <1>1, <1>2, <1>3, <2>1, <2>2
    DEF Accounted, InOnePlace, OldestFirst, NotInFuture
<1> QED  BY <1>4, <1>5

\* The scanner takes connections from the front of the queue only.
LEMMA ScannedFromFront ==
  ASSUME PoolInv, Scan
  PROVE  Accounted' /\ OldestFirst' /\ WaitsWithout' /\ NotInFuture'
<1> USE DEF PoolInv
<1>1. PICK n \in 0..Len(connectionQue) :
        /\ Len(connectionQue') = Len(connectionQue) - n
        /\ \A i \in 1..Len(connectionQue') : connectionQue'[i] = connectionQue[i + n]
        /\ connectionCnt' = connectionCnt - n
        /\ UNCHANGED <<alivetime, now, held, consumer, producer>>
  BY Scanned
<1>2. Len(connectionQue) \in Nat  BY DEF TypeOK
<1>3. \A i \in 1..Len(connectionQue') : i + n \in 1..Len(connectionQue)
  BY <1>1, <1>2
<1>4. Idle' \subseteq Idle  BY <1>1, <1>3 DEF Idle
<1>5. \A i, j \in 1..Len(connectionQue') :
        connectionQue'[i] = connectionQue'[j] => i = j
  <2> SUFFICES ASSUME NEW i \in 1..Len(connectionQue'),
                      NEW j \in 1..Len(connectionQue'),
                      connectionQue[i + n] = connectionQue[j + n]
               PROVE  i = j
    BY <1>1
  <2>1. i + n = j + n  BY <1>3 DEF Accounted, InOnePlace
  <2> QED  BY <1>1, <1>2, <2>1
<1>6. Borrowers' = Borrowers /\ Borrowed' = Borrowed
  BY <1>1 DEF Borrowers, Borrowed
<1>7. InOnePlace'  BY <1>1, <1>4, <1>5, <1>6 DEF Accounted, InOnePlace
<1>8. Accounted'
  <2>1. Cardinality(Borrowers) \in Nat  BY BorrowersFinite, FS_CardinalityType
  <2> QED  BY <1>1, <1>2, <1>6, <1>7, <2>1 DEF Accounted, TypeOK
<1>9. OldestFirst'
  <2> SUFFICES ASSUME NEW i \in 1..Len(connectionQue'),
                      NEW j \in 1..Len(connectionQue'), i < j
               PROVE  alivetime[connectionQue[i + n]] <= alivetime[connectionQue[j + n]]
    BY <1>1 DEF OldestFirst
  <2>1. i + n < j + n  BY <1>1, <1>2
  <2> QED  BY <1>3, <2>1 DEF OldestFirst
<1>10. WaitsWithout' /\ NotInFuture'  BY <1>1 DEF WaitsWithout, NotInFuture
<1> QED  BY <1>8, <1>9, <1>10

LEMMA PoolInvInitially == Init => PoolInv
<1> SUFFICES ASSUME Init PROVE PoolInv  OBVIOUS
<1>1. TypeOK  BY TypeInitially
<1>2. Borrowers = {} /\ Borrowed = {}  BY DEF Init, Borrowers, Borrowed
<1>3. connectionCnt = Len(connectionQue) /\ Len(connectionQue) \in Nat
  <2>1. CASE connectionQue \in [1..InitSize -> Connections] /\ connectionCnt = InitSize
    <3>1. DOMAIN connectionQue = 1..InitSize  BY <2>1
    <3>2. Len(connectionQue) = InitSize
      BY <1>1, <3>1, PoolAssumption, LenProperties DEF TypeOK
    <3> QED  BY <2>1, <3>2, PoolAssumption
  <2>2. CASE connectionQue = <<>> /\ connectionCnt = 0  BY <2>2
  <2> QED  BY <2>1, <2>2 DEF Init
<1>4. \A i, j \in 1..Len(connectionQue) :
        connectionQue[i] = connectionQue[j] => i = j
  <2>1. CASE connectionCnt = 0  BY <1>3, <2>1
  <2>2. CASE connectionCnt = InitSize  BY <1>3, <2>2 DEF Init
  <2> QED  BY <2>1, <2>2 DEF Init
<1>5. Accounted
  <2>1. Cardinality(Borrowers) = 0  BY <1>2, FS_EmptySet
  <2> QED  BY <1>2, <1>3, <1>4, <2>1 DEF Accounted, InOnePlace, Init
<1>6. OldestFirst
  <2>1. \A i \in 1..Len(connectionQue) : connectionQue[i] \in Connections
    BY <1>1 DEF TypeOK
  <2>2. \A k \in Connections : alivetime[k] = 0  BY DEF Init
  <2> QED  BY <2>1, <2>2 DEF OldestFirst
<1>7. WaitsWithout  BY DEF Init, WaitsWithout
<1>8. NotInFuture  BY DEF Init, NotInFuture
<1> QED  BY <1>1, <1>5, <1>6, <1>7, <1>8 DEF PoolInv

\* Steps that leave the queue, the lent connections and the clock alone.
LEMMA OthersKeep ==
  ASSUME PoolInv, UNCHANGED <<connectionQue, connectionCnt, alivetime, held, now>>,
         \A t \in Consumers : consumer'[t] # "out" => consumer[t] # "out" \/ held[t] = NoConn
  PROVE  Accounted' /\ OldestFirst' /\ WaitsWithout' /\ NotInFuture'
<1>1. Idle' = Idle /\ Borrowed' = Borrowed /\ Borrowers' = Borrowers
  BY DEF Idle, Borrowed, Borrowers
<1> QED
  BY <1>1 DEF PoolInv, Accounted, InOnePlace, OldestFirst, WaitsWithout, NotInFuture

LEMMA PoolInvInductive == PoolInv /\ [Next]_vars => PoolInv'
<1> SUFFICES ASSUME PoolInv, [Next]_vars
             PROVE  Accounted' /\ OldestFirst' /\ WaitsWithout' /\ NotInFuture'
  BY TypeInductive DEF PoolInv
<1> USE DEF PoolInv
<1>1. ASSUME NEW t \in Consumers, held[t] = NoConn, WaitFor(t), now' = now
      PROVE  Accounted' /\ OldestFirst' /\ WaitsWithout' /\ NotInFuture'
  <2>1. \A r \in Consumers : consumer'[r] # "out" =>
                                consumer[r] # "out" \/ held[r] = NoConn
    BY <1>1 DEF WaitFor, TypeOK
  <2> QED  BY <1>1, <2>1, OthersKeep DEF WaitFor, queue
<1>2. CASE ProducerWait  BY <1>2, OthersKeep DEF ProducerWait, queue
<1>3. CASE Produce  BY <1>3, Produced
<1>4. CASE Scan  BY <1>4, ScannedFromFront
<1>5. CASE Tick
  <2>1. UNCHANGED <<connectionQue, connectionCnt, alivetime, held, consumer>>
    BY <1>5 DEF Tick, queue
  <2>2. Idle' = Idle /\ Borrowed' = Borrowed /\ Borrowers' = Borrowers
    BY <2>1 DEF Idle, Borrowed, Borrowers
  <2>3. NotInFuture'  BY <1>5, <2>1 DEF Tick, NotInFuture, TypeOK
  <2> QED
    BY <2>1, <2>2, <2>3 DEF Accounted, InOnePlace, OldestFirst, WaitsWithout
<1>6. CASE SpuriousWakeup
  <2>1. \A r \in Consumers : consumer'[r] # "out" => consumer[r] # "out"
    BY <1>6 DEF SpuriousWakeup, TypeOK
  <2> QED  BY <1>6, <2>1, OthersKeep DEF SpuriousWakeup, queue
<1>7. ASSUME NEW t \in Consumers, GetConnection(t)
      PROVE  Accounted' /\ OldestFirst' /\ WaitsWithout' /\ NotInFuture'
  BY <1>1, <1>7, TakenFromQueue DEF GetConnection
<1>8. ASSUME NEW t \in Consumers, Notified(t)
      PROVE  Accounted' /\ OldestFirst' /\ WaitsWithout' /\ NotInFuture'
  <2>1. held[t] = NoConn  BY <1>8 DEF Notified, WaitsWithout
  <2> QED  BY <1>1, <1>8, <2>1, TakenFromQueue DEF Notified
<1>9. ASSUME NEW t \in Consumers, TimedOut(t)
      PROVE  Accounted' /\ OldestFirst' /\ WaitsWithout' /\ NotInFuture'
  <2>1. held[t] = NoConn  BY <1>9 DEF TimedOut, WaitsWithout
  <2>2. CASE Take(t)  BY <1>9, <2>1, <2>2, TakenFromQueue DEF TimedOut
  <2>3. CASE ~Take(t)
    <3>1. \A r \in Consumers : consumer'[r] # "out" => consumer[r] # "out"
      BY <1>9, <2>3 DEF TimedOut, TypeOK
    <3> QED  BY <1>9, <2>3, <3>1, OthersKeep DEF TimedOut, queue
  <2> QED  BY <2>2, <2>3
<1>10. ASSUME NEW t \in Consumers, Return(t)
       PROVE  Accounted' /\ OldestFirst' /\ WaitsWithout' /\ NotInFuture'
  BY <1>10, GivenBack
<1>11. ASSUME NEW t \in Consumers, Timeout(t)
       PROVE  Accounted' /\ OldestFirst' /\ WaitsWithout' /\ NotInFuture'
  <2>1. \A r \in Consumers : consumer'[r] # "out" => consumer[r] # "out"
    BY <1>11 DEF Timeout, TypeOK
  <2> QED  BY <1>11, <2>1, OthersKeep DEF Timeout, queue
<1>12. CASE UNCHANGED vars  BY <1>12, OthersKeep DEF vars, queue
<1> QED
  BY <1>2, <1>3, <1>4, <1>5, <1>6, <1>7, <1>8, <1>9, <1>10, <1>11, <1>12 DEF Next

\* Through every interleaving of producer, scanner, borrowers, timeouts and
\* wakeups each connection is in one place, and the counter agrees.
THEOREM ConnectionsAccounted == Spec => []Accounted
BY PoolInvInitially, PoolInvInductive, PTL DEF Spec, PoolInv

\* The queue is ordered by age, so the scanner may stop at the first connection
\* that is not old enough.
THEOREM QueueOldestFirst == Spec => []OldestFirst
BY PoolInvInitially, PoolInvInductive, PTL DEF Spec, PoolInv

\* Nothing but the scanner can leave the producer asleep next to an empty
\* queue: whoever else empties it notifies in the same hold of the mutex.
THEOREM StrandedByScanOnly == Spec => OnlyScanStrandsProducer
<1>1. ASSUME TypeOK, Next, ~SleepsOnEmpty, SleepsOnEmpty' PROVE Scan
  <2> SUFFICES ASSUME ~Scan PROVE FALSE  OBVIOUS
  <2>1. ASSUME NEW t \in Consumers, Take(t) PROVE FALSE
    BY <1>1, <2>1 DEF Take, NotifyAll, SleepsOnEmpty
  <2>2. ASSUME UNCHANGED <<connectionQue, producer>> PROVE FALSE
    BY <1>1, <2>2 DEF SleepsOnEmpty
  <2>3. ~ProducerWait
    BY <1>1 DEF ProducerWait, queue, SleepsOnEmpty
  <2>4. ~Produce  BY <1>1 DEF Produce, NotifyAll, SleepsOnEmpty
  <2>5. ~Tick /\ ~SpuriousWakeup
    <3>1. ~Tick  BY <2>2 DEF Tick, queue
    <3>2. ~SpuriousWakeup
      BY <1>1 DEF SpuriousWakeup, queue, SleepsOnEmpty
    <3> QED  BY <3>1, <3>2
  <2>6. ASSUME NEW t \in Consumers, WaitFor(t) PROVE FALSE
    BY <2>2, <2>6 DEF WaitFor, queue
  <2>7. ASSUME NEW t \in Consumers PROVE ~GetConnection(t) /\ ~Notified(t)
    BY <2>1, <2>6 DEF GetConnection, Notified
  <2>8. ASSUME NEW t \in Consumers PROVE ~TimedOut(t)
    BY <2>1, <2>2 DEF TimedOut, queue
  <2>9. ASSUME NEW t \in Consumers, Return(t) PROVE FALSE
    <3>1. held[t] \in Connections /\ PushBack(held[t])
      BY <1>1, <2>9 DEF Return, TypeOK
    <3>2. connectionQue' # <<>>  BY <1>1, <3>1, AppendProperties DEF PushBack, TypeOK
    <3> QED  BY <1>1, <3>2 DEF SleepsOnEmpty
  <2>10. ASSUME NEW t \in Consumers PROVE ~Timeout(t)
    BY <2>2 DEF Timeout, queue
  <2> QED
    BY <1>1, <2>3, <2>4, <2>5, <2>7, <2>8, <2>9, <2>10 DEF Next
<1>2. TypeOK /\ [Next]_vars => [~SleepsOnEmpty /\ SleepsOnEmpty' => Scan]_vars
  BY <1>1
<1> QED
  BY <1>2, PoolTypeCorrect, PTL DEF Spec, OnlyScanStrandsProducer

----------------------------------------------------------------------------
(* The pool is a ResourcePool                                              *)

\* The queue lists the idle connections without repetition.
LEMMA IdleCounted ==
  TypeOK /\ Accounted =>
    IsFiniteSet(Idle) /\ Cardinality(Idle) = Len(connectionQue)
<1> SUFFICES ASSUME TypeOK, Accounted
             PROVE  IsFiniteSet(Idle) /\ Cardinality(Idle) = Len(connectionQue)
  OBVIOUS
<1> DEFINE n == Len(connectionQue)
           f == [i \in 1..n |-> connectionQue[i]]
<1>1. n \in Nat  BY DEF TypeOK
<1>2. f \in [1..n -> Idle]  BY DEF Idle
<1>3. \A i, j \in 1..n : f[i] = f[j] => i = j  BY DEF Accounted, InOnePlace
<1>4. \A x \in Idle : \E i \in 1..n : f[i] = x  BY DEF Idle
<1>5. f \in Bijection(1..n, Idle)
  BY <1>2, <1>3, <1>4 DEF Bijection, Injection, Surjection, IsInjective
<1>6. ExistsBijection(1..n, Idle)  BY <1>5 DEF ExistsBijection
<1>7. Cardinality(Idle) = n  BY <1>1, <1>6, FS_CountingElements
<1>8. IsFiniteSet(1..n)  BY <1>1, FS_Interval
<1> QED  BY <1>6, <1>7, <1>8, FS_Bijection

\* The two modules count with the same operator.
LEMMA SameCardinality == \A S : Pool!Cardinality(S) = Cardinality(S)
BY DEF Pool!Cardinality, Cardinality

LEMMA TotalIsCnt ==
  ASSUME TypeOK, Accounted
  PROVE  Pool!Total = connectionCnt
<1>1. Pool!Borrowing = Borrowers  BY DEF Pool!Borrowing, Borrowers
<1>2. Pool!Total = Cardinality(Idle) + Cardinality(Borrowers)
  BY <1>1, SameCardinality DEF Pool!Total
<1> QED  BY <1>2, IdleCounted DEF Accounted

LEMMA PoolInitially == Init => Pool!PoolInit
<1> SUFFICES ASSUME Init PROVE Pool!PoolInit  OBVIOUS
<1>1. PoolInv  BY PoolInvInitially
<1>2. Idle \subseteq Connections  BY <1>1 DEF PoolInv, TypeOK, Idle
<1>3. connectionCnt \in {0, InitSize} /\ Borrowers = {}
  BY DEF Init, Borrowers
<1>4. Cardinality(Idle) = connectionCnt
  <2>1. Cardinality(Borrowers) = 0  BY <1>3, FS_EmptySet
  <2>2. Len(connectionQue) \in Nat  BY <1>1 DEF PoolInv, TypeOK
  <2> QED  BY <1>1, <2>1, <2>2, IdleCounted DEF PoolInv, Accounted
<1>5. held = [t \in Consumers |-> NoConn]  BY DEF Init
<1> QED  BY <1>2, <1>3, <1>4, <1>5, SameCardinality DEF Pool!PoolInit

\* Every step of a thread is one of the abstract pool or leaves it alone.
LEMMA PoolSimulated ==
  ASSUME PoolInv, PoolInv', [Next]_vars
  PROVE  [Pool!PoolNext]_(Pool!pool)
<1> USE DEF PoolInv
<1> DEFINE Same == Idle' = Idle /\ held' = held
<1>1. ASSUME connectionQue' = connectionQue, held' = held PROVE Same
  BY <1>1 DEF Idle
<1>2. ASSUME NEW t \in Consumers, held[t] = NoConn, Take(t), now' = now
      PROVE  Pool!Acquire(t)
  BY <1>2, TakenFromQueue, Popped DEF Pool!Acquire
<1>3. ASSUME NEW t \in Consumers, WaitFor(t) PROVE Same
  BY <1>1, <1>3 DEF WaitFor, queue
<1>4. CASE ProducerWait  BY <1>1, <1>4 DEF ProducerWait, queue, Pool!pool
<1>5. CASE Produce
  <2>1. CASE CanProduce
    <3>1. PICK k \in Connections \ Borrowed : PushBack(k)
      BY <1>5, <2>1 DEF Produce
    <3>2. Idle = {} /\ UNCHANGED <<held, now>>  BY <1>5 DEF Produce, Idle
    <3>3. Idle' = Idle \cup {k}  BY <3>1, <3>2, PushedInOrder
    <3>4. Pool!Total < MaxSize  BY <2>1, TotalIsCnt DEF CanProduce
    <3>5. Pool!Lent = Borrowed  BY DEF Pool!Lent, Borrowed
    <3>6. Pool!Create  BY <3>1, <3>2, <3>3, <3>4, <3>5 DEF Pool!Create
    <3> QED  BY <3>6 DEF Pool!PoolNext
  <2>2. CASE ~CanProduce
    BY <1>1, <1>5, <2>2 DEF Produce, queue, Pool!pool
  <2> QED  BY <2>1, <2>2
<1>6. CASE Scan
  <2>1. PICK n \in 0..Len(connectionQue) :
          /\ Len(connectionQue') = Len(connectionQue) - n
          /\ \A i \in 1..Len(connectionQue') : connectionQue'[i] = connectionQue[i + n]
          /\ connectionCnt' = connectionCnt - n
          /\ n = 0 \/ connectionCnt' >= InitSize
          /\ held' = held
    BY <1>6, Scanned
  <2>2. Len(connectionQue) \in Nat /\ connectionCnt \in Nat  BY DEF TypeOK
  <2>3. CASE n = 0
    <3>1. /\ Len(connectionQue') = Len(connectionQue)
          /\ \A i \in 1..Len(connectionQue) : connectionQue'[i] = connectionQue[i]
      BY <2>1, <2>2, <2>3
    <3>2. Idle' = Idle  BY <3>1 DEF Idle
    <3> QED  BY <2>1, <3>2 DEF Pool!pool
  <2>4. CASE n # 0
    <3> DEFINE dead == Idle \ Idle'
    <3>1. Idle' \subseteq Idle
      <4>1. \A i \in 1..Len(connectionQue') : i + n \in 1..Len(connectionQue)
        BY <2>1, <2>2
      <4> QED  BY <2>1, <4>1 DEF Idle
    <3>2. IsFiniteSet(Idle) /\ Cardinality(Idle) = Len(connectionQue)
      BY IdleCounted
    <3>3. Cardinality(Idle') = Len(connectionQue')
      <4>1. (TypeOK /\ Accounted =>
               IsFiniteSet(Idle) /\ Cardinality(Idle) = Len(connectionQue))'
        BY IdleCounted, PTL
      <4> QED  BY <4>1
    <3>4. Cardinality(dead) = n
      <4>1. Idle \cap Idle' = Idle'  BY <3>1
      <4>2. Cardinality(dead) = Cardinality(Idle) - Cardinality(Idle \cap Idle')
        BY <3>2, FS_Difference, Zenon
      <4>3. Cardinality(dead) = Len(connectionQue) - Len(connectionQue')
        BY <3>2, <3>3, <4>1, <4>2, Zenon
      <4> HIDE DEF dead
      <4> QED  BY <2>1, <2>2, <4>3
    <3>5. Pool!Total - Cardinality(dead) >= InitSize
      BY <2>1, <2>2, <2>4, <3>4, TotalIsCnt
    <3>6. Idle' = Idle \ dead /\ dead \in SUBSET Idle  BY <3>1
    <3>7. \E d \in SUBSET Idle : /\ Pool!Total - Cardinality(d) >= InitSize
                                 /\ Idle' = Idle \ d
      BY <3>5, <3>6
    <3>8. Pool!Destroy  BY <2>1, <3>7, SameCardinality DEF Pool!Destroy
    <3> QED  BY <3>8 DEF Pool!PoolNext
  <2> QED  BY <2>3, <2>4
<1>7. CASE Tick  BY <1>1, <1>7 DEF Tick, queue, Pool!pool
<1>8. CASE SpuriousWakeup  BY <1>1, <1>8 DEF SpuriousWakeup, queue, Pool!pool
<1>9. ASSUME NEW t \in Consumers, GetConnection(t)
      PROVE  Pool!Acquire(t) \/ Same
  BY <1>2, <1>3, <1>9 DEF GetConnection
<1>10. ASSUME NEW t \in Consumers, Notified(t) PROVE Pool!Acquire(t) \/ Same
  <2>1. held[t] = NoConn  BY <1>10 DEF Notified, WaitsWithout
  <2> QED  BY <1>2, <1>3, <1>10, <2>1 DEF Notified
<1>11. ASSUME NEW t \in Consumers, TimedOut(t) PROVE Pool!Acquire(t) \/ Same
  <2>1. held[t] = NoConn  BY <1>11 DEF TimedOut, WaitsWithout
  <2>2. CASE Take(t)  BY <1>2, <1>11, <2>1, <2>2 DEF TimedOut
  <2>3. CASE ~Take(t)  BY <1>1, <1>11, <2>3 DEF TimedOut, queue
  <2> QED  BY <2>2, <2>3
<1>12. ASSUME NEW t \in Consumers, Return(t) PROVE Pool!GiveBack(t)
  BY <1>12, GivenBack DEF Return, Pool!GiveBack
<1>13. ASSUME NEW t \in Consumers, Timeout(t) PROVE Same
  BY <1>1, <1>13 DEF Timeout, queue
<1>14. CASE UNCHANGED vars  BY <1>1, <1>14 DEF vars, queue, Pool!pool
<1> QED
  BY <1>4, <1>5, <1>6, <1>7, <1>8, <1>9, <1>10, <1>11, <1>12, <1>13, <1>14
  DEF Next, Pool!PoolNext, Pool!pool

\* The pool keeps the promises of a ResourcePool: it lends every connection to
\* one thread, deletes idle ones only, never fewer than initSize remain after
\* a deletion, and none is created at maxSize.
THEOREM PoolImplemented == Spec => ImplementsPool
<1>1. Init => Pool!PoolInit  BY PoolInitially
<1>2. PoolInv /\ PoolInv' /\ [Next]_vars => [Pool!PoolNext]_(Pool!pool)
  BY PoolSimulated
<1>3. Spec => []PoolInv  BY PoolInvInitially, PoolInvInductive, PTL DEF Spec
<1> QED  BY <1>1, <1>2, <1>3, PTL DEF Spec, ImplementsPool, Pool!PoolSpec
=============================================================================
