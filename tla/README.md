# ChatServer: TLA+ models and proofs

ChatServer is a cluster chat server in C++: clients speak JSON over TCP to one
of several identical server processes behind nginx; the servers share one MySQL
database and one Redis server.  This directory holds a model of the parts whose
correctness depends on the order of events, TLC runs that check them on small
instances, and proofs that hold for every size.

    tlc -config Sessions.cfg MCChatservice        # one of the runs below
    tlapm ChatserviceProofs.tla                   # one of the proof modules

## 1. The system

Paths are relative to the repository.

| Component | State it keeps | Operations | Talks to |
|---|---|---|---|
| Network layer, `src/server/chatserver.cpp` | TCP connections, four I/O threads (muduo) | `onConnection`, `onMessage` | calls `Chatservice` handlers on the connection's I/O thread |
| Business layer, `src/server/chatservice.cpp` | `_userConnectionMap` under `_connMutex` | `login`, `loginout`, `reg`, `oneChat`, `groupChat`, `addfriend`, `createGroup`, `addGroup`, `clientCloseException`, `handleRedisSubscribeMessage`, `reset` | data models, Redis wrapper, connections |
| Data models, `src/server/model/*.cpp` | tables `user`, `offlinemessage`, `friend`, `allgroup`, `groupuser` | one SQL statement each | MySQL, one new connection per statement (`db.cpp`) |
| Redis wrapper, `src/server/redis/redis.cpp` | a publish and a subscribe context | `publish` (waits for the reply), `subscribe`, `unsubscribe` (only write), `observer_channel_message` (own thread) | Redis; calls `handleRedisSubscribeMessage` |
| Server process, `src/server/main.cpp` | - | Ctrl-C: `resetHandler` sets every user offline and exits | business layer |
| Connection pool, `src/server/connectionpool/` | queue of idle connections, counter, mutex, condition variable | `getConnection`, return by deleter, producer thread, scanner thread | MySQL. Linked into the server, not called by the models yet |
| Client, `src/client/main.cpp` | the current user, friend and group lists, the flag `g_isLoginSuccess`, a semaphore | menus on the main thread, `readTaskHandler` on a second thread | a server, over one TCP connection |

Handlers of one connection run one after the other on that connection's thread;
handlers of different connections, the Redis thread and the signal handler
interleave.  Every SQL statement and Redis command is a point where others run.

Hard behaviours, and what makes each component correct:

* **Sessions.**  "User u is logged in" is written in three places that no
  transaction covers: the map of a server, the `state` column, and a Redis
  subscription.  Login writes map, Redis, table; logout and close erase in the
  same order, logout finding its entry by user and close by connection.
  Correct: at most one session per user; the three places agree whenever no
  handler is under way; no trace of a session stays behind.
* **Messages.**  A chat message takes one of three ways (local map, Redis,
  `offlinemessage`), chosen from state that may be stale when it is acted upon.
  Correct: only addressees receive it, nobody twice, and it is not lost.
* **Failures.**  A server may crash, or be stopped with Ctrl-C while the other
  threads of the process go on and other servers have users online.  A SQL
  statement may fail, or the connections to Redis break, and the code goes on
  as if neither had happened.
* **The wire.**  TCP keeps the order of messages, not their limits, and neither
  end looks for them: what one read returns is parsed as one JSON text.
  Correct: client and server agree on who is logged in on the connection.
* **The client's threads.**  Main sends a request and waits for a semaphore that
  the reading thread posts.  Correct: one post per wait, none astray, and the
  wait ends.
* **Groups.**  A group and its creator are two statements; others create groups
  in between.
* **Progress.**  `groupChat` holds the mutex over SQL statements and a PUBLISH;
  everything that looks up a connection waits for it.
* **The pool.**  Producer, scanner and borrowers share a queue; the condition
  variable is notified by some of those who change it and not by others.
  Correct: each connection in one place, the counter right, the size in bounds,
  the scanner touching idle connections only.

`PROJECT.json` lists these hazards one by one, each at its line.

## 2. Modules

| Module | What it is |
|---|---|
| `Chatservice` | business layer, Redis, tables, connections, failures and process exit, for any number of servers, connections, users and messages |
| `SessionRegistry` | the abstract registry of sessions that `Chatservice` implements |
| `MCChatservice` | small topologies for TLC |
| `ChatserviceProofs` | proofs about `Chatservice`: map, messages, the session lock |
| `SessionProofs` | proofs about `Chatservice`: the three stores of a session, and the refinement of `SessionRegistry` |
| `DeliveryProofs` | proofs about `Chatservice`: where a chat message can be lost, and that one server never doubles it |
| `Accounts` | the tables behind registration, friends and groups |
| `Client` | the client, the connection and the server's end of it; extends `Accounts` |
| `ClientProofs` | proofs about `Client`: the two threads, who is logged in, map entries, creators of groups |
| `ConnectionPool` | the pool with its two threads and its borrowers |
| `ResourcePool` | the abstract pool that `ConnectionPool` implements |
| `MCConnectionPool` | symmetry for TLC |
| `ConnectionPoolProofs` | proofs about `ConnectionPool`, including the refinement |

The definitions under the heading "Plausible mistakes" of a module are not part
of it: each is a wrong version of one of its definitions, and the entry under
`mutants` in `PROJECT.json` names the property that notices it.

### Chatservice

*Granularity.*  One action is what a handler does between two points where
another thread can interfere: one SQL statement, one Redis command, or one hold
of `_connMutex`.  `pc`, `uid`, `msg`, `ids` and `vec` are the program counter
and the locals of the handler a connection is running.

| State | Code |
|---|---|
| `userConnectionMap`, `connMutex` | the members of `Chatservice`; `connMutex` is a variable only because `groupChat` keeps it over several steps |
| `userState`, `offlineMessage` | column `state` of `user`; the rows of `offlinemessage` as a bag per user |
| `subscribed`, `subCmds`, `channel` | what Redis knows; commands in the subscribe socket (SUBSCRIBE and UNSUBSCRIBE are written and nobody waits); messages published to a server and not yet read |
| `link` | whether a server's two connections to Redis still work |
| `connState` | `new`, `open`, `gone` (client has left, server does not know), `closing`, `closed` |
| `session`, `unanswered` | the user a connection was last acknowledged for; whether an answer to a login went to a client that had gone |
| `life` | `up`, `sigint` (inside `resetHandler`), `down` |
| `failures` | how many servers have stopped, links been lost and updates failed |

| Actions | Code |
|---|---|
| `Login` `Register` `Subscribe` `SetOnline` `QueryOffline` `RemoveRead` `LoginAck` | `login`, in this order |
| `OneChat` `ChatQuery` `ChatPublish` `ChatStore` | `oneChat` |
| `GroupChat` `GroupLock` `GroupPush` `GroupQuery` `GroupPublish` `GroupStore` `GroupUnlock` | `groupChat` |
| `Loginout`, then `Unsubscribe` `SetOffline` | `loginout` |
| `CloseConn`, then `Unsubscribe` `SetOffline` | `onConnection` with a closed connection, `clientCloseException` |
| `RedisExec` `HandleRedisSubscribeMessage` | Redis; the subscribe thread and its callback |
| `RedisLost` | the connections to Redis break: the observer thread ends, commands and PUBLISH have no effect, nobody connects again |
| `ResetHandler` `Exit` `Restart` | Ctrl-C, process exit or crash, start of the process |
| `Accept` `PeerClose` | clients |

Clients behave as `src/client/main.cpp` does: one login at a time, commands
only after `LOGIN_MSG_ACK`, `session` as the sender's id.  A request sent just
before the client leaves is still handled.

*Failing statements.*  With `"sql"` in `Faults` every statement may fail, and
what it returns is what the data models make of that: an update changes nothing
(`UpdateFails`, counted in `failures`), a query of a user gives the default
`User`, whose state is "offline", other queries give nothing.

*Abstractions.*  A refused login (unknown user, wrong password, already online)
changes nothing and is one step.  Names, texts and the JSON form are left out.
The friend and group queries of a login only read and are left out here.
`PUBLISH` is one step in which Redis copies the message to every server that is
subscribed at that moment, because `publish` waits for the reply.

### SessionRegistry

A user is in use on at most one connection; a session begins when nobody uses
the user, ends, or is lost with its server.  `HeldSessions` in `Chatservice` maps
to it: a connection holds a user from the step of `login` that passes the check
for a duplicate to the last step of `loginout` or of the close.  Under the map a
successful `Login` is `Begin`, `SetOffline` is `End`, `Exit` is `Stop`, and every
other step is a stutter.

### Accounts and Client

`Accounts` has the tables `user`, `friend`, `allgroup` and `groupuser` and one
operator per method of `UserModel`, `FriendModel` and `GroupModel` that `reg`,
`addfriend`, `createGroup` and the queries of `login` call.  A failed statement
changes nothing.  `NewId` is AUTO_INCREMENT, and `mysql_insert_id` gives each
caller the id of its own insert.

`Client` puts one client, the connection and the server's end of it together.

| State | Code |
|---|---|
| `main` | main thread: `menu` (the first menu), `login` (choice 1, before the send), `waitLogin` `waitReg` (in `sem_wait`), `chat` (`mainMenu`), `gone` |
| `g_currentUser`, `lists`, `g_isLoginSuccess`, `rwsem` | the globals of the same names; `lists` says whose friends and groups `g_currentUserFriendList` and `g_currentUserGroupList` hold |
| `reader`, `answer` | the reading thread: in `recv`, in `doLoginResponse`, or before `sem_post` |
| `toServer`, `toClient` | the two directions of the TCP connection |
| `alive`, `conn`, `entries`, `handler`, `id`, `gid` | the server: the process, its end of the connection, the users whose map entry is this connection, and the handler with its locals |
| `ignored` | kinds of requests the server has dropped; no code reads it |

| Actions | Code |
|---|---|
| `ResetLogin` `SendLogin` `SendReg` `Wake` | `main`, choices 1 and 2 |
| `Commands` `Loginout` `Quit` | `mainMenu` and its command handlers, choice 3 |
| `Recv` `DoLoginResponse` `Post` `RecvFails` | `readTaskHandler` |
| `Read`, `Throws` | `onMessage` |
| `HandleLogin` `LoginAck` `HandleReg` `HandleChat` `HandleAddFriend` `HandleCreateGroup` `AddCreator` `HandleLoginout` `HandleClose` | the handlers of `Chatservice` |
| `Push` | another handler of the server sends a message to a user that is logged in here |
| `OtherCreatesGroup` | `createGroup` on another connection |
| `ServerExit` | any other end of the process |

*The wire.*  A request ends in a NUL byte, which the client sends along, and the
server parses up to the first one.  So a read that returns several requests
(`"merge"` in `Wire`) handles the first and ignores the others (`Read`), and one
that returns part of a request (`"split"`) throws, now or, when a part is left
over (`Rest`), at the next read; nobody catches it and the process ends
(`Throws`).  Answers carry no NUL, so on the client's side two answers in one
read, or part of one, throw as well (`RecvFails`).

*Abstractions.*  `"CHAT"` stands for `ONE_CHAT_MSG` and `GROUP_CHAT_MAG`, whose
handlers are the subject of `Chatservice`; nothing comes back on this
connection.  The login handler has two steps, the map entry and the answer, so
that a message may be pushed between them.  Whether a login is refused is left
open: other connections decide it.  A process that has stopped is not started
again, for this connection is lost with it.

### ConnectionPool

One action is one hold of `_queueMutex`: from taking it (or taking it again
after a wait) to the next wait or unlock.  A thread in `cv.wait_for` is
`"wait"`; `notify_all`, a spurious wakeup and the timeout move it to
`"notified"` or `"timeout"`, from where it competes for the mutex.  The producer
goes round its loop while the queue is empty, also when it may create nothing.
`Scan` is one whole pass.  The one place with undefined behaviour, `front()` on
an empty queue, has two outcomes: the stale slot looks young and the loop ends,
or `undefined` is set and nothing more is said about the program.  Without a
readable `mysql.ini` neither thread is started (`producer = "none"`).

## 3. Runs

Every definition of a property carries a comment that says what it means.

| Run | Instance | Question and answer |
|---|---|---|
| `Sessions` | 2 servers, 3 connections, 2 users, no messages, a crash or a lost Redis | Do map, table and Redis stay consistent while logins of one user do not overlap? Yes: one session per user (`SessionExclusive`), an acknowledged session is in all three places (`EstablishedReachable`; in two when Redis is lost), an ended one in none (`NoGhostSession`), a user shown online is held by a connection until a server stops (`OnlineIsHeld`), and together they implement the registry (`ImplementsRegistry`). |
| `Messages` | 2 servers, 2 connections, 2 users, a chat message, overlapping logins, one failure of any of the four kinds | Only addressees get messages (`NoMisdelivery`); a chat message is lost only in the five ways `LostOnlyInRaces` names; map entries are never stale (`MapSound`), also with failing statements. |
| `OneServer` | 1 server, 2 connections, 1 chat and 1 group message, Redis may be lost, fairness | No chat message is delivered twice (`AtMostOnce`); every handler returns although the mutex is held over queries (`HandlersFinish`); departed clients are cleaned up (`GoneIsClosed`); stored messages reach the login that looks for them (`StoredReachesLogin`); messages come to rest (`MessagesSettle`). |
| `Overlap` | 1 server, 2 connections, a group message, overlapping logins, Ctrl-C or a lost Redis | With the lock of sessions broken, two connections of one user on one server and a sender whose entry is gone, `MapSound` and `NoMisdelivery` still hold. |
| `Client` | one client, 5 requests, 1 pushed message, 2 users, 2 groups, merged and split reads, failing statements, fairness | Post and wait fit (`AnswerAwaited`); the wait ends unless the request was ignored (`AnswerComes`); whoever is in the main menu is who the server thinks (`SpeaksForUser`); the server gets the requests `Chatservice` assumes, and a close leaves no entry behind, unless it has ignored a logout (`RequestsFit`, `ClosedLeavesNothing`); every group has exactly its creator, unless the statement failed or the server stopped (`GroupHasItsCreator`). |
| `Pool` | 3 threads, sizes 1 to 3 | `Accounted`, `OldestFirst`, refinement of `ResourcePool` (`ImplementsPool`), and only the scanner can strand the producer (`OnlyScanStrandsProducer`). |

Six runs show that the code does not do what a comment in it says (`findings`
in `PROJECT.json` quotes each):

| Run | What happens |
|---|---|
| `DuplicateLogin` | two simultaneous logins of one user both pass the check for a duplicate |
| `UnreadRemoved` | a message stored between a login's query and its delete is deleted unread |
| `PublishDropped` | a message is published to nobody because the `state` column is ahead of, or behind, the subscription |
| `GroupList` | the recipients of a group message are the sender alone: the SQL selects `userid = sender` |
| `StaleLists` | the client shows the friends of the user before to a user who has none |
| `ScanEmpty` | with every connection borrowed the scanner calls `front()` on an empty queue |

**Bounds and why they are enough.**  Two users: sender and recipient, or two
owners of one connection in turn.  Two connections make every pair of handlers
overlap; the third in `Sessions` lets a user's next login meet the close of an
old session while another user is active.  Two servers are needed for Redis and
suffice because a message goes to one channel.  `PipeCap = 1` lets a command
wait in a subscribe socket, so Redis can lag behind and a writer can block.
`MaxFailures = 1` bounds stops, losses of Redis and failed updates to one, which
can happen at any point; failing queries are not counted.  Each connection lives
once and each message is sent once; a connection can log in and out any number
of times.  `MaxSent = 5` in `Client` is enough to register, log in, send a
message, have the logout ignored and log in as somebody else; `StaleLists` needs
one more for its friend.  In the pool, `MaxTime = 3` with `MaxIdleTime = 1`
gives stamps of three different ages, and three threads can hold everything
that `MaxSize = 3` allows.

**Fairness.**  In `OneServer` the threads of a server and Redis keep running:
weak fairness for Redis and its reading thread, strong fairness for what the
I/O thread of a connection does by itself (`ThreadStep`), which may wait for
`_connMutex` or for room in the subscribe socket.  Both become free again and
again; the mutex and the kernel let every waiter through in the end.  In
`Client` weak fairness is enough for the main thread's return from `sem_wait`,
for `readTask` and for the server, since none of them competes for anything.
Clients and users at the keyboard owe nothing: no fairness on logins, messages,
logouts or departures.  The runs without liveness use `Spec`.

**Deadlock.**  `CHECK_DEADLOCK FALSE` in every run: a finite set of connections
or requests is used up, after which the system rightly rests, and the pool has
no steps after undefined behaviour.  That nothing stops too early is what the
liveness properties of `OneServer` and `Client` say.

## 4. Proofs

`ChatserviceProofs` builds one inductive invariant in layers; each layer was
first checked by TLC as an invariant, then proved with one step per action.

| Layer | Adds | Yields |
|---|---|---|
| `TypeInv` | types, and the locals a handler has at each step (`LocalsOK`) | `TypeCorrect` |
| `MapInv` | `HandlerOK`: which connection states allow which steps; `MapSound` | `MapAlwaysSound` |
| `AddressInv` | whatever carries a message (a handler, a channel, a table row, the rows a login has read) belongs to an addressee | `NeverMisdelivered` |
| `LockInv` | `SessionExclusive`; `HeldIsOnline`: from `setOnline` to `setOffline` the column shows a held user online, so no other login passes the check | `SessionsExclude` |
| `RegisteredInv` | a held user has its entry, from `register` to logout or close | - |
| `SessionInv` | online users are held until a server has stopped | `OnlineUsersAreHeld` |
| `WillInv` (in `SessionProofs`) | `Subscribing`: on a server that has not lost Redis, a holder that has written SUBSCRIBE and not UNSUBSCRIBE will be subscribed; `SubscriptionHeld`: who will be subscribed is held there; `Unlinked`: without Redis nothing is subscribed or on its way | `EstablishedIsReachable`, `NoGhostRemains` |

`RegistryImplemented` rests on `RegisteredInv`: one lemma for each kind of step
(`StepBegin`, `StepEnd`, `StepStop`, `StepSame`), and `SessionExclusive` gives the
guard of `Begin`.

Why the layers are needed: `MapSound` alone is not inductive, because a close
erases one entry and only `HandlerOK` shows there was no second one;
`SessionExclusive` alone is not, because a second login is stopped by the
column, not by the first holder, so the column must be tied to the holder.
`WillInv` rests on `SessionExclusive` in turn: if two connections could stand
for one user at a server, the UNSUBSCRIBE of one would undo the SUBSCRIBE of the
other.  What Redis will know is decided by the last command on its way
(`WillBeSubscribed`); `Decides` restates that for a sequence, and the lemmas
`AppendDecides` and `TailDecides` say what writing and executing a command do to
it, so the steps of the protocol need no reasoning about sequences.

Assumptions.  `ConstAssumption` gives the constants their types.  Some theorems
need more: `SessionsExclude`, `OnlineUsersAreHeld`, `EstablishedIsReachable`,
`NoGhostRemains` and `RegistryImplemented` that logins of one user do not
overlap, nobody presses Ctrl-C and no statement fails (`LoginsOneByOne`).
`DuplicateLogin` shows that the first is necessary; Ctrl-C sets users of other
servers offline, and a failed `updateState` leaves one offline, with the same
effect.  Crashes and the loss of Redis are allowed: what they spoil is said in
the properties themselves (`failures = 0`, `link`).  `TypeCorrect`,
`MapAlwaysSound` and `NeverMisdelivered` need nothing, so they hold under every
fault of the model.

`ConnectionPoolProofs` proves, for any number of threads and connections and
any configuration, `PoolTypeCorrect`, `ConnectionsAccounted`,
`QueueOldestFirst`, `StrandedByScanOnly` and `PoolImplemented`.  The invariant
`PoolInv` adds to the properties that a waiting thread holds no connection and
that no stamp lies in the future.  Distinctness and order need each other: a
return stamps a connection, which keeps the queue ordered only because that
connection is not in it.  The refinement maps the queue to the set of its
elements; a pass of the scanner is one `Destroy` of several resources.

`DeliveryProofs` continues `ChatserviceProofs`.

* `LossesAreRaces` is the action property `LostOnlyInRaces`, for every topology and
  under every fault of the model.  Its invariant `CarryInv` adds to `AddressInv`
  that a handler carries a message only while it delivers it (`MsgOK`), so a new
  request overwrites none.  `LostSomewhere` says that a message that disappears
  has left one of its five places; one lemma per handler then shows that it is
  in another place afterwards, or that the step is one of the five disjuncts of
  `Race`.  `AddressInv` is needed too: a login that removes rows removes those of
  its own user, and before `queryOffline` it has read nothing that reading could
  overwrite.
* `NothingTwice` is `AtMostOnce`.  `Copies` is the set of places of a message, and
  the property says that this set has one element at most.  The inductive
  invariant `CopyInv` adds to `LockInv` and `CarryInv` that a message not yet sent
  is nowhere (`CopyOK`), which is why sending makes the first copy and no second,
  and that the rows a login has read and is about to remove are still there
  (`VecKept`).  Every step does one of four things to the copies, each with its own
  lemma: it leaves them or takes them away (`CopiesStay`), takes the one from its
  place and leaves one elsewhere (`CopyMoves`), makes the first (`CopyAppears`), or
  moves up what waits in a channel (`CopiesShift`).

  Beyond `LoginsOneByOne` it assumes one server (`OneServer`), which section 5
  shows necessary.  `LoginsOneByOne` is needed because `VecKept` rests on
  `SessionExclusive` (two logins of a user would both read its rows) and because a
  failed `remove` leaves a row that has been read.  Crashes, restarts and a lost
  Redis are allowed.

`ClientProofs` proves all safety properties of `Client` from `WireAssumption` and
`AccountsAssumption` (types of constants), for any number of users, groups and
messages, whatever a read returns, whatever statement fails and whenever the
process ends.

| Layer | Adds | Yields |
|---|---|---|
| `StageInv` | types (`TypeOK`, `LocalsOK`); `QueueOK`: what waits for an answer is the last request on the wire, a logout the last command; `StageOK`: while main waits, the answer is in one of five stages (request, handler, answer, `doLoginResponse`, posted), and in none otherwise | `OneAnswerPerWait` |
| `UserInv` | `FlagOK`, `UserOK`: at every stage of a successful login the client's user, the answer and the map entry are the same user | `ClientSpeaksForItsUser` |
| `EntryInv` | `EntryOK`: unless a logout was ignored the connection has one entry at most, and which one is known from where the login or logout is | `ClientTypes`, `ServerGetsFittingRequests`, `CloseFindsItsEntry` |
| `GroupInv` | `GroupOK`: `NewId` was used by nobody, so the group of a running `createGroup` has no creator yet | `GroupsHaveOneCreator` |

`AnswerAwaited` is far from inductive: it counts what is pending and says nothing of
where it is, nor of the order of requests behind each other on the wire.  The
stages replace the count, and `SpeaksForUser` needs them because the answer, the
flag and the map entry are set in different stages by three threads.

Model-checked only: liveness (`HandlersFinish`, `GoneIsClosed`,
`StoredReachesLogin`, `MessagesSettle`, `AnswerComes`), which is out of the prover's
reach, as are `ENABLED` and what recursive definitions compute.  Every safety
property of a passing run is proved.

## 5. Known limits of the properties

* `AtMostOnce` is checked and proved for one server.  Over two it fails: while the
  UNSUBSCRIBE of an old session is under way two servers are subscribed to a
  user, one delivers and the other stores.  No comment promises otherwise.
* A crash leaves its users online, so they cannot log in until somebody presses
  Ctrl-C on a server, and a lost Redis leaves servers without messages until
  they are started again.
* `Chatservice` takes its clients to be as `RequestsFit` describes them.  When
  a server ignores a logout that arrived in one read with the message before
  it, the next login finds the connection with an entry already; `Client` has
  that behaviour, `Chatservice` does not.
* A command can end the server for everybody on it: `addgroup` sends an
  `ADD_FRIEND_MSG` without "friendid", and `addfriend` reads it (`Throws`).  A
  `groupchat` without its second colon ends the client (`Quit`).  Both are in
  the model; nothing in the repository says they may not happen.
* The pool model has no durations: it cannot show that a producer at
  `maxSize`, which notifies in a loop, keeps restarting the timeout of a waiting
  thread, nor that a return without notification costs a waiting thread its
  timeout.

## 6. Not modelled, and the plan

Done, in this order: `Chatservice` with its proofs; `ConnectionPool` with the
refinement of `ResourcePool` and its proofs; failing statements and a lost Redis
in `Chatservice`; `SessionRegistry` and the proof that `Chatservice` implements
it; `Accounts` and `Client`; the proofs about `Client`, and about the copies of a
message.  Next:

1. An abstract specification of the delivery of one message that `Chatservice`
   implements on one server.
2. What the liveness properties rest on and a prover can show: that a handler
   that holds the mutex can always take a step.

Not modelled:

* `Chatservice::addGroup`: no client of the repository sends its request, so no
  behaviour of the system reaches it.
* What two threads do to one hiredis context at the same time
  (`redis.cpp:53`, `:68`).  It is a data race inside a library whose source is
  not here; the outcomes include a corrupted buffer, after which nothing could
  be said about any command.
* The JSON library in `thirdparty/`.  It is vendored, by far the largest part
  of the source tree, and has no state between calls; the models have what its
  exceptions do.
* MySQL, Redis and nginx themselves, which are external and modelled by how
  they are used (nginx is a constant map from connections to servers).
* The parsing of `mysql.ini`, the set-up and closing of a MySQL connection in
  `db.cpp`, generated build files, and the texts of menus.
