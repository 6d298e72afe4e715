# A TLA+ model of the muduo chat cluster

Models, model-checked properties and proofs for the distributed chat server of
this repository: several `ChatServer` processes behind Nginx, one MySQL
database, one Redis server and a command-line client. Paths below are relative
to the repository.

## 1. The system

### Components

| Component | Code | State | Operations | What makes it correct |
|---|---|---|---|---|
| Sessions | `src/server/chatservice.cpp` login, loginout, clientCloseException, reset; `usermodel.cpp` | `user.state` in MySQL, `_userConnMap` of each process, subscriptions of each process | login, logout, close, Ctrl+C | an account is in one place; map, table and subscriptions say where; a dropped client frees its account |
| Reliable messages | `chatservice.cpp` oneChat, groupChat, messageAck, unread sync in login; `messagemodel.cpp`, `offlinemessagemodel.cpp` | `chat_message`, `offlinemessage` | insert, local send, forward, mark, ack, sync | nothing is stranded; a row never goes back; acked means the receiver saw it |
| Redis channels | `src/server/redis/redis.cpp` | two hiredis contexts, `_connected`, the observer thread | connect, publish, subscribe, unsubscribe, observe | a message published for an account reaches the node that has it |
| Server process | `chatserver.cpp`, `src/server/main.cpp` | connections, input buffers, event loops | onConnection, onMessage, signal handler | frames are handled whole, in order, one at a time per connection |
| Client | `src/client/main.cpp` | menu flag, semaphore, `g_currentUser`, friend and group lists; main, read and heartbeat threads | menus, readTaskHandler, ackMessageIfNeeded | each message shown is acked in the right name; a request gets its one answer |
| Accounts, friends, groups | `usermodel.cpp`, `friendmodel.cpp`, `groupmodel.cpp` | `user`, `friend`, `allgroup`, `groupuser` | reg, addFriend, createGroup, addGroup, the lists of login | a registration is told its own id; a created group has its creator; the lists of a login agree with each other |
| Message ids | `generateMessageId` | a counter per process | one id | two ids are equal only where the bit layout says so; a later millisecond gives a greater id |
| Heartbeat | `heartbeatTaskHandler`, `ChatService::heartbeat`, `proxy_timeout` in `config/nginx_tcp.conf` | none but the time | sleep, send, answer | a client in the chat menu is not cut off by Nginx |
| Request parsing | `getInt`, `getLongLong` | none | conversions | no number becomes the id of something else |
| `db.cpp`, benchmark, Nginx, scripts, demos, `json.hpp` | | none of their own | | |

### Interaction

A client's frames reach one process, chosen by Nginx when the connection is
made. muduo dispatches the callbacks of a connection one after the other in its
event-loop thread; callbacks of different connections run in parallel and meet
in `_userConnMap` (under `_connMutex`), in MySQL and in Redis. `login` checks
`user.state`, binds the connection, subscribes the account's channel, writes
`online`, reads unread rows, marks them, and answers. A chat inserts a row,
looks the receiver up in the local map, else looks at `user.state` and
publishes. Each process has an observer thread that takes messages off Redis
and hands them to local connections. The client acks each message id it shows.

### What is hard

* the online check of `login` is a read and a later write, and is the only
  thing that keeps two processes apart;
* a login and a chat to that account each make four accesses to three stores,
  in an order that must leave no gap;
* `send` from another thread is queued, so a frame can outlive the session it
  was meant for;
* the ACK races with `markDelivered`, and a copy delayed in Redis races with a
  new login's sync;
* processes crash, Ctrl+C rewrites the table all processes share, the Redis
  link is never restored, and no caller looks at the result of a MySQL update;
* the two hiredis contexts of a process are used by several threads without a
  lock, and the observer thread is started before its handler is set;
* an id is a clock reading, ten bits of the process and ten of a counter, made
  in two steps that other threads come between;
* the client's three threads share a socket and plain globals, with one
  semaphore for two kinds of answers;
* a group is created in two statements, on tables without foreign keys, and
  "no such user" is a user with id -1.

`PROJECT.json` lists these hazards one by one, with the line where each bites
and the properties that would catch it.

## 2. Modules

| Module | Contents |
|---|---|
| `Session` | login, loginout, clientCloseException, SIGINT, crash, restart, loss of Redis |
| `Delivery` | extends `Session` with messages: chat handlers, ACK, sync, observer, event-loop queues, the client's read thread |
| `Lifecycle` | abstract life of one message: create, deliver, display, ack |
| `FrameQueue` | abstract connection: frames whole, once, in order, until it is cut |
| `Wire` | `sendJsonFrame`, TCP and the loop of `onMessage`, symbol by symbol |
| `Client` | extends `Wire` with the client's main, reader and heartbeat threads, the server as the client sees it, Nginx's timeout |
| `Request` | `getInt` and `getLongLong` with the widths of int and long long |
| `Directory` | extends `Request` with reg, friends, groups and the lists of login |
| `EventLoops` | the constants that place threads on processes |
| `MessageId` | `generateMessageId` |
| `RedisContext` | class `Redis`: constructor, two contexts, the observer thread, links and data races |
| `Forward` | composes `MessageId` and `RedisContext`: a chat from its id over its row to the process of its receiver, and the login that prepares for it |
| `SessionProofs`, `DeliveryProofs`, `LifecycleProofs`, `DirectoryProofs`, `MessageIdProofs`, `ForwardProofs`, `WireProofs` (lemmas about the socket), `ClientProofs` | the theorems |
| `MCSession`, `MCDelivery`, `MCClient`, `MCDirectory`, `MCForward` | constants of the small instances |

Definitions with a comment that begins "Variant:" are not part of the model:
they are the code with a plausible mistake, and serve to show that a property
notices it.

### Session

`userState` is the column, `userConnMap[n]` is `_userConnMap` of process `n`,
`subscribed[n]` the channels it has asked Redis for, `redisUp[n]` is
`isConnected()`, `proc` and `link` the life of processes and connections. A
handler is cut at each access to shared state: `pc[c]` is the place of `c`'s
thread between two accesses and `acct[c]` its local variable. So `login` is
`LoginQuery`, `LoginBind`, `LoginSubscribe`, `LoginOnline`, `LoginReply`;
`loginout` is `LoginOutCheck`, `LoginOutErase`, `Unsubscribe`, `Offline`;
`clientCloseException` is `CloseErase`, `Unsubscribe`, `Offline`.

* A refused login changes only its reply and is not a step. Sending a request
  and its dispatch are one step: what matters is when the handler runs.
* `login` itself never checks that its connection is bound to nothing. What
  keeps a connection to one account is the client, which offers login only from
  its outer menu: that is the guard `session[c] = None` of `LoginQuery`, and
  `OneAccountPerConnection` rests on it.
* `Interrupt` is `resetHandler`: it runs in the main thread, which is also the
  acceptor, so nothing is accepted any more while the event loops still run
  until `Exit`.
* `RedisLost` is either link: with the observer's the subscriptions go, with
  publish's they stay. Nothing reconnects; a restarted process tries once.
* With at most four connections per process each has an event loop of its own
  (`setThreadNum(4)`), which is the most parallel case.

### Delivery

Rows of `chat_message` are message ids `1 .. MaxMsgs`; ids are fresh and grow
with time. `MessageId` and `Forward` say when that holds: ids of different
milliseconds grow (theorem `LaterIsGreater`), and where two are equal the second
INSERT fails and its chat is dropped, as if it had not been sent. `task[c]`
refines the idle part of `pc[c]` for the chat and ACK handlers and the part
between `LoginOnline` and `LoginReply` for the sync. `pending[c]` is what other
threads have queued in `c`'s loop, flushed when the running handler has
returned; `out[c]` is what is on its way to the client; `acks[c]` is what the
client has sent, kept as a set. `sendJson` followed by `markDelivered` in one
critical section is two actions, and `LockFree` makes every other user of
`_connMutex` wait in between. `inbox[n]` is what Redis has passed on to process
`n`, `redisSubs[n]` what Redis is really subscribed to: with `PromptSubscribe`
it follows `subscribed` at once, without it `RedisApply` follows later.

`RedisApply` and `FlushPending` stand for code that is not in the repository
(redis-server and muduo) and are modelled from how this code uses it.

### Lifecycle

`Delivery` implements `Lifecycle` under the mapping `stage <- status`,
`addressee <- receiver`, `displayed <- shown`; every step of a handler, the
observer, the client or a fault is a step of it or a stutter.

### FrameQueue, Wire and Client

A frame is two symbols, its text and the newline, so that `send` can write it in
parts and a read can end inside it. `Lock`, `SendPart` and `Return` are
`sendJsonFrame` under `g_sendMutex`; `Receive` is a read event with any part of
what was written; `TakeLine` is one turn of the loop in `onMessage`. `OnTheWay`
maps the bytes of the socket and of the input buffer, with the rest of the frame
whose thread holds the mutex, to the frames of `FrameQueue`.

`mainAt` and `readerAt` are the places of the main and the reader thread between
two accesses to the globals `rwsem`, `isMainMenuRunning`, `isLoginSuccess` and
`currentUser`. `asked` is the local `id` of
the last login. A login is `ChooseLogin`, in the reader `Recv`, `WriteGlobals`,
`LoginSuccess`, `SemPost`, and `LoginAnswered` after `sem_wait`. The server's end
answers every request in order; its insides are in `Session`, `Delivery` and
`Directory`, and it may refuse a login for reasons of theirs. The
binding is not the connection's own: `BindingTaken` is another connection's login
of the account, which replaces the entry of `_userConnMap` at any moment; modules
`Session` and run `ghost_online` say how that comes about. Chats of others come at
any moment the connection is bound. Time passes in ticks of 15 seconds
(`HeartbeatPeriod` 2, `ProxyTimeout` 4) and only when nothing is on its way
(`Quiet`): threads and machines are fast next to 15 seconds, which is the
assumption a heartbeat of half the timeout rests on. Frames from the server
arrive whole: the client's `recvBuffer` loop is the one of `onMessage`.

### Request and Directory

A field is a number, a string that spells one, or anything else.
`is_number_integer()` holds of unsigned numbers too, so `get<long long>()` wraps
(`AsLongLong`) and the branch for unsigned numbers after it is never reached;
`getInt` then checks the range of int, and `IntOf` is the cast. Widths are
constants.

One action of `Directory` is one SQL statement: `Reg` and `RegReplies`;
`CreateGroup` and `InsertCreator`; `AddGroup`, `AddFriend`; for the lists of a
login `QueryFriends`, `QueryGroups` and one `QueryMembers` for each group; for a
group chat `GroupChat` and `SendToMember`. `groupTable` holds for every group the
account whose handler inserted it, which the table itself does not know. `told`,
`asked`, `early` and `cutShort` are history that no handler reads. Faults:
`fails` (a statement is not executed), `unanswered` (an INSERT is executed and
its success not reported), `crash`.

### MessageId, RedisContext and Forward

`ReadClock` and `TakeSeq` are the two steps of `generateMessageId`; a reading is
any member of `Clock`, since `system_clock` may stand still or be set back.

`ctor` is the place of `ChatService`'s constructor: the two connections, the
flag, the observer thread, and only then `initNotifyHandler`. Handlers wait for
its end, because `instance()` is a function-local static. `pubCtx` and `subCtx`
are the contexts with their `err`, `replies` the answers to PUBLISH nobody has
read yet. Two threads at work in one context are a data race, so its outcomes are
a choice: a command or a reply lost, something torn sent, the connection broken.
`raced` remembers that it has happened. That the process dies of it is the crash
of `Session` and `Delivery`. SUBSCRIBE is sent on the context the observer is
reading, so there every command may race.

`subscribe` only writes: its command is in `pending` until Redis takes it
(`ExecuteSubscribe`), and `subs` is what Redis has executed. The connection may
break (`LoseSubscriber`: `linked`, `pending` and `subs` go) before the process
knows; `isConnected` stays true until the observer's `redisGetReply` fails
(`ObserverFails`) or a write does.

`Forward` has a thread for each handler at work: `Chat`, `GenerateMessageId`,
`Insert`, `LookupLocal`, `QueryState`, `Publish`, `PublishReturns` for a chat;
`Login`, `Subscribe`, `Online`, `QueryUnacked`, `MarkUnacked`, `Respond` for a
login; the observer's `HandleRedisSubscribeMessage`. Here a message is a call of
`generateMessageId`, and its id may be another's too, which is what `Delivery`
cannot say. With `MySQLFails` any statement may fail: the INSERT (the chat is
dropped with a log line), a mark, a query, the write of `online`. `batch` is what
`login` has read and will send, at most `SyncLimit` rows; the rows are marked one
by one, and the response goes out afterwards. ACKs, logouts, queues and crashes
stay in `Delivery`.

## 3. Runs

Two assumptions about the environment appear as constants. `Overlap = FALSE`
says that no two handlers work on one account at the same moment; two clients
that log in together, or one that reconnects faster than the close callback
finishes, break it. `Faults` says what may go wrong: `crash`, `sigint`, `redis`
(link lost, or never there), `mysql` (an update is lost or a query fails).

| Run | Question | Bounds |
|---|---|---|
| `session_any` | Does the map stay one-to-one and free of dead connections whatever happens? | 2 nodes, 2 connections on one, 2 accounts, all faults, overlap |
| `session_serial` | Without overlap, is an account in one place, reachable, not subscribed elsewhere, online only when used, and freed by a drop? | 2 nodes, 3 connections, 2 accounts, `redis` |
| `delivery_paths` | Can a message be stranded, can an ACK overtake its mark, does a row live the life of `Lifecycle`? | 2 nodes, 3 connections (receiver on the sender's node or the other), 2 accounts, 1 message |
| `delivery_guest` | Can an ACK that outlives its session ack another account's message, can a late copy take an acked row back? | 2 nodes, 2 connections, 2 accounts that meet on the receiver's connection, 1 message, `redis` |
| `delivery_faults` | Does the invariant behind the ACKs survive faults, and does a row still live the life of `Lifecycle`? | 1 connection shared by 2 accounts, 1 message, 1 legacy row, slow subscriptions, `crash`, `sigint`, `mysql` |
| `delivery_live` | Is a message for a connected receiver acked in the end? | 2 nodes, 2 accounts, a group, fairness |
| `client` | Has every request its one answer, do client and server ever stand for two accounts, does the heartbeat keep the link, do three threads' frames arrive whole, does every wait end? | 2 accounts, 3 user inputs, 1 chat, ticks of 15 s, a binding taken over, a link that breaks, fairness |
| `directory` | What do the four tables say of each other and of the requests behind them? | 2 connections, int of 3 bits, long long of 5, 5 kinds of fields, 2 accounts and 2 more, 2 groups, 3 requests, all faults |
| `forward` | Is a chat stored before it goes anywhere, what may be marked, when do ids collide, what is `isConnected` worth, can a message meet an observer without its handler? | 2 processes, 3 threads, 1 bit of process id, a counter that goes round at every call, 2 clock readings, 1 account, 2 chats, an unread query of 1 row, MySQL failures, link faults and data races |

Why the bounds are enough: each property relates one account, or one message
with its receiver, to at most two connections, and a race needs two handlers
that meet in one map, one row or one channel. Two connections on one node meet
in the map, one on another node meets them only in MySQL and Redis, and with
two accounts a connection can change hands. `Accounts` says which accounts a
client can log in to (`login` compares id and password). In `delivery_paths`
and `delivery_live` each client has one account (`HomeAccounts`), which is what
makes three connections affordable; in the other runs of `Delivery` one client
changes between two accounts (`GuestAccounts`). `MaxMsgs` bounds rows ever
created, `sent` the deliveries ever asked for, and each connection is accepted
once. Nothing else is bounded there.

In `client`, three inputs are what it takes to leave one account for another
(login, logout, login) or to see a request after a refused one, and one chat, as
a frame of its own or as an unread message in a login response, is what makes
the reader send while main does. A tick is 15 seconds because the periods are 30
and 60; any phase of the heartbeat thread against a login occurs. In `directory`,
`MCValues` holds a field for every way through `getInt`: an int as number and as
string, a long long that is no int and whose low bits are those of another id,
the largest unsigned number, which wraps to -1, and no number. Two handlers meet
in any two statements; three requests make a group, let somebody else join it and
write to it. Logins are not counted. In `forward`, the counter goes round with
every call (`SeqSize = 1`) and both processes have the same low bit of pid, so that
two chats of one millisecond collide whether they are made by one process or by
two; wider counters are left to the theorem, which is for every width. Two threads
of one process race in its contexts, the third is on the other process. Two rows
and a limit of one make the unread query leave a row behind.

`NoStrandedMessage` presumes `MaxMsgs <= SyncLimit`, prompt subscriptions and no
faults. Beyond them it fails, as the code is written: `queryUnacked` stops at
its limit, `login` does not wait for Redis to confirm `SUBSCRIBE`, and a lost
Redis link is not restored. `DeliveredBeforeAcked` presumes that MySQL does not
lose the mark, since no caller looks at the result of `markDelivered`.

`DeliveredIsOwn` and `SubscribeOnItsWay` are claimed until the first data race
in a hiredis context (`raced`). Afterwards they fail: a torn frame may carry
another message's id, and a SUBSCRIBE lost between two threads leaves
`isConnected` true. `SentIsStored` holds whatever the races do.

`ExclusiveAccount` presumes that handlers of one account do not overlap. With
overlapping logins it is false: both pass the online check, the later binding
replaces the earlier one in the map or stands in the map of another process. It is
kept as the part of `SerialInv` the other properties need, and not as a claim about
that race.

Deadlock is checked in `directory`. Elsewhere the system may really stop: once
every connection has been closed, once the client has exited, after the last chat,
or with a thread that waits for a reply it lost in a race.

### Fairness

`SessionFairSpec` and `DeliveryFairness` assume weak fairness of the steps a
server thread takes by itself, of the observer and Redis, and of the client's
read thread, which does nothing but read. That is: the operating system
schedules threads, calls to MySQL and Redis return, and a hang-up is reported.
Nothing is assumed of clients' requests or of faults. Weak fairness is enough
because each thread's step stays enabled until it is taken, but for the wait for
`_connMutex`, which is held for two steps of a thread that is itself scheduled.

`ClientFairness` assumes the same of the client's threads when they can run and
of the server's event loop: weak fairness of main's returns from `sem_wait` and
`sendJsonFrame`, of the reader, of the heartbeat thread, of each thread's
sending, and of the server. The user need not do anything, nobody need chat, no
binding need be taken, and a link need not break. That the server's handlers
return is an assumption here: `Forward` shows the one case in which they do not, a
thread that waits for a reply to PUBLISH that a data race has lost.

### Disagreements between code and documentation

Three runs end in the violation they are meant to show.

* `ghost_online`: `login` reads `state`, binds and writes `online` in separate
  steps. Two logins of one account pass the check together, and when one
  connection is released before the other writes `online`, the account stays
  online with nobody there; every later login gets errno 2, which
  `chatservice.cpp:229` explains as "this account is using".
* `interrupt_other_node`: Ctrl+C on one process sets every online user offline,
  those connected to other processes included; messages to them are no longer
  forwarded although they are connected.
* `legacy_lost`: `login` deletes the legacy rows before the response that
  carries them is sent, and nothing acks them; a client that goes in between
  loses messages that `chatservice.cpp:272` says must not be lost.

More of them are in the models without a run of their own:

* The unread rows are marked delivered (`MarkUnacked`, `chatservice.cpp:263-270`)
  before the response that carries them is sent (`Respond`, line 329), with
  several queries in between. `docs/architecture.md:49-51` gives the opposite
  order, and line 124 says that a delivered row has been given to the receiver's
  connection. It need not have been: `DeliveredIsOwn` says no more than that a
  delivered row was given out or is in the hands of the login that marked it.
* `login` does not wait for Redis to execute SUBSCRIBE. A sender that sees
  `online` may publish before, after the unread query has been made: with
  `PromptSubscribe = FALSE` `NoStrandedMessage` fails, and the message waits for
  the next login although Redis and PUBLISH have worked
  (`docs/architecture.md:41` names only their failure).
* A login that overlaps another of its account, or that follows a SIGINT
  elsewhere, replaces the other's entry at `chatservice.cpp:236`. The first
  client stands in its menu, is rejected by every handler that looks at its
  binding, and gets no messages; `BindingTaken` in `Client` is that event, and
  `ViewsAgree` allows for it.
* A frame queued for a connection may be shown to the account that has logged in
  there since (`AckedWasShown` says that this never acks the row).

What else the models bring to light, without a document that says otherwise: a
missing row is answered with a default `User` of id -1, which the check of login
does not tell from an account, so -1 can become a member (`MembersAreAccounts` has
it as an exception); an account can join a group id that does not exist yet and keeps its
`normal` row when it becomes the creator (`GroupHasItsCreator`, `early`); a
number beyond `LLONG_MAX` wraps to a negative one and is accepted
(`RowsWereAskedFor`); a chat whose INSERT fails, because its id collides or MySQL
does, is dropped with a log line (`Insert`).

## 4. Proofs

The theorems hold for all sets of users, connections, nodes, threads and groups,
every placement of connections and threads, every number of messages and requests,
every synchronisation limit, every width of int, long long and of the parts of an
id, and every set of clock readings (`SessionAssumption`, `DeliveryAssumption`,
`RequestAssumption`, `DirectoryAssumption`, `EventLoopsAssumption`,
`MessageIdAssumption`, `RedisAssumption`, `ForwardAssumption`, `ClientAssumption`;
users are finite in `Delivery`, where the bound `sent` counts receivers). Those of
`Client` hold for all accounts, any number of inputs and chats and every way in
which `send` and `onMessage` cut the bytes up; its three threads are the
program's, and a tick is 15 seconds as in the code's two periods.
`ClientAssumption` adds to this only that `None` is no account, thread or frame:

| Theorem | Statement |
|---|---|
| `BindingInvariant`, `TypeCorrect` | `SessionSpec => []BindingInv`, `[]SessionTypeOK` |
| `OneAccount` | `SessionSpec => []OneAccountPerConnection` |
| `NoDeadEntry` | `SessionSpec => []NoDeadBinding` |
| `SerialInvariant` | `SessionSpec => []SerialInv`, without `Overlap`, faults at most `crash` and `redis` |
| `Reachable`, `NoLeak` | `[]BoundIsReachable`, `[]NoLeakedSubscription`, under the same assumptions |
| `InUse` | `[]AccountInUse`, without `Overlap`, faults at most `redis` |
| `DeliveryRefinesSession` | `DeliverySpec => SessionSpec`: all of the above holds while messages are exchanged |
| `DeliveryTypeCorrect` | `DeliverySpec => []DeliveryTypeOK` |
| `AckInvariant`, `ShownBeforeAcked` | `DeliverySpec => []AckInv`, `[]AckedWasShown`, under every fault |
| `NeverRegresses` | `DeliverySpec => StatusNeverRegresses`, under every fault |
| `MarkedFirst` | `DeliverySpec => DeliveredBeforeAcked`, under every fault but `mysql` |
| `ImplementsLifecycle` | `DeliverySpec => LifecycleSpec`: the refinement, under every fault |
| `NothingStranded` | `DeliverySpec => []NoStrandedMessage`, when `Undisturbed`: no faults, no `Overlap`, prompt subscriptions, `MaxMsgs <= SyncLimit` |
| `LaterIsGreater` | `IdSpec`: an id made in a later millisecond is greater |
| `Collisions`, `ForwardCollisions` | `[]CollisionNeedsWrap` for `IdSpec` and for `ForwardSpec` |
| `HandlerFirst` | `ForwardSpec => []HandlerIsSet`, under every fault and race |
| `ForwardTypeCorrect`, `PersistedFirst` | `ForwardSpec => []ForwardTypeOK`, `[]SentIsStored`, under every fault and race |
| `OnlyGivenIsMarked`, `ConnectedSubscribes` | `[]DeliveredIsOwn`, `[]SubscribeOnItsWay`, under every fault, until the first race |
| `GetIntFaithful` | a number `getInt` accepts as non-negative int is the number sent |
| `DirectoryTypeCorrect` | `Directory`: `[]DirectoryTypeOK` |
| `RegisteredOwn`, `CreatorIsMember`, `OnlyAccounts`, `AskedFor` | `[]RegTellsOwn`, `[]GroupHasItsCreator`, `[]MembersAreAccounts`, `[]RowsWereAskedFor`, under every fault |
| `AudienceHolds`, `OwnGroups` | `[]AudienceAreMembers`, `[]OwnGroupsShowMe`, under every fault |
| `ClientTyped`, `ClientOneAnswerDue`, `ClientViewsAgree`, `ClientKeptAlive` | `ClientSpec` implies `[]ClientTypeOK`, `[]OneAnswerDue`, `[]ViewsAgree`, `[]ChatIsKeptAlive`, whether the link breaks or not and whoever takes the binding |
| `ClientWholeFrames` | `ClientSpec => WholeFrames`: the refinement of `FrameQueue` |

The argument. `OneAccountPerConnection` is not inductive: a login must be known
to start only on a connection that is bound to nothing. `BindingInv` adds what
the code relies on without saying it: an entry of the map points to a connection
of this process whose handler or whose client stands exactly at that account
(`BindingFollowsHandler`, `MapIsLocal`), a running handler has a live connection
until it releases it (`HandlerHasConnection`), and a stopped process has none
(`DownIsEmpty`). That a connection's callbacks are serial is what keeps it
inductive: a close callback in the middle of a login would leave a dead entry,
and the mutant `CloseEraseAnytime` shows TLC finding it.

`SerialInv` adds that the place of a handler determines the account's row and
subscription (`HandlerAgrees`): between the check and the binding the row is
offline, so nobody else can be bound; from the write of `online` on, the row
keeps everybody else out. With `Overlap` the first half is false, and
`ghost_online` shows what follows. `ExclusiveAccount` survives crashes because a
crash leaves the row online, which locks the account rather than sharing it.

From `SerialInv` the others follow with little more. `InUse` needs that no process
has stopped: then an account that is held is given up only by the step that
writes it offline (`ReleaseStep`). `NoLeak` adds `LeakInv`: when the handler comes
to that last step the channel has been unsubscribed, and a stopped process is
subscribed to nothing.

The theorems about `Delivery` rest on one classification, `RowsMove`: whatever
step is taken, `chat_message` is left alone or changed by one of its three
statements (`RowStep`). None of them lowers a status, because the `WHERE` clause
of `markDelivered` leaves acked rows alone and ids are fresh. A row is acked only
by `SetAcked` in the name of the receiver, so `AckedWasShown` needs the account
an ACK names to have been shown the message; `AcksWereShown` carries that fact
from the client's read thread through `acks` to the handler. `HandlerHasMessage`
(a handler past its insert has a message id) is what makes the types inductive.

That an ACK never overtakes the mark is not a fact about one step. `MarkInv`
says where a message may be while its row is unmarked: any frame or ACK about it
(`InTransit`) belongs to a connection of a process in which a thread holds
`_connMutex` and is about to mark that very row (`BeingMarked`), and an ACK
handler past its check is about a marked row. It needs `BatchInv` for the third
way a message takes, the unread sync (what `login` is about to send it has
marked), `WorkExists` (whoever works on a message after the INSERT works on a row
that there is) and `PlaceInv` (the sync runs inside `login`, chats and ACKs do
not). `isConnectionBoundToUser` takes the mutex, so an ACK that gets through finds
nobody between the send and the mark (`NobodyMarks`). The sender's thread marks
the row before it lets go of the mutex, which is why a crash in between does no
harm: it takes with it the queue the frame is in. `MarkInv` holds without MySQL
failures only, and `Lifecycle` allows for the rest by `MarkMayFail`.
`ImplementsLifecycle` then maps each of the statements of `RowsMove` to a step of
`Lifecycle`, with `AcksWereShown` for the acked row and `RowsWhole` (a row that is
not there has no receiver) against an ACK without a row.

`NothingStranded` follows a due message from hand to hand. `NoStrandedMessage` is
not inductive: it lets a frame at the client count although the client might read
it in another name, and an ACK handler although it might work for another account.
`BroughtInv` says who has the message and in whose name (`Brings`): the sender's
thread between INSERT and PUBLISH, an inbox, the queue of the receiver's event
loop, an unread frame that its client will read in the name of the receiver
(`ReadAs`: the last login response before it is the receiver's), the receiver's
`login` before its query of the unread rows or with the row in hand, the ACK frame
and the ACK handler. Three facts make the hand-overs work. When the sender finds no
binding in its own process and no `online` in the table, or Redis knows no
subscriber, then by `SerialInv` the receiver is in the middle of a login that has
its query still to come (`SenderBrings`). A binding that a lookup or an observer
finds is the receiver's own (`FoundIsOwn`, from `ExclusiveAccount`). And what is
written to a client behind everything else it reads in the name of its session
(`NameInv`), since `login` is answered before any later chat is written. That the
query returns all rows is a matter of counting (`AllAreOldest`), and a row is due
from the very step that gives its sender's thread the lookup to do
(`DueFromInsert`).

`Collisions` needs to know that an id is what `Encode` makes of its call and that
the calls of a process are numbered without repetition (`IdInv`); the rest is
arithmetic on a number written with two moduli, split off as lemmas
(`QuotientRemainder`, `EncodeInjective`, `SameRemainder`). `ForwardSpec` is shown to take only steps of
`IdSpec` on the variables of `MessageId`, which gives `ForwardCollisions`.
`HandlerFirst` needs that no handler runs before the constructor is done and that
a process without a handler has no subscription and an empty inbox (`StartInv`).
`PersistedFirst` and `OnlyGivenIsMarked` come from the row invariants: a handler
past its insert, and a frame in an inbox, is about a message that has its own row,
so although ids collide, the row a mark hits is the row of what was handed over;
and the rows `login` marks are those of its batch, which it keeps until the
response. `ConnectedSubscribes` adds that an account is bound only where the
constructor is done, so that no subscription precedes the connection `isConnected`
is about, and that `linked` says when commands and channels are lost: neither
`connected` nor a lost connection ever comes back.

For `Directory`, `Types` says which local variables a handler has at which of its
places; it is inductive because tables of accounts and groups only grow
(`RowsAreKept`). `RegInv` carries a new row's id from the INSERT to the response.
`MemberInv` carries the check of `login` (the account has a row, or is -1) to
the statements that write it. `CreationInv` says that between the two statements
of `createGroup` the handler knows the group and the group its creator, and that
whoever is a member of a group before its creator is has been noted as early;
from it `GroupHasItsCreator` survives every interleaving with `addGroup`.
`AskedFor` rests on `GetIntFaithful`.
`AudienceHolds` and `OwnGroups` rest on `RowsAreKept` too: what a handler has read
of `groupuser` stays true while it works through its list, and the second query of
a login sees at least the row because of which the first returned the group
(`OwnInv`).

`Client` is proved in two layers. `WireProofs` is about bytes: what the holder of
the mutex has still to write, the stream and the server's input buffer, put
together (`Bytes`), are always whole frames (`IsLines`), because whoever gets the
mutex finds no unfinished frame in front of his own (`SenderInv`). `LinesOf` cuts
such bytes into the frames of which they consist (`LinesAreFrames`): it is a
recursive function, and instead of an induction the proof takes the first place
at which the function and the explicit cut (`CutAt`) would differ, which exists
by the least-number principle (`LeastNumber`), and finds that they do not differ
there. Every action then keeps the frames on the way (`Way`), adds one at the end
(a thread gets the mutex) or takes the first (`LineTaken`), which is `FrameQueue`
under the refinement mapping.

`OneAnswerDue` counts where an answer may be; it is not inductive because it says
neither of what kind the answer is nor who made the request. `StageInv` says
that the answer is in exactly one stage (`Stages`: asked, sent, served, coming,
handled, posted) and what each place holds in that stage. An answer in a later
place fits what main asked (`Fits`), and a login's carries the account the server
has bound by then. `ViewsAgree` needs one fact more, which is about order: a
`loginout`, to which nobody answers, can still be on its way when the next login
is asked for; it is ahead of the login's frame (`OnWay`), hence served before it:
what the server does for the connection after that is in the name of the new
account. That another connection may take the binding changes no stage
(`StageOfTaking`). `PlaceInv` ties a thread that is in
`sendJsonFrame` to the place in its code that called it. `ClientKeptAlive` is about two clocks: with
`isMainMenuRunning` set, the time the connection has been silent and the time the
heartbeat thread has slept make at most two ticks together (`ClockInv`), since an
answer has ended the silence just before the menu opens (`Waits`: `idle = 0`) and
each frame of the heartbeat ends it again. The heartbeat thread need not be in
step with the login.

The proofs go action by action; each conjunct that an action disturbs has a
lemma or a step of its own.

Every safety invariant and action property of the passing runs is a theorem or
part of one (`ExclusiveAccount` of `SerialInvariant`). Only model-checked are the liveness properties
(`DroppedClientFreesAccount`, `EventuallyAcked`, `WaitEnds`), which are out of the
prover's reach.

## 5. What is not modelled

* `json.hpp`, a vendored library of 21,045 lines, nine tenths of the code in the
  repository: what the handlers need of it is which numbers it keeps and how it
  converts them (`Request`), and that it throws at a line that is no frame
  (`Parses`).
* `db.cpp`: one MySQL connection for each statement, opened and closed; nothing
  survives a statement. Its failures are the faults `mysql`, `fails` and
  `unanswered`.
* The benchmark, the demonstrations and the scripts, which only use the system,
  and the Nginx configuration but for `proxy_timeout`: which server a connection
  gets is arbitrary in every module.
* The friend and group lists of the client, which only its menu shows. A list that
  is not in a login response, because the account has no rows or the query failed,
  is not cleared (`client/main.cpp:249-267`), so the menu may show that of the
  previous account.
* Menus, command parsing and printing in the client, `getString`, names,
  passwords and texts: no property is about wording. A wrong password is a login
  that is refused.
* Crashes of the client or of a server process from undefined behaviour, such as
  the data race in a context: as a crash of the process only.
* The order of messages within one login response and of ACKs is abstracted to
  sets; no property is about it. The text of messages is a message id.
* Atomicity of the fan-out of a group message: a failing insert leaves some
  members without it. The fan-out with these failures is in `Delivery`; nothing
  promises more.

## 6. Plan

1. `Session`, `Delivery`, `Lifecycle` and their first theorems: done.
2. `Wire`, `Client`, `Request`, `Directory`, `MessageId`, `RedisContext`,
   `Forward` and the theorems above: done.
3. `ClientProofs`, with the refinement of `FrameQueue`: done.
4. `NoStrandedMessage` as a theorem (`NothingStranded`): done.
