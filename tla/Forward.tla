------------------------------ MODULE Forward ------------------------------
(***************************************************************************)
(* A chat on its way through the cluster: its id (module MessageId), its   *)
(* row, whose primary key the id is, and PUBLISH to the process of the     *)
(* receiver (module RedisContext), for several event-loop threads at once. *)
(*                                                                         *)
(* Here the threads are those of several processes, each at work for some  *)
(* connection: oneChat, or one receiver of groupChat, and login as far as  *)
(* it prepares for messages.  Any statement may fail when MySQL does.  A   *)
(* frame handed to a connection is on its way; queues, ACKs, logouts and   *)
(* crashes are module Delivery's.                                          *)
(***************************************************************************)
EXTENDS MessageId, RedisContext, FiniteSets, Functions

CONSTANTS
    MaxMsgs,    \* bound on the chats
    SyncLimit,  \* rows of one unread query
    MySQLFails  \* may statements fail?

ASSUME ForwardAssumption ==
    /\ MaxMsgs \in Nat /\ Messages = 1..MaxMsgs
    /\ SyncLimit \in Nat /\ MySQLFails \in BOOLEAN
    /\ IsFiniteSet(Threads)
    /\ None \notin Users

VARIABLES
    at,         \* next step of the handler of a thread
    toid,       \* the account the handler is about, or None
    cur,        \* its message: an index of calls, or None
    batch,      \* login: the messages of the unread query
    todo,       \* login: those of them whose rows are still to be marked
    to,         \* the receivers of the messages, in the order of calls
    rows,       \* chat_message: [id, msg, delivered]
    handed,     \* messages whose frame has been given to a connection
    bound,      \* the accounts in _userConnMap of a process
    online      \* the accounts the user table shows online

chatVars == <<to, rows, handed>>
batchVars == <<batch, todo>>
handlerVars == <<at, toid, cur, batchVars>>
loginVars == <<bound, online>>
forwardVars == <<idVars, redisVars, chatVars, handlerVars, loginVars>>

ForwardInit ==
    /\ IdInit /\ RedisInit
    /\ at = [t \in Threads |-> "idle"]
    /\ toid = [t \in Threads |-> None]
    /\ cur = [t \in Threads |-> None]
    /\ batch = [t \in Threads |-> {}]
    /\ todo = [t \in Threads |-> {}]
    /\ to = <<>> /\ rows = {} /\ handed = {}
    /\ bound = [n \in Nodes |-> {}] /\ online = {}

-----------------------------------------------------------------------------
At(t, step) == at[t] = step

Goes(t, step) == at' = [at EXCEPT ![t] = step] /\ UNCHANGED <<toid, cur>>

\* What a statement that changes rows to after leaves there.
Stores(after) == rows' = after \/ (MySQLFails /\ UNCHANGED rows)

\* Variant: the message of the last handler is left behind.
EndsKeepingMessage(t) ==
    /\ at' = [at EXCEPT ![t] = "idle"]
    /\ toid' = [toid EXCEPT ![t] = None]
    /\ UNCHANGED cur

Ends(t) ==
    /\ at' = [at EXCEPT ![t] = "idle"]
    /\ toid' = [toid EXCEPT ![t] = None]
    /\ cur' = [cur EXCEPT ![t] = None]

\* A handler begins, for an account u.
Begins(t, step, u) ==
    /\ At(t, "idle") /\ Constructed(NodeOf[t])
    /\ at' = [at EXCEPT ![t] = step]
    /\ toid' = [toid EXCEPT ![t] = u]
    /\ UNCHANGED cur

\* Threads in the middle of generateMessageId.
Pending == {t \in Threads : now[t] # None}

-----------------------------------------------------------------------------
(* oneChat *)

Chat(t, u) ==
    /\ Len(calls) + Cardinality(Pending) < MaxMsgs
    /\ Begins(t, "id", u)
    /\ ReadClock(t)
    /\ UNCHANGED <<redisVars, chatVars, batchVars, loginVars>>

GenerateMessageId(t) ==
    /\ At(t, "id")
    /\ TakeSeq(t)
    /\ to' = Append(to, toid[t])
    /\ cur' = [cur EXCEPT ![t] = Len(calls) + 1]
    /\ at' = [at EXCEPT ![t] = "insert"]
    /\ UNCHANGED <<redisVars, rows, handed, toid, batchVars, loginVars>>

MessageIdOf(t) == calls[cur[t]].id

NewRow(t) == [id |-> MessageIdOf(t), msg |-> cur[t], delivered |-> FALSE]

IdTaken(t) == \E r \in rows : r.id = MessageIdOf(t)

\* Variant: an INSERT that fails is not noticed.
InsertUnchecked(t) ==
    /\ At(t, "insert")
    /\ IF IdTaken(t) THEN UNCHANGED rows ELSE Stores(rows \cup {NewRow(t)})
    /\ Goes(t, "lookup")
    /\ UNCHANGED <<idVars, redisVars, to, handed, batchVars, loginVars>>

\* The INSERT.  It is refused when there is a row with this id, and may fail in
\* other ways: the chat is dropped.
Insert(t) ==
    /\ At(t, "insert")
    /\ \/ ~IdTaken(t) /\ rows' = rows \cup {NewRow(t)} /\ Goes(t, "lookup")
       \/ (IdTaken(t) \/ MySQLFails) /\ Ends(t) /\ UNCHANGED rows
    /\ UNCHANGED <<idVars, redisVars, to, handed, batchVars, loginVars>>

\* markDelivered, WHERE message_id = id AND receiver_id = u.
Marked(id, u) ==
    {IF r.id = id /\ to[r.msg] = u THEN [r EXCEPT !.delivered = TRUE] ELSE r :
        r \in rows}

\* With _connMutex held, the frame and the mark.
LookupLocal(t) ==
    /\ At(t, "lookup")
    /\ IF toid[t] \in bound[NodeOf[t]]
       THEN /\ handed' = handed \cup {cur[t]}
            /\ Stores(Marked(MessageIdOf(t), toid[t]))
            /\ Ends(t)
       ELSE Goes(t, "state") /\ UNCHANGED <<rows, handed>>
    /\ UNCHANGED <<idVars, redisVars, to, batchVars, loginVars>>

\* A query that fails returns a User that is offline.
QueryState(t) ==
    /\ At(t, "state")
    /\ \/ toid[t] \in online /\ Goes(t, "publish")
       \/ (toid[t] \notin online \/ MySQLFails) /\ Ends(t)
    /\ UNCHANGED <<idVars, redisVars, chatVars, batchVars, loginVars>>

\* Is another thread of the process waiting for its reply?
Busy(t) == \E s \in Threads \ {t} : NodeOf[s] = NodeOf[t] /\ At(s, "reply")

Publish(t) ==
    /\ At(t, "publish")
    /\ IF IsConnected(NodeOf[t])
       THEN SendPublish(NodeOf[t], toid[t], cur[t], Busy(t)) /\ Goes(t, "reply")
       ELSE Ends(t) /\ UNCHANGED redisVars
    /\ UNCHANGED <<idVars, chatVars, batchVars, loginVars>>

\* Whatever publish returns, the handler ends.
PublishReturns(t) ==
    /\ At(t, "reply")
    /\ TakeReply(NodeOf[t]) /\ Ends(t)
    /\ UNCHANGED <<idVars, chatVars, batchVars, loginVars>>

-----------------------------------------------------------------------------
(* login, of an account that is not in use *)

Login(t, u) ==
    /\ u \notin online /\ \A n \in Nodes : u \notin bound[n]
    /\ Begins(t, "subscribe", u)
    /\ bound' = [bound EXCEPT ![NodeOf[t]] = @ \cup {u}]
    /\ UNCHANGED <<idVars, redisVars, chatVars, batchVars, online>>

\* Variant: the SUBSCRIBE is appended to the output buffer and not written.
SubscribeUnwritten(t) ==
    /\ At(t, "subscribe") /\ Goes(t, "online")
    /\ UNCHANGED <<idVars, redisVars, chatVars, batchVars, loginVars>>

Subscribe(t) ==
    /\ At(t, "subscribe")
    /\ SendSubscribe(NodeOf[t], toid[t]) /\ Goes(t, "online")
    /\ UNCHANGED <<idVars, chatVars, batchVars, loginVars>>

Online(t) ==
    /\ At(t, "online") /\ Goes(t, "sync")
    /\ \/ online' = online \cup {toid[t]}
       \/ MySQLFails /\ UNCHANGED online
    /\ UNCHANGED <<idVars, redisVars, chatVars, batchVars, bound>>

\* ORDER BY message_id LIMIT SyncLimit.
FirstRows(S) == {r \in S : Cardinality({q \in S : q.id < r.id}) < SyncLimit}

Unread(u) == {r \in rows : to[r.msg] = u}

\* Variant: every unread row is marked, those beyond the limit included.
QueryUnackedMarksAll(t) ==
    /\ At(t, "sync") /\ Goes(t, "mark")
    /\ batch' = [batch EXCEPT ![t] = {r.msg : r \in FirstRows(Unread(toid[t]))}]
    /\ todo' = [todo EXCEPT ![t] = {r.msg : r \in Unread(toid[t])}]
    /\ UNCHANGED <<idVars, redisVars, chatVars, loginVars>>

\* queryUnacked; one that fails finds nothing.
QueryUnacked(t) ==
    /\ At(t, "sync") /\ Goes(t, "mark")
    /\ \E found \in {FirstRows(Unread(toid[t]))} \cup IF MySQLFails THEN {{}} ELSE {} :
          /\ batch' = [batch EXCEPT ![t] = {r.msg : r \in found}]
          /\ todo' = [todo EXCEPT ![t] = {r.msg : r \in found}]
    /\ UNCHANGED <<idVars, redisVars, chatVars, loginVars>>

\* markDelivered for the messages found, one statement each.
MarkUnacked(t) ==
    /\ At(t, "mark")
    /\ \E m \in todo[t] :
          /\ todo' = [todo EXCEPT ![t] = @ \ {m}]
          /\ Stores(Marked(calls[m].id, toid[t]))
    /\ UNCHANGED <<idVars, redisVars, to, handed, at, toid, cur, batch, loginVars>>

\* The response goes out, with the messages found.
Respond(t) ==
    /\ At(t, "mark") /\ todo[t] = {} /\ Ends(t)
    /\ handed' = handed \cup batch[t]
    /\ batch' = [batch EXCEPT ![t] = {}]
    /\ UNCHANGED <<idVars, redisVars, to, rows, todo, loginVars>>

-----------------------------------------------------------------------------
\* What a torn frame does to the rows of the account it is forwarded to: it
\* carries no id, or that of any message.
MarkedByTorn(u) == {rows} \cup {Marked(r.id, u) : r \in rows}

\* handleRedisSubscribeMessage, with _connMutex held.
HandleRedisSubscribeMessage(n) ==
    /\ NextFrame(n)
    /\ LET frame == Head(inbox[n])
       IN  IF ~handlerSet[n] \/ frame.to \notin bound[n]
           THEN UNCHANGED <<rows, handed>>
           ELSE IF frame.msg = Torn
           THEN rows' \in MarkedByTorn(frame.to) /\ UNCHANGED handed
           ELSE /\ handed' = handed \cup {frame.msg}
                /\ Stores(Marked(calls[frame.msg].id, frame.to))
    /\ UNCHANGED <<idVars, to, handlerVars, loginVars>>

Redis(n) == RedisStep(n) /\ UNCHANGED <<idVars, chatVars, handlerVars, loginVars>>

ForwardNext ==
    \/ \E t \in Threads :
          \/ \E u \in Users : Chat(t, u) \/ Login(t, u)
          \/ GenerateMessageId(t) \/ Insert(t) \/ LookupLocal(t)
          \/ QueryState(t) \/ Publish(t) \/ PublishReturns(t)
          \/ Subscribe(t) \/ Online(t)
          \/ QueryUnacked(t) \/ MarkUnacked(t) \/ Respond(t)
    \/ \E n \in Nodes : HandleRedisSubscribeMessage(n) \/ Redis(n)

ForwardSpec == ForwardInit /\ [][ForwardNext]_forwardVars

-----------------------------------------------------------------------------
Row == [id : Nat, msg : Messages, delivered : BOOLEAN]

SendSteps == {"lookup", "state", "publish", "reply"}
ChatSteps == {"insert"} \cup SendSteps

HandlerTypeOK ==
    /\ at \in [Threads -> {"idle", "id", "subscribe", "online", "sync", "mark"}
                     \cup ChatSteps]
    /\ toid \in [Threads -> Users \cup {None}]
    /\ \A t \in Threads :
          /\ now[t] # None <=> At(t, "id")
          /\ toid[t] = None <=> At(t, "idle")
          /\ IF at[t] \in ChatSteps THEN cur[t] \in DOMAIN calls ELSE cur[t] = None

BatchTypeOK ==
    /\ batch \in [Threads -> SUBSET DOMAIN calls] /\ DOMAIN todo = Threads
    /\ \A t \in Threads :
          /\ todo[t] \subseteq batch[t]
          /\ ~At(t, "mark") => batch[t] = {}

TablesTypeOK ==
    /\ to \in Seq(Users) /\ Len(to) = Len(calls)
    /\ rows \subseteq Row /\ \A r \in rows : r.msg \in DOMAIN calls
    /\ handed \subseteq DOMAIN calls
    /\ bound \in [Nodes -> SUBSET Users] /\ online \subseteq Users

ChatsAreBounded == Len(calls) + Cardinality(Pending) <= MaxMsgs

\* Every variable has its type, and a handler its message.
ForwardTypeOK ==
    /\ IdTypeOK /\ RedisTypeOK /\ HandlerTypeOK /\ BatchTypeOK /\ TablesTypeOK
    /\ ChatsAreBounded

\* Chats that are on their way to a receiver, or with one: given to a connection,
\* published and not yet read by an observer, or in a handler past its INSERT.
Sent ==
    handed \cup {m \in Messages :
        \/ \E n \in Nodes : \E i \in DOMAIN inbox[n] : inbox[n][i].msg = m
        \/ \E t \in Threads : at[t] \in SendSteps /\ cur[t] = m}

\* Persisted first: a chat is on its way, locally or by Redis, only when it has a
\* row of its own, under its own id, from which a later login can send it again.
\* That holds although ids collide, statements fail and frames are torn or lost.
SentIsStored ==
    \A m \in Sent : \E r \in rows : r.msg = m /\ r.id = calls[m].id

\* A connection has been given m, or a login of its receiver has it in hand for
\* its response.
GivenOut(m) ==
    m \in handed \/ \E t \in Threads : m \in batch[t] /\ toid[t] = to[m]

\* A row is delivered only when the frame of this very message has been given to
\* a connection, or is about to be by the login that marks it; not because of
\* another frame with the same id, however ids collide and whatever way the
\* frame took.  (Two threads that tear a frame in the publish context end that.)
DeliveredIsOwn == raced \/ \A r \in rows : r.delivered => GivenOut(r.msg)

SubscribesAt(n, u) ==
    \E t \in Threads : NodeOf[t] = n /\ toid[t] = u /\ At(t, "subscribe")

\* An account whose login is past its subscription has its channel on Redis, or
\* the command is on its way there, unless isConnected is false or the connection
\* is lost and the observer about to find out: a login that could not subscribe
\* is never followed by an isConnected that is true again.  (A command lost in
\* the race with the observer ends that.)
SubscribeOnItsWay ==
    raced \/ \A n \in Nodes : IsConnected(n) /\ linked[n] =>
        \A u \in bound[n] :
            u \in subs[n] \/ u \in Range(pending[n]) \/ SubscribesAt(n, u)
=============================================================================
