------------------------------ MODULE Delivery ------------------------------
(***************************************************************************)
(* Reliable messages on top of the sessions of module Session: oneChat,    *)
(* groupChat, messageAck, handleRedisSubscribeMessage and the unread sync  *)
(* of login (chatservice.cpp), the table chat_message (messagemodel.cpp),  *)
(* the legacy table offlinemessage (offlinemessagemodel.cpp), the Redis    *)
(* channels that join the nodes (redis.cpp) and the part of the client     *)
(* (client/main.cpp) that shows and acknowledges messages.                 *)
(*                                                                         *)
(* As in Session, an action is one access to shared state: one statement   *)
(* sent to MySQL, one command sent to Redis, one critical section of       *)
(* _connMutex.  The one section that spans two statements, sendJson        *)
(* followed by markDelivered, is two actions; LockFree says that no thread *)
(* of the node is between them.                                            *)
(***************************************************************************)
EXTENDS Session, Integers, Sequences, FiniteSets

CONSTANTS
    MaxMsgs,          \* bound: rows of chat_message ever created
    SyncLimit,        \* MessageModel::queryUnacked's limit (1000)
    Groups,           \* the member sets of the groups
    Legacy,           \* rows of the old table offlinemessage
    LegacyOwner,      \* their userid
    PromptSubscribe   \* does Redis execute a SUBSCRIBE or UNSUBSCRIBE before
                      \* the thread that sent it goes on?

Msgs == 1 .. MaxMsgs
NoMsg == 0

ASSUME DeliveryAssumption ==
    /\ IsFiniteSet(Users)
    /\ MaxMsgs \in Nat \ {0}
    /\ SyncLimit \in Nat \ {0}
    /\ Groups \subseteq SUBSET Users
    /\ LegacyOwner \in [Legacy -> Users]
    /\ Legacy \cap Msgs = {}
    /\ PromptSubscribe \in BOOLEAN

\* MessageStatus; Absent stands for "no such row".
Absent == -1
CREATED == 0
DELIVERED == 1
ACKED == 2

VARIABLES
    status,          \* column status of chat_message, per message id
    receiver,        \* column receiver_id
    offlinemessage,  \* the rows left in the legacy table
    redisSubs,       \* the channels Redis really delivers to a node
    inbox,           \* messages on their way from Redis to a node
    obs,             \* the message whose delivery the observer is recording
    task,            \* next step of the handler of a connection, inside the
                     \* steps of Session
    todo,            \* receivers a chat handler still has to serve; the user
                     \* an ACK handler works for
    cur,             \* the message id that handler is at
    marks,           \* unread messages login has still to mark delivered
    batch,           \* the offlinemsg field of the login response
    pending,         \* frames other threads have queued in c's event loop
    out,             \* frames sent on c the client has not read
    acks,            \* ACK frames the client has sent: <<user, message>>
    curUser,         \* g_currentUser of the client at the other end
    shown,           \* what clients have displayed: <<user, message>>
    sent             \* bound: deliveries asked for so far

deliveryVars == <<status, receiver, offlinemessage, redisSubs, inbox, obs,
                  task, todo, cur, marks, batch, pending, out, acks, curUser,
                  shown, sent>>

allVars == <<sessionVars, deliveryVars>>

Tasks == {"none", "insert", "lookup", "mark", "state", "publish", "ack",
          "sync", "syncmark", "legacy", "remove", "reply"}

\* A frame to a client: to = None for a chat message, the account for the
\* response to a successful login, which carries the unread messages.
Frame == [to : Users \cup {None}, msgs : SUBSET (Msgs \cup Legacy)]

DeliveryTypeOK ==
    /\ SessionTypeOK
    /\ status \in [Msgs -> {Absent, CREATED, DELIVERED, ACKED}]
    /\ receiver \in [Msgs -> Users \cup {None}]
    /\ offlinemessage \in SUBSET Legacy
    /\ redisSubs \in [Nodes -> SUBSET Users]
    /\ inbox \in [Nodes -> Seq(Msgs)]
    /\ obs \in [Nodes -> Msgs \cup {NoMsg}]
    /\ task \in [Conns -> Tasks]
    /\ todo \in [Conns -> SUBSET Users]
    /\ cur \in [Conns -> Msgs \cup {NoMsg}]
    /\ marks \in [Conns -> SUBSET Msgs]
    /\ batch \in [Conns -> SUBSET (Msgs \cup Legacy)]
    /\ pending \in [Conns -> Seq(Frame)]
    /\ out \in [Conns -> Seq(Frame)]
    /\ acks \in [Conns -> SUBSET ((Users \cup {None}) \X Msgs)]
    /\ curUser \in [Conns -> Users \cup {None}]
    /\ shown \in SUBSET ((Users \cup {None}) \X (Msgs \cup Legacy))
    /\ sent \in Nat

DeliveryInit ==
    /\ SessionInit
    /\ status = [m \in Msgs |-> Absent]
    /\ receiver = [m \in Msgs |-> None]
    /\ offlinemessage = Legacy
    /\ redisSubs = [n \in Nodes |-> {}]
    /\ inbox = [n \in Nodes |-> <<>>]
    /\ obs = [n \in Nodes |-> NoMsg]
    /\ task = [c \in Conns |-> "none"]
    /\ todo = [c \in Conns |-> {}]
    /\ cur = [c \in Conns |-> NoMsg]
    /\ marks = [c \in Conns |-> {}]
    /\ batch = [c \in Conns |-> {}]
    /\ pending = [c \in Conns |-> <<>>]
    /\ out = [c \in Conns |-> <<>>]
    /\ acks = [c \in Conns |-> {}]
    /\ curUser = [c \in Conns |-> None]
    /\ shown = {}
    /\ sent = 0

-----------------------------------------------------------------------------
(***************************************************************************)
(* The table chat_message.                                                 *)
(***************************************************************************)

\* queryUnacked: the oldest rows of the receiver that are not acked.
Unacked(u) == {m \in Msgs : receiver[m] = u /\ status[m] \in {CREATED, DELIVERED}}

Oldest(S, k) == {m \in S : Cardinality({x \in S : x < m}) < k}

\* Variants of the statements below that lose part of their WHERE clause.
MarkDeliveredTwice(m, u) ==
    \/ status' = IF receiver[m] = u THEN [status EXCEPT ![m] = DELIVERED] ELSE status
    \/ "mysql" \in Faults /\ UNCHANGED status

MarkDeliveredCounts(m, u) ==
    status' = IF receiver[m] = u THEN [status EXCEPT ![m] = @ + 1] ELSE status

SetAckedOfAnybody(m, u) ==
    \/ status' = [status EXCEPT ![m] = ACKED]
    \/ "mysql" \in Faults /\ UNCHANGED status

\* markDelivered: the WHERE clause leaves acked rows and rows of other
\* receivers alone.
MarkDelivered(m, u) ==
    \/ status' = IF receiver[m] = u /\ status[m] \in {CREATED, DELIVERED}
                 THEN [status EXCEPT ![m] = DELIVERED]
                 ELSE status
    \/ "mysql" \in Faults /\ UNCHANGED status

\* ack: whatever the status was.
SetAcked(m, u) ==
    \/ status' = IF receiver[m] = u THEN [status EXCEPT ![m] = ACKED] ELSE status
    \/ "mysql" \in Faults /\ UNCHANGED status

\* generateMessageId, whose ids grow with time: the next unused row.
FreshId(m) == status[m] = Absent /\ \A k \in Msgs : k < m => status[k] # Absent

-----------------------------------------------------------------------------
(***************************************************************************)
(* Threads, locks and sockets.                                             *)
(***************************************************************************)

\* No thread of node n is between sendJson and the end of its critical
\* section.
LockFree(n) ==
    /\ obs[n] = NoMsg
    /\ \A c \in Conns : NodeOf[c] = n => task[c] # "mark"

ChatFrame(m) == [to |-> None, msgs |-> {m}]

\* TcpConnection::send from another thread: queued in the event loop of d.
\* Nothing reaches a client that has gone.
Enqueue(d, frame) ==
    pending' = IF link[d] = "open"
               THEN [pending EXCEPT ![d] = Append(@, frame)] ELSE pending

\* TcpConnection::send from c's own handler: written at once.
Write(c, frame) ==
    out' = IF link[c] = "open" THEN [out EXCEPT ![c] = Append(@, frame)] ELSE out

TaskAt(c, t) == Running(c) /\ task[c] = t

GotoTask(c, t) == task' = [task EXCEPT ![c] = t]

\* The client has read the response to its last login.
ClientReady(c) == \A i \in DOMAIN out[c] : out[c][i].to = None

\* The frame is from a connection isConnectionBoundToUser accepts.
Accepted(c) ==
    /\ Serving(c) /\ task[c] = "none" /\ LockFree(NodeOf[c])
    /\ session[c] # None
    /\ Bound(c, session[c])
    /\ ClientReady(c)

-----------------------------------------------------------------------------
(***************************************************************************)
(* oneChat and groupChat: one chat_message row per receiver.               *)
(***************************************************************************)
StartChat(c, receivers) ==
    /\ Accepted(c)
    /\ receivers # {}
    /\ sent + Cardinality(receivers) <= MaxMsgs
    /\ sent' = sent + Cardinality(receivers)
    /\ todo' = [todo EXCEPT ![c] = receivers]
    /\ GotoTask(c, "insert")
    /\ UNCHANGED <<sessionVars, status, receiver, offlinemessage, redisSubs,
                   inbox, obs, cur, marks, batch, pending, out, acks, curUser,
                   shown>>

OneChat(c, v) == StartChat(c, {v})

\* queryGroupUsers: the other members, provided the sender is a member.
GroupChat(c, g) == session[c] \in g /\ StartChat(c, g \ {session[c]})

\* The handler is done with the current receiver: on to the next, if any.
NextReceiver(c, rest) ==
    /\ todo' = [todo EXCEPT ![c] = rest]
    /\ cur' = [cur EXCEPT ![c] = NoMsg]
    /\ GotoTask(c, IF rest = {} THEN "none" ELSE "insert")

InsertMessage(c) ==
    /\ TaskAt(c, "insert")
    /\ \E v \in todo[c] :
         \/ \E m \in Msgs :
              /\ FreshId(m)
              /\ status' = [status EXCEPT ![m] = CREATED]
              /\ receiver' = [receiver EXCEPT ![m] = v]
              /\ cur' = [cur EXCEPT ![c] = m]
              /\ todo' = [todo EXCEPT ![c] = @ \ {v}]
              /\ GotoTask(c, "lookup")
         \/ /\ "mysql" \in Faults
            /\ NextReceiver(c, todo[c] \ {v})
            /\ UNCHANGED <<status, receiver>>
    /\ UNCHANGED <<sessionVars, offlinemessage, redisSubs, inbox, obs, marks,
                   batch, pending, out, acks, curUser, shown, sent>>

\* The receiver is connected to this node: send with the lock held; else
\* look at its state in the user table.
LookupLocal(c) ==
    /\ TaskAt(c, "lookup")
    /\ LockFree(NodeOf[c])
    /\ LET d == userConnMap[NodeOf[c]][receiver[cur[c]]]
       IN IF d = None
          THEN GotoTask(c, "state") /\ UNCHANGED <<pending, out>>
          ELSE /\ GotoTask(c, "mark")
               /\ IF d = c
                  THEN Write(c, ChatFrame(cur[c])) /\ UNCHANGED pending
                  ELSE Enqueue(d, ChatFrame(cur[c])) /\ UNCHANGED out
    /\ UNCHANGED <<sessionVars, status, receiver, offlinemessage, redisSubs,
                   inbox, obs, todo, cur, marks, batch, acks, curUser, shown,
                   sent>>

MarkLocal(c) ==
    /\ TaskAt(c, "mark")
    /\ MarkDelivered(cur[c], receiver[cur[c]])
    /\ NextReceiver(c, todo[c])
    /\ UNCHANGED <<sessionVars, receiver, offlinemessage, redisSubs, inbox,
                   obs, marks, batch, pending, out, acks, curUser, shown, sent>>

QueryState(c) ==
    /\ TaskAt(c, "state")
    /\ \/ /\ userState[receiver[cur[c]]] = "online"
          /\ GotoTask(c, "publish")
          /\ UNCHANGED <<todo, cur>>
       \/ /\ userState[receiver[cur[c]]] = "offline" \/ "mysql" \in Faults
          /\ NextReceiver(c, todo[c])
    /\ UNCHANGED <<sessionVars, status, receiver, offlinemessage, redisSubs,
                   inbox, obs, marks, batch, pending, out, acks, curUser,
                   shown, sent>>

\* PUBLISH returns when Redis has passed the message on to the subscribers.
Publish(c) ==
    /\ TaskAt(c, "publish")
    /\ inbox' = IF redisUp[NodeOf[c]]
                THEN [n \in Nodes |-> IF receiver[cur[c]] \in redisSubs[n]
                                      THEN Append(inbox[n], cur[c]) ELSE inbox[n]]
                ELSE inbox
    /\ NextReceiver(c, todo[c])
    /\ UNCHANGED <<sessionVars, status, receiver, offlinemessage, redisSubs,
                   obs, marks, batch, pending, out, acks, curUser, shown, sent>>

-----------------------------------------------------------------------------
(***************************************************************************)
(* handleRedisSubscribeMessage, in the observer thread of a node.          *)
(***************************************************************************)
ObserverDeliver(n) ==
    /\ proc[n] # "down"
    /\ inbox[n] # <<>>
    /\ LockFree(n)
    /\ inbox' = [inbox EXCEPT ![n] = Tail(@)]
    /\ LET m == Head(inbox[n])
           d == userConnMap[n][receiver[m]]
       IN IF d = None
          THEN UNCHANGED <<pending, obs>>
          ELSE /\ Enqueue(d, ChatFrame(m))
               /\ obs' = [obs EXCEPT ![n] = m]
    /\ UNCHANGED <<sessionVars, status, receiver, offlinemessage, redisSubs,
                   task, todo, cur, marks, batch, out, acks, curUser, shown,
                   sent>>

ObserverMark(n) ==
    /\ proc[n] # "down"
    /\ obs[n] # NoMsg
    /\ MarkDelivered(obs[n], receiver[obs[n]])
    /\ obs' = [obs EXCEPT ![n] = NoMsg]
    /\ UNCHANGED <<sessionVars, receiver, offlinemessage, redisSubs, inbox,
                   task, todo, cur, marks, batch, pending, out, acks, curUser,
                   shown, sent>>

\* Redis carries out a SUBSCRIBE or UNSUBSCRIBE it has received from n.
RedisApply(n, u) ==
    /\ ~PromptSubscribe
    /\ (u \in redisSubs[n]) # (u \in subscribed[n])
    /\ redisSubs' = [redisSubs EXCEPT ![n] =
                        IF u \in subscribed[n] THEN @ \cup {u} ELSE @ \ {u}]
    /\ UNCHANGED <<sessionVars, status, receiver, offlinemessage, inbox, obs,
                   task, todo, cur, marks, batch, pending, out, acks, curUser,
                   shown, sent>>

-----------------------------------------------------------------------------
(***************************************************************************)
(* messageAck: the binding is checked, then the row is updated.            *)
(***************************************************************************)
AckOf(c, a) ==
    IF a[1] \in Users /\ Bound(c, a[1])
    THEN /\ todo' = [todo EXCEPT ![c] = {a[1]}]
         /\ cur' = [cur EXCEPT ![c] = a[2]]
         /\ GotoTask(c, "ack")
    ELSE UNCHANGED <<todo, cur, task>>

\* Variant: the binding is read without _connMutex.
AckCheckUnlocked(c) ==
    /\ Running(c) /\ link[c] \in {"open", "hup"} /\ pc[c] = "idle"
    /\ task[c] = "none"
    /\ \E a \in acks[c] :
         /\ acks' = [acks EXCEPT ![c] = @ \ {a}]
         /\ AckOf(c, a)
    /\ UNCHANGED <<sessionVars, status, receiver, offlinemessage, redisSubs,
                   inbox, obs, marks, batch, pending, out, curUser, shown, sent>>

AckCheck(c) ==
    /\ Running(c) /\ link[c] \in {"open", "hup"} /\ pc[c] = "idle"
    /\ task[c] = "none" /\ LockFree(NodeOf[c])
    /\ \E a \in acks[c] :
         /\ acks' = [acks EXCEPT ![c] = @ \ {a}]
         /\ AckOf(c, a)
    /\ UNCHANGED <<sessionVars, status, receiver, offlinemessage, redisSubs,
                   inbox, obs, marks, batch, pending, out, curUser, shown, sent>>

AckUpdate(c) ==
    /\ TaskAt(c, "ack")
    /\ \E u \in todo[c] : SetAcked(cur[c], u)
    /\ NextReceiver(c, {})
    /\ UNCHANGED <<sessionVars, receiver, offlinemessage, redisSubs, inbox,
                   obs, marks, batch, pending, out, acks, curUser, shown, sent>>

-----------------------------------------------------------------------------
(***************************************************************************)
(* The unread sync of login, between updateState and the response.         *)
(***************************************************************************)
\* Variant: only rows that were never delivered are synchronised.
LoginSyncCreated(c) ==
    /\ TaskAt(c, "sync")
    /\ marks' = [marks EXCEPT ![c] =
                   {m \in Oldest(Unacked(acct[c]), SyncLimit) : status[m] = CREATED}]
    /\ batch' = [batch EXCEPT ![c] = marks'[c]]
    /\ GotoTask(c, IF marks'[c] = {} THEN "legacy" ELSE "syncmark")
    /\ UNCHANGED <<sessionVars, status, receiver, offlinemessage, redisSubs,
                   inbox, obs, todo, cur, pending, out, acks, curUser, shown,
                   sent>>

LoginSync(c) ==
    /\ TaskAt(c, "sync")
    /\ \/ marks' = [marks EXCEPT ![c] = Oldest(Unacked(acct[c]), SyncLimit)]
       \/ "mysql" \in Faults /\ UNCHANGED marks
    /\ batch' = [batch EXCEPT ![c] = marks'[c]]
    /\ GotoTask(c, IF marks'[c] = {} THEN "legacy" ELSE "syncmark")
    /\ UNCHANGED <<sessionVars, status, receiver, offlinemessage, redisSubs,
                   inbox, obs, todo, cur, pending, out, acks, curUser, shown,
                   sent>>

LoginMark(c) ==
    /\ TaskAt(c, "syncmark")
    /\ \E m \in marks[c] :
         /\ \A k \in marks[c] : m <= k
         /\ MarkDelivered(m, acct[c])
         /\ marks' = [marks EXCEPT ![c] = @ \ {m}]
    /\ GotoTask(c, IF marks'[c] = {} THEN "legacy" ELSE "syncmark")
    /\ UNCHANGED <<sessionVars, receiver, offlinemessage, redisSubs, inbox,
                   obs, todo, cur, batch, pending, out, acks, curUser, shown,
                   sent>>

LegacyOf(u) == {l \in offlinemessage : LegacyOwner[l] = u}

LegacyQuery(c) ==
    /\ TaskAt(c, "legacy")
    /\ \/ /\ LegacyOf(acct[c]) # {}
          /\ batch' = [batch EXCEPT ![c] = @ \cup LegacyOf(acct[c])]
          /\ GotoTask(c, "remove")
       \/ /\ LegacyOf(acct[c]) = {} \/ "mysql" \in Faults
          /\ GotoTask(c, "reply")
          /\ UNCHANGED batch
    /\ UNCHANGED <<sessionVars, status, receiver, offlinemessage, redisSubs,
                   inbox, obs, todo, cur, marks, pending, out, acks, curUser,
                   shown, sent>>

LegacyRemove(c) ==
    /\ TaskAt(c, "remove")
    /\ \/ offlinemessage' = offlinemessage \ LegacyOf(acct[c])
       \/ "mysql" \in Faults /\ UNCHANGED offlinemessage
    /\ GotoTask(c, "reply")
    /\ UNCHANGED <<sessionVars, status, receiver, redisSubs, inbox, obs, todo,
                   cur, marks, batch, pending, out, acks, curUser, shown, sent>>

-----------------------------------------------------------------------------
(***************************************************************************)
(* The actions of Session, with what they do to messages.                  *)
(***************************************************************************)
FollowSubscriptions ==
    redisSubs' = IF PromptSubscribe THEN subscribed' ELSE redisSubs

MessagesUntouched ==
    UNCHANGED <<status, receiver, offlinemessage, shown, sent>>

SocketsUntouched == UNCHANGED <<pending, out, acks, curUser>>

HandlersUntouched == UNCHANGED <<task, todo, cur, marks, batch>>

RedisUntouched == UNCHANGED <<redisSubs, inbox, obs>>

\* A step that only sessions see.
SessionOnly(A) ==
    /\ A
    /\ MessagesUntouched /\ SocketsUntouched /\ HandlersUntouched
    /\ RedisUntouched

LoginAccepted(c, u) == task[c] = "none" /\ SessionOnly(LoginQuery(c, u))

LoginBinds(c) == LockFree(NodeOf[c]) /\ SessionOnly(LoginBind(c))

ChannelStep(c) ==
    /\ LoginSubscribe(c) \/ Unsubscribe(c)
    /\ FollowSubscriptions
    /\ MessagesUntouched /\ SocketsUntouched /\ HandlersUntouched
    /\ UNCHANGED <<inbox, obs>>

LoginGoesOnline(c) ==
    /\ LoginOnline(c)
    /\ GotoTask(c, "sync")
    /\ MessagesUntouched /\ SocketsUntouched /\ RedisUntouched
    /\ UNCHANGED <<todo, cur, marks, batch>>

LoginReplies(c) ==
    /\ task[c] = "reply"
    /\ LoginReply(c)
    /\ Write(c, [to |-> acct[c], msgs |-> batch[c]])
    /\ batch' = [batch EXCEPT ![c] = {}]
    /\ GotoTask(c, "none")
    /\ MessagesUntouched /\ RedisUntouched
    /\ UNCHANGED <<todo, cur, marks, pending, acks, curUser>>

LogoutChecks(c) ==
    /\ task[c] = "none" /\ LockFree(NodeOf[c]) /\ ClientReady(c)
    /\ SessionOnly(LoginOutCheck(c))

LogoutErases(c) == LockFree(NodeOf[c]) /\ SessionOnly(LoginOutErase(c))

\* The client is gone: what it has not read never arrives, what it has sent
\* may still be read.
ClientGoes(c) ==
    /\ PeerClose(c)
    /\ pending' = [pending EXCEPT ![c] = <<>>]
    /\ out' = [out EXCEPT ![c] = <<>>]
    /\ MessagesUntouched /\ HandlersUntouched /\ RedisUntouched
    /\ UNCHANGED <<acks, curUser>>

ConnectionCloses(c) ==
    /\ task[c] = "none" /\ LockFree(NodeOf[c])
    /\ CloseErase(c)
    /\ acks' = [acks EXCEPT ![c] = {}]
    /\ curUser' = [curUser EXCEPT ![c] = None]
    /\ MessagesUntouched /\ HandlersUntouched /\ RedisUntouched
    /\ UNCHANGED <<pending, out>>

\* The process of node n is gone, and with it its threads and sockets.
NodeStops(n) ==
    /\ Crash(n) \/ Exit(n)
    /\ task' = [c \in Conns |-> IF NodeOf[c] = n THEN "none" ELSE task[c]]
    /\ todo' = [c \in Conns |-> IF NodeOf[c] = n THEN {} ELSE todo[c]]
    /\ cur' = [c \in Conns |-> IF NodeOf[c] = n THEN NoMsg ELSE cur[c]]
    /\ marks' = [c \in Conns |-> IF NodeOf[c] = n THEN {} ELSE marks[c]]
    /\ batch' = [c \in Conns |-> IF NodeOf[c] = n THEN {} ELSE batch[c]]
    /\ pending' = [c \in Conns |-> IF NodeOf[c] = n THEN <<>> ELSE pending[c]]
    /\ out' = [c \in Conns |-> IF NodeOf[c] = n THEN <<>> ELSE out[c]]
    /\ acks' = [c \in Conns |-> IF NodeOf[c] = n THEN {} ELSE acks[c]]
    /\ curUser' = [c \in Conns |-> IF NodeOf[c] = n THEN None ELSE curUser[c]]
    /\ redisSubs' = [redisSubs EXCEPT ![n] = {}]
    /\ inbox' = [inbox EXCEPT ![n] = <<>>]
    /\ obs' = [obs EXCEPT ![n] = NoMsg]
    /\ MessagesUntouched

\* What Redis had already written to a broken link may be lost or read; the
\* loss of the link that publish uses leaves the subscriptions alone.
RedisBreaks(n) ==
    /\ RedisLost(n)
    /\ \/ /\ subscribed'[n] = {}
          /\ redisSubs' = [redisSubs EXCEPT ![n] = {}]
          /\ inbox' = [inbox EXCEPT ![n] = <<>>] \/ UNCHANGED inbox
       \/ /\ subscribed' = subscribed
          /\ UNCHANGED <<redisSubs, inbox>>
    /\ MessagesUntouched /\ SocketsUntouched /\ HandlersUntouched
    /\ UNCHANGED obs

-----------------------------------------------------------------------------
\* The loop of c runs the functors other threads have queued, once its
\* handler has returned.
FlushPending(c) ==
    /\ Running(c) /\ pc[c] = "idle" /\ task[c] = "none"
    /\ pending[c] # <<>>
    /\ out' = [out EXCEPT ![c] = @ \o pending[c]]
    /\ pending' = [pending EXCEPT ![c] = <<>>]
    /\ MessagesUntouched /\ HandlersUntouched /\ RedisUntouched
    /\ UNCHANGED <<sessionVars, acks, curUser>>

\* The client's read thread takes a frame: it shows the messages and ACKs
\* those that carry a message id, all in the name of g_currentUser.
Reader(c) == IF Head(out[c]).to = None THEN curUser[c] ELSE Head(out[c]).to

ReadAndAck(c, ackable) ==
    /\ link[c] = "open"
    /\ out[c] # <<>>
    /\ curUser' = [curUser EXCEPT ![c] = Reader(c)]
    /\ shown' = shown \cup ({Reader(c)} \X Head(out[c]).msgs)
    /\ acks' = [acks EXCEPT ![c] = @ \cup ({Reader(c)} \X ackable)]
    /\ out' = [out EXCEPT ![c] = Tail(@)]
    /\ HandlersUntouched /\ RedisUntouched
    /\ UNCHANGED <<sessionVars, status, receiver, offlinemessage, pending, sent>>

\* Variants: the messages of a login response are not acked; those of frames
\* that have arrived and are not shown yet are acked with the first.
ClientReadChatAcks(c) ==
    ReadAndAck(c, IF Head(out[c]).to = None THEN Head(out[c]).msgs \cap Msgs ELSE {})

ClientReadAcksArrived(c) ==
    ReadAndAck(c, UNION {out[c][i].msgs : i \in DOMAIN out[c]} \cap Msgs)

ClientRead(c) == ReadAndAck(c, Head(out[c]).msgs \cap Msgs)

-----------------------------------------------------------------------------
ChatStep(c) ==
    \/ InsertMessage(c) \/ LookupLocal(c) \/ MarkLocal(c) \/ QueryState(c)
    \/ Publish(c) \/ AckUpdate(c)

SyncStep(c) ==
    \/ LoginSync(c) \/ LoginMark(c) \/ LegacyQuery(c) \/ LegacyRemove(c)

SessionStep(c) ==
    \/ LoginBinds(c) \/ ChannelStep(c) \/ LoginGoesOnline(c)
    \/ LoginReplies(c) \/ LogoutErases(c) \/ ConnectionCloses(c)
    \/ SessionOnly(Offline(c))

Request(c) ==
    \/ SessionOnly(Connect(c)) \/ ClientGoes(c) \/ LogoutChecks(c)
    \/ \E u \in Users : LoginAccepted(c, u) \/ OneChat(c, u)
    \/ \E g \in Groups : GroupChat(c, g)

\* What a node's threads and a client's read thread do by themselves.
ConnProgress(c) ==
    \/ ChatStep(c) \/ SyncStep(c) \/ SessionStep(c)
    \/ AckCheck(c) \/ FlushPending(c) \/ ClientRead(c)

NodeProgress(n) ==
    ObserverDeliver(n) \/ ObserverMark(n) \/ \E u \in Users : RedisApply(n, u)

NodeEvent(n) ==
    \/ NodeStops(n) \/ RedisBreaks(n)
    \/ SessionOnly(Interrupt(n)) \/ SessionOnly(Restart(n))

DeliveryNext ==
    \/ \E c \in Conns : ConnProgress(c) \/ Request(c)
    \/ \E n \in Nodes : NodeProgress(n) \/ NodeEvent(n)

DeliverySpec == DeliveryInit /\ [][DeliveryNext]_allVars

\* The event loop of c, without what its client asks for.
ServerThread(c) ==
    ChatStep(c) \/ SyncStep(c) \/ SessionStep(c) \/ AckCheck(c) \/ FlushPending(c)

\* Threads are scheduled, calls to MySQL and Redis return, and a client that
\* is still there reads its socket (readTaskHandler does nothing else).
DeliveryFairness ==
    /\ \A c \in Conns : WF_allVars(ServerThread(c)) /\ WF_allVars(ClientRead(c))
    /\ \A n \in Nodes : WF_allVars(NodeProgress(n))

DeliveryFairSpec == DeliverySpec /\ DeliveryFairness

-----------------------------------------------------------------------------
(***************************************************************************)
(* The life of a row of chat_message, whatever fails.                      *)
(***************************************************************************)

\* A message is acked only after a client of its receiver has displayed it:
\* an ACK frame that is late, repeated, or sent in the name of an account that
\* has logged out in the meantime never acks the message of somebody else.
AckedWasShown ==
    \A m \in Msgs : status[m] = ACKED => <<receiver[m], m>> \in shown

\* markDelivered never takes an acked row back, although it runs after the
\* frame is on its way and may lose the race with the ACK, or run twice.
StatusNeverRegresses ==
    [][\A m \in Msgs : status'[m] >= status[m]]_allVars

\* A row goes through created -> delivered -> acked: the receiver's ACK cannot
\* overtake the sender's markDelivered, because the sender holds _connMutex
\* until the row is marked and the ACK needs it for isConnectionBoundToUser.
DeliveredBeforeAcked ==
    [][\A m \in Msgs : status'[m] = ACKED => status[m] # CREATED]_allVars

-----------------------------------------------------------------------------
(***************************************************************************)
(* Nothing is forgotten while the cluster works.                           *)
(***************************************************************************)
Holding(frames, m) == \E i \in DOMAIN frames : m \in frames[i].msgs

\* Something will still bring m to u, whose connection is c, or m's row to
\* its last status.
OnItsWay(m, u, c) ==
    \/ \E d \in Conns : cur[d] = m /\ task[d] \in {"lookup", "mark", "state", "publish"}
    \/ \E i \in DOMAIN inbox[NodeOf[c]] : inbox[NodeOf[c]][i] = m
    \/ Holding(pending[c], m) \/ Holding(out[c], m)
    \/ acct[c] = u /\ (pc[c] \in {"subscribe", "online"} \/ task[c] = "sync")
    \/ m \in batch[c]
    \/ <<u, m>> \in acks[c]
    \/ task[c] = "ack" /\ cur[c] = m

\* While its receiver is connected, an unacked message is on its way, however
\* the insert, the lookup, the online check and the publish of the sender
\* interleave with the bind, the subscribe, the status update and the query of
\* the receiver's login, on one node or on two.
NoStrandedMessage ==
    \A m \in Msgs, u \in Users, c \in Conns :
        m \in Unacked(u) /\ Bound(c, u) /\ link[c] = "open" => OnItsWay(m, u, c)

\* A message whose receiver is connected, and stays so, is acked in the end.
EventuallyAcked ==
    \A m \in Msgs, u \in Users, c \in Conns :
        (receiver[m] = u /\ Bound(c, u))
            ~> (status[m] = ACKED \/ ~Bound(c, u) \/ link[c] # "open")

\* A row login takes out of the legacy table reaches a client of its owner or
\* is in the response that brings it there.
LegacyNotLost ==
    \A l \in Legacy :
        \/ l \in offlinemessage
        \/ <<LegacyOwner[l], l>> \in shown
        \/ \E c \in Conns : l \in batch[c] \/ Holding(out[c], l)

-----------------------------------------------------------------------------
(***************************************************************************)
(* The refinement of Lifecycle.                                            *)
(***************************************************************************)
StageOf(s) == CASE s = CREATED -> "created" [] s = DELIVERED -> "delivered"
                [] s = ACKED -> "acked" [] OTHER -> "absent"

Life == INSTANCE Lifecycle WITH
    MarkMayFail <- "mysql" \in Faults,
    stage <- [m \in Msgs |-> StageOf(status[m])],
    addressee <- receiver,
    displayed <- {p \in shown : p[2] \in Msgs}

\* Whatever the clients, the nodes, Redis and MySQL do, every message lives the
\* life Lifecycle describes: created once, delivered before it is acked unless
\* MySQL loses the mark, acked only when its receiver has seen it, never back.
LifecycleSpec == Life!LifeSpec

-----------------------------------------------------------------------------
(***************************************************************************)
(* The inductive strengthening of AckedWasShown: an ACK on its way to the  *)
(* server, or in the hands of a handler, is about a message that has been  *)
(* displayed under the account the ACK names.                              *)
(***************************************************************************)
AcksWereShown ==
    /\ \A c \in Conns : acks[c] \subseteq shown
    /\ \A c \in Conns : task[c] = "ack" =>
          \A u \in todo[c] : <<u, cur[c]>> \in shown

AckInv == DeliveryTypeOK /\ AckedWasShown /\ AcksWereShown
=============================================================================
