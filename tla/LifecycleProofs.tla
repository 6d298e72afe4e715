-------------------------- MODULE LifecycleProofs --------------------------
(***************************************************************************)
(* Delivery implements Lifecycle, for all users, connections and nodes,    *)
(* any number of messages and every fault.  What has to be shown is that a *)
(* row is marked delivered before it is acked, unless MySQL may lose the   *)
(* statement that marks it.                                                *)
(*                                                                         *)
(* The second part shows that no message is stranded while nothing fails:  *)
(* what is due to a connected account is on its way in the hands of the    *)
(* sender's thread, of Redis, of an observer, of the receiver's login, of  *)
(* its client or of its ACK, and each hands it on to the next.             *)
(***************************************************************************)
EXTENDS DeliveryProofs

MarksAreKept == "mysql" \notin Faults

Noted(m) == status[m] \in {DELIVERED, ACKED}

\* A thread of node n holds _connMutex, has sent m and is about to mark it.
BeingMarked(n, m) ==
    \/ obs[n] = m
    \/ \E d \in Conns : NodeOf[d] = n /\ task[d] = "mark" /\ cur[d] = m

\* m is on its way to the client of c, or the client's ACK on its way back.
InTransit(c, m) ==
    \/ Holding(pending[c], m) \/ Holding(out[c], m)
    \/ \E a \in acks[c] : a[2] = m

SyncSteps == {"sync", "syncmark", "legacy", "remove", "reply"}

\* What the step of Session says of the step of Delivery: the unread sync runs
\* inside login, everything else between two requests of module Session.
PlaceInv ==
    \A c \in Conns :
        /\ task[c] \in SyncSteps => pc[c] = "reply"
        /\ task[c] \notin SyncSteps \cup {"none"} => pc[c] = "idle"

\* Whoever works on a message after the INSERT works on a row that there is,
\* and rows are for somebody.
WorkExists ==
    /\ \A m \in Msgs : status[m] # Absent => receiver[m] \in Users
    /\ \A c \in Conns : task[c] \in {"lookup", "mark", "state", "publish"}
          => status[cur[c]] # Absent
    /\ \A n \in Nodes : obs[n] # NoMsg => status[obs[n]] # Absent
    /\ \A n \in Nodes : \A i \in DOMAIN inbox[n] : status[inbox[n][i]] # Absent

\* login marks rows of its own account, and those it sends it has marked.
BatchInv ==
    \A c \in Conns :
        /\ marks[c] # {} => task[c] = "syncmark"
        /\ \A m \in marks[c] : receiver[m] = acct[c] /\ status[m] # Absent
        /\ MarksAreKept => \A m \in batch[c] \cap Msgs : Noted(m) \/ m \in marks[c]

\* A message in transit is marked or is about to be by somebody who holds the
\* lock an ACK needs; so an ACK past its check is about a marked row.
MarkInv ==
    MarksAreKept =>
        /\ \A c \in Conns, m \in Msgs :
              InTransit(c, m) => Noted(m) \/ BeingMarked(NodeOf[c], m)
        /\ \A c \in Conns : task[c] = "ack" => Noted(cur[c])

-----------------------------------------------------------------------------
(* What steps leave alone *)

\* A row is never taken back: it keeps its receiver and its mark.
LEMMA RowsKeep ==
    ASSUME DeliveryTypeOK, RowStep, NEW m \in Msgs
    PROVE  /\ status[m] # Absent => status'[m] # Absent /\ receiver'[m] = receiver[m]
           /\ Noted(m) => status'[m] \in {DELIVERED, ACKED}
<1>1. /\ status \in [Msgs -> {Absent, CREATED, DELIVERED, ACKED}]
      /\ receiver \in [Msgs -> Users \cup {None}]
      /\ Absent \notin {CREATED, DELIVERED, ACKED} /\ CREATED \notin {DELIVERED, ACKED}
  BY DEF DeliveryTypeOK, Absent, CREATED, DELIVERED, ACKED
<1>2. CASE RowUntouched
  BY <1>2 DEF RowUntouched, Noted
<1>3. CASE RowCreated
  BY <1>1, <1>3 DEF RowCreated, FreshId, Noted
<1>4. CASE RowMarked
  BY <1>1, <1>4 DEF RowMarked, MarkDelivered, Noted
<1>5. CASE RowAcked
  BY <1>1, <1>5 DEF RowAcked, SetAcked, Noted
<1>. QED
  BY <1>2, <1>3, <1>4, <1>5 DEF RowStep

\* The handler of d stays where it is.
Aside(d) ==
    /\ task'[d] = task[d] /\ cur'[d] = cur[d]
    /\ marks'[d] = marks[d] /\ batch'[d] = batch[d]
    /\ task[d] # "none" => pc'[d] = pc[d] /\ acct'[d] = acct[d]

\* The steps of a handler, among those that module Delivery adds.
ActsAt(c) ==
    \/ ChatStep(c) \/ SyncStep(c) \/ LoginGoesOnline(c) \/ LoginReplies(c)
    \/ AckCheck(c) \/ \E S \in SUBSET Users : StartChat(c, S)

\* A step is one handler's, or the end of a process, or no handler's at all.
LEMMA OthersAside ==
    ASSUME DeliveryTypeOK, PlaceInv, [DeliveryNext]_allVars
    PROVE  \/ \E c \in Conns : ActsAt(c) /\ \A d \in Conns \ {c} : Aside(d)
           \/ \E n \in Nodes : /\ NodeStops(n)
                               /\ \A d \in Conns : NodeOf[d] # n => Aside(d)
           \/ \A d \in Conns : Aside(d)
<1>. /\ DOMAIN task = Conns /\ DOMAIN cur = Conns /\ DOMAIN marks = Conns
     /\ DOMAIN batch = Conns /\ DOMAIN pc = Conns /\ DOMAIN acct = Conns
  BY DEF DeliveryTypeOK, SessionTypeOK
<1>1. ASSUME NEW c \in Conns, ActsAt(c) PROVE \A d \in Conns \ {c} : Aside(d)
  <2>1. CASE InsertMessage(c)
    BY <2>1 DEF InsertMessage, NextReceiver, GotoTask, Aside, sessionVars
  <2>2. CASE LookupLocal(c)
    BY <2>2 DEF LookupLocal, GotoTask, Aside, sessionVars
  <2>3. CASE MarkLocal(c)
    BY <2>3 DEF MarkLocal, NextReceiver, GotoTask, Aside, sessionVars
  <2>4. CASE QueryState(c)
    BY <2>4 DEF QueryState, NextReceiver, GotoTask, Aside, sessionVars
  <2>5. CASE Publish(c)
    BY <2>5 DEF Publish, NextReceiver, GotoTask, Aside, sessionVars
  <2>6. CASE AckUpdate(c)
    BY <2>6 DEF AckUpdate, NextReceiver, GotoTask, Aside, sessionVars
  <2>7. CASE LoginSync(c)
    BY <2>7 DEF LoginSync, GotoTask, Aside, sessionVars
  <2>8. CASE LoginMark(c)
    BY <2>8 DEF LoginMark, GotoTask, Aside, sessionVars
  <2>9. CASE LegacyQuery(c)
    BY <2>9 DEF LegacyQuery, GotoTask, Aside, sessionVars
  <2>10. CASE LegacyRemove(c)
    BY <2>10 DEF LegacyRemove, GotoTask, Aside, sessionVars
  <2>11. CASE LoginGoesOnline(c)
    BY <2>11 DEF LoginGoesOnline, LoginOnline, Goto, GotoTask, Aside
  <2>12. CASE LoginReplies(c)
    BY <2>12 DEF LoginReplies, LoginReply, Goto, GotoTask, Aside
  <2>13. CASE AckCheck(c)
    BY <2>13 DEF AckCheck, AckOf, GotoTask, Aside, sessionVars
  <2>14. ASSUME NEW S \in SUBSET Users, StartChat(c, S)
         PROVE  \A d \in Conns \ {c} : Aside(d)
    BY <2>14 DEF StartChat, GotoTask, Aside, sessionVars
  <2>. QED
    BY <1>1, <2>1, <2>2, <2>3, <2>4, <2>5, <2>6, <2>7, <2>8, <2>9, <2>10, <2>11,
       <2>12, <2>13, <2>14 DEF ActsAt, ChatStep, SyncStep
<1>2. ASSUME NEW c \in Conns,
             \/ LoginBinds(c) \/ ChannelStep(c) \/ LogoutErases(c)
             \/ ConnectionCloses(c) \/ SessionOnly(Offline(c)) \/ LogoutChecks(c)
             \/ \E u \in Users : LoginAccepted(c, u)
      PROVE  \A d \in Conns : Aside(d)
  <2>1. UNCHANGED <<task, cur, marks, batch>>
    BY <1>2 DEF LoginBinds, ChannelStep, LogoutErases, ConnectionCloses, LogoutChecks,
                LoginAccepted, SessionOnly, HandlersUntouched
  <2>2. task[c] = "none"
    BY <1>2 DEF PlaceInv, SyncSteps, LoginBinds, ChannelStep, LogoutErases,
                ConnectionCloses, LogoutChecks, LoginAccepted, SessionOnly,
                LoginBind, LoginSubscribe, Unsubscribe, LoginOutErase, Offline, At
  <2>3. \A d \in Conns \ {c} : pc'[d] = pc[d] /\ acct'[d] = acct[d]
    <3>1. CASE LoginBinds(c) \/ LogoutErases(c) \/ ChannelStep(c)
      BY <3>1 DEF LoginBinds, LogoutErases, ChannelStep, SessionOnly, LoginBind,
                  LoginOutErase, LoginSubscribe, Unsubscribe, Goto
    <3>2. CASE ConnectionCloses(c)
      BY <3>2 DEF ConnectionCloses, CloseErase, ReleaseAccount, NothingToRelease, Goto
    <3>3. CASE SessionOnly(Offline(c)) \/ LogoutChecks(c)
      BY <3>3 DEF LogoutChecks, SessionOnly, Offline, LoginOutCheck, Goto
    <3>4. CASE \E u \in Users : LoginAccepted(c, u)
      BY <3>4 DEF LoginAccepted, SessionOnly, LoginQuery, Goto
    <3>. QED
      BY <1>2, <3>1, <3>2, <3>3, <3>4
  <2>. QED
    BY <2>1, <2>2, <2>3 DEF Aside
<1>3. ASSUME NEW n \in Nodes, NodeStops(n)
      PROVE  \A d \in Conns : NodeOf[d] # n => Aside(d)
  <2>1. \A d \in Conns : NodeOf[d] # n => pc'[d] = pc[d] /\ acct'[d] = acct[d]
    BY <1>3 DEF NodeStops, Crash, Exit, StopNode
  <2>. QED
    BY <1>3, <2>1 DEF NodeStops, Aside
<1>4. ASSUME UNCHANGED <<pc, acct, task, cur, marks, batch>>
      PROVE  \A d \in Conns : Aside(d)
  BY <1>4 DEF Aside
<1>5. ASSUME NEW c \in Conns,
             \/ ClientGoes(c) \/ SessionOnly(Connect(c)) \/ FlushPending(c)
             \/ ClientRead(c)
      PROVE  UNCHANGED <<pc, acct, task, cur, marks, batch>>
  BY <1>5 DEF ClientGoes, PeerClose, Connect, FlushPending, ClientRead, ReadAndAck,
              SessionOnly, HandlersUntouched, sessionVars
<1>6. ASSUME NEW n \in Nodes,
             \/ NodeProgress(n) \/ RedisBreaks(n) \/ SessionOnly(Interrupt(n))
             \/ SessionOnly(Restart(n))
      PROVE  UNCHANGED <<pc, acct, task, cur, marks, batch>>
  BY <1>6 DEF NodeProgress, ObserverDeliver, ObserverMark, RedisApply, RedisBreaks,
              RedisLost, SessionOnly, Interrupt, Restart, HandlersUntouched, sessionVars
<1>7. CASE UNCHANGED allVars
  BY <1>4, <1>7 DEF allVars, deliveryVars, sessionVars
<1>8. ASSUME NEW c \in Conns, ConnProgress(c) \/ Request(c)
      PROVE  ActsAt(c) \/ \A d \in Conns : Aside(d)
  BY <1>2, <1>4, <1>5, <1>8, ChatReceivers
     DEF ConnProgress, Request, SessionStep, ActsAt, OneChat, GroupChat
<1>. QED
  BY <1>1, <1>3, <1>4, <1>6, <1>7, <1>8 DEF DeliveryNext, NodeEvent

-----------------------------------------------------------------------------
(* Places, rows and batches *)

\* The steps of Delivery and those of Session stay together.
LEMMA PlaceStep ==
    ASSUME DeliveryTypeOK, PlaceInv, [DeliveryNext]_allVars
    PROVE  PlaceInv'
<1>. /\ DOMAIN task = Conns /\ DOMAIN pc = Conns
  BY DEF DeliveryTypeOK, SessionTypeOK
<1>1. ASSUME NEW d \in Conns, Aside(d)
      PROVE  /\ task'[d] \in SyncSteps => pc'[d] = "reply"
             /\ task'[d] \notin SyncSteps \cup {"none"} => pc'[d] = "idle"
  BY <1>1 DEF Aside, PlaceInv, SyncSteps
<1>2. ASSUME NEW c \in Conns, ActsAt(c)
      PROVE  /\ task'[c] \in SyncSteps => pc'[c] = "reply"
             /\ task'[c] \notin SyncSteps \cup {"none"} => pc'[c] = "idle"
  <2>1. CASE ChatStep(c)
    <3>1. /\ task[c] \in {"insert", "lookup", "mark", "state", "publish", "ack"}
          /\ pc' = pc
      BY <2>1 DEF ChatStep, InsertMessage, LookupLocal, MarkLocal, QueryState, Publish,
                  AckUpdate, TaskAt, sessionVars
    <3>2. task'[c] \in {"none", "insert", "lookup", "mark", "state", "publish"}
      BY <2>1 DEF ChatStep, InsertMessage, LookupLocal, MarkLocal, QueryState, Publish,
                  AckUpdate, NextReceiver, GotoTask
    <3>. QED
      BY <3>1, <3>2 DEF PlaceInv, SyncSteps
  <2>2. CASE SyncStep(c)
    <3>1. /\ task[c] \in {"sync", "syncmark", "legacy", "remove"}
          /\ pc' = pc
      BY <2>2 DEF SyncStep, LoginSync, LoginMark, LegacyQuery, LegacyRemove, TaskAt,
                  sessionVars
    <3>2. task'[c] \in {"syncmark", "legacy", "remove", "reply"}
      BY <2>2 DEF SyncStep, LoginSync, LoginMark, LegacyQuery, LegacyRemove, GotoTask
    <3>. QED
      BY <3>1, <3>2 DEF PlaceInv, SyncSteps
  <2>3. CASE LoginGoesOnline(c)
    BY <2>3 DEF LoginGoesOnline, LoginOnline, Goto, GotoTask, SyncSteps
  <2>4. CASE LoginReplies(c)
    BY <2>4 DEF LoginReplies, GotoTask, SyncSteps
  <2>5. CASE AckCheck(c)
    <3>1. pc'[c] = "idle" /\ task'[c] \in {"none", "ack"}
      BY <2>5 DEF AckCheck, AckOf, GotoTask, sessionVars
    <3>. QED
      BY <3>1 DEF SyncSteps
  <2>6. ASSUME NEW S \in SUBSET Users, StartChat(c, S)
        PROVE  pc'[c] = "idle" /\ task'[c] = "insert"
    BY <2>6 DEF StartChat, Accepted, Serving, GotoTask, sessionVars
  <2>. QED
    BY <1>2, <2>1, <2>2, <2>3, <2>4, <2>5, <2>6 DEF ActsAt, SyncSteps
<1>3. ASSUME NEW n \in Nodes, NodeStops(n), NEW d \in Conns, NodeOf[d] = n
      PROVE  task'[d] = "none"
  BY <1>3 DEF NodeStops
<1>. QED
  BY <1>1, <1>2, <1>3, OthersAside DEF PlaceInv, SyncSteps

\* An inbox is filled by publish.
LEMMA InboxMoves ==
    ASSUME DeliveryTypeOK, HandlerHasMessage, [DeliveryNext]_allVars,
           NEW n \in Nodes, NEW i \in DOMAIN inbox'[n]
    PROVE  \/ \E k \in DOMAIN inbox[n] : inbox'[n][i] = inbox[n][k]
           \/ \E c \in Conns : /\ task[c] = "publish" /\ status' = status
                               /\ inbox'[n][i] = cur[c]
<1>. inbox \in [Nodes -> Seq(Msgs)]
  BY DEF DeliveryTypeOK
<1>1. ASSUME NEW c \in Conns, Publish(c)
      PROVE  \/ \E k \in DOMAIN inbox[n] : inbox'[n][i] = inbox[n][k]
             \/ inbox'[n][i] = cur[c] /\ task[c] = "publish" /\ status' = status
  <2>1. task[c] = "publish" /\ cur[c] \in Msgs /\ status' = status
    BY <1>1 DEF Publish, TaskAt, HandlerHasMessage
  <2>2. inbox'[n] = inbox[n] \/ inbox'[n] = Append(inbox[n], cur[c])
    BY <1>1 DEF Publish
  <2>3. CASE inbox'[n] = Append(inbox[n], cur[c])
    <3>1. i \in 1..Len(inbox[n]) \/ i = Len(inbox[n]) + 1
      BY <2>1, <2>3
    <3>2. CASE i \in 1..Len(inbox[n])
      BY <2>1, <2>3, <3>2
    <3>3. CASE i = Len(inbox[n]) + 1
      BY <2>1, <2>3, <3>3
    <3>. QED
      BY <3>1, <3>2, <3>3
  <2>. QED
    BY <2>2, <2>3
<1>2. ASSUME NEW k \in Nodes, ObserverDeliver(k)
      PROVE  \E j \in DOMAIN inbox[n] : inbox'[n][i] = inbox[n][j]
  <2>1. inbox'[n] \in {inbox[n], Tail(inbox[n])} /\ (n = k => inbox[n] # <<>>)
        /\ (n # k => inbox'[n] = inbox[n])
    BY <1>2 DEF ObserverDeliver
  <2>2. CASE inbox'[n] = inbox[n]
    BY <2>2
  <2>3. CASE inbox[n] # <<>> /\ inbox'[n] = Tail(inbox[n])
    <3>1. i + 1 \in DOMAIN inbox[n] /\ inbox'[n][i] = inbox[n][i + 1]
      BY <2>3
    <3>. QED
      BY <3>1
  <2>. QED
    BY <2>1, <2>2, <2>3
<1>3. ASSUME NEW k \in Nodes, NodeStops(k) \/ RedisBreaks(k)
      PROVE  inbox'[n] = inbox[n]
  <2>1. inbox'[n] \in {inbox[n], <<>>}
    BY <1>3 DEF NodeStops, RedisBreaks
  <2>. QED
    BY <2>1
<1>4. ASSUME NEW c \in Conns, ConnProgress(c), ~Publish(c) PROVE inbox' = inbox
  BY <1>4 DEF ConnProgress, ChatStep, SyncStep, SessionStep, InsertMessage, LookupLocal,
              MarkLocal, QueryState, AckUpdate, LoginSync, LoginMark, LegacyQuery,
              LegacyRemove, LoginBinds, ChannelStep, LoginGoesOnline, LoginReplies,
              LogoutErases, ConnectionCloses, AckCheck, FlushPending, ClientRead,
              ReadAndAck, SessionOnly, RedisUntouched
<1>5. ASSUME NEW c \in Conns, Request(c) PROVE inbox' = inbox
  BY <1>5 DEF Request, SessionOnly, ClientGoes, LogoutChecks, LoginAccepted, OneChat,
              GroupChat, StartChat, RedisUntouched
<1>6. ASSUME NEW k \in Nodes,
             \/ ObserverMark(k) \/ \E u \in Users : RedisApply(k, u)
             \/ SessionOnly(Interrupt(k)) \/ SessionOnly(Restart(k))
      PROVE  inbox' = inbox
  BY <1>6 DEF ObserverMark, RedisApply, SessionOnly, RedisUntouched
<1>7. CASE UNCHANGED allVars
  BY <1>7 DEF allVars, deliveryVars
<1>. QED
  BY <1>1, <1>2, <1>3, <1>4, <1>5, <1>6, <1>7 DEF DeliveryNext, NodeProgress, NodeEvent

\* The observer takes its message from the inbox.
LEMMA ObsMoves ==
    ASSUME DeliveryTypeOK, [DeliveryNext]_allVars, NEW n \in Nodes
    PROVE  \/ obs'[n] = obs[n]
           \/ /\ ObserverDeliver(n) /\ obs[n] = NoMsg /\ inbox[n] # <<>>
              /\ obs'[n] = inbox[n][1]
           \/ ObserverMark(n) /\ obs'[n] = NoMsg
           \/ NodeStops(n) /\ obs'[n] = NoMsg
<1>. /\ DOMAIN obs = Nodes
  BY DEF DeliveryTypeOK
<1>1. ASSUME NEW k \in Nodes, NodeProgress(k)
      PROVE  \/ obs'[n] = obs[n]
             \/ /\ ObserverDeliver(n) /\ obs[n] = NoMsg /\ inbox[n] # <<>>
                /\ obs'[n] = inbox[n][1]
             \/ ObserverMark(n) /\ obs'[n] = NoMsg
  <2>1. CASE ObserverDeliver(k)
    <3>1. inbox[k] # <<>> /\ obs[k] = NoMsg
      BY <2>1 DEF ObserverDeliver, LockFree
    <3>2. Head(inbox[k]) = inbox[k][1]
      BY <3>1 DEF DeliveryTypeOK
    <3>3. obs' = obs \/ obs' = [obs EXCEPT ![k] = Head(inbox[k])]
      BY <2>1 DEF ObserverDeliver
    <3>. QED
      BY <2>1, <3>1, <3>2, <3>3
  <2>2. CASE ObserverMark(k)
    BY <2>2 DEF ObserverMark
  <2>3. CASE \E u \in Users : RedisApply(k, u)
    BY <2>3 DEF RedisApply
  <2>. QED
    BY <1>1, <2>1, <2>2, <2>3 DEF NodeProgress
<1>2. ASSUME NEW k \in Nodes, NodeEvent(k)
      PROVE  \/ obs'[n] = obs[n]
             \/ NodeStops(n) /\ obs'[n] = NoMsg
  BY <1>2 DEF NodeEvent, NodeStops, RedisBreaks, SessionOnly, RedisUntouched
<1>3. ASSUME NEW c \in Conns, ConnProgress(c) PROVE obs' = obs
  BY <1>3 DEF ConnProgress, ChatStep, SyncStep, SessionStep, InsertMessage, LookupLocal,
              MarkLocal, QueryState, Publish, AckUpdate, LoginSync, LoginMark,
              LegacyQuery, LegacyRemove, LoginBinds, ChannelStep, LoginGoesOnline,
              LoginReplies, LogoutErases, ConnectionCloses, AckCheck, FlushPending,
              ClientRead, ReadAndAck, SessionOnly, RedisUntouched
<1>4. ASSUME NEW c \in Conns, Request(c) PROVE obs' = obs
  BY <1>4 DEF Request, SessionOnly, ClientGoes, LogoutChecks, LoginAccepted, OneChat,
              GroupChat, StartChat, RedisUntouched
<1>5. CASE UNCHANGED allVars
  BY <1>5 DEF allVars, deliveryVars
<1>. QED
  BY <1>1, <1>2, <1>3, <1>4, <1>5 DEF DeliveryNext

\* What threads work on goes on being a row.
LEMMA WorkStep ==
    ASSUME DeliveryTypeOK, HandlerHasMessage, PlaceInv, WorkExists,
           [DeliveryNext]_allVars
    PROVE  WorkExists'
<1>. DEFINE Working == {"lookup", "mark", "state", "publish"}
<1>. /\ DOMAIN task = Conns /\ DOMAIN cur = Conns /\ DOMAIN status = Msgs
     /\ inbox \in [Nodes -> Seq(Msgs)] /\ obs \in [Nodes -> Msgs \cup {NoMsg}]
  BY DEF DeliveryTypeOK
<1>0. \A m \in Msgs : status[m] # Absent => status'[m] # Absent
  BY RowsKeep, RowsMove
<1>1. ASSUME NEW d \in Conns, task[d] \in Working, cur'[d] = cur[d]
      PROVE  status'[cur'[d]] # Absent
  BY <1>0, <1>1 DEF WorkExists, HandlerHasMessage
<1>2. ASSUME NEW c \in Conns, ActsAt(c), task'[c] \in Working
      PROVE  status'[cur'[c]] # Absent
  <2>1. CASE InsertMessage(c)
    <3>1. PICK m \in Msgs : status' = [status EXCEPT ![m] = CREATED] /\ cur'[c] = m
      BY <1>2, <2>1 DEF InsertMessage, NextReceiver, GotoTask
    <3>. QED
      BY <3>1 DEF CREATED, Absent
  <2>2. CASE LookupLocal(c) \/ QueryState(c)
    <3>1. task[c] \in Working /\ cur'[c] = cur[c]
      BY <1>2, <2>2 DEF LookupLocal, QueryState, NextReceiver, GotoTask, TaskAt
    <3>. QED
      BY <1>1, <3>1
  <2>3. CASE MarkLocal(c) \/ Publish(c) \/ AckUpdate(c)
    BY <1>2, <2>3 DEF MarkLocal, Publish, AckUpdate, NextReceiver, GotoTask
  <2>4. CASE SyncStep(c) \/ LoginGoesOnline(c) \/ LoginReplies(c) \/ AckCheck(c)
    BY <1>2, <2>4 DEF SyncStep, LoginSync, LoginMark, LegacyQuery, LegacyRemove,
                      LoginGoesOnline, LoginReplies, AckCheck, AckOf, GotoTask
  <2>5. ASSUME NEW S \in SUBSET Users, StartChat(c, S) PROVE FALSE
    BY <1>2, <2>5 DEF StartChat, GotoTask
  <2>. QED
    BY <1>2, <2>1, <2>2, <2>3, <2>4, <2>5 DEF ActsAt, ChatStep
<1>3. \A c \in Conns : task'[c] \in Working => status'[cur'[c]] # Absent
  <2>1. ASSUME NEW d \in Conns, Aside(d), task'[d] \in Working
        PROVE  status'[cur'[d]] # Absent
    BY <1>1, <2>1 DEF Aside
  <2>2. ASSUME NEW n \in Nodes, NodeStops(n), NEW d \in Conns, NodeOf[d] = n
        PROVE  task'[d] = "none"
    BY <2>2 DEF NodeStops
  <2>. QED
    BY <1>2, <2>1, <2>2, OthersAside
<1>4. \A n \in Nodes : \A i \in DOMAIN inbox'[n] : status'[inbox'[n][i]] # Absent
  <2>. SUFFICES ASSUME NEW n \in Nodes, NEW i \in DOMAIN inbox'[n]
                PROVE  status'[inbox'[n][i]] # Absent
    OBVIOUS
  <2>1. ASSUME NEW k \in DOMAIN inbox[n], inbox'[n][i] = inbox[n][k]
        PROVE  status'[inbox'[n][i]] # Absent
    <3>1. inbox[n][k] \in Msgs
      OBVIOUS
    <3>. QED
      BY <1>0, <2>1, <3>1 DEF WorkExists
  <2>2. ASSUME NEW c \in Conns, task[c] = "publish", status' = status,
               inbox'[n][i] = cur[c]
        PROVE  status'[inbox'[n][i]] # Absent
    BY <2>2 DEF WorkExists
  <2>. QED
    BY <2>1, <2>2, InboxMoves
<1>5. \A n \in Nodes : obs'[n] # NoMsg => status'[obs'[n]] # Absent
  <2>. SUFFICES ASSUME NEW n \in Nodes, obs'[n] # NoMsg
                PROVE  status'[obs'[n]] # Absent
    OBVIOUS
  <2>1. CASE obs'[n] = obs[n]
    BY <1>0, <2>1 DEF WorkExists
  <2>2. CASE inbox[n] # <<>> /\ obs'[n] = inbox[n][1]
    <3>1. 1 \in DOMAIN inbox[n] /\ inbox[n][1] \in Msgs
      BY <2>2
    <3>. QED
      BY <1>0, <2>2, <3>1 DEF WorkExists
  <2>. QED
    BY <2>1, <2>2, ObsMoves
<1>6. \A m \in Msgs : status'[m] # Absent => receiver'[m] \in Users
  <2>. DOMAIN receiver = Msgs /\ todo \in [Conns -> SUBSET Users]
    BY DEF DeliveryTypeOK
  <2>1. \A m \in Msgs : status[m] # Absent => receiver[m] \in Users
    BY DEF WorkExists
  <2>2. CASE RowUntouched
    BY <2>1, <2>2 DEF RowUntouched
  <2>3. CASE RowCreated
    BY <2>1, <2>3 DEF RowCreated
  <2>4. CASE RowMarked
    BY <2>1, <2>4 DEF RowMarked, MarkDelivered, CREATED, DELIVERED, Absent
  <2>5. CASE RowAcked
    BY <2>1, <2>5 DEF RowAcked, SetAcked
  <2>. QED
    BY <2>2, <2>3, <2>4, <2>5, RowsMove DEF RowStep
<1>. QED
  BY <1>3, <1>4, <1>5, <1>6 DEF WorkExists

\* What login sends it has marked, or is about to.
LEMMA BatchStep ==
    ASSUME DeliveryTypeOK, PlaceInv, BatchInv, [DeliveryNext]_allVars
    PROVE  BatchInv'
<1>. DEFINE Batch(d) ==
              /\ marks'[d] # {} => task'[d] = "syncmark"
              /\ \A m \in marks'[d] : receiver'[m] = acct'[d] /\ status'[m] # Absent
              /\ MarksAreKept => \A m \in batch'[d] \cap Msgs :
                    status'[m] \in {DELIVERED, ACKED} \/ m \in marks'[d]
<1>. /\ DOMAIN task = Conns /\ DOMAIN batch = Conns
     /\ marks \in [Conns -> SUBSET Msgs]
  BY DEF DeliveryTypeOK
<1>0. \A m \in Msgs :
         /\ status[m] # Absent => status'[m] # Absent /\ receiver'[m] = receiver[m]
         /\ Noted(m) => status'[m] \in {DELIVERED, ACKED}
  BY RowsKeep, RowsMove
<1>1. ASSUME NEW d \in Conns, task'[d] = task[d], marks'[d] = marks[d],
             batch'[d] = batch[d], task[d] # "none" => acct'[d] = acct[d]
      PROVE  Batch(d)
  <2>1. marks[d] \subseteq Msgs
    OBVIOUS
  <2>. QED
    BY <1>0, <1>1, <2>1 DEF BatchInv
<1>2. ASSUME NEW d \in Conns, marks[d] = {}, marks'[d] = marks[d],
             batch'[d] \cap Msgs \subseteq batch[d]
      PROVE  Batch(d)
  BY <1>0, <1>2 DEF BatchInv
<1>3. ASSUME NEW c \in Conns, ActsAt(c) PROVE Batch(c)
  <2>1. CASE \/ ChatStep(c) \/ AckCheck(c) \/ LoginGoesOnline(c)
             \/ \E S \in SUBSET Users : StartChat(c, S)
    <3>1. marks' = marks /\ batch' = batch
      BY <2>1 DEF ChatStep, InsertMessage, LookupLocal, MarkLocal, QueryState, Publish,
                  AckUpdate, AckCheck, LoginGoesOnline, StartChat
    <3>2. task[c] # "syncmark"
      BY <2>1 DEF ChatStep, InsertMessage, LookupLocal, MarkLocal, QueryState, Publish,
                  AckUpdate, AckCheck, LoginGoesOnline, LoginOnline, StartChat, Accepted,
                  TaskAt, At, PlaceInv, SyncSteps
    <3>. QED
      BY <1>2, <3>1, <3>2 DEF BatchInv
  <2>2. CASE LoginSync(c)
    <3>1. /\ task[c] = "sync" /\ marks[c] = {}
          /\ UNCHANGED <<status, receiver, acct>>
      BY <2>2 DEF LoginSync, TaskAt, BatchInv, sessionVars
    <3>2. batch'[c] = marks'[c]
      BY <2>2 DEF LoginSync
    <3>3. task'[c] = IF marks'[c] = {} THEN "legacy" ELSE "syncmark"
      BY <2>2 DEF LoginSync, GotoTask
    <3>4. marks'[c] = Oldest(Unacked(acct[c]), SyncLimit) \/ marks'[c] = {}
      BY <2>2, <3>1 DEF LoginSync
    <3>5. \A m \in Oldest(Unacked(acct[c]), SyncLimit) :
             receiver[m] = acct[c] /\ status[m] # Absent
      BY DEF Oldest, Unacked, CREATED, DELIVERED, Absent
    <3>. QED
      BY <3>1, <3>2, <3>3, <3>4, <3>5
  <2>3. CASE LoginMark(c)
    <3>1. PICK m \in marks[c] : MarkDelivered(m, acct[c])
                                /\ marks' = [marks EXCEPT ![c] = @ \ {m}]
      BY <2>3 DEF LoginMark
    <3>2. m \in Msgs /\ receiver[m] = acct[c] /\ status[m] # Absent
      BY <3>1 DEF BatchInv
    <3>3. marks'[c] = marks[c] \ {m} /\ batch' = batch /\ acct' = acct
      BY <2>3, <3>1 DEF LoginMark, sessionVars
    <3>4. task'[c] = IF marks'[c] = {} THEN "legacy" ELSE "syncmark"
      BY <2>3 DEF LoginMark, GotoTask
    <3>5. MarksAreKept => status'[m] \in {DELIVERED, ACKED}
      BY <3>1, <3>2 DEF MarkDelivered, MarksAreKept, DeliveryTypeOK
    <3>6. \A k \in marks'[c] : receiver'[k] = acct'[c] /\ status'[k] # Absent
      <4>1. \A k \in marks[c] : k \in Msgs /\ receiver[k] = acct[c] /\ status[k] # Absent
        BY DEF BatchInv
      <4>. QED
        BY <1>0, <3>3, <4>1
    <3>7. MarksAreKept => \A k \in batch'[c] \cap Msgs :
             status'[k] \in {DELIVERED, ACKED} \/ k \in marks'[c]
      <4>1. MarksAreKept => \A k \in batch[c] \cap Msgs : Noted(k) \/ k \in marks[c]
        BY DEF BatchInv
      <4>. QED
        BY <1>0, <3>3, <3>5, <4>1
    <3>. QED
      BY <3>4, <3>6, <3>7
  <2>4. CASE LegacyQuery(c) \/ LegacyRemove(c) \/ LoginReplies(c)
    <3>1. marks' = marks /\ task[c] # "syncmark"
      BY <2>4 DEF LegacyQuery, LegacyRemove, LoginReplies, TaskAt
    <3>2. LegacyOf(acct[c]) \cap Msgs = {}
      BY DeliveryAssumption DEF LegacyOf, DeliveryTypeOK
    <3>3. batch'[c] \in {batch[c], batch[c] \cup LegacyOf(acct[c]), {}}
      BY <2>4 DEF LegacyQuery, LegacyRemove, LoginReplies
    <3>. QED
      BY <1>2, <3>1, <3>2, <3>3 DEF BatchInv
  <2>. QED
    BY <1>3, <2>1, <2>2, <2>3, <2>4 DEF ActsAt, SyncStep
<1>4. ASSUME NEW n \in Nodes, NodeStops(n), NEW d \in Conns, NodeOf[d] = n
      PROVE  Batch(d)
  BY <1>4 DEF NodeStops
<1>5. \A d \in Conns : Aside(d) => Batch(d)
  BY <1>1 DEF Aside
<1>6. \A d \in Conns : Batch(d)
  BY <1>3, <1>4, <1>5, OthersAside
<1>. QED
  BY <1>6 DEF BatchInv, Noted

-----------------------------------------------------------------------------
(* Messages in transit *)

\* A message among frames and one more was among them or is in that one.
LEMMA HoldingAppended ==
    ASSUME NEW s \in Seq(Frame), NEW f \in Frame, NEW m
    PROVE  Holding(Append(s, f), m) => Holding(s, m) \/ m \in f.msgs
<1>. SUFFICES ASSUME NEW i \in DOMAIN Append(s, f), m \in Append(s, f)[i].msgs
              PROVE  Holding(s, m) \/ m \in f.msgs
  BY DEF Holding
<1>1. CASE i \in DOMAIN s
  BY <1>1 DEF Holding
<1>2. CASE i = Len(s) + 1
  BY <1>2
<1>. QED
  BY <1>1, <1>2

\* The first frame and the others are what there was.
LEMMA HoldingRest ==
    ASSUME NEW s \in Seq(Frame), s # <<>>, NEW m
    PROVE  /\ Holding(Tail(s), m) => Holding(s, m)
           /\ m \in Head(s).msgs => Holding(s, m)
<1>1. \A i \in DOMAIN Tail(s) : i + 1 \in DOMAIN s /\ Tail(s)[i] = s[i + 1]
  OBVIOUS
<1>2. 1 \in DOMAIN s /\ Head(s) = s[1]
  OBVIOUS
<1>. QED
  BY <1>1, <1>2 DEF Holding

\* A message among joined frames is among the ones or the others.
LEMMA HoldingJoined ==
    ASSUME NEW s \in Seq(Frame), NEW t \in Seq(Frame), NEW m
    PROVE  Holding(s \o t, m) => Holding(s, m) \/ Holding(t, m)
<1>. SUFFICES ASSUME NEW i \in DOMAIN (s \o t), m \in (s \o t)[i].msgs
              PROVE  Holding(s, m) \/ Holding(t, m)
  BY DEF Holding
<1>1. CASE i \in DOMAIN s
  BY <1>1 DEF Holding
<1>2. CASE i - Len(s) \in DOMAIN t /\ (s \o t)[i] = t[i - Len(s)]
  BY <1>2 DEF Holding
<1>. QED
  BY <1>1, <1>2

\* No frames hold no message.
LEMMA HoldingNone == \A m : ~Holding(<<>>, m)
BY DEF Holding

\* Who puts m on its way to the client of c.
Sends(c, m) ==
    \/ \E d \in Conns : NodeOf[d] = NodeOf[c] /\ task'[d] = "mark" /\ cur'[d] = m
    \/ obs'[NodeOf[c]] = m
    \/ task[c] = "reply" /\ m \in batch[c]

\* A frame queued for a user is queued for a connection of the same node.
LEMMA EnqueueMoves ==
    ASSUME DeliveryTypeOK, NoDeadBinding, NEW n \in Nodes, NEW u \in Users,
           NEW k \in Msgs, userConnMap[n][u] # None,
           Enqueue(userConnMap[n][u], ChatFrame(k)),
           NEW c \in Conns, NEW m, Holding(pending'[c], m)
    PROVE  Holding(pending[c], m) \/ (m = k /\ NodeOf[c] = n)
<1>. DEFINE d == userConnMap[n][u]
<1>1. d \in Conns /\ NodeOf[d] = n
  BY DEF NoDeadBinding, DeliveryTypeOK, SessionTypeOK
<1>2. pending[c] \in Seq(Frame) /\ ChatFrame(k) \in Frame /\ ChatFrame(k).msgs = {k}
  BY DEF DeliveryTypeOK, ChatFrame, Frame
<1>3. \/ pending'[c] = pending[c]
      \/ c = d /\ pending'[c] = Append(pending[c], ChatFrame(k))
  BY <1>1 DEF Enqueue, DeliveryTypeOK
<1>. QED
  BY <1>1, <1>2, <1>3, HoldingAppended

\* A frame written to a client is written to that client only.
LEMMA WriteMoves ==
    ASSUME DeliveryTypeOK, NEW d \in Conns, NEW f \in Frame, Write(d, f),
           NEW c \in Conns, NEW m, Holding(out'[c], m)
    PROVE  Holding(out[c], m) \/ (m \in f.msgs /\ c = d)
<1>1. out[c] \in Seq(Frame)
  BY DEF DeliveryTypeOK
<1>2. out'[c] = out[c] \/ (c = d /\ out'[c] = Append(out[c], f))
  BY DEF Write, DeliveryTypeOK
<1>. QED
  BY <1>1, <1>2, HoldingAppended

\* A message gets on its way by somebody who marks it.
LEMMA TransitMoves ==
    ASSUME DeliveryTypeOK, HandlerHasMessage, WorkExists, NoDeadBinding,
           [DeliveryNext]_allVars, NEW c \in Conns, NEW m \in Msgs, InTransit(c, m)'
    PROVE  InTransit(c, m) \/ Sends(c, m)
<1>. /\ pending \in [Conns -> Seq(Frame)] /\ out \in [Conns -> Seq(Frame)]
     /\ DOMAIN acks = Conns /\ DOMAIN task = Conns /\ DOMAIN obs = Nodes
     /\ NodeOf \in [Conns -> Nodes]
  BY SessionAssumption DEF DeliveryTypeOK
<1>1. ASSUME NEW d \in Conns, LookupLocal(d) PROVE InTransit(c, m) \/ Sends(c, m)
  <2>. DEFINE e == userConnMap[NodeOf[d]][receiver[cur[d]]]
  <2>1. /\ cur[d] \in Msgs /\ receiver[cur[d]] \in Users
        /\ acks' = acks /\ cur' = cur
    BY <1>1 DEF LookupLocal, TaskAt, HandlerHasMessage, WorkExists
  <2>2. CASE e = None
    BY <1>1, <2>2 DEF LookupLocal, InTransit
  <2>3. CASE e # None
    <3>1. /\ task'[d] = "mark"
          /\ \/ e = d /\ Write(d, ChatFrame(cur[d])) /\ pending' = pending
             \/ Enqueue(e, ChatFrame(cur[d])) /\ out' = out
      BY <1>1, <2>3 DEF LookupLocal, GotoTask
    <3>2. ChatFrame(cur[d]) \in Frame /\ ChatFrame(cur[d]).msgs = {cur[d]}
      BY <2>1 DEF ChatFrame, Frame
    <3>3. CASE Write(d, ChatFrame(cur[d])) /\ pending' = pending
      BY <2>1, <3>1, <3>2, <3>3, WriteMoves DEF InTransit, Sends
    <3>4. CASE Enqueue(e, ChatFrame(cur[d])) /\ out' = out
      <4>1. Holding(pending'[c], m)
              => Holding(pending[c], m) \/ (m = cur[d] /\ NodeOf[c] = NodeOf[d])
        BY <2>1, <2>3, <3>4, EnqueueMoves
      <4>. QED
        BY <2>1, <3>1, <3>4, <4>1 DEF InTransit, Sends
    <3>. QED
      BY <3>1, <3>3, <3>4
  <2>. QED
    BY <2>2, <2>3
<1>2. ASSUME NEW n \in Nodes, ObserverDeliver(n) PROVE InTransit(c, m) \/ Sends(c, m)
  <2>1. PICK k \in Msgs : k = Head(inbox[n]) /\ receiver[k] \in Users
    <3>1. /\ 1 \in DOMAIN inbox[n] /\ Head(inbox[n]) = inbox[n][1]
          /\ inbox[n][1] \in Msgs
      BY <1>2 DEF ObserverDeliver, DeliveryTypeOK
    <3>. QED
      BY <3>1 DEF WorkExists
  <2>2. CASE userConnMap[n][receiver[k]] = None
    BY <1>2, <2>1, <2>2 DEF ObserverDeliver, InTransit
  <2>3. CASE userConnMap[n][receiver[k]] # None
    <3>1. /\ Enqueue(userConnMap[n][receiver[k]], ChatFrame(k))
          /\ obs'[n] = k /\ UNCHANGED <<out, acks>>
      BY <1>2, <2>1, <2>3 DEF ObserverDeliver
    <3>2. Holding(pending'[c], m)
            => Holding(pending[c], m) \/ (m = k /\ NodeOf[c] = n)
      <4>1. receiver[k] \in Users
        BY <2>1
      <4>2. Enqueue(userConnMap[n][receiver[k]], ChatFrame(k))
        BY <3>1
      <4>. QED
        BY <2>3, <4>1, <4>2, EnqueueMoves
    <3>. QED
      BY <3>1, <3>2 DEF InTransit, Sends
  <2>. QED
    BY <2>2, <2>3
<1>3. ASSUME NEW d \in Conns, LoginReplies(d) PROVE InTransit(c, m) \/ Sends(c, m)
  <2>. DEFINE f == [to |-> acct[d], msgs |-> batch[d]]
  <2>1. f \in Frame /\ f.msgs = batch[d]
    BY DEF DeliveryTypeOK, SessionTypeOK, Frame
  <2>2. Write(d, f) /\ task[d] = "reply" /\ UNCHANGED <<pending, acks>>
    BY <1>3 DEF LoginReplies
  <2>. HIDE DEF f
  <2>. QED
    BY <2>1, <2>2, WriteMoves DEF InTransit, Sends
<1>4. ASSUME NEW d \in Conns, ClientRead(d) PROVE InTransit(c, m)
  <2>1. out[d] # <<>> /\ pending' = pending
    BY <1>4 DEF ClientRead, ReadAndAck
  <2>2. /\ out' = [out EXCEPT ![d] = Tail(@)]
        /\ acks' = [acks EXCEPT ![d] = @ \cup ({Reader(d)} \X (Head(out[d]).msgs \cap Msgs))]
    BY <1>4 DEF ClientRead, ReadAndAck
  <2>3. CASE c # d
    BY <2>1, <2>2, <2>3 DEF InTransit
  <2>4. CASE c = d
    <3>1. \A a \in acks'[c] : a \in acks[c] \/ a[2] \in Head(out[c]).msgs
      BY <2>2, <2>4
    <3>2. out'[c] = Tail(out[c]) /\ out[c] # <<>>
      BY <2>1, <2>2, <2>4
    <3>3. /\ Holding(out'[c], m) => Holding(out[c], m)
          /\ m \in Head(out[c]).msgs => Holding(out[c], m)
      BY <3>2, HoldingRest
    <3>. QED
      BY <2>1, <3>1, <3>3 DEF InTransit
  <2>. QED
    BY <2>3, <2>4
<1>5. ASSUME NEW d \in Conns, FlushPending(d) PROVE InTransit(c, m)
  <2>1. /\ acks' = acks
        /\ out'[c] = out[c] \/ out'[c] = out[c] \o pending[c]
        /\ pending'[c] = pending[c] \/ pending'[c] = <<>>
    BY <1>5 DEF FlushPending
  <2>2. Holding(out'[c], m) => Holding(out[c], m) \/ Holding(pending[c], m)
    BY <2>1, HoldingJoined
  <2>3. Holding(pending'[c], m) => Holding(pending[c], m)
    BY <2>1, HoldingNone
  <2>. QED
    BY <2>1, <2>2, <2>3 DEF InTransit
<1>6. ASSUME NEW d \in Conns, ClientGoes(d) \/ ConnectionCloses(d) \/ AckCheck(d)
      PROVE  InTransit(c, m)
  <2>1. /\ pending'[c] \in {pending[c], <<>>} /\ out'[c] \in {out[c], <<>>}
        /\ acks'[c] \subseteq acks[c]
    BY <1>6 DEF ClientGoes, ConnectionCloses, AckCheck
  <2>. QED
    BY <2>1, HoldingNone DEF InTransit
<1>7. ASSUME NEW n \in Nodes, NodeStops(n) PROVE InTransit(c, m)
  <2>1. /\ pending'[c] \in {pending[c], <<>>} /\ out'[c] \in {out[c], <<>>}
        /\ acks'[c] \subseteq acks[c]
    BY <1>7 DEF NodeStops
  <2>. QED
    BY <2>1, HoldingNone DEF InTransit
<1>8. CASE UNCHANGED <<pending, out, acks>>
  BY <1>8 DEF InTransit
<1>9. ASSUME NEW d \in Conns, ConnProgress(d) \/ Request(d)
      PROVE  \/ LookupLocal(d) \/ LoginReplies(d) \/ ClientRead(d) \/ FlushPending(d)
             \/ ClientGoes(d) \/ ConnectionCloses(d) \/ AckCheck(d)
             \/ UNCHANGED <<pending, out, acks>>
  <2>1. ASSUME \/ InsertMessage(d) \/ MarkLocal(d) \/ QueryState(d) \/ Publish(d)
               \/ AckUpdate(d) \/ SyncStep(d)
        PROVE  UNCHANGED <<pending, out, acks>>
    BY <2>1 DEF InsertMessage, MarkLocal, QueryState, Publish, AckUpdate, SyncStep,
                LoginSync, LoginMark, LegacyQuery, LegacyRemove
  <2>2. ASSUME \/ LoginBinds(d) \/ ChannelStep(d) \/ LoginGoesOnline(d)
               \/ LogoutErases(d) \/ SessionOnly(Offline(d))
               \/ SessionOnly(Connect(d)) \/ LogoutChecks(d)
               \/ \E u \in Users : LoginAccepted(d, u)
        PROVE  UNCHANGED <<pending, out, acks>>
    BY <2>2 DEF LoginBinds, ChannelStep, LoginGoesOnline, LogoutErases, LogoutChecks,
                LoginAccepted, SessionOnly, SocketsUntouched
  <2>3. ASSUME NEW S, StartChat(d, S) PROVE UNCHANGED <<pending, out, acks>>
    BY <2>3 DEF StartChat
  <2>. QED
    BY <1>9, <2>1, <2>2, <2>3
       DEF ConnProgress, Request, ChatStep, SessionStep, OneChat, GroupChat
<1>10. ASSUME NEW n \in Nodes, NodeProgress(n) \/ NodeEvent(n)
       PROVE  \/ ObserverDeliver(n) \/ NodeStops(n)
              \/ UNCHANGED <<pending, out, acks>>
  BY <1>10 DEF NodeProgress, NodeEvent, ObserverMark, RedisApply, RedisBreaks,
               SessionOnly, SocketsUntouched
<1>11. CASE UNCHANGED allVars
  BY <1>8, <1>11 DEF allVars, deliveryVars
<1>. QED
  BY <1>1, <1>2, <1>3, <1>4, <1>5, <1>6, <1>7, <1>8, <1>9, <1>10, <1>11
     DEF DeliveryNext

\* Whoever holds the lock marks what he has sent before he lets it go, unless
\* his process stops.
LEMMA MarksEnd ==
    ASSUME DeliveryTypeOK, PlaceInv, WorkExists, MarksAreKept, [DeliveryNext]_allVars,
           NEW n \in Nodes, NEW m \in Msgs, BeingMarked(n, m)
    PROVE  BeingMarked(n, m)' \/ status'[m] \in {DELIVERED, ACKED} \/ NodeStops(n)
<1>. status \in [Msgs -> {Absent, CREATED, DELIVERED, ACKED}] /\ m # NoMsg
  BY DeliveryAssumption DEF DeliveryTypeOK, Msgs, NoMsg
<1>1. ASSUME MarkDelivered(m, receiver[m]), status[m] # Absent
      PROVE  status'[m] \in {DELIVERED, ACKED}
  BY <1>1 DEF MarkDelivered, MarksAreKept
<1>2. CASE obs[n] = m
  <2>1. status[m] # Absent
    BY <1>2 DEF WorkExists
  <2>2. CASE obs'[n] = obs[n]
    BY <1>2, <2>2 DEF BeingMarked
  <2>3. CASE ObserverMark(n)
    BY <1>1, <1>2, <2>1, <2>3 DEF ObserverMark
  <2>. QED
    BY <1>2, <2>2, <2>3, ObsMoves
<1>3. ASSUME NEW d \in Conns, NodeOf[d] = n, task[d] = "mark", cur[d] = m
      PROVE  BeingMarked(n, m)' \/ status'[m] \in {DELIVERED, ACKED} \/ NodeStops(n)
  <2>1. status[m] # Absent
    BY <1>3 DEF WorkExists
  <2>2. CASE Aside(d)
    BY <1>3, <2>2 DEF Aside, BeingMarked
  <2>3. CASE ActsAt(d)
    <3>1. pc[d] = "idle"
      BY <1>3 DEF PlaceInv, SyncSteps
    <3>2. MarkLocal(d)
      BY <1>3, <2>3, <3>1
         DEF ActsAt, ChatStep, SyncStep, InsertMessage, LookupLocal, QueryState, Publish,
             AckUpdate, LoginSync, LoginMark, LegacyQuery, LegacyRemove,
             LoginGoesOnline, LoginOnline, LoginReplies, AckCheck, StartChat, Accepted,
             TaskAt, At
    <3>. QED
      BY <1>1, <1>3, <2>1, <3>2 DEF MarkLocal
  <2>. QED
    BY <1>3, <2>2, <2>3, OthersAside
<1>. QED
  BY <1>2, <1>3 DEF BeingMarked

\* Behind the lock, nobody is between sending a message and marking it.
LEMMA NobodyMarks ==
    ASSUME NEW n \in Nodes, LockFree(n), NEW m \in Msgs
    PROVE  ~BeingMarked(n, m)
BY DeliveryAssumption DEF LockFree, BeingMarked, Msgs, NoMsg

\* Until it is marked, a message on its way is in the hands of whoever marks it.
LEMMA MarkStep ==
    ASSUME DeliveryTypeOK, HandlerHasMessage, NoDeadBinding, PlaceInv, WorkExists,
           BatchInv, MarkInv, [DeliveryNext]_allVars
    PROVE  MarkInv'
<1>. SUFFICES ASSUME MarksAreKept
              PROVE  /\ \A c \in Conns, m \in Msgs : InTransit(c, m)' =>
                           Noted(m)' \/ BeingMarked(NodeOf[c], m)'
                     /\ \A c \in Conns : task'[c] = "ack" =>
                           status'[cur'[c]] \in {DELIVERED, ACKED}
  BY DEF MarkInv, Noted
<1>. /\ NodeOf \in [Conns -> Nodes] /\ DOMAIN task = Conns /\ DOMAIN cur = Conns
     /\ \A m \in Msgs : Noted(m) => status'[m] \in {DELIVERED, ACKED}
  BY SessionAssumption, RowsKeep, RowsMove DEF DeliveryTypeOK
<1>1. ASSUME NEW c \in Conns, NEW m \in Msgs, InTransit(c, m)'
      PROVE  Noted(m)' \/ BeingMarked(NodeOf[c], m)'
  <2>1. ~NodeStops(NodeOf[c])
    <3>1. ASSUME NodeStops(NodeOf[c])
          PROVE  pending'[c] = <<>> /\ out'[c] = <<>> /\ acks'[c] = {}
      BY <3>1 DEF NodeStops
    <3>. QED
      BY <1>1, <3>1, HoldingNone DEF InTransit
  <2>2. CASE InTransit(c, m)
    BY <2>1, <2>2, MarksEnd DEF MarkInv, Noted
  <2>3. CASE Sends(c, m)
    <3>1. CASE task[c] = "reply" /\ m \in batch[c]
      BY <3>1 DEF BatchInv, Noted
    <3>2. CASE obs'[NodeOf[c]] = m
      BY <3>2 DEF BeingMarked
    <3>3. ASSUME NEW d \in Conns, NodeOf[d] = NodeOf[c], task'[d] = "mark", cur'[d] = m
          PROVE  BeingMarked(NodeOf[c], m)'
      BY <3>3 DEF BeingMarked
    <3>. QED
      BY <2>3, <3>1, <3>2, <3>3 DEF Sends
  <2>. QED
    BY <1>1, <2>2, <2>3, TransitMoves
<1>2. ASSUME NEW c \in Conns, task[c] = "ack", task'[c] = "ack", cur'[c] = cur[c]
      PROVE  status'[cur'[c]] \in {DELIVERED, ACKED}
  BY <1>2 DEF MarkInv, HandlerHasMessage
<1>3. ASSUME NEW c \in Conns, ActsAt(c), task'[c] = "ack"
      PROVE  status'[cur'[c]] \in {DELIVERED, ACKED}
  <2>1. CASE AckCheck(c)
    <3>1. PICK a \in acks[c] : AckOf(c, a)
      BY <2>1 DEF AckCheck
    <3>2. task[c] = "none" /\ LockFree(NodeOf[c])
      BY <2>1 DEF AckCheck
    <3>3. cur'[c] = a[2] /\ a[2] \in Msgs
      BY <1>3, <3>1, <3>2 DEF AckOf, DeliveryTypeOK
    <3>4. InTransit(c, a[2])
      BY <3>1 DEF InTransit
    <3>5. Noted(a[2])
      BY <3>2, <3>3, <3>4, NobodyMarks DEF MarkInv
    <3>. QED
      BY <3>3, <3>5
  <2>2. CASE ChatStep(c) \/ SyncStep(c)
    BY <1>3, <2>2 DEF ChatStep, InsertMessage, LookupLocal, MarkLocal, QueryState,
                      Publish, AckUpdate, SyncStep, LoginSync, LoginMark, LegacyQuery,
                      LegacyRemove, NextReceiver, GotoTask
  <2>3. CASE LoginGoesOnline(c) \/ LoginReplies(c) \/ \E S \in SUBSET Users : StartChat(c, S)
    BY <1>3, <2>3 DEF LoginGoesOnline, LoginReplies, StartChat, GotoTask
  <2>. QED
    BY <1>3, <2>1, <2>2, <2>3 DEF ActsAt
<1>4. ASSUME NEW c \in Conns, Aside(c), task'[c] = "ack"
      PROVE  status'[cur'[c]] \in {DELIVERED, ACKED}
  BY <1>2, <1>4 DEF Aside
<1>5. ASSUME NEW n \in Nodes, NodeStops(n), NEW d \in Conns, NodeOf[d] = n
      PROVE  task'[d] = "none"
  BY <1>5 DEF NodeStops
<1>. QED
  BY <1>1, <1>3, <1>4, <1>5, OthersAside

-----------------------------------------------------------------------------
(* The order of the stages *)

TransitInv == PlaceInv /\ WorkExists /\ BatchInv /\ MarkInv

\* The four parts hold in every reachable state.
LEMMA TransitAlways == DeliverySpec => []TransitInv
<1>1. DeliveryInit => TransitInv
  <2>. SUFFICES ASSUME DeliveryInit PROVE TransitInv
    OBVIOUS
  <2>1. PlaceInv /\ BatchInv
    BY DEF DeliveryInit, PlaceInv, BatchInv, SyncSteps
  <2>2. WorkExists
    BY DEF DeliveryInit, WorkExists
  <2>3. MarkInv
    BY SessionAssumption DEF DeliveryInit, MarkInv, InTransit, Holding
  <2>. QED
    BY <2>1, <2>2, <2>3 DEF TransitInv
<1>2. /\ TransitInv /\ AckInv /\ HandlerHasMessage /\ NoDeadBinding
      /\ [DeliveryNext]_allVars
      => TransitInv'
  BY PlaceStep, WorkStep, BatchStep, MarkStep DEF TransitInv, AckInv
<1>. QED
  BY <1>1, <1>2, AckInvariant, DeliveryRefinesSession, NoDeadEntry, PTL
     DEF DeliverySpec

\* No statement acks a row that is not marked.
LEMMA MarkedBeforeAcked ==
    ASSUME DeliveryTypeOK, MarkInv, RowStep, MarksAreKept,
           NEW m \in Msgs, status'[m] = ACKED
    PROVE  status[m] # CREATED
<1>. /\ status \in [Msgs -> {Absent, CREATED, DELIVERED, ACKED}]
     /\ CREATED \notin {DELIVERED, ACKED} /\ ACKED # DELIVERED
  BY DEF DeliveryTypeOK, CREATED, DELIVERED, ACKED
<1>1. CASE RowUntouched
  BY <1>1 DEF RowUntouched
<1>2. CASE RowCreated
  BY <1>2 DEF RowCreated
<1>3. CASE RowMarked
  BY <1>3 DEF RowMarked, MarkDelivered
<1>4. CASE RowAcked
  <2>1. PICK c \in Conns : task[c] = "ack" /\ \E u \in todo[c] : SetAcked(cur[c], u)
    BY <1>4 DEF RowAcked
  <2>2. status[cur[c]] \in {DELIVERED, ACKED}
    BY <2>1 DEF MarkInv, Noted
  <2>3. status'[m] = status[m] \/ m = cur[c]
    BY <2>1 DEF SetAcked
  <2>. QED
    BY <2>2, <2>3
<1>. QED
  BY <1>1, <1>2, <1>3, <1>4 DEF RowStep

\* An ACK never overtakes the mark, on any node, by way of the sender's own
\* process, of Redis or of the unread sync, and whatever crashes: while a message
\* is on its way unmarked, a thread of the receiver's process holds _connMutex.
THEOREM MarkedFirst ==
    ASSUME MarksAreKept
    PROVE  DeliverySpec => DeliveredBeforeAcked
<1>1. DeliveryTypeOK /\ MarkInv /\ [DeliveryNext]_allVars
        => [\A m \in Msgs : status'[m] = ACKED => status[m] # CREATED]_allVars
  BY RowsMove, MarkedBeforeAcked
<1>2. TransitInv => MarkInv
  BY DEF TransitInv
<1>. QED
  BY <1>1, <1>2, TransitAlways, DeliveryTypeCorrect, PTL
     DEF DeliverySpec, DeliveredBeforeAcked

-----------------------------------------------------------------------------
(* The refinement *)

\* A row that is not there has no receiver.
RowsWhole == \A m \in Msgs : status[m] = Absent => receiver[m] = None

\* Someone shows messages; no row changes then.
Displays ==
    /\ RowUntouched
    /\ \E u \in Users \cup {None}, S \in SUBSET (Msgs \cup Legacy) :
         shown' = shown \cup ({u} \X S)

\* A step that displays something leaves the rows alone.
LEMMA ShownMoves ==
    ASSUME DeliveryTypeOK, [DeliveryNext]_allVars
    PROVE  UNCHANGED shown \/ Displays
<1>1. ASSUME NEW c \in Conns, ClientRead(c) PROVE Displays
  <2>1. out[c] \in Seq(Frame) /\ out[c] # <<>> /\ curUser[c] \in Users \cup {None}
    BY <1>1 DEF ClientRead, ReadAndAck, DeliveryTypeOK
  <2>2. Head(out[c]) \in Frame
    BY <2>1
  <2>3. /\ Reader(c) \in Users \cup {None}
        /\ Head(out[c]).msgs \in SUBSET (Msgs \cup Legacy)
    BY <2>1, <2>2 DEF Frame, Reader
  <2>4. /\ shown' = shown \cup ({Reader(c)} \X Head(out[c]).msgs)
        /\ RowUntouched
    BY <1>1 DEF ClientRead, ReadAndAck, RowUntouched
  <2>. QED
    BY <2>3, <2>4 DEF Displays
<1>2. ASSUME NEW c \in Conns, ChatStep(c) \/ SyncStep(c) \/ AckCheck(c)
      PROVE  UNCHANGED shown
  BY <1>2 DEF ChatStep, SyncStep, InsertMessage, LookupLocal, MarkLocal, QueryState,
              Publish, AckUpdate, LoginSync, LoginMark, LegacyQuery, LegacyRemove,
              AckCheck
<1>3. ASSUME NEW c \in Conns, SessionStep(c) \/ FlushPending(c) PROVE UNCHANGED shown
  BY <1>3 DEF SessionStep, LoginBinds, ChannelStep, LoginGoesOnline, LoginReplies,
              LogoutErases, ConnectionCloses, FlushPending, SessionOnly,
              MessagesUntouched
<1>4. ASSUME NEW c \in Conns, Request(c) PROVE UNCHANGED shown
  BY <1>4 DEF Request, SessionOnly, ClientGoes, LogoutChecks, LoginAccepted, OneChat,
              GroupChat, StartChat, MessagesUntouched
<1>5. ASSUME NEW n \in Nodes, NodeProgress(n) PROVE UNCHANGED shown
  BY <1>5 DEF NodeProgress, ObserverDeliver, ObserverMark, RedisApply
<1>6. ASSUME NEW n \in Nodes, NodeEvent(n) PROVE UNCHANGED shown
  BY <1>6 DEF NodeEvent, NodeStops, RedisBreaks, SessionOnly, MessagesUntouched
<1>7. CASE UNCHANGED allVars
  BY <1>7 DEF allVars, deliveryVars
<1>. QED
  BY <1>1, <1>2, <1>3, <1>4, <1>5, <1>6, <1>7 DEF DeliveryNext, ConnProgress

\* A receiver is set with the INSERT, not before.
LEMMA RowsWholeStep ==
    ASSUME DeliveryTypeOK, RowsWhole, RowStep
    PROVE  RowsWhole'
<1>. /\ status \in [Msgs -> {Absent, CREATED, DELIVERED, ACKED}]
     /\ DOMAIN receiver = Msgs
     /\ Absent \notin {CREATED, DELIVERED, ACKED}
  BY DEF DeliveryTypeOK, Absent, CREATED, DELIVERED, ACKED
<1>. SUFFICES ASSUME NEW m \in Msgs, status'[m] = Absent PROVE receiver'[m] = None
  BY DEF RowsWhole
<1>1. CASE RowUntouched
  BY <1>1 DEF RowUntouched, RowsWhole
<1>2. CASE RowCreated
  BY <1>2 DEF RowCreated, RowsWhole
<1>3. CASE RowMarked
  BY <1>3 DEF RowMarked, MarkDelivered, RowsWhole
<1>4. CASE RowAcked
  BY <1>4 DEF RowAcked, SetAcked, RowsWhole
<1>. QED
  BY <1>1, <1>2, <1>3, <1>4 DEF RowStep

\* Only rows have receivers, in every reachable state.
LEMMA RowsAlwaysWhole == DeliverySpec => []RowsWhole
<1>1. DeliveryInit => RowsWhole
  BY DEF DeliveryInit, RowsWhole
<1>2. RowsWhole /\ DeliveryTypeOK /\ [DeliveryNext]_allVars => RowsWhole'
  BY RowsMove, RowsWholeStep
<1>. QED
  BY <1>1, <1>2, DeliveryTypeCorrect, PTL DEF DeliverySpec

\* The stage of a row tells its status.
LEMMA Stage ==
    /\ StageOf(Absent) = "absent" /\ StageOf(CREATED) = "created"
    /\ StageOf(DELIVERED) = "delivered" /\ StageOf(ACKED) = "acked"
BY DEF StageOf, Absent, CREATED, DELIVERED, ACKED

\* One row changes to s: so does its stage.
LEMMA StageMoves ==
    ASSUME DeliveryTypeOK, NEW m \in Msgs, NEW s,
           status' = [status EXCEPT ![m] = s]
    PROVE  [k \in Msgs |-> StageOf(status'[k])]
             = [[k \in Msgs |-> StageOf(status[k])] EXCEPT ![m] = StageOf(s)]
<1>. DOMAIN status = Msgs
  BY DEF DeliveryTypeOK
<1>. QED
  OBVIOUS

\* Every step of Delivery is a step of Lifecycle or leaves it alone.
LEMMA LifeStep ==
    ASSUME AckInv, HandlerHasMessage, MarkInv, RowsWhole, [DeliveryNext]_allVars
    PROVE  [Life!LifeNext]_(Life!lifeVars)
<1>. DEFINE Seen == {p \in shown : p[2] \in Msgs}
<1>. DeliveryTypeOK /\ AcksWereShown
  BY DEF AckInv
<1>. /\ status \in [Msgs -> {Absent, CREATED, DELIVERED, ACKED}]
     /\ Absent \notin {CREATED, DELIVERED, ACKED}
  BY DEF DeliveryTypeOK, Absent, CREATED, DELIVERED, ACKED
<1>1. CASE Displays
  <2>1. PICK u \in Users \cup {None}, S \in SUBSET (Msgs \cup Legacy) :
           shown' = shown \cup ({u} \X S)
    BY <1>1 DEF Displays
  <2>2. Seen' = Seen \cup ({u} \X (S \cap Msgs))
    BY <2>1
  <2>3. Life!Display
    BY <1>1, <2>2 DEF Life!Display, Displays, RowUntouched
  <2>. QED
    BY <2>3 DEF Life!LifeNext
<1>2. CASE UNCHANGED shown /\ RowUntouched
  BY <1>2 DEF RowUntouched, Life!lifeVars
<1>3. CASE UNCHANGED shown /\ RowCreated
  <2>1. PICK m \in Msgs, v \in Users :
          /\ status[m] = Absent
          /\ status' = [status EXCEPT ![m] = CREATED]
          /\ receiver' = [receiver EXCEPT ![m] = v]
    BY <1>3 DEF RowCreated, FreshId
  <2>2. Life!Create(m)
    BY <1>3, <2>1, StageMoves, Stage DEF Life!Create
  <2>. QED
    BY <2>2 DEF Life!LifeNext
<1>4. CASE UNCHANGED shown /\ RowMarked
  <2>1. PICK m, u : MarkDelivered(m, u)
    BY <1>4 DEF RowMarked
  <2>2. CASE m \in Msgs /\ status[m] = CREATED /\ status' # status
    <3>1. status' = [status EXCEPT ![m] = DELIVERED]
      BY <2>1, <2>2 DEF MarkDelivered
    <3>2. Life!Deliver(m)
      BY <1>4, <2>2, <3>1, StageMoves, Stage DEF Life!Deliver, RowMarked
    <3>. QED
      BY <2>2, <3>2 DEF Life!LifeNext
  <2>3. CASE status' = status
    BY <1>4, <2>3 DEF RowMarked, Life!lifeVars
  <2>4. m \notin Msgs \/ status[m] # CREATED => status' = status
    BY <2>1 DEF MarkDelivered
  <2>. QED
    BY <2>2, <2>3, <2>4
<1>5. CASE UNCHANGED shown /\ RowAcked
  <2>1. PICK c \in Conns : task[c] = "ack" /\ \E u \in todo[c] : SetAcked(cur[c], u)
    BY <1>5 DEF RowAcked
  <2>2. PICK u \in todo[c] : SetAcked(cur[c], u)
    BY <2>1
  <2>3. cur[c] \in Msgs /\ u \in Users /\ <<u, cur[c]>> \in shown
    BY <2>1, <2>2 DEF HandlerHasMessage, AcksWereShown, DeliveryTypeOK
  <2>4. CASE status' = status
    BY <1>5, <2>4 DEF RowAcked, Life!lifeVars
  <2>5. CASE status' # status
    <3>1. receiver[cur[c]] = u /\ status' = [status EXCEPT ![cur[c]] = ACKED]
      BY <2>2, <2>5 DEF SetAcked
    <3>2. status[cur[c]] # ACKED
      BY <2>5, <3>1
    <3>3. status[cur[c]] # Absent
      BY <2>3, <3>1, SessionAssumption DEF RowsWhole
    <3>4. status[cur[c]] = DELIVERED \/ ("mysql" \in Faults /\ status[cur[c]] = CREATED)
      BY <2>1, <2>3, <3>2, <3>3 DEF MarkInv, MarksAreKept, Noted
    <3>5. <<receiver[cur[c]], cur[c]>> \in Seen
      BY <2>3, <3>1
    <3>6. Life!Ack(cur[c])
      BY <1>5, <2>3, <3>1, <3>4, <3>5, StageMoves, Stage DEF Life!Ack, RowAcked
    <3>. QED
      BY <2>3, <3>6 DEF Life!LifeNext
  <2>. QED
    BY <2>4, <2>5
<1>. QED
  BY <1>1, <1>2, <1>3, <1>4, <1>5, ShownMoves, RowsMove DEF RowStep

\* Seen from outside, every message lives the life module Lifecycle describes,
\* whatever the clients, the nodes, Redis and MySQL do: created once, marked
\* delivered before it is acked unless MySQL loses the mark, acked only when its
\* receiver has seen it, never back.
THEOREM ImplementsLifecycle == DeliverySpec => LifecycleSpec
<1>1. DeliveryInit => Life!LifeInit
  <2>. SUFFICES ASSUME DeliveryInit PROVE Life!LifeInit
    OBVIOUS
  <2>1. [m \in Msgs |-> StageOf(status[m])] = [m \in Msgs |-> "absent"]
    BY Stage DEF DeliveryInit
  <2>2. {p \in shown : p[2] \in Msgs} = {}
    BY DEF DeliveryInit
  <2>. QED
    BY <2>1, <2>2 DEF DeliveryInit, Life!LifeInit
<1>2. TransitInv => MarkInv
  BY DEF TransitInv
<1>. QED
  BY <1>1, <1>2, LifeStep, AckInvariant, TransitAlways, RowsAlwaysWhole, PTL
     DEF DeliverySpec, LifecycleSpec, Life!LifeSpec

-----------------------------------------------------------------------------
(* No message is stranded *)

\* The assumptions of NoStrandedMessage: handlers of one account do not
\* overlap, nothing fails, Redis carries out a SUBSCRIBE at once and the unread
\* sync has room for every row.
Undisturbed ==
    /\ Faults = {} /\ ~Overlap /\ PromptSubscribe
    /\ MaxMsgs <= SyncLimit

\* A client that is logged in to v reads frame i of s in the name of u: u has
\* been answered last, or is v, who was there before.
ReadAs(s, v, i, u) ==
    \/ v = u /\ \A j \in 1..i : s[j].to = None
    \/ \E j \in 1..i : s[j].to = u /\ \A k \in (j + 1)..i : s[k].to = None

\* OnItsWay without the thread that marks, whose frame has gone out before, and
\* with the name in which the client or the handler of an ACK has the message.
Brings(m, u, c) ==
    \/ \E d \in Conns : cur[d] = m /\ task[d] \in {"lookup", "state", "publish"}
    \/ \E i \in DOMAIN inbox[NodeOf[c]] : inbox[NodeOf[c]][i] = m
    \/ Holding(pending[c], m)
    \/ \E i \in DOMAIN out[c] : m \in out[c][i].msgs /\ ReadAs(out[c], curUser[c], i, u)
    \/ acct[c] = u /\ (pc[c] \in {"subscribe", "online"} \/ task[c] = "sync")
    \/ m \in batch[c]
    \/ <<u, m>> \in acks[c]
    \/ task[c] = "ack" /\ cur[c] = m /\ todo[c] = {u}

BroughtInv ==
    \A m \in Msgs, u \in Users, c \in Conns :
        m \in Unacked(u) /\ Bound(c, u) /\ link[c] = "open" => Brings(m, u, c)

\* What a client would read after all its frames it would read in the name of
\* its session.
NameInv ==
    \A c \in Conns :
        /\ link[c] = "new" => session[c] = None
        /\ \A i \in DOMAIN pending[c] : pending[c][i].to = None
        /\ link[c] = "open" /\ session[c] # None
              => ReadAs(out[c], curUser[c], Len(out[c]), session[c])

\* Without faults, every process and Redis work.
CalmInv ==
    \A n \in Nodes : proc[n] = "up" /\ redisUp[n] /\ redisSubs[n] = subscribed[n]

\* The frames of a client, and more of them after i.
LEMMA ReadAsKept ==
    ASSUME NEW s, NEW t, NEW v, NEW u, NEW i \in Nat,
           \A j \in 1..i : t[j] = s[j], ReadAs(s, v, i, u)
    PROVE  ReadAs(t, v, i, u)
<1>1. CASE v = u /\ \A j \in 1..i : s[j].to = None
  BY <1>1 DEF ReadAs
<1>2. ASSUME NEW j \in 1..i, s[j].to = u, \A k \in (j + 1)..i : s[k].to = None
      PROVE  ReadAs(t, v, i, u)
  <2>1. \A k \in (j + 1)..i : k \in 1..i
    OBVIOUS
  <2>. QED
    BY <1>2, <2>1 DEF ReadAs
<1>. QED
  BY <1>1, <1>2 DEF ReadAs

\* Chats after frame i are read in the same name.
LEMMA ReadAsOn ==
    ASSUME NEW s, NEW v, NEW u, NEW i \in Nat, NEW n \in Nat, i <= n,
           \A k \in (i + 1)..n : s[k].to = None, ReadAs(s, v, i, u)
    PROVE  ReadAs(s, v, n, u)
<1>1. CASE v = u /\ \A j \in 1..i : s[j].to = None
  <2>1. \A j \in 1..n : j \in 1..i \/ j \in (i + 1)..n
    OBVIOUS
  <2>. QED
    BY <1>1, <2>1 DEF ReadAs
<1>2. ASSUME NEW j \in 1..i, s[j].to = u, \A k \in (j + 1)..i : s[k].to = None
      PROVE  ReadAs(s, v, n, u)
  <2>1. j \in 1..n /\ \A k \in (j + 1)..n : k \in (j + 1)..i \/ k \in (i + 1)..n
    OBVIOUS
  <2>. QED
    BY <1>2, <2>1 DEF ReadAs
<1>. QED
  BY <1>1, <1>2 DEF ReadAs

\* The response to u's login is read in the name of u.
LEMMA ReadAsAnswered ==
    ASSUME NEW s, NEW v, NEW u, NEW n \in Nat \ {0}, s[n].to = u
    PROVE  ReadAs(s, v, n, u)
<1>1. n \in 1..n /\ \A k \in (n + 1)..n : FALSE
  OBVIOUS
<1>. QED
  BY <1>1 DEF ReadAs

\* The client takes its first frame.
LEMMA ReadAsNext ==
    ASSUME NEW s \in Seq(Frame), s # <<>>, NEW v, NEW u \in Users, NEW i \in Nat,
           ReadAs(s, v, i, u), i <= Len(s),
           NEW w, w = IF s[1].to = None THEN v ELSE s[1].to
    PROVE  /\ i # 0 => ReadAs(Tail(s), w, i - 1, u)
           /\ i = 0 => v = u
           /\ i = 1 => w = u
<1>1. \A k \in 1..(i - 1) : Tail(s)[k] = s[k + 1] /\ k + 1 \in 1..i
  OBVIOUS
<1>2. u # None
  BY SessionAssumption
<1>3. CASE v = u /\ \A j \in 1..i : s[j].to = None
  <2>1. i # 0 => 1 \in 1..i
    OBVIOUS
  <2>2. i # 0 => w = u
    BY <1>3, <2>1
  <2>3. i # 0 => ReadAs(Tail(s), w, i - 1, u)
    BY <1>1, <1>3, <2>2 DEF ReadAs
  <2>. QED
    BY <1>3, <2>2, <2>3
<1>4. ASSUME NEW j \in 1..i, s[j].to = u, \A k \in (j + 1)..i : s[k].to = None
      PROVE  i # 0 /\ ReadAs(Tail(s), w, i - 1, u) /\ (i = 1 => w = u)
  <2>1. CASE j = 1
    <3>1. w = u
      BY <1>2, <1>4, <2>1
    <3>2. \A k \in 1..(i - 1) : k + 1 \in (j + 1)..i
      BY <2>1
    <3>3. \A k \in 1..(i - 1) : Tail(s)[k].to = None
      BY <1>1, <1>4, <3>2
    <3>. QED
      BY <3>1, <3>3 DEF ReadAs
  <2>2. CASE j # 1
    <3>1. j - 1 \in 1..(i - 1) /\ Tail(s)[j - 1] = s[j]
      BY <2>2
    <3>2. \A k \in ((j - 1) + 1)..(i - 1) : k + 1 \in (j + 1)..i /\ k \in 1..(i - 1)
      BY <2>2
    <3>3. \A k \in ((j - 1) + 1)..(i - 1) : Tail(s)[k].to = None
      BY <1>1, <1>4, <3>2
    <3>. QED
      BY <1>4, <2>2, <3>1, <3>3 DEF ReadAs
  <2>. QED
    BY <2>1, <2>2
<1>. QED
  BY <1>3, <1>4 DEF ReadAs

\* r is what the frames s become when the frames t are written after them.
Joined(r, s, t) == r = s \o t

\* After as many frames as s has, those of r are from t.
Ends(r, s, t) == \A k \in (Len(s) + 1)..Len(r) : \E i \in DOMAIN t : r[k] = t[i]

\* Those before stay where they are, those behind are those of t.
LEMMA JoinedFrames ==
    \A s, t \in Seq(Frame) : \A r : Joined(r, s, t) =>
        /\ r \in Seq(Frame) /\ Len(s) \in Nat /\ Len(r) \in Nat /\ Len(s) <= Len(r)
        /\ \A j \in 1..Len(s) : r[j] = s[j]
        /\ \A i \in DOMAIN t : Len(s) + i \in DOMAIN r /\ r[Len(s) + i] = t[i]
        /\ Ends(r, s, t)
<1>. TAKE s, t \in Seq(Frame)
<1>. TAKE r
<1>. HAVE Joined(r, s, t)
<1>1. r \in Seq(Frame) /\ Len(s) \in Nat /\ Len(t) \in Nat /\ Len(r) = Len(s) + Len(t)
  BY DEF Joined
<1>2. \A j \in 1..Len(s) : r[j] = s[j]
  BY DEF Joined
<1>3. \A i \in DOMAIN t : Len(s) + i \in DOMAIN r /\ r[Len(s) + i] = t[i]
  <2>. SUFFICES ASSUME NEW i \in DOMAIN t
                PROVE  Len(s) + i \in DOMAIN r /\ r[Len(s) + i] = t[i]
    OBVIOUS
  <2>1. i \in 1..Len(t)
    OBVIOUS
  <2>2. Len(s) + i \in DOMAIN r
    BY <1>1, <2>1
  <2>3. r[Len(s) + i] = t[i]
    BY <1>1, <2>1 DEF Joined
  <2>. QED
    BY <2>2, <2>3
<1>4. Ends(r, s, t)
  <2>. SUFFICES ASSUME NEW k \in (Len(s) + 1)..Len(r)
                PROVE  \E i \in DOMAIN t : r[k] = t[i]
    BY DEF Ends
  <2>1. k - Len(s) \in DOMAIN t /\ Len(s) + (k - Len(s)) = k
    BY <1>1
  <2>. QED
    BY <1>3, <2>1
<1>5. Len(r) \in Nat /\ Len(s) <= Len(r)
  BY <1>1
<1>. QED
  BY <1>1, <1>2, <1>3, <1>4, <1>5, Zenon

-----------------------------------------------------------------------------
\* Without faults nothing stops a process or breaks a link to Redis.
LEMMA NoEvents ==
    ASSUME Faults = {}, CalmInv, NEW n \in Nodes, NodeEvent(n)
    PROVE  FALSE
BY DEF NodeEvent, NodeStops, RedisBreaks, SessionOnly, Crash, Exit, RedisLost, Interrupt,
       Restart, CalmInv

\* Every process works on and Redis follows each SUBSCRIBE and UNSUBSCRIBE.
LEMMA CalmStep ==
    ASSUME Faults = {}, PromptSubscribe, DeliveryTypeOK, CalmInv, [DeliveryNext]_allVars
    PROVE  CalmInv'
<1>1. ASSUME UNCHANGED <<proc, redisUp, redisSubs, subscribed>> PROVE CalmInv'
  BY <1>1 DEF CalmInv
<1>2. ASSUME NEW c \in Conns, ChannelStep(c) PROVE CalmInv'
  <2>1. UNCHANGED <<proc, redisUp>> /\ redisSubs' = subscribed'
    BY <1>2 DEF ChannelStep, FollowSubscriptions, LoginSubscribe, Unsubscribe
  <2>. QED
    BY <2>1 DEF CalmInv
<1>3. ASSUME NEW c \in Conns, ChatStep(c) \/ SyncStep(c)
      PROVE  UNCHANGED <<proc, redisUp, redisSubs, subscribed>>
  BY <1>3 DEF ChatStep, InsertMessage, LookupLocal, MarkLocal, QueryState, Publish,
              AckUpdate, SyncStep, LoginSync, LoginMark, LegacyQuery, LegacyRemove,
              sessionVars
<1>4. ASSUME NEW c \in Conns, SessionStep(c), ~ChannelStep(c)
      PROVE  UNCHANGED <<proc, redisUp, redisSubs, subscribed>>
  BY <1>4 DEF SessionStep, LoginBinds, LoginGoesOnline, LoginReplies, LogoutErases,
              ConnectionCloses, SessionOnly, RedisUntouched, LoginBind, LoginOnline,
              LoginReply, LoginOutErase, CloseErase, Offline
<1>5. ASSUME NEW c \in Conns, Request(c)
      PROVE  UNCHANGED <<proc, redisUp, redisSubs, subscribed>>
  BY <1>5 DEF Request, SessionOnly, Connect, ClientGoes, PeerClose, LogoutChecks,
              LoginOutCheck, LoginAccepted, LoginQuery, OneChat, GroupChat, StartChat,
              RedisUntouched, sessionVars
<1>6. ASSUME NEW c \in Conns, AckCheck(c) \/ FlushPending(c) \/ ClientRead(c)
      PROVE  UNCHANGED <<proc, redisUp, redisSubs, subscribed>>
  BY <1>6 DEF AckCheck, FlushPending, ClientRead, ReadAndAck, RedisUntouched, sessionVars
<1>7. ASSUME NEW n \in Nodes, NodeProgress(n)
      PROVE  UNCHANGED <<proc, redisUp, redisSubs, subscribed>>
  BY <1>7 DEF NodeProgress, ObserverDeliver, ObserverMark, RedisApply, sessionVars
<1>8. ASSUME NEW n \in Nodes, NodeEvent(n) PROVE FALSE
  BY <1>8, NoEvents
<1>9. CASE UNCHANGED allVars
  BY <1>1, <1>9 DEF allVars, sessionVars, deliveryVars
<1>. QED
  BY <1>1, <1>2, <1>3, <1>4, <1>5, <1>6, <1>7, <1>8, <1>9 DEF DeliveryNext, ConnProgress

\* Nothing happens to connection c and its client.
Apart(c) ==
    /\ task'[c] = task[c] /\ cur'[c] = cur[c] /\ todo'[c] = todo[c]
    /\ batch'[c] = batch[c] /\ acks'[c] = acks[c]
    /\ out'[c] = out[c] /\ curUser'[c] = curUser[c]
    /\ pc'[c] = pc[c] /\ acct'[c] = acct[c] /\ link'[c] = link[c]
    /\ session'[c] = session[c]

\* A connection is touched by its own steps alone, queues apart.
LEMMA OthersApart ==
    ASSUME Faults = {}, DeliveryTypeOK, CalmInv, [DeliveryNext]_allVars, NEW c \in Conns
    PROVE  ConnProgress(c) \/ Request(c) \/ Apart(c)
<1>. /\ DOMAIN task = Conns /\ DOMAIN cur = Conns /\ DOMAIN todo = Conns
     /\ DOMAIN batch = Conns /\ DOMAIN acks = Conns /\ DOMAIN out = Conns
     /\ DOMAIN curUser = Conns /\ DOMAIN pc = Conns /\ DOMAIN acct = Conns
     /\ DOMAIN link = Conns /\ DOMAIN session = Conns
  BY DEF DeliveryTypeOK, SessionTypeOK
<1>. USE DEF Apart, sessionVars
<1>1. ASSUME NEW d \in Conns, d # c, ChatStep(d) PROVE Apart(c)
  <2>1. CASE InsertMessage(d)
    BY <1>1, <2>1 DEF InsertMessage, NextReceiver, GotoTask
  <2>2. CASE LookupLocal(d)
    BY <1>1, <2>2 DEF LookupLocal, GotoTask, Write
  <2>3. CASE MarkLocal(d) \/ QueryState(d) \/ Publish(d)
    BY <1>1, <2>3 DEF MarkLocal, QueryState, Publish, NextReceiver, GotoTask
  <2>4. CASE AckUpdate(d)
    BY <1>1, <2>4 DEF AckUpdate, NextReceiver, GotoTask
  <2>. QED
    BY <1>1, <2>1, <2>2, <2>3, <2>4 DEF ChatStep
<1>2. ASSUME NEW d \in Conns, d # c, SyncStep(d) PROVE Apart(c)
  <2>1. CASE LoginSync(d) \/ LoginMark(d)
    BY <1>2, <2>1 DEF LoginSync, LoginMark, GotoTask
  <2>2. CASE LegacyQuery(d) \/ LegacyRemove(d)
    BY <1>2, <2>2 DEF LegacyQuery, LegacyRemove, GotoTask
  <2>. QED
    BY <1>2, <2>1, <2>2 DEF SyncStep
<1>3. ASSUME NEW d \in Conns, d # c, SessionStep(d) PROVE Apart(c)
  <2>. USE DEF SocketsUntouched, HandlersUntouched, SessionOnly, Goto, GotoTask
  <2>1. CASE LoginBinds(d) \/ ChannelStep(d) \/ LogoutErases(d) \/ SessionOnly(Offline(d))
    BY <1>3, <2>1 DEF LoginBinds, ChannelStep, LogoutErases, LoginBind, LoginSubscribe,
                      Unsubscribe, LoginOutErase, Offline
  <2>2. CASE LoginGoesOnline(d)
    BY <1>3, <2>2 DEF LoginGoesOnline, LoginOnline
  <2>3. CASE LoginReplies(d)
    BY <1>3, <2>3 DEF LoginReplies, LoginReply, Write
  <2>4. CASE ConnectionCloses(d)
    BY <1>3, <2>4 DEF ConnectionCloses, CloseErase, ReleaseAccount, NothingToRelease
  <2>. QED
    BY <1>3, <2>1, <2>2, <2>3, <2>4 DEF SessionStep
<1>4. ASSUME NEW d \in Conns, d # c, Request(d) PROVE Apart(c)
  <2>. USE DEF SocketsUntouched, HandlersUntouched, SessionOnly, Goto, GotoTask
  <2>1. CASE \/ SessionOnly(Connect(d)) \/ LogoutChecks(d)
             \/ \E u \in Users : LoginAccepted(d, u)
    BY <1>4, <2>1 DEF Connect, LogoutChecks, LoginOutCheck, LoginAccepted, LoginQuery
  <2>2. CASE ClientGoes(d)
    BY <1>4, <2>2 DEF ClientGoes, PeerClose
  <2>3. ASSUME NEW S, StartChat(d, S) PROVE Apart(c)
    BY <1>4, <2>3 DEF StartChat
  <2>. QED
    BY <1>4, <2>1, <2>2, <2>3 DEF Request, OneChat, GroupChat
<1>5. ASSUME NEW d \in Conns, d # c, AckCheck(d) \/ FlushPending(d) \/ ClientRead(d)
      PROVE  Apart(c)
  <2>1. CASE AckCheck(d)
    BY <1>5, <2>1 DEF AckCheck, AckOf, GotoTask
  <2>2. CASE FlushPending(d) \/ ClientRead(d)
    BY <1>5, <2>2 DEF FlushPending, ClientRead, ReadAndAck, HandlersUntouched
  <2>. QED
    BY <1>5, <2>1, <2>2
<1>6. ASSUME NEW n \in Nodes, NodeProgress(n) PROVE Apart(c)
  BY <1>6 DEF NodeProgress, ObserverDeliver, ObserverMark, RedisApply
<1>7. ASSUME NEW n \in Nodes, NodeEvent(n) PROVE FALSE
  BY <1>7, NoEvents
<1>8. CASE UNCHANGED allVars
  BY <1>8 DEF allVars, deliveryVars
<1>. QED
  BY <1>1, <1>2, <1>3, <1>4, <1>5, <1>6, <1>7, <1>8 DEF DeliveryNext, ConnProgress

\* Only its loop, or the end of its client, empties what is queued for c.
LEMMA PendingMoves ==
    ASSUME Faults = {}, DeliveryTypeOK, HandlerHasMessage, CalmInv,
           [DeliveryNext]_allVars, NEW c \in Conns
    PROVE  \/ pending'[c] = pending[c]
           \/ \E k \in Msgs : pending'[c] = Append(pending[c], ChatFrame(k))
           \/ FlushPending(c) \/ ClientGoes(c)
<1>. DOMAIN pending = Conns
  BY DEF DeliveryTypeOK
<1>1. ASSUME NEW d, NEW k \in Msgs, Enqueue(d, ChatFrame(k))
      PROVE  \/ pending'[c] = pending[c]
             \/ pending'[c] = Append(pending[c], ChatFrame(k))
  BY <1>1 DEF Enqueue
<1>2. ASSUME NEW d \in Conns, LookupLocal(d)
      PROVE  pending' = pending \/ \E k \in Msgs : \E e : Enqueue(e, ChatFrame(k))
  BY <1>2 DEF LookupLocal, TaskAt, HandlerHasMessage
<1>3. ASSUME NEW n \in Nodes, ObserverDeliver(n)
      PROVE  pending' = pending \/ \E k \in Msgs : \E e : Enqueue(e, ChatFrame(k))
  BY <1>3 DEF ObserverDeliver, DeliveryTypeOK
<1>4. ASSUME NEW d \in Conns, ConnProgress(d)
      PROVE  LookupLocal(d) \/ FlushPending(d) \/ pending' = pending
  BY <1>4 DEF ConnProgress, ChatStep, SyncStep, SessionStep, InsertMessage, MarkLocal,
              QueryState, Publish, AckUpdate, LoginSync, LoginMark, LegacyQuery,
              LegacyRemove, LoginBinds, ChannelStep, LoginGoesOnline, LoginReplies,
              LogoutErases, ConnectionCloses, AckCheck, ClientRead, ReadAndAck,
              SessionOnly, SocketsUntouched
<1>5. ASSUME NEW d \in Conns, Request(d) PROVE ClientGoes(d) \/ pending' = pending
  BY <1>5 DEF Request, SessionOnly, LogoutChecks, LoginAccepted, OneChat, GroupChat,
              StartChat, SocketsUntouched
<1>6. ASSUME NEW d \in Conns, FlushPending(d) \/ ClientGoes(d), c # d
      PROVE  pending'[c] = pending[c]
  BY <1>6 DEF FlushPending, ClientGoes
<1>7. ASSUME NEW n \in Nodes, NodeProgress(n)
      PROVE  ObserverDeliver(n) \/ pending' = pending
  BY <1>7 DEF NodeProgress, ObserverMark, RedisApply
<1>8. ASSUME NEW n \in Nodes, NodeEvent(n) PROVE FALSE
  BY <1>8, NoEvents
<1>9. CASE UNCHANGED allVars
  BY <1>9 DEF allVars, deliveryVars
<1>. QED
  BY <1>1, <1>2, <1>3, <1>4, <1>5, <1>6, <1>7, <1>8, <1>9 DEF DeliveryNext

\* What waits in an inbox waits on, until the observer takes it.
LEMMA InboxKeeps ==
    ASSUME Faults = {}, DeliveryTypeOK, HandlerHasMessage, CalmInv,
           [DeliveryNext]_allVars, NEW n \in Nodes, NEW i \in DOMAIN inbox[n]
    PROVE  \/ \E k \in DOMAIN inbox'[n] : inbox'[n][k] = inbox[n][i]
           \/ ObserverDeliver(n) /\ inbox[n][i] = Head(inbox[n])
<1>. inbox \in [Nodes -> Seq(Msgs)]
  BY DEF DeliveryTypeOK
<1>1. ASSUME NEW c \in Conns, Publish(c)
      PROVE  \E k \in DOMAIN inbox'[n] : inbox'[n][k] = inbox[n][i]
  <2>1. cur[c] \in Msgs
    BY <1>1 DEF Publish, TaskAt, HandlerHasMessage
  <2>2. inbox'[n] = inbox[n] \/ inbox'[n] = Append(inbox[n], cur[c])
    BY <1>1 DEF Publish
  <2>3. CASE inbox'[n] = Append(inbox[n], cur[c])
    <3>1. i \in DOMAIN inbox'[n] /\ inbox'[n][i] = inbox[n][i]
      BY <2>1, <2>3
    <3>. QED
      BY <3>1
  <2>. QED
    BY <2>2, <2>3
<1>2. ASSUME NEW k \in Nodes, ObserverDeliver(k)
      PROVE  \/ \E j \in DOMAIN inbox'[n] : inbox'[n][j] = inbox[n][i]
             \/ k = n /\ inbox[n][i] = Head(inbox[n])
  <2>1. inbox'[n] = IF n = k THEN Tail(inbox[n]) ELSE inbox[n]
    BY <1>2 DEF ObserverDeliver
  <2>2. CASE n = k /\ i # 1
    <3>1. i - 1 \in DOMAIN inbox'[n] /\ inbox'[n][i - 1] = inbox[n][i]
      BY <2>1, <2>2
    <3>. QED
      BY <3>1
  <2>3. CASE n # k
    BY <2>1, <2>3
  <2>4. CASE n = k /\ i = 1
    BY <2>4
  <2>. QED
    BY <2>2, <2>3, <2>4
<1>3. ASSUME NEW c \in Conns, ConnProgress(c), ~Publish(c) PROVE inbox' = inbox
  BY <1>3 DEF ConnProgress, ChatStep, SyncStep, SessionStep, InsertMessage, LookupLocal,
              MarkLocal, QueryState, AckUpdate, LoginSync, LoginMark, LegacyQuery,
              LegacyRemove, LoginBinds, ChannelStep, LoginGoesOnline, LoginReplies,
              LogoutErases, ConnectionCloses, AckCheck, FlushPending, ClientRead,
              ReadAndAck, SessionOnly, RedisUntouched
<1>4. ASSUME NEW c \in Conns, Request(c) PROVE inbox' = inbox
  BY <1>4 DEF Request, SessionOnly, ClientGoes, LogoutChecks, LoginAccepted, OneChat,
              GroupChat, StartChat, RedisUntouched
<1>5. ASSUME NEW k \in Nodes, ObserverMark(k) \/ \E u \in Users : RedisApply(k, u)
      PROVE  inbox' = inbox
  BY <1>5 DEF ObserverMark, RedisApply
<1>6. ASSUME NEW k \in Nodes, NodeEvent(k) PROVE FALSE
  BY <1>6, NoEvents
<1>7. CASE UNCHANGED allVars
  BY <1>7 DEF allVars, deliveryVars
<1>. QED
  BY <1>1, <1>2, <1>3, <1>4, <1>5, <1>6, <1>7 DEF DeliveryNext, NodeProgress

\* What the loop of c writes are chats.
LEMMA FlushMoves ==
    ASSUME DeliveryTypeOK, NameInv, NEW c \in Conns, FlushPending(c)
    PROVE  /\ out'[c] \in Seq(Frame) /\ Len(out[c]) \in Nat /\ Len(out'[c]) \in Nat
           /\ Len(out[c]) <= Len(out'[c])
           /\ \A j \in 1..Len(out[c]) : out'[c][j] = out[c][j]
           /\ \A i \in DOMAIN pending[c] :
                 /\ Len(out[c]) + i \in DOMAIN out'[c]
                 /\ out'[c][Len(out[c]) + i] = pending[c][i]
           /\ \A k \in (Len(out[c]) + 1)..Len(out'[c]) : out'[c][k].to = None
<1>1. /\ Joined(out'[c], out[c], pending[c])
      /\ out[c] \in Seq(Frame) /\ pending[c] \in Seq(Frame)
  BY DEF FlushPending, Joined, DeliveryTypeOK
<1>2. Ends(out'[c], out[c], pending[c])
  BY <1>1, JoinedFrames
<1>3. \A k \in (Len(out[c]) + 1)..Len(out'[c]) : out'[c][k].to = None
  BY <1>2 DEF Ends, NameInv
<1>. QED
  BY <1>1, <1>3, JoinedFrames

-----------------------------------------------------------------------------
(* From the INSERT to the client *)

\* What has been proved of every reachable state and is used here.
Grounds ==
    /\ DeliveryTypeOK /\ HandlerHasMessage /\ SerialInv /\ NoDeadBinding
    /\ PlaceInv /\ CalmInv /\ NameInv

\* A row is due to a user from its INSERT on, by the thread that looks the user
\* up next.
LEMMA DueFromInsert ==
    ASSUME DeliveryTypeOK, [DeliveryNext]_allVars, NEW u \in Users, NEW m \in Unacked(u)'
    PROVE  m \in Unacked(u) \/ \E d \in Conns : task'[d] = "lookup" /\ cur'[d] = m
<1>. /\ status \in [Msgs -> {Absent, CREATED, DELIVERED, ACKED}]
     /\ receiver \in [Msgs -> Users \cup {None}]
     /\ CREATED = 0 /\ DELIVERED = 1 /\ ACKED = 2 /\ Absent = -1
  BY DEF DeliveryTypeOK, Absent, CREATED, DELIVERED, ACKED
<1>1. m \in Msgs /\ receiver'[m] = u /\ status'[m] \in {CREATED, DELIVERED}
  BY DEF Unacked
<1>2. CASE RowUntouched
  BY <1>1, <1>2 DEF RowUntouched, Unacked
<1>3. CASE RowCreated
  <2>1. PICK k \in Msgs, v \in Users, d \in Conns :
           /\ status' = [status EXCEPT ![k] = CREATED]
           /\ receiver' = [receiver EXCEPT ![k] = v]
           /\ task'[d] = "lookup" /\ cur'[d] = k
    BY <1>3 DEF RowCreated
  <2>2. CASE m = k
    BY <2>1, <2>2
  <2>3. CASE m # k
    BY <1>1, <2>1, <2>3 DEF Unacked
  <2>. QED
    BY <2>2, <2>3
<1>4. CASE RowMarked
  <2>1. PICK k, v : MarkDelivered(k, v)
    BY <1>4 DEF RowMarked
  <2>2. status[m] \in {CREATED, DELIVERED}
    BY <1>1, <2>1 DEF MarkDelivered
  <2>. QED
    BY <1>1, <1>4, <2>2 DEF RowMarked, Unacked
<1>5. CASE RowAcked
  <2>1. PICK c \in Conns : \E v \in todo[c] : SetAcked(cur[c], v)
    BY <1>5 DEF RowAcked
  <2>2. status'[m] = status[m]
    BY <1>1, <2>1 DEF SetAcked
  <2>. QED
    BY <1>1, <1>5, <2>2 DEF RowAcked, Unacked
<1>. QED
  BY <1>2, <1>3, <1>4, <1>5, RowsMove DEF RowStep

\* Only login binds, and a connection that is bound has not just been made.
LEMMA BindingMoves ==
    ASSUME Faults = {}, Grounds, [DeliveryNext]_allVars, NEW c \in Conns, NEW u \in Users,
           Bound(c, u)', link'[c] = "open"
    PROVE  \/ Bound(c, u) /\ link[c] = "open"
           \/ acct'[c] = u /\ pc'[c] = "subscribe"
<1>. /\ SessionTypeOK /\ CalmInv /\ BindingFollowsHandler /\ HandlerHasConnection
     /\ NodeOf \in [Conns -> Nodes] /\ None \notin Users \cup Conns
  BY Placement DEF Grounds, SerialInv, BindingInv
<1>. USE DEF Bound
<1>1. ASSUME NEW d \in Conns, LoginBinds(d)
      PROVE  (Bound(c, u) /\ link'[c] = link[c]) \/ (acct'[c] = u /\ pc'[c] = "subscribe")
  <2>1. acct[d] \in Users
    BY <1>1 DEF LoginBinds, SessionOnly, LoginBind, At, HandlerHasConnection
  <2>2. /\ userConnMap' = [userConnMap EXCEPT ![NodeOf[d]][acct[d]] = d]
        /\ pc' = [pc EXCEPT ![d] = "subscribe"] /\ acct' = acct /\ link' = link
    BY <1>1 DEF LoginBinds, SessionOnly, LoginBind, Goto
  <2>3. CASE NodeOf[c] = NodeOf[d] /\ u = acct[d]
    <3>1. userConnMap'[NodeOf[c]][u] = d
      BY <2>1, <2>2, <2>3 DEF SessionTypeOK
    <3>2. c = d
      BY <3>1
    <3>. QED
      BY <2>2, <2>3, <3>2 DEF SessionTypeOK
  <2>4. CASE ~(NodeOf[c] = NodeOf[d] /\ u = acct[d])
    <3>1. userConnMap'[NodeOf[c]][u] = userConnMap[NodeOf[c]][u]
      BY <2>1, <2>2, <2>4 DEF SessionTypeOK
    <3>. QED
      BY <2>2, <3>1
  <2>. QED
    BY <2>3, <2>4
<1>2. ASSUME NEW d \in Conns, NEW v \in Users \cup {None},
             userConnMap' = [userConnMap EXCEPT ![NodeOf[d]][v] = None]
      PROVE  Bound(c, u)
  <2>1. userConnMap'[NodeOf[c]][u] \in {userConnMap[NodeOf[c]][u], None}
    BY <1>2 DEF SessionTypeOK
  <2>. QED
    BY <2>1
<1>3. ASSUME NEW d \in Conns, LogoutErases(d)
      PROVE  Bound(c, u) /\ link' = link
  BY <1>2, <1>3 DEF LogoutErases, SessionOnly, LoginOutErase, SessionTypeOK
<1>4. ASSUME NEW d \in Conns, ConnectionCloses(d)
      PROVE  Bound(c, u) /\ link[c] = "open"
  <2>1. link[d] = "hup" /\ DOMAIN link = Conns
    BY <1>4 DEF ConnectionCloses, CloseErase, SessionTypeOK
  <2>2. ASSUME NEW v \in Users, ReleaseAccount(d, v)
        PROVE  Bound(c, u) /\ link[c] = "open"
    BY <1>2, <2>1, <2>2 DEF ReleaseAccount
  <2>3. CASE NothingToRelease(d)
    BY <2>1, <2>3 DEF NothingToRelease
  <2>. QED
    BY <1>4, <2>2, <2>3 DEF ConnectionCloses, CloseErase
<1>5. ASSUME userConnMap' = userConnMap PROVE Bound(c, u)
  BY <1>5
<1>6. ASSUME NEW d \in Conns, SessionOnly(Connect(d))
      PROVE  Bound(c, u) /\ link[c] = "open"
  <2>1. userConnMap' = userConnMap /\ link[d] = "new" /\ link' = [link EXCEPT ![d] = "open"]
    BY <1>6 DEF SessionOnly, Connect
  <2>2. link[c] \in {"open", "hup"}
    BY <1>5, <2>1 DEF BindingFollowsHandler
  <2>. QED
    BY <1>5, <2>1, <2>2 DEF SessionTypeOK
<1>7. ASSUME NEW d \in Conns, SessionOnly(Offline(d))
      PROVE  userConnMap' = userConnMap /\ link[c] = "open"
  BY <1>7 DEF SessionOnly, Offline, SessionTypeOK
<1>8. ASSUME NEW d \in Conns, ClientGoes(d)
      PROVE  userConnMap' = userConnMap /\ link[c] = "open"
  BY <1>8 DEF ClientGoes, PeerClose, SessionTypeOK
<1>9. ASSUME NEW d \in Conns,
             \/ ChatStep(d) \/ SyncStep(d) \/ ChannelStep(d) \/ LoginGoesOnline(d)
             \/ LoginReplies(d) \/ AckCheck(d) \/ FlushPending(d) \/ ClientRead(d)
      PROVE  userConnMap' = userConnMap /\ link' = link
  BY <1>9 DEF ChatStep, SyncStep, InsertMessage, LookupLocal, MarkLocal, QueryState,
              Publish, AckUpdate, LoginSync, LoginMark, LegacyQuery, LegacyRemove,
              ChannelStep, LoginSubscribe, Unsubscribe, LoginGoesOnline, LoginOnline,
              LoginReplies, LoginReply, AckCheck, FlushPending, ClientRead, ReadAndAck,
              sessionVars
<1>10. ASSUME NEW d \in Conns, Request(d), ~SessionOnly(Connect(d)), ~ClientGoes(d)
       PROVE  userConnMap' = userConnMap /\ link' = link
  BY <1>10 DEF Request, LogoutChecks, SessionOnly, LoginOutCheck, LoginAccepted,
               LoginQuery, OneChat, GroupChat, StartChat, sessionVars
<1>11. ASSUME NEW n \in Nodes, NodeProgress(n)
       PROVE  userConnMap' = userConnMap /\ link' = link
  BY <1>11 DEF NodeProgress, ObserverDeliver, ObserverMark, RedisApply, sessionVars
<1>12. ASSUME NEW n \in Nodes, NodeEvent(n) PROVE FALSE
  BY <1>12, NoEvents
<1>13. CASE UNCHANGED allVars
  BY <1>5, <1>13 DEF allVars, sessionVars
<1>. QED
  BY <1>1, <1>3, <1>4, <1>5, <1>6, <1>7, <1>8, <1>9, <1>10, <1>11, <1>12, <1>13
     DEF DeliveryNext, ConnProgress, SessionStep

\* c is the connection of u before and after a step that leaves m due to u.
Waits(m, u, c) ==
    /\ m \in Unacked(u) /\ m \in Unacked(u)'
    /\ Bound(c, u) /\ Bound(c, u)'
    /\ link[c] = "open" /\ link'[c] = "open"

\* A frame is added to what the client of c has not read.
LEMMA OutGrows ==
    ASSUME DeliveryTypeOK, NEW c \in Conns, link[c] = "open", NEW f \in Frame, Write(c, f)
    PROVE  /\ Len(out'[c]) = Len(out[c]) + 1 /\ Len(out[c]) \in Nat
           /\ \A j \in 1..Len(out[c]) : out'[c][j] = out[c][j]
           /\ out'[c][Len(out'[c])] = f
<1>1. out'[c] = Append(out[c], f) /\ out[c] \in Seq(Frame)
  BY DEF Write, DeliveryTypeOK
<1>. QED
  BY <1>1

\* A chat sent to the client of c while nobody is at work for it is read in the
\* name of the account that is bound.
LEMMA WrittenBrings ==
    ASSUME Grounds, NEW c \in Conns, NEW u \in Users, NEW m \in Msgs,
           Bound(c, u), link[c] = "open", pc[c] = "idle",
           Write(c, ChatFrame(m)), curUser' = curUser
    PROVE  Brings(m, u, c)'
<1>1. session[c] = u /\ u # None
  BY Placement DEF Grounds, SerialInv, BindingInv, BindingFollowsHandler
<1>2. ReadAs(out[c], curUser[c], Len(out[c]), u)
  BY <1>1 DEF Grounds, NameInv
<1>3. ChatFrame(m) \in Frame /\ ChatFrame(m).to = None /\ ChatFrame(m).msgs = {m}
  BY DEF ChatFrame, Frame
<1>. DEFINE n == Len(out[c])
<1>4. /\ n \in Nat /\ \A j \in 1..n : out'[c][j] = out[c][j]
      /\ out'[c][n + 1] = ChatFrame(m) /\ Len(out'[c]) = n + 1 /\ n + 1 \in Nat
  <2>1. DeliveryTypeOK
    BY DEF Grounds
  <2>. QED
    BY <1>3, <2>1, OutGrows
<1>5. out'[c] \in Seq(Frame)
  BY <1>3 DEF Grounds, DeliveryTypeOK, Write
<1>6. ReadAs(out'[c], curUser'[c], n, u)
  BY <1>2, <1>4, ReadAsKept
<1>7. \A k \in (n + 1)..(n + 1) : out'[c][k].to = None
  BY <1>3, <1>4
<1>8. ReadAs(out'[c], curUser'[c], n + 1, u)
  <2>. HIDE DEF n
  <2>1. n <= n + 1
    BY <1>4
  <2>. QED
    BY <1>4, <1>6, <1>7, <2>1, ReadAsOn
<1>9. n + 1 \in DOMAIN out'[c]
  BY <1>4, <1>5
<1>10. m \in out'[c][n + 1].msgs
  BY <1>3, <1>4
<1>. QED
  BY <1>8, <1>9, <1>10 DEF Brings

\* A chat queued for c waits there.
LEMMA QueuedBrings ==
    ASSUME DeliveryTypeOK, NEW c \in Conns, NEW u \in Users, NEW m \in Msgs,
           link[c] = "open", Enqueue(c, ChatFrame(m))
    PROVE  Brings(m, u, c)'
<1>1. /\ pending'[c] = Append(pending[c], ChatFrame(m)) /\ pending[c] \in Seq(Frame)
      /\ ChatFrame(m) \in Frame /\ ChatFrame(m).msgs = {m}
  BY DEF Enqueue, DeliveryTypeOK, ChatFrame, Frame
<1>2. /\ Len(pending[c]) + 1 \in DOMAIN pending'[c]
      /\ m \in pending'[c][Len(pending[c]) + 1].msgs
  BY <1>1
<1>. QED
  BY <1>2 DEF Brings, Holding

\* The binding that the node of c has for u is c.
LEMMA FoundIsOwn ==
    ASSUME Grounds, NEW c \in Conns, NEW u \in Users, Bound(c, u), NEW n \in Nodes,
           userConnMap[n][u] # None
    PROVE  userConnMap[n][u] = c
<1>. DEFINE e == userConnMap[n][u]
<1>1. e \in Conns /\ NodeOf[e] = n
  BY DEF Grounds, DeliveryTypeOK, SessionTypeOK, NoDeadBinding
<1>2. Holds(e, u) /\ Holds(c, u)
  BY <1>1 DEF Holds, Bound
<1>. QED
  BY <1>1, <1>2 DEF Grounds, SerialInv, ExclusiveAccount

\* The thread of the sender brings m to the client of c, to the next step, or to
\* the receiver's login.
LEMMA SenderBrings ==
    ASSUME Faults = {}, Grounds, [DeliveryNext]_allVars,
           NEW u \in Users, NEW m \in Msgs, NEW c \in Conns, Waits(m, u, c),
           NEW d \in Conns, cur[d] = m, task[d] \in {"lookup", "state", "publish"}
    PROVE  Brings(m, u, c)'
<1>. /\ DeliveryTypeOK /\ SessionTypeOK /\ PlaceInv /\ CalmInv /\ BindingFollowsHandler
     /\ HandlerAgrees /\ BoundIsReachable
     /\ NodeOf \in [Conns -> Nodes] /\ None \notin Users \cup Conns
     /\ DOMAIN task = Conns /\ DOMAIN cur = Conns
  BY Placement DEF Grounds, SerialInv, BindingInv, DeliveryTypeOK
<1>1. /\ receiver[m] = u /\ Bound(c, u) /\ Bound(c, u)' /\ link[c] = "open"
      /\ pc[d] = "idle"
  BY DEF Waits, Unacked, PlaceInv, SyncSteps
<1>2. ASSUME task'[d] \in {"lookup", "state", "publish"}, cur'[d] = cur[d]
      PROVE  Brings(m, u, c)'
  BY <1>2 DEF Brings
<1>3. \/ pc[c] = "idle"
      \/ acct[c] = u /\ pc[c] \in {"subscribe", "online"}
      \/ acct[c] = u /\ pc[c] \in {"reply", "erase"}
  BY <1>1 DEF BindingFollowsHandler
<1>4. ASSUME acct[c] = u, pc[c] \in {"subscribe", "online"}, UNCHANGED sessionVars
      PROVE  Brings(m, u, c)'
  BY <1>4 DEF Brings, sessionVars
<1>5. CASE LookupLocal(d)
  <2>. DEFINE e == userConnMap[NodeOf[d]][u]
  <2>1. CASE e = None
    <3>1. task' = [task EXCEPT ![d] = "state"] /\ cur' = cur
      BY <1>1, <1>5, <2>1 DEF LookupLocal, GotoTask
    <3>. QED
      BY <1>2, <3>1
  <2>2. CASE e # None
    <3>1. e = c
      BY <1>1, <2>2, FoundIsOwn
    <3>2. /\ c = d => Write(c, ChatFrame(m)) /\ curUser' = curUser
          /\ c # d => Enqueue(c, ChatFrame(m))
      BY <1>1, <1>5, <2>2, <3>1 DEF LookupLocal
    <3>3. CASE c = d
      BY <1>1, <3>2, <3>3, WrittenBrings
    <3>4. CASE c # d
      BY <1>1, <3>2, <3>4, QueuedBrings
    <3>. QED
      BY <3>3, <3>4
  <2>. QED
    BY <2>1, <2>2
<1>6. CASE QueryState(d)
  <2>1. CASE userState[u] = "online"
    <3>1. task' = [task EXCEPT ![d] = "publish"] /\ cur' = cur
      BY <1>1, <1>6, <2>1 DEF QueryState, GotoTask
    <3>. QED
      BY <1>2, <3>1
  <2>2. CASE userState[u] # "online"
    <3>1. acct[c] = u /\ pc[c] \in {"subscribe", "online"}
      BY <1>1, <1>3, <2>2 DEF HandlerAgrees, BoundIsReachable
    <3>. QED
      BY <1>4, <1>6, <3>1 DEF QueryState
  <2>. QED
    BY <2>1, <2>2
<1>7. CASE Publish(d)
  <2>. DEFINE n == NodeOf[c]
  <2>1. CASE u \in redisSubs[n]
    <3>1. /\ inbox'[n] = Append(inbox[n], m) /\ inbox[n] \in Seq(Msgs)
      BY <1>1, <1>7, <2>1 DEF Publish, CalmInv, DeliveryTypeOK
    <3>2. Len(inbox[n]) + 1 \in DOMAIN inbox'[n] /\ inbox'[n][Len(inbox[n]) + 1] = m
      BY <3>1
    <3>. QED
      BY <3>2 DEF Brings
  <2>2. CASE u \notin redisSubs[n]
    <3>1. u \notin subscribed[n] /\ redisUp[n]
      BY <2>2 DEF CalmInv
    <3>2. acct[c] = u /\ pc[c] \in {"subscribe", "online"}
      BY <1>1, <1>3, <3>1 DEF HandlerAgrees, BoundIsReachable
    <3>. QED
      BY <1>4, <1>7, <3>2 DEF Publish
  <2>. QED
    BY <2>1, <2>2
<1>8. ASSUME ActsAt(d) PROVE LookupLocal(d) \/ QueryState(d) \/ Publish(d)
  <2>1. ~(SyncStep(d) \/ LoginGoesOnline(d) \/ LoginReplies(d) \/ AckCheck(d))
    BY <1>1 DEF SyncStep, LoginSync, LoginMark, LegacyQuery, LegacyRemove, TaskAt,
                LoginGoesOnline, LoginOnline, At, LoginReplies, AckCheck
  <2>2. ~\E S \in SUBSET Users : StartChat(d, S)
    BY DEF StartChat, Accepted
  <2>3. ~(InsertMessage(d) \/ MarkLocal(d) \/ AckUpdate(d))
    BY DEF InsertMessage, MarkLocal, AckUpdate, TaskAt
  <2>. QED
    BY <1>8, <2>1, <2>2, <2>3 DEF ActsAt, ChatStep
<1>9. ASSUME NEW n \in Nodes, NodeStops(n) PROVE FALSE
  BY <1>9, NoEvents DEF NodeEvent
<1>10. CASE Aside(d)
  BY <1>2, <1>10 DEF Aside
<1>. QED
  BY <1>5, <1>6, <1>7, <1>8, <1>9, <1>10, OthersAside

\* What Redis has passed on to the node of c reaches its event loop.
LEMMA InboxBrings ==
    ASSUME Faults = {}, Grounds, [DeliveryNext]_allVars,
           NEW u \in Users, NEW m \in Msgs, NEW c \in Conns, Waits(m, u, c),
           NEW i \in DOMAIN inbox[NodeOf[c]], inbox[NodeOf[c]][i] = m
    PROVE  Brings(m, u, c)'
<1>. DEFINE n == NodeOf[c]
<1>. /\ DeliveryTypeOK /\ HandlerHasMessage /\ CalmInv /\ n \in Nodes
     /\ None \notin Users \cup Conns
  BY Placement DEF Grounds
<1>1. CASE \E k \in DOMAIN inbox'[n] : inbox'[n][k] = m
  BY <1>1 DEF Brings
<1>2. CASE ObserverDeliver(n) /\ Head(inbox[n]) = m
  <2>1. receiver[m] = u /\ userConnMap[n][u] = c /\ link[c] = "open"
    BY DEF Waits, Unacked, Bound
  <2>2. Enqueue(c, ChatFrame(m))
    BY <1>2, <2>1 DEF ObserverDeliver
  <2>. QED
    BY <2>1, <2>2, QueuedBrings
<1>. QED
  BY <1>1, <1>2, InboxKeeps

\* What the event loop of c has queued is written to its client.
LEMMA PendingBrings ==
    ASSUME Faults = {}, Grounds, [DeliveryNext]_allVars,
           NEW u \in Users, NEW m \in Msgs, NEW c \in Conns, Waits(m, u, c),
           NEW i \in DOMAIN pending[c], m \in pending[c][i].msgs
    PROVE  Brings(m, u, c)'
<1>. /\ DeliveryTypeOK /\ HandlerHasMessage /\ CalmInv /\ NameInv /\ BindingFollowsHandler
     /\ None \notin Users \cup Conns
     /\ pending[c] \in Seq(Frame) /\ out[c] \in Seq(Frame)
  BY Placement DEF Grounds, DeliveryTypeOK, SerialInv, BindingInv
<1>. USE DEF Waits
<1>1. CASE pending'[c] = pending[c]
  BY <1>1 DEF Brings, Holding
<1>2. ASSUME NEW k \in Msgs, pending'[c] = Append(pending[c], ChatFrame(k))
      PROVE  Brings(m, u, c)'
  <2>1. ChatFrame(k) \in Frame
    BY DEF ChatFrame, Frame
  <2>2. i \in DOMAIN pending'[c] /\ pending'[c][i] = pending[c][i]
    BY <1>2, <2>1
  <2>. QED
    BY <2>2 DEF Brings, Holding
<1>3. CASE FlushPending(c)
  <2>. DEFINE n == Len(out[c])
              j == n + i
  <2>1. curUser' = curUser /\ pc[c] = "idle"
    BY <1>3 DEF FlushPending
  <2>2. /\ n \in Nat /\ j \in Nat /\ n <= j
        /\ j \in DOMAIN out'[c] /\ out'[c][j] = pending[c][i]
        /\ \A k \in 1..n : out'[c][k] = out[c][k]
    <3>1. /\ \A h \in DOMAIN pending[c] :
                n + h \in DOMAIN out'[c] /\ out'[c][n + h] = pending[c][h]
          /\ \A k \in 1..n : out'[c][k] = out[c][k]
      BY <1>3, FlushMoves
    <3>2. n \in Nat /\ j \in Nat /\ n <= j
      OBVIOUS
    <3>. QED
      BY <3>1, <3>2
  <2>3. \A k \in (n + 1)..j : out'[c][k].to = None
    <3>1. out'[c] \in Seq(Frame) /\ \A k \in (n + 1)..Len(out'[c]) : out'[c][k].to = None
      BY <1>3, FlushMoves
    <3>. QED
      BY <2>2, <3>1
  <2>4. ReadAs(out[c], curUser[c], n, u)
    BY <2>1 DEF NameInv, BindingFollowsHandler
  <2>5. ReadAs(out'[c], curUser[c], n, u)
    BY <2>2, <2>4, ReadAsKept
  <2>6. ReadAs(out'[c], curUser'[c], j, u)
    <3>. HIDE DEF n, j
    <3>. QED
      BY <2>1, <2>2, <2>3, <2>5, ReadAsOn
  <2>. QED
    BY <2>2, <2>6 DEF Brings
<1>4. CASE ClientGoes(c)
  BY <1>4 DEF ClientGoes, PeerClose, DeliveryTypeOK, SessionTypeOK
<1>. QED
  BY <1>1, <1>2, <1>3, <1>4, PendingMoves

-----------------------------------------------------------------------------
(* What the receiver has *)

\* The unread sync has room for every row.
LEMMA AllAreOldest ==
    ASSUME MaxMsgs <= SyncLimit, NEW u
    PROVE  Oldest(Unacked(u), SyncLimit) = Unacked(u)
<1>. SUFFICES ASSUME NEW m \in Unacked(u)
              PROVE  Cardinality({x \in Unacked(u) : x < m}) < SyncLimit
  BY DEF Oldest
<1>. DEFINE S == {x \in Unacked(u) : x < m}
<1>1. /\ MaxMsgs \in Nat /\ SyncLimit \in Nat /\ m \in 1..MaxMsgs
      /\ \A x \in S : x \in 1..MaxMsgs
  BY DeliveryAssumption DEF Unacked, Msgs
<1>2. S \in SUBSET (1..(m - 1)) /\ m - 1 \in Int /\ 1 \in Int
  <2>1. ASSUME NEW x \in S PROVE x \in 1..(m - 1)
    <3>1. x \in 1..MaxMsgs /\ x < m
      BY <1>1
    <3>. HIDE DEF S
    <3>. QED
      BY <1>1, <3>1
  <2>. HIDE DEF S
  <2>. QED
    BY <1>1, <2>1
<1>3. IsFiniteSet(1..(m - 1)) /\ Cardinality(1..(m - 1)) = m - 1
  BY <1>1, <1>2, FS_Interval
<1>4. Cardinality(S) <= m - 1 /\ IsFiniteSet(S)
  BY <1>2, <1>3, FS_Subset
<1>5. Cardinality(S) \in Nat
  BY <1>4, FS_CardinalityType
<1>. QED
  BY <1>1, <1>4, <1>5

\* The client, its ACKs and the handler of c have m.
Unread(m, u, c) ==
    \E i \in DOMAIN out[c] : m \in out[c][i].msgs /\ ReadAs(out[c], curUser[c], i, u)

Syncs(u, c) == acct[c] = u /\ (pc[c] \in {"subscribe", "online"} \/ task[c] = "sync")

Acks(m, u, c) == task[c] = "ack" /\ cur[c] = m /\ todo[c] = {u}

Own(m, u, c) ==
    \/ Unread(m, u, c) \/ Syncs(u, c) \/ m \in batch[c]
    \/ <<u, m>> \in acks[c] \/ Acks(m, u, c)

\* Frames written behind it leave a frame where it is.
LEMMA UnreadStays ==
    ASSUME NEW m, NEW u, NEW c, Unread(m, u, c), curUser'[c] = curUser[c],
           out[c] \in Seq(Frame), out'[c] \in Seq(Frame), Len(out[c]) <= Len(out'[c]),
           \A j \in 1..Len(out[c]) : out'[c][j] = out[c][j]
    PROVE  Unread(m, u, c)'
<1>1. PICK i \in DOMAIN out[c] : m \in out[c][i].msgs /\ ReadAs(out[c], curUser[c], i, u)
  BY DEF Unread
<1>2. i \in Nat /\ i \in DOMAIN out'[c] /\ out'[c][i] = out[c][i]
  OBVIOUS
<1>3. \A j \in 1..i : out'[c][j] = out[c][j]
  OBVIOUS
<1>4. ReadAs(out'[c], curUser'[c], i, u)
  BY <1>1, <1>2, <1>3, ReadAsKept
<1>. QED
  BY <1>1, <1>2, <1>4 DEF Unread

\* A frame the handler of c writes leaves the unread ones as they are.
LEMMA UnreadWritten ==
    ASSUME DeliveryTypeOK, NEW m, NEW u, NEW c \in Conns, link[c] = "open", NEW f \in Frame,
           Write(c, f), curUser' = curUser, Unread(m, u, c)
    PROVE  Unread(m, u, c)'
<1>1. out[c] \in Seq(Frame) /\ out'[c] \in Seq(Frame)
  BY DEF Write, DeliveryTypeOK
<1>2. /\ Len(out[c]) <= Len(out'[c])
      /\ \A j \in 1..Len(out[c]) : out'[c][j] = out[c][j]
  BY OutGrows
<1>. QED
  BY <1>1, <1>2, UnreadStays

\* The steps of a chat handler of c itself.
LEMMA OwnChat ==
    ASSUME Faults = {}, Grounds, NEW u \in Users, NEW m \in Msgs, NEW c \in Conns,
           Waits(m, u, c), Own(m, u, c), ChatStep(c)
    PROVE  Own(m, u, c)'
<1>. /\ DeliveryTypeOK /\ HandlerHasMessage /\ PlaceInv /\ DOMAIN task = Conns
  BY DEF Grounds, DeliveryTypeOK
<1>1. ~Syncs(u, c) /\ UNCHANGED <<batch, acks, curUser>>
  BY DEF ChatStep, InsertMessage, LookupLocal, MarkLocal, QueryState, Publish, AckUpdate,
         TaskAt, PlaceInv, SyncSteps, Syncs
<1>2. CASE LookupLocal(c)
  <2>1. ~Acks(m, u, c) /\ cur[c] \in Msgs
    BY <1>2 DEF LookupLocal, TaskAt, Acks, HandlerHasMessage
  <2>2. ChatFrame(cur[c]) \in Frame
    BY <2>1 DEF ChatFrame, Frame
  <2>3. out' = out \/ Write(c, ChatFrame(cur[c]))
    BY <1>2 DEF LookupLocal
  <2>4. Unread(m, u, c) => Unread(m, u, c)'
    <3>1. CASE out' = out
      BY <1>1, <3>1 DEF Unread
    <3>2. CASE Write(c, ChatFrame(cur[c]))
      BY <1>1, <2>2, <3>2, UnreadWritten DEF Waits
    <3>. QED
      BY <2>3, <3>1, <3>2
  <2>. QED
    BY <1>1, <2>1, <2>4 DEF Own
<1>3. CASE AckUpdate(c)
  <2>1. ~Acks(m, u, c)
    <3>. SUFFICES ASSUME Acks(m, u, c) PROVE FALSE
      OBVIOUS
    <3>1. SetAcked(m, u)
      BY <1>3 DEF AckUpdate, Acks
    <3>2. status'[m] = ACKED
      BY <3>1 DEF SetAcked, Waits, Unacked, DeliveryTypeOK
    <3>. QED
      BY <3>2 DEF Waits, Unacked, CREATED, DELIVERED, ACKED
  <2>. QED
    BY <1>1, <1>3, <2>1 DEF AckUpdate, Own, Unread
<1>4. CASE InsertMessage(c) \/ MarkLocal(c) \/ QueryState(c) \/ Publish(c)
  <2>1. ~Acks(m, u, c) /\ out' = out
    BY <1>4 DEF InsertMessage, MarkLocal, QueryState, Publish, TaskAt, Acks
  <2>. QED
    BY <1>1, <2>1 DEF Own, Unread
<1>. QED
  BY <1>2, <1>3, <1>4 DEF ChatStep

\* The unread sync of c itself.
LEMMA OwnSync ==
    ASSUME Faults = {}, MaxMsgs <= SyncLimit, Grounds,
           NEW u \in Users, NEW m \in Msgs, NEW c \in Conns,
           Waits(m, u, c), Own(m, u, c), SyncStep(c)
    PROVE  Own(m, u, c)'
<1>. /\ DeliveryTypeOK /\ PlaceInv /\ BindingFollowsHandler
  BY DEF Grounds, SerialInv, BindingInv
<1>1. pc[c] = "reply" /\ acct[c] = u
  BY DEF SyncStep, LoginSync, LoginMark, LegacyQuery, LegacyRemove, TaskAt, PlaceInv,
         SyncSteps, Waits, BindingFollowsHandler
<1>2. ~Acks(m, u, c) /\ UNCHANGED <<out, acks, curUser>>
  BY DEF SyncStep, LoginSync, LoginMark, LegacyQuery, LegacyRemove, TaskAt, Acks
<1>3. CASE LoginSync(c)
  <2>1. batch'[c] = Oldest(Unacked(u), SyncLimit)
    BY <1>1, <1>3 DEF LoginSync, DeliveryTypeOK
  <2>2. m \in batch'[c]
    BY <2>1, AllAreOldest DEF Waits
  <2>. QED
    BY <2>2 DEF Own
<1>4. CASE LoginMark(c) \/ LegacyQuery(c) \/ LegacyRemove(c)
  <2>1. ~Syncs(u, c)
    BY <1>1, <1>4 DEF LoginMark, LegacyQuery, LegacyRemove, TaskAt, Syncs
  <2>2. batch[c] \subseteq batch'[c]
    BY <1>4 DEF LoginMark, LegacyQuery, LegacyRemove, DeliveryTypeOK
  <2>. QED
    BY <1>2, <2>1, <2>2 DEF Own, Unread
<1>. QED
  BY <1>3, <1>4 DEF SyncStep

\* The session steps of c itself.
LEMMA OwnSession ==
    ASSUME Faults = {}, Grounds, NEW u \in Users, NEW m \in Msgs, NEW c \in Conns,
           Waits(m, u, c), Own(m, u, c), SessionStep(c)
    PROVE  Own(m, u, c)'
<1>. /\ DeliveryTypeOK /\ SessionTypeOK /\ PlaceInv /\ BindingFollowsHandler
     /\ None \notin Users \cup Conns /\ NodeOf \in [Conns -> Nodes]
  BY Placement DEF Grounds, SerialInv, BindingInv
<1>1. /\ link[c] = "open" /\ Bound(c, u) /\ Bound(c, u)'
      /\ \/ pc[c] = "idle" /\ session[c] = u
         \/ pc[c] \in {"subscribe", "online", "reply", "erase"} /\ acct[c] = u
  BY DEF Waits, BindingFollowsHandler
<1>2. CASE ChannelStep(c)
  <2>1. LoginSubscribe(c) /\ acct[c] = u
    BY <1>1, <1>2 DEF ChannelStep, LoginSubscribe, Unsubscribe, At
  <2>2. acct'[c] = u /\ pc'[c] = "online"
    BY <2>1 DEF LoginSubscribe, Goto, SessionTypeOK
  <2>. QED
    BY <2>2 DEF Own, Syncs
<1>3. CASE LoginGoesOnline(c)
  <2>1. acct[c] = u
    BY <1>1, <1>3 DEF LoginGoesOnline, LoginOnline, At
  <2>2. acct'[c] = u /\ task'[c] = "sync"
    BY <1>3, <2>1 DEF LoginGoesOnline, LoginOnline, GotoTask, DeliveryTypeOK
  <2>. QED
    BY <2>2 DEF Own, Syncs
<1>4. CASE LoginReplies(c)
  <2>. DEFINE f == [to |-> acct[c], msgs |-> batch[c]]
              n == Len(out[c])
  <2>1. /\ pc[c] = "reply" /\ task[c] = "reply" /\ Write(c, f)
        /\ UNCHANGED <<curUser, acks>>
    BY <1>4 DEF LoginReplies, LoginReply, At
  <2>2. acct[c] = u /\ f \in Frame /\ f.to = u /\ f.msgs = batch[c]
    BY <1>1, <2>1 DEF Frame, DeliveryTypeOK
  <2>. HIDE DEF f
  <2>3. ~Syncs(u, c) /\ ~Acks(m, u, c)
    BY <2>1 DEF Syncs, Acks
  <2>4. Unread(m, u, c) => Unread(m, u, c)'
    BY <1>1, <2>1, <2>2, UnreadWritten
  <2>5. m \in batch[c] => Unread(m, u, c)'
    <3>1. /\ n \in Nat /\ Len(out'[c]) = n + 1 /\ out'[c][n + 1] = f
          /\ n + 1 \in Nat \ {0}
      BY <1>1, <2>1, <2>2, OutGrows
    <3>2. out'[c] \in Seq(Frame)
      BY <2>1, <2>2 DEF Write, DeliveryTypeOK
    <3>3. n + 1 \in DOMAIN out'[c]
      BY <3>1, <3>2
    <3>4. ReadAs(out'[c], curUser'[c], n + 1, u)
      <4>. HIDE DEF n
      <4>. QED
        BY <2>2, <3>1, ReadAsAnswered
    <3>. QED
      BY <2>2, <3>1, <3>3, <3>4 DEF Unread
  <2>. QED
    BY <2>1, <2>3, <2>4, <2>5 DEF Own
<1>5. CASE LogoutErases(c)
  <2>1. userConnMap'[NodeOf[c]][u] = None
    BY <1>1, <1>5 DEF LogoutErases, SessionOnly, LoginOutErase, At, SessionTypeOK
  <2>. QED
    BY <1>1, <2>1 DEF Bound
<1>6. CASE LoginBinds(c) \/ ConnectionCloses(c) \/ SessionOnly(Offline(c))
  BY <1>1, <1>6 DEF LoginBinds, SessionOnly, LoginBind, At, ConnectionCloses, CloseErase,
                    Offline
<1>. QED
  BY <1>2, <1>3, <1>4, <1>5, <1>6 DEF SessionStep

\* The client of c and its requests, and the loop of c between two of them.
LEMMA OwnRest ==
    ASSUME Faults = {}, Grounds, NEW u \in Users, NEW m \in Msgs, NEW c \in Conns,
           Waits(m, u, c), Own(m, u, c),
           Request(c) \/ AckCheck(c) \/ FlushPending(c) \/ ClientRead(c)
    PROVE  Own(m, u, c)'
<1>. /\ DeliveryTypeOK /\ SessionTypeOK /\ PlaceInv /\ BindingFollowsHandler
     /\ None \notin Users \cup Conns
     /\ out[c] \in Seq(Frame) /\ pending[c] \in Seq(Frame)
  BY Placement DEF Grounds, SerialInv, BindingInv, DeliveryTypeOK
<1>1. /\ link[c] = "open" /\ link'[c] = "open" /\ Bound(c, u) /\ Bound(c, u)'
      /\ \/ pc[c] = "idle" /\ session[c] = u
         \/ pc[c] \in {"subscribe", "online", "reply", "erase"} /\ acct[c] = u
  BY DEF Waits, BindingFollowsHandler
<1>2. ASSUME pc[c] = "idle", task[c] = "none" PROVE ~Syncs(u, c) /\ ~Acks(m, u, c)
  BY <1>2 DEF Syncs, Acks
<1>3. CASE AckCheck(c)
  <2>1. pc[c] = "idle" /\ task[c] = "none" /\ UNCHANGED <<out, curUser, batch>>
    BY <1>3 DEF AckCheck
  <2>2. PICK a \in acks[c] : acks'[c] = acks[c] \ {a} /\ AckOf(c, a)
    BY <1>3 DEF AckCheck, DeliveryTypeOK
  <2>3. a = <<u, m>> => Acks(m, u, c)'
    BY <1>1, <2>2 DEF AckOf, Acks, GotoTask, DeliveryTypeOK
  <2>. QED
    BY <1>2, <2>1, <2>2, <2>3 DEF Own, Unread
<1>4. CASE FlushPending(c)
  <2>1. pc[c] = "idle" /\ task[c] = "none" /\ UNCHANGED <<curUser, batch, acks>>
    BY <1>4 DEF FlushPending, HandlersUntouched
  <2>2. /\ out'[c] \in Seq(Frame) /\ Len(out[c]) <= Len(out'[c])
        /\ \A j \in 1..Len(out[c]) : out'[c][j] = out[c][j]
    BY <1>4, FlushMoves DEF Grounds
  <2>3. Unread(m, u, c) => Unread(m, u, c)'
    BY <2>1, <2>2, UnreadStays
  <2>. QED
    BY <1>2, <2>1, <2>3 DEF Own
<1>5. CASE ClientRead(c)
  <2>1. /\ out[c] # <<>> /\ out'[c] = Tail(out[c]) /\ curUser'[c] = Reader(c)
        /\ acks'[c] = acks[c] \cup ({Reader(c)} \X (Head(out[c]).msgs \cap Msgs))
        /\ UNCHANGED <<task, todo, cur, batch, pc, acct>>
    BY <1>5 DEF ClientRead, ReadAndAck, HandlersUntouched, sessionVars, DeliveryTypeOK
  <2>2. Unread(m, u, c) => Own(m, u, c)'
    <3>. SUFFICES ASSUME Unread(m, u, c) PROVE Own(m, u, c)'
      OBVIOUS
    <3>1. PICK i \in DOMAIN out[c] :
             m \in out[c][i].msgs /\ ReadAs(out[c], curUser[c], i, u)
      BY DEF Unread
    <3>2. /\ Head(out[c]) = out[c][1] /\ i \in Nat /\ i # 0 /\ i <= Len(out[c])
          /\ Reader(c) = IF out[c][1].to = None THEN curUser[c] ELSE out[c][1].to
      BY <2>1 DEF Reader
    <3>3. ReadAs(Tail(out[c]), Reader(c), i - 1, u) /\ (i = 1 => Reader(c) = u)
      BY <2>1, <3>1, <3>2, ReadAsNext
    <3>4. CASE i = 1
      BY <2>1, <3>1, <3>2, <3>3, <3>4 DEF Own
    <3>5. CASE i # 1
      <4>1. i - 1 \in DOMAIN out'[c] /\ out'[c][i - 1] = out[c][i]
        BY <2>1, <3>2, <3>5
      <4>. QED
        BY <2>1, <3>1, <3>3, <4>1 DEF Own, Unread
    <3>. QED
      BY <3>4, <3>5
  <2>. QED
    BY <2>1, <2>2 DEF Own, Syncs, Acks
<1>6. CASE Request(c)
  <2>1. CASE SessionOnly(Connect(c)) \/ ClientGoes(c)
    BY <1>1, <2>1 DEF SessionOnly, Connect, ClientGoes, PeerClose, SessionTypeOK
  <2>2. ASSUME NEW v \in Users, LoginAccepted(c, v) PROVE FALSE
    BY <1>1, <2>2 DEF LoginAccepted, SessionOnly, LoginQuery, Serving
  <2>3. CASE LogoutChecks(c)
    <3>1. /\ pc[c] = "idle" /\ task[c] = "none"
          /\ UNCHANGED <<out, curUser, acks, batch>>
      BY <2>3 DEF LogoutChecks, SessionOnly, LoginOutCheck, Serving, SocketsUntouched,
                  HandlersUntouched
    <3>. QED
      BY <1>2, <3>1 DEF Own, Unread
  <2>4. ASSUME NEW S, StartChat(c, S) PROVE Own(m, u, c)'
    <3>1. /\ pc[c] = "idle" /\ task[c] = "none"
          /\ UNCHANGED <<out, curUser, acks, batch>>
      BY <2>4 DEF StartChat, Accepted, Serving
    <3>. QED
      BY <1>2, <3>1 DEF Own, Unread
  <2>. QED
    BY <1>6, <2>1, <2>2, <2>3, <2>4 DEF Request, OneChat, GroupChat
<1>. QED
  BY <1>3, <1>4, <1>5, <1>6

\* What c, its handler and its client have they keep until the row is acked.
LEMMA OwnStep ==
    ASSUME Faults = {}, MaxMsgs <= SyncLimit, Grounds, [DeliveryNext]_allVars,
           NEW u \in Users, NEW m \in Msgs, NEW c \in Conns,
           Waits(m, u, c), Own(m, u, c)
    PROVE  Own(m, u, c)'
<1>1. CASE Apart(c)
  BY <1>1 DEF Apart, Own, Unread, Syncs, Acks
<1>2. DeliveryTypeOK /\ CalmInv
  BY DEF Grounds
<1>. QED
  BY <1>1, <1>2, OthersApart, OwnChat, OwnSync, OwnSession, OwnRest DEF ConnProgress

\* A message due to a connected account stays on its way, step by step.
LEMMA BroughtStep ==
    ASSUME Undisturbed, Grounds, BroughtInv, [DeliveryNext]_allVars
    PROVE  BroughtInv'
<1>. SUFFICES ASSUME NEW m \in Msgs, NEW u \in Users, NEW c \in Conns,
                     m \in Unacked(u)', Bound(c, u)', link'[c] = "open"
              PROVE  Brings(m, u, c)'
  BY DEF BroughtInv
<1>. Faults = {} /\ MaxMsgs <= SyncLimit /\ DeliveryTypeOK
  BY DEF Undisturbed, Grounds
<1>1. ASSUME NEW d \in Conns, task'[d] = "lookup", cur'[d] = m PROVE Brings(m, u, c)'
  BY <1>1 DEF Brings
<1>2. CASE acct'[c] = u /\ pc'[c] = "subscribe"
  BY <1>2 DEF Brings
<1>3. ASSUME m \in Unacked(u), Bound(c, u), link[c] = "open" PROVE Brings(m, u, c)'
  <2>1. Waits(m, u, c)
    BY <1>3 DEF Waits
  <2>2. \/ \E d \in Conns : cur[d] = m /\ task[d] \in {"lookup", "state", "publish"}
        \/ \E i \in DOMAIN inbox[NodeOf[c]] : inbox[NodeOf[c]][i] = m
        \/ \E i \in DOMAIN pending[c] : m \in pending[c][i].msgs
        \/ Own(m, u, c)
    BY <1>3 DEF BroughtInv, Brings, Holding, Own, Unread, Syncs, Acks
  <2>3. Own(m, u, c) => Brings(m, u, c)'
    <3>1. Own(m, u, c)' => Brings(m, u, c)'
      BY DEF Own, Unread, Syncs, Acks, Brings
    <3>. QED
      BY <2>1, <3>1, OwnStep
  <2>. QED
    BY <2>1, <2>2, <2>3, SenderBrings, InboxBrings, PendingBrings
<1>. QED
  BY <1>1, <1>2, <1>3, DueFromInsert, BindingMoves

-----------------------------------------------------------------------------
(* The name a client reads in *)

\* A client that has read all would read on in the name u.
EndsAs(c, u) == ReadAs(out[c], curUser[c], Len(out[c]), u)

\* A chat does not change the name, the response to a login sets it.
LEMMA EndsWritten ==
    ASSUME DeliveryTypeOK, NEW c \in Conns, NEW u \in Users, link[c] = "open",
           NEW f \in Frame, Write(c, f), curUser' = curUser,
           f.to = u \/ (f.to = None /\ EndsAs(c, u))
    PROVE  EndsAs(c, u)'
<1>. DEFINE n == Len(out[c])
<1>1. /\ n \in Nat /\ Len(out'[c]) = n + 1 /\ n + 1 \in Nat \ {0} /\ n <= n + 1
      /\ \A j \in 1..n : out'[c][j] = out[c][j]
      /\ out'[c][n + 1] = f
  BY OutGrows
<1>2. CASE f.to = u
  <2>. HIDE DEF n
  <2>1. ReadAs(out'[c], curUser'[c], n + 1, u)
    BY <1>1, <1>2, ReadAsAnswered
  <2>. QED
    BY <1>1, <2>1 DEF EndsAs
<1>3. CASE f.to = None /\ EndsAs(c, u)
  <2>1. ReadAs(out[c], curUser'[c], n, u)
    BY <1>3 DEF EndsAs
  <2>2. ReadAs(out'[c], curUser'[c], n, u)
    BY <1>1, <2>1, ReadAsKept
  <2>3. \A k \in (n + 1)..(n + 1) : out'[c][k].to = None
    BY <1>1, <1>3
  <2>4. ReadAs(out'[c], curUser'[c], n + 1, u)
    <3>. HIDE DEF n
    <3>. QED
      BY <1>1, <2>2, <2>3, ReadAsOn
  <2>. QED
    BY <1>1, <2>4 DEF EndsAs
<1>. QED
  BY <1>2, <1>3

\* The name to the end is kept, or is the one login has just answered.
LEMMA EndStep ==
    ASSUME Faults = {}, Grounds, [DeliveryNext]_allVars, NEW c \in Conns,
           link'[c] = "open", session'[c] # None
    PROVE  EndsAs(c, session[c])'
<1>. /\ DeliveryTypeOK /\ SessionTypeOK /\ HandlerHasMessage /\ CalmInv /\ NameInv
     /\ HandlerHasConnection
     /\ None \notin Users \cup Conns
     /\ out[c] \in Seq(Frame) /\ pending[c] \in Seq(Frame)
  BY Placement DEF Grounds, SerialInv, BindingInv, DeliveryTypeOK
<1>1. ASSUME link[c] = "open", session'[c] = session[c] PROVE EndsAs(c, session'[c])
  BY <1>1 DEF NameInv, EndsAs
<1>2. ASSUME UNCHANGED <<out, curUser>>, link[c] = "open", session'[c] = session[c]
      PROVE  EndsAs(c, session[c])'
  BY <1>1, <1>2 DEF EndsAs
<1>3. CASE Apart(c)
  BY <1>1, <1>3 DEF Apart, EndsAs
<1>4. CASE ChatStep(c)
  <2>1. UNCHANGED <<link, session, curUser>>
    BY <1>4 DEF ChatStep, InsertMessage, LookupLocal, MarkLocal, QueryState, Publish,
                AckUpdate, sessionVars
  <2>2. CASE LookupLocal(c)
    <3>1. cur[c] \in Msgs
      BY <2>2 DEF LookupLocal, TaskAt, HandlerHasMessage
    <3>2. ChatFrame(cur[c]) \in Frame /\ ChatFrame(cur[c]).to = None
      BY <3>1 DEF ChatFrame, Frame
    <3>3. out' = out \/ Write(c, ChatFrame(cur[c]))
      BY <2>2 DEF LookupLocal
    <3>4. CASE Write(c, ChatFrame(cur[c]))
      <4>1. session[c] \in Users /\ EndsAs(c, session[c])
        BY <1>1, <2>1 DEF SessionTypeOK
      <4>2. \A u \in Users : EndsAs(c, u) => EndsAs(c, u)'
        BY <2>1, <3>2, <3>4, EndsWritten
      <4>. QED
        BY <2>1, <4>1, <4>2 DEF EndsAs
    <3>. QED
      BY <1>2, <2>1, <3>3, <3>4
  <2>3. CASE ~LookupLocal(c)
    <3>1. out' = out
      BY <1>4, <2>3 DEF ChatStep, InsertMessage, MarkLocal, QueryState, Publish, AckUpdate
    <3>. QED
      BY <1>2, <2>1, <3>1
  <2>. QED
    BY <2>2, <2>3
<1>5. CASE \/ SyncStep(c) \/ AckCheck(c) \/ LoginBinds(c) \/ ChannelStep(c)
           \/ LoginGoesOnline(c) \/ LogoutErases(c) \/ SessionOnly(Offline(c))
  <2>1. UNCHANGED <<out, curUser, session>>
    BY <1>5 DEF SyncStep, LoginSync, LoginMark, LegacyQuery, LegacyRemove, AckCheck,
                LoginBinds, ChannelStep, LoginGoesOnline, LogoutErases, SessionOnly,
                LoginBind, LoginSubscribe, Unsubscribe, LoginOnline, LoginOutErase,
                Offline, SocketsUntouched, sessionVars
  <2>2. link[c] = "open"
    BY <1>5 DEF SyncStep, LoginSync, LoginMark, LegacyQuery, LegacyRemove, AckCheck,
                LoginBinds, ChannelStep, LoginGoesOnline, LogoutErases, SessionOnly,
                LoginBind, LoginSubscribe, Unsubscribe, LoginOnline, LoginOutErase,
                Offline, sessionVars, SessionTypeOK
  <2>. QED
    BY <1>2, <2>1, <2>2
<1>6. CASE LoginReplies(c)
  <2>. DEFINE f == [to |-> acct[c], msgs |-> batch[c]]
  <2>1. /\ pc[c] = "reply" /\ Write(c, f) /\ session'[c] = acct[c]
        /\ UNCHANGED <<curUser, link>>
    BY <1>6 DEF LoginReplies, LoginReply, At, SessionTypeOK
  <2>2. acct[c] \in Users /\ f \in Frame /\ f.to = acct[c]
    BY <2>1 DEF Frame, DeliveryTypeOK, HandlerHasConnection
  <2>. HIDE DEF f
  <2>3. \A u \in Users : f.to = u => EndsAs(c, u)'
    BY <2>1, <2>2, EndsWritten
  <2>. QED
    BY <2>1, <2>2, <2>3 DEF EndsAs
<1>7. CASE ConnectionCloses(c) \/ LogoutChecks(c)
  BY <1>7 DEF ConnectionCloses, CloseErase, LogoutChecks, SessionOnly, LoginOutCheck,
              SessionTypeOK
<1>8. CASE FlushPending(c)
  <2>. DEFINE n == Len(out[c])
              k == Len(out'[c])
  <2>1. UNCHANGED <<curUser, link, session>>
    BY <1>8 DEF FlushPending, sessionVars
  <2>2. /\ n \in Nat /\ k \in Nat /\ n <= k
        /\ \A j \in 1..n : out'[c][j] = out[c][j]
        /\ \A j \in (n + 1)..k : out'[c][j].to = None
    BY <1>8, FlushMoves
  <2>4. ReadAs(out[c], curUser[c], n, session[c])
    BY <1>1, <2>1 DEF EndsAs
  <2>5. ReadAs(out'[c], curUser[c], n, session[c])
    BY <2>2, <2>4, ReadAsKept
  <2>6. ReadAs(out'[c], curUser[c], k, session[c])
    <3>. HIDE DEF n, k
    <3>. QED
      BY <2>2, <2>5, ReadAsOn
  <2>. QED
    BY <2>1, <2>6 DEF EndsAs
<1>9. CASE ClientRead(c)
  <2>. DEFINE n == Len(out[c])
  <2>1. /\ out[c] # <<>> /\ out'[c] = Tail(out[c]) /\ curUser'[c] = Reader(c)
        /\ UNCHANGED <<link, session>>
    BY <1>9 DEF ClientRead, ReadAndAck, sessionVars, DeliveryTypeOK
  <2>2. /\ n \in Nat /\ n # 0 /\ Len(out'[c]) = n - 1 /\ session[c] \in Users
        /\ Reader(c) = IF out[c][1].to = None THEN curUser[c] ELSE out[c][1].to
    BY <2>1 DEF Reader, SessionTypeOK
  <2>3. ReadAs(out[c], curUser[c], n, session[c])
    BY <1>1, <2>1 DEF EndsAs
  <2>4. ReadAs(Tail(out[c]), Reader(c), n - 1, session[c])
    BY <2>1, <2>2, <2>3, ReadAsNext
  <2>. QED
    BY <2>1, <2>2, <2>4 DEF EndsAs
<1>10. CASE Request(c) /\ ~LogoutChecks(c)
  <2>1. CASE SessionOnly(Connect(c))
    BY <2>1 DEF SessionOnly, Connect, NameInv
  <2>2. CASE ClientGoes(c)
    BY <2>2 DEF ClientGoes, PeerClose, SessionTypeOK
  <2>3. ASSUME NEW v \in Users, LoginAccepted(c, v)
        PROVE  UNCHANGED <<out, curUser, link, session>>
    BY <2>3 DEF LoginAccepted, SessionOnly, LoginQuery, SocketsUntouched
  <2>4. ASSUME NEW S, StartChat(c, S)
        PROVE  UNCHANGED <<out, curUser, link, session>>
    BY <2>4 DEF StartChat, sessionVars
  <2>. QED
    BY <1>2, <1>10, <2>1, <2>2, <2>3, <2>4 DEF Request, OneChat, GroupChat
<1>. QED
  BY <1>3, <1>4, <1>5, <1>6, <1>7, <1>8, <1>9, <1>10, OthersApart
     DEF ConnProgress, SessionStep

\* Names follow sessions from step to step.
LEMMA NameStep ==
    ASSUME Faults = {}, Grounds, [DeliveryNext]_allVars
    PROVE  NameInv'
<1>. SUFFICES ASSUME NEW c \in Conns
              PROVE  /\ link'[c] = "new" => session'[c] = None
                     /\ \A i \in DOMAIN pending'[c] : pending'[c][i].to = None
                     /\ link'[c] = "open" /\ session'[c] # None
                          => ReadAs(out'[c], curUser'[c], Len(out'[c]), session'[c])
  BY DEF NameInv
<1>. /\ DeliveryTypeOK /\ SessionTypeOK /\ HandlerHasMessage /\ CalmInv /\ NameInv
     /\ HandlerHasConnection /\ pending[c] \in Seq(Frame)
  BY DEF Grounds, SerialInv, BindingInv, DeliveryTypeOK
<1>1. link'[c] = "new" => session'[c] = None
  <2>1. CASE Apart(c)
    BY <2>1 DEF Apart, NameInv
  <2>2. CASE ConnProgress(c) /\ ~SessionStep(c)
    <3>1. UNCHANGED <<link, session>>
      BY <2>2 DEF ConnProgress, ChatStep, SyncStep, InsertMessage, LookupLocal, MarkLocal,
                  QueryState, Publish, AckUpdate, LoginSync, LoginMark, LegacyQuery,
                  LegacyRemove, AckCheck, FlushPending, ClientRead, ReadAndAck, sessionVars
    <3>. QED
      BY <3>1 DEF NameInv
  <2>3. CASE SessionStep(c)
    <3>1. link[c] # "new"
      BY <2>3 DEF SessionStep, LoginBinds, ChannelStep, LoginGoesOnline, LoginReplies,
                  LogoutErases, ConnectionCloses, SessionOnly, LoginBind, LoginSubscribe,
                  Unsubscribe, LoginOnline, LoginReply, LoginOutErase, CloseErase, Offline,
                  At, HandlerHasConnection
    <3>2. link'[c] # "new"
      BY <2>3, <3>1 DEF SessionStep, LoginBinds, ChannelStep, LoginGoesOnline, LoginReplies,
                  LogoutErases, ConnectionCloses, SessionOnly, LoginBind, LoginSubscribe,
                  Unsubscribe, LoginOnline, LoginReply, LoginOutErase, CloseErase, Offline,
                  ReleaseAccount, NothingToRelease, SessionTypeOK
    <3>. QED
      BY <3>2
  <2>4. CASE Request(c)
    <3>1. link'[c] \in {link[c], "open", "hup"} /\ session'[c] \in {session[c], None}
      BY <2>4 DEF Request, SessionOnly, Connect, ClientGoes, PeerClose, LogoutChecks,
                  LoginOutCheck, LoginAccepted, LoginQuery, OneChat, GroupChat, StartChat,
                  sessionVars, SessionTypeOK
    <3>. QED
      BY <3>1 DEF NameInv
  <2>. QED
    BY <2>1, <2>2, <2>3, <2>4, OthersApart
<1>2. \A i \in DOMAIN pending'[c] : pending'[c][i].to = None
  <2>1. CASE pending'[c] = pending[c]
    BY <2>1 DEF NameInv
  <2>2. ASSUME NEW k \in Msgs, pending'[c] = Append(pending[c], ChatFrame(k)),
               NEW i \in DOMAIN pending'[c]
        PROVE  pending'[c][i].to = None
    <3>1. ChatFrame(k) \in Frame /\ ChatFrame(k).to = None
      BY DEF ChatFrame, Frame
    <3>2. \/ i \in DOMAIN pending[c] /\ pending'[c][i] = pending[c][i]
          \/ pending'[c][i] = ChatFrame(k)
      BY <2>2, <3>1
    <3>. QED
      BY <3>1, <3>2 DEF NameInv
  <2>3. CASE FlushPending(c) \/ ClientGoes(c)
    <3>1. pending'[c] = <<>>
      BY <2>3 DEF FlushPending, ClientGoes, DeliveryTypeOK
    <3>. QED
      BY <3>1
  <2>. QED
    BY <2>1, <2>2, <2>3, PendingMoves
<1>3. link'[c] = "open" /\ session'[c] # None
         => ReadAs(out'[c], curUser'[c], Len(out'[c]), session'[c])
  BY EndStep DEF EndsAs
<1>. QED
  BY <1>1, <1>2, <1>3

-----------------------------------------------------------------------------
\* While nothing fails, every message that is due to a connected account is on
\* its way to it, whatever the order in which the threads of the sender, Redis,
\* the observers, the receiver's login and its client take their steps.
THEOREM NothingStranded ==
    ASSUME Undisturbed
    PROVE  DeliverySpec => []NoStrandedMessage
<1>. DEFINE BringInv == CalmInv /\ NameInv /\ BroughtInv
<1>1. DeliveryInit => BringInv
  <2>. SUFFICES ASSUME DeliveryInit PROVE BringInv
    OBVIOUS
  <2>1. CalmInv
    BY DEF Undisturbed, DeliveryInit, SessionInit, CalmInv
  <2>2. NameInv
    BY DEF DeliveryInit, SessionInit, NameInv
  <2>3. BroughtInv
    BY SessionAssumption DEF DeliveryInit, SessionInit, BroughtInv, Bound
  <2>. QED
    BY <2>1, <2>2, <2>3
<1>2. /\ BringInv /\ SerialInv /\ NoDeadBinding /\ AckInv /\ HandlerHasMessage
      /\ TransitInv /\ [DeliveryNext]_allVars
      => BringInv'
  BY CalmStep, NameStep, BroughtStep DEF Undisturbed, Grounds, AckInv, TransitInv
<1>3. BringInv => NoStrandedMessage
  BY DEF BroughtInv, Brings, NoStrandedMessage, OnItsWay, Holding
<1>4. ~Overlap /\ Faults \subseteq {"crash", "redis"}
  BY DEF Undisturbed
<1>5. SessionSpec => []SerialInv
  BY <1>4, SerialInvariant
<1>. QED
  BY <1>1, <1>2, <1>3, <1>5, DeliveryRefinesSession, NoDeadEntry, AckInvariant,
     TransitAlways, PTL DEF DeliverySpec
=============================================================================
