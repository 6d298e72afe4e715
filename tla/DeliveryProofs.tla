--------------------------- MODULE DeliveryProofs ---------------------------
(***************************************************************************)
(* What module Delivery promises for every set of users, connections,      *)
(* nodes and groups, every number of messages and every fault.             *)
(***************************************************************************)
EXTENDS Delivery, SessionProofs, FiniteSetTheorems

\* A handler that looks a receiver up, marks, publishes or acks has a message.
HandlerHasMessage ==
    \A c \in Conns :
        task[c] \in {"lookup", "mark", "state", "publish", "ack"} => cur[c] \in Msgs

\* All that a step can do to the table chat_message.
RowUntouched == UNCHANGED <<status, receiver>>

RowCreated ==
    \E m \in Msgs, v \in Users :
        /\ FreshId(m)
        /\ status' = [status EXCEPT ![m] = CREATED]
        /\ receiver' = [receiver EXCEPT ![m] = v]
        /\ \E c \in Conns : task'[c] = "lookup" /\ cur'[c] = m

RowMarked == UNCHANGED receiver /\ \E m, u : MarkDelivered(m, u)

RowAcked ==
    /\ UNCHANGED receiver
    /\ \E c \in Conns : task[c] = "ack" /\ \E u \in todo[c] : SetAcked(cur[c], u)

RowStep == RowUntouched \/ RowCreated \/ RowMarked \/ RowAcked

\* Both kinds of chat are StartChat with a set of users.
LEMMA ChatReceivers ==
    /\ \A u \in Users : {u} \in SUBSET Users
    /\ \A g \in Groups, c \in Conns : g \ {session[c]} \in SUBSET Users
BY DeliveryAssumption

\* The bound on the deliveries asked for counts finite sets of receivers.
LEMMA StartedWithinBound ==
    ASSUME DeliveryTypeOK, NEW c \in Conns, NEW S \in SUBSET Users,
           StartChat(c, S)
    PROVE  sent' \in Nat
<1>1. IsFiniteSet(S)
  BY FS_Subset, DeliveryAssumption
<1>2. Cardinality(S) \in Nat
  BY <1>1, FS_CardinalityType
<1>. QED
  BY <1>2 DEF StartChat, DeliveryTypeOK

-----------------------------------------------------------------------------
\* What Delivery adds to a handler leaves sessions alone.
LEMMA SessionSimulation ==
    ASSUME [DeliveryNext]_allVars
    PROVE  [SessionNext]_sessionVars
<1>1. ASSUME NEW c \in Conns, InsertMessage(c)
      PROVE [SessionNext]_sessionVars
  BY <1>1 DEF InsertMessage
<1>2. ASSUME NEW c \in Conns, LookupLocal(c) PROVE [SessionNext]_sessionVars
  BY <1>2 DEF LookupLocal
<1>3. ASSUME NEW c \in Conns, MarkLocal(c) PROVE [SessionNext]_sessionVars
  BY <1>3 DEF MarkLocal
<1>4. ASSUME NEW c \in Conns, QueryState(c) PROVE [SessionNext]_sessionVars
  BY <1>4 DEF QueryState
<1>5. ASSUME NEW c \in Conns, Publish(c) PROVE [SessionNext]_sessionVars
  BY <1>5 DEF Publish
<1>6. ASSUME NEW c \in Conns, AckUpdate(c) PROVE [SessionNext]_sessionVars
  BY <1>6 DEF AckUpdate
<1>7. ASSUME NEW c \in Conns, LoginSync(c) PROVE [SessionNext]_sessionVars
  BY <1>7 DEF LoginSync
<1>8. ASSUME NEW c \in Conns, LoginMark(c) PROVE [SessionNext]_sessionVars
  BY <1>8 DEF LoginMark
<1>9. ASSUME NEW c \in Conns, LegacyQuery(c) PROVE [SessionNext]_sessionVars
  BY <1>9 DEF LegacyQuery
<1>10. ASSUME NEW c \in Conns, LegacyRemove(c)
      PROVE [SessionNext]_sessionVars
  BY <1>10 DEF LegacyRemove
<1>11. ASSUME NEW c \in Conns, AckCheck(c) PROVE [SessionNext]_sessionVars
  BY <1>11 DEF AckCheck
<1>12. ASSUME NEW c \in Conns, FlushPending(c)
      PROVE [SessionNext]_sessionVars
  BY <1>12 DEF FlushPending
<1>13. ASSUME NEW c \in Conns, ClientRead(c) PROVE [SessionNext]_sessionVars
  BY <1>13 DEF ClientRead, ReadAndAck
<1>14. ASSUME NEW c \in Conns, LoginBinds(c) PROVE [SessionNext]_sessionVars
  BY <1>14 DEF LoginBinds, SessionOnly, SessionNext, Handler
<1>15. ASSUME NEW c \in Conns, ChannelStep(c)
      PROVE [SessionNext]_sessionVars
  BY <1>15 DEF ChannelStep, SessionNext, Handler
<1>16. ASSUME NEW c \in Conns, LoginGoesOnline(c)
      PROVE [SessionNext]_sessionVars
  BY <1>16 DEF LoginGoesOnline, SessionNext, Handler
<1>17. ASSUME NEW c \in Conns, LoginReplies(c)
      PROVE [SessionNext]_sessionVars
  BY <1>17 DEF LoginReplies, SessionNext, Handler
<1>18. ASSUME NEW c \in Conns, LogoutErases(c)
      PROVE [SessionNext]_sessionVars
  BY <1>18 DEF LogoutErases, SessionOnly, SessionNext, Handler
<1>19. ASSUME NEW c \in Conns, ConnectionCloses(c)
      PROVE [SessionNext]_sessionVars
  BY <1>19 DEF ConnectionCloses, SessionNext, Handler
<1>20. ASSUME NEW c \in Conns, ClientGoes(c) PROVE [SessionNext]_sessionVars
  BY <1>20 DEF ClientGoes, SessionNext, Client
<1>21. ASSUME NEW c \in Conns, LogoutChecks(c)
      PROVE [SessionNext]_sessionVars
  BY <1>21 DEF LogoutChecks, SessionOnly, SessionNext, Client
<1>22. ASSUME NEW c \in Conns, SessionOnly(Offline(c))
      PROVE [SessionNext]_sessionVars
  BY <1>22 DEF SessionOnly, SessionNext, Handler
<1>23. ASSUME NEW c \in Conns, SessionOnly(Connect(c))
      PROVE [SessionNext]_sessionVars
  BY <1>23 DEF SessionOnly, SessionNext, Client
<1>24. ASSUME NEW c \in Conns, NEW u \in Users, LoginAccepted(c, u)
      PROVE [SessionNext]_sessionVars
  BY <1>24 DEF LoginAccepted, SessionOnly, SessionNext, Client
<1>25. ASSUME NEW c \in Conns, NEW S \in SUBSET Users, StartChat(c, S)
      PROVE [SessionNext]_sessionVars
  BY <1>25 DEF StartChat
<1>26. ASSUME NEW n \in Nodes, ObserverDeliver(n)
      PROVE [SessionNext]_sessionVars
  BY <1>26 DEF ObserverDeliver
<1>27. ASSUME NEW n \in Nodes, ObserverMark(n)
      PROVE [SessionNext]_sessionVars
  BY <1>27 DEF ObserverMark
<1>28. ASSUME NEW n \in Nodes, NodeStops(n) PROVE [SessionNext]_sessionVars
  BY <1>28 DEF NodeStops, SessionNext, Environment
<1>29. ASSUME NEW n \in Nodes, RedisBreaks(n)
      PROVE [SessionNext]_sessionVars
  BY <1>29 DEF RedisBreaks, SessionNext, Environment
<1>30. ASSUME NEW n \in Nodes, NEW u \in Users, RedisApply(n, u)
      PROVE [SessionNext]_sessionVars
  BY <1>30 DEF RedisApply
<1>31. ASSUME NEW n \in Nodes, SessionOnly(Interrupt(n))
      PROVE [SessionNext]_sessionVars
  BY <1>31 DEF SessionOnly, SessionNext, Environment
<1>32. ASSUME NEW n \in Nodes, SessionOnly(Restart(n))
      PROVE [SessionNext]_sessionVars
  BY <1>32 DEF SessionOnly, SessionNext, Environment
<1>33. CASE UNCHANGED allVars
  BY <1>33 DEF allVars
<1>. QED
  BY <1>1, <1>2, <1>3, <1>4, <1>5, <1>6, <1>7, <1>8, <1>9, <1>10, <1>11,
     <1>12, <1>13, <1>14, <1>15, <1>16, <1>17, <1>18, <1>19, <1>20, <1>21,
     <1>22, <1>23, <1>24, <1>25, <1>26, <1>27, <1>28, <1>29, <1>30, <1>31,
     <1>32, <1>33, ChatReceivers
     DEF DeliveryNext, ConnProgress, Request, NodeProgress, NodeEvent,
         ChatStep, SyncStep, SessionStep, OneChat, GroupChat

\* A frame queued for a connection's event loop, whoever queues it.
LEMMA EnqueueType ==
    ASSUME pending \in [Conns -> Seq(Frame)], NEW d, NEW frame \in Frame,
           Enqueue(d, frame)
    PROVE  pending' \in [Conns -> Seq(Frame)]
<1>1. CASE d \in Conns
  <2>1. Append(pending[d], frame) \in Seq(Frame)
    BY <1>1
  <2>. QED
    BY <2>1 DEF Enqueue
<1>2. CASE d \notin Conns
  BY <1>2 DEF Enqueue
<1>. QED
  BY <1>1, <1>2

\* A frame written at once is a frame on its way to the client.
LEMMA WriteType ==
    ASSUME out \in [Conns -> Seq(Frame)], NEW c \in Conns, NEW frame \in Frame,
           Write(c, frame)
    PROVE  out' \in [Conns -> Seq(Frame)]
<1>1. Append(out[c], frame) \in Seq(Frame)
  OBVIOUS
<1>. QED
  BY <1>1 DEF Write

\* queryUnacked returns rows of the table, whatever its limit.
LEMMA UnreadAreMessages == \A u, k : Oldest(Unacked(u), k) \subseteq Msgs
BY DEF Oldest, Unacked

\* DeliveryTypeOK is inductive given that handlers have their message.
LEMMA DeliveryTypeStep ==
    ASSUME DeliveryTypeOK, HandlerHasMessage, SessionTypeOK', [DeliveryNext]_allVars
    PROVE  DeliveryTypeOK'
<1>1. ASSUME NEW c \in Conns, InsertMessage(c) PROVE DeliveryTypeOK'
  <2>6. /\ todo \in [Conns -> SUBSET Users]
        /\ cur \in [Conns -> Msgs \cup {NoMsg}]
        /\ receiver \in [Msgs -> Users \cup {None}]
    BY DEF DeliveryTypeOK
  <2>1. status' \in [Msgs -> {Absent, CREATED, DELIVERED, ACKED}]
    BY <1>1 DEF InsertMessage, DeliveryTypeOK
  <2>2. receiver' \in [Msgs -> Users \cup {None}]
    BY <1>1, <2>6 DEF InsertMessage
  <2>3. todo' \in [Conns -> SUBSET Users]
    BY <1>1, <2>6 DEF InsertMessage, NextReceiver
  <2>4. cur' \in [Conns -> Msgs \cup {NoMsg}]
    BY <1>1, <2>6 DEF InsertMessage, NextReceiver
  <2>5. task' \in [Conns -> Tasks]
    BY <1>1 DEF InsertMessage, NextReceiver, GotoTask, Tasks, DeliveryTypeOK
  <2>. QED
    BY <1>1, <2>1, <2>2, <2>3, <2>4, <2>5, SessionTypeOK'
       DEF InsertMessage, DeliveryTypeOK
<1>2. ASSUME NEW c \in Conns, LookupLocal(c) PROVE DeliveryTypeOK'
  <2>1. cur[c] \in Msgs
    BY <1>2 DEF LookupLocal, TaskAt, HandlerHasMessage
  <2>2. ChatFrame(cur[c]) \in Frame
    BY <1>2, <2>1 DEF ChatFrame, Frame
  <2>3. task' \in [Conns -> Tasks]
    BY <1>2 DEF LookupLocal, GotoTask, Tasks, DeliveryTypeOK
  <2>4. pending' \in [Conns -> Seq(Frame)]
    BY <1>2, <2>2, EnqueueType DEF LookupLocal, DeliveryTypeOK
  <2>5. out' \in [Conns -> Seq(Frame)]
    BY <1>2, <2>2, WriteType DEF LookupLocal, DeliveryTypeOK
  <2>. QED
    BY <1>2, <2>3, <2>4, <2>5, SessionTypeOK' DEF LookupLocal, DeliveryTypeOK
<1>3. ASSUME NEW c \in Conns, MarkLocal(c) PROVE DeliveryTypeOK'
  <2>1. status' \in [Msgs -> {Absent, CREATED, DELIVERED, ACKED}]
    BY <1>3 DEF MarkLocal, MarkDelivered, DeliveryTypeOK
  <2>2. todo' \in [Conns -> SUBSET Users]
    BY <1>3 DEF MarkLocal, NextReceiver, DeliveryTypeOK
  <2>3. cur' \in [Conns -> Msgs \cup {NoMsg}]
    BY <1>3 DEF MarkLocal, NextReceiver, DeliveryTypeOK
  <2>4. task' \in [Conns -> Tasks]
    BY <1>3 DEF MarkLocal, NextReceiver, GotoTask, Tasks, DeliveryTypeOK
  <2>. QED
    BY <1>3, <2>1, <2>2, <2>3, <2>4, SessionTypeOK'
       DEF MarkLocal, DeliveryTypeOK
<1>4. ASSUME NEW c \in Conns, QueryState(c) PROVE DeliveryTypeOK'
  <2>1. todo' \in [Conns -> SUBSET Users]
    BY <1>4 DEF QueryState, NextReceiver, DeliveryTypeOK
  <2>2. cur' \in [Conns -> Msgs \cup {NoMsg}]
    BY <1>4 DEF QueryState, NextReceiver, DeliveryTypeOK
  <2>3. task' \in [Conns -> Tasks]
    BY <1>4 DEF QueryState, NextReceiver, GotoTask, Tasks, DeliveryTypeOK
  <2>. QED
    BY <1>4, <2>1, <2>2, <2>3, SessionTypeOK' DEF QueryState, DeliveryTypeOK
<1>5. ASSUME NEW c \in Conns, Publish(c) PROVE DeliveryTypeOK'
  <2>1. cur[c] \in Msgs
    BY <1>5 DEF Publish, TaskAt, HandlerHasMessage
  <2>2. inbox' \in [Nodes -> Seq(Msgs)]
    BY <1>5, <2>1 DEF Publish, DeliveryTypeOK
  <2>3. todo' \in [Conns -> SUBSET Users]
    BY <1>5 DEF Publish, NextReceiver, DeliveryTypeOK
  <2>4. cur' \in [Conns -> Msgs \cup {NoMsg}]
    BY <1>5 DEF Publish, NextReceiver, DeliveryTypeOK
  <2>5. task' \in [Conns -> Tasks]
    BY <1>5 DEF Publish, NextReceiver, GotoTask, Tasks, DeliveryTypeOK
  <2>. QED
    BY <1>5, <2>2, <2>3, <2>4, <2>5, SessionTypeOK'
       DEF Publish, DeliveryTypeOK
<1>6. ASSUME NEW c \in Conns, AckUpdate(c) PROVE DeliveryTypeOK'
  <2>1. status' \in [Msgs -> {Absent, CREATED, DELIVERED, ACKED}]
    BY <1>6 DEF AckUpdate, SetAcked, DeliveryTypeOK
  <2>2. todo' \in [Conns -> SUBSET Users]
    BY <1>6 DEF AckUpdate, NextReceiver, DeliveryTypeOK
  <2>3. cur' \in [Conns -> Msgs \cup {NoMsg}]
    BY <1>6 DEF AckUpdate, NextReceiver, DeliveryTypeOK
  <2>4. task' \in [Conns -> Tasks]
    BY <1>6 DEF AckUpdate, NextReceiver, GotoTask, Tasks, DeliveryTypeOK
  <2>. QED
    BY <1>6, <2>1, <2>2, <2>3, <2>4, SessionTypeOK'
       DEF AckUpdate, DeliveryTypeOK
<1>7. ASSUME NEW c \in Conns, LoginSync(c) PROVE DeliveryTypeOK'
  <2>1. marks' \in [Conns -> SUBSET Msgs]
    <3>1. marks \in [Conns -> SUBSET Msgs]
      BY DEF DeliveryTypeOK
    <3>2. \/ marks' = [marks EXCEPT ![c] = Oldest(Unacked(acct[c]), SyncLimit)]
          \/ UNCHANGED marks
      BY <1>7 DEF LoginSync
    <3>3. Oldest(Unacked(acct[c]), SyncLimit) \subseteq Msgs
      BY UnreadAreMessages
    <3>. QED
      BY <3>1, <3>2, <3>3
  <2>2. batch' \in [Conns -> SUBSET (Msgs \cup Legacy)]
    BY <1>7, <2>1 DEF LoginSync, DeliveryTypeOK
  <2>3. task' \in [Conns -> Tasks]
    BY <1>7 DEF LoginSync, GotoTask, Tasks, DeliveryTypeOK
  <2>. QED
    BY <1>7, <2>1, <2>2, <2>3, SessionTypeOK' DEF LoginSync, DeliveryTypeOK
<1>8. ASSUME NEW c \in Conns, LoginMark(c) PROVE DeliveryTypeOK'
  <2>1. status' \in [Msgs -> {Absent, CREATED, DELIVERED, ACKED}]
    BY ZenonT(60), <1>8 DEF LoginMark, MarkDelivered, DELIVERED, ACKED, DeliveryTypeOK
  <2>2. marks' \in [Conns -> SUBSET Msgs]
    BY <1>8 DEF LoginMark, DeliveryTypeOK
  <2>3. task' \in [Conns -> Tasks]
    BY <1>8 DEF LoginMark, GotoTask, Tasks, DeliveryTypeOK
  <2>. QED
    BY <1>8, <2>1, <2>2, <2>3, SessionTypeOK' DEF LoginMark, DeliveryTypeOK
<1>9. ASSUME NEW c \in Conns, LegacyQuery(c) PROVE DeliveryTypeOK'
  <2>1. batch' \in [Conns -> SUBSET (Msgs \cup Legacy)]
    <3>1. LegacyOf(acct[c]) \subseteq Legacy
      BY DEF LegacyOf, DeliveryTypeOK
    <3>2. batch \in [Conns -> SUBSET (Msgs \cup Legacy)]
      BY DEF DeliveryTypeOK
    <3>. QED
      BY <1>9, <3>1, <3>2 DEF LegacyQuery
  <2>2. task' \in [Conns -> Tasks]
    BY <1>9 DEF LegacyQuery, GotoTask, Tasks, DeliveryTypeOK
  <2>. QED
    BY <1>9, <2>1, <2>2, SessionTypeOK' DEF LegacyQuery, DeliveryTypeOK
<1>10. ASSUME NEW c \in Conns, LegacyRemove(c) PROVE DeliveryTypeOK'
  <2>1. offlinemessage' \in SUBSET Legacy
    BY <1>10 DEF LegacyRemove, DeliveryTypeOK
  <2>2. task' \in [Conns -> Tasks]
    BY <1>10 DEF LegacyRemove, GotoTask, Tasks, DeliveryTypeOK
  <2>. QED
    BY <1>10, <2>1, <2>2, SessionTypeOK' DEF LegacyRemove, DeliveryTypeOK
<1>11. ASSUME NEW c \in Conns, AckCheck(c) PROVE DeliveryTypeOK'
  <2>5. PICK a \in acks[c] : AckOf(c, a)
    BY <1>11 DEF AckCheck
  <2>6. a[2] \in Msgs
    BY <2>5 DEF DeliveryTypeOK
  <2>1. acks' \in [Conns -> SUBSET ((Users \cup {None}) \X Msgs)]
    BY <1>11 DEF AckCheck, DeliveryTypeOK
  <2>2. todo' \in [Conns -> SUBSET Users]
    <3>1. todo \in [Conns -> SUBSET Users]
      BY DEF DeliveryTypeOK
    <3>2. CASE a[1] \in Users /\ Bound(c, a[1])
      BY <2>5, <3>1, <3>2 DEF AckOf
    <3>3. CASE ~(a[1] \in Users /\ Bound(c, a[1]))
      BY <2>5, <3>1, <3>3 DEF AckOf
    <3>. QED
      BY <3>2, <3>3
  <2>3. cur' \in [Conns -> Msgs \cup {NoMsg}]
    BY <2>5, <2>6 DEF AckOf, DeliveryTypeOK
  <2>4. task' \in [Conns -> Tasks]
    BY <1>11 DEF AckCheck, AckOf, GotoTask, Tasks, DeliveryTypeOK
  <2>. QED
    BY <1>11, <2>1, <2>2, <2>3, <2>4, SessionTypeOK'
       DEF AckCheck, DeliveryTypeOK
<1>12. ASSUME NEW c \in Conns, FlushPending(c) PROVE DeliveryTypeOK'
  <2>1. out' \in [Conns -> Seq(Frame)]
    BY <1>12 DEF FlushPending, DeliveryTypeOK
  <2>2. pending' \in [Conns -> Seq(Frame)]
    BY <1>12 DEF FlushPending, DeliveryTypeOK
  <2>. QED
    BY <1>12, <2>1, <2>2
       DEF FlushPending, MessagesUntouched, HandlersUntouched, RedisUntouched,
           DeliveryTypeOK
<1>13. ASSUME NEW c \in Conns, ClientRead(c) PROVE DeliveryTypeOK'
  <2>1. out[c] # <<>> /\ out[c] \in Seq(Frame)
    BY <1>13 DEF ClientRead, ReadAndAck, DeliveryTypeOK
  <2>2. Head(out[c]) \in Frame /\ Tail(out[c]) \in Seq(Frame)
    BY <2>1
  <2>3. Reader(c) \in Users \cup {None}
    BY <2>2 DEF Reader, Frame, DeliveryTypeOK
  <2>4. Head(out[c]).msgs \subseteq Msgs \cup Legacy
    BY <2>2 DEF Frame
  <2>5. curUser' \in [Conns -> Users \cup {None}]
    BY <1>13, <2>2, <2>3, <2>4 DEF ClientRead, ReadAndAck, DeliveryTypeOK
  <2>6. shown' \in SUBSET ((Users \cup {None}) \X (Msgs \cup Legacy))
    BY <1>13, <2>2, <2>3, <2>4 DEF ClientRead, ReadAndAck, DeliveryTypeOK
  <2>7. acks' \in [Conns -> SUBSET ((Users \cup {None}) \X Msgs)]
    BY <1>13, <2>2, <2>3, <2>4 DEF ClientRead, ReadAndAck, DeliveryTypeOK
  <2>8. out' \in [Conns -> Seq(Frame)]
    BY <1>13, <2>2 DEF ClientRead, ReadAndAck, DeliveryTypeOK
  <2>. QED
    BY <1>13, <2>5, <2>6, <2>7, <2>8
       DEF ClientRead, ReadAndAck, HandlersUntouched, RedisUntouched,
           DeliveryTypeOK
<1>14. ASSUME NEW c \in Conns, LoginBinds(c) PROVE DeliveryTypeOK'
  BY <1>14
     DEF LoginBinds, SessionOnly, MessagesUntouched, SocketsUntouched,
         HandlersUntouched, RedisUntouched, DeliveryTypeOK
<1>15. ASSUME NEW c \in Conns, ChannelStep(c) PROVE DeliveryTypeOK'
  <2>1. redisSubs' \in [Nodes -> SUBSET Users]
    BY <1>15
       DEF ChannelStep, FollowSubscriptions, DeliveryTypeOK, SessionTypeOK
  <2>. QED
    BY <1>15, <2>1
       DEF ChannelStep, MessagesUntouched, SocketsUntouched,
           HandlersUntouched, DeliveryTypeOK
<1>16. ASSUME NEW c \in Conns, LoginGoesOnline(c) PROVE DeliveryTypeOK'
  <2>1. task' \in [Conns -> Tasks]
    BY <1>16 DEF LoginGoesOnline, GotoTask, Tasks, DeliveryTypeOK
  <2>. QED
    BY <1>16, <2>1
       DEF LoginGoesOnline, MessagesUntouched, SocketsUntouched,
           RedisUntouched, DeliveryTypeOK
<1>17. ASSUME NEW c \in Conns, LoginReplies(c) PROVE DeliveryTypeOK'
  <2>1. [to |-> acct[c], msgs |-> batch[c]] \in Frame
    BY <1>17 DEF Frame, DeliveryTypeOK, SessionTypeOK
  <2>2. out' \in [Conns -> Seq(Frame)]
    BY <1>17, <2>1 DEF LoginReplies, Write, DeliveryTypeOK
  <2>3. batch' \in [Conns -> SUBSET (Msgs \cup Legacy)]
    BY <1>17 DEF LoginReplies, DeliveryTypeOK
  <2>4. task' \in [Conns -> Tasks]
    BY <1>17 DEF LoginReplies, GotoTask, Tasks, DeliveryTypeOK
  <2>. QED
    BY <1>17, <2>2, <2>3, <2>4
       DEF LoginReplies, MessagesUntouched, RedisUntouched, DeliveryTypeOK
<1>18. ASSUME NEW c \in Conns, LogoutErases(c) PROVE DeliveryTypeOK'
  BY <1>18
     DEF LogoutErases, SessionOnly, MessagesUntouched, SocketsUntouched,
         HandlersUntouched, RedisUntouched, DeliveryTypeOK
<1>19. ASSUME NEW c \in Conns, ConnectionCloses(c) PROVE DeliveryTypeOK'
  <2>1. acks' \in [Conns -> SUBSET ((Users \cup {None}) \X Msgs)]
    BY <1>19 DEF ConnectionCloses, DeliveryTypeOK
  <2>2. curUser' \in [Conns -> Users \cup {None}]
    BY <1>19 DEF ConnectionCloses, DeliveryTypeOK
  <2>. QED
    BY <1>19, <2>1, <2>2
       DEF ConnectionCloses, MessagesUntouched, HandlersUntouched,
           RedisUntouched, DeliveryTypeOK
<1>20. ASSUME NEW c \in Conns, ClientGoes(c) PROVE DeliveryTypeOK'
  <2>1. pending' \in [Conns -> Seq(Frame)]
    BY <1>20 DEF ClientGoes, DeliveryTypeOK
  <2>2. out' \in [Conns -> Seq(Frame)]
    BY <1>20 DEF ClientGoes, DeliveryTypeOK
  <2>. QED
    BY <1>20, <2>1, <2>2
       DEF ClientGoes, MessagesUntouched, HandlersUntouched, RedisUntouched,
           DeliveryTypeOK
<1>21. ASSUME NEW c \in Conns, LogoutChecks(c) PROVE DeliveryTypeOK'
  BY <1>21
     DEF LogoutChecks, SessionOnly, MessagesUntouched, SocketsUntouched,
         HandlersUntouched, RedisUntouched, DeliveryTypeOK
<1>22. ASSUME NEW c \in Conns, SessionOnly(Offline(c)) PROVE DeliveryTypeOK'
  BY <1>22
     DEF SessionOnly, MessagesUntouched, SocketsUntouched, HandlersUntouched,
         RedisUntouched, DeliveryTypeOK
<1>23. ASSUME NEW c \in Conns, SessionOnly(Connect(c)) PROVE DeliveryTypeOK'
  BY <1>23
     DEF SessionOnly, MessagesUntouched, SocketsUntouched, HandlersUntouched,
         RedisUntouched, DeliveryTypeOK
<1>24. ASSUME NEW c \in Conns, NEW u \in Users, LoginAccepted(c, u)
      PROVE DeliveryTypeOK'
  BY <1>24
     DEF LoginAccepted, SessionOnly, MessagesUntouched, SocketsUntouched,
         HandlersUntouched, RedisUntouched, DeliveryTypeOK
<1>25. ASSUME NEW c \in Conns, NEW S \in SUBSET Users, StartChat(c, S)
      PROVE DeliveryTypeOK'
  <2>1. sent' \in Nat
    BY <1>25, StartedWithinBound DEF StartChat, DeliveryTypeOK
  <2>2. todo' \in [Conns -> SUBSET Users]
    BY <1>25 DEF StartChat, DeliveryTypeOK
  <2>3. task' \in [Conns -> Tasks]
    BY <1>25 DEF StartChat, GotoTask, Tasks, DeliveryTypeOK
  <2>. QED
    BY <1>25, <2>1, <2>2, <2>3, SessionTypeOK' DEF StartChat, DeliveryTypeOK
<1>26. ASSUME NEW n \in Nodes, ObserverDeliver(n) PROVE DeliveryTypeOK'
  <2>1. ChatFrame(Head(inbox[n])) \in Frame
    BY <1>26 DEF ChatFrame, Frame, ObserverDeliver, DeliveryTypeOK
  <2>2. inbox' \in [Nodes -> Seq(Msgs)]
    BY <1>26, <2>1 DEF ObserverDeliver, DeliveryTypeOK
  <2>3. pending' \in [Conns -> Seq(Frame)]
    BY <1>26, <2>1, EnqueueType DEF ObserverDeliver, DeliveryTypeOK
  <2>4. obs' \in [Nodes -> Msgs \cup {NoMsg}]
    <3>1. Head(inbox[n]) \in Msgs
      BY <1>26 DEF ObserverDeliver, DeliveryTypeOK
    <3>2. obs \in [Nodes -> Msgs \cup {NoMsg}]
      BY DEF DeliveryTypeOK
    <3>. QED
      BY <1>26, <3>1, <3>2 DEF ObserverDeliver
  <2>. QED
    BY <1>26, <2>2, <2>3, <2>4, SessionTypeOK'
       DEF ObserverDeliver, DeliveryTypeOK
<1>27. ASSUME NEW n \in Nodes, ObserverMark(n) PROVE DeliveryTypeOK'
  <2>1. status' \in [Msgs -> {Absent, CREATED, DELIVERED, ACKED}]
    BY <1>27 DEF ObserverMark, MarkDelivered, DeliveryTypeOK
  <2>2. obs' \in [Nodes -> Msgs \cup {NoMsg}]
    BY <1>27 DEF ObserverMark, DeliveryTypeOK
  <2>. QED
    BY <1>27, <2>1, <2>2, SessionTypeOK' DEF ObserverMark, DeliveryTypeOK
<1>28. ASSUME NEW n \in Nodes, NodeStops(n) PROVE DeliveryTypeOK'
  <2>1. task' \in [Conns -> Tasks]
    BY <1>28 DEF NodeStops, Tasks, DeliveryTypeOK
  <2>2. todo' \in [Conns -> SUBSET Users]
    BY <1>28 DEF NodeStops, DeliveryTypeOK
  <2>3. cur' \in [Conns -> Msgs \cup {NoMsg}]
    BY <1>28 DEF NodeStops, DeliveryTypeOK
  <2>4. marks' \in [Conns -> SUBSET Msgs]
    BY <1>28 DEF NodeStops, DeliveryTypeOK
  <2>5. batch' \in [Conns -> SUBSET (Msgs \cup Legacy)]
    BY <1>28 DEF NodeStops, DeliveryTypeOK
  <2>6. pending' \in [Conns -> Seq(Frame)]
    BY <1>28 DEF NodeStops, DeliveryTypeOK
  <2>7. out' \in [Conns -> Seq(Frame)]
    BY <1>28 DEF NodeStops, DeliveryTypeOK
  <2>8. acks' \in [Conns -> SUBSET ((Users \cup {None}) \X Msgs)]
    BY <1>28 DEF NodeStops, DeliveryTypeOK
  <2>9. curUser' \in [Conns -> Users \cup {None}]
    BY <1>28 DEF NodeStops, DeliveryTypeOK
  <2>10. redisSubs' \in [Nodes -> SUBSET Users]
    BY <1>28 DEF NodeStops, DeliveryTypeOK
  <2>11. inbox' \in [Nodes -> Seq(Msgs)]
    BY <1>28 DEF NodeStops, DeliveryTypeOK
  <2>12. obs' \in [Nodes -> Msgs \cup {NoMsg}]
    BY <1>28 DEF NodeStops, DeliveryTypeOK
  <2>. QED
    BY <1>28, <2>1, <2>2, <2>3, <2>4, <2>5, <2>6, <2>7, <2>8, <2>9, <2>10,
       <2>11, <2>12
       DEF NodeStops, MessagesUntouched, DeliveryTypeOK
<1>29. ASSUME NEW n \in Nodes, RedisBreaks(n) PROVE DeliveryTypeOK'
  <2>1. redisSubs' \in [Nodes -> SUBSET Users]
    BY <1>29 DEF RedisBreaks, DeliveryTypeOK
  <2>2. inbox' \in [Nodes -> Seq(Msgs)]
    <3>1. inbox \in [Nodes -> Seq(Msgs)] /\ <<>> \in Seq(Msgs)
      BY DEF DeliveryTypeOK
    <3>2. UNCHANGED inbox \/ inbox' = [inbox EXCEPT ![n] = <<>>]
      BY <1>29 DEF RedisBreaks
    <3>. QED
      BY <3>1, <3>2
  <2>. QED
    BY <1>29, <2>1, <2>2
       DEF RedisBreaks, MessagesUntouched, SocketsUntouched,
           HandlersUntouched, DeliveryTypeOK
<1>30. ASSUME NEW n \in Nodes, NEW u \in Users, RedisApply(n, u)
      PROVE DeliveryTypeOK'
  <2>1. redisSubs' \in [Nodes -> SUBSET Users]
    BY <1>30 DEF RedisApply, DeliveryTypeOK
  <2>. QED
    BY <1>30, <2>1, SessionTypeOK' DEF RedisApply, DeliveryTypeOK
<1>31. ASSUME NEW n \in Nodes, SessionOnly(Interrupt(n))
      PROVE DeliveryTypeOK'
  BY <1>31
     DEF SessionOnly, MessagesUntouched, SocketsUntouched, HandlersUntouched,
         RedisUntouched, DeliveryTypeOK
<1>32. ASSUME NEW n \in Nodes, SessionOnly(Restart(n)) PROVE DeliveryTypeOK'
  BY <1>32
     DEF SessionOnly, MessagesUntouched, SocketsUntouched, HandlersUntouched,
         RedisUntouched, DeliveryTypeOK
<1>33. CASE UNCHANGED allVars
  BY <1>33 DEF allVars, deliveryVars, DeliveryTypeOK
<1>. QED
  BY <1>1, <1>2, <1>3, <1>4, <1>5, <1>6, <1>7, <1>8, <1>9, <1>10, <1>11,
     <1>12, <1>13, <1>14, <1>15, <1>16, <1>17, <1>18, <1>19, <1>20, <1>21,
     <1>22, <1>23, <1>24, <1>25, <1>26, <1>27, <1>28, <1>29, <1>30, <1>31,
     <1>32, <1>33, ChatReceivers
     DEF DeliveryNext, ConnProgress, Request, NodeProgress, NodeEvent,
         ChatStep, SyncStep, SessionStep, OneChat, GroupChat

\* From the insert on, and from the check of an ACK on, cur is a real message.
LEMMA MessageStep ==
    ASSUME DeliveryTypeOK, HandlerHasMessage, [DeliveryNext]_allVars
    PROVE  HandlerHasMessage'
<1>1. ASSUME NEW c \in Conns, InsertMessage(c) PROVE HandlerHasMessage'
  <2>1. task \in [Conns -> Tasks] /\ cur \in [Conns -> Msgs \cup {NoMsg}]
    BY DEF DeliveryTypeOK
  <2>2. \A d \in Conns : d # c => task'[d] = task[d] /\ cur'[d] = cur[d]
    BY <1>1, <2>1 DEF InsertMessage, NextReceiver, GotoTask
  <2>3. \/ cur'[c] \in Msgs
        \/ task'[c] \in {"none", "insert"}
    BY <1>1, <2>1 DEF InsertMessage, NextReceiver, GotoTask
  <2>. QED
    BY <2>2, <2>3 DEF HandlerHasMessage
<1>2. ASSUME NEW c \in Conns, LookupLocal(c) PROVE HandlerHasMessage'
  BY <1>2 DEF LookupLocal, GotoTask, TaskAt, HandlerHasMessage, DeliveryTypeOK
<1>3. ASSUME NEW c \in Conns, MarkLocal(c) PROVE HandlerHasMessage'
  BY <1>3
     DEF MarkLocal, NextReceiver, GotoTask, HandlerHasMessage, DeliveryTypeOK
<1>4. ASSUME NEW c \in Conns, QueryState(c) PROVE HandlerHasMessage'
  BY <1>4
     DEF QueryState, NextReceiver, GotoTask, TaskAt, HandlerHasMessage,
         DeliveryTypeOK
<1>5. ASSUME NEW c \in Conns, Publish(c) PROVE HandlerHasMessage'
  BY <1>5
     DEF Publish, NextReceiver, GotoTask, HandlerHasMessage, DeliveryTypeOK
<1>6. ASSUME NEW c \in Conns, AckUpdate(c) PROVE HandlerHasMessage'
  BY <1>6
     DEF AckUpdate, NextReceiver, GotoTask, HandlerHasMessage, DeliveryTypeOK
<1>7. ASSUME NEW c \in Conns, LoginSync(c) PROVE HandlerHasMessage'
  BY <1>7 DEF LoginSync, GotoTask, HandlerHasMessage
<1>8. ASSUME NEW c \in Conns, LoginMark(c) PROVE HandlerHasMessage'
  BY <1>8 DEF LoginMark, GotoTask, HandlerHasMessage
<1>9. ASSUME NEW c \in Conns, LegacyQuery(c) PROVE HandlerHasMessage'
  BY <1>9 DEF LegacyQuery, GotoTask, HandlerHasMessage, DeliveryTypeOK
<1>10. ASSUME NEW c \in Conns, LegacyRemove(c) PROVE HandlerHasMessage'
  BY <1>10 DEF LegacyRemove, GotoTask, HandlerHasMessage
<1>11. ASSUME NEW c \in Conns, AckCheck(c) PROVE HandlerHasMessage'
  <2>1. PICK a \in acks[c] : AckOf(c, a)
    BY <1>11 DEF AckCheck
  <2>2. a[2] \in Msgs
    BY <2>1 DEF DeliveryTypeOK
  <2>. QED
    BY <2>1, <2>2 DEF AckOf, GotoTask, HandlerHasMessage, DeliveryTypeOK
<1>12. ASSUME NEW c \in Conns, FlushPending(c) PROVE HandlerHasMessage'
  BY <1>12 DEF FlushPending, HandlersUntouched, HandlerHasMessage
<1>13. ASSUME NEW c \in Conns, ClientRead(c) PROVE HandlerHasMessage'
  BY <1>13 DEF ClientRead, ReadAndAck, HandlersUntouched, HandlerHasMessage
<1>14. ASSUME NEW c \in Conns, LoginBinds(c) PROVE HandlerHasMessage'
  BY <1>14 DEF LoginBinds, SessionOnly, HandlersUntouched, HandlerHasMessage
<1>15. ASSUME NEW c \in Conns, ChannelStep(c) PROVE HandlerHasMessage'
  BY <1>15 DEF ChannelStep, HandlersUntouched, HandlerHasMessage
<1>16. ASSUME NEW c \in Conns, LoginGoesOnline(c) PROVE HandlerHasMessage'
  BY <1>16 DEF LoginGoesOnline, GotoTask, HandlerHasMessage
<1>17. ASSUME NEW c \in Conns, LoginReplies(c) PROVE HandlerHasMessage'
  BY <1>17 DEF LoginReplies, GotoTask, HandlerHasMessage
<1>18. ASSUME NEW c \in Conns, LogoutErases(c) PROVE HandlerHasMessage'
  BY <1>18 DEF LogoutErases, SessionOnly, HandlersUntouched, HandlerHasMessage
<1>19. ASSUME NEW c \in Conns, ConnectionCloses(c) PROVE HandlerHasMessage'
  BY <1>19 DEF ConnectionCloses, HandlersUntouched, HandlerHasMessage
<1>20. ASSUME NEW c \in Conns, ClientGoes(c) PROVE HandlerHasMessage'
  BY <1>20 DEF ClientGoes, HandlersUntouched, HandlerHasMessage
<1>21. ASSUME NEW c \in Conns, LogoutChecks(c) PROVE HandlerHasMessage'
  BY <1>21 DEF LogoutChecks, SessionOnly, HandlersUntouched, HandlerHasMessage
<1>22. ASSUME NEW c \in Conns, SessionOnly(Offline(c))
      PROVE HandlerHasMessage'
  BY <1>22 DEF SessionOnly, HandlersUntouched, HandlerHasMessage
<1>23. ASSUME NEW c \in Conns, SessionOnly(Connect(c))
      PROVE HandlerHasMessage'
  BY <1>23 DEF SessionOnly, HandlersUntouched, HandlerHasMessage
<1>24. ASSUME NEW c \in Conns, NEW u \in Users, LoginAccepted(c, u)
      PROVE HandlerHasMessage'
  BY <1>24
     DEF LoginAccepted, SessionOnly, HandlersUntouched, HandlerHasMessage
<1>25. ASSUME NEW c \in Conns, NEW S \in SUBSET Users, StartChat(c, S)
      PROVE HandlerHasMessage'
  BY <1>25 DEF StartChat, GotoTask, HandlerHasMessage
<1>26. ASSUME NEW n \in Nodes, ObserverDeliver(n) PROVE HandlerHasMessage'
  BY <1>26 DEF ObserverDeliver, HandlerHasMessage
<1>27. ASSUME NEW n \in Nodes, ObserverMark(n) PROVE HandlerHasMessage'
  BY <1>27 DEF ObserverMark, HandlerHasMessage
<1>28. ASSUME NEW n \in Nodes, NodeStops(n) PROVE HandlerHasMessage'
  BY <1>28 DEF NodeStops, HandlerHasMessage
<1>29. ASSUME NEW n \in Nodes, RedisBreaks(n) PROVE HandlerHasMessage'
  BY <1>29 DEF RedisBreaks, HandlersUntouched, HandlerHasMessage
<1>30. ASSUME NEW n \in Nodes, NEW u \in Users, RedisApply(n, u)
      PROVE HandlerHasMessage'
  BY <1>30 DEF RedisApply, HandlerHasMessage
<1>31. ASSUME NEW n \in Nodes, SessionOnly(Interrupt(n))
      PROVE HandlerHasMessage'
  BY <1>31 DEF SessionOnly, HandlersUntouched, HandlerHasMessage
<1>32. ASSUME NEW n \in Nodes, SessionOnly(Restart(n))
      PROVE HandlerHasMessage'
  BY <1>32 DEF SessionOnly, HandlersUntouched, HandlerHasMessage
<1>33. CASE UNCHANGED allVars
  BY <1>33 DEF allVars, deliveryVars, HandlerHasMessage
<1>. QED
  BY <1>1, <1>2, <1>3, <1>4, <1>5, <1>6, <1>7, <1>8, <1>9, <1>10, <1>11,
     <1>12, <1>13, <1>14, <1>15, <1>16, <1>17, <1>18, <1>19, <1>20, <1>21,
     <1>22, <1>23, <1>24, <1>25, <1>26, <1>27, <1>28, <1>29, <1>30, <1>31,
     <1>32, <1>33, ChatReceivers
     DEF DeliveryNext, ConnProgress, Request, NodeProgress, NodeEvent,
         ChatStep, SyncStep, SessionStep, OneChat, GroupChat

\* Every step leaves chat_message alone or is one of its three statements.
LEMMA RowsMove ==
    ASSUME DeliveryTypeOK, [DeliveryNext]_allVars
    PROVE  RowStep
<1>1. ASSUME NEW c \in Conns, InsertMessage(c) PROVE RowStep
  <2>1. todo[c] \subseteq Users /\ DOMAIN task = Conns /\ DOMAIN cur = Conns
    BY DEF DeliveryTypeOK
  <2>2. CASE UNCHANGED <<status, receiver>>
    BY <2>2 DEF RowStep, RowUntouched
  <2>3. ASSUME NEW v \in todo[c], NEW m \in Msgs, FreshId(m),
               status' = [status EXCEPT ![m] = CREATED],
               receiver' = [receiver EXCEPT ![m] = v],
               cur' = [cur EXCEPT ![c] = m], GotoTask(c, "lookup")
        PROVE  RowStep
    <3>1. task'[c] = "lookup" /\ cur'[c] = m
      BY <2>1, <2>3 DEF GotoTask
    <3>. QED
      BY <2>1, <2>3, <3>1 DEF RowStep, RowCreated
  <2>. QED
    BY <1>1, <2>2, <2>3 DEF InsertMessage
<1>2. ASSUME NEW c \in Conns, LookupLocal(c) PROVE RowStep
  BY <1>2 DEF LookupLocal, RowStep, RowUntouched
<1>3. ASSUME NEW c \in Conns, MarkLocal(c) PROVE RowStep
  BY <1>3 DEF MarkLocal, RowStep, RowMarked
<1>4. ASSUME NEW c \in Conns, QueryState(c) PROVE RowStep
  BY <1>4 DEF QueryState, RowStep, RowUntouched
<1>5. ASSUME NEW c \in Conns, Publish(c) PROVE RowStep
  BY <1>5 DEF Publish, RowStep, RowUntouched
<1>6. ASSUME NEW c \in Conns, AckUpdate(c) PROVE RowStep
  BY <1>6 DEF AckUpdate, RowStep, RowAcked, TaskAt
<1>7. ASSUME NEW c \in Conns, LoginSync(c) PROVE RowStep
  BY <1>7 DEF LoginSync, RowStep, RowUntouched
<1>8. ASSUME NEW c \in Conns, LoginMark(c) PROVE RowStep
  BY <1>8 DEF LoginMark, RowStep, RowMarked
<1>9. ASSUME NEW c \in Conns, LegacyQuery(c) PROVE RowStep
  BY <1>9 DEF LegacyQuery, RowStep, RowUntouched
<1>10. ASSUME NEW c \in Conns, LegacyRemove(c) PROVE RowStep
  BY <1>10 DEF LegacyRemove, RowStep, RowUntouched
<1>11. ASSUME NEW c \in Conns, AckCheck(c) PROVE RowStep
  BY <1>11 DEF AckCheck, RowStep, RowUntouched
<1>12. ASSUME NEW c \in Conns, FlushPending(c) PROVE RowStep
  BY <1>12 DEF FlushPending, MessagesUntouched, RowStep, RowUntouched
<1>13. ASSUME NEW c \in Conns, ClientRead(c) PROVE RowStep
  BY <1>13 DEF ClientRead, ReadAndAck, RowStep, RowUntouched
<1>14. ASSUME NEW c \in Conns, LoginBinds(c) PROVE RowStep
  BY <1>14
     DEF LoginBinds, SessionOnly, MessagesUntouched, RowStep, RowUntouched
<1>15. ASSUME NEW c \in Conns, ChannelStep(c) PROVE RowStep
  BY <1>15 DEF ChannelStep, MessagesUntouched, RowStep, RowUntouched
<1>16. ASSUME NEW c \in Conns, LoginGoesOnline(c) PROVE RowStep
  BY <1>16 DEF LoginGoesOnline, MessagesUntouched, RowStep, RowUntouched
<1>17. ASSUME NEW c \in Conns, LoginReplies(c) PROVE RowStep
  BY <1>17 DEF LoginReplies, MessagesUntouched, RowStep, RowUntouched
<1>18. ASSUME NEW c \in Conns, LogoutErases(c) PROVE RowStep
  BY <1>18
     DEF LogoutErases, SessionOnly, MessagesUntouched, RowStep, RowUntouched
<1>19. ASSUME NEW c \in Conns, ConnectionCloses(c) PROVE RowStep
  BY <1>19 DEF ConnectionCloses, MessagesUntouched, RowStep, RowUntouched
<1>20. ASSUME NEW c \in Conns, ClientGoes(c) PROVE RowStep
  BY <1>20 DEF ClientGoes, MessagesUntouched, RowStep, RowUntouched
<1>21. ASSUME NEW c \in Conns, LogoutChecks(c) PROVE RowStep
  BY <1>21
     DEF LogoutChecks, SessionOnly, MessagesUntouched, RowStep, RowUntouched
<1>22. ASSUME NEW c \in Conns, SessionOnly(Offline(c)) PROVE RowStep
  BY <1>22 DEF SessionOnly, MessagesUntouched, RowStep, RowUntouched
<1>23. ASSUME NEW c \in Conns, SessionOnly(Connect(c)) PROVE RowStep
  BY <1>23 DEF SessionOnly, MessagesUntouched, RowStep, RowUntouched
<1>24. ASSUME NEW c \in Conns, NEW u \in Users, LoginAccepted(c, u)
      PROVE RowStep
  BY <1>24
     DEF LoginAccepted, SessionOnly, MessagesUntouched, RowStep, RowUntouched
<1>25. ASSUME NEW c \in Conns, NEW S \in SUBSET Users, StartChat(c, S)
      PROVE RowStep
  BY <1>25 DEF StartChat, RowStep, RowUntouched
<1>26. ASSUME NEW n \in Nodes, ObserverDeliver(n) PROVE RowStep
  BY <1>26 DEF ObserverDeliver, RowStep, RowUntouched
<1>27. ASSUME NEW n \in Nodes, ObserverMark(n) PROVE RowStep
  BY <1>27 DEF ObserverMark, RowStep, RowMarked
<1>28. ASSUME NEW n \in Nodes, NodeStops(n) PROVE RowStep
  BY <1>28 DEF NodeStops, MessagesUntouched, RowStep, RowUntouched
<1>29. ASSUME NEW n \in Nodes, RedisBreaks(n) PROVE RowStep
  BY <1>29 DEF RedisBreaks, MessagesUntouched, RowStep, RowUntouched
<1>30. ASSUME NEW n \in Nodes, NEW u \in Users, RedisApply(n, u)
      PROVE RowStep
  BY <1>30 DEF RedisApply, RowStep, RowUntouched
<1>31. ASSUME NEW n \in Nodes, SessionOnly(Interrupt(n)) PROVE RowStep
  BY <1>31 DEF SessionOnly, MessagesUntouched, RowStep, RowUntouched
<1>32. ASSUME NEW n \in Nodes, SessionOnly(Restart(n)) PROVE RowStep
  BY <1>32 DEF SessionOnly, MessagesUntouched, RowStep, RowUntouched
<1>33. CASE UNCHANGED allVars
  BY <1>33 DEF allVars, deliveryVars, RowStep, RowUntouched
<1>. QED
  BY <1>1, <1>2, <1>3, <1>4, <1>5, <1>6, <1>7, <1>8, <1>9, <1>10, <1>11,
     <1>12, <1>13, <1>14, <1>15, <1>16, <1>17, <1>18, <1>19, <1>20, <1>21,
     <1>22, <1>23, <1>24, <1>25, <1>26, <1>27, <1>28, <1>29, <1>30, <1>31,
     <1>32, <1>33, ChatReceivers
     DEF DeliveryNext, ConnProgress, Request, NodeProgress, NodeEvent,
         ChatStep, SyncStep, SessionStep, OneChat, GroupChat

\* What a client has displayed cannot be taken back.
LEMMA ShownGrows ==
    ASSUME [DeliveryNext]_allVars
    PROVE  shown \subseteq shown'
<1>1. ASSUME NEW c \in Conns, InsertMessage(c) PROVE shown \subseteq shown'
  BY <1>1 DEF InsertMessage
<1>2. ASSUME NEW c \in Conns, LookupLocal(c) PROVE shown \subseteq shown'
  BY <1>2 DEF LookupLocal
<1>3. ASSUME NEW c \in Conns, MarkLocal(c) PROVE shown \subseteq shown'
  BY <1>3 DEF MarkLocal
<1>4. ASSUME NEW c \in Conns, QueryState(c) PROVE shown \subseteq shown'
  BY <1>4 DEF QueryState
<1>5. ASSUME NEW c \in Conns, Publish(c) PROVE shown \subseteq shown'
  BY <1>5 DEF Publish
<1>6. ASSUME NEW c \in Conns, AckUpdate(c) PROVE shown \subseteq shown'
  BY <1>6 DEF AckUpdate
<1>7. ASSUME NEW c \in Conns, LoginSync(c) PROVE shown \subseteq shown'
  BY <1>7 DEF LoginSync
<1>8. ASSUME NEW c \in Conns, LoginMark(c) PROVE shown \subseteq shown'
  BY <1>8 DEF LoginMark
<1>9. ASSUME NEW c \in Conns, LegacyQuery(c) PROVE shown \subseteq shown'
  BY <1>9 DEF LegacyQuery
<1>10. ASSUME NEW c \in Conns, LegacyRemove(c) PROVE shown \subseteq shown'
  BY <1>10 DEF LegacyRemove
<1>11. ASSUME NEW c \in Conns, AckCheck(c) PROVE shown \subseteq shown'
  BY <1>11 DEF AckCheck
<1>12. ASSUME NEW c \in Conns, FlushPending(c) PROVE shown \subseteq shown'
  BY <1>12 DEF FlushPending, MessagesUntouched
<1>13. ASSUME NEW c \in Conns, ClientRead(c) PROVE shown \subseteq shown'
  BY <1>13 DEF ClientRead, ReadAndAck
<1>14. ASSUME NEW c \in Conns, LoginBinds(c) PROVE shown \subseteq shown'
  BY <1>14 DEF LoginBinds, SessionOnly, MessagesUntouched
<1>15. ASSUME NEW c \in Conns, ChannelStep(c) PROVE shown \subseteq shown'
  BY <1>15 DEF ChannelStep, MessagesUntouched
<1>16. ASSUME NEW c \in Conns, LoginGoesOnline(c)
      PROVE shown \subseteq shown'
  BY <1>16 DEF LoginGoesOnline, MessagesUntouched
<1>17. ASSUME NEW c \in Conns, LoginReplies(c) PROVE shown \subseteq shown'
  BY <1>17 DEF LoginReplies, MessagesUntouched
<1>18. ASSUME NEW c \in Conns, LogoutErases(c) PROVE shown \subseteq shown'
  BY <1>18 DEF LogoutErases, SessionOnly, MessagesUntouched
<1>19. ASSUME NEW c \in Conns, ConnectionCloses(c)
      PROVE shown \subseteq shown'
  BY <1>19 DEF ConnectionCloses, MessagesUntouched
<1>20. ASSUME NEW c \in Conns, ClientGoes(c) PROVE shown \subseteq shown'
  BY <1>20 DEF ClientGoes, MessagesUntouched
<1>21. ASSUME NEW c \in Conns, LogoutChecks(c) PROVE shown \subseteq shown'
  BY <1>21 DEF LogoutChecks, SessionOnly, MessagesUntouched
<1>22. ASSUME NEW c \in Conns, SessionOnly(Offline(c))
      PROVE shown \subseteq shown'
  BY <1>22 DEF SessionOnly, MessagesUntouched
<1>23. ASSUME NEW c \in Conns, SessionOnly(Connect(c))
      PROVE shown \subseteq shown'
  BY <1>23 DEF SessionOnly, MessagesUntouched
<1>24. ASSUME NEW c \in Conns, NEW u \in Users, LoginAccepted(c, u)
      PROVE shown \subseteq shown'
  BY <1>24 DEF LoginAccepted, SessionOnly, MessagesUntouched
<1>25. ASSUME NEW c \in Conns, NEW S \in SUBSET Users, StartChat(c, S)
      PROVE shown \subseteq shown'
  BY <1>25 DEF StartChat
<1>26. ASSUME NEW n \in Nodes, ObserverDeliver(n)
      PROVE shown \subseteq shown'
  BY <1>26 DEF ObserverDeliver
<1>27. ASSUME NEW n \in Nodes, ObserverMark(n) PROVE shown \subseteq shown'
  BY <1>27 DEF ObserverMark
<1>28. ASSUME NEW n \in Nodes, NodeStops(n) PROVE shown \subseteq shown'
  BY <1>28 DEF NodeStops, MessagesUntouched
<1>29. ASSUME NEW n \in Nodes, RedisBreaks(n) PROVE shown \subseteq shown'
  BY <1>29 DEF RedisBreaks, MessagesUntouched
<1>30. ASSUME NEW n \in Nodes, NEW u \in Users, RedisApply(n, u)
      PROVE shown \subseteq shown'
  BY <1>30 DEF RedisApply
<1>31. ASSUME NEW n \in Nodes, SessionOnly(Interrupt(n))
      PROVE shown \subseteq shown'
  BY <1>31 DEF SessionOnly, MessagesUntouched
<1>32. ASSUME NEW n \in Nodes, SessionOnly(Restart(n))
      PROVE shown \subseteq shown'
  BY <1>32 DEF SessionOnly, MessagesUntouched
<1>33. CASE UNCHANGED allVars
  BY <1>33 DEF allVars, deliveryVars
<1>. QED
  BY <1>1, <1>2, <1>3, <1>4, <1>5, <1>6, <1>7, <1>8, <1>9, <1>10, <1>11,
     <1>12, <1>13, <1>14, <1>15, <1>16, <1>17, <1>18, <1>19, <1>20, <1>21,
     <1>22, <1>23, <1>24, <1>25, <1>26, <1>27, <1>28, <1>29, <1>30, <1>31,
     <1>32, <1>33, ChatReceivers
     DEF DeliveryNext, ConnProgress, Request, NodeProgress, NodeEvent,
         ChatStep, SyncStep, SessionStep, OneChat, GroupChat

\* An ACK is sent after the display and handled in the name it was sent in.
LEMMA AcksStep ==
    ASSUME DeliveryTypeOK, AcksWereShown, [DeliveryNext]_allVars
    PROVE  AcksWereShown'
<1>1. ASSUME NEW c \in Conns, InsertMessage(c) PROVE AcksWereShown'
  BY <1>1
     DEF InsertMessage, NextReceiver, GotoTask, AcksWereShown, DeliveryTypeOK
<1>2. ASSUME NEW c \in Conns, LookupLocal(c) PROVE AcksWereShown'
  BY <1>2 DEF LookupLocal, GotoTask, AcksWereShown, DeliveryTypeOK
<1>3. ASSUME NEW c \in Conns, MarkLocal(c) PROVE AcksWereShown'
  BY <1>3 DEF MarkLocal, NextReceiver, GotoTask, AcksWereShown, DeliveryTypeOK
<1>4. ASSUME NEW c \in Conns, QueryState(c) PROVE AcksWereShown'
  BY <1>4
     DEF QueryState, NextReceiver, GotoTask, AcksWereShown, DeliveryTypeOK
<1>5. ASSUME NEW c \in Conns, Publish(c) PROVE AcksWereShown'
  BY <1>5 DEF Publish, NextReceiver, GotoTask, AcksWereShown, DeliveryTypeOK
<1>6. ASSUME NEW c \in Conns, AckUpdate(c) PROVE AcksWereShown'
  BY <1>6 DEF AckUpdate, NextReceiver, GotoTask, AcksWereShown, DeliveryTypeOK
<1>7. ASSUME NEW c \in Conns, LoginSync(c) PROVE AcksWereShown'
  BY <1>7 DEF LoginSync, GotoTask, AcksWereShown
<1>8. ASSUME NEW c \in Conns, LoginMark(c) PROVE AcksWereShown'
  BY <1>8 DEF LoginMark, GotoTask, AcksWereShown
<1>9. ASSUME NEW c \in Conns, LegacyQuery(c) PROVE AcksWereShown'
  BY <1>9 DEF LegacyQuery, GotoTask, AcksWereShown, DeliveryTypeOK
<1>10. ASSUME NEW c \in Conns, LegacyRemove(c) PROVE AcksWereShown'
  BY <1>10 DEF LegacyRemove, GotoTask, AcksWereShown
<1>11. ASSUME NEW c \in Conns, AckCheck(c) PROVE AcksWereShown'
  <2>1. PICK a \in acks[c] :
           acks' = [acks EXCEPT ![c] = @ \ {a}] /\ AckOf(c, a)
    BY <1>11 DEF AckCheck
  <2>2. a = <<a[1], a[2]>> /\ a \in shown
    BY <2>1 DEF AcksWereShown, DeliveryTypeOK
  <2>3. UNCHANGED shown
    BY <1>11 DEF AckCheck
  <2>4. \A d \in Conns : acks'[d] \subseteq acks[d]
    BY <2>1 DEF DeliveryTypeOK
  <2>5. \A d \in Conns : task'[d] = "ack" =>
           \A u \in todo'[d] : <<u, cur'[d]>> \in shown
    <3>1. task \in [Conns -> Tasks] /\ todo \in [Conns -> SUBSET Users]
          /\ cur \in [Conns -> Msgs \cup {NoMsg}]
      BY DEF DeliveryTypeOK
    <3>2. CASE a[1] \in Users /\ Bound(c, a[1])
      BY <2>1, <2>2, <3>1, <3>2 DEF AckOf, GotoTask, AcksWereShown
    <3>3. CASE ~(a[1] \in Users /\ Bound(c, a[1]))
      BY <2>1, <3>3 DEF AckOf, AcksWereShown
    <3>. QED
      BY <3>2, <3>3
  <2>. QED
    BY <2>3, <2>4, <2>5 DEF AcksWereShown
<1>12. ASSUME NEW c \in Conns, FlushPending(c) PROVE AcksWereShown'
  BY <1>12
     DEF FlushPending, MessagesUntouched, HandlersUntouched, AcksWereShown
<1>13. ASSUME NEW c \in Conns, ClientRead(c) PROVE AcksWereShown'
  BY <1>13 DEF ClientRead, ReadAndAck, HandlersUntouched, AcksWereShown
<1>14. ASSUME NEW c \in Conns, LoginBinds(c) PROVE AcksWereShown'
  BY <1>14
     DEF LoginBinds, SessionOnly, MessagesUntouched, SocketsUntouched,
         HandlersUntouched, AcksWereShown
<1>15. ASSUME NEW c \in Conns, ChannelStep(c) PROVE AcksWereShown'
  BY <1>15
     DEF ChannelStep, MessagesUntouched, SocketsUntouched, HandlersUntouched,
         AcksWereShown
<1>16. ASSUME NEW c \in Conns, LoginGoesOnline(c) PROVE AcksWereShown'
  BY <1>16
     DEF LoginGoesOnline, GotoTask, MessagesUntouched, SocketsUntouched,
         AcksWereShown
<1>17. ASSUME NEW c \in Conns, LoginReplies(c) PROVE AcksWereShown'
  BY <1>17 DEF LoginReplies, GotoTask, MessagesUntouched, AcksWereShown
<1>18. ASSUME NEW c \in Conns, LogoutErases(c) PROVE AcksWereShown'
  BY <1>18
     DEF LogoutErases, SessionOnly, MessagesUntouched, SocketsUntouched,
         HandlersUntouched, AcksWereShown
<1>19. ASSUME NEW c \in Conns, ConnectionCloses(c) PROVE AcksWereShown'
  BY <1>19
     DEF ConnectionCloses, MessagesUntouched, HandlersUntouched, AcksWereShown
<1>20. ASSUME NEW c \in Conns, ClientGoes(c) PROVE AcksWereShown'
  BY <1>20 DEF ClientGoes, MessagesUntouched, HandlersUntouched, AcksWereShown
<1>21. ASSUME NEW c \in Conns, LogoutChecks(c) PROVE AcksWereShown'
  BY <1>21
     DEF LogoutChecks, SessionOnly, MessagesUntouched, SocketsUntouched,
         HandlersUntouched, AcksWereShown
<1>22. ASSUME NEW c \in Conns, SessionOnly(Offline(c)) PROVE AcksWereShown'
  BY <1>22
     DEF SessionOnly, MessagesUntouched, SocketsUntouched, HandlersUntouched,
         AcksWereShown
<1>23. ASSUME NEW c \in Conns, SessionOnly(Connect(c)) PROVE AcksWereShown'
  BY <1>23
     DEF SessionOnly, MessagesUntouched, SocketsUntouched, HandlersUntouched,
         AcksWereShown
<1>24. ASSUME NEW c \in Conns, NEW u \in Users, LoginAccepted(c, u)
      PROVE AcksWereShown'
  BY <1>24
     DEF LoginAccepted, SessionOnly, MessagesUntouched, SocketsUntouched,
         HandlersUntouched, AcksWereShown
<1>25. ASSUME NEW c \in Conns, NEW S \in SUBSET Users, StartChat(c, S)
      PROVE AcksWereShown'
  BY <1>25 DEF StartChat, GotoTask, AcksWereShown, DeliveryTypeOK
<1>26. ASSUME NEW n \in Nodes, ObserverDeliver(n) PROVE AcksWereShown'
  BY <1>26 DEF ObserverDeliver, AcksWereShown
<1>27. ASSUME NEW n \in Nodes, ObserverMark(n) PROVE AcksWereShown'
  BY <1>27 DEF ObserverMark, AcksWereShown
<1>28. ASSUME NEW n \in Nodes, NodeStops(n) PROVE AcksWereShown'
  BY <1>28 DEF NodeStops, MessagesUntouched, AcksWereShown
<1>29. ASSUME NEW n \in Nodes, RedisBreaks(n) PROVE AcksWereShown'
  BY <1>29
     DEF RedisBreaks, MessagesUntouched, SocketsUntouched, HandlersUntouched,
         AcksWereShown
<1>30. ASSUME NEW n \in Nodes, NEW u \in Users, RedisApply(n, u)
      PROVE AcksWereShown'
  BY <1>30 DEF RedisApply, AcksWereShown
<1>31. ASSUME NEW n \in Nodes, SessionOnly(Interrupt(n))
      PROVE AcksWereShown'
  BY <1>31
     DEF SessionOnly, MessagesUntouched, SocketsUntouched, HandlersUntouched,
         AcksWereShown
<1>32. ASSUME NEW n \in Nodes, SessionOnly(Restart(n)) PROVE AcksWereShown'
  BY <1>32
     DEF SessionOnly, MessagesUntouched, SocketsUntouched, HandlersUntouched,
         AcksWereShown
<1>33. CASE UNCHANGED allVars
  BY <1>33 DEF allVars, deliveryVars, AcksWereShown
<1>. QED
  BY <1>1, <1>2, <1>3, <1>4, <1>5, <1>6, <1>7, <1>8, <1>9, <1>10, <1>11,
     <1>12, <1>13, <1>14, <1>15, <1>16, <1>17, <1>18, <1>19, <1>20, <1>21,
     <1>22, <1>23, <1>24, <1>25, <1>26, <1>27, <1>28, <1>29, <1>30, <1>31,
     <1>32, <1>33, ChatReceivers
     DEF DeliveryNext, ConnProgress, Request, NodeProgress, NodeEvent,
         ChatStep, SyncStep, SessionStep, OneChat, GroupChat

\* Only the ACK statement acks a row, and it names a receiver who was shown it.
LEMMA AckedStep ==
    ASSUME DeliveryTypeOK, AckedWasShown, AcksWereShown, RowStep,
           shown \subseteq shown'
    PROVE  AckedWasShown'
<1>1. CASE RowUntouched
  BY <1>1 DEF RowUntouched, AckedWasShown
<1>2. CASE RowCreated
  BY <1>2 DEF RowCreated, AckedWasShown, DeliveryTypeOK, CREATED, ACKED
<1>3. CASE RowMarked
  BY <1>3
     DEF RowMarked, MarkDelivered, AckedWasShown, DeliveryTypeOK, DELIVERED,
         ACKED
<1>4. CASE RowAcked
  BY <1>4 DEF RowAcked, SetAcked, AckedWasShown, AcksWereShown, DeliveryTypeOK
<1>. QED
  BY <1>1, <1>2, <1>3, <1>4 DEF RowStep

\* No statement lowers the status of a row.
LEMMA StatusStep ==
    ASSUME DeliveryTypeOK, RowStep
    PROVE  \A m \in Msgs : status'[m] >= status[m]
<1>1. /\ status \in [Msgs -> {Absent, CREATED, DELIVERED, ACKED}]
      /\ \A x \in {Absent, CREATED, DELIVERED, ACKED} :
            x >= x /\ x >= Absent /\ ACKED >= x
      /\ DELIVERED >= CREATED /\ CREATED >= Absent
  BY DEF DeliveryTypeOK, Absent, CREATED, DELIVERED, ACKED
<1>2. CASE RowUntouched
  BY <1>1, <1>2 DEF RowUntouched
<1>3. CASE RowCreated
  BY <1>1, <1>3 DEF RowCreated, FreshId
<1>4. CASE RowMarked
  BY <1>1, <1>4 DEF RowMarked, MarkDelivered
<1>5. CASE RowAcked
  BY <1>1, <1>5 DEF RowAcked, SetAcked
<1>. QED
  BY <1>2, <1>3, <1>4, <1>5 DEF RowStep

-----------------------------------------------------------------------------
\* The handlers of Delivery are those of Session: what was proved of sessions
\* holds while messages are exchanged.
THEOREM DeliveryRefinesSession == DeliverySpec => SessionSpec
<1>1. DeliveryInit => SessionInit
  BY DEF DeliveryInit
<1>. QED
  BY <1>1, SessionSimulation, PTL DEF DeliverySpec, SessionSpec

\* The tables, the queues and the handlers keep their types, an ACK on its way
\* is about a message its account was shown, and so is an acked row.
THEOREM AckInvariant == DeliverySpec => [](AckInv /\ HandlerHasMessage)
<1>1. DeliveryInit /\ SessionTypeOK => AckInv /\ HandlerHasMessage
  <2>1. DeliveryInit /\ SessionTypeOK => DeliveryTypeOK
    BY DEF DeliveryInit, DeliveryTypeOK, Tasks
  <2>2. DeliveryInit => AckedWasShown /\ AcksWereShown /\ HandlerHasMessage
    BY DEF DeliveryInit, AckedWasShown, AcksWereShown, HandlerHasMessage,
           Absent, ACKED
  <2>. QED
    BY <2>1, <2>2 DEF AckInv
<1>2. AckInv /\ HandlerHasMessage /\ SessionTypeOK' /\ [DeliveryNext]_allVars
         => (AckInv /\ HandlerHasMessage)'
  BY DeliveryTypeStep, MessageStep, RowsMove, ShownGrows, AcksStep, AckedStep
     DEF AckInv
<1>. QED
  BY <1>1, <1>2, DeliveryRefinesSession, TypeCorrect, PTL DEF DeliverySpec

\* The tables, the sockets and the handlers keep their types.
THEOREM DeliveryTypeCorrect == DeliverySpec => []DeliveryTypeOK
<1>1. AckInv => DeliveryTypeOK
  BY DEF AckInv
<1>. QED
  BY <1>1, AckInvariant, PTL

\* Late, repeated and misdirected ACKs never ack a message its receiver has not
\* been shown, whatever fails.
THEOREM ShownBeforeAcked == DeliverySpec => []AckedWasShown
<1>1. AckInv => AckedWasShown
  BY DEF AckInv
<1>. QED
  BY <1>1, AckInvariant, PTL

\* markDelivered never takes an acked row back, whatever fails.
THEOREM NeverRegresses == DeliverySpec => StatusNeverRegresses
<1>1. DeliveryTypeOK /\ [DeliveryNext]_allVars
         => [\A m \in Msgs : status'[m] >= status[m]]_allVars
  BY RowsMove, StatusStep
<1>. QED
  BY <1>1, DeliveryTypeCorrect, PTL DEF DeliverySpec, StatusNeverRegresses
=============================================================================
