--------------------------- MODULE ForwardProofs ---------------------------
(***************************************************************************)
(* What module Forward promises for all clusters, accounts and widths of   *)
(* the message ids, and whatever the links of Redis do.                    *)
(***************************************************************************)
EXTENDS Forward, MessageIdProofs, FiniteSetTheorems

\* As far as ids are concerned, the handlers do what module MessageId says.
LEMMA IdSimulation == ForwardInit /\ [][ForwardNext]_forwardVars => IdSpec
<1>1. ForwardInit => IdInit
  BY DEF ForwardInit
<1>2. [ForwardNext]_forwardVars => [IdNext]_idVars
  BY DEF ForwardNext, Chat, Login, GenerateMessageId, Insert, LookupLocal,
         QueryState, Publish, PublishReturns, Subscribe, Online, QueryUnacked,
         MarkUnacked, Respond, HandleRedisSubscribeMessage, Redis,
         IdNext, forwardVars, idVars
<1>. QED
  BY <1>1, <1>2, PTL DEF IdSpec

\* The bits of an id are what keeps the messages of a cluster apart.
THEOREM ForwardCollisions == ForwardSpec => []CollisionNeedsWrap
BY IdSimulation, Collisions, PTL DEF ForwardSpec

LEMMA IdsAreSound == ForwardSpec => []IdInv
<1>1. IdInv /\ [IdNext]_idVars => IdInv'
  BY IdStep
<1>. QED
  BY <1>1, IdStart, IdSimulation, PTL DEF IdSpec, ForwardSpec

-----------------------------------------------------------------------------
(* The start of a process *)

\* Before the notify handler is set, no thread has begun a handler, so nothing
\* has been subscribed and no message is on its way; a process that gave up
\* connecting never looks connected.
StartInv ==
    \A n \in Nodes :
        /\ ~handlerSet[n] => pending[n] = <<>> /\ subs[n] = {} /\ inbox[n] = <<>>
        /\ connected[n] => ctor[n] \in {"observer", "handler", "done"}
        /\ connected[n] /\ ctor[n] = "done" => handlerSet[n]
        /\ \A t \in Threads : NodeOf[t] = n /\ ~At(t, "idle") => ctor[n] = "done"

\* The variables of RedisContext that StartInv is about have their types.
StartTypeOK ==
    /\ DOMAIN ctor = Nodes
    /\ connected \in [Nodes -> BOOLEAN] /\ handlerSet \in [Nodes -> BOOLEAN]
    /\ DOMAIN pending = Nodes /\ DOMAIN subs = Nodes /\ DOMAIN inbox = Nodes
    /\ DOMAIN at = Threads

\* A process that is told of a message has its handler.
LEMMA ForwardsToSubscribers ==
    ASSUME StartInv, StartTypeOK, NEW u, NEW msg, RedisForwards(u, msg)
    PROVE  /\ \A n \in Nodes : ~handlerSet[n] => inbox'[n] = <<>>
           /\ DOMAIN inbox' = Nodes
BY DEF RedisForwards, StartInv, StartTypeOK

LEMMA StartStep ==
    ASSUME StartInv, StartTypeOK, [ForwardNext]_forwardVars
    PROVE  StartInv' /\ StartTypeOK'
<1>. USE DEF StartTypeOK
<1>1. ASSUME NEW t \in Threads, NEW u \in Users, Chat(t, u) \/ Login(t, u)
      PROVE  StartInv' /\ StartTypeOK'
  BY <1>1 DEF Chat, Login, Begins, Constructed, At, StartInv, redisVars, channelVars
<1>2. ASSUME NEW t \in Threads,
             \/ GenerateMessageId(t) \/ Insert(t) \/ LookupLocal(t)
             \/ QueryState(t) \/ Online(t)
             \/ QueryUnacked(t) \/ MarkUnacked(t) \/ Respond(t)
      PROVE  StartInv' /\ StartTypeOK'
  BY <1>2
     DEF GenerateMessageId, Insert, LookupLocal, QueryState, Online, QueryUnacked,
         MarkUnacked, Respond, Goes, Ends, At, StartInv, redisVars, channelVars
<1>3. ASSUME NEW t \in Threads, Publish(t) PROVE StartInv' /\ StartTypeOK'
  <2>1. /\ at[t] = "publish" /\ DOMAIN at' = Threads
        /\ \A s \in Threads : s # t => at'[s] = at[s]
    BY <1>3 DEF Publish, At, Goes, Ends
  <2>2. CASE UNCHANGED redisVars
    BY <2>1, <2>2 DEF StartInv, redisVars, channelVars, At
  <2>3. CASE SendPublish(NodeOf[t], toid[t], cur[t], Busy(t))
    <3>1. \/ UNCHANGED inbox
          \/ \E u, msg : RedisForwards(u, msg)
      BY <2>3 DEF SendPublish, Executed, LinkLost, Race
    <3>2. /\ \A n \in Nodes : ~handlerSet[n] => inbox'[n] = <<>>
          /\ DOMAIN inbox' = Nodes
      BY <3>1, ForwardsToSubscribers DEF StartInv
    <3>. QED
      BY <2>1, <2>3, <3>2 DEF SendPublish, startVars, channelVars, StartInv, At
  <2>. QED
    BY <1>3, <2>2, <2>3 DEF Publish
<1>4. ASSUME NEW t \in Threads, PublishReturns(t) PROVE StartInv' /\ StartTypeOK'
  BY <1>4 DEF PublishReturns, TakeReply, Ends, At, StartInv, startVars,
                                          channelVars
<1>5. ASSUME NEW t \in Threads, Subscribe(t) PROVE StartInv' /\ StartTypeOK'
  <2>. DEFINE n == NodeOf[t]
  <2>1. n \in Nodes /\ at[t] = "subscribe"
    BY <1>5, EventLoopsAssumption DEF Subscribe, At
  <2>2. ctor[n] = "done"
    BY <2>1 DEF StartInv, At
  <2>3. /\ DOMAIN pending' = Nodes
        /\ \A k \in Nodes : pending'[k] # pending[k] => k = n /\ IsConnected(n)
    BY <1>5 DEF Subscribe, SendSubscribe
  <2>4. \A k \in Nodes : ~handlerSet[k] => pending'[k] = <<>>
    BY <2>1, <2>2, <2>3 DEF IsConnected, StartInv
  <2>. QED
    BY <1>5, <2>1, <2>3, <2>4
       DEF Subscribe, SendSubscribe, startVars, Goes, At, StartInv
<1>6. ASSUME NEW n \in Nodes, HandleRedisSubscribeMessage(n)
      PROVE  StartInv' /\ StartTypeOK'
  BY <1>6
     DEF HandleRedisSubscribeMessage, NextFrame, startVars, channelVars, handlerVars,
         At, StartInv
<1>7. ASSUME NEW n \in Nodes, Redis(n) PROVE StartInv' /\ StartTypeOK'
  <2>1. at' = at
    BY <1>7 DEF Redis, handlerVars
  <2>2. CASE ConnectPublish(n) \/ ConnectSubscribe(n)
    BY <2>1, <2>2 DEF ConnectPublish, ConnectSubscribe, CtorGoes, channelVars, At,
                      StartInv
  <2>3. CASE SetConnected(n) \/ StartObserver(n)
    BY ZenonT(60), <2>1, <2>3 DEF SetConnected, StartObserver, CtorGoes,
                                  channelVars, At, StartInv
  <2>4. CASE InitNotifyHandler(n)
    BY <2>1, <2>4 DEF InitNotifyHandler, CtorGoes, channelVars, At, StartInv
  <2>5. CASE ObserverFails(n) \/ ObserverQuits(n)
    BY <2>1, <2>5 DEF ObserverFails, ObserverQuits, startVars, channelVars, At, StartInv
  <2>6. CASE ExecuteSubscribe(n) \/ LoseSubscriber(n)
    <3>1. /\ DOMAIN pending' = Nodes /\ DOMAIN subs' = Nodes
          /\ \A k \in Nodes : pending[k] = <<>> => pending'[k] = <<>>
          /\ \A k \in Nodes : pending[k] = <<>> /\ subs[k] = {} => subs'[k] = {}
      BY <2>6 DEF ExecuteSubscribe, LoseSubscriber
    <3>. QED
      BY <2>1, <2>6, <3>1 DEF ExecuteSubscribe, LoseSubscriber, startVars, At, StartInv
  <2>. QED
    BY <1>7, <2>2, <2>3, <2>4, <2>5, <2>6 DEF Redis, RedisStep
<1>8. CASE UNCHANGED forwardVars
  BY <1>8 DEF forwardVars, redisVars, channelVars, handlerVars, At, StartInv
<1>. QED
  BY <1>1, <1>2, <1>3, <1>4, <1>5, <1>6, <1>7, <1>8 DEF ForwardNext

\* Whatever the threads and links do, the observer thread never meets a message
\* before its handler is set.
THEOREM HandlerFirst == ForwardSpec => []HandlerIsSet
<1>1. ForwardInit => StartInv /\ StartTypeOK
  BY DEF ForwardInit, RedisInit, StartInv, StartTypeOK, At
<1>2. StartInv /\ StartTypeOK /\ [ForwardNext]_forwardVars
        => StartInv' /\ StartTypeOK'
  BY StartStep
<1>3. StartInv => HandlerIsSet
  BY DEF StartInv, HandlerIsSet
<1>. QED
  BY <1>1, <1>2, <1>3, PTL DEF ForwardSpec

-----------------------------------------------------------------------------
(* Types *)

Types == ForwardTypeOK /\ DOMAIN cur = Threads

\* The messages that have an id are among those that are allowed for.
LEMMA CallsAreMessages ==
    ASSUME IdTypeOK, ChatsAreBounded
    PROVE  DOMAIN calls \subseteq Messages
<1>1. IsFiniteSet(Pending)
  BY FS_Subset, ForwardAssumption DEF Pending
<1>2. Cardinality(Pending) \in Nat /\ Len(calls) \in Nat
  BY <1>1, FS_CardinalityType DEF IdTypeOK
<1>3. Len(calls) <= MaxMsgs
  BY <1>2, ForwardAssumption DEF ChatsAreBounded
<1>. QED
  BY <1>2, <1>3, ForwardAssumption DEF IdTypeOK

LEMMA ForwardIdStep ==
    ASSUME [ForwardNext]_forwardVars
    PROVE  [IdNext]_idVars
BY DEF ForwardNext, Chat, Login, GenerateMessageId, Insert, LookupLocal, QueryState,
       Publish, PublishReturns, Subscribe, Online, QueryUnacked, MarkUnacked,
       Respond, HandleRedisSubscribeMessage, Redis, IdNext,
       forwardVars, idVars

\* A chat takes a place among the bounded number when it begins.
LEMMA BoundStep ==
    ASSUME IdTypeOK, ChatsAreBounded, [ForwardNext]_forwardVars
    PROVE  ChatsAreBounded'
<1>1. IsFiniteSet(Pending)
  BY FS_Subset, ForwardAssumption DEF Pending
<1>2. Cardinality(Pending) \in Nat /\ Len(calls) \in Nat
  BY <1>1, FS_CardinalityType DEF IdTypeOK
<1>3. ASSUME NEW t \in Threads, NEW u \in Users, Chat(t, u) PROVE ChatsAreBounded'
  <2>1. /\ Len(calls) + Cardinality(Pending) < MaxMsgs
        /\ now[t] = None /\ calls' = calls
        /\ now' = [now EXCEPT ![t] = now'[t]] /\ now'[t] \in Clock
    BY <1>3 DEF Chat, ReadClock, IdTypeOK
  <2>2. Pending' = Pending \cup {t} /\ t \notin Pending
    BY <2>1, MessageIdAssumption DEF Pending, IdTypeOK
  <2>3. Cardinality(Pending') = Cardinality(Pending) + 1
    BY <1>1, <2>2, FS_AddElement
  <2>. QED
    BY <1>2, <2>1, <2>3, ForwardAssumption DEF ChatsAreBounded
<1>4. ASSUME NEW t \in Threads, GenerateMessageId(t) PROVE ChatsAreBounded'
  <2>1. /\ now[t] # None /\ now' = [now EXCEPT ![t] = None]
        /\ Len(calls') = Len(calls) + 1
    BY <1>4 DEF GenerateMessageId, TakeSeq, IdTypeOK
  <2>2. Pending' = Pending \ {t} /\ t \in Pending
    BY <2>1 DEF Pending, IdTypeOK
  <2>3. Cardinality(Pending') = Cardinality(Pending) - 1
    BY <1>1, <2>2, FS_RemoveElement
  <2>. QED
    BY <1>2, <2>1, <2>3, ForwardAssumption DEF ChatsAreBounded
<1>5. CASE UNCHANGED idVars
  BY <1>5 DEF idVars, ChatsAreBounded, Pending
<1>. QED
  BY <1>3, <1>4, <1>5
     DEF ForwardNext, Login, Insert, LookupLocal, QueryState, Publish,
         PublishReturns, Subscribe, Online, QueryUnacked, MarkUnacked, Respond,
         HandleRedisSubscribeMessage, Redis, forwardVars

\* The places of the handlers, their accounts and messages.
LEMMA HandlersStep ==
    ASSUME IdTypeOK, HandlerTypeOK, DOMAIN cur = Threads,
           [ForwardNext]_forwardVars
    PROVE  HandlerTypeOK' /\ DOMAIN cur' = Threads
<1>. USE DEF HandlerTypeOK, At, ChatSteps, SendSteps
<1>1. ASSUME NEW t \in Threads, NEW u \in Users, Chat(t, u)
      PROVE  HandlerTypeOK' /\ DOMAIN cur' = Threads
  BY SMTT(60), <1>1, MessageIdAssumption, ForwardAssumption
  DEF Chat, Begins, ReadClock, IdTypeOK
<1>2. ASSUME NEW t \in Threads, GenerateMessageId(t)
      PROVE  HandlerTypeOK' /\ DOMAIN cur' = Threads
  <2>1. /\ DOMAIN calls \subseteq DOMAIN calls' /\ Len(calls) + 1 \in DOMAIN calls'
        /\ now' = [now EXCEPT ![t] = None]
    BY <1>2 DEF GenerateMessageId, TakeSeq, IdTypeOK
  <2>. QED
    BY <1>2, <2>1 DEF GenerateMessageId, IdTypeOK
<1>3. ASSUME NEW t \in Threads, Ends(t), UNCHANGED idVars, ~At(t, "id")
      PROVE  HandlerTypeOK' /\ DOMAIN cur' = Threads
  BY <1>3 DEF Ends, idVars
<1>4. ASSUME NEW t \in Threads, NEW step \in ChatSteps, Goes(t, step),
             at[t] \in ChatSteps, UNCHANGED idVars
      PROVE  HandlerTypeOK' /\ DOMAIN cur' = Threads
  BY <1>4 DEF Goes, idVars
<1>5. ASSUME NEW t \in Threads, NEW u \in Users, Login(t, u)
      PROVE  HandlerTypeOK' /\ DOMAIN cur' = Threads
  BY <1>5, ForwardAssumption DEF Login, Begins, idVars
<1>6. ASSUME NEW t \in Threads, Subscribe(t) \/ Online(t) \/ QueryUnacked(t)
      PROVE  HandlerTypeOK' /\ DOMAIN cur' = Threads
  BY <1>6 DEF Subscribe, Online, QueryUnacked, Goes, idVars
<1>7. CASE UNCHANGED <<idVars, at, toid, cur>>
  BY <1>7 DEF idVars
<1>. QED
  BY <1>1, <1>2, <1>3, <1>4, <1>5, <1>6, <1>7
     DEF ForwardNext, Insert, LookupLocal, QueryState, Publish, PublishReturns,
         MarkUnacked, Respond, HandleRedisSubscribeMessage, Redis,
         handlerVars, forwardVars

\* What goes into the inboxes is what has been published.
LEMMA ForwardsTypes ==
    ASSUME RedisTypeOK, NEW u \in Users, NEW m \in Messages \cup {Torn},
           RedisForwards(u, m)
    PROVE  inbox' \in [Nodes -> Seq([to : Users, msg : Messages \cup {Torn}])]
<1>. DEFINE Frames == [to : Users, msg : Messages \cup {Torn}]
<1>1. inbox \in [Nodes -> Seq(Frames)] /\ [to |-> u, msg |-> m] \in Frames
  BY DEF RedisTypeOK
<1>. HIDE DEF Frames
<1>2. \A k \in Nodes : Append(inbox[k], [to |-> u, msg |-> m]) \in Seq(Frames)
  BY <1>1
<1>3. inbox' \in [Nodes -> Seq(Frames)]
  BY <1>1, <1>2 DEF RedisForwards
<1>. QED
  BY <1>3 DEF Frames

LEMMA RedisStepTypes ==
    ASSUME RedisTypeOK, HandlerTypeOK, DOMAIN calls \subseteq Messages,
           [ForwardNext]_forwardVars
    PROVE  RedisTypeOK'
<1>1. ASSUME NEW t \in Threads, Publish(t) PROVE RedisTypeOK'
  <2>. DEFINE n == NodeOf[t]
  <2>1. n \in Nodes /\ toid[t] \in Users /\ cur[t] \in Messages
    BY <1>1, EventLoopsAssumption, ForwardAssumption
       DEF Publish, HandlerTypeOK, ChatSteps, SendSteps, At
  <2>2. CASE UNCHANGED redisVars
    BY <2>2 DEF redisVars, channelVars, RedisTypeOK
  <2>3. CASE SendPublish(n, toid[t], cur[t], Busy(t))
    <3>1. UNCHANGED <<startVars, subCtx, observer, channelVars>>
      BY <2>3 DEF SendPublish
    <3>2. \/ inbox' = inbox
          \/ RedisForwards(toid[t], cur[t])
          \/ \E v \in Users : RedisForwards(v, Torn)
      BY <2>3 DEF SendPublish, Executed, LinkLost, Race
    <3>3. inbox' \in [Nodes -> Seq([to : Users, msg : Messages \cup {Torn}])]
      BY <2>1, <3>2, ForwardsTypes DEF RedisTypeOK
    <3>4. replies' = replies \/ replies' = [replies EXCEPT ![n] = @ + 1]
      BY <2>3 DEF SendPublish, Executed, LinkLost, Race, Reply
    <3>5. /\ pubCtx' = pubCtx \/ pubCtx' = [pubCtx EXCEPT ![n] = "err"]
          /\ raced' = raced \/ raced' = TRUE
      BY <2>3 DEF SendPublish, Executed, LinkLost, Race
    <3>6. replies' \in [Nodes -> Nat]
      <4>1. replies \in [Nodes -> Nat] /\ replies[n] + 1 \in Nat
        BY <2>1 DEF RedisTypeOK
      <4>. QED
        BY <3>4, <4>1
    <3>7. pubCtx' \in [Nodes -> {"null", "ok", "err"}] /\ raced' \in BOOLEAN
      <4>1. pubCtx \in [Nodes -> {"null", "ok", "err"}] /\ raced \in BOOLEAN
        BY DEF RedisTypeOK
      <4>. QED
        BY <3>5, <4>1
    <3>. QED
      BY <3>1, <3>3, <3>6, <3>7 DEF startVars, channelVars, RedisTypeOK
  <2>. QED
    BY <1>1, <2>2, <2>3 DEF Publish
<1>2. ASSUME NEW t \in Threads, PublishReturns(t) PROVE RedisTypeOK'
  <2>1. \/ replies' = replies
        \/ replies[NodeOf[t]] > 0 /\ replies' = [replies EXCEPT ![NodeOf[t]] = @ - 1]
    BY <1>2 DEF PublishReturns, TakeReply
  <2>2. replies' \in [Nodes -> Nat]
    <3>1. replies \in [Nodes -> Nat] /\ NodeOf[t] \in Nodes
      BY EventLoopsAssumption DEF RedisTypeOK
    <3>. QED
      BY <2>1, <3>1
  <2>3. UNCHANGED <<startVars, pubCtx, subCtx, observer, channelVars, inbox, raced>>
    BY <1>2 DEF PublishReturns, TakeReply
  <2>. QED
    BY <2>2, <2>3 DEF startVars, channelVars, RedisTypeOK
<1>3. ASSUME NEW t \in Threads, Subscribe(t) PROVE RedisTypeOK'
  <2>1. NodeOf[t] \in Nodes /\ toid[t] \in Users
    BY <1>3, EventLoopsAssumption, ForwardAssumption DEF Subscribe, HandlerTypeOK, At
  <2>2. /\ pending' = pending
           \/ pending' = [pending EXCEPT ![NodeOf[t]] = Append(@, toid[t])]
        /\ subCtx' = subCtx \/ subCtx' = [subCtx EXCEPT ![NodeOf[t]] = "err"]
        /\ raced' = raced \/ raced' = TRUE
        /\ UNCHANGED <<startVars, pubCtx, observer, linked, subs, inbox, replies>>
    BY <1>3 DEF Subscribe, SendSubscribe
  <2>3. pending' \in [Nodes -> Seq(Users)]
    <3>1. pending \in [Nodes -> Seq(Users)]
      BY DEF RedisTypeOK
    <3>2. Append(pending[NodeOf[t]], toid[t]) \in Seq(Users)
      BY <2>1, <3>1
    <3>. QED
      BY <2>2, <3>1, <3>2
  <2>4. subCtx' \in [Nodes -> {"null", "ok", "err"}] /\ raced' \in BOOLEAN
    <3>1. subCtx \in [Nodes -> {"null", "ok", "err"}] /\ raced \in BOOLEAN
      BY DEF RedisTypeOK
    <3>. QED
      BY <2>2, <3>1
  <2>. QED
    BY <2>2, <2>3, <2>4 DEF startVars, RedisTypeOK
<1>4. ASSUME NEW n \in Nodes, HandleRedisSubscribeMessage(n) PROVE RedisTypeOK'
  <2>1. inbox[n] # <<>> /\ inbox' = [inbox EXCEPT ![n] = Tail(@)]
    BY <1>4 DEF HandleRedisSubscribeMessage, NextFrame
  <2>2. inbox' \in [Nodes -> Seq([to : Users, msg : Messages \cup {Torn}])]
    <3>. DEFINE Frames == [to : Users, msg : Messages \cup {Torn}]
    <3>1. inbox \in [Nodes -> Seq(Frames)]
      BY DEF RedisTypeOK
    <3>. HIDE DEF Frames
    <3>2. Tail(inbox[n]) \in Seq(Frames)
      BY <2>1, <3>1
    <3>3. inbox' \in [Nodes -> Seq(Frames)]
      BY <2>1, <3>1, <3>2
    <3>. QED
      BY <3>3 DEF Frames
  <2>3. UNCHANGED <<startVars, pubCtx, subCtx, observer, channelVars, replies, raced>>
    BY <1>4 DEF HandleRedisSubscribeMessage, NextFrame
  <2>. QED
    BY <2>2, <2>3 DEF startVars, channelVars, RedisTypeOK
<1>5. ASSUME NEW n \in Nodes, ConnectPublish(n) PROVE RedisTypeOK'
  BY <1>5 DEF ConnectPublish, CtorGoes, channelVars, RedisTypeOK
<1>6. ASSUME NEW n \in Nodes, ConnectSubscribe(n) PROVE RedisTypeOK'
  BY <1>6 DEF ConnectSubscribe, CtorGoes, channelVars, RedisTypeOK
<1>7. ASSUME NEW n \in Nodes, SetConnected(n) PROVE RedisTypeOK'
  BY <1>7 DEF SetConnected, CtorGoes, channelVars, RedisTypeOK
<1>8. ASSUME NEW n \in Nodes, StartObserver(n) \/ InitNotifyHandler(n)
      PROVE  RedisTypeOK'
  BY <1>8 DEF StartObserver, InitNotifyHandler, CtorGoes, channelVars, RedisTypeOK
<1>9. ASSUME NEW n \in Nodes, ObserverFails(n) PROVE RedisTypeOK'
  <2>1. <<>> \in Seq([to : Users, msg : Messages \cup {Torn}])
    OBVIOUS
  <2>. QED
    BY <1>9, <2>1 DEF ObserverFails, startVars, channelVars, RedisTypeOK
<1>10. ASSUME NEW n \in Nodes, ObserverQuits(n) PROVE RedisTypeOK'
  BY <1>10 DEF ObserverQuits, channelVars, RedisTypeOK
<1>11. ASSUME NEW n \in Nodes, ExecuteSubscribe(n) PROVE RedisTypeOK'
  <2>1. /\ pending \in [Nodes -> Seq(Users)] /\ subs \in [Nodes -> SUBSET Users]
        /\ pending[n] # <<>>
    BY <1>11 DEF ExecuteSubscribe, RedisTypeOK
  <2>2. Head(pending[n]) \in Users /\ Tail(pending[n]) \in Seq(Users)
    BY <2>1
  <2>3. pending' \in [Nodes -> Seq(Users)] /\ subs' \in [Nodes -> SUBSET Users]
    BY <1>11, <2>1, <2>2 DEF ExecuteSubscribe
  <2>. QED
    BY <1>11, <2>3 DEF ExecuteSubscribe, startVars, RedisTypeOK
<1>12. ASSUME NEW n \in Nodes, LoseSubscriber(n) PROVE RedisTypeOK'
  <2>1. <<>> \in Seq(Users)
    OBVIOUS
  <2>. QED
    BY <1>12, <2>1 DEF LoseSubscriber, startVars, RedisTypeOK
<1>13. CASE UNCHANGED redisVars
  BY <1>13 DEF redisVars, channelVars, RedisTypeOK
<1>. QED
  BY <1>1, <1>2, <1>3, <1>4, <1>5, <1>6, <1>7, <1>8, <1>9, <1>10, <1>11, <1>12, <1>13
     DEF ForwardNext, Chat, Login, GenerateMessageId, Insert, LookupLocal,
         QueryState, Online, QueryUnacked, MarkUnacked, Respond, Redis,
         RedisStep, forwardVars

\* Ids once made are never changed.
LEMMA CallsStay ==
    ASSUME IdTypeOK, [ForwardNext]_forwardVars
    PROVE  \A m \in DOMAIN calls : m \in DOMAIN calls' /\ calls'[m] = calls[m]
<1>1. ASSUME NEW t \in Threads, TakeSeq(t)
      PROVE  \A m \in DOMAIN calls : m \in DOMAIN calls' /\ calls'[m] = calls[m]
  BY <1>1 DEF TakeSeq, IdTypeOK
<1>. QED
  BY <1>1, ForwardIdStep DEF IdNext, ReadClock, idVars

\* The messages that a login has found are kept until its response.
LEMMA BatchStep ==
    ASSUME IdTypeOK, HandlerTypeOK, BatchTypeOK, TablesTypeOK, [ForwardNext]_forwardVars
    PROVE  BatchTypeOK'
<1>1. DOMAIN calls \subseteq DOMAIN calls' /\ DOMAIN at = Threads
  BY CallsStay DEF HandlerTypeOK
<1>2. CASE UNCHANGED batchVars /\ \A t \in Threads : At(t, "mark") => at'[t] = "mark"
  BY <1>1, <1>2 DEF batchVars, BatchTypeOK, At
<1>3. ASSUME NEW t \in Threads, QueryUnacked(t) PROVE BatchTypeOK'
  <2>. DEFINE msgs(found) == {r.msg : r \in found}
  <2>1. PICK found \in {FirstRows(Unread(toid[t])), {}} :
          /\ batch' = [batch EXCEPT ![t] = msgs(found)]
          /\ todo' = [todo EXCEPT ![t] = msgs(found)]
    BY <1>3 DEF QueryUnacked
  <2>2. msgs(found) \subseteq DOMAIN calls
    BY <2>1 DEF FirstRows, Unread, TablesTypeOK
  <2>3. at' = [at EXCEPT ![t] = "mark"]
    BY <1>3 DEF QueryUnacked, Goes
  <2>. HIDE DEF msgs
  <2>. QED
    BY <1>1, <2>1, <2>2, <2>3 DEF BatchTypeOK, At
<1>4. ASSUME NEW t \in Threads, MarkUnacked(t) PROVE BatchTypeOK'
  BY <1>1, <1>4 DEF MarkUnacked, BatchTypeOK, At
<1>5. ASSUME NEW t \in Threads, Respond(t) PROVE BatchTypeOK'
  BY <1>1, <1>5 DEF Respond, Ends, BatchTypeOK, At
<1>6. ASSUME NEW t \in Threads,
             \/ \E u \in Users : Chat(t, u) \/ Login(t, u)
             \/ GenerateMessageId(t) \/ Insert(t) \/ LookupLocal(t) \/ QueryState(t)
             \/ Publish(t) \/ PublishReturns(t) \/ Subscribe(t) \/ Online(t)
      PROVE  UNCHANGED batchVars /\ \A s \in Threads : At(s, "mark") => at'[s] = "mark"
  BY <1>1, <1>6 DEF Chat, Login, Begins, GenerateMessageId, Insert, LookupLocal,
         QueryState, Publish, PublishReturns, Subscribe, Online, Goes, Ends, At
<1>7. CASE UNCHANGED handlerVars
  BY <1>2, <1>7 DEF handlerVars, At
<1>. QED
  BY <1>2, <1>3, <1>4, <1>5, <1>6, <1>7
     DEF ForwardNext, HandleRedisSubscribeMessage, Redis, forwardVars

-----------------------------------------------------------------------------
(* Rows *)

Stored(m) == \E r \in rows : r.msg = m

\* A row has the id of its message, and nobody else's: that is what the primary
\* key is for.
RowsHaveIds ==
    /\ \A r \in rows : r.id = calls[r.msg].id
    /\ \A r, s \in rows : r.id = s.id => r.msg = s.msg

\* Whoever works on a message after the INSERT, here, in a login, on the way
\* through Redis or at its receiver, has a row for it.
WorkIsStored ==
    /\ \A t \in Threads : at[t] \in SendSteps => Stored(cur[t])
    /\ \A t \in Threads : \A m \in batch[t] : Stored(m)
    /\ \A m \in handed : Stored(m)
    /\ \A n \in Nodes : \A i \in DOMAIN inbox[n] :
          \/ inbox[n][i].msg = Torn /\ raced
          \/ Stored(inbox[n][i].msg)

\* GivenOut in the next state.
GivenOutNext(m) ==
    m \in handed' \/ \E t \in Threads : m \in batch'[t] /\ toid'[t] = to'[m]

\* What may happen to the rows, apart from the INSERT: they are marked, and
\* when they are, their message is given out.
RowsAreMarked ==
    /\ \A r \in rows' : \E s \in rows :
          /\ r.id = s.id /\ r.msg = s.msg /\ r \in Row
          /\ r.delivered => s.delivered \/ GivenOutNext(r.msg) \/ raced'
    /\ \A s \in rows : \E r \in rows' : r.id = s.id /\ r.msg = s.msg

LEMMA MarkedRows ==
    ASSUME rows \subseteq Row, NEW id, NEW u, rows' = Marked(id, u),
           raced' \/ \A r \in rows : r.id = id /\ to[r.msg] = u => GivenOutNext(r.msg)
    PROVE  RowsAreMarked
<1>1. \A s \in rows :
         /\ [s EXCEPT !.delivered = TRUE] \in Row
         /\ [s EXCEPT !.delivered = TRUE].id = s.id
         /\ [s EXCEPT !.delivered = TRUE].msg = s.msg
  BY DEF Row
<1>. QED
  BY ZenonT(60), <1>1 DEF Marked, RowsAreMarked

LEMMA SameRows ==
    ASSUME rows \subseteq Row, rows' = rows
    PROVE  RowsAreMarked
BY DEF RowsAreMarked

RowInv == RowsHaveIds /\ WorkIsStored /\ DeliveredIsOwn

\* The INSERT of thread t, with an id that is not taken.
AddsRow(t) == at[t] = "insert" /\ ~IdTaken(t) /\ rows' = rows \cup {NewRow(t)}

\* The rows are marked, or one is added; and history is not forgotten.
LEMMA RowsMove ==
    ASSUME Types, RowInv, IdInv, [ForwardNext]_forwardVars
    PROVE  /\ RowsAreMarked \/ \E t \in Threads : AddsRow(t)
           /\ raced => raced'
<1>. rows \subseteq Row /\ DOMAIN calls \subseteq Messages
  BY CallsAreMessages DEF Types, ForwardTypeOK, TablesTypeOK
<1>1. ASSUME NEW t \in Threads, Insert(t)
      PROVE  RowsAreMarked \/ AddsRow(t)
  BY <1>1, SameRows DEF Insert, AddsRow, At
<1>2. ASSUME NEW t \in Threads, LookupLocal(t) PROVE RowsAreMarked
  <2>1. CASE rows' = rows
    BY <2>1, SameRows
  <2>2. CASE handed' = handed \cup {cur[t]} /\ rows' = Marked(MessageIdOf(t), toid[t])
    <3>1. PICK q \in rows : q.msg = cur[t] /\ q.id = MessageIdOf(t)
      BY <1>2 DEF LookupLocal, At, SendSteps, RowInv, WorkIsStored, Stored,
                  RowsHaveIds, MessageIdOf
    <3>2. \A r \in rows : r.id = MessageIdOf(t) => GivenOutNext(r.msg)
      BY <2>2, <3>1 DEF RowInv, RowsHaveIds, GivenOutNext
    <3>. QED
      BY <2>2, <3>2, MarkedRows
  <2>. QED
    BY <1>2, <2>1, <2>2 DEF LookupLocal, Stores
<1>3. ASSUME NEW t \in Threads, MarkUnacked(t) PROVE RowsAreMarked
  <2>1. PICK m \in todo[t] : Stores(Marked(calls[m].id, toid[t]))
    BY <1>3 DEF MarkUnacked
  <2>2. CASE rows' = rows
    BY <2>2, SameRows
  <2>3. CASE rows' = Marked(calls[m].id, toid[t])
    <3>1. m \in batch[t] /\ UNCHANGED <<batch, toid, to>>
      BY <1>3, <2>1 DEF MarkUnacked, Types, ForwardTypeOK, BatchTypeOK
    <3>2. PICK q \in rows : q.msg = m /\ q.id = calls[m].id
      BY <3>1 DEF RowInv, WorkIsStored, Stored, RowsHaveIds
    <3>3. \A r \in rows : r.id = calls[m].id /\ to[r.msg] = toid[t] => GivenOutNext(r.msg)
      BY <3>1, <3>2 DEF RowInv, RowsHaveIds, GivenOutNext
    <3>. QED
      BY <2>3, <3>3, MarkedRows
  <2>. QED
    BY <2>1, <2>2, <2>3 DEF Stores
<1>4. ASSUME NEW n \in Nodes, HandleRedisSubscribeMessage(n) PROVE RowsAreMarked
  <2>. DEFINE frame == Head(inbox[n])
  <2>1. /\ frame = inbox[n][1] /\ 1 \in DOMAIN inbox[n]
        /\ raced' = raced
    BY <1>4 DEF HandleRedisSubscribeMessage, NextFrame, Types, ForwardTypeOK, RedisTypeOK
  <2>2. (frame.msg = Torn /\ raced) \/ Stored(frame.msg)
    BY <2>1 DEF RowInv, WorkIsStored
  <2>3. CASE rows' = rows
    BY <2>3, SameRows
  <2>4. CASE frame.msg = Torn /\ rows' \in MarkedByTorn(frame.to)
    <3>1. raced'
      BY <2>1, <2>2, <2>4, RedisAssumption DEF Stored, Row
    <3>. QED
      BY <2>4, <3>1, SameRows, MarkedRows DEF MarkedByTorn
  <2>5. CASE /\ frame.msg # Torn
             /\ handed' = handed \cup {frame.msg}
             /\ rows' = Marked(calls[frame.msg].id, frame.to)
    <3>1. PICK q \in rows : q.msg = frame.msg /\ q.id = calls[frame.msg].id
      BY <2>2, <2>5 DEF Stored, RowInv, RowsHaveIds
    <3>2. \A r \in rows : r.id = calls[frame.msg].id => GivenOutNext(r.msg)
      BY <2>5, <3>1 DEF RowInv, RowsHaveIds, GivenOutNext
    <3>. QED
      BY <2>5, <3>2, MarkedRows
  <2>. QED
    BY <1>4, <2>3, <2>4, <2>5 DEF HandleRedisSubscribeMessage, Stores
<1>5. ASSUME rows' = rows PROVE RowsAreMarked
  BY <1>5, SameRows
<1>6. RowsAreMarked \/ \E t \in Threads : AddsRow(t)
  BY <1>1, <1>2, <1>3, <1>4, <1>5
     DEF ForwardNext, Chat, Login, GenerateMessageId, QueryState, Publish,
         PublishReturns, Subscribe, Online, QueryUnacked, Respond, Redis,
         forwardVars, chatVars
<1>7. raced => raced'
  <2>1. ASSUME NEW t \in Threads, Publish(t) \/ PublishReturns(t) \/ Subscribe(t)
        PROVE  raced => raced'
    BY <2>1 DEF Publish, PublishReturns, Subscribe, SendPublish, Executed, LinkLost,
                Race, TakeReply, SendSubscribe, redisVars
  <2>2. ASSUME NEW n \in Nodes, HandleRedisSubscribeMessage(n) \/ Redis(n)
        PROVE  raced' = raced
    BY <2>2 DEF HandleRedisSubscribeMessage, NextFrame, Redis, RedisStep,
                ConnectPublish, ConnectSubscribe, SetConnected, StartObserver,
                InitNotifyHandler, ExecuteSubscribe, LoseSubscriber, ObserverFails,
                ObserverQuits
  <2>. QED
    BY <2>1, <2>2
       DEF ForwardNext, Chat, Login, GenerateMessageId, Insert, LookupLocal,
           QueryState, Online, QueryUnacked, MarkUnacked, Respond, forwardVars,
           redisVars
<1>. QED
  BY <1>6, <1>7

\* What has a row keeps it, and rows keep their types.
LEMMA RowsStay ==
    ASSUME Types, RowInv, IdInv, [ForwardNext]_forwardVars
    PROVE  /\ rows' \subseteq Row
           /\ \A s \in rows : \E r \in rows' : r.id = s.id /\ r.msg = s.msg
<1>1. CASE RowsAreMarked
  BY <1>1 DEF RowsAreMarked
<1>2. ASSUME NEW t \in Threads, AddsRow(t)
      PROVE  rows' \subseteq Row /\ rows \subseteq rows'
  <2>1. cur[t] \in DOMAIN calls /\ cur[t] \in Messages
    BY <1>2, CallsAreMessages
       DEF AddsRow, Types, ForwardTypeOK, HandlerTypeOK, ChatSteps, SendSteps
  <2>2. MessageIdOf(t) \in Nat
    BY <2>1, CallType DEF MessageIdOf, IdInv, IdTypeOK
  <2>3. NewRow(t) \in Row
    BY <2>1, <2>2 DEF NewRow, Row
  <2>4. rows \subseteq Row
    BY DEF Types, ForwardTypeOK, TablesTypeOK
  <2>. QED
    BY <1>2, <2>3, <2>4 DEF AddsRow
<1>. QED
  BY <1>1, <1>2, RowsMove

\* What has been given out, or is in hand for a response, does not come back.
LEMMA GivenOutStays ==
    ASSUME Types, [ForwardNext]_forwardVars, NEW m \in DOMAIN calls, GivenOut(m)
    PROVE  GivenOutNext(m)
<1>1. /\ DOMAIN batch = Threads /\ DOMAIN at = Threads /\ DOMAIN toid = Threads
      /\ \A t \in Threads : batch[t] # {} => at[t] = "mark"
  BY DEF Types, ForwardTypeOK, BatchTypeOK, HandlerTypeOK, At
<1>0. m \in 1..Len(to)
  BY DEF Types, ForwardTypeOK, TablesTypeOK, IdTypeOK
<1>2. to'[m] = to[m]
  <2>1. to' = to \/ \E u \in Users : to' = Append(to, u)
    BY DEF ForwardNext, Chat, Login, GenerateMessageId, Insert, LookupLocal,
           QueryState, Publish, PublishReturns, Subscribe, Online, QueryUnacked,
           MarkUnacked, Respond, HandleRedisSubscribeMessage, Redis,
           forwardVars, chatVars, At, Types, ForwardTypeOK, HandlerTypeOK
  <2>. QED
    BY <1>0, <2>1 DEF Types, ForwardTypeOK, TablesTypeOK
<1>3. handed \subseteq handed'
  BY DEF ForwardNext, Chat, Login, GenerateMessageId, Insert, LookupLocal,
         QueryState, Publish, PublishReturns, Subscribe, Online, QueryUnacked,
         MarkUnacked, Respond, HandleRedisSubscribeMessage, Redis,
         forwardVars, chatVars
<1>4. ASSUME NEW t \in Threads, m \in batch[t], toid[t] = to[m]
      PROVE  m \in handed' \/ (m \in batch'[t] /\ toid'[t] = toid[t])
  <2>1. at[t] = "mark"
    BY <1>1, <1>4
  <2>2. ASSUME NEW s \in Threads,
               \/ \E u \in Users : Chat(s, u) \/ Login(s, u)
               \/ GenerateMessageId(s) \/ Insert(s) \/ LookupLocal(s) \/ QueryState(s)
               \/ Publish(s) \/ PublishReturns(s) \/ Subscribe(s) \/ Online(s)
        PROVE  batch' = batch /\ toid'[t] = toid[t]
    BY <1>1, <2>1, <2>2 DEF Chat, Login, Begins, GenerateMessageId, Insert,
                            LookupLocal, QueryState, Publish, PublishReturns,
                            Subscribe, Online, Goes, Ends, At, batchVars
  <2>3. ASSUME NEW s \in Threads, QueryUnacked(s) \/ MarkUnacked(s)
        PROVE  batch'[t] = batch[t] /\ toid' = toid
    BY <1>1, <2>1, <2>3 DEF QueryUnacked, MarkUnacked, Goes, At
  <2>4. ASSUME NEW s \in Threads, Respond(s)
        PROVE  m \in handed' \/ (m \in batch'[t] /\ toid'[t] = toid[t])
    <3>1. CASE s = t
      BY <1>4, <2>4, <3>1 DEF Respond
    <3>2. CASE s # t
      BY <1>1, <1>4, <2>4, <3>2 DEF Respond, Ends
    <3>. QED
      BY <3>1, <3>2
  <2>5. CASE UNCHANGED handlerVars
    BY <1>4, <2>5 DEF handlerVars, batchVars
  <2>. QED
    BY <1>4, <2>2, <2>3, <2>4, <2>5
       DEF ForwardNext, HandleRedisSubscribeMessage, Redis, forwardVars
<1>. QED
  BY <1>2, <1>3, <1>4 DEF GivenOut, GivenOutNext

LEMMA RowsHaveIdsStep ==
    ASSUME Types, RowInv, IdInv, [ForwardNext]_forwardVars
    PROVE  RowsHaveIds' /\ DeliveredIsOwn'
<1>. /\ \A r \in rows : r.msg \in DOMAIN calls
     /\ \A m \in DOMAIN calls : m \in DOMAIN calls' /\ calls'[m] = calls[m]
  BY CallsStay DEF Types, ForwardTypeOK, TablesTypeOK
<1>0. \A r \in rows : GivenOut(r.msg) => GivenOutNext(r.msg)
  BY GivenOutStays
<1>. SUFFICES /\ RowsHaveIds'
              /\ raced' \/ \A r \in rows' : r.delivered => GivenOutNext(r.msg)
  BY DEF DeliveredIsOwn, GivenOut, GivenOutNext
<1>1. CASE RowsAreMarked
  <2>1. RowsHaveIds'
    BY <1>1 DEF RowsAreMarked, RowInv, RowsHaveIds
  <2>2. raced' \/ \A r \in rows' : r.delivered => GivenOutNext(r.msg)
    BY <1>0, <1>1, RowsMove DEF RowsAreMarked, RowInv, DeliveredIsOwn
  <2>. QED
    BY <2>1, <2>2
<1>2. ASSUME NEW t \in Threads, AddsRow(t)
      PROVE  /\ RowsHaveIds'
             /\ raced' \/ \A r \in rows' : r.delivered => GivenOutNext(r.msg)
  <2>. DEFINE new == NewRow(t)
  <2>1. /\ new.id = calls[cur[t]].id /\ new.msg = cur[t] /\ ~new.delivered
        /\ cur[t] \in DOMAIN calls
        /\ rows' = rows \cup {new} /\ \A r \in rows : r.id # new.id
    BY <1>2 DEF AddsRow, IdTaken, NewRow, MessageIdOf, Types, ForwardTypeOK,
                HandlerTypeOK, ChatSteps
  <2>. HIDE DEF new
  <2>2. RowsHaveIds'
    BY <2>1 DEF RowInv, RowsHaveIds
  <2>3. raced' \/ \A r \in rows' : r.delivered => GivenOutNext(r.msg)
    BY <1>0, <2>1, RowsMove DEF RowInv, DeliveredIsOwn
  <2>. QED
    BY <2>2, <2>3
<1>. QED
  BY <1>1, <1>2, RowsMove

\* A row survives, so what is stored stays so.
LEMMA StoredStays ==
    ASSUME Types, RowInv, IdInv, [ForwardNext]_forwardVars, NEW m, Stored(m)
    PROVE  \E r \in rows' : r.msg = m
BY RowsStay DEF Stored

LEMMA WorkStep ==
    ASSUME Types, RowInv, IdInv, [ForwardNext]_forwardVars,
           NEW t \in Threads, at'[t] \in SendSteps
    PROVE  \E r \in rows' : r.msg = cur'[t]
<1>. USE DEF SendSteps
<1>. DOMAIN at = Threads /\ DOMAIN cur = Threads
  BY DEF Types, ForwardTypeOK, HandlerTypeOK
<1>1. CASE /\ at[t] \in SendSteps
           /\ cur'[t] = cur[t]
  BY <1>1, StoredStays DEF RowInv, WorkIsStored
<1>2. ASSUME NEW s \in Threads, Insert(s) PROVE \E r \in rows' : r.msg = cur'[t]
  <2>1. CASE s # t
    <3>1. at'[t] = at[t] /\ cur'[t] = cur[t]
      BY <1>2, <2>1 DEF Insert, Ends, Goes
    <3>. QED
      BY <1>1, <3>1
  <2>2. CASE s = t
    <3>1. ~Ends(t)
      BY DEF Ends
    <3>2. cur' = cur /\ rows' = rows \cup {NewRow(t)}
      BY <1>2, <2>2, <3>1 DEF Insert, Goes
    <3>3. NewRow(t).msg = cur[t]
      BY DEF NewRow
    <3>. QED
      BY <3>2, <3>3
  <2>. QED
    BY <2>1, <2>2
<1>3. ASSUME NEW s \in Threads,
             \/ \E u \in Users : Chat(s, u) \/ Login(s, u)
             \/ GenerateMessageId(s) \/ PublishReturns(s) \/ Subscribe(s)
             \/ Online(s) \/ QueryUnacked(s) \/ MarkUnacked(s) \/ Respond(s)
      PROVE  at'[t] = at[t] /\ cur'[t] = cur[t]
  BY <1>3 DEF Chat, Login, Begins, GenerateMessageId, PublishReturns, Subscribe,
              Online, QueryUnacked, MarkUnacked, Respond, Ends, Goes
<1>4. ASSUME NEW s \in Threads, LookupLocal(s) \/ QueryState(s) \/ Publish(s)
      PROVE  at[t] \in SendSteps /\ cur'[t] = cur[t]
  BY <1>4 DEF LookupLocal, QueryState, Publish, Ends, Goes, At
<1>5. CASE UNCHANGED handlerVars
  BY <1>1, <1>5 DEF handlerVars
<1>. QED
  BY <1>1, <1>2, <1>3, <1>4, <1>5
     DEF ForwardNext, HandleRedisSubscribeMessage, Redis, forwardVars

\* What a login has found is stored, and so is what a connection is given.
LEMMA GivenStep ==
    ASSUME Types, RowInv, IdInv, [ForwardNext]_forwardVars, NEW m,
           m \in handed' \/ \E t \in Threads : m \in batch'[t]
    PROVE  \E r \in rows' : r.msg = m
<1>. DOMAIN batch = Threads
  BY DEF Types, ForwardTypeOK, BatchTypeOK
<1>1. SUFFICES Stored(m)
  BY StoredStays
<1>2. ASSUME m \in handed \/ \E t \in Threads : m \in batch[t] PROVE Stored(m)
  BY <1>2 DEF RowInv, WorkIsStored
<1>3. ASSUME NEW t \in Threads, LookupLocal(t) PROVE Stored(m)
  <2>1. Stored(cur[t])
    BY <1>3 DEF LookupLocal, At, SendSteps, RowInv, WorkIsStored
  <2>. QED
    BY <1>2, <1>3, <2>1 DEF LookupLocal, batchVars
<1>4. ASSUME NEW t \in Threads, QueryUnacked(t) PROVE Stored(m)
  <2>1. PICK found \in {FirstRows(Unread(toid[t])), {}} :
          batch' = [batch EXCEPT ![t] = {r.msg : r \in found}]
    BY <1>4 DEF QueryUnacked
  <2>2. found \subseteq rows
    BY <2>1 DEF FirstRows, Unread
  <2>. QED
    BY <1>2, <1>4, <2>1, <2>2 DEF QueryUnacked, chatVars, Stored
<1>5. ASSUME NEW t \in Threads, MarkUnacked(t) \/ Respond(t) PROVE Stored(m)
  BY <1>2, <1>5 DEF MarkUnacked, Respond
<1>6. ASSUME NEW n \in Nodes, HandleRedisSubscribeMessage(n) PROVE Stored(m)
  <2>. DEFINE frame == Head(inbox[n])
  <2>1. frame = inbox[n][1] /\ 1 \in DOMAIN inbox[n]
    BY <1>6 DEF HandleRedisSubscribeMessage, NextFrame, Types, ForwardTypeOK, RedisTypeOK
  <2>2. frame.msg = Torn \/ Stored(frame.msg)
    BY <2>1 DEF RowInv, WorkIsStored
  <2>3. /\ batch' = batch
        /\ handed' = handed \/ (frame.msg # Torn /\ handed' = handed \cup {frame.msg})
    BY <1>6 DEF HandleRedisSubscribeMessage, handlerVars, batchVars
  <2>. QED
    BY <1>2, <2>2, <2>3
<1>7. CASE handed' = handed /\ batch' = batch
  BY <1>2, <1>7
<1>. QED
  BY <1>3, <1>4, <1>5, <1>6, <1>7
     DEF ForwardNext, Chat, Login, GenerateMessageId, Insert, QueryState, Publish,
         PublishReturns, Subscribe, Online, Redis, forwardVars, chatVars,
         handlerVars, batchVars

\* Only publish fills an inbox, with what is stored or with what is torn.
LEMMA InboxStep ==
    ASSUME Types, RowInv, IdInv, [ForwardNext]_forwardVars,
           NEW n \in Nodes, NEW i \in DOMAIN inbox'[n]
    PROVE  \/ inbox'[n][i].msg = Torn /\ raced'
           \/ \E r \in rows' : r.msg = inbox'[n][i].msg
<1>. inbox \in [Nodes -> Seq([to : Users, msg : Messages \cup {Torn}])]
  BY DEF Types, ForwardTypeOK, RedisTypeOK
<1>1. ASSUME NEW k \in DOMAIN inbox[n], inbox'[n][i] = inbox[n][k]
      PROVE  \/ inbox'[n][i].msg = Torn /\ raced'
             \/ \E r \in rows' : r.msg = inbox'[n][i].msg
  BY <1>1, StoredStays, RowsMove DEF RowInv, WorkIsStored
<1>2. ASSUME NEW u \in Users, NEW m \in Messages \cup {Torn}, RedisForwards(u, m)
      PROVE  \/ \E k \in DOMAIN inbox[n] : inbox'[n][i] = inbox[n][k]
             \/ inbox'[n][i].msg = m
  <2>. DEFINE Frames == [to : Users, msg : Messages \cup {Torn}]
              frame == [to |-> u, msg |-> m]
  <2>1. inbox'[n] = inbox[n] \/ inbox'[n] = Append(inbox[n], frame)
    BY <1>2 DEF RedisForwards
  <2>2. inbox[n] \in Seq(Frames) /\ frame \in Frames /\ frame.msg = m
    OBVIOUS
  <2>. HIDE DEF Frames, frame
  <2>3. CASE inbox'[n] = Append(inbox[n], frame)
    <3>1. i \in 1..Len(inbox[n]) \/ i = Len(inbox[n]) + 1
      BY <2>2, <2>3
    <3>2. CASE i \in 1..Len(inbox[n])
      BY <2>2, <2>3, <3>2
    <3>3. CASE i = Len(inbox[n]) + 1
      BY <2>2, <2>3, <3>3
    <3>. QED
      BY <3>1, <3>2, <3>3
  <2>. QED
    BY <2>1, <2>3
<1>3. ASSUME NEW t \in Threads, Publish(t)
      PROVE  \/ inbox'[n][i].msg = Torn /\ raced'
             \/ \E r \in rows' : r.msg = inbox'[n][i].msg
  <2>1. Stored(cur[t]) /\ toid[t] \in Users /\ cur[t] \in Messages
    BY <1>3, CallsAreMessages, ForwardAssumption
       DEF Publish, At, RowInv, WorkIsStored, Types, ForwardTypeOK, HandlerTypeOK,
           ChatSteps, SendSteps
  <2>2. \/ inbox' = inbox
        \/ RedisForwards(toid[t], cur[t])
        \/ raced' /\ \E v \in Users : RedisForwards(v, Torn)
    BY <1>3 DEF Publish, SendPublish, Executed, LinkLost, Race, redisVars
  <2>. QED
    BY <1>1, <1>2, <2>1, <2>2, StoredStays
<1>4. ASSUME NEW k \in Nodes, HandleRedisSubscribeMessage(k)
      PROVE  \E j \in DOMAIN inbox[n] : inbox'[n][i] = inbox[n][j]
  <2>1. inbox'[n] \in {inbox[n], Tail(inbox[n])} /\ (n = k => inbox[n] # <<>>)
        /\ (n # k => inbox'[n] = inbox[n])
    BY <1>4 DEF HandleRedisSubscribeMessage, NextFrame
  <2>2. CASE inbox'[n] = inbox[n]
    BY <2>2
  <2>3. CASE inbox[n] # <<>> /\ inbox'[n] = Tail(inbox[n])
    <3>1. i + 1 \in DOMAIN inbox[n] /\ inbox'[n][i] = inbox[n][i + 1]
      BY <2>3
    <3>. QED
      BY <3>1
  <2>. QED
    BY <2>1, <2>2, <2>3
<1>5. ASSUME NEW k \in Nodes, Redis(k) PROVE inbox'[n] = inbox[n]
  <2>1. inbox'[n] \in {inbox[n], <<>>}
    BY <1>5 DEF Redis, RedisStep, ConnectPublish, ConnectSubscribe,
                SetConnected, StartObserver, InitNotifyHandler, ExecuteSubscribe,
                LoseSubscriber, ObserverFails, ObserverQuits
  <2>. QED
    BY <2>1
<1>6. CASE inbox' = inbox
  BY <1>1, <1>6
<1>. QED
  BY <1>1, <1>3, <1>4, <1>5, <1>6
     DEF ForwardNext, Chat, Login, GenerateMessageId, Insert, LookupLocal,
         QueryState, PublishReturns, TakeReply, Subscribe, SendSubscribe, Online,
         QueryUnacked, MarkUnacked, Respond, forwardVars, redisVars

\* The tables and maps: what is in them is about messages that there are.
LEMMA TablesStep ==
    ASSUME Types, RowInv, IdInv, [ForwardNext]_forwardVars
    PROVE  TablesTypeOK'
<1>. USE DEF Types, ForwardTypeOK
<1>1. DOMAIN calls \subseteq DOMAIN calls'
  BY CallsStay
<1>2. to' \in Seq(Users) /\ Len(to') = Len(calls')
  <2>1. ASSUME NEW t \in Threads, GenerateMessageId(t)
        PROVE  to' \in Seq(Users) /\ Len(to') = Len(calls')
    <3>1. toid[t] \in Users /\ to' = Append(to, toid[t])
      BY <2>1 DEF GenerateMessageId, At, HandlerTypeOK
    <3>2. Len(calls') = Len(calls) + 1
      BY <2>1 DEF GenerateMessageId, TakeSeq, IdTypeOK
    <3>3. to \in Seq(Users) /\ Len(to) = Len(calls)
      BY DEF TablesTypeOK
    <3>. QED
      BY <3>1, <3>2, <3>3
  <2>2. CASE to' = to /\ calls' = calls
    BY <2>2 DEF TablesTypeOK
  <2>. QED
    BY <2>1, <2>2
       DEF ForwardNext, Chat, ReadClock, Login, Insert, LookupLocal, QueryState,
           Publish, PublishReturns, Subscribe, Online, QueryUnacked, MarkUnacked,
           Respond, HandleRedisSubscribeMessage, Redis, forwardVars,
           idVars, chatVars
<1>3. \A r \in rows' : r.msg \in DOMAIN calls'
  <2>1. CASE RowsAreMarked
    BY <1>1, <2>1 DEF RowsAreMarked, TablesTypeOK
  <2>2. ASSUME NEW t \in Threads, AddsRow(t)
        PROVE  \A r \in rows' : r.msg \in DOMAIN calls'
    <3>1. cur[t] \in DOMAIN calls
      BY <2>2 DEF AddsRow, HandlerTypeOK, ChatSteps
    <3>2. \A r \in rows' : r \in rows \/ r.msg = cur[t]
      BY <2>2 DEF AddsRow, NewRow
    <3>. QED
      BY <1>1, <3>1, <3>2 DEF TablesTypeOK
  <2>. QED
    BY <2>1, <2>2, RowsMove
<1>4. handed' \subseteq DOMAIN calls'
  BY <1>3, GivenStep
<1>5. bound' \in [Nodes -> SUBSET Users] /\ online' \subseteq Users
  <2>0. bound \in [Nodes -> SUBSET Users] /\ online \subseteq Users
    BY DEF TablesTypeOK
  <2>1. ASSUME NEW t \in Threads, NEW u \in Users, Login(t, u)
        PROVE  bound' \in [Nodes -> SUBSET Users] /\ online' = online
    <3>1. bound[NodeOf[t]] \cup {u} \in SUBSET Users
      BY <2>0, EventLoopsAssumption
    <3>. QED
      BY <2>0, <2>1, <3>1 DEF Login
  <2>2. ASSUME NEW t \in Threads, Online(t)
        PROVE  bound' = bound /\ online' \subseteq Users
    <3>1. toid[t] \in Users
      BY <2>2 DEF Online, At, HandlerTypeOK
    <3>. QED
      BY <2>0, <2>2, <3>1 DEF Online
  <2>. QED
    BY <2>0, <2>1, <2>2
       DEF ForwardNext, Chat, GenerateMessageId, Insert, LookupLocal, QueryState,
           Publish, PublishReturns, Subscribe, QueryUnacked, MarkUnacked, Respond,
           HandleRedisSubscribeMessage, Redis, forwardVars, loginVars
<1>. QED
  BY <1>2, <1>3, <1>4, <1>5, RowsStay DEF TablesTypeOK

-----------------------------------------------------------------------------
(* The whole invariant *)

ForwardInv == Types /\ RowInv

LEMMA ForwardStart == ForwardInit => ForwardInv
<1>. SUFFICES ASSUME ForwardInit PROVE ForwardInv
  OBVIOUS
<1>1. IdTypeOK
  BY IdStart DEF ForwardInit, IdInv
<1>2. RedisTypeOK
  <2>1. <<>> \in Seq([to : Users, msg : Messages \cup {Torn}]) /\ <<>> \in Seq(Users)
    OBVIOUS
  <2>. QED
    BY <2>1 DEF ForwardInit, RedisInit, RedisTypeOK
<1>3. HandlerTypeOK /\ BatchTypeOK /\ DOMAIN cur = Threads
  BY DEF ForwardInit, IdInit, HandlerTypeOK, BatchTypeOK, ChatSteps, SendSteps, At
<1>4. TablesTypeOK
  <2>1. <<>> \in Seq(Users) /\ Len(<<>>) = 0
    OBVIOUS
  <2>. QED
    BY <2>1 DEF ForwardInit, IdInit, TablesTypeOK
<1>5. ChatsAreBounded
  <2>1. Pending = {} /\ Len(calls) = 0
    BY DEF ForwardInit, IdInit, Pending
  <2>. QED
    BY <2>1, FS_EmptySet, ForwardAssumption DEF ChatsAreBounded
<1>6. RowInv
  BY DEF ForwardInit, IdInit, RedisInit, RowInv, RowsHaveIds, WorkIsStored, SendSteps,
         DeliveredIsOwn
<1>. QED
  BY <1>1, <1>2, <1>3, <1>4, <1>5, <1>6 DEF ForwardInv, Types, ForwardTypeOK

LEMMA ForwardStep ==
    ASSUME ForwardInv, IdInv, [ForwardNext]_forwardVars
    PROVE  ForwardInv'
<1>. USE DEF ForwardInv
<1>1. IdTypeOK'
  BY IdStep, ForwardIdStep DEF IdInv
<1>2. RedisTypeOK'
  BY RedisStepTypes, CallsAreMessages DEF Types, ForwardTypeOK
<1>3. HandlerTypeOK' /\ DOMAIN cur' = Threads
  BY HandlersStep DEF Types, ForwardTypeOK
<1>4. BatchTypeOK' /\ TablesTypeOK' /\ ChatsAreBounded'
  BY BatchStep, TablesStep, BoundStep DEF Types, ForwardTypeOK
<1>5. WorkIsStored'
  <2>1. \A t \in Threads : at'[t] \in SendSteps => \E r \in rows' : r.msg = cur'[t]
    BY WorkStep
  <2>2. \A n \in Nodes : \A i \in DOMAIN inbox'[n] :
          \/ inbox'[n][i].msg = Torn /\ raced'
          \/ \E r \in rows' : r.msg = inbox'[n][i].msg
    BY InboxStep
  <2>3. /\ \A t \in Threads : \A m \in batch'[t] : \E r \in rows' : r.msg = m
        /\ \A m \in handed' : \E r \in rows' : r.msg = m
    BY GivenStep
  <2>. QED
    BY <2>1, <2>2, <2>3 DEF WorkIsStored, Stored
<1>6. RowsHaveIds' /\ DeliveredIsOwn'
  BY RowsHaveIdsStep
<1>. QED
  BY <1>1, <1>2, <1>3, <1>4, <1>5, <1>6 DEF Types, ForwardTypeOK, RowInv

LEMMA ForwardAlways == ForwardSpec => []ForwardInv
<1>1. ForwardInv /\ IdInv /\ [ForwardNext]_forwardVars => ForwardInv'
  BY ForwardStep
<1>. QED
  BY <1>1, ForwardStart, IdsAreSound, PTL DEF ForwardSpec

\* Every variable of the composition has its type, however many processes,
\* threads and accounts there are: a handler has its message and its account,
\* and the tables, the inboxes and what was handed over are about messages that
\* have an id.
THEOREM ForwardTypeCorrect == ForwardSpec => []ForwardTypeOK
<1>1. ForwardInv => ForwardTypeOK
  BY DEF ForwardInv, Types
<1>. QED
  BY <1>1, ForwardAlways, PTL

\* Persisted first: whatever is on its way to a receiver, or with one, has a row
\* of its own to be sent again from, at any width of the ids, whichever INSERT or
\* other statement fails, whatever the links of Redis do and two threads tear.
THEOREM PersistedFirst == ForwardSpec => []SentIsStored
<1>1. ASSUME ForwardInv PROVE SentIsStored
  <2>1. ASSUME NEW m \in Sent PROVE Stored(m)
    <3>1. Torn \notin Messages
      BY RedisAssumption
    <3>. QED
      BY <1>1, <2>1, <3>1 DEF Sent, ForwardInv, RowInv, WorkIsStored
  <2>. QED
    BY <1>1, <2>1 DEF SentIsStored, Stored, ForwardInv, RowInv, RowsHaveIds
<1>. QED
  BY <1>1, ForwardAlways, PTL

\* markDelivered only ever marks the row of a frame that a connection is given,
\* or of one that the login doing it is going to send, by whichever way it came:
\* a frame in an inbox, a handler or a batch has its row, and its id is no other
\* row's.
THEOREM OnlyGivenIsMarked == ForwardSpec => []DeliveredIsOwn
<1>1. ForwardInv => DeliveredIsOwn
  BY DEF ForwardInv, RowInv
<1>. QED
  BY <1>1, ForwardAlways, PTL

-----------------------------------------------------------------------------
(* Subscriptions *)

\* An account is logged in at a process that has its contexts or never will.
BoundAfterStart == \A n \in Nodes : bound[n] # {} => ctor[n] = "done"

\* A step that leaves the places of other handlers alone, logs nobody in and
\* takes nothing from Redis while the process is connected.
LEMMA StaySubscribed ==
    ASSUME SubscribeOnItsWay, raced => raced', bound' = bound,
           \A n \in Nodes : (IsConnected(n) /\ linked[n])' =>
               /\ IsConnected(n) /\ linked[n]
               /\ subs[n] \cup Range(pending[n])
                     \subseteq subs'[n] \cup Range(pending'[n]),
           \A t \in Threads : at[t] = "subscribe" =>
               at'[t] = "subscribe" /\ toid'[t] = toid[t]
    PROVE  SubscribeOnItsWay'
BY DEF SubscribeOnItsWay, SubscribesAt, At, Range

LEMMA BoundAfterStartStep ==
    ASSUME ForwardTypeOK, BoundAfterStart, [ForwardNext]_forwardVars
    PROVE  BoundAfterStart'
<1>. DOMAIN bound = Nodes /\ DOMAIN ctor = Nodes
  BY DEF ForwardTypeOK, TablesTypeOK, RedisTypeOK
<1>1. ASSUME NEW t \in Threads, NEW u \in Users, Login(t, u) PROVE BoundAfterStart'
  BY <1>1, EventLoopsAssumption DEF Login, Begins, Constructed, redisVars, BoundAfterStart
<1>2. ASSUME NEW n \in Nodes, Redis(n) PROVE BoundAfterStart'
  BY <1>2
     DEF Redis, RedisStep, ConnectPublish, ConnectSubscribe,
         SetConnected, StartObserver, InitNotifyHandler, ExecuteSubscribe,
         LoseSubscriber, ObserverFails, ObserverQuits, CtorGoes, startVars,
         loginVars, BoundAfterStart
<1>3. CASE UNCHANGED <<ctor, bound>>
  BY <1>3 DEF BoundAfterStart
<1>. QED
  BY <1>1, <1>2, <1>3
     DEF ForwardNext, Chat, GenerateMessageId, Insert, LookupLocal, QueryState,
         Publish, SendPublish, PublishReturns, TakeReply, Subscribe, SendSubscribe,
         Online, QueryUnacked, MarkUnacked, Respond, HandleRedisSubscribeMessage,
         NextFrame, startVars, redisVars, loginVars, forwardVars

LEMMA SubscribedStep ==
    ASSUME ForwardInv, IdInv, BoundAfterStart, StartInv, SubscribeOnItsWay,
           [ForwardNext]_forwardVars
    PROVE  SubscribeOnItsWay'
<1>. /\ DOMAIN bound = Nodes /\ DOMAIN subs = Nodes /\ DOMAIN subCtx = Nodes
     /\ DOMAIN pubCtx = Nodes /\ DOMAIN connected = Nodes /\ DOMAIN linked = Nodes
     /\ pending \in [Nodes -> Seq(Users)]
     /\ DOMAIN at = Threads /\ DOMAIN toid = Threads
  BY DEF ForwardInv, Types, ForwardTypeOK, TablesTypeOK, RedisTypeOK, HandlerTypeOK
<1>0. raced => raced'
  BY RowsMove DEF ForwardInv
<1>1. ASSUME NEW t \in Threads, NEW u \in Users, Login(t, u)
      PROVE  SubscribeOnItsWay'
  <2>1. /\ at[t] = "idle" /\ at'[t] = "subscribe" /\ toid'[t] = u
        /\ \A s \in Threads \ {t} : at'[s] = at[s] /\ toid'[s] = toid[s]
        /\ \A n \in Nodes : \A v \in bound'[n] :
              v \in bound[n] \/ (n = NodeOf[t] /\ v = u)
        /\ UNCHANGED <<raced, connected, pubCtx, subCtx, linked, pending, subs>>
    BY <1>1 DEF Login, Begins, At, redisVars, channelVars
  <2>2. ASSUME ~raced', NEW n \in Nodes, (IsConnected(n) /\ linked[n])', NEW v \in bound'[n]
        PROVE  (v \in subs[n] \/ v \in Range(pending[n]) \/ SubscribesAt(n, v))'
    <3>1. CASE n = NodeOf[t] /\ v = u
      BY <2>1, <3>1 DEF SubscribesAt, At
    <3>2. CASE v \in bound[n]
      <4>1. v \in subs[n] \/ v \in Range(pending[n]) \/ SubscribesAt(n, v)
        BY <2>1, <2>2, <3>2 DEF SubscribeOnItsWay, IsConnected
      <4>2. CASE SubscribesAt(n, v)
        <5>1. PICK s \in Threads : NodeOf[s] = n /\ toid[s] = v /\ At(s, "subscribe")
          BY <4>2 DEF SubscribesAt
        <5>2. s # t
          BY <2>1, <5>1 DEF At
        <5>. QED
          BY <2>1, <5>1, <5>2 DEF SubscribesAt, At
      <4>. QED
        BY <2>1, <4>1, <4>2
    <3>. QED
      BY <2>1, <2>2, <3>1, <3>2
  <2>. QED
    BY <2>2 DEF SubscribeOnItsWay
<1>2. ASSUME NEW t \in Threads, Subscribe(t) PROVE SubscribeOnItsWay'
  <2>. DEFINE n == NodeOf[t]
  <2>1. /\ n \in Nodes
        /\ \A s \in Threads \ {t} : at'[s] = at[s] /\ toid'[s] = toid[s]
        /\ UNCHANGED <<connected, pubCtx, bound, linked, subs>>
    BY <1>2, EventLoopsAssumption
       DEF Subscribe, SendSubscribe, Goes, startVars, loginVars
  <2>. HIDE DEF n
  <2>2. CASE raced'
    BY <2>2 DEF SubscribeOnItsWay
  <2>3. CASE /\ ~(IsConnected(n) /\ linked[n])'
             /\ \A k \in Nodes : k # n => subCtx'[k] = subCtx[k]
             /\ UNCHANGED <<pending, raced>>
    <3>1. ASSUME NEW k \in Nodes, (IsConnected(k) /\ linked[k])', NEW u \in bound'[k],
                 ~raced
          PROVE  u \in subs'[k] \/ u \in Range(pending'[k]) \/ SubscribesAt(k, u)'
      <4>1. k # n /\ IsConnected(k) /\ linked[k] /\ u \in bound[k]
        BY <2>1, <2>3, <3>1 DEF IsConnected
      <4>2. u \in subs[k] \/ u \in Range(pending[k]) \/ SubscribesAt(k, u)
        BY <3>1, <4>1 DEF SubscribeOnItsWay
      <4>. QED
        BY <2>1, <2>3, <4>1, <4>2 DEF SubscribesAt, At, Range, n
    <3>. QED
      BY <2>3, <3>1 DEF SubscribeOnItsWay
  <2>4. CASE /\ pending' = [pending EXCEPT ![n] = Append(@, toid[t])]
             /\ UNCHANGED <<subCtx, raced>>
    <3>1. toid[t] \in Users
      BY <1>2, ForwardAssumption
         DEF Subscribe, At, ForwardInv, Types, ForwardTypeOK, HandlerTypeOK
    <3>2. /\ \A k \in Nodes : Range(pending[k]) \subseteq Range(pending'[k])
          /\ toid[t] \in Range(pending'[n])
      <4>1. ASSUME NEW q \in Seq(Users)
            PROVE  /\ Range(q) \subseteq Range(Append(q, toid[t]))
                   /\ toid[t] \in Range(Append(q, toid[t]))
        <5>1. /\ DOMAIN Append(q, toid[t]) = 1..Len(q) + 1
              /\ Append(q, toid[t])[Len(q) + 1] = toid[t]
              /\ \A i \in 1..Len(q) : Append(q, toid[t])[i] = q[i]
              /\ DOMAIN q = 1..Len(q) /\ Len(q) \in Nat
          BY <3>1
        <5>. QED
          BY <5>1 DEF Range
      <4>. QED
        BY <2>1, <2>4, <4>1
    <3>3. ASSUME NEW k \in Nodes, (IsConnected(k) /\ linked[k])', NEW u \in bound'[k],
                 ~raced
          PROVE  u \in subs'[k] \/ u \in Range(pending'[k]) \/ SubscribesAt(k, u)'
      <4>1. u \in subs[k] \/ u \in Range(pending[k]) \/ SubscribesAt(k, u)
        BY <2>1, <2>4, <3>3 DEF SubscribeOnItsWay, IsConnected
      <4>. QED
        BY <2>1, <3>2, <4>1 DEF SubscribesAt, At, n
    <3>. QED
      BY <2>4, <3>3 DEF SubscribeOnItsWay
  <2>5. CASE ~IsConnected(n) /\ UNCHANGED <<pending, subCtx, raced>>
    BY <2>1, <2>3, <2>5 DEF IsConnected
  <2>6. CASE /\ ~linked[n] /\ UNCHANGED <<pending, raced>>
             /\ UNCHANGED subCtx \/ subCtx' = [subCtx EXCEPT ![n] = "err"]
    BY <2>1, <2>3, <2>6
  <2>. QED
    BY <1>2, <2>2, <2>4, <2>5, <2>6 DEF Subscribe, SendSubscribe, n
<1>3. ASSUME NEW n \in Nodes, Redis(n) PROVE SubscribeOnItsWay'
  <2>1. UNCHANGED <<bound, at, toid>>
    BY <1>3 DEF Redis, handlerVars, loginVars
  <2>2. CASE ExecuteSubscribe(n)
    <3>1. /\ UNCHANGED <<connected, pubCtx, subCtx, linked, raced>>
          /\ pending[n] # <<>>
          /\ pending' = [pending EXCEPT ![n] = Tail(@)]
          /\ subs' = [subs EXCEPT ![n] = @ \cup {Head(pending[n])}]
      BY <2>2 DEF ExecuteSubscribe, startVars
    <3>2. \A q \in Seq(Users) : q # <<>> => Range(q) \subseteq {Head(q)} \cup Range(Tail(q))
      <4>1. ASSUME NEW q \in Seq(Users), q # <<>>, NEW i \in DOMAIN q
            PROVE  q[i] = Head(q) \/ \E j \in DOMAIN Tail(q) : q[i] = Tail(q)[j]
        <5>1. CASE i = 1
          BY <4>1, <5>1
        <5>2. CASE i # 1
          <6>1. i - 1 \in DOMAIN Tail(q) /\ Tail(q)[i - 1] = q[i]
            BY <4>1, <5>2
          <6>. QED
            BY <6>1
        <5>. QED
          BY <5>1, <5>2
      <4>. QED
        BY <4>1 DEF Range
    <3>3. \A k \in Nodes :
             subs[k] \cup Range(pending[k]) \subseteq subs'[k] \cup Range(pending'[k])
      BY <3>1, <3>2
    <3>. QED
      BY <1>0, <2>1, <3>1, <3>3, StaySubscribed DEF IsConnected
  <2>3. CASE LoseSubscriber(n)
    <3>1. /\ UNCHANGED <<connected, pubCtx, subCtx>> /\ ~linked'[n]
          /\ \A k \in Nodes : k # n => /\ pending'[k] = pending[k] /\ subs'[k] = subs[k]
                                       /\ linked'[k] = linked[k]
      BY <2>3 DEF LoseSubscriber, startVars
    <3>. QED
      BY <1>0, <2>1, <3>1, StaySubscribed DEF IsConnected
  <2>4. CASE ctor[n] # "done" /\ ~ExecuteSubscribe(n) /\ ~LoseSubscriber(n)
    <3>1. bound[n] = {}
      BY <2>4 DEF BoundAfterStart
    <3>2. /\ raced' = raced
          /\ \A k \in Nodes : k # n =>
                /\ connected'[k] = connected[k] /\ pubCtx'[k] = pubCtx[k]
                /\ subCtx'[k] = subCtx[k] /\ linked'[k] = linked[k]
                /\ pending'[k] = pending[k] /\ subs'[k] = subs[k]
      BY <1>3, <2>4
         DEF Redis, RedisStep, ConnectPublish, ConnectSubscribe,
             SetConnected, StartObserver, InitNotifyHandler, ObserverFails,
             ObserverQuits, startVars, channelVars
    <3>. QED
      <4>1. ASSUME NEW k \in Nodes, (IsConnected(k) /\ linked[k])',
                   NEW u \in bound'[k], ~raced
            PROVE  u \in subs'[k] \/ u \in Range(pending'[k]) \/ SubscribesAt(k, u)'
        <5>1. k # n /\ IsConnected(k) /\ linked[k] /\ u \in bound[k]
          BY <2>1, <3>1, <3>2, <4>1 DEF IsConnected
        <5>2. u \in subs[k] \/ u \in Range(pending[k]) \/ SubscribesAt(k, u)
          BY <4>1, <5>1 DEF SubscribeOnItsWay
        <5>. QED
          BY <2>1, <3>2, <5>1, <5>2 DEF SubscribesAt, At
      <4>. QED
        BY <3>2, <4>1 DEF SubscribeOnItsWay
  <2>5. CASE ctor[n] = "done" /\ ~ExecuteSubscribe(n) /\ ~LoseSubscriber(n)
    <3>1. /\ UNCHANGED channelVars
          /\ \A k \in Nodes : IsConnected(k)' => IsConnected(k)
      <4>1. ObserverFails(n) \/ ObserverQuits(n)
        BY <1>3, <2>5 DEF Redis, RedisStep, ConnectPublish,
                          ConnectSubscribe, SetConnected, StartObserver,
                          InitNotifyHandler, CtorGoes
      <4>2. CASE ObserverFails(n)
        BY <4>2 DEF ObserverFails, IsConnected, startVars
      <4>3. CASE ObserverQuits(n)
        BY <4>3 DEF ObserverQuits, IsConnected
      <4>. QED
        BY <4>1, <4>2, <4>3
    <3>. QED
      BY <1>0, <2>1, <3>1, StaySubscribed DEF channelVars
  <2>. QED
    BY <2>2, <2>3, <2>4, <2>5
<1>4. ASSUME NEW t \in Threads, NEW u \in Users, Chat(t, u)
      PROVE  SubscribeOnItsWay'
  <2>1. /\ UNCHANGED <<bound, connected, pubCtx, subCtx, channelVars>>
        /\ \A s \in Threads : at[s] = "subscribe" =>
              at'[s] = at[s] /\ toid'[s] = toid[s]
    BY <1>4 DEF Chat, Begins, At, redisVars, loginVars
  <2>. QED
    BY <1>0, <2>1, StaySubscribed DEF IsConnected, channelVars
<1>5. ASSUME NEW t \in Threads,
             \/ GenerateMessageId(t) \/ Insert(t) \/ LookupLocal(t) \/ QueryState(t)
             \/ PublishReturns(t) \/ Online(t)
             \/ QueryUnacked(t) \/ MarkUnacked(t) \/ Respond(t)
      PROVE  SubscribeOnItsWay'
  <2>1. UNCHANGED <<bound, connected, pubCtx, subCtx, channelVars>>
    BY <1>5 DEF GenerateMessageId, Insert, LookupLocal, QueryState, PublishReturns,
                TakeReply, Online, QueryUnacked, MarkUnacked, Respond, redisVars,
                loginVars, startVars
  <2>2. \A s \in Threads : at[s] = "subscribe" => at'[s] = at[s] /\ toid'[s] = toid[s]
    BY <1>5 DEF GenerateMessageId, Insert, LookupLocal, QueryState, PublishReturns,
                Online, QueryUnacked, MarkUnacked, Respond, Ends, Goes, At
  <2>. QED
    BY <1>0, <2>1, <2>2, StaySubscribed DEF IsConnected, channelVars
<1>6. ASSUME NEW t \in Threads, Publish(t) PROVE SubscribeOnItsWay'
  <2>1. UNCHANGED <<bound, connected, subCtx, channelVars>>
    BY <1>6 DEF Publish, SendPublish, redisVars, loginVars, startVars
  <2>2. pubCtx' = pubCtx \/ pubCtx' = [pubCtx EXCEPT ![NodeOf[t]] = "err"]
    BY <1>6 DEF Publish, SendPublish, Executed, LinkLost, Race, redisVars
  <2>3. \A s \in Threads : at[s] = "subscribe" => at'[s] = at[s] /\ toid'[s] = toid[s]
    BY <1>6 DEF Publish, Ends, Goes, At
  <2>. QED
    BY <1>0, <2>1, <2>2, <2>3, StaySubscribed DEF IsConnected, channelVars
<1>7. ASSUME NEW n \in Nodes, HandleRedisSubscribeMessage(n)
      PROVE  SubscribeOnItsWay'
  <2>1. UNCHANGED <<bound, connected, pubCtx, subCtx, channelVars, at, toid>>
    BY <1>7 DEF HandleRedisSubscribeMessage, NextFrame, startVars, handlerVars,
                loginVars
  <2>. QED
    BY <1>0, <2>1, StaySubscribed DEF IsConnected, channelVars
<1>8. CASE UNCHANGED forwardVars
  <2>1. UNCHANGED <<bound, connected, pubCtx, subCtx, channelVars, at, toid>>
    BY <1>8 DEF forwardVars, redisVars, handlerVars, loginVars
  <2>. QED
    BY <1>0, <2>1, StaySubscribed DEF IsConnected, channelVars
<1>. QED
  BY <1>1, <1>2, <1>3, <1>4, <1>5, <1>6, <1>7, <1>8 DEF ForwardNext

\* Until two threads meet in the subscribe context: a login that finds isConnected
\* false is not subscribed, and neither is one whose command Redis does not get;
\* but isConnected is never true again after it, nor is the connection.
THEOREM ConnectedSubscribes == ForwardSpec => []SubscribeOnItsWay
<1>. DEFINE Inv == BoundAfterStart /\ SubscribeOnItsWay
<1>1. ForwardInit => Inv /\ StartInv /\ StartTypeOK
  BY DEF ForwardInit, RedisInit, StartInv, StartTypeOK, At, BoundAfterStart,
         SubscribeOnItsWay
<1>2. StartInv /\ StartTypeOK /\ [ForwardNext]_forwardVars => StartInv' /\ StartTypeOK'
  BY StartStep
<1>3. Inv /\ ForwardInv /\ IdInv /\ StartInv /\ [ForwardNext]_forwardVars => Inv'
  BY SubscribedStep, BoundAfterStartStep DEF ForwardInv, Types
<1>. QED
  BY <1>1, <1>2, <1>3, ForwardAlways, IdsAreSound, PTL DEF ForwardSpec
=============================================================================
