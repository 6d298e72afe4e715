---------------------------- MODULE RedisContext ----------------------------
(***************************************************************************)
(* Class Redis of redis.cpp in every process, and as much of hiredis and   *)
(* of the Redis server as it relies on.                                    *)
(*                                                                         *)
(* connect runs inside the constructor of the ChatService singleton, so    *)
(* the first handler of a process runs it and the others wait for its end. *)
(* Afterwards the event-loop threads send PUBLISH and wait for the reply   *)
(* over one context, and send SUBSCRIBE over another, which the observer   *)
(* thread reads all the time; neither is locked.  Two threads at work in   *)
(* one context are a data race.  Its outcomes here: a command or a reply   *)
(* is lost, what goes out is torn, the connection breaks.  That it brings  *)
(* the process down is a crash, which modules Session and Delivery have.   *)
(***************************************************************************)
EXTENDS EventLoops, Naturals, Sequences

CONSTANTS
    Users,          \* account ids, the names of the channels
    Messages,       \* the payloads that are published
    Torn,           \* a payload that is none of them
    RedisFaults     \* what may go wrong: a subset of {"link", "race"}

ASSUME RedisAssumption ==
    /\ Torn \notin Messages
    /\ RedisFaults \subseteq {"link", "race"}

VARIABLES
    ctor,       \* next step of ChatService's constructor, or "done"
    connected,  \* _connected
    pubCtx,     \* _publish_context: "null", "ok", or "err" if err is set
    subCtx,     \* _subscribe_context
    handlerSet, \* is _notify_message_handler set?
    observer,   \* "none", "reading", "out" (of its loop) or "gone"
    linked,     \* is the connection of the subscribe context up on Redis's side?
    pending,    \* SUBSCRIBE commands on that connection, not yet executed
    subs,       \* channels Redis has subscribed a process to
    inbox,      \* frames [to, msg] from Redis to the observer of a process
    replies,    \* replies to PUBLISH that nobody has taken yet
    raced       \* history: has there been a data race?

channelVars == <<linked, pending, subs>>
redisVars == <<ctor, connected, pubCtx, subCtx, handlerSet, observer,
               channelVars, inbox, replies, raced>>
startVars == <<ctor, connected, handlerSet>>

RedisInit ==
    /\ ctor = [n \in Nodes |-> "publish"]
    /\ connected = [n \in Nodes |-> FALSE]
    /\ pubCtx = [n \in Nodes |-> "null"]
    /\ subCtx = [n \in Nodes |-> "null"]
    /\ handlerSet = [n \in Nodes |-> FALSE]
    /\ observer = [n \in Nodes |-> "none"]
    /\ linked = [n \in Nodes |-> FALSE]
    /\ pending = [n \in Nodes |-> <<>>]
    /\ subs = [n \in Nodes |-> {}]
    /\ inbox = [n \in Nodes |-> <<>>]
    /\ replies = [n \in Nodes |-> 0]
    /\ raced = FALSE

-----------------------------------------------------------------------------
(* The constructor *)

CtorGoes(n, from, to) == ctor[n] = from /\ ctor' = [ctor EXCEPT ![n] = to]

\* connectContext and configureContext; a context that fails is freed, and the
\* publish context with it.
ConnectPublish(n) ==
    /\ \/ CtorGoes(n, "publish", "subscribe") /\ pubCtx' = [pubCtx EXCEPT ![n] = "ok"]
       \/ "link" \in RedisFaults /\ CtorGoes(n, "publish", "done") /\ UNCHANGED pubCtx
    /\ UNCHANGED <<connected, subCtx, handlerSet, observer, channelVars, inbox,
                   replies, raced>>

ConnectSubscribe(n) ==
    /\ \/ /\ CtorGoes(n, "subscribe", "connected")
          /\ subCtx' = [subCtx EXCEPT ![n] = "ok"]
          /\ linked' = [linked EXCEPT ![n] = TRUE]
          /\ UNCHANGED pubCtx
       \/ /\ "link" \in RedisFaults /\ CtorGoes(n, "subscribe", "done")
          /\ pubCtx' = [pubCtx EXCEPT ![n] = "null"]
          /\ UNCHANGED <<subCtx, linked>>
    /\ UNCHANGED <<connected, handlerSet, observer, pending, subs, inbox, replies,
                   raced>>

SetConnected(n) ==
    /\ CtorGoes(n, "connected", "observer")
    /\ connected' = [connected EXCEPT ![n] = TRUE]
    /\ UNCHANGED <<pubCtx, subCtx, handlerSet, observer, channelVars, inbox,
                   replies, raced>>

StartObserver(n) ==
    /\ CtorGoes(n, "observer", "handler")
    /\ observer' = [observer EXCEPT ![n] = "reading"]
    /\ UNCHANGED <<connected, pubCtx, subCtx, handlerSet, channelVars, inbox,
                   replies, raced>>

InitNotifyHandler(n) ==
    /\ CtorGoes(n, "handler", "done")
    /\ handlerSet' = [handlerSet EXCEPT ![n] = TRUE]
    /\ UNCHANGED <<connected, pubCtx, subCtx, observer, channelVars, inbox,
                   replies, raced>>

\* Variant: instance() gives out a service under construction.
ConstructedSoFar(n) == ctor[n] # "publish"

\* instance() returns.
Constructed(n) == ctor[n] = "done"

IsConnected(n) == connected[n] /\ pubCtx[n] = "ok" /\ subCtx[n] = "ok"

-----------------------------------------------------------------------------
(* Commands.  busy: is another thread at work in the publish context?      *)

RedisForwards(u, msg) ==
    inbox' = [k \in Nodes |-> IF u \in subs[k]
                              THEN Append(inbox[k], [to |-> u, msg |-> msg])
                              ELSE inbox[k]]

Reply(n) == replies' = [replies EXCEPT ![n] = @ + 1]

Executed(n, u, msg) == RedisForwards(u, msg) /\ Reply(n) /\ UNCHANGED <<pubCtx, raced>>

\* The link breaks before or after Redis has the command.
LinkLost(n, u, msg) ==
    /\ "link" \in RedisFaults
    /\ pubCtx' = [pubCtx EXCEPT ![n] = "err"]
    /\ RedisForwards(u, msg) \/ UNCHANGED inbox
    /\ UNCHANGED <<replies, raced>>

\* The two commands meet in the output buffer, or the two reads in the input.
Race(n) ==
    /\ "race" \in RedisFaults
    /\ raced' = TRUE
    /\ \/ UNCHANGED <<inbox, replies, pubCtx>>
       \/ \E v \in Users : RedisForwards(v, Torn) /\ Reply(n) /\ UNCHANGED pubCtx
       \/ pubCtx' = [pubCtx EXCEPT ![n] = "err"] /\ UNCHANGED <<inbox, replies>>

SendPublish(n, u, msg, busy) ==
    /\ \/ Executed(n, u, msg)
       \/ LinkLost(n, u, msg)
       \/ busy /\ Race(n)
    /\ UNCHANGED <<startVars, subCtx, observer, channelVars>>

\* redisCommand returns: with a reply, which is the next one and not the
\* thread's own, or with none.
TakeReply(n) ==
    /\ \/ pubCtx[n] = "err" /\ UNCHANGED replies
       \/ replies[n] > 0 /\ replies' = [replies EXCEPT ![n] = @ - 1]
    /\ UNCHANGED <<startVars, pubCtx, subCtx, observer, channelVars, inbox, raced>>

\* isConnected, then sendSubscribeCommand: the command is on its way, and nobody
\* waits for Redis to execute it.  On a connection that Redis has lost the write
\* goes nowhere, with an error or without.
SendSubscribe(n, u) ==
    /\ \/ ~IsConnected(n) /\ UNCHANGED <<pending, subCtx, raced>>
       \/ /\ IsConnected(n) /\ linked[n]
          /\ pending' = [pending EXCEPT ![n] = Append(@, u)]
          /\ UNCHANGED <<subCtx, raced>>
       \/ /\ IsConnected(n) /\ ~linked[n]
          /\ UNCHANGED subCtx \/ subCtx' = [subCtx EXCEPT ![n] = "err"]
          /\ UNCHANGED <<pending, raced>>
       \/ /\ IsConnected(n) /\ "race" \in RedisFaults /\ raced' = TRUE
          /\ UNCHANGED subCtx \/ subCtx' = [subCtx EXCEPT ![n] = "err"]
          /\ UNCHANGED pending
    /\ UNCHANGED <<startVars, pubCtx, observer, linked, subs, inbox, replies>>

\* Redis executes the next SUBSCRIBE of a process.
ExecuteSubscribe(n) ==
    /\ pending[n] # <<>>
    /\ subs' = [subs EXCEPT ![n] = @ \cup {Head(pending[n])}]
    /\ pending' = [pending EXCEPT ![n] = Tail(@)]
    /\ UNCHANGED <<startVars, pubCtx, subCtx, observer, linked, inbox, replies, raced>>

\* The connection breaks: Redis forgets the process, and what was on the way to
\* Redis is lost.  The process will find out.
LoseSubscriber(n) ==
    /\ "link" \in RedisFaults /\ linked[n]
    /\ linked' = [linked EXCEPT ![n] = FALSE]
    /\ pending' = [pending EXCEPT ![n] = <<>>]
    /\ subs' = [subs EXCEPT ![n] = {}]
    /\ UNCHANGED <<startVars, pubCtx, subCtx, observer, inbox, replies, raced>>

-----------------------------------------------------------------------------
(* observer_channel_message *)

\* The next reply; messages meet a handler that is set or are dropped.
NextFrame(n) ==
    /\ observer[n] = "reading" /\ inbox[n] # <<>>
    /\ inbox' = [inbox EXCEPT ![n] = Tail(@)]
    /\ UNCHANGED <<startVars, pubCtx, subCtx, observer, channelVars, replies, raced>>

\* redisGetReply fails, on a connection that is lost or an error that is set.
ObserverFails(n) ==
    /\ observer[n] = "reading"
    /\ subCtx[n] = "err" \/ ~linked[n]
    /\ subCtx' = [subCtx EXCEPT ![n] = "err"]
    /\ observer' = [observer EXCEPT ![n] = "out"]
    /\ inbox' = [inbox EXCEPT ![n] = <<>>]
    /\ UNCHANGED <<startVars, pubCtx, channelVars, replies, raced>>

ObserverQuits(n) ==
    /\ observer[n] = "out"
    /\ observer' = [observer EXCEPT ![n] = "gone"]
    /\ connected' = [connected EXCEPT ![n] = FALSE]
    /\ UNCHANGED <<ctor, pubCtx, subCtx, handlerSet, channelVars, inbox, replies,
                   raced>>

\* The steps of the constructor, of Redis and of the observer that leave accounts
\* and messages alone.
RedisStep(n) ==
    \/ ConnectPublish(n) \/ ConnectSubscribe(n) \/ SetConnected(n)
    \/ StartObserver(n) \/ InitNotifyHandler(n)
    \/ ExecuteSubscribe(n) \/ LoseSubscriber(n)
    \/ ObserverFails(n) \/ ObserverQuits(n)

-----------------------------------------------------------------------------
RedisTypeOK ==
    /\ ctor \in [Nodes -> {"publish", "subscribe", "connected", "observer",
                           "handler", "done"}]
    /\ connected \in [Nodes -> BOOLEAN] /\ handlerSet \in [Nodes -> BOOLEAN]
    /\ pubCtx \in [Nodes -> {"null", "ok", "err"}]
    /\ subCtx \in [Nodes -> {"null", "ok", "err"}]
    /\ observer \in [Nodes -> {"none", "reading", "out", "gone"}]
    /\ linked \in [Nodes -> BOOLEAN]
    /\ pending \in [Nodes -> Seq(Users)]
    /\ subs \in [Nodes -> SUBSET Users]
    /\ inbox \in [Nodes -> Seq([to : Users, msg : Messages \cup {Torn}])]
    /\ replies \in [Nodes -> Nat]
    /\ raced \in BOOLEAN

\* The observer thread runs before the handler it calls is set, and nothing
\* but the order of things keeps the two apart: a message is on its way to a
\* process only when the handler is there, so none is dropped and no thread
\* calls the handler while another sets it.
HandlerIsSet == \A n \in Nodes : inbox[n] # <<>> => handlerSet[n]
=============================================================================
