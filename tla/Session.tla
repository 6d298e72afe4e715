------------------------------ MODULE Session ------------------------------
(***************************************************************************)
(* User sessions of the chat cluster: the handlers login, loginout and     *)
(* clientCloseException of chatservice.cpp, the Ctrl+C handler of main.cpp *)
(* and the loss and restart of a server process.                           *)
(*                                                                         *)
(* Every ChatServer process ("node") runs the callbacks of one connection  *)
(* in one event-loop thread, so the callbacks of a connection never        *)
(* overlap, and those of different connections interleave at every access  *)
(* to shared state: a statement sent to MySQL, a critical section of       *)
(* _connMutex, a command written to Redis.  Each such access is one action *)
(* and pc[c] is the place of c's thread between two of them.               *)
(*                                                                         *)
(* A login that is refused (wrong password, account already online, MySQL  *)
(* unreachable) changes nothing but the reply and is not a step.  Accounts *)
(* are the rows of the user table; registration is not part of this        *)
(* module.                                                                 *)
(***************************************************************************)
EXTENDS Naturals

CONSTANTS
    Users,      \* account ids, all registered
    Conns,      \* TcpConnections; each is accepted at most once
    Nodes,      \* ChatServer processes behind the Nginx upstream
    NodeOf,     \* the node Nginx hands a connection to
    Accounts,   \* the accounts whose id and password a connection's client
                \* can give
    None,       \* "no connection", "no account"
    Overlap,    \* may the handlers of two connections work on one account
                \* at the same time?
    Faults      \* what may go wrong: a subset of FaultKinds

FaultKinds == {"crash", "sigint", "redis", "mysql"}

ASSUME SessionAssumption ==
    /\ NodeOf \in [Conns -> Nodes]
    /\ Accounts \in [Conns -> SUBSET Users]
    /\ None \notin Users \cup Conns
    /\ Overlap \in BOOLEAN
    /\ Faults \subseteq FaultKinds

VARIABLES
    userState,    \* column state of the MySQL table user
    userConnMap,  \* ChatService::_userConnMap of every node
    subscribed,   \* channels a node has asked Redis for
    redisUp,      \* Redis::isConnected() of every node
    proc,         \* "up", "exiting" (in resetHandler) or "down"
    link,         \* "new", "open", "hup" (the peer has closed), "closing"
                  \* (in clientCloseException) or "closed"
    pc,           \* next step of the handler running for a connection
    acct,         \* local variable of that handler: the account it is about
    session       \* the account the client at the other end is logged in to

sessionVars == <<userState, userConnMap, subscribed, redisUp, proc, link, pc,
                 acct, session>>

LoginSteps  == {"bind", "subscribe", "online", "reply"}
ReleaseSteps == {"unsubscribe", "offline"}
Steps == {"idle", "erase"} \cup LoginSteps \cup ReleaseSteps

SessionTypeOK ==
    /\ userState \in [Users -> {"online", "offline"}]
    /\ userConnMap \in [Nodes -> [Users -> Conns \cup {None}]]
    /\ subscribed \in [Nodes -> SUBSET Users]
    /\ redisUp \in [Nodes -> BOOLEAN]
    /\ proc \in [Nodes -> {"up", "exiting", "down"}]
    /\ link \in [Conns -> {"new", "open", "hup", "closing", "closed"}]
    /\ pc \in [Conns -> Steps]
    /\ acct \in [Conns -> Users \cup {None}]
    /\ session \in [Conns -> Users \cup {None}]

SessionInit ==
    /\ userState = [u \in Users |-> "offline"]
    /\ userConnMap = [n \in Nodes |-> [u \in Users |-> None]]
    /\ subscribed = [n \in Nodes |-> {}]
    /\ redisUp \in [Nodes -> IF "redis" \in Faults THEN BOOLEAN ELSE {TRUE}]
    /\ proc = [n \in Nodes |-> "up"]
    /\ link = [c \in Conns |-> "new"]
    /\ pc = [c \in Conns |-> "idle"]
    /\ acct = [c \in Conns |-> None]
    /\ session = [c \in Conns |-> None]

-----------------------------------------------------------------------------
Bound(c, u) == userConnMap[NodeOf[c]][u] = c

\* c's event loop can run the next callback or the next step of one.
Running(c) == proc[NodeOf[c]] # "down"

\* A frame the client has sent is being dispatched on c.
Serving(c) == Running(c) /\ link[c] = "open" /\ pc[c] = "idle"

\* Some connection's handler is in the middle of its work on account u.
Busy(u) == \E c \in Conns : pc[c] # "idle" /\ acct[c] = u

At(c, step) == Running(c) /\ pc[c] = step

Goto(c, step) == pc' = [pc EXCEPT ![c] = step]

\* UserModel::updateState: one UPDATE on a fresh MySQL connection, whose
\* failure the callers ignore.
UpdateState(u, state) ==
    \/ userState' = [userState EXCEPT ![u] = state]
    \/ "mysql" \in Faults /\ UNCHANGED userState

-----------------------------------------------------------------------------
Connect(c) ==
    /\ link[c] = "new"
    /\ proc[NodeOf[c]] = "up"
    /\ link' = [link EXCEPT ![c] = "open"]
    /\ UNCHANGED <<userState, userConnMap, subscribed, redisUp, proc, pc,
                   acct, session>>

\* The client closes its socket or dies; the server has not noticed yet.
PeerClose(c) ==
    /\ link[c] = "open"
    /\ link' = [link EXCEPT ![c] = "hup"]
    /\ UNCHANGED <<userState, userConnMap, subscribed, redisUp, proc, pc,
                   acct, session>>

-----------------------------------------------------------------------------
\* Variant of the query: the state column is not looked at.
LoginQueryAnyState(c, u) ==
    /\ Serving(c)
    /\ session[c] = None
    /\ u \in Accounts[c]
    /\ Overlap \/ ~Busy(u)
    /\ acct' = [acct EXCEPT ![c] = u]
    /\ Goto(c, "bind")
    /\ UNCHANGED <<userState, userConnMap, subscribed, redisUp, proc, link,
                   session>>

\* login, one action for each access to shared state.  The client offers
\* login only from its outer menu, that is when it is not logged in.
LoginQuery(c, u) ==
    /\ Serving(c)
    /\ session[c] = None
    /\ u \in Accounts[c]
    /\ Overlap \/ ~Busy(u)
    /\ userState[u] = "offline"
    /\ acct' = [acct EXCEPT ![c] = u]
    /\ Goto(c, "bind")
    /\ UNCHANGED <<userState, userConnMap, subscribed, redisUp, proc, link,
                   session>>

\* Variant: the id does not survive the critical section.
LoginBindLosesId(c) ==
    /\ At(c, "bind")
    /\ userConnMap' = [userConnMap EXCEPT ![NodeOf[c]][acct[c]] = c]
    /\ acct' = [acct EXCEPT ![c] = None]
    /\ Goto(c, "subscribe")
    /\ UNCHANGED <<userState, subscribed, redisUp, proc, link, session>>

LoginBind(c) ==
    /\ At(c, "bind")
    /\ userConnMap' = [userConnMap EXCEPT ![NodeOf[c]][acct[c]] = c]
    /\ Goto(c, "subscribe")
    /\ UNCHANGED <<userState, subscribed, redisUp, proc, link, acct, session>>

\* Variant: nobody subscribes the channel.
LoginSubscribeSkipped(c) ==
    /\ At(c, "subscribe")
    /\ Goto(c, "online")
    /\ UNCHANGED <<userState, userConnMap, subscribed, redisUp, proc, link,
                   acct, session>>

LoginSubscribe(c) ==
    /\ At(c, "subscribe")
    /\ subscribed' = IF redisUp[NodeOf[c]]
                     THEN [subscribed EXCEPT ![NodeOf[c]] = @ \cup {acct[c]}]
                     ELSE subscribed
    /\ Goto(c, "online")
    /\ UNCHANGED <<userState, userConnMap, redisUp, proc, link, acct, session>>

\* Variant: user.setState("online") is forgotten.
LoginOnlineStale(c) ==
    /\ At(c, "online")
    /\ UpdateState(acct[c], "offline")
    /\ Goto(c, "reply")
    /\ UNCHANGED <<userConnMap, subscribed, redisUp, proc, link, acct, session>>

LoginOnline(c) ==
    /\ At(c, "online")
    /\ UpdateState(acct[c], "online")
    /\ Goto(c, "reply")
    /\ UNCHANGED <<userConnMap, subscribed, redisUp, proc, link, acct, session>>

LoginReply(c) ==
    /\ At(c, "reply")
    /\ session' = [session EXCEPT ![c] = acct[c]]
    /\ acct' = [acct EXCEPT ![c] = None]
    /\ Goto(c, "idle")
    /\ UNCHANGED <<userState, userConnMap, subscribed, redisUp, proc, link>>

-----------------------------------------------------------------------------
\* loginout.  The client leaves its main menu as soon as the request is sent;
\* the server ignores it unless the connection is bound to the account, and
\* checks that in a critical section of its own.
LoginOutCheck(c) ==
    /\ Serving(c)
    /\ session[c] # None
    /\ session' = [session EXCEPT ![c] = None]
    /\ IF Bound(c, session[c])
       THEN /\ acct' = [acct EXCEPT ![c] = session[c]]
            /\ Goto(c, "erase")
       ELSE UNCHANGED <<acct, pc>>
    /\ UNCHANGED <<userState, userConnMap, subscribed, redisUp, proc, link>>

\* Variant: the binding stays.
LoginOutEraseNothing(c) ==
    /\ At(c, "erase")
    /\ Goto(c, "unsubscribe")
    /\ UNCHANGED <<userState, userConnMap, subscribed, redisUp, proc, link,
                   acct, session>>

LoginOutErase(c) ==
    /\ At(c, "erase")
    /\ userConnMap' = [userConnMap EXCEPT ![NodeOf[c]][acct[c]] = None]
    /\ Goto(c, "unsubscribe")
    /\ UNCHANGED <<userState, subscribed, redisUp, proc, link, acct, session>>

\* Variants of clientCloseException: it runs in the middle of another handler
\* of the connection, or does nothing but remove the binding.
CloseEraseAnytime(c) ==
    /\ Running(c) /\ link[c] = "hup"
    /\ session' = [session EXCEPT ![c] = None]
    /\ link' = [link EXCEPT ![c] = "closed"]
    /\ userConnMap' = [userConnMap EXCEPT ![NodeOf[c]] =
                         [u \in Users |-> IF @[u] = c THEN None ELSE @[u]]]
    /\ UNCHANGED <<userState, subscribed, redisUp, proc, pc, acct>>

CloseEraseOnly(c) ==
    /\ Running(c) /\ link[c] = "hup" /\ pc[c] = "idle"
    /\ session' = [session EXCEPT ![c] = None]
    /\ link' = [link EXCEPT ![c] = "closed"]
    /\ userConnMap' = [userConnMap EXCEPT ![NodeOf[c]] =
                         [u \in Users |-> IF @[u] = c THEN None ELSE @[u]]]
    /\ UNCHANGED <<userState, subscribed, redisUp, proc, pc, acct>>

\* clientCloseException, once the event loop sees the hang-up: the critical
\* section removes the first entry it finds for this connection.
ReleaseAccount(c, u) ==
    /\ Bound(c, u)
    /\ userConnMap' = [userConnMap EXCEPT ![NodeOf[c]][u] = None]
    /\ acct' = [acct EXCEPT ![c] = u]
    /\ Goto(c, "unsubscribe")
    /\ link' = [link EXCEPT ![c] = "closing"]

NothingToRelease(c) ==
    /\ \A u \in Users : ~Bound(c, u)
    /\ link' = [link EXCEPT ![c] = "closed"]
    /\ UNCHANGED <<userConnMap, acct, pc>>

CloseErase(c) ==
    /\ Running(c) /\ link[c] = "hup" /\ pc[c] = "idle"
    /\ session' = [session EXCEPT ![c] = None]
    /\ (\E u \in Users : ReleaseAccount(c, u)) \/ NothingToRelease(c)
    /\ UNCHANGED <<userState, subscribed, redisUp, proc>>

\* Variant: the channel stays subscribed.
UnsubscribeSkipped(c) ==
    /\ At(c, "unsubscribe")
    /\ Goto(c, "offline")
    /\ UNCHANGED <<userState, userConnMap, subscribed, redisUp, proc, link,
                   acct, session>>

\* The common end of loginout and clientCloseException.
Unsubscribe(c) ==
    /\ At(c, "unsubscribe")
    /\ subscribed' = IF redisUp[NodeOf[c]]
                     THEN [subscribed EXCEPT ![NodeOf[c]] = @ \ {acct[c]}]
                     ELSE subscribed
    /\ Goto(c, "offline")
    /\ UNCHANGED <<userState, userConnMap, redisUp, proc, link, acct, session>>

\* Variants: the row stays online; the connection is never given up.
OfflineUnwritten(c) ==
    /\ At(c, "offline")
    /\ acct' = [acct EXCEPT ![c] = None]
    /\ Goto(c, "idle")
    /\ link' = IF link[c] = "closing" THEN [link EXCEPT ![c] = "closed"] ELSE link
    /\ UNCHANGED <<userState, userConnMap, subscribed, redisUp, proc, session>>

OfflineKeepsConnection(c) ==
    /\ At(c, "offline")
    /\ UpdateState(acct[c], "offline")
    /\ acct' = [acct EXCEPT ![c] = None]
    /\ Goto(c, "idle")
    /\ UNCHANGED <<userConnMap, subscribed, redisUp, proc, link, session>>

Offline(c) ==
    /\ At(c, "offline")
    /\ UpdateState(acct[c], "offline")
    /\ acct' = [acct EXCEPT ![c] = None]
    /\ Goto(c, "idle")
    /\ link' = IF link[c] = "closing" THEN [link EXCEPT ![c] = "closed"] ELSE link
    /\ UNCHANGED <<userConnMap, subscribed, redisUp, proc, session>>

-----------------------------------------------------------------------------
\* The process of node n ends: its memory and its sockets are gone, the rows
\* of MySQL stay as they are.
StopNode(n) ==
    /\ proc' = [proc EXCEPT ![n] = "down"]
    /\ userConnMap' = [userConnMap EXCEPT ![n] = [u \in Users |-> None]]
    /\ subscribed' = [subscribed EXCEPT ![n] = {}]
    /\ link' = [c \in Conns |-> IF NodeOf[c] = n /\ link[c] # "new"
                                THEN "closed" ELSE link[c]]
    /\ pc' = [c \in Conns |-> IF NodeOf[c] = n THEN "idle" ELSE pc[c]]
    /\ acct' = [c \in Conns |-> IF NodeOf[c] = n THEN None ELSE acct[c]]
    /\ session' = [c \in Conns |-> IF NodeOf[c] = n THEN None ELSE session[c]]

Crash(n) ==
    /\ "crash" \in Faults
    /\ proc[n] # "down"
    /\ StopNode(n)
    /\ UNCHANGED <<userState, redisUp>>

\* resetHandler: ChatService::reset, then exit(0).  The main thread, which
\* accepts connections, is the one in the signal handler; the event loops go
\* on until the process is gone.
Interrupt(n) ==
    /\ "sigint" \in Faults
    /\ proc[n] = "up"
    /\ proc' = [proc EXCEPT ![n] = "exiting"]
    /\ \/ userState' = [u \in Users |-> "offline"]
       \/ "mysql" \in Faults /\ UNCHANGED userState
    /\ UNCHANGED <<userConnMap, subscribed, redisUp, link, pc, acct, session>>

Exit(n) ==
    /\ proc[n] = "exiting"
    /\ StopNode(n)
    /\ UNCHANGED <<userState, redisUp>>

\* The process is started again; ChatService's constructor tries Redis once.
Restart(n) ==
    /\ proc[n] = "down"
    /\ proc' = [proc EXCEPT ![n] = "up"]
    /\ \E up \in IF "redis" \in Faults THEN BOOLEAN ELSE {TRUE} :
         redisUp' = [redisUp EXCEPT ![n] = up]
    /\ UNCHANGED <<userState, userConnMap, subscribed, link, pc, acct, session>>

\* A link to Redis breaks and isConnected is false from then on, as nothing
\* ever connects again.  If it is the one observer_channel_message reads, the
\* subscriptions are gone; if it is the one publish writes to, they stay.
RedisLost(n) ==
    /\ "redis" \in Faults
    /\ proc[n] # "down"
    /\ redisUp[n] \/ subscribed[n] # {}
    /\ redisUp' = [redisUp EXCEPT ![n] = FALSE]
    /\ \/ subscribed' = [subscribed EXCEPT ![n] = {}]
       \/ redisUp[n] /\ UNCHANGED subscribed
    /\ UNCHANGED <<userState, userConnMap, proc, link, pc, acct, session>>

-----------------------------------------------------------------------------
\* The steps a thread of the server takes by itself.
Handler(c) ==
    \/ LoginBind(c) \/ LoginSubscribe(c) \/ LoginOnline(c) \/ LoginReply(c)
    \/ LoginOutErase(c) \/ CloseErase(c) \/ Unsubscribe(c) \/ Offline(c)

Client(c) ==
    \/ Connect(c) \/ PeerClose(c) \/ LoginOutCheck(c)
    \/ \E u \in Users : LoginQuery(c, u)

Environment(n) ==
    Crash(n) \/ Interrupt(n) \/ Exit(n) \/ Restart(n) \/ RedisLost(n)

SessionNext ==
    \/ \E c \in Conns : Handler(c) \/ Client(c)
    \/ \E n \in Nodes : Environment(n)

SessionSpec == SessionInit /\ [][SessionNext]_sessionVars

\* Threads are scheduled, calls to MySQL and Redis return and the kernel
\* reports a hang-up; nothing is assumed of clients or of faults.
SessionFairSpec == SessionSpec /\ \A c \in Conns : WF_sessionVars(Handler(c))

-----------------------------------------------------------------------------
(***************************************************************************)
(* What must hold whatever the clients' timing and whatever fails.         *)
(***************************************************************************)

\* A connection is bound to at most one account.  clientCloseException stops
\* at the first entry it finds, so a second one would outlive its connection.
OneAccountPerConnection ==
    \A c \in Conns, u, v \in Users : Bound(c, u) /\ Bound(c, v) => u = v

\* _userConnMap never holds a connection of another node or one whose close
\* callback is over: a message sent there would be lost and the entry would
\* never be removed.
NoDeadBinding ==
    \A n \in Nodes, u \in Users :
        LET c == userConnMap[n][u]
        IN c # None => NodeOf[c] = n /\ link[c] \in {"open", "hup"}

-----------------------------------------------------------------------------
(***************************************************************************)
(* What holds as long as two handlers never work on one account at once    *)
(* (~Overlap) and Faults leaves the user table alone.                      *)
(***************************************************************************)

\* c is bound to u, or its handler is about to bind or to release u.
Holds(c, u) == Bound(c, u) \/ (pc[c] # "idle" /\ acct[c] = u)

\* An account is in the hands of at most one connection of the whole cluster:
\* the online check of login is the only thing that keeps the nodes apart.
ExclusiveAccount ==
    \A u \in Users, c, d \in Conns : Holds(c, u) /\ Holds(d, u) => c = d

\* Between two requests, an account with a bound connection is online in the
\* user table and its channel is subscribed by its node while Redis is up, so
\* that the other nodes can reach it.
BoundIsReachable ==
    \A c \in Conns, u \in Users :
        Bound(c, u) /\ pc[c] = "idle" =>
            /\ userState[u] = "online"
            /\ redisUp[NodeOf[c]] => u \in subscribed[NodeOf[c]]

\* login refuses an account as being in use (errno 2) only while a connection
\* really has it: no account stays online with nobody there to log it out.
AccountInUse ==
    \A u \in Users : userState[u] = "online" => \E c \in Conns : Holds(c, u)

\* While isConnected is true, a node is subscribed to the channel of an account
\* only as long as one of its connections has that account: no message is
\* forwarded to a node that the user has left.
NoLeakedSubscription ==
    \A n \in Nodes : redisUp[n] =>
        \A u \in subscribed[n] : \E c \in Conns : NodeOf[c] = n /\ Holds(c, u)

\* When the client of a logged-in account is gone, the account becomes free
\* again: clientCloseException ends with the account offline.
DroppedClientFreesAccount ==
    \A u \in Users :
        (\E c \in Conns : Bound(c, u) /\ link[c] = "hup")
            ~> (userState[u] = "offline")

-----------------------------------------------------------------------------
(***************************************************************************)
(* The inductive strengthenings of the first two groups.                   *)
(***************************************************************************)
BindingFollowsHandler ==
    \A c \in Conns, u \in Users :
        Bound(c, u) =>
            /\ link[c] \in {"open", "hup"}
            /\ \/ pc[c] = "idle" /\ session[c] = u
               \/ pc[c] \in {"subscribe", "online", "reply", "erase"} /\ acct[c] = u

MapIsLocal ==
    \A n \in Nodes, u \in Users :
        userConnMap[n][u] # None => NodeOf[userConnMap[n][u]] = n

HandlerHasConnection ==
    \A c \in Conns :
        /\ pc[c] # "idle" => acct[c] \in Users
        /\ pc[c] \notin {"idle"} \cup ReleaseSteps => link[c] \in {"open", "hup"}
        /\ link[c] \in {"new", "closed"} => pc[c] = "idle"
        /\ link[c] = "closing" => pc[c] \in ReleaseSteps

DownIsEmpty ==
    \A c \in Conns : proc[NodeOf[c]] = "down" => link[c] \in {"new", "closed"}

BindingInv ==
    /\ SessionTypeOK
    /\ BindingFollowsHandler
    /\ MapIsLocal
    /\ HandlerHasConnection
    /\ DownIsEmpty

\* Where a handler stands decides what the map and the table say of its
\* account.
HandlerAgrees ==
    \A c \in Conns :
        /\ pc[c] = "bind" => userState[acct[c]] = "offline"
        /\ pc[c] \in {"subscribe", "online", "reply", "erase"} => Bound(c, acct[c])
        /\ pc[c] \in {"reply", "erase"} => userState[acct[c]] = "online"
        /\ pc[c] \in {"online", "reply", "erase"} /\ redisUp[NodeOf[c]]
               => acct[c] \in subscribed[NodeOf[c]]

SerialInv ==
    BindingInv /\ HandlerAgrees /\ ExclusiveAccount /\ BoundIsReachable
=============================================================================
