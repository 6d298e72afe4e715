------------------------------ MODULE Client ------------------------------
(***************************************************************************)
(* The command-line client of main.cpp at one end of a connection: the     *)
(* main thread that follows the user, the thread that reads the server's   *)
(* frames and the one that sends heartbeats.  They share the globals       *)
(* rwsem, g_isLoginSuccess, isMainMenuRunning and g_currentUser, and write *)
(* to the socket through module Wire.  The lists of friends and groups,    *)
(* which only the menu shows, are left out.                                *)
(*                                                                         *)
(* The other end is what the client sees of a ChatServer: it serves the    *)
(* lines of the connection in order and answers each request; modules      *)
(* Session and Delivery have its insides.  Nginx stands between and cuts   *)
(* a connection that has been silent for proxy_timeout.  The frames of the *)
(* server arrive whole: the reader's loop cuts them out of its recvBuffer  *)
(* as onMessage does (module Wire).                                        *)
(***************************************************************************)
EXTENDS Wire

CONSTANTS
    Users,      \* account ids
    MaxInputs,  \* bound on what the user does
    MaxChats    \* bound on the messages others send

\* Variant: the thread sleeps a minute.
HeartbeatEveryMinute == 4

\* Clock ticks of 15 seconds: sleep_for(30 s) and proxy_timeout 60 s.
HeartbeatPeriod == 2
ProxyTimeout == 4

VARIABLES
    mainAt,             \* where the main thread is: "menu" (login menu),
                        \* "login" and "reg" (in or before sem_wait),
                        \* "chat" (mainMenu), "command", "loginout"
    asked,              \* local variable id of the last login request
    rwsem,              \* value of the semaphore
    isMainMenuRunning,
    isLoginSuccess,     \* g_isLoginSuccess
    currentUser,        \* id of g_currentUser, None for -1
    readerAt,           \* "recv", "write" (doLoginResponse), "unread",
                        \* "post" or "ack"
    frame,              \* the frame the reader is handling
    heartbeatAt,        \* "sleep", "beat" or "sent"
    alive               \* has the client process not exited?

clientVars == <<mainAt, asked, rwsem, isMainMenuRunning, isLoginSuccess,
                currentUser, readerAt, frame, heartbeatAt, alive>>

mainVars == <<mainAt, asked, isMainMenuRunning>>
readerVars == <<readerAt, frame, currentUser>>

VARIABLES
    answer,     \* the answer of the handler that is running, or None
    binding,    \* the account the server has the connection bound to
    replies,    \* frames of the server not yet read by the client
    sleeping,   \* ticks the heartbeat thread still sleeps
    idle,       \* ticks since anything passed through Nginx
    inputs,     \* number of user inputs so far
    chats       \* number of messages others have sent

serverVars == <<answer, binding, replies>>
clockVars == <<sleeping, idle>>
boundVars == <<inputs, chats>>

vars == <<wireVars, clientVars, serverVars, clockVars, boundVars>>

Requests == {"login", "reg"}
Frames == [type : Requests \cup {"loginout", "command", "ack", "heartbeat"},
           user : Users \cup {None}]
Replies == [type : {"login_ok", "login_error", "reg_ack", "chat", "heartbeat"},
            user : Users \cup {None}, unread : BOOLEAN]

Reply(type) == [type |-> type, user |-> None, unread |-> FALSE]

ASSUME ClientAssumption ==
    /\ Threads = {"main", "reader", "heartbeat"}
    /\ None \notin Users \cup Threads \cup Frames \cup Replies
    /\ MaxInputs \in Nat /\ MaxChats \in Nat

ClientInit ==
    /\ WireInit
    /\ mainAt = "menu" /\ asked = None
    /\ rwsem = 0
    /\ isMainMenuRunning = FALSE /\ isLoginSuccess = FALSE
    /\ currentUser = None
    /\ readerAt = "recv" /\ frame = None
    /\ heartbeatAt = "sleep" /\ alive = TRUE
    /\ answer = None /\ binding = None /\ replies = <<>>
    /\ sleeping = HeartbeatPeriod /\ idle = 0
    /\ inputs = 0 /\ chats = 0

-----------------------------------------------------------------------------
(* The main thread *)

UserActs == alive /\ inputs < MaxInputs /\ inputs' = inputs + 1

Returned(t) == alive /\ call[t] = None

MainCalls(type, u) ==
    /\ Calls("main", [type |-> type, user |-> u])
    /\ UNCHANGED <<sendMutex, left, stream, inBuffer, link>>

ChooseLogin(u) ==
    /\ UserActs /\ mainAt = "menu"
    /\ mainAt' = "login"
    /\ asked' = u
    /\ isLoginSuccess' = FALSE
    /\ MainCalls("login", u)
    /\ UNCHANGED <<rwsem, isMainMenuRunning, readerVars, heartbeatAt, alive,
                   serverVars, clockVars, chats>>

ChooseRegister ==
    /\ UserActs /\ mainAt = "menu"
    /\ mainAt' = "reg"
    /\ MainCalls("reg", None)
    /\ UNCHANGED <<asked, rwsem, isMainMenuRunning, isLoginSuccess, readerVars,
                   heartbeatAt, alive, serverVars, clockVars, chats>>

\* close, sem_destroy and exit end the other threads, too.
ChooseQuit ==
    /\ UserActs /\ mainAt = "menu"
    /\ alive' = FALSE
    /\ UNCHANGED <<wireVars, mainVars, rwsem, isLoginSuccess, readerVars,
                   heartbeatAt, serverVars, clockVars, chats>>

\* Variant: whatever the answer, the chat menu opens.
LoginAnsweredUntested ==
    /\ mainAt = "login" /\ Returned("main")
    /\ rwsem > 0
    /\ rwsem' = rwsem - 1
    /\ mainAt' = "chat"
    /\ isMainMenuRunning' = TRUE
    /\ UNCHANGED <<wireVars, asked, isLoginSuccess, readerVars, heartbeatAt,
                   alive, serverVars, clockVars, boundVars>>

\* sem_wait returns, then the test of g_isLoginSuccess.
LoginAnswered ==
    /\ mainAt = "login" /\ Returned("main")
    /\ rwsem > 0
    /\ rwsem' = rwsem - 1
    /\ mainAt' = IF isLoginSuccess THEN "chat" ELSE "menu"
    /\ isMainMenuRunning' = (isLoginSuccess \/ isMainMenuRunning)
    /\ UNCHANGED <<wireVars, asked, isLoginSuccess, readerVars, heartbeatAt,
                   alive, serverVars, clockVars, boundVars>>

\* Variant: main does not wait for the semaphore.
RegAnsweredUnwaited ==
    /\ mainAt = "reg" /\ Returned("main")
    /\ rwsem' = rwsem - 1
    /\ mainAt' = "menu"
    /\ UNCHANGED <<wireVars, asked, isMainMenuRunning, isLoginSuccess,
                   readerVars, heartbeatAt, alive, serverVars, clockVars,
                   boundVars>>

RegAnswered ==
    /\ mainAt = "reg" /\ Returned("main")
    /\ rwsem > 0
    /\ rwsem' = rwsem - 1
    /\ mainAt' = "menu"
    /\ UNCHANGED <<wireVars, asked, isMainMenuRunning, isLoginSuccess,
                   readerVars, heartbeatAt, alive, serverVars, clockVars,
                   boundVars>>

\* chat, addfriend, creategroup, addgroup and groupchat differ only in what
\* the server does with them.
Command ==
    /\ UserActs /\ mainAt = "chat"
    /\ mainAt' = "command"
    /\ MainCalls("command", currentUser)
    /\ UNCHANGED <<asked, isMainMenuRunning, rwsem, isLoginSuccess, readerVars,
                   heartbeatAt, alive, serverVars, clockVars, chats>>

CommandSent ==
    /\ mainAt = "command" /\ Returned("main")
    /\ mainAt' = "chat"
    /\ UNCHANGED <<wireVars, asked, isMainMenuRunning, rwsem, isLoginSuccess,
                   readerVars, heartbeatAt, alive, serverVars, clockVars,
                   boundVars>>

Loginout ==
    /\ UserActs /\ mainAt = "chat"
    /\ mainAt' = "loginout"
    /\ MainCalls("loginout", currentUser)
    /\ UNCHANGED <<asked, isMainMenuRunning, rwsem, isLoginSuccess, readerVars,
                   heartbeatAt, alive, serverVars, clockVars, chats>>

\* The flag ends the loop of mainMenu, unless send has failed.
LoginoutSent ==
    /\ mainAt = "loginout" /\ Returned("main")
    /\ \/ isMainMenuRunning' = FALSE /\ mainAt' = "menu"
       \/ link = "cut" /\ UNCHANGED isMainMenuRunning /\ mainAt' = "chat"
    /\ UNCHANGED <<wireVars, asked, rwsem, isLoginSuccess, readerVars,
                   heartbeatAt, alive, serverVars, clockVars, boundVars>>
-----------------------------------------------------------------------------
(* The reader thread: readTaskHandler *)

ReaderGoes(place) == alive /\ readerAt' = place /\ UNCHANGED alive

AcksAs(u) ==
    /\ Calls("reader", [type |-> "ack", user |-> u])
    /\ UNCHANGED <<sendMutex, left, stream, inBuffer, link>>

\* Variant: the register response is displayed without sem_post.
AfterFrameOfRegDropped(type) ==
    CASE type \in {"heartbeat", "reg_ack"} -> "recv"
      [] type = "chat" -> "ack"
      [] type = "login_ok" -> "write"
      [] type = "login_error" -> "post"

\* Where a frame takes the reader: a heartbeat is dropped, a chat is acked, a
\* register response and a refusal only displayed.
AfterFrameOf(type) ==
    CASE type = "heartbeat" -> "recv"
      [] type = "chat" -> "ack"
      [] type = "login_ok" -> "write"
      [] type \in {"login_error", "reg_ack"} -> "post"

Recv ==
    /\ readerAt = "recv" /\ replies # <<>>
    /\ replies' = Tail(replies)
    /\ frame' = Head(replies)
    /\ ReaderGoes(AfterFrameOf(frame'.type))
    /\ IF frame'.type = "chat" THEN AcksAs(currentUser) ELSE UNCHANGED wireVars
    /\ isLoginSuccess' = (isLoginSuccess /\ frame'.type # "login_error")
    /\ UNCHANGED <<mainVars, rwsem, currentUser, heartbeatAt, answer,
                   binding, clockVars, boundVars>>

\* doLoginResponse takes over the account; the unread messages of the response
\* are acked as they are displayed.
WriteGlobals ==
    /\ readerAt = "write" /\ ReaderGoes("unread")
    /\ currentUser' = frame.user
    /\ IF frame.unread THEN AcksAs(frame.user) ELSE UNCHANGED wireVars
    /\ UNCHANGED <<mainVars, rwsem, isLoginSuccess, frame, heartbeatAt,
                   serverVars, clockVars, boundVars>>

LoginSuccess ==
    /\ readerAt = "unread" /\ Returned("reader") /\ ReaderGoes("post")
    /\ isLoginSuccess' = TRUE
    /\ UNCHANGED <<wireVars, mainVars, rwsem, currentUser, frame,
                   heartbeatAt, serverVars, clockVars, boundVars>>

SemPost ==
    /\ readerAt = "post" /\ ReaderGoes("recv")
    /\ rwsem' = rwsem + 1
    /\ UNCHANGED <<wireVars, mainVars, isLoginSuccess, currentUser,
                   frame, heartbeatAt, serverVars, clockVars, boundVars>>

AckSent ==
    /\ readerAt = "ack" /\ Returned("reader") /\ ReaderGoes("recv")
    /\ UNCHANGED <<wireVars, mainVars, rwsem, isLoginSuccess, currentUser,
                   frame, heartbeatAt, serverVars, clockVars, boundVars>>

Exits ==
    /\ alive' = FALSE
    /\ UNCHANGED <<wireVars, mainVars, rwsem, isLoginSuccess, readerVars,
                   heartbeatAt, serverVars, clockVars, boundVars>>

\* recv returns 0 or -1.
ReaderExits ==
    /\ alive /\ readerAt = "recv" /\ replies = <<>> /\ link = "cut"
    /\ Exits

\* send to a connection the other end has reset raises SIGPIPE.
SigPipe == alive /\ link = "cut" /\ (\E t \in Threads : call[t] # None) /\ Exits
-----------------------------------------------------------------------------
(* The heartbeat thread: heartbeatTaskHandler *)

HeartbeatGoes(place) ==
    alive /\ heartbeatAt' = place /\ UNCHANGED alive

\* sleep_for returns; the thread tests the flag and the id.
HeartbeatCheck ==
    /\ heartbeatAt = "sleep" /\ sleeping = 0
    /\ IF ~isMainMenuRunning \/ currentUser = None
       THEN HeartbeatGoes("sleep") /\ sleeping' = HeartbeatPeriod
       ELSE HeartbeatGoes("beat") /\ UNCHANGED sleeping
    /\ UNCHANGED <<wireVars, mainVars, rwsem, isLoginSuccess, readerVars,
                   serverVars, idle, boundVars>>

\* A later read of g_currentUser, and the call.
HeartbeatSend ==
    /\ heartbeatAt = "beat" /\ HeartbeatGoes("sent")
    /\ Calls("heartbeat", [type |-> "heartbeat", user |-> currentUser])
    /\ UNCHANGED <<sendMutex, left, stream, inBuffer, link, mainVars, rwsem,
                   isLoginSuccess, readerVars, serverVars, clockVars,
                   boundVars>>

HeartbeatSent ==
    /\ heartbeatAt = "sent" /\ Returned("heartbeat") /\ HeartbeatGoes("sleep")
    /\ sleeping' = HeartbeatPeriod
    /\ UNCHANGED <<wireVars, mainVars, rwsem, isLoginSuccess, readerVars,
                   serverVars, idle, boundVars>>
-----------------------------------------------------------------------------
(* sendJsonFrame in the three threads, and the server's end *)

Sends(t) ==
    /\ alive
    /\ \/ Lock(t) /\ UNCHANGED idle
       \/ SendPart(t) /\ idle' = 0
       \/ Return(t) /\ UNCHANGED idle
    /\ UNCHANGED <<clientVars, serverVars, sleeping, boundVars>>

ServerReads ==
    /\ Receive
    /\ UNCHANGED <<clientVars, serverVars, clockVars, boundVars>>

\* The handler of a line, up to its answer: a login may be refused, and one
\* that is accepted may find unread messages.
ServesLogin(f) ==
    /\ f.type = "login"
    /\ \/ answer' = Reply("login_error") /\ UNCHANGED <<binding, chats>>
       \/ \E unread \in 0..1 :
            /\ chats + unread <= MaxChats
            /\ chats' = chats + unread
            /\ answer' = [type |-> "login_ok", user |-> f.user,
                          unread |-> unread = 1]
            /\ binding' = f.user

ServesLoginout(f) ==
    /\ f.type = "loginout"
    /\ binding' = IF f.user = binding THEN None ELSE binding
    /\ UNCHANGED <<answer, chats>>

ServesReg(f) ==
    f.type = "reg" /\ answer' = Reply("reg_ack") /\ UNCHANGED <<binding, chats>>

ServesHeartbeat(f) ==
    /\ f.type = "heartbeat"
    /\ answer' = Reply("heartbeat")
    /\ UNCHANGED <<binding, chats>>

\* Commands and ACKs are not answered on this connection.
ServesOther(f) ==
    f.type \in {"command", "ack"} /\ UNCHANGED <<answer, binding, chats>>

Serves(f) == ServesLogin(f) \/ ServesLoginout(f) \/ ServesReg(f)
                 \/ ServesHeartbeat(f) \/ ServesOther(f)

\* What does not parse is logged and skipped.
ServerDispatches ==
    /\ answer = None
    /\ TakeLine
    /\ IF Parses THEN Serves(Line[1]) ELSE UNCHANGED <<answer, binding, chats>>
    /\ UNCHANGED <<clientVars, replies, clockVars, inputs>>

ServerAnswers ==
    /\ answer # None /\ link = "open"
    /\ replies' = Append(replies, answer)
    /\ answer' = None
    /\ idle' = 0
    /\ UNCHANGED <<wireVars, clientVars, binding, sleeping, boundVars>>

\* A login of the account on another connection replaces the entry of
\* _userConnMap: its handler overlapped this one's, or another process went
\* down on SIGINT and put every account offline.
BindingTaken ==
    /\ binding # None
    /\ binding' = None
    /\ UNCHANGED <<wireVars, clientVars, answer, replies, clockVars, boundVars>>

\* Another event loop, or the observer, sends to the bound connection.
OthersChat ==
    /\ binding # None /\ link = "open" /\ chats < MaxChats
    /\ chats' = chats + 1
    /\ replies' = Append(replies, Reply("chat"))
    /\ idle' = 0
    /\ UNCHANGED <<wireVars, clientVars, answer, binding, sleeping, inputs>>
-----------------------------------------------------------------------------
(* Time and failures *)

\* Nothing is on its way and no thread can run before the user or the clock.
Quiet ==
    /\ alive /\ link = "open"
    /\ \A t \in Threads : call[t] = None
    /\ stream = <<>> /\ inBuffer = <<>> /\ replies = <<>> /\ answer = None
    /\ readerAt = "recv" /\ heartbeatAt = "sleep" /\ sleeping > 0
    /\ mainAt \in {"menu", "chat"}

\* What threads and machines do takes no time next to 15 seconds.
Tick ==
    /\ Quiet /\ idle < ProxyTimeout
    /\ sleeping' = sleeping - 1
    /\ idle' = idle + 1
    /\ UNCHANGED <<wireVars, clientVars, serverVars, boundVars>>

LinkBreaks ==
    /\ CutLink
    /\ binding' = None /\ answer' = None
    /\ UNCHANGED <<clientVars, replies, clockVars, boundVars>>

NginxTimesOut == idle = ProxyTimeout /\ LinkBreaks

\* The server process goes, or the network between.
ServerGoes == LinkBreaks
-----------------------------------------------------------------------------
MainThread ==
    \/ \E u \in Users : ChooseLogin(u)
    \/ ChooseRegister \/ ChooseQuit \/ LoginAnswered \/ RegAnswered
    \/ Command \/ CommandSent \/ Loginout \/ LoginoutSent

ReaderThread == Recv \/ WriteGlobals \/ LoginSuccess \/ SemPost \/ AckSent
                     \/ ReaderExits

HeartbeatThread == HeartbeatCheck \/ HeartbeatSend \/ HeartbeatSent

Server == ServerReads \/ ServerDispatches \/ ServerAnswers

ClientNext ==
    \/ MainThread \/ ReaderThread \/ HeartbeatThread
    \/ \E t \in Threads : Sends(t)
    \/ Server \/ BindingTaken \/ OthersChat
    \/ SigPipe \/ Tick \/ NginxTimesOut \/ ServerGoes

\* The operating system runs every thread of the client and the event loop
\* of the server; nothing makes the user act.
ClientFairness ==
    /\ WF_vars(LoginAnswered \/ RegAnswered \/ CommandSent \/ LoginoutSent)
    /\ WF_vars(ReaderThread)
    /\ WF_vars(HeartbeatThread)
    /\ \A t \in Threads : WF_vars(Sends(t))
    /\ WF_vars(Server)

ClientSpec == ClientInit /\ [][ClientNext]_vars

FairClientSpec == ClientSpec /\ ClientFairness
-----------------------------------------------------------------------------
(* Properties *)

\* Every variable of the client, the socket and the server's end has its
\* type.
ClientTypeOK ==
    /\ call \in [Threads -> Frames \cup {None}]
    /\ sendMutex \in Threads \cup {None}
    /\ \A t \in Threads : Range(left[t]) \subseteq Frames \cup {NL}
    /\ Range(stream) \cup Range(inBuffer) \subseteq Frames \cup {NL}
    /\ link \in {"open", "cut"}
    /\ mainAt \in {"menu", "login", "reg", "chat", "command", "loginout"}
    /\ asked \in Users \cup {None}
    /\ rwsem \in Nat
    /\ isMainMenuRunning \in BOOLEAN /\ isLoginSuccess \in BOOLEAN
    /\ currentUser \in Users \cup {None}
    /\ readerAt \in {"recv", "write", "unread", "post", "ack"}
    /\ frame \in Replies \cup {None}
    /\ heartbeatAt \in {"sleep", "beat", "sent"}
    /\ alive \in BOOLEAN
    /\ answer \in Replies \cup {None}
    /\ binding \in Users \cup {None}
    /\ Range(replies) \subseteq Replies
    /\ sleeping \in 0..HeartbeatPeriod /\ idle \in 0..ProxyTimeout
    /\ inputs \in 0..MaxInputs /\ chats \in 0..MaxChats

\* Three threads write to one socket and the bytes come in any portions, and
\* still the server dispatches the frames whole, once each, in the order in
\* which the threads took g_sendMutex: sendJsonFrame, TCP and the loop of
\* onMessage together implement FrameQueue.
Queue == INSTANCE FrameQueue WITH
            Frames <- {<<f>> : f \in Frames},
            queue <- OnTheWay,
            open <- (link = "open")
WholeFrames == Queue!Spec

\* The answers to the request main waits for that exist somewhere: the
\* request itself before the server has served it, its answer on the way, in
\* the hands of the reader, or posted to the semaphore.
AnswersDue ==
    LET way == OnTheWay
        counts(set) == Cardinality(set)
        asks(f) == f.type \in Requests
        answersIt(r) == r.type \in {"login_ok", "login_error", "reg_ack"}
    IN  counts({t \in {"main"} \ {sendMutex} :
                  call[t] # None /\ asks(call[t])})
        + counts({i \in DOMAIN way : asks(way[i][1])})
        + counts({i \in {1} : answer # None /\ answersIt(answer)})
        + counts({i \in DOMAIN replies : answersIt(replies[i])})
        + counts({i \in {1} : readerAt \in {"write", "unread", "post"}})
        + rwsem

\* The semaphore protocol of main.cpp: while the main thread is on its way to
\* sem_wait exactly one answer to its request is due, and otherwise none.  So
\* the reader writes g_currentUser only while main waits, and a
\* post is never left over to let a later login through before its answer.
OneAnswerDue ==
    alive /\ link = "open"
        => AnswersDue = IF mainAt \in {"login", "reg"} THEN 1 ELSE 0

\* In the chat menu client and server never stand for two accounts: the
\* globals name the account the user asked for, and the server has the
\* connection bound to that account or, once another connection has taken the
\* account over, to none.  So a command of the menu is served for the account
\* its user logged in with, or rejected, and never served for another one.
ViewsAgree ==
    alive /\ link = "open" /\ mainAt \in {"chat", "command"}
        => currentUser = asked /\ binding \in {asked, None}

\* The heartbeat keeps Nginx from cutting the connection of a client that
\* stands in the chat menu, however long its user is silent and whenever in
\* the period of the heartbeat thread the login happened.
ChatIsKeptAlive ==
    alive /\ link = "open" /\ mainAt = "chat" => idle < ProxyTimeout

\* A main thread in sem_wait gets its answer, or the process exits with the
\* connection.
WaitEnds ==
    alive /\ mainAt \in {"login", "reg"}
        ~> ~alive \/ mainAt \notin {"login", "reg"}
=============================================================================
