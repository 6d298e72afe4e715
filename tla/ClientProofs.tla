---------------------------- MODULE ClientProofs ----------------------------
(***************************************************************************)
(* What the command-line client and the server's end of its connection     *)
(* promise for all accounts, any number of user inputs and chats, and any  *)
(* way in which the three threads interleave and the bytes of the          *)
(* connection are cut up.                                                  *)
(*                                                                         *)
(* The argument follows the answer to the request main waits for: as long  *)
(* as main is on its way to sem_wait, the answer is in exactly one stage,  *)
(* from the call of sendJsonFrame to the post of the semaphore.            *)
(***************************************************************************)
EXTENDS WireProofs

Answers == {"login_ok", "login_error", "reg_ack"}

\* Where a sequence of frames or replies has one of these types.
Found(s, types) == {i \in DOMAIN s : s[i].type \in types}

\* The frames the server can still see.
Sent == IF link = "open" THEN Way ELSE <<>>

\* The request of main is in sendJsonFrame and does not have the mutex yet.
Asked == /\ call["main"] # None /\ sendMutex # "main"
         /\ call["main"].type \in Requests

\* The variables of module Client have their types.
TypeInv ==
    /\ mainAt \in {"menu", "login", "reg", "chat", "command", "loginout"}
    /\ asked \in Users \cup {None}
    /\ rwsem \in Nat
    /\ isMainMenuRunning \in BOOLEAN /\ isLoginSuccess \in BOOLEAN
    /\ currentUser \in Users \cup {None}
    /\ readerAt \in {"recv", "write", "unread", "post", "ack"}
    /\ frame \in Replies \cup {None}
    /\ heartbeatAt \in {"sleep", "beat", "sent"}
    /\ alive \in BOOLEAN
    /\ answer \in Replies \cup {None}
    /\ binding \in Users \cup {None}
    /\ replies \in Seq(Replies)
    /\ sleeping \in 0..HeartbeatPeriod /\ idle \in 0..ProxyTimeout
    /\ inputs \in 0..MaxInputs /\ chats \in 0..MaxChats

\* A thread is in sendJsonFrame only where its own code calls it.
PlaceInv ==
    /\ mainAt \in {"login", "chat", "command", "loginout"} => asked \in Users
    /\ mainAt \in {"menu", "chat"} => call["main"] = None
    /\ call["main"] # None =>
          /\ call["main"].type = mainAt
          /\ mainAt = "login" => call["main"].user = asked
    /\ readerAt \in {"recv", "write", "post"} => call["reader"] = None
    /\ call["reader"] # None => call["reader"].type = "ack"
    /\ readerAt \in {"write", "unread", "post"} => frame # None
    /\ readerAt \in {"write", "unread"} => frame.type = "login_ok"
    /\ heartbeatAt \in {"sleep", "beat"} => call["heartbeat"] = None
    /\ call["heartbeat"] # None => call["heartbeat"].type = "heartbeat"

\* How far the answer to the request of main has come.
Stages == {"none", "asked", "sent", "served", "coming", "handled", "posted"}

\* Neither client nor server has the connection for another account than the
\* one that was asked for.
Agreed == currentUser = asked /\ (link = "open" => binding \in {asked, None})

\* r answers what main asked.
Fits(r) ==
    IF mainAt = "login"
    THEN /\ r.type \in {"login_ok", "login_error"}
         /\ r.type = "login_ok" =>
               r.user = asked /\ (link = "open" => binding \in {asked, None})
    ELSE r.type = "reg_ack"

\* Stage s as main and the semaphore show it: only a main thread before or in
\* sem_wait has an answer in a stage, and an answer that has passed Nginx has
\* ended the silence of the connection.
Waits(s) ==
    /\ s # "none" => mainAt \in {"login", "reg"}
    /\ link = "open" /\ mainAt \in {"login", "reg"} => s # "none"
    /\ Asked <=> s = "asked"
    /\ rwsem = IF s = "posted" THEN 1 ELSE 0
    /\ s \in {"coming", "handled", "posted"} => idle = 0

\* Stage s as the frames on the way show it.  A loginout that could undo the
\* binding the answer tells of is ahead of the request or served.
OnWay(s) ==
    /\ s # "sent" => Found(Sent, Requests) = {}
    /\ s = "sent" =>
         \E i \in DOMAIN Sent :
           /\ Found(Sent, Requests) = {i}
           /\ Sent[i].type = mainAt
           /\ mainAt = "login" => Sent[i].user = asked
           /\ \A j \in Found(Sent, {"loginout"}) : j < i
    /\ s \in {"served", "coming", "handled", "posted"} \/ mainAt \in {"chat", "command"}
         => Found(Sent, {"loginout"}) = {}

\* Stage s as the handler, the replies and the reader show it.
Served(s) ==
    IF s = "served" THEN answer # None /\ Fits(answer)
    ELSE answer # None => answer.type \notin Answers

Coming(s) ==
    IF s = "coming" THEN \E i \in DOMAIN replies :
                            Found(replies, Answers) = {i} /\ Fits(replies[i])
    ELSE Found(replies, Answers) = {}

Handled(s) ==
    IF s = "handled" THEN readerAt \in {"write", "unread", "post"} /\ Fits(frame)
    ELSE readerAt \notin {"write", "unread", "post"}

\* g_isLoginSuccess and the chat menu stand for an account both sides agree on.
LogsIn(s) ==
    /\ readerAt = "unread" => currentUser = frame.user
    /\ mainAt = "login" /\ isLoginSuccess =>
          Agreed /\ (s = "posted" \/ (s = "handled" /\ readerAt = "post"))
    /\ mainAt \in {"chat", "command"} => Agreed
    /\ mainAt = "loginout" => currentUser = asked

Stage(s) == Waits(s) /\ OnWay(s) /\ Served(s) /\ Coming(s) /\ Handled(s) /\ LogsIn(s)

StageInv == \E s \in Stages : Stage(s)

\* In the chat menu the thread's next heartbeat comes at most two ticks after
\* something has passed; one that has been sent has ended the silence.
ClockInv ==
    /\ mainAt \in {"chat", "command", "loginout"} =>
          isMainMenuRunning /\ idle + sleeping <= 2
    /\ heartbeatAt = "sent" =>
          \/ idle = 0
          \/ /\ call["heartbeat"] # None
             /\ \/ sendMutex # "heartbeat"
                \/ left["heartbeat"] = <<call["heartbeat"], NL>>

ClientInv == /\ WireInv /\ TypeInv /\ PlaceInv /\ StageInv /\ ClockInv

-----------------------------------------------------------------------------
(* What is called, and in which places *)

\* The three threads of the client.
LEMMA ThreadsAre ==
    /\ Threads = {"main", "reader", "heartbeat"}
    /\ "main" \in Threads /\ "reader" \in Threads /\ "heartbeat" \in Threads
BY ClientAssumption

\* What the client sends are frames.
LEMMA FramesAre ==
    \A type \in Requests \cup {"loginout", "command", "ack", "heartbeat"},
       u \in Users \cup {None} :
         /\ [type |-> type, user |-> u] \in Frames
         /\ [type |-> type, user |-> u] # None
BY NewlineIsNoFrame DEF Frames

\* What the server answers are replies, and no reply is None.
LEMMA RepliesAre ==
    /\ None \notin Replies
    /\ \A type \in {"login_ok", "login_error", "reg_ack", "chat", "heartbeat"} :
         Reply(type) \in Replies /\ Reply(type).type = type
    /\ \A u \in Users, b \in BOOLEAN :
         [type |-> "login_ok", user |-> u, unread |-> b] \in Replies
    /\ \A r \in Replies :
         /\ r.type \in {"login_ok", "login_error", "reg_ack", "chat", "heartbeat"}
         /\ r.user \in Users \cup {None} /\ r.unread \in BOOLEAN
BY ClientAssumption DEF Replies, Reply

\* Who calls sendJsonFrame is in no other call of it.
LEMMA CallsAre ==
    ASSUME TypeInv, PlaceInv, ClientNext
    PROVE  \/ UNCHANGED wireVars
           \/ WireCalls
           \/ \E t \in Threads : Lock(t) \/ SendPart(t) \/ Return(t)
           \/ Receive \/ TakeLine \/ CutLink
<1>1. CASE MainThread
  <2>1. ASSUME NEW type \in Requests \cup {"loginout", "command"},
               NEW u \in Users \cup {None}, mainAt \in {"menu", "chat"},
               MainCalls(type, u)
        PROVE  WireCalls
    <3>. DEFINE f == [type |-> type, user |-> u]
    <3>1. f \in Frames /\ "main" \in Threads
      BY FramesAre, ThreadsAre
    <3>2. call["main"] = None
      BY <2>1 DEF PlaceInv
    <3>3. Calls("main", f)
      BY <2>1 DEF MainCalls
    <3>. HIDE DEF f
    <3>. QED
      BY <2>1, <3>1, <3>2, <3>3 DEF WireCalls, MainCalls
  <2>2. CASE \E u \in Users : ChooseLogin(u)
    BY <2>1, <2>2 DEF ChooseLogin, Requests
  <2>3. CASE ChooseRegister
    BY <2>1, <2>3 DEF ChooseRegister, Requests
  <2>4. CASE Command
    BY <2>1, <2>4 DEF Command, TypeInv
  <2>5. CASE Loginout
    BY <2>1, <2>5 DEF Loginout, TypeInv
  <2>6. CASE ChooseQuit \/ LoginAnswered \/ RegAnswered \/ CommandSent \/ LoginoutSent
    BY <2>6 DEF ChooseQuit, LoginAnswered, RegAnswered, CommandSent, LoginoutSent
  <2>. QED
    BY <1>1, <2>2, <2>3, <2>4, <2>5, <2>6 DEF MainThread
<1>2. CASE ReaderThread
  <2>1. ASSUME NEW u \in Users \cup {None}, readerAt \in {"recv", "write"}, AcksAs(u)
        PROVE  WireCalls
    <3>. DEFINE f == [type |-> "ack", user |-> u]
    <3>1. f \in Frames /\ "reader" \in Threads
      BY FramesAre, ThreadsAre
    <3>2. call["reader"] = None
      BY <2>1 DEF PlaceInv
    <3>3. Calls("reader", f)
      BY <2>1 DEF AcksAs
    <3>. HIDE DEF f
    <3>. QED
      BY <2>1, <3>1, <3>2, <3>3 DEF WireCalls, AcksAs
  <2>2. CASE Recv
    BY <2>1, <2>2 DEF Recv, TypeInv
  <2>3. CASE WriteGlobals
    <3>1. frame.user \in Users \cup {None}
      BY <2>3, RepliesAre DEF WriteGlobals, PlaceInv, TypeInv
    <3>. QED
      BY <2>1, <2>3, <3>1 DEF WriteGlobals
  <2>4. CASE LoginSuccess \/ SemPost \/ AckSent \/ ReaderExits
    BY <2>4 DEF LoginSuccess, SemPost, AckSent, ReaderExits, Exits
  <2>. QED
    BY <1>2, <2>2, <2>3, <2>4 DEF ReaderThread
<1>3. CASE HeartbeatThread
  <2>1. CASE HeartbeatSend
    <3>. DEFINE f == [type |-> "heartbeat", user |-> currentUser]
    <3>1. f \in Frames /\ "heartbeat" \in Threads
      BY FramesAre, ThreadsAre DEF TypeInv
    <3>2. call["heartbeat"] = None
      BY <2>1 DEF PlaceInv, HeartbeatSend
    <3>3. Calls("heartbeat", f)
      BY <2>1 DEF HeartbeatSend
    <3>. HIDE DEF f
    <3>. QED
      BY <2>1, <3>1, <3>2, <3>3 DEF WireCalls, HeartbeatSend
  <2>2. CASE HeartbeatCheck \/ HeartbeatSent
    BY <2>2 DEF HeartbeatCheck, HeartbeatSent
  <2>. QED
    BY <1>3, <2>1, <2>2 DEF HeartbeatThread
<1>4. CASE \E t \in Threads : Sends(t)
  BY <1>4 DEF Sends
<1>5. CASE Server
  BY <1>5 DEF Server, ServerReads, ServerDispatches, ServerAnswers
<1>6. CASE BindingTaken \/ OthersChat \/ SigPipe \/ Tick \/ NginxTimesOut \/ ServerGoes
  BY <1>6 DEF BindingTaken, OthersChat, SigPipe, Exits, Tick, NginxTimesOut, ServerGoes, LinkBreaks
<1>. QED
  BY <1>1, <1>2, <1>3, <1>4, <1>5, <1>6 DEF ClientNext

\* The threads use the socket only through sendJsonFrame.
LEMMA WireKept ==
    ASSUME WireInv, TypeInv, PlaceInv, [ClientNext]_vars
    PROVE  WireInv'
<1>1. CASE UNCHANGED wireVars
  BY <1>1, CallsKeep DEF wireVars
<1>2. CASE WireCalls
  BY <1>2, CallsKeep DEF WireCalls
<1>3. CASE \E t \in Threads : Lock(t) \/ SendPart(t) \/ Return(t)
  BY <1>3, LockAdds, SendKeeps, ReturnKeeps
<1>4. CASE Receive \/ TakeLine \/ CutLink
  BY <1>4, ReceiveKeeps, LineTaken, CutEmpties
<1>5. CASE UNCHANGED vars
  BY <1>1, <1>5 DEF vars
<1>. QED
  BY <1>1, <1>2, <1>3, <1>4, <1>5, CallsAre

-----------------------------------------------------------------------------
(* Types and places *)

\* Every step keeps the types.
LEMMA TypesKept ==
    ASSUME WireInv, TypeInv, PlaceInv, [ClientNext]_vars
    PROVE  TypeInv'
<1>. USE DEF TypeInv
<1>1. CASE MainThread
  <2>. USE DEF mainVars, readerVars, serverVars, clockVars, boundVars, UserActs
  <2>1. CASE \E u \in Users : ChooseLogin(u)
    <3>1. PICK u \in Users : ChooseLogin(u)
      BY <2>1
    <3>2. isLoginSuccess' = FALSE /\ inputs' \in 0..MaxInputs
      BY <3>1, ClientAssumption DEF ChooseLogin
    <3>3. /\ mainAt' = "login" /\ asked' = u
          /\ UNCHANGED <<rwsem, isMainMenuRunning, readerVars, heartbeatAt, alive,
                   serverVars, clockVars, chats>>
      BY <3>1 DEF ChooseLogin
    <3>4. isLoginSuccess' \in BOOLEAN
      BY <3>2
    <3>. QED
      BY <3>2, <3>3, <3>4
  <2>2. CASE ChooseRegister
    BY <2>2, ClientAssumption DEF ChooseRegister
  <2>6. CASE ChooseQuit
    <3>1. alive' = FALSE /\ inputs' \in 0..MaxInputs
      BY <2>6, ClientAssumption DEF ChooseQuit
    <3>2. UNCHANGED <<mainVars, rwsem, isLoginSuccess, readerVars,
                   heartbeatAt, serverVars, clockVars, chats>>
      BY <2>6 DEF ChooseQuit
    <3>3. alive' \in BOOLEAN
      BY <3>1
    <3>. QED
      BY <3>1, <3>2, <3>3
  <2>3. CASE LoginAnswered \/ RegAnswered
    BY <2>3 DEF LoginAnswered, RegAnswered
  <2>4. CASE Command \/ Loginout
    BY <2>4, ClientAssumption DEF Command, Loginout
  <2>5. CASE CommandSent \/ LoginoutSent
    BY <2>5 DEF CommandSent, LoginoutSent
  <2>. QED
    BY <1>1, <2>1, <2>2, <2>3, <2>4, <2>5, <2>6 DEF MainThread
<1>2. CASE Recv
  <2>1. Head(replies) \in Replies /\ Tail(replies) \in Seq(Replies)
    BY <1>2 DEF Recv
  <2>2. readerAt' \in {"recv", "write", "unread", "post", "ack"}
    BY <1>2, <2>1, RepliesAre DEF Recv, ReaderGoes, AfterFrameOf
  <2>. QED
    BY <1>2, <2>1, <2>2 DEF Recv, ReaderGoes, mainVars, clockVars, boundVars
<1>3. CASE WriteGlobals
  <2>1. frame.user \in Users \cup {None}
    BY <1>3, RepliesAre DEF WriteGlobals, PlaceInv
  <2>. QED
    BY <1>3, <2>1 DEF WriteGlobals, ReaderGoes, mainVars, clockVars,
       boundVars, serverVars
<1>4. CASE LoginSuccess \/ SemPost \/ AckSent \/ ReaderExits \/ SigPipe
  <2>. USE DEF readerVars, mainVars, clockVars, boundVars, serverVars
  <2>1. CASE LoginSuccess
    BY <2>1 DEF LoginSuccess, ReaderGoes
  <2>2. CASE SemPost
    BY <2>2 DEF SemPost, ReaderGoes
  <2>3. CASE AckSent
    BY <2>3 DEF AckSent, ReaderGoes
  <2>4. CASE Exits
    <3>1. alive' \in BOOLEAN
      BY <2>4 DEF Exits
    <3>2. UNCHANGED <<mainVars, rwsem, isLoginSuccess, readerVars,
                      heartbeatAt, serverVars, clockVars, boundVars>>
      BY <2>4 DEF Exits
    <3>. QED
      BY <3>1, <3>2
  <2>. QED
    BY <1>4, <2>1, <2>2, <2>3, <2>4 DEF ReaderExits, SigPipe
<1>5. CASE HeartbeatThread
  BY <1>5 DEF HeartbeatThread, HeartbeatCheck, HeartbeatSend, HeartbeatSent,
     HeartbeatGoes, HeartbeatPeriod, readerVars, mainVars, clockVars, boundVars,
     serverVars
<1>6. CASE \E t \in Threads : Sends(t)
  BY <1>6 DEF Sends, clientVars, serverVars, boundVars, ProxyTimeout
<1>7. CASE ServerReads
  BY <1>7 DEF ServerReads, clientVars, serverVars, clockVars, boundVars
<1>8. CASE ServerDispatches
  <2>1. Parses /\ Line[1] \in Frames
    <3>1. TakeLine
      BY <1>8 DEF ServerDispatches
    <3>2. Parses /\ Line = <<Head(Way)>> /\ Way # <<>> /\ Way \in Seq(Frames)
      BY <3>1, LineTaken, OnTheWayIsWay
    <3>. QED
      BY <3>2
  <2>. DEFINE f == Line[1]
  <2>2. Serves(f) /\ UNCHANGED <<clientVars, replies, clockVars, inputs>>
    BY <1>8, <2>1 DEF ServerDispatches
  <2>. HIDE DEF f
  <2>3. f.user \in Users \cup {None}
    BY <2>1 DEF f, Frames
  <2>4. answer' \in Replies \cup {None} /\ binding' \in Users \cup {None} /\ chats' \in 0..MaxChats
    <3>1. CASE ServesLogin(f)
      <4>1. CASE answer' = Reply("login_error") /\ UNCHANGED <<binding, chats>>
        BY <4>1, RepliesAre
      <4>2. CASE \E unread \in 0..1 :
                   /\ chats + unread <= MaxChats
                   /\ chats' = chats + unread
                   /\ answer' = [type |-> "login_ok", user |-> f.user,
                                 unread |-> unread = 1]
                   /\ binding' = f.user
        <5>1. PICK unread \in 0..1 :
                   /\ chats + unread <= MaxChats
                   /\ chats' = chats + unread
                   /\ answer' = [type |-> "login_ok", user |-> f.user,
                                 unread |-> unread = 1]
                   /\ binding' = f.user
          BY <4>2
        <5>2. chats' \in 0..MaxChats
          BY <5>1, ClientAssumption
        <5>3. (unread = 1) \in BOOLEAN
          OBVIOUS
        <5>4. answer' \in Replies
          BY <2>3, <5>1, <5>3 DEF Replies
        <5>. QED
          BY <2>3, <5>1, <5>2, <5>4
      <4>. QED
        BY <3>1, <4>1, <4>2 DEF ServesLogin
    <3>2. CASE ServesLoginout(f) \/ ServesReg(f) \/ ServesHeartbeat(f) \/ ServesOther(f)
      BY <3>2, RepliesAre DEF ServesLoginout, ServesReg, ServesHeartbeat, ServesOther
    <3>. QED
      BY <2>2, <3>1, <3>2 DEF Serves
  <2>. QED
    BY <2>2, <2>4 DEF clientVars, clockVars
<1>9. CASE ServerAnswers \/ OthersChat
  <2>1. CASE ServerAnswers
    BY <2>1 DEF ServerAnswers, clientVars, boundVars, ProxyTimeout
  <2>2. CASE OthersChat
    <3>1. Reply("chat") \in Replies
      BY RepliesAre
    <3>. QED
      BY <2>2, <3>1, ClientAssumption DEF OthersChat, clientVars, boundVars, ProxyTimeout
  <2>. QED
    BY <1>9, <2>1, <2>2
<1>10. CASE Tick
  BY <1>10 DEF Tick, Quiet, clientVars, serverVars, boundVars, HeartbeatPeriod, ProxyTimeout
<1>11. CASE BindingTaken \/ NginxTimesOut \/ ServerGoes
  BY <1>11 DEF BindingTaken, NginxTimesOut, ServerGoes, LinkBreaks, clientVars, clockVars, boundVars
<1>12. CASE UNCHANGED vars
  BY <1>12 DEF vars, clientVars, serverVars, clockVars, boundVars
<1>. QED
  BY <1>1, <1>2, <1>3, <1>4, <1>5, <1>6, <1>7, <1>8, <1>9, <1>10, <1>11, <1>12
     DEF ClientNext, ReaderThread, Server

\* A call changes what its own thread is sending, nothing else.
LEMMA CallOf ==
    ASSUME TypeInv, WireInv, NEW t \in Threads, NEW f \in Frames, Calls(t, f)
    PROVE  /\ call'[t] = f /\ call'[t] # None
           /\ \A u \in Threads : u # t => call'[u] = call[u]
BY NewlineIsNoFrame DEF Calls, WireInv, WireTypes

\* Every step keeps a thread that is in sendJsonFrame at the place in its
\* own code that called it.
LEMMA PlacesKept ==
    ASSUME WireInv, TypeInv, PlaceInv, [ClientNext]_vars
    PROVE  PlaceInv'
<1>. USE ThreadsAre DEF PlaceInv
<1>1. CASE \E u \in Users : ChooseLogin(u)
  <2>1. PICK u \in Users : ChooseLogin(u)
    BY <1>1
  <2>2. [type |-> "login", user |-> u] \in Frames
    BY FramesAre DEF Requests
  <2>3. /\ call'["main"] = [type |-> "login", user |-> u]
        /\ call'["reader"] = call["reader"] /\ call'["heartbeat"] = call["heartbeat"]
    BY <2>1, <2>2, CallOf DEF ChooseLogin, MainCalls
  <2>. QED
    BY <2>1, <2>3 DEF ChooseLogin, readerVars
<1>2. CASE ChooseRegister
  <2>2. [type |-> "reg", user |-> None] \in Frames
    BY FramesAre DEF Requests
  <2>3. /\ call'["main"] = [type |-> "reg", user |-> None]
        /\ call'["reader"] = call["reader"] /\ call'["heartbeat"] = call["heartbeat"]
    BY <1>2, <2>2, CallOf DEF ChooseRegister, MainCalls
  <2>. QED
    BY <1>2, <2>3 DEF ChooseRegister, readerVars
<1>3. CASE Command
  <2>2. [type |-> "command", user |-> currentUser] \in Frames
    BY FramesAre DEF TypeInv
  <2>3. /\ call'["main"] = [type |-> "command", user |-> currentUser]
        /\ call'["reader"] = call["reader"] /\ call'["heartbeat"] = call["heartbeat"]
    BY <1>3, <2>2, CallOf DEF Command, MainCalls
  <2>. QED
    BY <1>3, <2>3 DEF Command, readerVars
<1>4. CASE Loginout
  <2>2. [type |-> "loginout", user |-> currentUser] \in Frames
    BY FramesAre DEF TypeInv
  <2>3. /\ call'["main"] = [type |-> "loginout", user |-> currentUser]
        /\ call'["reader"] = call["reader"] /\ call'["heartbeat"] = call["heartbeat"]
    BY <1>4, <2>2, CallOf DEF Loginout, MainCalls
  <2>. QED
    BY <1>4, <2>3 DEF Loginout, readerVars
<1>5. CASE ChooseQuit \/ ReaderExits \/ SigPipe
  BY <1>5 DEF ChooseQuit, ReaderExits, SigPipe, Exits, wireVars, mainVars, readerVars
<1>6. CASE LoginAnswered
  BY <1>6 DEF LoginAnswered, Returned, wireVars, readerVars
<1>7. CASE RegAnswered
  BY <1>7 DEF RegAnswered, Returned, wireVars, readerVars
<1>8. CASE CommandSent
  BY <1>8 DEF CommandSent, Returned, wireVars, readerVars
<1>9. CASE LoginoutSent
  BY <1>9 DEF LoginoutSent, Returned, wireVars, readerVars
<1>10. CASE Recv
  <2>1. Head(replies) \in Replies /\ frame' = Head(replies)
    BY <1>10 DEF Recv, TypeInv
  <2>2. /\ readerAt' = AfterFrameOf(frame'.type) /\ readerAt = "recv"
        /\ UNCHANGED <<mainAt, asked, heartbeatAt>>
    BY <1>10 DEF Recv, ReaderGoes, mainVars
  <2>3. /\ frame'.type = "chat" => readerAt' = "ack"
        /\ readerAt' \in {"write", "unread"} => frame'.type = "login_ok"
        /\ readerAt' # "unread"
    BY <2>1, <2>2, RepliesAre DEF AfterFrameOf
  <2>4. frame' # None
    BY <2>1, RepliesAre
  <2>5. CASE frame'.type = "chat"
    <3>1. [type |-> "ack", user |-> currentUser] \in Frames
      BY FramesAre DEF TypeInv
    <3>2. /\ call'["reader"] = [type |-> "ack", user |-> currentUser]
          /\ call'["main"] = call["main"] /\ call'["heartbeat"] = call["heartbeat"]
      BY <1>10, <2>5, <3>1, CallOf DEF Recv, AcksAs
    <3>. QED
      BY <2>2, <2>3, <2>4, <2>5, <3>2
  <2>6. CASE frame'.type # "chat"
    <3>1. call' = call
      BY <1>10, <2>6 DEF Recv, wireVars
    <3>. QED
      BY <2>2, <2>3, <2>4, <3>1
  <2>. QED
    BY <2>5, <2>6
<1>11. CASE WriteGlobals
  <2>1. /\ readerAt' = "unread" /\ readerAt = "write"
        /\ UNCHANGED <<mainAt, asked, heartbeatAt, frame>>
    BY <1>11 DEF WriteGlobals, ReaderGoes, mainVars
  <2>2. CASE frame.unread
    <3>1. [type |-> "ack", user |-> frame.user] \in Frames
      BY <2>1, FramesAre, RepliesAre DEF TypeInv
    <3>2. /\ call'["reader"] = [type |-> "ack", user |-> frame.user]
          /\ call'["main"] = call["main"] /\ call'["heartbeat"] = call["heartbeat"]
      BY <1>11, <2>2, <3>1, CallOf DEF WriteGlobals, AcksAs
    <3>. QED
      BY <2>1, <3>2
  <2>3. CASE ~frame.unread
    <3>1. call' = call
      BY <1>11, <2>3 DEF WriteGlobals, wireVars
    <3>. QED
      BY <2>1, <3>1
  <2>. QED
    BY <2>2, <2>3
<1>12. CASE LoginSuccess \/ SemPost \/ AckSent
  BY <1>12 DEF LoginSuccess, SemPost, AckSent, ReaderGoes, Returned, wireVars, mainVars
<1>13. CASE HeartbeatCheck
  BY <1>13 DEF HeartbeatCheck, HeartbeatGoes, wireVars, mainVars, readerVars
<1>14. CASE HeartbeatSend
  <2>2. [type |-> "heartbeat", user |-> currentUser] \in Frames
    BY FramesAre DEF TypeInv
  <2>3. /\ call'["heartbeat"] = [type |-> "heartbeat", user |-> currentUser]
        /\ call'["reader"] = call["reader"] /\ call'["main"] = call["main"]
    BY <1>14, <2>2, CallOf DEF HeartbeatSend
  <2>. QED
    BY <1>14, <2>3 DEF HeartbeatSend, HeartbeatGoes, mainVars, readerVars
<1>15. CASE HeartbeatSent
  BY <1>15 DEF HeartbeatSent, HeartbeatGoes, Returned, wireVars, mainVars, readerVars
<1>16. CASE \E t \in Threads : Sends(t)
  <2>1. PICK t \in Threads : Sends(t)
    BY <1>16
  <2>2. UNCHANGED clientVars
    BY <2>1 DEF Sends
  <2>3. \A u \in Threads : call'[u] \in {call[u], None}
    BY <2>1 DEF Sends, Lock, SendPart, Return, WireInv, WireTypes
  <2>4. /\ call'["main"] \in {call["main"], None} /\ call'["reader"] \in {call["reader"], None}
        /\ call'["heartbeat"] \in {call["heartbeat"], None}
    BY <2>3
  <2>. QED
    BY <2>2, <2>4 DEF clientVars
<1>17. CASE Server
  BY <1>17 DEF Server, ServerReads, ServerDispatches, ServerAnswers, Receive,
     TakeLine, clientVars, wireVars
<1>18. CASE BindingTaken \/ OthersChat \/ Tick \/ NginxTimesOut \/ ServerGoes
  BY <1>18 DEF BindingTaken, OthersChat, Tick, NginxTimesOut, ServerGoes, LinkBreaks, CutLink,
     clientVars, wireVars
<1>19. CASE UNCHANGED vars
  BY <1>19 DEF vars, wireVars, clientVars
<1>. QED
  BY <1>1, <1>2, <1>3, <1>4, <1>5, <1>6, <1>7, <1>8, <1>9, <1>10, <1>11, <1>12, <1>13,
     <1>14, <1>15, <1>16, <1>17, <1>18, <1>19
     DEF ClientNext, MainThread, ReaderThread, HeartbeatThread

-----------------------------------------------------------------------------
(* Sequences of frames and replies *)

\* Found in a sequence that has grown at its end.
LEMMA FoundAppended ==
    ASSUME NEW S, NEW s \in Seq(S), NEW f \in S, NEW types
    PROVE  /\ \A i \in DOMAIN s : i \in DOMAIN Append(s, f) /\ Append(s, f)[i] = s[i]
           /\ Len(s) + 1 \in DOMAIN Append(s, f) /\ Append(s, f)[Len(s) + 1] = f
           /\ \A i \in DOMAIN s : i < Len(s) + 1
           /\ f.type \in types =>
                Found(Append(s, f), types) = Found(s, types) \cup {Len(s) + 1}
           /\ f.type \notin types => Found(Append(s, f), types) = Found(s, types)
<1>. DEFINE d == Append(s, f)
            n == Len(s)
<1>1. /\ n \in Nat /\ DOMAIN s = 1..n /\ DOMAIN d = 1..(n + 1)
      /\ \A i \in 1..n : d[i] = s[i]
      /\ d[n + 1] = f
  BY AppendProperties
<1>. HIDE DEF d, n
<1>2. \A i : i \in 1..(n + 1) <=> (i \in 1..n \/ i = n + 1)
  BY <1>1
<1>3. n + 1 \notin 1..n
  BY <1>1
<1>4. \A i \in 1..n : i < n + 1
  BY <1>1
<1>5. \A i : i \in Found(d, types) <=>
              i \in Found(s, types) \/ (i = n + 1 /\ f.type \in types)
  BY <1>1, <1>2, <1>3 DEF Found
<1>6. f.type \in types => Found(d, types) = Found(s, types) \cup {n + 1}
  BY <1>5
<1>7. f.type \notin types => Found(d, types) = Found(s, types)
  BY <1>5
<1>. QED
  BY <1>1, <1>2, <1>4, <1>6, <1>7 DEF d, n

\* Found in a sequence that has lost its head.
LEMMA FoundInTail ==
    ASSUME NEW S, NEW s \in Seq(S), s # <<>>, NEW types
    PROVE  /\ Head(s) = s[1] /\ 1 \in DOMAIN s
           /\ Found(s, types) \subseteq DOMAIN s /\ DOMAIN s \subseteq Nat \ {0}
           /\ \A i \in Nat : i \in DOMAIN Tail(s) <=> i # 0 /\ i + 1 \in DOMAIN s
           /\ \A i \in DOMAIN Tail(s) : Tail(s)[i] = s[i + 1]
           /\ \A i \in Found(Tail(s), types) : i \in Nat /\ i + 1 \in Found(s, types)
           /\ \A i \in Found(s, types) : i # 1 => i - 1 \in Found(Tail(s), types)
           /\ Found(s, types) = {} =>
                Found(Tail(s), types) = {} /\ Head(s).type \notin types
           /\ \A i \in Nat : Found(s, types) = {i} =>
                IF Head(s).type \in types
                THEN i = 1 /\ Found(Tail(s), types) = {}
                ELSE /\ i # 1 /\ i - 1 \in DOMAIN Tail(s)
                     /\ Found(Tail(s), types) = {i - 1} /\ Tail(s)[i - 1] = s[i]
<1>. DEFINE d == Tail(s)
            n == Len(s)
<1>1. /\ n \in Nat /\ n # 0 /\ DOMAIN s = 1..n /\ DOMAIN d = 1..(n - 1)
      /\ \A i \in 1..(n - 1) : d[i] = s[i + 1]
      /\ Head(s) = s[1]
  BY HeadTailProperties
<1>. HIDE DEF d, n
<1>2. /\ \A i \in Nat : i \in 1..(n - 1) <=> i # 0 /\ i + 1 \in 1..n
      /\ \A i \in 1..n : i # 1 => i - 1 \in 1..(n - 1) /\ i - 1 + 1 = i
      /\ \A i \in 1..(n - 1) : i \in Nat /\ i + 1 \in 1..n
      /\ 1 \in 1..n
  BY <1>1
<1>3. Found(s, types) \subseteq 1..n /\ 1..n \subseteq Nat \ {0}
  BY <1>1 DEF Found
<1>4. \A i \in Found(d, types) : i \in 1..(n - 1) /\ i \in Nat /\ i + 1 \in Found(s, types)
  BY <1>1, <1>2 DEF Found
<1>5. \A i \in Found(s, types) : i # 1 => i - 1 \in Found(d, types)
  BY <1>1, <1>2 DEF Found
<1>6. 1 \in Found(s, types) <=> Head(s).type \in types
  BY <1>1, <1>2 DEF Found
<1>7. Found(s, types) = {} => Found(d, types) = {} /\ Head(s).type \notin types
  BY <1>4, <1>6
<1>8. ASSUME NEW i \in Nat, Found(s, types) = {i}
      PROVE  IF Head(s).type \in types
             THEN i = 1 /\ Found(d, types) = {}
             ELSE /\ i # 1 /\ i - 1 \in DOMAIN d
                  /\ Found(d, types) = {i - 1} /\ d[i - 1] = s[i]
  <2>1. CASE Head(s).type \in types
    <3>1. i = 1
      BY <1>6, <1>8, <2>1
    <3>2. \A j \in Found(d, types) : j + 1 = 1 /\ j \in 1..(n - 1)
      BY <1>4, <1>8, <3>1
    <3>3. Found(d, types) = {}
      BY <1>1, <3>2
    <3>. QED
      BY <2>1, <3>1, <3>3
  <2>2. CASE Head(s).type \notin types
    <3>1. i # 1 /\ i \in 1..n
      BY <1>3, <1>6, <1>8, <2>2
    <3>2. i - 1 \in 1..(n - 1) /\ i - 1 + 1 = i
      BY <1>2, <3>1
    <3>3. \A j \in Found(d, types) : j + 1 = i /\ j \in Nat
      BY <1>4, <1>8
    <3>4. \A j \in Found(d, types) : j = i - 1
      BY <3>3
    <3>5. i - 1 \in Found(d, types)
      BY <1>5, <1>8, <3>1
    <3>. QED
      BY <1>1, <2>2, <3>1, <3>2, <3>4, <3>5
  <2>. QED
    BY <2>1, <2>2
<1>. QED
  BY <1>1, <1>2, <1>3, <1>4, <1>5, <1>7, <1>8 DEF d, n

\* The frames the server can still see are frames.
LEMMA SentTyped == WireInv => Sent \in Seq(Frames)
BY OnTheWayIsWay, EmptySeq DEF Sent, WireInv, WireTypes

\* They stay the same as long as nobody sends, receives or cuts.
LEMMA SentStill ==
    ASSUME UNCHANGED <<sendMutex, left, stream, inBuffer, link>>
    PROVE  Sent' = Sent
BY DEF Sent, Way, Bytes, Unsent

\* What each step of the socket does to them: lock adds a frame, taking a
\* line removes the oldest one, a break removes all, nothing else counts.
LEMMA SentMoves ==
    ASSUME WireInv
    PROVE  /\ \A t \in Threads :
                /\ Lock(t) => /\ call[t] \in Frames
                              /\ link = "open" => Sent' = Append(Sent, call[t])
                              /\ link = "cut" => Sent' = Sent
                /\ SendPart(t) => Sent' = Sent
                /\ Return(t) => Sent' = Sent
           /\ Receive => Sent' = Sent
           /\ TakeLine => /\ link = "open" /\ Sent # <<>>
                          /\ Parses /\ Line[1] = Head(Sent)
                          /\ Sent' = Tail(Sent)
           /\ CutLink => Sent' = <<>>
<1>1. ASSUME NEW t \in Threads, Lock(t)
      PROVE  /\ call[t] \in Frames
             /\ link = "open" => Sent' = Append(Sent, call[t])
             /\ link = "cut" => Sent' = Sent
  <2>1. link' = link
    BY <1>1 DEF Lock
  <2>2. call[t] \in Frames /\ (link = "open" => Way' = Append(Way, call[t]))
    BY <1>1, LockAdds
  <2>. QED
    BY <2>1, <2>2 DEF Sent
<1>2. ASSUME NEW t \in Threads, SendPart(t) PROVE Sent' = Sent
  <2>1. link' = link
    BY <1>2 DEF SendPart
  <2>2. link = "open" => Bytes' = Bytes
    BY <1>2, SendKeeps
  <2>. QED
    BY <2>1, <2>2 DEF Sent, Way
<1>3. ASSUME NEW t \in Threads, Return(t) PROVE Sent' = Sent
  <2>1. link' = link
    BY <1>3 DEF Return
  <2>2. Bytes' = Bytes
    BY <1>3, ReturnKeeps
  <2>. QED
    BY <2>1, <2>2 DEF Sent, Way
<1>4. Receive => Sent' = Sent
  BY ReceiveKeeps DEF Sent, Way, Receive
<1>5. ASSUME TakeLine
      PROVE  /\ link = "open" /\ Sent # <<>>
             /\ Parses /\ Line[1] = Head(Sent)
             /\ Sent' = Tail(Sent)
  <2>1. link' = link
    BY <1>5 DEF TakeLine
  <2>2. /\ link = "open" /\ Way # <<>> /\ Line = <<Head(Way)>> /\ Parses
        /\ Way' = Tail(Way)
    BY <1>5, LineTaken
  <2>. QED
    BY <2>1, <2>2 DEF Sent
<1>6. CutLink => Sent' = <<>>
  BY DEF CutLink, Sent
<1>. QED
  BY <1>1, <1>2, <1>3, <1>4, <1>5, <1>6

-----------------------------------------------------------------------------
(* The stages of the answer *)

\* The answer stays where it is.
LEMMA StageSame ==
    ASSUME StageInv,
           UNCHANGED <<mainAt, asked, rwsem, isLoginSuccess, currentUser, frame,
                       answer, binding, replies, link>>,
           Sent' = Sent, Asked' <=> Asked,
           readerAt' = readerAt \/ (readerAt = "ack" /\ readerAt' = "recv"),
           idle' = idle \/ idle' = 0 \/ mainAt \notin {"login", "reg"}
    PROVE  StageInv'
<1>1. PICK s \in Stages : Stage(s)
  BY DEF StageInv
<1>2. Waits(s)'
  BY <1>1 DEF Stage, Waits
<1>3. OnWay(s)'
  BY <1>1 DEF Stage, OnWay, Found
<1>4. Served(s)'
  BY <1>1 DEF Stage, Served, Fits
<1>5. Coming(s)'
  BY <1>1 DEF Stage, Coming, Found, Fits
<1>6. Handled(s)'
  BY <1>1 DEF Stage, Handled, Fits
<1>7. LogsIn(s)'
  BY <1>1 DEF Stage, LogsIn, Agreed
<1>. QED
  BY <1>2, <1>3, <1>4, <1>5, <1>6, <1>7 DEF StageInv, Stage

\* A request starts in stage asked.
LEMMA StageOfChoice ==
    ASSUME WireInv, TypeInv, PlaceInv, StageInv,
           (\E u \in Users : ChooseLogin(u)) \/ ChooseRegister
    PROVE  StageInv'
<1>1. PICK s \in Stages : Stage(s)
  BY DEF StageInv
<1>2. mainAt = "menu" /\ s = "none"
  BY <1>1 DEF ChooseLogin, ChooseRegister, Stage, Waits
<1>3. PICK f \in Frames :
           /\ f.type \in Requests /\ mainAt' = f.type
           /\ Calls("main", f)
           /\ f.type = "login" => asked' = f.user /\ isLoginSuccess' = FALSE
           /\ UNCHANGED <<sendMutex, left, stream, inBuffer, link, rwsem, currentUser,
                          readerAt, frame, answer, binding, replies, idle>>
  <2>1. CASE \E u \in Users : ChooseLogin(u)
    <3>1. PICK u \in Users : ChooseLogin(u)
      BY <2>1
    <3>. DEFINE f == [type |-> "login", user |-> u]
    <3>2. f \in Frames /\ f.type = "login" /\ f.user = u /\ "login" \in Requests
      BY FramesAre DEF Requests
    <3>3. Calls("main", f) /\ UNCHANGED <<sendMutex, left, stream, inBuffer, link>>
      BY <3>1 DEF ChooseLogin, MainCalls
    <3>4. /\ mainAt' = "login" /\ asked' = u /\ isLoginSuccess' = FALSE
          /\ UNCHANGED <<rwsem, readerVars, serverVars, clockVars>>
      BY <3>1 DEF ChooseLogin
    <3>. HIDE DEF f
    <3>. QED
      BY <3>2, <3>3, <3>4 DEF readerVars, serverVars, clockVars
  <2>2. CASE ChooseRegister
    <3>. DEFINE f == [type |-> "reg", user |-> None]
    <3>2. f \in Frames /\ f.type = "reg" /\ "reg" \in Requests
      BY FramesAre DEF Requests
    <3>3. Calls("main", f) /\ UNCHANGED <<sendMutex, left, stream, inBuffer, link>>
      BY <2>2 DEF ChooseRegister, MainCalls
    <3>4. /\ mainAt' = "reg"
          /\ UNCHANGED <<rwsem, readerVars, serverVars, clockVars>>
      BY <2>2 DEF ChooseRegister
    <3>. HIDE DEF f
    <3>. QED
      BY <3>2, <3>3, <3>4 DEF readerVars, serverVars, clockVars
  <2>. QED
    BY <2>1, <2>2
<1>4. Sent' = Sent
  BY <1>3, SentStill
<1>5. Asked'
  <2>1. call'["main"] = f /\ f # None
    BY <1>3, CallOf, ThreadsAre
  <2>2. sendMutex # "main"
    BY <1>2, NewlineIsNoFrame, ThreadsAre DEF PlaceInv, WireInv, SenderInv
  <2>. QED
    BY <1>3, <2>1, <2>2 DEF Asked
<1>. DEFINE z == "asked"
<1>6. Waits(z)'
  BY <1>1, <1>2, <1>3, <1>5 DEF Stage, Waits, Requests
<1>7. OnWay(z)'
  BY <1>1, <1>2, <1>3, <1>4 DEF Stage, OnWay, Found, Requests
<1>8. Served(z)'
  BY <1>1, <1>2, <1>3 DEF Stage, Served
<1>9. Coming(z)'
  BY <1>1, <1>2, <1>3 DEF Stage, Coming, Found
<1>10. Handled(z)'
  BY <1>1, <1>2, <1>3 DEF Stage, Handled
<1>11. LogsIn(z)'
  BY <1>1, <1>2, <1>3 DEF Stage, LogsIn, Handled, Requests
<1>. QED
  BY <1>6, <1>7, <1>8, <1>9, <1>10, <1>11 DEF StageInv, Stage, Stages

\* The main thread goes on without an answer being due.
LEMMA StageOfMain ==
    ASSUME WireInv, TypeInv, PlaceInv, StageInv,
           LoginAnswered \/ RegAnswered \/ Command \/ CommandSent \/ Loginout \/ LoginoutSent
    PROVE  StageInv'
<1>1. PICK s \in Stages : Stage(s)
  BY DEF StageInv
<1>2. /\ s = "none" \/ s = "posted"
      /\ rwsem' = 0
      /\ s = "posted" =>
            /\ mainAt \in {"login", "reg"}
            /\ (mainAt = "login" /\ isLoginSuccess) \/ mainAt' = "menu"
      /\ s = "none" => mainAt \in {"chat", "command", "loginout"} \/ mainAt' = "menu"
      /\ mainAt' \in {"menu", "chat", "command", "loginout"}
      /\ mainAt' \in {"chat", "command", "loginout"} =>
            \/ mainAt \in {"login", "chat", "command"}
            \/ mainAt = "loginout" /\ link = "cut"
      /\ mainAt' = "loginout" => mainAt = "chat"
      /\ mainAt = "login" => s = "posted"
  <2>1. CASE LoginAnswered \/ RegAnswered
    BY <1>1, <2>1 DEF LoginAnswered, RegAnswered, Stage, Waits
  <2>2. CASE Command \/ CommandSent \/ Loginout \/ LoginoutSent
    BY <1>1, <2>2 DEF Command, CommandSent, Loginout, LoginoutSent, Stage, Waits
  <2>. QED
    BY <2>1, <2>2
<1>3. UNCHANGED <<sendMutex, left, stream, inBuffer, link, asked, isLoginSuccess, currentUser,
                  readerAt, frame, answer, binding, replies, idle>>
  BY DEF LoginAnswered, RegAnswered, Command, CommandSent, Loginout, LoginoutSent,
     MainCalls, wireVars, readerVars, serverVars, clockVars
<1>4. Sent' = Sent
  BY <1>3, SentStill
<1>5. ~Asked'
  <2>1. CASE UNCHANGED wireVars
    BY <1>1, <1>2, <2>1 DEF Stage, Waits, Asked, wireVars
  <2>2. CASE Command
    <3>1. [type |-> "command", user |-> currentUser] \in Frames
      BY FramesAre DEF TypeInv
    <3>2. call'["main"] = [type |-> "command", user |-> currentUser]
      BY <2>2, <3>1, CallOf, ThreadsAre DEF Command, MainCalls
    <3>. QED
      BY <3>2 DEF Asked, Requests
  <2>3. CASE Loginout
    <3>1. [type |-> "loginout", user |-> currentUser] \in Frames
      BY FramesAre DEF TypeInv
    <3>2. call'["main"] = [type |-> "loginout", user |-> currentUser]
      BY <2>3, <3>1, CallOf, ThreadsAre DEF Loginout, MainCalls
    <3>. QED
      BY <3>2 DEF Asked, Requests
  <2>. QED
    BY <2>1, <2>2, <2>3 DEF LoginAnswered, RegAnswered, CommandSent, LoginoutSent
<1>. DEFINE z == "none"
<1>6. Waits(z)'
  BY <1>2, <1>5 DEF Waits
<1>7. OnWay(z)'
  <2>1. Found(Sent, Requests) = {}
    BY <1>1, <1>2 DEF Stage, OnWay
  <2>2. mainAt' \in {"chat", "command"} => Found(Sent, {"loginout"}) = {}
    <3>1. link = "cut" => Found(Sent, {"loginout"}) = {}
      BY DEF Sent, Found
    <3>. QED
      BY <1>1, <1>2, <3>1 DEF Stage, OnWay
  <2>. QED
    BY <1>4, <2>1, <2>2 DEF OnWay
<1>8. Served(z)'
  BY <1>1, <1>2, <1>3 DEF Stage, Served
<1>9. Coming(z)'
  BY <1>1, <1>2, <1>3 DEF Stage, Coming, Found
<1>10. Handled(z)'
  BY <1>1, <1>2, <1>3 DEF Stage, Handled
<1>11. LogsIn(z)'
  BY <1>1, <1>2, <1>3 DEF Stage, LogsIn, Agreed, Handled
<1>. QED
  BY <1>6, <1>7, <1>8, <1>9, <1>10, <1>11 DEF StageInv, Stage, Stages

\* The reader takes a reply: an answer goes from coming to handled.
LEMMA StageOfRecv ==
    ASSUME WireInv, TypeInv, PlaceInv, StageInv, Recv
    PROVE  StageInv'
<1>1. PICK s \in Stages : Stage(s)
  BY DEF StageInv
<1>. DEFINE r == Head(replies)
<1>2. /\ r \in Replies /\ replies \in Seq(Replies) /\ replies # <<>>
      /\ frame' = r /\ replies' = Tail(replies)
      /\ readerAt = "recv" /\ readerAt' = AfterFrameOf(r.type)
      /\ isLoginSuccess' = (isLoginSuccess /\ r.type # "login_error")
      /\ UNCHANGED <<mainAt, asked, rwsem, currentUser, answer, binding, idle,
                     sendMutex, left, stream, inBuffer, link>>
  BY DEF Recv, TypeInv, ReaderGoes, mainVars, clockVars, AcksAs, wireVars
<1>10. /\ r = replies[1] /\ DOMAIN replies \subseteq Nat \ {0}
       /\ Found(replies, Answers) = {} =>
             Found(Tail(replies), Answers) = {} /\ r.type \notin Answers
       /\ \A i \in Nat : Found(replies, Answers) = {i} =>
             IF r.type \in Answers
             THEN i = 1 /\ Found(Tail(replies), Answers) = {}
             ELSE /\ i # 1 /\ i - 1 \in DOMAIN Tail(replies)
                  /\ Found(Tail(replies), Answers) = {i - 1}
                  /\ Tail(replies)[i - 1] = replies[i]
  BY <1>2, FoundInTail, Zenon
<1>. HIDE DEF r
<1>3. Sent' = Sent
  BY <1>2, SentStill
<1>4. Asked' <=> Asked
  <2>1. call'["main"] = call["main"]
    <3>1. CASE UNCHANGED wireVars
      BY <3>1 DEF wireVars
    <3>2. CASE AcksAs(currentUser)
      <4>1. [type |-> "ack", user |-> currentUser] \in Frames
        BY FramesAre DEF TypeInv
      <4>. QED
        BY <3>2, <4>1, CallOf, ThreadsAre DEF AcksAs
    <3>. QED
      BY <3>1, <3>2 DEF Recv
  <2>. QED
    BY <1>2, <2>1 DEF Asked
<1>5. CASE r.type \in Answers
  <2>. DEFINE z == "handled"
  <2>1. PICK i \in DOMAIN replies : /\ s = "coming" /\ Found(replies, Answers) = {i}
                                    /\ Fits(replies[i])
    <3>1. Found(replies, Answers) # {}
      BY <1>5, <1>10
    <3>. QED
      BY <1>1, <3>1 DEF Stage, Coming
  <2>2. i = 1 /\ r = replies[1] /\ Found(Tail(replies), Answers) = {}
    <3>1. i \in Nat
      BY <1>10, <2>1
    <3>. QED
      BY <1>5, <1>10, <2>1, <3>1
  <2>3. readerAt' \in {"write", "post"}
    BY <1>2, <1>5 DEF AfterFrameOf, Answers
  <2>4. Waits(z)'
    BY <1>1, <1>2, <1>4, <2>1 DEF Stage, Waits
  <2>5. OnWay(z)'
    BY <1>1, <1>2, <1>3, <2>1 DEF Stage, OnWay, Found
  <2>6. Served(z)'
    BY <1>1, <1>2, <2>1 DEF Stage, Served
  <2>7. Coming(z)'
    BY <1>2, <2>2 DEF Coming
  <2>8. Handled(z)'
    BY <1>2, <2>1, <2>2, <2>3 DEF Handled, Fits
  <2>9. LogsIn(z)'
    BY <1>1, <1>2, <2>1, <2>3 DEF Stage, LogsIn, Waits
  <2>. QED
    BY <2>4, <2>5, <2>6, <2>7, <2>8, <2>9 DEF StageInv, Stage, Stages
<1>6. CASE r.type \notin Answers
  <2>1. readerAt' \in {"recv", "ack"} /\ isLoginSuccess' = isLoginSuccess
    BY <1>2, <1>6, RepliesAre DEF AfterFrameOf, Answers, TypeInv
  <2>2. s # "handled"
    BY <1>1, <1>2 DEF Stage, Handled
  <2>3. Waits(s)'
    BY <1>1, <1>2, <1>4 DEF Stage, Waits
  <2>4. OnWay(s)'
    BY <1>1, <1>2, <1>3 DEF Stage, OnWay, Found
  <2>5. Served(s)'
    BY <1>1, <1>2 DEF Stage, Served, Fits
  <2>6. Coming(s)'
    <3>1. CASE s = "coming"
      <4>1. PICK i \in DOMAIN replies : Found(replies, Answers) = {i} /\ Fits(replies[i])
        BY <1>1, <3>1 DEF Stage, Coming
      <4>2. i \in Nat
        BY <1>10, <4>1
      <4>3. /\ i - 1 \in DOMAIN Tail(replies) /\ Found(Tail(replies), Answers) = {i - 1}
            /\ Tail(replies)[i - 1] = replies[i]
        BY <1>6, <1>10, <4>1, <4>2
      <4>4. PICK j \in DOMAIN replies' : /\ Found(replies', Answers) = {j}
                                         /\ replies'[j] = replies[i]
        BY <1>2, <4>3
      <4>. QED
        BY <1>2, <3>1, <4>1, <4>4 DEF Coming, Fits
    <3>2. CASE s # "coming"
      <4>1. Found(replies, Answers) = {}
        BY <1>1, <3>2 DEF Stage, Coming
      <4>2. Found(Tail(replies), Answers) = {}
        BY <1>2, <4>1, FoundInTail
      <4>. QED
        BY <1>2, <3>2, <4>2 DEF Coming
    <3>. QED
      BY <3>1, <3>2
  <2>7. Handled(s)'
    BY <2>1, <2>2 DEF Handled
  <2>8. LogsIn(s)'
    BY <1>1, <1>2, <2>1, <2>2 DEF Stage, LogsIn, Agreed
  <2>. QED
    BY <2>3, <2>4, <2>5, <2>6, <2>7, <2>8 DEF StageInv, Stage
<1>. QED
  BY <1>5, <1>6

\* The reader takes the answer to the semaphore.
LEMMA StageOfReader ==
    ASSUME WireInv, TypeInv, PlaceInv, StageInv, WriteGlobals \/ LoginSuccess \/ SemPost
    PROVE  StageInv'
<1>1. PICK s \in Stages : Stage(s)
  BY DEF StageInv
<1>2. /\ readerAt \in {"write", "unread", "post"} /\ s = "handled"
      /\ mainAt \in {"login", "reg"} /\ rwsem = 0 /\ idle = 0 /\ Fits(frame)
  BY <1>1 DEF WriteGlobals, LoginSuccess, SemPost, Stage, Handled, Waits
<1>3. UNCHANGED <<mainAt, asked, frame, answer, binding, replies, idle,
                  sendMutex, left, stream, inBuffer, link>>
  BY DEF WriteGlobals, LoginSuccess, SemPost, mainVars, serverVars, clockVars,
     AcksAs, wireVars
<1>4. Sent' = Sent
  BY <1>3, SentStill
<1>5. Asked' <=> Asked
  <2>1. call'["main"] = call["main"]
    <3>1. CASE UNCHANGED wireVars
      BY <3>1 DEF wireVars
    <3>2. CASE WriteGlobals /\ AcksAs(frame.user)
      <4>1. [type |-> "ack", user |-> frame.user] \in Frames
        BY <3>2, FramesAre, RepliesAre DEF WriteGlobals, PlaceInv, TypeInv
      <4>. QED
        BY <3>2, <4>1, CallOf, ThreadsAre DEF AcksAs
    <3>. QED
      BY <3>1, <3>2 DEF WriteGlobals, LoginSuccess, SemPost
  <2>. QED
    BY <1>3, <2>1 DEF Asked
<1>6. \A z \in {"handled", "posted"} : OnWay(z)' /\ Served(z)' /\ Coming(z)'
  <2>. TAKE z \in {"handled", "posted"}
  <2>1. OnWay(z)'
    BY <1>1, <1>2, <1>3, <1>4 DEF Stage, OnWay, Found
  <2>2. Served(z)'
    BY <1>1, <1>2, <1>3 DEF Stage, Served
  <2>3. Coming(z)'
    BY <1>1, <1>2, <1>3 DEF Stage, Coming, Found
  <2>. QED
    BY <2>1, <2>2, <2>3
<1>7. CASE WriteGlobals
  <2>1. readerAt = "write" /\ readerAt' = "unread" /\ currentUser' = frame.user
        /\ UNCHANGED <<rwsem, isLoginSuccess>>
    BY <1>7 DEF WriteGlobals, ReaderGoes
  <2>2. Waits("handled")'
    BY <1>1, <1>2, <1>3, <1>5, <2>1 DEF Stage, Waits
  <2>3. Handled("handled")'
    BY <1>2, <1>3, <2>1 DEF Handled, Fits
  <2>4. LogsIn("handled")'
    BY <1>1, <1>2, <1>3, <2>1 DEF Stage, LogsIn
  <2>. QED
    BY <1>6, <2>2, <2>3, <2>4 DEF StageInv, Stage, Stages
<1>8. CASE LoginSuccess
  <2>1. readerAt = "unread" /\ readerAt' = "post"
        /\ UNCHANGED <<rwsem, currentUser>>
    BY <1>8 DEF LoginSuccess, ReaderGoes
  <2>2. Waits("handled")'
    BY <1>1, <1>2, <1>3, <1>5, <2>1 DEF Stage, Waits
  <2>3. Handled("handled")'
    BY <1>2, <1>3, <2>1 DEF Handled, Fits
  <2>4. frame.type = "login_ok" /\ currentUser = frame.user
    BY <1>1, <2>1 DEF PlaceInv, Stage, LogsIn
  <2>5. LogsIn("handled")'
    BY <1>2, <1>3, <2>1, <2>4 DEF LogsIn, Fits, Agreed
  <2>. QED
    BY <1>6, <2>2, <2>3, <2>5 DEF StageInv, Stage, Stages
<1>9. CASE SemPost
  <2>1. readerAt = "post" /\ readerAt' = "recv" /\ rwsem' = 1
        /\ UNCHANGED <<isLoginSuccess, currentUser>>
    BY <1>2, <1>9 DEF SemPost, ReaderGoes
  <2>2. Waits("posted")'
    BY <1>1, <1>2, <1>3, <1>5, <2>1 DEF Stage, Waits
  <2>3. Handled("posted")'
    BY <2>1 DEF Handled
  <2>4. LogsIn("posted")'
    BY <1>1, <1>2, <1>3, <2>1 DEF Stage, LogsIn, Agreed
  <2>. QED
    BY <1>6, <2>2, <2>3, <2>4 DEF StageInv, Stage, Stages
<1>. QED
  BY <1>7, <1>8, <1>9

\* sendJsonFrame: the request goes from asked to sent.
LEMMA StageOfSends ==
    ASSUME WireInv, TypeInv, PlaceInv, StageInv, NEW t \in Threads, Sends(t)
    PROVE  StageInv'
<1>1. PICK s \in Stages : Stage(s)
  BY DEF StageInv
<1>2. UNCHANGED <<mainAt, asked, rwsem, isLoginSuccess, currentUser, readerAt, frame,
                  answer, binding, replies>>
  BY DEF Sends, clientVars, serverVars
<1>3. Sent \in Seq(Frames)
  BY SentTyped
<1>4. CASE SendPart(t)
  <2>1. Sent' = Sent
    BY <1>4, SentMoves
  <2>2. (Asked' <=> Asked) /\ link' = link /\ (idle' = 0 \/ idle' = idle)
    BY <1>4 DEF SendPart, Asked, Sends
  <2>. QED
    BY <1>2, <2>1, <2>2, StageSame
<1>5. CASE Return(t)
  <2>1. Sent' = Sent
    BY <1>5, SentMoves
  <2>2. sendMutex = t /\ sendMutex' = None /\ call' = [call EXCEPT ![t] = None] /\ link' = link
    BY <1>5 DEF Return
  <2>3. Asked' <=> Asked
    BY <2>2, ThreadsAre, NewlineIsNoFrame DEF Asked, WireInv, WireTypes
  <2>4. idle' = idle \/ idle' = 0
    BY DEF Sends
  <2>. QED
    BY <1>2, <2>1, <2>2, <2>3, <2>4, StageSame
<1>6. CASE Lock(t)
  <2>1. /\ sendMutex = None /\ sendMutex' = t /\ call' = call /\ link' = link
        /\ call[t] # None
    BY <1>6 DEF Lock, MutexFree
  <2>2. /\ call[t] \in Frames
        /\ link = "open" => Sent' = Append(Sent, call[t])
        /\ link = "cut" => Sent' = Sent
    BY <1>6, SentMoves
  <2>3. link = "open" \/ link = "cut"
    BY DEF WireInv, WireTypes
  <2>4. idle' = idle \/ idle' = 0
    BY DEF Sends
  <2>5. CASE call[t].type \in Requests
    <3>1. /\ t = "main" /\ call[t].type = mainAt /\ mainAt \in {"login", "reg"}
          /\ mainAt = "login" => call[t].user = asked
      BY <2>1, <2>5, ThreadsAre DEF PlaceInv, Requests
    <3>2. Asked /\ ~Asked'
      BY <2>1, <2>5, <3>1, ThreadsAre, NewlineIsNoFrame DEF Asked
    <3>3. s = "asked"
      BY <1>1, <3>2 DEF Stage, Waits
    <3>10. PICK z \in Stages : z = IF link = "open" THEN "sent" ELSE "none"
      BY DEF Stages
    <3>4. Waits(z)'
      BY <1>1, <1>2, <2>1, <2>3, <3>1, <3>2, <3>3, <3>10 DEF Stage, Waits
    <3>5. OnWay(z)'
      <4>1. Found(Sent, Requests) = {} /\ mainAt' \notin {"chat", "command"}
        BY <1>1, <1>2, <3>1, <3>3 DEF Stage, OnWay
      <4>2. CASE link = "cut"
        <5>1. z = "none" /\ Sent' = Sent
          BY <2>2, <3>10, <4>2
        <5>2. Found(Sent', Requests) = {}
          BY <4>1, <5>1
        <5>. QED
          BY <4>1, <5>1, <5>2 DEF OnWay
      <4>3. CASE link = "open"
        <5>. DEFINE i == Len(Sent) + 1
        <5>1. z = "sent" /\ Sent' = Append(Sent, call[t])
          BY <2>2, <3>10, <4>3
        <5>2. /\ i \in DOMAIN Sent' /\ Sent'[i] = call[t]
              /\ Found(Sent', Requests) = {i}
              /\ Found(Sent', {"loginout"}) = Found(Sent, {"loginout"})
          <6>1. call[t].type \notin {"loginout"}
            BY <2>5 DEF Requests
          <6>2. /\ Len(Sent) + 1 \in DOMAIN Append(Sent, call[t])
                /\ Append(Sent, call[t])[Len(Sent) + 1] = call[t]
                /\ Found(Append(Sent, call[t]), Requests)
                     = Found(Sent, Requests) \cup {Len(Sent) + 1}
            BY <1>3, <2>2, <2>5, FoundAppended
          <6>3. Found(Append(Sent, call[t]), {"loginout"}) = Found(Sent, {"loginout"})
            BY <1>3, <2>2, <6>1, FoundAppended
          <6>. QED
            BY <4>1, <5>1, <6>2, <6>3
        <5>3. \A j \in Found(Sent, {"loginout"}) : j < i
          BY <1>3, <2>2, FoundAppended DEF Found
        <5>. HIDE DEF i
        <5>. QED
          BY <1>2, <3>1, <4>1, <5>1, <5>2, <5>3 DEF OnWay
      <4>. QED
        BY <2>3, <4>2, <4>3
    <3>11. z # "served" /\ z # "coming" /\ z # "handled" /\ z # "posted"
      BY <3>10
    <3>6. Served(z)'
      BY <1>1, <1>2, <3>3, <3>11, <2>1 DEF Stage, Served
    <3>7. Coming(z)'
      BY <1>1, <1>2, <3>3, <3>11 DEF Stage, Coming, Found
    <3>8. Handled(z)'
      BY <1>1, <1>2, <3>3, <3>11 DEF Stage, Handled
    <3>9. LogsIn(z)'
      BY <1>1, <1>2, <3>1, <3>3 DEF Stage, LogsIn, Handled
    <3>. QED
      BY <3>4, <3>5, <3>6, <3>7, <3>8, <3>9 DEF StageInv, Stage
  <2>6. CASE call[t].type \notin Requests
    <3>1. Asked' <=> Asked
      BY <2>1, <2>6, ThreadsAre, NewlineIsNoFrame DEF Asked
    <3>2. Waits(s)'
      BY <1>1, <1>2, <2>1, <2>4, <3>1 DEF Stage, Waits
    <3>3. OnWay(s)'
      <4>1. CASE link = "cut"
        BY <1>1, <1>2, <2>2, <4>1 DEF Stage, OnWay, Found
      <4>2. CASE link = "open"
        <5>1. /\ \A i \in DOMAIN Sent : i \in DOMAIN Sent' /\ Sent'[i] = Sent[i]
              /\ Found(Sent', Requests) = Found(Sent, Requests)
              /\ \A i \in DOMAIN Sent : i < Len(Sent) + 1
          <6>1. Sent' = Append(Sent, call[t])
            BY <2>2, <4>2
          <6>. QED
            BY <1>3, <2>2, <2>6, <6>1, FoundAppended
        <5>2. call[t].type = "loginout" => mainAt = "loginout" /\ s = "none"
          <6>1. t = "main" /\ call[t].type = "loginout" => mainAt = "loginout"
            BY <2>1 DEF PlaceInv
          <6>2. t \in {"reader", "heartbeat"} => call[t].type # "loginout"
            BY <2>1 DEF PlaceInv
          <6>3. mainAt = "loginout" => s = "none"
            BY <1>1 DEF Stage, Waits
          <6>. QED
            BY <6>1, <6>2, <6>3, ThreadsAre
        <5>3. call[t].type # "loginout" => Found(Sent', {"loginout"}) = Found(Sent, {"loginout"})
          <6>1. Sent' = Append(Sent, call[t])
            BY <2>2, <4>2
          <6>. QED
            BY <1>3, <2>2, <6>1, FoundAppended
        <5>4. CASE call[t].type = "loginout"
          <6>1. s = "none" /\ mainAt' = "loginout"
            BY <1>2, <5>2, <5>4
          <6>2. Found(Sent', Requests) = {}
            BY <1>1, <5>1, <6>1 DEF Stage, OnWay
          <6>. QED
            BY <6>1, <6>2 DEF OnWay
        <5>5. CASE call[t].type # "loginout"
          BY <1>1, <1>2, <5>1, <5>3, <5>5 DEF Stage, OnWay
        <5>. QED
          BY <5>4, <5>5
      <4>. QED
        BY <2>3, <4>1, <4>2
    <3>4. Served(s)'
      BY <1>1, <1>2, <2>1 DEF Stage, Served, Fits
    <3>5. Coming(s)'
      BY <1>1, <1>2, <2>1 DEF Stage, Coming, Found, Fits
    <3>6. Handled(s)'
      BY <1>1, <1>2, <2>1 DEF Stage, Handled, Fits
    <3>7. LogsIn(s)'
      BY <1>1, <1>2, <2>1 DEF Stage, LogsIn, Agreed
    <3>. QED
      BY <3>2, <3>3, <3>4, <3>5, <3>6, <3>7 DEF StageInv, Stage
  <2>. QED
    BY <2>5, <2>6
<1>. QED
  BY <1>4, <1>5, <1>6 DEF Sends

\* The server takes a line: a request is answered, anything else changes
\* nothing for the answer main waits for.
LEMMA StageOfLine ==
    ASSUME WireInv, TypeInv, PlaceInv, StageInv, ServerDispatches
    PROVE  StageInv'
<1>1. PICK s \in Stages : Stage(s)
  BY DEF StageInv
<1>. DEFINE f == Head(Sent)
<1>2. /\ link = "open" /\ link' = link /\ Sent # <<>> /\ Sent \in Seq(Frames)
      /\ Sent' = Tail(Sent) /\ Serves(f) /\ answer = None
      /\ UNCHANGED <<mainAt, asked, rwsem, isLoginSuccess, currentUser, readerAt,
                     frame, replies, idle, call, sendMutex>>
  <2>1. TakeLine /\ answer = None /\ UNCHANGED <<clientVars, replies, clockVars>>
        /\ IF Parses THEN Serves(Line[1]) ELSE UNCHANGED <<answer, binding, chats>>
    BY DEF ServerDispatches
  <2>2. /\ link = "open" /\ Sent # <<>> /\ Sent' = Tail(Sent)
        /\ Parses /\ Line[1] = Head(Sent)
    BY <2>1, SentMoves
  <2>3. UNCHANGED <<call, sendMutex, link>>
    BY <2>1 DEF TakeLine
  <2>. QED
    BY <2>1, <2>2, <2>3, SentTyped DEF clientVars, clockVars
<1>3. /\ f \in Frames /\ f = Sent[1] /\ DOMAIN Sent \subseteq Nat \ {0}
      /\ \A types :
           /\ Found(Sent, types) = {} =>
                Found(Tail(Sent), types) = {} /\ f.type \notin types
           /\ \A i \in Nat : Found(Sent, types) = {i} =>
                IF f.type \in types
                THEN i = 1 /\ Found(Tail(Sent), types) = {}
                ELSE /\ i # 1 /\ i - 1 \in DOMAIN Tail(Sent)
                     /\ Found(Tail(Sent), types) = {i - 1} /\ Tail(Sent)[i - 1] = Sent[i]
           /\ \A i \in Found(Tail(Sent), types) : i \in Nat /\ i + 1 \in Found(Sent, types)
  <2>1. f \in Frames
    BY <1>2, HeadTailProperties
  <2>2. ASSUME NEW types
        PROVE  /\ f = Sent[1] /\ DOMAIN Sent \subseteq Nat \ {0}
               /\ Found(Sent, types) = {} =>
                    Found(Tail(Sent), types) = {} /\ f.type \notin types
               /\ \A i \in Nat : Found(Sent, types) = {i} =>
                    IF f.type \in types
                    THEN i = 1 /\ Found(Tail(Sent), types) = {}
                    ELSE /\ i # 1 /\ i - 1 \in DOMAIN Tail(Sent)
                         /\ Found(Tail(Sent), types) = {i - 1}
                         /\ Tail(Sent)[i - 1] = Sent[i]
               /\ \A i \in Found(Tail(Sent), types) : i \in Nat /\ i + 1 \in Found(Sent, types)
    BY <1>2, FoundInTail, Zenon
  <2>. QED
    BY <2>1, <2>2
<1>. HIDE DEF f
<1>4. Asked' <=> Asked
  BY <1>2 DEF Asked
<1>5. s # "served"
  BY <1>1, <1>2 DEF Stage, Served
<1>6. CASE f.type \in Requests
  <2>1. PICK i \in DOMAIN Sent :
           /\ s = "sent"
           /\ Found(Sent, Requests) = {i}
           /\ Sent[i].type = mainAt
           /\ mainAt = "login" => Sent[i].user = asked
           /\ \A j \in Found(Sent, {"loginout"}) : j < i
    <3>1. Found(Sent, Requests) # {}
      BY <1>3, <1>6
    <3>. QED
      BY <1>1, <3>1 DEF Stage, OnWay
  <2>2. i \in Nat
    BY <1>3, <2>1
  <2>3. /\ f.type = mainAt
        /\ mainAt = "login" => f.user = asked
        /\ mainAt \in {"login", "reg"} /\ Found(Tail(Sent), Requests) = {} /\ i = 1
    BY <1>3, <1>6, <2>1, <2>2 DEF Requests
  <2>4. Found(Tail(Sent), {"loginout"}) = {}
    <3>1. Found(Sent, {"loginout"}) = {}
      <4>1. \A j \in Found(Sent, {"loginout"}) : j \in Nat \ {0} /\ j < 1
        BY <1>3, <2>1, <2>3 DEF Found
      <4>. QED
        BY <4>1
    <3>. QED
      BY <1>3, <3>1
  <2>5. answer' # None /\ Fits(answer)' /\ rwsem = 0
    <3>1. rwsem = 0
      BY <1>1, <2>1 DEF Stage, Waits
    <3>2. CASE ServesLogin(f)
      <4>1. mainAt' = "login" /\ f.user = asked /\ asked' = asked
        BY <1>2, <2>3, <3>2 DEF ServesLogin
      <4>2. CASE answer' = Reply("login_error")
        BY <3>1, <4>1, <4>2, RepliesAre DEF Fits
      <4>3. CASE \E unread \in 0..1 :
                   /\ answer' = [type |-> "login_ok", user |-> f.user,
                                 unread |-> unread = 1]
                   /\ binding' = f.user
        <5>1. answer'.type = "login_ok" /\ answer'.user = asked' /\ binding' = asked'
          BY <4>1, <4>3
        <5>2. answer' # None
          <6>1. TypeInv /\ f.user \in Users \cup {None}
            BY <1>3 DEF Frames
          <6>2. PICK unread \in 0..1 :
                     answer' = [type |-> "login_ok", user |-> f.user,
                                unread |-> unread = 1]
            BY <4>3
          <6>3. (unread = 1) \in BOOLEAN
            OBVIOUS
          <6>4. answer' \in Replies
            BY <6>1, <6>2, <6>3 DEF Replies
          <6>. QED
            BY <6>4, RepliesAre
        <5>. QED
          BY <3>1, <4>1, <5>1, <5>2 DEF Fits
      <4>. QED
        BY <3>2, <4>2, <4>3 DEF ServesLogin
    <3>3. CASE ServesReg(f)
      <4>1. answer' = Reply("reg_ack") /\ mainAt' = "reg"
        BY <1>2, <2>3, <3>3 DEF ServesReg
      <4>2. answer'.type = "reg_ack" /\ answer' # None
        BY <4>1, RepliesAre
      <4>. QED
        BY <3>1, <4>1, <4>2 DEF Fits
    <3>. QED
      BY <1>2, <1>6, <3>2, <3>3 DEF Serves, ServesLoginout, ServesHeartbeat, ServesOther, Requests
  <2>. DEFINE z == "served"
  <2>6. Waits(z)'
    BY <1>1, <1>2, <1>4, <2>1, <2>3 DEF Stage, Waits
  <2>7. OnWay(z)'
    BY <1>2, <2>3, <2>4 DEF OnWay
  <2>8. Served(z)'
    BY <2>5 DEF Served
  <2>9. Coming(z)'
    BY <1>1, <1>2, <2>1 DEF Stage, Coming, Found
  <2>10. Handled(z)'
    BY <1>1, <1>2, <2>1 DEF Stage, Handled
  <2>11. LogsIn(z)'
    BY <1>1, <1>2, <2>1, <2>3 DEF Stage, LogsIn
  <2>. QED
    BY <2>6, <2>7, <2>8, <2>9, <2>10, <2>11 DEF StageInv, Stage, Stages
<1>7. CASE f.type \notin Requests
  <2>1. /\ answer' # None => answer'.type \notin Answers
        /\ f.type # "loginout" => binding' = binding
    <3>1. CASE ServesLoginout(f)
      BY <1>2, <3>1 DEF ServesLoginout
    <3>2. CASE ServesHeartbeat(f)
      <4>1. answer' = Reply("heartbeat") /\ binding' = binding
        BY <3>2 DEF ServesHeartbeat
      <4>2. answer'.type = "heartbeat"
        BY <4>1, RepliesAre
      <4>. QED
        BY <4>1, <4>2 DEF Answers
    <3>3. CASE ServesOther(f)
      BY <1>2, <3>3 DEF ServesOther
    <3>. QED
      BY <1>2, <1>7, <3>1, <3>2, <3>3 DEF Serves, ServesLogin, ServesReg, Requests
  <2>2. f.type = "loginout" =>
           s \notin {"served", "coming", "handled", "posted"} /\ mainAt \notin {"chat", "command"}
    <3>1. f.type = "loginout" => Found(Sent, {"loginout"}) # {}
      BY <1>3
    <3>. QED
      BY <1>1, <3>1 DEF Stage, OnWay
  <2>3. Waits(s)'
    BY <1>1, <1>2, <1>4 DEF Stage, Waits
  <2>4. OnWay(s)'
    <3>1. CASE s = "sent"
      <4>1. PICK i \in DOMAIN Sent :
             /\ Found(Sent, Requests) = {i}
             /\ Sent[i].type = mainAt
             /\ mainAt = "login" => Sent[i].user = asked
             /\ \A j \in Found(Sent, {"loginout"}) : j < i
        BY <1>1, <3>1 DEF Stage, OnWay
      <4>2. i \in Nat
        BY <1>3, <4>1
      <4>3. /\ i - 1 \in DOMAIN Tail(Sent)
            /\ Found(Tail(Sent), Requests) = {i - 1} /\ Tail(Sent)[i - 1] = Sent[i]
        BY <1>3, <1>7, <4>1, <4>2
      <4>4. \A j \in Found(Tail(Sent), {"loginout"}) : j < i - 1
        <5>. TAKE j \in Found(Tail(Sent), {"loginout"})
        <5>1. j \in Nat /\ j + 1 \in Found(Sent, {"loginout"})
          BY <1>3
        <5>2. j + 1 < i
          BY <4>1, <5>1
        <5>. QED
          BY <4>2, <5>1, <5>2
      <4>5. mainAt' \notin {"chat", "command"}
        BY <1>1, <1>2, <3>1 DEF Stage, Waits
      <4>6. PICK k \in DOMAIN Sent' :
             /\ Found(Sent', Requests) = {k}
             /\ Sent'[k].type = mainAt'
             /\ mainAt' = "login" => Sent'[k].user = asked'
             /\ \A j \in Found(Sent', {"loginout"}) : j < k
        BY <1>2, <4>1, <4>3, <4>4
      <4>. QED
        BY <3>1, <4>5, <4>6 DEF OnWay
    <3>2. CASE s # "sent"
      <4>1. Found(Sent', Requests) = {}
        BY <1>1, <1>2, <1>3, <3>2 DEF Stage, OnWay
      <4>2. Found(Sent, {"loginout"}) = {} => Found(Sent', {"loginout"}) = {}
        BY <1>2, <1>3
      <4>. QED
        BY <1>1, <1>2, <3>2, <4>1, <4>2 DEF Stage, OnWay
    <3>. QED
      BY <3>1, <3>2
  <2>5. Served(s)'
    BY <1>5, <2>1 DEF Served
  <2>6. Coming(s)'
    BY <1>1, <1>2, <2>1, <2>2 DEF Stage, Coming, Found, Fits
  <2>7. Handled(s)'
    BY <1>1, <1>2, <2>1, <2>2 DEF Stage, Handled, Fits
  <2>8. LogsIn(s)'
    BY <1>1, <1>2, <2>1, <2>2 DEF Stage, LogsIn, Agreed
  <2>. QED
    BY <2>3, <2>4, <2>5, <2>6, <2>7, <2>8 DEF StageInv, Stage
<1>. QED
  BY <1>6, <1>7

\* The server answers: the answer goes from served to coming.
LEMMA StageOfReply ==
    ASSUME WireInv, TypeInv, PlaceInv, StageInv, ServerAnswers \/ OthersChat
    PROVE  StageInv'
<1>1. PICK s \in Stages : Stage(s)
  BY DEF StageInv
<1>2. PICK r \in Replies :
         /\ replies' = Append(replies, r) /\ idle' = 0
         /\ \/ r = answer /\ answer' = None
            \/ r.type = "chat" /\ answer' = answer
         /\ UNCHANGED <<mainAt, asked, rwsem, isLoginSuccess, currentUser, readerAt,
                        frame, binding, sendMutex, left, stream, inBuffer, link, call>>
  <2>1. CASE ServerAnswers
    BY <2>1 DEF ServerAnswers, TypeInv, wireVars, clientVars
  <2>2. CASE OthersChat
    BY <2>2, RepliesAre DEF OthersChat, wireVars, clientVars
  <2>. QED
    BY <2>1, <2>2
<1>3. Sent' = Sent /\ (Asked' <=> Asked)
  BY <1>2, SentStill DEF Asked
<1>4. /\ \A i \in DOMAIN replies : i \in DOMAIN replies' /\ replies'[i] = replies[i]
      /\ Len(replies) + 1 \in DOMAIN replies' /\ replies'[Len(replies) + 1] = r
      /\ r.type \in Answers =>
           Found(replies', Answers) = Found(replies, Answers) \cup {Len(replies) + 1}
      /\ r.type \notin Answers => Found(replies', Answers) = Found(replies, Answers)
  <2>1. replies \in Seq(Replies) /\ replies' = Append(replies, r)
    BY <1>2 DEF TypeInv
  <2>. QED
    BY <2>1, FoundAppended
<1>5. None \notin Replies /\ "chat" \notin Answers
  BY RepliesAre DEF Answers
<1>6. CASE r.type \in Answers
  <2>1. r = answer /\ answer' = None /\ s = "served" /\ Fits(r)
    BY <1>1, <1>2, <1>5, <1>6 DEF Stage, Served
  <2>. DEFINE z == "coming"
  <2>2. Waits(z)'
    BY <1>1, <1>2, <1>3, <2>1 DEF Stage, Waits
  <2>3. OnWay(z)'
    BY <1>1, <1>2, <1>3, <2>1 DEF Stage, OnWay, Found
  <2>4. Served(z)'
    BY <2>1 DEF Served
  <2>5. Coming(z)'
    <3>1. Found(replies, Answers) = {}
      BY <1>1, <2>1 DEF Stage, Coming
    <3>2. PICK i \in DOMAIN replies' : Found(replies', Answers) = {i} /\ replies'[i] = r
      BY <1>4, <1>6, <3>1
    <3>. QED
      BY <1>2, <2>1, <3>2 DEF Coming, Fits
  <2>6. Handled(z)'
    BY <1>1, <1>2, <2>1 DEF Stage, Handled
  <2>7. LogsIn(z)'
    BY <1>1, <1>2, <2>1 DEF Stage, LogsIn, Agreed
  <2>. QED
    BY <2>2, <2>3, <2>4, <2>5, <2>6, <2>7 DEF StageInv, Stage, Stages
<1>7. CASE r.type \notin Answers
  <2>1. s = "served" => answer' = answer
    <3>1. s = "served" => answer.type \in Answers
      BY <1>1 DEF Stage, Served, Fits, Answers
    <3>. QED
      BY <1>2, <1>7, <3>1
  <2>2. Waits(s)'
    BY <1>1, <1>2, <1>3 DEF Stage, Waits
  <2>3. OnWay(s)'
    BY <1>1, <1>2, <1>3 DEF Stage, OnWay, Found
  <2>4. Served(s)'
    BY <1>1, <1>2, <2>1 DEF Stage, Served, Fits
  <2>5. Coming(s)'
    BY <1>1, <1>2, <1>4, <1>7 DEF Stage, Coming, Fits
  <2>6. Handled(s)'
    BY <1>1, <1>2 DEF Stage, Handled, Fits
  <2>7. LogsIn(s)'
    BY <1>1, <1>2 DEF Stage, LogsIn, Agreed
  <2>. QED
    BY <2>2, <2>3, <2>4, <2>5, <2>6, <2>7 DEF StageInv, Stage
<1>. QED
  BY <1>6, <1>7

\* A break can lose the request or its answer on the way; nobody waits for
\* an open connection any more.
LEMMA StageOfCut ==
    ASSUME WireInv, StageInv, LinkBreaks
    PROVE  StageInv'
<1>1. PICK s \in Stages : Stage(s)
  BY DEF StageInv
<1>2. /\ link' = "cut" /\ link' # "open" /\ Sent' = <<>> /\ answer' = None
      /\ UNCHANGED <<mainAt, asked, rwsem, isLoginSuccess, currentUser, readerAt, frame,
                     replies, idle, call, sendMutex>>
  BY SentMoves DEF LinkBreaks, CutLink, clientVars, clockVars
<1>3. \A types : Found(Sent', types) = {}
  BY <1>2 DEF Found
<1>4. PICK z \in Stages : z = IF s \in {"sent", "served"} THEN "none" ELSE s
  BY DEF Stages
<1>5. Asked' <=> Asked
  BY <1>2 DEF Asked
<1>6. Waits(z)'
  BY <1>1, <1>2, <1>4, <1>5 DEF Stage, Waits
<1>7. OnWay(z)'
  BY <1>3, <1>4 DEF OnWay
<1>8. Served(z)'
  BY <1>2, <1>4 DEF Served
<1>9. Coming(z)'
  BY <1>1, <1>2, <1>4 DEF Stage, Coming, Found, Fits
<1>10. Handled(z)'
  BY <1>1, <1>2, <1>4 DEF Stage, Handled, Fits
<1>11. LogsIn(z)'
  BY <1>1, <1>2, <1>4 DEF Stage, LogsIn, Agreed
<1>. QED
  BY <1>6, <1>7, <1>8, <1>9, <1>10, <1>11 DEF StageInv, Stage

\* The answer stays where it is when the account is taken over.
LEMMA StageOfTaking ==
    ASSUME StageInv, BindingTaken
    PROVE  StageInv'
<1>1. PICK s \in Stages : Stage(s)
  BY DEF StageInv
<1>2. /\ binding' = None
      /\ UNCHANGED <<wireVars, mainAt, asked, rwsem, isLoginSuccess, currentUser,
                     readerAt, frame, answer, replies, idle>>
  BY DEF BindingTaken, clientVars, clockVars
<1>3. Sent' = Sent /\ (Asked' <=> Asked)
  BY <1>2, SentStill DEF wireVars, Asked
<1>4. Waits(s)'
  BY <1>1, <1>2, <1>3 DEF Stage, Waits, wireVars
<1>5. OnWay(s)'
  BY <1>1, <1>2, <1>3 DEF Stage, OnWay, Found
<1>6. Served(s)'
  BY <1>1, <1>2 DEF Stage, Served, Fits
<1>7. Coming(s)'
  BY <1>1, <1>2 DEF Stage, Coming, Found, Fits
<1>8. Handled(s)'
  BY <1>1, <1>2 DEF Stage, Handled, Fits
<1>9. LogsIn(s)'
  BY <1>1, <1>2 DEF Stage, LogsIn, Agreed
<1>. QED
  BY <1>4, <1>5, <1>6, <1>7, <1>8, <1>9 DEF StageInv, Stage

\* Every step keeps the answer in one stage.
LEMMA StagesKept ==
    ASSUME WireInv, TypeInv, PlaceInv, StageInv, [ClientNext]_vars
    PROVE  StageInv'
<1>1. CASE ChooseQuit \/ ReaderExits \/ SigPipe
  <2>1. UNCHANGED <<wireVars, mainVars, rwsem, isLoginSuccess, readerVars, serverVars, clockVars>>
    BY <1>1 DEF ChooseQuit, ReaderExits, SigPipe, Exits
  <2>. QED
    BY <2>1, SentStill, StageSame DEF wireVars, mainVars, readerVars, serverVars,
       clockVars, Asked
<1>2. CASE AckSent
  <2>1. /\ UNCHANGED <<wireVars, mainVars, rwsem, isLoginSuccess, currentUser,
                       frame, serverVars, clockVars>>
        /\ readerAt = "ack" /\ readerAt' = "recv"
    BY <1>2 DEF AckSent, ReaderGoes
  <2>. QED
    BY <2>1, SentStill, StageSame DEF wireVars, mainVars, serverVars, clockVars, Asked
<1>3. CASE HeartbeatCheck \/ HeartbeatSent
  <2>1. UNCHANGED <<wireVars, mainVars, rwsem, isLoginSuccess, readerVars, serverVars, idle>>
    BY <1>3 DEF HeartbeatCheck, HeartbeatSent
  <2>. QED
    BY <2>1, SentStill, StageSame DEF wireVars, mainVars, readerVars, serverVars, Asked
<1>4. CASE HeartbeatSend
  <2>1. /\ UNCHANGED <<sendMutex, left, stream, inBuffer, link, mainVars, rwsem,
                   isLoginSuccess, readerVars, serverVars, idle>>
        /\ Calls("heartbeat", [type |-> "heartbeat", user |-> currentUser])
    BY <1>4 DEF HeartbeatSend, clockVars
  <2>2. [type |-> "heartbeat", user |-> currentUser] \in Frames
    BY FramesAre DEF TypeInv
  <2>3. call'["main"] = call["main"]
    BY <2>1, <2>2, CallOf, ThreadsAre
  <2>. QED
    BY <2>1, <2>3, SentStill, StageSame DEF mainVars, readerVars, serverVars, Asked
<1>5. CASE ServerReads
  <2>1. UNCHANGED <<clientVars, serverVars, clockVars, call, sendMutex, link>> /\ Receive
    BY <1>5 DEF ServerReads, Receive
  <2>. QED
    BY <2>1, SentMoves, StageSame DEF clientVars, serverVars, clockVars, Asked
<1>6. CASE Tick
  <2>1. UNCHANGED <<wireVars, clientVars, serverVars>> /\ mainAt \notin {"login", "reg"}
    BY <1>6 DEF Tick, Quiet
  <2>. QED
    BY <2>1, SentStill, StageSame DEF wireVars, clientVars, serverVars, Asked
<1>7. CASE UNCHANGED vars
  BY <1>7, SentStill, StageSame DEF vars, wireVars, clientVars, serverVars, clockVars, Asked
<1>8. CASE LinkBreaks
  BY <1>8, StageOfCut
<1>9. CASE BindingTaken
  BY <1>9, StageOfTaking
<1>. QED
  BY <1>1, <1>2, <1>3, <1>4, <1>5, <1>6, <1>7, <1>8, <1>9, StageOfChoice, StageOfMain, StageOfRecv,
     StageOfReader, StageOfSends, StageOfLine, StageOfReply
     DEF ClientNext, MainThread, ReaderThread, HeartbeatThread, Server, NginxTimesOut, ServerGoes

-----------------------------------------------------------------------------
(* The clock *)

\* Every step keeps the clock of the heartbeat ahead of the proxy's.
LEMMA ClockKept ==
    ASSUME WireInv, TypeInv, PlaceInv, StageInv, ClockInv, [ClientNext]_vars
    PROVE  ClockInv'
<1>. USE ThreadsAre DEF ClockInv
<1>. idle \in Nat /\ sleeping \in Nat /\ sleeping <= 2
  BY DEF TypeInv, ProxyTimeout, HeartbeatPeriod
<1>1. CASE MainThread
  <2>1. /\ call'["heartbeat"] = call["heartbeat"]
        /\ UNCHANGED <<sendMutex, left, heartbeatAt, idle, sleeping>>
    <3>2. UNCHANGED <<sendMutex, left, heartbeatAt, idle, sleeping>>
      BY <1>1 DEF MainThread, ChooseLogin, ChooseRegister, ChooseQuit, LoginAnswered,
         RegAnswered, Command, CommandSent, Loginout, LoginoutSent, MainCalls, clockVars, wireVars
    <3>3. \/ UNCHANGED call
          \/ \E f : Calls("main", f)
      BY <1>1 DEF MainThread, ChooseLogin, ChooseRegister, ChooseQuit, LoginAnswered,
         RegAnswered, Command, CommandSent, Loginout, LoginoutSent, MainCalls, wireVars
    <3>4. call'["heartbeat"] = call["heartbeat"]
      BY <3>3 DEF Calls, WireInv, WireTypes
    <3>. QED
      BY <3>2, <3>4
  <2>2. mainAt' \in {"chat", "command", "loginout"} => isMainMenuRunning' /\ idle' + sleeping' <= 2
    <3>1. CASE LoginAnswered
      <4>1. idle = 0
        BY <3>1 DEF LoginAnswered, StageInv, Stage, Waits
      <4>2. idle' + sleeping' <= 2
        BY <2>1, <4>1
      <4>3. isLoginSuccess => isMainMenuRunning'
        BY <3>1 DEF LoginAnswered
      <4>4. mainAt' \in {"chat", "command", "loginout"} => isLoginSuccess
        BY <3>1 DEF LoginAnswered
      <4>. QED
        BY <4>2, <4>3, <4>4
    <3>2. CASE Command \/ CommandSent \/ Loginout \/ LoginoutSent
      BY <2>1, <3>2 DEF Command, CommandSent, Loginout, LoginoutSent
    <3>3. CASE ~LoginAnswered /\ ~Command /\ ~CommandSent /\ ~Loginout /\ ~LoginoutSent
      <4>1. mainAt' \in {"chat", "command", "loginout"} =>
              mainAt' = mainAt /\ isMainMenuRunning' = isMainMenuRunning
        BY <1>1, <3>3 DEF MainThread, ChooseLogin, ChooseRegister, ChooseQuit,
           RegAnswered, mainVars
      <4>. QED
        BY <2>1, <4>1
    <3>. QED
      BY <3>1, <3>2, <3>3
  <2>. QED
    BY <2>1, <2>2
<1>2. CASE ReaderThread
  <2>1. UNCHANGED <<mainAt, isMainMenuRunning, sendMutex, left, heartbeatAt, idle, sleeping>>
    BY <1>2 DEF ReaderThread, Recv, WriteGlobals, LoginSuccess, SemPost, AckSent,
       ReaderExits, Exits, AcksAs, wireVars, mainVars, clockVars
  <2>2. UNCHANGED call \/ \E f : Calls("reader", f)
    BY <1>2 DEF ReaderThread, Recv, WriteGlobals, LoginSuccess, SemPost, AckSent,
       ReaderExits, Exits, AcksAs, wireVars
  <2>3. call'["heartbeat"] = call["heartbeat"]
    BY <2>2 DEF Calls, WireInv, WireTypes
  <2>. QED
    BY <2>1, <2>3
<1>3. CASE HeartbeatCheck
  <2>1. mainAt \in {"chat", "command", "loginout"} => currentUser # None /\ isMainMenuRunning
    <3>1. mainAt \in {"chat", "command", "loginout"} => currentUser = asked /\ asked \in Users
      BY DEF StageInv, Stage, LogsIn, Agreed, PlaceInv
    <3>. QED
      BY <3>1, ClientAssumption
  <2>. QED
    BY <1>3, <2>1 DEF HeartbeatCheck, HeartbeatGoes, mainVars, wireVars
<1>4. CASE HeartbeatSend
  <2>1. [type |-> "heartbeat", user |-> currentUser] \in Frames
    BY FramesAre DEF TypeInv
  <2>2. call'["heartbeat"] # None
    BY <1>4, <2>1, CallOf DEF HeartbeatSend
  <2>3. sendMutex' # "heartbeat"
    <3>1. call["heartbeat"] = None
      BY <1>4 DEF HeartbeatSend, PlaceInv
    <3>. QED
      BY <1>4, <3>1, NewlineIsNoFrame DEF HeartbeatSend, WireInv, SenderInv
  <2>. QED
    BY <1>4, <2>2, <2>3 DEF HeartbeatSend, mainVars, clockVars
<1>5. CASE HeartbeatSent
  BY <1>5 DEF HeartbeatSent, HeartbeatGoes, Returned, mainVars, HeartbeatPeriod
<1>6. CASE \E t \in Threads : Sends(t)
  <2>1. PICK t \in Threads : Sends(t)
    BY <1>6
  <2>2. /\ UNCHANGED <<mainAt, isMainMenuRunning, heartbeatAt, sleeping>>
        /\ idle' = idle \/ idle' = 0
    BY <2>1 DEF Sends, clientVars
  <2>3. mainAt' \in {"chat", "command", "loginout"} =>
           isMainMenuRunning' /\ idle' + sleeping' <= 2
    BY <2>2
  <2>4. CASE SendPart(t)
    BY <2>1, <2>2, <2>3, <2>4 DEF Sends, SendPart, Lock, Return
  <2>5. CASE Lock(t)
    <3>1. /\ call' = call /\ sendMutex' = t /\ sendMutex = None
          /\ left' = [left EXCEPT ![t] = <<call[t], NL>>]
      BY <2>5 DEF Lock, MutexFree
    <3>2. left'["heartbeat"] = IF t = "heartbeat" THEN <<call["heartbeat"], NL>>
                               ELSE left["heartbeat"]
      BY <3>1 DEF WireInv, WireTypes
    <3>. QED
      BY <2>2, <2>3, <3>1, <3>2, NewlineIsNoFrame
  <2>6. CASE Return(t)
    <3>1. /\ call' = [call EXCEPT ![t] = None] /\ sendMutex' = None /\ sendMutex = t
          /\ left' = left /\ left[t] = <<>>
      BY <2>6 DEF Return
    <3>2. t = "heartbeat" => left["heartbeat"] # <<call["heartbeat"], NL>>
      BY <3>1
    <3>3. t # "heartbeat" => call'["heartbeat"] = call["heartbeat"]
      BY <3>1 DEF WireInv, WireTypes
    <3>. QED
      BY <2>2, <2>3, <3>1, <3>2, <3>3, NewlineIsNoFrame
  <2>. QED
    BY <2>1, <2>4, <2>5, <2>6 DEF Sends
<1>7. CASE ServerReads \/ ServerDispatches \/ NginxTimesOut \/ ServerGoes
  BY <1>7 DEF ServerReads, ServerDispatches, NginxTimesOut, ServerGoes, LinkBreaks,
     Receive, TakeLine, CutLink, clientVars, clockVars
<1>8. CASE ServerAnswers \/ BindingTaken \/ OthersChat
  BY <1>8 DEF ServerAnswers, BindingTaken, OthersChat, clientVars, wireVars, clockVars
<1>9. CASE SigPipe
  BY <1>9 DEF SigPipe, Exits, mainVars, clockVars, wireVars
<1>10. CASE Tick
  BY <1>10 DEF Tick, Quiet, clientVars
<1>11. CASE UNCHANGED vars
  BY <1>11 DEF vars, clientVars, clockVars, wireVars
<1>. QED
  BY <1>1, <1>2, <1>3, <1>4, <1>5, <1>6, <1>7, <1>8, <1>9, <1>10, <1>11
     DEF ClientNext, HeartbeatThread, Server

-----------------------------------------------------------------------------
(* The invariant and what follows from it *)

\* The initial states satisfy the invariant.
LEMMA ClientStarts == ClientInit => ClientInv
<1>. SUFFICES ASSUME ClientInit PROVE ClientInv
  OBVIOUS
<1>1. WireInv /\ Sent = <<>>
  BY WireStarts DEF ClientInit, WireInit, Sent
<1>2. TypeInv
  <2>1. inputs \in 0..MaxInputs /\ chats \in 0..MaxChats
    BY ClientAssumption DEF ClientInit
  <2>2. isMainMenuRunning \in BOOLEAN /\ isLoginSuccess \in BOOLEAN /\ alive \in BOOLEAN
    BY DEF ClientInit
  <2>3. sleeping \in 0..HeartbeatPeriod /\ idle \in 0..ProxyTimeout
    BY DEF ClientInit, HeartbeatPeriod, ProxyTimeout
  <2>4. replies \in Seq(Replies)
    BY DEF ClientInit
  <2>. QED
    BY <2>1, <2>2, <2>3, <2>4 DEF ClientInit, TypeInv
<1>3. PlaceInv
  BY ThreadsAre DEF ClientInit, WireInit, PlaceInv
<1>4. Stage("none")
  <2>1. Waits("none")
    BY ThreadsAre DEF ClientInit, WireInit, Waits, Asked
  <2>2. OnWay("none")
    BY <1>1 DEF ClientInit, OnWay, Found
  <2>3. Served("none") /\ Coming("none") /\ Handled("none") /\ LogsIn("none")
    BY DEF ClientInit, Served, Coming, Handled, LogsIn, Found
  <2>. QED
    BY <2>1, <2>2, <2>3 DEF Stage
<1>5. ClockInv
  BY DEF ClientInit, ClockInv
<1>. QED
  BY <1>1, <1>2, <1>3, <1>4, <1>5 DEF ClientInv, StageInv, Stages

\* The invariant holds in every reachable state.
LEMMA ClientInductive == ClientSpec => []ClientInv
<1>1. ClientInv /\ [ClientNext]_vars => ClientInv'
  BY WireKept, TypesKept, PlacesKept, StagesKept, ClockKept DEF ClientInv
<1>. QED
  BY <1>1, ClientStarts, PTL DEF ClientSpec

\* Every variable of the client, the socket and the server's end always has
\* its type.
THEOREM ClientTyped == ClientSpec => []ClientTypeOK
<1>1. ClientInv => ClientTypeOK
  <2>. SUFFICES ASSUME ClientInv PROVE ClientTypeOK
    OBVIOUS
  <2>1. \A s \in Seq(Symbols) : Range(s) \subseteq Symbols
    BY DEF Range
  <2>2. Range(replies) \subseteq Replies
    BY DEF Range, ClientInv, TypeInv
  <2>3. /\ \A t \in Threads : Range(left[t]) \subseteq Symbols
        /\ Range(stream) \cup Range(inBuffer) \subseteq Symbols
    BY <2>1 DEF ClientInv, WireInv, WireTypes
  <2>. QED
    BY <2>2, <2>3 DEF ClientInv, WireInv, WireTypes, TypeInv, ClientTypeOK, Symbols
<1>. QED
  BY <1>1, ClientInductive, PTL

\* Whenever the chat menu is open on a connection, g_currentUser is the
\* account asked for and the server has the connection bound to no other
\* account, however often logins elsewhere take the binding away.
THEOREM ClientViewsAgree == ClientSpec => []ViewsAgree
<1>1. ClientInv => ViewsAgree
  BY DEF ClientInv, StageInv, Stage, LogsIn, Agreed, ViewsAgree
<1>. QED
  BY <1>1, ClientInductive, PTL

\* The heartbeat thread never lets a connection in the chat menu be silent
\* for proxy_timeout.
THEOREM ClientKeptAlive == ClientSpec => []ChatIsKeptAlive
<1>1. ClientInv => ChatIsKeptAlive
  BY DEF ClientInv, TypeInv, ClockInv, ChatIsKeptAlive, ProxyTimeout, HeartbeatPeriod
<1>. QED
  BY <1>1, ClientInductive, PTL

\* While main is on its way to sem_wait exactly one answer is due on the
\* connection, from its request to the post, and at any other time none.
THEOREM ClientOneAnswerDue == ClientSpec => []OneAnswerDue
<1>1. ASSUME ClientInv, link = "open"
      PROVE  AnswersDue = IF mainAt \in {"login", "reg"} THEN 1 ELSE 0
  <2>1. PICK s \in Stages : Stage(s)
    BY <1>1 DEF ClientInv, StageInv
  <2>. DEFINE asking == {t \in {"main"} \ {sendMutex} : call[t] # None /\ call[t].type \in Requests}
              onway == {i \in DOMAIN OnTheWay : OnTheWay[i][1].type \in Requests}
              served == {i \in {1} : answer # None /\ answer.type \in Answers}
              coming == {i \in DOMAIN replies : replies[i].type \in Answers}
              handled == {i \in {1} : readerAt \in {"write", "unread", "post"}}
  <2>2. AnswersDue = Cardinality(asking) + Cardinality(onway) + Cardinality(served)
                       + Cardinality(coming) + Cardinality(handled) + rwsem
    BY DEF AnswersDue, Answers
  <2>3. asking = IF s = "asked" THEN {"main"} ELSE {}
    BY <2>1 DEF Stage, Waits, Asked
  <2>4. onway = Found(Sent, Requests)
    <3>1. OnTheWay = [k \in DOMAIN Way |-> <<Way[k]>>] /\ Sent = Way
      BY <1>1, OnTheWayIsWay DEF ClientInv, Sent
    <3>. QED
      BY <3>1 DEF Found
  <2>5. served = IF s = "served" THEN {1} ELSE {}
    BY <2>1 DEF Stage, Served, Fits, Answers
  <2>6. coming = Found(replies, Answers)
    BY DEF Found
  <2>7. handled = IF s = "handled" THEN {1} ELSE {}
    BY <2>1 DEF Stage, Handled
  <2>. HIDE DEF asking, onway, served, coming, handled
  <2>8. /\ Cardinality(asking) = IF s = "asked" THEN 1 ELSE 0
        /\ Cardinality(served) = IF s = "served" THEN 1 ELSE 0
        /\ Cardinality(handled) = IF s = "handled" THEN 1 ELSE 0
    BY <2>3, <2>5, <2>7, FS_EmptySet, FS_Singleton
  <2>9. Cardinality(onway) = IF s = "sent" THEN 1 ELSE 0
    <3>1. (\E i : onway = {i}) \/ onway = {}
      BY <2>1, <2>4 DEF Stage, OnWay
    <3>2. s = "sent" <=> onway # {}
      BY <2>1, <2>4 DEF Stage, OnWay
    <3>. QED
      BY <3>1, <3>2, FS_EmptySet, FS_Singleton
  <2>10. Cardinality(coming) = IF s = "coming" THEN 1 ELSE 0
    <3>1. (\E i : coming = {i}) \/ coming = {}
      BY <2>1, <2>6 DEF Stage, Coming
    <3>2. s = "coming" <=> coming # {}
      BY <2>1, <2>6 DEF Stage, Coming
    <3>. QED
      BY <3>1, <3>2, FS_EmptySet, FS_Singleton
  <2>11. rwsem = IF s = "posted" THEN 1 ELSE 0
    BY <2>1 DEF Stage, Waits
  <2>12. s = "none" <=> mainAt \notin {"login", "reg"}
    BY <1>1, <2>1 DEF Stage, Waits
  <2>. QED
    BY <2>1, <2>2, <2>8, <2>9, <2>10, <2>11, <2>12 DEF Stages
<1>2. ClientInv => OneAnswerDue
  BY <1>1 DEF OneAnswerDue
<1>. QED
  BY <1>2, ClientInductive, PTL

-----------------------------------------------------------------------------
(* The socket implements FrameQueue *)

\* Frames as the lines they are dispatched as.
InLines(s) == [k \in DOMAIN s |-> <<s[k]>>]

\* Frames as lines, one line each.
LEMMA InLinesTyped ==
    ASSUME NEW s \in Seq(Frames)
    PROVE  /\ InLines(s) \in Seq(Seq(Frames)) /\ Len(InLines(s)) = Len(s)
           /\ \A i \in 1..Len(s) : InLines(s)[i] = <<s[i]>>
<1>. DEFINE n == Len(s)
<1>1. n \in Nat /\ DOMAIN s = 1..n /\ \A i \in 1..n : <<s[i]>> \in Seq(Frames)
  OBVIOUS
<1>. HIDE DEF n
<1>2. InLines(s) = [k \in 1..n |-> <<s[k]>>]
  BY <1>1 DEF InLines
<1>3. InLines(s) \in Seq(Seq(Frames)) /\ Len(InLines(s)) = n
      /\ \A i \in 1..n : InLines(s)[i] = <<s[i]>>
  BY <1>1, <1>2
<1>. QED
  BY <1>3 DEF n

\* OnTheWay has the frames the server can still see, as lines.
LEMMA OnTheWayIsSent == WireInv => OnTheWay = InLines(Sent) /\ Sent \in Seq(Frames)
<1>1. ASSUME WireInv PROVE OnTheWay = InLines(Sent)
  <2>1. CASE link = "open"
    BY <1>1, <2>1, OnTheWayIsWay DEF Sent, InLines
  <2>2. CASE link = "cut"
    <3>1. OnTheWay = <<>> /\ Sent = <<>>
      BY <1>1, <2>2, OnTheWayIsWay DEF Sent
    <3>2. InLines(<<>>) = <<>>
      BY DEF InLines
    <3>. QED
      BY <3>1, <3>2
  <2>. QED
    BY <1>1, <2>1, <2>2 DEF WireInv, WireTypes
<1>. QED
  BY <1>1, SentTyped

\* A frame more is a line more, and it is the last.
LEMMA LinesOfAppend ==
    ASSUME NEW s \in Seq(Frames), NEW f \in Frames
    PROVE  /\ InLines(Append(s, f)) = Append(InLines(s), <<f>>)
           /\ InLines(Append(s, f)) # <<>>
           /\ Queue!Last(InLines(Append(s, f))) = <<f>>
<1>. DEFINE a == InLines(Append(s, f))
            b == Append(InLines(s), <<f>>)
            n == Len(s)
<1>1. /\ Append(s, f) \in Seq(Frames) /\ Len(Append(s, f)) = n + 1 /\ n \in Nat
      /\ \A i \in 1..n : Append(s, f)[i] = s[i]
      /\ Append(s, f)[n + 1] = f
  BY AppendProperties
<1>2. InLines(s) \in Seq(Seq(Frames)) /\ Len(InLines(s)) = n
      /\ \A i \in 1..n : InLines(s)[i] = <<s[i]>>
  BY InLinesTyped
<1>3. <<f>> \in Seq(Frames)
  OBVIOUS
<1>4. a \in Seq(Seq(Frames)) /\ Len(a) = n + 1
      /\ \A i \in 1..(n + 1) : a[i] = <<Append(s, f)[i]>>
  BY <1>1, InLinesTyped
<1>5. b \in Seq(Seq(Frames)) /\ Len(b) = n + 1
      /\ (\A i \in 1..n : b[i] = InLines(s)[i]) /\ b[n + 1] = <<f>>
  BY <1>2, <1>3, AppendProperties
<1>6. \A i \in 1..(n + 1) : a[i] = b[i]
  <2>. HIDE DEF a, b, n
  <2>. TAKE i \in 1..(n + 1)
  <2>1. i \in 1..n \/ i = n + 1
    BY <1>1
  <2>2. CASE i \in 1..n
    BY <1>1, <1>2, <1>4, <1>5, <2>2
  <2>3. CASE i = n + 1
    BY <1>1, <1>4, <1>5, <2>3
  <2>. QED
    BY <2>1, <2>2, <2>3
<1>7. a = b
  <2>. HIDE DEF a, b, n
  <2>1. Len(a) = Len(b) /\ \A i \in 1..Len(a) : a[i] = b[i]
    BY <1>4, <1>5, <1>6
  <2>. QED
    BY <1>4, <1>5, <2>1, SeqEqual
<1>8. Queue!Last(b) = <<f>> /\ b # <<>>
  <2>. HIDE DEF b, n
  <2>1. Queue!Last(b) = b[n + 1]
    BY <1>5 DEF Queue!Last
  <2>2. Len(b) # 0
    BY <1>1, <1>5
  <2>. QED
    BY <1>5, <2>1, <2>2
<1>. QED
  BY <1>7, <1>8

\* A frame less is a line less.
LEMMA LinesOfTail ==
    ASSUME NEW s \in Seq(Frames), s # <<>>
    PROVE  InLines(s) # <<>> /\ InLines(Tail(s)) = Tail(InLines(s))
<1>. DEFINE a == InLines(Tail(s))
            b == Tail(InLines(s))
            n == Len(s)
<1>1. /\ Tail(s) \in Seq(Frames) /\ Len(Tail(s)) = n - 1 /\ n \in Nat /\ n # 0
      /\ \A i \in 1..(n - 1) : Tail(s)[i] = s[i + 1]
  BY HeadTailProperties
<1>2. InLines(s) \in Seq(Seq(Frames)) /\ Len(InLines(s)) = n
      /\ \A i \in 1..n : InLines(s)[i] = <<s[i]>>
  BY InLinesTyped
<1>3. InLines(s) # <<>>
  BY <1>1, <1>2
<1>4. a \in Seq(Seq(Frames)) /\ Len(a) = n - 1
      /\ \A i \in 1..(n - 1) : a[i] = <<Tail(s)[i]>>
  BY <1>1, InLinesTyped
<1>5. b \in Seq(Seq(Frames)) /\ Len(b) = n - 1
      /\ \A i \in 1..(n - 1) : b[i] = InLines(s)[i + 1]
  BY <1>2, <1>3, HeadTailProperties
<1>6. \A i \in 1..(n - 1) : a[i] = b[i]
  <2>. HIDE DEF a, b, n
  <2>1. \A i \in 1..(n - 1) : i + 1 \in 1..n
    BY <1>1
  <2>. QED
    BY <1>1, <1>2, <1>4, <1>5, <2>1
<1>7. a = b
  <2>. HIDE DEF a, b, n
  <2>1. Len(a) = Len(b) /\ \A i \in 1..Len(a) : a[i] = b[i]
    BY <1>4, <1>5, <1>6
  <2>. QED
    BY <1>4, <1>5, <2>1, SeqEqual
<1>. QED
  BY <1>3, <1>7

\* Every step of the client, the socket and the server is a step of
\* FrameQueue or leaves it alone.
LEMMA QueueSteps ==
    ASSUME ClientInv, [ClientNext]_vars
    PROVE  [Queue!Next]_<<OnTheWay, link = "open">>
<1>. USE DEF Queue!Next, Queue!Put, Queue!Get, Queue!Cut
<1>1. /\ WireInv /\ WireInv' /\ TypeInv /\ PlaceInv
  BY WireKept DEF ClientInv
<1>2. /\ OnTheWay = InLines(Sent) /\ OnTheWay' = InLines(Sent')
      /\ Sent \in Seq(Frames) /\ (link \in {"open", "cut"})
  <2>1. (WireInv => OnTheWay = InLines(Sent))'
    BY OnTheWayIsSent, PTL
  <2>. QED
    BY <1>1, <2>1, OnTheWayIsSent DEF WireInv, WireTypes, InLines
<1>3. ASSUME Sent' = Sent, link' = link
      PROVE  UNCHANGED <<OnTheWay, link = "open">>
  BY <1>2, <1>3
<1>4. CASE UNCHANGED wireVars \/ WireCalls
  <2>1. Sent' = Sent /\ link' = link
    BY <1>4, SentStill DEF wireVars, WireCalls
  <2>. QED
    BY <1>3, <2>1
<1>5. ASSUME NEW t \in Threads, SendPart(t) \/ Return(t)
      PROVE  UNCHANGED <<OnTheWay, link = "open">>
  BY <1>1, <1>3, <1>5, SentMoves DEF SendPart, Return
<1>6. CASE Receive
  BY <1>1, <1>3, <1>6, SentMoves DEF Receive
<1>7. ASSUME NEW t \in Threads, Lock(t)
      PROVE  [Queue!Next]_<<OnTheWay, link = "open">>
  <2>1. link' = link
    BY <1>7 DEF Lock
  <2>2. CASE link = "open"
    <3>1. call[t] \in Frames /\ Sent' = Append(Sent, call[t])
      BY <1>1, <1>7, <2>2, SentMoves
    <3>2. /\ OnTheWay' = Append(OnTheWay, <<call[t]>>)
          /\ OnTheWay' # <<>> /\ Queue!Last(OnTheWay') = <<call[t]>>
      BY <1>2, <3>1, LinesOfAppend
    <3>3. Queue!Last(OnTheWay') \in {<<f>> : f \in Frames}
      BY <3>1, <3>2
    <3>4. (link = "open")' = (link = "open")
      BY <2>1
    <3>. QED
      BY <2>2, <3>2, <3>3, <3>4
  <2>3. CASE link = "cut"
    <3>1. Sent' = Sent
      BY <1>1, <1>7, <2>3, SentMoves
    <3>. QED
      BY <1>3, <2>1, <3>1
  <2>. QED
    BY <1>2, <2>2, <2>3
<1>8. CASE TakeLine
  <2>1. /\ Sent # <<>> /\ Sent' = Tail(Sent) /\ link' = link
    BY <1>1, <1>8, SentMoves DEF TakeLine
  <2>2. OnTheWay # <<>> /\ OnTheWay' = Tail(OnTheWay)
    BY <1>2, <2>1, LinesOfTail
  <2>. QED
    BY <2>1, <2>2
<1>9. CASE CutLink
  <2>1. Sent' = <<>> /\ link = "open" /\ link' = "cut"
    BY <1>1, <1>9, SentMoves DEF CutLink
  <2>2. OnTheWay' = <<>>
    <3>1. InLines(<<>>) = <<>>
      BY DEF InLines
    <3>. QED
      BY <1>2, <2>1, <3>1
  <2>3. (link = "open")' = FALSE /\ (link = "open")
    BY <2>1
  <2>. QED
    BY <2>2, <2>3
<1>10. CASE UNCHANGED vars
  BY <1>4, <1>10 DEF vars
<1>. QED
  BY <1>1, <1>4, <1>5, <1>6, <1>7, <1>8, <1>9, <1>10, CallsAre

\* sendJsonFrame, TCP and the loop of onMessage implement FrameQueue: frames
\* are dispatched whole, once each, in the order of g_sendMutex.
THEOREM ClientWholeFrames == ClientSpec => WholeFrames
<1>1. ClientInit => Queue!Init
  <2>. SUFFICES ASSUME ClientInit PROVE Queue!Init
    OBVIOUS
  <2>1. WireInv /\ Sent = <<>> /\ link = "open"
    BY WireStarts DEF ClientInit, WireInit, Sent
  <2>2. OnTheWay = InLines(<<>>)
    BY <2>1, OnTheWayIsSent
  <2>3. InLines(<<>>) = <<>>
    BY DEF InLines
  <2>. QED
    BY <2>1, <2>2, <2>3 DEF Queue!Init
<1>2. ClientInv /\ [ClientNext]_vars => [Queue!Next]_<<OnTheWay, link = "open">>
  BY QueueSteps
<1>. QED
  BY <1>1, <1>2, ClientInductive, PTL DEF ClientSpec, WholeFrames, Queue!Spec
=============================================================================
