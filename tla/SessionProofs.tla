--------------------------- MODULE SessionProofs ---------------------------
(***************************************************************************)
(* What module Session promises for every set of users, connections and    *)
(* nodes.                                                                  *)
(*                                                                         *)
(* The first half needs no assumption on faults or on the overlap of       *)
(* handlers: BindingInv is inductive, conjunct by conjunct.                *)
(***************************************************************************)
EXTENDS Session, TLAPS

\* What the proofs need to know of the constants.
LEMMA Placement ==
    /\ NodeOf \in [Conns -> Nodes]
    /\ None \notin Users \cup Conns
BY SessionAssumption

\* The type invariant is inductive given that a handler at work has an account.
LEMMA TypeStep ==
    ASSUME SessionTypeOK, HandlerHasConnection, [SessionNext]_sessionVars
    PROVE  SessionTypeOK'
<1>1. ASSUME NEW c \in Conns, Connect(c) PROVE SessionTypeOK'
  BY <1>1 DEF Connect, SessionTypeOK
<1>2. ASSUME NEW c \in Conns, PeerClose(c) PROVE SessionTypeOK'
  BY <1>2 DEF PeerClose, SessionTypeOK
<1>3. ASSUME NEW c \in Conns, LoginBind(c) PROVE SessionTypeOK'
  BY <1>3 DEF LoginBind, Goto, SessionTypeOK, Steps, LoginSteps
<1>4. ASSUME NEW c \in Conns, LoginSubscribe(c) PROVE SessionTypeOK'
  BY <1>4
     DEF LoginSubscribe, At, Goto, SessionTypeOK, Steps, LoginSteps,
         HandlerHasConnection
<1>5. ASSUME NEW c \in Conns, LoginOnline(c) PROVE SessionTypeOK'
  BY <1>5 DEF LoginOnline, Goto, UpdateState, SessionTypeOK, Steps, LoginSteps
<1>6. ASSUME NEW c \in Conns, LoginReply(c) PROVE SessionTypeOK'
  BY <1>6 DEF LoginReply, Goto, SessionTypeOK, Steps
<1>7. ASSUME NEW c \in Conns, LoginOutCheck(c) PROVE SessionTypeOK'
  <2>1. CASE Bound(c, session[c])
    BY <1>7, <2>1 DEF LoginOutCheck, Goto, SessionTypeOK, Steps
  <2>2. CASE ~Bound(c, session[c])
    BY <1>7, <2>2 DEF LoginOutCheck, SessionTypeOK
  <2>. QED
    BY <2>1, <2>2
<1>8. ASSUME NEW c \in Conns, LoginOutErase(c) PROVE SessionTypeOK'
  BY <1>8 DEF LoginOutErase, Goto, SessionTypeOK, Steps, ReleaseSteps
<1>9. ASSUME NEW c \in Conns, CloseErase(c) PROVE SessionTypeOK'
  <2>1. ASSUME NEW u \in Users, ReleaseAccount(c, u) PROVE SessionTypeOK'
    BY <1>9, <2>1
       DEF CloseErase, ReleaseAccount, Goto, SessionTypeOK, Steps,
           ReleaseSteps
  <2>2. CASE NothingToRelease(c)
    BY <1>9, <2>2 DEF CloseErase, NothingToRelease, SessionTypeOK
  <2>. QED
    BY <1>9, <2>1, <2>2 DEF CloseErase
<1>10. ASSUME NEW c \in Conns, Unsubscribe(c) PROVE SessionTypeOK'
  BY <1>10 DEF Unsubscribe, Goto, SessionTypeOK, Steps, ReleaseSteps
<1>11. ASSUME NEW c \in Conns, Offline(c) PROVE SessionTypeOK'
  BY <1>11 DEF Offline, Goto, UpdateState, SessionTypeOK, Steps
<1>12. ASSUME NEW c \in Conns, NEW u \in Users, LoginQuery(c, u) PROVE SessionTypeOK'
  BY <1>12 DEF LoginQuery, Goto, SessionTypeOK, Steps, LoginSteps
<1>13. ASSUME NEW n \in Nodes, Crash(n) PROVE SessionTypeOK'
  BY <1>13 DEF Crash, StopNode, SessionTypeOK, Steps
<1>14. ASSUME NEW n \in Nodes, Interrupt(n) PROVE SessionTypeOK'
  BY <1>14 DEF Interrupt, SessionTypeOK
<1>15. ASSUME NEW n \in Nodes, Exit(n) PROVE SessionTypeOK'
  BY <1>15 DEF Exit, StopNode, SessionTypeOK, Steps
<1>16. ASSUME NEW n \in Nodes, Restart(n) PROVE SessionTypeOK'
  BY <1>16 DEF Restart, SessionTypeOK
<1>17. ASSUME NEW n \in Nodes, RedisLost(n) PROVE SessionTypeOK'
  <2>1. CASE subscribed' = [subscribed EXCEPT ![n] = {}]
    BY <1>17, <2>1 DEF RedisLost, SessionTypeOK
  <2>2. CASE UNCHANGED subscribed
    BY <1>17, <2>2 DEF RedisLost, SessionTypeOK
  <2>. QED
    BY <1>17, <2>1, <2>2 DEF RedisLost
<1>18. CASE UNCHANGED sessionVars
  BY <1>18 DEF sessionVars, SessionTypeOK
<1>. QED
  BY <1>1, <1>2, <1>3, <1>4, <1>5, <1>6, <1>7, <1>8, <1>9, <1>10, <1>11,
     <1>12, <1>13, <1>14, <1>15, <1>16, <1>17, <1>18
     DEF SessionNext, Handler, Client, Environment

\* A handler has an account and a connection that suits its place.
LEMMA HandlerStep ==
    ASSUME SessionTypeOK, HandlerHasConnection, [SessionNext]_sessionVars
    PROVE  HandlerHasConnection'
<1>1. ASSUME NEW c \in Conns, Connect(c) PROVE HandlerHasConnection'
  BY <1>1 DEF Connect, HandlerHasConnection
<1>2. ASSUME NEW c \in Conns, PeerClose(c) PROVE HandlerHasConnection'
  BY <1>2 DEF PeerClose, HandlerHasConnection
<1>3. ASSUME NEW c \in Conns, LoginBind(c) PROVE HandlerHasConnection'
  BY <1>3 DEF LoginBind, At, Goto, ReleaseSteps, HandlerHasConnection
<1>4. ASSUME NEW c \in Conns, LoginSubscribe(c) PROVE HandlerHasConnection'
  BY <1>4 DEF LoginSubscribe, At, Goto, ReleaseSteps, HandlerHasConnection
<1>5. ASSUME NEW c \in Conns, LoginOnline(c) PROVE HandlerHasConnection'
  BY <1>5 DEF LoginOnline, At, Goto, ReleaseSteps, HandlerHasConnection
<1>6. ASSUME NEW c \in Conns, LoginReply(c) PROVE HandlerHasConnection'
  BY <1>6
     DEF LoginReply, At, Goto, SessionTypeOK, ReleaseSteps,
         HandlerHasConnection
<1>7. ASSUME NEW c \in Conns, LoginOutCheck(c) PROVE HandlerHasConnection'
  BY <1>7
     DEF LoginOutCheck, Serving, Goto, SessionTypeOK, HandlerHasConnection
<1>8. ASSUME NEW c \in Conns, LoginOutErase(c) PROVE HandlerHasConnection'
  BY <1>8 DEF LoginOutErase, At, Goto, ReleaseSteps, HandlerHasConnection
<1>9. ASSUME NEW c \in Conns, CloseErase(c) PROVE HandlerHasConnection'
  <2>1. ASSUME NEW u \in Users, ReleaseAccount(c, u) PROVE HandlerHasConnection'
    BY <1>9, <2>1
       DEF ReleaseAccount, Goto, SessionTypeOK, ReleaseSteps,
           HandlerHasConnection
  <2>2. CASE NothingToRelease(c)
    BY <1>9, <2>2 DEF CloseErase, NothingToRelease, HandlerHasConnection
  <2>. QED
    BY <1>9, <2>1, <2>2 DEF CloseErase
<1>10. ASSUME NEW c \in Conns, Unsubscribe(c) PROVE HandlerHasConnection'
  BY <1>10 DEF Unsubscribe, At, Goto, ReleaseSteps, HandlerHasConnection
<1>11. ASSUME NEW c \in Conns, Offline(c) PROVE HandlerHasConnection'
  BY <1>11 DEF Offline, Goto, SessionTypeOK, HandlerHasConnection
<1>12. ASSUME NEW c \in Conns, NEW u \in Users, LoginQuery(c, u) PROVE HandlerHasConnection'
  BY <1>12 DEF LoginQuery, Serving, Goto, SessionTypeOK, HandlerHasConnection
<1>13. ASSUME NEW n \in Nodes, Crash(n) PROVE HandlerHasConnection'
  BY <1>13 DEF Crash, StopNode, HandlerHasConnection
<1>14. ASSUME NEW n \in Nodes, Interrupt(n) PROVE HandlerHasConnection'
  BY <1>14 DEF Interrupt, HandlerHasConnection
<1>15. ASSUME NEW n \in Nodes, Exit(n) PROVE HandlerHasConnection'
  BY <1>15 DEF Exit, StopNode, HandlerHasConnection
<1>16. ASSUME NEW n \in Nodes, Restart(n) PROVE HandlerHasConnection'
  BY <1>16 DEF Restart, HandlerHasConnection
<1>17. ASSUME NEW n \in Nodes, RedisLost(n) PROVE HandlerHasConnection'
  BY <1>17 DEF RedisLost, HandlerHasConnection
<1>18. CASE UNCHANGED sessionVars
  BY <1>18 DEF sessionVars, HandlerHasConnection
<1>. QED
  BY <1>1, <1>2, <1>3, <1>4, <1>5, <1>6, <1>7, <1>8, <1>9, <1>10, <1>11,
     <1>12, <1>13, <1>14, <1>15, <1>16, <1>17, <1>18
     DEF SessionNext, Handler, Client, Environment

\* A node only stores its own connections.
LEMMA LocalStep ==
    ASSUME SessionTypeOK, MapIsLocal, [SessionNext]_sessionVars
    PROVE  MapIsLocal'
<1>1. ASSUME NEW c \in Conns, Connect(c) PROVE MapIsLocal'
  BY <1>1, Placement DEF Connect, SessionTypeOK, MapIsLocal
<1>2. ASSUME NEW c \in Conns, PeerClose(c) PROVE MapIsLocal'
  BY <1>2, Placement DEF PeerClose, SessionTypeOK, MapIsLocal
<1>3. ASSUME NEW c \in Conns, LoginBind(c) PROVE MapIsLocal'
  BY <1>3 DEF LoginBind, MapIsLocal
<1>4. ASSUME NEW c \in Conns, LoginSubscribe(c) PROVE MapIsLocal'
  BY <1>4 DEF LoginSubscribe, MapIsLocal
<1>5. ASSUME NEW c \in Conns, LoginOnline(c) PROVE MapIsLocal'
  BY <1>5 DEF LoginOnline, MapIsLocal
<1>6. ASSUME NEW c \in Conns, LoginReply(c) PROVE MapIsLocal'
  BY <1>6 DEF LoginReply, MapIsLocal
<1>7. ASSUME NEW c \in Conns, LoginOutCheck(c) PROVE MapIsLocal'
  BY <1>7 DEF LoginOutCheck, MapIsLocal
<1>8. ASSUME NEW c \in Conns, LoginOutErase(c) PROVE MapIsLocal'
  BY <1>8 DEF LoginOutErase, MapIsLocal
<1>9. ASSUME NEW c \in Conns, CloseErase(c) PROVE MapIsLocal'
  <2>1. ASSUME NEW u \in Users, ReleaseAccount(c, u) PROVE MapIsLocal'
    BY <1>9, <2>1 DEF ReleaseAccount, MapIsLocal
  <2>2. CASE NothingToRelease(c)
    BY <1>9, <2>2 DEF NothingToRelease, MapIsLocal
  <2>. QED
    BY <1>9, <2>1, <2>2 DEF CloseErase
<1>10. ASSUME NEW c \in Conns, Unsubscribe(c) PROVE MapIsLocal'
  BY <1>10 DEF Unsubscribe, MapIsLocal
<1>11. ASSUME NEW c \in Conns, Offline(c) PROVE MapIsLocal'
  BY <1>11 DEF Offline, MapIsLocal
<1>12. ASSUME NEW c \in Conns, NEW u \in Users, LoginQuery(c, u) PROVE MapIsLocal'
  BY <1>12 DEF LoginQuery, MapIsLocal
<1>13. ASSUME NEW n \in Nodes, Crash(n) PROVE MapIsLocal'
  BY <1>13, Placement DEF Crash, StopNode, SessionTypeOK, MapIsLocal
<1>14. ASSUME NEW n \in Nodes, Interrupt(n) PROVE MapIsLocal'
  BY <1>14, Placement DEF Interrupt, SessionTypeOK, MapIsLocal
<1>15. ASSUME NEW n \in Nodes, Exit(n) PROVE MapIsLocal'
  BY <1>15, Placement DEF Exit, StopNode, SessionTypeOK, MapIsLocal
<1>16. ASSUME NEW n \in Nodes, Restart(n) PROVE MapIsLocal'
  BY <1>16, Placement DEF Restart, SessionTypeOK, MapIsLocal
<1>17. ASSUME NEW n \in Nodes, RedisLost(n) PROVE MapIsLocal'
  BY <1>17, Placement DEF RedisLost, SessionTypeOK, MapIsLocal
<1>18. CASE UNCHANGED sessionVars
  BY <1>18 DEF sessionVars, SessionTypeOK, MapIsLocal, Bound
<1>. QED
  BY <1>1, <1>2, <1>3, <1>4, <1>5, <1>6, <1>7, <1>8, <1>9, <1>10, <1>11,
     <1>12, <1>13, <1>14, <1>15, <1>16, <1>17, <1>18
     DEF SessionNext, Handler, Client, Environment

\* Where a connection may be bound, and to which account only.
LEMMA FollowStep ==
    ASSUME SessionTypeOK, HandlerHasConnection, BindingFollowsHandler,
           [SessionNext]_sessionVars
    PROVE  BindingFollowsHandler'
<1>1. ASSUME NEW c \in Conns, Connect(c) PROVE BindingFollowsHandler'
  BY <1>1 DEF Connect, BindingFollowsHandler, Bound
<1>2. ASSUME NEW c \in Conns, PeerClose(c) PROVE BindingFollowsHandler'
  BY <1>2 DEF PeerClose, BindingFollowsHandler, Bound
<1>3. ASSUME NEW c \in Conns, LoginBind(c) PROVE BindingFollowsHandler'
  <2>. SUFFICES ASSUME NEW d \in Conns, NEW v \in Users, Bound(d, v)'
                PROVE  /\ link'[d] \in {"open", "hup"}
                       /\ \/ pc'[d] = "idle" /\ session'[d] = v
                          \/ /\ pc'[d] \in {"subscribe", "online", "reply", "erase"}
                             /\ acct'[d] = v
    BY DEF BindingFollowsHandler
  <2>1. CASE d = c /\ v = acct[c]
    BY <1>3, <2>1
       DEF LoginBind, At, Goto, HandlerHasConnection, SessionTypeOK,
           ReleaseSteps
  <2>2. CASE ~(d = c /\ v = acct[c])
    <3>1. Bound(d, v)
      BY <1>3, <2>2, Placement DEF LoginBind, Bound, SessionTypeOK
    <3>2. d # c
      BY <1>3, <3>1 DEF LoginBind, At, BindingFollowsHandler
    <3>. QED
      BY <1>3, <3>1, <3>2
         DEF LoginBind, Goto, BindingFollowsHandler, SessionTypeOK
  <2>. QED
    BY <2>1, <2>2
<1>4. ASSUME NEW c \in Conns, LoginSubscribe(c) PROVE BindingFollowsHandler'
  BY <1>4 DEF LoginSubscribe, At, Goto, BindingFollowsHandler, Bound
<1>5. ASSUME NEW c \in Conns, LoginOnline(c) PROVE BindingFollowsHandler'
  BY <1>5 DEF LoginOnline, At, Goto, BindingFollowsHandler, Bound
<1>6. ASSUME NEW c \in Conns, LoginReply(c) PROVE BindingFollowsHandler'
  BY <1>6
     DEF LoginReply, At, Goto, SessionTypeOK, BindingFollowsHandler, Bound
<1>7. ASSUME NEW c \in Conns, LoginOutCheck(c) PROVE BindingFollowsHandler'
  BY <1>7 DEF LoginOutCheck, Goto, Bound, SessionTypeOK, BindingFollowsHandler
<1>8. ASSUME NEW c \in Conns, LoginOutErase(c) PROVE BindingFollowsHandler'
  <2>. SUFFICES ASSUME NEW d \in Conns, NEW v \in Users, Bound(d, v)'
                PROVE  /\ link'[d] \in {"open", "hup"}
                       /\ \/ pc'[d] = "idle" /\ session'[d] = v
                          \/ /\ pc'[d] \in {"subscribe", "online", "reply", "erase"}
                             /\ acct'[d] = v
    BY DEF BindingFollowsHandler
  <2>1. Bound(d, v) /\ ~(NodeOf[d] = NodeOf[c] /\ v = acct[c])
    BY <1>8, Placement DEF LoginOutErase, Bound, SessionTypeOK
  <2>2. d # c
    BY <1>8, <2>1 DEF LoginOutErase, At, BindingFollowsHandler
  <2>. QED
    BY <1>8, <2>1, <2>2
       DEF LoginOutErase, Goto, BindingFollowsHandler, SessionTypeOK
<1>9. ASSUME NEW c \in Conns, CloseErase(c) PROVE BindingFollowsHandler'
  <2>. SUFFICES ASSUME NEW d \in Conns, NEW v \in Users, Bound(d, v)'
                PROVE  /\ link'[d] \in {"open", "hup"}
                       /\ \/ pc'[d] = "idle" /\ session'[d] = v
                          \/ /\ pc'[d] \in {"subscribe", "online", "reply", "erase"}
                             /\ acct'[d] = v
    BY DEF BindingFollowsHandler
  <2>1. ASSUME NEW u \in Users, ReleaseAccount(c, u)
        PROVE  /\ link'[d] \in {"open", "hup"}
               /\ \/ pc'[d] = "idle" /\ session'[d] = v
                  \/ /\ pc'[d] \in {"subscribe", "online", "reply", "erase"}
                     /\ acct'[d] = v
    <3>1. Bound(d, v) /\ ~(NodeOf[d] = NodeOf[c] /\ v = u)
      BY <2>1, Placement DEF ReleaseAccount, Bound, SessionTypeOK
    <3>2. Bound(c, u) /\ pc[c] = "idle"
      BY <1>9, <2>1 DEF CloseErase, ReleaseAccount
    <3>3. d # c
      BY <3>1, <3>2 DEF BindingFollowsHandler
    <3>. QED
      BY <1>9, <2>1, <3>1, <3>3
         DEF CloseErase, ReleaseAccount, Goto, BindingFollowsHandler
  <2>2. CASE NothingToRelease(c)
    <3>1. Bound(d, v) /\ d # c
      BY <2>2 DEF NothingToRelease, Bound
    <3>. QED
      BY <1>9, <2>2, <3>1
         DEF CloseErase, NothingToRelease, BindingFollowsHandler,
             SessionTypeOK
  <2>. QED
    BY <1>9, <2>1, <2>2 DEF CloseErase
<1>10. ASSUME NEW c \in Conns, Unsubscribe(c) PROVE BindingFollowsHandler'
  BY <1>10 DEF Unsubscribe, At, Goto, BindingFollowsHandler, Bound
<1>11. ASSUME NEW c \in Conns, Offline(c) PROVE BindingFollowsHandler'
  BY <1>11 DEF Offline, At, Goto, BindingFollowsHandler, Bound
<1>12. ASSUME NEW c \in Conns, NEW u \in Users, LoginQuery(c, u) PROVE BindingFollowsHandler'
  BY <1>12, Placement
     DEF LoginQuery, Serving, Goto, BindingFollowsHandler, Bound
<1>13. ASSUME NEW n \in Nodes, Crash(n) PROVE BindingFollowsHandler'
  BY <1>13, Placement
     DEF Crash, StopNode, SessionTypeOK, BindingFollowsHandler, Bound
<1>14. ASSUME NEW n \in Nodes, Interrupt(n) PROVE BindingFollowsHandler'
  BY <1>14 DEF Interrupt, BindingFollowsHandler, Bound
<1>15. ASSUME NEW n \in Nodes, Exit(n) PROVE BindingFollowsHandler'
  BY <1>15, Placement
     DEF Exit, StopNode, SessionTypeOK, BindingFollowsHandler, Bound
<1>16. ASSUME NEW n \in Nodes, Restart(n) PROVE BindingFollowsHandler'
  BY <1>16 DEF Restart, BindingFollowsHandler, Bound
<1>17. ASSUME NEW n \in Nodes, RedisLost(n) PROVE BindingFollowsHandler'
  BY <1>17 DEF RedisLost, BindingFollowsHandler, Bound
<1>18. CASE UNCHANGED sessionVars
  BY <1>18 DEF sessionVars, BindingFollowsHandler, Bound
<1>. QED
  BY <1>1, <1>2, <1>3, <1>4, <1>5, <1>6, <1>7, <1>8, <1>9, <1>10, <1>11,
     <1>12, <1>13, <1>14, <1>15, <1>16, <1>17, <1>18
     DEF SessionNext, Handler, Client, Environment


\* A process that is down has no open connection.
LEMMA DownStep ==
    ASSUME SessionTypeOK, DownIsEmpty, [SessionNext]_sessionVars
    PROVE  DownIsEmpty'
<1>1. ASSUME NEW c \in Conns, Connect(c) PROVE DownIsEmpty'
  BY <1>1, Placement DEF Connect, SessionTypeOK, DownIsEmpty
<1>2. ASSUME NEW c \in Conns, PeerClose(c) PROVE DownIsEmpty'
  BY <1>2, Placement DEF PeerClose, SessionTypeOK, DownIsEmpty
<1>3. ASSUME NEW c \in Conns, LoginBind(c) PROVE DownIsEmpty'
  BY <1>3 DEF LoginBind, DownIsEmpty
<1>4. ASSUME NEW c \in Conns, LoginSubscribe(c) PROVE DownIsEmpty'
  BY <1>4 DEF LoginSubscribe, DownIsEmpty
<1>5. ASSUME NEW c \in Conns, LoginOnline(c) PROVE DownIsEmpty'
  BY <1>5 DEF LoginOnline, DownIsEmpty
<1>6. ASSUME NEW c \in Conns, LoginReply(c) PROVE DownIsEmpty'
  BY <1>6 DEF LoginReply, DownIsEmpty
<1>7. ASSUME NEW c \in Conns, LoginOutCheck(c) PROVE DownIsEmpty'
  BY <1>7 DEF LoginOutCheck, DownIsEmpty
<1>8. ASSUME NEW c \in Conns, LoginOutErase(c) PROVE DownIsEmpty'
  BY <1>8 DEF LoginOutErase, DownIsEmpty
<1>9. ASSUME NEW c \in Conns, CloseErase(c) PROVE DownIsEmpty'
  <2>1. ASSUME NEW u \in Users, ReleaseAccount(c, u) PROVE DownIsEmpty'
    BY <1>9, <2>1 DEF CloseErase, ReleaseAccount, DownIsEmpty
  <2>2. CASE NothingToRelease(c)
    BY <1>9, <2>2 DEF CloseErase, NothingToRelease, DownIsEmpty
  <2>. QED
    BY <1>9, <2>1, <2>2 DEF CloseErase
<1>10. ASSUME NEW c \in Conns, Unsubscribe(c) PROVE DownIsEmpty'
  BY <1>10 DEF Unsubscribe, DownIsEmpty
<1>11. ASSUME NEW c \in Conns, Offline(c) PROVE DownIsEmpty'
  BY <1>11 DEF Offline, DownIsEmpty
<1>12. ASSUME NEW c \in Conns, NEW u \in Users, LoginQuery(c, u) PROVE DownIsEmpty'
  BY <1>12 DEF LoginQuery, DownIsEmpty
<1>13. ASSUME NEW n \in Nodes, Crash(n) PROVE DownIsEmpty'
  BY <1>13, Placement DEF Crash, StopNode, SessionTypeOK, DownIsEmpty
<1>14. ASSUME NEW n \in Nodes, Interrupt(n) PROVE DownIsEmpty'
  BY <1>14, Placement DEF Interrupt, SessionTypeOK, DownIsEmpty
<1>15. ASSUME NEW n \in Nodes, Exit(n) PROVE DownIsEmpty'
  BY <1>15, Placement DEF Exit, StopNode, SessionTypeOK, DownIsEmpty
<1>16. ASSUME NEW n \in Nodes, Restart(n) PROVE DownIsEmpty'
  BY <1>16, Placement DEF Restart, SessionTypeOK, DownIsEmpty
<1>17. ASSUME NEW n \in Nodes, RedisLost(n) PROVE DownIsEmpty'
  BY <1>17, Placement DEF RedisLost, SessionTypeOK, DownIsEmpty
<1>18. CASE UNCHANGED sessionVars
  BY <1>18 DEF sessionVars, SessionTypeOK, DownIsEmpty, Bound
<1>. QED
  BY <1>1, <1>2, <1>3, <1>4, <1>5, <1>6, <1>7, <1>8, <1>9, <1>10, <1>11,
     <1>12, <1>13, <1>14, <1>15, <1>16, <1>17, <1>18
     DEF SessionNext, Handler, Client, Environment

-----------------------------------------------------------------------------
\* The connection map follows the handlers, whatever fails and however logins
\* of one account overlap.
THEOREM BindingInvariant == SessionSpec => []BindingInv
<1>1. ASSUME SessionInit PROVE BindingInv
  <2>1. redisUp \in [Nodes -> BOOLEAN]
    BY <1>1 DEF SessionInit
  <2>2. SessionTypeOK
    BY <1>1, <2>1 DEF SessionInit, SessionTypeOK, Steps
  <2>3. \A c \in Conns, u \in Users : ~Bound(c, u)
    BY <1>1, Placement DEF SessionInit, Bound
  <2>4. BindingFollowsHandler
    BY <2>3 DEF BindingFollowsHandler
  <2>. QED
    BY <1>1, <2>2, <2>4
       DEF SessionInit, BindingInv, MapIsLocal, HandlerHasConnection,
           DownIsEmpty
<1>2. BindingInv /\ [SessionNext]_sessionVars => BindingInv'
  BY TypeStep, HandlerStep, LocalStep, FollowStep, DownStep DEF BindingInv
<1>. QED
  BY <1>1, <1>2, PTL DEF SessionSpec

\* Every variable has its type.
THEOREM TypeCorrect == SessionSpec => []SessionTypeOK
<1>1. BindingInv => SessionTypeOK
  BY DEF BindingInv
<1>. QED
  BY <1>1, BindingInvariant, PTL

\* A connection is bound to one account at most, so that clientCloseException
\* may stop at the first entry it finds.
THEOREM OneAccount == SessionSpec => []OneAccountPerConnection
<1>1. BindingInv => OneAccountPerConnection
  BY DEF BindingInv, BindingFollowsHandler, OneAccountPerConnection
<1>. QED
  BY <1>1, BindingInvariant, PTL

\* No entry of the connection map outlives its connection.
THEOREM NoDeadEntry == SessionSpec => []NoDeadBinding
<1>1. BindingInv => NoDeadBinding
  BY DEF BindingInv, SessionTypeOK, MapIsLocal, BindingFollowsHandler, Bound,
         NoDeadBinding
<1>. QED
  BY <1>1, BindingInvariant, PTL

-----------------------------------------------------------------------------
(***************************************************************************)
(* The second half: two handlers never work on one account at once and     *)
(* nothing but crashes and the loss of Redis goes wrong.                   *)
(***************************************************************************)
\* Only the online check of login puts an account into new hands, whatever
\* fails.
TakenByLogin ==
    \A d \in Conns, v \in Users : Holds(d, v)' => Holds(d, v) \/ LoginQuery(d, v)

\* A handler that ends, fails or crashes hands its account to nobody.
LEMMA TakenStep ==
    ASSUME BindingInv, [SessionNext]_sessionVars
    PROVE  TakenByLogin
<1>1. ASSUME NEW c \in Conns, Connect(c) PROVE TakenByLogin
  BY <1>1 DEF Connect, TakenByLogin, Holds, Bound
<1>2. ASSUME NEW c \in Conns, PeerClose(c) PROVE TakenByLogin
  BY <1>2 DEF PeerClose, TakenByLogin, Holds, Bound
<1>3. ASSUME NEW c \in Conns, LoginBind(c) PROVE TakenByLogin
  BY <1>3 DEF LoginBind, At, Goto, TakenByLogin, Holds, Bound
<1>4. ASSUME NEW c \in Conns, LoginSubscribe(c) PROVE TakenByLogin
  BY <1>4 DEF LoginSubscribe, At, Goto, TakenByLogin, Holds, Bound
<1>5. ASSUME NEW c \in Conns, LoginOnline(c) PROVE TakenByLogin
  BY <1>5 DEF LoginOnline, At, Goto, TakenByLogin, Holds, Bound
<1>6. ASSUME NEW c \in Conns, LoginReply(c) PROVE TakenByLogin
  BY <1>6, Placement DEF LoginReply, Goto, TakenByLogin, Holds, Bound
<1>7. ASSUME NEW c \in Conns, LoginOutCheck(c) PROVE TakenByLogin
  BY <1>7
     DEF LoginOutCheck, Goto, Bound, TakenByLogin, Holds, BindingInv,
         SessionTypeOK
<1>8. ASSUME NEW c \in Conns, LoginOutErase(c) PROVE TakenByLogin
  BY <1>8, Placement DEF LoginOutErase, At, Goto, TakenByLogin, Holds, Bound
<1>9. ASSUME NEW c \in Conns, CloseErase(c) PROVE TakenByLogin
  <2>1. ASSUME NEW u \in Users, ReleaseAccount(c, u) PROVE TakenByLogin
    BY <1>9, <2>1, Placement
       DEF ReleaseAccount, Goto, TakenByLogin, Holds, Bound, BindingInv,
           SessionTypeOK
  <2>2. CASE NothingToRelease(c)
    BY <1>9, <2>2 DEF NothingToRelease, TakenByLogin, Holds, Bound
  <2>. QED
    BY <1>9, <2>1, <2>2 DEF CloseErase
<1>10. ASSUME NEW c \in Conns, Unsubscribe(c) PROVE TakenByLogin
  BY <1>10 DEF Unsubscribe, At, Goto, TakenByLogin, Holds, Bound
<1>11. ASSUME NEW c \in Conns, Offline(c) PROVE TakenByLogin
  BY <1>11, Placement DEF Offline, Goto, TakenByLogin, Holds, Bound
<1>12. ASSUME NEW c \in Conns, NEW u \in Users, LoginQuery(c, u) PROVE TakenByLogin
  BY <1>12
     DEF LoginQuery, Goto, TakenByLogin, Holds, Bound, BindingInv,
         SessionTypeOK
<1>13. ASSUME NEW n \in Nodes, Crash(n) PROVE TakenByLogin
  BY <1>13, Placement DEF Crash, StopNode, TakenByLogin, Holds, Bound
<1>14. ASSUME NEW n \in Nodes, Interrupt(n) PROVE TakenByLogin
  BY <1>14 DEF Interrupt, TakenByLogin, Holds, Bound
<1>15. ASSUME NEW n \in Nodes, Exit(n) PROVE TakenByLogin
  BY <1>15, Placement DEF Exit, StopNode, TakenByLogin, Holds, Bound
<1>16. ASSUME NEW n \in Nodes, Restart(n) PROVE TakenByLogin
  BY <1>16 DEF Restart, TakenByLogin, Holds, Bound
<1>17. ASSUME NEW n \in Nodes, RedisLost(n) PROVE TakenByLogin
  BY <1>17 DEF RedisLost, TakenByLogin, Holds, Bound
<1>18. CASE UNCHANGED sessionVars
  BY <1>18 DEF sessionVars, TakenByLogin, Holds, Bound
<1>. QED
  BY <1>1, <1>2, <1>3, <1>4, <1>5, <1>6, <1>7, <1>8, <1>9, <1>10, <1>11,
     <1>12, <1>13, <1>14, <1>15, <1>16, <1>17, <1>18
     DEF SessionNext, Handler, Client, Environment

\* The check lets nobody in while the account is in other hands.
LEMMA ExclusiveStep ==
    ASSUME ~Overlap, Faults \subseteq {"crash", "redis"},
           BindingInv, HandlerAgrees, ExclusiveAccount, BoundIsReachable,
           [SessionNext]_sessionVars
    PROVE  ExclusiveAccount'
<1>1. ASSUME NEW c \in Conns, NEW u \in Users, LoginQuery(c, u), NEW d \in Conns
      PROVE  ~Holds(d, u)
  <2>1. userState[u] = "offline" /\ ~Busy(u)
    BY <1>1 DEF LoginQuery
  <2>2. Bound(d, u) => pc[d] = "idle"
    BY <2>1 DEF Busy, BindingInv, BindingFollowsHandler
  <2>3. ~Bound(d, u)
    BY <2>1, <2>2 DEF BoundIsReachable
  <2>. QED
    BY <2>1, <2>3 DEF Busy, Holds
<1>2. ASSUME NEW c \in Conns, NEW d \in Conns, NEW u \in Users,
             LoginQuery(c, u), LoginQuery(d, u)
      PROVE  c = d
  BY <1>2 DEF LoginQuery, Serving, Goto, BindingInv, SessionTypeOK
<1>3. TakenByLogin
  BY TakenStep
<1>. QED
  BY <1>1, <1>2, <1>3 DEF ExclusiveAccount, TakenByLogin

\* The map, the table and the subscriptions agree with the place of a handler.
LEMMA AgreesStep ==
    ASSUME ~Overlap, Faults \subseteq {"crash", "redis"},
           BindingInv, HandlerAgrees, ExclusiveAccount, BoundIsReachable,
           [SessionNext]_sessionVars
    PROVE  HandlerAgrees'
<1>1. ASSUME NEW c \in Conns, Connect(c) PROVE HandlerAgrees'
  BY <1>1 DEF Connect, HandlerAgrees, Bound
<1>2. ASSUME NEW c \in Conns, PeerClose(c) PROVE HandlerAgrees'
  BY <1>2 DEF PeerClose, HandlerAgrees, Bound
<1>3. ASSUME NEW c \in Conns, LoginBind(c) PROVE HandlerAgrees'
  <2>1. \A d \in Conns : pc[d] # "idle" /\ d # c => acct[d] # acct[c]
    BY <1>3
       DEF LoginBind, At, ExclusiveAccount, Holds, BindingInv,
           HandlerHasConnection
  <2>2. \A d \in Conns, v \in Users :
           Bound(d, v) /\ v # acct[c] => Bound(d, v)'
    BY <1>3, Placement DEF LoginBind, Bound, BindingInv, SessionTypeOK
  <2>3. acct[c] \in Users
    BY <1>3 DEF LoginBind, At, BindingInv, HandlerHasConnection
  <2>4. Bound(c, acct[c])'
    BY <1>3, <2>3, Placement DEF LoginBind, Bound, BindingInv, SessionTypeOK
  <2>5. /\ pc'[c] = "subscribe"
        /\ \A d \in Conns : d # c => pc'[d] = pc[d]
    BY <1>3 DEF LoginBind, Goto, BindingInv, SessionTypeOK
  <2>6. UNCHANGED <<userState, subscribed, redisUp, acct>>
    BY <1>3 DEF LoginBind
  <2>. QED
    BY <2>1, <2>2, <2>3, <2>4, <2>5, <2>6
       DEF HandlerAgrees, BindingInv, HandlerHasConnection
<1>4. ASSUME NEW c \in Conns, LoginSubscribe(c) PROVE HandlerAgrees'
  <2>1. /\ pc'[c] = "online"
        /\ \A d \in Conns : d # c => pc'[d] = pc[d]
    BY <1>4 DEF LoginSubscribe, Goto, BindingInv, SessionTypeOK
  <2>2. UNCHANGED <<userState, userConnMap, redisUp, acct>>
    BY <1>4 DEF LoginSubscribe
  <2>3. \A n \in Nodes : subscribed[n] \subseteq subscribed'[n]
    BY <1>4, Placement DEF LoginSubscribe, BindingInv, SessionTypeOK
  <2>4. redisUp[NodeOf[c]] => acct[c] \in subscribed'[NodeOf[c]]
    BY <1>4, Placement DEF LoginSubscribe, BindingInv, SessionTypeOK
  <2>5. pc[c] = "subscribe"
    BY <1>4 DEF LoginSubscribe, At
  <2>. QED
    BY <2>1, <2>2, <2>3, <2>4, <2>5, Placement DEF HandlerAgrees, Bound
<1>5. ASSUME NEW c \in Conns, LoginOnline(c) PROVE HandlerAgrees'
  BY <1>5
     DEF LoginOnline, At, Goto, UpdateState, HandlerAgrees, ExclusiveAccount,
         Holds, Bound, BindingInv, SessionTypeOK, HandlerHasConnection
<1>6. ASSUME NEW c \in Conns, LoginReply(c) PROVE HandlerAgrees'
  BY <1>6
     DEF LoginReply, Goto, HandlerAgrees, Bound, BindingInv, SessionTypeOK
<1>7. ASSUME NEW c \in Conns, LoginOutCheck(c) PROVE HandlerAgrees'
  <2>1. UNCHANGED <<userState, userConnMap, subscribed, redisUp>>
    BY <1>7 DEF LoginOutCheck
  <2>2. CASE Bound(c, session[c])
    <3>1. session[c] \in Users
      BY <1>7 DEF LoginOutCheck, BindingInv, SessionTypeOK
    <3>2. /\ userState[session[c]] = "online"
          /\ redisUp[NodeOf[c]] => session[c] \in subscribed[NodeOf[c]]
      BY <1>7, <2>2, <3>1 DEF LoginOutCheck, Serving, BoundIsReachable
    <3>3. /\ pc'[c] = "erase" /\ acct'[c] = session[c]
          /\ \A d \in Conns : d # c => pc'[d] = pc[d] /\ acct'[d] = acct[d]
      BY <1>7, <2>2 DEF LoginOutCheck, Goto, BindingInv, SessionTypeOK
    <3>. QED
      BY <2>1, <2>2, <3>2, <3>3 DEF HandlerAgrees, Bound
  <2>3. CASE ~Bound(c, session[c])
    BY <1>7, <2>1, <2>3 DEF LoginOutCheck, HandlerAgrees, Bound
  <2>. QED
    BY <2>2, <2>3
<1>8. ASSUME NEW c \in Conns, LoginOutErase(c) PROVE HandlerAgrees'
  BY <1>8
     DEF LoginOutErase, At, Goto, HandlerAgrees, Bound, BindingInv,
         SessionTypeOK
<1>9. ASSUME NEW c \in Conns, CloseErase(c) PROVE HandlerAgrees'
  <2>1. ASSUME NEW u \in Users, ReleaseAccount(c, u) PROVE HandlerAgrees'
    <3>1. \A d \in Conns : pc[d] # "idle" => d # c /\ acct[d] # u
      BY <1>9, <2>1 DEF CloseErase, ReleaseAccount, ExclusiveAccount, Holds
    <3>2. \A d \in Conns, v \in Users :
             Bound(d, v)' <=> Bound(d, v) /\ ~(NodeOf[d] = NodeOf[c] /\ v = u)
      BY <2>1, Placement DEF ReleaseAccount, Bound, BindingInv, SessionTypeOK
    <3>3. \A d \in Conns : d # c => pc'[d] = pc[d] /\ acct'[d] = acct[d]
      BY <2>1 DEF ReleaseAccount, Goto, BindingInv, SessionTypeOK
    <3>4. pc'[c] = "unsubscribe"
      BY <2>1 DEF ReleaseAccount, Goto, BindingInv, SessionTypeOK
    <3>5. UNCHANGED <<userState, subscribed, redisUp>>
      BY <1>9 DEF CloseErase
    <3>. QED
      BY <3>1, <3>2, <3>3, <3>4, <3>5
         DEF HandlerAgrees, BindingInv, HandlerHasConnection
  <2>2. CASE NothingToRelease(c)
    BY <1>9, <2>2 DEF CloseErase, NothingToRelease, HandlerAgrees, Bound
  <2>. QED
    BY <1>9, <2>1, <2>2 DEF CloseErase
<1>10. ASSUME NEW c \in Conns, Unsubscribe(c) PROVE HandlerAgrees'
  BY <1>10
     DEF Unsubscribe, At, Goto, HandlerAgrees, ExclusiveAccount, Holds, Bound,
         BindingInv, HandlerHasConnection
<1>11. ASSUME NEW c \in Conns, Offline(c) PROVE HandlerAgrees'
  BY <1>11
     DEF Offline, At, Goto, UpdateState, HandlerAgrees, ExclusiveAccount,
         Holds, Bound, BindingInv, SessionTypeOK, HandlerHasConnection
<1>12. ASSUME NEW c \in Conns, NEW u \in Users, LoginQuery(c, u) PROVE HandlerAgrees'
  BY <1>12
     DEF LoginQuery, Goto, HandlerAgrees, Bound, BindingInv, SessionTypeOK
<1>13. ASSUME NEW n \in Nodes, Crash(n) PROVE HandlerAgrees'
  BY <1>13 DEF Crash, StopNode, HandlerAgrees, Bound
<1>14. ASSUME NEW n \in Nodes, Interrupt(n) PROVE HandlerAgrees'
  BY <1>14 DEF Interrupt
<1>15. ASSUME NEW n \in Nodes, Exit(n) PROVE HandlerAgrees'
  BY <1>15 DEF Exit, StopNode, HandlerAgrees, Bound
<1>16. ASSUME NEW n \in Nodes, Restart(n) PROVE HandlerAgrees'
  BY <1>16
     DEF Restart, HandlerAgrees, Bound, DownIsEmpty, BindingInv,
         HandlerHasConnection
<1>17. ASSUME NEW n \in Nodes, RedisLost(n) PROVE HandlerAgrees'
  BY <1>17, Placement
     DEF RedisLost, HandlerAgrees, Bound, BindingInv, SessionTypeOK
<1>18. CASE UNCHANGED sessionVars
  BY <1>18 DEF sessionVars, HandlerAgrees, Bound
<1>. QED
  BY <1>1, <1>2, <1>3, <1>4, <1>5, <1>6, <1>7, <1>8, <1>9, <1>10, <1>11,
     <1>12, <1>13, <1>14, <1>15, <1>16, <1>17, <1>18
     DEF SessionNext, Handler, Client, Environment

\* A bound connection stays online and subscribed.
LEMMA ReachableStep ==
    ASSUME ~Overlap, Faults \subseteq {"crash", "redis"},
           BindingInv, HandlerAgrees, ExclusiveAccount, BoundIsReachable,
           [SessionNext]_sessionVars
    PROVE  BoundIsReachable'
<1>1. ASSUME NEW c \in Conns, Connect(c) PROVE BoundIsReachable'
  BY <1>1 DEF Connect, BoundIsReachable, Bound
<1>2. ASSUME NEW c \in Conns, PeerClose(c) PROVE BoundIsReachable'
  BY <1>2 DEF PeerClose, BoundIsReachable, Bound
<1>3. ASSUME NEW c \in Conns, LoginBind(c) PROVE BoundIsReachable'
  BY <1>3
     DEF LoginBind, Goto, BoundIsReachable, Bound, BindingInv, SessionTypeOK
<1>4. ASSUME NEW c \in Conns, LoginSubscribe(c) PROVE BoundIsReachable'
  BY <1>4 DEF LoginSubscribe, Goto, BoundIsReachable, Bound
<1>5. ASSUME NEW c \in Conns, LoginOnline(c) PROVE BoundIsReachable'
  BY <1>5
     DEF LoginOnline, Goto, UpdateState, BoundIsReachable, Bound, BindingInv,
         SessionTypeOK
<1>6. ASSUME NEW c \in Conns, LoginReply(c) PROVE BoundIsReachable'
  BY <1>6
     DEF LoginReply, At, Goto, BoundIsReachable, HandlerAgrees, Bound,
         BindingInv, BindingFollowsHandler
<1>7. ASSUME NEW c \in Conns, LoginOutCheck(c) PROVE BoundIsReachable'
  BY <1>7
     DEF LoginOutCheck, Goto, Bound, BoundIsReachable, BindingInv,
         SessionTypeOK
<1>8. ASSUME NEW c \in Conns, LoginOutErase(c) PROVE BoundIsReachable'
  BY <1>8, Placement DEF LoginOutErase, Goto, BoundIsReachable, Bound
<1>9. ASSUME NEW c \in Conns, CloseErase(c) PROVE BoundIsReachable'
  <2>1. ASSUME NEW u \in Users, ReleaseAccount(c, u) PROVE BoundIsReachable'
    <3>1. \A d \in Conns : pc[d] # "idle" => d # c /\ acct[d] # u
      BY <1>9, <2>1 DEF CloseErase, ReleaseAccount, ExclusiveAccount, Holds
    <3>2. \A d \in Conns, v \in Users :
             Bound(d, v)' <=> Bound(d, v) /\ ~(NodeOf[d] = NodeOf[c] /\ v = u)
      BY <2>1, Placement DEF ReleaseAccount, Bound, BindingInv, SessionTypeOK
    <3>3. \A d \in Conns : d # c => pc'[d] = pc[d] /\ acct'[d] = acct[d]
      BY <2>1 DEF ReleaseAccount, Goto, BindingInv, SessionTypeOK
    <3>4. pc'[c] = "unsubscribe"
      BY <2>1 DEF ReleaseAccount, Goto, BindingInv, SessionTypeOK
    <3>5. UNCHANGED <<userState, subscribed, redisUp>>
      BY <1>9 DEF CloseErase
    <3>. QED
      BY <3>1, <3>2, <3>3, <3>4, <3>5
         DEF BoundIsReachable, BindingInv, HandlerHasConnection
  <2>2. CASE NothingToRelease(c)
    BY <1>9, <2>2 DEF CloseErase, NothingToRelease, BoundIsReachable, Bound
  <2>. QED
    BY <1>9, <2>1, <2>2 DEF CloseErase
<1>10. ASSUME NEW c \in Conns, Unsubscribe(c) PROVE BoundIsReachable'
  BY <1>10
     DEF Unsubscribe, At, Goto, BoundIsReachable, ExclusiveAccount, Holds,
         Bound
<1>11. ASSUME NEW c \in Conns, Offline(c) PROVE BoundIsReachable'
  BY <1>11
     DEF Offline, At, Goto, UpdateState, BoundIsReachable, HandlerAgrees,
         ExclusiveAccount, Holds, Bound, BindingInv, SessionTypeOK,
         BindingFollowsHandler
<1>12. ASSUME NEW c \in Conns, NEW u \in Users, LoginQuery(c, u) PROVE BoundIsReachable'
  BY <1>12 DEF LoginQuery, Goto, BoundIsReachable, Bound
<1>13. ASSUME NEW n \in Nodes, Crash(n) PROVE BoundIsReachable'
  BY <1>13, Placement
     DEF Crash, StopNode, BoundIsReachable, Bound, BindingInv, SessionTypeOK
<1>14. ASSUME NEW n \in Nodes, Interrupt(n) PROVE BoundIsReachable'
  BY <1>14 DEF Interrupt
<1>15. ASSUME NEW n \in Nodes, Exit(n) PROVE BoundIsReachable'
  BY <1>15, Placement
     DEF Exit, StopNode, BoundIsReachable, Bound, BindingInv, SessionTypeOK
<1>16. ASSUME NEW n \in Nodes, Restart(n) PROVE BoundIsReachable'
  <2>1. \A d \in Conns : NodeOf[d] = n => link[d] \in {"new", "closed"}
    BY <1>16 DEF Restart, BindingInv, DownIsEmpty
  <2>2. \A d \in Conns, v \in Users : Bound(d, v) => NodeOf[d] # n
    BY <2>1 DEF BindingInv, BindingFollowsHandler
  <2>3. \A d \in Conns : NodeOf[d] # n => redisUp'[NodeOf[d]] = redisUp[NodeOf[d]]
    BY <1>16, Placement DEF Restart, BindingInv, SessionTypeOK
  <2>4. UNCHANGED <<userState, userConnMap, subscribed, pc>>
    BY <1>16 DEF Restart
  <2>. QED
    BY <2>2, <2>3, <2>4 DEF BoundIsReachable, Bound
<1>17. ASSUME NEW n \in Nodes, RedisLost(n) PROVE BoundIsReachable'
  BY <1>17, Placement
     DEF RedisLost, BoundIsReachable, Bound, BindingInv, SessionTypeOK
<1>18. CASE UNCHANGED sessionVars
  BY <1>18 DEF sessionVars, BoundIsReachable, Bound
<1>. QED
  BY <1>1, <1>2, <1>3, <1>4, <1>5, <1>6, <1>7, <1>8, <1>9, <1>10, <1>11,
     <1>12, <1>13, <1>14, <1>15, <1>16, <1>17, <1>18
     DEF SessionNext, Handler, Client, Environment

\* As long as handlers do not overlap, an account is in the hands of one
\* connection of the cluster, and an account with a connection is online and
\* subscribed, across crashes and the loss of Redis.
THEOREM SerialInvariant ==
    ASSUME ~Overlap, Faults \subseteq {"crash", "redis"}
    PROVE  SessionSpec => []SerialInv
<1>1. SessionInit => HandlerAgrees /\ ExclusiveAccount /\ BoundIsReachable
  BY Placement
     DEF SessionInit, HandlerAgrees, ExclusiveAccount, BoundIsReachable,
         Holds, Bound
<1>2. BindingInv /\ SerialInv /\ [SessionNext]_sessionVars /\ BindingInv'
        => SerialInv'
  BY ExclusiveStep, AgreesStep, ReachableStep DEF SerialInv
<1>3. SessionInit /\ BindingInv => SerialInv
  BY <1>1 DEF SerialInv
<1>. QED
  BY <1>2, <1>3, BindingInvariant, PTL DEF SessionSpec

\* A connected account can be reached from every node.
THEOREM Reachable ==
    ASSUME ~Overlap, Faults \subseteq {"crash", "redis"}
    PROVE  SessionSpec => []BoundIsReachable
<1>1. SerialInv => BoundIsReachable
  BY DEF SerialInv
<1>. QED
  BY <1>1, SerialInvariant, PTL

\* A connection gives its account up only to another one of its process, by the
\* last step of a logout or close, or with its process.
LEMMA ReleaseStep ==
    ASSUME SerialInv, [SessionNext]_sessionVars,
           NEW d \in Conns, NEW u \in Users, Holds(d, u)
    PROVE  \/ \E c \in Conns : NodeOf[c] = NodeOf[d] /\ Holds(c, u)'
           \/ Offline(d) /\ acct[d] = u
           \/ proc'[NodeOf[d]] = "down"
<1>. DEFINE Kept == \E c \in Conns : NodeOf[c] = NodeOf[d] /\ Holds(c, u)'
<1>. USE DEF SerialInv, BindingInv, SessionTypeOK
<1>1. ASSUME NEW c \in Conns, LoginBind(c) PROVE Kept
  <2>1. Bound(c, acct[c])' /\ pc'[c] # "idle" /\ acct'[c] = acct[c]
    BY <1>1, Placement DEF LoginBind, At, Goto, Bound, HandlerHasConnection
  <2>2. CASE Bound(d, u) /\ ~Bound(d, u)'
    <3>1. acct[c] = u /\ NodeOf[c] = NodeOf[d]
      BY <1>1, <2>2, Placement DEF LoginBind, Bound
    <3>. QED
      BY <2>1, <3>1 DEF Holds
  <2>3. CASE Bound(d, u)'
    BY <2>3 DEF Holds
  <2>4. CASE pc[d] # "idle" /\ acct[d] = u
    BY <1>1, <2>4 DEF LoginBind, Goto, Holds
  <2>. QED
    BY <2>2, <2>3, <2>4 DEF Holds
<1>2. ASSUME NEW c \in Conns, LoginSubscribe(c) PROVE Kept
  BY <1>2 DEF LoginSubscribe, Goto, Holds, Bound
<1>3. ASSUME NEW c \in Conns, LoginOnline(c) PROVE Kept
  BY <1>3 DEF LoginOnline, Goto, Holds, Bound
<1>4. ASSUME NEW c \in Conns, LoginReply(c) PROVE Kept
  BY <1>4 DEF LoginReply, At, Goto, Holds, Bound, HandlerAgrees
<1>5. ASSUME NEW c \in Conns, LoginOutErase(c) PROVE Kept
  <2>1. pc'[c] # "idle" /\ acct' = acct /\ pc[c] # "idle"
    BY <1>5 DEF LoginOutErase, At, Goto
  <2>2. CASE Bound(d, u) /\ ~Bound(d, u)'
    <3>1. acct[c] = u /\ NodeOf[c] = NodeOf[d]
      BY <1>5, <2>2, Placement DEF LoginOutErase, Bound
    <3>. QED
      BY <2>1, <3>1 DEF Holds
  <2>3. CASE Bound(d, u)'
    BY <2>3 DEF Holds
  <2>4. CASE pc[d] # "idle" /\ acct[d] = u
    BY <1>5, <2>4 DEF LoginOutErase, Goto, Holds
  <2>. QED
    BY <2>2, <2>3, <2>4 DEF Holds
<1>6. ASSUME NEW c \in Conns, CloseErase(c) PROVE Kept
  <2>1. ASSUME NEW v \in Users, ReleaseAccount(c, v) PROVE Kept
    <3>1. /\ pc[c] = "idle" /\ pc'[c] = "unsubscribe" /\ acct'[c] = v
          /\ \A e \in Conns : e # c => pc'[e] = pc[e] /\ acct'[e] = acct[e]
      BY <1>6, <2>1 DEF CloseErase, ReleaseAccount, Goto
    <3>2. CASE Bound(d, u) /\ ~Bound(d, u)'
      <4>1. v = u /\ NodeOf[c] = NodeOf[d]
        BY <2>1, <3>2, Placement DEF ReleaseAccount, Bound
      <4>. QED
        BY <3>1, <4>1 DEF Holds
    <3>3. CASE Bound(d, u)'
      BY <3>3 DEF Holds
    <3>4. CASE pc[d] # "idle" /\ acct[d] = u
      BY <3>1, <3>4 DEF Holds
    <3>. QED
      BY <3>2, <3>3, <3>4 DEF Holds
  <2>2. CASE NothingToRelease(c)
    BY <1>6, <2>2 DEF CloseErase, NothingToRelease, Holds, Bound
  <2>. QED
    BY <1>6, <2>1, <2>2 DEF CloseErase
<1>7. ASSUME NEW c \in Conns, Unsubscribe(c) PROVE Kept
  BY <1>7 DEF Unsubscribe, Goto, Holds, Bound
<1>8. ASSUME NEW c \in Conns, Offline(c)
      PROVE  Kept \/ (Offline(d) /\ acct[d] = u)
  <2>1. CASE c = d /\ acct[d] = u
    BY <1>8, <2>1
  <2>2. CASE Bound(d, u)
    BY <1>8, <2>2 DEF Offline, Holds, Bound
  <2>3. CASE c # d /\ pc[d] # "idle" /\ acct[d] = u
    BY <1>8, <2>3 DEF Offline, Goto, Holds
  <2>. QED
    BY <2>1, <2>2, <2>3 DEF Holds
<1>9. ASSUME NEW c \in Conns, LoginOutCheck(c) PROVE Kept
  <2>1. UNCHANGED userConnMap
    BY <1>9 DEF LoginOutCheck
  <2>2. CASE Bound(d, u)
    BY <2>1, <2>2 DEF Holds, Bound
  <2>3. CASE pc[d] # "idle" /\ acct[d] = u
    <3>1. c # d
      BY <1>9, <2>3 DEF LoginOutCheck, Serving
    <3>. QED
      BY <1>9, <2>3, <3>1 DEF LoginOutCheck, Goto, Holds
  <2>. QED
    BY <2>2, <2>3 DEF Holds
<1>10. ASSUME NEW c \in Conns, NEW v \in Users, LoginQuery(c, v) PROVE Kept
  BY <1>10 DEF LoginQuery, Serving, Goto, Holds, Bound
<1>11. ASSUME NEW n \in Nodes, StopNode(n) PROVE Kept \/ proc'[NodeOf[d]] = "down"
  BY <1>11, Placement DEF StopNode, Holds, Bound
<1>12. CASE UNCHANGED <<userConnMap, pc, acct>>
  BY <1>12 DEF Holds, Bound
<1>. QED
  BY <1>1, <1>2, <1>3, <1>4, <1>5, <1>6, <1>7, <1>8, <1>9, <1>10, <1>11, <1>12
     DEF SessionNext, Handler, Client, Environment, sessionVars, Connect,
         PeerClose, Crash, Interrupt, Exit, Restart, RedisLost

\* No process has stopped.
AllUp == \A n \in Nodes : proc[n] = "up"

\* The step behind AccountInUse: the row of an account is written by a handler
\* that has it in hand.
LEMMA InUseStep ==
    ASSUME Faults \subseteq {"redis"}, SerialInv, AccountInUse, AllUp,
           [SessionNext]_sessionVars
    PROVE  AccountInUse' /\ AllUp'
<1>. USE DEF SerialInv, BindingInv, SessionTypeOK
<1>1. AllUp'
  BY DEF AllUp, SessionNext, Handler, Client, Environment, sessionVars, Connect,
         PeerClose, LoginQuery, LoginBind, LoginSubscribe, LoginOnline,
         LoginReply, LoginOutCheck, LoginOutErase, CloseErase, Unsubscribe,
         Offline, Crash, Interrupt, Exit, Restart, RedisLost
<1>2. ASSUME NEW u \in Users, userState'[u] = "online"
      PROVE  \E c \in Conns : Holds(c, u)'
  <2>1. CASE userState[u] = "online"
    <3>1. PICK d \in Conns : Holds(d, u)
      BY <2>1 DEF AccountInUse
    <3>2. ~(Offline(d) /\ acct[d] = u)
      BY <1>2 DEF Offline, UpdateState
    <3>3. proc'[NodeOf[d]] # "down"
      BY <1>1, Placement DEF AllUp
    <3>. QED
      BY <3>1, <3>2, <3>3, ReleaseStep
  <2>2. CASE userState[u] # "online"
    <3>1. PICK c \in Conns : LoginOnline(c)
      BY <1>2, <2>2
         DEF SessionNext, Handler, Client, Environment, sessionVars, Connect,
             PeerClose, LoginQuery, LoginBind, LoginSubscribe, LoginReply,
             LoginOutCheck, LoginOutErase, CloseErase, Unsubscribe, Offline,
             UpdateState, Crash, Interrupt, Exit, Restart, RedisLost
    <3>2. acct[c] = u
      BY <1>2, <2>2, <3>1 DEF LoginOnline, UpdateState
    <3>. QED
      BY <3>1, <3>2 DEF LoginOnline, Goto, Holds
  <2>. QED
    BY <2>1, <2>2
<1>. QED
  BY <1>1, <1>2 DEF AccountInUse

\* Without overlapping handlers, crashes or lost updates no account stays online
\* with nobody there: errno 2 of login tells the truth.
THEOREM InUse ==
    ASSUME ~Overlap, Faults \subseteq {"redis"}
    PROVE  SessionSpec => []AccountInUse
<1>1. SessionInit => AccountInUse /\ AllUp
  BY DEF SessionInit, AccountInUse, AllUp
<1>2. SerialInv /\ AccountInUse /\ AllUp /\ [SessionNext]_sessionVars
        => AccountInUse' /\ AllUp'
  BY InUseStep
<1>3. SessionSpec => []SerialInv
  BY SerialInvariant
<1>. QED
  BY <1>1, <1>2, <1>3, PTL DEF SessionSpec

\* Why a subscription ends before its account is given up.
ReleasedChannel ==
    \A c \in Conns : pc[c] = "offline" /\ redisUp[NodeOf[c]]
                        => acct[c] \notin subscribed[NodeOf[c]]

StoppedIsUnsubscribed ==
    \A n \in Nodes : proc[n] = "down" => subscribed[n] = {}

LeakInv == NoLeakedSubscription /\ ReleasedChannel /\ StoppedIsUnsubscribed

\* The step behind NoLeakedSubscription.
LEMMA LeakStep ==
    ASSUME Faults \subseteq {"crash", "redis"}, SerialInv, LeakInv,
           [SessionNext]_sessionVars
    PROVE  LeakInv'
<1>. USE DEF SerialInv, BindingInv, SessionTypeOK
<1>1. StoppedIsUnsubscribed'
  <2>1. ASSUME NEW c \in Conns, LoginSubscribe(c) PROVE StoppedIsUnsubscribed'
    BY <2>1, Placement
       DEF LoginSubscribe, At, Running, StoppedIsUnsubscribed, LeakInv
  <2>2. ASSUME NEW c \in Conns, Unsubscribe(c) PROVE StoppedIsUnsubscribed'
    BY <2>2, Placement
       DEF Unsubscribe, At, Running, StoppedIsUnsubscribed, LeakInv
  <2>3. ASSUME NEW n \in Nodes, StopNode(n) PROVE StoppedIsUnsubscribed'
    BY <2>3 DEF StopNode, StoppedIsUnsubscribed, LeakInv
  <2>4. ASSUME NEW n \in Nodes, Interrupt(n) \/ Restart(n) \/ RedisLost(n)
        PROVE  StoppedIsUnsubscribed'
    BY <2>4 DEF Interrupt, Restart, RedisLost, StoppedIsUnsubscribed, LeakInv
  <2>5. CASE UNCHANGED <<proc, subscribed>>
    BY <2>5 DEF StoppedIsUnsubscribed, LeakInv
  <2>. QED
    BY <2>1, <2>2, <2>3, <2>4, <2>5
       DEF SessionNext, Handler, Client, Environment, sessionVars, Connect,
           PeerClose, LoginQuery, LoginBind, LoginOnline, LoginReply,
           LoginOutCheck, LoginOutErase, CloseErase, Offline, Crash, Exit
<1>2. ASSUME NEW n \in Nodes, redisUp'[n]
      PROVE  redisUp[n] \/ subscribed'[n] = {}
  BY ZenonT(60), <1>2
     DEF SessionNext, Handler, Client, Environment, sessionVars, Connect,
         PeerClose, LoginQuery, LoginBind, LoginSubscribe, LoginOnline,
         LoginReply, LoginOutCheck, LoginOutErase, CloseErase, Unsubscribe,
         Offline, Crash, Interrupt, Exit, Restart, RedisLost, LeakInv,
         StoppedIsUnsubscribed
<1>3. ASSUME NEW n \in Nodes, NEW u \in subscribed'[n], u \notin subscribed[n]
      PROVE  \E c \in Conns : NodeOf[c] = n /\ acct[c] = u /\ LoginSubscribe(c)
  <2>1. PICK c \in Conns : LoginSubscribe(c)
    <3>1. ASSUME NEW c \in Conns, Unsubscribe(c) PROVE FALSE
      BY <1>3, <3>1, Placement DEF Unsubscribe
    <3>2. ASSUME NEW m \in Nodes, StopNode(m) PROVE FALSE
      BY <1>3, <3>2 DEF StopNode
    <3>3. ASSUME NEW m \in Nodes, RedisLost(m) PROVE FALSE
      BY <1>3, <3>3 DEF RedisLost
    <3>4. subscribed' # subscribed
      BY <1>3
    <3>. QED
      BY <3>1, <3>2, <3>3, <3>4
         DEF SessionNext, Handler, Client, Environment, sessionVars, Connect,
             PeerClose, LoginQuery, LoginBind, LoginOnline, LoginReply,
             LoginOutCheck, LoginOutErase, CloseErase, Offline, Crash,
             Interrupt, Exit, Restart
  <2>2. NodeOf[c] = n /\ acct[c] = u
    BY <1>3, <2>1, Placement DEF LoginSubscribe
  <2>. QED
    BY <2>1, <2>2
<1>4. ASSUME NEW n \in Nodes, redisUp'[n], NEW u \in subscribed'[n]
      PROVE  \E c \in Conns : NodeOf[c] = n /\ Holds(c, u)'
  <2>1. CASE u \in subscribed[n]
    <3>1. redisUp[n]
      BY <1>2, <1>4
    <3>2. PICK d \in Conns : NodeOf[d] = n /\ Holds(d, u)
      BY <2>1, <3>1 DEF LeakInv, NoLeakedSubscription
    <3>3. ~(Offline(d) /\ acct[d] = u)
      BY <2>1, <3>1, <3>2 DEF Offline, At, LeakInv, ReleasedChannel
    <3>4. proc'[n] # "down"
      BY <1>1, <1>4 DEF StoppedIsUnsubscribed
    <3>5. u \in Users
      BY <2>1
    <3>. QED
      BY <3>2, <3>3, <3>4, <3>5, ReleaseStep
  <2>2. CASE u \notin subscribed[n]
    BY <1>3, <2>2 DEF LoginSubscribe, Goto, Holds
  <2>. QED
    BY <2>1, <2>2
<1>5. ASSUME NEW c \in Conns, pc'[c] = "offline", redisUp'[NodeOf[c]],
             acct'[c] \in subscribed'[NodeOf[c]]
      PROVE  FALSE
  <2>. DEFINE n == NodeOf[c]
  <2>1. n \in Nodes /\ redisUp[n]
    BY <1>2, <1>5, Placement
  <2>2. Unsubscribe(c) \/ (pc[c] = "offline" /\ acct'[c] = acct[c])
    <3>. DEFINE Waits == pc[c] = "offline" /\ acct'[c] = acct[c]
    <3>1. ASSUME NEW d \in Conns,
                 \/ LoginBind(d) \/ LoginSubscribe(d) \/ LoginOnline(d)
                 \/ LoginReply(d) \/ LoginOutErase(d) \/ Offline(d)
          PROVE  Waits
      BY <1>5, <3>1
         DEF LoginBind, LoginSubscribe, LoginOnline, LoginReply, LoginOutErase,
             Offline, At, Goto
    <3>2. ASSUME NEW d \in Conns, CloseErase(d) PROVE Waits
      <4>1. ASSUME NEW u \in Users, ReleaseAccount(d, u) PROVE Waits
        BY <1>5, <4>1 DEF ReleaseAccount, Goto
      <4>2. CASE NothingToRelease(d)
        BY <1>5, <4>2 DEF NothingToRelease
      <4>. QED
        BY <3>2, <4>1, <4>2 DEF CloseErase
    <3>3. ASSUME NEW d \in Conns, Unsubscribe(d) PROVE Unsubscribe(c) \/ Waits
      BY <1>5, <3>3 DEF Unsubscribe, Goto
    <3>4. ASSUME NEW d \in Conns, LoginOutCheck(d) PROVE Waits
      BY <1>5, <3>4 DEF LoginOutCheck, Serving, Goto
    <3>5. ASSUME NEW d \in Conns, NEW u \in Users, LoginQuery(d, u) PROVE Waits
      BY <1>5, <3>5 DEF LoginQuery, Serving, Goto
    <3>6. ASSUME NEW m \in Nodes, StopNode(m) PROVE Waits
      BY <1>5, <3>6 DEF StopNode
    <3>7. CASE UNCHANGED <<pc, acct>>
      BY <1>5, <3>7
    <3>. QED
      BY <3>1, <3>2, <3>3, <3>4, <3>5, <3>6, <3>7
         DEF SessionNext, Handler, Client, Environment, sessionVars, Connect,
             PeerClose, Crash, Interrupt, Exit, Restart, RedisLost
  <2>3. CASE pc[c] = "offline" /\ acct'[c] = acct[c]
    <3>1. acct[c] \notin subscribed[n]
      BY <2>1, <2>3 DEF LeakInv, ReleasedChannel
    <3>2. PICK e \in Conns : acct[e] = acct[c] /\ LoginSubscribe(e)
      BY <1>3, <1>5, <2>1, <2>3, <3>1
    <3>3. Holds(e, acct[c]) /\ Holds(c, acct[c]) /\ e # c
      BY <2>3, <3>2 DEF Holds, LoginSubscribe, At
    <3>. QED
      BY <2>3, <3>3 DEF ExclusiveAccount, HandlerHasConnection
  <2>4. CASE Unsubscribe(c)
    BY <1>5, <2>1, <2>4 DEF Unsubscribe
  <2>. QED
    BY <2>2, <2>3, <2>4
<1>. QED
  BY <1>1, <1>4, <1>5 DEF LeakInv, NoLeakedSubscription, ReleasedChannel

\* No process stays subscribed to an account that has left it, across crashes
\* and the loss of Redis.
THEOREM NoLeak ==
    ASSUME ~Overlap, Faults \subseteq {"crash", "redis"}
    PROVE  SessionSpec => []NoLeakedSubscription
<1>1. SessionInit => LeakInv
  BY Placement
     DEF SessionInit, LeakInv, NoLeakedSubscription, ReleasedChannel,
         StoppedIsUnsubscribed
<1>2. SerialInv /\ LeakInv /\ [SessionNext]_sessionVars => LeakInv'
  BY LeakStep
<1>3. LeakInv => NoLeakedSubscription
  BY DEF LeakInv
<1>4. SessionSpec => []SerialInv
  BY SerialInvariant
<1>. QED
  BY <1>1, <1>2, <1>3, <1>4, PTL DEF SessionSpec
=============================================================================
