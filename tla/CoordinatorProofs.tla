------------------------- MODULE CoordinatorProofs -------------------------
(***************************************************************************)
(* Proofs about Coordinator for any set of endpoints, any delays and any   *)
(* number of faults and sessions.                                          *)
(***************************************************************************)
EXTENDS Coordinator, TLAPS

\* A cancellation is under way only between stop() and the end of the task,
\* and a task that has ended after stop() is all that stop() waits for.
CancelInv == cancel => stopPc = "cancelling" /\ pc \notin {"off", "done"}

IInv == TypeOK /\ CancelInv /\ StopIsFinal

----------------------------------------------------------------------------

\* The delays' bounds: the shorter one, and the doubled one cut off, are delays.
LEMMA DelayBounds ==
    /\ MinDelay \in MinDelay..MaxDelay
    /\ \A d \in MinDelay..MaxDelay : Min2(d * 2, MaxDelay) \in MinDelay..MaxDelay
BY CoordinatorAssumption DEF CoordinatorAssumption, Min2

\* The initial states.
LEMMA InitInv == Init => IInv
<1> SUFFICES ASSUME Init PROVE IInv
  OBVIOUS
<1>1. LoopTypeOK
  BY DEF Init, LoopTypeOK, Awaits
<1>2. DelayOK
  BY DelayBounds DEF Init, DelayOK
<1>3. HubTypeOK
  BY DEF Init, HubTypeOK
<1>4. CancelInv /\ StopIsFinal
  BY DEF Init, CancelInv, StopIsFinal
<1>5. QED BY <1>1, <1>2, <1>3, <1>4 DEF IInv, TypeOK

\* The run loop stays at one of its awaits.
LEMMA LoopTypePreserved ==
    ASSUME TypeOK, [Next]_vars
    PROVE  LoopTypeOK'
<1> USE DEF TypeOK, LoopTypeOK, HubTypeOK, Awaits, vars, loopVars, connVars, stopVars, hubVars
<1>1. CASE Start
  BY <1>1 DEF Start, LoopTest, NewTunnel, Stopping, connVars
<1>2. CASE Connected
  BY <1>2 DEF Connected
<1>3. CASE ConnectFails
  BY <1>3 DEF ConnectFails
<1>4. CASE HandshakeOK
  BY <1>4 DEF HandshakeOK
<1>5. CASE HandshakeFails
  BY <1>5 DEF HandshakeFails, ToSleep, Stopping
<1>6. CASE CheckinOK
  BY <1>6 DEF CheckinOK
<1>7. CASE CheckinFails
  BY <1>7 DEF CheckinFails
<1>8. CASE ListenReturns
  BY <1>8 DEF ListenReturns
<1>9. CASE Closed
  BY <1>9 DEF Closed, AfterSession, ToSleep, Stopping
<1>10. CASE MdnsMoved
  BY <1>10 DEF MdnsMoved, LoopTest, NewTunnel, Stopping, connVars
<1>11. CASE MdnsSame
  BY <1>11 DEF MdnsSame, ToSleep, Stopping
<1>12. CASE Slept
  BY <1>12 DEF Slept, NextBackoff, Min2, LoopTest, NewTunnel, Stopping, connVars
<1>13. CASE KeepaliveLost
  BY <1>13 DEF KeepaliveLost
<1>14. CASE Stop
  BY <1>14 DEF Stop
<1>15. CASE Cancelled
  BY <1>15 DEF Cancelled
<1>16. CASE StopReturns
  BY <1>16 DEF StopReturns
<1>17. CASE HubDies
  BY <1>17 DEF HubDies, Broken
<1>18. CASE HubReturns
  BY <1>18 DEF HubReturns
<1>19. CASE HubDrops
  BY <1>19 DEF HubDrops, Broken
<1>20. CASE UNCHANGED vars
  BY <1>20
<1>21. QED
  BY <1>1, <1>2, <1>3, <1>4, <1>5, <1>6, <1>7, <1>8, <1>9, <1>10, <1>11, <1>12, <1>13, <1>14, <1>15, <1>16, <1>17, <1>18, <1>19, <1>20 DEF Next, RunLoop, Hub

\* The backoff is doubled up to its cap, or reset.
LEMMA DelayPreserved ==
    ASSUME TypeOK, [Next]_vars
    PROVE  DelayOK'
<1> USE DelayBounds DEF TypeOK, DelayOK, vars, loopVars, connVars, stopVars, hubVars
<1>1. CASE Start
  BY <1>1 DEF Start, LoopTest, NewTunnel, Stopping, connVars
<1>2. CASE Connected
  BY <1>2 DEF Connected
<1>3. CASE ConnectFails
  BY <1>3 DEF ConnectFails
<1>4. CASE HandshakeOK
  BY <1>4 DEF HandshakeOK
<1>5. CASE HandshakeFails
  BY <1>5 DEF HandshakeFails, ToSleep, Stopping
<1>6. CASE CheckinOK
  BY <1>6 DEF CheckinOK
<1>7. CASE CheckinFails
  BY <1>7 DEF CheckinFails
<1>8. CASE ListenReturns
  BY <1>8 DEF ListenReturns
<1>9. CASE Closed
  BY <1>9 DEF Closed, AfterSession, ToSleep, Stopping
<1>10. CASE MdnsMoved
  BY <1>10 DEF MdnsMoved, LoopTest, NewTunnel, Stopping, connVars
<1>11. CASE MdnsSame
  BY <1>11 DEF MdnsSame, ToSleep, Stopping
<1>12. CASE Slept
  BY <1>12 DEF Slept, NextBackoff, LoopTest, NewTunnel, Stopping, connVars
<1>13. CASE KeepaliveLost
  BY <1>13 DEF KeepaliveLost
<1>14. CASE Stop
  BY <1>14 DEF Stop
<1>15. CASE Cancelled
  BY <1>15 DEF Cancelled
<1>16. CASE StopReturns
  BY <1>16 DEF StopReturns
<1>17. CASE HubDies
  BY <1>17 DEF HubDies, Broken
<1>18. CASE HubReturns
  BY <1>18 DEF HubReturns
<1>19. CASE HubDrops
  BY <1>19 DEF HubDrops, Broken
<1>20. CASE UNCHANGED vars
  BY <1>20
<1>21. QED
  BY <1>1, <1>2, <1>3, <1>4, <1>5, <1>6, <1>7, <1>8, <1>9, <1>10, <1>11, <1>12, <1>13, <1>14, <1>15, <1>16, <1>17, <1>18, <1>19, <1>20 DEF Next, RunLoop, Hub

\* The connection, stop() and the hub.
LEMMA HubTypePreserved ==
    ASSUME TypeOK, [Next]_vars
    PROVE  HubTypeOK'
<1> USE DEF TypeOK, LoopTypeOK, HubTypeOK, vars, loopVars, connVars, stopVars, hubVars
<1>1. CASE Start
  BY <1>1 DEF Start, NewTunnel, Stopping, connVars
<1>2. CASE Connected
  BY <1>2 DEF Connected
<1>3. CASE ConnectFails
  BY <1>3 DEF ConnectFails
<1>4. CASE HandshakeOK
  BY <1>4 DEF HandshakeOK
<1>5. CASE HandshakeFails
  BY <1>5 DEF HandshakeFails, ToSleep, Stopping
<1>6. CASE CheckinOK
  BY <1>6 DEF CheckinOK
<1>7. CASE CheckinFails
  BY <1>7 DEF CheckinFails
<1>8. CASE ListenReturns
  BY <1>8 DEF ListenReturns
<1>9. CASE Closed
  BY <1>9 DEF Closed, AfterSession, ToSleep, Stopping
<1>10. CASE MdnsMoved
  BY <1>10 DEF MdnsMoved, NewTunnel, Stopping, connVars
<1>11. CASE MdnsSame
  BY <1>11 DEF MdnsSame, ToSleep, Stopping
<1>12. CASE Slept
  BY <1>12 DEF Slept, NextBackoff, Min2, NewTunnel, Stopping, connVars
<1>13. CASE KeepaliveLost
  BY <1>13 DEF KeepaliveLost
<1>14. CASE Stop
  BY <1>14 DEF Stop
<1>15. CASE Cancelled
  BY <1>15 DEF Cancelled
<1>16. CASE StopReturns
  BY <1>16 DEF StopReturns
<1>17. CASE HubDies
  <2>1. conn' \in {"none", "open", "eof", "silent"}
    BY <1>17 DEF HubDies, Broken
  <2>2. /\ faults' = faults + 1 /\ hubUp' = FALSE
        /\ UNCHANGED <<tunnel, stopVars, hubAt>>
    BY <1>17 DEF HubDies
  <2>3. faults' \in Nat
    BY <2>2
  <2>4. hubUp' \in BOOLEAN /\ UNCHANGED <<tunnel, stopPc, cancel, hubAt>>
    BY <2>2
  <2>5. QED BY <2>1, <2>3, <2>4
<1>18. CASE HubReturns
  BY <1>18 DEF HubReturns
<1>19. CASE HubDrops
  BY <1>19 DEF HubDrops, Broken
<1>20. CASE UNCHANGED vars
  BY <1>20
<1>21. QED
  BY <1>1, <1>2, <1>3, <1>4, <1>5, <1>6, <1>7, <1>8, <1>9, <1>10, <1>11, <1>12, <1>13, <1>14, <1>15, <1>16, <1>17, <1>18, <1>19, <1>20 DEF Next, RunLoop, Hub

\* The type invariant is inductive by itself.
LEMMA TypePreserved ==
    ASSUME TypeOK, [Next]_vars
    PROVE  TypeOK'
BY LoopTypePreserved, DelayPreserved, HubTypePreserved DEF TypeOK

\* Every step keeps what is known of a cancellation and of a stopped loop.
LEMMA StopPreserved ==
    ASSUME IInv, [Next]_vars
    PROVE  CancelInv' /\ StopIsFinal'
<1> USE DEF IInv, CancelInv, StopIsFinal, vars, loopVars, connVars, stopVars, hubVars
<1> HIDE DEF TypeOK
<1>1. CASE RunLoop
  <2>1. ~cancel /\ pc # "done" /\ UNCHANGED stopVars
    BY <1>1 DEF RunLoop, Start, Connected, ConnectFails, HandshakeOK, HandshakeFails,
        CheckinOK, CheckinFails, ListenReturns, Closed, MdnsMoved, MdnsSame, Slept
  <2>2. QED BY <2>1
<1>2. CASE KeepaliveLost
  BY <1>2 DEF KeepaliveLost
<1>3. CASE Stop
  BY <1>3 DEF Stop
<1>4. CASE Cancelled
  BY <1>4 DEF Cancelled
<1>5. CASE StopReturns
  BY <1>5 DEF StopReturns
<1>6. CASE HubDies
  BY <1>6 DEF HubDies, Broken
<1>7. CASE HubReturns
  BY <1>7 DEF HubReturns
<1>8. CASE HubDrops
  BY <1>8 DEF HubDrops
<1>9. CASE UNCHANGED vars
  BY <1>9
<1>10. QED
  BY <1>1, <1>2, <1>3, <1>4, <1>5, <1>6, <1>7, <1>8, <1>9 DEF Next, Hub

\* The invariant of the reachable states.
THEOREM CoordinatorInvariant == Spec => []IInv
<1>1. IInv /\ [Next]_vars => IInv'
  BY TypePreserved, StopPreserved DEF IInv
<1>2. QED BY InitInv, <1>1, PTL DEF Spec

\* The run loop's state is well formed; its backoff stays within the bounds
\* it was given (coordinator.py:530-534).
THEOREM TypeCorrect == Spec => []TypeOK
<1>1. IInv => TypeOK
  BY DEF IInv
<1>2. QED BY CoordinatorInvariant, <1>1, PTL

\* Once stop() has returned nothing of the coordinator is left
\* (coordinator.py:258-269).
THEOREM StopLeavesNothing == Spec => []StopIsFinal
<1>1. IInv => StopIsFinal
  BY DEF IInv
<1>2. QED BY CoordinatorInvariant, <1>1, PTL

----------------------------------------------------------------------------

\* A connection is begun by the test of the loop alone, and that needs a
\* start, a sleep, or a new endpoint.
LEMMA AttemptStep ==
    ASSUME TypeOK, [Next]_vars, pc # "connecting", pc' = "connecting"
    PROVE  ~Stopping /\ (pc \in {"off", "sleeping"} \/ host' # host)
<1> USE DEF TypeOK, Stopping, vars, loopVars, connVars, stopVars, hubVars
<1>1. CASE Start
  BY <1>1 DEF Start, LoopTest, NewTunnel, connVars
<1>2. CASE Connected
  BY <1>2 DEF Connected
<1>3. CASE ConnectFails
  BY <1>3 DEF ConnectFails
<1>4. CASE HandshakeOK
  BY <1>4 DEF HandshakeOK
<1>5. CASE HandshakeFails
  BY <1>5 DEF HandshakeFails, ToSleep
<1>6. CASE CheckinOK
  BY <1>6 DEF CheckinOK
<1>7. CASE CheckinFails
  BY <1>7 DEF CheckinFails
<1>8. CASE ListenReturns
  BY <1>8 DEF ListenReturns
<1>9. CASE Closed
  BY <1>9 DEF Closed, AfterSession, ToSleep
<1>10. CASE MdnsMoved
  BY <1>10 DEF MdnsMoved, LoopTest, NewTunnel, connVars
<1>11. CASE MdnsSame
  BY <1>11 DEF MdnsSame, ToSleep
<1>12. CASE Slept
  BY <1>12 DEF Slept, NextBackoff, Min2, LoopTest, NewTunnel, connVars
<1>13. CASE KeepaliveLost
  BY <1>13 DEF KeepaliveLost
<1>14. CASE Stop
  BY <1>14 DEF Stop
<1>15. CASE Cancelled
  BY <1>15 DEF Cancelled
<1>16. CASE StopReturns
  BY <1>16 DEF StopReturns
<1>17. CASE HubDies
  BY <1>17 DEF HubDies, Broken
<1>18. CASE HubReturns
  BY <1>18 DEF HubReturns
<1>19. CASE HubDrops
  BY <1>19 DEF HubDrops, Broken
<1>20. CASE UNCHANGED vars
  BY <1>20
<1>21. QED
  BY <1>1, <1>2, <1>3, <1>4, <1>5, <1>6, <1>7, <1>8, <1>9, <1>10, <1>11, <1>12, <1>13, <1>14, <1>15, <1>16, <1>17, <1>18, <1>19, <1>20 DEF Next, RunLoop, Hub

\* No connection is begun once stop() was called (coordinator.py:500).
THEOREM NoneBegunAfterStop == Spec => NoAttemptAfterStop
<1>1. TypeOK /\ [Next]_vars =>
        [Stopping => ~(pc # "connecting" /\ pc' = "connecting")]_vars
  BY AttemptStep
<1>2. QED BY TypeCorrect, <1>1, PTL DEF Spec, NoAttemptAfterStop

\* Two attempts on the same endpoint are a backoff apart
\* (coordinator.py:509-528).
THEOREM AttemptsArePaced == Spec => RetriesArePaced
<1>1. TypeOK /\ [Next]_vars =>
        [pc # "connecting" /\ pc' = "connecting" =>
            pc \in {"off", "sleeping"} \/ host' # host]_vars
  BY AttemptStep
<1>2. QED BY TypeCorrect, <1>1, PTL DEF Spec, RetriesArePaced

----------------------------------------------------------------------------

\* Every step of the coordinator is a step of Link or changes nothing that
\* Link speaks of.
LEMMA LinkStep ==
    ASSUME IInv, [Next]_vars
    PROVE  [L!Next]_(L!vars)
<1> USE DEF IInv, CancelInv, StopIsFinal, link, L!vars, L!Next, L!Up, L!Down,
    L!Stop, vars, loopVars, connVars, stopVars, hubVars
<1> HIDE DEF TypeOK
<1>1. CASE Start
  BY <1>1 DEF Start, LoopTest, NewTunnel, Stopping, connVars
<1>2. CASE Connected
  BY <1>2 DEF Connected
<1>3. CASE ConnectFails
  BY <1>3 DEF ConnectFails
<1>4. CASE HandshakeOK
  BY <1>4 DEF HandshakeOK
<1>5. CASE HandshakeFails
  BY <1>5 DEF HandshakeFails, ToSleep, Stopping
<1>6. CASE CheckinOK
  BY <1>6 DEF CheckinOK
<1>7. CASE CheckinFails
  BY <1>7 DEF CheckinFails
<1>8. CASE ListenReturns
  BY <1>8 DEF ListenReturns
<1>9. CASE Closed
  BY <1>9 DEF Closed, AfterSession, ToSleep, Stopping
<1>10. CASE MdnsMoved
  BY <1>10 DEF MdnsMoved, LoopTest, NewTunnel, Stopping, connVars
<1>11. CASE MdnsSame
  BY <1>11 DEF MdnsSame, ToSleep, Stopping
<1>12. CASE Slept
  BY <1>12 DEF Slept, NextBackoff, Min2, LoopTest, NewTunnel, Stopping, connVars
<1>13. CASE KeepaliveLost
  BY <1>13 DEF KeepaliveLost
<1>14. CASE Stop
  BY <1>14 DEF Stop
<1>15. CASE Cancelled
  BY <1>15 DEF Cancelled
<1>16. CASE StopReturns
  BY <1>16 DEF StopReturns
<1>17. CASE HubDies
  BY <1>17 DEF HubDies, Broken
<1>18. CASE HubReturns
  BY <1>18 DEF HubReturns
<1>19. CASE HubDrops
  BY <1>19 DEF HubDrops, Broken
<1>20. CASE UNCHANGED vars
  BY <1>20
<1>21. QED
  BY <1>1, <1>2, <1>3, <1>4, <1>5, <1>6, <1>7, <1>8, <1>9, <1>10, <1>11, <1>12, <1>13, <1>14, <1>15, <1>16, <1>17, <1>18, <1>19, <1>20 DEF Next, RunLoop, Hub

\* The coordinator implements Link: a session is announced once when it comes
\* up, never after stop(), and a stopped link holds no connection.
THEOREM CoordinatorImplementsLink == Spec => ImplementsLink
<1>1. Init => L!Init
  BY DEF Init, L!Init, link
<1>2. QED
  BY CoordinatorInvariant, LinkStep, <1>1, PTL
     DEF Spec, ImplementsLink, L!Spec
=============================================================================
