---------------------------- MODULE Coordinator ----------------------------
(***************************************************************************)
(* The life of a hub connection: HubCoordinator._run and what it drives    *)
(* (hub/coordinator.py, the connection side of hub/tunnel.py), against a    *)
(* hub that dies, restarts on another port, hangs, refuses, or closes.     *)
(*                                                                         *)
(* The run loop is one task; `pc' is the await it stands at.  stop() runs  *)
(* in another task: it raises a flag, cancels the run loop and waits for   *)
(* it.  A cancellation is delivered at an await, and the awaits inside the *)
(* cleanup of a session swallow it.                                        *)
(*                                                                         *)
(* Left out: requests (see Session), the contents of the handshake, the    *)
(* jitter on the backoff.                                                  *)
(***************************************************************************)
EXTENDS Naturals

CONSTANTS
    Endpoints,      \* the (address, port) pairs the hub can be found at
    MinDelay,       \* reconnect_min_delay
    MaxDelay,       \* reconnect_max_delay
    MaxFaults,      \* bound: faults of the hub and the network
    MaxUps          \* bound: sessions that come up

ASSUME CoordinatorAssumption ==
    /\ Endpoints # {}
    /\ MinDelay \in Nat \ {0}
    /\ MaxDelay \in Nat
    /\ MinDelay <= MaxDelay
    /\ MaxFaults \in Nat
    /\ MaxUps \in Nat

VARIABLES
    pc,         \* where _run is
    why,        \* how the session that is being cleaned up ended
    backoff,    \* _run's backoff
    host,       \* _host, _port
    tunnel,     \* _tunnel is set
    conn,       \* the TCP connection of the current tunnel
    stopPc,     \* stop(): "no", "cancelling", "returned"
    cancel,     \* a cancellation of the run loop is to be delivered
    ups,        \* calls of on_session_up
    hubUp,      \* the hub accepts connections and answers
    hubAt,      \* the endpoints it is reachable at and announces by mDNS
    faults      \* faults so far

loopVars == <<pc, why, backoff, host, ups>>
connVars == <<tunnel, conn>>
stopVars == <<stopPc, cancel>>
hubVars == <<hubUp, hubAt, faults>>
vars == <<loopVars, connVars, stopVars, hubVars>>

Awaits == {"connecting", "handshaking", "checkin", "up", "closing", "mdns",
           "sleeping"}

LoopTypeOK ==
    /\ pc \in Awaits \cup {"off", "done"}
    /\ why \in {"clean", "conn", "other"}
    /\ host \in Endpoints
    /\ ups \in Nat

DelayOK == backoff \in MinDelay..MaxDelay

HubTypeOK ==
    /\ tunnel \in BOOLEAN
    /\ conn \in {"none", "open", "eof", "silent"}
    /\ stopPc \in {"no", "cancelling", "returned"}
    /\ cancel \in BOOLEAN
    /\ hubUp \in BOOLEAN
    /\ hubAt \in (SUBSET Endpoints) \ {{}}
    /\ faults \in Nat

\* The backoff keeps between the two delays the integration was given.
TypeOK == LoopTypeOK /\ DelayOK /\ HubTypeOK

Init ==
    /\ pc = "off"
    /\ why = "clean"
    /\ backoff = MinDelay
    /\ host \in Endpoints
    /\ tunnel = FALSE
    /\ conn = "none"
    /\ stopPc = "no"
    /\ cancel = FALSE
    /\ ups = 0
    /\ hubUp \in BOOLEAN
    /\ hubAt \in (SUBSET Endpoints) \ {{}}
    /\ faults = 0

Stopping == stopPc # "no"

----------------------------------------------------------------------------
(* The run loop *)

\* while not self._stopping: the next session, or the end of the task.
LoopTest == pc' = IF Stopping THEN "done" ELSE "connecting"

\* A new tunnel replaces the last one, whose socket, if a failed handshake
\* left it open, is closed when the object goes away.
NewTunnel == IF Stopping THEN UNCHANGED connVars ELSE tunnel' = TRUE /\ conn' = "none"

\* The backoff, unless the flag was raised meanwhile.
ToSleep == pc' = IF Stopping THEN "done" ELSE "sleeping"

\* start(); a coordinator is started once.
Start ==
    /\ pc = "off"
    /\ stopPc = "no"
    /\ LoopTest
    /\ NewTunnel
    /\ UNCHANGED <<why, backoff, host, ups, stopVars, hubVars>>

\* open_connection() succeeds.
Connected ==
    /\ pc = "connecting"
    /\ hubUp /\ host \in hubAt
    /\ conn' = "open"
    /\ pc' = "handshaking"
    /\ UNCHANGED <<why, backoff, host, ups, tunnel, stopVars, hubVars>>

\* open_connection() raises, now or when the kernel gives up.  The tunnel
\* stays in _tunnel.
ConnectFails ==
    /\ pc = "connecting"
    /\ ~hubUp \/ host \notin hubAt
    /\ pc' = "mdns"
    /\ UNCHANGED <<why, backoff, host, ups, connVars, stopVars, hubVars>>

\* Mutation: the link is announced when the tunnel is open, before checkin.
M_HandshakeOK ==
    /\ pc = "handshaking" /\ conn = "open" /\ hubUp
    /\ pc' = "checkin" /\ ups' = ups + 1
    /\ UNCHANGED <<why, backoff, host, connVars, stopVars, hubVars>>

\* The key exchange is done: client, listen task and checkin.
HandshakeOK ==
    /\ pc = "handshaking"
    /\ conn = "open" /\ hubUp
    /\ pc' = "checkin"
    /\ UNCHANGED <<why, backoff, host, ups, connVars, stopVars, hubVars>>

\* _recv_frame has no timeout: a handshake fails only when the connection
\* does (TunnelError, OSError: "conn") or on a frame that is wrong (also
\* ValueError: "other").  The socket stays as it is.
HandshakeFails ==
    /\ pc = "handshaking"
    /\ \/ conn = "eof" /\ pc' = "mdns" /\ UNCHANGED faults
       \/ /\ conn = "open" /\ faults < MaxFaults
          /\ faults' = faults + 1
          /\ pc' = "mdns" \/ ToSleep
    /\ UNCHANGED <<why, backoff, host, ups, connVars, stopVars, hubUp, hubAt>>

\* The hub accepts the checkin: _connected_event, on_session_up.
CheckinOK ==
    /\ pc = "checkin"
    /\ conn = "open" /\ hubUp
    /\ ups < MaxUps
    /\ ups' = ups + 1
    /\ pc' = "up"
    /\ UNCHANGED <<why, backoff, host, connVars, stopVars, hubVars>>

\* The checkin is not answered within 10 s, the connection breaks, the hub
\* refuses, or the listen task fails with something that is no
\* ConnectionError.
CheckinFails ==
    /\ pc = "checkin"
    /\ \/ conn # "open" /\ why' = "conn" /\ UNCHANGED faults
       \/ /\ conn = "open" /\ faults < MaxFaults
          /\ faults' = faults + 1
          /\ why' \in {"conn", "other"}
    /\ pc' = "closing"
    /\ UNCHANGED <<backoff, host, ups, connVars, stopVars, hubUp, hubAt>>

\* listen() returns: EOF, or a frame it cannot read.
ListenReturns ==
    /\ pc = "up"
    /\ \/ conn = "eof" /\ UNCHANGED faults
       \/ conn = "open" /\ faults < MaxFaults /\ faults' = faults + 1
    /\ pc' = "closing"
    /\ why' = "clean"
    /\ UNCHANGED <<backoff, host, ups, connVars, stopVars, hubUp, hubAt>>

\* Mutation: the keepalive loop only sends, it does not close the writer.
M_KeepaliveLost ==
    /\ pc = "up" /\ conn = "silent"
    /\ UNCHANGED vars

\* _keepalive_loop: nothing heard for three intervals.  Closing the writer
\* gives the reader its EOF.
KeepaliveLost ==
    /\ pc = "up"
    /\ conn = "silent"
    /\ conn' = "eof"
    /\ UNCHANGED <<loopVars, tunnel, stopVars, hubVars>>

\* What _run does once a session is over: reset the backoff after a clean
\* end, ask mDNS after a ConnectionError, return if it is being stopped.
AfterSession(w) ==
    /\ backoff' = IF w = "clean" THEN MinDelay ELSE backoff
    /\ IF w = "conn" THEN pc' = "mdns" ELSE ToSleep

\* The end of the finally block: _close_tunnel().
Closed ==
    /\ pc = "closing"
    /\ tunnel' = FALSE
    /\ conn' = "none"
    /\ AfterSession(why)
    /\ UNCHANGED <<why, host, ups, stopVars, hubVars>>

\* mDNS reports the hub somewhere else: adopt it and retry without sleeping.
MdnsMoved ==
    /\ pc = "mdns"
    /\ hubUp
    /\ \E e \in hubAt \ {host} : host' = e
    /\ backoff' = MinDelay
    /\ LoopTest
    /\ NewTunnel
    /\ UNCHANGED <<why, ups, stopVars, hubVars>>

\* mDNS fails, finds nothing, or confirms the endpoint.
MdnsSame ==
    /\ pc = "mdns"
    /\ hubUp => host \in hubAt \/ faults < MaxFaults
    /\ faults' = IF hubUp /\ host \notin hubAt THEN faults + 1 ELSE faults
    /\ ToSleep
    /\ UNCHANGED <<why, backoff, host, ups, connVars, stopVars, hubUp, hubAt>>

Min2(a, b) == IF a <= b THEN a ELSE b

\* The delay after the next sleep.
NextBackoff == Min2(backoff * 2, MaxDelay)

\* _reconnect_sleep() is over.
Slept ==
    /\ pc = "sleeping"
    /\ backoff' = NextBackoff
    /\ LoopTest
    /\ NewTunnel
    /\ UNCHANGED <<why, host, ups, stopVars, hubVars>>

----------------------------------------------------------------------------
(* stop() *)

\* The flag is set, the task is cancelled, stop() waits for it.
Stop ==
    /\ pc # "off"
    /\ stopPc = "no"
    /\ stopPc' = "cancelling"
    /\ cancel' = (pc # "done")
    /\ UNCHANGED <<loopVars, connVars, hubVars>>

\* Mutation: a cancelled session is not left through its finally block, and
\* the loop goes on with the session it is in.
M_Cancelled ==
    /\ cancel
    /\ cancel' = FALSE
    /\ \/ pc # "up" /\ pc' = "done"
       \/ pc = "up" /\ UNCHANGED pc
    /\ UNCHANGED <<why, backoff, host, ups, connVars, stopPc, hubVars>>

\* The cancellation arrives.  While connecting, shaking hands, sleeping or
\* asking mDNS it ends the task at once; the tunnel stays for stop() to
\* close.  In a session it first runs the finally block.
Cancelled ==
    /\ cancel
    /\ cancel' = FALSE
    /\ \/ /\ pc \in {"connecting", "handshaking", "mdns", "sleeping"}
          /\ pc' = "done"
          /\ UNCHANGED connVars
       \/ /\ pc \in {"checkin", "up"}
          /\ pc' = "done"
          /\ tunnel' = FALSE
          /\ conn' = "none"
       \/ /\ pc = "closing"         \* in wait_closed(): the writer is closed
          /\ pc' = "done"
          /\ tunnel' = FALSE
          /\ conn' = "none"
       \/ /\ pc = "closing"         \* waiting for the listen or keepalive
          /\ UNCHANGED pc           \* task: swallowed, the cleanup goes on
          /\ UNCHANGED connVars
    /\ UNCHANGED <<why, backoff, host, ups, stopPc, hubVars>>

\* Mutation: stop() leaves the tunnel to the cancelled task.
M_StopReturns ==
    /\ stopPc = "cancelling" /\ pc = "done"
    /\ stopPc' = "returned" /\ cancel' = FALSE
    /\ UNCHANGED <<loopVars, connVars, hubVars>>

\* The task is gone; whatever tunnel it left is closed.
StopReturns ==
    /\ stopPc = "cancelling"
    /\ pc = "done"
    /\ stopPc' = "returned"
    /\ cancel' = FALSE
    /\ tunnel' = FALSE
    /\ conn' = "none"
    /\ UNCHANGED <<loopVars, hubVars>>

----------------------------------------------------------------------------
(* The hub (external) *)

\* The connection after a fault: closed or reset by the peer, or silent.
Broken(c) ==
    IF conn # "open" THEN c = conn
    ELSE c \in {"eof", "silent"}

\* The hub loses power, or the network to it.
HubDies ==
    /\ hubUp
    /\ faults < MaxFaults
    /\ faults' = faults + 1
    /\ hubUp' = FALSE
    /\ \E c \in {"none", "open", "eof", "silent"} : Broken(c) /\ conn' = c
    /\ UNCHANGED <<loopVars, tunnel, stopVars, hubAt>>

\* It comes back, perhaps elsewhere; the connections it had are gone.
HubReturns ==
    /\ ~hubUp
    /\ hubUp' = TRUE
    /\ hubAt' \in (SUBSET Endpoints) \ {{}}
    /\ UNCHANGED <<loopVars, connVars, stopVars, faults>>

\* A live hub drops the connection or stops answering on it.
HubDrops ==
    /\ conn = "open"
    /\ faults < MaxFaults
    /\ faults' = faults + 1
    /\ \E c \in {"eof", "silent"} : Broken(c) /\ conn' = c
    /\ UNCHANGED <<loopVars, tunnel, stopVars, hubUp, hubAt>>

----------------------------------------------------------------------------

\* A task that has been cancelled does nothing else before it is told.
RunLoop ==
    /\ ~cancel
    /\ \/ Start \/ Connected \/ ConnectFails \/ HandshakeOK \/ HandshakeFails
       \/ CheckinOK \/ CheckinFails \/ ListenReturns \/ Closed
       \/ MdnsMoved \/ MdnsSame \/ Slept

Hub == HubDies \/ HubReturns \/ HubDrops

Next == RunLoop \/ KeepaliveLost \/ Stop \/ Cancelled \/ StopReturns \/ Hub

Spec == Init /\ [][Next]_vars

\* The event loop runs: what the run loop awaits and has got, or what timed
\* out, is handled; a cancellation is delivered.  Nothing is promised about
\* the handshake unless there is something to read.
Fairness ==
    /\ WF_vars(RunLoop)
    /\ WF_vars(KeepaliveLost)
    /\ WF_vars(Cancelled)
    /\ WF_vars(StopReturns)

FairSpec == Spec /\ Fairness

----------------------------------------------------------------------------
(* Properties *)

\* Once stop() has returned nothing of the coordinator is left, wherever it
\* was interrupted: no task, no tunnel, no connection (coordinator.py:258-269).
StopIsFinal ==
    stopPc = "returned" => pc = "done" /\ ~tunnel /\ conn = "none" /\ ~cancel

\* No connection is begun once stop() was called, even when the cleanup of a
\* session has swallowed its cancellation (coordinator.py:500, 617-625).
NoAttemptAfterStop ==
    [][Stopping => ~(pc # "connecting" /\ pc' = "connecting")]_vars

\* Two attempts on the same endpoint are always a backoff apart: asking mDNS
\* is no way around it (coordinator.py:509-528).
RetriesArePaced ==
    [][pc # "connecting" /\ pc' = "connecting" =>
          pc \in {"off", "sleeping"} \/ host' # host]_vars

\* stop() returns, wherever it catches the run loop.
StopReturnsEventually == (stopPc = "cancelling") ~> (stopPc = "returned")

\* The session is up over a connection that is alive, or nobody can want it.
UpOrExcused ==
    (pc = "up" /\ conn = "open") \/ pc = "off" \/ Stopping \/ ~hubUp \/ ups = MaxUps

\* Once faults cease and the hub is there, the session comes up again, unless
\* a hub that went without a reset has left the loop in a handshake, which has
\* no timeout (coordinator.py:499-530, 562-590).
ComesBackOrHangs == []<>(UpOrExcused \/ (pc = "handshaking" /\ conn = "silent"))

\* coordinator.py:9: "on any error/close, backoff and reconnect", and 13-14:
\* it "needs to be robust against transient TCP issues, hub restarts".  The
\* session comes up again in every case.
SessionComesBack == []<>UpOrExcused

\* The coordinator keeps the promises of Link.
link == IF stopPc = "returned" THEN "stopped" ELSE IF pc = "up" THEN "up" ELSE "down"
L == INSTANCE Link WITH link <- link, ups <- ups
ImplementsLink == L!Spec
=============================================================================
