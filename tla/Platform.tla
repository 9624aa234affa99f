------------------------------ MODULE Platform ------------------------------
(***************************************************************************)
(* AqaraPlatform of the Homebridge plugin (src/platform.js) and the life of *)
(* its tunnels (src/protocol/tunnel.js): start() signs in to the cloud,     *)
(* finds the hub, connects, shakes hands and checks in; whatever ends it    *)
(* arms one timer of a minute that starts again.                            *)
(*                                                                         *)
(* An attempt is one call of start() and the one tunnel it makes.  The      *)
(* socket of a tunnel outlives the attempt unless the hub or stop() closes  *)
(* it; its 'close' event comes later than its end.                          *)
(*                                                                         *)
(* The timeouts of connect, handshake and checkin are 10 s each and         *)
(* RETRY_MS is 60 s, so an attempt that has its tunnel when the timer is    *)
(* armed is over when it fires; a slow cloud need not be.                   *)
(*                                                                         *)
(* Left out: the frames, and what publish() makes of the inventory.         *)
(***************************************************************************)
EXTENDS Naturals, FiniteSets

CONSTANTS
    MaxAttempts,    \* bound: calls of start()
    MaxFaults       \* bound: failures of the cloud, the network and the hub

PlatformAssumption ==
    MaxAttempts \in Nat \ {0} /\ MaxFaults \in Nat

Attempts == 1..MaxAttempts

VARIABLES
    stage,      \* what start() awaits
    sock,       \* the socket of its tunnel; "closing" until the 'close' event
    tunnel,     \* this.tunnel, 0 if null
    timers,     \* retry timers that run
    before,     \* attempts that had their tunnel when the timer was armed
    stopped,    \* stop() was called
    left,       \* history: attempts that ended and left their socket
    faults      \* failures so far

platformVars == <<stage, sock, tunnel, timers, before, stopped, left, faults>>

Local == {"connecting", "handshake", "checkin"}
InStage(S) == {i \in Attempts : stage[i] \in S}

PlatformTypeOK ==
    /\ stage \in [Attempts -> Local \cup {"unused", "cloud", "up", "nohub", "ended"}]
    /\ sock \in [Attempts -> {"none", "opening", "open", "closing"}]
    /\ tunnel \in 0..MaxAttempts
    /\ timers \in 0..1
    /\ before \subseteq Attempts /\ left \subseteq Attempts
    /\ stopped \in BOOLEAN
    /\ faults \in 0..MaxFaults

\* 'didFinishLaunching' has called start().
PlatformInit ==
    /\ stage = [i \in Attempts |-> IF i = 1 THEN "cloud" ELSE "unused"]
    /\ sock = [i \in Attempts |-> "none"]
    /\ tunnel = 0
    /\ timers = 0 /\ before = {}
    /\ stopped = FALSE
    /\ left = {}
    /\ faults = 0

Fault == faults < MaxFaults /\ faults' = faults + 1

----------------------------------------------------------------------------

RetryLater ==
    IF timers = 0 THEN timers' = 1 /\ before' = InStage(Local)
    ELSE UNCHANGED <<timers, before>>

\* start() or connect() is over without a session.
Ends(i) ==
    /\ stage' = [stage EXCEPT ![i] = "ended"]
    /\ left' = IF sock[i] \in {"opening", "open"} THEN left \cup {i} ELSE left
    /\ RetryLater

\* login() or listDevices() rejects.
CloudFails(i) ==
    /\ stage[i] = "cloud"
    /\ Fault
    /\ Ends(i)
    /\ UNCHANGED <<sock, tunnel, stopped>>

\* findHub() returns null: start() returns.
NoHub(i) ==
    /\ stage[i] = "cloud"
    /\ Fault
    /\ stage' = [stage EXCEPT ![i] = "nohub"]
    /\ UNCHANGED <<sock, tunnel, timers, before, stopped, left>>

\* The tunnel is made, is this.tunnel, and connects.
HubFound(i) ==
    /\ stage[i] = "cloud"
    /\ stage' = [stage EXCEPT ![i] = "connecting"]
    /\ sock' = [sock EXCEPT ![i] = "opening"]
    /\ tunnel' = i
    /\ UNCHANGED <<timers, before, stopped, left, faults>>

\* Mutation: the promise of connect() is not resolved.
M_TcpConnected(i) ==
    /\ sock[i] = "opening"
    /\ sock' = [sock EXCEPT ![i] = "open"]
    /\ UNCHANGED <<stage, tunnel, timers, before, stopped, left, faults>>

\* 'connect': the tunnel takes the socket, also when connect() has given up.
TcpConnected(i) ==
    /\ sock[i] = "opening"
    /\ sock' = [sock EXCEPT ![i] = "open"]
    /\ stage' = IF stage[i] = "connecting" THEN [stage EXCEPT ![i] = "handshake"] ELSE stage
    /\ UNCHANGED <<tunnel, timers, before, stopped, left, faults>>

\* 'error' before 'connect': the socket is gone and no 'close' is heard.
TcpFails(i) ==
    /\ sock[i] = "opening"
    /\ Fault
    /\ sock' = [sock EXCEPT ![i] = "none"]
    /\ IF stage[i] = "connecting"
       THEN stage' = [stage EXCEPT ![i] = "ended"] /\ RetryLater
       ELSE UNCHANGED <<stage, timers, before>>
    /\ UNCHANGED <<tunnel, stopped, left>>

\* Ten seconds: connect() rejects and leaves the socket as it is.
TcpTimesOut(i) ==
    /\ stage[i] = "connecting"
    /\ Fault
    /\ Ends(i)
    /\ UNCHANGED <<sock, tunnel, stopped>>

HandshakeDone(i) ==
    /\ stage[i] = "handshake"
    /\ sock[i] = "open"
    /\ stage' = [stage EXCEPT ![i] = "checkin"]
    /\ UNCHANGED <<sock, tunnel, timers, before, stopped, left, faults>>

\* The hub says nothing or something wrong, or is gone; nobody closes the socket.
HandshakeFails(i) ==
    /\ stage[i] = "handshake"
    /\ IF sock[i] = "open" THEN Fault ELSE UNCHANGED faults
    /\ Ends(i)
    /\ UNCHANGED <<sock, tunnel, stopped>>

\* Any answer counts; publish() follows.
CheckinAnswered(i) ==
    /\ stage[i] = "checkin"
    /\ sock[i] = "open"
    /\ stage' = [stage EXCEPT ![i] = "up"]
    /\ UNCHANGED <<sock, tunnel, timers, before, stopped, left, faults>>

\* Mutation: a checkin without an answer is the user's to mend.
M_CheckinRejected(i) ==
    /\ stage[i] = "checkin"
    /\ IF sock[i] = "open" THEN Fault ELSE UNCHANGED faults
    /\ stage' = [stage EXCEPT ![i] = "ended"]
    /\ left' = IF sock[i] = "open" THEN left \cup {i} ELSE left
    /\ UNCHANGED <<sock, tunnel, timers, before, stopped>>

\* No answer in ten seconds, or the connection is closed.
CheckinRejected(i) ==
    /\ stage[i] = "checkin"
    /\ IF sock[i] = "open" THEN Fault ELSE UNCHANGED faults
    /\ Ends(i)
    /\ UNCHANGED <<sock, tunnel, stopped>>

\* The hub or the network ends a connection, of whatever age (external).
PeerCloses(i) ==
    /\ sock[i] = "open"
    /\ Fault
    /\ sock' = [sock EXCEPT ![i] = "closing"]
    /\ UNCHANGED <<stage, tunnel, timers, before, stopped, left>>

\* onClose() and the platform's 'close' listener, whichever tunnel it is.
CloseEvent(i) ==
    /\ sock[i] = "closing"
    /\ sock' = [sock EXCEPT ![i] = "none"]
    /\ stage' = IF stage[i] = "up" THEN [stage EXCEPT ![i] = "ended"] ELSE stage
    /\ RetryLater
    /\ UNCHANGED <<tunnel, stopped, left, faults>>

\* The timer calls start().
RetryFires(i) ==
    /\ timers > 0
    /\ stage[i] = "unused"
    /\ \A j \in Attempts : stage[j] = "unused" => i <= j
    /\ before \cap InStage(Local) = {}
    /\ \A j \in Attempts : sock[j] # "closing"
    /\ timers' = timers - 1
    /\ before' = {}
    /\ stage' = [stage EXCEPT ![i] = "cloud"]
    /\ UNCHANGED <<sock, tunnel, stopped, left, faults>>

\* stop(): the timer, and the socket of this.tunnel once it has one.
Stop ==
    /\ ~stopped
    /\ stopped' = TRUE
    /\ timers' = 0 /\ before' = {}
    /\ sock' = [i \in Attempts |->
                  IF i = tunnel /\ sock[i] = "open" THEN "closing" ELSE sock[i]]
    /\ UNCHANGED <<stage, tunnel, left, faults>>

----------------------------------------------------------------------------

\* What the event loop brings about by itself.
Progress(i) ==
    \/ HubFound(i) \/ TcpConnected(i) \/ HandshakeDone(i) \/ HandshakeFails(i)
    \/ CheckinAnswered(i) \/ CheckinRejected(i) \/ CloseEvent(i) \/ RetryFires(i)

PlatformNext ==
    \/ Stop
    \/ \E i \in Attempts : Progress(i) \/ CloudFails(i) \/ NoHub(i) \/ TcpFails(i)
                           \/ TcpTimesOut(i) \/ PeerCloses(i)

PlatformSpec == PlatformInit /\ [][PlatformNext]_platformVars

\* Answers come or time out, events are handled and timers fire.
PlatformFairSpec == PlatformSpec /\ \A i \in Attempts : WF_platformVars(Progress(i))

----------------------------------------------------------------------------
(* Properties *)

HasSession == \E i \in Attempts : stage[i] = "up" /\ sock[i] = "open"

\* The attempt that began last.
Latest(i) == stage[i] # "unused" /\ \A j \in Attempts : j > i => stage[j] = "unused"

\* It is under way, or has brought up the hub and its 'close' is to come, or a retry
\* is scheduled.
Continues(i) ==
    \/ stage[i] \in Local \cup {"cloud"}
    \/ stage[i] = "up" /\ sock[i] \in {"open", "closing"}
    \/ timers > 0
    \/ stopped

\* However the latest attempt ends, in whatever order its errors, the 'close' of its
\* socket and those of tunnels left behind come, the next one is scheduled, unless
\* it found no hub, which is UpOrRetry's case (platform.js:61-82, 115-141).
WillTryAgain == \A i \in Attempts : Latest(i) => Continues(i) \/ stage[i] = "nohub"

\* platform.js:59, of start(): "Resolves once the hub is up, or a retry has been
\* scheduled."  When it finds no hub it resolves with neither (72-74), so a hub that
\* is restarting while the plugin starts is never looked for again.
UpOrRetry == \A i \in Attempts : Latest(i) => Continues(i)

Busy == InStage(Local \cup {"cloud"})

\* Nothing signs in while a session is up, and no two attempts run at once,
\* unless an earlier attempt has left its socket behind: the one timer keeps
\* the errors of an attempt and the 'close' of its tunnel from starting two
\* (platform.js:250-260).
RivalsComeFromLeaks ==
    left = {} => Cardinality(Busy) + (IF HasSession THEN 1 ELSE 0) <= 1

\* Once faults cease a session comes up, unless the latest attempt found no hub or
\* the plugin is stopped (platform.js:61-82, 250-260).
SessionComesUp ==
    []<>(\/ HasSession \/ stopped \/ InStage({"unused"}) = {}
         \/ \E i \in Attempts : Latest(i) /\ stage[i] = "nohub")

\* platform.js:21-23: "The cloud is used twice - to exchange the account for a
\* token, and to list what it owns - and then left alone".  The 'close' of a
\* tunnel that an earlier attempt left open signs in again and makes another
\* tunnel while the session is up.
CloudLeftAlone == HasSession /\ ~stopped => InStage({"cloud"}) = {}
=============================================================================
