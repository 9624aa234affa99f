-------------------------------- MODULE Ptz --------------------------------
(***************************************************************************)
(* PtzController (ptz/controller.py) and the sessions it makes              *)
(* (ptz/session.py): one warm P2P session per camera, connected on demand,  *)
(* used by one command at a time under an asyncio.Lock, recycled after a    *)
(* preset, closed when idle and at unload.                                  *)
(*                                                                         *)
(* Every command is one service call; "eager" is the background reconnect   *)
(* and "idle" the idle teardown.  asyncio.Lock hands itself to the first    *)
(* waiter.  The camera answers a command at any later time, or never, and   *)
(* recv_ioctl() takes whatever answer comes first on its session.           *)
(*                                                                         *)
(* Left out: framing and encryption, the handshake's packets, the zoom.     *)
(***************************************************************************)
EXTENDS Naturals, Sequences, FiniteSets

CONSTANTS
    Commands,       \* calls of send_command
    Presets,        \* those with recycle_after
    MaxSessions,    \* bound: sessions that get connected
    MaxFails,       \* bound: failures of the cloud, the camera and the network
    Cancellable,    \* the caller of a command can be cancelled
    Unloads         \* the entry can be unloaded

PtzAssumption ==
    /\ Presets \subseteq Commands
    /\ "eager" \notin Commands /\ "idle" \notin Commands /\ "nobody" \notin Commands
    /\ MaxSessions \in Nat /\ MaxFails \in Nat
    /\ Cancellable \in BOOLEAN /\ Unloads \in BOOLEAN

Tasks == Commands \cup {"eager"}

VARIABLES
    task,       \* what each task awaits
    try,        \* its attempt to authenticate
    using,      \* the session it sets up or uses
    holder,     \* who holds _lock
    queue,      \* who waits for it
    creds,      \* _creds is set
    session,    \* _session, 0 if None
    open,       \* sessions that are ready and not closed
    made,       \* sessions made so far
    timer,      \* _idle_handle is scheduled
    idle,       \* _idle_teardown: "none", "starting", "queued"
    shut,       \* async_shutdown: "no", "idle", "eager", "done"
    answers,    \* answers of the camera not yet read: <<session, command>>
    mute,       \* history: sessions on which a command got no ack
    fails       \* failures so far

taskVars == <<task, try, using>>
lockVars == <<holder, queue>>
sessVars == <<session, open, made>>
idleVars == <<timer, idle>>
camVars == <<answers, mute>>
ptzVars == <<taskVars, lockVars, creds, sessVars, idleVars, shut, camVars, fails>>

Sessions == 1..MaxSessions

PtzTypeOK ==
    /\ task \in [Tasks -> {"free", "starting", "queued", "bootstrap", "connect",
                        "auth", "acking", "done", "cancelled"}]
    /\ try \in [Tasks -> 1..2]
    /\ using \in [Tasks -> 0..MaxSessions]
    /\ holder \in Tasks \cup {"idle", "nobody"}
    /\ queue \in Seq(Tasks \cup {"idle"})
    /\ creds \in BOOLEAN
    /\ session \in 0..MaxSessions
    /\ open \subseteq Sessions
    /\ made \in 0..MaxSessions
    /\ timer \in BOOLEAN
    /\ idle \in {"none", "starting", "queued"}
    /\ shut \in {"no", "idle", "eager", "done"}
    /\ answers \subseteq Sessions \X Commands
    /\ mute \subseteq Sessions
    /\ fails \in 0..MaxFails

PtzInit ==
    /\ task = [t \in Tasks |-> "free"]
    /\ try = [t \in Tasks |-> 1]
    /\ using = [t \in Tasks |-> 0]
    /\ holder = "nobody" /\ queue = <<>>
    /\ creds = FALSE
    /\ session = 0 /\ open = {} /\ made = 0
    /\ timer = FALSE /\ idle = "none"
    /\ shut = "no"
    /\ answers = {} /\ mute = {}
    /\ fails = 0

Closing == shut # "no"

----------------------------------------------------------------------------
(* The lock *)

Acquire(t) ==
    IF holder = "nobody" THEN holder' = t /\ UNCHANGED queue
    ELSE queue' = Append(queue, t) /\ UNCHANGED holder

\* Mutation: only a lock nobody waits for is released.
M_Release == holder' = (IF queue = <<>> THEN "nobody" ELSE holder) /\ UNCHANGED queue

Release ==
    IF queue = <<>> THEN holder' = "nobody" /\ UNCHANGED queue
    ELSE holder' = Head(queue) /\ queue' = Tail(queue)

\* A task goes away: it leaves the queue or gives up the lock.
Withdraw(t) ==
    IF holder = t THEN Release
    ELSE queue' = SelectSeq(queue, LAMBDA u : u # t) /\ UNCHANGED holder

----------------------------------------------------------------------------
(* A command, and the eager reconnect *)

\* The end of a task; the eager one can run again.
Ended(t) == IF t = "eager" THEN "free" ELSE "done"

\* send_command() is called.
Call(t) ==
    /\ t \in Commands
    /\ task[t] = "free"
    /\ task' = [task EXCEPT ![t] = "queued"]
    /\ Acquire(t)
    /\ UNCHANGED <<try, using, creds, sessVars, idleVars, shut, camVars, fails>>

\* The command goes out on session s, which the camera answers or not.
Send(t, s) ==
    /\ task' = [task EXCEPT ![t] = "acking"]
    /\ using' = [using EXCEPT ![t] = s]
    /\ answers' = answers \cup {<<s, t>>}

\* _session is there and ready.
Warm == session # 0 /\ session \in open

\* With the lock: use the warm session, or set one up.
Enter(t) ==
    /\ task[t] = "queued"
    /\ holder = t
    /\ IF t \in Commands /\ Warm
       THEN Send(t, session) /\ UNCHANGED <<lockVars, try>>
       ELSE /\ UNCHANGED answers
            /\ IF t = "eager" /\ (Closing \/ session # 0)
               THEN /\ task' = [task EXCEPT ![t] = Ended(t)]
                    /\ Release
                    /\ UNCHANGED <<try, using>>
               ELSE /\ task' = [task EXCEPT ![t] = IF creds THEN "connect" ELSE "bootstrap"]
                    /\ try' = [try EXCEPT ![t] = 1]
                    /\ UNCHANGED <<lockVars, using>>
    /\ UNCHANGED <<creds, sessVars, idleVars, shut, mute, fails>>

\* The cloud hands out credentials.
Bootstrapped(t) ==
    /\ task[t] = "bootstrap"
    /\ creds' = TRUE
    /\ task' = [task EXCEPT ![t] = "connect"]
    /\ UNCHANGED <<try, using, lockVars, sessVars, idleVars, shut, camVars, fails>>

\* The camera is found and the handshake done; AUTH is sent.
NewSession(t) ==
    /\ task[t] = "connect"
    /\ made < MaxSessions
    /\ made' = made + 1
    /\ open' = open \cup {made'}
    /\ using' = [using EXCEPT ![t] = made']
    /\ task' = [task EXCEPT ![t] = "auth"]
    /\ UNCHANGED <<try, lockVars, creds, session, idleVars, shut, camVars, fails>>

\* Bootstrap, address or connect() raise; connect() closes what it opened.
SetupFails(t) ==
    /\ task[t] \in {"bootstrap", "connect"}
    /\ fails < MaxFails
    /\ fails' = fails + 1
    /\ task' = [task EXCEPT ![t] = Ended(t)]
    /\ Release
    /\ UNCHANGED <<try, using, creds, sessVars, idleVars, shut, camVars>>

\* AUTH is accepted: the session is the warm one from now on.
AuthAccepted(t) ==
    /\ task[t] = "auth"
    /\ session' = using[t]
    /\ IF t = "eager"
       THEN /\ timer' = TRUE
            /\ task' = [task EXCEPT ![t] = Ended(t)]
            /\ Release
            /\ UNCHANGED <<using, answers>>
       ELSE Send(t, using[t]) /\ UNCHANGED <<lockVars, timer>>
    /\ UNCHANGED <<try, creds, open, made, idle, shut, mute, fails>>

\* Mutation: the rejected session is dropped, not closed.
M_AuthRejected(t) ==
    /\ task[t] = "auth" /\ fails < MaxFails /\ fails' = fails + 1
    /\ using' = [using EXCEPT ![t] = 0]
    /\ creds' = FALSE /\ try' = [try EXCEPT ![t] = 2]
    /\ task' = [task EXCEPT ![t] = "bootstrap"]
    /\ UNCHANGED <<lockVars, sessVars, idleVars, shut, camVars>>

\* There is one retry.
MayRetry(t) == try[t] = 1

\* AUTH is refused or not answered: close, and try once more with new creds.
AuthRejected(t) ==
    /\ task[t] = "auth"
    /\ fails < MaxFails
    /\ fails' = fails + 1
    /\ open' = open \ {using[t]}
    /\ using' = [using EXCEPT ![t] = 0]
    /\ IF MayRetry(t)
       THEN /\ creds' = FALSE
            /\ try' = [try EXCEPT ![t] = @ + 1]
            /\ task' = [task EXCEPT ![t] = "bootstrap"]
            /\ UNCHANGED lockVars
       ELSE /\ task' = [task EXCEPT ![t] = Ended(t)]
            /\ Release
            /\ UNCHANGED <<creds, try>>
    /\ UNCHANGED <<session, made, idleVars, shut, camVars>>

\* _schedule_eager_reconnect(): a task, unless there is one or no need.
StartEager ==
    IF Closing \/ task["eager"] # "free" THEN task ELSE [task EXCEPT !["eager"] = "starting"]

\* The task starts, and waits for the lock.
EagerStarts ==
    /\ task["eager"] = "starting"
    /\ task' = [task EXCEPT !["eager"] = "queued"]
    /\ Acquire("eager")
    /\ UNCHANGED <<try, using, creds, sessVars, idleVars, shut, camVars, fails>>

\* What send_command() does once it has its ack or has given it up: recycle the
\* session after a preset, restart the idle timer otherwise, release the lock.
Finish(t) ==
    /\ IF t \in Presets
       THEN /\ timer' = FALSE
            /\ open' = open \ {session}
            /\ session' = 0
            /\ task' = [StartEager EXCEPT ![t] = "done"]
       ELSE /\ timer' = TRUE
            /\ task' = [task EXCEPT ![t] = "done"]
            /\ UNCHANGED <<open, session>>
    /\ Release

\* recv_ioctl() returns the first answer on the session.
Acked(t) ==
    /\ task[t] = "acking"
    /\ using[t] \in open
    /\ \E c \in Commands :
          /\ <<using[t], c>> \in answers
          /\ answers' = answers \ {<<using[t], c>>}
    /\ Finish(t)
    /\ UNCHANGED <<try, using, creds, made, idle, shut, mute, fails>>

\* Three seconds without an answer: logged, and otherwise like an ack.
NotAcked(t) ==
    /\ task[t] = "acking"
    /\ \/ using[t] \notin open /\ UNCHANGED fails
       \/ using[t] \in open /\ fails < MaxFails /\ fails' = fails + 1
    /\ mute' = mute \cup {using[t]}
    /\ Finish(t)
    /\ UNCHANGED <<try, using, creds, made, idle, shut, answers>>

\* The caller is cancelled at an await.  connect() cleans up after itself;
\* nothing else does.
Cancel(t) ==
    /\ Cancellable
    /\ t \in Commands
    /\ task[t] \notin {"free", "done", "cancelled"}
    /\ task' = [task EXCEPT ![t] = "cancelled"]
    /\ Withdraw(t)
    /\ UNCHANGED <<try, using, creds, sessVars, idleVars, shut, camVars, fails>>

----------------------------------------------------------------------------
(* The idle teardown *)

\* The timer fires; 180 s are more than any wait for the lock, so there is no
\* other teardown.
IdleFires ==
    /\ timer
    /\ idle = "none"
    /\ timer' = FALSE
    /\ idle' = "starting"
    /\ UNCHANGED <<taskVars, lockVars, creds, sessVars, shut, camVars, fails>>

\* Mutation: the teardown does not take the lock.
M_IdleStarts ==
    /\ idle = "starting"
    /\ idle' = "none"
    /\ open' = open \ {session}
    /\ session' = 0
    /\ UNCHANGED <<taskVars, lockVars, creds, made, timer, shut, camVars, fails>>

IdleStarts ==
    /\ idle = "starting"
    /\ IF Closing THEN idle' = "none" /\ UNCHANGED lockVars
       ELSE idle' = "queued" /\ Acquire("idle")
    /\ UNCHANGED <<taskVars, creds, sessVars, timer, shut, camVars, fails>>

IdleCloses ==
    /\ holder = "idle"
    /\ open' = open \ {session}
    /\ session' = 0
    /\ idle' = "none"
    /\ Release
    /\ UNCHANGED <<taskVars, creds, made, timer, shut, camVars, fails>>

----------------------------------------------------------------------------
(* async_shutdown, which takes no lock *)

\* The flag, the timer and the idle teardown.
ShutdownIdle ==
    /\ Unloads
    /\ shut = "no"
    /\ shut' = "idle"
    /\ timer' = FALSE
    /\ idle' = "none"
    /\ Withdraw("idle")
    /\ UNCHANGED <<taskVars, creds, sessVars, camVars, fails>>

\* The eager reconnect is cancelled.
ShutdownEager ==
    /\ shut = "idle"
    /\ shut' = "eager"
    /\ task' = [task EXCEPT !["eager"] = "free"]
    /\ Withdraw("eager")
    /\ UNCHANGED <<try, using, creds, sessVars, idleVars, camVars, fails>>

\* The session of the moment is closed.
ShutdownCloses ==
    /\ shut = "eager"
    /\ shut' = "done"
    /\ open' = open \ {session}
    /\ session' = 0
    /\ UNCHANGED <<taskVars, lockVars, creds, made, idleVars, camVars, fails>>

----------------------------------------------------------------------------

Step(t) ==
    Enter(t) \/ Bootstrapped(t) \/ NewSession(t) \/ SetupFails(t)
    \/ AuthAccepted(t) \/ AuthRejected(t) \/ Acked(t) \/ NotAcked(t)
    \/ (t = "eager" /\ EagerStarts)

Idle == IdleFires \/ IdleStarts \/ IdleCloses

Shutdown == ShutdownIdle \/ ShutdownEager \/ ShutdownCloses

PtzNext == Idle \/ Shutdown \/ \E t \in Tasks : Call(t) \/ Step(t) \/ Cancel(t)

PtzSpec == PtzInit /\ [][PtzNext]_ptzVars

\* Every await ends: with an answer or by its timeout.
PtzFairness == WF_ptzVars(Idle) /\ WF_ptzVars(Shutdown) /\ \A t \in Tasks : WF_ptzVars(Step(t))

PtzFairSpec == PtzSpec /\ PtzFairness

----------------------------------------------------------------------------
(* Properties *)

Settling(t) == task[t] = "auth"

\* Until unload every open session has an owner that will close it: it is the
\* warm session or is being set up by the one task that holds the lock, across
\* rejected credentials, recycling and idle teardown (controller.py:1-6,
\* 52-93).  The exception is the session whose setting up was cancelled.
OpenIsOwned ==
    \A s \in open :
        \/ s = session \/ Closing
        \/ \E t \in Tasks :
              using[t] = s /\ ((Settling(t) /\ holder = t) \/ task[t] = "cancelled")

\* No session is closed under a command that waits for its ack, but by unload
\* (controller.py:95-131, 179-193).
NotClosedInUse ==
    \A t \in Commands : task[t] = "acking" => (using[t] = session /\ session \in open) \/ Closing

\* A warm session that nobody uses is going to be closed: its idle timer runs
\* or the teardown is on its way, unless its last command was cancelled while
\* it waited for the ack (controller.py:101-127, 169-193).
WarmIsWatched ==
    session # 0 /\ holder = "nobody" =>
        \/ timer \/ idle = "starting" \/ Closing
        \/ \E t \in Commands : task[t] = "cancelled" /\ using[t] = session

\* Every command returns, however the lock is passed on (controller.py:95-131).
CommandsReturn ==
    \A t \in Commands : (task[t] = "queued") ~> (task[t] \in {"done", "cancelled"})

\* __init__.py:121-124: controllers "are torn down on unload".  A command that
\* is under way, or comes later, connects a session that nobody closes.
ShutdownLeavesNothing ==
    shut = "done" /\ (\A t \in Tasks : task[t] \in {"free", "done", "cancelled"}) => open = {}

\* controller.py:1-6: "Owns one warm PtzSession per camera".  A session whose
\* AUTH is cancelled is owned by nobody, and stays open.
AtMostOneOpen == Cardinality(open) <= 1

\* controller.py:103-106: after no ack "the warm session may be stale. It will
\* be rebuilt on the next command / idle teardown".
Sends(t) == task[t] # "acking" /\ task'[t] = "acking"
MuteIsRebuilt == [][\A t \in Commands : Sends(t) => using'[t] \notin mute]_ptzVars
=============================================================================
