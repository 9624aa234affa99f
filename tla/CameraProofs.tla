---------------------------- MODULE CameraProofs ----------------------------
(***************************************************************************)
(* Proofs about the three things of a camera that calls compete for: its   *)
(* motors (Ptz), its voice channel (Talk) and the table and service of the *)
(* loaded cameras (Streams), for any commands, calls and cameras.          *)
(***************************************************************************)
EXTENDS Ptz, Talk, Streams, TLAPS

-----------------------------------------------------------------------------
(* Ptz.  Nothing here depends on the order of the lock's queue, so its type *)
(* and that of the holder are left to the model checker.                    *)

Stages == {"free", "starting", "queued", "bootstrap", "connect", "auth", "acking",
           "done", "cancelled"}

\* Sessions are numbered as they are made, and the warm one is one of them.
Made == 1..made

Typed ==
    /\ task \in [Tasks -> Stages]
    /\ try \in [Tasks -> 1..2]
    /\ using \in [Tasks -> {0} \cup Made]
    /\ made \in 0..MaxSessions
    /\ session \in {0} \cup Made
    /\ open \subseteq Made

\* What a task does between the acquisition and the release of _lock.
Held == {"bootstrap", "connect", "auth", "acking"}
LockInv == \A t \in Tasks : task[t] \in Held => holder = t

\* A session is set up only while there is no warm one, and is open until it is
\* taken over.
SetupInv ==
    \A t \in Tasks :
        /\ task[t] \in {"bootstrap", "connect", "auth"} => session \notin open
        /\ Settling(t) => using[t] \in open

\* After the flag of async_shutdown nothing of this is promised.
PtzInv ==
    /\ Typed
    /\ LockInv
    /\ ~Closing => SetupInv /\ NotClosedInUse /\ OpenIsOwned

-----------------------------------------------------------------------------

\* The eager reconnect is a task of its own; the idle teardown is none.
LEMMA Names ==
    ASSUME PtzAssumption
    PROVE  /\ "eager" \in Tasks /\ Commands = Tasks \ {"eager"}
           /\ "idle" \notin Tasks /\ "nobody" \notin Tasks
BY DEF PtzAssumption, Tasks

\* There is one task at most between acquisition and release.
LEMMA Alone ==
    ASSUME LockInv, NEW t \in Tasks, holder = t \/ task[t] \in Held
    PROVE  \A u \in Tasks \ {t} : task[u] \notin Held
BY DEF LockInv

\* There is none while the idle teardown has the lock, or nobody.
LEMMA NoneHeld ==
    ASSUME PtzAssumption, LockInv, holder \in {"idle", "nobody"}
    PROVE  \A u \in Tasks : task[u] \notin Held
BY Names DEF LockInv

\* The initial states.
LEMMA PtzInitInv == ASSUME PtzAssumption PROVE PtzInit => PtzInv
<1> SUFFICES ASSUME PtzInit PROVE PtzInv
  OBVIOUS
<1>1. Typed
  BY DEF PtzAssumption, PtzInit, Typed, Stages
<1>2. \A t \in Tasks : task[t] = "free"
  BY DEF PtzInit
<1>3. open = {}
  BY DEF PtzInit
<1>4. LockInv /\ SetupInv /\ NotClosedInUse /\ OpenIsOwned
  BY <1>2, <1>3, Names
     DEF LockInv, Held, SetupInv, Settling, NotClosedInUse, OpenIsOwned
<1>5. QED BY <1>1, <1>4 DEF PtzInv

-----------------------------------------------------------------------------
(* Types *)

\* A step that makes no session, or another attempt, leaves what is made.
LEMMA SameMade == UNCHANGED made => UNCHANGED Made
BY DEF Made

\* A task's step leaves numbers, stages and sessions in their ranges.
LEMMA TaskTypes ==
    ASSUME PtzAssumption, Typed, NEW t \in Tasks, Call(t) \/ Step(t) \/ Cancel(t)
    PROVE  Typed'
<1> USE Names, SameMade DEF Typed, Stages, lockVars, sessVars, idleVars, camVars, taskVars
<1>1. CASE Call(t)
  BY <1>1 DEF Call
<1>2. CASE Enter(t)
  BY <1>2 DEF Enter, Send, Ended
<1>3. CASE Bootstrapped(t)
  BY <1>3 DEF Bootstrapped
<1>4. CASE NewSession(t)
  <2>1. made' = made + 1 /\ made' \in 0..MaxSessions /\ session' = session
    BY <1>4 DEF NewSession, PtzAssumption
  <2>2. Made \subseteq Made' /\ made' \in Made'
    BY <2>1 DEF Made
  <2>3. open' \subseteq Made' /\ using' \in [Tasks -> {0} \cup Made']
    BY <1>4, <2>2 DEF NewSession
  <2>4. task' \in [Tasks -> Stages] /\ try' = try
    BY <1>4 DEF NewSession
  <2>5. QED BY <2>1, <2>2, <2>3, <2>4
<1>5. CASE SetupFails(t)
  BY <1>5 DEF SetupFails, Ended
<1>6. CASE AuthAccepted(t)
  BY <1>6 DEF AuthAccepted, Send, Ended
<1>7. CASE AuthRejected(t)
  <2>1. try' \in [Tasks -> 1..2]
    BY <1>7 DEF AuthRejected, MayRetry
  <2>2. task' \in [Tasks -> Stages] /\ using' \in [Tasks -> {0} \cup Made]
    BY <1>7 DEF AuthRejected, Ended
  <2>3. UNCHANGED <<made, session>> /\ open' \subseteq Made
    BY <1>7 DEF AuthRejected
  <2>4. QED BY <2>1, <2>2, <2>3
<1>8. CASE Acked(t) \/ NotAcked(t)
  <2>1. Finish(t) /\ UNCHANGED <<try, using, made>>
    BY <1>8 DEF Acked, NotAcked
  <2>2. task' \in [Tasks -> Stages]
    BY <2>1 DEF Finish, StartEager
  <2>3. session' \in {0} \cup Made /\ open' \subseteq Made
    BY <2>1 DEF Finish
  <2>4. QED BY <2>1, <2>2, <2>3
<1>9. CASE t = "eager" /\ EagerStarts
  BY <1>9 DEF EagerStarts
<1>10. CASE Cancel(t)
  BY <1>10 DEF Cancel
<1>11. QED
  BY <1>1, <1>2, <1>3, <1>4, <1>5, <1>6, <1>7, <1>8, <1>9, <1>10 DEF Step

\* So does every other step.
LEMMA NextTypes == ASSUME PtzAssumption, Typed, [PtzNext]_ptzVars PROVE Typed'
<1>1. ASSUME Idle \/ Shutdown
      PROVE  /\ UNCHANGED <<try, using, made>>
             /\ session' \in {0, session} /\ open' \subseteq open
             /\ task' \in {task, [task EXCEPT !["eager"] = "free"]}
  BY <1>1 DEF Idle, IdleFires, IdleStarts, IdleCloses, Shutdown, ShutdownIdle,
              ShutdownEager, ShutdownCloses, sessVars, taskVars
<1>2. CASE Idle \/ Shutdown
  BY <1>1, <1>2, SameMade DEF Typed, Stages
<1>3. CASE UNCHANGED ptzVars
  BY <1>3, SameMade DEF ptzVars, taskVars, sessVars, Typed
<1>4. QED BY <1>2, <1>3, TaskTypes DEF PtzNext

-----------------------------------------------------------------------------
(* The lock *)

\* _lock is taken by a task that is not yet between the two.
LEMMA AcquireKeeps ==
    ASSUME PtzAssumption, LockInv, NEW t, Acquire(t),
           \A u \in Tasks : task'[u] \in Held => task'[u] = task[u]
    PROVE  LockInv'
BY Names DEF LockInv, Acquire

\* A task withdraws that is not between the two any more.
LEMMA WithdrawKeeps ==
    ASSUME LockInv, NEW t, Withdraw(t),
           \A u \in Tasks : task'[u] \in Held => task'[u] = task[u] /\ u # t
    PROVE  LockInv'
<1>1. CASE holder = t
  BY <1>1 DEF LockInv
<1>2. CASE holder # t
  BY <1>2 DEF LockInv, Withdraw
<1>3. QED BY <1>1, <1>2

\* What a task does with the lock.
OwnStep(t) ==
    \/ Enter(t) \/ Bootstrapped(t) \/ NewSession(t) \/ SetupFails(t)
    \/ AuthAccepted(t) \/ AuthRejected(t) \/ Acked(t) \/ NotAcked(t)

\* One task has the lock; the others' sessions are those of cancelled calls,
\* which keep them.
OthersOut(t) ==
    \A u \in Tasks \ {t} :
        task[u] \notin Held /\ task'[u] \notin Held
        /\ (task[u] = "cancelled" => task'[u] = "cancelled") /\ using'[u] = using[u]

\* It has the lock, keeps it as long as it is between the two, and the others
\* are out of it.
LEMMA OwnSteps ==
    ASSUME PtzAssumption, Typed, LockInv, NEW t \in Tasks, OwnStep(t)
    PROVE  holder = t /\ OthersOut(t) /\ (task'[t] \in Held => holder' = t)
<1> USE Names DEF Typed, Held
<1>1. holder = t
  BY DEF OwnStep, Enter, Bootstrapped, NewSession, SetupFails, AuthAccepted,
         AuthRejected, Acked, NotAcked, LockInv
<1>2. \A u \in Tasks \ {t} : task[u] \notin Held
  BY <1>1, Alone
<1>3. CASE Acked(t) \/ NotAcked(t)
  <2>1. task' = [task EXCEPT ![t] = "done"] \/ task' = [StartEager EXCEPT ![t] = "done"]
    BY <1>3 DEF Acked, NotAcked, Finish
  <2>2. \A u \in Tasks \ {t} :
           task'[u] = task[u] \/ (task[u] # "cancelled" /\ task'[u] = "starting")
    <3>1. StartEager = task
          \/ (task["eager"] = "free" /\ StartEager = [task EXCEPT !["eager"] = "starting"])
      BY DEF StartEager, Closing
    <3>2. CASE StartEager = task
      BY <2>1, <3>2
    <3>3. CASE task["eager"] = "free" /\ StartEager = [task EXCEPT !["eager"] = "starting"]
      BY <2>1, <3>3
    <3>4. QED BY <3>1, <3>2, <3>3
  <2>3. UNCHANGED using
    BY <1>3 DEF Acked, NotAcked
  <2>4. task'[t] = "done"
    BY <2>1 DEF StartEager
  <2>5. QED BY <1>1, <1>2, <2>2, <2>3, <2>4 DEF OthersOut
<1>4. ASSUME \A u \in Tasks \ {t} : task'[u] = task[u] /\ using'[u] = using[u]
      PROVE  OthersOut(t)
  BY <1>2, <1>4 DEF OthersOut
<1>5. CASE Enter(t)
  <2>1. \A u \in Tasks \ {t} : task'[u] = task[u] /\ using'[u] = using[u]
    BY <1>5 DEF Enter, Send
  <2>2. task'[t] \in Held => holder' = t
    BY <1>5 DEF Enter, Ended, lockVars
  <2>3. QED BY <1>1, <1>4, <2>1, <2>2
<1>6. CASE Bootstrapped(t) \/ NewSession(t) \/ SetupFails(t)
  <2>1. \A u \in Tasks \ {t} : task'[u] = task[u] /\ using'[u] = using[u]
    BY <1>6 DEF Bootstrapped, NewSession, SetupFails
  <2>2. task'[t] \in Held => holder' = t
    BY <1>1, <1>6 DEF Bootstrapped, NewSession, SetupFails, Ended, lockVars
  <2>3. QED BY <1>1, <1>4, <2>1, <2>2
<1>7. CASE AuthAccepted(t) \/ AuthRejected(t)
  <2>1. \A u \in Tasks \ {t} : task'[u] = task[u] /\ using'[u] = using[u]
    BY <1>7 DEF AuthAccepted, AuthRejected, Send
  <2>2. task'[t] \in Held => holder' = t
    BY <1>1, <1>7 DEF AuthAccepted, AuthRejected, Ended, lockVars
  <2>3. QED BY <1>1, <1>4, <2>1, <2>2
<1>8. QED BY <1>3, <1>5, <1>6, <1>7 DEF OwnStep

\* A task's step leaves one task at most between the two.
LEMMA TaskLock ==
    ASSUME PtzAssumption, Typed, LockInv, NEW t \in Tasks,
           Call(t) \/ Step(t) \/ Cancel(t)
    PROVE  LockInv'
<1> USE Names DEF Typed, Held
<1>1. CASE Call(t)
  <2>1. Acquire(t) /\ task' = [task EXCEPT ![t] = "queued"]
    BY <1>1 DEF Call
  <2>2. QED BY <2>1, AcquireKeeps
<1>2. CASE t = "eager" /\ EagerStarts
  <2>1. Acquire("eager") /\ task' = [task EXCEPT !["eager"] = "queued"]
    BY <1>2 DEF EagerStarts
  <2>2. QED BY <2>1, AcquireKeeps
<1>3. CASE Cancel(t)
  <2>1. Withdraw(t) /\ task' = [task EXCEPT ![t] = "cancelled"]
    BY <1>3 DEF Cancel
  <2>2. QED BY <2>1, WithdrawKeeps
<1>4. CASE OwnStep(t)
  BY <1>4, OwnSteps DEF OthersOut, LockInv
<1>5. QED
  BY <1>1, <1>2, <1>3, <1>4 DEF Step, OwnStep

\* So does every other step.
LEMMA NextLock ==
    ASSUME PtzAssumption, Typed, LockInv, [PtzNext]_ptzVars PROVE LockInv'
<1> USE Names DEF Held
<1>1. CASE IdleFires \/ ShutdownCloses \/ UNCHANGED ptzVars
  BY <1>1 DEF IdleFires, ShutdownCloses, LockInv, ptzVars, taskVars, lockVars
<1>2. CASE IdleStarts
  <2>1. UNCHANGED task /\ (UNCHANGED holder \/ Acquire("idle"))
    BY <1>2 DEF IdleStarts, taskVars, lockVars
  <2>2. CASE UNCHANGED holder
    BY <2>1, <2>2 DEF LockInv
  <2>3. CASE Acquire("idle")
    BY <2>1, <2>3, AcquireKeeps
  <2>4. QED BY <2>1, <2>2, <2>3
<1>3. CASE IdleCloses
  <2>1. \A u \in Tasks : task'[u] \notin Held
    BY <1>3, NoneHeld DEF IdleCloses, taskVars
  <2>2. QED BY <2>1 DEF LockInv
<1>4. CASE ShutdownIdle
  <2>1. Withdraw("idle") /\ UNCHANGED task
    BY <1>4 DEF ShutdownIdle, taskVars
  <2>2. QED BY <2>1, WithdrawKeeps
<1>5. CASE ShutdownEager
  <2>1. Withdraw("eager") /\ task' = [task EXCEPT !["eager"] = "free"]
    BY <1>5 DEF ShutdownEager
  <2>2. QED BY <2>1, WithdrawKeeps DEF Typed
<1>6. QED
  BY <1>1, <1>2, <1>3, <1>4, <1>5, TaskLock DEF PtzNext, Idle, Shutdown

-----------------------------------------------------------------------------
(* The sessions *)

\* What is promised before the unload.
UseInv == SetupInv /\ NotClosedInUse /\ OpenIsOwned

\* Sessions stay as they are, and no task gets between acquisition and release
\* or leaves it.
LEMMA Quiet ==
    ASSUME ~Closing, ~Closing', UseInv, session' = session, open' = open, using' = using,
           \A u \in Tasks : task'[u] = "auth" => holder' = u,
           \A u \in Tasks :
              \/ task'[u] = task[u]
              \/ task[u] \notin Held \cup {"cancelled"} /\ task'[u] \notin Held
    PROVE  UseInv'
<1>1. SetupInv' /\ NotClosedInUse'
  BY DEF UseInv, SetupInv, Settling, NotClosedInUse, Held, Tasks
<1>2. OpenIsOwned'
  BY DEF UseInv, OpenIsOwned, Settling, Held
<1>3. QED BY <1>1, <1>2 DEF UseInv

\* What is to be shown of a step of that task.
LEMMA OneSteps ==
    ASSUME ~Closing, ~Closing', UseInv, NEW t \in Tasks, OthersOut(t),
           task'[t] \in {"bootstrap", "connect", "auth"} => session' \notin open',
           task'[t] = "auth" => using'[t] \in open' /\ holder' = t,
           task'[t] = "acking" => using'[t] = session' /\ session' \in open',
           \A s \in open' :
              \/ s = session'
              \/ s \in open /\ s # session /\ ~(Settling(t) /\ using[t] = s)
                 /\ task[t] # "cancelled"
              \/ using'[t] = s /\ task'[t] \in {"auth", "cancelled"}
    PROVE  UseInv'
<1>1. SetupInv'
  BY DEF SetupInv, Settling, OthersOut, Held
<1>2. NotClosedInUse'
  BY DEF NotClosedInUse, OthersOut, Held, Tasks
<1>3. OpenIsOwned'
  <2>1. SUFFICES ASSUME NEW s \in open', s # session'
                 PROVE  \E u \in Tasks :
                           using'[u] = s
                           /\ ((Settling(u)' /\ holder' = u) \/ task'[u] = "cancelled")
    BY DEF OpenIsOwned
  <2>2. CASE using'[t] = s /\ task'[t] \in {"auth", "cancelled"}
    BY <2>2 DEF Settling
  <2>3. CASE s \in open /\ s # session /\ ~(Settling(t) /\ using[t] = s) /\ task[t] # "cancelled"
    <3>1. PICK u \in Tasks : using[u] = s /\ (Settling(u) \/ task[u] = "cancelled")
      BY <2>3 DEF UseInv, OpenIsOwned
    <3>2. u # t
      BY <2>3, <3>1
    <3>3. task'[u] = "cancelled" /\ using'[u] = s
      BY <3>1, <3>2 DEF OthersOut, Settling, Held
    <3>4. QED BY <3>3
  <2>4. QED BY <2>1, <2>2, <2>3
<1>4. QED BY <1>1, <1>2, <1>3 DEF UseInv

\* A step of the task that has the lock.
LEMMA OwnUse ==
    ASSUME PtzAssumption, Typed, LockInv, ~Closing, ~Closing', UseInv,
           NEW t \in Tasks, OwnStep(t)
    PROVE  UseInv'
<1> USE DEF Typed
<1>1. OthersOut(t) /\ (task'[t] \in Held => holder' = t)
  BY OwnSteps
<1>2. 0 \notin Made /\ made + 1 \notin {0} \cup Made
  BY DEF Made
<1>3. task[t] \in {"bootstrap", "connect", "auth"} => session \notin open
  BY DEF UseInv, SetupInv
<1>4. CASE Enter(t)
  <2>1. task[t] = "queued" /\ UNCHANGED <<session, open>>
    BY <1>4 DEF Enter, sessVars
  <2>2. task'[t] = "acking" => using'[t] = session /\ session \in open
    BY <1>4 DEF Enter, Send, Warm, Ended
  <2>3. task'[t] \in {"bootstrap", "connect", "auth"} => session \notin open /\ task'[t] # "auth"
    BY <1>2, <1>4, Names DEF Enter, Send, Warm, Ended
  <2>4. QED BY <1>1, <2>1, <2>2, <2>3, OneSteps DEF Settling
<1>5. CASE Bootstrapped(t)
  BY <1>1, <1>3, <1>5, OneSteps DEF Bootstrapped, Settling, sessVars
<1>6. CASE NewSession(t)
  <2>1. /\ task[t] = "connect" /\ task'[t] = "auth" /\ using'[t] = made + 1
        /\ open' = open \cup {made + 1} /\ session' = session
    BY <1>6 DEF NewSession
  <2>2. QED BY <1>1, <1>2, <1>3, <2>1, OneSteps DEF Settling, Held
<1>7. CASE SetupFails(t)
  BY <1>1, <1>7, OneSteps DEF SetupFails, Ended, Settling, sessVars
<1>8. CASE AuthAccepted(t)
  <2>1. /\ task[t] = "auth" /\ task'[t] \in {"free", "acking"}
        /\ session' = using[t] /\ open' = open /\ using'[t] = using[t]
    BY <1>8 DEF AuthAccepted, Send, Ended
  <2>2. using[t] \in open
    BY <2>1 DEF UseInv, SetupInv, Settling
  <2>3. QED BY <1>1, <1>3, <2>1, <2>2, OneSteps
<1>9. CASE AuthRejected(t)
  <2>1. /\ task[t] = "auth" /\ task'[t] \in {"bootstrap", "free", "done"}
        /\ session' = session /\ open' = open \ {using[t]}
    BY <1>9 DEF AuthRejected, Ended
  <2>2. QED BY <1>1, <1>3, <2>1, OneSteps
<1>10. CASE Acked(t) \/ NotAcked(t)
  <2>1. task[t] = "acking" /\ task'[t] = "done"
    BY <1>10 DEF Acked, NotAcked, Finish, StartEager
  <2>2. \/ session' = 0 /\ open' = open \ {session}
        \/ UNCHANGED <<session, open>>
    BY <1>10 DEF Acked, NotAcked, Finish
  <2>3. QED BY <1>1, <2>1, <2>2, OneSteps DEF Settling
<1>11. QED
  BY <1>4, <1>5, <1>6, <1>7, <1>8, <1>9, <1>10 DEF OwnStep

\* A cancelled caller leaves its session as it is.
LEMMA CancelUse ==
    ASSUME Typed, LockInv, LockInv', ~Closing, ~Closing', UseInv,
           NEW t \in Tasks, Cancel(t)
    PROVE  UseInv'
<1>1. /\ task' = [task EXCEPT ![t] = "cancelled"] /\ task[t] # "cancelled"
      /\ UNCHANGED <<using, session, open>>
  BY DEF Cancel, sessVars
<1>2. CASE task[t] \in Held
  <2>1. OthersOut(t)
    BY <1>1, <1>2, Alone DEF OthersOut, Typed
  <2>2. task'[t] = "cancelled"
    BY <1>1 DEF Typed
  <2>3. QED BY <1>1, <2>1, <2>2, OneSteps DEF Settling
<1>3. CASE task[t] \notin Held
  BY <1>1, <1>3, Quiet DEF Typed, Held, LockInv
<1>4. QED BY <1>2, <1>3

\* Every step preserves what is promised before the unload.
LEMMA NextUse ==
    ASSUME PtzAssumption, Typed, LockInv, LockInv', ~Closing', [PtzNext]_ptzVars,
           ~Closing => UseInv
    PROVE  UseInv'
<1>1. ~Shutdown
  BY DEF Shutdown, ShutdownIdle, ShutdownEager, ShutdownCloses, Closing
<1>2. UNCHANGED shut
  <2>1. CASE Idle \/ UNCHANGED ptzVars
    BY <2>1 DEF Idle, IdleFires, IdleStarts, IdleCloses, ptzVars
  <2>2. ASSUME NEW t \in Tasks, Call(t) \/ Step(t) \/ Cancel(t) PROVE UNCHANGED shut
    BY <2>2 DEF Call, Cancel, Step, Enter, Bootstrapped, NewSession, SetupFails,
                AuthAccepted, AuthRejected, Acked, NotAcked, EagerStarts
  <2>3. QED BY <1>1, <2>1, <2>2 DEF PtzNext
<1>3. ~Closing /\ UseInv
  BY <1>2 DEF Closing
<1>4. CASE IdleFires \/ IdleStarts \/ UNCHANGED ptzVars
  <2>1. UNCHANGED <<session, open, using, task>>
    BY <1>4 DEF IdleFires, IdleStarts, ptzVars, taskVars, sessVars
  <2>2. QED BY <1>3, <2>1, Quiet DEF LockInv, Held
<1>5. CASE IdleCloses
  <2>1. \A u \in Tasks : task[u] \notin Held
    BY <1>5, NoneHeld DEF IdleCloses
  <2>2. session' = 0 /\ open' = open \ {session} /\ UNCHANGED <<task, using>>
    BY <1>5 DEF IdleCloses, taskVars
  <2>3. SetupInv' /\ NotClosedInUse'
    BY <2>1, <2>2 DEF SetupInv, Settling, NotClosedInUse, Held, Tasks
  <2>4. OpenIsOwned'
    BY <1>3, <2>1, <2>2 DEF UseInv, OpenIsOwned, Settling, Held
  <2>5. QED BY <2>3, <2>4 DEF UseInv
<1>6. ASSUME NEW t \in Tasks, Call(t) \/ Step(t) \/ Cancel(t) PROVE UseInv'
  <2>1. CASE Call(t)
    <3>1. /\ task[t] = "free" /\ task' = [task EXCEPT ![t] = "queued"]
          /\ UNCHANGED <<session, open, using>>
      BY <2>1 DEF Call, sessVars
    <3>2. QED BY <1>3, <3>1, Quiet DEF Typed, LockInv, Held
  <2>2. CASE t = "eager" /\ EagerStarts
    <3>1. /\ task["eager"] = "starting" /\ task' = [task EXCEPT !["eager"] = "queued"]
          /\ UNCHANGED <<session, open, using>>
      BY <2>2 DEF EagerStarts, sessVars
    <3>2. QED BY <1>3, <3>1, Quiet, Names DEF Typed, LockInv, Held
  <2>3. CASE Cancel(t)
    BY <1>3, <2>3, CancelUse
  <2>4. CASE OwnStep(t)
    BY <1>3, <2>4, OwnUse
  <2>5. QED BY <1>6, <2>1, <2>2, <2>3, <2>4 DEF Step, OwnStep
<1>7. QED BY <1>1, <1>4, <1>5, <1>6 DEF PtzNext, Idle

\* Every step preserves the invariant.
LEMMA PtzNextInv == ASSUME PtzAssumption PROVE PtzInv /\ [PtzNext]_ptzVars => PtzInv'
<1> SUFFICES ASSUME PtzInv, [PtzNext]_ptzVars PROVE PtzInv'
  OBVIOUS
<1>1. Typed' /\ LockInv'
  BY NextTypes, NextLock DEF PtzInv
<1>2. ~Closing' => UseInv'
  BY <1>1, NextUse DEF PtzInv, UseInv
<1>3. QED BY <1>1, <1>2 DEF PtzInv, UseInv

\* The inductive invariant.
THEOREM PtzInvariant == ASSUME PtzAssumption PROVE PtzSpec => []PtzInv
BY PtzInitInv, PtzNextInv, PTL DEF PtzSpec

\* No session is closed under a command that waits for its ack, by whatever idle
\* teardown, recycling or failed setup of another, until the unload
\* (controller.py:95-131, 179-193).
THEOREM InUseStaysOpen == ASSUME PtzAssumption PROVE PtzSpec => []NotClosedInUse
<1>1. PtzInv => NotClosedInUse
  BY DEF PtzInv, NotClosedInUse
<1>2. QED BY PtzInvariant, <1>1, PTL

\* Every open session has an owner that will close it, except one whose setting
\* up was cancelled, until the unload (controller.py:1-6, 52-93).
THEOREM OpenHasOwner == ASSUME PtzAssumption PROVE PtzSpec => []OpenIsOwned
<1>1. PtzInv => OpenIsOwned
  BY DEF PtzInv, OpenIsOwned
<1>2. QED BY PtzInvariant, <1>1, PTL

\* One task at a time sets up or uses a session, however the lock is passed on,
\* given up or taken from a cancelled holder (controller.py:95-131).
OneAtATime == \A t, u \in Tasks : task[t] \in Held /\ task[u] \in Held => t = u

THEOREM OneUser == ASSUME PtzAssumption PROVE PtzSpec => []OneAtATime
<1>1. PtzInv => OneAtATime
  BY DEF PtzInv, LockInv, OneAtATime
<1>2. QED BY PtzInvariant, <1>1, PTL

-----------------------------------------------------------------------------
(* Talk *)

\* Calls between the acquisition and the release of _connect_lock, and those of
\* them whose connection is open.
Connecting == {"open", "ack", "udp"}
HasVoice(p) == call[p] \in {"ack", "udp"}

TalkTyped ==
    /\ call \in [Players -> Connecting \cup {"idle", "lock", "send"}]
    /\ lock \in Players \cup {Nobody}
    /\ connected \in BOOLEAN /\ rival \in BOOLEAN
    /\ voice \in BOOLEAN
    /\ left \in Nat /\ cut \in Nat
    /\ beat \in {"none", "sleep", "wait"}

\* connect() is under way at most once, and never beside a session that is up.
ConnectInv ==
    /\ \A p \in Players : call[p] \in Connecting <=> lock = p
    /\ connected => lock = Nobody

\* An open stream is that of the session that is up, or of the call that connects.
\* Any other was left by a connect that was cut short.
VoiceInv ==
    /\ voice <=> connected \/ \E p \in Players : HasVoice(p)
    /\ left <= cut

\* The heartbeat runs as long as the session; the bridge is kept out from the
\* grant on.
BeatInv ==
    /\ connected <=> beat # "none"
    /\ connected => ~rival
    /\ \A p \in Players : call[p] = "udp" => ~rival

TalkInv == TalkTyped /\ ConnectInv /\ VoiceInv /\ BeatInv

\* The initial states.
LEMMA TalkInitInv == ASSUME TalkAssumption PROVE TalkInit => TalkInv
<1> SUFFICES ASSUME TalkAssumption, TalkInit PROVE TalkInv
  OBVIOUS
<1>1. TalkTyped
  BY DEF TalkInit, TalkTyped
<1>2. ConnectInv /\ VoiceInv /\ BeatInv
  BY DEF TalkAssumption, TalkInit, ConnectInv, VoiceInv, BeatInv, HasVoice, Connecting
<1>3. QED BY <1>1, <1>2 DEF TalkInv

\* A step of the service call.
LEMMA PlayerSteps ==
    ASSUME TalkAssumption, TalkInv, NEW p \in Players,
           Play(p) \/ LockConnect(p) \/ Open(p) \/ Granted(p) \/ Refused(p)
           \/ Cut(p) \/ Abandon(p) \/ Up(p) \/ Sent(p)
    PROVE  TalkInv'
<1> USE DEF TalkInv, TalkTyped, ConnectInv, VoiceInv, BeatInv, HasVoice, Connecting
<1> Nobody \notin Players
  BY DEF TalkAssumption
<1>1. CASE Play(p)
  BY <1>1 DEF Play
<1>2. CASE LockConnect(p)
  BY <1>2 DEF LockConnect, AlreadyConnected
<1>3. CASE Open(p)
  <2>1. lock = p /\ ~connected /\ \A q \in Players : ~HasVoice(q)
    BY <1>3 DEF Open
  <2>2. CASE call' = [call EXCEPT ![p] = "ack"] /\ voice' = TRUE /\ left' = left
    BY <1>3, <2>1, <2>2 DEF Open
  <2>3. CASE call' = [call EXCEPT ![p] = "idle"] /\ lock' = Nobody /\ UNCHANGED <<voice, left>>
    BY <1>3, <2>1, <2>3 DEF Open
  <2>4. QED BY <1>3, <2>1, <2>2, <2>3 DEF Open
<1>4. CASE Granted(p)
  BY <1>4 DEF Granted
\* The call that has the stream holds the lock, so no other has one.
<1>5. CASE Refused(p)
  <2>1. lock = p /\ ~connected /\ \A q \in Players \ {p} : ~HasVoice(q)
    BY <1>5 DEF Refused
  <2>2. QED BY <1>5, <2>1 DEF Refused
<1>6. CASE Cut(p)
  <2>1. lock = p /\ ~connected /\ \A q \in Players \ {p} : ~HasVoice(q)
    BY <1>6 DEF Cut
  <2>2. left' \in Nat /\ cut' \in Nat /\ left' <= cut'
    BY <1>6 DEF Cut
  <2>3. QED BY <1>6, <2>1, <2>2 DEF Cut
<1>7. CASE Abandon(p)
  BY <1>7 DEF Abandon
<1>8. CASE Up(p)
  BY <1>8 DEF Up
<1>9. CASE Sent(p)
  BY <1>9 DEF Sent
<1>10. QED BY <1>1, <1>2, <1>3, <1>4, <1>5, <1>6, <1>7, <1>8, <1>9

\* Every step preserves the invariant.
LEMMA TalkNextInv == ASSUME TalkAssumption PROVE TalkInv /\ [TalkNext]_talkVars => TalkInv'
<1> SUFFICES ASSUME TalkInv, [TalkNext]_talkVars PROVE TalkInv'
  OBVIOUS
<1> USE DEF TalkInv, TalkTyped, ConnectInv, VoiceInv, BeatInv, HasVoice, Connecting
<1> Nobody \notin Players
  BY DEF TalkAssumption
\* Without the session nobody holds the connection, and nobody connects.
<1>1. ASSUME connected, Dead, UNCHANGED <<call, lock, left, cut, rival>> PROVE TalkInv'
  <2>1. \A p \in Players : call[p] \notin Connecting
    BY <1>1
  <2>2. voice' = FALSE /\ connected' = FALSE /\ beat' = "none"
    BY <1>1 DEF Dead
  <2>3. QED BY <1>1, <2>1, <2>2
<1>2. CASE Wake
  BY <1>2 DEF Wake
<1>3. CASE Beat
  <2>1. CASE Dead
    BY <1>1, <1>3, <2>1 DEF Beat
  <2>2. CASE beat' = "sleep" /\ UNCHANGED <<connected, voice>>
    BY <1>3, <2>2 DEF Beat
  <2>3. QED BY <1>3, <2>1, <2>2 DEF Beat
<1>4. CASE Camera
  BY <1>4 DEF Camera
<1>5. CASE BridgeConnect
  BY <1>5 DEF BridgeConnect
<1>6. CASE BridgeClose
  BY <1>6 DEF BridgeClose
<1>7. CASE Unload
  BY <1>1, <1>7 DEF Unload
<1>8. CASE Reclaim
  BY <1>8 DEF Reclaim
<1>9. CASE UNCHANGED talkVars
  BY <1>9 DEF talkVars
<1>10. QED
  BY <1>2, <1>3, <1>4, <1>5, <1>6, <1>7, <1>8, <1>9, PlayerSteps DEF TalkNext

\* The inductive invariant of the talk channel.
THEOREM TalkInvariant == ASSUME TalkAssumption PROVE TalkSpec => []TalkInv
BY TalkInitInv, TalkNextInv, PTL DEF TalkSpec

\* However calls of play_audio_file overlap, fail and are cancelled, beside the
\* unload, the heartbeat and the go2rtc bridge, a session that is up keeps its
\* stream, its heartbeat and the camera's channel, and no call opens another over
\* it: what is left open is left by a connect that was cut short (talk.py:61-109).
THEOREM OneVoiceSession == ASSUME TalkAssumption PROVE TalkSpec => []OneSessionOpen
<1>1. TalkInv => OneSessionOpen
  BY DEF TalkInv, TalkTyped, ConnectInv, VoiceInv, BeatInv, OneSessionOpen
<1>2. QED BY TalkInvariant, <1>1, PTL

-----------------------------------------------------------------------------
(* Streams *)

Phases == {"off", "setup", "built", "adding", "up", "removing"}

\* From async_setup to the end of async_unload the camera is in the table, and
\* the service with it.
StreamsInv ==
    /\ phase \in [Cameras -> Phases]
    /\ service \in BOOLEAN
    /\ \A c \in Cameras :
           phase[c] \in {"built", "adding", "up", "removing"} => c \in registry /\ service

\* The last step of an unload leaves the service to the cameras that are left.
LEMMA UnregisterKeeps ==
    ASSUME StreamsInv, NEW c \in Cameras, Unregister(c) PROVE StreamsInv'
<1>1. /\ phase' = [phase EXCEPT ![c] = "off"]
      /\ registry' = registry \ {c}
      /\ service' = (service /\ registry' # {})
  BY DEF Unregister, StillNeeded
<1>2. phase' \in [Cameras -> Phases] /\ service' \in BOOLEAN
  BY <1>1 DEF StreamsInv, Phases
<1>3. ASSUME NEW d \in Cameras, phase'[d] \in {"built", "adding", "up", "removing"}
      PROVE  d \in registry' /\ service'
  <2>1. d # c /\ phase'[d] = phase[d]
    BY <1>1, <1>3 DEF StreamsInv
  <2>2. d \in registry /\ service
    BY <1>3, <2>1 DEF StreamsInv
  <2>3. QED BY <1>1, <2>1, <2>2
<1>4. QED BY <1>2, <1>3 DEF StreamsInv

\* Every step preserves the invariant.
LEMMA StreamsNextInv == StreamsInv /\ [StreamsNext]_streamVars => StreamsInv'
<1> SUFFICES ASSUME StreamsInv, [StreamsNext]_streamVars PROVE StreamsInv'
  OBVIOUS
<1>1. ASSUME NEW c \in Cameras, NewDevice(c) \/ AddCamera(c) \/ Fail(c)
      PROVE  StreamsInv'
  BY <1>1 DEF StreamsInv, Phases, NewDevice, AddCamera, Fail
<1>2. ASSUME NEW c \in Cameras, Build(c) PROVE StreamsInv'
  BY <1>2 DEF StreamsInv, Phases, Build, Registered
<1>3. ASSUME NEW c \in Cameras, Read(c) \/ register_stream(c) \/ remove_stream(c)
      PROVE  StreamsInv'
  BY <1>3 DEF StreamsInv, Phases, Read, register_stream, remove_stream
<1>4. ASSUME NEW c \in Cameras, BeginUnload(c) PROVE StreamsInv'
  BY <1>4 DEF StreamsInv, Phases, BeginUnload
<1>5. CASE Crash
  BY <1>5 DEF StreamsInv, Phases, Crash
<1>6. CASE UNCHANGED streamVars
  BY <1>6 DEF StreamsInv, streamVars
<1>7. QED
  BY <1>1, <1>2, <1>3, <1>4, <1>5, <1>6, UnregisterKeeps DEF StreamsNext

\* A camera that is loaded stays in the table and the service registered,
\* whichever siblings set up, fail, unload or reload meanwhile, and after a
\* restart (camera/base.py:465-470, 480-514).
THEOREM LoadedCanBePlayedTo == StreamsSpec => []ServiceWhileLoaded
<1>1. StreamsInit => StreamsInv
  BY DEF StreamsInit, StreamsInv, Phases
<1>2. StreamsInv => ServiceWhileLoaded
  BY DEF StreamsInv, ServiceWhileLoaded
<1>3. QED BY <1>1, <1>2, StreamsNextInv, PTL DEF StreamsSpec
=============================================================================
