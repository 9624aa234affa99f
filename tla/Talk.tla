-------------------------------- MODULE Talk --------------------------------
(***************************************************************************)
(* The talk channel of an Aqara camera: AqaraLanTalkClient, which the      *)
(* play_audio_file service connects and feeds with frames, its heartbeat   *)
(* task, and the go2rtc exec bridge (a process of its own) that competes   *)
(* for the one voice session a camera grants.                              *)
(*                                                                         *)
(* A call may be cancelled at any await (a script that restarts cancels    *)
(* the service call it waits for).  disconnect() and a close of the TCP    *)
(* stream are one step: their awaits end within rounds of the event loop.  *)
(***************************************************************************)
EXTENDS Naturals

CONSTANTS
    Players,        \* concurrent calls of the service
    MaxFailures,    \* bound: heartbeats that may fail in a row (5 in the code)
    MaxCut          \* bound: connects that are cut short with their stream open

Nobody == "nobody"

TalkAssumption == MaxFailures \in Nat /\ MaxCut \in Nat /\ Nobody \notin Players

VARIABLES
    call,       \* of each call: idle, lock, open, ack, udp or send
    lock,       \* holder of _connect_lock
    connected,  \* _connected
    voice,      \* the stream of the connecting call, or of the session, is open
    left,       \* further streams open at the camera, that nothing will close
    cut,        \* history: connects cut short with their stream open
    beat,       \* the heartbeat task: none, sleep or wait (for an answer)
    failures,   \* its local
    peer,       \* the camera's end: well, mute (answers nothing) or eof
    rival,      \* the bridge holds the voice session
    owned       \* the device has the client (it was not unloaded)

talkVars == <<call, lock, connected, voice, left, cut, beat, failures, peer, rival, owned>>

TalkTypeOK ==
    /\ call \in [Players -> {"idle", "lock", "open", "ack", "udp", "send"}]
    /\ lock \in Players \cup {Nobody}
    /\ {connected, voice, rival, owned} \subseteq BOOLEAN
    /\ left \in Nat /\ cut \in 0..MaxCut
    /\ beat \in {"none", "sleep", "wait"}
    /\ failures \in 0..MaxFailures
    /\ peer \in {"well", "mute", "eof"}

TalkInit ==
    /\ call = [p \in Players |-> "idle"]
    /\ lock = Nobody
    /\ connected = FALSE
    /\ voice = FALSE
    /\ left = 0
    /\ cut = 0
    /\ beat = "none"
    /\ failures = 0
    /\ peer = "well"
    /\ rival = FALSE
    /\ owned = TRUE

-----------------------------------------------------------------------------
(* The service call *)

\* The service finds the client and connects it if need be.
Play(p) ==
    /\ owned
    /\ call[p] = "idle"
    /\ call' = [call EXCEPT ![p] = IF connected THEN "send" ELSE "lock"]
    /\ UNCHANGED <<lock, connected, voice, left, cut, beat, failures, peer, rival, owned>>

\* Mutation: connect() trusts the check made before the lock.
M_AlreadyConnected == FALSE

\* connect() under its lock.
AlreadyConnected == connected
LockConnect(p) ==
    /\ call[p] = "lock"
    /\ lock = Nobody
    /\ IF AlreadyConnected
       THEN call' = [call EXCEPT ![p] = "send"] /\ UNCHANGED lock
       ELSE call' = [call EXCEPT ![p] = "open"] /\ lock' = p
    /\ UNCHANGED <<connected, voice, left, cut, beat, failures, peer, rival, owned>>

\* The TCP connection opens and START_VOICE is written, or it does not open.  The
\* new stream takes the place of the one the client had, which nobody closes.
Open(p) ==
    /\ call[p] = "open"
    /\ \/ /\ call' = [call EXCEPT ![p] = "ack"]
          /\ voice' = TRUE
          /\ left' = IF voice THEN left + 1 ELSE left
          /\ UNCHANGED lock
       \/ /\ call' = [call EXCEPT ![p] = "idle"]
          /\ lock' = Nobody
          /\ UNCHANGED <<voice, left>>
    /\ UNCHANGED <<connected, cut, beat, failures, peer, rival, owned>>

\* The camera grants the session unless the bridge holds it.
Granted(p) ==
    /\ call[p] = "ack"
    /\ ~rival
    /\ call' = [call EXCEPT ![p] = "udp"]
    /\ UNCHANGED <<lock, connected, voice, left, cut, beat, failures, peer, rival, owned>>

\* No answer in time, the end of the stream or a refusal: it is closed.
Refused(p) ==
    /\ call[p] = "ack"
    /\ voice' = FALSE
    /\ call' = [call EXCEPT ![p] = "idle"]
    /\ lock' = Nobody
    /\ UNCHANGED <<connected, left, cut, beat, failures, peer, rival, owned>>

\* A cancellation, a reset, or no UDP endpoint to be had: the exception passes
\* through connect(), which releases its lock and leaves the stream as it is.  Only
\* a reset has ended that.
Cut(p) ==
    /\ call[p] \in {"ack", "udp"}
    /\ cut < MaxCut
    /\ cut' = cut + 1
    /\ voice' = FALSE
    /\ left' \in {left, left + 1}
    /\ call' = [call EXCEPT ![p] = "idle"]
    /\ lock' = Nobody
    /\ UNCHANGED <<connected, beat, failures, peer, rival, owned>>

\* A cancellation at an await with no stream of the call's own.
Abandon(p) ==
    /\ call[p] \in {"lock", "open", "send"}
    /\ call' = [call EXCEPT ![p] = "idle"]
    /\ lock' = IF lock = p THEN Nobody ELSE lock
    /\ UNCHANGED <<connected, voice, left, cut, beat, failures, peer, rival, owned>>

\* The UDP endpoint is there: the session is up and its heartbeat starts.
Up(p) ==
    /\ call[p] = "udp"
    /\ connected' = TRUE
    /\ beat' = "sleep"
    /\ failures' = 0
    /\ peer' = "well"
    /\ lock' = Nobody
    /\ call' = [call EXCEPT ![p] = "send"]
    /\ UNCHANGED <<voice, left, cut, rival, owned>>

\* The frames go out while the session is up; the call ends with the last one,
\* or when it finds the session gone.  Neither ends the session.
Sent(p) ==
    /\ call[p] = "send"
    /\ call' = [call EXCEPT ![p] = "idle"]
    /\ UNCHANGED <<lock, connected, voice, left, cut, beat, failures, peer, rival, owned>>

-----------------------------------------------------------------------------
(* The heartbeat *)

\* After five seconds: the loop ends if the session did, or a beat is written.
Wake ==
    /\ beat = "sleep"
    /\ beat' = IF connected THEN "wait" ELSE "none"
    /\ UNCHANGED <<call, lock, connected, voice, left, cut, failures, peer, rival, owned>>

\* Mutation: a beat that times out is not a failure.
M_Failed == failures

\* A refusal, a timeout and an error count alike.
Failed == failures + 1

Dead ==
    /\ connected' = FALSE
    /\ voice' = FALSE
    /\ beat' = "none"
    /\ failures' = 0

\* The answer, its absence, or the end of the stream.
Beat ==
    /\ beat = "wait"
    /\ \/ /\ peer = "well"
          /\ failures' = 0
          /\ beat' = "sleep"
          /\ UNCHANGED <<connected, voice>>
       \/ /\ peer = "mute"
          /\ IF Failed > MaxFailures
             THEN Dead
             ELSE failures' = Failed /\ beat' = "sleep" /\ UNCHANGED <<connected, voice>>
       \/ /\ peer = "eof"
          /\ Dead
    /\ UNCHANGED <<call, lock, left, cut, peer, rival, owned>>

-----------------------------------------------------------------------------
(* The camera, the bridge and the unload *)

Camera ==
    /\ connected
    /\ peer # "eof"
    /\ \E s \in {"well", "mute", "eof"} \ {peer} : peer' = s
    /\ UNCHANGED <<call, lock, connected, voice, left, cut, beat, failures, rival, owned>>

\* BridgeSession.connect is granted the session when nobody has it.
BridgeConnect ==
    /\ ~rival /\ ~voice /\ left = 0
    /\ rival' = TRUE
    /\ UNCHANGED <<call, lock, connected, voice, left, cut, beat, failures, peer, owned>>
BridgeClose ==
    /\ rival
    /\ rival' = FALSE
    /\ UNCHANGED <<call, lock, connected, voice, left, cut, beat, failures, peer, owned>>

\* A stream nobody refers to any more is closed by the interpreter, or the camera
\* gives the session up, at a time of their own.
Reclaim ==
    /\ left > 0
    /\ left' = left - 1
    /\ UNCHANGED <<call, lock, connected, voice, cut, beat, failures, peer, rival, owned>>

\* async_unload disconnects a client that is connected, and forgets it.
Unload ==
    /\ owned
    /\ owned' = FALSE
    /\ IF connected THEN Dead ELSE UNCHANGED <<connected, voice, beat, failures>>
    /\ UNCHANGED <<call, lock, left, cut, peer, rival>>

TalkNext ==
    \/ \E p \in Players :
           \/ Play(p) \/ LockConnect(p) \/ Open(p)
           \/ Granted(p) \/ Refused(p) \/ Cut(p) \/ Abandon(p) \/ Up(p) \/ Sent(p)
    \/ Wake \/ Beat
    \/ Camera \/ BridgeConnect \/ BridgeClose \/ Reclaim \/ Unload

\* The heartbeat's timers fire.
TalkFairness == WF_talkVars(Wake) /\ WF_talkVars(Beat)

TalkSpec == TalkInit /\ [][TalkNext]_talkVars /\ TalkFairness

-----------------------------------------------------------------------------
(* Properties *)

\* A session that is up keeps its stream, its heartbeat and the camera's voice
\* channel however calls overlap, fail and are cancelled around it: no call opens
\* another over it, and what is left open is left by a connect that was cut short
\* (talk.py:61-66, 79-109).
OneSessionOpen ==
    /\ connected => voice /\ beat # "none" /\ ~rival
    /\ left <= cut

\* A session whose camera stays silent or has closed is given up, so that the
\* next call connects again (talk.py:156-192).
DeadSessionEnds ==
    connected /\ peer # "well" ~> ~connected \/ peer = "well"

\* Not so: a connect that fails leaves nothing open.  Only the read of the answer is
\* guarded; whatever else ends the call leaves its stream, and the camera's voice
\* channel with it, to the interpreter (talk.py:79-103).
NothingLeft == left = 0

\* Not so: after an unload no session is left.  A call that is still connecting
\* brings one up on a client nobody will disconnect (camera/base.py:441-449,
\* talk.py:105-109).
SilentAfterUnload == ~owned => ~connected

\* Not so: a session ends after the file is played; it holds the camera's voice
\* channel, and keeps the browser out, until the unload (camera/base.py:502-505, 550-563).
ChannelIsFreed == connected ~> ~connected
=============================================================================
