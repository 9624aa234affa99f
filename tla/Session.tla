------------------------------ MODULE Session ------------------------------
(***************************************************************************)
(* Request/response correlation on the LANLink tunnel: LANLinkClient       *)
(* (hub/session.py) and the part of HubCoordinator that uses it            *)
(* (_run_session_once, _send_awaiting, async_read/async_write).            *)
(*                                                                         *)
(* One client lives per tunnel.  A session is identified by its `epoch'.   *)
(* Every new client counts its sequence numbers from 1 again, callers keep *)
(* the client they started with, and the hub answers late, in any order,   *)
(* or never; on top of the answers it pushes reports and acknowledges      *)
(* keepalives with frames that carry sequence numbers of their own.        *)
(*                                                                         *)
(* Left out: the contents of requests and answers.  A frame is its seq,    *)
(* the result code it carries, and (as a history field) the request it     *)
(* answers.                                                                *)
(***************************************************************************)
EXTENDS Naturals, Sequences, FiniteSets

CONSTANTS
    Callers,    \* tasks that read or write attributes through the coordinator
    Checkin,    \* the run loop itself, whose one request is the checkin
    MaxSeq,     \* bound: requests per client
    MaxEpoch,   \* bound: sessions
    MaxInbox,   \* bound: frames in flight from the hub
    PushSeqs    \* sequence numbers the hub puts on the frames it pushes

ASSUME SessionAssumption ==
    /\ Checkin \notin Callers
    /\ MaxSeq \in Nat
    /\ MaxEpoch \in Nat
    /\ MaxInbox \in Nat
    /\ PushSeqs \subseteq Nat

Tasks == Callers \cup {Checkin}

\* The result code of a frame: 0, an error code, or no code at all.
Codes == {"zero", "error", "absent"}

\* Frames from the hub.  `to' is the request answered, NoReq for a push.
\* A request is <<epoch, seq, number>>: the client and the sequence number it
\* was sent under, and which request of that client it really is.
NoReq == <<0, 0, 0>>
Reqs == Nat \X Nat \X Nat
Frames == [seq : Nat, code : Codes, to : Reqs]
NoFrame == [seq |-> 0, code |-> "absent", to |-> NoReq]

\* How a future ends.  "raw" is any exception that is neither a
\* ConnectionError nor a TimeoutError (TunnelError, ValueError, ...).
Futures == {"none", "pending", "result", "conn", "raw", "cancelled"}

\* What a caller's last request came to, as Home Assistant sees it.
Outcomes == {"none", "ok", "ha_error", "raw_error"}

VARIABLES
    epoch,      \* the number of clients created so far
    phase,      \* where _run_session_once is: down, checkin, up, ending
    listening,  \* listen() is running on the current tunnel
    writer,     \* the current tunnel still has its writer and session key
    seq,        \* the current client's _seq
    pending,    \* the current client's _pending: the registered seqs
    pc,         \* per task: idle, sending (inside tunnel.send), waiting
    req,        \* per task: the request it has under way
    fut,        \* per task: the state of its future
    expired,    \* per task: the wait_for timer has fired
    got,        \* per task: the frame its future was resolved with
    outcome,    \* per task: the result of its last request
    hub,        \* requests the hub has received and not answered
    inbox,      \* frames on their way from the hub, in TCP order
    issued,     \* history: requests of the current client so far
    accepted    \* history: epochs whose checkin the hub accepted

clientVars == <<epoch, phase, listening, writer, seq, pending>>
taskVars == <<pc, req, fut, expired, got, outcome>>
hubVars == <<hub, inbox, issued, accepted>>
vars == <<clientVars, taskVars, hubVars>>

ClientTypeOK ==
    /\ epoch \in Nat
    /\ phase \in {"down", "checkin", "up", "ending"}
    /\ listening \in BOOLEAN
    /\ writer \in BOOLEAN
    /\ seq \in Nat
    /\ pending \subseteq Nat

TaskTypeOK ==
    /\ pc \in [Tasks -> {"idle", "sending", "waiting"}]
    /\ req \in [Tasks -> Reqs]
    /\ fut \in [Tasks -> Futures]
    /\ expired \in [Tasks -> BOOLEAN]
    /\ got \in [Tasks -> Frames]
    /\ outcome \in [Tasks -> Outcomes]

HubTypeOK ==
    /\ hub \subseteq Reqs
    /\ inbox \in Seq(Frames)
    /\ issued \in Nat
    /\ accepted \subseteq Nat

\* Every variable has its type: in particular a call only ever ends with an
\* outcome Home Assistant knows (coordinator.py:319-332).
TypeOK == ClientTypeOK /\ TaskTypeOK /\ HubTypeOK

Init ==
    /\ epoch = 0
    /\ phase = "down"
    /\ listening = FALSE
    /\ writer = FALSE
    /\ seq = 0
    /\ pending = {}
    /\ pc = [t \in Tasks |-> "idle"]
    /\ req = [t \in Tasks |-> NoReq]
    /\ fut = [t \in Tasks |-> "none"]
    /\ expired = [t \in Tasks |-> FALSE]
    /\ got = [t \in Tasks |-> NoFrame]
    /\ outcome = [t \in Tasks |-> "none"]
    /\ hub = {}
    /\ inbox = <<>>
    /\ issued = 0
    /\ accepted = {}

----------------------------------------------------------------------------
(* Requests *)

\* Mutation: the counter is not advanced.
M_next_seq == seq

\* The sequence number the next request of the current client gets.
next_seq == seq + 1

\* Task t registers a future for request r and enters tunnel.send(), where it
\* may wait for the send lock or for drain().
Register(t, r) ==
    /\ pc' = [pc EXCEPT ![t] = "sending"]
    /\ req' = [req EXCEPT ![t] = r]
    /\ fut' = [fut EXCEPT ![t] = "pending"]
    /\ expired' = [expired EXCEPT ![t] = FALSE]
    /\ got' = [got EXCEPT ![t] = NoFrame]
    /\ outcome' = [outcome EXCEPT ![t] = "none"]

\* _connected_event is set when the checkin is accepted and cleared, together
\* with _client, when the session ends.
Connected == phase = "up"

\* async_read / async_write of a connected hub.  Nothing is awaited between
\* the test and the registration.
Call(c) ==
    /\ pc[c] = "idle"
    /\ Connected
    /\ seq < MaxSeq
    /\ Register(c, <<epoch, next_seq, issued + 1>>)
    /\ seq' = next_seq
    /\ issued' = issued + 1
    /\ pending' = pending \cup {next_seq}
    /\ UNCHANGED <<epoch, phase, listening, writer, hub, inbox, accepted>>

\* async_read / async_write while there is no client or no checkin yet.
CallRefused(c) ==
    /\ pc[c] = "idle"
    /\ ~Connected
    /\ outcome' = [outcome EXCEPT ![c] = "ha_error"]
    /\ UNCHANGED <<clientVars, pc, req, fut, expired, got, hubVars>>

\* The tunnel of task t's client can still be written to.
CanWrite(t) == writer /\ req[t][1] = epoch

\* tunnel.send() gets the frame out; the task goes on to wait_for(future).
\* Nobody answers what is written after the peer has gone.
Sent(t) ==
    /\ pc[t] = "sending"
    /\ CanWrite(t)
    /\ pc' = [pc EXCEPT ![t] = "waiting"]
    /\ hub' = IF listening THEN hub \cup {req[t]} ELSE hub
    /\ UNCHANGED <<clientVars, req, fut, expired, got, outcome, inbox, issued,
                   accepted>>

\* _send_awaiting: the exception a request ends with becomes a
\* HomeAssistantError when it is a ConnectionError or a TimeoutError.
Translate(kind) == IF kind \in {"conn", "timeout"} THEN "ha_error" ELSE "raw_error"

\* Mutation: no finally block.
M_Release(t) == pending' = pending

\* The finally block frees the slot in the table of the client the task used.
\* Only the current client's table is kept: an older one has no reader left.
Release(t) ==
    pending' = IF req[t][1] = epoch THEN pending \ {req[t][2]} ELSE pending

\* Task t leaves its request with result r.
Finish(t, r) ==
    /\ Release(t)
    /\ pc' = [pc EXCEPT ![t] = "idle"]
    /\ outcome' = [outcome EXCEPT ![t] = r]
    /\ UNCHANGED <<req, fut, expired, got>>

\* tunnel.send() raises: a TunnelError once close() has taken the writer away
\* (a sender that waited for the lock tests it again), ConnectionResetError
\* from drain() when the connection breaks under a writer that is still there.
SendError(t) == IF CanWrite(t) THEN "conn" ELSE "raw"

SendFails(c) ==
    /\ pc[c] = "sending"
    /\ Finish(c, Translate(SendError(c)))
    /\ UNCHANGED <<epoch, phase, listening, writer, seq, hubVars>>

\* Mutation: the wait is bounded only while the connection lives.
M_Timeout(t) ==
    /\ pc[t] = "waiting" /\ ~expired[t] /\ listening
    /\ expired' = [expired EXCEPT ![t] = TRUE]
    /\ fut' = [fut EXCEPT ![t] = IF @ = "pending" THEN "cancelled" ELSE @]
    /\ UNCHANGED <<clientVars, pc, req, got, outcome, hubVars>>

\* The wait_for timer fires.  A future that is already done keeps its value,
\* but the task is cancelled all the same and its result is not delivered.
Timeout(t) ==
    /\ pc[t] = "waiting"
    /\ ~expired[t]
    /\ expired' = [expired EXCEPT ![t] = TRUE]
    /\ fut' = [fut EXCEPT ![t] = IF @ = "pending" THEN "cancelled" ELSE @]
    /\ UNCHANGED <<clientVars, pc, req, got, outcome, hubVars>>

\* What a finished request means to its caller.  Only a write looks at the
\* result code; a read takes whatever came as its answer.
ResultOf(t, isWrite) ==
    IF expired[t] THEN Translate("timeout")
    ELSE IF fut[t] \in {"conn", "raw"} THEN Translate(fut[t])
    ELSE IF isWrite /\ got[t].code = "error" THEN "ha_error"
    ELSE "ok"

\* The caller runs again after its future is done or its timer has fired.
Resume(c) ==
    /\ pc[c] = "waiting"
    /\ fut[c] # "pending"
    /\ \E isWrite \in BOOLEAN : Finish(c, ResultOf(c, isWrite))
    /\ UNCHANGED <<epoch, phase, listening, writer, seq, hubVars>>

\* Home Assistant cancels the task that made the call.
CancelCall(c) ==
    /\ pc[c] # "idle"
    /\ Finish(c, "none")
    /\ UNCHANGED <<epoch, phase, listening, writer, seq, hubVars>>

----------------------------------------------------------------------------
(* The receive loop *)

\* The tasks whose future a frame with sequence number n resolves.
Matching(n) ==
    {t \in Tasks : /\ n \in pending
                   /\ pc[t] # "idle"
                   /\ req[t][1] = epoch /\ req[t][2] = n
                   /\ fut[t] = "pending"}

\* listen() takes one frame.  Whatever the frame is, if its seq belongs to a
\* pending future it is taken for that future's answer; otherwise it goes to
\* on_report / on_async, which do not touch this state.
Receive ==
    /\ listening
    /\ inbox # <<>>
    /\ inbox' = Tail(inbox)
    /\ LET f == Head(inbox)
           m == Matching(f.seq)
       IN /\ fut' = [t \in Tasks |-> IF t \in m THEN "result" ELSE fut[t]]
          /\ got' = [t \in Tasks |-> IF t \in m THEN f ELSE got[t]]
          /\ pending' = IF m = {} THEN pending ELSE pending \ {f.seq}
    /\ UNCHANGED <<epoch, phase, listening, writer, seq, pc, req, expired,
                   outcome, hub, issued, accepted>>

\* _fail_pending: every registered future that is not done gets the exception.
FailPending(kind) ==
    /\ fut' = [t \in Tasks |->
                 IF /\ pc[t] # "idle" /\ req[t][1] = epoch
                    /\ req[t][2] \in pending /\ fut[t] = "pending"
                 THEN kind ELSE fut[t]]
    /\ pending' = {}

\* listen() ends by itself: EOF, a frame that does not parse, or JSON that is
\* no object (receive() returns None, "conn"); a reset connection ("conn"); a
\* frame of another type or one that does not decrypt ("raw").  What was still
\* in flight is lost.
ListenEnds(kind) ==
    /\ listening
    /\ listening' = FALSE
    /\ FailPending(kind)
    /\ inbox' = <<>>
    /\ hub' = {}
    /\ UNCHANGED <<epoch, phase, writer, seq, pc, req, expired, got, outcome,
                   issued, accepted>>

----------------------------------------------------------------------------
(* The session: _run_session_once *)

\* A tunnel is connected: a new client, its listen task, and its checkin,
\* which is the client's first request.
OpenSession ==
    /\ phase = "down"
    /\ epoch < MaxEpoch
    /\ epoch' = epoch + 1
    /\ phase' = "checkin"
    /\ listening' = TRUE
    /\ writer' = TRUE
    /\ seq' = 1
    /\ pending' = {1}
    /\ Register(Checkin, <<epoch + 1, 1, 1>>)
    /\ issued' = 1
    /\ hub' = {}
    /\ inbox' = <<>>
    /\ UNCHANGED accepted

\* Mutation: a missing code counts as success, as it does for a write.
M_CodeAccepts(f) == f.code # "error"

\* The hub accepts a checkin with code 0; a missing code counts as -1.
CodeAccepts(f) == f.code = "zero"

CheckinOK ==
    /\ fut[Checkin] = "result"
    /\ ~expired[Checkin]
    /\ CodeAccepts(got[Checkin])

\* checkin() returned True: the session is up.
CheckinAccepted ==
    /\ phase = "checkin"
    /\ pc[Checkin] = "waiting"
    /\ CheckinOK
    /\ phase' = "up"
    /\ Finish(Checkin, "ok")
    /\ UNCHANGED <<epoch, listening, writer, seq, hubVars>>

\* Leaving the session: the finally block clears the event and the client and
\* cancels listen(), which then does not run its _fail_pending.
Leave ==
    /\ phase' = "ending"
    /\ listening' = FALSE
    /\ inbox' = <<>>
    /\ hub' = {}
    /\ UNCHANGED <<epoch, writer, seq, issued, accepted>>

\* checkin() failed: rejected, timed out, the connection broke, or the send
\* itself raised.
CheckinFails ==
    /\ phase = "checkin"
    /\ \/ pc[Checkin] = "sending"
       \/ pc[Checkin] = "waiting" /\ fut[Checkin] # "pending" /\ ~CheckinOK
    /\ Finish(Checkin, "none")
    /\ Leave

\* The run loop notices that its listen task has ended.
SessionEnds ==
    /\ phase = "up"
    /\ ~listening
    /\ Leave
    /\ UNCHANGED <<pending, taskVars>>

\* stop() cancels the run loop, wherever in the session it is.
StopSession ==
    /\ phase \in {"checkin", "up"}
    /\ IF phase = "checkin" THEN Finish(Checkin, "none")
                            ELSE UNCHANGED <<pending, taskVars>>
    /\ Leave

\* _close_tunnel: keepalive stopped, writer and session key gone.
CloseTunnel ==
    /\ phase = "ending"
    /\ phase' = "down"
    /\ writer' = FALSE
    /\ UNCHANGED <<epoch, listening, seq, pending, taskVars, hubVars>>

----------------------------------------------------------------------------
(* The hub (external) *)

\* The hub answers request r, with success or an error; it may also never
\* answer.  Accepting the first request of a session is accepting its checkin.
HubAnswer(r, code) ==
    /\ r \in hub
    /\ Len(inbox) < MaxInbox
    /\ hub' = hub \ {r}
    /\ inbox' = Append(inbox, [seq |-> r[2], code |-> code, to |-> r])
    /\ accepted' = IF r[3] = 1 /\ code = "zero" THEN accepted \cup {r[1]}
                                                ELSE accepted
    /\ UNCHANGED <<clientVars, taskVars, issued>>

\* The hub pushes a frame of its own: a report, a topology, the answer to a
\* keepalive (which the tunnel always sends with seq 1).  None has a code.
HubPush(n) ==
    /\ listening
    /\ Len(inbox) < MaxInbox
    /\ inbox' = Append(inbox, [seq |-> n, code |-> "absent", to |-> NoReq])
    /\ UNCHANGED <<clientVars, taskVars, hub, issued, accepted>>

----------------------------------------------------------------------------

Next ==
    \/ \E c \in Callers : \/ Call(c) \/ CallRefused(c) \/ SendFails(c)
                          \/ Resume(c) \/ CancelCall(c)
    \/ \E t \in Tasks : Sent(t) \/ Timeout(t)
    \/ Receive
    \/ \E kind \in {"conn", "raw"} : ListenEnds(kind)
    \/ OpenSession \/ CheckinAccepted \/ CheckinFails \/ SessionEnds
    \/ StopSession \/ CloseTunnel
    \/ \E r \in hub : \E code \in {"zero", "error"} : HubAnswer(r, code)
    \/ \E n \in PushSeqs : HubPush(n)

Spec == Init /\ [][Next]_vars

\* The event loop runs every callback that is ready: a send comes to an end,
\* the wait_for timer fires, a task whose future is done runs again.
Fairness ==
    /\ \A c \in Callers : /\ WF_vars(Sent(c) \/ SendFails(c))
                          /\ WF_vars(Timeout(c))
                          /\ WF_vars(Resume(c))

FairSpec == Spec /\ Fairness

----------------------------------------------------------------------------
(* Properties *)

\* InFlight(t): t has a request under way on the current client.
InFlight(t) == pc[t] # "idle" /\ req[t][1] = epoch

\* An answer of the hub only ever reaches the task whose request it answers:
\* not one that times out and asks again, not one of the next session, whose
\* client counts from 1 again (listen, session.py:219-233).
OwnReply ==
    \A t \in Tasks : got[t].to # NoReq => got[t].to = req[t]

\* The session is reported connected only when the hub accepted the checkin
\* of this very session; no push that happens to carry the checkin's sequence
\* number, as a keepalive answer does, stands in for it (session.py:160-172,
\* tunnel.py:479).
UpMeansAccepted == Connected => epoch \in accepted

\* The client's table: no unsettled future is missing from it (its answer
\* would be dropped), no exit path leaves a slot behind, and no two requests
\* share a slot (session.py:96-111).
PendingExact ==
    /\ \A t \in Tasks : InFlight(t) /\ fut[t] = "pending" => req[t][2] \in pending
    /\ \A n \in pending : \E t \in Tasks :
          InFlight(t) /\ req[t][2] = n /\ fut[t] \in {"pending", "cancelled"}
    /\ \A t, u \in Tasks : 
          InFlight(t) /\ InFlight(u) /\ req[t][2] = req[u][2] => t = u

\* When listen() ends by itself, every caller waiting on its client is woken
\* in that same step (session.py:236-248); only a caller that comes after that
\* has nobody left to answer it.
EofWakesWaiters ==
    [][listening /\ ~listening' /\ phase' = phase =>
        \A t \in Tasks : InFlight(t) => fut'[t] # "pending"]_vars

\* Every call comes back to its caller, whatever becomes of the session.
CallsSettle == \A c \in Callers : (pc[c] # "idle") ~> (pc[c] = "idle")

\* coordinator.py:322: transport failures reach the service call as
\* HomeAssistantError.
OnlyHomeAssistantErrors == \A c \in Callers : outcome[c] # "raw_error"

\* session.py:91-93: a caller gets a ConnectionError if the tunnel closes
\* while it is waiting, so none is left waiting on a closed tunnel.
NoneWaitsOnClosedTunnel ==
    \A c \in Callers : pc[c] = "waiting" /\ fut[c] = "pending" => CanWrite(c)
=============================================================================
