--------------------------- MODULE SessionProofs ---------------------------
(***************************************************************************)
(* Proofs about Session for any set of callers, any bounds and any         *)
(* sequence numbers the hub may put on its pushes.                         *)
(***************************************************************************)
EXTENDS Session, TLAPS

\* What is on its way from the hub belongs to the current session: requests
\* the hub holds, answers in flight, and success codes only on answers.
HubInv ==
    /\ \A r \in hub : r = <<epoch, r[2], r[2]>> /\ r[2] > 0
    /\ \A i \in 1..Len(inbox) :
          /\ inbox[i].to # NoReq =>
                inbox[i].to = <<epoch, inbox[i].seq, inbox[i].seq>>
          /\ inbox[i].code = "zero" =>
                /\ inbox[i].to # NoReq
                /\ inbox[i].seq = 1 => epoch \in accepted

\* A task that holds a success code for a checkin holds an accepted one.
GotInv ==
    \A t \in Tasks : got[t].code = "zero" =>
        /\ got[t].to # NoReq
        /\ got[t].to[3] = 1 => got[t].to[1] \in accepted

\* The run loop waits for its checkin exactly while the session is in that
\* phase, and its request is the first of the client.
CheckinInv ==
    /\ phase = "checkin" => pc[Checkin] # "idle" /\ req[Checkin] = <<epoch, 1, 1>>
    /\ phase # "checkin" => pc[Checkin] = "idle"

\* The client's counter counts its requests: sequence numbers start at 1, none
\* is given out twice, none is held before it is given out.
Numbered ==
    /\ seq = issued
    /\ \A t \in Tasks : req[t][1] <= epoch /\ req[t][2] = req[t][3]
    /\ \A t \in Tasks : InFlight(t) => 0 < req[t][2] /\ req[t][2] <= seq

IInv ==
    /\ TypeOK
    /\ HubInv
    /\ GotInv
    /\ CheckinInv
    /\ Numbered
    /\ OwnReply
    /\ UpMeansAccepted
    /\ PendingExact

----------------------------------------------------------------------------

\* The frame of an unanswered request is a frame.
LEMMA NoFrameType == NoReq \in Reqs /\ NoFrame \in Frames
BY DEF NoReq, NoFrame, Reqs, Frames, Codes

\* Registering a request keeps every task's record well typed.
LEMMA RegisterType ==
    ASSUME NEW t \in Tasks, NEW r \in Reqs, TaskTypeOK, Register(t, r)
    PROVE  TaskTypeOK'
BY NoFrameType DEF TaskTypeOK, Register, Futures, Outcomes

\* The type invariant is inductive by itself.
LEMMA TypePreserved ==
    ASSUME TypeOK, [Next]_vars
    PROVE  TypeOK'
<1> USE SessionAssumption DEF TypeOK, Tasks, Reqs, Frames, NoReq, NoFrame, Codes,
    Futures, Outcomes, clientVars, taskVars, hubVars
<1>1. ASSUME NEW c \in Callers, Call(c)
      PROVE  TypeOK'
  <2>1. ClientTypeOK'
    BY <1>1 DEF ClientTypeOK, TaskTypeOK, Call, Register, next_seq
  <2>2. TaskTypeOK'
    BY <1>1, RegisterType DEF ClientTypeOK, HubTypeOK, Call, next_seq
  <2>3. HubTypeOK'
    <3>1. issued' = issued + 1 /\ UNCHANGED <<hub, inbox, accepted>>
      BY <1>1 DEF Call
    <3> HIDE DEF Frames, Reqs
    <3>2. QED BY <3>1 DEF HubTypeOK
  <2>4. QED BY <2>1, <2>2, <2>3
<1>2. ASSUME NEW c \in Callers, CallRefused(c)
      PROVE  TypeOK'
  <2>1. ClientTypeOK'
    BY <1>2 DEF ClientTypeOK, TaskTypeOK, CallRefused
  <2>2. TaskTypeOK'
    BY <1>2 DEF TaskTypeOK, HubTypeOK, CallRefused
  <2>3. HubTypeOK'
    BY <1>2 DEF HubTypeOK, TaskTypeOK, ClientTypeOK, CallRefused
  <2>4. QED BY <2>1, <2>2, <2>3
<1>3. ASSUME NEW c \in Callers, SendFails(c)
      PROVE  TypeOK'
  <2>1. ClientTypeOK'
    BY <1>3 DEF ClientTypeOK, TaskTypeOK, SendFails, Finish, Release, Translate,
        SendError
  <2>2. TaskTypeOK'
    BY <1>3 DEF TaskTypeOK, HubTypeOK, SendFails, Finish, Release, Translate,
        SendError
  <2>3. HubTypeOK'
    BY <1>3 DEF HubTypeOK, TaskTypeOK, ClientTypeOK, SendFails, Finish, Release,
        Translate, SendError
  <2>4. QED BY <2>1, <2>2, <2>3
<1>4. ASSUME NEW c \in Callers, Resume(c)
      PROVE  TypeOK'
  <2>1. ClientTypeOK'
    BY <1>4 DEF ClientTypeOK, TaskTypeOK, Resume, Finish, Release, ResultOf,
        Translate
  <2>2. TaskTypeOK'
    <3>1. \A w \in BOOLEAN : ResultOf(c, w) \in Outcomes
      BY DEF ResultOf, Translate
    <3> HIDE DEF Reqs, Frames, Outcomes
    <3> QED BY <1>4, <3>1 DEF TaskTypeOK, Resume, Finish
  <2>3. HubTypeOK'
    BY <1>4 DEF HubTypeOK, TaskTypeOK, ClientTypeOK, Resume, Finish, Release,
        ResultOf, Translate
  <2>4. QED BY <2>1, <2>2, <2>3
<1>5. ASSUME NEW c \in Callers, CancelCall(c)
      PROVE  TypeOK'
  <2>1. ClientTypeOK'
    BY <1>5 DEF ClientTypeOK, TaskTypeOK, CancelCall, Finish, Release
  <2>2. TaskTypeOK'
    BY <1>5 DEF TaskTypeOK, HubTypeOK, CancelCall, Finish, Release
  <2>3. HubTypeOK'
    BY <1>5 DEF HubTypeOK, TaskTypeOK, ClientTypeOK, CancelCall, Finish, Release
  <2>4. QED BY <2>1, <2>2, <2>3
<1>6. ASSUME NEW t \in Tasks, Sent(t)
      PROVE  TypeOK'
  <2>1. ClientTypeOK'
    BY <1>6 DEF ClientTypeOK, TaskTypeOK, Sent, CanWrite
  <2>2. TaskTypeOK'
    BY <1>6 DEF TaskTypeOK, HubTypeOK, Sent, CanWrite
  <2>3. HubTypeOK'
    <3>1. /\ hub' \in {hub, hub \cup {req[t]}}
          /\ UNCHANGED <<inbox, issued, accepted>>
      BY <1>6 DEF Sent
    <3>2. req[t] \in Reqs
      BY <1>6 DEF TaskTypeOK
    <3> HIDE DEF Frames, Reqs
    <3>3. QED BY <3>1, <3>2 DEF HubTypeOK
  <2>4. QED BY <2>1, <2>2, <2>3
<1>7. ASSUME NEW t \in Tasks, Timeout(t)
      PROVE  TypeOK'
  <2>1. ClientTypeOK'
    BY <1>7 DEF ClientTypeOK, TaskTypeOK, Timeout
  <2>2. TaskTypeOK'
    BY <1>7 DEF TaskTypeOK, HubTypeOK, Timeout
  <2>3. HubTypeOK'
    BY <1>7 DEF HubTypeOK, TaskTypeOK, ClientTypeOK, Timeout
  <2>4. QED BY <2>1, <2>2, <2>3
<1>8. CASE Receive
  <2>1. ClientTypeOK'
    BY <1>8 DEF ClientTypeOK, TaskTypeOK, Receive, Matching
  <2>0. Head(inbox) \in Frames
    <3> HIDE DEF Frames
    <3> QED BY <1>8 DEF HubTypeOK, Receive
  <2>2. TaskTypeOK'
    BY <1>8, <2>0 DEF TaskTypeOK, Receive
  <2>3. HubTypeOK'
    <3>1. /\ inbox # <<>>
          /\ inbox' = Tail(inbox)
          /\ UNCHANGED <<hub, issued, accepted>>
      BY <1>8 DEF Receive
    <3> HIDE DEF Frames, Reqs
    <3>2. QED BY <3>1 DEF HubTypeOK
  <2>4. QED BY <2>1, <2>2, <2>3
<1>9. ASSUME NEW kind \in {"conn", "raw"}, ListenEnds(kind)
      PROVE  TypeOK'
  <2>1. ClientTypeOK'
    BY <1>9 DEF ClientTypeOK, TaskTypeOK, ListenEnds, FailPending
  <2>2. TaskTypeOK'
    BY <1>9 DEF TaskTypeOK, HubTypeOK, ListenEnds, FailPending
  <2>3. HubTypeOK'
    BY <1>9 DEF HubTypeOK, TaskTypeOK, ClientTypeOK, ListenEnds, FailPending
  <2>4. QED BY <2>1, <2>2, <2>3
<1>10. CASE OpenSession
  <2>1. ClientTypeOK'
    BY <1>10 DEF ClientTypeOK, TaskTypeOK, OpenSession, Register
  <2>2. TaskTypeOK'
    BY <1>10, RegisterType DEF ClientTypeOK, OpenSession
  <2>3. HubTypeOK'
    BY <1>10 DEF HubTypeOK, TaskTypeOK, ClientTypeOK, OpenSession, Register
  <2>4. QED BY <2>1, <2>2, <2>3
<1>11. CASE CheckinAccepted
  <2>1. ClientTypeOK'
    BY <1>11 DEF ClientTypeOK, TaskTypeOK, CheckinAccepted, CheckinOK,
        CodeAccepts, Finish, Release
  <2>2. TaskTypeOK'
    BY <1>11 DEF TaskTypeOK, HubTypeOK, CheckinAccepted, CheckinOK, CodeAccepts,
        Finish, Release
  <2>3. HubTypeOK'
    BY <1>11 DEF HubTypeOK, TaskTypeOK, ClientTypeOK, CheckinAccepted, CheckinOK,
        CodeAccepts, Finish, Release
  <2>4. QED BY <2>1, <2>2, <2>3
<1>12. CASE CheckinFails
  <2>1. ClientTypeOK'
    BY <1>12 DEF ClientTypeOK, TaskTypeOK, CheckinFails, Finish, Release, Leave
  <2>2. TaskTypeOK'
    BY <1>12 DEF TaskTypeOK, HubTypeOK, CheckinFails, Finish, Release, Leave
  <2>3. HubTypeOK'
    BY <1>12 DEF HubTypeOK, TaskTypeOK, ClientTypeOK, CheckinFails, Finish,
        Release, Leave
  <2>4. QED BY <2>1, <2>2, <2>3
<1>13. CASE SessionEnds
  <2>1. ClientTypeOK'
    BY <1>13 DEF ClientTypeOK, TaskTypeOK, SessionEnds, Leave
  <2>2. TaskTypeOK'
    BY <1>13 DEF TaskTypeOK, HubTypeOK, SessionEnds, Leave
  <2>3. HubTypeOK'
    BY <1>13 DEF HubTypeOK, TaskTypeOK, ClientTypeOK, SessionEnds, Leave
  <2>4. QED BY <2>1, <2>2, <2>3
<1>14. CASE StopSession
  <2>1. ClientTypeOK'
    BY <1>14 DEF ClientTypeOK, TaskTypeOK, StopSession, Finish, Release, Leave
  <2>2. TaskTypeOK'
    BY <1>14 DEF TaskTypeOK, HubTypeOK, StopSession, Finish, Release, Leave
  <2>3. HubTypeOK'
    BY <1>14 DEF HubTypeOK, TaskTypeOK, ClientTypeOK, StopSession, Finish,
        Release, Leave
  <2>4. QED BY <2>1, <2>2, <2>3
<1>15. CASE CloseTunnel
  <2>1. ClientTypeOK'
    BY <1>15 DEF ClientTypeOK, TaskTypeOK, CloseTunnel
  <2>2. TaskTypeOK'
    BY <1>15 DEF TaskTypeOK, HubTypeOK, CloseTunnel
  <2>3. HubTypeOK'
    BY <1>15 DEF HubTypeOK, TaskTypeOK, ClientTypeOK, CloseTunnel
  <2>4. QED BY <2>1, <2>2, <2>3
<1>16. ASSUME NEW r \in hub, NEW code \in {"zero", "error"}, HubAnswer(r, code)
      PROVE  TypeOK'
  <2>1. ClientTypeOK'
    BY <1>16 DEF ClientTypeOK, TaskTypeOK, HubAnswer
  <2>2. TaskTypeOK'
    BY <1>16 DEF TaskTypeOK, HubTypeOK, HubAnswer
  <2>0. /\ r \in Reqs
        /\ [seq |-> r[2], code |-> code, to |-> r] \in Frames
    BY DEF HubTypeOK
  <2>3. HubTypeOK'
    <3>1. inbox' \in Seq(Frames)
      <4> DEFINE f == [seq |-> r[2], code |-> code, to |-> r]
      <4>1. inbox \in Seq(Frames) /\ f \in Frames /\ inbox' = Append(inbox, f)
        BY <1>16, <2>0 DEF HubTypeOK, HubAnswer
      <4> HIDE DEF Frames, f
      <4> QED BY <4>1
    <3>2. hub' \subseteq Reqs /\ accepted' \subseteq Nat /\ issued' \in Nat
      BY <1>16, <2>0 DEF HubTypeOK, HubAnswer
    <3> QED BY <3>1, <3>2 DEF HubTypeOK
  <2>4. QED BY <2>1, <2>2, <2>3
<1>17. ASSUME NEW n \in PushSeqs, HubPush(n)
      PROVE  TypeOK'
  <2>1. ClientTypeOK'
    BY <1>17 DEF ClientTypeOK, TaskTypeOK, HubPush
  <2>2. TaskTypeOK'
    BY <1>17 DEF TaskTypeOK, HubTypeOK, HubPush
  <2>3. HubTypeOK'
    <3> DEFINE push == [seq |-> n, code |-> "absent", to |-> NoReq]
    <3>1. inbox' = Append(inbox, push) /\ UNCHANGED <<hub, issued, accepted>>
      BY <1>17 DEF HubPush
    <3>2. push \in Frames
      OBVIOUS
    <3> HIDE DEF push, Frames, Reqs
    <3>3. QED BY <3>1, <3>2 DEF HubTypeOK
  <2>4. QED BY <2>1, <2>2, <2>3
<1>18. CASE UNCHANGED vars
  BY <1>18 DEF vars, ClientTypeOK, TaskTypeOK, HubTypeOK
<1>19. QED
  BY <1>1, <1>2, <1>3, <1>4, <1>5, <1>6, <1>7, <1>8, <1>9, <1>10,
     <1>11, <1>12, <1>13, <1>14, <1>15, <1>16, <1>17, <1>18 DEF Next

\* The first frame in flight is a frame of this session.
LEMMA HeadFrame ==
    ASSUME HubTypeOK, HubInv, inbox # <<>>
    PROVE  LET f == Head(inbox)
           IN  /\ f \in Frames
               /\ f.to # NoReq => f.to = <<epoch, f.seq, f.seq>>
               /\ f.code = "zero" =>
                     /\ f.to # NoReq
                     /\ f.seq = 1 => epoch \in accepted
<1>1. Len(inbox) \in Nat /\ Len(inbox) >= 1 /\ Head(inbox) = inbox[1]
      /\ inbox[1] \in Frames
  <2> HIDE DEF Frames
  <2> QED BY DEF HubTypeOK
<1>2. QED
  BY <1>1 DEF HubInv

\* A task that leaves its request and frees its slot keeps the table exact.
LEMMA ReleaseKeepsPending ==
    ASSUME NEW t \in Tasks, TypeOK, PendingExact, pc[t] # "idle", Release(t),
           pc' = [pc EXCEPT ![t] = "idle"], UNCHANGED <<epoch, req, fut>>
    PROVE  PendingExact'
<1> USE DEF TypeOK, TaskTypeOK, PendingExact, InFlight
<1>1. \A u \in Tasks \ {t} : InFlight(t) /\ InFlight(u) => req[u][2] # req[t][2]
  OBVIOUS
<1>2. \A u \in Tasks : InFlight(u)' => u # t /\ InFlight(u)
  OBVIOUS
<1>3. \A u \in Tasks : InFlight(u)' /\ fut'[u] = "pending" => req'[u][2] \in pending'
  BY <1>1, <1>2 DEF Release
<1>4. \A n \in pending' : \E u \in Tasks :
         InFlight(u)' /\ req'[u][2] = n /\ fut'[u] \in {"pending", "cancelled"}
  <2> SUFFICES ASSUME NEW n \in pending'
               PROVE  \E u \in Tasks : InFlight(u)' /\ req'[u][2] = n
                                       /\ fut'[u] \in {"pending", "cancelled"}
    OBVIOUS
  <2>1. PICK u \in Tasks : InFlight(u) /\ req[u][2] = n
                            /\ fut[u] \in {"pending", "cancelled"}
    BY DEF Release
  <2>2. u # t
    BY <2>1 DEF Release
  <2> QED BY <2>1, <2>2
<1>5. \A u, v \in Tasks : InFlight(u)' /\ InFlight(v)' /\ req'[u][2] = req'[v][2] => u = v
  BY <1>2
<1> QED BY <1>3, <1>4, <1>5

\* Only Receive gives a future a frame, and it gives it to the task whose
\* request has that frame's number.
LEMMA OwnReplyPreserved ==
    ASSUME IInv, [Next]_vars
    PROVE  OwnReply'
<1> USE SessionAssumption DEF IInv, OwnReply, Numbered, InFlight, TypeOK,
    ClientTypeOK, TaskTypeOK, HubTypeOK, Tasks, NoReq, NoFrame, clientVars,
    taskVars, hubVars
<1>1. ASSUME NEW c \in Callers, Call(c)
      PROVE  OwnReply'
  BY <1>1 DEF Call, Register, next_seq
<1>2. ASSUME NEW c \in Callers, CallRefused(c)
      PROVE  OwnReply'
  BY <1>2 DEF CallRefused
<1>3. ASSUME NEW c \in Callers, SendFails(c)
      PROVE  OwnReply'
  BY <1>3 DEF SendFails, Finish, Release, Translate, SendError
<1>4. ASSUME NEW c \in Callers, Resume(c)
      PROVE  OwnReply'
  BY <1>4 DEF Resume, Finish, Release, ResultOf, Translate
<1>5. ASSUME NEW c \in Callers, CancelCall(c)
      PROVE  OwnReply'
  BY <1>5 DEF CancelCall, Finish, Release
<1>6. ASSUME NEW t \in Tasks, Sent(t)
      PROVE  OwnReply'
  BY <1>6 DEF Sent, CanWrite
<1>7. ASSUME NEW t \in Tasks, Timeout(t)
      PROVE  OwnReply'
  BY <1>7 DEF Timeout
<1>8. CASE Receive
  <2> DEFINE f == Head(inbox)
             m == Matching(f.seq)
  <2>1. /\ UNCHANGED <<epoch, req, accepted>>
        /\ \A t \in Tasks : got'[t] = IF t \in m THEN f ELSE got[t]
    BY <1>8 DEF Receive
  <2>2. \A t \in m : req[t] = <<epoch, f.seq, f.seq>>
    BY DEF Matching, Reqs
  <2>3. /\ f.to # NoReq => f.to = <<epoch, f.seq, f.seq>>
        /\ f.code = "zero" => /\ f.to # NoReq
                              /\ f.seq = 1 => epoch \in accepted
    BY <1>8, HeadFrame DEF Receive
  <2> HIDE DEF m, f
  <2> QED BY <2>1, <2>2, <2>3
<1>9. ASSUME NEW kind \in {"conn", "raw"}, ListenEnds(kind)
      PROVE  OwnReply'
  BY <1>9 DEF ListenEnds, FailPending
<1>10. CASE OpenSession
  BY <1>10 DEF OpenSession, Register
<1>11. CASE CheckinAccepted
  BY <1>11 DEF CheckinAccepted, CheckinOK, CodeAccepts, Finish, Release
<1>12. CASE CheckinFails
  BY <1>12 DEF CheckinFails, Finish, Release, Leave
<1>13. CASE SessionEnds
  BY <1>13 DEF SessionEnds, Leave
<1>14. CASE StopSession
  BY <1>14 DEF StopSession, Finish, Release, Leave
<1>15. CASE CloseTunnel
  BY <1>15 DEF CloseTunnel
<1>16. ASSUME NEW r \in hub, NEW code \in {"zero", "error"}, HubAnswer(r, code)
      PROVE  OwnReply'
  BY <1>16 DEF HubAnswer
<1>17. ASSUME NEW n \in PushSeqs, HubPush(n)
      PROVE  OwnReply'
  BY <1>17 DEF HubPush
<1>18. CASE UNCHANGED vars
  BY <1>18 DEF vars
<1>19. QED
  BY <1>1, <1>2, <1>3, <1>4, <1>5, <1>6, <1>7, <1>8, <1>9, <1>10,
     <1>11, <1>12, <1>13, <1>14, <1>15, <1>16, <1>17, <1>18 DEF Next

\* What the hub has in hand or in flight stays with the session it belongs to.
LEMMA HubInvPreserved ==
    ASSUME IInv, [Next]_vars
    PROVE  HubInv'
<1> USE SessionAssumption DEF IInv, HubInv, TypeOK, ClientTypeOK, TaskTypeOK,
    HubTypeOK, Tasks, NoReq, NoFrame, clientVars, taskVars, hubVars
<1>1. ASSUME NEW c \in Callers, Call(c)
      PROVE  HubInv'
  BY <1>1 DEF Call, Register, next_seq
<1>2. ASSUME NEW c \in Callers, CallRefused(c)
      PROVE  HubInv'
  BY <1>2 DEF CallRefused
<1>3. ASSUME NEW c \in Callers, SendFails(c)
      PROVE  HubInv'
  BY <1>3 DEF SendFails, Finish, Release, Translate, SendError
<1>4. ASSUME NEW c \in Callers, Resume(c)
      PROVE  HubInv'
  BY <1>4 DEF Resume, Finish, Release, ResultOf, Translate
<1>5. ASSUME NEW c \in Callers, CancelCall(c)
      PROVE  HubInv'
  BY <1>5 DEF CancelCall, Finish, Release
<1>6. ASSUME NEW t \in Tasks, Sent(t)
      PROVE  HubInv'
  <2>1. req[t] = <<epoch, req[t][2], req[t][2]>> /\ 0 < req[t][2]
    BY <1>6 DEF Sent, CanWrite, Numbered, InFlight, Reqs
  <2> QED BY <1>6, <2>1 DEF Sent
<1>7. ASSUME NEW t \in Tasks, Timeout(t)
      PROVE  HubInv'
  BY <1>7 DEF Timeout
<1>8. CASE Receive
  BY <1>8 DEF Receive, Matching
<1>9. ASSUME NEW kind \in {"conn", "raw"}, ListenEnds(kind)
      PROVE  HubInv'
  BY <1>9 DEF ListenEnds, FailPending
<1>10. CASE OpenSession
  BY <1>10 DEF OpenSession, Register
<1>11. CASE CheckinAccepted
  BY <1>11 DEF CheckinAccepted, CheckinOK, CodeAccepts, Finish, Release
<1>12. CASE CheckinFails
  BY <1>12 DEF CheckinFails, Finish, Release, Leave
<1>13. CASE SessionEnds
  BY <1>13 DEF SessionEnds, Leave
<1>14. CASE StopSession
  BY <1>14 DEF StopSession, Finish, Release, Leave
<1>15. CASE CloseTunnel
  BY <1>15 DEF CloseTunnel
<1>16. ASSUME NEW r \in hub, NEW code \in {"zero", "error"}, HubAnswer(r, code)
      PROVE  HubInv'
  <2> DEFINE f == [seq |-> r[2], code |-> code, to |-> r]
  <2>1. /\ UNCHANGED epoch
        /\ hub' \subseteq hub
        /\ accepted \subseteq accepted'
        /\ code = "zero" /\ r[3] = 1 => epoch \in accepted'
        /\ inbox' = Append(inbox, f)
    BY <1>16 DEF HubAnswer
  <2>2. /\ f \in Frames
        /\ f.to = <<epoch, f.seq, f.seq>>
        /\ f.to # NoReq
    BY DEF Frames, Reqs, Codes
  <2>3. /\ \A i \in 1..Len(inbox) : inbox'[i] = inbox[i]
        /\ inbox'[Len(inbox) + 1] = f
        /\ Len(inbox') = Len(inbox) + 1
        /\ Len(inbox) \in Nat
    <3> HIDE DEF Frames, f
    <3> QED BY <2>1, <2>2
  <2> HIDE DEF f
  <2>4. ASSUME NEW i \in 1..Len(inbox')
        PROVE  /\ inbox'[i].to # NoReq => inbox'[i].to = <<epoch', inbox'[i].seq, inbox'[i].seq>>
               /\ inbox'[i].code = "zero" =>
                     /\ inbox'[i].to # NoReq
                     /\ inbox'[i].seq = 1 => epoch' \in accepted'
    <3>1. CASE i = Len(inbox) + 1
      <4>1. f.code = code /\ f.seq = r[3]
        BY DEF f
      <4> QED BY <2>1, <2>2, <2>3, <3>1, <4>1
    <3>2. CASE i # Len(inbox) + 1
      <4>1. i \in 1..Len(inbox)
        BY <2>3, <3>2
      <4> QED BY <2>1, <2>3, <4>1
    <3> QED BY <3>1, <3>2
  <2> QED BY <2>1, <2>4
<1>17. ASSUME NEW n \in PushSeqs, HubPush(n)
      PROVE  HubInv'
  BY <1>17 DEF HubPush
<1>18. CASE UNCHANGED vars
  BY <1>18 DEF vars
<1>19. QED
  BY <1>1, <1>2, <1>3, <1>4, <1>5, <1>6, <1>7, <1>8, <1>9, <1>10,
     <1>11, <1>12, <1>13, <1>14, <1>15, <1>16, <1>17, <1>18 DEF Next

\* A success code for a checkin comes from an accepted checkin.
LEMMA GotInvPreserved ==
    ASSUME IInv, [Next]_vars
    PROVE  GotInv'
<1> USE SessionAssumption DEF IInv, GotInv, OwnReply, Numbered, InFlight, TypeOK,
    ClientTypeOK, TaskTypeOK, HubTypeOK, Tasks, NoReq, NoFrame, clientVars,
    taskVars, hubVars
<1>1. ASSUME NEW c \in Callers, Call(c)
      PROVE  GotInv'
  BY <1>1 DEF Call, Register, next_seq
<1>2. ASSUME NEW c \in Callers, CallRefused(c)
      PROVE  GotInv'
  BY <1>2 DEF CallRefused
<1>3. ASSUME NEW c \in Callers, SendFails(c)
      PROVE  GotInv'
  BY <1>3 DEF SendFails, Finish, Release, Translate, SendError
<1>4. ASSUME NEW c \in Callers, Resume(c)
      PROVE  GotInv'
  BY <1>4 DEF Resume, Finish, Release, ResultOf, Translate
<1>5. ASSUME NEW c \in Callers, CancelCall(c)
      PROVE  GotInv'
  BY <1>5 DEF CancelCall, Finish, Release
<1>6. ASSUME NEW t \in Tasks, Sent(t)
      PROVE  GotInv'
  BY <1>6 DEF Sent, CanWrite
<1>7. ASSUME NEW t \in Tasks, Timeout(t)
      PROVE  GotInv'
  BY <1>7 DEF Timeout
<1>8. CASE Receive
  <2> DEFINE f == Head(inbox)
             m == Matching(f.seq)
  <2>1. /\ UNCHANGED <<epoch, req, accepted>>
        /\ \A t \in Tasks : got'[t] = IF t \in m THEN f ELSE got[t]
    BY <1>8 DEF Receive
  <2>2. \A t \in m : req[t] = <<epoch, f.seq, f.seq>>
    BY DEF Matching, Reqs
  <2>3. /\ f.to # NoReq => f.to = <<epoch, f.seq, f.seq>>
        /\ f.code = "zero" => /\ f.to # NoReq
                              /\ f.seq = 1 => epoch \in accepted
    BY <1>8, HeadFrame DEF Receive
  <2> HIDE DEF m, f
  <2> QED BY <2>1, <2>2, <2>3
<1>9. ASSUME NEW kind \in {"conn", "raw"}, ListenEnds(kind)
      PROVE  GotInv'
  BY <1>9 DEF ListenEnds, FailPending
<1>10. CASE OpenSession
  BY <1>10 DEF OpenSession, Register
<1>11. CASE CheckinAccepted
  BY <1>11 DEF CheckinAccepted, CheckinOK, CodeAccepts, Finish, Release
<1>12. CASE CheckinFails
  BY <1>12 DEF CheckinFails, Finish, Release, Leave
<1>13. CASE SessionEnds
  BY <1>13 DEF SessionEnds, Leave
<1>14. CASE StopSession
  BY <1>14 DEF StopSession, Finish, Release, Leave
<1>15. CASE CloseTunnel
  BY <1>15 DEF CloseTunnel
<1>16. ASSUME NEW r \in hub, NEW code \in {"zero", "error"}, HubAnswer(r, code)
      PROVE  GotInv'
  BY <1>16 DEF HubAnswer
<1>17. ASSUME NEW n \in PushSeqs, HubPush(n)
      PROVE  GotInv'
  BY <1>17 DEF HubPush
<1>18. CASE UNCHANGED vars
  BY <1>18 DEF vars
<1>19. QED
  BY <1>1, <1>2, <1>3, <1>4, <1>5, <1>6, <1>7, <1>8, <1>9, <1>10,
     <1>11, <1>12, <1>13, <1>14, <1>15, <1>16, <1>17, <1>18 DEF Next

\* The checkin's place in the session.
LEMMA CheckinInvPreserved ==
    ASSUME IInv, [Next]_vars
    PROVE  CheckinInv'
<1> USE SessionAssumption DEF IInv, CheckinInv, TypeOK, ClientTypeOK, TaskTypeOK,
    HubTypeOK, Tasks, NoReq, NoFrame, clientVars, taskVars, hubVars
<1>1. ASSUME NEW c \in Callers, Call(c)
      PROVE  CheckinInv'
  BY <1>1 DEF Call, Register, next_seq
<1>2. ASSUME NEW c \in Callers, CallRefused(c)
      PROVE  CheckinInv'
  BY <1>2 DEF CallRefused
<1>3. ASSUME NEW c \in Callers, SendFails(c)
      PROVE  CheckinInv'
  BY <1>3 DEF SendFails, Finish, Release, Translate, SendError
<1>4. ASSUME NEW c \in Callers, Resume(c)
      PROVE  CheckinInv'
  BY <1>4 DEF Resume, Finish, Release, ResultOf, Translate
<1>5. ASSUME NEW c \in Callers, CancelCall(c)
      PROVE  CheckinInv'
  BY <1>5 DEF CancelCall, Finish, Release
<1>6. ASSUME NEW t \in Tasks, Sent(t)
      PROVE  CheckinInv'
  BY <1>6 DEF Sent, CanWrite
<1>7. ASSUME NEW t \in Tasks, Timeout(t)
      PROVE  CheckinInv'
  BY <1>7 DEF Timeout
<1>8. CASE Receive
  BY <1>8 DEF Receive, Matching
<1>9. ASSUME NEW kind \in {"conn", "raw"}, ListenEnds(kind)
      PROVE  CheckinInv'
  BY <1>9 DEF ListenEnds, FailPending
<1>10. CASE OpenSession
  BY <1>10 DEF OpenSession, Register
<1>11. CASE CheckinAccepted
  BY <1>11 DEF CheckinAccepted, CheckinOK, CodeAccepts, Finish, Release
<1>12. CASE CheckinFails
  BY <1>12 DEF CheckinFails, Finish, Release, Leave
<1>13. CASE SessionEnds
  BY <1>13 DEF SessionEnds, Leave
<1>14. CASE StopSession
  BY <1>14 DEF StopSession, Finish, Release, Leave
<1>15. CASE CloseTunnel
  BY <1>15 DEF CloseTunnel
<1>16. ASSUME NEW r \in hub, NEW code \in {"zero", "error"}, HubAnswer(r, code)
      PROVE  CheckinInv'
  BY <1>16 DEF HubAnswer
<1>17. ASSUME NEW n \in PushSeqs, HubPush(n)
      PROVE  CheckinInv'
  BY <1>17 DEF HubPush
<1>18. CASE UNCHANGED vars
  BY <1>18 DEF vars
<1>19. QED
  BY <1>1, <1>2, <1>3, <1>4, <1>5, <1>6, <1>7, <1>8, <1>9, <1>10,
     <1>11, <1>12, <1>13, <1>14, <1>15, <1>16, <1>17, <1>18 DEF Next

\* Requests never carry a number that is not yet given out.
LEMMA NumberedPreserved ==
    ASSUME IInv, [Next]_vars
    PROVE  Numbered'
<1> USE SessionAssumption DEF IInv, Numbered, InFlight, TypeOK, ClientTypeOK,
    TaskTypeOK, HubTypeOK, Tasks, NoReq, NoFrame, clientVars, taskVars, hubVars
<1>1. ASSUME NEW c \in Callers, Call(c)
      PROVE  Numbered'
  <2>1. /\ UNCHANGED epoch
        /\ seq' = seq + 1 /\ issued' = seq'
        /\ \A t \in Tasks : req'[t] = IF t = c THEN <<epoch, seq + 1, seq + 1>> ELSE req[t]
        /\ \A t \in Tasks \ {c} : pc'[t] = pc[t]
    BY <1>1 DEF Call, Register, next_seq
  <2>2. \A t \in Tasks : req[t][1] \in Nat /\ req[t][2] \in Nat
    BY DEF Reqs
  <2>3. \A t \in Tasks : req'[t][1] <= epoch' /\ req'[t][2] = req'[t][3]
    BY <2>1, <2>2
  <2>4. ASSUME NEW t \in Tasks, InFlight(t)'
        PROVE  0 < req'[t][2] /\ req'[t][2] <= seq'
    <3>1. CASE t = c
      BY <2>1, <3>1
    <3>2. CASE t # c
      BY <2>1, <2>2, <2>4, <3>2
    <3> QED BY <3>1, <3>2
  <2> QED BY <2>1, <2>3, <2>4
<1>2. ASSUME NEW c \in Callers, CallRefused(c)
      PROVE  Numbered'
  BY <1>2 DEF CallRefused
<1>3. ASSUME NEW c \in Callers, SendFails(c)
      PROVE  Numbered'
  BY <1>3 DEF SendFails, Finish, Release, Translate, SendError
<1>4. ASSUME NEW c \in Callers, Resume(c)
      PROVE  Numbered'
  BY <1>4 DEF Resume, Finish, Release, ResultOf, Translate
<1>5. ASSUME NEW c \in Callers, CancelCall(c)
      PROVE  Numbered'
  BY <1>5 DEF CancelCall, Finish, Release
<1>6. ASSUME NEW t \in Tasks, Sent(t)
      PROVE  Numbered'
  BY <1>6 DEF Sent, CanWrite
<1>7. ASSUME NEW t \in Tasks, Timeout(t)
      PROVE  Numbered'
  BY <1>7 DEF Timeout
<1>8. CASE Receive
  BY <1>8 DEF Receive, Matching
<1>9. ASSUME NEW kind \in {"conn", "raw"}, ListenEnds(kind)
      PROVE  Numbered'
  BY <1>9 DEF ListenEnds, FailPending
<1>10. CASE OpenSession
  <2>1. /\ epoch' = epoch + 1
        /\ seq' = 1 /\ issued' = 1
        /\ \A t \in Tasks : req'[t] = IF t = Checkin THEN <<epoch + 1, 1, 1>> ELSE req[t]
    BY <1>10 DEF OpenSession, Register
  <2>2. \A t \in Tasks : req[t][1] \in Nat /\ req[t][2] \in Nat
    BY DEF Reqs
  <2> QED BY <2>1, <2>2
<1>11. CASE CheckinAccepted
  BY <1>11 DEF CheckinAccepted, CheckinOK, CodeAccepts, Finish, Release
<1>12. CASE CheckinFails
  BY <1>12 DEF CheckinFails, Finish, Release, Leave
<1>13. CASE SessionEnds
  BY <1>13 DEF SessionEnds, Leave
<1>14. CASE StopSession
  BY <1>14 DEF StopSession, Finish, Release, Leave
<1>15. CASE CloseTunnel
  BY <1>15 DEF CloseTunnel
<1>16. ASSUME NEW r \in hub, NEW code \in {"zero", "error"}, HubAnswer(r, code)
      PROVE  Numbered'
  BY <1>16 DEF HubAnswer
<1>17. ASSUME NEW n \in PushSeqs, HubPush(n)
      PROVE  Numbered'
  BY <1>17 DEF HubPush
<1>18. CASE UNCHANGED vars
  BY <1>18 DEF vars
<1>19. QED
  BY <1>1, <1>2, <1>3, <1>4, <1>5, <1>6, <1>7, <1>8, <1>9, <1>10,
     <1>11, <1>12, <1>13, <1>14, <1>15, <1>16, <1>17, <1>18 DEF Next

\* The session comes up only on a success code for its own checkin.
LEMMA UpPreserved ==
    ASSUME IInv, [Next]_vars
    PROVE  UpMeansAccepted'
<1> USE SessionAssumption DEF IInv, UpMeansAccepted, Connected, CheckinInv,
    GotInv, OwnReply, TypeOK, ClientTypeOK, TaskTypeOK, HubTypeOK, Tasks, NoReq,
    NoFrame, clientVars, taskVars, hubVars
<1>1. ASSUME NEW c \in Callers, Call(c)
      PROVE  UpMeansAccepted'
  BY <1>1 DEF Call, Register, next_seq
<1>2. ASSUME NEW c \in Callers, CallRefused(c)
      PROVE  UpMeansAccepted'
  BY <1>2 DEF CallRefused
<1>3. ASSUME NEW c \in Callers, SendFails(c)
      PROVE  UpMeansAccepted'
  BY <1>3 DEF SendFails, Finish, Release, Translate, SendError
<1>4. ASSUME NEW c \in Callers, Resume(c)
      PROVE  UpMeansAccepted'
  BY <1>4 DEF Resume, Finish, Release, ResultOf, Translate
<1>5. ASSUME NEW c \in Callers, CancelCall(c)
      PROVE  UpMeansAccepted'
  BY <1>5 DEF CancelCall, Finish, Release
<1>6. ASSUME NEW t \in Tasks, Sent(t)
      PROVE  UpMeansAccepted'
  BY <1>6 DEF Sent, CanWrite
<1>7. ASSUME NEW t \in Tasks, Timeout(t)
      PROVE  UpMeansAccepted'
  BY <1>7 DEF Timeout
<1>8. CASE Receive
  BY <1>8 DEF Receive, Matching
<1>9. ASSUME NEW kind \in {"conn", "raw"}, ListenEnds(kind)
      PROVE  UpMeansAccepted'
  BY <1>9 DEF ListenEnds, FailPending
<1>10. CASE OpenSession
  BY <1>10 DEF OpenSession, Register
<1>11. CASE CheckinAccepted
  BY <1>11 DEF CheckinAccepted, CheckinOK, CodeAccepts, Finish, Release
<1>12. CASE CheckinFails
  BY <1>12 DEF CheckinFails, Finish, Release, Leave
<1>13. CASE SessionEnds
  BY <1>13 DEF SessionEnds, Leave
<1>14. CASE StopSession
  BY <1>14 DEF StopSession, Finish, Release, Leave
<1>15. CASE CloseTunnel
  BY <1>15 DEF CloseTunnel
<1>16. ASSUME NEW r \in hub, NEW code \in {"zero", "error"}, HubAnswer(r, code)
      PROVE  UpMeansAccepted'
  BY <1>16 DEF HubAnswer
<1>17. ASSUME NEW n \in PushSeqs, HubPush(n)
      PROVE  UpMeansAccepted'
  BY <1>17 DEF HubPush
<1>18. CASE UNCHANGED vars
  BY <1>18 DEF vars
<1>19. QED
  BY <1>1, <1>2, <1>3, <1>4, <1>5, <1>6, <1>7, <1>8, <1>9, <1>10,
     <1>11, <1>12, <1>13, <1>14, <1>15, <1>16, <1>17, <1>18 DEF Next

\* Slots are taken by Register and freed by whoever settles the future.
LEMMA PendingPreserved ==
    ASSUME IInv, [Next]_vars
    PROVE  PendingExact'
<1> USE SessionAssumption DEF IInv, PendingExact, InFlight, Numbered, CheckinInv,
    TypeOK, ClientTypeOK, TaskTypeOK, HubTypeOK, Tasks, NoReq, NoFrame,
    clientVars, taskVars, hubVars
<1>1. ASSUME NEW c \in Callers, Call(c)
      PROVE  PendingExact'
  BY <1>1 DEF Call, Register, next_seq
<1>2. ASSUME NEW c \in Callers, CallRefused(c)
      PROVE  PendingExact'
  BY <1>2 DEF CallRefused
<1>3. ASSUME NEW c \in Callers, SendFails(c)
      PROVE  PendingExact'
  <2>1. /\ c \in Tasks /\ pc[c] # "idle" /\ Release(c)
        /\ pc' = [pc EXCEPT ![c] = "idle"] /\ UNCHANGED <<epoch, req, fut>>
    BY <1>3 DEF SendFails, Finish
  <2> HIDE DEF TypeOK, PendingExact, Tasks
  <2> QED BY <2>1, ReleaseKeepsPending
<1>4. ASSUME NEW c \in Callers, Resume(c)
      PROVE  PendingExact'
  <2>1. /\ c \in Tasks /\ pc[c] # "idle" /\ Release(c)
        /\ pc' = [pc EXCEPT ![c] = "idle"] /\ UNCHANGED <<epoch, req, fut>>
    BY <1>4 DEF Resume, Finish
  <2> HIDE DEF TypeOK, PendingExact, Tasks
  <2> QED BY <2>1, ReleaseKeepsPending
<1>5. ASSUME NEW c \in Callers, CancelCall(c)
      PROVE  PendingExact'
  <2>1. /\ c \in Tasks /\ pc[c] # "idle" /\ Release(c)
        /\ pc' = [pc EXCEPT ![c] = "idle"] /\ UNCHANGED <<epoch, req, fut>>
    BY <1>5 DEF CancelCall, Finish
  <2> HIDE DEF TypeOK, PendingExact, Tasks
  <2> QED BY <2>1, ReleaseKeepsPending
<1>6. ASSUME NEW t \in Tasks, Sent(t)
      PROVE  PendingExact'
  BY <1>6 DEF Sent, CanWrite
<1>7. ASSUME NEW t \in Tasks, Timeout(t)
      PROVE  PendingExact'
  BY <1>7 DEF Timeout
<1>8. CASE Receive
  <2> DEFINE f == Head(inbox)
             m == Matching(f.seq)
  <2>1. /\ UNCHANGED <<epoch, pc, req>>
        /\ \A t \in Tasks : fut'[t] = IF t \in m THEN "result" ELSE fut[t]
        /\ pending' = IF m = {} THEN pending ELSE pending \ {f.seq}
    BY <1>8 DEF Receive
  <2>2. \A t \in Tasks : InFlight(t) /\ fut[t] = "pending" /\ req[t][2] = f.seq => t \in m
    <3> SUFFICES ASSUME NEW t \in Tasks, InFlight(t), fut[t] = "pending", req[t][2] = f.seq
                 PROVE  t \in m
      OBVIOUS
    <3> QED BY DEF Matching
  <2>3. \A t \in m : t \in Tasks /\ f.seq \in pending /\ InFlight(t)
                    /\ req[t][2] = f.seq
    BY DEF Matching
  <2> HIDE DEF m, f
  <2>4. \A t \in Tasks : InFlight(t)' /\ fut'[t] = "pending" => req'[t][2] \in pending'
    BY <2>1, <2>2
  <2>5. \A n \in pending' : \E t \in Tasks :
          InFlight(t)' /\ req'[t][2] = n /\ fut'[t] \in {"pending", "cancelled"}
    <3> SUFFICES ASSUME NEW n \in pending'
                 PROVE  \E t \in Tasks : InFlight(t)' /\ req'[t][2] = n
                                         /\ fut'[t] \in {"pending", "cancelled"}
      OBVIOUS
    <3>1. PICK t \in Tasks : InFlight(t) /\ req[t][2] = n
                             /\ fut[t] \in {"pending", "cancelled"}
      BY <2>1
    <3>2. t \notin m
      BY <2>1, <2>3, <3>1
    <3> QED BY <2>1, <3>1, <3>2
  <2>6. \A t, u \in Tasks : InFlight(t)' /\ InFlight(u)' /\ req'[t][2] = req'[u][2] => t = u
    BY <2>1
  <2> QED BY <2>4, <2>5, <2>6
<1>9. ASSUME NEW kind \in {"conn", "raw"}, ListenEnds(kind)
      PROVE  PendingExact'
  BY <1>9 DEF ListenEnds, FailPending
<1>10. CASE OpenSession
  BY <1>10 DEF OpenSession, Register
<1>11. CASE CheckinAccepted
  <2>1. /\ Checkin \in Tasks /\ pc[Checkin] # "idle" /\ Release(Checkin)
        /\ pc' = [pc EXCEPT ![Checkin] = "idle"] /\ UNCHANGED <<epoch, req, fut>>
    BY <1>11 DEF CheckinAccepted, Finish
  <2> HIDE DEF TypeOK, PendingExact, Tasks
  <2> QED BY <2>1, ReleaseKeepsPending
<1>12. CASE CheckinFails
  <2>1. /\ Checkin \in Tasks /\ pc[Checkin] # "idle" /\ Release(Checkin)
        /\ pc' = [pc EXCEPT ![Checkin] = "idle"] /\ UNCHANGED <<epoch, req, fut>>
    BY <1>12 DEF CheckinFails, Finish, Leave
  <2> HIDE DEF TypeOK, PendingExact, Tasks
  <2> QED BY <2>1, ReleaseKeepsPending
<1>13. CASE SessionEnds
  BY <1>13 DEF SessionEnds, Leave
<1>14. CASE StopSession
  <2>1. CASE phase = "checkin"
    <3>1. /\ Checkin \in Tasks /\ pc[Checkin] # "idle" /\ Release(Checkin)
          /\ pc' = [pc EXCEPT ![Checkin] = "idle"] /\ UNCHANGED <<epoch, req, fut>>
      BY <1>14, <2>1 DEF StopSession, Finish, Leave
    <3> HIDE DEF TypeOK, PendingExact, Tasks
    <3> QED BY <3>1, ReleaseKeepsPending
  <2>2. CASE phase # "checkin"
    <3>1. UNCHANGED <<epoch, pending, pc, req, fut>>
      BY <1>14, <2>2 DEF StopSession, Leave
    <3> QED BY <3>1
  <2> QED BY <2>1, <2>2
<1>15. CASE CloseTunnel
  BY <1>15 DEF CloseTunnel
<1>16. ASSUME NEW r \in hub, NEW code \in {"zero", "error"}, HubAnswer(r, code)
      PROVE  PendingExact'
  BY <1>16 DEF HubAnswer
<1>17. ASSUME NEW n \in PushSeqs, HubPush(n)
      PROVE  PendingExact'
  BY <1>17 DEF HubPush
<1>18. CASE UNCHANGED vars
  BY <1>18 DEF vars
<1>19. QED
  BY <1>1, <1>2, <1>3, <1>4, <1>5, <1>6, <1>7, <1>8, <1>9, <1>10,
     <1>11, <1>12, <1>13, <1>14, <1>15, <1>16, <1>17, <1>18 DEF Next

----------------------------------------------------------------------------

LEMMA InvInit == Init => IInv
<1> USE DEF Init, Tasks, NoReq, NoFrame
<1>1. Init => TypeOK
  <2> SUFFICES ASSUME Init PROVE TypeOK
    OBVIOUS
  <2>1. inbox \in Seq(Frames)
    OBVIOUS
  <2>2. got \in [Tasks -> Frames] /\ req \in [Tasks -> Reqs]
    BY NoFrameType
  <2> QED BY <2>1, <2>2 DEF TypeOK, ClientTypeOK, TaskTypeOK, HubTypeOK, Futures,
      Outcomes
<1>2. Init => HubInv /\ GotInv /\ CheckinInv /\ Numbered
  BY DEF HubInv, GotInv, CheckinInv, Numbered, InFlight
<1>3. Init => OwnReply /\ UpMeansAccepted /\ PendingExact
  BY DEF OwnReply, UpMeansAccepted, PendingExact, Connected, InFlight
<1> QED BY <1>1, <1>2, <1>3 DEF IInv

LEMMA InvNext == IInv /\ [Next]_vars => IInv'
<1> SUFFICES ASSUME IInv, [Next]_vars PROVE IInv'
  OBVIOUS
<1>1. TypeOK
  BY DEF IInv
<1> QED
  BY <1>1, TypePreserved, OwnReplyPreserved, HubInvPreserved, GotInvPreserved,
     CheckinInvPreserved, NumberedPreserved, UpPreserved, PendingPreserved DEF IInv

\* The inductive invariant holds of every behaviour of the client
\* (hub/session.py with the coordinator's _run_session_once).
THEOREM SessionInvariant == Spec => []IInv
BY InvInit, InvNext, PTL DEF Spec

\* Every variable keeps its type, for any callers and bounds; a call only
\* ends in one of the outcomes _send_awaiting can produce.
THEOREM TypeCorrect == Spec => []TypeOK
<1>1. IInv => TypeOK
  BY DEF IInv
<1> QED BY <1>1, SessionInvariant, PTL

\* An answer only reaches the task whose request it answers: late answers,
\* timeouts and new sessions that count from 1 again included.
THEOREM AnswersReachTheirRequest == Spec => []OwnReply
<1>1. IInv => OwnReply
  BY DEF IInv
<1> QED BY <1>1, SessionInvariant, PTL

\* The coordinator reports the hub connected only on a checkin the hub
\* accepted in this session, whatever sequence numbers its pushes carry.
THEOREM UpIsAccepted == Spec => []UpMeansAccepted
<1>1. IInv => UpMeansAccepted
  BY DEF IInv
<1> QED BY <1>1, SessionInvariant, PTL

\* The pending table holds what is unsettled and nothing else, on every exit
\* path of async_send_and_await.
THEOREM PendingTableExact == Spec => []PendingExact
<1>1. IInv => PendingExact
  BY DEF IInv
<1> QED BY <1>1, SessionInvariant, PTL

\* When the receive loop ends by itself, _fail_pending wakes every caller of
\* the session in that very step.
THEOREM EofWakesEveryWaiter == Spec => EofWakesWaiters
<1>1. IInv /\ [Next]_vars =>
        [listening /\ ~listening' /\ phase' = phase =>
           \A t \in Tasks : InFlight(t) => fut'[t] # "pending"]_vars
  <2> SUFFICES ASSUME IInv, Next, listening, ~listening', phase' = phase,
                      NEW t \in Tasks, InFlight(t)
               PROVE  fut'[t] # "pending"
    BY DEF vars
  <2>1. PICK kind \in {"conn", "raw"} : ListenEnds(kind)
    BY DEF Next, Call, CallRefused, SendFails, Resume, CancelCall, Sent, Timeout,
           Receive, OpenSession, CheckinAccepted, CheckinFails, SessionEnds,
           StopSession, Leave, CloseTunnel, HubAnswer, HubPush, hubVars, clientVars
  <2>2. fut[t] = "pending" => req[t][2] \in pending
    BY DEF IInv, PendingExact
  <2>3. fut'[t] = IF fut[t] = "pending" THEN kind ELSE fut[t]
    BY <2>1, <2>2 DEF ListenEnds, FailPending, InFlight
  <2> QED BY <2>3
<1> QED BY <1>1, SessionInvariant, PTL DEF Spec, EofWakesWaiters
=============================================================================
