---------------------------- MODULE DeviceProofs ----------------------------
(***************************************************************************)
(* Proofs about what is shown of a device beside its reports: the saved    *)
(* positions of a camera (Presets), the device of the plugin and its Matter *)
(* twin (Twin), the entities that write (Controls, Composite), the         *)
(* conversions of a light (Light) and the entities an endpoint gets        *)
(* (Derive), for any values and any bounds.                                *)
(***************************************************************************)
EXTENDS Presets, Twin, Controls, Composite, Light, Derive, FiniteSetTheorems, TLAPS

-----------------------------------------------------------------------------
(* Presets *)

Keeping == [client : Clients, name : Names \cup {Nowhere},
            state : CallStates, position : Positions \cup {Nowhere}, list : Lists,
            first : BOOLEAN, kept : BOOLEAN, unread : BOOLEAN]

\* While the account has had the name throughout the call, it is in the account
\* until the list is read, and then in the list; so the call is not refused but
\* by a select that could not read it.
Sound(r, account) ==
    /\ r.state # "idle" => r.name \in Names
    /\ r.kept /\ r.state = "fetch" => account[r.name] # Nowhere
    /\ r.kept /\ r.state = "answer" => r.list[r.name] # Nowhere
    /\ r.kept /\ r.state = "refused" => r.client = "select" /\ r.unread

PresetsInv ==
    /\ cloud \in Lists
    /\ copy \in [Clients -> Lists]
    /\ call \in [Recalls -> Keeping]
    /\ \A c \in Recalls : Sound(call[c], cloud)

\* A step of one call that leaves it sound.
LEMMA OneCall ==
    ASSUME PresetsInv, NEW c \in Recalls, NEW r \in Keeping, Sound(r, cloud),
           call' = [call EXCEPT ![c] = r], UNCHANGED cloud, copy' \in [Clients -> Lists]
    PROVE  PresetsInv'
BY DEF PresetsInv, Sound

\* A call that is not under way.
LEMMA NoCallSound == NoCall \in Keeping /\ \A account : Sound(NoCall, account)
BY DEF NoCall, Keeping, Sound, Clients, Empty, Lists, CallStates

\* The account is edited under the calls.
LEMMA EditKeeps == ASSUME PresetsInv, Edit PROVE PresetsInv'
<1>1. PICK n \in Names, p \in Positions \cup {Nowhere} :
         /\ cloud' = [cloud EXCEPT ![n] = p]
         /\ call' = [c \in Recalls |->
                [call[c] EXCEPT !.kept = @ /\ (call[c].name = n => p # Nowhere)]]
  BY DEF Edit
<1>2. cloud' \in Lists /\ \A m \in Names \ {n} : cloud'[m] = cloud[m]
  BY <1>1 DEF PresetsInv, Lists
<1>3. cloud'[n] = p
  BY <1>1 DEF PresetsInv, Lists
<1>4. ASSUME NEW c \in Recalls PROVE call'[c] \in Keeping /\ Sound(call'[c], cloud')
  <2> DEFINE keep == call[c].kept /\ (call[c].name = n => p # Nowhere)
             r == [call[c] EXCEPT !.kept = keep]
  <2>1. call[c] \in Keeping /\ Sound(call[c], cloud)
    BY DEF PresetsInv
  <2>2. call'[c] = r
    BY <1>1
  <2>3. keep \in BOOLEAN
    OBVIOUS
  <2> HIDE DEF keep
  <2>4. /\ r \in Keeping
        /\ r.state = call[c].state /\ r.name = call[c].name /\ r.list = call[c].list
        /\ r.client = call[c].client /\ r.unread = call[c].unread
        /\ r.kept <=> keep
    BY <2>1, <2>3 DEF Keeping
  <2> HIDE DEF r
  <2>5. Sound(r, cloud')
    BY <1>2, <1>3, <2>1, <2>4 DEF Sound, keep
  <2>6. QED BY <2>2, <2>4, <2>5
<1>5. call' \in [Recalls -> Keeping]
  BY <1>1, <1>4
<1>6. UNCHANGED copy
  BY DEF Edit
<1>7. QED BY <1>2, <1>4, <1>5, <1>6 DEF PresetsInv

\* A step of one call.
LEMMA CallKeeps ==
    ASSUME PresetsInv, NEW c \in Recalls,
           \/ \E k \in Clients, n \in Names : Begin(c, k, n)
           \/ CloudReads(c) \/ CloudAnswers(c) \/ CloudFails(c) \/ Recall(c)
    PROVE  PresetsInv'
<1>1. call[c] \in Keeping /\ Sound(call[c], cloud) /\ cloud \in Lists
      /\ copy \in [Clients -> Lists]
  BY DEF PresetsInv
<1>2. ASSUME NEW k \in Clients, NEW n \in Names, Begin(c, k, n) PROVE PresetsInv'
  <2> DEFINE r == [client |-> k, name |-> n, position |-> copy[k][n],
                   list |-> Empty, first |-> k = "camera" /\ k \notin fetched,
                   kept |-> cloud[n] # Nowhere, unread |-> FALSE,
                   state |-> IF copy[k][n] = Nowhere THEN "fetch" ELSE "recall"]
  <2>1. call' = [call EXCEPT ![c] = r] /\ UNCHANGED <<cloud, copy>>
    BY <1>2 DEF Begin
  <2>2. copy[k][n] \in Positions \cup {Nowhere}
    BY <1>1 DEF Lists
  <2>3. r \in Keeping /\ Sound(r, cloud)
    BY <2>2 DEF Keeping, Sound, Empty, Lists, CallStates
  <2>4. QED BY <1>1, <2>1, <2>3, OneCall
<1>3. CASE CloudReads(c)
  <2> DEFINE r == [call[c] EXCEPT !.state = "answer", !.list = cloud]
  <2>1. call' = [call EXCEPT ![c] = r] /\ UNCHANGED <<cloud, copy>>
    BY <1>3 DEF CloudReads
  <2>2. r \in Keeping /\ Sound(r, cloud)
    BY <1>1, <1>3 DEF CloudReads, Keeping, Sound, CallStates
  <2>3. QED BY <1>1, <2>1, <2>2, OneCall
<1>4. CASE CloudAnswers(c)
  <2> DEFINE k == call[c].client
             n == call[c].name
             r == [call[c] EXCEPT !.position = copy'[k][n], !.list = Empty,
                       !.first = FALSE, !.state = AfterFetch(copy'[k][n], call[c].first)]
  <2>1. copy' = [copy EXCEPT ![k] = call[c].list]
    BY <1>4 DEF CloudAnswers, Refetch, Fetched
  <2>2. k \in Clients /\ n \in Names /\ call[c].list \in Lists
    BY <1>1, <1>4 DEF CloudAnswers, Keeping, Sound
  <2>3. copy' \in [Clients -> Lists] /\ copy'[k][n] = call[c].list[n]
    BY <1>1, <2>1, <2>2
  <2>4. call' = [call EXCEPT ![c] = r] /\ UNCHANGED cloud
    BY <1>4 DEF CloudAnswers
  <2>5. copy'[k][n] \in Positions \cup {Nowhere}
    BY <2>2, <2>3 DEF Lists
  <2>6. r \in Keeping /\ Sound(r, cloud)
    BY <1>1, <1>4, <2>2, <2>3, <2>5
    DEF CloudAnswers, Keeping, Sound, Empty, Lists, CallStates, AfterFetch
  <2>7. QED BY <2>3, <2>4, <2>6, OneCall
<1>5. CASE CloudFails(c)
  <2> DEFINE p == copy[call[c].client][call[c].name]
             r == [call[c] EXCEPT !.position = p, !.unread = TRUE,
                       !.state = IF call[c].client = "camera" THEN "failed"
                                 ELSE AfterFetch(p, FALSE)]
  <2>1. call' = [call EXCEPT ![c] = r] /\ UNCHANGED <<cloud, copy>>
    BY <1>5 DEF CloudFails
  <2>2. p \in Positions \cup {Nowhere}
    BY <1>1, <1>5 DEF CloudFails, Keeping, Sound, Lists
  <2>3. /\ call[c].state = "fetch" /\ call[c].client \in {"select", "camera"}
        /\ r.state \in {"failed", "recall", "refused"}
        /\ r.state = "refused" => call[c].client = "select"
    BY <1>1, <1>5 DEF CloudFails, Keeping, Clients, AfterFetch
  <2>4. /\ r.client = call[c].client /\ r.name = call[c].name /\ r.position = p
        /\ r.list = call[c].list /\ r.first = call[c].first
        /\ r.kept = call[c].kept /\ r.unread
        /\ r \in Keeping
    BY <1>1, <2>2, <2>3 DEF Keeping, CallStates
  <2> HIDE DEF r
  <2>5. Sound(r, cloud)
    BY <1>1, <2>3, <2>4 DEF Sound
  <2>6. QED BY <1>1, <2>1, <2>4, <2>5, OneCall
<1>6. CASE Recall(c)
  BY <1>1, <1>6, OneCall, NoCallSound DEF Recall
<1>7. QED BY <1>2, <1>3, <1>4, <1>5, <1>6

\* Every step preserves the invariant.
LEMMA PresetsNextInv == PresetsInv /\ [PresetsNext]_presetVars => PresetsInv'
<1> SUFFICES ASSUME PresetsInv, [PresetsNext]_presetVars PROVE PresetsInv'
  OBVIOUS
<1>1. CASE Add
  <2>1. copy' \in [Clients -> Lists] /\ UNCHANGED <<cloud, call>>
    BY <1>1 DEF Add, Fetched, PresetsInv
  <2>2. QED BY <2>1 DEF PresetsInv
<1>2. CASE UNCHANGED presetVars
  BY <1>2 DEF presetVars, PresetsInv
<1>3. QED BY <1>1, <1>2, EditKeeps, CallKeeps DEF PresetsNext

\* The inductive invariant of the saved positions.
THEOREM PresetsInvariant == PresetsSpec => []PresetsInv
<1>1. PresetsInit => PresetsInv
  BY NoCallSound DEF PresetsInit, PresetsInv, Lists, Empty
<1>2. QED BY <1>1, PresetsNextInv, PTL DEF PresetsSpec

\* A call is refused for an unknown name only if the account lacked it at some
\* time of the call or the select's fetch failed, for any names, copies and
\* order of the cloud's answers (select.py:114-118, 140-160, 168-179;
\* camera.py:249-275).
THEOREM RefusedIsUnknown == PresetsSpec => []KnownIsRecallable
<1>1. PresetsInv => KnownIsRecallable
  BY DEF PresetsInv, Sound, KnownIsRecallable
<1>2. QED BY <1>1, PresetsInvariant, PTL

-----------------------------------------------------------------------------
(* Twin *)

Frame == [kind : {"report"}, trait : Traits, value : TraitValues]
         \cup [kind : {"answer"}, call : SetCalls]

TwinTyped == TwinTypeOK /\ fromHub \in Seq(Frame)

\* What the twin has reported, once it has heard of any change.
TwinTold ==
    heard => listening /\ \A t \in Traits : reported[t] = MatterState(state[t])

\* A frame that is a report of a trait, or the answer to a write of it that was not
\* refused, and the value it carries.
ReportOf(f, t) == f.kind = "report" /\ f.trait = t
About(f, t, d) ==
    ReportOf(f, t) \/ (f.kind = "answer" /\ f.call.trait = t /\ f.call \notin d)
ValueOf(f) == IF f.kind = "report" THEN f.value ELSE f.call.value

\* No report of t is under way; and of the frames about t the last report, and
\* the answers behind it, carry the value v.
NoReport(q, t) == \A j \in 1..Len(q) : ~ReportOf(q[j], t)
LateRight(q, t, v, d) ==
    \A i \in 1..Len(q) :
        (\A j \in (i + 1)..Len(q) : ~ReportOf(q[j], t)) =>
            (About(q[i], t, d) => ValueOf(q[i]) = v)

\* What is under way brings the state of every trait to what the device does.
FramesRight == \A t \in Traits : LateRight(fromHub, t, lamp[t], denied)

\* Nothing but a report of t can change what is known of it, or it is known.
KnownRight(t) ==
    NoReport(fromHub, t) =>
        /\ state[t] \in {Unknown, lamp[t]}
        /\ \A k \in 1..Len(resumed) :
               resumed[k].trait = t /\ resumed[k] \notin denied => resumed[k].value = lamp[t]

\* A trait that was overtaken, or recorded as refused, is given up until its next
\* report.
TwinSettling == FramesRight /\ \A t \in Traits \ (overtaken \cup refused) : KnownRight(t)

TwinInv == TwinTyped /\ TwinTold /\ TwinSettling

\* The head of the queue is read.
LEMMA HeadRead ==
    ASSUME NEW q \in Seq(Frame), q # <<>>, NEW t, NEW v, NEW d, LateRight(q, t, v, d)
    PROVE  /\ LateRight(Tail(q), t, v, d)
           /\ NoReport(Tail(q), t) /\ About(Head(q), t, d) => ValueOf(Head(q)) = v
           /\ NoReport(Tail(q), t) /\ ~ReportOf(Head(q), t) => NoReport(q, t)
<1>1. /\ Len(q) \in Nat /\ Len(q) > 0 /\ Len(Tail(q)) = Len(q) - 1
      /\ Head(q) = q[1]
      /\ \A i \in 1..Len(Tail(q)) : Tail(q)[i] = q[i + 1]
  OBVIOUS
<1>2. \A j \in 2..Len(q) : j - 1 \in 1..Len(Tail(q)) /\ q[j] = Tail(q)[j - 1]
  BY <1>1
<1>3. ASSUME NEW i \in 1..Len(Tail(q)),
             \A j \in (i + 1)..Len(Tail(q)) : ~ReportOf(Tail(q)[j], t),
             About(Tail(q)[i], t, d)
      PROVE  ValueOf(Tail(q)[i]) = v
  <2>1. \A j \in (i + 2)..Len(q) : ~ReportOf(q[j], t)
    <3>1. SUFFICES ASSUME NEW j \in (i + 2)..Len(q) PROVE ~ReportOf(q[j], t)
      OBVIOUS
    <3>2. j - 1 \in (i + 1)..Len(Tail(q)) /\ q[j] = Tail(q)[j - 1]
      BY <1>1, <1>2
    <3>3. QED BY <1>3, <3>2
  <2>2. i + 1 \in 1..Len(q) /\ (i + 1) + 1 = i + 2 /\ Tail(q)[i] = q[i + 1]
    BY <1>1
  <2>3. QED BY <1>3, <2>1, <2>2 DEF LateRight
<1>4. ASSUME NoReport(Tail(q), t) PROVE \A j \in 2..Len(q) : ~ReportOf(q[j], t)
  BY <1>2, <1>4 DEF NoReport
<1>5. 1 \in 1..Len(q) /\ 1 + 1 = 2 /\ \A j \in 1..Len(q) : j = 1 \/ j \in 2..Len(q)
  BY <1>1
<1>6. QED BY <1>1, <1>3, <1>4, <1>5 DEF LateRight, NoReport

\* A frame joins the queue.
LEMMA FrameJoins ==
    ASSUME NEW q \in Seq(Frame), NEW f \in Frame, NEW t, NEW v, NEW d,
           About(f, t, d) => ValueOf(f) = v,
           ReportOf(f, t) \/ LateRight(q, t, v, d)
    PROVE  /\ LateRight(Append(q, f), t, v, d)
           /\ NoReport(Append(q, f), t) => NoReport(q, t) /\ ~ReportOf(f, t)
<1> DEFINE n == Append(q, f)
<1>1. /\ Len(q) \in Nat /\ Len(n) = Len(q) + 1 /\ n[Len(q) + 1] = f
      /\ \A i \in 1..Len(q) : n[i] = q[i]
  OBVIOUS
<1> HIDE DEF n
<1>2. ASSUME NEW i \in 1..Len(n), \A j \in (i + 1)..Len(n) : ~ReportOf(n[j], t),
             About(n[i], t, d)
      PROVE  ValueOf(n[i]) = v
  <2>1. CASE i = Len(q) + 1
    BY <1>1, <1>2, <2>1
  <2>2. CASE i # Len(q) + 1
    <3>1. i \in 1..Len(q) /\ Len(q) + 1 \in (i + 1)..Len(n)
      BY <1>1, <2>2
    <3>2. ~ReportOf(f, t)
      BY <1>1, <1>2, <3>1
    <3>3. \A j \in (i + 1)..Len(q) : j \in (i + 1)..Len(n) /\ n[j] = q[j]
      BY <1>1, <3>1
    <3>4. QED BY <1>1, <1>2, <3>1, <3>2, <3>3 DEF LateRight
  <2>3. QED BY <2>1, <2>2
<1>3. Len(q) + 1 \in 1..Len(n) /\ \A i \in 1..Len(q) : i \in 1..Len(n)
  BY <1>1
<1>4. QED BY <1>1, <1>2, <1>3 DEF LateRight, NoReport, n

\* What a step leaves alone of the twin keeps what was told.
LEMMA ToldStays ==
    ASSUME TwinTold, UNCHANGED <<state, reported, heard>>, listening => listening'
    PROVE  TwinTold'
BY DEF TwinTold

\* record(): one entry of the state changes, and the twin is told of it.
LEMMA RecordKeeps ==
    ASSUME TwinTypeOK, TwinTold, NEW t \in Traits, NEW v \in TraitValues, Record(t, v)
    PROVE  /\ state' = [state EXCEPT ![t] = v]
           /\ state' \in [Traits -> TraitValues \cup {Unknown}]
           /\ reported' \in [Traits -> TraitValues]
           /\ fresh' \subseteq Traits
           /\ owed' \subseteq [cluster : Traits, value : TraitValues]
           /\ listening' \in BOOLEAN /\ heard' \in BOOLEAN
           /\ TwinTold'
<1>1. /\ state' = [state EXCEPT ![t] = v]
      /\ state' \in [Traits -> TraitValues \cup {Unknown}]
      /\ listening' = listening
  BY DEF Record, TwinTypeOK
<1>2. \A c \in Traits : MatterState(state'[c]) \in TraitValues
  BY <1>1 DEF MatterState, TraitValues, Unknown
<1>3. CASE state[t] = v
  <2>1. UNCHANGED <<reported, fresh, owed, heard>>
    BY <1>3 DEF Record
  <2>2. state' = state
    BY <1>1, <1>3 DEF TwinTypeOK
  <2>3. QED BY <1>1, <2>1, <2>2, ToldStays DEF TwinTypeOK
<1>4. CASE state[t] # v /\ ~listening
  <2>1. UNCHANGED <<reported, fresh, owed, heard>>
    BY <1>4 DEF Record, Report
  <2>2. ~heard
    BY <1>4 DEF TwinTold
  <2>3. QED BY <1>1, <2>1, <2>2 DEF TwinTypeOK, TwinTold
<1>5. CASE state[t] # v /\ listening
  <2> DEFINE changed == {c \in Traits : MatterState(state'[c]) # reported[c]}
  <2>1. /\ reported' = [c \in Traits |-> MatterState(state'[c])]
        /\ fresh' = fresh \cup changed
        /\ owed' = owed \cup
               {[cluster |-> c, value |-> MatterState(state'[c])] : c \in changed}
        /\ heard' = TRUE
    BY <1>5 DEF Record, Report
  <2>2. changed \subseteq Traits
    OBVIOUS
  <2> HIDE DEF changed
  <2>3. owed' \subseteq [cluster : Traits, value : TraitValues]
    BY <1>2, <2>1, <2>2 DEF TwinTypeOK
  <2>4. QED BY <1>1, <1>2, <1>5, <2>1, <2>2, <2>3 DEF TwinTypeOK, TwinTold
<1>6. QED BY <1>3, <1>4, <1>5

\* command(): nothing, or a write joins those under way.
LEMMA SetKeeps ==
    ASSUME TwinAssumption, TwinTypeOK, NEW t \in Traits, NEW v \in TraitValues,
           NEW cause \in Causes, Set(t, v, cause) \/ Command(t, v, cause)
    PROVE  /\ toHub' \in Seq(SetCalls)
           /\ waiting' \subseteq SetCalls
           /\ sets' \in 0..MaxSets
<1>1. CASE Set(t, v, cause)
  <2>1. sets < MaxSets /\ sets' = sets + 1 /\ sets \in 0..MaxSets /\ MaxSets \in Nat
    BY <1>1 DEF TwinAssumption, Set, TwinTypeOK
  <2>2. sets' \in 0..MaxSets /\ sets + 1 \in 1..MaxSets
    BY <2>1
  <2> DEFINE w == [id |-> sets + 1, trait |-> t, value |-> v, cause |-> cause]
  <2>3. w \in SetCalls
    BY <2>2 DEF SetCalls
  <2>4. toHub' = Append(toHub, w) /\ waiting' = waiting \cup {w}
    BY <1>1 DEF Set
  <2> HIDE DEF w
  <2>5. QED BY <2>2, <2>3, <2>4 DEF TwinTypeOK
<1>2. CASE ~Set(t, v, cause)
  BY <1>2 DEF Command, TwinTypeOK
<1>3. QED BY <1>1, <1>2

\* The head of a queue of frames, or of calls.
LEMMA HeadTail ==
    ASSUME NEW S, NEW q \in Seq(S), q # <<>>
    PROVE  /\ Head(q) \in S /\ Tail(q) \in Seq(S)
           /\ Len(q) \in Nat \ {0} /\ Head(q) = q[1] /\ Len(Tail(q)) = Len(q) - 1
           /\ \A i \in 1..Len(Tail(q)) : i + 1 \in 1..Len(q) /\ Tail(q)[i] = q[i + 1]
OBVIOUS

\* Orders, echoes, the end of a settling time, registration, lost writes and
\* calls given up leave alone all that the invariant is about, types aside.
LEMMA SettlingStays ==
    ASSUME TwinSettling, UNCHANGED <<lamp, fromHub, state, resumed, history>>
    PROVE  TwinSettling'
BY DEF TwinSettling, FramesRight, KnownRight, history

LEMMA QuietStepsKeep ==
    ASSUME TwinAssumption, TwinInv,
           \/ \E t \in Traits, v \in TraitValues : HomeKitOrder(t, v) \/ MatterOrder(t, v)
           \/ \E r \in owed, t \in Traits, v \in TraitValues : Echo(r, t, v)
           \/ \E t \in Traits : Settled(t)
           \/ \E w \in waiting : SetRejects(w)
           \/ Registered \/ Lost
    PROVE  TwinInv'
<1> USE DEF TwinInv, TwinTyped
<1>1. UNCHANGED <<lamp, fromHub, state, resumed, history, reported, heard>>
      /\ (listening => listening')
  BY DEF HomeKitOrder, MatterOrder, Echo, Settled, SetRejects, Registered, Lost, linkVars,
         twinVars
<1>2. TwinTold' /\ TwinSettling'
  BY <1>1, ToldStays, SettlingStays
<1>3. ASSUME NEW t \in Traits, NEW v \in TraitValues, HomeKitOrder(t, v) \/ MatterOrder(t, v)
      PROVE  TwinTypeOK'
  <2>1. orders' \in 0..MaxOrders
    BY <1>3 DEF TwinAssumption, HomeKitOrder, MatterOrder, TwinTypeOK
  <2>2. /\ toHub' \in Seq(SetCalls) /\ waiting' \subseteq SetCalls
        /\ sets' \in 0..MaxSets
    BY <1>3, SetKeeps DEF HomeKitOrder, MatterOrder, Causes
  <2>3. QED BY <1>1, <1>3, <2>1, <2>2 DEF HomeKitOrder, MatterOrder, TwinTypeOK, twinVars, history
<1>4. ASSUME NEW r \in owed, NEW t \in Traits, NEW v \in TraitValues, Echo(r, t, v)
      PROVE  TwinTypeOK'
  <2>1. /\ toHub' \in Seq(SetCalls) /\ waiting' \subseteq SetCalls
        /\ sets' \in 0..MaxSets
    <3>1. Command(t, v, IF t = r.cluster THEN "echo" ELSE "derived")
          /\ (IF t = r.cluster THEN "echo" ELSE "derived") \in Causes
      BY <1>4 DEF Echo, Causes
    <3>2. QED BY <3>1, SetKeeps
  <2>2. QED BY <1>1, <1>4, <2>1 DEF Echo, TwinTypeOK, history
<1>5. ASSUME NEW t \in Traits, Settled(t) PROVE TwinTypeOK'
  BY <1>5 DEF Settled, TwinTypeOK, linkVars, history
<1>6. ASSUME NEW w \in waiting, SetRejects(w) PROVE TwinTypeOK'
  BY <1>6 DEF SetRejects, TwinTypeOK, linkVars, history, twinVars
<1>7. ASSUME Registered PROVE TwinTypeOK'
  <2>1. listening' = TRUE /\ heard' = heard
    BY <1>7 DEF Registered
  <2>2. QED BY <1>1, <1>7, <2>1 DEF Registered, TwinTypeOK, linkVars, history
<1>8. ASSUME Lost PROVE TwinTypeOK'
  <2>1. toHub' \in Seq(SetCalls)
    BY <1>8, HeadTail DEF Lost, TwinTypeOK
  <2>2. listening' = listening /\ heard' = heard
    BY <1>8 DEF Lost, twinVars
  <2>3. QED BY <1>1, <1>8, <2>1, <2>2 DEF Lost, TwinTypeOK, twinVars, history
<1>9. fromHub' \in Seq(Frame)
  BY <1>1
<1>10. TwinTypeOK'
  BY <1>3, <1>4, <1>5, <1>6, <1>7, <1>8
<1>11. QED BY <1>2, <1>9, <1>10

\* A report joins the queue, with what the device now does.
LEMMA NewsJoins ==
    ASSUME NEW t \in Traits, NEW v \in TraitValues, NEW u \in Traits,
           NEW q \in Seq(Frame), NEW w, NEW d, t # u => LateRight(q, u, w, d), t = u => w = v
    PROVE  /\ Append(q, News(t, v)) \in Seq(Frame)
           /\ LateRight(Append(q, News(t, v)), u, w, d)
           /\ NoReport(Append(q, News(t, v)), u) => NoReport(q, u) /\ t # u
<1> DEFINE f == News(t, v)
<1>1. /\ f \in Frame
      /\ ReportOf(f, u) <=> t = u
      /\ About(f, u, d) <=> t = u
      /\ ValueOf(f) = v
  BY DEF News, Frame, ReportOf, About, ValueOf
<1> HIDE DEF f
<1>2. /\ LateRight(Append(q, f), u, w, d)
      /\ NoReport(Append(q, f), u) => NoReport(q, u) /\ ~ReportOf(f, u)
  BY <1>1, FrameJoins
<1>3. Append(q, f) \in Seq(Frame)
  BY <1>1
<1>4. QED BY <1>1, <1>2, <1>3 DEF f

\* Somebody presses the switch.
LEMMA PressKeeps == ASSUME TwinAssumption, TwinInv, NEW t \in Traits, Press(t) PROVE TwinInv'
<1> USE DEF TwinInv, TwinTyped
<1>1. /\ lamp' = [lamp EXCEPT ![t] = 1 - lamp[t]]
      /\ UNCHANGED <<state, resumed, denied, overtaken, refused, reported, heard, listening>>
      /\ resumed = <<>>
  BY DEF Press, twinVars, history, Idle
<1>2. /\ 1 - lamp[t] \in TraitValues /\ lamp' \in [Traits -> TraitValues]
      /\ \A u \in Traits \ {t} : lamp'[u] = lamp[u]
      /\ lamp'[t] \in TraitValues
  BY <1>1 DEF TwinTypeOK, TraitValues
<1>3. fromHub' = Append(fromHub, News(t, lamp'[t]))
  BY DEF Press
<1>4. TwinTold'
  BY <1>1, ToldStays
<1>5. presses' \in 0..MaxPresses
  BY DEF Press, TwinAssumption, TwinTypeOK
<1>6. TwinTypeOK'
  BY <1>1, <1>2, <1>5 DEF Press, TwinTypeOK, twinVars
<1>7. ASSUME NEW u \in Traits
      PROVE  /\ LateRight(fromHub', u, lamp'[u], denied)
             /\ u \notin overtaken \cup refused => KnownRight(u)'
  <2>1. /\ t # u => LateRight(fromHub, u, lamp'[u], denied)
        /\ t # u => lamp'[u] = lamp[u]
    BY <1>2 DEF TwinSettling, FramesRight
  <2>2. /\ LateRight(fromHub', u, lamp'[u], denied)
        /\ NoReport(fromHub', u) => NoReport(fromHub, u) /\ t # u
    BY <1>2, <1>3, <2>1, NewsJoins
  <2>3. u \notin overtaken \cup refused => KnownRight(u)
    BY DEF TwinSettling
  <2>4. QED BY <1>1, <2>1, <2>2, <2>3 DEF KnownRight
<1>8. TwinSettling'
  BY <1>1, <1>7 DEF TwinSettling, FramesRight
<1>9. fromHub' \in Seq(Frame)
  BY <1>2, <1>3, NewsJoins
<1>10. QED BY <1>4, <1>6, <1>8, <1>9

\* Two frames join one after the other.
LEMMA TwoJoin ==
    ASSUME NEW q \in Seq(Frame), NEW a \in Frame, NEW b \in Frame
    PROVE  /\ q \o <<a, b>> = Append(Append(q, a), b)
           /\ Append(q, a) \in Seq(Frame) /\ q \o <<a, b>> \in Seq(Frame)
<1>1. <<a, b>> \in Seq(Frame) /\ Len(<<a, b>>) = 2 /\ <<a, b>>[1] = a /\ <<a, b>>[2] = b
  OBVIOUS
<1> DEFINE l == q \o <<a, b>>
           m == Append(q, a)
           r == Append(m, b)
<1>2. /\ l \in Seq(Frame) /\ Len(l) = Len(q) + 2
      /\ \A i \in 1..Len(l) : l[i] = IF i <= Len(q) THEN q[i] ELSE <<a, b>>[i - Len(q)]
  BY <1>1
<1>3. /\ m \in Seq(Frame) /\ Len(m) = Len(q) + 1
      /\ \A i \in 1..Len(m) : m[i] = IF i <= Len(q) THEN q[i] ELSE a
  OBVIOUS
<1> HIDE DEF m
<1>4. /\ r \in Seq(Frame) /\ Len(r) = Len(m) + 1
      /\ \A i \in 1..Len(r) : r[i] = IF i <= Len(m) THEN m[i] ELSE b
  BY <1>3
<1> HIDE DEF l, r
<1>5. Len(l) = Len(r) /\ Len(q) \in Nat
  BY <1>2, <1>3, <1>4
<1>6. ASSUME NEW i \in 1..Len(l) PROVE l[i] = r[i]
  BY <1>1, <1>2, <1>3, <1>4, <1>5
<1>7. l = r
  BY <1>2, <1>4, <1>5, <1>6
<1>8. QED BY <1>2, <1>3, <1>7 DEF l, m, r

\* The hub does what a write asks, answers and reports.
LEMMA HubWritesKeeps == ASSUME TwinInv, HubWrites PROVE TwinInv'
<1> USE DEF TwinInv, TwinTyped
<1> DEFINE w == Head(toHub)
           t == w.trait
           answer == [kind |-> "answer", call |-> w]
           news == News(t, w.value)
<1>1. w \in SetCalls /\ toHub' \in Seq(SetCalls)
  BY HeadTail DEF HubWrites, TwinTypeOK
<1>2. t \in Traits /\ w.value \in TraitValues
  BY <1>1 DEF SetCalls
<1>3. /\ answer \in Frame
      /\ \A u : /\ ~ReportOf(answer, u)
                /\ About(answer, u, denied) => t = u
      /\ ValueOf(answer) = w.value
  BY <1>1 DEF Frame, ReportOf, About, ValueOf
<1>4. /\ lamp' = [lamp EXCEPT ![t] = w.value]
      /\ fromHub' = fromHub \o <<answer, news>> \/ fromHub' = fromHub \o <<news, answer>>
      /\ UNCHANGED <<state, resumed, denied, overtaken, refused, reported, heard, listening>>
      /\ resumed = <<>>
  BY DEF HubWrites, twinVars, history, Idle
<1>5. /\ lamp' \in [Traits -> TraitValues] /\ lamp'[t] = w.value
      /\ \A u \in Traits \ {t} : lamp'[u] = lamp[u]
  BY <1>2, <1>4 DEF TwinTypeOK
<1>6. TwinTypeOK'
  BY <1>1, <1>5 DEF HubWrites, TwinTypeOK, twinVars, history
<1>7. TwinTold'
  BY <1>4, ToldStays
<1> HIDE DEF answer
<1>8. news \in Frame
  BY <1>2 DEF News, Frame
<1> HIDE DEF news
<1>9. /\ fromHub \o <<answer, news>> = Append(Append(fromHub, answer), news)
      /\ fromHub \o <<news, answer>> = Append(Append(fromHub, news), answer)
      /\ Append(fromHub, answer) \in Seq(Frame)
      /\ Append(fromHub, news) \in Seq(Frame)
      /\ fromHub' \in Seq(Frame)
  BY <1>3, <1>4, <1>8, TwoJoin
<1>10. ASSUME NEW u \in Traits
       PROVE  /\ LateRight(fromHub', u, lamp'[u], denied)
              /\ NoReport(fromHub', u) => NoReport(fromHub, u) /\ t # u
  <2>1. /\ t # u => LateRight(fromHub, u, lamp'[u], denied)
        /\ t # u => lamp'[u] = lamp[u]
        /\ t = u => lamp'[u] = w.value
    BY <1>4, <1>5 DEF TwinSettling, FramesRight
  <2>2. About(answer, u, denied) => ValueOf(answer) = lamp'[u]
    BY <1>3, <2>1
  <2>3. CASE fromHub' = Append(Append(fromHub, answer), news)
    <3>1. t # u => /\ LateRight(Append(fromHub, answer), u, lamp'[u], denied)
                   /\ NoReport(Append(fromHub, answer), u) => NoReport(fromHub, u)
      BY <1>3, <2>1, <2>2, FrameJoins
    <3>2. /\ LateRight(fromHub', u, lamp'[u], denied)
          /\ NoReport(fromHub', u) => NoReport(Append(fromHub, answer), u) /\ t # u
      BY <1>2, <1>9, <2>1, <2>3, <3>1, NewsJoins DEF news
    <3>3. QED BY <1>4, <2>1, <3>1, <3>2
  <2>4. CASE fromHub' = Append(Append(fromHub, news), answer)
    <3>1. /\ LateRight(Append(fromHub, news), u, lamp'[u], denied)
          /\ NoReport(Append(fromHub, news), u) => NoReport(fromHub, u) /\ t # u
      BY <1>2, <2>1, NewsJoins DEF news
    <3>2. /\ LateRight(fromHub', u, lamp'[u], denied)
          /\ NoReport(fromHub', u) => NoReport(Append(fromHub, news), u)
      BY <1>3, <1>9, <2>2, <2>4, <3>1, FrameJoins
    <3>3. QED BY <1>4, <2>1, <3>1, <3>2
  <2>5. QED BY <1>4, <1>9, <2>3, <2>4
<1>11. ASSUME NEW u \in Traits \ (overtaken \cup refused) PROVE KnownRight(u)'
  <2>1. KnownRight(u) /\ (NoReport(fromHub', u) => NoReport(fromHub, u) /\ t # u)
    BY <1>10 DEF TwinSettling
  <2>2. t # u => lamp'[u] = lamp[u]
    BY <1>5
  <2>3. QED BY <1>4, <2>1, <2>2 DEF KnownRight
<1>12. TwinSettling'
  BY <1>4, <1>10, <1>11 DEF TwinSettling, FramesRight
<1>13. QED BY <1>6, <1>7, <1>9, <1>12

\* A refused answer is about no trait, and makes no other frame about one.
LEMMA DeniedJoins ==
    ASSUME NEW q \in Seq(Frame), NEW f \in Frame, NEW d, f.kind = "answer", f.call \in d,
           NEW c, c \subseteq d, NEW u, NEW w, LateRight(q, u, w, c)
    PROVE  /\ LateRight(Append(q, f), u, w, d)
           /\ NoReport(Append(q, f), u) => NoReport(q, u)
<1>1. ~ReportOf(f, u) /\ ~About(f, u, d)
  BY DEF ReportOf, About
<1>2. \A i \in 1..Len(q) : About(q[i], u, d) => About(q[i], u, c)
  BY DEF About
<1>3. LateRight(q, u, w, d)
  BY <1>2 DEF LateRight
<1>4. QED BY <1>1, <1>3, FrameJoins

\* The hub refuses a write.
LEMMA HubRefusesKeeps == ASSUME TwinInv, HubRefuses PROVE TwinInv'
<1> USE DEF TwinInv, TwinTyped
<1> DEFINE w == Head(toHub)
           answer == [kind |-> "answer", call |-> w]
<1>1. w \in SetCalls /\ toHub' \in Seq(SetCalls)
  BY HeadTail DEF HubRefuses, TwinTypeOK
<1>2. answer \in Frame /\ answer.kind = "answer" /\ answer.call = w
  BY <1>1 DEF Frame
<1>3. /\ fromHub' = Append(fromHub, answer) /\ denied' = denied \cup {w}
      /\ UNCHANGED <<lamp, state, resumed, overtaken, refused, reported, heard, listening>>
      /\ resumed = <<>>
  BY DEF HubRefuses, twinVars, Idle
<1>4. TwinTypeOK'
  BY <1>1, <1>3 DEF HubRefuses, TwinTypeOK, twinVars
<1>5. TwinTold'
  BY <1>3, ToldStays
<1> HIDE DEF answer
<1>6. ASSUME NEW u \in Traits
      PROVE  /\ LateRight(fromHub', u, lamp[u], denied')
             /\ NoReport(fromHub', u) => NoReport(fromHub, u)
  <2>1. LateRight(fromHub, u, lamp[u], denied)
    BY DEF TwinSettling, FramesRight
  <2>2. answer.call \in denied' /\ denied \subseteq denied'
    BY <1>2, <1>3
  <2>3. QED BY <1>2, <1>3, <2>1, <2>2, DeniedJoins
<1>7. ASSUME NEW u \in Traits \ (overtaken \cup refused) PROVE KnownRight(u)'
  <2>1. KnownRight(u)
    BY DEF TwinSettling
  <2>2. QED BY <1>3, <1>6, <2>1 DEF KnownRight
<1>8. TwinSettling'
  BY <1>3, <1>6, <1>7 DEF TwinSettling, FramesRight
<1>9. fromHub' \in Seq(Frame)
  BY <1>2, <1>3
<1>10. QED BY <1>4, <1>5, <1>8, <1>9

\* A report is handled.
LEMMA ReportFrameKeeps == ASSUME TwinInv, ReportFrame PROVE TwinInv'
<1> USE DEF TwinInv, TwinTyped
<1> DEFINE f == Head(fromHub)
<1>1. f \in Frame /\ fromHub' \in Seq(Frame) /\ fromHub # <<>>
  BY HeadTail DEF ReportFrame
<1>2. f.kind = "report" /\ Record(f.trait, f.value)
  BY DEF ReportFrame
<1>3. f.trait \in Traits /\ f.value \in TraitValues
  BY <1>1, <1>2 DEF Frame
<1>4. /\ state' = [state EXCEPT ![f.trait] = f.value]
      /\ state' \in [Traits -> TraitValues \cup {Unknown}]
      /\ reported' \in [Traits -> TraitValues] /\ fresh' \subseteq Traits
      /\ owed' \subseteq [cluster : Traits, value : TraitValues]
      /\ listening' \in BOOLEAN /\ heard' \in BOOLEAN
      /\ TwinTold'
  BY <1>2, <1>3, RecordKeeps
<1>5. /\ UNCHANGED <<lamp, resumed, denied>>
      /\ overtaken' \subseteq Traits /\ refused' \subseteq Traits
      /\ overtaken \ {f.trait} \subseteq overtaken' /\ refused \ {f.trait} \subseteq refused'
      /\ \A k \in 1..Len(resumed) : resumed[k].trait = f.trait => f.trait \in overtaken'
  <2>1. resumed \in Seq(SetCalls) /\ DOMAIN resumed = 1..Len(resumed)
    BY DEF TwinTypeOK
  <2>2. QED BY <1>3, <2>1 DEF ReportFrame, TwinTypeOK
<1>6. TwinTypeOK'
  BY <1>4, <1>5 DEF ReportFrame, TwinTypeOK
<1>7. ASSUME NEW u \in Traits
      PROVE  /\ LateRight(fromHub', u, lamp[u], denied)
             /\ NoReport(fromHub', u) /\ About(f, u, denied) => ValueOf(f) = lamp[u]
             /\ NoReport(fromHub', u) /\ ~ReportOf(f, u) => NoReport(fromHub, u)
  <2>1. LateRight(fromHub, u, lamp[u], denied)
    BY DEF TwinSettling, FramesRight
  <2>2. QED BY <1>1, <2>1, HeadRead DEF ReportFrame
<1>8. ASSUME NEW u \in Traits \ (overtaken' \cup refused') PROVE KnownRight(u)'
  <2>1. CASE u = f.trait
    <3>1. ReportOf(f, u) /\ About(f, u, denied) /\ ValueOf(f) = f.value
      BY <1>2, <2>1 DEF ReportOf, About, ValueOf
    <3>2. state'[u] = f.value
      BY <1>3, <1>4, <2>1 DEF TwinTypeOK
    <3>3. QED BY <1>5, <1>7, <1>8, <2>1, <3>1, <3>2 DEF KnownRight
  <2>2. CASE u # f.trait
    <3>1. ~ReportOf(f, u)
      BY <2>2 DEF ReportOf
    <3>2. state'[u] = state[u]
      BY <1>4, <2>2 DEF TwinTypeOK
    <3>3. KnownRight(u)
      BY <1>5, <1>8, <2>2 DEF TwinSettling
    <3>4. QED BY <1>5, <1>7, <3>1, <3>2, <3>3 DEF KnownRight
  <2>3. QED BY <2>1, <2>2
<1>9. TwinSettling'
  BY <1>5, <1>7, <1>8 DEF TwinSettling, FramesRight
<1>10. QED BY <1>1, <1>4, <1>6, <1>9

\* A write is answered: its promise is resolved.
LEMMA AnswerFrameKeeps == ASSUME TwinInv, AnswerFrame PROVE TwinInv'
<1> USE DEF TwinInv, TwinTyped
<1> DEFINE f == Head(fromHub)
<1>1. f \in Frame /\ fromHub' \in Seq(Frame) /\ fromHub # <<>> /\ fromHub' = Tail(fromHub)
  BY HeadTail DEF AnswerFrame
<1>2. f.kind = "answer" /\ f.call \in SetCalls
  BY <1>1 DEF AnswerFrame, Frame
<1>3. UNCHANGED <<lamp, state, denied, overtaken, refused, reported, heard, listening>>
  BY DEF AnswerFrame, twinVars, history
<1>4. resumed' = resumed \/ resumed' = Append(resumed, f.call)
  BY DEF AnswerFrame
<1>5. resumed' \in Seq(SetCalls)
  <2>1. resumed \in Seq(SetCalls)
    BY DEF TwinTypeOK
  <2>2. QED BY <1>2, <1>4, <2>1
<1>6. TwinTypeOK'
  BY <1>5 DEF AnswerFrame, TwinTypeOK, twinVars, history
<1>7. TwinTold'
  BY <1>3, ToldStays
<1>8. ASSUME NEW u \in Traits
      PROVE  /\ LateRight(fromHub', u, lamp[u], denied)
             /\ NoReport(fromHub', u) => NoReport(fromHub, u)
             /\ NoReport(fromHub', u) /\ f.call.trait = u /\ f.call \notin denied =>
                    f.call.value = lamp[u]
  <2>1. LateRight(fromHub, u, lamp[u], denied)
    BY DEF TwinSettling, FramesRight
  <2>2. /\ ~ReportOf(f, u) /\ ValueOf(f) = f.call.value
        /\ f.call.trait = u /\ f.call \notin denied => About(f, u, denied)
    BY <1>2 DEF ReportOf, About, ValueOf
  <2>3. QED BY <1>1, <2>1, <2>2, HeadRead
<1>9. ASSUME NEW u \in Traits \ (overtaken \cup refused) PROVE KnownRight(u)'
  <2>1. KnownRight(u)
    BY DEF TwinSettling
  <2>2. ASSUME NoReport(fromHub', u), NEW k \in 1..Len(resumed'), resumed'[k].trait = u,
               resumed'[k] \notin denied
        PROVE  resumed'[k].value = lamp[u]
    <3>1. resumed \in Seq(SetCalls)
      BY DEF TwinTypeOK
    <3>2. (k \in 1..Len(resumed) /\ resumed'[k] = resumed[k]) \/ resumed'[k] = f.call
      BY <1>2, <1>4, <2>2, <3>1
    <3>3. QED BY <1>8, <2>1, <2>2, <3>2 DEF KnownRight
  <2>3. QED BY <1>3, <1>8, <2>1, <2>2 DEF KnownRight
<1>10. TwinSettling'
  BY <1>3, <1>8, <1>9 DEF TwinSettling, FramesRight
<1>11. QED BY <1>1, <1>6, <1>7, <1>10

\* set() goes on.
LEMMA SetReturnsKeeps == ASSUME TwinInv, SetReturns PROVE TwinInv'
<1> USE DEF TwinInv, TwinTyped
<1> DEFINE w == Head(resumed)
<1>1. /\ w \in SetCalls /\ resumed' \in Seq(SetCalls) /\ w = resumed[1]
      /\ 1 \in 1..Len(resumed)
      /\ \A i \in 1..Len(resumed') : i + 1 \in 1..Len(resumed) /\ resumed'[i] = resumed[i + 1]
  <2>1. resumed \in Seq(SetCalls) /\ resumed # <<>> /\ resumed' = Tail(resumed)
    BY DEF SetReturns, TwinTypeOK
  <2>2. QED BY <2>1, HeadTail
<1>2. w.trait \in Traits /\ w.value \in TraitValues /\ Record(w.trait, w.value)
  BY <1>1 DEF SetReturns, SetCalls
<1>3. /\ state' = [state EXCEPT ![w.trait] = w.value]
      /\ state' \in [Traits -> TraitValues \cup {Unknown}]
      /\ reported' \in [Traits -> TraitValues] /\ fresh' \subseteq Traits
      /\ owed' \subseteq [cluster : Traits, value : TraitValues]
      /\ listening' \in BOOLEAN /\ heard' \in BOOLEAN
      /\ TwinTold'
  BY <1>2, RecordKeeps
<1>4. /\ UNCHANGED <<lamp, fromHub, denied, overtaken>>
      /\ refused' = IF w \in denied THEN refused \cup {w.trait} ELSE refused
  BY DEF SetReturns, linkVars
<1>5. TwinTypeOK'
  <2>1. refused' \subseteq Traits
    BY <1>2, <1>4 DEF TwinTypeOK
  <2>2. QED BY <1>1, <1>3, <1>4, <2>1 DEF SetReturns, TwinTypeOK, linkVars
<1>6. ASSUME NEW u \in Traits \ (overtaken' \cup refused'), NoReport(fromHub', u)
      PROVE  /\ state'[u] \in {Unknown, lamp'[u]}
             /\ \A k \in 1..Len(resumed') :
                    resumed'[k].trait = u /\ resumed'[k] \notin denied' =>
                        resumed'[k].value = lamp'[u]
  <2>1. /\ state[u] \in {Unknown, lamp[u]}
        /\ \A k \in 1..Len(resumed) :
               resumed[k].trait = u /\ resumed[k] \notin denied => resumed[k].value = lamp[u]
    BY <1>4, <1>6 DEF TwinSettling, KnownRight
  <2>2. state'[u] = IF u = w.trait THEN w.value ELSE state[u]
    BY <1>2, <1>3 DEF TwinTypeOK
  <2>3. w.trait = u => w.value = lamp[u]
    BY <1>1, <1>4, <1>6, <2>1
  <2>4. QED BY <1>1, <1>4, <2>1, <2>2, <2>3
<1>7. TwinSettling'
  BY <1>4, <1>6 DEF TwinSettling, FramesRight, KnownRight
<1>8. QED BY <1>3, <1>4, <1>5, <1>7

\* Every step preserves the invariant.
LEMMA TwinNextInv ==
    ASSUME TwinAssumption PROVE TwinInv /\ [TwinNext]_pluginVars => TwinInv'
<1> SUFFICES ASSUME TwinInv, [TwinNext]_pluginVars PROVE TwinInv'
  OBVIOUS
<1>1. CASE UNCHANGED pluginVars
  <2>1. UNCHANGED <<lamp, toHub, fromHub, state, waiting, resumed, reported, fresh,
                    listening, owed, heard, sets, presses, orders, history>>
    BY <1>1 DEF pluginVars, linkVars, twinVars, history
  <2>2. TwinTold' /\ TwinSettling'
    BY <2>1, ToldStays, SettlingStays DEF TwinInv
  <2>3. QED BY <2>1, <2>2 DEF TwinInv, TwinTyped, TwinTypeOK, history
<1>2. QED
  BY <1>1, QuietStepsKeep, PressKeeps, HubWritesKeeps, HubRefusesKeeps, ReportFrameKeeps, AnswerFrameKeeps,
     SetReturnsKeeps DEF TwinNext

\* The inductive invariant of the plugin's device.
THEOREM TwinInvariant == ASSUME TwinAssumption PROVE TwinSpec => []TwinInv
<1>1. TwinInit => TwinInv
  <2> SUFFICES ASSUME TwinInit PROVE TwinInv
    OBVIOUS
  <2>1. TwinTyped
    <3>1. toHub \in Seq(SetCalls) /\ fromHub \in Seq(Frame) /\ resumed \in Seq(SetCalls)
      BY DEF TwinInit
    <3>2. sets \in 0..MaxSets /\ presses \in 0..MaxPresses /\ orders \in 0..MaxOrders
      BY DEF TwinAssumption, TwinInit
    <3>3. QED BY <3>1, <3>2 DEF TwinInit, TwinTyped, TwinTypeOK, TraitValues, Unknown
  <2>2. TwinTold /\ TwinSettling
    BY DEF TwinInit, TwinTold, TwinSettling, FramesRight, KnownRight, LateRight
  <2>3. QED BY <2>1, <2>2 DEF TwinInv
<1>2. QED BY <1>1, TwinNextInv, PTL DEF TwinSpec

\* The types of the plugin's device and of its twin.
THEOREM TwinTypeCorrect == ASSUME TwinAssumption PROVE TwinSpec => []TwinTypeOK
<1>1. TwinInv => TwinTypeOK
  BY DEF TwinInv, TwinTyped
<1>2. QED BY <1>1, TwinInvariant, PTL

\* A single change brings every Matter cluster in step with the device object, for
\* any traits and any number of orders and presses (matter.js:188-213).
THEOREM AllAreTold == ASSUME TwinAssumption PROVE TwinSpec => []OneChangeTellsAll
<1>1. TwinInv => OneChangeTellsAll
  BY DEF TwinInv, TwinTold, OneChangeTellsAll
<1>2. QED BY <1>1, TwinInvariant, PTL

\* When nothing is under way the device object says what the device does, except of
\* a trait whose last report overtook an older write, or that a refused write has
\* recorded since its last report (device.js:73-95, 103-114).
THEOREM SettlesOnDevice == ASSUME TwinAssumption PROVE TwinSpec => []StateSettles
<1>1. TwinInv => StateSettles
  <2> SUFFICES ASSUME TwinInv, Quiet, NEW t \in Traits \ (overtaken \cup refused)
               PROVE  state[t] \in {Unknown, lamp[t]}
    BY DEF StateSettles, Agrees
  <2>1. NoReport(fromHub, t)
    BY DEF Quiet, NoReport
  <2>2. QED BY <2>1 DEF TwinInv, TwinSettling, KnownRight
<1>2. QED BY <1>1, TwinInvariant, PTL

-----------------------------------------------------------------------------
(* Calls under way, oldest first: those of a control and of a composite     *)
(* setting.  Each is sent, then applied or refused, then answered.          *)

\* What was not sent before stays behind what was.
SentLast(q) ==
    \A i, j \in 1..Len(q) : i < j /\ q[i].state = "sent" => q[j].state = "sent"

NoneApplied(q) == \A i \in 1..Len(q) : q[i].state # "applied"

\* The last call of the queue that took effect.
Latest(q) ==
    {i \in 1..Len(q) : /\ q[i].state = "applied"
                       /\ \A j \in (i + 1)..Len(q) : q[j].state # "applied"}

\* A new call joins the queue.
LEMMA CallJoins ==
    ASSUME NEW S, NEW q \in Seq(S), NEW r \in S, r.state = "sent", SentLast(q)
    PROVE  /\ SentLast(Append(q, r))
           /\ Len(Append(q, r)) = Len(q) + 1
           /\ Append(q, r)[Len(q) + 1] = r
           /\ \A i \in 1..Len(q) : Append(q, r)[i] = q[i]
           /\ \A i \in Latest(Append(q, r)) : i \in Latest(q)
           /\ NoneApplied(Append(q, r)) => NoneApplied(q)
<1> DEFINE n == Append(q, r)
<1>1. /\ Len(q) \in Nat /\ Len(n) = Len(q) + 1 /\ n[Len(q) + 1] = r
      /\ \A i \in 1..Len(q) : n[i] = q[i]
  OBVIOUS
<1> HIDE DEF n
<1>2. SentLast(n)
  <2> SUFFICES ASSUME NEW i \in 1..Len(n), NEW j \in 1..Len(n), i < j, n[i].state = "sent"
               PROVE  n[j].state = "sent"
    BY DEF SentLast
  <2>1. i \in 1..Len(q) /\ (j = Len(q) + 1 \/ j \in 1..Len(q))
    BY <1>1
  <2>2. QED BY <1>1, <2>1 DEF SentLast
<1>3. ASSUME NEW i \in Latest(n) PROVE i \in Latest(q)
  <2>1. /\ i \in 1..Len(n) /\ n[i].state = "applied"
        /\ \A j \in (i + 1)..Len(n) : n[j].state # "applied"
    BY DEF Latest
  <2>2. i \in 1..Len(q)
    BY <1>1, <2>1
  <2>3. \A j \in (i + 1)..Len(q) : j \in (i + 1)..Len(n) /\ n[j] = q[j]
    BY <1>1, <2>2
  <2>4. QED BY <1>1, <2>1, <2>2, <2>3 DEF Latest
<1>4. NoneApplied(n) => NoneApplied(q)
  <2>1. \A i \in 1..Len(q) : i \in 1..Len(n)
    BY <1>1
  <2>2. QED BY <1>1, <2>1 DEF NoneApplied
<1>5. QED BY <1>1, <1>2, <1>3, <1>4 DEF n

\* The oldest call leaves the queue.
LEMMA CallLeaves ==
    ASSUME NEW S, NEW q \in Seq(S), q # <<>>, SentLast(q)
    PROVE  /\ SentLast(Tail(q))
           /\ \A i \in Latest(Tail(q)) : i + 1 \in Latest(q) /\ Tail(q)[i] = q[i + 1]
           /\ NoneApplied(Tail(q)) /\ Head(q).state = "applied" => 1 \in Latest(q)
           /\ NoneApplied(Tail(q)) /\ Head(q).state # "applied" => NoneApplied(q)
<1> DEFINE n == Tail(q)
<1>1. /\ Len(q) \in Nat \ {0} /\ Head(q) = q[1] /\ Len(n) = Len(q) - 1
      /\ \A i \in 1..Len(n) : i + 1 \in 1..Len(q) /\ n[i] = q[i + 1]
  BY HeadTail
<1> HIDE DEF n
<1>2. \A j \in 2..Len(q) : j - 1 \in 1..Len(n) /\ q[j] = n[j - 1]
  BY <1>1
<1>3. SentLast(n)
  <2> SUFFICES ASSUME NEW i \in 1..Len(n), NEW j \in 1..Len(n), i < j, n[i].state = "sent"
               PROVE  n[j].state = "sent"
    BY DEF SentLast
  <2>1. i + 1 < j + 1
    OBVIOUS
  <2>2. QED BY <1>1, <2>1 DEF SentLast
<1>4. ASSUME NEW i \in Latest(n) PROVE i + 1 \in Latest(q) /\ n[i] = q[i + 1]
  <2>1. /\ i \in 1..Len(n) /\ n[i].state = "applied"
        /\ \A j \in (i + 1)..Len(n) : n[j].state # "applied"
    BY DEF Latest
  <2>2. ASSUME NEW j \in ((i + 1) + 1)..Len(q) PROVE q[j].state # "applied"
    <3>1. j - 1 \in (i + 1)..Len(n) /\ q[j] = n[j - 1]
      BY <1>1, <1>2, <2>1
    <3>2. QED BY <2>1, <3>1
  <2>3. QED BY <1>1, <2>1, <2>2 DEF Latest
<1>5. NoneApplied(n) => \A j \in 2..Len(q) : q[j].state # "applied"
  BY <1>2 DEF NoneApplied
<1>6. 1 \in 1..Len(q) /\ 1 + 1 = 2 /\ \A j \in 1..Len(q) : j = 1 \/ j \in 2..Len(q)
  BY <1>1
<1>7. QED BY <1>1, <1>3, <1>4, <1>5, <1>6 DEF Latest, NoneApplied, n

\* n is q with r at i.
Replaces(n, q, i, r) == n = [q EXCEPT ![i] = r]

\* A call is applied or refused, the oldest that was not, or gives up.
LEMMA CallChanges ==
    ASSUME NEW S, NEW q \in Seq(S), NEW i \in DOMAIN q, NEW r \in S, NEW n,
           Replaces(n, q, i, r), SentLast(q),
           \/ r.state = q[i].state
           \/ q[i].state = "sent" /\ \A j \in 1..(i - 1) : q[j].state # "sent"
    PROVE  /\ n \in Seq(S) /\ Len(n) = Len(q) /\ n[i] = r /\ i \in 1..Len(q)
           /\ \A j \in 1..Len(q) \ {i} : n[j] = q[j]
           /\ SentLast(n)
           /\ r.state = "applied" /\ q[i].state = "sent" =>
                  i \in 1..Len(n) /\ ~NoneApplied(n) /\ \A k \in Latest(n) : k = i
           /\ r.state # "applied" /\ q[i].state # "applied" =>
                  /\ NoneApplied(n) => NoneApplied(q)
                  /\ \A k \in Latest(n) : k # i /\ k \in Latest(q)
<1>1. /\ Len(q) \in Nat /\ DOMAIN q = 1..Len(q) /\ i \in 1..Len(q)
      /\ n \in Seq(S) /\ Len(n) = Len(q) /\ n[i] = r
      /\ \A j \in 1..Len(q) \ {i} : n[j] = q[j]
  BY DEF Replaces
<1>2. q[i].state = "sent" => \A j \in (i + 1)..Len(q) : n[j].state = "sent" /\ j # i
  <2> SUFFICES ASSUME q[i].state = "sent", NEW j \in (i + 1)..Len(q)
               PROVE  n[j].state = "sent" /\ j # i
    OBVIOUS
  <2>1. j \in 1..Len(q) /\ i < j
    BY <1>1
  <2>2. QED BY <1>1, <2>1 DEF SentLast
<1>3. SentLast(n)
  <2> SUFFICES ASSUME NEW j \in 1..Len(n), NEW k \in 1..Len(n), j < k, n[j].state = "sent"
               PROVE  n[k].state = "sent"
    BY DEF SentLast
  <2>1. CASE r.state = q[i].state
    BY <1>1, <2>1 DEF SentLast
  <2>2. CASE q[i].state = "sent" /\ \A m \in 1..(i - 1) : q[m].state # "sent"
    <3>1. j < i => j \in 1..(i - 1) /\ j # i
      BY <1>1
    <3>2. ~(j < i)
      BY <1>1, <2>2, <3>1
    <3>3. k \in (i + 1)..Len(q)
      BY <1>1, <3>2
    <3>4. QED BY <1>2, <2>2, <3>3
  <2>3. QED BY <2>1, <2>2
<1>4. ASSUME r.state = "applied", q[i].state = "sent", NEW k \in Latest(n) PROVE k = i
  <2>1. /\ k \in 1..Len(n) /\ n[k].state = "applied"
        /\ \A j \in (k + 1)..Len(n) : n[j].state # "applied"
    BY DEF Latest
  <2>2. ~(k < i)
    <3>1. k < i => i \in (k + 1)..Len(n)
      BY <1>1, <2>1
    <3>2. QED BY <1>1, <1>4, <2>1, <3>1
  <2>3. ~(k > i)
    <3>1. k > i => k \in (i + 1)..Len(q)
      BY <1>1, <2>1
    <3>2. QED BY <1>2, <1>4, <2>1, <3>1
  <2>4. QED BY <1>1, <2>1, <2>2, <2>3
<1>5. ASSUME r.state # "applied", q[i].state # "applied"
      PROVE  /\ NoneApplied(n) => NoneApplied(q)
             /\ \A k \in Latest(n) : k # i /\ k \in Latest(q)
  <2>1. \A j \in 1..Len(q) : q[j].state = "applied" <=> n[j].state = "applied"
    BY <1>1, <1>5
  <2>2. ASSUME NEW k \in Latest(n) PROVE k # i /\ k \in Latest(q)
    <3>1. /\ k \in 1..Len(q) /\ n[k].state = "applied"
          /\ \A j \in (k + 1)..Len(q) : n[j].state # "applied"
      BY <1>1 DEF Latest
    <3>2. \A j \in (k + 1)..Len(q) : j \in 1..Len(q)
      BY <1>1, <3>1
    <3>3. QED BY <1>1, <1>5, <2>1, <3>1, <3>2 DEF Latest
  <2>3. QED BY <1>1, <2>1, <2>2 DEF NoneApplied
<1>6. QED BY <1>1, <1>3, <1>4, <1>5 DEF NoneApplied

-----------------------------------------------------------------------------
(* Composite *)

Setting(F) == [new : F, state : {"sent", "applied", "refused"}, heard : BOOLEAN]

\* The fields are those of the device's value, or encode to it.
Shows(f) == f = Decode(codec, onWire) \/ Encode(codec, f) = onWire

\* Unless something was not heard of, every call will be answered, the last one
\* that took effect wrote what is on the wire, and without one the fields show it.
CompositeInv ==
    /\ \E F : setting \in Seq(Setting(F))
    /\ SentLast(setting)
    /\ ~spoiled =>
           /\ \A i \in 1..Len(setting) : setting[i].heard
           /\ \A i \in Latest(setting) : Encode(codec, setting[i].new) = onWire
           /\ NoneApplied(setting) /\ restored => Shows(fields)

\* More fields can be sent.
LEMMA MoreFields ==
    ASSUME NEW F, NEW f, NEW q \in Seq(Setting(F))
    PROVE  q \in Seq(Setting(F \cup {f}))
<1> DEFINE S == Setting(F)
           T == Setting(F \cup {f})
<1>1. S \subseteq T
  BY DEF Setting
<1>2. q \in Seq(S)
  OBVIOUS
<1> HIDE DEF S, T
<1>3. q \in [1..Len(q) -> S] /\ Len(q) \in Nat
  BY <1>2
<1>4. q \in [1..Len(q) -> T]
  BY <1>1, <1>3
<1>5. q \in Seq(T)
  BY <1>3, <1>4
<1>6. QED BY <1>5 DEF T

LEMMA async_setKeeps ==
    ASSUME CompositeInv, NEW name, NEW v, async_set(name, v) PROVE CompositeInv'
<1> DEFINE f == Copy(name, v)
           r == [new |-> f, state |-> "sent", heard |-> TRUE]
<1>1. /\ setting' = Append(setting, r)
      /\ UNCHANGED <<codec, fields, restored, onWire, spoiled>>
  BY DEF async_set
<1>2. PICK F : setting \in Seq(Setting(F))
  BY DEF CompositeInv
<1> DEFINE S == Setting(F \cup {f})
<1>3. setting \in Seq(S)
  BY <1>2, MoreFields
<1>4. r \in S /\ r.state = "sent" /\ r.heard = TRUE
  BY DEF Setting
<1> HIDE DEF r, f
<1>5. /\ setting' \in Seq(S)
      /\ SentLast(setting')
      /\ Len(setting) \in Nat /\ Len(setting') = Len(setting) + 1
      /\ setting'[Len(setting) + 1] = r
      /\ \A i \in 1..Len(setting) : setting'[i] = setting[i]
      /\ \A i \in Latest(setting') : i \in Latest(setting)
      /\ NoneApplied(setting') => NoneApplied(setting)
  <2>1. SentLast(setting)
    BY DEF CompositeInv
  <2> HIDE DEF S
  <2>2. Append(setting, r) \in Seq(S)
    BY <1>3, <1>4
  <2>3. QED BY <1>1, <1>3, <1>4, <2>1, <2>2, CallJoins
<1>6. \A i \in 1..Len(setting') : i \in 1..Len(setting) \/ i = Len(setting) + 1
  BY <1>5
<1>7. \A i \in Latest(setting) : i \in 1..Len(setting)
  BY DEF Latest
<1>8. \E G : setting' \in Seq(Setting(G))
  BY <1>5
<1>9. QED BY <1>1, <1>4, <1>5, <1>6, <1>7, <1>8 DEF CompositeInv, Shows

\* The device takes a call, or it is refused, or gives up.
LEMMA SettingChanges ==
    ASSUME CompositeInv, NEW i, Takes(i) \/ Refuses(i) \/ Timeout(i) PROVE CompositeInv'
<1>1. PICK F : setting \in Seq(Setting(F))
  BY DEF CompositeInv
<1>2. i \in DOMAIN setting /\ setting[i] \in Setting(F) /\ SentLast(setting)
  BY <1>1 DEF CompositeInv, Takes, Refuses, Timeout, Arrives
<1> DEFINE q == setting
           n == setting'
<1>3. CASE Timeout(i)
  <2> DEFINE t == [setting[i] EXCEPT !.heard = FALSE]
  <2>1. Replaces(n, q, i, t) /\ spoiled'
    BY <1>3 DEF Timeout, Replaces
  <2>2. t \in Setting(F) /\ t.state = q[i].state
    BY <1>2 DEF Setting
  <2> HIDE DEF t
  <2>3. n \in Seq(Setting(F)) /\ SentLast(n)
    BY <1>1, <1>2, <2>1, <2>2, CallChanges
  <2>4. QED BY <2>1, <2>3 DEF CompositeInv
<1>4. CASE Takes(i)
  <2> DEFINE t == [setting[i] EXCEPT !.state = "applied"]
  <2>1. /\ Replaces(n, q, i, t) /\ onWire' = Encode(codec, setting[i].new)
        /\ UNCHANGED <<codec, fields, restored, spoiled>>
        /\ q[i].state = "sent" /\ \A j \in 1..(i - 1) : q[j].state # "sent"
    BY <1>4 DEF Takes, Arrives, Replaces
  <2>2. t \in Setting(F) /\ t.state = "applied" /\ t.heard = q[i].heard /\ t.new = q[i].new
    BY <1>2 DEF Setting
  <2> HIDE DEF t
  <2>3. /\ n \in Seq(Setting(F)) /\ Len(n) = Len(q) /\ n[i] = t /\ i \in 1..Len(q)
        /\ \A j \in 1..Len(q) \ {i} : n[j] = q[j]
        /\ SentLast(n) /\ ~NoneApplied(n) /\ \A k \in Latest(n) : k = i
    BY <1>1, <1>2, <2>1, <2>2, CallChanges
  <2>4. \E G : setting' \in Seq(Setting(G))
    BY <2>3
  <2>5. QED BY <2>1, <2>2, <2>3, <2>4 DEF CompositeInv
<1>5. CASE Refuses(i)
  <2> DEFINE t == [setting[i] EXCEPT !.state = "refused"]
  <2>1. /\ Replaces(n, q, i, t)
        /\ UNCHANGED <<codec, fields, restored, onWire, spoiled>>
        /\ q[i].state = "sent" /\ \A j \in 1..(i - 1) : q[j].state # "sent"
    BY <1>5 DEF Refuses, Arrives, Replaces
  <2>2. t \in Setting(F) /\ t.state = "refused" /\ t.heard = q[i].heard
    BY <1>2 DEF Setting
  <2> HIDE DEF t
  <2>3. /\ n \in Seq(Setting(F)) /\ Len(n) = Len(q) /\ n[i] = t /\ i \in 1..Len(q)
        /\ \A j \in 1..Len(q) \ {i} : n[j] = q[j]
        /\ SentLast(n)
        /\ NoneApplied(n) => NoneApplied(q)
        /\ \A k \in Latest(n) : k # i /\ k \in Latest(q)
    BY <1>1, <1>2, <2>1, <2>2, CallChanges
  <2>4. \E G : setting' \in Seq(Setting(G))
    BY <2>3
  <2>5. \A k \in Latest(q) : k \in 1..Len(q)
    BY DEF Latest
  <2>6. QED BY <2>1, <2>2, <2>3, <2>4, <2>5 DEF CompositeInv, Shows
<1>6. QED BY <1>3, <1>4, <1>5

\* The oldest call is answered.
LEMMA CommittedKeeps == ASSUME CompositeInv, Committed PROVE CompositeInv'
<1> DEFINE r == Head(setting)
<1>1. PICK F : setting \in Seq(Setting(F))
  BY DEF CompositeInv
<1>2. /\ setting # <<>> /\ setting' = Tail(setting) /\ fields' = Commit(r)
      /\ UNCHANGED <<codec, restored, onWire, spoiled>>
      /\ SentLast(setting)
  BY DEF Committed, CompositeInv
<1>3. /\ setting' \in Seq(Setting(F)) /\ r = setting[1] /\ 1 \in 1..Len(setting)
      /\ \A i \in 1..Len(setting') : i + 1 \in 1..Len(setting) /\ setting'[i] = setting[i + 1]
  BY <1>1, <1>2, HeadTail
<1>4. /\ SentLast(setting')
      /\ \A i \in Latest(setting') : i + 1 \in Latest(setting) /\ setting'[i] = setting[i + 1]
      /\ NoneApplied(setting') /\ r.state = "applied" => 1 \in Latest(setting)
      /\ NoneApplied(setting') /\ r.state # "applied" => NoneApplied(setting)
  BY <1>1, <1>2, CallLeaves
<1>5. ASSUME ~spoiled, NoneApplied(setting'), restored
      PROVE  Shows(fields')
  <2>1. /\ r.heard
        /\ \A i \in Latest(setting) : Encode(codec, setting[i].new) = onWire
        /\ NoneApplied(setting) => Shows(fields)
    BY <1>3, <1>5 DEF CompositeInv
  <2>2. CASE r.state = "applied"
    <3>1. fields' = r.new
      BY <1>2, <2>1, <2>2 DEF Commit
    <3>2. QED BY <1>3, <1>4, <1>5, <2>1, <2>2, <3>1 DEF Shows
  <2>3. CASE r.state # "applied"
    BY <1>2, <1>4, <1>5, <2>1, <2>3 DEF Commit
  <2>4. QED BY <2>2, <2>3
<1>6. \E G : setting' \in Seq(Setting(G))
  BY <1>3
<1>7. QED BY <1>2, <1>3, <1>4, <1>5, <1>6 DEF CompositeInv, Shows

\* Every step preserves the invariant.
LEMMA CompositeNextInv == CompositeInv /\ [CompositeNext]_compositeVars => CompositeInv'
<1> SUFFICES ASSUME CompositeInv, [CompositeNext]_compositeVars PROVE CompositeInv'
  OBVIOUS
<1>1. CASE Setup
  <2>1. setting = <<>> /\ setting' = setting /\ UNCHANGED <<codec, onWire>>
    BY <1>1 DEF Setup
  <2>2. SentLast(setting') /\ \E F : setting' \in Seq(Setting(F))
    BY <2>1 DEF CompositeInv
  <2>3. Len(setting') = 0 /\ Latest(setting') = {}
    BY <2>1 DEF Latest
  <2>4. restored' => fields' = Decode(codec, onWire)
    BY <1>1 DEF Setup, seed, Rebuild
  <2>5. QED BY <2>1, <2>2, <2>3, <2>4 DEF CompositeInv, Shows
<1>2. CASE Phone
  BY <1>2 DEF Phone, CompositeInv
<1>3. CASE UNCHANGED compositeVars
  BY <1>3 DEF compositeVars, CompositeInv, Shows
<1>4. QED
  BY <1>1, <1>2, <1>3, async_setKeeps, SettingChanges, CommittedKeeps DEF CompositeNext

\* The inductive invariant of a composite setting.
THEOREM CompositeInvariant == CompositeSpec => []CompositeInv
<1>1. CompositeInit => CompositeInv
  <2> SUFFICES ASSUME CompositeInit PROVE CompositeInv
    OBVIOUS
  <2>1. setting = <<>> /\ ~restored
    BY DEF CompositeInit
  <2>2. setting \in Seq(Setting({})) /\ SentLast(setting) /\ Latest(setting) = {}
    BY <2>1 DEF SentLast, Latest
  <2>3. QED BY <2>1, <2>2 DEF CompositeInv
<1>2. QED BY <1>1, CompositeNextInv, PTL DEF CompositeSpec

\* Once no write is under way the entities of a composite setting show what the
\* device holds, for every codec, any fields and any number of writes, unless the
\* phone wrote or a call timed out (composites/controller.py:69-82).
THEOREM SettingShowsDevice == CompositeSpec => []ShownIsOnDevice
<1>1. CompositeInv => ShownIsOnDevice
  <2> SUFFICES ASSUME CompositeInv, restored, setting = <<>>, ~spoiled
               PROVE  Shows(fields)
    BY DEF ShownIsOnDevice, Shows
  <2>1. NoneApplied(setting)
    BY DEF NoneApplied
  <2>2. QED BY <2>1 DEF CompositeInv
<1>2. QED BY <1>1, CompositeInvariant, PTL

-----------------------------------------------------------------------------
(* Controls *)

Writing == [wire : WireOf[kind], state : {"sent", "applied", "refused"}, heard : BOOLEAN]

\* What is shown is what a wire value tells, if it tells what to show.
Right(raw, shown) == Telling(raw) => shown = apply_value(raw, shown)

ControlTyped ==
    /\ kind \in AllKinds /\ device \in WireOf[kind]
    /\ writes \in Seq(Writing) /\ reports \in Seq(WireOf[kind])
    /\ SentLast(writes)
    /\ optimistic => reports = <<>>
    /\ reports # <<>> => armed
    /\ armed => linked
    /\ ~linked => writes = <<>>
    /\ ~added => writes = <<>>

\* The reports of a trait end with what the device holds; without one, and before
\* there is an entity, what was told last is the device's value.
TraitRight ==
    ~optimistic =>
        /\ announced /\ (reports = <<>> \/ ~added) => Right(device, display)
        /\ reports # <<>> => reports[Len(reports)] = device

\* Unless it will not be heard of, the last write of a setting that took effect
\* wrote what the device holds; without one that is shown.
SettingRight ==
    announced /\ optimistic =>
        /\ \A i \in Latest(writes) : writes[i].heard /\ writes[i].wire = device
        /\ NoneApplied(writes) => Right(device, display)

ControlsInv == ControlTyped /\ TraitRight /\ SettingRight

\* What a telling value makes the entity show does not depend on what it showed.
LEMMA TellingShows ==
    ASSUME kind \in AllKinds, NEW raw \in WireOf[kind], Telling(raw), NEW x, NEW y
    PROVE  apply_value(raw, x) = apply_value(raw, y)
<1>1. CASE kind = "switch"
  BY <1>1 DEF apply_value
<1>2. CASE kind = "select"
  <2>1. raw \in {"1", "0", "odd"} /\ raw # "odd"
    BY <1>2 DEF WireOf, Telling
  <2>2. ShowSelect(raw, x) = ShowSelect(raw, y)
    BY <2>1 DEF ShowSelect
  <2>3. QED BY <1>2, <2>2 DEF apply_value
<1>3. CASE kind = "number"
  BY <1>3 DEF apply_value
<1>4. CASE kind = "text"
  BY <1>4 DEF apply_value
<1>5. CASE kind = "light"
  <2>1. raw # ""
    BY <1>5 DEF Telling
  <2>2. QED BY <1>5, <2>1 DEF apply_value, ShowLight
<1>6. CASE kind = "sensor"
  BY <1>6 DEF apply_value
<1>7. QED BY <1>1, <1>2, <1>3, <1>4, <1>5, <1>6 DEF AllKinds

\* Showing a value makes what is shown right for it.
LEMMA ShowsRight ==
    ASSUME kind \in AllKinds, NEW raw \in WireOf[kind], NEW x
    PROVE  Right(raw, apply_value(raw, x))
BY TellingShows DEF Right

\* A report joins those of a trait, the last of which is what the device holds.
LEMMA ReportJoins ==
    ASSUME ControlTyped, NEW w \in WireOf[kind], Reported(w)
    PROVE  /\ reports' \in Seq(WireOf[kind])
           /\ optimistic => reports' = <<>>
           /\ reports' # <<>> => armed /\ reports'[Len(reports')] = w
           /\ armed /\ ~optimistic => reports' # <<>>
<1>1. CASE ~optimistic /\ armed
  <2>1. reports' = Append(reports, w) /\ reports \in Seq(WireOf[kind])
    BY <1>1 DEF Reported, ControlTyped
  <2>2. QED BY <1>1, <2>1
<1>2. CASE ~(~optimistic /\ armed)
  BY <1>2 DEF Reported, ControlTyped
<1>3. QED BY <1>1, <1>2

\* A write is made.
LEMMA WriteKeeps ==
    ASSUME ControlsInv, NEW w \in Writable(kind), Write(w) PROVE ControlsInv'
<1> DEFINE r == [wire |-> w, state |-> "sent", heard |-> TRUE]
<1>1. /\ writes' = Append(writes, r) /\ linked /\ added
      /\ UNCHANGED <<kind, optimistic, added, display, device, reports, linked, armed,
                     announced>>
  BY DEF Write, entityAvailable, unlinked
<1>2. writes \in Seq(Writing) /\ SentLast(writes)
  BY DEF ControlsInv, ControlTyped
<1>3. r \in Writing /\ r.state = "sent" /\ r.heard = TRUE
  <2>1. w \in WireOf[kind]
    BY DEF Writable
  <2>2. QED BY <2>1 DEF Writing
<1> HIDE DEF r
<1>4. /\ writes' \in Seq(Writing)
      /\ SentLast(writes')
      /\ Len(writes) \in Nat /\ Len(writes') = Len(writes) + 1
      /\ writes'[Len(writes) + 1] = r
      /\ \A i \in 1..Len(writes) : writes'[i] = writes[i]
      /\ \A i \in Latest(writes') : i \in Latest(writes)
      /\ NoneApplied(writes') => NoneApplied(writes)
  BY <1>1, <1>2, <1>3, CallJoins
<1>5. Writing' = Writing /\ \A raw, x : Right(raw, x)' <=> Right(raw, x)
  BY <1>1 DEF Writing, Right, Telling, apply_value
<1>6. ControlTyped'
  BY <1>1, <1>4, <1>5 DEF ControlsInv, ControlTyped
<1>7. TraitRight'
  BY <1>1, <1>5 DEF ControlsInv, TraitRight, Right, Telling, apply_value
<1>8. SettingRight'
  <2>1. \A i \in 1..Len(writes') : i \in 1..Len(writes) \/ i = Len(writes) + 1
    BY <1>4
  <2>2. \A i \in Latest(writes) : i \in 1..Len(writes)
    BY DEF Latest
  <2>3. Right(device, display)' <=> Right(device, display)
    BY <1>1 DEF Right, Telling, apply_value
  <2>4. QED BY <1>1, <1>3, <1>4, <2>1, <2>2, <2>3 DEF ControlsInv, SettingRight
<1>9. QED BY <1>6, <1>7, <1>8 DEF ControlsInv

\* What is right stays so while neither the device nor what is shown changes.
LEMMA RightStays ==
    ASSUME UNCHANGED kind
    PROVE  /\ Writing' = Writing /\ WireOf[kind]' = WireOf[kind]
           /\ \A raw, x : Telling(raw)' <=> Telling(raw)
           /\ \A raw, x : apply_value(raw, x)' = apply_value(raw, x)
           /\ UNCHANGED <<device, display>> =>
                  (Right(device, display)' <=> Right(device, display))
BY DEF Writing, Telling, apply_value, Right

\* The device takes a write.
LEMMA AppliesKeeps == ASSUME ControlsInv, NEW i, WriteApplies(i) PROVE ControlsInv'
<1> DEFINE q == writes
           n == writes'
           t == [writes[i] EXCEPT !.state = "applied"]
<1>1. /\ Replaces(n, q, i, t) /\ device' = q[i].wire
      /\ q[i].state = "sent" /\ \A j \in 1..(i - 1) : q[j].state # "sent"
      /\ i \in DOMAIN q /\ linked /\ Reported(q[i].wire)
      /\ announced' = IF optimistic THEN q[i].heard ELSE armed
      /\ UNCHANGED <<kind, optimistic, added, display, linked, armed>>
  BY DEF WriteApplies, WriteArrives, Replaces
<1>2. q \in Seq(Writing) /\ SentLast(q) /\ q[i] \in Writing
  BY <1>1 DEF ControlsInv, ControlTyped
<1>3. t \in Writing /\ t.state = "applied" /\ t.heard = q[i].heard /\ t.wire = q[i].wire
  BY <1>2 DEF Writing
<1> HIDE DEF t
<1>4. /\ n \in Seq(Writing) /\ Len(n) = Len(q) /\ n[i] = t /\ i \in 1..Len(q)
      /\ \A j \in 1..Len(q) \ {i} : n[j] = q[j]
      /\ SentLast(n) /\ ~NoneApplied(n) /\ \A k \in Latest(n) : k = i
  BY <1>1, <1>2, <1>3, CallChanges
<1>5. q[i].wire \in WireOf[kind]
  BY <1>2 DEF Writing
<1>6. /\ reports' \in Seq(WireOf[kind])
      /\ optimistic => reports' = <<>>
      /\ reports' # <<>> => armed /\ reports'[Len(reports')] = device'
      /\ armed /\ ~optimistic => reports' # <<>>
      /\ added
  <2>1. added
    BY <1>4 DEF ControlsInv, ControlTyped
  <2>2. QED BY <1>1, <1>5, <2>1, ReportJoins DEF ControlsInv
<1>7. ControlTyped'
  BY <1>1, <1>4, <1>5, <1>6, RightStays DEF ControlsInv, ControlTyped
<1>8. TraitRight'
  BY <1>1, <1>6 DEF TraitRight
<1>9. SettingRight'
  BY <1>1, <1>3, <1>4 DEF ControlsInv, SettingRight
<1>10. QED BY <1>7, <1>8, <1>9 DEF ControlsInv

\* A write is refused, or gives up.
LEMMA UnheardKeeps ==
    ASSUME ControlsInv, NEW i, WriteRefused(i) \/ WriteTimesOut(i) PROVE ControlsInv'
<1> DEFINE q == writes
           n == writes'
<1>1. /\ UNCHANGED <<kind, optimistic, added, display, device, reports, linked, armed>>
      /\ i \in DOMAIN q /\ q \in Seq(Writing) /\ SentLast(q)
  BY DEF WriteRefused, WriteTimesOut, WriteArrives, ControlsInv, ControlTyped, unlinked
<1>2. q[i] \in Writing /\ linked /\ added
  BY <1>1 DEF ControlsInv, ControlTyped
<1>3. CASE WriteRefused(i)
  <2> DEFINE t == [writes[i] EXCEPT !.state = "refused"]
  <2>1. /\ Replaces(n, q, i, t) /\ announced' = announced
        /\ q[i].state = "sent" /\ \A j \in 1..(i - 1) : q[j].state # "sent"
    BY <1>3 DEF WriteRefused, WriteArrives, Replaces
  <2>2. t \in Writing /\ t.state = "refused"
    BY <1>1, <1>2 DEF Writing
  <2> HIDE DEF t
  <2>3. /\ n \in Seq(Writing) /\ Len(n) = Len(q) /\ n[i] = t /\ i \in 1..Len(q)
        /\ \A j \in 1..Len(q) \ {i} : n[j] = q[j]
        /\ SentLast(n)
        /\ NoneApplied(n) => NoneApplied(q)
        /\ \A k \in Latest(n) : k # i /\ k \in Latest(q)
    BY <1>1, <2>1, <2>2, CallChanges
  <2>4. ControlTyped'
    BY <1>1, <1>2, <2>3, RightStays DEF ControlsInv, ControlTyped
  <2>5. TraitRight'
    BY <1>1, <2>1, RightStays DEF ControlsInv, TraitRight
  <2>6. \A k \in Latest(q) : k \in 1..Len(q)
    BY DEF Latest
  <2>7. SettingRight'
    BY <1>1, <2>1, <2>2, <2>3, <2>6, RightStays DEF ControlsInv, SettingRight
  <2>8. QED BY <2>4, <2>5, <2>7 DEF ControlsInv
<1>4. CASE WriteTimesOut(i)
  <2> DEFINE t == [writes[i] EXCEPT !.heard = FALSE]
  <2>1. /\ Replaces(n, q, i, t)
        /\ announced' = (announced /\ (optimistic => q[i].state # "applied"))
    BY <1>4 DEF WriteTimesOut, Replaces
  <2>2. t \in Writing /\ t.state = q[i].state
    BY <1>1, <1>2 DEF Writing
  <2> HIDE DEF t
  <2>3. /\ n \in Seq(Writing) /\ Len(n) = Len(q) /\ n[i] = t /\ i \in 1..Len(q)
        /\ \A j \in 1..Len(q) \ {i} : n[j] = q[j]
        /\ SentLast(n)
        /\ q[i].state # "applied" =>
               /\ NoneApplied(n) => NoneApplied(q)
               /\ \A k \in Latest(n) : k # i /\ k \in Latest(q)
    BY <1>1, <2>1, <2>2, CallChanges
  <2>4. ControlTyped'
    BY <1>1, <1>2, <2>3, RightStays DEF ControlsInv, ControlTyped
  <2>5. TraitRight'
    BY <1>1, <2>1, RightStays DEF ControlsInv, TraitRight
  <2>6. \A k \in Latest(q) : k \in 1..Len(q)
    BY DEF Latest
  <2>7. SettingRight'
    BY <1>1, <2>1, <2>2, <2>3, <2>6, RightStays DEF ControlsInv, SettingRight
  <2>8. QED BY <2>4, <2>5, <2>7 DEF ControlsInv
<1>5. QED BY <1>3, <1>4

\* The oldest write is answered.
LEMMA ReturnsKeeps == ASSUME ControlsInv, WriteReturns PROVE ControlsInv'
<1> DEFINE r == Head(writes)
<1>1. /\ linked /\ writes # <<>> /\ writes' = Tail(writes) /\ display' = ShownAfter(r)
      /\ UNCHANGED <<kind, optimistic, added, device, reports, linked, armed, announced>>
      /\ writes \in Seq(Writing) /\ SentLast(writes) /\ kind \in AllKinds /\ added
  BY DEF WriteReturns, ControlsInv, ControlTyped
<1>2. /\ writes' \in Seq(Writing) /\ r = writes[1] /\ 1 \in 1..Len(writes) /\ r \in Writing
      /\ \A i \in 1..Len(writes') : i + 1 \in 1..Len(writes) /\ writes'[i] = writes[i + 1]
  BY <1>1, HeadTail
<1>3. /\ SentLast(writes')
      /\ \A i \in Latest(writes') : i + 1 \in Latest(writes) /\ writes'[i] = writes[i + 1]
      /\ NoneApplied(writes') /\ r.state = "applied" => 1 \in Latest(writes)
      /\ NoneApplied(writes') /\ r.state # "applied" => NoneApplied(writes)
  BY <1>1, CallLeaves
<1>4. ControlTyped'
  BY <1>1, <1>2, <1>3, RightStays DEF ControlsInv, ControlTyped
<1>5. ~optimistic => display' = display
  BY <1>1 DEF ShownAfter
<1>6. TraitRight'
  BY <1>1, <1>5, RightStays DEF ControlsInv, TraitRight
<1>7. ASSUME announced, optimistic, NoneApplied(writes') PROVE Right(device, display')
  <2>1. /\ \A i \in Latest(writes) : writes[i].heard /\ writes[i].wire = device
        /\ NoneApplied(writes) => Right(device, display)
    BY <1>2, <1>7 DEF ControlsInv, SettingRight
  <2>2. CASE r.state = "applied"
    <3>1. display' = apply_value(r.wire, display) /\ r.wire = device
      BY <1>1, <1>2, <1>3, <1>7, <2>1, <2>2 DEF ShownAfter
    <3>2. r.wire \in WireOf[kind]
      BY <1>2 DEF Writing
    <3>3. QED BY <1>1, <3>1, <3>2, ShowsRight
  <2>3. CASE r.state # "applied"
    BY <1>1, <1>3, <1>7, <2>1, <2>3 DEF ShownAfter
  <2>4. QED BY <2>2, <2>3
<1>8. Right(device, display)' <=> Right(device, display')
  BY <1>1, RightStays DEF Right
<1>9. SettingRight'
  BY <1>1, <1>2, <1>3, <1>7, <1>8 DEF ControlsInv, SettingRight
<1>10. QED BY <1>4, <1>6, <1>9 DEF ControlsInv

\* A seed is staged, or the entity is added with those there are.
LEMMA SeedControlKeeps ==
    ASSUME ControlsInv, SeedControl \/ RegisterControl PROVE ControlsInv'
<1>1. /\ ~added /\ writes = <<>> /\ kind \in AllKinds /\ device \in WireOf[kind]
      /\ UNCHANGED <<kind, optimistic, device, writes, reports, linked, armed>>
  BY DEF SeedControl, RegisterControl, ControlsInv, ControlTyped
<1>2. ControlTyped'
  BY <1>1, RightStays DEF ControlsInv, ControlTyped
<1>3. Len(writes') = 0 /\ Latest(writes') = {} /\ NoneApplied(writes)
  BY <1>1 DEF Latest, NoneApplied
<1>4. Right(device, display)' <=> Right(device, display')
  BY <1>1, RightStays DEF Right
<1>5. announced' => Right(device, display')
  <2>1. CASE SeedControl
    BY <1>1, <2>1, ShowsRight DEF SeedControl
  <2>2. CASE RegisterControl
    BY <1>1, <1>3, <2>2 DEF RegisterControl, ControlsInv, TraitRight, SettingRight
  <2>3. QED BY <2>1, <2>2
<1>6. QED BY <1>1, <1>2, <1>3, <1>4, <1>5 DEF ControlsInv, TraitRight, SettingRight

\* A report is routed to the entity.
LEMMA HearKeeps == ASSUME ControlsInv, Hear PROVE ControlsInv'
<1> DEFINE w == Head(reports)
<1>1. /\ reports # <<>> /\ reports' = Tail(reports)
      /\ display' = IF added THEN apply_value(w, display) ELSE display
      /\ announced' = (announced \/ added)
      /\ UNCHANGED <<kind, optimistic, added, device, writes, linked, armed>>
      /\ linked /\ ~optimistic /\ kind \in AllKinds
      /\ reports \in Seq(WireOf[kind])
  BY DEF Hear, Heard, ControlsInv, ControlTyped
<1>2. /\ w \in WireOf[kind] /\ reports' \in Seq(WireOf[kind])
      /\ Len(reports) \in Nat \ {0} /\ w = reports[1] /\ Len(reports') = Len(reports) - 1
      /\ \A i \in 1..Len(reports') : i + 1 \in 1..Len(reports) /\ reports'[i] = reports[i + 1]
  BY <1>1, HeadTail
<1>3. ControlTyped'
  BY <1>1, <1>2, RightStays DEF ControlsInv, ControlTyped
<1>4. Right(device, display)' <=> Right(device, display')
  BY <1>1, RightStays DEF Right
<1>5. reports[Len(reports)] = device
  BY <1>1 DEF ControlsInv, TraitRight
<1>6. reports' # <<>> => reports'[Len(reports')] = device
  <2> SUFFICES ASSUME reports' # <<>> PROVE reports'[Len(reports')] = device
    OBVIOUS
  <2>1. Len(reports') \in 1..Len(reports')
    BY <1>2
  <2>2. QED BY <1>2, <1>5, <2>1
<1>7. ASSUME announced', reports' = <<>> \/ ~added PROVE Right(device, display')
  <2>1. CASE ~added
    BY <1>1, <1>7, <2>1 DEF ControlsInv, TraitRight
  <2>2. CASE added
    <3>1. Len(reports') = 0
      BY <1>7, <2>2
    <3>2. Len(reports) = 1
      BY <1>2, <3>1
    <3>3. w = device
      BY <1>2, <1>5, <3>2
    <3>4. QED BY <1>1, <1>2, <2>2, <3>3, ShowsRight
  <2>3. QED BY <2>1, <2>2
<1>8. TraitRight' /\ SettingRight'
  BY <1>1, <1>4, <1>6, <1>7 DEF TraitRight, SettingRight
<1>9. QED BY <1>3, <1>8 DEF ControlsInv

\* Somebody else changes the device; the link is lost, comes back, and is armed.
LEMMA WorldKeeps ==
    ASSUME ControlsInv,
           (\E w \in WireOf[kind] : ChangedElsewhere(w)) \/ Drop \/ Restore \/ Arm
    PROVE  ControlsInv'
<1>1. ASSUME NEW w \in WireOf[kind], ChangedElsewhere(w) PROVE ControlsInv'
  <2>1. /\ device' = w /\ Reported(w)
        /\ announced' = (added /\ armed /\ ~optimistic)
        /\ UNCHANGED <<kind, optimistic, added, display, writes, linked, armed>>
    BY <1>1 DEF ChangedElsewhere
  <2>2. /\ reports' \in Seq(WireOf[kind])
        /\ optimistic => reports' = <<>>
        /\ reports' # <<>> => armed /\ reports'[Len(reports')] = device'
        /\ armed /\ ~optimistic => reports' # <<>>
    BY <2>1, ReportJoins DEF ControlsInv
  <2>3. ControlTyped'
    BY <2>1, <2>2, RightStays DEF ControlsInv, ControlTyped
  <2>4. QED BY <2>1, <2>2, <2>3 DEF ControlsInv, TraitRight, SettingRight
<1>2. CASE Drop
  <2>1. /\ linked' = FALSE /\ armed' = FALSE /\ writes' = <<>> /\ reports' = <<>>
        /\ announced' = (announced /\ reports = <<>> /\
                \A i \in DOMAIN writes : optimistic => writes[i].state # "applied")
        /\ UNCHANGED <<kind, optimistic, added, display, device>>
    BY <1>2 DEF Drop, unlinked
  <2>2. /\ writes' \in Seq(Writing) /\ reports' \in Seq(WireOf[kind])
        /\ SentLast(writes') /\ Len(writes') = 0 /\ Latest(writes') = {}
    BY <2>1 DEF SentLast, Latest
  <2>3. ControlTyped'
    BY <2>1, <2>2, RightStays DEF ControlsInv, ControlTyped
  <2>4. announced' /\ optimistic => NoneApplied(writes)
    <3>1. DOMAIN writes = 1..Len(writes)
      BY DEF ControlsInv, ControlTyped
    <3>2. QED BY <2>1, <3>1 DEF NoneApplied
  <2>5. Right(device, display)' <=> Right(device, display)
    BY <2>1, RightStays
  <2>6. announced' => Right(device, display)
    BY <2>1, <2>4 DEF ControlsInv, TraitRight, SettingRight
  <2>7. QED BY <2>1, <2>2, <2>3, <2>5, <2>6 DEF ControlsInv, TraitRight, SettingRight
<1>3. CASE Restore \/ Arm
  <2>1. /\ UNCHANGED <<kind, optimistic, added, display, device, writes, reports, announced>>
        /\ linked' = TRUE /\ (armed => armed')
    BY <1>3 DEF Restore, Arm, unlinked
  <2>2. ControlTyped'
    BY <2>1, RightStays DEF ControlsInv, ControlTyped
  <2>3. QED BY <2>1, <2>2, RightStays DEF ControlsInv, TraitRight, SettingRight
<1>4. QED BY <1>1, <1>2, <1>3

\* Every step preserves the invariant.
LEMMA ControlsNextInv == ControlsInv /\ [ControlsNext]_controlVars => ControlsInv'
<1> SUFFICES ASSUME ControlsInv, [ControlsNext]_controlVars PROVE ControlsInv'
  OBVIOUS
<1>1. CASE UNCHANGED controlVars
  <2>1. UNCHANGED <<kind, optimistic, added, display, device, writes, reports, linked,
                    armed, announced>>
    BY <1>1 DEF controlVars
  <2>2. QED
    BY <2>1, RightStays DEF ControlsInv, ControlTyped, TraitRight, SettingRight
<1>2. QED
  BY <1>1, WriteKeeps, AppliesKeeps, UnheardKeeps, ReturnsKeeps, SeedControlKeeps, HearKeeps,
     WorldKeeps DEF ControlsNext

\* The inductive invariant of an entity that writes or shows.
THEOREM ControlsInvariant == ASSUME ControlsAssumption PROVE ControlsSpec => []ControlsInv
<1>1. ControlsInit => ControlsInv
  <2> SUFFICES ASSUME ControlsInit PROVE ControlsInv
    OBVIOUS
  <2>1. /\ writes \in Seq(Writing) /\ reports \in Seq(WireOf[kind]) /\ SentLast(writes)
    BY DEF ControlsInit, SentLast
  <2>2. ControlTyped
    BY <2>1 DEF ControlsAssumption, ControlsInit, ControlTyped
  <2>3. QED BY <2>2 DEF ControlsInit, ControlsInv, TraitRight, SettingRight
<1>2. QED BY <1>1, ControlsNextInv, PTL DEF ControlsSpec

\* Once nothing is under way an entity whose device's last change was told shows
\* what the device holds, for every kind of entity and any number of writes and
\* reports, lost links, refusals and timeouts (switch.py:51-72, base.py:457-470,
\* coordinator.py:716-720).
THEOREM EntityShowsDevice == ASSUME ControlsAssumption PROVE ControlsSpec => []ShownSettles
<1>1. ControlsInv => ShownSettles
  <2> SUFFICES ASSUME ControlsInv, added, announced, writes = <<>>, reports = <<>>
               PROVE  Right(device, display)
    BY DEF ShownSettles, Right
  <2>1. NoneApplied(writes)
    BY DEF NoneApplied
  <2>2. CASE optimistic
    BY <2>1, <2>2 DEF ControlsInv, SettingRight
  <2>3. CASE ~optimistic
    BY <2>3 DEF ControlsInv, TraitRight
  <2>4. QED BY <2>2, <2>3
<1>2. QED BY <1>1, ControlsInvariant, PTL

-----------------------------------------------------------------------------
(* Light: the conversions *)

\* What is left of a division.
LEMMA Division ==
    ASSUME NEW a \in Nat, NEW b \in Nat \ {0}
    PROVE  /\ a \div b \in Nat /\ a % b \in Nat
           /\ a = b * (a \div b) + (a % b) /\ a % b < b
OBVIOUS

\* The result is off by half at most; nothing else is off by less.
LEMMA RoundedNear ==
    ASSUME NEW a \in Nat, NEW b \in Nat \ {0}
    PROVE  /\ Rounded(a, b) \in Nat
           /\ 2 * (b * Rounded(a, b)) <= 2 * a + b
           /\ 2 * a <= 2 * (b * Rounded(a, b)) + b
<1> DEFINE q == a \div b
           r == a % b
<1>1. q \in Nat /\ r \in Nat /\ a = b * q + r /\ r < b
  BY Division
<1>2. Rounded(a, b) = IF 2 * r < b \/ (2 * r = b /\ q % 2 = 0) THEN q ELSE q + 1
  BY DEF Rounded
<1> HIDE DEF q, r
<1>3. (Rounded(a, b) = q /\ 2 * r <= b) \/ (Rounded(a, b) = q + 1 /\ 2 * r >= b)
  BY <1>1, <1>2
<1>4. b * (q + 1) = b * q + b
  BY <1>1
<1>5. b * q \in Nat
  BY <1>1
<1>6. QED BY <1>1, <1>3, <1>4, <1>5

LEMMA RoundedExact ==
    ASSUME NEW a \in Nat, NEW b \in Nat \ {0}, NEW n \in Nat,
           2 * (b * n) < 2 * a + b, 2 * a < 2 * (b * n) + b
    PROVE  Rounded(a, b) = n
<1> DEFINE m == Rounded(a, b)
<1>1. m \in Nat /\ 2 * (b * m) <= 2 * a + b /\ 2 * a <= 2 * (b * m) + b
  BY RoundedNear
<1> HIDE DEF m
<1>2. ~(m < n)
  <2> SUFFICES ASSUME m + 1 <= n PROVE FALSE
    BY <1>1
  <2>1. b * (m + 1) <= b * n /\ b * (m + 1) = b * m + b
    BY <1>1
  <2>2. b * m \in Nat /\ b * n \in Nat
    BY <1>1
  <2>3. QED BY <1>1, <2>1, <2>2
<1>3. ~(n < m)
  <2> SUFFICES ASSUME n + 1 <= m PROVE FALSE
    BY <1>1
  <2>1. b * (n + 1) <= b * m /\ b * (n + 1) = b * n + b
    BY <1>1
  <2>2. b * m \in Nat /\ b * n \in Nat
    BY <1>1
  <2>3. QED BY <1>1, <2>1, <2>2
<1>4. QED BY <1>1, <1>2, <1>3 DEF m

\* A percent survives the way over Home Assistant's level and back.
LEMMA LevelSurvives == \A p \in 0..100 : Percent(Level(p)) = p
<1> SUFFICES ASSUME NEW p \in 0..100 PROVE Percent(Level(p)) = p
  OBVIOUS
<1> DEFINE l == Level(p)
<1>1. l \in Nat /\ 2 * (100 * l) <= 2 * (p * 255) + 100 /\ 2 * (p * 255) <= 2 * (100 * l) + 100
  BY RoundedNear DEF Level
<1> HIDE DEF l
<1>2. l * 100 \in Nat /\ 2 * (255 * p) < 2 * (l * 100) + 255 /\ 2 * (l * 100) < 2 * (255 * p) + 255
  BY <1>1
<1>3. Rounded(l * 100, 255) = p
  BY <1>2, RoundedExact
<1>4. QED BY <1>3 DEF Percent, l

\* A level of the user's is a percent.
LEMMA PercentInRange == \A b \in 1..255 : Percent(b) \in 0..100
<1> SUFFICES ASSUME NEW b \in 1..255 PROVE Percent(b) \in 0..100
  OBVIOUS
<1>1. b * 100 \in Nat /\ 255 \in Nat \ {0}
  OBVIOUS
<1>2. /\ Rounded(b * 100, 255) \in Nat
      /\ 2 * (255 * Rounded(b * 100, 255)) <= 2 * (b * 100) + 255
  BY <1>1, RoundedNear, SMTT(20)
<1>3. QED BY <1>2 DEF Percent

\* A colour temperature in kelvin.
LEMMA KelvinNat == \A m \in 1..1000 : Kelvin(m) \in Nat
<1> SUFFICES ASSUME NEW m \in 1..1000 PROVE Kelvin(m) \in Nat
  OBVIOUS
<1> DEFINE a == 1000000
<1>1. a \in Nat /\ m \in Nat \ {0}
  OBVIOUS
<1> HIDE DEF a
<1>2. Rounded(a, m) \in Nat
  BY <1>1, RoundedNear
<1>3. QED BY <1>2, SMT DEF a, Kelvin

\* A mired value up to 1000 survives the way over kelvin and back.
LEMMA MiredSurvives == \A m \in 1..1000 : Mired(Kelvin(m)) = m
<1> SUFFICES ASSUME NEW m \in 1..1000 PROVE Mired(Kelvin(m)) = m
  OBVIOUS
<1> DEFINE a == 1000000
           k == Kelvin(m)
<1>1. a \in Nat /\ m \in Nat \ {0}
  OBVIOUS
<1> HIDE DEF a
<1>2. LET r == Rounded(a, m)
      IN  r \in Nat /\ 2 * (m * r) <= 2 * a + m /\ 2 * a <= 2 * (m * r) + m
  BY <1>1, RoundedNear
<1>3. /\ k \in Nat /\ 2 * (m * k) <= 2 * 1000000 + m /\ 2 * 1000000 <= 2 * (m * k) + m
      /\ m * k = k * m
  BY <1>2, SMTT(20) DEF a, Kelvin
<1>4. CASE m = 1000
  <2>1. Rounded(1000000, 1000) = 1000
    BY RoundedExact
  <2>2. QED BY <1>4, <2>1 DEF Kelvin, Mired
<1>5. CASE m \in 1..999
  <2> HIDE DEF k
  <2>1. k > 999
    <3> SUFFICES ASSUME k <= 999 PROVE FALSE
      BY <1>3
    <3>1. m * k <= 999 * k
      BY <1>3, <1>5
    <3>2. QED BY <1>3, <1>5, <3>1
  <2>2. k \in Nat \ {0} /\ 2 * (k * m) < 2 * 1000000 + k /\ 2 * 1000000 < 2 * (k * m) + k
    BY <1>3, <1>5, <2>1
  <2>3. Rounded(1000000, k) = m
    BY <2>2, RoundedExact
  <2>4. QED BY <2>3 DEF k, Mired
<1>6. QED BY <1>4, <1>5

\* A coordinate survives the way over Home Assistant's and back.
LEMMA CoordinateSurvives ==
    ASSUME LightAssumption, NEW n \in 0..Coord
    PROVE  FromWire(n) \in Nat /\ ToWire(FromWire(n)) = n
<1> DEFINE u == FromWire(n)
<1>1. Coord \in Nat \ {0} /\ Unit \in Nat \ {0} /\ Coord < Unit /\ n * Unit \in Nat
  BY DEF LightAssumption
<1>2. /\ u \in Nat
      /\ 2 * (Coord * u) <= 2 * (n * Unit) + Coord
      /\ 2 * (n * Unit) <= 2 * (Coord * u) + Coord
  BY <1>1, RoundedNear DEF FromWire
<1> HIDE DEF u
<1>3. /\ u * Coord \in Nat /\ u * Coord = Coord * u /\ n * Unit = Unit * n
      /\ Unit * n \in Nat
  BY <1>1, <1>2
<1>4. 2 * (Unit * n) < 2 * (u * Coord) + Unit /\ 2 * (u * Coord) < 2 * (Unit * n) + Unit
  BY <1>1, <1>2, <1>3
<1>5. Rounded(u * Coord, Unit) = n
  BY <1>1, <1>3, <1>4, RoundedExact
<1>6. n % (Coord + 1) = n
  BY <1>1
<1>7. QED BY <1>2, <1>5, <1>6 DEF ToWire, u

\* A coordinate of the user's fits its half.
LEMMA CoordinateFits ==
    ASSUME LightAssumption, NEW u \in Nat PROVE ToWire(u) \in 0..Coord
<1>1. Coord \in Nat /\ Unit \in Nat \ {0} /\ u * Coord \in Nat
  BY DEF LightAssumption
<1>2. Rounded(u * Coord, Unit) \in Nat
  BY <1>1, RoundedNear
<1>3. \A r \in Nat : r % (Coord + 1) \in 0..Coord
  BY <1>1
<1>4. QED BY <1>2, <1>3 DEF ToWire

\* A packed colour has two halves, each of which is a coordinate.
LEMMA Halves ==
    ASSUME LightAssumption, NEW h \in PackedHues
    PROVE  /\ (h \div (Coord + 1)) % (Coord + 1) \in 0..Coord
           /\ h % (Coord + 1) \in 0..Coord
           /\ ((h \div (Coord + 1)) % (Coord + 1)) * (Coord + 1) + (h % (Coord + 1)) = h
<1> DEFINE w == Coord + 1
           q == h \div w
           r == h % w
<1>1. Coord \in Nat /\ w \in Nat \ {0} /\ h \in Nat /\ h <= Coord * w + Coord
  BY DEF LightAssumption, PackedHues
<1>2. q \in Nat /\ r \in Nat /\ h = w * q + r /\ r < w
  BY <1>1, Division
<1>3. r \in 0..Coord
  BY <1>1, <1>2
<1> HIDE DEF q, r
<1>4. q <= Coord
  <2> SUFFICES ASSUME Coord + 1 <= q PROVE FALSE
    BY <1>1, <1>2
  <2>1. w * (Coord + 1) <= w * q
    BY <1>1, <1>2
  <2>2. w * (Coord + 1) = Coord * w + w
    BY <1>1
  <2>3. w * q \in Nat /\ Coord * w \in Nat
    BY <1>1, <1>2
  <2>4. QED BY <1>1, <1>2, <2>1, <2>2, <2>3
<1>5. q % w = q
  BY <1>1, <1>2, <1>4
<1>6. q * w = w * q
  BY <1>1, <1>2
<1>7. q \in 0..Coord /\ r \in 0..Coord /\ q * w + r = h
  BY <1>1, <1>2, <1>3, <1>4, <1>6
<1>8. (q % w) \in 0..Coord /\ r \in 0..Coord /\ (q % w) * w + r = h
  BY <1>5, <1>7
<1>9. QED BY <1>8, Zenon DEF q, r

\* A colour that is taken apart and packed again is the same.
LEMMA HueSurvives ==
    ASSUME LightAssumption, NEW h \in PackedHues
    PROVE  Unpacked(h) \in Nat \X Nat /\ Packed(Unpacked(h)) = h
<1> DEFINE x == (h \div (Coord + 1)) % (Coord + 1)
           y == h % (Coord + 1)
<1>1. x \in 0..Coord /\ y \in 0..Coord /\ x * (Coord + 1) + y = h
  BY Halves, Zenon
<1> HIDE DEF x, y
<1>2. Unpacked(h) = <<FromWire(x), FromWire(y)>>
  BY DEF Unpacked, x, y
<1>3. /\ FromWire(x) \in Nat /\ ToWire(FromWire(x)) = x
      /\ FromWire(y) \in Nat /\ ToWire(FromWire(y)) = y
  BY <1>1, CoordinateSurvives
<1>4. QED BY <1>1, <1>2, <1>3 DEF Packed

\* A colour of the user's is a packed colour.
LEMMA PackedFits ==
    ASSUME LightAssumption, NEW xy \in Nat \X Nat PROVE Packed(xy) \in PackedHues
<1> DEFINE x == ToWire(xy[1])
           y == ToWire(xy[2])
<1>1. x \in 0..Coord /\ y \in 0..Coord
  BY CoordinateFits
<1> HIDE DEF x, y
<1>2. Coord \in Nat /\ x \in Nat /\ x <= Coord /\ y \in Nat /\ y <= Coord
  BY <1>1 DEF LightAssumption
<1>3. x * (Coord + 1) <= Coord * (Coord + 1) /\ x * (Coord + 1) \in Nat
  BY <1>2
<1>4. x * (Coord + 1) + y \in 0..(Coord * (Coord + 1) + Coord)
  BY <1>2, <1>3
<1>5. QED BY <1>4 DEF Packed, PackedHues, x, y

\* What the user and the lamp use is within the range of the conversions.
LEMMA InRange ==
    ASSUME LightAssumption
    PROVE  /\ \A b \in UserLevels : Percent(b) \in 0..100
           /\ \A p \in Percents : p \in 0..100
           /\ \A m \in Mireds : Mired(Kelvin(m)) \in Mireds
           /\ \A m \in Mireds : Kelvin(m) \in Nat
           /\ \A m \in Mireds : Mired(Kelvin(m)) = m
           /\ Hues \subseteq PackedHues
           /\ \A xy \in Colours : Packed(xy) \in PackedHues
<1> DEFINE L == 1..255
           P == 0..100
           M == 1..1000
<1>1. UserLevels \subseteq L /\ Percents \subseteq P /\ Mireds \subseteq M
  BY Zenon DEF LightAssumption
<1>2. /\ \A b \in L : Percent(b) \in P
      /\ \A m \in M : Mired(Kelvin(m)) = m
      /\ \A m \in M : Kelvin(m) \in Nat
  BY PercentInRange, MiredSurvives, KelvinNat
<1> HIDE DEF L, P, M
<1>3. /\ \A b \in UserLevels : Percent(b) \in P
      /\ \A p \in Percents : p \in P
      /\ \A m \in Mireds : Mired(Kelvin(m)) = m
      /\ \A m \in Mireds : Kelvin(m) \in Nat
  BY <1>1, <1>2
<1>4. Hues \subseteq PackedHues
  BY Zenon DEF LightAssumption
<1>5. \A xy \in Colours : Packed(xy) \in PackedHues
  <2>1. Colours \subseteq (0..Unit) \X (0..Unit) /\ Unit \in Nat
    BY DEF LightAssumption
  <2>2. \A xy \in Colours : xy \in Nat \X Nat
    BY <2>1
  <2>3. QED BY <2>2, PackedFits
<1>6. QED BY <1>3, <1>4, <1>5 DEF P

-----------------------------------------------------------------------------
(* Light: the lamp and its attributes *)

Modes == {"color_temp", "color_xy"}
Effects == Scenes \cup {NoEffect, "static"}
Lamps == [on : BOOLEAN, percent : 0..100, mired : Mireds, hue : PackedHues,
          mode : Modes, effect : Effects]
Shades == [on : BOOLEAN \cup {Unread}, level : Nat \cup {Unread},
           kelvin : Nat \cup {Unread}, xy : (Nat \X Nat) \cup {Unread},
           mode : Modes, effect : Effects]

\* The attributes show the value v of a component.
Reads(c, v) ==
    /\ c = "power" => attrs.on = v
    /\ c = "brightness" => attrs.level = Level(v)
    /\ c = "color_temp" => attrs.kelvin = Kelvin(v)
    /\ c = "color_xy" => attrs.xy = Unpacked(v)

\* What is under way is the lamp's; a component whose last change was told, or is
\* being told, is shown or under way.
LightInv ==
    /\ bulb \in Lamps /\ attrs \in Shades
    /\ \E S : components \in Seq(S)
    /\ \A i \in 1..Len(components) :
           /\ components[i][1] \in Components
           /\ components[i][2] = Value(bulb, components[i][1])
    /\ heardOf \subseteq Components
    /\ \A c \in heardOf :
           Reads(c, Value(bulb, c)) \/ \E i \in 1..Len(components) : components[i][1] = c

\* The lamp changes and reports what was written to it.
LEMMA Becomes ==
    ASSUME LightInv, components = <<>>, NEW new \in Lamps, NEW written \in Seq(Components),
           Become(new, written), attrs' \in Shades,
           attrs'.on = attrs.on, attrs'.level = attrs.level, attrs'.kelvin = attrs.kelvin,
           attrs'.xy = attrs.xy,
           \A c \in Components :
               (\E i \in 1..Len(written) : written[i] = c) \/ Value(new, c) = Value(bulb, c)
    PROVE  LightInv'
<1> DEFINE pair(c) == <<c, Value(new, c)>>
           Pairs == {pair(c) : c \in Components}
<1>1. bulb' = new /\ components' = [i \in 1..Len(written) |-> pair(written[i])]
  BY DEF Become
<1>2. \A c \in Components : pair(c) \in Pairs /\ pair(c)[1] = c /\ pair(c)[2] = Value(new, c)
  OBVIOUS
<1> HIDE DEF Pairs, pair
<1>3. /\ components' \in Seq(Pairs) /\ Len(components') = Len(written)
      /\ \A i \in 1..Len(written) : components'[i] = pair(written[i])
  BY <1>1, <1>2
<1>4. \A i \in 1..Len(components') :
          /\ components'[i][1] \in Components
          /\ components'[i][2] = Value(bulb', components'[i][1])
  BY <1>1, <1>2, <1>3
<1>5. ASSUME NEW c \in heardOf'
      PROVE  /\ c \in Components
             /\ Reads(c, Value(bulb, c))' \/ \E i \in 1..Len(components') : components'[i][1] = c
  <2>0. c \in Components /\ (c \in heardOf \/ \E i \in 1..Len(written) : written[i] = c)
    BY <1>5 DEF Become, LightInv
  <2>1. CASE \E i \in 1..Len(written) : written[i] = c
    BY <1>2, <1>3, <2>1
  <2>2. CASE c \in heardOf /\ Value(new, c) = Value(bulb, c)
    <3>1. Reads(c, Value(bulb, c))
      BY <2>2 DEF LightInv
    <3>2. Value(bulb, c)' = Value(bulb, c)
      BY <1>1, <2>2
    <3>3. Reads(c, Value(bulb, c))'
      BY <2>0, <3>1, <3>2 DEF Reads, Components
    <3>4. QED BY <2>0, <3>3
  <2>3. QED BY <2>0, <2>1, <2>2
<1>6. \E S : components' \in Seq(S)
  BY <1>3
<1>7. QED BY <1>1, <1>4, <1>5, <1>6 DEF LightInv

\* Two sequences of components.
LEMMA Written ==
    ASSUME NEW b, NEW c, {"power", b, c} \subseteq Components
    PROVE  /\ <<"power">> \in Seq(Components) /\ Len(<<"power">>) = 1
           /\ <<"power", b>> \in Seq(Components) /\ Len(<<"power", b>>) = 2
           /\ <<"power", b, c>> \in Seq(Components) /\ Len(<<"power", b, c>>) = 3
           /\ <<b>> \in Seq(Components) /\ Len(<<b>>) = 1
BY DEF Components

\* A component the lamp keeps has the value it had.
LEMMA SameValue ==
    ASSUME NEW l, NEW m, NEW c \in Components,
           c = "power" => l.on = m.on,
           c = "brightness" => l.percent = m.percent,
           c = "color_temp" => l.mired = m.mired,
           c = "color_xy" => l.hue = m.hue
    PROVE  Value(l, c) = Value(m, c)
BY DEF Value, Components

\* The lamp is turned on or off, set, or runs an effect.
LEMMA TurnKeeps ==
    ASSUME LightAssumption, LightInv,
           \/ \E b \in UserLevels : TurnOnLevel(b)
           \/ \E m \in Mireds : TurnOnKelvin(Kelvin(m))
           \/ \E xy \in Colours : TurnOnColour(xy)
           \/ TurnOff
    PROVE  LightInv'
<1> USE DEF LightInv
<1>1. ASSUME NEW b \in UserLevels, TurnOnLevel(b) PROVE LightInv'
  <2> DEFINE w == <<"power", "brightness">>
             l == [bulb EXCEPT !.on = TRUE, !.percent = Percent(b)]
  <2>1. Percent(b) \in 0..100
    BY InRange
  <2>2. /\ l \in Lamps /\ l.mired = bulb.mired /\ l.hue = bulb.hue
    BY <2>1 DEF Lamps
  <2>3. components = <<>> /\ Become(l, w) /\ UNCHANGED attrs
    BY <1>1 DEF TurnOnLevel
  <2>4. w \in Seq(Components) /\ Len(w) = 2 /\ w[1] = "power" /\ w[2] = "brightness"
    BY Written DEF Components
  <2> HIDE DEF l, w
  <2>5. \A c \in Components : (\E i \in 1..Len(w) : w[i] = c) \/ Value(l, c) = Value(bulb, c)
    BY <2>2, <2>4, SameValue DEF Components
  <2>6. QED BY <2>2, <2>3, <2>4, <2>5, Becomes
<1>2. ASSUME NEW m \in Mireds, TurnOnKelvin(Kelvin(m)) PROVE LightInv'
  <2> DEFINE w == <<"power", "color_temp">>
             l == [bulb EXCEPT !.on = TRUE, !.mired = Mired(Kelvin(m)),
                        !.mode = "color_temp", !.effect = NoEffect]
  <2>1. Mired(Kelvin(m)) \in Mireds
    BY InRange
  <2>2. /\ l \in Lamps /\ l.percent = bulb.percent /\ l.hue = bulb.hue
    BY <2>1 DEF Lamps, Modes, Effects
  <2>3. components = <<>> /\ Become(l, w) /\ UNCHANGED attrs
    BY <1>2 DEF TurnOnKelvin
  <2>4. w \in Seq(Components) /\ Len(w) = 2 /\ w[1] = "power" /\ w[2] = "color_temp"
    BY Written DEF Components
  <2> HIDE DEF l, w
  <2>5. \A c \in Components : (\E i \in 1..Len(w) : w[i] = c) \/ Value(l, c) = Value(bulb, c)
    BY <2>2, <2>4, SameValue DEF Components
  <2>6. QED BY <2>2, <2>3, <2>4, <2>5, Becomes
<1>3. ASSUME NEW xy \in Colours, TurnOnColour(xy) PROVE LightInv'
  <2> DEFINE w == <<"power", "color_xy">>
             h == Packed(xy)
             l == [bulb EXCEPT !.on = TRUE, !.hue = h, !.mode = "color_xy",
                        !.effect = NoEffect]
  <2>0. h \in PackedHues
    BY InRange
  <2>1. /\ l \in Lamps /\ l.percent = bulb.percent /\ l.mired = bulb.mired
    BY <2>0 DEF Lamps, Modes, Effects
  <2>2. components = <<>> /\ Become(l, w) /\ UNCHANGED attrs
    BY <1>3 DEF TurnOnColour
  <2>3. w \in Seq(Components) /\ Len(w) = 2 /\ w[1] = "power" /\ w[2] = "color_xy"
    BY Written DEF Components
  <2> HIDE DEF l, w
  <2>4. \A c \in Components : (\E i \in 1..Len(w) : w[i] = c) \/ Value(l, c) = Value(bulb, c)
    BY <2>1, <2>3, SameValue DEF Components
  <2>5. QED BY <2>1, <2>2, <2>3, <2>4, Becomes
<1>4. CASE TurnOff
  <2> DEFINE w == <<"power">>
             l == [bulb EXCEPT !.on = FALSE, !.effect = NoEffect]
  <2>1. l \in Lamps /\ l.percent = bulb.percent /\ l.mired = bulb.mired /\ l.hue = bulb.hue
    BY DEF Lamps, Effects
  <2>2. components = <<>> /\ Become(l, w) /\ UNCHANGED attrs
    BY <1>4 DEF TurnOff
  <2>3. w \in Seq(Components) /\ Len(w) = 1 /\ w[1] = "power"
    BY Written DEF Components
  <2> HIDE DEF l, w
  <2>4. \A c \in Components : (\E i \in 1..Len(w) : w[i] = c) \/ Value(l, c) = Value(bulb, c)
    BY <2>1, <2>3, SameValue DEF Components
  <2>5. QED BY <2>1, <2>2, <2>3, <2>4, Becomes
<1>5. QED BY <1>1, <1>2, <1>3, <1>4

\* An effect, a change from elsewhere.
LEMMA EffectKeeps ==
    ASSUME LightAssumption, LightInv,
           \/ \E e \in Scenes : DynamicEffect(e)
           \/ \E m \in Mireds, p \in {30, 100} : StaticEffect("static", m, p)
           \/ Elsewhere
    PROVE  LightInv'
<1> USE DEF LightInv
<1>1. ASSUME NEW e \in Scenes, DynamicEffect(e) PROVE LightInv'
  <2>1. PICK started \in BOOLEAN :
            /\ Become([bulb EXCEPT !.on = TRUE, !.effect = IF started THEN e ELSE bulb.effect],
                      <<"power">>)
            /\ attrs' = IF started THEN [attrs EXCEPT !.effect = e] ELSE attrs
    BY <1>1 DEF DynamicEffect
  <2> DEFINE w == <<"power">>
             f == IF started THEN e ELSE bulb.effect
             l == [bulb EXCEPT !.on = TRUE, !.effect = f]
  <2>2. f \in Effects
    BY DEF Lamps, Effects
  <2>3. Become(l, w)
    BY <2>1
  <2> HIDE DEF f
  <2>4. l \in Lamps /\ l.percent = bulb.percent /\ l.mired = bulb.mired /\ l.hue = bulb.hue
    BY <2>2 DEF Lamps
  <2>5. /\ attrs' \in Shades /\ attrs'.on = attrs.on /\ attrs'.level = attrs.level
        /\ attrs'.kelvin = attrs.kelvin /\ attrs'.xy = attrs.xy
    <3>1. e \in Effects
      BY DEF Effects
    <3>2. QED BY <2>1, <3>1 DEF Shades
  <2>6. w \in Seq(Components) /\ Len(w) = 1 /\ w[1] = "power"
    BY Written DEF Components
  <2> HIDE DEF l, w
  <2>7. \A c \in Components : (\E i \in 1..Len(w) : w[i] = c) \/ Value(l, c) = Value(bulb, c)
    BY <2>4, <2>6, SameValue DEF Components
  <2>8. components = <<>>
    BY <1>1 DEF DynamicEffect
  <2>9. QED BY <2>3, <2>4, <2>5, <2>6, <2>7, <2>8, Becomes
<1>2. ASSUME NEW m \in Mireds, NEW p \in {30, 100}, StaticEffect("static", m, p)
      PROVE  LightInv'
  <2> DEFINE w == <<"power", "color_temp", "brightness">>
             l == [bulb EXCEPT !.on = TRUE, !.mired = m, !.percent = p,
                        !.mode = "color_temp", !.effect = "static"]
  <2>1. components = <<>> /\ Become(l, w) /\ attrs' = [attrs EXCEPT !.effect = "static"]
    BY <1>2 DEF StaticEffect
  <2>2. p \in 0..100
    OBVIOUS
  <2>3. l \in Lamps /\ l.hue = bulb.hue
    BY <2>2 DEF Lamps, Modes, Effects
  <2>4. /\ attrs' \in Shades /\ attrs'.on = attrs.on /\ attrs'.level = attrs.level
        /\ attrs'.kelvin = attrs.kelvin /\ attrs'.xy = attrs.xy
    BY <2>1 DEF Shades, Effects
  <2>5. /\ w \in Seq(Components) /\ Len(w) = 3
        /\ w[1] = "power" /\ w[2] = "color_temp" /\ w[3] = "brightness"
    BY Written DEF Components
  <2> HIDE DEF l, w
  <2>6. \A c \in Components : (\E i \in 1..Len(w) : w[i] = c) \/ Value(l, c) = Value(bulb, c)
    BY <2>3, <2>5, SameValue DEF Components
  <2>7. QED BY <2>1, <2>3, <2>4, <2>5, <2>6, Becomes
<1>3. ASSUME NEW p \in Percents, components = <<>>,
             Become([bulb EXCEPT !.percent = p], <<"brightness">>), UNCHANGED attrs
      PROVE  LightInv'
  <2> DEFINE w == <<"brightness">>
             l == [bulb EXCEPT !.percent = p]
  <2>1. p \in 0..100
    BY InRange
  <2>2. l \in Lamps /\ l.on = bulb.on /\ l.mired = bulb.mired /\ l.hue = bulb.hue
    BY <2>1 DEF Lamps
  <2>3. w \in Seq(Components) /\ Len(w) = 1 /\ w[1] = "brightness"
    BY Written DEF Components
  <2>4. Become(l, w)
    BY <1>3
  <2> HIDE DEF l, w
  <2>5. \A c \in Components : (\E i \in 1..Len(w) : w[i] = c) \/ Value(l, c) = Value(bulb, c)
    BY <2>2, <2>3, SameValue DEF Components
  <2>6. QED BY <1>3, <2>2, <2>3, <2>4, <2>5, Becomes
<1>4. ASSUME NEW m \in Mireds, components = <<>>,
             Become([bulb EXCEPT !.mired = m, !.mode = "color_temp"], <<"color_temp">>),
             UNCHANGED attrs
      PROVE  LightInv'
  <2> DEFINE w == <<"color_temp">>
             l == [bulb EXCEPT !.mired = m, !.mode = "color_temp"]
  <2>1. l \in Lamps /\ l.on = bulb.on /\ l.percent = bulb.percent /\ l.hue = bulb.hue
    BY DEF Lamps, Modes
  <2>2. w \in Seq(Components) /\ Len(w) = 1 /\ w[1] = "color_temp"
    BY Written DEF Components
  <2>3. Become(l, w)
    BY <1>4
  <2> HIDE DEF l, w
  <2>4. \A c \in Components : (\E i \in 1..Len(w) : w[i] = c) \/ Value(l, c) = Value(bulb, c)
    BY <2>1, <2>2, SameValue DEF Components
  <2>5. QED BY <1>4, <2>1, <2>2, <2>3, <2>4, Becomes
<1>5. ASSUME NEW h \in Hues, components = <<>>,
             Become([bulb EXCEPT !.hue = h, !.mode = "color_xy"], <<"color_xy">>),
             UNCHANGED attrs
      PROVE  LightInv'
  <2> DEFINE w == <<"color_xy">>
             l == [bulb EXCEPT !.hue = h, !.mode = "color_xy"]
  <2>1. l \in Lamps /\ l.on = bulb.on /\ l.percent = bulb.percent /\ l.mired = bulb.mired
    BY InRange DEF Lamps, Modes
  <2>2. w \in Seq(Components) /\ Len(w) = 1 /\ w[1] = "color_xy"
    BY Written DEF Components
  <2>3. Become(l, w)
    BY <1>5
  <2> HIDE DEF l, w
  <2>4. \A c \in Components : (\E i \in 1..Len(w) : w[i] = c) \/ Value(l, c) = Value(bulb, c)
    BY <2>1, <2>2, SameValue DEF Components
  <2>5. QED BY <1>5, <2>1, <2>2, <2>3, <2>4, Becomes
<1>6. CASE Elsewhere
  BY <1>3, <1>4, <1>5, <1>6 DEF Elsewhere
<1>7. QED BY <1>1, <1>2, <1>6

\* What is under way is lost.
LEMMA LoseKeeps == ASSUME LightInv, LoseComponents PROVE LightInv'
<1>1. /\ components' = <<>> /\ UNCHANGED <<bulb, attrs>>
      /\ heardOf' = heardOf \ {components[i][1] : i \in DOMAIN components}
      /\ DOMAIN components = 1..Len(components)
  BY DEF LoseComponents, LightInv
<1>2. Len(components') = 0 /\ components' \in Seq({})
  BY <1>1
<1>3. ASSUME NEW c \in heardOf' PROVE c \in Components /\ Reads(c, Value(bulb, c))'
  <2>1. c \in heardOf /\ ~\E i \in 1..Len(components) : components[i][1] = c
    BY <1>1, <1>3
  <2>2. c \in Components /\ Reads(c, Value(bulb, c))
    BY <2>1 DEF LightInv
  <2>3. QED BY <1>1, <2>2 DEF Reads
<1>4. QED BY <1>1, <1>2, <1>3 DEF LightInv

\* A component of the right type is taken into the attributes: it is shown, and
\* the others are as they were.
LEMMA Applies ==
    ASSUME bulb \in Lamps, attrs \in Shades, NEW c \in Components,
           LightAssumption, attrs' = apply_component(c, Value(bulb, c)), UNCHANGED bulb
    PROVE  /\ attrs' \in Shades
           /\ Reads(c, Value(bulb, c))'
           /\ \A d \in Components \ {c} : Reads(d, Value(bulb, d)) => Reads(d, Value(bulb, d))'
<1>1. \A d : Value(bulb, d)' = Value(bulb, d)
  OBVIOUS
<1>2. CASE c = "power"
  <2>1. attrs' = [attrs EXCEPT !.on = bulb.on]
    BY <1>2 DEF apply_component, Value
  <2>2. bulb.on \in BOOLEAN /\ Value(bulb, c) = bulb.on
    BY <1>2 DEF Lamps, Value
  <2>3. QED BY <1>1, <1>2, <2>1, <2>2 DEF Shades, Reads, Components
<1>3. CASE c = "brightness"
  <2>1. attrs' = [attrs EXCEPT !.level = Level(bulb.percent)]
    BY <1>3 DEF apply_component, Value
  <2>2. Level(bulb.percent) \in Nat /\ Value(bulb, c) = bulb.percent
    <3>1. bulb.percent \in 0..100 /\ Value(bulb, c) = bulb.percent
      BY <1>3 DEF Lamps, Value
    <3>2. bulb.percent * 255 \in Nat /\ 100 \in Nat \ {0}
      BY <3>1
    <3>3. QED BY <3>1, <3>2, RoundedNear DEF Level
  <2>3. QED BY <1>1, <1>3, <2>1, <2>2 DEF Shades, Reads, Components
<1>4. CASE c = "color_temp"
  <2>1. attrs' = [attrs EXCEPT !.kelvin = Kelvin(bulb.mired), !.mode = "color_temp"]
    BY <1>4 DEF apply_component, Value
  <2>2. Kelvin(bulb.mired) \in Nat /\ Value(bulb, c) = bulb.mired
    <3>1. bulb.mired \in Mireds /\ Value(bulb, c) = bulb.mired
      BY <1>4 DEF Lamps, Value
    <3>2. QED BY <3>1, InRange
  <2>3. QED BY <1>1, <1>4, <2>1, <2>2 DEF Shades, Modes, Reads, Components
<1>5. CASE c = "color_xy"
  <2>1. attrs' = [attrs EXCEPT !.xy = Unpacked(bulb.hue), !.mode = "color_xy"]
    BY <1>5 DEF apply_component, Value
  <2>2. Unpacked(bulb.hue) \in Nat \X Nat /\ Value(bulb, c) = bulb.hue
    BY <1>5, HueSurvives DEF Lamps, Value
  <2>3. QED BY <1>1, <1>5, <2>1, <2>2 DEF Shades, Modes, Reads, Components
<1>6. QED BY <1>2, <1>3, <1>4, <1>5 DEF Components

\* A component is heard.
LEMMA HearComponentKeeps ==
    ASSUME LightAssumption, LightInv, HearComponent PROVE LightInv'
<1> DEFINE n == components'
<1>1. PICK S : components \in Seq(S)
  BY DEF LightInv
<1>2. /\ components # <<>> /\ n = Tail(components) /\ bulb' = bulb /\ heardOf' = heardOf
      /\ attrs' = apply_component(components[1][1], components[1][2])
  BY DEF HearComponent
<1>3. /\ n \in Seq(S) /\ 1 \in 1..Len(components) /\ Len(n) = Len(components) - 1
      /\ Len(components) \in Nat
      /\ \A i \in 1..Len(n) : i + 1 \in 1..Len(components) /\ n[i] = components[i + 1]
  BY <1>1, <1>2, HeadTail
<1>4. PICK c \in Components :
          c = components[1][1] /\ attrs' = apply_component(c, Value(bulb, c))
  BY <1>2, <1>3 DEF LightInv
<1>5. /\ attrs' \in Shades
      /\ Reads(c, Value(bulb, c))'
      /\ \A d \in Components \ {c} : Reads(d, Value(bulb, d)) => Reads(d, Value(bulb, d))'
  BY <1>2, <1>4, Applies DEF LightInv
<1>6. \A i \in 1..Len(n) : n[i][1] \in Components /\ n[i][2] = Value(bulb', n[i][1])
  BY <1>2, <1>3 DEF LightInv
<1>7. ASSUME NEW d \in heardOf'
      PROVE  Reads(d, Value(bulb, d))' \/ \E i \in 1..Len(n) : n[i][1] = d
  <2>1. CASE d = c
    BY <1>5, <2>1
  <2>2. CASE d # c /\ Reads(d, Value(bulb, d))
    BY <1>2, <1>5, <1>7, <2>2 DEF LightInv
  <2>3. CASE d # c /\ \E i \in 1..Len(components) : components[i][1] = d
    <3>1. PICK i \in 1..Len(components) : components[i][1] = d
      BY <2>3
    <3>2. i # 1
      BY <1>4, <2>3, <3>1
    <3>3. i - 1 \in 1..Len(n) /\ (i - 1) + 1 = i
      BY <1>3, <3>2
    <3>4. n[i - 1] = components[i]
      BY <1>3, <3>3
    <3>5. QED BY <3>1, <3>3, <3>4
  <2>4. d \in heardOf /\ d \in Components
    BY <1>2, <1>7 DEF LightInv
  <2>5. QED BY <2>1, <2>2, <2>3, <2>4 DEF LightInv
<1>8. \E T : n \in Seq(T)
  BY <1>3
<1>9. QED BY <1>2, <1>5, <1>6, <1>7, <1>8 DEF LightInv

\* Every step preserves the invariant.
LEMMA LightNextInv ==
    ASSUME LightAssumption PROVE LightInv /\ [LightNext]_lightVars => LightInv'
<1> SUFFICES ASSUME LightInv, [LightNext]_lightVars PROVE LightInv'
  OBVIOUS
<1>1. CASE UNCHANGED lightVars
  <2>1. UNCHANGED <<bulb, attrs, components, heardOf>>
    BY <1>1 DEF lightVars
  <2>2. \A c : Value(bulb, c)' = Value(bulb, c)
    BY <2>1
  <2>3. \A c \in Components : Reads(c, Value(bulb, c))' <=> Reads(c, Value(bulb, c))
    BY <2>1, <2>2 DEF Reads
  <2>4. QED BY <2>1, <2>2, <2>3 DEF LightInv
<1>2. QED
  BY <1>1, TurnKeeps, EffectKeeps, LoseKeeps, HearComponentKeeps DEF LightNext

\* The inductive invariant of a light.
THEOREM LightInvariant == ASSUME LightAssumption PROVE LightSpec => []LightInv
<1>1. LightInit => LightInv
  <2> SUFFICES ASSUME LightInit PROVE LightInv
    OBVIOUS
  <2>1. bulb \in Lamps /\ bulb.percent = 100 /\ bulb.on = FALSE /\ bulb.mired \in Mireds
        /\ bulb.hue \in PackedHues
    <3>1. bulb \in [on : {FALSE}, percent : {100}, mired : Mireds, hue : Hues,
                    mode : {"color_temp"}, effect : {NoEffect}]
      BY DEF LightInit
    <3>2. /\ bulb.on = FALSE /\ bulb.percent = 100 /\ bulb.mired \in Mireds
          /\ bulb.hue \in PackedHues /\ bulb.mode = "color_temp" /\ bulb.effect = NoEffect
      BY <3>1, InRange
    <3>3. FALSE \in BOOLEAN /\ 100 \in 0..100 /\ "color_temp" \in Modes /\ NoEffect \in Effects
      BY DEF Modes, Effects
    <3>4. bulb = [on |-> bulb.on, percent |-> bulb.percent, mired |-> bulb.mired,
                  hue |-> bulb.hue, mode |-> bulb.mode, effect |-> bulb.effect]
      BY <3>1
    <3>5. bulb \in Lamps
      BY <3>2, <3>3, <3>4 DEF Lamps
    <3>6. QED BY <3>2, <3>5
  <2>2. /\ Level(bulb.percent) \in Nat /\ Kelvin(bulb.mired) \in Nat
        /\ Unpacked(bulb.hue) \in Nat \X Nat
    <3>1. 100 * 255 \in Nat /\ 100 \in Nat \ {0}
      OBVIOUS
    <3>2. Rounded(100 * 255, 100) \in Nat
      BY <3>1, RoundedNear
    <3>3. Level(bulb.percent) \in Nat
      BY <2>1, <3>2 DEF Level
    <3>4. QED BY <2>1, <3>3, InRange, HueSurvives
  <2> DEFINE hinted(c, v) == IF c \in heardOf THEN v ELSE Unread
  <2>3. /\ attrs = [on |-> hinted("power", bulb.on),
                    level |-> hinted("brightness", Level(bulb.percent)),
                    kelvin |-> hinted("color_temp", Kelvin(bulb.mired)),
                    xy |-> hinted("color_xy", Unpacked(bulb.hue)),
                    mode |-> IF "color_xy" \in heardOf THEN "color_xy" ELSE "color_temp",
                    effect |-> NoEffect]
        /\ heardOf \subseteq Components
    BY DEF LightInit
  <2>4. attrs \in Shades
    BY <2>1, <2>2, <2>3 DEF Shades, Modes, Effects
  <2>5. ASSUME NEW c \in heardOf PROVE Reads(c, Value(bulb, c))
    BY <2>1, <2>3 DEF Reads, Value, Components
  <2>6. components = <<>> /\ components \in Seq({})
    BY DEF LightInit
  <2>7. QED BY <2>1, <2>3, <2>4, <2>5, <2>6 DEF LightInv
<1>2. QED BY <1>1, LightNextInv, PTL DEF LightSpec

\* What is shown of a component of a light whose last change was told, set again,
\* changes nothing: no conversion of a level, a colour temperature or a colour
\* there and back drifts, for any levels and colours of the user's, any percents,
\* mired values and colours of the lamp, and any width of a coordinate that Home
\* Assistant's resolve (light.py:94-117, 171-187, 219-223).
THEOREM NoLightDrifts == ASSUME LightAssumption PROVE LightSpec => []NothingDrifts
<1>1. LightInv => NothingDrifts
  <2> SUFFICES ASSUME LightInv, components = <<>>
               PROVE  /\ "power" \in heardOf => attrs.on = bulb.on
                      /\ "brightness" \in heardOf => Percent(attrs.level) = bulb.percent
                      /\ "color_temp" \in heardOf => Mired(attrs.kelvin) = bulb.mired
                      /\ "color_xy" \in heardOf => Packed(attrs.xy) = bulb.hue
    BY DEF NothingDrifts
  <2>1. \A c \in heardOf : Reads(c, Value(bulb, c))
    BY DEF LightInv
  <2>2. /\ "power" \in heardOf => attrs.on = Value(bulb, "power")
        /\ "brightness" \in heardOf => attrs.level = Level(Value(bulb, "brightness"))
        /\ "color_temp" \in heardOf => attrs.kelvin = Kelvin(Value(bulb, "color_temp"))
        /\ "color_xy" \in heardOf => attrs.xy = Unpacked(Value(bulb, "color_xy"))
    BY <2>1 DEF Reads
  <2>3. /\ Value(bulb, "power") = bulb.on
        /\ Value(bulb, "brightness") = bulb.percent
        /\ Value(bulb, "color_temp") = bulb.mired
        /\ Value(bulb, "color_xy") = bulb.hue
    BY DEF Value
  <2>4. bulb.percent \in 0..100 /\ bulb.mired \in Mireds /\ bulb.hue \in PackedHues
    BY DEF LightInv, Lamps
  <2>5. Percent(Level(bulb.percent)) = bulb.percent
    BY <2>4, LevelSurvives
  <2>6. Mired(Kelvin(bulb.mired)) = bulb.mired
    BY <2>4, InRange
  <2>7. Packed(Unpacked(bulb.hue)) = bulb.hue
    BY <2>4, HueSurvives
  <2>8. QED BY <2>2, <2>3, <2>5, <2>6, <2>7
<1>2. QED BY <1>1, LightInvariant, PTL

-----------------------------------------------------------------------------
(* Derive *)

\* A composer's table that takes each trait one way, and into one descriptor.
Plain(S) == /\ \A a, b \in S : a[1] = b[1] => a = b
            /\ \A a \in S : a[2] # "dual"

\* So are all of them but the lock's.
LEMMA PlainTables ==
    /\ Plain(button) /\ Plain(contact_sensor) /\ Plain(cube) /\ Plain(doorbell)
    /\ Plain(electrical_sensor) /\ Plain(humidity_sensor) /\ Plain(illuminance_sensor)
    /\ Plain(pressure_sensor) /\ Plain(temperature_sensor) /\ Plain(knob)
    /\ Plain(speaker) /\ Plain(switch) /\ Plain(thermostat) /\ Plain(vibration_sensor)
    /\ Plain(window_covering)
<1>1. Plain(button) /\ Plain(contact_sensor) /\ Plain(cube) /\ Plain(doorbell)
  BY DEF Plain, button, contact_sensor, cube, doorbell
<1>2. Plain(electrical_sensor) /\ Plain(humidity_sensor) /\ Plain(illuminance_sensor)
  BY DEF Plain, electrical_sensor, humidity_sensor, illuminance_sensor
<1>3. Plain(pressure_sensor) /\ Plain(temperature_sensor) /\ Plain(knob) /\ Plain(speaker)
  BY DEF Plain, pressure_sensor, temperature_sensor, knob, speaker
<1>4. Plain(switch) /\ Plain(vibration_sensor) /\ Plain(window_covering)
  BY DEF Plain, switch, vibration_sensor, window_covering
<1>5. Plain(thermostat)
  BY DEF Plain, thermostat
<1>6. QED
  BY <1>1, <1>2, <1>3, <1>4, <1>5

LEMMA PlainSchemes ==
    /\ \A code : Plain(recognition(code)) /\ Plain(detection(code))
                 /\ Plain(enum_event(code)) /\ Plain(id_event(code))
    /\ \A as : as # "dual" => Plain(occupancy_sensor(as))
  BY DEF Plain, recognition, detection, enum_event, id_event, occupancy_sensor

LEMMA PlainComposers ==
    \A ty \in DOMAIN Composers : ty # "DoorLock" => Plain(Composers[ty])
<1> SUFFICES ASSUME NEW ty \in DOMAIN Composers, ty # "DoorLock" PROVE Plain(Composers[ty])
  OBVIOUS
<1> QED BY PlainTables, PlainSchemes DEF Composers

\* The lock's makes two of some traits.
LEMMA Lock == Composers["DoorLock"] = door_lock
BY DEF Composers

LEMMA LockTable == \A a, b \in door_lock : a[1] = b[1] => a = b
BY DEF door_lock


\* A descriptor that reads one path, under a key made of it and a tag.
Describes(d, path, tags) == /\ d.key[1] = path /\ d.key[2] \in tags
                        /\ {r[1] : r \in d.reads} = {path}

LEMMA AboutItsTrait ==
    \A t, platform : Describes(Descriptor(t, platform), t.code, {"auto"})
<1> SUFFICES ASSUME NEW t, NEW platform
             PROVE  Describes(Descriptor(t, platform), t.code, {"auto"})
  OBVIOUS
<1>1. Descriptor(t, platform).reads = {<<t.code, "value">>}
  BY DEF Descriptor
<1>2. {r[1] : r \in {<<t.code, "value">>}} = {t.code}
  OBVIOUS
<1>3. Descriptor(t, platform).key = <<t.code, "auto">>
  BY DEF Descriptor
<1>4. QED BY <1>1, <1>2, <1>3 DEF Describes

LEMMA PlainDescriptor ==
    \A t, platform, d : d \in build_descriptor(t, platform)
                        => Describes(d, t.code, {"auto"}) /\ d = Descriptor(t, platform)
BY AboutItsTrait DEF build_descriptor

\* Any other way through gives one descriptor.
Single(t, as) ==
    IF as = "momentary" THEN [Descriptor(t, "binary_sensor") EXCEPT !.momentary = TRUE]
    ELSE IF as = "listed" THEN [Descriptor(t, "sensor") EXCEPT !.hashable = ~t.labels]
    ELSE Descriptor(t, as)

LEMMA OneDescriptor ==
    ASSUME NEW t, NEW as, as # "dual"
    PROVE  Absorb(t, as) = {Single(t, as)} /\ Describes(Single(t, as), t.code, {"auto"})
<1>1. Absorb(t, as) = {Single(t, as)}
  BY Zenon DEF Absorb, Single
<1>2. Single(t, as).key = <<t.code, "auto">>
  BY DEF Single, Descriptor
<1>3. Single(t, as).reads = {<<t.code, "value">>}
  BY DEF Single, Descriptor
<1>4. {r[1] : r \in {<<t.code, "value">>}} = {t.code}
  OBVIOUS
<1>5. QED BY <1>1, <1>2, <1>3, <1>4 DEF Describes

LEMMA TwoDescriptors ==
    ASSUME NEW t, NEW d \in Absorb(t, "dual")
    PROVE  /\ d \in {Descriptor(t, "sensor"), Binary(t)}
           /\ Describes(d, t.code, {"auto", "auto_binary"})
           /\ \A e \in Absorb(t, "dual") : e.key = d.key => e = d
<1>0. Absorb(t, "dual") = build_descriptor(t, "sensor") \cup {Binary(t)}
  BY Zenon DEF Absorb
<1>1. d \in {Descriptor(t, "sensor"), Binary(t)}
      /\ \A e \in Absorb(t, "dual") : e \in {Descriptor(t, "sensor"), Binary(t)}
  BY <1>0, PlainDescriptor
<1>2. Descriptor(t, "sensor").key # Binary(t).key
  BY DEF Binary, Descriptor
<1>3. Describes(Descriptor(t, "sensor"), t.code, {"auto", "auto_binary"})
      /\ Describes(Binary(t), t.code, {"auto", "auto_binary"})
  BY DEF Binary, Descriptor, Describes
<1>4. QED BY <1>1, <1>2, <1>3

LEMMA FallbackDescriptor ==
    ASSUME NEW t, NEW d \in Fallback(t)
    PROVE  Describes(d, t.code, {"auto"}) /\ \A e \in Fallback(t) : e = d
<1> DEFINE p == CASE t.kind = "bool"   -> IF t.writable THEN "switch" ELSE "binary_sensor"
          [] t.kind = "number" -> IF t.writable /\ t.ranged THEN "number" ELSE "sensor"
          [] t.kind = "enum"   -> IF t.writable /\ t.labels THEN "select" ELSE "sensor"
          [] OTHER -> "sensor"
<1>1. Fallback(t) = build_descriptor(t, p)
  BY DEF Fallback
<1> HIDE DEF p
<1>2. QED
  BY <1>1, PlainDescriptor

\* What a trait is made into: by its override or by its composer.
MadeOf(t) == IF t.platform # "none" THEN build_descriptor(t, t.platform) ELSE Composed(t)
Dual(path) == type = "DoorLock" /\ <<path, "dual">> \in door_lock


\* A composer takes a trait one way.
LEMMA TakenOnce ==
    /\ \A a, b \in Table : a[1] = b[1] => a = b
    /\ \A a \in Table : a[2] = "dual" => type = "DoorLock" /\ a \in door_lock
<1>1. CASE type = "DoorLock"
  BY <1>1, Lock, LockTable DEF Table
<1>2. CASE type # "DoorLock" /\ type \in DOMAIN Composers
  BY <1>2, PlainComposers DEF Table, Plain
<1>3. CASE type \notin DOMAIN Composers
  BY <1>3 DEF Table
<1>4. QED BY <1>1, <1>2, <1>3

LEMMA ComposedTaken ==
    ASSUME NEW t, NEW a \in Table, a[1] = t.code
    PROVE  Composed(t) = Absorb(t, a[2])
<1>1. {b \in Table : b[1] = t.code} = {a}
  BY TakenOnce
<1>2. UNION {Absorb(t, b[2]) : b \in {a}} = Absorb(t, a[2])
  OBVIOUS
<1>3. QED BY <1>1, <1>2 DEF Composed

\* One descriptor per trait, two of a lock's states, all reading the trait.
LEMMA MadeAbout ==
    ASSUME NEW t, NEW d \in MadeOf(t)
    PROVE  /\ Describes(d, t.code, {"auto", "auto_binary"})
           /\ \A e \in MadeOf(t) : e.key = d.key => e = d
           /\ ~Dual(t.code) => \A e \in MadeOf(t) : e = d
           /\ \/ \A e \in MadeOf(t) : e = d
              \/ \A e \in MadeOf(t) : e \in {Descriptor(t, "sensor"), Binary(t)}
<1>1. CASE t.platform # "none"
  BY <1>1, PlainDescriptor DEF MadeOf, Describes
<1>2. CASE t.platform = "none" /\ ~\E a \in Table : a[1] = t.code
  <2>1. MadeOf(t) = Fallback(t)
    BY <1>2 DEF MadeOf, Composed
  <2>2. QED BY <2>1, FallbackDescriptor DEF Describes
<1>3. ASSUME t.platform = "none", NEW a \in Table, a[1] = t.code, a[2] # "dual"
      PROVE  Describes(d, t.code, {"auto", "auto_binary"}) /\ \A e \in MadeOf(t) : e = d
  <2>1. MadeOf(t) = Absorb(t, a[2])
    BY <1>3, ComposedTaken DEF MadeOf
  <2>2. QED BY <1>3, <2>1, OneDescriptor DEF Describes
<1>4. ASSUME t.platform = "none", NEW a \in Table, a[1] = t.code, a[2] = "dual"
      PROVE  /\ Describes(d, t.code, {"auto", "auto_binary"}) /\ Dual(t.code)
             /\ \A e \in MadeOf(t) : e.key = d.key => e = d
             /\ \A e \in MadeOf(t) : e \in {Descriptor(t, "sensor"), Binary(t)}
  <2>1. MadeOf(t) = Absorb(t, "dual")
    BY <1>4, ComposedTaken DEF MadeOf
  <2>2. Dual(t.code)
    <3>1. type = "DoorLock" /\ a \in door_lock
      BY <1>4, TakenOnce
    <3>2. <<a[1], a[2]>> = a
      BY <3>1 DEF door_lock
    <3>3. QED BY <1>4, <3>1, <3>2 DEF Dual
  <2>3. QED BY <2>1, <2>2, TwoDescriptors
<1>5. QED BY <1>1, <1>2, <1>3, <1>4

Codes(ts) == {t.code : t \in ts}
PathsOf(d) == {r[1] : r \in d.reads}

\* An endpoint that is no light: each descriptor is made of one trait.
LEMMA ClassifiedIsMade ==
    ASSUME NEW ts, type # "Light", NEW d
    PROVE  d \in classify_v3(ts) <=> \E t \in ts : d \in MadeOf(t)
<1> DEFINE forced == {t \in ts : t.platform # "none"}
           left == Passthrough(ts)
           byOverride == UNION {build_descriptor(t, t.platform) : t \in forced}
           byComposer == UNION {Composed(t) : t \in left}
<1>1. classify_v3(ts) = byOverride \cup byComposer
  <2>1. classify_v3(ts) = byOverride \cup Compose(Passthrough(ts))
    BY DEF classify_v3
  <2>2. Compose(Passthrough(ts)) = byComposer
    BY DEF Compose
  <2>3. QED BY <2>1, <2>2
<1>2. d \in byOverride <=> \E t \in forced : d \in build_descriptor(t, t.platform)
  OBVIOUS
<1>3. d \in byComposer <=> \E t \in left : d \in Composed(t)
  OBVIOUS
<1>4. /\ \A t \in forced : build_descriptor(t, t.platform) = MadeOf(t)
      /\ \A t \in left : Composed(t) = MadeOf(t)
      /\ ts = forced \cup left
  BY DEF Passthrough, MadeOf
<1> HIDE DEF forced, left, byOverride, byComposer
<1>5. QED BY <1>1, <1>2, <1>3, <1>4

\* Of a light: its one light reads what it fuses, the others what is left.
LEMMA LightOrOther ==
    ASSUME NEW ts, type = "Light", NEW d \in classify_v3(ts)
    PROVE  \/ /\ d = LightDescriptor(ts)
              /\ d.key = <<"Output.OnOff", "auto">>
              /\ PathsOf(d) \subseteq Fused \cap Codes(ts)
           \/ \E t \in ts : t.code \notin Fused /\ d \in Fallback(t)
<1>1. \/ d = LightDescriptor(ts)
      \/ \E t \in ts : t.code \notin Fused /\ d \in Fallback(t)
  BY DEF classify_v3, ComposeLight
<1>2. LightDescriptor(ts).key = <<"Output.OnOff", "auto">>
  BY DEF LightDescriptor
<1>3. ASSUME NEW r \in LightDescriptor(ts).reads
      PROVE  r[1] \in Fused \cap Codes(ts)
  BY <1>3 DEF LightDescriptor, LightPart, HasTrait, Fused, Codes
<1>4. PathsOf(LightDescriptor(ts)) \subseteq Fused \cap Codes(ts)
  BY <1>3 DEF PathsOf
<1>5. QED BY <1>1, <1>2, <1>4

\* The derived descriptors, on a light as elsewhere: they read traits of the endpoint,
\* have keys of their own, and share a path at most as the two of a lock's state.
LEMMA DerivedReads ==
    ASSUME NEW ts, NEW d \in classify_v3(ts)
    PROVE  PathsOf(d) \subseteq Codes(ts) /\ d.key[2] \in {"auto", "auto_binary"}
<1>1. CASE type # "Light"
  BY <1>1, ClassifiedIsMade, MadeAbout DEF Describes, PathsOf, Codes
<1>2. CASE type = "Light"
  <2>1. CASE d = LightDescriptor(ts)
    BY <1>2, <2>1, LightOrOther, FallbackDescriptor DEF Describes, PathsOf, Codes
  <2>2. CASE \E t \in ts : t.code \notin Fused /\ d \in Fallback(t)
    BY <2>2, FallbackDescriptor DEF Describes, PathsOf, Codes
  <2>3. QED BY <1>2, <2>1, <2>2, LightOrOther
<1>3. QED BY <1>1, <1>2

LEMMA DerivedKeys ==
    ASSUME NEW ts, OnePerCode(ts), NEW d \in classify_v3(ts), NEW e \in classify_v3(ts),
           d.key = e.key
    PROVE  d = e
<1>1. CASE type # "Light"
  <2>1. PICK t \in ts, u \in ts : d \in MadeOf(t) /\ e \in MadeOf(u)
    BY <1>1, ClassifiedIsMade
  <2>2. t = u
    BY <2>1, MadeAbout DEF Describes, OnePerCode
  <2>3. QED BY <2>1, <2>2, MadeAbout
<1>2. CASE type = "Light"
  <2>1. "Output.OnOff" \in Fused
    BY DEF Fused
  <2>2. QED BY <1>2, <2>1, LightOrOther, FallbackDescriptor DEF Describes, OnePerCode
<1>3. QED BY <1>1, <1>2

LEMMA DerivedReaders ==
    ASSUME NEW ts, OnePerCode(ts), NEW p
    PROVE  \E x, y : /\ \A d \in classify_v3(ts) : p \in PathsOf(d) => d \in {x, y}
                     /\ ~Dual(p) => x = y
<1>1. CASE type # "Light"
  <2>1. CASE \A d \in classify_v3(ts) : p \notin PathsOf(d)
    BY <2>1
  <2>2. ASSUME NEW d \in classify_v3(ts), p \in PathsOf(d)
        PROVE  \E x, y : /\ \A e \in classify_v3(ts) : p \in PathsOf(e) => e \in {x, y}
                         /\ ~Dual(p) => x = y
    <3>1. PICK t \in ts : d \in MadeOf(t) /\ t.code = p
      BY <1>1, <2>2, ClassifiedIsMade, MadeAbout DEF Describes, PathsOf
    <3>2. ASSUME NEW e \in classify_v3(ts), p \in PathsOf(e)
          PROVE  e \in MadeOf(t)
      BY <1>1, <3>1, <3>2, ClassifiedIsMade, MadeAbout DEF Describes, PathsOf, OnePerCode
    <3>3. CASE \A e \in MadeOf(t) : e = d
      BY <3>2, <3>3
    <3>4. CASE Dual(p) /\ \A e \in MadeOf(t) : e \in {Descriptor(t, "sensor"), Binary(t)}
      BY <3>2, <3>4
    <3>5. QED BY <3>1, <3>3, <3>4, MadeAbout
  <2>3. QED BY <2>1, <2>2
<1>2. CASE type = "Light"
  <2>1. ASSUME NEW d \in classify_v3(ts), NEW e \in classify_v3(ts),
               p \in PathsOf(d), p \in PathsOf(e)
        PROVE  d = e
    <3>2. ASSUME NEW t \in ts, t.code \notin Fused, NEW c \in Fallback(t)
          PROVE  PathsOf(c) = {t.code}
      BY <3>2, FallbackDescriptor DEF Describes, PathsOf
    <3>3. CASE p \in Fused
      BY <1>2, <2>1, <3>2, <3>3, LightOrOther
    <3>4. CASE p \notin Fused
      <4>1. PICK t \in ts, u \in ts : /\ d \in Fallback(t) /\ t.code \notin Fused
                                      /\ e \in Fallback(u) /\ u.code \notin Fused
        BY <1>2, <2>1, <3>4, LightOrOther
      <4>2. t = u
        BY <2>1, <3>2, <4>1 DEF OnePerCode
      <4>3. QED BY <4>1, <4>2, FallbackDescriptor
    <3>5. QED BY <3>3, <3>4
  <2>2. CASE \A d \in classify_v3(ts) : p \notin PathsOf(d)
    BY <2>2
  <2>3. ASSUME NEW d \in classify_v3(ts), p \in PathsOf(d)
        PROVE  \A e \in classify_v3(ts) : p \in PathsOf(e) => e = d
    BY <2>1, <2>3
  <2>4. QED BY <2>2, <2>3
<1>3. QED BY <1>1, <1>2

\* Sets of one and two.
LEMMA SmallSet ==
    /\ \A x : IsFiniteSet({x}) /\ Cardinality({x}) = 1
    /\ \A x, y : IsFiniteSet({x, y}) /\ Cardinality({x, y}) <= 2
<1>1. \A x : IsFiniteSet({x}) /\ Cardinality({x}) = 1
  BY FS_Singleton
<1>2. ASSUME NEW x, NEW y
      PROVE  IsFiniteSet({x, y}) /\ Cardinality({x, y}) <= 2
  <2>1. {x, y} = {x} \cup {y}
    OBVIOUS
  <2> DEFINE one == {x}
  <2>2. IsFiniteSet(one) /\ Cardinality(one) = 1
    BY <1>1
  <2> HIDE DEF one
  <2>3. /\ IsFiniteSet(one \cup {y})
        /\ Cardinality(one \cup {y}) <= 2
    BY <2>2, FS_AddElement
  <2> USE DEF one
  <2>4. QED BY <2>1, <2>3, Zenon
<1>3. QED BY <1>1, <1>2

\* What classify_v3 is given: one trait per code on either side of the merge.
DeriveInv ==
    /\ type \in DOMAIN Menu
    /\ catalogue \subseteq Offered(type) /\ overlay \subseteq Offered(type)
    /\ OnePerCode(catalogue) /\ OnePerCode(overlay)
    /\ settings \subseteq Settings

\* The merge keeps it so, and no setting has a trait's path.
LEMMA MergedOnce ==
    ASSUME DeriveInv
    PROVE  /\ OnePerCode(Merged)
           /\ \A s \in settings : s.rid \notin Codes(Merged)
<1>1. OnePerCode(Merged)
  BY DEF DeriveInv, Merged, OnePerCode
<1>2. ASSUME NEW s \in settings, NEW t \in Merged
      PROVE  t.code # s.rid
  <2>1. t \in Offered(type)
    BY DEF Merged, DeriveInv
  <2>2. PICK a \in Menu[type] : t = Trait(a[1], a[2], a[3], a[4])
    BY <2>1 DEF Offered
  <2>3. t.code = a[1]
    BY <2>2 DEF Trait
  <2>4. QED BY <2>3, DeriveAssumption DEF DeriveInv
<1>3. QED BY <1>1, <1>2 DEF Codes

\* A setting's descriptor reads the setting and no other does.
LEMMA SettingReads ==
    ASSUME DeriveInv, NEW d \in SettingDescriptors
    PROVE  \E s \in settings :
              /\ d.key = <<s.rid, "setting">> /\ PathsOf(d) = {s.rid}
              /\ \A e \in SettingDescriptors : e.key = d.key \/ s.rid \in PathsOf(e) => e = d
<1> DEFINE row(s) == [key |-> <<s.rid, "setting">>, platform |-> s.platform,
                      reads |-> {<<s.rid, "value">>}, momentary |-> FALSE,
                      hashable |-> TRUE]
<1>1. ASSUME NEW s
      PROVE  row(s).key = <<s.rid, "setting">> /\ PathsOf(row(s)) = {s.rid}
  BY DEF PathsOf
<1>2. \A e \in SettingDescriptors : \E s \in settings : e = row(s)
  BY DEF SettingDescriptors
<1>3. \A s, u \in settings : s.rid = u.rid => s = u
  BY DeriveAssumption DEF DeriveInv
<1> HIDE DEF row
<1>4. PICK s \in settings : d = row(s)
  BY <1>2
<1>5. ASSUME NEW e \in SettingDescriptors, e.key = d.key \/ s.rid \in PathsOf(e)
      PROVE  e = d
  <2>1. PICK u \in settings : e = row(u)
    BY <1>2
  <2>2. u.rid = s.rid
    BY <1>1, <1>4, <1>5, <2>1
  <2>3. QED BY <1>3, <1>4, <2>1, <2>2
<1>6. QED BY <1>1, <1>4, <1>5

\* Whatever the catalogue, the overlay and the settings are.
LEMMA DistinctIfKept == DeriveInv => EntitiesAreDistinct
<1> SUFFICES ASSUME DeriveInv
             PROVE  EntitiesAreDistinct
  OBVIOUS
<1> DEFINE derived == classify_v3(Merged)
           set == SettingDescriptors
<1>1. build_descriptors = derived \cup set
  BY DEF build_descriptors
<1>2. ASSUME NEW d \in derived, NEW e \in set
      PROVE  d.key # e.key /\ PathsOf(d) \cap PathsOf(e) = {}
  <2>1. PathsOf(d) \subseteq Codes(Merged) /\ d.key[2] \in {"auto", "auto_binary"}
    BY DerivedReads
  <2>2. PICK s \in settings : e.key = <<s.rid, "setting">> /\ PathsOf(e) = {s.rid}
    BY SettingReads
  <2>3. s.rid \notin Codes(Merged)
    BY MergedOnce
  <2>4. e.key[2] = "setting"
    BY <2>2
  <2>5. QED BY <2>1, <2>2, <2>3, <2>4
<1>3. ASSUME NEW d \in build_descriptors, NEW e \in build_descriptors, d.key = e.key
      PROVE  d = e
  <2>1. CASE d \in derived /\ e \in derived
    BY <1>3, <2>1, DerivedKeys, MergedOnce
  <2>2. CASE d \in set /\ e \in set
    BY <1>3, <2>2, SettingReads
  <2>3. QED BY <1>1, <1>2, <1>3, <2>1, <2>2
<1>4. ASSUME NEW p
      PROVE  \E x, y : Readers(p) \subseteq {x, y} /\ (~Dual(p) => x = y)
  <2>1. \A d : d \in Readers(p) <=> d \in build_descriptors /\ p \in PathsOf(d)
    BY DEF Readers, PathsOf
  <2>2. PICK x, y : /\ \A d \in derived : p \in PathsOf(d) => d \in {x, y}
                    /\ ~Dual(p) => x = y
    BY DerivedReaders, MergedOnce
  <2>3. CASE \A e \in set : p \notin PathsOf(e)
    BY <1>1, <2>1, <2>2, <2>3
  <2>4. ASSUME NEW e \in set, p \in PathsOf(e)
        PROVE  Readers(p) \subseteq {e}
    <3>1. \A d \in set : p \in PathsOf(d) => d = e
      BY <2>4, SettingReads
    <3>2. QED BY <1>1, <1>2, <2>1, <2>4, <3>1
  <2>5. QED BY <2>3, <2>4
<1>5. ASSUME NEW p
      PROVE  Cardinality(Readers(p)) <= IF Dual(p) THEN 2 ELSE 1
  <2>1. PICK x, y : Readers(p) \subseteq {x, y} /\ (~Dual(p) => x = y)
    BY <1>4
  <2>2. IsFiniteSet({x, y}) /\ Cardinality({x, y}) <= 2 /\ Cardinality({x, y}) \in Nat
    BY SmallSet, FS_CardinalityType
  <2>3. x = y => {x, y} = {x} /\ Cardinality({x}) = 1
    BY SmallSet
  <2>4. Cardinality(Readers(p)) \in Nat /\ Cardinality(Readers(p)) <= Cardinality({x, y})
    BY <2>1, <2>2, FS_Subset, FS_CardinalityType
  <2>5. QED BY <2>1, <2>2, <2>3, <2>4
<1>6. QED BY <1>3, <1>5 DEF EntitiesAreDistinct, Dual

\* The inductive invariant: the catalogue, the overlay and the settings of an endpoint
\* stay what its device was set up with, whatever is seeded and registered.
THEOREM DeriveInvariant == DeriveSpec => []DeriveInv
<1>1. DeriveInit => DeriveInv
  BY DEF DeriveInit, DeriveInv
<1>2. DeriveInv /\ [DeriveNext]_deriveVars => DeriveInv'
  BY DEF DeriveInv, DeriveNext, deriveVars, seed_initial_value, register_entity,
         Offered, OnePerCode
<1>3. QED BY <1>1, <1>2, PTL DEF DeriveSpec

\* Entities of an endpoint have keys of their own and a trait one reader (two for a
\* lock's states), for every deviceType, any catalogue, overrides and corrections
\* (classify_v3.py:60-72, door_lock.py:55-76).
THEOREM NoTwoAlike == DeriveSpec => []EntitiesAreDistinct
BY DeriveInvariant, DistinctIfKept, PTL
=============================================================================
