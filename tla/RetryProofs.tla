---------------------------- MODULE RetryProofs ----------------------------
(***************************************************************************)
(* Proofs about what a timer drives: the re-arm of sleeping devices        *)
(* (Rearm) for any devices, any times and any number of loops that unwind  *)
(* beside a new one; the session of the Homebridge plugin (Platform) for   *)
(* any number of attempts and faults; the auto-clear of a detection        *)
(* (Clearing) for any delays.                                              *)
(***************************************************************************)
EXTENDS Rearm, Platform, Clearing, TLAPS

-----------------------------------------------------------------------------
(* Rearm *)


Rounds == 0..(MaxRounds - 1)
Loop == [pc : LoopAwaits \cup {"free", "unwinding"}, timer : Nat, round : Rounds]

\* The types, with the loops as functions.
Tables ==
    /\ listed \subseteq Activated
    /\ slot \in [Activated -> {0} \cup Ids]
    /\ loop \in [Activated -> [Ids -> Loop]]
Clocks ==
    /\ since \in [Activated -> 0..Cooldown]
    /\ sweepIn \in 0..SweepPeriod
    /\ loads \in 0..MaxReloads
    /\ loaded \in BOOLEAN
    /\ gap \in [Activated -> 0..Cooldown]

\* TableExact, loop by loop.
Exact == \A d \in Activated, i \in Ids : Live(d, i) <=> slot[d] = i

RearmInv == Tables /\ Clocks /\ Exact /\ OnlyAbsentArePoked

-----------------------------------------------------------------------------

\* What the assumption says of the numbers.
LEMMA Numbers ==
    ASSUME RearmAssumption
    PROVE  /\ 0 \notin Ids /\ 0 \in Rounds
           /\ Free \in Loop
           /\ {Grace, Discovery, PokeTime, Settle, Cooldown, Chunk} \subseteq Nat
           /\ Cooldown \in 0..Cooldown /\ 0 \in 0..Cooldown
           /\ SweepPeriod \in 0..SweepPeriod /\ 0 \in 0..MaxReloads
BY DEF RearmAssumption, Ids, Rounds, Free, Loop

\* The initial states.
LEMMA RearmInitInv == ASSUME RearmAssumption PROVE RearmInit => RearmInv
<1> SUFFICES ASSUME RearmInit PROVE RearmInv
  OBVIOUS
<1>1. Tables
  BY Numbers DEF RearmInit, Tables
<1>2. Clocks
  <2>1. since \in [Activated -> 0..Cooldown] /\ gap \in [Activated -> 0..Cooldown]
    BY Numbers DEF RearmInit
  <2>2. sweepIn \in 0..SweepPeriod
    BY Numbers DEF RearmInit
  <2>3. loads \in 0..MaxReloads
    BY Numbers DEF RearmInit
  <2>4. loaded \in BOOLEAN
    BY DEF RearmInit
  <2>5. QED BY <2>1, <2>2, <2>3, <2>4 DEF Clocks
<1>3. \A d \in Activated, i \in Ids : ~Live(d, i) /\ slot[d] # i
  BY Numbers DEF RearmInit, Live, Free, LoopAwaits
<1>4. QED BY <1>1, <1>2, <1>3 DEF RearmInv, Exact, OnlyAbsentArePoked

\* TableExact is Exact.
LEMMA ExactTable == ASSUME RearmAssumption PROVE Tables /\ Exact => TableExact
<1> SUFFICES ASSUME Tables, Exact, NEW d \in Activated
             PROVE  {i \in Ids : Live(d, i)} = {slot[d]} \ {0}
  BY DEF TableExact
<1>1. \A i \in Ids : Live(d, i) <=> slot[d] = i
  BY DEF Exact
<1>2. slot[d] \in {0} \cup Ids
  BY DEF Tables
<1>3. QED BY <1>1, <1>2, Numbers

-----------------------------------------------------------------------------
(* Starting and cancelling loops *)

\* A device needs a loop when the table has none for it.
LEMMA NeedyHaveNone ==
    ASSUME RearmAssumption, Tables, Exact, NEW D \in SUBSET Activated
    PROVE  Needy(D) = {d \in D : slot[d] = 0}
<1>1. \A d \in D : slot[d] # 0 => loop[d][slot[d]].pc # "free"
  BY DEF Tables, Exact, Live, LoopAwaits
<1>2. QED BY <1>1 DEF Needy

\* The place of a new loop is free, where there is one.
LEMMA PlaceFree ==
    ASSUME NEW d, \E i \in Ids : loop[d][i].pc = "free"
    PROVE  Place(d) \in Ids /\ loop[d][Place(d)].pc = "free"
BY DEF Place

Fresh == [pc |-> "grace", timer |-> Grace, round |-> 0]

\* A new loop in its place: one live loop, which the table knows.
LEMMA Begun ==
    ASSUME RearmAssumption, Tables, Exact, NEW d \in Activated, slot[d] = 0,
           \E i \in Ids : loop[d][i].pc = "free",
           NEW n, n = [loop[d] EXCEPT ![Place(d)] = Fresh]
    PROVE  /\ n \in [Ids -> Loop]
           /\ \A i \in Ids : n[i].pc \in LoopAwaits <=> i = Place(d)
<1>1. Fresh \in Loop /\ Fresh.pc \in LoopAwaits
  BY Numbers DEF Fresh, Loop, LoopAwaits
<1>2. \A i \in Ids : loop[d][i].pc \notin LoopAwaits
  BY Numbers DEF Exact, Live
<1>3. Place(d) \in Ids
  BY PlaceFree
<1>4. n \in [Ids -> Loop] /\ \A i \in Ids : n[i] = IF i = Place(d) THEN Fresh ELSE loop[d][i]
  BY <1>1, <1>3 DEF Tables
<1>5. QED BY <1>1, <1>2, <1>4

\* After a cancellation no loop is live.
LEMMA Cancelled ==
    ASSUME RearmAssumption, Tables, Exact, NEW d \in Activated
    PROVE  /\ Settled(loop[d], slot[d]) \in [Ids -> Loop]
           /\ \A i \in Ids : Settled(loop[d], slot[d])[i].pc \notin LoopAwaits
<1>1. loop[d] \in [Ids -> Loop] /\ slot[d] \in {0} \cup Ids
  BY DEF Tables
<1>2. CASE slot[d] = 0
  <2>1. Settled(loop[d], slot[d]) = loop[d]
    BY <1>2 DEF Settled
  <2>2. \A i \in Ids : loop[d][i].pc \notin LoopAwaits
    BY <1>2, Numbers DEF Exact, Live
  <2>3. QED BY <1>1, <2>1, <2>2
<1>3. CASE slot[d] # 0
  <2> DEFINE s == slot[d]
  <2>1. s \in Ids /\ loop[d][s].pc \in LoopAwaits
    BY <1>1, <1>3 DEF Exact, Live
  <2>2. Settled(loop[d], s) = [loop[d] EXCEPT ![s].pc = "unwinding"]
    BY <1>3, <2>1 DEF Settled
  <2>3. [loop[d][s] EXCEPT !.pc = "unwinding"] \in Loop
        /\ [loop[d][s] EXCEPT !.pc = "unwinding"].pc = "unwinding"
    BY <1>1, <2>1 DEF Loop
  <2>4. \A i \in Ids : i # s => loop[d][i].pc \notin LoopAwaits
    BY DEF Exact, Live
  <2> HIDE DEF s
  <2>5. Settled(loop[d], s) \in [Ids -> Loop]
    BY <1>1, <2>1, <2>2, <2>3
  <2>6. \A i \in Ids : Settled(loop[d], s)[i].pc \notin LoopAwaits
    BY <1>1, <2>1, <2>2, <2>3, <2>4 DEF LoopAwaits
  <2>7. QED BY <2>5, <2>6 DEF s
<1>4. QED BY <1>2, <1>3

\* note_topology(t): the table keeps its loops, and no device of t has one.
LEMMA NoteStep ==
    ASSUME RearmAssumption, Tables, Exact, NEW t \in SUBSET Activated, Note(t)
    PROVE  /\ slot' \in [Activated -> {0} \cup Ids]
           /\ loop' \in [Activated -> [Ids -> Loop]]
           /\ Exact'
           /\ \A d \in Activated, i \in Ids : Live(d, i)' => d \notin t
<1> DEFINE new == Needy(Activated \ t)
<1>1. new = {d \in Activated \ t : slot[d] = 0}
  BY NeedyHaveNone
<1>2. \A d \in new : \E i \in Ids : loop[d][i].pc = "free"
  BY DEF Note
<1>3. slot' = [d \in Activated |-> IF d \in t THEN 0
                                   ELSE IF d \in new THEN Place(d) ELSE slot[d]]
  BY DEF Note
<1>4. loop' = [d \in Activated |->
                 IF d \in t THEN Settled(loop[d], slot[d])
                 ELSE IF d \in new THEN [loop[d] EXCEPT ![Place(d)] = Fresh]
                 ELSE loop[d]]
  BY DEF Note, Fresh
<1> HIDE DEF new
<1>5. ASSUME NEW d \in Activated
      PROVE  /\ slot'[d] \in {0} \cup Ids
             /\ loop'[d] \in [Ids -> Loop]
             /\ \A i \in Ids : loop'[d][i].pc \in LoopAwaits <=> slot'[d] = i
             /\ d \in t => slot'[d] = 0
  <2>1. CASE d \in t
    BY <1>3, <1>4, <2>1, Cancelled, Numbers
  <2>2. CASE d \in new
    <3>1. slot'[d] = Place(d) /\ loop'[d] = [loop[d] EXCEPT ![Place(d)] = Fresh]
      BY <1>1, <1>3, <1>4, <2>2
    <3>2. slot[d] = 0 /\ d \notin t
      BY <1>1, <2>2
    <3>3. Place(d) \in Ids
      BY <1>2, <2>2, PlaceFree
    <3>4. QED BY <1>2, <2>2, <3>1, <3>2, <3>3, Begun
  <2>3. CASE d \notin t /\ d \notin new
    <3>1. slot'[d] = slot[d] /\ loop'[d] = loop[d]
      BY <1>3, <1>4, <2>3
    <3>2. QED BY <2>3, <3>1 DEF Tables, Exact, Live
  <2>4. QED BY <2>1, <2>2, <2>3
<1>6. slot' \in [Activated -> {0} \cup Ids] /\ loop' \in [Activated -> [Ids -> Loop]]
  BY <1>3, <1>4, <1>5
<1>7. Exact'
  BY <1>5 DEF Exact, Live
<1>8. \A d \in Activated, i \in Ids : Live(d, i)' => d \notin t
  BY <1>5, Numbers DEF Live
<1>9. QED BY <1>6, <1>7, <1>8

\* sweep(): a loop for each device that is absent and has none.
LEMMA SweepStep ==
    ASSUME RearmAssumption, Tables, Exact, Sweep
    PROVE  /\ slot' \in [Activated -> {0} \cup Ids]
           /\ loop' \in [Activated -> [Ids -> Loop]]
           /\ Exact'
           /\ \A d \in Activated, i \in Ids : Live(d, i)' => Live(d, i) \/ d \notin listed
<1> DEFINE new == Needy(Absent)
<1>1. new = {d \in Activated \ listed : slot[d] = 0}
  BY NeedyHaveNone DEF Absent
<1>2. \A d \in new : \E i \in Ids : loop[d][i].pc = "free"
  BY DEF Sweep
<1>3. slot' = [d \in Activated |-> IF d \in new THEN Place(d) ELSE slot[d]]
  BY DEF Sweep
<1>4. loop' = [d \in Activated |->
                 IF d \in new THEN [loop[d] EXCEPT ![Place(d)] = Fresh] ELSE loop[d]]
  BY DEF Sweep, Fresh
<1> HIDE DEF new
<1>5. ASSUME NEW d \in Activated
      PROVE  /\ slot'[d] \in {0} \cup Ids
             /\ loop'[d] \in [Ids -> Loop]
             /\ \A i \in Ids : loop'[d][i].pc \in LoopAwaits <=> slot'[d] = i
             /\ d \in listed => loop'[d] = loop[d]
  <2>1. CASE d \in new
    <3>1. slot'[d] = Place(d) /\ loop'[d] = [loop[d] EXCEPT ![Place(d)] = Fresh]
      BY <1>3, <1>4, <2>1
    <3>2. slot[d] = 0 /\ d \notin listed
      BY <1>1, <2>1
    <3>3. Place(d) \in Ids
      BY <1>2, <2>1, PlaceFree
    <3>4. QED BY <1>2, <2>1, <3>1, <3>2, <3>3, Begun
  <2>2. CASE d \notin new
    <3>1. slot'[d] = slot[d] /\ loop'[d] = loop[d]
      BY <1>3, <1>4, <2>2
    <3>2. QED BY <3>1 DEF Tables, Exact, Live
  <2>3. QED BY <2>1, <2>2
<1>6. slot' \in [Activated -> {0} \cup Ids] /\ loop' \in [Activated -> [Ids -> Loop]]
  BY <1>3, <1>4, <1>5
<1>7. Exact'
  BY <1>5 DEF Exact, Live
<1>8. \A d \in Activated, i \in Ids : Live(d, i)' => Live(d, i) \/ d \notin listed
  BY <1>5 DEF Live
<1>9. QED BY <1>6, <1>7, <1>8

\* The unload leaves no loop.
LEMMA UnloadStep ==
    ASSUME RearmAssumption, Tables, Exact, cancel_all
    PROVE  /\ slot' \in [Activated -> {0} \cup Ids]
           /\ loop' \in [Activated -> [Ids -> Loop]]
           /\ Exact'
           /\ \A d \in Activated, i \in Ids : ~Live(d, i)'
<1>1. slot' = [d \in Activated |-> 0]
      /\ loop' = [d \in Activated |-> Settled(loop[d], slot[d])]
  BY DEF cancel_all
<1>2. loop' \in [Activated -> [Ids -> Loop]]
      /\ \A d \in Activated, i \in Ids : loop'[d][i].pc \notin LoopAwaits
  BY <1>1, Cancelled
<1>3. QED BY <1>1, <1>2, Numbers DEF Exact, Live

-----------------------------------------------------------------------------
(* The steps of a loop *)

\* What a step of loop i of device d makes of the table: it goes on, or it ends
\* and leaves the slot of another.
Goes(d, i) ==
    \/ /\ Live(d, i)
       /\ \E n \in Loop : n.pc \in LoopAwaits /\ loop' = [loop EXCEPT ![d][i] = n]
       /\ UNCHANGED slot
    \/ EndLoop(d, i)

\* Such a step keeps the table exact and makes nothing live.
LEMMA GoesStep ==
    ASSUME RearmAssumption, Tables, Exact, NEW d \in Activated, NEW i \in Ids, Goes(d, i)
    PROVE  /\ slot' \in [Activated -> {0} \cup Ids]
           /\ loop' \in [Activated -> [Ids -> Loop]]
           /\ Exact'
           /\ \A e \in Activated, j \in Ids : Live(e, j)' => Live(e, j)
<1>1. CASE Live(d, i) /\ UNCHANGED slot
           /\ \E n \in Loop : n.pc \in LoopAwaits /\ loop' = [loop EXCEPT ![d][i] = n]
  <2>1. PICK n \in Loop : n.pc \in LoopAwaits /\ loop' = [loop EXCEPT ![d][i] = n]
    BY <1>1
  <2>2. loop' \in [Activated -> [Ids -> Loop]]
    BY <2>1 DEF Tables
  <2>3. \A e \in Activated, j \in Ids : Live(e, j)' <=> Live(e, j)
    BY <1>1, <2>1 DEF Tables, Live
  <2>4. QED BY <1>1, <2>2, <2>3 DEF Tables, Exact
<1>2. CASE EndLoop(d, i)
  <2>1. loop' = [loop EXCEPT ![d][i] = Free]
        /\ slot' = [slot EXCEPT ![d] = IF @ = i THEN 0 ELSE @]
    BY <1>2 DEF EndLoop
  <2>2. Free \in Loop /\ Free.pc \notin LoopAwaits
    BY Numbers DEF Free, LoopAwaits
  <2>3. loop' \in [Activated -> [Ids -> Loop]] /\ slot' \in [Activated -> {0} \cup Ids]
    BY <2>1, <2>2 DEF Tables
  <2>4. \A e \in Activated, j \in Ids : Live(e, j)' <=> Live(e, j) /\ ~(e = d /\ j = i)
    BY <2>1, <2>2 DEF Tables, Live
  <2>5. \A e \in Activated, j \in Ids : slot'[e] = j <=> slot[e] = j /\ ~(e = d /\ j = i)
    BY <2>1, Numbers DEF Tables
  <2>6. QED BY <2>3, <2>4, <2>5 DEF Exact
<1>3. QED BY <1>1, <1>2 DEF Goes

\* A live loop that sets a timer goes on.
LEMMA AwaitGoes ==
    ASSUME NEW d \in Activated, NEW i \in Ids, NEW where \in LoopAwaits, NEW time \in Nat,
           NEW r \in Rounds, Live(d, i), Await(d, i, where, time, r)
    PROVE  Goes(d, i)
<1> DEFINE n == [pc |-> where, timer |-> time, round |-> r]
<1>1. n \in Loop /\ n.pc \in LoopAwaits
  BY DEF Loop
<1>2. loop' = [loop EXCEPT ![d][i] = n] /\ UNCHANGED slot
  BY DEF Await
<1>3. QED BY <1>1, <1>2 DEF Goes

\* The top of a round: the loop gives up or waits.
LEMMA RoundGoes ==
    ASSUME RearmAssumption, Clocks, NEW d \in Activated, NEW i \in Ids,
           NEW r \in Rounds \cup {MaxRounds}, Live(d, i), Round(d, i, r)
    PROVE  Goes(d, i)
<1>1. CASE r = MaxRounds
  BY <1>1 DEF Round, Goes
<1>2. CASE r # MaxRounds /\ since[d] < Cooldown
  <2> DEFINE time == IF Cooldown - since[d] < Chunk THEN Cooldown - since[d] ELSE Chunk
  <2>1. time \in Nat
    BY <1>2, Numbers DEF Clocks
  <2>2. Await(d, i, "cooldown", time, r)
    BY <1>2 DEF Round
  <2> HIDE DEF time
  <2>3. QED BY <1>2, <2>1, <2>2, AwaitGoes DEF LoopAwaits
<1>3. CASE r # MaxRounds /\ ~(since[d] < Cooldown)
  <2>1. Await(d, i, "discover", Discovery, r)
    BY <1>3 DEF Round
  <2>2. QED BY <1>3, <2>1, AwaitGoes, Numbers DEF LoopAwaits
<1>4. QED BY <1>1, <1>2, <1>3

\* The round after the last is the one that gives up.
LEMMA NextRound ==
    ASSUME RearmAssumption, NEW r \in Rounds
    PROVE  r + 1 \in Rounds \cup {MaxRounds}
BY DEF RearmAssumption, Rounds

\* Every step of a loop is of that kind.
LEMMA StepGoes ==
    ASSUME RearmAssumption, Tables, Clocks, NEW d \in Activated, NEW i \in Ids, LoopStep(d, i)
    PROVE  Goes(d, i)
<1> DEFINE r == loop[d][i].round
<1>1. r \in Rounds /\ r + 1 \in Rounds \cup {MaxRounds}
  BY NextRound DEF Tables, Loop
<1>2. 0 \in Rounds \cup {MaxRounds}
  BY Numbers
<1> HIDE DEF r
<1>3. CASE GraceOver(d, i)
  <2>1. Live(d, i) /\ (EndLoop(d, i) \/ Round(d, i, 0))
    BY <1>3 DEF GraceOver, Expired, Live, LoopAwaits
  <2>2. QED BY <1>2, <2>1, RoundGoes DEF Goes
<1>4. CASE CooldownOver(d, i)
  <2>1. Live(d, i) /\ (EndLoop(d, i) \/ Round(d, i, r + 1))
    BY <1>4 DEF CooldownOver, Expired, Live, LoopAwaits, Again, r
  <2>2. QED BY <1>1, <2>1, RoundGoes DEF Goes
<1>5. CASE Discovered(d, i)
  <2>1. Live(d, i) /\ Await(d, i, "poke", PokeTime, r)
    BY <1>5 DEF Discovered, Live, LoopAwaits, r
  <2>2. QED BY <1>1, <2>1, AwaitGoes, Numbers DEF LoopAwaits
<1>6. CASE Poked(d, i)
  <2>1. Live(d, i) /\ Await(d, i, "settle", Settle, r)
    BY <1>6 DEF Poked, Live, LoopAwaits, r
  <2>2. QED BY <1>1, <2>1, AwaitGoes, Numbers DEF LoopAwaits
<1>7. CASE SettleOver(d, i)
  <2> DEFINE n == IF r + 1 <= Len(Backoffs) THEN r + 1 ELSE Len(Backoffs)
  <2>1. Live(d, i) /\ (EndLoop(d, i) \/ Await(d, i, "backoff", Backoffs[n], r))
    BY <1>7 DEF SettleOver, Expired, Live, LoopAwaits, r
  <2>2. r \in Nat
    BY <1>1 DEF Rounds, RearmAssumption
  <2>3. n \in 1..Len(Backoffs) /\ Backoffs \in Seq(Nat)
    BY <2>2 DEF RearmAssumption
  <2>4. Backoffs[n] \in Nat
    BY <2>3
  <2> HIDE DEF n
  <2>5. QED BY <1>1, <2>1, <2>4, AwaitGoes DEF Goes, LoopAwaits
<1>8. CASE BackoffOver(d, i)
  <2>1. Live(d, i) /\ Round(d, i, r + 1)
    BY <1>8 DEF BackoffOver, Expired, Live, LoopAwaits, Again, r
  <2>2. QED BY <1>1, <2>1, RoundGoes
<1>9. CASE Unwound(d, i)
  BY <1>9 DEF Unwound, Goes
<1>10. QED
  BY <1>3, <1>4, <1>5, <1>6, <1>7, <1>8, <1>9 DEF LoopStep

-----------------------------------------------------------------------------
(* The clock, and all steps *)

\* No timer of a live loop runs below zero: the clock waits for what is due.
LEMMA TickTables ==
    ASSUME Tables, Tick
    PROVE  /\ loop' \in [Activated -> [Ids -> Loop]]
           /\ \A d \in Activated, i \in Ids : Live(d, i)' <=> Live(d, i)
<1> DEFINE n(d, i) ==
      IF Live(d, i) THEN [loop[d][i] EXCEPT !.timer = @ - 1] ELSE loop[d][i]
<1>1. ASSUME NEW d \in Activated, NEW i \in Ids
      PROVE  n(d, i) \in Loop /\ n(d, i).pc = loop[d][i].pc
  <2>1. loop[d][i] \in Loop
    BY DEF Tables
  <2>2. CASE Live(d, i)
    <3>1. loop[d][i].timer # 0
      BY <2>2 DEF Tick, Due
    <3>2. loop[d][i].timer - 1 \in Nat
      BY <2>1, <3>1 DEF Loop
    <3>3. n(d, i) = [loop[d][i] EXCEPT !.timer = loop[d][i].timer - 1]
      BY <2>2
    <3> HIDE DEF n
    <3>4. QED BY <2>1, <3>2, <3>3 DEF Loop
  <2>3. CASE ~Live(d, i)
    BY <2>1, <2>3
  <2>4. QED BY <2>2, <2>3
<1>2. loop' = [d \in Activated |-> [i \in Ids |-> n(d, i)]]
  BY DEF Tick
<1> HIDE DEF n
<1>3. QED BY <1>1, <1>2 DEF Live

\* The clock stays within the times it counts.
LEMMA TickClocks == ASSUME RearmAssumption, Clocks, Tick PROVE Clocks'
<1>1. \A n \in 0..Cooldown : Counted(n) \in 0..Cooldown
  BY Numbers DEF Counted
<1>2. since' \in [Activated -> 0..Cooldown] /\ gap' \in [Activated -> 0..Cooldown]
  BY <1>1 DEF Tick, Clocks
<1>3. sweepIn' \in 0..SweepPeriod
  <2>1. loaded => sweepIn # 0
    BY DEF Tick, Due
  <2>2. sweepIn' = (IF loaded THEN sweepIn - 1 ELSE sweepIn) /\ sweepIn \in 0..SweepPeriod
    BY DEF Tick, Clocks
  <2>3. SweepPeriod \in Nat
    BY DEF RearmAssumption
  <2>4. QED BY <2>1, <2>2, <2>3
<1>4. QED BY <1>2, <1>3 DEF Tick, Clocks

\* So does every other step.
LEMMA NextClocks == ASSUME RearmAssumption, Clocks, [RearmNext]_rearmVars PROVE Clocks'
<1> USE Numbers DEF Clocks
<1>1. CASE LoadManager
  <2>1. loads' \in 0..MaxReloads
    BY <1>1 DEF LoadManager, RearmAssumption
  <2>2. QED BY <1>1, <2>1 DEF LoadManager
<1>2. CASE TopologyNoted \/ Sweep \/ cancel_all
  BY <1>2 DEF TopologyNoted, Sweep, cancel_all
<1>3. ASSUME NEW d \in Activated, NEW i \in Ids, LoopStep(d, i) PROVE Clocks'
  <2>1. since' \in [Activated -> 0..Cooldown] /\ gap' \in [Activated -> 0..Cooldown]
    BY <1>3 DEF LoopStep, GraceOver, CooldownOver, Discovered, Poked, SettleOver,
                BackoffOver, Unwound
  <2>2. QED BY <1>3, <2>1 DEF LoopStep
<1>4. CASE UNCHANGED rearmVars
  BY <1>4 DEF rearmVars
<1>5. QED BY <1>1, <1>2, <1>3, <1>4, TickClocks DEF RearmNext

\* Every step preserves the invariant.
LEMMA RearmNextInv ==
    ASSUME RearmAssumption
    PROVE  RearmInv /\ [RearmNext]_rearmVars => RearmInv'
<1> SUFFICES ASSUME RearmInv, [RearmNext]_rearmVars PROVE RearmInv'
  OBVIOUS
<1> USE DEF RearmInv
<1>1. Clocks'
  BY NextClocks
<1>2. CASE LoadManager
  <2>1. listed \in SUBSET Activated /\ Note(listed) /\ UNCHANGED listed /\ loaded'
    BY <1>2 DEF LoadManager, Tables
  <2>2. QED BY <1>1, <2>1, NoteStep DEF Tables, OnlyAbsentArePoked
<1>3. CASE TopologyNoted
  <2>1. PICK t \in SUBSET Activated : listed' = t /\ Note(t)
    BY <1>3 DEF TopologyNoted
  <2>2. loaded'
    BY <1>3 DEF TopologyNoted
  <2>3. QED BY <1>1, <2>1, <2>2, NoteStep DEF Tables, OnlyAbsentArePoked
<1>4. CASE Sweep
  <2>1. UNCHANGED <<listed, loaded>> /\ loaded
    BY <1>4 DEF Sweep
  <2>2. QED BY <1>1, <1>4, <2>1, SweepStep DEF Tables, OnlyAbsentArePoked
<1>5. CASE cancel_all
  <2>1. UNCHANGED listed
    BY <1>5 DEF cancel_all
  <2>2. QED BY <1>1, <1>5, <2>1, UnloadStep DEF Tables, OnlyAbsentArePoked
<1>6. CASE Tick
  <2>1. UNCHANGED <<listed, slot, loaded>>
    BY <1>6 DEF Tick
  <2>2. QED BY <1>1, <1>6, <2>1, TickTables DEF Tables, Exact, OnlyAbsentArePoked
<1>7. ASSUME NEW d \in Activated, NEW i \in Ids, LoopStep(d, i) PROVE RearmInv'
  <2>1. UNCHANGED <<listed, loaded>>
    BY <1>7 DEF LoopStep
  <2>2. QED BY <1>1, <1>7, <2>1, StepGoes, GoesStep DEF Tables, OnlyAbsentArePoked
<1>8. CASE UNCHANGED rearmVars
  BY <1>1, <1>8 DEF rearmVars, Tables, Exact, OnlyAbsentArePoked, Live
<1>9. QED
  BY <1>2, <1>3, <1>4, <1>5, <1>6, <1>7, <1>8 DEF RearmNext

\* The inductive invariant.
THEOREM RearmInvariant == ASSUME RearmAssumption PROVE RearmSpec => []RearmInv
BY RearmInitInv, RearmNextInv, PTL DEF RearmSpec

\* Every variable keeps its type; no timer runs below zero and no loop goes past
\* its rounds.
THEOREM TypeCorrect == ASSUME RearmAssumption PROVE RearmSpec => []RearmTypeOK
<1>1. RearmInv => RearmTypeOK
  <2>1. Tables => \A d \in Activated, i \in Ids :
                     /\ loop[d][i].pc \in LoopAwaits \cup {"free", "unwinding"}
                     /\ loop[d][i].timer \in Nat
                     /\ loop[d][i].round \in 0..(MaxRounds - 1)
    BY DEF Tables, Loop, Rounds
  <2>2. Tables => slot \in [Activated -> 0..MaxLoops]
    BY DEF Tables, Ids, RearmAssumption
  <2>3. QED BY <2>1, <2>2 DEF RearmInv, Tables, Clocks, RearmTypeOK
<1>2. QED BY RearmInvariant, <1>1, PTL

\* The table knows the one loop of an absent device that may still poke it, and
\* there is none for a device that is back or after the unload, however late a
\* cancelled loop unwinds (rearm.py:82-146).
THEOREM LoopsAreExact == ASSUME RearmAssumption PROVE RearmSpec => []LoopsExact
<1>1. RearmInv => LoopsExact
  BY ExactTable DEF RearmInv, LoopsExact
<1>2. QED BY RearmInvariant, <1>1, PTL

-----------------------------------------------------------------------------
(* Platform *)


\* Attempts begin one after another.
InOrder ==
    \A i, j \in Attempts : i < j /\ stage[j] # "unused" => stage[i] # "unused"

PlatformInv == PlatformTypeOK /\ InOrder /\ WillTryAgain

-----------------------------------------------------------------------------

\* The types in two halves: what has to do with numbers, and what has not.
Counts == tunnel \in 0..MaxAttempts /\ timers \in 0..1 /\ faults \in 0..MaxFaults

Stages ==
    /\ stage \in [Attempts -> Local \cup {"unused", "cloud", "up", "nohub", "ended"}]
    /\ sock \in [Attempts -> {"none", "opening", "open", "closing"}]
    /\ before \subseteq Attempts /\ left \subseteq Attempts
    /\ stopped \in BOOLEAN

LEMMA TypeParts == PlatformTypeOK <=> Counts /\ Stages
BY DEF PlatformTypeOK, Counts, Stages

\* The initial states: the first attempt is under way.
LEMMA PlatformInitInv == ASSUME PlatformAssumption PROVE PlatformInit => PlatformInv
<1> SUFFICES ASSUME PlatformInit PROVE PlatformInv
  OBVIOUS
<1>1. Counts
  BY DEF PlatformAssumption, PlatformInit, Counts
<1>2. Stages
  <2>1. \A i \in Attempts :
           (IF i = 1 THEN "cloud" ELSE "unused")
             \in Local \cup {"unused", "cloud", "up", "nohub", "ended"}
    OBVIOUS
  <2>2. stage \in [Attempts -> Local \cup {"unused", "cloud", "up", "nohub", "ended"}]
    BY <2>1 DEF PlatformInit
  <2>3. QED BY <2>2 DEF PlatformInit, Stages
<1>3. \A i \in Attempts : i \in Nat /\ i >= 1
  BY DEF PlatformAssumption, Attempts
<1>4. \A i \in Attempts : stage[i] # "unused" <=> i = 1
  BY DEF PlatformInit
<1>5. InOrder
  BY <1>3, <1>4 DEF InOrder
<1>6. WillTryAgain
  BY <1>4 DEF PlatformInit, WillTryAgain, Latest, Continues
<1>7. QED BY <1>1, <1>2, <1>5, <1>6, TypeParts DEF PlatformInv

\* A fault is counted within its bound.
LEMMA FaultCounted ==
    ASSUME PlatformAssumption, Counts, Fault \/ UNCHANGED faults
    PROVE  faults' \in 0..MaxFaults
BY DEF PlatformAssumption, Counts, Fault

\* One timer at most runs.
LEMMA OneTimer ==
    ASSUME Counts,
           \/ UNCHANGED timers \/ timers' = 1
           \/ timers > 0 /\ timers' = timers - 1
    PROVE  timers' \in 0..1
BY DEF Counts

\* The tunnel is one that an attempt made.
LEMMA TunnelMade ==
    ASSUME PlatformAssumption, Counts, UNCHANGED tunnel \/ tunnel' \in Attempts
    PROVE  tunnel' \in 0..MaxAttempts
BY DEF PlatformAssumption, Counts, Attempts

\* Every step of an attempt keeps the types.
LEMMA AttemptTypes ==
    ASSUME PlatformAssumption, PlatformTypeOK, NEW i \in Attempts,
           \/ CloudFails(i) \/ NoHub(i) \/ TcpFails(i) \/ TcpTimesOut(i)
           \/ PeerCloses(i) \/ Progress(i)
    PROVE  PlatformTypeOK'
<1> USE TypeParts
<1>1. CASE CloudFails(i)
  <2>1. Stages'
    BY <1>1 DEF CloudFails, Stages, Ends, RetryLater, InStage
  <2>2. Counts'
    BY <1>1, FaultCounted, OneTimer, TunnelMade DEF CloudFails, Ends, RetryLater, Counts
  <2>3. QED BY <2>1, <2>2, PTL
<1>2. CASE NoHub(i)
  <2>1. Stages'
    BY <1>2 DEF NoHub, Stages
  <2>2. Counts'
    BY <1>2, FaultCounted, OneTimer, TunnelMade DEF NoHub, Counts
  <2>3. QED BY <2>1, <2>2, PTL
<1>3. CASE TcpFails(i)
  <2>1. Stages'
    BY <1>3 DEF TcpFails, Stages, RetryLater, InStage
  <2>2. Counts'
    BY <1>3, FaultCounted, OneTimer, TunnelMade DEF TcpFails, RetryLater, Counts
  <2>3. QED BY <2>1, <2>2, PTL
<1>4. CASE TcpTimesOut(i)
  <2>1. Stages'
    BY <1>4 DEF TcpTimesOut, Stages, Ends, RetryLater, InStage
  <2>2. Counts'
    BY <1>4, FaultCounted, OneTimer, TunnelMade DEF TcpTimesOut, Ends, RetryLater, Counts
  <2>3. QED BY <2>1, <2>2, PTL
<1>5. CASE PeerCloses(i)
  <2>1. Stages'
    BY <1>5 DEF PeerCloses, Stages
  <2>2. Counts'
    BY <1>5, FaultCounted, OneTimer, TunnelMade DEF PeerCloses, Counts
  <2>3. QED BY <2>1, <2>2, PTL
<1>6. CASE HubFound(i)
  <2>1. Stages'
    BY <1>6 DEF HubFound, Stages, Local
  <2>2. Counts'
    BY <1>6, FaultCounted, OneTimer, TunnelMade DEF HubFound, Counts
  <2>3. QED BY <2>1, <2>2, PTL
<1>7. CASE TcpConnected(i) \/ HandshakeDone(i) \/ CheckinAnswered(i)
  <2>1. Stages'
    BY <1>7 DEF TcpConnected, HandshakeDone, CheckinAnswered, Stages, Local
  <2>2. Counts'
    BY <1>7, FaultCounted, OneTimer, TunnelMade
       DEF TcpConnected, HandshakeDone, CheckinAnswered, Counts
  <2>3. QED BY <2>1, <2>2, PTL
<1>8. CASE HandshakeFails(i) \/ CheckinRejected(i)
  <2>1. Stages'
    BY <1>8 DEF HandshakeFails, CheckinRejected, Stages, Ends, RetryLater, InStage
  <2>2. Counts'
    BY <1>8, FaultCounted, OneTimer, TunnelMade
       DEF HandshakeFails, CheckinRejected, Ends, RetryLater, Counts
  <2>3. QED BY <2>1, <2>2, PTL
<1>9. CASE CloseEvent(i)
  <2>1. Stages'
    BY <1>9 DEF CloseEvent, Stages, RetryLater, InStage
  <2>2. Counts'
    BY <1>9, FaultCounted, OneTimer, TunnelMade DEF CloseEvent, RetryLater, Counts
  <2>3. QED BY <2>1, <2>2, PTL
<1>10. CASE RetryFires(i)
  <2>1. Stages'
    BY <1>10 DEF RetryFires, Stages
  <2>2. Counts'
    BY <1>10, FaultCounted, OneTimer, TunnelMade DEF RetryFires, Counts
  <2>3. QED BY <2>1, <2>2, PTL
<1>11. QED
  BY <1>1, <1>2, <1>3, <1>4, <1>5, <1>6, <1>7, <1>8, <1>9, <1>10 DEF Progress

\* Every step keeps the types.
LEMMA NextTypes ==
    ASSUME PlatformAssumption, PlatformTypeOK, [PlatformNext]_platformVars
    PROVE  PlatformTypeOK'
<1>1. CASE Stop
  BY <1>1 DEF Stop, PlatformTypeOK
<1>2. CASE UNCHANGED platformVars
  BY <1>2 DEF platformVars, PlatformTypeOK
<1>3. QED
  BY <1>1, <1>2, AttemptTypes DEF PlatformNext

\* An attempt that is over has armed the timer or found it armed.
LEMMA RetryLaterArms == ASSUME PlatformTypeOK, RetryLater PROVE timers' > 0
BY DEF PlatformTypeOK, RetryLater

\* A step of one attempt leaves the others as they are, and has begun before it
\* unless it is the timer's.
LEMMA OthersStay ==
    ASSUME PlatformTypeOK, NEW i \in Attempts,
           \/ CloudFails(i) \/ NoHub(i) \/ TcpFails(i) \/ TcpTimesOut(i)
           \/ PeerCloses(i) \/ Progress(i)
    PROVE  /\ \A j \in Attempts \ {i} : stage'[j] = stage[j] /\ sock'[j] = sock[j]
           /\ ~RetryFires(i) => (stage'[i] # "unused" <=> stage[i] # "unused")
<1> USE DEF PlatformTypeOK, Local
<1>1. CASE CloudFails(i) \/ NoHub(i) \/ TcpTimesOut(i) \/ PeerCloses(i)
  BY <1>1 DEF CloudFails, NoHub, TcpTimesOut, PeerCloses, Ends
<1>2. CASE TcpFails(i)
  BY <1>2 DEF TcpFails
<1>3. CASE HubFound(i) \/ HandshakeDone(i) \/ CheckinAnswered(i)
  BY <1>3 DEF HubFound, HandshakeDone, CheckinAnswered
<1>4. CASE TcpConnected(i)
  BY <1>4 DEF TcpConnected
<1>5. CASE HandshakeFails(i) \/ CheckinRejected(i)
  BY <1>5 DEF HandshakeFails, CheckinRejected, Ends
<1>6. CASE CloseEvent(i)
  BY <1>6 DEF CloseEvent
<1>7. CASE RetryFires(i)
  BY <1>7 DEF RetryFires
<1>8. QED BY <1>1, <1>2, <1>3, <1>4, <1>5, <1>6, <1>7 DEF Progress

\* After a step of an attempt with something to follow, something still is.
LEMMA OwnStep ==
    ASSUME PlatformTypeOK, NEW i \in Attempts, Continues(i) \/ stage[i] = "nohub",
           \/ CloudFails(i) \/ NoHub(i) \/ TcpFails(i) \/ TcpTimesOut(i)
           \/ PeerCloses(i) \/ Progress(i)
    PROVE  Continues(i)' \/ stage'[i] = "nohub"
<1> USE DEF PlatformTypeOK, Continues, Local
<1>1. CASE CloudFails(i) \/ TcpTimesOut(i)
  BY <1>1, RetryLaterArms DEF CloudFails, TcpTimesOut, Ends
<1>2. CASE NoHub(i)
  BY <1>2 DEF NoHub
<1>3. CASE TcpFails(i)
  BY <1>3, RetryLaterArms DEF TcpFails
<1>4. CASE PeerCloses(i)
  BY <1>4 DEF PeerCloses
<1>5. CASE HubFound(i) \/ HandshakeDone(i) \/ CheckinAnswered(i)
  BY <1>5 DEF HubFound, HandshakeDone, CheckinAnswered
<1>6. CASE TcpConnected(i)
  BY <1>6 DEF TcpConnected
<1>7. CASE HandshakeFails(i) \/ CheckinRejected(i)
  BY <1>7, RetryLaterArms DEF HandshakeFails, CheckinRejected, Ends
<1>8. CASE CloseEvent(i)
  BY <1>8, RetryLaterArms DEF CloseEvent
<1>9. CASE RetryFires(i)
  BY <1>9 DEF RetryFires
<1>10. QED
  BY <1>1, <1>2, <1>3, <1>4, <1>5, <1>6, <1>7, <1>8, <1>9 DEF Progress

\* The timer stops only to start an attempt, or at stop().
LEMMA TimerStep ==
    ASSUME PlatformTypeOK, NEW i \in Attempts, timers > 0 \/ stopped, ~RetryFires(i),
           \/ CloudFails(i) \/ NoHub(i) \/ TcpFails(i) \/ TcpTimesOut(i)
           \/ PeerCloses(i) \/ Progress(i)
    PROVE  timers' > 0 \/ stopped'
BY DEF PlatformTypeOK, CloudFails, NoHub, TcpFails, TcpTimesOut, PeerCloses, Progress,
       HubFound, TcpConnected, HandshakeDone, HandshakeFails, CheckinAnswered,
       CheckinRejected, CloseEvent, Ends, RetryLater

\* A step of an attempt keeps the order and leaves the latest with what follows it.
LEMMA AttemptKeeps ==
    ASSUME PlatformAssumption, PlatformInv, NEW i \in Attempts,
           \/ CloudFails(i) \/ NoHub(i) \/ TcpFails(i) \/ TcpTimesOut(i)
           \/ PeerCloses(i) \/ Progress(i)
    PROVE  InOrder' /\ WillTryAgain'
<1> USE DEF PlatformInv
<1> \A j \in Attempts : j \in Nat
  BY DEF PlatformAssumption, Attempts
\* The timer's: the attempt it begins is the latest and under way.
<1>1. CASE RetryFires(i)
  <2>1. stage[i] = "unused" /\ stage'[i] = "cloud"
    BY <1>1 DEF RetryFires, PlatformTypeOK
  <2>2. \A j \in Attempts : stage[j] = "unused" => i <= j
    BY <1>1 DEF RetryFires
  <2>3. \A j \in Attempts : stage[j] # "unused" => j < i
    BY <2>1 DEF InOrder
  <2>4. \A j \in Attempts \ {i} : stage'[j] = stage[j]
    BY OthersStay
  <2>5. InOrder'
    BY <2>1, <2>2, <2>3, <2>4 DEF InOrder
  <2>6. \A j \in Attempts : Latest(j)' => j = i
    BY <2>1, <2>3, <2>4 DEF Latest
  <2>7. QED BY <2>1, <2>5, <2>6 DEF WillTryAgain, Continues
<1>2. CASE ~RetryFires(i)
  <2>1. \A j \in Attempts : stage'[j] # "unused" <=> stage[j] # "unused"
    BY <1>2, OthersStay
  <2>2. InOrder'
    BY <2>1 DEF InOrder
  <2>3. ASSUME NEW j \in Attempts, Latest(j)'
        PROVE  Continues(j)' \/ stage'[j] = "nohub"
    <3>1. Latest(j)
      BY <2>1, <2>3 DEF Latest
    <3>2. Continues(j) \/ stage[j] = "nohub"
      BY <3>1 DEF WillTryAgain
    <3>3. CASE j = i
      BY <3>2, <3>3, OwnStep
    <3>4. CASE j # i
      <4>1. stage'[j] = stage[j] /\ sock'[j] = sock[j]
        BY <3>4, OthersStay
      <4>2. CASE timers > 0 \/ stopped
        BY <1>2, <4>2, TimerStep DEF Continues
      <4>3. QED BY <3>2, <4>1, <4>2 DEF Continues
    <3>5. QED BY <3>3, <3>4
  <2>4. QED BY <2>2, <2>3 DEF WillTryAgain
<1>3. QED BY <1>1, <1>2

\* Every step preserves the invariant.
LEMMA PlatformNextInv ==
    ASSUME PlatformAssumption
    PROVE  PlatformInv /\ [PlatformNext]_platformVars => PlatformInv'
<1> SUFFICES ASSUME PlatformInv, [PlatformNext]_platformVars PROVE PlatformInv'
  OBVIOUS
<1>1. PlatformTypeOK'
  BY NextTypes DEF PlatformInv
<1>2. InOrder' /\ WillTryAgain'
  <2>1. CASE Stop
    BY <2>1 DEF Stop, PlatformInv, InOrder, WillTryAgain, Latest, Continues
  <2>2. CASE UNCHANGED platformVars
    BY <2>2 DEF PlatformInv, InOrder, WillTryAgain, Latest, Continues, platformVars
  <2>3. QED BY <2>1, <2>2, AttemptKeeps DEF PlatformNext
<1>3. QED BY <1>1, <1>2 DEF PlatformInv

\* The inductive invariant.
THEOREM PlatformInvariant == ASSUME PlatformAssumption PROVE PlatformSpec => []PlatformInv
BY PlatformInitInv, PlatformNextInv, PTL DEF PlatformSpec

\* However the latest attempt ends, in whatever order its errors, the close of its
\* socket and those of earlier tunnels come, the next one is scheduled, unless it
\* found no hub or stop() was called (platform.js:61-82, 115-141).
THEOREM NeverStranded == ASSUME PlatformAssumption PROVE PlatformSpec => []WillTryAgain
<1>1. PlatformInv => WillTryAgain
  BY DEF PlatformInv
<1>2. QED BY PlatformInvariant, <1>1, PTL

-----------------------------------------------------------------------------
(* Clearing *)

ClearingTyped ==
    /\ momentary \in BOOLEAN
    /\ number \in AllDelays \cup {0}
    /\ saved \in BOOLEAN \X AllDelays
    /\ age \in Nat /\ due \in Nat

\* One timer at most runs, and it ends a delay after the detection that armed
\* it.  It is why no timer of an earlier detection clears a later one.
OneClear ==
    clears # {} => /\ due <= Longest
                   /\ age <= due
                   /\ clears = {due - age}

ClearingInv == ClearingTyped /\ OneClear

\* Every delay is a positive number up to the longest.
LEMMA DelaysBounded ==
    ASSUME ClearingAssumption
    PROVE  /\ Longest \in Nat
           /\ \A d \in AllDelays : d \in Nat /\ d > 0 /\ d <= Longest
<1>1. \A d \in AllDelays : d \in Nat \ {0}
  BY DEF ClearingAssumption, AllDelays
<1>2. Longest \in AllDelays /\ \A e \in AllDelays : e <= Longest
  BY DEF ClearingAssumption, Longest
<1>3. QED BY <1>1, <1>2

\* The recorder takes the sensor's new state.
LEMMA StateSaved ==
    ASSUME saved \in BOOLEAN \X AllDelays, NEW b \in BOOLEAN
    PROVE  [saved EXCEPT ![1] = b] \in BOOLEAN \X AllDelays
<1>1. PICK x \in BOOLEAN, y \in AllDelays : saved = <<x, y>>
  OBVIOUS
<1>2. [saved EXCEPT ![1] = b] = <<b, y>>
  BY <1>1
<1>3. QED BY <1>2

\* A detection arms the one timer, for the delay of this moment.
LEMMA DetectArms ==
    ASSUME ClearingAssumption, ClearingInv, Detect
    PROVE  ClearingInv'
<1>1. resolve_auto_clear_seconds \in AllDelays
  BY DEF ClearingInv, ClearingTyped, resolve_auto_clear_seconds, AllDelays
<1>2. saved' \in BOOLEAN \X AllDelays
  BY StateSaved DEF Detect, ClearingInv, ClearingTyped
<1>3. CASE momentary
  <2>1. due' = resolve_auto_clear_seconds /\ age' = 0
    BY <1>3 DEF Detect
  <2>2. due' \in Nat /\ due' > 0 /\ due' <= Longest
    BY <1>1, <2>1, DelaysBounded
  <2>3. clears' = {due'}
    BY <1>3, <2>1, <2>2 DEF Detect, cancel_auto_clear
  <2>4. due' - age' = due'
    BY <2>1, <2>2
  <2>5. QED
    BY <1>2, <2>1, <2>2, <2>3, <2>4
       DEF Detect, ClearingInv, ClearingTyped, OneClear
<1>4. CASE ~momentary
  BY <1>2, <1>4 DEF Detect, ClearingInv, ClearingTyped, OneClear
<1>5. QED BY <1>3, <1>4

\* As the clock ticks the timer goes down and the age up.
LEMMA TickCounts ==
    ASSUME ClearingAssumption, ClearingInv, ClockTick
    PROVE  ClearingInv'
<1>1. /\ due \in Nat /\ age \in Nat /\ Longest \in Nat
      /\ due <= Longest /\ age <= due /\ clears = {due - age} /\ due - age # 0
  BY DelaysBounded DEF ClearingInv, ClearingTyped, OneClear, ClockTick
<1>2. age < Longest /\ age + 1 <= due /\ (due - age) - 1 = due - (age + 1)
  BY <1>1
<1>3. age' = age + 1 /\ due' = due
  BY <1>2 DEF ClockTick
<1>4. clears' = {(due - age) - 1}
  BY <1>1 DEF ClockTick
<1>5. QED
  BY <1>1, <1>2, <1>3, <1>4 DEF ClearingInv, ClearingTyped, OneClear, ClockTick

\* Every step preserves the invariant.
LEMMA ClearingNextInv ==
    ASSUME ClearingAssumption
    PROVE  ClearingInv /\ [ClearingNext]_clearingVars => ClearingInv'
<1> SUFFICES ASSUME ClearingInv, [ClearingNext]_clearingVars PROVE ClearingInv'
  OBVIOUS
<1> USE DEF ClearingInv, ClearingTyped, OneClear
<1>1. CASE Add
  BY <1>1 DEF Add
<1>2. CASE AddNumber
  BY <1>2 DEF AddNumber
<1>3. ASSUME NEW d \in Delays, SetDelay(d) PROVE ClearingInv'
  BY <1>3 DEF SetDelay, AllDelays
<1>4. CASE Gone
  BY <1>4, StateSaved DEF Gone
<1>5. CASE AutoClear
  <2>1. clears' = {}
    BY <1>5 DEF AutoClear
  <2>2. QED BY <1>5, <2>1, StateSaved DEF AutoClear
<1>6. CASE Remove
  BY <1>6 DEF Remove, AllDelays
<1>7. CASE UNCHANGED clearingVars
  BY <1>7 DEF clearingVars
<1>8. QED
  BY <1>1, <1>2, <1>3, <1>4, <1>5, <1>6, <1>7, DetectArms, TickCounts DEF ClearingNext

\* The inductive invariant of the sensor that clears itself.
THEOREM ClearingInvariant == ASSUME ClearingAssumption PROVE ClearingSpec => []ClearingInv
<1>1. ClearingInit => ClearingInv
  BY DEF ClearingInit, ClearingInv, ClearingTyped, OneClear
<1>2. QED BY <1>1, ClearingNextInv, PTL DEF ClearingSpec

\* A detection is shown for the whole of the delay it was given, whatever is
\* detected, reported or set meanwhile, for any delays (binary_sensor.py:98-121).
THEOREM ShownInFull == ASSUME ClearingAssumption PROVE ClearingSpec => ShownForItsDelay
<1>1. ClearingInv /\ AutoClear => age = due
  BY DEF ClearingInv, ClearingTyped, OneClear, AutoClear
<1>2. QED BY <1>1, ClearingInvariant, PTL DEF ClearingSpec, ShownForItsDelay
=============================================================================
