------------------------- MODULE SubscriptionProofs -------------------------
(***************************************************************************)
(* Proofs about Subscription for any targets, any threshold and TTL and    *)
(* any number of sessions, loads and failures.                             *)
(***************************************************************************)
EXTENDS Subscription, TLAPS

\* Every load has its data, and only loads so far have passes or the Repair.
Loads ==
    /\ gen \in 0..MaxLoads
    /\ setup \in {"off", "connecting", "devices", "self", "done", "stopping"}
    /\ setup # "off" => gen \in Gens
    /\ runtime \in [Gens -> Data]
    /\ \A g \in Gens : runtime[g].pass # 0 => g <= gen
    /\ stalled \in 0..gen

\* Setup has built the devices before the one it is at.
Building ==
    /\ built \in 0..Len(Targets)
    /\ setup = "connecting" => built = 0
    /\ setup = "devices" => built < Len(Targets)

ArmedUpTo(n) == \A i \in 1..n : Targets[i] \in armed

\* What is begun in a session has armed what it has come past.
Arming ==
    link = "up" /\ begun /\ ~missed /\ setup \in {"devices", "self", "done"} =>
        \/ ArmedUpTo(Len(Targets))
        \/ setup = "devices" /\ ArmedUpTo(built)
        \/ runtime[gen].pass # 0 /\ ArmedUpTo(runtime[gen].pass - 1)

IInv == Loads /\ Building /\ Arming /\ RepairIsEarned

-----------------------------------------------------------------------------

\* What the assumption says of the numbers.
LEMMA Numbers ==
    ASSUME SubscriptionAssumption
    PROVE  /\ Len(Targets) \in Nat \ {0}
           /\ Threshold \in Nat \ {0} /\ TTL \in Nat \ {0} /\ MaxLoads \in Nat \ {0}
BY DEF SubscriptionAssumption

\* The fields of a load's data.
LEMMA Fields ==
    ASSUME NEW d \in Data
    PROVE  /\ d.pass \in 0..Len(Targets) /\ d.by \in {"event", "tick"}
           /\ d.count \in 0..Threshold /\ d.since \in 0..TTL
BY DEF Data

\* The initial states.
LEMMA InitInv == ASSUME SubscriptionAssumption PROVE Init => IInv
<1> SUFFICES ASSUME Init PROVE IInv
  OBVIOUS
<1> USE Numbers
<1>1. [pass |-> 0, by |-> "event", count |-> 0, since |-> TTL] \in Data
  BY DEF Data
<1>2. Loads
  BY <1>1 DEF Init, Loads, Gens
<1>3. Building /\ Arming /\ RepairIsEarned
  BY DEF Init, Building, Arming, RepairIsEarned
<1>4. QED BY <1>2, <1>3 DEF IInv

\* BegunPassArms is what Arming says when nothing is under way.
LEMMA ArmingArms == ASSUME SubscriptionAssumption PROVE Arming => BegunPassArms
<1> SUFFICES ASSUME Arming, Quiet, begun PROVE TargetSet \subseteq armed
  BY DEF BegunPassArms
<1>1. ArmedUpTo(Len(Targets))
  BY DEF Arming, Quiet
<1>2. QED BY <1>1 DEF ArmedUpTo, TargetSet

-----------------------------------------------------------------------------
(* Changes of a load's data *)

\* A pass starts, or one is in flight.
LEMMA PassStarts ==
    ASSUME SubscriptionAssumption, NEW d \in Data, NEW by \in {"event", "tick"}
    PROVE  /\ StartPass(d, by) \in Data
           /\ StartPass(d, by).count = d.count
           /\ StartPass(d, by).pass = IF d.pass = 0 THEN 1 ELSE d.pass
<1>1. 1 \in 0..Len(Targets)
  BY Numbers
<1>2. CASE d.pass = 0
  <2> DEFINE n == [d EXCEPT !.pass = 1, !.by = by]
  <2>1. StartPass(d, by) = n
    BY <1>2 DEF StartPass
  <2>2. n \in Data /\ n.count = d.count /\ n.pass = 1
    BY <1>1 DEF Data
  <2> HIDE DEF n
  <2>3. QED BY <1>2, <2>1, <2>2
<1>3. CASE d.pass # 0
  BY <1>3 DEF StartPass
<1>4. QED BY <1>2, <1>3

\* The cloud's answer arms a device or is remembered as missed; what was armed
\* stays so.
LEMMA Subscribes ==
    ASSUME NEW d, NEW o \in Outcomes, Subscribe(d, o)
    PROVE  /\ armed \subseteq armed'
           /\ link = "up" /\ ~missed' => d \in armed' /\ o = "ok" /\ ~missed
BY DEF Outcomes, Subscribe

\* A pass is at another target, or none.
LEMMA PassMoves ==
    ASSUME SubscriptionAssumption, NEW g \in Gens, runtime \in [Gens -> Data],
           NEW p \in 0..Len(Targets), runtime' = [runtime EXCEPT ![g].pass = p]
    PROVE  /\ runtime' \in [Gens -> Data] /\ runtime'[g].pass = p
           /\ \A h \in Gens : runtime'[h].count = runtime[h].count
           /\ \A h \in Gens \ {g} : runtime'[h] = runtime[h]
<1>1. /\ [runtime[g] EXCEPT !.pass = p] \in Data
      /\ [runtime[g] EXCEPT !.pass = p].pass = p
      /\ [runtime[g] EXCEPT !.pass = p].count = runtime[g].count
  <2>1. runtime[g] \in Data
    OBVIOUS
  <2>2. QED BY <2>1 DEF Data
<1>2. runtime' = [runtime EXCEPT ![g] = [runtime[g] EXCEPT !.pass = p]]
  OBVIOUS
<1>3. QED BY <1>1, <1>2

-----------------------------------------------------------------------------
(* Passes *)

\* What the steps of a pass leave alone.
LEMMA PassStepInv ==
    ASSUME SubscriptionAssumption, IInv, NEW g \in Gens, PassStep(g)
    PROVE  IInv'
<1> USE DEF IInv, Loads
<1> DEFINE p == runtime[g].pass
<1>1. p \in 1..Len(Targets) /\ g <= gen
  BY Fields DEF PassStep
<1>2. UNCHANGED <<link, setup, gen, built, wired, begun>>
  BY DEF PassStep, linkVars, setupVars
<1>3. PICK o \in Outcomes :
        /\ Subscribe(Targets[p], o)
        /\ IF o # "auth" /\ MoreTargets(p)
           THEN runtime' = [runtime EXCEPT ![g].pass = p + 1] /\ UNCHANGED stalled
           ELSE /\ runtime' = [runtime EXCEPT ![g].pass = 0]
                /\ stalled' = IF Escalates(g) THEN g ELSE stalled
  BY DEF PassStep
<1>4. PICK q \in 0..Len(Targets) :
        /\ runtime' = [runtime EXCEPT ![g].pass = q]
        /\ q = p + 1 \/ (q = 0 /\ (o = "auth" \/ p = Len(Targets)))
  <2>1. CASE o # "auth" /\ MoreTargets(p)
    <3>1. p + 1 \in 0..Len(Targets)
      BY <1>1, <2>1, Numbers DEF MoreTargets
    <3>2. QED BY <1>3, <2>1, <3>1
  <2>2. CASE ~(o # "auth" /\ MoreTargets(p))
    <3>1. 0 \in 0..Len(Targets) /\ (o = "auth" \/ p = Len(Targets))
      BY <1>1, <2>2, Numbers DEF MoreTargets
    <3>2. QED BY <1>3, <2>2, <3>1
  <2>3. QED BY <2>1, <2>2
<1>5. /\ runtime' \in [Gens -> Data] /\ runtime'[g].pass = q
      /\ \A h \in Gens : runtime'[h].count = runtime[h].count
      /\ \A h \in Gens \ {g} : runtime'[h] = runtime[h]
  BY <1>4, PassMoves
<1>6. stalled' = stalled \/ (stalled' = g /\ runtime[g].count >= Threshold)
  BY <1>3 DEF Escalates
<1> HIDE DEF p
<1>7. Loads'
  BY <1>1, <1>2, <1>5, <1>6 DEF Gens
<1>8. Building'
  BY <1>2 DEF Building
<1>9. RepairIsEarned'
  BY <1>1, <1>2, <1>5, <1>6 DEF RepairIsEarned, Gens
<1>10. Arming'
  <2>1. SUFFICES ASSUME link = "up", begun, ~missed', setup \in {"devices", "self", "done"}
                 PROVE  \/ ArmedUpTo(Len(Targets))'
                        \/ setup = "devices" /\ ArmedUpTo(built)'
                        \/ runtime'[gen].pass # 0
                           /\ \A i \in 1..(runtime'[gen].pass - 1) : Targets[i] \in armed'
    BY <1>2 DEF Arming, ArmedUpTo
  <2>2. armed \subseteq armed' /\ Targets[p] \in armed' /\ o = "ok" /\ ~missed
    BY <1>3, <2>1, Subscribes DEF p
  <2>3. \/ ArmedUpTo(Len(Targets))
        \/ setup = "devices" /\ ArmedUpTo(built)
        \/ runtime[gen].pass # 0 /\ ArmedUpTo(runtime[gen].pass - 1)
    BY <2>1, <2>2 DEF Arming
  <2>4. CASE ArmedUpTo(Len(Targets))
    BY <2>2, <2>4 DEF ArmedUpTo
  <2>5. CASE setup = "devices" /\ ArmedUpTo(built)
    BY <1>2, <2>2, <2>5 DEF ArmedUpTo
  <2>6. CASE runtime[gen].pass # 0 /\ ArmedUpTo(runtime[gen].pass - 1) /\ gen # g
    BY <1>5, <2>1, <2>2, <2>6 DEF ArmedUpTo
  <2>7. CASE runtime[gen].pass # 0 /\ ArmedUpTo(runtime[gen].pass - 1) /\ gen = g
    <3>1. \A i \in 1..p : Targets[i] \in armed'
      BY <1>1, <2>2, <2>7 DEF ArmedUpTo, p
    <3>2. CASE q = p + 1
      BY <1>1, <1>5, <2>7, <3>1, <3>2
    <3>3. CASE q = 0 /\ (o = "auth" \/ p = Len(Targets))
      BY <2>2, <3>1, <3>3 DEF ArmedUpTo
    <3>4. QED BY <1>4, <3>2, <3>3
  <2>8. QED BY <2>3, <2>4, <2>5, <2>6, <2>7
<1>11. QED BY <1>7, <1>8, <1>9, <1>10

\* A pass that a device ends is missed.
LEMMA PassRaisesInv ==
    ASSUME SubscriptionAssumption, IInv, NEW g \in Gens, PassRaises(g)
    PROVE  IInv'
<1> USE DEF IInv, Loads
<1>1. runtime' = [runtime EXCEPT ![g].pass = 0] /\ missed'
      /\ UNCHANGED <<link, setup, gen, built, stalled>>
  BY DEF PassRaises, linkVars, setupVars
<1>2. 0 \in 0..Len(Targets)
  BY Numbers
<1>3. /\ runtime' \in [Gens -> Data] /\ runtime'[g].pass = 0
      /\ \A h \in Gens : runtime'[h].count = runtime[h].count
      /\ \A h \in Gens \ {g} : runtime'[h] = runtime[h]
  BY <1>1, <1>2, PassMoves
<1>4. Loads'
  BY <1>1, <1>3
<1>5. Building' /\ Arming'
  BY <1>1 DEF Building, Arming
<1>6. RepairIsEarned'
  BY <1>1, <1>3 DEF RepairIsEarned, Gens
<1>7. QED BY <1>4, <1>5, <1>6

-----------------------------------------------------------------------------
(* The watchdog *)

\* The data of the current load is n now.
LEMMA OwnData ==
    ASSUME Loads, gen \in Gens, NEW n \in Data, runtime' = [runtime EXCEPT ![gen] = n]
    PROVE  /\ runtime' \in [Gens -> Data] /\ runtime'[gen] = n
           /\ \A h \in Gens \ {gen} : runtime'[h] = runtime[h]
BY DEF Loads

\* A tick that finds reports, or a reason for their absence, takes back the
\* Repair with the count.
LEMMA HealthyTickInv ==
    ASSUME SubscriptionAssumption, IInv, gen \in Gens, HealthyTick,
           UNCHANGED <<link, armed, gen, setup, built, missed>>
    PROVE  IInv'
<1> USE DEF IInv
<1> DEFINE n == [runtime[gen] EXCEPT !.count = 0]
<1>1. runtime[gen] \in Data
  BY DEF Loads
<1>2. n \in Data /\ n.pass = runtime[gen].pass /\ n.count = 0
  BY <1>1, Numbers DEF Data
<1>3. runtime' = [runtime EXCEPT ![gen] = n]
  BY DEF HealthyTick
<1> HIDE DEF n
<1>4. /\ runtime' \in [Gens -> Data] /\ runtime'[gen] = n
      /\ \A h \in Gens \ {gen} : runtime'[h] = runtime[h]
  BY <1>2, <1>3, OwnData
<1>5. stalled' = (IF runtime[gen].count > 0 THEN 0 ELSE stalled) /\ UNCHANGED begun
  BY DEF HealthyTick
<1>6. Loads'
  BY <1>2, <1>4, <1>5 DEF Loads, Gens
<1>7. RepairIsEarned'
  <2>1. stalled # 0 /\ stalled = gen => runtime[gen].count > 0
    BY <1>1, Fields, Numbers DEF RepairIsEarned
  <2>2. QED BY <1>5, <2>1 DEF RepairIsEarned
<1>8. Arming'
  BY <1>2, <1>4, <1>5 DEF Arming, ArmedUpTo
<1>9. QED BY <1>6, <1>7, <1>8 DEF Building

\* Another attempt: the Repair of this load is there once the last one counts.
LEMMA RearmTickInv ==
    ASSUME SubscriptionAssumption, IInv, gen \in Gens, MayRearm, RearmTick,
           UNCHANGED <<link, armed, gen, setup, built, missed>>
    PROVE  IInv'
<1> USE DEF IInv
<1> DEFINE d == [runtime[gen] EXCEPT !.count = @ + 1, !.since = 0]
           n == StartPass(d, "tick")
<1>1. runtime[gen] \in Data
  BY DEF Loads
<1>2. runtime[gen].count + 1 \in 0..Threshold /\ 0 \in 0..TTL
  BY <1>1, Fields, Numbers DEF MayRearm
<1>3. d \in Data /\ d.pass = runtime[gen].pass /\ d.count = runtime[gen].count + 1
  BY <1>1, <1>2 DEF Data
<1>4. /\ runtime' = [runtime EXCEPT ![gen] = n]
      /\ begun' = (begun \/ d.pass = 0)
      /\ stalled' = IF d.pass # 0 /\ d.count >= Threshold THEN gen ELSE stalled
  BY DEF RearmTick
<1> HIDE DEF d
<1>5. /\ n \in Data /\ n.count = d.count
      /\ n.pass = IF d.pass = 0 THEN 1 ELSE d.pass
  BY <1>3, PassStarts
<1> HIDE DEF n
<1>6. /\ runtime' \in [Gens -> Data] /\ runtime'[gen] = n
      /\ \A h \in Gens \ {gen} : runtime'[h] = runtime[h]
  BY <1>4, <1>5, OwnData
<1>7. Loads'
  BY <1>3, <1>4, <1>5, <1>6 DEF Loads, Gens
<1>8. RepairIsEarned'
  <2>1. stalled # 0 /\ stalled = gen => FALSE
    BY <1>1, Fields, Numbers DEF RepairIsEarned, MayRearm
  <2>2. QED BY <1>4, <1>5, <1>6, <2>1 DEF RepairIsEarned, Gens
<1>9. Arming'
  <2>1. CASE d.pass = 0
    <3>1. runtime'[gen].pass # 0 /\ \A i \in 1..(runtime'[gen].pass - 1) : Targets[i] \in armed
      BY <1>5, <1>6, <2>1
    <3>2. QED BY <3>1 DEF Arming, ArmedUpTo
  <2>2. CASE d.pass # 0
    <3>1. runtime'[gen].pass = runtime[gen].pass /\ (begun' <=> begun)
      BY <1>3, <1>4, <1>5, <1>6, <2>2
    <3>2. QED BY <3>1 DEF Arming, ArmedUpTo
  <2>3. QED BY <2>1, <2>2
<1>10. QED BY <1>7, <1>8, <1>9 DEF Building

-----------------------------------------------------------------------------
(* Setup and unload *)

\* A new load has no pass and has not raised the Repair there may be.
LEMMA LoadInv == ASSUME SubscriptionAssumption, IInv, BeginSetup PROVE IInv'
<1> USE DEF IInv
<1>1. /\ gen' = gen + 1 /\ gen < MaxLoads /\ setup' = "connecting" /\ built' = 0
      /\ UNCHANGED <<runtime, stalled>>
  BY DEF BeginSetup
<1>2. Loads'
  BY <1>1, Numbers DEF Loads, Gens
<1>3. Building'
  BY <1>1, Numbers DEF Building
<1>4. RepairIsEarned'
  BY <1>1, Numbers DEF Loads, RepairIsEarned
<1>5. Arming'
  BY <1>1 DEF Arming
<1>6. QED BY <1>2, <1>3, <1>4, <1>5

\* Setup subscribes the next device itself, in the session it finds.
LEMMA BuildDeviceInv == ASSUME SubscriptionAssumption, IInv, BuildDevice PROVE IInv'
<1> USE DEF IInv
<1>1. /\ setup = "devices" /\ built' = built + 1
      /\ setup' = IF built' = Len(Targets) THEN "self" ELSE setup
      /\ UNCHANGED <<link, gen, runtime, stalled, begun>>
      /\ SetupCall(Targets[built + 1])
  BY DEF BuildDevice, linkVars
<1>2. built \in 0..Len(Targets) /\ built < Len(Targets)
  BY <1>1 DEF Building
<1>3. Loads'
  BY <1>1 DEF Loads
<1>4. Building'
  BY <1>1, <1>2, Numbers DEF Building
<1>5. RepairIsEarned'
  BY <1>1 DEF RepairIsEarned
<1>6. armed \subseteq armed'
      /\ (link = "up" /\ ~missed' => Targets[built + 1] \in armed' /\ ~missed)
  BY <1>1, Subscribes DEF SetupCall
<1>7. Arming'
  <2>1. SUFFICES ASSUME link = "up", begun, ~missed'
                 PROVE  \/ \A i \in 1..Len(Targets) : Targets[i] \in armed'
                        \/ setup' = "devices"
                           /\ \A i \in 1..built' : Targets[i] \in armed'
                        \/ runtime[gen].pass # 0
                           /\ \A i \in 1..(runtime[gen].pass - 1) : Targets[i] \in armed'
    BY <1>1 DEF Arming, ArmedUpTo
  <2>2. \/ ArmedUpTo(Len(Targets))
        \/ ArmedUpTo(built)
        \/ runtime[gen].pass # 0 /\ ArmedUpTo(runtime[gen].pass - 1)
    BY <1>1, <1>6, <2>1 DEF Arming
  <2>3. CASE ArmedUpTo(built)
    <3>1. \A i \in 1..(built + 1) : Targets[i] \in armed'
      BY <1>2, <1>6, <2>1, <2>3 DEF ArmedUpTo
    <3>2. QED BY <1>1, <3>1
  <2>4. CASE ~ArmedUpTo(built)
    BY <1>6, <2>2, <2>4 DEF ArmedUpTo
  <2>5. QED BY <2>3, <2>4
<1>8. QED BY <1>3, <1>4, <1>5, <1>7

\* The tunnel host is no target; its call can only miss.
LEMMA BuildSelfInv == ASSUME SubscriptionAssumption, IInv, BuildSelf PROVE IInv'
<1> USE DEF IInv
<1>1. /\ setup = "self" /\ setup' = "done"
      /\ UNCHANGED <<link, gen, built, runtime, stalled, begun>>
      /\ SetupCall(SelfDevice)
  BY DEF BuildSelf, linkVars
<1>2. armed \subseteq armed' /\ (link = "up" /\ ~missed' => ~missed)
  BY <1>1, Subscribes DEF SetupCall
<1>3. Loads' /\ Building' /\ RepairIsEarned'
  BY <1>1 DEF Loads, Building, RepairIsEarned
<1>4. Arming'
  BY <1>1, <1>2 DEF Arming, ArmedUpTo
<1>5. QED BY <1>3, <1>4

\* Setup begins with no device built; the other steps end it.
LEMMA SetupInv == ASSUME SubscriptionAssumption, IInv, SetupSteps PROVE IInv'
<1> USE DEF IInv
<1>1. CASE SetupConnected
  <2>1. /\ setup = "connecting" /\ setup' = "devices" /\ built' = 0
        /\ UNCHANGED <<gen, runtime, stalled>>
    BY <1>1 DEF SetupConnected, Building
  <2>2. Loads' /\ RepairIsEarned'
    BY <2>1 DEF Loads, RepairIsEarned
  <2>3. Building' /\ Arming'
    BY <2>1, Numbers DEF Building, Arming, ArmedUpTo
  <2>4. QED BY <2>2, <2>3
<1>2. CASE SetupFails \/ UnloadEntry \/ Stopped
  <2>1. /\ setup # "off" /\ setup' \in {"stopping", "off"}
        /\ UNCHANGED <<gen, built, runtime, stalled>>
    BY <1>2 DEF SetupFails, UnloadEntry, Stopped
  <2>2. Loads' /\ RepairIsEarned' /\ Building' /\ Arming'
    BY <2>1 DEF Loads, RepairIsEarned, Building, Arming
  <2>3. QED BY <2>2
<1>3. QED BY <1>1, <1>2, LoadInv, BuildDeviceInv, BuildSelfInv DEF SetupSteps

-----------------------------------------------------------------------------
(* The connection and the hub *)

\* An event starts a pass with the data of the current load.
LEMMA EventInv ==
    ASSUME SubscriptionAssumption, IInv, runtime[gen].pass = 0,
           begun', runtime' = [runtime EXCEPT ![gen] = StartPass(@, "event")],
           UNCHANGED <<gen, setup, built, stalled>>
    PROVE  IInv'
<1> USE DEF IInv
<1>1. CASE gen \in Gens
  <2> DEFINE n == StartPass(runtime[gen], "event")
  <2>1. runtime[gen] \in Data /\ runtime' = [runtime EXCEPT ![gen] = n]
    BY <1>1 DEF Loads
  <2>2. n \in Data /\ n.count = runtime[gen].count /\ n.pass = 1
    BY <2>1, PassStarts
  <2> HIDE DEF n
  <2>3. /\ runtime' \in [Gens -> Data] /\ runtime'[gen] = n
        /\ \A h \in Gens \ {gen} : runtime'[h] = runtime[h]
    BY <1>1, <2>1, <2>2, OwnData
  <2>4. Loads' /\ RepairIsEarned'
    BY <2>2, <2>3 DEF Loads, RepairIsEarned, Gens
  <2>5. runtime'[gen].pass # 0 /\ \A i \in 1..(runtime'[gen].pass - 1) : Targets[i] \in armed'
    BY <2>2, <2>3
  <2>6. Building' /\ Arming'
    BY <2>5 DEF Building, Arming, ArmedUpTo
  <2>7. QED BY <2>4, <2>6
<1>2. CASE gen \notin Gens
  <2>1. setup = "off" /\ runtime' = runtime
    BY <1>2 DEF Loads
  <2>2. Loads' /\ RepairIsEarned' /\ Building' /\ Arming'
    BY <2>1 DEF Loads, RepairIsEarned, Building, Arming
  <2>3. QED BY <2>2
<1>3. QED BY <1>1, <1>2

\* A session that comes up starts a pass, or nothing is begun in it.
LEMMA SessionUpInv == ASSUME SubscriptionAssumption, IInv, SessionUp PROVE IInv'
<1>1. UNCHANGED <<gen, setup, built, stalled>>
  BY DEF SessionUp, setupVars
<1>2. CASE wired /\ runtime[gen].pass = 0
  BY <1>1, <1>2, EventInv DEF SessionUp
<1>3. CASE ~(wired /\ runtime[gen].pass = 0)
  <2>1. begun' = FALSE /\ UNCHANGED runtime
    BY <1>3 DEF SessionUp
  <2>2. QED
    BY <1>1, <2>1 DEF IInv, Loads, Building, Arming, RepairIsEarned
<1>4. QED BY <1>2, <1>3

\* The topology triggers a pass only where there is none.
LEMMA TopologyPushInv == ASSUME SubscriptionAssumption, IInv, TopologyPush PROVE IInv'
<1>1. UNCHANGED <<link, armed, gen, setup, built, stalled, missed>>
  BY DEF TopologyPush, linkVars, setupVars
<1>2. CASE Trigger /\ wired /\ runtime[gen].pass = 0
  BY <1>1, <1>2, EventInv DEF Trigger
<1>3. CASE Trigger /\ ~(wired /\ runtime[gen].pass = 0)
  <2>1. runtime' = runtime /\ begun' = begun
    <3>1. CASE ~wired
      BY <1>3, <3>1 DEF Trigger
    <3>2. CASE runtime[gen].pass # 0
      <4>1. StartPass(runtime[gen], "event") = runtime[gen]
        BY <3>2 DEF StartPass
      <4>2. [runtime EXCEPT ![gen] = runtime[gen]] = runtime
        BY DEF IInv, Loads
      <4>3. QED BY <1>3, <4>1, <4>2 DEF Trigger
    <3>3. QED BY <1>3, <3>1, <3>2
  <2>2. QED
    BY <1>1, <2>1 DEF IInv, Loads, Building, Arming, ArmedUpTo, RepairIsEarned
<1>4. CASE UNCHANGED <<runtime, begun>>
  BY <1>1, <1>4 DEF IInv, Loads, Building, Arming, ArmedUpTo, RepairIsEarned
<1>5. QED BY <1>2, <1>3, <1>4 DEF TopologyPush

\* The clock moves the cooldowns alone.
LEMMA ClockInv == ASSUME SubscriptionAssumption, IInv, Clock PROVE IInv'
<1> USE DEF IInv
<1>1. /\ runtime' = [g \in Gens |-> [runtime[g] EXCEPT !.since = Capped(@, TTL)]]
      /\ UNCHANGED <<link, armed, gen, setup, built, stalled, begun, missed>>
  BY DEF Clock, linkVars, setupVars, histVars
<1>2. ASSUME NEW g \in Gens
      PROVE  runtime'[g] \in Data /\ runtime'[g].pass = runtime[g].pass
             /\ runtime'[g].count = runtime[g].count
  <2>1. runtime[g] \in Data
    BY DEF Loads
  <2>2. Capped(runtime[g].since, TTL) \in 0..TTL
    BY <2>1, Fields, Numbers DEF Capped
  <2>3. QED BY <1>1, <2>1, <2>2 DEF Data
<1>3. runtime' \in [Gens -> Data]
  BY <1>1, <1>2
<1>4. Loads' /\ Building' /\ RepairIsEarned'
  BY <1>1, <1>2, <1>3 DEF Loads, Building, RepairIsEarned, Gens
<1>5. Arming'
  <2>1. setup \in {"devices", "self", "done"} => gen \in Gens
    BY DEF Loads
  <2>2. QED BY <1>1, <1>2, <2>1 DEF Arming, ArmedUpTo
<1>6. QED BY <1>4, <1>5

\* Every step keeps the invariant.
LEMMA NextInv == ASSUME SubscriptionAssumption PROVE IInv /\ [Next]_vars => IInv'
<1> SUFFICES ASSUME IInv, [Next]_vars PROVE IInv'
  OBVIOUS
<1>1. CASE Passes
  BY <1>1, PassStepInv, PassRaisesInv DEF Passes
<1>2. CASE Keepalive
  <2>1. UNCHANGED <<link, armed, gen, setup, built, missed>>
    BY <1>2 DEF Keepalive, linkVars, setupVars
  <2>2. CASE gen \in Gens
    BY <1>2, <2>1, <2>2, HealthyTickInv, RearmTickInv DEF Keepalive
  <2>3. CASE gen \notin Gens
    <3>1. setup = "off" /\ gen = 0 /\ stalled = 0 /\ runtime' = runtime
      BY <1>2, <2>3, Numbers DEF IInv, Loads, Gens, Keepalive, HealthyTick, RearmTick
    <3>2. stalled' = 0
      BY <1>2, <2>3, <3>1 DEF Keepalive, HealthyTick, RearmTick
    <3>3. QED
      BY <2>1, <3>1, <3>2 DEF IInv, Loads, Building, Arming, RepairIsEarned
  <2>4. QED BY <2>2, <2>3
<1>3. CASE SessionDown
  BY <1>3 DEF SessionDown, L!Down, setupVars, histVars, IInv, Loads, Building,
              Arming, RepairIsEarned
<1>4. CASE HearReport \/ UNCHANGED vars
  BY <1>4 DEF HearReport, vars, linkVars, setupVars, histVars, IInv, Loads, Building,
              Arming, ArmedUpTo, RepairIsEarned
<1>5. QED
  BY <1>1, <1>2, <1>3, <1>4, SetupInv, SessionUpInv, TopologyPushInv, ClockInv DEF Next

-----------------------------------------------------------------------------

\* The inductive invariant (__init__.py:315-425): what was begun in a session
\* has armed the targets it has come past, and the Repair is only ever that of
\* a load there has been.
THEOREM SubscriptionInvariant == ASSUME SubscriptionAssumption PROVE Spec => []IInv
<1>1. Init => IInv
  BY InitInv
<1>2. IInv /\ [Next]_vars => IInv'
  BY NextInv
<1>3. QED BY <1>1, <1>2, PTL DEF Spec

\* A setup or pass begun in a session, none of whose cloud calls failed, has
\* armed every target once it is over, although _rearm_subscriptions drops the
\* triggers that come meanwhile (__init__.py:334-336).
THEOREM BegunArms == ASSUME SubscriptionAssumption PROVE Spec => []BegunPassArms
<1>1. IInv => BegunPassArms
  BY ArmingArms DEF IInv
<1>2. QED BY <1>1, SubscriptionInvariant, PTL

\* The push_stalled Repair of the current load is there only while its attempts
\* count (_watchdog_tick, __init__.py:371-425).
THEOREM RepairEarned == ASSUME SubscriptionAssumption PROVE Spec => []RepairIsEarned
<1>1. IInv => RepairIsEarned
  BY DEF IInv
<1>2. QED BY <1>1, SubscriptionInvariant, PTL
=============================================================================
