---------------------------- MODULE Subscription ----------------------------
(***************************************************************************)
(* Keeping the hub's pushes alive (__init__.py).  The hub forwards reports  *)
(* of a device only over a connection for which the cloud was asked to      *)
(* subscribe; so setup subscribes, every session-up and topology growth     *)
(* starts a re-arm pass over the same targets, and a watchdog driven by the *)
(* keepalives re-arms a silent link and, after some attempts, raises the    *)
(* push_stalled Repair.                                                     *)
(*                                                                         *)
(* Every load of the entry has a runtime data object of its own; a pass     *)
(* that is running when the entry is unloaded runs on with the old one.     *)
(* The hub connection is that of Link.  Cloud calls are atomic at the       *)
(* moment the cloud handles them; their latency is the gap between steps.   *)
(*                                                                         *)
(* Left out: the values the calls seed (see Reports), batches of paths, the   *)
(* reload after a re-authentication.                                        *)
(***************************************************************************)
EXTENDS Naturals, Sequences

CONSTANTS
    Targets,        \* subscription_targets: the devices of the subentries
    SelfDevice,     \* the tunnel host's own device
    Dids,           \* DIDs a topology push can list
    Threshold,      \* STALL_REARM_REPAIR_THRESHOLD
    TTL,            \* PUSH_STALL_TTL_SECONDS, in units of the model's clock
    MaxUps,         \* bound: sessions
    MaxLoads,       \* bound: loads of the entry
    MaxFails        \* bound: failed cloud calls and setups

SubscriptionAssumption ==
    /\ Targets \in Seq(STRING) /\ Targets # <<>>
    /\ SelfDevice \in STRING
    /\ Threshold \in Nat \ {0}
    /\ TTL \in Nat \ {0}
    /\ MaxUps \in Nat /\ MaxLoads \in Nat \ {0} /\ MaxFails \in Nat

VARIABLES
    link,       \* the coordinator's connection: "down", "up", "stopped"
    ups,        \* sessions so far, over all loads
    topo,       \* lanlink_topology_dids of the current coordinator
    silence,    \* clock units since the last report, up to TTL + 1
    armed,      \* devices the hub forwards on the current connection
    gen,        \* the current load of the entry
    setup,      \* async_setup_entry / async_unload_entry of that load
    built,      \* devices built by this setup
    authFailed, \* cloud_auth_failed of this setup
    wired,      \* runtime_data is set and the callbacks are installed
    runtime,       \* the runtime data of every load
    stalled,      \* the load that raised the push_stalled Repair, or 0
    heard,      \* history: the current session's on_session_up was wired
    begun,      \* history: a pass (or setup) was begun in this session
    missed,     \* history: a cloud call of this session failed
    fails       \* failures so far

linkVars == <<link, ups>>
setupVars == <<gen, setup, built, authFailed, wired>>
histVars == <<heard, begun, missed>>
vars == <<linkVars, topo, silence, armed, setupVars, runtime, stalled, histVars, fails>>

L == INSTANCE Link WITH link <- link, ups <- ups

Gens == 1..MaxLoads
TargetSet == {Targets[i] : i \in 1..Len(Targets)}
Devices == TargetSet \cup {SelfDevice}

\* pass: the index of the target a re-arm pass is at, 0 if none is in flight;
\* by: what started it; count: stall_rearm_count; since: clock units since
\* watchdog_last_rearm, up to TTL.
Data == [pass : 0..Len(Targets), by : {"event", "tick"},
         count : 0..Threshold, since : 0..TTL]

TypeOK ==
    /\ L!TypeOK
    /\ topo \subseteq Dids
    /\ silence \in 0..(TTL + 1)
    /\ armed \subseteq Devices
    /\ gen \in 0..MaxLoads
    /\ setup \in {"off", "connecting", "devices", "self", "done", "stopping"}
    /\ built \in 0..Len(Targets)
    /\ authFailed \in BOOLEAN
    /\ wired \in BOOLEAN
    /\ runtime \in [Gens -> Data]
    /\ stalled \in 0..MaxLoads
    /\ heard \in BOOLEAN /\ begun \in BOOLEAN /\ missed \in BOOLEAN
    /\ fails \in 0..MaxFails

Init ==
    /\ link = "stopped" /\ ups = 0
    /\ topo = {} /\ silence = 0 /\ armed = {}
    /\ gen = 0 /\ setup = "off" /\ built = 0
    /\ authFailed = FALSE /\ wired = FALSE
    /\ runtime = [g \in Gens |-> [pass |-> 0, by |-> "event", count |-> 0, since |-> TTL]]
    /\ stalled = 0
    /\ heard = FALSE /\ begun = FALSE /\ missed = FALSE
    /\ fails = 0

----------------------------------------------------------------------------
(* Re-arm passes *)

\* _rearm_subscriptions: a trigger while a pass is in flight is dropped.
StartPass(d, by) == IF d.pass # 0 THEN d ELSE [d EXCEPT !.pass = 1, !.by = by]

\* An event re-arms with the runtime data of the current load, if it is wired.
Trigger ==
    /\ runtime' = IF wired THEN [runtime EXCEPT ![gen] = StartPass(@, "event")] ELSE runtime
    /\ begun' = IF wired /\ runtime[gen].pass = 0 THEN TRUE ELSE begun

\* The cloud subscribes d on the connection the hub has now, or the call fails
\* on its own ("error") or for lack of a valid token ("auth").
Subscribe(d, outcome) ==
    /\ armed' = IF outcome = "ok" /\ link = "up" THEN armed \cup {d} ELSE armed
    /\ missed' = (missed \/ outcome # "ok")
    /\ fails' = IF outcome = "ok" THEN fails ELSE fails + 1
    /\ outcome # "ok" => fails < MaxFails

Outcomes == {"ok", "error", "auth"}

\* Mutation: the watchdog decides on the Repair before it waits for the pass.
M_Escalates(g) == runtime[g].by = "tick"

\* After its pass, the watchdog tick that started it looks at the count again.
Escalates(g) == runtime[g].by = "tick" /\ runtime[g].count >= Threshold

\* Mutation: the last target is left out.
M_MoreTargets(i) == i < Len(Targets) - 1

MoreTargets(i) == i < Len(Targets)

\* A pass handles its next target; an auth failure skips the others.
PassStep(g) ==
    /\ runtime[g].pass # 0
    /\ \E o \in Outcomes :
          /\ Subscribe(Targets[runtime[g].pass], o)
          /\ IF o # "auth" /\ MoreTargets(runtime[g].pass)
             THEN /\ runtime' = [runtime EXCEPT ![g].pass = @ + 1]
                  /\ UNCHANGED stalled
             ELSE /\ runtime' = [runtime EXCEPT ![g].pass = 0]
                  /\ stalled' = IF Escalates(g) THEN g ELSE stalled
    /\ UNCHANGED <<linkVars, topo, silence, setupVars, heard, begun>>

\* A device raises while it is seeded: the pass is over.
PassRaises(g) ==
    /\ runtime[g].pass # 0
    /\ fails < MaxFails
    /\ fails' = fails + 1
    /\ missed' = TRUE
    /\ runtime' = [runtime EXCEPT ![g].pass = 0]
    /\ UNCHANGED <<linkVars, topo, silence, armed, setupVars, stalled, heard, begun>>

----------------------------------------------------------------------------
(* The watchdog *)

Stalled == silence > TTL /\ topo # {}

\* Reports flow, or a disconnect or an empty topology explains the silence.
HealthyTick ==
    /\ runtime' = [runtime EXCEPT ![gen].count = 0]
    /\ stalled' = IF runtime[gen].count > 0 THEN 0 ELSE stalled
    /\ UNCHANGED begun

\* Below the cap and past the cooldown.
MayRearm == runtime[gen].count < Threshold /\ runtime[gen].since >= TTL

\* Another attempt; if a pass is in flight this tick does not wait for it.
RearmTick ==
    LET d == [runtime[gen] EXCEPT !.count = @ + 1, !.since = 0]
    IN  /\ runtime' = [runtime EXCEPT ![gen] = StartPass(d, "tick")]
        /\ begun' = (begun \/ d.pass = 0)
        /\ stalled' = IF d.pass # 0 /\ d.count >= Threshold THEN gen ELSE stalled

\* The hub acknowledges a keepalive: _on_keepalive, _watchdog_tick.
Keepalive ==
    /\ link = "up"
    /\ wired
    /\ \/ ~Stalled /\ HealthyTick
       \/ Stalled /\ MayRearm /\ RearmTick
    /\ UNCHANGED <<linkVars, topo, silence, armed, setupVars, heard, missed, fails>>

----------------------------------------------------------------------------
(* Setup and unload *)

\* async_setup_entry up to coordinator.start().
BeginSetup ==
    /\ setup = "off"
    /\ gen < MaxLoads
    /\ gen' = gen + 1
    /\ setup' = "connecting"
    /\ built' = 0
    /\ authFailed' = FALSE
    /\ wired' = FALSE
    /\ link' = "down"
    /\ topo' = {}
    /\ silence' = 0
    /\ UNCHANGED <<ups, armed, runtime, stalled, histVars, fails>>

\* wait_connected() returns.
SetupConnected ==
    /\ setup = "connecting"
    /\ link = "up"
    /\ setup' = "devices"
    /\ begun' = TRUE
    /\ UNCHANGED <<linkVars, topo, silence, armed, gen, built, authFailed, wired,
                   runtime, stalled, heard, missed, fails>>

\* The cloud call with which setup subscribes d, skipped after an auth failure.
SetupCall(d) ==
    IF authFailed
    THEN missed' = TRUE /\ UNCHANGED <<armed, fails, authFailed>>
    ELSE \E o \in Outcomes : Subscribe(d, o) /\ authFailed' = (o = "auth")

\* _build_device of the next subentry; after the last one runtime_data is set
\* and the callbacks are installed without an await in between.
BuildDevice ==
    /\ setup = "devices"
    /\ SetupCall(Targets[built + 1])
    /\ built' = built + 1
    /\ setup' = IF built' = Len(Targets) THEN "self" ELSE setup
    /\ wired' = (built' = Len(Targets))
    /\ UNCHANGED <<linkVars, topo, silence, gen, runtime, stalled, heard, begun>>

\* _build_device of the tunnel host, and the rest of setup.
BuildSelf ==
    /\ setup = "self"
    /\ SetupCall(SelfDevice)
    /\ setup' = "done"
    /\ UNCHANGED <<linkVars, topo, silence, gen, built, wired, runtime, stalled, heard, begun>>

\* Setup gives up: no session within 30 s, or a step raises.
SetupFails ==
    /\ setup \in {"connecting", "devices", "self"}
    /\ fails < MaxFails
    /\ fails' = fails + 1
    /\ setup' = "stopping"
    /\ UNCHANGED <<linkVars, topo, silence, armed, gen, built, authFailed, wired,
                   runtime, stalled, histVars>>

\* async_unload_entry, up to coordinator.stop().
UnloadEntry ==
    /\ setup = "done"
    /\ setup' = "stopping"
    /\ UNCHANGED <<linkVars, topo, silence, armed, gen, built, authFailed, wired,
                   runtime, stalled, histVars, fails>>

\* coordinator.stop() returns.
Stopped ==
    /\ setup = "stopping"
    /\ L!Stop
    /\ setup' = "off"
    /\ wired' = FALSE
    /\ UNCHANGED <<topo, silence, armed, gen, built, authFailed, runtime, stalled,
                   histVars, fails>>

----------------------------------------------------------------------------
(* The connection and the hub *)

\* A session is up; the new connection has no subscription yet.
SessionUp ==
    /\ ups < MaxUps
    /\ L!Up
    /\ armed' = {}
    /\ heard' = wired
    /\ missed' = FALSE
    /\ IF wired /\ runtime[gen].pass = 0
       THEN begun' = TRUE /\ runtime' = [runtime EXCEPT ![gen] = StartPass(@, "event")]
       ELSE begun' = FALSE /\ UNCHANGED runtime
    /\ UNCHANGED <<topo, silence, setupVars, stalled, fails>>

SessionDown ==
    /\ L!Down
    /\ armed' = {}
    /\ UNCHANGED <<topo, silence, setupVars, runtime, stalled, histVars, fails>>

\* A topology push; growth is a trigger.
TopologyPush ==
    /\ link = "up"
    /\ \E t \in SUBSET Dids :
          /\ t # topo
          /\ topo' = t
          /\ IF t \ topo # {} THEN Trigger ELSE UNCHANGED <<runtime, begun>>
    /\ UNCHANGED <<linkVars, silence, armed, setupVars, stalled, heard, missed, fails>>

\* The hub forwards a report of a device that is armed.
HearReport ==
    /\ link = "up"
    /\ armed # {} /\ topo # {}
    /\ silence' = 0
    /\ UNCHANGED <<linkVars, topo, armed, setupVars, runtime, stalled, histVars, fails>>

\* Time passes.
Capped(n, max) == IF n < max THEN n + 1 ELSE n

Clock ==
    /\ silence' = Capped(silence, TTL + 1)
    /\ runtime' = [g \in Gens |-> [runtime[g] EXCEPT !.since = Capped(@, TTL)]]
    /\ UNCHANGED <<linkVars, topo, armed, setupVars, stalled, histVars, fails>>

----------------------------------------------------------------------------

Passes == \E g \in Gens : PassStep(g) \/ PassRaises(g)

SetupSteps == BeginSetup \/ SetupConnected \/ BuildDevice \/ BuildSelf \/ SetupFails
         \/ UnloadEntry \/ Stopped

Next == Passes \/ Keepalive \/ SetupSteps \/ SessionUp \/ SessionDown
        \/ TopologyPush \/ HearReport \/ Clock

Spec == Init /\ [][Next]_vars

\* Every cloud call is answered or times out, and a hub whose connection is up
\* acknowledges keepalives: a connection that is silent altogether is closed.
FairSpec == Spec /\ WF_vars(Keepalive) /\ \A g \in Gens : WF_vars(PassStep(g))

----------------------------------------------------------------------------
(* Properties *)

\* Setup is complete, the session is up, nothing is under way and no call of
\* this session failed: what is not armed now stays silent until some event.
Quiet ==
    /\ setup = "done" /\ link = "up" /\ runtime[gen].pass = 0
    /\ ~missed

\* Whatever is begun in a session arms every device of the subentries in it,
\* although passes, drops, unloads and passes of an earlier load interleave
\* (__init__.py:315-350).
BegunPassArms == Quiet /\ begun => TargetSet \subseteq armed

\* A Repair this load has raised is there only while the attempts that earned
\* it count: a healthy tick during the last pass prevents it, and a later one
\* takes it back (__init__.py:371-425).
RepairIsEarned == stalled # 0 /\ stalled = gen => runtime[gen].count >= Threshold

\* A pass ends, whatever fails in it, so later triggers are not dropped for
\* good (__init__.py:334-350).
PassesEnd == \A g \in Gens : (runtime[g].pass # 0) ~> (runtime[g].pass = 0)

\* __init__.py:762-765: "Re-arm the push subscription on every tunnel
\* session-up".  A session that came up during a pass begun in the one before
\* is not re-armed.
SessionUpRearms == Quiet /\ heard => TargetSet \subseteq armed

\* docs/architecture.md:64: "it is lost on every reconnect and must be
\* re-armed. At setup, and again after every reconnect".  A reconnect while
\* setup still builds devices is heard by nobody.
SetupRearms == Quiet /\ ~heard => TargetSet \subseteq armed

\* docs/architecture.md:205: "Every HA startup / reload / reconnect:
\* per-device subscribe+seed".  The self-device is no target of a re-arm.
SelfDeviceRearmed == Quiet /\ heard /\ begun => SelfDevice \in armed

\* A load takes back the Repair it raised once reports keep coming
\* (__init__.py:383-393).
Flowing == setup = "done" /\ link = "up" /\ silence <= TTL
OwnRepairClears == <>[]Flowing => []<>(stalled # gen)

\* __init__.py:114-116: "Reset to 0 (and the Repair cleared) as soon as
\* reports resume".  The Repair of an earlier load stays.
RepairClears == <>[]Flowing => []<>(stalled = 0)
=============================================================================
