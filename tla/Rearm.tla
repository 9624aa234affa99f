------------------------------- MODULE Rearm -------------------------------
(***************************************************************************)
(* RearmManager (hub/rearm.py): re-activating standalone devices that fall  *)
(* out of the hub's topology.  One retry loop per absent device, started by *)
(* topology pushes and a periodic sweep, cancelled when the device is back. *)
(* A cancelled loop still has to unwind (close its socket, run its finally  *)
(* block) while a new one for the same device may already run.              *)
(*                                                                         *)
(* Timers count down in units of the model's clock; the clock waits for     *)
(* what has expired.  Left out: where the device is found, the handshake    *)
(* (whose outcome is irrelevant to the loop).                               *)
(***************************************************************************)
EXTENDS Naturals, Sequences, FiniteSets

CONSTANTS
    Activated,      \* DIDs of the activated subentries
    Grace,          \* absence_grace
    Cooldown,       \* rearm_cooldown
    Chunk,          \* the longest cooldown sleep of one round
    Discovery,      \* the longest mDNS lookup
    PokeTime,       \* the longest activate_relay
    Settle,         \* settle_timeout
    Backoffs,       \* backoffs
    MaxRounds,      \* max_rounds
    SweepPeriod,    \* the interval of sweep
    MaxLoops,       \* bound: loops of one device that are not yet unwound
    MaxReloads        \* bound: loads of the entry

RearmAssumption ==
    /\ Grace \in Nat \ {0} /\ Cooldown \in Nat \ {0} /\ Chunk \in Nat \ {0}
    /\ Discovery \in Nat /\ PokeTime \in Nat /\ Settle \in Nat
    /\ Backoffs \in Seq(Nat) /\ Backoffs # <<>>
    /\ MaxRounds \in Nat \ {0} /\ SweepPeriod \in Nat \ {0}
    /\ MaxLoops \in Nat \ {0} /\ MaxReloads \in Nat

VARIABLES
    listed,     \* lanlink_topology_dids, _last_topology
    slot,       \* _tasks: the loop of each device, 0 if none
    loop,       \* the loops of each device: what they await, timer, round
    since,      \* time since _last_activation, up to Cooldown
    sweepIn,    \* time to the next sweep
    loads,      \* loads of the entry so far
    loaded,     \* the entry is loaded
    gap         \* history: time since the device was poked, up to Cooldown

rearmVars == <<listed, slot, loop, since, sweepIn, loads, loaded, gap>>

Ids == 1..MaxLoops
Free == [pc |-> "free", timer |-> 0, round |-> 0]
LoopAwaits == {"grace", "cooldown", "discover", "poke", "settle", "backoff"}

RearmTypeOK ==
    /\ listed \subseteq Activated
    /\ slot \in [Activated -> 0..MaxLoops]
    /\ \A d \in Activated, i \in Ids :
          /\ loop[d][i].pc \in LoopAwaits \cup {"free", "unwinding"}
          /\ loop[d][i].timer \in Nat
          /\ loop[d][i].round \in 0..(MaxRounds - 1)
    /\ since \in [Activated -> 0..Cooldown]
    /\ sweepIn \in 0..SweepPeriod
    /\ loads \in 0..MaxReloads
    /\ loaded \in BOOLEAN
    /\ gap \in [Activated -> 0..Cooldown]

RearmInit ==
    /\ listed \in SUBSET Activated
    /\ slot = [d \in Activated |-> 0]
    /\ loop = [d \in Activated |-> [i \in Ids |-> Free]]
    /\ since = [d \in Activated |-> Cooldown]
    /\ sweepIn = SweepPeriod
    /\ loads = 0
    /\ loaded = FALSE
    /\ gap = [d \in Activated |-> Cooldown]

Live(d, i) == loop[d][i].pc \in LoopAwaits

----------------------------------------------------------------------------
(* Starting and cancelling loops *)

\* A new loop for each device of D that has none, in a free place.
Place(d) == CHOOSE i \in Ids : loop[d][i].pc = "free"

Needy(D) == {d \in D : slot[d] = 0 \/ loop[d][slot[d]].pc = "free"}

\* The loops of a device after its live one was cancelled, if it has one.
Settled(ls, i) ==
    IF i # 0 /\ ls[i].pc \in LoopAwaits THEN [ls EXCEPT ![i].pc = "unwinding"] ELSE ls

\* note_topology(t): loops for the absent devices, none for the others.
Note(t) ==
    LET new == Needy(Activated \ t)
    IN  /\ \A d \in new : \E i \in Ids : loop[d][i].pc = "free"
        /\ slot' = [d \in Activated |-> IF d \in t THEN 0
                                        ELSE IF d \in new THEN Place(d) ELSE slot[d]]
        /\ loop' = [d \in Activated |->
                      IF d \in t THEN Settled(loop[d], slot[d])
                      ELSE IF d \in new
                      THEN [loop[d] EXCEPT ![Place(d)] =
                              [pc |-> "grace", timer |-> Grace, round |-> 0]]
                      ELSE loop[d]]

\* async_setup_entry makes the manager: it knows of no activation.
LoadManager ==
    /\ ~loaded
    /\ loads < MaxReloads
    /\ loads' = loads + 1
    /\ loaded' = TRUE
    /\ since' = [d \in Activated |-> Cooldown]
    /\ sweepIn' = SweepPeriod
    /\ Note(listed)
    /\ UNCHANGED <<listed, gap>>

\* A topology push.
TopologyNoted ==
    /\ loaded
    /\ \E t \in SUBSET Activated : t # listed /\ listed' = t /\ Note(t)
    /\ UNCHANGED <<since, sweepIn, loads, loaded, gap>>

\* Mutation: the sweep takes every target.
M_Absent == Activated

Absent == Activated \ listed

\* Mutation: the sweep only looks, as if every loop retried for ever.
M_Sweep ==
    /\ loaded
    /\ sweepIn = 0
    /\ sweepIn' = SweepPeriod
    /\ UNCHANGED <<listed, slot, loop, since, loads, loaded, gap>>

\* sweep(): a loop for every device that is still absent.
Sweep ==
    /\ loaded
    /\ sweepIn = 0
    /\ sweepIn' = SweepPeriod
    /\ LET new == Needy(Absent)
       IN  /\ \A d \in new : \E i \in Ids : loop[d][i].pc = "free"
           /\ slot' = [d \in Activated |-> IF d \in new THEN Place(d) ELSE slot[d]]
           /\ loop' = [d \in Activated |->
                         IF d \in new
                         THEN [loop[d] EXCEPT ![Place(d)] =
                                 [pc |-> "grace", timer |-> Grace, round |-> 0]]
                         ELSE loop[d]]
    /\ UNCHANGED <<listed, since, loads, loaded, gap>>

\* The entry is unloaded: cancel_all(), and the sweep is off.
cancel_all ==
    /\ loaded
    /\ loaded' = FALSE
    /\ slot' = [d \in Activated |-> 0]
    /\ loop' = [d \in Activated |-> Settled(loop[d], slot[d])]
    /\ UNCHANGED <<listed, since, sweepIn, loads, gap>>

----------------------------------------------------------------------------
(* _rearm_loop *)

\* The end of a loop: its finally block clears its own slot.
EndLoop(d, i) ==
    /\ loop' = [loop EXCEPT ![d][i] = Free]
    /\ slot' = [slot EXCEPT ![d] = IF @ = i THEN 0 ELSE @]

Await(d, i, where, time, r) ==
    /\ loop' = [loop EXCEPT ![d][i] = [pc |-> where, timer |-> time, round |-> r]]
    /\ UNCHANGED slot

\* The top of round r: give up, wait out a part of the cooldown, or look the
\* device up.
Round(d, i, r) ==
    IF r = MaxRounds THEN EndLoop(d, i)
    ELSE IF since[d] < Cooldown
    THEN Await(d, i, "cooldown",
               IF Cooldown - since[d] < Chunk THEN Cooldown - since[d] ELSE Chunk, r)
    ELSE Await(d, i, "discover", Discovery, r)

\* A sleep of loop i is over.
Expired(d, i, where) == loop[d][i].pc = where /\ loop[d][i].timer = 0

\* The next round.
Again(d, i) == Round(d, i, loop[d][i].round + 1)

GraceOver(d, i) ==
    /\ Expired(d, i, "grace")
    /\ IF d \in listed THEN EndLoop(d, i) ELSE Round(d, i, 0)
    /\ UNCHANGED <<since, gap>>

CooldownOver(d, i) ==
    /\ Expired(d, i, "cooldown")
    /\ IF d \in listed THEN EndLoop(d, i) ELSE Again(d, i)
    /\ UNCHANGED <<since, gap>>

\* The lookup is done; whatever it found, the device is poked.
Discovered(d, i) ==
    /\ loop[d][i].pc = "discover"
    /\ Await(d, i, "poke", PokeTime, loop[d][i].round)
    /\ since' = [since EXCEPT ![d] = 0]
    /\ gap' = [gap EXCEPT ![d] = 0]

\* activate_relay() returns; it never raises.
Poked(d, i) ==
    /\ loop[d][i].pc = "poke"
    /\ Await(d, i, "settle", Settle, loop[d][i].round)
    /\ UNCHANGED <<since, gap>>

\* _wait_for_topology() gives up.
SettleOver(d, i) ==
    /\ Expired(d, i, "settle")
    /\ LET r == loop[d][i].round
           n == IF r + 1 <= Len(Backoffs) THEN r + 1 ELSE Len(Backoffs)
       IN  IF d \in listed THEN EndLoop(d, i) ELSE Await(d, i, "backoff", Backoffs[n], r)
    /\ UNCHANGED <<since, gap>>

BackoffOver(d, i) ==
    /\ Expired(d, i, "backoff")
    /\ Again(d, i)
    /\ UNCHANGED <<since, gap>>

\* A cancelled loop has closed its socket.
Unwound(d, i) ==
    /\ loop[d][i].pc = "unwinding"
    /\ EndLoop(d, i)
    /\ UNCHANGED <<since, gap>>

LoopStep(d, i) ==
    /\ \/ GraceOver(d, i) \/ CooldownOver(d, i) \/ Discovered(d, i)
       \/ Poked(d, i) \/ SettleOver(d, i) \/ BackoffOver(d, i)
       \/ Unwound(d, i)
    /\ UNCHANGED <<listed, sweepIn, loads, loaded>>

----------------------------------------------------------------------------
(* The clock (external) *)

Due == \/ loaded /\ sweepIn = 0
       \/ \E d \in Activated, i \in Ids : Live(d, i) /\ loop[d][i].timer = 0

Counted(n) == IF n < Cooldown THEN n + 1 ELSE n

Tick ==
    /\ ~Due
    /\ loop' = [d \in Activated |-> [i \in Ids |->
                  IF Live(d, i) THEN [loop[d][i] EXCEPT !.timer = @ - 1] ELSE loop[d][i]]]
    /\ since' = [d \in Activated |-> Counted(since[d])]
    /\ gap' = [d \in Activated |-> Counted(gap[d])]
    /\ sweepIn' = IF loaded THEN sweepIn - 1 ELSE sweepIn
    /\ UNCHANGED <<listed, slot, loads, loaded>>

----------------------------------------------------------------------------

RearmNext ==
    \/ LoadManager \/ TopologyNoted \/ Sweep \/ cancel_all \/ Tick
    \/ \E d \in Activated, i \in Ids : LoopStep(d, i)

RearmSpec == RearmInit /\ [][RearmNext]_rearmVars

\* Time passes, the sweep is a timer of Home Assistant, and the event loop
\* runs every loop whose await is over.
RearmFairSpec ==
    /\ RearmSpec
    /\ WF_rearmVars(Tick)
    /\ WF_rearmVars(Sweep)
    /\ \A d \in Activated, i \in Ids : WF_rearmVars(LoopStep(d, i))

----------------------------------------------------------------------------
(* Properties *)

\* The table knows the one loop of a device that is not being cancelled, also
\* when an older one unwinds late (rearm.py:140-146, 215-221).
TableExact ==
    \A d \in Activated : {i \in Ids : Live(d, i)} = {slot[d]} \ {0}

\* A loop that may still poke belongs to a device that is absent, and to an
\* entry that is loaded (rearm.py:82-123).
OnlyAbsentArePoked ==
    \A d \in Activated, i \in Ids : Live(d, i) => d \notin listed /\ loaded

\* Both: the loops are those of the absent devices, one each
\* (rearm.py:82-146).
LoopsExact == TableExact /\ OnlyAbsentArePoked

Pokes(d) == \E i \in Ids : loop[d][i].pc = "discover" /\ loop'[d][i].pc = "poke"

\* rearm.py:73-76: a device is never poked within the cooldown of the last
\* poke, though rounds, sweeps, returns and new loops come in between.
CooldownHeld == [][\A d \in Activated : Pokes(d) => gap[d] >= Cooldown]_rearmVars

\* A device that stays absent is poked again and again: loops that give up
\* are followed by others (rearm.py:104-116, 203).
AbsentIsPoked ==
    \A d \in Activated : <>[](loaded /\ d \notin listed) => []<>(gap[d] = 0)
=============================================================================
