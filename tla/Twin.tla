-------------------------------- MODULE Twin --------------------------------
(***************************************************************************)
(* One device in two ecosystems: AqaraDevice (src/device.js), the MatterTwin *)
(* that reports it and obeys commands (src/matter.js), HomeKit's writes      *)
(* (src/homekit.js), and the tunnel that carries both (src/protocol/         *)
(* tunnel.js).                                                              *)
(*                                                                         *)
(* Every trait has a Matter cluster of its own and the values 0 and 1.  A    *)
(* write is carried out or refused, and answered either way; a promise that  *)
(* an answer resolves, whatever it says, goes on after the last frame of the *)
(* chunk.  A controller that is told of a cluster sends    *)
(* it back within SETTLE_MS, and may send others it derives from it.         *)
(*                                                                         *)
(* Left out: scales and clamping, read-only traits, HomeKit's reads, which   *)
(* are the device's state, and failed Matter updates.                        *)
(***************************************************************************)
EXTENDS Naturals, Sequences

CONSTANTS
    Traits,     \* OnOff, CurrentLevel, ...
    MaxSets,    \* bound: calls of device.set
    MaxPresses, \* bound: changes made at the device
    MaxOrders   \* bound: orders given by people over HomeKit and Matter

TwinAssumption ==
    Traits # {} /\ MaxSets \in Nat /\ MaxPresses \in Nat /\ MaxOrders \in Nat

TraitValues == {0, 1}
Unknown == 2

VARIABLES
    lamp,       \* what the device does
    toHub,      \* writes under way
    fromHub,    \* answers and reports under way
    state,      \* AqaraDevice.state
    waiting,    \* calls of set() that await the hub
    resumed,    \* those whose promise is resolved
    reported,   \* MatterTwin.reported
    fresh,      \* clusters reported within SETTLE_MS
    listening,  \* the twin hears 'changed'
    owed,       \* reports the controllers may still react to
    sets, presses, orders,  \* so far
    heard,      \* history: the twin has heard a 'changed'
    denied,     \* history: calls that the hub refused
    overtaken,  \* history: traits whose last report came while a resolved set() waited
    refused     \* history: traits recorded by a set() the hub refused, since their last
                \* report

linkVars == <<lamp, toHub, fromHub>>
twinVars == <<reported, fresh, listening, owed, heard>>
pluginVars == <<linkVars, state, waiting, resumed, twinVars, sets, presses, orders,
                denied, overtaken, refused>>
history == <<denied, overtaken, refused>>

Causes == {"person", "echo", "derived"}
SetCalls == [id : 1..MaxSets, trait : Traits, value : TraitValues, cause : Causes]

TwinTypeOK ==
    /\ lamp \in [Traits -> TraitValues]
    /\ toHub \in Seq(SetCalls)
    /\ state \in [Traits -> TraitValues \cup {Unknown}]
    /\ waiting \subseteq SetCalls
    /\ resumed \in Seq(SetCalls)
    /\ reported \in [Traits -> TraitValues]
    /\ fresh \subseteq Traits
    /\ listening \in BOOLEAN /\ heard \in BOOLEAN
    /\ owed \subseteq [cluster : Traits, value : TraitValues]
    /\ sets \in 0..MaxSets /\ presses \in 0..MaxPresses /\ orders \in 0..MaxOrders
    /\ denied \subseteq SetCalls
    /\ overtaken \subseteq Traits /\ refused \subseteq Traits

\* MatterTwin.state(): what nobody has told yet is off.
MatterState(v) == IF v = Unknown THEN 0 ELSE v

\* descriptor() has remembered the state; registration is under way.
TwinInit ==
    /\ lamp \in [Traits -> TraitValues]
    /\ toHub = <<>> /\ fromHub = <<>>
    /\ state = [t \in Traits |-> Unknown]
    /\ waiting = {} /\ resumed = <<>>
    /\ reported = [t \in Traits |-> 0]
    /\ fresh = Traits
    /\ listening = FALSE /\ heard = FALSE
    /\ owed = {}
    /\ sets = 0 /\ presses = 0 /\ orders = 0
    /\ denied = {} /\ overtaken = {} /\ refused = {}

\* No promise waits to go on, as between two tasks of the event loop.
Idle == resumed = <<>>

----------------------------------------------------------------------------
(* The device object and the twin *)

\* Mutation: only the cluster of the trait that changed is reported.
M_Report(new, t) ==
    IF listening
    THEN /\ reported' = [reported EXCEPT ![t] = MatterState(new[t])]
         /\ fresh' = fresh \cup {t}
         /\ owed' = owed \cup {[cluster |-> t, value |-> MatterState(new[t])]}
         /\ heard' = TRUE
    ELSE UNCHANGED <<reported, fresh, owed, heard>>

\* report(): every cluster whose state is not what was reported last.
Report(new, t) ==
    IF listening
    THEN LET changed == {c \in Traits : MatterState(new[c]) # reported[c]}
         IN  /\ reported' = [c \in Traits |-> MatterState(new[c])]
             /\ fresh' = fresh \cup changed
             /\ owed' = owed \cup
                   {[cluster |-> c, value |-> MatterState(new[c])] : c \in changed}
             /\ heard' = TRUE
    ELSE UNCHANGED <<reported, fresh, owed, heard>>

\* record(): news is kept and announced.
Record(t, v) ==
    /\ state' = [state EXCEPT ![t] = v]
    /\ IF state[t] = v THEN UNCHANGED <<reported, fresh, owed, heard>>
       ELSE Report(state', t)
    /\ UNCHANGED listening

\* set(), up to its await.
Set(t, v, cause) ==
    LET call == [id |-> sets + 1, trait |-> t, value |-> v, cause |-> cause]
    IN  /\ sets < MaxSets
        /\ sets' = sets + 1
        /\ toHub' = Append(toHub, call)
        /\ waiting' = waiting \cup {call}

JustReported(t) == t \in fresh

\* command(): obeyed, or taken for an echo.
Command(t, v, cause) ==
    IF JustReported(t) \/ state[t] = v
    THEN UNCHANGED <<toHub, waiting, sets>>
    ELSE Set(t, v, cause)

----------------------------------------------------------------------------
(* People and controllers *)

\* Somebody uses the Home app: onSet() calls set().
HomeKitOrder(t, v) ==
    /\ Idle
    /\ orders < MaxOrders /\ orders' = orders + 1
    /\ Set(t, v, "person")
    /\ UNCHANGED <<lamp, fromHub, state, resumed, twinVars, presses, history>>

\* Somebody uses a Matter controller.
MatterOrder(t, v) ==
    /\ Idle
    /\ orders < MaxOrders /\ orders' = orders + 1
    /\ Command(t, v, "person")
    /\ UNCHANGED <<lamp, fromHub, state, resumed, twinVars, presses, history>>

\* A controller sends back what it was told, or what it makes of it.
Echo(r, t, v) ==
    /\ Idle
    /\ r \in owed
    /\ t = r.cluster => v = r.value
    /\ Command(t, v, IF t = r.cluster THEN "echo" ELSE "derived")
    /\ owed' = owed \ {r}
    /\ UNCHANGED <<lamp, fromHub, state, resumed, reported, fresh, listening, heard,
                   presses, orders, history>>

\* SETTLE_MS are over; the controllers have reacted by then.
Settled(t) ==
    /\ Idle
    /\ t \in fresh
    /\ \A r \in owed : r.cluster # t
    /\ fresh' = fresh \ {t}
    /\ UNCHANGED <<linkVars, state, waiting, resumed, reported, listening, owed, heard,
                   sets, presses, orders, history>>

\* registerPlatformAccessories() resolves.
Registered ==
    /\ Idle
    /\ ~listening
    /\ listening' = TRUE
    /\ UNCHANGED <<linkVars, state, waiting, resumed, reported, fresh, owed, heard,
                   sets, presses, orders, history>>

----------------------------------------------------------------------------
(* The hub (external) *)

News(t, v) == [kind |-> "report", trait |-> t, value |-> v]

\* Somebody presses the switch.
Press(t) ==
    /\ Idle
    /\ presses < MaxPresses /\ presses' = presses + 1
    /\ lamp' = [lamp EXCEPT ![t] = 1 - @]
    /\ fromHub' = Append(fromHub, News(t, lamp'[t]))
    /\ UNCHANGED <<toHub, state, waiting, resumed, twinVars, sets, orders, history>>

\* The hub does what a write asks, answers, and reports, in either order.
HubWrites ==
    /\ Idle
    /\ toHub # <<>>
    /\ toHub' = Tail(toHub)
    /\ LET call   == Head(toHub)
           answer == [kind |-> "answer", call |-> call]
           news   == News(call.trait, call.value)
       IN  /\ lamp' = [lamp EXCEPT ![call.trait] = call.value]
           /\ \E s \in {<<answer, news>>, <<news, answer>>} : fromHub' = fromHub \o s
    /\ UNCHANGED <<state, waiting, resumed, twinVars, sets, presses, orders, history>>

\* It refuses: the answer has another code, and nothing changes.
HubRefuses ==
    /\ Idle
    /\ toHub # <<>>
    /\ toHub' = Tail(toHub)
    /\ fromHub' = Append(fromHub, [kind |-> "answer", call |-> Head(toHub)])
    /\ denied' = denied \cup {Head(toHub)}
    /\ UNCHANGED <<lamp, state, waiting, resumed, twinVars, sets, presses, orders,
                   overtaken, refused>>

\* A write is lost.
Lost ==
    /\ Idle
    /\ toHub # <<>>
    /\ toHub' = Tail(toHub)
    /\ UNCHANGED <<lamp, fromHub, state, waiting, resumed, twinVars, sets, presses,
                   orders, history>>

----------------------------------------------------------------------------
(* The tunnel *)

\* onFrame() of a report, and AqaraDevice.report(): also while the promises
\* that earlier frames of the chunk have resolved wait to go on.
ReportFrame ==
    /\ fromHub # <<>>
    /\ LET f == Head(fromHub)
       IN  /\ f.kind = "report"
           /\ Record(f.trait, f.value)
           /\ IF \E i \in DOMAIN resumed : resumed[i].trait = f.trait
              THEN overtaken' = overtaken \cup {f.trait} /\ UNCHANGED refused
              ELSE /\ overtaken' = overtaken \ {f.trait}
                   /\ refused' = refused \ {f.trait}
    /\ fromHub' = Tail(fromHub)
    /\ UNCHANGED <<lamp, toHub, waiting, resumed, sets, presses, orders, denied>>

\* onFrame() of an answer: its promise is resolved, whatever the answer's code.
AnswerFrame ==
    /\ fromHub # <<>>
    /\ LET f == Head(fromHub)
       IN  /\ f.kind = "answer"
           /\ waiting' = waiting \ {f.call}
           /\ resumed' = IF f.call \in waiting THEN Append(resumed, f.call) ELSE resumed
    /\ fromHub' = Tail(fromHub)
    /\ UNCHANGED <<lamp, toHub, state, twinVars, sets, presses, orders, history>>

\* set() goes on: what was asked for is recorded, and it returns true.
SetReturns ==
    /\ resumed # <<>>
    /\ LET call == Head(resumed)
       IN  /\ Record(call.trait, call.value)
           /\ refused' = IF call \in denied THEN refused \cup {call.trait} ELSE refused
    /\ resumed' = Tail(resumed)
    /\ UNCHANGED <<linkVars, waiting, sets, presses, orders, denied, overtaken>>

\* Mutation: what was asked for is recorded all the same.
M_SetRejects(call) ==
    /\ Idle /\ call \in waiting
    /\ waiting' = waiting \ {call}
    /\ Record(call.trait, call.value)
    /\ UNCHANGED <<linkVars, resumed, sets, presses, orders, history>>

\* The answer does not come in ten seconds: set() throws.
SetRejects(call) ==
    /\ Idle
    /\ call \in waiting
    /\ waiting' = waiting \ {call}
    /\ UNCHANGED <<linkVars, state, resumed, twinVars, sets, presses, orders, history>>

----------------------------------------------------------------------------

TwinNext ==
    \/ \E t \in Traits, v \in TraitValues : HomeKitOrder(t, v) \/ MatterOrder(t, v)
    \/ \E r \in owed, t \in Traits, v \in TraitValues : Echo(r, t, v)
    \/ \E t \in Traits : Settled(t) \/ Press(t)
    \/ \E call \in waiting : SetRejects(call)
    \/ Registered \/ HubWrites \/ HubRefuses \/ Lost
    \/ ReportFrame \/ AnswerFrame \/ SetReturns

TwinSpec == TwinInit /\ [][TwinNext]_pluginVars

----------------------------------------------------------------------------
(* Properties *)

\* What a controller sends back is never written to the device, also when it
\* comes after a newer report (matter.js:224-247).
EchoWritesNothing == \A call \in waiting : call.cause # "echo"

\* A single change brings every cluster in step, also what happened while the
\* accessory was being registered (matter.js:188-213).
OneChangeTellsAll == heard => \A t \in Traits : reported[t] = MatterState(state[t])

\* When nothing is under way the device object says what the device does, in
\* spite of rival orders, presses, lost and refused writes.  It is wrong of a trait
\* only in the two cases below, and only until the trait's next report
\* (device.js:73-95, 103-114).
Quiet == toHub = <<>> /\ fromHub = <<>> /\ waiting = {} /\ Idle
Agrees(t) == Quiet => state[t] \in {Unknown, lamp[t]}
StateSettles == \A t \in Traits \ (overtaken \cup refused) : Agrees(t)

\* Not so (device.js:35, "The last value seen for each trait code"): the value of a
\* write the hub carried out overwrites the report that came in the same chunk as
\* its answer (91).
StateIsLastSeen == \A t \in Traits \ refused : Agrees(t)

\* device.js:71, of set(): "Whether the hub accepted it".  Any answer resolves the
\* promise (tunnel.js:351-357), so set() records what the hub refused and returns
\* true, and no report corrects it.
TrueMeansAccepted == refused = {}

\* matter.js:9-13: "a command arriving on the heels of this plugin's own
\* report" is ignored, for reporting one attribute "makes a controller work out
\* the others and send them back".  The window is kept per cluster.
DerivedWritesNothing == \A call \in waiting : call.cause # "derived"
=============================================================================
