------------------------------ MODULE Reports ------------------------------
(***************************************************************************)
(* How a value gets from a device to its entity: the coordinator's report   *)
(* routing and its buffer (hub/coordinator.py), the Device that translates  *)
(* reports (device/base.py), and the values the cloud's answers seed.       *)
(*                                                                         *)
(* Every DID has one trait with one entity.  The values of a trait are      *)
(* numbered in the order the device takes them, 0 being "unknown", so an    *)
(* older value is a smaller number.  A cloud answer carries the value of    *)
(* the moment the cloud reads it and arrives later.                         *)
(*                                                                         *)
(* Left out: the translation of paths, several traits per report, several   *)
(* handlers per DID (the integration registers one).                        *)
(***************************************************************************)
EXTENDS Naturals, Sequences, FiniteSets

CONSTANTS
    Dids,           \* DIDs that occur in reports
    Configured,     \* those with a Device
    Momentary,      \* those whose entity is an event or a momentary sensor
    BufferMaxlen,   \* _REPORT_BUFFER_MAXLEN
    BufferMaxDids,  \* _REPORT_BUFFER_MAX_DIDS
    MaxValue,       \* bound: changes of a device
    MaxCalls        \* bound: cloud reads

ReportsAssumption ==
    /\ Configured \subseteq Dids /\ Momentary \subseteq Configured
    /\ BufferMaxlen \in Nat \ {0} /\ BufferMaxDids \in Nat \ {0}
    /\ MaxValue \in Nat \ {0} /\ MaxCalls \in Nat

VARIABLES
    now,        \* the value each device has
    up,         \* the tunnel is up
    wire,       \* reports on their way, per DID
    handler,    \* DIDs with a registered handler
    buffer,     \* _pending_reports
    answer,     \* the cloud answer under way, 0 if none
    pend,       \* _pending_initial_values of the trait
    delivered,  \* DIDs whose trait is in _delivered_initial_values
    entity,     \* the entity: "none", "added", "removed"
    shown,      \* the value it shows
    calls,      \* cloud reads so far
    received,   \* history: the last report received
    handed,     \* history: the last report handed to the Device
    told,       \* history: the entity got a report
    replayed,   \* history: the last report replayed from the buffer
    seeded      \* history: the last value seeded

hubVars == <<now, up, wire>>
coordVars == <<handler, buffer>>
deviceVars == <<pend, delivered, entity, shown>>
histVars == <<received, handed, told, replayed, seeded>>
vars == <<hubVars, coordVars, answer, calls, deviceVars, histVars>>

Values == 0..MaxValue
Last(s) == s[Len(s)]
Buffered == {d \in Dids : buffer[d] # <<>>}

TypeOK ==
    /\ now \in [Dids -> Values] /\ up \in BOOLEAN
    /\ \A d \in Dids : wire[d] \in Seq(Values)
    /\ handler \subseteq Configured
    /\ \A d \in Dids : buffer[d] \in Seq(Values) /\ Len(buffer[d]) <= BufferMaxlen
    /\ Cardinality(Buffered) <= BufferMaxDids
    /\ answer \in [Dids -> Values]
    /\ \A d \in Dids : pend[d] \in Seq(Values)
    /\ delivered \subseteq Dids
    /\ entity \in [Dids -> {"none", "added", "removed"}]
    /\ shown \in [Dids -> Values]
    /\ calls \in 0..MaxCalls
    /\ told \subseteq Dids
    /\ \A h \in {received, handed, replayed, seeded} : h \in [Dids -> Values]

Init ==
    /\ now = [d \in Dids |-> 1] /\ up = TRUE
    /\ wire = [d \in Dids |-> <<>>]
    /\ handler = {} /\ buffer = [d \in Dids |-> <<>>]
    /\ answer = [d \in Dids |-> 0] /\ calls = 0
    /\ pend = [d \in Dids |-> <<>>] /\ delivered = {}
    /\ entity = [d \in Dids |-> "none"] /\ shown = [d \in Dids |-> 0]
    /\ told = {}
    /\ received = [d \in Dids |-> 0] /\ handed = [d \in Dids |-> 0]
    /\ replayed = [d \in Dids |-> 0] /\ seeded = [d \in Dids |-> 0]

----------------------------------------------------------------------------
(* The device and the hub (external) *)

\* The device takes a new value; the hub reports it or, not being subscribed
\* or connected, does not.
Change(d) ==
    /\ now[d] < MaxValue
    /\ now' = [now EXCEPT ![d] = @ + 1]
    /\ \E reported \in BOOLEAN :
          /\ reported => up
          /\ wire' = IF reported THEN [wire EXCEPT ![d] = Append(@, now'[d])] ELSE wire
    /\ UNCHANGED <<up, coordVars, answer, calls, deviceVars, histVars>>

\* The tunnel goes down with what is on its way, or comes back.
Tunnel ==
    /\ up' = ~up
    /\ wire' = [d \in Dids |-> <<>>]
    /\ UNCHANGED <<now, coordVars, answer, calls, deviceVars, histVars>>

----------------------------------------------------------------------------
(* The coordinator *)

\* Mutation: a full buffer keeps the old reports.
M_Buffer(d, v) == IF Len(buffer[d]) = BufferMaxlen THEN buffer[d] ELSE Append(buffer[d], v)

\* deque(maxlen=...).append()
Buffer(d, v) ==
    LET s == Append(buffer[d], v)
    IN  IF Len(s) > BufferMaxlen THEN Tail(s) ELSE s

\* A DID is buffered already, or there is room for one more.
Admitted(d) == d \in Buffered \/ Cardinality(Buffered) < BufferMaxDids

\* Device.handle_report: without an entity the value goes nowhere.
Handle(d, v) ==
    /\ handed' = [handed EXCEPT ![d] = v]
    /\ IF entity[d] = "added"
       THEN shown' = [shown EXCEPT ![d] = v] /\ told' = told \cup {d}
       ELSE UNCHANGED <<shown, told>>

\* _dispatch_report: to the handler, else into the buffer.
Receive(d) ==
    /\ wire[d] # <<>>
    /\ wire' = [wire EXCEPT ![d] = Tail(@)]
    /\ LET v == Head(wire[d])
       IN  /\ received' = [received EXCEPT ![d] = v]
           /\ IF d \in handler
              THEN Handle(d, v) /\ UNCHANGED buffer
              ELSE /\ buffer' = IF Admitted(d) THEN [buffer EXCEPT ![d] = Buffer(d, v)]
                                ELSE buffer
                   /\ UNCHANGED <<shown, handed, told>>
    /\ UNCHANGED <<now, up, handler, answer, calls, pend, delivered, entity,
                   replayed, seeded>>

\* register_report_handler, called by _build_device before there are entities:
\* the buffered reports go to handle_report in order.
Register(d) ==
    /\ d \in Configured \ handler
    /\ entity[d] = "none"
    /\ handler' = handler \cup {d}
    /\ buffer' = [buffer EXCEPT ![d] = <<>>]
    /\ replayed' = [replayed EXCEPT ![d] = IF buffer[d] = <<>> THEN 0 ELSE Last(buffer[d])]
    /\ UNCHANGED <<hubVars, answer, calls, deviceVars, received, handed, told, seeded>>

\* The unregister callable, at unload.
Unregister(d) ==
    /\ d \in handler
    /\ entity[d] = "removed"
    /\ handler' = handler \ {d}
    /\ UNCHANGED <<hubVars, buffer, answer, calls, deviceVars, histVars>>

----------------------------------------------------------------------------
(* The cloud and the entity *)

\* The cloud reads the trait, for setup or for a re-arm pass.  A read that
\* fails stages nothing, like one that never is; a re-arm pass can be under way
\* while the platforms are set up.
CloudRead(d) ==
    /\ d \in handler
    /\ answer[d] = 0
    /\ calls < MaxCalls
    /\ calls' = calls + 1
    /\ answer' = [answer EXCEPT ![d] = now[d]]
    /\ UNCHANGED <<hubVars, coordVars, deviceVars, histVars>>

\* Mutation: a value that comes after delivery is applied at once.
M_SeedInitialValue(d, v) ==
    IF d \in delivered
    THEN shown' = [shown EXCEPT ![d] = v] /\ UNCHANGED pend
    ELSE pend' = [pend EXCEPT ![d] = Append(@, v)] /\ UNCHANGED shown

\* seed_initial_value: staged for the entity, ignored after delivery.
SeedInitialValue(d, v) ==
    /\ pend' = IF d \in delivered THEN pend ELSE [pend EXCEPT ![d] = Append(@, v)]
    /\ UNCHANGED shown

Seeded(d) ==
    /\ answer[d] # 0
    /\ SeedInitialValue(d, answer[d])
    /\ seeded' = [seeded EXCEPT ![d] = answer[d]]
    /\ answer' = [answer EXCEPT ![d] = 0]
    /\ UNCHANGED <<hubVars, coordVars, calls, delivered, entity, received, handed, told, replayed>>

\* _should_replay_seed
ReplayAllowed(d) == d \notin Momentary

\* register_entity: the staged values are applied in order, once.
AddEntity(d) ==
    /\ d \in handler
    /\ entity[d] = "none"
    /\ entity' = [entity EXCEPT ![d] = "added"]
    /\ delivered' = IF pend[d] = <<>> THEN delivered ELSE delivered \cup {d}
    /\ shown' = IF pend[d] # <<>> /\ ReplayAllowed(d)
                THEN [shown EXCEPT ![d] = Last(pend[d])] ELSE shown
    /\ pend' = [pend EXCEPT ![d] = <<>>]
    /\ UNCHANGED <<hubVars, coordVars, answer, calls, histVars>>

\* async_unload_platforms: the binding of the entity is removed.
RemoveEntity(d) ==
    /\ entity[d] = "added"
    /\ entity' = [entity EXCEPT ![d] = "removed"]
    /\ UNCHANGED <<hubVars, coordVars, answer, calls, pend, delivered, shown, histVars>>

----------------------------------------------------------------------------

Step(d) ==
    Change(d) \/ Receive(d) \/ Register(d) \/ Unregister(d) \/ CloudRead(d)
    \/ Seeded(d) \/ AddEntity(d) \/ RemoveEntity(d)

Next == Tunnel \/ \E d \in Dids : Step(d)

Spec == Init /\ [][Next]_vars

----------------------------------------------------------------------------
(* Properties *)

\* However full, the buffer of a DID ends with the last report received while
\* nobody listened (coordinator.py:690-701).
BufferHasNewest == \A d \in Buffered : Last(buffer[d]) = received[d]

\* Once an entity has got a report no cloud answer, which may be older, takes
\* its place (device/base.py:457-470).
ReportsWin ==
    \A d \in told : entity[d] = "added" => shown[d] = handed[d]

\* device/base.py:187-204: no event fires for a value of the past.
NothingRefires ==
    \A d \in Momentary : shown[d] # 0 => d \in told

\* Both: no older value comes after a newer one (device/base.py:187-204,
\* 457-470).
NothingOldIsShown == ReportsWin /\ NothingRefires

\* coordinator.py:54-57: "Briefly buffer per-DID so the first post-reboot
\* report is replayed on registration instead of dropped".  The replay comes
\* before there is an entity, which is where it is dropped.
ReplaysAreShown ==
    \A d \in Dids : entity[d] = "added" => shown[d] >= replayed[d]

\* docs/architecture.md:60: the coordinator routes each frame to the Device,
\* and "the device translates the wire-path key to an entity descriptor and
\* calls async_write_ha_state on the relevant entity".  A report that comes
\* before the entity is dropped, and an older seed is shown.
ReportsAreShown ==
    \A d \in Dids : entity[d] = "added" => shown[d] >= handed[d]

\* docs/architecture.md:13: "At startup and on reconnect the integration calls
\* the cloud to re-arm the hub's push subscription, seed current trait
\* values".  A value that comes when the entity is there is ignored, or staged
\* for a registration that does not come again.
SeedsAreShown ==
    \A d \in Configured \ Momentary :
        entity[d] = "added" /\ wire[d] = <<>> => shown[d] >= seeded[d]
=============================================================================
