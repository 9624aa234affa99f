------------------------------ MODULE Controls -------------------------------
(***************************************************************************)
(* An entity of custom_components/aqara_lanlink over one trait or setting: *)
(* a switch, select, number, text or light, or a sensor that only shows.   *)
(* A trait is shown when the device reports it; a setting reports nothing  *)
(* and is shown from the seed and, optimistically, from each write that    *)
(* was acknowledged.                                                       *)
(*                                                                         *)
(* Requests, answers and reports travel on one tunnel and keep their       *)
(* order; a lost link loses what is under way.  The hub reports again once *)
(* the subscription is armed on the new link.  The answer to the re-arm is *)
(* a seed, staged for the registration of an entity: it does not reach one *)
(* that has been added.                                                    *)
(***************************************************************************)
EXTENDS Integers, Sequences, TLC

CONSTANTS
    Kinds,      \* the entities under study, a subset of AllKinds
    Scale,      \* of a number: what Home Assistant shows of 1 on the wire
    MaxWrites,  \* bound: writes in flight
    MaxReports  \* bound: reports in flight

AllKinds == {"switch", "select", "number", "text", "light", "sensor"}

ControlsAssumption ==
    /\ Kinds \subseteq AllKinds
    /\ Scale \in Nat \ {0}
    /\ {MaxWrites, MaxReports} \subseteq Nat

VARIABLES
    kind,       \* of the entity
    optimistic, \* the descriptor's flag: the entity is a setting
    added,      \* the entity has been added and is registered with its Device
    display,    \* the attribute Home Assistant shows; before the entity is added,
                \* what the seeds staged for it will make it show
    device,     \* the value on the device, as on the wire
    writes,     \* async_write calls under way
    reports,    \* reports under way
    linked,     \* the tunnel is up
    armed,      \* the hub is subscribed to the trait on this tunnel
    announced   \* history: what the entity was told last, or is being told, is the
                \* device's last change

controlVars == <<kind, optimistic, added, display, device, writes, reports, linked,
                 armed, announced>>
unlinked == <<kind, optimistic, added, display, device>>

-----------------------------------------------------------------------------
(* What the entities show of a wire value, and write for a value *)

\* "odd" is a value the catalogue does not list; "" says there is no reading; a
\* long text does not fit Home Assistant's 255 characters.
WireOf ==
    [switch |-> {"1", "0"},
     select |-> {"1", "0", "odd"},
     number |-> {"1", "2", ""},
     text   |-> {"short", "long"},
     light  |-> {"1", "0", ""},
     sensor |-> {"1", "text", "long", ""}]

Number == "1" :> 1 @@ "2" :> 2

None == "none"

ShowSwitch(raw) == IF raw = "1" THEN "on" ELSE "off"
ShowSelect(raw, old) ==
    CASE raw = "1" -> "A" [] raw = "0" -> "B" [] OTHER -> old
ShowNumber(raw) == IF raw = "" THEN None ELSE ToString(Number[raw] * Scale)
cap_state(raw) == IF raw = "long" THEN "capped" ELSE raw
ShowSensor(raw) ==
    CASE raw = "" -> None [] raw = "long" -> "truncated" [] OTHER -> raw
ShowLight(raw, old) == IF raw = "" THEN old ELSE ShowSwitch(raw)

\* apply_value of each entity.
apply_value(raw, old) ==
    CASE kind = "switch" -> ShowSwitch(raw)
      [] kind = "select" -> ShowSelect(raw, old)
      [] kind = "number" -> ShowNumber(raw)
      [] kind = "text"   -> cap_state(raw)
      [] kind = "light"  -> ShowLight(raw, old)
      [] kind = "sensor" -> ShowSensor(raw)

\* What a service call writes: the wire form of a value the user can choose.
Writable(k) == IF k = "sensor" THEN {} ELSE WireOf[k] \ {"odd", ""}

\* A value that tells what the entity must show, whatever it showed before.
Telling(raw) == raw # "odd" /\ ~(kind = "light" /\ raw = "")

-----------------------------------------------------------------------------

ControlsTypeOK ==
    /\ kind \in Kinds
    /\ {optimistic, added, linked, armed, announced} \subseteq BOOLEAN
    /\ device \in WireOf[kind]
    /\ Len(writes) <= MaxWrites
    /\ Len(reports) <= MaxReports

\* Only the settings are optimistic, and neither a light nor a sensor is one.
MayBeSetting(k) == k \notin {"light", "sensor"}

ControlsInit ==
    /\ kind \in Kinds
    /\ optimistic \in BOOLEAN /\ (optimistic => MayBeSetting(kind))
    /\ device \in WireOf[kind]
    /\ display = None
    /\ writes = <<>> /\ reports = <<>>
    /\ added = FALSE
    /\ linked = TRUE /\ armed = FALSE
    /\ announced = FALSE

\* The cloud's answer at setup or to a re-arm.  It stages a seed for an entity that
\* is yet to be added; there is none for a trait that has no reading.
SeedControl ==
    /\ ~added
    /\ optimistic \/ device # ""
    /\ display' = apply_value(device, display)
    /\ announced' = TRUE
    /\ UNCHANGED <<kind, optimistic, added, device, writes, reports, linked, armed>>

\* The entity is added, with its seeds if there are any.
RegisterControl ==
    /\ ~added
    /\ added' = TRUE
    /\ UNCHANGED <<kind, optimistic, display, device, writes, reports, linked, armed,
                   announced>>

\* available: the tunnel is up (and a LAN device is in the topology).
entityAvailable == added /\ linked

\* A service call writes the wire value.
Write(w) ==
    /\ entityAvailable
    /\ Len(writes) < MaxWrites
    /\ writes' = Append(writes, [wire |-> w, state |-> "sent", heard |-> TRUE])
    /\ UNCHANGED <<unlinked, reports, linked, armed, announced>>

WriteArrives(i) ==
    /\ linked
    /\ i \in DOMAIN writes
    /\ writes[i].state = "sent"
    /\ \A j \in 1..(i - 1) : writes[j].state # "sent"

\* Every change of a trait is reported, unless the hub is not subscribed to it.
Reported(w) ==
    /\ Len(reports) < MaxReports
    /\ reports' = IF ~optimistic /\ armed THEN Append(reports, w) ELSE reports

WriteApplies(i) ==
    /\ WriteArrives(i)
    /\ device' = writes[i].wire
    /\ Reported(writes[i].wire)
    /\ writes' = [writes EXCEPT ![i].state = "applied"]
    /\ announced' = IF optimistic THEN writes[i].heard ELSE armed
    /\ UNCHANGED <<kind, optimistic, added, display, linked, armed>>
WriteRefused(i) ==
    /\ WriteArrives(i)
    /\ writes' = [writes EXCEPT ![i].state = "refused"]
    /\ UNCHANGED <<unlinked, reports, linked, armed, announced>>

\* Mutation: shown before the write is known to have succeeded.
M_ShownAfter(call) == IF optimistic THEN apply_value(call.wire, display) ELSE display

\* After the await: an optimistic entity shows what it wrote, if it did not raise.
ShownAfter(call) ==
    IF optimistic /\ call.heard /\ call.state = "applied"
    THEN apply_value(call.wire, display) ELSE display

WriteReturns ==
    /\ linked
    /\ writes # <<>>
    /\ Head(writes).state # "sent"
    /\ display' = ShownAfter(Head(writes))
    /\ writes' = Tail(writes)
    /\ UNCHANGED <<kind, optimistic, added, device, reports, linked, armed, announced>>

\* The call gives up; for a setting nobody will tell that it took effect.
WriteTimesOut(i) ==
    /\ i \in DOMAIN writes
    /\ writes[i].heard
    /\ writes' = [writes EXCEPT ![i].heard = FALSE]
    /\ announced' = (announced /\ (optimistic => writes[i].state # "applied"))
    /\ UNCHANGED <<unlinked, reports, linked, armed>>

\* A report is routed to the entity, and dropped while there is none.
Heard(raw) == IF added THEN apply_value(raw, display) ELSE display
Hear ==
    /\ reports # <<>>
    /\ linked
    /\ display' = Heard(Head(reports))
    /\ announced' = (announced \/ added)
    /\ reports' = Tail(reports)
    /\ UNCHANGED <<kind, optimistic, added, device, writes, linked, armed>>

\* Somebody else changes the device: the owner's phone, a hand, a scene.
ChangedElsewhere(w) ==
    /\ w # device
    /\ device' = w
    /\ Reported(w)
    /\ announced' = (added /\ armed /\ ~optimistic)
    /\ UNCHANGED <<kind, optimistic, added, display, writes, linked, armed>>

\* The link is lost with all that was under way.
Drop ==
    /\ linked
    /\ linked' = FALSE /\ armed' = FALSE
    /\ writes' = <<>> /\ reports' = <<>>
    /\ announced' = (announced /\ reports = <<>> /\
                \A i \in DOMAIN writes : optimistic => writes[i].state # "applied")
    /\ UNCHANGED unlinked
Restore ==
    /\ ~linked
    /\ linked' = TRUE
    /\ UNCHANGED <<unlinked, writes, reports, armed, announced>>

\* The hub is subscribed by setup's pass or by a re-arm, which may be coalesced
\* away and never come.
Arm ==
    /\ linked /\ ~armed
    /\ armed' = TRUE
    /\ UNCHANGED <<unlinked, writes, reports, linked, announced>>

ControlsNext ==
    \/ SeedControl \/ RegisterControl \/ WriteReturns \/ Hear
    \/ Drop \/ Restore \/ Arm
    \/ \E w \in Writable(kind) : Write(w)
    \/ \E w \in WireOf[kind] : ChangedElsewhere(w)
    \/ \E i \in 1..MaxWrites : WriteApplies(i) \/ WriteRefused(i) \/ WriteTimesOut(i)

ControlsSpec == ControlsInit /\ [][ControlsNext]_controlVars

-----------------------------------------------------------------------------
(* Properties *)

\* Once nothing is under way the entity shows what the device holds, if its last
\* change was told: whatever came before, one report that arrives, or one write of
\* a setting that is answered, puts the entity right, and no order of seeds,
\* writes, refusals, timeouts, changes by others and lost links then leaves it
\* wrong, but for a change while the hub was not subscribed, a report lost with
\* the link, the phone at a setting, or an answer to its write that did not come
\* (switch.py:51-72, base.py:457-470, coordinator.py:716-720).
ShownSettles ==
    added /\ announced /\ writes = <<>> /\ reports = <<>> /\ Telling(device) =>
        display = apply_value(device, display)

\* Not so: a trait is right once the tunnel is up and armed again.  What changed
\* while it was down comes with the answer to the re-arm, as a seed, which an
\* entity that has been added is not given (__init__.py:974, base.py:468-470).
TraitSettles ==
    added /\ armed /\ ~optimistic /\ display # None
    /\ writes = <<>> /\ reports = <<>> /\ Telling(device) =>
        display = apply_value(device, display)

\* Not so: a setting is always right after its writes are done.  A write that
\* timed out may have taken effect, and settings report nothing (switch.py:56-63).
SettingSettles ==
    added /\ optimistic /\ display # None /\ writes = <<>> =>
        display = apply_value(device, display)
=============================================================================
