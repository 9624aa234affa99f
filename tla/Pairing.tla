------------------------------- MODULE Pairing -------------------------------
(***************************************************************************)
(* AqaraDeviceSubentryFlow (config_flow.py:993-2005): one wizard adds one  *)
(* device to a hub's entry, next to a second wizard of the same entry, and *)
(* async_remove_config_entry_device (__init__.py:1231-1267) takes devices  *)
(* away.  What the cloud lists, what mDNS finds and what the overlay knows *)
(* is chosen anew whenever the wizard asks; what the hub relays changes    *)
(* under it.                                                               *)
(***************************************************************************)
EXTENDS FiniteSets

CONSTANTS
    Devices,    \* DIDs of the account
    Hub,        \* the entry's own
    Children,   \* sub-devices of a hub of the account
    Members,    \* other hubs (devicetype 1)
    Standalone, \* Wi-Fi devices without a parent (devicetype 8)
    Virtual,    \* virtual.* DIDs
    New,        \* of a model neither overridden nor in catalogue or overlay
    Extras,     \* of a model whose class has an EXTRA_CONFIG_SCHEMA
    Addrs       \* LAN addresses

PairingAssumption ==
    /\ Hub \in Devices
    /\ Children \cup Members \cup Standalone \cup Virtual \subseteq Devices
    /\ Hub \notin Children
    /\ Virtual \cap Standalone = {}

None == "none"
Steps == {"idle", "pick", "manual", "extras", "review", "scan", "poke",
          "waiting", "create"}

VARIABLES
    step,       \* what the wizard shows or awaits
    offered,    \* devices its picker lists
    manual,     \* _manual_records
    endpoint,   \* _activation_endpoints
    picked,     \* _picked_device
    poked,      \* the address it has sent the relay handshake to
    topo,       \* what the hub relays
    subs,       \* subentries: did, activation address, and `poked' when added
    loaded,     \* devices set up at the last load of the entry
    reload      \* a reload is scheduled

vars == <<step, offered, manual, endpoint, picked, poked, topo, subs, loaded, reload>>
wizard == <<step, offered, manual, endpoint, picked, poked>>

Address == Addrs \cup {None}
Sub == [did : Devices, at : Address, poked : Address]
Existing == {s.did : s \in subs}

TypeOK ==
    /\ step \in Steps
    /\ {offered, manual, topo, loaded} \subseteq SUBSET Devices
    /\ endpoint \in [Devices -> Address]
    /\ picked \in Devices \cup {None}
    /\ poked \in Address
    /\ subs \subseteq Sub
    /\ reload \in BOOLEAN

Init ==
    /\ step = "idle"
    /\ offered = {} /\ manual = {}
    /\ endpoint = [d \in Devices |-> None]
    /\ picked = None /\ poked = None
    /\ topo \in SUBSET (Devices \ Virtual)
    /\ subs = {} /\ loaded = {}
    /\ reload = FALSE

-----------------------------------------------------------------------------
(* The picker *)

\* _build_candidate_records: sub-devices of any hub listed, the other hubs, and
\* what the hub relays, as far as the cloud lists it.
Candidates(cloud) ==
    {d \in cloud \ {Hub} :
        (d \in Children /\ cloud \ Children # {}) \/ d \in Members}
      \cup ((cloud \cap topo) \ {Hub})

\* _append_activation_candidates: standalone devices on the LAN that no earlier
\* pass has and the hub does not relay.
ToActivate(cloud, lan) ==
    ((cloud \cap Standalone \cap lan) \ {Hub}) \ (Candidates(cloud) \cup topo)

\* _classify_candidates: what is not added yet and not virtual.
Supported(cands) == (cands \ Existing) \ Virtual

\* The picker, first or again after an empty choice.  Without an answer of the
\* cloud it offers nothing, keeps what it had cached and is shown again.
RenderPicker ==
    /\ step \in {"idle", "pick"}
    /\ step' = "pick"
    /\ \/ offered' = {} /\ UNCHANGED endpoint
       \/ \E cloud \in SUBSET Devices, lan \in SUBSET Standalone, a \in Addrs :
              LET new == ToActivate(cloud, lan)
              IN  /\ offered' = Supported(Candidates(cloud) \cup new)
                  /\ endpoint' = [d \in Devices |->
                                     IF d \in new THEN a ELSE endpoint[d]]
    /\ UNCHANGED <<manual, picked, poked, topo, subs, loaded, reload>>

\* The picker's last choice leads to the form for an address.
ManualActivate(eligible) ==
    /\ manual' = eligible
    /\ step' = "manual"
    /\ UNCHANGED <<offered, endpoint, picked, poked, topo, subs, loaded, reload>>

\* _render_manual_activate_form, also after an input it refuses: standalone
\* devices of the account that are not added; the cloud may be out of reach.
RenderManual ==
    /\ step \in {"pick", "manual"}
    /\ \/ ManualActivate(manual)
       \/ \E cloud \in SUBSET Devices :
              ManualActivate(((cloud \cap Standalone) \ {Hub}) \ Existing)

\* Where device_extras takes the picked device.
Route(d) == IF d \in New THEN "scan" ELSE IF d \in Extras THEN "extras" ELSE "poke"

Pick(d) ==
    /\ step = "pick" /\ d \in offered
    /\ picked' = d
    /\ step' = Route(d)
    /\ UNCHANGED <<offered, manual, endpoint, poked, topo, subs, loaded, reload>>

\* The typed address takes the place of a discovered one.
Typed(d, a) == [endpoint EXCEPT ![d] = a]

\* A literal, safe address for one of the records listed.
EnterAddress(d, a) ==
    /\ step = "manual" /\ d \in manual
    /\ endpoint' = Typed(d, a)
    /\ picked' = d
    /\ step' = Route(d)
    /\ UNCHANGED <<offered, manual, poked, topo, subs, loaded, reload>>

-----------------------------------------------------------------------------
(* From the choice to the subentry *)

\* The extras pass the validation hook; otherwise the form is shown again.
SubmitExtras ==
    /\ step = "extras"
    /\ step' = "poke"
    /\ UNCHANGED <<offered, manual, endpoint, picked, poked, topo, subs, loaded, reload>>

\* The scan of an uncatalogued model: nothing to review, a review, or an abort.
Scan ==
    /\ step = "scan"
    /\ step' \in {"create", "review", "idle"}
    /\ endpoint' = IF step' = "idle" THEN [d \in Devices |-> None] ELSE endpoint
    /\ UNCHANGED <<offered, manual, picked, poked, topo, subs, loaded, reload>>

\* The accepted traits are in the overlay (see Overlay).
SubmitReview ==
    /\ step = "review"
    /\ step' = "create"
    /\ UNCHANGED <<offered, manual, endpoint, picked, poked, topo, subs, loaded, reload>>

\* _maybe_activate: the handshake goes out if there is an address to send it to.
Activate ==
    /\ step = "poke"
    /\ IF endpoint[picked] = None
       THEN step' = "create" /\ UNCHANGED poked
       ELSE step' = "waiting" /\ poked' = endpoint[picked]
    /\ UNCHANGED <<offered, manual, endpoint, picked, topo, subs, loaded, reload>>

\* The hub has adopted the device, or twenty seconds are over.
Waited ==
    /\ step = "waiting"
    /\ step' = "create"
    /\ UNCHANGED <<offered, manual, endpoint, picked, poked, topo, subs, loaded, reload>>

\* The reserved keys come last: extras do not replace them.
NewSub == [did |-> picked, at |-> endpoint[picked], poked |-> poked]

\* unique_id=did: Home Assistant refuses a second subentry with it.
Added(s) == IF s.did \in Existing THEN subs ELSE subs \cup {s}

\* _create_device_subentry ends the wizard.  Nothing reloads: the listener
\* answers to options only.
Create ==
    /\ step = "create"
    /\ subs' = Added(NewSub)
    /\ step' = "idle"
    /\ offered' = {} /\ manual' = {}
    /\ endpoint' = [d \in Devices |-> None]
    /\ picked' = None /\ poked' = None
    /\ UNCHANGED <<topo, loaded, reload>>

-----------------------------------------------------------------------------
(* The rest of the entry *)

\* A second wizard adds a device, with or without a relay handshake.
OtherAdds(d) ==
    /\ d \in (Children \cup Standalone) \ Virtual
    /\ \E a \in IF d \in Standalone THEN Address ELSE {None} :
           subs' = Added([did |-> d, at |-> a, poked |-> a])
    /\ UNCHANGED <<wizard, topo, loaded, reload>>

\* Mutation: removing the subentry is left to the update listener.
M_ScheduleReload == reload' = reload

\* The removal schedules the reload itself.
ScheduleReload == reload' = TRUE

\* A device with a live subentry is deleted from its page; the hub is refused.
async_remove_config_entry_device(d) ==
    /\ d \in Existing
    /\ subs' = {s \in subs : s.did # d}
    /\ ScheduleReload
    /\ UNCHANGED <<wizard, topo, loaded>>

\* The entry is loaded again, as scheduled or by the user.
Reload ==
    /\ loaded' = Existing
    /\ reload' = FALSE
    /\ UNCHANGED <<wizard, topo, subs>>

\* The hub adopts or loses devices; virtual ones are the cloud's alone.
Topology ==
    /\ topo' \in SUBSET (Devices \ Virtual)
    /\ UNCHANGED <<wizard, subs, loaded, reload>>

Next ==
    \/ RenderPicker \/ RenderManual \/ SubmitExtras \/ Scan \/ SubmitReview
    \/ Activate \/ Waited \/ Create \/ Reload \/ Topology
    \/ \E d \in Devices :
        \/ Pick(d) \/ OtherAdds(d) \/ async_remove_config_entry_device(d)
        \/ \E a \in Addrs : EnterAddress(d, a)

\* A scheduled reload comes.
Fairness == WF_vars(reload /\ Reload)

Spec == Init /\ [][Next]_vars /\ Fairness

-----------------------------------------------------------------------------
(* Properties *)

\* A device that was removed and not added again is unloaded
\* (__init__.py:1240-1246).
RemovedIsUnloaded == \A d \in Devices : d \notin Existing ~> d \notin loaded \/ d \in Existing

\* What the picker flags as needing activation is poked when it is added
\* (config_flow.py:1624-1625).
ActivationIsPoked == \A s \in subs : s.at # None => s.poked # None

=============================================================================
