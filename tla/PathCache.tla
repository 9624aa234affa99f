------------------------------ MODULE PathCache ------------------------------
(***************************************************************************)
(* The candidate paths of custom_components/aqara_lanlink: wire paths that *)
(* a device pushes and neither the catalogue nor the overlay knows.  Each  *)
(* config entry has an ObservedPathCache over ONE file of the installation *)
(* that a Store writes ten seconds after the last change, from a timer     *)
(* nobody cancels at unload, and a Repair that names what is new.          *)
(*                                                                         *)
(* One entry with one device is modelled, so a cache is the set of paths   *)
(* of that device; the other entries appear as `foreign', the copy of our  *)
(* rows that a cache of theirs loaded and writes back with its own.  A     *)
(* clean shutdown of Home Assistant (write what is pending, then stop) is  *)
(* Save followed by Crash.                                                 *)
(***************************************************************************)
EXTENDS FiniteSets, Naturals

CONSTANTS
    Pushed,     \* wire paths the device pushes
    Known,      \* paths of the catalogue and of the overlay
    Pruned,     \* paths the trait policy drops
    MaxOld      \* bound: saves left behind by earlier loads of the entry

PathCacheAssumption ==
    /\ Known \subseteq Pushed
    /\ Pruned \subseteq Pushed
    /\ MaxOld \in Nat

VARIABLES
    stored,     \* our rows of .storage/aqara_lanlink.observed_paths
    foreign,    \* our rows in the cache of another entry
    phase,      \* dead (Home Assistant is down), off, loaded (cache read), up
    data,       \* _data of the cache
    new,        \* _new_since_setup
    due,        \* its Store has a delayed save to do
    old,        \* snapshots that Stores of earlier loads will write
    repair,     \* what the Repair candidate_paths lists; {}: no Repair
    dismissed   \* the user confirmed the Repair after the last new path

pathCacheVars == <<stored, foreign, phase, data, new, due, old, repair, dismissed>>

PathCacheTypeOK ==
    /\ {stored, foreign, data, new, repair} \subseteq SUBSET Pushed
    /\ phase \in {"dead", "off", "loaded", "up"}
    /\ {due, dismissed} \subseteq BOOLEAN
    /\ old \subseteq SUBSET Pushed /\ Cardinality(old) <= MaxOld

\* The file may hold paths an earlier release recorded and the policy of this
\* one drops.
PathCacheInit ==
    /\ stored \in SUBSET Pushed
    /\ foreign = stored
    /\ phase = "off"
    /\ data = {} /\ new = {} /\ old = {} /\ repair = {}
    /\ due = FALSE /\ dismissed = FALSE

\* The load is the boundary of "since setup".
Fresh == new' = {}

\* A setup clears the Repair of the previous run.
ClearIssue == repair' = {} /\ dismissed' = FALSE

\* async_setup_entry up to coordinator.start(): the file is read (a missing or
\* corrupt one as empty), pruned of dropped paths, and the Repair deleted.
Load ==
    /\ phase = "off"
    /\ \E raw \in {stored, {}} :
           /\ data' = raw \ Pruned
           /\ due' = (raw \cap Pruned # {})
    /\ Fresh
    /\ ClearIssue
    /\ phase' = "loaded"
    /\ UNCHANGED <<stored, foreign, old>>

\* The session comes up and reports reach the device.
Up ==
    /\ phase = "loaded"
    /\ phase' = "up"
    /\ UNCHANGED <<stored, foreign, data, new, due, old, repair, dismissed>>

\* Mutation: only the first new path raises the Repair.
M_Notify == repair' = (IF new = {} THEN new' ELSE repair) /\ dismissed' = FALSE

\* _register_candidate_paths_issue: created, or refreshed, for every new path.
Notify == repair' = new' /\ dismissed' = FALSE

\* A report of a path the device does not know; a path already in the bucket
\* changes nothing.
record(p) ==
    /\ phase = "up"
    /\ p \notin Known \cup Pruned \cup data
    /\ data' = data \cup {p}
    /\ new' = new \cup {p}
    /\ due' = TRUE
    /\ Notify
    /\ UNCHANGED <<stored, foreign, phase, old>>

\* The user confirms the Repair; ConfirmRepairFlow only deletes it.
Confirm ==
    /\ repair # {}
    /\ repair' = {}
    /\ dismissed' = TRUE
    /\ UNCHANGED <<stored, foreign, phase, data, new, due, old>>

\* The delayed save writes what the cache holds when the timer fires.
Save ==
    /\ due
    /\ stored' = data
    /\ due' = FALSE
    /\ UNCHANGED <<foreign, phase, data, new, old, repair, dismissed>>

\* The same for a Store of an earlier load, whose cache no longer changes.
SaveOld(rows) ==
    /\ rows \in old
    /\ stored' = rows
    /\ old' = old \ {rows}
    /\ UNCHANGED <<foreign, phase, data, new, due, repair, dismissed>>

\* Mutation: unloading cancels the delayed save.
M_Handover == old' = old

\* The delayed save stays armed when its cache is let go.
Handover == old' = IF due THEN old \cup {data} ELSE old

\* The entry is unloaded, or its setup fails.
LetGo ==
    /\ phase \in {"loaded", "up"}
    /\ due => Cardinality(old \cup {data}) <= MaxOld
    /\ Handover
    /\ due' = FALSE
    /\ phase' = "off"
    /\ UNCHANGED <<stored, foreign, data, new, repair, dismissed>>

\* Another entry sets up, or saves its cache and with it our rows as it read them.
ForeignLoad ==
    /\ phase # "dead"
    /\ foreign' = stored
    /\ UNCHANGED <<stored, phase, data, new, due, old, repair, dismissed>>
ForeignSave ==
    /\ phase # "dead"
    /\ stored' = foreign
    /\ UNCHANGED <<foreign, phase, data, new, due, old, repair, dismissed>>

\* Home Assistant dies: timers, caches and Repairs (is_persistent=False) go.
Crash ==
    /\ phase' = "dead"
    /\ data' = {} /\ new' = {} /\ old' = {} /\ repair' = {}
    /\ due' = FALSE /\ dismissed' = FALSE
    /\ foreign' = stored
    /\ UNCHANGED stored
Boot ==
    /\ phase = "dead"
    /\ phase' = "off"
    /\ UNCHANGED <<stored, foreign, data, new, due, old, repair, dismissed>>

PathCacheNext ==
    \/ Load \/ Up \/ Confirm \/ Save \/ LetGo \/ Crash \/ Boot
    \/ \E p \in Pushed : record(p)
    \/ \E rows \in SUBSET Pushed : SaveOld(rows)
    \/ ForeignLoad \/ ForeignSave

\* Timers fire.
PathCacheFairness ==
    /\ WF_pathCacheVars(Save)
    /\ \A rows \in SUBSET Pushed : WF_pathCacheVars(SaveOld(rows))

PathCacheSpec ==
    PathCacheInit /\ [][PathCacheNext]_pathCacheVars /\ PathCacheFairness

-----------------------------------------------------------------------------
(* Properties *)

\* While the entry runs its Repair lists exactly the paths first seen since its
\* setup, unless the user has confirmed it since the last of them: no reload,
\* failed setup or crash leaves a stale one (__init__.py:211-234, 589-593).
RepairIsCurrent ==
    phase \in {"loaded", "up"} => repair = IF dismissed THEN {} ELSE new

\* A path that waits for its save reaches the file, whatever reloads and failed
\* setups come between and whatever the other entries write, unless Home
\* Assistant dies first (observed_path_cache.py:173-205: the delayed save
\* outlives the load that armed it).
NewPathsAreWritten ==
    \A p \in Pushed : p \in new /\ due ~> p \in stored \/ phase = "dead"

=============================================================================
