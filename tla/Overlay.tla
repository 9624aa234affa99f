------------------------------- MODULE Overlay -------------------------------
(***************************************************************************)
(* The per-install overlay (device/overlay.py): one file with the traits   *)
(* the user has accepted, a copy of it in the runtime data of every loaded *)
(* config entry, and its two writers: the Repair a scan_device call leaves *)
(* (services/scan_device.py, repairs.py) and the review of an uncatalogued *)
(* model in the subentry wizard (config_flow.py:1380-1501).                *)
(*                                                                         *)
(* Every entry has one device; all are of one model, so a row of the       *)
(* overlay is a wire path.  What a row says is left out, as are writes the *)
(* disk refuses.                                                           *)
(***************************************************************************)
EXTENDS FiniteSets, Naturals

CONSTANTS
    Entries,    \* config entries
    Paths,      \* wire paths of the model
    Catalogue,  \* those the shipped catalogue has
    Dropped     \* those the trait policy drops

OverlayAssumption ==
    /\ Catalogue \cup Dropped \subseteq Paths
    /\ Catalogue \cap Dropped = {}

NoEntry == "none"
Idle == [at |-> "idle", rows |-> {}, own |-> {}]
NoScan == [entry |-> NoEntry, own |-> {}]

VARIABLES
    file,       \* rows of .storage/aqara_lanlink.overlay
    up,         \* entries that are loaded
    live,       \* runtime_data.overlay
    service,    \* the entry whose setup registered the services, if any
    scan,       \* a scan in the cloud: its entry and the overlay of the runtime
                \* data it began with.  Scans of two entries share nothing.
    issue,      \* the report in the Repair scan_review; {}: no Repair
    fix,        \* an open Repair flow: its report, then what it writes
    boot,       \* the wizard: its report and its copy of the overlay, then what
                \* it writes and the file it read for that
    effect      \* what the last Fix of an entry selected, while no other
                \* writer has come after it

overlayVars == <<file, up, live, service, scan, issue, fix, boot, effect>>

Work == [at : {"idle", "review", "writing"},
         rows : SUBSET Paths, own : SUBSET Paths]

OverlayTypeOK ==
    /\ {file} \subseteq SUBSET Paths
    /\ up \subseteq Entries
    /\ {live, issue, effect} \subseteq [Entries -> SUBSET Paths]
    /\ service \in Entries \cup {NoEntry}
    /\ scan \in [entry : Entries \cup {NoEntry}, own : SUBSET Paths]
    /\ fix \in [Entries -> Work]
    /\ boot \in Work

\* What is stored was accepted under the policy of today.
OverlayInit ==
    /\ file \in SUBSET (Paths \ Dropped)
    /\ up = {} /\ service = NoEntry
    /\ live = [e \in Entries |-> {}]
    /\ scan = NoScan
    /\ issue = [e \in Entries |-> {}]
    /\ fix = [e \in Entries |-> Idle]
    /\ boot = Idle
    /\ effect = [e \in Entries |-> {}]

-----------------------------------------------------------------------------
(* Loading and unloading *)

\* The services belong to the entry that registered them first.
Registrar(e) == IF service = NoEntry THEN e ELSE service

\* async_setup_entry reads the file and registers the services unless another
\* entry has.  A missing or corrupt file reads as no rows.
Setup(e) ==
    /\ e \notin up
    /\ up' = up \cup {e}
    /\ live' = [live EXCEPT ![e] = file]
    /\ service' = Registrar(e)
    /\ UNCHANGED <<file, scan, issue, fix, boot, effect>>

\* Unloading takes the services along if this entry's setup registered them.
Gone(e) ==
    /\ up' = up \ {e}
    /\ live' = [live EXCEPT ![e] = {}]
    /\ service' = IF service = e THEN NoEntry ELSE service

Unload(e) ==
    /\ e \in up
    /\ Gone(e)
    /\ UNCHANGED <<file, scan, issue, fix, boot, effect>>

-----------------------------------------------------------------------------
(* scan_device *)

\* async_handle_scan; a device whose entry has no runtime data is not resolved.
\* Without a cloud client the call ends with the Repair scan_failure, which
\* nothing reads.
StartScan(e) ==
    /\ service # NoEntry /\ e \in up /\ scan = NoScan
    /\ scan' = [entry |-> e, own |-> live[e]]
    /\ UNCHANGED <<file, up, live, service, issue, fix, boot, effect>>

\* One of the two calls to the cloud fails: a Repair, or the re-authentication
\* of the entry.
ScanFails ==
    /\ scan # NoScan
    /\ scan' = NoScan
    /\ UNCHANGED <<file, up, live, service, issue, fix, boot, effect>>

\* The panels name no path to read: an earlier review is withdrawn.
NoPanels ==
    /\ scan # NoScan
    /\ scan' = NoScan
    /\ issue' = [issue EXCEPT ![scan.entry] = {}]
    /\ UNCHANGED <<file, up, live, service, fix, boot, effect>>

\* build_gap_report_from_cloud: what neither the catalogue nor the overlay knows
\* and the policy does not drop.
Gaps(pushed, catalogue, overlay) == pushed \ (catalogue \cup overlay \cup Dropped)

\* The values have arrived and the resource ids, which nothing depends on, are
\* posted: the report becomes the Repair of the device, or withdraws it.
Report ==
    /\ scan # NoScan
    /\ \E pushed \in SUBSET Paths :
           issue' = [issue EXCEPT ![scan.entry] = Gaps(pushed, Catalogue, scan.own)]
    /\ scan' = NoScan
    /\ UNCHANGED <<file, up, live, service, fix, boot, effect>>

-----------------------------------------------------------------------------
(* The Repair *)

\* async_create_fix_flow copies the report of the issue.
OpenFix(e) ==
    /\ issue[e] # {} /\ fix[e].at = "idle"
    /\ fix' = [fix EXCEPT ![e] = [Idle EXCEPT !.at = "review", !.rows = issue[e]]]
    /\ UNCHANGED <<file, up, live, service, scan, issue, boot, effect>>

\* Mutation: the rows to store are taken before the selected ones join.
M_Payload(e, selected) == live[e]

\* What async_write is given.
Payload(e, selected) == live[e] \cup selected

\* set_trait of each row: only the copy in memory.
SetTraits(e, selected) == live' = [live EXCEPT ![e] = @ \cup selected]

\* _accept: the rows selected, less any TraitSpec refuses, join the overlay in
\* memory, and all of that overlay is what async_write is to store.
Accept(e) ==
    /\ fix[e].at = "review" /\ e \in up
    /\ \E selected \in SUBSET fix[e].rows :
           /\ SetTraits(e, selected)
           /\ fix' = [fix EXCEPT ![e] = [at |-> "writing", rows |-> Payload(e, selected),
                                         own |-> selected]]
           /\ scan' = IF scan.entry = e /\ scan.own = live[e]
                      THEN [scan EXCEPT !.own = @ \cup selected] ELSE scan
    /\ UNCHANGED <<file, up, service, issue, boot, effect>>

\* The file is written, the Repair deleted, the entry reloaded: unloaded here,
\* then Setup.
FixDone(e) ==
    /\ fix[e].at = "writing"
    /\ file' = fix[e].rows
    /\ effect' = [x \in Entries |-> IF x = e THEN fix[e].own ELSE {}]
    /\ issue' = [issue EXCEPT ![e] = {}]
    /\ fix' = [fix EXCEPT ![e] = Idle]
    /\ Gone(e)
    /\ UNCHANGED <<scan, boot>>

-----------------------------------------------------------------------------
(* The review in the subentry wizard *)

\* The scan of an uncatalogued model against the overlay the wizard cached when
\* it began; without gaps the device is added at once.
BootReport ==
    /\ boot.at = "idle"
    /\ \E pushed \in SUBSET Paths, cached \in {file, {}} :
           LET gaps == Gaps(pushed, {}, cached)
           IN  /\ gaps # {}
               /\ boot' = [at |-> "review", rows |-> gaps, own |-> cached]
    /\ UNCHANGED <<file, up, live, service, scan, issue, fix, effect>>

\* The wizard reads the file again before it adds to it.
BootBase == file

BootAccept ==
    /\ boot.at = "review"
    /\ \E selected \in SUBSET boot.rows :
           boot' = [at |-> "writing", rows |-> BootBase \cup selected, own |-> file]
    /\ UNCHANGED <<file, up, live, service, scan, issue, fix, effect>>

\* The file is written; no entry is told.
BootDone ==
    /\ boot.at = "writing"
    /\ file' = boot.rows
    /\ boot' = Idle
    /\ effect' = [e \in Entries |-> {}]
    /\ UNCHANGED <<up, live, service, scan, issue, fix>>

OverlayNext ==
    \/ \E e \in Entries :
        \/ Setup(e) \/ Unload(e)
        \/ StartScan(e) \/ OpenFix(e) \/ Accept(e) \/ FixDone(e)
    \/ ScanFails \/ NoPanels \/ Report
    \/ BootReport \/ BootAccept \/ BootDone

OverlaySpec == OverlayInit /\ [][OverlayNext]_overlayVars

-----------------------------------------------------------------------------
(* Properties *)

\* What a Fix selected is what its entry runs with from then on, reloads
\* included, until somebody else writes the file (repairs.py:93-98).
FixTakesEffect == \A e \in up : effect[e] \subseteq live[e]

\* Accepted traits are written to the per-install overlay, which only an
\* acceptance changes (docs/architecture.md:138-142): what a Fix writes does not
\* take away what was accepted before it.
AcceptedIsKept ==
    [][\A e \in Entries :
           fix[e].at = "writing" /\ fix'[e].at = "idle" =>
               file \subseteq file']_overlayVars

=============================================================================
