--------------------------- MODULE InstallProofs ---------------------------
(***************************************************************************)
(* Proofs about what an installation keeps, for any value of the           *)
(* constants: the entries and the wizards that make them (Onboarding), the *)
(* overlay and its writers (Overlay), the candidate paths and their Repair *)
(* (PathCache), the requests of a cloud client (Cloud), the search for     *)
(* hubs (Discovery) and the walk over the catalogue (Registry).  They      *)
(* share no variable, so each has an invariant of its own.                 *)
(***************************************************************************)
EXTENDS Onboarding, Overlay, PathCache, Cloud, Discovery, Registry,
        FiniteSetTheorems, TLAPS

-----------------------------------------------------------------------------
(* Onboarding *)

Creating(f) == step[f] = "creating"

\* Between the abort on a configured id and the new entry lies the wizard that
\* is being finished: there is one at most, and no entry beside it.
ClaimInv ==
    /\ \A f, g \in Flows : Creating(f) /\ Creating(g) => f = g
    /\ \A f \in Flows : Creating(f) => entries = {}

AtMostOne(S) == \A d, e \in S : d = e

OnboardingInv ==
    /\ step \in [Flows -> Steps]
    /\ ClaimInv
    /\ AtMostOne(entries)

-----------------------------------------------------------------------------

\* A set whose members are all equal has at most one.
LEMMA AtMostOneIsSmall ==
    ASSUME NEW S, AtMostOne(S)
    PROVE  Cardinality(S) <= 1
<1>1. CASE S = {}
  BY <1>1, FS_EmptySet
<1>2. CASE S # {}
  <2>1. PICK e : e \in S
    BY <1>2
  <2>2. S = {e}
    BY <2>1 DEF AtMostOne
  <2>3. Cardinality(S) = 1
    BY <2>2, FS_Singleton
  <2>4. QED BY <2>3
<1>3. QED BY <1>1, <1>2

\* The initial states.
LEMMA OnboardingInitInv == OnboardingInit => OnboardingInv
BY DEF OnboardingInit, OnboardingInv, Steps, ClaimInv, Creating, AtMostOne

\* A wizard that moves on to another step than "creating" claims nothing, and
\* with no more entries than before nothing is lost.
LEMMA MovesOn ==
    ASSUME OnboardingInv, NEW f \in Flows, NEW s \in Steps \ {"creating"},
           Goto(f, s), UNCHANGED entries
    PROVE  OnboardingInv'
BY DEF OnboardingInv, ClaimInv, Creating, AtMostOne, Goto

\* A change to entries that keeps them at most one, and none if there were none.
LEMMA EntriesChange ==
    ASSUME OnboardingInv, UNCHANGED step, AtMostOne(entries'),
           entries = {} => entries' = {}
    PROVE  OnboardingInv'
BY DEF OnboardingInv, ClaimInv, Creating

\* One wizard's step preserves the invariant.
LEMMA WizardStep ==
    ASSUME OnboardingInv, NEW f \in Flows,
           \/ async_step_user(f) \/ SelectHub(f) \/ CheckinFails(f)
           \/ CheckinPasses(f) \/ CheckedIn(f)
           \/ async_step_confirm(f) \/ CreateEntry(f)
           \/ async_step_reauth(f) \/ UpdateCredentials(f)
           \/ \E h \in Hosts : EnterHub(f, h)
           \/ \E c \in Creds : SubmitCredentials(f, c)
    PROVE  OnboardingInv'
<1>1. CASE async_step_user(f)
  BY <1>1, MovesOn DEF async_step_user, Steps
<1>2. CASE SelectHub(f)
  BY <1>2, MovesOn DEF SelectHub, Steps
<1>3. CASE CheckinFails(f)
  <2>1. Form(f) \in Steps \ {"creating"}
    BY DEF Form, Steps
  <2>2. QED BY <1>3, <2>1, MovesOn DEF CheckinFails
<1>4. CASE CheckinPasses(f)
  BY <1>4, MovesOn DEF CheckinPasses, Steps
<1>5. CASE CheckedIn(f)
  BY <1>5, MovesOn DEF CheckedIn, Steps
<1>6. CASE async_step_confirm(f)
  <2>1. CASE InProgress(f) \/ entries # {}
    BY <1>6, <2>1, MovesOn DEF async_step_confirm, Steps
  <2>2. CASE ~InProgress(f) /\ entries = {}
    <3>1. \A g \in Flows : Creating(g)' => g = f
      BY <1>6, <2>2 DEF async_step_confirm, InProgress, OnboardingInv, Goto, Creating
    <3>2. step' \in [Flows -> Steps] /\ entries' = {}
      BY <1>6, <2>2 DEF async_step_confirm, OnboardingInv, Goto, Steps
    <3>3. QED BY <3>1, <3>2 DEF OnboardingInv, ClaimInv, AtMostOne, Creating
  <2>3. QED BY <2>1, <2>2
<1>7. CASE CreateEntry(f)
  <2>1. Creating(f) /\ entries = {}
    BY <1>7 DEF CreateEntry, OnboardingInv, ClaimInv, Creating
  <2>2. AtMostOne(entries')
    BY <1>7, <2>1 DEF CreateEntry, AtMostOne
  <2>3. \A g \in Flows : ~Creating(g)'
    BY <1>7, <2>1 DEF CreateEntry, OnboardingInv, ClaimInv, Creating, Goto
  <2>4. step' \in [Flows -> Steps]
    BY <1>7 DEF CreateEntry, OnboardingInv, Goto, Steps
  <2>5. QED BY <2>2, <2>3, <2>4 DEF OnboardingInv, ClaimInv, Creating
<1>8. CASE async_step_reauth(f)
  BY <1>8, MovesOn DEF async_step_reauth, Steps
<1>9. CASE UpdateCredentials(f)
  <2>1. AtMostOne(entries') /\ (entries = {} => entries' = {})
    BY <1>9 DEF UpdateCredentials, OnboardingInv, AtMostOne
  <2>2. QED
    BY <1>9, <2>1 DEF UpdateCredentials, OnboardingInv, ClaimInv, Creating, Goto, Steps
<1>10. CASE \E h \in Hosts : EnterHub(f, h)
  BY <1>10, MovesOn DEF EnterHub, Steps
<1>11. CASE \E c \in Creds : SubmitCredentials(f, c)
  BY <1>11, MovesOn DEF SubmitCredentials, Validating, Steps
<1>12. QED
  BY <1>1, <1>2, <1>3, <1>4, <1>5, <1>6, <1>7, <1>8, <1>9, <1>10, <1>11

\* Every step preserves the invariant.
LEMMA OnboardingNextInv ==
    OnboardingInv /\ [OnboardingNext]_onboardingVars => OnboardingInv'
<1> SUFFICES ASSUME OnboardingInv, [OnboardingNext]_onboardingVars PROVE OnboardingInv'
  OBVIOUS
<1>1. CASE \E h \in Hosts \cup {None} : AqaraLanLinkOptionsFlow(h)
  <2>1. AtMostOne(entries') /\ (entries = {} => entries' = {})
    BY <1>1 DEF AqaraLanLinkOptionsFlow, OnboardingInv, AtMostOne
  <2>2. QED BY <1>1, <2>1, EntriesChange DEF AqaraLanLinkOptionsFlow, wizard
<1>2. CASE PersistEndpoint
  <2>1. AtMostOne(entries') /\ (entries = {} => entries' = {})
    BY <1>2 DEF PersistEndpoint, OnboardingInv, AtMostOne
  <2>2. QED BY <1>2, <2>1, EntriesChange DEF PersistEndpoint, wizard
<1>3. CASE RemoveEntry
  BY <1>3, EntriesChange DEF RemoveEntry, wizard, AtMostOne
<1>4. CASE HubMoves \/ TokensChange \/ UNCHANGED onboardingVars
  <2>1. UNCHANGED <<entries, step>>
    BY <1>4 DEF HubMoves, TokensChange, onboardingVars, wizard
  <2>2. QED BY <2>1 DEF OnboardingInv, ClaimInv, Creating, AtMostOne
<1>5. QED
  BY <1>1, <1>2, <1>3, <1>4, WizardStep DEF OnboardingNext

\* The inductive invariant.
THEOREM OnboardingInvariant == OnboardingSpec => []OnboardingInv
BY OnboardingInitInv, OnboardingNextInv, PTL DEF OnboardingSpec

\* However many wizards overlap, and whatever is removed or changed meanwhile, a
\* hub has at most one entry (config_flow.py:402-406).
THEOREM AtMostOneEntry == OnboardingSpec => []OneEntryPerHub
<1>1. OnboardingInv => OneEntryPerHub
  BY AtMostOneIsSmall DEF OnboardingInv, OneEntryPerHub
<1>2. QED BY OnboardingInvariant, <1>1, PTL

-----------------------------------------------------------------------------

\* What a wizard has in hand by the form it shows: an address once it has left
\* the first form, credentials from the checkin on.
InHand ==
    \A f \in Flows :
        /\ step[f] \in Steps \ {"start", "user", "over"} => addr[f] \in Hosts
        /\ step[f] \in {"checkin", "stopping", "confirm", "creating"} =>
             cred[f] \in Creds

OnboardingTyped == OnboardingTypeOK /\ InHand

\* The initial states.
LEMMA InitTypes ==
    ASSUME OnboardingAssumption PROVE OnboardingInit => OnboardingTyped
BY DEF OnboardingAssumption, OnboardingInit, OnboardingTyped, OnboardingTypeOK,
       InHand, Steps, Models

\* One wizard's step keeps the types and what wizards have in hand.
LEMMA WizardTypes ==
    ASSUME OnboardingAssumption, OnboardingTyped, NEW f \in Flows,
           \/ async_step_user(f) \/ SelectHub(f) \/ CheckinFails(f)
           \/ CheckinPasses(f) \/ CheckedIn(f)
           \/ async_step_confirm(f) \/ CreateEntry(f)
           \/ async_step_reauth(f) \/ UpdateCredentials(f)
           \/ \E h \in Hosts : EnterHub(f, h)
           \/ \E c \in Creds : SubmitCredentials(f, c)
    PROVE  OnboardingTyped'
<1> USE DEF OnboardingTyped, OnboardingTypeOK, InHand, Steps, Goto
<1>1. CASE async_step_user(f)
  BY <1>1 DEF async_step_user, OnboardingAssumption
<1>2. CASE SelectHub(f)
  BY <1>2 DEF SelectHub
<1>3. CASE CheckinFails(f)
  BY <1>3 DEF CheckinFails, Form
<1>4. CASE CheckinPasses(f)
  BY <1>4 DEF CheckinPasses
<1>5. CASE CheckedIn(f)
  BY <1>5 DEF CheckedIn
<1>6. CASE async_step_confirm(f)
  BY <1>6 DEF async_step_confirm
<1>7. CASE CreateEntry(f)
  <2>1. [by |-> f, host |-> addr[f], cred |-> cred[f], model |-> model[f],
         camera |-> None] \in Entry
    BY <1>7 DEF CreateEntry, Entry
  <2>2. QED BY <1>7, <2>1 DEF CreateEntry
<1>8. CASE async_step_reauth(f)
  <2>1. PICK e \in entries :
           /\ target' = [target EXCEPT ![f] = e.by]
           /\ addr' = [addr EXCEPT ![f] = e.host]
           /\ model' = [model EXCEPT ![f] = e.model]
    BY <1>8 DEF async_step_reauth
  <2>2. e.by \in Flows /\ e.host \in Hosts /\ e.model \in Models
    BY DEF Entry
  <2>3. QED BY <1>8, <2>1, <2>2 DEF async_step_reauth
<1>9. CASE UpdateCredentials(f)
  <2>1. \A e \in entries : Updated(e, f) \in Entry
    BY <1>9 DEF UpdateCredentials, Updated, Entry
  <2>2. entries' \subseteq Entry
    BY <1>9, <2>1 DEF UpdateCredentials
  <2>3. QED BY <1>9, <2>2 DEF UpdateCredentials
<1>10. CASE \E h \in Hosts : EnterHub(f, h)
  BY <1>10 DEF EnterHub
<1>11. CASE \E c \in Creds : SubmitCredentials(f, c)
  BY <1>11 DEF SubmitCredentials, Validating
<1>12. QED
  BY <1>1, <1>2, <1>3, <1>4, <1>5, <1>6, <1>7, <1>8, <1>9, <1>10, <1>11

\* Every step keeps the types and what wizards have in hand.
LEMMA NextTypes ==
    ASSUME OnboardingAssumption
    PROVE  OnboardingTyped /\ [OnboardingNext]_onboardingVars => OnboardingTyped'
<1> SUFFICES ASSUME OnboardingTyped, [OnboardingNext]_onboardingVars
             PROVE  OnboardingTyped'
  OBVIOUS
<1> USE DEF OnboardingTyped, OnboardingTypeOK
<1>1. CASE \E h \in Hosts \cup {None} : AqaraLanLinkOptionsFlow(h)
  <2>1. PICK h \in Hosts \cup {None} : AqaraLanLinkOptionsFlow(h)
    BY <1>1
  <2>2. \A e \in entries : [e EXCEPT !.camera = h] \in Entry
    BY DEF Entry
  <2>3. entries' \subseteq Entry
    BY <2>1, <2>2 DEF AqaraLanLinkOptionsFlow
  <2>4. QED BY <2>1, <2>3 DEF AqaraLanLinkOptionsFlow, wizard, InHand
<1>2. CASE PersistEndpoint
  <2>1. \A e \in entries : [e EXCEPT !.host = at] \in Entry
    BY DEF OnboardingAssumption, Entry
  <2>2. entries' \subseteq Entry
    BY <1>2, <2>1 DEF PersistEndpoint
  <2>3. QED BY <1>2, <2>2 DEF PersistEndpoint, wizard, InHand
<1>3. CASE RemoveEntry
  BY <1>3 DEF RemoveEntry, wizard, InHand
<1>4. CASE HubMoves \/ TokensChange
  BY <1>4 DEF HubMoves, TokensChange, wizard, InHand
<1>5. CASE UNCHANGED onboardingVars
  BY <1>5 DEF onboardingVars, InHand
<1>6. QED
  BY <1>1, <1>2, <1>3, <1>4, <1>5, WizardTypes DEF OnboardingNext

\* Every variable keeps its type: no entry is ever made without an address and
\* credentials, whichever way its wizard took through the forms.
THEOREM OnboardingTypeCorrect ==
    ASSUME OnboardingAssumption PROVE OnboardingSpec => []OnboardingTypeOK
<1>1. OnboardingSpec => []OnboardingTyped
  BY InitTypes, NextTypes, PTL DEF OnboardingSpec
<1>2. OnboardingTyped => OnboardingTypeOK
  BY DEF OnboardingTyped
<1>3. QED BY <1>1, <1>2, PTL

-----------------------------------------------------------------------------

\* The one entry's address changes only to where the hub is.
LEMMA HostStep ==
    ASSUME OnboardingAssumption, OnboardingTypeOK, OnboardingInv,
           [OnboardingNext]_onboardingVars,
           NEW e \in entries, NEW n \in entries', e.by = n.by, e.host # n.host
    PROVE  n.host = at
<1>1. \A d \in entries : d = e
  BY DEF OnboardingInv, AtMostOne
<1>2. e \in Entry
  BY DEF OnboardingTypeOK
<1>3. CASE UNCHANGED entries
  BY <1>1, <1>3
<1>4. CASE \E f \in Flows : CreateEntry(f)
  BY <1>4 DEF CreateEntry, OnboardingInv, ClaimInv, Creating
<1>5. CASE \E f \in Flows : UpdateCredentials(f)
  <2>1. PICK f \in Flows : UpdateCredentials(f)
    BY <1>5
  <2>2. n = Updated(e, f) \/ n = e
    BY <1>1, <2>1 DEF UpdateCredentials
  <2>3. Updated(e, f).host = e.host
    BY <1>2 DEF Updated, Entry
  <2>4. QED BY <2>2, <2>3
<1>6. CASE \E h \in Hosts \cup {None} : AqaraLanLinkOptionsFlow(h)
  <2>1. PICK h \in Hosts \cup {None} : AqaraLanLinkOptionsFlow(h)
    BY <1>6
  <2>2. n = [e EXCEPT !.camera = h] \/ n = e
    BY <1>1, <2>1 DEF AqaraLanLinkOptionsFlow
  <2>3. [e EXCEPT !.camera = h].host = e.host
    BY <1>2 DEF Entry
  <2>4. QED BY <2>2, <2>3
<1>7. CASE PersistEndpoint
  <2>1. n = [e EXCEPT !.host = at] \/ n = e
    BY <1>1, <1>7 DEF PersistEndpoint
  <2>2. [e EXCEPT !.host = at].host = at
    BY <1>2 DEF Entry
  <2>3. QED BY <2>1, <2>2
<1>8. CASE RemoveEntry
  BY <1>8 DEF RemoveEntry
<1>9. QED
  <2>1. [OnboardingNext]_onboardingVars =>
         \/ UNCHANGED entries
         \/ \E f \in Flows : CreateEntry(f) \/ UpdateCredentials(f)
         \/ \E h \in Hosts \cup {None} : AqaraLanLinkOptionsFlow(h)
         \/ PersistEndpoint \/ RemoveEntry
    <3>1. CASE \E f \in Flows :
                  \/ async_step_user(f) \/ SelectHub(f) \/ CheckinFails(f)
                  \/ CheckinPasses(f) \/ CheckedIn(f) \/ async_step_confirm(f)
                  \/ async_step_reauth(f) \/ \E h \in Hosts : EnterHub(f, h)
                  \/ \E c \in Creds : SubmitCredentials(f, c)
      BY <3>1 DEF async_step_user, SelectHub, EnterHub, SubmitCredentials, CheckinFails,
                  CheckinPasses, CheckedIn, async_step_confirm, async_step_reauth
    <3>2. CASE HubMoves \/ TokensChange \/ UNCHANGED onboardingVars
      BY <3>2 DEF HubMoves, TokensChange, onboardingVars
    <3>3. CASE \E f \in Flows : CreateEntry(f) \/ UpdateCredentials(f)
      BY <3>3
    <3>4. QED BY <3>1, <3>2, <3>3 DEF OnboardingNext
  <2>2. QED BY <1>3, <1>4, <1>5, <1>6, <1>7, <1>8, <2>1

\* A wizard that was opened before the hub moved never takes the entry back to
\* the old address (config_flow.py:519-521, 545-553).
THEOREM MovedHubStaysMoved ==
    ASSUME OnboardingAssumption PROVE OnboardingSpec => MovedHubIsKept
<1>1. OnboardingTypeOK /\ OnboardingInv /\ [OnboardingNext]_onboardingVars =>
        [\A e \in entries, n \in entries' :
             e.by = n.by /\ e.host # n.host => n.host = at]_onboardingVars
  BY HostStep
<1>2. QED
  BY OnboardingInvariant, OnboardingTypeCorrect, <1>1, PTL
     DEF OnboardingSpec, MovedHubIsKept


-----------------------------------------------------------------------------
(* Overlay *)

\* What a row may say: a path the policy does not drop.
Rows == Paths \ Dropped
RowWork == [at : {"idle", "review", "writing"}, rows : SUBSET Rows, own : SUBSET Rows]

\* The types, without anything the policy drops.
OverlayTyped ==
    /\ file \subseteq Rows
    /\ up \subseteq Entries
    /\ live \in [Entries -> SUBSET Rows]
    /\ issue \in [Entries -> SUBSET Rows]
    /\ effect \in [Entries -> SUBSET Rows]
    /\ service \in Entries \cup {NoEntry}
    /\ scan \in [entry : Entries \cup {NoEntry}, own : SUBSET Rows]
    /\ fix \in [Entries -> RowWork]
    /\ boot \in RowWork

\* What the last Fix of an entry selected is in the file, and in the entry while
\* it runs; a Fix that writes, writes what it selected.
EffectKept(e) ==
    /\ effect[e] \subseteq file
    /\ e \in up => effect[e] \subseteq live[e]
    /\ fix[e].at = "writing" => fix[e].own \subseteq fix[e].rows

OverlayInv == OverlayTyped /\ \A e \in Entries : EffectKept(e)

\* A Fix or a wizard with nothing open.
LEMMA IdleIsWork == Idle \in RowWork
BY DEF Idle, RowWork

\* A report names no path the policy drops.
LEMMA GapsAreRows ==
    ASSUME NEW pushed \in SUBSET Paths, NEW known, NEW kept
    PROVE  Gaps(pushed, known, kept) \subseteq Rows
BY DEF Gaps, Rows

\* Loading and unloading.
LEMMA LoadKeeps ==
    ASSUME OverlayInv, NEW e \in Entries, Setup(e) \/ Unload(e)
    PROVE  OverlayInv'
<1>1. OverlayTyped'
  BY DEF OverlayInv, OverlayTyped, Setup, Unload, Gone, Registrar
<1>2. \A x \in Entries : EffectKept(x)'
  BY DEF OverlayInv, OverlayTyped, EffectKept, Setup, Unload, Gone
<1>3. QED BY <1>1, <1>2 DEF OverlayInv

\* A scan, from its start to the Repair it leaves, and the Repair's first form.
LEMMA ScanKeeps ==
    ASSUME OverlayInv,
           ScanFails \/ NoPanels \/ Report \/
           \E e \in Entries : StartScan(e) \/ OpenFix(e)
    PROVE  OverlayInv'
<1>1. UNCHANGED <<file, up, live, effect>>
  BY DEF StartScan, ScanFails, NoPanels, Report, OpenFix
<1>2. scan' \in [entry : Entries \cup {NoEntry}, own : SUBSET Rows]
  <2>1. CASE ScanFails \/ NoPanels \/ Report
    BY <2>1 DEF ScanFails, NoPanels, Report, NoScan
  <2>2. CASE \E e \in Entries : StartScan(e) \/ OpenFix(e)
    <3>1. PICK e \in Entries : StartScan(e) \/ OpenFix(e)
      BY <2>2
    <3>2. scan' = scan \/ scan' = [entry |-> e, own |-> live[e]]
      BY <3>1 DEF StartScan, OpenFix
    <3>3. live[e] \in SUBSET Rows
      BY DEF OverlayInv, OverlayTyped
    <3>4. QED BY <3>2, <3>3 DEF OverlayInv, OverlayTyped
  <2>3. QED BY <2>1, <2>2
<1>3. issue' \in [Entries -> SUBSET Rows]
  <2>1. CASE Report
    <3>1. PICK pushed \in SUBSET Paths :
             issue' = [issue EXCEPT ![scan.entry] = Gaps(pushed, Catalogue, scan.own)]
      BY <2>1 DEF Report
    <3>2. Gaps(pushed, Catalogue, scan.own) \in SUBSET Rows
      BY GapsAreRows
    <3>3. QED BY <3>1, <3>2 DEF OverlayInv, OverlayTyped
  <2>2. CASE NoPanels
    BY <2>2 DEF NoPanels, OverlayInv, OverlayTyped
  <2>3. QED
    BY <2>1, <2>2 DEF ScanFails, StartScan, OpenFix, OverlayInv, OverlayTyped
<1>4. fix' \in [Entries -> RowWork] /\ \A x \in Entries : EffectKept(x)'
  <2>1. CASE \E e \in Entries : OpenFix(e)
    <3>1. PICK e \in Entries : OpenFix(e)
      BY <2>1
    <3>2. [Idle EXCEPT !.at = "review", !.rows = issue[e]] \in RowWork
      BY IdleIsWork DEF Idle, RowWork, OverlayInv, OverlayTyped
    <3>3. [Idle EXCEPT !.at = "review", !.rows = issue[e]].at = "review"
      BY DEF Idle
    <3>4. QED
      BY <1>1, <3>1, <3>2, <3>3 DEF OpenFix, OverlayInv, OverlayTyped, EffectKept
  <2>2. CASE UNCHANGED fix
    BY <1>1, <2>2 DEF OverlayInv, OverlayTyped, EffectKept
  <2>3. QED BY <2>1, <2>2 DEF StartScan, ScanFails, NoPanels, Report
<1>5. UNCHANGED <<service, boot>>
  BY DEF StartScan, ScanFails, NoPanels, Report, OpenFix
<1>6. QED
  BY <1>1, <1>2, <1>3, <1>4, <1>5 DEF OverlayInv, OverlayTyped

\* The choice of rows in a Repair: they join the overlay in memory, and all of it
\* is what will be written.
LEMMA AcceptKeeps ==
    ASSUME OverlayInv, NEW e \in Entries, Accept(e)
    PROVE  OverlayInv'
<1>1. PICK selected \in SUBSET fix[e].rows :
        /\ SetTraits(e, selected)
        /\ fix' = [fix EXCEPT ![e] = [at |-> "writing", rows |-> Payload(e, selected),
                                      own |-> selected]]
        /\ scan' = IF scan.entry = e /\ scan.own = live[e]
                   THEN [scan EXCEPT !.own = @ \cup selected] ELSE scan
  BY DEF Accept
<1>2. selected \subseteq Rows
  BY <1>1 DEF OverlayInv, OverlayTyped, RowWork
<1>3. Payload(e, selected) \subseteq Rows /\ selected \subseteq Payload(e, selected)
  BY <1>2 DEF Payload, OverlayInv, OverlayTyped
<1>4. live' \in [Entries -> SUBSET Rows] /\ \A x \in Entries : live[x] \subseteq live'[x]
  BY <1>1, <1>2 DEF SetTraits, OverlayInv, OverlayTyped
<1>5. /\ fix' \in [Entries -> RowWork]
      /\ \A x \in Entries :
            fix'[x].at = "writing" => fix'[x].own \subseteq fix'[x].rows
  <2>1. [at |-> "writing", rows |-> Payload(e, selected), own |-> selected] \in RowWork
    BY <1>2, <1>3 DEF RowWork
  <2>2. QED
    BY <1>1, <1>3, <2>1 DEF OverlayInv, OverlayTyped, EffectKept
<1>6. scan' \in [entry : Entries \cup {NoEntry}, own : SUBSET Rows]
  BY <1>1, <1>2 DEF OverlayInv, OverlayTyped
<1>7. UNCHANGED <<file, up, service, issue, boot, effect>>
  BY DEF Accept
<1>8. QED
  BY <1>4, <1>5, <1>6, <1>7 DEF OverlayInv, OverlayTyped, EffectKept

\* A Fix that has written the file unloads its entry, to load it again.
LEMMA FixDoneKeeps ==
    ASSUME OverlayInv, NEW e \in Entries, FixDone(e)
    PROVE  OverlayInv'
<1>1. fix[e] \in RowWork /\ fix[e].own \subseteq fix[e].rows
  BY DEF FixDone, OverlayInv, OverlayTyped, EffectKept
<1>2. OverlayTyped'
  BY <1>1, IdleIsWork DEF FixDone, Gone, OverlayInv, OverlayTyped, RowWork
<1>3. \A x \in Entries : EffectKept(x)'
  BY <1>1 DEF FixDone, Gone, Idle, OverlayInv, OverlayTyped, EffectKept
<1>4. QED BY <1>2, <1>3 DEF OverlayInv

\* The review in the subentry wizard.
LEMMA BootKeeps ==
    ASSUME OverlayInv, BootReport \/ BootAccept \/ BootDone
    PROVE  OverlayInv'
<1>1. boot' \in RowWork
  <2>1. CASE BootReport
    BY <2>1, GapsAreRows DEF BootReport, OverlayInv, OverlayTyped, RowWork
  <2>2. CASE BootAccept
    BY <2>2 DEF BootAccept, BootBase, OverlayInv, OverlayTyped, RowWork
  <2>3. CASE BootDone
    BY <2>3, IdleIsWork DEF BootDone
  <2>4. QED BY <2>1, <2>2, <2>3
<1>2. UNCHANGED <<up, live, service, scan, issue, fix>>
  BY DEF BootReport, BootAccept, BootDone
<1>3. CASE UNCHANGED <<file, effect>>
  BY <1>1, <1>2, <1>3 DEF OverlayInv, OverlayTyped, EffectKept
<1>4. CASE BootDone
  BY <1>1, <1>2, <1>4 DEF BootDone, OverlayInv, OverlayTyped, EffectKept, RowWork
<1>5. QED BY <1>3, <1>4 DEF BootReport, BootAccept

\* Every step preserves the invariant.
LEMMA OverlayNextInv == OverlayInv /\ [OverlayNext]_overlayVars => OverlayInv'
<1> SUFFICES ASSUME OverlayInv, [OverlayNext]_overlayVars PROVE OverlayInv'
  OBVIOUS
<1>1. CASE UNCHANGED overlayVars
  BY <1>1 DEF overlayVars, OverlayInv, OverlayTyped, EffectKept
<1>2. QED
  BY <1>1, LoadKeeps, ScanKeeps, AcceptKeeps, FixDoneKeeps, BootKeeps DEF OverlayNext

\* The inductive invariant of the overlay.
THEOREM OverlayInvariant == OverlaySpec => []OverlayInv
<1>1. OverlayInit => OverlayInv
  BY IdleIsWork DEF OverlayInit, OverlayInv, OverlayTyped, EffectKept, Rows, NoScan, Idle
<1>2. QED BY <1>1, OverlayNextInv, PTL DEF OverlaySpec

\* An entry runs with what its last Fix selected until somebody else writes the
\* file, for any entries, paths and policy, whatever scans, wizards and reloads
\* come between (repairs.py:93-98).
THEOREM FixIsKept == OverlaySpec => []FixTakesEffect
<1>1. OverlayInv => FixTakesEffect
  BY DEF OverlayInv, OverlayTyped, EffectKept, FixTakesEffect
<1>2. QED BY <1>1, OverlayInvariant, PTL

\* Neither the file nor an entry that runs gets a row the trait policy drops,
\* whichever way it came (gap_report.py, config_flow.py:1380-1501).
THEOREM PolicyIsKept ==
    OverlaySpec => [](file \cap Dropped = {} /\ \A e \in up : live[e] \cap Dropped = {})
<1>1. OverlayInv => file \cap Dropped = {} /\ \A e \in up : live[e] \cap Dropped = {}
  BY DEF OverlayInv, OverlayTyped, Rows
<1>2. QED BY <1>1, OverlayInvariant, PTL


-----------------------------------------------------------------------------
(* PathCache *)

\* The types; a save is due only while its cache is in use, a new path is in the
\* cache, and the Repair lists what is new unless it was confirmed.
PathCacheTyped ==
    /\ stored \subseteq Pushed /\ foreign \subseteq Pushed /\ data \subseteq Pushed
    /\ phase \in {"dead", "off", "loaded", "up"}
    /\ due \in BOOLEAN /\ dismissed \in BOOLEAN
    /\ old \subseteq SUBSET Pushed /\ IsFiniteSet(old) /\ Cardinality(old) <= MaxOld

RepairLists == (dismissed => repair = {}) /\ (~dismissed => repair = new)

PathCacheInv ==
    /\ PathCacheTyped
    /\ due => phase \in {"loaded", "up"}
    /\ new \subseteq data
    /\ phase \in {"loaded", "up"} => RepairLists

\* Between reports: the entry sets up, its Repair is confirmed, Home Assistant dies
\* and starts, and the other entries read and write the file.
LEMMA AroundKeeps ==
    ASSUME PathCacheAssumption, PathCacheInv,
           Load \/ Up \/ Confirm \/ Crash \/ Boot \/ ForeignLoad \/ ForeignSave
    PROVE  PathCacheInv'
<1> USE DEF PathCacheInv, PathCacheTyped, RepairLists
<1>1. CASE Load
  <2>1. PICK raw \in {stored, {}} : data' = raw \ Pruned /\ due' = (raw \cap Pruned # {})
    BY <1>1 DEF Load
  <2>2. data' \subseteq Pushed /\ due' \in BOOLEAN
    BY <2>1
  <2>3. /\ new' = {} /\ repair' = {} /\ dismissed' = FALSE /\ phase' = "loaded"
        /\ UNCHANGED <<stored, foreign, old>>
    BY <1>1 DEF Load, Fresh, ClearIssue
  <2>4. QED BY <2>2, <2>3
<1>2. CASE Up
  BY <1>2 DEF Up
<1>3. CASE Confirm
  BY <1>3 DEF Confirm
<1>4. CASE Boot
  BY <1>4 DEF Boot
<1>5. CASE Crash
  <2>1. IsFiniteSet({}) /\ Cardinality({}) = 0
    BY FS_EmptySet
  <2>2. Cardinality({}) <= MaxOld
    BY <2>1 DEF PathCacheAssumption
  <2>3. QED BY <1>5, <2>1, <2>2 DEF Crash
<1>6. CASE ForeignLoad \/ ForeignSave
  BY <1>6 DEF ForeignLoad, ForeignSave
<1>7. QED BY <1>1, <1>2, <1>3, <1>4, <1>5, <1>6

\* A new path, and the save that it causes.
LEMMA RecordKeeps ==
    ASSUME PathCacheInv, (\E p \in Pushed : record(p)) \/ Save
    PROVE  PathCacheInv'
<1> USE DEF PathCacheInv, PathCacheTyped, RepairLists
<1>1. CASE \E p \in Pushed : record(p)
  <2>1. PICK p \in Pushed : record(p)
    BY <1>1
  <2>2. data' \subseteq Pushed /\ new' \subseteq data'
    BY <2>1 DEF record
  <2>3. /\ due' = TRUE /\ repair' = new' /\ dismissed' = FALSE
        /\ phase = "up" /\ UNCHANGED <<stored, foreign, phase, old>>
    BY <2>1 DEF record, Notify
  <2>4. QED BY <2>2, <2>3
<1>2. CASE Save
  BY <1>2 DEF Save
<1>3. QED BY <1>1, <1>2

\* What an unload leaves behind: its snapshot joins those of earlier loads.
LEMMA LetGoKeeps ==
    ASSUME PathCacheInv, LetGo
    PROVE  PathCacheInv'
<1>1. IsFiniteSet(old') /\ Cardinality(old') <= MaxOld
  <2>1. CASE due
    BY <2>1, FS_AddElement DEF PathCacheInv, PathCacheTyped, LetGo, Handover
  <2>2. CASE ~due
    BY <2>2 DEF PathCacheInv, PathCacheTyped, LetGo, Handover
  <2>3. QED BY <2>1, <2>2
<1>2. old' \subseteq SUBSET Pushed
  BY DEF PathCacheInv, PathCacheTyped, LetGo, Handover
<1>3. QED
  BY <1>1, <1>2 DEF PathCacheInv, PathCacheTyped, RepairLists, LetGo

\* A save of an earlier load.
LEMMA SaveOldKeeps ==
    ASSUME PathCacheAssumption, PathCacheInv, NEW rows \in SUBSET Pushed, SaveOld(rows)
    PROVE  PathCacheInv'
<1>1. IsFiniteSet(old') /\ Cardinality(old') <= Cardinality(old)
  BY FS_Subset DEF PathCacheInv, PathCacheTyped, SaveOld
<1>2. Cardinality(old') \in Nat /\ Cardinality(old) \in Nat
  BY <1>1, FS_CardinalityType DEF PathCacheInv, PathCacheTyped
<1>3. Cardinality(old') <= MaxOld
  BY <1>1, <1>2 DEF PathCacheInv, PathCacheTyped, PathCacheAssumption
<1>4. QED
  BY <1>1, <1>3 DEF PathCacheInv, PathCacheTyped, RepairLists, SaveOld

\* Every step preserves the invariant.
LEMMA PathCacheNextInv ==
    ASSUME PathCacheAssumption
    PROVE  PathCacheInv /\ [PathCacheNext]_pathCacheVars => PathCacheInv'
<1> SUFFICES ASSUME PathCacheInv, [PathCacheNext]_pathCacheVars
             PROVE  PathCacheInv'
  OBVIOUS
<1>1. CASE UNCHANGED pathCacheVars
  BY <1>1 DEF pathCacheVars, PathCacheInv, PathCacheTyped, RepairLists
<1>2. QED
  BY <1>1, AroundKeeps, RecordKeeps, LetGoKeeps, SaveOldKeeps DEF PathCacheNext

\* The inductive invariant of the candidate paths.
THEOREM PathCacheInvariant ==
    ASSUME PathCacheAssumption PROVE PathCacheSpec => []PathCacheInv
<1>1. PathCacheInit => PathCacheInv
  <2>1. IsFiniteSet({}) /\ Cardinality({}) = 0
    BY FS_EmptySet
  <2>2. Cardinality({}) <= MaxOld
    BY <2>1 DEF PathCacheAssumption
  <2>3. QED BY <2>1, <2>2 DEF PathCacheInit, PathCacheInv, PathCacheTyped
<1>2. QED BY <1>1, PathCacheNextInv, PTL DEF PathCacheSpec

\* While the entry runs its Repair lists what is new since the setup, for any paths
\* and any interleaving of reports, confirmations, reloads and crashes
\* (__init__.py:211-234, 589-593).
THEOREM RepairListsNew ==
    ASSUME PathCacheAssumption PROVE PathCacheSpec => []RepairIsCurrent
<1>1. PathCacheInv => RepairIsCurrent
  BY DEF PathCacheInv, PathCacheTyped, RepairLists, RepairIsCurrent
<1>2. QED BY <1>1, PathCacheInvariant, PTL

\* A path that some Store has yet to write: the one in use, or one that an earlier
\* load left behind.
Waits(p) == (due /\ p \in data) \/ \E rows \in old : p \in rows

\* No step takes a path from the Stores but by writing it, or with Home Assistant.
NoneForgotten ==
    [][\A p \in Pushed : Waits(p) => Waits(p)' \/ p \in stored' \/ phase' = "dead"]_pathCacheVars

\* A path that waits for its save is never forgotten, whatever reloads and failed
\* setups come between: it waits until it is written or Home Assistant dies
\* (observed_path_cache.py:173-205; with the timers' fairness, NewPathsAreWritten).
THEOREM WaitingIsKept ==
    ASSUME PathCacheAssumption PROVE PathCacheSpec => NoneForgotten
<1>1. ASSUME PathCacheInv, [PathCacheNext]_pathCacheVars, NEW p \in Pushed, Waits(p)
      PROVE  Waits(p)' \/ p \in stored' \/ phase' = "dead"
  <2>1. CASE Load \/ Up \/ Confirm \/ Crash \/ Boot \/ ForeignLoad \/ ForeignSave
             \/ UNCHANGED pathCacheVars
    BY <1>1, <2>1
       DEF Load, Up, Confirm, Crash, Boot, ForeignLoad, ForeignSave, pathCacheVars, Waits,
           PathCacheInv
  <2>2. CASE Save \/ LetGo \/ \E q \in Pushed : record(q)
    BY <1>1, <2>2 DEF Save, LetGo, Handover, record, Waits
  <2>3. CASE \E rows \in SUBSET Pushed : SaveOld(rows)
    BY <1>1, <2>3 DEF SaveOld, Waits
  <2>4. QED BY <1>1, <2>1, <2>2, <2>3 DEF PathCacheNext
<1>2. PathCacheInv /\ [PathCacheNext]_pathCacheVars =>
        [\A p \in Pushed :
             Waits(p) => Waits(p)' \/ p \in stored' \/ phase' = "dead"]_pathCacheVars
  BY <1>1
<1>3. QED
  BY <1>2, PathCacheInvariant, PTL DEF PathCacheSpec, NoneForgotten


-----------------------------------------------------------------------------
(* Cloud *)

\* One call at most probes, its request is under way and signed with the active
\* pair; without a probe that pair is the seed or one that signed.
ProbeInv ==
    /\ \A c \in Callers :
          turn[c] > 0 => status[c] = "sent" /\ probed = TRUE /\ active = signed[c]
    /\ \A b, c \in Callers : turn[b] > 0 /\ turn[c] > 0 => b = c

CloudInv ==
    /\ turn \in [Callers -> Nat]
    /\ status \in [Callers -> {"idle", "sent", "done"}]
    /\ signed \in [Callers -> Pairs]
    /\ ProbeInv
    /\ AlternateOnlyIfSigned

\* The pairs a probe tries are numbered from 1.
LEMMA PairsAreNumbered ==
    ASSUME NEW c \in Callers, turn[c] \in Nat, NEW i \in NextPair(c)
    PROVE  i \in Nat /\ i > 0 /\ Combos[i] \in Pairs
<1>1. Len(Combos) = 3
  BY DEF Combos
<1>2. i \in 1..Len(Combos)
  BY DEF NextPair
<1>3. i \in Nat /\ i > 0
  BY <1>1, <1>2
<1>4. Combos[i] \in Pairs
  BY <1>2 DEF Pairs
<1>5. QED BY <1>3, <1>4

\* A request is signed with the active pair; no probe is touched.
LEMMA AskKeeps ==
    ASSUME CloudInv, active \in Pairs, NEW c \in Callers, NEW q, Ask(c, q)
    PROVE  CloudInv'
<1>1. turn[c] = 0
  BY DEF Ask, CloudInv, ProbeInv
<1>2. signed' \in [Callers -> Pairs] /\ \A b \in Callers \ {c} : signed'[b] = signed[b]
  BY DEF Ask, _sign, CloudInv
<1>3. /\ status' \in [Callers -> {"idle", "sent", "done"}]
      /\ \A b \in Callers \ {c} : status'[b] = status[b]
  BY DEF Ask, CloudInv
<1>4. UNCHANGED <<accepts, seed, active, probed, turn>>
  BY DEF Ask
<1>5. QED
  BY <1>1, <1>2, <1>3, <1>4 DEF CloudInv, ProbeInv, AlternateOnlyIfSigned, Probing

\* The end of a call whose request was under way: it probes no more, and the pair
\* it leaves active is right if it was the one that probed.
LEMMA EndKeeps ==
    ASSUME CloudInv, NEW c \in Callers,
           status' = [status EXCEPT ![c] = "done"],
           turn' = [turn EXCEPT ![c] = 0],
           UNCHANGED <<accepts, seed, probed, signed>>,
           turn[c] = 0 => active' = active,
           turn[c] > 0 => active' = seed \/ active' \in accepts
    PROVE  CloudInv'
<1>1. turn' \in [Callers -> Nat] /\ status' \in [Callers -> {"idle", "sent", "done"}]
  BY DEF CloudInv
<1>2. turn'[c] = 0 /\ \A b \in Callers \ {c} : turn'[b] = turn[b] /\ status'[b] = status[b]
  BY DEF CloudInv
<1>3. CASE turn[c] = 0
  BY <1>1, <1>2, <1>3 DEF CloudInv, ProbeInv, AlternateOnlyIfSigned, Probing
<1>4. CASE turn[c] > 0
  <2>1. \A b \in Callers : turn'[b] = 0
    BY <1>2, <1>4 DEF CloudInv, ProbeInv
  <2>2. QED
    BY <1>1, <1>4, <2>1 DEF CloudInv, ProbeInv, AlternateOnlyIfSigned
<1>5. QED BY <1>3, <1>4 DEF CloudInv

\* A reply, whichever way it ends its call.
LEMMA ReplyKeeps ==
    ASSUME CloudInv, NEW c \in Callers, Answered(c) \/ NotSigned(c) \/ Raised(c)
    PROVE  CloudInv'
<1>1. turn[c] \in Nat
  BY DEF CloudInv
<1>2. CASE Answered(c)
  BY <1>2, EndKeeps DEF Answered, CloudInv, ProbeInv
<1>3. CASE NotSigned(c)
  <2>1. /\ turn[c] = 0 => active' = active
        /\ turn[c] > 0 => active' = seed
    <3>1. active' = Restored(c)
      BY <1>3 DEF NotSigned
    <3>2. QED BY <1>1, <3>1 DEF Restored
  <2>2. /\ status' = [status EXCEPT ![c] = "done"]
        /\ turn' = [turn EXCEPT ![c] = 0]
        /\ UNCHANGED <<accepts, seed, probed, signed>>
    BY <1>3 DEF NotSigned
  <2>3. QED BY <2>1, <2>2, EndKeeps
<1>4. CASE Raised(c)
  <2>1. /\ turn[c] = 0 => active' = active
        /\ turn[c] > 0 => active' = seed
    BY <1>1, <1>4 DEF Raised, Restored
  <2>2. /\ status' = [status EXCEPT ![c] = "done"]
        /\ turn' = [turn EXCEPT ![c] = 0]
        /\ UNCHANGED <<accepts, seed, probed, signed>>
    BY <1>4 DEF Raised
  <2>3. QED BY <2>1, <2>2, EndKeeps
<1>5. QED BY <1>2, <1>3, <1>4

\* A probe begins, if there was none yet, or goes on with the next pair.
LEMMA ProbeKeeps ==
    ASSUME CloudInv, NEW c \in Callers, Probe(c)
    PROVE  CloudInv'
<1>1. PICK i \in NextPair(c) :
        /\ turn' = [turn EXCEPT ![c] = i]
        /\ active' = Combos[i]
        /\ _sign(c, Combos[i])
  BY DEF Probe
<1>2. i \in Nat /\ i > 0 /\ Combos[i] \in Pairs
  BY PairsAreNumbered DEF CloudInv
<1>3. \A b \in Callers \ {c} : turn[b] = 0
  BY DEF Probe, CloudInv, ProbeInv
<1>4. turn' \in [Callers -> Nat] /\ turn'[c] = i /\ \A b \in Callers \ {c} : turn'[b] = 0
  BY <1>1, <1>2, <1>3 DEF CloudInv
<1>5. signed' \in [Callers -> Pairs] /\ signed'[c] = active'
  BY <1>1, <1>2 DEF _sign, CloudInv
<1>6. probed' = TRUE /\ status' = status /\ status[c] = "sent"
  BY DEF Probe
<1>7. ProbeInv'
  BY <1>4, <1>5, <1>6 DEF ProbeInv
<1>8. AlternateOnlyIfSigned'
  BY <1>2, <1>4 DEF AlternateOnlyIfSigned, Probing
<1>9. QED BY <1>4, <1>5, <1>6, <1>7, <1>8 DEF CloudInv

\* The enrichment goes on to its next query.
LEMMA EnrichedKeeps == ASSUME CloudInv, Enriched PROVE CloudInv'
<1>1. /\ Enricher \in Callers /\ status[Enricher] = "done"
      /\ status' = [status EXCEPT ![Enricher] = "idle"]
      /\ UNCHANGED <<accepts, seed, active, probed, turn, signed>>
  BY DEF Enriched, Callers
<1>2. turn[Enricher] = 0
  BY <1>1 DEF CloudInv, ProbeInv
<1>3. QED
  BY <1>1, <1>2 DEF CloudInv, ProbeInv, AlternateOnlyIfSigned, Probing

\* The active pair is always a known one.
PairsKnown == seed \in Pairs /\ active \in Pairs

\* Every step keeps the invariant and the pairs known.
LEMMA CloudNextInv ==
    CloudInv /\ PairsKnown /\ [CloudNext]_cloudVars => CloudInv' /\ PairsKnown'
<1> SUFFICES ASSUME CloudInv, PairsKnown, [CloudNext]_cloudVars
             PROVE  CloudInv' /\ PairsKnown'
  OBVIOUS
<1>1. CASE UNCHANGED cloudVars
  BY <1>1 DEF cloudVars, CloudInv, ProbeInv, AlternateOnlyIfSigned, Probing, PairsKnown
<1>2. CASE Enrich \/ \E c \in Calls, q \in Queries : q.name \in Asked /\ Ask(c, q)
  <2>1. PICK c \in Callers : \E q : Ask(c, q)
    BY <1>2 DEF Enrich, Callers
  <2>2. PICK q : Ask(c, q)
    BY <2>1
  <2>3. QED
    BY <2>2, AskKeeps DEF PairsKnown, Ask
<1>3. CASE Enriched
  BY <1>3, EnrichedKeeps DEF Enriched, PairsKnown
<1>4. CASE \E c \in Callers : Answered(c) \/ NotSigned(c) \/ Raised(c)
  BY <1>4, ReplyKeeps DEF Answered, NotSigned, Raised, Restored, PairsKnown
<1>5. CASE \E c \in Callers : Probe(c)
  <2>1. PICK c \in Callers : Probe(c)
    BY <1>5
  <2>2. PairsKnown'
    BY <2>1, PairsAreNumbered DEF Probe, PairsKnown, CloudInv
  <2>3. QED BY <2>1, <2>2, ProbeKeeps
<1>6. QED BY <1>1, <1>2, <1>3, <1>4, <1>5 DEF CloudNext

\* The inductive invariant of a cloud client.
THEOREM CloudInvariant == CloudSpec => [](CloudInv /\ PairsKnown)
<1>1. CloudInit => CloudInv /\ PairsKnown
  BY DEF CloudInit, CloudInv, ProbeInv, AlternateOnlyIfSigned, Probing, PairsKnown
<1>2. QED BY <1>1, CloudNextInv, PTL DEF CloudSpec

\* A client that no longer probes signs with its seed or with a pair the server
\* accepts, for any number of calls, wherever errors and cancellations interrupt
\* the probe (cloud_client.py:465-476).
THEOREM ProbeLeavesGoodPair == CloudSpec => []AlternateOnlyIfSigned
<1>1. CloudInv => AlternateOnlyIfSigned
  BY DEF CloudInv
<1>2. QED BY <1>1, CloudInvariant, PTL


-----------------------------------------------------------------------------
(* Discovery *)

\* The browse: what it has found is what its resolvers recorded; when it is over,
\* no resolver runs any more and what was found has been returned.
BrowseInv ==
    /\ results \in [Hubs -> {NoPort} \cup Ports]
    /\ answered = {h \in Hubs : results[h] # NoPort}
    /\ window \in {"browsing", "gathering", "over"}
    /\ task \in [Services -> {"none", "resolving", "ended"}]
    /\ window = "over" =>
          returned = results /\ \A s \in Services : task[s] # "resolving"

\* The plugin's search: what it has merged of each hub is what it received; once it
\* has resolved, its socket is closed, its timer over and the result fixed.
SearchInv ==
    /\ services \in [Hubs -> [port : {NoPort} \cup Ports, id : BOOLEAN]]
    /\ said = services
    /\ timer \in BOOLEAN
    /\ timer => socket # "binding"
    /\ outcome = "resolved" => socket = "closed" /\ timer = FALSE /\ hubs = Listed

DiscoveryInv == port \in [Hubs -> Ports] /\ BrowseInv /\ SearchInv

\* The ports are numbers other than "no port".
LEMMA PortsAreReal == Ports = {1, 2} /\ NoPort \notin Ports
BY DEF Ports, NoPort

\* A resolver that records its hub.
LEMMA ResolveKeeps ==
    ASSUME DiscoveryAssumption, DiscoveryInv, NEW s \in Services, _resolve(s)
    PROVE  BrowseInv'
<1> DEFINE hub == Did[s]
<1>1. hub \in Hubs /\ port[hub] \in Ports
  BY DEF DiscoveryAssumption, DiscoveryInv
<1>2. window # "over" /\ UNCHANGED <<window, returned>>
  BY DEF _resolve, DiscoveryInv, BrowseInv
<1>3. task' \in [Services -> {"none", "resolving", "ended"}]
  BY DEF _resolve, DiscoveryInv, BrowseInv
<1>4. /\ results' \in [Hubs -> {NoPort} \cup Ports]
      /\ results'[hub] # NoPort
      /\ \A h \in Hubs \ {hub} : results'[h] = results[h]
  <2>1. CASE results[hub] = NoPort
    <3>1. results' = [results EXCEPT ![hub] = port[hub]]
      BY <2>1 DEF _resolve
    <3>2. QED BY <1>1, <3>1, PortsAreReal DEF DiscoveryInv, BrowseInv
  <2>2. CASE results[hub] # NoPort
    <3>1. results' = results
      BY <2>2 DEF _resolve
    <3>2. QED BY <2>2, <3>1 DEF DiscoveryInv, BrowseInv
  <2>3. QED BY <2>1, <2>2
<1>5. answered' = answered \cup {hub}
  BY DEF _resolve
<1>6. answered' = {h \in Hubs : results'[h] # NoPort}
  BY <1>1, <1>4, <1>5 DEF DiscoveryInv, BrowseInv
<1>7. QED BY <1>2, <1>3, <1>4, <1>6 DEF DiscoveryInv, BrowseInv

\* The other steps of the browse.
LEMMA BrowseKeeps ==
    ASSUME DiscoveryInv,
           Cancelled \/ Return \/ \E s \in Services : _on_change(s) \/ Unresolved(s)
    PROVE  BrowseInv'
<1>1. UNCHANGED <<results, answered>>
  BY DEF Cancelled, Return, _on_change, Unresolved
<1>2. task' \in [Services -> {"none", "resolving", "ended"}]
  BY DEF Cancelled, Return, _on_change, Unresolved, DiscoveryInv, BrowseInv
<1>3. CASE Cancelled
  BY <1>1, <1>2, <1>3 DEF Cancelled, DiscoveryInv, BrowseInv
<1>4. CASE Return
  BY <1>1, <1>2, <1>4 DEF Return, DiscoveryInv, BrowseInv
<1>5. CASE \E s \in Services : _on_change(s) \/ Unresolved(s)
  <2>1. window # "over" /\ UNCHANGED <<window, returned>>
    BY <1>5 DEF _on_change, Unresolved, DiscoveryInv, BrowseInv
  <2>2. QED BY <1>1, <1>2, <2>1 DEF DiscoveryInv, BrowseInv
<1>6. QED BY <1>3, <1>4, <1>5

\* A record that the plugin receives goes where it went before.
LEMMA RecordsKeeps ==
    ASSUME DiscoveryInv, NEW h \in Hubs, Records(h)
    PROVE  SearchInv'
<1>1. socket = "open" /\ UNCHANGED <<socket, timer, outcome>>
  BY DEF Records, Srv, Txt, A
<1>2. /\ services' \in [Hubs -> [port : {NoPort} \cup Ports, id : BOOLEAN]]
      /\ said' = services'
  BY DEF Records, Srv, Txt, A, DiscoveryInv, SearchInv
<1>3. QED BY <1>1, <1>2 DEF DiscoveryInv, SearchInv

\* The steps of its socket and of its timer.
LEMMA SearchKeeps ==
    ASSUME DiscoveryInv, Bound \/ finish \/ Error
    PROVE  SearchInv'
<1>1. UNCHANGED <<services, said, addresses>>
  BY DEF Bound, finish, Error
<1>2. CASE Bound
  BY <1>1, <1>2 DEF Bound, DiscoveryInv, SearchInv
<1>3. CASE finish
  <2>1. outcome' = "resolved" => hubs' = Listed'
    BY <1>1, <1>3 DEF finish, Listed
  <2>2. socket' = "closed" /\ timer' = FALSE
    BY <1>3 DEF finish
  <2>3. QED BY <1>1, <2>1, <2>2 DEF DiscoveryInv, SearchInv
<1>4. CASE Error
  BY <1>1, <1>4 DEF Error, DiscoveryInv, SearchInv
<1>5. QED BY <1>2, <1>3, <1>4

\* Every step preserves the invariant.
LEMMA DiscoveryNextInv ==
    ASSUME DiscoveryAssumption
    PROVE  DiscoveryInv /\ [DiscoveryNext]_discoveryVars => DiscoveryInv'
<1> SUFFICES ASSUME DiscoveryInv, [DiscoveryNext]_discoveryVars
             PROVE  DiscoveryInv'
  OBVIOUS
<1>1. ASSUME UNCHANGED ivars PROVE BrowseInv'
  BY <1>1 DEF ivars, DiscoveryInv, BrowseInv
<1>2. ASSUME UNCHANGED jvars PROVE SearchInv'
  BY <1>2 DEF jvars, DiscoveryInv, SearchInv, Listed
<1>3. CASE \E h \in Hubs : Reboot(h)
  <2>1. port' \in [Hubs -> Ports]
    BY <1>3, PortsAreReal DEF Reboot, DiscoveryInv
  <2>2. QED BY <1>1, <1>2, <1>3, <2>1 DEF Reboot, DiscoveryInv
<1>4. CASE \E s \in Services : _on_change(s) \/ _resolve(s) \/ Unresolved(s)
  <2>1. BrowseInv'
    BY <1>4, ResolveKeeps, BrowseKeeps
  <2>2. QED
    BY <1>2, <1>4, <2>1 DEF _on_change, _resolve, Unresolved, DiscoveryInv
<1>5. CASE Cancelled \/ Return
  BY <1>2, <1>5, BrowseKeeps DEF Cancelled, Return, DiscoveryInv
<1>6. CASE \E h \in Hubs : Records(h)
  BY <1>1, <1>6, RecordsKeeps DEF Records, Srv, Txt, A, DiscoveryInv
<1>7. CASE Bound \/ finish \/ Error
  BY <1>1, <1>7, SearchKeeps DEF Bound, finish, Error, DiscoveryInv
<1>8. CASE UNCHANGED discoveryVars
  BY <1>1, <1>2, <1>8 DEF discoveryVars, ivars, jvars, DiscoveryInv
<1>9. QED BY <1>3, <1>4, <1>5, <1>6, <1>7, <1>8 DEF DiscoveryNext

\* The inductive invariant of both searches.
THEOREM DiscoveryInvariant ==
    ASSUME DiscoveryAssumption PROVE DiscoverySpec => []DiscoveryInv
<1>1. DiscoveryInit => DiscoveryInv
  <2> SUFFICES ASSUME DiscoveryInit PROVE DiscoveryInv
    OBVIOUS
  <2>1. port \in [Hubs -> Ports]
    BY PortsAreReal DEF DiscoveryInit
  <2>2. BrowseInv
    <3>1. \A h \in Hubs : results[h] = NoPort
      BY DEF DiscoveryInit
    <3>2. answered = {h \in Hubs : results[h] # NoPort}
      BY <3>1 DEF DiscoveryInit
    <3>3. QED BY <3>2 DEF DiscoveryInit, BrowseInv
  <2>3. SearchInv
    BY DEF DiscoveryInit, SearchInv, Unheard
  <2>4. QED BY <2>1, <2>2, <2>3 DEF DiscoveryInv
<1>2. QED BY <1>1, DiscoveryNextInv, PTL DEF DiscoverySpec

\* Both searches find what was announced to them, for any hubs and services, in any
\* order of answers, reboots and errors (mdns.py:85-95, discovery.js:180-199).
THEOREM SearchesAreComplete ==
    ASSUME DiscoveryAssumption PROVE DiscoverySpec => []HubsAreFound
<1>1. DiscoveryInv => ResolvedAreReturned
  BY DEF DiscoveryInv, BrowseInv, ResolvedAreReturned
<1>2. DiscoveryInv => HubsAsHeard
  <2>1. {<<x.hub, x.port>> : x \in Listed} =
          {<<h, services[h].port>> :
              h \in {k \in Hubs : services[k].id /\ services[k].port # NoPort}}
    <3> DEFINE Heard == {k \in Hubs : services[k].id /\ services[k].port # NoPort}
               row(h) == [hub |-> h, port |-> services[h].port,
                          named |-> h \notin addresses]
    <3>1. Listed = {row(h) : h \in Heard}
      BY DEF Listed
    <3>2. \A h \in Heard : row(h).hub = h /\ row(h).port = services[h].port
      OBVIOUS
    <3> HIDE DEF row, Heard
    <3>3. {<<x.hub, x.port>> : x \in Listed} =
            {<<row(h).hub, row(h).port>> : h \in Heard}
      BY <3>1
    <3>4. {<<row(h).hub, row(h).port>> : h \in Heard} =
            {<<h, services[h].port>> : h \in Heard}
      BY <3>2
    <3>5. QED BY <3>3, <3>4 DEF Heard
  <2>2. QED BY <2>1 DEF DiscoveryInv, SearchInv, HubsAsHeard
<1>3. DiscoveryInv => HubsAreFound
  BY <1>1, <1>2 DEF HubsAreFound
<1>4. QED BY <1>3, DiscoveryInvariant, PTL


-----------------------------------------------------------------------------
(* Registry *)

\* The models of the packages that can be imported, of those before n and of all.
Before(n) == UNION {claims[p] : p \in {q \in Packages \ broken : q < n}}
Everything == UNION {claims[p] : p \in Packages \ broken}

\* The indices hold what comes before n.
Indexed(n) == display = Before(n) /\ traits = Before(n) /\ Before(n) \subseteq others

\* What a walker finds where it is in its walk.
InWalk(w) ==
    /\ pc[w] = "import" => reached[w] \in 1..(Length + 1) /\ Indexed(reached[w])
    /\ pc[w] \in {"validate", "display"} =>
          reached[w] \in Packages \ broken /\ Indexed(reached[w])
    /\ pc[w] = "index" =>
          /\ reached[w] \in Packages \ broken
          /\ display = Before(reached[w] + 1)
          /\ traits = Before(reached[w]) /\ Before(reached[w]) \subseteq others
    /\ pc[w] = "forget" => traits = {}

\* As long as no two walks have overlapped: one walker at most is in the middle of
\* a walk, none once the catalogue counts as discovered, and between walks nothing
\* is indexed or everything.
LoneInv ==
    /\ \A v, w \in Walkers : Walking(v) /\ Walking(w) => v = w
    /\ \A w \in Walkers : InWalk(w)
    /\ \A w \in Walkers : blamed[w] # 0 => AtFault(blamed[w])
    /\ others \subseteq Everything
    /\ discovered => Whole /\ \A w \in Walkers : ~Walking(w)
    /\ ~discovered /\ (\A w \in Walkers : ~Walking(w)) => display = {} /\ traits = {}

RegistryTyped ==
    /\ pc \in [Walkers -> WalkSteps \cup {"idle"}]
    /\ reached \in [Walkers -> Nat]
    /\ blamed \in [Walkers -> Nat]
    /\ discovered \in BOOLEAN /\ overlapped \in BOOLEAN

RegistryInv == RegistryTyped /\ (overlapped = FALSE => LoneInv)

\* What comes before a package, and before the one after it.
LEMMA BeforeGrows ==
    ASSUME RegistryAssumption, NEW n \in Packages
    PROVE  /\ n \in broken => Before(n + 1) = Before(n)
           /\ n \notin broken => Before(n + 1) = Before(n) \cup claims[n]
<1>1. {q \in Packages \ broken : q < n + 1} =
        {q \in Packages \ broken : q < n} \cup ({n} \ broken)
  BY DEF RegistryAssumption, Packages
<1>2. CASE n \in broken
  BY <1>1, <1>2 DEF Before
<1>3. CASE n \notin broken
  <2>1. {q \in Packages \ broken : q < n + 1} =
          {q \in Packages \ broken : q < n} \cup {n}
    BY <1>1, <1>3
  <2>2. QED BY <1>3, <2>1 DEF Before
<1>4. QED BY <1>2, <1>3

\* Nothing comes before the first package, and everything before the end.
LEMMA BeforeEnds ==
    ASSUME RegistryAssumption
    PROVE  Before(1) = {} /\ Before(Length + 1) = Everything
<1>1. {q \in Packages \ broken : q < 1} = {}
  BY DEF RegistryAssumption, Packages
<1>2. {q \in Packages \ broken : q < Length + 1} = Packages \ broken
  BY DEF RegistryAssumption, Packages
<1>3. QED BY <1>1, <1>2 DEF Before, Everything

\* What is indexed comes from a package that claims it.
LEMMA BeforeIsClaimed ==
    ASSUME NEW n \in Packages, NEW x \in Before(n)
    PROVE  \E q \in Packages \ broken : q < n /\ x \in claims[q]
BY DEF Before

\* A package that validation refuses is at fault.
LEMMA RefusedIsAtFault ==
    ASSUME RegistryAssumption, NEW n \in Packages, display = Before(n),
           claims[n] = {} \/ claims[n] \cap display # {}
    PROVE  AtFault(n)
<1>1. CASE claims[n] = {}
  BY <1>1 DEF AtFault
<1>2. CASE claims[n] \cap display # {}
  <2>1. PICK x : x \in claims[n] /\ x \in Before(n)
    BY <1>2
  <2>2. PICK q \in Packages \ broken : q < n /\ x \in claims[q]
    BY <2>1, BeforeIsClaimed
  <2>3. q \in 1..(n - 1)
    BY <2>2 DEF RegistryAssumption, Packages
  <2>4. claims[q] \cap claims[n] # {}
    BY <2>1, <2>2
  <2>5. QED BY <2>2, <2>3, <2>4 DEF AtFault
<1>3. QED BY <1>1, <1>2

\* A step of the one walker that is in the middle of a walk.
LEMMA LoneStep ==
    ASSUME RegistryTyped, LoneInv, NEW w \in Walkers, Walking(w),
           NEW s, pc' = [pc EXCEPT ![w] = s],
           UNCHANGED <<claims, broken>>,
           InWalk(w)',
           (\A v \in Walkers : blamed[v] # 0 => AtFault(blamed[v]))',
           others' \subseteq Everything,
           discovered' => Whole' /\ s = "idle",
           ~discovered' /\ s = "idle" => display' = {} /\ traits' = {},
           s # "start"
    PROVE  LoneInv'
<1>1. pc'[w] = s /\ \A v \in Walkers \ {w} : pc'[v] = pc[v]
  BY DEF RegistryTyped
<1>2. \A v \in Walkers \ {w} : ~Walking(v)
  BY DEF LoneInv
<1>3. \A v \in Walkers \ {w} : ~Walking(v)' /\ InWalk(v)'
  BY <1>1, <1>2 DEF Walking, InWalk
<1>4. s = "idle" <=> ~Walking(w)'
  BY <1>1 DEF Walking
<1>5. Everything' = Everything
  BY DEF Everything
<1>6. \A u, v \in Walkers : Walking(u)' /\ Walking(v)' => u = v
  BY <1>3
<1>7. \A v \in Walkers : InWalk(v)'
  BY <1>3
<1>8. discovered' => \A v \in Walkers : ~Walking(v)'
  BY <1>3, <1>4
<1>9. ~discovered' /\ (\A v \in Walkers : ~Walking(v)') => display' = {} /\ traits' = {}
  BY <1>4
<1>10. QED BY <1>5, <1>6, <1>7, <1>8, <1>9 DEF LoneInv

\* A package is at fault whatever the walkers do.
LEMMA FaultStays ==
    ASSUME UNCHANGED <<claims, broken>>, NEW n
    PROVE  AtFault(n)' <=> AtFault(n)
BY DEF AtFault

\* What comes before a package is there whatever the walkers do.
LEMMA BeforeStays ==
    ASSUME UNCHANGED <<claims, broken>>, NEW n
    PROVE  Before(n)' = Before(n)
BY DEF Before


\* Where the indices stand is the same before and after a step that leaves them.
LEMMA IndexedStays ==
    ASSUME UNCHANGED <<claims, broken, display, traits, others>>, NEW n, Indexed(n)
    PROVE  Indexed(n)'
BY BeforeStays DEF Indexed

\* Nobody else's failure is touched.
LEMMA BlamedStays ==
    ASSUME LoneInv, UNCHANGED <<claims, broken, blamed>>
    PROVE  (\A v \in Walkers : blamed[v] # 0 => AtFault(blamed[v]))'
BY DEF LoneInv, AtFault

\* The walk goes to the next package, or is over.
LEMMA ImportKeeps ==
    ASSUME RegistryAssumption, RegistryTyped, LoneInv, NEW w \in Walkers, Import(w)
    PROVE  LoneInv'
<1>1. /\ pc[w] = "import" /\ Walking(w)
      /\ UNCHANGED <<claims, broken, display, traits, others, blamed, calls, overlapped>>
  BY DEF Import, Walking
<1>2. discovered = FALSE
  BY <1>1 DEF LoneInv, RegistryTyped
<1>3. PICK n \in 1..(Length + 1) : reached[w] = n /\ Indexed(n)
  BY <1>1 DEF LoneInv, InWalk
<1>4. Indexed(n)'
  BY <1>1, <1>3, IndexedStays
<1>5. (\A v \in Walkers : blamed[v] # 0 => AtFault(blamed[v]))'
  BY <1>1, BlamedStays
<1>6. others' \subseteq Everything
  BY <1>1 DEF LoneInv
<1>7. CASE n > Length
  <2>1. n = Length + 1
    BY <1>7 DEF RegistryAssumption
  <2>2. discovered' = TRUE /\ pc' = [pc EXCEPT ![w] = "idle"] /\ reached' = reached
    BY <1>3, <1>7 DEF Import
  <2>3. Whole
    BY <1>3, <2>1, BeforeEnds DEF LoneInv, Whole, Indexed, Everything
  <2>4. Whole'
    BY <1>1, <2>3 DEF Whole
  <2>5. pc'[w] = "idle"
    BY <2>2 DEF RegistryTyped
  <2>6. InWalk(w)'
    BY <2>5 DEF InWalk
  <2>7. QED BY <1>1, <1>5, <1>6, <2>2, <2>4, <2>6, LoneStep
<1>8. CASE n \in Packages /\ n \in broken
  <2>1. reached' = [reached EXCEPT ![w] = n + 1] /\ pc' = pc /\ discovered' = discovered
    BY <1>3, <1>8 DEF Import, Packages, RegistryAssumption
  <2>2. pc'[w] = "import" /\ reached'[w] = n + 1 /\ pc' = [pc EXCEPT ![w] = "import"]
    BY <1>1, <2>1 DEF RegistryTyped
  <2>3. n + 1 \in 1..(Length + 1)
    BY <1>8 DEF Packages, RegistryAssumption
  <2>4. Indexed(n + 1)
    BY <1>3, <1>8, BeforeGrows DEF Indexed
  <2>5. Indexed(n + 1)'
    BY <1>1, <2>4, IndexedStays
  <2>6. InWalk(w)'
    BY <2>2, <2>3, <2>5 DEF InWalk
  <2>7. discovered' = FALSE
    BY <1>2, <2>1
  <2>8. QED BY <1>1, <1>5, <1>6, <2>2, <2>6, <2>7, LoneStep
<1>9. CASE n \in Packages /\ n \notin broken
  <2>1. /\ pc' = [pc EXCEPT ![w] = "validate"]
        /\ reached' = reached /\ discovered' = discovered
    BY <1>3, <1>9 DEF Import, Packages, RegistryAssumption
  <2>2. pc'[w] = "validate" /\ reached'[w] = n
    BY <1>3, <2>1 DEF RegistryTyped
  <2>3. InWalk(w)'
    BY <1>1, <1>4, <1>9, <2>2 DEF InWalk
  <2>4. discovered' = FALSE
    BY <1>2, <2>1
  <2>5. QED BY <1>1, <1>5, <1>6, <2>1, <2>3, <2>4, LoneStep
<1>10. QED
  BY <1>3, <1>7, <1>8, <1>9 DEF Packages, RegistryAssumption

\* A package is accepted, or blamed.
LEMMA ValidateKeeps ==
    ASSUME RegistryAssumption, RegistryTyped, LoneInv, NEW w \in Walkers, Validate(w)
    PROVE  LoneInv'
<1>1. /\ pc[w] = "validate" /\ Walking(w)
      /\ UNCHANGED <<claims, broken, discovered, display, traits, others, reached>>
  BY DEF Validate, Walking
<1>2. discovered = FALSE
  BY <1>1 DEF LoneInv, RegistryTyped
<1>3. PICK n \in Packages \ broken : reached[w] = n /\ Indexed(n)
  BY <1>1 DEF LoneInv, InWalk
<1>4. Indexed(n)'
  BY <1>1, <1>3, IndexedStays
<1>5. others' \subseteq Everything
  BY <1>1 DEF LoneInv
<1>6. CASE claims[n] # {} /\ claims[n] \cap display = {}
  <2>1. pc' = [pc EXCEPT ![w] = "display"] /\ blamed' = blamed
    BY <1>3, <1>6 DEF Validate, RegistryTyped
  <2>2. pc'[w] = "display"
    BY <2>1 DEF RegistryTyped
  <2>3. InWalk(w)'
    BY <1>1, <1>3, <1>4, <2>2 DEF InWalk
  <2>4. (\A v \in Walkers : blamed[v] # 0 => AtFault(blamed[v]))'
    BY <1>1, <2>1, BlamedStays
  <2>5. QED BY <1>1, <1>2, <1>5, <2>1, <2>3, <2>4, LoneStep
<1>7. CASE claims[n] = {} \/ claims[n] \cap display # {}
  <2>1. pc' = [pc EXCEPT ![w] = "clear"] /\ blamed' = [blamed EXCEPT ![w] = n]
    BY <1>3, <1>7 DEF Validate
  <2>2. pc'[w] = "clear"
    BY <2>1 DEF RegistryTyped
  <2>3. InWalk(w)'
    BY <2>2 DEF InWalk
  <2>4. AtFault(n)
    BY <1>3, <1>7, RefusedIsAtFault DEF Indexed
  <2>5. \A v \in Walkers : blamed'[v] # 0 => AtFault(blamed'[v])
    BY <2>1, <2>4 DEF LoneInv, RegistryTyped
  <2>6. (\A v \in Walkers : blamed[v] # 0 => AtFault(blamed[v]))'
    BY <1>1, <2>5 DEF AtFault
  <2>7. QED BY <1>1, <1>2, <1>5, <2>1, <2>3, <2>6, LoneStep
<1>8. QED BY <1>6, <1>7

\* The indices of a package that was accepted.
LEMMA PopulateKeeps ==
    ASSUME RegistryAssumption, RegistryTyped, LoneInv, NEW w \in Walkers,
           PopulateDisplay(w) \/ PopulateIndices(w)
    PROVE  LoneInv'
<1>1. /\ Walking(w) /\ pc[w] \in {"display", "index"}
      /\ UNCHANGED <<claims, broken, discovered, blamed>>
  BY DEF PopulateDisplay, PopulateIndices, Walking
<1>2. discovered = FALSE
  BY <1>1 DEF LoneInv, RegistryTyped
<1>3. (\A v \in Walkers : blamed[v] # 0 => AtFault(blamed[v]))'
  BY <1>1, BlamedStays
<1>4. PICK n \in Packages \ broken : reached[w] = n
  BY <1>1 DEF LoneInv, InWalk
<1>5. Before(n + 1) = Before(n) \cup claims[n] /\ claims[n] \subseteq Everything
  BY BeforeGrows DEF Everything
<1>6. Before(n)' = Before(n) /\ Before(n + 1)' = Before(n + 1)
  BY <1>1, BeforeStays
<1>7. CASE PopulateDisplay(w)
  <2>1. /\ display' = display \cup claims[n] /\ UNCHANGED <<traits, others, reached>>
        /\ pc' = [pc EXCEPT ![w] = "index"]
    BY <1>4, <1>7 DEF PopulateDisplay
  <2>2. pc'[w] = "index" /\ reached'[w] = n
    BY <1>4, <2>1 DEF RegistryTyped
  <2>3. Indexed(n)
    BY <1>4, <1>7 DEF PopulateDisplay, LoneInv, InWalk
  <2>4. display' = Before(n + 1)' /\ traits' = Before(n)' /\ Before(n)' \subseteq others'
    BY <1>5, <1>6, <2>1, <2>3 DEF Indexed
  <2>5. InWalk(w)'
    BY <1>1, <2>2, <2>4 DEF InWalk
  <2>6. others' \subseteq Everything
    BY <2>1 DEF LoneInv
  <2>7. QED BY <1>1, <1>2, <1>3, <2>1, <2>5, <2>6, LoneStep
<1>8. CASE PopulateIndices(w)
  <2>1. /\ traits' = traits \cup claims[n] /\ others' = others \cup claims[n]
        /\ reached' = [reached EXCEPT ![w] = n + 1]
        /\ pc' = [pc EXCEPT ![w] = "import"] /\ UNCHANGED display
    BY <1>4, <1>8 DEF PopulateIndices
  <2>2. pc'[w] = "import" /\ reached'[w] = n + 1
    BY <2>1 DEF RegistryTyped
  <2>3. display = Before(n + 1) /\ traits = Before(n) /\ Before(n) \subseteq others
    BY <1>4, <1>8 DEF PopulateIndices, LoneInv, InWalk
  <2>4. Indexed(n + 1)'
    BY <1>5, <1>6, <2>1, <2>3 DEF Indexed
  <2>5. n + 1 \in 1..(Length + 1)
    BY DEF Packages, RegistryAssumption
  <2>6. InWalk(w)'
    BY <2>2, <2>4, <2>5 DEF InWalk
  <2>7. others' \subseteq Everything
    BY <1>5, <2>1 DEF LoneInv
  <2>8. QED BY <1>1, <1>2, <1>3, <2>1, <2>6, <2>7, LoneStep
<1>9. QED BY <1>7, <1>8

\* The two halves of clearing.
LEMMA ClearKeeps ==
    ASSUME RegistryAssumption, RegistryTyped, LoneInv, NEW w \in Walkers,
           ClearTraits(w) \/ ClearDisplay(w)
    PROVE  LoneInv'
<1>1. /\ Walking(w) /\ UNCHANGED <<claims, broken, discovered, others, blamed>>
  BY DEF ClearTraits, ClearDisplay, Walking
<1>2. discovered = FALSE
  BY <1>1 DEF LoneInv, RegistryTyped
<1>3. (\A v \in Walkers : blamed[v] # 0 => AtFault(blamed[v]))'
  BY <1>1, BlamedStays
<1>4. others' \subseteq Everything
  BY <1>1 DEF LoneInv
<1>5. CASE ClearTraits(w)
  <2>1. pc' = [pc EXCEPT ![w] = "forget"] /\ traits' = {}
    BY <1>5 DEF ClearTraits
  <2>2. pc'[w] = "forget"
    BY <2>1 DEF RegistryTyped
  <2>3. InWalk(w)'
    BY <2>1, <2>2 DEF InWalk
  <2>4. QED BY <1>1, <1>2, <1>3, <1>4, <2>1, <2>3, LoneStep
<1>6. CASE ClearDisplay(w)
  <2>1. /\ pc' = [pc EXCEPT ![w] = "idle"]
        /\ display' = {} /\ traits' = traits /\ traits = {}
    BY <1>6 DEF ClearDisplay, Cleared, LoneInv, InWalk
  <2>2. pc'[w] = "idle"
    BY <2>1 DEF RegistryTyped
  <2>3. InWalk(w)'
    BY <2>2 DEF InWalk
  <2>4. QED BY <1>1, <1>2, <1>3, <1>4, <2>1, <2>3, LoneStep
<1>7. QED BY <1>5, <1>6


\* A walker that stays outside the walk changes nothing for the one inside.
LEMMA OutsideKeeps ==
    ASSUME RegistryTyped, LoneInv, NEW w \in Walkers, ~Walking(w),
           NEW s \in {"idle", "start"}, pc' = [pc EXCEPT ![w] = s],
           UNCHANGED <<claims, broken, discovered, display, traits, others>>,
           \A v \in Walkers : pc'[v] \notin {"idle", "start"} => reached'[v] = reached[v],
           \A v \in Walkers : blamed'[v] \in {0, blamed[v]}
    PROVE  LoneInv'
<1>1. pc'[w] = s /\ \A v \in Walkers \ {w} : pc'[v] = pc[v]
  BY DEF RegistryTyped
<1>2. \A v \in Walkers : Walking(v)' <=> Walking(v)
  BY <1>1 DEF Walking
<1>3. ASSUME NEW v \in Walkers, Walking(v) PROVE InWalk(v)'
  <2>1. pc'[v] = pc[v] /\ reached'[v] = reached[v] /\ InWalk(v)
    BY <1>1, <1>3 DEF Walking, LoneInv
  <2>2. \A n : Before(n)' = Before(n)
    BY DEF Before
  <2>3. \A n : Indexed(n)' <=> Indexed(n)
    BY <2>2 DEF Indexed
  <2>4. PICK n : n = reached[v]
    OBVIOUS
  <2>5. Before(n)' = Before(n) /\ Before(n + 1)' = Before(n + 1)
    BY <2>2
  <2>6. QED BY <2>1, <2>3, <2>4, <2>5 DEF InWalk
<1>4. ASSUME NEW v \in Walkers, ~Walking(v) PROVE InWalk(v)'
  BY <1>1, <1>4 DEF Walking, InWalk
<1>5. (\A v \in Walkers : blamed[v] # 0 => AtFault(blamed[v]))'
  <2>1. \A v \in Walkers : blamed'[v] # 0 => AtFault(blamed'[v])
    BY DEF LoneInv
  <2>2. QED BY <2>1 DEF AtFault
<1>6. Whole' <=> Whole
  BY DEF Whole
<1>7. Everything' = Everything
  BY DEF Everything
<1>8. QED BY <1>2, <1>3, <1>4, <1>5, <1>6, <1>7 DEF LoneInv

\* The walk begins where nobody else is in the middle of one.
LEMMA StartKeeps ==
    ASSUME RegistryAssumption, RegistryTyped, LoneInv, NEW w \in Walkers, Start(w),
           overlapped' = FALSE
    PROVE  LoneInv'
<1>1. /\ pc[w] = "start" /\ ~Walking(w)
      /\ UNCHANGED <<claims, broken, discovered, display, traits, others, blamed>>
      /\ reached' = [reached EXCEPT ![w] = 1]
  BY DEF Start, Walking
<1>2. CASE discovered = TRUE
  <2>1. pc' = [pc EXCEPT ![w] = "idle"]
    BY <1>2 DEF Start
  <2>2. \A v \in Walkers : pc'[v] \notin {"idle", "start"} => reached'[v] = reached[v]
    BY <1>1, <2>1 DEF RegistryTyped
  <2>3. QED BY <1>1, <2>1, <2>2, OutsideKeeps
<1>3. CASE discovered = FALSE
  <2>1. pc' = [pc EXCEPT ![w] = "import"]
    BY <1>3 DEF Start
  <2>2. \A v \in Walkers : ~Walking(v)
    BY <1>3 DEF Start
  <2>3. pc'[w] = "import" /\ reached'[w] = 1 /\ \A v \in Walkers \ {w} : ~Walking(v)'
    BY <1>1, <2>1, <2>2 DEF RegistryTyped, Walking
  <2>4. display' = {} /\ traits' = {}
    BY <1>1, <1>3, <2>2 DEF LoneInv
  <2>5. Before(1)' = {}
    BY <1>1, BeforeEnds, BeforeStays
  <2>6. Indexed(1)'
    BY <2>4, <2>5 DEF Indexed
  <2>7. 1 \in 1..(Length + 1)
    BY DEF RegistryAssumption
  <2>8. InWalk(w)'
    BY <2>3, <2>6, <2>7 DEF InWalk
  <2>9. \A v \in Walkers : InWalk(v)'
    BY <2>3, <2>8 DEF InWalk, Walking
  <2>10. (\A v \in Walkers : blamed[v] # 0 => AtFault(blamed[v]))'
    BY <1>1, BlamedStays
  <2>11. others' \subseteq Everything'
    BY <1>1 DEF LoneInv, Everything
  <2>12. Walking(w)' /\ \A u, v \in Walkers : Walking(u)' /\ Walking(v)' => u = v
    BY <2>3 DEF Walking
  <2>13. discovered' = FALSE
    BY <1>1, <1>3
  <2>14. QED BY <2>9, <2>10, <2>11, <2>12, <2>13 DEF LoneInv
<1>4. QED BY <1>2, <1>3 DEF RegistryTyped

\* A call that finds the catalogue discovered, or leaves a job to the executor.
LEMMA CallKeepsLone ==
    ASSUME RegistryTyped, LoneInv, NEW w \in Walkers, Call(w)
    PROVE  LoneInv'
<1>1. PICK s \in {"idle", "start"} : pc' = [pc EXCEPT ![w] = s]
  BY DEF Call
<1>2. /\ ~Walking(w)
      /\ UNCHANGED <<claims, broken, discovered, display, traits, others, reached>>
  BY DEF Call, Walking
<1>3. \A v \in Walkers : blamed'[v] \in {0, blamed[v]}
  BY DEF Call, RegistryTyped
<1>4. QED BY <1>1, <1>2, <1>3, OutsideKeeps

\* The types, whether walks overlap or not.
LEMMA RegistryTypes ==
    ASSUME RegistryAssumption, RegistryTyped, [RegistryNext]_registryVars
    PROVE  RegistryTyped'
<1>1. CASE UNCHANGED registryVars
  BY <1>1 DEF registryVars, RegistryTyped
<1>2. ASSUME NEW w \in Walkers, Call(w) \/ Start(w) PROVE RegistryTyped'
  <2>1. pc' \in [Walkers -> WalkSteps \cup {"idle"}]
    BY <1>2 DEF Call, Start, RegistryTyped, WalkSteps
  <2>2. reached' \in [Walkers -> Nat] /\ blamed' \in [Walkers -> Nat]
    BY <1>2 DEF Call, Start, RegistryTyped
  <2>3. discovered' \in BOOLEAN /\ overlapped' \in BOOLEAN
    BY <1>2 DEF Call, Start, RegistryTyped
  <2>4. QED BY <2>1, <2>2, <2>3 DEF RegistryTyped
<1>3. ASSUME NEW w \in Walkers, Import(w) PROVE RegistryTyped'
  <2>1. pc' \in [Walkers -> WalkSteps \cup {"idle"}]
    BY <1>3 DEF Import, RegistryTyped, WalkSteps
  <2>2. reached' \in [Walkers -> Nat] /\ blamed' \in [Walkers -> Nat]
    BY <1>3 DEF Import, RegistryTyped
  <2>3. discovered' \in BOOLEAN /\ overlapped' \in BOOLEAN
    BY <1>3 DEF Import, RegistryTyped
  <2>4. QED BY <2>1, <2>2, <2>3 DEF RegistryTyped
<1>4. ASSUME NEW w \in Walkers,
             Validate(w) \/ PopulateDisplay(w) \/ PopulateIndices(w) \/ ClearTraits(w)
               \/ ClearDisplay(w)
      PROVE  RegistryTyped'
  <2>1. pc' \in [Walkers -> WalkSteps \cup {"idle"}]
    BY <1>4 DEF Validate, PopulateDisplay, PopulateIndices, ClearTraits, ClearDisplay,
                RegistryTyped, WalkSteps
  <2>2. reached' \in [Walkers -> Nat]
    BY <1>4 DEF Validate, PopulateDisplay, PopulateIndices, ClearTraits, ClearDisplay,
                RegistryTyped
  <2>3. blamed' \in [Walkers -> Nat]
    BY <1>4 DEF Validate, PopulateDisplay, PopulateIndices, ClearTraits, ClearDisplay,
                RegistryTyped
  <2>4. UNCHANGED <<discovered, overlapped>>
    BY <1>4 DEF Validate, PopulateDisplay, PopulateIndices, ClearTraits, ClearDisplay
  <2>5. QED BY <2>1, <2>2, <2>3, <2>4 DEF RegistryTyped
<1>5. QED BY <1>1, <1>2, <1>3, <1>4 DEF RegistryNext

\* Every step preserves the invariant.
LEMMA RegistryNextInv ==
    ASSUME RegistryAssumption
    PROVE  RegistryInv /\ [RegistryNext]_registryVars => RegistryInv'
<1> SUFFICES ASSUME RegistryInv, [RegistryNext]_registryVars, overlapped' = FALSE
             PROVE  LoneInv'
  BY RegistryTypes DEF RegistryInv
<1>1. RegistryTyped
  BY DEF RegistryInv
<1>2. overlapped = FALSE
  BY <1>1 DEF RegistryNext, registryVars, RegistryTyped, Call, Start, Import, Validate,
         PopulateDisplay, PopulateIndices, ClearTraits, ClearDisplay
<1>3. LoneInv
  BY <1>2 DEF RegistryInv
<1>4. CASE UNCHANGED registryVars
  <2>1. \A n : Before(n)' = Before(n)
    BY <1>4 DEF Before, registryVars
  <2>2. QED
    BY <1>3, <1>4 DEF registryVars, LoneInv, InWalk, Indexed, Before, Everything, Whole,
                      AtFault, Walking
<1>5. QED
  BY <1>1, <1>3, <1>4, CallKeepsLone, StartKeeps, ImportKeeps, ValidateKeeps,
     PopulateKeeps, ClearKeeps DEF RegistryNext

\* The inductive invariant of the catalogue's walk.
THEOREM RegistryInvariant ==
    ASSUME RegistryAssumption PROVE RegistrySpec => []RegistryInv
<1>1. RegistryInit => RegistryInv
  <2> SUFFICES ASSUME RegistryInit PROVE RegistryInv
    OBVIOUS
  <2>1. RegistryTyped
    BY DEF RegistryInit, RegistryTyped, WalkSteps
  <2>2. \A w \in Walkers : ~Walking(w) /\ InWalk(w) /\ blamed[w] = 0
    BY DEF RegistryInit, Walking, InWalk
  <2>3. QED BY <2>1, <2>2 DEF RegistryInit, RegistryInv, LoneInv
<1>2. QED BY <1>1, RegistryNextInv, PTL DEF RegistrySpec

\* A walk that has the catalogue to itself is right, for any packages and claims and
\* however many walks failed before it: a failure names a package at fault and
\* leaves nothing indexed, and what counts as discovered is whole
\* (registry.py:206-214).
THEOREM WalkAloneIsRight ==
    ASSUME RegistryAssumption PROVE RegistrySpec => []LoneWalkIsRight
<1>1. RegistryInv => LoneWalkIsRight
  BY DEF RegistryInv, RegistryTyped, LoneInv, LoneWalkIsRight
<1>2. QED BY <1>1, RegistryInvariant, PTL
=============================================================================
