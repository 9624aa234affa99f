----------------------------- MODULE Onboarding -----------------------------
(***************************************************************************)
(* AqaraLanLinkConfigFlow and AqaraLanLinkOptionsFlow                      *)
(* (custom_components/aqara_lanlink/config_flow.py:128-948): how a tunnel  *)
(* host becomes a config entry and how its credentials and its camera      *)
(* options change, for ONE hub and several wizards at once.  The hub moves *)
(* to another address and stops accepting tokens while a wizard is open;   *)
(* the running integration writes a rediscovered address into the entry    *)
(* (__init__.py:537-551).                                                  *)
(***************************************************************************)
EXTENDS FiniteSets, Naturals

CONSTANTS
    Flows,      \* wizards, each run once
    Hosts,      \* addresses
    Safe,       \* those is_safe_host accepts
    Creds       \* (user id, token) pairs

OnboardingAssumption == Safe \subseteq Hosts

None == "none"
Steps == {"start", "user", "credentials", "checkin", "stopping", "confirm",
          "creating", "update", "over"}

VARIABLES
    entries,    \* config entries of the hub, each with the wizard it is from
    step,       \* per wizard, the form it shows or what it awaits
    target,     \* _reauth_entry: the wizard that made it, or None for a new one
    found,      \* _discovered: the address in the selector, None: manual form
    addr,       \* _hub_ip
    cred,       \* credentials typed or logged in with
    model,      \* _hub_model
    at,         \* where the hub is
    accepted,   \* the pairs it accepts
    passed      \* the pairs it has accepted at a checkin

onboardingVars ==
    <<entries, step, target, found, addr, cred, model, at, accepted, passed>>
wizard == <<step, target, found, addr, cred, model>>

Models == {"default", "camera"}
Entry == [by : Flows, host : Hosts, cred : Creds, model : Models,
          camera : Hosts \cup {None}]

OnboardingTypeOK ==
    /\ entries \subseteq Entry
    /\ step \in [Flows -> Steps]
    /\ target \in [Flows -> Flows \cup {None}]
    /\ {found, addr} \subseteq [Flows -> Hosts \cup {None}]
    /\ cred \in [Flows -> Creds \cup {None}]
    /\ model \in [Flows -> Models]
    /\ at \in Safe
    /\ {accepted, passed} \subseteq SUBSET Creds

OnboardingInit ==
    /\ entries = {}
    /\ step = [f \in Flows |-> "start"]
    /\ target = [f \in Flows |-> None]
    /\ found = [f \in Flows |-> None]
    /\ addr = [f \in Flows |-> None]
    /\ cred = [f \in Flows |-> None]
    /\ model = [f \in Flows |-> "default"]
    /\ at \in Safe
    /\ accepted = Creds
    /\ passed = {}

Goto(f, s) == step' = [step EXCEPT ![f] = s]

-----------------------------------------------------------------------------
(* The wizard for a new hub *)

\* _discover_tunnel_hosts: only hosts that pass the probe; any failure, or a
\* host missed, leaves the manual form.
async_step_user(f) ==
    /\ step[f] = "start"
    /\ \E h \in {None, at} : found' = [found EXCEPT ![f] = h]
    /\ Goto(f, "user")
    /\ UNCHANGED <<entries, target, addr, cred, model, at, accepted, passed>>

\* The selector's choice, as resolved when the form was rendered.
SelectHub(f) ==
    /\ step[f] = "user" /\ found[f] # None
    /\ addr' = [addr EXCEPT ![f] = found[f]]
    /\ Goto(f, "credentials")
    /\ UNCHANGED <<entries, target, found, cred, model, at, accepted, passed>>

\* What a typed address passes: its form, then the probe's handshake.
Probed(h) == h \in Safe /\ h = at

\* A typed address; every other outcome of the checks shows the form again.
EnterHub(f, h) ==
    /\ step[f] = "user" /\ found[f] = None
    /\ Probed(h)
    /\ addr' = [addr EXCEPT ![f] = h]
    /\ Goto(f, "credentials")
    /\ UNCHANGED <<entries, target, found, cred, model, at, accepted, passed>>

\* Tokens by either path lead to a checkin.
Validating(f) == Goto(f, "checkin")

\* The credentials form of a new hub or of an update: pasted tokens, which win,
\* or the tokens of a cloud login.  With neither, or after a failed login, the
\* form is shown again.
SubmitCredentials(f, c) ==
    /\ step[f] \in {"credentials", "update"}
    /\ cred' = [cred EXCEPT ![f] = c]
    /\ Validating(f)
    /\ UNCHANGED <<entries, target, found, addr, model, at, accepted, passed>>

Form(f) == IF target[f] = None THEN "credentials" ELSE "update"

\* The one-shot coordinator got no session within its ten seconds: hub elsewhere
\* or off, tokens refused.
CheckinFails(f) ==
    /\ step[f] = "checkin"
    /\ Goto(f, Form(f))
    /\ UNCHANGED <<entries, target, found, addr, cred, model, at, accepted, passed>>

\* The hub takes the tokens, at the wizard's address or where the one-shot
\* coordinator finds it by mDNS; the wizard keeps its address.  The coordinator
\* is stopped before the wizard goes on.
CheckinPasses(f) ==
    /\ step[f] = "checkin"
    /\ cred[f] \in accepted
    /\ passed' = passed \cup {cred[f]}
    /\ Goto(f, "stopping")
    /\ UNCHANGED <<entries, target, found, addr, cred, model, at, accepted>>

\* The confirm form with its preview: the hub's model if the cloud lists it,
\* the default otherwise.
CheckedIn(f) ==
    /\ step[f] = "stopping" /\ target[f] = None
    /\ \E m \in Models : model' = [model EXCEPT ![f] = m]
    /\ Goto(f, "confirm")
    /\ UNCHANGED <<entries, target, found, addr, cred, at, accepted, passed>>

\* Mutation: the unique id is left to the check for configured entries.
M_InProgress(f) == FALSE

\* async_set_unique_id aborts while another wizard holds the id.
InProgress(f) == \E g \in Flows \ {f} : step[g] = "creating"

\* Submission of the confirm form.
async_step_confirm(f) ==
    /\ step[f] = "confirm"
    /\ IF InProgress(f) \/ entries # {} THEN Goto(f, "over") ELSE Goto(f, "creating")
    /\ UNCHANGED <<entries, target, found, addr, cred, model, at, accepted, passed>>

\* Home Assistant finishes the flow and adds the entry.
CreateEntry(f) ==
    /\ step[f] = "creating"
    /\ entries' = entries \cup
         {[by |-> f, host |-> addr[f], cred |-> cred[f], model |-> model[f],
           camera |-> None]}
    /\ Goto(f, "over")
    /\ UNCHANGED <<target, found, addr, cred, model, at, accepted, passed>>

-----------------------------------------------------------------------------
(* Changes to an entry *)

\* Re-auth and reconfigure take the hub's address from the entry as it is now
\* and show the credentials form.
async_step_reauth(f) ==
    /\ step[f] = "start"
    /\ \E e \in entries :
           /\ target' = [target EXCEPT ![f] = e.by]
           /\ addr' = [addr EXCEPT ![f] = e.host]
           /\ model' = [model EXCEPT ![f] = e.model]
    /\ Goto(f, "update")
    /\ UNCHANGED <<entries, found, cred, at, accepted, passed>>

\* Mutation: the wizard writes the address it checked in at as well.
M_Updated(e, f) == [e EXCEPT !.cred = cred[f], !.host = addr[f]]

\* data_updates: the credentials, merged into the entry's present data.
Updated(e, f) == [e EXCEPT !.cred = cred[f]]

\* _handle_credential_update after a successful checkin; an entry removed in the
\* meantime ends the wizard without effect.
UpdateCredentials(f) ==
    /\ step[f] = "stopping" /\ target[f] # None
    /\ entries' = {IF e.by = target[f] THEN Updated(e, f) ELSE e : e \in entries}
    /\ Goto(f, "over")
    /\ UNCHANGED <<target, found, addr, cred, model, at, accepted, passed>>

\* A blank address is one the options form takes, an unsafe one is not.
OptionsHost(h) == h = None \/ h \in Safe

\* The options form of a hub that is a camera; for others it aborts.
AqaraLanLinkOptionsFlow(h) ==
    /\ OptionsHost(h)
    /\ \E e \in entries :
           /\ e.model = "camera"
           /\ entries' = (entries \ {e}) \cup {[e EXCEPT !.camera = h]}
    /\ UNCHANGED <<wizard, at, accepted, passed>>

-----------------------------------------------------------------------------
(* The world around the wizards *)

\* The running integration finds the hub elsewhere and says so in the entry.
PersistEndpoint ==
    /\ \E e \in entries : entries' = (entries \ {e}) \cup {[e EXCEPT !.host = at]}
    /\ UNCHANGED <<wizard, at, accepted, passed>>

RemoveEntry ==
    /\ entries # {}
    /\ entries' = {}
    /\ UNCHANGED <<wizard, at, accepted, passed>>

HubMoves ==
    /\ at' \in Safe \ {at}
    /\ UNCHANGED <<entries, wizard, accepted, passed>>

TokensChange ==
    /\ accepted' \in SUBSET Creds
    /\ UNCHANGED <<entries, wizard, at, passed>>

OnboardingNext ==
    \/ \E f \in Flows :
        \/ async_step_user(f) \/ SelectHub(f) \/ CheckinFails(f)
        \/ CheckinPasses(f) \/ CheckedIn(f)
        \/ async_step_confirm(f) \/ CreateEntry(f)
        \/ async_step_reauth(f) \/ UpdateCredentials(f)
        \/ \E h \in Hosts : EnterHub(f, h)
        \/ \E c \in Creds : SubmitCredentials(f, c)
    \/ \E h \in Hosts \cup {None} : AqaraLanLinkOptionsFlow(h)
    \/ PersistEndpoint \/ RemoveEntry \/ HubMoves \/ TokensChange

OnboardingSpec == OnboardingInit /\ [][OnboardingNext]_onboardingVars

-----------------------------------------------------------------------------
(* Properties *)

\* However wizards overlap, a hub has at most one entry: the abort on a
\* configured id covers finished wizards and the claim of the id the ones that
\* are being finished (config_flow.py:402-406).
OneEntryPerHub == Cardinality(entries) <= 1

\* A wizard that was opened before the hub moved does not take the entry back
\* to the old address: an entry's address changes only to where the hub is
\* (config_flow.py:519-521, 545-553).
MovedHubIsKept ==
    [][\A e \in entries, n \in entries' :
           e.by = n.by /\ e.host # n.host => n.host = at]_onboardingVars

=============================================================================
