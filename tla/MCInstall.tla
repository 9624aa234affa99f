------------------------------ MODULE MCInstall ------------------------------
(* What an installation keeps: entries, subentries, overlay and candidate     *)
(* paths, the subscriptions of an entry that is loaded; its requests to the   *)
(* cloud, its search for hubs and the plugin's tunnel.  The parts share no    *)
(* variable, so each behaviour exercises one of them, chosen at the start,    *)
(* while the others keep their initial state.                                 *)
EXTENDS Onboarding, Overlay, PathCache, Cloud, Discovery, Registry, Subscription

CONSTANTS hub, kid, fp, virt,     \* devices
          h1,                     \* an address
          r                       \* a request to the hub

VARIABLES part,
    wstep, offered, manual, endpoint, picked, poked, listing, subs, running, reload,
    shake, key, held, sock, wire, peer, frames, waiter, req, replied, keepalive

P == INSTANCE Pairing WITH
        Devices <- {hub, kid, fp, virt}, Hub <- hub, Children <- {kid, virt},
        Members <- {hub}, Standalone <- {fp}, Virtual <- {virt}, New <- {kid},
        Extras <- {fp}, Addrs <- {h1}, step <- wstep, topo <- listing,
        loaded <- running
T == INSTANCE Tunnel WITH
        Requests <- {r}, stage <- shake, socket <- sock, hub <- peer,
        answered <- replied

\* The scenes of the account: one without a sequence, and one whose id is 0.
StaticScenes == <<[seqId |-> "none", mired |-> 153, level |-> 50]>>
DynamicScenes == <<[seqId |-> "0", mired |-> 0, level |-> 0]>>

\* One hub, announced on both address families.
OneHub == [s \in Services |-> hub]

\* Two subentries: enough for a pass that a reconnect finds half done.
TwoTargets == <<"d1", "d2">>

ASSUME InstallAssumption ==
    /\ OnboardingAssumption /\ P!PairingAssumption
    /\ OverlayAssumption /\ PathCacheAssumption
    /\ CloudAssumption /\ DiscoveryAssumption /\ RegistryAssumption
    /\ SubscriptionAssumption

pairingVars ==
    <<wstep, offered, manual, endpoint, picked, poked, listing, subs, running, reload>>
tunnelVars ==
    <<shake, key, held, sock, wire, peer, frames, waiter, req, replied, keepalive>>

\* The parts that are not exercised start in one state.
PartInit ==
    /\ part \in {"onboarding", "pairing", "overlay", "paths", "cloud", "discovery",
                "tunnel", "registry", "subscription"}
    /\ OnboardingInit /\ P!Init /\ OverlayInit /\ PathCacheInit /\ CloudInit
    /\ DiscoveryInit /\ T!Init /\ RegistryInit /\ Init
    /\ part # "onboarding" => at = h1
    /\ part # "pairing" => listing = {}
    /\ part # "overlay" => file = {}
    /\ part # "paths" => stored = {}
    /\ part # "cloud" => accepts = {} /\ token /\ seed = "eu"
    /\ part # "registry" => broken = {} /\ claims = [i \in Packages |-> {}]

PartNext ==
    \/ /\ part = "onboarding" /\ OnboardingNext
       /\ UNCHANGED <<part, pairingVars, overlayVars, pathCacheVars, cloudVars,
                      discoveryVars, tunnelVars, registryVars, vars>>
    \/ /\ part = "pairing" /\ P!Next
       /\ UNCHANGED <<part, onboardingVars, overlayVars, pathCacheVars, cloudVars,
                      discoveryVars, tunnelVars, registryVars, vars>>
    \/ /\ part = "overlay" /\ OverlayNext
       /\ UNCHANGED <<part, onboardingVars, pairingVars, pathCacheVars, cloudVars,
                      discoveryVars, tunnelVars, registryVars, vars>>
    \/ /\ part = "paths" /\ PathCacheNext
       /\ UNCHANGED <<part, onboardingVars, pairingVars, overlayVars, cloudVars,
                      discoveryVars, tunnelVars, registryVars, vars>>
    \/ /\ part = "cloud" /\ CloudNext
       /\ UNCHANGED <<part, onboardingVars, pairingVars, overlayVars, pathCacheVars,
                      discoveryVars, tunnelVars, registryVars, vars>>
    \/ /\ part = "discovery" /\ DiscoveryNext
       /\ UNCHANGED <<part, onboardingVars, pairingVars, overlayVars, pathCacheVars,
                      cloudVars, tunnelVars, registryVars, vars>>
    \/ /\ part = "tunnel" /\ T!Next
       /\ UNCHANGED <<part, onboardingVars, pairingVars, overlayVars, pathCacheVars,
                      cloudVars, discoveryVars, registryVars, vars>>
    \/ /\ part = "registry" /\ RegistryNext
       /\ UNCHANGED <<part, onboardingVars, pairingVars, overlayVars, pathCacheVars,
                      cloudVars, discoveryVars, tunnelVars, vars>>
    \/ /\ part = "subscription" /\ Next
       /\ UNCHANGED <<part, onboardingVars, pairingVars, overlayVars, pathCacheVars,
                      cloudVars, discoveryVars, tunnelVars, registryVars>>

\* The fairness of each part (see its Fairness) while it is exercised.
PartSpec ==
    /\ PartInit
    /\ [][PartNext]_<<part, onboardingVars, pairingVars, overlayVars, pathCacheVars,
                      cloudVars, discoveryVars, tunnelVars, registryVars, vars>>
    /\ WF_pairingVars(part = "pairing" /\ reload /\ P!Reload)
    /\ WF_pathCacheVars(part = "paths" /\ Save)
    /\ \A rows \in SUBSET Pushed : WF_pathCacheVars(part = "paths" /\ SaveOld(rows))
    /\ WF_tunnelVars(part = "tunnel" /\ T!HandshakeTimeout)
    /\ WF_tunnelVars(part = "tunnel" /\ T!RequestTimeout(r))
    /\ WF_tunnelVars(part = "tunnel" /\ T!onClose)

\* Pairing: a device that is removed is unloaded (__init__.py:1240-1246).
RemovedIsUnloaded == P!RemovedIsUnloaded

\* Tunnel: connect() and every request end (tunnel.js:235-267, 370-392,
\* 405-418).
TunnelCallsSettle == part = "tunnel" => T!TunnelCallsSettle
=============================================================================
