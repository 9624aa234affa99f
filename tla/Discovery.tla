------------------------------ MODULE Discovery ------------------------------
(***************************************************************************)
(* Finding hubs on the network, twice: the integration's discover_hubs     *)
(* (zeroconf browses, one task resolves each announced service) and the    *)
(* plugin's discoverHubs (one socket, records in any order).  The port a   *)
(* hub advertises changes whenever it reboots.                             *)
(***************************************************************************)
EXTENDS Naturals

CONSTANTS
    Hubs,
    Services,       \* what is announced: a hub may be, on v4 and on v6
    Did             \* the hub of each service

DiscoveryAssumption == Did \in [Services -> Hubs]

Ports == 1..2       \* bound: one reboot
NoPort == 0

VARIABLES
    port,       \* the port each hub listens on
    window,     \* the integration: browsing, gathering or over
    task,       \* the resolver of each service
    results,    \* the port they found for each hub
    returned,   \* what discover_hubs returned
    answered,   \* history: hubs that a resolver could record
    socket,     \* the plugin: binding, open or closed
    timer,      \* its finish() is due
    services,   \* what it merged of each hub's SRV and TXT records
    addresses,  \* hubs whose A record came
    hubs,       \* what it resolved with
    said,       \* history: the last port and the kinds of record received
    outcome     \* its promise, or "thrown": finish() threw

discoveryVars ==
    <<port, window, task, results, returned, answered, socket, timer, services,
      addresses, hubs, said, outcome>>
ivars == <<window, task, results, returned, answered>>
jvars == <<socket, timer, services, addresses, hubs, said, outcome>>

Unheard == [port |-> NoPort, id |-> FALSE]

DiscoveryTypeOK ==
    /\ port \in [Hubs -> Ports]
    /\ window \in {"browsing", "gathering", "over"}
    /\ task \in [Services -> {"none", "resolving", "ended"}]
    /\ {results, returned} \subseteq [Hubs -> {NoPort} \cup Ports]
    /\ answered \subseteq Hubs
    /\ socket \in {"binding", "open", "closed"}
    /\ services \in [Hubs -> [port : {NoPort} \cup Ports, id : BOOLEAN]]
    /\ said \in [Hubs -> [port : {NoPort} \cup Ports, id : BOOLEAN]]
    /\ addresses \subseteq Hubs
    /\ timer \in BOOLEAN
    /\ outcome \in {"pending", "resolved", "rejected", "thrown"}

DiscoveryInit ==
    /\ port = [h \in Hubs |-> 1]
    /\ window = "browsing"
    /\ task = [s \in Services |-> "none"]
    /\ results = [h \in Hubs |-> NoPort]
    /\ returned = results
    /\ answered = {}
    /\ socket = "binding" /\ timer = FALSE
    /\ services = [h \in Hubs |-> Unheard]
    /\ addresses = {}
    /\ hubs = {}
    /\ said = [h \in Hubs |-> Unheard]
    /\ outcome = "pending"

\* A hub reboots and comes back on another port.
Reboot(h) ==
    /\ port[h] = 1
    /\ port' = [port EXCEPT ![h] = 2]
    /\ UNCHANGED <<ivars, jvars>>

-----------------------------------------------------------------------------
(* The integration *)

\* The browser reports a new service; later changes of it start nothing.
_on_change(s) ==
    /\ window = "browsing"
    /\ task[s] = "none"
    /\ task' = [task EXCEPT ![s] = "resolving"]
    /\ UNCHANGED <<port, window, results, returned, answered, jvars>>

\* A resolver gets id, local address and port: the first record of a hub stays.
_resolve(s) ==
    /\ task[s] = "resolving"
    /\ results' = IF results[Did[s]] = NoPort
                  THEN [results EXCEPT ![Did[s]] = port[Did[s]]]
                  ELSE results
    /\ answered' = answered \cup {Did[s]}
    /\ task' = [task EXCEPT ![s] = "ended"]
    /\ UNCHANGED <<port, window, returned, jvars>>

\* It times out, or the record lacks the id, a local address or a port.
Unresolved(s) ==
    /\ task[s] = "resolving"
    /\ task' = [task EXCEPT ![s] = "ended"]
    /\ UNCHANGED <<port, window, results, returned, answered, jvars>>

\* The timeout of discover_hubs: the browser is cancelled.
Cancelled ==
    /\ window = "browsing"
    /\ window' = "gathering"
    /\ UNCHANGED <<port, task, results, returned, answered, jvars>>

\* Mutation: the resolvers that still run are not awaited.
M_Return ==
    /\ window = "gathering"
    /\ window' = "over"
    /\ returned' = results
    /\ UNCHANGED <<port, task, results, answered, jvars>>

\* gather() waits for every resolver, whatever it raises.
Return ==
    /\ window = "gathering"
    /\ \A s \in Services : task[s] # "resolving"
    /\ window' = "over"
    /\ returned' = results
    /\ UNCHANGED <<port, task, results, answered, jvars>>

-----------------------------------------------------------------------------
(* The plugin *)

\* The socket is bound: the query goes out and finish() is scheduled.
Bound ==
    /\ socket = "binding"
    /\ socket' = "open" /\ timer' = TRUE
    /\ UNCHANGED <<port, services, addresses, hubs, said, outcome, ivars>>

\* The records of a hub, in any order, repeated or missing.
Srv(h) ==
    /\ socket = "open"
    /\ services' = [services EXCEPT ![h].port = port[h]]
    /\ said' = [said EXCEPT ![h].port = port[h]]
    /\ UNCHANGED <<port, socket, timer, addresses, hubs, outcome, ivars>>

Txt(h) ==
    /\ socket = "open"
    /\ services' = [services EXCEPT ![h].id = TRUE]
    /\ said' = [said EXCEPT ![h].id = TRUE]
    /\ UNCHANGED <<port, socket, timer, addresses, hubs, outcome, ivars>>

A(h) ==
    /\ socket = "open"
    /\ addresses' = addresses \cup {h}
    /\ UNCHANGED <<port, socket, timer, services, hubs, said, outcome, ivars>>

\* What a datagram may hold of a hub.
Records(h) == Srv(h) \/ Txt(h) \/ A(h)

Listed ==
    {[hub |-> h, port |-> services[h].port, named |-> h \notin addresses] :
        h \in {k \in Hubs : services[k].id /\ services[k].port # NoPort}}

\* The timeout: what was heard is returned, unless the socket was closed.
finish ==
    /\ timer
    /\ timer' = FALSE
    /\ outcome' = IF socket = "closed" THEN "thrown" ELSE "resolved"
    /\ hubs' = IF socket = "closed" THEN hubs ELSE Listed
    /\ socket' = "closed"
    /\ UNCHANGED <<port, services, addresses, said, ivars>>

\* The socket reports an error: the promise is rejected, the timer stays.
Error ==
    /\ socket # "closed"
    /\ socket' = "closed"
    /\ outcome' = "rejected"
    /\ UNCHANGED <<port, timer, services, addresses, hubs, said, ivars>>

-----------------------------------------------------------------------------
DiscoveryNext ==
    \/ \E h \in Hubs : Reboot(h) \/ Records(h)
    \/ \E s \in Services : _on_change(s) \/ _resolve(s) \/ Unresolved(s)
    \/ Cancelled \/ Return \/ Bound \/ finish \/ Error

DiscoverySpec == DiscoveryInit /\ [][DiscoveryNext]_discoveryVars

-----------------------------------------------------------------------------
(* Properties *)

\* A browse that ends returns every hub that a resolver of it could record,
\* also one whose answer came after the timeout (mdns.py:85-95).
ResolvedAreReturned ==
    window = "over" => answered = {h \in Hubs : returned[h] # NoPort}

\* The plugin finds exactly the hubs whose SRV and TXT records it received, in
\* whatever order, at the last port they gave (discovery.js:180-199).
HubsAsHeard ==
    outcome = "resolved" =>
        {<<x.hub, x.port>> : x \in hubs} =
            {<<h, said[h].port>> :
                h \in {k \in Hubs : said[k].id /\ said[k].port # NoPort}}

\* Both: what was received is found.
HubsAreFound == ResolvedAreReturned /\ HubsAsHeard

\* Not so: the port is the one the hub listens on (mdns.py:3-5,
\* platform.js:88-89): the hub may reboot after its record arrived.
PortIsCurrent == \A h \in Hubs : returned[h] \in {NoPort, port[h]}

\* Not so: finish() closes an open socket; after an error it throws out of a
\* timer, where nothing catches it (discovery.js:157-178, 223).
FinishIsSafe == outcome # "thrown"
=============================================================================
