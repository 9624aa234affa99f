-------------------------------- MODULE Cloud --------------------------------
(***************************************************************************)
(* AqaraCloudClient: the requests of an entry's client, the one-shot probe *)
(* for the app credential a region really accepts, the errors each query   *)
(* makes of a reply, and the effects that setup reads for every light.     *)
(*                                                                         *)
(* A request is signed when it is built: between that and its reply other  *)
(* calls of the same client run.                                           *)
(***************************************************************************)
EXTENDS Integers, Sequences

CONSTANTS
    Calls,          \* calls in flight besides the enrichment's
    Asked,          \* names of the queries they make
    Lights,         \* number of light descriptors setup enriches
    Static, Dynamic \* scenes the account holds: sequences of entries

Nothing == "none"

Combos == <<"eu", "ru", "cn">>
Pairs == {Combos[i] : i \in 1..Len(Combos)}

\* What a query sends, and what it does with a reply that holds no result.
login == [name |-> "login", token |-> FALSE, lacking |-> "error"]
query_device_list ==
    [name |-> "device_list", token |-> TRUE, lacking |-> "error"]
query_device_traits ==
    [name |-> "device_traits", token |-> TRUE, lacking |-> "error"]
query_resources_by_rid ==
    [name |-> "resources_by_rid", token |-> TRUE, lacking |-> "empty"]
query_device_detail ==
    [name |-> "device_detail", token |-> TRUE, lacking |-> "error"]
query_custom_actions ==
    [name |-> "custom_actions", token |-> TRUE, lacking |-> "error"]
run_sequence ==
    [name |-> "run_sequence", token |-> TRUE, lacking |-> "empty"]
query_collection_panels ==
    [name |-> "collection_panels", token |-> TRUE, lacking |-> "error"]
query_camera_p2p_info ==
    [name |-> "camera_p2p_info", token |-> TRUE, lacking |-> "error"]
request_camera_p2p_sign ==
    [name |-> "camera_p2p_sign", token |-> TRUE, lacking |-> "error"]
query_ptz_positions ==
    [name |-> "ptz_positions", token |-> TRUE, lacking |-> "empty"]

Queries ==
    {login, query_device_list, query_device_traits, query_resources_by_rid,
     query_device_detail, query_custom_actions, run_sequence,
     query_collection_panels, query_camera_p2p_info, request_camera_p2p_sign,
     query_ptz_positions}

Enricher == "enricher"
Callers == Calls \cup {Enricher}

CloudAssumption ==
    /\ Asked \subseteq {q.name : q \in Queries}
    /\ Lights \in Nat
    /\ Enricher \notin Calls

VARIABLES
    accepts,    \* the pairs the region's server accepts
    token,      \* the stored token is good
    seed,       \* the pair of the region table
    active,     \* (_appid, _appkey)
    probed,     \* _signing_probed
    query,      \* of each call: its query
    status,     \* idle, sent or done
    turn,       \* the combo it is probing, 0 for none
    signed,     \* the pair its last request was signed with
    out,        \* what it returned or raised
    stage,      \* the enrichment: the static or the dynamic query, or over
    light,      \* the descriptor it is at
    effects,    \* the effects of each descriptor
    reauth      \* re-auth flows started

cloudVars ==
    <<accepts, token, seed, active, probed, query, status, turn, signed, out,
      stage, light, effects, reauth>>
enrichVars == <<stage, light, effects, reauth>>

Probing == \E c \in Callers : turn[c] > 0

CloudTypeOK ==
    /\ accepts \subseteq Pairs
    /\ {seed, active} \subseteq Pairs
    /\ {token, probed} \subseteq BOOLEAN
    /\ query \in [Callers -> Queries]
    /\ status \in [Callers -> {"idle", "sent", "done"}]
    /\ turn \in [Callers -> 0..Len(Combos)]
    /\ signed \in [Callers -> Pairs]
    /\ out \in [Callers -> {Nothing, "result", "empty", "auth error", "error",
                            "not signed"}]
    /\ stage \in {"static", "dynamic", "over"}
    /\ light \in 1..(Lights + 1)
    /\ reauth \in 0..1

CloudInit ==
    /\ accepts \in {{}} \cup {{p} : p \in Pairs}
    /\ token \in BOOLEAN
    /\ seed \in Pairs
    /\ active = seed
    /\ probed = FALSE
    /\ query = [c \in Callers |-> query_custom_actions]
    /\ status = [c \in Callers |-> "idle"]
    /\ turn = [c \in Callers |-> 0]
    /\ signed = [c \in Callers |-> seed]
    /\ out = [c \in Callers |-> Nothing]
    /\ stage = "static" /\ light = 1
    /\ effects = [l \in 1..Lights |-> <<>>]
    /\ reauth = 0

-----------------------------------------------------------------------------
(* A request *)

\* The signature of a request names its pair.
_sign(c, pair) == signed' = [signed EXCEPT ![c] = pair]

\* A call builds and signs its request with the pair that is active now.
Ask(c, q) ==
    /\ status[c] = "idle"
    /\ query' = [query EXCEPT ![c] = q]
    /\ status' = [status EXCEPT ![c] = "sent"]
    /\ _sign(c, active)
    /\ UNCHANGED <<accepts, token, seed, active, probed, turn, out, enrichVars>>

\* The pairs left to try: the rest of _SIGNING_COMBOS without the seed.
NextPair(c) ==
    {i \in 1..Len(Combos) : Combos[i] # seed /\ i > turn[c]}

\* What the payload of c makes of it, when the server accepted its signature.
_raise_if_error(c) ==
    IF query[c].token /\ ~token
    THEN {"auth error"}
    ELSE {"result", "error", query[c].lacking}

\* A reply that was signed well: the pair that signed it stays active.
Answered(c) ==
    /\ status[c] = "sent"
    /\ signed[c] \in accepts
    /\ \E o \in _raise_if_error(c) : out' = [out EXCEPT ![c] = o]
    /\ status' = [status EXCEPT ![c] = "done"]
    /\ turn' = [turn EXCEPT ![c] = 0]
    /\ UNCHANGED <<accepts, token, seed, active, probed, query, signed, enrichVars>>

\* Code 106: the first such reply of the client starts the probe, which goes
\* on to the next pair, in place, as long as the replies are 106.
Probe(c) ==
    /\ status[c] = "sent"
    /\ probed => turn[c] > 0
    /\ signed[c] \notin accepts
    /\ \E i \in NextPair(c) :
        /\ \A j \in NextPair(c) : i <= j
        /\ turn' = [turn EXCEPT ![c] = i]
        /\ active' = Combos[i]
        /\ _sign(c, Combos[i])
    /\ probed' = TRUE
    /\ UNCHANGED <<accepts, token, seed, query, status, out, enrichVars>>

\* A probe that found no pair gives the seed back.
Restored(c) == IF turn[c] > 0 THEN seed ELSE active

\* Code 106 with nothing left to try.
NotSigned(c) ==
    /\ status[c] = "sent"
    /\ IF turn[c] > 0 THEN NextPair(c) = {} ELSE probed
    /\ signed[c] \notin accepts
    /\ active' = Restored(c)
    /\ status' = [status EXCEPT ![c] = "done"]
    /\ turn' = [turn EXCEPT ![c] = 0]
    /\ out' = [out EXCEPT ![c] = "not signed"]
    /\ UNCHANGED <<accepts, token, seed, probed, query, signed, enrichVars>>

\* Mutation: a probe that gives up keeps the last pair.
M_Raised(c) ==
    /\ status[c] = "sent"
    /\ status' = [status EXCEPT ![c] = "done"]
    /\ turn' = [turn EXCEPT ![c] = 0]
    /\ out' = [out EXCEPT ![c] = "error"]
    /\ UNCHANGED <<accepts, token, seed, active, probed, query, signed, enrichVars>>

\* The request raises: a network error, a reply that is no JSON, or the
\* cancellation of the task.
Raised(c) ==
    /\ status[c] = "sent"
    /\ active' = Restored(c)
    /\ status' = [status EXCEPT ![c] = "done"]
    /\ turn' = [turn EXCEPT ![c] = 0]
    /\ out' = [out EXCEPT ![c] = "error"]
    /\ UNCHANGED <<accepts, token, seed, probed, query, signed, enrichVars>>

-----------------------------------------------------------------------------
(* The effects of the lights *)

Rounded(n, d) == (2 * n + d) \div (2 * d)

\* An entry of the account becomes an effect (kelvin 0: none stored).
Effect(e) ==
    IF e.seqId = Nothing
    THEN [seq |-> Nothing,
          kelvin |-> IF e.mired > 0 THEN Rounded(1000000, e.mired) ELSE 0,
          level |-> e.level]
    ELSE [seq |-> e.seqId, kelvin |-> 0, level |-> 0]

_parse_effects ==
    [i \in 1..Len(Static \o Dynamic) |-> Effect((Static \o Dynamic)[i])]

\* The enrichment asks for both actions of the light it is at.
Enrich ==
    /\ stage # "over"
    /\ light <= Lights
    /\ Ask(Enricher, query_custom_actions)

\* Both queries answered: the descriptor gets its effects; a failure leaves it
\* without; an auth error ends the pass.
Enriched ==
    /\ status[Enricher] = "done"
    /\ stage # "over"
    /\ LET failed == out[Enricher] # "result"
           both == ~failed /\ stage = "dynamic"
           auth == out[Enricher] = "auth error"
       IN  /\ effects' = IF both
                         THEN [effects EXCEPT ![light] = _parse_effects]
                         ELSE effects
           /\ light' = IF both \/ (failed /\ ~auth) THEN light + 1 ELSE light
           /\ stage' = IF auth \/ light' > Lights THEN "over"
                       ELSE IF failed \/ both THEN "static" ELSE "dynamic"
           /\ reauth' = IF auth THEN 1 ELSE reauth
    /\ status' = [status EXCEPT ![Enricher] = "idle"]
    /\ out' = [out EXCEPT ![Enricher] = Nothing]
    /\ UNCHANGED <<accepts, token, seed, active, probed, query, turn, signed>>

-----------------------------------------------------------------------------
CloudNext ==
    \/ \E c \in Calls, q \in Queries : q.name \in Asked /\ Ask(c, q)
    \/ Enrich \/ Enriched
    \/ \E c \in Callers : Answered(c) \/ Probe(c) \/ NotSigned(c) \/ Raised(c)

CloudSpec == CloudInit /\ [][CloudNext]_cloudVars

-----------------------------------------------------------------------------
(* Properties *)

\* However calls overlap and wherever the probe is interrupted, the client is
\* left with another pair than its seed only if that pair signed
\* (cloud_client.py:465-476).
AlternateOnlyIfSigned == ~Probing => active = seed \/ active \in accepts

\* A light shows every scene of the account or none, and a dynamic one still
\* by its sequence, whose id may be 0 (cloud_client.py:1077-1108, 1140-1167).
ScenesWhole ==
    \A l \in 1..Lights : effects[l] # <<>> =>
        /\ Len(effects[l]) = Len(Static) + Len(Dynamic)
        /\ \A i \in 1..Len(Static \o Dynamic) :
              effects[l][i].seq = (Static \o Dynamic)[i].seqId

\* Not so: a call is refused for its signature although the server accepts one
\* of the known pairs, when it overlaps the probe or follows one that an error
\* cut short (cloud_client.py:434-449).
KnownPairIsFound ==
    accepts # {} => \A c \in Callers : out[c] # "not signed"
=============================================================================
