-------------------------------- MODULE Tunnel --------------------------------
(***************************************************************************)
(* AqaraTunnel, the Homebridge plugin's tunnel to a hub, from the moment   *)
(* its TCP connection stands and its key offer is sent: the handshake, the *)
(* requests with their timers, the keepalive and the ways it ends.         *)
(*                                                                         *)
(* A frame is a token; a chunk that ends inside a frame is delivered with  *)
(* the chunk that completes it (onData keeps the rest in this.buffer).     *)
(***************************************************************************)
EXTENDS Naturals, Sequences, SequencesExt

CONSTANTS Requests      \* calls of request() once the tunnel is up

VARIABLES
    stage,      \* connect(): offered, proving, up or failed
    key,        \* sessionKey is set
    held,       \* this.socket is not null
    socket,     \* open, closing ('close' is due) or closed
    wire,       \* frames on their way from the hub
    hub,        \* what the hub has sent of the handshake: 0, 1 or 2 frames
    frames,     \* this.frames: handshake frames nobody waited for
    waiter,     \* frameWaiters: none, live, or late (its timer has fired)
    req,        \* of each request: idle, writing, waiting or how it settled
    answered,   \* requests the hub has answered
    keepalive   \* keepaliveTimer runs

vars == <<stage, key, held, socket, wire, hub, frames, waiter, req, answered,
          keepalive>>

Ecdh == "ecdh"
Verify == "verify"
Junk == "junk"
Settled == {"resolved", "rejected", "orphan"}

TypeOK ==
    /\ stage \in {"offered", "proving", "up", "failed"}
    /\ {key, held, keepalive} \subseteq BOOLEAN
    /\ socket \in {"open", "closing", "closed"}
    /\ hub \in 0..2
    /\ waiter \in {"none", "live", "late"}
    /\ req \in [Requests -> {"idle", "writing", "waiting"} \cup Settled]
    /\ answered \subseteq Requests

Init ==
    /\ stage = "offered"
    /\ key = FALSE
    /\ held = TRUE
    /\ socket = "open"
    /\ wire = <<>>
    /\ hub = 0
    /\ frames = <<>>
    /\ waiter = "live"
    /\ req = [r \in Requests |-> "idle"]
    /\ answered = {}
    /\ keepalive = FALSE

-----------------------------------------------------------------------------
(* The hub *)

HubSends(f) ==
    /\ socket = "open"
    /\ wire' = Append(wire, <<f>>)
    /\ UNCHANGED <<stage, key, held, socket, frames, waiter, req, keepalive>>

\* The hub offers its key, then proves itself, at its own pace.
HubShakes ==
    /\ \/ hub = 0 /\ HubSends(Ecdh)
       \/ hub = 1 /\ key /\ HubSends(Verify)
    /\ hub' = hub + 1
    /\ UNCHANGED answered

\* It answers a request it received.
HubAnswers(r) ==
    /\ req[r] \in {"waiting", "resolved", "rejected"}
    /\ r \notin answered
    /\ socket = "open"
    /\ wire' = Append(wire, <<"answer", r>>)
    /\ answered' = answered \cup {r}
    /\ UNCHANGED <<stage, key, held, socket, hub, frames, waiter, req, keepalive>>

\* A frame that does not parse.
HubGarbles ==
    /\ <<Junk>> \notin Range(wire)
    /\ HubSends(Junk)
    /\ UNCHANGED <<hub, answered>>

HubCloses ==
    /\ socket = "open"
    /\ socket' = "closing"
    /\ UNCHANGED <<stage, key, held, wire, hub, frames, waiter, req, answered,
                   keepalive>>

-----------------------------------------------------------------------------
(* What arrives *)

\* handshake() goes on with the frame it waited for; a frame of another type, a
\* key or a proof that does not hold makes it fail, and nothing closes the
\* tunnel.
Continue(f, open) ==
    \/ /\ stage = "offered" /\ f = <<Ecdh>>
       /\ key' = TRUE
       /\ IF open
          THEN stage' = "proving" /\ waiter' = "live"
          ELSE stage' = "failed" /\ waiter' = "none"
       /\ keepalive' = keepalive
    \/ /\ stage = "proving" /\ f = <<Verify>>
       /\ stage' = "up" /\ waiter' = "none"
       /\ keepalive' = TRUE
       /\ key' = key
    \/ /\ stage' = "failed" /\ waiter' = "none"
       /\ UNCHANGED <<key, keepalive>>

\* The frames of a chunk, up to one that does not parse.
Parsed(n) ==
    LET junk == {i \in 1..n : wire[i] = <<Junk>>}
    IN  IF junk = {} THEN SubSeq(wire, 1, n)
        ELSE SubSeq(wire, 1, (CHOOSE i \in junk : \A j \in junk : i <= j) - 1)

\* onData: handshake frames go to the waiter, else to the queue; the others are
\* answers; after garbage the tunnel closes itself.
Data(n) ==
    /\ socket = "open"
    /\ n \in 1..Len(wire)
    /\ LET got == Parsed(n)
           shake == SelectSeq(got, LAMBDA f : ~key \/ f[1] # "answer")
           given == shake # <<>> /\ waiter # "none"
           junk == Len(got) < n
           heard == {r \in Requests : key /\ <<"answer", r>> \in Range(got)}
       IN  /\ wire' = SubSeq(wire, n + 1, Len(wire))
           /\ frames' = frames \o IF given THEN Tail(shake) ELSE shake
           /\ IF given /\ waiter = "live"
              THEN Continue(Head(shake), held /\ ~junk)
              ELSE /\ waiter' = IF given THEN "none" ELSE waiter
                   /\ keepalive' = (keepalive /\ ~junk)
                   /\ UNCHANGED <<stage, key>>
           /\ req' = [r \in Requests |->
                        IF r \in heard /\ req[r] \in {"writing", "waiting"}
                        THEN "resolved" ELSE req[r]]
           /\ held' = (held /\ ~junk)
           /\ socket' = IF junk THEN "closing" ELSE socket
    /\ UNCHANGED <<hub, answered>>

\* The timer of nextFrame: its waiter stays in the list.
HandshakeTimeout ==
    /\ waiter = "live"
    /\ waiter' = "late"
    /\ stage' = "failed"
    /\ UNCHANGED <<key, held, socket, wire, hub, frames, req, answered,
                   keepalive>>

-----------------------------------------------------------------------------
(* Requests *)

\* request(): the answer is registered with its timer, then the frame is sent;
\* a frame that cannot leave settles it at once.
Request(r) ==
    /\ stage = "up"
    /\ req[r] = "idle"
    /\ req' = [req EXCEPT ![r] = IF held /\ socket = "open" THEN "writing"
                                 ELSE "rejected"]
    /\ UNCHANGED <<stage, key, held, socket, wire, hub, frames, waiter, answered,
                   keepalive>>

\* The write completes, or fails with the socket.
Written(r) ==
    /\ req[r] = "writing"
    /\ req' = [req EXCEPT ![r] = IF socket = "open" THEN "waiting" ELSE "rejected"]
    /\ UNCHANGED <<stage, key, held, socket, wire, hub, frames, waiter, answered,
                   keepalive>>

\* No answer in time: rejected, with nobody listening yet if the write has not
\* completed.
RequestTimeout(r) ==
    /\ req[r] \in {"writing", "waiting"}
    /\ req' = [req EXCEPT ![r] = IF @ = "writing" THEN "orphan" ELSE "rejected"]
    /\ UNCHANGED <<stage, key, held, socket, wire, hub, frames, waiter, answered,
                   keepalive>>

-----------------------------------------------------------------------------
(* The end *)

\* The platform closes the tunnel.
close ==
    /\ held
    /\ held' = FALSE
    /\ keepalive' = FALSE
    /\ socket' = IF socket = "open" THEN "closing" ELSE socket
    /\ UNCHANGED <<stage, key, wire, hub, frames, waiter, req, answered>>

\* Mutation: the requests are forgotten instead of rejected.
M_onClose ==
    /\ socket = "closing"
    /\ socket' = "closed"
    /\ wire' = <<>>
    /\ req' = [r \in Requests |->
                IF req[r] \in {"writing", "waiting"} THEN "forgotten" ELSE req[r]]
    /\ keepalive' = FALSE
    /\ UNCHANGED <<stage, key, held, hub, frames, waiter, answered>>

\* The socket's 'close' event: every request is rejected; a waiter is not.
onClose ==
    /\ socket = "closing"
    /\ socket' = "closed"
    /\ wire' = <<>>
    /\ req' = [r \in Requests |->
                IF req[r] \in {"writing", "waiting"} THEN "rejected" ELSE req[r]]
    /\ keepalive' = FALSE
    /\ UNCHANGED <<stage, key, held, hub, frames, waiter, answered>>

Next ==
    \/ HubShakes \/ HubGarbles \/ HubCloses
    \/ \E n \in 1..Len(wire) : Data(n)
    \/ \E r \in Requests :
        HubAnswers(r) \/ Request(r) \/ Written(r) \/ RequestTimeout(r)
    \/ HandshakeTimeout \/ close \/ onClose

\* The timers fire, and a socket that is destroyed says so.
Fairness ==
    /\ WF_vars(HandshakeTimeout)
    /\ \A r \in Requests : WF_vars(RequestTimeout(r))
    /\ WF_vars(onClose)

Spec == Init /\ [][Next]_vars /\ Fairness

-----------------------------------------------------------------------------
(* Properties *)

\* connect() and every request end, whatever the hub does and wherever the
\* connection breaks (tunnel.js:235-267, 370-392, 405-418).
TunnelCallsSettle ==
    /\ (stage \in {"offered", "proving"}) ~> (stage \in {"up", "failed"})
    /\ \A r \in Requests :
        (req[r] \in {"writing", "waiting"}) ~> (req[r] \in Settled)

\* A keepalive timer never outlives the tunnel it would write to
\* (tunnel.js:103-110, 147-149, 411-415).
KeepaliveEnds == socket = "closed" => ~keepalive

\* Not so: a request's rejection finds somebody listening: request() awaits
\* the write before it returns the answer (tunnel.js:249-266).
NoOrphan == \A r \in Requests : req[r] # "orphan"

\* Not so: a hub that closes ends the handshake: its waiter is left to its
\* timer (tunnel.js:405-418).
CloseEndsHandshake == socket = "closed" => waiter # "live"
=============================================================================
