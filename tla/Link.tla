-------------------------------- MODULE Link --------------------------------
(***************************************************************************)
(* What a hub coordinator promises to the integration that owns it: the    *)
(* link goes up and down any number of times, every time it goes up is     *)
(* announced once (on_session_up), and once it is stopped it is down for    *)
(* good and holds no connection.                                           *)
(***************************************************************************)
EXTENDS Naturals

VARIABLES
    link,       \* "down", "up" or "stopped"
    ups         \* how many times on_session_up has been called

vars == <<link, ups>>

TypeOK == link \in {"down", "up", "stopped"} /\ ups \in Nat

Init == link = "down" /\ ups = 0

\* A session's checkin is accepted.
Up == link = "down" /\ link' = "up" /\ ups' = ups + 1

\* The session ends, for whatever reason.
Down == link = "up" /\ link' = "down" /\ UNCHANGED ups

\* stop() has returned.
Stop == link = "down" /\ link' = "stopped" /\ UNCHANGED ups

Next == Up \/ Down \/ Stop

Spec == Init /\ [][Next]_vars
=============================================================================
