--------------------------- MODULE MCSubscription ---------------------------
(* Subscription with two subentries: enough for a pass that a reconnect     *)
(* finds half done.                                                         *)
EXTENDS Subscription

TwoTargets == <<"d1", "d2">>
=============================================================================
