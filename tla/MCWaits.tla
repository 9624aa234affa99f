------------------------------- MODULE MCWaits -------------------------------
(* What waits for an answer or a timer: the requests of a session, the        *)
(* session of the Homebridge plugin, and the auto-clear of a detection.  The  *)
(* parts share no variable, so each behaviour exercises one of them, chosen   *)
(* at the start.                                                              *)
EXTENDS Session, Platform, Clearing, Integers

VARIABLE part

ASSUME WaitsAssumption ==
    SessionAssumption /\ PlatformAssumption /\ ClearingAssumption

PartInit ==
    /\ part \in {"session", "platform", "clearing"}
    /\ Init /\ PlatformInit /\ ClearingInit
    /\ part # "clearing" => momentary /\ saved = <<FALSE, 1>>

PartNext ==
    \/ /\ part = "session" /\ Next
       /\ UNCHANGED <<part, platformVars, clearingVars>>
    \/ /\ part = "platform" /\ PlatformNext
       /\ UNCHANGED <<part, vars, clearingVars>>
    \/ /\ part = "clearing" /\ ClearingNext
       /\ UNCHANGED <<part, vars, platformVars>>

\* The fairness of each part (see its FairSpec) while it is exercised.
PartSpec ==
    /\ PartInit
    /\ [][PartNext]_<<part, vars, platformVars, clearingVars>>
    /\ \A c \in Callers : /\ WF_vars(part = "session" /\ (Sent(c) \/ SendFails(c)))
                          /\ WF_vars(part = "session" /\ Timeout(c))
                          /\ WF_vars(part = "session" /\ Resume(c))
    /\ \A i \in Attempts : WF_platformVars(part = "platform" /\ Progress(i))
    /\ WF_clearingVars(part = "clearing" /\ ClockTick)
    /\ WF_clearingVars(part = "clearing" /\ AutoClear)

\* Platform: a session comes up at last while the plugin is exercised
\* (platform.js:61-82, 250-260).
PluginComesUp == part = "platform" => SessionComesUp
=============================================================================
