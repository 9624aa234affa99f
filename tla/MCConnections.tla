---------------------------- MODULE MCConnections ----------------------------
(* The connections the integration keeps: to the hub (Coordinator) and, for a *)
(* camera, to its motors (Ptz), to its voice channel (Talk) and the streams   *)
(* of the bridge (Streams); and the loops that bring a sleeping device back   *)
(* to the hub (Rearm, the default times in units of 15 seconds).  The parts   *)
(* share no variable, so each behaviour exercises one of them, chosen at the  *)
(* start.                                                                     *)
EXTENDS Coordinator, Ptz, Talk, Streams, Rearm

CONSTANTS p1, p2, c1, c2    \* play_audio_file calls, cameras

VARIABLE part

FourBackoffs == <<1, 1, 2, 4>>

ASSUME ConnectionsAssumption ==
    PtzAssumption /\ TalkAssumption /\ StreamsAssumption /\ RearmAssumption

\* The parts that are not exercised start in one state.
PartInit ==
    /\ part \in {"hub", "ptz", "talk", "streams", "rearm"}
    /\ Init /\ PtzInit /\ TalkInit /\ StreamsInit /\ RearmInit
    /\ part # "hub" => hubUp /\ hubAt = Endpoints /\ host = CHOOSE e \in Endpoints : TRUE
    /\ part # "streams" => file = {}
    /\ part # "rearm" => listed = {}

PartNext ==
    \/ /\ part = "hub" /\ Next
       /\ UNCHANGED <<part, ptzVars, talkVars, streamVars, rearmVars>>
    \/ /\ part = "ptz" /\ PtzNext
       /\ UNCHANGED <<part, vars, talkVars, streamVars, rearmVars>>
    \/ /\ part = "talk" /\ TalkNext
       /\ UNCHANGED <<part, vars, ptzVars, streamVars, rearmVars>>
    \/ /\ part = "streams" /\ StreamsNext
       /\ UNCHANGED <<part, vars, ptzVars, talkVars, rearmVars>>
    \/ /\ part = "rearm" /\ RearmNext
       /\ UNCHANGED <<part, vars, ptzVars, talkVars, streamVars>>

\* The fairness of each part (see its Fairness) while it is exercised.
PartSpec ==
    /\ PartInit /\ [][PartNext]_<<part, vars, ptzVars, talkVars, streamVars, rearmVars>>
    /\ WF_vars(part = "hub" /\ RunLoop)
    /\ WF_vars(part = "hub" /\ KeepaliveLost)
    /\ WF_vars(part = "hub" /\ Cancelled)
    /\ WF_vars(part = "hub" /\ StopReturns)
    /\ WF_ptzVars(part = "ptz" /\ Idle)
    /\ WF_ptzVars(part = "ptz" /\ Shutdown)
    /\ \A t \in Tasks : WF_ptzVars(part = "ptz" /\ Step(t))
    /\ WF_talkVars(part = "talk" /\ Wake)
    /\ WF_talkVars(part = "talk" /\ Beat)
    /\ WF_rearmVars(part = "rearm" /\ Tick)
    /\ WF_rearmVars(part = "rearm" /\ Sweep)
    /\ \A d \in Activated, i \in Ids : WF_rearmVars(part = "rearm" /\ LoopStep(d, i))
=============================================================================
