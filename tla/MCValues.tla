------------------------------ MODULE MCValues ------------------------------
(* What is shown of a device: how its entities come to be (Derive), what they *)
(* show and write (Controls, Composite, Light, Presets), the reports and the  *)
(* cloud's answers that compete for it (Reports), and the same at the         *)
(* controllers of the plugin (Twin).  The parts share no variable, so each    *)
(* behaviour exercises one of them, chosen at the start.                      *)
EXTENDS Reports, Twin, Composite, Controls, Light, Presets, Derive

CONSTANTS n1, q1, q2, a1, a2    \* a preset, its positions, and recalls

VARIABLE part

\* Two colours of the user's, one at the ends of both coordinates.
Picked == {<<313, 329>>, <<1000, 0>>}

OneSetting == {[rid |-> "4.1.85", platform |-> "switch"]}

\* A composer of each shape, each with a trait it takes and others it leaves, and
\* what a correction in the overlay or a model's override may make of them.
ModelMenu ==
   [Switch |-> {<<"Output.OnOff", "bool", {"writable"}, "none">>,
                <<"Output.OnOff", "bool", {}, "sensor">>,
                <<"Basic.Level", "number", {"writable", "range"}, "none">>},
    Root |-> {<<"Basic.Mode", "enum", {"writable", "labels"}, "none">>,
              <<"Basic.Mode", "enum", {"writable"}, "select">>,
              <<"Basic.Alarm", "bool", {"clears"}, "binary_sensor">>},
    MotionSensor |-> {<<"OccupancySensing.Occupancy", "bool", {}, "none">>,
                      <<"OccupancySensing.MotionDetected", "bool", {}, "none">>},
    Button |-> {<<"Button.ButtonEvent", "enum", {"labels"}, "none">>,
                <<"Button.ButtonEvent", "enum", {"labels"}, "sensor">>},
    DoorLock |-> {<<"DoorLock.LockState", "enum", {"labels"}, "none">>,
                  <<"DoorLock.LockState", "enum", {"labels"}, "sensor">>,
                  <<"DoorLock.StateOfLowBat", "bool", {}, "none">>},
    WindowCovering |->
        {<<"WindowCovering.MotorOperationStatus", "enum", {"labels"}, "none">>,
         <<"WindowCovering.MotorOperationStatus", "enum", {}, "none">>,
         <<"WindowCovering.TargetPositionPercentage", "number", {"writable"},
           "none">>},
    Light |-> {<<"Output.OnOff", "bool", {"writable"}, "none">>,
               <<"Output.OnOff", "bool", {"writable"}, "sensor">>,
               <<"ColorControl.ColorXY", "number", {"writable"}, "none">>,
               <<"ColorControl.CurrentX", "number", {"writable"}, "none">>,
               <<"ColorControl.CurrentY", "number", {"writable"}, "none">>}]

ASSUME ValuesAssumption ==
    /\ ReportsAssumption /\ TwinAssumption /\ CompositeAssumption
    /\ ControlsAssumption /\ LightAssumption

\* The parts that are not exercised start in one state.
PartInit ==
    /\ part \in {"reports", "twin", "composite", "controls", "light", "presets",
                 "derive"}
    /\ DeriveInit
    /\ part # "derive" => /\ type = "Root"
                          /\ catalogue = {} /\ overlay = {} /\ settings = {}
    /\ TwinInit
    /\ part # "twin" => lamp = [t \in Traits |-> 0]
    /\ CompositeInit
    /\ part # "composite" => codec = "region"
    /\ ControlsInit
    /\ part # "controls" => kind = "light" /\ device = "0"
    /\ LightInit
    /\ part # "light" => bulb.mired = 153 /\ heardOf = Components
    /\ PresetsInit
    /\ part # "presets" => cloud = [n \in Names |-> q1]
    /\ Init

allVars == <<part, vars, pluginVars, compositeVars, controlVars,
             lightVars, presetVars, deriveVars>>

PartNext ==
    \/ /\ part = "reports" /\ Next
       /\ UNCHANGED <<part, pluginVars, compositeVars, controlVars, lightVars,
                      presetVars, deriveVars>>
    \/ /\ part = "twin" /\ TwinNext
       /\ UNCHANGED <<part, vars, compositeVars, controlVars, lightVars,
                      presetVars, deriveVars>>
    \/ /\ part = "composite" /\ CompositeNext
       /\ UNCHANGED <<part, vars, pluginVars, controlVars, lightVars,
                      presetVars, deriveVars>>
    \/ /\ part = "controls" /\ ControlsNext
       /\ UNCHANGED <<part, vars, pluginVars, compositeVars, lightVars,
                      presetVars, deriveVars>>
    \/ /\ part = "light" /\ LightNext
       /\ UNCHANGED <<part, vars, pluginVars, compositeVars, controlVars,
                      presetVars, deriveVars>>
    \/ /\ part = "presets" /\ PresetsNext
       /\ UNCHANGED <<part, vars, pluginVars, compositeVars, controlVars,
                      lightVars, deriveVars>>
    \/ /\ part = "derive" /\ DeriveNext
       /\ UNCHANGED <<part, vars, pluginVars, compositeVars, controlVars,
                      lightVars, presetVars>>

PartSpec == PartInit /\ [][PartNext]_allVars
=============================================================================
