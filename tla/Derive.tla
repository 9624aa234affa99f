------------------------------- MODULE Derive --------------------------------
(***************************************************************************)
(* From the catalogue to entities (device/build_descriptors.py,            *)
(* classify_v3.py, device_types/, and Device of device/base.py of          *)
(* custom_components/aqara_lanlink): the traits of an endpoint, the local  *)
(* overlay on top of them, become descriptors by the composer of the       *)
(* endpoint's deviceType; each entity then registers with its device and   *)
(* takes the values seeded for the paths it reads.                         *)
(*                                                                         *)
(* One endpoint (composers see one at a time), whose traits have different *)
(* codes: a trait is known by its code, "Function.Trait", which stands for *)
(* its wire path too.  BUTTON_TRAITS is empty.  Names, units, device       *)
(* classes and bounds are left out, and so are the descriptors a camera    *)
(* class adds to the derived ones.                                         *)
(***************************************************************************)
EXTENDS Naturals, FiniteSets

CONSTANTS
    Menu,       \* of each deviceType: the arguments of Trait for what an endpoint
                \* may have
    Settings    \* the rid-keyed settings a model may have

VARIABLES
    type,       \* the endpoint's deviceType
    catalogue,  \* its traits in the catalogue
    overlay,    \* its traits in the overlay
    settings,   \* the model's settings
    pending,    \* paths in _pending_initial_values
    given,      \* _delivered_initial_values
    bound,      \* descriptors with an entity in _entities_by_descriptor
    raised,     \* descriptors whose entity could not be registered
    due,        \* history: <<descriptor, component, path>> of the seeds that were
                \* there when a stateful entity registered
    took        \* those it was given

deriveVars == <<type, catalogue, overlay, settings, pending, given, bound, raised,
                due, took>>

\* Settings are keyed by their rid, traits by a wire path, "and there is no bridge
\* between the two" (build_descriptors.py:80-82).
ASSUME DeriveAssumption ==
    /\ \A s, u \in Settings : s.rid = u.rid => s = u
    /\ \A ty \in DOMAIN Menu : \A a \in Menu[ty], s \in Settings : a[1] # s.rid

\* A trait, as far as its composer looks at it: its data type, the enum labels or
\* the range it may have, a model's platform override and auto-clear delay.
Trait(code, kind, has, platform) ==
    [code |-> code, kind |-> kind, platform |-> platform, writable |-> "writable" \in has,
     labels |-> "labels" \in has, ranged |-> "range" \in has, clears |-> "clears" \in has]

-----------------------------------------------------------------------------
(* Classification *)

\* The traits each composer takes for itself, and what it makes of them.
button == {<<"Button.ButtonEvent", "event">>}
contact_sensor == {<<"Contact.ContactSensorState", "binary_sensor">>}
cube == {<<"Cube.CubeEvent", "event">>, <<"Cube.RotationEvent", "event">>,
         <<"Cube.RotationAngle", "sensor">>}
door_lock == {<<"DoorLock.LockState", "dual">>, <<"DoorLock.DoorState", "dual">>,
              <<"DoorLock.StateOfLowBat", "binary_sensor">>,
              <<"DoorLock.RemoteUnlock", "switch">>}
doorbell == {<<"Doorbell.ButtonEvent", "event">>}
electrical_sensor == {<<"EnergyManagement.CurrentVoltage", "sensor">>,
                      <<"EnergyManagement.CurrentPower", "sensor">>,
                      <<"EnergyManagement.CumulativeEnergyConsumption", "sensor">>}
humidity_sensor == {<<"RelativeHumidity.CurrentHumidity", "sensor">>}
illuminance_sensor == {<<"Illuminance.CurrentIlluminance", "sensor">>}
pressure_sensor == {<<"Pressure.CurrentPressure", "sensor">>}
temperature_sensor == {<<"Temperature.CurrentTemperature", "sensor">>}
knob == {<<"Knob.RotationEvent", "event">>, <<"Button.ButtonEvent", "event">>}
occupancy_sensor(as) == {<<"OccupancySensing.Occupancy", as>>,
                         <<"OccupancySensing.MotionDetected", "binary_sensor">>}
speaker == {<<"Speaker.Volume", "number">>, <<"Speaker.Mute", "switch">>,
            <<"MediaPlayback.CurrentPlaybackState", "listed">>}
switch == {<<"Output.OnOff", "switch">>}
thermostat == {<<"HeaterCooler.CurrentTemperature", "sensor">>,
               <<"HeaterCooler.CurrentHumidity", "sensor">>,
               <<"HeaterCooler.HeaterCoolerMode", "select">>,
               <<"HeaterCooler.HeatingTemperature", "number">>,
               <<"HeaterCooler.CoolingTemperature", "number">>,
               <<"HeaterCooler.AntiFreezeTemperature", "number">>}
vibration_sensor == {<<"Vibration.VibrationEvent", "event">>,
                     <<"Vibration.VibrationDuration", "sensor">>}
window_covering == {<<"WindowCovering.CurrentPositionPercentage", "sensor">>,
                    <<"WindowCovering.TargetPositionPercentage", "number">>,
                    <<"WindowCovering.MotorOperationStatus", "listed">>}

\* The detectors of a camera, each with one trait of its own.
recognition(code) == {<<code, "momentary">>}
detection(code) == {<<code, "binary_sensor">>}
enum_event(code) == {<<code, "event">>}
id_event(code) == {<<code, "event">>}

\* The deviceTypes whose composer takes traits one at a time; all others but Light
\* (Camera, Hub, Public, Root, IRDevice, unknown ones) leave them to _fallback.
Composers == [
    Button |-> button, ContactSensor |-> contact_sensor, Cube |-> cube,
    DoorLock |-> door_lock, Doorbell |-> doorbell, ElectricalSensor |-> electrical_sensor,
    HumiditySensor |-> humidity_sensor, IlluminanceSensor |-> illuminance_sensor,
    Knob |-> knob, AtmosphericPressureSensor |-> pressure_sensor,
    PressureSensor |-> pressure_sensor, Speaker |-> speaker,
    Switch |-> switch, Outlet |-> switch, TemperatureSensor |-> temperature_sensor,
    Thermostat |-> thermostat, AirConditioner |-> thermostat,
    VibrationSensor |-> vibration_sensor, WindowCovering |-> window_covering,
    OccupancySensor |-> occupancy_sensor("binary_sensor"),
    MotionSensor |-> occupancy_sensor("momentary"),
    HumanDetector |-> recognition("HumanRecognition.HumanRecognitionReport"),
    SmileDetector |-> recognition("SmileRecognition.SmileRecognitionReport"),
    PackageDetector |-> detection("PackageRecognition.PackageRecognitionReport"),
    FaceScanner |-> id_event("FaceRecognition.FaceIDReport"),
    PetMonitor |-> enum_event("PetRecognition.PetRecognitionReport"),
    GestureSensor |-> enum_event("GestureRecognition.GestureRecognitionReport"),
    VehicleDetector |-> enum_event("VehicleDetection.VehicleDetected"),
    SoundSensor |-> enum_event("SoundDetection.AnomalySoundDetected"),
    FireAlarm |-> enum_event("FlameDetection.FlameDetected")]

\* A descriptor: its key, its platform, <<path, component>> of what it reads,
\* whether its values are moments, and whether it can be the key of a dict.
Descriptor(t, platform) ==
    [key |-> <<t.code, "auto">>, platform |-> platform, reads |-> {<<t.code, "value">>},
     momentary |-> platform = "event" \/ (platform = "binary_sensor" /\ t.clears),
     hashable |-> TRUE]

\* build_descriptor: nothing for an unknown platform, or a select without labels.
Platforms == {"sensor", "binary_sensor", "event", "select", "number", "switch", "button"}
build_descriptor(t, platform) ==
    IF platform \in Platforms /\ (platform = "select" => t.labels)
    THEN {Descriptor(t, platform)} ELSE {}

\* _fallback: by the trait's data type.
Fallback(t) ==
    build_descriptor(t,
        CASE t.kind = "bool"   -> IF t.writable THEN "switch" ELSE "binary_sensor"
          [] t.kind = "number" -> IF t.writable /\ t.ranged THEN "number" ELSE "sensor"
          [] t.kind = "enum"   -> IF t.writable /\ t.labels THEN "select" ELSE "sensor"
          [] OTHER -> "sensor")

\* The second entity a lock's states get.
Binary(t) == [Descriptor(t, "binary_sensor") EXCEPT !.key = <<t.code, "auto_binary">>]

\* What a composer makes of a trait it takes.  The options of a "listed" sensor
\* are a list, if it has any.
Absorb(t, as) ==
    CASE as = "dual" -> build_descriptor(t, "sensor") \cup {Binary(t)}
      [] as = "momentary" -> {[Descriptor(t, "binary_sensor") EXCEPT !.momentary = TRUE]}
      [] as = "listed" -> {[Descriptor(t, "sensor") EXCEPT !.hashable = ~t.labels]}
      [] OTHER -> {Descriptor(t, as)}

\* The composers that look at one trait at a time, and _select_composer's fallback.
Table == IF type \in DOMAIN Composers THEN Composers[type] ELSE {}
Composed(t) ==
    IF \E a \in Table : a[1] = t.code
    THEN UNION {Absorb(t, a[2]) : a \in {b \in Table : b[1] = t.code}}
    ELSE Fallback(t)
Compose(ts) == UNION {Composed(t) : t \in ts}

Fused == {"Output.OnOff", "LevelControl.CurrentLevel", "ColorControl.ColorTemperature",
          "ColorControl.ColorXY", "ColorControl.CurrentX", "ColorControl.CurrentY"}

\* light.compose: one light of up to four traits, if it has On/Off at all.
HasTrait(ts, code) == \E t \in ts : t.code = code
LightPart(ts, code, component) == IF HasTrait(ts, code) THEN {<<code, component>>} ELSE {}
LightDescriptor(ts) ==
    [key |-> <<"Output.OnOff", "auto">>, platform |-> "light",
     reads |-> LightPart(ts, "Output.OnOff", "power")
               \cup LightPart(ts, "LevelControl.CurrentLevel", "brightness")
               \cup LightPart(ts, "ColorControl.ColorTemperature", "color_temp")
               \cup (IF HasTrait(ts, "ColorControl.ColorXY")
                     THEN LightPart(ts, "ColorControl.ColorXY", "color_xy")
                     ELSE IF HasTrait(ts, "ColorControl.CurrentY")
                     THEN LightPart(ts, "ColorControl.CurrentX", "color_xy") ELSE {}),
     momentary |-> FALSE, hashable |-> TRUE]
ComposeLight(ts) ==
    (IF HasTrait(ts, "Output.OnOff") THEN {LightDescriptor(ts)} ELSE {})
    \cup UNION {Fallback(t) : t \in {u \in ts : u.code \notin Fused}}

\* _merge_overlay_into_catalogue.
Merged == overlay \cup {t \in catalogue : \A u \in overlay : u.code # t.code}

\* Mutation: a trait that is forced to a platform passes to the composer as well.
M_Passthrough(ts) == ts

\* The traits that _apply_platform_overrides leaves to the composer.
Passthrough(ts) == {t \in ts : t.platform = "none"}

\* classify_v3: an override makes its descriptor itself, but on a light.
classify_v3(ts) ==
    IF type = "Light" THEN ComposeLight(ts)
    ELSE (UNION {build_descriptor(t, t.platform) : t \in {u \in ts : u.platform # "none"}})
         \cup Compose(Passthrough(ts))

\* build_setting_descriptors: one per setting of a platform it knows.
SettingPlatforms == {"switch", "select", "number", "text", "button"}
SettingDescriptors ==
    {[key |-> <<s.rid, "setting">>, platform |-> s.platform,
      reads |-> {<<s.rid, "value">>}, momentary |-> FALSE, hashable |-> TRUE]
        : s \in {u \in settings : u.platform \in SettingPlatforms}}

build_descriptors == classify_v3(Merged) \cup SettingDescriptors

-----------------------------------------------------------------------------
(* The device *)

Readers(p) == {d \in build_descriptors : \E r \in d.reads : r[1] = p}
Read == {r[1] : r \in UNION {d.reads : d \in build_descriptors}}

Offered(ty) == {Trait(a[1], a[2], a[3], a[4]) : a \in Menu[ty]}

DeriveTypeOK ==
    /\ type \in DOMAIN Menu
    /\ catalogue \subseteq Offered(type) /\ overlay \subseteq Offered(type)
    /\ settings \subseteq Settings
    /\ pending \subseteq Read /\ given \subseteq Read
    /\ bound \subseteq build_descriptors /\ raised \subseteq build_descriptors

OnePerCode(ts) == \A t, u \in ts : t.code = u.code => t = u

DeriveInit ==
    /\ type \in DOMAIN Menu
    /\ catalogue \in {ts \in SUBSET Offered(type) : OnePerCode(ts)}
    /\ overlay \in {ts \in SUBSET Offered(type) : OnePerCode(ts) /\ Cardinality(ts) <= 1}
    /\ settings \in SUBSET Settings
    /\ pending = {} /\ given = {}
    /\ bound = {} /\ raised = {}
    /\ due = {} /\ took = {}

\* seed_initial_value, for a path that was not delivered yet.
seed_initial_value(p) ==
    /\ p \in Read \ pending
    /\ p \notin given
    /\ pending' = pending \cup {p}
    /\ UNCHANGED <<type, catalogue, overlay, settings, given, bound, raised, due,
                   took>>

\* What of a stateful entity's paths is in a set of them.
SeededValues(d, paths) ==
    IF d.momentary THEN {} ELSE {<<d, r[2], r[1]>> : r \in {s \in d.reads : s[1] \in paths}}

\* register_entity, from async_added_to_hass: the first reader of a path takes its
\* seed.  A descriptor that cannot be hashed raises before anything is done.
register_entity(d) ==
    /\ d \in build_descriptors \ (bound \cup raised)
    /\ IF d.hashable
       THEN LET paths == {r[1] : r \in d.reads} \cap pending
            IN  /\ bound' = bound \cup {d}
                /\ pending' = pending \ paths
                /\ given' = given \cup paths
                /\ due' = due \cup SeededValues(d, pending \cup given)
                /\ took' = took \cup SeededValues(d, paths)
                /\ UNCHANGED raised
       ELSE /\ raised' = raised \cup {d}
            /\ UNCHANGED <<pending, given, bound, due, took>>
    /\ UNCHANGED <<type, catalogue, overlay, settings>>

DeriveNext ==
    \/ \E p \in Read : seed_initial_value(p)
    \/ \E d \in build_descriptors : register_entity(d)

DeriveSpec == DeriveInit /\ [][DeriveNext]_deriveVars

-----------------------------------------------------------------------------
(* Properties *)

\* An endpoint's entities have keys of their own, and a trait has one reader, whatever
\* the overlay replaces and the overrides take out of a composer's hands: two would
\* share a unique_id or write over each other.  The states of a lock have two, with
\* different keys (classify_v3.py:60-72, door_lock.py:55-76).
EntitiesAreDistinct ==
    /\ \A d, e \in build_descriptors : d.key = e.key => d = e
    /\ \A p \in Read :
          Cardinality(Readers(p)) <= IF type = "DoorLock" /\ <<p, "dual">> \in door_lock
                                     THEN 2 ELSE 1

\* Not so (device_types/_build.py:58-61, a list "would crash entity registration"):
\* two composers build their sensor with a list of options all the same.
EveryEntityRegisters == raised = {}

\* Not so: every reader of a path gets the value seeded for it.  The first entity
\* to register takes it and marks the path delivered; the other entity of a lock's
\* state is left without (base.py:424-430).
SeedReachesReaders == due \subseteq took

\* Not so: every trait is read by some entity.  A light's traits are dropped with
\* its On/Off, and so is an override that lacks its labels (light.py:75-87,
\* classify_v3.py:120-134).
EveryTraitIsRead == {t.code : t \in Merged} \subseteq Read
=============================================================================
