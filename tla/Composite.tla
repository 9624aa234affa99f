------------------------------ MODULE Composite ------------------------------
(***************************************************************************)
(* A composite setting of custom_components/aqara_lanlink: one wire value  *)
(* of the device that packs several fields, each its own Home Assistant    *)
(* entity, behind one CompositeController.  A device has no local read of  *)
(* such a value: it is known from the cloud seed of the setup and from the *)
(* writes of this controller.                                              *)
(*                                                                         *)
(* Requests and answers travel on one tunnel and keep their order; a call  *)
(* gives up after its timeout whether or not the device got it.  The       *)
(* owner's phone may write the same setting without our hearing of it.     *)
(***************************************************************************)
EXTENDS Integers, Sequences, FiniteSets

CONSTANTS
    Codecs,     \* the codecs under study, a subset of AllCodecs
    Minutes,    \* times of day, in minutes
    Levels,     \* brightness levels and other integers of a field
    MaxSettings \* bound: writes in flight

AllCodecs == {"period", "brightness", "schedule", "region", "bbox", "preset"}

CompositeAssumption ==
    /\ Codecs \subseteq AllCodecs
    /\ Minutes \subseteq 0..1439
    /\ Levels \subseteq 0..65535
    /\ MaxSettings \in Nat

VARIABLES
    codec,      \* the codec of the catalogue for this rid
    fields,     \* _fields
    restored,   \* _seeded
    onWire,     \* the value on the device
    setting,    \* async_set calls whose request the device or we still have to see
    spoiled     \* the device may hold something we never heard of

compositeVars == <<codec, fields, restored, onWire, setting, spoiled>>

-----------------------------------------------------------------------------
(* The codecs: fields of a codec, and its two directions *)

Texts == {"good", "bad"}        \* free text the codec accepts or refuses

FieldsOf(c) ==
    CASE c = "period"     -> [start : Minutes, end : Minutes, enabled : BOOLEAN]
      [] c = "brightness" -> [auto : BOOLEAN, colour : Levels, bw : Levels]
      [] c = "schedule"   -> [start : Minutes, end : Minutes, repeat : Texts]
      [] c = "region"     -> [region : Texts]
      [] c = "bbox"       -> [x_begin : Levels, x_end : Levels,
                              y_begin : Levels, y_end : Levels]
      [] c = "preset"     -> [mode : Levels, x : Levels, y : Levels]

defaults(c) ==
    CASE c = "period"     -> [start |-> 0, end |-> 1439, enabled |-> TRUE]
      [] c = "brightness" -> [auto |-> TRUE, colour |-> 100, bw |-> 100]
      [] c = "schedule"   -> [start |-> 0, end |-> 1439, repeat |-> "good"]
      [] c = "region"     -> [region |-> "good"]
      [] c = "bbox"       -> [x_begin |-> 0, x_end |-> 8, y_begin |-> 0, y_end |-> 8]
      [] c = "preset"     -> [mode |-> 0, x |-> 999, y |-> 999]

\* The end of the window has 11 bits, the start the rest, wrapped at a day.
PeriodWire(f) == f.start * 4096 + f.end * 2 + (IF f.enabled THEN 0 ELSE 1)
PeriodFields(w) ==
    [start   |-> (w \div 4096) % 1440,
     end     |-> ((w \div 2) % 2048) % 1440,
     enabled |-> w % 2 = 0]

\* Zero is Auto, on the wire and for whatever encodes to it.
BrightnessWire(f) == IF f.auto THEN 0 ELSE f.bw * 65536 + f.colour
BrightnessFields(w) ==
    IF w = 0 THEN defaults("brightness")
    ELSE [auto |-> FALSE, colour |-> w % 65536, bw |-> w \div 65536]

\* The other codecs wrap the fields in JSON, which loses nothing.
Encode(c, f) ==
    CASE c = "period" -> PeriodWire(f)
      [] c = "brightness" -> BrightnessWire(f)
      [] OTHER -> f
Decode(c, w) ==
    CASE c = "period" -> PeriodFields(w)
      [] c = "brightness" -> BrightnessFields(w)
      [] OTHER -> w

\* A repeat that is not seven 0s and 1s, or a region that is not JSON though it
\* looks it, cannot be encoded (and a schedule with such a repeat not decoded).
Encodable(c, f) ==
    /\ c = "schedule" => f.repeat = "good"
    /\ c = "region" => f.region = "good"

\* What devices of this kind hold.
Wires(c) == {Encode(c, f) : f \in {g \in FieldsOf(c) : Encodable(c, g)}}

-----------------------------------------------------------------------------

CompositeTypeOK ==
    /\ codec \in Codecs
    /\ DOMAIN fields = DOMAIN defaults(codec)
    /\ {restored, spoiled} \subseteq BOOLEAN
    /\ Len(setting) <= MaxSettings

CompositeInit ==
    /\ codec \in Codecs
    /\ onWire \in Wires(codec)
    /\ fields = defaults(codec) /\ restored = FALSE
    /\ setting = <<>>
    /\ spoiled = FALSE

\* A new controller starts from the codec's defaults.
Rebuild == fields' = defaults(codec) /\ restored' = FALSE

\* seed(): the fields of a wire value.
seed == fields' = Decode(codec, onWire) /\ restored' = TRUE

\* The setup rebuilds the controller and reads the cloud once: its answer, or
\* none, or one that cannot be decoded, which leave the defaults unseeded.
Setup ==
    /\ setting = <<>>
    /\ UNCHANGED <<codec, onWire, setting>>
    /\ seed \/ Rebuild
    /\ spoiled' = FALSE

\* Mutation: the entities are available before the seed.
M_available == TRUE

\* Home Assistant calls no service of an unavailable entity.
available == restored

\* What async_set sends: a copy of all the fields with one changed.
Copy(n, v) == [fields EXCEPT ![n] = v]

\* async_set up to its await; only available entities are written to.  An
\* encoding that raises leaves everything as it was.
async_set(n, v) ==
    /\ available
    /\ Len(setting) < MaxSettings
    /\ LET new == Copy(n, v)
       IN  /\ Encodable(codec, new)
           /\ setting' = Append(setting, [new |-> new, state |-> "sent", heard |-> TRUE])
    /\ UNCHANGED <<codec, fields, restored, onWire, spoiled>>

\* The first call the device has not seen.
Arrives(i) ==
    /\ i \in DOMAIN setting
    /\ setting[i].state = "sent"
    /\ \A j \in 1..(i - 1) : setting[j].state # "sent"

\* The device takes the value, or the call is refused or dies with the link.
Takes(i) ==
    /\ Arrives(i)
    /\ onWire' = Encode(codec, setting[i].new)
    /\ setting' = [setting EXCEPT ![i].state = "applied"]
    /\ UNCHANGED <<codec, fields, restored, spoiled>>
Refuses(i) ==
    /\ Arrives(i)
    /\ setting' = [setting EXCEPT ![i].state = "refused"]
    /\ UNCHANGED <<codec, fields, restored, onWire, spoiled>>

\* Mutation: the fields are committed whatever the answer says.
M_Commit(call) == IF call.heard THEN call.new ELSE fields

\* async_set after its await: only a write that succeeded is committed.
Commit(call) == IF call.heard /\ call.state = "applied" THEN call.new ELSE fields

\* The answer to the oldest call.
Committed ==
    /\ setting # <<>>
    /\ Head(setting).state # "sent"
    /\ fields' = Commit(Head(setting))
    /\ setting' = Tail(setting)
    /\ UNCHANGED <<codec, restored, onWire, spoiled>>

\* The call gives up; its request may still reach the device.
Timeout(i) ==
    /\ i \in DOMAIN setting
    /\ setting[i].heard
    /\ setting' = [setting EXCEPT ![i].heard = FALSE]
    /\ spoiled' = TRUE
    /\ UNCHANGED <<codec, fields, restored, onWire>>

\* The owner changes the setting from the phone.
Phone ==
    /\ \E w \in Wires(codec) : onWire' = w
    /\ spoiled' = TRUE
    /\ UNCHANGED <<codec, fields, restored, setting>>

CompositeNext ==
    \/ Setup \/ Committed \/ Phone
    \/ \E n \in DOMAIN fields :
           \E v \in {f[n] : f \in FieldsOf(codec)} : async_set(n, v)
    \/ \E i \in 1..MaxSettings : Takes(i) \/ Refuses(i) \/ Timeout(i)

CompositeSpec == CompositeInit /\ [][CompositeNext]_compositeVars

-----------------------------------------------------------------------------
(* Properties *)

\* Once no write is under way the entities show what the device holds, whatever
\* order writes, refusals and answers came in, unless the phone wrote or a call
\* timed out since the seed (composites/controller.py:69-82).
ShownIsOnDevice ==
    restored /\ setting = <<>> /\ ~spoiled =>
        fields = Decode(codec, onWire) \/ Encode(codec, fields) = onWire

\* Not so: of two fields set in one automation both reach the device.  The
\* second call copies the fields before the first is committed, and writes the
\* first one's old value back (composites/controller.py:77-81).
BothFieldsArrive ==
    [][\A i \in DOMAIN setting :
         /\ Takes(i) /\ ~spoiled
         /\ codec = "brightness" => onWire # 0 /\ onWire' # 0
         => Cardinality({n \in DOMAIN fields :
                Decode(codec, onWire)[n] # Decode(codec, onWire')[n]}) <= 1]_compositeVars

\* Not so: a setting whose Auto is shown off is not in Auto on the device; with
\* both levels 0 the wire value is Auto's (composites/codecs.py:100-111).
ShownOffIsOff ==
    restored /\ setting = <<>> /\ ~spoiled /\ codec = "brightness" =>
        fields.auto = Decode(codec, onWire).auto
=============================================================================
