-------------------------------- MODULE Light --------------------------------
(***************************************************************************)
(* A light of custom_components/aqara_lanlink: AqaraLight converts Home    *)
(* Assistant's level (0..255), colour temperature (kelvin) and colour (two *)
(* coordinates) to the wire's percent, mired and packed colour, and back   *)
(* when the lamp reports its components, one by one.  Effects are scenes:  *)
(* static ones are written to the lamp, dynamic ones started through the   *)
(* cloud.                                                                  *)
(***************************************************************************)
EXTENDS Integers, Sequences, FiniteSets

CONSTANTS
    UserLevels, \* levels the user sets
    Percents,   \* levels the lamp is set to otherwise
    Mireds,     \* colour temperatures of the lamp
    Coord,      \* a coordinate of 1 on the wire: 65535, or less for integers
                \* that do not hold two coordinates of 16 bits
    Unit,       \* a coordinate of 1 in Home Assistant: it shows, and the user
                \* sets, multiples of 1/Unit
    Hues,       \* packed colours the lamp is set to otherwise
    Colours,    \* pairs of coordinates the user sets
    Scenes      \* names of dynamic effects

PackedHues == 0..(Coord * (Coord + 1) + Coord)

LightAssumption ==
    /\ UserLevels \subseteq 1..255
    /\ Percents \subseteq 0..100
    /\ Mireds \subseteq 1..1000
    /\ Coord \in Nat \ {0} /\ Unit \in Nat /\ Coord < Unit
    /\ Hues \subseteq PackedHues
    /\ Colours \subseteq (0..Unit) \X (0..Unit)

VARIABLES
    bulb,       \* the lamp: on, percent, mired, hue, mode and running effect
    attrs,      \* the attributes: on, level, kelvin, xy, mode and effect
    components, \* components under way to us
    heardOf     \* history: the components whose last change we were, or are being, told

lightVars == <<bulb, attrs, components, heardOf>>

NoEffect == "none"
Unread == "unread"

-----------------------------------------------------------------------------
(* Conversions *)

\* Python's round of a/b: ties go to the even neighbour.
Rounded(a, b) ==
    LET q == a \div b
        r == 2 * (a % b)
    IN  IF r < b \/ (r = b /\ q % 2 = 0) THEN q ELSE q + 1

\* Mutation: the percent is cut off instead of rounded.
M_Percent(level) == (level * 100) \div 255

Percent(level) == Rounded(level * 100, 255)
Level(percent) == Rounded(percent * 255, 100)
Kelvin(mired) == Rounded(1000000, mired)
Mired(kelvin) == Rounded(1000000, kelvin)

\* Mutation: a coordinate is cut off instead of rounded.
M_ToWire(u) == ((u * Coord) \div Unit) % (Coord + 1)

\* A coordinate: round(u * 65535) & 0xFFFF, and n / 65535.0.
ToWire(u) == Rounded(u * Coord, Unit) % (Coord + 1)
FromWire(n) == Rounded(n * Unit, Coord)

\* A colour: (x << 16) | y, and the two halves.
Packed(xy) == ToWire(xy[1]) * (Coord + 1) + ToWire(xy[2])
Unpacked(h) == <<FromWire((h \div (Coord + 1)) % (Coord + 1)), FromWire(h % (Coord + 1))>>

-----------------------------------------------------------------------------

Components == {"power", "brightness", "color_temp", "color_xy"}

\* The value of a component of the lamp l.
Value(l, c) ==
    CASE c = "power" -> l.on
      [] c = "brightness" -> l.percent
      [] c = "color_temp" -> l.mired
      [] c = "color_xy" -> l.hue

LightTypeOK ==
    /\ bulb.mode \in {"color_temp", "color_xy"}
    /\ attrs.mode \in {"color_temp", "color_xy"}
    /\ Len(components) <= 4

\* The entity has been added with the seeds of the components that had a reading,
\* handed out in the order power, brightness, color_temp, color_xy, each setting
\* the mode it is of.
LightInit ==
    /\ bulb \in [on : {FALSE}, percent : {100}, mired : Mireds, hue : Hues,
                 mode : {"color_temp"}, effect : {NoEffect}]
    /\ heardOf \in SUBSET Components
    /\ LET seed(c, v) == IF c \in heardOf THEN v ELSE Unread
       IN  attrs = [on |-> seed("power", bulb.on),
                    level |-> seed("brightness", Level(bulb.percent)),
                    kelvin |-> seed("color_temp", Kelvin(bulb.mired)),
                    xy |-> seed("color_xy", Unpacked(bulb.hue)),
                    mode |-> IF "color_xy" \in heardOf THEN "color_xy" ELSE "color_temp",
                    effect |-> NoEffect]
    /\ components = <<>>

\* The lamp becomes `new' and reports the components written to it.
Become(new, written) ==
    /\ bulb' = new
    /\ components' = [i \in DOMAIN written |-> <<written[i], Value(new, written[i])>>]
    /\ heardOf' = heardOf \cup {written[i] : i \in DOMAIN written}

\* async_turn_on without an effect: power, and what else was asked for.
TurnOnLevel(b) ==
    /\ components = <<>>
    /\ Become([bulb EXCEPT !.on = TRUE, !.percent = Percent(b)], <<"power", "brightness">>)
    /\ UNCHANGED attrs
TurnOnKelvin(k) ==
    /\ components = <<>>
    /\ Become([bulb EXCEPT !.on = TRUE, !.mired = Mired(k), !.mode = "color_temp",
                           !.effect = NoEffect],
              <<"power", "color_temp">>)
    /\ UNCHANGED attrs
TurnOnColour(xy) ==
    /\ components = <<>>
    /\ Become([bulb EXCEPT !.on = TRUE, !.hue = Packed(xy), !.mode = "color_xy",
                           !.effect = NoEffect],
              <<"power", "color_xy">>)
    /\ UNCHANGED attrs
TurnOff ==
    /\ components = <<>>
    /\ Become([bulb EXCEPT !.on = FALSE, !.effect = NoEffect], <<"power">>)
    /\ UNCHANGED attrs

\* A static effect is a colour temperature and a brightness.
StaticEffect(e, m, p) ==
    /\ components = <<>>
    /\ Become([bulb EXCEPT !.on = TRUE, !.mired = m, !.percent = p,
                           !.mode = "color_temp", !.effect = e],
              <<"power", "color_temp", "brightness">>)
    /\ attrs' = [attrs EXCEPT !.effect = e]

\* A dynamic one: the lamp is turned on, then the cloud asked to run the scene;
\* if it cannot the call fails and the lamp stays on.
DynamicEffect(e) ==
    /\ components = <<>>
    /\ \E started \in BOOLEAN :
           /\ Become([bulb EXCEPT !.on = TRUE, !.effect = IF started THEN e ELSE @],
                     <<"power">>)
           /\ attrs' = IF started THEN [attrs EXCEPT !.effect = e] ELSE attrs

\* The lamp is set from elsewhere and reports it.
Elsewhere ==
    /\ components = <<>>
    /\ \/ \E p \in Percents : Become([bulb EXCEPT !.percent = p], <<"brightness">>)
       \/ \E m \in Mireds :
              Become([bulb EXCEPT !.mired = m, !.mode = "color_temp"], <<"color_temp">>)
       \/ \E h \in Hues :
              Become([bulb EXCEPT !.hue = h, !.mode = "color_xy"], <<"color_xy">>)
    /\ UNCHANGED attrs

\* What is under way is lost: with the link, or because the hub is not subscribed.
\* The answer to a re-arm does not make up for it: its values are seeds, which an
\* entity that has been added is not given.
LoseComponents ==
    /\ components # <<>>
    /\ components' = <<>>
    /\ heardOf' = heardOf \ {components[i][1] : i \in DOMAIN components}
    /\ UNCHANGED <<bulb, attrs>>

\* apply_value: the active mode is that of the last colour component reported.
apply_component(c, v) ==
    CASE c = "power" -> [attrs EXCEPT !.on = v]
      [] c = "brightness" -> [attrs EXCEPT !.level = Level(v)]
      [] c = "color_temp" -> [attrs EXCEPT !.kelvin = Kelvin(v), !.mode = c]
      [] c = "color_xy" -> [attrs EXCEPT !.xy = Unpacked(v), !.mode = c]
HearComponent ==
    /\ components # <<>>
    /\ attrs' = apply_component(components[1][1], components[1][2])
    /\ components' = Tail(components)
    /\ UNCHANGED <<bulb, heardOf>>

LightNext ==
    \/ \E b \in UserLevels : TurnOnLevel(b)
    \/ \E m \in Mireds : TurnOnKelvin(Kelvin(m))
    \/ \E xy \in Colours : TurnOnColour(xy)
    \/ \E e \in Scenes : DynamicEffect(e)
    \/ \E m \in Mireds, p \in {30, 100} : StaticEffect("static", m, p)
    \/ TurnOff \/ Elsewhere \/ LoseComponents \/ HearComponent

LightSpec == LightInit /\ [][LightNext]_lightVars

-----------------------------------------------------------------------------
(* Properties *)

\* What is shown of a component whose last change was told, set again, changes
\* nothing: no conversion there and back drifts, neither of a level, nor of a
\* colour temperature, nor of a colour taken apart and packed again, and no report
\* of one component touches another (light.py:94-117, 171-187, 219-223).
NothingDrifts ==
    components = <<>> =>
        /\ "power" \in heardOf => attrs.on = bulb.on
        /\ "brightness" \in heardOf => Percent(attrs.level) = bulb.percent
        /\ "color_temp" \in heardOf => Mired(attrs.kelvin) = bulb.mired
        /\ "color_xy" \in heardOf => Packed(attrs.xy) = bulb.hue

\* Not so: the wire carries 1 to 100 percent (light.py:98); level 1 of Home
\* Assistant is written as 0.
PercentIsOneToHundred == bulb.percent \in 1..100

\* Not so: the mode shown is the lamp's; the seeds of an entity that is added leave
\* that of the colour component that comes last (light.py:100-117, base.py:121-126).
ModeIsTheLamps == components = <<>> => attrs.mode = bulb.mode

\* Not so: the effect shown is running; nothing resets it when another colour
\* is set or the lamp turned off (light.py:122-127, 169).
EffectIsRunning == components = <<>> => attrs.effect = bulb.effect
=============================================================================
