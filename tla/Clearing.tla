------------------------------ MODULE Clearing -------------------------------
(***************************************************************************)
(* A binary sensor.  A momentary one (a camera's detection, which reports  *)
(* that something was seen and often never that it is gone) clears itself  *)
(* a delay after the last detection; the delay of a camera is a number     *)
(* entity of its own, kept by Home Assistant alone.  A stateful one (a     *)
(* door) restores its last state when it is added, before the seed.        *)
(*                                                                         *)
(* Time is counted in ticks.                                               *)
(***************************************************************************)
EXTENDS Naturals

CONSTANTS
    Baked,      \* delay of the descriptor, in ticks
    Delays      \* what the user may set the number entity to

AllDelays == Delays \cup {Baked}

\* The number entity has a maximum.
ClearingAssumption ==
    /\ Baked \in Nat \ {0} /\ Delays \subseteq Nat \ {0}
    /\ \E d \in AllDelays : \A e \in AllDelays : e <= d

Longest == CHOOSE d \in AllDelays : \A e \in AllDelays : e <= d

VARIABLES
    momentary,  \* the descriptor clears itself
    present,    \* the entity is added
    on,         \* _attr_is_on
    clears,    \* ticks left of each pending _auto_clear
    number,     \* the delay entity's value; 0: it is not set up yet
    saved,      \* last states in the recorder: <<sensor, number>>
    age,        \* ticks since the last detection, while its timer runs
    due         \* the delay that detection was given

clearingVars == <<momentary, present, on, clears, number, saved, age, due>>

ClearingTypeOK ==
    /\ {momentary, present, on} \subseteq BOOLEAN
    /\ clears \subseteq 0..Longest
    /\ number \in Delays \cup {0, Baked}
    /\ saved \in BOOLEAN \X AllDelays
    /\ {age, due} \subseteq 0..Longest

ClearingInit ==
    /\ momentary \in BOOLEAN
    /\ saved \in BOOLEAN \X AllDelays
    /\ present = FALSE
    /\ on = FALSE
    /\ clears = {}
    /\ number = 0
    /\ age = 0 /\ due = 0

\* Mutation: the number entity is asked before it is set up.
M_resolve_auto_clear_seconds == number

\* resolve_auto_clear_seconds: the user's delay once its entity is set up.
resolve_auto_clear_seconds == IF number # 0 THEN number ELSE Baked

\* The last state is restored for a stateful sensor, then the cloud's seed, if
\* there is one, replaces it.
Add ==
    /\ ~present
    /\ present' = TRUE
    /\ on' \in IF momentary THEN {FALSE} ELSE {saved[1]} \cup BOOLEAN
    /\ UNCHANGED <<momentary, clears, number, saved, age, due>>

\* The number platform is set up: the default, or the value restored.
AddNumber ==
    /\ number = 0
    /\ number' = saved[2]
    /\ UNCHANGED <<momentary, present, on, clears, saved, age, due>>
SetDelay(d) ==
    /\ number # 0
    /\ number' = d
    /\ saved' = [saved EXCEPT ![2] = d]
    /\ UNCHANGED <<momentary, present, on, clears, age, due>>

\* Mutation: the pending timer is left to run when a new one is armed.
M_cancel_auto_clear == clears

\* What _cancel_auto_clear leaves.
cancel_auto_clear == {}

\* A report of the on value: (re)armed with the delay of this moment.
Detect ==
    /\ present
    /\ on' = TRUE
    /\ IF momentary
       THEN /\ clears' = cancel_auto_clear \cup ({resolve_auto_clear_seconds} \ {0})
            /\ due' = resolve_auto_clear_seconds
            /\ age' = 0
       ELSE UNCHANGED <<clears, age, due>>
    /\ saved' = [saved EXCEPT ![1] = TRUE]
    /\ UNCHANGED <<momentary, present, number>>

\* A report of anything else.
Gone ==
    /\ present
    /\ on' = FALSE
    /\ clears' = {}
    /\ age' = 0 /\ due' = 0
    /\ saved' = [saved EXCEPT ![1] = FALSE]
    /\ UNCHANGED <<momentary, present, number>>

ClockTick ==
    /\ clears # {} /\ 0 \notin clears
    /\ clears' = {t - 1 : t \in clears}
    /\ age' = IF age < Longest THEN age + 1 ELSE age
    /\ UNCHANGED <<momentary, present, on, number, saved, due>>

\* _auto_clear.
AutoClear ==
    /\ 0 \in clears
    /\ clears' = clears \ {0}
    /\ on' = FALSE
    /\ saved' = [saved EXCEPT ![1] = FALSE]
    /\ age' = 0 /\ due' = 0
    /\ UNCHANGED <<momentary, present, number>>

\* The entry is unloaded, or Home Assistant restarts.
Remove ==
    /\ present
    /\ present' = FALSE
    /\ clears' = {}
    /\ on' = FALSE
    /\ number' = 0
    /\ age' = 0 /\ due' = 0
    /\ UNCHANGED <<momentary, saved>>

ClearingNext ==
    \/ Add \/ AddNumber \/ Detect \/ Gone \/ ClockTick \/ AutoClear \/ Remove
    \/ \E d \in Delays : SetDelay(d)

\* The event loop runs its timers.
ClearingFairness == WF_clearingVars(ClockTick) /\ WF_clearingVars(AutoClear)

ClearingSpec == ClearingInit /\ [][ClearingNext]_clearingVars /\ ClearingFairness

-----------------------------------------------------------------------------
(* Properties *)

\* A detection is shown for the whole of its delay, counted from the last one:
\* no timer of an earlier detection clears it (binary_sensor.py:98-121).
ShownForItsDelay == [][AutoClear => age = due]_clearingVars

\* A momentary sensor that is on and sees nothing more goes off, however the
\* delay is changed meanwhile (binary_sensor.py:84-107, number_entities.py:54-58).
DetectionEnds == momentary => []<>~on \/ []<><<Detect>>_clearingVars

\* Both: a detection is shown for its delay and no longer, whatever is detected
\* again or set meanwhile (binary_sensor.py:84-121).
DetectionsAreTimed == ShownForItsDelay /\ DetectionEnds
=============================================================================
