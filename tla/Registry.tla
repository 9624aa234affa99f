------------------------------ MODULE Registry -------------------------------
(***************************************************************************)
(* The catalogue in memory: the one walk over device/models/* that imports *)
(* every model package and fills the per-model indices (device/registry.py *)
(* of custom_components/aqara_lanlink).                                    *)
(*                                                                         *)
(* Each config entry asks for the walk at the start of its setup, and so   *)
(* does the flow that adds a device; each runs it on a thread of the       *)
(* executor, with no lock.  Threads change places anywhere between two     *)
(* bytecodes; the steps below are the reads and writes of what they share. *)
(***************************************************************************)
EXTENDS Integers, Sequences

CONSTANTS
    Walkers,    \* the threads that may walk at the same time
    ModelNames, \* model strings
    Length,     \* the number of packages in the directory
    MaxCalls    \* bound: calls of each walker

RegistryAssumption == Length \in Nat /\ MaxCalls \in Nat

Packages == 1..Length

VARIABLES
    claims,     \* MODELS of each package
    broken,     \* packages whose import raises
    discovered, \* _discovered
    display,    \* the models in _DISPLAY_INDEX
    traits,     \* the models in _TRAIT_INDEX and the three indices cleared with it
    others,     \* the models in the indices that no failure clears (endpoints, ...)
    pc,         \* what each walker does next
    reached,    \* the package it is at
    blamed,     \* the package whose validation ended its last walk, 0 if none did
    calls,      \* calls of each walker
    overlapped  \* history: two walks were under way at once

registryVars ==
    <<claims, broken, discovered, display, traits, others, pc, reached, blamed,
      calls, overlapped>>

WalkSteps == {"start", "import", "validate", "display", "index", "clear", "forget"}

RegistryTypeOK ==
    /\ claims \in [Packages -> SUBSET ModelNames]
    /\ broken \subseteq Packages
    /\ discovered \in BOOLEAN
    /\ {display, traits, others} \subseteq SUBSET ModelNames
    /\ pc \in [Walkers -> WalkSteps \cup {"idle"}]
    /\ reached \in [Walkers -> 1..(Length + 1)]
    /\ blamed \in [Walkers -> 0..Length]
    /\ calls \in [Walkers -> 0..MaxCalls]
    /\ overlapped \in BOOLEAN

RegistryInit ==
    /\ claims \in [Packages -> SUBSET ModelNames]
    /\ broken \in SUBSET Packages
    /\ discovered = FALSE
    /\ display = {} /\ traits = {} /\ others = {}
    /\ pc = [w \in Walkers |-> "idle"]
    /\ reached = [w \in Walkers |-> 1]
    /\ blamed = [w \in Walkers |-> 0]
    /\ calls = [w \in Walkers |-> 0]
    /\ overlapped = FALSE

Walking(w) == pc[w] \notin {"idle", "start"}

-----------------------------------------------------------------------------
(* The walk *)

\* async_ensure_discovered: nothing to do, or a job for the executor.
Call(w) ==
    /\ pc[w] = "idle"
    /\ calls[w] < MaxCalls
    /\ calls' = [calls EXCEPT ![w] = @ + 1]
    /\ blamed' = [blamed EXCEPT ![w] = 0]
    /\ pc' = [pc EXCEPT ![w] = IF discovered THEN "idle" ELSE "start"]
    /\ UNCHANGED <<claims, broken, discovered, display, traits, others, reached,
                   overlapped>>

\* The job starts, and tests the flag once more.
Start(w) ==
    /\ pc[w] = "start"
    /\ pc' = [pc EXCEPT ![w] = IF discovered THEN "idle" ELSE "import"]
    /\ reached' = [reached EXCEPT ![w] = 1]
    /\ overlapped' = (overlapped \/ (~discovered /\ \E v \in Walkers : Walking(v)))
    /\ UNCHANGED <<claims, broken, discovered, display, traits, others, blamed,
                   calls>>

\* A package is imported; one that cannot be is skipped.  After the last one the
\* catalogue counts as discovered.
Import(w) ==
    /\ pc[w] = "import"
    /\ IF reached[w] > Length
       THEN /\ discovered' = TRUE
            /\ pc' = [pc EXCEPT ![w] = "idle"]
            /\ UNCHANGED reached
       ELSE /\ IF reached[w] \in broken
               THEN reached' = [reached EXCEPT ![w] = @ + 1] /\ UNCHANGED pc
               ELSE pc' = [pc EXCEPT ![w] = "validate"] /\ UNCHANGED reached
            /\ UNCHANGED discovered
    /\ UNCHANGED <<claims, broken, display, traits, others, blamed, calls,
                   overlapped>>

\* _validate_models: a package must claim models, and none that is indexed.  (The
\* other mistakes of a package raise as an empty claim does.)
Validate(w) ==
    /\ pc[w] = "validate"
    /\ LET valid == claims[reached[w]] # {} /\ claims[reached[w]] \cap display = {}
       IN  /\ pc' = [pc EXCEPT ![w] = IF valid THEN "display" ELSE "clear"]
           /\ blamed' = [blamed EXCEPT ![w] = IF valid THEN @ ELSE reached[w]]
    /\ UNCHANGED <<claims, broken, discovered, display, traits, others, reached,
                   calls, overlapped>>

\* _populate_display.
PopulateDisplay(w) ==
    /\ pc[w] = "display"
    /\ display' = display \cup claims[reached[w]]
    /\ pc' = [pc EXCEPT ![w] = "index"]
    /\ UNCHANGED <<claims, broken, discovered, traits, others, reached, blamed,
                   calls, overlapped>>

\* _populate_model_indices.
PopulateIndices(w) ==
    /\ pc[w] = "index"
    /\ traits' = traits \cup claims[reached[w]]
    /\ others' = others \cup claims[reached[w]]
    /\ reached' = [reached EXCEPT ![w] = @ + 1]
    /\ pc' = [pc EXCEPT ![w] = "import"]
    /\ UNCHANGED <<claims, broken, discovered, display, blamed, calls,
                   overlapped>>

\* Mutation: the claims of a walk that failed are not taken back.
M_Cleared == display

\* What a failure leaves in _DISPLAY_INDEX.
Cleared == {}

\* The error clears the indices, one after the other, and goes to the caller.
ClearTraits(w) ==
    /\ pc[w] = "clear"
    /\ traits' = {}
    /\ pc' = [pc EXCEPT ![w] = "forget"]
    /\ UNCHANGED <<claims, broken, discovered, display, others, reached, blamed,
                   calls, overlapped>>
ClearDisplay(w) ==
    /\ pc[w] = "forget"
    /\ display' = Cleared
    /\ pc' = [pc EXCEPT ![w] = "idle"]
    /\ UNCHANGED <<claims, broken, discovered, traits, others, reached, blamed,
                   calls, overlapped>>

RegistryNext == \E w \in Walkers :
    \/ Call(w) \/ Start(w) \/ Import(w) \/ Validate(w) \/ PopulateDisplay(w)
    \/ PopulateIndices(w) \/ ClearTraits(w) \/ ClearDisplay(w)

RegistrySpec == RegistryInit /\ [][RegistryNext]_registryVars

-----------------------------------------------------------------------------
(* Properties *)

\* A package is at fault if it claims nothing, or what one before it claims.
AtFault(p) ==
    \/ claims[p] = {}
    \/ \E q \in 1..(p - 1) : q \notin broken /\ claims[q] \cap claims[p] # {}

\* The models of the packages that can be imported are all in the indices.
Whole ==
    LET all == UNION {claims[p] : p \in Packages \ broken}
    IN  display = all /\ traits = all /\ others = all

\* Walks that do not overlap, in whatever order they fail and are called again:
\* a failure names a package that is at fault, and never one that an earlier
\* failed walk had indexed; it leaves the catalogue empty; and what counts as
\* discovered is the whole of it (registry.py:206-214).
LoneWalkIsRight ==
    ~overlapped =>
        /\ \A w \in Walkers : blamed[w] # 0 => AtFault(blamed[w])
        /\ discovered => Whole
        /\ ~discovered /\ (\A w \in Walkers : ~Walking(w)) => display = {} /\ traits = {}

\* __init__.py:530-533 calls the walk "Idempotent across multiple entries", and
\* registry.py:150 "Async-safe".  With two entries that start together, the
\* second thread finds the claims of the first, takes them for another
\* package's, and clears the indices under it: the first then marks what is left
\* as the whole catalogue.  (Stated for packages of which none is at fault.)
DiscoveredIsWhole ==
    broken = {} /\ (\A p \in Packages : ~AtFault(p)) => (discovered => Whole)
=============================================================================
