------------------------------- MODULE Streams -------------------------------
(***************************************************************************)
(* What the cameras of an installation share: the registry in hass.data    *)
(* and the play_audio_file service beside it, and the streams in           *)
(* go2rtc.yaml.  Each camera belongs to an entry of its own, so the setups *)
(* and unloads interleave; register_stream and remove_stream run in        *)
(* executor threads, each a read of the file and a later write of all of   *)
(* it.                                                                     *)
(***************************************************************************)
EXTENDS FiniteSets, Naturals, Sequences

CONSTANTS
    Cameras,    \* one per entry
    Hubs        \* those that are the entry's own hub: their address is read
                \* from the device, the others have it in the subentry

StreamsAssumption == Hubs \subseteq Cameras

VARIABLES
    phase,      \* off, setup, built (async_setup ran), adding, up, removing
    ip,         \* the endpoint: unresolved, known or none
    registry,   \* the camera registry: cameras of loaded or failed entries
    service,    \* play_audio_file is registered
    file,       \* cameras whose stream is in go2rtc.yaml
    job,        \* what an executor thread has read of it, if one runs
    named       \* cameras whose go2rtc_stream_name is set

streamVars == <<phase, ip, registry, service, file, job, named>>

StreamsTypeOK ==
    /\ phase \in [Cameras -> {"off", "setup", "built", "adding", "up", "removing"}]
    /\ ip \in [Cameras -> {"unresolved", "known", "none"}]
    /\ {registry, file, named} \subseteq SUBSET Cameras
    /\ service \in BOOLEAN
    /\ \A c \in Cameras : Len(job[c]) <= 1

\* Streams of an earlier run are still in the file.
StreamsInit ==
    /\ phase = [c \in Cameras |-> "off"]
    /\ ip = [c \in Cameras |-> "unresolved"]
    /\ registry = {} /\ named = {}
    /\ service = FALSE
    /\ file \in SUBSET Cameras
    /\ job = [c \in Cameras |-> <<>>]

\* The entry builds a new device object.
NewDevice(c) ==
    /\ phase[c] = "off"
    /\ phase' = [phase EXCEPT ![c] = "setup"]
    /\ ip' = [ip EXCEPT ![c] = "unresolved"]
    /\ named' = named \ {c}
    /\ UNCHANGED <<registry, service, file, job>>

\* _resolve_camera_endpoint: the subentry's address; for the entry's own hub
\* without one a read of its trait, which may fail and is not tried again.
Resolved(c) == IF c \in Hubs THEN {"known", "none"} ELSE {"known"}

\* The cameras of all entries are in one table.
Registered(c) == registry' = registry \cup {c}

\* async_setup: the endpoint, the talk client, the registry and the service.
Build(c) ==
    /\ phase[c] = "setup"
    /\ \E a \in Resolved(c) : ip' = [ip EXCEPT ![c] = a]
    /\ Registered(c)
    /\ service' = TRUE
    /\ phase' = [phase EXCEPT ![c] = "built"]
    /\ UNCHANGED <<file, job, named>>

\* async_setup_camera: without an address no entity and no stream.
AddCamera(c) ==
    /\ phase[c] = "built"
    /\ IF ip[c] = "known"
       THEN phase' = [phase EXCEPT ![c] = "adding"] /\ named' = named \cup {c}
       ELSE phase' = [phase EXCEPT ![c] = "up"] /\ UNCHANGED named
    /\ UNCHANGED <<ip, registry, service, file, job>>

\* The executor thread of register_stream or remove_stream reads the file.
Read(c) ==
    /\ \/ phase[c] = "adding"
       \/ phase[c] = "removing" /\ c \in named
    /\ job[c] = <<>>
    /\ job' = [job EXCEPT ![c] = <<file>>]
    /\ UNCHANGED <<phase, ip, registry, service, file, named>>

\* register_stream writes what it read with its stream, unless it is there.
register_stream(c) ==
    /\ phase[c] = "adding"
    /\ job[c] # <<>>
    /\ file' = IF c \in Head(job[c]) THEN file ELSE Head(job[c]) \cup {c}
    /\ job' = [job EXCEPT ![c] = <<>>]
    /\ phase' = [phase EXCEPT ![c] = "up"]
    /\ UNCHANGED <<ip, registry, service, named>>

\* A setup that fails after this device was built stops the coordinator and
\* leaves the device as it is.
Fail(c) ==
    /\ phase[c] = "built"
    /\ phase' = [phase EXCEPT ![c] = "off"]
    /\ UNCHANGED <<ip, registry, service, file, job, named>>

\* async_unload up to the removal of the stream.
BeginUnload(c) ==
    /\ phase[c] = "up"
    /\ phase' = [phase EXCEPT ![c] = "removing"]
    /\ UNCHANGED <<ip, registry, service, file, job, named>>

remove_stream(c) ==
    /\ phase[c] = "removing"
    /\ job[c] # <<>>
    /\ file' = IF c \in Head(job[c]) THEN Head(job[c]) \ {c} ELSE file
    /\ job' = [job EXCEPT ![c] = <<>>]
    /\ named' = named \ {c}
    /\ UNCHANGED <<phase, ip, registry, service>>

\* Mutation: the service goes with whichever camera unloads first.
M_StillNeeded(left) == FALSE

\* The service stays while another camera is registered.
StillNeeded(left) == left # {}

\* The rest of async_unload.
Unregister(c) ==
    /\ phase[c] = "removing"
    /\ c \notin named
    /\ registry' = registry \ {c}
    /\ service' = (service /\ StillNeeded(registry \ {c}))
    /\ phase' = [phase EXCEPT ![c] = "off"]
    /\ UNCHANGED <<ip, file, job, named>>

\* Home Assistant dies; the file is what remains.
Crash ==
    /\ phase' = [c \in Cameras |-> "off"]
    /\ ip' = [c \in Cameras |-> "unresolved"]
    /\ registry' = {} /\ named' = {}
    /\ service' = FALSE
    /\ job' = [c \in Cameras |-> <<>>]
    /\ UNCHANGED file

StreamsNext ==
    \/ \E c \in Cameras :
           \/ NewDevice(c) \/ Build(c) \/ AddCamera(c) \/ Fail(c)
           \/ Read(c) \/ register_stream(c) \/ remove_stream(c)
           \/ BeginUnload(c) \/ Unregister(c)
    \/ Crash

StreamsSpec == StreamsInit /\ [][StreamsNext]_streamVars

-----------------------------------------------------------------------------
(* Properties *)

\* A camera that is loaded can be played to: it is in the registry and the
\* service exists, whichever sibling unloads, fails or reloads meanwhile
\* (camera/base.py:465-470, 480-514).
ServiceWhileLoaded ==
    \A c \in Cameras :
        phase[c] \in {"built", "adding", "up"} => c \in registry /\ service

\* Not so: a camera that is up has its stream in the file.  Two entries that
\* set up together read the same file, and the later write drops the stream of
\* the earlier (go2rtc.py:92-134).
StreamsKept ==
    \A c \in Cameras : phase[c] = "up" /\ c \in named => c \in file

\* Not so: the service is gone with the last loaded camera; one whose setup
\* failed stays registered (__init__.py:898-903).
ServiceOnlyForLoaded ==
    service => \E c \in Cameras : phase[c] # "off"
=============================================================================
