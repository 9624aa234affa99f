# A verification of homebridge-aqara-matter

The repository holds two programs that speak to an Aqara hub over its encrypted
LAN tunnel ("LANLink"): a Home Assistant integration in Python
(`custom_components/aqara_lanlink`) and a Homebridge plugin in JavaScript
(`src/`). This directory models their stateful core in TLA+, checks it with TLC
on small instances and proves the safety of most of its modules with TLAPS, for every value
of their constants.

Every definition is translated from the source; the comments name the lines and
`PROJECT.json` maps each definition to them. Definitions keep the names of the
code where TLA+ allows it. `M_X` is a mutated form of `X`, a plausible slip in
that code which the property named beside it in `PROJECT.json` must detect.

## 1. Inventory

### Home Assistant integration

| component | state | operations | talks to | hard because |
|---|---|---|---|---|
| `hub/session.py` `LANLinkClient` | sequence number, `_pending` futures | request, listen, checkin, time out, cancel | tunnel, coordinator | late answers, cancellation, keepalives and pushes with colliding sequence numbers, a connection that ends in between |
| `hub/tunnel.py` `EncryptedTunnel` | socket, cipher counters, keepalive task | connect (handshake), send, receive, close | hub | awaits without a timeout, two tasks that see the end of one socket |
| `hub/coordinator.py` `HubCoordinator`, connection | run task, stop flag, backoff, host, tunnel, client | start, stop, `_connect_loop` | tunnel, mDNS, session-up listeners | cancellation delivered at any await, swallowed in a cleanup |
| same, report routing | handler table, buffer of early reports, topology | dispatch, register, unregister | devices | reports come before their reader; bounds |
| `device/base.py` `Device`, `entity.py` | bindings, staged and delivered initial values | report, seed, register entity | coordinator, entities | a cloud answer is older than a report; an event must not fire from the past |
| `__init__.py`, subscriptions | runtime data of each load: flag, counters, Repair | setup, unload, re-arm pass, watchdog tick, topology refresh | coordinator, cloud | a pass awaits once per device and everything changes meanwhile |
| `hub/rearm.py` `RearmManager` | task table, last activation per device | topology push, sweep, retry loop, stop | mDNS, `hub/activation.py` | cancelled loops unwind late beside their successors; cooldown |
| `ptz/controller.py`, `ptz/session.py` | lock, warm session, idle timer, eager task | command, recycle, idle teardown, shutdown | camera, cloud | sessions made under a lock that unload does not take |
| `device/composites` | fields of one wire value | set, seed | device | read-modify-write across an await |
| `device/camera` | talk session, heartbeat, shared service | connect, disconnect, stream a file | camera, go2rtc | teardown without the lock that connect holds; a connect cut short leaves its stream |
| entities with timers or optimism | auto-clear timer, options | report, command | device | timer against report, unload |
| `observed_path_cache`, `overlay`, `repairs`, services | stores with delayed save | record, prune, accept | issue registry | save against reload |
| `hub/cloud_client.py` | signing identity | signed requests | cloud | one probe, not safe under concurrency (said in its docstring) |
| `config_flow.py` | form state | steps | cloud, mDNS | two flows for one hub |
| `device/registry.py` | the per-model indices, a flag | one walk over the model packages | config entries, flows | each entry walks on an executor thread, without a lock |
| `device/classify_v3.py`, `device_types/`, `build_descriptors.py` | none; the entities registered with a `Device` and its staged seeds | derive descriptors, register an entity | catalogue, overlay, `device/base.py` | overrides, corrections and composers decide which entities exist; several may read one path |
| model data, crypto, naming, units | none to speak of | pure functions | | |

### Homebridge plugin

| component | state | operations | talks to | hard because |
|---|---|---|---|---|
| `platform.js` | tunnel, devices, retry timer | start, retryLater, stop | cloud, tunnel, twins | an attempt that fails leaves its tunnel, whose `close` comes later |
| `protocol/tunnel.js` | socket, pending requests, receive buffer | connect, handshake, checkin, write | hub | promises resolve after the chunk is parsed |
| `device.js` | last value of each trait | set, report | tunnel, twins | `set()` records after its await |
| `matter.js`, `homekit.js` | what was reported, settle window | announce, obey | device, controllers | controllers send back what they are told, late and derived |
| `cloud/client.js`, `protocol/discovery.js`, `catalogue.js` | identity, one socket, an index | login, discover, look up | | error paths of a socket |

What makes each component correct is stated as properties in its module (section
4). `PROJECT.json` lists the places where the code is hard to test (`hazards`)
and every component with what is and is not modelled (`components`).

## 2. Modules

| module | code | how state and actions correspond |
|---|---|---|
| `Session` | `hub/session.py`; `_send_awaiting`, `_run_session_once` of `hub/coordinator.py`; send, EOF and keepalive of `hub/tunnel.py` | One record of variables per task (`pc`, `req`, `fut`, `got`, `outcome`); `pending` is the table of the current client, `epoch` numbers clients. `Call`, `Sent`, `Receive`, `Timeout`, `Resume`, `CancelCall`, `ListenEnds` ... are the awaits and callbacks of the code. |
| `Coordinator` | `HubCoordinator.start/stop/_run/_establish_session`, the connection side of `hub/tunnel.py` | `pc` is the await the run loop stands at, one action per way out of it; `stop()` is its own task. |
| `Link` | abstract | What the rest relies on: a session is down, up, or stopped for good. |
| `Reports` | routing and buffer of `hub/coordinator.py`, `device/base.py` | Values are numbered in the order a device takes them, so "older" is "smaller". |
| `Subscription` | `__init__.py` | One runtime record per load of the entry; a pass is a position in the list of targets; the connection is an instance of `Link`. |
| `Rearm` | `hub/rearm.py`, `hub/activation.py` | A record per retry loop with its await and its timer, also after it lost its slot in the table. |
| `Ptz` | `ptz/controller.py`, `ptz/session.py` | Commands, the eager reconnect and the idle teardown are tasks around `_lock`, which asyncio hands over first come first served. |
| `Talk` | `device/camera/talk.py`, the play service and the bridge beside it | `call` of each play call with its await, at each of which it may be cut short; the connect lock, the heartbeat task, the streams a failed connect leaves open (`left`), and the camera's one voice session that the bridge also wants. |
| `Streams` | `device/camera/base.py`, `go2rtc.py` | Setups and unloads of two entries interleave around a shared registry, a shared service and a file that executor threads read and later rewrite. |
| `Onboarding` | `config_flow.py` (user, discovery, re-authentication, reconfiguration) | Each wizard is at a step; what it found, its credentials and the hub's own address change between steps. |
| `Pairing` | `config_flow.py` (device subentries), removal and reload of `__init__.py` | Two wizards on one entry; what the cloud, mDNS and the overlay say is chosen anew at each question. |
| `Overlay` | `device/overlay.py`, `repairs.py`, `services/`, the bootstrap review | One file, one copy of it per loaded entry, the Repair that names what a scan found. |
| `PathCache` | `device/observed_path_cache.py`, its listener and Repair in `__init__.py` | One file, one cache per load, the delayed save; `foreign` is what another entry's cache would write back. |
| `Registry` | `device/registry.py` | Threads at a package; their reads and writes of the shared indices are the steps. |
| `Derive` | `device/build_descriptors.py`, `classify_v3.py`, `device_types/`, registration in `device/base.py` | A composer is a table of the traits it takes and what becomes of them; an entity registers, a seed is staged. |
| `Composite` | `device/composites` | The controller's fields, its writes in flight, and the packed codecs. |
| `Controls` | `switch.py`, `select.py`, `number.py`, `text.py`, `sensor.py`, `async_write` of `hub/coordinator.py` | One entity of any kind, before and after it is added, the device behind it, writes that are refused, time out or lose the link, and the hub's subscription, which ends with the link. |
| `Light` | `light.py` | One lamp: conversions of level, colour temperature and colour (packed into one number), the mode and the effect shown, reports that do not come. |
| `Presets` | `select.py`, the PTZ service of `camera.py` | The account's list, the copies two clients keep, recalls under way. |
| `Clearing` | `binary_sensor.py`, the delay number | Timers in ticks, the delay entity, the recorder's last states. |
| `Cloud` | `hub/cloud_client.py`, the effects pages | Calls with their await; the pair of host and key that signs, and the probe for it. |
| `Discovery` | `hub/mdns.py`; `src/protocol/discovery.js` | The browser with its resolve tasks, and the plugin's one socket, timer and record tables. |
| `Platform` | `src/platform.js`, `src/protocol/tunnel.js` | An attempt is one call of `start()` with the one socket it makes. |
| `Tunnel` | `src/protocol/tunnel.js` | The handshake's waiter, requests with their timers, keepalive and `close`. |
| `Twin` | `src/device.js`, `src/matter.js`, `src/homekit.js`, `src/protocol/tunnel.js` | Frames are queues to and from the hub, which carries out, refuses or loses a write; `resumed` holds promises that go on after the chunk. |
| `SessionProofs`, `CoordinatorProofs`, `SubscriptionProofs`, `ReportsProofs` | | Theorems about the module of that name (section 6). |
| `CameraProofs` | | Theorems about `Ptz`, `Talk` and `Streams`. |
| `RetryProofs` | | Theorems about `Rearm`, `Platform` and `Clearing`. |
| `InstallProofs` | | Theorems about `Onboarding`, `Overlay`, `PathCache`, `Cloud`, `Discovery` and `Registry`. |
| `DeviceProofs` | | Theorems about `Presets`, `Twin`, `Controls`, `Composite`, `Light` and `Derive`. |
| `MC*` | | Instances for TLC. |

`Coordinator` implements `Link` (`ImplementsLink`), and `Subscription` is built
on `Link`, so the two compose without a product of their state spaces.
`Session` refines one "up" period of `Coordinator`: its sessions come and go
freely, which is more than the run loop does. `Platform` uses the outcomes of
`Tunnel`, `Twin` its order of frames and promises; `Pairing`, `Overlay` and
`PathCache` share the entry's reload, which each models for what it keeps.

**Several modules in one run.** `MCWaits`, `MCConnections`, `MCInstall` and
`MCValues` each extend the modules of their run, none of which share a variable
(`MCInstall` takes `Pairing` and `Tunnel`, whose names occur elsewhere, as the
instances `P` and `T`). Modules that meet in a run prefix what all of them have
(`PtzInit`, `PtzNext`, `ptzVars`). A variable `part`, chosen in the initial state
and never changed, says which of them the behaviour exercises; the others stand still in one of their
initial states. The state graph is the disjoint union of the modules' own graphs,
so every property is checked exactly as it would be in a run of its own. A
fairness condition is guarded by `part = ...`: an action of a part that stands
still is not enabled and is owed nothing. A property of a part holds trivially in
the other parts, where its variables never move, or is stated under
`part = ... =>`.

**Atomicity.** Both programs are single-threaded event loops. A step runs from
one await to the next; everything the code does in between (cleanup in `finally`,
callbacks called synchronously, a table it edits) is in that step. What other
tasks, timers and the network may do between two awaits is what TLC interleaves.
Home Assistant 2025.4 or later runs a new task at once up to its first await
(`async_create_task` is eager), and the models do so. A service call can be
cancelled at any await, by a script that restarts: `Session`, `Ptz` and `Talk`
have it, for what they leave behind depends on it. Two places are not on the
loop: the walk of the catalogue (`Registry`) and the edits of `go2rtc.yaml`
(`Streams`) run on executor threads, and there a step is one read or write of
what the threads share.

## 3. Bounds, and why they are enough

Bounds are the constants `Max*`. Every one cuts an unbounded count of the
environment or of a counter and appears in a guard.

* `Session`: two callers, two sessions, three requests per client, one frame in
  flight, pushes with sequence numbers 1 (a keepalive's answer) and 2 (collides
  with a caller's request). Two sessions give the reuse of sequence numbers; the
  third request is the one a late answer to the first can be mistaken for.
* `Coordinator`: two endpoints (the hub moves), delays 2, 4, 8, 9 (doubling and
  a cap that is no power of two), three faults, two sessions.
* `Ptz`: three commands (in use, waiting, waiting), two of them presets that
  recycle the session, two failures, seven sessions, cancellation and unload at
  any time.
* `Talk`: two calls; one heartbeat may fail before the session is given up (five
  in the code); two connects are cut short, so that one can be left open beside
  another. `Streams`: two cameras of two entries, one of them the hub.
* `Subscription`: two targets, the fewest with a half-done pass; two loads of
  the entry; one failing cloud call; two sessions (three where the lost trigger
  is shown).
* `Rearm`: the default times in units of 15 s with all six rounds; only the sweep
  comes every three minutes instead of five, which is shorter than a loop, so that
  it meets loops that run and loops that have given up. Devices share
  nothing but the topology push, so there is one. Two loops: a cancelled one and
  its successor.
* `Platform`: six attempts, four faults: fewer faults than attempts, so the last
  attempt meets a hub that behaves.
* `Clearing`: a default delay of one tick, set to two or three: shorter and
  longer than a pending one.
* `Reports`: a device with a state and a momentary one compete for a buffer of
  one DID and one report, so that both limits are reached; three values, two
  cloud reads (setup and a re-arm).
* `Twin`: two traits (a controller derives one from the other), two writes, two
  presses, two orders.
* `Composite`: each codec with the extremes of its fields, two writes.
  `Controls`: every kind of entity, two writes, one report under way. `Light`:
  levels 1 (which becomes 0 percent) and 128, percent 2, the two ends of the
  colour temperature, two colours of the user's, one at the ends of both
  coordinates, and one of the lamp's. A coordinate is 8 bits wide (`Coord = 255`)
  and shown in thousandths (`Unit`), for TLC's integers do not hold two of 16; the
  code's floats are finer than any `Unit`. The theorem is about every width and
  every finer unit. `Presets`: one name, two positions, two
  recalls.
* `Derive`: composers of each shape (one trait, several, two entities for a
  trait, a fused light, none), each with traits it takes, leaves, and gets
  overridden or corrected.
* `Onboarding`: two wizards, two addresses, one credential. `Pairing`: the hub, a
  child, a standalone and a virtual device. `Overlay`: two entries, a path that
  is kept and one the policy drops. `PathCache`: three paths, two old caches.
  `Registry`: two walkers, two packages, two models, two walks each. `Cloud`: one
  call beside the setup's queries for dynamic effects, so that two overlap.
  `Discovery`: one hub announced over two records. `Tunnel`: one request.

Deadlock is not checked: each run holds systems that really may stop (after
`stop()`, unload or shutdown, or with nothing more asked of them within the
bounds). That nobody waits for ever is what the liveness properties say.

## 4. Runs

| run | modules | shows |
|---|---|---|
| `waits` | `Session`, `Platform`, `Clearing` | `OwnReply`: an answer reaches only its own request, across timeouts and the next session's reuse of numbers. `UpMeansAccepted`: a session is up only if the hub accepted this checkin, though keepalive answers carry its number. `PendingExact`: a slot is in the table exactly while someone waits. `CallsSettle`: every call returns. `WillTryAgain`, `PluginComesUp`: however an attempt ends, unless no hub was found, the next is scheduled, and one succeeds. `DetectionsAreTimed`: a detection is shown for its delay and no longer. |
| `connections` | `Coordinator`, `Ptz`, `Talk`, `Streams`, `Rearm` | `StopIsFinal`, `StopReturnsEventually`: `stop()` at any await ends everything and returns. `ComesBackOrHangs`: the session returns unless the loop hangs in a handshake. `ImplementsLink`. `OpenIsOwned`, `NotClosedInUse`, `CommandsReturn`: camera sessions have an owner, none is closed under a command, every command returns. `OneSessionOpen`, `DeadSessionEnds`: a voice session keeps its stream whatever calls overlap or are cut short, which alone leave others open; a dead one is given up. `ServiceWhileLoaded`: a loaded camera can be played to. `LoopsExact`: one live loop per absent device, whatever unwinds late. `AbsentIsPoked`: it is poked for ever. |
| `install` | `Subscription`, `Onboarding`, `Pairing`, `Overlay`, `PathCache`, `Registry`, `Cloud`, `Discovery`, `Tunnel` | `BegunPassArms`: whatever is begun in a session arms every subentry's device. `RepairIsEarned`: a load raises its Repair only on attempts that count. `OneEntryPerHub`, `MovedHubIsKept`: overlapping wizards make one entry and do not take back a hub's new address. `RemovedIsUnloaded`. `FixTakesEffect`: an entry runs with what its last Fix selected. `RepairIsCurrent`, `NewPathsAreWritten`: candidate paths survive reloads, crashes and other entries' writes. `LoneWalkIsRight`: a walk of the catalogue that has it to itself is whole or fails for a package at fault. `AlternateOnlyIfSigned`, `HubsAreFound`, `TunnelCallsSettle`. |
| `values` | `Reports`, `Twin`, `Composite`, `Controls`, `Light`, `Presets`, `Derive` | `BufferHasNewest`, `NothingOldIsShown`: no older value after a newer one, no event from the past. `OneChangeTellsAll`, `StateSettles`: Matter is told everything, the state ends as the device's unless its report was overtaken or its write refused. `ShownIsOnDevice`, `ShownSettles`: an entity that was told the last change ends right. `NothingDrifts`: what is shown, set again, changes nothing. `KnownIsRecallable`: a name is refused only if the account lacked it or its fetch failed. `EntitiesAreDistinct`: entities of an endpoint have keys of their own and a trait one reader, under overrides and corrections. |

### Where the code and its words part

Eight runs refute a sentence of the repository; each is a `finding` with its
quotation.

* `coordinator_silent_handshake` refutes `SessionComesBack`: the handshake reads
  without a timeout before any keepalive runs.
* `subscription_lost_trigger` refutes `SessionUpRearms`: a session-up during a
  pass is taken for a duplicate, although the pass subscribed some devices over
  the connection that is gone.
* `reports_replay_dropped` refutes `ReplaysAreShown`: the buffer is replayed
  before there is an entity to show it.
* `platform_cloud_again` refutes `CloudLeftAlone`: a tunnel left open by a failed
  attempt signs in again when it closes, beside the session that is up.
* `platform_no_hub` refutes `UpOrRetry`: `start()` resolves "once the hub is up, or
  a retry has been scheduled" (platform.js:59), but when it finds no hub it returns
  with neither. `WillTryAgain`, which passes, leaves out exactly this end.
* `twin_refused_write` refutes `TrueMeansAccepted`: `set()` returns "whether the hub
  accepted it" (device.js:71), but any answer resolves it, and what was refused is
  recorded. `StateSettles` leaves out this case and that of `Twin!StateIsLastSeen`
  below, each only until the trait's next report.
* `overlay_overwritten` refutes `AcceptedIsKept`: a Fix stores its entry's whole
  copy of the overlay and drops what another entry or the wizard has stored.
* `registry_two_walkers` refutes `DiscoveredIsWhole`: of two threads that walk
  the catalogue together one fails and clears the indices under the other.

Further definitions ("Not so" in their modules) state what one might expect and
the code does not do. They are in no run. To see one fail, put it in place of the
properties of the cfg named (one of `Tunnel`: define `X == T!Name` in `MCInstall`
first).

| definition | with | what happens |
|---|---|---|
| `Session!OnlyHomeAssistantErrors` | `MCWaits` | a transport error outside the listed classes reaches the service call (coordinator.py:322) |
| `Session!NoneWaitsOnClosedTunnel` | `MCWaits`, `PushSeqs = {2}` | `stop()` cancels `listen()`, so its waiters sleep until their own timeout (session.py:91) |
| `Subscription!SetupRearms` | `MCSubscriptionLost` | a reconnect during setup is heard by nobody (docs/architecture.md:64) |
| `Subscription!SelfDeviceRearmed` | `MCSubscriptionLost` | the tunnel host's own device is no target of a re-arm (docs/architecture.md:205) |
| `Subscription!RepairClears` | `MCSubscriptionLost` under `FairSpec`, `MaxUps = 2`, `MaxFails = 0` | the Repair of an earlier load stays (`__init__.py`:114) |
| `Reports!ReportsAreShown` | `MCReportsReplay` | a report before the entity is dropped, an older seed shown (docs/architecture.md:60) |
| `Reports!SeedsAreShown` | `MCReportsReplay` | seeds of a re-arm are staged for a registration that does not come again (docs/architecture.md:13) |
| `Rearm!CooldownHeld` | `MCConnections`, `Cooldown <- 4`, `Backoffs <- <<1, 2>>`, `MaxRounds <- 3`, `SweepPeriod <- 5`, `MaxReloads = 2` | a reload forgets the cooldown (rearm.py:73); with one load it holds |
| `Ptz!ShutdownLeavesNothing` | `MCConnections`, `Cancellable <- FALSE` | unload overlaps a command that then leaves its session (`__init__.py`:121) |
| `Ptz!AtMostOneOpen` | `MCConnections`, `Unloads <- FALSE` | a session whose AUTH is cancelled belongs to nobody (controller.py:1) |
| `Ptz!MuteIsRebuilt` | `MCConnections`, both `FALSE` | after no ack the stale session is used again (controller.py:103) |
| `Talk!NothingLeft` | `MCConnections` | a play call that is cancelled, reset or without a UDP endpoint leaves its stream open, and the next opens another (talk.py:79-103) |
| `Talk!SilentAfterUnload`, `Talk!ChannelIsFreed` | `MCConnections` | an unload during `connect()` leaves a session; one that plays no more keeps the camera's voice channel |
| `Streams!StreamsKept`, `Streams!ServiceOnlyForLoaded` | `MCConnections` | two setups overwrite each other's stream; a failed camera keeps the service alive |
| `Twin!StateIsLastSeen` | `MCValues` | `set()` goes on after the chunk of its answer and overwrites a report behind it, against "the last value seen" (device.js:35, 91) |
| `Twin!DerivedWritesNothing` | `MCValues` | a derived command for another cluster is obeyed: the window is per cluster (matter.js:9) |
| `Composite!BothFieldsArrive`, `Composite!ShownOffIsOff` | `MCValues` | two fields set at once lose one; both levels 0 read back as Auto |
| `Controls!TraitSettles` | `MCValues` | a trait that changed while the link was down stays wrong: the re-arm's answer is a seed, which an entity that has been added is not given (`__init__.py`:974, base.py:468) |
| `Controls!SettingSettles` | `MCValues` | a timed out write that took effect is not shown |
| `Light!PercentIsOneToHundred`, `ModeIsTheLamps`, `EffectIsRunning` | `MCValues` | level 1 is written as 0 percent; the mode is that of the last seed or report, the effect is never reset |
| `Presets!RefusedWasRead` | `MCValues` | the select's fetch fails without a word, and a name the account has is refused with the `KeyError` of an unknown one (select.py:146-151, 175) |
| `Presets!RecallIsCurrent`, `CurrentIsAnOption` | `MCValues` | a moved preset is recalled at its old position; the current option may be none of the list |
| `Derive!EveryEntityRegisters` | `MCValues` | a curtain's motor status and a speaker's playback state get a list in a descriptor that is a dict key (window_covering.py:58, speaker.py:49), which `_build.py:58-61` says crashes the registration |
| `Derive!SeedReachesReaders` | `MCValues` | the second entity of a lock's state never gets the seed (base.py:416, 424-430) |
| `Derive!EveryTraitIsRead` | `MCValues` | a light without On/Off loses its traits, a select override without labels its trait |
| `Cloud!KnownPairIsFound` | `MCInstall` | an overlapped or interrupted probe leaves the pair that would sign unfound |
| `Discovery!PortIsCurrent`, `FinishIsSafe` | `MCInstall` | a record outlives the port it names; a late error closes a socket twice |
| `Tunnel!NoOrphan`, `CloseEndsHandshake` | `MCInstall` | a rejection nobody listens to; a hub that closes leaves the handshake to its timer |

Other definitions hold and are in no run because another property says more or
needs them: every module's `TypeOK`, `Session!EofWakesWaiters`,
`Coordinator!NoAttemptAfterStop` and `RetriesArePaced` (all three proved),
`Subscription!PassesEnd` and `OwnRepairClears`, `Ptz!WarmIsWatched`,
`Platform!RivalsComeFromLeaks`, `Twin!EchoWritesNothing`,
`Pairing!ActivationIsPoked`, `Cloud!ScenesWhole`, `Tunnel!KeepaliveEnds`.

Sentences that the code contradicts without a run: `overlay.py:9-12` names
`services/scan_device.py` as the only writer of the overlay, `repairs.py` and
`config_flow.py` write it too; `observed_path_cache.py:12-15` says accepted paths
are discarded from the cache, nothing does so; `__init__.py:216` and
`docs/architecture.md:182` say the Fix of the candidate-paths Repair scans the
device, `repairs.py:174-178` only asks for confirmation; `registry.py:206-214`
promises a "completely clean state" after a failed walk, which keeps the
endpoint, settings and composite indices.

## 5. Fairness

Weak fairness only, on what an event loop does by itself.

* `Session`: a send ends, a timer fires, a task whose future is done runs. No
  fairness for the hub: answers need never come.
* `Coordinator`: the run loop's own steps, the keepalive's detection of a dead
  connection, the delivery of a cancellation, the return of `stop()`. A handshake
  step is enabled only if the hub has something to read, or the connection ends;
  so a hub that falls silent there owes nothing. Hub faults are not fair, but
  bounded.
* `Ptz`: every await ends with an answer or by its timeout; idle timer and
  shutdown proceed.
* `Talk`: the heartbeat's sleep ends, and its wait for an answer has a timeout.
* `Subscription` states safety only in its run. Its `FairSpec` has keepalives
  acknowledged while the connection is up (a connection without acknowledgements
  is closed by `tunnel.py`), and each cloud call answered or timed out.
* `Rearm`: time passes, the sweep is a timer of Home Assistant, every await of a
  loop has a timeout.
* `Platform`: connects, handshakes and checkins have timers of ten seconds,
  events are delivered, timers fire.
* `Clearing`: time passes and an expired timer runs.
* `Pairing`: a scheduled reload runs. `PathCache`: the timer of a delayed save
  fires, also that of a cache whose entry was unloaded, unless Home Assistant
  crashes first.
* `Tunnel`: the handshake's and a request's timer fire, and a socket that has
  ended emits `close`.
* The other modules state safety only and assume none.

## 6. Proofs

`SessionProofs` proves for any set of callers, any bounds and any sequence
numbers of pushes, from `SessionAssumption` alone:

* `TypeCorrect`, `AnswersReachTheirRequest` (`OwnReply`), `UpIsAccepted`
  (`UpMeansAccepted`), `PendingTableExact` (`PendingExact`),
  `EofWakesEveryWaiter` (`EofWakesWaiters`);
* all from `SessionInvariant`: `Spec => []IInv`.

`OwnReply` is not inductive: it holds for the answers taken so far, while what
breaks it is still on its way. `IInv` adds what must be true of everything in
flight: requests held by the hub and frames in the inbox belong to the current
session and carry the number of the request they answer (`HubInv`); a success
code in hand for request 1 is an accepted checkin (`GotInv`); the run loop waits
for its checkin exactly in that phase (`CheckinInv`); the counter has given out
each number once (`Numbered`). Together with `PendingExact` this says that the
task found in the table under a number is the one the hub's answer is for.
`PendingExact` is itself needed for `OwnReply`: a slot that outlived its waiter
would hand the answer to nobody, or to the next user of the number.

`CoordinatorProofs` proves for any endpoints, any two delays and any number of
faults and sessions, from `CoordinatorAssumption` alone:

* `TypeCorrect` (with the bounds of the backoff), `StopLeavesNothing`
  (`StopIsFinal`), from the invariant `TypeOK /\ CancelInv /\ StopIsFinal`;
* the action properties `NoneBegunAfterStop` (`NoAttemptAfterStop`) and
  `AttemptsArePaced` (`RetriesArePaced`), from one lemma about the step that
  begins an attempt;
* `CoordinatorImplementsLink` (`ImplementsLink`): each step is a step of `Link`
  or leaves its variables alone.

`StopIsFinal` alone is not inductive: a cancellation still under way could move a
task that is done. `CancelInv` excludes it: one is under way only between `stop()`
and the end of the task, so no step is left after `stop()` has returned.

`SubscriptionProofs` proves for any list of targets, any threshold and TTL and
any number of loads, sessions and failures, from `SubscriptionAssumption`:
`BegunArms` (`BegunPassArms`) and `RepairEarned` (`RepairIsEarned`). Neither is
inductive alone. `Arming` says what `BegunPassArms` says at the end at every
moment before it: in a session in which something was begun and nothing missed,
all targets are armed, or setup has armed those it has built, or the pass of the
current load those before its place. `Loads` says that the Repair and the passes
are those of loads there have been, so that a new load starts with neither.

`ReportsProofs` proves for any devices, any bounds of the buffer and any number
of values and cloud reads, from `ReportsAssumption`: `TypeCorrect`, which has the
bounds of the buffer in it, `NewestIsBuffered` (`BufferHasNewest`) and
`OldIsNotShown` (`NothingOldIsShown`). `Routed` is what they need: a DID with a
handler has nothing buffered, and only a registered entity has been told
anything.

`CameraProofs`, from `PtzAssumption`, `TalkAssumption` and for the streams without
one:

* `InUseStaysOpen` (`NotClosedInUse`), `OpenHasOwner` (`OpenIsOwned`) and `OneUser`
  (mutual exclusion of what stands between acquisition and release of the lock),
  for any commands, sessions and failures. `PtzInv` says that such a task is the
  holder (`LockInv`), and, until the unload, that a session is set up only while
  there is no warm one and stays open until it is taken over (`SetupInv`).
  Shutdown closes sessions without the lock, so after its flag only `LockInv` is
  left. That the queue of the lock holds each task once is left to TLC: it is cut
  with `SelectSeq`, whose lemma is an induction.
* `OneVoiceSession` (`OneSessionOpen`), for any play calls and any number of them cut
  short. `TalkInv` says where the client's stream is: with the call that connects, of
  which there is one and none beside a session that is up (`ConnectInv`), or with the
  one that is up, which has its heartbeat (`BeatInv`) and excludes the bridge's; so no
  call opens a stream over another, and what is left is left by a cut.
* `LoadedCanBePlayedTo` (`ServiceWhileLoaded`), for any cameras. From the end of a
  setup's first part to the end of the unload a camera is in the registry and the
  service registered; what unregisters the service has just seen the registry
  empty.

`RetryProofs`:

* `TypeCorrect` and `LoopsAreExact` (`LoopsExact`), for any devices, times, backoffs
  and any number of loops and loads, from `RearmAssumption`. The invariant is
  `LoopsExact` loop by loop, with the loops and clocks as functions: a loop is live
  exactly while the table names it, and only an absent device has a place there.
* `NeverStranded` (`WillTryAgain`), for any number of attempts and faults, from
  `PlatformAssumption`. It is inductive with the types and the order of the attempts
  (`InOrder`: they begin one after another): each step that ends the latest attempt
  or takes away its session leaves a timer, unless it is the search that finds no
  hub.
* `ShownInFull`, for any delays, from `ClearingAssumption`: a detection ends only
  when its age has reached the delay it was given, the safety half of
  `DetectionsAreTimed`. `OneClear`: at most one timer runs, and what is left of it
  and the age of the detection add up to the delay.

`InstallProofs`:

* `AtMostOneEntry` (`OneEntryPerHub`), for any wizards, hosts and credentials, without
  an assumption, and from `OnboardingAssumption` `OnboardingTypeCorrect` and the
  action property `MovedHubStaysMoved` (`MovedHubIsKept`). One entry is not
  inductive: two wizards could both be past the abort on a configured id.
  `ClaimInv` says they are not, and that no entry stands beside the one that is.
  The types need `InHand`: an address once the first form is left, credentials from
  the checkin on.
* `FixIsKept` (`FixTakesEffect`) and `PolicyIsKept` (no row the trait policy drops
  ever gets into the file or a running entry), for any entries, paths and policy.
  `EffectKept`: what an entry's last Fix selected is in the file and in the entry
  while it runs, and a Fix that is about to write holds it in hand.
* `RepairListsNew` (`RepairIsCurrent`) and `WaitingIsKept` (a path that waits for a
  save waits until it is written or Home Assistant dies, the safety half of
  `NewPathsAreWritten`), for any paths and numbers of reloads and crashes, from
  `PathCacheAssumption`. The first needs that a dismissed Repair lists nothing and
  that what is new is in the cache; the second is an action property of the types.
* `ProbeLeavesGoodPair` (`AlternateOnlyIfSigned`), for any calls. `ProbeInv`: at most
  one call probes, and the pair that is active while it does is the one it signs
  with; so a call that ends the probe restores or keeps a pair of its own.
* `SearchesAreComplete` (`HubsAreFound`), for any hubs and services, from
  `DiscoveryAssumption`: the hubs on record are those that answered
  a resolver, and none resolves once the browse has returned (`BrowseInv`); the
  plugin's tables are what was said on its socket (`SearchInv`).
* `WalkAloneIsRight` (`LoneWalkIsRight`), for any packages, claims and walkers, from
  `RegistryAssumption`. `LoneInv` says, as long as no two walks have overlapped,
  where the indices stand at each step of the one there is: the packages before its
  place are in, and between walks nothing is indexed or everything.

`DeviceProofs`:

* `RefusedIsUnknown` (`KnownIsRecallable`), for any names, positions and recalls. A
  call's answer was read at one moment and is judged at another, so the invariant
  follows the name through it: in the account until the list is read, in the list
  from then on. A call of the select whose fetch failed is the exception, and
  `RefusedWasRead` without it is false.
* `AllAreTold` (`OneChangeTellsAll`) and `SettlesOnDevice` (`StateSettles`), for any
  traits and any number of orders and presses, from `TwinAssumption`. `TwinSettling`
  is about the frames on their way and the promises that go on after a chunk: the
  last of them that speaks of a trait brings what the device does, unless it is the
  record of a refused write or one that overtook a report.
* `SettingShowsDevice` (`ShownIsOnDevice`), for any codec and any number of writes.
  Settings are sent one after another; the last that took effect wrote what is on
  the wire, and without one the fields show it. What a codec makes of a value is
  used only through one fact about it, that the fields decoded are those sent or
  encode to the same value.
* `EntityShowsDevice` (`ShownSettles`), for every kind of entity and any number of
  writes and reports, from `ControlsAssumption`. A kind that reports ends with the
  device's value because the reports under way do (`TraitRight`), a setting because
  the last of its writes that took effect is still to be answered or was the last
  shown (`SettingRight`); both as long as the last change is `announced`, which a
  change while the hub is not subscribed, a lost report, the phone at a setting and
  an answer that did not come take back, and the next report or answered write gives
  again.
* `NoLightDrifts` (`NothingDrifts`), for any levels, percents, colour temperatures and
  colours in range and any width of the packed coordinates, from `LightAssumption`.
  `LightInv`: what is under way of a component is the lamp's value, and every
  component whose last change is told is shown or under way. The rest is arithmetic:
  rounding to percents and back, from mired to kelvin and back, and from a coordinate
  on the wire to a finer unit and back, ends where it began (`CoordinateSurvives`);
  and the two halves of a packed colour come apart as they went in (`Halves`,
  `HueSurvives`).
* `NoTwoAlike` (`EntitiesAreDistinct`), for every deviceType and any catalogue, overlay,
  overrides and settings, from `DeriveAssumption` (rids are distinct and no trait
  paths, as settings and reports are keyed). Every descriptor is made of one trait
  and reads it; a composer takes a trait one way, and all composers but the lock's
  make one descriptor of it at most. A light fuses what no other descriptor gets.

With these every invariant and every action property of a passing run is a theorem.
Only model-checked are:

* every liveness property, and whatever uses ENABLED: `CallsSettle`,
  `StopReturnsEventually`, `ComesBackOrHangs`, `CommandsReturn`, `DeadSessionEnds`,
  `AbsentIsPoked`, `PluginComesUp`, `DetectionsAreTimed`, `NewPathsAreWritten`,
  `RemovedIsUnloaded`, `TunnelCallsSettle`. They are out of the prover's reach;
  where such a property has a safety half (`ShownInFull`, `WaitingIsKept`,
  `EofWakesEveryWaiter`), that is proved;
* `Pairing` and `Tunnel`, whose runs have no other properties;
* what a fold or a recursion over data computes (the packed codecs of `Composite`
  and their round trips), which would need an induction.

A proof that ignored a step would not notice when it changes: with each mutated form
(`M_...`) that `PROJECT.json` lists for one of these properties put in its place, a
leaf of the proof fails.

## 7. Not modelled

Cryptography and ECC (pure arithmetic on 256-bit numbers), message and record
formats, model data, naming, units, diagnostics, the entry point of the plugin.
Cloud, mDNS, camera and hub appear as nondeterministic environment: a call is
answered, fails or is slow. Of the modelled parts, forms and their layout, the
bodies and signatures of cloud requests, the encoding of audio and RTSP, Matter's
conversions of level and colour, and the descriptors that a camera class adds to
the derived ones are left out. `PROJECT.json` gives the reason for each
component.

Three places were looked at and are not in the list of hazards because the step
that goes wrong is left out: `zoom_step` computes its target from the zoom before
it waits for the lock (`ptz/controller.py:237`); a Matter command that equals the
recorded state is ignored although a write of another value is under way
(`matter.js:235`); every re-arm
appends to the staged seeds of a path no entity has taken (`device/base.py:470`).

## 8. Plan

Order of what is left, most valuable first.

1. `PtzWire` (`ptz/session.py`, `cs2.py`): DRW acknowledgement and reassembly, the
   handshake of the transport under `connect()`, the zoom value.
2. `Frames` (`hub/tunnel.py`, `protocol/tunnel.js`): reassembly of chunks and the
   cipher counters on both sides, checked against a reference parser.
3. The Matter conversions (level 0-100 to 1-254 and back, colour temperature) as
   operators checked on their whole range, and the JavaScript cloud client.

Proofs that would be worth having next: the types of the modules that have none yet
(`Streams`, `Pairing`, `Tunnel`), and that each coordinator session is one of
`Session`'s, so that `OwnReply` carries over to the run loop.
