# Verification of nova-visualiser

nova-visualiser is a headless renderer service: it reads its configuration
from a dashboard, simulates and renders a particle picture, encodes it with
NVENC and hands the access units to viewers over TCP, SRT and (through
MediaMTX) WebRTC, and it drives room lighting while a party is on. The TLA+
modules here model its control: the threads, the locks and atomics they share,
what a request or a peer may do wrong, and the state that survives from one
turn to the next. Pixels, waveforms and wire formats are data and are abstracted;
of parsing there is what decides whether a cut document passes for a whole one.
Source paths below are relative to `src/src/`.

## 1. Inventory

### Threads and what they share

| thread | code | writes | read by |
|---|---|---|---|
| main | `service/main.cpp`, `service/engine.cpp` `run` | `running_`, every other thread by starting and joining it | everybody |
| config | `net/config_client.cpp` `run` | `snapshot_`, `lastError_`, `nowPlaying_`, `analysis_`, `fluidTheme_`, image and module caches | simulation, render, control |
| event stream | `net/sse_client.cpp` | `pending_` of the config client, by callback; its socket, which `stop()` also takes | config, main |
| simulation | `service/engine.cpp` `simulationLoop`, `core/simulation.cpp`, `core/signal.cpp` | cursor over the rotation, image slots, snapshots, the hue offset | render, lighting |
| render | `service/engine.cpp` `renderLoop` | GPU, encoders, publisher, broadcasts to both rungs | everybody who counts clients |
| TCP accept, and per client a writer and a reader | `net/stream_server.cpp` | client list, counts, presentation delay | render |
| SRT accept, statistics, and per client a writer | `net/srt_server.cpp` | client list, counts | render |
| watcher | `service/engine.cpp` `watcherLoop` | browser demand, the full-rate lease | render, control |
| control | `net/control_server.cpp`, `Engine::handleControl` | lease, lighting switch, keyframe requests, the posted signal | watcher, lighting, render, simulation |
| lighting | `net/house_party.cpp` | the dashboard's session | |

### Components

| component | state it keeps | operations | hard behaviour | what makes it correct | module |
|---|---|---|---|---|---|
| TCP rung | client list, count, per-client queue, `awaitingKeyframe`, `alive`, delay | start, accept, handshake, broadcast, send, read a report or a keyframe request, leave, stop | detached writers, a count stored outside the lock, a copied list, notifications without the mutex | a viewer is only ever sent what it can decode; every gap has a keyframe request; the count is zero exactly when nobody is there; list and count are empty after stop | `FanOut`, `StreamServer` |
| SRT rung | the same, a socket mutex, statistics | start, accept, broadcast, send, statistics, leave, stop | partial sends, libsrt calls that must not race, vanished peers nothing reports | the same; no two libsrt calls on one socket, none open after stop; a vanished viewer leaves | `FanOut`, `SrtServer` |
| keyframe requests | time of the last request, two flags, idle cadence | request, decide to encode, encode, fail | four unlocked accesses against a loop that skips frames | a granted request is not left to the idle cadence; forced IDRs keep their distance; IDRs keep coming | `Keyframes` |
| full-rate lease | four atomics | POST, watcher turn | interleaved stores, samples that stop while the GPU is released | full rate has a deadline and ends | `FullRateLease` |
| GPU lifecycle | what was started, header, publish, idle clock | start, stop, draw, publish, poll | starts that fail half way, polls that fail, demand known late | a viewer welcomed while the GPU is up keeps the encoder it was told of, an empty room is released, a browser is not cut off, a viewer is served | `GpuLifecycle` |
| config client | pending request, entity tag, caches, snapshot, error | event, poll, refresh, module, images, commit, theme | lost events, requests that fail, two requests that must agree | no announced change is dropped, the last configuration arrives, the selection does not regress | `ConfigClient` |
| entry selection and image slots | cursor, current entry, slots with a transition each | commit, theme, tick | rotations replaced under the cursor, changes during a change | the selection and the pictures settle; every change runs as promised | `Picture`, `SlotPromise` |
| lighting producer | switch, session | switch, begin, frame, end, stop | lost answers, a dashboard that forgets | one session, given back when off | `HouseParty` |
| simulation | scene (fields, entities, emitters), settings and their targets, live cells, waves, a beat's deliveries | ingest, rebuild, chase, size, emit, start, deliver | caps everywhere, a time budget that may cut in anywhere, an extent swept by a driver | limits hold; a field stays centred; a ripple is a ball and loses its rim first; a driven setting is never late | `Simulation` |
| parameter drivers | one slot per driver of a lane, rolls | choose groups, advance, combine | slots that outlive edits, events counted two ways, ties | an event is seen, a window is the span between firings, rolls follow events, the right lane wins | `Drivers` |
| now playing | sample of the player, track analysis, theme and its tag, posted signal | ask, receive, resolve, refresh the theme, post, make a frame | answers that travel, are cut, or never come; analysis of another song | the position stays near the room's, the beat is the one of the song's beat times, a cut answer changes nothing, everything is caught up with | `NowPlaying` |
| HTTP client and JSON reader | none | read to the close, parse | no length is checked, what follows a value is ignored | a cut document is not taken for a whole one | `Wire` |
| start-up and shutdown | `running_`, the threads, the watchdog | start, notice, stop, join, destroy; the one-shot modes | starts that fail, joins that never return, destruction while threads run, detached threads a stop gives up waiting for | no thread outlives what it uses but a client's that is given up on, the process ends, the lights are given back | `EngineRun` |
| event stream client | `socket_`, its descriptor | connect, send, receive, release, stop | two threads that may close one descriptor | a descriptor has one owner who closes it | `EngineRun` |
| control server | one thread, one request at a time | start, serve, stop | a client that never finishes its request | it cannot keep the process alive | `EngineRun`; its requests in `FullRateLease`, `Keyframes`, `HouseParty`, `NowPlaying` |
| snapshot channel | two pointers under one mutex | publish, latest pair | none: swapped and copied whole | | section 7 |

Interactions: both servers and the control server call `requestKeyframe`
(`Keyframes`); the render loop calls both servers' `broadcast` and reads both
counts (`StreamServer`, `SrtServer`, `GpuLifecycle`); the simulation loop reads
the config client's snapshot (`ConfigClient`, `Picture`), evaluates the driver
lanes it names (`Drivers`), makes the frame of what plays from the sample, the
analysis or the posted signal (`NowPlaying`) and submits the result as the input of
the simulation's next step (`Simulation`); the control thread
writes the lease the watcher ends (`FullRateLease`) and the switch the lighting
thread follows (`HouseParty`). Each of these is one shared value, which the
module on the reading side treats as an input that may change at any time. Two
compositions are modelled as such: `EngineRun` extends `HouseParty`, so that the
lighting thread's sessions are followed through start-up, shutdown and the end of the
process, and `NowPlaying` extends `Wire`, so that its answers are cut and parsed as
the code does it.

## 2. Modules

`X` is a component, `MCX` instantiates it for TLC and `MCX*.cfg` are its runs.

* **FanOut** is the abstract specification of both rungs: per viewer a bounded
  queue, `awaiting` (`awaitingKeyframe`), the unit in the writer's `hand`, and two
  history variables: `missed` (a unit was withheld since the last one queued)
  and `intact` (the last unit sent arrived whole). A unit says whether it is a
  keyframe and whether it is the direct successor of the unit queued before it.
  No locks, no sockets.
* **StreamServer** has the accept thread, the writer and the reader of each
  client, the render thread's broadcast and `stop()`, with one step per point
  where another thread can come between. A critical section is one action; the
  only place a client's mutex is held across two is the writer between finding
  its predicate false and blocking (`wpc = "toWait"`). It implements `FanOut`
  under the mapping `PhaseOf`.
* **SrtServer** is the same for the SRT rung: partial sends, the socket mutex
  as a variable, the statistics thread, peers that vanish. It implements `FanOut`.
* **Keyframes** has `requestKeyframe` as its five accesses and the render
  loop's decision, encode and pace, in turns of that loop.
* **FullRateLease** has POST /full-rate and one turn of the watcher, each load
  and each store a step of its own. Time is relative: a deadline is what is
  left of it, an instant is its age, so the state space is finite with no bound
  on time.
* **GpuLifecycle** has the render loop's GPU half (start, draw, publish; the
  decision to release in `Count`, and its steps `Release` and `StopRest`), the
  browser rung's publisher (`Opens`, `Writes`, `Closes`), the watcher's poll, one
  viewer and the browsers. The viewer counts from `ViewerJoins`, and its own thread
  reads the header later (`ViewerWelcomed`): `handed` is what became of the header
  it was sent, `away` says that the GPU was down, or about to be, just then. In a unit of time each loop
  takes one turn, in either order; both really take dozens.
* **ConfigClient** has the config thread's turn as the stages of its requests,
  against a dashboard that saves and selects at any moment.
* **Picture** has the simulation thread's tick: the rotation and the runtime
  selection swapped between ticks, the cursor, the two image slots.
  **SlotPromise** is what one slot promises, and both slots of `Picture` are
  shown to implement it.
* **Simulation** has one fixed step of `core/simulation.cpp`: `Tick` is ingest,
  rebuild, chase, `applyFieldExtents`, `emitBeatParticles`, `enqueueRootEffects` and
  `advanceFieldWaves`, in the code's order; `Deliver` is one turn of `processEffects`
  and `StepEnds` the 4 ms running out, before any turn, or the queue's end.
  `fields`, `emitters` and `waves` are `fields_`, `emitters_`, `fieldWaves_`; `dead` has
  the indices whose `entityLive_` is 0; `reached` has, for the beat under way, what
  `visitedTokens_` and the hop of a delivery say together. A strength is the number
  of hops until it falls under the code's threshold (each hop keeps 0.78 of it), an
  extent a number of `Steps` of its range, and a wave the number of steps until it
  has left its field, since radii and speeds decide nothing else. Fields are those
  of layout "grid". The image slots of the same step are `Picture`'s.
* **Drivers** has the frames: `Frame` moves the track on, rewinds it, changes it
  or edits what is selected, `Evaluate` is `Engine::applyControlLanes` with
  `evaluateDriverLanes`. `slots` and `rolls` are `parameterDriverStates_`, split by
  the ":rnd" in the key. One effect is modelled, since effects share no state. A
  level is a part of `Full`, a ramp gains one part per unit of time or takes no time,
  the track's position is counted in the same units; a value the code draws from a
  hash is any of `0 .. Grain`. `Groups` may hold several versions of one group, under
  different names with the same `id`, and `Edits` says which of the `IdLists` may
  become which.
* **HouseParty** has the lighting thread and the dashboard's sessions.
* **EngineRun** extends it with the process around it: `main` and `step` are the main
  thread's place in `Engine::run`, in a one-shot mode or in `~Engine`, `alive` the
  threads started and not yet ended, `told` those whose own flag is cleared, `stuck`
  those that never end, `gone` the members already destroyed. `Stops` and `Destroys`
  are the order of the joins and of the members' destructors, and `Uses` what each
  thread reads or calls into. A client's thread (the writer of either rung, with
  the TCP rung's reader, which its writer joins) is detached: it comes while its
  rung's thread is there (`ViewerComes`), goes when it likes (`ViewerGoes`), and is
  `late` once its rung's `stop()` has waited its two seconds in vain (`Join`). One for
  each rung stands for all. `encoder` says that `primaryEncoder_` may have been made, which
  decides how far a keyframe request goes. `sse`, `socket`
  and `fd` are the event-stream client's place, `socket_` and the descriptor. What a
  thread does while it lives is in the module of its component.
* **Wire** has the HTTP client's body (whole chunks, or whatever came) and the JSON
  parser's grammar over marks instead of characters, as recursive functions: `EndOf`
  gives where each construct that might start at a position would end.
* **NowPlaying** extends it with the player, the config thread's other half and what
  the simulation thread makes of both. `player.touched` numbers what the user does, so
  that a sample can be told to be of the player as it is; positions are doubled
  for the midpoint of a round trip. `Frame` is what `publishSimulationInput` hands on.

Theorems are in modules of their own, each extending what it is about:
**FanOutProofs**, **StreamServerProofs** and **SrtServerProofs** (each a rung's
refinement and its own invariant), **CadenceProofs** (`Keyframes` and
`FullRateLease`), **GpuLifecycleProofs**, **ConfigClientProofs** (`ConfigClient` and
`NowPlaying`, the two halves of `net/config_client.cpp`), **SimulationProofs**
(`Simulation` and `Picture`, the two halves of a step of `core/simulation.cpp`, and
`Drivers`, which drives its settings and needs the same lemmas about folds) and
**EngineRunProofs** (with `HouseParty`, which `EngineRun` extends). Where one
module extends several, their definitions carry different names (`LeaseSpec`,
`ConfigSpec`, `PictureSpec`, `LanesSpec`).

Names are those of the source wherever TLA+ allows it; a definition introduced
by a comment "Mutant" is a plausible bug in the definition that follows it and
is used by no specification.

## 3. Runs

| run | specification, instance | shows |
|---|---|---|
| `fanout` | `FanOut`, 2 viewers, queue of 2 | the inductive invariant `IInv` and `NeverMidGop` |
| `tcp` | `StreamServer`, 2 connections, queue of 1, reports and keyframe requests | `ImplementsFanOut`; `RosterInv` (every gap is asked for, the count is zero exactly when nobody is there, the delay goes with the clients, list and count are empty after stop) |
| `srt` | `SrtServer`, 1 viewer that may vanish, queue of 2, fair | `ImplementsFanOut`; `NoSocketRace`; `LinkInv` (every gap is asked for; after stop list and count are empty, no socket is open and no accept or statistics thread is left); `BrokenLinkLeaves` |
| `keyframes` | 2 requesters, interval 4, GOP 6, every other idle frame skipped, requests delayed by 1, encodes that fail | `RequestInv` (a granted request is not left to the idle cadence, IDRs keep coming), `ForcedIdrsSpaced` |
| `lease` | 3 POSTs, leases of up to 4, pressure for 2, a watcher late by 1, GPU released and restarted at any time, fair | `LeaseInv` (deadline and rate agree, no lease ends by one slow frame); `UndisturbedLeaseExpires` |
| `gpu` | idle release 4, retry 2, poll 1, one failure, fair | `GpuInv` (a viewer welcomed while the GPU is up keeps the encoder it was told of), `BrowserNotCutOff`, `RoomEndsRelease`, `ViewerServed` |
| `config` | 2 images, 4 documents, 2 saves, 1 selection, 1 failure, fair | `ClientInv` (what was announced is on its way), `SelectionNeverRegresses`, `CentreImageKept`, `ConfigConverges` |
| `picture` | 2 entries, 2 images, 7 rotations (one with an id twice), 8 selections | `PictureInv` (the selection settles), `PictureSettles`, `SlotsKeepPromise` |
| `run` | `EngineRun`, leases of 2, pauses of 1, 3 sessions, 1 toggle, 1 loss, SRT served, a client on each rung, fair | `RunInv` (one lighting session; the event stream's descriptor has one owner), `NobodyOutlives`, `LightsGivenBack`, `ProcessEnds`, `EnabledLights`, `DisabledRestores` |
| `nowplaying` | 2 songs, one with beat times 1, 2 and 4, one without; a signal is stale after 2; 3 units of time, 2 touches, 1 loss, fair | `NowPlayingInv` (the tag is the theme's, the beat is the one a plain scan finds), `PositionTracks`, `TruncatedIgnored`, `CatchesUp` |
| `simulation` | 4 modules and none, 3 templates, extents in thirds, 2 hops, 9 deliveries, 2 waves, 3 emitters | `SimulationInv` (limits, a gated field centred, the farthest cells dropped first), `RippleIsBall`, `DrivenIsNow` |
| `drivers` | 6 selections of 6 groups, every type of driver and mode, a track of 9 units and one change | `DriversInv` (rolls follow events, windows are the spans between firings), `LaneRanks`, `TriggerPeaks`, `RateLimited` |

An invariant whose name ends in `Inv` is its module's type invariant together
with the invariants named beside it: every conjunct is a named definition of the
module, with its own comment, unless it is a line long.

### Bounds

* *Queue lengths.* `kMaxQueuedFrames` is 8 in the code. What happens to a queue
  depends on empty, in between and full: 2 shows all three, 1 shows empty and
  full and is used where two connections interleave. The proofs hold for every
  limit.
* *Clients.* Two connections show a join during a broadcast over a copied list,
  a count stored after another client left, and a delay written by one reader
  while another client leaves. A connection that closes is never seen again, so
  each identity is used once. For SRT one viewer already meets the accept,
  statistics, render and stop threads; two do not finish within minutes once
  fairness is needed.
* `ReportsWhileQuiet` (tcp): a telemetry report is processed while at most one
  connection is alive and nothing is queued or being broadcast; what becomes of
  the delay depends on neither. `StopsDrained` (tcp): the server is stopped with
  empty queues; what stop leaves does not depend on what is queued. Both are
  state constraints of `MCStreamServer`.
* *Time.* Durations keep their order and their differences, not their size: the
  keyframe interval is longer than a request may take (`MaxDelay`), the watcher's
  turn (`MaxLag`) is shorter than a lease, the idle release is longer than a poll.
  Counters stop at one more than the largest value anything is compared with.
* *The simulation.* Each limit is met and each is met by a module that goes past it:
  `ripples` fills its particles by emitters that bring emitters and has more cells within
  two hops than `MaxDeliveries`, `deep` loses a cell of its field to the room and finds
  none for the next, and its root is dead at extent 0, `choir` starts waves past
  `MaxWaves`, `empty` falls back to the ring. Extents of 0 to
  3 thirds over 2 to 5 columns meet both parities. Two hops show the limit on hops
  and the strength (`Reaches` 0, 1 and 9) each ending a ripple. Two beat indices are
  enough: the code only compares one with the last.
* *The drivers.* The track's 9 units have one bar of 2 beats and the start of the next,
  so beats, downbeats, quarters and offsets all fire; an attack or release longer than a
  frame (`Full` 3, `Delta` 2) ends in the middle of one. Each group is in one of the
  selections; two differ by an edit of one lane from level to pulse, another by one
  that brings a group back that had gone.
* *What plays.* Two songs are a change of song and a way back; beat times with a gap
  of one and a gap of two show a beat reached, passed and skipped. Three units of time
  let an answer be a unit old, the posted signal go stale and a second answer
  correct the first. The theorem about the position has no bound at all.
* *The process.* Its threads, members and stages are all there, so only the lighting is
  bounded: one toggle and one loss meet any two steps of a shutdown, and the lease is
  longer than a pause. `ViewersWhenStopped` (run, a state constraint of `MCEngineRun`): a
  client's thread is there only once its rung has been told to stop, or a member is
  destroyed. Before that nothing depends on it, so one that was there all along is as
  one that comes then; the proofs do without. For the same reason a thread gets stuck
  only in its join (`Sticks`).
* `MaxPosts`, `MaxSaves`, `MaxChoices`, `MaxFailures`, `MaxLosses`, `MaxToggles`,
  `MaxSessions` bound how often the environment acts. Each is at least two wherever
  a property is about one action meeting the effects of another, and one failure is
  enough wherever the code keeps only whether the last attempt failed.

### Fairness

Only what the operating system and the code give: a thread that can run does
(WF of each thread), a mutex that is released again and again is acquired in
the end (SF of the acquiring step), a request is answered or times out (the HTTP
client has a timeout on every call). The encoder has a fixed GOP, so keyframes are
broadcast again and again (SF on `CastBegin(TRUE)`, never on when). SRT gives up on
a silent peer (`SRTO_PEERIDLETIMEO`), so sends to it do not look like a full buffer
for ever. The theme is due every ten seconds and its request can be answered, so it is
read again and again (SF on `RefreshTheme`); the watchdog's sleep is over some time.
Nobody has to join, leave, stop, save, select, touch the player or signal the
process, no send has to succeed, and no client's thread has to end for the process to. `BrokenLinkLeaves` also assumes that a
writer woken again and again for a unit sometimes reaches it before eight more frames overflow the queue.

Deadlock is checked in every run but those in which the modelled part really
stops: a stopped server (`tcp`, `srt`), a fan-out all of whose viewers
have left (`fanout`), a process that has ended (`run`), and the end of the clock,
of touches and of losses (`nowplaying`).

## 4. Proofs

Every theorem holds for all values of the constants, under the assumptions its module
declares: `QueueAssumption` (a positive queue limit) for the fan-out and both rungs,
`ClientsAssumption` (finitely many connections, since the count is a cardinality) for
`RosterInv` and `LinkInv`, and each other module's assumption that durations,
counts and limits are numbers in the order the code's constants have.

| module | theorem | states |
|---|---|---|
| `FanOutProofs` | `InvHolds`, `NeverMidGopHolds`, `QueueDiscipline` | the invariant of the fan-out; no viewer is sent what it cannot decode; a waiting viewer has no backlog, and none exceeds the limit |
| `StreamServerProofs` | `FanOutImplemented`, `NeverMidGopHere`, `RosterInvHolds` | the TCP rung implements the fan-out, and so inherits its promise; list, count, delay and requests agree through every join, leave, drop and stop |
| `SrtServerProofs` | `FanOutImplemented`, `NeverMidGopHere`, `NoSocketRaceHolds`, `LinkInvHolds` | the same of the SRT rung; no two libsrt calls on one socket, none on a closed one |
| `CadenceProofs` | `RequestInvHolds`, `ForcedIdrsSpacedHolds` | requests are not left to the idle cadence, IDRs keep coming, forced ones keep their distance |
| `CadenceProofs` | `LeaseInvHolds` | deadline and rate agree unless stores met; one slow frame ends no lease |
| `GpuLifecycleProofs` | `GpuInvHolds`, `BrowserNotCutOffHolds` | a viewer welcomed while the GPU is up keeps the encoder it was told of; a reading browser is not cut off |
| `ConfigClientProofs` | `ClientInvHolds`, `SelectionNeverRegressesHolds`, `CentreImageKeptHolds` | no announced change is dropped; the selection never goes back; a centre image kept is the same decode |
| `ConfigClientProofs` | `PositionTracksHolds`, `NowPlayingInvHolds` | the position is within half a round trip of the player's; the theme's tag is the theme's and the beat the one a scan finds |
| `SimulationProofs` | `SimulationInvHolds`, `RippleIsBallHolds`, `DrivenIsNowHolds` | every list stays within its limit, a ripple or a wave touches what the scene has, a gated field stays centred and drops its farthest cells first; a ripple reaches its balls from the roots outward, each cell at its distance; a driven setting is never late |
| `SimulationProofs` | `PictureInvHolds`, `PictureSettlesHolds`, `SlotsKeepPromiseHolds` | within two ticks the selected entry is shown; both slots come to rest on its images; both implement `SlotPromise` |
| `SimulationProofs` | `DriversInvHolds`, `LaneRanksHolds`, `TriggerPeaksHolds`, `RateLimitedHolds` | rolls follow events, windows are the spans between firings, an effect keeps its overshoot; the right lane takes it; an event is seen in its own frame; a follower never overshoots |
| `EngineRunProofs` | `RunInvHolds`, `NobodyOutlivesHolds`, `LightsGivenBackHolds` | sessions and descriptors have one owner; no thread outlives a member it uses, but a client's that its rung has waited for in vain; the lights are given back |

`NeverMidGop` is not inductive. It says that a unit in a writer's hand decodes;
for the next pop one must know that all queued units after the first follow
their predecessors (`QueueDecodable`), that a live client that is not waiting has
missed nothing, so that the next unit to be queued follows too (`NothingMissed`),
and that after a unit that arrived broken the head of the queue, if any, is a
keyframe (`HeadDecodable`). The last one rests on `KeyframeFindsRoom`: a client
waiting for a keyframe has no backlog, so the keyframe is queued first and is
never thrown away by the overflow branch. `IInv` is their conjunction with
`TypeOK`, `AbsentAwaits` and `BacklogBounded`; each action of `FanOut` has one step
in the proof that it is preserved.

*The rungs implement the fan-out.* Each client's `phase` in `FanOut` is a function
of its writer's place and its `alive` (`PhaseOf`); every action of the server is a step
of one client there, a broadcast to one client, or a stutter. The invariant it takes
(`IInv` of each proof module) says what the types are, that a client not yet accepted
is as `FanOut`'s absent one (`Unborn`), that the one the accept thread has just made
(`Handed`) and those in the list (`Listed`) are clients that a broadcast may reach,
and for SRT that no thread runs before start (`Fresh`) and that whoever is
inside libsrt holds that socket's mutex (`Locked`, from
which `NoSocketRace` follows). What `FanOutProofs` proves is then instantiated with
`phase` mapped, which gives `NeverMidGopHere`.

*The server's own invariants.* `RosterInv` lacks what is true in the middle of
things: readers run only inside their writer's life (`Readers`), stop joins in order
(`Exited`, `Cleared`), the size the accept thread is about to store counts its own
client (`Held`), and a waiting client that nobody has yet asked for is covered by the
broadcast or the accept under way (`Gaps`). `LinkInv` takes the same for SRT:
`JoinedInTurn`, `Closing` (an open socket is in the list, or in the copy stop is going
through), `ClosedFirst`, `Emptied` and `Gaps`.

*Keyframes.* A thread past the exchange is alone there and its time is the stored
one (`OneServed`, `Unhurried`), a request is answered within `MaxDelay + 1` turns of
that time (`Young`, `WantedYoung`), so that the time is never much older than the last
forced IDR (`AgeBound`), and the next request waits for it to age (`Spaced`). `Paced`
bounds the turns since any IDR by the frames encoded since.

*The lease.* `Midway` says what the two threads' stores have done so far, for every
place of each; `Sighted` bounds the age of the first sighting of pressure by the last
sample without relief.

*The GPU.* Whoever was welcomed is counted (`Welcomed`), so the decision to release is
not taken while it stays, and one taken before it came is still to be carried out
only in the place "release", which `away` remembers. That a browser is not cut off takes the watcher's clock against the render
loop's: either the browser has not read, or the loop has not been idle, for longer than
the poll periods spent so far, one for every failure (`Unseen`, with `Polled`: a turn
of the watcher without a poll that was due found nothing published). Once a browser is
seen, `idleFor` starts anew in the next turn of the render loop (`Seen`), which comes in
every unit (`Turns`); what the count found then holds until the release is carried out
(`Leaving`). That the references retained are counted by the failures
(`Retained`) is what types need.

*The position.* An answer is dated between asking and receiving (`AnswerTracks`);
from then on player, sample and posted signal advance alike (`SampleTracks`,
`SignalTracks`), until the player is touched.

*The beat.* `NowPlayingInvHolds` has a hypothesis: the beat times of each song
ascend. The code takes them from the provider as they come
(`net/config_client.cpp:882`) and bisects them (`core/signal.cpp:115`), so in another order it
would find another beat. The bisection is a recursive function, whose value is
proved in two parts: what solves its equation finds the end of the beats passed
(`BisectionFinds`: of the spans it missed on, a shortest would have a shorter one), and
something does solve it (`BisectionExists`). For a posted signal, the
beat and phase it was sent with, carried on, are the beat of the position carried on
(`QuotientAdds`).

*The configuration.* A change heard is on its way (`HeardIsOnItsWay`): this is kept by a 304
only because the tag is that of the snapshot (`Tagged`), and by an answer under way
because either another refresh is due or it is as new as what was heard (`Fresh`),
nothing being announced before the dashboard has it (`Announced`). A selection shown was
once the dashboard's (`Selected`), so that the next poll cannot be older. That what is
shown is in the cache (`Cached`) makes the next refresh find the same decode.

*The picture.* `stable` counts ticks since anything changed. After one the entry
noted is the one at the cursor (`Noted`), after two it is the one selected (`Followed`), and
each further tick hands on what the last did (`Given`, `Shown`), so a transition
under way only goes on (`Ramps`, with `Whole`: one that runs has a tick to go) and is over
once `stable` has passed the longest. `ParameterAssumption` of `Picture` says what its
constants must be for that: transitions of a finite length, nobody's image among
the images. A rotation may have an id twice; both properties then speak of one of
the places it is at.

*The simulation.* Scenes, waves and hops are built by `FoldLeft`, a recursive function
whose value is proved in two parts, as the bisection's is: something solves its
equation (`FoldExists`), and what does is the fold (`FoldSolved`); so what holds of the base
and is kept by each step holds of the fold (`FoldReaches`, `FoldStays`). A scene stays
`Good`: its fields lie one behind the other and end before the entities do, its
emitters keep their limit, and its entities are within the particles of the module or
end with its last field. Parts only lengthen it (`Grown`, `Later`). `IInv` says that the
current scene is one (`SceneOK`), that each wave runs on a field of it
(`WavesOK`) and that each delivery under way is for one of its entities
(`RippleOK`). That a gated field stays centred is a lemma about `Sized` (`Shares`: the live
cells and twice the margin make up the whole, on each axis). `ModulesAssumption`
says of the modules what `core/module.cpp` and `instantiateEntity` clamp:
limits and sizes are at least 1. `DrivenIsNow` is inductive as it stands.

*The ripple.* `RippleIsBall` is what a breadth-first search promises, here of a search
over several fields at once that may be cut off anywhere. The proof has two parts. The
first is about the fields alone: `Lies(i, k)` says that a ripple is to reach the cell `i` at
`k` hops; each cell is of one field (`OneField`), a step leads from `k` to at most `k + 1`
(`LiesSpreads`) and every cell but a root is a step from one at `k - 1`
(`LiesParent`). On a ring that rests on the root being in the middle, so that the way
through the seam is never the shorter one (`RingFar`). On a lattice it rests on coordinates
and indices being the same thing (`CoordsBack`, `CoordsThere`), on the live part being a
rectangle, and on a choice: a field that found too little room lacks its last cells, so the way
back goes down an axis first and up one only when no coordinate exceeds the root's
(`OneStepBack`, `CellsBelow`). The second part is the queue: `Goes` says that its hops are
ordered and within one of each other, that what was reached came before what waits, and
that every cell that is next waits (`Waiting`). So what lies nearer than anything that waits
has been reached (`Earlier`), which gives the hop of the next cell its distance and the
property its three parts. `RippleInv` adds that the dead cells are those of the current
extents (`InShape`), which a tick establishes and a turn keeps.

*The drivers.* A slot stays one of `SlotsAt(track)` (at rest it has no level, and it has
counted no more songs than it has seen), whatever driver it is handed to: a pulse is
four `Turn`s, each of which leaves a slot with what remains of the frame (`Walks`). What
one frame does to one slot is `Moves`, which is `TriggerPeaks` and `RateLimited` for that
slot. An evaluation is a fold over the lanes, and `Through` says what holds after the
first `i` of them: their slots have moved, the others have not, each roll is of its
lane's event, each part is what the slots now give. `LaneRanks` needs one fold more,
the winner's (`TakenOf`). `WindowsAreFirings` is arithmetic: to divide by the units of a
window is to divide by those of a pulse and then by `every` (`WindowsOfPulses`). Of the
groups, `GroupsAssumption` gives only their types, and `DividesAssumption` says that a unit is
fine enough for every subdivision, which is how the model's units are chosen. Two
hypotheses are about data the code takes as it comes, and are therefore stated in the theorems and
not assumed: in `DriversInvHolds` that lanes with the same group and lane id are the
same lane (`LanesOwned`), in the others that no two lanes in force share a slot
(`LanesApart`). Without the first two lanes would draw one roll for different events;
without the second a group selected twice moves its slots again after its part has
been taken (section 5). `MCDrivers` assumes both of its instance, so TLC has checked that it
is one of those the theorems are about.

*The process.* `main` and `step` decide who may be alive (`Started`), whose thread and clients
are done with (`JoinedInTurn`) and what is destroyed (`Destroyed`). Run can return with both
rungs serving, when the control server cannot start; then there is no encoder yet
(`Blank`), and a rung that finds none does not get to the members declared after it.
Otherwise what is left are clients' threads that are `late`. `Socket` who has the descriptor. `GivenBack` is about the lighting alone:
as long as nothing was lost, the session the thread drives is the only one open, and it is
renewed before its lease is up, since every turn sleeps once and a lease lasts at least two; `Orphans`
counts the sessions left behind by those lost.

Out of reach of the prover, and checked by TLC only: everything under fairness
(`BrokenLinkLeaves`, `UndisturbedLeaseExpires`, `RoomEndsRelease`, `ViewerServed`,
`ConfigConverges`, `ProcessEnds`, `EnabledLights`, `DisabledRestores`, `CatchesUp`),
anything about ENABLED, and induction over data, which the parser in `TruncatedIgnored` would
need.

## 5. Where the code departs from its comments and documents

These were met while modelling. The models do what the code does; the
properties are stated so that they are true of it.

* A POST of the lease whose stores fall between the watcher's leaves full rate
  without a deadline, and nothing ends it (`service/engine.cpp:620`), against "borrowed
  capacity that must always expire on its own" (`service/options.h:39-41`); `LeaseInv`
  excepts such a meeting (`overlapped`), and `UndisturbedLeaseExpires` is about the rest.
* A signal to stop that comes before `run` has stored `running_` is lost
  (`service/engine.cpp:1384`). When the watchdog ends the process it does so with
  status 0 (`:1440`), which hides the failure from a unit's `Restart=on-failure`.
* When its request cannot be sent the event-stream client closes a descriptor that
  `stop()` may just have closed (`net/sse_client.cpp:57`), and its thread may call
  recv on one that `stop()` closed; `SocketOwned` is about the other paths. Its sleep
  between attempts grows to 15 s and nothing cuts it short (`:42`), so the join of the
  config client can outlast the 8 s watchdog; the lights have been given back by then.
* Whether playback is idle goes by the dashboard even while the posted signal is
  shown (`service/engine.cpp:338`, `:345`), against `service/engine.h:92`.
* The lyric's index is a static that outlives the track it was of
  (`service/engine.cpp:314`).
* The sample has no age: when the dashboard is gone while a track plays, the position
  runs on for ever (`service/engine.cpp:317`). The midpoint of a slower round trip may
  lie before that of the last, so a position can move back and a beat come twice
  (`net/config_client.cpp:824`).
* The track's analysis stays the previous song's until the new one is had, or for
  as long as resolving fails (`net/config_client.cpp:868`); `CatchesUp` is about the end
  of it.
* The control server answers a POST whose body was cut as soon as the peer closes
  (`net/control_server.cpp:60`).
* `stop()` stores `alive` and notifies without the client's mutex
  (`net/stream_server.cpp:400`), so a writer between its predicate and its wait
  sleeps for ever, against the comment at `:83`; `StreamServer` has the step (`StopKill`
  while `wpc = "toWait"`). In the TCP rung the reader, whose recv the shutdown of the
  socket ends, notifies once more (`:224`), as a rule late enough to wake it; the SRT
  rung has the step too (`net/srt_server.cpp:198`), and nothing after it.
* The clients' threads are to remove themselves "before this server can be destroyed"
  (`net/srt_server.cpp:205`), but either rung's wait for them is bounded
  (`:207`, `net/stream_server.cpp:405`): one that is held up for longer, or sleeps for
  ever, outlives the server, and if it wakes uses what is gone. `NobodyOutlives` excepts
  these threads and no other.
* A viewer that comes while the GPU is released, being started, or counted out but not
  yet released, is sent the header at once (`net/stream_server.cpp:197`): that of the
  encoder before, or one without sets. The frames it then gets are those of the
  encoder its arrival starts (`service/engine.cpp:709`); it recovers at their first
  IDR, which has its parameter sets in-band (`:104`). `WelcomeKept` is about the others.
* A start that fails half way leaves what it made, and neither the idle release nor
  `stopGpu` touches it (`service/engine.cpp:172`), against the README's promise that an
  empty room releases the GPU; `RoomEndsRelease` excepts what a failure left.
* A request that arrives between the encoder's read of its flag and the reset is
  lost (`encode/encoder.cpp:193`), and one that arrives within the interval is
  dropped without being remembered (`service/engine.cpp:556`).
* The GOP counts encoded frames, so while nothing plays scheduled IDRs are
  further apart in time by the idle divisor (`encode/encoder.cpp:123`).
* Pressure first seen before a release is still on record after the restart
  (`service/engine.cpp:600`).
* A failing render ends the loop and not the service, which keeps accepting
  viewers and holding the GPU (`service/engine.cpp:831`); a browser alone never
  makes a released GPU start, because nothing is published that it could be
  reading (`service/engine.cpp:592`); after a restart the header is advertised
  without parameter sets, since `advertisedParameterSets` is never reset
  (`service/engine.cpp:889`); and client threads use `primaryEncoder_` while the
  render thread resets it (`service/engine.cpp:553`).
* A module package replaced between the configuration's answer and the module's
  request is cached under the first one's key; when the first is put back the
  cache keeps answering with the second (`net/config_client.cpp:242`).
  `ConfigConverges` excepts a package that was put back.
* The commit's sweep keeps images shown as a centre and drops the others, so a
  backdrop is decoded again by every refresh and counts as a change
  (`net/config_client.cpp:729`); the commit also resets the transitions of the
  selection to their defaults until the theme is next read
  (`net/config_client.cpp:718`).
* The cursor is looked up again only when the authoritative id changes, so a
  rotation that is reordered shows another entry for one tick
  (`service/engine.cpp:393`); a cut leaves the outgoing image in place with a
  zero duration (`core/simulation.cpp:134`).
* The settings groups of a selection apply whether or not its entry is in the
  rotation held (`service/engine.cpp:262`).
* A dead cell "neither conducts an effect nor receives one"
  (`core/simulation.cpp:1173`), but the root of a field is energised whether or not it
  is live, and then passes nothing on: at a small extent of a field of even rows, or
  of one cut short by the room, a beat starts no ripple. On a field of one
  row the ring is followed through dead cells (`:1167`).
* While the rotation is paused the chase stands still (`core/simulation.cpp:275`), so
  a setting edited then, and not driven, waits for the end of the pause.
* A jittered pulse fires "exactly once per cadence window"
  (`core/parameter_drivers.cpp:252`); a window whose last frame comes before the
  threshold drawn for it passes without, and after a jump back it fires again in a
  window it had fired in.
* Under `strongest` a level lane "never wins outright" (`core/parameter_drivers.cpp:470`);
  it does when no pulse contributes in that frame.
* A group selected twice advances its slots twice in a frame
  (`core/parameter_drivers.cpp:402`), so its envelopes run at double speed.
* A lost frame makes the lighting producer forget its session without ending it,
  so a stop right after it ends nothing (`net/house_party.cpp:34`); the hue offset
  is looked up in an input that was moved away (`service/engine.cpp:547`).

## 6. Plan

Built, in this order: (1) the fan-out and both rungs; (2) keyframe requests; (3) the
lease; (4) the GPU lifecycle; (5) the config client's configuration half; (6) the
selection and the image slots; (7) the lighting; (8) the simulation's step; (9) the
parameter drivers; (10) the now-playing half of the config client with the reading of
its answers; (11) start-up and shutdown with the event-stream client's socket and the
lighting; (12) the beat index against a reference; (13) the proofs of section 4.

Left: dynamic resolution in the render loop; bar and lyric indices; the reading of a
control request as bytes; `EngineRun` with the config client's turn in it, so that a
stop meets each of its requests.

Every safety property that a run checks has a theorem, but for `TruncatedIgnored`.

## 7. Not modelled

OpenGL, CUDA and NVENC calls, shaders and the floating-point references they are
compared with; how entities look, move and bounce, spectra and interpolation, which
are real arithmetic; the snapshot channel, whose two pointers are swapped and copied
under one mutex; expressions, modules and palettes, parsers that keep no state;
numbers and escapes of JSON; how the fields of a configuration become settings; option
parsing; the offline tools under `tools/`; the deployment files. MediaMTX, the
dashboard, the player, libsrt, libavformat and the operating system are external: the
models give them every answer the code has a branch for.
