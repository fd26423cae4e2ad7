----------------------------- MODULE EngineRun -----------------------------
(***************************************************************************)
(* The life of the process: main, Engine::run, the one-shot modes and      *)
(* ~Engine (src/src/service/main.cpp, src/src/service/engine.cpp), which   *)
(* start, stop and join every other thread; the SSE client's socket, which *)
(* its thread and stop() hand over to each other (src/src/net/sse_client.cpp); *)
(* and the lighting producer (HouseParty), which this module composes.     *)
(*                                                                         *)
(* Every other thread is either alive or ended: what it does meanwhile is  *)
(* in the module of its component.  Time is left out: the watchdog may     *)
(* fire at any moment after it is armed, however quick the joins were, and *)
(* a rung's stop() may have waited its two seconds for a client's thread,  *)
(* which is detached, however soon that would have ended.                  *)
(***************************************************************************)
EXTENDS HouseParty, Sequences

CONSTANTS
  SrtServes,  (* the SRT rung is wanted and can be started                  *)
  Viewers     (* the rungs' client threads that may come, one for each rung *)

ASSUME SrtAssumption == SrtServes \in BOOLEAN

ASSUME ViewerAssumption == Viewers \subseteq {"streamClient", "srtClient"}

VARIABLES
  mode,      (* what the options ask for: the service or a one-shot         *)
  main,      (* the main thread's place                                     *)
  step,      (* its place in Stops or Destroys                              *)
  phase,     (* ... and in the stop of that one                             *)
  on,        (* Engine::running_                                            *)
  alive,     (* the threads that have been started and not ended            *)
  told,      (* the threads whose own running_ has been cleared             *)
  stuck,     (* those that will never end                                   *)
  late,      (* clients' threads their rung's stop() has given up waiting for *)
  gpu,       (* there is something for stopGpu to tear down                 *)
  encoder,   (* primaryEncoder_ may have been made                          *)
  watchdog,  (* the detached thread of the shutdown is asleep               *)
  gone,      (* members of Engine that ~Engine has destroyed                *)
  exit,      (* how the process ended                                       *)
  sse,       (* the SSE thread's place                                      *)
  socket,    (* whether socket_ holds a descriptor                          *)
  fd         (* the descriptor of the connection                            *)

mainVars == <<mode, main, step, phase, watchdog, gone, exit>>
threadVars == <<on, alive, told, stuck, late, gpu, encoder>>
sseVars == <<sse, socket, fd>>
allVars == <<vars, mainVars, threadVars, sseVars>>

Loops == {"simulation", "render", "watcher"}
Servers == {"stream", "srt", "control", "config"}

(* The rung that serves a client.                                          *)
RungOf(client) == IF client = "srtClient" THEN "srt" ELSE "stream"

(* What run stops or joins once running_ is false, in order ...            *)
Stops ==
  IF mode = "service"
  THEN <<"simulation", "render", "watcher", "stream", "srt", "control", "house", "config">>
  ELSE <<"simulation", "config">>

(* ... and the members of Engine in the order they are destroyed: "status"
   stands for those declared after the servers, "encoders" for those before. *)
Destroys == <<"status", "house", "control", "srt", "stream", "config", "encoders">>

(* The members a thread reads or calls into.  Those of a rung ask for key
   frames: requestKeyframe looks for an encoder first, and at the time of the
   last request, which is among "status", only when there is one.          *)
Uses(t) ==
  CASE t = "simulation" -> {"status", "house", "srt", "stream", "config", "encoders"}
    [] t = "render" -> {"status", "srt", "stream", "config", "encoders"}
    [] t = "watcher" -> {"status", "encoders"}
    [] t = "control" -> {"status", "house", "control", "srt", "stream", "config", "encoders"}
    [] t = "config" -> {"config"}
    [] OTHER -> {IF t \in Viewers THEN RungOf(t) ELSE t, "encoders"}
                  \cup (IF encoder THEN {"status"} ELSE {})

RunTypeOK ==
  /\ mode \in {"service", "selftest", "dump"}
  /\ main \in {"boot", "config", "house", "stream", "srt", "control", "loops", "wait",
               "gpu", "await", "work", "frames", "stop", "teardown", "destroy", "wedged", "ended"}
  /\ step \in 1..8 /\ phase \in {"halt", "exchange", "close", "join"}
  /\ alive \subseteq (Loops \cup Servers \cup Viewers) /\ stuck \subseteq alive
  /\ late \subseteq (alive \cap Viewers)
  /\ told \subseteq (Servers \cup {"sse"})
  /\ {on, gpu, encoder, watchdog, socket} \subseteq BOOLEAN
  /\ gone \subseteq {Destroys[i] : i \in DOMAIN Destroys}
  /\ exit \in {"no", "returned", "exited", "watchdog"}
  /\ sse \in {"off", "top", "connect", "send", "drop", "close", "test", "recv",
              "release", "shut", "ended"}
  /\ fd \in {"none", "open", "closed"}

RunInit ==
  /\ Init
  /\ mode \in {"service", "selftest", "dump"}
  /\ main = "boot" /\ step = 1 /\ phase = "halt"
  /\ on = FALSE /\ alive = {} /\ told = {} /\ stuck = {} /\ late = {}
  /\ gpu = FALSE /\ encoder = FALSE
  /\ watchdog = FALSE /\ gone = {} /\ exit = "no"
  /\ sse = "off" /\ socket = FALSE /\ fd = "none"

(* The process is gone, and with it its threads, memory and descriptors.   *)
EndProcess(how) ==
  /\ exit' = how /\ main' = "ended" /\ step' = 1 /\ phase' = "halt"
  /\ alive' = {} /\ stuck' = {} /\ told' = {} /\ late' = {} /\ gone' = {}
  /\ on' = FALSE /\ watchdog' = FALSE /\ gpu' = FALSE /\ encoder' = FALSE
  /\ sse' = "off" /\ socket' = FALSE /\ fd' = "none"
  /\ Dies
  /\ UNCHANGED mode

Go(place) == main' = place /\ UNCHANGED <<mode, step, phase, watchdog, gone, exit>>

-----------------------------------------------------------------------------
(* Start-up.                                                               *)

Boot ==
  /\ main = "boot"
  /\ IF mode = "service" THEN Go("config") /\ on' = TRUE ELSE Go("gpu") /\ UNCHANGED on
  /\ UNCHANGED <<vars, alive, told, stuck, late, gpu, encoder, sseVars>>

StartConfig ==
  /\ main = "config"
  /\ Go(IF mode = "service" THEN "house" ELSE "await")
  /\ alive' = alive \cup {"config"} /\ sse' = "top"
  /\ UNCHANGED <<vars, on, told, stuck, late, gpu, encoder, socket, fd>>

StartHouse ==
  /\ main = "house"
  /\ Go("stream") /\ Start
  /\ UNCHANGED <<threadVars, sseVars>>

(* The TCP rung and the control server are fatal when they fail ...        *)
StartServer(t, next) ==
  /\ main = t
  /\ \/ /\ alive' = alive \cup {t} /\ Go(next)
     \/ Go("teardown") /\ UNCHANGED alive
  /\ UNCHANGED <<vars, on, told, stuck, late, gpu, encoder, sseVars>>

(* ... the SRT rung is not.                                                *)
StartSrt ==
  /\ main = "srt"
  /\ Go("control")
  /\ alive' = alive \cup (IF SrtServes THEN {"srt"} ELSE {})
  /\ UNCHANGED <<vars, on, told, stuck, late, gpu, encoder, sseVars>>

StartLoops ==
  /\ main = "loops"
  /\ Go("wait") /\ alive' = alive \cup Loops
  /\ UNCHANGED <<vars, on, told, stuck, late, gpu, encoder, sseVars>>

(* The one-shot modes start the GPU themselves, wait a while for a
   configuration, and do their work or give up.                            *)
OneShotGpu ==
  /\ main = "gpu"
  /\ \/ /\ Go("config") /\ gpu' = TRUE /\ encoder' = TRUE
        /\ UNCHANGED <<vars, on, alive, told, stuck, late, sseVars>>
     \/ EndProcess("exited")

OneShotWork ==
  /\ main = "await" /\ mode = "selftest"
  /\ \/ Go("stop") /\ UNCHANGED <<on, alive>>
     \/ Go("frames") /\ on' = TRUE /\ alive' = alive \cup {"simulation"}
  /\ UNCHANGED <<vars, told, stuck, late, gpu, encoder, sseVars>>

(* A dump steps the simulation itself, so that no other thread is started;
   whether it draws or fails, the config client is all there is to stop.   *)
DumpFrame ==
  /\ main = "await" /\ mode = "dump"
  /\ Go("stop")
  /\ UNCHANGED <<vars, threadVars, sseVars>>

FramesDone ==
  /\ main = "frames"
  /\ Go("stop") /\ on' = FALSE
  /\ UNCHANGED <<vars, alive, told, stuck, late, gpu, encoder, sseVars>>

-----------------------------------------------------------------------------
(* Shutdown.                                                               *)

(* SIGINT or SIGTERM.  One that comes before run has set running_ is lost. *)
Signal ==
  /\ exit = "no" /\ on
  /\ on' = FALSE
  /\ UNCHANGED <<vars, mainVars, alive, told, stuck, late, gpu, encoder, sseVars>>

(* Mutant: the watchdog is armed after the joins.                          *)
NoticeUnguarded ==
  /\ main = "wait" /\ ~on
  /\ main' = "stop"
  /\ UNCHANGED <<vars, mode, step, phase, watchdog, gone, exit, threadVars, sseVars>>

(* The loop that polls running_ ends; the watchdog is armed before a join. *)
Notice ==
  /\ main = "wait" /\ ~on
  /\ main' = "stop" /\ watchdog' = TRUE
  /\ UNCHANGED <<vars, mode, step, phase, gone, exit, threadVars, sseVars>>

Target == IF main = "stop" THEN Stops[step] ELSE Destroys[step]
Phase(p) == main \in {"stop", "destroy"} /\ phase = p
Then(p) == phase' = p /\ UNCHANGED <<mode, main, step, watchdog, gone, exit>>

(* A loop has been told by running_; a stop clears the server's own flag, if
   it was set.  ConfigClient::stop goes on to SseClient::stop.             *)
Halt ==
  /\ Phase("halt") /\ Target \notin {"config"}
  /\ Then("join")
  /\ \/ Target = "house" /\ (StopCalled \/ (~running /\ UNCHANGED vars)) /\ UNCHANGED told
     \/ Target # "house" /\ told' = told \cup ({Target} \cap Servers) /\ UNCHANGED vars
  /\ UNCHANGED <<on, alive, stuck, late, gpu, encoder, sseVars>>

HaltConfig ==
  /\ Phase("halt") /\ Target = "config"
  /\ Then(IF "config" \in told THEN "join" ELSE "exchange")
  /\ told' = told \cup {"config", "sse"}
  /\ UNCHANGED <<vars, on, alive, stuck, late, gpu, encoder, sseVars>>

StopExchange ==
  /\ Phase("exchange")
  /\ socket' = FALSE
  /\ Then(IF socket THEN "close" ELSE "join")
  /\ UNCHANGED <<vars, threadVars, sse, fd>>

StopClose ==
  /\ Phase("close")
  /\ fd' = "closed" /\ Then("join")
  /\ UNCHANGED <<vars, threadVars, sse, socket>>

(* Mutant: a rung is stopped without waiting for its own thread.           *)
JoinableDetached ==
  /\ Target \notin alive \/ Target \in {"stream", "srt"}
  /\ Target = "house" => pc = "stopped"
  /\ Target = "config" => sse \in {"off", "ended"}

Joinable ==
  /\ Target \notin alive
  /\ Target = "house" => pc = "stopped"
  /\ Target = "config" => sse \in {"off", "ended"}

(* The thread is joined, and in ~Engine the member is no more.  A rung is then
   left to its clients' threads for two seconds at most: one that has not
   ended by then goes on without it.                                       *)
Join ==
  /\ Phase("join") /\ Joinable
  /\ phase' = "halt"
  /\ gone' = IF main = "destroy" THEN gone \cup {Target} ELSE gone
  /\ late' = late \cup {c \in Viewers \cap alive : RungOf(c) = Target}
  /\ LET last == step = Len(IF main = "stop" THEN Stops ELSE Destroys)
     IN /\ ~last \/ (main = "stop" /\ mode = "service")
        /\ step' = IF last THEN 1 ELSE step + 1
        /\ main' = IF last THEN "teardown" ELSE main
  /\ UNCHANGED <<vars, mode, watchdog, exit, on, alive, told, stuck, gpu, encoder, sseVars>>

(* The one-shot modes are through once the config client has stopped.      *)
OneShotExits ==
  /\ Phase("join") /\ Joinable /\ main = "stop" /\ mode # "service"
  /\ step = Len(Stops)
  /\ EndProcess("exited")

(* run has returned: ~Engine, in whose stopGpu the driver may wedge.  A GPU
   that was not brought up altogether is not torn down: its encoder stays. *)
Teardown ==
  /\ main = "teardown"
  /\ Go("destroy") \/ (gpu /\ Go("wedged"))
  /\ on' = FALSE /\ encoder' = (encoder /\ ~gpu)
  /\ UNCHANGED <<vars, alive, told, stuck, late, gpu, sseVars>>

Returned ==
  /\ Phase("join") /\ Joinable /\ main = "destroy" /\ step = Len(Destroys)
  /\ EndProcess("returned")

WatchdogFires ==
  /\ watchdog
  /\ EndProcess("watchdog")

MainStep ==
  \/ Boot \/ StartConfig \/ StartHouse
  \/ StartServer("stream", "srt") \/ StartSrt \/ StartServer("control", "loops") \/ StartLoops
  \/ OneShotGpu \/ OneShotWork \/ FramesDone \/ DumpFrame
  \/ Notice \/ Halt \/ HaltConfig \/ StopExchange \/ StopClose \/ Join
  \/ OneShotExits \/ Teardown \/ Returned

-----------------------------------------------------------------------------
(* The other threads.                                                      *)

Ended(t) ==
  /\ alive' = alive \ {t}
  /\ UNCHANGED <<vars, mainVars, told, stuck, gpu, sseVars>>

(* The render thread first starts the GPU, whatever running_ says; failing
   that, or told so, it ends.  A frame that cannot be drawn also ends it,
   and tells nobody.                                                       *)
RenderStarts ==
  /\ "render" \in alive /\ ~gpu
  /\ encoder' = TRUE /\ UNCHANGED late
  /\ \/ gpu' = TRUE /\ UNCHANGED <<vars, mainVars, on, alive, told, stuck, sseVars>>
     \/ Ended("render") /\ on' = FALSE

RenderBreaks ==
  /\ "render" \in alive \ stuck /\ gpu
  /\ Ended("render") /\ UNCHANGED <<on, late, encoder>>

ThreadEnds(t) ==
  /\ t \in alive \ stuck
  /\ IF t \in Loops THEN ~on /\ (t = "render" => gpu) ELSE t \in told
  /\ Ended(t) /\ UNCHANGED <<on, late, encoder>>

(* A rung's thread accepts a client, up to the moment it ends itself, and
   starts a thread for it that nobody joins ...                            *)
ViewerComes(client) ==
  /\ client \notin alive /\ RungOf(client) \in alive
  /\ alive' = alive \cup {client}
  /\ UNCHANGED <<vars, mainVars, on, told, stuck, late, gpu, encoder, sseVars>>

(* ... and that ends when the client leaves, or was told to and notices.   *)
ViewerGoes(client) ==
  /\ client \in alive
  /\ Ended(client) /\ late' = late \ {client}
  /\ UNCHANGED <<on, encoder>>

(* Only its join tells that a thread got stuck, whenever that was.         *)
Sticks(t) ==
  /\ Phase("join") /\ main = "stop" /\ Target = t /\ t \in alive
  /\ stuck' = stuck \cup {t}
  /\ UNCHANGED <<vars, mainVars, on, alive, told, late, gpu, encoder, sseVars>>

(* The driver wedges in the idle release ...                               *)
DriverWedges == gpu /\ Sticks("render")

(* ... or a client of the control server, which reads to the end of the
   request that was announced, sends a byte now and then and never the last. *)
ClientTrickles == Sticks("control")

(* The control thread has read a request and lets the engine answer it.    *)
Serves == "control" \in alive \ stuck

(* POST /house-party, and the dashboard.                                   *)
Post ==
  /\ Serves /\ SetEnabled
  /\ UNCHANGED <<mainVars, threadVars, sseVars>>

-----------------------------------------------------------------------------
(* SseClient::run.                                                         *)

KeepSse(others) == UNCHANGED <<vars, mainVars, threadVars, others>>

(* running_ is read before a connection, and before every recv.            *)
SseTests ==
  /\ sse \in {"top", "test"}
  /\ sse' = IF sse = "top" THEN (IF "sse" \in told THEN "ended" ELSE "connect")
            ELSE (IF "sse" \in told THEN "release" ELSE "recv")
  /\ KeepSse(<<socket, fd>>)

(* A connection is made and its descriptor stored; one that cannot be made is
   tried again after a longer and longer sleep that stop() cannot cut short. *)
SseConnects ==
  /\ sse = "connect"
  /\ \/ sse' = "send" /\ fd' = "open" /\ socket' = TRUE
     \/ sse' = "top" /\ UNCHANGED <<fd, socket>>
  /\ UNCHANGED <<vars, mainVars, threadVars>>

SseSends ==
  /\ sse = "send"
  /\ sse' \in {"test", "drop"}
  /\ KeepSse(<<socket, fd>>)

(* The request could not be sent: -1 is stored and the descriptor closed,
   although stop() may have taken it in between.                           *)
SseDrops ==
  /\ sse = "drop"
  /\ sse' = "close" /\ socket' = FALSE
  /\ KeepSse(fd)

SseCloses ==
  /\ sse \in {"close", "shut"}
  /\ fd' = "closed" /\ sse' = "top"
  /\ KeepSse(socket)

(* recv returns: something came, or the peer is gone ...                   *)
SseReceives ==
  /\ sse = "recv"
  /\ sse' \in {"test", "release"}
  /\ KeepSse(<<socket, fd>>)

(* ... or stop() has shut the socket down.                                 *)
SseShutDown ==
  /\ sse = "recv" /\ fd = "closed"
  /\ sse' = "release"
  /\ KeepSse(<<socket, fd>>)

(* Mutant: the descriptor is closed whoever holds it.                      *)
SseReleasesAnyway ==
  /\ sse = "release"
  /\ socket' = FALSE
  /\ sse' = "shut"
  /\ KeepSse(fd)

(* Whoever exchanges the descriptor out of socket_ closes it.              *)
SseReleases ==
  /\ sse = "release"
  /\ socket' = FALSE
  /\ sse' = IF socket THEN "shut" ELSE "top"
  /\ KeepSse(fd)

SseStep ==
  \/ SseTests \/ SseConnects \/ SseSends \/ SseDrops \/ SseCloses
  \/ SseShutDown \/ SseReleases

-----------------------------------------------------------------------------
HouseStep ==
  /\ Producer
  /\ UNCHANGED <<mainVars, threadVars, sseVars>>

DashboardStep ==
  /\ Forgets \/ Lapse
  /\ UNCHANGED <<mainVars, threadVars, sseVars>>

ThreadStep == RenderStarts \/ (\E t \in Loops \cup Servers : ThreadEnds(t))

RunNext ==
  \/ MainStep \/ WatchdogFires \/ Signal
  \/ ThreadStep \/ RenderBreaks \/ DriverWedges \/ ClientTrickles \/ Post
  \/ (\E client \in Viewers : ViewerComes(client) \/ ViewerGoes(client))
  \/ SseStep \/ SseReceives
  \/ HouseStep \/ DashboardStep

RunSpec == RunInit /\ [][RunNext]_allVars

(* Every thread that is not stuck runs, requests are answered or fail, the
   watchdog's sleep is over some time, and the dashboard's clock goes on.
   (A thread ends only once, so that one condition serves them all.)
   Nobody need signal, post, break or send an event, and a client's thread
   need not end.                                                           *)
RunFairness ==
  /\ WF_allVars(MainStep) /\ WF_allVars(WatchdogFires)
  /\ WF_allVars(ThreadStep)
  /\ WF_allVars(SseStep) /\ WF_allVars(HouseStep)
  /\ WF_allVars(Lapse /\ UNCHANGED <<mainVars, threadVars, sseVars>>)

LiveRunSpec == RunSpec /\ RunFairness

-----------------------------------------------------------------------------
(* The SSE client's descriptor always has somebody to close it, and one only:
   whoever took it out of socket_ finds it open.  (The path of a request that
   could not be sent is left out of this: it closes what stop() may have
   closed already.)                                                        *)
SocketOwned ==
  /\ fd = "open" =>
       socket \/ phase = "close" \/ sse \in {"close", "shut"}
  /\ socket \/ sse = "shut" => fd = "open" /\ phase # "close"

(* The type invariants, one lighting session at a time, and the ownership
   of the SSE client's socket.                                             *)
RunInv == TypeOK /\ RunTypeOK /\ OneSession /\ SocketOwned

(* No thread is left that uses a member of Engine already destroyed, on
   whatever path run returns, but that of a client its rung has waited for in
   vain: stop() says of the wait "before this server can be destroyed"
   (srt_server.cpp:205), and it is bounded.  A run that ends because the
   control server cannot start destroys "status" while the rungs serve, and
   is saved by there being no encoder yet.                                 *)
NobodyOutlives ==
  /\ \A t \in alive \ late : Uses(t) \cap gone = {}
  /\ "config" \in gone => sse \in {"off", "ended"}
  /\ "house" \in gone => pc = "stopped"

(* "this must be attempted even during shutdown": a process that ends on its
   own has closed every lighting session, unless a request was lost; only
   the watchdog leaves one to its lease.                                   *)
LightsGivenBack ==
  exit = "returned" /\ losses = 0 => Open = {}

(* Told to stop, unable to start or a one-shot, the process ends, although a
   client may hold the control thread and the driver may wedge, in the
   render thread or in the teardown of ~Engine ("Shutdown has a watchdog",
   README.md:184; "the process simply never exits", main.cpp:62).          *)
ProcessEnds ==
  (~on /\ main # "boot") ~> exit # "no"

(* Switched on for good, the lights end up following: lost requests and
   lapsed leases are recovered from.                                       *)
EnabledLights == <>[](enabled /\ running) => <>[](active /\ id \in Open)

(* Switched off for good, or with the producer stopped or dead, every
   session is closed in the end and the captured lighting restored.        *)
DisabledRestores == <>[](~enabled \/ stops) => <>[](Open = {})
=============================================================================
