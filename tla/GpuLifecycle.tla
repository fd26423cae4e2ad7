---------------------------- MODULE GpuLifecycle ----------------------------
(***************************************************************************)
(* Who holds the GPU and when: startGpu, stopGpu and the parts of renderLoop *)
(* and watcherLoop that decide between them (src/src/service/engine.cpp),  *)
(* with the viewers they serve and the handshake header they advertise.    *)
(*                                                                         *)
(* Time is in units that are long against a turn of either loop: in each   *)
(* unit both take a turn, in any order.  What is drawn, the idle cadence   *)
(* (Keyframes) and the delivery to each client (StreamServer) are left out. *)
(***************************************************************************)
EXTENDS Naturals, FiniteSets

CONSTANTS
  IdleRelease,   (* idleReleaseSeconds                                      *)
  RetryAfter,    (* the 5.0 between attempts to open the publisher          *)
  PollAfter,     (* the 2.0 between polls of MediaMTX                       *)
  MaxFailures,   (* bound: failed starts, rungs, encodes and polls          *)
  RenderMayFail, (* whether Renderer::render may return an error            *)
  SidecarMayFail (* whether MediaMTX may refuse or drop the publisher       *)

ASSUME ParameterAssumption ==
  /\ {IdleRelease, RetryAfter, PollAfter} \subseteq Nat \ {0}
  /\ MaxFailures \in Nat
  /\ RenderMayFail \in BOOLEAN /\ SidecarMayFail \in BOOLEAN

VARIABLES
  viewer,     (* a client of the TCP or SRT rung: none, waiting, served     *)
  readers,    (* browsers read, or try to read, the path from MediaMTX      *)
  configured, (* the configuration has been read once: revision() # 0       *)
  gpuReady,   (* gpuReady_                                                  *)
  stages,     (* what is initialised, of Stages                             *)
  retained,   (* references held on the CUDA primary context                *)
  encoder,    (* primaryEncoder_ is not null                                *)
  learned,    (* its parameterSets_ are not empty                           *)
  rung,       (* publishEncoder_ is there                                   *)
  connected,  (* publisher_.connected()                                     *)
  header,     (* the encoder whose parameter sets the handshake carries:    *)
              (* none, the current one or an older one                      *)
  advertised, (* renderLoop's advertisedParameterSets                       *)
  watching,   (* browserWatching_                                           *)
  running,    (* running_                                                   *)
  render,     (* renderLoop's place, or how it ended                        *)
  watcher,    (* watcherLoop's place                                        *)
  due,        (* the loops that have yet to take their turn in this unit    *)
  idleFor,    (* since lastActive                                           *)
  attemptAge, (* since lastPublishAttempt                                   *)
  pollAge,    (* since lastReaderPoll                                       *)
  failures,
  watchedFor, (* history: how long browsers have been reading a connected path *)
  handed,     (* the parameter sets in the handshake the client was sent:   *)
              (* those of header, or pending before it is sent              *)
  away        (* history: that handshake was made with the GPU down, or     *)
              (* about to be given back                                     *)

roomVars == <<viewer, readers, configured>>
gpuVars == <<gpuReady, stages, retained, encoder, learned, rung>>
headerVars == <<header, advertised>>
welcomeVars == <<handed, away>>
ageVars == <<idleFor, attemptAge, pollAge, watchedFor>>
vars == <<roomVars, welcomeVars, gpuVars, headerVars, connected, watching, running, render,
          watcher, due, ageVars, failures>>

Stages == {"device", "renderer", "interop", "encoder"}

(* startGpu in order; the output planes and their registration come last.  *)
UpToStage(last) ==
  CASE last = "device" -> {}
    [] last = "renderer" -> {"device"}
    [] last = "interop" -> {"device", "renderer"}
    [] last = "encoder" -> {"device", "renderer", "interop"}
    [] last = "output" -> Stages

TypeOK ==
  /\ viewer \in {"none", "waiting", "served"}
  /\ readers \in BOOLEAN /\ configured \in BOOLEAN
  /\ gpuReady \in BOOLEAN /\ stages \subseteq Stages
  /\ retained \in 0..(MaxFailures + 1)
  /\ encoder \in BOOLEAN /\ learned \in BOOLEAN /\ rung \in BOOLEAN
  /\ header \in {"none", "current", "older"} /\ advertised \in BOOLEAN
  /\ connected \in BOOLEAN /\ watching \in BOOLEAN /\ running \in BOOLEAN
  /\ handed \in {"pending", "none", "current", "older"} /\ away \in BOOLEAN
  /\ render \in {"boot", "top", "start", "release", "stop", "draw", "publish", "exited", "failed"}
  /\ watcher \in {"rest", "polling"}
  /\ due \subseteq {"render", "watcher"}
  /\ idleFor \in 0..(IdleRelease + 1) /\ attemptAge \in 0..(RetryAfter + 1)
  /\ pollAge \in 0..(PollAfter + 1)
  /\ watchedFor \in 0..(IdleRelease + 1)
  /\ failures \in 0..MaxFailures

Init ==
  /\ viewer = "none" /\ readers = FALSE /\ configured = FALSE
  /\ gpuReady = FALSE /\ stages = {} /\ retained = 0
  /\ encoder = FALSE /\ learned = FALSE /\ rung = FALSE
  /\ header = "none" /\ advertised = FALSE
  /\ connected = FALSE /\ watching = FALSE /\ running = TRUE
  /\ render = "boot" /\ watcher = "rest"
  /\ due = {"render", "watcher"}
  /\ idleFor = 0 /\ attemptAge = RetryAfter + 1 /\ pollAge = PollAfter + 1
  /\ watchedFor = 0
  /\ handed = "pending" /\ away = FALSE
  /\ failures = 0

UpTo(n, bound) == IF n < bound THEN n + 1 ELSE bound

Tick ==
  /\ due = {}
  /\ due' = IF render \in {"exited", "failed"} THEN {"watcher"} ELSE {"render", "watcher"}
  /\ idleFor' = UpTo(idleFor, IdleRelease + 1)
  /\ attemptAge' = UpTo(attemptAge, RetryAfter + 1)
  /\ pollAge' = UpTo(pollAge, PollAfter + 1)
  /\ watchedFor' = IF readers /\ connected THEN UpTo(watchedFor, IdleRelease + 1) ELSE 0
  /\ UNCHANGED <<roomVars, welcomeVars, gpuVars, headerVars, connected, watching, running,
                 render, watcher, failures>>

-----------------------------------------------------------------------------
(* The room.                                                               *)

ViewerJoins ==
  /\ viewer = "none"
  /\ viewer' = "waiting"
  /\ UNCHANGED <<readers, configured, welcomeVars, ageVars>>

(* The client's own thread reads the header once it is counted and sends it,
   whatever the render loop is at.                                         *)
ViewerWelcomed ==
  /\ viewer # "none" /\ handed = "pending"
  /\ handed' = header
  /\ away' = (~gpuReady \/ render = "release")
  /\ UNCHANGED <<roomVars, ageVars>>

ViewerLeaves ==
  /\ viewer # "none"
  /\ viewer' = "none" /\ handed' = "pending" /\ away' = FALSE
  /\ UNCHANGED <<readers, configured, ageVars>>

BrowserComesOrGoes ==
  /\ readers' = ~readers
  /\ watchedFor' = 0
  /\ UNCHANGED <<viewer, configured, welcomeVars, idleFor, attemptAge, pollAge>>

ConfigRead ==
  /\ ~configured
  /\ configured' = TRUE
  /\ UNCHANGED <<viewer, readers, welcomeVars, ageVars>>

Room ==
  /\ ViewerJoins \/ ViewerWelcomed \/ ViewerLeaves \/ BrowserComesOrGoes \/ ConfigRead
  /\ UNCHANGED <<gpuVars, headerVars, connected, watching, running, render,
                 watcher, due, failures>>

-----------------------------------------------------------------------------
(* startGpu and stopGpu.                                                   *)

Outdated(h) == IF h = "current" THEN "older" ELSE h

(* Everything comes up; the browser rung may not, which is not an error.
   The header is advertised with the sets of an encoder that has none yet. *)
StartSucceeds ==
  /\ encoder' = TRUE /\ learned' = FALSE
  /\ stages' = Stages /\ retained' = retained + 1
  /\ \/ rung' = TRUE /\ UNCHANGED failures
     \/ rung' = FALSE /\ failures < MaxFailures /\ failures' = failures + 1
  /\ header' = "none"
  /\ gpuReady' = TRUE

(* One stage fails and startGpu returns, leaving the earlier ones as they
   are.  A CUDA context retained again is one more reference; a new encoder
   replaces the one of an earlier attempt.                                 *)
StartFails ==
  /\ failures < MaxFailures /\ failures' = failures + 1
  /\ \E last \in Stages \cup {"output"} :
       LET made == UpToStage(last)
           creates == last \in {"encoder", "output"}
       IN /\ stages' = stages \cup made
          /\ retained' = retained + (IF "interop" \in made THEN 1 ELSE 0)
          /\ encoder' = (encoder \/ creates)
          /\ learned' = (learned /\ ~creates)
  /\ UNCHANGED <<gpuReady, rung, header>>

(* The first start is made before the loop; failing it ends the service.   *)
Boot ==
  /\ render = "boot"
  /\ \/ /\ StartSucceeds
        /\ render' = "top" /\ idleFor' = 0
        /\ UNCHANGED running
     \/ /\ StartFails
        /\ render' = "exited" /\ running' = FALSE
        /\ UNCHANGED idleFor
  /\ due' = due \ {"render"}
  /\ UNCHANGED <<roomVars, welcomeVars, advertised, connected, watching, watcher,
                 attemptAge, pollAge, watchedFor>>

-----------------------------------------------------------------------------
(* RtspPublisher (encode/publisher.cpp).                                   *)

Closes == connected' = FALSE /\ watchedFor' = 0

(* No stage of open leaves anything behind when it fails.  A packet that could
   not be allocated is found by the write that follows in the same turn.   *)
Opens ==
  /\ connected' \in (IF SidecarMayFail THEN BOOLEAN ELSE {TRUE})
  /\ UNCHANGED watchedFor

(* The first packet that cannot be written closes the publisher.           *)
Writes ==
  \/ UNCHANGED <<connected, watchedFor>>
  \/ SidecarMayFail /\ Closes

-----------------------------------------------------------------------------
(* stopGpu: the flag and the publisher, then the encoder, then the rest.  A
   client may have joined, or been sent its header, since the clients were
   counted.  The header stays as it is and describes an encoder that is gone,
   to who was sent it as well.  The turn of the loop is then over.         *)
Release ==
  /\ render = "release"
  /\ gpuReady' = FALSE
  /\ Closes
  /\ rung' = FALSE
  /\ render' = "stop"
  /\ UNCHANGED <<roomVars, welcomeVars, stages, retained, encoder, learned, headerVars,
                 watching, running, watcher, due, idleFor, attemptAge, pollAge, failures>>

StopRest ==
  /\ render = "stop"
  /\ encoder' = FALSE /\ learned' = FALSE
  /\ header' = Outdated(header) /\ handed' = Outdated(handed)
  /\ stages' = {} /\ retained' = retained - 1
  /\ render' = "top" /\ due' = due \ {"render"}
  /\ UNCHANGED <<roomVars, away, gpuReady, rung, advertised, connected, watching, running,
                 watcher, ageVars, failures>>

-----------------------------------------------------------------------------
(* renderLoop.                                                             *)

(* Mutant: the clients of a rung are left out of the count.                *)
OnlyBrowsersCount == watching

Watched == viewer # "none" \/ watching

(* The clients are counted and the watcher's answer is read.  With nobody
   there for longer than the idle release the GPU is to be given back; a
   released GPU that is wanted is started.                                 *)
Count ==
  /\ render = "top" /\ "render" \in due /\ running
  /\ idleFor' = IF Watched THEN 0 ELSE idleFor
  /\ LET release == ~Watched /\ gpuReady /\ idleFor > IdleRelease
     IN render' = CASE release -> "release"
                    [] ~release /\ gpuReady -> "draw"
                    [] ~gpuReady /\ Watched -> "start"
                    [] OTHER -> "top"
  /\ due' = IF render' = "top" THEN due \ {"render"} ELSE due
  /\ UNCHANGED <<roomVars, welcomeVars, gpuVars, headerVars, connected, watching,
                 running, watcher, attemptAge, pollAge, watchedFor, failures>>

(* Mutant: a restart that fails ends the loop, as the first start does.    *)
RestartGivesUp ==
  /\ render = "start"
  /\ \/ StartSucceeds /\ render' = "draw" /\ UNCHANGED due
     \/ StartFails /\ render' = "exited" /\ due' = due \ {"render"}
  /\ UNCHANGED <<roomVars, welcomeVars, advertised, connected, watching, running, watcher, ageVars>>

(* A start that fails is tried again in a later turn.                      *)
Restart ==
  /\ render = "start"
  /\ \/ StartSucceeds /\ render' = "draw" /\ UNCHANGED due
     \/ StartFails /\ render' = "top" /\ due' = due \ {"render"}
  /\ UNCHANGED <<roomVars, welcomeVars, advertised, connected, watching, running, watcher, ageVars>>

(* Nothing is drawn before a configuration has been read.                  *)
NothingToDraw ==
  /\ ~configured
  /\ render' = "top" /\ due' = due \ {"render"}
  /\ UNCHANGED <<viewer, learned, headerVars, failures>>

(* A failing render ends the loop, and only the loop.                      *)
RenderFails ==
  /\ configured /\ RenderMayFail
  /\ render' = "failed" /\ due' = due \ {"render"}
  /\ UNCHANGED <<viewer, learned, headerVars, failures>>

EncodeFails ==
  /\ configured /\ failures < MaxFailures
  /\ failures' = failures + 1
  /\ render' = "publish"
  /\ UNCHANGED <<viewer, learned, headerVars, due>>

(* The first packet has the encoder learn its sets, and the first one of all
   has them advertised.                                                    *)
Encodes ==
  /\ configured
  /\ learned' = TRUE
  /\ advertised' = TRUE
  /\ header' = IF advertised THEN header ELSE "current"
  /\ viewer' = IF viewer = "waiting" THEN "served" ELSE viewer
  /\ render' = "publish"
  /\ UNCHANGED <<failures, due>>

Draw ==
  /\ render = "draw"
  /\ NothingToDraw \/ RenderFails \/ EncodeFails \/ Encodes
  /\ UNCHANGED <<readers, configured, welcomeVars, gpuReady, stages, retained, encoder, rung,
                 connected, watching, running, watcher, ageVars>>

(* The browser rung: the publisher is opened lazily, and closed when a
   write fails.                                                            *)
Publish ==
  /\ render = "publish"
  /\ LET mayOpen == rung /\ ~connected /\ attemptAge > RetryAfter
         mayWrite == rung /\ connected
     IN \/ mayOpen /\ Opens /\ attemptAge' = 0
        \/ mayWrite /\ Writes /\ UNCHANGED attemptAge
        \/ ~mayOpen /\ ~mayWrite /\ UNCHANGED <<connected, attemptAge, watchedFor>>
  /\ render' = "top" /\ due' = due \ {"render"}
  /\ UNCHANGED <<roomVars, welcomeVars, gpuVars, headerVars, watching, running, watcher,
                 idleFor, pollAge, failures>>

RequestStop ==
  /\ running
  /\ running' = FALSE
  /\ UNCHANGED <<roomVars, welcomeVars, gpuVars, headerVars, connected, watching, render,
                 watcher, due, ageVars, failures>>

LoopEnds ==
  /\ render = "top" /\ ~running
  /\ render' = "exited" /\ due' = due \ {"render"}
  /\ UNCHANGED <<roomVars, welcomeVars, gpuVars, headerVars, connected, watching, running,
                 watcher, ageVars, failures>>

RenderStep == Boot \/ Count \/ Release \/ StopRest \/ Restart \/ Draw \/ Publish \/ LoopEnds

-----------------------------------------------------------------------------
(* watcherLoop.                                                            *)

(* Without a publish there is no demand; otherwise MediaMTX is asked, every
   so often, how many readers it has.                                      *)
WatcherTurns ==
  /\ "watcher" \in due /\ watcher = "rest"
  /\ LET poll == connected /\ pollAge > PollAfter
     IN /\ watcher' = IF poll THEN "polling" ELSE "rest"
        /\ due' = IF poll THEN due ELSE due \ {"watcher"}
        /\ pollAge' = IF poll THEN 0 ELSE pollAge
  /\ watching' = (watching /\ connected)
  /\ UNCHANGED <<roomVars, welcomeVars, gpuVars, headerVars, connected, running, render,
                 idleFor, attemptAge, watchedFor, failures>>

(* Mutants: an established publish is taken for demand; readers are not
   counted.                                                                *)
AnswerIsPublish ==
  /\ watcher = "polling"
  /\ watcher' = "rest" /\ due' = due \ {"watcher"}
  /\ watching' = TRUE
  /\ UNCHANGED <<roomVars, welcomeVars, gpuVars, headerVars, connected, running, render,
                 ageVars, failures>>

AnswerIsNobody ==
  /\ watcher = "polling"
  /\ watcher' = "rest" /\ due' = due \ {"watcher"}
  /\ watching' = FALSE
  /\ UNCHANGED <<roomVars, welcomeVars, gpuVars, headerVars, connected, running, render,
                 ageVars, failures>>

(* The answer, or none: a poll that fails counts nobody.                   *)
WatcherAnswered ==
  /\ watcher = "polling"
  /\ watcher' = "rest" /\ due' = due \ {"watcher"}
  /\ \/ watching' = readers /\ UNCHANGED failures
     \/ watching' = FALSE /\ failures < MaxFailures /\ failures' = failures + 1
  /\ UNCHANGED <<roomVars, welcomeVars, gpuVars, headerVars, connected, running, render,
                 ageVars>>

WatcherStep == WatcherTurns \/ WatcherAnswered

Next ==
  \/ RequestStop \/ Tick \/ Room
  \/ RenderStep \/ WatcherStep

Spec == Init /\ [][Next]_vars

(* The two loops run and time passes; the room does as it likes.           *)
Fairness == WF_vars(Tick) /\ WF_vars(RenderStep) /\ WF_vars(WatcherStep)

LiveSpec == Spec /\ Fairness

-----------------------------------------------------------------------------

(* A client whose handshake was made while the GPU was up, and not about to be
   given back, keeps the encoder it was told of for as long as it stays: the
   GPU is not taken from it, and the sets it was handed never become those of
   an encoder other than the one whose frames it receives.  One that comes
   while the GPU is down is handed what is left of the encoder before.     *)
WelcomeKept ==
  handed # "pending" /\ ~away => gpuReady /\ handed # "older"

(* The type invariant, and handshakes that stay true.                      *)
GpuInv == TypeOK /\ WelcomeKept

(* A browser that has been reading for longer than it takes the watcher to
   find out, every failing poll costing one more, is not cut off by the idle
   release, however often the publisher was reopened before.               *)
BrowserNotCutOff ==
  [][gpuReady /\ ~gpuReady' => watchedFor <= (failures + 1) * (PollAfter + 1)]_vars

Empty == viewer = "none" /\ ~readers
Released == stages = {} /\ retained = 0 /\ ~encoder

(* "GL and encoder resources are released when no client is connected": once
   the room stays empty the loop gives everything back, although the publish
   it keeps to MediaMTX is established.  Where a start or a poll has failed
   this says less: the GPU is no longer ready and the publish is closed, but
   what a failed start left behind may stay.                               *)
RoomEndsRelease ==
  <>[]Empty =>
    <>[](render \in {"exited", "failed"} \/ (~gpuReady /\ ~connected /\ (Released \/ failures > 0)))

(* A client that waits for a picture gets one while the loop lives, whatever
   state of release or of failing restart it found the GPU in.             *)
ViewerServed ==
  (viewer = "waiting" /\ configured) ~> (viewer # "waiting" \/ ~running \/ render = "failed")
=============================================================================
