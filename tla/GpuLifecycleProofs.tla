------------------------- MODULE GpuLifecycleProofs -------------------------
(***************************************************************************)
(* The GPU's lifecycle, for any idle release, retry and poll period and    *)
(* any number of failures: a client welcomed while the GPU is up keeps the  *)
(* encoder it was told of, and a reading browser is not cut off.           *)
(*                                                                         *)
(* The first needs that whoever was welcomed is counted (Welcomed): the     *)
(* decision to release is then not made, and one made before the client     *)
(* came is not yet carried out only in the place "release".                *)
(*                                                                         *)
(* The second is about two clocks.  The watcher finds a reading browser out *)
(* within a poll period, unless a poll fails (Unseen): a unit in which it   *)
(* should have polled and did not is one the publish was not up in          *)
(* (Polled).  Once it has, the render loop's next turn starts the idle      *)
(* release anew (Seen), for it takes one turn in every unit (Turns).  What   *)
(* the count found holds until the release is carried out (Leaving).       *)
(***************************************************************************)
EXTENDS GpuLifecycle, TLAPS

(* References on the CUDA context: one for a GPU that is up, and at most one
   for every start that failed.                                            *)
Up == gpuReady \/ render = "stop"

Retained ==
  /\ render \in {"boot", "start", "stop"} => ~gpuReady
  /\ render = "release" => gpuReady
  /\ Up => retained >= 1
  /\ retained <= failures + (IF Up THEN 1 ELSE 0)

Working == running /\ render \notin {"exited", "failed"}

Counted == "render" \notin due \/ render # "top"

Turns ==
  /\ Working /\ "render" \notin due => render = "top"
  /\ watcher = "polling" => "watcher" \in due /\ pollAge = 0

(* A browser that reads is read for.                                       *)
Reading == watchedFor > 0 => readers /\ connected

Polled == "watcher" \notin due /\ pollAge > PollAfter => watchedFor = 0

(* The poll periods that a browser may go unnoticed.                       *)
Period == PollAfter + 1
Lost == failures * Period
Grace == Lost + (IF watcher = "polling" THEN Period ELSE pollAge)

Unseen == Working /\ ~watching => watchedFor <= Grace \/ idleFor <= Grace

Seen ==
  Working /\ watching =>
    \/ idleFor = 0
    \/ idleFor <= 1 /\ ~Counted
    \/ watcher = "rest" /\ pollAge = 0
    \/ watcher = "rest" /\ pollAge = 1 /\ ~Counted

(* The release that was decided.                                           *)
Leaving ==
  render = "release" =>
    /\ "render" \in due
    /\ watchedFor <= Lost + Period

(* Who is welcomed is in the count, and the header of a GPU that is up is not
   that of an encoder before.                                              *)
Welcomed ==
  /\ handed # "pending" => viewer # "none"
  /\ handed # "pending" /\ ~away => gpuReady /\ render # "release" /\ handed # "older"
  /\ gpuReady => header # "older"

IInv ==
  /\ TypeOK /\ Welcomed
  /\ Retained /\ Turns /\ Reading /\ Polled /\ Unseen /\ Seen /\ Leaving

(* TypeOK, by kind.                                                        *)
Flags ==
  /\ readers \in BOOLEAN /\ configured \in BOOLEAN /\ gpuReady \in BOOLEAN
  /\ encoder \in BOOLEAN /\ learned \in BOOLEAN /\ rung \in BOOLEAN
  /\ advertised \in BOOLEAN /\ connected \in BOOLEAN /\ watching \in BOOLEAN
  /\ running \in BOOLEAN /\ away \in BOOLEAN

Places ==
  /\ viewer \in {"none", "waiting", "served"}
  /\ stages \subseteq Stages
  /\ header \in {"none", "current", "older"}
  /\ handed \in {"pending", "none", "current", "older"}
  /\ render \in {"boot", "top", "start", "release", "stop", "draw", "publish", "exited", "failed"}
  /\ watcher \in {"rest", "polling"}
  /\ due \subseteq {"render", "watcher"}

Ages ==
  /\ idleFor \in 0..(IdleRelease + 1) /\ attemptAge \in 0..(RetryAfter + 1)
  /\ pollAge \in 0..(PollAfter + 1) /\ watchedFor \in 0..(IdleRelease + 1)

Numbers == retained \in Nat /\ failures \in 0..MaxFailures

USE ParameterAssumption DEF roomVars, welcomeVars, gpuVars, headerVars, ageVars

LEMMA Kinds ==
  /\ TypeOK => Flags /\ Places /\ Ages /\ Numbers
  /\ Flags /\ Places /\ Ages /\ Numbers /\ Retained => TypeOK
BY DEF TypeOK, Flags, Places, Ages, Numbers, Retained, Up

(* The start.                                                              *)
LEMMA InitInv == Init => IInv
<1> SUFFICES ASSUME Init PROVE IInv
  OBVIOUS
<1>1. TypeOK
  <2>1. Flags
    BY DEF Init, Flags
  <2>2. Places
    BY DEF Init, Places
  <2>3. Ages /\ Numbers
    BY DEF Init, Ages, Numbers
  <2>4. QED
    BY <2>1, <2>2, <2>3, Kinds DEF Init, Retained, Up
<1>2. Welcomed /\ Retained /\ Turns /\ Reading /\ Polled /\ Leaving
  BY DEF Init, Welcomed, Retained, Up, Turns, Reading, Polled, Leaving
<1>3. Unseen /\ Seen
  BY DEF Init, Unseen, Seen, Grace, Lost, Period
<1>4. QED
  BY <1>1, <1>2, <1>3 DEF IInv

(* What a turn of the browser rung does to the publisher.                  *)
LEMMA PublishMoves ==
  ASSUME Publish
  PROVE  /\ attemptAge' \in {0, attemptAge}
         /\ \/ watchedFor' = 0
            \/ watchedFor' = watchedFor /\ (connected' = connected \/ ~connected)
BY Zenon DEF Publish, Opens, Writes, Closes

(* Each kind survives every step.                                          *)
LEMMA FlagsKept == Flags /\ [Next]_vars => Flags'
<1> SUFFICES ASSUME Flags, [Next]_vars PROVE Flags'
  OBVIOUS
<1> USE DEF Flags
<1>1. Boot => Flags'
  BY DEF Boot, StartSucceeds, StartFails
<1>2. Count => Flags'
  BY DEF Count, Watched
<1>3. Restart => Flags'
  BY DEF Restart, StartSucceeds, StartFails
<1>4. Draw => Flags'
  BY DEF Draw, NothingToDraw, RenderFails, EncodeFails, Encodes
<1>5. Publish => Flags'
  BY DEF Publish, Opens, Writes, Closes
<1>6. RequestStop \/ Tick \/ Room \/ StopRest \/ LoopEnds \/ WatcherTurns \/ WatcherAnswered \/
   UNCHANGED vars => Flags'
  BY DEF RequestStop, Tick, UpTo, Room, ViewerJoins, ViewerWelcomed, ViewerLeaves,
     BrowserComesOrGoes, ConfigRead, StopRest, Outdated, LoopEnds, WatcherTurns,
     WatcherAnswered, vars
<1>7. Release => Flags'
  BY DEF Release, Closes
<1>8. QED
  BY <1>1, <1>2, <1>3, <1>4, <1>5, <1>6, <1>7 DEF Next, RenderStep, WatcherStep

LEMMA PlacesKept == Places /\ [Next]_vars => Places'
<1> SUFFICES ASSUME Places, [Next]_vars PROVE Places'
  OBVIOUS
<1> USE DEF Places
<1>1. Boot => Places'
  BY DEF Boot, StartSucceeds, StartFails, Stages, UpToStage
<1>2. StopRest => Places'
  BY DEF StopRest, Outdated
<1>3. Restart => Places'
  BY DEF Restart, StartSucceeds, StartFails, Stages, UpToStage
<1>4. Draw => Places'
  BY DEF Draw, NothingToDraw, RenderFails, EncodeFails, Encodes
<1>5. RequestStop \/ Tick \/ Room \/ Count \/ Publish \/ LoopEnds \/ WatcherTurns \/
   WatcherAnswered \/ UNCHANGED vars => Places'
  BY DEF RequestStop, Tick, UpTo, Room, ViewerJoins, ViewerWelcomed, ViewerLeaves,
     BrowserComesOrGoes, ConfigRead, Count, Watched, Publish, Opens, Writes, LoopEnds,
     WatcherTurns, WatcherAnswered, vars
<1>6. Release => Places'
  BY DEF Release, Closes
<1>7. QED
  BY <1>1, <1>2, <1>3, <1>4, <1>5, <1>6 DEF Next, RenderStep, WatcherStep

LEMMA AgesKept == Ages /\ [Next]_vars => Ages'
<1> SUFFICES ASSUME Ages, [Next]_vars PROVE Ages'
  OBVIOUS
<1> USE DEF Ages
<1>1. Tick => Ages'
  BY DEF Tick, UpTo
<1>2. Count => Ages'
  BY DEF Count, Watched
<1>3. Publish => Ages'
  BY PublishMoves DEF Publish
<1>4. RequestStop \/ Room \/ Boot \/ StopRest \/ Restart \/ Draw \/ LoopEnds \/ WatcherTurns \/
   WatcherAnswered \/ UNCHANGED vars => Ages'
  BY DEF RequestStop, Room, ViewerJoins, ViewerWelcomed, ViewerLeaves, BrowserComesOrGoes,
     ConfigRead, Boot, StartSucceeds, StartFails, StopRest, Outdated, Restart, Draw,
     NothingToDraw, RenderFails, EncodeFails, Encodes, LoopEnds, WatcherTurns,
     WatcherAnswered, vars
<1>5. Release => Ages'
  BY DEF Release, Closes
<1>6. QED
  BY <1>1, <1>2, <1>3, <1>4, <1>5 DEF Next, RenderStep, WatcherStep

(* Every start adds at most one reference, and every release gives one back. *)
LEMMA RetainedKept == Numbers /\ Retained /\ [Next]_vars => (Numbers /\ Retained)'
<1> SUFFICES ASSUME Numbers /\ Retained, [Next]_vars PROVE (Numbers /\ Retained)'
  OBVIOUS
<1> USE DEF Numbers, Retained, Up
<1>1. Room => (Numbers /\ Retained)'
  BY DEF Room, ViewerJoins, ViewerWelcomed, ViewerLeaves, BrowserComesOrGoes, ConfigRead
<1>2. Boot => (Numbers /\ Retained)'
  BY DEF Boot, StartSucceeds, StartFails
<1>3. Count => (Numbers /\ Retained)'
  BY DEF Count, Watched
<1>4. StopRest => (Numbers /\ Retained)'
  BY DEF StopRest, Outdated
<1>5. Restart => (Numbers /\ Retained)'
  BY DEF Restart, StartSucceeds, StartFails
<1>6. Draw => (Numbers /\ Retained)'
  BY DEF Draw, NothingToDraw, RenderFails, EncodeFails, Encodes
<1>7. Publish => (Numbers /\ Retained)'
  BY DEF Publish, Opens, Writes, Closes
<1>8. RequestStop \/ Tick \/ LoopEnds \/ WatcherTurns \/ WatcherAnswered \/ UNCHANGED vars =>
   (Numbers /\ Retained)'
  BY DEF RequestStop, Tick, UpTo, LoopEnds, WatcherTurns, WatcherAnswered, vars
<1>9. Release => (Numbers /\ Retained)'
  BY DEF Release, Closes
<1>10. QED
  BY <1>1, <1>2, <1>3, <1>4, <1>5, <1>6, <1>7, <1>8, <1>9 DEF Next, RenderStep, WatcherStep

(* A header outlives its encoder only while the GPU is not ready, and the GPU
   is not given back while somebody who was welcomed is there.             *)
LEMMA WelcomedKept == Retained /\ Welcomed /\ [Next]_vars => Welcomed'
<1> SUFFICES ASSUME Retained /\ Welcomed, [Next]_vars PROVE Welcomed'
  OBVIOUS
<1> USE DEF Retained, Welcomed, Up
<1>1. Boot => Welcomed'
  BY DEF Boot, StartSucceeds, StartFails
<1>2. StopRest => Welcomed'
  BY DEF StopRest, Outdated
<1>3. Restart => Welcomed'
  BY DEF Restart, StartSucceeds, StartFails
<1>4. Draw => Welcomed'
  BY DEF Draw, NothingToDraw, RenderFails, EncodeFails, Encodes
<1>5. RequestStop \/ Tick \/ Publish \/ LoopEnds \/ WatcherTurns \/ WatcherAnswered \/
   UNCHANGED vars => Welcomed'
  BY DEF RequestStop, Tick, Publish, LoopEnds, WatcherTurns, WatcherAnswered, vars
<1>7. Room => Welcomed'
  <2> SUFFICES ASSUME Room PROVE Welcomed'
    OBVIOUS
  <2>1. UNCHANGED <<gpuReady, render, header>>
    BY DEF Room
  <2>2. CASE ViewerWelcomed
    <3>1. UNCHANGED viewer /\ viewer # "none" /\ handed' = header
      BY <2>2 DEF ViewerWelcomed
    <3>2. ~away' => gpuReady /\ render # "release"
      BY <2>2, Zenon DEF ViewerWelcomed
    <3>3. QED
      BY <2>1, <3>1, <3>2
  <2>3. CASE ViewerJoins \/ ViewerLeaves \/ BrowserComesOrGoes \/ ConfigRead
    BY <2>1, <2>3 DEF ViewerJoins, ViewerLeaves, BrowserComesOrGoes, ConfigRead
  <2>4. QED
    BY <2>2, <2>3 DEF Room
<1>8. Count => Welcomed'
  <2> SUFFICES ASSUME Count PROVE Welcomed'
    OBVIOUS
  <2>1. UNCHANGED <<viewer, gpuReady, header, handed, away>>
    BY DEF Count
  <2>2. render' = "release" => viewer = "none"
    BY DEF Count, Watched
  <2>3. QED
    BY <2>1, <2>2
<1>6. Release => Welcomed'
  BY DEF Release, Closes
<1>9. QED
  BY <1>1, <1>2, <1>3, <1>4, <1>5, <1>6, <1>7, <1>8 DEF Next, RenderStep, WatcherStep

(* A unit's turn of the render loop ends at its top, and one of the watcher's
   with an answer.                                                         *)
LEMMA TurnsKept == Places /\ Turns /\ [Next]_vars => Turns'
<1> SUFFICES ASSUME Places /\ Turns, [Next]_vars PROVE Turns'
  OBVIOUS
<1> USE DEF Places, Turns, Working
<1>1. Tick => Turns'
  BY DEF Tick, UpTo
<1>2. Room => Turns'
  BY DEF Room, ViewerJoins, ViewerWelcomed, ViewerLeaves, BrowserComesOrGoes, ConfigRead
<1>3. Boot => Turns'
  BY DEF Boot, StartSucceeds, StartFails
<1>4. Count => Turns'
  BY DEF Count, Watched
<1>5. Restart => Turns'
  BY DEF Restart, StartSucceeds, StartFails
<1>6. Draw => Turns'
  BY DEF Draw, NothingToDraw, RenderFails, EncodeFails, Encodes
<1>7. Publish => Turns'
  BY DEF Publish, Opens, Writes, Closes
<1>8. WatcherTurns => Turns'
  BY DEF WatcherTurns
<1>9. RequestStop \/ StopRest \/ LoopEnds \/ WatcherAnswered \/ UNCHANGED vars => Turns'
  BY DEF RequestStop, StopRest, Outdated, LoopEnds, WatcherAnswered, vars
<1>10. Release => Turns'
  BY DEF Release, Closes
<1>11. QED
  BY <1>1, <1>2, <1>3, <1>4, <1>5, <1>6, <1>7, <1>8, <1>9, <1>10 DEF Next, RenderStep,
     WatcherStep

(* Closing and coming and going start the time anew.                       *)
LEMMA ReadingKept == Flags /\ Ages /\ Reading /\ [Next]_vars => Reading'
<1> SUFFICES ASSUME Flags /\ Ages /\ Reading, [Next]_vars PROVE Reading'
  OBVIOUS
<1> USE DEF Flags, Ages, Reading
<1>1. Tick => Reading'
  BY DEF Tick, UpTo
<1>2. Room => Reading'
  BY DEF Room, ViewerJoins, ViewerWelcomed, ViewerLeaves, BrowserComesOrGoes, ConfigRead
<1>3. Count => Reading'
  BY DEF Count, Watched
<1>4. Publish => Reading'
  BY PublishMoves DEF Publish
<1>5. RequestStop \/ Boot \/ StopRest \/ Restart \/ Draw \/ LoopEnds \/ WatcherTurns \/
   WatcherAnswered \/ UNCHANGED vars => Reading'
  BY DEF RequestStop, Boot, StartSucceeds, StartFails, StopRest, Outdated, Restart, Draw,
     NothingToDraw, RenderFails, EncodeFails, Encodes, LoopEnds, WatcherTurns,
     WatcherAnswered, vars
<1>6. Release => Reading'
  BY DEF Release, Closes
<1>7. QED
  BY <1>1, <1>2, <1>3, <1>4, <1>5, <1>6 DEF Next, RenderStep, WatcherStep

(* The watcher's turn passes without a poll only while nothing is published. *)
LEMMA PolledKept == Flags /\ Ages /\ Reading /\ Turns /\ Polled /\ [Next]_vars => Polled'
<1> SUFFICES ASSUME Flags /\ Ages /\ Reading /\ Turns /\ Polled, [Next]_vars PROVE Polled'
  OBVIOUS
<1> USE DEF Flags, Ages, Reading, Turns, Polled
<1>1. Tick => Polled'
  BY DEF Tick, UpTo
<1>2. Room => Polled'
  BY DEF Room, ViewerJoins, ViewerWelcomed, ViewerLeaves, BrowserComesOrGoes, ConfigRead
<1>3. Count => Polled'
  BY DEF Count, Watched
<1>4. Publish => Polled'
  BY DEF Publish, Opens, Writes, Closes
<1>5. WatcherTurns => Polled'
  BY DEF WatcherTurns
<1>6. RequestStop \/ Boot \/ StopRest \/ Restart \/ Draw \/ LoopEnds \/ WatcherAnswered \/
   UNCHANGED vars => Polled'
  BY DEF RequestStop, Boot, StartSucceeds, StartFails, StopRest, Outdated, Restart, Draw,
     NothingToDraw, RenderFails, EncodeFails, Encodes, LoopEnds, WatcherAnswered, vars
<1>7. Release => Polled'
  BY DEF Release, Closes
<1>8. QED
  BY <1>1, <1>2, <1>3, <1>4, <1>5, <1>6, <1>7 DEF Next, RenderStep, WatcherStep

(* A browser that is seen is counted by the next turn of the render loop.  *)
LEMMA SeenKept == Places /\ Ages /\ Turns /\ Seen /\ [Next]_vars => Seen'
<1> SUFFICES ASSUME Places /\ Ages /\ Turns /\ Seen, [Next]_vars PROVE Seen'
  OBVIOUS
<1> USE DEF Places, Ages, Turns, Seen, Working, Counted
<1>1. Tick => Seen'
  BY DEF Tick, UpTo
<1>2. Count => Seen'
  BY DEF Count, Watched
<1>3. WatcherTurns => Seen'
  <2>1. WatcherTurns /\ watching' => watching
    BY Zenon DEF WatcherTurns
  <2>2. WatcherTurns => ("render" \in due <=> "render" \in due')
    BY DEF WatcherTurns
  <2>3. WatcherTurns /\ ~(connected /\ pollAge > PollAfter) => UNCHANGED <<watcher, pollAge>>
    BY Zenon DEF WatcherTurns
  <2>4. WatcherTurns => UNCHANGED <<running, render, idleFor>>
    BY Zenon DEF WatcherTurns
  <2>5. ASSUME WatcherTurns, Working, watching', connected, pollAge > PollAfter PROVE Seen'
    BY <2>1, <2>2, <2>4, <2>5
  <2>6. ASSUME WatcherTurns, ~(connected /\ pollAge > PollAfter) PROVE Seen'
    BY <2>1, <2>2, <2>3, <2>4, <2>6
  <2>7. QED
    BY <2>4, <2>5, <2>6
<1>4. WatcherAnswered => Seen'
  BY DEF WatcherAnswered
<1>5. RequestStop \/ Room \/ Boot \/ StopRest \/ Restart \/ Draw \/ Publish \/ LoopEnds \/
   UNCHANGED vars => Seen'
  BY DEF RequestStop, Room, ViewerJoins, ViewerWelcomed, ViewerLeaves, BrowserComesOrGoes,
     ConfigRead, Boot, StartSucceeds, StartFails, StopRest, Outdated, Restart, Draw,
     NothingToDraw, RenderFails, EncodeFails, Encodes, Publish, Opens, Writes, Closes,
     LoopEnds, vars
<1>6. Release => Seen'
  BY DEF Release, Closes
<1>7. QED
  BY <1>1, <1>2, <1>3, <1>4, <1>5, <1>6 DEF Next, RenderStep, WatcherStep

(* What failures cost.                                                     *)
LEMMA Costs ==
  ASSUME Numbers, NEW f \in {failures, failures + 1}, f \in 0..MaxFailures
  PROVE  /\ Period \in Nat /\ Period >= 2
         /\ Lost \in Nat /\ f * Period \in Nat
         /\ f * Period = (IF f = failures THEN Lost ELSE Lost + Period)
<1>1. \A n, k \in Nat : n * k \in Nat /\ (n + 1) * k = n * k + k
  OBVIOUS
<1>2. Period \in Nat /\ Period >= 2 /\ failures \in Nat /\ f \in Nat
  BY DEF Period, Numbers
<1>3. Lost = failures * Period
  BY DEF Lost
<1> HIDE DEF Period
<1>4. Lost \in Nat /\ f * Period \in Nat /\ (failures + 1) * Period = Lost + Period
  BY <1>1, <1>2, <1>3
<1>5. QED
  BY <1>2, <1>3, <1>4

LEMMA FailuresGrow == Numbers /\ [Next]_vars => failures' \in {failures, failures + 1}
<1> SUFFICES ASSUME Numbers, [Next]_vars PROVE failures' \in {failures, failures + 1}
  OBVIOUS
<1> USE DEF Numbers
<1>1. Boot => failures' \in {failures, failures + 1}
  BY DEF Boot, StartSucceeds, StartFails
<1>2. Restart => failures' \in {failures, failures + 1}
  BY DEF Restart, StartSucceeds, StartFails
<1>3. Draw => failures' \in {failures, failures + 1}
  BY DEF Draw, NothingToDraw, RenderFails, EncodeFails, Encodes
<1>4. WatcherAnswered => failures' \in {failures, failures + 1}
  BY DEF WatcherAnswered
<1>5. RequestStop \/ Tick \/ Room \/ Count \/ StopRest \/ Publish \/ LoopEnds \/ WatcherTurns \/
   UNCHANGED vars => failures' \in {failures, failures + 1}
  BY DEF RequestStop, Tick, UpTo, Room, ViewerJoins, ViewerWelcomed, ViewerLeaves,
     BrowserComesOrGoes, ConfigRead, Count, Watched, StopRest, Outdated, Publish, Opens,
     Writes, LoopEnds, WatcherTurns, vars
<1>6. Release => failures' \in {failures, failures + 1}
  BY DEF Release, Closes
<1>7. QED
  BY <1>1, <1>2, <1>3, <1>4, <1>5, <1>6 DEF Next, RenderStep, WatcherStep

LEMMA LostGrows ==
  ASSUME Numbers, Retained, [Next]_vars
  PROVE  /\ Period = PollAfter + 1 /\ Period \in Nat /\ Period >= 2
         /\ Lost \in Nat /\ Lost' \in Nat /\ Lost' >= Lost
         /\ failures' = failures => Lost' = Lost
         /\ failures' = failures + 1 => Lost' = Lost + Period
<1>1. (Numbers /\ Retained)' /\ failures' \in {failures, failures + 1}
  BY RetainedKept, FailuresGrow
<1>2. Lost' = failures' * Period
  BY DEF Lost, Period
<1>3. failures' \in 0..MaxFailures
  BY <1>1 DEF Numbers
<1>4. QED
  BY <1>1, <1>2, <1>3, Costs DEF Period, Numbers

(* What the count found is still so when the GPU is taken: no unit ends in
   between, and a browser that is found after all has not read for longer. *)
LEMMA LeavingKept == IInv /\ [Next]_vars => Leaving'
<1> SUFFICES ASSUME IInv, [Next]_vars, (render = "release")'
             PROVE  ("render" \in due)' /\ watchedFor' <= Lost' + Period
  BY DEF Leaving, Period
<1>0. Flags /\ Places /\ Ages /\ Numbers /\ Retained /\ Unseen /\ Leaving
  BY Kinds DEF IInv
<1>1. /\ Period = PollAfter + 1 /\ Period \in Nat
      /\ Lost \in Nat /\ Lost' \in Nat /\ Lost' >= Lost
  BY <1>0, LostGrows
<1>2. CASE render = "release"
  <2>1. "render" \in due /\ watchedFor <= Lost + Period
    BY <1>0, <1>2 DEF Leaving
  <2>2. ~(Boot \/ Count \/ Release \/ StopRest \/ Restart \/ Draw \/ Publish \/ LoopEnds \/ Tick)
    BY <1>2, <2>1 DEF Boot, Count, Release, StopRest, Restart, Draw, Publish, LoopEnds, Tick
  <2>3. ("render" \in due)' /\ watchedFor' \in {0, watchedFor}
    <3>1. CASE RequestStop \/ WatcherTurns \/ WatcherAnswered \/ UNCHANGED vars
      BY <2>1, <3>1 DEF RequestStop, WatcherTurns, WatcherAnswered, vars
    <3>2. CASE Room
      BY <2>1, <3>2 DEF Room, ViewerJoins, ViewerWelcomed, ViewerLeaves,
         BrowserComesOrGoes, ConfigRead
    <3>3. QED
      BY <2>2, <3>1, <3>2 DEF Next, RenderStep, WatcherStep
  <2>4. QED
    BY <1>0, <1>1, <2>1, <2>3 DEF Ages
<1>3. CASE render # "release"
  <2>1. Count
    <3>1. ~(RequestStop \/ Tick \/ Room \/ WatcherTurns \/ WatcherAnswered \/ UNCHANGED vars)
      BY <1>3 DEF RequestStop, Tick, Room, WatcherTurns, WatcherAnswered, vars
    <3>2. ~(Boot \/ Release \/ StopRest \/ Restart \/ Draw \/ Publish \/ LoopEnds)
      BY DEF Boot, Release, StopRest, Restart, Draw, NothingToDraw, RenderFails,
         EncodeFails, Encodes, Publish, LoopEnds
    <3>3. QED
      BY <3>1, <3>2 DEF Next, RenderStep, WatcherStep
  <2>2. ~Watched /\ gpuReady /\ idleFor > IdleRelease
    BY <2>1 DEF Count
  <2>3. /\ "render" \in due' /\ watchedFor' = watchedFor
        /\ running /\ render = "top"
    BY <2>1 DEF Count
  <2>4. Working /\ ~watching
    BY <2>2, <2>3 DEF Watched, Working
  <2>5. watchedFor <= Grace
    BY <1>0, <1>1, <2>2, <2>4 DEF Unseen, Ages, Grace
  <2>6. Grace <= Lost + Period
    BY <1>0, <1>1 DEF Grace, Ages
  <2>7. QED
    BY <1>0, <1>1, <2>2, <2>3, <2>5, <2>6 DEF Ages, Grace
<1>4. QED
  BY <1>2, <1>3

(* A reading browser is seen within a poll period, and one more for every
   failure, or else the render loop has not been idle for longer.          *)
LEMMA UnseenKept == IInv /\ [Next]_vars => Unseen'
<1> SUFFICES ASSUME IInv, [Next]_vars PROVE Unseen'
  OBVIOUS
<1>0. Flags /\ Places /\ Ages /\ Numbers /\ Turns /\ Reading /\ Polled /\ Unseen /\ Seen
  BY Kinds DEF IInv
<1>1. /\ Period = PollAfter + 1 /\ Period \in Nat /\ Period >= 2
      /\ Lost \in Nat /\ Lost' \in Nat /\ Lost' >= Lost
      /\ failures' = failures => Lost' = Lost
      /\ failures' = failures + 1 => Lost' = Lost + Period
  BY <1>0, LostGrows DEF IInv
<1>2. Grace = Lost + (IF watcher = "polling" THEN Period ELSE pollAge)
      /\ Grace' = Lost' + (IF watcher' = "polling" THEN Period ELSE pollAge')
  BY DEF Grace, Period
<1> DEFINE Frame == /\ UNCHANGED <<watching, watcher, pollAge>> /\ (Working' => Working)
                    /\ watchedFor' \in {0, watchedFor} /\ idleFor' \in {0, idleFor}
<1>3. Frame => Unseen'
  <2> SUFFICES ASSUME Frame, (Working /\ ~watching)'
               PROVE  watchedFor' <= Grace' \/ idleFor' <= Grace'
    BY DEF Unseen
  <2>1. Grace \in Nat /\ Grace' \in Nat /\ Grace <= Grace'
    <3>1. pollAge \in Nat /\ pollAge' = pollAge /\ watcher' = watcher
      BY <1>0 DEF Ages
    <3>2. \A k \in Nat : Lost + k \in Nat /\ Lost' + k \in Nat /\ Lost + k <= Lost' + k
      <4>1. \A l, m, k \in Nat : l <= m => l + k \in Nat /\ m + k \in Nat /\ l + k <= m + k
        OBVIOUS
      <4>2. QED
        BY <1>1, <4>1
    <3>3. \E k \in Nat : Grace = Lost + k /\ Grace' = Lost' + k
      BY <1>1, <1>2, <3>1
    <3>4. QED
      BY <3>2, <3>3
  <2>2. watchedFor <= Grace \/ idleFor <= Grace
    BY <1>0 DEF Unseen
  <2>3. watchedFor \in Nat /\ idleFor \in Nat
    BY <1>0 DEF Ages
  <2>4. QED
    BY <2>1, <2>2, <2>3
<1>4. RequestStop \/ Room \/ StopRest \/ LoopEnds \/ UNCHANGED vars => Frame
  BY DEF RequestStop, Room, ViewerJoins, ViewerWelcomed, ViewerLeaves, BrowserComesOrGoes,
     ConfigRead, StopRest, LoopEnds, vars, Working
<1>5. Boot => Frame
  BY DEF Boot, Working
<1>6. Count => Frame
  BY DEF Count, Working
<1>7. Restart \/ Draw => Frame
  BY DEF Restart, Draw, NothingToDraw, RenderFails, EncodeFails, Encodes, Working
<1>8. Publish => Frame
  BY PublishMoves DEF Publish, Working
<1>12. Release => Frame
  BY DEF Release, Closes, Working
<1>9. Tick => Unseen'
  <2> SUFFICES ASSUME Tick PROVE Unseen'
    OBVIOUS
  <2>1. /\ watcher = "rest" /\ UNCHANGED <<watcher, watching, failures>>
        /\ Working' => Working
        /\ "watcher" \notin due
    BY <1>0 DEF Tick, Turns, Places, Working
  <2>2. /\ pollAge' = IF pollAge <= PollAfter THEN pollAge + 1 ELSE pollAge
        /\ watchedFor' \in {0, watchedFor, watchedFor + 1}
        /\ idleFor' \in {idleFor, idleFor + 1}
    BY <1>0 DEF Tick, UpTo, Ages
  <2>3. pollAge > PollAfter => watchedFor = 0
    BY <1>0, <2>1 DEF Polled
  <2>4. QED
    BY <1>0, <1>1, <1>2, <2>1, <2>2, <2>3 DEF Unseen, Ages
<1>10. WatcherTurns => Unseen'
  <2> SUFFICES ASSUME WatcherTurns PROVE Unseen'
    OBVIOUS
  <2>1. /\ UNCHANGED <<idleFor, watchedFor, failures, running, render>>
        /\ watcher = "rest"
        /\ \/ watcher' = "polling"
           \/ UNCHANGED <<watcher, pollAge>>
    BY <1>0 DEF WatcherTurns, Places
  <2>2. ~watching' => ~watching \/ ~connected
    BY Zenon DEF WatcherTurns
  <2>3. QED
    BY <1>0, <1>1, <1>2, <2>1, <2>2 DEF Unseen, Ages, Reading, Working
<1>11. WatcherAnswered => Unseen'
  <2> SUFFICES ASSUME WatcherAnswered, (Working /\ ~watching)'
               PROVE  watchedFor' <= Grace' \/ idleFor' <= Grace'
    BY DEF Unseen
  <2>1. /\ UNCHANGED <<idleFor, watchedFor, pollAge, running, render>>
        /\ watcher = "polling" /\ watcher' = "rest" /\ pollAge = 0
    BY <1>0 DEF WatcherAnswered, Turns
  <2>2. ~readers \/ failures' = failures + 1
    BY Zenon DEF WatcherAnswered
  <2>3. CASE ~readers
    <3>1. watchedFor = 0
      BY <1>0, <2>3 DEF Reading, Ages
    <3>2. Grace' = Lost'
      <4>1. watcher' # "polling" /\ pollAge' = 0
        BY <2>1
      <4>2. Grace' = Lost' + 0
        BY <1>2, <4>1
      <4>3. \A n \in Nat : n + 0 = n
        OBVIOUS
      <4>4. QED
        BY <1>1, <4>2, <4>3
    <3>3. QED
      BY <1>1, <2>1, <3>1, <3>2
  <2>4. CASE failures' = failures + 1
    BY <1>0, <1>1, <1>2, <2>1, <2>4 DEF Unseen, Seen, Working, Ages
  <2>5. QED
    BY <2>2, <2>3, <2>4
<1>13. QED
  BY <1>3, <1>4, <1>5, <1>6, <1>7, <1>8, <1>9, <1>10, <1>11, <1>12 DEF Next, RenderStep,
     WatcherStep

LEMMA NextInv == IInv /\ [Next]_vars => IInv'
<1> SUFFICES ASSUME IInv, [Next]_vars PROVE IInv'
  OBVIOUS
<1>1. /\ Flags /\ Places /\ Ages /\ Numbers /\ Retained /\ Welcomed
      /\ Turns /\ Reading /\ Polled /\ Seen
  BY Kinds DEF IInv
<1>2. (Flags /\ Places /\ Ages /\ Numbers /\ Retained)'
  BY <1>1, FlagsKept, PlacesKept, AgesKept, RetainedKept
<1>3. TypeOK'
  BY <1>2, Kinds, PTL
<1>4. (Welcomed /\ Turns /\ Reading /\ Polled /\ Seen)'
  BY <1>1, WelcomedKept, TurnsKept, ReadingKept, PolledKept, SeenKept
<1>5. QED
  BY <1>2, <1>3, <1>4, UnseenKept, LeavingKept DEF IInv

(* A client that was sent its handshake while the GPU was up, and not about to be
   given back, keeps the encoder that handshake describes for as long as it stays
   (Engine::renderLoop's count against StreamServer::serviceClient and stopGpu),
   and the references on the CUDA context never exceed what failed starts and the
   running one took, for any periods and any number of failures.           *)
THEOREM GpuInvHolds == Spec => []GpuInv
<1>1. IInv => GpuInv
  BY DEF IInv, GpuInv, Welcomed, WelcomeKept
<1>2. QED
  BY InitInv, NextInv, <1>1, PTL DEF Spec

(* Engine::watcherLoop finds a reading browser out before renderLoop's idle
   release cuts it off, unless as many polls failed as periods went by, for any
   idle release, poll period and number of failures.                       *)
THEOREM BrowserNotCutOffHolds == Spec => BrowserNotCutOff
<1>1. IInv /\ [Next]_vars =>
        [gpuReady /\ ~gpuReady' => watchedFor <= (failures + 1) * (PollAfter + 1)]_vars
  <2> SUFFICES ASSUME IInv, Next, gpuReady, ~gpuReady'
               PROVE  watchedFor <= (failures + 1) * (PollAfter + 1)
    OBVIOUS
  <2>0. Numbers /\ Retained /\ Leaving
    BY Kinds DEF IInv
  <2>1. render = "release"
    <3>1. ~(RequestStop \/ Tick \/ Room \/ Count \/ StopRest \/ Draw \/ Publish \/ LoopEnds \/
            WatcherTurns \/ WatcherAnswered)
      BY DEF RequestStop, Tick, Room, Count, StopRest, Draw, Publish, LoopEnds,
         WatcherTurns, WatcherAnswered, gpuVars
    <3>2. ~Boot /\ ~Restart
      BY <2>0 DEF Boot, Restart, Retained
    <3>3. Release
      BY <3>1, <3>2 DEF Next, RenderStep, WatcherStep
    <3>4. QED
      BY <3>3 DEF Release
  <2>2. watchedFor <= Lost + Period
    BY <2>0, <2>1 DEF Leaving
  <2>3. (failures + 1) * (PollAfter + 1) = Lost + Period
    BY <2>0 DEF Numbers, Lost, Period
  <2>4. QED
    BY <2>2, <2>3
<1>2. QED
  BY InitInv, NextInv, <1>1, PTL DEF Spec, BrowserNotCutOff
=============================================================================
