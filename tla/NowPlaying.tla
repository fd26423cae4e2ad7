----------------------------- MODULE NowPlaying -----------------------------
(***************************************************************************)
(* Where in which song the room is: the half of the config client that     *)
(* samples the dashboard's master clock, resolves the track's analysis and *)
(* fetches the dashboard theme (src/src/net/config_client.cpp), the signal *)
(* the Apple TV posts (Engine::handleControl), and what the simulation     *)
(* thread makes of both (Engine::publishSimulationInput, src/src/core/     *)
(* signal.cpp).  The player and the dashboard are external; the dashboard  *)
(* knows the player's position exactly when it makes an answer.            *)
(*                                                                         *)
(* Positions are held doubled, for the midpoint of a round trip.  The      *)
(* presentation delay, which is added to every position alike, and the     *)
(* offset of a track without beat times are left out, and so are lyrics,   *)
(* energy, valence and the spectrum.                                       *)
(***************************************************************************)
EXTENDS Wire

CONSTANTS
  Tracks,       (* the songs                                                *)
  NoTrack,      (* the player has none                                      *)
  BeatTimes,    (* the beat times the provider has of each song, if any     *)
  BeatLength,   (* the time of a beat when no beat times are known          *)
  Stale,        (* the age at which the posted signal is given up: 1 second *)
  MaxTime,      (* bound: the clock                                         *)
  MaxChanges,   (* bound: what the user does to the player, or the theme    *)
  MaxLosses     (* bound: answers that were cut or never came               *)

ASSUME SignalAssumption ==
  /\ NoTrack \notin Tracks
  /\ BeatTimes \in [Tracks -> Seq(Nat)]
  /\ BeatLength \in Nat \ {0} /\ Stale \in Nat
  /\ {MaxTime, MaxChanges, MaxLosses} \subseteq Nat

VARIABLES
  clock,      (* monotonicSeconds                                           *)
  player,     (* external: the player, and how often it has been touched    *)
  theme,      (* external: the version of the dashboard's theme             *)
  pc,         (* where the config client's thread is                        *)
  asked,      (* requestedAt                                                *)
  answer,     (* what the dashboard answered                                *)
  now,        (* nowPlaying_, and the round trip it came from               *)
  analysis,   (* the track analysis_ is of                                  *)
  resolved,   (* resolvedTrackKey_                                          *)
  fluid,      (* the version of fluidTheme_                                 *)
  themeEtag,  (* themeEtag_: the version it names, 0 when empty             *)
  upstream,   (* upstreamSignal_, upstreamSignalReceivedAt_                 *)
  changes, losses

world == <<player, theme, changes>>
client == <<pc, asked, answer, now, analysis, resolved, fluid, themeEtag, losses>>
engine == upstream
vars == <<clock, world, client, engine>>

Songs == Tracks \cup {NoTrack}

NoAnswer == [playing |-> FALSE, track |-> NoTrack, position |-> 0, touched |-> 0]
NoSample == [playing |-> FALSE, track |-> NoTrack, position |-> 0, touched |-> 0,
             sampled |-> 0, trip |-> 0]
NoSignal == [playing |-> FALSE, time |-> 0, touched |-> 0, received |-> -1]

Answer == [playing: BOOLEAN, track: Songs, position: Nat, touched: Nat]
Sample == [playing: BOOLEAN, track: Songs, position: Nat, touched: Nat, sampled: Nat, trip: Nat]
SignalFrame == [playing: BOOLEAN, time: Nat, touched: Nat, received: Nat \cup {-1}]

TypeOK ==
  /\ clock \in 0..MaxTime /\ asked \in 0..clock
  /\ player \in Answer /\ answer \in Answer /\ now \in Sample
  /\ theme \in Nat /\ fluid \in 0..theme /\ themeEtag \in 0..theme
  /\ pc \in {"top", "asked", "answered", "resolve", "theme"}
  /\ analysis \in Songs /\ resolved \in Songs
  /\ upstream \in SignalFrame
  /\ changes \in 0..MaxChanges /\ losses \in 0..MaxLosses

Init ==
  /\ clock = 0
  /\ player = [playing |-> FALSE, track |-> NoTrack, position |-> 0, touched |-> 0]
  /\ theme = 1
  /\ pc = "top" /\ asked = 0 /\ answer = NoAnswer /\ now = NoSample
  /\ analysis = NoTrack /\ resolved = NoTrack /\ fluid = 0 /\ themeEtag = 0
  /\ upstream = NoSignal
  /\ changes = 0 /\ losses = 0

-----------------------------------------------------------------------------
(* Time, the player and the Apple TV.                                      *)

(* A signal that is too old to be used is as good as none.                 *)
Tick ==
  /\ clock < MaxTime
  /\ clock' = clock + 1
  /\ player' = IF player.playing THEN [player EXCEPT !.position = @ + 1] ELSE player
  /\ upstream' = IF clock + 1 - upstream.received < Stale THEN upstream ELSE NoSignal
  /\ UNCHANGED <<theme, changes, client>>

Touched(playing, track, position) ==
  /\ changes < MaxChanges /\ changes' = changes + 1
  /\ player' = [playing |-> playing, track |-> track, position |-> position,
                touched |-> player.touched + 1]
  /\ UNCHANGED <<clock, theme, client, engine>>

Skip == \E t \in Songs \ {player.track} : Touched(t # NoTrack, t, 0)
Pause == player.track # NoTrack /\ Touched(~player.playing, player.track, player.position)
Restart == player.position > 0 /\ Touched(player.playing, player.track, 0)

ThemeChanges ==
  /\ changes < MaxChanges /\ changes' = changes + 1
  /\ theme' = theme + 1
  /\ UNCHANGED <<clock, player, client, engine>>

(* POST /signal.  How long it was under way the code cannot know.          *)
Signal ==
  /\ upstream' = [playing |-> player.playing, time |-> player.position,
                  touched |-> player.touched, received |-> clock]
  /\ UNCHANGED <<clock, world, client>>

-----------------------------------------------------------------------------
(* ConfigClient::run.                                                      *)

Here == UNCHANGED <<clock, world, engine>>

Asks ==
  /\ pc = "top"
  /\ pc' = "asked" /\ asked' = clock
  /\ UNCHANGED <<answer, now, analysis, resolved, fluid, themeEtag, losses>> /\ Here

Answers ==
  /\ pc = "asked"
  /\ pc' = "answered"
  /\ answer' = player
  /\ UNCHANGED <<asked, now, analysis, resolved, fluid, themeEtag, losses>> /\ Here

String == <<"quote", "quote">>

(* {"position": .., "track": {"genreNames": ["..", ".."]}}, or null for a
   track; further members would be more of the same.                       *)
Document(tracked) ==
  <<"{">> \o String \o <<":", "atom", ",">> \o String \o <<":">>
    \o (IF tracked THEN <<"{">> \o String \o <<":", "[">> \o String \o <<",">> \o String \o <<"]", "}">> ELSE <<"atom">>)
    \o <<"}">>

(* An answer arrives up to some point, sent whole, in two chunks or mark by
   mark; of one that never came nothing does.                              *)
Bodies ==
  [tracked \in BOOLEAN |->
     LET document == Document(tracked)
     IN {Body(document, chunks, received) :
           chunks \in {{Len(document)}, {2, Len(document)}, DOMAIN document},
           received \in 0..Len(document)}]

Understood == {body \in Bodies[TRUE] \cup Bodies[FALSE] : Parses(body)}

Counts(all) ==
  /\ all \/ losses < MaxLosses
  /\ losses' = IF all THEN losses ELSE losses + 1

(* Mutant: the sample is dated when its answer arrived.                    *)
SampledLate == 2 * clock

(* The answer was made at some moment of the round trip.                   *)
Sampled == asked + clock

Receives ==
  /\ pc = "answered"
  /\ LET tracked == answer.track # NoTrack
     IN \E body \in Bodies[tracked] :
          /\ Counts(body = Document(tracked))
          /\ IF body \in Understood
             THEN /\ now' = [playing |-> answer.playing, track |-> answer.track,
                             position |-> answer.position, touched |-> answer.touched,
                             sampled |-> Sampled, trip |-> clock - asked]
                  /\ pc' = IF answer.track \in {resolved, NoTrack} THEN "theme" ELSE "resolve"
             ELSE pc' = "theme" /\ UNCHANGED now
  /\ asked' = 0 /\ answer' = NoAnswer
  /\ UNCHANGED <<analysis, resolved, fluid, themeEtag>> /\ Here

(* Mutant: a track whose analysis could not be had is not asked for again. *)
ResolvesOnce ==
  /\ pc = "resolve"
  /\ pc' = "theme"
  /\ resolved' = now.track
  /\ \/ Counts(TRUE) /\ analysis' = now.track
     \/ Counts(FALSE) /\ UNCHANGED analysis
  /\ UNCHANGED <<asked, answer, now, fluid, themeEtag>> /\ Here

(* POST tracks/resolve, which may take 20 seconds and fail; then what the
   previous track left stays.                                              *)
Resolves ==
  /\ pc = "resolve"
  /\ pc' = "theme"
  /\ \/ Counts(TRUE) /\ analysis' = now.track /\ resolved' = now.track
     \/ Counts(FALSE) /\ UNCHANGED <<analysis, resolved>>
  /\ UNCHANGED <<asked, answer, now, fluid, themeEtag>> /\ Here

ThemeNotDue ==
  /\ pc = "theme"
  /\ pc' = "top"
  /\ UNCHANGED <<asked, answer, now, analysis, resolved, fluid, themeEtag, losses>> /\ Here

(* The theme is fetched unless the dashboard still has the one the tag
   names; the tag may be missing from an answer.                           *)
RefreshTheme ==
  /\ pc = "theme"
  /\ pc' = "top"
  /\ \/ Counts(FALSE) /\ UNCHANGED <<fluid, themeEtag>>
     \/ Counts(TRUE) /\ IF themeEtag = theme THEN UNCHANGED <<fluid, themeEtag>>
                        ELSE fluid' = theme /\ themeEtag' \in {theme, 0}
  /\ UNCHANGED <<asked, answer, now, analysis, resolved>> /\ Here

-----------------------------------------------------------------------------
(* Engine::publishSimulationInput.                                         *)

(* Mutant: a beat has passed only after its time.                          *)
PassedLater(times, i, position) == 2 * times[i] < position

Passed(times, i, position) == 2 * times[i] <= position

(* The beats passed, by bisection.                                         *)
BeatsPassed(times, position) ==
  LET Ends == 0..Len(times)
      search[span \in Ends \X Ends] ==
        LET low == span[1]  high == span[2]  middle == (low + high) \div 2
        IN IF low >= high THEN low
           ELSE IF Passed(times, middle + 1, position) THEN search[<<middle + 1, high>>]
           ELSE search[<<low, middle>>]
  IN search[<<0, Len(times)>>]

Beat(song, position) ==
  LET times == IF song = NoTrack THEN <<>> ELSE BeatTimes[song]
      passed == BeatsPassed(times, position)
  IN IF times = <<>> THEN position \div (2 * BeatLength)
     ELSE IF passed = 0 THEN 0 ELSE passed - 1

(* Between samples the clock carries the position on; without a track it is
   the position.                                                           *)
LocalPosition ==
  IF now.track = NoTrack THEN 2 * clock
  ELSE 2 * now.position + (IF now.playing THEN 2 * clock - now.sampled ELSE 0)

(* projectedSignal: what was posted, carried on since it was received.     *)
UpstreamPosition ==
  2 * upstream.time + (IF upstream.playing THEN 2 * (clock - upstream.received) ELSE 0)

UsesUpstream == upstream.received >= 0 /\ clock - upstream.received < Stale

LocalFrame ==
  LET playing == now.track # NoTrack /\ now.playing
  IN [source |-> "local", playing |-> playing, analysis |-> analysis,
      position |-> LocalPosition,
      beat |-> IF playing THEN Beat(analysis, LocalPosition) ELSE 0]

UpstreamFrame ==
  [source |-> "upstream", playing |-> upstream.playing, analysis |-> NoTrack,
   position |-> UpstreamPosition,
   beat |-> LET sent == 2 * upstream.time
                phase == sent % (2 * BeatLength)
            IN sent \div (2 * BeatLength)
               + (phase + UpstreamPosition - sent) \div (2 * BeatLength)]

(* The SignalFrame the simulation is given.  Both reads of the client are
   taken at once.                                                          *)
Frame == IF UsesUpstream THEN UpstreamFrame ELSE LocalFrame

-----------------------------------------------------------------------------
Client ==
  \/ Asks \/ Answers \/ Receives \/ Resolves \/ ThemeNotDue \/ RefreshTheme

Next ==
  \/ Tick \/ Skip \/ Pause \/ Restart \/ ThemeChanges \/ Signal
  \/ Client

Spec == Init /\ [][Next]_vars

(* The config client's thread goes on, requests are answered or time out, and
   the theme, due every ten seconds, is asked for again and again.         *)
LiveSpec == Spec /\ WF_vars(Client) /\ SF_vars(RefreshTheme)

-----------------------------------------------------------------------------
(* Types; the tag kept is that of the theme shown, or a 304 would keep an old
   theme for ever; and the beat of a frame is the one a scan of the track's
   beat times finds, or that of the projected position on an even grid.    *)
NowPlayingInv ==
  /\ TypeOK
  /\ themeEtag \in {0, fluid}
  /\ Frame.playing =>
       LET times == IF Frame.analysis = NoTrack THEN <<>> ELSE BeatTimes[Frame.analysis]
           passed == Cardinality({i \in DOMAIN times : 2 * times[i] <= Frame.position})
       IN Frame.beat = IF times = <<>> THEN Frame.position \div (2 * BeatLength)
                       ELSE IF passed = 0 THEN 0 ELSE passed - 1

(* A frame the simulation is given is no further from what the room hears than
   half the round trip of the sample it was made from, or than the posted
   signal was under way: unless the player was touched since, and however
   long ago the dashboard last answered (the master clock's midpoint estimate,
   config_client.cpp:824).                                                 *)
Near(position, bound) == position - 2 * player.position \in (-bound)..bound

PositionTracks ==
  IF UsesUpstream
    THEN upstream.touched = player.touched =>
           Near(UpstreamPosition, 0)
    ELSE now.track # NoTrack /\ now.touched = player.touched =>
           Near(LocalPosition, now.trip)

(* An answer that was cut anywhere changes nothing that is held, although the
   HTTP client does not tell it from a whole one.                          *)
TruncatedIgnored ==
  [][losses' > losses => UNCHANGED <<now, analysis, resolved, fluid, themeEtag>>]_vars

(* In the end the song, its analysis and the theme are the player's and the
   dashboard's.                                                            *)
CatchesUp ==
  <>[](/\ now.track = player.track /\ now.playing = player.playing
       /\ player.track # NoTrack => analysis = player.track
       /\ fluid = theme)
=============================================================================
