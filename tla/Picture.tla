------------------------------- MODULE Picture -------------------------------
(***************************************************************************)
(* What the picture shows: one tick of the simulation thread of            *)
(* src/src/service/engine.cpp resolves the dashboard's selection against   *)
(* the rotation it holds (publishSimulationInput) and hands the outcome to *)
(* the two image slots of src/src/core/simulation.cpp (ingest, step).  The *)
(* config thread swaps the rotation and the selection under it.  A palette *)
(* is the entry it belongs to; settings are left out.                      *)
(* Time is the simulation's ticks; a ramp is the ticks it lasts.           *)
(***************************************************************************)
EXTENDS Integers, Sequences, FiniteSets

CONSTANTS
  Ids,          (* rotation entries                                         *)
  NoId,         (* the empty id                                             *)
  Images,       (* decoded images, Nobody among them                        *)
  Nobody,       (* a null image                                             *)
  Manners,      (* [shape, ticks]: transitions the dashboard publishes      *)
  DefaultManner,(* the one a SimulationInput or a snapshot starts with      *)
  PreviewTicks, (* the 0.05 s of an editor preview                          *)
  Rotations,    (* [entries, group, pinned, message]: rotations held        *)
  Selections    (* [entry, group, alt, paused, centre, backdrop]            *)

Plain == DefaultManner.shape
Preview == [shape |-> Plain, ticks |-> PreviewTicks]
Cut == [shape |-> Plain, ticks |-> 0]
AllManners == Manners \cup {DefaultManner, Preview, Cut}
Column == [centre : Images, backdrop : Images]
Entry == [id : Ids, own : Column, alt : Column]

ASSUME ParameterAssumption ==
  /\ NoId \notin Ids /\ Nobody \in Images
  /\ PreviewTicks \in Nat
  /\ \A m \in Manners \cup {DefaultManner} : m.ticks \in Nat
  /\ \E n \in {m.ticks : m \in AllManners} : \A m \in AllManners : m.ticks <= n
  /\ \A r \in Rotations :
       /\ r.entries \in Seq(Entry) /\ r.pinned \in Ids \cup {NoId}
  /\ Selections \subseteq
       [entry : Ids \cup {NoId}, group : {s.group : s \in Selections}, alt : BOOLEAN,
        paused : BOOLEAN, centre : Manners, backdrop : Manners]

VARIABLES
  rotation,   (* the configuration half of the config client's snapshot_    *)
  selected,   (* its selected* fields, altActive and paused                 *)
  index,      (* entryIndex_, from 1                                        *)
  current,    (* currentEntryId_                                            *)
  input,      (* the SimulationInput handed over last                       *)
  centre,     (* the centre slot: [image, prev, elapsed, latched]           *)
  backdrop,   (* the backdrop slot                                          *)
  stable      (* history: ticks since the snapshot changed, up to Settled   *)

pictureVars == <<rotation, selected, index, current, input, centre, backdrop, stable>>

OutOfRange == "out of range"
Done == -1
Longest == CHOOSE n \in {m.ticks : m \in AllManners} : \A m \in AllManners : m.ticks <= n
Settled == Longest + 2
Slot == [image : Images, prev : Images, elapsed : Done..Longest, latched : AllManners]

PictureTypeOK ==
  /\ rotation \in Rotations
  /\ selected \in [entry : Ids \cup {NoId}, group : {NoId} \cup {s.group : s \in Selections},
                   alt : BOOLEAN, paused : BOOLEAN,
                   centre : AllManners, backdrop : AllManners]
  /\ index \in Nat \ {0}
  /\ current \in Ids \cup {NoId}
  /\ input.entry \in Ids \cup {NoId}
  /\ centre \in Slot /\ backdrop \in Slot
  /\ stable \in 0..Settled

Empty == [image |-> Nobody, prev |-> Nobody, elapsed |-> Done, latched |-> DefaultManner]

Unselected ==
  [entry |-> NoId, group |-> NoId, alt |-> FALSE, paused |-> FALSE,
   centre |-> DefaultManner, backdrop |-> DefaultManner]

(* The first commit has just happened; before it nothing is submitted.     *)
PictureInit ==
  /\ rotation \in Rotations
  /\ selected \in Selections \cup {Unselected}
  /\ index = 1 /\ current = NoId
  /\ input = [entry |-> NoId, centre |-> Nobody, backdrop |-> Nobody, centreBy |-> DefaultManner,
              backdropBy |-> DefaultManner, paused |-> FALSE]
  /\ centre = Empty /\ backdrop = Empty
  /\ stable = 0

-----------------------------------------------------------------------------
(* The config thread.                                                      *)

(* The commit at the end of refreshConfiguration: everything selected is
   carried over, except the transitions.                                   *)
Commit ==
  /\ rotation' \in Rotations \ {rotation}
  /\ selected' = [selected EXCEPT !.centre = DefaultManner, !.backdrop = DefaultManner]
  /\ stable' = 0
  /\ UNCHANGED <<index, current, input, centre, backdrop>>

(* refreshThemeState.                                                      *)
ThemeRead ==
  /\ selected' \in Selections \ {selected}
  /\ stable' = 0
  /\ UNCHANGED <<rotation, index, current, input, centre, backdrop>>

-----------------------------------------------------------------------------
(* publishSimulationInput.                                                 *)

Pinned == rotation.pinned # NoId
GroupMatches == selected.group = NoId \/ selected.group = rotation.group
Authoritative ==
  IF Pinned THEN rotation.pinned ELSE IF GroupMatches THEN selected.entry ELSE NoId

Places(id) == {i \in DOMAIN rotation.entries : rotation.entries[i].id = id}
FirstPlace(id) == CHOOSE i \in Places(id) : \A j \in Places(id) : i <= j

ClampedIndex == IF index \in DOMAIN rotation.entries THEN index ELSE 1

(* The cursor only moves when the authoritative entry is another one than
   it last named, and is one the rotation has.                             *)
NextIndex ==
  IF Authoritative # current /\ Places(Authoritative) # {}
    THEN FirstPlace(Authoritative) ELSE ClampedIndex

(* Mutant: the id is only noted when the cursor was moved to it.           *)
NextCurrentWhenMoved ==
  IF Authoritative # current /\ Places(Authoritative) # {} THEN Authoritative ELSE current

NextCurrent ==
  IF NextIndex \in DOMAIN rotation.entries THEN rotation.entries[NextIndex].id ELSE current

ColumnOf(entry) == IF selected.alt THEN entry.alt ELSE entry.own

CentreManner == IF Pinned THEN Preview ELSE IF GroupMatches THEN selected.centre ELSE Cut
BackdropManner == IF Pinned THEN Preview ELSE IF GroupMatches THEN selected.backdrop ELSE Cut

(* A rotation without entries leaves everything at its default.            *)
EmptyInput ==
  [entry |-> NoId, centre |-> Nobody, backdrop |-> Nobody, centreBy |-> DefaultManner,
   backdropBy |-> DefaultManner, paused |-> FALSE]

InputFrom(i) ==
  LET entry == rotation.entries[i]
  IN [entry |-> entry.id,
      centre |-> IF rotation.message THEN Nobody ELSE ColumnOf(entry).centre,
      backdrop |-> ColumnOf(entry).backdrop,
      centreBy |-> CentreManner, backdropBy |-> BackdropManner,
      paused |-> selected.paused /\ ~Pinned]

NextInput ==
  IF rotation.entries = <<>> THEN EmptyInput
  ELSE IF NextIndex \in DOMAIN rotation.entries THEN InputFrom(NextIndex)
  ELSE [EmptyInput EXCEPT !.entry = OutOfRange]

-----------------------------------------------------------------------------
(* The slots of the simulation.                                            *)

Changed(slot, image, manner, runs) ==
  [image |-> image, prev |-> slot.image, elapsed |-> IF runs THEN 0 ELSE Done,
   latched |-> manner]

(* Mutant: what is latched is read again on every tick.                    *)
CentreIngestedLive(image, manner) ==
  IF image # centre.image
    THEN Changed(centre, image, manner, centre.image # Nobody /\ manner.ticks > 0)
    ELSE [centre EXCEPT !.latched = manner]

(* The centre has nothing to leave from when it showed no image.           *)
CentreIngested(image, manner) ==
  IF image # centre.image
    THEN Changed(centre, image, manner, centre.image # Nobody /\ manner.ticks > 0)
    ELSE centre

(* The backdrop always has: null is the procedural field.                  *)
BackdropIngested(image, manner) ==
  IF image # backdrop.image
    THEN Changed(backdrop, image, manner, manner.ticks > 0)
    ELSE backdrop

(* Mutant: a paused rotation holds the change.                             *)
RampAdvancedUnlessPaused(slot, paused) ==
  IF slot.elapsed = Done \/ paused THEN slot
  ELSE IF slot.elapsed + 1 < slot.latched.ticks THEN [slot EXCEPT !.elapsed = @ + 1]
  ELSE [slot EXCEPT !.elapsed = Done, !.prev = Nobody]

(* advanceConfiguration: the ramp's progress is 1 exactly when its whole
   length has elapsed; that releases the outgoing image.                   *)
RampAdvanced(slot, paused) ==
  IF slot.elapsed = Done THEN slot
  ELSE IF slot.elapsed + 1 < slot.latched.ticks THEN [slot EXCEPT !.elapsed = @ + 1]
  ELSE [slot EXCEPT !.elapsed = Done, !.prev = Nobody]

(* One turn of simulationLoop.                                             *)
PictureTick ==
  /\ index' = IF rotation.entries = <<>> THEN index ELSE NextIndex
  /\ current' = IF rotation.entries = <<>> THEN current ELSE NextCurrent
  /\ input' = NextInput
  /\ centre' = RampAdvanced(CentreIngested(input'.centre, input'.centreBy), input'.paused)
  /\ backdrop' = RampAdvanced(BackdropIngested(input'.backdrop, input'.backdropBy), input'.paused)
  /\ stable' = IF stable < Settled THEN stable + 1 ELSE stable
  /\ UNCHANGED <<rotation, selected>>

PictureNext == Commit \/ ThemeRead \/ PictureTick

PictureSpec == PictureInit /\ [][PictureNext]_pictureVars

-----------------------------------------------------------------------------
Resolvable == Places(Authoritative) # {}
Wanted(i) == ColumnOf(rotation.entries[i])

(* Two ticks after the snapshot last changed the entry shown is the one the
   dashboard selected, or the editor pinned, if the rotation has it.       *)
SelectionSettles == stable >= 2 /\ Resolvable => input.entry = Authoritative

(* The type invariant, and the selected entry shown.                       *)
PictureInv == PictureTypeOK /\ SelectionSettles

(* Once the longest change could have run, paused or not, both slots have
   come to rest on what that entry's theme supplies, both on the same one's:
   nothing keeps two entries of a rotation from having one id.             *)
PictureSettles ==
  stable = Settled /\ Resolvable =>
    /\ centre.elapsed = Done /\ backdrop.elapsed = Done
    /\ \E i \in Places(Authoritative) :
         /\ centre.image = IF rotation.message THEN Nobody ELSE Wanted(i).centre
         /\ backdrop.image = Wanted(i).backdrop

Leaving(slot) == IF slot.elapsed = Done THEN Nobody ELSE slot.prev
Left(slot) == IF slot.elapsed = Done THEN 0 ELSE slot.latched.ticks - slot.elapsed

Centre == INSTANCE SlotPromise WITH
  Manners <- AllManners, LeavesNobody <- FALSE, showing <- centre.image,
  leaving <- Leaving(centre), manner <- centre.latched, left <- Left(centre)

Backdrop == INSTANCE SlotPromise WITH
  Manners <- AllManners, LeavesNobody <- TRUE, showing <- backdrop.image,
  leaving <- Leaving(backdrop), manner <- backdrop.latched, left <- Left(backdrop)

(* Whatever the config thread swaps and whenever, each slot keeps what is
   promised of it: a change is made the way it was started, for exactly as
   long, and nothing but another change of occupant interrupts it.         *)
SlotsKeepPromise == Centre!Spec /\ Backdrop!Spec
=============================================================================
