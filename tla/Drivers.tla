-------------------------------- MODULE Drivers --------------------------------
(* The driver lanes (core/parameter_drivers.cpp) and the choice of the groups  *)
(* they come from (Engine::applyControlLanes), evaluated once per fixed step   *)
(* against states that outlive every edit of the lanes (parameterDriverStates_)*)
(*                                                                             *)
(* Effects share no state, so the lanes of one effect are modelled, each with  *)
(* one binding.  A level of 1 is Full; an attack or a release takes no time or *)
(* Full units of it, so that a ramp gains one level per unit.  The position in *)
(* the track is counted in units too, a beat being Beat of them.  A value      *)
(* drawn from a hash of a slot and a window is one of 0 .. Grain.              *)
EXTENDS Integers, FiniteSets, SequencesExt

CONSTANTS
    Groups,     \* name -> [id, lanes, mode, static, isDefault]: the settings groups,
                \* as they are and as an edit may make them
    IdLists,    \* the lists of names an entry may have selected
    Edits,      \* the pairs of them one of which may replace the other
    Full,       \* the level of a whole pulse
    Delta,      \* what frame.delta is clamped to, in units
    Beat,       \* units in a beat
    Bar,        \* beats in a bar
    Length,     \* the last position of a track that is modelled
    Songs,      \* the track changes that are modelled
    Grain,      \* steps of a drawn value
    Lowest, Highest, Default,   \* the effect's declaration
    OverrideOnly        \* isOverrideOnlyEffect(effect)

DriversOf == [type : STRING, every : Int, offset : Int, divide : Int, interval : Nat \ {0},
              cadence : STRING]
LanesOf == [id : STRING, driver : DriversOf, modifiers : Seq(DriversOf), low : Int, high : Int,
            randomValue : BOOLEAN, times : [attack : Nat, hold : Nat, release : Nat]]

ASSUME GroupsAssumption ==
    /\ \A name \in DOMAIN Groups :
            Groups[name] \in [id : STRING, lanes : Seq(LanesOf), mode : STRING,
                              static : Seq(Int), isDefault : BOOLEAN]
    /\ \A list \in IdLists : list \in Seq(STRING)

ASSUME UnitsAssumption ==
    /\ {Full, Delta, Beat, Bar, Grain} \subseteq Nat \ {0}
    /\ {Length, Songs} \subseteq Nat
    /\ Lowest \in Int /\ Default \in Int /\ Highest \in Int /\ Lowest =< Highest

VARIABLES
    ids,        \* rotation.selectedSettingsGroupIds, or the entry's
    position,   \* frame.time, and with it beatIndex, beatPhase, barIndex, barPhase
    track,      \* frame.trackSeed
    energy,     \* the signal of a continuous driver
    slots,      \* states: slot -> DriverSlotState, made when first used
    rolls,      \* the states of randomValue, whose keys end in ":rnd"
    value,      \* settings[effect], in parts of One
    due         \* whether the frame is still to be evaluated

laneVars == <<ids, position, track, energy, slots, rolls, value, due>>

Lesser(a, b) == IF a < b THEN a ELSE b
Greater(a, b) == IF a > b THEN a ELSE b
NoKey == <<>>
Infinite == 1000 * Beat * Bar

-------------------------------------------------------------------------------
(* The lanes in force *)

Drivers(lane) == <<lane.driver>> \o lane.modifiers
AllDrivers ==
    UNION {Range(Drivers(lane)) : lane \in UNION {Range(Groups[g].lanes) : g \in DOMAIN Groups}}

\* The groups named that exist, or the default one if none does
Named(list) ==
    FoldLeft(LAMBDA found, id : IF id \in DOMAIN Groups THEN Append(found, id) ELSE found,
             <<>>, list)
Defaults == {id \in DOMAIN Groups : Groups[id].isDefault}
Chosen(list) ==
    IF Named(list) # <<>> \/ Defaults = {} THEN Named(list)
    ELSE <<CHOOSE id \in Defaults : TRUE>>

\* mergeSettingsGroups: the lanes stack, the last mode and scalar win
Scoped(name) ==
    [n \in DOMAIN Groups[name].lanes |-> [group |-> Groups[name].id, lane |-> Groups[name].lanes[n]]]
Lanes == [list \in IdLists |->
             FoldLeft(LAMBDA all, id : all \o Scoped(id), <<>>, Chosen(list))]
Mode(list) ==
    IF OverrideOnly THEN "override"
    ELSE FoldLeft(LAMBDA mode, id : IF Groups[id].mode = "unset" THEN mode ELSE Groups[id].mode,
                  "add", Chosen(list))
Static(list) ==
    FoldLeft(LAMBDA was, id : IF Groups[id].static = <<>> THEN was ELSE Groups[id].static[1],
             Default, Chosen(list))

-------------------------------------------------------------------------------
(* Pulses and windows *)

Divide(d) == IF d.divide \in {2, 4, 8} THEN d.divide ELSE 1
Every(d) == Greater(1, d.every)
Offset(d) == Greater(0, Lesser(Every(d) - 1, d.offset))
IsPulse(d) == d.type \in {"beat", "downbeat", "timer", "song"}
Cadence(d) ==
    [d EXCEPT !.type = IF d.cadence \in {"beat", "downbeat", "timer", "song"}
                       THEN d.cadence ELSE "beat"]

\* One pulse, or the part of one a subdivision makes of it, in units
PulseUnits(d) ==
    CASE d.type = "timer" -> d.interval
      [] d.type = "downbeat" -> (Beat * Bar) \div Divide(d)
      [] OTHER -> Beat \div Divide(d)

FiresOn(index, d) == (index - Offset(d)) % Every(d) = 0

\* A unit is fine enough for every subdivision in use
ASSUME DividesAssumption ==
    \A d \in AllDrivers : Beat % Divide(d) = 0

\* The key of the event this frame is on, if it is one the driver fires on;
\* a song driver counts the tracks it has seen.
Counted(s) ==
    IF ~s.seen THEN [s EXCEPT !.seen = TRUE, !.track = track]
    ELSE IF s.track # track THEN [s EXCEPT !.track = track, !.count = @ + 1]
    ELSE s

PulseKey(d, at, count) ==
    LET index == IF d.type = "song" THEN count ELSE at \div PulseUnits(d)
        part == IF d.type \in {"beat", "downbeat"} THEN Divide(d) ELSE 1
    IN  IF FiresOn(index, d) THEN <<d.type, part, index>> ELSE NoKey

\* driverWindowPosition: the window, from one firing to the next, and how far
\* into it the frame is, as a part of the window's units
WindowUnits(d) == PulseUnits(d) * Every(d)

\* Mutant: the windows do not start where the driver fires.
InWindowsAligned(d, at) == at

InWindows(d, at) == at - Offset(d) * PulseUnits(d)
WindowIndex(d, at) == InWindows(d, at) \div WindowUnits(d)
IntoWindow(d, at) == InWindows(d, at) % WindowUnits(d)

\* driverPeriodSeconds, in units
Period(d) ==
    LET p == IF d.type = "random" THEN Cadence(d) ELSE d
    IN  CASE p.type = "song" -> Infinite
          [] p.type \in {"timer", "downbeat", "beat"} -> PulseUnits(p) * Every(p)
          [] OTHER -> 0

-------------------------------------------------------------------------------
(* Envelopes *)

Fresh == [level |-> 0, phase |-> "idle", hold |-> 0, key |-> NoKey, current |-> 0,
          target |-> 0, count |-> 0, track |-> 0, seen |-> FALSE,
          window |-> NoKey, fired |-> FALSE]

\* One turn of advancePulseEnvelope's loop
Attacking(w, times) ==
    LET needed == IF times.attack = 0 THEN 0 ELSE Full - w.slot.level
    IN  IF w.remaining >= needed
        THEN [w EXCEPT !.slot.level = Full, !.slot.phase = "hold", !.remaining = @ - needed]
        ELSE [w EXCEPT !.slot.level = @ + w.remaining, !.remaining = 0]

Holding(w) ==
    LET used == Lesser(w.remaining, w.slot.hold)
        left == w.slot.hold - used
    IN  IF w.slot.hold =< 0 THEN [w EXCEPT !.slot.phase = "release"]
        ELSE [w EXCEPT !.slot.hold = left, !.remaining = @ - used,
                       !.slot.phase = IF left = 0 THEN "release" ELSE "hold"]

Releasing(w, times) ==
    LET needed == IF times.release = 0 THEN 0 ELSE w.slot.level
    IN  IF w.remaining >= needed
        THEN [w EXCEPT !.slot.level = 0, !.slot.phase = "idle", !.remaining = 0]
        ELSE [w EXCEPT !.slot.level = @ - w.remaining, !.remaining = 0]

\* Mutant: the tick that triggers may release too.
TurnReleasingAtOnce(w, times, triggered) ==
    CASE w.remaining = 0 \/ w.slot.phase = "idle" -> w
      [] w.remaining > 0 /\ w.slot.phase = "attack" -> Attacking(w, times)
      [] w.remaining > 0 /\ w.slot.phase = "hold" -> Holding(w)
      [] OTHER -> Releasing(w, times)

Turn(w, times, triggered) ==
    CASE w.remaining = 0 \/ w.slot.phase = "idle" -> w
      [] w.remaining > 0 /\ w.slot.phase = "attack" -> Attacking(w, times)
      [] w.remaining > 0 /\ w.slot.phase = "hold" -> IF triggered THEN w ELSE Holding(w)
      [] OTHER -> Releasing(w, times)

\* advancePulseEnvelope: an event that is not the last one starts the attack
\* from wherever the level is
PulseAdvanced(s, times, key) ==
    LET triggered == key # NoKey /\ key # s.key
        started == IF triggered
                   THEN [s EXCEPT !.key = key, !.phase = "attack", !.hold = times.hold]
                   ELSE s
    IN  FoldLeft(LAMBDA w, n : Turn(w, times, triggered),
                 [slot |-> started, remaining |-> Delta], <<1, 2, 3, 4>>).slot

\* Mutant: the two times are swapped.
FollowerTimeSwapped(times, rising) == IF rising THEN times.release ELSE times.attack

FollowerTime(times, rising) == IF rising THEN times.attack ELSE times.release

\* advanceFollower: the level is followed no faster than the envelope allows
FollowerAdvanced(s, times) ==
    LET rising == energy >= s.current
        moved == IF FollowerTime(times, rising) = 0 THEN energy
                 ELSE IF rising THEN Lesser(energy, s.current + Delta)
                 ELSE Greater(energy, s.current - Delta)
    IN  IF rising THEN [s EXCEPT !.target = energy, !.hold = times.hold, !.current = moved]
        ELSE IF s.hold > 0 THEN [s EXCEPT !.target = energy, !.hold = @ - Delta]
        ELSE [s EXCEPT !.target = energy, !.current = moved]

\* advanceJitteredPulse: a threshold drawn for the window, fired on once
JitterAdvanced(s, d, times, draw) ==
    LET c == Cadence(d)
        window == <<c.type, Divide(c), WindowIndex(c, position)>>
        entered == IF window = s.window THEN s
                   ELSE [s EXCEPT !.window = window, !.target = draw, !.fired = FALSE]
        fires == ~entered.fired /\ IntoWindow(c, position) * Grain >= entered.target * WindowUnits(c)
    IN  IF c.type = "song"
        THEN PulseAdvanced(Counted(s), times, PulseKey(c, position, Counted(s).count))
        ELSE PulseAdvanced([entered EXCEPT !.fired = @ \/ fires], times,
                           IF fires THEN Append(window, "!") ELSE NoKey)

\* driverSignal: the slot after this frame, and the level it gives
SlotAdvanced(s, d, times, draw) ==
    IF d.type = "random" THEN JitterAdvanced(s, d, times, draw)
    ELSE IF d.type = "song" THEN PulseAdvanced(Counted(s), times, PulseKey(d, position, Counted(s).count))
    ELSE IF IsPulse(d) THEN PulseAdvanced(s, times, PulseKey(d, position, 0))
    ELSE FollowerAdvanced(s, times)

Level(s, d) == IF d.type = "random" \/ IsPulse(d) THEN s.level ELSE s.current

-------------------------------------------------------------------------------
(* Lanes *)

SlotOf(group, lane, n) == <<group, lane.id, n>>
StateOf(states, key) == IF key \in DOMAIN states THEN states[key] ELSE Fresh

\* The slots of one lane: its driver's and its modifiers'
LaneAdvanced(states, scoped, draws) ==
    LET drivers == Drivers(scoped.lane)
        mine == {SlotOf(scoped.group, scoped.lane, n - 1) : n \in DOMAIN drivers}
    IN  [k \in DOMAIN states \cup mine |->
            IF k \notin mine THEN states[k]
            ELSE SlotAdvanced(StateOf(states, k), drivers[k[3] + 1], scoped.lane.times,
                              IF k \in DOMAIN draws THEN draws[k] ELSE 0)]

\* What a lane's drivers add up to, the level of kMaxLaneSignal at most
Heard(states, scoped) ==
    LET drivers == Drivers(scoped.lane)
    IN  [n \in DOMAIN drivers |->
            Level(states[SlotOf(scoped.group, scoped.lane, n - 1)], drivers[n])]

SumOf(seq) == FoldLeft(LAMBDA t, x : t + x, 0, seq)
Signal(states, scoped) == Lesser(4 * Full, Greater(0, SumOf(Heard(states, scoped))))

\* The slots whose events a roll goes by
Drawn(before, after) == after

\* randomValueScale: drawn anew when the lane's own driver has fired
MainSlot(scoped) == SlotOf(scoped.group, scoped.lane, 0)
RollSlot(scoped) == SlotOf(scoped.group, scoped.lane, -1)

Rolled(kept, scoped, states, draws) ==
    LET k == MainSlot(scoped)
        key == StateOf(states, k).key
    IN  IF ~scoped.lane.randomValue \/ (k \in DOMAIN kept /\ kept[k].key = key) THEN kept
        ELSE [x \in DOMAIN kept \cup {k} |->
                IF x = k THEN [key |-> key, reach |-> draws[RollSlot(scoped)]] ELSE kept[x]]

Low(lane) == Greater(Lowest, Lesser(Highest, lane.low))
High(lane) == Greater(Low(lane), Greater(Lowest, Lesser(Highest, lane.high)))

Contribution(states, kept, scoped) ==
    LET lane == scoped.lane
        scale == IF lane.randomValue THEN kept[MainSlot(scoped)].reach ELSE Grain
    IN  [amount |-> (High(lane) - Low(lane)) * Signal(states, scoped) * scale,
         period |-> Period(lane.driver), low |-> Low(lane)]

\* One binding: its slots advance, its roll follows them, it contributes
Evaluated(e, scoped, draws) ==
    LET states == LaneAdvanced(e.slots, scoped, draws)
        kept == Rolled(e.rolls, scoped, Drawn(e.slots, states), draws)
    IN  [slots |-> states, rolls |-> kept,
         parts |-> Append(e.parts, Contribution(states, kept, scoped))]

-------------------------------------------------------------------------------
(* Combining the contributions to the effect *)

Sum(parts) == SumOf([n \in DOMAIN parts |-> parts[n].amount])

\* Mutant: of equal periods the first lane wins.
BeatsFirst(mode, p, best) ==
    IF mode = "strongest" THEN p.period > best.period ELSE p.period < best.period

Beats(mode, p, best) ==
    IF mode = "strongest" THEN p.period >= best.period ELSE p.period =< best.period

\* The lane that takes the effect, as a sequence of one, or none
Winner(mode, parts) ==
    FoldLeft(LAMBDA best, p :
                IF p.amount = 0 \/ (mode = "common" /\ p.period = 0) THEN best
                ELSE IF best = <<>> \/ Beats(mode, p, best[1]) THEN <<p>> ELSE best,
             <<>>, parts)

Resting(mode, parts) ==
    IF mode = "override" THEN Last(parts).low
    ELSE Max({parts[n].low : n \in DOMAIN parts})

Total(mode, parts) ==
    CASE mode = "override" -> Last(parts).amount
      [] mode \in {"strongest", "common"} ->
            IF Winner(mode, parts) # <<>> THEN Winner(mode, parts)[1].amount
            ELSE IF mode = "common" THEN Sum(parts) ELSE 0
      [] OTHER -> Sum(parts)

One == Full * Grain

Combined(mode, parts, static) ==
    IF parts = <<>> THEN static * One
    ELSE LET resting == Resting(mode, parts) * One
             ceiling == resting + 4 * (Highest - Lowest) * One
         IN  Greater(Lowest * One, Lesser(ceiling, resting + Total(mode, parts)))

-------------------------------------------------------------------------------
(* Frames and edits *)

LanesInit ==
    /\ ids \in IdLists /\ position = 0 /\ track = 0 /\ energy \in {0, Full}
    /\ slots = << >> /\ rolls = << >> /\ value = Default * One /\ due = TRUE

\* The next frame's position: on a little, more than a little, or as it was
\* while the track is paused.
Plays ==
    \E p \in position .. Lesser(position + 2, Length), e \in {0, Full} :
        position' = p /\ energy' = e /\ UNCHANGED <<ids, track>>

\* The listener goes back to the start
Rewinds == position' = 0 /\ UNCHANGED <<ids, track, energy>>

TrackChanges ==
    /\ track < Songs /\ track' = track + 1 /\ position' = 0
    /\ UNCHANGED <<ids, energy>>

\* Another entry is selected, or a group is edited; the slots stay
Edit ==
    /\ \E to \in IdLists : <<ids, to>> \in Edits /\ ids' = to
    /\ UNCHANGED <<position, track, energy>>

Frame ==
    /\ ~due /\ due' = TRUE /\ UNCHANGED <<slots, rolls, value>>
    /\ Plays \/ Rewinds \/ TrackChanges \/ Edit

\* What this frame may draw from: a value for each slot and each roll that does
DrawSlots == [list \in IdLists |->
    UNION {{SlotOf(s.group, s.lane, n - 1) : n \in
               {m \in DOMAIN Drivers(s.lane) : Drivers(s.lane)[m].type = "random"}}
           \cup (IF s.lane.randomValue THEN {RollSlot(s)} ELSE {}) : s \in Range(Lanes[list])}]

\* evaluateDriverLanes on the frame as it is
Evaluate ==
    /\ due /\ due' = FALSE
    /\ \E draws \in [DrawSlots[ids] -> 0 .. Grain] :
        LET result == FoldLeft(LAMBDA e, scoped : Evaluated(e, scoped, draws),
                               [slots |-> slots, rolls |-> rolls, parts |-> <<>>], Lanes[ids])
        IN  /\ slots' = result.slots /\ rolls' = result.rolls
            /\ value' = Combined(Mode(ids), result.parts, Static(ids))
    /\ UNCHANGED <<ids, position, track, energy>>

LanesNext == Frame \/ Evaluate

LanesSpec == LanesInit /\ [][LanesNext]_laneVars

-------------------------------------------------------------------------------
(* Properties *)

SlotOK(s) ==
    /\ s.level \in 0 .. Full /\ s.current \in 0 .. Full
    /\ s.phase \in {"idle", "attack", "hold", "release"}
    /\ s.phase = "idle" => s.level = 0
    /\ s.hold \in Int /\ s.count \in 0 .. Songs /\ s.fired \in BOOLEAN

LanesTypeOK ==
    /\ ids \in IdLists /\ position \in 0 .. Length /\ track \in 0 .. Songs
    /\ energy \in 0 .. Full /\ due \in BOOLEAN
    /\ \A k \in DOMAIN slots : SlotOK(slots[k])
    /\ \A k \in DOMAIN rolls : rolls[k].reach \in 0 .. Grain

\* A roll is always that of the lane's last event: no frame shows a new event
\* at the height drawn for the one before (parameter_drivers.cpp:332-345).
RollFollowsEvent ==
    ~due => \A s \in Range(Lanes[ids]) : s.lane.randomValue =>
                /\ MainSlot(s) \in DOMAIN rolls
                /\ rolls[MainSlot(s)].key = slots[MainSlot(s)].key

Counting == {d \in AllDrivers \cup {Cadence(d) : d \in AllDrivers} :
                d.type \in {"beat", "downbeat", "timer"}}

\* A jittered driver's window is the span between two firings of the pulse it
\* borrows: a new one begins exactly where that pulse has a new event
\* (parameter_drivers.cpp:90-93).
WindowsAreFirings ==
    \A d \in Counting : position > 0 =>
        (WindowIndex(d, position) # WindowIndex(d, position - 1)
         <=> PulseKey(d, position, 0) \notin {NoKey, PulseKey(d, position - 1, 0)})

\* The type invariant; that a roll follows its lane's events; that jitter keeps
\* to its window; and that lanes which overshoot together stay in the guard of
\* kOvershootRanges.
DriversInv ==
    /\ LanesTypeOK
    /\ RollFollowsEvent
    /\ WindowsAreFirings
    /\ ~due /\ Lanes[ids] # <<>> =>
            value \in Lowest * One .. (Highest + 4 * (Highest - Lowest)) * One

SlotsOf(s) == {SlotOf(s.group, s.lane, n - 1) : n \in DOMAIN Drivers(s.lane)}

\* Of the lanes in force, those that share their own driver's slot are one lane
\* (ids are not used twice); and no two share a slot (nor is a group selected
\* twice).  The code takes both for granted (engine.cpp:268-275, parameter_drivers.cpp:430-437).
Owned(lanes) ==
    \A m, n \in DOMAIN lanes : MainSlot(lanes[m]) = MainSlot(lanes[n]) => lanes[m] = lanes[n]
Apart(lanes) ==
    \A m, n \in DOMAIN lanes : m # n => SlotsOf(lanes[m]) \cap SlotsOf(lanes[n]) = {}

LanesOwned == \A list \in IdLists : Owned(Lanes[list])
LanesApart == \A list \in IdLists : Apart(Lanes[list])

\* The slots in force, each with the times of its binding
TimesOf == [list \in IdLists |->
    [k \in UNION {SlotsOf(s) : s \in Range(Lanes[list])} |->
        (CHOOSE s \in Range(Lanes[list]) : k \in SlotsOf(s)).lane.times]]

\* A new event is seen in its own frame: at full strength if there is no attack,
\* and otherwise nearer to it by a whole frame, from wherever the last envelope
\* was; not even an envelope of no length vanishes between two frames
\* (parameter_drivers.cpp:195-198).
TriggerPeaks ==
    [][due => \A k \in DOMAIN TimesOf[ids] :
         LET was == StateOf(slots, k)
             now == slots'[k]
             attack == TimesOf[ids][k].attack
         IN  now.key # was.key =>
               now.level = IF attack = 0 THEN Full ELSE Lesser(Full, was.level + Delta)]_laneVars

\* A follower moves toward its signal, never past it, and no faster than the
\* envelope of its binding lets it (parameter_drivers.cpp:228-250).
RateLimited ==
    [][due => \A k \in DOMAIN TimesOf[ids] :
         LET was == StateOf(slots, k).current
             now == slots'[k].current
             times == TimesOf[ids][k]
         IN  /\ now >= was => now = was \/ now =< energy
             /\ now =< was => now = was \/ now >= energy
             /\ times.attack > 0 => now =< was + Delta
             /\ times.release > 0 => now >= was - Delta]_laneVars

\* What the lanes have contributed to the value, recomputed from the slots
Contributed == [n \in DOMAIN Lanes[ids] |-> Contribution(slots, rolls, Lanes[ids][n])]

\* The one among those in "of" whose period ranks first, the last of equals
TakenBy(parts, of, ahead(_, _)) ==
    CHOOSE n \in of : \A m \in of :
        \/ ahead(parts[n].period, parts[m].period)
        \/ parts[n].period = parts[m].period /\ n >= m

\* What "result" has to be, given what the lanes contribute
Ranked(mode, parts, result) ==
    LET sounding == {n \in DOMAIN parts : parts[n].amount # 0}
        firing == {n \in sounding : parts[n].period > 0}
        floor == Max({parts[m].low : m \in DOMAIN parts} \cup {Lowest})
        is(low, n) == result = low * One + parts[n].amount
    IN  /\ mode = "override" /\ parts # <<>> => is(Last(parts).low, Len(parts))
        /\ mode = "strongest" /\ sounding # {} =>
                is(floor, TakenBy(parts, sounding, LAMBDA a, b : a > b))
        /\ mode = "common" /\ firing # {} =>
                is(floor, TakenBy(parts, firing, LAMBDA a, b : a < b))
        /\ mode \in {"strongest", "common"} /\ parts # <<>> /\ sounding = {} =>
                result = floor * One

\* Of the lanes that contribute in a frame the rarest takes the effect under
\* "strongest" and the commonest pulse under "common", the last one among
\* equals, and no level lane is taken for a pulse; an override brings its own
\* resting value (parameter_drivers.cpp:454-491).
LaneRanks == ~due => Ranked(Mode(ids), Contributed, value)
===============================================================================
