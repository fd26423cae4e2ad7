------------------------------ MODULE Simulation ------------------------------
(* One fixed step of the scene simulation (core/simulation.cpp): the input     *)
(* taken over (ingest), the scene rebuilt when its module changes (rebuild),   *)
(* the settings chased, the live part of a gated field sized                   *)
(* (applyFieldExtents), and on a beat the particles emitted and the ripples    *)
(* started (emitBeatParticles, enqueueRootEffects), which processEffects then  *)
(* delivers from cell to cell under a time budget.  The slots of the centre    *)
(* image and of the backdrop, also in ingest, are module Picture's.            *)
(*                                                                             *)
(* Positions, colours and energies are left out: nothing here depends on them. *)
(* A strength is the number of hops it lasts, an extent a number of Steps of   *)
(* the full extent, a travelling wave the number of steps it has left.         *)
EXTENDS Integers, FiniteSets, SequencesExt

CONSTANTS
    Modules,        \* what a configuration may name: key -> its scene and limits
    NoModule,
    Templates,      \* name -> the parts one instance has, in depth-first order
    Steps,          \* a setting is a number of Steps of its range
    Reaches,        \* hops after which a beat's strength is spent
    Lives,          \* steps a field wave may take to leave its field
    MaxHops,        \* 8
    MaxDeliveries,  \* 8192
    MaxWaves,       \* 16
    MaxEmitters,    \* 256
    Fallback        \* 768, the ring of a scene that draws nothing

ASSUME BoundsAssumption ==
    /\ NoModule \notin DOMAIN Modules
    /\ {Steps, MaxHops, MaxDeliveries, MaxWaves, MaxEmitters, Fallback} \subseteq Nat \ {0}
    /\ Reaches \cup Lives \subseteq Nat

\* What a module declares is clamped or checked as it is read (core/module.cpp),
\* so that every limit and every size is at least 1.
Positive == Nat \ {0}
Emissions == [template : STRING, burst : Positive, maximum : Positive]
Parts == [renders : BOOLEAN, emits : Seq(Emissions)]    \* emits: one or none
Topologies == {"none", "nearest", "radius", "grid"}     \* any other is a grid
Items ==
    [kind : {"entity"}, template : DOMAIN Templates]
    \cup [kind : {"field"}, columns : Positive, rows : Positive, depth : Positive,
          topology : Topologies, extentX : BOOLEAN, extentY : BOOLEAN, wave : BOOLEAN]

ASSUME ModulesAssumption ==
    /\ \A t \in DOMAIN Templates : Templates[t] \in Seq(Parts)
    /\ \A m \in DOMAIN Modules :
            Modules[m] \in [room : Positive, particles : Positive, scene : Seq(Items)]

NoBeat == -1    \* any index no signal has; lastBeatIndex_ starts with the least of all
NoEmitter == <<>>

VARIABLES
    module,     \* moduleKey_, or NoModule
    setting,    \* settings_[extent], what the field is sized by now
    target,     \* targetSettings_[extent]
    driven,     \* whether driverInterpolatedSettings_ has it
    fields,     \* fields_, with begin and end as in the code: [begin, end)
    dead,       \* the indices whose entityLive_ is 0
    entities,   \* entities_.size()
    emitters,   \* emitters_
    waves,      \* fieldWaves_
    lastBeat,   \* lastBeatIndex_
    reach,      \* the strength of the beat under way
    queue,      \* effectQueue_ from its cursor on
    reached,    \* visitedTokens_ of the beat under way: index -> hop it came with
    phase       \* "idle" between steps, "effects" inside processEffects

scene == <<module, fields, entities, emitters>>
vars == <<module, setting, target, driven, fields, dead, entities, emitters, waves,
          lastBeat, reach, queue, reached, phase>>

Least(a, b) == IF a < b THEN a ELSE b
Most(a, b) == IF a > b THEN a ELSE b

\* The elements that are in a set, in their order
Kept(seq, of) == FoldLeft(LAMBDA to, e : IF e \in of THEN Append(to, e) ELSE to, <<>>, seq)

-------------------------------------------------------------------------------
(* Building a scene *)

\* One part of a template: instantiateEntity gives up when the particles are
\* at their limit, and may pass it over no emitter once 256 exist.
Part(particles, scn, part) ==
    IF scn.entities >= particles THEN scn
    ELSE [scn EXCEPT
            !.entities = IF part.renders THEN @ + 1 ELSE @,
            !.emitters = IF part.emits # NoEmitter /\ Len(@) < MaxEmitters
                         THEN Append(@, [template |-> part.emits[1].template,
                                         burst    |-> part.emits[1].burst,
                                         maximum  |-> Least(part.emits[1].maximum, particles),
                                         emitted  |-> 0])
                         ELSE @]

Instantiate(particles, scn, template) ==
    FoldLeft(LAMBDA s, part : Part(particles, s, part), scn, Templates[template])

Field(item, begin, count) ==
    [begin |-> begin, end |-> begin + count,
     columns |-> item.columns, rows |-> item.rows, depth |-> item.depth,
     topology |-> item.topology, extentX |-> item.extentX, extentY |-> item.extentY,
     wave |-> item.wave,
     liveColumns |-> item.columns, liveRows |-> item.rows, columnBegin |-> 0, rowBegin |-> 0]

\* A field of layout "grid" takes the room that is left; the scene ends at the
\* first that finds none.
Place(m, scn, item) ==
    IF scn.full THEN scn
    ELSE IF item.kind = "entity" THEN Instantiate(m.particles, scn, item.template)
    ELSE LET count == Least(item.columns * item.rows * item.depth, m.room - scn.entities)
         IN  IF count <= 0 THEN [scn EXCEPT !.full = TRUE]
             ELSE [scn EXCEPT !.entities = @ + count,
                              !.fields = Append(@, Field(item, scn.entities, count))]

FallbackItem(n) ==
    [columns |-> n, rows |-> 1, depth |-> 1, topology |-> "nearest",
     extentX |-> FALSE, extentY |-> FALSE, wave |-> FALSE]

EmptyScene == [entities |-> 0, fields |-> <<>>, emitters |-> <<>>, full |-> FALSE]

\* rebuild
Built(m) ==
    IF m = NoModule THEN EmptyScene
    ELSE LET scn == FoldLeft(LAMBDA s, item : Place(Modules[m], s, item), EmptyScene,
                             Modules[m].scene)
             n == Least(Fallback, Modules[m].room)
         IN  IF scn.entities > 0 THEN scn
             ELSE [scn EXCEPT !.entities = n, !.fields = <<Field(FallbackItem(n), 0, n)>>]

-------------------------------------------------------------------------------
(* The live part of a gated field *)

Gated(field) == field.extentX \/ field.extentY

\* lround(k / Steps * n), halves away from zero
Rounded(k, n) == (2 * k * n + Steps) \div (2 * Steps)

\* Mutant: the live count keeps its own parity.
LiveCountUnsnapped(k, allocated) == Least(allocated, Rounded(k, allocated - 1) + 1)

\* liveCount: snapped to the parity of what is allocated, so that it stays centred
LiveCount(k, allocated) ==
    LET desired == Rounded(k, allocated - 1) + 1
        margin == Most(0, (allocated - Least(desired, allocated)) \div 2)
    IN  Most(1, allocated - 2 * margin)

Sized(field, k) ==
    LET liveColumns == IF field.extentX THEN LiveCount(k, field.columns) ELSE field.columns
        liveRows == IF field.extentY THEN LiveCount(k, field.rows) ELSE field.rows
    IN  [field EXCEPT !.liveColumns = liveColumns, !.liveRows = liveRows,
                      !.columnBegin = (field.columns - liveColumns) \div 2,
                      !.rowBegin = (field.rows - liveRows) \div 2]

XOf(field, index) == (index - field.begin) % field.columns
YOf(field, index) == ((index - field.begin) \div field.columns) % field.rows
ZOf(field, index) == (index - field.begin) \div (field.columns * field.rows)

CellIsLive(field, x, y) ==
    \/ ~Gated(field)
    \/ /\ x \in field.columnBegin .. field.columnBegin + field.liveColumns - 1
       /\ y \in field.rowBegin .. field.rowBegin + field.liveRows - 1

Cells(field) == field.begin .. field.end - 1
DeadCells(field) == {i \in Cells(field) : ~CellIsLive(field, XOf(field, i), YOf(field, i))}

\* applyFieldExtents
FieldsSized(fs, k) == [f \in DOMAIN fs |-> IF Gated(fs[f]) THEN Sized(fs[f], k) ELSE fs[f]]
AllDead(fs) == UNION {DeadCells(fs[f]) : f \in DOMAIN fs}

-------------------------------------------------------------------------------
(* A beat *)

Burst(particles, scn, i) ==
    LET e == scn.emitters[i]
        count == Least(e.burst, Most(0, Least(e.maximum - e.emitted, particles - scn.entities)))
    IN  IF count = 0 \/ e.template \notin DOMAIN Templates THEN scn
        ELSE [FoldLeft(LAMBDA s, n : Instantiate(particles, s, e.template), scn,
                       [n \in 1 .. count |-> n])
              EXCEPT !.emitters[i].emitted = @ + count]

\* emitBeatParticles: the emitters it found, not those they bring in
Emitted(m, scn) ==
    FoldLeft(LAMBDA s, i : Burst(Modules[m].particles, s, i), scn, [i \in DOMAIN scn.emitters |-> i])

Root(field) == field.begin + (field.end - field.begin) \div 2

\* enqueueRootEffects, for the fields an effect is passed through cell by cell
Roots(fs) ==
    LET rooted == Kept(fs, {f \in Range(fs) : ~f.wave})
    IN  [n \in DOMAIN rooted |-> [receiver |-> Root(rooted[n]), hop |-> 0]]

\* enqueueRootEffects, for the fields a wave crosses: the oldest make room
Started(ws, fs, life) ==
    FoldLeft(LAMBDA w, f :
                IF ~fs[f].wave THEN w
                ELSE LET all == Append(w, [field |-> f, left |-> life])
                     IN  SubSeq(all, Most(1, Len(all) - MaxWaves + 1), Len(all)),
             ws, [f \in DOMAIN fs |-> f])

\* advanceFieldWaves: a wave is removed once it has left its field
Advanced(ws) ==
    LET moved == [w \in DOMAIN ws |-> [ws[w] EXCEPT !.left = @ - 1]]
    IN  Kept(moved, {w \in Range(moved) : w.left > 0})

-------------------------------------------------------------------------------
(* One step *)

Init ==
    /\ module = NoModule /\ fields = <<>> /\ entities = 0 /\ emitters = <<>>
    /\ setting = Steps /\ target = Steps /\ driven = FALSE
    /\ dead = {} /\ waves = <<>> /\ lastBeat = NoBeat /\ reach = 0
    /\ queue = <<>> /\ reached = << >> /\ phase = "idle"

\* Mutant: a driven setting is only applied when its target has changed.
IngestedOnChange(to, isDriven) == IF isDriven /\ to # target THEN to ELSE setting

\* What ingest makes of the settings when the scene is not rebuilt
Ingested(to, isDriven) == IF isDriven THEN to ELSE setting

\* advanceConfiguration's chase: part of the way to the target, or all of it
Between(a, b) == Least(a, b) .. Most(a, b)
Chased(from, to, isDriven, paused) ==
    IF paused \/ isDriven THEN {from} ELSE Between(from, to)

\* Steps 1 to 3 of a step, up to processEffects.  A step without a new input
\* is one whose input is the last one again.
Tick(m, reload, to, isDriven, paused, beat, strength, life) ==
    LET rebuilt == m # module \/ reload
        scn == IF rebuilt THEN Built(m)
               ELSE [entities |-> entities, fields |-> fields, emitters |-> emitters,
                     full |-> FALSE]
        from == IF rebuilt THEN to ELSE Ingested(to, isDriven)
        beats == m # NoModule /\ beat # (IF rebuilt THEN NoBeat ELSE lastBeat)
        emitted == IF beats THEN Emitted(m, scn) ELSE scn
    IN  /\ phase = "idle"
        /\ module' = m /\ target' = to /\ driven' = isDriven
        /\ IF m = NoModule THEN setting' = from
                           ELSE setting' \in Chased(from, to, isDriven, paused)
        /\ fields' = FieldsSized(scn.fields, setting')
        /\ dead' = AllDead(fields')
        /\ entities' = emitted.entities /\ emitters' = emitted.emitters
        /\ lastBeat' = IF beats THEN beat ELSE IF rebuilt THEN NoBeat ELSE lastBeat
        /\ waves' = LET kept == IF rebuilt THEN <<>> ELSE waves
                    IN  Advanced(IF beats THEN Started(kept, fields', life) ELSE kept)
        /\ queue' = IF beats THEN Roots(fields') ELSE <<>>
        /\ reach' = IF beats THEN strength ELSE 0
        /\ reached' = << >>
        /\ phase' = IF m = NoModule THEN "idle" ELSE "effects"

\* neighbours
OnRing(field) == field.topology \in {"nearest", "radius"} \/ field.rows = 1

RingNeighbours(field, i) ==
    << IF i > field.begin THEN i - 1 ELSE field.end - 1,
       IF i + 1 < field.end THEN i + 1 ELSE field.begin >>

LatticeNeighbours(field, i) ==
    LET x == XOf(field, i)
        y == YOf(field, i)
        z == ZOf(field, i)
        at(n) == field.begin + n[3] * field.columns * field.rows + n[2] * field.columns + n[1]
        inside(n) == /\ n[1] \in 0 .. field.columns - 1
                     /\ n[2] \in 0 .. field.rows - 1
                     /\ n[3] \in 0 .. field.depth - 1
                     /\ CellIsLive(field, n[1], n[2])
                     /\ at(n) \in Cells(field)
        around == << <<x - 1, y, z>>, <<x + 1, y, z>>, <<x, y - 1, z>>, <<x, y + 1, z>>,
                     <<x, y, z - 1>>, <<x, y, z + 1>> >>
        kept == Kept(around, {n \in Range(around) : inside(n)})
    IN  IF i \in dead THEN <<>> ELSE [n \in DOMAIN kept |-> at(kept[n])]

FieldOf(i) == {f \in DOMAIN fields : i \in Cells(fields[f])}

Neighbours(i) ==
    IF FieldOf(i) = {} THEN <<>>
    ELSE LET field == fields[CHOOSE f \in FieldOf(i) : TRUE]
         IN  CASE field.topology = "none" -> <<>>
               [] field.topology # "none" /\ OnRing(field) -> RingNeighbours(field, i)
               [] OTHER -> LatticeNeighbours(field, i)

\* What a delivery that has just energised its receiver passes on
Passed(d) ==
    IF d.hop >= MaxHops \/ d.hop >= reach THEN <<>>
    ELSE LET to == Neighbours(d.receiver)
         IN  [n \in DOMAIN to |-> [receiver |-> to[n], hop |-> d.hop + 1]]

\* Mutant: what is passed on goes before what waits.
DeliverDeepFirst ==
    /\ phase = "effects" /\ queue # <<>>
    /\ Cardinality(DOMAIN reached) < MaxDeliveries
    /\ LET d == Head(queue) IN
        IF d.receiver \in DOMAIN reached
        THEN queue' = Tail(queue) /\ UNCHANGED reached
        ELSE /\ reached' = [i \in DOMAIN reached \cup {d.receiver} |->
                              IF i = d.receiver THEN d.hop ELSE reached[i]]
             /\ queue' = Passed(d) \o Tail(queue)
    /\ UNCHANGED <<scene, setting, target, driven, dead, waves, lastBeat, reach, phase>>

\* One turn of processEffects' loop
Deliver ==
    /\ phase = "effects" /\ queue # <<>>
    /\ Cardinality(DOMAIN reached) < MaxDeliveries
    /\ LET d == Head(queue) IN
        IF d.receiver \in DOMAIN reached
        THEN queue' = Tail(queue) /\ UNCHANGED reached
        ELSE /\ reached' = [i \in DOMAIN reached \cup {d.receiver} |->
                              IF i = d.receiver THEN d.hop ELSE reached[i]]
             /\ queue' = Tail(queue) \o Passed(d)
    /\ UNCHANGED <<scene, setting, target, driven, dead, waves, lastBeat, reach, phase>>

\* The queue is empty, the deliveries are at their limit or the 4 ms have
\* passed, which may be before any turn: what is left is dropped.
StepEnds ==
    /\ phase = "effects"
    /\ queue' = <<>> /\ reached' = << >> /\ reach' = 0 /\ phase' = "idle"
    /\ UNCHANGED <<scene, setting, target, driven, dead, waves, lastBeat>>

\* A new generation tells only of the module that is already there
Ticks ==
    \E m \in DOMAIN Modules \cup {NoModule}, reload, isDriven, paused \in BOOLEAN, to \in 0 .. Steps,
       beat \in 0 .. 1, strength \in Reaches, life \in Lives :
        /\ reload => m = module
        /\ Tick(m, reload, to, isDriven, paused, beat, strength, life)

Next == Ticks \/ Deliver \/ StepEnds

Spec == Init /\ [][Next]_vars

-------------------------------------------------------------------------------
(* Properties *)

FieldsOK ==
    \A f \in DOMAIN fields :
        /\ fields[f].begin \in Nat /\ fields[f].end \in fields[f].begin + 1 .. entities
        /\ fields[f].end - fields[f].begin =< fields[f].columns * fields[f].rows * fields[f].depth
        /\ f > 1 => fields[f].begin >= fields[f - 1].end

TypeOK ==
    /\ module \in DOMAIN Modules \cup {NoModule}
    /\ setting \in 0 .. Steps /\ target \in 0 .. Steps /\ driven \in BOOLEAN
    /\ FieldsOK
    /\ dead \subseteq 0 .. entities - 1 /\ entities \in Nat
    /\ lastBeat \in 0 .. 1 \cup {NoBeat} /\ reach \in Reaches \cup {0}
    /\ \A d \in Range(queue) : d.receiver \in 0 .. entities - 1 /\ d.hop \in 0 .. MaxHops
    /\ DOMAIN reached \subseteq 0 .. entities - 1
    /\ phase \in {"idle", "effects"}
    /\ phase = "idle" => queue = <<>> /\ reached = << >>

CellCount == LET ends == {fields[f].end : f \in DOMAIN fields} IN Max(ends \cup {0})

\* What is bounded stays bounded: entities by the particles a module may have
\* (or by its fields, which have a limit of their own), an emitter by its
\* maximum, and emitters, waves and deliveries by their caps; and no wave is
\* left over from a field of an earlier scene.
WithinLimits ==
    /\ module # NoModule => entities =< Most(Modules[module].particles, CellCount)
    /\ Len(emitters) =< MaxEmitters
    /\ \A e \in Range(emitters) : e.emitted =< e.maximum
    /\ Len(waves) =< MaxWaves
    /\ \A w \in Range(waves) : w.field \in DOMAIN fields /\ fields[w.field].wave
    /\ Cardinality(DOMAIN reached) =< MaxDeliveries

Mirrored(f, x, y) ==
    CellIsLive(f, x, y) <=> CellIsLive(f, f.columns - 1 - x, f.rows - 1 - y)

\* The live part of a field sits in the middle of it, is never empty, is all of
\* it at full extent, and has at most one column and one row more than the
\* extent asks for (simulation.cpp:879-898): a driver that sweeps the extent
\* never moves the lattice sideways.
ExtentCentred ==
    \A f \in {fields[n] : n \in DOMAIN fields} : Gated(f) =>
        /\ \A x \in 0 .. f.columns - 1, y \in 0 .. f.rows - 1 : Mirrored(f, x, y)
        /\ f.liveColumns > 0 /\ f.liveRows > 0
        /\ setting = Steps => DeadCells(f) = {}
        /\ f.extentX => f.liveColumns - 1 - Rounded(setting, f.columns - 1) \in {0, 1}
        /\ f.extentY => f.liveRows - 1 - Rounded(setting, f.rows - 1) \in {0, 1}

\* The type invariant, every limit of the simulation (simulation.cpp:550, :560,
\* :922, :1035 and :1124 each keep one of them) and the extents.
SimulationInv == TypeOK /\ WithinLimits /\ ExtentCentred

Distance(a, b) == IF a < b THEN b - a ELSE a - b

\* How far a cell lies from the root of its field, along the ring or the lattice
Far(f, i) ==
    LET r == Root(f)
        n == f.end - f.begin
    IN  IF OnRing(f) THEN Least(Distance(r, i), n - Distance(r, i))
        ELSE Distance(XOf(f, r), XOf(f, i)) + Distance(YOf(f, r), YOf(f, i))
               + Distance(ZOf(f, r), ZOf(f, i))

\* The cells a ripple is to reach.  A dead root is energised all the same and
\* passes nothing on; on a ring the dead are not told from the living.
Ball(f) ==
    IF f.wave THEN {}
    ELSE {Root(f)} \cup
         IF f.topology = "none" \/ (~OnRing(f) /\ Root(f) \in dead) THEN {}
         ELSE {i \in Cells(f) : /\ Far(f, i) =< Least(MaxHops, reach)
                                /\ OnRing(f) \/ i \notin dead}

\* A ripple reaches the cells of its ball and no other, each with the hop that
\* is its distance from the root: all of them if nothing had to be dropped, and
\* wherever the budget or the cap stops the deliveries, nothing that was reached
\* is farther from its root than what was not (simulation.cpp:1121-1203).
RippleIsBall ==
    /\ \A i \in DOMAIN reached : \E f \in DOMAIN fields :
            i \in Ball(fields[f]) /\ reached[i] = Far(fields[f], i)
    /\ DOMAIN reached # {} /\ queue = <<>> =>
            DOMAIN reached = UNION {Ball(fields[f]) : f \in DOMAIN fields}
    /\ \A i \in DOMAIN reached, f \in DOMAIN fields :
            \A j \in Ball(fields[f]) \ DOMAIN reached : Far(fields[f], j) >= reached[i]

\* A setting that a driver moves has its value at once, whether the rotation is
\* paused and however it stood while it was still being chased
\* (simulation.cpp:77-89 and :280).
DrivenIsNow == driven => setting = target

===============================================================================
