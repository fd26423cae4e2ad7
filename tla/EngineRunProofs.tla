-------------------------- MODULE EngineRunProofs --------------------------
(***************************************************************************)
(* The life of the process and the lights it drives, proved for every      *)
(* lease, pause and number of sessions, toggles and losses, and with or    *)
(* without the SRT rung.                                                   *)
(***************************************************************************)
EXTENDS EngineRun, FiniteSetTheorems, TLAPS

(* The only facts about cardinalities that are needed.                     *)
LEMMA Counts ==
  ASSUME NEW S \in SUBSET Sessions, NEW T \in SUBSET S, NEW s
  PROVE  /\ Cardinality(S) \in Nat /\ Cardinality(T) \in Nat
         /\ Cardinality(T) <= Cardinality(S)
         /\ S \subseteq T \cup {s} => Cardinality(S) <= Cardinality(T) + 1
<1>1. IsFiniteSet(Sessions)
  BY ParameterAssumption, FS_Interval DEF Sessions
<1>2. IsFiniteSet(S) /\ IsFiniteSet(T)
  BY <1>1, FS_Subset
<1>3. /\ Cardinality(S) \in Nat /\ Cardinality(T) \in Nat
      /\ Cardinality(T) <= Cardinality(S)
  BY <1>2, FS_CardinalityType, FS_Subset
<1>4. ASSUME S \subseteq T \cup {s}
      PROVE  Cardinality(S) <= Cardinality(T) + 1
  <2>1. IsFiniteSet(T \cup {s}) /\ Cardinality(T \cup {s}) \in {Cardinality(T), Cardinality(T) + 1}
    BY <1>2, <1>3, FS_AddElement
  <2>2. Cardinality(S) <= Cardinality(T \cup {s})
    BY <1>4, <2>1, FS_Subset
  <2>3. QED
    BY <1>3, <2>1, <2>2
<1>5. QED
  BY <1>3, <1>4

-----------------------------------------------------------------------------
(* The lighting producer.                                                  *)

(* The session the thread is driving.                                      *)
Driven == IF active THEN {id} ELSE {}

(* The thread asks for a session only while it has none.                   *)
Begins == pc = "begin" => ~active

Identified == active => id \in Sessions

(* Every other open session was left behind by a request that was lost; the
   one a dying process was driving is left behind as well.                 *)
Orphans ==
  /\ Cardinality(Open \ Driven) <= losses \/ (stops /\ pc = "stopped")
  /\ Cardinality(Open) <= 1 + losses

HInv == TypeOK /\ Begins /\ Identified /\ Orphans

LEMMA Limits ==
  /\ Lease \in Nat /\ Lease >= 2 /\ Pause \in Nat /\ MaxSessions \in Nat
  /\ MaxToggles \in Nat /\ MaxLosses \in Nat
BY ParameterAssumption

(* The types, kind by kind and action by action.                           *)
Flags ==
  /\ enabled \in BOOLEAN /\ running \in BOOLEAN /\ active \in BOOLEAN /\ stops \in BOOLEAN
  /\ pc \in {"loop", "begin", "end", "frame", "sleep", "joined", "last", "stopped"}

Numbers ==
  /\ pause \in 0..Pause
  /\ id \in 0..MaxSessions
  /\ granted \in 0..MaxSessions
  /\ toggles \in 0..MaxToggles /\ losses \in 0..MaxLosses

Leases == lease \in [Sessions -> 0..Lease]

LEMMA HouseKinds == TypeOK <=> Flags /\ Numbers /\ Leases
BY DEF TypeOK, Flags, Numbers, Leases

LEMMA HouseTypes == TypeOK /\ [Next]_vars => TypeOK'
<1> SUFFICES ASSUME Flags, Numbers, Leases, [Next]_vars PROVE Flags' /\ Numbers' /\ Leases'
  BY HouseKinds, PTL
<1> USE DEF Next, Environment, Producer, Start, SetEnabled, StopCalled, Dies, Forgets, LoopEnds,
       Loop, BeginSucceeds, BeginFails, Grants, LoopEnd, StopEnds, Ends, FrameAccepted,
       FrameRejected, FrameLost, Sleep, Joined, Lapse, Keep, Goto, vars
<1>1. Flags'
  BY DEF Flags
<1>2. Numbers'
  BY Limits DEF Numbers
<1>3. Leases'
  <2>1. CASE UNCHANGED lease
    BY <2>1 DEF Leases
  <2>2. CASE Forgets
    BY <2>2, Limits DEF Leases
  <2>3. CASE Sleep \/ Lapse
    BY <2>3, Limits DEF Leases
  <2>4. CASE LoopEnd \/ StopEnds
    BY <2>4, Limits DEF Leases
  <2>5. CASE BeginSucceeds \/ BeginFails \/ FrameAccepted \/ FrameLost
    BY <2>5, Limits DEF Leases
  <2>6. QED
    BY <2>1, <2>2, <2>3, <2>4, <2>5
<1>4. QED
  BY <1>1, <1>2, <1>3

LEMMA HouseInit == Init => HInv
<1> SUFFICES ASSUME Init PROVE HInv
  OBVIOUS
<1>1. Open = {}
  BY DEF Init, Open
<1>2. Cardinality(Open \ Driven) = 0 /\ Cardinality(Open) = 0
  BY <1>1, FS_EmptySet
<1>3. Flags
  BY DEF Init, Flags
<1>4. Leases /\ Numbers
  <2>1. 0 \in 0..Lease
    BY Limits
  <2>2. QED
    BY <2>1, Limits DEF Init, Leases, Numbers
<1>5. Begins /\ Identified
  BY DEF Init, Begins, Identified
<1>6. Orphans
  BY <1>2 DEF Init, Orphans
<1>7. QED
  BY <1>3, <1>4, <1>5, <1>6, HouseKinds DEF HInv

(* One session more at most is left behind, and then a request was lost.   *)
LEMMA LeavesBehind ==
  ASSUME NEW D \in SUBSET Sessions, NEW after \in SUBSET Sessions, NEW m \in Nat, NEW n \in Nat,
         Cardinality(D) <= m,
         \/ after \subseteq D /\ n >= m
         \/ (\E s : after \subseteq D \cup {s}) /\ n = m + 1,
         NEW open \in SUBSET Sessions, NEW d, open \subseteq after \cup {d}
  PROVE  Cardinality(after) <= n /\ Cardinality(open) <= 1 + n
<1>1. /\ Cardinality(D) \in Nat /\ Cardinality(after) \in Nat /\ Cardinality(open) \in Nat
      /\ Cardinality(D \cap after) \in Nat /\ Cardinality(open \cap after) \in Nat
      /\ Cardinality(D \cap after) <= Cardinality(D)
      /\ Cardinality(open \cap after) <= Cardinality(after)
  BY Counts
<1>2. Cardinality(after) <= n
  <2>1. CASE after \subseteq D /\ n >= m
    BY <1>1, <2>1, Counts
  <2>2. CASE (\E s : after \subseteq D \cup {s}) /\ n = m + 1
    <3>1. PICK s : after \subseteq D \cup {s}
      BY <2>2
    <3>2. D \cap after \in SUBSET after /\ after \subseteq (D \cap after) \cup {s}
      BY <3>1
    <3>3. Cardinality(after) <= Cardinality(D \cap after) + 1
      BY <3>2, Counts
    <3>4. QED
      BY <1>1, <2>2, <3>3
  <2>3. QED
    BY <2>1, <2>2
<1>3. Cardinality(open) <= Cardinality(open \cap after) + 1
  <2>1. open \cap after \in SUBSET open /\ open \subseteq (open \cap after) \cup {d}
    OBVIOUS
  <2>2. QED
    BY <2>1, Counts
<1>4. QED
  BY <1>1, <1>2, <1>3

(* Each step of the thread leaves nothing behind but what a loss excuses.  *)
LEMMA ProducerOrphans ==
  ASSUME HInv, Producer, TypeOK'
  PROVE  Orphans'
<1> DEFINE D == Open \ Driven
<1>1. /\ D \in SUBSET Sessions /\ D' \in SUBSET Sessions /\ Open' \in SUBSET Sessions
      /\ losses \in Nat /\ losses' \in Nat
      /\ Open' \subseteq D' \cup {id'}
  BY Limits DEF HInv, TypeOK, Open, Driven
<1>2. pc # "stopped"
  BY DEF Producer, LoopEnds, Loop, BeginSucceeds, BeginFails, LoopEnd, StopEnds, Ends,
     FrameAccepted, FrameRejected, FrameLost, Sleep, Joined
<1>3. Cardinality(D) <= losses
  BY <1>2 DEF HInv, Orphans
<1>4. \/ D' \subseteq D /\ losses' >= losses
      \/ (\E s : D' \subseteq D \cup {s}) /\ losses' = losses + 1
  <2> USE DEF Open, Driven, Keep, Goto
  <2>1. CASE LoopEnds \/ Loop \/ Joined
    BY <1>1, <2>1 DEF LoopEnds, Loop, Joined
  <2>2. CASE FrameRejected
    BY <1>1, <2>2 DEF FrameRejected
  <2>3. CASE FrameAccepted
    <3>1. Open' = Open
      BY <2>3, Limits DEF FrameAccepted, HInv, TypeOK
    <3>2. QED
      BY <1>1, <2>3, <3>1 DEF FrameAccepted
  <2>4. CASE FrameLost
    <3>1. Open' = Open
      BY <2>4, Limits DEF FrameLost, HInv, TypeOK
    <3>2. D' \subseteq D \cup {id}
      BY <2>4, <3>1 DEF FrameLost
    <3>3. QED
      BY <2>4, <3>2 DEF FrameLost
  <2>5. CASE LoopEnd \/ StopEnds
    <3>1. /\ active' = FALSE
          /\ \/ lease' = [s \in Sessions |-> IF s = id THEN 0 ELSE lease[s]] /\ losses' = losses
             \/ losses' = losses + 1 /\ lease' = lease
      BY <2>5 DEF LoopEnd, StopEnds, Ends
    <3>2. CASE losses' = losses + 1 /\ lease' = lease
      <4>1. D' \subseteq D \cup {id}
        BY <3>1, <3>2
      <4>2. QED
        BY <3>2, <4>1
    <3>3. CASE lease' = [s \in Sessions |-> IF s = id THEN 0 ELSE lease[s]] /\ losses' = losses
      <4>1. D' \subseteq D
        BY <3>1, <3>3
      <4>2. QED
        BY <1>1, <3>3, <4>1
    <3>4. QED
      BY <3>1, <3>2, <3>3
  <2>6. CASE Sleep
    <3>1. Open' \subseteq Open
      BY <2>6 DEF Sleep
    <3>2. QED
      BY <1>1, <2>6, <3>1 DEF Sleep
  <2>7. CASE BeginSucceeds
    <3>1. /\ ~active /\ active' /\ id' = granted + 1 /\ losses' = losses
          /\ lease' = [lease EXCEPT ![granted + 1] = Lease]
      BY <2>7 DEF BeginSucceeds, Grants, HInv, Begins
    <3>2. Open' \subseteq Open \cup {id'}
      BY <3>1 DEF HInv, TypeOK
    <3>3. QED
      BY <1>1, <3>1, <3>2
  <2>8. CASE BeginFails
    <3>1. /\ ~active /\ ~active' /\ losses' = losses + 1
          /\ lease' = [lease EXCEPT ![granted + 1] = Lease] \/ lease' = lease
      BY <2>8 DEF BeginFails, Grants, HInv, Begins
    <3>2. Open' \subseteq Open \cup {granted + 1}
      BY <3>1 DEF HInv, TypeOK
    <3>3. D' \subseteq D \cup {granted + 1}
      BY <3>1, <3>2
    <3>4. QED
      BY <3>1, <3>3
  <2>9. QED
    BY <2>1, <2>2, <2>3, <2>4, <2>5, <2>6, <2>7, <2>8 DEF Producer
<1> HIDE DEF D
<1>5. Cardinality(D') <= losses' /\ Cardinality(Open') <= 1 + losses'
  BY <1>1, <1>3, <1>4, LeavesBehind
<1>6. QED
  BY <1>5 DEF Orphans, D

(* So do the engine and the dashboard.                                     *)
LEMMA OthersOrphans ==
  ASSUME HInv, Environment \/ Lapse \/ UNCHANGED vars, TypeOK'
  PROVE  Orphans'
<1>1. /\ Open \in SUBSET Sessions /\ Open' \subseteq Open /\ losses' >= losses
      /\ losses \in Nat /\ losses' \in Nat
  BY Limits DEF HInv, TypeOK, Open, Environment, Start, SetEnabled, StopCalled, Dies,
     Forgets, Lapse, Keep, vars
<1>2. /\ Cardinality(Open') \in Nat /\ Cardinality(Open) \in Nat
      /\ Cardinality(Open') <= Cardinality(Open)
  BY <1>1, Counts
<1>3. Cardinality(Open') <= 1 + losses'
  BY <1>1, <1>2 DEF HInv, Orphans
<1>4. CASE stops' /\ pc' = "stopped"
  BY <1>3, <1>4 DEF Orphans
<1>5. CASE ~(stops' /\ pc' = "stopped")
  <2>1. ~(stops /\ pc = "stopped") /\ UNCHANGED <<active, id>>
    BY <1>5 DEF Environment, Start, SetEnabled, StopCalled, Dies, Forgets, Lapse, Keep, vars
  <2>2. Open' \ Driven' \in SUBSET (Open \ Driven) /\ Open \ Driven \in SUBSET Sessions
    BY <1>1, <2>1 DEF Driven
  <2>3. /\ Cardinality(Open' \ Driven') \in Nat /\ Cardinality(Open \ Driven) \in Nat
        /\ Cardinality(Open' \ Driven') <= Cardinality(Open \ Driven)
    BY <2>2, Counts
  <2>4. Cardinality(Open \ Driven) <= losses
    BY <2>1 DEF HInv, Orphans
  <2>5. QED
    BY <1>1, <1>3, <2>3, <2>4 DEF Orphans
<1>6. QED
  BY <1>4, <1>5

LEMMA HouseNext == HInv /\ [Next]_vars => HInv'
<1> SUFFICES ASSUME HInv, [Next]_vars PROVE HInv'
  OBVIOUS
<1>1. TypeOK'
  BY HouseTypes DEF HInv
<1>2. Orphans'
  BY <1>1, ProducerOrphans, OthersOrphans DEF Next
<1>3. Begins' /\ Identified'
  BY Limits DEF HInv, TypeOK, Begins, Identified, Next, Environment, Producer, Start,
     SetEnabled, StopCalled, Dies, Forgets, LoopEnds, Loop, BeginSucceeds, BeginFails,
     Grants, LoopEnd, StopEnds, Ends, FrameAccepted, FrameRejected, FrameLost, Sleep,
     Joined, Lapse, Keep, Goto, vars, Sessions
<1>4. QED
  BY <1>1, <1>2, <1>3 DEF HInv

(* As long as nothing was lost, the session driven is the only one open, and
   it is renewed before its lease is up: every turn has one sleep.         *)
Clean ==
  losses = 0 =>
    /\ pause = 0
    /\ Open = Driven
    /\ active => lease[id] > 0 /\ (pc = "sleep" => lease[id] > 1)
    /\ pc = "stopped" => ~active

LEMMA CleanProducer ==
  ASSUME HInv, Clean, Producer, losses' = 0
  PROVE  Clean'
<1>1. /\ lease \in [Sessions -> 0..Lease] /\ losses \in Nat /\ losses' \in Nat
      /\ active \in BOOLEAN /\ pause \in Nat
  BY Limits DEF HInv, TypeOK
<1>2. losses = 0
  BY <1>1, Limits DEF Producer, LoopEnds, Loop, BeginSucceeds, BeginFails, LoopEnd,
     StopEnds, Ends, FrameAccepted, FrameRejected, FrameLost, Sleep, Joined
<1>3. /\ pause = 0 /\ Open = Driven
      /\ active => lease[id] > 0 /\ (pc = "sleep" => lease[id] > 1)
  BY <1>2 DEF Clean
<1>4. CASE LoopEnds \/ Loop \/ Joined
  <2>1. UNCHANGED <<active, id, lease, pause>> /\ (pc' # "sleep" \/ ~active)
    BY <1>4 DEF LoopEnds, Loop, Joined, Goto, Keep
  <2>2. pc' = "stopped" => ~active
    BY <1>4 DEF LoopEnds, Loop, Joined, Goto
  <2>3. QED
    BY <1>3, <1>4, <2>1, <2>2 DEF LoopEnds, Loop, Joined, Goto, Clean, Open, Driven
<1>5. CASE BeginSucceeds
  <2>1. /\ ~active /\ active' /\ id' = granted + 1 /\ id' \in Sessions /\ pc' = "frame"
        /\ lease' = [lease EXCEPT ![id'] = Lease] /\ pause' = pause
    BY <1>5, Limits DEF BeginSucceeds, Grants, Goto, HInv, TypeOK, Begins, Sessions
  <2>2. lease'[id'] = Lease
    BY <1>1, <2>1
  <2>3. Open' = Open \cup {id'}
    BY <1>1, <2>1, Limits DEF Open
  <2>4. QED
    BY <1>3, <2>1, <2>2, <2>3, Limits DEF Clean, Driven
<1>6. CASE LoopEnd \/ StopEnds
  <2>1. /\ ~active' /\ pause' = pause
        /\ lease' = [s \in Sessions |-> IF s = id THEN 0 ELSE lease[s]]
    BY <1>1, <1>2, <1>6 DEF LoopEnd, StopEnds, Ends, Goto
  <2>2. Open' = Open \ {id}
    BY <1>1, <2>1 DEF Open
  <2>3. QED
    BY <1>3, <2>1, <2>2 DEF Clean, Driven
<1>7. CASE FrameAccepted
  <2>1. /\ id \in Open /\ id \in Sessions /\ UNCHANGED <<active, id, pause>> /\ pc' = "sleep"
        /\ lease' = [lease EXCEPT ![id] = Lease]
    BY <1>7 DEF FrameAccepted, Goto, Open
  <2>2. lease'[id] = Lease /\ Open' = Open
    BY <1>1, <2>1, Limits DEF Open
  <2>3. QED
    BY <1>3, <2>1, <2>2, Limits DEF Clean, Driven
<1>8. CASE FrameRejected
  BY <1>3, <1>8 DEF FrameRejected, Goto, Clean, Open, Driven
<1>9. CASE Sleep
  <2>1. /\ lease' = [s \in Sessions |-> IF lease[s] > 0 THEN lease[s] - 1 ELSE 0]
        /\ pause' = 0 /\ pc' = "loop" /\ pc = "sleep" /\ UNCHANGED <<active, id>>
    BY <1>3, <1>9 DEF Sleep
  <2>2. CASE active
    <3>1. id \in Sessions /\ lease[id] > 1 /\ Open = {id}
      BY <1>3, <2>1, <2>2 DEF HInv, Identified, Driven
    <3>2. lease'[id] > 0
      BY <1>1, <2>1, <3>1
    <3>3. Open' = {id}
      BY <1>1, <2>1, <3>1, <3>2 DEF Open
    <3>4. QED
      BY <2>1, <2>2, <3>2, <3>3 DEF Clean, Driven
  <2>3. CASE ~active
    <3>1. Open = {}
      BY <1>3, <2>3 DEF Driven
    <3>2. Open' = {}
      BY <1>1, <2>1, <3>1 DEF Open
    <3>3. QED
      BY <2>1, <2>3, <3>2 DEF Clean, Driven
  <2>4. QED
    BY <2>2, <2>3
<1>10. CASE BeginFails \/ FrameLost
  BY <1>1, <1>2, <1>10 DEF BeginFails, FrameLost
<1>11. QED
  BY <1>4, <1>5, <1>6, <1>7, <1>8, <1>9, <1>10 DEF Producer

(* What becomes of the producer while the process lives.                   *)
GoesOn == SetEnabled \/ StopCalled \/ Forgets \/ Lapse \/ Producer \/ UNCHANGED vars
Survives == Start \/ GoesOn

LEMMA CleanNext ==
  ASSUME HInv, Clean, Survives
  PROVE  Clean'
<1> SUFFICES ASSUME losses' = 0 PROVE Clean'
  BY DEF Clean
<1>1. CASE Producer
  BY <1>1, CleanProducer
<1>2. CASE ~Producer
  <2>1. losses \in Nat /\ lease \in [Sessions -> 0..Lease]
    BY Limits DEF HInv, TypeOK
  <2>2. losses = 0 /\ ~Forgets
    BY <1>2, <2>1 DEF Survives, GoesOn, Start, SetEnabled, StopCalled, Forgets, Lapse, Keep, vars
  <2>3. ~Lapse
    BY <2>2 DEF Lapse, Clean, Driven
  <2>4. UNCHANGED <<pause, active, id, lease>> /\ (pc' = pc \/ (pc = "stopped" /\ pc' = "loop"))
    BY <1>2, <2>2, <2>3 DEF Survives, GoesOn, Start, SetEnabled, StopCalled, vars
  <2>5. QED
    BY <2>2, <2>4 DEF Clean, Open, Driven
<1>3. QED
  BY <1>1, <1>2

(* A producer that has stopped opens nothing more.                         *)
LEMMA StaysStopped ==
  ASSUME HInv, GoesOn, pc = "stopped"
  PROVE  pc' = "stopped" /\ Open' \subseteq Open /\ losses' >= losses /\ (stops => stops')
<1>1. ~Producer
  BY DEF Producer, LoopEnds, Loop, BeginSucceeds, BeginFails, LoopEnd, StopEnds, Ends,
     FrameAccepted, FrameRejected, FrameLost, Sleep, Joined
<1>2. losses \in Nat /\ lease \in [Sessions -> 0..Lease]
  BY Limits DEF HInv, TypeOK
<1>3. SetEnabled \/ StopCalled \/ Forgets \/ Lapse \/ UNCHANGED vars
  BY <1>1 DEF GoesOn
<1>4. pc' = "stopped" /\ losses' \in {losses, losses + 1} /\ (stops => stops')
  BY <1>3 DEF SetEnabled, StopCalled, Forgets, Lapse, Keep, vars
<1>5. Open' \subseteq Open
  BY <1>2, <1>3 DEF SetEnabled, StopCalled, Forgets, Lapse, vars, Open
<1>6. QED
  BY <1>2, <1>4, <1>5

-----------------------------------------------------------------------------
(* The process.                                                            *)

(* The lists of the joins, spelled out.                                    *)
LEMMA StopsAre ==
  /\ mode = "service" =>
       /\ Len(Stops) = 8 /\ Stops[1] = "simulation" /\ Stops[2] = "render"
       /\ Stops[3] = "watcher" /\ Stops[4] = "stream" /\ Stops[5] = "srt"
       /\ Stops[6] = "control" /\ Stops[7] = "house" /\ Stops[8] = "config"
  /\ mode # "service" => Len(Stops) = 2 /\ Stops[1] = "simulation" /\ Stops[2] = "config"
BY DEF Stops

LEMMA StopsStay ==
  ASSUME UNCHANGED mode
  PROVE  Stops' = Stops /\ Len(Stops) \in {2, 8}
BY StopsAre DEF Stops

LEMMA DestroysAre ==
  /\ Len(Destroys) = 7 /\ Destroys[1] = "status" /\ Destroys[2] = "house"
  /\ Destroys[3] = "control" /\ Destroys[4] = "srt" /\ Destroys[5] = "stream"
  /\ Destroys[6] = "config" /\ Destroys[7] = "encoders"
BY DEF Destroys

(* Where main is in its joins.                                             *)
InTurn ==
  /\ main = "stop" => step \in 1..Len(Stops)
  /\ main = "destroy" => step \in 1..Len(Destroys)
  /\ main \notin {"stop", "destroy"} => step = 1 /\ phase = "halt"

(* The threads that may be there before the control server is.             *)
Early == {"config", "stream", "srt", "streamClient", "srtClient"}

(* What may be alive at each place of main: threads are started one by one,
   and run's joins are over when it returns.                               *)
Started ==
  /\ main \in {"boot", "config", "gpu", "ended"} => alive = {}
  /\ main \in {"house", "stream", "await"} => alive \subseteq {"config"}
  /\ main = "srt" => alive \subseteq {"config", "stream", "streamClient"}
  /\ main = "control" => alive \subseteq Early
  /\ main = "loops" => alive \subseteq Early \cup {"control"}
  /\ main \in {"teardown", "destroy", "wedged"} => alive \subseteq Early

(* The service makes no encoder before its render thread is there, so that
   there is none when run returns with the rungs up: what else is left then
   are the clients' threads that it has given up waiting for.              *)
Blank ==
  /\ main \in {"boot", "house", "stream", "srt", "control", "loops"} => ~encoder
  /\ main = "config" /\ mode = "service" => ~encoder
  /\ main = "gpu" => mode # "service"
  /\ main \in {"teardown", "destroy", "wedged"} /\ encoder => alive \subseteq late

(* A thread that run or ~Engine has joined does not come back, nor does a
   client of a rung that has been stopped.                                 *)
Behind(members, n) ==
  \A i \in 1..n :
    /\ members[i] \notin alive
    /\ \A c \in Viewers \cap alive : RungOf(c) = members[i] => c \in late

JoinedInTurn ==
  /\ main = "stop" => Behind(Stops, step - 1)
  /\ main = "destroy" => Behind(Destroys, step - 1)

(* Members are destroyed one after the other, and only by ~Engine.         *)
Destroyed ==
  /\ main = "destroy" => gone = {Destroys[i] : i \in 1..(step - 1)}
  /\ main # "destroy" => gone = {}
  /\ "config" \in gone => sse \in {"off", "ended"}
  /\ "house" \in gone => pc = "stopped"

(* The descriptor is in socket_ only between the connection and the release,
   and while stop() holds it the SSE thread, told to end, makes no other.  *)
Socket ==
  /\ SocketOwned
  /\ socket => sse \in {"send", "drop", "test", "recv", "release"}
  /\ phase \in {"exchange", "close"} => "sse" \in told
  /\ phase = "close" => sse # "connect"
  /\ main \in {"boot", "config", "gpu", "ended"} => sse = "off"

(* A process that has ended has no thread left.                            *)
Ending ==
  /\ main = "ended" <=> exit # "no"
  /\ main = "ended" => pc = "stopped" /\ stops

(* What can get stuck is the render thread, in the driver, and the control
   thread.                                                                 *)
Wedged ==
  /\ stuck \subseteq {"render", "control"}
  /\ "render" \in stuck => gpu

GivenBack ==
  /\ exit = "no" => Clean
  /\ exit = "returned" /\ losses = 0 => Open = {}

EInv ==
  /\ HInv /\ RunTypeOK /\ InTurn /\ Started /\ Blank /\ JoinedInTurn /\ Destroyed /\ Socket
  /\ Ending /\ Wedged /\ GivenBack

(* The steps that do not end the process, by what takes them.              *)
GpuStarts ==
  /\ main = "gpu" /\ Go("config") /\ gpu' = TRUE /\ encoder' = TRUE
  /\ UNCHANGED <<vars, on, alive, told, stuck, late, sseVars>>

StartUp ==
  \/ Boot \/ StartConfig \/ StartHouse
  \/ StartServer("stream", "srt") \/ StartSrt \/ StartServer("control", "loops") \/ StartLoops
  \/ GpuStarts
  \/ OneShotWork \/ FramesDone \/ DumpFrame \/ Signal \/ Notice

Joining == Halt \/ HaltConfig \/ StopExchange \/ StopClose \/ Join \/ Teardown

Threading ==
  \/ RenderStarts \/ RenderBreaks \/ DriverWedges \/ ClientTrickles
  \/ \E t \in Loops \cup Servers : ThreadEnds(t)

Viewing == \E client \in Viewers : ViewerComes(client) \/ ViewerGoes(client)

Client == SseStep \/ SseReceives

Lights == UNCHANGED <<mainVars, threadVars, sseVars>>

Lives == StartUp \/ Joining \/ Threading \/ Viewing \/ Client \/ Lights

LEMMA Steps ==
  ASSUME EInv, RunNext \/ UNCHANGED allVars
  PROVE  \/ Lives /\ exit' = exit /\ Survives /\ (GoesOn \/ main = "house")
         \/ \E how \in {"exited", "returned", "watchdog"} :
              EndProcess(how) /\ (how = "returned" /\ losses = 0 => Open = {})
<1>1. CASE StartUp
  BY <1>1 DEF StartUp, Boot, StartConfig, StartHouse, StartServer, StartSrt, StartLoops,
     GpuStarts, OneShotWork, FramesDone, DumpFrame, Signal, Notice, Go, Lives, Survives,
     GoesOn, mainVars, threadVars
<1>2. CASE Joining
  BY <1>2 DEF Joining, Halt, HaltConfig, StopExchange, StopClose, Join, Teardown, Go, Then,
     Lives, Survives, GoesOn, mainVars
<1>3. CASE Threading
  BY <1>3 DEF Threading, RenderStarts, RenderBreaks, DriverWedges, ClientTrickles, Sticks,
     ThreadEnds, Ended, Lives, Survives, GoesOn, mainVars
<1>4. CASE Client
  BY <1>4 DEF Client, SseStep, SseReceives, SseTests, SseConnects, SseSends, SseDrops,
     SseCloses, SseShutDown, SseReleases, KeepSse, Lives, Survives, GoesOn, mainVars
<1>5. CASE Post \/ HouseStep \/ DashboardStep \/ UNCHANGED allVars
  BY <1>5 DEF Post, HouseStep, DashboardStep, allVars, Lights, Lives, Survives, GoesOn, mainVars
<1>6. CASE (OneShotGpu /\ ~StartUp) \/ OneShotExits
  <2>1. EndProcess("exited")
    BY <1>6 DEF OneShotGpu, OneShotExits, StartUp, GpuStarts
  <2>2. QED
    BY <2>1
<1>7. CASE Returned
  <2>1. main = "destroy" /\ step = 7 /\ EndProcess("returned")
    BY <1>7, DestroysAre DEF Returned
  <2>2. "house" \in gone
    BY <2>1, DestroysAre DEF EInv, Destroyed
  <2>3. pc = "stopped" /\ exit = "no"
    BY <2>1, <2>2 DEF EInv, Destroyed, Ending
  <2>4. losses = 0 => Open = {}
    BY <2>3 DEF EInv, GivenBack, Clean, Driven
  <2>5. QED
    BY <2>1, <2>4
<1>8. CASE WatchdogFires
  BY <1>8 DEF WatchdogFires
<1>9. CASE Viewing
  BY <1>9 DEF Viewing, ViewerComes, ViewerGoes, Ended, Lives, Survives, GoesOn, mainVars
<1>10. QED
  BY <1>1, <1>2, <1>3, <1>4, <1>5, <1>6, <1>7, <1>8, <1>9
     DEF RunNext, MainStep, ThreadStep, StartUp, Joining, Threading, Viewing, Client

(* The house is in the producer's invariant; the rest is the engine's.     *)
Process ==
  /\ RunTypeOK /\ InTurn /\ Started /\ Blank /\ JoinedInTurn /\ Socket /\ Wedged
  /\ main = "ended" <=> exit # "no"

(* The types, kind by kind.                                                *)
Places ==
  /\ mode \in {"service", "selftest", "dump"}
  /\ main \in {"boot", "config", "house", "stream", "srt", "control", "loops", "wait",
               "gpu", "await", "work", "frames", "stop", "teardown", "destroy", "wedged", "ended"}
  /\ phase \in {"halt", "exchange", "close", "join"}
  /\ exit \in {"no", "returned", "exited", "watchdog"}
  /\ sse \in {"off", "top", "connect", "send", "drop", "close", "test", "recv",
              "release", "shut", "ended"}
  /\ fd \in {"none", "open", "closed"}

Bits ==
  /\ on \in BOOLEAN /\ gpu \in BOOLEAN /\ encoder \in BOOLEAN
  /\ watchdog \in BOOLEAN /\ socket \in BOOLEAN

Crews ==
  /\ alive \subseteq (Loops \cup Servers \cup Viewers) /\ stuck \subseteq alive
  /\ late \subseteq (alive \cap Viewers)
  /\ told \subseteq (Servers \cup {"sse"})
  /\ gone \subseteq {Destroys[i] : i \in DOMAIN Destroys}

Steps8 == step \in 1..8

LEMMA RunKinds == RunTypeOK <=> Places /\ Bits /\ Crews /\ Steps8
BY DEF RunTypeOK, Places, Bits, Crews, Steps8

LEMMA RunKindsNext == Places' /\ Bits' /\ Crews' /\ Steps8' => RunTypeOK'
BY DEF RunTypeOK, Places, Bits, Crews, Steps8

LEMMA Dying ==
  ASSUME EInv, HInv', NEW how \in {"exited", "returned", "watchdog"}, EndProcess(how),
         how = "returned" /\ losses = 0 => Open = {}
  PROVE  EInv'
<1>1. /\ InTurn' /\ Started' /\ Blank' /\ JoinedInTurn' /\ Destroyed' /\ Socket' /\ Ending'
      /\ Wedged'
  BY DEF EndProcess, Dies, InTurn, Started, Blank, JoinedInTurn, Destroyed, Socket,
     SocketOwned, Ending, Wedged
<1>2. RunTypeOK'
  <2>1. Places' /\ Steps8'
    BY RunKinds DEF EndProcess, EInv, Places, Steps8
  <2>2. Bits'
    BY DEF EndProcess, Bits
  <2>3. Crews'
    BY DEF EndProcess, Crews
  <2>4. QED
    BY <2>1, <2>2, <2>3, RunKindsNext
<1>3. GivenBack'
  BY DEF EndProcess, Dies, GivenBack, Open
<1>4. QED
  BY <1>1, <1>2, <1>3 DEF EInv

LEMMA StartUpKeeps ==
  ASSUME EInv, StartUp
  PROVE  Process' /\ UNCHANGED gone
<1> USE DEF StartUp, Boot, StartConfig, StartHouse, StartServer, StartSrt, StartLoops, GpuStarts,
       OneShotWork, FramesDone, DumpFrame, Signal, Notice, Go, mainVars, threadVars, sseVars
<1>1. RunTypeOK'
  <2>1. Places'
    BY RunKinds DEF EInv, Places
  <2>2. Bits'
    BY RunKinds DEF EInv, Bits
  <2>3. Crews'
    BY RunKinds DEF EInv, Crews, Servers, Loops
  <2>4. Steps8'
    BY RunKinds DEF EInv, Steps8
  <2>5. QED
    BY <2>1, <2>2, <2>3, <2>4, RunKindsNext
<1>2. Stops' = Stops /\ Len(Stops) \in {2, 8}
  BY StopsStay
<1>3. InTurn'
  <2>1. CASE Signal
    BY <1>2, <2>1 DEF EInv, InTurn
  <2>2. CASE ~Signal
    <3>1. main \notin {"stop", "destroy"} /\ main' # "destroy" /\ UNCHANGED <<step, phase>>
      BY <2>2
    <3>2. step = 1 /\ phase = "halt"
      BY <3>1 DEF EInv, InTurn
    <3>3. QED
      BY <1>2, <3>1, <3>2 DEF InTurn
  <2>3. QED
    BY <2>1, <2>2
<1>4. Started' /\ Blank'
  BY DEF EInv, Started, Blank, Early
<1>5. JoinedInTurn'
  <2>1. CASE Signal
    BY <1>2, <2>1 DEF EInv, JoinedInTurn, Behind
  <2>2. CASE ~Signal
    <3>1. main' # "destroy" /\ step' = 1
      BY <2>2 DEF EInv, InTurn
    <3>2. 1..(step' - 1) = {}
      BY <3>1
    <3>3. QED
      BY <3>1, <3>2 DEF JoinedInTurn, Behind
  <2>3. QED
    BY <2>1, <2>2
<1>6. Socket'
  BY DEF EInv, Socket, SocketOwned, InTurn
<1>7. Wedged' /\ (main' = "ended" <=> exit' # "no") /\ UNCHANGED gone
  BY DEF EInv, Wedged, Ending
<1>8. QED
  BY <1>1, <1>3, <1>4, <1>5, <1>6, <1>7 DEF Process

LEMMA JoiningKeeps ==
  ASSUME EInv, Joining
  PROVE  Process'
<1> USE DEF Joining, Halt, HaltConfig, StopExchange, StopClose, Join, Joinable, Teardown, Phase,
       Then, Go, threadVars, sseVars
<1>1. Stops' = Stops /\ Len(Stops) \in {2, 8} /\ Len(Destroys) = 7
  BY StopsStay, DestroysAre
<1>2. CASE Halt \/ HaltConfig \/ StopExchange \/ StopClose
  <2>1. /\ UNCHANGED <<mode, main, step, alive, stuck, late, gpu, encoder, watchdog, gone, exit,
                       sse, on>>
        /\ main \in {"stop", "destroy"} /\ phase' \in {"exchange", "close", "join"}
    BY <1>2
  <2>2. InTurn' /\ Started' /\ Blank' /\ JoinedInTurn' /\ Wedged'
    BY <1>1, <2>1 DEF EInv, InTurn, Started, Blank, JoinedInTurn, Behind, Wedged
  <2>3. Socket'
    BY <1>2, <2>1 DEF EInv, Socket, SocketOwned
  <2>4. Places' /\ Steps8'
    BY <2>1, <1>2, RunKinds DEF EInv, Places, Steps8
  <2>5. Bits'
    BY <2>1, <1>2, RunKinds DEF EInv, Bits
  <2>6. Crews'
    BY <2>1, <1>2, RunKinds DEF EInv, Crews, Servers
  <2>7. main' = "ended" <=> exit' # "no"
    BY <2>1 DEF EInv, Ending
  <2>8. QED
    BY <2>2, <2>3, <2>4, <2>5, <2>6, <2>7, RunKindsNext DEF Process
<1>3. CASE Join
  <2>1. /\ UNCHANGED <<mode, alive, told, stuck, gpu, encoder, watchdog, exit, sse, socket, fd, on>>
        /\ main \in {"stop", "destroy"} /\ phase = "join" /\ phase' = "halt"
        /\ Target \notin alive
        /\ late' = late \cup {c \in Viewers \cap alive : RungOf(c) = Target}
    BY <1>3
  <2>2. ASSUME main = "destroy"
        PROVE  InTurn' /\ Started' /\ Blank' /\ JoinedInTurn' /\ Places' /\ Steps8' /\ Crews'
    <3>1. /\ main' = "destroy" /\ step # 7 /\ step' = step + 1
          /\ gone' = gone \cup {Destroys[step]}
      BY <1>1, <1>3, <2>2 DEF Target
    <3>2. step \in 1..7
      BY <1>1, <2>2 DEF EInv, InTurn
    <3>3. InTurn' /\ Started' /\ Blank'
      BY <1>1, <2>1, <2>2, <3>1, <3>2 DEF EInv, InTurn, Started, Blank
    <3>4. JoinedInTurn'
      <4>1. Behind(Destroys, step - 1) /\ Target = Destroys[step]
        BY <2>2 DEF EInv, JoinedInTurn, Target
      <4>2. \A i \in 1..(step' - 1) : i \in 1..(step - 1) \/ i = step
        BY <3>1, <3>2
      <4>3. QED
        BY <2>1, <3>1, <4>1, <4>2 DEF JoinedInTurn, Behind
    <3>5. Places' /\ Steps8'
      BY <2>1, <3>1, <3>2, RunKinds DEF EInv, Places, Steps8
    <3>6. Crews'
      BY <2>1, <3>1, <3>2, DestroysAre, RunKinds DEF EInv, Crews, Destroys
    <3>7. QED
      BY <3>3, <3>4, <3>5, <3>6
  <2>3. ASSUME main = "stop" /\ step = Len(Stops)
        PROVE  InTurn' /\ Started' /\ Blank' /\ JoinedInTurn' /\ Places' /\ Steps8' /\ Crews'
    <3>1. mode = "service" /\ main' = "teardown" /\ step' = 1 /\ gone' = gone
      BY <1>3, <2>3
    <3>2. Stops[step] \notin alive /\ Behind(Stops, step - 1)
      BY <2>1, <2>3 DEF Target, EInv, JoinedInTurn
    <3>3. alive \subseteq late /\ late \subseteq Viewers
      <4>1. step = 8 /\ alive \subseteq Loops \cup Servers \cup Viewers /\ late \subseteq Viewers
        BY <2>3, <3>1, StopsAre, RunKinds DEF EInv, Crews
      <4>2. /\ \A i \in 1..8 : Stops[i] \notin alive
            /\ \A i \in 1..7 : \A c \in Viewers \cap alive : RungOf(c) = Stops[i] => c \in late
        BY <3>2, <4>1 DEF Behind
      <4>3. alive \subseteq Viewers
        BY <3>1, <4>1, <4>2, StopsAre DEF Loops, Servers
      <4>4. \A c \in Viewers \cap alive : c \in late
        BY <3>1, <4>2, StopsAre DEF RungOf
      <4>5. QED
        BY <4>1, <4>3, <4>4
    <3>4. InTurn' /\ Started' /\ Blank' /\ JoinedInTurn'
      BY <2>1, <3>1, <3>3, ViewerAssumption DEF InTurn, Started, Blank, Early, JoinedInTurn
    <3>5. Places' /\ Steps8' /\ Crews'
      BY <2>1, <3>1, RunKinds DEF EInv, Places, Steps8, Crews
    <3>6. QED
      BY <3>4, <3>5
  <2>4. ASSUME main = "stop" /\ step # Len(Stops)
        PROVE  InTurn' /\ Started' /\ Blank' /\ JoinedInTurn' /\ Places' /\ Steps8' /\ Crews'
    <3>1. main' = "stop" /\ step' = step + 1 /\ gone' = gone
      BY <1>3, <2>4
    <3>2. /\ step \in 1..Len(Stops) /\ step + 1 \in 1..Len(Stops) /\ Len(Stops) \in {2, 8}
          /\ step \in 1..7
      <4>1. step \in 1..Len(Stops) /\ step # Len(Stops) /\ (Len(Stops) = 2 \/ Len(Stops) = 8)
        BY <1>1, <2>4 DEF EInv, InTurn
      <4>2. CASE Len(Stops) = 2
        BY <4>1, <4>2
      <4>3. CASE Len(Stops) = 8
        BY <4>1, <4>3
      <4>4. QED
        BY <4>1, <4>2, <4>3
    <3>3. Target = Stops[step] /\ Behind(Stops, step - 1)
      BY <2>4 DEF Target, EInv, JoinedInTurn
    <3>4. InTurn' /\ Started' /\ Blank'
      BY <1>1, <2>1, <3>1, <3>2 DEF InTurn, Started, Blank
    <3>5. JoinedInTurn'
      <4>1. \A i \in 1..(step' - 1) : i \in 1..(step - 1) \/ i = step
        BY <3>1, <3>2
      <4>2. QED
        BY <1>1, <2>1, <3>1, <3>3, <4>1 DEF JoinedInTurn, Behind
    <3>6. Places' /\ Crews'
      BY <2>1, <3>1, RunKinds DEF EInv, Places, Crews
    <3>7. Steps8'
      BY <3>1, <3>2 DEF Steps8
    <3>8. QED
      BY <3>4, <3>5, <3>6, <3>7
  <2>5. InTurn' /\ Started' /\ Blank' /\ JoinedInTurn' /\ Places' /\ Steps8' /\ Crews'
    BY <2>1, <2>2, <2>3, <2>4
  <2>6. Bits'
    BY <2>1, RunKinds DEF EInv, Bits
  <2>7. Socket' /\ Wedged'
    BY <1>3, <2>1 DEF EInv, Socket, SocketOwned, Wedged
  <2>8. main' = "ended" <=> exit' # "no"
    BY <1>3, <2>1 DEF EInv, Ending
  <2>9. QED
    BY <2>5, <2>6, <2>7, <2>8, RunKindsNext DEF Process
<1>4. CASE Teardown
  <2>1. /\ main = "teardown" /\ main' \in {"destroy", "wedged"} /\ on' = FALSE
        /\ UNCHANGED <<mode, step, phase, alive, told, stuck, late, gpu, watchdog, gone, exit, sse,
                       socket, fd>>
    BY <1>4
  <2>2. encoder' \in BOOLEAN /\ (encoder' => encoder)
    <3>1. encoder' = (encoder /\ ~gpu)
      BY <1>4
    <3>2. QED
      BY <3>1, Zenon
  <2>3. InTurn' /\ Started' /\ Blank' /\ Wedged'
    BY <1>1, <2>1, <2>2 DEF EInv, InTurn, Started, Blank, Wedged
  <2>4. JoinedInTurn'
    <3>1. main' # "stop" /\ 1..(step' - 1) = {}
      BY <2>1 DEF EInv, InTurn
    <3>2. QED
      BY <3>1 DEF JoinedInTurn, Behind
  <2>5. Socket'
    BY <2>1 DEF EInv, Socket, SocketOwned
  <2>6. Places' /\ Steps8' /\ Crews'
    BY <2>1, RunKinds DEF EInv, Places, Steps8, Crews
  <2>7. Bits'
    BY <2>1, <2>2, RunKinds DEF EInv, Bits
  <2>8. main' = "ended" <=> exit' # "no"
    BY <2>1 DEF EInv, Ending
  <2>9. QED
    BY <2>3, <2>4, <2>5, <2>6, <2>7, <2>8, RunKindsNext DEF Process
<1>5. QED
  BY <1>2, <1>3, <1>4

(* A client's thread comes and goes in the shade of its rung.              *)
LEMMA ViewingKeeps ==
  ASSUME EInv, Viewing
  PROVE  Process' /\ UNCHANGED gone
<1>1. PICK c \in Viewers : ViewerComes(c) \/ ViewerGoes(c)
  BY DEF Viewing
<1>2. /\ UNCHANGED <<vars, mainVars, on, told, stuck, gpu, encoder, sseVars>>
      /\ \/ /\ c \notin alive /\ RungOf(c) \in alive
            /\ alive' = alive \cup {c} /\ late' = late
         \/ alive' = alive \ {c} /\ late' = late \ {c}
  BY <1>1 DEF ViewerComes, ViewerGoes, Ended
<1>3. /\ UNCHANGED <<mode, main, step, phase, watchdog, gone, exit, on, told, stuck, gpu, encoder,
                     sse, socket, fd>>
  BY <1>2 DEF mainVars, sseVars
<1>4. /\ c \in {"streamClient", "srtClient"} /\ c \notin Servers \cup Loops
      /\ RungOf(c) \in {"stream", "srt"} /\ RungOf(c) \notin Viewers
      /\ RungOf(c) = (IF c = "srtClient" THEN "srt" ELSE "stream")
  BY ViewerAssumption DEF RungOf, Servers, Loops
<1>5. /\ late \subseteq alive \cap Viewers /\ Crews
  BY RunKinds DEF EInv, Crews
<1>6. Crews'
  <2>1. c \notin stuck
    BY <1>4 DEF EInv, Wedged
  <2>2. QED
    BY <1>2, <1>3, <1>5, <2>1 DEF Crews
<1>7. RunTypeOK'
  <2>1. Places' /\ Bits' /\ Steps8'
    BY <1>3, RunKinds DEF EInv, Places, Bits, Steps8
  <2>2. QED
    BY <1>6, <2>1, RunKindsNext
<1>8. Started'
  BY <1>2, <1>3, <1>4 DEF EInv, Started, Early
<1>9. Blank'
  BY <1>2, <1>3, <1>4, <1>5 DEF EInv, Blank
<1>10. JoinedInTurn'
  <2>1. Stops' = Stops
    BY <1>3 DEF Stops
  <2>2. main = "stop" => \A i \in 1..(step - 1) : Stops[i] \notin {"streamClient", "srtClient"}
    <3>1. main = "stop" => step \in 1..Len(Stops)
      BY DEF EInv, InTurn
    <3>2. QED
      BY <3>1, StopsAre
  <2>3. main = "destroy" =>
          \A i \in 1..(step - 1) : Destroys[i] \notin {"streamClient", "srtClient"}
    BY DestroysAre DEF EInv, InTurn
  <2>4. ASSUME NEW members, NEW n, Behind(members, n), NEW i \in 1..n,
               members[i] \notin {"streamClient", "srtClient"}
        PROVE  /\ members[i] \notin alive'
               /\ \A v \in Viewers \cap alive' : RungOf(v) = members[i] => v \in late'
    <3>1. members[i] \notin alive'
      BY <1>2, <1>4, <2>4 DEF Behind
    <3>2. \A v \in Viewers \cap alive : RungOf(v) = members[i] => v \in late
      BY <2>4 DEF Behind
    <3>3. ASSUME NEW v \in Viewers \cap alive', RungOf(v) = members[i]
          PROVE  v \in late'
      <4>1. members[i] \notin alive /\ RungOf(v) \notin alive
        BY <2>4, <3>3 DEF Behind
      <4>2. v \in alive /\ (late' = late \/ v # c)
        BY <1>2, <3>3, <4>1
      <4>3. QED
        BY <1>2, <3>2, <3>3, <4>2
    <3>4. QED
      BY <3>1, <3>3
  <2>5. main = "stop" => Behind(Stops, step - 1)'
    BY <1>3, <2>1, <2>2, <2>4 DEF EInv, JoinedInTurn, Behind
  <2>6. main = "destroy" => Behind(Destroys, step - 1)'
    BY <1>3, <2>3, <2>4 DEF EInv, JoinedInTurn, Behind
  <2>7. QED
    BY <1>3, <2>5, <2>6 DEF JoinedInTurn
<1>11. InTurn' /\ Socket' /\ Wedged' /\ (main' = "ended" <=> exit' # "no")
  BY <1>3 DEF EInv, InTurn, Socket, SocketOwned, Wedged, Ending, Stops
<1>12. QED
  BY <1>3, <1>7, <1>8, <1>9, <1>10, <1>11 DEF Process

LEMMA OthersKeep ==
  ASSUME EInv, Threading \/ Client \/ Lights
  PROVE  Process' /\ UNCHANGED gone
<1> USE DEF Threading, RenderStarts, RenderBreaks, DriverWedges, ClientTrickles, Sticks, ThreadEnds,
       Ended, Client, SseStep, SseReceives, SseTests, SseConnects, SseSends, SseDrops, SseCloses,
       SseShutDown, SseReleases, KeepSse, Lights, mainVars, threadVars, sseVars
<1>1. RunTypeOK'
  <2>1. Places'
    BY RunKinds DEF EInv, Places
  <2>2. Bits'
    BY RunKinds DEF EInv, Bits
  <2>3. Crews'
    BY RunKinds DEF EInv, Wedged, Crews, Servers, Loops
  <2>4. Steps8'
    BY RunKinds DEF EInv, Steps8
  <2>5. QED
    BY <2>1, <2>2, <2>3, <2>4, RunKindsNext
<1>2. InTurn'
  BY DEF EInv, InTurn, Stops
<1>3. /\ UNCHANGED <<mode, main, step, late>> /\ alive' \subseteq alive
      /\ encoder' = encoder \/ "render" \in alive
  OBVIOUS
<1>4. Started' /\ Blank' /\ JoinedInTurn'
  <2>1. Started'
    BY <1>3 DEF EInv, Started
  <2>2. Blank'
    <3>1. late \subseteq Viewers
      BY RunKinds DEF EInv, Crews
    <3>2. "render" \in alive =>
            /\ main \notin {"boot", "house", "stream", "srt", "control", "loops", "gpu"}
            /\ main \notin {"teardown", "destroy", "wedged"}
            /\ main # "config"
      BY DEF EInv, Started, Early
    <3>3. QED
      BY <1>3, <3>2 DEF EInv, Blank
  <2>3. JoinedInTurn'
    <3>1. Stops' = Stops
      BY <1>3 DEF Stops
    <3>2. \A members, n : Behind(members, n) =>
            \A i \in 1..n :
              /\ members[i] \notin alive'
              /\ \A c \in Viewers \cap alive' : RungOf(c) = members[i] => c \in late'
      BY <1>3 DEF Behind
    <3>3. QED
      BY <1>3, <3>1, <3>2 DEF EInv, JoinedInTurn, Behind
  <2>4. QED
    BY <2>1, <2>2, <2>3
<1>5. Socket'
  BY DEF EInv, Socket, SocketOwned
<1>6. Wedged' /\ (main' = "ended" <=> exit' # "no") /\ UNCHANGED gone
  BY DEF EInv, Wedged, Ending, RunTypeOK
<1>7. QED
  BY <1>1, <1>2, <1>4, <1>5, <1>6 DEF Process

LEMMA EInvInit == RunInit => EInv
<1> SUFFICES ASSUME RunInit PROVE EInv
  OBVIOUS
<1> USE DEF RunInit
<1>1. HInv
  BY HouseInit
<1>2. Clean
  BY DEF Init, Clean, Open, Driven
<1>3. RunTypeOK
  <2>1. Places /\ Steps8
    BY DEF Places, Steps8
  <2>2. Bits
    BY DEF Bits
  <2>3. Crews
    BY DEF Crews
  <2>4. QED
    BY <2>1, <2>2, <2>3, RunKinds
<1>4. /\ InTurn /\ Started /\ Blank /\ JoinedInTurn /\ Destroyed /\ Socket /\ Ending /\ Wedged
      /\ GivenBack
  BY <1>2 DEF InTurn, Started, Blank, JoinedInTurn, Destroyed, Socket, SocketOwned, Ending,
     Wedged, GivenBack
<1>5. QED
  BY <1>1, <1>3, <1>4 DEF EInv

LEMMA EInvNext == EInv /\ [RunNext]_allVars => EInv'
<1> SUFFICES ASSUME EInv, RunNext \/ UNCHANGED allVars PROVE EInv'
  OBVIOUS
<1>1. ASSUME NEW how \in {"exited", "returned", "watchdog"}, EndProcess(how),
             how = "returned" /\ losses = 0 => Open = {}
      PROVE  EInv'
  <2>1. [Next]_vars
    BY <1>1 DEF EndProcess, Next, Environment
  <2>2. HInv'
    BY <2>1, HouseNext DEF EInv
  <2>3. QED
    BY <1>1, <2>2, Dying
<1>2. ASSUME Lives, exit' = exit, Survives, GoesOn \/ main = "house"
      PROVE  EInv'
  <2>1. HInv'
    <3>1. [Next]_vars
      BY <1>2 DEF Survives, GoesOn, Next, Environment
    <3>2. QED
      BY <3>1, HouseNext DEF EInv
  <2>2. Process' /\ (UNCHANGED gone \/ Join)
    <3>1. CASE Joining
      <4>1. UNCHANGED gone \/ Join
        BY <3>1 DEF Joining, Halt, HaltConfig, StopExchange, StopClose, Teardown, Then, Go
      <4>2. QED
        BY <3>1, <4>1, JoiningKeeps
    <3>2. QED
      BY <1>2, <3>1, StartUpKeeps, ViewingKeeps, OthersKeep DEF Lives
  <2>3. pc = "stopped" /\ main # "house" =>
          pc' = "stopped" /\ Open' \subseteq Open /\ losses' >= losses /\ (stops => stops')
    BY <1>2, StaysStopped DEF EInv
  <2>4. Destroyed'
    <3>1. CASE Join
      <4>1. /\ UNCHANGED <<sse, pc>> /\ main \in {"stop", "destroy"} /\ Joinable
            /\ main = "stop" => gone' = gone /\ main' \in {"stop", "teardown"}
        BY <3>1 DEF Join, Phase, sseVars, vars
      <4>2. CASE main = "stop"
        BY <4>1, <4>2 DEF EInv, Destroyed
      <4>3. CASE main = "destroy"
        <5>1. /\ main' = "destroy" /\ step' = step + 1 /\ step \in 1..7
              /\ gone' = gone \cup {Destroys[step]}
          BY <3>1, <4>3, DestroysAre DEF Join, Target, EInv, InTurn
        <5>2. gone' = {Destroys[i] : i \in 1..(step' - 1)}
          <6>1. gone = {Destroys[i] : i \in 1..(step - 1)}
            BY <4>3 DEF EInv, Destroyed
          <6>2. 1..(step' - 1) = 1..(step - 1) \cup {step}
            BY <5>1
          <6>3. QED
            BY <5>1, <6>1, <6>2
        <5>3. "config" \in gone' => sse \in {"off", "ended"}
          BY <4>1, <4>3, <5>1 DEF EInv, Destroyed, Joinable, Target
        <5>4. "house" \in gone' => pc = "stopped"
          BY <4>1, <4>3, <5>1 DEF EInv, Destroyed, Joinable, Target
        <5>5. QED
          BY <4>1, <5>1, <5>2, <5>3, <5>4 DEF Destroyed
      <4>4. QED
        BY <4>1, <4>2, <4>3
    <3>2. CASE UNCHANGED gone /\ ~Join
      <4>1. "house" \in gone => pc' = "stopped"
        BY <2>3 DEF EInv, Destroyed
      <4>2. \/ UNCHANGED <<main, step>>
            \/ main # "destroy" /\ main' # "destroy"
            \/ main = "teardown" /\ main' = "destroy" /\ step' = step
        <5>1. CASE StartUp
          BY <5>1 DEF StartUp, Boot, StartConfig, StartHouse, StartServer, StartSrt,
             StartLoops, GpuStarts, OneShotWork, FramesDone, DumpFrame, Signal, Notice, Go,
             mainVars
        <5>2. CASE Joining
          BY <3>2, <5>2 DEF Joining, Halt, HaltConfig, StopExchange, StopClose, Teardown, Go, Then
        <5>3. CASE Threading
          BY <5>3 DEF Threading, RenderStarts, RenderBreaks, DriverWedges, ClientTrickles,
             Sticks, ThreadEnds, Ended, mainVars
        <5>4. CASE Client \/ Lights
          BY <5>4 DEF Client, SseStep, SseReceives, SseTests, SseConnects, SseSends,
             SseDrops, SseCloses, SseShutDown, SseReleases, KeepSse, Lights, mainVars
        <5>5. CASE Viewing
          BY <5>5 DEF Viewing, ViewerComes, ViewerGoes, Ended, mainVars
        <5>6. QED
          BY <1>2, <5>1, <5>2, <5>3, <5>4, <5>5 DEF Lives
      <4>3. gone' = IF main' = "destroy" THEN {Destroys[i] : i \in 1..(step' - 1)} ELSE {}
        <5>1. CASE main = "teardown" /\ main' = "destroy" /\ step' = step
          <6>1. step' = 1 /\ gone' = {}
            BY <3>2, <5>1 DEF EInv, InTurn, Destroyed
          <6>2. QED
            BY <5>1, <6>1
        <5>2. QED
          BY <3>2, <4>2, <5>1 DEF EInv, Destroyed
      <4>4. "config" \in gone' => sse' \in {"off", "ended"}
        <5>1. "config" \in gone => sse \in {"off", "ended"}
          BY DEF EInv, Destroyed
        <5>2. "config" \in gone => main = "destroy"
          BY DEF EInv, Destroyed
        <5>3. sse \in {"off", "ended"} /\ main = "destroy" => sse' = sse
          BY <1>2, <3>2 DEF Lives, StartUp, Boot, StartConfig, StartHouse, StartServer,
             StartSrt, StartLoops, GpuStarts, OneShotWork, FramesDone, DumpFrame, Signal,
             Notice, Joining, Halt, HaltConfig, StopExchange, StopClose, Teardown,
             Threading, RenderStarts, RenderBreaks, DriverWedges, ClientTrickles, Sticks,
             ThreadEnds, Ended, Viewing, ViewerComes, ViewerGoes, Client, SseStep,
             SseReceives, SseTests, SseConnects, SseSends, SseDrops, SseCloses,
             SseShutDown, SseReleases, KeepSse, Lights, sseVars
        <5>4. QED
          BY <3>2, <5>1, <5>2, <5>3
      <4>5. QED
        BY <3>2, <4>1, <4>3, <4>4 DEF Destroyed
    <3>3. QED
      BY <2>2, <3>1, <3>2
  <2>5. Ending'
    BY <1>2, <2>2, <2>3 DEF EInv, Ending, Process
  <2>6. GivenBack'
    <3>1. exit' = "no" => Clean'
      BY <1>2, CleanNext DEF EInv, GivenBack
    <3>2. exit' = "returned" /\ losses' = 0 => Open' = {}
      <4>1. exit = "returned" => main = "ended" /\ pc = "stopped" /\ losses \in Nat
        BY Limits DEF EInv, Ending, HInv, TypeOK
      <4>2. exit = "returned" /\ losses' = 0 => losses' \in Nat /\ losses = 0
        BY <2>3, <4>1
      <4>3. QED
        BY <1>2, <2>3, <4>1, <4>2 DEF EInv, GivenBack
    <3>3. QED
      BY <3>1, <3>2 DEF GivenBack
  <2>7. QED
    BY <2>1, <2>2, <2>4, <2>5, <2>6 DEF EInv, Process
<1>3. QED
  BY <1>1, <1>2, Steps

-----------------------------------------------------------------------------
(* The types of Engine::run, the SSE client and the producer, at most one
   lighting session for every request that was lost and one more, and a
   descriptor that always has one owner and one only.                      *)
THEOREM RunInvHolds == RunSpec => []RunInv
<1>1. EInv => RunInv
  BY DEF EInv, HInv, Orphans, Socket, RunInv, OneSession
<1>2. QED
  BY <1>1, EInvInit, EInvNext, PTL DEF RunSpec

(* The members of Engine are declared, and joined, in an order in which no
   thread outlives what it uses, whatever start-up got to and whichever
   mode ran: but for the thread of a client that outlasts its rung's wait.  *)
THEOREM NobodyOutlivesHolds == RunSpec => []NobodyOutlives
<1>1. EInv => NobodyOutlives
  <2> SUFFICES ASSUME EInv PROVE NobodyOutlives
    OBVIOUS
  <2>1. ASSUME NEW t \in alive \ late, main = "destroy"
        PROVE  Uses(t) \cap gone = {}
    <3>1. ~encoder /\ t \in Early
      BY <2>1 DEF EInv, Started, Blank
    <3>2. /\ step \in 1..7 /\ Behind(Destroys, step - 1)
          /\ gone = {Destroys[i] : i \in 1..(step - 1)}
      BY <2>1, DestroysAre DEF EInv, InTurn, JoinedInTurn, Destroyed
    <3>3. "encoders" \notin gone
      BY <3>2, DestroysAre
    <3>4. t \notin gone /\ (t \in Viewers => RungOf(t) \notin gone)
      BY <2>1, <3>2 DEF Behind
    <3>5. CASE t = "config"
      BY <3>4, <3>5 DEF Uses
    <3>6. CASE t # "config"
      <4>1. Uses(t) = {IF t \in Viewers THEN RungOf(t) ELSE t, "encoders"}
        BY <3>1, <3>6 DEF Uses, Early
      <4>2. QED
        BY <3>3, <3>4, <4>1
    <3>7. QED
      BY <3>5, <3>6
  <2>2. QED
    BY <2>1 DEF EInv, Destroyed, NobodyOutlives
<1>2. QED
  BY <1>1, EInvInit, EInvNext, PTL DEF RunSpec

(* A run that returns has closed every lighting session unless a request
   was lost.                                                               *)
THEOREM LightsGivenBackHolds == RunSpec => []LightsGivenBack
<1>1. EInv => LightsGivenBack
  BY DEF EInv, GivenBack, LightsGivenBack
<1>2. QED
  BY <1>1, EInvInit, EInvNext, PTL DEF RunSpec
=============================================================================
