----------------------------- MODULE HouseParty -----------------------------
(***************************************************************************)
(* The house-party lighting producer of src/src/net/house_party.cpp: one   *)
(* thread that opens a session with the dashboard while it is enabled,     *)
(* sends it a frame per turn and ends it, and the stop that ends what is   *)
(* still open.  The dashboard is external: it grants sessions, leases them *)
(* for a while after each frame, and any request or its answer can be      *)
(* lost.  What a frame says is left out.                                   *)
(***************************************************************************)
EXTENDS Integers, FiniteSets

CONSTANTS
  Lease,        (* turns a session outlives its last frame                  *)
  Pause,        (* turns between attempts to begin: the 2 seconds           *)
  MaxSessions,  (* bound: sessions granted                                  *)
  MaxToggles,   (* bound: changes of setEnabled                             *)
  MaxLosses     (* bound: requests or answers lost                          *)

ASSUME ParameterAssumption ==
  /\ Lease \in Nat \ {0, 1} /\ Pause \in Nat \ {0} /\ MaxSessions \in Nat \ {0}
  /\ MaxToggles \in Nat /\ MaxLosses \in Nat
  /\ MaxSessions > MaxToggles + MaxLosses   (* so that no grant is refused *)

VARIABLES
  enabled,    (* enabled_                                                   *)
  running,    (* running_                                                   *)
  pc,         (* where the thread is, then stop()                           *)
  pause,      (* turns left to sleep                                        *)
  active,     (* sessionActive_                                             *)
  id,         (* sessionId_, 0 when empty                                   *)
  granted,    (* external: sessions granted so far; the last one's id       *)
  lease,      (* external: turns left of each session, 0 once closed        *)
  toggles,    (* changes of setEnabled so far                               *)
  losses,     (* requests or answers lost so far                            *)
  stops       (* whether stop() was called                                  *)

vars == <<enabled, running, pc, pause, active, id, granted, lease,
          toggles, losses, stops>>

Sessions == 1..MaxSessions
Open == {s \in Sessions : lease[s] > 0}

TypeOK ==
  /\ enabled \in BOOLEAN /\ running \in BOOLEAN /\ active \in BOOLEAN /\ stops \in BOOLEAN
  /\ pc \in {"loop", "begin", "end", "frame", "sleep", "joined", "last", "stopped"}
  /\ pause \in 0..Pause
  /\ id \in 0..MaxSessions
  /\ granted \in 0..MaxSessions
  /\ lease \in [Sessions -> 0..Lease]
  /\ toggles \in 0..MaxToggles /\ losses \in 0..MaxLosses

Init ==
  /\ enabled \in BOOLEAN
  /\ running = FALSE /\ pc = "stopped" /\ pause = 0
  /\ active = FALSE /\ id = 0
  /\ granted = 0 /\ lease = [s \in Sessions |-> 0]
  /\ toggles = 0 /\ losses = 0
  /\ stops = FALSE

-----------------------------------------------------------------------------
(* The engine: start and stop, the process ending with the thread in it,
   and POST /house-party on the control thread.  EngineRun says when.      *)

Start ==
  /\ pc = "stopped" /\ ~stops
  /\ running' = TRUE /\ pc' = "loop"
  /\ UNCHANGED <<enabled, pause, active, id, granted, lease, toggles, losses, stops>>

Dies ==
  /\ stops' = TRUE /\ running' = FALSE /\ pc' = "stopped"
  /\ pause' = 0 /\ active' = FALSE /\ id' = 0
  /\ UNCHANGED <<enabled, granted, lease, toggles, losses>>

SetEnabled ==
  /\ toggles < MaxToggles
  /\ enabled' = ~enabled
  /\ toggles' = toggles + 1
  /\ UNCHANGED <<running, pc, pause, active, id, granted, lease, losses, stops>>

StopCalled ==
  /\ running
  /\ stops' = TRUE /\ running' = FALSE
  /\ UNCHANGED <<enabled, pc, pause, active, id, granted, lease, toggles,
                 losses>>

(* The dashboard restarts and forgets its sessions.                        *)
Forgets ==
  /\ Open # {} /\ losses < MaxLosses
  /\ losses' = losses + 1
  /\ lease' = [s \in Sessions |-> 0]
  /\ UNCHANGED <<enabled, running, pc, pause, active, id, granted,
                 toggles, stops>>

Environment == Start \/ SetEnabled \/ StopCalled \/ Dies \/ Forgets

-----------------------------------------------------------------------------
(* run.                                                                    *)

Keep == UNCHANGED <<enabled, running, toggles, stops>>
Goto(next) == pc' = next /\ UNCHANGED pause

LoopEnds ==
  /\ pc = "loop" /\ ~running
  /\ Goto("joined")
  /\ UNCHANGED <<active, id, granted, lease, losses>> /\ Keep

(* Mutant: a session that is no longer wanted is left to itself.           *)
LoopNeverEnds ==
  /\ pc = "loop" /\ running
  /\ Goto(IF enabled /\ ~active THEN "begin" ELSE IF active THEN "frame" ELSE "sleep")
  /\ UNCHANGED <<active, id, granted, lease, losses>> /\ Keep

Loop ==
  /\ pc = "loop" /\ running
  /\ Goto(IF enabled /\ ~active THEN "begin"
          ELSE IF ~enabled /\ active THEN "end"
          ELSE IF active THEN "frame" ELSE "sleep")
  /\ UNCHANGED <<active, id, granted, lease, losses>> /\ Keep

Grants ==
  /\ granted < MaxSessions
  /\ granted' = granted + 1
  /\ lease' = [lease EXCEPT ![granted + 1] = Lease]

BeginSucceeds ==
  /\ pc = "begin"
  /\ Grants
  /\ id' = granted + 1 /\ active' = TRUE
  /\ Goto("frame")
  /\ UNCHANGED losses /\ Keep

(* The request is lost, or only its answer is.                             *)
BeginFails ==
  /\ pc = "begin" /\ losses < MaxLosses
  /\ Grants \/ UNCHANGED <<granted, lease>>
  /\ losses' = losses + 1
  /\ pc' = "sleep" /\ pause' = Pause
  /\ UNCHANGED <<active, id>> /\ Keep

(* endSession, from the loop or from stop.                                 *)
Ends(from, to) ==
  /\ pc = from
  /\ id' = 0 /\ active' = FALSE
  /\ \/ /\ lease' = [s \in Sessions |-> IF s = id THEN 0 ELSE lease[s]]
        /\ UNCHANGED losses
     \/ /\ losses < MaxLosses /\ losses' = losses + 1
        /\ UNCHANGED lease
  /\ Goto(to)
  /\ UNCHANGED granted /\ Keep

LoopEnd == Ends("end", "sleep")

FrameAccepted ==
  /\ pc = "frame" /\ id \in Open
  /\ lease' = [lease EXCEPT ![id] = Lease]
  /\ Goto("sleep")
  /\ UNCHANGED <<active, id, granted, losses>> /\ Keep

(* Mutant: the frame's answer is not looked at.                            *)
FrameRejectedIgnored ==
  /\ pc = "frame" /\ id \notin Open
  /\ Goto("sleep")
  /\ UNCHANGED <<active, id, granted, lease, losses>> /\ Keep

(* The dashboard has forgotten the session; it is dropped, its id stays.   *)
FrameRejected ==
  /\ pc = "frame" /\ id \notin Open
  /\ active' = FALSE
  /\ Goto("sleep")
  /\ UNCHANGED <<id, granted, lease, losses>> /\ Keep

(* A frame or its answer is lost, which looks the same.                    *)
FrameLost ==
  /\ pc = "frame" /\ losses < MaxLosses
  /\ losses' = losses + 1
  /\ active' = FALSE
  /\ lease' \in {lease, IF id \in Open THEN [lease EXCEPT ![id] = Lease] ELSE lease}
  /\ Goto("sleep")
  /\ UNCHANGED <<id, granted>> /\ Keep

(* A turn's sleep, and the longer one before another attempt to begin,
   after which the loop starts over without the turn's own.                *)
Sleep ==
  /\ pc = "sleep"
  /\ lease' = [s \in Sessions |-> IF lease[s] > 0 THEN lease[s] - 1 ELSE 0]
  /\ pause' = IF pause > 0 THEN pause - 1 ELSE 0
  /\ pc' = IF pause > 1 THEN "sleep" ELSE "loop"
  /\ UNCHANGED <<active, id, granted, losses>> /\ Keep

(* Mutant: the session that is open at the join is left to its lease.      *)
JoinedForgets ==
  /\ pc = "joined"
  /\ Goto("stopped")
  /\ UNCHANGED <<active, id, granted, lease, losses>> /\ Keep

(* stop, once the thread is joined.                                        *)
Joined ==
  /\ pc = "joined"
  /\ Goto(IF active THEN "last" ELSE "stopped")
  /\ UNCHANGED <<active, id, granted, lease, losses>> /\ Keep

StopEnds == Ends("last", "stopped")

Producer ==
  \/ LoopEnds \/ Loop \/ BeginSucceeds \/ BeginFails \/ LoopEnd
  \/ FrameAccepted \/ FrameRejected \/ FrameLost \/ Sleep \/ Joined \/ StopEnds

(* The dashboard outlives the producer.                                    *)
Lapse ==
  /\ pc = "stopped" /\ Open # {}
  /\ lease' = [s \in Sessions |-> IF lease[s] > 0 THEN lease[s] - 1 ELSE 0]
  /\ UNCHANGED <<pc, pause, active, id, granted, losses>> /\ Keep

Next == Environment \/ Producer \/ Lapse

Spec == Init /\ [][Next]_vars

-----------------------------------------------------------------------------
(* Every open session is the one being driven, or was left behind by a
   request that was lost: the lights are never driven from two sessions.   *)
OneSession == Cardinality(Open) <= 1 + losses
=============================================================================
