---------------------------- MODULE FullRateLease ----------------------------
(***************************************************************************)
(* The debug full-rate lease of src/src/service/engine.cpp: POST /full-rate *)
(* on the control thread takes the browser rung to full rate for a while,  *)
(* and the watcher thread ends the lease on a deadline or on pressure.     *)
(* The four shared values are separate atomics, loaded and stored one at a *)
(* time.  Time is relative: a deadline is what is left of it, an instant   *)
(* is its age.                                                             *)
(***************************************************************************)
EXTENDS Integers

CONSTANTS
  MaxLease,    (* fullRateMaxSeconds                                        *)
  Persist,     (* how long pressure must last: the 2.0 of watcherLoop       *)
  MaxLag,      (* bound: time one turn of the watcher may take              *)
  MaxPosts,    (* bound: POSTs                                              *)
  GpuMayStop   (* whether the GPU may be released meanwhile                 *)

ASSUME LeaseAssumption ==
  /\ MaxLease \in Nat \ {0} /\ Persist \in Nat \ {0}
  /\ MaxLag \in Nat /\ MaxPosts \in Nat /\ GpuMayStop \in BOOLEAN

VARIABLES
  divisor,   (* publishFrameDivisor_                                        *)
  until,     (* fullRateUntil_: time left, or NoLease for 0                 *)
  since,     (* fullRatePressureSince_: its age, or NoPressure for 0        *)
  reason,    (* fullRateExitReason_: 0 none, 1 expired, 2 fps, 3 encode     *)
  watcher,   (* [pc, lag, until, reason]: watcherLoop, time since it read   *)
             (* `now', and its locals                                       *)
  control,   (* [pc, seconds]: handleControl for /full-rate                 *)
  posts,     (* POSTs so far                                                *)
  gpuReady,  (* gpuReady_                                                   *)
  pressed,   (* history: how long every sample taken has seen pressure      *)
  overlapped (* history: a POST's stores met those that end a lease         *)

leaseVars == <<divisor, until, since, reason, watcher, control, posts, gpuReady, pressed, overlapped>>

kDefaultPublishFrameDivisor == 6
NoLease == MaxLease + 1
NoPressure == -1
PressureCap == Persist + MaxLag

LeaseTypeOK ==
  /\ divisor \in {1, kDefaultPublishFrameDivisor}
  /\ until \in (-MaxLag)..NoLease
  /\ since \in NoPressure..PressureCap
  /\ reason \in 0..3
  /\ watcher \in [pc : {"sleep", "load", "judge", "divisor", "until", "since", "reason"},
                  lag : 0..MaxLag, until : (-MaxLag)..NoLease, reason : 0..3]
  /\ control \in [pc : {"idle", "divisor", "until", "since", "reason"},
                  seconds : 0..MaxLease]
  /\ posts \in 0..MaxPosts
  /\ gpuReady \in BOOLEAN
  /\ pressed \in NoPressure..PressureCap
  /\ overlapped \in BOOLEAN

LeaseInit ==
  /\ divisor = kDefaultPublishFrameDivisor
  /\ until = NoLease /\ since = NoPressure /\ reason = 0
  /\ watcher = [pc |-> "sleep", lag |-> 0, until |-> NoLease, reason |-> 0]
  /\ control = [pc |-> "idle", seconds |-> 0]
  /\ posts = 0
  /\ gpuReady = TRUE
  /\ pressed = NoPressure
  /\ overlapped = FALSE

Older(age) == IF age = NoPressure THEN age ELSE IF age < PressureCap THEN age + 1 ELSE age
Nearer(left) == IF left = NoLease THEN left ELSE IF left > -MaxLag THEN left - 1 ELSE left

Tick ==
  /\ watcher.pc # "sleep" => watcher.lag < MaxLag
  /\ until' = Nearer(until)
  /\ since' = Older(since)
  /\ pressed' = Older(pressed)
  /\ watcher' = [watcher EXCEPT !.lag = IF watcher.pc = "sleep" THEN 0 ELSE @ + 1,
                                !.until = Nearer(@)]
  /\ UNCHANGED <<divisor, reason, control, posts, gpuReady>>

(* Idle release and restart, on the render thread.                         *)
GpuToggles ==
  /\ GpuMayStop
  /\ gpuReady' = ~gpuReady
  /\ UNCHANGED <<divisor, until, since, reason, watcher, control, posts, pressed>>

-----------------------------------------------------------------------------
(* POST /full-rate, on the control server's only thread.                   *)

(* The requested time is parsed and clamped; anything unusable is 0, which
   ends the lease.                                                         *)
Post ==
  /\ control.pc = "idle" /\ posts < MaxPosts
  /\ \E seconds \in {0, MaxLease} : control' = [pc |-> "divisor", seconds |-> seconds]
  /\ posts' = posts + 1
  /\ UNCHANGED <<divisor, until, since, reason, watcher, gpuReady, pressed>>

PostDivisor ==
  /\ control.pc = "divisor"
  /\ divisor' = IF control.seconds = 0 THEN kDefaultPublishFrameDivisor ELSE 1
  /\ control' = [control EXCEPT !.pc = "until"]
  /\ UNCHANGED <<until, since, reason, watcher, posts, gpuReady, pressed>>

PostUntil ==
  /\ control.pc = "until"
  /\ until' = IF control.seconds = 0 THEN NoLease ELSE control.seconds
  /\ control' = [control EXCEPT !.pc = "since"]
  /\ UNCHANGED <<divisor, since, reason, watcher, posts, gpuReady, pressed>>

PostSince ==
  /\ control.pc = "since"
  /\ since' = NoPressure
  /\ control' = [control EXCEPT !.pc = "reason"]
  /\ UNCHANGED <<divisor, until, reason, watcher, posts, gpuReady, pressed>>

PostReason ==
  /\ control.pc = "reason"
  /\ reason' = 0
  /\ control' = [pc |-> "idle", seconds |-> 0]
  /\ UNCHANGED <<divisor, until, since, watcher, posts, gpuReady, pressed>>

-----------------------------------------------------------------------------
(* watcherLoop.                                                            *)

(* `now' is read; the poll of MediaMTX comes after it.                     *)
WatcherWakes ==
  /\ watcher.pc = "sleep"
  /\ watcher' = [watcher EXCEPT !.pc = "load", !.lag = 0]
  /\ UNCHANGED <<divisor, until, since, reason, control, posts, gpuReady, pressed>>

WatcherLoads ==
  /\ watcher.pc = "load"
  /\ watcher' = [watcher EXCEPT !.until = until,
                                !.pc = IF until = NoLease THEN "sleep" ELSE "judge"]
  /\ UNCHANGED <<divisor, until, since, reason, control, posts, gpuReady, pressed>>

WatcherGoes(pc, why) ==
  watcher' = [watcher EXCEPT !.pc = pc, !.reason = why]

JudgeDeadline ==
  /\ watcher.until <= -watcher.lag
  /\ WatcherGoes("divisor", 1)
  /\ UNCHANGED <<since, pressed>>

JudgeWithoutGpu ==
  /\ watcher.until > -watcher.lag
  /\ ~gpuReady
  /\ WatcherGoes("sleep", 0)
  /\ UNCHANGED <<since, pressed>>

JudgePressed(fpsLow, encodeHigh) ==
  /\ watcher.until > -watcher.lag
  /\ gpuReady
  /\ fpsLow \/ encodeHigh
  /\ pressed' = IF pressed = NoPressure THEN watcher.lag ELSE pressed
  /\ \/ /\ since = NoPressure
        /\ since' = watcher.lag
        /\ WatcherGoes("sleep", 0)
     \/ /\ since # NoPressure /\ since - watcher.lag < Persist
        /\ WatcherGoes("sleep", 0)
        /\ UNCHANGED since
     \/ /\ since - watcher.lag >= Persist
        /\ WatcherGoes("divisor", IF fpsLow THEN 2 ELSE 3)
        /\ UNCHANGED since

(* Mutant: pressure that has passed is remembered.                         *)
JudgeRelievedKeeps ==
  /\ watcher.until > -watcher.lag
  /\ gpuReady
  /\ pressed' = NoPressure
  /\ WatcherGoes("sleep", 0)
  /\ UNCHANGED since

JudgeRelieved ==
  /\ watcher.until > -watcher.lag
  /\ gpuReady
  /\ pressed' = NoPressure
  /\ since' = NoPressure
  /\ WatcherGoes("sleep", 0)

(* The deadline, then pressure: fps and encode time are whatever the render
   thread measured.                                                        *)
WatcherJudges ==
  /\ watcher.pc = "judge"
  /\ \/ JudgeDeadline
     \/ JudgeWithoutGpu
     \/ \E fpsLow, encodeHigh \in BOOLEAN : JudgePressed(fpsLow, encodeHigh)
     \/ JudgeRelieved
  /\ UNCHANGED <<divisor, until, reason, control, posts, gpuReady>>

(* Mutant: the lease ends on the dashboard only.                           *)
EndDivisorNot ==
  /\ watcher.pc = "divisor"
  /\ watcher' = [watcher EXCEPT !.pc = "until"]
  /\ UNCHANGED <<divisor, until, since, reason, control, posts, gpuReady, pressed>>

EndDivisor ==
  /\ watcher.pc = "divisor"
  /\ divisor' = kDefaultPublishFrameDivisor
  /\ watcher' = [watcher EXCEPT !.pc = "until"]
  /\ UNCHANGED <<until, since, reason, control, posts, gpuReady, pressed>>

EndUntil ==
  /\ watcher.pc = "until"
  /\ until' = NoLease
  /\ watcher' = [watcher EXCEPT !.pc = "since"]
  /\ UNCHANGED <<divisor, since, reason, control, posts, gpuReady, pressed>>

EndSince ==
  /\ watcher.pc = "since"
  /\ since' = NoPressure
  /\ watcher' = [watcher EXCEPT !.pc = "reason"]
  /\ UNCHANGED <<divisor, until, reason, control, posts, gpuReady, pressed>>

EndReason ==
  /\ watcher.pc = "reason"
  /\ reason' = watcher.reason
  /\ pressed' = NoPressure
  /\ watcher' = [watcher EXCEPT !.pc = "sleep"]
  /\ UNCHANGED <<divisor, until, since, control, posts, gpuReady>>

WatcherStep ==
  \/ WatcherWakes \/ WatcherLoads \/ WatcherJudges
  \/ EndDivisor \/ EndUntil \/ EndSince \/ EndReason

ControlStep == PostDivisor \/ PostUntil \/ PostSince \/ PostReason

(* History: both threads are in the middle of their stores.               *)
Overlap ==
  overlapped' = (overlapped \/ ( /\ control.pc # "idle"
                                 /\ watcher.pc \in {"divisor", "until", "since", "reason"} ))

LeaseNext == (Tick \/ GpuToggles \/ Post \/ ControlStep \/ WatcherStep) /\ Overlap

LeaseSpec == LeaseInit /\ [][LeaseNext]_leaseVars

(* Both threads run and time passes; nobody has to POST.                   *)
LeaseFairness ==
  WF_leaseVars(Tick /\ Overlap) /\ WF_leaseVars(ControlStep /\ Overlap) /\ WF_leaseVars(WatcherStep /\ Overlap)

LiveLeaseSpec == LeaseSpec /\ LeaseFairness

-----------------------------------------------------------------------------

(* "Borrowed capacity that must always expire on its own" (options.h:39-41):
   full rate ends unless another POST comes, for a lease whose POST did not
   meet the stores that end the lease before it.  One that did may keep full
   rate without a deadline for ever.                                       *)
UndisturbedLeaseExpires ==
  \A n \in 1..MaxPosts :
    (divisor = 1 /\ posts = n) ~> (divisor # 1 \/ posts > n \/ overlapped)

(* The lease that /health shows is the one in effect: with both threads out
   of their stores, and as long as they never met there, a deadline exists
   exactly while the rung runs at full rate.                               *)
DeadlineIffFullRate ==
  /\ control.pc = "idle" /\ watcher.pc \in {"sleep", "load", "judge"}
  /\ ~overlapped
  => (divisor = 1 <=> until # NoLease)

(* "Require the pressure to persist, so one slow frame during a config
   reload does not cancel the lease": a lease ends on pressure only if the
   first sample to see it is Persist old and no sample since was free of it,
   whatever POSTs and releases of the GPU came between.                    *)
PressurePersisted ==
  watcher.pc = "divisor" /\ watcher.reason \in {2, 3} => pressed >= Persist

(* The type invariant, a lease in effect having a deadline, and no lease ended
   by a single slow frame.                                                 *)
LeaseInv == LeaseTypeOK /\ DeadlineIffFullRate /\ PressurePersisted
=============================================================================
