------------------------------ MODULE Keyframes ------------------------------
(***************************************************************************)
(* How a keyframe is asked for and produced: Engine::requestKeyframe,      *)
(* called by accept, reader, writer and control threads, and the render    *)
(* loop that encodes (src/src/service/engine.cpp, src/src/encode/encoder.cpp). *)
(*                                                                         *)
(* Time is counted in turns of the render loop.  The encoder is resident   *)
(* throughout; GpuLifecycle covers its release and restart.  What the      *)
(* pictures show, their sizes and the PTS arithmetic are left out.         *)
(***************************************************************************)
EXTENDS Naturals

CONSTANTS
  Requesters,    (* threads that may call requestKeyframe                   *)
  Interval,      (* kKeyframeRequestInterval, in turns                      *)
  GopSize,       (* gop_size: encoded frames from one scheduled IDR to the next *)
  IdleDivisor,   (* frameRate / idleFrameRate                               *)
  MaxDelay,      (* bound: turns that may pass while one request is made    *)
  EncodeMayFail  (* whether the codec may refuse a frame, or not return it  *)

ASSUME ParameterAssumption ==
  /\ Interval \in Nat \ {0} /\ GopSize \in Nat \ {0} /\ IdleDivisor \in Nat \ {0}
  /\ MaxDelay \in Nat /\ MaxDelay < Interval
  /\ EncodeMayFail \in BOOLEAN

VARIABLES
  pc,         (* each requester's place in requestKeyframe                  *)
  elapsed,    (* turns since it read the clock into `now'                   *)
  outdated,   (* lastKeyframeRequest_ changed since it read `last'          *)
  age,        (* turns since the time in lastKeyframeRequest_               *)
  requested,  (* Encoder::keyframeRequested_                                *)
  wanted,     (* Engine::keyframeWanted_                                    *)
  render,     (* [pc, idr]: the render loop, and the frame's pict_type      *)
  frame,      (* frameIndex modulo IdleDivisor                              *)
  sinceKey,   (* NVENC: encoded frames since the last IDR                   *)
  granted,    (* history: requested was set by a request, not at creation   *)
  sinceForced, (* history: turns since the last IDR forced by a request     *)
  sinceIdr    (* history: turns since the last IDR or failed encode         *)

requestVars == <<pc, elapsed, outdated, age>>
flagVars == <<requested, wanted>>
renderVars == <<render, frame, sinceKey>>
historyVars == <<granted, sinceForced, sinceIdr>>
vars == <<requestVars, flagVars, renderVars, historyVars>>

AgeCap == Interval + MaxDelay
IdrCap == GopSize * IdleDivisor + 1

TypeOK ==
  /\ pc \in [Requesters -> {"idle", "read", "exchange", "flag", "want"}]
  /\ elapsed \in [Requesters -> 0..MaxDelay]
  /\ outdated \in [Requesters -> BOOLEAN]
  /\ age \in 0..AgeCap
  /\ requested \in BOOLEAN /\ wanted \in BOOLEAN
  /\ render \in [pc : {"top", "clear", "type", "flag", "send", "pace"}, idr : BOOLEAN]
  /\ frame \in 0..(IdleDivisor - 1)
  /\ sinceKey \in 0..(GopSize - 1)
  /\ granted \in BOOLEAN
  /\ sinceForced \in 0..Interval
  /\ sinceIdr \in 0..IdrCap

(* keyframeRequested_ is initially true, so the first frame is an IDR.     *)
Init ==
  /\ pc = [r \in Requesters |-> "idle"]
  /\ elapsed = [r \in Requesters |-> 0]
  /\ outdated = [r \in Requesters |-> FALSE]
  /\ age = AgeCap
  /\ requested = TRUE /\ wanted = FALSE
  /\ render = [pc |-> "top", idr |-> FALSE]
  /\ frame = 0
  /\ sinceKey = GopSize - 1
  /\ granted = FALSE
  /\ sinceForced = Interval
  /\ sinceIdr = 0

UpTo(n, bound) == IF n < bound THEN n + 1 ELSE bound

-----------------------------------------------------------------------------
(* requestKeyframe().                                                      *)

Ask(r) ==
  /\ pc[r] = "idle"
  /\ pc' = [pc EXCEPT ![r] = "read"]
  /\ elapsed' = [elapsed EXCEPT ![r] = 0]
  /\ UNCHANGED <<outdated, age, flagVars, renderVars, historyVars>>

(* The clock and the time of the last request are read; a request made too
   soon after it is dropped.                                               *)
ReadLast(r) ==
  /\ pc[r] = "read"
  /\ elapsed' = [elapsed EXCEPT ![r] = 0]
  /\ outdated' = [outdated EXCEPT ![r] = FALSE]
  /\ pc' = [pc EXCEPT ![r] = IF age < Interval THEN "idle" ELSE "exchange"]
  /\ UNCHANGED <<age, flagVars, renderVars, historyVars>>

(* Mutant: the time is stored without comparing.                           *)
ExchangeStores(r) ==
  /\ pc[r] = "exchange"
  /\ age' = elapsed[r]
  /\ pc' = [pc EXCEPT ![r] = "flag"]
  /\ UNCHANGED <<elapsed, outdated, flagVars, renderVars, historyVars>>

(* compare_exchange_strong: of several threads that read the same time only
   one goes on.                                                            *)
Exchange(r) ==
  /\ pc[r] = "exchange"
  /\ \/ /\ outdated[r]
        /\ pc' = [pc EXCEPT ![r] = "idle"]
        /\ UNCHANGED <<outdated, age>>
     \/ /\ ~outdated[r]
        /\ age' = elapsed[r]
        /\ outdated' = [s \in Requesters |-> TRUE]
        /\ pc' = [pc EXCEPT ![r] = "flag"]
  /\ UNCHANGED <<elapsed, flagVars, renderVars, historyVars>>

SetFlag(r) ==
  /\ pc[r] = "flag"
  /\ requested' = TRUE
  /\ granted' = TRUE
  /\ pc' = [pc EXCEPT ![r] = "want"]
  /\ UNCHANGED <<elapsed, outdated, age, wanted, renderVars, sinceForced, sinceIdr>>

SetWanted(r) ==
  /\ pc[r] = "want"
  /\ wanted' = TRUE
  /\ pc' = [pc EXCEPT ![r] = "idle"]
  /\ UNCHANGED <<elapsed, outdated, age, requested, renderVars, historyVars>>

-----------------------------------------------------------------------------
(* renderLoop and Encoder::encode.                                         *)

(* Mutant: while nothing plays only requests make it encode.               *)
DecideOnRequest ==
  /\ render.pc = "top"
  /\ \E idle \in BOOLEAN :
       render' = [render EXCEPT !.pc = IF ~idle \/ wanted THEN "clear" ELSE "pace"]
  /\ UNCHANGED <<requestVars, flagVars, frame, sinceKey, historyVars>>

(* Whether this turn encodes; idlePlayback_ is the simulation thread's.    *)
Decide ==
  /\ render.pc = "top"
  /\ \E idle \in BOOLEAN :
       render' = [render EXCEPT !.pc =
                    IF ~idle \/ frame = 0 \/ wanted THEN "clear" ELSE "pace"]
  /\ UNCHANGED <<requestVars, flagVars, frame, sinceKey, historyVars>>

Clear ==
  /\ render.pc = "clear"
  /\ wanted' = FALSE
  /\ render' = [render EXCEPT !.pc = "type"]
  /\ UNCHANGED <<requestVars, requested, frame, sinceKey, historyVars>>

(* keyframeRequested_ is read for the frame's pict_type, which is what makes
   NVENC force an IDR ...                                                  *)
ReadType ==
  /\ render.pc = "type"
  /\ render' = [pc |-> "flag", idr |-> requested]
  /\ UNCHANGED <<requestVars, flagVars, frame, sinceKey, historyVars>>

(* ... and read again, and reset.                                          *)
ResetFlag ==
  /\ render.pc = "flag"
  /\ requested' = FALSE
  /\ render' = [render EXCEPT !.pc = "send"]
  /\ UNCHANGED <<requestVars, wanted, frame, sinceKey, historyVars>>

(* avcodec_send_frame: the codec takes the frame, as an IDR when asked to or
   at the end of a GOP.                                                    *)
IsKey == render.idr \/ sinceKey + 1 = GopSize

TakeFrame ==
  /\ render.pc = "send"
  /\ sinceKey' = IF IsKey THEN 0 ELSE sinceKey + 1
  /\ granted' = (granted /\ ~render.idr)
  /\ sinceForced' = IF render.idr /\ granted THEN 0 ELSE sinceForced
  /\ render' = [render EXCEPT !.pc = "pace"]
  /\ UNCHANGED <<requestVars, flagVars, frame>>

(* One frame in, one access unit out (no B-frames, zero latency), broadcast
   to every client.                                                        *)
SendFrame ==
  /\ TakeFrame
  /\ sinceIdr' = IF IsKey THEN 0 ELSE sinceIdr

(* avcodec_send_frame fails: the codec has taken nothing, nothing is sent and
   the request that was to be answered is gone.                            *)
SendFails ==
  /\ render.pc = "send" /\ EncodeMayFail
  /\ render' = [render EXCEPT !.pc = "pace"]
  /\ sinceIdr' = 0
  /\ UNCHANGED <<requestVars, flagVars, frame, sinceKey, granted, sinceForced>>

(* avcodec_receive_packet fails: the codec has taken the frame, but what it
   made of it is not sent.                                                 *)
ReceiveFails ==
  /\ EncodeMayFail
  /\ TakeFrame
  /\ sinceIdr' = 0

(* The loop sleeps to its next turn.                                       *)
Pace ==
  /\ render.pc = "pace"
  /\ \A r \in Requesters : pc[r] # "idle" => elapsed[r] < MaxDelay
  /\ render' = [pc |-> "top", idr |-> FALSE]
  /\ frame' = (frame + 1) % IdleDivisor
  /\ age' = UpTo(age, AgeCap)
  /\ elapsed' = [r \in Requesters |-> IF pc[r] = "idle" THEN 0 ELSE elapsed[r] + 1]
  /\ sinceForced' = UpTo(sinceForced, Interval)
  /\ sinceIdr' = UpTo(sinceIdr, IdrCap)
  /\ UNCHANGED <<pc, outdated, flagVars, sinceKey, granted>>

Request(r) ==
  Ask(r) \/ ReadLast(r) \/ Exchange(r) \/ SetFlag(r) \/ SetWanted(r)

Next ==
  \/ \E r \in Requesters : Request(r)
  \/ Decide \/ Clear \/ ReadType \/ ResetFlag \/ SendFrame \/ SendFails \/
     ReceiveFails \/ Pace

Spec == Init /\ [][Next]_vars

-----------------------------------------------------------------------------

(* A request that reached the encoder never waits out the idle cadence: the
   loop's next decision to encode is already forced ("A pending keyframe
   request must not wait out the idle cadence", renderLoop).               *)
PendingIsWanted ==
  requested /\ granted =>
    \/ wanted
    \/ \E r \in Requesters : pc[r] = "want"
    \/ render.pc \in {"type", "flag"}

(* With nobody asking, IDRs keep coming through idle playback: the cadence
   that skips frames never skips all of a GOP's ("a missed keyframe ... until
   the next scheduled GOP boundary", StreamServer::broadcast).             *)
IdrsKeepComing ==
  sinceIdr <= GopSize * IdleDivisor

(* The type invariant, no request left to the idle cadence, and IDRs coming
   without one.                                                            *)
RequestInv == TypeOK /\ PendingIsWanted /\ IdrsKeepComing

(* However many threads ask, and however they are delayed inside
   requestKeyframe, forced IDRs keep their distance: "a flapping client
   cannot pin the encoder into emitting nothing but IDRs".                 *)
ForcedIdrsSpaced ==
  [][granted /\ ~granted' => sinceForced + MaxDelay + 1 >= Interval]_vars
=============================================================================
