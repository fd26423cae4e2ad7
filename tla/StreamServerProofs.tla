------------------------- MODULE StreamServerProofs -------------------------
(***************************************************************************)
(* The TCP rung implements FanOut for any set of connections and any queue *)
(* limit, and so inherits what is proved of it: no viewer is ever sent an  *)
(* access unit it cannot decode, however its threads interleave.           *)
(*                                                                         *)
(* The mapping needs little of the server: that a connection not accepted  *)
(* yet is in no list and has no thread (Unborn), that acceptLoop still     *)
(* holds the one it has just put into clients_ (Handed), and that until    *)
(* stop() clears it clients_ holds whoever has a thread (Listed), so that a *)
(* frame broadcast to a copy of it passes nobody over who could miss it.   *)
(*                                                                         *)
(* The second half proves RosterInv of the server itself.                  *)
(***************************************************************************)
EXTENDS StreamServer, FiniteSetTheorems, SequenceTheorems, TLAPS

(* What TypeOK says of the variables the mapping depends on, without the
   counts, which bring in how many connections there are.                  *)
Types ==
  /\ wpc \in [Clients -> {"none", "send"} \cup Joined \cup Exiting]
  /\ rpc \in [Clients -> {"none", "top", "recv", "smoothing", "done"}]
  /\ alive \in [Clients -> BOOLEAN]
  /\ awaiting \in [Clients -> BOOLEAN]
  /\ clients \in SUBSET Clients
  /\ cast \in [pc : {"idle", "each"}, key : BOOLEAN, targets : SUBSET Clients,
               overflowed : BOOLEAN]
  /\ stopper \in [pc : {"new", "run", "close", "join", "kill", "wait", "zero", "stopped"},
                  targets : SUBSET Clients]
  /\ acceptor = [pc |-> acceptor.pc, client |-> acceptor.client, size |-> acceptor.size]

Unborn ==
  \A c \in Clients : wpc[c] = "none" =>
    /\ alive[c] /\ awaiting[c] /\ rpc[c] = "none"
    /\ c \notin clients /\ c \notin cast.targets /\ c \notin stopper.targets

Handed ==
  acceptor.pc \in {"count", "store"} =>
    acceptor.client \in Clients /\ wpc[acceptor.client] = "pushed"

Listed ==
  stopper.pc \notin {"zero", "stopped"} =>
    \A c \in Clients : c \in clients \/ wpc[c] \in {"none", "gone"}

IInv == Types /\ Unborn /\ Handed /\ Listed

USE DEF Joined, Exiting, running

LEMMA InitInv == Init => IInv
BY DEF Init, IInv, Types, Unborn, Handed, Listed

(* A notification moves one writer, and only from its wait to its predicate. *)
LEMMA Notified ==
  ASSUME Types, NEW c \in Clients, wpc' = Notify(wpc, c)
  PROVE  /\ wpc' \in [Clients -> {"none", "send"} \cup Joined \cup Exiting]
         /\ \A d \in Clients : wpc'[d] = wpc[d] \/ (wpc[d] = "blocked" /\ wpc'[d] = "eval")
BY DEF Types, Notify

LEMMA AcceptorInv == IInv /\ Acceptor => IInv'
<1> SUFFICES ASSUME IInv, Acceptor PROVE IInv'
  OBVIOUS
<1> USE DEF IInv, Types, Unborn, Handed, Listed, threadVars, feedVars
<1>1. ASSUME NEW c \in Clients, Accept(c) PROVE IInv'
  BY <1>1 DEF Accept
<1>2. CASE ReadSize
  BY <1>2 DEF ReadSize
<1>3. CASE StoreAndSpawn
  BY <1>3 DEF StoreAndSpawn
<1>4. CASE AskForJoin
  BY <1>4 DEF AskForJoin
<1>5. CASE AcceptExit
  BY <1>5 DEF AcceptExit
<1>6. QED
  BY <1>1, <1>2, <1>3, <1>4, <1>5 DEF Acceptor

LEMMA ReaderInv == ASSUME IInv, NEW c \in Clients, Reader(c) PROVE IInv'
<1> USE DEF IInv, Types, Unborn, Handed, Listed, serverVars, feedVars
<1>1. CASE ReaderTop(c)
  BY <1>1 DEF ReaderTop
<1>2. CASE ReaderEnd(c)
  BY <1>2, Notified DEF ReaderEnd
<1>3. CASE ReaderKeyframe(c)
  BY <1>3 DEF ReaderKeyframe
<1>4. CASE ReaderReport(c)
  BY <1>4 DEF ReaderReport
<1>5. CASE ReaderSmooth(c)
  BY <1>5 DEF ReaderSmooth
<1>6. QED
  BY <1>1, <1>2, <1>3, <1>4, <1>5 DEF Reader

LEMMA WriterInv == ASSUME IInv, NEW c \in Clients, Writer(c) \/ SpuriousWakeup(c) PROVE IInv'
<1> USE DEF IInv, Types, Unborn, Handed, Listed, serverVars, feedVars
<1>1. CASE Handshake(c)
  BY <1>1 DEF Handshake
<1>2. CASE WriterEval(c)
  BY <1>2 DEF WriterEval
<1>3. CASE WriterBlocks(c)
  BY <1>3 DEF WriterBlocks
<1>4. CASE WriterSend(c)
  <2>1. /\ wpc[c] = "send" /\ UNCHANGED <<serverVars, cast, rpc, awaiting>>
        /\ wpc' \in [Clients -> {"none", "send"} \cup Joined \cup Exiting]
        /\ alive' \in [Clients -> BOOLEAN]
        /\ wpc'[c] \in {"eval", "shutdown"} /\ \A d \in Clients \ {c} : wpc'[d] = wpc[d]
        /\ \A d \in Clients \ {c} : alive'[d] = alive[d]
    <3>1. CASE sock[c] = "open" /\ wpc' = [wpc EXCEPT ![c] = "eval"] /\ UNCHANGED alive
      BY <1>4, <3>1 DEF WriterSend
    <3>2. CASE alive' = [alive EXCEPT ![c] = FALSE] /\ wpc' = [wpc EXCEPT ![c] = "shutdown"]
      BY <1>4, <3>2 DEF WriterSend
    <3>3. QED
      BY <1>4, <3>1, <3>2 DEF WriterSend
  <2>2. Types' /\ Unborn'
    BY <2>1
  <2>3. Handed' /\ Listed'
    BY <2>1
  <2>4. QED
    BY <2>2, <2>3
<1>5. CASE WriterShutdown(c)
  BY <1>5 DEF WriterShutdown
<1>6. CASE WriterJoin(c)
  BY <1>6 DEF WriterJoin
<1>7. CASE WriterErase(c)
  BY <1>7 DEF WriterErase
<1>8. CASE SpuriousWakeup(c)
  BY <1>8 DEF SpuriousWakeup
<1>9. QED
  BY <1>1, <1>2, <1>3, <1>4, <1>5, <1>6, <1>7, <1>8 DEF Writer

LEMMA BroadcasterInv == IInv /\ Broadcaster => IInv'
<1> SUFFICES ASSUME IInv, Broadcaster PROVE IInv'
  OBVIOUS
<1> USE DEF IInv, Types, Unborn, Handed, Listed, serverVars, threadVars, feedVars
<1>1. ASSUME NEW key \in BOOLEAN, CastBegin(key) PROVE IInv'
  BY <1>1 DEF CastBegin
<1>2. ASSUME NEW c \in Clients, CastTo(c) PROVE IInv'
  <2>1. /\ UNCHANGED <<serverVars, rpc, alive>> /\ wpc[c] # "none"
        /\ \/ cast' = [cast EXCEPT !.targets = @ \ {c}]
           \/ cast' = [cast EXCEPT !.targets = @ \ {c}, !.overflowed = TRUE]
    BY <1>2 DEF CastTo
  <2>2. /\ awaiting' \in [Clients -> BOOLEAN]
        /\ \A d \in Clients \ {c} : awaiting'[d] = awaiting[d]
    BY <1>2 DEF CastTo, Skip, DropToKeyframe, Enqueue
  <2>3. /\ wpc' \in [Clients -> {"none", "send"} \cup Joined \cup Exiting]
        /\ \A d \in Clients : wpc'[d] = wpc[d] \/ (wpc[d] = "blocked" /\ wpc'[d] = "eval")
    BY <1>2, Notified DEF CastTo, Skip, DropToKeyframe, Enqueue
  <2>4. /\ cast' \in [pc : {"idle", "each"}, key : BOOLEAN, targets : SUBSET Clients,
                      overflowed : BOOLEAN]
        /\ cast'.targets = cast.targets \ {c}
    <3>1. CASE cast' = [cast EXCEPT !.targets = @ \ {c}]
      BY <3>1
    <3>2. CASE cast' = [cast EXCEPT !.targets = @ \ {c}, !.overflowed = TRUE]
      <4>1. cast' = [pc |-> cast.pc, key |-> cast.key, targets |-> cast.targets \ {c},
                     overflowed |-> TRUE]
        BY <3>2
      <4>2. QED
        BY <4>1
    <3>3. QED
      BY <2>1, <3>1, <3>2
  <2>5. Types'
    BY <2>1, <2>2, <2>3, <2>4
  <2>6. Unborn'
    BY <2>1, <2>2, <2>3, <2>4
  <2>7. Handed' /\ Listed'
    BY <2>1, <2>2, <2>3, <2>4
  <2>8. QED
    BY <2>5, <2>6, <2>7
<1>3. CASE CastEnd
  BY <1>3 DEF CastEnd
<1>4. QED
  BY <1>1, <1>2, <1>3 DEF Broadcaster

LEMMA StopperInv == IInv /\ Stopper => IInv'
<1> SUFFICES ASSUME IInv, Stopper PROVE IInv'
  OBVIOUS
<1> USE DEF IInv, Types, Unborn, Handed, Listed, threadVars, feedVars
<1>1. CASE Start
  BY <1>1 DEF Start
<1>2. CASE StopBegin
  BY <1>2 DEF StopBegin
<1>3. CASE StopClose
  BY <1>3 DEF StopClose
<1>4. CASE StopJoin
  BY <1>4 DEF StopJoin
<1>5. CASE StopKilled
  BY <1>5 DEF StopKilled
<1>6. CASE StopClear
  BY <1>6 DEF StopClear
<1>7. CASE StopZero
  BY <1>7 DEF StopZero
<1>8. ASSUME NEW c \in Clients, StopKill(c) PROVE IInv'
  BY <1>8, Notified DEF StopKill
<1>9. QED
  BY <1>1, <1>2, <1>3, <1>4, <1>5, <1>6, <1>7, <1>8 DEF Stopper

LEMMA NextInv == IInv /\ [Next]_vars => IInv'
<1>1. IInv /\ UNCHANGED vars => IInv'
  BY DEF vars, serverVars, threadVars, feedVars, IInv, Types, Unborn, Handed, Listed
<1>2. QED
  BY <1>1, AcceptorInv, ReaderInv, WriterInv, BroadcasterInv, StopperInv DEF Next

-----------------------------------------------------------------------------
(* The steps of the server as steps of FanOut.                             *)

phases == [c \in Clients |-> PhaseOf(c)]

(* A step that moves nobody and feeds nobody is a stutter ...              *)
LEMMA Stutters ==
  ASSUME \A d \in Clients : PhaseOf(d)' = PhaseOf(d), UNCHANGED <<feedVars, sendVars>>
  PROVE  UNCHANGED Feed!vars
BY DEF Feed!vars, feedVars, sendVars

(* ... one that moves a single client is that client's step.               *)
LEMMA Moves ==
  ASSUME NEW c \in Clients, NEW to,
         \A d \in Clients \ {c} : PhaseOf(d)' = PhaseOf(d), PhaseOf(c)' = to
  PROVE  phases' = [phases EXCEPT ![c] = to]
BY DEF phases

LEMMA InitFeeds == Init => Feed!Init
BY DEF Init, Feed!Init, PhaseOf, NoUnit, Feed!NoUnit

(* Whoever is marked dead leaves, unless dead already.                     *)
LEMMA Dies ==
  ASSUME IInv, NEW c \in Clients, wpc[c] # "none",
         alive' = [alive EXCEPT ![c] = FALSE], wpc' = Notify(wpc, c),
         UNCHANGED <<feedVars, sendVars>>
  PROVE  [Feed!Next]_(Feed!vars)
<1>1. \A d \in Clients \ {c} : PhaseOf(d)' = PhaseOf(d)
  BY DEF PhaseOf, Notify, IInv, Types
<1>2. CASE alive[c]
  <2>1. PhaseOf(c)' = IF PhaseOf(c) = "sending" THEN "dying" ELSE "left"
    BY <1>2 DEF PhaseOf, Notify, IInv, Types
  <2>2. CASE PhaseOf(c) \in {"idle", "sending"}
    BY <1>1, <2>1, <2>2, Moves DEF Feed!Next, Feed!Leave, phases, feedVars, sendVars
  <2>3. CASE PhaseOf(c) = "left"
    BY <1>1, <2>1, <2>3, Stutters
  <2>4. QED
    BY <1>2, <2>2, <2>3 DEF PhaseOf, IInv, Types
<1>3. CASE ~alive[c]
  <2>1. PhaseOf(c)' = PhaseOf(c)
    BY <1>3 DEF PhaseOf, Notify, IInv, Types
  <2>2. QED
    BY <1>1, <2>1, Stutters
<1>4. QED
  BY <1>2, <1>3 DEF IInv, Types

LEMMA AcceptorFeeds == IInv /\ Acceptor => [Feed!Next]_(Feed!vars)
<1> SUFFICES ASSUME IInv, Acceptor PROVE [Feed!Next]_(Feed!vars)
  OBVIOUS
<1> USE DEF IInv, Types
<1>1. ASSUME NEW c \in Clients, Accept(c) PROVE [Feed!Next]_(Feed!vars)
  <2>1. PhaseOf(c) = "absent" /\ PhaseOf(c)' = "idle"
    BY <1>1 DEF Accept, PhaseOf, Unborn
  <2>2. \A d \in Clients \ {c} : PhaseOf(d)' = PhaseOf(d)
    BY <1>1 DEF Accept, PhaseOf
  <2>3. UNCHANGED <<feedVars, sendVars>>
    BY <1>1 DEF Accept
  <2>4. Feed!Join(c)
    BY <2>1, <2>2, <2>3, Moves DEF Feed!Join, phases, feedVars, sendVars
  <2>5. QED
    BY <2>4 DEF Feed!Next
<1>2. CASE StoreAndSpawn
  <2>1. \A d \in Clients : PhaseOf(d)' = PhaseOf(d)
    BY <1>2 DEF StoreAndSpawn, PhaseOf, Handed
  <2>2. QED
    BY <1>2, <2>1, Stutters DEF StoreAndSpawn
<1>3. CASE ReadSize \/ AskForJoin \/ AcceptExit
  <2>1. UNCHANGED <<wpc, alive, feedVars, sendVars>>
    BY <1>3 DEF ReadSize, AskForJoin, AcceptExit, threadVars
  <2>2. QED
    BY <2>1, Stutters DEF PhaseOf
<1>4. QED
  BY <1>1, <1>2, <1>3 DEF Acceptor

LEMMA ReaderFeeds == ASSUME IInv, NEW c \in Clients, Reader(c) PROVE [Feed!Next]_(Feed!vars)
<1>1. CASE ReaderEnd(c)
  BY <1>1, Dies DEF ReaderEnd, IInv, Unborn
<1>2. CASE ReaderTop(c) \/ ReaderKeyframe(c) \/ ReaderReport(c) \/ ReaderSmooth(c)
  <2>1. UNCHANGED <<wpc, alive, feedVars, sendVars>>
    BY <1>2 DEF ReaderTop, ReaderKeyframe, ReaderReport, ReaderSmooth
  <2>2. QED
    BY <2>1, Stutters DEF PhaseOf
<1>3. QED
  BY <1>1, <1>2 DEF Reader

LEMMA WriterFeeds ==
  ASSUME IInv, NEW c \in Clients, Writer(c) \/ SpuriousWakeup(c)
  PROVE  [Feed!Next]_(Feed!vars)
<1> USE DEF IInv, Types
<1>1. \A d \in Clients \ {c} : PhaseOf(d)' = PhaseOf(d)
  BY DEF Writer, SpuriousWakeup, Handshake, WriterEval, WriterBlocks, WriterSend, WriterShutdown,
     WriterJoin, WriterErase, PhaseOf
<1>2. CASE Handshake(c)
  <2>1. UNCHANGED <<feedVars, sendVars>>
    BY <1>2 DEF Handshake
  <2>2. CASE alive[c] /\ ~alive'[c]
    <3>1. PhaseOf(c) = "idle" /\ PhaseOf(c)' = "left"
      BY <1>2, <2>2 DEF Handshake, PhaseOf
    <3>2. Feed!Leave(c)
      BY <1>1, <2>1, <3>1, Moves DEF Feed!Leave, phases, feedVars, sendVars
    <3>3. QED
      BY <3>2 DEF Feed!Next
  <2>3. CASE ~(alive[c] /\ ~alive'[c])
    <3>1. PhaseOf(c)' = PhaseOf(c)
      BY <1>2, <2>3 DEF Handshake, PhaseOf
    <3>2. QED
      BY <1>1, <2>1, <3>1, Stutters
  <2>4. QED
    BY <2>2, <2>3
<1>3. CASE WriterEval(c)
  <2>1. CASE alive[c] /\ queue[c] # <<>>
    <3>1. PhaseOf(c) = "idle" /\ PhaseOf(c)' = "sending"
      BY <1>3, <2>1 DEF WriterEval, PhaseOf
    <3>2. Feed!Take(c)
      BY <1>1, <1>3, <2>1, <3>1, Moves DEF WriterEval, Feed!Take, phases
    <3>3. QED
      BY <3>2 DEF Feed!Next
  <2>2. CASE ~(alive[c] /\ queue[c] # <<>>)
    <3>1. PhaseOf(c)' = PhaseOf(c) /\ UNCHANGED <<feedVars, sendVars>>
      BY <1>3, <2>2 DEF WriterEval, PhaseOf, feedVars, sendVars
    <3>2. QED
      BY <1>1, <3>1, Stutters
  <2>3. QED
    BY <2>1, <2>2
<1>4. CASE WriterSend(c)
  <2>1. PhaseOf(c) = IF alive[c] THEN "sending" ELSE "dying"
    BY <1>4 DEF WriterSend, PhaseOf
  <2>2. UNCHANGED feedVars /\ hand' = [hand EXCEPT ![c] = Feed!NoUnit]
    BY <1>4 DEF WriterSend, NoUnit, Feed!NoUnit
  <2>3. CASE wpc'[c] = "eval"
    <3>1. PhaseOf(c)' = IF PhaseOf(c) = "sending" THEN "idle" ELSE "left"
      BY <1>4, <2>1, <2>3 DEF WriterSend, PhaseOf
    <3>2. intact' = [intact EXCEPT ![c] = TRUE]
      BY <1>4, <2>3 DEF WriterSend
    <3>3. Feed!Deliver(c)
      BY <1>1, <2>1, <2>2, <3>1, <3>2, Moves DEF Feed!Deliver, phases, feedVars
    <3>4. QED
      BY <3>3 DEF Feed!Next
  <2>4. CASE wpc'[c] # "eval"
    <3>1. PhaseOf(c)' = "left" /\ intact' = [intact EXCEPT ![c] = FALSE]
      BY <1>4, <2>4 DEF WriterSend, PhaseOf
    <3>2. Feed!Fail(c)
      BY <1>1, <2>1, <2>2, <3>1, Moves DEF Feed!Fail, phases, feedVars
    <3>3. QED
      BY <3>2 DEF Feed!Next
  <2>5. QED
    BY <2>3, <2>4
<1>5. CASE \/ WriterBlocks(c) \/ SpuriousWakeup(c) \/ WriterShutdown(c)
           \/ WriterJoin(c) \/ WriterErase(c)
  <2>1. PhaseOf(c)' = PhaseOf(c) /\ UNCHANGED <<feedVars, sendVars>>
    BY <1>5 DEF WriterBlocks, SpuriousWakeup, WriterShutdown, WriterJoin, WriterErase, PhaseOf
  <2>2. QED
    BY <1>1, <2>1, Stutters
<1>6. QED
  BY <1>2, <1>3, <1>4, <1>5 DEF Writer

LEMMA BroadcasterFeeds == IInv /\ Broadcaster => [Feed!Next]_(Feed!vars)
<1> SUFFICES ASSUME IInv, Broadcaster PROVE [Feed!Next]_(Feed!vars)
  OBVIOUS
<1> USE DEF IInv, Types
<1>1. ASSUME NEW key \in BOOLEAN, CastBegin(key) PROVE [Feed!Next]_(Feed!vars)
  <2>1. \A c \in Clients \ clients : awaiting[c] \/ PhaseOf(c) = "left"
    BY <1>1 DEF CastBegin, Listed, Unborn, PhaseOf
  <2>2. UNCHANGED <<phases, queue, awaiting, hand, intact>>
    BY <1>1 DEF CastBegin, threadVars, sendVars, phases, PhaseOf
  <2>3. missed' = [c \in Clients |-> missed[c] \/ c \notin clients]
    BY <1>1 DEF CastBegin
  <2>4. Feed!Withhold(clients)
    BY <2>1, <2>2, <2>3 DEF Feed!Withhold, Feed!Doomed, phases
  <2>5. QED
    BY <2>4 DEF Feed!Next
<1>2. ASSUME NEW c \in Clients, CastTo(c) PROVE [Feed!Next]_(Feed!vars)
  <2>1. PhaseOf(c) # "absent"
    BY <1>2 DEF CastTo, Unborn, PhaseOf
  <2>2. UNCHANGED <<phases, hand, intact>>
    BY <1>2 DEF CastTo, Skip, DropToKeyframe, Enqueue, Notify, sendVars, phases, PhaseOf
  <2>3. \/ Feed!OfferSkipped(c, cast.key)
        \/ Feed!OfferOverflows(c, cast.key)
        \/ Feed!OfferQueued(c, cast.key)
    BY <1>2, QueueAssumption DEF CastTo, Skip, QueueFull, DropToKeyframe, Enqueue,
       Feed!OfferSkipped, Feed!OfferOverflows, Feed!OfferQueued
  <2>4. Feed!Offer(c, cast.key)
    BY <2>1, <2>2, <2>3 DEF Feed!Offer, phases
  <2>5. QED
    BY <2>4 DEF Feed!Next
<1>3. CASE CastEnd
  <2>1. UNCHANGED <<wpc, alive, feedVars, sendVars>>
    BY <1>3 DEF CastEnd, threadVars
  <2>2. QED
    BY <2>1, Stutters DEF PhaseOf
<1>4. QED
  BY <1>1, <1>2, <1>3 DEF Broadcaster

LEMMA StopperFeeds == IInv /\ Stopper => [Feed!Next]_(Feed!vars)
<1> SUFFICES ASSUME IInv, Stopper PROVE [Feed!Next]_(Feed!vars)
  OBVIOUS
<1>1. ASSUME NEW c \in Clients, StopKill(c) PROVE [Feed!Next]_(Feed!vars)
  BY <1>1, Dies DEF StopKill, IInv, Unborn
<1>2. CASE Start \/ StopBegin \/ StopClose \/ StopJoin \/ StopKilled \/ StopClear \/ StopZero
  <2>1. UNCHANGED <<wpc, alive, feedVars, sendVars>>
    BY <1>2 DEF Start, StopBegin, StopClose, StopJoin, StopKilled, StopClear, StopZero, threadVars
  <2>2. QED
    BY <2>1, Stutters DEF PhaseOf
<1>3. QED
  BY <1>1, <1>2 DEF Stopper

LEMMA StepFeeds == IInv /\ [Next]_vars => [Feed!Next]_(Feed!vars)
<1>1. UNCHANGED vars => UNCHANGED Feed!vars
  BY Stutters DEF vars, threadVars, feedVars, sendVars, PhaseOf
<1>2. QED
  BY <1>1, AcceptorFeeds, ReaderFeeds, WriterFeeds, BroadcasterFeeds, StopperFeeds DEF Next

-----------------------------------------------------------------------------

(* However the accept, reader, writer, render and stopping threads interleave,
   each viewer's queue behaves as FanOut's (StreamServer::broadcast,
   serviceClient, acceptLoop, stop), for any number of viewers.            *)
THEOREM FanOutImplemented == Spec => ImplementsFanOut
<1>1. Init => IInv /\ Feed!Init
  BY InitInv, InitFeeds
<1>2. QED
  BY <1>1, NextInv, StepFeeds, PTL DEF Spec, ImplementsFanOut, Feed!Spec

(* What FanOutProofs proves, of this server.                               *)
FeedProofs == INSTANCE FanOutProofs WITH phase <- [c \in Clients |-> PhaseOf(c)]

(* No viewer of the TCP rung is ever sent an access unit it cannot decode
   (Client::awaitingKeyframe), whatever the threads of any number of
   connections do.                                                         *)
THEOREM NeverMidGopHere == Spec => []Feed!NeverMidGop
<1>1. FeedProofs!Spec => []FeedProofs!NeverMidGop
  BY QueueAssumption, FeedProofs!NeverMidGopHolds
<1>2. Feed!Spec => FeedProofs!Spec
  <2>1. Feed!Init => FeedProofs!Init
    BY DEF Feed!Init, FeedProofs!Init, Feed!NoUnit, FeedProofs!NoUnit
  <2>2. [Feed!Next]_(Feed!vars) => [FeedProofs!Next]_(FeedProofs!vars)
    BY DEF Feed!Next, FeedProofs!Next, Feed!vars, FeedProofs!vars, Feed!Doomed, FeedProofs!Doomed,
       Feed!NoUnit, FeedProofs!NoUnit, Feed!Join, FeedProofs!Join, Feed!Withhold, FeedProofs!Withhold,
       Feed!Offer, FeedProofs!Offer, Feed!OfferSkipped, FeedProofs!OfferSkipped,
       Feed!OfferOverflows, FeedProofs!OfferOverflows, Feed!OfferQueued, FeedProofs!OfferQueued,
       Feed!Take, FeedProofs!Take, Feed!Deliver, FeedProofs!Deliver, Feed!Fail, FeedProofs!Fail,
       Feed!Resync, FeedProofs!Resync, Feed!Leave, FeedProofs!Leave
  <2>3. QED
    BY <2>1, <2>2, PTL DEF Feed!Spec, FeedProofs!Spec
<1>3. FeedProofs!NeverMidGop => Feed!NeverMidGop
  BY DEF Feed!NeverMidGop, FeedProofs!NeverMidGop
<1>4. QED
  BY <1>1, <1>2, <1>3, FanOutImplemented, PTL DEF ImplementsFanOut
-----------------------------------------------------------------------------
(* The roster, proved for every finite set of clients and every queue limit:
   clients_, the count the engine's idle release reads, the presentation
   delay and the outstanding keyframe requests agree through every join,
   leave, drop and stop.  RosterInv is not inductive: RInv adds which threads
   may still run (Readers, Exited), what the accept thread holds (Held), what
   a server that never started looks like (Fresh), and what covers a waiting
   client while a broadcast is under way (Gaps).                           *)

(* A reader thread runs only between its writer's handshake and its join.  *)
Readers ==
  \A c \in Clients : rpc[c] \in {"top", "recv", "smoothing"} =>
    wpc[c] \in {"eval", "toWait", "blocked", "send", "shutdown", "join"}

(* stop() empties the list before the count ...                            *)
Cleared == stopper.pc \in {"zero", "stopped"} => clients = {}

(* ... and has joined the accept thread before it copies the list.         *)
Exited == stopper.pc \in {"kill", "wait", "zero", "stopped"} => acceptor.pc = "exited"

(* Before start nothing is listed, counted or delayed.                     *)
Fresh ==
  stopper.pc = "new" =>
    acceptor.pc = "none" /\ clients = {} /\ clientCount = 0 /\ delay = 0

(* The size the accept thread is about to store counts its own client.     *)
Held ==
  acceptor.pc \in {"count", "store"} =>
    acceptor.client \in clients /\ (acceptor.pc = "store" => acceptor.size # 0)

(* EveryGapIsAsked, through a broadcast: a dropped client leaves its mark in
   `overflowed', and a keyframe under way is offered to whoever still waits. *)
Gaps ==
  running => \A c \in clients : awaiting[c] =>
    \/ asked
    \/ acceptor.client = c /\ acceptor.pc \in {"count", "store", "ask"}
    \/ cast.pc = "each" /\ (cast.overflowed \/ (cast.key /\ c \in cast.targets))

(* The inductive invariant.                                                *)
RInv ==
  /\ IInv /\ TypeOK /\ Readers /\ Exited /\ Cleared /\ Fresh /\ Held
  /\ Gaps /\ CountZeroIffEmpty /\ DelayGoneWithClients /\ StoppedIsEmpty

(* The only facts about cardinalities that are needed.                     *)
LEMMA Cards ==
  ASSUME NEW S \in SUBSET Clients
  PROVE  /\ Cardinality(S) \in 0..Cardinality(Clients)
         /\ Cardinality(S) = 0 <=> S = {}
<1>1. IsFiniteSet(S) /\ Cardinality(S) <= Cardinality(Clients)
  BY ClientsAssumption, FS_Subset
<1>2. Cardinality(S) \in Nat /\ Cardinality(Clients) \in Nat
  BY <1>1, ClientsAssumption, FS_CardinalityType
<1>3. QED
  BY <1>1, <1>2, FS_EmptySet

-----------------------------------------------------------------------------
(* TypeOK, by who writes the variables.                                    *)
ServerTypes ==
  /\ stopper \in [pc : {"new", "run", "close", "join", "kill", "wait", "zero", "stopped"},
                  targets : SUBSET Clients]
  /\ listening \in BOOLEAN
  /\ acceptor.pc \in {"none", "accept", "count", "store", "ask", "exited"}
  /\ acceptor.pc \in {"count", "store", "ask"} => acceptor.client \in Clients
  /\ acceptor.size \in 0..Cardinality(Clients)
  /\ clients \in SUBSET Clients
  /\ clientCount \in 0..Cardinality(Clients)
  /\ delay \in 0..1

CastTypes ==
  /\ cast \in [pc : {"idle", "each"}, key : BOOLEAN, targets : SUBSET Clients,
               overflowed : BOOLEAN]
  /\ asked \in BOOLEAN

ThreadTypes ==
  /\ wpc \in [Clients -> {"none", "send"} \cup Joined \cup Exiting]
  /\ rpc \in [Clients -> {"none", "top", "recv", "smoothing", "done"}]
  /\ smoothed \in [Clients -> 0..1]
  /\ sock \in [Clients -> {"none", "open", "shut", "closed"}]
  /\ alive \in [Clients -> BOOLEAN]

FeedTypes ==
  /\ awaiting \in [Clients -> BOOLEAN]
  /\ queue \in [Clients -> Seq(Unit)]
  /\ hand \in [Clients -> Unit]
  /\ missed \in [Clients -> BOOLEAN]
  /\ intact \in [Clients -> BOOLEAN]

(* The four groups are TypeOK.                                             *)
LEMMA Groups == TypeOK <=> ServerTypes /\ CastTypes /\ ThreadTypes /\ FeedTypes
BY DEF TypeOK, ServerTypes, CastTypes, ThreadTypes, FeedTypes

(* The server starts with nobody.                                          *)
LEMMA RInit == Init => RInv
<1> SUFFICES ASSUME Init PROVE RInv
  OBVIOUS
<1>1. 0 \in 0..Cardinality(Clients) /\ <<>> \in Seq(Unit) /\ NoUnit \in Unit
  BY Cards, EmptySeq DEF NoUnit, Unit
<1>2. ServerTypes /\ CastTypes
  <2>1. acceptor.pc = "none" /\ acceptor.size = 0
    BY DEF Init
  <2>2. ServerTypes
    <3>1. stopper \in [pc : {"new", "run", "close", "join", "kill", "wait", "zero", "stopped"},
                       targets : SUBSET Clients]
      BY DEF Init
    <3>2. clients = {} /\ delay = 0 /\ clientCount = 0 /\ listening = FALSE
      BY DEF Init
    <3>3. delay \in 0..1
      BY <3>2
    <3>4. QED
      BY <1>1, <2>1, <3>1, <3>2, <3>3 DEF ServerTypes
  <2>3. CastTypes
    BY DEF Init, CastTypes
  <2>4. QED
    BY <2>2, <2>3
<1>3. ThreadTypes
  BY DEF Init, ThreadTypes
<1>4. FeedTypes
  BY <1>1 DEF Init, FeedTypes
<1>5. Readers /\ Exited /\ Cleared /\ Fresh /\ Held /\ Gaps
  BY DEF Init, Readers, Exited, Cleared, Fresh, Held, Gaps
<1>6. CountZeroIffEmpty /\ DelayGoneWithClients /\ StoppedIsEmpty
  BY DEF Init, CountZeroIffEmpty, DelayGoneWithClients, StoppedIsEmpty
<1>7. QED
  BY <1>2, <1>3, <1>4, <1>5, <1>6, InitInv, Groups DEF RInv

(* Each group survives every step.                                         *)
LEMMA ServerKept == RInv /\ [Next]_vars => ServerTypes'
<1> SUFFICES ASSUME RInv, [Next]_vars PROVE ServerTypes'
  OBVIOUS
<1>0. ServerTypes /\ acceptor = [pc |-> acceptor.pc, client |-> acceptor.client, size |-> acceptor.size]
  BY Groups DEF RInv, IInv, Types
<1>1. ASSUME NEW c \in Clients, Accept(c) PROVE ServerTypes'
  BY <1>0, <1>1 DEF Accept, ServerTypes
<1>2. CASE ReadSize
  <2>1. Cardinality(clients) \in 0..Cardinality(Clients)
    BY <1>0, Cards DEF ServerTypes
  <2>2. acceptor' = [pc |-> "store", client |-> acceptor.client, size |-> Cardinality(clients)]
    BY <1>0, <1>2 DEF ReadSize
  <2>3. QED
    BY <1>0, <1>2, <2>1, <2>2 DEF ReadSize, ServerTypes
<1>3. CASE StoreAndSpawn
  <2>1. acceptor' = [pc |-> "ask", client |-> acceptor.client, size |-> acceptor.size]
    BY <1>0, <1>3 DEF StoreAndSpawn
  <2>2. QED
    BY <1>0, <1>3, <2>1 DEF StoreAndSpawn, ServerTypes
<1>4. CASE AskForJoin \/ AcceptExit
  BY <1>0, <1>4 DEF AskForJoin, AcceptExit, ServerTypes
<1>5. ASSUME NEW c \in Clients, ReaderSmooth(c) PROVE ServerTypes'
  <2>1. smoothed[c] \in 0..1
    BY Groups DEF RInv, ThreadTypes
  <2>2. QED
    BY <1>0, <1>5, <2>1 DEF ReaderSmooth, ServerTypes
<1>6. ASSUME NEW c \in Clients, WriterErase(c) PROVE ServerTypes'
  <2>1. clients' \in SUBSET Clients /\ clientCount' \in 0..Cardinality(Clients)
    BY <1>0, <1>6, Cards DEF WriterErase, CountAfter, ServerTypes
  <2>2. delay' \in 0..1
    BY <1>0, <1>6 DEF WriterErase, ServerTypes
  <2>3. QED
    BY <1>0, <1>6, <2>1, <2>2 DEF WriterErase, ServerTypes
<1>7. CASE Start
  BY <1>0, <1>7 DEF Start, ServerTypes
<1>8. CASE StopBegin \/ StopClose \/ StopJoin \/ StopKilled \/ StopClear
  <2>1. CASE StopJoin
    BY <1>0, <2>1 DEF StopJoin, ServerTypes
  <2>2. CASE StopClear
    BY <1>0, <2>2 DEF StopClear, ServerTypes
  <2>3. CASE StopBegin \/ StopClose \/ StopKilled
    BY <1>0, <2>3 DEF StopBegin, StopClose, StopKilled, ServerTypes
  <2>4. QED
    BY <1>8, <2>1, <2>2, <2>3
<1>9. CASE StopZero
  <2>1. 0 \in 0..Cardinality(Clients)
    BY Cards
  <2>2. QED
    BY <1>0, <1>9, <2>1 DEF StopZero, ServerTypes
<1>10. ASSUME NEW c \in Clients, StopKill(c) PROVE ServerTypes'
  BY <1>0, <1>10 DEF StopKill, ServerTypes
<1>11. UNCHANGED serverVars => ServerTypes'
  BY <1>0 DEF serverVars, ServerTypes
<1>12. QED
  BY <1>1, <1>2, <1>3, <1>4, <1>5, <1>6, <1>7, <1>8, <1>9, <1>10, <1>11
  DEF Next, Acceptor, Broadcaster, Stopper, Reader, Writer, vars, ReaderTop, ReaderEnd,
      ReaderKeyframe, ReaderReport, Handshake, WriterEval, WriterBlocks, WriterSend,
      WriterShutdown, WriterJoin, SpuriousWakeup, CastBegin, CastTo, CastEnd

(* Threads and sockets.                                                    *)
LEMMA ThreadsKept == RInv /\ [Next]_vars => ThreadTypes'
<1> SUFFICES ASSUME RInv, [Next]_vars PROVE ThreadTypes'
  OBVIOUS
<1>0. ThreadTypes /\ ServerTypes /\ Types
  BY Groups DEF RInv, IInv
<1>1. wpc' \in [Clients -> {"none", "send"} \cup Joined \cup Exiting]
      /\ rpc' \in [Clients -> {"none", "top", "recv", "smoothing", "done"}]
      /\ alive' \in [Clients -> BOOLEAN]
  BY NextInv DEF RInv, IInv, Types
<1>2. CASE UNCHANGED <<smoothed, sock>>
  BY <1>0, <1>1, <1>2 DEF ThreadTypes
<1>3. ASSUME NEW c \in Clients,
             Accept(c) \/ ReaderReport(c) \/ ReaderSmooth(c) \/ WriterShutdown(c)
               \/ WriterJoin(c) \/ StopKill(c)
      PROVE  smoothed' \in [Clients -> 0..1] /\ sock' \in [Clients -> {"none", "open", "shut", "closed"}]
  BY <1>0, <1>3 DEF ThreadTypes, Accept, ReaderReport, ReaderSmooth, WriterShutdown, WriterJoin,
     StopKill
<1>4. QED
  BY <1>0, <1>1, <1>2, <1>3 DEF ThreadTypes, Next, Acceptor, Broadcaster, Stopper, Reader, Writer, vars,
     threadVars, ReadSize, StoreAndSpawn, AskForJoin, AcceptExit, ReaderTop, ReaderEnd, ReaderKeyframe,
     Handshake, WriterEval, WriterBlocks, WriterSend, WriterErase, SpuriousWakeup, CastBegin,
     CastTo, CastEnd, Start, StopBegin, StopClose, StopJoin, StopKilled, StopClear, StopZero

(* The broadcast's own state.                                              *)
LEMMA CastKept == RInv /\ [Next]_vars => CastTypes'
<1> SUFFICES ASSUME RInv, [Next]_vars PROVE CastTypes'
  OBVIOUS
<1>1. cast' \in [pc : {"idle", "each"}, key : BOOLEAN, targets : SUBSET Clients,
                 overflowed : BOOLEAN]
  BY NextInv DEF RInv, IInv, Types
<1>2. CastTypes /\ cast.overflowed \in BOOLEAN
  BY Groups DEF RInv, CastTypes
<1>3. CASE UNCHANGED asked
  BY <1>1, <1>2, <1>3 DEF CastTypes
<1>4. CASE \/ AskForJoin \/ CastEnd
           \/ \E c \in Clients : ReaderKeyframe(c)
           \/ \E key \in BOOLEAN : CastBegin(key)
  <2>1. asked' \in BOOLEAN
    BY <1>2, <1>4 DEF AskForJoin, ReaderKeyframe, CastEnd, CastBegin, CastTypes
  <2>2. QED
    BY <1>1, <2>1 DEF CastTypes
<1>5. QED
  BY <1>1, <1>3, <1>4 DEF CastTypes, Next, Acceptor, Broadcaster, Stopper, Reader, Writer, vars,
     Accept, ReadSize, StoreAndSpawn, AcceptExit, ReaderTop, ReaderEnd, ReaderReport, ReaderSmooth,
     Handshake, WriterEval, WriterBlocks, WriterSend, WriterShutdown, WriterJoin, WriterErase,
     SpuriousWakeup, CastTo, Start, StopBegin, StopClose, StopJoin, StopKilled, StopClear, StopZero,
     StopKill

(* Queues hold units, whatever is popped, dropped or appended.             *)
LEMMA FeedKept == RInv /\ [Next]_vars => FeedTypes'
<1> SUFFICES ASSUME RInv, [Next]_vars PROVE FeedTypes'
  OBVIOUS
<1>0. FeedTypes /\ ThreadTypes /\ CastTypes
  BY Groups DEF RInv
<1>1. ASSUME NEW c \in Clients, WriterEval(c) PROVE FeedTypes'
  <2>1. queue[c] \in Seq(Unit)
    BY <1>0 DEF FeedTypes
  <2>2. CASE alive[c] /\ queue[c] # <<>>
    <3>1. Head(queue[c]) \in Unit /\ Tail(queue[c]) \in Seq(Unit)
      BY <2>1, <2>2
    <3>2. QED
      BY <1>0, <1>1, <2>2, <3>1 DEF WriterEval, FeedTypes
  <2>3. CASE ~(alive[c] /\ queue[c] # <<>>)
    BY <1>0, <1>1, <2>3 DEF WriterEval, FeedTypes
  <2>4. QED
    BY <2>2, <2>3
<1>2. ASSUME NEW c \in Clients, WriterSend(c) PROVE FeedTypes'
  <2>1. NoUnit \in Unit
    BY DEF NoUnit, Unit
  <2>2. /\ hand' = [hand EXCEPT ![c] = NoUnit] /\ UNCHANGED feedVars
        /\ \E b \in BOOLEAN : intact' = [intact EXCEPT ![c] = b]
    BY <1>2 DEF WriterSend
  <2>3. QED
    BY <1>0, <2>1, <2>2 DEF FeedTypes, feedVars
<1>3. ASSUME NEW key \in BOOLEAN, CastBegin(key) PROVE FeedTypes'
  BY <1>0, <1>3 DEF CastBegin, FeedTypes, sendVars
<1>4. ASSUME NEW c \in Clients, CastTo(c) PROVE FeedTypes'
  <2>1. awaiting' \in [Clients -> BOOLEAN] /\ missed' \in [Clients -> BOOLEAN]
    BY <1>0, <1>4 DEF CastTo, Skip, DropToKeyframe, Enqueue, FeedTypes
  <2>2. queue' \in [Clients -> Seq(Unit)]
    <3>1. [key |-> cast.key, follows |-> ~missed[c]] \in Unit /\ queue[c] \in Seq(Unit)
      BY <1>0 DEF Unit, CastTypes, FeedTypes
    <3>2. Append(queue[c], [key |-> cast.key, follows |-> ~missed[c]]) \in Seq(Unit) /\ <<>> \in Seq(Unit)
      BY <3>1, AppendProperties, EmptySeq
    <3>3. QED
      BY <1>0, <1>4, <3>2 DEF CastTo, Skip, DropToKeyframe, Enqueue, FeedTypes
  <2>3. QED
    BY <1>0, <1>4, <2>1, <2>2 DEF CastTo, FeedTypes, sendVars
<1>5. UNCHANGED <<feedVars, sendVars>> => FeedTypes'
  BY <1>0 DEF FeedTypes, feedVars, sendVars
<1>6. QED
  BY <1>1, <1>2, <1>3, <1>4, <1>5 DEF Next, Acceptor, Broadcaster, Stopper, Reader, Writer, vars,
     Accept, ReadSize, StoreAndSpawn, AskForJoin, AcceptExit, ReaderTop, ReaderEnd, ReaderKeyframe,
     ReaderReport, ReaderSmooth, Handshake, WriterBlocks, WriterShutdown, WriterJoin, WriterErase,
     SpuriousWakeup, CastEnd, Start, StopBegin, StopClose, StopJoin, StopKilled, StopClear, StopZero,
     StopKill

(* No reader outlives the writer that joins it.                            *)
LEMMA ReadersKept == RInv /\ [Next]_vars => Readers'
<1> SUFFICES ASSUME RInv, [Next]_vars PROVE Readers'
  OBVIOUS
<1>0. Readers /\ Types /\ Handed
  BY DEF RInv, IInv
<1>1. \A c \in Clients : Reader(c) \/ Writer(c) \/ SpuriousWakeup(c) => Readers'
  BY <1>0 DEF Readers, Types, Reader, Writer, ReaderTop, ReaderEnd, ReaderKeyframe, ReaderReport,
     ReaderSmooth, Handshake, WriterEval, WriterBlocks, WriterSend, WriterShutdown, WriterJoin,
     WriterErase, SpuriousWakeup, Notify
<1>2. Acceptor => Readers'
  BY <1>0 DEF Readers, Types, Handed, Acceptor, Accept, ReadSize, StoreAndSpawn, AskForJoin,
     AcceptExit, threadVars
<1>3. \A c \in Clients : CastTo(c) \/ StopKill(c) => Readers'
  BY <1>0 DEF Readers, Types, CastTo, Skip, DropToKeyframe, Enqueue, Notify, StopKill
<1>4. UNCHANGED <<wpc, rpc>> => Readers'
  BY <1>0 DEF Readers
<1>5. QED
  BY <1>1, <1>2, <1>3, <1>4 DEF Next, Broadcaster, Stopper, vars, threadVars, CastBegin, CastEnd,
     Start, StopBegin, StopClose, StopJoin, StopKilled, StopClear, StopZero

(* The accept thread has ended before stop() copies clients_.              *)
LEMMA ExitedKept == RInv /\ [Next]_vars => Exited'
<1> SUFFICES ASSUME RInv, [Next]_vars PROVE Exited'
  OBVIOUS
<1>0. Exited /\ Types
  BY DEF RInv, IInv
<1>1. Acceptor => Exited'
  BY <1>0 DEF Exited, Types, Acceptor, Accept, ReadSize, StoreAndSpawn, AskForJoin, AcceptExit
<1>2. Stopper => Exited'
  BY <1>0 DEF Exited, Types, Stopper, Start, StopBegin, StopClose, StopJoin, StopKilled, StopClear,
     StopZero, StopKill
<1>3. UNCHANGED <<stopper, acceptor>> => Exited'
  BY <1>0 DEF Exited
<1>4. QED
  BY <1>1, <1>2, <1>3 DEF Next, Broadcaster, Reader, Writer, vars, serverVars, ReaderTop, ReaderEnd,
     ReaderKeyframe, ReaderReport, ReaderSmooth, Handshake, WriterEval, WriterBlocks, WriterSend,
     WriterShutdown, WriterJoin, WriterErase, SpuriousWakeup, CastBegin, CastTo, CastEnd

(* A connection in the accept thread's hands cannot be erased: its writer
   does not run yet.                                                       *)
LEMMA HeldKept == RInv /\ [Next]_vars => Held'
<1> SUFFICES ASSUME RInv, [Next]_vars PROVE Held'
  OBVIOUS
<1>0. Held /\ Types /\ Handed /\ Exited
  BY DEF RInv, IInv
<1>1. Acceptor => Held'
  <2>1. Cardinality(clients) = 0 <=> clients = {}
    BY <1>0, Cards DEF Types
  <2>2. QED
    BY <1>0, <2>1 DEF Held, Types, Acceptor, Accept, ReadSize, StoreAndSpawn, AskForJoin, AcceptExit
<1>2. Stopper => Held'
  BY <1>0 DEF Held, Exited, Types, Stopper, Start, StopBegin, StopClose, StopJoin, StopKilled,
     StopClear, StopZero, StopKill
<1>3. \A c \in Clients : WriterErase(c) => Held'
  BY <1>0 DEF Held, Handed, WriterErase
<1>4. UNCHANGED <<acceptor, clients>> => Held'
  BY <1>0 DEF Held
<1>5. QED
  BY <1>1, <1>2, <1>3, <1>4 DEF Next, Broadcaster, Reader, Writer, vars, serverVars, ReaderTop,
     ReaderEnd, ReaderKeyframe, ReaderReport, ReaderSmooth, Handshake, WriterEval, WriterBlocks,
     WriterSend, WriterShutdown, WriterJoin, SpuriousWakeup, CastBegin, CastTo, CastEnd

(* Whoever reads or erases is listed, until stop() clears the list.        *)
LEMMA Reachable ==
  ASSUME RInv, NEW c \in Clients, stopper.pc \notin {"zero", "stopped"},
         wpc[c] \notin {"none", "gone"} \/ rpc[c] \in {"top", "recv", "smoothing"}
  PROVE  c \in clients
BY DEF RInv, IInv, Listed, Readers

(* Only start() leaves the initial state.                                  *)
LEMMA FreshKept == RInv /\ [Next]_vars => Fresh'
<1> SUFFICES ASSUME RInv, [Next]_vars, Fresh, stopper'.pc = "new" PROVE Fresh'
  BY DEF RInv, Fresh
<1>a. ~Stopper
  BY DEF Stopper, Start, StopBegin, StopClose, StopJoin, StopKilled, StopClear, StopZero, StopKill,
     RInv, IInv, Types, running
<1>0. stopper.pc = "new" /\ ~Stopper /\ UNCHANGED stopper
  BY <1>a DEF Next, Acceptor, Broadcaster, Stopper, Reader, Writer, vars, serverVars, Accept, ReadSize,
     StoreAndSpawn, AskForJoin, AcceptExit, ReaderTop, ReaderEnd, ReaderKeyframe, ReaderReport,
     ReaderSmooth, Handshake, WriterEval, WriterBlocks, WriterSend, WriterShutdown, WriterJoin,
     WriterErase, SpuriousWakeup, CastBegin, CastTo, CastEnd
<1>1. ~Acceptor
  BY <1>0 DEF Fresh, Acceptor, Accept, ReadSize, StoreAndSpawn, AskForJoin, AcceptExit
<1>2. \A c \in Clients : ~ReaderSmooth(c) /\ ~WriterErase(c)
  BY <1>0, Reachable DEF Fresh, ReaderSmooth, WriterErase
<1>3. UNCHANGED <<acceptor, clients, clientCount, delay>>
  BY <1>0, <1>1, <1>2 DEF Next, Broadcaster, Reader, Writer, vars, serverVars, ReaderTop, ReaderEnd,
     ReaderKeyframe, ReaderReport, Handshake, WriterEval, WriterBlocks, WriterSend, WriterShutdown,
     WriterJoin, SpuriousWakeup, CastBegin, CastTo, CastEnd
<1>4. QED
  BY <1>0, <1>3 DEF Fresh

(* Nobody joins a list that stop() has cleared.                            *)
LEMMA ClearedKept == RInv /\ [Next]_vars => Cleared'
<1> SUFFICES ASSUME RInv, [Next]_vars PROVE Cleared'
  OBVIOUS
<1>0. Cleared /\ Exited /\ Types
  BY DEF RInv, IInv
<1>1. Acceptor => Cleared'
  BY <1>0 DEF Cleared, Exited, Acceptor, Accept, ReadSize, StoreAndSpawn, AskForJoin, AcceptExit
<1>2. Stopper => Cleared'
  BY <1>0 DEF Cleared, Types, Stopper, Start, StopBegin, StopClose, StopJoin, StopKilled, StopClear,
     StopZero, StopKill
<1>3. \A c \in Clients : WriterErase(c) => Cleared'
  BY <1>0 DEF Cleared, WriterErase
<1>4. UNCHANGED <<stopper, clients>> => Cleared'
  BY <1>0 DEF Cleared
<1>5. QED
  BY <1>1, <1>2, <1>3, <1>4 DEF Next, Broadcaster, Reader, Writer, vars, serverVars, ReaderTop,
     ReaderEnd, ReaderKeyframe, ReaderReport, ReaderSmooth, Handshake, WriterEval, WriterBlocks,
     WriterSend, WriterShutdown, WriterJoin, SpuriousWakeup, CastBegin, CastTo, CastEnd

(* A keyframe clears the request only to offer itself to every listed client,
   and a client that is dropped meanwhile leaves its mark in the broadcast.  *)
LEMMA GapsKept == RInv /\ [Next]_vars => Gaps'
<1> SUFFICES ASSUME RInv, [Next]_vars PROVE Gaps'
  OBVIOUS
<1>0. Gaps /\ Fresh /\ Types
  BY DEF RInv, IInv
<1>1. Acceptor => Gaps'
  <2>1. ASSUME NEW c \in Clients, Accept(c) PROVE Gaps'
    <3>1. acceptor'.client = c /\ acceptor'.pc = "count" /\ acceptor.pc = "accept"
          /\ clients' = clients \cup {c} /\ UNCHANGED <<stopper, asked, cast, awaiting>>
      BY <1>0, <2>1 DEF Accept, Types, feedVars
    <3>2. QED
      BY <1>0, <3>1 DEF Gaps, running
  <2>2. ReadSize \/ StoreAndSpawn => Gaps'
    <3>1. ReadSize \/ StoreAndSpawn => acceptor'.client = acceptor.client
            /\ acceptor'.pc \in {"count", "store", "ask"}
            /\ UNCHANGED <<stopper, asked, cast, awaiting, clients>>
      BY <1>0 DEF ReadSize, StoreAndSpawn, Types, feedVars
    <3>2. QED
      BY <1>0, <3>1 DEF Gaps, running
  <2>3. AskForJoin \/ AcceptExit => Gaps'
    BY <1>0 DEF Gaps, running, AskForJoin, AcceptExit, feedVars
  <2>4. QED
    BY <2>1, <2>2, <2>3 DEF Acceptor
<1>2. Stopper => Gaps'
  BY <1>0 DEF Gaps, Fresh, running, Types, Stopper, Start, StopBegin, StopClose, StopJoin, StopKilled,
     StopClear, StopZero, StopKill, feedVars
<1>3. \A key \in BOOLEAN : CastBegin(key) => Gaps'
  BY <1>0 DEF Gaps, running, Types, CastBegin, serverVars
<1>4. ASSUME NEW d \in Clients, CastTo(d) PROVE Gaps'
  <2>1. UNCHANGED <<stopper, clients, acceptor, asked>> /\ cast.pc = "each" /\ cast'.pc = "each"
        /\ cast'.key = cast.key /\ cast'.targets = cast.targets \ {d}
        /\ (cast.overflowed => cast'.overflowed)
    BY <1>0, <1>4 DEF CastTo, serverVars, Types
  <2>2. ASSUME NEW c \in Clients, awaiting'[c]
        PROVE  (awaiting[c] /\ (c = d => ~cast.key)) \/ cast'.overflowed
    BY <1>0, <1>4, <2>2 DEF CastTo, Skip, DropToKeyframe, Enqueue, Types
  <2>3. QED
    BY <1>0, <2>1, <2>2 DEF Gaps, running, Types
<1>5. CastEnd => Gaps'
  BY <1>0 DEF Gaps, running, Types, CastEnd, serverVars, feedVars
<1>6. \A c \in Clients : WriterErase(c) \/ ReaderKeyframe(c) => Gaps'
  BY <1>0 DEF Gaps, running, WriterErase, ReaderKeyframe, serverVars, feedVars
<1>7. UNCHANGED <<stopper, clients, acceptor, awaiting, asked, cast>> => Gaps'
  BY <1>0 DEF Gaps, running
<1>8. QED
  BY <1>1, <1>2, <1>3, <1>4, <1>5, <1>6, <1>7 DEF Next, Broadcaster, Reader, Writer, vars, serverVars,
     feedVars, ReaderTop, ReaderEnd, ReaderReport, ReaderSmooth, Handshake, WriterEval,
     WriterBlocks, WriterSend, WriterShutdown, WriterJoin, SpuriousWakeup

(* The count is stored outside mutex_, but only while the client it was read
   for is still listed.                                                      *)
LEMMA CountKept == RInv /\ [Next]_vars => CountZeroIffEmpty'
<1> SUFFICES ASSUME RInv, [Next]_vars PROVE CountZeroIffEmpty'
  OBVIOUS
<1>0. CountZeroIffEmpty /\ Held /\ Cleared /\ Fresh /\ Types
  BY DEF RInv, IInv
<1>1. Acceptor => CountZeroIffEmpty'
  BY <1>0 DEF CountZeroIffEmpty, Held, Types, Acceptor, Accept, ReadSize, StoreAndSpawn, AskForJoin,
     AcceptExit
<1>2. Stopper => CountZeroIffEmpty'
  <2>1. Start \/ StopClear \/ StopZero => CountZeroIffEmpty'
    BY <1>0 DEF CountZeroIffEmpty, Cleared, Fresh, Types, Start, StopClear, StopZero
  <2>2. ASSUME \/ StopBegin \/ StopClose \/ StopJoin \/ StopKilled
               \/ \E c \in Clients : StopKill(c)
        PROVE  UNCHANGED <<acceptor, clients, clientCount>> /\ stopper.pc # "zero"
    BY <1>0, <2>2 DEF Types, StopBegin, StopClose, StopJoin, StopKilled, StopKill, running
  <2>3. QED
    BY <1>0, <2>1, <2>2 DEF CountZeroIffEmpty, Stopper
<1>3. ASSUME NEW c \in Clients, WriterErase(c) PROVE CountZeroIffEmpty'
  <2>1. clients' \in SUBSET Clients /\ clientCount' = Cardinality(clients')
    BY <1>0, <1>3 DEF WriterErase, CountAfter, Types
  <2>2. clientCount' = 0 <=> clients' = {}
    BY <2>1, Cards
  <2>3. QED
    BY <2>2 DEF CountZeroIffEmpty
<1>4. UNCHANGED <<stopper, acceptor, clients, clientCount>> => CountZeroIffEmpty'
  BY <1>0 DEF CountZeroIffEmpty
<1>5. QED
  BY <1>1, <1>2, <1>3, <1>4 DEF Next, Broadcaster, Reader, Writer, vars, serverVars, ReaderTop,
     ReaderEnd, ReaderKeyframe, ReaderReport, ReaderSmooth, Handshake, WriterEval, WriterBlocks,
     WriterSend, WriterShutdown, WriterJoin, SpuriousWakeup, CastBegin, CastTo, CastEnd

(* A reader that still writes the delay belongs to a listed client.          *)
LEMMA DelayKept == RInv /\ [Next]_vars => DelayGoneWithClients'
<1> SUFFICES ASSUME RInv, [Next]_vars PROVE DelayGoneWithClients'
  OBVIOUS
<1>0. DelayGoneWithClients /\ Fresh /\ Types
  BY DEF RInv, IInv
<1>1. Acceptor => DelayGoneWithClients'
  BY <1>0 DEF DelayGoneWithClients, running, Acceptor, Accept, ReadSize, StoreAndSpawn, AskForJoin,
     AcceptExit
<1>2. Stopper => DelayGoneWithClients'
  BY <1>0 DEF DelayGoneWithClients, running, Fresh, Types, Stopper, Start, StopBegin, StopClose,
     StopJoin, StopKilled, StopClear, StopZero, StopKill
<1>3. ASSUME NEW c \in Clients, ReaderSmooth(c) PROVE DelayGoneWithClients'
  BY <1>3, Reachable DEF DelayGoneWithClients, running, ReaderSmooth
<1>4. ASSUME NEW c \in Clients, WriterErase(c) PROVE DelayGoneWithClients'
  BY <1>4 DEF DelayGoneWithClients, WriterErase
<1>5. UNCHANGED <<stopper, clients, delay>> => DelayGoneWithClients'
  BY <1>0 DEF DelayGoneWithClients, running
<1>6. QED
  BY <1>1, <1>2, <1>3, <1>4, <1>5 DEF Next, Broadcaster, Reader, Writer, vars, serverVars, ReaderTop,
     ReaderEnd, ReaderKeyframe, ReaderReport, Handshake, WriterEval, WriterBlocks,
     WriterSend, WriterShutdown, WriterJoin, SpuriousWakeup, CastBegin, CastTo, CastEnd

(* What stop() leaves behind.                                              *)
LEMMA StoppedKept == RInv /\ [Next]_vars => StoppedIsEmpty'
<1> SUFFICES ASSUME RInv, [Next]_vars PROVE StoppedIsEmpty'
  OBVIOUS
<1>1. Cleared' /\ CountZeroIffEmpty'
  BY ClearedKept, CountKept
<1>2. QED
  BY <1>1 DEF Cleared, CountZeroIffEmpty, StoppedIsEmpty

(* RosterInv, src/src/net/stream_server.cpp: whatever joins, leaves, drops and
   stops, the client list, the count, the delay and the outstanding keyframe
   requests agree, for any finite set of clients and any queue limit.        *)
THEOREM RosterInvHolds == Spec => []RosterInv
<1>1. Init => RInv
  BY RInit
<1>2. RInv /\ [Next]_vars => RInv'
  <2> SUFFICES ASSUME RInv, [Next]_vars PROVE RInv'
    OBVIOUS
  <2>1. IInv' /\ TypeOK'
    BY NextInv, ServerKept, CastKept, ThreadsKept, FeedKept
    DEF RInv, TypeOK, ServerTypes, CastTypes, ThreadTypes, FeedTypes
  <2>2. Readers' /\ Exited' /\ Cleared' /\ Fresh' /\ Held' /\ Gaps'
    BY ReadersKept, ExitedKept, ClearedKept, FreshKept, HeldKept, GapsKept
  <2>3. CountZeroIffEmpty' /\ DelayGoneWithClients' /\ StoppedIsEmpty'
    BY CountKept, DelayKept, StoppedKept
  <2>4. QED
    BY <2>1, <2>2, <2>3 DEF RInv
<1>3. RInv => RosterInv
  <2>1. Gaps => EveryGapIsAsked
    BY DEF Gaps, EveryGapIsAsked
  <2>2. QED
    BY <2>1 DEF RInv, RosterInv
<1>4. QED
  BY <1>1, <1>2, <1>3, PTL DEF Spec
=============================================================================
