--------------------------- MODULE SrtServerProofs --------------------------
(***************************************************************************)
(* The SRT rung, for any set of connections and any queue limit: libsrt is *)
(* never entered twice for one socket nor for a closed one, and the rung   *)
(* implements FanOut, so that it too never sends a viewer an access unit   *)
(* it cannot decode.  The second half is about its own list, count and     *)
(* threads (LinkInv).                                                      *)
(*                                                                         *)
(* The mapping needs that a connection not accepted yet is in no list and  *)
(* has no thread (Unborn), that acceptLoop still holds the one it has just *)
(* put into clients_ (Handed), and that until stop() clears it clients_    *)
(* holds whoever has a thread (Listed).  The race needs to know who holds  *)
(* a socket's mutex (Locked).                                              *)
(***************************************************************************)
EXTENDS SrtServer, FiniteSetTheorems, SequenceTheorems, TLAPS

PCs == {"none", "drop"} \cup Joined \cup Sending \cup Exiting

(* What TypeOK says of the variables these proofs depend on.               *)
Types ==
  /\ wpc \in [Clients -> PCs]
  /\ alive \in [Clients -> BOOLEAN]
  /\ awaiting \in [Clients -> BOOLEAN]
  /\ missed \in [Clients -> BOOLEAN]
  /\ sock \in [Clients -> {"none", "open", "closed"}]
  /\ sockLock \in [Clients -> {"free", "writer", "stats"}]
  /\ clients \in SUBSET Clients
  /\ cast \in [pc : {"idle", "each", "offer"}, key : BOOLEAN, targets : SUBSET Clients,
               client : Clients \cup {{}}, overflowed : BOOLEAN]
  /\ stopper \in [pc : {"new", "run", "joinAccept", "joinStats", "kill", "close", "wait",
                        "stopped"},
                  targets : SUBSET Clients, client : Clients \cup {{}}]
  /\ acceptor \in [pc : {"none", "accept", "spawn", "ask", "exited"},
                   client : Clients \cup {{}}]
  /\ stats \in [pc : {"none", "copy", "each", "reading", "exited"},
                targets : SUBSET Clients, client : Clients \cup {{}}]

Unborn ==
  \A c \in Clients : wpc[c] = "none" =>
    /\ alive[c] /\ awaiting[c]
    /\ c \notin clients /\ c \notin cast.targets /\ c \notin stopper.targets
    /\ cast.pc = "offer" => cast.client # c

Handed ==
  acceptor.pc = "spawn" => acceptor.client \in Clients /\ wpc[acceptor.client] = "pushed"

Listed ==
  stopper.pc # "stopped" => \A c \in Clients : c \in clients \/ wpc[c] \in {"none", "gone"}

(* A socket's mutex is held by whoever is inside libsrt with that socket,
   which stays open meanwhile.                                             *)
Locked ==
  \A c \in Clients :
    /\ wpc[c] = "sending" <=> sockLock[c] = "writer"
    /\ stats.pc = "reading" /\ stats.client = c <=> sockLock[c] = "stats"
    /\ sockLock[c] # "free" => sock[c] = "open"

(* No thread runs before start.                                            *)
Fresh == stopper.pc = "new" => acceptor.pc = "none" /\ stats.pc = "none"

IInv == Types /\ Unborn /\ Handed /\ Listed /\ Fresh /\ Locked

USE DEF Joined, Sending, Exiting, PCs, running

LEMMA InitInv == Init => IInv
BY DEF Init, IInv, Types, Unborn, Handed, Listed, Fresh, Locked

(* A notification moves one writer, and only from its wait to its predicate. *)
LEMMA Notified ==
  ASSUME Types, NEW c \in Clients, wpc' = Notify(wpc, c)
  PROVE  /\ wpc' \in [Clients -> PCs]
         /\ \A d \in Clients : wpc'[d] = wpc[d] \/ (wpc[d] = "blocked" /\ wpc'[d] = "eval")
BY DEF Types, Notify

(* Marking a client as having missed a unit.                               *)
LEMMA Marked ==
  ASSUME missed \in [Clients -> BOOLEAN], NEW c \in Clients,
         UNCHANGED missed \/ missed' = [missed EXCEPT ![c] = TRUE]
  PROVE  missed' \in [Clients -> BOOLEAN]
OBVIOUS

LEMMA AcceptorInv == IInv /\ Acceptor => IInv'
<1> SUFFICES ASSUME IInv, Acceptor PROVE IInv'
  OBVIOUS
<1> USE DEF IInv, Types, Unborn, Handed, Listed, Fresh, Locked, listVars, sockVars, feedVars
<1>1. ASSUME NEW c \in Clients, Accept(c) PROVE IInv'
  BY <1>1 DEF Accept
<1>2. CASE Spawn
  BY <1>2 DEF Spawn
<1>3. CASE AskForJoin
  BY <1>3 DEF AskForJoin
<1>4. CASE AcceptExit
  BY <1>4 DEF AcceptExit
<1>5. QED
  BY <1>1, <1>2, <1>3, <1>4 DEF Acceptor

(* The writer's steps; the last three end the connection.                  *)
LEMMA WriterInv ==
  ASSUME IInv, NEW c \in Clients, Writer(c) \/ SpuriousWakeup(c) \/ PeerVanishes(c)
  PROVE  IInv'
<1> USE DEF IInv, Types, Unborn, Handed, Listed, Fresh, Locked, controlVars, listVars, sockVars, feedVars
<1>1. CASE WriterEval(c)
  BY <1>1 DEF WriterEval
<1>2. CASE WriterBlocks(c) \/ SpuriousWakeup(c) \/ WriterDrop(c) \/ WriterAsk(c)
  <2>1. CASE WriterBlocks(c) \/ SpuriousWakeup(c)
    BY <2>1 DEF WriterBlocks, SpuriousWakeup
  <2>2. CASE WriterDrop(c)
    BY <2>2 DEF WriterDrop
  <2>3. CASE WriterAsk(c)
    BY <2>3 DEF WriterAsk
  <2>4. QED
    BY <1>2, <2>1, <2>2, <2>3
<1>3. CASE WriterLock(c)
  <2>1. Types'
    <3>1. CASE sock[c] = "open"
      BY <1>3, <3>1 DEF WriterLock
    <3>2. CASE sock[c] # "open"
      <4>1. /\ wpc' = [wpc EXCEPT ![c] = "exit"] /\ alive' = [alive EXCEPT ![c] = FALSE]
            /\ UNCHANGED <<awaiting, missed, sock, sockLock, clients, cast, stopper, acceptor, stats>>
        BY <1>3, <3>2 DEF WriterLock
      <4>2. QED
        BY <4>1
    <3>3. QED
      BY <3>1, <3>2
  <2>2. Unborn' /\ Handed' /\ Listed' /\ Fresh'
    BY <1>3 DEF WriterLock
  <2>3. Locked'
    BY <1>3 DEF WriterLock
  <2>4. QED
    BY <2>1, <2>2, <2>3
<1>4. CASE SendWhole(c)
  BY <1>4 DEF SendWhole, SendReturns
<1>5. CASE SendFatal(c)
  BY <1>5 DEF SendFatal, SendReturns
<1>6. CASE SendFull(c)
  BY <1>6 DEF SendFull, SendReturns
<1>7. CASE PeerVanishes(c)
  BY <1>7 DEF PeerVanishes
<1>8. CASE WriterExit(c)
  BY <1>8 DEF WriterExit
<1>9. CASE WriterClose(c)
  BY <1>9 DEF WriterClose
<1>10. CASE WriterErase(c)
  BY <1>10 DEF WriterErase
<1>11. QED
  BY <1>1, <1>2, <1>3, <1>4, <1>5, <1>6, <1>7, <1>8, <1>9, <1>10 DEF Writer

LEMMA BroadcasterInv == IInv /\ Broadcaster => IInv'
<1> SUFFICES ASSUME IInv, Broadcaster PROVE IInv'
  OBVIOUS
<1> USE DEF IInv, Types, Unborn, Handed, Listed, Fresh, Locked, controlVars, listVars, sockVars, feedVars
<1>1. ASSUME NEW key \in BOOLEAN, CastBegin(key) PROVE IInv'
  BY <1>1 DEF CastBegin
<1>2. ASSUME NEW c \in Clients, CastTest(c) PROVE IInv'
  <2>1. CASE cast' = [cast EXCEPT !.targets = @ \ {c}]
    <3>0. UNCHANGED missed \/ missed' = [missed EXCEPT ![c] = TRUE]
      BY <1>2 DEF CastTest
    <3>1. missed' \in [Clients -> BOOLEAN]
      BY <3>0, Marked
    <3>2. UNCHANGED <<controlVars, listVars, wpc, alive, sockVars, awaiting>>
      BY <1>2 DEF CastTest
    <3>3. Types' /\ Unborn'
      BY <2>1, <3>1, <3>2
    <3>4. QED
      BY <3>2, <3>3
  <2>2. CASE cast' = [cast EXCEPT !.targets = @ \ {c}, !.client = c, !.pc = "offer"]
    <3>1. cast' = [pc |-> "offer", key |-> cast.key, targets |-> cast.targets \ {c},
                   client |-> c, overflowed |-> cast.overflowed]
      BY <2>2
    <3>2. wpc[c] # "none"
      BY <1>2 DEF CastTest
    <3>3. QED
      BY <1>2, <3>1, <3>2 DEF CastTest
  <2>3. QED
    BY <1>2, <2>1, <2>2 DEF CastTest
<1>3. ASSUME NEW c \in Clients, CastOffer(c) PROVE IInv'
  <2>1. UNCHANGED <<controlVars, listVars, alive, sockVars>> /\ wpc[c] # "none"
    BY <1>3 DEF CastOffer
  <2>2. /\ awaiting' \in [Clients -> BOOLEAN]
        /\ \A d \in Clients \ {c} : awaiting'[d] = awaiting[d]
    <3>1. UNCHANGED awaiting \/ \E b \in BOOLEAN : awaiting' = [awaiting EXCEPT ![c] = b]
      BY <1>3 DEF CastOffer, Skip, DropToKeyframe, Enqueue
    <3>2. QED
      BY <3>1
  <2>a. missed' \in [Clients -> BOOLEAN]
    <3>1. \E b \in BOOLEAN : missed' = [missed EXCEPT ![c] = b]
      BY <1>3 DEF CastOffer, Skip, DropToKeyframe, Enqueue
    <3>2. QED
      BY <3>1
  <2>3. /\ wpc' \in [Clients -> PCs]
        /\ \A d \in Clients : wpc'[d] = wpc[d] \/ (wpc[d] = "blocked" /\ wpc'[d] = "eval")
    BY <1>3, Notified DEF CastOffer, Skip, DropToKeyframe, Enqueue
  <2>4. /\ cast' \in [pc : {"idle", "each", "offer"}, key : BOOLEAN, targets : SUBSET Clients,
                      client : Clients \cup {{}}, overflowed : BOOLEAN]
        /\ cast'.targets = cast.targets /\ cast'.pc = "each"
    <3>1. \/ cast' = [cast EXCEPT !.pc = "each", !.client = {}]
          \/ cast' = [cast EXCEPT !.pc = "each", !.client = {}, !.overflowed = TRUE]
      BY <1>3 DEF CastOffer
    <3>2. \E b \in BOOLEAN :
            cast' = [pc |-> "each", key |-> cast.key, targets |-> cast.targets, client |-> {},
                     overflowed |-> b]
      <4>1. CASE cast' = [cast EXCEPT !.pc = "each", !.client = {}]
        BY <4>1
      <4>2. CASE cast' = [cast EXCEPT !.pc = "each", !.client = {}, !.overflowed = TRUE]
        BY <4>2
      <4>3. QED
        BY <3>1, <4>1, <4>2
    <3>3. QED
      BY <3>2
  <2>5. Types' /\ Unborn'
    BY <2>1, <2>2, <2>a, <2>3, <2>4
  <2>6. Handed' /\ Listed' /\ Fresh' /\ Locked'
    BY <2>1, <2>3
  <2>7. QED
    BY <2>5, <2>6
<1>4. CASE CastEnd
  BY <1>4 DEF CastEnd
<1>5. QED
  BY <1>1, <1>2, <1>3, <1>4 DEF Broadcaster

LEMMA StatisticianInv == IInv /\ Statistician => IInv'
<1> SUFFICES ASSUME IInv, Statistician PROVE IInv'
  OBVIOUS
<1> USE DEF IInv, Types, Unborn, Handed, Listed, Fresh, Locked, listVars, sockVars, feedVars
<1>1. CASE StatsCopy
  <2>1. Types'
    <3>1. \/ stats' = [pc |-> "each", targets |-> clients, client |-> stats.client]
          \/ stats' = [pc |-> "exited", targets |-> stats.targets, client |-> stats.client]
      BY <1>1 DEF StatsCopy
    <3>2. QED
      BY <1>1, <3>1 DEF StatsCopy
  <2>2. Unborn' /\ Handed' /\ Listed' /\ Fresh'
    BY <1>1 DEF StatsCopy
  <2>3. Locked'
    BY <1>1 DEF StatsCopy
  <2>4. QED
    BY <2>1, <2>2, <2>3
<1>2. CASE StatsPublish
  BY <1>2 DEF StatsPublish
<1>3. ASSUME NEW c \in Clients, StatsLock(c) PROVE IInv'
  <2>1. Types'
    <3>1. CASE sock[c] = "open"
      <4>1. stats' = [pc |-> "reading", targets |-> stats.targets, client |-> c]
        BY <1>3, <3>1 DEF StatsLock
      <4>2. QED
        BY <1>3, <3>1, <4>1 DEF StatsLock
    <3>2. CASE sock[c] # "open"
      BY <1>3, <3>2 DEF StatsLock
    <3>3. QED
      BY <3>1, <3>2
  <2>2. Unborn' /\ Handed' /\ Listed' /\ Fresh'
    BY <1>3 DEF StatsLock
  <2>3. Locked'
    <3>1. CASE sock[c] = "open"
      <4>1. stats' = [pc |-> "reading", targets |-> stats.targets, client |-> c]
        BY <1>3, <3>1 DEF StatsLock
      <4>2. QED
        BY <1>3, <3>1, <4>1 DEF StatsLock
    <3>2. CASE sock[c] # "open"
      BY <1>3, <3>2 DEF StatsLock
    <3>3. QED
      BY <3>1, <3>2
  <2>4. QED
    BY <2>1, <2>2, <2>3
<1>4. ASSUME NEW c \in Clients, StatsRead(c) PROVE IInv'
  BY <1>4 DEF StatsRead
<1>5. QED
  BY <1>1, <1>2, <1>3, <1>4 DEF Statistician

LEMMA StopperInv == IInv /\ Stopper => IInv'
<1> SUFFICES ASSUME IInv, Stopper PROVE IInv'
  OBVIOUS
<1> USE DEF IInv, Types, Unborn, Handed, Listed, Fresh, Locked, listVars, sockVars, feedVars
<1>1. CASE Start
  <2>1. Types'
    BY <1>1 DEF Start
  <2>2. Unborn' /\ Handed' /\ Listed' /\ Fresh'
    BY <1>1 DEF Start
  <2>3. Locked'
    BY <1>1 DEF Start
  <2>4. QED
    BY <2>1, <2>2, <2>3
<1>2. CASE StopBegin
  BY <1>2 DEF StopBegin
<1>3. CASE StopJoinAccept
  BY <1>3 DEF StopJoinAccept
<1>4. CASE StopJoinStats
  BY <1>4 DEF StopJoinStats
<1>5. CASE StopKilled
  BY <1>5 DEF StopKilled
<1>6. CASE StopClear
  BY <1>6 DEF StopClear
<1>7. ASSUME NEW c \in Clients, StopKill(c) PROVE IInv'
  BY <1>7, Notified DEF StopKill
<1>8. ASSUME NEW c \in Clients, StopCloseSocket(c) PROVE IInv'
  <2>1. Types'
    <3>1. stopper' = [pc |-> "kill", targets |-> stopper.targets, client |-> {}]
      BY <1>8 DEF StopCloseSocket
    <3>2. QED
      BY <1>8, <3>1 DEF StopCloseSocket
  <2>2. Unborn' /\ Handed' /\ Listed' /\ Fresh'
    BY <1>8 DEF StopCloseSocket
  <2>3. Locked'
    BY <1>8 DEF StopCloseSocket
  <2>4. QED
    BY <2>1, <2>2, <2>3
<1>9. QED
  BY <1>1, <1>2, <1>3, <1>4, <1>5, <1>6, <1>7, <1>8 DEF Stopper

LEMMA NextInv == IInv /\ [Next]_vars => IInv'
<1>1. IInv /\ UNCHANGED vars => IInv'
  BY DEF vars, controlVars, listVars, sockVars, feedVars, IInv, Types, Unborn, Handed, Listed,
     Fresh, Locked
<1>2. QED
  BY <1>1, AcceptorInv, WriterInv, BroadcasterInv, StatisticianInv, StopperInv DEF Next

(* NoSocketRace (Client::socketMutex): send, statistics and close of one
   socket never meet inside libsrt, for any number of clients.             *)
THEOREM NoSocketRaceHolds == Spec => []NoSocketRace
<1>1. IInv => NoSocketRace
  BY DEF IInv, Locked, NoSocketRace
<1>2. QED
  BY <1>1, InitInv, NextInv, PTL DEF Spec

-----------------------------------------------------------------------------
(* The steps of the server as steps of FanOut.                             *)

phases == [c \in Clients |-> PhaseOf(c)]

(* A step that moves nobody and feeds nobody is a stutter ...              *)
LEMMA Stutters ==
  ASSUME \A d \in Clients : PhaseOf(d)' = PhaseOf(d), UNCHANGED <<feedVars, sendVars>>
  PROVE  UNCHANGED Feed!vars
BY DEF Feed!vars, feedVars, sendVars

(* ... one that moves a single client is that client's step.               *)
LEMMA Moves ==
  ASSUME NEW c \in Clients, NEW to,
         \A d \in Clients \ {c} : PhaseOf(d)' = PhaseOf(d), PhaseOf(c)' = to
  PROVE  phases' = [phases EXCEPT ![c] = to]
BY DEF phases

LEMMA InitFeeds == Init => Feed!Init
BY DEF Init, Feed!Init, PhaseOf, NoUnit, Feed!NoUnit

LEMMA AcceptorFeeds == IInv /\ Acceptor => [Feed!Next]_(Feed!vars)
<1> SUFFICES ASSUME IInv, Acceptor PROVE [Feed!Next]_(Feed!vars)
  OBVIOUS
<1> USE DEF IInv, Types
<1>1. ASSUME NEW c \in Clients, Accept(c) PROVE [Feed!Next]_(Feed!vars)
  <2>1. PhaseOf(c) = "absent" /\ PhaseOf(c)' = "idle"
    BY <1>1 DEF Accept, PhaseOf, Unborn
  <2>2. \A d \in Clients \ {c} : PhaseOf(d)' = PhaseOf(d)
    BY <1>1 DEF Accept, PhaseOf
  <2>3. UNCHANGED <<feedVars, sendVars>>
    BY <1>1 DEF Accept
  <2>4. Feed!Join(c)
    BY <2>1, <2>2, <2>3, Moves DEF Feed!Join, phases, feedVars, sendVars
  <2>5. QED
    BY <2>4 DEF Feed!Next
<1>2. CASE Spawn
  <2>1. \A d \in Clients : PhaseOf(d)' = PhaseOf(d)
    BY <1>2 DEF Spawn, PhaseOf, Handed
  <2>2. QED
    BY <1>2, <2>1, Stutters DEF Spawn
<1>3. CASE AskForJoin \/ AcceptExit
  <2>1. UNCHANGED <<wpc, alive, feedVars, sendVars>>
    BY <1>3 DEF AskForJoin, AcceptExit
  <2>2. QED
    BY <2>1, Stutters DEF PhaseOf
<1>4. QED
  BY <1>1, <1>2, <1>3 DEF Acceptor

(* A writer's step moves its own client only.                              *)
LEMMA WriterMoves ==
  ASSUME IInv, NEW c \in Clients, Writer(c) \/ SpuriousWakeup(c)
  PROVE  \A d \in Clients \ {c} : PhaseOf(d)' = PhaseOf(d)
BY DEF Writer, SpuriousWakeup, WriterEval, WriterBlocks, WriterLock, SendWhole, SendFatal, SendFull,
   SendReturns, WriterDrop, WriterAsk, WriterExit, WriterClose, WriterErase, PhaseOf, IInv, Types

(* A send that ends, well or not: Deliver or Fail.                         *)
LEMMA SendFeeds ==
  ASSUME IInv, NEW c \in Clients, SendWhole(c) \/ SendFatal(c) \/ SendFull(c)
  PROVE  Feed!Next
<1> USE DEF IInv, Types
<1>1. \A d \in Clients \ {c} : PhaseOf(d)' = PhaseOf(d)
  BY WriterMoves DEF Writer
<1>2. /\ PhaseOf(c) = IF alive[c] THEN "sending" ELSE "dying"
      /\ UNCHANGED feedVars /\ hand' = [hand EXCEPT ![c] = Feed!NoUnit]
  BY DEF SendWhole, SendFatal, SendFull, SendReturns, PhaseOf, NoUnit, Feed!NoUnit
<1>3. CASE SendWhole(c)
  <2>1. PhaseOf(c)' = (IF PhaseOf(c) = "sending" THEN "idle" ELSE "left")
        /\ intact' = [intact EXCEPT ![c] = TRUE]
    BY <1>2, <1>3 DEF SendWhole, SendReturns, PhaseOf
  <2>2. Feed!Deliver(c)
    BY <1>1, <1>2, <2>1, Moves DEF Feed!Deliver, phases, feedVars
  <2>3. QED
    BY <2>2 DEF Feed!Next
<1>4. CASE SendFatal(c) \/ SendFull(c)
  <2>1. PhaseOf(c)' \in {"failed", "left"} /\ (PhaseOf(c) = "dying" => PhaseOf(c)' = "left")
        /\ intact' = [intact EXCEPT ![c] = FALSE]
    BY <1>2, <1>4 DEF SendFatal, SendFull, SendReturns, PhaseOf
  <2>2. Feed!Fail(c)
    BY <1>1, <1>2, <2>1, Moves DEF Feed!Fail, phases, feedVars
  <2>3. QED
    BY <2>2 DEF Feed!Next
<1>5. QED
  BY <1>3, <1>4

LEMMA WriterFeeds ==
  ASSUME IInv, NEW c \in Clients, Writer(c) \/ SpuriousWakeup(c)
  PROVE  [Feed!Next]_(Feed!vars)
<1> USE DEF IInv, Types
<1>1. \A d \in Clients \ {c} : PhaseOf(d)' = PhaseOf(d)
  BY WriterMoves
<1>2. CASE WriterEval(c)
  <2>1. CASE alive[c] /\ queue[c] # <<>>
    <3>1. PhaseOf(c) = "idle" /\ PhaseOf(c)' = "sending"
      BY <1>2, <2>1 DEF WriterEval, PhaseOf
    <3>2. Feed!Take(c)
      BY <1>1, <1>2, <2>1, <3>1, Moves DEF WriterEval, Feed!Take, phases
    <3>3. QED
      BY <3>2 DEF Feed!Next
  <2>2. CASE ~(alive[c] /\ queue[c] # <<>>)
    <3>1. PhaseOf(c)' = PhaseOf(c) /\ UNCHANGED <<feedVars, sendVars>>
      BY <1>2, <2>2 DEF WriterEval, PhaseOf, feedVars, sendVars
    <3>2. QED
      BY <1>1, <3>1, Stutters
  <2>3. QED
    BY <2>1, <2>2
<1>3. CASE WriterLock(c)
  <2>1. CASE sock[c] = "open"
    <3>1. PhaseOf(c)' = PhaseOf(c) /\ UNCHANGED <<feedVars, sendVars>>
      BY <1>3, <2>1 DEF WriterLock, PhaseOf, sendVars
    <3>2. QED
      BY <1>1, <3>1, Stutters
  <2>2. CASE sock[c] # "open"
    <3>1. PhaseOf(c) \in {"sending", "dying"} /\ PhaseOf(c)' = "left"
      BY <1>3, <2>2 DEF WriterLock, PhaseOf
    <3>2. /\ UNCHANGED feedVars /\ hand' = [hand EXCEPT ![c] = Feed!NoUnit]
          /\ intact' = [intact EXCEPT ![c] = FALSE]
      BY <1>3, <2>2 DEF WriterLock, NoUnit, Feed!NoUnit
    <3>3. Feed!Fail(c)
      BY <1>1, <3>1, <3>2, Moves DEF Feed!Fail, phases, feedVars
    <3>4. QED
      BY <3>3 DEF Feed!Next
  <2>3. QED
    BY <2>1, <2>2
<1>4. CASE WriterDrop(c)
  <2>1. PhaseOf(c) \in {"failed", "left"}
        /\ PhaseOf(c)' = IF PhaseOf(c) = "failed" THEN "idle" ELSE PhaseOf(c)
    BY <1>4 DEF WriterDrop, PhaseOf
  <2>2. Feed!Resync(c)
    BY <1>1, <1>4, <2>1, Moves DEF WriterDrop, Feed!Resync, phases, sendVars
  <2>3. QED
    BY <2>2 DEF Feed!Next
<1>5. CASE \/ WriterBlocks(c) \/ SpuriousWakeup(c) \/ WriterAsk(c) \/ WriterExit(c)
           \/ WriterClose(c) \/ WriterErase(c)
  <2>1. PhaseOf(c)' = PhaseOf(c) /\ UNCHANGED <<feedVars, sendVars>>
    BY <1>5 DEF WriterBlocks, SpuriousWakeup, WriterAsk, WriterExit, WriterClose, WriterErase,
       PhaseOf
  <2>2. QED
    BY <1>1, <2>1, Stutters
<1>6. QED
  BY <1>2, <1>3, <1>4, <1>5, SendFeeds DEF Writer

LEMMA BroadcasterFeeds == IInv /\ Broadcaster => [Feed!Next]_(Feed!vars)
<1> SUFFICES ASSUME IInv, Broadcaster PROVE [Feed!Next]_(Feed!vars)
  OBVIOUS
<1> USE DEF IInv, Types
<1>1. ASSUME NEW key \in BOOLEAN, CastBegin(key) PROVE [Feed!Next]_(Feed!vars)
  <2>1. \A c \in Clients \ clients : awaiting[c] \/ PhaseOf(c) = "left"
    BY <1>1 DEF CastBegin, Listed, Unborn, PhaseOf
  <2>2. UNCHANGED <<phases, queue, awaiting, hand, intact>>
    BY <1>1 DEF CastBegin, sendVars, phases, PhaseOf
  <2>3. missed' = [c \in Clients |-> missed[c] \/ c \notin clients]
    BY <1>1 DEF CastBegin
  <2>4. Feed!Withhold(clients)
    BY <2>1, <2>2, <2>3 DEF Feed!Withhold, Feed!Doomed, phases
  <2>5. QED
    BY <2>4 DEF Feed!Next
<1>2. ASSUME NEW c \in Clients, CastTest(c) PROVE [Feed!Next]_(Feed!vars)
  <2>1. UNCHANGED <<phases, queue, awaiting, hand, intact>>
    BY <1>2 DEF CastTest, sendVars, phases, PhaseOf
  <2>2. CASE UNCHANGED missed
    BY <2>1, <2>2 DEF Feed!vars, phases
  <2>3. CASE ~alive[c] /\ missed' = [missed EXCEPT ![c] = TRUE]
    <3>1. PhaseOf(c) \in {"dying", "left"}
      BY <2>3 DEF PhaseOf, Unborn
    <3>2. Feed!Withhold(Clients \ {c})
      BY <2>1, <2>3, <3>1 DEF Feed!Withhold, Feed!Doomed, phases
    <3>3. QED
      BY <3>2 DEF Feed!Next
  <2>4. QED
    BY <1>2, <2>2, <2>3 DEF CastTest
<1>3. ASSUME NEW c \in Clients, CastOffer(c) PROVE [Feed!Next]_(Feed!vars)
  <2>1. PhaseOf(c) # "absent"
    BY <1>3 DEF CastOffer, Unborn, PhaseOf
  <2>2. UNCHANGED <<phases, hand, intact>>
    BY <1>3 DEF CastOffer, Skip, DropToKeyframe, Enqueue, Notify, sendVars, phases, PhaseOf
  <2>3. \/ Feed!OfferSkipped(c, cast.key)
        \/ Feed!OfferOverflows(c, cast.key)
        \/ Feed!OfferQueued(c, cast.key)
    BY <1>3, QueueAssumption DEF CastOffer, Skip, QueueFull, DropToKeyframe, Enqueue,
       Feed!OfferSkipped, Feed!OfferOverflows, Feed!OfferQueued
  <2>4. Feed!Offer(c, cast.key)
    BY <2>1, <2>2, <2>3 DEF Feed!Offer, phases
  <2>5. QED
    BY <2>4 DEF Feed!Next
<1>4. CASE CastEnd
  <2>1. UNCHANGED <<wpc, alive, feedVars, sendVars>>
    BY <1>4 DEF CastEnd
  <2>2. QED
    BY <2>1, Stutters DEF PhaseOf
<1>5. QED
  BY <1>1, <1>2, <1>3, <1>4 DEF Broadcaster

LEMMA StopperFeeds == IInv /\ Stopper => [Feed!Next]_(Feed!vars)
<1> SUFFICES ASSUME IInv, Stopper PROVE [Feed!Next]_(Feed!vars)
  OBVIOUS
<1>1. ASSUME NEW c \in Clients, StopKill(c) PROVE [Feed!Next]_(Feed!vars)
  <2>1. \A d \in Clients \ {c} : PhaseOf(d)' = PhaseOf(d)
    BY <1>1 DEF StopKill, PhaseOf, Notify, IInv, Types
  <2>2. /\ PhaseOf(c) # "absent" /\ UNCHANGED <<feedVars, sendVars>>
        /\ PhaseOf(c)' = (IF PhaseOf(c) \in {"sending", "dying"} THEN "dying" ELSE "left")
    BY <1>1 DEF StopKill, PhaseOf, Notify, IInv, Types, Unborn
  <2>3. CASE PhaseOf(c) \in {"idle", "sending", "failed"}
    <3>1. Feed!Leave(c)
      BY <2>1, <2>2, <2>3, Moves DEF Feed!Leave, phases, feedVars, sendVars
    <3>2. QED
      BY <3>1 DEF Feed!Next
  <2>4. CASE PhaseOf(c) \in {"dying", "left"}
    BY <2>1, <2>2, <2>4, Stutters
  <2>5. QED
    BY <2>2, <2>3, <2>4 DEF PhaseOf
<1>2. CASE \/ Start \/ StopBegin \/ StopJoinAccept \/ StopJoinStats \/ StopKilled \/ StopClear
           \/ \E c \in Clients : StopCloseSocket(c)
  <2>1. UNCHANGED <<wpc, alive, feedVars, sendVars>>
    BY <1>2 DEF Start, StopBegin, StopJoinAccept, StopJoinStats, StopKilled, StopClear,
       StopCloseSocket
  <2>2. QED
    BY <2>1, Stutters DEF PhaseOf
<1>3. QED
  BY <1>1, <1>2 DEF Stopper

LEMMA StepFeeds == IInv /\ [Next]_vars => [Feed!Next]_(Feed!vars)
<1>1. CASE \/ UNCHANGED vars \/ Statistician \/ \E c \in Clients : PeerVanishes(c)
  <2>1. UNCHANGED <<wpc, alive, feedVars, sendVars>>
    BY <1>1 DEF vars, Statistician, StatsCopy, StatsPublish, StatsLock, StatsRead, PeerVanishes
  <2>2. QED
    BY <2>1, Stutters DEF PhaseOf
<1>2. QED
  BY <1>1, AcceptorFeeds, WriterFeeds, BroadcasterFeeds, StopperFeeds DEF Next

-----------------------------------------------------------------------------

(* However the accept, writer, statistics, render and stopping threads
   interleave and whatever libsrt answers, each viewer's queue behaves as
   FanOut's (SrtServer::broadcast, serviceClient, acceptLoop, stop), for any
   number of viewers.                                                      *)
THEOREM FanOutImplemented == Spec => ImplementsFanOut
<1>1. Init => IInv /\ Feed!Init
  BY InitInv, InitFeeds
<1>2. QED
  BY <1>1, NextInv, StepFeeds, PTL DEF Spec, ImplementsFanOut, Feed!Spec

(* What FanOutProofs proves, of this server.                               *)
FeedProofs == INSTANCE FanOutProofs WITH phase <- [c \in Clients |-> PhaseOf(c)]

(* No viewer of the SRT rung is ever sent an access unit it cannot decode
   (Client::awaitingKeyframe), though a send that finds the buffer full may
   leave any unit half sent.                                               *)
THEOREM NeverMidGopHere == Spec => []Feed!NeverMidGop
<1>1. FeedProofs!Spec => []FeedProofs!NeverMidGop
  BY QueueAssumption, FeedProofs!NeverMidGopHolds
<1>2. Feed!Spec => FeedProofs!Spec
  <2>1. Feed!Init => FeedProofs!Init
    BY DEF Feed!Init, FeedProofs!Init, Feed!NoUnit, FeedProofs!NoUnit
  <2>2. [Feed!Next]_(Feed!vars) => [FeedProofs!Next]_(FeedProofs!vars)
    BY DEF Feed!Next, FeedProofs!Next, Feed!vars, FeedProofs!vars, Feed!Doomed, FeedProofs!Doomed,
       Feed!NoUnit, FeedProofs!NoUnit, Feed!Join, FeedProofs!Join, Feed!Withhold,
       FeedProofs!Withhold, Feed!Offer, FeedProofs!Offer, Feed!OfferSkipped,
       FeedProofs!OfferSkipped, Feed!OfferOverflows, FeedProofs!OfferOverflows, Feed!OfferQueued,
       FeedProofs!OfferQueued, Feed!Take, FeedProofs!Take, Feed!Deliver, FeedProofs!Deliver,
       Feed!Fail, FeedProofs!Fail, Feed!Resync, FeedProofs!Resync, Feed!Leave, FeedProofs!Leave
  <2>3. QED
    BY <2>1, <2>2, PTL DEF Feed!Spec, FeedProofs!Spec
<1>3. FeedProofs!NeverMidGop => Feed!NeverMidGop
  BY DEF Feed!NeverMidGop, FeedProofs!NeverMidGop
<1>4. QED
  BY <1>1, <1>2, <1>3, FanOutImplemented, PTL DEF ImplementsFanOut

-----------------------------------------------------------------------------
(* LinkInv, for every finite set of clients: no live client waits for a
   keyframe nobody asked for, and stop() leaves no connection, count, open
   socket or thread behind.  The inductive invariant, LInv, adds to the types
   and to IInv which threads stop() has joined so far (JoinedInTurn), that it
   is on the way to closing every open socket (Closing), that a writer closes
   its socket before it leaves the list (ClosedFirst), and what covers a
   waiting client while a broadcast is under way (Gaps).                   *)

JoinedInTurn ==
  /\ stopper.pc \in {"joinStats", "kill", "close", "wait", "stopped"} => acceptor.pc = "exited"
  /\ stopper.pc \in {"kill", "close", "wait", "stopped"} => stats.pc = "exited"

Closing ==
  \A c \in Clients : sock[c] = "open" =>
    /\ stopper.pc # "stopped" => c \in clients
    /\ stopper.pc \in {"kill", "wait", "stopped"} => stopper.pc = "kill" /\ c \in stopper.targets
    /\ stopper.pc = "close" => c \in stopper.targets \/ stopper.client = c

ClosedFirst == \A c \in Clients : wpc[c] \in {"erase", "gone"} => sock[c] # "open"

Emptied ==
  /\ stopper.pc = "new" => clients = {}
  /\ stopper.pc = "stopped" => clients = {} /\ clientCount = 0

Gaps ==
  running => \A c \in clients : awaiting[c] /\ alive[c] =>
    \/ asked
    \/ wpc[c] = "ask"
    \/ acceptor.pc \in {"spawn", "ask"} /\ acceptor.client = c
    \/ cast.pc # "idle" /\ cast.overflowed
    \/ cast.pc = "each" /\ cast.key /\ c \in cast.targets
    \/ cast.pc = "offer" /\ cast.key /\ (c \in cast.targets \/ cast.client = c)

(* What TypeOK says of the variables that Types leaves out.                *)
CountTypes == clientCount \in 0..Cardinality(Clients) /\ asked \in BOOLEAN
                /\ broken \in [Clients -> BOOLEAN]

UnitTypes ==
  /\ queue \in [Clients -> Seq(Unit)]
  /\ hand \in [Clients -> Unit]
  /\ intact \in [Clients -> BOOLEAN]

(* The inductive invariant.                                                *)
LInv ==
  /\ IInv /\ CountTypes /\ UnitTypes
  /\ JoinedInTurn /\ Closing /\ ClosedFirst /\ Emptied /\ Gaps

USE DEF Joined, Sending, Exiting, PCs, running

(* The only facts about cardinalities that are needed.                     *)
LEMMA Cards ==
  ASSUME NEW S \in SUBSET Clients
  PROVE  /\ Cardinality(S) \in 0..Cardinality(Clients)
         /\ Cardinality(S) = 0 <=> S = {}
<1>1. IsFiniteSet(S) /\ Cardinality(S) <= Cardinality(Clients)
  BY ClientsAssumption, FS_Subset
<1>2. Cardinality(S) \in Nat /\ Cardinality(Clients) \in Nat
  BY <1>1, ClientsAssumption, FS_CardinalityType
<1>3. QED
  BY <1>1, <1>2, FS_EmptySet

(* The server starts with nobody.                                          *)
LEMMA LInit == Init => LInv
<1> SUFFICES ASSUME Init PROVE LInv
  OBVIOUS
<1>1. 0 \in 0..Cardinality(Clients) /\ <<>> \in Seq(Unit) /\ NoUnit \in Unit
  BY Cards, EmptySeq DEF NoUnit, Unit
<1>2. CountTypes
  BY <1>1 DEF Init, CountTypes
<1>3. UnitTypes
  BY <1>1 DEF Init, UnitTypes
<1>4. JoinedInTurn /\ Closing /\ ClosedFirst /\ Emptied /\ Gaps
  BY DEF Init, JoinedInTurn, Closing, ClosedFirst, Emptied, Gaps
<1>5. QED
  BY <1>2, <1>3, <1>4, InitInv DEF LInv

(* The count never exceeds the clients there are.                          *)
LEMMA CountsKept == LInv /\ [Next]_vars => CountTypes'
<1> SUFFICES ASSUME LInv, [Next]_vars PROVE CountTypes'
  OBVIOUS
<1>0. CountTypes /\ clients' \in SUBSET Clients /\ cast.overflowed \in BOOLEAN
      /\ 0 \in 0..Cardinality(Clients)
  BY NextInv, Cards DEF LInv, IInv, Types
<1>1. clientCount' \in 0..Cardinality(Clients)
  <2>1. clientCount' \in {clientCount, 0, Cardinality(clients')}
    BY DEF Next, Acceptor, Broadcaster, Statistician, Stopper, Writer, vars, listVars, Accept,
       Spawn, AskForJoin, AcceptExit, WriterEval, WriterBlocks, WriterLock, SendWhole, SendFatal,
       SendFull, SendReturns, WriterDrop, WriterAsk, WriterExit, WriterClose, WriterErase,
       CountAfter, SpuriousWakeup, PeerVanishes, CastBegin, CastTest, CastOffer, CastEnd,
       StatsCopy, StatsLock, StatsRead, StatsPublish, Start, StopBegin, StopJoinAccept,
       StopJoinStats, StopKill, StopCloseSocket, StopKilled, StopClear
  <2>2. QED
    BY <1>0, <2>1, Cards DEF CountTypes
<1>2. asked' \in BOOLEAN /\ broken' \in [Clients -> BOOLEAN]
  <2>1. \/ UNCHANGED broken
        \/ \E c \in Clients : broken' = [broken EXCEPT ![c] = TRUE]
    BY DEF Next, Acceptor, Broadcaster, Statistician, Stopper, Writer, vars, sockVars, Accept,
       Spawn, AskForJoin, AcceptExit, WriterEval, WriterBlocks, WriterLock, SendWhole, SendFatal,
       SendFull, SendReturns, WriterDrop, WriterAsk, WriterExit, WriterClose, WriterErase,
       SpuriousWakeup, PeerVanishes, CastBegin, CastTest, CastOffer, CastEnd, StatsCopy,
       StatsLock, StatsRead, StatsPublish, Start, StopBegin, StopJoinAccept, StopJoinStats,
       StopKill, StopCloseSocket, StopKilled, StopClear
  <2>2. \/ UNCHANGED asked \/ asked' = TRUE \/ asked' = (asked \/ cast.overflowed)
        \/ \E key \in BOOLEAN : asked' = (asked /\ ~key)
    BY DEF Next, Acceptor, Broadcaster, Statistician, Stopper, Writer, vars, Accept,
       Spawn, AskForJoin, AcceptExit, WriterEval, WriterBlocks, WriterLock, SendWhole, SendFatal,
       SendFull, SendReturns, WriterDrop, WriterAsk, WriterExit, WriterClose, WriterErase,
       SpuriousWakeup, PeerVanishes, CastBegin, CastTest, CastOffer, CastEnd, StatsCopy,
       StatsLock, StatsRead, StatsPublish, Start, StopBegin, StopJoinAccept, StopJoinStats,
       StopKill, StopCloseSocket, StopKilled, StopClear
  <2>3. QED
    BY <1>0, <2>1, <2>2 DEF CountTypes
<1>3. QED
  BY <1>1, <1>2 DEF CountTypes

(* Queues hold units, whatever is popped, dropped or appended.             *)
LEMMA UnitsKept == LInv /\ [Next]_vars => UnitTypes'
<1> SUFFICES ASSUME LInv, [Next]_vars PROVE UnitTypes'
  OBVIOUS
<1>0. UnitTypes /\ Types /\ NoUnit \in Unit
  BY DEF LInv, IInv, NoUnit, Unit
<1>1. ASSUME NEW c \in Clients, WriterEval(c) PROVE UnitTypes'
  <2>1. queue[c] \in Seq(Unit)
    BY <1>0 DEF UnitTypes
  <2>2. CASE alive[c] /\ queue[c] # <<>>
    <3>1. Head(queue[c]) \in Unit /\ Tail(queue[c]) \in Seq(Unit)
      BY <2>1, <2>2
    <3>2. QED
      BY <1>0, <1>1, <2>2, <3>1 DEF WriterEval, UnitTypes
  <2>3. CASE ~(alive[c] /\ queue[c] # <<>>)
    BY <1>0, <1>1, <2>3 DEF WriterEval, UnitTypes
  <2>4. QED
    BY <2>2, <2>3
<1>2. ASSUME NEW c \in Clients, SendWhole(c) \/ SendFatal(c) \/ SendFull(c) \/ WriterLock(c)
      PROVE  UnitTypes'
  <2>1. /\ hand' = [hand EXCEPT ![c] = NoUnit] \/ UNCHANGED hand
        /\ UNCHANGED intact \/ \E b \in BOOLEAN : intact' = [intact EXCEPT ![c] = b]
        /\ UNCHANGED queue
    BY <1>2 DEF SendWhole, SendFatal, SendFull, SendReturns, WriterLock, feedVars
  <2>2. QED
    BY <1>0, <2>1 DEF UnitTypes
<1>3. ASSUME NEW c \in Clients, WriterDrop(c) PROVE UnitTypes'
  <2>1. queue' = [queue EXCEPT ![c] = <<>>] /\ UNCHANGED <<hand, intact>>
    BY <1>3 DEF WriterDrop, sendVars
  <2>2. <<>> \in Seq(Unit)
    BY EmptySeq
  <2>3. QED
    BY <1>0, <2>1, <2>2 DEF UnitTypes
<1>4. ASSUME NEW c \in Clients, CastOffer(c) PROVE UnitTypes'
  <2>1. [key |-> cast.key, follows |-> ~missed[c]] \in Unit /\ queue[c] \in Seq(Unit)
    BY <1>0 DEF Unit, Types, UnitTypes
  <2>2. /\ Append(queue[c], [key |-> cast.key, follows |-> ~missed[c]]) \in Seq(Unit)
        /\ <<>> \in Seq(Unit)
    BY <2>1, AppendProperties, EmptySeq
  <2>3. UNCHANGED queue \/ \E q \in Seq(Unit) : queue' = [queue EXCEPT ![c] = q]
    BY <1>4, <2>2 DEF CastOffer, Skip, DropToKeyframe, Enqueue
  <2>4. UNCHANGED <<hand, intact>>
    BY <1>4 DEF CastOffer, sendVars
  <2>5. QED
    BY <1>0, <2>3, <2>4 DEF UnitTypes
<1>5. UNCHANGED <<queue, sendVars>> => UnitTypes'
  BY <1>0 DEF UnitTypes, sendVars
<1>6. QED
  BY <1>1, <1>2, <1>3, <1>4, <1>5 DEF Next, Acceptor, Broadcaster, Statistician, Stopper, Writer,
     vars, feedVars, Accept, Spawn, AskForJoin, AcceptExit, WriterBlocks, WriterAsk, WriterExit,
     WriterClose, WriterErase, SpuriousWakeup, PeerVanishes, CastBegin, CastTest, CastEnd,
     StatsCopy, StatsLock, StatsRead, StatsPublish, Start, StopBegin, StopJoinAccept,
     StopJoinStats, StopKill, StopCloseSocket, StopKilled, StopClear

(* Only start() enters "run", and only the last step of stop() "stopped".   *)
LEMMA StopperMoves ==
  ASSUME LInv, Stopper
  PROVE  /\ stopper'.pc # "new"
         /\ Start \/ stopper'.pc # "run"
         /\ StopClear \/ stopper'.pc # "stopped"
<1>0. Types
  BY DEF LInv, IInv
<1>1. StopBegin \/ StopJoinAccept \/ StopKilled \/ Start \/ StopClear =>
        \E pc \in {"run", "joinAccept", "joinStats", "wait", "stopped"} :
          /\ stopper' = [stopper EXCEPT !.pc = pc]
          /\ (pc = "run" => Start) /\ (pc = "stopped" => StopClear)
  BY DEF StopBegin, StopJoinAccept, StopKilled, Start, StopClear
<1>2. CASE StopBegin \/ StopJoinAccept \/ StopKilled \/ Start \/ StopClear
  BY <1>0, <1>1, <1>2 DEF Types
<1>3. CASE StopJoinStats
  BY <1>0, <1>3 DEF Types, StopJoinStats
<1>4. ASSUME NEW c \in Clients, StopKill(c) PROVE stopper'.pc = "close"
  BY <1>4 DEF StopKill
<1>5. ASSUME NEW c \in Clients, StopCloseSocket(c) PROVE stopper'.pc = "kill"
  BY <1>0, <1>5 DEF Types, StopCloseSocket
<1>6. QED
  BY <1>2, <1>3, <1>4, <1>5 DEF Stopper

(* stop() joins one thread after the other, and neither starts again.      *)
LEMMA JoinedKept == LInv /\ [Next]_vars => JoinedInTurn'
<1> SUFFICES ASSUME LInv, [Next]_vars PROVE JoinedInTurn'
  OBVIOUS
<1>0. JoinedInTurn /\ Types
  BY DEF LInv, IInv
<1>1. Acceptor => JoinedInTurn'
  BY <1>0 DEF JoinedInTurn, Types, Acceptor, Accept, Spawn, AskForJoin, AcceptExit
<1>2. Statistician => JoinedInTurn'
  BY <1>0 DEF JoinedInTurn, Types, Statistician, StatsCopy, StatsLock, StatsRead, StatsPublish
<1>3. Stopper => JoinedInTurn'
  BY <1>0 DEF JoinedInTurn, Types, Stopper, Start, StopBegin, StopJoinAccept, StopJoinStats,
     StopKill, StopCloseSocket, StopKilled, StopClear
<1>4. UNCHANGED controlVars => JoinedInTurn'
  BY <1>0 DEF JoinedInTurn, controlVars
<1>5. QED
  BY <1>1, <1>2, <1>3, <1>4 DEF Next, Broadcaster, Writer, vars, WriterEval, WriterBlocks,
     WriterLock, SendWhole, SendFatal, SendFull, SendReturns, WriterDrop, WriterAsk, WriterExit,
     WriterClose, WriterErase, SpuriousWakeup, PeerVanishes, CastBegin, CastTest, CastOffer, CastEnd

(* A socket is opened before its writer runs and closed before the erase.  *)
LEMMA ClosedKept == LInv /\ [Next]_vars => ClosedFirst'
<1> SUFFICES ASSUME LInv, [Next]_vars PROVE ClosedFirst'
  OBVIOUS
<1>0. ClosedFirst /\ Types /\ Handed
  BY DEF LInv, IInv
<1>1. Acceptor => ClosedFirst'
  BY <1>0 DEF ClosedFirst, Types, Handed, Acceptor, Accept, Spawn, AskForJoin, AcceptExit, sockVars
<1>2. \A c \in Clients : Writer(c) \/ SpuriousWakeup(c) => ClosedFirst'
  BY <1>0 DEF ClosedFirst, Types, Writer, SpuriousWakeup, WriterEval, WriterBlocks, WriterLock,
     SendWhole, SendFatal, SendFull, SendReturns, WriterDrop, WriterAsk, WriterExit, WriterClose,
     WriterErase, sockVars
<1>3. \A c \in Clients : CastOffer(c) \/ StopKill(c) \/ StopCloseSocket(c) => ClosedFirst'
  BY <1>0 DEF ClosedFirst, Types, CastOffer, Skip, DropToKeyframe, Enqueue, Notify, StopKill,
     StopCloseSocket, sockVars
<1>4. UNCHANGED <<wpc, sock>> => ClosedFirst'
  BY <1>0 DEF ClosedFirst
<1>5. QED
  BY <1>1, <1>2, <1>3, <1>4 DEF Next, Broadcaster, Statistician, Stopper, vars, sockVars,
     PeerVanishes, CastBegin, CastTest, CastEnd, StatsCopy, StatsLock, StatsRead, StatsPublish,
     Start, StopBegin, StopJoinAccept, StopJoinStats, StopKilled, StopClear

(* Every open socket belongs to a listed client, and stop() works through a
   copy of the list that nobody joins any more.                            *)
LEMMA ClosingKept == LInv /\ [Next]_vars => Closing'
<1> SUFFICES ASSUME LInv, [Next]_vars PROVE Closing'
  OBVIOUS
<1>0. Closing /\ ClosedFirst /\ JoinedInTurn /\ Types
  BY DEF LInv, IInv
<1>1. Acceptor => Closing'
  BY <1>0 DEF Closing, JoinedInTurn, Types, Acceptor, Accept, Spawn, AskForJoin, AcceptExit,
     sockVars, listVars
<1>2. Stopper => Closing'
  <2>1. Start \/ StopBegin \/ StopJoinAccept \/ StopJoinStats => Closing'
    <3>1. Start \/ StopBegin \/ StopJoinAccept => Closing'
      <4>1. Start \/ StopBegin \/ StopJoinAccept =>
              /\ UNCHANGED <<clients, sock>> /\ stopper.pc # "stopped"
              /\ stopper'.pc \in {"run", "joinAccept", "joinStats"}
        BY <1>0 DEF Types, Start, StopBegin, StopJoinAccept, sockVars, listVars
      <4>2. QED
        BY <1>0, <4>1 DEF Closing
    <3>2. StopJoinStats => Closing'
      <4>1. StopJoinStats =>
              /\ UNCHANGED <<clients, sock>> /\ stopper.pc = "joinStats"
              /\ stopper'.pc = "kill" /\ stopper'.targets = clients
        BY <1>0 DEF Types, StopJoinStats, sockVars, listVars
      <4>2. QED
        BY <1>0, <4>1 DEF Closing
    <3>3. QED
      BY <3>1, <3>2
  <2>2. StopKilled \/ StopClear => Closing'
    BY <1>0 DEF Closing, Types, StopKilled, StopClear, sockVars, listVars
  <2>3. \A c \in Clients : StopKill(c) => Closing'
    BY <1>0 DEF Closing, Types, StopKill, sockVars, listVars
  <2>4. ASSUME NEW c \in Clients, StopCloseSocket(c) PROVE Closing'
    <3>1. stopper' = [pc |-> "kill", targets |-> stopper.targets, client |-> {}]
      BY <1>0, <2>4 DEF StopCloseSocket, Types
    <3>2. QED
      BY <1>0, <2>4, <3>1 DEF Closing, Types, StopCloseSocket, listVars
  <2>5. QED
    BY <2>1, <2>2, <2>3, <2>4 DEF Stopper
<1>3. \A c \in Clients : WriterClose(c) \/ WriterErase(c) => Closing'
  BY <1>0 DEF Closing, ClosedFirst, Types, WriterClose, WriterErase, controlVars, listVars, sockVars
<1>4. UNCHANGED <<stopper, clients, sock>> => Closing'
  BY <1>0 DEF Closing
<1>5. QED
  BY <1>1, <1>2, <1>3, <1>4 DEF Next, Broadcaster, Statistician, Writer, vars, controlVars,
     listVars, sockVars, WriterEval, WriterBlocks, WriterLock, SendWhole, SendFatal, SendFull,
     SendReturns, WriterDrop, WriterAsk, WriterExit, SpuriousWakeup, PeerVanishes, CastBegin,
     CastTest, CastOffer, CastEnd, StatsCopy, StatsLock, StatsRead, StatsPublish

(* Nobody joins, and nobody is counted, once stop() is over.               *)
LEMMA EmptiedKept == LInv /\ [Next]_vars => Emptied'
<1> SUFFICES ASSUME LInv, [Next]_vars PROVE Emptied'
  OBVIOUS
<1>0. Emptied /\ JoinedInTurn /\ Fresh /\ Types
  BY DEF LInv, IInv
<1>1. Acceptor => Emptied'
  BY <1>0 DEF Emptied, JoinedInTurn, Fresh, Acceptor, Accept, Spawn, AskForJoin, AcceptExit, listVars
<1>2. Stopper => Emptied'
  <2>1. CASE StopClear
    BY <1>0, <2>1 DEF Emptied, Types, StopClear
  <2>2. CASE Stopper /\ ~StopClear
    BY <2>2, StopperMoves DEF Emptied
  <2>3. QED
    BY <2>1, <2>2
<1>3. ASSUME NEW c \in Clients, WriterErase(c) PROVE Emptied'
  <2>1. clients' = clients \ {c} /\ clientCount' = Cardinality(clients') /\ UNCHANGED stopper
        /\ clients' \in SUBSET Clients
    BY <1>0, <1>3 DEF WriterErase, CountAfter, controlVars, Types
  <2>2. clientCount' = 0 <=> clients' = {}
    BY <2>1, Cards
  <2>3. QED
    BY <1>0, <2>1, <2>2 DEF Emptied
<1>4. UNCHANGED <<stopper, clients, clientCount>> => Emptied'
  BY <1>0 DEF Emptied
<1>5. QED
  BY <1>1, <1>2, <1>3, <1>4 DEF Next, Broadcaster, Statistician, Writer, vars, controlVars,
     listVars, WriterEval, WriterBlocks, WriterLock, SendWhole, SendFatal, SendFull,
     SendReturns, WriterDrop, WriterAsk, WriterExit, WriterClose, SpuriousWakeup, PeerVanishes,
     CastBegin, CastTest, CastOffer, CastEnd, StatsCopy, StatsLock, StatsRead, StatsPublish

(* A keyframe clears the request only to offer itself to every listed client;
   a client dropped by the broadcast leaves its mark there, and one dropped by
   its own writer has that writer about to ask.                            *)
LEMMA GapsKept == LInv /\ [Next]_vars => Gaps'
<1> SUFFICES ASSUME LInv, [Next]_vars PROVE Gaps'
  OBVIOUS
<1>0. Gaps /\ Unborn /\ Handed /\ Fresh /\ Types
  BY DEF LInv, IInv
<1>1. Acceptor => Gaps'
  <2>1. \A c \in Clients : Accept(c) => Gaps'
    BY <1>0 DEF Gaps, Types, Accept, feedVars
  <2>2. Spawn => Gaps'
    BY <1>0 DEF Gaps, Types, Handed, Spawn, feedVars, listVars
  <2>3. AskForJoin \/ AcceptExit => Gaps'
    BY <1>0 DEF Gaps, Types, AskForJoin, AcceptExit, feedVars, listVars
  <2>4. QED
    BY <2>1, <2>2, <2>3 DEF Acceptor
<1>2. Stopper => Gaps'
  <2>1. Start => Gaps'
    BY DEF LInv, Emptied, Gaps, Start, listVars
  <2>2. QED
    <3>1. Stopper => Start \/ stopper'.pc # "run"
      BY StopperMoves
    <3>2. QED
      BY <2>1, <3>1 DEF Gaps
<1>3. ASSUME NEW key \in BOOLEAN, CastBegin(key) PROVE Gaps'
  BY <1>0, <1>3 DEF Gaps, Types, CastBegin, controlVars, listVars
<1>4. ASSUME NEW d \in Clients, CastTest(d) PROVE Gaps'
  <2>1. /\ UNCHANGED <<stopper, acceptor, clients, asked, wpc, alive, awaiting>>
        /\ cast.pc = "each" /\ cast'.key = cast.key /\ cast'.overflowed = cast.overflowed
        /\ cast'.targets = cast.targets \ {d}
        /\ \/ ~alive[d] /\ cast'.pc = "each"
           \/ cast'.pc = "offer" /\ cast'.client = d
    BY <1>0, <1>4 DEF CastTest, Types, controlVars, listVars
  <2>2. QED
    BY <1>0, <2>1 DEF Gaps, Types
<1>5. ASSUME NEW d \in Clients, CastOffer(d) PROVE Gaps'
  <2>1. /\ UNCHANGED <<stopper, acceptor, clients, asked, alive>>
        /\ cast.pc = "offer" /\ cast.client = d /\ cast'.pc = "each" /\ cast'.key = cast.key
        /\ cast'.targets = cast.targets /\ (cast.overflowed => cast'.overflowed)
    BY <1>0, <1>5 DEF CastOffer, Types, controlVars, listVars
  <2>2. ASSUME NEW c \in Clients, awaiting'[c]
        PROVE  (awaiting[c] /\ (c = d => ~cast.key)) \/ cast'.overflowed
    BY <1>0, <1>5, <2>2 DEF CastOffer, Skip, DropToKeyframe, Enqueue, Types
  <2>3. \A c \in Clients : wpc[c] = "ask" => wpc'[c] = "ask"
    BY <1>0, <1>5 DEF CastOffer, Skip, DropToKeyframe, Enqueue, Notify, Types
  <2>4. QED
    BY <1>0, <2>1, <2>2, <2>3 DEF Gaps, Types
<1>6. CastEnd => Gaps'
  BY <1>0 DEF Gaps, Types, CastEnd, controlVars, listVars, feedVars
<1>7. ASSUME NEW d \in Clients, Writer(d) \/ SpuriousWakeup(d) PROVE Gaps'
  <2>1. /\ UNCHANGED <<stopper, acceptor, cast>> /\ clients' \subseteq clients
        /\ asked => asked'
        /\ \A c \in Clients : alive'[c] => alive[c]
    BY <1>0, <1>7 DEF Writer, SpuriousWakeup, WriterEval, WriterBlocks, WriterLock, SendWhole,
       SendFatal, SendFull, SendReturns, WriterDrop, WriterAsk, WriterExit, WriterClose,
       WriterErase, controlVars, listVars, Types
  <2>2. \A c \in Clients : wpc[c] = "ask" => wpc'[c] = "ask" \/ asked'
    BY <1>0, <1>7 DEF Writer, SpuriousWakeup, WriterEval, WriterBlocks, WriterLock, SendWhole,
       SendFatal, SendFull, SendReturns, WriterDrop, WriterAsk, WriterExit, WriterClose,
       WriterErase, Types
  <2>3. \A c \in Clients : awaiting'[c] => awaiting[c] \/ wpc'[c] = "ask"
    BY <1>0, <1>7 DEF Writer, SpuriousWakeup, WriterEval, WriterBlocks, WriterLock, SendWhole,
       SendFatal, SendFull, SendReturns, WriterDrop, WriterAsk, WriterExit, WriterClose,
       WriterErase, feedVars, Types
  <2>4. QED
    BY <1>0, <2>1, <2>2, <2>3 DEF Gaps, Types
<1>8. UNCHANGED <<stopper, acceptor, clients, asked, wpc, alive, awaiting, cast>> => Gaps'
  BY <1>0 DEF Gaps
<1>9. QED
  BY <1>1, <1>2, <1>3, <1>4, <1>5, <1>6, <1>7, <1>8 DEF Next, Broadcaster, Statistician, vars,
     controlVars, listVars, feedVars, PeerVanishes, StatsCopy, StatsLock, StatsRead, StatsPublish

(* LinkInv, src/src/net/srt_server.cpp: whatever joins, breaks, drops and stops,
   no live viewer waits in vain for a keyframe, and stop() leaves no socket open,
   for any finite set of clients and any queue limit.                      *)
THEOREM LinkInvHolds == Spec => []LinkInv
<1>1. Init => LInv
  BY LInit
<1>2. LInv /\ [Next]_vars => LInv'
  <2> SUFFICES ASSUME LInv, [Next]_vars PROVE LInv'
    OBVIOUS
  <2>1. IInv'
    BY NextInv DEF LInv
  <2>2. CountTypes' /\ UnitTypes'
    BY CountsKept, UnitsKept
  <2>3. JoinedInTurn' /\ Closing' /\ ClosedFirst' /\ Emptied' /\ Gaps'
    BY JoinedKept, ClosingKept, ClosedKept, EmptiedKept, GapsKept
  <2>4. QED
    BY <2>1, <2>2, <2>3 DEF LInv
<1>3. LInv => LinkInv
  <2> SUFFICES ASSUME LInv PROVE LinkInv
    OBVIOUS
  <2>1. TypeOK
    BY DEF LInv, IInv, Types, CountTypes, UnitTypes, TypeOK
  <2>2. EveryGapIsAsked
    BY DEF LInv, Gaps, EveryGapIsAsked
  <2>3. StoppedIsEmpty
    BY DEF LInv, Emptied, JoinedInTurn, Closing, StoppedIsEmpty
  <2>4. QED
    BY <2>1, <2>2, <2>3 DEF LinkInv
<1>4. QED
  BY <1>1, <1>2, <1>3, PTL DEF Spec
=============================================================================
