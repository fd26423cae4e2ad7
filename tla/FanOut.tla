------------------------------- MODULE FanOut -------------------------------
(***************************************************************************)
(* What both streaming rungs promise a viewer.  One encoder produces one   *)
(* sequence of access units; every connected client gets a bounded queue   *)
(* of them.  A delta unit decodes only against the unit produced just      *)
(* before it, so a client that lost a unit must be fed nothing but the     *)
(* next keyframe (src/src/net/stream_server.cpp, src/src/net/srt_server.cpp). *)
(*                                                                         *)
(* No threads, locks or sockets here: StreamServer and SrtServer add them  *)
(* and are shown to implement this module.                                 *)
(***************************************************************************)
EXTENDS Naturals, Sequences

CONSTANTS
  Clients,         (* connections, each accepted at most once          *)
  MaxQueuedFrames  (* kMaxQueuedFrames: units one client may have waiting *)

ASSUME QueueAssumption == MaxQueuedFrames \in Nat \ {0}

(***************************************************************************)
(* An access unit as one client sees it.  `follows' records whether it is  *)
(* the unit the encoder produced right after the one queued for the same   *)
(* client before it.  The code does not store it: it is the history the    *)
(* properties are about.                                                   *)
(***************************************************************************)
Unit == [key : BOOLEAN, follows : BOOLEAN]

(* Filler for a writer with nothing in hand.                               *)
NoUnit == [key |-> FALSE, follows |-> FALSE]

VARIABLES
  phase,     (* where the client's connection is                          *)
  queue,     (* Client::queue                                             *)
  awaiting,  (* Client::awaitingKeyframe                                  *)
  hand,      (* the unit the writer has popped and is sending             *)
  missed,    (* history: a unit was withheld since the last one queued    *)
  intact     (* history: the last unit sent arrived whole                 *)

vars == <<phase, queue, awaiting, hand, missed, intact>>

(* "dying": marked dead with a unit still being sent.                      *)
Phases == {"absent", "idle", "sending", "dying", "failed", "left"}

Doomed == {"dying", "left"}

TypeOK ==
  /\ phase \in [Clients -> Phases]
  /\ queue \in [Clients -> Seq(Unit)]
  /\ awaiting \in [Clients -> BOOLEAN]
  /\ hand \in [Clients -> Unit]
  /\ missed \in [Clients -> BOOLEAN]
  /\ intact \in [Clients -> BOOLEAN]

Init ==
  /\ phase = [c \in Clients |-> "absent"]
  /\ queue = [c \in Clients |-> <<>>]
  /\ awaiting = [c \in Clients |-> TRUE]
  /\ hand = [c \in Clients |-> NoUnit]
  /\ missed = [c \in Clients |-> TRUE]
  /\ intact = [c \in Clients |-> FALSE]

(* A connection is accepted: empty queue, nothing sent before a keyframe.  *)
Join(c) ==
  /\ phase[c] = "absent"
  /\ phase' = [phase EXCEPT ![c] = "idle"]
  /\ UNCHANGED <<queue, awaiting, hand, missed, intact>>

(* A frame is withheld from the clients that are not its targets: those that
   joined after clients_ was copied, and those already marked dead.        *)
Withhold(targets) ==
  /\ \A c \in Clients \ targets : awaiting[c] \/ phase[c] \in Doomed
  /\ missed' = [c \in Clients |-> missed[c] \/ c \notin targets]
  /\ UNCHANGED <<phase, queue, awaiting, hand, intact>>

(* The three outcomes of offering the current unit to one client.          *)
OfferSkipped(c, key) ==
  /\ awaiting[c] /\ ~key
  /\ missed' = [missed EXCEPT ![c] = TRUE]
  /\ UNCHANGED <<queue, awaiting>>

OfferOverflows(c, key) ==
  /\ key \/ ~awaiting[c]
  /\ Len(queue[c]) >= MaxQueuedFrames
  /\ queue' = [queue EXCEPT ![c] = <<>>]
  /\ awaiting' = [awaiting EXCEPT ![c] = TRUE]
  /\ missed' = [missed EXCEPT ![c] = TRUE]

OfferQueued(c, key) ==
  /\ key \/ ~awaiting[c]
  /\ Len(queue[c]) < MaxQueuedFrames
  /\ queue' = [queue EXCEPT ![c] = Append(@, [key |-> key, follows |-> ~missed[c]])]
  /\ awaiting' = [awaiting EXCEPT ![c] = FALSE]
  /\ missed' = [missed EXCEPT ![c] = FALSE]

Offer(c, key) ==
  /\ phase[c] # "absent"
  /\ OfferSkipped(c, key) \/ OfferOverflows(c, key) \/ OfferQueued(c, key)
  /\ UNCHANGED <<phase, hand, intact>>

(* The client's writer pops the oldest unit.                               *)
Take(c) ==
  /\ phase[c] = "idle"
  /\ queue[c] # <<>>
  /\ hand' = [hand EXCEPT ![c] = Head(queue[c])]
  /\ queue' = [queue EXCEPT ![c] = Tail(@)]
  /\ phase' = [phase EXCEPT ![c] = "sending"]
  /\ UNCHANGED <<awaiting, missed, intact>>

(* The popped unit went out whole.                                         *)
Deliver(c) ==
  /\ phase[c] \in {"sending", "dying"}
  /\ phase' = [phase EXCEPT ![c] = IF @ = "sending" THEN "idle" ELSE "left"]
  /\ intact' = [intact EXCEPT ![c] = TRUE]
  /\ hand' = [hand EXCEPT ![c] = NoUnit]
  /\ UNCHANGED <<queue, awaiting, missed>>

(* The popped unit went out in part or not at all; the writer recovers or
   gives the client up.                                                    *)
Fail(c) ==
  /\ phase[c] \in {"sending", "dying"}
  /\ \E to \in {"failed", "left"} :
       /\ phase[c] = "dying" => to = "left"
       /\ phase' = [phase EXCEPT ![c] = to]
  /\ intact' = [intact EXCEPT ![c] = FALSE]
  /\ hand' = [hand EXCEPT ![c] = NoUnit]
  /\ UNCHANGED <<queue, awaiting, missed>>

(* Mutants: the backlog is kept, or the flag is forgotten.                 *)
ResyncKeepsBacklog(c) ==
  /\ phase[c] \in {"failed", "left"}
  /\ phase' = [phase EXCEPT ![c] = IF @ = "failed" THEN "idle" ELSE @]
  /\ UNCHANGED <<queue, awaiting, missed, hand, intact>>

ResyncForgetsToWait(c) ==
  /\ phase[c] \in {"failed", "left"}
  /\ phase' = [phase EXCEPT ![c] = IF @ = "failed" THEN "idle" ELSE @]
  /\ queue' = [queue EXCEPT ![c] = <<>>]
  /\ missed' = [missed EXCEPT ![c] = TRUE]
  /\ UNCHANGED <<awaiting, hand, intact>>

(* A writer whose send failed drops the client's backlog.                  *)
Resync(c) ==
  /\ phase[c] \in {"failed", "left"}
  /\ phase' = [phase EXCEPT ![c] = IF @ = "failed" THEN "idle" ELSE @]
  /\ queue' = [queue EXCEPT ![c] = <<>>]
  /\ awaiting' = [awaiting EXCEPT ![c] = TRUE]
  /\ missed' = [missed EXCEPT ![c] = TRUE]
  /\ UNCHANGED <<hand, intact>>

(* The client is marked dead: no further unit will be popped for it.       *)
Leave(c) ==
  /\ phase[c] \in {"idle", "sending", "failed"}
  /\ phase' = [phase EXCEPT ![c] = IF @ = "sending" THEN "dying" ELSE "left"]
  /\ UNCHANGED <<queue, awaiting, hand, missed, intact>>

Next ==
  \/ \E targets \in SUBSET Clients : Withhold(targets)
  \/ \E c \in Clients :
       \/ Join(c)
       \/ \E key \in BOOLEAN : Offer(c, key)
       \/ Take(c)
       \/ Deliver(c)
       \/ Fail(c)
       \/ Resync(c)
       \/ Leave(c)

Spec == Init /\ [][Next]_vars

-----------------------------------------------------------------------------

(* A writer never has a unit in hand that the viewer cannot decode: it is a
   keyframe, or the direct successor of a unit that arrived whole ("resuming
   mid-GOP would only produce corrupt output", Client::awaitingKeyframe).  *)
NeverMidGop ==
  \A c \in Clients :
    phase[c] \in {"sending", "dying"} =>
      hand[c].key \/ (hand[c].follows /\ intact[c])

(* Waiting for a keyframe and holding a backlog exclude each other, so the
   keyframe that ends the wait always finds room: the overflow branch of
   broadcast can never throw away the unit the client was waiting for.     *)
KeyframeFindsRoom ==
  \A c \in Clients : awaiting[c] => queue[c] = <<>>

(* A slow client's backlog is bounded ("an unbounded queue would turn a slow
   client into growing latency for everyone", StreamServer::broadcast).    *)
BacklogBounded ==
  \A c \in Clients : Len(queue[c]) <= MaxQueuedFrames

(* The strengthening that makes NeverMidGop inductive.                     *)
QueueDecodable ==
  \A c \in Clients : phase[c] \notin Doomed =>
    \A i \in 1..Len(queue[c]) : queue[c][i].key \/ queue[c][i].follows

NothingMissed ==
  \A c \in Clients :
    phase[c] \notin Doomed /\ ~awaiting[c] => ~missed[c]

HeadDecodable ==
  \A c \in Clients :
    phase[c] = "idle" /\ ~intact[c] /\ ~awaiting[c] =>
      queue[c] # <<>> /\ queue[c][1].key

AbsentAwaits ==
  \A c \in Clients : phase[c] = "absent" => awaiting[c]

IInv ==
  /\ TypeOK
  /\ AbsentAwaits
  /\ BacklogBounded
  /\ KeyframeFindsRoom
  /\ QueueDecodable
  /\ NothingMissed
  /\ HeadDecodable
  /\ NeverMidGop
=============================================================================
