---------------------------- MODULE StreamServer ----------------------------
(***************************************************************************)
(* The TCP rung, src/src/net/stream_server.cpp, one step per point where   *)
(* another thread can come between: the accept thread, one detached writer *)
(* and one reader per client, the render thread's broadcast, and stop().   *)
(*                                                                         *)
(* A client's mutex is held across two steps only by its writer, between   *)
(* finding the wait predicate false and blocking (wpc = "toWait"); every   *)
(* other critical section is one action.  Frame contents, the handshake's  *)
(* text and the telemetry numbers are left out; of the smoothed            *)
(* presentation delay only "zero or not" is kept.                          *)
(***************************************************************************)
EXTENDS Naturals, Sequences, FiniteSets

CONSTANTS
  Clients,         (* the connections that may be accepted, once each      *)
  MaxQueuedFrames, (* kMaxQueuedFrames                                     *)
  Messages         (* the message types the clients send, 0x80 and 0x81    *)

ASSUME MessageAssumption == Messages \subseteq {"report", "keyframe"}
ASSUME QueueAssumption == MaxQueuedFrames \in Nat \ {0}
ASSUME ClientsAssumption == IsFiniteSet(Clients)

VARIABLES
  stopper,      (* [pc, targets]: the thread that calls start and stop      *)
  listening,    (* listenSocket_ is open                                    *)
  acceptor,     (* [pc, client, size]: acceptLoop and its locals            *)
  clients,      (* clients_, as a set: its order is never used              *)
  clientCount,  (* clientCount_                                             *)
  delay,        (* presentationDelaySeconds_: 0, or 1 for anything positive *)
  cast,         (* [pc, key, targets, overflowed]: broadcast and its locals *)
  asked,        (* a keyframe was requested since the last one broadcast    *)
  wpc, rpc,     (* writer and reader threads of each client                 *)
  smoothed,     (* the reader's `smoothed' before it is stored              *)
  sock,         (* the client's socket                                      *)
  alive, awaiting, queue,  (* Client::alive, awaitingKeyframe, queue        *)
  hand,         (* the writer's `payload'                                   *)
  missed, intact           (* history, as in FanOut                         *)

serverVars == <<stopper, listening, acceptor, clients, clientCount, delay>>
feedVars == <<awaiting, queue, missed>>
sendVars == <<hand, intact>>
threadVars == <<wpc, rpc, smoothed, sock, alive>>
vars == <<serverVars, cast, asked, threadVars, feedVars, sendVars>>

Unit == [key : BOOLEAN, follows : BOOLEAN]

(* Filler for a writer with nothing in hand: a delta after a gap, which
   would be the one thing no writer may send.                              *)
NoUnit == [key |-> FALSE, follows |-> FALSE]

Joined == {"pushed", "handshake", "eval", "toWait", "blocked"}
Exiting == {"shutdown", "join", "erase", "gone"}

TypeOK ==
  /\ stopper \in [pc : {"new", "run", "close", "join", "kill", "wait", "zero",
                        "stopped"},
                  targets : SUBSET Clients]
  /\ listening \in BOOLEAN
  /\ acceptor.pc \in {"none", "accept", "count", "store", "ask", "exited"}
  /\ acceptor.pc \in {"count", "store", "ask"} => acceptor.client \in Clients
  /\ acceptor.size \in 0..Cardinality(Clients)
  /\ clients \in SUBSET Clients
  /\ clientCount \in 0..Cardinality(Clients)
  /\ delay \in 0..1
  /\ cast \in [pc : {"idle", "each"}, key : BOOLEAN, targets : SUBSET Clients,
               overflowed : BOOLEAN]
  /\ asked \in BOOLEAN
  /\ wpc \in [Clients -> {"none", "send"} \cup Joined \cup Exiting]
  /\ rpc \in [Clients -> {"none", "top", "recv", "smoothing", "done"}]
  /\ smoothed \in [Clients -> 0..1]
  /\ sock \in [Clients -> {"none", "open", "shut", "closed"}]
  /\ alive \in [Clients -> BOOLEAN]
  /\ awaiting \in [Clients -> BOOLEAN]
  /\ queue \in [Clients -> Seq(Unit)]
  /\ hand \in [Clients -> Unit]
  /\ missed \in [Clients -> BOOLEAN]
  /\ intact \in [Clients -> BOOLEAN]

Init ==
  /\ stopper = [pc |-> "new", targets |-> {}]
  /\ listening = FALSE
  /\ acceptor = [pc |-> "none", client |-> {}, size |-> 0]
  /\ clients = {}
  /\ clientCount = 0
  /\ delay = 0
  /\ cast = [pc |-> "idle", key |-> FALSE, targets |-> {}, overflowed |-> FALSE]
  /\ asked = FALSE
  /\ wpc = [c \in Clients |-> "none"]
  /\ rpc = [c \in Clients |-> "none"]
  /\ smoothed = [c \in Clients |-> 0]
  /\ sock = [c \in Clients |-> "none"]
  /\ alive = [c \in Clients |-> TRUE]
  /\ awaiting = [c \in Clients |-> TRUE]
  /\ queue = [c \in Clients |-> <<>>]
  /\ hand = [c \in Clients |-> NoUnit]
  /\ missed = [c \in Clients |-> TRUE]
  /\ intact = [c \in Clients |-> FALSE]

(* running_: set by start, cleared by stop's exchange.                     *)
running == stopper.pc = "run"

(* notify_one and notify_all on Client::signal, whose only waiter is the
   client's writer: it goes back to evaluate its predicate.                *)
Notify(pcs, c) == IF pcs[c] = "blocked" THEN [pcs EXCEPT ![c] = "eval"] ELSE pcs

-----------------------------------------------------------------------------
(* start() and the accept thread.                                          *)

(* start: a failed bind or listen leaves everything as it was.             *)
Start ==
  /\ stopper.pc = "new"
  /\ stopper' = [stopper EXCEPT !.pc = "run"]
  /\ listening' = TRUE
  /\ acceptor' = [acceptor EXCEPT !.pc = "accept"]
  /\ UNCHANGED <<clients, clientCount, delay, cast, asked, threadVars, feedVars, sendVars>>

(* accept returns a connection, which joins clients_ under mutex_.         *)
Accept(c) ==
  /\ acceptor.pc = "accept" /\ listening
  /\ wpc[c] = "none"
  /\ clients' = clients \cup {c}
  /\ wpc' = [wpc EXCEPT ![c] = "pushed"]
  /\ sock' = [sock EXCEPT ![c] = "open"]
  /\ acceptor' = [acceptor EXCEPT !.pc = "count", !.client = c]
  /\ UNCHANGED <<stopper, listening, clientCount, delay, cast, asked, rpc, smoothed,
                 alive, feedVars, sendVars>>

(* clients_.size() is read after mutex_ was released ...                   *)
ReadSize ==
  /\ acceptor.pc = "count"
  /\ acceptor' = [acceptor EXCEPT !.pc = "store", !.size = Cardinality(clients)]
  /\ UNCHANGED <<stopper, listening, clients, clientCount, delay, cast, asked,
                 threadVars, feedVars, sendVars>>

(* ... and stored in a later step; then the writer thread is spawned.      *)
StoreAndSpawn ==
  /\ acceptor.pc = "store"
  /\ clientCount' = acceptor.size
  /\ wpc' = [wpc EXCEPT ![acceptor.client] = "handshake"]
  /\ acceptor' = [acceptor EXCEPT !.pc = "ask"]
  /\ UNCHANGED <<stopper, listening, clients, delay, cast, asked, rpc, smoothed,
                 sock, alive, feedVars, sendVars>>

(* requestKeyframe_() for the new client, and the loop's running_ test.    *)
AskForJoin ==
  /\ acceptor.pc = "ask"
  /\ asked' = TRUE
  /\ acceptor' = [acceptor EXCEPT !.pc = IF running THEN "accept" ELSE "exited"]
  /\ UNCHANGED <<stopper, listening, clients, clientCount, delay, cast,
                 threadVars, feedVars, sendVars>>

(* accept fails because stop() closed the listen socket.                   *)
AcceptExit ==
  /\ acceptor.pc = "accept" /\ ~listening
  /\ acceptor' = [acceptor EXCEPT !.pc = "exited"]
  /\ UNCHANGED <<stopper, listening, clients, clientCount, delay, cast, asked,
                 threadVars, feedVars, sendVars>>

-----------------------------------------------------------------------------
(* serviceClient's reader thread.                                          *)

ReaderTop(c) ==
  /\ rpc[c] = "top"
  /\ rpc' = [rpc EXCEPT ![c] = IF alive[c] THEN "recv" ELSE "done"]
  /\ UNCHANGED <<serverVars, cast, asked, wpc, smoothed, sock, alive, feedVars, sendVars>>

(* recv fails, the peer closed, or the length prefix is beyond repair.  The
   client is marked dead and its writer notified, both without the client's
   mutex.                                                                  *)
ReaderEnd(c) ==
  /\ rpc[c] = "recv"
  /\ rpc' = [rpc EXCEPT ![c] = "done"]
  /\ alive' = [alive EXCEPT ![c] = FALSE]
  /\ wpc' = Notify(wpc, c)
  /\ UNCHANGED <<serverVars, cast, asked, smoothed, sock, feedVars, sendVars>>

(* A message that asks for a keyframe (0x81).                              *)
ReaderKeyframe(c) ==
  /\ "keyframe" \in Messages
  /\ rpc[c] = "recv"
  /\ asked' = TRUE
  /\ rpc' = [rpc EXCEPT ![c] = "top"]
  /\ UNCHANGED <<serverVars, cast, wpc, smoothed, sock, alive, feedVars, sendVars>>

(* A latency report (0x80): the shared delay is read here and smoothed with the
   sample.  A delay of zero becomes the sample, a positive one stays positive
   unless the sample is negative enough to be clamped: zero or not, either may
   come of it ...                                                          *)
ReaderReport(c) ==
  /\ "report" \in Messages
  /\ rpc[c] = "recv"
  /\ \E level \in 0..1 : smoothed' = [smoothed EXCEPT ![c] = level]
  /\ rpc' = [rpc EXCEPT ![c] = "smoothing"]
  /\ UNCHANGED <<serverVars, cast, asked, wpc, sock, alive, feedVars, sendVars>>

(* ... and written here.                                                   *)
ReaderSmooth(c) ==
  /\ rpc[c] = "smoothing"
  /\ delay' = smoothed[c]
  /\ smoothed' = [smoothed EXCEPT ![c] = 0]
  /\ rpc' = [rpc EXCEPT ![c] = "top"]
  /\ UNCHANGED <<stopper, listening, acceptor, clients, clientCount, cast, asked,
                 wpc, sock, alive, feedVars, sendVars>>

-----------------------------------------------------------------------------
(* serviceClient's writer thread.                                          *)

(* The handshake is sent, or fails and kills the client; either way the
   reader thread starts.                                                   *)
Handshake(c) ==
  /\ wpc[c] = "handshake"
  /\ \E ok \in BOOLEAN :
       /\ ok => sock[c] = "open"
       /\ alive' = [alive EXCEPT ![c] = @ /\ ok]
  /\ wpc' = [wpc EXCEPT ![c] = "eval"]
  /\ rpc' = [rpc EXCEPT ![c] = "top"]
  /\ UNCHANGED <<serverVars, cast, asked, smoothed, sock, feedVars, sendVars>>

(* One turn of the writer's loop up to its wait, under the client's mutex:
   leave, pop, or wait.  The loop's own test of `alive' just before tells it
   nothing the predicate does not test again.                              *)
WriterEval(c) ==
  /\ wpc[c] = "eval"
  /\ \/ /\ ~alive[c]
        /\ wpc' = [wpc EXCEPT ![c] = "shutdown"]
        /\ UNCHANGED <<queue, hand>>
     \/ /\ alive[c] /\ queue[c] # <<>>
        /\ hand' = [hand EXCEPT ![c] = Head(queue[c])]
        /\ queue' = [queue EXCEPT ![c] = Tail(@)]
        /\ wpc' = [wpc EXCEPT ![c] = "send"]
     \/ /\ alive[c] /\ queue[c] = <<>>
        /\ wpc' = [wpc EXCEPT ![c] = "toWait"]
        /\ UNCHANGED <<queue, hand>>
  /\ UNCHANGED <<serverVars, cast, asked, rpc, smoothed, sock, alive, awaiting, missed,
                 intact>>

(* wait() blocks and releases the mutex in one step.                       *)
WriterBlocks(c) ==
  /\ wpc[c] = "toWait"
  /\ wpc' = [wpc EXCEPT ![c] = "blocked"]
  /\ UNCHANGED <<serverVars, cast, asked, rpc, smoothed, sock, alive, feedVars, sendVars>>

(* A condition variable may wake with no notification.                     *)
SpuriousWakeup(c) ==
  /\ wpc[c] = "blocked"
  /\ wpc' = [wpc EXCEPT ![c] = "eval"]
  /\ UNCHANGED <<serverVars, cast, asked, rpc, smoothed, sock, alive, feedVars, sendVars>>

(* The send loop writes the whole unit, or an error or SO_SNDTIMEO ends the
   client.                                                                 *)
WriterSend(c) ==
  /\ wpc[c] = "send"
  /\ \/ /\ sock[c] = "open"
        /\ intact' = [intact EXCEPT ![c] = TRUE]
        /\ wpc' = [wpc EXCEPT ![c] = "eval"]
        /\ UNCHANGED alive
     \/ /\ intact' = [intact EXCEPT ![c] = FALSE]
        /\ alive' = [alive EXCEPT ![c] = FALSE]
        /\ wpc' = [wpc EXCEPT ![c] = "shutdown"]
  /\ hand' = [hand EXCEPT ![c] = NoUnit]
  /\ UNCHANGED <<serverVars, cast, asked, rpc, smoothed, sock, feedVars>>

WriterShutdown(c) ==
  /\ wpc[c] = "shutdown"
  /\ sock' = [sock EXCEPT ![c] = "shut"]
  /\ alive' = [alive EXCEPT ![c] = FALSE]
  /\ wpc' = [wpc EXCEPT ![c] = "join"]
  /\ UNCHANGED <<serverVars, cast, asked, rpc, smoothed, feedVars, sendVars>>

(* reader.join(), then close.                                              *)
WriterJoin(c) ==
  /\ wpc[c] = "join"
  /\ rpc[c] = "done"
  /\ sock' = [sock EXCEPT ![c] = "closed"]
  /\ wpc' = [wpc EXCEPT ![c] = "erase"]
  /\ UNCHANGED <<serverVars, cast, asked, rpc, smoothed, alive, feedVars, sendVars>>

(* What an erase leaves in clientCount_.                                   *)
CountAfter(remaining) == Cardinality(remaining)

(* The writer takes its client out of clients_, under mutex_.              *)
WriterErase(c) ==
  /\ wpc[c] = "erase"
  /\ clients' = clients \ {c}
  /\ clientCount' = CountAfter(clients')
  /\ delay' = IF clients' = {} THEN 0 ELSE delay
  /\ wpc' = [wpc EXCEPT ![c] = "gone"]
  /\ UNCHANGED <<stopper, listening, acceptor, cast, asked, rpc, smoothed, sock, alive,
                 feedVars, sendVars>>

-----------------------------------------------------------------------------
(* broadcast(), called by the render thread alone.  The engine joins that
   thread before it calls stop().                                          *)

(* The encoder produced a frame; clients_ is copied under mutex_.  With no
   clients broadcast returns at once.                                      *)
CastBegin(key) ==
  /\ cast.pc = "idle" /\ running
  /\ cast' = IF clients = {} THEN cast
             ELSE [pc |-> "each", key |-> key, targets |-> clients, overflowed |-> FALSE]
  /\ asked' = (asked /\ ~key)
  /\ missed' = [c \in Clients |-> missed[c] \/ c \notin clients]
  /\ UNCHANGED <<serverVars, threadVars, awaiting, queue, sendVars>>

(* What the loop does to one client of the copied list: nothing, for one that
   waits and is offered a delta ...                                        *)
Skip(c) ==
  /\ awaiting[c] /\ ~cast.key
  /\ missed' = [missed EXCEPT ![c] = TRUE]
  /\ UNCHANGED <<awaiting, queue, wpc>>

(* Mutant: the queue limit is off by one.                                  *)
QueueOverFull(c) == Len(queue[c]) > MaxQueuedFrames

(* ... drop it to the next keyframe, when its queue is full ...            *)
QueueFull(c) == Len(queue[c]) >= MaxQueuedFrames

DropToKeyframe(c) ==
  /\ queue' = [queue EXCEPT ![c] = <<>>]
  /\ awaiting' = [awaiting EXCEPT ![c] = TRUE]
  /\ missed' = [missed EXCEPT ![c] = TRUE]
  /\ UNCHANGED wpc

(* ... or queue the unit and wake the writer.                              *)
Enqueue(c) ==
  /\ queue' = [queue EXCEPT ![c] =
                 Append(@, [key |-> cast.key, follows |-> ~missed[c]])]
  /\ awaiting' = [awaiting EXCEPT ![c] = FALSE]
  /\ missed' = [missed EXCEPT ![c] = FALSE]
  /\ wpc' = Notify(wpc, c)

(* One turn of the loop, under that client's mutex.                        *)
CastTo(c) ==
  /\ cast.pc = "each" /\ c \in cast.targets
  /\ wpc[c] # "toWait"
  /\ \/ /\ Skip(c)
        /\ cast' = [cast EXCEPT !.targets = @ \ {c}]
     \/ /\ cast.key \/ ~awaiting[c]
        /\ QueueFull(c)
        /\ DropToKeyframe(c)
        /\ cast' = [cast EXCEPT !.targets = @ \ {c}, !.overflowed = TRUE]
     \/ /\ cast.key \/ ~awaiting[c]
        /\ ~QueueFull(c)
        /\ Enqueue(c)
        /\ cast' = [cast EXCEPT !.targets = @ \ {c}]
  /\ UNCHANGED <<serverVars, asked, rpc, smoothed, sock, alive, sendVars>>

(* Mutant: nobody asks for the keyframe that dropped clients wait for.     *)
CastEndSilent ==
  /\ cast.pc = "each" /\ cast.targets = {}
  /\ cast' = [cast EXCEPT !.pc = "idle"]
  /\ UNCHANGED <<asked, serverVars, threadVars, feedVars, sendVars>>

(* After the loop: one keyframe request for every client that overflowed.  *)
CastEnd ==
  /\ cast.pc = "each" /\ cast.targets = {}
  /\ cast' = [cast EXCEPT !.pc = "idle"]
  /\ asked' = (asked \/ cast.overflowed)
  /\ UNCHANGED <<serverVars, threadVars, feedVars, sendVars>>

-----------------------------------------------------------------------------
(* stop().                                                                 *)

(* running_.exchange(false), after the render thread was joined.           *)
StopBegin ==
  /\ running /\ cast.pc = "idle"
  /\ stopper' = [stopper EXCEPT !.pc = "close"]
  /\ UNCHANGED <<listening, acceptor, clients, clientCount, delay, cast, asked,
                 threadVars, feedVars, sendVars>>

StopClose ==
  /\ stopper.pc = "close"
  /\ listening' = FALSE
  /\ stopper' = [stopper EXCEPT !.pc = "join"]
  /\ UNCHANGED <<acceptor, clients, clientCount, delay, cast, asked,
                 threadVars, feedVars, sendVars>>

(* acceptThread_.join(), then clients_ is copied.                          *)
StopJoin ==
  /\ stopper.pc = "join"
  /\ acceptor.pc = "exited"
  /\ stopper' = [pc |-> "kill", targets |-> clients]
  /\ UNCHANGED <<listening, acceptor, clients, clientCount, delay, cast, asked,
                 threadVars, feedVars, sendVars>>

(* alive = false, notify_all (no mutex held) and shutdown of one socket.   *)
StopKill(c) ==
  /\ stopper.pc = "kill" /\ c \in stopper.targets
  /\ alive' = [alive EXCEPT ![c] = FALSE]
  /\ wpc' = Notify(wpc, c)
  /\ sock' = [sock EXCEPT ![c] = IF @ = "open" THEN "shut" ELSE @]
  /\ stopper' = [stopper EXCEPT !.targets = @ \ {c}]
  /\ UNCHANGED <<listening, acceptor, clients, clientCount, delay, cast, asked,
                 rpc, smoothed, feedVars, sendVars>>

StopKilled ==
  /\ stopper.pc = "kill" /\ stopper.targets = {}
  /\ stopper' = [stopper EXCEPT !.pc = "wait"]
  /\ UNCHANGED <<listening, acceptor, clients, clientCount, delay, cast, asked,
                 threadVars, feedVars, sendVars>>

(* The bounded wait ends, with clients_ empty or not, clients_ is cleared
   under mutex_ ...                                                        *)
StopClear ==
  /\ stopper.pc = "wait"
  /\ clients' = {}
  /\ stopper' = [stopper EXCEPT !.pc = "zero"]
  /\ UNCHANGED <<listening, acceptor, clientCount, delay, cast, asked, threadVars,
                 feedVars, sendVars>>

(* ... and the count is zeroed after it was released.                      *)
StopZero ==
  /\ stopper.pc = "zero"
  /\ clientCount' = 0
  /\ stopper' = [stopper EXCEPT !.pc = "stopped"]
  /\ UNCHANGED <<listening, acceptor, clients, delay, cast, asked, threadVars, feedVars,
                 sendVars>>

-----------------------------------------------------------------------------

Reader(c) ==
  ReaderTop(c) \/ ReaderEnd(c) \/ ReaderKeyframe(c) \/ ReaderReport(c) \/ ReaderSmooth(c)

Writer(c) ==
  \/ Handshake(c) \/ WriterEval(c) \/ WriterBlocks(c)
  \/ WriterSend(c) \/ WriterShutdown(c) \/ WriterJoin(c) \/ WriterErase(c)

Acceptor ==
  \/ \E c \in Clients : Accept(c)
  \/ ReadSize \/ StoreAndSpawn \/ AskForJoin \/ AcceptExit

Broadcaster ==
  \/ \E key \in BOOLEAN : CastBegin(key)
  \/ \E c \in Clients : CastTo(c)
  \/ CastEnd

Stopper ==
  \/ Start \/ StopBegin \/ StopClose \/ StopJoin \/ StopKilled \/ StopClear
  \/ StopZero
  \/ \E c \in Clients : StopKill(c)

Next ==
  \/ Acceptor \/ Broadcaster \/ Stopper
  \/ \E c \in Clients : Reader(c) \/ Writer(c) \/ SpuriousWakeup(c)

Spec == Init /\ [][Next]_vars

-----------------------------------------------------------------------------

(* No client waits for a keyframe nobody asked for: whenever broadcast is
   at rest, a waiting client was covered by a request made since the last
   keyframe, or its accept is about to make one.                           *)
EveryGapIsAsked ==
  running /\ cast.pc = "idle" =>
    \A c \in clients :
      awaiting[c] =>
        asked \/ (acceptor.client = c /\ acceptor.pc \in {"count", "store", "ask"})

(* The count the engine's idle release reads is zero exactly when nobody is
   connected, although acceptLoop stores it outside mutex_: only a client
   still in acceptLoop's hands may be uncounted, and only stop() may leave
   the count behind for a moment.                                          *)
CountZeroIffEmpty ==
  /\ clients = {} /\ stopper.pc # "zero" => clientCount = 0
  /\ clientCount = 0 =>
       \A c \in clients : acceptor.client = c /\ acceptor.pc \in {"count", "store"}

(* With nobody connected the presentation delay is back at zero: no reader
   that is still finishing a report can write it after the last client was
   erased.                                                                 *)
DelayGoneWithClients ==
  running /\ clients = {} => delay = 0

(* Once stop() is over no connection is left in clients_ or in the count,
   and none can be added afterwards.                                       *)
StoppedIsEmpty ==
  stopper.pc = "stopped" => clients = {} /\ clientCount = 0

(* The type invariant; no client waiting in vain for a keyframe; and clients_,
   the count and the delay agreeing with one another through every join,
   leave and stop.                                                         *)
RosterInv ==
  /\ TypeOK
  /\ EveryGapIsAsked
  /\ CountZeroIffEmpty
  /\ DelayGoneWithClients
  /\ StoppedIsEmpty

-----------------------------------------------------------------------------
(* The phase of FanOut a client's writer is in.                            *)
PhaseOf(c) ==
  CASE wpc[c] = "none" -> "absent"
    [] wpc[c] \in Joined /\ alive[c] -> "idle"
    [] wpc[c] = "send" /\ alive[c] -> "sending"
    [] wpc[c] = "send" /\ ~alive[c] -> "dying"
    [] OTHER -> "left"

Feed == INSTANCE FanOut WITH phase <- [c \in Clients |-> PhaseOf(c)]

(* Threads, locks and sockets add nothing to what FanOut allows.           *)
ImplementsFanOut == Feed!Spec
=============================================================================
