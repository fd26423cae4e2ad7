------------------------------ MODULE SrtServer -----------------------------
(***************************************************************************)
(* The SRT rung, src/src/net/srt_server.cpp.  It differs from the TCP rung *)
(* in what its failures look like: a send that finds the buffer full drops *)
(* the client to the next keyframe instead of disconnecting it, there is   *)
(* no reader thread, and send, statistics and close of one socket are      *)
(* serialised by Client::socketMutex because libsrt faults when they race. *)
(*                                                                         *)
(* libsrt is external: a call on an open socket has any of its outcomes.   *)
(* Access units, fragments and statistics values are left out.             *)
(***************************************************************************)
EXTENDS Naturals, Sequences, FiniteSets

CONSTANTS
  Clients,         (* the connections that may be accepted, once each      *)
  MaxQueuedFrames, (* kMaxQueuedFrames                                     *)
  MayVanish        (* the clients whose peer may go away                   *)

ASSUME VanishAssumption == MayVanish \subseteq Clients
ASSUME ClientsAssumption == IsFiniteSet(Clients)
ASSUME QueueAssumption == MaxQueuedFrames \in Nat \ {0}

VARIABLES
  stopper,      (* [pc, targets]: the thread that calls start and stop      *)
  acceptor,     (* [pc, client]: acceptLoop                                 *)
  stats,        (* [pc, targets, client]: pollStats                         *)
  clients,      (* clients_                                                 *)
  clientCount,  (* clientCount_                                             *)
  cast,         (* [pc, key, targets, client, overflowed]: broadcast        *)
  asked,        (* a keyframe was requested since the last one broadcast    *)
  wpc,          (* each client's writer thread                              *)
  sock,         (* Client::socket: SRT_INVALID_SOCK is "closed"             *)
  sockLock,     (* who holds Client::socketMutex across a libsrt call       *)
  broken,       (* the peer is gone: no send can succeed any more           *)
  alive, awaiting, queue,  (* Client::alive, awaitingKeyframe, queue        *)
  hand,         (* the writer's `unit'                                      *)
  missed, intact           (* history, as in FanOut                         *)

controlVars == <<stopper, acceptor, stats>>
listVars == <<clients, clientCount>>
sockVars == <<sock, sockLock, broken>>
feedVars == <<awaiting, queue, missed>>
sendVars == <<hand, intact>>
vars == <<controlVars, listVars, cast, asked, wpc, alive, sockVars, feedVars, sendVars>>

Unit == [key : BOOLEAN, follows : BOOLEAN]
NoUnit == [key |-> FALSE, follows |-> FALSE]

Joined == {"pushed", "eval", "toWait", "blocked", "ask"}
Sending == {"lock", "sending"}
Exiting == {"exit", "close", "erase", "gone"}

TypeOK ==
  /\ stopper \in [pc : {"new", "run", "joinAccept", "joinStats", "kill", "close", "wait",
                        "stopped"},
                  targets : SUBSET Clients, client : Clients \cup {{}}]
  /\ acceptor \in [pc : {"none", "accept", "spawn", "ask", "exited"},
                   client : Clients \cup {{}}]
  /\ stats \in [pc : {"none", "copy", "each", "reading", "exited"},
                targets : SUBSET Clients, client : Clients \cup {{}}]
  /\ clients \in SUBSET Clients
  /\ clientCount \in 0..Cardinality(Clients)
  /\ cast \in [pc : {"idle", "each", "offer"}, key : BOOLEAN, targets : SUBSET Clients,
               client : Clients \cup {{}}, overflowed : BOOLEAN]
  /\ asked \in BOOLEAN
  /\ wpc \in [Clients -> {"none", "drop"} \cup Joined \cup Sending \cup Exiting]
  /\ sock \in [Clients -> {"none", "open", "closed"}]
  /\ sockLock \in [Clients -> {"free", "writer", "stats"}]
  /\ broken \in [Clients -> BOOLEAN]
  /\ alive \in [Clients -> BOOLEAN]
  /\ awaiting \in [Clients -> BOOLEAN]
  /\ queue \in [Clients -> Seq(Unit)]
  /\ hand \in [Clients -> Unit]
  /\ missed \in [Clients -> BOOLEAN]
  /\ intact \in [Clients -> BOOLEAN]

Init ==
  /\ stopper = [pc |-> "new", targets |-> {}, client |-> {}]
  /\ acceptor = [pc |-> "none", client |-> {}]
  /\ stats = [pc |-> "none", targets |-> {}, client |-> {}]
  /\ clients = {}
  /\ clientCount = 0
  /\ cast = [pc |-> "idle", key |-> FALSE, targets |-> {}, client |-> {},
             overflowed |-> FALSE]
  /\ asked = FALSE
  /\ wpc = [c \in Clients |-> "none"]
  /\ sock = [c \in Clients |-> "none"]
  /\ sockLock = [c \in Clients |-> "free"]
  /\ broken = [c \in Clients |-> FALSE]
  /\ alive = [c \in Clients |-> TRUE]
  /\ awaiting = [c \in Clients |-> TRUE]
  /\ queue = [c \in Clients |-> <<>>]
  /\ hand = [c \in Clients |-> NoUnit]
  /\ missed = [c \in Clients |-> TRUE]
  /\ intact = [c \in Clients |-> FALSE]

running == stopper.pc = "run"

Notify(pcs, c) == IF pcs[c] = "blocked" THEN [pcs EXCEPT ![c] = "eval"] ELSE pcs

-----------------------------------------------------------------------------
(* start() and the accept thread.                                          *)

(* The accept thread ends at once when it gets no epoll for its listener.  *)
Start ==
  /\ stopper.pc = "new"
  /\ stopper' = [stopper EXCEPT !.pc = "run"]
  /\ \E pc \in {"accept", "exited"} : acceptor' = [acceptor EXCEPT !.pc = pc]
  /\ stats' = [stats EXCEPT !.pc = "copy"]
  /\ UNCHANGED <<listVars, cast, asked, wpc, alive, sockVars, feedVars, sendVars>>

(* A connection whose handshake was sent joins clients_ and the count in
   one critical section; one whose handshake failed is closed and leaves no
   trace.                                                                  *)
Accept(c) ==
  /\ acceptor.pc = "accept"
  /\ wpc[c] = "none"
  /\ clients' = clients \cup {c}
  /\ clientCount' = Cardinality(clients')
  /\ wpc' = [wpc EXCEPT ![c] = "pushed"]
  /\ sock' = [sock EXCEPT ![c] = "open"]
  /\ acceptor' = [pc |-> "spawn", client |-> c]
  /\ UNCHANGED <<stopper, stats, cast, asked, alive, sockLock, broken, feedVars, sendVars>>

Spawn ==
  /\ acceptor.pc = "spawn"
  /\ wpc' = [wpc EXCEPT ![acceptor.client] = "eval"]
  /\ acceptor' = [acceptor EXCEPT !.pc = "ask"]
  /\ UNCHANGED <<stopper, stats, listVars, cast, asked, alive, sockVars, feedVars, sendVars>>

(* requestKeyframe_() for the new client, and the loop's running_ test.    *)
AskForJoin ==
  /\ acceptor.pc = "ask"
  /\ asked' = TRUE
  /\ acceptor' = [pc |-> IF running THEN "accept" ELSE "exited", client |-> {}]
  /\ UNCHANGED <<stopper, stats, listVars, cast, wpc, alive, sockVars, feedVars, sendVars>>

(* The poll returned and running_ is false.                                *)
AcceptExit ==
  /\ acceptor.pc = "accept" /\ ~running
  /\ acceptor' = [acceptor EXCEPT !.pc = "exited"]
  /\ UNCHANGED <<stopper, stats, listVars, cast, asked, wpc, alive, sockVars, feedVars,
                 sendVars>>

(* The network or the viewer goes away.                                    *)
PeerVanishes(c) ==
  /\ c \in MayVanish /\ sock[c] = "open" /\ ~broken[c]
  /\ broken' = [broken EXCEPT ![c] = TRUE]
  /\ UNCHANGED <<controlVars, listVars, cast, asked, wpc, alive, sock, sockLock, feedVars,
                 sendVars>>

-----------------------------------------------------------------------------
(* serviceClient: each client's writer thread.                             *)

(* One turn of the loop up to its wait, under queueMutex.                  *)
WriterEval(c) ==
  /\ wpc[c] = "eval"
  /\ \/ /\ ~alive[c]
        /\ wpc' = [wpc EXCEPT ![c] = "exit"]
        /\ UNCHANGED <<queue, hand>>
     \/ /\ alive[c] /\ queue[c] # <<>>
        /\ hand' = [hand EXCEPT ![c] = Head(queue[c])]
        /\ queue' = [queue EXCEPT ![c] = Tail(@)]
        /\ wpc' = [wpc EXCEPT ![c] = "lock"]
     \/ /\ alive[c] /\ queue[c] = <<>>
        /\ wpc' = [wpc EXCEPT ![c] = "toWait"]
        /\ UNCHANGED <<queue, hand>>
  /\ UNCHANGED <<controlVars, listVars, cast, asked, alive, sockVars, awaiting, missed,
                 intact>>

WriterBlocks(c) ==
  /\ wpc[c] = "toWait"
  /\ wpc' = [wpc EXCEPT ![c] = "blocked"]
  /\ UNCHANGED <<controlVars, listVars, cast, asked, alive, sockVars, feedVars, sendVars>>

SpuriousWakeup(c) ==
  /\ wpc[c] = "blocked"
  /\ wpc' = [wpc EXCEPT ![c] = "eval"]
  /\ UNCHANGED <<controlVars, listVars, cast, asked, alive, sockVars, feedVars, sendVars>>

(* Mutant: the socket is not tested again once its mutex is held.          *)
WriterLockUntested(c) ==
  /\ wpc[c] = "lock"
  /\ sockLock[c] = "free"
  /\ sockLock' = [sockLock EXCEPT ![c] = "writer"]
  /\ wpc' = [wpc EXCEPT ![c] = "sending"]
  /\ UNCHANGED <<controlVars, listVars, cast, asked, alive, sock, broken, feedVars,
                 sendVars>>

(* socketMutex is taken; a socket stop() already closed ends the writer.   *)
WriterLock(c) ==
  /\ wpc[c] = "lock"
  /\ sockLock[c] = "free"
  /\ \/ /\ sock[c] = "open"
        /\ sockLock' = [sockLock EXCEPT ![c] = "writer"]
        /\ wpc' = [wpc EXCEPT ![c] = "sending"]
        /\ UNCHANGED <<alive, hand, intact>>
     \/ /\ sock[c] # "open"
        /\ alive' = [alive EXCEPT ![c] = FALSE]
        /\ wpc' = [wpc EXCEPT ![c] = "exit"]
        /\ hand' = [hand EXCEPT ![c] = NoUnit]
        /\ intact' = [intact EXCEPT ![c] = FALSE]
        /\ UNCHANGED sockLock
  /\ UNCHANGED <<controlVars, listVars, cast, asked, sock, broken, feedVars>>

(* sendAccessUnit returns: every fragment went out, the connection is lost,
   or the send buffer was full part way through.                           *)
SendReturns(c, ok, next) ==
  /\ wpc[c] = "sending"
  /\ intact' = [intact EXCEPT ![c] = ok]
  /\ hand' = [hand EXCEPT ![c] = NoUnit]
  /\ wpc' = [wpc EXCEPT ![c] = next]
  /\ sockLock' = [sockLock EXCEPT ![c] = "free"]
  /\ UNCHANGED <<controlVars, listVars, cast, asked, sock, broken, feedVars>>

SendWhole(c) ==
  /\ ~broken[c]
  /\ SendReturns(c, TRUE, "eval")
  /\ UNCHANGED alive

(* Mutant: a lost connection is treated like a full buffer.                *)
SendFatalIsSoft(c) ==
  /\ SendReturns(c, FALSE, "drop")
  /\ UNCHANGED alive

SendFatal(c) ==
  /\ SendReturns(c, FALSE, "exit")
  /\ alive' = [alive EXCEPT ![c] = FALSE]

SendFull(c) ==
  /\ SendReturns(c, FALSE, "drop")
  /\ UNCHANGED alive

(* The backlog is discarded under queueMutex, which was free since the pop. *)
WriterDrop(c) ==
  /\ wpc[c] = "drop"
  /\ queue' = [queue EXCEPT ![c] = <<>>]
  /\ awaiting' = [awaiting EXCEPT ![c] = TRUE]
  /\ missed' = [missed EXCEPT ![c] = TRUE]
  /\ wpc' = [wpc EXCEPT ![c] = "ask"]
  /\ UNCHANGED <<controlVars, listVars, cast, asked, alive, sockVars, sendVars>>

(* Mutant: a writer that dropped its backlog asks for nothing.             *)
WriterAskNothing(c) ==
  /\ wpc[c] = "ask"
  /\ wpc' = [wpc EXCEPT ![c] = "eval"]
  /\ UNCHANGED <<asked, controlVars, listVars, cast, alive, sockVars, feedVars, sendVars>>

WriterAsk(c) ==
  /\ wpc[c] = "ask"
  /\ asked' = TRUE
  /\ wpc' = [wpc EXCEPT ![c] = "eval"]
  /\ UNCHANGED <<controlVars, listVars, cast, alive, sockVars, feedVars, sendVars>>

WriterExit(c) ==
  /\ wpc[c] = "exit"
  /\ alive' = [alive EXCEPT ![c] = FALSE]
  /\ wpc' = [wpc EXCEPT ![c] = "close"]
  /\ UNCHANGED <<controlVars, listVars, cast, asked, sockVars, feedVars, sendVars>>

WriterClose(c) ==
  /\ wpc[c] = "close"
  /\ sockLock[c] = "free"
  /\ sock' = [sock EXCEPT ![c] = "closed"]
  /\ wpc' = [wpc EXCEPT ![c] = "erase"]
  /\ UNCHANGED <<controlVars, listVars, cast, asked, alive, sockLock, broken, feedVars,
                 sendVars>>

(* What an erase leaves in clientCount_.                                   *)
CountAfter(remaining) == Cardinality(remaining)

WriterErase(c) ==
  /\ wpc[c] = "erase"
  /\ clients' = clients \ {c}
  /\ clientCount' = CountAfter(clients')
  /\ wpc' = [wpc EXCEPT ![c] = "gone"]
  /\ UNCHANGED <<controlVars, cast, asked, alive, sockVars, feedVars, sendVars>>

-----------------------------------------------------------------------------
(* broadcast(), called by the render thread alone; stop() comes after that
   thread was joined.                                                      *)

CastBegin(key) ==
  /\ cast.pc = "idle" /\ running
  /\ cast' = IF clients = {} THEN cast
             ELSE [pc |-> "each", key |-> key, targets |-> clients, client |-> {},
                   overflowed |-> FALSE]
  /\ asked' = (asked /\ ~key)
  /\ missed' = [c \in Clients |-> missed[c] \/ c \notin clients]
  /\ UNCHANGED <<controlVars, listVars, wpc, alive, sockVars, awaiting, queue, sendVars>>

(* One turn of the loop: a client already marked dead is passed over ...   *)
CastTest(c) ==
  /\ cast.pc = "each" /\ c \in cast.targets
  /\ \/ /\ ~alive[c]
        /\ cast' = [cast EXCEPT !.targets = @ \ {c}]
        /\ missed' = [missed EXCEPT ![c] = TRUE]
     \/ /\ alive[c]
        /\ cast' = [cast EXCEPT !.targets = @ \ {c}, !.client = c, !.pc = "offer"]
        /\ UNCHANGED missed
  /\ UNCHANGED <<controlVars, listVars, asked, wpc, alive, sockVars, awaiting, queue,
                 sendVars>>

(* ... and any other is offered the unit: it keeps waiting ...             *)
Skip(c) ==
  /\ awaiting[c] /\ ~cast.key
  /\ missed' = [missed EXCEPT ![c] = TRUE]
  /\ UNCHANGED <<awaiting, queue, wpc>>

(* Mutant: the queue limit is off by one.                                  *)
QueueOverFull(c) == Len(queue[c]) > MaxQueuedFrames

(* ... is dropped to the next keyframe, its queue being full ...           *)
QueueFull(c) == Len(queue[c]) >= MaxQueuedFrames

DropToKeyframe(c) ==
  /\ queue' = [queue EXCEPT ![c] = <<>>]
  /\ awaiting' = [awaiting EXCEPT ![c] = TRUE]
  /\ missed' = [missed EXCEPT ![c] = TRUE]

(* ... or gets the unit queued and its writer woken.                       *)
Enqueue(c) ==
  /\ queue' = [queue EXCEPT ![c] =
                 Append(@, [key |-> cast.key, follows |-> ~missed[c]])]
  /\ awaiting' = [awaiting EXCEPT ![c] = FALSE]
  /\ missed' = [missed EXCEPT ![c] = FALSE]
  /\ wpc' = Notify(wpc, c)

(* That turn of the loop, under the client's queueMutex.                   *)
CastOffer(c) ==
  /\ cast.pc = "offer" /\ cast.client = c
  /\ wpc[c] # "toWait"
  /\ \/ /\ Skip(c)
        /\ cast' = [cast EXCEPT !.pc = "each", !.client = {}]
     \/ /\ cast.key \/ ~awaiting[c]
        /\ QueueFull(c)
        /\ DropToKeyframe(c)
        /\ cast' = [cast EXCEPT !.pc = "each", !.client = {}, !.overflowed = TRUE]
        /\ UNCHANGED wpc
     \/ /\ cast.key \/ ~awaiting[c]
        /\ ~QueueFull(c)
        /\ Enqueue(c)
        /\ cast' = [cast EXCEPT !.pc = "each", !.client = {}]
  /\ UNCHANGED <<controlVars, listVars, asked, alive, sockVars, sendVars>>

CastEnd ==
  /\ cast.pc = "each" /\ cast.targets = {}
  /\ cast' = [cast EXCEPT !.pc = "idle"]
  /\ asked' = (asked \/ cast.overflowed)
  /\ UNCHANGED <<controlVars, listVars, wpc, alive, sockVars, feedVars, sendVars>>

-----------------------------------------------------------------------------
(* pollStats: the statistics thread.                                       *)

(* clients_ is copied under mutex_, or the loop ends.                      *)
StatsCopy ==
  /\ stats.pc = "copy"
  /\ stats' = IF running THEN [stats EXCEPT !.pc = "each", !.targets = clients]
              ELSE [stats EXCEPT !.pc = "exited"]
  /\ UNCHANGED <<stopper, acceptor, listVars, cast, asked, wpc, alive, sockVars, feedVars,
                 sendVars>>

(* One client's socketMutex is taken; a closed socket is passed over.      *)
StatsLock(c) ==
  /\ stats.pc = "each" /\ c \in stats.targets
  /\ sockLock[c] = "free"
  /\ \/ /\ sock[c] = "open"
        /\ sockLock' = [sockLock EXCEPT ![c] = "stats"]
        /\ stats' = [stats EXCEPT !.pc = "reading", !.client = c]
     \/ /\ sock[c] # "open"
        /\ stats' = [stats EXCEPT !.targets = @ \ {c}]
        /\ UNCHANGED sockLock
  /\ UNCHANGED <<stopper, acceptor, listVars, cast, asked, wpc, alive, sock, broken,
                 feedVars, sendVars>>

(* srt_bstats returned.                                                    *)
StatsRead(c) ==
  /\ stats.pc = "reading" /\ stats.client = c
  /\ sockLock' = [sockLock EXCEPT ![c] = "free"]
  /\ stats' = [pc |-> "each", targets |-> stats.targets \ {c}, client |-> {}]
  /\ UNCHANGED <<stopper, acceptor, listVars, cast, asked, wpc, alive, sock, broken,
                 feedVars, sendVars>>

(* worstStats_ is published and the thread sleeps.                         *)
StatsPublish ==
  /\ stats.pc = "each" /\ stats.targets = {}
  /\ stats' = [stats EXCEPT !.pc = "copy"]
  /\ UNCHANGED <<stopper, acceptor, listVars, cast, asked, wpc, alive, sockVars, feedVars,
                 sendVars>>

-----------------------------------------------------------------------------
(* stop().                                                                 *)

StopBegin ==
  /\ running /\ cast.pc = "idle"
  /\ stopper' = [stopper EXCEPT !.pc = "joinAccept"]
  /\ UNCHANGED <<acceptor, stats, listVars, cast, asked, wpc, alive, sockVars, feedVars,
                 sendVars>>

(* acceptThread_.join(); the listener is closed only now.                  *)
StopJoinAccept ==
  /\ stopper.pc = "joinAccept"
  /\ acceptor.pc = "exited"
  /\ stopper' = [stopper EXCEPT !.pc = "joinStats"]
  /\ UNCHANGED <<acceptor, stats, listVars, cast, asked, wpc, alive, sockVars, feedVars,
                 sendVars>>

(* statsThread_.join(), then clients_ is copied.                           *)
StopJoinStats ==
  /\ stopper.pc = "joinStats"
  /\ stats.pc = "exited"
  /\ stopper' = [stopper EXCEPT !.pc = "kill", !.targets = clients]
  /\ UNCHANGED <<acceptor, stats, listVars, cast, asked, wpc, alive, sockVars, feedVars,
                 sendVars>>

(* alive = false and notify_all, with no mutex held ...                    *)
StopKill(c) ==
  /\ stopper.pc = "kill" /\ c \in stopper.targets
  /\ alive' = [alive EXCEPT ![c] = FALSE]
  /\ wpc' = Notify(wpc, c)
  /\ stopper' = [pc |-> "close", targets |-> stopper.targets \ {c}, client |-> c]
  /\ UNCHANGED <<acceptor, stats, listVars, cast, asked, sockVars, feedVars, sendVars>>

(* ... then the socket is closed under its mutex.                          *)
StopCloseSocket(c) ==
  /\ stopper.pc = "close" /\ stopper.client = c
  /\ sockLock[c] = "free"
  /\ sock' = [sock EXCEPT ![c] = "closed"]
  /\ stopper' = [stopper EXCEPT !.pc = "kill", !.client = {}]
  /\ UNCHANGED <<acceptor, stats, listVars, cast, asked, wpc, alive, sockLock, broken,
                 feedVars, sendVars>>

StopKilled ==
  /\ stopper.pc = "kill" /\ stopper.targets = {}
  /\ stopper' = [stopper EXCEPT !.pc = "wait"]
  /\ UNCHANGED <<acceptor, stats, listVars, cast, asked, wpc, alive, sockVars, feedVars,
                 sendVars>>

(* The bounded wait ends, with clients_ empty or not.                      *)
StopClear ==
  /\ stopper.pc = "wait"
  /\ clients' = {}
  /\ clientCount' = 0
  /\ stopper' = [stopper EXCEPT !.pc = "stopped"]
  /\ UNCHANGED <<acceptor, stats, cast, asked, wpc, alive, sockVars, feedVars, sendVars>>

-----------------------------------------------------------------------------

Writer(c) ==
  \/ WriterEval(c) \/ WriterBlocks(c) \/ WriterLock(c)
  \/ SendWhole(c) \/ SendFatal(c) \/ SendFull(c)
  \/ WriterDrop(c) \/ WriterAsk(c)
  \/ WriterExit(c) \/ WriterClose(c) \/ WriterErase(c)

Acceptor ==
  \/ \E c \in Clients : Accept(c)
  \/ Spawn \/ AskForJoin \/ AcceptExit

Broadcaster ==
  \/ \E key \in BOOLEAN : CastBegin(key)
  \/ \E c \in Clients : CastTest(c) \/ CastOffer(c)
  \/ CastEnd

Statistician ==
  \/ StatsCopy \/ StatsPublish
  \/ \E c \in Clients : StatsLock(c) \/ StatsRead(c)

Stopper ==
  \/ Start \/ StopBegin \/ StopJoinAccept \/ StopJoinStats \/ StopKilled \/ StopClear
  \/ \E c \in Clients : StopKill(c) \/ StopCloseSocket(c)

Next ==
  \/ Acceptor \/ Broadcaster \/ Statistician \/ Stopper
  \/ \E c \in Clients : Writer(c) \/ SpuriousWakeup(c) \/ PeerVanishes(c)

Spec == Init /\ [][Next]_vars

(* Every thread that can run does, mutexes that keep being released are
   acquired, a writer that keeps being woken for a unit sometimes gets to it
   before an overflow clears the queue (that takes eight frames), and
   keyframes are broadcast again and again.  SRT reaps a
   silent peer (SRTO_PEERIDLETIMEO), so sends to a broken connection that
   are tried again and again fail for good in the end.                     *)
Fairness ==
  /\ \A c \in Clients :
       /\ WF_vars(Writer(c))
       /\ SF_vars(WriterEval(c) /\ queue[c] # <<>>)
       /\ SF_vars(WriterLock(c)) /\ SF_vars(WriterClose(c))
       /\ SF_vars(broken[c] /\ SendFatal(c))
       /\ SF_vars(CastOffer(c)) /\ WF_vars(CastTest(c))
       /\ WF_vars(StopKill(c)) /\ SF_vars(StopCloseSocket(c))
       /\ SF_vars(StatsLock(c)) /\ WF_vars(StatsRead(c))
  /\ WF_vars(Spawn \/ AskForJoin \/ AcceptExit)
  /\ WF_vars(CastEnd)
  /\ SF_vars(CastBegin(TRUE))
  /\ WF_vars(StatsCopy \/ StatsPublish)
  /\ WF_vars(StopJoinAccept \/ StopJoinStats \/ StopKilled \/ StopClear)

LiveSpec == Spec /\ Fairness

-----------------------------------------------------------------------------

(* No libsrt call is made on a closed socket, and no two at once on one
   socket: "send/stats/close racing on the same socket has repeatedly
   faulted inside libsrt" (Client::socketMutex).                           *)
NoSocketRace ==
  \A c \in Clients :
    LET inSend  == wpc[c] = "sending"
        inStats == stats.pc = "reading" /\ stats.client = c
    IN /\ inSend \/ inStats => sock[c] = "open"
       /\ ~(inSend /\ inStats)

(* No live client waits for a keyframe nobody asked for: whenever broadcast is
   at rest, a waiting client was covered by a request made since the last
   keyframe, or its accept or its own writer is about to make one.         *)
EveryGapIsAsked ==
  running /\ cast.pc = "idle" =>
    \A c \in clients :
      awaiting[c] /\ alive[c] => asked \/ wpc[c] = "ask" \/ acceptor.client = c

(* Once stop() is over nothing is connected and no thread but a writer that
   is already leaving can touch a client.                                  *)
StoppedIsEmpty ==
  stopper.pc = "stopped" =>
    /\ clients = {} /\ clientCount = 0
    /\ acceptor.pc = "exited" /\ stats.pc = "exited"
    /\ \A c \in Clients : sock[c] # "open"

(* The type invariant, no live client waiting in vain for a keyframe, and what
   stop() leaves.                                                          *)
LinkInv == TypeOK /\ EveryGapIsAsked /\ StoppedIsEmpty

(* A viewer that vanished is found out by a failing send and leaves: nothing
   else notices it, for there is no reader thread.                         *)
BrokenLinkLeaves ==
  \A c \in Clients :
    (c \in clients /\ broken[c]) ~> (c \notin clients \/ ~running)

-----------------------------------------------------------------------------
(* The phase of FanOut a client's writer is in.                            *)
PhaseOf(c) ==
  CASE wpc[c] = "none" -> "absent"
    [] wpc[c] \in Joined /\ alive[c] -> "idle"
    [] wpc[c] \in Sending /\ alive[c] -> "sending"
    [] wpc[c] \in Sending /\ ~alive[c] -> "dying"
    [] wpc[c] = "drop" /\ alive[c] -> "failed"
    [] OTHER -> "left"

Feed == INSTANCE FanOut WITH phase <- [c \in Clients |-> PhaseOf(c)]

(* Threads, locks and sockets add nothing to what FanOut allows.           *)
ImplementsFanOut == Feed!Spec
=============================================================================
