---------------------------- MODULE FanOutProofs ----------------------------
(***************************************************************************)
(* The delivery promise of FanOut, for any set of clients and any queue    *)
(* limit: the inductive invariant IInv, and from it NeverMidGop,           *)
(* KeyframeFindsRoom and BacklogBounded.                                   *)
(***************************************************************************)
EXTENDS FanOut, SequenceTheorems, TLAPS

(* Appending to a queue keeps what it held and puts the new unit last.     *)
LEMMA AppendUnit ==
  ASSUME NEW q \in Seq(Unit), NEW u \in Unit
  PROVE  /\ Append(q, u) \in Seq(Unit)
         /\ Append(q, u) # <<>>
         /\ Len(Append(q, u)) = Len(q) + 1
         /\ \A i \in 1..Len(q) : Append(q, u)[i] = q[i]
         /\ Append(q, u)[Len(q) + 1] = u
BY AppendProperties

(* Popping a queue returns its first unit and shifts the others down.      *)
LEMMA PopUnit ==
  ASSUME NEW q \in Seq(Unit), q # <<>>
  PROVE  /\ Head(q) \in Unit
         /\ Head(q) = q[1]
         /\ Tail(q) \in Seq(Unit)
         /\ Len(q) \in Nat \ {0}
         /\ Len(Tail(q)) = Len(q) - 1
         /\ \A i \in 1..Len(Tail(q)) : Tail(q)[i] = q[i + 1]
<1>1. Len(q) \in Nat \ {0}
  BY EmptySeq
<1>2. Head(q) = q[1]
  OBVIOUS
<1>3. QED
  BY <1>1, <1>2, HeadTailProperties

(* An empty queue is a queue of units, and holds none.                     *)
LEMMA NoUnits == <<>> \in Seq(Unit) /\ Len(<<>>) = 0
BY EmptySeq

(* Init establishes the inductive invariant.                               *)
LEMMA InitInv == Init => IInv
<1> SUFFICES ASSUME Init PROVE IInv
  OBVIOUS
<1>1. TypeOK
  BY NoUnits DEF Init, TypeOK, Phases, Unit, NoUnit
<1>2. KeyframeFindsRoom /\ QueueDecodable /\ AbsentAwaits /\ BacklogBounded
  BY NoUnits, QueueAssumption
  DEF Init, KeyframeFindsRoom, QueueDecodable, AbsentAwaits, BacklogBounded
<1>3. NothingMissed /\ HeadDecodable /\ NeverMidGop
  BY DEF Init, NothingMissed, HeadDecodable, NeverMidGop
<1>4. QED
  BY <1>1, <1>2, <1>3 DEF IInv

(* Offering a frame to one client keeps the inductive invariant.           *)
LEMMA OfferInv ==
  ASSUME IInv, NEW c \in Clients, NEW key \in BOOLEAN, Offer(c, key)
  PROVE  IInv'
<1> USE DEF Offer
<1>0. /\ TypeOK /\ KeyframeFindsRoom /\ QueueDecodable
      /\ NothingMissed /\ HeadDecodable /\ NeverMidGop
      /\ AbsentAwaits /\ BacklogBounded
  BY DEF IInv
<1>1. CASE OfferSkipped(c, key)
  BY <1>0, <1>1 DEF OfferSkipped, IInv, TypeOK, KeyframeFindsRoom, QueueDecodable,
     NothingMissed, HeadDecodable, NeverMidGop, AbsentAwaits, BacklogBounded
<1>2. CASE OfferOverflows(c, key)
  BY <1>0, <1>2, NoUnits, QueueAssumption DEF OfferOverflows, IInv, TypeOK,
     KeyframeFindsRoom, QueueDecodable, NothingMissed, HeadDecodable, NeverMidGop,
     AbsentAwaits, BacklogBounded
<1>3. CASE OfferQueued(c, key)
  <2> DEFINE u == [key |-> key, follows |-> ~missed[c]]
             q == queue[c]
  <2>1. u \in Unit /\ q \in Seq(Unit)
    BY <1>0 DEF TypeOK, Unit
  <2>2. queue' = [queue EXCEPT ![c] = Append(q, u)]
    BY <1>3 DEF OfferQueued
  <2>3. /\ Append(q, u) \in Seq(Unit)
        /\ Append(q, u) # <<>>
        /\ Len(q) \in Nat
        /\ Len(Append(q, u)) = Len(q) + 1
        /\ \A i \in 1..Len(q) : Append(q, u)[i] = q[i]
        /\ Append(q, u)[Len(q) + 1] = u
    BY <2>1, AppendUnit, LenProperties
  <2>4. queue'[c] = Append(q, u) /\ \A d \in Clients \ {c} : queue'[d] = queue[d]
    BY <1>0, <2>2 DEF TypeOK
  <2>5. TypeOK'
    BY <1>0, <1>3, <2>2, <2>3 DEF OfferQueued, TypeOK
  <2>6. KeyframeFindsRoom'
    BY <1>0, <1>3, <2>4 DEF OfferQueued, TypeOK, KeyframeFindsRoom
  <2>7. phase[c] \notin Doomed => u.key \/ u.follows
    BY <1>0, <1>3 DEF OfferQueued, NothingMissed
  <2>8. QueueDecodable'
    <3> SUFFICES ASSUME NEW d \in Clients, phase[d] \notin Doomed,
                        NEW i \in 1..Len(queue'[d])
                 PROVE  queue'[d][i].key \/ queue'[d][i].follows
      BY DEF QueueDecodable
    <3>1. CASE d # c
      BY <1>0, <2>4, <3>1 DEF QueueDecodable
    <3>2. CASE d = c /\ i \in 1..Len(q)
      BY <1>0, <2>3, <2>4, <3>2 DEF QueueDecodable
    <3>3. CASE d = c /\ i = Len(q) + 1
      BY <2>3, <2>4, <2>7, <3>3
    <3>4. QED
      BY <2>3, <2>4, <3>1, <3>2, <3>3
  <2>9. NothingMissed'
    BY <1>0, <1>3 DEF OfferQueued, TypeOK, NothingMissed
  <2>10. HeadDecodable'
    <3> SUFFICES ASSUME NEW d \in Clients, phase[d] = "idle", ~intact[d], ~awaiting'[d]
                 PROVE  queue'[d] # <<>> /\ queue'[d][1].key
      BY DEF HeadDecodable
    <3>1. CASE d # c
      BY <1>0, <1>3, <2>4, <3>1 DEF OfferQueued, HeadDecodable, TypeOK
    <3>2. CASE d = c /\ awaiting[c]
      <4>1. q = <<>> /\ key
        BY <1>0, <1>3, <3>2 DEF OfferQueued, KeyframeFindsRoom
      <4>2. QED
        BY <2>3, <2>4, <3>2, <4>1, NoUnits
    <3>3. CASE d = c /\ ~awaiting[c]
      <4>1. q # <<>> /\ q[1].key
        BY <1>0, <3>3 DEF HeadDecodable
      <4>2. 1 \in 1..Len(q)
        BY <2>1, <4>1, PopUnit
      <4>3. QED
        BY <2>3, <2>4, <3>3, <4>1, <4>2
    <3>4. QED
      BY <1>0, <3>1, <3>2, <3>3 DEF TypeOK
  <2>11. NeverMidGop'
    BY <1>0 DEF NeverMidGop
  <2>12. AbsentAwaits' /\ BacklogBounded'
    BY <1>0, <1>3, <2>3, <2>4, QueueAssumption
    DEF OfferQueued, TypeOK, AbsentAwaits, BacklogBounded
  <2>13. QED
    BY <2>5, <2>6, <2>8, <2>9, <2>10, <2>11, <2>12 DEF IInv
<1>4. QED
  BY <1>1, <1>2, <1>3

(* Popping a unit keeps the inductive invariant; this is the step in which
   the unit a writer will send is chosen.                                  *)
LEMMA TakeInv ==
  ASSUME IInv, NEW c \in Clients, Take(c)
  PROVE  IInv'
<1>0. /\ TypeOK /\ KeyframeFindsRoom /\ QueueDecodable
      /\ NothingMissed /\ HeadDecodable /\ NeverMidGop
      /\ AbsentAwaits /\ BacklogBounded
  BY DEF IInv
<1> DEFINE q == queue[c]
<1>1. q \in Seq(Unit) /\ q # <<>>
  BY <1>0 DEF Take, TypeOK
<1>2. /\ Head(q) \in Unit
      /\ Head(q) = q[1]
      /\ Tail(q) \in Seq(Unit)
      /\ Len(q) \in Nat \ {0}
      /\ Len(Tail(q)) = Len(q) - 1
      /\ \A i \in 1..Len(Tail(q)) : Tail(q)[i] = q[i + 1]
  BY <1>1, PopUnit
<1>3. /\ queue'[c] = Tail(q) /\ hand'[c] = Head(q) /\ phase'[c] = "sending"
      /\ \A d \in Clients \ {c} :
           queue'[d] = queue[d] /\ hand'[d] = hand[d] /\ phase'[d] = phase[d]
  BY <1>0 DEF Take, TypeOK
<1>4. ~awaiting[c]
  BY <1>0, <1>1 DEF KeyframeFindsRoom
<1>5. TypeOK'
  BY <1>0, <1>2 DEF Take, TypeOK, Phases
<1>6. KeyframeFindsRoom'
  BY <1>0, <1>3, <1>4 DEF Take, KeyframeFindsRoom
<1>7. QueueDecodable'
  <2> SUFFICES ASSUME NEW d \in Clients, phase'[d] \notin Doomed,
                      NEW i \in 1..Len(queue'[d])
               PROVE  queue'[d][i].key \/ queue'[d][i].follows
    BY DEF QueueDecodable
  <2>1. CASE d # c
    BY <1>0, <1>3, <2>1 DEF QueueDecodable
  <2>2. CASE d = c
    <3>1. queue'[d] = Tail(q) /\ i \in 1..Len(Tail(q))
      BY <1>3, <2>2
    <3>2. i + 1 \in 1..Len(q) /\ Tail(q)[i] = q[i + 1]
      BY <1>2, <3>1
    <3>3. q[i + 1].key \/ q[i + 1].follows
      BY <1>0, <3>2 DEF QueueDecodable, Take, Doomed
    <3>4. QED
      BY <3>1, <3>2, <3>3
  <2>3. QED
    BY <2>1, <2>2
<1>8. NothingMissed'
  BY <1>0, <1>3 DEF Take, NothingMissed, Doomed
<1>9. HeadDecodable'
  BY <1>0, <1>3 DEF Take, HeadDecodable
<1>10. NeverMidGop'
  <2>1. q[1].key \/ (q[1].follows /\ intact[c])
    <3>1. q[1].key \/ q[1].follows
      BY <1>0, <1>2 DEF QueueDecodable, Take, Doomed
    <3>2. intact[c] \/ q[1].key
      BY <1>0, <1>4 DEF HeadDecodable, Take
    <3>3. QED
      BY <3>1, <3>2
  <2>2. QED
    BY <1>0, <1>2, <1>3, <2>1 DEF Take, NeverMidGop
<1>11. AbsentAwaits' /\ BacklogBounded'
  BY <1>0, <1>2, <1>3, QueueAssumption DEF Take, AbsentAwaits, BacklogBounded
<1>12. QED
  BY <1>5, <1>6, <1>7, <1>8, <1>9, <1>10, <1>11 DEF IInv

(* Every step keeps the inductive invariant.                               *)
LEMMA NextInv == IInv /\ [Next]_vars => IInv'
<1> SUFFICES ASSUME IInv, [Next]_vars PROVE IInv'
  OBVIOUS
<1> USE DEF IInv, TypeOK, Phases, KeyframeFindsRoom, QueueDecodable, NothingMissed,
            HeadDecodable, NeverMidGop, AbsentAwaits, BacklogBounded
<1>1. ASSUME NEW targets \in SUBSET Clients, Withhold(targets)
      PROVE  IInv'
  <2>1. TypeOK'
    BY <1>1 DEF Withhold, Doomed
  <2>2. NothingMissed'
    BY <1>1 DEF Withhold, Doomed
  <2>3. KeyframeFindsRoom' /\ QueueDecodable' /\ HeadDecodable' /\ NeverMidGop'
    BY <1>1 DEF Withhold, Doomed
  <2>4. AbsentAwaits' /\ BacklogBounded'
    BY <1>1 DEF Withhold, Doomed
  <2>5. QED
    BY <2>1, <2>2, <2>3, <2>4
<1>2. ASSUME NEW c \in Clients, Join(c)
      PROVE  IInv'
  BY <1>2 DEF Join, Doomed
<1>3. ASSUME NEW c \in Clients, NEW key \in BOOLEAN, Offer(c, key)
      PROVE  IInv'
  BY <1>3, OfferInv
<1>4. ASSUME NEW c \in Clients, Take(c)
      PROVE  IInv'
  BY <1>4, TakeInv
<1>5. ASSUME NEW c \in Clients, Deliver(c)
      PROVE  IInv'
  BY <1>5 DEF Deliver, Unit, NoUnit, Doomed
<1>6. ASSUME NEW c \in Clients, Fail(c)
      PROVE  IInv'
  BY <1>6 DEF Fail, Unit, NoUnit, Doomed
<1>7. ASSUME NEW c \in Clients, Resync(c)
      PROVE  IInv'
  BY <1>7, NoUnits, QueueAssumption DEF Resync, Doomed
<1>8. ASSUME NEW c \in Clients, Leave(c)
      PROVE  IInv'
  BY <1>8 DEF Leave, Doomed
<1>9. CASE UNCHANGED vars
  BY <1>9 DEF vars
<1>10. QED
  BY <1>1, <1>2, <1>3, <1>4, <1>5, <1>6, <1>7, <1>8, <1>9 DEF Next

(* The inductive invariant holds in every reachable state.                 *)
THEOREM InvHolds == Spec => []IInv
BY InitInv, NextInv, PTL DEF Spec

(* No viewer is ever sent a unit it cannot decode, whatever the number of
   clients, the queue limit and the order of offers, sends and failures.   *)
THEOREM NeverMidGopHolds == Spec => []NeverMidGop
<1>1. IInv => NeverMidGop
  BY DEF IInv
<1>2. QED
  BY <1>1, InvHolds, PTL

(* A keyframe offered to a waiting client is always queued, and no backlog
   ever exceeds the limit.                                                 *)
THEOREM QueueDiscipline == Spec => [](KeyframeFindsRoom /\ BacklogBounded)
<1>1. IInv => KeyframeFindsRoom /\ BacklogBounded
  BY DEF IInv
<1>2. QED
  BY <1>1, InvHolds, PTL
=============================================================================
