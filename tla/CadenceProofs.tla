--------------------------- MODULE CadenceProofs ---------------------------
(***************************************************************************)
(* The keyframe requests for any number of threads and any interval, GOP   *)
(* and cadence.                                                            *)
(*                                                                         *)
(* That IDRs keep coming: the turns since the last one are bounded by the  *)
(* frames encoded since, at most one cadence apart (Paced).                *)
(*                                                                         *)
(* That forced ones keep their distance: a request that passed the exchange *)
(* is answered within MaxDelay + 1 turns of the time it stored (Young,     *)
(* WantedYoung), so that time is never much older than the last forced IDR *)
(* (AgeBound); the next request needs it to be Interval old (Unhurried),   *)
(* and so does not come before the last IDR is nearly as old (Spaced).     *)
(***************************************************************************)
EXTENDS Keyframes, FullRateLease, TLAPS

(* The turns since the last IDR, by the frames encoded since it.           *)
Paced ==
  sinceIdr <= IF frame # 0 THEN sinceKey * IdleDivisor + frame
              ELSE IF render.pc = "pace" THEN sinceKey * IdleDivisor
              ELSE sinceKey * IdleDivisor + IdleDivisor

(* One request is past the exchange at a time, and its time is the one
   stored; another may pass only when that time is Interval old.           *)
Served == {r \in Requesters : pc[r] \in {"flag", "want"}}

OneServed ==
  /\ \A r \in Served : age = elapsed[r]
  /\ \A r, s \in Served : r = s

Unhurried ==
  \A r \in Requesters : pc[r] = "exchange" /\ ~outdated[r] => age >= Interval

WantedYoung ==
  wanted => age <= MaxDelay + (IF render.pc \in {"top", "clear"} THEN 1 ELSE 0)

(* A granted IDR is to be forced: the flag is set, or has been read.       *)
Due == granted /\ (requested \/ (render.idr /\ render.pc \in {"flag", "send"}))

Young ==
  /\ Due => age <= MaxDelay + 1
  /\ granted /\ requested /\ render.pc \in {"send", "pace"} => age <= MaxDelay

AgeBound == age <= sinceForced + MaxDelay + 1

Ready == sinceForced + MaxDelay + 1 >= Interval

Flagging == \E r \in Requesters : pc[r] = "flag"

Spaced ==
  /\ granted \/ Flagging => Ready
  /\ Due /\ Flagging => MaxDelay + 1 >= Interval

IInv ==
  /\ TypeOK /\ PendingIsWanted /\ Paced
  /\ OneServed /\ Unhurried /\ WantedYoung /\ Young /\ AgeBound /\ Spaced

USE DEF requestVars, flagVars, renderVars, historyVars

-----------------------------------------------------------------------------
(* Arithmetic.                                                             *)

LEMMA CadenceTurns ==
  ASSUME NEW D \in Nat \ {0}, NEW f \in 0..(D - 1)
  PROVE  (f + 1) % D = IF f + 1 = D THEN 0 ELSE f + 1
OBVIOUS

LEMMA OneMore ==
  ASSUME NEW k \in Nat, NEW d \in Nat
  PROVE  (k + 1) * d = k * d + d /\ k * d \in Nat
OBVIOUS

LEMMA AtMost ==
  ASSUME NEW k \in Nat, NEW g \in Nat, NEW d \in Nat, k < g
  PROVE  k * d + d <= g * d
OBVIOUS

LEMMA Caps ==
  /\ GopSize * IdleDivisor \in Nat
  /\ IdrCap \in Nat \ {0} /\ IdrCap = GopSize * IdleDivisor + 1
  /\ AgeCap \in Nat \ {0} /\ AgeCap = Interval + MaxDelay
<1>1. GopSize * IdleDivisor \in Nat
  BY ParameterAssumption, OneMore
<1>2. QED
  BY <1>1, ParameterAssumption DEF IdrCap, AgeCap

-----------------------------------------------------------------------------
(* Types.                                                                  *)

LEMMA InitType == Init => TypeOK
<1> SUFFICES ASSUME Init PROVE TypeOK
  OBVIOUS
<1>1. outdated \in [Requesters -> BOOLEAN]
  BY Zenon DEF Init
<1>2. pc \in [Requesters -> {"idle", "read", "exchange", "flag", "want"}]
  BY DEF Init
<1>3. /\ requested \in BOOLEAN /\ wanted \in BOOLEAN /\ granted \in BOOLEAN
      /\ render \in [pc : {"top", "clear", "type", "flag", "send", "pace"}, idr : BOOLEAN]
  BY DEF Init
<1>4. QED
  BY <1>1, <1>2, <1>3, ParameterAssumption, Caps DEF Init, TypeOK

LEMMA RequestType ==
  ASSUME TypeOK, NEW r \in Requesters, Request(r)
  PROVE  TypeOK'
<1>1. CASE Ask(r)
  BY <1>1, ParameterAssumption DEF Ask, TypeOK
<1>2. CASE ReadLast(r)
  <2>1. outdated' \in [Requesters -> BOOLEAN]
    BY <1>2, Zenon DEF ReadLast, TypeOK
  <2>2. QED
    BY <1>2, <2>1, ParameterAssumption DEF ReadLast, TypeOK
<1>5. CASE Exchange(r)
  <2>1. outdated' \in [Requesters -> BOOLEAN]
    BY <1>5, Zenon DEF Exchange, TypeOK
  <2>2. age' \in 0..AgeCap
    BY <1>5, ParameterAssumption, Caps DEF Exchange, TypeOK
  <2>3. QED
    BY <1>5, <2>1, <2>2 DEF Exchange, TypeOK
<1>3. CASE SetFlag(r) \/ SetWanted(r)
  BY <1>3 DEF SetFlag, SetWanted, TypeOK
<1>4. QED
  BY <1>1, <1>2, <1>3, <1>5 DEF Request

LEMMA PaceType == TypeOK /\ Pace => TypeOK'
<1> SUFFICES ASSUME TypeOK, Pace PROVE TypeOK'
  OBVIOUS
<1>1. frame' \in 0..(IdleDivisor - 1)
  BY ParameterAssumption, CadenceTurns DEF Pace, TypeOK
<1>2. elapsed' \in [Requesters -> 0..MaxDelay]
  BY ParameterAssumption DEF Pace, TypeOK
<1>3. age' \in 0..AgeCap /\ sinceForced' \in 0..Interval /\ sinceIdr' \in 0..IdrCap
  BY ParameterAssumption, Caps DEF Pace, UpTo, TypeOK
<1>4. QED
  BY <1>1, <1>2, <1>3 DEF Pace, TypeOK

LEMMA NextType == TypeOK /\ [Next]_vars => TypeOK'
<1> SUFFICES ASSUME TypeOK, [Next]_vars PROVE TypeOK'
  OBVIOUS
<1>1. CASE \E r \in Requesters : Request(r)
  BY <1>1, RequestType
<1>2. CASE Decide \/ Clear \/ ReadType \/ ResetFlag
  <2>1. render' \in [pc : {"top", "clear", "type", "flag", "send", "pace"}, idr : BOOLEAN]
    BY <1>2 DEF Decide, Clear, ReadType, ResetFlag, TypeOK
  <2>2. requested' \in BOOLEAN /\ wanted' \in BOOLEAN
    BY <1>2 DEF Decide, Clear, ReadType, ResetFlag, TypeOK
  <2>3. QED
    BY <1>2, <2>1, <2>2 DEF Decide, Clear, ReadType, ResetFlag, TypeOK
<1>3. CASE SendFrame \/ ReceiveFails
  <2>1. TakeFrame /\ sinceIdr' \in {0, sinceIdr}
    BY <1>3 DEF SendFrame, ReceiveFails
  <2>2. sinceKey' \in 0..(GopSize - 1)
    BY <2>1, ParameterAssumption DEF TakeFrame, IsKey, TypeOK
  <2>3. granted' \in BOOLEAN /\ sinceForced' \in 0..Interval /\ sinceIdr' \in 0..IdrCap
    BY <2>1, ParameterAssumption, Caps DEF TakeFrame, TypeOK
  <2>4. QED
    BY <2>1, <2>2, <2>3 DEF TakeFrame, TypeOK
<1>4. CASE SendFails
  BY <1>4, Caps DEF SendFails, TypeOK
<1>5. CASE Pace
  BY <1>5, PaceType
<1>6. CASE UNCHANGED vars
  BY <1>6 DEF vars, TypeOK
<1>7. QED
  BY <1>1, <1>2, <1>3, <1>4, <1>5, <1>6 DEF Next

-----------------------------------------------------------------------------
(* No request is left to the idle cadence, and IDRs keep coming.           *)

LEMMA NextPending == TypeOK /\ PendingIsWanted /\ [Next]_vars => PendingIsWanted'
<1> SUFFICES ASSUME TypeOK, PendingIsWanted, [Next]_vars PROVE PendingIsWanted'
  OBVIOUS
<1>1. ASSUME NEW r \in Requesters, Request(r) PROVE PendingIsWanted'
  BY <1>1 DEF Request, Ask, ReadLast, Exchange, SetFlag, SetWanted, TypeOK, PendingIsWanted
<1>2. CASE Decide
  BY <1>2 DEF Decide, TypeOK, PendingIsWanted
<1>6. CASE Clear \/ ResetFlag
  BY <1>6 DEF Clear, ResetFlag, TypeOK, PendingIsWanted
<1>7. CASE ReadType
  BY <1>7 DEF ReadType, PendingIsWanted
<1>3. CASE SendFrame \/ SendFails \/ ReceiveFails \/ Pace
  BY <1>3 DEF SendFrame, SendFails, ReceiveFails, TakeFrame, Pace, TypeOK, PendingIsWanted
<1>4. CASE UNCHANGED vars
  BY <1>4 DEF vars, PendingIsWanted
<1>5. QED
  BY <1>1, <1>2, <1>3, <1>4, <1>6, <1>7 DEF Next

LEMMA NextPaced == TypeOK /\ Paced /\ [Next]_vars => Paced'
<1> SUFFICES ASSUME TypeOK, Paced, [Next]_vars PROVE Paced'
  OBVIOUS
<1> DEFINE encoded == sinceKey * IdleDivisor
<1>1. /\ encoded \in Nat /\ (sinceKey + 1) * IdleDivisor = encoded + IdleDivisor
      /\ 0 * IdleDivisor = 0
  BY ParameterAssumption, OneMore DEF TypeOK
<1>2. CASE SendFrame
  <2>1. CASE sinceKey' = sinceKey + 1 /\ sinceIdr' = sinceIdr
    BY <1>1, <1>2, <2>1, ParameterAssumption DEF SendFrame, TakeFrame, Paced, TypeOK
  <2>2. CASE sinceKey' = 0 /\ sinceIdr' = 0
    BY <1>1, <1>2, <2>2, ParameterAssumption DEF SendFrame, TakeFrame, Paced, TypeOK
  <2>3. QED
    BY <1>2, <2>1, <2>2 DEF SendFrame, TakeFrame
<1>3. CASE SendFails \/ ReceiveFails
  <2>1. sinceIdr' = 0 /\ frame' = frame /\ sinceKey' \in {0, sinceKey, sinceKey + 1}
    BY <1>3 DEF SendFails, ReceiveFails, TakeFrame
  <2>2. sinceKey' \in Nat /\ IdleDivisor \in Nat
    BY <2>1, ParameterAssumption DEF TypeOK
  <2>3. sinceKey' * IdleDivisor \in Nat
    BY <2>2, OneMore
  <2>4. frame' \in Nat
    BY <2>1, ParameterAssumption DEF TypeOK
  <2>5. \A k, n \in Nat : 0 <= k /\ 0 <= k + n
    OBVIOUS
  <2>6. QED
    BY <2>1, <2>2, <2>3, <2>4, <2>5 DEF Paced
<1>4. CASE Pace
  <2>1. frame' = IF frame + 1 = IdleDivisor THEN 0 ELSE frame + 1
    BY <1>4, ParameterAssumption, CadenceTurns DEF Pace, TypeOK
  <2>2. sinceIdr' <= sinceIdr + 1 /\ sinceKey' = sinceKey /\ render'.pc = "top"
    BY <1>4, Caps DEF Pace, UpTo, TypeOK
  <2>3. sinceIdr <= encoded + frame
    BY <1>1, <1>4 DEF Pace, Paced, TypeOK
  <2>4. sinceIdr' \in Nat /\ sinceIdr \in Nat /\ frame \in Nat /\ IdleDivisor \in Nat \ {0}
    BY <1>4, PaceType, ParameterAssumption DEF TypeOK
  <2>5. QED
    BY <1>1, <2>1, <2>2, <2>3, <2>4 DEF Paced
<1>5. ASSUME UNCHANGED <<sinceKey, frame, sinceIdr>>,
             render'.pc = render.pc \/ (render.pc # "pace" /\ (render'.pc = "pace" => frame # 0))
      PROVE  Paced'
  BY <1>5 DEF Paced
<1>6. CASE Decide
  BY <1>5, <1>6 DEF Decide, TypeOK
<1>7. CASE Clear \/ ReadType \/ ResetFlag \/ UNCHANGED vars
  BY <1>5, <1>7 DEF Clear, ReadType, ResetFlag, vars, TypeOK
<1>8. ASSUME NEW r \in Requesters, Request(r) PROVE Paced'
  BY <1>5, <1>8 DEF Request, Ask, ReadLast, Exchange, SetFlag, SetWanted
<1>9. QED
  BY <1>2, <1>3, <1>4, <1>6, <1>7, <1>8 DEF Next

LEMMA PacedEnough == TypeOK /\ Paced => IdrsKeepComing
<1> SUFFICES ASSUME TypeOK, Paced PROVE IdrsKeepComing
  OBVIOUS
<1>1. /\ sinceKey \in Nat /\ GopSize \in Nat /\ IdleDivisor \in Nat /\ sinceKey < GopSize
      /\ frame \in Nat /\ frame < IdleDivisor
  BY ParameterAssumption DEF TypeOK
<1>2. sinceKey * IdleDivisor + IdleDivisor <= GopSize * IdleDivisor
  BY <1>1, AtMost
<1>3. sinceKey * IdleDivisor \in Nat /\ GopSize * IdleDivisor \in Nat
  BY <1>1, OneMore
<1>4. QED
  BY <1>1, <1>2, <1>3 DEF Paced, IdrsKeepComing, TypeOK

-----------------------------------------------------------------------------
(* Forced IDRs keep their distance.                                        *)

LEMMA Bounds ==
  TypeOK => /\ age \in Nat /\ age <= Interval + MaxDelay /\ sinceForced \in 0..Interval
            /\ \A r \in Requesters : elapsed[r] \in 0..MaxDelay
            /\ Interval \in Nat \ {0} /\ MaxDelay \in Nat /\ MaxDelay < Interval
            /\ AgeCap = Interval + MaxDelay
BY ParameterAssumption, Caps DEF TypeOK

(* Nobody is past the exchange when a request passes it.                   *)
LEMMA Alone ==
  ASSUME TypeOK, OneServed, Unhurried, NEW r \in Requesters,
         pc[r] = "exchange", ~outdated[r]
  PROVE  Served = {} /\ age >= Interval
BY Bounds DEF OneServed, Unhurried, Served

LEMMA NextServed == TypeOK /\ OneServed /\ Unhurried /\ [Next]_vars => OneServed' /\ Unhurried'
<1> SUFFICES ASSUME TypeOK, OneServed, Unhurried, [Next]_vars PROVE OneServed' /\ Unhurried'
  OBVIOUS
<1>1. ASSUME NEW r \in Requesters, Request(r) PROVE OneServed' /\ Unhurried'
  <2>1. CASE Ask(r) \/ SetFlag(r) \/ SetWanted(r)
    BY <2>1 DEF Ask, SetFlag, SetWanted, TypeOK, OneServed, Unhurried, Served
  <2>2. CASE ReadLast(r)
    BY <2>2, Bounds DEF ReadLast, TypeOK, OneServed, Unhurried, Served
  <2>3. CASE Exchange(r) /\ outdated[r]
    BY <2>3 DEF Exchange, TypeOK, OneServed, Unhurried, Served
  <2>4. CASE Exchange(r) /\ ~outdated[r]
    <3>1. Served = {}
      BY <2>4, Alone DEF Exchange
    <3>2. Served' = {r} /\ age' = elapsed'[r]
      BY <2>4, <3>1 DEF Exchange, TypeOK, Served
    <3>3. Unhurried'
      BY <2>4 DEF Exchange, TypeOK, Unhurried
    <3>4. QED
      BY <3>2, <3>3 DEF OneServed
  <2>5. QED
    BY <1>1, <2>1, <2>2, <2>3, <2>4 DEF Request
<1>2. CASE Pace
  <2>1. Served' = Served /\ \A r \in Served : elapsed'[r] = elapsed[r] + 1 /\ elapsed[r] < MaxDelay
    BY <1>2 DEF Pace, Served, TypeOK
  <2>2. age' = (IF age < AgeCap THEN age + 1 ELSE AgeCap) /\ pc' = pc /\ outdated' = outdated
    BY <1>2 DEF Pace, UpTo
  <2>3. OneServed'
    BY <2>1, <2>2, Bounds DEF OneServed, Served
  <2>4. Unhurried'
    BY <2>2, Bounds DEF Unhurried
  <2>5. QED
    BY <2>3, <2>4
<1>3. CASE Decide \/ Clear \/ ReadType \/ ResetFlag \/ SendFrame \/ SendFails \/
           ReceiveFails \/ UNCHANGED vars
  BY <1>3 DEF Decide, Clear, ReadType, ResetFlag, SendFrame, SendFails, ReceiveFails,
     TakeFrame, vars, OneServed, Unhurried, Served
<1>4. QED
  BY <1>1, <1>2, <1>3 DEF Next

LEMMA NextWantedYoung ==
  TypeOK /\ OneServed /\ WantedYoung /\ [Next]_vars => WantedYoung'
<1> SUFFICES ASSUME TypeOK, OneServed, WantedYoung, [Next]_vars PROVE WantedYoung'
  OBVIOUS
<1>1. ASSUME NEW r \in Requesters, Request(r) PROVE WantedYoung'
  <2>1. CASE Ask(r) \/ ReadLast(r) \/ SetFlag(r)
    BY <2>1 DEF Ask, ReadLast, SetFlag, WantedYoung
  <2>2. CASE Exchange(r)
    BY <2>2, Bounds DEF Exchange, WantedYoung
  <2>3. CASE SetWanted(r)
    BY <2>3, Bounds DEF SetWanted, WantedYoung, OneServed, Served
  <2>4. QED
    BY <1>1, <2>1, <2>2, <2>3 DEF Request
<1>2. CASE Decide
  BY <1>2, Bounds DEF Decide, TypeOK, WantedYoung
<1>3. CASE Pace
  BY <1>3, Bounds DEF Pace, UpTo, TypeOK, WantedYoung
<1>4. CASE Clear
  BY <1>4 DEF Clear, WantedYoung
<1>5. CASE ReadType
  BY <1>5 DEF ReadType, WantedYoung
<1>6. CASE ResetFlag \/ SendFrame \/ SendFails \/ ReceiveFails
  BY <1>6 DEF ResetFlag, SendFrame, SendFails, ReceiveFails, TakeFrame, TypeOK, WantedYoung
<1>7. CASE UNCHANGED vars
  BY <1>7 DEF vars, WantedYoung
<1>8. QED
  BY <1>1, <1>2, <1>3, <1>4, <1>5, <1>6, <1>7 DEF Next

LEMMA NextYoung ==
  TypeOK /\ PendingIsWanted /\ OneServed /\ WantedYoung /\ Young /\ [Next]_vars => Young'
<1> SUFFICES ASSUME TypeOK, PendingIsWanted, OneServed, WantedYoung, Young, [Next]_vars
             PROVE  Young'
  OBVIOUS
<1>1. ASSUME NEW r \in Requesters, Request(r) PROVE Young'
  <2>1. CASE Ask(r) \/ ReadLast(r) \/ SetWanted(r)
    BY <2>1 DEF Ask, ReadLast, SetWanted, Young, Due
  <2>2. CASE Exchange(r)
    BY <2>2, Bounds DEF Exchange, Young, Due
  <2>3. CASE SetFlag(r)
    <3>1. age' <= MaxDelay
      BY <2>3, Bounds DEF SetFlag, OneServed, Served
    <3>2. QED
      BY <2>3, <3>1, Bounds DEF SetFlag, Young
  <2>4. QED
    BY <1>1, <2>1, <2>2, <2>3 DEF Request
<1>2. CASE Decide
  <2>1. granted /\ requested /\ ~wanted => age <= MaxDelay
    BY <1>2, Bounds DEF Decide, PendingIsWanted, OneServed, Served
  <2>2. wanted => render'.pc = "clear"
    BY <1>2 DEF Decide, TypeOK
  <2>3. /\ UNCHANGED <<granted, requested, age>>
        /\ render.pc = "top" /\ render'.pc \in {"clear", "pace"}
    BY <1>2 DEF Decide, TypeOK
  <2>4. QED
    BY <2>1, <2>2, <2>3 DEF Young, Due
<1>3. CASE Pace
  <2>1. ~(render'.idr) /\ render'.pc = "top" /\ UNCHANGED <<granted, requested>>
    BY <1>3 DEF Pace
  <2>2. granted /\ requested => age <= MaxDelay
    BY <1>3 DEF Pace, Young
  <2>3. age' <= age + 1 /\ age' \in Nat
    BY <1>3, Bounds DEF Pace, UpTo
  <2>4. QED
    BY <2>1, <2>2, <2>3, Bounds DEF Young, Due
<1>4. CASE Clear \/ ResetFlag
  BY <1>4 DEF Clear, ResetFlag, TypeOK, Young, Due
<1>5. CASE ReadType
  BY <1>5 DEF ReadType, Young, Due
<1>6. CASE SendFrame \/ SendFails \/ ReceiveFails
  BY <1>6 DEF SendFrame, SendFails, ReceiveFails, TakeFrame, TypeOK, Young, Due
<1>7. CASE UNCHANGED vars
  BY <1>7 DEF vars, Young, Due
<1>8. QED
  BY <1>1, <1>2, <1>3, <1>4, <1>5, <1>6, <1>7 DEF Next

LEMMA NextAge == TypeOK /\ Young /\ AgeBound /\ [Next]_vars => AgeBound'
<1> SUFFICES ASSUME TypeOK, Young, AgeBound, [Next]_vars PROVE AgeBound'
  OBVIOUS
<1>1. ASSUME NEW r \in Requesters, Request(r) PROVE AgeBound'
  BY <1>1, Bounds DEF Request, Ask, ReadLast, Exchange, SetFlag, SetWanted, AgeBound
<1>2. CASE SendFrame \/ ReceiveFails
  <2>1. age' = age /\ (sinceForced' = sinceForced \/ (sinceForced' = 0 /\ Due))
    BY <1>2 DEF SendFrame, ReceiveFails, TakeFrame, Due
  <2>2. QED
    BY <2>1, Bounds DEF Young, AgeBound
<1>3. CASE Pace
  BY <1>3, Bounds DEF Pace, UpTo, AgeBound
<1>4. CASE Decide \/ Clear \/ ReadType \/ ResetFlag \/ SendFails \/ UNCHANGED vars
  BY <1>4 DEF Decide, Clear, ReadType, ResetFlag, SendFails, vars, AgeBound
<1>5. QED
  BY <1>1, <1>2, <1>3, <1>4 DEF Next

LEMMA NextSpaced == IInv /\ [Next]_vars => Spaced'
<1> SUFFICES ASSUME IInv, [Next]_vars PROVE Spaced'
  OBVIOUS
<1> USE DEF IInv
<1>1. ASSUME NEW r \in Requesters, Request(r) PROVE Spaced'
  <2>1. CASE Ask(r) \/ ReadLast(r) \/ SetWanted(r)
    <3>1. UNCHANGED <<granted, requested, render, sinceForced>> /\ Flagging' = Flagging
      BY <2>1 DEF Ask, ReadLast, SetWanted, Flagging, TypeOK
    <3>2. QED
      BY <3>1 DEF Spaced, Due, Ready
  <2>2. CASE Exchange(r) /\ outdated[r]
    <3>1. UNCHANGED <<granted, requested, render, sinceForced>> /\ Flagging' = Flagging
      BY <2>2 DEF Exchange, Flagging, TypeOK
    <3>2. QED
      BY <3>1 DEF Spaced, Due, Ready
  <2>3. CASE Exchange(r) /\ ~outdated[r]
    <3>1. age >= Interval
      BY <2>3, Alone DEF Exchange
    <3>2. Ready /\ (Due => MaxDelay + 1 >= Interval)
      BY <3>1, Bounds DEF AgeBound, Young, Ready
    <3>3. UNCHANGED <<granted, requested, render, sinceForced>>
      BY <2>3 DEF Exchange
    <3>4. QED
      BY <3>2, <3>3 DEF Spaced, Due, Ready
  <2>4. CASE SetFlag(r)
    <3>1. Ready /\ ~Flagging'
      BY <2>4 DEF SetFlag, Spaced, Flagging, OneServed, Served, TypeOK
    <3>2. QED
      BY <2>4, <3>1 DEF SetFlag, Spaced, Ready
  <2>5. QED
    BY <1>1, <2>1, <2>2, <2>3, <2>4 DEF Request
<1>2. CASE SendFrame \/ ReceiveFails
  <2>1. Flagging' = Flagging /\ (Due' => Due)
    BY <1>2 DEF SendFrame, ReceiveFails, TakeFrame, Flagging, Due, TypeOK
  <2>2. CASE sinceForced' = sinceForced /\ (granted' => granted)
    BY <2>1, <2>2 DEF Spaced, Ready
  <2>3. CASE sinceForced' = 0 /\ Due /\ ~granted'
    BY <2>1, <2>3, Bounds DEF Spaced, Ready, Due
  <2>4. QED
    BY <1>2, <2>2, <2>3 DEF SendFrame, ReceiveFails, TakeFrame, Due
<1>3. CASE Pace
  <2>1. Flagging' = Flagging /\ granted' = granted /\ (Due' => Due)
    BY <1>3 DEF Pace, Flagging, Due
  <2>2. Ready => Ready'
    BY <1>3, Bounds DEF Pace, UpTo, Ready
  <2>3. QED
    BY <2>1, <2>2 DEF Spaced
<1>4. CASE Decide \/ Clear \/ ReadType \/ ResetFlag \/ SendFails \/ UNCHANGED vars
  <2>1. Flagging' = Flagging /\ UNCHANGED <<granted, sinceForced>>
    BY <1>4 DEF Decide, Clear, ReadType, ResetFlag, SendFails, vars, Flagging
  <2>2. Due' => Due
    <3>1. CASE Decide
      BY <1>4, <3>1 DEF Decide, Due, TypeOK
    <3>2. CASE ReadType
      BY <3>2 DEF ReadType, Due
    <3>3. CASE Clear \/ ResetFlag \/ SendFails
      BY <3>3 DEF Clear, ResetFlag, SendFails, Due, TypeOK
    <3>4. QED
      BY <1>4, <3>1, <3>2, <3>3 DEF vars, Due
  <2>3. QED
    BY <2>1, <2>2 DEF Spaced, Ready
<1>5. QED
  BY <1>1, <1>2, <1>3, <1>4 DEF Next

-----------------------------------------------------------------------------

LEMMA InitInv == Init => IInv
<1> SUFFICES ASSUME Init PROVE IInv
  OBVIOUS
<1>1. TypeOK /\ PendingIsWanted
  BY InitType DEF Init, PendingIsWanted
<1>2. (GopSize - 1) * IdleDivisor \in Nat
  BY ParameterAssumption, OneMore
<1>3. Paced
  BY <1>2, ParameterAssumption DEF Init, Paced
<1>4. OneServed /\ Unhurried /\ WantedYoung /\ Young /\ AgeBound
  BY ParameterAssumption, Caps
  DEF Init, OneServed, Served, Unhurried, WantedYoung, Young, Due, AgeBound
<1>5. Spaced
  BY ParameterAssumption DEF Init, Spaced, Due, Flagging, Ready
<1>6. QED
  BY <1>1, <1>3, <1>4, <1>5 DEF IInv

LEMMA NextInv == IInv /\ [Next]_vars => IInv'
BY NextType, NextPending, NextPaced, NextServed, NextWantedYoung, NextYoung, NextAge, NextSpaced
DEF IInv

(* A request that reached the encoder is never left to the idle cadence, and
   IDRs keep coming through idle playback (Engine::renderLoop), for any number
   of threads, any interval, GOP and cadence.                              *)
THEOREM RequestInvHolds == Spec => []RequestInv
<1>1. IInv => RequestInv
  BY PacedEnough DEF IInv, RequestInv
<1>2. QED
  BY <1>1, InitInv, NextInv, PTL DEF Spec

(* A forced IDR granted to a request comes Interval turns after the one
   before, but for the delay within requestKeyframe and one turn, however
   many threads ask.                                                       *)
THEOREM ForcedIdrsSpacedHolds == Spec => ForcedIdrsSpaced
<1>1. IInv /\ [Next]_vars => [granted /\ ~granted' => sinceForced + MaxDelay + 1 >= Interval]_vars
  BY DEF IInv, Spaced, Ready
<1>2. QED
  BY <1>1, InitInv, NextInv, PTL DEF Spec, ForcedIdrsSpaced

-----------------------------------------------------------------------------
(* The full-rate lease, for any length of it, persistence of pressure, delay
   of the watcher and number of POSTs.

   That rate and deadline agree while nobody is among the stores takes what
   they are between the stores of each thread (Midway); as soon as both are
   among theirs, the history variable gives the promise up.  That a lease
   never ends by one slow frame takes the age of the pressure seen by every
   sample to bound the age of its first sighting (Sighted).                *)

Ending == watcher.pc \in {"divisor", "until", "since", "reason"}
Posting == control.pc # "idle"
Agree == divisor = 1 <=> until # NoLease

(* What each thread has stored so far, if the other is not among its own.  *)
Midway ==
  /\ ~Posting /\ ~overlapped =>
       /\ watcher.pc \notin {"until", "since", "reason"} => Agree
       /\ watcher.pc \in {"until", "since", "reason"} => divisor # 1
       /\ watcher.pc \in {"since", "reason"} => until = NoLease
  /\ Posting /\ ~Ending /\ ~overlapped =>
       /\ control.pc = "divisor" => Agree
       /\ control.pc # "divisor" => (divisor = 1 <=> control.seconds # 0)
       /\ control.pc \in {"since", "reason"} => (until # NoLease <=> control.seconds # 0)

(* The first sighting that counts is no older than the oldest pressure
   without relief, which no sample taken before the watcher woke began later. *)
Sighted ==
  /\ since <= pressed
  /\ pressed # NoPressure /\ watcher.pc # "sleep" => watcher.lag <= pressed
  /\ watcher.pc = "reason" => since = NoPressure

WatcherType ==
  [pc : {"sleep", "load", "judge", "divisor", "until", "since", "reason"},
   lag : 0..MaxLag, until : (-MaxLag)..NoLease, reason : 0..3]

LeaseInductive == LeaseTypeOK /\ Midway /\ Sighted /\ PressurePersisted

USE DEF kDefaultPublishFrameDivisor, NoPressure, NoLease, PressureCap

(* A watcher is typed field by field.                                      *)
LEMMA Fields ==
  \A place \in {"sleep", "load", "judge", "divisor", "until", "since", "reason"},
     lag \in 0..MaxLag, left \in (-MaxLag)..NoLease, why \in 0..3 :
    [pc |-> place, lag |-> lag, until |-> left, reason |-> why] \in WatcherType
BY DEF WatcherType

LEMMA LeaseInitInv == LeaseInit => LeaseInductive
<1> SUFFICES ASSUME LeaseInit PROVE LeaseInductive
  OBVIOUS
<1>1. /\ watcher \in WatcherType /\ watcher.pc = "sleep"
      /\ 0 \in 0..MaxLag /\ NoLease \in (-MaxLag)..NoLease /\ 0 \in 0..MaxLease
      /\ 0 \in 0..MaxPosts /\ NoPressure \in NoPressure..PressureCap
  <2>1. 0 \in 0..MaxLag /\ NoLease \in (-MaxLag)..NoLease /\ 0 \in 0..MaxLease
        /\ 0 \in 0..MaxPosts /\ NoPressure \in NoPressure..PressureCap /\ 0 \in 0..3
    BY LeaseAssumption
  <2>2. QED
    BY <2>1, Fields DEF LeaseInit
<1>2. LeaseTypeOK
  BY <1>1 DEF LeaseInit, LeaseTypeOK, WatcherType
<1>3. Midway /\ Sighted /\ PressurePersisted
  BY <1>1 DEF LeaseInit, Midway, Sighted, PressurePersisted, Ending, Posting, Agree
<1>4. QED
  BY <1>2, <1>3 DEF LeaseInductive

(* Ageing keeps types and order, and no deadline comes or goes.            *)
LEMMA Ages ==
  /\ \A a \in NoPressure..PressureCap :
       /\ Older(a) \in NoPressure..PressureCap
       /\ Older(a) = NoPressure <=> a = NoPressure
       /\ a <= Older(a)
       /\ \A b \in NoPressure..PressureCap : a <= b => Older(a) <= Older(b)
       /\ \A lag \in 0..(MaxLag - 1) : lag <= a => lag + 1 <= Older(a)
  /\ \A left \in (-MaxLag)..NoLease :
       /\ Nearer(left) \in (-MaxLag)..NoLease
       /\ Nearer(left) = NoLease <=> left = NoLease
BY LeaseAssumption DEF Older, Nearer

LEMMA TickInv == LeaseInductive /\ Tick /\ Overlap => LeaseInductive'
<1> SUFFICES ASSUME LeaseInductive, Tick, Overlap PROVE LeaseInductive'
  OBVIOUS
<1>1. /\ LeaseTypeOK /\ UNCHANGED <<divisor, control, posts, reason, gpuReady>>
      /\ until' = Nearer(until) /\ since' = Older(since) /\ pressed' = Older(pressed)
      /\ watcher'.pc = watcher.pc /\ watcher'.reason = watcher.reason
      /\ watcher'.until = Nearer(watcher.until)
      /\ watcher.pc # "sleep" => watcher'.lag = watcher.lag + 1 /\ watcher.lag < MaxLag
      /\ overlapped' = (overlapped \/ (Posting /\ Ending))
  BY DEF LeaseInductive, Tick, LeaseTypeOK, Overlap, Posting, Ending
<1>2. LeaseTypeOK'
  <2>1. watcher' \in WatcherType
    <3>1. watcher \in WatcherType
      BY <1>1 DEF LeaseTypeOK, WatcherType
    <3>2. /\ Nearer(watcher.until) \in (-MaxLag)..NoLease
          /\ (IF watcher.pc = "sleep" THEN 0 ELSE watcher.lag + 1) \in 0..MaxLag
      BY <1>1, <3>1, Ages, LeaseAssumption DEF WatcherType
    <3>3. watcher' = [pc |-> watcher.pc, reason |-> watcher.reason, until |-> Nearer(watcher.until),
                      lag |-> IF watcher.pc = "sleep" THEN 0 ELSE watcher.lag + 1]
      BY <3>1 DEF Tick, WatcherType
    <3>4. QED
      BY <3>1, <3>2, <3>3 DEF WatcherType
  <2>2. overlapped' \in BOOLEAN
    BY DEF Overlap
  <2>3. QED
    BY <1>1, <2>1, <2>2, Ages DEF LeaseTypeOK, WatcherType
<1>3. Midway'
  BY <1>1, Ages DEF LeaseInductive, LeaseTypeOK, Midway, Ending, Posting, Agree
<1>4. Sighted'
  BY <1>1, Ages, LeaseAssumption DEF LeaseInductive, LeaseTypeOK, Sighted
<1>5. PressurePersisted'
  <2>1. pressed \in Int /\ pressed' \in Int /\ pressed <= pressed'
    BY <1>1, Ages, LeaseAssumption DEF LeaseTypeOK
  <2>2. QED
    BY <1>1, <2>1, LeaseAssumption DEF LeaseInductive, PressurePersisted
<1>6. QED
  BY <1>2, <1>3, <1>4, <1>5 DEF LeaseInductive

LEMMA PostInv == LeaseInductive /\ (GpuToggles \/ Post \/ ControlStep) /\ Overlap => LeaseInductive'
<1> SUFFICES ASSUME LeaseInductive, GpuToggles \/ Post \/ ControlStep, Overlap PROVE LeaseInductive'
  OBVIOUS
<1> USE DEF LeaseInductive
<1>1. overlapped' = (overlapped \/ (Posting /\ Ending)) /\ overlapped' \in BOOLEAN
  BY DEF Overlap, Posting, Ending
<1>2. CASE GpuToggles
  BY <1>1, <1>2 DEF GpuToggles, LeaseTypeOK, Midway, Sighted, PressurePersisted, Ending, Posting, Agree
<1>3. CASE Post
  BY <1>1, <1>3, LeaseAssumption
  DEF Post, LeaseTypeOK, Midway, Sighted, PressurePersisted, Ending, Posting, Agree
<1>4. CASE PostDivisor
  BY <1>1, <1>4, LeaseAssumption
  DEF PostDivisor, LeaseTypeOK, Midway, Sighted, PressurePersisted, Ending, Posting, Agree
<1>5. CASE PostUntil
  BY <1>1, <1>5, LeaseAssumption
  DEF PostUntil, LeaseTypeOK, Midway, Sighted, PressurePersisted, Ending, Posting, Agree
<1>6. CASE PostSince
  BY <1>1, <1>6, LeaseAssumption
  DEF PostSince, LeaseTypeOK, Midway, Sighted, PressurePersisted, Ending, Posting, Agree
<1>7. CASE PostReason
  <2>1. 0 \in 0..MaxLease
    BY LeaseAssumption
  <2>2. LeaseTypeOK'
    BY <1>1, <1>7, <2>1 DEF PostReason, LeaseTypeOK
  <2>3. Midway'
    BY <1>1, <1>7 DEF PostReason, LeaseTypeOK, Midway, Ending, Posting, Agree
  <2>4. QED
    BY <1>7, <2>2, <2>3 DEF PostReason, Sighted, PressurePersisted
<1>8. QED
  BY <1>2, <1>3, <1>4, <1>5, <1>6, <1>7 DEF ControlStep

LEMMA WatcherInv == LeaseInductive /\ WatcherStep /\ Overlap => LeaseInductive'
<1> SUFFICES ASSUME LeaseInductive, WatcherStep, Overlap PROVE LeaseInductive'
  OBVIOUS
<1> USE DEF LeaseInductive
<1>1. overlapped' = (overlapped \/ (Posting /\ Ending)) /\ overlapped' \in BOOLEAN
  BY DEF Overlap, Posting, Ending
<1>2. CASE WatcherWakes
  <2>1. /\ 0 \in 0..MaxLag /\ watcher \in WatcherType
        /\ watcher' = [watcher EXCEPT !.pc = "load", !.lag = 0]
    BY <1>2, LeaseAssumption DEF WatcherWakes, LeaseTypeOK, WatcherType
  <2>2. /\ watcher' \in WatcherType /\ watcher'.pc = "load" /\ watcher'.lag = 0
        /\ UNCHANGED <<divisor, until, since, reason, control, posts, gpuReady, pressed>>
    BY <1>2, <2>1 DEF WatcherWakes, WatcherType
  <2>3. LeaseTypeOK'
    BY <1>1, <2>2 DEF LeaseTypeOK, WatcherType
  <2>4. Midway'
    BY <1>1, <1>2, <2>2 DEF WatcherWakes, Midway, Ending, Posting, Agree
  <2>5. Sighted' /\ PressurePersisted'
    BY <2>2 DEF LeaseTypeOK, Sighted, PressurePersisted
  <2>6. QED
    BY <2>3, <2>4, <2>5
<1>3. CASE WatcherLoads
  BY <1>1, <1>3, LeaseAssumption
  DEF WatcherLoads, LeaseTypeOK, Midway, Sighted, PressurePersisted, Ending, Posting, Agree
<1>4. CASE WatcherJudges
  <2>1. /\ watcher.pc = "judge" /\ watcher \in WatcherType
        /\ UNCHANGED <<divisor, until, reason, control, posts, gpuReady>>
        /\ since \in NoPressure..PressureCap /\ pressed \in NoPressure..PressureCap
        /\ watcher.lag \in 0..MaxLag /\ watcher.lag \in NoPressure..PressureCap
    BY <1>4, LeaseAssumption DEF WatcherJudges, LeaseTypeOK, WatcherType
  <2>2. \A place \in {"sleep", "divisor"}, why \in 0..3 : WatcherGoes(place, why) =>
          /\ watcher' \in WatcherType /\ watcher'.pc = place /\ watcher'.reason = why
          /\ watcher'.lag = watcher.lag
    BY <2>1 DEF WatcherGoes, WatcherType
  <2> DEFINE Judged ==
        /\ watcher' \in WatcherType /\ watcher'.pc \in {"sleep", "divisor"}
        /\ since' \in NoPressure..PressureCap /\ pressed' \in NoPressure..PressureCap
        /\ since' <= pressed' /\ (watcher'.pc # "sleep" /\ pressed' # NoPressure => watcher'.lag <= pressed')
        /\ PressurePersisted'
  <2>3. Judged
    <3>1. CASE JudgeDeadline
      BY <2>1, <2>2, <3>1 DEF JudgeDeadline, Sighted, PressurePersisted
    <3>2. CASE JudgeWithoutGpu
      BY <2>1, <2>2, <3>2 DEF JudgeWithoutGpu, Sighted, PressurePersisted
    <3>3. CASE JudgeRelieved
      BY <2>1, <2>2, <3>3, LeaseAssumption DEF JudgeRelieved, Sighted, PressurePersisted
    <3>4. ASSUME NEW fpsLow \in BOOLEAN, NEW encodeHigh \in BOOLEAN, JudgePressed(fpsLow, encodeHigh)
          PROVE  Judged
      <4>1. /\ pressed' = IF pressed = NoPressure THEN watcher.lag ELSE pressed
            /\ pressed' \in NoPressure..PressureCap /\ watcher.lag <= pressed'
        BY <2>1, <3>4 DEF JudgePressed, Sighted
      <4>2. CASE since = NoPressure /\ since' = watcher.lag /\ WatcherGoes("sleep", 0)
        BY <2>1, <2>2, <4>1, <4>2 DEF PressurePersisted
      <4>3. CASE WatcherGoes("sleep", 0) /\ UNCHANGED since
        BY <2>1, <2>2, <4>1, <4>3, LeaseAssumption DEF Sighted, PressurePersisted
      <4>4. CASE /\ since - watcher.lag >= Persist /\ UNCHANGED since
                 /\ WatcherGoes("divisor", IF fpsLow THEN 2 ELSE 3)
        <5>1. pressed' >= Persist /\ since <= pressed'
          BY <2>1, <4>1, <4>4, LeaseAssumption DEF Sighted
        <5>2. watcher' \in WatcherType /\ watcher'.pc = "divisor" /\ watcher'.lag = watcher.lag
          BY <2>2, <4>4
        <5>3. QED
          BY <2>1, <4>1, <4>4, <5>1, <5>2 DEF PressurePersisted
      <4>5. QED
        BY <3>4, <4>2, <4>3, <4>4 DEF JudgePressed
    <3>5. QED
      BY <1>4, <3>1, <3>2, <3>3, <3>4 DEF WatcherJudges
  <2>4. LeaseTypeOK'
    BY <1>1, <2>1, <2>3 DEF LeaseTypeOK, WatcherType
  <2>5. Midway'
    BY <1>1, <2>1, <2>3 DEF Midway, Ending, Posting, Agree
  <2>6. QED
    BY <2>3, <2>4, <2>5 DEF Sighted
<1>5. CASE EndDivisor
  BY <1>1, <1>5, LeaseAssumption
  DEF EndDivisor, LeaseTypeOK, Midway, Sighted, PressurePersisted, Ending, Posting, Agree
<1>6. CASE EndUntil
  BY <1>1, <1>6, LeaseAssumption
  DEF EndUntil, LeaseTypeOK, Midway, Sighted, PressurePersisted, Ending, Posting, Agree
<1>7. CASE EndSince
  BY <1>1, <1>7, LeaseAssumption
  DEF EndSince, LeaseTypeOK, Midway, Sighted, PressurePersisted, Ending, Posting, Agree
<1>8. CASE EndReason
  <2>1. watcher \in WatcherType /\ watcher.reason \in 0..3 /\ NoPressure \in NoPressure..PressureCap
    BY LeaseAssumption DEF LeaseTypeOK, WatcherType
  <2>2. /\ watcher' \in WatcherType /\ watcher'.pc = "sleep"
        /\ reason' = watcher.reason /\ pressed' = NoPressure
        /\ UNCHANGED <<divisor, until, since, control, posts, gpuReady>>
    BY <1>8, <2>1 DEF EndReason, WatcherType
  <2>3. LeaseTypeOK'
    BY <1>1, <2>1, <2>2 DEF LeaseTypeOK, WatcherType
  <2>4. Midway'
    BY <1>1, <1>8, <2>2 DEF EndReason, Midway, Ending, Posting, Agree
  <2>5. Sighted' /\ PressurePersisted'
    BY <1>8, <2>1, <2>2 DEF EndReason, Sighted, PressurePersisted
  <2>6. QED
    BY <2>3, <2>4, <2>5
<1>9. QED
  BY <1>2, <1>3, <1>4, <1>5, <1>6, <1>7, <1>8 DEF WatcherStep

LEMMA LeaseNextInv == LeaseInductive /\ [LeaseNext]_leaseVars => LeaseInductive'
<1>1. LeaseInductive /\ UNCHANGED leaseVars => LeaseInductive'
  BY DEF leaseVars, LeaseInductive, LeaseTypeOK, Midway, Sighted, PressurePersisted, Ending, Posting, Agree
<1>2. QED
  BY <1>1, TickInv, PostInv, WatcherInv DEF LeaseNext

(* Unless a POST's stores met those that end a lease, the deadline /health
   shows is there exactly while the rung runs at full rate; and no lease is
   ended by a single slow frame (Engine::watcherLoop, handleControl).      *)
THEOREM LeaseInvHolds == LeaseSpec => []LeaseInv
<1>1. LeaseInductive => LeaseInv
  BY DEF LeaseInductive, LeaseInv, Midway, DeadlineIffFullRate, Posting, Agree
<1>2. QED
  BY <1>1, LeaseInitInv, LeaseNextInv, PTL DEF LeaseSpec
=============================================================================
