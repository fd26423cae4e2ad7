-------------------------- MODULE SimulationProofs --------------------------
(***************************************************************************)
(* The simulation, the drivers of its parameters and what it shows, for    *)
(* every module, template, rotation, group of lanes, selection and         *)
(* transition.                                                             *)
(*                                                                         *)
(* First what is needed of numbers and of folds.  Then the step: a scene   *)
(* stays Good while it is built and while a beat adds to it, fold by fold, *)
(* a sized field Shares its columns and rows evenly with its margins, and  *)
(* a delivery stays in its field (SimulationInv, DrivenIsNow).  What a     *)
(* beat reaches is read off two things: distances in a field grow by one   *)
(* step at a time (Lies), and the queue has each cell that is next, nearer *)
(* ones first (Goes); together they give RippleIsBall.  Then the pictures: *)
(* the cursor follows the selection two ticks after the last change, and   *)
(* each slot keeps its promise (PictureInv and the rest).  Then the        *)
(* drivers: how a frame Moves one slot, what is so Through the first of    *)
(* the lanes, and which contribution the combination takes (DriversInv,    *)
(* LaneRanks, TriggerPeaks, RateLimited).                                  *)
(***************************************************************************)
EXTENDS Simulation, Picture, Drivers, FiniteSetTheorems, WellFoundedInduction, TLAPS

-----------------------------------------------------------------------------
(* Numbers.  The induction theorems of the library take an operator, which *)
(* the provers cannot instantiate; these lemmas say the same of sets.      *)

(* A non-empty set of naturals has a least member.                         *)
LEMMA LeastNatural ==
  ASSUME NEW T, T \subseteq Nat, T # {}
  PROVE  \E x \in T : \A y \in T : x <= y
<1> DEFINE R == {ss \in Nat \X Nat : ss[1] < ss[2]}
<1>1. IsWellFoundedOn(R, Nat)
  BY NatLessThanWellFounded DEF OpToRel
<1>2. PICK x \in T : \A y \in T : ~ (<<y, x>> \in R)
  <2> HIDE DEF R
  <2>1. QED
    BY <1>1, WFMin
<1>3. \A y \in T : ~(y < x)
  BY <1>2
<1>4. QED
  BY <1>3

(* A set of naturals that has 0 and with each number below n the next has
   every number up to n.                                                   *)
LEMMA UpTo ==
  ASSUME NEW n \in Nat, NEW P, 0 \in P, \A k \in 1..n : k - 1 \in P => k \in P
  PROVE  \A k \in 0..n : k \in P
<1> DEFINE Missing == {k \in 0..n : k \notin P}
<1>1. SUFFICES ASSUME Missing # {} PROVE FALSE
  OBVIOUS
<1>2. PICK k \in Missing : \A j \in Missing : k <= j
  <2>1. Missing \subseteq Nat
    OBVIOUS
  <2> HIDE DEF Missing
  <2>2. QED
    BY <1>1, <2>1, LeastNatural
<1>3. k \in 1..n /\ k - 1 \in 0..n /\ k - 1 < k
  BY <1>2
<1>4. k - 1 \in P
  BY <1>2, <1>3
<1>5. QED
  BY <1>2, <1>3, <1>4

-----------------------------------------------------------------------------
(* Maxima.                                                                 *)

(* A non-empty set of naturals with a bound has a greatest.                *)
LEMMA Greatest ==
  ASSUME NEW n \in Nat, NEW T, T \subseteq 0..n, T # {}
  PROVE  /\ Max(T) \in T
         /\ \A y \in T : y <= Max(T)
<1> DEFINE Below == {n - x : x \in T}
<1>1. Below \subseteq Nat /\ Below # {}
  <2>1. \A x \in T : x \in 0..n /\ n - x \in Nat
    OBVIOUS
  <2>2. QED
    BY <2>1
<1>2. PICK d \in Below : \A e \in Below : d <= e
  <2> HIDE DEF Below
  <2>1. QED
    BY <1>1, LeastNatural
<1>3. PICK x \in T : d = n - x
  BY <1>2
<1>4. \A y \in T : n - x <= n - y
  BY <1>2, <1>3
<1>5. \A y \in T : x >= y
  BY <1>4
<1>6. QED
  BY <1>5 DEF Max

LEMMA GreatestUpTo ==
  ASSUME NEW k \in Nat, k > 0
  PROVE  Max(1..k) = k
<1>1. 1..k \subseteq 0..k /\ 1..k # {} /\ k \in 1..k
  OBVIOUS
<1>2. Max(1..k) \in 1..k /\ k <= Max(1..k)
  BY <1>1, Greatest
<1>3. QED
  BY <1>2

-----------------------------------------------------------------------------
(* Folds.                                                                  *)

(* One step of a fold over a set of indices, given what the rest comes to. *)
FoldStep(step, base, h, s) ==
  IF s = {} THEN base ELSE step[<<h[s \ {Max(s)}], Max(s)>>]

(* The solutions of the recursion, among the functions into S. *)
FoldsOver(n, S, base, step) ==
  {h \in [SUBSET (1..n) -> S] : \A s \in SUBSET (1..n) : h[s] = FoldStep(step, base, h, s)}

(* The recursion by which FoldLeft is defined has a solution.              *)
LEMMA FoldExists ==
  ASSUME NEW n \in Nat, NEW S, NEW base \in S, NEW step \in [S \X (1..n) -> S]
  PROVE  FoldsOver(n, S, base, step) # {}
<1> DEFINE SolvesTo(h, k) == \A s \in SUBSET (1..k) : h[s] = FoldStep(step, base, h, s)
           P == {k \in 0..n : \E h \in [SUBSET (1..k) -> S] : SolvesTo(h, k)}
<1>1. 0 \in P
  <2> DEFINE h == [s \in SUBSET (1..0) |-> base]
  <2>1. SUBSET (1..0) = {{}}
    OBVIOUS
  <2>2. h \in [SUBSET (1..0) -> S] /\ SolvesTo(h, 0)
    BY <2>1 DEF FoldStep
  <2>3. QED
    BY <2>2, 0 \in 0..n
<1>2. ASSUME NEW k \in 1..n, k - 1 \in P
      PROVE  k \in P
  <2>1. PICK g \in [SUBSET (1..(k - 1)) -> S] : SolvesTo(g, k - 1)
    BY <1>2
  <2> DEFINE h == [s \in SUBSET (1..k) |->
                     IF k \in s THEN step[<<g[s \ {k}], k>>] ELSE g[s]]
  <2>2. \A s \in SUBSET (1..k) : s \ {k} \in SUBSET (1..(k - 1))
    BY <1>2
  <2>3. \A s \in SUBSET (1..k) : k \notin s => s \in SUBSET (1..(k - 1))
    BY <2>2
  <2>4. h \in [SUBSET (1..k) -> S]
    <3>1. ASSUME NEW s \in SUBSET (1..k) PROVE h[s] \in S
      BY <2>2, <2>3
    <3> HIDE DEF h
    <3>2. h = [s \in SUBSET (1..k) |-> h[s]]
      BY DEF h
    <3>3. QED
      BY <3>1, <3>2
  <2>5. \A s \in SUBSET (1..(k - 1)) : s \in SUBSET (1..k) /\ h[s] = g[s]
    BY <1>2
  <2>6. ASSUME NEW s \in SUBSET (1..k)
        PROVE  h[s] = FoldStep(step, base, h, s)
    <3>1. CASE k \in s
      <4>1. Max(s) = k
        <5>1. s \subseteq 0..k /\ s # {} /\ k \in Nat
          BY <3>1
        <5>2. Max(s) \in s /\ k <= Max(s)
          BY <3>1, <5>1, Greatest
        <5>3. Max(s) \in 1..k
          BY <5>2
        <5>4. QED
          BY <1>2, <5>2, <5>3
      <4>2. h[s \ {k}] = g[s \ {k}]
        BY <2>2, <2>5
      <4>3. h[s] = step[<<g[s \ {k}], k>>]
        BY <3>1
      <4> HIDE DEF h
      <4>4. QED
        BY <3>1, <4>1, <4>2, <4>3 DEF FoldStep
    <3>2. CASE k \notin s
      <4>1. s \in SUBSET (1..(k - 1)) /\ h[s] = g[s] /\ g[s] = FoldStep(step, base, g, s)
        BY <2>1, <2>3, <3>2
      <4>2. s \ {Max(s)} \in SUBSET (1..(k - 1))
        BY <4>1
      <4>3. h[s \ {Max(s)}] = g[s \ {Max(s)}]
        BY <2>5, <4>2
      <4> HIDE DEF h
      <4>4. QED
        BY <4>1, <4>3 DEF FoldStep
    <3>3. QED
      BY <3>1, <3>2
  <2>7. SolvesTo(h, k)
    BY <2>6
  <2> HIDE DEF h, SolvesTo
  <2>8. QED
    BY <1>2, <2>4, <2>7
<1>3. \A k \in 0..n : k \in P
  <2> HIDE DEF P
  <2>1. QED
    BY <1>1, <1>2, UpTo
<1>4. n \in P
  <2> HIDE DEF P
  <2>1. QED
    BY <1>3, n \in 0..n
<1>5. QED
  BY <1>4 DEF FoldsOver

(* What is left of a set of indices without its greatest, and of 1..k.     *)
LEMMA GreatestOf ==
  ASSUME NEW n \in Nat, NEW s \in SUBSET (1..n), s # {}
  PROVE  Max(s) \in 1..n /\ s \ {Max(s)} \in SUBSET (1..n)
BY 1..n \subseteq 0..n, Greatest

LEMMA OneLess ==
  ASSUME NEW n \in Nat, NEW k \in 1..n
  PROVE  /\ Max(1..k) = k /\ (1..k) \ {k} = 1..(k - 1) /\ 1..k # {}
         /\ 1..k \in SUBSET (1..n)
<1>1. Max(1..k) = k
  BY GreatestUpTo
<1>2. (1..k) \ {k} = 1..(k - 1)
  OBVIOUS
<1>3. 1..k # {} /\ 1..k \in SUBSET (1..n)
  <2>1. k \in 1..k /\ \A i \in 1..k : i \in 1..n
    OBVIOUS
  <2>2. QED
    BY <2>1
<1>4. QED
  BY <1>1, <1>2, <1>3

(* A solution, pointwise.                                                  *)
Solves(h, n, S, base, step) ==
  /\ h = [s \in SUBSET (1..n) |-> h[s]] /\ h[{}] = base
  /\ \A s \in SUBSET (1..n) :
        s # {} => /\ h[s \ {Max(s)}] \in S /\ Max(s) \in 1..n
                  /\ h[s] = step[<<h[s \ {Max(s)}], Max(s)>>]

LEMMA FoldSolved ==
  ASSUME NEW n \in Nat, NEW S, NEW base \in S, NEW step \in [S \X (1..n) -> S]
  PROVE  \E h : Solves(h, n, S, base, step)
<1>1. PICK h \in FoldsOver(n, S, base, step) : TRUE
  BY FoldExists
<1>2. Solves(h, n, S, base, step)
  BY GreatestOf DEF FoldsOver, FoldStep, Solves
<1>3. QED
  BY <1>2

(* A function that goes by the step wherever what it has is in S.          *)
Follows(it, n, S, base, step) ==
  /\ it[{}] = base
  /\ \A s \in SUBSET (1..n) :
        s # {} /\ it[s \ {Max(s)}] \in S => it[s] = step[<<it[s \ {Max(s)}], Max(s)>>]

(* P has the pairs of an index and a value that may go with it: the base's, and
   with each the one the step makes of it.                                 *)
Carries(P, n, S, base, step) ==
  /\ <<0, base>> \in P
  /\ \A k \in 1..n, q \in S : <<k - 1, q>> \in P => <<k, step[<<q, k>>]>> \in P

LEMMA FoldReaches ==
  ASSUME NEW n \in Nat, NEW S, NEW base \in S, NEW step \in [S \X (1..n) -> S],
         NEW it, Follows(it, n, S, base, step),
         NEW P, Carries(P, n, S, base, step)
  PROVE  it[1..n] \in S /\ <<n, it[1..n]>> \in P
<1> DEFINE Q == {k \in 0..n : it[1..k] \in S /\ <<k, it[1..k]>> \in P}
<1>1. 0 \in Q
  BY 1..0 = {} DEF Follows, Carries
<1>2. ASSUME NEW k \in 1..n, k - 1 \in Q
      PROVE  k \in Q
  <2>1. /\ Max(1..k) = k /\ (1..k) \ {k} = 1..(k - 1) /\ 1..k # {}
        /\ 1..k \in SUBSET (1..n)
    BY OneLess
  <2>2. it[1..(k - 1)] \in S /\ <<k - 1, it[1..(k - 1)]>> \in P
    BY <1>2
  <2>3. it[1..k] = step[<<it[1..(k - 1)], k>>]
    BY <2>1, <2>2 DEF Follows
  <2>4. step[<<it[1..(k - 1)], k>>] \in S
    BY <2>2
  <2>5. QED
    BY <2>2, <2>3, <2>4 DEF Carries
<1>3. \A k \in 0..n : k \in Q
  <2> HIDE DEF Q
  <2>1. QED
    BY <1>1, <1>2, UpTo
<1>4. n \in Q
  <2> HIDE DEF Q
  <2>1. QED
    BY <1>3, n \in 0..n
<1>5. QED
  BY <1>4

LEMMA FoldStays ==
  ASSUME NEW n \in Nat, NEW S, NEW base \in S, NEW step \in [S \X (1..n) -> S],
         NEW it, Follows(it, n, S, base, step)
  PROVE  it[1..n] \in S
<1> DEFINE P == (0..n) \X S
<1>1. Carries(P, n, S, base, step)
  BY DEF Carries
<1> HIDE DEF P
<1>2. QED
  BY <1>1, FoldReaches

LEMMA Limits ==
  /\ Steps \in Nat /\ Steps > 0 /\ MaxHops \in Nat /\ MaxDeliveries \in Nat
  /\ MaxWaves \in Nat /\ MaxWaves > 0 /\ MaxEmitters \in Nat /\ Fallback \in Nat /\ Fallback > 0
BY BoundsAssumption

-----------------------------------------------------------------------------
(* What is kept of a sequence.                                             *)

LEMMA KeptKeeps ==
  ASSUME NEW X, NEW of, NEW seq \in Seq(X)
  PROVE  /\ Kept(seq, of) \in Seq(X \cap of) /\ Len(Kept(seq, of)) <= Len(seq)
         /\ Range(Kept(seq, of)) = Range(seq) \cap of
<1> DEFINE n == Len(seq)
           S == Seq(X \cap of)
           Step(to, i) == IF seq[i] \in of THEN Append(to, seq[i]) ELSE to
           step == [q \in S \X (1..n) |-> Step(q[1], q[2])]
           E(h) == h = [s \in SUBSET (1..n) |->
                          IF s = {} THEN <<>> ELSE Step(h[s \ {Max(s)}], Max(s))]
           it == CHOOSE h : E(h)
           Heads(i) == {seq[j] : j \in 1..i}
           P == {p \in (0..n) \X S : Len(p[2]) <= p[1] /\ Range(p[2]) = Heads(p[1]) \cap of}
<1>1. n \in Nat /\ DOMAIN seq = 1..n /\ \A i \in 1..n : seq[i] \in X
  OBVIOUS
<1>2. Kept(seq, of) = it[1..n]
  BY <1>1 DEF Kept, FoldLeft, MapThenFoldSet
<1>3. /\ <<>> \in S /\ Len(<<>>) = 0
      /\ \A q \in S, i \in 1..n : Step(q, i) \in S /\ Len(Step(q, i)) <= Len(q) + 1
  BY <1>1
<1>4. Range(<<>>) = {} /\ Heads(0) = {}
  BY DEF Range
<1>5. ASSUME NEW q \in S, NEW i \in 1..n, Range(q) = Heads(i - 1) \cap of
       PROVE  Range(Step(q, i)) = Heads(i) \cap of
  <2>1. Heads(i) = Heads(i - 1) \cup {seq[i]}
    <3>1. 1..i = 1..(i - 1) \cup {i}
      OBVIOUS
    <3>2. QED
      BY <3>1
  <2>2. Range(Append(q, seq[i])) = Range(q) \cup {seq[i]}
    <3>1. q \in Seq(X)
      OBVIOUS
    <3>2. /\ DOMAIN Append(q, seq[i]) = DOMAIN q \cup {Len(q) + 1}
          /\ Append(q, seq[i])[Len(q) + 1] = seq[i]
          /\ \A j \in DOMAIN q : Append(q, seq[i])[j] = q[j]
      BY <1>1, <3>1
    <3>3. QED
      BY <3>2 DEF Range
  <2>3. QED
    BY <1>5, <2>1, <2>2
<1>6. /\ n \in Nat /\ <<>> \in S /\ step \in [S \X (1..n) -> S]
      /\ \A q \in S, i \in 1..n : step[<<q, i>>] = Step(q, i)
  BY <1>1, <1>3
<1> HIDE DEF n, S, Step, step, Heads
<1>7. \E h : E(h)
  <2> HIDE DEF E, it, P
  <2>1. PICK h : Solves(h, n, S, <<>>, step)
    BY <1>6, FoldSolved
  <2>2. \A s \in SUBSET (1..n) : h[s] = IF s = {} THEN <<>> ELSE Step(h[s \ {Max(s)}], Max(s))
    BY <1>6, <2>1 DEF Solves
  <2>3. h = [s \in SUBSET (1..n) |-> h[s]]
    BY <2>1 DEF Solves
  <2>4. QED
    BY <2>2, <2>3 DEF E
<1>8. E(it)
  <2> HIDE DEF E
  <2>1. QED
    BY <1>7
<1> HIDE DEF it
<1>9. Follows(it, n, S, <<>>, step)
  BY <1>1, <1>6, <1>8, GreatestOf DEF Follows
<1>10. Carries(P, n, S, <<>>, step)
  <2>1. <<0, <<>>>> \in P
    BY <1>1, <1>3, <1>4
  <2>2. ASSUME NEW i \in 1..n, NEW q \in S, <<i - 1, q>> \in P
        PROVE  <<i, step[<<q, i>>]>> \in P
    <3>1. Len(q) <= i - 1 /\ Range(q) = Heads(i - 1) \cap of
      BY <2>2
    <3>2. /\ step[<<q, i>>] = Step(q, i) /\ Step(q, i) \in S
          /\ Len(Step(q, i)) <= i /\ Range(Step(q, i)) = Heads(i) \cap of
      BY <1>1, <1>3, <1>6, <1>5, <3>1
    <3>3. QED
      BY <1>1, <3>2
  <2>3. QED
    BY <2>1, <2>2 DEF Carries
<1>11. it[1..n] \in S /\ <<n, it[1..n]>> \in P
  <2> HIDE DEF P
  <2>1. QED
    BY <1>1, <1>3, <1>6, <1>9, <1>10, FoldReaches
<1>12. Heads(n) = Range(seq)
  BY <1>1 DEF Heads, Range
<1>13. QED
  BY <1>2, <1>11, <1>12 DEF n, S

-----------------------------------------------------------------------------
(* Building a scene.                                                       *)

Emitters == [template : STRING, burst : Positive, maximum : Positive, emitted : Nat]

FieldRanges ==
  [begin : Nat, end : Nat, columns : Positive, rows : Positive, depth : Positive,
   topology : Topologies, extentX : BOOLEAN, extentY : BOOLEAN, wave : BOOLEAN,
   liveColumns : Int, liveRows : Int, columnBegin : Int, rowBegin : Int]

Scenes ==
  [entities : Nat, fields : Seq(FieldRanges), emitters : Seq(Emitters), full : BOOLEAN]

(* The fields lie one behind the other, and none is larger than declared.  *)
InOrder(fs, n) ==
  \A f \in DOMAIN fs :
    /\ fs[f].begin + 1 <= fs[f].end /\ fs[f].end <= n
    /\ fs[f].end - fs[f].begin <= fs[f].columns * fs[f].rows * fs[f].depth
    /\ f > 1 => fs[f].begin >= fs[f - 1].end

Emits(es) == Len(es) <= MaxEmitters /\ \A n \in DOMAIN es : es[n].emitted <= es[n].maximum

(* The particles are within their limit, or the fields alone go beyond it. *)
Within(particles, n, fs) == n <= particles \/ \E f \in DOMAIN fs : n <= fs[f].end

Good(particles) ==
  {s \in Scenes : InOrder(s.fields, s.entities) /\ Emits(s.emitters)
                  /\ Within(particles, s.entities, s.fields)}

(* What may come of a scene by bringing in templates.                      *)
Grown(particles, scn) ==
  {s \in Good(particles) :
     /\ s.fields = scn.fields /\ s.entities >= scn.entities
     /\ Len(s.emitters) >= Len(scn.emitters)
     /\ \A n \in DOMAIN scn.emitters : s.emitters[n] = scn.emitters[n]}

LEMMA GrownFurther ==
  ASSUME NEW p \in Positive, NEW scn \in Good(p), NEW s \in Grown(p, scn), NEW t \in Grown(p, s)
  PROVE  t \in Grown(p, scn)
<1>1. /\ Len(scn.emitters) \in Nat /\ Len(s.emitters) \in Nat /\ Len(t.emitters) \in Nat
      /\ DOMAIN scn.emitters = 1..Len(scn.emitters) /\ DOMAIN s.emitters = 1..Len(s.emitters)
      /\ scn.entities \in Nat /\ s.entities \in Nat /\ t.entities \in Nat
  BY DEF Grown, Good, Scenes
<1>2. \A n \in DOMAIN scn.emitters : t.emitters[n] = scn.emitters[n]
  BY <1>1 DEF Grown
<1>3. QED
  BY <1>1, <1>2 DEF Grown

LEMMA GrownNot ==
  ASSUME NEW p \in Positive, NEW scn \in Good(p)
  PROVE  scn \in Grown(p, scn)
BY DEF Grown, Good, Scenes

LEMMA PartGrows ==
  ASSUME NEW p \in Positive, NEW scn \in Good(p), NEW part \in Parts
  PROVE  Part(p, scn, part) \in Grown(p, scn)
<1> DEFINE s == Part(p, scn, part)
<1>1. CASE scn.entities >= p
  BY <1>1, GrownNot DEF Part
<1>2. CASE ~(scn.entities >= p)
  <2>1. /\ scn.entities \in Nat /\ scn.fields \in Seq(FieldRanges)
        /\ scn.emitters \in Seq(Emitters) /\ scn.full \in BOOLEAN /\ p \in Nat /\ p > 0
        /\ Len(scn.emitters) \in Nat /\ DOMAIN scn.emitters = 1..Len(scn.emitters)
    BY DEF Good, Scenes, Positive
  <2> DEFINE new == [template |-> part.emits[1].template, burst |-> part.emits[1].burst,
                     maximum |-> Least(part.emits[1].maximum, p), emitted |-> 0]
             adds == part.emits # NoEmitter /\ Len(scn.emitters) < MaxEmitters
  <2>2. /\ s.entities = (IF part.renders THEN scn.entities + 1 ELSE scn.entities)
        /\ s.emitters = (IF adds THEN Append(scn.emitters, new) ELSE scn.emitters)
        /\ s.fields = scn.fields /\ s.full = scn.full
        /\ s = [entities |-> s.entities, fields |-> s.fields, emitters |-> s.emitters,
                full |-> s.full]
    BY <1>2 DEF Part, Good, Scenes
  <2>3. adds => new \in Emitters /\ new.emitted <= new.maximum
    <3>1. part.emits \in Seq(Emissions)
      BY DEF Parts
    <3>2. part.emits # NoEmitter => part.emits[1] \in Emissions
      BY <3>1 DEF NoEmitter
    <3>3. QED
      BY <2>1, <3>2 DEF Emissions, Emitters, Least, Positive
  <2> HIDE DEF s, new
  <2>4. /\ s.emitters \in Seq(Emitters) /\ Len(s.emitters) >= Len(scn.emitters)
        /\ \A n \in DOMAIN scn.emitters : s.emitters[n] = scn.emitters[n]
    BY <2>1, <2>2, <2>3
  <2>5. Emits(s.emitters)
    <3>1. Emits(scn.emitters)
      BY DEF Good
    <3>2. CASE adds
      BY <2>1, <2>2, <2>3, <3>1, <3>2, Limits DEF Emits
    <3>3. CASE ~adds
      BY <2>2, <3>1, <3>3
    <3>4. QED
      BY <3>2, <3>3
  <2>6. s.entities \in Nat /\ s.entities >= scn.entities /\ s.entities <= p
    BY <1>2, <2>1, <2>2
  <2>7. InOrder(s.fields, s.entities)
    <3>1. InOrder(scn.fields, scn.entities)
      BY DEF Good
    <3>2. \A f \in DOMAIN scn.fields : scn.fields[f] \in FieldRanges /\ scn.fields[f].end \in Nat
      <4>1. \A f \in DOMAIN scn.fields : scn.fields[f] \in FieldRanges
        BY <2>1
      <4>2. QED
        BY <4>1 DEF FieldRanges
    <3>3. QED
      BY <2>1, <2>2, <2>6, <3>1, <3>2 DEF InOrder
  <2>8. s \in Scenes
    BY <2>1, <2>2, <2>4, <2>6 DEF Scenes
  <2>9. s \in Good(p)
    BY <2>5, <2>6, <2>7, <2>8 DEF Good, Within
  <2>10. QED
    BY <2>2, <2>4, <2>6, <2>9 DEF Grown, s
<1>3. QED
  BY <1>1, <1>2

LEMMA InstantiateGrows ==
  ASSUME NEW p \in Positive, NEW scn \in Good(p), NEW template \in DOMAIN Templates
  PROVE  Instantiate(p, scn, template) \in Grown(p, scn)
<1> DEFINE n == Len(Templates[template])
           S == Grown(p, scn)
           Step(to, i) == Part(p, to, Templates[template][i])
           step == [q \in S \X (1..n) |-> Step(q[1], q[2])]
           E(h) == h = [s \in SUBSET (1..n) |->
                          IF s = {} THEN scn ELSE Step(h[s \ {Max(s)}], Max(s))]
           it == CHOOSE h : E(h)
<1>1. Templates[template] \in Seq(Parts) /\ n \in Nat /\ DOMAIN Templates[template] = 1..n
  BY ModulesAssumption
<1>2. Instantiate(p, scn, template) = it[1..n]
  BY <1>1 DEF Instantiate, FoldLeft, MapThenFoldSet
<1>3. scn \in S /\ \A to \in S, i \in 1..n : Step(to, i) \in S
  <2>1. ASSUME NEW to \in Grown(p, scn), NEW i \in 1..n
        PROVE  Part(p, to, Templates[template][i]) \in Grown(p, scn)
    <3>1. to \in Good(p) /\ Templates[template][i] \in Parts
      BY <1>1 DEF Grown
    <3>2. QED
      BY <3>1, PartGrows, GrownFurther
  <2>2. QED
    BY <2>1, GrownNot
<1>4. /\ n \in Nat /\ scn \in S /\ step \in [S \X (1..n) -> S]
      /\ \A to \in S, i \in 1..n : step[<<to, i>>] = Step(to, i)
  <2> HIDE DEF S, Step
  <2>1. QED
    BY <1>1, <1>3
<1> HIDE DEF n, S, Step, step
<1>5. \E h : E(h)
  <2> HIDE DEF E, it
  <2>1. PICK h : Solves(h, n, S, scn, step)
    BY <1>4, FoldSolved
  <2>2. \A s \in SUBSET (1..n) : h[s] = IF s = {} THEN scn ELSE Step(h[s \ {Max(s)}], Max(s))
    BY <1>4, <2>1 DEF Solves
  <2>3. h = [s \in SUBSET (1..n) |-> h[s]]
    BY <2>1 DEF Solves
  <2>4. QED
    BY <2>2, <2>3 DEF E
<1>6. E(it)
  <2> HIDE DEF E
  <2>1. QED
    BY <1>5
<1> HIDE DEF it
<1>7. Follows(it, n, S, scn, step)
  BY <1>4, <1>6, GreatestOf DEF Follows
<1>8. it[1..n] \in S
  BY <1>4, <1>7, FoldStays
<1>9. QED
  BY <1>2, <1>8 DEF n, S

(* Several instances of it.                                                *)
LEMMA InstancesGrow ==
  ASSUME NEW p \in Positive, NEW scn \in Good(p), NEW template \in DOMAIN Templates,
         NEW count \in Nat
  PROVE  FoldLeft(LAMBDA s, k : Instantiate(p, s, template), scn, [k \in 1 .. count |-> k])
           \in Grown(p, scn)
<1> DEFINE n == count
           S == Grown(p, scn)
           Step(to, i) == Instantiate(p, to, template)
           step == [q \in S \X (1..n) |-> Step(q[1], q[2])]
           E(h) == h = [s \in SUBSET (1..n) |->
                          IF s = {} THEN scn ELSE Step(h[s \ {Max(s)}], Max(s))]
           it == CHOOSE h : E(h)
<1>1. n \in Nat /\ DOMAIN [k \in 1 .. count |-> k] = 1..n
  OBVIOUS
<1>2. FoldLeft(LAMBDA s, k : Instantiate(p, s, template), scn, [k \in 1 .. count |-> k]) = it[1..n]
  BY <1>1 DEF FoldLeft, MapThenFoldSet
<1>3. scn \in S /\ \A to \in S, i \in 1..n : Step(to, i) \in S
  <2>1. ASSUME NEW to \in Grown(p, scn), NEW i \in 1..n
        PROVE  Instantiate(p, to, template) \in Grown(p, scn)
    <3>1. to \in Good(p)
      BY DEF Grown
    <3>2. QED
      BY <3>1, InstantiateGrows, GrownFurther
  <2>2. QED
    BY <2>1, GrownNot
<1>4. /\ n \in Nat /\ scn \in S /\ step \in [S \X (1..n) -> S]
      /\ \A to \in S, i \in 1..n : step[<<to, i>>] = Step(to, i)
  <2> HIDE DEF S, Step
  <2>1. QED
    BY <1>1, <1>3
<1> HIDE DEF n, S, Step, step
<1>5. \E h : E(h)
  <2> HIDE DEF E, it
  <2>1. PICK h : Solves(h, n, S, scn, step)
    BY <1>4, FoldSolved
  <2>2. \A s \in SUBSET (1..n) : h[s] = IF s = {} THEN scn ELSE Step(h[s \ {Max(s)}], Max(s))
    BY <1>4, <2>1 DEF Solves
  <2>3. h = [s \in SUBSET (1..n) |-> h[s]]
    BY <2>1 DEF Solves
  <2>4. QED
    BY <2>2, <2>3 DEF E
<1>6. E(it)
  <2> HIDE DEF E
  <2>1. QED
    BY <1>5
<1> HIDE DEF it
<1>7. Follows(it, n, S, scn, step)
  BY <1>4, <1>6, GreatestOf DEF Follows
<1>8. it[1..n] \in S
  BY <1>4, <1>7, FoldStays
<1>9. QED
  BY <1>2, <1>8 DEF n, S

(* What may come of it by a burst: an emitter has emitted more.            *)
Later(particles, scn) ==
  {s \in Good(particles) :
     s.fields = scn.fields /\ s.entities >= scn.entities /\ Len(s.emitters) >= Len(scn.emitters)}

LEMMA Spare ==
  ASSUME NEW burst \in Nat, NEW maximum \in Nat, NEW was \in Nat, NEW room \in Int
  PROVE  LET count == Least(burst, Most(0, Least(maximum - was, room)))
         IN  count \in Nat /\ (count = 0 \/ was + count <= maximum)
BY DEF Least, Most

LEMMA BurstGrows ==
  ASSUME NEW p \in Positive, NEW scn \in Good(p), NEW i \in DOMAIN scn.emitters
  PROVE  Burst(p, scn, i) \in Later(p, scn)
<1> DEFINE e == scn.emitters[i]
           count == Least(e.burst, Most(0, Least(e.maximum - e.emitted, p - scn.entities)))
           grown == FoldLeft(LAMBDA s, k : Instantiate(p, s, e.template), scn,
                             [k \in 1 .. count |-> k])
<1>1. /\ scn.emitters \in Seq(Emitters) /\ e \in Emitters /\ scn.entities \in Nat
      /\ p \in Nat /\ p > 0 /\ scn \in Scenes /\ scn \in Later(p, scn)
      /\ Len(scn.emitters) \in Nat /\ DOMAIN scn.emitters = 1..Len(scn.emitters)
  BY DEF Good, Scenes, Positive, Later
<1>2. /\ e.burst \in Nat /\ e.burst > 0 /\ e.maximum \in Nat /\ e.emitted \in Nat
  <2> HIDE DEF e
  <2>1. QED
    BY <1>1 DEF Emitters, Positive
<1>3. count \in Nat /\ (count = 0 \/ e.emitted + count <= e.maximum)
  <2> HIDE DEF e
  <2>1. p - scn.entities \in Int
    BY <1>1
  <2>2. QED
    BY <1>2, <2>1, Spare, ZenonT(30)
<1> HIDE DEF count
<1>4. CASE count = 0 \/ e.template \notin DOMAIN Templates
  BY <1>1, <1>4, ZenonT(30) DEF Burst, count
<1>5. CASE count # 0 /\ e.template \in DOMAIN Templates
  <2>1. grown \in Grown(p, scn)
    BY <1>3, <1>5, InstancesGrow, ZenonT(30)
  <2>2. Burst(p, scn, i) = [grown EXCEPT !.emitters[i].emitted = @ + count]
    BY <1>5, ZenonT(30) DEF Burst, count
  <2> HIDE DEF grown
  <2>3. /\ grown \in Scenes /\ grown.emitters \in Seq(Emitters) /\ grown.entities \in Nat
        /\ Len(grown.emitters) \in Nat /\ DOMAIN grown.emitters = 1..Len(grown.emitters)
        /\ Len(grown.emitters) >= Len(scn.emitters) /\ grown.emitters[i] = e
        /\ grown.fields = scn.fields /\ grown.entities >= scn.entities
    BY <2>1 DEF Grown, Good, Scenes
  <2> DEFINE last == [e EXCEPT !.emitted = @ + count]
             es == [grown.emitters EXCEPT ![i] = last]
  <2>4. Burst(p, scn, i) = [grown EXCEPT !.emitters = es]
    BY <2>2, <2>3 DEF Scenes
  <2>5. /\ last \in Emitters /\ last.emitted = e.emitted + count /\ last.maximum = e.maximum
    <3> HIDE DEF e
    <3>1. e.emitted + count \in Nat
      BY <1>2, <1>3
    <3>2. QED
      BY <1>1, <3>1 DEF Emitters
  <2>6. i \in 1..Len(grown.emitters)
    BY <1>1, <2>3
  <2> HIDE DEF last, e
  <2>7. /\ es \in Seq(Emitters) /\ Len(es) = Len(grown.emitters)
        /\ \A n \in 1..Len(grown.emitters) : es[n] = IF n = i THEN last ELSE grown.emitters[n]
        /\ DOMAIN es = 1..Len(grown.emitters)
    BY <2>3, <2>5, <2>6
  <2>8. Emits(es)
    <3>1. Emits(grown.emitters)
      BY <2>1 DEF Grown, Good
    <3>2. last.emitted <= last.maximum
      BY <1>3, <1>5, <2>5
    <3> HIDE DEF es
    <3>3. QED
      BY <2>3, <2>7, <3>1, <3>2 DEF Emits
  <2> HIDE DEF es
  <2> DEFINE s == [grown EXCEPT !.emitters = es]
  <2>9. /\ s \in Scenes /\ s.entities = grown.entities /\ s.fields = grown.fields
        /\ s.emitters = es
    BY <2>3, <2>7 DEF Scenes
  <2> HIDE DEF s
  <2>10. s \in Good(p)
    BY <2>1, <2>8, <2>9 DEF Grown, Good
  <2>11. s \in Later(p, scn)
    BY <2>3, <2>7, <2>9, <2>10 DEF Later
  <2>12. QED
    BY <2>4, <2>11 DEF s
<1>6. QED
  BY <1>4, <1>5

LEMMA LaterYet ==
  ASSUME NEW p \in Positive, NEW scn \in Good(p), NEW s \in Later(p, scn), NEW t \in Later(p, s)
  PROVE  t \in Later(p, scn)
<1>1. /\ Len(scn.emitters) \in Nat /\ Len(s.emitters) \in Nat /\ Len(t.emitters) \in Nat
      /\ scn.entities \in Nat /\ s.entities \in Nat /\ t.entities \in Nat
  BY DEF Later, Good, Scenes
<1>2. QED
  BY <1>1 DEF Later

LEMMA EmittedGrows ==
  ASSUME NEW m \in DOMAIN Modules, NEW scn \in Good(Modules[m].particles)
  PROVE  Emitted(m, scn) \in Later(Modules[m].particles, scn)
<1> DEFINE p == Modules[m].particles
<1>1. p \in Positive /\ scn \in Good(p)
  BY ModulesAssumption
<1> DEFINE n == Len(scn.emitters)
           S == Later(p, scn)
           Step(to, i) == Burst(p, to, [j \in DOMAIN scn.emitters |-> j][i])
           step == [q \in S \X (1..n) |-> Step(q[1], q[2])]
           E(h) == h = [s \in SUBSET (1..n) |->
                          IF s = {} THEN scn ELSE Step(h[s \ {Max(s)}], Max(s))]
           it == CHOOSE h : E(h)
<1>2. /\ n \in Nat /\ DOMAIN scn.emitters = 1..n
      /\ DOMAIN [i \in DOMAIN scn.emitters |-> i] = 1..n
  BY DEF Good, Scenes
<1>3. Emitted(m, scn) = it[1..n]
  BY <1>2 DEF Emitted, FoldLeft, MapThenFoldSet
<1>4. scn \in S /\ \A to \in S, i \in 1..n : Step(to, i) \in S
  <2>1. ASSUME NEW to \in Later(p, scn), NEW i \in 1..n
        PROVE  Burst(p, to, i) \in Later(p, scn)
    <3>1. to \in Good(p) /\ i \in DOMAIN to.emitters
      <4>1. to \in Good(p) /\ to.emitters \in Seq(Emitters) /\ Len(to.emitters) >= n
        BY DEF Later, Good, Scenes
      <4>2. QED
        BY <1>2, <4>1
    <3> HIDE DEF p
    <3>2. Burst(p, to, i) \in Later(p, to)
      BY <1>1, <3>1, BurstGrows
    <3>3. QED
      BY <1>1, <3>2, LaterYet
  <2>2. scn \in Later(p, scn)
    BY DEF Later, Good, Scenes
  <2>3. \A i \in 1..n : [j \in DOMAIN scn.emitters |-> j][i] = i
    BY <1>2
  <2> HIDE DEF S
  <2>4. QED
    BY <2>1, <2>2, <2>3 DEF S
<1>5. /\ n \in Nat /\ scn \in S /\ step \in [S \X (1..n) -> S]
      /\ \A to \in S, i \in 1..n : step[<<to, i>>] = Step(to, i)
  <2> HIDE DEF S, Step
  <2>1. QED
    BY <1>2, <1>4
<1> HIDE DEF n, S, Step, step
<1>6. \E h : E(h)
  <2> HIDE DEF E, it
  <2>1. PICK h : Solves(h, n, S, scn, step)
    BY <1>5, FoldSolved
  <2>2. \A s \in SUBSET (1..n) : h[s] = IF s = {} THEN scn ELSE Step(h[s \ {Max(s)}], Max(s))
    BY <1>5, <2>1 DEF Solves
  <2>3. h = [s \in SUBSET (1..n) |-> h[s]]
    BY <2>1 DEF Solves
  <2>4. QED
    BY <2>2, <2>3 DEF E
<1>7. E(it)
  <2> HIDE DEF E
  <2>1. QED
    BY <1>6
<1> HIDE DEF it
<1>8. Follows(it, n, S, scn, step)
  BY <1>5, <1>7, GreatestOf DEF Follows
<1>9. it[1..n] \in S
  BY <1>5, <1>8, FoldStays
<1>10. QED
  BY <1>3, <1>9 DEF n, S

(* A field behind what is there, of what it declares or of the room left.  *)
LEMMA FieldPlaced ==
  ASSUME NEW p \in Positive, NEW scn \in Good(p), NEW item,
         item.columns \in Positive, item.rows \in Positive, item.depth \in Positive,
         item.topology \in Topologies, item.extentX \in BOOLEAN, item.extentY \in BOOLEAN,
         item.wave \in BOOLEAN,
         NEW count \in Nat, count > 0, count <= item.columns * item.rows * item.depth
  PROVE  [scn EXCEPT !.entities = @ + count,
                     !.fields = Append(@, Field(item, scn.entities, count))] \in Good(p)
<1> DEFINE new == Field(item, scn.entities, count)
           fs == Append(scn.fields, new)
           s == [scn EXCEPT !.entities = @ + count, !.fields = Append(@, new)]
<1>1. /\ scn.entities \in Nat /\ scn.fields \in Seq(FieldRanges)
      /\ scn.emitters \in Seq(Emitters) /\ scn \in Scenes
      /\ Len(scn.fields) \in Nat /\ DOMAIN scn.fields = 1..Len(scn.fields)
      /\ InOrder(scn.fields, scn.entities) /\ Emits(scn.emitters)
  BY DEF Good, Scenes
<1>2. /\ new.begin = scn.entities /\ new.end = scn.entities + count
      /\ new.columns = item.columns /\ new.rows = item.rows /\ new.depth = item.depth
      /\ new \in FieldRanges
  BY <1>1 DEF Field, FieldRanges, Positive
<1> HIDE DEF new
<1>3. /\ fs \in Seq(FieldRanges) /\ Len(fs) = Len(scn.fields) + 1
      /\ DOMAIN fs = 1..(Len(scn.fields) + 1)
      /\ \A f \in DOMAIN scn.fields : fs[f] = scn.fields[f]
      /\ fs[Len(scn.fields) + 1] = new
  BY <1>1, <1>2
<1>4. /\ s.entities = scn.entities + count /\ s.fields = fs /\ s.emitters = scn.emitters
      /\ s \in Scenes
  <2>1. scn.entities + count \in Nat
    BY <1>1
  <2> HIDE DEF new
  <2>2. QED
    BY <1>1, <1>3, <2>1 DEF Scenes
<1> HIDE DEF fs, s
<1>5. ASSUME NEW f \in 1..Len(scn.fields)
      PROVE  /\ scn.fields[f].begin \in Nat /\ scn.fields[f].end \in Nat
             /\ scn.fields[f].end <= scn.entities
  <2>1. scn.fields[f] \in FieldRanges
    BY <1>1
  <2>2. QED
    BY <1>1, <2>1 DEF FieldRanges, InOrder
<1>6. InOrder(fs, scn.entities + count)
  <2>1. SUFFICES ASSUME NEW f \in 1..(Len(scn.fields) + 1)
                 PROVE  /\ fs[f].begin + 1 <= fs[f].end /\ fs[f].end <= scn.entities + count
                        /\ fs[f].end - fs[f].begin <= fs[f].columns * fs[f].rows * fs[f].depth
                        /\ f > 1 => fs[f].begin >= fs[f - 1].end
    BY <1>3 DEF InOrder
  <2>2. CASE f = Len(scn.fields) + 1
    <3>1. Len(scn.fields) \in Nat
      BY <1>1
    <3>2. f > 1 => f - 1 \in 1..Len(scn.fields)
      BY <2>2, <3>1
    <3>3. f > 1 => f - 1 \in 1..Len(scn.fields) /\ fs[f - 1] = scn.fields[f - 1]
      BY <1>1, <1>3, <3>2
    <3>4. f > 1 => scn.fields[f - 1].end <= scn.entities
      BY <1>5, <3>3
    <3>5. fs[f] = new /\ (scn.entities + count) - scn.entities = count
          /\ scn.entities + 1 <= scn.entities + count
      BY <1>1, <1>3, <2>2
    <3>6. QED
      BY <1>1, <1>2, <3>3, <3>4, <3>5
  <2>3. CASE f # Len(scn.fields) + 1
    <3>1. Len(scn.fields) \in Nat
      BY <1>1
    <3>2. f \in 1..Len(scn.fields) /\ (f > 1 => f - 1 \in 1..Len(scn.fields))
      BY <2>3, <3>1
    <3>3. f \in 1..Len(scn.fields) /\ fs[f] = scn.fields[f]
      BY <1>1, <1>3, <3>2
    <3>4. f > 1 => f - 1 \in 1..Len(scn.fields) /\ fs[f - 1] = scn.fields[f - 1]
      BY <1>1, <1>3, <3>2
    <3>5. /\ fs[f].begin + 1 <= fs[f].end /\ fs[f].end <= scn.entities
          /\ fs[f].end - fs[f].begin <= fs[f].columns * fs[f].rows * fs[f].depth
          /\ f > 1 => fs[f].begin >= fs[f - 1].end
      BY <1>1, <3>3, <3>4 DEF InOrder
    <3>6. fs[f].end <= scn.entities + count
      BY <1>1, <1>5, <3>3, <3>5
    <3>7. QED
      BY <3>5, <3>6
  <2>4. QED
    BY <2>2, <2>3
<1>7. Within(p, scn.entities + count, fs)
  <2>1. Len(scn.fields) + 1 \in DOMAIN fs
    <3>1. Len(scn.fields) \in Nat
      BY <1>1
    <3>2. QED
      BY <1>3, <3>1
  <2>2. scn.entities + count <= fs[Len(scn.fields) + 1].end
    BY <1>1, <1>2, <1>3
  <2>3. QED
    BY <2>1, <2>2 DEF Within
<1>8. s \in Good(p)
  BY <1>1, <1>4, <1>6, <1>7 DEF Good
<1>9. QED
  BY <1>8 DEF s, new

LEMMA PlaceKeeps ==
  ASSUME NEW m \in [room : Positive, particles : Positive, scene : Seq(Items)],
         NEW scn \in Good(m.particles), NEW item \in Items
  PROVE  Place(m, scn, item) \in Good(m.particles)
<1>1. m.particles \in Positive /\ m.room \in Nat /\ scn.entities \in Nat
  BY DEF Good, Scenes, Positive
<1>2. CASE scn.full
  BY <1>2 DEF Place
<1>3. CASE ~scn.full /\ item.kind = "entity"
  <2>1. item.template \in DOMAIN Templates
    BY <1>3 DEF Items
  <2>2. Instantiate(m.particles, scn, item.template) \in Good(m.particles)
    <3>1. Instantiate(m.particles, scn, item.template) \in Grown(m.particles, scn)
      BY <1>1, <2>1, InstantiateGrows
    <3>2. QED
      BY <3>1 DEF Grown
  <2>3. QED
    BY <1>3, <2>2 DEF Place
<1>4. CASE ~scn.full /\ item.kind # "entity"
  <2> DEFINE size == item.columns * item.rows * item.depth
             count == Least(size, m.room - scn.entities)
  <2>1. /\ item.columns \in Positive /\ item.rows \in Positive /\ item.depth \in Positive
        /\ item.topology \in Topologies /\ item.extentX \in BOOLEAN /\ item.extentY \in BOOLEAN
        /\ item.wave \in BOOLEAN
    BY <1>4 DEF Items
  <2>2. size \in Nat
    BY <2>1 DEF Positive
  <2>3. count \in Int /\ count <= size
    <3> HIDE DEF size
    <3>1. QED
      BY <1>1, <2>2 DEF Least
  <2>4. CASE count <= 0
    <3>1. Place(m, scn, item) = [scn EXCEPT !.full = TRUE]
      BY <1>4, <2>4 DEF Place
    <3>2. QED
      BY <3>1 DEF Good, Scenes
  <2>5. CASE ~(count <= 0)
    <3>1. Place(m, scn, item) = [scn EXCEPT !.entities = @ + count,
                                           !.fields = Append(@, Field(item, scn.entities, count))]
      BY <1>4, <2>5 DEF Place
    <3>2. count \in Nat /\ count > 0
      BY <2>3, <2>5
    <3>3. count <= item.columns * item.rows * item.depth
      BY <2>3
    <3> HIDE DEF count, size
    <3>4. [scn EXCEPT !.entities = @ + count,
                      !.fields = Append(@, Field(item, scn.entities, count))] \in Good(m.particles)
      BY <1>1, <2>1, <3>2, <3>3, FieldPlaced
    <3>5. QED
      BY <3>1, <3>4
  <2>6. QED
    BY <2>4, <2>5
<1>5. QED
  BY <1>2, <1>3, <1>4

LEMMA EmptyGood ==
  ASSUME NEW p \in Positive
  PROVE  EmptyScene \in Good(p)
BY Limits DEF EmptyScene, Good, Scenes, InOrder, Emits, Within, Positive

LEMMA PlacedGood ==
  ASSUME NEW m \in [room : Positive, particles : Positive, scene : Seq(Items)]
  PROVE  FoldLeft(LAMBDA s, item : Place(m, s, item), EmptyScene, m.scene) \in Good(m.particles)
<1> DEFINE n == Len(m.scene)
           S == Good(m.particles)
           Step(to, i) == Place(m, to, m.scene[i])
           step == [q \in S \X (1..n) |-> Step(q[1], q[2])]
           E(h) == h = [s \in SUBSET (1..n) |->
                          IF s = {} THEN EmptyScene ELSE Step(h[s \ {Max(s)}], Max(s))]
           it == CHOOSE h : E(h)
<1>1. m.scene \in Seq(Items) /\ n \in Nat /\ DOMAIN m.scene = 1..n
  OBVIOUS
<1>2. FoldLeft(LAMBDA s, item : Place(m, s, item), EmptyScene, m.scene) = it[1..n]
  BY <1>1 DEF FoldLeft, MapThenFoldSet
<1>3. EmptyScene \in S /\ \A to \in S, i \in 1..n : Step(to, i) \in S
  <2>1. \A i \in 1..n : m.scene[i] \in Items
    BY <1>1
  <2>2. m.particles \in Positive
    OBVIOUS
  <2>3. QED
    BY <2>1, <2>2, PlaceKeeps, EmptyGood
<1>4. /\ n \in Nat /\ EmptyScene \in S /\ step \in [S \X (1..n) -> S]
      /\ \A to \in S, i \in 1..n : step[<<to, i>>] = Step(to, i)
  <2> HIDE DEF S, Step
  <2>1. QED
    BY <1>1, <1>3
<1> HIDE DEF n, S, Step, step
<1>5. \E h : E(h)
  <2> HIDE DEF E, it
  <2>1. PICK h : Solves(h, n, S, EmptyScene, step)
    BY <1>4, FoldSolved
  <2>2. \A s \in SUBSET (1..n) : h[s] = IF s = {} THEN EmptyScene ELSE Step(h[s \ {Max(s)}], Max(s))
    BY <1>4, <2>1 DEF Solves
  <2>3. h = [s \in SUBSET (1..n) |-> h[s]]
    BY <2>1 DEF Solves
  <2>4. QED
    BY <2>2, <2>3 DEF E
<1>6. E(it)
  <2> HIDE DEF E
  <2>1. QED
    BY <1>5
<1> HIDE DEF it
<1>7. Follows(it, n, S, EmptyScene, step)
  BY <1>4, <1>6, GreatestOf DEF Follows
<1>8. it[1..n] \in S
  BY <1>4, <1>7, FoldStays
<1>9. QED
  BY <1>2, <1>8 DEF n, S

LEMMA BuiltGood ==
  /\ \A m \in DOMAIN Modules : Built(m) \in Good(Modules[m].particles)
  /\ Built(NoModule) = EmptyScene
<1>1. Built(NoModule) = EmptyScene
  BY DEF Built
<1>2. ASSUME NEW m \in DOMAIN Modules
      PROVE  Built(m) \in Good(Modules[m].particles)
  <2> DEFINE p == Modules[m].particles
             scn == FoldLeft(LAMBDA s, item : Place(Modules[m], s, item), EmptyScene,
                             Modules[m].scene)
             n == Least(Fallback, Modules[m].room)
             field == Field(FallbackItem(n), 0, n)
  <2>1. Modules[m] \in [room : Positive, particles : Positive, scene : Seq(Items)]
    BY ModulesAssumption
  <2>2. scn \in Good(p) /\ p \in Positive
    BY <2>1, PlacedGood
  <2>3. n \in Nat /\ n > 0
    BY <2>1, Limits DEF Least, Positive
  <2>4. Built(m) = IF scn.entities > 0 THEN scn
                   ELSE [scn EXCEPT !.entities = n, !.fields = <<field>>]
    BY BoundsAssumption DEF Built
  <2>5. field \in FieldRanges /\ field.begin = 0 /\ field.end = n
        /\ field.columns = n /\ field.rows = 1 /\ field.depth = 1
    <3> HIDE DEF n
    <3>1. field = [begin |-> 0, end |-> 0 + n, columns |-> n, rows |-> 1, depth |-> 1,
                   topology |-> "nearest", extentX |-> FALSE, extentY |-> FALSE, wave |-> FALSE,
                   liveColumns |-> n, liveRows |-> 1, columnBegin |-> 0, rowBegin |-> 0]
      BY DEF Field, FallbackItem
    <3>2. 0 + n = n /\ 0 + n \in Nat /\ n \in Positive /\ 1 \in Positive /\ n \in Int
      BY <2>3 DEF Positive
    <3> HIDE DEF field
    <3>3. QED
      BY <3>1, <3>2 DEF FieldRanges, Topologies
  <2> HIDE DEF scn, n, field, p
  <2>6. [scn EXCEPT !.entities = n, !.fields = <<field>>] \in Good(p)
    <3>1. scn \in Scenes /\ Emits(scn.emitters)
      BY <2>2 DEF Good
    <3>2. InOrder(<<field>>, n)
      BY <2>3, <2>5 DEF InOrder
    <3>3. Within(p, n, <<field>>)
      BY <2>3, <2>5 DEF Within
    <3>4. <<field>> \in Seq(FieldRanges)
      BY <2>5
    <3>5. QED
      BY <2>3, <3>1, <3>2, <3>3, <3>4 DEF Good, Scenes
  <2>7. QED
    BY <2>2, <2>4, <2>6 DEF p
<1>3. QED
  BY <1>1, <1>2

-----------------------------------------------------------------------------
(* The live part of a field.                                               *)

(* What division gives, and that the quotient is the only such number.     *)
LEMMA Division ==
  ASSUME NEW a \in Nat, NEW d \in Positive
  PROVE  /\ a \div d \in Nat /\ a % d \in 0..(d - 1)
         /\ (a \div d) * d <= a /\ a < (a \div d) * d + d
BY DEF Positive

LEMMA IntDivision ==
  ASSUME NEW a \in Int, NEW d \in Positive
  PROVE  /\ a \div d \in Int /\ a % d \in 0..(d - 1)
         /\ a = (a \div d) * d + (a % d)
         /\ (a \div d) * d <= a /\ a < (a \div d) * d + d
BY DEF Positive

LEMMA QuotientIs ==
  ASSUME NEW a \in Int, NEW d \in Positive, NEW q \in Int, q * d <= a, a < q * d + d
  PROVE  a \div d = q
BY DEF Positive

LEMMA HalfOf ==
  ASSUME NEW a \in Nat
  PROVE  a \div 2 \in Nat /\ 2 * (a \div 2) \in {a - 1, a}
OBVIOUS

(* A part of a whole is no more than the whole, and all of it is the whole. *)
LEMMA RoundedWithin ==
  ASSUME NEW k \in 0..Steps, NEW n \in Nat
  PROVE  /\ Rounded(k, n) \in 0..n
         /\ Rounded(Steps, n) = n
<1>1. Steps \in Nat /\ Steps > 0 /\ 2 * Steps \in Positive
  BY Limits DEF Positive
<1>2. k * n \in Nat /\ Steps * n \in Nat /\ k * n <= Steps * n
  <2>1. k \in Nat /\ Steps - k \in Nat
    BY <1>1
  <2>2. k * n \in Nat /\ Steps * n \in Nat /\ (Steps - k) * n \in Nat
    BY <1>1, <2>1
  <2>3. (Steps - k) * n = Steps * n - k * n
    BY <1>1, <2>1
  <2>4. QED
    BY <2>2, <2>3
<1>3. 2 * k * n = 2 * (k * n) /\ 2 * Steps * n = 2 * (Steps * n)
  BY <1>1
<1>4. ASSUME NEW a \in Nat, a <= Steps * n
      PROVE  (2 * a + Steps) \div (2 * Steps) \in 0..n
  <2> DEFINE q == (2 * a + Steps) \div (2 * Steps)
  <2>1. 2 * a + Steps \in Nat
    BY <1>1
  <2>2. q \in Nat /\ q * (2 * Steps) <= 2 * a + Steps
    BY <1>1, <2>1, Division
  <2> HIDE DEF q
  <2>3. q * (2 * Steps) = 2 * (q * Steps)
    BY <1>1, <2>2
  <2>4. SUFFICES ASSUME q >= n + 1 PROVE FALSE
    BY <2>2 DEF q
  <2>5. q * Steps >= Steps * n + Steps
    <3>1. q - (n + 1) \in Nat /\ (q - (n + 1)) * Steps \in Nat
      BY <1>1, <2>2, <2>4
    <3>2. (q - (n + 1)) * Steps = q * Steps - (Steps * n + Steps)
      BY <1>1, <2>2
    <3>3. q * Steps \in Nat /\ Steps * n \in Nat
      BY <1>1, <2>2
    <3>4. QED
      BY <1>1, <3>1, <3>2, <3>3
  <2>6. QED
    BY <1>1, <1>2, <1>4, <2>2, <2>3, <2>5
<1>5. Rounded(k, n) \in 0..n
  BY <1>2, <1>3, <1>4 DEF Rounded
<1>6. Rounded(Steps, n) = n
  <2>1. n * (2 * Steps) = 2 * (Steps * n)
    BY <1>1
  <2>2. 2 * (Steps * n) + Steps \in Int
    BY <1>1, <1>2
  <2>3. (2 * (Steps * n) + Steps) \div (2 * Steps) = n
    BY <1>1, <1>2, <2>1, <2>2, QuotientIs
  <2>4. QED
    BY <1>3, <2>3 DEF Rounded
<1>7. QED
  BY <1>5, <1>6

LEMMA LiveCountSnaps ==
  ASSUME NEW k \in 0..Steps, NEW n \in Positive
  PROVE  LET live == LiveCount(k, n)
         IN  /\ live \in 1..n /\ (n - live) \div 2 \in Nat /\ n - live = 2 * ((n - live) \div 2)
             /\ live - 1 - Rounded(k, n - 1) \in {0, 1}
             /\ k = Steps => live = n
<1> DEFINE r == Rounded(k, n - 1)
           margin == (n - (r + 1)) \div 2
           live == LiveCount(k, n)
<1>1. n \in Nat /\ n > 0 /\ n - 1 \in Nat
  BY DEF Positive
<1>2. r \in 0..(n - 1) /\ (k = Steps => r = n - 1)
  BY <1>1, RoundedWithin
<1> HIDE DEF r
<1>3. n - (r + 1) \in Nat
  BY <1>1, <1>2
<1>4. margin \in Nat /\ 2 * margin \in {n - (r + 1) - 1, n - (r + 1)}
  BY <1>3, HalfOf
<1>5. live = n - 2 * margin
  <2>1. Least(r + 1, n) = r + 1
    BY <1>1, <1>2 DEF Least
  <2>2. live = Most(1, n - 2 * Most(0, margin))
    BY <2>1 DEF LiveCount, r
  <2> HIDE DEF margin, live
  <2>3. Most(0, margin) = margin
    BY <1>4 DEF Most
  <2>4. n - 2 * margin >= 1 /\ n - 2 * margin \in Int
    BY <1>1, <1>2, <1>4
  <2>5. QED
    BY <2>2, <2>3, <2>4 DEF Most
<1> HIDE DEF margin, live
<1>6. n - live = 2 * margin /\ (n - live) \div 2 = margin
  BY <1>1, <1>4, <1>5
<1>7. live \in 1..n /\ live - 1 - r \in {0, 1} /\ (k = Steps => live = n)
  BY <1>1, <1>2, <1>4, <1>5
<1>8. QED
  BY <1>4, <1>6, <1>7 DEF live, r

(* What sizing leaves as it is, and that it centres the live part.         *)
SizedOf(g, f) ==
  /\ g \in FieldRanges
  /\ g.begin = f.begin /\ g.end = f.end
  /\ g.columns = f.columns /\ g.rows = f.rows /\ g.depth = f.depth
  /\ g.extentX = f.extentX /\ g.extentY = f.extentY
  /\ g.wave = f.wave /\ g.topology = f.topology

Shares(f, k) ==
  /\ f.liveColumns \in 1..f.columns /\ f.columnBegin \in Nat
  /\ f.columns - f.liveColumns = 2 * f.columnBegin
  /\ f.liveRows \in 1..f.rows /\ f.rowBegin \in Nat
  /\ f.rows - f.liveRows = 2 * f.rowBegin
  /\ k = Steps => f.liveColumns = f.columns /\ f.liveRows = f.rows
  /\ f.extentX => f.liveColumns - 1 - Rounded(k, f.columns - 1) \in {0, 1}
  /\ f.extentY => f.liveRows - 1 - Rounded(k, f.rows - 1) \in {0, 1}

LEMMA SizedShares ==
  ASSUME NEW f \in FieldRanges, NEW k \in 0..Steps
  PROVE  SizedOf(Sized(f, k), f) /\ Shares(Sized(f, k), k)
<1> DEFINE columns == IF f.extentX THEN LiveCount(k, f.columns) ELSE f.columns
           rows == IF f.extentY THEN LiveCount(k, f.rows) ELSE f.rows
           g == Sized(f, k)
<1>1. f.columns \in Positive /\ f.rows \in Positive /\ f.columns \in Nat /\ f.rows \in Nat
      /\ f.columns > 0 /\ f.rows > 0
  BY DEF FieldRanges, Positive
<1>2. /\ columns \in 1..f.columns /\ (f.columns - columns) \div 2 \in Nat
      /\ f.columns - columns = 2 * ((f.columns - columns) \div 2)
      /\ k = Steps => columns = f.columns
      /\ f.extentX => columns - 1 - Rounded(k, f.columns - 1) \in {0, 1}
  <2>1. CASE f.extentX
    BY <1>1, <2>1, LiveCountSnaps
  <2>2. CASE ~f.extentX
    BY <1>1, <2>2
  <2>3. QED
    BY <2>1, <2>2
<1>3. /\ rows \in 1..f.rows /\ (f.rows - rows) \div 2 \in Nat
      /\ f.rows - rows = 2 * ((f.rows - rows) \div 2)
      /\ k = Steps => rows = f.rows
      /\ f.extentY => rows - 1 - Rounded(k, f.rows - 1) \in {0, 1}
  <2>1. CASE f.extentY
    BY <1>1, <2>1, LiveCountSnaps
  <2>2. CASE ~f.extentY
    BY <1>1, <2>2
  <2>3. QED
    BY <2>1, <2>2
<1>4. g = [f EXCEPT !.liveColumns = columns, !.liveRows = rows,
                    !.columnBegin = (f.columns - columns) \div 2,
                    !.rowBegin = (f.rows - rows) \div 2]
  BY DEF Sized
<1>5. columns \in Int /\ rows \in Int /\ (f.columns - columns) \div 2 \in Int
      /\ (f.rows - rows) \div 2 \in Int
  BY <1>1, <1>2, <1>3
<1> HIDE DEF columns, rows, g
<1>6. /\ g.liveColumns = columns /\ g.liveRows = rows
      /\ g.columnBegin = (f.columns - columns) \div 2 /\ g.rowBegin = (f.rows - rows) \div 2
      /\ SizedOf(g, f)
  BY <1>4, <1>5 DEF FieldRanges, SizedOf
<1>7. Shares(g, k)
  BY <1>2, <1>3, <1>6 DEF Shares, SizedOf
<1>8. QED
  BY <1>6, <1>7 DEF g

LEMMA FieldsSizedShare ==
  ASSUME NEW fs \in Seq(FieldRanges), NEW k \in 0..Steps
  PROVE  /\ FieldsSized(fs, k) \in Seq(FieldRanges)
         /\ DOMAIN FieldsSized(fs, k) = DOMAIN fs
         /\ \A f \in DOMAIN fs : SizedOf(FieldsSized(fs, k)[f], fs[f])
         /\ \A f \in DOMAIN fs : Gated(FieldsSized(fs, k)[f]) => Shares(FieldsSized(fs, k)[f], k)
<1> DEFINE gs == FieldsSized(fs, k)
<1>1. DOMAIN fs = 1..Len(fs) /\ Len(fs) \in Nat /\ \A f \in DOMAIN fs : fs[f] \in FieldRanges
  OBVIOUS
<1>2. DOMAIN gs = DOMAIN fs
      /\ \A f \in DOMAIN fs : gs[f] = IF Gated(fs[f]) THEN Sized(fs[f], k) ELSE fs[f]
  BY DEF FieldsSized
<1>3. ASSUME NEW f \in DOMAIN fs
      PROVE  SizedOf(gs[f], fs[f]) /\ (Gated(gs[f]) => Shares(gs[f], k))
  <2>1. CASE Gated(fs[f])
    BY <1>1, <1>2, <2>1, SizedShares
  <2>2. CASE ~Gated(fs[f])
    BY <1>1, <1>2, <2>2 DEF SizedOf
  <2>3. QED
    BY <2>1, <2>2
<1>4. gs \in Seq(FieldRanges)
  <2>1. gs = [f \in 1..Len(fs) |-> gs[f]]
    BY <1>1 DEF FieldsSized
  <2>2. \A f \in 1..Len(fs) : gs[f] \in FieldRanges
    BY <1>1, <1>3 DEF SizedOf
  <2> HIDE DEF gs
  <2>3. QED
    BY <1>1, <2>1, <2>2
<1>5. QED
  BY <1>2, <1>3, <1>4

(* The coordinates of a cell lie in its field.                             *)
LEMMA Coordinates ==
  ASSUME NEW f \in FieldRanges, NEW i \in Cells(f)
  PROVE  XOf(f, i) \in 0..(f.columns - 1) /\ YOf(f, i) \in 0..(f.rows - 1) /\ ZOf(f, i) \in Nat
<1>1. /\ f.begin \in Nat /\ f.end \in Nat /\ f.columns \in Positive /\ f.rows \in Positive
      /\ i - f.begin \in Nat
  BY DEF Cells, FieldRanges
<1>2. (i - f.begin) \div f.columns \in Nat
  BY <1>1, Division
<1>3. f.columns * f.rows \in Positive
  <2>1. f.columns \in Nat /\ f.columns > 0 /\ f.rows \in Nat /\ f.rows > 0
    BY <1>1 DEF Positive
  <2>2. f.columns * f.rows \in Nat /\ f.columns * f.rows > 0
    BY <2>1
  <2>3. QED
    BY <2>2 DEF Positive
<1>4. QED
  BY <1>1, <1>2, <1>3, Division DEF XOf, YOf, ZOf

(* What the property says of one field.                                    *)
Centred(f, k) ==
  Gated(f) =>
    /\ \A x \in 0 .. f.columns - 1, y \in 0 .. f.rows - 1 : Mirrored(f, x, y)
    /\ f.liveColumns > 0 /\ f.liveRows > 0
    /\ k = Steps => DeadCells(f) = {}
    /\ f.extentX => f.liveColumns - 1 - Rounded(k, f.columns - 1) \in {0, 1}
    /\ f.extentY => f.liveRows - 1 - Rounded(k, f.rows - 1) \in {0, 1}

LEMMA SharesCentre ==
  ASSUME NEW f \in FieldRanges, NEW k \in 0..Steps, Gated(f) => Shares(f, k)
  PROVE  Centred(f, k)
<1>1. SUFFICES ASSUME Gated(f) PROVE Centred(f, k)
  BY DEF Centred
<1>2. /\ f.columns \in Nat /\ f.rows \in Nat /\ f.columns > 0 /\ f.rows > 0
  BY DEF FieldRanges, Positive
<1>3. Shares(f, k)
  BY <1>1
<1>4. ASSUME NEW x \in 0 .. f.columns - 1, NEW y \in 0 .. f.rows - 1
      PROVE  Mirrored(f, x, y)
  <2> DEFINE right == f.columnBegin + f.liveColumns - 1
             below == f.rowBegin + f.liveRows - 1
  <2>1. right = f.columns - 1 - f.columnBegin /\ below = f.rows - 1 - f.rowBegin
    BY <1>2, <1>3 DEF Shares
  <2>2. f.columnBegin \in Nat /\ f.rowBegin \in Nat
    BY <1>3 DEF Shares
  <2>3. (x \in f.columnBegin .. right) <=> (f.columns - 1 - x \in f.columnBegin .. right)
    <3> HIDE DEF right, below
    <3>1. QED
      BY <1>2, <2>1, <2>2
  <2>4. (y \in f.rowBegin .. below) <=> (f.rows - 1 - y \in f.rowBegin .. below)
    <3> HIDE DEF right, below
    <3>1. QED
      BY <1>2, <2>1, <2>2
  <2>5. QED
    BY <1>1, <2>3, <2>4 DEF Mirrored, CellIsLive
<1>5. ASSUME k = Steps
      PROVE  DeadCells(f) = {}
  <2>1. f.columnBegin = 0 /\ f.rowBegin = 0 /\ f.liveColumns = f.columns /\ f.liveRows = f.rows
    BY <1>2, <1>3, <1>5 DEF Shares
  <2>2. ASSUME NEW i \in Cells(f)
        PROVE  CellIsLive(f, XOf(f, i), YOf(f, i))
    <3>1. XOf(f, i) \in 0..(f.columns - 1) /\ YOf(f, i) \in 0..(f.rows - 1)
      BY Coordinates
    <3>2. QED
      BY <1>2, <2>1, <3>1 DEF CellIsLive
  <2>3. QED
    BY <2>2 DEF DeadCells
<1>6. QED
  BY <1>2, <1>3, <1>4, <1>5 DEF Centred, Shares

-----------------------------------------------------------------------------
(* A beat.                                                                 *)

(* The waves that may be under way in these fields.                        *)
WavesOf(fs) == {w \in [field : DOMAIN fs, left : Int] : fs[w.field].wave}
WaveLists(fs) == {ws \in Seq(WavesOf(fs)) : Len(ws) <= MaxWaves}

LEMMA TailPart ==
  ASSUME NEW X, NEW q \in Seq(X), NEW k \in 1..(Len(q) + 1)
  PROVE  SubSeq(q, k, Len(q)) \in Seq(X) /\ Len(SubSeq(q, k, Len(q))) = Len(q) - k + 1
OBVIOUS

LEMMA OneStarted ==
  ASSUME NEW fs, NEW ws \in WaveLists(fs), NEW f \in DOMAIN fs, fs[f].wave, NEW life \in Int
  PROVE  LET all == Append(ws, [field |-> f, left |-> life])
         IN  SubSeq(all, Most(1, Len(all) - MaxWaves + 1), Len(all)) \in WaveLists(fs)
<1> DEFINE X == WavesOf(fs)
           all == Append(ws, [field |-> f, left |-> life])
           k == Most(1, Len(all) - MaxWaves + 1)
<1>1. [field |-> f, left |-> life] \in X
  BY DEF WavesOf
<1>2. ws \in Seq(X) /\ Len(ws) <= MaxWaves /\ Len(ws) \in Nat
  BY DEF WaveLists
<1> HIDE DEF X
<1>3. all \in Seq(X) /\ Len(all) = Len(ws) + 1
  BY <1>1, <1>2
<1> HIDE DEF all
<1>4. k \in 1..(Len(all) + 1) /\ Len(all) - k + 1 <= MaxWaves
  BY <1>2, <1>3, Limits DEF Most
<1> HIDE DEF k
<1>5. SubSeq(all, k, Len(all)) \in Seq(X) /\ Len(SubSeq(all, k, Len(all))) <= MaxWaves
  BY <1>3, <1>4, TailPart
<1>6. QED
  BY <1>5 DEF WaveLists, X, all, k

LEMMA StartedWaves ==
  ASSUME NEW fs \in Seq(FieldRanges), NEW ws \in WaveLists(fs), NEW life \in Int
  PROVE  Started(ws, fs, life) \in WaveLists(fs)
<1> DEFINE Joined(to, f) ==
             IF ~fs[f].wave THEN to
             ELSE LET all == Append(to, [field |-> f, left |-> life])
                  IN  SubSeq(all, Most(1, Len(all) - MaxWaves + 1), Len(all))
<1> DEFINE n == Len(fs)
           S == WaveLists(fs)
           Step(to, i) == Joined(to, [f \in DOMAIN fs |-> f][i])
           step == [q \in S \X (1..n) |-> Step(q[1], q[2])]
           E(h) == h = [s \in SUBSET (1..n) |->
                          IF s = {} THEN ws ELSE Step(h[s \ {Max(s)}], Max(s))]
           it == CHOOSE h : E(h)
<1>1. n \in Nat /\ DOMAIN fs = 1..n /\ DOMAIN [f \in DOMAIN fs |-> f] = 1..n
  OBVIOUS
<1>2. Started(ws, fs, life) = it[1..n]
  BY <1>1 DEF Started, FoldLeft, MapThenFoldSet
<1>3. ws \in S /\ \A to \in S, i \in 1..n : Step(to, i) \in S
  <2>1. ASSUME NEW to \in WaveLists(fs), NEW f \in 1..n
        PROVE  Joined(to, f) \in WaveLists(fs)
    <3>1. f \in DOMAIN fs
      BY <1>1
    <3>2. CASE fs[f].wave
      BY <3>1, <3>2, OneStarted
    <3>3. CASE ~fs[f].wave
      BY <3>3
    <3>4. QED
      BY <3>2, <3>3
  <2>2. \A i \in 1..n : [f \in DOMAIN fs |-> f][i] = i
    BY <1>1
  <2> HIDE DEF Joined
  <2>3. QED
    BY <2>1, <2>2
<1>4. /\ n \in Nat /\ ws \in S /\ step \in [S \X (1..n) -> S]
      /\ \A to \in S, i \in 1..n : step[<<to, i>>] = Step(to, i)
  <2> HIDE DEF S, Step
  <2>1. QED
    BY <1>1, <1>3
<1> HIDE DEF n, S, Step, step
<1>5. \E h : E(h)
  <2> HIDE DEF E, it
  <2>1. PICK h : Solves(h, n, S, ws, step)
    BY <1>4, FoldSolved
  <2>2. \A s \in SUBSET (1..n) : h[s] = IF s = {} THEN ws ELSE Step(h[s \ {Max(s)}], Max(s))
    BY <1>4, <2>1 DEF Solves
  <2>3. h = [s \in SUBSET (1..n) |-> h[s]]
    BY <2>1 DEF Solves
  <2>4. QED
    BY <2>2, <2>3 DEF E
<1>6. E(it)
  <2> HIDE DEF E
  <2>1. QED
    BY <1>5
<1> HIDE DEF it
<1>7. Follows(it, n, S, ws, step)
  BY <1>4, <1>6, GreatestOf DEF Follows
<1>8. it[1..n] \in S
  BY <1>4, <1>7, FoldStays
<1>9. QED
  BY <1>2, <1>8 DEF n, S

LEMMA AdvancedWaves ==
  ASSUME NEW fs, NEW ws \in WaveLists(fs)
  PROVE  Advanced(ws) \in WaveLists(fs)
<1> DEFINE X == WavesOf(fs)
           moved == [w \in DOMAIN ws |-> [ws[w] EXCEPT !.left = @ - 1]]
           left == {w \in Range(moved) : w.left > 0}
<1>1. ws \in Seq(X) /\ Len(ws) <= MaxWaves /\ Len(ws) \in Nat /\ DOMAIN ws = 1..Len(ws)
  BY DEF WaveLists
<1>2. \A w \in DOMAIN ws : [ws[w] EXCEPT !.left = @ - 1] \in X
  <2>1. \A w \in DOMAIN ws : ws[w] \in X
    BY <1>1
  <2>2. QED
    BY <2>1 DEF WavesOf
<1> HIDE DEF X
<1>3. moved \in Seq(X) /\ Len(moved) = Len(ws)
  BY <1>1, <1>2
<1>4. Advanced(ws) = Kept(moved, left)
  BY DEF Advanced
<1> HIDE DEF moved, left
<1>5. Kept(moved, left) \in Seq(X \cap left) /\ Len(Kept(moved, left)) <= Len(moved)
  BY <1>3, KeptKeeps
<1>6. Kept(moved, left) \in Seq(X)
  <2>1. \A q \in Seq(X \cap left) : q \in Seq(X)
    OBVIOUS
  <2>2. QED
    BY <1>5, <2>1
<1>7. Kept(moved, left) \in Seq(X) /\ Len(Kept(moved, left)) <= MaxWaves
  <2>1. Len(Kept(moved, left)) \in Nat
    BY <1>6
  <2>2. QED
    BY <1>1, <1>3, <1>5, <1>6, <2>1, Limits
<1>8. QED
  BY <1>4, <1>7 DEF WaveLists, X

(* Cells of fields that lie in order.                                      *)
LEMMA CellsWithin ==
  ASSUME NEW fs \in Seq(FieldRanges), NEW n \in Nat, InOrder(fs, n), NEW f \in DOMAIN fs
  PROVE  /\ fs[f] \in FieldRanges /\ Cells(fs[f]) \subseteq 0..(n - 1)
         /\ Root(fs[f]) \in 0..(n - 1)
<1>1. fs[f] \in FieldRanges
  OBVIOUS
<1>2. /\ fs[f].begin \in Nat /\ fs[f].end \in Nat /\ fs[f].begin + 1 <= fs[f].end
      /\ fs[f].end <= n
  BY <1>1 DEF FieldRanges, InOrder
<1> DEFINE b == fs[f].begin  e == fs[f].end  h == (e - b) \div 2
<1>3. Cells(fs[f]) \subseteq 0..(n - 1)
  BY <1>2 DEF Cells
<1>4. Root(fs[f]) = b + h
  BY DEF Root
<1>5. b \in Nat /\ e \in Nat /\ b + 1 <= e /\ e <= n /\ e - b \in Nat
  BY <1>2
<1>6. h \in Nat /\ 2 * h \in {e - b - 1, e - b}
  BY <1>5, HalfOf, Zenon
<1> HIDE DEF b, e, h
<1>7. Root(fs[f]) \in 0..(n - 1)
  BY <1>4, <1>5, <1>6
<1>8. QED
  BY <1>1, <1>3, <1>7

Deliveries(n) == [receiver : 0..(n - 1), hop : 0..MaxHops]

LEMMA RootsDeliver ==
  ASSUME NEW fs \in Seq(FieldRanges), NEW n \in Nat, InOrder(fs, n)
  PROVE  Roots(fs) \in Seq(Deliveries(n))
<1> DEFINE X == {f \in FieldRanges : Root(f) \in 0..(n - 1)}
           of == {f \in Range(fs) : ~f.wave}
           rooted == Kept(fs, of)
<1>1. fs \in Seq(X)
  <2>1. \A f \in DOMAIN fs : fs[f] \in X
    BY CellsWithin
  <2> HIDE DEF X
  <2>2. QED
    BY <2>1
<1> HIDE DEF X, of
<1>2. rooted \in Seq(X \cap of)
  BY <1>1, KeptKeeps
<1>3. Roots(fs) = [k \in DOMAIN rooted |-> [receiver |-> Root(rooted[k]), hop |-> 0]]
  BY DEF Roots, of
<1> HIDE DEF rooted
<1>4. DOMAIN rooted = 1..Len(rooted) /\ Len(rooted) \in Nat
      /\ \A k \in DOMAIN rooted : rooted[k] \in X
  BY <1>2
<1>5. \A k \in DOMAIN rooted : [receiver |-> Root(rooted[k]), hop |-> 0] \in Deliveries(n)
  BY <1>4, Limits DEF X, Deliveries
<1>6. QED
  BY <1>3, <1>4, <1>5

LEMMA RingStays ==
  ASSUME NEW f \in FieldRanges, NEW i \in Cells(f)
  PROVE  RingNeighbours(f, i) \in Seq(Cells(f))
<1>1. f.begin \in Nat /\ f.end \in Nat /\ i \in Int /\ i >= f.begin /\ i <= f.end - 1
  BY DEF FieldRanges, Cells
<1>2. /\ (IF i > f.begin THEN i - 1 ELSE f.end - 1) \in Cells(f)
      /\ (IF i + 1 < f.end THEN i + 1 ELSE f.begin) \in Cells(f)
  BY <1>1 DEF Cells
<1>3. QED
  BY <1>2 DEF RingNeighbours

LEMMA LatticeStays ==
  ASSUME NEW f \in FieldRanges, NEW i \in Cells(f)
  PROVE  LatticeNeighbours(f, i) \in Seq(Cells(f))
<1> DEFINE x == XOf(f, i)
           y == YOf(f, i)
           z == ZOf(f, i)
           at(n) == f.begin + n[3] * f.columns * f.rows + n[2] * f.columns + n[1]
           inside(n) == /\ n[1] \in 0 .. f.columns - 1
                        /\ n[2] \in 0 .. f.rows - 1
                        /\ n[3] \in 0 .. f.depth - 1
                        /\ CellIsLive(f, n[1], n[2])
                        /\ at(n) \in Cells(f)
           around == << <<x - 1, y, z>>, <<x + 1, y, z>>, <<x, y - 1, z>>, <<x, y + 1, z>>,
                        <<x, y, z - 1>>, <<x, y, z + 1>> >>
           of == {n \in Range(around) : inside(n)}
           kept == Kept(around, of)
           X == Int \X Int \X Int
<1>1. x \in Int /\ y \in Int /\ z \in Int
  BY Coordinates DEF FieldRanges, Positive
<1> HIDE DEF x, y, z
<1>2. around \in Seq(X)
  BY <1>1
<1>3. \A n \in of : at(n) \in Cells(f)
  OBVIOUS
<1>4. LatticeNeighbours(f, i) =
        IF i \in dead THEN <<>> ELSE [n \in DOMAIN kept |-> at(kept[n])]
  BY DEF LatticeNeighbours, x, y, z
<1> HIDE DEF around, of, at, X
<1>5. kept \in Seq(X \cap of)
  BY <1>2, KeptKeeps
<1> HIDE DEF kept
<1>6. DOMAIN kept = 1..Len(kept) /\ Len(kept) \in Nat /\ \A n \in DOMAIN kept : kept[n] \in of
  BY <1>5
<1>7. [n \in DOMAIN kept |-> at(kept[n])] \in Seq(Cells(f))
  BY <1>3, <1>6
<1>8. QED
  BY <1>4, <1>7

LEMMA PassedDeliver ==
  ASSUME fields \in Seq(FieldRanges), NEW n \in Nat, InOrder(fields, n),
         NEW d \in Deliveries(n), reach \in Nat
  PROVE  Passed(d) \in Seq(Deliveries(n))
<1> DEFINE i == d.receiver
           to == Neighbours(i)
<1>1. d.hop \in Nat /\ d.hop <= MaxHops
  BY Limits DEF Deliveries
<1>2. to \in Seq(0..(n - 1))
  <2>1. CASE FieldOf(i) = {}
    BY <2>1 DEF Neighbours
  <2>2. CASE FieldOf(i) # {}
    <3> DEFINE g == CHOOSE f \in FieldOf(i) : TRUE
               field == fields[g]
    <3>1. g \in DOMAIN fields /\ i \in Cells(field)
      BY <2>2 DEF FieldOf
    <3>2. to = CASE field.topology = "none" -> <<>>
                 [] field.topology # "none" /\ OnRing(field) -> RingNeighbours(field, i)
                 [] OTHER -> LatticeNeighbours(field, i)
      BY <2>2 DEF Neighbours
    <3> HIDE DEF g, i
    <3>3. field \in FieldRanges /\ Cells(field) \subseteq 0..(n - 1)
      BY <3>1, CellsWithin
    <3>4. RingNeighbours(field, i) \in Seq(Cells(field)) /\ LatticeNeighbours(field, i) \in Seq(Cells(field))
      BY <3>1, <3>3, RingStays, LatticeStays
    <3> HIDE DEF field, to
    <3>5. to \in Seq(Cells(field))
      <4>1. <<>> \in Seq(Cells(field))
        OBVIOUS
      <4>2. QED
        BY <3>2, <3>4, <4>1
    <3>6. QED
      BY <3>3, <3>5 DEF to
  <2>3. QED
    BY <2>1, <2>2
<1> HIDE DEF to
<1>3. CASE d.hop >= MaxHops \/ d.hop >= reach
  BY <1>3 DEF Passed
<1>4. CASE ~(d.hop >= MaxHops \/ d.hop >= reach)
  <2>1. Passed(d) = [k \in DOMAIN to |-> [receiver |-> to[k], hop |-> d.hop + 1]]
    BY <1>4 DEF Passed, to
  <2>2. d.hop + 1 \in 0..MaxHops
    BY <1>1, <1>4, Limits
  <2>3. DOMAIN to = 1..Len(to) /\ Len(to) \in Nat /\ \A k \in DOMAIN to : to[k] \in 0..(n - 1)
    BY <1>2
  <2>4. \A k \in DOMAIN to : [receiver |-> to[k], hop |-> d.hop + 1] \in Deliveries(n)
    BY <2>2, <2>3 DEF Deliveries
  <2>5. QED
    BY <2>1, <2>3, <2>4
<1>5. QED
  BY <1>3, <1>4

-----------------------------------------------------------------------------
(* The invariant.                                                          *)

SceneOK ==
  /\ module \in DOMAIN Modules \cup {NoModule}
  /\ setting \in 0..Steps /\ target \in 0..Steps /\ driven \in BOOLEAN
  /\ fields \in Seq(FieldRanges) /\ entities \in Nat /\ InOrder(fields, entities)
  /\ emitters \in Seq(Emitters) /\ Emits(emitters)
  /\ module # NoModule => Within(Modules[module].particles, entities, fields)
  /\ dead \subseteq 0..(entities - 1)
  /\ \A f \in DOMAIN fields : Centred(fields[f], setting)

WavesOK == waves \in WaveLists(fields)

RippleOK ==
  /\ lastBeat \in 0..1 \cup {NoBeat} /\ reach \in Reaches \cup {0}
  /\ queue \in Seq(Deliveries(entities))
  /\ DOMAIN reached \subseteq 0..(entities - 1)
  /\ IsFiniteSet(DOMAIN reached) /\ Cardinality(DOMAIN reached) <= MaxDeliveries
  /\ phase \in {"idle", "effects"}
  /\ phase = "idle" => queue = <<>> /\ reached = << >>

IInv == SceneOK /\ WavesOK /\ RippleOK

LEMMA InitInv == Init => IInv
<1>1. SUFFICES ASSUME Init PROVE IInv
  OBVIOUS
<1>2. \A X : <<>> \in Seq(X) /\ Len(<<>>) = 0 /\ DOMAIN <<>> = {}
  OBVIOUS
<1>3. SceneOK
  <2>1. /\ fields \in Seq(FieldRanges) /\ emitters \in Seq(Emitters) /\ DOMAIN fields = {}
        /\ Len(emitters) = 0 /\ DOMAIN emitters = {}
    BY <1>1, <1>2 DEF Init
  <2>2. /\ module = NoModule /\ setting \in 0..Steps /\ target \in 0..Steps
        /\ driven \in BOOLEAN /\ entities = 0 /\ dead = {}
    <3>1. module = NoModule /\ setting = Steps /\ target = Steps /\ entities = 0 /\ dead = {}
      BY <1>1 DEF Init
    <3>2. driven \in BOOLEAN
      BY <1>1 DEF Init
    <3>3. Steps \in 0..Steps
      BY Limits
    <3>4. QED
      BY <3>1, <3>2, <3>3
  <2>3. InOrder(fields, entities) /\ Emits(emitters)
    BY <2>1, Limits DEF InOrder, Emits
  <2>4. QED
    BY <2>1, <2>2, <2>3 DEF SceneOK
<1>4. WavesOK
  <2>1. waves = <<>>
    BY <1>1 DEF Init
  <2>2. QED
    BY <1>2, <2>1, Limits DEF WavesOK, WaveLists
<1>5. RippleOK
  <2>1. /\ lastBeat = NoBeat /\ reach = 0 /\ queue = <<>> /\ reached = << >> /\ phase = "idle"
    BY <1>1 DEF Init
  <2>2. DOMAIN reached = {} /\ IsFiniteSet({}) /\ Cardinality({}) = 0
    BY <1>2, <2>1, FS_EmptySet
  <2>3. QED
    BY <1>2, <2>1, <2>2, Limits DEF RippleOK
<1>6. QED
  BY <1>3, <1>4, <1>5 DEF IInv

LEMMA DeliverInv == IInv /\ Deliver => IInv'
<1> SUFFICES ASSUME IInv, Deliver PROVE IInv'
  OBVIOUS
<1> USE DEF IInv
<1>1. SceneOK' /\ WavesOK'
  BY DEF Deliver, SceneOK, WavesOK, scene
<1>2. RippleOK'
  <2> DEFINE d == Head(queue)
  <2>1. /\ entities \in Nat /\ fields \in Seq(FieldRanges) /\ InOrder(fields, entities)
        /\ entities' = entities /\ reach' = reach /\ lastBeat' = lastBeat /\ phase' = phase
        /\ phase = "effects" /\ queue # <<>> /\ queue \in Seq(Deliveries(entities))
        /\ Cardinality(DOMAIN reached) < MaxDeliveries
    BY DEF Deliver, SceneOK, RippleOK, scene
  <2>2. d \in Deliveries(entities) /\ Tail(queue) \in Seq(Deliveries(entities))
    BY <2>1
  <2>3. reach \in Nat
    BY BoundsAssumption DEF RippleOK
  <2> HIDE DEF d
  <2>4. CASE d.receiver \in DOMAIN reached
    <3>1. queue' = Tail(queue) /\ reached' = reached
      BY <2>4 DEF Deliver, d
    <3>2. QED
      BY <2>1, <2>2, <3>1 DEF RippleOK
  <2>5. CASE d.receiver \notin DOMAIN reached
    <3>1. /\ queue' = Tail(queue) \o Passed(d)
          /\ DOMAIN reached' = DOMAIN reached \cup {d.receiver}
      BY <2>5 DEF Deliver, d
    <3>2. Passed(d) \in Seq(Deliveries(entities))
      BY <2>1, <2>2, <2>3, PassedDeliver
    <3>3. queue' \in Seq(Deliveries(entities))
      BY <2>2, <3>1, <3>2
    <3>4. DOMAIN reached' \subseteq 0..(entities - 1)
      BY <2>2, <3>1 DEF RippleOK, Deliveries
    <3>5. /\ IsFiniteSet(DOMAIN reached')
          /\ Cardinality(DOMAIN reached') = Cardinality(DOMAIN reached) + 1
      <4>1. IsFiniteSet(DOMAIN reached)
        BY DEF RippleOK
      <4>2. /\ IsFiniteSet(DOMAIN reached \cup {d.receiver})
            /\ Cardinality(DOMAIN reached \cup {d.receiver}) = Cardinality(DOMAIN reached) + 1
        BY <2>5, <4>1, FS_AddElement
      <4>3. QED
        BY <3>1, <4>2
    <3>6. Cardinality(DOMAIN reached') <= MaxDeliveries
      <4>1. Cardinality(DOMAIN reached) \in Nat
        BY FS_CardinalityType DEF RippleOK
      <4>2. QED
        BY <2>1, <3>5, <4>1, Limits
    <3>7. QED
      BY <2>1, <3>3, <3>4, <3>5, <3>6 DEF RippleOK
  <2>6. QED
    BY <2>4, <2>5
<1>3. QED
  BY <1>1, <1>2

LEMMA StepEndsInv == IInv /\ StepEnds => IInv'
<1> SUFFICES ASSUME IInv, StepEnds PROVE IInv'
  OBVIOUS
<1> USE DEF IInv
<1>1. SceneOK' /\ WavesOK'
  BY DEF StepEnds, SceneOK, WavesOK, scene
<1>2. RippleOK'
  <2>1. DOMAIN << >> = {} /\ IsFiniteSet({}) /\ Cardinality({}) = 0
    BY FS_EmptySet
  <2>2. QED
    BY <2>1, Limits DEF StepEnds, RippleOK, scene
<1>3. QED
  BY <1>1, <1>2

(* The scene that a step goes by, and the settings it takes over.          *)
Now == [entities |-> entities, fields |-> fields, emitters |-> emitters, full |-> FALSE]

LEMMA ChasedWithin ==
  ASSUME NEW from \in 0..Steps, NEW to \in 0..Steps, NEW isDriven, NEW paused,
         NEW k \in Chased(from, to, isDriven, paused)
  PROVE  k \in 0..Steps
BY Limits DEF Chased, Between, Least, Most

LEMMA TickInv ==
  ASSUME IInv, NEW m \in DOMAIN Modules \cup {NoModule}, NEW reload \in BOOLEAN,
         NEW isDriven \in BOOLEAN, NEW paused \in BOOLEAN, NEW to \in 0..Steps,
         NEW beat \in 0..1, NEW strength \in Reaches, NEW life \in Lives,
         reload => m = module,
         Tick(m, reload, to, isDriven, paused, beat, strength, life)
  PROVE  IInv'
<1> DEFINE rebuilt == m # module \/ reload
           scn == IF rebuilt THEN Built(m) ELSE Now
           from == IF rebuilt THEN to ELSE Ingested(to, isDriven)
           beats == m # NoModule /\ beat # (IF rebuilt THEN NoBeat ELSE lastBeat)
           emitted == IF beats THEN Emitted(m, scn) ELSE scn
           kept == IF rebuilt THEN <<>> ELSE waves
<1>1. /\ module' = m /\ target' = to /\ driven' = isDriven
      /\ IF m = NoModule THEN setting' = from
                         ELSE setting' \in Chased(from, to, isDriven, paused)
      /\ fields' = FieldsSized(scn.fields, setting')
      /\ dead' = AllDead(fields')
      /\ entities' = emitted.entities /\ emitters' = emitted.emitters
      /\ lastBeat' = IF beats THEN beat ELSE IF rebuilt THEN NoBeat ELSE lastBeat
      /\ waves' = Advanced(IF beats THEN Started(kept, fields', life) ELSE kept)
      /\ queue' = IF beats THEN Roots(fields') ELSE <<>>
      /\ reach' = IF beats THEN strength ELSE 0
      /\ reached' = << >>
      /\ phase' = IF m = NoModule THEN "idle" ELSE "effects"
  BY DEF Tick, Now
<1> HIDE DEF beats
<1>2. /\ scn \in Scenes /\ InOrder(scn.fields, scn.entities) /\ Emits(scn.emitters)
      /\ m # NoModule => scn \in Good(Modules[m].particles)
  <2>1. CASE rebuilt
    <3>1. CASE m = NoModule
      <4>1. 1 \in Positive
        BY DEF Positive
      <4>2. EmptyScene \in Good(1)
        BY <4>1, EmptyGood
      <4>3. QED
        BY <2>1, <3>1, <4>2, BuiltGood DEF Good
    <3>2. CASE m # NoModule
      BY <2>1, <3>2, BuiltGood DEF Good
    <3>3. QED
      BY <3>1, <3>2
  <2>2. CASE ~rebuilt
    <3>1. m = module /\ scn = Now
      BY <2>2
    <3>2. /\ Now.entities = entities /\ Now.fields = fields /\ Now.emitters = emitters
          /\ Now \in Scenes
      BY DEF Now, Scenes, IInv, SceneOK
    <3>3. QED
      BY <3>1, <3>2 DEF Good, IInv, SceneOK
  <2>3. QED
    BY <2>1, <2>2
<1>3. /\ emitted \in Scenes /\ emitted.fields = scn.fields /\ emitted.entities >= scn.entities
      /\ InOrder(scn.fields, emitted.entities) /\ Emits(emitted.emitters)
      /\ m # NoModule => Within(Modules[m].particles, emitted.entities, scn.fields)
  <2> HIDE DEF scn
  <2>1. CASE beats
    <3>1. m \in DOMAIN Modules /\ m # NoModule
      BY <2>1 DEF beats
    <3>2. emitted \in Later(Modules[m].particles, scn)
      BY <1>2, <2>1, <3>1, EmittedGrows
    <3> HIDE DEF emitted
    <3>3. QED
      BY <3>2 DEF Later, Good
  <2>2. CASE ~beats
    <3>1. emitted = scn
      BY <2>2
    <3>2. scn.entities \in Nat
      BY <1>2 DEF Scenes
    <3> HIDE DEF emitted
    <3>3. QED
      BY <1>2, <3>1, <3>2 DEF Good
  <2>3. QED
    BY <2>1, <2>2
<1>4. setting' \in 0..Steps
  <2>1. from \in 0..Steps
    BY DEF Ingested, IInv, SceneOK
  <2> HIDE DEF from
  <2>2. QED
    BY <1>1, <2>1, ChasedWithin
<1>5. scn.fields \in Seq(FieldRanges) /\ emitted.entities \in Nat /\ emitted.emitters \in Seq(Emitters)
  <2> HIDE DEF scn, emitted
  <2>1. QED
    BY <1>2, <1>3 DEF Scenes
<1> HIDE DEF emitted, from
<1>6. /\ fields' \in Seq(FieldRanges) /\ DOMAIN fields' = DOMAIN scn.fields
      /\ \A f \in DOMAIN fields' : SizedOf(fields'[f], scn.fields[f])
      /\ \A f \in DOMAIN fields' : Gated(fields'[f]) => Shares(fields'[f], setting')
  <2> HIDE DEF scn
  <2>1. QED
    BY <1>1, <1>4, <1>5, FieldsSizedShare
<1>7. InOrder(fields', entities')
  <2> HIDE DEF scn
  <2>1. ASSUME NEW f \in DOMAIN fields', f > 1
        PROVE  f - 1 \in DOMAIN fields'
    <3>1. DOMAIN fields' = 1..Len(fields') /\ Len(fields') \in Nat
      BY <1>6
    <3>2. QED
      BY <2>1, <3>1
  <2>2. QED
    BY <1>1, <1>3, <1>6, <2>1 DEF InOrder, SizedOf
<1>8. \A f \in DOMAIN fields' : fields'[f] \in FieldRanges /\ Centred(fields'[f], setting')
  <2>1. \A f \in DOMAIN fields' : fields'[f] \in FieldRanges
    BY <1>6
  <2>2. QED
    BY <1>4, <1>6, <2>1, SharesCentre
<1>9. dead' \subseteq 0..(entities' - 1)
  <2>1. entities' \in Nat
    BY <1>1, <1>5
  <2>2. \A f \in DOMAIN fields' : Cells(fields'[f]) \subseteq 0..(entities' - 1)
    BY <1>6, <1>7, <2>1, CellsWithin
  <2>3. QED
    BY <1>1, <2>2 DEF AllDead, DeadCells
<1>10. m # NoModule => Within(Modules[m].particles, entities', fields')
  <2> HIDE DEF scn
  <2>1. QED
    BY <1>1, <1>3, <1>6 DEF Within, SizedOf
<1>11. SceneOK'
  <2>1. module' = m /\ target' \in 0..Steps
    BY <1>1
  <2>2. driven' \in BOOLEAN
    BY <1>1
  <2>3. entities' \in Nat /\ emitters' \in Seq(Emitters) /\ Emits(emitters')
    BY <1>1, <1>3, <1>5
  <2> HIDE DEF scn
  <2>4. QED
    BY <1>4, <1>6, <1>7, <1>8, <1>9, <1>10, <2>1, <2>2, <2>3 DEF SceneOK
<1>12. WavesOK'
  <2>1. kept \in WaveLists(fields')
    <3>1. CASE rebuilt
      <4>1. kept = <<>>
        BY <3>1
      <4>2. \A X : <<>> \in Seq(X) /\ Len(<<>>) = 0
        OBVIOUS
      <4> HIDE DEF kept
      <4>3. QED
        BY <4>1, <4>2, Limits DEF WaveLists
    <3>2. CASE ~rebuilt
      <4>1. kept = waves /\ scn.fields = fields
        BY <3>2 DEF Now
      <4>2. WavesOf(fields') = WavesOf(fields)
        BY <1>6, <4>1 DEF WavesOf, SizedOf
      <4>3. QED
        BY <4>1, <4>2 DEF WaveLists, IInv, WavesOK
    <3>3. QED
      BY <3>1, <3>2
  <2>2. life \in Int
    BY BoundsAssumption
  <2> HIDE DEF kept
  <2>3. Started(kept, fields', life) \in WaveLists(fields')
    BY <1>6, <2>1, <2>2, StartedWaves
  <2>4. QED
    BY <1>1, <2>1, <2>3, AdvancedWaves DEF WavesOK
<1>13. RippleOK'
  <2>1. Roots(fields') \in Seq(Deliveries(entities')) /\ <<>> \in Seq(Deliveries(entities'))
    <3>1. entities' \in Nat
      BY <1>1, <1>5
    <3>2. QED
      BY <1>6, <1>7, <3>1, RootsDeliver
  <2>2. DOMAIN << >> = {} /\ IsFiniteSet({}) /\ Cardinality({}) = 0
    BY FS_EmptySet
  <2>3. m = NoModule => queue' = <<>>
    BY <1>1 DEF beats
  <2>4. queue' \in Seq(Deliveries(entities'))
    BY <1>1, <2>1
  <2>5. lastBeat' \in 0..1 \cup {NoBeat} /\ reach' \in Reaches \cup {0}
    BY <1>1 DEF IInv, RippleOK
  <2>6. QED
    BY <1>1, <2>2, <2>3, <2>4, <2>5, Limits DEF RippleOK
<1>14. QED
  BY <1>11, <1>12, <1>13 DEF IInv

LEMMA NextInv == IInv /\ [Next]_vars => IInv'
<1> SUFFICES ASSUME IInv, [Next]_vars PROVE IInv'
  OBVIOUS
<1>1. CASE Ticks
  <2>1. PICK m \in DOMAIN Modules \cup {NoModule}, reload \in BOOLEAN, isDriven \in BOOLEAN,
             paused \in BOOLEAN, to \in 0 .. Steps, beat \in 0 .. 1, strength \in Reaches,
             life \in Lives :
               /\ reload => m = module
               /\ Tick(m, reload, to, isDriven, paused, beat, strength, life)
    BY <1>1 DEF Ticks
  <2>2. QED
    BY <2>1, TickInv
<1>2. CASE Deliver
  BY <1>2, DeliverInv
<1>3. CASE StepEnds
  BY <1>3, StepEndsInv
<1>4. CASE UNCHANGED vars
  BY <1>4 DEF vars, IInv, SceneOK, WavesOK, RippleOK
<1>5. QED
  BY <1>1, <1>2, <1>3, <1>4 DEF Next

(* The strengthening says what the run checks.                             *)
LEMMA FieldsAreOK == SceneOK => FieldsOK
<1> SUFFICES ASSUME SceneOK, NEW f \in DOMAIN fields
             PROVE  /\ fields[f].begin \in Nat /\ fields[f].end \in fields[f].begin + 1 .. entities
                    /\ fields[f].end - fields[f].begin
                         =< fields[f].columns * fields[f].rows * fields[f].depth
                    /\ f > 1 => fields[f].begin >= fields[f - 1].end
  BY DEF FieldsOK
<1>1. fields[f] \in FieldRanges /\ InOrder(fields, entities) /\ entities \in Nat
  BY DEF SceneOK
<1>2. fields[f].begin \in Nat /\ fields[f].end \in Nat
  BY <1>1 DEF FieldRanges
<1>3. QED
  BY <1>1, <1>2 DEF InOrder

LEMMA IInvTypes == IInv => TypeOK
<1> SUFFICES ASSUME IInv PROVE TypeOK
  OBVIOUS
<1>1. FieldsOK
  BY FieldsAreOK DEF IInv
<1>2. \A d \in Range(queue) : d.receiver \in 0 .. entities - 1 /\ d.hop \in 0 .. MaxHops
  <2>1. Range(queue) \subseteq Deliveries(entities)
    BY DEF IInv, RippleOK, Range
  <2>2. QED
    BY <2>1 DEF Deliveries
<1>3. QED
  BY <1>1, <1>2 DEF IInv, SceneOK, RippleOK, TypeOK

LEMMA IInvLimits == IInv => WithinLimits
<1> SUFFICES ASSUME IInv PROVE WithinLimits
  OBVIOUS
<1>1. ASSUME module # NoModule
      PROVE  entities =< Most(Modules[module].particles, CellCount)
  <2> DEFINE ends == {fields[f].end : f \in DOMAIN fields}
             p == Modules[module].particles
  <2>1. entities \in Nat /\ Within(p, entities, fields) /\ p \in Nat
    BY <1>1, ModulesAssumption DEF IInv, SceneOK, Positive
  <2>2. ends \cup {0} \subseteq 0..entities
    <3>1. \A f \in DOMAIN fields : fields[f].end \in 0..entities
      <4>1. FieldsOK
        BY FieldsAreOK DEF IInv
      <4>2. QED
        BY <2>1, <4>1 DEF FieldsOK
    <3>2. QED
      BY <2>1, <3>1
  <2> HIDE DEF p
  <2>3. CellCount = Max(ends \cup {0})
    BY DEF CellCount
  <2>4. Max(ends \cup {0}) \in ends \cup {0} /\ \A e \in ends \cup {0} : e <= Max(ends \cup {0})
    <3> HIDE DEF ends
    <3>1. ends \cup {0} # {}
      OBVIOUS
    <3>2. QED
      BY <2>1, <2>2, <3>1, Greatest
  <2>5. CellCount \in Nat
    BY <2>1, <2>2, <2>3, <2>4
  <2>6. entities <= p \/ entities <= CellCount
    <3>1. SUFFICES ASSUME NEW f \in DOMAIN fields, entities <= fields[f].end
                   PROVE  entities <= CellCount
      BY <2>1 DEF Within
    <3>2. fields[f].end \in ends \cup {0} /\ fields[f].end \in Nat
      BY <2>2
    <3> HIDE DEF ends
    <3>3. fields[f].end <= CellCount
      BY <2>3, <2>4, <3>2
    <3>4. QED
      BY <2>1, <2>5, <3>1, <3>2, <3>3
  <2>7. entities <= Most(p, CellCount)
    BY <2>1, <2>6, <2>5 DEF Most
  <2>8. QED
    BY <2>7 DEF p
<1>2. Len(emitters) =< MaxEmitters /\ \A e \in Range(emitters) : e.emitted =< e.maximum
  BY DEF IInv, SceneOK, Emits, Range
<1>3. /\ Len(waves) =< MaxWaves
      /\ \A w \in Range(waves) : w.field \in DOMAIN fields /\ fields[w.field].wave
  <2>1. waves \in Seq(WavesOf(fields)) /\ Len(waves) <= MaxWaves
    BY DEF IInv, WavesOK, WaveLists
  <2>2. Range(waves) \subseteq WavesOf(fields)
    BY <2>1 DEF Range
  <2>3. QED
    BY <2>1, <2>2 DEF WavesOf
<1>4. Cardinality(DOMAIN reached) =< MaxDeliveries
  BY DEF IInv, RippleOK
<1>5. QED
  BY <1>1, <1>2, <1>3, <1>4 DEF WithinLimits

LEMMA IInvCentres == IInv => ExtentCentred
BY DEF IInv, SceneOK, Centred, ExtentCentred

(* Whatever module is loaded and whatever a beat brings, every list of the
   simulation stays within its limit, every wave, delivery and dead cell is one
   of the scene there is, and a gated field is centred on its live part
   (simulation.cpp:550, :560, :879, :922, :1035 and :1124).                *)
THEOREM SimulationInvHolds == Spec => []SimulationInv
<1>1. IInv => SimulationInv
  BY IInvTypes, IInvLimits, IInvCentres DEF SimulationInv
<1>2. QED
  BY InitInv, NextInv, <1>1, PTL DEF Spec

-----------------------------------------------------------------------------
(* How far a ripple goes.                                                  *)

(* A field with cells, none beyond what it declares.                       *)
Filled(f) ==
  /\ f \in FieldRanges /\ f.begin + 1 <= f.end
  /\ f.end - f.begin <= f.columns * f.rows * f.depth

(* The root is a cell in the middle: no more after it than before.         *)
LEMMA RootInside ==
  ASSUME NEW f, Filled(f)
  PROVE  /\ Root(f) \in Cells(f)
         /\ 2 * (Root(f) - f.begin) \in {f.end - f.begin - 1, f.end - f.begin}
<1> DEFINE b == f.begin  e == f.end  h == (e - b) \div 2  r == Root(f)
<1>1. r = b + h
  BY DEF Root
<1>2. b \in Nat /\ e \in Nat /\ b + 1 <= e /\ e - b \in Nat
  BY DEF Filled, FieldRanges
<1>3. h \in Nat /\ 2 * h \in {e - b - 1, e - b}
  BY <1>2, HalfOf, Zenon
<1>4. Cells(f) = b..(e - 1)
  BY DEF Cells
<1> HIDE DEF h, b, e, r
<1>5. r \in b..(e - 1) /\ 2 * (r - b) \in {e - b - 1, e - b}
  BY <1>1, <1>2, <1>3
<1>6. QED
  BY <1>4, <1>5 DEF b, e, r

(* Along a ring the way through the seam is never the shorter one.         *)
LEMMA RingFar ==
  ASSUME NEW f, Filled(f), OnRing(f), NEW i \in Cells(f)
  PROVE  Far(f, i) = Distance(Root(f), i)
<1> DEFINE b == f.begin  e == f.end  r == Root(f)
<1>1. b \in Nat /\ e \in Nat /\ b + 1 <= e
  BY DEF Filled, FieldRanges
<1>2. r \in b..(e - 1) /\ 2 * (r - b) \in {e - b - 1, e - b}
  BY RootInside DEF Cells
<1>3. i \in b..(e - 1)
  BY DEF Cells
<1>4. Far(f, i) = Least(Distance(r, i), e - b - Distance(r, i))
  BY DEF Far
<1> HIDE DEF b, e, r
<1>5. Distance(r, i) \in Nat /\ Distance(r, i) <= e - b - Distance(r, i)
  BY <1>1, <1>2, <1>3 DEF Distance
<1>6. QED
  BY <1>1, <1>4, <1>5 DEF Least, r

(* Along a ring a step changes the distance by one at most, and every cell
   but the root is beside one that is nearer.                              *)
LEMMA RingSpreads ==
  ASSUME NEW f, Filled(f), OnRing(f), NEW i \in Cells(f),
         NEW j \in Range(RingNeighbours(f, i))
  PROVE  j \in Cells(f) /\ Far(f, j) <= Far(f, i) + 1
<1> DEFINE b == f.begin  e == f.end  r == Root(f)
<1>1. b \in Nat /\ e \in Nat /\ b + 1 <= e
  BY DEF Filled, FieldRanges
<1>2. r \in b..(e - 1) /\ 2 * (r - b) \in {e - b - 1, e - b}
  BY RootInside DEF Cells
<1>3. i \in b..(e - 1)
  BY DEF Cells
<1>4. \/ j = IF i > b THEN i - 1 ELSE e - 1
      \/ j = IF i + 1 < e THEN i + 1 ELSE b
  BY DEF RingNeighbours, Range
<1>5. Cells(f) = b..(e - 1)
  BY DEF Cells
<1> HIDE DEF b, e, r
<1>6. j \in b..(e - 1)
  BY <1>1, <1>3, <1>4
<1>7. Distance(r, j) <= Distance(r, i) + 1
  BY <1>1, <1>2, <1>3, <1>4 DEF Distance
<1>8. Far(f, i) = Distance(r, i) /\ Far(f, j) = Distance(r, j)
  BY <1>5, <1>6, RingFar DEF r
<1>9. QED
  BY <1>5, <1>6, <1>7, <1>8

LEMMA RingParent ==
  ASSUME NEW f, Filled(f), OnRing(f), NEW j \in Cells(f), j # Root(f)
  PROVE  \E p \in Cells(f) : Far(f, p) = Far(f, j) - 1 /\ j \in Range(RingNeighbours(f, p))
<1> DEFINE b == f.begin  e == f.end  r == Root(f)
           p == IF j > r THEN j - 1 ELSE j + 1
<1>1. b \in Nat /\ e \in Nat /\ b + 1 <= e
  BY DEF Filled, FieldRanges
<1>2. r \in b..(e - 1)
  BY RootInside DEF Cells
<1>3. j \in b..(e - 1) /\ j # r
  BY DEF Cells
<1>4. Cells(f) = b..(e - 1)
  BY DEF Cells
<1>5. p \in b..(e - 1) /\ Distance(r, p) = Distance(r, j) - 1
  <2> HIDE DEF b, e, r
  <2>1. QED
    BY <1>1, <1>2, <1>3 DEF Distance
<1>6. Far(f, j) = Distance(r, j) /\ Far(f, p) = Distance(r, p)
  <2> HIDE DEF p
  <2>1. QED
    BY <1>4, <1>5, RingFar
<1>7. j \in Range(RingNeighbours(f, p))
  <2>1. /\ RingNeighbours(f, p)[1] = IF p > b THEN p - 1 ELSE e - 1
        /\ RingNeighbours(f, p)[2] = IF p + 1 < e THEN p + 1 ELSE b
        /\ DOMAIN RingNeighbours(f, p) = {1, 2}
    <3> HIDE DEF p
    <3>1. QED
      BY DEF RingNeighbours
  <2>2. j = RingNeighbours(f, p)[1] \/ j = RingNeighbours(f, p)[2]
    <3> HIDE DEF b, e, r
    <3>1. IF j > r THEN p = j - 1 ELSE p = j + 1
      OBVIOUS
    <3> HIDE DEF p
    <3>2. QED
      BY <1>1, <1>2, <1>3, <2>1, <3>1
  <2> HIDE DEF p
  <2>3. QED
    BY <2>1, <2>2 DEF Range
<1>8. QED
  <2> HIDE DEF p
  <2>1. QED
    BY <1>4, <1>5, <1>6, <1>7

(* The three coordinates of a number and the number they make.             *)
LEMMA LaidOut ==
  ASSUME NEW c \in Positive, NEW r \in Positive,
         NEW x \in 0..(c - 1), NEW y \in 0..(r - 1), NEW z \in Nat,
         NEW k, k = z * c * r + y * c + x
  PROVE  k \in Nat /\ k % c = x /\ (k \div c) % r = y /\ k \div (c * r) = z
<1> DEFINE p == c * r
           q == z * r + y
           w == y * c
<1>1. c \in Nat /\ c > 0 /\ r \in Nat /\ r > 0 /\ x \in Nat /\ y \in Nat
  BY DEF Positive
<1>2. p \in Nat /\ p > 0 /\ q \in Nat /\ w \in Nat /\ z * p \in Nat /\ q * c \in Nat
  BY <1>1
<1>3. z * c * r = z * p /\ q * c = z * p + w
  BY <1>1
<1>4. w + c <= p
  <2>1. (y + 1) * c <= r * c
    BY <1>1
  <2>2. QED
    BY <1>1, <2>1
<1>5. p \in Positive
  BY <1>2 DEF Positive
<1> HIDE DEF p, w
<1>6. k \in Nat /\ k = q * c + x /\ z * p <= k /\ k < z * p + p
  BY <1>1, <1>2, <1>3, <1>4
<1>7. k \div p = z
  BY <1>5, <1>6, QuotientIs
<1>8. q \div r = z /\ q % r = y
  <2>1. q \div r = z
    <3>1. z * r \in Nat
      BY <1>1
    <3>2. z * r <= q /\ q < z * r + r
      BY <1>1, <3>1
    <3> HIDE DEF q
    <3>3. QED
      BY <1>2, <3>2, QuotientIs
  <2>2. q = (q \div r) * r + (q % r) /\ q % r \in 0..(r - 1)
    BY <1>2, IntDivision
  <2>3. q = z * r + y /\ z * r \in Nat
    BY <1>1
  <2> HIDE DEF q
  <2> DEFINE m == q % r
  <2>4. q = z * r + m /\ m \in 0..(r - 1)
    BY <2>1, <2>2
  <2> HIDE DEF m
  <2>5. m = y
    BY <1>1, <2>3, <2>4
  <2>6. QED
    BY <2>1, <2>5 DEF m
<1> HIDE DEF q
<1>9. k \div c = q
  BY <1>1, <1>2, <1>6, QuotientIs
<1>10. k % c = x
  <2> DEFINE m == k % c
  <2>1. k = (k \div c) * c + m /\ m \in 0..(c - 1)
    BY <1>6, IntDivision
  <2> HIDE DEF m
  <2>2. m = x
    BY <1>1, <1>2, <1>6, <1>9, <2>1
  <2>3. QED
    BY <2>2 DEF m
<1>11. QED
  BY <1>6, <1>7, <1>8, <1>9, <1>10 DEF p

LEMMA LaidBack ==
  ASSUME NEW c \in Positive, NEW r \in Positive, NEW k \in Nat
  PROVE  k = (k \div (c * r)) * c * r + ((k \div c) % r) * c + (k % c)
<1> DEFINE q == k \div c
           x == k % c
           z == q \div r
           y == q % r
           p == c * r
<1>1. c \in Nat /\ c > 0 /\ r \in Nat /\ r > 0
  BY DEF Positive
<1>2. q \in Nat /\ x \in 0..(c - 1) /\ k = q * c + x
  BY Division, IntDivision
<1> HIDE DEF q, x
<1>3. z \in Nat /\ y \in 0..(r - 1) /\ q = z * r + y
  BY <1>2, Division, IntDivision
<1> HIDE DEF z, y
<1>4. (z * r + y) * c = z * c * r + y * c /\ z * c * r \in Nat /\ y * c \in Nat
  BY <1>1, <1>3
<1>5. k = z * c * r + y * c + x
  BY <1>1, <1>2, <1>3, <1>4
<1>6. k \div (c * r) = z
  BY <1>2, <1>3, <1>5, LaidOut
<1>7. QED
  BY <1>5, <1>6 DEF q, x, y, z

(* The cells of a lattice are its triples of coordinates.                  *)
Box(f) == (0..(f.columns - 1)) \X (0..(f.rows - 1)) \X (0..(f.depth - 1))
CellAt(f, n) == f.begin + n[3] * f.columns * f.rows + n[2] * f.columns + n[1]
CoordsOf(f, i) == <<XOf(f, i), YOf(f, i), ZOf(f, i)>>

LEMMA CoordsBack ==
  ASSUME NEW f, Filled(f), NEW i \in Cells(f)
  PROVE  CoordsOf(f, i) \in Box(f) /\ CellAt(f, CoordsOf(f, i)) = i
<1> DEFINE c == f.columns  r == f.rows  d == f.depth  k == i - f.begin
           x == k % c  y == (k \div c) % r  z == k \div (c * r)
<1>1. /\ c \in Positive /\ r \in Positive /\ d \in Positive /\ f.begin \in Nat /\ f.end \in Nat
      /\ f.end - f.begin <= c * r * d
  BY DEF Filled, FieldRanges
<1>2. k \in Nat /\ k < c * r * d /\ i \in Nat /\ i = f.begin + k
  <2> DEFINE p == c * r * d
  <2>1. p \in Nat
    BY <1>1 DEF Positive
  <2>2. f.end - f.begin <= p
    BY <1>1
  <2> HIDE DEF p
  <2>3. k \in Nat /\ k < p /\ i \in Nat /\ i = f.begin + k
    BY <1>1, <2>1, <2>2 DEF Cells
  <2>4. QED
    BY <2>3 DEF p
<1>3. x \in 0..(c - 1) /\ y \in 0..(r - 1) /\ z \in Nat
  <2>1. XOf(f, i) = x /\ YOf(f, i) = y /\ ZOf(f, i) = z
    BY DEF XOf, YOf, ZOf
  <2>2. f \in FieldRanges
    BY DEF Filled
  <2> HIDE DEF x, y, z
  <2>3. QED
    BY <2>1, <2>2, Coordinates
<1>4. k = z * c * r + y * c + x
  <2> HIDE DEF c, r, k
  <2>1. QED
    BY <1>1, <1>2, LaidBack
<1> HIDE DEF c, r, d, k, x, y, z
<1>5. c \in Nat /\ c > 0 /\ r \in Nat /\ r > 0 /\ d \in Nat /\ d > 0
  BY <1>1 DEF Positive
<1>6. z <= d - 1
  <2> DEFINE p == c * r
  <2>1. p \in Nat /\ z * c * r = z * p /\ c * r * d = d * p /\ y * c \in Nat /\ x \in Nat /\ z * p \in Nat
    BY <1>3, <1>5
  <2>2. z > d - 1 => d * p <= z * p
    <3>1. p \in Nat
      BY <2>1
    <3> HIDE DEF p
    <3>2. QED
      BY <1>3, <1>5, <3>1
  <2> DEFINE w == y * c  zp == z * p  dp == d * p
  <2>3. dp \in Nat /\ w \in Nat /\ zp \in Nat /\ k = zp + w + x /\ k < dp /\ x \in Nat
    BY <1>2, <1>4, <1>5, <2>1
  <2>4. z > d - 1 => dp <= zp
    BY <2>2
  <2> HIDE DEF p, w, zp, dp
  <2>5. QED
    BY <1>3, <1>5, <2>3, <2>4
<1>7. CoordsOf(f, i) = <<x, y, z>>
  BY DEF CoordsOf, XOf, YOf, ZOf, x, y, z, k, c, r
<1>8. <<x, y, z>> \in Box(f)
  BY <1>3, <1>5, <1>6 DEF Box, c, r, d
<1>9. CellAt(f, <<x, y, z>>) = f.begin + z * c * r + y * c + x
  BY DEF CellAt, c, r
<1>10. f.begin + z * c * r + y * c + x = i
  <2> DEFINE u == z * c * r  w == y * c
  <2>1. u \in Nat /\ w \in Nat /\ x \in Nat /\ k = u + w + x
    BY <1>3, <1>4, <1>5
  <2> HIDE DEF u, w
  <2>2. f.begin + u + w + x = i
    BY <1>1, <1>2, <2>1
  <2>3. QED
    BY <2>2 DEF u, w
<1>11. QED
  BY <1>7, <1>8, <1>9, <1>10

LEMMA CoordsThere ==
  ASSUME NEW f \in FieldRanges, NEW n \in Box(f)
  PROVE  CoordsOf(f, CellAt(f, n)) = n /\ CellAt(f, n) \in Nat
<1> DEFINE c == f.columns  r == f.rows  x == n[1]  y == n[2]  z == n[3]
           k == z * c * r + y * c + x
<1>1. c \in Positive /\ r \in Positive /\ f.begin \in Nat
  BY DEF FieldRanges
<1>2. x \in 0..(c - 1) /\ y \in 0..(r - 1) /\ z \in Nat /\ n = <<x, y, z>>
  <2>1. f.depth \in Nat
    BY DEF FieldRanges, Positive
  <2>2. QED
    BY <2>1 DEF Box
<1>3. CellAt(f, n) = f.begin + z * c * r + y * c + x
  BY DEF CellAt
<1> HIDE DEF c, r, x, y, z
<1>4. c \in Nat /\ c > 0 /\ r \in Nat /\ r > 0
  BY <1>1 DEF Positive
<1>5. CellAt(f, n) \in Nat /\ CellAt(f, n) - f.begin = k
  <2> DEFINE u == z * c * r  w == y * c
  <2>1. u \in Nat /\ w \in Nat /\ x \in Nat
    BY <1>2, <1>4
  <2>2. CellAt(f, n) = f.begin + u + w + x /\ k = u + w + x
    BY <1>3
  <2> HIDE DEF u, w, k
  <2>3. QED
    BY <1>1, <2>1, <2>2
<1>6. k = z * c * r + y * c + x
  OBVIOUS
<1> HIDE DEF k
<1>7. k \in Nat /\ k % c = x /\ (k \div c) % r = y /\ k \div (c * r) = z
  BY <1>1, <1>2, <1>6, LaidOut
<1> DEFINE a == CellAt(f, n)
<1>8. a \in Nat /\ a - f.begin = k
  BY <1>5
<1> HIDE DEF a
<1>9. XOf(f, a) = x /\ YOf(f, a) = y /\ ZOf(f, a) = z
  BY <1>7, <1>8, Zenon DEF XOf, YOf, ZOf, c, r
<1>10. CoordsOf(f, a) = n
  BY <1>2, <1>9, Zenon DEF CoordsOf
<1>11. QED
  BY <1>8, <1>10 DEF a

(* The triples one step away.                                              *)
Around(m) ==
  {<<m[1] - 1, m[2], m[3]>>, <<m[1] + 1, m[2], m[3]>>, <<m[1], m[2] - 1, m[3]>>,
   <<m[1], m[2] + 1, m[3]>>, <<m[1], m[2], m[3] - 1>>, <<m[1], m[2], m[3] + 1>>}

Living(f) == {n \in Box(f) : CellIsLive(f, n[1], n[2]) /\ CellAt(f, n) \in Cells(f)}

(* The neighbours in a lattice, as a set.                                  *)
LEMMA LatticeRange ==
  ASSUME NEW f, Filled(f), NEW i \in Cells(f), i \notin dead
  PROVE  Range(LatticeNeighbours(f, i)) =
           {CellAt(f, n) : n \in Around(CoordsOf(f, i)) \cap Living(f)}
<1> DEFINE x == XOf(f, i)
           y == YOf(f, i)
           z == ZOf(f, i)
           at(n) == f.begin + n[3] * f.columns * f.rows + n[2] * f.columns + n[1]
           inside(n) == /\ n[1] \in 0 .. f.columns - 1
                        /\ n[2] \in 0 .. f.rows - 1
                        /\ n[3] \in 0 .. f.depth - 1
                        /\ CellIsLive(f, n[1], n[2])
                        /\ at(n) \in Cells(f)
           around == << <<x - 1, y, z>>, <<x + 1, y, z>>, <<x, y - 1, z>>, <<x, y + 1, z>>,
                        <<x, y, z - 1>>, <<x, y, z + 1>> >>
           of == {n \in Range(around) : inside(n)}
           kept == Kept(around, of)
           X == Int \X Int \X Int
<1>1. x \in Int /\ y \in Int /\ z \in Int
  BY Coordinates DEF Filled, FieldRanges, Positive
<1>2. LatticeNeighbours(f, i) = [n \in DOMAIN kept |-> at(kept[n])]
  BY DEF LatticeNeighbours
<1>3. \A n : at(n) = CellAt(f, n)
  BY DEF CellAt
<1>4. Around(CoordsOf(f, i)) = Range(around)
  <2> DEFINE s1 == <<x - 1, y, z>>  s2 == <<x + 1, y, z>>  s3 == <<x, y - 1, z>>
             s4 == <<x, y + 1, z>>  s5 == <<x, y, z - 1>>  s6 == <<x, y, z + 1>>
  <2>1. Around(CoordsOf(f, i)) = {s1, s2, s3, s4, s5, s6}
    BY DEF Around, CoordsOf
  <2>2. around = <<s1, s2, s3, s4, s5, s6>>
    OBVIOUS
  <2> HIDE DEF s1, s2, s3, s4, s5, s6, around
  <2>3. Range(around) = {s1, s2, s3, s4, s5, s6}
    <3>1. DOMAIN around = {1, 2, 3, 4, 5, 6}
      BY <2>2
    <3>2. /\ around[1] = s1 /\ around[2] = s2 /\ around[3] = s3
          /\ around[4] = s4 /\ around[5] = s5 /\ around[6] = s6
      BY <2>2
    <3> HIDE DEF s1, s2, s3, s4, s5, s6, around
    <3>3. Range(around) = {around[n] : n \in {1, 2, 3, 4, 5, 6}}
      BY <3>1 DEF Range
    <3>4. \A g : {g[n] : n \in {1, 2, 3, 4, 5, 6}} = {g[1], g[2], g[3], g[4], g[5], g[6]}
      OBVIOUS
    <3>5. QED
      BY <3>2, <3>3, <3>4
  <2>4. QED
    BY <2>1, <2>3
<1> HIDE DEF x, y, z
<1>5. around \in Seq(X)
  BY <1>1
<1>6. of = Around(CoordsOf(f, i)) \cap Living(f)
  <2>1. ASSUME NEW n \in Range(around)
        PROVE  inside(n) <=> n \in Living(f)
    <3>1. n \in X
      BY <1>5, <2>1 DEF Range
    <3>2. n \in Box(f) <=> /\ n[1] \in 0 .. f.columns - 1 /\ n[2] \in 0 .. f.rows - 1
                           /\ n[3] \in 0 .. f.depth - 1
      BY <3>1 DEF Box
    <3> HIDE DEF at
    <3>3. QED
      BY <1>3, <3>2 DEF Living
  <2> HIDE DEF inside, around
  <2>2. QED
    BY <1>4, <2>1
<1> HIDE DEF around, of, X
<1>7. Range(kept) = Range(around) \cap of
  BY <1>5, KeptKeeps
<1>8. Range(around) \cap of = of
  BY DEF of
<1> HIDE DEF kept, at
<1>9. Range([n \in DOMAIN kept |-> at(kept[n])]) = {at(n) : n \in Range(kept)}
  BY DEF Range
<1>10. {at(n) : n \in of} = {CellAt(f, n) : n \in of}
  BY <1>3
<1>11. QED
  BY <1>2, <1>6, <1>7, <1>8, <1>9, <1>10

StepsApart(a, b) == Distance(a[1], b[1]) + Distance(a[2], b[2]) + Distance(a[3], b[3])

LEMMA LatticeFar ==
  ASSUME NEW f, ~OnRing(f), NEW i
  PROVE  Far(f, i) = StepsApart(CoordsOf(f, Root(f)), CoordsOf(f, i))
BY DEF Far, StepsApart, CoordsOf

LEMMA OneStepApart ==
  ASSUME NEW a \in Nat \X Nat \X Nat, NEW m \in Nat \X Nat \X Nat, NEW n \in Around(m)
  PROVE  StepsApart(a, n) <= StepsApart(a, m) + 1 /\ StepsApart(a, m) \in Nat
<1>1. PICK a1 \in Nat, a2 \in Nat, a3 \in Nat : a = <<a1, a2, a3>>
  OBVIOUS
<1>2. PICK m1 \in Nat, m2 \in Nat, m3 \in Nat : m = <<m1, m2, m3>>
  OBVIOUS
<1>3. StepsApart(a, m) = Distance(a1, m1) + Distance(a2, m2) + Distance(a3, m3)
  BY <1>1, <1>2 DEF StepsApart
<1>4. \A n1, n2, n3 : n = <<n1, n2, n3>> =>
        StepsApart(a, n) = Distance(a1, n1) + Distance(a2, n2) + Distance(a3, n3)
  BY <1>1 DEF StepsApart
<1>5. \/ n = <<m1 - 1, m2, m3>> \/ n = <<m1 + 1, m2, m3>> \/ n = <<m1, m2 - 1, m3>>
      \/ n = <<m1, m2 + 1, m3>> \/ n = <<m1, m2, m3 - 1>> \/ n = <<m1, m2, m3 + 1>>
  BY <1>2 DEF Around
<1>6. \A u \in Nat, v \in Nat : /\ Distance(u, v) \in Nat
                               /\ Distance(u, v - 1) \in Nat /\ Distance(u, v + 1) \in Nat
                               /\ Distance(u, v - 1) <= Distance(u, v) + 1
                               /\ Distance(u, v + 1) <= Distance(u, v) + 1
  BY DEF Distance
<1>7. QED
  <2>1. /\ Distance(a1, m1) \in Nat /\ Distance(a2, m2) \in Nat /\ Distance(a3, m3) \in Nat
        /\ Distance(a1, m1 - 1) <= Distance(a1, m1) + 1 /\ Distance(a1, m1 - 1) \in Nat
        /\ Distance(a1, m1 + 1) <= Distance(a1, m1) + 1 /\ Distance(a1, m1 + 1) \in Nat
        /\ Distance(a2, m2 - 1) <= Distance(a2, m2) + 1 /\ Distance(a2, m2 - 1) \in Nat
        /\ Distance(a2, m2 + 1) <= Distance(a2, m2) + 1 /\ Distance(a2, m2 + 1) \in Nat
        /\ Distance(a3, m3 - 1) <= Distance(a3, m3) + 1 /\ Distance(a3, m3 - 1) \in Nat
        /\ Distance(a3, m3 + 1) <= Distance(a3, m3) + 1 /\ Distance(a3, m3 + 1) \in Nat
    BY <1>6
  <2>2. QED
    BY <1>3, <1>4, <1>5, <2>1

(* No coordinate larger, and the cell does not come later.                 *)
LEMMA CellsBelow ==
  ASSUME NEW f \in FieldRanges, NEW n \in Box(f), NEW m \in Box(f),
         n[1] <= m[1], n[2] <= m[2], n[3] <= m[3], CellAt(f, m) \in Cells(f)
  PROVE  CellAt(f, n) \in Cells(f)
<1> DEFINE c == f.columns  r == f.rows  p == c * r
           u == n[3] * p  w == n[2] * c  u1 == m[3] * p  w1 == m[2] * c
<1>1. /\ c \in Nat /\ r \in Nat /\ f.depth \in Nat /\ f.begin \in Nat /\ f.end \in Nat
  BY DEF FieldRanges, Positive
<1>2. /\ n[1] \in Nat /\ n[2] \in Nat /\ n[3] \in Nat
      /\ m[1] \in Nat /\ m[2] \in Nat /\ m[3] \in Nat
  BY <1>1 DEF Box
<1>3. /\ CellAt(f, n) = f.begin + n[3] * c * r + n[2] * c + n[1]
      /\ CellAt(f, m) = f.begin + m[3] * c * r + m[2] * c + m[1]
  BY DEF CellAt
<1> HIDE DEF c, r
<1>4. p \in Nat /\ n[3] * c * r = u /\ m[3] * c * r = u1
  BY <1>1, <1>2
<1> HIDE DEF p
<1>5. u \in Nat /\ w \in Nat /\ u1 \in Nat /\ w1 \in Nat /\ u <= u1 /\ w <= w1
  BY <1>1, <1>2, <1>4
<1>6. CellAt(f, n) = f.begin + u + w + n[1] /\ CellAt(f, m) = f.begin + u1 + w1 + m[1]
  BY <1>3, <1>4
<1> HIDE DEF u, w, u1, w1
<1>7. CellAt(f, m) <= f.end - 1
  BY <1>1 DEF Cells
<1>8. QED
  BY <1>1, <1>2, <1>5, <1>6, <1>7 DEF Cells

(* The live part has with two cells all that lie between.                  *)
LiesBetween(a, m, n) == (a <= n /\ n <= m) \/ (m <= n /\ n <= a)

LEMMA LiveBetween ==
  ASSUME NEW f \in FieldRanges, NEW ax \in Nat, NEW ay \in Nat, NEW mx \in Nat, NEW my \in Nat,
         NEW x \in Nat, NEW y \in Nat, CellIsLive(f, ax, ay), CellIsLive(f, mx, my),
         LiesBetween(ax, mx, x), LiesBetween(ay, my, y)
  PROVE  CellIsLive(f, x, y)
<1>1. /\ f.columnBegin \in Int /\ f.liveColumns \in Int
      /\ f.rowBegin \in Int /\ f.liveRows \in Int
  BY DEF FieldRanges
<1>2. QED
  BY <1>1 DEF CellIsLive, LiesBetween

(* From any living cell there is a step to one that is nearer: down along an
   axis on which it lies beyond the root; if there is none, up along one.  *)
LEMMA OneStepBack ==
  ASSUME NEW f \in FieldRanges, NEW a \in Living(f), NEW m \in Living(f), a # m
  PROVE  \E n \in Living(f) : m \in Around(n) /\ StepsApart(a, n) = StepsApart(a, m) - 1
<1> DEFINE a1 == a[1]  a2 == a[2]  a3 == a[3]  m1 == m[1]  m2 == m[2]  m3 == m[3]
           C == f.columns - 1  R == f.rows - 1  D == f.depth - 1
<1>1. C \in Nat /\ R \in Nat /\ D \in Nat
  BY DEF FieldRanges, Positive
<1>2. /\ a1 \in 0..C /\ a2 \in 0..R /\ a3 \in 0..D /\ a = <<a1, a2, a3>>
      /\ m1 \in 0..C /\ m2 \in 0..R /\ m3 \in 0..D /\ m = <<m1, m2, m3>>
  BY DEF Living, Box
<1>3. /\ CellIsLive(f, a1, a2) /\ CellIsLive(f, m1, m2) /\ a \in Box(f) /\ m \in Box(f)
      /\ CellAt(f, a) \in Cells(f) /\ CellAt(f, m) \in Cells(f)
  BY DEF Living
<1>4. StepsApart(a, m) = Distance(a1, m1) + Distance(a2, m2) + Distance(a3, m3)
  BY DEF StepsApart
<1>5. Box(f) = (0..C) \X (0..R) \X (0..D)
  BY DEF Box
<1> HIDE DEF C, R, D
<1>6. ASSUME NEW x \in 0..C, NEW y \in 0..R, NEW z \in 0..D,
             LiesBetween(a1, m1, x), LiesBetween(a2, m2, y),
             \/ x <= a1 /\ y <= a2 /\ z <= a3
             \/ x <= m1 /\ y <= m2 /\ z <= m3
      PROVE  /\ <<x, y, z>> \in Living(f)
             /\ StepsApart(a, <<x, y, z>>) = Distance(a1, x) + Distance(a2, y) + Distance(a3, z)
  <2> DEFINE n == <<x, y, z>>
  <2>1. n \in Box(f) /\ n[1] = x /\ n[2] = y /\ n[3] = z
    BY <1>5
  <2>2. StepsApart(a, n) = Distance(a1, x) + Distance(a2, y) + Distance(a3, z)
    BY DEF StepsApart
  <2> HIDE DEF n
  <2>3. CellIsLive(f, x, y)
    <3>1. /\ a1 \in Nat /\ a2 \in Nat /\ m1 \in Nat /\ m2 \in Nat /\ x \in Nat /\ y \in Nat
      BY <1>1, <1>2
    <3> HIDE DEF a1, a2, m1, m2
    <3>2. QED
      BY <1>3, <1>6, <3>1, LiveBetween
  <2>4. CellAt(f, n) \in Cells(f)
    BY <1>3, <1>6, <2>1, CellsBelow
  <2>5. n \in Living(f)
    BY <2>1, <2>3, <2>4 DEF Living
  <2>6. QED
    BY <2>2, <2>5 DEF n
<1>7. \A x, y, z : Around(<<x, y, z>>) =
        {<<x - 1, y, z>>, <<x + 1, y, z>>, <<x, y - 1, z>>,
         <<x, y + 1, z>>, <<x, y, z - 1>>, <<x, y, z + 1>>}
  BY DEF Around
<1> HIDE DEF a1, a2, a3, m1, m2, m3
<1>8. CASE m1 > a1
  <2> DEFINE n == <<m1 - 1, m2, m3>>
  <2>1. m1 - 1 \in 0..C /\ LiesBetween(a1, m1, m1 - 1) /\ LiesBetween(a2, m2, m2)
    BY <1>1, <1>2, <1>8 DEF LiesBetween
  <2>2. n \in Living(f)
        /\ StepsApart(a, n) = Distance(a1, m1 - 1) + Distance(a2, m2) + Distance(a3, m3)
    BY <1>1, <1>2, <1>6, <2>1
  <2>3. m \in Around(n)
    BY <1>1, <1>2, <1>7
  <2> HIDE DEF n
  <2>4. StepsApart(a, n) = StepsApart(a, m) - 1
    BY <1>1, <1>2, <1>4, <1>8, <2>2 DEF Distance
  <2>5. QED
    BY <2>2, <2>3, <2>4
<1>9. CASE m2 > a2
  <2> DEFINE n == <<m1, m2 - 1, m3>>
  <2>1. m2 - 1 \in 0..R /\ LiesBetween(a2, m2, m2 - 1) /\ LiesBetween(a1, m1, m1)
    BY <1>1, <1>2, <1>9 DEF LiesBetween
  <2>2. n \in Living(f)
        /\ StepsApart(a, n) = Distance(a1, m1) + Distance(a2, m2 - 1) + Distance(a3, m3)
    BY <1>1, <1>2, <1>6, <2>1
  <2>3. m \in Around(n)
    BY <1>1, <1>2, <1>7
  <2> HIDE DEF n
  <2>4. StepsApart(a, n) = StepsApart(a, m) - 1
    BY <1>1, <1>2, <1>4, <1>9, <2>2 DEF Distance
  <2>5. QED
    BY <2>2, <2>3, <2>4
<1>10. CASE m3 > a3
  <2> DEFINE n == <<m1, m2, m3 - 1>>
  <2>1. m3 - 1 \in 0..D /\ LiesBetween(a1, m1, m1) /\ LiesBetween(a2, m2, m2)
    BY <1>1, <1>2, <1>10 DEF LiesBetween
  <2>2. n \in Living(f)
        /\ StepsApart(a, n) = Distance(a1, m1) + Distance(a2, m2) + Distance(a3, m3 - 1)
    BY <1>1, <1>2, <1>6, <2>1
  <2>3. m \in Around(n)
    BY <1>1, <1>2, <1>7
  <2> HIDE DEF n
  <2>4. StepsApart(a, n) = StepsApart(a, m) - 1
    BY <1>1, <1>2, <1>4, <1>10, <2>2 DEF Distance
  <2>5. QED
    BY <2>2, <2>3, <2>4
<1>11. CASE m1 <= a1 /\ m2 <= a2 /\ m3 <= a3 /\ m1 < a1
  <2> DEFINE n == <<m1 + 1, m2, m3>>
  <2>1. m1 + 1 \in 0..C /\ m1 + 1 <= a1 /\ LiesBetween(a1, m1, m1 + 1) /\ LiesBetween(a2, m2, m2)
    BY <1>1, <1>2, <1>11 DEF LiesBetween
  <2>2. n \in Living(f)
        /\ StepsApart(a, n) = Distance(a1, m1 + 1) + Distance(a2, m2) + Distance(a3, m3)
    BY <1>2, <1>6, <1>11, <2>1
  <2>3. m \in Around(n)
    BY <1>1, <1>2, <1>7
  <2> HIDE DEF n
  <2>4. StepsApart(a, n) = StepsApart(a, m) - 1
    BY <1>1, <1>2, <1>4, <1>11, <2>2 DEF Distance
  <2>5. QED
    BY <2>2, <2>3, <2>4
<1>12. CASE m1 <= a1 /\ m2 <= a2 /\ m3 <= a3 /\ m2 < a2
  <2> DEFINE n == <<m1, m2 + 1, m3>>
  <2>1. m2 + 1 \in 0..R /\ m2 + 1 <= a2 /\ LiesBetween(a2, m2, m2 + 1) /\ LiesBetween(a1, m1, m1)
    BY <1>1, <1>2, <1>12 DEF LiesBetween
  <2>2. n \in Living(f)
        /\ StepsApart(a, n) = Distance(a1, m1) + Distance(a2, m2 + 1) + Distance(a3, m3)
    BY <1>2, <1>6, <1>12, <2>1
  <2>3. m \in Around(n)
    BY <1>1, <1>2, <1>7
  <2> HIDE DEF n
  <2>4. StepsApart(a, n) = StepsApart(a, m) - 1
    BY <1>1, <1>2, <1>4, <1>12, <2>2 DEF Distance
  <2>5. QED
    BY <2>2, <2>3, <2>4
<1>13. CASE m1 <= a1 /\ m2 <= a2 /\ m3 <= a3 /\ m3 < a3
  <2> DEFINE n == <<m1, m2, m3 + 1>>
  <2>1. m3 + 1 \in 0..D /\ m3 + 1 <= a3 /\ LiesBetween(a1, m1, m1) /\ LiesBetween(a2, m2, m2)
    BY <1>1, <1>2, <1>13 DEF LiesBetween
  <2>2. n \in Living(f)
        /\ StepsApart(a, n) = Distance(a1, m1) + Distance(a2, m2) + Distance(a3, m3 + 1)
    BY <1>2, <1>6, <1>13, <2>1
  <2>3. m \in Around(n)
    BY <1>1, <1>2, <1>7
  <2> HIDE DEF n
  <2>4. StepsApart(a, n) = StepsApart(a, m) - 1
    BY <1>1, <1>2, <1>4, <1>13, <2>2 DEF Distance
  <2>5. QED
    BY <2>2, <2>3, <2>4
<1>14. QED
  BY <1>1, <1>2, <1>8, <1>9, <1>10, <1>11, <1>12, <1>13

(* The dead of a field are those its extent leaves out.                    *)
DeadHere(f) == \A k \in Cells(f) : k \in dead <=> ~CellIsLive(f, XOf(f, k), YOf(f, k))

LEMMA LivingCells ==
  ASSUME NEW f, Filled(f), DeadHere(f)
  PROVE  /\ \A i \in Cells(f) : i \notin dead => CoordsOf(f, i) \in Living(f)
         /\ \A n \in Living(f) : CellAt(f, n) \in Cells(f) /\ CellAt(f, n) \notin dead
                                 /\ CoordsOf(f, CellAt(f, n)) = n
<1>1. f \in FieldRanges
  BY DEF Filled
<1>2. ASSUME NEW i \in Cells(f), i \notin dead
      PROVE  CoordsOf(f, i) \in Living(f)
  <2>1. CoordsOf(f, i) \in Box(f) /\ CellAt(f, CoordsOf(f, i)) = i
    BY CoordsBack
  <2>2. CoordsOf(f, i)[1] = XOf(f, i) /\ CoordsOf(f, i)[2] = YOf(f, i)
    BY DEF CoordsOf
  <2>3. CellIsLive(f, XOf(f, i), YOf(f, i))
    BY <1>2 DEF DeadHere
  <2>4. QED
    BY <2>1, <2>2, <2>3 DEF Living
<1>3. ASSUME NEW n \in Living(f)
      PROVE  /\ CellAt(f, n) \in Cells(f) /\ CellAt(f, n) \notin dead
             /\ CoordsOf(f, CellAt(f, n)) = n
  <2>1. n \in Box(f) /\ CellIsLive(f, n[1], n[2]) /\ CellAt(f, n) \in Cells(f)
    BY DEF Living
  <2>2. CoordsOf(f, CellAt(f, n)) = n
    BY <1>1, <2>1, CoordsThere
  <2>3. XOf(f, CellAt(f, n)) = n[1] /\ YOf(f, CellAt(f, n)) = n[2]
    BY <2>2 DEF CoordsOf
  <2>4. CellAt(f, n) \notin dead
    BY <2>1, <2>3 DEF DeadHere
  <2>5. QED
    BY <2>1, <2>2, <2>4
<1>4. QED
  BY <1>2, <1>3

LEMMA LatticeSpreads ==
  ASSUME NEW f, Filled(f), DeadHere(f), ~OnRing(f), NEW i \in Cells(f), i \notin dead,
         NEW j \in Range(LatticeNeighbours(f, i))
  PROVE  j \in Cells(f) /\ j \notin dead /\ Far(f, j) <= Far(f, i) + 1
<1>1. PICK n \in Around(CoordsOf(f, i)) \cap Living(f) : j = CellAt(f, n)
  BY LatticeRange
<1>2. j \in Cells(f) /\ j \notin dead /\ CoordsOf(f, j) = n
  BY <1>1, LivingCells
<1>3. Box(f) \subseteq Nat \X Nat \X Nat
  BY DEF Box, Filled, FieldRanges, Positive
<1>4. CoordsOf(f, Root(f)) \in Nat \X Nat \X Nat /\ CoordsOf(f, i) \in Nat \X Nat \X Nat
  BY <1>3, RootInside, CoordsBack
<1>5. StepsApart(CoordsOf(f, Root(f)), n) <= StepsApart(CoordsOf(f, Root(f)), CoordsOf(f, i)) + 1
  BY <1>1, <1>4, OneStepApart
<1>6. QED
  BY <1>2, <1>5, LatticeFar

LEMMA LatticeParent ==
  ASSUME NEW f, Filled(f), DeadHere(f), ~OnRing(f), Root(f) \notin dead,
         NEW j \in Cells(f), j \notin dead, j # Root(f)
  PROVE  \E p \in Cells(f) : /\ p \notin dead /\ Far(f, p) = Far(f, j) - 1
                             /\ j \in Range(LatticeNeighbours(f, p))
<1> DEFINE a == CoordsOf(f, Root(f))  m == CoordsOf(f, j)
<1>1. /\ a \in Living(f) /\ CellAt(f, a) = Root(f)
      /\ m \in Living(f) /\ CellAt(f, m) = j
  BY RootInside, CoordsBack, LivingCells
<1>2. f \in FieldRanges
  BY DEF Filled
<1>3. Far(f, j) = StepsApart(a, m)
  BY LatticeFar
<1>4. \A i : Far(f, i) = StepsApart(a, CoordsOf(f, i))
  BY LatticeFar
<1> HIDE DEF a, m
<1>5. PICK n \in Living(f) : m \in Around(n) /\ StepsApart(a, n) = StepsApart(a, m) - 1
  BY <1>1, <1>2, OneStepBack
<1> DEFINE p == CellAt(f, n)
<1>6. p \in Cells(f) /\ p \notin dead /\ CoordsOf(f, p) = n
  BY LivingCells
<1> HIDE DEF p
<1>7. Far(f, p) = Far(f, j) - 1
  BY <1>3, <1>4, <1>5, <1>6
<1>8. j \in Range(LatticeNeighbours(f, p))
  BY <1>1, <1>5, <1>6, LatticeRange
<1>9. QED
  BY <1>6, <1>7, <1>8

(* Each cell is of one field.                                              *)
LEMMA FieldsApart ==
  ASSUME NEW fs \in Seq(FieldRanges), NEW n \in Nat, InOrder(fs, n),
         NEW f \in DOMAIN fs, NEW g \in DOMAIN fs, f < g
  PROVE  fs[f].end <= fs[g].begin
<1> DEFINE m == g - f - 1
           B(h) == fs[h].begin
           E(h) == fs[h].end
           P == {k \in 0..m : E(f) <= B(f + 1 + k)}
<1>1. DOMAIN fs = 1..Len(fs) /\ Len(fs) \in Nat
  OBVIOUS
<1>2. \A h \in DOMAIN fs : B(h) \in Nat /\ E(h) \in Nat
  <2>1. \A h \in DOMAIN fs : fs[h] \in FieldRanges
    OBVIOUS
  <2>2. QED
    BY <2>1 DEF FieldRanges
<1>3. \A h \in DOMAIN fs : B(h) + 1 <= E(h) /\ (h > 1 => B(h) >= E(h - 1))
  BY DEF InOrder
<1> HIDE DEF B, E
<1>4. m \in Nat /\ f \in Nat /\ g \in Nat /\ f + 1 + m = g
  BY <1>1
<1>5. 0 \in P
  <2>1. f + 1 \in DOMAIN fs /\ f + 1 > 1 /\ f + 1 - 1 = f /\ f + 1 + 0 = f + 1
    BY <1>1
  <2>2. B(f + 1) >= E(f) /\ B(f + 1) \in Nat /\ E(f) \in Nat
    BY <1>2, <1>3, <2>1
  <2>3. QED
    BY <1>4, <2>1, <2>2
<1>6. ASSUME NEW k \in 1..m, k - 1 \in P
      PROVE  k \in P
  <2> DEFINE h == f + k
  <2>1. h \in DOMAIN fs /\ h + 1 \in DOMAIN fs /\ h + 1 > 1 /\ h + 1 - 1 = h
    BY <1>1, <1>4
  <2>2. f + 1 + (k - 1) = h /\ f + 1 + k = h + 1
    <3>1. k \in Nat
      OBVIOUS
    <3>2. \A u \in Nat, v \in Nat : u + 1 + (v - 1) = u + v /\ u + 1 + v = u + v + 1
      OBVIOUS
    <3>3. QED
      BY <1>4, <3>1, <3>2
  <2>3. E(f) <= B(h)
    BY <1>6, <2>2
  <2> HIDE DEF h
  <2>4. B(h) + 1 <= E(h) /\ B(h + 1) >= E(h)
    BY <1>3, <2>1
  <2>5. E(f) \in Nat /\ B(h) \in Nat /\ E(h) \in Nat /\ B(h + 1) \in Nat
    BY <1>2, <2>1
  <2>6. E(f) <= B(h + 1)
    BY <2>3, <2>4, <2>5
  <2>7. QED
    BY <1>4, <2>2, <2>6
<1>7. \A k \in 0..m : k \in P
  <2> HIDE DEF P, m
  <2>1. QED
    BY <1>4, <1>5, <1>6, UpTo
<1>8. m \in P
  <2> HIDE DEF P
  <2>1. QED
    BY <1>4, <1>7
<1>9. E(f) <= B(g)
  BY <1>4, <1>8
<1>10. QED
  BY <1>9 DEF B, E

LEMMA OneField ==
  ASSUME NEW fs \in Seq(FieldRanges), NEW n \in Nat, InOrder(fs, n),
         NEW f \in DOMAIN fs, NEW g \in DOMAIN fs, NEW i \in Cells(fs[f]), i \in Cells(fs[g])
  PROVE  f = g
<1>1. f \in Nat /\ g \in Nat
  OBVIOUS
<1>2. \A h \in DOMAIN fs : fs[h].begin \in Nat /\ fs[h].end \in Nat
  <2>1. \A h \in DOMAIN fs : fs[h] \in FieldRanges
    OBVIOUS
  <2>2. QED
    BY <2>1 DEF FieldRanges
<1>3. i \in Int /\ fs[f].begin <= i /\ i < fs[f].end /\ fs[g].begin <= i /\ i < fs[g].end
  BY <1>2 DEF Cells
<1>4. ~(f < g) /\ ~(g < f)
  <2>1. f < g => fs[f].end <= fs[g].begin
    BY FieldsApart
  <2>2. g < f => fs[g].end <= fs[f].begin
    BY FieldsApart
  <2>3. QED
    BY <1>2, <1>3, <2>1, <2>2
<1>5. QED
  BY <1>1, <1>4

(* A scene whose dead are those that the extents of its fields leave out.  *)
InShape ==
  /\ fields \in Seq(FieldRanges) /\ entities \in Nat /\ InOrder(fields, entities)
  /\ dead = AllDead(fields) /\ reach \in Nat

(* The neighbours of a cell of one field. *)
Beside(f, i) ==
  IF f.topology = "none" THEN <<>>
  ELSE IF OnRing(f) THEN RingNeighbours(f, i) ELSE LatticeNeighbours(f, i)

LEMMA InField ==
  ASSUME InShape, NEW f \in DOMAIN fields
  PROVE  /\ Filled(fields[f]) /\ DeadHere(fields[f])
         /\ \A i \in Cells(fields[f]) : Neighbours(i) = Beside(fields[f], i)
<1>1. fields \in Seq(FieldRanges) /\ entities \in Nat /\ InOrder(fields, entities)
      /\ dead = AllDead(fields)
  BY DEF InShape
<1>2. Filled(fields[f])
  <2>1. fields[f] \in FieldRanges
    BY <1>1
  <2>2. QED
    BY <1>1, <2>1 DEF Filled, InOrder
<1>3. ASSUME NEW i \in Cells(fields[f])
      PROVE  FieldOf(i) = {f}
  <2>1. \A g \in DOMAIN fields : i \in Cells(fields[g]) => g = f
    BY <1>1, OneField
  <2>2. QED
    BY <2>1 DEF FieldOf
<1>4. DeadHere(fields[f])
  <2>1. SUFFICES ASSUME NEW k \in Cells(fields[f])
                 PROVE  k \in dead <=> ~CellIsLive(fields[f], XOf(fields[f], k), YOf(fields[f], k))
    BY DEF DeadHere
  <2>2. \A g \in DOMAIN fields : k \in Cells(fields[g]) => g = f
    BY <1>1, OneField
  <2>3. k \in dead <=> \E g \in DOMAIN fields : k \in DeadCells(fields[g])
    BY <1>1 DEF AllDead
  <2>4. \A g \in DOMAIN fields : k \in DeadCells(fields[g]) =>
            k \in Cells(fields[g]) /\ ~CellIsLive(fields[g], XOf(fields[g], k), YOf(fields[g], k))
    BY DEF DeadCells
  <2>5. k \in DeadCells(fields[f]) <=>
            ~CellIsLive(fields[f], XOf(fields[f], k), YOf(fields[f], k))
    BY DEF DeadCells
  <2>6. QED
    BY <2>2, <2>3, <2>4, <2>5
<1>5. ASSUME NEW i \in Cells(fields[f])
      PROVE  Neighbours(i) = Beside(fields[f], i)
  <2>1. FieldOf(i) = {f} /\ (CHOOSE g \in {f} : TRUE) = f
    BY <1>3
  <2>2. QED
    BY <2>1 DEF Neighbours, Beside
<1>6. QED
  BY <1>2, <1>4, <1>5

-----------------------------------------------------------------------------
(* The ball of a field.                                                    *)

LEMMA FarIs ==
  ASSUME NEW f, Filled(f), NEW i \in Cells(f)
  PROVE  Far(f, i) \in Nat /\ (Far(f, i) = 0 <=> i = Root(f))
<1>1. Root(f) \in Cells(f)
  BY RootInside
<1>2. f.begin \in Nat /\ f.end \in Nat
  BY DEF Filled, FieldRanges
<1>3. CASE OnRing(f)
  <2>1. Far(f, i) = Distance(Root(f), i)
    BY <1>3, RingFar
  <2>2. Root(f) \in Int /\ i \in Int
    BY <1>1, <1>2 DEF Cells
  <2> DEFINE r == Root(f)
  <2> HIDE DEF r
  <2>3. QED
    BY <2>1, <2>2 DEF Distance, r
<1>4. CASE ~OnRing(f)
  <2> DEFINE a == CoordsOf(f, Root(f))  m == CoordsOf(f, i)
  <2>1. Far(f, i) = StepsApart(a, m)
    BY <1>4, LatticeFar
  <2>2. a \in Box(f) /\ m \in Box(f) /\ CellAt(f, a) = Root(f) /\ CellAt(f, m) = i
    BY <1>1, CoordsBack
  <2>3. Box(f) \subseteq Nat \X Nat \X Nat
    BY DEF Box, Filled, FieldRanges, Positive
  <2> HIDE DEF a, m
  <2>4. /\ a[1] \in Nat /\ a[2] \in Nat /\ a[3] \in Nat /\ a = <<a[1], a[2], a[3]>>
        /\ m[1] \in Nat /\ m[2] \in Nat /\ m[3] \in Nat /\ m = <<m[1], m[2], m[3]>>
    BY <2>2, <2>3
  <2>5. StepsApart(a, m) \in Nat /\ (StepsApart(a, m) = 0 <=> a[1] = m[1] /\ a[2] = m[2] /\ a[3] = m[3])
    BY <2>4 DEF StepsApart, Distance
  <2>6. StepsApart(a, m) = 0 <=> a = m
    BY <2>4, <2>5
  <2>7. a = m <=> i = Root(f)
    BY <2>2 DEF a, m
  <2>8. QED
    BY <2>1, <2>5, <2>6, <2>7
<1>5. QED
  BY <1>3, <1>4

Furthest == Least(MaxHops, reach)

LEMMA BallIn ==
  ASSUME NEW f, Filled(f), reach \in Nat, NEW i \in Ball(f)
  PROVE  ~f.wave /\ i \in Cells(f) /\ Far(f, i) <= Furthest
<1>1. ~f.wave /\ i \in Cells(f)
  BY RootInside DEF Ball
<1>2. i = Root(f) \/ Far(f, i) <= Furthest
  BY DEF Ball, Furthest
<1>3. 0 <= Furthest
  BY Limits DEF Furthest, Least
<1>4. QED
  BY <1>1, <1>2, <1>3, FarIs

(* A step from within the ball stays in it unless it was on its rim, and
   every cell of it is a step from one that is nearer.                     *)
LEMMA BallSpreads ==
  ASSUME NEW f, Filled(f), DeadHere(f), reach \in Nat, NEW i \in Ball(f), Far(f, i) < Furthest,
         NEW j \in Range(Beside(f, i))
  PROVE  j \in Ball(f) /\ Far(f, j) <= Far(f, i) + 1
<1>1. ~f.wave /\ i \in Cells(f) /\ Far(f, i) \in Nat
  BY BallIn, FarIs
<1>2. f.topology # "none"
  <2>1. Range(<<>>) = {}
    BY DEF Range
  <2>2. QED
    BY <2>1 DEF Beside
<1>3. Furthest \in Nat
  BY Limits DEF Furthest, Least
<1>4. CASE OnRing(f)
  <2>1. j \in Cells(f) /\ Far(f, j) <= Far(f, i) + 1
    BY <1>1, <1>2, <1>4, RingSpreads DEF Beside
  <2>2. Far(f, j) <= Furthest
    <3>1. Far(f, j) \in Nat
      BY <2>1, FarIs
    <3>2. QED
      BY <1>1, <1>3, <2>1, <3>1
  <2>3. QED
    BY <1>1, <1>2, <1>4, <2>1, <2>2 DEF Ball, Furthest
<1>5. CASE ~OnRing(f)
  <2>1. i \notin dead
    <3>1. j \in Range(LatticeNeighbours(f, i))
      BY <1>2, <1>5 DEF Beside
    <3>2. i \in dead => LatticeNeighbours(f, i) = <<>>
      BY DEF LatticeNeighbours
    <3>3. Range(<<>>) = {}
      BY DEF Range
    <3>4. QED
      BY <3>1, <3>2, <3>3
  <2>2. Root(f) \notin dead
    BY <1>1, <1>5, <2>1 DEF Ball
  <2>3. j \in Cells(f) /\ j \notin dead /\ Far(f, j) <= Far(f, i) + 1
    BY <1>1, <1>2, <1>5, <2>1, LatticeSpreads DEF Beside
  <2>4. Far(f, j) <= Furthest
    <3>1. Far(f, j) \in Nat
      BY <2>3, FarIs
    <3>2. QED
      BY <1>1, <1>3, <2>3, <3>1
  <2>5. QED
    BY <1>1, <1>2, <1>5, <2>2, <2>3, <2>4 DEF Ball, Furthest
<1>6. QED
  BY <1>4, <1>5

LEMMA BallParent ==
  ASSUME NEW f, Filled(f), DeadHere(f), reach \in Nat, NEW j \in Ball(f), j # Root(f)
  PROVE  \E p \in Ball(f) : Far(f, p) = Far(f, j) - 1 /\ j \in Range(Beside(f, p))
<1>1. ~f.wave /\ j \in Cells(f) /\ Far(f, j) \in Nat /\ Far(f, j) <= Furthest
  BY BallIn, FarIs
<1>2. f.topology # "none"
  BY DEF Ball
<1>3. Furthest \in Nat
  BY Limits DEF Furthest, Least
<1>4. CASE OnRing(f)
  <2>1. PICK p \in Cells(f) : Far(f, p) = Far(f, j) - 1 /\ j \in Range(RingNeighbours(f, p))
    BY <1>1, <1>4, RingParent
  <2>2. Far(f, p) <= Furthest
    BY <1>1, <1>3, <2>1
  <2>3. p \in Ball(f) /\ Beside(f, p) = RingNeighbours(f, p)
    BY <1>1, <1>2, <1>4, <2>2 DEF Ball, Furthest, Beside
  <2>4. QED
    BY <2>1, <2>3
<1>5. CASE ~OnRing(f)
  <2>1. Root(f) \notin dead /\ j \notin dead
    BY <1>1, <1>5 DEF Ball
  <2>2. PICK p \in Cells(f) : /\ p \notin dead /\ Far(f, p) = Far(f, j) - 1
                              /\ j \in Range(LatticeNeighbours(f, p))
    BY <1>1, <1>5, <2>1, LatticeParent
  <2>3. Far(f, p) <= Furthest
    BY <1>1, <1>3, <2>2
  <2>4. p \in Ball(f) /\ Beside(f, p) = LatticeNeighbours(f, p)
    BY <1>1, <1>2, <1>5, <2>1, <2>2, <2>3 DEF Ball, Furthest, Beside
  <2>5. QED
    BY <2>2, <2>4
<1>6. QED
  BY <1>4, <1>5

-----------------------------------------------------------------------------
(* Cells and hops.                                                         *)

(* A ripple is to reach a cell, at that many hops. *)
Lies(i, k) == \E f \in DOMAIN fields : i \in Ball(fields[f]) /\ k = Far(fields[f], i)

LEMMA LiesOnce ==
  ASSUME InShape, NEW i, NEW k, Lies(i, k)
  PROVE  k \in Nat /\ k <= Furthest /\ \A m : Lies(i, m) => m = k
<1>1. PICK f \in DOMAIN fields : i \in Ball(fields[f]) /\ k = Far(fields[f], i)
  BY DEF Lies
<1>2. \A g \in DOMAIN fields : i \in Ball(fields[g]) =>
        /\ i \in Cells(fields[g]) /\ Far(fields[g], i) <= Furthest /\ Far(fields[g], i) \in Nat
  <2>1. reach \in Nat
    BY DEF InShape
  <2>2. QED
    BY <2>1, InField, BallIn, FarIs
<1>3. \A g \in DOMAIN fields : i \in Ball(fields[g]) => g = f
  BY <1>1, <1>2, OneField DEF InShape
<1>4. QED
  BY <1>1, <1>2, <1>3 DEF Lies

LEMMA LiesAtRoots ==
  ASSUME InShape, NEW i
  PROVE  Lies(i, 0) <=> \E f \in DOMAIN fields : ~fields[f].wave /\ i = Root(fields[f])
<1>1. reach \in Nat
  BY DEF InShape
<1>2. ASSUME NEW f \in DOMAIN fields, ~fields[f].wave, i = Root(fields[f])
      PROVE  Lies(i, 0)
  <2>1. i \in Ball(fields[f])
    BY <1>2 DEF Ball
  <2>2. Far(fields[f], i) = 0
    BY <1>2, InField, RootInside, FarIs
  <2>3. QED
    BY <2>1, <2>2 DEF Lies
<1>3. ASSUME Lies(i, 0)
      PROVE  \E f \in DOMAIN fields : ~fields[f].wave /\ i = Root(fields[f])
  <2>1. PICK f \in DOMAIN fields : i \in Ball(fields[f]) /\ 0 = Far(fields[f], i)
    BY <1>3 DEF Lies
  <2>2. ~fields[f].wave /\ i \in Cells(fields[f])
    BY <1>1, <2>1, InField, BallIn
  <2>3. i = Root(fields[f])
    BY <2>1, <2>2, InField, FarIs
  <2>4. QED
    BY <2>2, <2>3
<1>4. QED
  BY <1>2, <1>3

LEMMA LiesSpreads ==
  ASSUME InShape, NEW i, NEW k, Lies(i, k), k < Furthest, NEW j \in Range(Neighbours(i))
  PROVE  \E m : Lies(j, m) /\ m <= k + 1
<1>1. reach \in Nat
  BY DEF InShape
<1>2. PICK f \in DOMAIN fields : i \in Ball(fields[f]) /\ k = Far(fields[f], i)
  BY DEF Lies
<1>3. Filled(fields[f]) /\ DeadHere(fields[f]) /\ i \in Cells(fields[f])
  BY <1>1, <1>2, InField, BallIn
<1>4. Neighbours(i) = Beside(fields[f], i)
  BY <1>3, InField
<1>5. j \in Ball(fields[f]) /\ Far(fields[f], j) <= k + 1
  BY <1>1, <1>2, <1>3, <1>4, BallSpreads
<1>6. QED
  BY <1>5 DEF Lies

LEMMA LiesParent ==
  ASSUME InShape, NEW j, NEW k, Lies(j, k), k # 0
  PROVE  \E p : Lies(p, k - 1) /\ j \in Range(Neighbours(p))
<1>1. reach \in Nat
  BY DEF InShape
<1>2. PICK f \in DOMAIN fields : j \in Ball(fields[f]) /\ k = Far(fields[f], j)
  BY DEF Lies
<1>3. Filled(fields[f]) /\ DeadHere(fields[f]) /\ j \in Cells(fields[f])
  BY <1>1, <1>2, InField, BallIn
<1>4. j # Root(fields[f])
  BY <1>2, <1>3, FarIs
<1>5. PICK p \in Ball(fields[f]) : /\ Far(fields[f], p) = k - 1
                                   /\ j \in Range(Beside(fields[f], p))
  BY <1>1, <1>2, <1>3, <1>4, BallParent
<1>6. p \in Cells(fields[f])
  BY <1>1, <1>3, BallIn
<1>7. Neighbours(p) = Beside(fields[f], p)
  BY <1>6, InField
<1>8. QED
  BY <1>5, <1>7 DEF Lies

-----------------------------------------------------------------------------
(* The ripple.                                                             *)

(* A cell that is next: a root, or beside one that has been reached.       *)
IsNext(r, j, k) ==
  /\ Lies(j, k) /\ j \notin DOMAIN r
  /\ k = 0 \/ \E p \in DOMAIN r : Lies(p, k - 1) /\ j \in Range(Neighbours(p))

(* The queue is of cells to be reached, none earlier than it may be, by hops
   that lie within one of each other; what was reached has its distance and
   came before what waits; and every cell that is next waits.              *)
Entered(q) ==
  \A n \in DOMAIN q : q[n].hop <= Furthest /\ \E k : Lies(q[n].receiver, k) /\ k <= q[n].hop
Ordered(q) ==
  \A m, n \in DOMAIN q : m <= n => q[m].hop <= q[n].hop /\ q[n].hop <= q[m].hop + 1
Right(r) == \A i \in DOMAIN r : Lies(i, r[i])
Before(q, r) == \A i \in DOMAIN r, n \in DOMAIN q : r[i] <= q[n].hop
Waiting(q, r) ==
  DOMAIN r # {} \/ q # <<>> =>
    \A j, k : IsNext(r, j, k) => \E n \in DOMAIN q : q[n].receiver = j /\ q[n].hop = k

Goes(q, r) ==
  /\ Entered(q) /\ Ordered(q) /\ Right(r) /\ Before(q, r) /\ Waiting(q, r)

(* What lies nearer than anything that waits has been reached: the nearest
   that has not would be next, so it would wait.                           *)
LEMMA Earlier ==
  ASSUME InShape, NEW q, NEW r, Goes(q, r), DOMAIN r # {} \/ q # <<>>,
         NEW h \in Nat, \A n \in DOMAIN q : h <= q[n].hop /\ q[n].hop \in Nat,
         NEW j, NEW k, Lies(j, k), k < h
  PROVE  j \in DOMAIN r
<1> DEFINE T == {m \in Nat : m < h /\ \E i : Lies(i, m) /\ i \notin DOMAIN r}
<1>1. SUFFICES ASSUME T # {} PROVE FALSE
  <2>1. k \in Nat
    BY LiesOnce
  <2>2. QED
    BY <1>1, <2>1
<1>2. PICK m \in T : \A o \in T : m <= o
  <2>1. T \subseteq Nat
    OBVIOUS
  <2> HIDE DEF T
  <2>2. QED
    BY <1>1, <2>1, LeastNatural
<1>3. PICK i : Lies(i, m) /\ i \notin DOMAIN r
  BY <1>2
<1>4. m \in Nat /\ m < h
  BY <1>2
<1>5. IsNext(r, i, m)
  <2>1. CASE m = 0
    BY <1>3, <2>1 DEF IsNext
  <2>2. CASE m # 0
    <3>1. PICK p : Lies(p, m - 1) /\ i \in Range(Neighbours(p))
      BY <1>3, <2>2, LiesParent
    <3>2. m - 1 \in Nat /\ m - 1 < h /\ ~(m <= m - 1)
      BY <1>4, <2>2
    <3>3. p \in DOMAIN r
      BY <1>2, <3>1, <3>2
    <3>4. QED
      BY <1>3, <3>1, <3>3 DEF IsNext
  <2>3. QED
    BY <2>1, <2>2
<1>6. PICK n \in DOMAIN q : q[n].hop = m
  BY <1>5 DEF Goes, Waiting
<1>7. QED
  BY <1>4, <1>6

RippleInv == InShape /\ Goes(queue, reached)

Starting == queue \in {<<>>, Roots(fields)} /\ reached = << >>

LEMMA RippleStarts == InShape /\ Starting => RippleInv
<1> SUFFICES ASSUME InShape, queue \in {<<>>, Roots(fields)}, reached = << >>
             PROVE  RippleInv
  BY DEF Starting
<1>1. DOMAIN reached = {} /\ DOMAIN <<>> = {}
  OBVIOUS
<1>2. Right(reached) /\ Before(queue, reached)
  BY <1>1 DEF Right, Before
<1>3. CASE queue = <<>>
  BY <1>1, <1>2, <1>3 DEF Entered, Ordered, Waiting, Goes, RippleInv
<1>4. CASE queue = Roots(fields)
  <2> DEFINE of == {f \in Range(fields) : ~f.wave}
             rooted == Kept(fields, of)
  <2>1. queue = [n \in DOMAIN rooted |-> [receiver |-> Root(rooted[n]), hop |-> 0]]
    BY <1>4 DEF Roots
  <2>2. Range(rooted) = Range(fields) \cap of
    <3> HIDE DEF of
    <3>1. QED
      BY KeptKeeps DEF InShape
  <2> HIDE DEF rooted
  <2>3. \A f : f \in Range(rooted) <=> \E g \in DOMAIN fields : ~fields[g].wave /\ f = fields[g]
    BY <2>2 DEF Range
  <2>4. DOMAIN queue = DOMAIN rooted
        /\ \A n \in DOMAIN queue : queue[n].hop = 0 /\ queue[n].receiver = Root(rooted[n])
    BY <2>1
  <2>5. \A n \in DOMAIN queue : Lies(queue[n].receiver, 0)
    <3>1. \A n \in DOMAIN rooted : rooted[n] \in Range(rooted)
      BY DEF Range
    <3>2. QED
      BY <2>3, <2>4, <3>1, LiesAtRoots
  <2>6. 0 <= Furthest
    BY Limits DEF Furthest, Least, InShape
  <2>7. Entered(queue) /\ Ordered(queue)
    BY <2>4, <2>5, <2>6 DEF Entered, Ordered
  <2>8. ASSUME NEW j, NEW k, IsNext(reached, j, k)
        PROVE  \E n \in DOMAIN queue : queue[n].receiver = j /\ queue[n].hop = k
    <3>1. k = 0 /\ Lies(j, 0)
      BY <1>1, <2>8 DEF IsNext
    <3>2. PICK f \in DOMAIN fields : ~fields[f].wave /\ j = Root(fields[f])
      BY <3>1, LiesAtRoots
    <3>3. fields[f] \in Range(rooted)
      BY <2>3, <3>2
    <3>4. PICK n \in DOMAIN rooted : rooted[n] = fields[f]
      BY <3>3 DEF Range
    <3>5. QED
      BY <2>4, <3>1, <3>2, <3>4
  <2>9. QED
    BY <1>2, <2>7, <2>8 DEF Waiting, Goes, RippleInv
<1>5. QED
  BY <1>3, <1>4

LEMMA StartsNext == InShape' /\ Starting' => RippleInv'
BY RippleStarts, PTL

LEMMA SameBalls ==
  ASSUME fields' = fields, dead' = dead, reach' = reach
  PROVE  /\ \A i, k : Lies(i, k)' <=> Lies(i, k)
         /\ \A i : Neighbours(i)' = Neighbours(i)
         /\ Furthest' = Furthest
<1>1. \A i : Neighbours(i)' = Neighbours(i)
  BY DEF Neighbours, FieldOf, LatticeNeighbours
<1>2. \A i, k : Lies(i, k)' <=> Lies(i, k)
  BY DEF Lies, Ball
<1>3. QED
  BY <1>1, <1>2 DEF Furthest

(* What a cell passes on is one hop on.                                    *)
LEMMA PassedOn ==
  ASSUME NEW d, d.hop \in Nat, reach \in Nat, NEW X, Neighbours(d.receiver) \in Seq(X)
  PROVE  /\ Passed(d) \in Seq([receiver : X, hop : Nat])
         /\ d.hop >= Furthest => Passed(d) = <<>>
         /\ d.hop < Furthest =>
              /\ DOMAIN Passed(d) = DOMAIN Neighbours(d.receiver)
              /\ \A n \in DOMAIN Passed(d) : /\ Passed(d)[n].receiver = Neighbours(d.receiver)[n]
                                             /\ Passed(d)[n].hop = d.hop + 1
<1> DEFINE to == Neighbours(d.receiver)
           h == d.hop
<1>1. /\ h >= Furthest => h >= MaxHops \/ h >= reach
      /\ h < Furthest => ~(h >= MaxHops \/ h >= reach)
  BY Limits DEF Furthest, Least
<1>2. CASE h >= MaxHops \/ h >= reach
  <2>1. Passed(d) = <<>>
    BY <1>2 DEF Passed
  <2>2. QED
    BY <1>1, <1>2, <2>1
<1>3. CASE ~(h >= MaxHops \/ h >= reach)
  <2>1. Passed(d) = [n \in DOMAIN to |-> [receiver |-> to[n], hop |-> h + 1]]
    BY <1>3 DEF Passed
  <2>2. DOMAIN to = 1..Len(to) /\ Len(to) \in Nat /\ \A n \in DOMAIN to : to[n] \in X
    OBVIOUS
  <2> HIDE DEF to, h
  <2>3. \A n \in DOMAIN to : [receiver |-> to[n], hop |-> h + 1] \in [receiver : X, hop : Nat]
    BY <2>2 DEF h
  <2>4. Passed(d) \in Seq([receiver : X, hop : Nat])
    BY <2>1, <2>2, <2>3
  <2>5. /\ DOMAIN Passed(d) = DOMAIN to
        /\ \A n \in DOMAIN Passed(d) : Passed(d)[n].receiver = to[n] /\ Passed(d)[n].hop = h + 1
    BY <2>1
  <2>6. QED
    BY <1>1, <1>3, <2>4, <2>5 DEF to, h
<1>4. QED
  BY <1>2, <1>3

LEMMA Concatenated ==
  ASSUME NEW X, NEW t \in Seq(X), NEW s \in Seq(X)
  PROVE  /\ Len(t \o s) = Len(t) + Len(s) /\ DOMAIN (t \o s) = 1..(Len(t) + Len(s))
         /\ \A n \in 1..(Len(t) + Len(s)) :
              (t \o s)[n] = IF n <= Len(t) THEN t[n] ELSE s[n - Len(t)]
<1>1. Len(t \o s) = Len(t) + Len(s)
  OBVIOUS
<1>2. DOMAIN (t \o s) = 1..(Len(t) + Len(s))
  <2>1. t \o s \in Seq(X)
    OBVIOUS
  <2>2. QED
    BY <1>1, <2>1
<1>3. \A n \in 1..(Len(t) + Len(s)) :
              (t \o s)[n] = IF n <= Len(t) THEN t[n] ELSE s[n - Len(t)]
  OBVIOUS
<1>4. QED
  BY <1>1, <1>2, <1>3

(* The queue after a turn: each entry waited behind the head, or was passed on. *)
LEMMA Queued ==
  ASSUME NEW X, NEW q \in Seq(X), q # <<>>, NEW s \in Seq(X)
  PROVE  LET u == Tail(q) \o s IN
         /\ \A n \in DOMAIN u : \/ n + 1 \in DOMAIN q /\ n < Len(q) /\ u[n] = q[n + 1]
                                \/ /\ n >= Len(q) /\ n - Len(q) + 1 \in DOMAIN s
                                   /\ u[n] = s[n - Len(q) + 1]
         /\ \A n \in DOMAIN q : n # 1 => n - 1 \in DOMAIN u /\ u[n - 1] = q[n]
         /\ \A n \in DOMAIN s : Len(q) - 1 + n \in DOMAIN u /\ u[Len(q) - 1 + n] = s[n]
         /\ DOMAIN u \subseteq Nat
<1> DEFINE t == Tail(q)  u == t \o s
<1>1. Len(q) \in Nat /\ Len(q) > 0 /\ DOMAIN q = 1..Len(q) /\ Len(s) \in Nat /\ DOMAIN s = 1..Len(s)
  OBVIOUS
<1>2. /\ t \in Seq(X) /\ Len(t) = Len(q) - 1 /\ DOMAIN t = 1..(Len(q) - 1)
      /\ \A n \in 1..(Len(q) - 1) : t[n] = q[n + 1]
  OBVIOUS
<1> HIDE DEF t
<1>3. /\ Len(u) = Len(q) - 1 + Len(s) /\ DOMAIN u = 1..(Len(q) - 1 + Len(s))
      /\ \A n \in 1..(Len(q) - 1) : u[n] = t[n]
      /\ \A n \in 1..Len(s) : u[Len(q) - 1 + n] = s[n]
  <2>1. Len(u) = Len(t) + Len(s) /\ DOMAIN u = 1..(Len(t) + Len(s))
        /\ \A n \in 1..(Len(t) + Len(s)) :
              u[n] = IF n <= Len(t) THEN t[n] ELSE s[n - Len(t)]
    <3>1. t \in Seq(X)
      BY <1>2
    <3>2. QED
      BY <3>1, Concatenated
  <2> HIDE DEF u
  <2>2. \A n \in 1..(Len(q) - 1) : u[n] = t[n]
    BY <1>1, <1>2, <2>1
  <2>3. ASSUME NEW n \in 1..Len(s)
        PROVE  u[Len(q) - 1 + n] = s[n]
    <3> DEFINE m == Len(q) - 1 + n
    <3>1. m \in 1..(Len(t) + Len(s)) /\ ~(m <= Len(t)) /\ m - Len(t) = n
      BY <1>1, <1>2
    <3> HIDE DEF m
    <3>2. u[m] = s[n]
      BY <2>1, <3>1
    <3>3. QED
      BY <3>2 DEF m
  <2>4. QED
    BY <1>1, <1>2, <2>1, <2>2, <2>3
<1> HIDE DEF u
<1>4. ASSUME NEW n \in DOMAIN u
      PROVE  \/ n + 1 \in DOMAIN q /\ n < Len(q) /\ u[n] = q[n + 1]
             \/ n >= Len(q) /\ n - Len(q) + 1 \in DOMAIN s /\ u[n] = s[n - Len(q) + 1]
  <2>1. CASE n < Len(q)
    BY <1>1, <1>2, <1>3, <2>1
  <2>2. CASE n >= Len(q)
    <3> DEFINE m == n - Len(q) + 1
    <3>1. m \in 1..Len(s) /\ Len(q) - 1 + m = n
      BY <1>1, <1>3, <2>2
    <3> HIDE DEF m
    <3>2. m \in DOMAIN s /\ u[n] = s[m]
      BY <1>1, <1>3, <3>1
    <3>3. QED
      BY <2>2, <3>2 DEF m
  <2>3. QED
    BY <1>1, <1>3, <2>1, <2>2
<1>5. ASSUME NEW n \in DOMAIN q, n # 1
      PROVE  n - 1 \in DOMAIN u /\ u[n - 1] = q[n]
  <2>1. n - 1 \in 1..(Len(q) - 1) /\ n - 1 + 1 = n
    BY <1>1, <1>5
  <2>2. QED
    BY <1>1, <1>2, <1>3, <2>1
<1>6. \A n \in DOMAIN s : Len(q) - 1 + n \in DOMAIN u /\ u[Len(q) - 1 + n] = s[n]
  BY <1>1, <1>3
<1>7. DOMAIN u \subseteq Nat
  BY <1>1, <1>3
<1>8. QED
  BY <1>4, <1>5, <1>6, <1>7 DEF u, t

(* One turn, for the queue and the hops it leaves.                         *)
LEMMA TurnGoes ==
  ASSUME InShape, NEW X, NEW q \in Seq(X), q # <<>>, NEW r, Goes(q, r),
         \A n \in DOMAIN q : q[n].hop \in Nat,
         NEW s \in Seq(X),
         NEW r1,
         q[1].receiver \in DOMAIN r => s = <<>> /\ r1 = r,
         q[1].receiver \notin DOMAIN r =>
           /\ s = Passed(q[1]) /\ DOMAIN r1 = DOMAIN r \cup {q[1].receiver}
           /\ \A i \in DOMAIN r1 : r1[i] = IF i = q[1].receiver THEN q[1].hop ELSE r[i],
         NEW Y, Neighbours(q[1].receiver) \in Seq(Y)
  PROVE  Goes(Tail(q) \o s, r1)
<1> DEFINE d == q[1]
           c == d.receiver
           h == d.hop
           u == Tail(q) \o s
<1>1. Len(q) \in Nat /\ Len(q) > 0 /\ DOMAIN q = 1..Len(q) /\ 1 \in DOMAIN q
  OBVIOUS
<1>2. h \in Nat /\ reach \in Nat /\ Furthest \in Nat
  BY <1>1, Limits DEF Furthest, Least, InShape
<1>3. /\ \A n \in DOMAIN q : h <= q[n].hop /\ q[n].hop <= h + 1 /\ q[n].hop \in Nat
  BY <1>1 DEF Goes, Ordered
<1>4. h <= Furthest /\ \E k : Lies(c, k) /\ k <= h
  BY <1>1 DEF Goes, Entered
<1>5. ASSUME c \notin DOMAIN r
      PROVE  Lies(c, h)
  <2>1. PICK k : Lies(c, k) /\ k <= h
    BY <1>4
  <2>2. k \in Nat
    BY <2>1, LiesOnce
  <2>3. ~(k < h)
    BY <1>2, <1>3, <1>5, <2>1, Earlier
  <2>4. k = h
    BY <1>2, <2>1, <2>2, <2>3
  <2>5. QED
    BY <2>1, <2>4
<1>6. /\ \A n \in DOMAIN u : \/ n + 1 \in DOMAIN q /\ n < Len(q) /\ u[n] = q[n + 1]
                             \/ /\ n >= Len(q) /\ n - Len(q) + 1 \in DOMAIN s
                                /\ u[n] = s[n - Len(q) + 1]
      /\ \A n \in DOMAIN q : n # 1 => n - 1 \in DOMAIN u /\ u[n - 1] = q[n]
      /\ \A n \in DOMAIN s : Len(q) - 1 + n \in DOMAIN u /\ u[Len(q) - 1 + n] = s[n]
      /\ DOMAIN u \subseteq Nat
  BY Queued
<1>7. \A n \in DOMAIN s : /\ c \notin DOMAIN r /\ h < Furthest /\ s = Passed(d)
                          /\ DOMAIN s = DOMAIN Neighbours(c)
                          /\ s[n].receiver = Neighbours(c)[n] /\ s[n].hop = h + 1
                          /\ s[n].receiver \in Range(Neighbours(c))
  <2>1. SUFFICES ASSUME NEW n \in DOMAIN s
                 PROVE  /\ c \notin DOMAIN r /\ h < Furthest /\ s = Passed(d)
                        /\ DOMAIN s = DOMAIN Neighbours(c)
                        /\ s[n].receiver = Neighbours(c)[n] /\ s[n].hop = h + 1
                        /\ s[n].receiver \in Range(Neighbours(c))
    OBVIOUS
  <2>2. s # <<>>
    OBVIOUS
  <2>3. c \notin DOMAIN r /\ s = Passed(d)
    BY <2>2
  <2>4. /\ h >= Furthest => Passed(d) = <<>>
        /\ h < Furthest =>
              /\ DOMAIN Passed(d) = DOMAIN Neighbours(c)
              /\ \A o \in DOMAIN Passed(d) : /\ Passed(d)[o].receiver = Neighbours(c)[o]
                                             /\ Passed(d)[o].hop = h + 1
    <3>1. d.hop \in Nat /\ Neighbours(d.receiver) \in Seq(Y)
      BY <1>2
    <3> HIDE DEF d
    <3>2. QED
      BY <1>2, <3>1, PassedOn
  <2>5. h < Furthest
    BY <1>2, <2>2, <2>3, <2>4
  <2> HIDE DEF d, c, h
  <2>6. s[n].receiver = Neighbours(c)[n] /\ s[n].hop = h + 1 /\ DOMAIN s = DOMAIN Neighbours(c)
    BY <2>3, <2>4, <2>5
  <2>7. s[n].receiver \in Range(Neighbours(c))
    BY <2>6 DEF Range
  <2>8. QED
    BY <2>3, <2>5, <2>6, <2>7
<1>8. /\ c \in DOMAIN r1
      /\ \A i \in DOMAIN r1 : \/ i \in DOMAIN r /\ r1[i] = r[i]
                              \/ i = c /\ c \notin DOMAIN r /\ r1[i] = h
      /\ \A i \in DOMAIN r : i \in DOMAIN r1
  <2>1. CASE c \in DOMAIN r
    BY <2>1
  <2>2. CASE c \notin DOMAIN r
    BY <2>2
  <2>3. QED
    BY <2>1, <2>2
<1> HIDE DEF d, c, h, u
<1>9. Entered(u)
  <2>1. ASSUME NEW n \in DOMAIN u
        PROVE  u[n].hop <= Furthest /\ \E k : Lies(u[n].receiver, k) /\ k <= u[n].hop
    <3>1. CASE n + 1 \in DOMAIN q /\ u[n] = q[n + 1]
      BY <3>1 DEF Goes, Entered
    <3>2. ASSUME NEW o \in DOMAIN s, u[n] = s[o]
          PROVE  u[n].hop <= Furthest /\ \E k : Lies(u[n].receiver, k) /\ k <= u[n].hop
      <4>1. /\ c \notin DOMAIN r /\ h < Furthest /\ s[o].hop = h + 1
            /\ s[o].receiver \in Range(Neighbours(c))
        BY <1>7
      <4>2. \E k : Lies(s[o].receiver, k) /\ k <= h + 1
        BY <1>5, <4>1, LiesSpreads
      <4>3. QED
        BY <1>2, <3>2, <4>1, <4>2
    <3>3. QED
      BY <1>6, <3>1, <3>2
  <2>2. QED
    BY <2>1 DEF Entered
<1>10. \A n \in DOMAIN u : u[n].hop \in {h, h + 1} /\ (n >= Len(q) => u[n].hop = h + 1)
  <2>1. ASSUME NEW n \in DOMAIN u
        PROVE  u[n].hop \in {h, h + 1} /\ (n >= Len(q) => u[n].hop = h + 1)
    <3>1. CASE n + 1 \in DOMAIN q /\ n < Len(q) /\ u[n] = q[n + 1]
      <4>1. q[n + 1].hop \in {h, h + 1}
        <5> DEFINE e == q[n + 1].hop
        <5>1. h <= e /\ e <= h + 1 /\ e \in Nat
          BY <1>3, <3>1
        <5> HIDE DEF e
        <5>2. e \in {h, h + 1}
          BY <1>2, <5>1
        <5>3. QED
          BY <5>2 DEF e
      <4>2. n \in Nat
        BY <1>6
      <4>3. QED
        BY <1>1, <3>1, <4>1, <4>2
    <3>2. CASE n >= Len(q) /\ n - Len(q) + 1 \in DOMAIN s /\ u[n] = s[n - Len(q) + 1]
      BY <1>7, <3>2
    <3>3. QED
      BY <1>6, <3>1, <3>2
  <2>2. QED
    BY <2>1
<1>11. Ordered(u)
  <2>1. ASSUME NEW m \in DOMAIN u, NEW n \in DOMAIN u, m <= n
        PROVE  u[m].hop <= u[n].hop /\ u[n].hop <= u[m].hop + 1
    <3>1. u[m].hop \in {h, h + 1} /\ u[n].hop \in {h, h + 1}
      BY <1>10
    <3>2. CASE n >= Len(q)
      BY <1>2, <1>10, <3>1, <3>2
    <3>3. CASE n < Len(q)
      <4>1. m \in Nat /\ n \in Nat /\ m < Len(q)
        BY <1>1, <1>6, <2>1, <3>3
      <4>2. /\ m + 1 \in DOMAIN q /\ u[m] = q[m + 1]
            /\ n + 1 \in DOMAIN q /\ u[n] = q[n + 1]
        BY <1>1, <1>6, <3>3, <4>1
      <4>3. m + 1 <= n + 1
        BY <2>1, <4>1
      <4>4. QED
        BY <4>2, <4>3 DEF Goes, Ordered
    <3>4. QED
      BY <1>1, <1>6, <3>2, <3>3
  <2>2. QED
    BY <2>1 DEF Ordered
<1>12. Right(r1)
  BY <1>5, <1>8 DEF Goes, Right
<1>13. Before(u, r1)
  <2>1. ASSUME NEW i \in DOMAIN r1, NEW n \in DOMAIN u
        PROVE  r1[i] <= u[n].hop
    <3>1. u[n].hop \in {h, h + 1}
      BY <1>10
    <3>2. CASE i \in DOMAIN r /\ r1[i] = r[i]
      <4>1. r[i] <= h
        BY <1>1, <3>2 DEF Goes, Before, h, d
      <4>2. r[i] \in Nat
        BY <3>2, LiesOnce DEF Goes, Right
      <4>3. QED
        BY <1>2, <3>1, <3>2, <4>1, <4>2
    <3>3. CASE r1[i] = h
      BY <1>2, <3>1, <3>3
    <3>4. QED
      BY <1>8, <3>2, <3>3
  <2>2. QED
    BY <2>1 DEF Before
<1>14. Waiting(u, r1)
  <2>1. ASSUME NEW j, NEW k, IsNext(r1, j, k)
        PROVE  \E n \in DOMAIN u : u[n].receiver = j /\ u[n].hop = k
    <3>1. Lies(j, k) /\ j \notin DOMAIN r /\ j # c
      BY <1>8, <2>1 DEF IsNext
    <3>2. CASE IsNext(r, j, k)
      <4>1. PICK n \in DOMAIN q : q[n].receiver = j /\ q[n].hop = k
        BY <3>2 DEF Goes, Waiting
      <4>2. n # 1
        BY <3>1, <4>1 DEF c, d
      <4>3. QED
        BY <1>6, <4>1, <4>2
    <3>3. CASE ~IsNext(r, j, k)
      <4>1. k # 0 /\ \E p \in DOMAIN r1 : /\ Lies(p, k - 1) /\ j \in Range(Neighbours(p))
                                          /\ p \notin DOMAIN r
        BY <2>1, <3>1, <3>3 DEF IsNext
      <4>2. /\ c \notin DOMAIN r /\ Lies(c, k - 1) /\ j \in Range(Neighbours(c))
        BY <1>8, <4>1
      <4>3. k \in Nat /\ k <= Furthest
        BY <3>1, LiesOnce
      <4>4. k - 1 = h
        BY <1>5, <4>2, LiesOnce
      <4>5. h < Furthest /\ k = h + 1
        BY <1>2, <4>3, <4>4
      <4>6. s = Passed(d) /\ d.hop \in Nat
        BY <1>2, <4>2 DEF c, d, h
      <4>7. /\ DOMAIN s = DOMAIN Neighbours(c)
            /\ \A n \in DOMAIN s : s[n].receiver = Neighbours(c)[n] /\ s[n].hop = h + 1
        <5>1. Neighbours(d.receiver) \in Seq(Y)
          BY DEF d
        <5>2. QED
          BY <1>2, <4>5, <4>6, <5>1, PassedOn DEF c, h
      <4>8. PICK n \in DOMAIN Neighbours(c) : Neighbours(c)[n] = j
        BY <4>2 DEF Range
      <4>9. QED
        BY <1>6, <4>5, <4>7, <4>8
    <3>4. QED
      BY <3>2, <3>3
  <2>2. QED
    BY <2>1 DEF Waiting
<1>15. QED
  BY <1>9, <1>11, <1>12, <1>13, <1>14 DEF Goes, u

(* A turn changes neither the scene nor the balls.                         *)
LEMMA GoesOn ==
  ASSUME fields' = fields, dead' = dead, reach' = reach, Goes(queue', reached')
  PROVE  Goes(queue, reached)'
<1>1. /\ \A i, k : Lies(i, k)' <=> Lies(i, k)
      /\ \A i : Neighbours(i)' = Neighbours(i)
      /\ Furthest' = Furthest
  BY SameBalls
<1>2. Entered(queue)'
  BY <1>1 DEF Goes, Entered
<1>3. Ordered(queue)'
  BY DEF Goes, Ordered
<1>4. Right(reached)'
  BY <1>1 DEF Goes, Right
<1>5. Before(queue, reached)'
  BY DEF Goes, Before
<1>6. Waiting(queue, reached)'
  <2>1. \A j, k : IsNext(reached, j, k)' <=> IsNext(reached', j, k)
    BY <1>1 DEF IsNext
  <2>2. QED
    BY <2>1 DEF Goes, Waiting
<1>7. QED
  BY <1>2, <1>3, <1>4, <1>5, <1>6 DEF Goes

LEMMA NeighboursStay ==
  ASSUME InShape, NEW i
  PROVE  Neighbours(i) \in Seq(0..(entities - 1))
<1>1. CASE FieldOf(i) = {}
  BY <1>1 DEF Neighbours
<1>2. CASE FieldOf(i) # {}
  <2>1. PICK f \in DOMAIN fields : i \in Cells(fields[f])
    BY <1>2 DEF FieldOf
  <2>2. Neighbours(i) = Beside(fields[f], i)
    BY <2>1, InField
  <2>3. fields[f] \in FieldRanges /\ Cells(fields[f]) \subseteq 0..(entities - 1)
    BY CellsWithin DEF InShape
  <2>4. /\ RingNeighbours(fields[f], i) \in Seq(Cells(fields[f]))
        /\ LatticeNeighbours(fields[f], i) \in Seq(Cells(fields[f]))
    BY <2>1, <2>3, RingStays, LatticeStays
  <2>5. Beside(fields[f], i) \in Seq(Cells(fields[f]))
    <3>1. <<>> \in Seq(Cells(fields[f]))
      OBVIOUS
    <3>2. QED
      BY <2>4, <3>1 DEF Beside
  <2> DEFINE C == Cells(fields[f])  N == 0..(entities - 1)  s == Beside(fields[f], i)
  <2>6. s \in Seq(C) /\ C \subseteq N
    BY <2>3, <2>5
  <2> HIDE DEF C, N, s
  <2>7. s \in Seq(N)
    BY <2>6
  <2>8. QED
    BY <2>2, <2>7 DEF s, N
<1>3. QED
  BY <1>1, <1>2

LEMMA DeliverRipples == IInv /\ RippleInv /\ Deliver => RippleInv'
<1> SUFFICES ASSUME IInv, RippleInv, Deliver PROVE RippleInv'
  OBVIOUS
<1> DEFINE N == 0..(entities - 1)
           X == [receiver : N, hop : Nat]
           d == Head(queue)
<1>1. InShape /\ Goes(queue, reached)
  BY DEF RippleInv
<1>2. /\ fields' = fields /\ entities' = entities /\ dead' = dead /\ reach' = reach
      /\ queue # <<>>
      /\ IF d.receiver \in DOMAIN reached
         THEN queue' = Tail(queue) /\ reached' = reached
         ELSE /\ reached' = [i \in DOMAIN reached \cup {d.receiver} |->
                               IF i = d.receiver THEN d.hop ELSE reached[i]]
              /\ queue' = Tail(queue) \o Passed(d)
  BY DEF Deliver, scene
<1>3. InShape'
  BY <1>1, <1>2 DEF InShape, AllDead
<1>4. queue \in Seq(X) /\ \A n \in DOMAIN queue : queue[n].hop \in Nat
  <2>1. queue \in Seq(Deliveries(entities)) /\ entities \in Nat
    BY <1>1 DEF IInv, RippleOK, InShape
  <2>2. Deliveries(entities) \subseteq X
    BY <2>1, Limits DEF Deliveries
  <2> HIDE DEF X
  <2>3. queue \in Seq(X) /\ \A n \in DOMAIN queue : queue[n] \in X
    BY <2>1, <2>2
  <2>4. QED
    BY <2>3 DEF X
<1>5. d = queue[1] /\ d.hop \in Nat
  <2>1. d = queue[1] /\ 1 \in DOMAIN queue
    <3> HIDE DEF X
    <3>1. Len(queue) > 0
      BY <1>2, <1>4
    <3>2. QED
      BY <1>4, <3>1
  <2>2. QED
    BY <1>4, <2>1
<1>6. Neighbours(d.receiver) \in Seq(N) /\ Neighbours(queue[1].receiver) \in Seq(N)
  BY <1>1, <1>5, NeighboursStay
<1> HIDE DEF d, N
<1>7. Passed(d) \in Seq(X)
  BY <1>1, <1>5, <1>6, PassedOn DEF InShape
<1>8. <<>> \in Seq(X) /\ Tail(queue) \o <<>> = Tail(queue)
  <2>1. Tail(queue) \in Seq(X)
    BY <1>2, <1>4
  <2> HIDE DEF X
  <2>2. QED
    BY <2>1
<1> HIDE DEF X
<1>9. Goes(queue', reached')
  <2>1. CASE d.receiver \in DOMAIN reached
    <3> DEFINE s == <<>>
    <3>1. queue' = Tail(queue) \o s /\ reached' = reached /\ s \in Seq(X)
      BY <1>2, <1>8, <2>1
    <3>2. queue[1].receiver \in DOMAIN reached /\ s = <<>>
      BY <1>5, <2>1
    <3> HIDE DEF s
    <3>3. s \in Seq(X) /\ queue # <<>>
      BY <1>2, <3>1
    <3>4. /\ queue[1].receiver \in DOMAIN reached => s = <<>> /\ reached = reached
          /\ queue[1].receiver \notin DOMAIN reached =>
               /\ s = Passed(queue[1])
               /\ DOMAIN reached = DOMAIN reached \cup {queue[1].receiver}
               /\ \A i \in DOMAIN reached :
                    reached[i] = IF i = queue[1].receiver THEN queue[1].hop ELSE reached[i]
      BY <3>2
    <3>5. Goes(Tail(queue) \o s, reached)
      BY <1>1, <1>4, <1>6, <3>3, <3>4, TurnGoes
    <3>6. QED
      BY <3>1, <3>5
  <2>2. CASE d.receiver \notin DOMAIN reached
    <3> DEFINE s == Passed(queue[1])
    <3>1. queue' = Tail(queue) \o s /\ s \in Seq(X)
      BY <1>2, <1>5, <1>7, <2>2
    <3>2. /\ queue[1].receiver \notin DOMAIN reached
          /\ DOMAIN reached' = DOMAIN reached \cup {queue[1].receiver}
          /\ \A i \in DOMAIN reached' : reached'[i] =
                IF i = queue[1].receiver THEN queue[1].hop ELSE reached[i]
      BY <1>2, <1>5, <2>2
    <3>3. s = Passed(queue[1])
      OBVIOUS
    <3> HIDE DEF s
    <3>4. QED
      BY <1>1, <1>2, <1>4, <1>6, <3>1, <3>2, <3>3, TurnGoes
  <2>3. QED
    BY <2>1, <2>2
<1>10. Goes(queue, reached)'
  BY <1>2, <1>9, GoesOn
<1>11. QED
  BY <1>3, <1>10 DEF RippleInv

LEMMA RippleNext == IInv /\ RippleInv /\ [Next]_vars => RippleInv'
<1> SUFFICES ASSUME IInv, RippleInv, [Next]_vars PROVE RippleInv'
  OBVIOUS
<1>1. IInv'
  BY NextInv
<1>2. /\ fields' \in Seq(FieldRanges) /\ entities' \in Nat /\ InOrder(fields', entities')
      /\ reach' \in Nat
  <2>1. SceneOK' /\ RippleOK'
    BY <1>1 DEF IInv
  <2>2. fields' \in Seq(FieldRanges) /\ entities' \in Nat /\ InOrder(fields', entities')
    BY <2>1 DEF SceneOK
  <2>3. reach' \in Reaches \cup {0}
    BY <2>1 DEF RippleOK
  <2>4. reach' \in Nat
    BY <2>3, BoundsAssumption
  <2>5. QED
    BY <2>2, <2>4
<1>3. CASE Ticks
  <2>1. PICK m \in DOMAIN Modules \cup {NoModule}, reload \in BOOLEAN, isDriven \in BOOLEAN,
             paused \in BOOLEAN, to \in 0 .. Steps, beat \in 0 .. 1, strength \in Reaches,
             life \in Lives : Tick(m, reload, to, isDriven, paused, beat, strength, life)
    BY <1>3 DEF Ticks
  <2>2. /\ dead' = AllDead(fields') /\ queue' \in {<<>>, Roots(fields')} /\ reached' = << >>
    BY <2>1 DEF Tick
  <2>3. InShape'
    BY <1>2, <2>2 DEF InShape
  <2>4. Starting'
    BY <2>2 DEF Starting
  <2>5. QED
    BY <2>3, <2>4, StartsNext
<1>4. CASE Deliver
  BY <1>4, DeliverRipples
<1>5. CASE StepEnds
  <2>1. InShape'
    BY <1>2, <1>5 DEF StepEnds, scene, InShape, RippleInv
  <2>2. Starting'
    BY <1>5 DEF StepEnds, Starting
  <2>3. QED
    BY <2>1, <2>2, StartsNext
<1>6. CASE UNCHANGED vars
  <2>1. /\ fields' = fields /\ entities' = entities /\ dead' = dead /\ reach' = reach
        /\ queue' = queue /\ reached' = reached
    BY <1>6 DEF vars
  <2>2. Goes(queue', reached')
    BY <2>1 DEF RippleInv
  <2>3. Goes(queue, reached)'
    BY <2>1, <2>2, GoesOn
  <2>4. InShape'
    BY <1>2, <2>1 DEF InShape, RippleInv
  <2>5. QED
    BY <2>3, <2>4 DEF RippleInv
<1>7. QED
  BY <1>3, <1>4, <1>5, <1>6 DEF Next

LEMMA RippleInit == Init => RippleInv
<1> SUFFICES ASSUME Init PROVE RippleInv
  OBVIOUS
<1>1. IInv
  BY InitInv
<1>2. /\ fields \in Seq(FieldRanges) /\ entities \in Nat /\ InOrder(fields, entities)
      /\ reach \in Nat
  <2>1. SceneOK /\ RippleOK
    BY <1>1 DEF IInv
  <2>2. fields \in Seq(FieldRanges) /\ entities \in Nat /\ InOrder(fields, entities)
    BY <2>1 DEF SceneOK
  <2>3. reach \in Reaches \cup {0}
    BY <2>1 DEF RippleOK
  <2>4. reach \in Nat
    BY <2>3, BoundsAssumption
  <2>5. QED
    BY <2>2, <2>4
<1>3. fields = <<>> /\ dead = {} /\ queue = <<>> /\ reached = << >>
  BY DEF Init
<1>4. AllDead(fields) = {}
  BY <1>3 DEF AllDead
<1>5. InShape /\ Starting
  BY <1>2, <1>3, <1>4 DEF InShape, Starting
<1>6. QED
  BY <1>5, RippleStarts

LEMMA RippleSays == IInv /\ RippleInv => RippleIsBall
<1> SUFFICES ASSUME IInv, RippleInv PROVE RippleIsBall
  OBVIOUS
<1>1. InShape /\ Goes(queue, reached)
  BY DEF RippleInv
<1>2. \A i \in DOMAIN reached : Lies(i, reached[i]) /\ reached[i] \in Nat
  BY <1>1, LiesOnce DEF Goes, Right
<1>3. \A n \in DOMAIN queue : queue[n].hop \in Nat
  <2>1. queue \in Seq(Deliveries(entities))
    BY DEF IInv, RippleOK
  <2>2. \A n \in DOMAIN queue : queue[n] \in Deliveries(entities)
    BY <2>1
  <2>3. QED
    BY <2>2, Limits DEF Deliveries
<1>4. \A i \in DOMAIN reached : \E f \in DOMAIN fields :
            i \in Ball(fields[f]) /\ reached[i] = Far(fields[f], i)
  BY <1>2 DEF Lies
<1>5. \A f \in DOMAIN fields : \A j \in Ball(fields[f]) :
            Lies(j, Far(fields[f], j)) /\ Far(fields[f], j) \in Nat
  BY <1>1, LiesOnce DEF Lies
<1>6. ASSUME DOMAIN reached # {}, queue = <<>>
      PROVE  DOMAIN reached = UNION {Ball(fields[f]) : f \in DOMAIN fields}
  <2>1. DOMAIN queue = {}
    BY <1>6
  <2>2. ASSUME NEW f \in DOMAIN fields, NEW j \in Ball(fields[f])
        PROVE  j \in DOMAIN reached
    <3> DEFINE k == Far(fields[f], j)
    <3>1. k \in Nat /\ Lies(j, k)
      BY <1>5
    <3> HIDE DEF k
    <3>2. k + 1 \in Nat /\ k < k + 1
      BY <3>1
    <3>3. QED
      BY <1>1, <1>6, <2>1, <3>1, <3>2, Earlier
  <2>3. QED
    BY <1>4, <2>2
<1>7. ASSUME NEW i \in DOMAIN reached, NEW f \in DOMAIN fields,
             NEW j \in Ball(fields[f]) \ DOMAIN reached
      PROVE  Far(fields[f], j) >= reached[i]
  <2> DEFINE k == Far(fields[f], j)
             h == reached[i]
  <2>1. k \in Nat /\ Lies(j, k)
    BY <1>5
  <2>2. h \in Nat
    BY <1>2
  <2>3. \A n \in DOMAIN queue : h <= queue[n].hop /\ queue[n].hop \in Nat
    BY <1>1, <1>3 DEF Goes, Before
  <2>4. DOMAIN reached # {} /\ j \notin DOMAIN reached
    OBVIOUS
  <2> HIDE DEF k, h
  <2>5. ~(k < h)
    BY <1>1, <2>1, <2>2, <2>3, <2>4, Earlier
  <2>6. k >= h
    BY <2>1, <2>2, <2>5
  <2>7. QED
    BY <2>6 DEF k, h
<1>8. QED
  BY <1>4, <1>6, <1>7 DEF RippleIsBall

(* However far processEffects gets before the budget or the cap stops it, it
   has reached cells of the balls around the roots, each with the hop that is
   its distance, and none that lies farther out than one it has missed; and
   all of them if its queue has run empty (simulation.cpp:1121-1203).      *)
THEOREM RippleIsBallHolds == Spec => []RippleIsBall
<1>1. Init => IInv /\ RippleInv
  BY InitInv, RippleInit
<1>2. (IInv /\ RippleInv) /\ [Next]_vars => (IInv /\ RippleInv)'
  BY NextInv, RippleNext
<1>3. IInv /\ RippleInv => RippleIsBall
  BY RippleSays
<1>4. QED
  BY <1>1, <1>2, <1>3, PTL DEF Spec

-----------------------------------------------------------------------------
(* A driven setting.                                                       *)

LEMMA DrivenNext == DrivenIsNow /\ [Next]_vars => DrivenIsNow'
<1> SUFFICES ASSUME DrivenIsNow, [Next]_vars PROVE DrivenIsNow'
  OBVIOUS
<1>1. ASSUME NEW m \in DOMAIN Modules \cup {NoModule}, NEW reload \in BOOLEAN,
             NEW isDriven \in BOOLEAN, NEW paused \in BOOLEAN, NEW to \in 0..Steps,
             NEW beat \in 0..1, NEW strength \in Reaches, NEW life \in Lives,
             Tick(m, reload, to, isDriven, paused, beat, strength, life)
      PROVE  DrivenIsNow'
  <2> DEFINE rebuilt == m # module \/ reload
             from == IF rebuilt THEN to ELSE Ingested(to, isDriven)
  <2>1. /\ target' = to /\ driven' = isDriven
        /\ IF m = NoModule THEN setting' = from
                           ELSE setting' \in Chased(from, to, isDriven, paused)
    BY <1>1 DEF Tick
  <2>2. isDriven => from = to
    BY DEF Ingested
  <2> HIDE DEF from
  <2>3. isDriven => setting' = from
    BY <2>1 DEF Chased
  <2>4. QED
    BY <2>1, <2>2, <2>3 DEF DrivenIsNow
<1>2. CASE Ticks
  BY <1>1, <1>2 DEF Ticks
<1>3. CASE Deliver \/ StepEnds \/ UNCHANGED vars
  BY <1>3 DEF Deliver, StepEnds, vars, DrivenIsNow
<1>4. QED
  BY <1>2, <1>3 DEF Next

(* A setting that a driver moves has its value in the step that takes it over,
   whether or not the rotation is paused (simulation.cpp:77-89 and :280).  *)
THEOREM DrivenIsNowHolds == Spec => []DrivenIsNow
<1>1. Init => DrivenIsNow
  BY DEF Init, DrivenIsNow
<1>2. QED
  BY <1>1, DrivenNext, PTL DEF Spec

-----------------------------------------------------------------------------
(* What the picture shows.                                                 *)

(* The longest transition is one of them, and no other is longer.          *)
LEMMA LongestBounds ==
  /\ Longest \in Nat
  /\ \A m \in AllManners : m.ticks \in Nat /\ m.ticks <= Longest
<1>1. \A m \in AllManners : m.ticks \in Nat
  BY ParameterAssumption DEF AllManners, Preview, Cut
<1>2. \E n \in {m.ticks : m \in AllManners} : \A m \in AllManners : m.ticks <= n
  BY ParameterAssumption
<1>3. /\ Longest \in {m.ticks : m \in AllManners}
      /\ \A m \in AllManners : m.ticks <= Longest
  BY <1>2 DEF Longest
<1>4. QED
  BY <1>1, <1>3

LEMMA NobodyIsShown == Nobody \in Images
BY ParameterAssumption

-----------------------------------------------------------------------------
(* One slot.                                                               *)

(* A change under way has made at least one tick and has one to go.        *)
Whole(slot) == slot.elapsed # Done => slot.elapsed \in 1..(slot.latched.ticks - 1)

(* What a slot takes in and then does, whichever of the two it is.         *)
Stepped(slot, image, manner, runs, paused) ==
  RampAdvanced(IF image # slot.image THEN Changed(slot, image, manner, runs) ELSE slot, paused)

LEMMA EndedSlot ==
  ASSUME NEW slot \in Slot
  PROVE  LET after == [slot EXCEPT !.elapsed = Done, !.prev = Nobody]
         IN /\ after \in Slot
            /\ after.image = slot.image /\ after.latched = slot.latched
            /\ after.elapsed = Done
<1>1. Done \in Done..Longest
  BY LongestBounds DEF Done
<1>2. QED
  BY <1>1, NobodyIsShown DEF Slot

(* The same occupant: the change under way goes on by a tick, and ends when
   its last one has passed.                                                *)
LEMMA StepGoesOn ==
  ASSUME NEW slot \in Slot, Whole(slot), NEW manner \in AllManners, NEW runs, NEW paused
  PROVE  LET after == Stepped(slot, slot.image, manner, runs, paused)
         IN /\ after \in Slot /\ Whole(after)
            /\ after.image = slot.image /\ after.latched = slot.latched
            /\ slot.elapsed = Done => after = slot
            /\ slot.elapsed # Done =>
                 \/ after.elapsed = Done /\ slot.elapsed + 1 = slot.latched.ticks
                 \/ after.elapsed = slot.elapsed + 1 /\ after.prev = slot.prev
<1>1. slot.latched \in AllManners /\ slot.elapsed \in Done..Longest
  BY DEF Slot
<1>2. slot.latched.ticks \in Nat /\ slot.latched.ticks <= Longest /\ Longest \in Nat
  BY <1>1, LongestBounds
<1>3. Stepped(slot, slot.image, manner, runs, paused) = RampAdvanced(slot, paused)
  BY DEF Stepped
<1>4. CASE slot.elapsed = Done
  BY <1>3, <1>4 DEF RampAdvanced
<1>5. CASE slot.elapsed # Done /\ slot.elapsed + 1 < slot.latched.ticks
  BY <1>1, <1>2, <1>3, <1>5 DEF RampAdvanced, Slot, Whole, Done
<1>6. CASE slot.elapsed # Done /\ ~(slot.elapsed + 1 < slot.latched.ticks)
  <2>1. slot.elapsed + 1 = slot.latched.ticks
    BY <1>1, <1>2, <1>6 DEF Whole, Done
  <2>2. RampAdvanced(slot, paused) = [slot EXCEPT !.elapsed = Done, !.prev = Nobody]
    BY <1>6 DEF RampAdvanced
  <2>3. QED
    BY <1>3, <1>6, <2>1, <2>2, EndedSlot DEF Whole
<1>7. QED
  BY <1>4, <1>5, <1>6

(* Another occupant: the change starts over, in the manner given, and its
   first tick has passed.                                                  *)
LEMMA StepChanges ==
  ASSUME NEW slot \in Slot, NEW image \in Images, image # slot.image,
         NEW manner \in AllManners, NEW runs \in BOOLEAN, NEW paused
  PROVE  LET after == Stepped(slot, image, manner, runs, paused)
         IN /\ after \in Slot /\ Whole(after)
            /\ after.image = image /\ after.latched = manner
            /\ runs /\ manner.ticks > 1 => after.elapsed = 1 /\ after.prev = slot.image
            /\ ~(runs /\ manner.ticks > 1) => after.elapsed = Done
<1> DEFINE new == Changed(slot, image, manner, runs)
<1>1. Stepped(slot, image, manner, runs, paused) = RampAdvanced(new, paused)
  BY DEF Stepped
<1>2. manner.ticks \in Nat /\ manner.ticks <= Longest /\ Longest \in Nat
  BY LongestBounds
<1>3. /\ new.image = image /\ new.prev = slot.image /\ new.latched = manner
      /\ new.elapsed = IF runs THEN 0 ELSE Done
      /\ new \in Slot
  BY <1>2 DEF Changed, Slot, Done
<1> HIDE DEF new
<1>4. CASE ~runs
  BY <1>1, <1>3, <1>4 DEF RampAdvanced, Whole
<1>5. CASE runs /\ manner.ticks > 1
  <2>1. RampAdvanced(new, paused) = [new EXCEPT !.elapsed = @ + 1]
    BY <1>2, <1>3, <1>5 DEF RampAdvanced, Done
  <2>2. QED
    BY <1>1, <1>2, <1>3, <1>5, <2>1 DEF Slot, Whole, Done
<1>6. CASE runs /\ ~(manner.ticks > 1)
  <2>1. RampAdvanced(new, paused) = [new EXCEPT !.elapsed = Done, !.prev = Nobody]
    BY <1>2, <1>3, <1>6 DEF RampAdvanced, Done
  <2>2. QED
    BY <1>1, <1>3, <1>6, <2>1, EndedSlot, ZenonT(30) DEF Whole
<1>7. QED
  BY <1>4, <1>5, <1>6

(* Whether a change takes time.                                            *)
CentreRuns(manner) == centre.image # Nobody /\ manner.ticks > 0
BackdropRuns(manner) == manner.ticks > 0

(* Either way the slot does what SlotPromise allows, or nothing.  A change
   runs for the ticks it was given, or for none if nobody can leave.       *)
LEMMA StepPromised ==
  ASSUME NEW slot \in Slot, Whole(slot), NEW image \in Images, NEW manner \in AllManners,
         NEW runs \in BOOLEAN, NEW paused
  PROVE  LET after == Stepped(slot, image, manner, runs, paused)
             ticks == IF runs THEN manner.ticks ELSE 0
         IN \/ /\ image # slot.image /\ after.image = image /\ after.latched = manner
               /\ Left(after) = IF ticks > 0 THEN ticks - 1 ELSE 0
               /\ Leaving(after) = IF Left(after) > 0 THEN slot.image ELSE Nobody
            \/ /\ after.image = slot.image /\ after.latched = slot.latched
               /\ Left(slot) > 0 /\ Left(after) = Left(slot) - 1
               /\ Leaving(after) = IF Left(after) > 0 THEN Leaving(slot) ELSE Nobody
            \/ after = slot
<1> DEFINE after == Stepped(slot, image, manner, runs, paused)
           ticks == IF runs THEN manner.ticks ELSE 0
<1>1. manner.ticks \in Nat /\ slot.latched.ticks \in Nat /\ slot.elapsed \in Int
  BY LongestBounds DEF Slot, Done
<1>2. CASE image # slot.image
  <2>1. /\ after.image = image /\ after.latched = manner
        /\ runs /\ manner.ticks > 1 => after.elapsed = 1 /\ after.prev = slot.image
        /\ ~(runs /\ manner.ticks > 1) => after.elapsed = Done
    BY <1>2, StepChanges
  <2> HIDE DEF after
  <2>2. Left(after) = IF ticks > 0 THEN ticks - 1 ELSE 0
    BY <1>1, <2>1 DEF Left, Done
  <2>3. Leaving(after) = IF Left(after) > 0 THEN slot.image ELSE Nobody
    BY <1>1, <2>1, <2>2 DEF Leaving, Done
  <2>4. QED
    BY <1>2, <2>1, <2>2, <2>3 DEF after
<1>3. CASE image = slot.image
  <2>1. /\ after.image = slot.image /\ after.latched = slot.latched
        /\ slot.elapsed = Done => after = slot
        /\ slot.elapsed # Done =>
             \/ after.elapsed = Done /\ slot.elapsed + 1 = slot.latched.ticks
             \/ after.elapsed = slot.elapsed + 1 /\ after.prev = slot.prev
    BY <1>3, StepGoesOn
  <2>2. slot.elapsed # Done => slot.elapsed >= 1 /\ slot.elapsed <= slot.latched.ticks - 1
    BY <1>1 DEF Whole
  <2> HIDE DEF after
  <2>3. CASE slot.elapsed # Done
    <3>1. Left(slot) = slot.latched.ticks - slot.elapsed /\ Leaving(slot) = slot.prev
      BY <2>3 DEF Left, Leaving
    <3>2. CASE after.elapsed = Done /\ slot.elapsed + 1 = slot.latched.ticks
      BY <1>1, <2>1, <2>2, <2>3, <3>1, <3>2 DEF Left, Leaving, after
    <3>3. CASE after.elapsed = slot.elapsed + 1 /\ after.prev = slot.prev /\ after.elapsed # Done
      <4>1. Left(after) = slot.latched.ticks - (slot.elapsed + 1)
        BY <2>1, <3>3 DEF Left
      <4>2. Leaving(after) = slot.prev
        BY <3>3 DEF Leaving
      <4>3. Left(slot) > 0 /\ Left(after) = Left(slot) - 1
        BY <1>1, <2>2, <2>3, <3>1, <4>1
      <4>4. Whole(after)
        BY <1>3, StepGoesOn DEF after
      <4>5. Left(after) > 0
        BY <1>1, <2>1, <3>3, <4>1, <4>4 DEF Whole
      <4>6. QED
        BY <2>1, <3>1, <4>2, <4>3, <4>5 DEF after
    <3>4. slot.elapsed + 1 # Done
      BY <1>1, <2>2, <2>3 DEF Done
    <3>5. QED
      BY <2>1, <2>3, <3>2, <3>3, <3>4
  <2>4. QED
    BY <2>1, <2>3 DEF after
<1>4. QED
  BY <1>2, <1>3

-----------------------------------------------------------------------------
(* The cursor and what it resolves to.                                     *)

(* What PictureTypeOK says of what a tick reads.                                  *)
Sources ==
  /\ rotation \in Rotations
  /\ selected \in [entry : Ids \cup {NoId}, group : {NoId} \cup {s.group : s \in Selections},
                   alt : BOOLEAN, paused : BOOLEAN,
                   centre : AllManners, backdrop : AllManners]
  /\ index \in Nat \ {0}
  /\ current \in Ids \cup {NoId}

(* The first entry of an id is an entry of that id.                        *)
LEMMA FirstIsPlace ==
  ASSUME rotation \in Rotations, NEW theId, Places(theId) # {}
  PROVE  FirstPlace(theId) \in Places(theId)
<1>1. Places(theId) \subseteq Nat
  BY ParameterAssumption DEF Places
<1>2. \E i \in Places(theId) : \A j \in Places(theId) : i <= j
  BY <1>1, LeastNatural
<1>3. QED
  BY <1>2 DEF FirstPlace

(* The cursor is inside any rotation that has entries.                     *)
LEMMA IndexInside ==
  ASSUME Sources, rotation.entries # <<>>
  PROVE  /\ NextIndex \in DOMAIN rotation.entries
         /\ NextIndex \in Nat \ {0}
         /\ rotation.entries[NextIndex] \in Entry
<1>1. rotation.entries \in Seq(Entry)
  BY ParameterAssumption DEF Sources
<1>2. 1 \in DOMAIN rotation.entries
  BY <1>1
<1>3. NextIndex \in DOMAIN rotation.entries
  BY <1>2, FirstIsPlace DEF NextIndex, ClampedIndex, Places, Sources
<1>4. QED
  BY <1>1, <1>3

LEMMA InputTypes ==
  ASSUME Sources
  PROVE  /\ NextInput.entry \in Ids \cup {NoId}
         /\ NextInput.centre \in Images /\ NextInput.backdrop \in Images
         /\ NextInput.centreBy \in AllManners /\ NextInput.backdropBy \in AllManners
         /\ rotation.entries # <<>> => NextInput = InputFrom(NextIndex)
<1>1. DefaultManner \in AllManners /\ Preview \in AllManners /\ Cut \in AllManners
  BY DEF AllManners
<1>2. CASE rotation.entries = <<>>
  BY <1>1, <1>2, NobodyIsShown DEF NextInput, EmptyInput
<1>3. CASE rotation.entries # <<>>
  <2>1. NextInput = InputFrom(NextIndex)
    BY <1>3, IndexInside DEF NextInput
  <2>2. CentreManner \in AllManners /\ BackdropManner \in AllManners
    BY <1>1 DEF CentreManner, BackdropManner, Sources
  <2>3. ColumnOf(rotation.entries[NextIndex]) \in Column
    BY <1>3, IndexInside DEF ColumnOf, Entry
  <2>4. rotation.entries[NextIndex].id \in Ids
    BY <1>3, IndexInside DEF Entry
  <2>5. QED
    BY <2>1, <2>2, <2>3, <2>4, NobodyIsShown DEF InputFrom, Column
<1>4. QED
  BY <1>2, <1>3

-----------------------------------------------------------------------------
(* The inductive invariant.                                                *)

(* A tick notes the entry the cursor is at ...                             *)
Noted ==
  stable >= 1 /\ rotation.entries # <<>> =>
    index \in DOMAIN rotation.entries /\ current = rotation.entries[index].id

(* ... and the next one moves it, if the rotation under it was changed.    *)
Followed == stable >= 2 /\ Resolvable => current = Authoritative

(* From then on a tick hands over what the last one did.                   *)
Given == stable >= 2 => input = NextInput

Shown == stable >= 1 => centre.image = input.centre /\ backdrop.image = input.backdrop

(* A change that is still under way goes on since then.                    *)
Ramps ==
  stable >= 2 =>
    /\ centre.elapsed # Done => centre.elapsed >= stable - 1
    /\ backdrop.elapsed # Done => backdrop.elapsed >= stable - 1

PictureInductive ==
  /\ PictureTypeOK /\ Whole(centre) /\ Whole(backdrop)
  /\ Noted /\ Followed /\ Given /\ Shown /\ Ramps

LEMMA PictureStarts == PictureInit => PictureInductive
<1> SUFFICES ASSUME PictureInit PROVE PictureInductive
  OBVIOUS
<1>1. PictureTypeOK
  <2>1. /\ Longest \in Nat /\ Done \in Done..Longest /\ Settled \in Nat
        /\ DefaultManner \in AllManners /\ Manners \subseteq AllManners
    BY LongestBounds DEF Done, Settled, AllManners
  <2>2. Empty \in Slot
    BY <2>1, NobodyIsShown DEF Empty, Slot
  <2>3. selected \in [entry : Ids \cup {NoId}, group : {NoId} \cup {s.group : s \in Selections},
                      alt : BOOLEAN, paused : BOOLEAN,
                      centre : AllManners, backdrop : AllManners]
    <3>1. CASE selected = Unselected
      BY <2>1, <3>1 DEF Unselected
    <3>2. CASE selected \in Selections
      BY <2>1, <3>2, ParameterAssumption
    <3>3. QED
      BY <3>1, <3>2 DEF PictureInit
  <2>4. QED
    BY <2>1, <2>2, <2>3 DEF PictureInit, PictureTypeOK
<1>2. QED
  BY <1>1 DEF PictureInit, PictureInductive, Empty, Whole, Noted, Followed, Given, Shown, Ramps

(* The config thread starts the count of undisturbed ticks over.           *)
LEMMA SwapsKeep == PictureInductive /\ (Commit \/ ThemeRead) => PictureInductive'
<1> SUFFICES ASSUME PictureInductive, Commit \/ ThemeRead PROVE PictureInductive'
  OBVIOUS
<1>1. /\ stable' = 0
      /\ UNCHANGED <<index, current, input, centre, backdrop>>
      /\ rotation' \in Rotations
  BY DEF Commit, ThemeRead, PictureInductive, PictureTypeOK
<1>2. selected' \in [entry : Ids \cup {NoId}, group : {NoId} \cup {s.group : s \in Selections},
                     alt : BOOLEAN, paused : BOOLEAN,
                     centre : AllManners, backdrop : AllManners]
  <2>1. DefaultManner \in AllManners /\ Manners \subseteq AllManners
    BY DEF AllManners
  <2>2. CASE Commit
    BY <2>1, <2>2 DEF Commit, PictureInductive, PictureTypeOK
  <2>3. CASE ThemeRead
    <3>1. selected' \in Selections
      BY <2>3 DEF ThemeRead
    <3>2. QED
      BY <2>1, <3>1, ParameterAssumption
  <2>4. QED
    BY <2>2, <2>3
<1>3. Settled \in Nat
  BY LongestBounds DEF Settled
<1>4. PictureTypeOK'
  BY <1>1, <1>2, <1>3 DEF PictureInductive, PictureTypeOK
<1>5. QED
  BY <1>1, <1>4 DEF PictureInductive, Whole, Noted, Followed, Given, Shown, Ramps

(* What a tick does to the cursor and hands over ...                       *)
LEMMA TickReads ==
  ASSUME Sources, PictureTick
  PROVE  /\ Sources' /\ UNCHANGED <<rotation, selected>>
         /\ input' = NextInput
         /\ rotation.entries = <<>> =>
              /\ index' = index /\ current' = current /\ input' = EmptyInput
         /\ rotation.entries # <<>> =>
              /\ index' = NextIndex /\ index' \in DOMAIN rotation.entries
              /\ current' = rotation.entries[NextIndex].id
              /\ input' = InputFrom(NextIndex)
<1>1. CASE rotation.entries = <<>>
  BY <1>1 DEF PictureTick, Sources, NextInput
<1>2. CASE rotation.entries # <<>>
  BY <1>2, IndexInside, InputTypes DEF PictureTick, Sources, NextCurrent, Entry
<1>3. QED
  BY <1>1, <1>2 DEF PictureTick

(* ... and to the slots.                                                   *)
LEMMA TickSteps ==
  ASSUME PictureTick
  PROVE  /\ centre' = Stepped(centre, input'.centre, input'.centreBy,
              CentreRuns(input'.centreBy), input'.paused)
         /\ backdrop' = Stepped(backdrop, input'.backdrop, input'.backdropBy,
              BackdropRuns(input'.backdropBy), input'.paused)
<1>1. /\ centre' = RampAdvanced(CentreIngested(input'.centre, input'.centreBy), input'.paused)
      /\ backdrop' = RampAdvanced(BackdropIngested(input'.backdrop, input'.backdropBy), input'.paused)
  BY DEF PictureTick
<1>2. ASSUME NEW image, NEW manner
      PROVE  /\ Changed(centre, image, manner, centre.image # Nobody /\ manner.ticks > 0)
                  = Changed(centre, image, manner, CentreRuns(manner))
             /\ Changed(backdrop, image, manner, manner.ticks > 0)
                  = Changed(backdrop, image, manner, BackdropRuns(manner))
  BY DEF Changed, CentreRuns, BackdropRuns
<1>3. QED
  BY <1>1, <1>2, Zenon DEF CentreIngested, BackdropIngested, Stepped

(* A slot after a tick, whatever it takes in.                              *)
LEMMA StepTypes ==
  ASSUME NEW slot \in Slot, Whole(slot), NEW image \in Images, NEW manner \in AllManners,
         NEW runs \in BOOLEAN, NEW paused
  PROVE  LET after == Stepped(slot, image, manner, runs, paused)
         IN after \in Slot /\ Whole(after) /\ after.image = image
<1>1. CASE image = slot.image
  BY <1>1, StepGoesOn
<1>2. CASE image # slot.image
  BY <1>2, StepChanges
<1>3. QED
  BY <1>1, <1>2

(* The count of undisturbed ticks goes on.                                 *)
LEMMA TickCounts ==
  ASSUME PictureTypeOK, PictureTick
  PROVE  /\ stable' \in 0..Settled /\ stable' >= 1
         /\ stable' >= 2 => stable >= 1
         /\ stable' = stable + 1 \/ (stable = Settled /\ stable' = Settled)
         /\ Settled = Longest + 2 /\ Settled \in Nat /\ stable \in Nat
<1>1. Settled \in Nat /\ Settled = Longest + 2 /\ Longest \in Nat
  BY LongestBounds DEF Settled
<1>2. stable \in 0..Settled /\ stable' = IF stable < Settled THEN stable + 1 ELSE stable
  BY DEF PictureTypeOK, PictureTick
<1>3. QED
  BY <1>1, <1>2

(* Where two ticks found the same snapshot, the cursor rests.              *)
LEMMA TickFollows ==
  ASSUME Sources, PictureTypeOK, Noted, PictureTick
  PROVE  Noted' /\ Followed' /\ Given'
<1>1. /\ Authoritative' = Authoritative /\ UNCHANGED <<rotation, selected>>
      /\ \A theId : Places(theId)' = Places(theId)
  BY TickReads DEF Authoritative, Pinned, GroupMatches, Places
<1>2. Noted'
  BY TickReads DEF Noted
<1>3. Followed'
  <2> SUFFICES ASSUME stable' >= 2, Resolvable' PROVE current' = Authoritative
    BY <1>1 DEF Followed
  <2>1. Places(Authoritative) # {} /\ stable >= 1
    BY <1>1, TickCounts DEF Resolvable
  <2>2. rotation.entries # <<>>
    BY <2>1 DEF Places
  <2>3. CASE Authoritative # current
    <3>1. NextIndex = FirstPlace(Authoritative)
      BY <2>1, <2>3 DEF NextIndex
    <3>2. FirstPlace(Authoritative) \in Places(Authoritative)
      BY <2>1, FirstIsPlace DEF Sources
    <3>3. QED
      BY <2>2, <3>1, <3>2, TickReads DEF Places
  <2>4. CASE Authoritative = current
    <3>1. NextIndex = index /\ current = rotation.entries[index].id
      BY <2>1, <2>2, <2>4 DEF NextIndex, ClampedIndex, Noted
    <3>2. QED
      BY <2>2, <2>4, <3>1, TickReads
  <2>5. QED
    BY <2>3, <2>4
<1>4. Given'
  <2> SUFFICES ASSUME stable' >= 2 PROVE input' = NextInput'
    BY DEF Given
  <2>1. CASE rotation.entries = <<>>
    BY <1>1, <2>1, TickReads DEF NextInput, EmptyInput
  <2>2. CASE rotation.entries # <<>>
    <3>1. /\ index' \in DOMAIN rotation'.entries
          /\ ~(Authoritative' # current' /\ Places(Authoritative)' # {})
      BY <1>1, <1>3, <2>2, TickReads DEF Followed, Resolvable
    <3>2. NextIndex' = index'
      BY <3>1 DEF NextIndex, ClampedIndex, Places
    <3>3. NextInput' = InputFrom(NextIndex)
      BY <1>1, <2>2, <3>1, <3>2, TickReads
         DEF NextInput, InputFrom, ColumnOf, CentreManner, BackdropManner, Pinned, GroupMatches
    <3>4. QED
      BY <2>2, <3>3, TickReads
  <2>3. QED
    BY <2>1, <2>2
<1>5. QED
  BY <1>2, <1>3, <1>4

(* A slot's change goes on with the count, while it is handed the same.    *)
LEMMA StepRamps ==
  ASSUME NEW slot \in Slot, Whole(slot), NEW manner \in AllManners, NEW runs, NEW paused,
         NEW n \in Nat, slot.elapsed # Done => slot.elapsed >= n
  PROVE  LET after == Stepped(slot, slot.image, manner, runs, paused)
         IN after.elapsed # Done => after.elapsed >= n + 1
<1>1. slot.elapsed \in Int
  BY LongestBounds DEF Slot, Done
<1>2. QED
  BY <1>1, StepGoesOn

(* A change cannot have gone on for longer than the longest.               *)
LEMMA RampEnds ==
  ASSUME NEW slot \in Slot, Whole(slot), slot.elapsed # Done => slot.elapsed >= Longest
  PROVE  slot.elapsed = Done
<1>1. slot.latched.ticks \in Nat /\ slot.latched.ticks <= Longest /\ Longest \in Nat
  BY LongestBounds DEF Slot
<1>2. QED
  BY <1>1 DEF Whole

(* The same of both slots: what a tick leaves of a slot that is handed what
   it shows.                                                               *)
LEMMA RestingStep ==
  ASSUME PictureTypeOK, PictureTick, stable' >= 2, NEW slot \in Slot, Whole(slot), NEW manner \in AllManners,
         NEW image \in Images, NEW runs \in BOOLEAN, NEW paused,
         stable >= 2 => image = slot.image,
         stable >= 2 => (slot.elapsed # Done => slot.elapsed >= stable - 1)
  PROVE  LET after == Stepped(slot, image, manner, runs, paused)
         IN after.elapsed # Done => after.elapsed >= stable' - 1
<1> DEFINE after == Stepped(slot, image, manner, runs, paused)
<1> SUFFICES ASSUME after.elapsed # Done PROVE after.elapsed >= stable' - 1
  OBVIOUS
<1>1. after \in Slot /\ Whole(after)
  BY StepTypes
<1>2. after.latched.ticks \in Nat /\ after.elapsed \in Int
  BY <1>1, LongestBounds DEF Slot, Done
<1>3. after.elapsed >= 1
  BY <1>1, <1>2 DEF Whole
<1> HIDE DEF after
<1>4. CASE stable < 2
  BY <1>2, <1>3, <1>4, TickCounts
<1>5. CASE stable >= 2
  <2>1. stable - 1 \in Nat /\ stable \in Nat
    BY <1>5, TickCounts
  <2>2. after.elapsed >= (stable - 1) + 1
    BY <1>5, <2>1, StepRamps DEF after
  <2>3. stable # Settled
    <3> SUFFICES ASSUME stable = Settled PROVE FALSE
      OBVIOUS
    <3>1. slot.elapsed # Done => slot.elapsed >= Longest
      <4>1. slot.elapsed \in Int /\ Longest \in Nat
        BY LongestBounds DEF Slot, Done
      <4>2. QED
        BY <1>5, <4>1, TickCounts
    <3>2. slot.elapsed = Done
      BY <3>1, RampEnds
    <3>3. after = slot
      BY <1>5, <3>2, StepGoesOn DEF after
    <3>4. QED
      BY <3>2, <3>3
  <2>4. stable' = stable + 1
    BY <2>3, TickCounts
  <2>5. QED
    BY <1>2, <2>1, <2>2, <2>4
<1>6. QED
  BY <1>4, <1>5, TickCounts

LEMMA PictureTickKeeps == PictureInductive /\ PictureTick => PictureInductive'
<1> SUFFICES ASSUME PictureInductive, PictureTick PROVE PictureInductive'
  OBVIOUS
<1> DEFINE onCentre == CentreRuns(input'.centreBy)
           onBackdrop == BackdropRuns(input'.backdropBy)
<1>1. Sources /\ PictureTypeOK /\ Noted /\ centre \in Slot /\ backdrop \in Slot
      /\ Whole(centre) /\ Whole(backdrop)
  BY DEF PictureInductive, PictureTypeOK, Sources
<1>2. Sources' /\ input' = NextInput
  BY <1>1, TickReads
<1>3. /\ input'.entry \in Ids \cup {NoId}
      /\ input'.centre \in Images /\ input'.backdrop \in Images
      /\ input'.centreBy \in AllManners /\ input'.backdropBy \in AllManners
  BY <1>1, <1>2, InputTypes
<1>4. /\ centre' = Stepped(centre, input'.centre, input'.centreBy, onCentre, input'.paused)
      /\ backdrop' = Stepped(backdrop, input'.backdrop, input'.backdropBy, onBackdrop, input'.paused)
  BY TickSteps
<1>5. onCentre \in BOOLEAN /\ onBackdrop \in BOOLEAN
  BY DEF CentreRuns, BackdropRuns
<1> HIDE DEF onCentre, onBackdrop
<1>6. /\ centre' \in Slot /\ Whole(centre') /\ centre'.image = input'.centre
      /\ backdrop' \in Slot /\ Whole(backdrop') /\ backdrop'.image = input'.backdrop
  BY <1>1, <1>3, <1>4, <1>5, StepTypes
<1>7. PictureTypeOK'
  BY <1>1, <1>2, <1>3, <1>6, TickCounts DEF PictureTypeOK, Sources
<1>8. Noted' /\ Followed' /\ Given'
  BY <1>1, TickFollows
<1>9. Shown'
  BY <1>6 DEF Shown
<1>10. Ramps'
  <2> SUFFICES ASSUME stable' >= 2
               PROVE  /\ centre'.elapsed # Done => centre'.elapsed >= stable' - 1
                      /\ backdrop'.elapsed # Done => backdrop'.elapsed >= stable' - 1
    BY DEF Ramps
  <2>1. stable >= 2 => input' = input
    BY <1>2 DEF PictureInductive, Given
  <2>2. stable >= 2 => input'.centre = centre.image /\ input'.backdrop = backdrop.image
    BY <1>1, <2>1, TickCounts DEF PictureInductive, Shown
  <2>3. centre'.elapsed # Done => centre'.elapsed >= stable' - 1
    BY <1>1, <1>3, <1>4, <1>5, <2>2, RestingStep DEF PictureInductive, Ramps
  <2>4. backdrop'.elapsed # Done => backdrop'.elapsed >= stable' - 1
    BY <1>1, <1>3, <1>4, <1>5, <2>2, RestingStep DEF PictureInductive, Ramps
  <2>5. QED
    BY <2>3, <2>4
<1>11. Whole(centre)' /\ Whole(backdrop)'
  BY <1>6 DEF Whole
<1>12. QED
  BY <1>7, <1>8, <1>9, <1>10, <1>11 DEF PictureInductive

LEMMA PictureKeeps == PictureInductive /\ [PictureNext]_pictureVars => PictureInductive'
<1>1. PictureInductive /\ UNCHANGED pictureVars => PictureInductive'
  <2> SUFFICES ASSUME PictureInductive, UNCHANGED pictureVars PROVE PictureInductive'
    OBVIOUS
  <2>1. PictureTypeOK' /\ Whole(centre)' /\ Whole(backdrop)' /\ Shown' /\ Ramps'
    BY DEF PictureInductive, pictureVars, PictureTypeOK, Whole, Shown, Ramps
  <2>2. Noted' /\ Followed' /\ Given'
    <3>1. Noted' /\ Followed'
      BY DEF PictureInductive, pictureVars, Noted, Followed, Resolvable, Places, Authoritative, Pinned, GroupMatches
    <3>2. NextInput' = NextInput
      BY DEF pictureVars, Places, Authoritative, Pinned,
         GroupMatches, NextInput, EmptyInput, NextIndex, FirstPlace, ClampedIndex, InputFrom,
         ColumnOf, CentreManner, BackdropManner
    <3>3. QED
      BY <3>1, <3>2 DEF PictureInductive, pictureVars, Given
  <2>3. QED
    BY <2>1, <2>2 DEF PictureInductive
<1>2. QED
  BY <1>1, SwapsKeep, PictureTickKeeps DEF PictureNext

LEMMA PictureInductiveHolds == PictureSpec => []PictureInductive
BY PictureStarts, PictureKeeps, PTL DEF PictureSpec

-----------------------------------------------------------------------------

(* The cursor rests on an entry with the wanted id.                        *)
LEMMA Rests ==
  ASSUME PictureInductive, stable >= 2, Resolvable
  PROVE  /\ index \in Places(Authoritative)
         /\ input = InputFrom(index)
         /\ rotation.entries[index].id = Authoritative
<1>1. rotation.entries # <<>> /\ Sources /\ stable >= 1
  BY DEF Resolvable, Places, PictureInductive, PictureTypeOK, Sources, Settled
<1>2. current = Authoritative /\ index \in DOMAIN rotation.entries
      /\ current = rotation.entries[index].id
  BY <1>1 DEF PictureInductive, Followed, Noted
<1>3. NextIndex = index
  BY <1>2 DEF NextIndex, ClampedIndex
<1>4. input = InputFrom(index)
  BY <1>1, <1>3, InputTypes DEF PictureInductive, Given
<1>5. QED
  BY <1>2, <1>4 DEF Places

(* Whatever rotations the dashboard commits and whatever it selects, two
   ticks after the last change the entry shown is the one selected or pinned
   (Engine::publishSimulationInput: the cursor is looked up only when the id
   changes, while commits change the rotation under it).                   *)
THEOREM PictureInvHolds == PictureSpec => []PictureInv
<1>1. PictureInductive => PictureInv
  <2> SUFFICES ASSUME PictureInductive PROVE PictureInv
    OBVIOUS
  <2>1. SelectionSettles
    BY Rests DEF SelectionSettles, InputFrom
  <2>2. QED
    BY <2>1 DEF PictureInductive, PictureInv
<1>2. QED
  BY <1>1, PictureInductiveHolds, PTL

(* And once the longest transition could have run, paused or not, both slots
   rest on the images of one entry of that id (Simulation::ingest and
   advanceConfiguration).                                                  *)
THEOREM PictureSettlesHolds == PictureSpec => []PictureSettles
<1>1. PictureInductive => PictureSettles
  <2> SUFFICES ASSUME PictureInductive, stable = Settled, Resolvable
               PROVE  /\ centre.elapsed = Done /\ backdrop.elapsed = Done
                      /\ \E i \in Places(Authoritative) :
                           /\ centre.image = IF rotation.message THEN Nobody ELSE Wanted(i).centre
                           /\ backdrop.image = Wanted(i).backdrop
    BY DEF PictureSettles
  <2>1. Longest \in Nat /\ stable = Longest + 2
    BY LongestBounds DEF Settled
  <2>2. stable >= 2 /\ stable >= 1 /\ stable - 1 >= Longest
    BY <2>1
  <2>3. /\ index \in Places(Authoritative)
        /\ input = InputFrom(index)
    BY <2>2, Rests
  <2>4. /\ centre.image = IF rotation.message THEN Nobody ELSE Wanted(index).centre
        /\ backdrop.image = Wanted(index).backdrop
    BY <2>2, <2>3 DEF PictureInductive, Shown, InputFrom, Wanted
  <2>5. /\ centre \in Slot /\ Whole(centre) /\ centre.elapsed \in Int
        /\ backdrop \in Slot /\ Whole(backdrop) /\ backdrop.elapsed \in Int
    BY <2>1 DEF PictureInductive, PictureTypeOK, Slot, Done
  <2>6. /\ centre.elapsed # Done => centre.elapsed >= Longest
        /\ backdrop.elapsed # Done => backdrop.elapsed >= Longest
    BY <2>1, <2>2, <2>5 DEF PictureInductive, Ramps
  <2>7. centre.elapsed = Done /\ backdrop.elapsed = Done
    BY <2>5, <2>6, RampEnds
  <2>8. QED
    BY <2>3, <2>4, <2>7
<1>2. QED
  BY <1>1, PictureInductiveHolds, PTL

-----------------------------------------------------------------------------
(* The slots keep what is promised of them.                                *)

LEMMA InitPromised == PictureInit => Centre!Init /\ Backdrop!Init
<1>1. DefaultManner \in AllManners
  BY DEF AllManners
<1>2. QED
  BY <1>1 DEF PictureInit, Empty, Centre!Init, Backdrop!Init, Leaving, Left

LEMMA TickPromised ==
  ASSUME PictureInductive, PictureTick
  PROVE  [Centre!Next]_(Centre!vars) /\ [Backdrop!Next]_(Backdrop!vars)
<1>1. Sources /\ centre \in Slot /\ backdrop \in Slot /\ Whole(centre) /\ Whole(backdrop)
  BY DEF PictureInductive, PictureTypeOK, Sources
<1>2. /\ input'.centre \in Images /\ input'.backdrop \in Images
      /\ input'.centreBy \in AllManners /\ input'.backdropBy \in AllManners
  BY <1>1, TickReads, InputTypes
<1>3. \/ /\ input'.centre # centre.image
         /\ centre'.image = input'.centre /\ centre'.latched = input'.centreBy
         /\ LET ticks == IF CentreRuns(input'.centreBy) THEN input'.centreBy.ticks ELSE 0
            IN Left(centre') = IF ticks > 0 THEN ticks - 1 ELSE 0
         /\ Leaving(centre') = IF Left(centre') > 0 THEN centre.image ELSE Nobody
      \/ /\ centre'.image = centre.image /\ centre'.latched = centre.latched
         /\ Left(centre) > 0 /\ Left(centre') = Left(centre) - 1
         /\ Leaving(centre') = IF Left(centre') > 0 THEN Leaving(centre) ELSE Nobody
      \/ centre' = centre
  <2> DEFINE after == Stepped(centre, input'.centre, input'.centreBy,
                        CentreRuns(input'.centreBy), input'.paused)
             ticks == IF CentreRuns(input'.centreBy) THEN input'.centreBy.ticks ELSE 0
  <2>1. centre' = after
    BY TickSteps
  <2>2. \/ /\ input'.centre # centre.image /\ after.image = input'.centre
           /\ after.latched = input'.centreBy
           /\ Left(after) = IF ticks > 0 THEN ticks - 1 ELSE 0
           /\ Leaving(after) = IF Left(after) > 0 THEN centre.image ELSE Nobody
        \/ /\ after.image = centre.image /\ after.latched = centre.latched
           /\ Left(centre) > 0 /\ Left(after) = Left(centre) - 1
           /\ Leaving(after) = IF Left(after) > 0 THEN Leaving(centre) ELSE Nobody
        \/ after = centre
    <3>1. CentreRuns(input'.centreBy) \in BOOLEAN
      BY DEF CentreRuns
    <3>2. QED
      BY <1>1, <1>2, <3>1, StepPromised
  <2> HIDE DEF after
  <2>3. QED
    BY <2>1, <2>2, Zenon
<1>4. \/ /\ input'.backdrop # backdrop.image
         /\ backdrop'.image = input'.backdrop /\ backdrop'.latched = input'.backdropBy
         /\ LET ticks == IF BackdropRuns(input'.backdropBy) THEN input'.backdropBy.ticks ELSE 0
            IN Left(backdrop') = IF ticks > 0 THEN ticks - 1 ELSE 0
         /\ Leaving(backdrop') = IF Left(backdrop') > 0 THEN backdrop.image ELSE Nobody
      \/ /\ backdrop'.image = backdrop.image /\ backdrop'.latched = backdrop.latched
         /\ Left(backdrop) > 0 /\ Left(backdrop') = Left(backdrop) - 1
         /\ Leaving(backdrop') = IF Left(backdrop') > 0 THEN Leaving(backdrop) ELSE Nobody
      \/ backdrop' = backdrop
  <2> DEFINE after == Stepped(backdrop, input'.backdrop, input'.backdropBy,
                        BackdropRuns(input'.backdropBy), input'.paused)
             ticks == IF BackdropRuns(input'.backdropBy) THEN input'.backdropBy.ticks ELSE 0
  <2>1. backdrop' = after
    BY TickSteps
  <2>2. \/ /\ input'.backdrop # backdrop.image /\ after.image = input'.backdrop
           /\ after.latched = input'.backdropBy
           /\ Left(after) = IF ticks > 0 THEN ticks - 1 ELSE 0
           /\ Leaving(after) = IF Left(after) > 0 THEN backdrop.image ELSE Nobody
        \/ /\ after.image = backdrop.image /\ after.latched = backdrop.latched
           /\ Left(backdrop) > 0 /\ Left(after) = Left(backdrop) - 1
           /\ Leaving(after) = IF Left(after) > 0 THEN Leaving(backdrop) ELSE Nobody
        \/ after = backdrop
    <3>1. BackdropRuns(input'.backdropBy) \in BOOLEAN
      BY DEF BackdropRuns
    <3>2. QED
      BY <1>1, <1>2, <3>1, StepPromised
  <2> HIDE DEF after
  <2>3. QED
    BY <2>1, <2>2, Zenon
<1>5. [Centre!Next]_(Centre!vars)
  <2>1. CASE centre' = centre
    BY <2>1 DEF Centre!vars, Leaving, Left
  <2>2. CASE centre' # centre
    BY <1>2, <1>3, <2>2 DEF CentreRuns, Centre!Next, Centre!Change, Centre!Advance
  <2>3. QED
    BY <2>1, <2>2
<1>6. [Backdrop!Next]_(Backdrop!vars)
  <2>1. CASE backdrop' = backdrop
    BY <2>1 DEF Backdrop!vars, Leaving, Left
  <2>2. CASE backdrop' # backdrop
    BY <1>2, <1>4, <2>2 DEF BackdropRuns, Backdrop!Next, Backdrop!Change, Backdrop!Advance
  <2>3. QED
    BY <2>1, <2>2
<1>7. QED
  BY <1>5, <1>6

LEMMA NextPromised == PictureInductive /\ [PictureNext]_pictureVars => [Centre!Next]_(Centre!vars) /\ [Backdrop!Next]_(Backdrop!vars)
<1>1. Commit \/ ThemeRead \/ UNCHANGED pictureVars => UNCHANGED <<centre, backdrop>>
  BY DEF Commit, ThemeRead, pictureVars
<1>2. UNCHANGED <<centre, backdrop>> => UNCHANGED Centre!vars /\ UNCHANGED Backdrop!vars
  BY DEF Centre!vars, Backdrop!vars, Leaving, Left
<1>3. QED
  BY <1>1, <1>2, TickPromised DEF PictureNext

(* Whatever the config thread swaps and whenever, both image slots do what
   specs/backdrop-transitions.md promises of a slot: the simulation's ingest
   and ramps implement SlotPromise, for any set of transitions.            *)
THEOREM SlotsKeepPromiseHolds == PictureSpec => SlotsKeepPromise
BY PictureInductiveHolds, InitPromised, NextPromised, PTL DEF PictureSpec, SlotsKeepPromise, Centre!Spec, Backdrop!Spec

-----------------------------------------------------------------------------
(* Slots.                                                                  *)

LEMMA DriverUnits ==
  /\ Full \in Nat /\ Full > 0 /\ Delta \in Nat /\ Delta > 0 /\ Beat \in Nat /\ Beat > 0
  /\ Bar \in Nat /\ Bar > 0 /\ Grain \in Nat /\ Grain > 0 /\ Length \in Nat /\ Songs \in Nat
  /\ Lowest \in Int /\ Highest \in Int /\ Default \in Int /\ Lowest <= Highest
BY UnitsAssumption

Phases == {"idle", "attack", "hold", "release"}
(* The provers do not know that a literal is a string.                     *)
Kinds == STRING \cup {"beat"}

Windows == {NoKey} \cup (Kinds \X Nat \X Int)
Events == Windows \cup {Append(w, "!") : w \in Windows}

SlotRecords ==
  [level : 0..Full, phase : Phases, hold : Int, key : Events, current : 0..Full,
   target : Int, count : Nat, track : Nat, seen : BOOLEAN, window : Windows, fired : BOOLEAN]

(* A slot at rest has no level, and has counted no more songs than it saw. *)
SlotsAt(song) ==
  {s \in SlotRecords : /\ s.phase = "idle" => s.level = 0
                       /\ s.count <= s.track /\ s.track <= song}

TimesOK == [attack : Nat, hold : Nat, release : Nat]

(* A slot and what is left of the frame.                                   *)
Walks(song) == [slot : SlotsAt(song), remaining : Nat]

LEMMA AttackingWalks ==
  ASSUME NEW song \in Nat, NEW w \in Walks(song), NEW times \in TimesOK,
         w.slot.phase = "attack"
  PROVE  Attacking(w, times) \in Walks(song)
<1> DEFINE needed == IF times.attack = 0 THEN 0 ELSE Full - w.slot.level
<1>1. /\ w.slot \in SlotRecords /\ w.slot.level \in 0..Full /\ w.remaining \in Nat
      /\ w = [slot |-> w.slot, remaining |-> w.remaining]
      /\ w.slot.count <= w.slot.track /\ w.slot.track <= song
  BY DEF Walks, SlotsAt, SlotRecords
<1>2. needed \in Nat
  BY <1>1, DriverUnits DEF TimesOK
<1>3. CASE w.remaining >= needed
  <2>1. Attacking(w, times) = [slot |-> [w.slot EXCEPT !.level = Full, !.phase = "hold"],
                               remaining |-> w.remaining - needed]
    BY <1>1, <1>3 DEF Attacking
  <2> HIDE DEF needed
  <2>2. Full \in 0..Full /\ "hold" \in Phases
    BY DriverUnits DEF Phases
  <2>3. [w.slot EXCEPT !.level = Full, !.phase = "hold"] \in SlotsAt(song)
    BY <1>1, <2>2 DEF SlotsAt, SlotRecords
  <2>4. QED
    BY <1>1, <1>2, <1>3, <2>1, <2>3 DEF Walks
<1>4. CASE ~(w.remaining >= needed)
  <2>1. Attacking(w, times) = [slot |-> [w.slot EXCEPT !.level = w.slot.level + w.remaining],
                               remaining |-> 0]
    BY <1>1, <1>4 DEF Attacking
  <2>2. w.slot.level + w.remaining \in 0..Full
    BY <1>1, <1>4, DriverUnits
  <2>3. [w.slot EXCEPT !.level = w.slot.level + w.remaining] \in SlotsAt(song)
    BY <1>1, <2>2 DEF SlotsAt, SlotRecords
  <2>4. QED
    BY <2>1, <2>3 DEF Walks
<1>5. QED
  BY <1>3, <1>4

LEMMA HoldingWalks ==
  ASSUME NEW song \in Nat, NEW w \in Walks(song), w.slot.phase = "hold"
  PROVE  Holding(w) \in Walks(song)
<1>1. /\ w.slot \in SlotRecords /\ w.slot.hold \in Int /\ w.remaining \in Nat
      /\ w = [slot |-> w.slot, remaining |-> w.remaining]
      /\ w.slot.count <= w.slot.track /\ w.slot.track <= song
  BY DEF Walks, SlotsAt, SlotRecords
<1>2. CASE w.slot.hold <= 0
  <2>1. Holding(w) = [slot |-> [w.slot EXCEPT !.phase = "release"], remaining |-> w.remaining]
    BY <1>1, <1>2 DEF Holding
  <2>2. [w.slot EXCEPT !.phase = "release"] \in SlotsAt(song)
    BY <1>1 DEF SlotsAt, SlotRecords, Phases
  <2>3. QED
    BY <1>1, <2>1, <2>2 DEF Walks
<1>3. CASE ~(w.slot.hold <= 0)
  <2> DEFINE used == Lesser(w.remaining, w.slot.hold)
             left == w.slot.hold - used
             after == IF left = 0 THEN "release" ELSE "hold"
  <2>1. used \in Nat /\ w.remaining - used \in Nat /\ left \in Int
    BY <1>1, <1>3 DEF Lesser
  <2>2. Holding(w) = [slot |-> [w.slot EXCEPT !.hold = left, !.phase = after],
                      remaining |-> w.remaining - used]
    BY <1>1, <1>3 DEF Holding
  <2>3. after \in {"release", "hold"}
    OBVIOUS
  <2> HIDE DEF used, left, after
  <2>4. [w.slot EXCEPT !.hold = left, !.phase = after] \in SlotsAt(song)
    BY <1>1, <2>1, <2>3 DEF SlotsAt, SlotRecords, Phases
  <2>5. QED
    BY <2>1, <2>2, <2>4 DEF Walks
<1>4. QED
  BY <1>2, <1>3

LEMMA ReleasingWalks ==
  ASSUME NEW song \in Nat, NEW w \in Walks(song), NEW times \in TimesOK,
         w.slot.phase = "release"
  PROVE  Releasing(w, times) \in Walks(song)
<1> DEFINE needed == IF times.release = 0 THEN 0 ELSE w.slot.level
<1>1. /\ w.slot \in SlotRecords /\ w.slot.level \in 0..Full /\ w.remaining \in Nat
      /\ w = [slot |-> w.slot, remaining |-> w.remaining]
      /\ w.slot.count <= w.slot.track /\ w.slot.track <= song
  BY DEF Walks, SlotsAt, SlotRecords
<1>2. CASE w.remaining >= needed
  <2>1. Releasing(w, times) = [slot |-> [w.slot EXCEPT !.level = 0, !.phase = "idle"],
                               remaining |-> 0]
    BY <1>1, <1>2 DEF Releasing
  <2> HIDE DEF needed
  <2>2. 0 \in 0..Full /\ "idle" \in Phases
    BY DriverUnits DEF Phases
  <2>3. [w.slot EXCEPT !.level = 0, !.phase = "idle"] \in SlotsAt(song)
    BY <1>1, <2>2 DEF SlotsAt, SlotRecords
  <2>4. QED
    BY <2>1, <2>3 DEF Walks
<1>3. CASE ~(w.remaining >= needed)
  <2>1. Releasing(w, times) = [slot |-> [w.slot EXCEPT !.level = w.slot.level - w.remaining],
                               remaining |-> 0]
    BY <1>1, <1>3 DEF Releasing
  <2>2. w.slot.level - w.remaining \in 0..Full
    BY <1>1, <1>3, DriverUnits DEF TimesOK
  <2>3. [w.slot EXCEPT !.level = w.slot.level - w.remaining] \in SlotsAt(song)
    BY <1>1, <2>2 DEF SlotsAt, SlotRecords
  <2>4. QED
    BY <2>1, <2>3 DEF Walks
<1>4. QED
  BY <1>2, <1>3

LEMMA TurnWalks ==
  ASSUME NEW song \in Nat, NEW w \in Walks(song), NEW times \in TimesOK, NEW triggered
  PROVE  Turn(w, times, triggered) \in Walks(song)
<1>1. w.slot.phase \in Phases /\ w.remaining \in Nat
  BY DEF Walks, SlotsAt, SlotRecords
<1>2. CASE w.remaining = 0 \/ w.slot.phase = "idle"
  BY <1>2 DEF Turn
<1>3. CASE w.remaining > 0 /\ w.slot.phase = "attack"
  BY <1>3, AttackingWalks DEF Turn
<1>4. CASE w.remaining > 0 /\ w.slot.phase = "hold"
  BY <1>4, HoldingWalks DEF Turn
<1>5. CASE w.remaining > 0 /\ w.slot.phase = "release"
  BY <1>5, ReleasingWalks DEF Turn
<1>6. QED
  BY <1>1, <1>2, <1>3, <1>4, <1>5 DEF Phases

LEMMA TurnKeeps ==
  ASSUME NEW song \in Nat, NEW w \in Walks(song), NEW times, NEW triggered
  PROVE  /\ Turn(w, times, triggered).slot.key = w.slot.key
         /\ Turn(w, times, triggered).slot.current = w.slot.current
<1>1. /\ w.slot \in SlotRecords /\ w = [slot |-> w.slot, remaining |-> w.remaining]
      /\ w.slot = [level |-> w.slot.level, phase |-> w.slot.phase, hold |-> w.slot.hold,
                   key |-> w.slot.key, current |-> w.slot.current, target |-> w.slot.target,
                   count |-> w.slot.count, track |-> w.slot.track, seen |-> w.slot.seen,
                   window |-> w.slot.window, fired |-> w.slot.fired]
  BY DEF Walks, SlotsAt, SlotRecords
<1>2. Attacking(w, times).slot.key = w.slot.key /\ Attacking(w, times).slot.current = w.slot.current
  BY <1>1 DEF Attacking
<1>3. Holding(w).slot.key = w.slot.key /\ Holding(w).slot.current = w.slot.current
  BY <1>1 DEF Holding
<1>4. Releasing(w, times).slot.key = w.slot.key /\ Releasing(w, times).slot.current = w.slot.current
  BY <1>1 DEF Releasing
<1>5. Turn(w, times, triggered) \in {w, Attacking(w, times), Holding(w), Releasing(w, times)}
  BY DEF Turn
<1>6. QED
  BY <1>2, <1>3, <1>4, <1>5

Triggered(s, key) == key # NoKey /\ key # s.key

(* What the walk through a frame starts from.                              *)
Begun(s, times, key) ==
  [slot |-> IF Triggered(s, key)
            THEN [s EXCEPT !.key = key, !.phase = "attack", !.hold = times.hold]
            ELSE s,
   remaining |-> Delta]

LEMMA BegunWalks ==
  ASSUME NEW song \in Nat, NEW s \in SlotsAt(song), NEW times \in TimesOK, NEW key \in Events
  PROVE  /\ Begun(s, times, key) \in Walks(song)
         /\ Begun(s, times, key).slot.key = (IF Triggered(s, key) THEN key ELSE s.key)
         /\ Begun(s, times, key).slot.current = s.current
         /\ Begun(s, times, key).slot.level = s.level
         /\ Triggered(s, key) => Begun(s, times, key).slot.phase = "attack"
<1> DEFINE from == [s EXCEPT !.key = key, !.phase = "attack", !.hold = times.hold]
<1>1. times.hold \in Int /\ "attack" \in Phases
  BY DEF TimesOK, Phases
<1>2. from \in SlotsAt(song)
  BY <1>1 DEF SlotsAt, SlotRecords
<1>3. from.key = key /\ from.current = s.current /\ from.level = s.level /\ from.phase = "attack"
  BY DEF SlotsAt, SlotRecords
<1>4. Delta \in Nat
  BY DriverUnits
<1>5. Begun(s, times, key) = [slot |-> IF Triggered(s, key) THEN from ELSE s, remaining |-> Delta]
  BY DEF Begun
<1> HIDE DEF from
<1>6. QED
  BY <1>2, <1>3, <1>4, <1>5 DEF Walks

(* The four turns.                                                         *)
LEMMA PulseIsFourTurns ==
  ASSUME NEW song \in Nat, NEW s \in SlotsAt(song), NEW times \in TimesOK, NEW key \in Events,
         NEW w1, w1 = Turn(Begun(s, times, key), times, Triggered(s, key)),
         NEW w2, w2 = Turn(w1, times, Triggered(s, key)),
         NEW w3, w3 = Turn(w2, times, Triggered(s, key)),
         NEW w4, w4 = Turn(w3, times, Triggered(s, key))
  PROVE  PulseAdvanced(s, times, key) = w4.slot
<1> DEFINE w0 == Begun(s, times, key)
           triggered == Triggered(s, key)
           n == 4
           S == Walks(song)
           Step(w, i) == Turn(w, times, triggered)
           step == [q \in S \X (1..n) |-> Step(q[1], q[2])]
           E(h) == h = [t \in SUBSET (1..n) |->
                          IF t = {} THEN w0 ELSE Step(h[t \ {Max(t)}], <<1, 2, 3, 4>>[Max(t)])]
           it == CHOOSE h : E(h)
           P == {<<0, w0>>, <<1, w1>>, <<2, w2>>, <<3, w3>>, <<4, w4>>}
<1>1. DOMAIN <<1, 2, 3, 4>> = 1..n
  OBVIOUS
<1>2. PulseAdvanced(s, times, key) = it[1..n].slot
  BY <1>1 DEF PulseAdvanced, FoldLeft, MapThenFoldSet, Begun, Triggered
<1>3. w0 \in S /\ \A q \in S, i \in 1..n : Step(q, i) \in S
  BY BegunWalks, TurnWalks
<1>4. /\ n \in Nat /\ w0 \in S /\ step \in [S \X (1..n) -> S]
      /\ \A q \in S, i \in 1..n : step[<<q, i>>] = Turn(q, times, triggered)
  BY <1>3
<1> HIDE DEF S, step, w0, triggered
<1>5. \E h : E(h)
  <2> HIDE DEF E, it, P, Step, n
  <2>1. PICK h : Solves(h, n, S, w0, step)
    BY <1>4, FoldSolved
  <2>2. \A t \in SUBSET (1..n) :
          h[t] = IF t = {} THEN w0 ELSE Step(h[t \ {Max(t)}], <<1, 2, 3, 4>>[Max(t)])
    BY <1>4, <2>1 DEF Solves, Step
  <2>3. h = [t \in SUBSET (1..n) |-> h[t]]
    BY <2>1 DEF Solves
  <2>4. QED
    BY <2>2, <2>3 DEF E
<1>6. E(it)
  <2> HIDE DEF E, n
  <2>1. QED
    BY <1>5
<1> HIDE DEF it
<1>7. Follows(it, n, S, w0, step)
  <2> HIDE DEF n
  <2>1. QED
    BY <1>4, <1>6, GreatestOf DEF Follows
<1>8. Carries(P, n, S, w0, step)
  <2> SUFFICES ASSUME NEW k \in 1..n, NEW q \in S, <<k - 1, q>> \in P
               PROVE  <<k, step[<<q, k>>]>> \in P
    BY DEF Carries
  <2>1. step[<<q, k>>] = Turn(q, times, triggered)
    BY <1>4
  <2>2. w1 = Turn(w0, times, triggered) /\ w2 = Turn(w1, times, triggered)
        /\ w3 = Turn(w2, times, triggered) /\ w4 = Turn(w3, times, triggered)
    BY DEF w0, triggered
  <2>3. k \in {1, 2, 3, 4}
    OBVIOUS
  <2>4. QED
    BY <2>1, <2>2, <2>3
<1>9. <<4, it[1..n]>> \in P
  <2> HIDE DEF P
  <2>1. QED
    BY <1>4, <1>7, <1>8, FoldReaches
<1>10. QED
  BY <1>2, <1>9

LEMMA PulseWalks ==
  ASSUME NEW song \in Nat, NEW s \in SlotsAt(song), NEW times \in TimesOK, NEW key \in Events
  PROVE  /\ PulseAdvanced(s, times, key) \in SlotsAt(song)
         /\ PulseAdvanced(s, times, key).current = s.current
         /\ PulseAdvanced(s, times, key).key = (IF Triggered(s, key) THEN key ELSE s.key)
         /\ Triggered(s, key) =>
              PulseAdvanced(s, times, key).level =
                IF times.attack = 0 THEN Full ELSE Lesser(Full, s.level + Delta)
<1> DEFINE w0 == Begun(s, times, key)
           triggered == Triggered(s, key)
           w1 == Turn(w0, times, triggered)
           w2 == Turn(w1, times, triggered)
           w3 == Turn(w2, times, triggered)
           w4 == Turn(w3, times, triggered)
<1>1. PulseAdvanced(s, times, key) = w4.slot
  BY PulseIsFourTurns
<1>2. /\ w0 \in Walks(song) /\ w0.slot.current = s.current /\ w0.slot.level = s.level
      /\ w0.slot.key = (IF triggered THEN key ELSE s.key)
      /\ triggered => w0.slot.phase = "attack"
  BY BegunWalks
<1>3. triggered => w0.remaining = Delta
  BY DEF Begun
<1> HIDE DEF w0, triggered
<1>4. w1 \in Walks(song) /\ w1.slot.key = w0.slot.key /\ w1.slot.current = w0.slot.current
  BY <1>2, TurnWalks, TurnKeeps
<1>5. triggered => Turn(w0, times, triggered) = Attacking(w0, times)
  BY <1>2, <1>3, DriverUnits DEF Turn
<1>6. ASSUME triggered
      PROVE  /\ w1.slot.level = IF times.attack = 0 THEN Full ELSE Lesser(Full, s.level + Delta)
             /\ w1.remaining = 0 \/ w1.slot.phase = "hold"
  <2>1. /\ w0 = [slot |-> w0.slot, remaining |-> Delta] /\ w0.slot.level = s.level
        /\ w0.slot \in SlotRecords /\ s.level \in 0..Full
    BY <1>2, <1>3, <1>6 DEF Walks, SlotsAt, SlotRecords
  <2>2. CASE Delta >= (IF times.attack = 0 THEN 0 ELSE Full - s.level)
    <3>1. Attacking(w0, times).slot = [w0.slot EXCEPT !.level = Full, !.phase = "hold"]
      BY <2>1, <2>2 DEF Attacking
    <3>2. Attacking(w0, times).slot.level = Full /\ Attacking(w0, times).slot.phase = "hold"
      BY <2>1, <3>1 DEF SlotRecords
    <3>3. times.attack # 0 => Lesser(Full, s.level + Delta) = Full
      BY <2>1, <2>2, DriverUnits DEF Lesser
    <3>4. QED
      BY <1>5, <1>6, <3>2, <3>3
  <2>3. CASE ~(Delta >= (IF times.attack = 0 THEN 0 ELSE Full - s.level))
    <3>1. Attacking(w0, times) =
            [slot |-> [w0.slot EXCEPT !.level = w0.slot.level + w0.remaining], remaining |-> 0]
      <4>1. ~(w0.remaining >= (IF times.attack = 0 THEN 0 ELSE Full - w0.slot.level))
        BY <1>2, <1>3, <1>6, <2>3
      <4>2. w0 = [slot |-> w0.slot, remaining |-> w0.remaining]
        BY <1>2 DEF Walks
      <4> HIDE DEF w1, w2, w3, w4
      <4>3. QED
        BY <4>1, <4>2 DEF Attacking
    <3>2. Attacking(w0, times).slot.level = s.level + Delta /\ Attacking(w0, times).remaining = 0
      BY <1>3, <1>6, <2>1, <3>1 DEF SlotRecords
    <3>3. times.attack # 0 /\ Lesser(Full, s.level + Delta) = s.level + Delta
      BY <2>1, <2>3, DriverUnits DEF Lesser
    <3>4. QED
      BY <1>5, <1>6, <3>2, <3>3
  <2>4. QED
    BY <2>2, <2>3
<1>7. triggered => w2 = w1
  BY <1>4, <1>6 DEF Turn, Walks
<1> HIDE DEF w1
<1>8. triggered => w3 = w1 /\ w4 = w1
  BY <1>7
<1>9. w2 \in Walks(song) /\ w2.slot.key = w0.slot.key /\ w2.slot.current = w0.slot.current
  BY <1>4, TurnWalks, TurnKeeps
<1> HIDE DEF w2
<1>10. w3 \in Walks(song) /\ w3.slot.key = w0.slot.key /\ w3.slot.current = w0.slot.current
  BY <1>9, TurnWalks, TurnKeeps
<1> HIDE DEF w3
<1>11. w4 \in Walks(song) /\ w4.slot.key = w0.slot.key /\ w4.slot.current = w0.slot.current
  BY <1>10, TurnWalks, TurnKeeps
<1> HIDE DEF w4
<1>12. w4.slot \in SlotsAt(song)
  BY <1>11 DEF Walks
<1>13. QED
  BY <1>1, <1>2, <1>6, <1>8, <1>11, <1>12 DEF triggered

-----------------------------------------------------------------------------
(* Windows.                                                                *)

(* Counting in windows of e pulses is counting pulses, then windows.       *)
LEMMA WindowsOfPulses ==
  ASSUME NEW u \in Positive, NEW e \in Positive, NEW o \in Nat, NEW p \in Nat
  PROVE  (p - o * u) \div (u * e) = ((p \div u) - o) \div e
<1> DEFINE j == p \div u
           i == j - o
           q == i \div e
<1>1. u \in Nat /\ u >= 1 /\ e \in Nat /\ e >= 1 /\ u * e \in Positive
  BY DEF Positive
<1>2. j \in Int /\ j * u <= p /\ p < j * u + u
  BY p \in Int, IntDivision
<1> HIDE DEF j
<1>3. q \in Int /\ q * e <= i /\ i + 1 <= q * e + e
  <2>1. i \in Int
    BY <1>2
  <2> HIDE DEF i
  <2>2. q \in Int /\ q * e <= i /\ i < q * e + e
    BY <2>1, IntDivision
  <2> HIDE DEF q
  <2>3. q * e \in Int
    BY <1>1, <2>2
  <2>4. QED
    BY <1>1, <2>1, <2>2, <2>3
<1>4. i \in Int /\ i * u = j * u - o * u /\ (i + 1) * u = j * u + u - o * u
  BY <1>1, <1>2
<1> HIDE DEF q, i
<1>5. (q * e) * u <= i * u
  <2>1. i - q * e \in Nat
    BY <1>1, <1>3, <1>4
  <2>2. (i - q * e) * u >= 0
    BY <1>1, <2>1
  <2>3. (i - q * e) * u = i * u - (q * e) * u
    BY <1>1, <1>3, <1>4
  <2>4. (q * e) * u \in Int /\ i * u \in Int
    BY <1>1, <1>3, <1>4
  <2>5. QED
    BY <2>2, <2>3, <2>4
<1>6. (i + 1) * u <= (q * e) * u + u * e
  <2>1. q * e + e - (i + 1) \in Nat
    BY <1>1, <1>3, <1>4
  <2>2. (q * e + e - (i + 1)) * u >= 0
    BY <1>1, <2>1
  <2>3. (q * e + e - (i + 1)) * u = (q * e) * u + u * e - (i + 1) * u
    BY <1>1, <1>3, <1>4
  <2>4. (q * e) * u \in Int /\ (i + 1) * u \in Int /\ u * e \in Int
    BY <1>1, <1>3, <1>4
  <2>5. QED
    BY <2>2, <2>3, <2>4
<1>7. (q * e) * u = q * (u * e)
  BY <1>1, <1>3
<1>8. p - o * u \in Int /\ j * u \in Int /\ o * u \in Int
  BY <1>1, <1>2
<1>9. q * (u * e) <= p - o * u /\ p - o * u < q * (u * e) + u * e
  <2> DEFINE A == (q * e) * u
             B == i * u
             C == (i + 1) * u
             D == u * e
             F == j * u
             G == o * u
  <2>1. A \in Int /\ B \in Int /\ C \in Int /\ D \in Int /\ F \in Int /\ G \in Int
    BY <1>1, <1>3, <1>4, <1>8
  <2>2. A <= B /\ C <= A + D /\ B = F - G /\ C = F + u - G /\ F <= p /\ p < F + u
    BY <1>2, <1>4, <1>5, <1>6
  <2>3. q * (u * e) = A
    BY <1>7
  <2> HIDE DEF A, B, C, D, F, G
  <2>4. A <= p - G /\ p - G < A + D
    BY <1>1, <2>1, <2>2
  <2>5. QED
    BY <2>3, <2>4 DEF D, G
<1>10. (p - o * u) \div (u * e) = q
  <2> DEFINE a == p - o * u
             d == u * e
  <2>1. a \in Int /\ d \in Positive /\ q * d <= a /\ a < q * d + d
    BY <1>1, <1>8, <1>9
  <2> HIDE DEF a, d
  <2>2. a \div d = q
    BY <1>3, <2>1, QuotientIs
  <2>3. QED
    BY <2>2 DEF a, d
<1>11. QED
  BY <1>10 DEF q, i, j

(* A quotient grows by one exactly at the multiples.                       *)
LEMMA QuotientGrows ==
  ASSUME NEW e \in Positive, NEW i \in Int
  PROVE  /\ i % e = 0 => (i - 1) \div e = i \div e - 1
         /\ i % e # 0 => (i - 1) \div e = i \div e
<1> DEFINE q == i \div e
           r == i % e
<1>1. q \in Int /\ r \in 0..(e - 1) /\ i = q * e + r
  BY IntDivision
<1>2. e \in Nat /\ e >= 1 /\ i - 1 \in Int
  BY DEF Positive
<1> HIDE DEF q, r
<1>3. (q - 1) * e = q * e - e
  BY <1>1, <1>2
<1>4. q * e \in Int
  BY <1>1, <1>2
<1>5. ASSUME r = 0 PROVE (i - 1) \div e = q - 1
  <2>1. (q - 1) * e <= i - 1 /\ i - 1 < (q - 1) * e + e
    BY <1>1, <1>2, <1>3, <1>4, <1>5
  <2>2. QED
    BY <1>1, <1>2, <2>1, QuotientIs
<1>6. ASSUME r # 0 PROVE (i - 1) \div e = q
  <2>1. q * e <= i - 1 /\ i - 1 < q * e + e
    BY <1>1, <1>2, <1>4, <1>6
  <2>2. QED
    BY <1>1, <1>2, <2>1, QuotientIs
<1>7. QED
  BY <1>5, <1>6 DEF q, r

(* A driver whose pulse is a whole number of units.                        *)
Declared ==
  [type : Kinds, every : Int, offset : Int, divide : Int, interval : Nat \ {0}, cadence : STRING]
Fit == {d \in Declared : Beat % Divide(d) = 0}

LEMMA FitUnits ==
  ASSUME NEW d \in Fit
  PROVE  /\ Divide(d) \in Nat /\ PulseUnits(d) \in Positive
         /\ Every(d) \in Positive /\ Offset(d) \in 0..(Every(d) - 1)
<1>1. /\ d.type \in Kinds /\ d.every \in Int /\ d.offset \in Int
      /\ d.interval \in Positive /\ Beat % Divide(d) = 0
  BY DEF Fit, Declared, Positive
<1>2. Divide(d) \in {1, 2, 4, 8}
  BY DEF Divide
<1>3. Beat \in Nat /\ Beat >= 1 /\ Bar \in Nat /\ Bar >= 1
  BY DriverUnits
<1>4. Beat \div Divide(d) \in Positive /\ Beat >= Divide(d)
  BY <1>1, <1>2, <1>3 DEF Positive
<1>5. (Beat * Bar) \div Divide(d) \in Positive
  <2>1. Beat * Bar \in Nat /\ Beat * Bar >= Beat
    BY <1>3
  <2> DEFINE b == Beat * Bar
  <2>2. b \in Nat /\ b >= Divide(d)
    BY <1>2, <1>3, <1>4, <2>1
  <2> HIDE DEF b
  <2>3. b \div Divide(d) \in Positive
    BY <1>2, <2>2 DEF Positive
  <2>4. QED
    BY <2>3 DEF b
<1>6. PulseUnits(d) \in Positive
  BY <1>1, <1>4, <1>5 DEF PulseUnits
<1>7. Every(d) \in Positive /\ Offset(d) \in 0..(Every(d) - 1)
  BY <1>1 DEF Every, Offset, Greater, Lesser, Positive
<1>8. QED
  BY <1>2, <1>6, <1>7

LEMMA WindowsAreFiringsOf ==
  ASSUME NEW d \in Fit, d.type \in {"beat", "downbeat", "timer"},
         NEW p \in Nat, p > 0
  PROVE  WindowIndex(d, p) # WindowIndex(d, p - 1)
         <=> PulseKey(d, p, 0) \notin {NoKey, PulseKey(d, p - 1, 0)}
<1> DEFINE u == PulseUnits(d)
           e == Every(d)
           o == Offset(d)
           j == p \div u
           was == (p - 1) \div u
           part == IF d.type \in {"beat", "downbeat"} THEN Divide(d) ELSE 1
<1>1. u \in Positive /\ e \in Positive /\ o \in 0..(e - 1) /\ o \in Nat
  BY FitUnits DEF Positive
<1>2. p - 1 \in Nat
  OBVIOUS
<1>3. WindowIndex(d, p) = (j - o) \div e /\ WindowIndex(d, p - 1) = (was - o) \div e
  BY <1>1, <1>2, WindowsOfPulses DEF WindowIndex, InWindows, WindowUnits
<1>4. PulseKey(d, p, 0) = IF (j - o) % e = 0 THEN <<d.type, part, j>> ELSE NoKey
  BY DEF PulseKey, FiresOn
<1>5. PulseKey(d, p - 1, 0) = IF (was - o) % e = 0 THEN <<d.type, part, was>> ELSE NoKey
  BY DEF PulseKey, FiresOn
<1>6. j \in Int /\ was \in {j - 1, j}
  <2> HIDE DEF u
  <2>1. j \in Int /\ p % u \in 0..(u - 1)
    BY <1>1, IntDivision
  <2>2. was = j \/ was = j - 1
    BY <1>1, QuotientGrows
  <2>3. QED
    BY <2>1, <2>2
<1> HIDE DEF u, e, o, j, was, part
<1>7. CASE was = j
  BY <1>3, <1>4, <1>5, <1>7
<1>8. CASE was = j - 1
  <2>1. j - o \in Int /\ was - o = (j - o) - 1 /\ was # j
    BY <1>1, <1>6, <1>8
  <2>2. /\ (j - o) % e = 0 => (was - o) \div e = (j - o) \div e - 1
        /\ (j - o) % e # 0 => (was - o) \div e = (j - o) \div e
    BY <1>1, <2>1, QuotientGrows
  <2>3. (j - o) \div e \in Int
    BY <1>1, <2>1, IntDivision
  <2>4. WindowIndex(d, p) # WindowIndex(d, p - 1) <=> (j - o) % e = 0
    BY <1>3, <2>2, <2>3
  <2>5. <<d.type, part, j>> # <<d.type, part, was>> /\ <<d.type, part, j>> # NoKey
    BY <2>1 DEF NoKey
  <2>6. QED
    BY <1>4, <1>5, <2>4, <2>5
<1>9. QED
  BY <1>6, <1>7, <1>8

-----------------------------------------------------------------------------
(* One slot in one frame.                                                  *)

LEMMA CadenceFits ==
  ASSUME NEW d \in Fit
  PROVE  /\ Cadence(d) \in Fit /\ Cadence(d).type \in {"beat", "downbeat", "timer", "song"}
         /\ Cadence(d).type \in Kinds
<1> DEFINE kind == IF d.cadence \in {"beat", "downbeat", "timer", "song"} THEN d.cadence ELSE "beat"
<1>1. d \in Declared /\ Beat % Divide(d) = 0 /\ kind \in Kinds
  <2>1. d \in Declared /\ d.cadence \in STRING /\ Beat % Divide(d) = 0
    BY DEF Fit, Declared
  <2>2. QED
    BY <2>1 DEF Kinds
<1>2. kind \in {"beat", "downbeat", "timer", "song"}
  OBVIOUS
<1>3. Cadence(d) = [d EXCEPT !.type = kind]
  BY DEF Cadence
<1> HIDE DEF kind
<1>4. /\ [d EXCEPT !.type = kind] \in Declared
      /\ [d EXCEPT !.type = kind].divide = d.divide
      /\ [d EXCEPT !.type = kind].type = kind
  BY <1>1 DEF Declared
<1>5. Divide(Cadence(d)) = Divide(d)
  BY <1>3, <1>4 DEF Divide
<1>6. QED
  BY <1>1, <1>2, <1>3, <1>4, <1>5 DEF Fit

LEMMA PulseKeyIsEvent ==
  ASSUME NEW d \in Fit, NEW at \in Nat, NEW count \in Nat
  PROVE  PulseKey(d, at, count) \in Events
<1> DEFINE nth == IF d.type = "song" THEN count ELSE at \div PulseUnits(d)
           part == IF d.type \in {"beat", "downbeat"} THEN Divide(d) ELSE 1
<1>1. d.type \in Kinds /\ part \in Nat /\ nth \in Int
  <2>1. Divide(d) \in Nat /\ PulseUnits(d) \in Positive
    BY FitUnits
  <2>2. at \div PulseUnits(d) \in Int
    BY <2>1, IntDivision
  <2>3. QED
    BY <2>1, <2>2 DEF Fit, Declared
<1>2. PulseKey(d, at, count) = IF FiresOn(nth, d) THEN <<d.type, part, nth>> ELSE NoKey
  BY DEF PulseKey
<1> HIDE DEF nth, part
<1>3. QED
  BY <1>1, <1>2 DEF Events, Windows

LEMMA WindowIsKey ==
  ASSUME NEW d \in Fit, NEW at \in Nat
  PROVE  <<d.type, Divide(d), WindowIndex(d, at)>> \in Windows
<1>1. /\ Divide(d) \in Nat /\ PulseUnits(d) \in Positive
      /\ Every(d) \in Positive /\ Offset(d) \in 0..(Every(d) - 1)
  BY FitUnits
<1>2. PulseUnits(d) * Every(d) \in Positive /\ at - Offset(d) * PulseUnits(d) \in Int
  <2> DEFINE u == PulseUnits(d)
             e == Every(d)
             o == Offset(d)
  <2>1. u \in Positive /\ e \in Positive /\ o \in 0..(e - 1)
    BY <1>1
  <2> HIDE DEF u, e, o
  <2>2. u * e \in Positive /\ at - o * u \in Int
    BY <2>1 DEF Positive
  <2>3. QED
    BY <2>2 DEF u, e, o
<1>3. WindowIndex(d, at) \in Int
  BY <1>2, IntDivision DEF WindowIndex, InWindows, WindowUnits
<1>4. d.type \in Kinds
  BY DEF Fit, Declared
<1>5. QED
  BY <1>1, <1>3, <1>4 DEF Windows

LEMMA CountedWalks ==
  ASSUME track \in Nat, NEW s \in SlotsAt(track)
  PROVE  /\ Counted(s) \in SlotsAt(track) /\ Counted(s).count \in Nat
         /\ Counted(s).key = s.key /\ Counted(s).current = s.current
         /\ Counted(s).level = s.level
<1>1. /\ s \in SlotRecords /\ s.count \in Nat /\ s.track \in Nat
      /\ s.phase = "idle" => s.level = 0
      /\ s.count <= s.track /\ s.track <= track
  BY DEF SlotsAt, SlotRecords
<1>2. CASE ~s.seen
  <2> DEFINE t == [s EXCEPT !.seen = TRUE, !.track = track]
  <2>1. Counted(s) = t
    BY <1>2 DEF Counted
  <2>2. /\ t \in SlotRecords /\ t.phase = s.phase /\ t.level = s.level /\ t.count = s.count
        /\ t.track = track /\ t.key = s.key /\ t.current = s.current
    BY <1>1 DEF SlotRecords
  <2> HIDE DEF t
  <2>3. t \in SlotsAt(track)
    BY <1>1, <2>2 DEF SlotsAt
  <2>4. QED
    BY <1>1, <2>1, <2>2, <2>3
<1>3. CASE s.seen /\ s.track # track
  <2> DEFINE t == [s EXCEPT !.track = track, !.count = s.count + 1]
  <2>1. Counted(s) = t
    BY <1>3 DEF Counted
  <2>2. s.count + 1 \in Nat /\ s.count + 1 <= track
    BY <1>1, <1>3
  <2>3. /\ t \in SlotRecords /\ t.phase = s.phase /\ t.level = s.level /\ t.count = s.count + 1
        /\ t.track = track /\ t.key = s.key /\ t.current = s.current
    BY <1>1, <2>2 DEF SlotRecords
  <2> HIDE DEF t
  <2>4. t \in SlotsAt(track)
    BY <1>1, <2>2, <2>3 DEF SlotsAt
  <2>5. QED
    BY <2>1, <2>2, <2>3, <2>4
<1>4. CASE s.seen /\ s.track = track
  BY <1>1, <1>4 DEF Counted
<1>5. QED
  BY <1>2, <1>3, <1>4

(* What a follower may do.                                                 *)
Follow(was, now, times) ==
  /\ now >= was => now = was \/ now =< energy
  /\ now =< was => now = was \/ now >= energy
  /\ times.attack > 0 => now =< was + Delta
  /\ times.release > 0 => now >= was - Delta

LEMMA FollowerWalks ==
  ASSUME track \in Nat, energy \in 0..Full, NEW s \in SlotsAt(track), NEW times \in TimesOK
  PROVE  /\ FollowerAdvanced(s, times) \in SlotsAt(track)
         /\ FollowerAdvanced(s, times).key = s.key
         /\ Follow(s.current, FollowerAdvanced(s, times).current, times)
<1> DEFINE rising == energy >= s.current
           moved == IF FollowerTime(times, rising) = 0 THEN energy
                    ELSE IF rising THEN Lesser(energy, s.current + Delta)
                    ELSE Greater(energy, s.current - Delta)
<1>1. /\ s \in SlotRecords /\ s.current \in 0..Full /\ s.hold \in Int
      /\ s.phase = "idle" => s.level = 0
      /\ s.count <= s.track /\ s.track <= track
      /\ times.hold \in Int /\ times.attack \in Nat /\ times.release \in Nat
      /\ energy \in Int
  BY DEF SlotsAt, SlotRecords, TimesOK
<1>2. moved \in 0..Full /\ Follow(s.current, moved, times)
  <2>1. CASE rising
    BY <1>1, <2>1, DriverUnits DEF FollowerTime, Lesser, Follow
  <2>2. CASE ~rising
    BY <1>1, <2>2, DriverUnits DEF FollowerTime, Greater, Follow
  <2>3. QED
    BY <2>1, <2>2
<1>3. Follow(s.current, s.current, times)
  BY <1>1, DriverUnits DEF Follow
<1>4. CASE rising
  <2>1. FollowerAdvanced(s, times) =
          [s EXCEPT !.target = energy, !.hold = times.hold, !.current = moved]
    BY <1>4 DEF FollowerAdvanced
  <2> HIDE DEF rising, moved
  <2>2. QED
    BY <1>1, <1>2, <2>1 DEF SlotsAt, SlotRecords
<1>5. CASE ~rising /\ s.hold > 0
  <2>1. FollowerAdvanced(s, times) = [s EXCEPT !.target = energy, !.hold = s.hold - Delta]
    BY <1>5 DEF FollowerAdvanced
  <2> HIDE DEF rising, moved
  <2>2. s.hold - Delta \in Int
    BY <1>1, DriverUnits
  <2>3. QED
    BY <1>1, <1>3, <2>1, <2>2 DEF SlotsAt, SlotRecords
<1>6. CASE ~rising /\ ~(s.hold > 0)
  <2>1. FollowerAdvanced(s, times) = [s EXCEPT !.target = energy, !.current = moved]
    BY <1>6 DEF FollowerAdvanced
  <2> HIDE DEF rising, moved
  <2>2. QED
    BY <1>1, <1>2, <2>1 DEF SlotsAt, SlotRecords
<1>7. QED
  BY <1>4, <1>5, <1>6

(* What any frame does to a slot.                                          *)
Moves(s, t, times) ==
  /\ t \in SlotsAt(track)
  /\ t.key # s.key => t.level = IF times.attack = 0 THEN Full ELSE Lesser(Full, s.level + Delta)
  /\ Follow(s.current, t.current, times)

LEMMA PulseMoves ==
  ASSUME track \in Nat, energy \in 0..Full, NEW s \in SlotsAt(track), NEW times \in TimesOK,
         NEW r \in SlotsAt(track), r.key = s.key, r.level = s.level, r.current = s.current,
         NEW key \in Events
  PROVE  Moves(s, PulseAdvanced(r, times, key), times)
<1>1. s.current \in 0..Full
  BY DEF SlotsAt, SlotRecords
<1>2. Follow(s.current, s.current, times)
  BY <1>1, DriverUnits DEF Follow
<1>3. QED
  BY <1>2, PulseWalks DEF Moves

LEMMA JitterMoves ==
  ASSUME track \in Nat, energy \in 0..Full, position \in Nat,
         NEW s \in SlotsAt(track), NEW times \in TimesOK, NEW d \in Fit, NEW draw \in Int
  PROVE  Moves(s, JitterAdvanced(s, d, times, draw), times)
<1> DEFINE c == Cadence(d)
           window == <<c.type, Divide(c), WindowIndex(c, position)>>
           entered == IF window = s.window THEN s
                      ELSE [s EXCEPT !.window = window, !.target = draw, !.fired = FALSE]
           fires == ~entered.fired /\ IntoWindow(c, position) * Grain >= entered.target * WindowUnits(c)
           had == entered.fired \/ fires
           from == [entered EXCEPT !.fired = had]
           key == IF fires THEN Append(window, "!") ELSE NoKey
<1>1. c \in Fit /\ window \in Windows
  BY CadenceFits, WindowIsKey
<1>2. CASE c.type = "song"
  <2>1. JitterAdvanced(s, d, times, draw) =
          PulseAdvanced(Counted(s), times, PulseKey(c, position, Counted(s).count))
    BY <1>2 DEF JitterAdvanced
  <2> HIDE DEF c, window, entered, fires, had, from, key
  <2>2. PulseKey(c, position, Counted(s).count) \in Events
    BY <1>1, CountedWalks, PulseKeyIsEvent
  <2>3. QED
    BY <2>1, <2>2, CountedWalks, PulseMoves
<1>3. CASE c.type # "song"
  <2>1. JitterAdvanced(s, d, times, draw) = PulseAdvanced(from, times, key)
    BY <1>3 DEF JitterAdvanced
  <2> HIDE DEF c, window
  <2>2. /\ entered \in SlotsAt(track) /\ entered.key = s.key /\ entered.level = s.level
        /\ entered.current = s.current
    BY <1>1 DEF SlotsAt, SlotRecords
  <2>3. had \in BOOLEAN
    OBVIOUS
  <2>4. key \in Events
    BY <1>1 DEF Events, Windows
  <2> HIDE DEF entered, fires, had, key
  <2>5. from \in SlotsAt(track) /\ from.key = s.key /\ from.level = s.level /\ from.current = s.current
    BY <2>2, <2>3 DEF SlotsAt, SlotRecords
  <2> HIDE DEF from
  <2>6. QED
    BY <2>1, <2>4, <2>5, PulseMoves
<1>4. QED
  BY <1>2, <1>3

LEMMA SlotMoves ==
  ASSUME track \in Nat, energy \in 0..Full, position \in Nat,
         NEW s \in SlotsAt(track), NEW times \in TimesOK, NEW d \in Fit, NEW draw \in Int
  PROVE  Moves(s, SlotAdvanced(s, d, times, draw), times)
<1>1. CASE d.type = "random"
  BY <1>1, JitterMoves DEF SlotAdvanced
<1>2. CASE d.type = "song"
  <2>1. PulseKey(d, position, Counted(s).count) \in Events
    BY CountedWalks, PulseKeyIsEvent
  <2>2. SlotAdvanced(s, d, times, draw) =
          PulseAdvanced(Counted(s), times, PulseKey(d, position, Counted(s).count))
    BY <1>2 DEF SlotAdvanced
  <2>3. QED
    BY <2>1, <2>2, CountedWalks, PulseMoves
<1>3. CASE d.type \notin {"random", "song"} /\ IsPulse(d)
  <2>1. PulseKey(d, position, 0) \in Events
    BY PulseKeyIsEvent
  <2>2. SlotAdvanced(s, d, times, draw) = PulseAdvanced(s, times, PulseKey(d, position, 0))
    BY <1>3 DEF SlotAdvanced
  <2>3. QED
    BY <2>1, <2>2, PulseMoves
<1>4. CASE d.type \notin {"random", "song"} /\ ~IsPulse(d)
  <2>1. SlotAdvanced(s, d, times, draw) = FollowerAdvanced(s, times)
    BY <1>4 DEF SlotAdvanced
  <2>2. QED
    BY <2>1, FollowerWalks DEF Moves
<1>5. QED
  BY <1>1, <1>2, <1>3, <1>4

-----------------------------------------------------------------------------
(* The lanes in force.                                                     *)

Laid == [group : STRING, lane : LanesOf]

(* Lanes with drivers that fit.                                            *)
Fitting == {s \in Laid : \A n \in DOMAIN Drivers(s.lane) : Drivers(s.lane)[n] \in Fit}

LEMMA DriversOfLane ==
  ASSUME NEW lane \in LanesOf
  PROVE  /\ Drivers(lane) \in Seq(DriversOf)
         /\ DOMAIN Drivers(lane) = 1..(Len(lane.modifiers) + 1)
         /\ Len(lane.modifiers) \in Nat
         /\ Drivers(lane)[1] = lane.driver
<1>1. lane.driver \in DriversOf /\ lane.modifiers \in Seq(DriversOf)
  BY DEF LanesOf
<1>2. <<lane.driver>> \in Seq(DriversOf) /\ Len(<<lane.driver>>) = 1
  BY <1>1
<1>3. QED
  BY <1>1, <1>2 DEF Drivers

LEMMA ScopedFits ==
  ASSUME NEW name \in DOMAIN Groups
  PROVE  Scoped(name) \in Seq(Fitting)
<1> DEFINE lanes == Groups[name].lanes
<1>1. lanes \in Seq(LanesOf) /\ Groups[name].id \in STRING
  BY GroupsAssumption
<1> HIDE DEF lanes
<1>2. ASSUME NEW n \in DOMAIN lanes
      PROVE  [group |-> Groups[name].id, lane |-> lanes[n]] \in Fitting
  <2>1. lanes[n] \in LanesOf
    BY <1>1
  <2>2. ASSUME NEW i \in DOMAIN Drivers(lanes[n])
        PROVE  Drivers(lanes[n])[i] \in Fit
    <3>1. Drivers(lanes[n])[i] \in DriversOf
      BY <2>1, DriversOfLane
    <3>2. Drivers(lanes[n])[i] \in AllDrivers
      BY DEF AllDrivers, Range, lanes
    <3>3. Beat % Divide(Drivers(lanes[n])[i]) = 0
      BY <3>2, DividesAssumption
    <3>4. Drivers(lanes[n])[i] \in Declared
      BY <3>1 DEF DriversOf, Declared, Kinds
    <3>5. QED
      BY <3>3, <3>4 DEF Fit
  <2> DEFINE s == [group |-> Groups[name].id, lane |-> lanes[n]]
  <2>3. s \in Laid /\ s.lane = lanes[n]
    BY <1>1, <2>1 DEF Laid
  <2> HIDE DEF s
  <2>4. s \in Fitting
    BY <2>2, <2>3 DEF Fitting
  <2>5. QED
    BY <2>4 DEF s
<1>3. Scoped(name) = [n \in DOMAIN lanes |-> [group |-> Groups[name].id, lane |-> lanes[n]]]
  BY DEF Scoped, lanes
<1>4. DOMAIN lanes = 1..Len(lanes) /\ Len(lanes) \in Nat
  BY <1>1
<1>5. QED
  BY <1>2, <1>3, <1>4

LEMMA NamedExist ==
  ASSUME NEW list \in Seq(STRING)
  PROVE  Named(list) \in Seq(DOMAIN Groups)
<1> DEFINE n == Len(list)
           S == Seq(DOMAIN Groups)
           Step(to, i) == IF list[i] \in DOMAIN Groups THEN Append(to, list[i]) ELSE to
           step == [q \in S \X (1..n) |-> Step(q[1], q[2])]
           E(h) == h = [s \in SUBSET (1..n) |->
                          IF s = {} THEN <<>> ELSE Step(h[s \ {Max(s)}], Max(s))]
           it == CHOOSE h : E(h)
<1>1. n \in Nat /\ DOMAIN list = 1..n
  OBVIOUS
<1>2. Named(list) = it[1..n]
  BY <1>1 DEF Named, FoldLeft, MapThenFoldSet
<1>3. /\ <<>> \in S
      /\ \A q \in S, i \in 1..n : Step(q, i) \in S
  <2>1. \A q \in S, x \in DOMAIN Groups : Append(q, x) \in S
    OBVIOUS
  <2>2. <<>> \in S
    OBVIOUS
  <2> HIDE DEF S
  <2>3. QED
    BY <2>1, <2>2
<1>4. /\ n \in Nat /\ <<>> \in S /\ step \in [S \X (1..n) -> S]
      /\ \A q \in S, i \in 1..n : step[<<q, i>>] = Step(q, i)
  BY <1>1, <1>3
<1> HIDE DEF n, S, Step, step
<1>5. \E h : E(h)
  <2> HIDE DEF E, it
  <2>1. PICK h : Solves(h, n, S, <<>>, step)
    BY <1>4, FoldSolved
  <2>2. \A s \in SUBSET (1..n) : h[s] = IF s = {} THEN <<>> ELSE Step(h[s \ {Max(s)}], Max(s))
    BY <1>4, <2>1 DEF Solves
  <2>3. h = [s \in SUBSET (1..n) |-> h[s]]
    BY <2>1 DEF Solves
  <2>4. QED
    BY <2>2, <2>3 DEF E
<1>6. E(it)
  <2> HIDE DEF E
  <2>1. QED
    BY <1>5
<1> HIDE DEF it
<1>7. Follows(it, n, S, <<>>, step)
  BY <1>1, <1>4, <1>6, GreatestOf DEF Follows
<1>8. it[1..n] \in S
  BY <1>4, <1>7, FoldStays
<1>9. QED
  BY <1>2, <1>8 DEF S

LEMMA ChosenExist ==
  ASSUME NEW list \in IdLists
  PROVE  Chosen(list) \in Seq(DOMAIN Groups)
<1>1. Named(list) \in Seq(DOMAIN Groups)
  BY GroupsAssumption, NamedExist
<1>2. Defaults # {} => (CHOOSE id \in Defaults : TRUE) \in DOMAIN Groups
  BY DEF Defaults
<1>3. Defaults # {} => <<CHOOSE id \in Defaults : TRUE>> \in Seq(DOMAIN Groups)
  <2> DEFINE id == CHOOSE id \in Defaults : TRUE
  <2>1. Defaults # {} => id \in DOMAIN Groups
    BY <1>2
  <2> HIDE DEF id
  <2>2. id \in DOMAIN Groups => <<id>> \in Seq(DOMAIN Groups)
    OBVIOUS
  <2>3. QED
    BY <2>1, <2>2 DEF id
<1>4. QED
  BY <1>1, <1>3 DEF Chosen

LEMMA LanesFit ==
  ASSUME NEW list \in IdLists
  PROVE  Lanes[list] \in Seq(Fitting)
<1> DEFINE chosen == Chosen(list)
           n == Len(chosen)
           S == Seq(Fitting)
           Step(to, i) == to \o Scoped(chosen[i])
           step == [q \in S \X (1..n) |-> Step(q[1], q[2])]
           E(h) == h = [s \in SUBSET (1..n) |->
                          IF s = {} THEN <<>> ELSE Step(h[s \ {Max(s)}], Max(s))]
           it == CHOOSE h : E(h)
<1>1. n \in Nat /\ DOMAIN chosen = 1..n /\ \A i \in 1..n : Scoped(chosen[i]) \in Seq(Fitting)
  <2>1. chosen \in Seq(DOMAIN Groups)
    BY ChosenExist
  <2> HIDE DEF chosen
  <2>2. n \in Nat /\ DOMAIN chosen = 1..n /\ \A i \in 1..n : chosen[i] \in DOMAIN Groups
    BY <2>1
  <2>3. QED
    BY <2>2, ScopedFits
<1>2. Lanes[list] = it[1..n]
  BY <1>1 DEF Lanes, FoldLeft, MapThenFoldSet
<1> HIDE DEF chosen
<1>3. /\ <<>> \in S
      /\ \A q \in S, i \in 1..n : Step(q, i) \in S
  BY <1>1
<1>4. /\ n \in Nat /\ <<>> \in S /\ step \in [S \X (1..n) -> S]
      /\ \A q \in S, i \in 1..n : step[<<q, i>>] = Step(q, i)
  BY <1>1, <1>3
<1> HIDE DEF n, S, Step, step
<1>5. \E h : E(h)
  <2> HIDE DEF E, it
  <2>1. PICK h : Solves(h, n, S, <<>>, step)
    BY <1>4, FoldSolved
  <2>2. \A s \in SUBSET (1..n) : h[s] = IF s = {} THEN <<>> ELSE Step(h[s \ {Max(s)}], Max(s))
    BY <1>4, <2>1 DEF Solves
  <2>3. h = [s \in SUBSET (1..n) |-> h[s]]
    BY <2>1 DEF Solves
  <2>4. QED
    BY <2>2, <2>3 DEF E
<1>6. E(it)
  <2> HIDE DEF E
  <2>1. QED
    BY <1>5
<1> HIDE DEF it
<1>7. Follows(it, n, S, <<>>, step)
  BY <1>1, <1>4, <1>6, GreatestOf DEF Follows
<1>8. it[1..n] \in S
  BY <1>4, <1>7, FoldStays
<1>9. QED
  BY <1>2, <1>8 DEF S

-----------------------------------------------------------------------------
(* One lane in one frame.                                                  *)

SlotKeys == STRING \X STRING \X Nat
SlotMaps == UNION {[D -> SlotsAt(track)] : D \in SUBSET SlotKeys}
RollMaps == UNION {[D -> [key : Events, reach : 0..Grain]] : D \in SUBSET SlotKeys}

(* What a frame may draw: a value for each slot that has one, and for the
   roll of the lane.                                                       *)
Draws(draws) == \A k \in DOMAIN draws : draws[k] \in 0..Grain
DrawsFor(draws, scoped) == scoped.lane.randomValue => RollSlot(scoped) \in DOMAIN draws

Clocks == track \in Nat /\ energy \in 0..Full /\ position \in Nat

LEMMA SlotMapIs ==
  ASSUME NEW m \in SlotMaps
  PROVE  /\ DOMAIN m \subseteq SlotKeys /\ m = [k \in DOMAIN m |-> m[k]]
         /\ \A k \in DOMAIN m : m[k] \in SlotsAt(track)
BY DEF SlotMaps

LEMMA SlotMapMade ==
  ASSUME NEW D \in SUBSET SlotKeys, NEW m, m = [k \in D |-> m[k]],
         \A k \in D : m[k] \in SlotsAt(track)
  PROVE  m \in SlotMaps
<1>1. m \in [D -> SlotsAt(track)]
  OBVIOUS
<1>2. QED
  BY <1>1 DEF SlotMaps

LEMMA RollMapIs ==
  ASSUME NEW m \in RollMaps
  PROVE  /\ DOMAIN m \subseteq SlotKeys /\ m = [k \in DOMAIN m |-> m[k]]
         /\ \A k \in DOMAIN m : m[k].key \in Events /\ m[k].reach \in 0..Grain
         /\ \A k \in DOMAIN m : m[k] \in [key : Events, reach : 0..Grain]
BY DEF RollMaps

LEMMA RollMapMade ==
  ASSUME NEW D \in SUBSET SlotKeys, NEW m, m = [k \in D |-> m[k]],
         \A k \in D : m[k] \in [key : Events, reach : 0..Grain]
  PROVE  m \in RollMaps
<1>1. m \in [D -> [key : Events, reach : 0..Grain]]
  OBVIOUS
<1>2. QED
  BY <1>1 DEF RollMaps

LEMMA FreshIsSlot == track \in Nat => Fresh \in SlotsAt(track)
<1>1. "idle" \in Phases /\ NoKey \in Events /\ NoKey \in Windows /\ 0 \in 0..Full
  BY DriverUnits DEF Phases, Events, Windows
<1>2. QED
  BY <1>1 DEF Fresh, SlotsAt, SlotRecords

LEMMA StateIsSlot ==
  ASSUME track \in Nat, NEW states \in SlotMaps, NEW k
  PROVE  StateOf(states, k) \in SlotsAt(track)
BY FreshIsSlot, SlotMapIs DEF StateOf

LEMMA LaneOf ==
  ASSUME NEW scoped \in Fitting
  PROVE  /\ scoped.lane \in LanesOf /\ scoped.lane.times \in TimesOK
         /\ scoped.lane.driver \in Fit
         /\ SlotsOf(scoped) \subseteq SlotKeys
         /\ MainSlot(scoped) \in SlotsOf(scoped)
         /\ \A k \in SlotsOf(scoped) : /\ k[3] + 1 \in DOMAIN Drivers(scoped.lane)
                                       /\ Drivers(scoped.lane)[k[3] + 1] \in Fit
<1>1. scoped.group \in STRING /\ scoped.lane \in LanesOf
  BY DEF Fitting, Laid
<1>2. /\ scoped.lane.times \in TimesOK /\ scoped.lane.id \in STRING
      /\ scoped.lane.randomValue \in BOOLEAN
  BY <1>1 DEF LanesOf, TimesOK
<1>3. /\ DOMAIN Drivers(scoped.lane) = 1..(Len(scoped.lane.modifiers) + 1)
      /\ Len(scoped.lane.modifiers) \in Nat
      /\ Drivers(scoped.lane)[1] = scoped.lane.driver
  BY <1>1, DriversOfLane
<1>4. \A n \in DOMAIN Drivers(scoped.lane) : Drivers(scoped.lane)[n] \in Fit
  BY DEF Fitting
<1>5. ASSUME NEW k \in SlotsOf(scoped)
      PROVE  /\ k \in SlotKeys /\ k[3] + 1 \in DOMAIN Drivers(scoped.lane)
             /\ Drivers(scoped.lane)[k[3] + 1] \in Fit
  <2>1. PICK n \in DOMAIN Drivers(scoped.lane) : k = <<scoped.group, scoped.lane.id, n - 1>>
    BY DEF SlotsOf, SlotOf
  <2>2. n - 1 \in Nat /\ k[3] + 1 = n
    BY <1>3, <2>1
  <2>3. QED
    BY <1>1, <1>2, <1>4, <2>1, <2>2 DEF SlotKeys
<1>6. 1 \in DOMAIN Drivers(scoped.lane)
  BY <1>3
<1>7. MainSlot(scoped) = SlotOf(scoped.group, scoped.lane, 1 - 1)
  BY DEF MainSlot
<1>8. MainSlot(scoped) \in SlotsOf(scoped)
  BY <1>6, <1>7 DEF SlotsOf
<1>9. scoped.lane.driver \in Fit
  BY <1>3, <1>4, <1>6
<1>10. QED
  BY <1>1, <1>2, <1>5, <1>8, <1>9

(* The slots of the lane have moved, the others are as they were.          *)
LEMMA LaneMoves ==
  ASSUME Clocks, NEW states \in SlotMaps, NEW scoped \in Fitting, NEW draws, Draws(draws)
  PROVE  LET now == LaneAdvanced(states, scoped, draws)
         IN  /\ now \in SlotMaps /\ DOMAIN now = DOMAIN states \cup SlotsOf(scoped)
             /\ \A k \in DOMAIN states \ SlotsOf(scoped) : now[k] = states[k]
             /\ \A k \in SlotsOf(scoped) :
                   Moves(StateOf(states, k), now[k], scoped.lane.times)
<1> DEFINE now == LaneAdvanced(states, scoped, draws)
           mine == SlotsOf(scoped)
           driver(k) == Drivers(scoped.lane)[k[3] + 1]
           draw(k) == IF k \in DOMAIN draws THEN draws[k] ELSE 0
           D == DOMAIN states \cup mine
<1>1. now = [k \in D |-> IF k \notin mine THEN states[k]
                         ELSE SlotAdvanced(StateOf(states, k), driver(k), scoped.lane.times, draw(k))]
  BY DEF LaneAdvanced, SlotsOf
<1>2. D \subseteq SlotKeys /\ DOMAIN states \subseteq SlotKeys
  BY SlotMapIs, LaneOf
<1>3. ASSUME NEW k \in mine
      PROVE  Moves(StateOf(states, k), now[k], scoped.lane.times)
  <2>1. now[k] = SlotAdvanced(StateOf(states, k), driver(k), scoped.lane.times, draw(k))
    BY <1>1
  <2>2. driver(k) \in Fit /\ scoped.lane.times \in TimesOK
    BY LaneOf
  <2>3. draw(k) \in Int
    BY DriverUnits DEF Draws
  <2>4. StateOf(states, k) \in SlotsAt(track)
    BY StateIsSlot DEF Clocks
  <2> HIDE DEF now, mine, driver, draw, D
  <2>5. QED
    BY <2>1, <2>2, <2>3, <2>4, SlotMoves DEF Clocks
<1>4. ASSUME NEW k \in DOMAIN states \ mine
      PROVE  now[k] = states[k]
  BY <1>1
<1> HIDE DEF now, mine
<1>5. ASSUME NEW k \in D PROVE now[k] \in SlotsAt(track)
  BY <1>3, <1>4, SlotMapIs DEF Moves
<1>6. now = [k \in D |-> now[k]] /\ DOMAIN now = D
  BY <1>1
<1> HIDE DEF D
<1>7. now \in SlotMaps
  BY <1>2, <1>5, <1>6, SlotMapMade
<1>8. QED
  BY <1>3, <1>4, <1>6, <1>7 DEF now, D, mine

(* A sum is in whatever has 0 and is closed under the addition of terms.   *)
LEMMA SumStays ==
  ASSUME NEW X, NEW S, 0 \in S, \A t \in S, x \in X : t + x \in S, NEW seq \in Seq(X)
  PROVE  SumOf(seq) \in S
<1> DEFINE n == Len(seq)
           Step(t, i) == t + seq[i]
           step == [q \in S \X (1..n) |-> Step(q[1], q[2])]
           E(h) == h = [s \in SUBSET (1..n) |->
                          IF s = {} THEN 0 ELSE Step(h[s \ {Max(s)}], Max(s))]
           it == CHOOSE h : E(h)
<1>1. n \in Nat /\ DOMAIN seq = 1..n /\ \A i \in 1..n : seq[i] \in X
  OBVIOUS
<1>2. SumOf(seq) = it[1..n]
  BY <1>1 DEF SumOf, FoldLeft, MapThenFoldSet
<1>3. \A q \in S, i \in 1..n : Step(q, i) \in S
  BY <1>1
<1>4. /\ n \in Nat /\ 0 \in S /\ step \in [S \X (1..n) -> S]
      /\ \A q \in S, i \in 1..n : step[<<q, i>>] = Step(q, i)
  BY <1>1, <1>3
<1> HIDE DEF n, Step, step
<1>5. \E h : E(h)
  <2> HIDE DEF E, it
  <2>1. PICK h : Solves(h, n, S, 0, step)
    BY <1>4, FoldSolved
  <2>2. \A s \in SUBSET (1..n) : h[s] = IF s = {} THEN 0 ELSE Step(h[s \ {Max(s)}], Max(s))
    BY <1>4, <2>1 DEF Solves
  <2>3. h = [s \in SUBSET (1..n) |-> h[s]]
    BY <2>1 DEF Solves
  <2>4. QED
    BY <2>2, <2>3 DEF E
<1>6. E(it)
  <2> HIDE DEF E
  <2>1. QED
    BY <1>5
<1> HIDE DEF it
<1>7. Follows(it, n, S, 0, step)
  BY <1>1, <1>4, <1>6, GreatestOf DEF Follows
<1>8. it[1..n] \in S
  BY <1>4, <1>7, FoldStays
<1>9. QED
  BY <1>2, <1>8

LEMMA SumIsNat ==
  ASSUME NEW seq \in Seq(Nat)
  PROVE  SumOf(seq) \in Nat
<1>1. 0 \in Nat /\ \A t \in Nat, x \in Nat : t + x \in Nat
  OBVIOUS
<1>2. QED
  BY <1>1, SumStays

LEMMA SignalBounded ==
  ASSUME track \in Nat, NEW states \in SlotMaps, NEW scoped \in Fitting,
         SlotsOf(scoped) \subseteq DOMAIN states
  PROVE  Signal(states, scoped) \in 0..(4 * Full)
<1> DEFINE drivers == Drivers(scoped.lane)
           heard == Heard(states, scoped)
<1>1. DOMAIN drivers = 1..(Len(scoped.lane.modifiers) + 1) /\ Len(scoped.lane.modifiers) \in Nat
  BY LaneOf, DriversOfLane
<1>2. ASSUME NEW n \in DOMAIN drivers
      PROVE  Level(states[SlotOf(scoped.group, scoped.lane, n - 1)], drivers[n]) \in Nat
  <2> DEFINE s == states[SlotOf(scoped.group, scoped.lane, n - 1)]
  <2>1. SlotOf(scoped.group, scoped.lane, n - 1) \in DOMAIN states
    BY DEF SlotsOf
  <2>2. s \in SlotsAt(track)
    BY <2>1, SlotMapIs
  <2> HIDE DEF s
  <2>3. s.level \in Nat /\ s.current \in Nat
    BY <2>2, DriverUnits DEF SlotsAt, SlotRecords
  <2>4. Level(s, drivers[n]) \in Nat
    BY <2>3 DEF Level
  <2>5. QED
    BY <2>4 DEF s
<1>3. heard = [n \in DOMAIN drivers |->
                  Level(states[SlotOf(scoped.group, scoped.lane, n - 1)], drivers[n])]
  BY DEF Heard
<1> HIDE DEF drivers, heard
<1>4. heard \in Seq(Nat)
  BY <1>1, <1>2, <1>3
<1>5. SumOf(heard) \in Nat
  BY <1>4, SumIsNat
<1>6. Signal(states, scoped) = Lesser(4 * Full, Greater(0, SumOf(heard)))
  BY DEF Signal, heard
<1>7. QED
  BY <1>5, <1>6, DriverUnits DEF Lesser, Greater

(* The roll is of the event the lane's own driver is on.                   *)
RollFollows(kept, states, scoped) ==
  scoped.lane.randomValue =>
    /\ MainSlot(scoped) \in DOMAIN kept
    /\ kept[MainSlot(scoped)].key = states[MainSlot(scoped)].key

LEMMA RollsFollow ==
  ASSUME track \in Nat, NEW states \in SlotMaps, NEW kept \in RollMaps, NEW scoped \in Fitting,
         SlotsOf(scoped) \subseteq DOMAIN states,
         NEW draws, Draws(draws), DrawsFor(draws, scoped)
  PROVE  LET now == Rolled(kept, scoped, states, draws)
         IN  /\ now \in RollMaps /\ DOMAIN kept \subseteq DOMAIN now
             /\ RollFollows(now, states, scoped)
             /\ \A k \in DOMAIN kept : k # MainSlot(scoped) => now[k] = kept[k]
<1> DEFINE k == MainSlot(scoped)
           key == states[k].key
           roll == [key |-> key, reach |-> draws[RollSlot(scoped)]]
           D == DOMAIN kept \cup {k}
           new == [x \in D |-> IF x = k THEN roll ELSE kept[x]]
           now == Rolled(kept, scoped, states, draws)
<1>1. k \in DOMAIN states /\ k \in SlotKeys /\ StateOf(states, k).key = key
  BY LaneOf DEF StateOf
<1>2. now = IF ~scoped.lane.randomValue \/ (k \in DOMAIN kept /\ kept[k].key = key) THEN kept
            ELSE new
  BY <1>1 DEF Rolled
<1>3. CASE ~scoped.lane.randomValue \/ (k \in DOMAIN kept /\ kept[k].key = key)
  <2>1. now = kept
    BY <1>2, <1>3
  <2>2. RollFollows(kept, states, scoped)
    BY <1>3 DEF RollFollows
  <2> HIDE DEF now
  <2>3. QED
    BY <2>1, <2>2 DEF now
<1>4. CASE ~(~scoped.lane.randomValue \/ (k \in DOMAIN kept /\ kept[k].key = key))
  <2>1. now = new
    BY <1>2, <1>4
  <2>2. key \in Events
    <3>1. states[k] \in SlotsAt(track)
      BY <1>1, SlotMapIs
    <3>2. QED
      BY <3>1 DEF SlotsAt, SlotRecords
  <2>3. roll \in [key : Events, reach : 0..Grain]
    BY <1>4, <2>2 DEF Draws, DrawsFor
  <2>4. roll.key = key
    OBVIOUS
  <2> HIDE DEF roll, k, key
  <2>5. D \subseteq SlotKeys
    BY <1>1, RollMapIs
  <2>6. \A x \in D : new[x] \in [key : Events, reach : 0..Grain]
    BY <2>3, RollMapIs
  <2>7. new = [x \in D |-> new[x]] /\ new[k] = roll /\ DOMAIN new = D
    OBVIOUS
  <2>8. \A x \in DOMAIN kept : x # k => new[x] = kept[x]
    OBVIOUS
  <2>9. DOMAIN kept \subseteq D /\ k \in D
    OBVIOUS
  <2> HIDE DEF D, new
  <2>10. new \in RollMaps
    BY <2>5, <2>6, <2>7, RollMapMade
  <2>11. RollFollows(new, states, scoped)
    BY <2>4, <2>7, <2>9 DEF RollFollows, k, key
  <2> HIDE DEF now
  <2>12. QED
    BY <2>1, <2>7, <2>8, <2>9, <2>10, <2>11 DEF now, k
<1>5. QED
  BY <1>3, <1>4

(* What a lane contributes.                                                *)
Peak == (Highest - Lowest) * (4 * Full) * Grain

Contributions == [amount : 0..Peak, period : Nat, low : Lowest..Highest]

LEMMA ProductWithin ==
  ASSUME NEW A \in Nat, NEW B \in Nat, NEW a \in 0..A, NEW b \in 0..B
  PROVE  a * b \in 0..(A * B)
<1>1. a \in Nat /\ b \in Nat /\ A - a \in Nat /\ B - b \in Nat
  OBVIOUS
<1>2. a * b >= 0 /\ a * b \in Int /\ A * B \in Int /\ a * B \in Int
  BY <1>1
<1>3. (A - a) * B >= 0 /\ a * (B - b) >= 0
  BY <1>1
<1>4. (A - a) * B = A * B - a * B /\ a * (B - b) = a * B - a * b
  BY <1>1
<1>5. QED
  BY <1>2, <1>3, <1>4

LEMMA PeriodIsNat ==
  ASSUME NEW d \in Fit
  PROVE  Period(d) \in Nat
<1> DEFINE p == IF d.type = "random" THEN Cadence(d) ELSE d
<1>1. p \in Fit
  BY CadenceFits
<1> HIDE DEF p
<1>2. PulseUnits(p) * Every(p) \in Nat
  <2> DEFINE u == PulseUnits(p)
             e == Every(p)
  <2>1. u \in Positive /\ e \in Positive
    BY <1>1, FitUnits
  <2> HIDE DEF u, e
  <2>2. u * e \in Nat
    BY <2>1 DEF Positive
  <2>3. QED
    BY <2>2 DEF u, e
<1>3. Infinite \in Nat
  BY DriverUnits DEF Infinite
<1>4. Period(d) = CASE p.type = "song" -> Infinite
                    [] p.type \in {"timer", "downbeat", "beat"} -> PulseUnits(p) * Every(p)
                    [] OTHER -> 0
  BY DEF Period, p
<1>5. CASE p.type = "song"
  BY <1>3, <1>4, <1>5
<1>6. CASE p.type \in {"timer", "downbeat", "beat"}
  BY <1>2, <1>4, <1>6
<1>7. CASE p.type \notin {"song", "timer", "downbeat", "beat"}
  BY <1>4, <1>7
<1>8. QED
  BY <1>5, <1>6, <1>7

LEMMA ContributionBounded ==
  ASSUME track \in Nat, NEW states \in SlotMaps, NEW kept \in RollMaps, NEW scoped \in Fitting,
         SlotsOf(scoped) \subseteq DOMAIN states, RollFollows(kept, states, scoped)
  PROVE  Contribution(states, kept, scoped) \in Contributions
<1> DEFINE lane == scoped.lane
           heard == Signal(states, scoped)
           scale == IF lane.randomValue THEN kept[MainSlot(scoped)].reach ELSE Grain
           range == High(lane) - Low(lane)
<1>1. lane.low \in Int /\ lane.high \in Int /\ lane.randomValue \in BOOLEAN
  BY LaneOf DEF LanesOf
<1>2. Low(lane) \in Lowest..Highest /\ range \in 0..(Highest - Lowest)
  BY <1>1, DriverUnits DEF Low, High, Greater, Lesser
<1>3. heard \in 0..(4 * Full)
  BY SignalBounded
<1>4. scale \in 0..Grain
  BY RollMapIs, DriverUnits DEF RollFollows
<1>5. Period(lane.driver) \in Nat
  BY LaneOf, PeriodIsNat
<1>6. Contribution(states, kept, scoped) =
        [amount |-> range * heard * scale, period |-> Period(lane.driver), low |-> Low(lane)]
  BY DEF Contribution
<1> HIDE DEF lane, heard, scale, range
<1>7. range * heard * scale \in 0..Peak
  <2>1. Highest - Lowest \in Nat /\ 4 * Full \in Nat /\ Grain \in Nat
    BY DriverUnits
  <2>2. range * heard \in 0..((Highest - Lowest) * (4 * Full))
    BY <1>2, <1>3, <2>1, ProductWithin
  <2>3. (Highest - Lowest) * (4 * Full) \in Nat
    BY <2>1
  <2>4. QED
    BY <1>4, <2>1, <2>2, <2>3, ProductWithin DEF Peak
<1>8. QED
  BY <1>2, <1>5, <1>6, <1>7 DEF Contributions

(* Only the lane's own slots and roll count.                               *)
LEMMA ContributionKept ==
  ASSUME NEW states, NEW after, NEW kept, NEW drawn, NEW scoped \in Fitting,
         \A k \in SlotsOf(scoped) : after[k] = states[k],
         scoped.lane.randomValue => drawn[MainSlot(scoped)] = kept[MainSlot(scoped)]
  PROVE  Contribution(after, drawn, scoped) = Contribution(states, kept, scoped)
<1>1. Heard(after, scoped) = Heard(states, scoped)
  BY DEF Heard, SlotsOf
<1>2. Signal(after, scoped) = Signal(states, scoped)
  BY <1>1 DEF Signal
<1>3. QED
  BY <1>2 DEF Contribution

-----------------------------------------------------------------------------
(* All lanes in one frame.                                                 *)

Evaluations == [slots : SlotMaps, rolls : RollMaps, parts : Seq(Contributions)]

LEMMA LaneEvaluated ==
  ASSUME Clocks, NEW e \in Evaluations, NEW scoped \in Fitting,
         NEW draws, Draws(draws), DrawsFor(draws, scoped)
  PROVE  LET now == Evaluated(e, scoped, draws)
         IN  /\ now \in Evaluations
             /\ DOMAIN now.slots = DOMAIN e.slots \cup SlotsOf(scoped)
             /\ \A k \in DOMAIN e.slots \ SlotsOf(scoped) : now.slots[k] = e.slots[k]
             /\ \A k \in SlotsOf(scoped) :
                   Moves(StateOf(e.slots, k), now.slots[k], scoped.lane.times)
             /\ RollFollows(now.rolls, now.slots, scoped)
             /\ DOMAIN e.rolls \subseteq DOMAIN now.rolls
             /\ \A k \in DOMAIN e.rolls : k # MainSlot(scoped) => now.rolls[k] = e.rolls[k]
             /\ now.parts = Append(e.parts, Contribution(now.slots, now.rolls, scoped))
<1> DEFINE states == LaneAdvanced(e.slots, scoped, draws)
           kept == Rolled(e.rolls, scoped, states, draws)
           part == Contribution(states, kept, scoped)
           now == Evaluated(e, scoped, draws)
<1>1. now = [slots |-> states, rolls |-> kept, parts |-> Append(e.parts, part)]
  BY DEF Evaluated, Drawn
<1>2. e.slots \in SlotMaps /\ e.rolls \in RollMaps /\ e.parts \in Seq(Contributions) /\ track \in Nat
  BY DEF Evaluations, Clocks
<1>3. /\ states \in SlotMaps /\ DOMAIN states = DOMAIN e.slots \cup SlotsOf(scoped)
      /\ \A k \in DOMAIN e.slots \ SlotsOf(scoped) : states[k] = e.slots[k]
      /\ \A k \in SlotsOf(scoped) : Moves(StateOf(e.slots, k), states[k], scoped.lane.times)
  BY <1>2, LaneMoves
<1> HIDE DEF states
<1>4. /\ kept \in RollMaps /\ DOMAIN e.rolls \subseteq DOMAIN kept
      /\ RollFollows(kept, states, scoped)
      /\ \A k \in DOMAIN e.rolls : k # MainSlot(scoped) => kept[k] = e.rolls[k]
  BY <1>2, <1>3, RollsFollow
<1> HIDE DEF kept
<1>5. part \in Contributions
  BY <1>2, <1>3, <1>4, ContributionBounded
<1>6. now \in Evaluations
  <2> HIDE DEF part, now
  <2>1. Append(e.parts, part) \in Seq(Contributions)
    BY <1>2, <1>5
  <2>2. QED
    BY <1>1, <1>3, <1>4, <2>1 DEF Evaluations
<1>7. /\ now.slots = states /\ now.rolls = kept
      /\ now.parts = Append(e.parts, Contribution(now.slots, now.rolls, scoped))
  BY <1>1
<1> HIDE DEF now
<1>8. QED
  BY <1>3, <1>4, <1>6, <1>7 DEF now

LEMMA MainIsFirst ==
  ASSUME NEW scoped, NEW other, MainSlot(other) \in SlotsOf(scoped)
  PROVE  MainSlot(other) = MainSlot(scoped)
<1>1. PICK n \in DOMAIN Drivers(scoped.lane) :
        <<other.group, other.lane.id, 0>> = <<scoped.group, scoped.lane.id, n - 1>>
  BY DEF SlotsOf, SlotOf, MainSlot
<1>2. other.group = scoped.group /\ other.lane.id = scoped.lane.id
  BY <1>1
<1>3. QED
  BY <1>2 DEF MainSlot, SlotOf

LEMMA ApartOwned ==
  ASSUME NEW lanes \in Seq(Fitting), Apart(lanes)
  PROVE  Owned(lanes)
<1>1. ASSUME NEW m \in DOMAIN lanes, NEW n \in DOMAIN lanes,
             MainSlot(lanes[m]) = MainSlot(lanes[n])
      PROVE  lanes[m] = lanes[n]
  <2>1. lanes[m] \in Fitting /\ lanes[n] \in Fitting
    OBVIOUS
  <2>2. MainSlot(lanes[m]) \in SlotsOf(lanes[m]) \cap SlotsOf(lanes[n])
    BY <1>1, <2>1, LaneOf
  <2>3. m = n
    BY <2>2 DEF Apart
  <2>4. QED
    BY <2>3
<1>2. QED
  BY <1>1 DEF Owned

(* What the first lanes have done, and the others not yet.                 *)
Through(i, e, lanes) ==
  /\ Len(e.parts) = i
  /\ \A m \in 1..i : SlotsOf(lanes[m]) \subseteq DOMAIN e.slots
  /\ Owned(lanes) => \A m \in 1..i : RollFollows(e.rolls, e.slots, lanes[m])
  /\ Apart(lanes) =>
       /\ \A m \in 1..i : \A k \in SlotsOf(lanes[m]) :
             Moves(StateOf(slots, k), e.slots[k], lanes[m].lane.times)
       /\ \A m \in DOMAIN lanes \ (1..i) : \A k \in SlotsOf(lanes[m]) :
             StateOf(e.slots, k) = StateOf(slots, k)
       /\ \A m \in 1..i : e.parts[m] = Contribution(e.slots, e.rolls, lanes[m])

LEMMA ThroughNext ==
  ASSUME Clocks, NEW lanes \in Seq(Fitting), NEW draws, Draws(draws),
         \A m \in DOMAIN lanes : DrawsFor(draws, lanes[m]),
         NEW i \in 1..Len(lanes), NEW e \in Evaluations, Through(i - 1, e, lanes)
  PROVE  /\ Evaluated(e, lanes[i], draws) \in Evaluations
         /\ Through(i, Evaluated(e, lanes[i], draws), lanes)
<1> DEFINE s == lanes[i]
           now == Evaluated(e, lanes[i], draws)
           part == Contribution(now.slots, now.rolls, lanes[i])
<1>1. /\ s \in Fitting /\ i \in DOMAIN lanes /\ DOMAIN lanes = 1..Len(lanes) /\ Len(lanes) \in Nat
      /\ \A m \in 1..i : lanes[m] \in Fitting /\ m \in DOMAIN lanes
  OBVIOUS
<1>2. /\ now \in Evaluations
      /\ DOMAIN now.slots = DOMAIN e.slots \cup SlotsOf(s)
      /\ \A k \in DOMAIN e.slots \ SlotsOf(s) : now.slots[k] = e.slots[k]
      /\ \A k \in SlotsOf(s) : Moves(StateOf(e.slots, k), now.slots[k], s.lane.times)
      /\ RollFollows(now.rolls, now.slots, s)
      /\ DOMAIN e.rolls \subseteq DOMAIN now.rolls
      /\ \A k \in DOMAIN e.rolls : k # MainSlot(s) => now.rolls[k] = e.rolls[k]
      /\ now.parts = Append(e.parts, part)
  BY <1>1, LaneEvaluated
<1>3. e.parts \in Seq(Contributions) /\ Len(e.parts) = i - 1
  BY DEF Evaluations, Through
<1>4. /\ \A m \in 1..(i - 1) : SlotsOf(lanes[m]) \subseteq DOMAIN e.slots
      /\ Owned(lanes) => \A m \in 1..(i - 1) : RollFollows(e.rolls, e.slots, lanes[m])
  BY DEF Through
<1>5. Apart(lanes) =>
       /\ \A m \in 1..(i - 1) : \A k \in SlotsOf(lanes[m]) :
             Moves(StateOf(slots, k), e.slots[k], lanes[m].lane.times)
       /\ \A m \in DOMAIN lanes \ (1..(i - 1)) : \A k \in SlotsOf(lanes[m]) :
             StateOf(e.slots, k) = StateOf(slots, k)
       /\ \A m \in 1..(i - 1) : e.parts[m] = Contribution(e.slots, e.rolls, lanes[m])
  BY DEF Through
<1> HIDE DEF now, s
<1>6. \A m \in 1..i : m = i \/ m \in 1..(i - 1)
  OBVIOUS
<1>7. Len(now.parts) = i /\ now.parts[i] = part /\ \A m \in 1..(i - 1) : now.parts[m] = e.parts[m]
  <2> HIDE DEF part
  <2>1. QED
    BY <1>2, <1>3
<1>8. \A m \in 1..i : SlotsOf(lanes[m]) \subseteq DOMAIN now.slots
  BY <1>2, <1>4, <1>6 DEF s
<1>9. ASSUME Owned(lanes), NEW m \in 1..i
      PROVE  RollFollows(now.rolls, now.slots, lanes[m])
  <2>1. CASE m = i
    BY <1>2, <2>1 DEF s
  <2>2. CASE m \in 1..(i - 1)
    <3>1. RollFollows(e.rolls, e.slots, lanes[m]) /\ SlotsOf(lanes[m]) \subseteq DOMAIN e.slots
      BY <1>4, <1>9, <2>2
    <3>2. CASE MainSlot(lanes[m]) \in SlotsOf(s)
      <4>1. MainSlot(lanes[m]) = MainSlot(s)
        BY <3>2, MainIsFirst
      <4>2. lanes[m] = s
        BY <1>1, <1>9, <4>1 DEF Owned, s
      <4>3. QED
        BY <1>2, <4>2
    <3>3. CASE MainSlot(lanes[m]) \notin SlotsOf(s)
      <4>1. MainSlot(lanes[m]) \in DOMAIN e.slots /\ MainSlot(lanes[m]) # MainSlot(s)
        BY <1>1, <3>1, <3>3, LaneOf
      <4>2. now.slots[MainSlot(lanes[m])] = e.slots[MainSlot(lanes[m])]
        BY <1>2, <3>3, <4>1
      <4>3. MainSlot(lanes[m]) \in DOMAIN e.rolls =>
              /\ MainSlot(lanes[m]) \in DOMAIN now.rolls
              /\ now.rolls[MainSlot(lanes[m])] = e.rolls[MainSlot(lanes[m])]
        BY <1>2, <4>1
      <4>4. QED
        BY <3>1, <4>2, <4>3 DEF RollFollows
    <3>4. QED
      BY <3>2, <3>3
  <2>3. QED
    BY <1>6, <2>1, <2>2
<1>10. ASSUME Apart(lanes)
       PROVE  /\ \A m \in 1..i : \A k \in SlotsOf(lanes[m]) :
                    Moves(StateOf(slots, k), now.slots[k], lanes[m].lane.times)
              /\ \A m \in DOMAIN lanes \ (1..i) : \A k \in SlotsOf(lanes[m]) :
                    StateOf(now.slots, k) = StateOf(slots, k)
              /\ \A m \in 1..i : now.parts[m] = Contribution(now.slots, now.rolls, lanes[m])
  <2>1. \A m \in DOMAIN lanes : m # i => SlotsOf(lanes[m]) \cap SlotsOf(s) = {}
    BY <1>1, <1>10 DEF Apart, s
  <2>2. \A m \in 1..(i - 1) : m \in DOMAIN lanes /\ m # i
    BY <1>1
  <2>3. ASSUME NEW m \in 1..(i - 1), NEW k \in SlotsOf(lanes[m])
        PROVE  now.slots[k] = e.slots[k]
    BY <1>2, <1>4, <2>1, <2>2
  <2>4. ASSUME NEW m \in 1..i, NEW k \in SlotsOf(lanes[m])
        PROVE  Moves(StateOf(slots, k), now.slots[k], lanes[m].lane.times)
    <3>1. CASE m = i
      <4>1. i \in DOMAIN lanes \ (1..(i - 1)) /\ k \in SlotsOf(s)
        BY <1>1, <2>4, <3>1 DEF s
      <4>2. StateOf(e.slots, k) = StateOf(slots, k)
        BY <1>5, <1>10, <2>4, <3>1, <4>1
      <4>3. Moves(StateOf(e.slots, k), now.slots[k], s.lane.times)
        BY <1>2, <4>1
      <4>4. QED
        BY <3>1, <4>2, <4>3 DEF s
    <3>2. CASE m \in 1..(i - 1)
      BY <1>5, <1>10, <2>3, <3>2
    <3>3. QED
      BY <1>6, <3>1, <3>2
  <2>5. ASSUME NEW m \in DOMAIN lanes \ (1..i), NEW k \in SlotsOf(lanes[m])
        PROVE  StateOf(now.slots, k) = StateOf(slots, k)
    <3>1. m \in DOMAIN lanes \ (1..(i - 1)) /\ m # i
      BY <1>1
    <3>2. k \notin SlotsOf(s)
      BY <2>1, <3>1
    <3>3. StateOf(now.slots, k) = StateOf(e.slots, k)
      BY <1>2, <3>2 DEF StateOf
    <3>4. QED
      BY <1>5, <1>10, <3>1, <3>3
  <2>6. ASSUME NEW m \in 1..i
        PROVE  now.parts[m] = Contribution(now.slots, now.rolls, lanes[m])
    <3>1. CASE m = i
      BY <1>7, <3>1
    <3>2. CASE m \in 1..(i - 1)
      <4>1. lanes[m] \in Fitting
        BY <1>1
      <4>2. \A k \in SlotsOf(lanes[m]) : now.slots[k] = e.slots[k]
        BY <2>3, <3>2
      <4>3. lanes[m].lane.randomValue =>
              now.rolls[MainSlot(lanes[m])] = e.rolls[MainSlot(lanes[m])]
        <5>1. Owned(lanes)
          BY <1>10, ApartOwned
        <5>2. lanes[m].lane.randomValue => MainSlot(lanes[m]) \in DOMAIN e.rolls
          BY <1>4, <3>2, <5>1 DEF RollFollows
        <5>3. MainSlot(lanes[m]) \in SlotsOf(lanes[m]) /\ MainSlot(s) \in SlotsOf(s)
          BY <1>1, <4>1, LaneOf
        <5>4. MainSlot(lanes[m]) # MainSlot(s)
          BY <2>1, <2>2, <3>2, <5>3
        <5>5. QED
          BY <1>2, <5>2, <5>4
      <4>4. Contribution(now.slots, now.rolls, lanes[m]) = Contribution(e.slots, e.rolls, lanes[m])
        BY <4>1, <4>2, <4>3, ContributionKept
      <4>5. QED
        BY <1>5, <1>7, <1>10, <3>2, <4>4
    <3>3. QED
      BY <1>6, <3>1, <3>2
  <2>7. QED
    BY <2>4, <2>5, <2>6
<1>11. Through(i, now, lanes)
  BY <1>7, <1>8, <1>9, <1>10 DEF Through
<1>12. QED
  BY <1>2, <1>11 DEF now

(* What the frame comes to.                                                *)
Framed(draws, lanes) ==
  FoldLeft(LAMBDA e, scoped : Evaluated(e, scoped, draws),
           [slots |-> slots, rolls |-> rolls, parts |-> <<>>], lanes)

LEMMA FrameEvaluated ==
  ASSUME Clocks, NEW lanes \in Seq(Fitting), NEW draws, Draws(draws),
         \A m \in DOMAIN lanes : DrawsFor(draws, lanes[m]),
         slots \in SlotMaps, rolls \in RollMaps
  PROVE  /\ Framed(draws, lanes) \in Evaluations
         /\ Through(Len(lanes), Framed(draws, lanes), lanes)
<1> DEFINE n == Len(lanes)
           base == [slots |-> slots, rolls |-> rolls, parts |-> <<>>]
           go == [q \in Evaluations \X (1..n) |-> Evaluated(q[1], lanes[q[2]], draws)]
           E(h) == h = [t \in SUBSET (1..n) |->
                          IF t = {} THEN base ELSE Evaluated(h[t \ {Max(t)}], lanes[Max(t)], draws)]
           it == CHOOSE h : E(h)
           P == {p \in (0..n) \X Evaluations : Through(p[1], p[2], lanes)}
           result == Framed(draws, lanes)
<1>1. n \in Nat /\ DOMAIN lanes = 1..n /\ \A i \in 1..n : lanes[i] \in Fitting
  OBVIOUS
<1>2. result = it[1..n]
  BY <1>1 DEF Framed, FoldLeft, MapThenFoldSet
<1>3. \A q \in Evaluations, i \in 1..n : Evaluated(q, lanes[i], draws) \in Evaluations
  BY <1>1, LaneEvaluated
<1>4. base \in Evaluations /\ Through(0, base, lanes)
  <2>1. <<>> \in Seq(Contributions) /\ Len(<<>>) = 0
    OBVIOUS
  <2>2. base \in Evaluations
    BY <2>1 DEF Evaluations
  <2>3. base.slots = slots /\ base.parts = <<>>
    OBVIOUS
  <2> HIDE DEF base
  <2>4. Through(0, base, lanes)
    BY <2>1, <2>3 DEF Through
  <2>5. QED
    BY <2>2, <2>4
<1>5. /\ go \in [Evaluations \X (1..n) -> Evaluations]
      /\ \A q \in Evaluations, i \in 1..n : go[<<q, i>>] = Evaluated(q, lanes[i], draws)
  BY <1>3
<1> HIDE DEF n, base, go
<1>6. \E h : E(h)
  <2> HIDE DEF E, it, P, result
  <2>1. PICK h : Solves(h, n, Evaluations, base, go)
    BY <1>1, <1>4, <1>5, FoldSolved
  <2>2. \A t \in SUBSET (1..n) :
          h[t] = IF t = {} THEN base ELSE Evaluated(h[t \ {Max(t)}], lanes[Max(t)], draws)
    BY <1>5, <2>1 DEF Solves
  <2>3. h = [t \in SUBSET (1..n) |-> h[t]]
    BY <2>1 DEF Solves
  <2>4. QED
    BY <2>2, <2>3 DEF E
<1>7. E(it)
  <2> HIDE DEF E
  <2>1. QED
    BY <1>6
<1> HIDE DEF it
<1>8. Follows(it, n, Evaluations, base, go)
  BY <1>1, <1>5, <1>7, GreatestOf DEF Follows
<1>9. Carries(P, n, Evaluations, base, go)
  <2>1. <<0, base>> \in P
    BY <1>1, <1>4
  <2>2. ASSUME NEW k \in 1..n, NEW q \in Evaluations, <<k - 1, q>> \in P
        PROVE  <<k, go[<<q, k>>]>> \in P
    <3>1. Through(k - 1, q, lanes)
      BY <2>2
    <3>2. Evaluated(q, lanes[k], draws) \in Evaluations /\ Through(k, Evaluated(q, lanes[k], draws), lanes)
      <4> HIDE DEF P, result
      <4>1. k \in 1..Len(lanes)
        BY DEF n
      <4>2. QED
        BY <3>1, <4>1, ThroughNext
    <3>3. k \in 0..n
      BY <1>1
    <3>4. QED
      BY <1>5, <3>2, <3>3
  <2> HIDE DEF P
  <2>3. QED
    BY <2>1, <2>2 DEF Carries
<1>10. it[1..n] \in Evaluations /\ <<n, it[1..n]>> \in P
  <2> HIDE DEF P
  <2>1. QED
    BY <1>1, <1>4, <1>5, <1>8, <1>9, FoldReaches
<1>11. result \in Evaluations /\ Through(n, result, lanes)
  BY <1>2, <1>10
<1>12. QED
  BY <1>11 DEF n, base

-----------------------------------------------------------------------------
(* Which lane takes the effect.                                            *)

(* A non-empty set of values an effect may have has a greatest.            *)
LEMMA GreatestValue ==
  ASSUME NEW T \in SUBSET (Lowest..Highest), T # {}
  PROVE  Max(T) \in T /\ \A y \in T : y <= Max(T)
<1> DEFINE U == {x - Lowest : x \in T}
<1>1. Lowest \in Int /\ Highest \in Int /\ Highest - Lowest \in Nat
  BY DriverUnits
<1>2. U \subseteq 0..(Highest - Lowest) /\ U # {}
  <2>1. \A x \in T : x \in Int /\ x - Lowest \in 0..(Highest - Lowest)
    BY <1>1
  <2>2. QED
    BY <2>1
<1>3. Max(U) \in U /\ \A y \in U : y <= Max(U)
  <2> HIDE DEF U
  <2>1. QED
    BY <1>1, <1>2, Greatest
<1>4. PICK x \in T : Max(U) = x - Lowest
  BY <1>3
<1>5. \A y \in T : y - Lowest <= x - Lowest
  BY <1>3, <1>4
<1>6. \A y \in T : x >= y
  BY <1>1, <1>5
<1>7. \E z \in T : \A y \in T : z >= y
  BY <1>6
<1>8. Max(T) \in T /\ \A y \in T : Max(T) >= y
  BY <1>7 DEF Max
<1>9. QED
  BY <1>1, <1>8

(* The lanes that may take it.                                             *)
Eligible(mode, parts) ==
  {n \in DOMAIN parts : parts[n].amount # 0 /\ ~(mode = "common" /\ parts[n].period = 0)}

Outranks(mode, parts, n, m) ==
  \/ mode = "strongest" /\ parts[n].period > parts[m].period
  \/ mode # "strongest" /\ parts[n].period < parts[m].period
  \/ parts[n].period = parts[m].period /\ n >= m

(* The first of those among the first i.                                   *)
TakenOf(mode, parts, i, best) ==
  \/ best = <<>> /\ \A m \in 1..i : m \notin Eligible(mode, parts)
  \/ \E n \in 1..i : /\ n \in Eligible(mode, parts) /\ best = <<parts[n]>>
                     /\ \A m \in 1..i : m \in Eligible(mode, parts) => Outranks(mode, parts, n, m)

Taking(mode, p, best) ==
  IF p.amount = 0 \/ (mode = "common" /\ p.period = 0) THEN best
  ELSE IF best = <<>> \/ Beats(mode, p, best[1]) THEN <<p>> ELSE best

LEMMA TakenNext ==
  ASSUME NEW mode, NEW parts \in Seq(Contributions), NEW i \in 1..Len(parts), NEW best,
         TakenOf(mode, parts, i - 1, best)
  PROVE  TakenOf(mode, parts, i, Taking(mode, parts[i], best))
<1> DEFINE now == Taking(mode, parts[i], best)
<1>1. DOMAIN parts = 1..Len(parts) /\ Len(parts) \in Nat
  OBVIOUS
<1>2. \A n \in DOMAIN parts : parts[n].period \in Nat
  <2>1. \A n \in DOMAIN parts : parts[n] \in Contributions
    OBVIOUS
  <2>2. \A c \in Contributions : c.period \in Nat
    BY DEF Contributions
  <2>3. QED
    BY <2>1, <2>2
<1>3. \A m \in 1..i : m = i \/ m \in 1..(i - 1)
  OBVIOUS
<1>4. CASE i \notin Eligible(mode, parts)
  <2>1. now = best
    BY <1>1, <1>4 DEF Taking, Eligible
  <2>2. TakenOf(mode, parts, i, best)
    <3>1. CASE best = <<>> /\ \A m \in 1..(i - 1) : m \notin Eligible(mode, parts)
      BY <1>3, <1>4, <3>1 DEF TakenOf
    <3>2. CASE \E n \in 1..(i - 1) :
                 /\ n \in Eligible(mode, parts) /\ best = <<parts[n]>>
                 /\ \A m \in 1..(i - 1) : m \in Eligible(mode, parts) => Outranks(mode, parts, n, m)
      <4>1. PICK n \in 1..(i - 1) :
                 /\ n \in Eligible(mode, parts) /\ best = <<parts[n]>>
                 /\ \A m \in 1..(i - 1) : m \in Eligible(mode, parts) => Outranks(mode, parts, n, m)
        BY <3>2
      <4>2. n \in 1..i /\ \A m \in 1..i : m \in Eligible(mode, parts) => Outranks(mode, parts, n, m)
        BY <1>3, <1>4, <4>1
      <4>3. QED
        BY <4>1, <4>2 DEF TakenOf
    <3>3. QED
      BY <3>1, <3>2 DEF TakenOf
  <2> HIDE DEF now
  <2>3. QED
    BY <2>1, <2>2 DEF now
<1>5. CASE i \in Eligible(mode, parts)
  <2>1. now = IF best = <<>> \/ Beats(mode, parts[i], best[1]) THEN <<parts[i]>> ELSE best
    BY <1>1, <1>5 DEF Taking, Eligible
  <2>2. Outranks(mode, parts, i, i)
    BY <1>1, <1>2 DEF Outranks
  <2> HIDE DEF now
  <2>3. CASE best = <<>> /\ \A m \in 1..(i - 1) : m \notin Eligible(mode, parts)
    <3>1. now = <<parts[i]>>
      BY <2>1, <2>3
    <3>2. \A m \in 1..i : m \in Eligible(mode, parts) => Outranks(mode, parts, i, m)
      BY <1>3, <2>2, <2>3
    <3>3. i \in 1..i
      OBVIOUS
    <3>4. QED
      BY <1>5, <3>1, <3>2, <3>3 DEF TakenOf, now
  <2>4. CASE \E n \in 1..(i - 1) :
               /\ n \in Eligible(mode, parts) /\ best = <<parts[n]>>
               /\ \A m \in 1..(i - 1) : m \in Eligible(mode, parts) => Outranks(mode, parts, n, m)
    <3>1. PICK n \in 1..(i - 1) :
               /\ n \in Eligible(mode, parts) /\ best = <<parts[n]>>
               /\ \A m \in 1..(i - 1) : m \in Eligible(mode, parts) => Outranks(mode, parts, n, m)
      BY <2>4
    <3>2. /\ now = IF Beats(mode, parts[i], parts[n]) THEN <<parts[i]>> ELSE <<parts[n]>>
          /\ n \in DOMAIN parts /\ i \in DOMAIN parts /\ n < i /\ n \in 1..i /\ i \in 1..i
      BY <1>1, <2>1, <3>1
    <3>3. CASE Beats(mode, parts[i], parts[n])
      <4>1. \A m \in 1..(i - 1) : Outranks(mode, parts, n, m) => Outranks(mode, parts, i, m)
        BY <1>1, <1>2, <3>2, <3>3 DEF Outranks, Beats
      <4>2. \A m \in 1..i : m \in Eligible(mode, parts) => Outranks(mode, parts, i, m)
        BY <1>3, <2>2, <3>1, <4>1
      <4>3. QED
        BY <1>5, <3>2, <3>3, <4>2 DEF TakenOf, now
    <3>4. CASE ~Beats(mode, parts[i], parts[n])
      <4>1. Outranks(mode, parts, n, i)
        BY <1>2, <3>2, <3>4 DEF Outranks, Beats
      <4>2. \A m \in 1..i : m \in Eligible(mode, parts) => Outranks(mode, parts, n, m)
        BY <1>3, <3>1, <4>1
      <4>3. QED
        BY <3>1, <3>2, <3>4, <4>2 DEF TakenOf, now
    <3>5. QED
      BY <3>3, <3>4
  <2>5. QED
    BY <2>3, <2>4 DEF TakenOf
<1>6. QED
  BY <1>4, <1>5

LEMMA WinnerTakes ==
  ASSUME NEW mode, NEW parts \in Seq(Contributions)
  PROVE  TakenOf(mode, parts, Len(parts), Winner(mode, parts))
<1> DEFINE n == Len(parts)
           S == {<<>>} \cup {<<c>> : c \in Contributions}
           Step(b, i) == Taking(mode, parts[i], b)
           step == [q \in S \X (1..n) |-> Step(q[1], q[2])]
           E(h) == h = [s \in SUBSET (1..n) |->
                          IF s = {} THEN <<>> ELSE Step(h[s \ {Max(s)}], Max(s))]
           it == CHOOSE h : E(h)
           P == {p \in (0..n) \X S : TakenOf(mode, parts, p[1], p[2])}
<1>1. n \in Nat /\ DOMAIN parts = 1..n /\ \A i \in 1..n : parts[i] \in Contributions
  OBVIOUS
<1>2. Winner(mode, parts) = it[1..n]
  BY <1>1 DEF Winner, FoldLeft, MapThenFoldSet, Taking
<1>3. \A q \in S, i \in 1..n : Step(q, i) \in S
  BY <1>1 DEF Taking
<1>4. /\ n \in Nat /\ <<>> \in S /\ step \in [S \X (1..n) -> S]
      /\ \A q \in S, i \in 1..n : step[<<q, i>>] = Step(q, i)
  BY <1>1, <1>3
<1>5. TakenOf(mode, parts, 0, <<>>)
  BY DEF TakenOf
<1> HIDE DEF S, step
<1>6. \E h : E(h)
  <2> HIDE DEF E, it, P, n, Step
  <2>1. PICK h : Solves(h, n, S, <<>>, step)
    BY <1>4, FoldSolved
  <2>2. \A s \in SUBSET (1..n) : h[s] = IF s = {} THEN <<>> ELSE Step(h[s \ {Max(s)}], Max(s))
    BY <1>4, <2>1 DEF Solves
  <2>3. h = [s \in SUBSET (1..n) |-> h[s]]
    BY <2>1 DEF Solves
  <2>4. QED
    BY <2>2, <2>3 DEF E
<1>7. E(it)
  <2> HIDE DEF E, n, Step
  <2>1. QED
    BY <1>6
<1> HIDE DEF it
<1>8. Follows(it, n, S, <<>>, step)
  <2> HIDE DEF n, Step
  <2>1. QED
    BY <1>1, <1>4, <1>7, GreatestOf DEF Follows
<1>9. Carries(P, n, S, <<>>, step)
  <2>1. <<0, <<>>>> \in P
    BY <1>1, <1>4, <1>5
  <2>2. ASSUME NEW k \in 1..n, NEW q \in S, <<k - 1, q>> \in P
        PROVE  <<k, step[<<q, k>>]>> \in P
    <3>1. TakenOf(mode, parts, k - 1, q)
      BY <2>2
    <3>2. TakenOf(mode, parts, k, Step(q, k))
      <4> HIDE DEF P
      <4>1. QED
        BY <3>1, TakenNext
    <3>3. step[<<q, k>>] = Step(q, k) /\ step[<<q, k>>] \in S /\ k \in 0..n
      BY <1>4
    <3> HIDE DEF n, Step
    <3>4. QED
      BY <3>2, <3>3
  <2> HIDE DEF P, n, Step
  <2>3. QED
    BY <2>1, <2>2 DEF Carries
<1>10. <<n, it[1..n]>> \in P
  <2> HIDE DEF P, n, Step
  <2>1. QED
    BY <1>4, <1>8, <1>9, FoldReaches
<1>11. QED
  BY <1>2, <1>10

(* The terms of what the lanes come to.                                    *)
LEMMA PartOf ==
  ASSUME NEW parts \in Seq(Contributions)
  PROVE  \A n \in DOMAIN parts : /\ parts[n].amount \in 0..Peak /\ parts[n].amount \in Nat
                                 /\ parts[n].period \in Nat /\ parts[n].low \in Lowest..Highest
<1>1. \A n \in DOMAIN parts : parts[n] \in Contributions
  OBVIOUS
<1>2. \A c \in Contributions : /\ c.amount \in 0..Peak /\ c.amount \in Nat
                               /\ c.period \in Nat /\ c.low \in Lowest..Highest
  BY DEF Contributions
<1>3. QED
  BY <1>1, <1>2

LEMMA RestingIs ==
  ASSUME NEW mode, NEW parts \in Seq(Contributions), parts # <<>>
  PROVE  /\ Resting(mode, parts) \in Lowest..Highest
         /\ mode = "override" => Resting(mode, parts) = parts[Len(parts)].low
         /\ mode # "override" =>
              Resting(mode, parts) = Max({parts[m].low : m \in DOMAIN parts} \cup {Lowest})
<1> DEFINE lows == {parts[n].low : n \in DOMAIN parts}
<1>1. Len(parts) \in DOMAIN parts /\ 1 \in DOMAIN parts
  OBVIOUS
<1>2. parts[Len(parts)].low \in Lowest..Highest
  BY <1>1, PartOf
<1>3. lows \in SUBSET (Lowest..Highest) /\ lows # {}
  <2>1. \A n \in DOMAIN parts : parts[n].low \in Lowest..Highest
    BY PartOf
  <2>2. QED
    BY <1>1, <2>1
<1> HIDE DEF lows
<1>4. Max(lows) \in lows /\ \A y \in lows : y <= Max(lows)
  BY <1>3, GreatestValue
<1>5. Max(lows \cup {Lowest}) = Max(lows)
  <2>1. Lowest \in Int /\ Highest \in Int /\ Lowest <= Highest
    BY DriverUnits
  <2>2. lows \cup {Lowest} \in SUBSET (Lowest..Highest) /\ lows \cup {Lowest} # {}
    BY <1>3, <2>1
  <2>3. /\ Max(lows \cup {Lowest}) \in lows \cup {Lowest}
        /\ \A y \in lows \cup {Lowest} : y <= Max(lows \cup {Lowest})
    BY <2>2, GreatestValue
  <2> DEFINE a == Max(lows)
             b == Max(lows \cup {Lowest})
  <2>4. a \in Lowest..Highest /\ b \in Lowest..Highest
    BY <1>3, <1>4, <2>2, <2>3
  <2>5. a <= b
    BY <1>4, <2>3
  <2>6. b <= a
    <3>1. CASE b \in lows
      BY <1>4, <3>1
    <3>2. CASE b = Lowest
      BY <2>4, <3>2
    <3> HIDE DEF a, b
    <3>3. QED
      BY <2>3, <3>1, <3>2 DEF b
  <2> HIDE DEF a, b
  <2>7. a = b
    BY <2>1, <2>4, <2>5, <2>6
  <2>8. QED
    BY <2>7 DEF a, b
<1>6. Resting(mode, parts) = IF mode = "override" THEN parts[Len(parts)].low ELSE Max(lows)
  BY DEF Resting, Last, lows
<1>7. QED
  BY <1>2, <1>3, <1>4, <1>5, <1>6 DEF lows

LEMMA TotalIs ==
  ASSUME NEW mode, NEW parts \in Seq(Contributions), parts # <<>>
  PROVE  /\ Total(mode, parts) \in Int
         /\ mode = "override" => Total(mode, parts) = parts[Len(parts)].amount
         /\ mode \in {"strongest", "common"} /\ Eligible(mode, parts) # {} =>
              \E n \in Eligible(mode, parts) :
                 /\ Total(mode, parts) = parts[n].amount
                 /\ \A m \in Eligible(mode, parts) : Outranks(mode, parts, n, m)
         /\ mode \in {"strongest", "common"} /\ (\A n \in DOMAIN parts : parts[n].amount = 0) =>
              Total(mode, parts) = 0
<1> DEFINE amounts == [n \in DOMAIN parts |-> parts[n].amount]
<1>1. /\ DOMAIN parts = 1..Len(parts) /\ Len(parts) \in Nat /\ Len(parts) \in DOMAIN parts
      /\ Eligible(mode, parts) \subseteq DOMAIN parts
  BY DEF Eligible
<1>2. \A n \in DOMAIN parts : parts[n].amount \in Nat
  BY PartOf
<1>3. amounts \in Seq(Nat)
  BY <1>1, <1>2
<1>4. Sum(parts) \in Nat
  <2> HIDE DEF amounts
  <2>1. SumOf(amounts) \in Nat
    BY <1>3, SumIsNat
  <2>2. QED
    BY <2>1 DEF Sum, amounts
<1>5. (\A n \in DOMAIN parts : parts[n].amount = 0) => Sum(parts) = 0
  <2> SUFFICES ASSUME \A n \in DOMAIN parts : parts[n].amount = 0
               PROVE  Sum(parts) = 0
    OBVIOUS
  <2>1. amounts \in Seq({0})
    BY <1>1
  <2> HIDE DEF amounts
  <2>2. 0 \in {0} /\ \A t \in {0}, x \in {0} : t + x \in {0}
    OBVIOUS
  <2>3. SumOf(amounts) \in {0}
    BY <2>1, <2>2, SumStays
  <2>4. QED
    BY <2>3 DEF Sum, amounts
<1>6. CASE mode = "override"
  <2>1. Total(mode, parts) = parts[Len(parts)].amount
    BY <1>6 DEF Total, Last
  <2>2. QED
    BY <1>1, <1>2, <1>6, <2>1
<1>7. CASE mode \in {"strongest", "common"}
  <2>1. Total(mode, parts) = IF Winner(mode, parts) # <<>> THEN Winner(mode, parts)[1].amount
                             ELSE IF mode = "common" THEN Sum(parts) ELSE 0
    BY <1>7 DEF Total
  <2>2. CASE Winner(mode, parts) = <<>> /\ \A m \in 1..Len(parts) : m \notin Eligible(mode, parts)
    <3>1. Eligible(mode, parts) = {}
      BY <1>1, <2>2
    <3>2. Total(mode, parts) = IF mode = "common" THEN Sum(parts) ELSE 0
      BY <2>1, <2>2
    <3>3. QED
      BY <1>4, <1>5, <1>7, <3>1, <3>2
  <2>3. CASE \E n \in 1..Len(parts) :
               /\ n \in Eligible(mode, parts) /\ Winner(mode, parts) = <<parts[n]>>
               /\ \A m \in 1..Len(parts) : m \in Eligible(mode, parts) => Outranks(mode, parts, n, m)
    <3>1. PICK n \in 1..Len(parts) :
               /\ n \in Eligible(mode, parts) /\ Winner(mode, parts) = <<parts[n]>>
               /\ \A m \in 1..Len(parts) : m \in Eligible(mode, parts) => Outranks(mode, parts, n, m)
      BY <2>3
    <3>2. Total(mode, parts) = parts[n].amount /\ n \in DOMAIN parts
      BY <1>1, <2>1, <3>1
    <3>3. parts[n].amount # 0 /\ parts[n].amount \in Nat
      BY <1>2, <3>1, <3>2 DEF Eligible
    <3>4. \A m \in Eligible(mode, parts) : Outranks(mode, parts, n, m)
      BY <1>1, <3>1
    <3>5. QED
      BY <1>7, <3>1, <3>2, <3>3, <3>4
  <2>4. QED
    BY <2>2, <2>3, WinnerTakes DEF TakenOf
<1>8. CASE mode \notin {"override", "strongest", "common"}
  <2>1. Total(mode, parts) = Sum(parts)
    BY <1>8 DEF Total
  <2>2. QED
    BY <1>4, <1>8, <2>1
<1>9. QED
  BY <1>6, <1>7, <1>8

(* The guard lets through what one lane comes to.                          *)
LEMMA Guarded ==
  ASSUME NEW r \in Lowest..Highest, NEW t \in Int,
         NEW v, v = Greater(Lowest * One,
                            Lesser(r * One + 4 * (Highest - Lowest) * One, r * One + t))
  PROVE  /\ v \in Lowest * One .. (Highest + 4 * (Highest - Lowest)) * One
         /\ t \in 0..Peak => v = r * One + t
<1> DEFINE L == Lowest * One
           R == r * One
           H == Highest * One
           W == 4 * (Highest - Lowest) * One
<1>1. /\ Lowest \in Int /\ Highest \in Int /\ Lowest <= Highest /\ r \in Int
      /\ Lowest <= r /\ r <= Highest
  BY DriverUnits
<1>2. One \in Nat
  BY DriverUnits DEF One
<1>3. L \in Int /\ R \in Int /\ H \in Int /\ W \in Int
  BY <1>1, <1>2
<1>4. L <= R /\ R <= H /\ W >= 0
  <2>1. r - Lowest \in Nat /\ Highest - r \in Nat /\ Highest - Lowest \in Nat
    BY <1>1
  <2>2. (r - Lowest) * One >= 0 /\ (Highest - r) * One >= 0 /\ 4 * (Highest - Lowest) * One >= 0
    BY <1>2, <2>1
  <2>3. (r - Lowest) * One = R - L /\ (Highest - r) * One = H - R
    BY <1>1, <1>2
  <2>4. QED
    BY <1>3, <2>2, <2>3
<1>5. (Highest + 4 * (Highest - Lowest)) * One = H + W
  BY <1>1, <1>2
<1>6. Peak = W
  <2> DEFINE x == Highest - Lowest
  <2>1. x \in Int /\ Full \in Int /\ Grain \in Int
    BY <1>1, DriverUnits
  <2>2. Peak = x * (4 * Full) * Grain /\ W = 4 * x * (Full * Grain)
    BY DEF Peak, One
  <2> HIDE DEF x, W
  <2>3. x * (4 * Full) * Grain = 4 * x * (Full * Grain)
    BY <2>1
  <2>4. QED
    BY <2>2, <2>3
<1>7. v = Greater(L, Lesser(R + W, R + t))
  OBVIOUS
<1> HIDE DEF L, R, H, W
<1>8. v \in L..(H + W) /\ (t \in 0..W => v = R + t)
  BY <1>3, <1>4, <1>7 DEF Greater, Lesser
<1>9. QED
  BY <1>5, <1>6, <1>8 DEF L, R

(* What the frame comes to is what it has to be.                            *)
LEMMA CombinedRanks ==
  ASSUME NEW mode, NEW parts \in Seq(Contributions), NEW static
  PROVE  /\ parts # <<>> => Combined(mode, parts, static)
                              \in Lowest * One .. (Highest + 4 * (Highest - Lowest)) * One
         /\ Ranked(mode, parts, Combined(mode, parts, static))
<1> DEFINE v == Combined(mode, parts, static)
           r == Resting(mode, parts)
           t == Total(mode, parts)
           sounding == {n \in DOMAIN parts : parts[n].amount # 0}
           firing == {n \in sounding : parts[n].period > 0}
           floor == Max({parts[m].low : m \in DOMAIN parts} \cup {Lowest})
<1>1. CASE parts = <<>>
  BY <1>1 DEF Ranked
<1>2. CASE parts # <<>>
  <2>1. v = Greater(Lowest * One, Lesser(r * One + 4 * (Highest - Lowest) * One, r * One + t))
    BY <1>2 DEF Combined
  <2>2. r \in Lowest..Highest /\ t \in Int
    BY <1>2, RestingIs, TotalIs
  <2>3. v \in Lowest * One .. (Highest + 4 * (Highest - Lowest)) * One
    <3> HIDE DEF v, r, t
    <3>1. QED
      BY <2>1, <2>2, Guarded
  <2>4. t \in 0..Peak => v = r * One + t
    <3> HIDE DEF v, r, t
    <3>1. QED
      BY <2>1, <2>2, Guarded
  <2>5. \A n \in DOMAIN parts : parts[n].amount \in 0..Peak /\ parts[n].period \in Nat
    BY PartOf
  <2>6. ASSUME mode = "override" PROVE v = Last(parts).low * One + parts[Len(parts)].amount
    <3>1. r = parts[Len(parts)].low /\ t = parts[Len(parts)].amount
      BY <1>2, <2>6, RestingIs, TotalIs
    <3>2. Len(parts) \in DOMAIN parts
      BY <1>2
    <3> HIDE DEF v, r, t
    <3>3. QED
      BY <2>4, <2>5, <3>1, <3>2 DEF Last
  <2>7. mode \in {"strongest", "common"} => r = floor
    <3>1. mode \in {"strongest", "common"} => mode # "override"
      OBVIOUS
    <3>2. QED
      BY <1>2, <3>1, RestingIs
  <2>8. ASSUME mode = "strongest", sounding # {}
        PROVE  v = floor * One + parts[TakenBy(parts, sounding, LAMBDA a, b : a > b)].amount
    <3> DEFINE P(n) == \A m \in sounding : \/ parts[n].period > parts[m].period
                                           \/ parts[n].period = parts[m].period /\ n >= m
               taken == CHOOSE n \in sounding : P(n)
    <3>1. Eligible(mode, parts) = sounding
      BY <2>8 DEF Eligible
    <3>2. PICK n \in sounding : /\ t = parts[n].amount
                                /\ \A m \in sounding : Outranks(mode, parts, n, m)
      BY <1>2, <2>8, <3>1, TotalIs
    <3>3. P(n)
      BY <2>8, <3>2 DEF Outranks
    <3>4. taken \in sounding /\ P(taken)
      BY <3>3
    <3> HIDE DEF taken
    <3>5. n \in Int /\ taken \in Int /\ parts[n].period \in Nat /\ parts[taken].period \in Nat
      BY <2>5, <3>4
    <3>6. taken = n
      BY <3>3, <3>4, <3>5
    <3>7. TakenBy(parts, sounding, LAMBDA a, b : a > b) = taken
      BY DEF TakenBy, taken
    <3>8. t \in 0..Peak
      BY <2>5, <3>2
    <3> HIDE DEF v, r, t, floor
    <3>9. QED
      BY <2>4, <2>7, <2>8, <3>2, <3>6, <3>7, <3>8
  <2>9. ASSUME mode = "common", firing # {}
        PROVE  v = floor * One + parts[TakenBy(parts, firing, LAMBDA a, b : a < b)].amount
    <3> DEFINE P(n) == \A m \in firing : \/ parts[n].period < parts[m].period
                                         \/ parts[n].period = parts[m].period /\ n >= m
               taken == CHOOSE n \in firing : P(n)
    <3>1. Eligible(mode, parts) = firing
      BY <2>5, <2>9 DEF Eligible
    <3>2. PICK n \in firing : /\ t = parts[n].amount
                              /\ \A m \in firing : Outranks(mode, parts, n, m)
      BY <1>2, <2>9, <3>1, TotalIs
    <3>3. P(n)
      BY <2>9, <3>2 DEF Outranks
    <3>4. taken \in firing /\ P(taken)
      BY <3>3
    <3> HIDE DEF taken
    <3>5. n \in Int /\ taken \in Int /\ parts[n].period \in Nat /\ parts[taken].period \in Nat
      BY <2>5, <3>4
    <3>6. taken = n
      BY <3>3, <3>4, <3>5
    <3>7. TakenBy(parts, firing, LAMBDA a, b : a < b) = taken
      BY DEF TakenBy, taken
    <3>8. t \in 0..Peak
      BY <2>5, <3>2
    <3> HIDE DEF v, r, t, floor
    <3>9. QED
      BY <2>4, <2>7, <2>9, <3>2, <3>6, <3>7, <3>8
  <2>10. ASSUME mode \in {"strongest", "common"}, sounding = {}
         PROVE  v = floor * One
    <3>1. \A n \in DOMAIN parts : parts[n].amount = 0
      BY <2>10
    <3>2. t = 0
      BY <1>2, <2>10, <3>1, TotalIs
    <3>3. 0 \in 0..Peak
      <4>1. Len(parts) \in DOMAIN parts
        BY <1>2
      <4>2. QED
        BY <2>5, <3>1, <4>1
    <3>4. r * One \in Int
      BY <2>2, DriverUnits DEF One
    <3> HIDE DEF v, r, t, floor
    <3>5. QED
      BY <2>4, <2>7, <2>10, <3>2, <3>3, <3>4
  <2> HIDE DEF v, r, t
  <2>11. Ranked(mode, parts, v)
    BY <2>6, <2>8, <2>9, <2>10 DEF Ranked
  <2>12. QED
    BY <2>3, <2>11 DEF v
<1>3. QED
  BY <1>1, <1>2

-----------------------------------------------------------------------------
(* The drivers' invariant.  What it has of rolls holds if a driver's slot  *)
(* is one lane's, what it has of contributions if every slot is: a group   *)
(* selected twice moves its slots again after its first part is added.     *)

DriversTypes ==
  /\ ids \in IdLists /\ position \in 0..Length /\ track \in 0..Songs
  /\ energy \in 0..Full /\ due \in BOOLEAN
  /\ slots \in SlotMaps /\ rolls \in RollMaps

Guard == ~due /\ Lanes[ids] # <<>> =>
           value \in Lowest * One .. (Highest + 4 * (Highest - Lowest)) * One

DriversInductive ==
  /\ DriversTypes /\ Guard
  /\ LanesOwned => RollFollowsEvent
  /\ LanesApart => LaneRanks

LEMMA DriversFit ==
  ASSUME NEW d \in Counting
  PROVE  d \in Fit /\ d.type \in {"beat", "downbeat", "timer"}
<1>1. ASSUME NEW x \in AllDrivers PROVE x \in Fit
  <2>1. PICK name \in DOMAIN Groups :
          \E l \in Range(Groups[name].lanes) : x \in Range(Drivers(l))
    BY DEF AllDrivers
  <2> PICK lane \in Range(Groups[name].lanes) : x \in Range(Drivers(lane))
    BY <2>1
  <2>2. lane \in LanesOf
    <3>1. Groups[name].lanes \in Seq(LanesOf)
      BY GroupsAssumption
    <3>2. QED
      BY <3>1 DEF Range
  <2>3. x \in DriversOf
    <3>1. Drivers(lane) \in Seq(DriversOf)
      BY <2>2, DriversOfLane
    <3>2. QED
      BY <3>1 DEF Range
  <2>4. x \in Declared
    BY <2>3 DEF DriversOf, Declared, Kinds
  <2>5. QED
    BY <2>4, DividesAssumption DEF Fit
<1>2. d \in AllDrivers \/ \E x \in AllDrivers : d = Cadence(x)
  BY DEF Counting
<1>3. QED
  BY <1>1, <1>2, CadenceFits DEF Counting

LEMMA InductiveInv ==
  ASSUME DriversInductive, LanesOwned
  PROVE  DriversInv
<1>1. DriversTypes
  BY DEF DriversInductive
<1>2. \A k \in DOMAIN slots : SlotOK(slots[k])
  <2>1. ASSUME NEW s \in SlotsAt(track) PROVE SlotOK(s)
    BY <1>1, DriverUnits DEF DriversTypes, SlotsAt, SlotRecords, Phases, SlotOK
  <2>2. \A k \in DOMAIN slots : slots[k] \in SlotsAt(track)
    BY <1>1, SlotMapIs DEF DriversTypes
  <2>3. QED
    BY <2>1, <2>2
<1>3. \A k \in DOMAIN rolls : rolls[k].reach \in 0..Grain
  BY <1>1, RollMapIs DEF DriversTypes
<1>4. LanesTypeOK
  BY <1>1, <1>2, <1>3 DEF LanesTypeOK, DriversTypes
<1>5. WindowsAreFirings
  <2>1. position \in Nat
    BY <1>1, DriverUnits DEF DriversTypes
  <2>2. QED
    BY <2>1, DriversFit, WindowsAreFiringsOf DEF WindowsAreFirings
<1>6. QED
  BY <1>4, <1>5 DEF DriversInv, DriversInductive, Guard

LEMMA InitDriven == LanesInit => DriversInductive
<1> SUFFICES ASSUME LanesInit PROVE DriversInductive
  OBVIOUS
<1>1. slots \in SlotMaps /\ rolls \in RollMaps
  <2>1. slots = [k \in {} |-> slots[k]] /\ rolls = [k \in {} |-> rolls[k]]
    BY DEF LanesInit
  <2>2. {} \in SUBSET SlotKeys
    OBVIOUS
  <2>3. QED
    BY <2>1, <2>2, SlotMapMade, RollMapMade
<1>2. DriversTypes
  BY <1>1, DriverUnits DEF LanesInit, DriversTypes
<1>3. due
  BY DEF LanesInit
<1>4. QED
  BY <1>2, <1>3 DEF DriversInductive, Guard, RollFollowsEvent, LaneRanks

(* A later song allows what an earlier one did.                            *)
LEMMA SlotMapsGrow ==
  ASSUME NEW m \in SlotMaps, track \in Nat, track' \in Nat, track <= track'
  PROVE  m \in SlotMaps'
<1>1. SlotsAt(track) \subseteq SlotsAt(track')
  <2> SUFFICES ASSUME NEW s \in SlotsAt(track) PROVE s \in SlotsAt(track')
    OBVIOUS
  <2>1. s \in SlotRecords /\ s.track \in Nat
    BY DEF SlotsAt, SlotRecords
  <2>2. QED
    BY <2>1 DEF SlotsAt
<1>2. PICK D \in SUBSET SlotKeys : m \in [D -> SlotsAt(track)]
  BY DEF SlotMaps
<1>3. m \in [D -> SlotsAt(track')]
  BY <1>1, <1>2
<1>4. QED
  BY <1>3 DEF SlotMaps

LEMMA FrameKeeps == DriversInductive /\ Frame => DriversInductive'
<1> SUFFICES ASSUME DriversInductive, Frame PROVE DriversInductive'
  OBVIOUS
<1>1. /\ due' = TRUE /\ slots' = slots /\ rolls' = rolls
      /\ Plays \/ Rewinds \/ TrackChanges \/ Edit
  BY DEF Frame
<1>2. DriversTypes
  BY DEF DriversInductive
<1>3. /\ ids' \in IdLists /\ position' \in 0..Length /\ track' \in 0..Songs
      /\ energy' \in 0..Full /\ track <= track'
  <2>1. /\ ids \in IdLists /\ position \in 0..Length /\ track \in 0..Songs
        /\ energy \in 0..Full
    BY <1>2 DEF DriversTypes
  <2>2. CASE Plays
    <3>1. PICK p \in position .. Lesser(position + 2, Length), e \in {0, Full} :
            position' = p /\ energy' = e /\ ids' = ids /\ track' = track
      BY <2>2 DEF Plays
    <3>2. p \in 0..Length
      BY <2>1, <3>1, DriverUnits DEF Lesser
    <3>3. e \in 0..Full
      BY <3>1, DriverUnits
    <3>4. QED
      BY <2>1, <3>1, <3>2, <3>3, DriverUnits
  <2>3. CASE Rewinds
    BY <2>1, <2>3, DriverUnits DEF Rewinds
  <2>4. CASE TrackChanges
    BY <2>1, <2>4, DriverUnits DEF TrackChanges
  <2>5. CASE Edit
    BY <2>1, <2>5, DriverUnits DEF Edit
  <2>6. QED
    BY <1>1, <2>2, <2>3, <2>4, <2>5
<1>4. slots' \in SlotMaps' /\ rolls' \in RollMaps'
  <2>1. slots \in SlotMaps /\ rolls \in RollMaps /\ track \in Nat /\ track' \in Nat
    BY <1>2, <1>3, DriverUnits DEF DriversTypes
  <2>2. slots \in SlotMaps'
    BY <1>3, <2>1, SlotMapsGrow
  <2>3. RollMaps' = RollMaps
    BY DEF RollMaps
  <2>4. QED
    BY <1>1, <2>1, <2>2, <2>3
<1>5. DriversTypes'
  BY <1>1, <1>3, <1>4 DEF DriversTypes
<1>6. Guard' /\ RollFollowsEvent' /\ LaneRanks'
  BY <1>1 DEF Guard, RollFollowsEvent, LaneRanks
<1>7. QED
  BY <1>5, <1>6 DEF DriversInductive

(* What an evaluation comes to: the frame's slots, rolls and contributions. *)
LEMMA EvaluateIs ==
  ASSUME DriversTypes, Evaluate
  PROVE  \E result \in Evaluations :
            /\ Through(Len(Lanes[ids]), result, Lanes[ids])
            /\ slots' = result.slots /\ rolls' = result.rolls
            /\ value' = Combined(Mode(ids), result.parts, Static(ids))
            /\ due' = FALSE /\ UNCHANGED <<ids, position, track, energy>>
<1>1. PICK draws \in [DrawSlots[ids] -> 0 .. Grain] :
        LET result == FoldLeft(LAMBDA e, scoped : Evaluated(e, scoped, draws),
                               [slots |-> slots, rolls |-> rolls, parts |-> <<>>], Lanes[ids])
        IN  /\ slots' = result.slots /\ rolls' = result.rolls
            /\ value' = Combined(Mode(ids), result.parts, Static(ids))
  BY DEF Evaluate
<1> DEFINE lanes == Lanes[ids]
           result == Framed(draws, lanes)
<1>2. /\ ids \in IdLists /\ Clocks /\ slots \in SlotMaps /\ rolls \in RollMaps
  BY DriverUnits DEF DriversTypes, Clocks
<1>3. lanes \in Seq(Fitting)
  BY <1>2, LanesFit
<1>4. Draws(draws)
  BY DEF Draws
<1>5. ASSUME NEW m \in DOMAIN lanes
      PROVE  DrawsFor(draws, lanes[m])
  <2>1. lanes[m] \in Range(lanes)
    BY DEF Range
  <2>2. DOMAIN draws = DrawSlots[ids]
    BY <1>1
  <2> DEFINE drawn(s) ==
        {SlotOf(s.group, s.lane, n - 1) :
           n \in {j \in DOMAIN Drivers(s.lane) : Drivers(s.lane)[j].type = "random"}}
        \cup (IF s.lane.randomValue THEN {RollSlot(s)} ELSE {})
  <2>3. DrawSlots[ids] = UNION {drawn(s) : s \in Range(lanes)}
    BY <1>2 DEF DrawSlots
  <2>4. lanes[m].lane.randomValue => RollSlot(lanes[m]) \in drawn(lanes[m])
    OBVIOUS
  <2> HIDE DEF drawn, lanes
  <2>5. lanes[m].lane.randomValue => RollSlot(lanes[m]) \in DrawSlots[ids]
    BY <2>1, <2>3, <2>4
  <2>6. QED
    BY <2>2, <2>5 DEF DrawsFor
<1>6. result \in Evaluations /\ Through(Len(lanes), result, lanes)
  <2> HIDE DEF lanes
  <2>1. QED
    BY <1>2, <1>3, <1>4, <1>5, FrameEvaluated
<1>7. /\ slots' = result.slots /\ rolls' = result.rolls
      /\ value' = Combined(Mode(ids), result.parts, Static(ids))
  BY <1>1 DEF Framed
<1>8. due' = FALSE /\ UNCHANGED <<ids, position, track, energy>>
  BY DEF Evaluate
<1> HIDE DEF result
<1>9. QED
  BY <1>6, <1>7, <1>8 DEF lanes

LEMMA EvaluateKeeps == DriversInductive /\ Evaluate => DriversInductive'
<1> SUFFICES ASSUME DriversInductive, Evaluate PROVE DriversInductive'
  OBVIOUS
<1>1. DriversTypes
  BY DEF DriversInductive
<1>2. PICK result \in Evaluations :
            /\ Through(Len(Lanes[ids]), result, Lanes[ids])
            /\ slots' = result.slots /\ rolls' = result.rolls
            /\ value' = Combined(Mode(ids), result.parts, Static(ids))
            /\ due' = FALSE /\ UNCHANGED <<ids, position, track, energy>>
  BY <1>1, EvaluateIs
<1> DEFINE lanes == Lanes[ids]
<1>3. lanes \in Seq(Fitting) /\ ids \in IdLists
  BY <1>1, LanesFit DEF DriversTypes
<1>4. /\ result.slots \in SlotMaps /\ result.rolls \in RollMaps
      /\ result.parts \in Seq(Contributions) /\ Len(result.parts) = Len(lanes)
  BY <1>2 DEF Evaluations, Through
<1>5. DriversTypes'
  <2>1. SlotMaps' = SlotMaps /\ RollMaps' = RollMaps
    BY <1>2 DEF SlotMaps, RollMaps
  <2>2. slots' \in SlotMaps' /\ rolls' \in RollMaps'
    BY <1>2, <1>4, <2>1
  <2>3. QED
    BY <1>1, <1>2, <2>2 DEF DriversTypes
<1>6. Guard'
  <2>1. lanes # <<>> => result.parts # <<>>
    BY <1>3, <1>4
  <2>2. result.parts # <<>> => value' \in Lowest * One .. (Highest + 4 * (Highest - Lowest)) * One
    BY <1>2, <1>4, CombinedRanks
  <2>3. Lanes[ids'] = lanes
    BY <1>2
  <2> HIDE DEF lanes
  <2>4. QED
    BY <2>1, <2>2, <2>3 DEF Guard
<1>7. ASSUME LanesOwned PROVE RollFollowsEvent'
  <2>1. Owned(lanes)
    BY <1>3, <1>7 DEF LanesOwned
  <2>2. \A m \in 1..Len(lanes) : RollFollows(rolls', slots', lanes[m])
    BY <1>2, <2>1 DEF Through
  <2>3. \A s \in Range(lanes) : \E m \in 1..Len(lanes) : s = lanes[m]
    BY <1>3 DEF Range
  <2>4. \A s \in Range(lanes) : RollFollows(rolls', slots', s)
    BY <2>2, <2>3
  <2>5. Lanes[ids'] = lanes
    BY <1>2
  <2> HIDE DEF lanes
  <2>6. QED
    BY <2>4, <2>5 DEF RollFollowsEvent, RollFollows
<1>8. ASSUME LanesApart PROVE LaneRanks'
  <2>1. Apart(lanes)
    BY <1>3, <1>8 DEF LanesApart
  <2>2. \A m \in 1..Len(lanes) : result.parts[m] = Contribution(slots', rolls', lanes[m])
    BY <1>2, <2>1 DEF Through
  <2>3. DOMAIN lanes = 1..Len(lanes) /\ DOMAIN result.parts = 1..Len(lanes)
    BY <1>3, <1>4
  <2>4. Contributed' = [m \in DOMAIN lanes |-> Contribution(slots', rolls', lanes[m])]
    BY <1>2 DEF Contributed
  <2> HIDE DEF lanes
  <2>5. result.parts = [m \in DOMAIN lanes |-> Contribution(slots', rolls', lanes[m])]
    <3>1. result.parts = [m \in 1..Len(lanes) |-> result.parts[m]]
      BY <1>4, <2>3
    <3>2. QED
      BY <2>2, <2>3, <3>1
  <2>6. Ranked(Mode(ids), result.parts, Combined(Mode(ids), result.parts, Static(ids)))
    BY <1>4, CombinedRanks
  <2>7. Contributed' = result.parts /\ ids' = ids
    BY <1>2, <2>4, <2>5
  <2>8. Ranked(Mode(ids), Contributed', value')
    BY <1>2, <2>6, <2>7
  <2>9. QED
    BY <2>7, <2>8 DEF LaneRanks
<1>9. QED
  BY <1>5, <1>6, <1>7, <1>8 DEF DriversInductive, LanesOwned, LanesApart

LEMMA DriversStutter == DriversInductive /\ UNCHANGED laneVars => DriversInductive'
BY DEF DriversInductive, laneVars, DriversTypes, Guard, RollFollowsEvent, LaneRanks, LanesOwned,
       LanesApart, SlotMaps, RollMaps, Contributed

LEMMA DriversInductiveHolds == LanesSpec => []DriversInductive
<1>1. DriversInductive /\ [LanesNext]_laneVars => DriversInductive'
  BY FrameKeeps, EvaluateKeeps, DriversStutter DEF LanesNext
<1>2. QED
  BY InitDriven, <1>1, PTL DEF LanesSpec

-----------------------------------------------------------------------------
(* The theorems.                                                           *)

(* Where ids are not used twice: every slot holds a level of its envelope,
   at rest none; a roll is that of its lane's last event, and no frame
   shows a new event at the height drawn for the one before; a jittered
   driver's window is the span between two firings of the pulse it borrows;
   and an effect with lanes stays within its overshoot
   (parameter_drivers.cpp:90-93, 332-345, 497-503).                        *)
THEOREM DriversInvHolds ==
  ASSUME LanesOwned PROVE LanesSpec => []DriversInv
<1>1. DriversInductive => DriversInv
  BY InductiveInv
<1>2. QED
  BY <1>1, DriversInductiveHolds, PTL

(* Where no group is selected twice: the rarest lane that contributes takes
   the effect under "strongest", the commonest pulse under "common", the
   last of equals, and an override brings its own resting value
   (parameter_drivers.cpp:454-491).                                        *)
THEOREM LaneRanksHolds ==
  ASSUME LanesApart PROVE LanesSpec => []LaneRanks
<1>1. DriversInductive => LaneRanks
  BY DEF DriversInductive
<1>2. QED
  BY <1>1, DriversInductiveHolds, PTL

(* Each slot in force moves as its own binding has it.                     *)
LEMMA SlotsMove ==
  ASSUME LanesApart, DriversTypes, Evaluate, NEW k \in DOMAIN TimesOf[ids]
  PROVE  Moves(StateOf(slots, k), slots'[k], TimesOf[ids][k])
<1> DEFINE lanes == Lanes[ids]
           mine(s) == k \in SlotsOf(s)
<1>1. ids \in IdLists /\ lanes \in Seq(Fitting)
  BY LanesFit DEF DriversTypes
<1>2. PICK result \in Evaluations : Through(Len(lanes), result, lanes) /\ slots' = result.slots
  BY EvaluateIs
<1>3. /\ DOMAIN TimesOf[ids] = UNION {SlotsOf(s) : s \in Range(lanes)}
      /\ TimesOf[ids][k] = (CHOOSE s \in Range(lanes) : mine(s)).lane.times
  BY <1>1 DEF TimesOf
<1> DEFINE owner == CHOOSE s \in Range(lanes) : mine(s)
<1>4. owner \in Range(lanes) /\ k \in SlotsOf(owner)
  <2>1. \E s \in Range(lanes) : mine(s)
    BY <1>3
  <2>2. QED
    BY <2>1
<1> HIDE DEF owner
<1>5. PICK m \in DOMAIN lanes : owner = lanes[m]
  BY <1>4 DEF Range
<1>6. DOMAIN lanes = 1..Len(lanes) /\ Apart(lanes)
  BY <1>1 DEF LanesApart
<1>7. Moves(StateOf(slots, k), result.slots[k], lanes[m].lane.times)
  BY <1>2, <1>4, <1>5, <1>6 DEF Through
<1>8. QED
  BY <1>2, <1>3, <1>5, <1>7 DEF owner

(* And a new event is at full strength in its own frame if it has no attack,
   or nearer to it by the whole frame (parameter_drivers.cpp:195-198).     *)
THEOREM TriggerPeaksHolds ==
  ASSUME LanesApart PROVE LanesSpec => TriggerPeaks
<1> DEFINE Peaks == due => \A k \in DOMAIN TimesOf[ids] :
             LET was == StateOf(slots, k)
                 now == slots'[k]
                 attack == TimesOf[ids][k].attack
             IN  now.key # was.key =>
                   now.level = IF attack = 0 THEN Full ELSE Lesser(Full, was.level + Delta)
<1>1. DriversInductive /\ LanesNext => Peaks
  <2> SUFFICES ASSUME DriversInductive, LanesNext, due,
                      NEW k \in DOMAIN TimesOf[ids]
               PROVE  LET was == StateOf(slots, k)
                          now == slots'[k]
                          attack == TimesOf[ids][k].attack
                      IN  now.key # was.key =>
                            now.level = IF attack = 0 THEN Full
                                        ELSE Lesser(Full, was.level + Delta)
    OBVIOUS
  <2>1. Evaluate
    BY DEF LanesNext, Frame
  <2>2. Moves(StateOf(slots, k), slots'[k], TimesOf[ids][k])
    BY <2>1, SlotsMove DEF DriversInductive
  <2>3. QED
    BY <2>2 DEF Moves
<1>2. DriversInductive /\ [LanesNext]_laneVars => [Peaks]_laneVars
  BY <1>1
<1>3. QED
  BY <1>2, DriversInductiveHolds, PTL DEF LanesSpec, TriggerPeaks

(* And a follower moves toward its signal, never past it and no faster than
   its binding lets it (parameter_drivers.cpp:228-250).                    *)
THEOREM RateLimitedHolds ==
  ASSUME LanesApart PROVE LanesSpec => RateLimited
<1> DEFINE Limited == due => \A k \in DOMAIN TimesOf[ids] :
             LET was == StateOf(slots, k).current
                 now == slots'[k].current
                 times == TimesOf[ids][k]
             IN  /\ now >= was => now = was \/ now =< energy
                 /\ now =< was => now = was \/ now >= energy
                 /\ times.attack > 0 => now =< was + Delta
                 /\ times.release > 0 => now >= was - Delta
<1>1. DriversInductive /\ LanesNext => Limited
  <2> SUFFICES ASSUME DriversInductive, LanesNext, due,
                      NEW k \in DOMAIN TimesOf[ids]
               PROVE  Follow(StateOf(slots, k).current, slots'[k].current, TimesOf[ids][k])
    BY DEF Follow
  <2>1. Evaluate
    BY DEF LanesNext, Frame
  <2>2. Moves(StateOf(slots, k), slots'[k], TimesOf[ids][k])
    BY <2>1, SlotsMove DEF DriversInductive
  <2>3. QED
    BY <2>2 DEF Moves
<1>2. DriversInductive /\ [LanesNext]_laneVars => [Limited]_laneVars
  BY <1>1
<1>3. QED
  BY <1>2, DriversInductiveHolds, PTL DEF LanesSpec, RateLimited
=============================================================================
