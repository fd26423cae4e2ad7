------------------------- MODULE ConfigClientProofs -------------------------
(***************************************************************************)
(* Both halves of the config client: the configuration it keeps, and what  *)
(* it knows of the music.                                                  *)
(*                                                                         *)
(* The configuration.  HeardIsOnItsWay is not inductive by itself: that a  *)
(* 304 leaves nothing to do needs the tag to be the snapshot's (Tagged),   *)
(* and that an answer under way will do needs it to be as new as what was  *)
(* heard before the question (Fresh, Announced).                           *)
(*                                                                         *)
(* The music.  An answer is dated between the asking and the receiving     *)
(* (AnswerTracks), so the midpoint is off by half of that at most; and     *)
(* from then on sample, posted signal and player advance alike             *)
(* (SampleTracks, SignalTracks) until the player is touched, which gives   *)
(* it a number no earlier sample has.  The bisection is the least          *)
(* counterexample's: a shortest span it fails on has a shorter one.        *)
(***************************************************************************)
EXTENDS ConfigClient, NowPlaying, FiniteSetTheorems, WellFoundedInduction, TLAPS

-----------------------------------------------------------------------------
(* The configuration.                                                      *)

(* The poll is overdue only while the thread rests, and stop there.        *)
Polled == stage # "rest" => sincePoll < PollPeriod

(* Nobody announces what the dashboard has not got yet.                    *)
Announced == heard <= dashboard.version

(* The tag is that of the snapshot; a configuration on its way is as new as
   what was heard before it was asked for.                                 *)
Tagged == configEtag = held.version

Fresh == stage \in {"module", "images"} => pending \/ reply.version >= heard

(* The revision shown was the dashboard's once.                            *)
Selected == held.revision <= runtime

(* A centre image that is shown is the one the cache holds.                *)
Cached == \A u \in Urls : held.centres[u] # Null => cache[u] = held.centres[u]

ConfigInductive ==
  /\ ConfigTypeOK /\ Polled /\ Announced /\ Tagged /\ Fresh /\ Selected /\ Cached
  /\ HeardIsOnItsWay

(* The types, variable by variable.                                        *)
OutsideTypes ==
  /\ dashboard \in [version : 1..(MaxSaves + 1), hash : 1..(MaxSaves + 1), doc : Documents]
  /\ runtime \in 0..MaxChoices
  /\ heard \in 0..(MaxSaves + 1)
  /\ restored \in BOOLEAN

ThreadTypes ==
  /\ pending \in BOOLEAN /\ error \in BOOLEAN
  /\ sincePoll \in 0..PollPeriod
  /\ stage \in {"rest", "asked", "module", "images", "theme"}
  /\ configEtag \in 0..(MaxSaves + 1)
  /\ decodes \in Nat
  /\ failures \in 0..MaxFailures

ReplyType ==
  /\ reply \in [version : 0..(MaxSaves + 1), hash : 0..(MaxSaves + 1),
                doc : Documents \cup {NoDocument}]
  /\ todo \subseteq reply.doc.library

CacheType == cache \in [Urls -> Pointer \cup {Absent}]
ModuleType == module \in [key : 0..(MaxSaves + 1), content : 0..(MaxSaves + 1)]
HeldType == held \in Snapshot

LEMMA ConfigKinds ==
  ConfigTypeOK <=> OutsideTypes /\ ThreadTypes /\ ReplyType /\ CacheType /\ ModuleType /\ HeldType
BY DEF ConfigTypeOK, OutsideTypes, ThreadTypes, ReplyType, CacheType, ModuleType, HeldType

LEMMA ConfigKindsNext ==
  OutsideTypes' /\ ThreadTypes' /\ ReplyType' /\ CacheType' /\ ModuleType' /\ HeldType'
    => ConfigTypeOK'
BY DEF ConfigTypeOK, OutsideTypes, ThreadTypes, ReplyType, CacheType, ModuleType, HeldType

LEMMA ConfigLimits ==
  PollPeriod \in Nat /\ PollPeriod > 0 /\ MaxSaves \in Nat /\ MaxChoices \in Nat /\ MaxFailures \in Nat
BY ParameterAssumption

(* The dashboard and its events do not touch the thread.                   *)
LEMMA DashboardKeeps ==
  ASSUME ConfigInductive, Save \/ Choose \/ Announce
  PROVE  ConfigInductive'
<1> USE DEF ConfigInductive, Unchanged
<1>1. OutsideTypes /\ ThreadTypes /\ ReplyType /\ CacheType /\ ModuleType /\ HeldType
  BY ConfigKinds
<1>2. OutsideTypes'
  <2>1. CASE Save
    <3>1. PICK doc \in Documents, hash \in 1..(MaxSaves + 1) :
            /\ dashboard' = [version |-> dashboard.version + 1, hash |-> hash, doc |-> doc]
            /\ restored' = (restored \/ hash \notin {dashboard.hash, dashboard.version + 1})
      BY <2>1 DEF Save
    <3>2. dashboard.version + 1 \in 1..(MaxSaves + 1) /\ UNCHANGED <<runtime, heard>>
      BY <1>1, <2>1, ConfigLimits DEF Save, OutsideTypes
    <3>3. restored' \in BOOLEAN
      BY <3>1
    <3>4. QED
      BY <1>1, <3>1, <3>2, <3>3 DEF OutsideTypes
  <2>2. CASE Choose
    BY <1>1, <2>2, ConfigLimits DEF Choose, OutsideTypes
  <2>3. CASE Announce
    BY <1>1, <2>3, ConfigLimits DEF Announce, OutsideTypes
  <2>4. QED
    BY <2>1, <2>2, <2>3
<1>3. ThreadTypes' /\ ReplyType' /\ CacheType' /\ ModuleType' /\ HeldType'
  BY <1>1 DEF Save, Choose, Announce, ThreadTypes, ReplyType, CacheType, ModuleType, HeldType
<1>4. Polled' /\ Tagged' /\ Cached'
  BY DEF Save, Choose, Announce, Polled, Tagged, Cached
<1>5. Announced' /\ Selected'
  BY <1>1, ConfigLimits DEF Save, Choose, Announce, Announced, Selected, OutsideTypes, HeldType, Snapshot
<1>6. Fresh' /\ HeardIsOnItsWay'
  BY DEF Save, Choose, Announce, Fresh, HeardIsOnItsWay
<1>7. ConfigTypeOK'
  BY <1>2, <1>3, ConfigKindsNext
<1>8. QED
  BY <1>4, <1>5, <1>6, <1>7

(* The turn of the thread that is no refresh, and what a refresh does before
   its images.                                                             *)
Turning ==
  \/ StartRefresh \/ NotDue \/ ThemeRead \/ ThemeNotRead
  \/ NotModified \/ RequestFails \/ NamesNoModule \/ Arrives
  \/ ModuleCached \/ ModuleFetched \/ ModuleFails

LEMMA TurningKeeps ==
  ASSUME ConfigInductive, Turning, UNCHANGED external
  PROVE  ConfigInductive'
<1> USE DEF ConfigInductive, Turning, StartRefresh, Due, NotDue, ThemeRead, ThemeNotRead,
       NotModified, RequestFails, NamesNoModule, Arrives, ModuleCached, ModuleFetched, ModuleFails,
       Fails, Loaded, external
<1>1. OutsideTypes /\ ThreadTypes /\ ReplyType /\ CacheType /\ ModuleType /\ HeldType
  BY ConfigKinds
<1>2. OutsideTypes' /\ CacheType'
  BY <1>1 DEF OutsideTypes, CacheType
<1>3. ThreadTypes'
  <2>1. sincePoll' \in 0..PollPeriod
    <3>1. sincePoll \in 0..PollPeriod /\ (stage = "theme" => sincePoll < PollPeriod)
      BY <1>1 DEF ThreadTypes, Polled
    <3>2. sincePoll' \in {0, sincePoll} \/ (stage = "theme" /\ sincePoll' = sincePoll + 1)
      OBVIOUS
    <3>3. QED
      BY <3>1, <3>2, ConfigLimits
  <2>2. failures' \in 0..MaxFailures
    <3>1. failures' = failures \/ (failures < MaxFailures /\ failures' = failures + 1)
      OBVIOUS
    <3>2. QED
      BY <1>1, <3>1, ConfigLimits DEF ThreadTypes
  <2>3. pending' \in BOOLEAN /\ error' \in BOOLEAN
    BY <1>1 DEF ThreadTypes
  <2>4. /\ stage' \in {"rest", "asked", "module", "images", "theme"}
        /\ UNCHANGED <<configEtag, decodes>>
    BY <1>1 DEF ThreadTypes
  <2>5. QED
    BY <1>1, <2>1, <2>2, <2>3, <2>4 DEF ThreadTypes
<1>4. ReplyType'
  BY <1>1, ConfigLimits DEF ReplyType, OutsideTypes
<1>5. ModuleType'
  BY <1>1, ConfigLimits DEF ModuleType, OutsideTypes, ReplyType
<1>6. HeldType'
  BY <1>1 DEF HeldType, OutsideTypes, Snapshot
<1>7. Polled'
  BY <1>1, ConfigLimits DEF Polled, ThreadTypes
<1>8. Announced' /\ Tagged'
  BY <1>1 DEF Announced, Tagged, HeldType, Snapshot
<1>9. Fresh'
  BY <1>1 DEF Fresh, Announced, OutsideTypes
<1>10. Selected'
  BY <1>1, ConfigLimits DEF Selected, HeldType, Snapshot, OutsideTypes
<1>11. Cached'
  BY <1>1 DEF Cached, HeldType, Snapshot
<1>12. HeardIsOnItsWay'
  BY <1>1 DEF HeardIsOnItsWay, Fresh, Announced, Tagged, HeldType, Snapshot, OutsideTypes
<1>13. ConfigTypeOK'
  BY <1>2, <1>3, <1>4, <1>5, <1>6, ConfigKindsNext
<1>14. QED
  BY <1>7, <1>8, <1>9, <1>10, <1>11, <1>12, <1>13

(* An image is decoded only while the cache does not hold it.              *)
LEMMA ResolveKeeps ==
  ASSUME ConfigInductive, NEW u \in Urls, ImageCached(u) \/ ImageFetched(u) \/ ImageFails(u),
         UNCHANGED external
  PROVE  ConfigInductive'
<1> USE DEF ConfigInductive, ImageCached, ImageFetched, ImageFails, Resolve, external
<1>1. OutsideTypes /\ ThreadTypes /\ ReplyType /\ CacheType /\ ModuleType /\ HeldType
  BY ConfigKinds
<1>2. OutsideTypes' /\ ModuleType' /\ HeldType' /\ ReplyType'
  BY <1>1 DEF OutsideTypes, ModuleType, HeldType, ReplyType
<1>3. ThreadTypes'
  BY <1>1, ConfigLimits DEF ThreadTypes
<1>4. CacheType'
  BY <1>1 DEF CacheType, ThreadTypes, Pointer, Null
<1>5. Polled' /\ Announced' /\ Tagged' /\ Fresh' /\ Selected' /\ HeardIsOnItsWay'
  BY DEF Polled, Announced, Tagged, Fresh, Selected, HeardIsOnItsWay
<1>6. Cached'
  BY <1>1 DEF Cached, CacheType, HeldType, Snapshot, Absent, Pointer
<1>7. ConfigTypeOK'
  BY <1>2, <1>3, <1>4, ConfigKindsNext
<1>8. QED
  BY <1>5, <1>6, <1>7

(* What a snapshot shows is in the cache, and stays there when the rest is
   swept; what the one before showed is in it too.                         *)
LEMMA CommitKeeps ==
  ASSUME ConfigInductive, Commit, UNCHANGED external
  PROVE  /\ ConfigInductive'
         /\ held'.revision = held.revision
         /\ \A u \in Urls : held.centres[u] # Null /\ held'.centres[u] # Null
              => held'.centres[u] = held.centres[u]
<1> USE DEF ConfigInductive
<1>1. OutsideTypes /\ ThreadTypes /\ ReplyType /\ CacheType /\ ModuleType /\ HeldType
  BY ConfigKinds
<1>2. /\ stage = "images" /\ stage' = "theme" /\ todo = {} /\ configEtag' = reply.version
      /\ error' = FALSE /\ held' = NextSnapshot(held) /\ cache' = Swept(held')
      /\ UNCHANGED <<external, pending, sincePoll, reply, todo, module, decodes, failures>>
  BY DEF Commit
<1>3. /\ held'.version = reply.version /\ held'.revision = held.revision
      /\ held'.centres = Shown(reply.doc.centres)
  BY <1>2 DEF NextSnapshot
<1>4. \A used : Shown(used) \in [Urls -> Pointer]
  BY <1>1 DEF Shown, CacheType, Pointer, Null
<1>5. HeldType'
  BY <1>1, <1>2, <1>4 DEF NextSnapshot, HeldType, Snapshot, ReplyType, ModuleType
<1>6. \A u \in Urls : held'.centres[u] # Null =>
        held'.centres[u] = cache[u] /\ cache[u] # Null /\ cache'[u] = cache[u]
  BY <1>2, <1>3 DEF Shown, Swept, Absent, Null
<1>7. CacheType' /\ Cached'
  BY <1>1, <1>2, <1>6 DEF CacheType, Cached, Swept, Absent
<1>8. OutsideTypes' /\ ModuleType' /\ ReplyType'
  BY <1>1, <1>2 DEF OutsideTypes, ModuleType, ReplyType, external
<1>9. ThreadTypes'
  BY <1>1, <1>2 DEF ThreadTypes, ReplyType
<1>10. Polled' /\ Announced' /\ Tagged' /\ Fresh' /\ Selected'
  BY <1>2, <1>3 DEF Polled, Announced, Tagged, Fresh, Selected, external
<1>11. HeardIsOnItsWay'
  BY <1>1, <1>2, <1>3 DEF HeardIsOnItsWay, Fresh, ReplyType, OutsideTypes, external
<1>12. ConfigTypeOK'
  BY <1>5, <1>7, <1>8, <1>9, ConfigKindsNext
<1>13. QED
  BY <1>3, <1>6, <1>7, <1>10, <1>11, <1>12 DEF Cached

(* Nothing is held yet.                                                    *)
LEMMA ConfigStarts == ConfigInit => ConfigInductive
<1> SUFFICES ASSUME ConfigInit PROVE ConfigInductive
  OBVIOUS
<1>0. /\ 0 \in 0..PollPeriod /\ 0 \in 0..(MaxSaves + 1) /\ 0 \in 0..MaxFailures
      /\ 0 \in 0..MaxChoices /\ 1 \in 1..(MaxSaves + 1)
  BY ConfigLimits
<1>1. ThreadTypes
  BY <1>0 DEF ConfigInit, ThreadTypes
<1>2. OutsideTypes
  BY <1>0 DEF ConfigInit, OutsideTypes
<1>3. ReplyType /\ ModuleType
  BY ConfigLimits DEF ConfigInit, ReplyType, ModuleType, NoModule
<1>4. CacheType /\ HeldType
  BY ConfigLimits DEF ConfigInit, CacheType, HeldType, Snapshot, Nothing, Null, Pointer, NoModule
<1>5. Polled /\ Announced /\ Tagged /\ Fresh /\ Selected /\ Cached /\ HeardIsOnItsWay
  BY ConfigLimits DEF ConfigInit, Polled, Announced, Tagged, Fresh, Selected, Cached,
     HeardIsOnItsWay, Nothing
<1>6. QED
  BY <1>1, <1>2, <1>3, <1>4, <1>5, ConfigKinds DEF ConfigInductive

(* The theme poll writes the selection and a commit the images shown, and
   nothing else the snapshot.                                              *)
LEMMA ConfigKeeps ==
  ConfigInductive /\ [ConfigNext]_configVars =>
    /\ ConfigInductive'
    /\ held'.revision >= held.revision
    /\ \A u \in Urls : held.centres[u] # Null /\ held'.centres[u] # Null
         => held'.centres[u] = held.centres[u]
<1> SUFFICES ASSUME ConfigInductive, [ConfigNext]_configVars
             PROVE  /\ ConfigInductive'
                    /\ held'.revision >= held.revision
                    /\ \A u \in Urls : held.centres[u] # Null /\ held'.centres[u] # Null
                         => held'.centres[u] = held.centres[u]
  OBVIOUS
<1>1. held.revision \in Nat /\ held.revision <= runtime /\ runtime \in Nat /\ held \in Snapshot
  BY ConfigLimits DEF ConfigInductive, ConfigTypeOK, Snapshot, Selected
<1>2. CASE Save \/ Choose \/ Announce
  <2>1. UNCHANGED held
    BY <1>2 DEF Save, Choose, Announce, Unchanged
  <2>2. QED
    BY <1>1, <1>2, <2>1, DashboardKeeps
<1>3. CASE Turning /\ UNCHANGED external
  <2>1. held' = held \/ held' = [held EXCEPT !.revision = runtime]
    BY <1>3 DEF Turning, StartRefresh, NotDue, ThemeRead, ThemeNotRead, NotModified, RequestFails,
       NamesNoModule, Arrives, ModuleCached, ModuleFetched, ModuleFails, Fails
  <2>2. held'.revision >= held.revision /\ held'.centres = held.centres
    BY <1>1, <2>1 DEF Snapshot
  <2>3. QED
    BY <1>3, <2>2, TurningKeeps
<1>4. CASE Commit /\ UNCHANGED external
  BY <1>1, <1>4, CommitKeeps
<1>5. ASSUME NEW u \in Urls, ImageCached(u) \/ ImageFetched(u) \/ ImageFails(u),
             UNCHANGED external
      PROVE  ConfigInductive' /\ UNCHANGED held
  <2>1. ConfigInductive'
    BY <1>5, ResolveKeeps
  <2>2. QED
    BY <1>5, <2>1 DEF ImageCached, ImageFetched, ImageFails, Resolve
<1>6. CASE UNCHANGED configVars
  <2>1. ConfigInductive'
    BY <1>6 DEF configVars, external, ConfigInductive, ConfigTypeOK, Polled, Announced, Tagged, Fresh,
       Selected, Cached, HeardIsOnItsWay
  <2>2. QED
    BY <1>1, <1>6, <2>1 DEF configVars
<1>7. CASE UNCHANGED held /\ ConfigInductive'
  BY <1>1, <1>7
<1>8. QED
  BY <1>2, <1>3, <1>4, <1>5, <1>6, <1>7 DEF ConfigNext, ConfigThread, Turning

(* For any documents, images, poll period and bounds: a change the event
   stream announced is due, under way or on record as failed until a snapshot
   as new is committed (ConfigClient::run, ::refreshConfiguration).        *)
THEOREM ClientInvHolds == ConfigSpec => []ClientInv
<1>1. ConfigInductive => ClientInv
  BY DEF ConfigInductive, ClientInv
<1>2. QED
  BY <1>1, ConfigStarts, ConfigKeeps, PTL DEF ConfigSpec

(* A commit carries the selection over that the theme poll wrote meanwhile
   (refreshConfiguration's copy of the held selection).                    *)
THEOREM SelectionNeverRegressesHolds == ConfigSpec => SelectionNeverRegresses
<1>1. ConfigInductive /\ [ConfigNext]_configVars => [held'.revision >= held.revision]_held
  BY ConfigKeeps
<1>2. QED
  BY <1>1, ConfigStarts, ConfigKeeps, PTL DEF ConfigSpec, SelectionNeverRegresses

(* A centre image shown before and after a commit is the same decode: the
   sweep spares what the new snapshot shows.                               *)
THEOREM CentreImageKeptHolds == ConfigSpec => CentreImageKept
<1>1. ConfigInductive /\ [ConfigNext]_configVars =>
        [\A u \in Urls : held.centres[u] # Null /\ held'.centres[u] # Null
           => held'.centres[u] = held.centres[u]]_held
  BY ConfigKeeps
<1>2. QED
  BY <1>1, ConfigStarts, ConfigKeeps, PTL DEF ConfigSpec, CentreImageKept

-----------------------------------------------------------------------------
(* The beats of a track, in order.                                         *)

(* Every set of naturals has a least.                                      *)
LEMMA LeastTime ==
  ASSUME NEW T, T \subseteq Nat, T # {}
  PROVE  \E x \in T : \A y \in T : x <= y
<1> DEFINE R == {ss \in Nat \X Nat : ss[1] < ss[2]}
<1>1. IsWellFoundedOn(R, Nat)
  BY NatLessThanWellFounded DEF OpToRel
<1>2. PICK x \in T : \A y \in T : ~ (<<y, x>> \in R)
  <2> HIDE DEF R
  <2> QED BY <1>1, WFMin
<1>3. \A y \in T : ~(y < x)
  BY <1>2
<1>4. QED
  BY <1>3

Ascending(times) == \A i, j \in DOMAIN times : i <= j => times[i] <= times[j]

Ends(times) == 0..Len(times)

(* What one step of the bisection returns, given what its calls return.    *)
Halved(times, position, f, low, high) ==
  IF low >= high THEN low
  ELSE IF Passed(times, ((low + high) \div 2) + 1, position)
       THEN f[<<((low + high) \div 2) + 1, high>>]
  ELSE f[<<low, (low + high) \div 2>>]

Bisected(times, position, f) ==
  [span \in Ends(times) \X Ends(times) |-> Halved(times, position, f, span[1], span[2])]

LEMMA Middle ==
  ASSUME NEW low \in Nat, NEW high \in Nat, low < high
  PROVE  /\ (low + high) \div 2 \in Nat
         /\ low <= (low + high) \div 2 /\ (low + high) \div 2 < high
OBVIOUS

(* The beats passed are a first part of the track.                         *)
LEMMA PassedFirst ==
  ASSUME NEW times \in Seq(Nat), Ascending(times), NEW position \in Int
  PROVE  \E c \in Ends(times) :
           /\ \A i \in 1..Len(times) : Passed(times, i, position) <=> i <= c
           /\ Cardinality({i \in DOMAIN times : Passed(times, i, position)}) = c
<1> DEFINE n == Len(times)
           P(i) == Passed(times, i, position)
           Later == {i \in 1..n : ~P(i)}
<1>1. n \in Nat /\ DOMAIN times = 1..n
  OBVIOUS
<1>2. \A i, j \in 1..n : i <= j /\ P(j) => P(i)
  <2>1. TAKE i, j \in 1..n
  <2>2. times[i] \in Nat /\ times[j] \in Nat
    BY <1>1
  <2>3. i <= j => times[i] <= times[j]
    BY <1>1 DEF Ascending
  <2>4. QED
    BY <2>2, <2>3 DEF Passed
<1> HIDE DEF n, P
<1>3. \E c \in 0..n : \A i \in 1..n : P(i) <=> i <= c
  <2>1. CASE Later = {}
    <3>1. \A i \in 1..n : P(i) <=> i <= n
      BY <1>1, <2>1
    <3>2. QED
      BY <1>1, <3>1
  <2>2. CASE Later # {}
    <3>1. PICK m \in Later : \A y \in Later : m <= y
      <4>1. Later \subseteq Nat
        OBVIOUS
      <4> HIDE DEF Later
      <4>2. QED
        BY <2>2, <4>1, LeastTime
    <3>2. \A i \in 1..n : P(i) <=> i <= m - 1
      <4>1. TAKE i \in 1..n
      <4>2. CASE i < m
        BY <1>1, <3>1, <4>2
      <4>3. CASE m <= i
        BY <1>1, <1>2, <3>1, <4>3
      <4>4. QED
        BY <1>1, <4>2, <4>3
    <3>3. m - 1 \in 0..n
      BY <1>1, <3>1
    <3>4. QED
      BY <3>2, <3>3
  <2>3. QED
    BY <2>1, <2>2
<1>4. PICK c \in 0..n : \A i \in 1..n : P(i) <=> i <= c
  BY <1>3
<1>5. {i \in 1..n : P(i)} = 1..c
  BY <1>1, <1>4
<1>6. Cardinality(1..c) = c
  <2>1. Cardinality(1..c) = IF 1 > c THEN 0 ELSE c - 1 + 1
    BY <1>1, FS_Interval
  <2>2. QED
    BY <1>1, <2>1
<1>7. Cardinality({i \in DOMAIN times : P(i)}) = c
  BY <1>1, <1>5, <1>6
<1>8. QED
  BY <1>4, <1>7 DEF n, P, Ends

(* A bisection that keeps the end of the first part between its ends finds
   it: a shortest span for which it did not would have a shorter one.      *)
LEMMA BisectionFinds ==
  ASSUME NEW times \in Seq(Nat), NEW position \in Int, NEW c \in Ends(times),
         \A i \in 1..Len(times) : Passed(times, i, position) <=> i <= c,
         NEW f, f = Bisected(times, position, f)
  PROVE  f[<<0, Len(times)>>] = c
<1> DEFINE n == Len(times)
           P(i) == Passed(times, i, position)
           F(low, high) == f[<<low, high>>]
           Missed == {d \in 0..n : \E low, high \in 0..n :
                        high - low = d /\ low <= c /\ c <= high /\ F(low, high) # c}
<1>1. n \in Nat /\ c \in 0..n
  BY DEF Ends
<1>2. ASSUME NEW low \in 0..n, NEW high \in 0..n
      PROVE  F(low, high) = Halved(times, position, f, low, high)
  BY DEF Bisected, Ends
<1>3. \A i \in 1..n : P(i) <=> i <= c
  OBVIOUS
<1>4. ASSUME NEW low \in 0..n, NEW high \in 0..n, NEW middle \in Nat,
             low < high, middle = (low + high) \div 2
      PROVE  F(low, high) = IF P(middle + 1) THEN F(middle + 1, high) ELSE F(low, middle)
  <2>1. ~(low >= high)
    BY <1>1, <1>4
  <2>2. QED
    BY <1>2, <1>4, <2>1 DEF Halved
<1>5. ASSUME NEW low \in 0..n, NEW high \in 0..n, low >= high
      PROVE  F(low, high) = low
  BY <1>2, <1>5 DEF Halved
<1> HIDE DEF n, P, F
<1>6. Missed = {}
  <2>1. SUFFICES ASSUME Missed # {} PROVE FALSE
    OBVIOUS
  <2>2. PICK d \in Missed : \A e \in Missed : d <= e
    <3>1. Missed \subseteq Nat
      BY <1>1
    <3> HIDE DEF Missed
    <3>2. QED
      BY <2>1, <3>1, LeastTime
  <2>3. PICK low \in 0..n, high \in 0..n :
          high - low = d /\ low <= c /\ c <= high /\ F(low, high) # c
    BY <2>2
  <2>4. low < high
    BY <1>1, <1>5, <2>3
  <2>5. PICK middle \in Nat : middle = (low + high) \div 2 /\ low <= middle /\ middle < high
    BY <1>1, <2>4, Middle
  <2>6. \A l, h \in 0..n : l <= c /\ c <= h /\ F(l, h) # c => h - l \in Missed
    BY <1>1
  <2>7. CASE P(middle + 1)
    <3>1. F(low, high) = F(middle + 1, high)
      BY <1>1, <1>4, <2>4, <2>5, <2>7
    <3>2. middle + 1 <= c /\ middle + 1 \in 0..n
      BY <1>1, <1>3, <2>5, <2>7
    <3>3. d <= high - (middle + 1)
      BY <2>2, <2>3, <2>6, <3>1, <3>2
    <3>4. QED
      BY <1>1, <2>3, <2>5, <3>3
  <2>8. CASE ~P(middle + 1)
    <3>1. F(low, high) = F(low, middle)
      BY <1>1, <1>4, <2>4, <2>5, <2>8
    <3>2. c <= middle /\ middle \in 0..n
      BY <1>1, <1>3, <2>5, <2>8
    <3>3. d <= middle - low
      BY <2>2, <2>3, <2>6, <3>1, <3>2
    <3>4. QED
      BY <1>1, <2>3, <2>5, <3>3
  <2>9. QED
    BY <2>7, <2>8
<1>7. F(0, n) = c
  <2>1. 0 \in 0..n /\ n \in 0..n /\ n - 0 = n /\ 0 <= c /\ c <= n
    BY <1>1
  <2>2. F(0, n) # c => n \in Missed
    BY <2>1
  <2>3. QED
    BY <1>6, <2>2
<1>8. QED
  BY <1>7 DEF F, n

(* And there is one.                                                       *)
LEMMA BisectionExists ==
  ASSUME NEW times \in Seq(Nat), NEW position \in Int, NEW c \in Ends(times),
         \A i \in 1..Len(times) : Passed(times, i, position) <=> i <= c
  PROVE  \E f : f = Bisected(times, position, f)
<1> DEFINE n == Len(times)
           Found(low, high) ==
             IF low >= high \/ c <= low THEN low ELSE IF c >= high THEN high ELSE c
           f == [span \in Ends(times) \X Ends(times) |-> Found(span[1], span[2])]
<1>1. n \in Nat /\ c \in 0..n /\ Ends(times) = 0..n
  BY DEF Ends
<1>2. ASSUME NEW low \in 0..n, NEW high \in 0..n
      PROVE  Found(low, high) = Halved(times, position, f, low, high)
  <2>1. CASE low >= high
    BY <1>1, <2>1 DEF Halved
  <2>2. CASE low < high
    <3>1. PICK middle \in Nat : middle = (low + high) \div 2 /\ low <= middle /\ middle < high
      BY <1>1, <2>2, Middle
    <3>2. middle \in 0..n /\ middle + 1 \in 0..n /\ middle + 1 \in 1..n
      BY <1>1, <3>1
    <3>3. Passed(times, middle + 1, position) <=> middle + 1 <= c
      BY <3>2
    <3>4. f[<<middle + 1, high>>] = Found(middle + 1, high) /\ f[<<low, middle>>] = Found(low, middle)
      <4> HIDE DEF Found
      <4>1. QED
        BY <1>1, <3>2
    <3> HIDE DEF f
    <3>5. Halved(times, position, f, low, high)
            = IF middle + 1 <= c THEN Found(middle + 1, high) ELSE Found(low, middle)
      <4> HIDE DEF Found
      <4>1. ~(low >= high)
        BY <1>1, <2>2
      <4>2. QED
        BY <3>1, <3>3, <3>4, <4>1 DEF Halved
    <3>6. Found(low, high) = IF middle + 1 <= c THEN Found(middle + 1, high) ELSE Found(low, middle)
      BY <1>1, <2>2, <3>1
    <3>7. QED
      BY <3>5, <3>6
  <2>3. QED
    BY <1>1, <2>1, <2>2
<1>3. f = Bisected(times, position, f)
  <2> DEFINE g == Bisected(times, position, f)
  <2>1. g = [span \in Ends(times) \X Ends(times) |-> Halved(times, position, f, span[1], span[2])]
    BY DEF Bisected
  <2>2. \A span \in Ends(times) \X Ends(times) :
          Found(span[1], span[2]) = Halved(times, position, f, span[1], span[2])
    <3> HIDE DEF Found, f
    <3>1. QED
      BY <1>1, <1>2
  <2> HIDE DEF Found
  <2>3. QED
    BY <2>1, <2>2
<1>4. QED
  BY <1>3

(* For times in order, the bisection finds how many are not after the
   position.                                                               *)
LEMMA BeatsPassedCounts ==
  ASSUME NEW times \in Seq(Nat), Ascending(times), NEW position \in Int
  PROVE  BeatsPassed(times, position)
           = Cardinality({i \in DOMAIN times : 2 * times[i] <= position})
<1>1. PICK c \in Ends(times) :
        /\ \A i \in 1..Len(times) : Passed(times, i, position) <=> i <= c
        /\ Cardinality({i \in DOMAIN times : Passed(times, i, position)}) = c
  BY PassedFirst
<1> DEFINE f == CHOOSE search : search = Bisected(times, position, search)
<1>2. f = Bisected(times, position, f)
  <2>1. \E search : search = Bisected(times, position, search)
    BY <1>1, BisectionExists
  <2>2. QED
    BY <2>1
<1>3. BeatsPassed(times, position) = f[<<0, Len(times)>>]
  BY DEF BeatsPassed, Bisected, Halved, Ends
<1> HIDE DEF f
<1>4. f[<<0, Len(times)>>] = c
  BY <1>1, <1>2, BisectionFinds
<1>5. QED
  BY <1>1, <1>3, <1>4 DEF Passed

LEMMA Division ==
  ASSUME NEW d \in Nat \ {0}, NEW a \in Nat
  PROVE  a \div d \in Nat /\ a % d \in 0..(d - 1) /\ a = d * (a \div d) + (a % d)
OBVIOUS

LEMMA QuotientUnique ==
  ASSUME NEW d \in Nat \ {0}, NEW q \in Int, NEW p \in Int,
         NEW r \in 0..(d - 1), NEW s \in 0..(d - 1), d * q + r = d * p + s
  PROVE  q = p
<1>1. d * (q - p) = s - r
  OBVIOUS
<1>2. CASE q > p
  <2>1. d * (q - p) >= d
    BY <1>2
  <2>2. QED
    BY <1>1, <2>1
<1>3. CASE q < p
  <2>1. d * (q - p) <= 0 - d
    BY <1>3
  <2>2. QED
    BY <1>1, <2>1
<1>4. QED
  BY <1>2, <1>3

(* A beat and its phase carried on come to the beat of the position.       *)
LEMMA QuotientAdds ==
  ASSUME NEW d \in Nat \ {0}, NEW a \in Nat, NEW e \in Nat
  PROVE  a \div d + ((a % d) + e) \div d = (a + e) \div d
<1> DEFINE q1 == a \div d
           r1 == a % d
           b == r1 + e
           q2 == b \div d
           r2 == b % d
           q == (a + e) \div d
           r == (a + e) % d
<1>1. q1 \in Nat /\ r1 \in 0..(d - 1) /\ a = d * q1 + r1
  BY Division
<1>2. b \in Nat
  BY <1>1
<1>3. q2 \in Nat /\ r2 \in 0..(d - 1) /\ b = d * q2 + r2
  <2> HIDE DEF b
  <2>1. QED
    BY <1>2, Division
<1>4. q \in Nat /\ r \in 0..(d - 1) /\ a + e = d * q + r
  BY a + e \in Nat, Division
<1> HIDE DEF q1, r1, q2, r2, q, r
<1>5. d * (q1 + q2) + r2 = d * q + r
  <2>1. d * (q1 + q2) = d * q1 + d * q2
    BY <1>1, <1>3
  <2>2. QED
    BY <1>1, <1>3, <1>4, <2>1
<1>6. q1 + q2 = q
  BY <1>1, <1>3, <1>4, <1>5, QuotientUnique
<1>7. QED
  BY <1>6 DEF q1, q2, q, r1

-----------------------------------------------------------------------------
(* The position.                                                           *)

Types ==
  /\ clock \in Nat /\ asked \in Nat
  /\ player \in Answer /\ answer \in Answer
  /\ now \in Sample /\ upstream \in SignalFrame

(* The answer under way is of the player as it was since it was asked.     *)
AnswerTracks ==
  /\ pc \in {"asked", "answered"} => asked <= clock
  /\ pc = "answered" =>
       /\ answer.touched <= player.touched
       /\ answer.touched = player.touched =>
            /\ answer.playing = player.playing
            /\ player.playing => player.position - answer.position \in 0..(clock - asked)
            /\ ~player.playing => player.position = answer.position

SampleTracks ==
  now.track # NoTrack =>
    /\ now.touched <= player.touched
    /\ now.touched = player.touched =>
         /\ now.playing = player.playing
         /\ Near(LocalPosition, now.trip)

SignalTracks ==
  upstream.received >= 0 =>
    /\ upstream.received <= clock
    /\ upstream.touched <= player.touched
    /\ upstream.touched = player.touched =>
         /\ upstream.playing = player.playing
         /\ UpstreamPosition = 2 * player.position

PositionInv == Types /\ AnswerTracks /\ SampleTracks /\ SignalTracks

USE DEF Near, LocalPosition, UpstreamPosition

LEMMA InitPosition == Init => PositionInv
BY SignalAssumption
DEF Init, PositionInv, Types, AnswerTracks, SampleTracks, SignalTracks, Answer, Sample,
    SignalFrame, NoAnswer, NoSample, NoSignal, Songs

(* Time carries player, sample and signal on alike.                        *)
LEMMA TickPosition == PositionInv /\ Tick => PositionInv'
<1> SUFFICES ASSUME PositionInv, Tick PROVE PositionInv'
  OBVIOUS
<1> USE DEF PositionInv, Tick, client
<1>1. Types'
  BY DEF Types, Answer, SignalFrame, NoSignal
<1>2. AnswerTracks'
  BY DEF Types, AnswerTracks, Answer
<1>3. SampleTracks'
  BY DEF Types, SampleTracks, Answer, Sample
<1>4. SignalTracks'
  <2>1. CASE upstream' = NoSignal
    BY <2>1 DEF SignalTracks, NoSignal
  <2>2. CASE upstream' = upstream
    <3>1. /\ clock \in Nat /\ clock' = clock + 1
          /\ player'.playing = player.playing /\ player'.touched = player.touched
          /\ player.position \in Nat /\ player.touched \in Nat
          /\ player'.position = player.position + (IF player.playing THEN 1 ELSE 0)
          /\ upstream.time \in Nat /\ upstream.received \in Nat \cup {-1}
      BY DEF Types, Answer, SignalFrame
    <3>2. SUFFICES ASSUME upstream.received >= 0
                   PROVE  /\ upstream.received <= clock'
                          /\ upstream.touched <= player'.touched
                          /\ upstream.touched = player'.touched =>
                               /\ upstream.playing = player'.playing
                               /\ UpstreamPosition' = 2 * player'.position
      BY <2>2 DEF SignalTracks
    <3>3. UpstreamPosition' = UpstreamPosition + (IF upstream.playing THEN 2 ELSE 0)
      BY <2>2, <3>1, <3>2
    <3>4. UpstreamPosition \in Int
      BY <3>1
    <3>5. QED
      BY <3>1, <3>2, <3>3, <3>4 DEF SignalTracks
  <2>3. QED
    BY <2>1, <2>2
<1>5. QED
  BY <1>1, <1>2, <1>3, <1>4

(* A touch makes everything known of the player older than the player.     *)
LEMMA TouchedPosition ==
  ASSUME PositionInv, NEW playing \in BOOLEAN, NEW track \in Songs, NEW position \in Nat,
         Touched(playing, track, position)
  PROVE  PositionInv'
<1> USE DEF PositionInv, Touched, client, engine
<1>1. Types' /\ player'.touched = player.touched + 1
  BY DEF Types, Answer
<1>2. AnswerTracks' /\ SampleTracks' /\ SignalTracks'
  BY <1>1 DEF Types, AnswerTracks, SampleTracks, SignalTracks, Answer, Sample, SignalFrame
<1>3. QED
  BY <1>1, <1>2

(* A posted signal is the player's when it is received.                    *)
LEMMA SignalPosition == PositionInv /\ Signal => PositionInv'
<1> SUFFICES ASSUME PositionInv, Signal PROVE PositionInv'
  OBVIOUS
<1>1. Types' /\ SignalTracks'
  BY DEF PositionInv, Signal, world, client, Types, SignalTracks, Answer, SignalFrame
<1>2. AnswerTracks' /\ SampleTracks'
  BY DEF PositionInv, Signal, world, client, AnswerTracks, SampleTracks
<1>3. QED
  BY <1>1, <1>2 DEF PositionInv

(* The midpoint of a round trip is half of it away from its ends.          *)
LEMMA ReceivesPosition == PositionInv /\ Receives => PositionInv'
<1> SUFFICES ASSUME PositionInv, Receives PROVE PositionInv'
  OBVIOUS
<1>1. /\ pc = "answered" /\ pc' \in {"theme", "resolve"}
      /\ clock' = clock /\ player' = player /\ upstream' = upstream
      /\ asked' = 0 /\ answer' = NoAnswer
      /\ \/ now' = now
         \/ now' = [playing |-> answer.playing, track |-> answer.track,
                    position |-> answer.position, touched |-> answer.touched,
                    sampled |-> asked + clock, trip |-> clock - asked]
  BY DEF Receives, Here, world, engine, Sampled
<1>2. asked <= clock
  BY <1>1 DEF PositionInv, AnswerTracks
<1>3. Types'
  BY <1>1, <1>2, SignalAssumption DEF PositionInv, Types, Answer, Sample, NoAnswer, Songs
<1>4. AnswerTracks' /\ SignalTracks'
  BY <1>1 DEF PositionInv, AnswerTracks, SignalTracks
<1>5. SampleTracks'
  BY <1>1, <1>2 DEF PositionInv, Types, AnswerTracks, SampleTracks, Answer, Sample
<1>6. QED
  BY <1>3, <1>4, <1>5 DEF PositionInv

LEMMA NextPosition == PositionInv /\ [Next]_vars => PositionInv'
<1> SUFFICES ASSUME PositionInv, [Next]_vars PROVE PositionInv'
  OBVIOUS
<1>1. CASE Tick
  BY <1>1, TickPosition
<1>2. CASE Skip
  BY <1>2, TouchedPosition DEF Skip, Songs
<1>3. CASE Pause
  BY <1>3, TouchedPosition DEF Pause, PositionInv, Types, Answer
<1>4. CASE Restart
  BY <1>4, TouchedPosition DEF Restart, PositionInv, Types, Answer
<1>5. CASE Signal
  BY <1>5, SignalPosition
<1>6. CASE Receives
  BY <1>6, ReceivesPosition
<1>7. CASE Asks
  BY <1>7 DEF Asks, Here, world, engine, PositionInv, Types, AnswerTracks, SampleTracks,
     SignalTracks
<1>8. CASE Answers
  BY <1>8 DEF Answers, Here, world, engine, PositionInv, Types, AnswerTracks, SampleTracks,
     SignalTracks, Answer
<1>9. CASE ThemeChanges \/ Resolves \/ ThemeNotDue \/ RefreshTheme \/ UNCHANGED vars
  <2>1. /\ UNCHANGED <<clock, asked, player, answer, now, upstream>>
        /\ pc' = pc \/ pc' \in {"theme", "top"}
    BY <1>9 DEF ThemeChanges, Resolves, ThemeNotDue, RefreshTheme, Here, vars, world, client,
       engine
  <2>2. QED
    BY <2>1 DEF PositionInv, Types, AnswerTracks, SampleTracks, SignalTracks
<1>10. QED
  BY <1>1, <1>2, <1>3, <1>4, <1>5, <1>6, <1>7, <1>8, <1>9 DEF Next, Client

LEMMA PositionEnough == PositionInv => PositionTracks
BY DEF PositionInv, Types, SampleTracks, SignalTracks, PositionTracks, UsesUpstream, Answer

(* At any moment, however long ago the dashboard last answered, a frame made
   from its sample is at most half the sample's round trip from what the
   player plays, and one made from a posted signal is right, unless the
   player was touched since (ConfigClient::refreshNowPlaying, the midpoint;
   Engine::publishSimulationInput).                                        *)
THEOREM PositionTracksHolds == Spec => []PositionTracks
BY InitPosition, NextPosition, PositionEnough, PTL DEF Spec

-----------------------------------------------------------------------------
(* Theme, analysis and beat.                                               *)

(* The beat clause of NowPlayingInv.                                       *)
BeatIsCounted ==
  Frame.playing =>
    LET times == IF Frame.analysis = NoTrack THEN <<>> ELSE BeatTimes[Frame.analysis]
        passed == Cardinality({i \in DOMAIN times : 2 * times[i] <= Frame.position})
    IN Frame.beat = IF times = <<>> THEN Frame.position \div (2 * BeatLength)
                    ELSE IF passed = 0 THEN 0 ELSE passed - 1

LEMMA LocalBeat ==
  ASSUME \A t \in Tracks : Ascending(BeatTimes[t]), Types, analysis \in Songs,
         ~UsesUpstream
  PROVE  BeatIsCounted
<1> DEFINE times == IF analysis = NoTrack THEN <<>> ELSE BeatTimes[analysis]
           position == LocalPosition
           passed == Cardinality({i \in DOMAIN times : 2 * times[i] <= position})
<1>1. times \in Seq(Nat) /\ Ascending(times)
  <2>1. CASE analysis = NoTrack
    BY <2>1 DEF Ascending
  <2>2. CASE analysis # NoTrack
    BY <2>2, SignalAssumption DEF Songs
  <2>3. QED
    BY <2>1, <2>2
<1>2. position \in Int
  BY DEF Types, Sample
<1>3. Frame = LocalFrame /\ LocalFrame.analysis = analysis /\ LocalFrame.position = position
  BY DEF Frame, LocalFrame
<1> HIDE DEF times, position
<1>4. BeatsPassed(times, position) = passed
  BY <1>1, <1>2, BeatsPassedCounts
<1>5. Beat(analysis, position)
        = IF times = <<>> THEN position \div (2 * BeatLength)
          ELSE IF passed = 0 THEN 0 ELSE passed - 1
  <2> HIDE DEF passed
  <2>1. QED
    BY <1>4 DEF Beat, times
<1>6. LocalFrame.playing => LocalFrame.beat = Beat(analysis, position)
  BY DEF LocalFrame, position
<1>7. QED
  BY <1>3, <1>5, <1>6 DEF BeatIsCounted, times

LEMMA UpstreamBeat ==
  ASSUME Types, SignalTracks, UsesUpstream
  PROVE  BeatIsCounted
<1> DEFINE sent == 2 * upstream.time
           since == UpstreamPosition - sent
           d == 2 * BeatLength
<1>1. sent \in Nat /\ since \in Nat /\ UpstreamPosition = sent + since
  BY DEF Types, SignalTracks, UsesUpstream, SignalFrame
<1>2. d \in Nat \ {0}
  BY SignalAssumption
<1>3. Frame = UpstreamFrame /\ UpstreamFrame.analysis = NoTrack
      /\ UpstreamFrame.position = UpstreamPosition
  BY DEF Frame, UpstreamFrame
<1>4. UpstreamFrame.beat = sent \div d + ((sent % d) + UpstreamPosition - sent) \div d
  BY DEF UpstreamFrame
<1> HIDE DEF sent, since, d
<1>5. (sent % d) + UpstreamPosition - sent = (sent % d) + since
  <2>1. sent % d \in Int
    BY <1>1, <1>2, Division
  <2>2. QED
    BY <1>1, <2>1
<1>6. UpstreamFrame.beat = UpstreamPosition \div d
  <2>1. sent \div d + ((sent % d) + since) \div d = (sent + since) \div d
    BY <1>1, <1>2, QuotientAdds
  <2>2. QED
    BY <1>1, <1>4, <1>5, <2>1, Zenon
<1>7. QED
  BY <1>3, <1>6 DEF BeatIsCounted, d

NowPlayingInductive ==
  PositionInv /\ TypeOK /\ themeEtag \in {0, fluid}

LEMMA MusicTypesNext == NowPlayingInductive /\ [Next]_vars => TypeOK' /\ themeEtag' \in {0, fluid'}
<1> SUFFICES ASSUME NowPlayingInductive, [Next]_vars
             PROVE  TypeOK' /\ themeEtag' \in {0, fluid'}
  OBVIOUS
<1> USE DEF NowPlayingInductive
<1>1. CASE Tick
  <2>1. Types'
    BY <1>1, TickPosition DEF PositionInv
  <2>2. /\ clock < MaxTime /\ clock' = clock + 1
        /\ UNCHANGED <<theme, changes, pc, asked, analysis, resolved, fluid, themeEtag, losses>>
    BY <1>1 DEF Tick, client
  <2>3. clock' \in 0..MaxTime /\ asked' \in 0..clock'
    BY <2>2, SignalAssumption DEF TypeOK
  <2>4. QED
    BY <2>1, <2>2, <2>3 DEF TypeOK, Types
<1>2. ASSUME NEW playing \in BOOLEAN, NEW track \in Songs, NEW position \in Nat,
             Touched(playing, track, position)
      PROVE  TypeOK' /\ themeEtag' \in {0, fluid'}
  BY <1>2, SignalAssumption DEF TypeOK, Touched, client, engine, Answer
<1>3. CASE Skip
  BY <1>2, <1>3 DEF Skip, Songs
<1>4. CASE Pause
  BY <1>2, <1>4 DEF Pause, TypeOK, Answer
<1>5. CASE Restart
  BY <1>2, <1>5 DEF Restart, TypeOK, Answer
<1>6. CASE ThemeChanges
  BY <1>6, SignalAssumption DEF TypeOK, ThemeChanges, client, engine
<1>7. CASE Signal
  BY <1>7 DEF TypeOK, Signal, world, client, Answer, SignalFrame
<1>8. CASE Asks \/ Answers \/ ThemeNotDue
  BY <1>8 DEF TypeOK, Asks, Answers, ThemeNotDue, Here, world, engine
<1>9. CASE Receives
  <2>1. Types'
    BY <1>9, NextPosition DEF PositionInv, Next, Client
  <2>2. /\ UNCHANGED <<analysis, resolved, fluid, themeEtag>> /\ Here
        /\ asked' = 0 /\ pc' \in {"theme", "resolve"}
        /\ \/ losses' = losses
           \/ losses < MaxLosses /\ losses' = losses + 1
    BY <1>9 DEF Receives, Counts
  <2>3. QED
    BY <2>1, <2>2, SignalAssumption DEF TypeOK, Types, Here, world, engine
<1>10. CASE Resolves
  BY <1>10, SignalAssumption DEF TypeOK, Resolves, Counts, Here, world, engine, Sample
<1>11. CASE RefreshTheme
  BY <1>11, SignalAssumption DEF TypeOK, RefreshTheme, Counts, Here, world, engine
<1>12. CASE UNCHANGED vars
  BY <1>12 DEF TypeOK, vars, world, client, engine
<1>13. QED
  BY <1>1, <1>3, <1>4, <1>5, <1>6, <1>7, <1>8, <1>9, <1>10, <1>11, <1>12 DEF Next, Client

(* For any songs, if the provider lists the beats of each in order (the client
   takes them as they come, config_client.cpp:882): the tag is the theme's,
   and the beat of every frame, found by bisection or carried on from a posted
   signal, is the one a scan would find (buildSignal, projectedSignal).    *)
THEOREM NowPlayingInvHolds ==
  ASSUME \A t \in Tracks : Ascending(BeatTimes[t])
  PROVE  Spec => []NowPlayingInv
<1>1. Init => NowPlayingInductive
  <2>1. Init => TypeOK /\ themeEtag \in {0, fluid}
    BY SignalAssumption DEF Init, TypeOK, Answer, Sample, SignalFrame, NoAnswer, NoSample,
       NoSignal, Songs
  <2>2. QED
    BY <2>1, InitPosition DEF NowPlayingInductive
<1>2. NowPlayingInductive /\ [Next]_vars => NowPlayingInductive'
  BY MusicTypesNext, NextPosition DEF NowPlayingInductive
<1>3. NowPlayingInductive => NowPlayingInv
  <2>1. ASSUME NowPlayingInductive PROVE BeatIsCounted
    BY <2>1, LocalBeat, UpstreamBeat DEF NowPlayingInductive, PositionInv, TypeOK
  <2>2. QED
    BY <2>1 DEF NowPlayingInductive, NowPlayingInv, BeatIsCounted
<1>4. QED
  BY <1>1, <1>2, <1>3, PTL DEF Spec
=============================================================================
