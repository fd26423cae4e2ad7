---------------------------- MODULE ConfigClient ----------------------------
(***************************************************************************)
(* The configuration half of src/src/net/config_client.cpp: one thread     *)
(* that re-reads the dashboard's configuration when an event announced a   *)
(* change or a poll is due, loads the module and the images it names,      *)
(* commits a new snapshot, and samples the dashboard's runtime selection   *)
(* in between.  The dashboard and the event stream are external.  Parsing, *)
(* settings, palettes and settings groups are data of the document; what   *)
(* is kept of a document is the module it names and the images it uses,    *)
(* and of the runtime selection its revision.                              *)
(***************************************************************************)
EXTENDS Integers, FiniteSets

CONSTANTS
  Urls,        (* image URLs                                                *)
  Documents,   (* [named, centres, backdrops, library]: a configuration     *)
  PollPeriod,  (* turns of the loop between polls                           *)
  MaxSaves,    (* bound: configuration writes and module installs           *)
  MaxChoices,  (* bound: changes of the runtime selection                   *)
  MaxFailures  (* bound: requests that fail                                 *)

ASSUME ParameterAssumption ==
  /\ IsFiniteSet(Urls)
  /\ Documents \subseteq [named : BOOLEAN, centres : SUBSET Urls,
                          backdrops : SUBSET Urls, library : SUBSET Urls]
  /\ \A d \in Documents : d.centres \cup d.backdrops \subseteq d.library
  /\ PollPeriod \in Nat \ {0}
  /\ MaxSaves \in Nat /\ MaxChoices \in Nat /\ MaxFailures \in Nat

VARIABLES
  dashboard,  (* external: [version, hash, doc]: what a GET would answer    *)
  runtime,    (* external: revision of the selection /theme would answer    *)
  heard,      (* version of the last change the event stream announced      *)
  pending,    (* pending_                                                   *)
  sincePoll,  (* turns since lastPoll                                       *)
  stage,      (* where the thread is                                        *)
  reply,      (* the configuration the current refresh received             *)
  todo,       (* images of it not resolved yet                              *)
  cache,      (* imageCache_: Absent, Null, or which decode it holds        *)
  module,     (* [key, content]: loadedModuleKey_, loadedModule_            *)
  held,       (* snapshot_                                                  *)
  configEtag, (* configEtag_: a version, or 0 for none                      *)
  error,      (* whether lastError_ is set                                  *)
  decodes,    (* images decoded so far                                      *)
  failures,   (* requests failed so far                                     *)
  restored    (* history: an earlier module package was installed again     *)

external == <<dashboard, runtime, heard, restored>>
configVars == <<external, pending, sincePoll, stage, reply, todo, cache,
                module, held, configEtag, error, decodes, failures>>

Absent == -1
Null == 0
NoModule == 0
NoDocument == [named |-> FALSE, centres |-> {}, backdrops |-> {}, library |-> {}]
Pointer == Nat

Snapshot == [version : 0..(MaxSaves + 1), module : 0..(MaxSaves + 1),
             centres : [Urls -> Pointer], backdrops : [Urls -> Pointer],
             revision : 0..MaxChoices]

ConfigTypeOK ==
  /\ dashboard \in [version : 1..(MaxSaves + 1), hash : 1..(MaxSaves + 1), doc : Documents]
  /\ runtime \in 0..MaxChoices
  /\ heard \in 0..(MaxSaves + 1)
  /\ pending \in BOOLEAN /\ error \in BOOLEAN
  /\ sincePoll \in 0..PollPeriod
  /\ stage \in {"rest", "asked", "module", "images", "theme"}
  /\ reply \in [version : 0..(MaxSaves + 1), hash : 0..(MaxSaves + 1),
                doc : Documents \cup {NoDocument}]
  /\ todo \subseteq reply.doc.library
  /\ cache \in [Urls -> Pointer \cup {Absent}]
  /\ module \in [key : 0..(MaxSaves + 1), content : 0..(MaxSaves + 1)]
  /\ held \in Snapshot
  /\ configEtag \in 0..(MaxSaves + 1)
  /\ decodes \in Nat
  /\ failures \in 0..MaxFailures
  /\ restored \in BOOLEAN

Nothing == [u \in Urls |-> Null]

ConfigInit ==
  /\ dashboard \in [version : {1}, hash : {1}, doc : Documents]
  /\ runtime = 0
  /\ heard = 0
  /\ pending = TRUE /\ sincePoll = 0
  /\ stage = "rest"
  /\ reply = [version |-> 0, hash |-> 0, doc |-> NoDocument]
  /\ todo = {}
  /\ cache = [u \in Urls |-> Absent]
  /\ module = [key |-> NoModule, content |-> NoModule]
  /\ held = [version |-> 0, module |-> NoModule, centres |-> Nothing,
             backdrops |-> Nothing, revision |-> 0]
  /\ configEtag = 0
  /\ error = FALSE
  /\ decodes = 0 /\ failures = 0
  /\ restored = FALSE

-----------------------------------------------------------------------------
(* The dashboard, and its event stream.                                    *)

Unchanged ==
  UNCHANGED <<pending, sincePoll, stage, reply, todo, cache, module, held, configEtag,
              error, decodes, failures>>

(* The configuration is written, or a module package is replaced under the
   same id and version.                                                    *)
Save ==
  /\ dashboard.version <= MaxSaves
  /\ \E doc \in Documents, hash \in 1..(MaxSaves + 1) :
       /\ <<doc, hash>> # <<dashboard.doc, dashboard.hash>>
       /\ hash <= dashboard.version + 1
       /\ dashboard' = [version |-> dashboard.version + 1, hash |-> hash, doc |-> doc]
       /\ restored' = (restored \/ hash \notin {dashboard.hash, dashboard.version + 1})
  /\ UNCHANGED <<runtime, heard>> /\ Unchanged

(* A newer runtime selection.                                              *)
Choose ==
  /\ runtime < MaxChoices
  /\ runtime' = runtime + 1
  /\ UNCHANGED <<dashboard, heard, restored>> /\ Unchanged

(* The callback given to sse_.start.  An event the stream loses is never
   heard.                                                                  *)
Announce ==
  /\ heard < dashboard.version
  /\ heard' = dashboard.version
  /\ pending' = TRUE
  /\ UNCHANGED <<dashboard, runtime, restored, sincePoll, stage, reply, todo, cache, module,
                 held, configEtag, error, decodes, failures>>

-----------------------------------------------------------------------------
(* The loop of run.                                                        *)

Due == pending \/ sincePoll >= PollPeriod

StartRefresh ==
  /\ stage = "rest" /\ Due
  /\ pending' = FALSE
  /\ sincePoll' = 0
  /\ stage' = "asked"
  /\ UNCHANGED <<reply, todo, cache, module, held, configEtag, error, decodes,
                 failures>>

NotDue ==
  /\ stage = "rest" /\ ~Due
  /\ stage' = "theme"
  /\ UNCHANGED <<pending, sincePoll, reply, todo, cache, module, held, configEtag, error,
                 decodes, failures>>

(* refreshThemeState, and the sleep that ends the turn.                    *)
ThemeRead ==
  /\ stage = "theme"
  /\ held' = [held EXCEPT !.revision = runtime]
  /\ stage' = "rest" /\ sincePoll' = sincePoll + 1
  /\ UNCHANGED <<pending, reply, todo, cache, module, configEtag, error, decodes,
                 failures>>

(* The theme state is not due in this turn, or its request fails.          *)
ThemeNotRead ==
  /\ stage = "theme"
  /\ stage' = "rest" /\ sincePoll' = sincePoll + 1
  /\ UNCHANGED <<pending, reply, todo, cache, module, held, configEtag, error,
                 decodes, failures>>

-----------------------------------------------------------------------------
(* refreshConfiguration.                                                   *)

(* Every early return of a refresh that failed: the error is recorded and
   nothing else is.                                                        *)
Fails ==
  /\ error' = TRUE
  /\ stage' = "theme" /\ todo' = {}
  /\ UNCHANGED <<pending, sincePoll, reply, cache, module, held, configEtag, decodes>>

NotModified ==
  /\ stage = "asked" /\ configEtag = dashboard.version
  /\ error' = FALSE
  /\ stage' = "theme"
  /\ UNCHANGED <<pending, sincePoll, reply, todo, cache, module, held, configEtag, decodes,
                 failures>>

(* No answer, an empty body, or one that does not parse.                   *)
RequestFails ==
  /\ stage = "asked" /\ failures < MaxFailures
  /\ failures' = failures + 1
  /\ Fails

NamesNoModule ==
  /\ stage = "asked" /\ configEtag # dashboard.version /\ ~dashboard.doc.named
  /\ Fails /\ UNCHANGED failures

(* Mutant: the tag is stored as soon as the answer has arrived.            *)
ArrivesStoresTag ==
  /\ stage = "asked" /\ configEtag # dashboard.version /\ dashboard.doc.named
  /\ reply' = dashboard
  /\ todo' = dashboard.doc.library
  /\ stage' = "module"
  /\ configEtag' = dashboard.version
  /\ UNCHANGED <<pending, sincePoll, cache, module, held, error,
                 decodes, failures>>

Arrives ==
  /\ stage = "asked" /\ configEtag # dashboard.version /\ dashboard.doc.named
  /\ reply' = dashboard
  /\ todo' = dashboard.doc.library
  /\ stage' = "module"
  /\ UNCHANGED <<pending, sincePoll, cache, module, held, configEtag, error,
                 decodes, failures>>

(* loadModule.                                                             *)

Loaded == module.key = reply.hash

ModuleCached ==
  /\ stage = "module" /\ Loaded
  /\ stage' = "images"
  /\ UNCHANGED <<pending, sincePoll, reply, todo, cache, module, held, configEtag, error,
                 decodes, failures>>

(* What is fetched is whatever package is installed by then.               *)
ModuleFetched ==
  /\ stage = "module" /\ ~Loaded
  /\ module' = [key |-> reply.hash, content |-> dashboard.hash]
  /\ stage' = "images"
  /\ UNCHANGED <<pending, sincePoll, reply, todo, cache, held, configEtag, error,
                 decodes, failures>>

ModuleFails ==
  /\ stage = "module" /\ ~Loaded /\ failures < MaxFailures
  /\ failures' = failures + 1
  /\ Fails

(* centreImage, for each image the theme library names.                    *)

Resolve(u) ==
  /\ stage = "images" /\ u \in todo
  /\ todo' = todo \ {u}
  /\ UNCHANGED <<pending, sincePoll, stage, reply, module, held, configEtag, error>>

ImageCached(u) ==
  /\ Resolve(u) /\ cache[u] # Absent
  /\ UNCHANGED <<cache, decodes, failures>>

ImageFetched(u) ==
  /\ Resolve(u) /\ cache[u] = Absent
  /\ cache' = [cache EXCEPT ![u] = decodes + 1]
  /\ decodes' = decodes + 1
  /\ UNCHANGED failures

ImageFails(u) ==
  /\ Resolve(u) /\ cache[u] = Absent /\ failures < MaxFailures
  /\ cache' = [cache EXCEPT ![u] = Null]
  /\ failures' = failures + 1
  /\ UNCHANGED decodes

Shown(used) == [u \in Urls |-> IF u \in used /\ cache[u] # Absent THEN cache[u] ELSE Null]

(* Mutant: the selection is left as a fresh snapshot has it.               *)
NextSnapshotBlank(old) ==
  [version |-> reply.version, module |-> module.content,
   centres |-> Shown(reply.doc.centres), backdrops |-> Shown(reply.doc.backdrops),
   revision |-> 0]

(* The snapshot that replaces `old': its own content, and the selection
   read last.                                                              *)
NextSnapshot(old) ==
  [version |-> reply.version, module |-> module.content,
   centres |-> Shown(reply.doc.centres), backdrops |-> Shown(reply.doc.backdrops),
   revision |-> old.revision]

(* Mutant: what the replaced snapshot showed is kept instead.              *)
SweptByOld(new) ==
  [u \in Urls |-> IF cache[u] = Null \/ held.centres[u] # Null THEN cache[u] ELSE Absent]

(* Decoded images stay when the new snapshot shows them as a centre image;
   failures always stay.                                                   *)
Swept(new) ==
  [u \in Urls |-> IF cache[u] = Null \/ new.centres[u] # Null THEN cache[u] ELSE Absent]

(* Mutant: the request is taken back only now.                             *)
CommitClearsPending ==
  /\ stage = "images" /\ todo = {}
  /\ held' = NextSnapshot(held)
  /\ cache' = Swept(NextSnapshot(held))
  /\ configEtag' = reply.version
  /\ error' = FALSE
  /\ pending' = FALSE
  /\ stage' = "theme"
  /\ UNCHANGED <<sincePoll, reply, todo, module, decodes, failures>>

Commit ==
  /\ stage = "images" /\ todo = {}
  /\ held' = NextSnapshot(held)
  /\ cache' = Swept(NextSnapshot(held))
  /\ configEtag' = reply.version
  /\ error' = FALSE
  /\ stage' = "theme"
  /\ UNCHANGED <<pending, sincePoll, reply, todo, module, decodes, failures>>

ConfigThread ==
  /\ \/ StartRefresh \/ NotDue \/ ThemeRead \/ ThemeNotRead
     \/ NotModified \/ RequestFails \/ NamesNoModule \/ Arrives
     \/ ModuleCached \/ ModuleFetched \/ ModuleFails
     \/ \E u \in Urls : ImageCached(u) \/ ImageFetched(u) \/ ImageFails(u)
     \/ Commit
  /\ UNCHANGED external

ConfigNext == Save \/ Choose \/ Announce \/ ConfigThread

ConfigSpec == ConfigInit /\ [][ConfigNext]_configVars

(* The thread runs, and every request is answered or times out.            *)
LiveConfigSpec == ConfigSpec /\ WF_configVars(ConfigThread)

-----------------------------------------------------------------------------
(* A change the event stream announced is never dropped: as long as the
   snapshot is older, a refresh is due, or is under way and will see the
   change, or the failure of the last one is on record.                    *)
HeardIsOnItsWay ==
  heard > held.version =>
    \/ pending
    \/ stage = "asked"
    \/ stage \in {"module", "images"} /\ reply.version >= heard
    \/ error

(* The type invariant, and no announced change dropped.                    *)
ClientInv == ConfigTypeOK /\ HeardIsOnItsWay

(* A commit, which can be older than the selection read meanwhile, never
   takes the selection back to an earlier revision.                        *)
SelectionNeverRegresses == [][held'.revision >= held.revision]_held

(* A centre image two snapshots in a row show is one decoded buffer, which
   Simulation takes for no change; the same cache serves every refresh.    *)
CentreImageKept ==
  [][\A u \in Urls : held.centres[u] # Null /\ held'.centres[u] # Null
       => held'.centres[u] = held.centres[u]]_held

(* Whatever events were lost and whatever requests failed, the snapshot
   ends up being the dashboard's configuration, and the module it draws the
   installed package, unless a package was replaced and then put back.     *)
ConfigConverges ==
  <>[](dashboard.doc.named =>
         held.version = dashboard.version /\ (held.module = dashboard.hash \/ restored))
=============================================================================
