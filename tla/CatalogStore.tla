---------------------------- MODULE CatalogStore ----------------------------
(***************************************************************************)
(* The lifecycle store and the discovery cycle: discoverCatalog() and      *)
(* probeModels(), what refreshCatalog() registers from them, and the       *)
(* completions that record their outcome at any time (src/src/discovery,   *)
(* src/src/discovery.mjs, src/src/index.mjs).                              *)
(*                                                                         *)
(* One JSON file holds every record, and everybody rewrites it whole.      *)
(* Completions read it through a copy in memory that is trusted for a      *)
(* short time and renewed by their own writes; a cycle reads and writes    *)
(* the file directly, and does not touch that copy.  A sweep awaits its    *)
(* probes between reading the file and writing it.                         *)
(*                                                                         *)
(* At some moment the world may settle: no more traffic and restarts, the  *)
(* providers answer, and their listings and models stay as they are.       *)
(***************************************************************************)
EXTENDS Lifecycle, FiniteSets, Sequences, FiniteSetsExt

CONSTANTS NModels,      \* model ids, in their order, are 1 to NModels
          NProviders,   \* providers, in the order of a cycle, are 1 to NProviders
          Declared,     \* Declared[p]: backends.<p>.models
          ProbeBudget,  \* probe_budget
          MaxEvents     \* bound: completions, measurements, cycles and restarts
                        \* before the world settles

ModelIds == 1 .. NModels
Providers == 1 .. NProviders

ASSUME CatalogAssumption ==
  /\ NModels \in Nat \ {0}
  /\ NProviders \in Nat \ {0}
  /\ Declared \in [Providers -> SUBSET ModelIds]
  /\ ProbeBudget \in Nat \ {0}
  /\ MaxEvents \in Nat

VARIABLES store,    \* the file: a record, or Unseen, for each model
          memo,     \* _cache of the store module: a trusted copy, or Cold
          cycle,    \* [stage, copy, left, catalog] of the refresh in flight
          catalog,  \* _discoveryCache.models: the provider of each model, or NoTag
          routes,   \* Backend.models of each provider's backend
          world     \* how many events there were, or what stays as it is once the
                    \* world has settled

catalogVars == <<store, memo, cycle, catalog, routes, world>>

Unseen == [DefaultLifecycle EXCEPT !.state = "unseen"]
Empty == [m \in ModelIds |-> Unseen]
Cold == <<>>
Nothing == [m \in ModelIds |-> NoTag]
Resting == [stage |-> "idle", copy |-> Empty, left |-> <<>>, catalog |-> Nothing]

Worlds == [settled : {TRUE}, listed : [Providers -> SUBSET ModelIds],
           answer : [ModelIds -> Replies]]

CatalogInit ==
  /\ store = Empty
  /\ memo = Cold
  /\ cycle = Resting
  /\ catalog = Nothing
  /\ routes = Declared
  /\ world = [settled |-> FALSE, events |-> 0]

\* One more event of the unsettled world.
Event ==
  /\ ~ world.settled
  /\ world.events < MaxEvents
  /\ world' = [world EXCEPT !.events = @ + 1]

RecordOf(map, m) == IF map[m] = Unseen THEN DefaultLifecycle ELSE map[m]

-----------------------------------------------------------------------------
(* model_catalog_store.mjs *)

\* loadCatalogStore(): the copy within its time, the file after it.
Loaded(file, copy) == IF copy = Cold THEN file ELSE copy

\* saveCatalogStore(): the whole map; the copy is trusted anew.
Save(map) == store' = map /\ memo' = map

\* recordModelOutcome(): a 404 or 410 of a door that does not claim the model
\* says nothing.
RecordModelOutcome(m, answer, claiming) ==
  /\ Event
  /\ claiming \/ answer # "gone"
  /\ LET map == Loaded(store, memo) IN
       Save([map EXCEPT ![m] = AfterCompletion(RecordOf(map, m), answer)])
  /\ UNCHANGED <<cycle, catalog, routes>>

\* recordCapabilityMeasurement(): what it adds to the record is not modelled.
RecordCapabilityMeasurement(m) ==
  /\ Event
  /\ LET map == Loaded(store, memo) IN Save([map EXCEPT ![m] = RecordOf(map, m)])
  /\ UNCHANGED <<cycle, catalog, routes>>

\* getLifecycle(): any reader warms the copy.
GetLifecycle ==
  /\ ~ world.settled
  /\ memo = Cold
  /\ memo' = store
  /\ UNCHANGED <<store, cycle, catalog, routes, world>>

CopyExpires ==
  /\ memo # Cold
  /\ memo' = Cold
  /\ UNCHANGED <<store, cycle, catalog, routes, world>>

-----------------------------------------------------------------------------
(* discoverCatalog(): the fetches and the reconciliation *)

\* sliceByProvider(): the records of p, and the untagged ones p declares.
Slice(file, p) ==
  {m \in ModelIds : /\ file[m] # Unseen
                    /\ \/ file[m].provider = p
                       \/ file[m].provider = NoTag /\ m \in Declared[p]}

\* reconcilePresence(): a model p lists or declares that is not in its slice
\* starts from a fresh record, whatever the file holds.
Reconcilable(file, p, listed) == Slice(file, p) \cup Declared[p] \cup listed

Reconciled(file, p, listed, m) ==
  [AfterCatalog(IF m \in Slice(file, p) THEN file[m] ELSE DefaultLifecycle, m \in listed)
     EXCEPT !.provider = p]

\* Every provider that answered, in order, from the same file: the last counts.
Reconcile(file, ok, listed) ==
  [m \in ModelIds |->
     LET judges == {p \in ok : m \in Reconcilable(file, p, listed[p])}
     IN IF judges = {} THEN file[m] ELSE Reconciled(file, Max(judges), listed[Max(judges)], m)]

\* mergeCatalog(): the first provider of a model; one that failed keeps the
\* models of the cycle before.
MergeCatalog(ok, listed) ==
  [m \in ModelIds |->
     LET owners == {p \in Providers : IF p \in ok THEN m \in listed[p] ELSE catalog[m] = p}
     IN IF owners = {} THEN NoTag ELSE Min(owners)]

-----------------------------------------------------------------------------
(* refreshCatalog(): registerDiscoveredRoutes() *)

\* filterRoutableModelIds(), with p as the only claimer.
IsRoutableAt(lc, p) ==
  \/ IsRoutable(lc)
  \/ lc.state # "not_chat" /\ lc.provider # NoTag /\ IsEffectivelyRoutable(lc, {p})

\* A backend without models of its own in the catalog keeps what it had.
RoutesOf(map, merged, p) ==
  IF \A m \in ModelIds : merged[m] # p
  THEN routes[p]
  ELSE {m \in Declared[p] \cup {n \in ModelIds : merged[n] = p} : IsRoutableAt(RecordOf(map, m), p)}

\* The end of a refresh whose last write left `file`.
Register(file, merged) ==
  /\ catalog' = merged
  /\ routes' = [p \in Providers |-> RoutesOf(Loaded(file, memo), merged, p)]
  /\ memo' = Loaded(file, memo)
  /\ cycle' = Resting

\* What the providers answer in this cycle.
Fetches(ok, listed) ==
  \/ world.settled /\ ok = Providers /\ listed = world.listed /\ UNCHANGED world
  \/ Event

RefreshWithoutSweep(ok, listed) ==
  /\ cycle.stage = "idle"
  /\ Fetches(ok, listed)
  /\ store' = Reconcile(store, ok, listed)
  /\ Register(store', MergeCatalog(ok, listed))

\* The sweep is due: it starts from the file as it has just been written.
RefreshWithSweep(ok, listed) ==
  /\ cycle.stage = "idle"
  /\ Fetches(ok, listed)
  /\ store' = Reconcile(store, ok, listed)
  /\ cycle' = [stage |-> "sweep", copy |-> store', left |-> [p \in Providers |-> p],
               catalog |-> MergeCatalog(ok, listed)]
  /\ UNCHANGED <<memo, catalog, routes>>

-----------------------------------------------------------------------------
(* probe.mjs *)

DeclaredElsewhere(p) == UNION {Declared[q] : q \in Providers \ {p}}

\* mutant: only what is routable is probed.
ProbesRoutable(lc) == IsRoutable(lc)
\* A tombstone is not probed; a retired model and one that refused chat are.
Probed(lc) == lc.state \notin {"unseen", "dead"}

Eligible(map, p) ==
  {m \in ModelIds \ DeclaredElsewhere(p) :
     Probed(map[m]) /\ map[m].provider = p /\ map[m].verified # "recent"}

\* Never verified models first, in the order of their ids, then the oldest; the
\* ages of verified ones are not modelled.
Before(map, m, n) == map[m].verified = "never" /\ (map[n].verified = "never" => m < n)

\* selectProbeCandidates()
Selections(map, p) ==
  {S \in SUBSET Eligible(map, p) :
     /\ Cardinality(S) = Min({ProbeBudget, Cardinality(Eligible(map, p))})
     /\ \A m \in S, n \in Eligible(map, p) \ S : ~ Before(map, n, m)}

\* probeModels(): one provider's candidates; those the pool had no slot for are
\* skipped.
SweepProvider ==
  /\ cycle.stage = "sweep"
  /\ cycle.left # <<>>
  /\ \E chosen \in Selections(cycle.copy, Head(cycle.left)) :
     \E probed \in IF world.settled THEN {chosen} ELSE SUBSET chosen :
     \E answer \in IF world.settled THEN {world.answer} ELSE [probed -> Replies] :
       cycle' = [cycle EXCEPT !.left = Tail(@),
                   !.copy = [m \in ModelIds |->
                               IF m \in probed THEN AfterProbe(@[m], answer[m]) ELSE @[m]]]
  /\ UNCHANGED <<store, memo, catalog, routes, world>>

\* The sweep writes the file as it read it, with its own results.
SweepSaves ==
  /\ cycle.stage = "sweep"
  /\ cycle.left = <<>>
  /\ store' = cycle.copy
  /\ Register(store', cycle.catalog)
  /\ UNCHANGED world

-----------------------------------------------------------------------------
(* The gateway stops and starts; a write it was in leaves nothing readable. *)
Restart ==
  /\ Event
  /\ store' \in {store, Empty}
  /\ memo' = Cold
  /\ cycle' = Resting
  /\ routes' = Declared
  /\ UNCHANGED catalog

\* The verification is a time, and as old in every copy of the record.
Aged(map, m) == [map EXCEPT ![m].verified = IF @ = "recent" THEN "old" ELSE @]

TrafficWindowPasses(m) ==
  /\ store[m].verified = "recent"
  /\ store' = Aged(store, m)
  /\ memo' = IF memo = Cold THEN Cold ELSE Aged(memo, m)
  /\ cycle' = [cycle EXCEPT !.copy = Aged(@, m)]
  /\ UNCHANGED <<catalog, routes, world>>

WorldSettles ==
  /\ ~ world.settled
  /\ world' \in Worlds
  /\ UNCHANGED <<store, memo, cycle, catalog, routes>>

Listings == IF world.settled THEN {world.listed} ELSE [Providers -> SUBSET ModelIds]
Refresh(sweeping) ==
  \E ok \in SUBSET Providers, listed \in Listings :
    IF sweeping THEN RefreshWithSweep(ok, listed) ELSE RefreshWithoutSweep(ok, listed)

CatalogNext ==
  \/ \E m \in ModelIds, answer \in Replies, claiming \in BOOLEAN :
       RecordModelOutcome(m, answer, claiming)
  \/ \E m \in ModelIds : RecordCapabilityMeasurement(m) \/ TrafficWindowPasses(m)
  \/ GetLifecycle
  \/ CopyExpires
  \/ \E sweeping \in BOOLEAN : Refresh(sweeping)
  \/ SweepProvider
  \/ SweepSaves
  \/ Restart
  \/ WorldSettles

\* The sweep's cadence, answers or timeouts of the probes, and time itself.
\* Nothing is assumed of traffic or of the providers.
CatalogProgress ==
  /\ WF_catalogVars(SweepProvider)
  /\ WF_catalogVars(SweepSaves)
  /\ WF_catalogVars(CopyExpires)
  /\ \A m \in ModelIds : WF_catalogVars(TrafficWindowPasses(m))

\* With the refresh timer, when a sweep is due.
CatalogSpec ==
  CatalogInit /\ [][CatalogNext]_catalogVars /\ CatalogProgress /\ WF_catalogVars(Refresh(TRUE))

-----------------------------------------------------------------------------

InRouting(m) == \E p \in Providers : m \in routes[p]

Listed(m) == \E p \in Providers : m \in world.listed[p]

\* A model that answers no probe, or only with 410 or 400, leaves routing for
\* good once the traffic that would overwrite its verdicts is over, although its
\* provider goes on listing it: single silences are forgiven, but no listing and
\* no renewed copy keeps them from adding up.
DeadLeavesRouting ==
  \A m \in ModelIds :
    world.settled /\ world.answer[m] \in {"gone", "refused", "silent"} /\ Listed(m)
      ~> [] ~ InRouting(m)

\* A model that is listed and answers comes back into routing, whatever verdict
\* it had: retired, never verified, tagged by nobody, or lost with the file.
AliveComesBack ==
  \A m \in ModelIds :
    world.settled /\ world.answer[m] = "ok" /\ Listed(m) ~> [] InRouting(m)

\* "touches exactly ONE model and must not disturb any other record": what a
\* measurement writes leaves the other records as the file has them.
OtherRecordsKept ==
  [][\A m \in ModelIds : RecordCapabilityMeasurement(m) =>
       \A n \in ModelIds \ {m} : store'[n] = store[n]]_catalogVars

=============================================================================
