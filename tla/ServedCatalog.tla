--------------------------- MODULE ServedCatalog ----------------------------
(***************************************************************************)
(* What the gateway says it serves (src/src/index.mjs,                     *)
(* src/src/proxy/advertise.mjs, src/src/policy/generic-bucket-status.mjs,  *)
(* src/src/discovery.mjs): the refreshes that renew the catalog, and the   *)
(* views that are built from it and from the state of the routing.         *)
(*                                                                         *)
(* Startup, the timer, a request that finds no catalog and an operator     *)
(* start refreshes; only the operator's are kept from overlapping.  A      *)
(* refresh asks its providers one after the other and awaits each; a view  *)
(* is built without an await from what stands at that moment.              *)
(*                                                                         *)
(* Provider i is the one whose backend is door i.  Which models fit the    *)
(* class of a bucket is BucketPolicy's; the verdicts are CatalogStore's.   *)
(* Wildcards, times and the fields of a card are not modelled, nor is the  *)
(* sweep of a refresh, which CatalogStore has.                             *)
(***************************************************************************)
EXTENDS Lifecycle, FiniteSets, Sequences, FiniteSetsExt

CONSTANTS ServedModels,   \* the model ids
          CatalogDoors,   \* config.backends: a sequence of [enabled, advertise, models,
                          \* local, source]; `local` is not nvidia or openrouter, `source`
                          \* is the provider of `discovery`, or NoTag
          FetchOrder,     \* the providers with an adapter, in the order they are asked
          StoredModels,   \* what loadCache() finds: the provider of each model, or NoTag
          WrapperSeeds,   \* the doors whose declared models are seeds of the wrapper's list
          Wrapper,        \* the provider whose answer replaces those seeds, or NoTag
          ReconcileMode,  \* "flag", "hide" or "off"
          ExcludedModels, \* advertise.excluded_models
          FocusedAliases, \* [provider, fits]: the models that reach the alias's class
          GenericBuckets, \* the sets of models that generic buckets admit, fences applied
          CapableModels,  \* reasoning, tools and tool_choice, says the card
          Refreshes,      \* refreshes that may be under way together
          MaxChanges      \* bound: refreshes and changes of the world

DoorIds == DOMAIN CatalogDoors

ASSUME ServedAssumption ==
  /\ Range(FetchOrder) \cup {a.provider : a \in FocusedAliases} \subseteq DoorIds
  /\ WrapperSeeds \subseteq DoorIds
  /\ StoredModels \in [ServedModels -> DoorIds \cup {NoTag}]
  /\ ReconcileMode \in {"flag", "hide", "off"}
  /\ CapableModels \cup ExcludedModels \subseteq ServedModels
  /\ MaxChanges \in Nat
  /\ CatalogDoors \in Seq(Range(CatalogDoors)) /\ FetchOrder \in Seq(Range(FetchOrder))

VARIABLES offered,    \* _catalog: the provider of each model, or NoTag; and its stale flag
          basis,      \* history: the answers of the refresh that _catalog comes from
          cacheModels,     \* _discoveryCache.models, likewise without the flag
          live,       \* Backend.models of each door
          refresh,    \* refresh[r]: what a refresh under way has so far; its answers
                      \* are history, each a provider and what it listed
          inFlight,   \* _catalogRefreshInFlight: a refresh, or NoTag
          remembered, \* _genericQualification: the rows of each generic bucket, and if young
          standing,   \* [verdict, throttled, unfit, allowlist]: what else a view looks at
          changes     \* bound

servedVars == <<offered, basis, cacheModels, live, refresh, inFlight, remembered, standing, changes>>

Owned(owner) == {m \in ServedModels : owner[m] # NoTag}
NoModels == [m \in ServedModels |-> NoTag]
NotUnderWay == [on |-> FALSE, left |-> <<>>, got |-> NoModels, failed |-> {}, answers |-> {}]
NeverAsked == [rows |-> {}, young |-> FALSE]

ServedInit ==
  /\ offered = [owner |-> NoModels, stale |-> FALSE]
  /\ basis = {}
  /\ cacheModels = StoredModels
  /\ live = [i \in DoorIds |-> CatalogDoors[i].models]
  /\ refresh = [r \in Refreshes |-> NotUnderWay]
  /\ inFlight = NoTag
  /\ remembered = NeverAsked
  /\ standing = [verdict |-> [m \in ServedModels |-> [state |-> "active", provider |-> NoTag]],
                 throttled |-> {}, unfit |-> {}, allowlist |-> {}]
  /\ changes = 0

Change == changes < MaxChanges /\ changes' = changes + 1

-----------------------------------------------------------------------------
(* advertise.mjs *)

\* isCatalogDisabledBackend()
Disabled(i) == ~ CatalogDoors[i].enabled \/ ~ CatalogDoors[i].advertise
\* effectiveAdvertiseBackends(): discovery replaces the seeds of a door.
Advertised(i) == IF CatalogDoors[i].source # NoTag THEN live[i] ELSE CatalogDoors[i].models
\* modelClaimersFor()
ClaimersOf(m) == {i \in DoorIds : m \in Advertised(i)}

\* supportsModel(): no list means any model, unless discovery emptied it.
Supports(i, m) == IF live[i] = {} THEN CatalogDoors[i].source = NoTag ELSE m \in live[i]
\* isModelAvailable(): nobody to judge it is no reason to doubt it.
Available(m) ==
  LET serving == {i \in DoorIds : Supports(i, m)}
  IN serving = {} \/ \E i \in serving : <<i, m>> \notin standing.unfit

\* buildModelCatalog(): the models of the doors, each under the first that has it.
Reconciled(m) ==
  /\ m \notin ExcludedModels
  /\ \E i \in ClaimersOf(m) : ~ Disabled(i)
  /\ ReconcileMode = "hide" => Available(m)
OwnerOf(m) == Min({i \in ClaimersOf(m) : ~ Disabled(i)})

\* tagLocalModels(): the doors whose declared models are part of every catalog.
LocalOwners(m) == {i \in DoorIds : ~ Disabled(i) /\ CatalogDoors[i].local /\ m \in CatalogDoors[i].models}

\* mergeDiscoveredCatalog(): discovery's tags over the door's row, and rows of its own
\* for what an enabled provider lists.
Tagged(m) == offered.owner[m] # NoTag /\ ~ Disabled(offered.owner[m])
Merged ==
  LET listed == {m \in ServedModels : Reconciled(m)}
      tagged == {m \in ServedModels : Tagged(m)}
  IN {[id |-> m,
       provider |-> IF m \in tagged THEN offered.owner[m] ELSE OwnerOf(m),
       owner |-> IF m \in listed THEN OwnerOf(m) ELSE offered.owner[m],
       fresh |-> m \in tagged /\ ~ offered.stale,
       usable |-> ReconcileMode = "flag" /\ m \in listed => Available(m)] :
      m \in (listed \cup tagged) \ ExcludedModels}

-----------------------------------------------------------------------------
(* buildCatalogStages() *)

Allowed(m) == standing.allowlist = {} \/ m \in standing.allowlist
\* applyAllowlist(), applyCapacityView() and applyLifecycleView(): what is left to see.
Visible ==
  {row \in Merged : /\ Allowed(row.id)
                    /\ <<row.provider, row.id>> \notin standing.throttled
                    /\ IsEffectivelyRoutable(standing.verdict[row.id], ClaimersOf(row.id))}

\* rowQualifies()
Qualifies(row) == row.fresh /\ row.usable /\ row.id \in CapableModels

\* resolveBucket() for an alias of one provider
Pool(alias, rows) == {row \in rows : row.provider = alias.provider /\ row.id \in alias.fits}

\* applyFocusedAliasMetadata(): the alias carries its provider's name only if every
\* member of its pool is to be seen and qualifies.
UnderItsProvider(alias) ==
  LET pool == Pool(alias, Merged) IN
  /\ CatalogDoors[alias.provider].enabled
  /\ pool # {}
  /\ \A row \in pool : Qualifies(row) /\ row \in Visible

\* genericBucketQualification(): any member will do.
QualifiedRows == {<<fits, row.id, row.owner>> : fits \in GenericBuckets, row \in {r \in Visible : Qualifies(r)}}
QualificationOf == {q \in QualifiedRows : q[2] \in q[1]}

-----------------------------------------------------------------------------
(* discoverCatalog() and refreshCatalog() *)

\* A refresh that starts asks every provider.
UnderWay == [on |-> TRUE, left |-> FetchOrder, got |-> NoModels, failed |-> {}, answers |-> {}]
Starts(r) ==
  /\ ~ refresh[r].on
  /\ refresh' = [refresh EXCEPT ![r] = UnderWay]

\* Startup and the interval: whatever else is under way.
Timer(r) ==
  /\ Change
  /\ Starts(r)
  /\ UNCHANGED <<offered, basis, cacheModels, live, inFlight, remembered, standing>>

\* beginCatalogRefresh(): an operator's second call joins the first one.
OperatorRefresh(r) ==
  /\ inFlight = NoTag
  /\ Change
  /\ Starts(r)
  /\ inFlight' = r
  /\ UNCHANGED <<offered, basis, cacheModels, live, remembered, standing>>

\* mergeCatalog() keeps the first owner of a model.
Keep(got, models, p) == [m \in ServedModels |-> IF m \in models /\ got[m] = NoTag THEN p ELSE got[m]]

FetchAnswers(r, listed) ==
  LET p == Head(refresh[r].left) IN
  /\ refresh[r].left # <<>>
  /\ refresh' = [refresh EXCEPT ![r].left = Tail(@), ![r].got = Keep(@, listed, p),
                                 ![r].answers = @ \cup {<<p, listed>>}]
  /\ UNCHANGED <<offered, basis, cacheModels, live, inFlight, remembered, standing, changes>>

\* mutant: the cached models take the place of the answer without a word.
FailsUnnoticed(r) ==
  LET p == Head(refresh[r].left)
      known == {m \in ServedModels : cacheModels[m] = p}
  IN
  /\ refresh[r].left # <<>>
  /\ refresh' = [refresh EXCEPT ![r].left = Tail(@), ![r].got = Keep(@, known, p)]
  /\ UNCHANGED <<offered, basis, cacheModels, live, inFlight, remembered, standing, changes>>

\* What the cache has of the provider takes the place of its answer.
FetchFails(r) ==
  LET p == Head(refresh[r].left)
      known == {m \in ServedModels : cacheModels[m] = p}
  IN
  /\ refresh[r].left # <<>>
  /\ refresh' = [refresh EXCEPT ![r].left = Tail(@), ![r].failed = @ \cup {p}, ![r].got = Keep(@, known, p)]
  /\ UNCHANGED <<offered, basis, cacheModels, live, inFlight, remembered, standing, changes>>

\* The declared models of local doors come first, but for the seeds of a wrapper
\* that answered.
WithLocals(got, failed) ==
  [m \in ServedModels |->
     LET owners == LocalOwners(m) \ (IF Wrapper \in Range(FetchOrder) \ failed THEN WrapperSeeds ELSE {})
     IN IF owners = {} THEN got[m] ELSE Min(owners)]

\* registerDiscoveredRoutes(): each door gets what its own provider lists, or what
\* the provider that it names does; without a list it keeps what it has.
ListedAt(owner, i) ==
  LET by(p) == {m \in ServedModels : owner[m] = p}
      source == CatalogDoors[i].source
  IN IF source # NoTag /\ by(source) # {} THEN by(source) ELSE by(i)
MayRoute(m, i) ==
  LET lc == standing.verdict[m] IN
  \/ IsRoutable(lc)
  \/ lc.state # "not_chat" /\ lc.provider # NoTag /\ IsEffectivelyRoutable(lc, {i})
Registered(owner, i) ==
  IF ListedAt(owner, i) = {} THEN live[i]
  ELSE {m \in ListedAt(owner, i) \cup (IF CatalogDoors[i].source # NoTag THEN {} ELSE CatalogDoors[i].models) :
          MayRoute(m, i)}

Finish(r) ==
  LET owner == WithLocals(refresh[r].got, refresh[r].failed) IN
  /\ refresh[r].on
  /\ refresh[r].left = <<>>
  /\ offered' = [owner |-> owner, stale |-> refresh[r].failed # {}]
  /\ basis' = refresh[r].answers
  /\ cacheModels' = owner
  /\ live' = [i \in DoorIds |-> Registered(owner, i)]
  /\ refresh' = [refresh EXCEPT ![r] = NotUnderWay]
  /\ inFlight' = IF inFlight = r THEN NoTag ELSE inFlight
  /\ UNCHANGED <<remembered, standing, changes>>

-----------------------------------------------------------------------------
(* The requests that look at the catalog *)

\* getDiscoveredCatalog(): /v1/models, /v1/models/:id and /admin/models start a refresh
\* if there is no catalog.
ModelsWithoutCatalog(r) ==
  /\ Owned(offered.owner) = {}
  /\ Change
  /\ Starts(r)
  /\ UNCHANGED <<offered, basis, cacheModels, live, inFlight, remembered, standing>>

\* GET /v1/models: rememberGenericQualification()
ModelsListed ==
  /\ Owned(offered.owner) # {}
  /\ remembered' = [rows |-> QualificationOf, young |-> TRUE]
  /\ UNCHANGED <<offered, basis, cacheModels, live, refresh, inFlight, standing, changes>>

\* getDiscoveredStatus(): an operator's refresh is not doubled.
StatusWithoutCatalog(r) ==
  /\ inFlight = NoTag
  /\ Owned(offered.owner) = {}
  /\ Change
  /\ Starts(r)
  /\ UNCHANGED <<offered, basis, cacheModels, live, inFlight, remembered, standing>>

\* currentGenericQualification(), for /health and /queue: what is remembered while it is
\* young or there is no catalog, else a new look.
Poll ==
  /\ ~ remembered.young
  /\ Owned(offered.owner) # {}
  /\ remembered' = [rows |-> QualificationOf, young |-> TRUE]
  /\ UNCHANGED <<offered, basis, cacheModels, live, refresh, inFlight, standing, changes>>
MemoAges ==
  /\ remembered.young
  /\ remembered' = [remembered EXCEPT !.young = FALSE]
  /\ UNCHANGED <<offered, basis, cacheModels, live, refresh, inFlight, standing, changes>>

-----------------------------------------------------------------------------
(* What others change meanwhile *)

Stands(new) ==
  /\ Change
  /\ standing' = new
  /\ UNCHANGED <<offered, basis, cacheModels, live, refresh, inFlight, remembered>>

VerdictChanges(m, state, provider) ==
  Stands([standing EXCEPT !.verdict[m] = [state |-> state, provider |-> provider]])
Toggled(set, element) == IF element \in set THEN set \ {element} ELSE set \cup {element}
CapacityChanges(i, m) == Stands([standing EXCEPT !.throttled = Toggled(@, <<i, m>>)])
DoorChanges(i, models) ==
  LET own == {i} \X models IN
  Stands([standing EXCEPT !.unfit = IF own \subseteq @ THEN @ \ own ELSE @ \cup own])
\* PUT /admin/models/advertise
AllowlistChanges(models) == Stands([standing EXCEPT !.allowlist = models])

ServedNext ==
  \/ \E r \in Refreshes : Timer(r) \/ OperatorRefresh(r) \/ ModelsWithoutCatalog(r) \/ StatusWithoutCatalog(r)
                          \/ FetchFails(r) \/ Finish(r)
  \/ \E r \in Refreshes, listed \in SUBSET ServedModels : FetchAnswers(r, listed)
  \/ ModelsListed \/ Poll \/ MemoAges
  \/ \E m \in ServedModels, state \in {"active", "eol", "not_chat"}, p \in DoorIds \cup {NoTag} :
       VerdictChanges(m, state, p)
  \/ \E i \in DoorIds, m \in ServedModels : CapacityChanges(i, m) \/ DoorChanges(i, {m})
  \/ \E i \in DoorIds : DoorChanges(i, ServedModels)
  \/ \E models \in SUBSET ServedModels : AllowlistChanges(models)

ServedSpec == ServedInit /\ [][ServedNext]_servedVars

-----------------------------------------------------------------------------
(* Properties *)

\* What a provider listed in one refresh.
Said(answers, p) == UNION {listed \in SUBSET ServedModels : <<p, listed>> \in answers}

\* An alias that is shown under its provider's name rests on one refresh in which
\* every provider answered: each member of its pool was listed by that provider there
\* or is declared at its local door, and nothing that it listed there and that fits
\* the class is left out, unless somebody else had it first.  No answer of another
\* refresh, no cached list of a provider that failed and no older catalog is in it.
AliasRestsOnAnswers ==
  \A alias \in FocusedAliases : UnderItsProvider(alias) =>
    LET p == alias.provider
        pool == {row.id : row \in Pool(alias, Merged)}
        Has(q, m) == m \in Said(basis, q) \/ q \in LocalOwners(m)
    IN /\ \A q \in Range(FetchOrder) : \E listed \in SUBSET ServedModels : <<q, listed>> \in basis
       /\ \A m \in pool : Has(p, m)
       /\ \A m \in (Said(basis, p) \cap alias.fits) \ ExcludedModels :
            m \in pool \/ \E q \in DoorIds \ {p} : Has(q, m)

=============================================================================
