------------------------------ MODULE Dispatch ------------------------------
(***************************************************************************)
(* What routeAndSend() of src/src/proxy/router.mjs does before its         *)
(* candidate loop: the name a client asks for is rewritten by aliases,     *)
(* agents and the registry until there are candidates for it.              *)
(*                                                                         *)
(* The registry is a file that is read again when its mtime changes, the   *)
(* catalog is written by discovery, and two caches keep decisions that     *)
(* were made from them.  Files change between the steps of a request.  The *)
(* members of a bucket are BucketChain, the claimers of a name             *)
(* ModelRouting, the verdict on a local machine LocalFailover.             *)
(***************************************************************************)
EXTENDS Naturals, FiniteSets, SequencesExt

CONSTANTS None,
          Requests,      \* [model, context, service, role, agent, prompt, sensitivity, synthetic, exact]
          Documents,     \* what registry.yaml may say: [roles, contexts, pins, defaultRole, requires,
                         \* difficulty, fallbacks, backends]
          Settings,      \* what the configuration may say of routing: [buckets, match, enforced]
          Catalogs,      \* what discovery may list: sets of <<model, provider>>
          ServingDoors,  \* config.backends: [id, enabled, models]
          Excluded,      \* advertise.excluded_models
          Scored,        \* every model, in the order of its score
          Aliases,       \* model_aliases
          SkNames,       \* names that begin with "sk-"
          BucketIds,     \* those that address a bucket
          NearMisses,    \* those that almost do
          CodexNames,    \* names with "codex" in them
          PureDoors,     \* official OpenAI doors
          Claimed,       \* the names some configured backend supports
          ExactlyOwned,  \* those a model list spells out
          Discoverable,  \* names a backend may still learn of
          FallbackDoor,  \* the cloud backend of the failover, or None
          FallbackZone,  \* its trust zone
          TopK,          \* MATCH_TOP_K
          MaxOut,        \* bound: models out at a time
          MaxStamp       \* bound: writes of the two files

ASSUME DispatchAssumption ==
  /\ Settings \subseteq [buckets : BOOLEAN, match : BOOLEAN, enforced : BOOLEAN]
  /\ NearMisses \cap BucketIds = {}
  /\ \A c \in Catalogs : {row[1] : row \in c} \subseteq ToSet(Scored)
  /\ UNION {d.models : d \in ServingDoors} \subseteq ToSet(Scored)
  /\ Scored \in Seq(ToSet(Scored))
  /\ TopK \in Nat \ {0}
  /\ MaxOut \in Nat
  /\ MaxStamp \in Nat

VARIABLES file,     \* registry.yaml: whether it can be read, its document and mtime
          loaded,   \* _cache and _cacheMtime
          catalog,  \* the discovery cache: its rows and mtime
          out,      \* models that are condemned, or have no claimer in rotation
          settings, \* routing.* of the configuration
          roleFor,  \* _autoDecisionCache
          picksFor, \* _matchDecisionCache
          bounded,  \* the doors whose timeout the failover has set
          call      \* the request that is dispatched

dispatchVars == <<file, loaded, catalog, out, settings, roleFor, picksFor, bounded, call>>
aroundVars == <<file, catalog, out, settings>>

NoDocument == [roles |-> <<>>, contexts |-> <<>>, pins |-> <<>>, defaultRole |-> None,
               requires |-> <<>>, difficulty |-> <<>>, fallbacks |-> <<>>, backends |-> <<>>]
Resting == [stage |-> "idle", kind |-> "none", ask |-> None, doors |-> <<>>]

DispatchInit ==
  /\ \E doc \in Documents : file = [readable |-> TRUE, doc |-> doc, stamp |-> 1]
  /\ loaded = [doc |-> NoDocument, stamp |-> 0]
  /\ \E rows \in Catalogs : catalog = [rows |-> rows, stamp |-> 0]
  /\ out = {}
  /\ settings \in Settings
  /\ roleFor = {}
  /\ picksFor = {}
  /\ bounded = {}
  /\ call = Resting

-----------------------------------------------------------------------------
(* The registry *)

\* loadRegistry(): what was read last stays when the file cannot be read.
Fresh == IF file.readable THEN [doc |-> file.doc, stamp |-> file.stamp] ELSE loaded

At(map, key) == IF key \in DOMAIN map THEN map[key] ELSE None
FirstGiven(names) == IF \E i \in DOMAIN names : names[i] # None
                     THEN SelectSeq(names, LAMBDA n : n # None)[1] ELSE None

\* context > service > role > the model as a role > the default.
Target(doc, ask) ==
  FirstGiven(<<At(doc.contexts, ask.context), At(doc.contexts, ask.service), ask.role,
               IF ask.model \in DOMAIN doc.roles THEN ask.model ELSE None, doc.defaultRole>>)

Nothing == [kind |-> "nothing"]
Resolve(doc, ask) ==
  LET target == Target(doc, ask)
      name == IF target \in DOMAIN doc.roles THEN doc.roles[target] ELSE target
  IN IF target = None THEN Nothing
     ELSE IF target = "sk-auto" \/ name = "auto" THEN [kind |-> "auto"]
     ELSE IF name = "@match" THEN [kind |-> "match", role |-> target]
     ELSE IF name \in DOMAIN doc.backends THEN doc.backends[name]
     ELSE Nothing

IsRegistryRouted(doc, ask) ==
  \/ {ask.context, ask.service, ask.role} # {None}
  \/ ask.model \in SkNames \cup DOMAIN doc.roles
\* A bootstrap probe measures the owner of its model.
ShouldUseRegistry(doc, ask) == IsRegistryRouted(doc, ask) /\ ~ (ask.synthetic /\ ask.model \in ExactlyOwned)

\* The alias of the name, then the target its agent is pinned to, unless the caller
\* says where to go.
Renamed(doc, ask) ==
  LET alias == At(Aliases, ask.model)
      pin == At(doc.pins, ask.agent)
      signals == {ask.context, ask.service, ask.role} # {None}
  IN IF ask.exact # None THEN ask
     ELSE IF pin # None /\ ~ signals THEN [ask EXCEPT !.model = pin]
     ELSE IF alias # None THEN [ask EXCEPT !.model = alias]
     ELSE ask

-----------------------------------------------------------------------------
(* Decisions and the caches that keep them; an entry of an epoch that has passed is
   never found again, and left out. *)

\* getConfigEpoch(), and with it the mtime of the catalog.
RegistryEpoch == Fresh.stamp
Larger(i, j) == IF i > j THEN i ELSE j
\* mutant: a refresh of the catalog does not count.
RegistryOnly == Fresh.stamp
MatchEpoch == Larger(Fresh.stamp, catalog.stamp)

RolesKept(ask) == {d \in roleFor : d.prompt = ask.prompt /\ d.epoch = RegistryEpoch}
\* classifyDifficulty(), with the nudge of the ratings; a kept decision is used again.
RolesFor(ask) ==
  IF RolesKept(ask) # {} THEN RolesKept(ask)
  ELSE {[prompt |-> ask.prompt, epoch |-> RegistryEpoch, role |-> role] :
          role \in Fresh.doc.difficulty[ask.prompt]}

\* filterServingCacheModels(): what is listed for a disabled door does not count.
Discovered == {row[1] : row \in {c \in catalog.rows : \A d \in ServingDoors : d.id = c[2] => d.enabled}}
\* servingConfigModels(): what the other doors declare.
Serving == UNION {d.models : d \in {e \in ServingDoors : e.enabled}}
\* buildServingCatalog(): a model is known by either.
Known == Discovered \cup Serving
MatchCatalog == Known \ Excluded

Fits(doc, role) == IF role \in DOMAIN doc.requires THEN doc.requires[role] ELSE ToSet(Scored)
Ranked(role) ==
  LET fit == (MatchCatalog \cap Fits(Fresh.doc, role)) \ out
      chain == FlattenSeq([i \in DOMAIN Scored |-> IF Scored[i] \in fit THEN <<Scored[i]>> ELSE <<>>])
  IN IF Len(chain) > TopK THEN SubSeq(chain, 1, TopK) ELSE chain
PicksKept(role, ask) == {d \in picksFor : d.role = role /\ d.prompt = ask.prompt /\ d.epoch = MatchEpoch}
PicksFor(role, ask) ==
  IF PicksKept(role, ask) # {} THEN CHOOSE d \in PicksKept(role, ask) : TRUE
  ELSE [role |-> role, prompt |-> ask.prompt, epoch |-> MatchEpoch, picks |-> Ranked(role)]

-----------------------------------------------------------------------------
(* The candidates: a door and the model that is named to it. *)

Door(id, model, zone) == [id |-> id, sent |-> model, zone |-> zone]
\* router.route() for a name, nothing when it refuses.
RoutedTo(model) == IF model \in out THEN <<>> ELSE <<Door("claimers", model, None)>>

\* codexPurityProblems() over everything that names a model; the last check of all.
Impure(ask, intents, doors) ==
  /\ ({ask.model, ask.role, ask.context, ask.service} \cup intents \cup {d.sent : d \in ToSet(doors)})
       \cap CodexNames # {}
  /\ doors = <<>> \/ \E d \in ToSet(doors) : d.id \notin PureDoors
Finished(ask, renamed, kind, doors) ==
  [stage |-> "done", ask |-> ask, kind |-> IF Impure(ask, {renamed}, doors) THEN "codex" ELSE kind,
   doors |-> IF Impure(ask, {renamed}, doors) THEN <<>> ELSE doors]
Answered(ask, kind) == [stage |-> "done", ask |-> ask, kind |-> kind, doors |-> <<>>]

\* The name is left to the model lists.
ByName(ask, named) ==
  IF named.model \in Claimed
  THEN IF named.model \in out THEN Answered(ask, "refused") ELSE Finished(ask, named.model, "name", RoutedTo(named.model))
  ELSE Answered(ask, IF named.model \in Discoverable THEN "not ready" ELSE "unknown")

\* requestZoneCeiling(): the registry that is loaded has no policy of its own.
Ceiling(sensitivity) == CASE sensitivity = "public" -> 2 [] sensitivity = "internal" -> 1 [] OTHER -> 0
FallbackAllowed(ask) == ask.sensitivity = None \/ FallbackZone <= Ceiling(ask.sensitivity)

\* The first fallback that is active; without one the body keeps its name.
FallbackModel(doc, model) ==
  LET active == SelectSeq(doc.fallbacks, LAMBDA m : m \notin out) IN IF active = <<>> THEN model ELSE active[1]

FailsOver(reg) == reg.local /\ ~ reg.noFailover /\ FallbackDoor # None

\* The resolved backend: the claimers of a Claude model, a door outside the lists, or
\* a local one with the cloud behind it, whose verdict is awaited first.
ByBackend(ask, reg) ==
  IF reg.kind = "anthropic"
  THEN IF reg.model \in out THEN Answered(ask, "refused") ELSE Finished(ask, reg.model, "registry", RoutedTo(reg.model))
  ELSE LET primary == Door(reg.door, reg.model, IF reg.local THEN 0 ELSE 2)
       IN IF ~ FailsOver(reg) THEN Finished(ask, reg.model, "registry", <<primary>>)
          ELSE [stage |-> "probing", ask |-> ask, kind |-> "registry", doors |-> <<primary>>,
                fallback |-> Door(FallbackDoor, FallbackModel(Fresh.doc, reg.model), FallbackZone),
                useFallback |-> FallbackAllowed(ask) \/ ~ settings.enforced]

-----------------------------------------------------------------------------
(* routeAndSend(), up to the first candidate *)

\* An owned probe of one provider.
ArriveExact(ask) ==
  /\ ask.exact # None
  /\ call' = Finished(ask, ask.model, "exact", <<Door(ask.exact, ask.model, None)>>)
  /\ UNCHANGED <<roleFor, picksFor, bounded>>

ArriveBucket(ask, named) ==
  /\ settings.buckets /\ named.model \in BucketIds
  /\ call' = Answered(ask, "bucket")
  /\ UNCHANGED <<roleFor, picksFor, bounded>>

Misspelt(named) ==
  settings.buckets /\ named.model \in NearMisses
    /\ named.model \notin DOMAIN Fresh.doc.roles \cup DOMAIN Fresh.doc.contexts \cup DOMAIN Fresh.doc.backends
ArriveMisspelt(ask, named) ==
  /\ Misspelt(named)
  /\ call' = Answered(ask, "invalid bucket")
  /\ UNCHANGED <<roleFor, picksFor, bounded>>

ArriveByName(ask, named) ==
  /\ call' = ByName(ask, named)
  /\ UNCHANGED <<picksFor, bounded>>

\* Every pick that is still routable gives its doors; a pick list without any falls
\* back to the name that was asked for.
ArriveMatch(ask, named, role) ==
  IF ~ settings.match THEN ArriveByName(ask, named)
  ELSE LET d == PicksFor(role, ask)
           doors == FlattenSeq([i \in DOMAIN d.picks |-> RoutedTo(d.picks[i])])
       IN /\ picksFor' = {kept \in picksFor : kept.epoch = d.epoch} \cup {d}
          /\ call' = IF doors # <<>> THEN Finished(ask, d.picks[1], "match", doors)
                     ELSE IF named.model \in out THEN Answered(ask, "throws")
                     ELSE Finished(ask, named.model, "default", RoutedTo(named.model))
          /\ UNCHANGED bounded

ArriveResolved(ask, named, reg) ==
  CASE reg.kind = "match" -> ArriveMatch(ask, named, reg.role)
    [] reg.kind = "nothing" -> ArriveByName(ask, named)
    [] OTHER ->
         /\ call' = ByBackend(ask, reg)
         /\ bounded' = IF call'.stage = "probing" THEN bounded \cup {reg.door} ELSE bounded
         /\ UNCHANGED picksFor

ArriveAuto(ask, named) ==
  \E d \in RolesFor(ask) :
    /\ roleFor' = {kept \in roleFor : kept.epoch = d.epoch} \cup {d}
    /\ ArriveResolved(ask, named, Resolve(Fresh.doc, [ask EXCEPT !.context = None, !.service = None,
                                                                 !.role = d.role, !.model = None]))

Arrive(ask) ==
  LET named == Renamed(Fresh.doc, ask)
      reg == Resolve(Fresh.doc, named)
      taken == Misspelt(named) \/ (settings.buckets /\ named.model \in BucketIds)
  IN /\ call.stage # "probing"
     /\ ask.sensitivity # None => settings.match
     /\ loaded' = Fresh
     /\ \/ ArriveExact(ask)
        \/ ask.exact = None /\ ArriveBucket(ask, named)
        \/ ask.exact = None /\ ArriveMisspelt(ask, named)
        \/ /\ ask.exact = None /\ ~ taken /\ ~ ShouldUseRegistry(Fresh.doc, named)
           /\ ArriveByName(ask, named) /\ UNCHANGED roleFor
        \/ /\ ask.exact = None /\ ~ taken /\ ShouldUseRegistry(Fresh.doc, named)
           /\ IF reg.kind = "auto" THEN ArriveAuto(ask, named)
              ELSE ArriveResolved(ask, named, reg) /\ UNCHANGED roleFor
     /\ UNCHANGED aroundVars

\* probeLocalHealth() has a verdict: the local door, the cloud behind it or instead of
\* it, or neither.
LocalVerdict(healthy) ==
  /\ call.stage = "probing"
  /\ call' =
       IF ~ call.useFallback /\ ~ healthy THEN Answered(call.ask, "fail closed")
       ELSE Finished(call.ask, call.doors[1].sent, "registry",
              IF ~ call.useFallback THEN call.doors
              ELSE IF healthy THEN Append(call.doors, call.fallback)
              ELSE <<call.fallback>>)
  /\ UNCHANGED <<loaded, aroundVars, roleFor, picksFor, bounded>>

-----------------------------------------------------------------------------
(* What happens around it; an answer that was given is forgotten. *)

Stamp == Larger(file.stamp, catalog.stamp) + 1
Around == call' = IF call.stage = "probing" THEN call ELSE Resting

EditRegistry ==
  /\ Stamp <= MaxStamp
  /\ \E doc \in Documents : file' = [readable |-> TRUE, doc |-> doc, stamp |-> Stamp]
  /\ Around
  /\ UNCHANGED <<loaded, catalog, out, settings, roleFor, picksFor, bounded>>

RegistryUnreadable ==
  /\ file.readable
  /\ file' = [file EXCEPT !.readable = FALSE]
  /\ Around
  /\ UNCHANGED <<loaded, catalog, out, settings, roleFor, picksFor, bounded>>

\* discoverCatalog() writes its cache.
CatalogWritten ==
  /\ Stamp <= MaxStamp
  /\ \E rows \in Catalogs : catalog' = [rows |-> rows, stamp |-> Stamp]
  /\ Around
  /\ UNCHANGED <<file, loaded, out, settings, roleFor, picksFor, bounded>>

\* Verdicts, claims and health of models, MaxOut of them at a time; what is excluded
\* is never looked at.
ModelChanges ==
  /\ \E S \in SUBSET (ToSet(Scored) \ Excluded) : Cardinality(S) <= MaxOut /\ out' = S
  /\ Around
  /\ UNCHANGED <<file, loaded, catalog, settings, roleFor, picksFor, bounded>>

\* SIGHUP
SettingsChange ==
  /\ settings' \in Settings
  /\ Around
  /\ UNCHANGED <<file, loaded, catalog, out, roleFor, picksFor, bounded>>

\* The TTL of an entry, or its eviction.
DecisionExpires ==
  /\ \/ \E d \in roleFor : roleFor' = roleFor \ {d} /\ UNCHANGED picksFor
     \/ \E d \in picksFor : picksFor' = picksFor \ {d} /\ UNCHANGED roleFor
  /\ Around
  /\ UNCHANGED <<loaded, aroundVars, bounded>>

DispatchNext ==
  \/ \E ask \in Requests : Arrive(ask)
  \/ \E healthy \in BOOLEAN : LocalVerdict(healthy)
  \/ EditRegistry
  \/ RegistryUnreadable
  \/ CatalogWritten
  \/ ModelChanges
  \/ SettingsChange
  \/ DecisionExpires

DispatchSpec == DispatchInit /\ [][DispatchNext]_dispatchVars

-----------------------------------------------------------------------------
\* "A catalog refresh or EOL flip invalidates cached picks", and an edit of the
\* registry both kinds of decision: what a lookup would find now was decided from
\* what the registry says and discovery lists now.  A configuration that is loaded
\* again counts for neither.
DecisionsAreCurrent ==
  /\ \A d \in roleFor : d.epoch = RegistryEpoch => d.role \in Fresh.doc.difficulty[d.prompt]
  /\ \A d \in picksFor :
       d.epoch = MatchEpoch => ToSet(d.picks) \subseteq MatchCatalog \cap Fits(Fresh.doc, d.role)

=============================================================================
