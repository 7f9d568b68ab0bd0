------------------------------- MODULE MCDoors -------------------------------
(***************************************************************************)
(* An upstream, called and retried, and what takes a backend or a model    *)
(* out of rotation and brings it back: the health of a backend, the claims *)
(* of one model, the verdict on a local backend, and the catalog with the  *)
(* lifecycles of its models.  They share no variable; each behaviour runs  *)
(* one of them, from each of its initial states, while the others rest.    *)
(***************************************************************************)
EXTENDS BackendHealth, ModelClaim, LocalFailover, CatalogStore,
        UpstreamCall, RetryEngine

VARIABLE running \* the part that runs

doorVars == <<running, healthVars, claimVars, localVars, catalogVars,
              upstreamVars, engineVars>>

\* A window short enough to fill, with rates that tell its counts apart.
MCHealthWindow == 4
MCDegradedPercent == 30   \* two of four are degraded, one is not
MCDownPercent == 60       \* three of four are down
MCThreshold == 3

\* The provider declares no model itself.
MCDeclared == <<{}>>

\* One alternative backend.
MCEngines == <<"a", "b">>

\* The initial state of a call that rests.
CallAtRest == options = [idle |-> FALSE, hard |-> FALSE, limit |-> FALSE] /\ wire = "open"

MCInit ==
  /\ running \in {"health", "claim", "local", "catalog", "call", "engine"}
  /\ HealthInit
  /\ ClaimInit
  /\ LocalInit
  /\ CatalogInit
  /\ UpstreamInit
  /\ EngineInit
  /\ running # "call" => CallAtRest

OthersRest ==
  /\ IF running = "health" THEN TRUE ELSE UNCHANGED healthVars
  /\ IF running = "claim" THEN TRUE ELSE UNCHANGED claimVars
  /\ IF running = "local" THEN TRUE ELSE UNCHANGED localVars
  /\ IF running = "catalog" THEN TRUE ELSE UNCHANGED catalogVars
  /\ IF running = "call" THEN TRUE ELSE UNCHANGED upstreamVars
  /\ IF running = "engine" THEN TRUE ELSE UNCHANGED engineVars

MCNext ==
  /\ UNCHANGED running
  /\ OthersRest
  /\ \/ running = "health" /\ HealthNext
     \/ running = "claim" /\ ClaimNext
     \/ running = "local" /\ LocalNext
     \/ running = "catalog" /\ CatalogNext
     \/ running = "call" /\ UpstreamNext
     \/ running = "engine" /\ EngineNext

\* The fairness of the parts.  One at rest has nothing to do that it asks for,
\* except for the requests for the model and the refresh of the catalog.
MCSpec ==
  /\ MCInit
  /\ [][MCNext]_doorVars
  /\ HealthFairness
  /\ ClaimProgress
  /\ \A r \in ClaimRequests : SF_claimVars(running = "claim" /\ RouteClaims(r))
  /\ LocalFairness
  /\ WF_catalogVars(running = "catalog" /\ Refresh(TRUE))
  /\ CatalogProgress
  /\ UpstreamFairness
  /\ \A x \in Executions : WF_engineVars(running = "engine" /\ Settles(x))
=============================================================================
