------------------------------ MODULE ModelClaim ------------------------------
(***************************************************************************)
(* The claims of one model by the backends that declare it, class Backend  *)
(* and candidatesFor() of src/src/proxy/router.mjs.                        *)
(*                                                                         *)
(* Repeated fast wrong answers (404, 410, 502) quarantine one claim and    *)
(* leave the backend in rotation for its other models.  When no claim is   *)
(* left, routing takes a probe lease on one whose cooldown is over.  The   *)
(* lease lives in the claim, not in the request: a request learns that it  *)
(* carries one by looking at the claim once its auth headers are resolved, *)
(* and whoever looked may give it back.                                    *)
(*                                                                         *)
(* The backends are the numbers 1 to N in priority order, all of them in   *)
(* rotation (whether a backend is, is the subject of BackendHealth).       *)
(***************************************************************************)
EXTENDS Integers

CONSTANTS N,              \* how many backends declare the model
          Gated,          \* those with require_observed_health
          ClaimRequests,  \* requests for the model that may overlap
          ClaimThreshold  \* model_claim_quarantine_threshold

ASSUME ClaimAssumption ==
  /\ N \in Nat \ {0}
  /\ Gated \subseteq 1 .. N
  /\ ClaimThreshold \in Nat \ {0}

Claimers == 1 .. N

VARIABLES claimFailures,    \* claimFailures[b], counted up to ClaimThreshold
          claimQuarantined, \* quarantinedAt is set
          claimCooled,      \* the cooldown has passed since quarantinedAt
          probing,          \* the lease is out
          expired,          \* a cooldown has passed since probingSince
          stage,            \* stage[r]: "idle", "resolving", "waiting" or "sent"
          at,               \* the candidate r is at, 0 when idle
          left,             \* the candidates r has left
          flagged           \* its candidates with modelClaimProbe

claimVars == <<claimFailures, claimQuarantined, claimCooled, probing, expired, stage, at, left, flagged>>
leaseVars == <<claimFailures, claimQuarantined, claimCooled, probing, expired>>

ClaimInit ==
  /\ claimFailures = [b \in Claimers |-> 0]
  /\ claimQuarantined = [b \in Claimers |-> FALSE]
  /\ claimCooled = [b \in Claimers |-> FALSE]
  /\ probing = [b \in Claimers |-> FALSE]
  /\ expired = [b \in Claimers |-> FALSE]
  /\ stage = [r \in ClaimRequests |-> "idle"]
  /\ at = [r \in ClaimRequests |-> 0]
  /\ left = [r \in ClaimRequests |-> {}]
  /\ flagged = [r \in ClaimRequests |-> {}]

-----------------------------------------------------------------------------
(* candidatesFor() *)

\* mutant: a lease that is out does not keep a second probe away.
OnLeaseNever(b) == FALSE
\* The lease is out, and the window it holds for has not passed.
OnLease(b) == probing[b] /\ ~ expired[b]

\* tryAcquireModelClaimProbe()
Acquirable == {b \in Claimers : claimQuarantined[b] /\ claimCooled[b] /\ ~ OnLease(b)}

First(S) == {b \in S : \A c \in S : b <= c}
Selectable == {b \in Claimers : ~ claimQuarantined[b]}

\* The lease taken when no claim is selectable.
Leased == IF Selectable = {} THEN First(Acquirable) ELSE {}

\* All owners whose health must have been observed are quarantined: a lease on one
\* of them is asked for, of those that are not out by then.
GatedQuarantined == Gated # {} /\ Gated \cap Selectable = {}
GatedLeased == IF GatedQuarantined THEN First((Acquirable \cap Gated) \ Leased) ELSE {}

ClaimMatched ==
  IF Gated = {} THEN Selectable \cup Leased
  ELSE IF GatedQuarantined THEN GatedLeased
  ELSE Selectable \cap Gated

TakeLeases ==
  /\ probing' = [b \in Claimers |-> probing[b] \/ b \in Leased \cup GatedLeased]
  /\ expired' = [b \in Claimers |-> expired[b] /\ b \notin Leased \cup GatedLeased]
  /\ UNCHANGED <<claimFailures, claimQuarantined, claimCooled>>

\* The request goes on to resolve its candidates, in the order of a balancer.
RouteClaims(r) ==
  /\ stage[r] = "idle"
  /\ TakeLeases
  /\ \E b \in ClaimMatched :
       /\ at' = [at EXCEPT ![r] = b]
       /\ left' = [left EXCEPT ![r] = ClaimMatched \ {b}]
  /\ stage' = [stage EXCEPT ![r] = "resolving"]
  /\ UNCHANGED flagged

\* Nothing matched, the lifecycle gate refused the model, or the caller only asked:
\* a lease taken on the way stays out.
RouteDiscarded(r) ==
  /\ stage[r] = "idle"
  /\ TakeLeases
  /\ UNCHANGED <<stage, at, left, flagged>>

\* The auth headers are there; modelClaimProbe is read from the claims.
Resolve(r) ==
  /\ stage[r] = "resolving"
  /\ stage' = [stage EXCEPT ![r] = "waiting"]
  /\ flagged' = [flagged EXCEPT ![r] =
                   {b \in left[r] \cup {at[r]} : claimQuarantined[b] /\ probing[b]}]
  /\ UNCHANGED <<leaseVars, at, left>>

-----------------------------------------------------------------------------
(* The candidate loop *)

\* The request ends.
Leave(r) ==
  /\ stage' = [stage EXCEPT ![r] = "idle"]
  /\ at' = [at EXCEPT ![r] = 0]
  /\ left' = [left EXCEPT ![r] = {}]
  /\ flagged' = [flagged EXCEPT ![r] = {}]

\* It goes to another candidate, or ends after the last.
GoOn(r) ==
  \/ /\ left[r] = {}
     /\ Leave(r)
  \/ \E b \in left[r] :
       /\ at' = [at EXCEPT ![r] = b]
       /\ left' = [left EXCEPT ![r] = @ \ {b}]
       /\ stage' = [stage EXCEPT ![r] = "waiting"]
       /\ UNCHANGED flagged

\* releaseModelClaimProbe(), by any request that was flagged.
Release(r) ==
  /\ probing' = IF at[r] \in flagged[r] THEN [probing EXCEPT ![at[r]] = FALSE] ELSE probing
  /\ expired' = IF at[r] \in flagged[r] THEN [expired EXCEPT ![at[r]] = FALSE] ELSE expired
  /\ UNCHANGED <<claimFailures, claimQuarantined, claimCooled>>

Dispatch(r) ==
  /\ stage[r] = "waiting"
  /\ stage' = [stage EXCEPT ![r] = "sent"]
  /\ UNCHANGED <<leaseVars, at, left, flagged>>

\* The preflight, a cooldown or the pool refuses the candidate.
RefusedLocally(r) ==
  /\ stage[r] = "waiting"
  /\ Release(r)
  /\ GoOn(r)

\* The request limit of the candidate's model refuses the body; no lease is given
\* back.
RefusedByLimit(r) ==
  /\ stage[r] = "waiting"
  /\ GoOn(r)
  /\ UNCHANGED leaseVars

\* The client disconnects while the request waits or is sent.
Cancelled(r) ==
  /\ stage[r] \in {"waiting", "sent"}
  /\ Release(r)
  /\ Leave(r)

\* recordModelClaimOutcome(): a 2xx clears the claim.
Succeeded(r) ==
  LET b == at[r] IN
  /\ stage[r] = "sent"
  /\ claimFailures' = [claimFailures EXCEPT ![b] = 0]
  /\ claimQuarantined' = [claimQuarantined EXCEPT ![b] = FALSE]
  /\ claimCooled' = [claimCooled EXCEPT ![b] = FALSE]
  /\ probing' = [probing EXCEPT ![b] = FALSE]
  /\ expired' = [expired EXCEPT ![b] = FALSE]
  /\ Leave(r)

Trips(n) == n >= ClaimThreshold

Counted(b) == IF claimFailures[b] < ClaimThreshold THEN claimFailures[b] + 1 ELSE ClaimThreshold

\* 404, 410 or 502: counted; at the threshold the cooldown starts, and starts again
\* with every further one.  The request may go on to another candidate.
FailedFast(r) ==
  LET b == at[r] n == Counted(b) IN
  /\ stage[r] = "sent"
  /\ claimFailures' = [claimFailures EXCEPT ![b] = n]
  /\ claimQuarantined' = [claimQuarantined EXCEPT ![b] = @ \/ Trips(n)]
  /\ claimCooled' = [claimCooled EXCEPT ![b] = @ /\ ~ Trips(n)]
  /\ probing' = [probing EXCEPT ![b] = FALSE]
  /\ expired' = [expired EXCEPT ![b] = FALSE]
  /\ Leave(r) \/ GoOn(r)

\* Any other status says nothing of the claim, but ends a probe, whoever ran it.
FailedOtherwise(r) ==
  LET b == at[r] IN
  /\ stage[r] = "sent"
  /\ claimCooled' = [claimCooled EXCEPT ![b] = @ /\ ~ probing[b]]
  /\ probing' = [probing EXCEPT ![b] = FALSE]
  /\ expired' = [expired EXCEPT ![b] = FALSE]
  /\ UNCHANGED <<claimFailures, claimQuarantined>>
  /\ Leave(r) \/ GoOn(r)

ClaimOutcome(r) == Succeeded(r) \/ FailedFast(r) \/ FailedOtherwise(r)

CooldownPasses(b) ==
  /\ claimQuarantined[b]
  /\ ~ claimCooled[b]
  /\ claimCooled' = [claimCooled EXCEPT ![b] = TRUE]
  /\ UNCHANGED <<claimFailures, claimQuarantined, probing, expired, stage, at, left, flagged>>

LeaseExpires(b) ==
  /\ probing[b]
  /\ ~ expired[b]
  /\ expired' = [expired EXCEPT ![b] = TRUE]
  /\ UNCHANGED <<claimFailures, claimQuarantined, claimCooled, probing, stage, at, left, flagged>>

ClaimNext ==
  \/ \E r \in ClaimRequests :
       \/ RouteClaims(r) \/ RouteDiscarded(r) \/ Resolve(r) \/ Dispatch(r)
       \/ RefusedLocally(r) \/ RefusedByLimit(r) \/ Cancelled(r) \/ ClaimOutcome(r)
  \/ \E b \in Claimers : CooldownPasses(b) \/ LeaseExpires(b)

ClaimSpec == ClaimInit /\ [][ClaimNext]_claimVars

\* Time passes, and whoever is routed moves on.
ClaimProgress ==
  /\ \A b \in Claimers :
       WF_claimVars(CooldownPasses(b)) /\ WF_claimVars(LeaseExpires(b))
  /\ \A r \in ClaimRequests :
       /\ WF_claimVars(RouteDiscarded(r))
       /\ WF_claimVars(Resolve(r))
       /\ WF_claimVars(RefusedLocally(r) \/ Dispatch(r))
       /\ WF_claimVars(ClaimOutcome(r))
\* Requests keep coming: not every one of them is discarded.
ClaimTraffic == \A r \in ClaimRequests : SF_claimVars(RouteClaims(r))

ClaimFairSpec == ClaimSpec /\ ClaimProgress /\ ClaimTraffic

-----------------------------------------------------------------------------
(* Properties *)

\* Every variable has its type.
ClaimTypeOK ==
  /\ claimFailures \in [Claimers -> 0 .. ClaimThreshold]
  /\ {claimQuarantined, claimCooled, probing, expired} \subseteq [Claimers -> BOOLEAN]
  /\ stage \in [ClaimRequests -> {"idle", "resolving", "waiting", "sent"}]
  /\ at \in [ClaimRequests -> 0 .. N]
  /\ {left, flagged} \subseteq [ClaimRequests -> SUBSET Claimers]

\* A claim is out exactly when its failures since the last success reached the
\* threshold, and only a claim that is out has a lease or a cooldown, however the
\* answers of overlapping requests come in.
ClaimEarned ==
  \A b \in Claimers :
    /\ claimQuarantined[b] <=> claimFailures[b] = ClaimThreshold
    /\ claimCooled[b] \/ probing[b] => claimQuarantined[b]
    /\ expired[b] => probing[b]

\* "one half-open recovery probe after cooldown, never ordinary traffic": a request
\* is routed to a quarantined claim only as the one that takes the lease, after the
\* cooldown and while nobody holds it.
NoTrafficWhileQuarantined ==
  [][ \A r \in ClaimRequests :
        stage[r] = "idle" /\ stage'[r] = "resolving" =>
          \A b \in left'[r] \cup {at'[r]} :
            claimQuarantined[b] => claimCooled[b] /\ ~ (probing[b] /\ ~ expired[b]) /\ probing'[b]
    ]_claimVars

\* When every claim of the model is quarantined it is probed again or comes back:
\* otherwise `it would never recover once quarantined`.
ClaimIsProbed ==
  Selectable = {} ~>
    Selectable # {} \/ \E r \in ClaimRequests : at[r] # 0 /\ stage[r] # "idle" /\ probing[at[r]]
=============================================================================
