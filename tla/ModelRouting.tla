---------------------------- MODULE ModelRouting ----------------------------
(***************************************************************************)
(* Which backends a request for one model is given: route() and            *)
(* candidatesFor() of src/src/proxy/router.mjs.                            *)
(*                                                                         *)
(* The choice joins five pieces of state that change on their own: the     *)
(* registry with the model lists discovery writes into it, the health of   *)
(* each backend (BackendHealth), its claim of the model (ModelClaim), the  *)
(* lifecycle verdict (LifecycleRecord) and the turns of the balancer.      *)
(***************************************************************************)
EXTENDS Naturals, FiniteSets, SequencesExt

CONSTANTS Doors,           \* the backends, as configured
          DoorPriority,    \* priority, a function on Doors to 1, 2, ...
          LastPriority,    \* the last of them
          AdmissionGated,  \* those with require_observed_health
          Pure,            \* those with provider_purity
          Discovering,     \* those whose model list comes from discovery
          Restricted,      \* those whose allowed_agents leave the agent "guest" out
          FailoverEnabled,
          MaxChanges       \* bound: changes around the requests

ASSUME RoutingAssumption ==
  /\ IsFiniteSet(Doors)
  /\ LastPriority \in Nat
  /\ DoorPriority \in [Doors -> 1 .. LastPriority]
  /\ AdmissionGated \cup Pure \cup Discovering \cup Restricted \subseteq Doors
  /\ FailoverEnabled \in BOOLEAN
  /\ MaxChanges \in Nat

VARIABLES registry, \* the keys of `backends`, in insertion order
          lists,    \* what the model list of a backend says of the model
          health,   \* what isAvailable() finds
          claim,    \* the claim of the model
          verdict,  \* its lifecycle: routable, or condemned by a backend or by nobody
          turns,    \* _replicaBalancers for the model, by priority
          changes,  \* counted up to MaxChanges
          answer    \* the last request and what route() gave it

routingVars == <<registry, lists, health, claim, verdict, turns, changes, answer>>

Priorities == {DoorPriority[b] : b \in Doors}
Asks == [agent : {"trusted", "guest"}, expand : BOOLEAN, bootstrap : BOOLEAN]
Given(kind, doors) == [kind |-> kind, doors |-> doors]
NoAnswer == [kind |-> "none", doors |-> <<>>,
             ask |-> [agent |-> "trusted", expand |-> FALSE, bootstrap |-> FALSE]]

RoutingInit ==
  /\ registry = SetToSeq(Doors)
  /\ lists \in [Doors -> {"exact", "pattern", "other"}]
  /\ \A b \in Discovering : lists[b] = "other"
  /\ health = [b \in Doors |-> IF b \in AdmissionGated THEN "unknown" ELSE "up"]
  /\ claim = [b \in Doors |-> "ok"]
  /\ verdict = "routable"
  /\ turns = [p \in Priorities |-> 0]
  /\ changes = 0
  /\ answer = NoAnswer

-----------------------------------------------------------------------------
(* candidatesFor() *)

Registered == ToSet(registry)
SupportsModel(b) == lists[b] # "other"
AllowsAgent(b, ask) == ask.agent = "trusted" \/ b \notin Restricted
ClaimAvailable(b) == claim[b] = "ok"

\* Filters, and a stable sort by priority.
Among(doors, S) == FlattenSeq([i \in DOMAIN doors |-> IF doors[i] \in S THEN <<doors[i]>> ELSE <<>>])
GroupOf(doors, p) == Among(doors, {b \in Doors : DoorPriority[b] = p})
ByPriority(doors) == FlattenSeq([p \in 1 .. LastPriority |-> GroupOf(doors, p)])

Available(ask) ==
  Among(ByPriority(registry), {b \in Doors : health[b] = "up" /\ AllowsAgent(b, ask)})
FirstOf(doors) == IF doors = <<>> THEN <<>> ELSE <<doors[1]>>

Declared == {b \in Registered : SupportsModel(b)}
AdmissionOwners == {b \in Declared : b \in AdmissionGated /\ lists[b] = "exact"}
Held(S) == \A b \in S : ~ ClaimAvailable(b)
Due == {b \in Declared : claim[b] = "due"}

\* Claimers in rotation, or the one that takes a probe lease.
Matched(ask) ==
  LET doors == Among(Available(ask), {b \in Declared : ClaimAvailable(b)})
  IN IF doors # <<>> THEN doors ELSE FirstOf(Among(Available(ask), Due))
LeaseOf(ask) == ToSet(Matched(ask)) \cap Due
OwnerLease(ask) ==
  IF AdmissionOwners # {} /\ Held(AdmissionOwners)
  THEN FirstOf(Among(registry, (AdmissionOwners \cap Due) \ LeaseOf(ask))) ELSE <<>>

\* mutant: an owner that does not answer leaves the other claimers in.
OwnedMatchWidened(ask) ==
  IF Held(AdmissionOwners) THEN OwnerLease(ask)
  ELSE LET ready == Among(Available(ask), AdmissionOwners \cap {b \in Doors : ClaimAvailable(b)})
       IN IF ready = <<>> THEN Matched(ask) ELSE ready
\* Of a model with admission owners only they are taken; a bootstrap probe may go to
\* one that was never observed.
OwnedMatch(ask) ==
  IF Held(AdmissionOwners) THEN OwnerLease(ask)
  ELSE LET ready == Among(Available(ask), {b \in AdmissionOwners : ClaimAvailable(b)})
           unobserved == {b \in AdmissionOwners :
             health[b] = "unknown" /\ AllowsAgent(b, ask) /\ ClaimAvailable(b)}
       IN IF ready = <<>> /\ ask.bootstrap
          THEN FirstOf(Among(ByPriority(registry), unobserved)) ELSE ready

\* nextReplicaIndex() and the rotation of each group of equal priority; an index left
\* by a larger group changes nothing.
Turned(group, from) == SubSeq(group, from + 1, Len(group)) \o SubSeq(group, 1, from)
Balanced(doors) ==
  FlattenSeq([p \in 1 .. LastPriority |->
    IF p \in Priorities /\ turns[p] < Len(GroupOf(doors, p))
    THEN Turned(GroupOf(doors, p), turns[p]) ELSE GroupOf(doors, p)])
TurnsAfter(doors) ==
  [p \in Priorities |-> IF Len(GroupOf(doors, p)) > 1
                        THEN (turns[p] + 1) % Len(GroupOf(doors, p)) ELSE turns[p]]

Condemned == verdict # "routable"
\* mutant: a claimed model is not looked up.
NeverCondemns(doors) == FALSE
\* isEffectivelyRoutable(): the claimers are condemned only by the verdict of the one
\* there is.
CondemnsClaimers(doors) == verdict \in Doors /\ ToSet(doors) = {verdict}

\* Every declarer is down, and one of them is pure (while anything is available) or
\* must have been observed.
OwnerDown(ask) ==
  /\ \A b \in Declared : health[b] \in {"down", "unknown"}
  /\ \/ Available(ask) # <<>> /\ Declared \cap Pure # {}
     \/ Declared \cap AdmissionGated # {}

Unmatched(ask) ==
  IF Declared # {} /\ Held(Declared) THEN Given("claimQuarantined", <<>>)
  ELSE IF Condemned THEN Given("eolGated", <<>>)
  ELSE IF Declared # {} /\ ~ ask.expand /\ OwnerDown(ask) THEN Given("ownerDown", <<>>)
  ELSE Given("spray", Available(ask))

CandidatesFor(ask) ==
  LET owned == AdmissionOwners # {}
      doors == IF owned THEN OwnedMatch(ask) ELSE Matched(ask)
  IN IF doors # <<>> THEN IF CondemnsClaimers(doors) THEN Given("eolGated", <<>>)
                          ELSE Given("matched", Balanced(doors))
     ELSE IF owned /\ Held(AdmissionOwners) THEN Given("claimQuarantined", <<>>)
     ELSE IF owned THEN Given("ownerDown", <<>>)
     ELSE Unmatched(ask)

-----------------------------------------------------------------------------
(* route() *)

\* Nothing is available: every backend is tried, whatever the agent may use.
Everything == Given("everything", ByPriority(registry))
Results(given) ==
  IF FailoverEnabled THEN given ELSE [given EXCEPT !.doors = FirstOf(@)]

\* With no backend registered it throws.
Route ==
  /\ \E ask \in Asks :
       LET given == CandidatesFor(ask)
           chosen == IF registry = <<>> THEN Given("noBackends", <<>>)
                     ELSE IF given.kind = "spray" /\ given.doors = <<>> THEN Everything ELSE Results(given)
           leased == LeaseOf(ask) \cup ToSet(OwnerLease(ask))
           doors == IF AdmissionOwners # {} THEN OwnedMatch(ask) ELSE Matched(ask)
       IN /\ answer' = [kind |-> chosen.kind, doors |-> chosen.doors, ask |-> ask]
          /\ claim' = [b \in Doors |-> IF b \in leased THEN "probing" ELSE claim[b]]
          /\ turns' = TurnsAfter(doors)
  /\ UNCHANGED <<registry, lists, health, verdict, changes>>

-----------------------------------------------------------------------------
(* What changes around it; the answer is forgotten. *)

Change ==
  /\ changes < MaxChanges
  /\ changes' = changes + 1
  /\ answer' = NoAnswer

\* recordOutcome() and the cooldowns; health that must be observed starts unknown.
HealthChanges ==
  /\ \E b \in Registered, to \in {"up", "down", "quarantined"} : health' = [health EXCEPT ![b] = to]
  /\ Change
  /\ UNCHANGED <<registry, lists, claim, verdict, turns>>

\* recordModelClaimOutcome(), releaseModelClaimProbe() and the cooldown.
ClaimChanges ==
  /\ \E b \in Declared, to \in {"ok", "held", "due"} :
       /\ to = "due" => claim[b] # "ok"
       /\ claim' = [claim EXCEPT ![b] = to]
  /\ Change
  /\ UNCHANGED <<registry, lists, health, verdict, turns>>

VerdictChanges ==
  /\ verdict' \in {"routable", "nobody"} \cup Doors
  /\ Change
  /\ UNCHANGED <<registry, lists, health, claim, turns>>

\* registerDiscoveredModels(): the snapshot of the provider is replaced.
RegisterDiscovered ==
  /\ \E b \in Discovering \cap Registered, to \in {"exact", "other"} : lists' = [lists EXCEPT ![b] = to]
  /\ Change
  /\ UNCHANGED <<registry, health, claim, verdict, turns>>

\* removeBackend()
RemoveBackend ==
  /\ \E b \in Registered : registry' = Among(registry, Doors \ {b})
  /\ Change
  /\ UNCHANGED <<lists, health, claim, verdict, turns>>

\* addBackend(): a new backend with no history, in the place of the old one if any.
AddBackend ==
  /\ \E b \in Doors :
       /\ registry' = IF b \in Registered THEN registry ELSE Append(registry, b)
       /\ lists' = IF b \in Discovering THEN [lists EXCEPT ![b] = "other"] ELSE lists
       /\ health' = [health EXCEPT ![b] = IF b \in AdmissionGated THEN "unknown" ELSE "up"]
       /\ claim' = [claim EXCEPT ![b] = "ok"]
  /\ Change
  /\ UNCHANGED <<verdict, turns>>

RoutingNext ==
  \/ Route
  \/ HealthChanges
  \/ ClaimChanges
  \/ VerdictChanges
  \/ RegisterDiscovered
  \/ RemoveBackend
  \/ AddBackend

RoutingSpec == RoutingInit /\ [][RoutingNext]_routingVars

-----------------------------------------------------------------------------

\* "Ordinary traffic remains fail closed": a model that admission-gated backends
\* declare by name is answered by them or by nobody, whatever is down, quarantined,
\* probed or asked for; no other claimer and no fallback stands in.
OwnersAnswer == AdmissionOwners # {} => ToSet(answer.doors) \subseteq AdmissionOwners

\* A condemned model is tried only at a backend that claims it and, as long as more than
\* the first candidate is tried, never at the one alone that the verdict comes from,
\* through every fallback route() has.
DeadIsNotTried ==
  Condemned /\ answer.doors # <<>> =>
    /\ ToSet(answer.doors) \subseteq Declared
    /\ FailoverEnabled => verdict = "nobody" \/ ToSet(answer.doors) # {verdict}

\* "A quarantined claim must not turn into an unmatched-model spray": while a claim of
\* the model is quarantined, only backends that declare it are tried.
QuarantineDoesNotSpray ==
  answer.doors # <<>> /\ (\E b \in Declared : ~ ClaimAvailable(b)) => ToSet(answer.doors) \subseteq Declared

=============================================================================
