---------------------------- MODULE BucketPolicy ----------------------------
(***************************************************************************)
(* Who may serve a bucket and in which order, src/src/policy/buckets.mjs   *)
(* with generic-participation.mjs, sensitivity.mjs and                     *)
(* bucket-affinity.mjs.                                                    *)
(*                                                                         *)
(* A bucket is a class floor, a trust ceiling, possibly a provider, and    *)
(* whether only remote pools may serve it (sk-l-public).  An entry of the  *)
(* catalog has the data that decide: classes and zones are ranks, costs    *)
(* are the index of the tier with unknown ones last, a review is "passed"  *)
(* only while it is well formed, current and a pass.                       *)
(***************************************************************************)
EXTENDS Integers, SequencesExt

CONSTANTS ProviderOrder, \* the providers, sorted by name
          ModelOrder,    \* the models of all providers, sorted by id
          RemotePools    \* the providers sk-l-public admits

ASSUME PolicyAssumption ==
  /\ ProviderOrder \in Seq(ToSet(ProviderOrder)) /\ IsInjective(ProviderOrder)
  /\ ModelOrder \in Seq(ToSet(ModelOrder)) /\ IsInjective(ModelOrder)

NoClass == -1
Classes == 0 .. 3
Free == 1

Lower(a, b) == IF a < b THEN a ELSE b

\* filter()
Only(s, S) ==
  LET upTo[n \in 0 .. Len(s)] ==
        IF n = 0 THEN <<>> ELSE IF s[n] \in S THEN Append(upTo[n - 1], s[n]) ELSE upTo[n - 1]
  IN upTo[Len(s)]

-----------------------------------------------------------------------------
(* Eligibility *)

\* measuredClassCeiling(): what a failed measurement caps the class at.
Cap(e) == CASE e.toolCall = "fail" -> 0
            [] e.toolCall # "fail" /\ e.format = "fail" -> 1
            [] OTHER -> 3

\* effectiveClass(): the size, if known, under the ceiling.
EffectiveClass(e) ==
  IF e.size # NoClass THEN Lower(e.size, Cap(e))
  ELSE IF Cap(e) < 3 THEN Cap(e) ELSE NoClass

\* effectiveQualifiedClass() folded in by meetsClassFloor(): a reviewed entry
\* of a generic bucket.
ModelClass(e, generic) ==
  IF generic /\ e.review.reviewed
  THEN LET qualified == Lower(e.size, e.review.class)
       IN IF EffectiveClass(e) = NoClass THEN qualified ELSE Lower(qualified, EffectiveClass(e))
  ELSE EffectiveClass(e)

\* A review that failed, expired or is malformed, which includes one of an entry
\* without a size, excludes it.
Reviewed(e, generic) == generic /\ e.review.reviewed => e.review.passed /\ e.size # NoClass

\* meetsClassFloor(): an unknown class satisfies the lowest floor alone.
MeetsClassFloor(e, floor, generic) ==
  /\ Reviewed(e, generic)
  /\ LET class == ModelClass(e, generic)
     IN IF class = NoClass THEN floor = 0 ELSE class >= floor

\* toolUseEvidence(): a measurement before the card's claim.
ToolUse(e) == e.toolCall = "pass" \/ (e.toolCall = "none" /\ e.declaresTools)

\* publicLSubscriptionOwns()
RemoteOnly(bucket, provider) == bucket.remote => provider \in RemotePools

Generic(bucket) == bucket.provider = "any"

\* resolveBucket(): the members, each with the class it was admitted by.
Members(catalog, routable, bucket, tools) ==
  LET eligible(e) ==
        /\ Generic(bucket) \/ e.provider = bucket.provider
        /\ RemoteOnly(bucket, e.provider)
        /\ e.id \in routable
        /\ e.zone <= bucket.ceiling
        /\ MeetsClassFloor(e, bucket.floor, Generic(bucket))
        /\ tools => ToolUse(e)
      member(e) == [id |-> e.id, provider |-> e.provider, cost |-> e.cost, family |-> e.family,
                    class |-> ModelClass(e, Generic(bucket))]
  IN FlattenSeq([i \in DOMAIN catalog |-> IF eligible(catalog[i]) THEN <<member(catalog[i])>> ELSE <<>>])

-----------------------------------------------------------------------------
(* Order *)

Rotate(s, n) ==
  IF s = <<>> THEN s
  ELSE LET k == n % Len(s) IN SubSeq(s, k + 1, Len(s)) \o SubSeq(s, 1, k)

\* orderMembersByCost(): tier after tier, each rotated by the counter.
OrderByCost(members, n) ==
  FlattenSeq([t \in 1 .. 4 |-> Rotate(Only(members, {m \in ToSet(members) : m.cost = t - 1}), n)])

\* orderMembersForClass(): nearest class at or above the floor first; unknown
\* classes last.
OrderForClass(members, floor, n) ==
  LET distance(m) == IF m.class < floor THEN 4 ELSE m.class - floor
      byCost == OrderByCost(members, n)
  IN FlattenSeq([d \in 1 .. 5 |-> Only(byCost, {m \in ToSet(members) : distance(m) = d - 1})])

\* applyFamilyPreference().  "sovereign" is compared with the zone's number and
\* matches nothing.
Prefers(m, wish) == IF wish = "free" THEN m.cost = Free ELSE m.family = wish
ApplyPreference(members, wishes) ==
  LET seen(i) == {m \in ToSet(members) : \E j \in 1 .. i : Prefers(m, wishes[j])}
  IN FlattenSeq([i \in DOMAIN wishes |-> Only(members, seen(i) \ seen(i - 1))])
       \o Only(members, ToSet(members) \ seen(Len(wishes)))

TierInOrder(members, n) == members

\* selectMember(): the nearest class, of that the cheapest tier.
SelectMember(members, n, wishes, floor) ==
  LET ordered == OrderForClass(members, floor, n)
      closest == Only(ordered, {m \in ToSet(ordered) : m.class = ordered[1].class})
      cheapest == Only(closest, {m \in ToSet(closest) : m.cost = closest[1].cost})
  IN ApplyPreference(TierInOrder(cheapest, n), wishes)[1]

\* genericParticipationDecision(): the first scope of the policy that has one.
Decision(policy, provider, model) ==
  LET Of(scope, key) == IF key \in DOMAIN scope THEN <<scope[key]>> ELSE <<>>
  IN (Of(policy.bucketModels, model) \o Of(policy.bucketProviders, provider)
      \o Of(policy.models, model) \o Of(policy.providers, provider)
      \o <<[enabled |-> TRUE, weight |-> 1]>>)[1]

NoModel == 0

\* mutant: ties go to the earlier provider.
TicketUpTo(ticket, sum) == ticket <= sum
TicketBelow(ticket, sum) == ticket < sum

\* The decision of a bucket model or of a global model is the model's own, unless
\* a bucket provider comes between.
OwnWeight(policy, m) ==
  \/ m.id \in DOMAIN policy.bucketModels
  \/ m.id \in DOMAIN policy.models /\ m.provider \notin DOMAIN policy.bucketProviders

\* The members of a provider that take part, and those sorted by id.
TakesPart(policy, m) == LET d == Decision(policy, m.provider, m.id) IN d.enabled /\ d.weight > 0
Taking(members, policy, provider) ==
  {m \in ToSet(members) : m.provider = provider /\ TakesPart(policy, m)}
Participants(members, policy, provider) ==
  LET taking == Taking(members, policy, provider)
      ids == Only(ModelOrder, {m.id : m \in taking})
  IN [i \in DOMAIN ids |-> CHOOSE m \in taking : m.id = ids[i]]

\* The different weights the models of a provider are given.
ModelWeights(members, policy, provider) ==
  {Decision(policy, m.provider, m.id).weight :
     m \in {p \in Taking(members, policy, provider) : OwnWeight(policy, p)}}

ProviderWeight(members, policy, provider) ==
  LET own == ModelWeights(members, policy, provider)
      whole == Decision(policy, provider, NoModel)
  IN IF Taking(members, policy, provider) = {} \/ ~ whole.enabled THEN 0
     ELSE IF own = {} THEN whole.weight ELSE CHOOSE w \in own : TRUE

\* Two models of one provider with different weights leave the bucket empty.
Contradictory(members, policy) ==
  \E i \in DOMAIN ProviderOrder : Cardinality(ModelWeights(members, policy, ProviderOrder[i])) > 1

\* The tickets of the first i providers; one without weight holds none.
Tickets(members, policy) ==
  LET upTo[i \in 0 .. Len(ProviderOrder)] ==
        IF i = 0 THEN 0 ELSE upTo[i - 1] + ProviderWeight(members, policy, ProviderOrder[i])
  IN upTo
TotalWeight(members, policy) == Tickets(members, policy)[Len(ProviderOrder)]

\* orderMembersByGenericWeight(): the provider that holds the ticket, then the
\* others; the models of each rotated by the same counter.
OrderByWeight(members, policy, n) ==
  LET cursor == Tickets(members, policy)
      total == TotalWeight(members, policy)
      ticket == n % total
      selected == CHOOSE i \in DOMAIN ProviderOrder :
                    TicketBelow(ticket, cursor[i]) /\ \A j \in 1 .. i - 1 : ~ TicketBelow(ticket, cursor[j])
      taking == {p \in ToSet(ProviderOrder) : ProviderWeight(members, policy, p) > 0}
      turn == Only(Rotate(ProviderOrder, selected - 1), taking)
  IN IF Contradictory(members, policy) \/ total = 0 THEN <<>>
     ELSE FlattenSeq([i \in DOMAIN turn |-> Rotate(Participants(members, policy, turn[i]), n)])

-----------------------------------------------------------------------------
NoPick == [id |-> 0, family |-> "none"]

\* mutant: a relative will do.
PreferKin(members, remembered) ==
  LET kin == Only(members, {m \in ToSet(members) : m.family = remembered.family})
  IN IF kin = <<>> THEN members
     ELSE <<kin[1]>> \o Only(members, ToSet(members) \ {kin[1]})
\* preferRemembered(): the same model, else one of its family, moves to the front.
PreferRemembered(members, remembered) ==
  LET same == Only(members, {m \in ToSet(members) : m.id = remembered.id})
      kin == Only(members, {m \in ToSet(members) : m.family = remembered.family})
      first == IF same # <<>> THEN same ELSE IF remembered.family = "none" THEN <<>> ELSE kin
  IN IF first = <<>> THEN members
     ELSE <<first[1]>> \o Only(members, ToSet(members) \ {first[1]})
=============================================================================
