---------------------------- MODULE BucketChain ----------------------------
(***************************************************************************)
(* resolveBucketCandidates(), src/src/proxy/router.mjs: the candidate      *)
(* chain of a request to a bucket, turn after turn of some conversations.  *)
(*                                                                         *)
(* Which members are routable changes around the requests; which backends  *)
(* are available, and which of them answer, is another choice for every    *)
(* turn.  The walk over the chain is RouteLoop's: here it is the first     *)
(* door that answers.                                                      *)
(*                                                                         *)
(* The picks are remembered in _bucketAffinity, a bounded Map whose        *)
(* entries have a lifetime (decision-cache.mjs).  Its key is the bucket    *)
(* with the x-session-id header or else the opening of the conversation,   *)
(* so that conversations that begin alike share an entry.                  *)
(***************************************************************************)
EXTENDS BucketPolicy

CONSTANTS Setups,          \* catalogs, each with a policy and the bucket addressed
          Claims,          \* Claims[id]: the backends that claim the id, by priority
          Backends,        \* Backends[b]: the provider and the trust zone of b
          Sessions,        \* conversations
          Keys,            \* the keys of the memory
          KeyOf,           \* bucketAffinityKey() of each conversation, a key or NoKey
          NoKey,           \* of a request with neither the header nor a user message
          AffinityEntries, \* maxEntries of _bucketAffinity
          AffinityTtl,     \* its ttlMs, in ticks
          Wishes,          \* the x-sk-prefer headers
          MaxTurns         \* bound: turns of all conversations

\* A scope of the policy.
IsScope(scope) == \A key \in DOMAIN scope : scope[key].enabled \in BOOLEAN /\ scope[key].weight \in Nat
\* A catalog lists an id once, mergeCatalog(), and the policy has no decision for a
\* request without a model.
ASSUME ChainAssumption ==
  /\ NoPick.id \notin ToSet(ModelOrder)
  /\ NoKey \notin Keys /\ KeyOf \in [Sessions -> Keys \cup {NoKey}]
  /\ AffinityEntries \in Nat \ {0} /\ AffinityTtl \in Nat \ {0}
  /\ \A wishes \in Wishes : wishes \in Seq(ToSet(wishes))
  /\ \A s \in Setups :
       /\ s.catalog \in Seq(ToSet(s.catalog))
       /\ \A i, j \in DOMAIN s.catalog : s.catalog[i].id = s.catalog[j].id => i = j
       /\ \A e \in ToSet(s.catalog) :
            /\ e.id \in ToSet(ModelOrder) /\ e.provider \in ToSet(ProviderOrder)
            /\ e.cost \in 0 .. 3 /\ {e.size, e.review.class} \subseteq Classes \cup {NoClass}
       /\ s.bucket.floor \in Classes
       /\ NoModel \notin DOMAIN s.policy.bucketModels \cup DOMAIN s.policy.models
       /\ IsScope(s.policy.bucketModels) /\ IsScope(s.policy.bucketProviders)
       /\ IsScope(s.policy.models) /\ IsScope(s.policy.providers)

VARIABLES setup,     \* the catalog, the policy and the bucket
          routable,  \* ids the lifecycle, capacity and the fences let through
          counter,   \* _bucketCounters
          order,     \* the keys in the Map, the one that goes first at the front
          entry,     \* entry[k]: the value of the key and the ticks it has left
          answered,  \* the conversations that have had an answer
          last       \* history: last[k] is the pick of the last turn under the key, the
                     \* ticks since, and the other keys that had a turn since the last
                     \* continued one

chainVars == <<setup, routable, counter, order, entry, answered, last>>

Ids(catalog) == {catalog[i].id : i \in DOMAIN catalog}
Names == DOMAIN Backends

ChainInit ==
  /\ setup \in Setups
  /\ routable = Ids(setup.catalog)
  /\ counter = 0
  /\ order = <<>>
  /\ entry = [k \in Keys |-> [pick |-> NoPick, left |-> 0]]
  /\ answered = {}
  /\ last = [k \in Keys |-> [pick |-> NoPick, age |-> AffinityTtl, others |-> {}]]

-----------------------------------------------------------------------------
(* createDecisionCache() as the memory of the picks *)

Live(k) == Contains(order, k) /\ entry[k].left > 0

\* get(): the value of an entry that is alive.
Recalled(k) == IF Live(k) THEN entry[k].pick ELSE NoPick

Place(k) == CHOOSE i \in DOMAIN order : order[i] = k

\* get(): a hit becomes the youngest and keeps its time, what has expired goes.
Looked(k) ==
  IF ~ Contains(order, k) THEN order
  ELSE IF Live(k) THEN Append(RemoveAt(order, Place(k)), k)
  ELSE RemoveAt(order, Place(k))

\* set(): a new key becomes the youngest, one that is there keeps its place; when
\* there are too many, the oldest goes.
Kept(keys, k) ==
  LET longer == IF Contains(keys, k) THEN keys ELSE Append(keys, k)
  IN IF Len(longer) > AffinityEntries THEN Tail(longer) ELSE longer

\* What is to be known of the keys after a turn under the key k, which picked the
\* member or none.
Noted(k, continued, pick) ==
  [key \in Keys |->
     IF key # k
     THEN [last[key] EXCEPT !.others = IF last[key].pick = NoPick THEN @ ELSE @ \cup {k}]
     ELSE IF pick = NoPick THEN last[key]
     ELSE [pick |-> pick, age |-> 0,
           others |-> IF continued THEN {} ELSE last[key].others]]

-----------------------------------------------------------------------------
\* The generic S, M and L buckets follow the weights, the others the cost.
Weighted(bucket) == Generic(bucket) /\ bucket.floor < 3

\* A preference of the caller reorders the provider whose turn it is.
WishedWithin(ordered, wishes) ==
  LET turn == {m \in ToSet(ordered) : m.provider = ordered[1].provider}
      own == Only(ordered, turn)
      rest == Only(ordered, ToSet(ordered) \ turn)
  IN IF ordered = <<>> THEN ordered ELSE ApplyPreference(own, wishes) \o rest

\* The members in the order in which they are asked.
Ordered(members, bucket, policy, n, wishes, memory) ==
  IF Weighted(bucket)
  THEN PreferRemembered(WishedWithin(OrderByWeight(members, policy, n), wishes), memory)
  ELSE LET picked == SelectMember(members, n, wishes, bucket.floor)
           first == PreferRemembered(<<picked>> \o Only(members, ToSet(members) \ {picked}), memory)[1]
       IN <<first>> \o Only(OrderForClass(members, bucket.floor, n), ToSet(members) \ {first})

\* route() for one member, filtered to its claimers: those that are available,
\* or all of them when nothing at all is.
DoorsOf(door, member, bucket) ==
  LET available == {b \in Names : door[b] # "down"}
      offered == IF available = {} THEN Claims[member.id]
                 ELSE Only(Claims[member.id], available)
      allowed == Only(offered, {b \in Names : RemoteOnly(bucket, Backends[b].provider)})
  IN [i \in DOMAIN allowed |-> [member |-> member.id, backend |-> allowed[i]]]

\* The chain has a door that answers.
Answers(door, ordered, bucket) ==
  \E m \in ToSet(ordered) : \E d \in ToSet(DoorsOf(door, m, bucket)) : door[d.backend] = "up"

PickOf(ordered) ==
  IF ordered = <<>> THEN NoPick ELSE [id |-> ordered[1].id, family |-> ordered[1].family]

\* One turn of a conversation.  Only one that continues an answered conversation
\* looks at the memory, and what goes into it is the member that was picked,
\* whoever serves.
Turn(s) ==
  LET k == KeyOf[s]
      continued == s \in answered
      looks == continued /\ k \in Keys
      memory == IF looks THEN Recalled(k) ELSE NoPick
      read == IF looks THEN Looked(k) ELSE order
  IN
  /\ counter < MaxTurns
  /\ counter' = counter + 1
  /\ \E wishes \in Wishes, tools \in BOOLEAN :
       LET members == Members(setup.catalog, routable, setup.bucket, tools)
       IN /\ members # <<>>
          /\ \E ordered \in {Ordered(members, setup.bucket, setup.policy, counter, wishes, memory)} :
               LET pick == PickOf(ordered)
                   keeps == k \in Keys /\ pick # NoPick
               IN /\ order' = IF keeps THEN Kept(read, k) ELSE read
                  /\ entry' = IF keeps THEN [entry EXCEPT ![k] = [pick |-> pick, left |-> AffinityTtl]] ELSE entry
                  /\ last' = IF k \in Keys THEN Noted(k, continued, pick) ELSE last
                  /\ \E door \in [Names -> {"up", "failing", "down"}] :
                       answered' = IF Answers(door, ordered, setup.bucket) THEN answered \cup {s} ELSE answered
  /\ UNCHANGED <<setup, routable>>

\* A member is throttled, quarantined or retired, or comes back.
EligibilityChanges ==
  /\ \E id \in Ids(setup.catalog) :
       routable' = IF id \in routable THEN routable \ {id} ELSE routable \cup {id}
  /\ UNCHANGED <<setup, counter, order, entry, answered, last>>

\* A tick of the time that the entries live.
TimePasses ==
  /\ \E k \in Keys : entry[k].left > 0
  /\ entry' = [k \in Keys |-> [entry[k] EXCEPT !.left = IF @ > 0 THEN @ - 1 ELSE 0]]
  /\ last' = [k \in Keys |-> [last[k] EXCEPT !.age = IF @ < AffinityTtl THEN @ + 1 ELSE @]]
  /\ UNCHANGED <<setup, routable, counter, order, answered>>

ChainNext ==
  \/ \E s \in Sessions : Turn(s)
  \/ EligibilityChanges
  \/ TimePasses

ChainSpec == ChainInit /\ [][ChainNext]_chainVars

-----------------------------------------------------------------------------

\* The members of the bucket, with those that can hold a tool call only or not.
Pool(tools) == Members(setup.catalog, routable, setup.bucket, tools)

\* "bounded provider tickets": over a cycle of the counter every provider of a
\* weighted bucket is at the head of the ticket order exactly as often as its weight
\* says, whichever members are eligible and however many models a provider has.
\* (A conversation's remembered member may then still go before it.)
WeightedShare ==
  LET members == Pool(FALSE)
      total == TotalWeight(members, setup.policy)
      first(n) == OrderByWeight(members, setup.policy, n)[1].provider
  IN Weighted(setup.bucket) /\ ~ Contradictory(members, setup.policy) =>
       \A i \in DOMAIN ProviderOrder :
         Cardinality({n \in 0 .. total - 1 : first(n) = ProviderOrder[i]})
           = ProviderWeight(members, setup.policy, ProviderOrder[i])

\* The last turn under the key picked something, its entry has not come to its end,
\* and fewer other keys than there are entries had a turn since it was continued.
Recent(k) ==
  /\ k \in Keys /\ last[k].pick # NoPick
  /\ last[k].age < AffinityTtl
  /\ Cardinality(last[k].others) < AffinityEntries

\* "keep one agent session on one bucket member": a conversation that has been
\* answered goes on with the member picked last under its key, by itself or by one
\* that began alike, as long as that is eligible: whatever the weights, the rotation
\* and the caller's preference say, for the lifetime of the entry, and unless so many
\* other conversations came in between that they fill the memory.
SessionKeepsItsPick ==
  [][\A s \in Sessions :
       LET k == KeyOf[s]
       IN s \in answered /\ Recent(k) /\ last[k].pick.id \in {m.id : m \in ToSet(Pool(TRUE))} =>
            last'[k].pick = last[k].pick \/ ~ Turn(s)]_chainVars

=============================================================================
