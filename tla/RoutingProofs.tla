---------------------------- MODULE RoutingProofs ----------------------------
(***************************************************************************)
(* Proofs about where a request goes:                                      *)
(*   ModelRouting, for any backends, priorities and gates, any order of    *)
(*     changes, and any verdict on the model;                              *)
(*   Dispatch, for any registry, catalog, settings and requests;           *)
(*   BucketChain, for any catalogs, policies, buckets, conversations and   *)
(*     wishes, any size and lifetime of the memory and any keys, and any   *)
(*     changes of eligibility.                                             *)
(***************************************************************************)
EXTENDS ModelRouting, Dispatch, BucketChain, LineLemmas, FiniteSetTheorems

-----------------------------------------------------------------------------
(* ModelRouting *)

RoutingTypes ==
  /\ registry \in Seq(Doors)
  /\ verdict \in {"routable", "nobody"} \cup Doors
  /\ turns \in [Priorities -> Nat]

\* What an answer that stands has to satisfy, whatever was asked for.
RoutingInv == RoutingTypes /\ OwnersAnswer /\ DeadIsNotTried

LEMMA AmongFacts ==
  ASSUME NEW T, NEW doors \in Seq(T), NEW S
  PROVE  Among(doors, S) \in Seq(T) /\ ToSet(Among(doors, S)) = ToSet(doors) \cap S
<1> DEFINE I == {i \in DOMAIN doors : doors[i] \in S}
<1>1. DOMAIN doors = 1 .. Len(doors)
  BY LenProperties
<1>2. Among(doors, S) = Picked(doors, I)
  BY DEF Among, Picked
<1>3. /\ Picked(doors, I) \in Seq(T)
      /\ ToSet(Picked(doors, I)) = {doors[i] : i \in I \cap (1 .. Len(doors))}
  BY PickedRange
<1>4. {doors[i] : i \in I \cap (1 .. Len(doors))} = ToSet(doors) \cap S
  BY <1>1 DEF ToSet
<1>5. QED
  BY <1>2, <1>3, <1>4

LEMMA FirstOfFacts ==
  ASSUME NEW T, NEW doors \in Seq(T)
  PROVE  FirstOf(doors) \in Seq(T) /\ ToSet(FirstOf(doors)) \subseteq ToSet(doors)
<1>1. CASE doors = <<>>
  BY <1>1 DEF FirstOf
<1>2. CASE doors # <<>>
  <2>1. Len(doors) \in Nat \ {0}
    BY <1>2, EmptySeq
  <2>2. 1 \in 1 .. Len(doors) /\ DOMAIN doors = 1 .. Len(doors)
    BY <2>1, LenProperties
  <2>3. doors[1] \in T /\ doors[1] \in ToSet(doors)
    BY <2>2, ElementOfSeq DEF ToSet
  <2>4. ToSet(<<doors[1]>>) = {doors[1]}
    BY DEF ToSet
  <2>5. QED
    BY <1>2, <2>3, <2>4 DEF FirstOf
<1>3. QED
  BY <1>1, <1>2

LEMMA PriorityOfDoor ==
  ASSUME NEW b \in Doors
  PROVE  DoorPriority[b] \in 1 .. LastPriority /\ DoorPriority[b] \in Priorities
BY RoutingAssumption DEF Priorities

\* Groups of equal priority, one after the other, are all the doors there were.
LEMMA GroupsFacts ==
  ASSUME NEW doors \in Seq(Doors), NEW groups \in Seq(Seq(Doors)), Len(groups) = LastPriority,
         \A p \in 1 .. LastPriority : ToSet(groups[p]) = ToSet(GroupOf(doors, p))
  PROVE  FlattenSeq(groups) \in Seq(Doors) /\ ToSet(FlattenSeq(groups)) = ToSet(doors)
<1>1. /\ FlattenSeq(groups) \in Seq(Doors)
      /\ ToSet(FlattenSeq(groups)) = UNION {ToSet(groups[p]) : p \in 1 .. LastPriority}
  BY FlattenRange
<1>2. \A p \in 1 .. LastPriority : ToSet(groups[p]) = ToSet(doors) \cap {b \in Doors : DoorPriority[b] = p}
  <2>1. ASSUME NEW p \in 1 .. LastPriority
        PROVE  ToSet(GroupOf(doors, p)) = ToSet(doors) \cap {b \in Doors : DoorPriority[b] = p}
    <3>1. \A S : ToSet(Among(doors, S)) = ToSet(doors) \cap S
      BY AmongFacts
    <3>2. QED
      BY <3>1 DEF GroupOf
  <2>2. QED
    BY <2>1
<1>3. ToSet(doors) \subseteq Doors
  BY RangeOf
<1>4. ASSUME NEW b \in ToSet(doors)
      PROVE  b \in UNION {ToSet(groups[p]) : p \in 1 .. LastPriority}
  BY <1>2, <1>3, PriorityOfDoor
<1>5. UNION {ToSet(groups[p]) : p \in 1 .. LastPriority} \subseteq ToSet(doors)
  BY <1>2
<1>6. QED
  BY <1>1, <1>4, <1>5

LEMMA GroupType ==
  ASSUME NEW doors \in Seq(Doors), NEW p
  PROVE  GroupOf(doors, p) \in Seq(Doors)
BY AmongFacts DEF GroupOf

LEMMA ByPriorityFacts ==
  ASSUME NEW doors \in Seq(Doors)
  PROVE  ByPriority(doors) \in Seq(Doors) /\ ToSet(ByPriority(doors)) = ToSet(doors)
<1> DEFINE groups == [p \in 1 .. LastPriority |-> GroupOf(doors, p)]
<1>1. LastPriority \in Nat
  BY RoutingAssumption
<1>2. groups \in Seq(Seq(Doors)) /\ Len(groups) = LastPriority
  <2>1. groups \in [1 .. LastPriority -> Seq(Doors)]
    BY GroupType
  <2>2. QED
    BY <1>1, <2>1
<1>3. \A p \in 1 .. LastPriority : ToSet(groups[p]) = ToSet(GroupOf(doors, p))
  OBVIOUS
<1> HIDE DEF groups
<1>4. FlattenSeq(groups) \in Seq(Doors) /\ ToSet(FlattenSeq(groups)) = ToSet(doors)
  BY <1>2, <1>3, GroupsFacts
<1>5. QED
  BY <1>4 DEF ByPriority, groups

LEMMA TurnedFacts ==
  ASSUME NEW group \in Seq(Doors), NEW from \in Nat, from < Len(group)
  PROVE  Turned(group, from) \in Seq(Doors) /\ ToSet(Turned(group, from)) = ToSet(group)
<1> DEFINE a == SubSeq(group, from + 1, Len(group))
           b == SubSeq(group, 1, from)
<1>0. /\ Len(group) \in Nat
      /\ \A i \in 1 .. Len(group) : group[i] \in Doors
  BY LenProperties, ElementOfSeq
<1>1. /\ a \in Seq(Doors) /\ Len(a) = Len(group) - from
      /\ \A i \in 1 .. Len(group) - from : a[i] = group[from + i]
  <2>1. /\ a \in Seq(Doors)
        /\ Len(a) = IF from + 1 <= Len(group) THEN Len(group) - (from + 1) + 1 ELSE 0
        /\ \A i \in 1 .. Len(group) - (from + 1) + 1 : a[i] = group[from + 1 + i - 1]
    BY <1>0, SubSeqProperties
  <2>2. QED
    BY <1>0, <2>1
<1>2. /\ b \in Seq(Doors) /\ Len(b) = from
      /\ \A i \in 1 .. from : b[i] = group[i]
  <2>1. /\ b \in Seq(Doors)
        /\ Len(b) = IF 1 <= from THEN from - 1 + 1 ELSE 0
        /\ \A i \in 1 .. from - 1 + 1 : b[i] = group[1 + i - 1]
    BY <1>0, SubSeqProperties
  <2>2. QED
    BY <1>0, <2>1
<1> HIDE DEF a, b
<1>3. a \o b \in Seq(Doors) /\ ToSet(a \o b) = ToSet(a) \cup ToSet(b)
  BY <1>1, <1>2, ConcatRange
<1>4. /\ ToSet(a) = {a[i] : i \in 1 .. Len(a)} /\ ToSet(b) = {b[i] : i \in 1 .. Len(b)}
      /\ ToSet(group) = {group[i] : i \in 1 .. Len(group)}
  BY <1>1, <1>2, RangeOf
<1>5. \A i \in 1 .. Len(a) : from + i \in 1 .. Len(group) /\ a[i] = group[from + i]
  BY <1>0, <1>1
<1>6. \A i \in 1 .. Len(b) : i \in 1 .. Len(group) /\ b[i] = group[i]
  BY <1>0, <1>2
<1>7. ASSUME NEW i \in 1 .. Len(group)
      PROVE  group[i] \in ToSet(a) \cup ToSet(b)
  <2>1. CASE i <= from
    BY <1>2, <1>4, <2>1
  <2>2. CASE ~ (i <= from)
    <3>1. i - from \in 1 .. Len(a) /\ from + (i - from) = i
      BY <1>0, <1>1, <2>2
    <3>2. QED
      BY <3>1, <1>4, <1>5
  <2>3. QED
    BY <2>1, <2>2
<1>8. ToSet(a) \subseteq ToSet(group) /\ ToSet(b) \subseteq ToSet(group)
  BY <1>4, <1>5, <1>6
<1>9. ToSet(group) \subseteq ToSet(a) \cup ToSet(b)
  BY <1>4, <1>7
<1>10. QED
  BY <1>3, <1>8, <1>9 DEF Turned, a, b

LEMMA BalancedFacts ==
  ASSUME RoutingTypes, NEW doors \in Seq(Doors)
  PROVE  Balanced(doors) \in Seq(Doors) /\ ToSet(Balanced(doors)) = ToSet(doors)
<1> DEFINE groups == [p \in 1 .. LastPriority |->
             IF p \in Priorities /\ turns[p] < Len(GroupOf(doors, p))
             THEN Turned(GroupOf(doors, p), turns[p]) ELSE GroupOf(doors, p)]
<1>1. LastPriority \in Nat
  BY RoutingAssumption
<1>2. ASSUME NEW p \in 1 .. LastPriority
      PROVE  groups[p] \in Seq(Doors) /\ ToSet(groups[p]) = ToSet(GroupOf(doors, p))
  <2>1. GroupOf(doors, p) \in Seq(Doors)
    BY GroupType
  <2>2. CASE p \in Priorities /\ turns[p] < Len(GroupOf(doors, p))
    <3>1. turns[p] \in Nat
      BY <2>2 DEF RoutingTypes
    <3>2. groups[p] = Turned(GroupOf(doors, p), turns[p])
      BY <2>2
    <3>3. QED
      BY <2>1, <2>2, <3>1, <3>2, TurnedFacts
  <2>3. CASE ~ (p \in Priorities /\ turns[p] < Len(GroupOf(doors, p)))
    <3>1. groups[p] = GroupOf(doors, p)
      BY <2>3
    <3>2. QED
      BY <2>1, <3>1
  <2>4. QED
    BY <2>2, <2>3
<1>3. groups \in Seq(Seq(Doors)) /\ Len(groups) = LastPriority
  <2>1. groups \in [1 .. LastPriority -> Seq(Doors)]
    BY <1>2
  <2>2. QED
    BY <1>1, <2>1
<1> HIDE DEF groups
<1>4. FlattenSeq(groups) \in Seq(Doors) /\ ToSet(FlattenSeq(groups)) = ToSet(doors)
  BY <1>2, <1>3, GroupsFacts
<1>5. QED
  BY <1>4 DEF Balanced, groups

LEMMA AvailableFacts ==
  ASSUME RoutingTypes, NEW ask
  PROVE  Available(ask) \in Seq(Doors)
<1>1. ByPriority(registry) \in Seq(Doors)
  BY ByPriorityFacts DEF RoutingTypes
<1>2. QED
  BY <1>1, AmongFacts DEF Available

\* Claimers in rotation, or the one with a lease: all of them declare the model.
LEMMA MatchedFacts ==
  ASSUME RoutingTypes, NEW ask
  PROVE  Matched(ask) \in Seq(Doors) /\ ToSet(Matched(ask)) \subseteq Declared
<1> DEFINE ready == Among(Available(ask), {b \in Declared : ClaimAvailable(b)})
           due == Among(Available(ask), Due)
<1>1. /\ ready \in Seq(Doors)
      /\ ToSet(ready) = ToSet(Available(ask)) \cap {b \in Declared : ClaimAvailable(b)}
  BY AvailableFacts, AmongFacts
<1>2. due \in Seq(Doors) /\ ToSet(due) = ToSet(Available(ask)) \cap Due
  BY AvailableFacts, AmongFacts
<1>3. Matched(ask) = IF ready # <<>> THEN ready ELSE FirstOf(due)
  BY DEF Matched
<1> HIDE DEF ready, due
<1>4. FirstOf(due) \in Seq(Doors) /\ ToSet(FirstOf(due)) \subseteq ToSet(due)
  BY <1>2, FirstOfFacts
<1>5. ToSet(ready) \subseteq Declared /\ ToSet(due) \subseteq Declared
  BY <1>1, <1>2 DEF Due
<1>6. QED
  BY <1>1, <1>3, <1>4, <1>5

LEMMA OwnerLeaseFacts ==
  ASSUME RoutingTypes, NEW ask
  PROVE  OwnerLease(ask) \in Seq(Doors) /\ ToSet(OwnerLease(ask)) \subseteq AdmissionOwners
<1> DEFINE due == Among(registry, (AdmissionOwners \cap Due) \ LeaseOf(ask))
<1>1. due \in Seq(Doors) /\ ToSet(due) \subseteq AdmissionOwners
  <2>1. due \in Seq(Doors) /\ ToSet(due) = ToSet(registry) \cap ((AdmissionOwners \cap Due) \ LeaseOf(ask))
    BY AmongFacts DEF RoutingTypes
  <2>2. QED
    BY <2>1
<1>2. <<>> \in Seq(Doors) /\ ToSet(<<>>) = {}
  BY DEF ToSet
<1>3. OwnerLease(ask) = IF AdmissionOwners # {} /\ Held(AdmissionOwners) THEN FirstOf(due) ELSE <<>>
  BY DEF OwnerLease
<1> HIDE DEF due
<1>4. QED
  BY <1>1, <1>2, <1>3, FirstOfFacts

\* Of a model with admission owners, nobody else is matched.
LEMMA OwnedMatchFacts ==
  ASSUME RoutingTypes, NEW ask
  PROVE  OwnedMatch(ask) \in Seq(Doors) /\ ToSet(OwnedMatch(ask)) \subseteq AdmissionOwners
<1> DEFINE ready == Among(Available(ask), {b \in AdmissionOwners : ClaimAvailable(b)})
           unobserved == {b \in AdmissionOwners :
             health[b] = "unknown" /\ AllowsAgent(b, ask) /\ ClaimAvailable(b)}
           first == FirstOf(Among(ByPriority(registry), unobserved))
<1>1. ready \in Seq(Doors) /\ ToSet(ready) \subseteq AdmissionOwners
  <2>1. /\ ready \in Seq(Doors)
        /\ ToSet(ready) = ToSet(Available(ask)) \cap {b \in AdmissionOwners : ClaimAvailable(b)}
    BY AvailableFacts, AmongFacts
  <2>2. QED
    BY <2>1
<1>2. first \in Seq(Doors) /\ ToSet(first) \subseteq AdmissionOwners
  <2>1. ByPriority(registry) \in Seq(Doors)
    BY ByPriorityFacts DEF RoutingTypes
  <2>2. /\ Among(ByPriority(registry), unobserved) \in Seq(Doors)
        /\ ToSet(Among(ByPriority(registry), unobserved)) = ToSet(ByPriority(registry)) \cap unobserved
    BY <2>1, AmongFacts
  <2>3. /\ first \in Seq(Doors)
        /\ ToSet(first) \subseteq ToSet(Among(ByPriority(registry), unobserved))
    BY <2>2, FirstOfFacts
  <2>4. unobserved \subseteq AdmissionOwners
    OBVIOUS
  <2>5. QED
    BY <2>2, <2>3, <2>4
<1>3. OwnedMatch(ask) = IF Held(AdmissionOwners) THEN OwnerLease(ask)
                        ELSE IF ready = <<>> /\ ask.bootstrap THEN first ELSE ready
  BY DEF OwnedMatch
<1> HIDE DEF ready, first
<1>4. QED
  BY <1>1, <1>2, <1>3, OwnerLeaseFacts

\* candidatesFor(), by what it may give when the model has owners and when it is
\* condemned.
LEMMA CandidatesFacts ==
  ASSUME RoutingTypes, NEW ask
  PROVE  /\ CandidatesFor(ask).doors \in Seq(Doors)
         /\ AdmissionOwners # {} => /\ CandidatesFor(ask).kind # "spray"
                                    /\ ToSet(CandidatesFor(ask).doors) \subseteq AdmissionOwners
         /\ Condemned => /\ CandidatesFor(ask).kind # "spray"
                         /\ ToSet(CandidatesFor(ask).doors) \subseteq Declared
                         /\ \/ CandidatesFor(ask).doors = <<>>
                            \/ verdict = "nobody"
                            \/ ToSet(CandidatesFor(ask).doors) # {verdict}
<1> DEFINE owned == AdmissionOwners # {}
           doors == IF owned THEN OwnedMatch(ask) ELSE Matched(ask)
           given == CandidatesFor(ask)
<1>1. doors \in Seq(Doors) /\ ToSet(doors) \subseteq Declared /\ (owned => ToSet(doors) \subseteq AdmissionOwners)
  BY MatchedFacts, OwnedMatchFacts DEF AdmissionOwners
<1>2. <<>> \in Seq(Doors) /\ ToSet(<<>>) = {}
  BY DEF ToSet
<1>3. given = IF doors # <<>>
              THEN IF CondemnsClaimers(doors) THEN Given("eolGated", <<>>) ELSE Given("matched", Balanced(doors))
              ELSE IF owned /\ Held(AdmissionOwners) THEN Given("claimQuarantined", <<>>)
              ELSE IF owned THEN Given("ownerDown", <<>>)
              ELSE Unmatched(ask)
  BY DEF CandidatesFor
<1> HIDE DEF doors, given
<1>4. CASE given.kind # "spray" /\ given.doors = <<>>
  BY <1>2, <1>4 DEF given
<1>5. CASE doors # <<>> /\ ~ CondemnsClaimers(doors)
  <2>1. given.kind = "matched" /\ given.doors = Balanced(doors)
    BY <1>3, <1>5 DEF Given
  <2>2. given.doors \in Seq(Doors) /\ ToSet(given.doors) = ToSet(doors)
    BY <1>1, <2>1, BalancedFacts
  <2>3. Condemned => verdict = "nobody" \/ ToSet(doors) # {verdict}
    BY <1>5 DEF CondemnsClaimers, Condemned, RoutingTypes
  <2>4. QED
    BY <1>1, <2>1, <2>2, <2>3 DEF given
<1>6. CASE doors = <<>> /\ ~ owned /\ given = Given("spray", Available(ask)) /\ ~ Condemned
  <2>1. given.doors = Available(ask)
    BY <1>6 DEF Given
  <2>2. QED
    BY <1>6, <2>1, AvailableFacts DEF given
<1>7. CASE doors = <<>> /\ ~ owned
  <2>1. \/ given \in {Given("claimQuarantined", <<>>), Given("eolGated", <<>>), Given("ownerDown", <<>>)}
        \/ given = Given("spray", Available(ask)) /\ ~ Condemned
    BY <1>3, <1>7 DEF Unmatched
  <2>2. CASE given \in {Given("claimQuarantined", <<>>), Given("eolGated", <<>>), Given("ownerDown", <<>>)}
    <3>1. given.kind # "spray" /\ given.doors = <<>>
      BY <2>2 DEF Given
    <3>2. QED
      BY <1>4, <3>1
  <2>3. QED
    BY <1>6, <1>7, <2>1, <2>2
<1>8. CASE (doors # <<>> /\ CondemnsClaimers(doors)) \/ (doors = <<>> /\ owned)
  <2>1. given \in {Given("claimQuarantined", <<>>), Given("eolGated", <<>>), Given("ownerDown", <<>>)}
    BY <1>3, <1>8
  <2>2. given.kind # "spray" /\ given.doors = <<>>
    BY <2>1 DEF Given
  <2>3. QED
    BY <1>4, <2>2
<1>9. QED
  BY <1>5, <1>7, <1>8

LEMMA RoutingStart == RoutingInit => RoutingInv
<1> SUFFICES ASSUME RoutingInit PROVE RoutingInv
  OBVIOUS
<1>1. SetToSeq(Doors) \in Seq(Doors)
  <2>1. Cardinality(Doors) \in Nat
    BY RoutingAssumption, FS_CardinalityType
  <2>2. \E f : f \in [1 .. Cardinality(Doors) -> Doors] /\ IsInjective(f)
    <3>1. PICK f : f \in Bijection(1 .. Cardinality(Doors), Doors)
      BY RoutingAssumption, FS_CardinalityType DEF ExistsBijection
    <3>2. f \in [1 .. Cardinality(Doors) -> Doors] /\ IsInjective(f)
      BY <3>1 DEF Bijection, Injection, IsInjective
    <3>3. QED
      BY <3>2
  <2>3. SetToSeq(Doors) \in [1 .. Cardinality(Doors) -> Doors]
    BY <2>2 DEF SetToSeq
  <2>4. QED
    BY <2>1, <2>3
<1>2. RoutingTypes
  BY <1>1 DEF RoutingInit, RoutingTypes
<1>3. answer.doors = <<>> /\ ToSet(<<>>) = {}
  BY DEF RoutingInit, NoAnswer, ToSet
<1>4. QED
  BY <1>2, <1>3 DEF RoutingInv, OwnersAnswer, DeadIsNotTried

\* What changes around the requests leaves no answer to be judged.
LEMMA ChangeKeeps ==
  ASSUME RoutingTypes', Change
  PROVE  RoutingInv'
<1>1. answer'.doors = <<>> /\ ToSet(<<>>) = {}
  BY DEF Change, NoAnswer, ToSet
<1>2. QED
  BY <1>1 DEF RoutingInv, OwnersAnswer, DeadIsNotTried

LEMMA RouteKeeps ==
  ASSUME RoutingTypes, Route
  PROVE  RoutingInv'
<1>1. PICK ask \in Asks :
        LET given == CandidatesFor(ask)
            chosen == IF registry = <<>> THEN Given("noBackends", <<>>)
                      ELSE IF given.kind = "spray" /\ given.doors = <<>> THEN Everything ELSE Results(given)
            doors == IF AdmissionOwners # {} THEN OwnedMatch(ask) ELSE Matched(ask)
        IN /\ answer' = [kind |-> chosen.kind, doors |-> chosen.doors, ask |-> ask]
           /\ turns' = TurnsAfter(doors)
  BY DEF Route
<1>2. UNCHANGED <<registry, lists, health, verdict, changes>>
  BY DEF Route
<1> DEFINE given == CandidatesFor(ask)
           chosen == IF registry = <<>> THEN Given("noBackends", <<>>)
                     ELSE IF given.kind = "spray" /\ given.doors = <<>> THEN Everything ELSE Results(given)
           doors == IF AdmissionOwners # {} THEN OwnedMatch(ask) ELSE Matched(ask)
<1>3. answer'.doors = chosen.doors /\ turns' = TurnsAfter(doors)
  BY <1>1
<1>4. doors \in Seq(Doors)
  BY MatchedFacts, OwnedMatchFacts
<1> HIDE DEF doors, chosen
<1>5. turns' \in [Priorities -> Nat]
  <2>1. ASSUME NEW p \in Priorities
        PROVE  (IF Len(GroupOf(doors, p)) > 1 THEN (turns[p] + 1) % Len(GroupOf(doors, p)) ELSE turns[p]) \in Nat
    <3>1. Len(GroupOf(doors, p)) \in Nat
      BY <1>4, GroupType, LenProperties
    <3>2. turns[p] \in Nat
      BY DEF RoutingTypes
    <3>3. QED
      BY <3>1, <3>2
  <2>2. QED
    BY <1>3, <2>1 DEF TurnsAfter
<1>6. RoutingTypes'
  BY <1>2, <1>5 DEF RoutingTypes
<1>7. /\ AdmissionOwners' = AdmissionOwners /\ Declared' = Declared /\ Condemned' = Condemned
  BY <1>2 DEF AdmissionOwners, Declared, Registered, SupportsModel, Condemned
<1>8. given.doors \in Seq(Doors)
  BY CandidatesFacts
<1>9. ASSUME AdmissionOwners # {} \/ Condemned
      PROVE  \/ chosen.doors = <<>>
             \/ chosen.doors = given.doors /\ FailoverEnabled
             \/ chosen.doors = FirstOf(given.doors) /\ ~ FailoverEnabled
  <2>1. given.kind # "spray"
    BY <1>9, CandidatesFacts
  <2>2. chosen \in {Given("noBackends", <<>>), Results(given)}
    BY <2>1 DEF chosen
  <2>3. Given("noBackends", <<>>).doors = <<>>
    BY DEF Given
  <2>4. \E kind, list : given = [kind |-> kind, doors |-> list]
    BY DEF CandidatesFor, Unmatched, Given
  <2>5. Results(given).doors = IF FailoverEnabled THEN given.doors ELSE FirstOf(given.doors)
    BY <2>4 DEF Results
  <2>6. QED
    BY <2>2, <2>3, <2>5
<1>10. ToSet(FirstOf(given.doors)) \subseteq ToSet(given.doors) /\ ToSet(<<>>) = {}
  <2>1. ToSet(<<>>) = {}
    BY DEF ToSet
  <2>2. QED
    BY <1>8, <2>1, FirstOfFacts
<1>11. AdmissionOwners # {} => ToSet(chosen.doors) \subseteq AdmissionOwners
  BY <1>9, <1>10, CandidatesFacts
<1>12. OwnersAnswer'
  BY <1>3, <1>7, <1>11 DEF OwnersAnswer
<1>13. Condemned /\ chosen.doors # <<>> =>
         /\ ToSet(chosen.doors) \subseteq Declared
         /\ FailoverEnabled => verdict = "nobody" \/ ToSet(chosen.doors) # {verdict}
  BY <1>9, <1>10, CandidatesFacts
<1>14. DeadIsNotTried'
  BY <1>2, <1>3, <1>7, <1>13 DEF DeadIsNotTried
<1>15. QED
  BY <1>6, <1>12, <1>14 DEF RoutingInv

LEMMA RoutingStep == RoutingInv /\ [RoutingNext]_routingVars => RoutingInv'
<1> SUFFICES ASSUME RoutingInv, [RoutingNext]_routingVars
             PROVE  RoutingInv'
  OBVIOUS
<1>0. RoutingTypes
  BY DEF RoutingInv
<1>1. CASE Route
  BY <1>0, <1>1, RouteKeeps
<1>2. CASE HealthChanges
  BY <1>0, <1>2, ChangeKeeps DEF HealthChanges, RoutingTypes
<1>3. CASE ClaimChanges
  BY <1>0, <1>3, ChangeKeeps DEF ClaimChanges, RoutingTypes
<1>4. CASE VerdictChanges
  BY <1>0, <1>4, ChangeKeeps DEF VerdictChanges, RoutingTypes
<1>5. CASE RegisterDiscovered
  BY <1>0, <1>5, ChangeKeeps DEF RegisterDiscovered, RoutingTypes
<1>6. CASE RemoveBackend
  <2>1. PICK b \in Registered : registry' = Among(registry, Doors \ {b})
    BY <1>6 DEF RemoveBackend
  <2>2. registry' \in Seq(Doors)
    BY <1>0, <2>1, AmongFacts DEF RoutingTypes
  <2>3. QED
    BY <1>0, <1>6, <2>2, ChangeKeeps DEF RemoveBackend, RoutingTypes
<1>7. CASE AddBackend
  <2>1. PICK b \in Doors : registry' = IF b \in Registered THEN registry ELSE Append(registry, b)
    BY <1>7 DEF AddBackend
  <2>2. registry' \in Seq(Doors)
    BY <1>0, <2>1, AppendProperties DEF RoutingTypes
  <2>3. QED
    BY <1>0, <1>7, <2>2, ChangeKeeps DEF AddBackend, RoutingTypes
<1>8. CASE UNCHANGED routingVars
  BY <1>8 DEF routingVars, RoutingInv, RoutingTypes, OwnersAnswer, DeadIsNotTried, AdmissionOwners, Declared,
              Registered, SupportsModel, Condemned
<1>9. QED
  BY <1>1, <1>2, <1>3, <1>4, <1>5, <1>6, <1>7, <1>8 DEF RoutingNext

THEOREM RoutingCorrect == RoutingSpec => []RoutingInv
BY RoutingStart, RoutingStep, PTL DEF RoutingSpec

\* candidatesFor() and route(), for any backends and any history of changes: a model that
\* admission-gated backends declare by name is answered by one of them or by nobody.
THEOREM OwnersOrNobody == RoutingSpec => []OwnersAnswer
<1>1. RoutingInv => OwnersAnswer
  BY DEF RoutingInv
<1>2. QED
  BY <1>1, RoutingCorrect, PTL

\* isEffectivelyRoutable() in candidatesFor(), through every fallback of route(): a
\* condemned model is tried at backends that claim it only, and not at the one alone that
\* condemned it.
THEOREM DeadStaysUntried == RoutingSpec => []DeadIsNotTried
<1>1. RoutingInv => DeadIsNotTried
  BY DEF RoutingInv
<1>2. QED
  BY <1>1, RoutingCorrect, PTL

-----------------------------------------------------------------------------
(* Dispatch *)

AsRead == [doc |-> file.doc, stamp |-> file.stamp]

StampsOK ==
  /\ file.stamp \in Nat /\ loaded.stamp \in Nat /\ catalog.stamp \in Nat
  /\ loaded.stamp <= file.stamp

\* A kept decision is not from the future; if the epoch it is kept under is that of the
\* registry that was read last, it was made from it; and no decision was made since the
\* file was written without reading it.
RoleSound(d) ==
  /\ d.epoch \in Nat /\ d.epoch <= file.stamp
  /\ d.epoch = loaded.stamp => d.role \in loaded.doc.difficulty[d.prompt]
  /\ file.readable /\ d.epoch >= file.stamp => loaded = AsRead
PickSound(d) ==
  /\ d.epoch \in Nat /\ d.epoch <= Larger(file.stamp, catalog.stamp)
  /\ d.epoch = Larger(loaded.stamp, catalog.stamp) =>
       ToSet(d.picks) \subseteq MatchCatalog \cap Fits(loaded.doc, d.role)
  /\ file.readable /\ d.epoch >= file.stamp => loaded = AsRead

DispatchInv ==
  /\ StampsOK
  /\ \A d \in roleFor : RoleSound(d)
  /\ \A d \in picksFor : PickSound(d)

LEMMA FreshCases ==
  ASSUME StampsOK
  PROVE  /\ file.readable => Fresh = AsRead
         /\ ~ file.readable => Fresh = loaded
         /\ Fresh.stamp \in Nat /\ Fresh.stamp <= file.stamp
BY DEF Fresh, AsRead, StampsOK

LEMMA LargerFacts ==
  ASSUME NEW i \in Nat, NEW j \in Nat
  PROVE  Larger(i, j) \in Nat /\ i <= Larger(i, j) /\ j <= Larger(i, j) /\ Larger(i, j) \in {i, j}
BY DEF Larger

LEMMA RolesAreCurrent ==
  ASSUME StampsOK, NEW d, RoleSound(d), d.epoch = RegistryEpoch
  PROVE  d.role \in Fresh.doc.difficulty[d.prompt]
<1>1. CASE file.readable
  <2>1. Fresh = AsRead /\ d.epoch = file.stamp
    BY <1>1, FreshCases DEF RegistryEpoch, AsRead
  <2>2. loaded = AsRead
    BY <1>1, <2>1 DEF RoleSound, StampsOK
  <2>3. QED
    BY <2>1, <2>2 DEF RoleSound, AsRead
<1>2. CASE ~ file.readable
  BY <1>2, FreshCases DEF RoleSound, RegistryEpoch
<1>3. QED
  BY <1>1, <1>2

LEMMA PicksAreCurrent ==
  ASSUME StampsOK, NEW d, PickSound(d), d.epoch = MatchEpoch
  PROVE  ToSet(d.picks) \subseteq MatchCatalog \cap Fits(Fresh.doc, d.role)
<1>1. CASE file.readable
  <2>1. Fresh = AsRead /\ Fresh.stamp = file.stamp
    BY <1>1, FreshCases DEF AsRead
  <2>2. d.epoch >= file.stamp
    <3>1. d.epoch = Larger(file.stamp, catalog.stamp)
      BY <2>1 DEF MatchEpoch
    <3>2. file.stamp \in Nat /\ catalog.stamp \in Nat
      BY DEF StampsOK
    <3>3. file.stamp <= Larger(file.stamp, catalog.stamp)
      BY <3>2, LargerFacts
    <3>4. QED
      BY <3>1, <3>3
  <2>3. loaded = AsRead
    BY <1>1, <2>2 DEF PickSound
  <2>4. QED
    BY <2>1, <2>3 DEF PickSound, MatchEpoch
<1>2. CASE ~ file.readable
  BY <1>2, FreshCases DEF PickSound, MatchEpoch
<1>3. QED
  BY <1>1, <1>2

LEMMA SoundIsCurrent == DispatchInv => DecisionsAreCurrent
BY RolesAreCurrent, PicksAreCurrent DEF DispatchInv, DecisionsAreCurrent

\* What Ranked() picks is listed and fits the role.
LEMMA RankedFacts ==
  ASSUME NEW role
  PROVE  ToSet(Ranked(role)) \subseteq MatchCatalog \cap Fits(Fresh.doc, role)
<1> DEFINE fit == (MatchCatalog \cap Fits(Fresh.doc, role)) \ out
           I == {i \in DOMAIN Scored : Scored[i] \in fit}
           chain == FlattenSeq([i \in DOMAIN Scored |-> IF Scored[i] \in fit THEN <<Scored[i]>> ELSE <<>>])
           Models == ToSet(Scored)
<1>1. Scored \in Seq(Models) /\ TopK \in Nat \ {0}
  BY DispatchAssumption
<1>2. chain = Picked(Scored, I)
  BY DEF Picked
<1> HIDE DEF Models, I, chain
<1>3. chain \in Seq(Models) /\ ToSet(chain) = {Scored[i] : i \in I \cap (1 .. Len(Scored))}
  BY <1>1, <1>2, PickedRange
<1>4. ToSet(chain) \subseteq fit
  BY <1>3 DEF I
<1>5. Ranked(role) = IF Len(chain) > TopK THEN SubSeq(chain, 1, TopK) ELSE chain
  BY DEF Ranked, chain
<1> HIDE DEF fit
<1>6. CASE Len(chain) > TopK
  <2>1. Len(chain) \in Nat /\ \A i \in 1 .. Len(chain) : chain[i] \in Models
    BY <1>3, LenProperties, ElementOfSeq
  <2>2. \A i \in 1 .. TopK : i \in 1 .. Len(chain)
    BY <1>1, <1>6, <2>1
  <2> DEFINE b == SubSeq(chain, 1, TopK)
  <2>3. /\ b \in Seq(Models)
        /\ Len(b) = IF 1 <= TopK THEN TopK - 1 + 1 ELSE 0
        /\ \A i \in 1 .. TopK - 1 + 1 : b[i] = chain[1 + i - 1]
    BY <1>1, <2>1, <2>2, SubSeqProperties
  <2> HIDE DEF b
  <2>4. Len(b) = TopK /\ \A i \in 1 .. TopK : b[i] = chain[i]
    BY <1>1, <2>3
  <2>5. ToSet(b) = {b[i] : i \in 1 .. TopK} /\ ToSet(chain) = {chain[i] : i \in 1 .. Len(chain)}
    BY <1>3, <2>3, <2>4, RangeOf
  <2>6. ToSet(b) \subseteq ToSet(chain)
    BY <2>2, <2>4, <2>5
  <2>7. QED
    BY <1>4, <1>5, <1>6, <2>6 DEF b, fit
<1>7. CASE ~ (Len(chain) > TopK)
  BY <1>4, <1>5, <1>7 DEF fit
<1>8. QED
  BY <1>6, <1>7

\* What a request adds to the caches: a decision of this epoch, made from what is
\* there now.
NewRole(d) == d.epoch = RegistryEpoch /\ d.role \in Fresh.doc.difficulty[d.prompt]
NewPick(d) == d.epoch = MatchEpoch /\ ToSet(d.picks) \subseteq MatchCatalog \cap Fits(Fresh.doc, d.role)
RolesFollow == \A d \in roleFor' : d \in roleFor \/ NewRole(d)
PicksFollow == \A d \in picksFor' : d \in picksFor \/ NewPick(d)

LEMMA MatchFollows ==
  ASSUME NEW ask, NEW named, NEW role, ArriveMatch(ask, named, role)
  PROVE  PicksFollow
<1>1. CASE ~ settings.match
  BY <1>1 DEF ArriveMatch, ArriveByName, PicksFollow
<1>2. CASE settings.match
  <2> DEFINE d == PicksFor(role, ask)
  <2>1. picksFor' = {kept \in picksFor : kept.epoch = d.epoch} \cup {d}
    BY <1>2 DEF ArriveMatch
  <2>2. d \in picksFor \/ NewPick(d)
    <3>1. CASE PicksKept(role, ask) # {}
      <4>1. d \in PicksKept(role, ask)
        BY <3>1 DEF PicksFor
      <4>2. QED
        BY <4>1 DEF PicksKept
    <3>2. CASE PicksKept(role, ask) = {}
      <4>1. d = [role |-> role, prompt |-> ask.prompt, epoch |-> MatchEpoch, picks |-> Ranked(role)]
        BY <3>2 DEF PicksFor
      <4>2. d.role = role /\ d.epoch = MatchEpoch /\ d.picks = Ranked(role)
        BY <4>1
      <4>3. QED
        BY <4>2, RankedFacts DEF NewPick
    <3>3. QED
      BY <3>1, <3>2
  <2> HIDE DEF d
  <2>3. QED
    BY <2>1, <2>2 DEF PicksFollow
<1>3. QED
  BY <1>1, <1>2

LEMMA ResolvedFollows ==
  ASSUME NEW ask, NEW named, NEW reg, ArriveResolved(ask, named, reg)
  PROVE  PicksFollow
<1>1. CASE reg.kind = "match"
  BY <1>1, MatchFollows DEF ArriveResolved
<1>2. CASE reg.kind = "nothing"
  BY <1>2 DEF ArriveResolved, ArriveByName, PicksFollow
<1>3. CASE reg.kind \notin {"match", "nothing"}
  BY <1>3 DEF ArriveResolved, PicksFollow
<1>4. QED
  BY <1>1, <1>2, <1>3

LEMMA RolesForFacts ==
  ASSUME NEW ask, NEW d \in RolesFor(ask)
  PROVE  d \in roleFor \/ NewRole(d)
<1>1. CASE RolesKept(ask) # {}
  BY <1>1 DEF RolesFor, RolesKept
<1>2. CASE RolesKept(ask) = {}
  <2>1. PICK role \in Fresh.doc.difficulty[ask.prompt] :
          d = [prompt |-> ask.prompt, epoch |-> RegistryEpoch, role |-> role]
    BY <1>2 DEF RolesFor
  <2>2. d.prompt = ask.prompt /\ d.epoch = RegistryEpoch /\ d.role = role
    BY <2>1
  <2>3. QED
    BY <2>2 DEF NewRole
<1>3. QED
  BY <1>1, <1>2

LEMMA ArriveFollows ==
  ASSUME NEW ask, Arrive(ask)
  PROVE  RolesFollow /\ PicksFollow /\ loaded' = Fresh /\ UNCHANGED <<file, catalog>>
<1> DEFINE named == Renamed(Fresh.doc, ask)
           reg == Resolve(Fresh.doc, named)
<1>1. loaded' = Fresh /\ UNCHANGED <<file, catalog>>
  BY DEF Arrive, aroundVars
<1>2. \/ ArriveExact(ask)
      \/ ArriveBucket(ask, named)
      \/ ArriveMisspelt(ask, named)
      \/ ArriveByName(ask, named) /\ UNCHANGED roleFor
      \/ ArriveAuto(ask, named)
      \/ ArriveResolved(ask, named, reg) /\ UNCHANGED roleFor
  BY DEF Arrive
<1> HIDE DEF named, reg
<1>3. CASE ArriveExact(ask)
  BY <1>1, <1>3 DEF ArriveExact, RolesFollow, PicksFollow
<1>4. CASE ArriveBucket(ask, named)
  BY <1>1, <1>4 DEF ArriveBucket, RolesFollow, PicksFollow
<1>5. CASE ArriveMisspelt(ask, named)
  BY <1>1, <1>5 DEF ArriveMisspelt, RolesFollow, PicksFollow
<1>6. CASE ArriveByName(ask, named) /\ UNCHANGED roleFor
  BY <1>1, <1>6 DEF ArriveByName, RolesFollow, PicksFollow
<1>7. CASE ArriveAuto(ask, named)
  <2>1. PICK d \in RolesFor(ask) :
          /\ roleFor' = {kept \in roleFor : kept.epoch = d.epoch} \cup {d}
          /\ ArriveResolved(ask, named, Resolve(Fresh.doc, [ask EXCEPT !.context = None, !.service = None,
                                                                       !.role = d.role, !.model = None]))
    BY <1>7 DEF ArriveAuto
  <2>2. PicksFollow
    BY <2>1, ResolvedFollows
  <2>3. RolesFollow
    BY <2>1, RolesForFacts DEF RolesFollow
  <2>4. QED
    BY <1>1, <2>2, <2>3
<1>8. CASE ArriveResolved(ask, named, reg) /\ UNCHANGED roleFor
  BY <1>1, <1>8, ResolvedFollows DEF RolesFollow
<1>9. QED
  BY <1>2, <1>3, <1>4, <1>5, <1>6, <1>7, <1>8

LEMMA ArriveKeeps ==
  ASSUME DispatchInv, NEW ask, Arrive(ask)
  PROVE  DispatchInv'
<1>1. RolesFollow /\ PicksFollow /\ loaded' = Fresh /\ UNCHANGED <<file, catalog>>
  BY ArriveFollows
<1>2. StampsOK
  BY DEF DispatchInv
<1>3. StampsOK'
  BY <1>1, <1>2, FreshCases DEF StampsOK
<1>4. file.readable => loaded' = AsRead /\ AsRead' = AsRead
  BY <1>1, <1>2, FreshCases DEF AsRead
<1>5. Fresh.stamp \in Nat /\ Fresh.stamp <= file.stamp /\ file.stamp \in Nat /\ catalog.stamp \in Nat
  BY <1>2, FreshCases DEF StampsOK
<1>6. ASSUME NEW d \in roleFor'
      PROVE  RoleSound(d)'
  <2>1. d.epoch \in Nat /\ d.epoch <= file.stamp
    <3>1. CASE d \in roleFor
      BY <3>1 DEF DispatchInv, RoleSound
    <3>2. CASE NewRole(d)
      BY <1>5, <3>2 DEF NewRole, RegistryEpoch
    <3>3. QED
      BY <1>1, <3>1, <3>2 DEF RolesFollow
  <2>2. d.epoch = RegistryEpoch => d.role \in Fresh.doc.difficulty[d.prompt]
    <3>1. CASE d \in roleFor
      BY <1>2, <3>1, RolesAreCurrent DEF DispatchInv
    <3>2. CASE NewRole(d)
      BY <3>2 DEF NewRole
    <3>3. QED
      BY <1>1, <3>1, <3>2 DEF RolesFollow
  <2>3. QED
    BY <1>1, <1>4, <2>1, <2>2 DEF RoleSound, RegistryEpoch
<1>7. ASSUME NEW d \in picksFor'
      PROVE  PickSound(d)'
  <2>1. d.epoch \in Nat /\ d.epoch <= Larger(file.stamp, catalog.stamp)
    <3>1. CASE d \in picksFor
      BY <3>1 DEF DispatchInv, PickSound
    <3>2. CASE NewPick(d)
      <4>1. d.epoch = Larger(Fresh.stamp, catalog.stamp)
        BY <3>2 DEF NewPick, MatchEpoch
      <4>2. QED
        BY <1>5, <4>1 DEF Larger
    <3>3. QED
      BY <1>1, <3>1, <3>2 DEF PicksFollow
  <2>2. d.epoch = MatchEpoch => ToSet(d.picks) \subseteq MatchCatalog \cap Fits(Fresh.doc, d.role)
    <3>1. CASE d \in picksFor
      BY <1>2, <3>1, PicksAreCurrent DEF DispatchInv
    <3>2. CASE NewPick(d)
      BY <3>2 DEF NewPick
    <3>3. QED
      BY <1>1, <3>1, <3>2 DEF PicksFollow
  <2>3. MatchCatalog' = MatchCatalog
    BY <1>1 DEF MatchCatalog, Known, Discovered
  <2>4. d.epoch = Larger(loaded'.stamp, catalog.stamp) =>
          ToSet(d.picks) \subseteq MatchCatalog' \cap Fits(loaded'.doc, d.role)
    BY <1>1, <2>2, <2>3 DEF MatchEpoch
  <2>5. QED
    BY <1>1, <1>4, <2>1, <2>4 DEF PickSound
<1>8. QED
  BY <1>3, <1>6, <1>7 DEF DispatchInv

\* A file that is written gets a stamp that no decision has seen.
LEMMA StampFacts ==
  ASSUME StampsOK
  PROVE  /\ Stamp \in Nat /\ file.stamp < Stamp /\ catalog.stamp < Stamp
         /\ \A n \in Nat : n <= Larger(file.stamp, catalog.stamp) => n < Stamp
<1>1. Larger(file.stamp, catalog.stamp) \in Nat
  BY LargerFacts DEF StampsOK
<1>2. file.stamp <= Larger(file.stamp, catalog.stamp) /\ catalog.stamp <= Larger(file.stamp, catalog.stamp)
  BY LargerFacts DEF StampsOK
<1>3. Stamp = Larger(file.stamp, catalog.stamp) + 1
  BY DEF Stamp
<1>4. QED
  BY <1>1, <1>2, <1>3 DEF StampsOK

LEMMA EditKeeps == DispatchInv /\ EditRegistry => DispatchInv'
<1> SUFFICES ASSUME DispatchInv, EditRegistry PROVE DispatchInv'
  OBVIOUS
<1>1. PICK doc \in Documents : file' = [readable |-> TRUE, doc |-> doc, stamp |-> Stamp]
  BY DEF EditRegistry
<1>2. UNCHANGED <<loaded, catalog, roleFor, picksFor>>
  BY DEF EditRegistry
<1>3. StampsOK
  BY DEF DispatchInv
<1>4. file'.stamp = Stamp /\ Stamp \in Nat /\ file.stamp < Stamp /\ catalog.stamp < Stamp
  BY <1>1, <1>3, StampFacts
<1>5. StampsOK'
  BY <1>2, <1>3, <1>4 DEF StampsOK
<1>6. ASSUME NEW d \in roleFor
      PROVE  RoleSound(d)'
  <2>1. RoleSound(d)
    BY DEF DispatchInv
  <2>2. d.epoch \in Nat /\ d.epoch < Stamp
    BY <1>3, <1>4, <2>1 DEF RoleSound, StampsOK
  <2>3. d.epoch <= file'.stamp /\ ~ (d.epoch >= file'.stamp)
    BY <1>4, <2>2
  <2>4. QED
    BY <1>2, <2>1, <2>3 DEF RoleSound
<1>7. ASSUME NEW d \in picksFor
      PROVE  PickSound(d)'
  <2>1. PickSound(d)
    BY DEF DispatchInv
  <2>2. d.epoch \in Nat /\ d.epoch < Stamp
    BY <1>3, <2>1, StampFacts DEF PickSound
  <2>3. d.epoch <= Larger(file'.stamp, catalog.stamp) /\ ~ (d.epoch >= file'.stamp)
    BY <1>3, <1>4, <2>2 DEF Larger, StampsOK
  <2>4. MatchCatalog' = MatchCatalog
    BY <1>2 DEF MatchCatalog, Known, Discovered
  <2>5. QED
    BY <1>2, <2>1, <2>3, <2>4 DEF PickSound
<1>8. QED
  BY <1>2, <1>5, <1>6, <1>7 DEF DispatchInv

LEMMA CatalogKeeps == DispatchInv /\ CatalogWritten => DispatchInv'
<1> SUFFICES ASSUME DispatchInv, CatalogWritten PROVE DispatchInv'
  OBVIOUS
<1>1. PICK rows \in Catalogs : catalog' = [rows |-> rows, stamp |-> Stamp]
  BY DEF CatalogWritten
<1>2. UNCHANGED <<file, loaded, roleFor, picksFor>>
  BY DEF CatalogWritten
<1>3. StampsOK
  BY DEF DispatchInv
<1>4. catalog'.stamp = Stamp /\ Stamp \in Nat /\ file.stamp < Stamp
  BY <1>1, <1>3, StampFacts
<1>5. StampsOK'
  BY <1>2, <1>3, <1>4 DEF StampsOK
<1>6. ASSUME NEW d \in roleFor
      PROVE  RoleSound(d)'
  BY <1>2 DEF DispatchInv, RoleSound, AsRead
<1>7. ASSUME NEW d \in picksFor
      PROVE  PickSound(d)'
  <2>1. PickSound(d)
    BY DEF DispatchInv
  <2>2. d.epoch \in Nat /\ d.epoch < Stamp
    BY <1>3, <2>1, StampFacts DEF PickSound
  <2>3. d.epoch <= Larger(file.stamp, catalog'.stamp) /\ d.epoch # Larger(loaded.stamp, catalog'.stamp)
    BY <1>3, <1>4, <2>2 DEF Larger, StampsOK
  <2>4. AsRead' = AsRead
    BY <1>2 DEF AsRead
  <2>5. QED
    BY <1>2, <2>1, <2>3, <2>4 DEF PickSound
<1>8. QED
  BY <1>2, <1>5, <1>6, <1>7 DEF DispatchInv

\* Nothing else touches the stamps, and decisions only leave.
LEMMA OthersKeep ==
  ASSUME DispatchInv, UNCHANGED <<loaded, catalog>>, file'.doc = file.doc, file'.stamp = file.stamp,
         file'.readable => file.readable, roleFor' \subseteq roleFor, picksFor' \subseteq picksFor
  PROVE  DispatchInv'
<1>1. StampsOK'
  BY DEF DispatchInv, StampsOK
<1>2. AsRead' = AsRead /\ MatchCatalog' = MatchCatalog
  BY DEF AsRead, MatchCatalog, Known, Discovered
<1>3. ASSUME NEW d \in roleFor'
      PROVE  RoleSound(d)'
  <2>1. RoleSound(d)
    BY <1>3 DEF DispatchInv
  <2>2. QED
    BY <1>2, <2>1 DEF RoleSound
<1>4. ASSUME NEW d \in picksFor'
      PROVE  PickSound(d)'
  <2>1. PickSound(d)
    BY <1>4 DEF DispatchInv
  <2>2. QED
    BY <1>2, <2>1 DEF PickSound
<1>5. QED
  BY <1>1, <1>3, <1>4 DEF DispatchInv

LEMMA DispatchStart == DispatchInit => DispatchInv
<1> SUFFICES ASSUME DispatchInit PROVE DispatchInv
  OBVIOUS
<1>1. file.stamp = 1 /\ loaded.stamp = 0 /\ catalog.stamp = 0
  BY DEF DispatchInit
<1>2. roleFor = {} /\ picksFor = {}
  BY DEF DispatchInit
<1>3. QED
  BY <1>1, <1>2 DEF DispatchInv, StampsOK

LEMMA DispatchStep == DispatchInv /\ [DispatchNext]_dispatchVars => DispatchInv'
<1> SUFFICES ASSUME DispatchInv, [DispatchNext]_dispatchVars
             PROVE  DispatchInv'
  OBVIOUS
<1>1. CASE \E ask \in Requests : Arrive(ask)
  BY <1>1, ArriveKeeps
<1>2. CASE \E healthy \in BOOLEAN : LocalVerdict(healthy)
  BY <1>2, OthersKeep DEF LocalVerdict, aroundVars
<1>3. CASE EditRegistry
  BY <1>3, EditKeeps
<1>4. CASE RegistryUnreadable
  <2>1. file' = [file EXCEPT !.readable = FALSE] /\ UNCHANGED <<loaded, catalog, roleFor, picksFor>>
    BY <1>4 DEF RegistryUnreadable
  <2>2. file.readable
    BY <1>4 DEF RegistryUnreadable
  <2>3. file'.doc = file.doc /\ file'.stamp = file.stamp
    BY <2>1
  <2>4. QED
    BY <2>1, <2>2, <2>3, OthersKeep
<1>5. CASE CatalogWritten
  BY <1>5, CatalogKeeps
<1>6. CASE ModelChanges
  BY <1>6, OthersKeep DEF ModelChanges
<1>7. CASE SettingsChange
  BY <1>7, OthersKeep DEF SettingsChange
<1>8. CASE DecisionExpires
  <2>1. roleFor' \subseteq roleFor /\ picksFor' \subseteq picksFor /\ UNCHANGED <<loaded, aroundVars>>
    BY <1>8 DEF DecisionExpires
  <2>2. QED
    BY <2>1, OthersKeep DEF aroundVars
<1>9. CASE UNCHANGED dispatchVars
  BY <1>9, OthersKeep DEF dispatchVars
<1>10. QED
  BY <1>1, <1>2, <1>3, <1>4, <1>5, <1>6, <1>7, <1>8, <1>9 DEF DispatchNext

THEOREM DispatchCorrect == DispatchSpec => []DispatchInv
BY DispatchStart, DispatchStep, PTL DEF DispatchSpec

\* _autoDecisionCache and _matchDecisionCache, for any registries, catalogs and requests,
\* with edits, refreshes and a file that cannot be read in between: a decision that a
\* lookup would find now is one that the registry and the catalog of now allow.
THEOREM DecisionsStayCurrent == DispatchSpec => []DecisionsAreCurrent
BY DispatchCorrect, SoundIsCurrent, PTL

-----------------------------------------------------------------------------
(* BucketPolicy and BucketChain *)

LEMMA FirstInRange ==
  ASSUME NEW T, NEW s \in Seq(T)
  PROVE  /\ s = <<>> <=> ToSet(s) = {}
         /\ s # <<>> => s[1] \in ToSet(s) /\ s[1] \in T
<1>1. Len(s) \in Nat /\ DOMAIN s = 1 .. Len(s) /\ ToSet(s) = {s[i] : i \in 1 .. Len(s)} /\ ToSet(s) \subseteq T
  BY LenProperties, RangeOf
<1>2. CASE s = <<>>
  BY <1>2 DEF ToSet
<1>3. CASE s # <<>>
  <2>1. 1 \in 1 .. Len(s)
    BY <1>1, <1>3, EmptySeq
  <2>2. QED
    BY <1>1, <1>3, <2>1
<1>4. QED
  BY <1>2, <1>3

LEMMA OnlyPicks ==
  ASSUME NEW T, NEW s \in Seq(T), NEW S
  PROVE  /\ Only(s, S) \in Seq(T)
         /\ \E h : PicksBy(Only(s, S), h, s, {i \in DOMAIN s : s[i] \in S}, Len(s))
<1> DEFINE final == Len(s)
           I == {i \in DOMAIN s : s[i] \in S}
           Next(n, p) == IF s[n] \in S THEN Append(p, s[n]) ELSE p
           step == [x \in Nat \X Seq(T) |-> IF x[1] \in 1 .. final THEN Next(x[1], x[2]) ELSE <<>>]
           Solved(f) == f = [n \in 0 .. final |-> IF n = 0 THEN <<>>
                                                 ELSE IF s[n] \in S THEN Append(f[n - 1], s[n]) ELSE f[n - 1]]
<1>1. final \in Nat /\ DOMAIN s = 1 .. final /\ \A n \in 1 .. final : s[n] \in T
  BY LenProperties, ElementOfSeq
<1>2. \A n \in 1 .. final, p \in Seq(T) : Next(n, p) \in Seq(T)
  <2>1. SUFFICES ASSUME NEW n \in 1 .. final, NEW p \in Seq(T)
                 PROVE  Next(n, p) \in Seq(T)
    OBVIOUS
  <2>2. s[n] \in T
    BY <1>1
  <2>3. Append(p, s[n]) \in Seq(T)
    BY <2>2, AppendProperties
  <2>4. QED
    BY <2>3
<1> HIDE DEF final, Next
<1>3. <<>> \in Seq(T)
  BY EmptySeq
<1>4. step \in [Nat \X Seq(T) -> Seq(T)]
  BY <1>2, <1>3
<1>5. PICK f : Recurs(f, Seq(T), <<>>, step, final)
  <2> HIDE DEF step
  <2>1. QED
    BY <1>1, <1>3, <1>4, Recursion, Zenon
<1>6. Solved(f)
  <2>1. /\ f \in [0 .. final -> Seq(T)] /\ f[0] = <<>>
        /\ \A n \in 1 .. final : f[n] = step[<<n, f[n - 1]>>]
    BY <1>5 DEF Recurs
  <2>2. \A n \in 1 .. final : f[n] = Next(n, f[n - 1])
    <3>1. SUFFICES ASSUME NEW n \in 1 .. final
                   PROVE  f[n] = Next(n, f[n - 1])
      OBVIOUS
    <3>2. f[n - 1] \in Seq(T) /\ n \in Nat
      BY <1>1, <2>1
    <3>3. step[<<n, f[n - 1]>>] = Next(n, f[n - 1])
      BY <3>2
    <3> HIDE DEF step
    <3>4. QED
      BY <2>1, <3>3
  <2> HIDE DEF step
  <2>3. \A n \in 0 .. final : n = 0 \/ n \in 1 .. final
    BY <1>1
  <2>4. QED
    BY <2>1, <2>2, <2>3 DEF Next
<1> DEFINE upTo == CHOOSE x : Solved(x)
<1>7. Solved(upTo)
  <2> HIDE DEF Solved
  <2>1. QED
    BY <1>6
<1>8. Only(s, S) = upTo[final]
  BY DEF Only, final
<1> HIDE DEF upTo
<1>9. upTo[0] = <<>> /\ \A n \in 1 .. final : upTo[n] = Next(n, upTo[n - 1])
  <2>1. 0 \in 0 .. final /\ \A n \in 1 .. final : n \in 0 .. final /\ n # 0
    BY <1>1
  <2>2. \A n \in 0 .. final :
          upTo[n] = IF n = 0 THEN <<>> ELSE IF s[n] \in S THEN Append(upTo[n - 1], s[n]) ELSE upTo[n - 1]
    BY <1>7, Zenon
  <2>3. QED
    BY <2>1, <2>2 DEF Next
<1> HIDE DEF Solved
<1> DEFINE Fine == {n \in Nat : n \in 0 .. final => upTo[n] \in Seq(T) /\ \E h : PicksBy(upTo[n], h, s, I, n)}
<1>10. 0 \in Fine
  <2> DEFINE none == [j \in 1 .. 0 |-> 0]
  <2>1. PicksBy(<<>>, none, s, I, 0)
    <3>1. Len(<<>>) = 0
      OBVIOUS
    <3>2. \A j \in 1 .. 0 : FALSE
      OBVIOUS
    <3>3. none \in [1 .. 0 -> 1 .. 0]
      BY <3>2, Zenon
    <3> HIDE DEF none, I
    <3>4. QED
      BY <3>1, <3>2, <3>3 DEF PicksBy
  <2>2. QED
    BY <1>3, <1>9, <2>1
<1>11. ASSUME NEW n \in Nat, n \in Fine
       PROVE  n + 1 \in Fine
  <2>1. SUFFICES ASSUME n + 1 \in 0 .. final
                 PROVE  upTo[n + 1] \in Seq(T) /\ \E h : PicksBy(upTo[n + 1], h, s, I, n + 1)
    <3> HIDE DEF I, final
    <3>1. QED
      BY DEF Fine
  <2>2. n \in 0 .. final /\ n + 1 \in 1 .. final /\ (n + 1) - 1 = n
    BY <1>1, <2>1
  <2>3. upTo[n] \in Seq(T) /\ upTo[n + 1] = Next(n + 1, upTo[n])
    BY <1>9, <1>11, <2>2
  <2>4. PICK h : PicksBy(upTo[n], h, s, I, n)
    BY <1>11, <2>2
  <2>5. n + 1 \in I <=> s[n + 1] \in S
    BY <1>1, <2>2
  <2> DEFINE p == upTo[n]
  <2>6. p \in Seq(T) /\ PicksBy(p, h, s, I, n) /\ n + 1 \in 1 .. Len(s)
    BY <2>2, <2>3, <2>4 DEF final
  <2> HIDE DEF p, I
  <2>7. \E g : PicksBy(p \o (IF n + 1 \in I THEN <<s[n + 1]>> ELSE <<>>), g, s, I, n + 1)
    BY <2>6, PickOneMore
  <2>8. s[n + 1] \in T
    BY <1>1, <2>2
  <2>9. p \o <<s[n + 1]>> = Append(p, s[n + 1]) /\ p \o <<>> = p
    BY <2>6, <2>8, AppendBehind, ConcatEmptySeq
  <2>10. Next(n + 1, p) = p \o (IF n + 1 \in I THEN <<s[n + 1]>> ELSE <<>>)
    BY <2>5, <2>9 DEF Next
  <2>11. QED
    BY <1>2, <2>2, <2>3, <2>7, <2>10 DEF p
<1> HIDE DEF Fine
<1>12. Nat \subseteq Fine
  BY <1>10, <1>11, NatSetInduction
<1>13. final \in Fine /\ final \in 0 .. final
  BY <1>1, <1>12
<1>14. upTo[final] \in Seq(T) /\ \E h : PicksBy(upTo[final], h, s, I, final)
  BY <1>13 DEF Fine
<1>15. QED
  BY <1>8, <1>14 DEF final

LEMMA OnlyFacts ==
  ASSUME NEW T, NEW s \in Seq(T), NEW S
  PROVE  Only(s, S) \in Seq(T) /\ ToSet(Only(s, S)) = ToSet(s) \cap S
<1> DEFINE I == {i \in DOMAIN s : s[i] \in S}
           p == Only(s, S)
<1>1. DOMAIN s = 1 .. Len(s)
  BY LenProperties
<1>2. p \in Seq(T) /\ \E h : PicksBy(p, h, s, I, Len(s))
  BY OnlyPicks
<1>3. {s[i] : i \in I \cap (1 .. Len(s))} = ToSet(s) \cap S
  BY <1>1 DEF ToSet
<1> HIDE DEF I, p
<1>4. ToSet(p) = {s[i] : i \in I \cap (1 .. Len(s))}
  BY <1>2, PicksRange
<1>5. QED
  BY <1>2, <1>3, <1>4 DEF p

LEMMA RotateFacts ==
  ASSUME NEW T, NEW s \in Seq(T), NEW n \in Nat
  PROVE  Rotate(s, n) \in Seq(T) /\ ToSet(Rotate(s, n)) = ToSet(s)
<1>1. CASE s = <<>>
  BY <1>1 DEF Rotate
<1>2. CASE s # <<>>
  <2> DEFINE k == n % Len(s)
             p == SubSeq(s, k + 1, Len(s))
             q == SubSeq(s, 1, k)
  <2>1. Len(s) \in Nat \ {0}
    BY <1>2, LenProperties, EmptySeq
  <2>2. k \in 0 .. Len(s) - 1
    BY <2>1
  <2>3. Rotate(s, n) = p \o q
    BY <1>2 DEF Rotate
  <2> HIDE DEF k
  <2>4. /\ p \in Seq(T) /\ Len(p) = Len(s) - k /\ \A i \in 1 .. Len(s) - k : p[i] = s[k + i]
        /\ q \in Seq(T) /\ Len(q) = k /\ \A i \in 1 .. k : q[i] = s[i]
    <3>1. \A i \in 1 .. Len(s) : s[i] \in T
      BY ElementOfSeq
    <3>2. /\ \A i \in k + 1 .. Len(s) : s[i] \in T
          /\ \A i \in 1 .. k : s[i] \in T
      BY <2>1, <2>2, <3>1
    <3>3. /\ p \in Seq(T)
          /\ Len(p) = IF k + 1 <= Len(s) THEN Len(s) - (k + 1) + 1 ELSE 0
          /\ \A i \in 1 .. Len(s) - (k + 1) + 1 : p[i] = s[k + 1 + i - 1]
      BY <2>1, <2>2, <3>2, SubSeqProperties
    <3>4. /\ q \in Seq(T)
          /\ Len(q) = IF 1 <= k THEN k - 1 + 1 ELSE 0
          /\ \A i \in 1 .. k - 1 + 1 : q[i] = s[1 + i - 1]
      BY <2>1, <2>2, <3>2, SubSeqProperties
    <3> HIDE DEF p, q
    <3>5. Len(p) = Len(s) - k
      BY <2>1, <2>2, <3>3
    <3>6. Len(q) = k
      BY <2>2, <3>4
    <3>7. ASSUME NEW i \in 1 .. Len(s) - k
          PROVE  p[i] = s[k + i]
      <4>1. i \in 1 .. Len(s) - (k + 1) + 1 /\ k + 1 + i - 1 = k + i
        BY <2>1, <2>2
      <4>2. p[i] = s[k + 1 + i - 1]
        BY <3>3, <4>1
      <4>3. QED
        BY <4>1, <4>2
    <3>8. ASSUME NEW i \in 1 .. k
          PROVE  q[i] = s[i]
      <4>1. i \in 1 .. k - 1 + 1 /\ 1 + i - 1 = i
        BY <2>2
      <4>2. q[i] = s[1 + i - 1]
        BY <3>4, <4>1
      <4>3. QED
        BY <4>1, <4>2
    <3>9. QED
      BY <3>3, <3>4, <3>5, <3>6, <3>7, <3>8
  <2> HIDE DEF p, q
  <2>5. ToSet(p) = {p[i] : i \in 1 .. Len(p)} /\ ToSet(q) = {q[i] : i \in 1 .. Len(q)}
        /\ ToSet(s) = {s[i] : i \in 1 .. Len(s)}
    BY <2>4, RangeOf
  <2>6. ToSet(p) = {s[i] : i \in k + 1 .. Len(s)}
    <3>1. ASSUME NEW i \in 1 .. Len(s) - k
          PROVE  k + i \in k + 1 .. Len(s) /\ p[i] = s[k + i]
      <4>1. k + i \in k + 1 .. Len(s)
        BY <2>1, <2>2
      <4>2. p[i] = s[k + i]
        BY <2>4
      <4>3. QED
        BY <4>1, <4>2
    <3>2. ASSUME NEW i \in k + 1 .. Len(s)
          PROVE  i - k \in 1 .. Len(s) - k /\ p[i - k] = s[i]
      <4>1. i - k \in 1 .. Len(s) - k /\ k + (i - k) = i
        BY <2>1, <2>2
      <4>2. QED
        BY <2>4, <4>1
    <3>3. ToSet(p) = {p[i] : i \in 1 .. Len(s) - k}
      BY <2>4, <2>5
    <3>4. ASSUME NEW x \in ToSet(p)
          PROVE  x \in {s[i] : i \in k + 1 .. Len(s)}
      <4>1. PICK i \in 1 .. Len(s) - k : x = p[i]
        BY <3>3
      <4>2. QED
        BY <3>1, <4>1
    <3>5. ASSUME NEW i \in k + 1 .. Len(s)
          PROVE  s[i] \in ToSet(p)
      BY <3>2, <3>3
    <3>6. QED
      BY <3>4, <3>5
  <2>7. ToSet(q) = {s[i] : i \in 1 .. k}
    BY <2>4, <2>5
  <2>8. ToSet(p) \cup ToSet(q) = ToSet(s)
    <3>1. \A i : i \in 1 .. Len(s) <=> i \in k + 1 .. Len(s) \/ i \in 1 .. k
      BY <2>1, <2>2
    <3>2. ASSUME NEW i \in 1 .. Len(s)
          PROVE  s[i] \in ToSet(p) \cup ToSet(q)
      BY <2>6, <2>7, <3>1
    <3>3. ASSUME NEW i \in k + 1 .. Len(s)
          PROVE  s[i] \in ToSet(s)
      BY <2>5, <3>1
    <3>4. ASSUME NEW i \in 1 .. k
          PROVE  s[i] \in ToSet(s)
      BY <2>5, <3>1
    <3>5. ToSet(s) \subseteq ToSet(p) \cup ToSet(q)
      BY <2>5, <3>2
    <3>6. ToSet(p) \subseteq ToSet(s)
      BY <2>6, <3>3
    <3>7. ToSet(q) \subseteq ToSet(s)
      BY <2>7, <3>4
    <3>8. QED
      BY <3>5, <3>6, <3>7
  <2>9. p \in Seq(T) /\ q \in Seq(T)
    BY <2>4
  <2>10. p \o q \in Seq(T) /\ ToSet(p \o q) = ToSet(p) \cup ToSet(q)
    BY <2>9, ConcatRange
  <2>11. QED
    BY <2>3, <2>8, <2>10
<1>3. QED
  BY <1>1, <1>2

\* Entries as a catalog has them, each with an id of its own.
Sound(T) ==
  /\ \A m \in T : /\ m.id \in ToSet(ModelOrder) /\ m.provider \in ToSet(ProviderOrder)
                  /\ m.cost \in 0 .. 3 /\ m.class \in -1 .. 3
  /\ \A a, b \in T : a.id = b.id => a = b

LEMMA ByCostFacts ==
  ASSUME NEW T, Sound(T), NEW members \in Seq(T), NEW n \in Nat
  PROVE  OrderByCost(members, n) \in Seq(T) /\ ToSet(OrderByCost(members, n)) = ToSet(members)
<1> DEFINE Tier(t) == {m \in ToSet(members) : m.cost = t - 1}
           Line(t) == Rotate(Only(members, Tier(t)), n)
           seqs == [t \in 1 .. 4 |-> Line(t)]
<1>1. ASSUME NEW t \in 1 .. 4
      PROVE  Line(t) \in Seq(T) /\ ToSet(Line(t)) = Tier(t)
  <2>1. Only(members, Tier(t)) \in Seq(T) /\ ToSet(Only(members, Tier(t))) = ToSet(members) \cap Tier(t)
    BY OnlyFacts
  <2>2. ToSet(members) \cap Tier(t) = Tier(t)
    OBVIOUS
  <2>3. QED
    BY <2>1, <2>2, RotateFacts
<1>2. OrderByCost(members, n) = FlattenSeq(seqs)
  BY DEF OrderByCost
<1> HIDE DEF Line
<1>3. seqs \in Seq(Seq(T)) /\ Len(seqs) = 4 /\ \A t \in 1 .. 4 : seqs[t] = Line(t)
  BY <1>1
<1> HIDE DEF seqs
<1>4. /\ FlattenSeq(seqs) \in Seq(T)
      /\ ToSet(FlattenSeq(seqs)) = UNION {ToSet(seqs[i]) : i \in 1 .. Len(seqs)}
  BY <1>3, FlattenRange
<1>5. ToSet(FlattenSeq(seqs)) = UNION {Tier(t) : t \in 1 .. 4}
  <2> HIDE DEF Tier
  <2>1. \A i \in 1 .. 4 : ToSet(seqs[i]) = Tier(i)
    BY <1>1, <1>3
  <2>2. QED
    BY <1>3, <1>4, <2>1
<1>6. UNION {Tier(t) : t \in 1 .. 4} = ToSet(members)
  <2>1. ASSUME NEW m \in ToSet(members)
        PROVE  m.cost + 1 \in 1 .. 4 /\ m \in Tier(m.cost + 1)
    <3>1. m \in T
      BY RangeOf
    <3>2. m.cost \in 0 .. 3
      BY <3>1 DEF Sound
    <3>3. QED
      BY <3>2
  <2>2. \A t \in 1 .. 4 : Tier(t) \subseteq ToSet(members)
    OBVIOUS
  <2> HIDE DEF Tier
  <2>3. QED
    BY <2>1, <2>2
<1>7. QED
  BY <1>2, <1>4, <1>5, <1>6

LEMMA ForClassFacts ==
  ASSUME NEW T, Sound(T), NEW members \in Seq(T), NEW n \in Nat, NEW floor \in Classes
  PROVE  /\ OrderForClass(members, floor, n) \in Seq(T)
         /\ ToSet(OrderForClass(members, floor, n)) = ToSet(members)
<1> DEFINE Distance(m) == IF m.class < floor THEN 4 ELSE m.class - floor
           byCost == OrderByCost(members, n)
           Ring(d) == {m \in ToSet(members) : Distance(m) = d - 1}
           seqs == [d \in 1 .. 5 |-> Only(byCost, Ring(d))]
<1>1. byCost \in Seq(T) /\ ToSet(byCost) = ToSet(members)
  BY ByCostFacts
<1>2. OrderForClass(members, floor, n) = FlattenSeq(seqs)
  BY DEF OrderForClass
<1> HIDE DEF byCost
<1>3. ASSUME NEW d \in 1 .. 5
      PROVE  Only(byCost, Ring(d)) \in Seq(T) /\ ToSet(Only(byCost, Ring(d))) = Ring(d)
  <2>1. ToSet(members) \cap Ring(d) = Ring(d)
    OBVIOUS
  <2>2. QED
    BY <1>1, <2>1, OnlyFacts
<1>4. seqs \in Seq(Seq(T)) /\ Len(seqs) = 5 /\ \A d \in 1 .. 5 : ToSet(seqs[d]) = Ring(d)
  <2> HIDE DEF Ring
  <2>1. QED
    BY <1>3
<1> HIDE DEF seqs
<1>5. /\ FlattenSeq(seqs) \in Seq(T)
      /\ ToSet(FlattenSeq(seqs)) = UNION {ToSet(seqs[i]) : i \in 1 .. Len(seqs)}
  BY <1>4, FlattenRange
<1>6. UNION {ToSet(seqs[i]) : i \in 1 .. Len(seqs)} = ToSet(members)
  <2>1. ASSUME NEW m \in ToSet(members)
        PROVE  Distance(m) + 1 \in 1 .. 5 /\ m \in Ring(Distance(m) + 1)
    <3>1. m \in T
      BY RangeOf
    <3>2. m.class \in -1 .. 3 /\ floor \in 0 .. 3
      BY <3>1 DEF Sound, Classes
    <3>3. Distance(m) \in 0 .. 4
      BY <3>2
    <3>4. QED
      BY <3>3
  <2>2. \A d \in 1 .. 5 : Ring(d) \subseteq ToSet(members)
    OBVIOUS
  <2> HIDE DEF Ring, Distance
  <2>3. \A m \in ToSet(members) : \E d \in 1 .. 5 : m \in Ring(d)
    BY <2>1
  <2>4. QED
    BY <1>4, <2>2, <2>3
<1>7. QED
  BY <1>2, <1>5, <1>6

\* A member that is preferred is taken out at the first wish it fulfils.
LEMMA WishFacts ==
  ASSUME NEW T, NEW members \in Seq(T), NEW wishes, wishes \in Seq(ToSet(wishes))
  PROVE  /\ ApplyPreference(members, wishes) \in Seq(T)
         /\ ToSet(ApplyPreference(members, wishes)) = ToSet(members)
<1> DEFINE Seen(i) == {m \in ToSet(members) : \E j \in 1 .. i : Prefers(m, wishes[j])}
           final == Len(wishes)
           Line(i) == Only(members, Seen(i) \ Seen(i - 1))
           seqs == [i \in DOMAIN wishes |-> Line(i)]
           rest == Only(members, ToSet(members) \ Seen(final))
<1>1. final \in Nat /\ DOMAIN wishes = 1 .. final
  BY LenProperties
<1>2. ApplyPreference(members, wishes) = FlattenSeq(seqs) \o rest
  BY DEF ApplyPreference
<1>3. rest \in Seq(T) /\ ToSet(rest) = ToSet(members) \ Seen(final)
  <2>1. ToSet(members) \cap (ToSet(members) \ Seen(final)) = ToSet(members) \ Seen(final)
    OBVIOUS
  <2> HIDE DEF Seen
  <2>2. QED
    BY <2>1, OnlyFacts
<1>4. ASSUME NEW i \in 1 .. final
      PROVE  Line(i) \in Seq(T) /\ ToSet(Line(i)) = Seen(i) \ Seen(i - 1)
  <2>1. ToSet(members) \cap (Seen(i) \ Seen(i - 1)) = Seen(i) \ Seen(i - 1)
    OBVIOUS
  <2> HIDE DEF Seen
  <2>2. QED
    BY <2>1, OnlyFacts
<1> HIDE DEF Line, rest
<1>5. seqs \in Seq(Seq(T)) /\ Len(seqs) = final /\ \A i \in 1 .. final : seqs[i] = Line(i)
  BY <1>1, <1>4
<1> HIDE DEF seqs
<1>6. /\ FlattenSeq(seqs) \in Seq(T)
      /\ ToSet(FlattenSeq(seqs)) = UNION {ToSet(seqs[i]) : i \in 1 .. Len(seqs)}
  BY <1>5, FlattenRange
<1>7. /\ FlattenSeq(seqs) \o rest \in Seq(T)
      /\ ToSet(FlattenSeq(seqs) \o rest) = ToSet(FlattenSeq(seqs)) \cup ToSet(rest)
  BY <1>3, <1>6, ConcatRange
<1>8. ASSUME NEW m \in Seen(final)
      PROVE  m \in ToSet(FlattenSeq(seqs))
  <2> DEFINE P == {j \in 1 .. final : Prefers(m, wishes[j])}
             i == Min(P)
  <2>1. P \in SUBSET (1 .. final) /\ P # {}
    OBVIOUS
  <2>2. i \in P /\ \A j \in P : i <= j
    <3> HIDE DEF P
    <3>1. QED
      BY <1>1, <2>1, LeastPosition
  <2> HIDE DEF i
  <2>3. i \in 1 .. final /\ m \in Seen(i)
    BY <1>1, <2>2
  <2>4. m \notin Seen(i - 1)
    <3>1. ASSUME NEW j \in 1 .. i - 1, Prefers(m, wishes[j])
          PROVE  FALSE
      <4>1. j \in 1 .. final /\ j < i
        BY <1>1, <2>3
      <4>2. j \in P
        BY <3>1, <4>1
      <4> HIDE DEF P
      <4>3. QED
        BY <2>2, <2>3, <4>1, <4>2
    <3>2. QED
      BY <3>1
  <2> HIDE DEF P, Seen
  <2>5. m \in ToSet(seqs[i])
    BY <1>4, <1>5, <2>3, <2>4
  <2>6. QED
    BY <1>5, <1>6, <2>3, <2>5
<1>9. ToSet(FlattenSeq(seqs)) \subseteq ToSet(members)
  <2>1. \A i \in 1 .. final : Seen(i) \ Seen(i - 1) \subseteq ToSet(members)
    OBVIOUS
  <2> HIDE DEF Seen
  <2>2. \A i \in 1 .. final : ToSet(seqs[i]) \subseteq ToSet(members)
    BY <1>4, <1>5, <2>1
  <2>3. QED
    BY <1>5, <1>6, <2>2
<1>10. Seen(final) \subseteq ToSet(members)
  OBVIOUS
<1> HIDE DEF Seen
<1>11. ToSet(FlattenSeq(seqs)) \cup ToSet(rest) = ToSet(members)
  BY <1>3, <1>8, <1>9, <1>10
<1>12. QED
  BY <1>2, <1>7, <1>11

LEMMA PickedMember ==
  ASSUME NEW T, Sound(T), NEW members \in Seq(T), members # <<>>, NEW n \in Nat, NEW floor \in Classes,
         NEW wishes, wishes \in Seq(ToSet(wishes))
  PROVE  SelectMember(members, n, wishes, floor) \in ToSet(members)
<1> DEFINE ordered == OrderForClass(members, floor, n)
           Near == {m \in ToSet(ordered) : m.class = ordered[1].class}
           closest == Only(ordered, Near)
           Cheap == {m \in ToSet(closest) : m.cost = closest[1].cost}
           cheapest == Only(closest, Cheap)
           wished == ApplyPreference(cheapest, wishes)
<1>1. SelectMember(members, n, wishes, floor) = wished[1]
  BY DEF SelectMember, TierInOrder
<1>2. ToSet(members) # {}
  BY FirstInRange
<1>3. ordered \in Seq(T) /\ ToSet(ordered) = ToSet(members)
  BY ForClassFacts
<1> HIDE DEF ordered
<1>4. ordered[1] \in Near
  <2>1. ordered[1] \in ToSet(ordered)
    BY <1>2, <1>3, FirstInRange
  <2>2. QED
    BY <2>1
<1>5. closest \in Seq(T) /\ ToSet(closest) = ToSet(ordered) \cap Near /\ Near \subseteq ToSet(ordered)
  BY <1>3, OnlyFacts
<1> HIDE DEF Near, closest
<1>6. closest[1] \in Cheap
  <2>1. ToSet(closest) # {}
    BY <1>4, <1>5
  <2>2. closest[1] \in ToSet(closest)
    BY <1>5, <2>1, FirstInRange
  <2>3. QED
    BY <2>2
<1>7. cheapest \in Seq(T) /\ ToSet(cheapest) = ToSet(closest) \cap Cheap /\ Cheap \subseteq ToSet(closest)
  BY <1>5, OnlyFacts
<1> HIDE DEF Cheap, cheapest
<1>8. wished \in Seq(T) /\ ToSet(wished) = ToSet(cheapest)
  BY <1>7, WishFacts
<1> HIDE DEF wished
<1>9. wished[1] \in ToSet(wished)
  <2>1. ToSet(wished) # {}
    BY <1>6, <1>7, <1>8
  <2>2. QED
    BY <1>8, <2>1, FirstInRange
<1>10. QED
  BY <1>1, <1>3, <1>5, <1>7, <1>8, <1>9

\* What is remembered comes first, if it is there.
LEMMA PreferFacts ==
  ASSUME NEW T, Sound(T), NEW members \in Seq(T), NEW memory
  PROVE  LET first == PreferRemembered(members, memory)
         IN /\ first \in Seq(T) /\ ToSet(first) = ToSet(members)
            /\ members = <<>> => first = <<>>
            /\ \A m \in ToSet(members) : m.id = memory.id => first[1] = m
<1> DEFINE Same == {m \in ToSet(members) : m.id = memory.id}
           Kin == {m \in ToSet(members) : m.family = memory.family}
           same == Only(members, Same)
           kin == Only(members, Kin)
           fit == IF same # <<>> THEN same ELSE IF memory.family = "none" THEN <<>> ELSE kin
           first == PreferRemembered(members, memory)
           others == Only(members, ToSet(members) \ {fit[1]})
<1>1. first = IF fit = <<>> THEN members ELSE <<fit[1]>> \o others
  BY DEF PreferRemembered
<1>2. /\ same \in Seq(T) /\ ToSet(same) = Same
      /\ kin \in Seq(T) /\ ToSet(kin) = Kin
  <2>1. ToSet(members) \cap Same = Same /\ ToSet(members) \cap Kin = Kin
    OBVIOUS
  <2> HIDE DEF Same, Kin
  <2>2. QED
    BY <2>1, OnlyFacts
<1>3. Same \subseteq ToSet(members) /\ Kin \subseteq ToSet(members)
  OBVIOUS
<1> HIDE DEF same, kin, first
<1>4. fit \in Seq(T) /\ ToSet(fit) \subseteq ToSet(members)
  <2>1. <<>> \in Seq(T) /\ ToSet(<<>>) = {}
    BY DEF ToSet
  <2>2. CASE same # <<>>
    <3>1. fit = same
      BY <2>2
    <3> HIDE DEF fit
    <3>2. QED
      BY <1>2, <1>3, <3>1
  <2>3. CASE same = <<>>
    <3>1. fit = <<>> \/ fit = kin
      BY <2>3
    <3> HIDE DEF fit
    <3>2. QED
      BY <1>2, <1>3, <2>1, <3>1
  <2>4. QED
    BY <2>2, <2>3
<1>5. CASE fit = <<>>
  <2>1. first = members
    BY <1>1, <1>5
  <2>2. same = <<>>
    BY <1>5
  <2>3. Same = {}
    BY <1>2, <2>2, FirstInRange
  <2>4. \A m \in ToSet(members) : m.id # memory.id
    BY <2>3
  <2>5. QED
    BY <2>1, <2>4 DEF first
<1>6. CASE fit # <<>>
  <2> DEFINE x == fit[1]
  <2>1. x \in ToSet(members) /\ x \in T
    <3> HIDE DEF fit
    <3>1. fit[1] \in ToSet(fit) /\ fit[1] \in T
      BY <1>4, <1>6, FirstInRange
    <3>2. QED
      BY <1>4, <3>1
  <2>2. first = <<x>> \o others
    BY <1>1, <1>6
  <2>3. others \in Seq(T) /\ ToSet(others) = ToSet(members) \ {x}
    <3>1. ToSet(members) \cap (ToSet(members) \ {x}) = ToSet(members) \ {x}
      OBVIOUS
    <3> HIDE DEF x
    <3>2. QED
      BY <3>1, OnlyFacts DEF x
  <2>4. \A m \in ToSet(members) : m.id = memory.id => x = m
    <3>1. SUFFICES ASSUME NEW m \in ToSet(members), m.id = memory.id
                   PROVE  x = m
      OBVIOUS
    <3>2. m \in Same
      BY <3>1
    <3>3. same # <<>>
      BY <1>2, <3>2, FirstInRange
    <3>4. x \in Same
      <4>1. x = same[1]
        BY <3>3
      <4>2. QED
        BY <1>2, <3>3, <4>1, FirstInRange
    <3>5. x.id = m.id /\ m \in T
      BY <3>1, <3>4, RangeOf
    <3>6. QED
      BY <2>1, <3>5 DEF Sound
  <2> HIDE DEF x, others, fit
  <2>5. <<x>> \in Seq(T) /\ ToSet(<<x>>) = {x}
    BY <2>1 DEF ToSet
  <2>6. first \in Seq(T) /\ ToSet(first) = {x} \cup (ToSet(members) \ {x})
    <3>1. /\ <<x>> \o others \in Seq(T)
          /\ ToSet(<<x>> \o others) = ToSet(<<x>>) \cup ToSet(others)
      <4>1. <<x>> \in Seq(T) /\ others \in Seq(T)
        BY <2>3, <2>5
      <4>2. QED
        BY <4>1, ConcatRange
    <3>2. QED
      BY <2>2, <2>3, <2>5, <3>1
  <2>7. first[1] = x
    BY <2>1, <2>2, <2>3
  <2>8. members # <<>>
    BY <2>1 DEF ToSet
  <2>9. {x} \cup (ToSet(members) \ {x}) = ToSet(members)
    BY <2>1
  <2>10. QED
    BY <2>4, <2>6, <2>7, <2>8, <2>9 DEF first
<1>7. QED
  BY <1>5, <1>6

-----------------------------------------------------------------------------
(* The weights *)

IsPolicy(policy) ==
  /\ NoModel \notin DOMAIN policy.bucketModels \cup DOMAIN policy.models
  /\ IsScope(policy.bucketModels) /\ IsScope(policy.bucketProviders)
  /\ IsScope(policy.models) /\ IsScope(policy.providers)

LEMMA FirstOfTwo ==
  ASSUME NEW T, NEW p \in Seq(T), NEW q \in Seq(T)
  PROVE  /\ p \o q \in Seq(T)
         /\ (p \o q)[1] = IF p = <<>> THEN q[1] ELSE p[1]
         /\ p \o q = <<>> <=> p = <<>> /\ q = <<>>
<1>1. p \o q \in Seq(T) /\ Len(p \o q) = Len(p) + Len(q) /\ Len(p) \in Nat /\ Len(q) \in Nat
  BY ConcatProperties, LenProperties
<1>2. p \o q = <<>> <=> p = <<>> /\ q = <<>>
  BY <1>1, EmptySeq
<1>3. CASE p = <<>>
  BY <1>1, <1>2, <1>3
<1>4. CASE p # <<>>
  <2>1. 1 \in 1 .. Len(p)
    BY <1>1, <1>4, EmptySeq
  <2>2. QED
    BY <1>1, <1>2, <1>4, <2>1
<1>5. QED
  BY <1>3, <1>4

\* The most special scope decides.
LEMMA DecisionCases ==
  ASSUME NEW policy, NEW p, NEW m
  PROVE  Decision(policy, p, m) =
           IF m \in DOMAIN policy.bucketModels THEN policy.bucketModels[m]
           ELSE IF p \in DOMAIN policy.bucketProviders THEN policy.bucketProviders[p]
           ELSE IF m \in DOMAIN policy.models THEN policy.models[m]
           ELSE IF p \in DOMAIN policy.providers THEN policy.providers[p]
           ELSE [enabled |-> TRUE, weight |-> 1]
<1> DEFINE Of(scope, key) == IF key \in DOMAIN scope THEN <<scope[key]>> ELSE <<>>
           a == Of(policy.bucketModels, m)
           b == Of(policy.bucketProviders, p)
           c == Of(policy.models, m)
           d == Of(policy.providers, p)
           e == [enabled |-> TRUE, weight |-> 1]
           T == {policy.bucketModels[m], policy.bucketProviders[p], policy.models[m], policy.providers[p], e}
<1>1. Decision(policy, p, m) = (a \o b \o c \o d \o <<e>>)[1]
  BY DEF Decision
<1>2. /\ a \in Seq(T) /\ b \in Seq(T) /\ c \in Seq(T) /\ d \in Seq(T) /\ <<e>> \in Seq(T)
  <2>1. /\ policy.bucketModels[m] \in T /\ policy.bucketProviders[p] \in T
        /\ policy.models[m] \in T /\ policy.providers[p] \in T /\ e \in T
    <3> HIDE DEF e
    <3>1. QED
      BY Zenon
  <2> HIDE DEF e, T
  <2>2. \A x \in T : <<x>> \in Seq(T)
    OBVIOUS
  <2>3. <<>> \in Seq(T)
    OBVIOUS
  <2>4. /\ a = <<>> \/ a = <<policy.bucketModels[m]>>
        /\ b = <<>> \/ b = <<policy.bucketProviders[p]>>
        /\ c = <<>> \/ c = <<policy.models[m]>>
        /\ d = <<>> \/ d = <<policy.providers[p]>>
    OBVIOUS
  <2> HIDE DEF a, b, c, d
  <2>5. QED
    BY <2>1, <2>2, <2>3, <2>4
<1>3. /\ (m \in DOMAIN policy.bucketModels => a # <<>> /\ a[1] = policy.bucketModels[m])
      /\ (m \notin DOMAIN policy.bucketModels => a = <<>>)
      /\ (p \in DOMAIN policy.bucketProviders => b # <<>> /\ b[1] = policy.bucketProviders[p])
      /\ (p \notin DOMAIN policy.bucketProviders => b = <<>>)
      /\ (m \in DOMAIN policy.models => c # <<>> /\ c[1] = policy.models[m])
      /\ (m \notin DOMAIN policy.models => c = <<>>)
      /\ (p \in DOMAIN policy.providers => d # <<>> /\ d[1] = policy.providers[p])
      /\ (p \notin DOMAIN policy.providers => d = <<>>)
  OBVIOUS
<1>4. <<e>>[1] = e
  OBVIOUS
<1> DEFINE ab == a \o b
           abc == ab \o c
           abcd == abc \o d
           all == abcd \o <<e>>
<1> HIDE DEF a, b, c, d, e, T
<1>5. /\ ab \in Seq(T) /\ ab[1] = (IF a = <<>> THEN b[1] ELSE a[1])
      /\ (ab = <<>> <=> a = <<>> /\ b = <<>>)
  BY <1>2, FirstOfTwo
<1> HIDE DEF ab
<1>6. /\ abc \in Seq(T) /\ abc[1] = (IF ab = <<>> THEN c[1] ELSE ab[1])
      /\ (abc = <<>> <=> ab = <<>> /\ c = <<>>)
  <2>1. ab \in Seq(T) /\ c \in Seq(T)
    BY <1>2, <1>5
  <2>2. QED
    BY <2>1, FirstOfTwo
<1> HIDE DEF abc
<1>7. /\ abcd \in Seq(T) /\ abcd[1] = (IF abc = <<>> THEN d[1] ELSE abc[1])
      /\ (abcd = <<>> <=> abc = <<>> /\ d = <<>>)
  <2>1. abc \in Seq(T) /\ d \in Seq(T)
    BY <1>2, <1>6
  <2>2. QED
    BY <2>1, FirstOfTwo
<1> HIDE DEF abcd
<1>8. all[1] = (IF abcd = <<>> THEN <<e>>[1] ELSE abcd[1])
  BY <1>2, <1>7, FirstOfTwo
<1> HIDE DEF all
<1>9. all[1] = IF a # <<>> THEN a[1] ELSE IF b # <<>> THEN b[1] ELSE IF c # <<>> THEN c[1]
               ELSE IF d # <<>> THEN d[1] ELSE e
  BY <1>4, <1>5, <1>6, <1>7, <1>8
<1>9a. Decision(policy, p, m) = all[1]
  BY <1>1 DEF all, abcd, abc, ab
<1>10. QED
  <2>1. Decision(policy, p, m) = IF a # <<>> THEN a[1] ELSE IF b # <<>> THEN b[1] ELSE IF c # <<>> THEN c[1]
                                 ELSE IF d # <<>> THEN d[1] ELSE e
    BY <1>9, <1>9a
  <2>2. CASE m \in DOMAIN policy.bucketModels
    BY <1>3, <2>1, <2>2
  <2>3. CASE m \notin DOMAIN policy.bucketModels /\ p \in DOMAIN policy.bucketProviders
    BY <1>3, <2>1, <2>3
  <2>4. CASE /\ m \notin DOMAIN policy.bucketModels /\ p \notin DOMAIN policy.bucketProviders
             /\ m \in DOMAIN policy.models
    BY <1>3, <2>1, <2>4
  <2>5. CASE /\ m \notin DOMAIN policy.bucketModels /\ p \notin DOMAIN policy.bucketProviders
             /\ m \notin DOMAIN policy.models
    BY <1>3, <2>1, <2>5 DEF e
  <2>6. QED
    BY <2>2, <2>3, <2>4, <2>5

LEMMA DecisionFacts ==
  ASSUME NEW policy, IsPolicy(policy), NEW p, NEW m
  PROVE  Decision(policy, p, m).enabled \in BOOLEAN /\ Decision(policy, p, m).weight \in Nat
<1> DEFINE e == [enabled |-> TRUE, weight |-> 1]
<1>1. e.enabled \in BOOLEAN /\ e.weight \in Nat
  OBVIOUS
<1> HIDE DEF e
<1>2. \/ m \in DOMAIN policy.bucketModels /\ Decision(policy, p, m) = policy.bucketModels[m]
      \/ p \in DOMAIN policy.bucketProviders /\ Decision(policy, p, m) = policy.bucketProviders[p]
      \/ m \in DOMAIN policy.models /\ Decision(policy, p, m) = policy.models[m]
      \/ p \in DOMAIN policy.providers /\ Decision(policy, p, m) = policy.providers[p]
      \/ Decision(policy, p, m) = e
  BY DecisionCases, Zenon DEF e
<1>3. QED
  BY <1>1, <1>2 DEF IsPolicy, IsScope

LEMMA PartFacts ==
  ASSUME NEW T, Sound(T), NEW members \in Seq(T), NEW policy, NEW provider
  PROVE  /\ Participants(members, policy, provider) \in Seq(T)
         /\ ToSet(Participants(members, policy, provider)) = Taking(members, policy, provider)
<1> DEFINE part == Taking(members, policy, provider)
           ids == Only(ModelOrder, {m.id : m \in part})
           Named(x) == CHOOSE m \in part : m.id = x
           line == [i \in DOMAIN ids |-> Named(ids[i])]
<1>1. part \subseteq T
  BY RangeOf DEF Taking
<1>2. Participants(members, policy, provider) = line
  BY DEF Participants
<1> HIDE DEF part
<1>3. ids \in Seq(ToSet(ModelOrder)) /\ ToSet(ids) = {m.id : m \in part}
  <2>1. ModelOrder \in Seq(ToSet(ModelOrder))
    BY PolicyAssumption
  <2>2. {m.id : m \in part} \subseteq ToSet(ModelOrder)
    BY <1>1 DEF Sound
  <2> DEFINE names == {m.id : m \in part}
  <2> HIDE DEF names
  <2>3. Only(ModelOrder, names) \in Seq(ToSet(ModelOrder))
        /\ ToSet(Only(ModelOrder, names)) = ToSet(ModelOrder) \cap names
    BY <2>1, OnlyFacts
  <2>4. QED
    BY <2>2, <2>3 DEF names
<1> HIDE DEF ids
<1>4. Len(ids) \in Nat /\ DOMAIN ids = 1 .. Len(ids) /\ ToSet(ids) = {ids[i] : i \in 1 .. Len(ids)}
  BY <1>3, LenProperties, RangeOf
<1>5. ASSUME NEW m \in part
      PROVE  Named(m.id) = m
  <2>1. Named(m.id) \in part /\ Named(m.id).id = m.id
    OBVIOUS
  <2> HIDE DEF Named
  <2>2. QED
    BY <1>1, <2>1 DEF Sound
<1> HIDE DEF Named
<1>6. ASSUME NEW i \in 1 .. Len(ids)
      PROVE  Named(ids[i]) \in part
  <2>1. ids[i] \in ToSet(ids)
    BY <1>4
  <2>2. PICK m \in part : ids[i] = m.id
    BY <1>3, <2>1
  <2>3. QED
    BY <1>5, <2>2
<1>7. line \in Seq(T) /\ Len(line) = Len(ids) /\ \A i \in 1 .. Len(ids) : line[i] = Named(ids[i])
  BY <1>1, <1>4, <1>6
<1> HIDE DEF line
<1>8. ToSet(line) = {line[i] : i \in 1 .. Len(ids)}
  BY <1>7, RangeOf
<1>9. ASSUME NEW m \in part
      PROVE  m \in ToSet(line)
  <2>1. PICK i \in 1 .. Len(ids) : ids[i] = m.id
    BY <1>3, <1>4
  <2>2. line[i] = m
    BY <1>5, <1>7, <2>1
  <2>3. QED
    BY <1>8, <2>1, <2>2
<1>10. ASSUME NEW x \in ToSet(line)
       PROVE  x \in part
  <2>1. PICK i \in 1 .. Len(ids) : x = line[i]
    BY <1>8, <1>10
  <2>2. QED
    BY <1>6, <1>7, <2>1
<1>11. QED
  BY <1>2, <1>7, <1>9, <1>10 DEF part

LEMMA WeightFacts ==
  ASSUME NEW T, Sound(T), NEW members \in Seq(T), NEW policy, IsPolicy(policy), NEW provider
  PROVE  /\ ProviderWeight(members, policy, provider) \in Nat
         /\ ProviderWeight(members, policy, provider) > 0 <=>
              /\ Taking(members, policy, provider) # {}
              /\ Decision(policy, provider, NoModel).enabled
<1> DEFINE part == Taking(members, policy, provider)
           own == ModelWeights(members, policy, provider)
           whole == Decision(policy, provider, NoModel)
           chosen == CHOOSE w \in own : TRUE
<1>2. own = {Decision(policy, m.provider, m.id).weight : m \in {p \in part : OwnWeight(policy, p)}}
  BY DEF ModelWeights
<1>3. \A m \in part : m.provider = provider /\ Decision(policy, m.provider, m.id).weight \in Nat \ {0}
  BY DecisionFacts DEF TakesPart, Taking
<1>4. whole.enabled \in BOOLEAN /\ whole.weight \in Nat
  BY DecisionFacts
<1>5. ProviderWeight(members, policy, provider)
        = IF part = {} \/ ~ whole.enabled THEN 0 ELSE IF own = {} THEN whole.weight ELSE chosen
  BY DEF ProviderWeight
<1>6. own \subseteq Nat \ {0}
  <2> HIDE DEF own, part
  <2>1. QED
    BY <1>2, <1>3
<1>7. own # {} => chosen \in Nat \ {0}
  BY <1>6
<1>8. part # {} /\ own = {} => whole.weight > 0
  <2>1. SUFFICES ASSUME part # {}, own = {}
                 PROVE  whole.weight > 0
    OBVIOUS
  <2>2. PICK m \in part : TRUE
    BY <2>1
  <2>3. ~ OwnWeight(policy, m)
    <3> HIDE DEF part
    <3>2. ASSUME OwnWeight(policy, m)
          PROVE  FALSE
      <4>1. Decision(policy, m.provider, m.id).weight \in own
        <5> HIDE DEF own
        <5>1. QED
          BY <1>2, <2>2, <3>2
      <4>2. QED
        BY <2>1, <4>1
    <3>3. QED
      BY <3>2
  <2>4. m.provider = provider /\ Decision(policy, m.provider, m.id).weight \in Nat \ {0}
    BY <1>3, <2>2
  <2>5. NoModel \notin DOMAIN policy.bucketModels /\ NoModel \notin DOMAIN policy.models
    BY DEF IsPolicy
  <2>6. Decision(policy, m.provider, m.id) = whole
    <3>1. m.id \notin DOMAIN policy.bucketModels
          /\ (m.id \notin DOMAIN policy.models \/ provider \in DOMAIN policy.bucketProviders)
      BY <2>3, <2>4 DEF OwnWeight
    <3>2. CASE provider \in DOMAIN policy.bucketProviders
      BY <2>4, <2>5, <3>1, <3>2, DecisionCases
    <3>3. CASE provider \notin DOMAIN policy.bucketProviders
      BY <2>4, <2>5, <3>1, <3>3, DecisionCases
    <3>4. QED
      BY <3>2, <3>3
  <2>7. QED
    BY <2>4, <2>6
<1> HIDE DEF part, own, whole, chosen
<1>9. QED
  BY <1>4, <1>5, <1>7, <1>8 DEF part, whole

-----------------------------------------------------------------------------
(* The tickets *)

LEMMA Providers ==
  /\ Len(ProviderOrder) \in Nat /\ DOMAIN ProviderOrder = 1 .. Len(ProviderOrder)
  /\ ToSet(ProviderOrder) = {ProviderOrder[i] : i \in 1 .. Len(ProviderOrder)}
  /\ \A i, j \in 1 .. Len(ProviderOrder) : ProviderOrder[i] = ProviderOrder[j] => i = j
<1>1. ProviderOrder \in Seq(ToSet(ProviderOrder))
  BY PolicyAssumption
<1>2. Len(ProviderOrder) \in Nat /\ DOMAIN ProviderOrder = 1 .. Len(ProviderOrder)
  BY <1>1, LenProperties
<1>3. QED
  BY <1>2, PolicyAssumption DEF ToSet, IsInjective

LEMMA TicketFacts ==
  ASSUME NEW T, Sound(T), NEW members \in Seq(T), NEW policy, IsPolicy(policy)
  PROVE  LET cursor == Tickets(members, policy)
         IN /\ cursor[0] = 0
            /\ \A i \in 1 .. Len(ProviderOrder) :
                 cursor[i] = cursor[i - 1] + ProviderWeight(members, policy, ProviderOrder[i])
            /\ \A i \in 0 .. Len(ProviderOrder) : cursor[i] \in Nat
<1> DEFINE final == Len(ProviderOrder)
           W(i) == ProviderWeight(members, policy, ProviderOrder[i])
           step == [x \in Nat \X Nat |-> IF x[1] \in 1 .. final THEN x[2] + W(x[1]) ELSE 0]
           Solved(f) == f = [i \in 0 .. final |-> IF i = 0 THEN 0 ELSE f[i - 1] + W(i)]
<1>1. final \in Nat /\ \A i \in 1 .. final : W(i) \in Nat
  BY Providers, WeightFacts
<1> HIDE DEF W, final
<1>2. step \in [Nat \X Nat -> Nat]
  BY <1>1
<1>3. PICK f : Recurs(f, Nat, 0, step, final)
  <2> HIDE DEF step
  <2>1. QED
    BY <1>1, <1>2, Recursion, Zenon
<1>4. Solved(f)
  <2>1. /\ f \in [0 .. final -> Nat] /\ f[0] = 0 /\ \A n \in 1 .. final : f[n] = step[<<n, f[n - 1]>>]
    BY <1>3 DEF Recurs
  <2>2. \A n \in 1 .. final : f[n] = f[n - 1] + W(n)
    <3>1. SUFFICES ASSUME NEW n \in 1 .. final
                   PROVE  f[n] = f[n - 1] + W(n)
      OBVIOUS
    <3>2. f[n - 1] \in Nat /\ n \in Nat
      BY <1>1, <2>1
    <3>3. step[<<n, f[n - 1]>>] = f[n - 1] + W(n)
      BY <3>2
    <3> HIDE DEF step
    <3>4. QED
      BY <2>1, <3>3
  <2> HIDE DEF step
  <2>3. \A n \in 0 .. final : n = 0 \/ n \in 1 .. final
    BY <1>1
  <2>4. QED
    BY <2>1, <2>2, <2>3
<1> DEFINE cursor == CHOOSE x : Solved(x)
<1>5. Solved(cursor)
  <2> HIDE DEF Solved
  <2>1. QED
    BY <1>4
<1>6. Tickets(members, policy) = cursor
  BY DEF Tickets, W, final
<1> HIDE DEF cursor
<1>7. cursor[0] = 0 /\ \A i \in 1 .. final : cursor[i] = cursor[i - 1] + W(i)
  BY <1>1, <1>5
<1>8. \A i \in 0 .. final : cursor[i] \in Nat
  <2> DEFINE Fine == {n \in Nat : n \in 0 .. final => cursor[n] \in Nat}
  <2>1. 0 \in Fine
    BY <1>7
  <2>2. ASSUME NEW n \in Nat, n \in Fine
        PROVE  n + 1 \in Fine
    <3>1. n + 1 \in 0 .. final => n \in 0 .. final /\ n + 1 \in 1 .. final /\ (n + 1) - 1 = n
      BY <1>1
    <3>2. QED
      BY <1>1, <1>7, <2>2, <3>1
  <2> HIDE DEF Fine
  <2>3. Nat \subseteq Fine
    BY <2>1, <2>2, NatSetInduction
  <2>4. QED
    BY <2>3 DEF Fine
<1>9. QED
  BY <1>6, <1>7, <1>8 DEF final, W

\* The tickets of a provider follow those of the providers before it.
LEMMA TicketsRise ==
  ASSUME NEW T, Sound(T), NEW members \in Seq(T), NEW policy, IsPolicy(policy)
  PROVE  \A j \in 0 .. Len(ProviderOrder) : \A i \in 0 .. j :
            Tickets(members, policy)[i] <= Tickets(members, policy)[j]
<1> DEFINE final == Len(ProviderOrder)
           cursor == Tickets(members, policy)
           W(i) == ProviderWeight(members, policy, ProviderOrder[i])
           Fine == {n \in Nat : n \in 0 .. final => \A i \in 0 .. n : cursor[i] <= cursor[n]}
<1>1. final \in Nat /\ \A i \in 1 .. final : W(i) \in Nat
  BY Providers, WeightFacts
<1>2. /\ \A i \in 1 .. final : cursor[i] = cursor[i - 1] + W(i)
      /\ \A i \in 0 .. final : cursor[i] \in Nat
  BY TicketFacts
<1> HIDE DEF cursor, W, final
<1>3. 0 \in Fine
  <2>1. \A i \in 0 .. 0 : i = 0
    OBVIOUS
  <2>2. 0 \in 0 .. final
    BY <1>1
  <2>3. QED
    BY <1>2, <2>1, <2>2
<1>4. ASSUME NEW n \in Nat, n \in Fine
      PROVE  n + 1 \in Fine
  <2>1. SUFFICES ASSUME n + 1 \in 0 .. final, NEW i \in 0 .. n + 1
                 PROVE  cursor[i] <= cursor[n + 1]
    BY <1>4
  <2>2. n \in 0 .. final /\ n + 1 \in 1 .. final /\ (n + 1) - 1 = n
    BY <1>1, <2>1
  <2>3. cursor[n + 1] = cursor[n] + W(n + 1) /\ cursor[n] \in Nat /\ W(n + 1) \in Nat
    BY <1>1, <1>2, <2>2
  <2>4. CASE i = n + 1
    BY <2>3, <2>4
  <2>5. CASE i \in 0 .. n
    <3>1. cursor[i] <= cursor[n]
      BY <1>4, <2>2, <2>5
    <3>2. cursor[i] \in Nat
      <4>1. i \in 0 .. final
        BY <1>1, <2>2, <2>5
      <4>2. QED
        BY <1>2, <4>1
    <3>3. QED
      BY <2>3, <3>1, <3>2
  <2>6. QED
    BY <2>4, <2>5
<1> HIDE DEF Fine
<1>5. Nat \subseteq Fine
  BY <1>3, <1>4, NatSetInduction
<1>6. QED
  BY <1>5 DEF Fine, cursor, final

\* Whose ticket it is.
Holder(members, policy, ticket) ==
  CHOOSE i \in DOMAIN ProviderOrder :
    /\ TicketBelow(ticket, Tickets(members, policy)[i])
    /\ \A j \in 1 .. i - 1 : ~ TicketBelow(ticket, Tickets(members, policy)[j])

LEMMA HolderFacts ==
  ASSUME NEW T, Sound(T), NEW members \in Seq(T), NEW policy, IsPolicy(policy),
         NEW ticket \in 0 .. TotalWeight(members, policy) - 1
  PROVE  LET cursor == Tickets(members, policy)
             i == Holder(members, policy, ticket)
         IN /\ i \in 1 .. Len(ProviderOrder)
            /\ ProviderWeight(members, policy, ProviderOrder[i]) > 0
            /\ \A k \in 1 .. Len(ProviderOrder) : cursor[k - 1] <= ticket /\ ticket < cursor[k] <=> k = i
<1> DEFINE final == Len(ProviderOrder)
           cursor == Tickets(members, policy)
           W(i) == ProviderWeight(members, policy, ProviderOrder[i])
           P == {i \in 1 .. final : ticket < cursor[i]}
           holder == Holder(members, policy, ticket)
           Least(i) == ticket < cursor[i] /\ \A j \in 1 .. i - 1 : ~ (ticket < cursor[j])
<1>1. final \in Nat /\ DOMAIN ProviderOrder = 1 .. final /\ \A i \in 1 .. final : W(i) \in Nat
  BY Providers, WeightFacts
<1>2. /\ cursor[0] = 0
      /\ \A i \in 1 .. final : cursor[i] = cursor[i - 1] + W(i)
      /\ \A i \in 0 .. final : cursor[i] \in Nat
  BY TicketFacts
<1>3. \A j \in 0 .. final : \A i \in 0 .. j : cursor[i] <= cursor[j]
  BY TicketsRise
<1>4. ticket \in Nat /\ ticket < cursor[final]
  <2>1. TotalWeight(members, policy) = cursor[final]
    BY DEF TotalWeight
  <2>2. cursor[final] \in Nat
    BY <1>1, <1>2
  <2>3. QED
    BY <2>1, <2>2
<1>5. holder = CHOOSE i \in 1 .. final : Least(i)
  BY <1>1 DEF Holder, TicketBelow
<1> HIDE DEF cursor, W, final, holder
<1>6. \E i \in 1 .. final : Least(i)
  <2>1. final # 0
    BY <1>2, <1>4
  <2>2. final \in P
    BY <1>1, <1>4, <2>1
  <2>3. P \in SUBSET (1 .. final) /\ P # {}
    BY <2>2
  <2>4. Min(P) \in P /\ \A j \in P : Min(P) <= j
    <3> HIDE DEF P
    <3>1. QED
      BY <1>1, <2>3, LeastPosition
  <2>5. Least(Min(P))
    <3>1. Min(P) \in 1 .. final /\ ticket < cursor[Min(P)]
      BY <2>4
    <3>2. ASSUME NEW j \in 1 .. Min(P) - 1, ticket < cursor[j]
          PROVE  FALSE
      <4>1. j \in 1 .. final /\ j < Min(P)
        BY <1>1, <3>1
      <4>2. j \in P
        BY <3>2, <4>1
      <4> HIDE DEF P
      <4>3. QED
        BY <2>4, <3>1, <4>1, <4>2
    <3>3. QED
      BY <3>1, <3>2
  <2> HIDE DEF Least
  <2>6. QED
    BY <2>4, <2>5
<1>7. holder \in 1 .. final /\ Least(holder)
  <2> HIDE DEF Least
  <2>1. QED
    BY <1>5, <1>6
<1>8. cursor[holder - 1] <= ticket /\ ticket < cursor[holder]
  <2>1. CASE holder = 1
    <3>1. cursor[holder - 1] = 0
      BY <1>2, <2>1
    <3>2. QED
      BY <1>4, <1>7, <3>1
  <2>2. CASE holder # 1
    <3>1. holder - 1 \in 1 .. holder - 1 /\ holder - 1 \in 0 .. final
      BY <1>1, <1>7, <2>2
    <3>2. ~ (ticket < cursor[holder - 1])
      <4> DEFINE j == holder - 1
      <4> HIDE DEF j
      <4>1. j \in 1 .. holder - 1
        BY <3>1 DEF j
      <4>2. ~ (ticket < cursor[j])
        BY <1>7, <4>1
      <4>3. QED
        BY <4>2 DEF j
    <3>2a. cursor[holder - 1] \in Nat
      BY <1>2, <3>1
    <3>3. QED
      BY <1>4, <1>7, <3>2, <3>2a
  <2>3. QED
    BY <2>1, <2>2
<1>9. W(holder) > 0
  <2>1. cursor[holder] = cursor[holder - 1] + W(holder) /\ W(holder) \in Nat
    BY <1>1, <1>2, <1>7
  <2>2. holder - 1 \in 0 .. final
    BY <1>1, <1>7
  <2>3. cursor[holder - 1] \in Nat
    BY <1>2, <2>2
  <2>4. QED
    BY <1>4, <1>8, <2>1, <2>3
<1>10. ASSUME NEW k \in 1 .. final, cursor[k - 1] <= ticket, ticket < cursor[k]
       PROVE  k = holder
  <2>1. k \in 0 .. final /\ k - 1 \in 0 .. final /\ holder \in 0 .. final /\ holder - 1 \in 0 .. final
    BY <1>1, <1>7
  <2>2. cursor[k] \in Nat /\ cursor[k - 1] \in Nat /\ cursor[holder] \in Nat /\ cursor[holder - 1] \in Nat
    BY <1>2, <2>1
  <2>3. CASE k < holder
    <3>1. k \in 0 .. holder - 1
      BY <1>1, <1>7, <2>3
    <3>2. cursor[k] <= cursor[holder - 1]
      BY <1>3, <2>1, <3>1
    <3>3. QED
      BY <1>4, <1>8, <1>10, <2>2, <3>2
  <2>4. CASE k > holder
    <3>1. holder \in 0 .. k - 1
      BY <1>1, <1>7, <2>4
    <3>2. cursor[holder] <= cursor[k - 1]
      BY <1>3, <2>1, <3>1
    <3>3. QED
      BY <1>4, <1>8, <1>10, <2>2, <3>2
  <2>5. QED
    BY <1>1, <1>7, <2>3, <2>4
<1>11. QED
  BY <1>7, <1>8, <1>9, <1>10 DEF holder, cursor, W, final

-----------------------------------------------------------------------------
(* The order by weight *)

LEMMA OnlyFirst ==
  ASSUME NEW T, NEW s \in Seq(T), NEW S, s # <<>>, s[1] \in S
  PROVE  Only(s, S) # <<>> /\ Only(s, S)[1] = s[1]
<1> DEFINE I == {i \in DOMAIN s : s[i] \in S}
           p == Only(s, S)
<1>1. Len(s) \in Nat \ {0} /\ DOMAIN s = 1 .. Len(s)
  BY LenProperties, EmptySeq
<1>3. 1 \in I /\ 1 \in 1 .. Len(s)
  BY <1>1
<1>4. p \in Seq(T) /\ \E h : PicksBy(p, h, s, I, Len(s))
  BY OnlyPicks
<1> HIDE DEF I
<1>5. PICK h : PicksBy(p, h, s, I, Len(s))
  BY <1>4
<1> HIDE DEF p
<1>6. /\ h \in [1 .. Len(p) -> 1 .. Len(s)] /\ Len(p) \in Nat
      /\ \A j \in 1 .. Len(p) : h[j] \in I /\ p[j] = s[h[j]]
      /\ \A i, j \in 1 .. Len(p) : i < j => h[i] < h[j]
      /\ \E j \in 1 .. Len(p) : h[j] = 1
  BY <1>3, <1>4, <1>5, LenProperties DEF PicksBy
<1>7. PICK j \in 1 .. Len(p) : h[j] = 1
  BY <1>6
<1>8. j = 1
  <2>1. SUFFICES ASSUME j # 1
                 PROVE  FALSE
    OBVIOUS
  <2>2. 1 \in 1 .. Len(p) /\ 1 < j
    BY <1>6, <2>1
  <2>3. h[1] < h[j] /\ h[1] \in 1 .. Len(s)
    BY <1>6, <2>2
  <2>4. QED
    BY <1>1, <1>7, <2>3
<1>9. p[1] = s[1] /\ 1 \in 1 .. Len(p)
  BY <1>6, <1>7, <1>8
<1>10. p # <<>>
  BY <1>6, <1>9
<1>11. QED
  BY <1>9, <1>10 DEF p

LEMMA RotateFirst ==
  ASSUME NEW T, NEW s \in Seq(T), NEW i \in 1 .. Len(s)
  PROVE  Rotate(s, i - 1) # <<>> /\ Rotate(s, i - 1)[1] = s[i]
<1> DEFINE p == SubSeq(s, i, Len(s))
           q == SubSeq(s, 1, i - 1)
<1>1. Len(s) \in Nat /\ i \in Nat /\ \A k \in 1 .. Len(s) : s[k] \in T
  BY LenProperties, ElementOfSeq
<1>2. s # <<>> /\ (i - 1) % Len(s) = i - 1 /\ (i - 1) + 1 = i
  BY <1>1
<1>3. Rotate(s, i - 1) = p \o q
  BY <1>2 DEF Rotate
<1>4. p \in Seq(T) /\ Len(p) = Len(s) - i + 1 /\ \A k \in 1 .. Len(s) - i + 1 : p[k] = s[i + k - 1]
  BY <1>1, SubSeqProperties
<1>5. q \in Seq(T)
  <2>1. \A k \in 1 .. i - 1 : s[k] \in T
    BY <1>1
  <2>2. QED
    BY <1>1, <2>1, SubSeqProperties
<1> HIDE DEF p, q
<1>6. p # <<>> /\ p[1] = s[i]
  BY <1>1, <1>4
<1>7. /\ (p \o q)[1] = IF p = <<>> THEN q[1] ELSE p[1]
      /\ p \o q = <<>> <=> p = <<>> /\ q = <<>>
  <2>1. p \in Seq(T) /\ q \in Seq(T)
    BY <1>4, <1>5
  <2>2. QED
    BY <2>1, FirstOfTwo
<1>8. QED
  BY <1>3, <1>6, <1>7

LEMMA FlattenHead ==
  ASSUME NEW T, NEW seqs \in Seq(Seq(T)), seqs # <<>>, seqs[1] # <<>>
  PROVE  FlattenSeq(seqs) # <<>> /\ FlattenSeq(seqs)[1] = seqs[1][1]
<1> DEFINE x == seqs[1]
           q == Tail(seqs)
           r == FlattenSeq(q)
<1>1. Len(seqs) \in Nat \ {0} /\ x \in Seq(T) /\ q \in Seq(Seq(T))
  <2>1. Len(seqs) \in Nat \ {0} /\ 1 \in 1 .. Len(seqs)
    BY LenProperties, EmptySeq
  <2>2. x \in Seq(T)
    BY <2>1, ElementOfSeq
  <2>3. QED
    BY <2>1, <2>2
<1>2. seqs = <<x>> \o q
  OBVIOUS
<1>3. r \in Seq(T)
  BY <1>1, FlattenRange
<1> HIDE DEF x, q
<1>4. FlattenSeq(seqs) = x \o r
  BY <1>1, <1>2, FlattenFirst
<1> HIDE DEF r
<1>5. x \in Seq(T) /\ r \in Seq(T)
  BY <1>1, <1>3
<1>6. Len(x) \in Nat \ {0} /\ Len(r) \in Nat
  <2>1. x # <<>>
    BY DEF x
  <2>2. QED
    BY <1>5, <2>1, LenProperties, EmptySeq
<1>7. (x \o r)[1] = x[1] /\ Len(x \o r) = Len(x) + Len(r)
  BY <1>5, <1>6
<1>8. x \o r # <<>>
  BY <1>6, <1>7
<1>9. QED
  BY <1>4, <1>7, <1>8 DEF x

\* Everybody who takes part at a provider with weight is in it, and a member of the
\* provider that holds the ticket comes first.
LEMMA ByWeightFacts ==
  ASSUME NEW T, Sound(T), NEW members \in Seq(T), NEW policy, IsPolicy(policy), NEW n \in Nat
  PROVE  LET ordered == OrderByWeight(members, policy, n)
             total == TotalWeight(members, policy)
         IN /\ ordered \in Seq(T)
            /\ total \in Nat
            /\ ordered = <<>> <=> Contradictory(members, policy) \/ total = 0
            /\ ordered # <<>> =>
                 /\ ToSet(ordered) = {m \in ToSet(members) : /\ TakesPart(policy, m)
                                                             /\ ProviderWeight(members, policy, m.provider) > 0}
                 /\ ordered[1].provider = ProviderOrder[Holder(members, policy, n % total)]
<1> DEFINE ordered == OrderByWeight(members, policy, n)
           total == TotalWeight(members, policy)
           final == Len(ProviderOrder)
           holder == Holder(members, policy, n % total)
           Weight(p) == ProviderWeight(members, policy, p)
           all == ToSet(ProviderOrder)
           taking == {p \in all : Weight(p) > 0}
           rotated == Rotate(ProviderOrder, holder - 1)
           turn == Only(rotated, taking)
           Line(p) == Rotate(Participants(members, policy, p), n)
           seqs == [i \in DOMAIN turn |-> Line(turn[i])]
           part == {m \in ToSet(members) : TakesPart(policy, m) /\ Weight(m.provider) > 0}
<1>1. total \in Nat
  BY TicketFacts, Providers DEF TotalWeight
<1>2. ordered = IF Contradictory(members, policy) \/ total = 0 THEN <<>> ELSE FlattenSeq(seqs)
  BY DEF OrderByWeight, Holder
<1>3. CASE Contradictory(members, policy) \/ total = 0
  BY <1>1, <1>2, <1>3
<1>4. CASE ~ Contradictory(members, policy) /\ total # 0
  <2>1. n % total \in 0 .. total - 1
    BY <1>1, <1>4
  <2>2. holder \in 1 .. final /\ Weight(ProviderOrder[holder]) > 0
    <3> HIDE DEF total
    <3>1. n % total \in 0 .. TotalWeight(members, policy) - 1
      BY <2>1 DEF total
    <3>2. QED
      BY <3>1, HolderFacts DEF total
  <2>3. ProviderOrder \in Seq(all) /\ final \in Nat /\ ProviderOrder[holder] \in all
    BY <2>2, PolicyAssumption, Providers
  <2> HIDE DEF Weight, holder, all
  <2>4. /\ rotated \in Seq(all) /\ ToSet(rotated) = all
        /\ rotated # <<>> /\ rotated[1] = ProviderOrder[holder]
    <3>1. holder - 1 \in Nat
      BY <2>2, <2>3
    <3>2. rotated \in Seq(all) /\ ToSet(rotated) = ToSet(ProviderOrder)
      BY <2>3, <3>1, RotateFacts
    <3>3. rotated # <<>> /\ rotated[1] = ProviderOrder[holder]
      BY <2>2, <2>3, RotateFirst
    <3>4. QED
      BY <3>2, <3>3 DEF all
  <2> HIDE DEF rotated
  <2>5. /\ turn \in Seq(all) /\ ToSet(turn) = taking /\ turn # <<>> /\ turn[1] = ProviderOrder[holder]
    <3>1. taking \subseteq all /\ rotated[1] \in taking
      BY <2>2, <2>3, <2>4
    <3> HIDE DEF taking
    <3>2. turn \in Seq(all) /\ ToSet(turn) = all \cap taking
      BY <2>4, OnlyFacts
    <3>3. turn # <<>> /\ turn[1] = rotated[1]
      BY <2>4, <3>1, OnlyFirst
    <3>4. QED
      BY <2>4, <3>1, <3>2, <3>3
  <2>6. Len(turn) \in Nat \ {0} /\ DOMAIN turn = 1 .. Len(turn) /\ \A i \in 1 .. Len(turn) : turn[i] \in taking
    <3> HIDE DEF turn, taking
    <3>1. Len(turn) \in Nat \ {0} /\ DOMAIN turn = 1 .. Len(turn)
      BY <2>5, LenProperties, EmptySeq
    <3>2. QED
      BY <2>5, <3>1 DEF ToSet
  <2> HIDE DEF turn
  <2>7. ASSUME NEW p \in taking
        PROVE  /\ Line(p) \in Seq(T)
               /\ ToSet(Line(p)) = {m \in ToSet(members) : m.provider = p /\ TakesPart(policy, m)}
               /\ Line(p) # <<>>
    <3> DEFINE own == Participants(members, policy, p)
    <3>1. /\ own \in Seq(T)
          /\ ToSet(own) = {m \in ToSet(members) : m.provider = p /\ TakesPart(policy, m)}
      BY PartFacts DEF Taking
    <3>2. ToSet(own) # {}
      BY PartFacts, WeightFacts DEF Weight
    <3> HIDE DEF own
    <3>3. Rotate(own, n) \in Seq(T) /\ ToSet(Rotate(own, n)) = ToSet(own)
      BY <3>1, RotateFacts
    <3>4. Rotate(own, n) # <<>>
      BY <3>2, <3>3, FirstInRange
    <3>5. QED
      BY <3>1, <3>3, <3>4 DEF own
  <2> HIDE DEF Line
  <2>8. seqs \in Seq(Seq(T)) /\ Len(seqs) = Len(turn) /\ \A i \in 1 .. Len(turn) : seqs[i] = Line(turn[i])
    <3>1. \A i \in 1 .. Len(turn) : Line(turn[i]) \in Seq(T)
      BY <2>6, <2>7
    <3> HIDE DEF taking
    <3>2. QED
      BY <2>6, <3>1
  <2> HIDE DEF seqs
  <2>9. /\ FlattenSeq(seqs) \in Seq(T)
        /\ ToSet(FlattenSeq(seqs)) = UNION {ToSet(seqs[i]) : i \in 1 .. Len(seqs)}
    BY <2>8, FlattenRange
  <2>10. FlattenSeq(seqs) # <<>> /\ FlattenSeq(seqs)[1].provider = ProviderOrder[holder]
    <3>1. turn[1] \in taking /\ 1 \in 1 .. Len(turn)
      BY <2>6
    <3>2. seqs[1] = Line(turn[1]) /\ seqs # <<>>
      BY <2>8, <3>1
    <3> HIDE DEF taking
    <3>3. Line(turn[1]) \in Seq(T) /\ Line(turn[1]) # <<>>
      BY <2>7, <3>1
    <3>4. Line(turn[1])[1] \in ToSet(Line(turn[1]))
      BY <3>3, FirstInRange
    <3>5. Line(turn[1])[1].provider = turn[1]
      BY <2>7, <3>1, <3>4
    <3>6. FlattenSeq(seqs) # <<>> /\ FlattenSeq(seqs)[1] = seqs[1][1]
      BY <2>8, <3>2, <3>3, FlattenHead
    <3>7. QED
      BY <2>5, <3>2, <3>5, <3>6
  <2>11. ToSet(FlattenSeq(seqs)) = part
    <3>1. ASSUME NEW i \in 1 .. Len(turn), NEW m \in ToSet(seqs[i])
          PROVE  m \in part
      <4>1. turn[i] \in taking /\ seqs[i] = Line(turn[i])
        BY <2>6, <2>8
      <4>2. m \in ToSet(members) /\ m.provider = turn[i] /\ TakesPart(policy, m)
        <5> HIDE DEF taking
        <5>1. QED
          BY <2>7, <3>1, <4>1
      <4>3. QED
        BY <4>1, <4>2
    <3>2. ASSUME NEW m \in part
          PROVE  \E i \in 1 .. Len(turn) : m \in ToSet(seqs[i])
      <4>1. m \in T
        BY RangeOf
      <4>2. m.provider \in taking
        BY <4>1 DEF Sound, all
      <4>3. PICK i \in 1 .. Len(turn) : turn[i] = m.provider
        <5> HIDE DEF taking
        <5>1. QED
          BY <2>5, <2>6, <4>2 DEF ToSet
      <4>4. seqs[i] = Line(m.provider)
        BY <2>8, <4>3
      <4>5. m \in ToSet(Line(m.provider))
        BY <2>7, <4>2
      <4>6. QED
        BY <4>4, <4>5
    <3> HIDE DEF part
    <3>3. QED
      BY <2>8, <2>9, <3>1, <3>2
  <2> HIDE DEF part, ordered, total
  <2>12. QED
    BY <1>1, <1>2, <1>4, <2>9, <2>10, <2>11 DEF part, Weight, holder, ordered, total
<1>5. QED
  BY <1>3, <1>4
-----------------------------------------------------------------------------
(* A cycle of the counter *)

\* Each provider is first at its own tickets, and it has as many as its weight.
LEMMA ShareFacts ==
  ASSUME NEW T, Sound(T), NEW members \in Seq(T), NEW policy, IsPolicy(policy),
         ~ Contradictory(members, policy), NEW i \in 1 .. Len(ProviderOrder)
  PROVE  Cardinality({n \in 0 .. TotalWeight(members, policy) - 1 :
                        OrderByWeight(members, policy, n)[1].provider = ProviderOrder[i]})
           = ProviderWeight(members, policy, ProviderOrder[i])
<1> DEFINE cursor == Tickets(members, policy)
           final == Len(ProviderOrder)
           total == TotalWeight(members, policy)
           W == ProviderWeight(members, policy, ProviderOrder[i])
           First(n) == OrderByWeight(members, policy, n)[1].provider
           own == {n \in 0 .. total - 1 : First(n) = ProviderOrder[i]}
<1>1. final \in Nat /\ i \in 0 .. final /\ i - 1 \in 0 .. final /\ final \in 0 .. final
  BY Providers
<1>2. /\ cursor[i] = cursor[i - 1] + W
      /\ cursor[i] \in Nat /\ cursor[i - 1] \in Nat /\ cursor[final] \in Nat
  BY <1>1, TicketFacts
<1>3. cursor[i] <= cursor[final]
  BY <1>1, TicketsRise
<1>4. total = cursor[final]
  BY DEF TotalWeight
<1> HIDE DEF cursor, total
<1>5. ASSUME NEW n \in 0 .. total - 1
      PROVE  First(n) = ProviderOrder[i] <=> cursor[i - 1] <= n /\ n < cursor[i]
  <2> DEFINE h == Holder(members, policy, n)
             ordered == OrderByWeight(members, policy, n)
  <2>1. n \in Nat /\ total # 0 /\ n % total = n
    <3>1. total \in Nat
      BY <1>2, <1>4
    <3>2. n \in Nat /\ total # 0 /\ n < total
      BY <3>1
    <3>3. QED
      BY <3>1, <3>2
  <2>2. n \in 0 .. TotalWeight(members, policy) - 1
    BY DEF total
  <2>3. /\ h \in 1 .. final
        /\ \A k \in 1 .. final : cursor[k - 1] <= n /\ n < cursor[k] <=> k = h
    BY <2>2, HolderFacts DEF cursor
  <2>4. /\ ordered = <<>> <=> Contradictory(members, policy) \/ total = 0
        /\ ordered # <<>> => ordered[1].provider = ProviderOrder[Holder(members, policy, n % total)]
    <3>1. n \in Nat
      BY <2>1
    <3>2. QED
      BY <3>1, ByWeightFacts DEF total
  <2>5. First(n) = ProviderOrder[h]
    BY <2>1, <2>4
  <2>6. ProviderOrder[h] = ProviderOrder[i] => h = i
    BY <2>3, Providers
  <2> HIDE DEF First, h
  <2>7. QED
    BY <2>3, <2>5, <2>6
<1> HIDE DEF First
<1>6. own = cursor[i - 1] .. (cursor[i] - 1)
  <2>1. ASSUME NEW n \in own
        PROVE  n \in cursor[i - 1] .. (cursor[i] - 1)
    BY <1>2, <1>4, <1>5
  <2>2. ASSUME NEW n \in cursor[i - 1] .. (cursor[i] - 1)
        PROVE  n \in own
    <3>1. n \in 0 .. total - 1
      BY <1>2, <1>3, <1>4
    <3>2. QED
      BY <1>2, <1>5, <3>1
  <2> HIDE DEF own
  <2>3. QED
    BY <2>1, <2>2
<1> HIDE DEF own
<1>7. W \in Nat
  BY WeightFacts
<1> HIDE DEF W
<1>8. Cardinality(cursor[i - 1] .. (cursor[i] - 1)) = W
  <2>1. cursor[i - 1] \in Int /\ cursor[i] - 1 \in Int
    BY <1>2
  <2>2. Cardinality(cursor[i - 1] .. (cursor[i] - 1))
          = IF cursor[i - 1] > cursor[i] - 1 THEN 0 ELSE (cursor[i] - 1) - cursor[i - 1] + 1
    BY <2>1, FS_Interval
  <2>3. QED
    BY <1>2, <1>7, <2>2
<1>9. QED
  BY <1>6, <1>8 DEF own, First, W, total

-----------------------------------------------------------------------------
(* The members and what is made of them *)

\* What the catalog of a setup can offer to its bucket.
Offered(s) ==
  {[id |-> e.id, provider |-> e.provider, cost |-> e.cost, family |-> e.family,
    class |-> ModelClass(e, Generic(s.bucket))] : e \in ToSet(s.catalog)}

LEMMA OfferedIsSound ==
  ASSUME NEW s \in Setups
  PROVE  Sound(Offered(s)) /\ IsPolicy(s.policy) /\ s.bucket.floor \in Classes
<1>1. /\ s.catalog \in Seq(ToSet(s.catalog))
      /\ \A i, j \in DOMAIN s.catalog : s.catalog[i].id = s.catalog[j].id => i = j
      /\ \A e \in ToSet(s.catalog) :
           /\ e.id \in ToSet(ModelOrder) /\ e.provider \in ToSet(ProviderOrder)
           /\ e.cost \in 0 .. 3 /\ {e.size, e.review.class} \subseteq Classes \cup {NoClass}
  BY ChainAssumption
<1>2. IsPolicy(s.policy) /\ s.bucket.floor \in Classes
  BY ChainAssumption DEF IsPolicy
<1>3. ASSUME NEW e \in ToSet(s.catalog)
      PROVE  ModelClass(e, Generic(s.bucket)) \in -1 .. 3
  <2>1. e.size \in -1 .. 3 /\ e.review.class \in -1 .. 3
    BY <1>1 DEF Classes, NoClass
  <2>2. Cap(e) \in 0 .. 3
    BY DEF Cap
  <2>3. EffectiveClass(e) \in -1 .. 3
    BY <2>1, <2>2 DEF EffectiveClass, Lower, NoClass
  <2>4. QED
    BY <2>1, <2>3 DEF ModelClass, Lower
<1>4. ASSUME NEW d \in ToSet(s.catalog), NEW e \in ToSet(s.catalog), d.id = e.id
      PROVE  d = e
  <2>1. PICK i \in DOMAIN s.catalog : d = s.catalog[i]
    BY DEF ToSet
  <2>2. PICK j \in DOMAIN s.catalog : e = s.catalog[j]
    BY DEF ToSet
  <2>3. QED
    BY <1>1, <1>4, <2>1, <2>2
<1>5. Sound(Offered(s))
  <2>1. ASSUME NEW m \in Offered(s)
        PROVE  /\ m.id \in ToSet(ModelOrder) /\ m.provider \in ToSet(ProviderOrder)
               /\ m.cost \in 0 .. 3 /\ m.class \in -1 .. 3
    BY <1>1, <1>3 DEF Offered
  <2>2. ASSUME NEW a \in Offered(s), NEW b \in Offered(s), a.id = b.id
        PROVE  a = b
    BY <1>4, <2>2 DEF Offered
  <2>3. QED
    BY <2>1, <2>2 DEF Sound
<1>6. QED
  BY <1>2, <1>5

\* The members are offers, and the members of a request without tools are all there
\* are.
LEMMA MemberFacts ==
  ASSUME NEW s \in Setups, NEW ids, NEW tools \in BOOLEAN
  PROVE  /\ Members(s.catalog, ids, s.bucket, tools) \in Seq(Offered(s))
         /\ ToSet(Members(s.catalog, ids, s.bucket, TRUE)) \subseteq ToSet(Members(s.catalog, ids, s.bucket, tools))
<1> DEFINE T == Offered(s)
           generic == Generic(s.bucket)
           Offer(e) == [id |-> e.id, provider |-> e.provider, cost |-> e.cost, family |-> e.family,
                        class |-> ModelClass(e, generic)]
           May(e) == /\ generic \/ e.provider = s.bucket.provider
                     /\ RemoteOnly(s.bucket, e.provider)
                     /\ e.id \in ids
                     /\ e.zone <= s.bucket.ceiling
                     /\ MeetsClassFloor(e, s.bucket.floor, generic)
           Line(e, t) == IF May(e) /\ (t => ToolUse(e)) THEN <<Offer(e)>> ELSE <<>>
           seqs(t) == [i \in DOMAIN s.catalog |-> Line(s.catalog[i], t)]
<1>1. s.catalog \in Seq(ToSet(s.catalog))
  BY ChainAssumption
<1>2. \A t : Members(s.catalog, ids, s.bucket, t) = FlattenSeq(seqs(t))
  BY DEF Members
<1>3. \A e \in ToSet(s.catalog) : Offer(e) \in T
  BY DEF Offered
<1> HIDE DEF May, Offer, T
<1>4. /\ Len(s.catalog) \in Nat /\ DOMAIN s.catalog = 1 .. Len(s.catalog)
      /\ \A i \in 1 .. Len(s.catalog) : s.catalog[i] \in ToSet(s.catalog)
  BY <1>1, LenProperties DEF ToSet
<1>5. ASSUME NEW t
      PROVE  /\ seqs(t) \in Seq(Seq(T)) /\ Len(seqs(t)) = Len(s.catalog)
             /\ \A i \in 1 .. Len(s.catalog) : seqs(t)[i] = Line(s.catalog[i], t)
  <2>1. \A e \in ToSet(s.catalog) : Line(e, t) \in Seq(T)
    BY <1>3
  <2> HIDE DEF Line
  <2>2. QED
    BY <1>4, <2>1
<1>6. ASSUME NEW e \in ToSet(s.catalog)
      PROVE  ToSet(Line(e, TRUE)) \subseteq ToSet(Line(e, tools))
  <2>1. ToSet(<<>>) = {}
    BY DEF ToSet
  <2>2. CASE Line(e, TRUE) = <<>>
    BY <2>1, <2>2
  <2>3. CASE Line(e, TRUE) # <<>>
    BY <2>3
  <2>4. QED
    BY <2>2, <2>3
<1> HIDE DEF Line, seqs
<1>7. ASSUME NEW t
      PROVE  /\ FlattenSeq(seqs(t)) \in Seq(T)
             /\ ToSet(FlattenSeq(seqs(t))) = UNION {ToSet(seqs(t)[i]) : i \in 1 .. Len(seqs(t))}
  BY <1>5, FlattenRange
<1> DEFINE some == seqs(TRUE)
           each == seqs(tools)
<1>8. /\ FlattenSeq(some) \in Seq(T)
      /\ ToSet(FlattenSeq(some)) = UNION {ToSet(some[i]) : i \in 1 .. Len(some)}
      /\ Len(some) = Len(s.catalog)
      /\ \A i \in 1 .. Len(s.catalog) : some[i] = Line(s.catalog[i], TRUE)
  BY <1>5, <1>7, Zenon
<1>9. /\ FlattenSeq(each) \in Seq(T)
      /\ ToSet(FlattenSeq(each)) = UNION {ToSet(each[i]) : i \in 1 .. Len(each)}
      /\ Len(each) = Len(s.catalog)
      /\ \A i \in 1 .. Len(s.catalog) : each[i] = Line(s.catalog[i], tools)
  BY <1>5, <1>7, Zenon
<1>10. /\ Members(s.catalog, ids, s.bucket, TRUE) = FlattenSeq(some)
       /\ Members(s.catalog, ids, s.bucket, tools) = FlattenSeq(each)
  BY <1>2, Zenon
<1> HIDE DEF some, each
<1>11. ASSUME NEW i \in 1 .. Len(s.catalog)
       PROVE  ToSet(some[i]) \subseteq ToSet(each[i])
  <2>1. s.catalog[i] \in ToSet(s.catalog)
    BY <1>4
  <2>2. ToSet(Line(s.catalog[i], TRUE)) \subseteq ToSet(Line(s.catalog[i], tools))
    BY <1>6, <2>1, Zenon
  <2>3. some[i] = Line(s.catalog[i], TRUE) /\ each[i] = Line(s.catalog[i], tools)
    BY <1>8, <1>9, Zenon
  <2>4. QED
    BY <2>2, <2>3, Zenon
<1>12. ToSet(FlattenSeq(some)) \subseteq ToSet(FlattenSeq(each))
  BY <1>8, <1>9, <1>11
<1>13. QED
  BY <1>8, <1>9, <1>10, <1>12 DEF T

LEMMA WithinFacts ==
  ASSUME NEW T, NEW ordered \in Seq(T), NEW wishes, wishes \in Seq(ToSet(wishes))
  PROVE  /\ WishedWithin(ordered, wishes) \in Seq(T)
         /\ ToSet(WishedWithin(ordered, wishes)) = ToSet(ordered)
<1>1. CASE ordered = <<>>
  BY <1>1 DEF WishedWithin
<1>2. CASE ordered # <<>>
  <2> DEFINE turn == {m \in ToSet(ordered) : m.provider = ordered[1].provider}
             own == Only(ordered, turn)
             others == ToSet(ordered) \ turn
             rest == Only(ordered, others)
             wished == ApplyPreference(own, wishes)
  <2>1. WishedWithin(ordered, wishes) = wished \o rest
    BY <1>2 DEF WishedWithin
  <2>2. turn \subseteq ToSet(ordered)
    OBVIOUS
  <2>3. turn \cup others = ToSet(ordered)
    BY <2>2
  <2> HIDE DEF turn, others
  <2>4. own \in Seq(T) /\ ToSet(own) = ToSet(ordered) \cap turn
    BY OnlyFacts
  <2>5. rest \in Seq(T) /\ ToSet(rest) = ToSet(ordered) \cap others
    BY OnlyFacts
  <2> HIDE DEF own, rest
  <2>6. wished \in Seq(T) /\ ToSet(wished) = ToSet(own)
    BY <2>4, WishFacts
  <2> HIDE DEF wished
  <2>7. wished \o rest \in Seq(T) /\ ToSet(wished \o rest) = ToSet(wished) \cup ToSet(rest)
    BY <2>5, <2>6, ConcatRange
  <2>8. QED
    BY <2>1, <2>3, <2>4, <2>5, <2>6, <2>7
<1>3. QED
  BY <1>1, <1>2

\* What keeps a member out of a weighted bucket: a decision about it or about its
\* provider.
Admitted(policy, m) == TakesPart(policy, m) /\ Decision(policy, m.provider, NoModel).enabled

\* The members come in an order that begins with one of them, admitted where
\* weights are, and with the remembered one where that is a member.
LEMMA OrderedFacts ==
  ASSUME NEW T, Sound(T), NEW members \in Seq(T), members # <<>>, NEW policy, IsPolicy(policy),
         NEW bucket, bucket.floor \in Classes, NEW n \in Nat, NEW memory,
         NEW wishes, wishes \in Seq(ToSet(wishes)),
         Ordered(members, bucket, policy, n, wishes, memory) # <<>>
  PROVE  LET first == Ordered(members, bucket, policy, n, wishes, memory)[1]
         IN /\ first \in ToSet(members)
            /\ Weighted(bucket) => Admitted(policy, first)
            /\ \A m \in ToSet(members) :
                 m.id = memory.id /\ (Weighted(bucket) => Admitted(policy, m)) => first = m
<1> DEFINE ordered == Ordered(members, bucket, policy, n, wishes, memory)
           first == ordered[1]
<1>1. CASE Weighted(bucket)
  <2> DEFINE base == OrderByWeight(members, policy, n)
             wished == WishedWithin(base, wishes)
             part == {m \in ToSet(members) : /\ TakesPart(policy, m)
                                             /\ ProviderWeight(members, policy, m.provider) > 0}
  <2>1. ordered = PreferRemembered(wished, memory)
    BY <1>1 DEF Ordered
  <2>2. base \in Seq(T) /\ (base # <<>> => ToSet(base) = part)
    BY ByWeightFacts
  <2> HIDE DEF base, part
  <2>3. wished \in Seq(T) /\ ToSet(wished) = ToSet(base)
    BY <2>2, WithinFacts
  <2> HIDE DEF wished
  <2>4. /\ ordered \in Seq(T) /\ ToSet(ordered) = ToSet(wished)
        /\ wished = <<>> => ordered = <<>>
        /\ \A m \in ToSet(wished) : m.id = memory.id => first = m
    BY <2>1, <2>3, PreferFacts
  <2> HIDE DEF ordered
  <2>5. ordered # <<>> /\ first \in ToSet(ordered)
    <3>1. ordered # <<>>
      BY DEF ordered
    <3>2. QED
      BY <2>4, <3>1, FirstInRange
  <2>6. base # <<>>
    BY <2>2, <2>3, <2>4, <2>5, FirstInRange
  <2>7. ToSet(ordered) = part
    BY <2>2, <2>3, <2>4, <2>6
  <2>8. ASSUME NEW m \in ToSet(members)
        PROVE  m \in part <=> Admitted(policy, m)
    <3>2. ProviderWeight(members, policy, m.provider) > 0
            <=> Taking(members, policy, m.provider) # {} /\ Decision(policy, m.provider, NoModel).enabled
      BY WeightFacts
    <3>3. TakesPart(policy, m) => Taking(members, policy, m.provider) # {}
      BY DEF Taking
    <3>4. QED
      BY <3>2, <3>3 DEF part, Admitted
  <2>9. part \subseteq ToSet(members)
    BY DEF part
  <2>10. first \in ToSet(members) /\ Admitted(policy, first)
    BY <2>5, <2>7, <2>8, <2>9
  <2>11. ASSUME NEW m \in ToSet(members), m.id = memory.id, Admitted(policy, m)
         PROVE  first = m
    BY <2>4, <2>7, <2>8, <2>11
  <2>12. QED
    BY <1>1, <2>10, <2>11 DEF ordered
<1>2. CASE ~ Weighted(bucket)
  <2> DEFINE picked == SelectMember(members, n, wishes, bucket.floor)
             others == ToSet(members) \ {picked}
             line == Only(members, others)
             all == <<picked>> \o line
             kept == PreferRemembered(all, memory)
             tail == Only(OrderForClass(members, bucket.floor, n), ToSet(members) \ {kept[1]})
  <2>1. ordered = <<kept[1]>> \o tail
    BY <1>2 DEF Ordered
  <2>2. picked \in ToSet(members)
    BY PickedMember
  <2>3. picked \in T
    BY <2>2, RangeOf
  <2> HIDE DEF picked
  <2>4. ToSet(members) \cap others = others
    OBVIOUS
  <2>5. {picked} \cup others = ToSet(members)
    BY <2>2
  <2> HIDE DEF others
  <2>6. line \in Seq(T) /\ ToSet(line) = ToSet(members) \cap others
    BY OnlyFacts
  <2> HIDE DEF line
  <2>7. <<picked>> \in Seq(T) /\ ToSet(<<picked>>) = {picked}
    BY <2>3 DEF ToSet
  <2>8. <<picked>> \o line \in Seq(T) /\ ToSet(<<picked>> \o line) = ToSet(<<picked>>) \cup ToSet(line)
    BY <2>6, <2>7, ConcatRange
  <2>9. all \in Seq(T) /\ ToSet(all) = ToSet(members)
    BY <2>4, <2>5, <2>6, <2>7, <2>8
  <2> HIDE DEF all
  <2>10. /\ kept \in Seq(T) /\ ToSet(kept) = ToSet(members)
         /\ \A m \in ToSet(members) : m.id = memory.id => kept[1] = m
    BY <2>9, PreferFacts
  <2> HIDE DEF kept
  <2>11. kept[1] \in ToSet(members)
    BY <2>2, <2>10, FirstInRange
  <2>12. tail \in Seq(T)
    <3> DEFINE byClass == OrderForClass(members, bucket.floor, n)
    <3>1. byClass \in Seq(T)
      BY ForClassFacts
    <3> HIDE DEF byClass
    <3>2. Only(byClass, ToSet(members) \ {kept[1]}) \in Seq(T)
      BY <3>1, OnlyFacts
    <3>3. QED
      BY <3>2 DEF byClass
  <2> HIDE DEF tail
  <2>13. first = kept[1]
    BY <2>1, <2>12
  <2>14. QED
    BY <1>2, <2>10, <2>11, <2>13
<1>3. QED
  BY <1>1, <1>2

-----------------------------------------------------------------------------
(* The conversations *)

\* What a conversation may remember: nothing, or an offer that its bucket admits.
Picks(s) ==
  {NoPick} \cup {[id |-> m.id, family |-> m.family] :
                   m \in {o \in Offered(s) : Weighted(s.bucket) => Admitted(s.policy, o)}}

\* Whatever is asked and whatever is remembered, the pick is one a conversation may
\* remember, and it is the remembered one as long as that is a member.
LEMMA PickFacts ==
  ASSUME NEW s \in Setups, NEW members \in Seq(Offered(s)), members # <<>>,
         NEW able, able \subseteq ToSet(members), NEW n \in Nat, NEW wishes \in Wishes, NEW memory,
         Ordered(members, s.bucket, s.policy, n, wishes, memory) # <<>>
  PROVE  LET first == Ordered(members, s.bucket, s.policy, n, wishes, memory)[1]
             pick == [id |-> first.id, family |-> first.family]
         IN /\ pick \in Picks(s)
            /\ memory \in Picks(s) /\ memory.id \in {m.id : m \in able} => pick = memory
<1> DEFINE T == Offered(s)
           ordered == Ordered(members, s.bucket, s.policy, n, wishes, memory)
           first == ordered[1]
           pick == [id |-> first.id, family |-> first.family]
<1>1. Sound(T) /\ IsPolicy(s.policy) /\ s.bucket.floor \in Classes
  BY OfferedIsSound
<1>2. members \in Seq(T)
  OBVIOUS
<1>3. wishes \in Seq(ToSet(wishes)) /\ NoPick.id \notin ToSet(ModelOrder)
  BY ChainAssumption
<1>4. /\ first \in ToSet(members)
      /\ Weighted(s.bucket) => Admitted(s.policy, first)
      /\ \A m \in ToSet(members) :
           m.id = memory.id /\ (Weighted(s.bucket) => Admitted(s.policy, m)) => first = m
  <2> HIDE DEF T
  <2>1. QED
    BY <1>1, <1>2, <1>3, OrderedFacts
<1> HIDE DEF ordered
<1>5. ToSet(members) \subseteq T
  <2> HIDE DEF T
  <2>1. QED
    BY <1>2, RangeOf
<1> HIDE DEF first
<1>6. pick \in Picks(s)
  BY <1>4, <1>5 DEF Picks
<1>7. ASSUME memory \in Picks(s), memory.id \in {m.id : m \in able}
      PROVE  pick = memory
  <2>1. PICK m \in able : m.id = memory.id
    BY <1>7
  <2>2. m \in ToSet(members) /\ m \in T
    BY <1>2, <1>5, <2>1
  <2>3. memory # NoPick
    BY <1>1, <1>3, <2>1, <2>2 DEF Sound
  <2>4. PICK o \in T : /\ Weighted(s.bucket) => Admitted(s.policy, o)
                       /\ memory = [id |-> o.id, family |-> o.family]
    BY <1>7, <2>3 DEF Picks
  <2>5. o = m
    BY <1>1, <2>1, <2>2, <2>4 DEF Sound
  <2>6. first = m
    BY <1>4, <2>1, <2>2, <2>4, <2>5
  <2>7. QED
    BY <2>4, <2>5, <2>6
<1>8. QED
  BY <1>6, <1>7 DEF first, ordered

\* The keys of the memory stand in a line, the one that goes first at the front:
\* whoever stands behind a key had a turn since that was continued.
Standing(keys, others) ==
  /\ keys \in Seq(Keys) /\ OnceEach(keys)
  /\ \A i, j \in 1 .. Len(keys) : i < j => keys[j] \in others[keys[i]]

Others == [k \in Keys |-> last[k].others]

\* An entry is what is known of the key, for as long as it lives, and a key that is
\* due by that is in the Map.
ChainInv ==
  /\ setup \in Setups
  /\ counter \in Nat
  /\ Len(order) <= AffinityEntries
  /\ Standing(order, Others)
  /\ entry \in [Keys -> [pick : Picks(setup), left : 0 .. AffinityTtl]]
  /\ last \in [Keys -> [pick : Picks(setup), age : 0 .. AffinityTtl, others : SUBSET Keys]]
  /\ \A k \in Keys :
       /\ entry[k].pick = last[k].pick /\ entry[k].left = AffinityTtl - last[k].age
       /\ IsFiniteSet(last[k].others)
       /\ Contains(order, k) => last[k].pick # NoPick
       /\ Recent(k) => Contains(order, k)

LEMMA StandsWithMore ==
  ASSUME NEW keys, NEW before, NEW after, Standing(keys, before),
         \A k \in Keys : Contains(keys, k) => before[k] \subseteq after[k]
  PROVE  Standing(keys, after)
<1>1. Len(keys) \in Nat /\ \A i \in 1 .. Len(keys) : keys[i] \in Keys /\ Contains(keys, keys[i])
  BY LenProperties, ElementOfSeq DEF Standing, Contains
<1>2. QED
  BY <1>1 DEF Standing

LEMMA StandsWithout ==
  ASSUME NEW keys, NEW others, Standing(keys, others), NEW i \in 1 .. Len(keys)
  PROVE  Standing(RemoveAt(keys, i), others)
<1> DEFINE t == RemoveAt(keys, i)
<1>1. /\ keys \in Seq(Keys) /\ Len(keys) \in Nat
      /\ t \in Seq(Keys) /\ Len(t) = Len(keys) - 1 /\ OnceEach(t)
      /\ \A j \in 1 .. Len(keys) - 1 : t[j] = IF j < i THEN keys[j] ELSE keys[j + 1]
  BY RemoveAtFacts, LeftFacts, LenProperties DEF Standing
<1> HIDE DEF t
<1>2. ASSUME NEW a \in 1 .. Len(t), NEW b \in 1 .. Len(t), a < b
      PROVE  t[b] \in others[t[a]]
  <2> DEFINE Source(j) == IF j < i THEN j ELSE j + 1
  <2>1. Source(a) \in 1 .. Len(keys) /\ Source(b) \in 1 .. Len(keys) /\ Source(a) < Source(b)
    BY <1>1, <1>2
  <2>2. t[a] = keys[Source(a)] /\ t[b] = keys[Source(b)]
    BY <1>1
  <2> HIDE DEF Source
  <2>3. QED
    BY <2>1, <2>2 DEF Standing
<1>3. QED
  BY <1>1, <1>2 DEF Standing, t

LEMMA StandsBehind ==
  ASSUME NEW keys, NEW others, Standing(keys, others), NEW k \in Keys, ~ Contains(keys, k),
         \A key \in Keys : Contains(keys, key) => k \in others[key]
  PROVE  Standing(Append(keys, k), others)
<1> DEFINE t == Append(keys, k)
<1>1. /\ keys \in Seq(Keys) /\ Len(keys) \in Nat
      /\ t \in Seq(Keys) /\ Len(t) = Len(keys) + 1 /\ OnceEach(t)
      /\ t[Len(keys) + 1] = k /\ \A j \in 1 .. Len(keys) : t[j] = keys[j]
  BY JoinedFacts, AppendProperties, LenProperties DEF Standing
<1> HIDE DEF t
<1>2. \A i \in 1 .. Len(keys) : keys[i] \in Keys /\ Contains(keys, keys[i])
  BY <1>1, ElementOfSeq DEF Contains
<1>3. ASSUME NEW a \in 1 .. Len(t), NEW b \in 1 .. Len(t), a < b
      PROVE  t[b] \in others[t[a]]
  <2>1. a \in 1 .. Len(keys)
    BY <1>1, <1>3
  <2>2. CASE b = Len(keys) + 1
    BY <1>1, <1>2, <2>1, <2>2
  <2>3. CASE b # Len(keys) + 1
    <3>1. b \in 1 .. Len(keys)
      BY <1>1, <2>3
    <3>2. QED
      BY <1>1, <1>3, <2>1, <3>1 DEF Standing
  <2>4. QED
    BY <2>2, <2>3
<1>4. QED
  BY <1>1, <1>3 DEF Standing, t

\* The oldest goes, and everyone behind it has had a turn since it was continued.
LEMMA StandsAfter ==
  ASSUME NEW keys, NEW others, Standing(keys, others), keys # <<>>,
         others[Head(keys)] \subseteq Keys, IsFiniteSet(others[Head(keys)])
  PROVE  /\ Standing(Tail(keys), others)
         /\ Len(keys) - 1 <= Cardinality(others[Head(keys)])
<1> DEFINE t == Tail(keys)
           there == others[Head(keys)]
<1>1. /\ keys \in Seq(Keys) /\ Len(keys) \in Nat \ {0} /\ Head(keys) = keys[1]
      /\ t \in Seq(Keys) /\ Len(t) = Len(keys) - 1 /\ OnceEach(t)
      /\ \A j \in 1 .. Len(keys) - 1 : t[j] = keys[j + 1]
  BY AdmittedFacts, HeadTailProperties, LenProperties, EmptySeq DEF Standing
<1> HIDE DEF t
<1>2. \A j \in 1 .. Len(t) : j + 1 \in 1 .. Len(keys) /\ t[j] = keys[j + 1]
  BY <1>1
<1>3. \A a, b \in 1 .. Len(t) : a < b => t[b] \in others[t[a]]
  <2>1. \A a, b \in 1 .. Len(t) : a < b => a + 1 < b + 1
    BY <1>1
  <2>2. QED
    BY <1>2, <2>1 DEF Standing
<1>4. \A j \in 1 .. Len(t) : t[j] \in there
  <2>1. \A j \in 1 .. Len(t) : 1 \in 1 .. Len(keys) /\ 1 < j + 1
    BY <1>1
  <2>2. QED
    BY <1>1, <1>2, <2>1 DEF Standing
<1>5. Len(t) <= Cardinality(there)
  <2> DEFINE f == [j \in 1 .. Len(t) |-> t[j]]
  <2>1. f \in Injection(1 .. Len(t), there)
    BY <1>1, <1>4 DEF Injection, IsInjective, OnceEach
  <2>2. Cardinality(1 .. Len(t)) <= Cardinality(there)
    BY <2>1, FS_Injection
  <2>3. Cardinality(1 .. Len(t)) = Len(t)
    <3>1. Len(t) \in Nat /\ 1 \in Int /\ Len(t) \in Int
      BY <1>1
    <3>2. Cardinality(1 .. Len(t)) = IF 1 > Len(t) THEN 0 ELSE Len(t) - 1 + 1
      BY <3>1, FS_Interval
    <3>3. QED
      BY <3>1, <3>2
  <2>4. QED
    BY <2>2, <2>3
<1>6. QED
  BY <1>1, <1>3, <1>5 DEF Standing, t, there

LEMMA ChainStarts ==
  ChainInit => ChainInv
<1> SUFFICES ASSUME ChainInit
             PROVE  ChainInv
  OBVIOUS
<1>1. NoPick \in Picks(setup) /\ AffinityTtl \in Nat \ {0} /\ AffinityEntries \in Nat
  BY ChainAssumption DEF Picks
<1>2. /\ setup \in Setups /\ counter = 0 /\ order = <<>>
      /\ entry = [k \in Keys |-> [pick |-> NoPick, left |-> 0]]
      /\ last = [k \in Keys |-> [pick |-> NoPick, age |-> AffinityTtl, others |-> {}]]
  BY DEF ChainInit
<1>3. Len(order) <= AffinityEntries /\ Standing(order, Others) /\ \A k : ~ Contains(order, k)
  BY <1>1, <1>2, EmptySeq DEF Standing, OnceEach, Contains
<1>4. entry \in [Keys -> [pick : Picks(setup), left : 0 .. AffinityTtl]]
  BY <1>1, <1>2
<1>5. last \in [Keys -> [pick : Picks(setup), age : 0 .. AffinityTtl, others : SUBSET Keys]]
  BY <1>1, <1>2
<1>6. ASSUME NEW k \in Keys
      PROVE  /\ entry[k].pick = last[k].pick /\ entry[k].left = AffinityTtl - last[k].age
             /\ IsFiniteSet(last[k].others) /\ ~ Recent(k)
  <2>1. entry[k].pick = NoPick /\ entry[k].left = 0
    BY <1>2
  <2>2. last[k].pick = NoPick /\ last[k].age = AffinityTtl /\ last[k].others = {}
    BY <1>2
  <2>3. 0 = AffinityTtl - AffinityTtl
    BY <1>1
  <2>4. QED
    BY <2>1, <2>2, <2>3, FS_EmptySet DEF Recent
<1>7. QED
  BY <1>2, <1>3, <1>4, <1>5, <1>6 DEF ChainInv

\* What a turn looks at and what it picks: the member that is remembered, if that is
\* eligible and anything is picked at all.
Looks(s) == s \in answered /\ KeyOf[s] \in Keys
MemoryOf(s) == IF Looks(s) THEN Recalled(KeyOf[s]) ELSE NoPick
Read(s) == IF Looks(s) THEN Looked(KeyOf[s]) ELSE order

LEMMA TurnFacts ==
  ASSUME ChainInv, NEW s \in Sessions, Turn(s)
  PROVE  \E pick \in Picks(setup) :
           LET keeps == KeyOf[s] \in Keys /\ pick # NoPick
           IN /\ \/ pick = NoPick \/ MemoryOf(s).id \notin {m.id : m \in ToSet(Pool(TRUE))}
                 \/ pick = MemoryOf(s)
              /\ order' = IF keeps THEN Kept(Read(s), KeyOf[s]) ELSE Read(s)
              /\ entry' = IF keeps THEN [entry EXCEPT ![KeyOf[s]] = [pick |-> pick, left |-> AffinityTtl]]
                          ELSE entry
              /\ last' = IF KeyOf[s] \in Keys THEN Noted(KeyOf[s], s \in answered, pick) ELSE last
<1> DEFINE k == KeyOf[s]
           Asked(tools) == Members(setup.catalog, routable, setup.bucket, tools)
           Line(tools, wishes) == Ordered(Asked(tools), setup.bucket, setup.policy, counter, wishes, MemoryOf(s))
           Keeps(pick) == k \in Keys /\ pick # NoPick
           Writes(pick) ==
             /\ order' = IF Keeps(pick) THEN Kept(Read(s), k) ELSE Read(s)
             /\ entry' = IF Keeps(pick) THEN [entry EXCEPT ![k] = [pick |-> pick, left |-> AffinityTtl]] ELSE entry
             /\ last' = IF k \in Keys THEN Noted(k, s \in answered, pick) ELSE last
<1>1. PICK wishes \in Wishes, tools \in BOOLEAN :
        Asked(tools) # <<>> /\ Writes(PickOf(Line(tools, wishes)))
  BY DEF Turn, MemoryOf, Read, Looks
<1> DEFINE members == Asked(tools)
           ordered == Line(tools, wishes)
           pick == PickOf(ordered)
<1>2. setup \in Setups /\ counter \in Nat
  BY DEF ChainInv
<1>3. MemoryOf(s) \in Picks(setup)
  <2>1. NoPick \in Picks(setup) /\ (k \in Keys => entry[k].pick \in Picks(setup))
    BY DEF ChainInv, Picks
  <2>2. QED
    BY <2>1 DEF MemoryOf, Looks, Recalled
<1>4. /\ pick \in Picks(setup)
      /\ pick = NoPick \/ MemoryOf(s).id \notin {m.id : m \in ToSet(Pool(TRUE))} \/ pick = MemoryOf(s)
  <2>1. CASE ordered = <<>>
    BY <2>1 DEF PickOf, Picks
  <2>2. CASE ordered # <<>>
    <3>1. members # <<>> /\ wishes \in Wishes
      BY <1>1
    <3>2. members \in Seq(Offered(setup)) /\ ToSet(Pool(TRUE)) \subseteq ToSet(members)
      <4>1. tools \in BOOLEAN
        BY <1>1
      <4>2. QED
        BY <1>2, <4>1, MemberFacts DEF Pool
    <3> HIDE DEF Asked
    <3>3. LET first == ordered[1]
              it == [id |-> first.id, family |-> first.family]
          IN /\ it \in Picks(setup)
             /\ MemoryOf(s) \in Picks(setup) /\ MemoryOf(s).id \in {m.id : m \in ToSet(Pool(TRUE))} => it = MemoryOf(s)
      BY <1>2, <2>2, <3>1, <3>2, PickFacts
    <3> HIDE DEF Line
    <3>4. QED
      BY <1>3, <2>2, <3>3 DEF PickOf
  <2>3. QED
    BY <2>1, <2>2
<1> HIDE DEF members, ordered, pick
<1>5. QED
  BY <1>1, <1>4 DEF pick, ordered

\* What is known of the keys after a turn under k.
LEMMA NotedFacts ==
  ASSUME ChainInv, NEW k \in Keys, NEW continued \in BOOLEAN, NEW pick \in Picks(setup),
         last' = Noted(k, continued, pick)
  PROVE  /\ last' \in [Keys -> [pick : Picks(setup), age : 0 .. AffinityTtl, others : SUBSET Keys]]
         /\ \A h \in Keys : IsFiniteSet(last'[h].others)
         /\ \A h \in Keys \ {k} :
              /\ last'[h].pick = last[h].pick /\ last'[h].age = last[h].age
              /\ last[h].others \subseteq last'[h].others
              /\ last[h].pick # NoPick => k \in last'[h].others
         /\ pick = NoPick => last'[k] = last[k]
         /\ pick # NoPick => last'[k].pick = pick /\ last'[k].age = 0
         /\ ~ continued \/ pick = NoPick => last'[k].others = last[k].others
<1>1. /\ last \in [Keys -> [pick : Picks(setup), age : 0 .. AffinityTtl, others : SUBSET Keys]]
      /\ \A h \in Keys : IsFiniteSet(last[h].others)
      /\ AffinityTtl \in Nat
  BY ChainAssumption DEF ChainInv
<1> DEFINE more(h) == IF last[h].pick = NoPick THEN last[h].others ELSE last[h].others \cup {k}
<1>2. \A h \in Keys \ {k} : last'[h] = [last[h] EXCEPT !.others = more(h)]
  BY <1>1 DEF Noted
<1>3. last'[k] = IF pick = NoPick THEN last[k]
                 ELSE [pick |-> pick, age |-> 0, others |-> IF continued THEN {} ELSE last[k].others]
  BY DEF Noted
<1>4. DOMAIN last' = Keys /\ last' = [h \in Keys |-> last'[h]]
  BY DEF Noted
<1>5. \A h \in Keys \ {k} : /\ last'[h] \in [pick : Picks(setup), age : 0 .. AffinityTtl, others : SUBSET Keys]
                            /\ last'[h].pick = last[h].pick /\ last'[h].age = last[h].age
                            /\ last'[h].others = more(h)
  <2>1. \A h \in Keys : /\ last[h] \in [pick : Picks(setup), age : 0 .. AffinityTtl, others : SUBSET Keys]
                        /\ more(h) \in SUBSET Keys
    BY <1>1
  <2> HIDE DEF more
  <2>2. QED
    BY <1>2, <2>1
<1>6. \A h \in Keys : IsFiniteSet(more(h))
  BY <1>1, FS_AddElement
<1>7. /\ last'[k] \in [pick : Picks(setup), age : 0 .. AffinityTtl, others : SUBSET Keys]
      /\ IsFiniteSet(last'[k].others)
      /\ pick = NoPick => last'[k] = last[k]
      /\ pick # NoPick => last'[k].pick = pick /\ last'[k].age = 0
      /\ ~ continued \/ pick = NoPick => last'[k].others = last[k].others
  BY <1>1, <1>3, FS_EmptySet
<1>8. last' \in [Keys -> [pick : Picks(setup), age : 0 .. AffinityTtl, others : SUBSET Keys]]
  BY <1>4, <1>5, <1>7
<1>9. QED
  BY <1>5, <1>6, <1>7, <1>8

\* What get() leaves: whoever was there, but for k when its time is over; k itself,
\* when it was looked for, at the young end.
LEMMA LookedFacts ==
  ASSUME ChainInv, NEW k \in Keys, NEW looks \in BOOLEAN, NEW others,
         \A h \in Keys : Contains(order, h) /\ (h # k \/ ~ looks) => last[h].others \subseteq others[h],
         \A h \in Keys \ {k} : Contains(order, h) => k \in others[h]
  PROVE  LET read == IF looks THEN Looked(k) ELSE order
         IN /\ Standing(read, others) /\ Len(read) <= AffinityEntries
            /\ \A h : Contains(read, h) => Contains(order, h)
            /\ \A h : Contains(order, h) /\ (h # k \/ entry[k].left > 0) => Contains(read, h)
<1> DEFINE read == IF looks THEN Looked(k) ELSE order
<1>1. /\ Standing(order, Others) /\ Len(order) <= AffinityEntries
      /\ order \in Seq(Keys) /\ OnceEach(order) /\ Len(order) \in Nat /\ AffinityEntries \in Nat
  BY ChainAssumption, LenProperties DEF ChainInv, Standing
<1>2. CASE ~ looks \/ ~ Contains(order, k)
  <2>1. read = order
    BY <1>2 DEF Looked
  <2>2. \A h \in Keys : Contains(order, h) => Others[h] \subseteq others[h]
    BY <1>2 DEF Others
  <2>3. Standing(order, others)
    BY <1>1, <2>2, StandsWithMore
  <2>4. QED
    BY <1>1, <2>1, <2>3
<1>3. CASE looks /\ Contains(order, k)
  <2> DEFINE i == Place(k)
             base == RemoveAt(order, i)
  <2>1. DOMAIN order = 1 .. Len(order) /\ \E j \in 1 .. Len(order) : order[j] = k
    BY <1>1, <1>3, LenProperties DEF Contains
  <2>2. i \in 1 .. Len(order) /\ order[i] = k
    BY <2>1 DEF Place
  <2> HIDE DEF i
  <2>3. /\ Standing(base, Others) /\ Len(base) = Len(order) - 1 /\ base \in Seq(Keys)
        /\ OnceEach(base)
        /\ \A h : Contains(base, h) <=> Contains(order, h) /\ h # k
    BY <1>1, <2>2, StandsWithout, RemoveAtFacts, LeftFacts
  <2> HIDE DEF base
  <2>4. \A h \in Keys : Contains(base, h) => Others[h] \subseteq others[h] /\ k \in others[h]
    BY <2>3 DEF Others
  <2>5. Standing(base, others)
    BY <2>3, <2>4, StandsWithMore
  <2>6. CASE Live(k)
    <3>1. read = Append(base, k)
      BY <1>3, <2>6 DEF Looked, base, i
    <3>2. Standing(Append(base, k), others)
      BY <2>3, <2>4, <2>5, StandsBehind
    <3>3. /\ Len(Append(base, k)) = Len(order)
          /\ \A h : Contains(Append(base, k), h) <=> Contains(base, h) \/ h = k
      BY <1>1, <2>3, JoinedFacts, AppendProperties
    <3>4. QED
      BY <1>1, <1>3, <2>3, <3>1, <3>2, <3>3
  <2>7. CASE ~ Live(k)
    <3>1. read = base
      BY <1>3, <2>7 DEF Looked, base, i
    <3>2. ~ (entry[k].left > 0)
      BY <1>3, <2>7 DEF Live
    <3>3. QED
      BY <1>1, <2>3, <2>5, <3>1, <3>2
  <2>8. QED
    BY <2>6, <2>7
<1>4. QED
  BY <1>2, <1>3

\* What set() leaves: k, and everyone who was there, but for one that as many keys
\* stood behind as the Map has entries.
LEMMA KeptFacts ==
  ASSUME NEW keys, NEW others, Standing(keys, others), Len(keys) <= AffinityEntries,
         NEW k \in Keys,
         \A h \in Keys : others[h] \subseteq Keys /\ IsFiniteSet(others[h]),
         \A h \in Keys \ {k} : Contains(keys, h) => k \in others[h]
  PROVE  /\ Standing(Kept(keys, k), others) /\ Len(Kept(keys, k)) <= AffinityEntries
         /\ \A h : Contains(Kept(keys, k), h) => Contains(keys, h) \/ h = k
         /\ Contains(Kept(keys, k), k)
         /\ \A h : Contains(keys, h) /\ Cardinality(others[h]) < AffinityEntries => Contains(Kept(keys, k), h)
<1>1. /\ keys \in Seq(Keys) /\ OnceEach(keys) /\ Len(keys) \in Nat /\ AffinityEntries \in Nat \ {0}
  BY ChainAssumption, LenProperties DEF Standing
<1>2. CASE Contains(keys, k)
  <2>1. Kept(keys, k) = keys
    BY <1>1, <1>2 DEF Kept
  <2>2. QED
    BY <1>2, <2>1
<1>3. CASE ~ Contains(keys, k)
  <2> DEFINE longer == Append(keys, k)
  <2>1. /\ longer \in Seq(Keys) /\ OnceEach(longer) /\ Len(longer) = Len(keys) + 1
        /\ longer[Len(keys) + 1] = k
        /\ \A h : Contains(longer, h) <=> Contains(keys, h) \/ h = k
    BY <1>1, <1>3, JoinedFacts, AppendProperties
  <2>2. \A h \in Keys : Contains(keys, h) => k \in others[h]
    BY <1>3
  <2>3. Standing(longer, others)
    BY <1>3, <2>2, StandsBehind
  <2>4. Kept(keys, k) = IF Len(longer) > AffinityEntries THEN Tail(longer) ELSE longer
    BY <1>3 DEF Kept
  <2> HIDE DEF longer
  <2>5. CASE Len(longer) > AffinityEntries
    <3>1. longer # <<>>
      BY <1>1, <2>1, EmptySeq
    <3>2. /\ Head(longer) = longer[1] /\ Head(longer) \in Keys
          /\ Len(Tail(longer)) = Len(longer) - 1
          /\ \A h : Contains(Tail(longer), h) <=> Contains(longer, h) /\ h # Head(longer)
      BY <2>1, <3>1, AdmittedFacts, HeadTailProperties
    <3>3. Standing(Tail(longer), others) /\ Len(longer) - 1 <= Cardinality(others[Head(longer)])
      BY <2>3, <3>1, <3>2, StandsAfter
    <3>4. Cardinality(others[Head(longer)]) \in Nat
      BY <3>2, FS_CardinalityType
    <3>5. ~ (Cardinality(others[Head(longer)]) < AffinityEntries)
      BY <1>1, <2>1, <2>5, <3>3, <3>4
    <3>6. Head(longer) # k
      <4>1. Len(longer) \in Nat /\ 1 \in 1 .. Len(longer) /\ Len(keys) + 1 \in 1 .. Len(longer) /\ Len(keys) + 1 # 1
        BY <1>1, <2>1, <2>5
      <4>2. QED
        BY <2>1, <3>2, <4>1 DEF OnceEach
    <3>7. QED
      BY <1>1, <2>1, <2>4, <2>5, <3>2, <3>3, <3>5, <3>6
  <2>6. CASE ~ (Len(longer) > AffinityEntries)
    BY <1>1, <2>1, <2>3, <2>4, <2>6
  <2>7. QED
    BY <2>5, <2>6
<1>4. QED
  BY <1>2, <1>3

\* What is known of the time that has passed under a key, and of what is in the Map,
\* makes the entry of a key that is due the one to be kept.
LEMMA DueIsLive ==
  ASSUME ChainInv, NEW k \in Keys, Recent(k)
  PROVE  Live(k) /\ Recalled(k) = last[k].pick
<1>1. /\ Contains(order, k) /\ entry[k].pick = last[k].pick
      /\ entry[k].left = AffinityTtl - last[k].age
  BY DEF ChainInv
<1>2. last[k].age \in 0 .. AffinityTtl /\ last[k].age < AffinityTtl /\ AffinityTtl \in Nat
  BY ChainAssumption DEF ChainInv, Recent
<1>3. entry[k].left > 0
  BY <1>1, <1>2
<1>4. QED
  BY <1>1, <1>3 DEF Live, Recalled

LEMMA TurnKeeps ==
  ASSUME ChainInv, NEW s \in Sessions, Turn(s)
  PROVE  ChainInv'
<1> DEFINE k == KeyOf[s]
           Keeps(pick) == k \in Keys /\ pick # NoPick
           Writes(pick) ==
             /\ order' = IF Keeps(pick) THEN Kept(Read(s), k) ELSE Read(s)
             /\ entry' = IF Keeps(pick) THEN [entry EXCEPT ![k] = [pick |-> pick, left |-> AffinityTtl]] ELSE entry
             /\ last' = IF k \in Keys THEN Noted(k, s \in answered, pick) ELSE last
<1>1. PICK pick \in Picks(setup) : Writes(pick)
  BY TurnFacts
<1>2. setup' = setup /\ setup \in Setups /\ counter' \in Nat
  BY DEF Turn, ChainInv
<1>3. /\ Standing(order, Others) /\ Len(order) <= AffinityEntries
      /\ entry \in [Keys -> [pick : Picks(setup), left : 0 .. AffinityTtl]]
      /\ last \in [Keys -> [pick : Picks(setup), age : 0 .. AffinityTtl, others : SUBSET Keys]]
      /\ AffinityTtl \in Nat \ {0}
  BY ChainAssumption DEF ChainInv
<1>4. CASE k \notin Keys
  <2>1. order' = order /\ entry' = entry /\ last' = last
    BY <1>1, <1>4 DEF Read, Looks
  <2>2. Others' = Others /\ \A h : Recent(h)' = Recent(h)
    BY <2>1 DEF Others, Recent
  <2>3. QED
    BY <1>2, <2>1, <2>2 DEF ChainInv
<1>5. CASE k \in Keys
  <2> DEFINE read == Read(s)
             keeps == Keeps(pick)
  <2>1. last' = Noted(k, s \in answered, pick)
    BY <1>1, <1>5
  <2>2. /\ last' \in [Keys -> [pick : Picks(setup), age : 0 .. AffinityTtl, others : SUBSET Keys]]
        /\ \A h \in Keys : IsFiniteSet(last'[h].others)
        /\ \A h \in Keys \ {k} :
             /\ last'[h].pick = last[h].pick /\ last'[h].age = last[h].age
             /\ last[h].others \subseteq last'[h].others
             /\ last[h].pick # NoPick => k \in last'[h].others
        /\ pick = NoPick => last'[k] = last[k]
        /\ pick # NoPick => last'[k].pick = pick /\ last'[k].age = 0
        /\ s \notin answered \/ pick = NoPick => last'[k].others = last[k].others
    <3> DEFINE continued == s \in answered
    <3>1. continued \in BOOLEAN /\ last' = Noted(k, continued, pick)
      BY <2>1
    <3>2. pick \in Picks(setup)
      BY <1>1
    <3> HIDE DEF continued, k, Writes
    <3>3. /\ last' \in [Keys -> [pick : Picks(setup), age : 0 .. AffinityTtl, others : SUBSET Keys]]
          /\ \A h \in Keys : IsFiniteSet(last'[h].others)
          /\ \A h \in Keys \ {k} :
               /\ last'[h].pick = last[h].pick /\ last'[h].age = last[h].age
               /\ last[h].others \subseteq last'[h].others
               /\ last[h].pick # NoPick => k \in last'[h].others
          /\ pick = NoPick => last'[k] = last[k]
          /\ pick # NoPick => last'[k].pick = pick /\ last'[k].age = 0
          /\ ~ continued \/ pick = NoPick => last'[k].others = last[k].others
      BY <1>5, <3>1, <3>2, NotedFacts
    <3>4. QED
      BY <3>3 DEF continued
  <2>3. /\ \A h \in Keys : Others'[h] = last'[h].others
        /\ \A h \in Keys : Contains(order, h) => last[h].pick # NoPick
    BY DEF Others, ChainInv
  <2>4. /\ Standing(read, Others') /\ Len(read) <= AffinityEntries
        /\ \A h : Contains(read, h) => Contains(order, h)
        /\ \A h : Contains(order, h) /\ (h # k \/ entry[k].left > 0) => Contains(read, h)
    <3>1. \A h \in Keys : Contains(order, h) /\ (h # k \/ ~ Looks(s)) => last[h].others \subseteq Others'[h]
      BY <1>5, <2>2, <2>3 DEF Looks
    <3>2. \A h \in Keys \ {k} : Contains(order, h) => k \in Others'[h]
      BY <2>2, <2>3
    <3>3. Looks(s) \in BOOLEAN /\ read = IF Looks(s) THEN Looked(k) ELSE order
      BY DEF Looks, Read
    <3> HIDE DEF read, k
    <3>4. QED
      BY <1>5, <3>1, <3>2, <3>3, LookedFacts
  <2>5. \A h \in Keys \ {k} : Contains(read, h) => k \in Others'[h]
    BY <2>2, <2>3, <2>4
  <2>6. \A h \in Keys : Others'[h] \subseteq Keys /\ IsFiniteSet(Others'[h])
    BY <2>2, <2>3
  <2> HIDE DEF read
  <2>7. /\ Standing(order', Others') /\ Len(order') <= AffinityEntries
        /\ \A h : Contains(order', h) => Contains(order, h) \/ (h = k /\ keeps)
        /\ keeps => Contains(order', k)
        /\ \A h : Contains(read, h) /\ Cardinality(Others'[h]) < AffinityEntries => Contains(order', h)
    <3>1. CASE keeps
      <4>1. order' = Kept(read, k)
        BY <1>1, <3>1 DEF read
      <4>2. QED
        BY <1>5, <2>4, <2>5, <2>6, <3>1, <4>1, KeptFacts
    <3>2. CASE ~ keeps
      <4>1. order' = read
        BY <1>1, <3>2 DEF read
      <4>2. QED
        BY <2>4, <3>2, <4>1
    <3>3. QED
      BY <3>1, <3>2
  <2>8. /\ entry' \in [Keys -> [pick : Picks(setup), left : 0 .. AffinityTtl]]
        /\ \A h \in Keys \ {k} : entry'[h] = entry[h]
        /\ entry'[k] = IF keeps THEN [pick |-> pick, left |-> AffinityTtl] ELSE entry[k]
    BY <1>1, <1>3, <1>5
  <2>9. ASSUME NEW h \in Keys
        PROVE  /\ entry'[h].pick = last'[h].pick /\ entry'[h].left = AffinityTtl - last'[h].age
               /\ Contains(order', h) => last'[h].pick # NoPick
    <3>1. entry[h].pick = last[h].pick /\ entry[h].left = AffinityTtl - last[h].age
      BY DEF ChainInv
    <3>2. CASE h # k
      BY <2>2, <2>3, <2>7, <2>8, <3>1, <3>2
    <3>3. CASE h = k /\ keeps
      <4>1. entry'[h].pick = pick /\ entry'[h].left = AffinityTtl
        BY <2>8, <3>3
      <4>2. last'[h].pick = pick /\ last'[h].age = 0 /\ pick # NoPick
        BY <2>2, <3>3
      <4>3. AffinityTtl = AffinityTtl - 0
        BY <1>3
      <4>4. QED
        BY <4>1, <4>2, <4>3
    <3>4. CASE h = k /\ ~ keeps
      <4>1. last'[h] = last[h] /\ entry'[h] = entry[h]
        BY <1>5, <2>2, <2>8, <3>4
      <4>2. QED
        BY <2>3, <2>7, <3>1, <3>4, <4>1
    <3>5. QED
      BY <3>2, <3>3, <3>4
  <2>10. ASSUME NEW h \in Keys, Recent(h)'
         PROVE  Contains(order', h)
    <3>1. /\ last'[h].pick # NoPick /\ last'[h].age < AffinityTtl
          /\ Cardinality(Others'[h]) < AffinityEntries
      BY <2>3, <2>10 DEF Recent
    <3>2. CASE h # k
      <4>1. Cardinality(last[h].others) < AffinityEntries
        <5>1. last[h].others \subseteq Others'[h] /\ IsFiniteSet(Others'[h])
          BY <2>2, <2>3, <3>2
        <5>2. Cardinality(last[h].others) <= Cardinality(Others'[h])
          BY <5>1, FS_Subset
        <5>3. Cardinality(last[h].others) \in Nat /\ Cardinality(Others'[h]) \in Nat
          BY <5>1, FS_Subset, FS_CardinalityType
        <5>4. AffinityEntries \in Nat
          BY ChainAssumption
        <5>5. QED
          BY <3>1, <5>2, <5>3, <5>4
      <4>2. Recent(h)
        BY <2>2, <3>1, <3>2, <4>1 DEF Recent
      <4>3. Contains(read, h)
        BY <2>4, <3>2, <4>2 DEF ChainInv
      <4>4. QED
        BY <2>7, <3>1, <4>3
    <3>3. CASE h = k /\ keeps
      BY <2>7, <3>3
    <3>4. CASE h = k /\ ~ keeps
      <4>1. last'[h] = last[h]
        BY <1>5, <2>2, <3>4
      <4>2. Recent(h)
        BY <2>10, <4>1 DEF Recent
      <4>3. Live(h) /\ Contains(order, h) /\ entry[h].left > 0
        BY <4>2, DueIsLive DEF Live
      <4>4. QED
        BY <2>4, <2>7, <3>1, <3>4, <4>3
    <3>5. QED
      BY <3>2, <3>3, <3>4
  <2> HIDE DEF k, keeps
  <2>11. QED
    BY <1>2, <2>2, <2>7, <2>8, <2>9, <2>10 DEF ChainInv
<1>6. QED
  BY <1>4, <1>5

LEMMA TimeKeeps ==
  ASSUME ChainInv, TimePasses
  PROVE  ChainInv'
<1>1. /\ setup' = setup /\ counter' = counter /\ order' = order
      /\ entry' = [k \in Keys |-> [entry[k] EXCEPT !.left = IF @ > 0 THEN @ - 1 ELSE 0]]
      /\ last' = [k \in Keys |-> [last[k] EXCEPT !.age = IF @ < AffinityTtl THEN @ + 1 ELSE @]]
  BY DEF TimePasses
<1>2. /\ entry \in [Keys -> [pick : Picks(setup), left : 0 .. AffinityTtl]]
      /\ last \in [Keys -> [pick : Picks(setup), age : 0 .. AffinityTtl, others : SUBSET Keys]]
      /\ AffinityTtl \in Nat \ {0}
  BY ChainAssumption DEF ChainInv
<1>3. ASSUME NEW k \in Keys
      PROVE  /\ entry'[k] \in [pick : Picks(setup), left : 0 .. AffinityTtl]
             /\ entry'[k].pick = entry[k].pick
             /\ entry'[k].left = IF entry[k].left > 0 THEN entry[k].left - 1 ELSE 0
  BY <1>1, <1>2
<1>4. ASSUME NEW k \in Keys
      PROVE  /\ last'[k] \in [pick : Picks(setup), age : 0 .. AffinityTtl, others : SUBSET Keys]
             /\ last'[k].pick = last[k].pick /\ last'[k].others = last[k].others
             /\ last'[k].age = IF last[k].age < AffinityTtl THEN last[k].age + 1 ELSE last[k].age
  BY <1>1, <1>2
<1>5. Others' = Others
  BY <1>4 DEF Others
<1>6. ASSUME NEW k \in Keys
      PROVE  /\ entry'[k].pick = last'[k].pick /\ entry'[k].left = AffinityTtl - last'[k].age
             /\ IsFiniteSet(last'[k].others)
             /\ Contains(order', k) => last'[k].pick # NoPick
             /\ Recent(k)' => Contains(order', k)
  <2>1. /\ entry[k].pick = last[k].pick /\ entry[k].left = AffinityTtl - last[k].age
        /\ IsFiniteSet(last[k].others)
        /\ Contains(order, k) => last[k].pick # NoPick
        /\ Recent(k) => Contains(order, k)
    BY DEF ChainInv
  <2>2. last[k].age \in 0 .. AffinityTtl
    BY <1>2
  <2>3. entry'[k].left = AffinityTtl - last'[k].age
    BY <1>2, <1>3, <1>4, <2>1, <2>2
  <2>4. last'[k].age < AffinityTtl => last[k].age < AffinityTtl
    BY <1>2, <1>4, <2>2
  <2>5. Recent(k)' => Recent(k)
    BY <1>4, <2>4 DEF Recent
  <2>6. QED
    BY <1>1, <1>3, <1>4, <2>1, <2>3, <2>5
<1>7. /\ entry' \in [Keys -> [pick : Picks(setup), left : 0 .. AffinityTtl]]
      /\ last' \in [Keys -> [pick : Picks(setup), age : 0 .. AffinityTtl, others : SUBSET Keys]]
  <2>1. entry' = [k \in Keys |-> entry'[k]] /\ last' = [k \in Keys |-> last'[k]]
    BY <1>1
  <2>2. QED
    BY <1>3, <1>4, <2>1
<1>8. QED
  BY <1>1, <1>5, <1>6, <1>7 DEF ChainInv

LEMMA ChainStep ==
  ChainInv /\ [ChainNext]_chainVars => ChainInv'
<1> SUFFICES ASSUME ChainInv, [ChainNext]_chainVars
             PROVE  ChainInv'
  OBVIOUS
<1>1. ASSUME NEW s \in Sessions, Turn(s)
      PROVE  ChainInv'
  BY <1>1, TurnKeeps
<1>2. CASE EligibilityChanges
  <2>1. UNCHANGED <<setup, counter, order, entry, answered, last>>
    BY <1>2 DEF EligibilityChanges
  <2>2. QED
    BY <2>1 DEF ChainInv, Others, Recent
<1>3. CASE TimePasses
  BY <1>3, TimeKeeps
<1>4. CASE UNCHANGED chainVars
  BY <1>4 DEF chainVars, ChainInv, Others, Recent
<1>5. QED
  BY <1>1, <1>2, <1>3, <1>4 DEF ChainNext

\* Over a cycle of the counter every provider of a weighted bucket is at the head of
\* the ticket order exactly as often as its weight says, whichever members are
\* eligible: the tickets orderMembersByGenericWeight() draws are bounded by the sum
\* of the weights and each belongs to one provider.
THEOREM WeightIsShared ==
  ChainSpec => []WeightedShare
<1>1. ChainInv => WeightedShare
  <2> SUFFICES ASSUME ChainInv, ~ Contradictory(Pool(FALSE), setup.policy),
                      NEW i \in 1 .. Len(ProviderOrder)
               PROVE  Cardinality({n \in 0 .. TotalWeight(Pool(FALSE), setup.policy) - 1 :
                                     OrderByWeight(Pool(FALSE), setup.policy, n)[1].provider = ProviderOrder[i]})
                        = ProviderWeight(Pool(FALSE), setup.policy, ProviderOrder[i])
    BY Providers DEF WeightedShare
  <2>1. setup \in Setups
    BY DEF ChainInv
  <2>2. Sound(Offered(setup)) /\ IsPolicy(setup.policy)
    BY <2>1, OfferedIsSound
  <2>3. Pool(FALSE) \in Seq(Offered(setup))
    BY <2>1, MemberFacts DEF Pool
  <2>4. QED
    BY <2>2, <2>3, ShareFacts
<1>2. QED
  BY ChainStarts, ChainStep, <1>1, PTL DEF ChainSpec

\* A conversation that has been answered goes on with the member picked last under
\* its key as long as that is eligible, for the lifetime of the entry of _bucketAffinity
\* and as long as fewer other keys than that has entries had a turn since it was
\* continued: nothing else takes the entry away or puts another member before it.
THEOREM PicksAreKept ==
  ChainSpec => SessionKeepsItsPick
<1> DEFINE Goes(s) == s \in answered /\ Recent(KeyOf[s]) /\ last[KeyOf[s]].pick.id \in {m.id : m \in ToSet(Pool(TRUE))} =>
                        last'[KeyOf[s]].pick = last[KeyOf[s]].pick \/ ~ Turn(s)
           AllGo == \A s \in Sessions : Goes(s)
<1>1. ChainInv => [AllGo]_chainVars
  <2> SUFFICES ASSUME ChainInv, NEW s \in Sessions, s \in answered, Turn(s), Recent(KeyOf[s]),
                      last[KeyOf[s]].pick.id \in {m.id : m \in ToSet(Pool(TRUE))}
               PROVE  last'[KeyOf[s]].pick = last[KeyOf[s]].pick
    OBVIOUS
  <2> DEFINE k == KeyOf[s]
  <2>1. k \in Keys
    BY DEF Recent
  <2>2. MemoryOf(s) = last[k].pick
    BY <2>1, DueIsLive DEF MemoryOf, Looks
  <2>3. PICK pick \in Picks(setup) :
          /\ pick = NoPick \/ MemoryOf(s).id \notin {m.id : m \in ToSet(Pool(TRUE))} \/ pick = MemoryOf(s)
          /\ last' = Noted(k, s \in answered, pick)
    BY <2>1, TurnFacts
  <2>4. /\ pick = NoPick => last'[k] = last[k]
        /\ pick # NoPick => last'[k].pick = pick
    BY <2>1, <2>3, NotedFacts
  <2>5. QED
    BY <2>2, <2>3, <2>4
<1>2. QED
  BY ChainStarts, ChainStep, <1>1, PTL DEF ChainSpec, SessionKeepsItsPick

=============================================================================
