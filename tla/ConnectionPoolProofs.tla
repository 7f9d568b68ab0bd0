------------------------ MODULE ConnectionPoolProofs ------------------------
(***************************************************************************)
(* Proofs about ConnectionPool for every set of calls, every set of        *)
(* backends and every configuration of the domains.                        *)
(***************************************************************************)
EXTENDS ConnectionPool, LineLemmas, FiniteSetTheorems

-----------------------------------------------------------------------------
(* Operators the pool is built from *)

\* Every backend id has a domain, and a domain has at least one slot.
LEMMA DomainFacts ==
  /\ \A b \in Backends : DomainId(b) \in Backends
  /\ \A d \in Backends : Slots(d) \in Nat \ {0}
<1>1. ASSUME NEW b \in Backends
      PROVE  DomainId(b) \in Backends
  <2>1. CASE \E d \in DOMAIN Members : b \in MemberIds(d)
    BY <2>1, PoolAssumption DEF DomainId
  <2>2. CASE ~ \E d \in DOMAIN Members : b \in MemberIds(d)
    BY <2>2 DEF DomainId
  <2>3. QED
    BY <2>1, <2>2
<1>2. ASSUME NEW d \in Backends
      PROVE  Slots(d) \in Nat \ {0}
  BY PoolAssumption DEF Slots, Larger
<1>3. QED
  BY <1>1, <1>2

\* The door of a call is a domain and never changes.
LEMMA DoorFacts ==
  ASSUME TypeOK
  PROVE  /\ \A c \in Calls : Door(c) \in Backends
         /\ target' = target => \A c \in Calls : Door(c)' = Door(c)
  BY DomainFacts DEF Door, TypeOK

\* Settling a promise keeps the type of the promises and of the counters.
LEMMA SettleType ==
  ASSUME TypeOK, NEW c \in Calls, NEW r \in Outcomes, NEW k \in Counters, Settle(c, r, k)
  PROVE  /\ outcome' \in [Calls -> Outcomes]
         /\ total' \in [Backends -> [Counters -> Nat]]
<1>1. Door(c) \in Backends
  BY DoorFacts
<1>2. total[Door(c)] \in [Counters -> Nat]
  BY <1>1 DEF TypeOK
<1>3. [total[Door(c)] EXCEPT ![k] = @ + 1] \in [Counters -> Nat]
  BY <1>2
<1>4. total' = [total EXCEPT ![Door(c)] = [total[Door(c)] EXCEPT ![k] = @ + 1]]
  BY DEF Settle
<1>5. QED
  BY <1>1, <1>3, <1>4 DEF TypeOK, Settle

-----------------------------------------------------------------------------
(* Type correctness *)

\* No handler leaves the types.
LEMMA TypeStep == TypeOK /\ [Next]_poolVars => TypeOK'
<1> SUFFICES ASSUME TypeOK, [Next]_poolVars
             PROVE  TypeOK'
  OBVIOUS
<1>t. /\ active \in [Backends -> Nat]
      /\ peakActive \in [Backends -> Nat]
      /\ peakQueue \in [Backends -> Nat]
      /\ queue \in [Backends -> Seq(Calls)]
  BY DEF TypeOK
<1> USE DEF Outcomes, Counters
<1>0. \A c \in Calls : Door(c) \in Backends
  BY DoorFacts
<1>a. \A x, y \in Nat : Larger(x, y) \in Nat
  BY DEF Larger
<1>1. ASSUME NEW c \in Calls, AcquireAborted(c)
      PROVE  TypeOK'
  BY <1>1, SettleType DEF AcquireAborted, TypeOK
<1>2. ASSUME NEW c \in Calls, AcquireFast(c)
      PROVE  TypeOK'
  <2>1. /\ outcome' \in [Calls -> Outcomes]
        /\ total' \in [Backends -> [Counters -> Nat]]
    BY <1>2, SettleType DEF AcquireFast
  <2>2. active' \in [Backends -> Nat]
    <3>1. Door(c) \in Backends
      BY <1>0
    <3>2. active[Door(c)] + 1 \in Nat
      BY <1>t, <3>1
    <3>3. active' = [active EXCEPT ![Door(c)] = active[Door(c)] + 1]
      BY <1>2 DEF AcquireFast
    <3>4. QED
      BY <1>t, <3>1, <3>2, <3>3
  <2>3. peakActive' \in [Backends -> Nat]
    BY <1>0, <1>2, <1>a, <1>t, <2>2 DEF AcquireFast
  <2>4. QED
    BY <1>2, <2>1, <2>2, <2>3 DEF AcquireFast, TypeOK
<1>3. ASSUME NEW c \in Calls, AcquireDeferred(c)
      PROVE  TypeOK'
  BY <1>3, SettleType DEF AcquireDeferred, TypeOK
<1>4. ASSUME NEW c \in Calls, AcquireDropped(c)
      PROVE  TypeOK'
  BY <1>4, SettleType DEF AcquireDropped, TypeOK
<1>5. ASSUME NEW c \in Calls, Enqueue(c)
      PROVE  TypeOK'
  <2>1. queue' \in [Backends -> Seq(Calls)]
    <3>1. Append(queue[Door(c)], c) \in Seq(Calls)
      BY <1>0, <1>t
    <3>2. QED
      BY <1>5, <1>t, <3>1 DEF Enqueue, EnqueueLast
  <2>2. peakQueue' \in [Backends -> Nat]
    <3>1. Len(queue'[Door(c)]) \in Nat
      BY <1>0, <2>1, LenProperties
    <3>2. QED
      BY <1>0, <1>5, <1>a, <1>t, <3>1 DEF Enqueue
  <2>3. QED
    BY <1>5, <2>1, <2>2 DEF Enqueue, TypeOK
<1>6. ASSUME NEW c \in Calls, Unqueue(c)
      PROVE  queue' \in [Backends -> Seq(Calls)]
  <2>1. PICK i \in DOMAIN queue[Door(c)] : queue' = [queue EXCEPT ![Door(c)] = RemoveAt(@, i)]
    BY <1>6 DEF Unqueue
  <2>2. RemoveAt(queue[Door(c)], i) \in Seq(Calls)
    <3>1. queue[Door(c)] \in Seq(Calls)
      BY <1>0, <1>t
    <3>2. DOMAIN queue[Door(c)] = 1..Len(queue[Door(c)])
      BY <3>1, LenProperties
    <3>3. QED
      BY <3>1, <3>2, <2>1, RemoveAtFacts
  <2>3. QED
    BY <1>t, <2>1, <2>2
<1>7. ASSUME NEW c \in Calls, QueueTimeout(c)
      PROVE  TypeOK'
  BY <1>6, <1>7, SettleType DEF QueueTimeout, TypeOK
<1>8. ASSUME NEW c \in Calls, QueueAbort(c)
      PROVE  TypeOK'
  BY <1>6, <1>8, SettleType DEF QueueAbort, TypeOK
<1>9. ASSUME NEW c \in Calls, ReleaseRefused(c)
      PROVE  TypeOK'
  BY <1>9 DEF ReleaseRefused, TypeOK
<1>10. ASSUME NEW c \in Calls, ReleaseIdle(c)
       PROVE  TypeOK'
  <2>1. active' \in [Backends -> Nat]
    <3>1. Door(c) \in Backends
      BY <1>0
    <3>2. active[Door(c)] - 1 \in Nat
      <4>1. active[Door(c)] \in Nat
        BY <1>t, <3>1
      <4>2. active[Door(c)] > 0
        BY <1>10 DEF ReleaseIdle, Owned
      <4>3. QED
        BY <4>1, <4>2
    <3>3. active' = [active EXCEPT ![Door(c)] = active[Door(c)] - 1]
      BY <1>10 DEF ReleaseIdle
    <3>4. QED
      BY <1>t, <3>1, <3>2, <3>3
  <2>2. <<>> \in Seq(Calls)
    OBVIOUS
  <2>3. QED
    BY <1>10, <2>1, <2>2 DEF ReleaseIdle, TypeOK
<1>11. ASSUME NEW c \in Calls, ReleaseHandOff(c)
       PROVE  TypeOK'
  <2> DEFINE d == Door(c)
             i == Min(Promotable(d))
  <2>1. i \in 1..Len(queue[d])
    <3>1. /\ Len(queue[d]) \in Nat /\ DOMAIN queue[d] = 1..Len(queue[d])
      <4>1. queue[d] \in Seq(Calls)
        BY <1>0, <1>t
      <4>2. QED
        BY <4>1, LenProperties
    <3>2. /\ Promotable(d) \subseteq 1..Len(queue[d])
          /\ Promotable(d) # {}
      BY <1>11, <3>1 DEF ReleaseHandOff, Promotable
    <3>3. QED
      BY <3>1, <3>2, LeastPosition
  <2>2. queue[d][i] \in Calls
    BY <1>0, <1>t, <2>1, ElementOfSeq
  <2>3. SubSeq(queue[d], i + 1, Len(queue[d])) \in Seq(Calls)
    BY <1>0, <1>t, <2>1, SuffixFacts
  <2>4. queue' \in [Backends -> Seq(Calls)]
    BY <1>11, <1>t, <2>3 DEF ReleaseHandOff
  <2>5. /\ outcome' \in [Calls -> Outcomes]
        /\ total' \in [Backends -> [Counters -> Nat]]
    BY <1>11, <2>2, SettleType DEF ReleaseHandOff
  <2>6. peakActive' \in [Backends -> Nat]
    BY <1>0, <1>11, <1>a, <1>t DEF ReleaseHandOff
  <2>7. QED
    BY <1>11, <2>2, <2>4, <2>5, <2>6 DEF ReleaseHandOff, TypeOK
<1>12. CASE UNCHANGED poolVars
  BY <1>12 DEF poolVars, TypeOK
<1>13. QED
  BY <1>1, <1>2, <1>3, <1>4, <1>5, <1>7, <1>8, <1>9, <1>10, <1>11, <1>12
     DEF Next, Acquire, Release

\* The pool is type-correct.
THEOREM TypeCorrect == Spec => []TypeOK
<1>1. Init => TypeOK
  BY DEF Init, TypeOK, Outcomes, Counters
<1>2. QED
  BY <1>1, TypeStep, PTL DEF Spec
-----------------------------------------------------------------------------
(* The inductive invariant *)

\* What PoolInv says of one state, in the form the steps below use.
LEMMA PoolFacts ==
  ASSUME PoolInv
  PROVE  /\ \A d \in Backends :
              /\ IsFiniteSet(Holders(d))
              /\ active[d] \in Nat /\ Slots(d) \in Nat
              /\ queue[d] \in Seq(Calls)
              /\ Len(queue[d]) \in Nat
              /\ DOMAIN queue[d] = 1..Len(queue[d])
              /\ queue[d] = <<>> <=> Len(queue[d]) = 0
         /\ \A c \in issued : active[Door(c)] > 0
<1>1. ASSUME NEW d \in Backends
      PROVE  /\ IsFiniteSet(Holders(d))
             /\ active[d] \in Nat /\ Slots(d) \in Nat
             /\ queue[d] \in Seq(Calls)
             /\ Len(queue[d]) \in Nat
             /\ DOMAIN queue[d] = 1..Len(queue[d])
             /\ queue[d] = <<>> <=> Len(queue[d]) = 0
  <2>1. IsFiniteSet(Holders(d))
    <3>1. Holders(d) \in SUBSET Calls
      BY DEF PoolInv, TypeOK, Holders
    <3>2. QED
      BY <3>1, PoolAssumption, FS_Subset
  <2>2. active[d] \in Nat /\ Slots(d) \in Nat /\ queue[d] \in Seq(Calls)
    BY DomainFacts DEF PoolInv, TypeOK
  <2>3. /\ Len(queue[d]) \in Nat
        /\ DOMAIN queue[d] = 1..Len(queue[d])
        /\ queue[d] = <<>> <=> Len(queue[d]) = 0
    BY <2>2, LenProperties, EmptySeq
  <2>4. QED
    BY <2>1, <2>2, <2>3
<1>2. ASSUME NEW c \in issued
      PROVE  active[Door(c)] > 0
  <2>1. Door(c) \in Backends /\ c \in Holders(Door(c))
    BY DoorFacts DEF PoolInv, TypeOK, Holders
  <2>2. Cardinality(Holders(Door(c))) # 0
    BY <1>1, <2>1, FS_EmptySet
  <2>3. QED
    BY <1>1, <2>1, <2>2 DEF PoolInv, SlotsExact
<1>3. QED
  BY <1>1, <1>2

\* The promotion loop of release() finds its waiter at the head, or no waiter.
LEMMA PromotionFacts ==
  ASSUME PoolInv, NEW d \in Backends
  PROVE  /\ Promotable(d) = DOMAIN queue[d]
         /\ Promotable(d) # {} => /\ Min(Promotable(d)) = 1
                                  /\ 1 \in DOMAIN queue[d]
                                  /\ queue[d][1] \in Calls
                                  /\ outcome[queue[d][1]] = "pending"
                                  /\ queue[d][1] \notin issued
                                  /\ Door(queue[d][1]) = d
<1>0. /\ active[d] \in Nat /\ Slots(d) \in Nat /\ Len(queue[d]) \in Nat
      /\ queue[d] \in Seq(Calls)
      /\ DOMAIN queue[d] = 1..Len(queue[d])
  BY PoolFacts
<1>1. active[d] - 1 < Slots(d)
  BY <1>0 DEF PoolInv, SlotsExact
<1>2. Promotable(d) = DOMAIN queue[d]
  BY <1>1 DEF Promotable, PoolInv, NoLostWaiter
<1>3. ASSUME Promotable(d) # {}
      PROVE  /\ Min(Promotable(d)) = 1
             /\ 1 \in DOMAIN queue[d]
             /\ queue[d][1] \in Calls
             /\ outcome[queue[d][1]] = "pending"
             /\ queue[d][1] \notin issued
             /\ Door(queue[d][1]) = d
  <2>1. 1 \in DOMAIN queue[d]
    BY <1>0, <1>2, <1>3
  <2>2. Min(Promotable(d)) \in 1..Len(queue[d]) /\ Min(Promotable(d)) <= 1
    BY <1>0, <1>2, <1>3, <2>1, LeastPosition
  <2>3. queue[d][1] \in Calls
    BY <1>0, <2>1, ElementOfSeq
  <2>4. outcome[queue[d][1]] = "pending" /\ Door(queue[d][1]) = d
    BY <2>1 DEF PoolInv, NoLostWaiter
  <2>5. queue[d][1] \notin issued
    BY <2>4 DEF PoolInv, SlotsExact
  <2>6. QED
    BY <1>0, <2>1, <2>2, <2>3, <2>4, <2>5
<1>4. QED
  BY <1>2, <1>3

\* A step that hands out and takes back no ticket keeps the slots exact, provided
\* it settles only promises without a ticket.
LEMMA SlotsKept ==
  ASSUME PoolInv, target' = target, issued' = issued, active' = active,
         \A x \in issued : outcome'[x] = outcome[x]
  PROVE  SlotsExact'
<1>1. \A d \in Backends : Holders(d)' = Holders(d)
  BY DoorFacts DEF PoolInv, TypeOK, Holders
<1>2. \A d \in Backends : Slots(d)' = Slots(d)
  BY DEF Slots
<1>3. QED
  BY <1>1, <1>2 DEF PoolInv, SlotsExact

\* active counts the tickets, under every handler.
LEMMA SlotsStep == PoolInv /\ [Next]_poolVars => SlotsExact'
<1> SUFFICES ASSUME PoolInv, [Next]_poolVars
             PROVE  SlotsExact'
  OBVIOUS
<1>0. /\ TypeOK /\ SlotsExact
      /\ \A c \in Calls : Door(c) \in Backends
      /\ target' = target => \A c \in Calls : Door(c)' = Door(c)
  BY DoorFacts DEF PoolInv
<1>1. ASSUME NEW c \in Calls, outcome[c] # "admitted", NEW r, NEW k, Settle(c, r, k)
      PROVE  \A x \in issued : outcome'[x] = outcome[x]
  BY <1>0, <1>1 DEF Settle, SlotsExact, TypeOK
<1>2. ASSUME NEW c \in Calls, AcquireAborted(c) \/ AcquireDeferred(c) \/ AcquireDropped(c)
      PROVE  SlotsExact'
  <2>1. outcome[c] # "admitted"
    BY <1>2 DEF AcquireAborted, AcquireDeferred, AcquireDropped
  <2>2. \E r, k : Settle(c, r, k)
    BY <1>2 DEF AcquireAborted, AcquireDeferred, AcquireDropped
  <2>3. \A x \in issued : outcome'[x] = outcome[x]
    BY <1>1, <2>1, <2>2
  <2>4. QED
    BY <1>2, <2>3, SlotsKept DEF AcquireAborted, AcquireDeferred, AcquireDropped
<1>3. ASSUME NEW c \in Calls, Enqueue(c)
      PROVE  SlotsExact'
  <2>1. \A x \in issued : outcome'[x] = outcome[x]
    BY <1>0, <1>3 DEF Enqueue, SlotsExact, TypeOK
  <2>2. QED
    BY <1>3, <2>1, SlotsKept DEF Enqueue
<1>4. ASSUME NEW c \in Calls, QueueTimeout(c) \/ QueueAbort(c)
      PROVE  SlotsExact'
  <2>1. outcome[c] # "admitted"
    BY <1>4 DEF QueueTimeout, QueueAbort, Unqueue
  <2>2. \E r, k : Settle(c, r, k)
    BY <1>4 DEF QueueTimeout, QueueAbort
  <2>3. \A x \in issued : outcome'[x] = outcome[x]
    BY <1>1, <2>1, <2>2
  <2>4. QED
    BY <1>4, <2>3, SlotsKept DEF QueueTimeout, QueueAbort
<1>5. ASSUME NEW c \in Calls, AcquireFast(c)
      PROVE  SlotsExact'
  <2> DEFINE d == Door(c)
  <2>1. c \notin issued /\ d \in Backends
    BY <1>0, <1>5 DEF AcquireFast, SlotsExact
  <2>2. \A x \in issued' : outcome'[x] = "admitted"
    BY <1>0, <1>5 DEF AcquireFast, Settle, SlotsExact, TypeOK
  <2>3. ASSUME NEW e \in Backends
        PROVE  active'[e] = Cardinality(Holders(e)') /\ active'[e] <= Slots(e)
    <3>1. CASE e = d
      <4>1. Holders(e)' = Holders(e) \cup {c} /\ c \notin Holders(e)
        BY <1>0, <1>5, <2>1, <3>1 DEF AcquireFast, Holders, TypeOK
      <4>2. Cardinality(Holders(e)') = Cardinality(Holders(e)) + 1
        BY <4>1, PoolFacts, FS_AddElement
      <4>3. active'[e] = active[e] + 1 /\ active[e] < Slots(e)
        BY <1>0, <1>5, <3>1 DEF AcquireFast, Room, TypeOK
      <4>4. active[e] \in Nat /\ Slots(e) \in Nat /\ active[e] = Cardinality(Holders(e))
        BY <1>0, PoolFacts DEF SlotsExact
      <4>5. QED
        BY <4>2, <4>3, <4>4
    <3>2. CASE e # d
      <4>1. Holders(e)' = Holders(e)
        BY <1>0, <1>5, <3>2 DEF AcquireFast, Holders, TypeOK
      <4>2. active'[e] = active[e]
        BY <1>0, <1>5, <3>2 DEF AcquireFast, TypeOK
      <4>3. QED
        BY <1>0, <4>1, <4>2 DEF SlotsExact
    <3>3. QED
      BY <3>1, <3>2
  <2>4. QED
    BY <2>2, <2>3 DEF SlotsExact, Slots
<1>6. ASSUME NEW c \in Calls, ReleaseRefused(c)
      PROVE  SlotsExact'
  <2>1. c \notin issued
    BY <1>6, PoolFacts DEF ReleaseRefused, Owned
  <2>2. QED
    BY <1>6, <2>1, SlotsKept DEF ReleaseRefused
<1>7. ASSUME NEW c \in Calls, ReleaseIdle(c)
      PROVE  SlotsExact'
  <2> DEFINE d == Door(c)
  <2>1. c \in issued /\ d \in Backends /\ active[d] > 0
    BY <1>0, <1>7 DEF ReleaseIdle, Owned
  <2>2. \A x \in issued' : outcome'[x] = "admitted"
    BY <1>0, <1>7 DEF ReleaseIdle, SlotsExact
  <2>3. ASSUME NEW e \in Backends
        PROVE  active'[e] = Cardinality(Holders(e)') /\ active'[e] <= Slots(e)
    <3>1. CASE e = d
      <4>1. Holders(e)' = Holders(e) \ {c} /\ c \in Holders(e)
        BY <1>0, <1>7, <2>1, <3>1 DEF ReleaseIdle, Holders, TypeOK
      <4>2. Cardinality(Holders(e)') = Cardinality(Holders(e)) - 1
        BY <4>1, PoolFacts, FS_RemoveElement
      <4>3. active'[e] = active[e] - 1
        BY <1>0, <1>7, <3>1 DEF ReleaseIdle, TypeOK
      <4>4. /\ active[e] \in Nat /\ Slots(e) \in Nat
            /\ active[e] = Cardinality(Holders(e)) /\ active[e] <= Slots(e)
        BY <1>0, PoolFacts DEF SlotsExact
      <4>5. QED
        BY <4>2, <4>3, <4>4
    <3>2. CASE e # d
      <4>1. Holders(e)' = Holders(e)
        BY <1>0, <1>7, <3>2 DEF ReleaseIdle, Holders, TypeOK
      <4>2. active'[e] = active[e]
        BY <1>0, <1>7, <3>2 DEF ReleaseIdle, TypeOK
      <4>3. QED
        BY <1>0, <4>1, <4>2 DEF SlotsExact
    <3>3. QED
      BY <3>1, <3>2
  <2>4. QED
    BY <2>2, <2>3 DEF SlotsExact, Slots
<1>8. ASSUME NEW c \in Calls, ReleaseHandOff(c)
      PROVE  SlotsExact'
  <2> DEFINE d == Door(c)
             w == queue[d][1]
  <2>1. c \in issued /\ d \in Backends
    BY <1>0, <1>8 DEF ReleaseHandOff, Owned
  <2>2. /\ w \in Calls /\ w \notin issued /\ Door(w) = d
        /\ Min(Promotable(d)) = 1
    BY <1>8, <2>1, PromotionFacts DEF ReleaseHandOff
  <2>3. /\ issued' = (issued \ {c}) \cup {w}
        /\ outcome' = [outcome EXCEPT ![w] = "admitted"]
        /\ active' = active /\ target' = target
    BY <1>8, <2>2 DEF ReleaseHandOff, Settle
  <2> HIDE DEF w
  <2>4. \A x \in issued' : outcome'[x] = "admitted"
    BY <1>0, <2>2, <2>3 DEF SlotsExact, TypeOK
  <2>5. ASSUME NEW e \in Backends
        PROVE  Cardinality(Holders(e)') = Cardinality(Holders(e))
    <3>1. CASE e = d
      <4>1. /\ Holders(e)' = (Holders(e) \ {c}) \cup {w}
            /\ c \in Holders(e) /\ w \notin Holders(e)
        BY <1>0, <2>1, <2>2, <2>3, <3>1 DEF Holders, TypeOK
      <4>2. /\ IsFiniteSet(Holders(e) \ {c})
            /\ Cardinality(Holders(e) \ {c}) = Cardinality(Holders(e)) - 1
        BY <4>1, PoolFacts, FS_RemoveElement
      <4>3. Cardinality(Holders(e)') = Cardinality(Holders(e) \ {c}) + 1
        BY <4>1, <4>2, FS_AddElement
      <4>4. Cardinality(Holders(e)) \in Nat
        BY PoolFacts, FS_CardinalityType
      <4>5. QED
        BY <4>2, <4>3, <4>4
    <3>2. CASE e # d
      BY <1>0, <2>1, <2>2, <2>3, <3>2 DEF Holders, TypeOK
    <3>3. QED
      BY <3>1, <3>2
  <2>6. QED
    BY <1>0, <2>3, <2>4, <2>5 DEF SlotsExact, Slots
<1>9. CASE UNCHANGED poolVars
  BY <1>9, SlotsKept DEF poolVars
<1>10. QED
  BY <1>2, <1>3, <1>4, <1>5, <1>6, <1>7, <1>8, <1>9 DEF Next, Acquire, Release

\* A waiter that leaves takes one position out of the queue of its door.
LEMMA UnqueueFacts ==
  ASSUME PoolInv, NEW c \in Calls, Unqueue(c)
  PROVE  \E i \in DOMAIN queue[Door(c)] :
           LET q == queue[Door(c)] IN
           /\ q[i] = c
           /\ queue' = [queue EXCEPT ![Door(c)] = RemoveAt(q, i)]
           /\ RemoveAt(q, i) \in Seq(Calls)
           /\ Len(RemoveAt(q, i)) = Len(q) - 1
           /\ \A j \in 1..(Len(q) - 1) :
                RemoveAt(q, i)[j] = IF j < i THEN q[j] ELSE q[j + 1]
<1>1. PICK i \in DOMAIN queue[Door(c)] :
        queue[Door(c)][i] = c /\ queue' = [queue EXCEPT ![Door(c)] = RemoveAt(@, i)]
  BY DEF Unqueue
<1>2. Door(c) \in Backends
  BY DoorFacts DEF PoolInv
<1>3. queue[Door(c)] \in Seq(Calls) /\ DOMAIN queue[Door(c)] = 1..Len(queue[Door(c)])
  BY <1>2, PoolFacts
<1>4. /\ RemoveAt(queue[Door(c)], i) \in Seq(Calls)
      /\ Len(RemoveAt(queue[Door(c)], i)) = Len(queue[Door(c)]) - 1
      /\ \A j \in 1..(Len(queue[Door(c)]) - 1) :
           RemoveAt(queue[Door(c)], i)[j]
             = IF j < i THEN queue[Door(c)][j] ELSE queue[Door(c)][j + 1]
  BY <1>1, <1>3, RemoveAtFacts
<1>5. QED
  BY <1>1, <1>4

\* A slot never becomes free while somebody waits for it, under every handler.
LEMMA FreeSlotStep == PoolInv /\ [Next]_poolVars => NoFreeSlotWhileWaiting'
<1> SUFFICES ASSUME PoolInv, [Next]_poolVars, NEW d \in Backends
             PROVE  (queue[d] # <<>> => active[d] = Slots(d))'
  BY DEF NoFreeSlotWhileWaiting
<1>0. /\ TypeOK
      /\ queue[d] # <<>> => active[d] = Slots(d)
      /\ active[d] <= Slots(d) /\ Slots(d)' = Slots(d)
      /\ active[d] \in Nat /\ Slots(d) \in Nat
      /\ \A c \in Calls : Door(c) \in Backends
  BY DoorFacts, PoolFacts DEF PoolInv, NoFreeSlotWhileWaiting, SlotsExact, Slots
<1>1. CASE queue' = queue /\ active' = active
  BY <1>0, <1>1
<1>2. ASSUME NEW c \in Calls, AcquireFast(c)
      PROVE  (queue[d] # <<>> => active[d] = Slots(d))'
  <2>1. CASE d = Door(c)
    BY <1>0, <1>2, <2>1 DEF AcquireFast, Room
  <2>2. CASE d # Door(c)
    BY <1>0, <1>2, <2>2 DEF AcquireFast, TypeOK
  <2>3. QED
    BY <2>1, <2>2
<1>3. ASSUME NEW c \in Calls, Enqueue(c)
      PROVE  (queue[d] # <<>> => active[d] = Slots(d))'
  <2>1. CASE d = Door(c)
    BY <1>0, <1>3, <2>1 DEF Enqueue, Room
  <2>2. CASE d # Door(c)
    BY <1>0, <1>3, <2>2 DEF Enqueue, TypeOK
  <2>3. QED
    BY <2>1, <2>2
<1>4. ASSUME NEW c \in Calls, Unqueue(c), active' = active
      PROVE  (queue[d] # <<>> => active[d] = Slots(d))'
  <2>1. PICK i \in DOMAIN queue[Door(c)] :
          queue' = [queue EXCEPT ![Door(c)] = RemoveAt(queue[Door(c)], i)]
    BY <1>4, UnqueueFacts
  <2>2. CASE d = Door(c)
    <3>1. queue[d] # <<>>
      BY <1>0, <2>1, <2>2, PoolFacts
    <3>2. QED
      BY <1>0, <1>4, <3>1
  <2>3. CASE d # Door(c)
    BY <1>0, <1>4, <2>1, <2>3 DEF TypeOK
  <2>4. QED
    BY <2>2, <2>3
<1>5. ASSUME NEW c \in Calls, ReleaseIdle(c)
      PROVE  (queue[d] # <<>> => active[d] = Slots(d))'
  <2>1. CASE d = Door(c)
    BY <1>0, <1>5, <2>1 DEF ReleaseIdle, TypeOK
  <2>2. CASE d # Door(c)
    BY <1>0, <1>5, <2>2 DEF ReleaseIdle, TypeOK
  <2>3. QED
    BY <2>1, <2>2
<1>6. ASSUME NEW c \in Calls, ReleaseHandOff(c)
      PROVE  (queue[d] # <<>> => active[d] = Slots(d))'
  <2>1. CASE d = Door(c)
    <3>1. queue[d] # <<>>
      BY <1>0, <1>6, <2>1, PromotionFacts, PoolFacts DEF ReleaseHandOff
    <3>2. QED
      BY <1>0, <1>6, <3>1 DEF ReleaseHandOff
  <2>2. CASE d # Door(c)
    BY <1>0, <1>6, <2>2 DEF ReleaseHandOff, TypeOK
  <2>3. QED
    BY <2>1, <2>2
<1>7. QED
  BY <1>1, <1>2, <1>3, <1>4, <1>5, <1>6
     DEF Next, Acquire, Release, AcquireAborted, AcquireDeferred, AcquireDropped,
         QueueTimeout, QueueAbort, ReleaseRefused, poolVars

\* NoLostWaiter after a step, said with the doors of before the step: the doors
\* do not change.
LEMMA WaitersAfter ==
  ASSUME PoolInv, TypeOK', target' = target,
         \A x \in Calls : outcome'[x] = "pending" =>
           \E i \in DOMAIN queue'[Door(x)] : queue'[Door(x)][i] = x,
         \A e \in Backends : \A i \in DOMAIN queue'[e] :
           /\ outcome'[queue'[e][i]] = "pending"
           /\ Door(queue'[e][i]) = e
           /\ \A j \in DOMAIN queue'[e] : queue'[e][i] = queue'[e][j] => i = j
  PROVE  NoLostWaiter'
<1>1. \A x \in Calls : Door(x)' = Door(x)
  BY DoorFacts DEF PoolInv
<1>2. \A e \in Backends : \A i \in DOMAIN queue'[e] : queue'[e][i] \in Calls
  <2>1. \A e \in Backends : queue'[e] \in Seq(Calls)
    BY DEF TypeOK
  <2>2. QED
    BY <2>1, ElementOfSeq, LenProperties
<1>3. QED
  BY <1>1, <1>2 DEF NoLostWaiter

\* A step that leaves the queues alone and neither makes nor settles a waiter.
LEMMA WaitersKept ==
  ASSUME PoolInv, TypeOK', target' = target, queue' = queue,
         \A x \in Calls : outcome'[x] = "pending" <=> outcome[x] = "pending"
  PROVE  NoLostWaiter'
<1>1. \A e \in Backends : \A i \in DOMAIN queue[e] : queue[e][i] \in Calls
  BY PoolFacts, ElementOfSeq
<1>2. QED
  BY <1>1, WaitersAfter DEF PoolInv, NoLostWaiter

\* A step that settles the waiter at position k of a queue and closes the gap it
\* leaves loses no other waiter.
LEMMA WaiterLeaves ==
  ASSUME PoolInv, TypeOK', target' = target,
         NEW d \in Backends, NEW k \in DOMAIN queue[d], NEW c \in Calls, queue[d][k] = c,
         NEW r \in Outcomes \ {"pending"}, outcome' = [outcome EXCEPT ![c] = r],
         \A e \in Backends : e # d => queue'[e] = queue[e],
         DOMAIN queue'[d] = 1..(Len(queue[d]) - 1),
         \A j \in 1..(Len(queue[d]) - 1) :
           queue'[d][j] = IF j < k THEN queue[d][j] ELSE queue[d][j + 1]
  PROVE  NoLostWaiter'
<1>0. TypeOK /\ TypeOK'
  BY DEF PoolInv
<1>a. \A x \in Calls : Door(x) \in Backends
  BY <1>0, DoorFacts
<1>b. \A e \in Backends : \A i \in DOMAIN queue[e] :
        /\ queue[e][i] \in Calls
        /\ outcome[queue[e][i]] = "pending"
        /\ Door(queue[e][i]) = e
        /\ \A j \in DOMAIN queue[e] : queue[e][i] = queue[e][j] => i = j
  BY PoolFacts, ElementOfSeq DEF PoolInv, NoLostWaiter
<1>c. \A x \in Calls : outcome[x] = "pending" =>
        \E i \in DOMAIN queue[Door(x)] : queue[Door(x)][i] = x
  BY DEF PoolInv, NoLostWaiter
<1> DEFINE n == Len(queue[d])
<1>1. d \in Backends /\ n \in Nat /\ DOMAIN queue[d] = 1..n
  BY PoolFacts
<1>3. \A e \in Backends : e # d => queue'[e] = queue[e]
  OBVIOUS
<1>4. /\ DOMAIN queue'[d] = 1..(n - 1)
      /\ \A j \in 1..(n - 1) :
           queue'[d][j] = IF j < k THEN queue[d][j] ELSE queue[d][j + 1]
  OBVIOUS
<1>5. k \in 1..n
  BY <1>1
<1>6. \A x \in Calls : x # c => outcome'[x] = outcome[x]
  BY <1>0 DEF TypeOK
<1>7. outcome'[c] # "pending"
  BY <1>0 DEF TypeOK
<1>8. \A j \in 1..n : queue[d][j] = c => j = k
  BY <1>b, <1>1, <1>5
<1>9. queue[d][k] = c
  OBVIOUS
<1> HIDE DEF n
<1>10. ASSUME NEW x \in Calls, outcome'[x] = "pending"
       PROVE  \E i \in DOMAIN queue'[Door(x)] : queue'[Door(x)][i] = x
  <2>1. x # c /\ outcome[x] = "pending"
    BY <1>6, <1>7, <1>10
  <2>2. PICK i \in DOMAIN queue[Door(x)] : queue[Door(x)][i] = x
    BY <1>c, <2>1
  <2>3. CASE Door(x) # d
    BY <1>a, <1>3, <2>2, <2>3
  <2>4. CASE Door(x) = d
    <3>1. i \in 1..n /\ i # k /\ queue[d][i] = x
      BY <1>1, <1>9, <2>1, <2>2, <2>4
    <3>2. CASE i < k
      <4>1. i \in 1..(n - 1) /\ queue'[d][i] = x
        BY <1>1, <1>4, <1>5, <3>1, <3>2
      <4>2. QED
        BY <1>4, <2>4, <4>1
    <3>3. CASE i > k
      <4>1. /\ i - 1 \in 1..(n - 1) /\ ~ (i - 1 < k)
            /\ i - 1 + 1 = i
        BY <1>1, <1>5, <3>1, <3>3
      <4>2. queue'[d][i - 1] = x
        BY <1>4, <3>1, <4>1
      <4>3. QED
        BY <1>4, <2>4, <4>1, <4>2
    <3>4. QED
      BY <1>1, <1>5, <3>1, <3>2, <3>3
  <2>5. QED
    BY <2>3, <2>4
<1>11. ASSUME NEW e \in Backends, NEW i \in DOMAIN queue'[e]
       PROVE  /\ outcome'[queue'[e][i]] = "pending"
              /\ Door(queue'[e][i]) = e
              /\ \A j \in DOMAIN queue'[e] : queue'[e][i] = queue'[e][j] => i = j
  <2>1. CASE e # d
    <3>1. \A j \in DOMAIN queue[e] : queue[e][j] # c
      BY <1>b, <1>1, <1>9, <1>5, <2>1
    <3>2. QED
      BY <1>b, <1>3, <1>6, <2>1, <3>1
  <2>2. CASE e = d
    <3> DEFINE from(j) == IF j < k THEN j ELSE j + 1
    <3>1. \A j \in 1..(n - 1) : /\ from(j) \in 1..n /\ from(j) # k
                               /\ queue'[d][j] = queue[d][from(j)]
      BY <1>1, <1>4, <1>5
    <3>2. \A j, m \in 1..(n - 1) : from(j) = from(m) => j = m
      BY <1>1, <1>5
    <3> HIDE DEF from
    <3>3. i \in 1..(n - 1)
      BY <1>4, <2>2
    <3>4. queue'[d][i] # c
      BY <1>8, <3>1, <3>3
    <3>5. /\ queue'[d][i] \in Calls /\ outcome[queue'[d][i]] = "pending"
          /\ Door(queue'[d][i]) = d
      <4>1. from(i) \in 1..n /\ queue'[d][i] = queue[d][from(i)]
        BY <3>1, <3>3
      <4>2. QED
        BY <1>b, <1>1, <4>1
    <3>6. ASSUME NEW j \in 1..(n - 1), queue'[d][i] = queue'[d][j]
          PROVE  i = j
      <4>1. queue[d][from(i)] = queue[d][from(j)]
        BY <3>1, <3>3, <3>6
      <4>2. from(i) = from(j)
        BY <1>b, <1>1, <3>1, <3>3, <4>1
      <4>3. QED
        BY <3>2, <3>3, <4>2
    <3>7. QED
      BY <1>4, <1>6, <2>2, <3>4, <3>5, <3>6
  <2>3. QED
    BY <2>1, <2>2
<1>12. QED
  BY <1>0, <1>10, <1>11, WaitersAfter

\* No waiter is lost, under every handler.
LEMMA WaiterStep == PoolInv /\ [Next]_poolVars => NoLostWaiter'
<1> SUFFICES ASSUME PoolInv, [Next]_poolVars
             PROVE  NoLostWaiter'
  OBVIOUS
<1>0. TypeOK /\ TypeOK'
  BY TypeStep DEF PoolInv
<1>a. \A c \in Calls : Door(c) \in Backends
  BY <1>0, DoorFacts
<1>b. \A e \in Backends : \A i \in DOMAIN queue[e] :
        /\ queue[e][i] \in Calls
        /\ outcome[queue[e][i]] = "pending"
        /\ Door(queue[e][i]) = e
        /\ \A j \in DOMAIN queue[e] : queue[e][i] = queue[e][j] => i = j
  BY PoolFacts, ElementOfSeq DEF PoolInv, NoLostWaiter
<1>c. \A x \in Calls : outcome[x] = "pending" =>
        \E i \in DOMAIN queue[Door(x)] : queue[Door(x)][i] = x
  BY DEF PoolInv, NoLostWaiter
<1>1. ASSUME NEW c \in Calls, outcome[c] = "none", NEW r \in Outcomes \ {"pending"},
             outcome' = [outcome EXCEPT ![c] = r]
      PROVE  \A x \in Calls : outcome'[x] = "pending" <=> outcome[x] = "pending"
  BY <1>0, <1>1 DEF TypeOK
<1>2. ASSUME NEW c \in Calls, AcquireAborted(c)
      PROVE  NoLostWaiter'
  BY <1>0, <1>1, <1>2, WaitersKept DEF AcquireAborted, Settle, Outcomes
<1>3. ASSUME NEW c \in Calls, AcquireFast(c)
      PROVE  NoLostWaiter'
  BY <1>0, <1>1, <1>3, WaitersKept DEF AcquireFast, Settle, Outcomes
<1>4. ASSUME NEW c \in Calls, AcquireDeferred(c)
      PROVE  NoLostWaiter'
  BY <1>0, <1>1, <1>4, WaitersKept DEF AcquireDeferred, Settle, Outcomes
<1>5. ASSUME NEW c \in Calls, AcquireDropped(c)
      PROVE  NoLostWaiter'
  BY <1>0, <1>1, <1>5, WaitersKept DEF AcquireDropped, Settle, Outcomes
<1>6. ASSUME NEW c \in Calls, Enqueue(c)
      PROVE  NoLostWaiter'
  <2> DEFINE d == Door(c)
             n == Len(queue[d])
  <2>1. /\ d \in Backends /\ n \in Nat /\ queue[d] \in Seq(Calls)
        /\ DOMAIN queue[d] = 1..n
    BY <1>a, PoolFacts
  <2>2. /\ queue' = [queue EXCEPT ![d] = Append(queue[d], c)]
        /\ outcome' = [outcome EXCEPT ![c] = "pending"]
        /\ target' = target
        /\ outcome[c] = "none"
    BY <1>6 DEF Enqueue, EnqueueLast
  <2>3. /\ DOMAIN queue'[d] = 1..(n + 1)
        /\ queue'[d][n + 1] = c
        /\ \A i \in 1..n : queue'[d][i] = queue[d][i]
        /\ \A e \in Backends : e # d => queue'[e] = queue[e]
    BY <1>0, <2>1, <2>2 DEF TypeOK
  <2>4. \A i \in 1..n : queue[d][i] # c
    BY <1>b, <2>1, <2>2
  <2> HIDE DEF d, n
  <2>5. \A x \in Calls : outcome'[x] = "pending" => x = c \/ outcome[x] = "pending"
    BY <1>0, <2>2 DEF TypeOK
  <2>6. \A x \in Calls : outcome[x] = "pending" => outcome'[x] = "pending"
    BY <1>0, <2>2 DEF TypeOK
  <2>7. ASSUME NEW x \in Calls, outcome'[x] = "pending"
        PROVE  \E i \in DOMAIN queue'[Door(x)] : queue'[Door(x)][i] = x
    <3>1. CASE x = c
      BY <2>1, <2>3, <3>1 DEF d
    <3>2. CASE x # c
      <4>1. PICK i \in DOMAIN queue[Door(x)] : queue[Door(x)][i] = x
        BY <1>c, <2>5, <2>7, <3>2
      <4>2. CASE Door(x) = d
        BY <2>1, <2>3, <4>1, <4>2
      <4>3. CASE Door(x) # d
        BY <1>a, <2>3, <4>1, <4>3
      <4>4. QED
        BY <4>2, <4>3
    <3>3. QED
      BY <3>1, <3>2
  <2>8. ASSUME NEW e \in Backends, NEW i \in DOMAIN queue'[e]
        PROVE  /\ outcome'[queue'[e][i]] = "pending"
               /\ Door(queue'[e][i]) = e
               /\ \A j \in DOMAIN queue'[e] : queue'[e][i] = queue'[e][j] => i = j
    <3>1. CASE e # d
      BY <1>b, <2>3, <2>6, <3>1
    <3>2. CASE e = d /\ i = n + 1
      <4>1. outcome'[c] = "pending"
        BY <1>0, <2>2 DEF TypeOK
      <4>2. \A j \in 1..(n + 1) : queue'[d][j] = c => j = n + 1
        BY <2>1, <2>3, <2>4
      <4>3. QED
        BY <2>3, <3>2, <4>1, <4>2 DEF d
    <3>3. CASE e = d /\ i # n + 1
      <4>1. i \in 1..n /\ queue'[d][i] = queue[d][i]
        BY <2>1, <2>3, <3>3
      <4>2. ASSUME NEW j \in 1..(n + 1), queue'[d][i] = queue'[d][j] PROVE i = j
        <5>1. CASE j = n + 1
          BY <2>1, <2>3, <2>4, <4>1, <4>2, <5>1
        <5>2. CASE j \in 1..n
          <6>1. queue'[d][j] = queue[d][j]
            BY <2>3, <5>2
          <6>2. \A k, m \in 1..n : queue[d][k] = queue[d][m] => k = m
            BY <1>b, <2>1
          <6>3. QED
            BY <4>1, <4>2, <5>2, <6>1, <6>2
        <5>3. QED
          BY <2>1, <5>1, <5>2
      <4>3. QED
        BY <1>b, <2>1, <2>3, <2>6, <3>3, <4>1, <4>2
    <3>4. QED
      BY <3>1, <3>2, <3>3
  <2>9. QED
    BY <1>0, <2>2, <2>7, <2>8, WaitersAfter
<1>7. ASSUME NEW c \in Calls, NEW r \in Outcomes \ {"pending"}, Unqueue(c), target' = target,
             outcome' = [outcome EXCEPT ![c] = r]
      PROVE  NoLostWaiter'
  <2> DEFINE d == Door(c)
             n == Len(queue[d])
  <2>1. d \in Backends
    BY <1>a
  <2>2. PICK k \in DOMAIN queue[d] :
          /\ queue[d][k] = c
          /\ queue' = [queue EXCEPT ![d] = RemoveAt(queue[d], k)]
          /\ RemoveAt(queue[d], k) \in Seq(Calls)
          /\ Len(RemoveAt(queue[d], k)) = n - 1
          /\ \A j \in 1..(n - 1) :
               RemoveAt(queue[d], k)[j] = IF j < k THEN queue[d][j] ELSE queue[d][j + 1]
    BY <1>7, UnqueueFacts
  <2>3. /\ queue'[d] = RemoveAt(queue[d], k)
        /\ \A e \in Backends : e # d => queue'[e] = queue[e]
    BY <1>0, <2>1, <2>2 DEF TypeOK
  <2>4. /\ DOMAIN queue'[d] = 1..(n - 1)
        /\ \A j \in 1..(n - 1) :
             queue'[d][j] = IF j < k THEN queue[d][j] ELSE queue[d][j + 1]
    BY <2>2, <2>3, LenProperties
  <2> HIDE DEF d
  <2>5. QED
    BY <1>0, <1>7, <2>1, <2>2, <2>3, <2>4, WaiterLeaves
<1>8. ASSUME NEW c \in Calls, QueueTimeout(c)
      PROVE  NoLostWaiter'
  BY <1>7, <1>8 DEF QueueTimeout, Settle, Outcomes
<1>9. ASSUME NEW c \in Calls, QueueAbort(c)
      PROVE  NoLostWaiter'
  BY <1>7, <1>9 DEF QueueAbort, Settle, Outcomes
<1>10. ASSUME NEW c \in Calls, ReleaseRefused(c)
       PROVE  NoLostWaiter'
  BY <1>0, <1>10, WaitersKept DEF ReleaseRefused
<1>11. ASSUME NEW c \in Calls, ReleaseIdle(c)
       PROVE  NoLostWaiter'
  <2>1. DOMAIN queue[Door(c)] = {}
    BY <1>a, <1>11, PromotionFacts DEF ReleaseIdle
  <2>2. queue[Door(c)] = <<>>
    <3>1. /\ Len(queue[Door(c)]) \in Nat
          /\ DOMAIN queue[Door(c)] = 1..Len(queue[Door(c)])
          /\ queue[Door(c)] = <<>> <=> Len(queue[Door(c)]) = 0
      BY <1>a, PoolFacts
    <3>2. 1 \notin 1..Len(queue[Door(c)])
      BY <2>1, <3>1, Zenon
    <3>3. Len(queue[Door(c)]) = 0
      BY <3>1, <3>2
    <3>4. QED
      BY <3>1, <3>3
  <2>3. queue' = queue
    BY <1>0, <1>11, <2>2 DEF ReleaseIdle, TypeOK
  <2>4. QED
    BY <1>0, <1>11, <2>3, WaitersKept DEF ReleaseIdle
<1>12. ASSUME NEW c \in Calls, ReleaseHandOff(c)
       PROVE  NoLostWaiter'
  <2> DEFINE d == Door(c)
             n == Len(queue[d])
             w == queue[d][1]
  <2>1. /\ d \in Backends /\ n \in Nat /\ queue[d] \in Seq(Calls)
        /\ DOMAIN queue[d] = 1..n
    BY <1>a, PoolFacts
  <2>2. /\ w \in Calls /\ 1 \in DOMAIN queue[d]
        /\ Min(Promotable(d)) = 1
    BY <1>12, <2>1, PromotionFacts DEF ReleaseHandOff
  <2>3. /\ queue' = [queue EXCEPT ![d] = SubSeq(queue[d], 2, n)]
        /\ outcome' = [outcome EXCEPT ![w] = "admitted"]
        /\ target' = target
    BY <1>12, <2>2 DEF ReleaseHandOff, Settle
  <2>4. /\ SubSeq(queue[d], 2, n) \in Seq(Calls)
        /\ Len(SubSeq(queue[d], 2, n)) = n - 1
        /\ \A j \in 1..(n - 1) : SubSeq(queue[d], 2, n)[j] = queue[d][1 + j]
    BY <2>1, <2>2, SuffixFacts
  <2>5. /\ queue'[d] = SubSeq(queue[d], 2, n)
        /\ \A e \in Backends : e # d => queue'[e] = queue[e]
    BY <1>0, <2>1, <2>3 DEF TypeOK
  <2>6. /\ DOMAIN queue'[d] = 1..(n - 1)
        /\ \A j \in 1..(n - 1) : queue'[d][j] = IF j < 1 THEN queue[d][j] ELSE queue[d][j + 1]
    BY <2>1, <2>4, <2>5, LenProperties
  <2> HIDE DEF d
  <2>7. "admitted" \in Outcomes \ {"pending"}
    BY DEF Outcomes
  <2>8. QED
    BY <1>0, <2>1, <2>2, <2>3, <2>5, <2>6, <2>7, WaiterLeaves
<1>13. CASE UNCHANGED poolVars
  BY <1>0, <1>13, WaitersKept DEF poolVars
<1>14. QED
  BY <1>2, <1>3, <1>4, <1>5, <1>6, <1>8, <1>9, <1>10, <1>11, <1>12, <1>13
     DEF Next, Acquire, Release

-----------------------------------------------------------------------------
(* The results *)

\* PoolInv is inductive: the slots are exact, no slot is free while somebody
\* waits, and no waiter is lost, for every configuration of the domains.
THEOREM PoolCorrect == Spec => []PoolInv
<1>1. Init => PoolInv
  <2> SUFFICES ASSUME Init
               PROVE  PoolInv
    OBVIOUS
  <2>1. TypeOK
    BY DEF Init, TypeOK, Outcomes, Counters
  <2>2. SlotsExact
    <3>1. \A d \in Backends : Holders(d) = {}
      BY DEF Init, Holders
    <3>2. \A d \in Backends : active[d] = 0 /\ 0 <= Slots(d)
      BY DomainFacts DEF Init
    <3>3. QED
      BY <3>1, <3>2, FS_EmptySet DEF SlotsExact, Init
  <2>3. NoFreeSlotWhileWaiting
    BY DEF Init, NoFreeSlotWhileWaiting
  <2>4. NoLostWaiter
    BY DEF Init, NoLostWaiter
  <2>5. QED
    BY <2>1, <2>2, <2>3, <2>4 DEF PoolInv
<1>2. PoolInv /\ [Next]_poolVars => PoolInv'
  BY TypeStep, SlotsStep, FreeSlotStep, WaiterStep DEF PoolInv
<1>3. QED
  BY <1>1, <1>2, PTL DEF Spec

\* state.active is exactly the number of tickets out and within the limit.
THEOREM SlotsAreExact == Spec => []SlotsExact
  BY PoolCorrect, PTL DEF PoolInv

\* A waiter and a free slot never coexist, so the fast path overtakes nobody.
THEOREM NoSlotIdles == Spec => []NoFreeSlotWhileWaiting
  BY PoolCorrect, PTL DEF PoolInv

\* Every pending promise is in the queue of its own door, once.
THEOREM NoWaiterIsLost == Spec => []NoLostWaiter
  BY PoolCorrect, PTL DEF PoolInv

-----------------------------------------------------------------------------
(* The pool implements SlotDoor *)

\* The doors of SlotDoor, as the pool has them.
Inside == [d \in Backends |-> Holders(d)]

\* An INSTANCE has its own copy of the operators its module extends.
LEMMA SameOperators ==
  /\ \A S : Abstract!Cardinality(S) = Cardinality(S)
  /\ \A q, x : Abstract!Contains(q, x) <=> Contains(q, x)
  /\ \A q, i : Abstract!RemoveAt(q, i) = RemoveAt(q, i)
<1>1. \A S : Abstract!Cardinality(S) = Cardinality(S)
  BY DEF Cardinality, Abstract!Cardinality, Abstract!IsFiniteSet, IsFiniteSet
<1>2. \A q, x : Abstract!Contains(q, x) <=> Contains(q, x)
  BY DEF Contains, Abstract!Contains
<1>3. \A q, i : Abstract!RemoveAt(q, i) = RemoveAt(q, i)
  BY DEF RemoveAt, Abstract!RemoveAt
<1>4. QED
  BY <1>1, <1>2, <1>3

\* Holders after a step that changes issued, with the doors of before the step.
LEMMA HoldersAfter ==
  ASSUME PoolInv, target' = target, issued' \in SUBSET Calls
  PROVE  Inside' = [d \in Backends |-> {x \in issued' : Door(x) = d}]
  BY DoorFacts DEF PoolInv, Inside, Holders

\* A step that hands out and takes back no ticket and leaves the queues alone is
\* a stuttering step of SlotDoor.
LEMMA DoorStutter ==
  ASSUME PoolInv, target' = target, issued' = issued, queue' = queue
  PROVE  UNCHANGED Abstract!doorVars
<1>1. issued' \in SUBSET Calls
  BY DEF PoolInv, TypeOK
<1>2. Inside' = Inside
  BY <1>1, HoldersAfter DEF Inside, Holders
<1>3. QED
  BY <1>2 DEF Abstract!doorVars, Inside

\* Every handler is a step of SlotDoor or leaves the doors as they are.
LEMMA DoorStep == PoolInv /\ [Next]_poolVars => [Abstract!Next]_(Abstract!doorVars)
<1> SUFFICES ASSUME PoolInv, [Next]_poolVars
             PROVE  [Abstract!Next]_(Abstract!doorVars)
  OBVIOUS
<1>0. /\ TypeOK
      /\ \A c \in Calls : Door(c) \in Backends
      /\ \A d \in Backends : Inside[d] = Holders(d)
      /\ \A d \in Backends : [e \in Backends |-> Slots(e)][d] = Slots(d)
  BY DoorFacts DEF PoolInv, Inside
<1>1. ASSUME NEW c \in Calls,
             AcquireAborted(c) \/ AcquireDeferred(c) \/ AcquireDropped(c)
      PROVE  UNCHANGED Abstract!doorVars
  BY <1>1, DoorStutter DEF AcquireAborted, AcquireDeferred, AcquireDropped
<1>2. ASSUME NEW c \in Calls, AcquireFast(c)
      PROVE  Abstract!WalkIn(c, Door(c))
  <2> DEFINE d == Door(c)
  <2>1. d \in Backends /\ active[d] < Slots(d) /\ active[d] = Cardinality(Holders(d))
    BY <1>0, <1>2 DEF AcquireFast, Room, PoolInv, SlotsExact
  <2>2. queue[d] = <<>>
    BY <2>1, PoolFacts DEF PoolInv, NoFreeSlotWhileWaiting
  <2>3. c \notin Holders(d)
    BY <1>2 DEF AcquireFast, PoolInv, SlotsExact, Holders
  <2>4. ~ Contains(queue[d], c)
    BY <2>2, <2>1, PoolFacts DEF Contains
  <2>5. Inside' = [Inside EXCEPT ![d] = @ \cup {c}]
    <3>1. issued' = issued \cup {c} /\ target' = target
      BY <1>2 DEF AcquireFast
    <3>2. Inside' = [e \in Backends |-> {x \in issued' : Door(x) = e}]
      BY <1>0, <3>1, HoldersAfter DEF TypeOK
    <3>3. \A e \in Backends : {x \in issued' : Door(x) = e}
                               = IF e = d THEN Holders(e) \cup {c} ELSE Holders(e)
      BY <3>1 DEF Holders
    <3>4. QED
      BY <2>1, <3>2, <3>3 DEF Inside
  <2>6. queue' = queue
    BY <1>2 DEF AcquireFast
  <2>7. QED
    BY <1>0, <2>1, <2>2, <2>3, <2>4, <2>5, <2>6, SameOperators
       DEF Abstract!WalkIn, Abstract!At, Inside
<1>3. ASSUME NEW c \in Calls, Enqueue(c)
      PROVE  Abstract!Join(c, Door(c))
  <2> DEFINE d == Door(c)
  <2>1. /\ d \in Backends /\ active[d] = Cardinality(Holders(d))
        /\ active[d] <= Slots(d) /\ active[d] \in Nat /\ Slots(d) \in Nat
        /\ ~ (active[d] < Slots(d))
    BY <1>0, <1>3, PoolFacts DEF Enqueue, Room, PoolInv, SlotsExact
  <2>2. Cardinality(Holders(d)) = Slots(d)
    BY <2>1
  <2>3. c \notin Holders(d)
    BY <1>3 DEF Enqueue, PoolInv, SlotsExact, Holders
  <2>4. ~ Contains(queue[d], c)
    BY <1>3, <2>1, PoolFacts DEF Contains, Enqueue, PoolInv, NoLostWaiter
  <2>5. Inside' = Inside
    BY <1>0, <1>3, HoldersAfter DEF Enqueue, TypeOK, Inside, Holders
  <2>6. queue' = [queue EXCEPT ![d] = Append(@, c)]
    BY <1>3 DEF Enqueue, EnqueueLast
  <2>7. QED
    BY <1>0, <2>1, <2>2, <2>3, <2>4, <2>5, <2>6, SameOperators
       DEF Abstract!Join, Abstract!At, Inside
<1>4. ASSUME NEW c \in Calls, QueueTimeout(c) \/ QueueAbort(c)
      PROVE  Abstract!GiveUp(c, Door(c))
  <2>1. Unqueue(c) /\ target' = target /\ issued' = issued
    BY <1>4 DEF QueueTimeout, QueueAbort
  <2>2. Inside' = Inside
    BY <1>0, <2>1, HoldersAfter DEF TypeOK, Inside, Holders
  <2>3. QED
    BY <2>1, <2>2, SameOperators DEF Abstract!GiveUp, Unqueue, Inside
<1>5. ASSUME NEW c \in Calls, ReleaseRefused(c)
      PROVE  UNCHANGED Abstract!doorVars
  <2>1. c \notin issued
    BY <1>5, PoolFacts DEF ReleaseRefused, Owned
  <2>2. QED
    BY <1>5, <2>1, DoorStutter DEF ReleaseRefused
<1>6. ASSUME NEW c \in Calls, ReleaseIdle(c)
      PROVE  Abstract!Leave(c, Door(c))
  <2> DEFINE d == Door(c)
  <2>1. d \in Backends /\ c \in issued
    BY <1>0, <1>6 DEF ReleaseIdle, Owned
  <2>2. /\ Len(queue[d]) \in Nat
        /\ DOMAIN queue[d] = 1..Len(queue[d])
        /\ queue[d] = <<>> <=> Len(queue[d]) = 0
    BY <2>1, PoolFacts
  <2>3. queue[d] = <<>>
    <3>1. 1 \notin 1..Len(queue[d])
      BY <1>6, <2>1, <2>2, PromotionFacts, Zenon DEF ReleaseIdle
    <3>2. Len(queue[d]) = 0
      BY <2>2, <3>1
    <3>3. QED
      BY <2>2, <3>2
  <2>4. queue' = queue
    BY <1>0, <1>6, <2>1, <2>3 DEF ReleaseIdle, TypeOK
  <2>5. Inside' = [Inside EXCEPT ![d] = @ \ {c}]
    <3>1. issued' = issued \ {c} /\ target' = target
      BY <1>6 DEF ReleaseIdle
    <3>2. Inside' = [e \in Backends |-> {x \in issued' : Door(x) = e}]
      BY <1>0, <3>1, HoldersAfter DEF TypeOK
    <3>3. \A e \in Backends : {x \in issued' : Door(x) = e}
                               = IF e = d THEN Holders(e) \ {c} ELSE Holders(e)
      BY <3>1 DEF Holders
    <3>4. QED
      BY <2>1, <3>2, <3>3 DEF Inside
  <2>6. c \in Holders(d)
    BY <2>1 DEF Holders
  <2>7. QED
    BY <1>0, <2>1, <2>3, <2>4, <2>5, <2>6 DEF Abstract!Leave, Inside
<1>7. ASSUME NEW c \in Calls, ReleaseHandOff(c)
      PROVE  Abstract!HandOver(c, Door(c))
  <2> DEFINE d == Door(c)
             w == queue[d][1]
  <2>1. d \in Backends /\ c \in issued /\ queue[d] \in Seq(Calls)
    BY <1>0, <1>7, PoolFacts DEF ReleaseHandOff, Owned
  <2>2. /\ w \in Calls /\ w \notin issued /\ Door(w) = d /\ 1 \in DOMAIN queue[d]
        /\ Min(Promotable(d)) = 1
    BY <1>7, <2>1, PromotionFacts DEF ReleaseHandOff
  <2>3. queue[d] # <<>>
    BY <2>2
  <2>4. Head(queue[d]) = w /\ Tail(queue[d]) = SubSeq(queue[d], 2, Len(queue[d]))
    BY <2>1, <2>3, TailIsSubSeq
  <2>5. queue' = [queue EXCEPT ![d] = Tail(@)]
    <3>1. queue' = [queue EXCEPT ![d] = SubSeq(queue[d], 2, Len(queue[d]))]
      BY <1>7, <2>2 DEF ReleaseHandOff
    <3>2. QED
      BY <2>4, <3>1
  <2>6. issued' = (issued \ {c}) \cup {w} /\ target' = target
    BY <1>7, <2>2 DEF ReleaseHandOff
  <2> HIDE DEF w
  <2>7. Inside' = [Inside EXCEPT ![d] = (@ \ {c}) \cup {w}]
    <3>1. Inside' = [e \in Backends |-> {x \in issued' : Door(x) = e}]
      BY <1>0, <2>2, <2>6, HoldersAfter DEF TypeOK
    <3>2. \A e \in Backends : {x \in issued' : Door(x) = e}
                               = IF e = d THEN (Holders(e) \ {c}) \cup {w} ELSE Holders(e)
      BY <2>2, <2>6 DEF Holders
    <3>3. QED
      BY <2>1, <3>1, <3>2 DEF Inside
  <2>8. c \in Holders(d)
    BY <2>1 DEF Holders
  <2>9. QED
    BY <1>0, <2>1, <2>3, <2>4, <2>5, <2>7, <2>8 DEF Abstract!HandOver, Inside
<1>8. CASE UNCHANGED poolVars
  BY <1>8, DoorStutter DEF poolVars
<1>9. QED
  BY <1>0, <1>1, <1>2, <1>3, <1>4, <1>5, <1>6, <1>7, <1>8
     DEF Next, Acquire, Release, Abstract!Next

\* No overbooking, no barging past a waiter, and a returned slot goes to the
\* oldest waiter in the step that returns it.
THEOREM PoolImplementsSlotDoor == Spec => ImplementsSlotDoor
<1>1. Init => Abstract!Init
  BY DEF Init, Abstract!Init, Holders
<1>2. QED
  BY <1>1, PoolCorrect, DoorStep, PTL DEF Spec, ImplementsSlotDoor, Abstract!Spec
=============================================================================
