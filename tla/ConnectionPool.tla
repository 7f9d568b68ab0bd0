--------------------------- MODULE ConnectionPool ---------------------------
(***************************************************************************)
(* Upstream admission, src/src/proxy/connection-pool.mjs.                  *)
(*                                                                         *)
(* Every upstream attempt acquires a slot of its backend's capacity        *)
(* domain, waits in the domain's FIFO when all slots are taken, and        *)
(* returns the slot exactly once.  Several backend ids may alias one       *)
(* domain.  A call is one invocation of acquire(); the ticket it is given  *)
(* is identified with the call.  JavaScript runs each handler (acquire,    *)
(* release, the timer callback, the abort listener) without interruption,  *)
(* so each is one action.                                                  *)
(***************************************************************************)
EXTENDS Integers, SequencesExt

CONSTANTS Calls,          \* invocations of acquire()
          Backends,       \* backend ids, the ids of capacity domains among them
          Members,        \* config capacityDomains: domain id -> its member ids
          MaxConcurrent,  \* configured max of a domain, or of a backend alone
          MaxQueue        \* configured maxQueue of the same

MemberIds(d) == {d} \cup Members[d]

\* The constructor throws when a member belongs to two domains.
ASSUME PoolAssumption ==
  /\ IsFiniteSet(Calls)
  /\ DOMAIN Members \subseteq Backends
  /\ \A d \in DOMAIN Members : Members[d] \subseteq Backends
  /\ \A d, e \in DOMAIN Members : d # e => MemberIds(d) \cap MemberIds(e) = {}
  /\ MaxConcurrent \in [Backends -> Int]
  /\ MaxQueue \in [Backends -> Int]

Larger(a, b) == IF a >= b THEN a ELSE b

\* _memberDomains.get(id) || id
DomainId(b) ==
  IF \E d \in DOMAIN Members : b \in MemberIds(d)
  THEN CHOOSE d \in DOMAIN Members : b \in MemberIds(d)
  ELSE b

Slots(d) == Larger(1, MaxConcurrent[d])
QueueLimit(d) == Larger(0, MaxQueue[d])

Outcomes == {"none", "pending", "admitted", "cancelled", "deferred", "dropped", "timeout"}
Counters == {"processed", "dropped", "deferred", "timedOut", "cancelled"}

VARIABLES target,      \* target[c]: the backend id call c names (an input, fixed)
          outcome,     \* outcome[c]: what became of c's promise
          active,      \* state.active of each domain
          queue,       \* state.queue of each domain
          issued,      \* calls whose ticket is in _issuedTickets
          total,       \* the monotone counters of each domain
          peakActive,
          peakQueue

poolVars == <<target, outcome, active, queue, issued, total, peakActive, peakQueue>>

Door(c) == DomainId(target[c])

Init ==
  /\ target \in [Calls -> Backends]
  /\ outcome = [c \in Calls |-> "none"]
  /\ active = [d \in Backends |-> 0]
  /\ queue = [d \in Backends |-> <<>>]
  /\ issued = {}
  /\ total = [d \in Backends |-> [k \in Counters |-> 0]]
  /\ peakActive = [d \in Backends |-> 0]
  /\ peakQueue = [d \in Backends |-> 0]

\* The promise of c settles with result r and domain counter k goes up.
Settle(c, r, k) ==
  /\ outcome' = [outcome EXCEPT ![c] = r]
  /\ total' = [total EXCEPT ![Door(c)][k] = @ + 1]

-----------------------------------------------------------------------------
(* acquire() *)

\* The caller's signal is already aborted.
AcquireAborted(c) ==
  /\ outcome[c] = "none"
  /\ Settle(c, "cancelled", "cancelled")
  /\ UNCHANGED <<target, active, queue, issued, peakActive, peakQueue>>

\* The fast path looks at the slots only, not at the queue.
Room(d) == active[d] < Slots(d)

\* A slot is free right now.
AcquireFast(c) ==
  /\ outcome[c] = "none"
  /\ Room(Door(c))
  /\ active' = [active EXCEPT ![Door(c)] = @ + 1]
  /\ peakActive' = [peakActive EXCEPT ![Door(c)] = Larger(@, active'[Door(c)])]
  /\ issued' = issued \cup {c}
  /\ Settle(c, "admitted", "processed")
  /\ UNCHANGED <<target, queue, peakQueue>>

\* The door is full and the caller has another door to try (nonBlocking).
AcquireDeferred(c) ==
  /\ outcome[c] = "none"
  /\ ~ Room(Door(c))
  /\ Settle(c, "deferred", "deferred")
  /\ UNCHANGED <<target, active, queue, issued, peakActive, peakQueue>>

\* The door and its queue are full.
AcquireDropped(c) ==
  /\ outcome[c] = "none"
  /\ ~ Room(Door(c))
  /\ Len(queue[Door(c)]) >= QueueLimit(Door(c))
  /\ Settle(c, "dropped", "dropped")
  /\ UNCHANGED <<target, active, queue, issued, peakActive, peakQueue>>

\* mutant: the waiter is put in front instead of behind (unshift for push).
EnqueueFirst(q, c) == <<c>> \o q
\* state.queue.push(waiter)
EnqueueLast(q, c) == Append(q, c)

\* The door is full: wait.
Enqueue(c) ==
  /\ outcome[c] = "none"
  /\ ~ Room(Door(c))
  /\ Len(queue[Door(c)]) < QueueLimit(Door(c))
  /\ queue' = [queue EXCEPT ![Door(c)] = EnqueueLast(@, c)]
  /\ peakQueue' = [peakQueue EXCEPT ![Door(c)] = Larger(@, Len(queue'[Door(c)]))]
  /\ outcome' = [outcome EXCEPT ![c] = "pending"]
  /\ UNCHANGED <<target, active, issued, total, peakActive>>

Acquire(c) ==
  \/ AcquireAborted(c)
  \/ AcquireFast(c)
  \/ AcquireDeferred(c)
  \/ AcquireDropped(c)
  \/ Enqueue(c)

-----------------------------------------------------------------------------
(* The two ways out of the queue that are not a promotion *)

\* mutant: a waiter can leave only while a slot is free.
UnqueueIfRoom(c) ==
  /\ outcome[c] = "pending"
  /\ Room(Door(c))
  /\ \E i \in DOMAIN queue[Door(c)] :
       /\ queue[Door(c)][i] = c
       /\ queue' = [queue EXCEPT ![Door(c)] = RemoveAt(@, i)]
\* `!settled && remove(waiter)`
Unqueue(c) ==
  /\ outcome[c] = "pending"
  /\ \E i \in DOMAIN queue[Door(c)] :
       /\ queue[Door(c)][i] = c
       /\ queue' = [queue EXCEPT ![Door(c)] = RemoveAt(@, i)]

\* The waiter's queue timer fires.
QueueTimeout(c) ==
  /\ Unqueue(c)
  /\ Settle(c, "timeout", "timedOut")
  /\ UNCHANGED <<target, active, issued, peakActive, peakQueue>>

\* The client disconnects while it waits (also when the signal aborted between
\* the first check and the registration of the listener).
QueueAbort(c) ==
  /\ Unqueue(c)
  /\ Settle(c, "cancelled", "cancelled")
  /\ UNCHANGED <<target, active, issued, peakActive, peakQueue>>

-----------------------------------------------------------------------------
(* release() *)

\* Owned: the ticket is in _issuedTickets and its domain has an active slot.
Owned(c) == c \in issued /\ active[Door(c)] > 0

\* The positions the promotion loop of release() could stop at: it shifts
\* waiters until one of them is unsettled and a slot is free.
Promotable(d) ==
  IF active[d] - 1 < Slots(d)
  THEN {i \in DOMAIN queue[d] : outcome[queue[d][i]] = "pending"}
  ELSE {}

\* A ticket that is not owned (a second release of the same slot) changes no
\* counter and promotes nobody.
ReleaseRefused(c) ==
  /\ outcome[c] = "admitted"
  /\ ~ Owned(c)
  /\ issued' = issued \ {c}
  /\ UNCHANGED <<target, outcome, active, queue, total, peakActive, peakQueue>>

\* Nobody to promote: the slot becomes free and whatever the loop shifted is gone.
ReleaseIdle(c) ==
  LET d == Door(c) IN
  /\ outcome[c] = "admitted"
  /\ Owned(c)
  /\ Promotable(d) = {}
  /\ active' = [active EXCEPT ![d] = @ - 1]
  /\ queue' = [queue EXCEPT ![d] = <<>>]
  /\ issued' = issued \ {c}
  /\ UNCHANGED <<target, outcome, total, peakActive, peakQueue>>

\* The first unsettled waiter takes the slot in the same step.
ReleaseHandOff(c) ==
  LET d == Door(c)
      i == Min(Promotable(d))
      w == queue[d][i]
  IN
  /\ outcome[c] = "admitted"
  /\ Owned(c)
  /\ Promotable(d) # {}
  /\ queue' = [queue EXCEPT ![d] = SubSeq(@, i + 1, Len(@))]
  /\ issued' = (issued \ {c}) \cup {w}
  /\ Settle(w, "admitted", "processed")
  /\ peakActive' = [peakActive EXCEPT ![d] = Larger(@, active[d])]
  /\ UNCHANGED <<target, active, peakQueue>>

Release(c) == ReleaseRefused(c) \/ ReleaseIdle(c) \/ ReleaseHandOff(c)

-----------------------------------------------------------------------------

Next ==
  \E c \in Calls : Acquire(c) \/ QueueTimeout(c) \/ QueueAbort(c) \/ Release(c)

Spec == Init /\ [][Next]_poolVars

\* Node fires a due timer; nothing else is assumed, not even that a slot is
\* ever returned.
Fairness == \A c \in Calls : WF_poolVars(QueueTimeout(c))

FairSpec == Spec /\ Fairness

-----------------------------------------------------------------------------
(* Properties *)

\* Every variable has its type.
TypeOK ==
  /\ target \in [Calls -> Backends]
  /\ outcome \in [Calls -> Outcomes]
  /\ active \in [Backends -> Nat]
  /\ queue \in [Backends -> Seq(Calls)]
  /\ issued \in SUBSET Calls
  /\ total \in [Backends -> [Counters -> Nat]]
  /\ peakActive \in [Backends -> Nat]
  /\ peakQueue \in [Backends -> Nat]

Holders(d) == {c \in issued : Door(c) = d}

\* state.active is the number of tickets out, whatever the callers release, and
\* never more than the domain's limit, also when several backend ids share it; a
\* ticket is out only for a promise that was resolved with it.
SlotsExact ==
  /\ \A c \in issued : outcome[c] = "admitted"
  /\ \A d \in Backends :
       /\ active[d] = Cardinality(Holders(d))
       /\ active[d] <= Slots(d)

\* The fast path of acquire() does not look at the queue.  That is no unfairness
\* only because a waiter never coexists with a free slot: release() promotes in
\* the step that frees the slot.
NoFreeSlotWhileWaiting ==
  \A d \in Backends : queue[d] # <<>> => active[d] = Slots(d)

\* release() shifts waiters off the queue until one can be promoted; none it
\* shifts is ever left unsettled.  A pending promise is in the queue of its own
\* door, once; and the queue holds pending promises only.
NoLostWaiter ==
  /\ \A c \in Calls :
       outcome[c] = "pending" => \E i \in DOMAIN queue[Door(c)] : queue[Door(c)][i] = c
  /\ \A d \in Backends : \A i \in DOMAIN queue[d] :
       /\ outcome[queue[d][i]] = "pending"
       /\ Door(queue[d][i]) = d
       /\ \A j \in DOMAIN queue[d] : queue[d][i] = queue[d][j] => i = j

\* The inductive invariant of the pool: the counter, the tickets and the queue
\* agree with the promises.
PoolInv == TypeOK /\ SlotsExact /\ NoFreeSlotWhileWaiting /\ NoLostWaiter

\* The pool implements SlotDoor: no overbooking, no barging past a waiter, and a
\* returned slot goes to the oldest waiter in the step that returns it.
Abstract == INSTANCE SlotDoor WITH
  Guests <- Calls,
  Doors <- Backends,
  Places <- [d \in Backends |-> Slots(d)],
  inside <- [d \in Backends |-> Holders(d)],
  line <- queue
ImplementsSlotDoor == Abstract!Spec

\* Even if no slot is ever returned, a waiting call settles: its timer sees to it.
WaiterSettles ==
  \A c \in Calls : outcome[c] = "pending" ~> outcome[c] # "pending"
=============================================================================
