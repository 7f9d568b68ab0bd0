------------------------------ MODULE RouteLoop ------------------------------
(***************************************************************************)
(* The candidate loop of routeAndSend(), src/src/proxy/router.mjs.         *)
(*                                                                         *)
(* A request walks along its candidates until one gives an answer that is  *)
(* not worth a failover.  Requests meet at the doors of the connection     *)
(* pool, here the abstract SlotDoor the pool implements, and at the        *)
(* throttle cooldowns that the answers of others leave behind.             *)
(*                                                                         *)
(* A candidate is a backend with the model it serves.  The loop runs       *)
(* without interruption from one wait to the next; it waits for a slot,    *)
(* for the answer, and for the energy meter after the answer.              *)
(***************************************************************************)
EXTENDS Integers, SequencesExt

CONSTANTS Requests,
          Candidates,    \* backends, each with a model it serves
          Domains,       \* the capacity domains
          DomainOf,      \* the capacity domain of a candidate
          ModelOf,       \* the model it serves
          FamilyOf,      \* its bucketFamily
          ContextLimit,  \* its context_limit
          BodyLimit,     \* the request limit of its model
          Routes,        \* the candidate lists: [doors : Seq(Candidates), chain : BOOLEAN]
          Sizes,         \* the sizes of requests
          Slots,         \* the places of a domain
          MaxQueue       \* the length of its queue

ASSUME RouteAssumption ==
  /\ DomainOf \in [Candidates -> Domains]
  /\ ContextLimit \in [Candidates -> Nat]
  /\ BodyLimit \in [Candidates -> Nat]
  /\ \A route \in Routes : route.doors \in Seq(Candidates) \ {<<>>}
                           /\ route.chain \in BOOLEAN
  /\ Sizes \subseteq Nat
  /\ Slots \in [Domains -> Nat \ {0}]
  /\ MaxQueue \in [Domains -> Nat]

\* What a candidate answers: a result or a 4xx the client is to see, a 400 because
\* the prompt exceeds the engine's context or because the history has no
\* reasoning, a 404 or 410, a 429 or 402, a 5xx.
Answers == {"ok", "overflow", "history", "missing", "throttled", "failed"}

\* What the client gets: one of these, or a 503 of the pool, the attributable
\* 429, 413, the 400 for a prompt no door can hold, or 499.
Results == Answers \cup {"full", "all throttled", "too large", "never fits", "cancelled"}

VARIABLES req,      \* req[r]: the local state of a request
          cooling,  \* the candidates in _throttleCooldowns
          inside,   \* the pool: who holds a slot of a domain
          line      \* the pool: who waits for one

routeVars == <<req, cooling, inside, line>>

Pool == INSTANCE SlotDoor WITH Guests <- Requests, Doors <- Domains, Places <- Slots

\* A request about to walk along a route.
NewRequest(route, size) ==
  [stage     |-> "trying",  \* or "queued", "sent", "done"
   route     |-> route,
   size      |-> size,
   at        |-> 1,         \* i, the candidate it is at
   last      |-> "none",    \* lastResult
   throttled |-> 0,         \* the length of throttledAttempts
   tooSmall  |-> FALSE,     \* contextRejections is not empty
   tooLarge  |-> FALSE,     \* transportRejections is not empty
   gone      |-> FALSE,     \* the client disconnected
   events    |-> <<>>,      \* the "response" events it emitted
   result    |-> "none"]    \* what routeAndSend() returned

\* No request is under way: the one before was answered.
Init ==
  /\ \E route \in Routes, size \in Sizes :
       req = [r \in Requests |-> [NewRequest(route, size) EXCEPT !.stage = "done",
                                    !.events = <<"ok">>, !.result = "ok"]]
  /\ cooling = {}
  /\ Pool!Init

-----------------------------------------------------------------------------
(* The local steps of a request: from its state q to its next state *)

Door(q) == q.route.doors[q.at]
LastDoor(q) == q.at = Len(q.route.doors)
LaterDoors(q) == {q.route.doors[j] : j \in q.at + 1 .. Len(q.route.doors)}
Domain(q) == DomainOf[Door(q)]

\* hasDifferentDomainLater()
ElsewhereLater(q) == \E c \in LaterDoors(q) : DomainOf[c] # Domain(q)

Emit(q, event) == [q EXCEPT !.events = Append(@, event)]
\* The locals of the loop are gone.
Return(q, result) ==
  [NewRequest(q.route, q.size) EXCEPT !.stage = "done", !.events = q.events, !.result = result]
Finish(q, result) == Return(Emit(q, result), result)

\* After the last candidate.
Conclude(q) ==
  CASE q.throttled = Len(q.route.doors) -> Finish(q, "all throttled")
    [] q.last = "none" /\ q.tooLarge -> Finish(q, "too large")
    [] q.last = "none" /\ q.tooSmall -> Finish(q, "never fits")
    [] OTHER -> Return(Emit(q, IF q.last = "none" THEN "failed" ELSE q.last), q.last)

\* continue, to the candidate at position j.
GoTo(q, j) ==
  IF j > Len(q.route.doors) THEN Conclude(q)
                            ELSE [q EXCEPT !.stage = "trying", !.at = j]
Advance(q) == GoTo(q, q.at + 1)

\* mutant: every rejection emits the terminal event, and is told to the next door.
RejectedTwice(q) ==
  LET told == Emit(q, "full")
  IN  IF LastDoor(q) THEN Return(told, "full") ELSE Advance([told EXCEPT !.last = "full"])
\* mutant: a rejection ends the request at its first door.
RejectedForGood(q) == Finish(q, "full")
\* The pool rejected the request.  When no other door is left the event is the
\* terminal one; every candidate but the last then goes on.
Rejected(q) ==
  LET told == IF ElsewhereLater(q) THEN q ELSE Emit(q, "full")
  IN  IF LastDoor(q) THEN Return(told, "full") ELSE Advance([told EXCEPT !.last = "full"])

\* A later candidate that serves the same model with a larger context.
LargerLater(q) ==
  \E c \in LaterDoors(q) : /\ q.route.chain => ModelOf[c] = ModelOf[Door(q)]
                           /\ ContextLimit[c] > ContextLimit[Door(q)]

\* mutant: the search for another family starts at the first candidate.
AnyOtherFamily(q) ==
  {j \in DOMAIN q.route.doors : FamilyOf[q.route.doors[j]] # FamilyOf[Door(q)]}
\* The positions of later candidates of another family.
OtherFamily(q) ==
  {j \in q.at + 1 .. Len(q.route.doors) : FamilyOf[q.route.doors[j]] # FamilyOf[Door(q)]}

\* It is, whether it answered so or was passed over.
Throttled(q) == [q EXCEPT !.throttled = @ + 1]

\* The answer of the candidate the request is at.
Answered(q, answer) ==
  LET now == [q EXCEPT !.last = answer] IN
  CASE answer = "overflow" /\ LargerLater(q) -> Advance(now)
    [] answer = "history" /\ q.route.chain /\ OtherFamily(q) # {} ->
         GoTo(now, Min(OtherFamily(q)))
    [] answer = "missing" /\ q.route.chain -> Advance(now)
    [] answer = "throttled" -> Advance(Throttled(now))
    [] answer = "failed" -> Advance(now)
    [] OTHER -> Finish(now, answer)

-----------------------------------------------------------------------------
(* The loop *)

Become(r, q) == req' = [req EXCEPT ![r] = q]
Fits(q) == q.size <= BodyLimit[Door(q)] /\ q.size <= ContextLimit[Door(q)]

\* A request is routed; its result was returned before the next of its kind.
Arrive(r) ==
  /\ req[r].stage = "done"
  /\ \E route \in Routes, size \in Sizes : Become(r, NewRequest(route, size))
  /\ UNCHANGED <<cooling, inside, line>>

\* requestLimitError(): the body is over the limit of the candidate's model.
TooLarge(r) ==
  LET q == req[r] IN
  /\ q.stage = "trying"
  /\ q.size > BodyLimit[Door(q)]
  /\ Become(r, Advance([q EXCEPT !.tooLarge = TRUE]))
  /\ UNCHANGED <<cooling, inside, line>>

\* The context preflight: the prompt is over the context of the backend.
TooSmall(r) ==
  LET q == req[r] IN
  /\ q.stage = "trying"
  /\ q.size <= BodyLimit[Door(q)]
  /\ q.size > ContextLimit[Door(q)]
  /\ Become(r, Advance([q EXCEPT !.tooSmall = TRUE]))
  /\ UNCHANGED <<cooling, inside, line>>

\* The candidate is cooling down, or its provider has no capacity.
SkipThrottled(r) ==
  LET q == req[r] IN
  /\ q.stage = "trying"
  /\ Fits(q)
  /\ Door(q) \in cooling
  /\ Become(r, Advance(Throttled(q)))
  /\ UNCHANGED <<cooling, inside, line>>

\* The request may be admitted at the door it is at.
Asks(q) == q.stage = "trying" /\ Fits(q) /\ Door(q) \notin cooling

\* A request queues only when every candidate left is behind the same door.
MayQueue(q) == ~ ElsewhereLater(q)

AcquireClosed(r) ==
  LET q == req[r] IN
  /\ Asks(q)
  /\ q.gone
  /\ Become(r, Finish(q, "cancelled"))
  /\ UNCHANGED <<cooling, inside, line>>

AcquireAdmitted(r) ==
  LET q == req[r] IN
  /\ Asks(q)
  /\ ~ q.gone
  /\ Pool!WalkIn(r, Domain(q))
  /\ Become(r, [q EXCEPT !.stage = "sent"])
  /\ UNCHANGED cooling

AcquireQueued(r) ==
  LET q == req[r] IN
  /\ Asks(q)
  /\ ~ q.gone
  /\ MayQueue(q)
  /\ Len(line[Domain(q)]) < MaxQueue[Domain(q)]
  /\ Pool!Join(r, Domain(q))
  /\ Become(r, [q EXCEPT !.stage = "queued"])
  /\ UNCHANGED cooling

AcquireRejected(r) ==
  LET q == req[r] d == Domain(q) IN
  /\ Asks(q)
  /\ ~ q.gone
  /\ Cardinality(inside[d]) = Slots[d]
  /\ ~ MayQueue(q) \/ Len(line[d]) >= MaxQueue[d]
  /\ Become(r, Rejected(q))
  /\ UNCHANGED <<cooling, inside, line>>

\* The queue timer fires.
QueueTimeout(r) ==
  LET q == req[r] IN
  /\ q.stage = "queued"
  /\ Pool!GiveUp(r, Domain(q))
  /\ Become(r, Rejected(q))
  /\ UNCHANGED cooling

\* The client disconnects; a queued request leaves the line at once.
Disconnect(r) ==
  LET q == req[r] IN
  /\ q.stage # "done"
  /\ ~ q.gone
  /\ \/ /\ q.stage = "queued"
        /\ Pool!GiveUp(r, Domain(q))
        /\ Become(r, Finish([q EXCEPT !.gone = TRUE], "cancelled"))
     \/ /\ q.stage # "queued"
        /\ Become(r, [q EXCEPT !.gone = TRUE])
        /\ UNCHANGED <<inside, line>>
  /\ UNCHANGED cooling

\* mutant: a cancelled attempt keeps its slot.
SlotKeptOnCancel(r, q, answer) ==
  IF answer = "cancelled"
  THEN /\ req' = [req EXCEPT ![r] = q]
       /\ UNCHANGED <<inside, line>>
  ELSE LET d == Domain(req[r]) IN
       \/ /\ Pool!Leave(r, d)
          /\ req' = [req EXCEPT ![r] = q]
       \/ /\ Pool!HandOver(r, d)
          /\ req' = [req EXCEPT ![r] = q, ![Head(line[d])].stage = "sent"]
\* The finally block returns the slot, whatever came back; the head of the line
\* is admitted in the same step.
SlotReturned(r, q, answer) ==
  LET d == Domain(req[r]) IN
  \/ /\ Pool!Leave(r, d)
     /\ req' = [req EXCEPT ![r] = q]
  \/ /\ Pool!HandOver(r, d)
     /\ req' = [req EXCEPT ![r] = q, ![Head(line[d])].stage = "sent"]

\* The attempt ends with an answer, its own timeout among them.
Answer(r) ==
  LET q == req[r] IN
  /\ q.stage = "sent"
  /\ ~ q.gone
  /\ \E answer \in Answers :
       /\ SlotReturned(r, Answered(q, answer), answer)
       /\ cooling' = IF answer = "throttled" THEN cooling \cup {Door(q)} ELSE cooling

\* The attempt was aborted because the client is gone.
Aborted(r) ==
  LET q == req[r] IN
  /\ q.stage = "sent"
  /\ q.gone
  /\ SlotReturned(r, Finish(q, "cancelled"), "cancelled")
  /\ UNCHANGED cooling

CooldownPasses(c) ==
  /\ c \in cooling
  /\ cooling' = cooling \ {c}
  /\ UNCHANGED <<req, inside, line>>

Acquire(r) ==
  AcquireClosed(r) \/ AcquireAdmitted(r) \/ AcquireQueued(r) \/ AcquireRejected(r)
Try(r) == TooLarge(r) \/ TooSmall(r) \/ SkipThrottled(r) \/ Acquire(r)

Next ==
  \/ \E r \in Requests : \/ Arrive(r) \/ Try(r) \/ QueueTimeout(r)
                         \/ Disconnect(r) \/ Answer(r) \/ Aborted(r)
  \/ \E c \in Candidates : CooldownPasses(c)

Spec == Init /\ [][Next]_routeVars

\* The loop goes on after a wait, the queue timer fires, and an attempt ends by
\* its timeout at the latest.
Fairness ==
  \A r \in Requests :
    WF_routeVars(Try(r)) /\ WF_routeVars(QueueTimeout(r)) /\ WF_routeVars(Answer(r) \/ Aborted(r))

FairSpec == Spec /\ Fairness

-----------------------------------------------------------------------------
(* Properties *)

\* Every variable has its type.
TypeOK ==
  /\ \A r \in Requests :
       LET q == req[r] IN
       /\ q.stage \in {"trying", "queued", "sent", "done"}
       /\ q.route \in Routes /\ q.size \in Sizes
       /\ q.at \in DOMAIN q.route.doors
       /\ q.last \in Answers \cup {"none", "full"}
       /\ q.throttled \in 0 .. Len(q.route.doors)
       /\ {q.tooSmall, q.tooLarge, q.gone} \subseteq BOOLEAN
       /\ q.events \in Seq(Results)
       /\ q.result \in Results \cup {"none"}
  /\ cooling \subseteq Candidates
  /\ inside \in [Domains -> SUBSET Requests]
  /\ line \in [Domains -> Seq(Requests)]

\* Whoever holds a slot has an attempt at a candidate of that domain in flight,
\* whoever stands in a line is a request that waits for it, and the other way
\* round, through failovers, timeouts, disconnects and hand-overs.
SlotsFollowRequests ==
  \A r \in Requests, d \in Domains :
    LET here(stage) == req[r].stage = stage /\ Domain(req[r]) = d IN
    /\ r \in inside[d] <=> here("sent")
    /\ Contains(line[d], r) <=> here("queued")

\* A request whose candidates are all behind different doors emits one "response"
\* event, and that event reports what the client gets.
ResponseIsTheResult ==
  \A r \in Requests :
    IsInjective([i \in DOMAIN req[r].route.doors |-> DomainOf[req[r].route.doors[i]]]) =>
      req[r].events = IF req[r].stage = "done" THEN <<req[r].result>> ELSE <<>>

\* A request that ends with an error another door might not have given, a 503 of
\* the pool among them, has come to the last candidate of its route.
NoDoorUntried ==
  [][ \A r \in Requests :
        /\ req[r].stage # "done" /\ req'[r].stage = "done"
        /\ req'[r].result \in {"full", "failed", "throttled", "all throttled"}
        => LastDoor(req[r]) ]_routeVars

\* Every request is answered, however the others hold the doors.
RequestEnds == \A r \in Requests : req[r].stage # "done" ~> req[r].stage = "done"

=============================================================================
