--------------------------- MODULE RouteLoopProofs ---------------------------
(***************************************************************************)
(* Proofs about RouteLoop for every set of requests, every set of          *)
(* candidates and domains, and every list of routes.                       *)
(***************************************************************************)
EXTENDS RouteLoop, LineLemmas

-----------------------------------------------------------------------------
(* The local state of a request *)

RequestStates ==
  [stage : {"trying", "queued", "sent", "done"}, route : Routes, size : Sizes, at : Nat,
   last : Answers \cup {"none", "full"}, throttled : Nat, tooSmall : BOOLEAN,
   tooLarge : BOOLEAN, gone : BOOLEAN, events : Seq(Results), result : Results \cup {"none"}]

\* How far a request is.  Every candidate before the one it is at was passed over as
\* throttled, or has left a mark in the locals of the loop.
Counted(q, passed) ==
  /\ q \in RequestStates
  /\ q.at \in 1 .. Len(q.route.doors)
  /\ q.throttled <= passed
  /\ q.last = "none" /\ ~ q.tooLarge /\ ~ q.tooSmall => q.throttled = passed

Sound(q) == Counted(q, q.at - 1)

\* No two candidates of the route are behind one door.
Apart(q) == IsInjective([i \in DOMAIN q.route.doors |-> DomainOf[q.route.doors[i]]])

Reports(q) == Apart(q) => q.events = IF q.stage = "done" THEN <<q.result>> ELSE <<>>

\* The results after which another door might have given a better one.
Retryable == {"full", "failed", "throttled", "all throttled"}

\* A route has a candidate, and its candidates are known.
LEMMA RouteFacts ==
  ASSUME NEW route \in Routes
  PROVE  /\ route.doors \in Seq(Candidates)
         /\ Len(route.doors) \in Nat \ {0}
         /\ DOMAIN route.doors = 1 .. Len(route.doors)
         /\ \A i \in 1 .. Len(route.doors) :
              route.doors[i] \in Candidates /\ DomainOf[route.doors[i]] \in Domains
<1>1. route.doors \in Seq(Candidates) /\ route.doors # <<>> /\ DomainOf \in [Candidates -> Domains]
  BY RouteAssumption
<1>2. /\ Len(route.doors) \in Nat
      /\ DOMAIN route.doors = 1 .. Len(route.doors)
      /\ \A i \in 1 .. Len(route.doors) : route.doors[i] \in Candidates
  BY <1>1, LenProperties, ElementOfSeq
<1>3. Len(route.doors) # 0
  BY <1>1, EmptySeq
<1>4. QED
  BY <1>1, <1>2, <1>3

\* The door a request is at has a domain.
LEMMA DomainFacts ==
  ASSUME NEW q, Sound(q)
  PROVE  Door(q) \in Candidates /\ Domain(q) \in Domains
<1>1. q.route \in Routes /\ q.at \in 1 .. Len(q.route.doors)
  BY DEF Sound, Counted, RequestStates
<1>2. QED
  BY <1>1, RouteFacts DEF Door, Domain

\* A request that arrives is at its first candidate and has told nobody.
LEMMA NewFacts ==
  ASSUME NEW route \in Routes, NEW size \in Sizes
  PROVE  LET q == NewRequest(route, size) IN
         /\ Sound(q)
         /\ q.stage = "trying"
         /\ q.events = <<>>
         /\ q.route = route /\ q.size = size
<1>1. Len(route.doors) \in Nat \ {0}
  BY RouteFacts
<1>2. <<>> \in Seq(Results)
  BY EmptySeq
<1>3. NewRequest(route, size) \in RequestStates
  BY <1>2 DEF NewRequest, RequestStates
<1>4. QED
  BY <1>1, <1>3 DEF NewRequest, Sound, Counted

\* What a request returns ends it, and it reports once more than before.
LEMMA ReturnFacts ==
  ASSUME NEW q \in RequestStates, NEW result \in Results \cup {"none"}
  PROVE  LET done == Return(q, result) IN
         /\ Sound(done)
         /\ done.stage = "done" /\ done.result = result
         /\ done.events = q.events /\ done.route = q.route
<1>1. q.route \in Routes /\ q.size \in Sizes /\ q.events \in Seq(Results)
  BY DEF RequestStates
<1>2. Len(q.route.doors) \in Nat \ {0}
  BY <1>1, RouteFacts
<1>3. NewRequest(q.route, q.size) \in RequestStates
  BY <1>1, NewFacts DEF Sound, Counted
<1>4. Return(q, result) \in RequestStates
  BY <1>1, <1>3 DEF Return, RequestStates
<1>5. QED
  BY <1>1, <1>2, <1>4 DEF Return, NewRequest, Sound, Counted

LEMMA EmitFacts ==
  ASSUME NEW q \in RequestStates, NEW event \in Results
  PROVE  /\ Emit(q, event) \in RequestStates
         /\ Emit(q, event).route = q.route
         /\ Emit(q, event).stage = q.stage
         /\ Emit(q, event).at = q.at
         /\ Emit(q, event).last = q.last
         /\ Emit(q, event).throttled = q.throttled
         /\ Emit(q, event).tooLarge = q.tooLarge
         /\ Emit(q, event).tooSmall = q.tooSmall
         /\ q.events = <<>> => Emit(q, event).events = <<event>>
<1>1. q.events \in Seq(Results)
  BY DEF RequestStates
<1>2. Append(q.events, event) \in Seq(Results)
  BY <1>1, AppendProperties
<1>3. q.events = <<>> => Append(q.events, event) = <<event>>
  OBVIOUS
<1>4. QED
  BY <1>2, <1>3 DEF Emit, RequestStates

\* A request that ends in the loop tells its result, and nothing else before it when
\* its candidates are apart.
LEMMA FinishFacts ==
  ASSUME NEW q \in RequestStates, Apart(q) => q.events = <<>>, NEW result \in Results
  PROVE  LET done == Finish(q, result) IN
         /\ Sound(done) /\ Reports(done)
         /\ done.stage = "done" /\ done.result = result
<1>1. /\ Emit(q, result) \in RequestStates
      /\ Emit(q, result).route = q.route
      /\ q.events = <<>> => Emit(q, result).events = <<result>>
  BY EmitFacts
<1>2. /\ Sound(Finish(q, result))
      /\ Finish(q, result).stage = "done" /\ Finish(q, result).result = result
      /\ Finish(q, result).events = Emit(q, result).events
      /\ Finish(q, result).route = q.route
  BY <1>1, ReturnFacts DEF Finish
<1>3. QED
  BY <1>1, <1>2 DEF Reports, Apart

\* After its last candidate a request has something to return: were every one of them
\* passed over without a mark, all of them would have been throttled.
LEMMA ConcludeFacts ==
  ASSUME NEW q, Counted(q, q.at), q.at = Len(q.route.doors), Apart(q) => q.events = <<>>
  PROVE  Sound(Conclude(q)) /\ Reports(Conclude(q)) /\ Conclude(q).stage = "done"
<1>1. q \in RequestStates /\ q.throttled \in Nat /\ q.last \in Answers \cup {"none", "full"}
      /\ q.at \in Nat
  BY DEF Counted, RequestStates
<1>2. {"all throttled", "too large", "never fits", "failed", "full"} \cup Answers \subseteq Results
  BY DEF Results, Answers
<1>3. CASE q.throttled = Len(q.route.doors)
  BY <1>1, <1>2, <1>3, FinishFacts DEF Conclude
<1>4. CASE q.throttled # Len(q.route.doors) /\ q.last = "none" /\ q.tooLarge
  BY <1>1, <1>2, <1>4, FinishFacts DEF Conclude
<1>5. CASE q.throttled # Len(q.route.doors) /\ q.last = "none" /\ ~ q.tooLarge /\ q.tooSmall
  BY <1>1, <1>2, <1>5, FinishFacts DEF Conclude
<1>6. CASE q.throttled # Len(q.route.doors) /\ q.last # "none"
  <2>1. q.last \in Results
    BY <1>1, <1>2, <1>6
  <2>2. Conclude(q) = Finish(q, q.last)
    BY <1>6 DEF Conclude, Finish
  <2>3. QED
    BY <1>1, <2>1, <2>2, FinishFacts
<1>7. q.last # "none" \/ q.tooLarge \/ q.tooSmall \/ q.throttled = Len(q.route.doors)
  BY DEF Counted
<1>8. QED
  BY <1>3, <1>4, <1>5, <1>6, <1>7

\* continue: the request is at a later candidate, or has ended behind the last.
LEMMA GoToFacts ==
  ASSUME NEW q, Counted(q, q.at), Apart(q) => q.events = <<>>,
         NEW j \in Nat, j > q.at, j = q.at + 1 \/ (q.last # "none" /\ j <= Len(q.route.doors))
  PROVE  LET next == GoTo(q, j) IN
         /\ Sound(next) /\ Reports(next)
         /\ next.stage \in {"trying", "done"}
         /\ next.stage = "done" => q.at = Len(q.route.doors)
<1>1. /\ q \in RequestStates /\ q.route \in Routes /\ q.at \in 1 .. Len(q.route.doors)
      /\ q.throttled \in Nat
  BY DEF Counted, RequestStates
<1>2. Len(q.route.doors) \in Nat
  BY <1>1, RouteFacts
<1>3. CASE j > Len(q.route.doors)
  <2>1. q.at = Len(q.route.doors)
    BY <1>1, <1>2, <1>3
  <2>2. QED
    BY <1>3, <2>1, ConcludeFacts DEF GoTo
<1>4. CASE ~ (j > Len(q.route.doors))
  <2>1. GoTo(q, j) = [q EXCEPT !.stage = "trying", !.at = j]
    BY <1>4 DEF GoTo
  <2>2. GoTo(q, j) \in RequestStates
    BY <1>1, <2>1 DEF RequestStates
  <2>3. Sound(GoTo(q, j))
    BY <1>1, <1>2, <1>4, <2>1, <2>2 DEF Sound, Counted, RequestStates
  <2>4. QED
    BY <1>1, <2>1, <2>3 DEF Reports, Apart, RequestStates
<1>5. QED
  BY <1>3, <1>4

\* A later candidate of another door is there unless the request is at its last one,
\* when the candidates are apart.
LEMMA ElsewhereFacts ==
  ASSUME NEW q, Sound(q)
  PROVE  /\ LastDoor(q) => ~ ElsewhereLater(q)
         /\ Apart(q) /\ ~ LastDoor(q) => ElsewhereLater(q)
<1> DEFINE n == Len(q.route.doors)
<1>1. q.route \in Routes /\ q.at \in 1 .. n
  BY DEF Sound, Counted, RequestStates
<1>2. n \in Nat \ {0} /\ DOMAIN q.route.doors = 1 .. n
  BY <1>1, RouteFacts
<1>3. LastDoor(q) => LaterDoors(q) = {}
  BY <1>1, <1>2 DEF LastDoor, LaterDoors
<1>4. ASSUME Apart(q), ~ LastDoor(q)
      PROVE  ElsewhereLater(q)
  <2>1. q.at + 1 \in q.at + 1 .. n /\ q.at + 1 \in 1 .. n /\ q.at + 1 # q.at
    BY <1>1, <1>2, <1>4 DEF LastDoor
  <2>2. q.route.doors[q.at + 1] \in LaterDoors(q)
    BY <2>1 DEF LaterDoors
  <2>3. DomainOf[q.route.doors[q.at + 1]] # DomainOf[q.route.doors[q.at]]
    BY <1>1, <1>2, <1>4, <2>1 DEF Apart, IsInjective
  <2>4. QED
    BY <2>2, <2>3 DEF ElsewhereLater, Domain, Door
<1>5. QED
  BY <1>3, <1>4 DEF ElsewhereLater

\* A request that marks the candidate it is at has accounted for it.
LEMMA MarkFacts ==
  ASSUME NEW q, Sound(q), Reports(q), q.stage # "done",
         NEW last \in Answers \cup {"full"}
  PROVE  /\ q.events \in Seq(Results)
         /\ Apart(q) => q.events = <<>>
         /\ Counted([q EXCEPT !.last = last], q.at)
         /\ Counted(Throttled(q), q.at)
         /\ Counted(Throttled([q EXCEPT !.last = last]), q.at)
         /\ Counted([q EXCEPT !.tooLarge = TRUE], q.at)
         /\ Counted([q EXCEPT !.tooSmall = TRUE], q.at)
<1>1. /\ q \in RequestStates /\ q.at \in Nat \ {0} /\ q.throttled \in Nat
      /\ q.at \in 1 .. Len(q.route.doors) /\ q.throttled <= q.at - 1
      /\ q.last = "none" /\ ~ q.tooLarge /\ ~ q.tooSmall => q.throttled = q.at - 1
  BY DEF Sound, Counted, RequestStates
<1>2. last # "none"
  BY DEF Answers
<1>3. Apart(q) => q.events = <<>>
  BY DEF Reports
<1>4. /\ [q EXCEPT !.last = last] \in RequestStates
      /\ Counted([q EXCEPT !.last = last], q.at)
  <2>1. [q EXCEPT !.last = last] \in RequestStates
    BY <1>1 DEF RequestStates
  <2>2. QED
    BY <1>1, <1>2, <2>1 DEF Counted, RequestStates
<1>5. Counted(Throttled(q), q.at)
  <2>1. Throttled(q) \in RequestStates
    BY <1>1 DEF Throttled, RequestStates
  <2>2. QED
    BY <1>1, <2>1 DEF Counted, Throttled, RequestStates
<1>6. Counted(Throttled([q EXCEPT !.last = last]), q.at)
  <2> DEFINE now == [q EXCEPT !.last = last]
  <2>1. /\ now \in RequestStates /\ now.throttled = q.throttled /\ now.last = last
        /\ now.at = q.at /\ now.route = q.route
    BY <1>1, <1>4 DEF RequestStates
  <2> HIDE DEF now
  <2>2. Throttled(now) \in RequestStates
    <3>1. now.throttled + 1 \in Nat
      BY <2>1 DEF RequestStates
    <3>2. QED
      BY <2>1, <3>1 DEF Throttled, RequestStates
  <2>3. Counted(Throttled(now), q.at)
    BY <1>1, <1>2, <2>1, <2>2 DEF Counted, Throttled, RequestStates
  <2>4. QED
    BY <2>3 DEF now
<1>7. Counted([q EXCEPT !.tooLarge = TRUE], q.at)
  <2>1. [q EXCEPT !.tooLarge = TRUE] \in RequestStates
    BY <1>1 DEF RequestStates
  <2>2. QED
    BY <1>1, <2>1 DEF Counted, RequestStates
<1>8. Counted([q EXCEPT !.tooSmall = TRUE], q.at)
  <2>1. [q EXCEPT !.tooSmall = TRUE] \in RequestStates
    BY <1>1 DEF RequestStates
  <2>2. QED
    BY <1>1, <2>1 DEF Counted, RequestStates
<1>9. QED
  BY <1>1, <1>3, <1>4, <1>5, <1>6, <1>7, <1>8 DEF RequestStates

\* What the pool's rejection leaves of a request.
LEMMA RejectedFacts ==
  ASSUME NEW q, Sound(q), Reports(q), q.stage # "done"
  PROVE  LET next == Rejected(q) IN
         /\ Sound(next) /\ Reports(next)
         /\ next.stage \in {"trying", "done"}
         /\ next.stage = "done" => LastDoor(q)
<1> DEFINE told == IF ElsewhereLater(q) THEN q ELSE Emit(q, "full")
           marked == [told EXCEPT !.last = "full"]
<1>1. q \in RequestStates /\ q.at \in Nat /\ Sound(q) /\ "full" \in Results
  BY DEF Sound, Counted, RequestStates, Results
<1>2. /\ told \in RequestStates
      /\ told.route = q.route /\ told.stage = q.stage /\ told.at = q.at
      /\ told.last = q.last /\ told.throttled = q.throttled
      /\ told.tooLarge = q.tooLarge /\ told.tooSmall = q.tooSmall
  BY <1>1, EmitFacts
<1>3. Apart(q) /\ q.stage # "done" => q.events = <<>>
  BY DEF Reports
<1>4. CASE LastDoor(q)
  <2>1. told = Emit(q, "full")
    BY <1>4, ElsewhereFacts
  <2>2. Rejected(q) = Finish(q, "full")
    BY <1>4, <2>1 DEF Rejected, Finish
  <2>3. QED
    BY <1>1, <1>3, <1>4, <2>2, FinishFacts
<1>5. CASE ~ LastDoor(q)
  <2>1. Apart(q) => told = q
    BY <1>5, ElsewhereFacts
  <2>2. Rejected(q) = GoTo(marked, marked.at + 1)
    BY <1>5 DEF Rejected, Advance
  <2>3. /\ marked \in RequestStates /\ marked.route = q.route /\ marked.at = q.at
        /\ marked.events = told.events /\ marked.throttled = q.throttled /\ marked.last = "full"
    BY <1>2 DEF RequestStates, Answers
  <2>4. Counted(marked, marked.at)
    BY <1>1, <2>3 DEF Sound, Counted, RequestStates
  <2>5. Apart(marked) => marked.events = <<>>
    BY <1>3, <2>1, <2>3 DEF Apart
  <2>6. marked.at + 1 \in Nat /\ marked.at + 1 > marked.at
    BY <1>1, <2>3
  <2> HIDE DEF marked
  <2>7. /\ Sound(Rejected(q)) /\ Reports(Rejected(q))
        /\ Rejected(q).stage \in {"trying", "done"}
        /\ Rejected(q).stage = "done" => marked.at = Len(marked.route.doors)
    BY <2>2, <2>4, <2>5, <2>6, GoToFacts
  <2>8. QED
    BY <2>3, <2>7 DEF LastDoor
<1>6. QED
  BY <1>4, <1>5

\* The first candidate of another family is a later one.
LEMMA OtherFamilyFacts ==
  ASSUME NEW q, Sound(q), OtherFamily(q) # {}
  PROVE  /\ Min(OtherFamily(q)) \in Nat
         /\ Min(OtherFamily(q)) > q.at
         /\ Min(OtherFamily(q)) <= Len(q.route.doors)
<1> DEFINE P == OtherFamily(q)
<1>1. q.route \in Routes /\ q.at \in Nat
  BY DEF Sound, Counted, RequestStates
<1>2. Len(q.route.doors) \in Nat
  BY <1>1, RouteFacts
<1>3. P \in SUBSET (1 .. Len(q.route.doors)) /\ P \subseteq q.at + 1 .. Len(q.route.doors)
  BY <1>1, <1>2 DEF OtherFamily
<1>4. Min(P) \in P
  BY <1>2, <1>3, LeastPosition
<1>5. QED
  BY <1>1, <1>2, <1>3, <1>4

\* What an answer leaves of a request.
LEMMA AnsweredFacts ==
  ASSUME NEW q, Sound(q), Reports(q), q.stage # "done", NEW answer \in Answers
  PROVE  LET next == Answered(q, answer) IN
         /\ Sound(next) /\ Reports(next)
         /\ next.stage \in {"trying", "done"}
         /\ next.stage = "done" /\ next.result \in Retryable => LastDoor(q)
<1> DEFINE now == [q EXCEPT !.last = answer]
           slow == Throttled(now)
<1>1. q \in RequestStates /\ q.at \in Nat
  BY DEF Sound, Counted, RequestStates
<1>2. /\ now \in RequestStates /\ now.route = q.route /\ now.at = q.at
      /\ now.events = q.events /\ now.last = answer /\ now.last # "none"
      /\ slow.route = q.route /\ slow.at = q.at /\ slow.events = q.events
  BY <1>1 DEF RequestStates, Answers, Throttled
<1>3. Counted(now, now.at) /\ Counted(slow, slow.at) /\ (Apart(q) => q.events = <<>>)
  BY <1>2, MarkFacts
<1>4. (Apart(now) => now.events = <<>>) /\ (Apart(slow) => slow.events = <<>>)
  BY <1>2, <1>3 DEF Apart
<1>5. /\ OtherFamily(now) = OtherFamily(q)
      /\ q.at + 1 \in Nat /\ q.at + 1 > q.at
  BY <1>1, <1>2 DEF OtherFamily, Door
<1> HIDE DEF now, slow
<1>6. /\ Sound(Advance(now)) /\ Reports(Advance(now))
      /\ Advance(now).stage \in {"trying", "done"}
      /\ Advance(now).stage = "done" => LastDoor(q)
  BY <1>2, <1>3, <1>4, <1>5, GoToFacts DEF Advance, LastDoor
<1>7. /\ Sound(Advance(slow)) /\ Reports(Advance(slow))
      /\ Advance(slow).stage \in {"trying", "done"}
      /\ Advance(slow).stage = "done" => LastDoor(q)
  BY <1>2, <1>3, <1>4, <1>5, GoToFacts DEF Advance, LastDoor
<1>8. ASSUME OtherFamily(q) # {}
      PROVE  LET next == GoTo(now, Min(OtherFamily(q))) IN
             /\ Sound(next) /\ Reports(next)
             /\ next.stage \in {"trying", "done"}
             /\ next.stage = "done" => LastDoor(q)
  BY <1>2, <1>3, <1>4, <1>8, OtherFamilyFacts, GoToFacts DEF LastDoor
<1>9. answer \in Results
  BY DEF Results
<1>10. /\ Sound(Finish(now, answer)) /\ Reports(Finish(now, answer))
       /\ Finish(now, answer).stage = "done" /\ Finish(now, answer).result = answer
  BY <1>2, <1>4, <1>9, FinishFacts
<1>11. \/ Answered(q, answer) = Advance(now)
       \/ Answered(q, answer) = Advance(slow)
       \/ OtherFamily(q) # {} /\ Answered(q, answer) = GoTo(now, Min(OtherFamily(q)))
       \/ answer \notin Retryable /\ Answered(q, answer) = Finish(now, answer)
  <2>1. CASE answer = "overflow"
    BY <2>1 DEF Answered, now, slow, Retryable
  <2>2. CASE answer = "history"
    <3>1. OtherFamily([q EXCEPT !.last = answer]) = OtherFamily(q)
      BY <1>5 DEF now
    <3>2. QED
      BY <2>2, <3>1 DEF Answered, now, slow, Retryable
  <2>3. CASE answer \in {"missing", "throttled", "failed", "ok"}
    BY <2>3 DEF Answered, now, slow, Retryable
  <2>4. QED
    BY <2>1, <2>2, <2>3 DEF Answers
<1>12. QED
  BY <1>6, <1>7, <1>8, <1>10, <1>11

-----------------------------------------------------------------------------
(* The loop *)

LoopInv ==
  /\ req \in [Requests -> RequestStates]
  /\ \A r \in Requests : Sound(req[r]) /\ Reports(req[r])
  /\ cooling \subseteq Candidates
  /\ inside \in [Domains -> SUBSET Requests]
  /\ line \in [Domains -> Seq(Requests)]
  /\ \A d \in Domains : OnceEach(line[d])
  /\ SlotsFollowRequests

\* SlotsFollowRequests, without its abbreviation.
Follows(q, r, d) ==
  /\ r \in inside[d] <=> q.stage = "sent" /\ Domain(q) = d
  /\ Contains(line[d], r) <=> q.stage = "queued" /\ Domain(q) = d

LEMMA FollowsFacts ==
  SlotsFollowRequests <=> \A r \in Requests, d \in Domains : Follows(req[r], r, d)
BY DEF SlotsFollowRequests, Follows

\* A step of one request by which it neither enters nor leaves a room or a line.
LEMMA LocalStep ==
  ASSUME LoopInv, NEW r \in Requests, NEW q, Sound(q), Reports(q), req' = [req EXCEPT ![r] = q],
         \/ req[r].stage \in {"trying", "done"} /\ q.stage \in {"trying", "done"}
         \/ req[r].stage = q.stage /\ Domain(req[r]) = Domain(q),
         cooling' \subseteq Candidates, UNCHANGED <<inside, line>>
  PROVE  LoopInv'
<1>1. q \in RequestStates
  BY DEF Sound, Counted
<1>2. \A s \in Requests : req'[s] = IF s = r THEN q ELSE req[s]
  BY DEF LoopInv
<1>3. req' \in [Requests -> RequestStates]
  BY <1>1 DEF LoopInv
<1>4. \A s \in Requests : Sound(req'[s]) /\ Reports(req'[s])
  BY <1>2 DEF LoopInv
<1>5. ASSUME NEW s \in Requests, NEW d \in Domains
      PROVE  Follows(req[s], s, d)'
  <2>1. Follows(req[s], s, d)
    BY FollowsFacts DEF LoopInv
  <2>2. CASE s = r
    <3>1. /\ q.stage = "sent" /\ Domain(q) = d <=> req[r].stage = "sent" /\ Domain(req[r]) = d
          /\ q.stage = "queued" /\ Domain(q) = d <=> req[r].stage = "queued" /\ Domain(req[r]) = d
      OBVIOUS
    <3>2. QED
      BY <1>2, <2>1, <2>2, <3>1 DEF Follows
  <2>3. CASE s # r
    BY <1>2, <2>1, <2>3 DEF Follows
  <2>4. QED
    BY <2>2, <2>3
<1>6. SlotsFollowRequests'
  BY <1>5 DEF SlotsFollowRequests, Follows
<1>7. QED
  BY <1>3, <1>4, <1>6 DEF LoopInv

\* A request that waits, is sent, or is left by its client stays where it is.
LEMMA StageFacts ==
  ASSUME NEW q, Sound(q), Reports(q), q.stage # "done", NEW stage \in {"trying", "queued", "sent"}
  PROVE  /\ LET next == [q EXCEPT !.stage = stage] IN
            Sound(next) /\ Reports(next) /\ next.stage = stage /\ Domain(next) = Domain(q)
         /\ LET next == [q EXCEPT !.gone = TRUE] IN
            /\ Sound(next) /\ Reports(next) /\ next.stage = q.stage /\ Domain(next) = Domain(q)
            /\ next.events = q.events
<1>1. q \in RequestStates /\ q.stage # "done" /\ stage # "done"
  BY DEF Sound, Counted
<1>2. [q EXCEPT !.stage = stage] \in RequestStates
  BY <1>1 DEF RequestStates
<1>3. [q EXCEPT !.gone = TRUE] \in RequestStates
  BY <1>1 DEF RequestStates
<1>4. Sound([q EXCEPT !.stage = stage]) /\ Sound([q EXCEPT !.gone = TRUE])
  BY <1>1, <1>2, <1>3 DEF Sound, Counted, RequestStates
<1>5. Reports([q EXCEPT !.stage = stage]) /\ Reports([q EXCEPT !.gone = TRUE])
  BY <1>1 DEF Reports, Apart, RequestStates
<1>6. QED
  BY <1>1, <1>4, <1>5 DEF Domain, Door, RequestStates

\* A request that arrives.
LEMMA ArriveStep == ASSUME LoopInv, NEW r \in Requests, Arrive(r) PROVE LoopInv'
<1>1. PICK route \in Routes, size \in Sizes : req' = [req EXCEPT ![r] = NewRequest(route, size)]
  BY DEF Arrive, Become
<1>2. /\ Sound(NewRequest(route, size)) /\ NewRequest(route, size).stage = "trying"
      /\ NewRequest(route, size).events = <<>>
  BY NewFacts
<1>3. Reports(NewRequest(route, size))
  BY <1>2 DEF Reports
<1>4. req[r].stage = "done" /\ cooling' \subseteq Candidates /\ UNCHANGED <<inside, line>>
  BY DEF Arrive, LoopInv
<1>5. QED
  BY <1>1, <1>2, <1>3, <1>4, LocalStep

\* What a request becomes that passes over the candidate it is at.
LEMMA PassFacts ==
  ASSUME NEW q, Sound(q), Reports(q), q.stage # "done",
         NEW next, \/ next = Advance([q EXCEPT !.tooLarge = TRUE])
                   \/ next = Advance([q EXCEPT !.tooSmall = TRUE])
                   \/ next = Advance(Throttled(q))
  PROVE  /\ Sound(next) /\ Reports(next)
         /\ next.stage \in {"trying", "done"}
         /\ next.stage = "done" => LastDoor(q)
<1>1. q \in RequestStates /\ q.at \in Nat
  BY DEF Sound, Counted, RequestStates
<1>2. PICK now : /\ now \in {[q EXCEPT !.tooLarge = TRUE], [q EXCEPT !.tooSmall = TRUE], Throttled(q)}
                 /\ next = Advance(now)
  OBVIOUS
<1>3. now.route = q.route /\ now.at = q.at /\ now.events = q.events
  BY <1>1, <1>2 DEF RequestStates, Throttled
<1>4. Counted(now, now.at) /\ (Apart(q) => q.events = <<>>)
  BY <1>2, <1>3, MarkFacts
<1>5. Apart(now) => now.events = <<>>
  BY <1>3, <1>4 DEF Apart
<1>6. now.at + 1 \in Nat /\ now.at + 1 > now.at
  BY <1>1, <1>3
<1>7. QED
  BY <1>2, <1>3, <1>4, <1>5, <1>6, GoToFacts DEF Advance, LastDoor

LEMMA PassStep ==
  ASSUME LoopInv, NEW r \in Requests, TooLarge(r) \/ TooSmall(r) \/ SkipThrottled(r)
  PROVE  LoopInv'
<1>1. /\ req[r].stage = "trying" /\ Sound(req[r]) /\ Reports(req[r])
      /\ cooling' \subseteq Candidates /\ UNCHANGED <<inside, line>>
  BY DEF TooLarge, TooSmall, SkipThrottled, LoopInv
<1>2. PICK next : /\ req' = [req EXCEPT ![r] = next]
                  /\ \/ next = Advance([req[r] EXCEPT !.tooLarge = TRUE])
                     \/ next = Advance([req[r] EXCEPT !.tooSmall = TRUE])
                     \/ next = Advance(Throttled(req[r]))
  BY DEF TooLarge, TooSmall, SkipThrottled, Become
<1>3. Sound(next) /\ Reports(next) /\ next.stage \in {"trying", "done"}
  BY <1>1, <1>2, PassFacts
<1>4. QED
  BY <1>1, <1>2, <1>3, LocalStep

\* A request ends because its client is gone.
LEMMA CancelFacts ==
  ASSUME NEW q, Sound(q), Reports(q), q.stage # "done"
  PROVE  LET next == Finish(q, "cancelled") IN
         /\ Sound(next) /\ Reports(next)
         /\ next.stage = "done" /\ next.result = "cancelled"
<1>1. q \in RequestStates /\ "cancelled" \in Results /\ (Apart(q) => q.events = <<>>)
  BY DEF Sound, Counted, Results, Reports
<1>2. QED
  BY <1>1, FinishFacts

\* The pool turns the request away before it has entered.
LEMMA TurnedAwayStep ==
  ASSUME LoopInv, NEW r \in Requests, AcquireClosed(r) \/ AcquireRejected(r)
  PROVE  LoopInv'
<1>1. /\ req[r].stage = "trying" /\ Sound(req[r]) /\ Reports(req[r])
      /\ cooling' \subseteq Candidates /\ UNCHANGED <<inside, line>>
  BY DEF AcquireClosed, AcquireRejected, Asks, LoopInv
<1>2. CASE AcquireClosed(r)
  <2>1. req' = [req EXCEPT ![r] = Finish(req[r], "cancelled")]
    BY <1>2 DEF AcquireClosed, Become
  <2>2. QED
    BY <1>1, <2>1, CancelFacts, LocalStep
<1>3. CASE AcquireRejected(r)
  <2>1. req' = [req EXCEPT ![r] = Rejected(req[r])]
    BY <1>3 DEF AcquireRejected, Become
  <2>2. QED
    BY <1>1, <2>1, RejectedFacts, LocalStep
<1>4. QED
  BY <1>2, <1>3

\* A request walks into the room of its door.
LEMMA AdmittedStep ==
  ASSUME LoopInv, NEW r \in Requests, AcquireAdmitted(r)
  PROVE  LoopInv'
<1> DEFINE q == req[r]
           d == Domain(q)
           next == [q EXCEPT !.stage = "sent"]
<1>1. Sound(q) /\ Reports(q) /\ q.stage = "trying"
  BY DEF AcquireAdmitted, Asks, LoopInv
<1>2. d \in Domains
  BY <1>1, DomainFacts
<1>3. /\ inside' = [inside EXCEPT ![d] = @ \cup {r}] /\ line' = line /\ cooling' = cooling
      /\ req' = [req EXCEPT ![r] = next]
  BY DEF AcquireAdmitted, Pool!WalkIn, Become
<1>4. Sound(next) /\ Reports(next) /\ next.stage = "sent" /\ Domain(next) = d
  BY <1>1, StageFacts
<1> HIDE DEF next
<1>5. \A s \in Requests : req'[s] = IF s = r THEN next ELSE req[s]
  BY <1>3 DEF LoopInv
<1>6. req' \in [Requests -> RequestStates]
  BY <1>3, <1>4 DEF LoopInv, Sound, Counted
<1>7. inside' \in [Domains -> SUBSET Requests]
  BY <1>2, <1>3 DEF LoopInv
<1>8. ASSUME NEW s \in Requests, NEW e \in Domains
      PROVE  Follows(req[s], s, e)'
  <2>1. Follows(req[s], s, e)
    BY FollowsFacts DEF LoopInv
  <2>2. inside'[e] = IF e = d THEN inside[e] \cup {r} ELSE inside[e]
    BY <1>2, <1>3 DEF LoopInv
  <2>3. CASE s = r
    BY <1>1, <1>3, <1>4, <1>5, <2>1, <2>2, <2>3 DEF Follows
  <2>4. CASE s # r
    BY <1>3, <1>5, <2>1, <2>2, <2>4 DEF Follows
  <2>5. QED
    BY <2>3, <2>4
<1>9. SlotsFollowRequests'
  BY <1>8 DEF SlotsFollowRequests, Follows
<1>10. QED
  BY <1>3, <1>4, <1>5, <1>6, <1>7, <1>9 DEF LoopInv

\* A request joins the line of its door.
LEMMA QueuedStep ==
  ASSUME LoopInv, NEW r \in Requests, AcquireQueued(r)
  PROVE  LoopInv'
<1> DEFINE q == req[r]
           d == Domain(q)
           next == [q EXCEPT !.stage = "queued"]
<1>1. Sound(q) /\ Reports(q) /\ q.stage = "trying"
  BY DEF AcquireQueued, Asks, LoopInv
<1>2. d \in Domains
  BY <1>1, DomainFacts
<1>3. /\ line' = [line EXCEPT ![d] = Append(@, r)] /\ inside' = inside /\ cooling' = cooling
      /\ req' = [req EXCEPT ![r] = next]
  BY DEF AcquireQueued, Pool!Join, Become
<1>4. Sound(next) /\ Reports(next) /\ next.stage = "queued" /\ Domain(next) = d
  BY <1>1, StageFacts
<1> HIDE DEF next
<1>5. \A s \in Requests : req'[s] = IF s = r THEN next ELSE req[s]
  BY <1>3 DEF LoopInv
<1>6. req' \in [Requests -> RequestStates]
  BY <1>3, <1>4 DEF LoopInv, Sound, Counted
<1>7. ~ Contains(line[d], r)
  BY <1>1, <1>2, FollowsFacts DEF LoopInv, Follows
<1>8. line[d] \in Seq(Requests) /\ OnceEach(line[d])
  BY <1>2 DEF LoopInv
<1>9. /\ Append(line[d], r) \in Seq(Requests)
      /\ OnceEach(Append(line[d], r))
      /\ \A h : Contains(Append(line[d], r), h) <=> Contains(line[d], h) \/ h = r
  BY <1>7, <1>8, JoinedFacts
<1>10. \A e \in Domains : line'[e] = IF e = d THEN Append(line[d], r) ELSE line[e]
  BY <1>2, <1>3 DEF LoopInv
<1>11. line' \in [Domains -> Seq(Requests)]
  BY <1>2, <1>3, <1>9 DEF LoopInv
<1>12. \A e \in Domains : OnceEach(line'[e])
  BY <1>9, <1>10 DEF LoopInv
<1>13. ASSUME NEW s \in Requests, NEW e \in Domains
       PROVE  Follows(req[s], s, e)'
  <2>1. Follows(req[s], s, e)
    BY FollowsFacts DEF LoopInv
  <2>2. Contains(line'[e], s) <=> Contains(line[e], s) \/ (e = d /\ s = r)
    BY <1>9, <1>10
  <2>3. CASE s = r
    BY <1>1, <1>3, <1>4, <1>5, <2>1, <2>2, <2>3 DEF Follows
  <2>4. CASE s # r
    BY <1>3, <1>5, <2>1, <2>2, <2>4 DEF Follows
  <2>5. QED
    BY <2>3, <2>4
<1>14. SlotsFollowRequests'
  BY <1>13 DEF SlotsFollowRequests, Follows
<1>15. QED
  BY <1>3, <1>4, <1>5, <1>6, <1>11, <1>12, <1>14 DEF LoopInv

\* A request leaves the line it stands in, for its next candidate or for good.
LEMMA LeavesTheLine ==
  ASSUME LoopInv, NEW r \in Requests, req[r].stage = "queued",
         NEW next, Sound(next), Reports(next), next.stage \in {"trying", "done"},
         Pool!GiveUp(r, Domain(req[r])), req' = [req EXCEPT ![r] = next], cooling' = cooling
  PROVE  LoopInv'
<1> DEFINE q == req[r]
           d == Domain(q)
<1>1. Sound(q) /\ Reports(q)
  BY DEF LoopInv
<1>2. d \in Domains
  BY <1>1, DomainFacts
<1>3. line[d] \in Seq(Requests) /\ OnceEach(line[d]) /\ DOMAIN line[d] = 1 .. Len(line[d])
  BY <1>2, LenProperties DEF LoopInv
<1>4. inside' = inside
  BY DEF Pool!GiveUp
<1>5. PICK i \in 1 .. Len(line[d]) : /\ line[d][i] = r
                                     /\ line' = [line EXCEPT ![d] = RemoveAt(@, i)]
  BY <1>3 DEF Pool!GiveUp, Pool!RemoveAt, RemoveAt
<1>6. /\ RemoveAt(line[d], i) \in Seq(Requests)
      /\ OnceEach(RemoveAt(line[d], i))
      /\ \A h : Contains(RemoveAt(line[d], i), h) <=> Contains(line[d], h) /\ h # r
  BY <1>3, <1>5, LeftFacts
<1>7. \A s \in Requests : req'[s] = IF s = r THEN next ELSE req[s]
  BY DEF LoopInv
<1>8. req' \in [Requests -> RequestStates]
  BY DEF LoopInv, Sound, Counted
<1>9. \A e \in Domains : line'[e] = IF e = d THEN RemoveAt(line[d], i) ELSE line[e]
  BY <1>2, <1>5 DEF LoopInv
<1>10. line' \in [Domains -> Seq(Requests)]
  BY <1>2, <1>5, <1>6 DEF LoopInv
<1>11. \A e \in Domains : OnceEach(line'[e])
  BY <1>6, <1>9 DEF LoopInv
<1>12. ASSUME NEW s \in Requests, NEW e \in Domains
       PROVE  Follows(req[s], s, e)'
  <2>1. Follows(req[s], s, e)
    BY FollowsFacts DEF LoopInv
  <2>2. Contains(line'[e], s) <=> Contains(line[e], s) /\ ~ (e = d /\ s = r)
    BY <1>6, <1>9
  <2>3. CASE s = r
    BY <1>4, <1>7, <2>1, <2>2, <2>3 DEF Follows
  <2>4. CASE s # r
    BY <1>4, <1>7, <2>1, <2>2, <2>4 DEF Follows
  <2>5. QED
    BY <2>3, <2>4
<1>13. SlotsFollowRequests'
  BY <1>12 DEF SlotsFollowRequests, Follows
<1>14. QED
  BY <1>4, <1>7, <1>8, <1>10, <1>11, <1>13 DEF LoopInv

\* The queue timer, and the client that disconnects.
LEMMA TimeoutStep == ASSUME LoopInv, NEW r \in Requests, QueueTimeout(r) PROVE LoopInv'
<1>1. /\ req[r].stage = "queued" /\ Sound(req[r]) /\ Reports(req[r])
      /\ Pool!GiveUp(r, Domain(req[r])) /\ req' = [req EXCEPT ![r] = Rejected(req[r])]
      /\ cooling' = cooling
  BY DEF QueueTimeout, Become, LoopInv
<1>2. /\ Sound(Rejected(req[r])) /\ Reports(Rejected(req[r]))
      /\ Rejected(req[r]).stage \in {"trying", "done"}
  BY <1>1, RejectedFacts
<1>3. QED
  BY <1>1, <1>2, LeavesTheLine

LEMMA DisconnectStep == ASSUME LoopInv, NEW r \in Requests, Disconnect(r) PROVE LoopInv'
<1> DEFINE q == req[r]
           left == [q EXCEPT !.gone = TRUE]
<1>1. /\ q.stage # "done" /\ Sound(q) /\ Reports(q)
      /\ cooling' = cooling /\ cooling' \subseteq Candidates
  BY DEF Disconnect, LoopInv
<1>2. /\ Sound(left) /\ Reports(left) /\ left.stage = q.stage /\ Domain(left) = Domain(q)
  BY <1>1, StageFacts
<1>3. CASE q.stage = "queued" /\ Pool!GiveUp(r, Domain(q)) /\ Become(r, Finish(left, "cancelled"))
  <2>1. /\ Sound(Finish(left, "cancelled")) /\ Reports(Finish(left, "cancelled"))
        /\ Finish(left, "cancelled").stage = "done"
    BY <1>1, <1>2, CancelFacts
  <2>2. req' = [req EXCEPT ![r] = Finish(left, "cancelled")]
    BY <1>3 DEF Become
  <2> HIDE DEF left
  <2>3. QED
    BY <1>1, <1>3, <2>1, <2>2, LeavesTheLine
<1>4. CASE Become(r, left) /\ UNCHANGED <<inside, line>>
  <2>1. req' = [req EXCEPT ![r] = left]
    BY <1>4 DEF Become
  <2> HIDE DEF left
  <2>2. QED
    BY <1>1, <1>2, <1>4, <2>1, LocalStep
<1>5. QED
  BY <1>3, <1>4 DEF Disconnect

\* An attempt has ended and nobody waits for the slot.
LEMMA LeaveStep ==
  ASSUME LoopInv, NEW r \in Requests, req[r].stage = "sent",
         NEW next, Sound(next), Reports(next), next.stage \in {"trying", "done"},
         Pool!Leave(r, Domain(req[r])), req' = [req EXCEPT ![r] = next],
         cooling' \subseteq Candidates
  PROVE  LoopInv'
<1> DEFINE q == req[r]
           d == Domain(q)
<1>1. d \in Domains
  BY DomainFacts DEF LoopInv
<1>2. inside' = [inside EXCEPT ![d] = @ \ {r}] /\ line' = line
  BY DEF Pool!Leave
<1>3. \A s \in Requests : req'[s] = IF s = r THEN next ELSE req[s]
  BY DEF LoopInv
<1>4. req' \in [Requests -> RequestStates]
  BY DEF LoopInv, Sound, Counted
<1>5. inside' \in [Domains -> SUBSET Requests]
  BY <1>1, <1>2 DEF LoopInv
<1>6. ASSUME NEW s \in Requests, NEW e \in Domains
      PROVE  Follows(req[s], s, e)'
  <2>1. Follows(req[s], s, e)
    BY FollowsFacts DEF LoopInv
  <2>2. inside'[e] = IF e = d THEN inside[e] \ {r} ELSE inside[e]
    BY <1>1, <1>2 DEF LoopInv
  <2>3. CASE s = r
    BY <1>2, <1>3, <2>1, <2>2, <2>3 DEF Follows
  <2>4. CASE s # r
    BY <1>2, <1>3, <2>1, <2>2, <2>4 DEF Follows
  <2>5. QED
    BY <2>3, <2>4
<1>7. SlotsFollowRequests'
  BY <1>6 DEF SlotsFollowRequests, Follows
<1>8. QED
  BY <1>2, <1>3, <1>4, <1>5, <1>7 DEF LoopInv

\* The head of a line is a request that waits.
LEMMA HeadFacts ==
  ASSUME LoopInv, NEW r \in Requests, req[r].stage = "sent", Pool!HandOver(r, Domain(req[r])),
         NEW h, h = Head(line[Domain(req[r])])
  PROVE  LET d == Domain(req[r])
             sent == [req[h] EXCEPT !.stage = "sent"]
         IN /\ d \in Domains
            /\ inside' = [inside EXCEPT ![d] = (@ \ {r}) \cup {h}]
            /\ line' = [line EXCEPT ![d] = Tail(@)]
            /\ h \in Requests /\ Contains(line[d], h)
            /\ Tail(line[d]) \in Seq(Requests)
            /\ OnceEach(Tail(line[d]))
            /\ \A g : Contains(Tail(line[d]), g) <=> Contains(line[d], g) /\ g # h
            /\ req[h].stage = "queued" /\ Domain(req[h]) = d /\ h # r
            /\ Sound(sent) /\ Reports(sent) /\ sent.stage = "sent" /\ Domain(sent) = d
<1> DEFINE d == Domain(req[r])
           sent == [req[h] EXCEPT !.stage = "sent"]
<1>1. d \in Domains
  BY DomainFacts DEF LoopInv
<1>2. /\ line[d] # <<>>
      /\ inside' = [inside EXCEPT ![d] = (@ \ {r}) \cup {h}]
      /\ line' = [line EXCEPT ![d] = Tail(@)]
  BY DEF Pool!HandOver
<1>3. line[d] \in Seq(Requests) /\ OnceEach(line[d])
  BY <1>1 DEF LoopInv
<1>4. /\ h \in Requests /\ Contains(line[d], h)
      /\ Tail(line[d]) \in Seq(Requests)
      /\ OnceEach(Tail(line[d]))
      /\ \A g : Contains(Tail(line[d]), g) <=> Contains(line[d], g) /\ g # h
  BY <1>2, <1>3, AdmittedFacts
<1>5. req[h].stage = "queued" /\ Domain(req[h]) = d /\ h # r
  BY <1>1, <1>4, FollowsFacts DEF LoopInv, Follows
<1>6. Sound(req[h]) /\ Reports(req[h])
  BY <1>4 DEF LoopInv
<1>7. Sound(sent) /\ Reports(sent) /\ sent.stage = "sent" /\ Domain(sent) = d
  BY <1>5, <1>6, StageFacts
<1>8. QED
  BY <1>1, <1>2, <1>4, <1>5, <1>7

\* An attempt has ended and the head of the line is sent in its place.
LEMMA ReplacedStep ==
  ASSUME LoopInv, NEW r \in Requests, req[r].stage = "sent",
         NEW next, Sound(next), Reports(next), next.stage \in {"trying", "done"},
         Pool!HandOver(r, Domain(req[r])),
         NEW h, h = Head(line[Domain(req[r])]),
         NEW sent, Sound(sent), Reports(sent), sent.stage = "sent", Domain(sent) = Domain(req[r]),
         req' = [req EXCEPT ![r] = next, ![h] = sent],
         cooling' \subseteq Candidates
  PROVE  LoopInv'
<1> DEFINE d == Domain(req[r])
<1>1. d \in Domains
  BY HeadFacts
<1>2. /\ inside' = [inside EXCEPT ![d] = (@ \ {r}) \cup {h}]
      /\ line' = [line EXCEPT ![d] = Tail(@)]
  BY HeadFacts
<1>3. /\ h \in Requests /\ Contains(line[d], h)
      /\ Tail(line[d]) \in Seq(Requests)
      /\ OnceEach(Tail(line[d]))
      /\ \A g : Contains(Tail(line[d]), g) <=> Contains(line[d], g) /\ g # h
  BY HeadFacts
<1>4. req[h].stage = "queued" /\ Domain(req[h]) = d /\ h # r
  BY HeadFacts
<1>5. Sound(sent) /\ Reports(sent) /\ sent.stage = "sent" /\ Domain(sent) = d
  OBVIOUS
<1>6. req' = [req EXCEPT ![r] = next, ![h] = sent]
  OBVIOUS
<1>7. \A s \in Requests : req'[s] = IF s = h THEN sent ELSE IF s = r THEN next ELSE req[s]
  BY <1>6 DEF LoopInv
<1>8. req' \in [Requests -> RequestStates]
  BY <1>5, <1>6 DEF LoopInv, Sound, Counted
<1>9. inside' \in [Domains -> SUBSET Requests]
  BY <1>1, <1>2, <1>3 DEF LoopInv
<1>10. \A e \in Domains : line'[e] = IF e = d THEN Tail(line[d]) ELSE line[e]
  BY <1>1, <1>2 DEF LoopInv
<1>11. line' \in [Domains -> Seq(Requests)]
  BY <1>1, <1>2, <1>3 DEF LoopInv
<1>12. \A e \in Domains : OnceEach(line'[e])
  BY <1>3, <1>10 DEF LoopInv
<1>13. ASSUME NEW s \in Requests, NEW e \in Domains
       PROVE  Follows(req[s], s, e)'
  <2>1. Follows(req[s], s, e) /\ Follows(req[r], r, e)
    BY FollowsFacts DEF LoopInv
  <2>2. inside'[e] = IF e = d THEN (inside[e] \ {r}) \cup {h} ELSE inside[e]
    BY <1>1, <1>2 DEF LoopInv
  <2>3. Contains(line'[e], s) <=> Contains(line[e], s) /\ ~ (e = d /\ s = h)
    BY <1>3, <1>10
  <2>4. CASE s = h
    <3>1. s \in inside'[e] <=> e = d
      BY <1>4, <2>1, <2>2, <2>4 DEF Follows
    <3>2. ~ Contains(line'[e], s)
      BY <1>4, <2>1, <2>3, <2>4 DEF Follows
    <3>3. QED
      BY <1>5, <1>7, <2>4, <3>1, <3>2 DEF Follows
  <2>5. CASE s = r
    <3>1. s \notin inside'[e]
      <4>1. r # h
        BY <1>4
      <4>2. e # d => r \notin inside[e]
        BY <2>1 DEF Follows
      <4>3. QED
        BY <2>2, <2>5, <4>1, <4>2
    <3>2. ~ Contains(line'[e], s)
      BY <2>1, <2>3, <2>5 DEF Follows
    <3>3. QED
      <4>1. req'[s] = next
        BY <1>4, <1>7, <2>5
      <4>2. next.stage \notin {"sent", "queued"}
        OBVIOUS
      <4>3. QED
        BY <3>1, <3>2, <4>1, <4>2 DEF Follows
  <2>6. CASE s # h /\ s # r
    <3>1. req'[s] = req[s]
      BY <1>7, <2>6
    <3>2. s \in inside'[e] <=> s \in inside[e]
      BY <2>2, <2>6
    <3>3. Contains(line'[e], s) <=> Contains(line[e], s)
      BY <2>3, <2>6
    <3>4. QED
      BY <2>1, <3>1, <3>2, <3>3 DEF Follows
  <2>7. QED
    BY <2>4, <2>5, <2>6
<1>14. SlotsFollowRequests'
  BY <1>13 DEF SlotsFollowRequests, Follows
<1>15. \A s \in Requests : (Sound(req[s]) /\ Reports(req[s]))'
  BY <1>5, <1>7 DEF LoopInv
<1>16. QED
  BY <1>8, <1>9, <1>11, <1>12, <1>14, <1>15 DEF LoopInv

LEMMA HandOverStep ==
  ASSUME LoopInv, NEW r \in Requests, req[r].stage = "sent",
         NEW next, Sound(next), Reports(next), next.stage \in {"trying", "done"},
         Pool!HandOver(r, Domain(req[r])),
         req' = [req EXCEPT ![r] = next, ![Head(line[Domain(req[r])])].stage = "sent"],
         cooling' \subseteq Candidates
  PROVE  LoopInv'
<1> DEFINE h == Head(line[Domain(req[r])])
           sent == [req[h] EXCEPT !.stage = "sent"]
<1>1. /\ h # r /\ Sound(sent) /\ Reports(sent) /\ sent.stage = "sent"
      /\ Domain(sent) = Domain(req[r])
  BY HeadFacts
<1>2. req' = [req EXCEPT ![r] = next, ![h] = sent]
  BY <1>1
<1>3. h = Head(line[Domain(req[r])])
  OBVIOUS
<1> HIDE DEF h, sent
<1>4. QED
  BY <1>1, <1>2, <1>3, ReplacedStep

LEMMA ReturnedStep ==
  ASSUME LoopInv, NEW r \in Requests, req[r].stage = "sent",
         NEW next, Sound(next), Reports(next), next.stage \in {"trying", "done"},
         NEW answer, SlotReturned(r, next, answer), cooling' \subseteq Candidates
  PROVE  LoopInv'
BY LeaveStep, HandOverStep DEF SlotReturned

\* The attempt is answered, or aborted.
LEMMA AnswerStep == ASSUME LoopInv, NEW r \in Requests, Answer(r) PROVE LoopInv'
<1>1. req[r].stage = "sent" /\ Sound(req[r]) /\ Reports(req[r]) /\ cooling \subseteq Candidates
  BY DEF Answer, LoopInv
<1>2. PICK answer \in Answers :
        /\ SlotReturned(r, Answered(req[r], answer), answer)
        /\ cooling' = IF answer = "throttled" THEN cooling \cup {Door(req[r])} ELSE cooling
  BY DEF Answer
<1>3. cooling' \subseteq Candidates
  BY <1>1, <1>2, DomainFacts
<1>4. /\ Sound(Answered(req[r], answer)) /\ Reports(Answered(req[r], answer))
      /\ Answered(req[r], answer).stage \in {"trying", "done"}
  BY <1>1, AnsweredFacts
<1>5. QED
  BY <1>1, <1>2, <1>3, <1>4, ReturnedStep

LEMMA AbortedStep == ASSUME LoopInv, NEW r \in Requests, Aborted(r) PROVE LoopInv'
<1>1. /\ req[r].stage = "sent" /\ Sound(req[r]) /\ Reports(req[r])
      /\ SlotReturned(r, Finish(req[r], "cancelled"), "cancelled")
      /\ cooling' \subseteq Candidates
  BY DEF Aborted, LoopInv
<1>2. /\ Sound(Finish(req[r], "cancelled")) /\ Reports(Finish(req[r], "cancelled"))
      /\ Finish(req[r], "cancelled").stage = "done"
  BY <1>1, CancelFacts
<1>3. QED
  BY <1>1, <1>2, ReturnedStep

-----------------------------------------------------------------------------
(* The invariant *)

LEMMA LoopInvInit == Init => LoopInv
<1> SUFFICES ASSUME Init PROVE LoopInv
  OBVIOUS
<1>1. PICK route \in Routes, size \in Sizes :
        req = [r \in Requests |-> [NewRequest(route, size) EXCEPT !.stage = "done",
                                     !.events = <<"ok">>, !.result = "ok"]]
  BY DEF Init
<1> DEFINE ended == [NewRequest(route, size) EXCEPT !.stage = "done",
                       !.events = <<"ok">>, !.result = "ok"]
<1>2. cooling = {} /\ inside = [d \in Domains |-> {}] /\ line = [d \in Domains |-> <<>>]
  BY DEF Init, Pool!Init
<1>3. "ok" \in Results /\ <<>> \in Seq(Requests) /\ <<"ok">> \in Seq(Results)
  BY DEF Results, Answers
<1>4. Len(route.doors) \in Nat \ {0}
  BY RouteFacts
<1>5. ended \in RequestStates
  BY <1>3 DEF NewRequest, RequestStates
<1>6. Sound(ended) /\ Reports(ended)
  BY <1>4, <1>5 DEF Sound, Counted, NewRequest, Reports
<1>7. ended.stage = "done"
  BY DEF NewRequest
<1> HIDE DEF ended
<1>8. \A r \in Requests : req[r] = ended
  BY <1>1 DEF ended
<1>9. \A d \in Domains : OnceEach(line[d]) /\ (\A h : ~ Contains(line[d], h))
  BY <1>2 DEF OnceEach, Contains
<1>10. SlotsFollowRequests
  BY <1>2, <1>7, <1>8, <1>9 DEF SlotsFollowRequests
<1>11. req \in [Requests -> RequestStates]
  BY <1>1, <1>5 DEF ended
<1>12. inside \in [Domains -> SUBSET Requests] /\ line \in [Domains -> Seq(Requests)]
  BY <1>2, <1>3
<1>13. QED
  BY <1>2, <1>6, <1>8, <1>9, <1>10, <1>11, <1>12 DEF LoopInv

LEMMA LoopInvStep == LoopInv /\ [Next]_routeVars => LoopInv'
<1> SUFFICES ASSUME LoopInv, [Next]_routeVars PROVE LoopInv'
  OBVIOUS
<1>1. ASSUME NEW r \in Requests, Arrive(r) PROVE LoopInv'
  BY <1>1, ArriveStep
<1>2. ASSUME NEW r \in Requests, Try(r) PROVE LoopInv'
  BY <1>2, PassStep, TurnedAwayStep, AdmittedStep, QueuedStep DEF Try, Acquire
<1>3. ASSUME NEW r \in Requests, QueueTimeout(r) PROVE LoopInv'
  BY <1>3, TimeoutStep
<1>4. ASSUME NEW r \in Requests, Disconnect(r) PROVE LoopInv'
  BY <1>4, DisconnectStep
<1>5. ASSUME NEW r \in Requests, Answer(r) PROVE LoopInv'
  BY <1>5, AnswerStep
<1>6. ASSUME NEW r \in Requests, Aborted(r) PROVE LoopInv'
  BY <1>6, AbortedStep
<1>7. ASSUME cooling' \subseteq Candidates, UNCHANGED <<req, inside, line>> PROVE LoopInv'
  BY <1>7 DEF LoopInv, SlotsFollowRequests, Domain, Door
<1>8. ASSUME NEW c \in Candidates, CooldownPasses(c) PROVE LoopInv'
  BY <1>7, <1>8 DEF CooldownPasses, LoopInv
<1>9. CASE UNCHANGED routeVars
  BY <1>7, <1>9 DEF routeVars, LoopInv
<1>10. QED
  BY <1>1, <1>2, <1>3, <1>4, <1>5, <1>6, <1>8, <1>9 DEF Next

LEMMA LoopInvariant == Spec => []LoopInv
BY LoopInvInit, LoopInvStep, PTL DEF Spec

-----------------------------------------------------------------------------
(* The theorems *)

\* Every variable has its type; above all, the request is always at a candidate of its
\* route, and what it returns is a result.
\* routeAndSend() in src/src/proxy/router.mjs.
THEOREM RouteTypeCorrect == Spec => []TypeOK
<1>1. LoopInv => TypeOK
  <2> SUFFICES ASSUME LoopInv PROVE TypeOK
    OBVIOUS
  <2>1. ASSUME NEW r \in Requests
        PROVE  LET q == req[r] IN
               /\ q \in RequestStates
               /\ q.at \in DOMAIN q.route.doors
               /\ q.throttled \in 0 .. Len(q.route.doors)
    <3>1. Counted(req[r], req[r].at - 1) /\ req[r] \in RequestStates
      BY DEF LoopInv, Sound
    <3>2. /\ req[r].route \in Routes /\ req[r].throttled \in Nat
          /\ req[r].at \in 1 .. Len(req[r].route.doors) /\ req[r].throttled <= req[r].at - 1
      BY <3>1 DEF Counted, RequestStates
    <3>3. QED
      BY <3>1, <3>2, RouteFacts
  <2>2. QED
    BY <2>1 DEF TypeOK, LoopInv, RequestStates
<1>2. QED
  BY <1>1, LoopInvariant, PTL

\* A slot is held by exactly the requests whose attempt is in flight at a candidate of
\* that domain, and the line is made of exactly those that wait for it, whichever way
\* they got there and whichever way the others leave.
\* acquire() and the finally block of routeAndSend() in src/src/proxy/router.mjs.
THEOREM SlotsFollow == Spec => []SlotsFollowRequests
<1>1. LoopInv => SlotsFollowRequests
  BY DEF LoopInv
<1>2. QED
  BY <1>1, LoopInvariant, PTL

\* A request whose candidates are all behind different doors tells of its end once,
\* and tells what the client gets.
\* routeAndSend() in src/src/proxy/router.mjs.
THEOREM ResponseReports == Spec => []ResponseIsTheResult
<1>1. LoopInv => ResponseIsTheResult
  BY DEF LoopInv, ResponseIsTheResult, Reports, Apart
<1>2. QED
  BY <1>1, LoopInvariant, PTL

-----------------------------------------------------------------------------
(* What a step may not do *)

\* The step that NoDoorUntried allows.
AllTried ==
  \A r \in Requests :
    /\ req[r].stage # "done" /\ req'[r].stage = "done"
    /\ req'[r].result \in {"full", "failed", "throttled", "all throttled"}
    => LastDoor(req[r])

\* Of a step of one request only that request has to be looked at.
LEMMA OneEnds ==
  ASSUME LoopInv, NEW r \in Requests, NEW q, req' = [req EXCEPT ![r] = q],
         req[r].stage # "done" /\ q.stage = "done" /\ q.result \in Retryable => LastDoor(req[r])
  PROVE  AllTried
<1>1. \A s \in Requests : req'[s] = IF s = r THEN q ELSE req[s]
  BY DEF LoopInv
<1>2. QED
  BY <1>1 DEF AllTried, Retryable

LEMMA SlotReturnedEnds ==
  ASSUME LoopInv, NEW r \in Requests, req[r].stage = "sent",
         NEW next, NEW answer, SlotReturned(r, next, answer),
         next.stage = "done" /\ next.result \in Retryable => LastDoor(req[r])
  PROVE  AllTried
<1>1. CASE req' = [req EXCEPT ![r] = next]
  BY <1>1, OneEnds
<1>2. CASE /\ Pool!HandOver(r, Domain(req[r]))
           /\ req' = [req EXCEPT ![r] = next, ![Head(line[Domain(req[r])])].stage = "sent"]
  <2> DEFINE h == Head(line[Domain(req[r])])
             sent == [req[h] EXCEPT !.stage = "sent"]
  <2>1. h \in Requests /\ h # r /\ sent.stage = "sent"
    BY <1>2, HeadFacts
  <2>2. req' = [req EXCEPT ![r] = next, ![h] = sent]
    BY <1>2, <2>1
  <2> HIDE DEF h, sent
  <2>3. \A s \in Requests : req'[s] = IF s = h THEN sent ELSE IF s = r THEN next ELSE req[s]
    BY <2>1, <2>2 DEF LoopInv
  <2>4. QED
    BY <2>1, <2>3 DEF AllTried, Retryable
<1>3. QED
  BY <1>1, <1>2 DEF SlotReturned

LEMMA AllTriedStep == LoopInv /\ [Next]_routeVars => [AllTried]_routeVars
<1> SUFFICES ASSUME LoopInv, Next PROVE AllTried
  OBVIOUS
<1>1. ASSUME NEW r \in Requests PROVE Sound(req[r]) /\ Reports(req[r])
  BY DEF LoopInv
<1>2. ASSUME NEW r \in Requests, Arrive(r) PROVE AllTried
  <2>1. PICK q : req' = [req EXCEPT ![r] = q]
    BY <1>2 DEF Arrive, Become
  <2>2. QED
    BY <1>2, <2>1, OneEnds DEF Arrive
<1>3. ASSUME NEW r \in Requests, TooLarge(r) \/ TooSmall(r) \/ SkipThrottled(r) PROVE AllTried
  <2>1. req[r].stage = "trying"
    BY <1>3 DEF TooLarge, TooSmall, SkipThrottled
  <2>2. PICK next : /\ req' = [req EXCEPT ![r] = next]
                    /\ \/ next = Advance([req[r] EXCEPT !.tooLarge = TRUE])
                       \/ next = Advance([req[r] EXCEPT !.tooSmall = TRUE])
                       \/ next = Advance(Throttled(req[r]))
    BY <1>3 DEF TooLarge, TooSmall, SkipThrottled, Become
  <2>3. next.stage = "done" => LastDoor(req[r])
    BY <1>1, <2>1, <2>2, PassFacts
  <2>4. QED
    BY <2>2, <2>3, OneEnds
<1>4. ASSUME NEW r \in Requests, AcquireClosed(r) PROVE AllTried
  <2>1. req[r].stage = "trying" /\ req' = [req EXCEPT ![r] = Finish(req[r], "cancelled")]
    BY <1>4 DEF AcquireClosed, Asks, Become
  <2>2. Finish(req[r], "cancelled").result \notin Retryable
    BY <1>1, <2>1, CancelFacts DEF Retryable
  <2>3. QED
    BY <2>1, <2>2, OneEnds
<1>5. ASSUME NEW r \in Requests, AcquireAdmitted(r) \/ AcquireQueued(r) PROVE AllTried
  <2>1. req[r].stage = "trying"
    BY <1>5 DEF AcquireAdmitted, AcquireQueued, Asks
  <2>2. PICK stage \in {"queued", "sent"} : req' = [req EXCEPT ![r] = [req[r] EXCEPT !.stage = stage]]
    BY <1>5 DEF AcquireAdmitted, AcquireQueued, Become
  <2>3. [req[r] EXCEPT !.stage = stage].stage # "done"
    BY <1>1, <2>1, StageFacts
  <2>4. QED
    BY <2>2, <2>3, OneEnds
<1>6. ASSUME NEW r \in Requests, AcquireRejected(r) \/ QueueTimeout(r) PROVE AllTried
  <2>1. req[r].stage # "done" /\ req' = [req EXCEPT ![r] = Rejected(req[r])]
    BY <1>6 DEF AcquireRejected, QueueTimeout, Asks, Become
  <2>2. Rejected(req[r]).stage = "done" => LastDoor(req[r])
    BY <1>1, <2>1, RejectedFacts
  <2>3. QED
    BY <2>1, <2>2, OneEnds
<1>7. ASSUME NEW r \in Requests, Disconnect(r) PROVE AllTried
  <2> DEFINE left == [req[r] EXCEPT !.gone = TRUE]
  <2>1. /\ req[r].stage # "done"
        /\ \/ req' = [req EXCEPT ![r] = Finish(left, "cancelled")]
           \/ req' = [req EXCEPT ![r] = left]
    BY <1>7 DEF Disconnect, Become
  <2>2. Sound(left) /\ Reports(left) /\ left.stage = req[r].stage
    BY <1>1, <2>1, StageFacts
  <2> HIDE DEF left
  <2>3. Finish(left, "cancelled").result \notin Retryable
    BY <2>1, <2>2, CancelFacts DEF Retryable
  <2>4. left.stage # "done"
    BY <2>1, <2>2
  <2>5. CASE req' = [req EXCEPT ![r] = Finish(left, "cancelled")]
    BY <2>3, <2>5, OneEnds
  <2>6. CASE req' = [req EXCEPT ![r] = left]
    BY <2>4, <2>6, OneEnds
  <2>7. QED
    BY <2>1, <2>5, <2>6
<1>8. ASSUME NEW r \in Requests, Answer(r) PROVE AllTried
  <2>1. req[r].stage = "sent"
    BY <1>8 DEF Answer
  <2>2. PICK answer \in Answers : SlotReturned(r, Answered(req[r], answer), answer)
    BY <1>8 DEF Answer
  <2>3. LET next == Answered(req[r], answer) IN
        next.stage = "done" /\ next.result \in Retryable => LastDoor(req[r])
    BY <1>1, <2>1, AnsweredFacts
  <2>4. QED
    BY <2>1, <2>2, <2>3, SlotReturnedEnds
<1>9. ASSUME NEW r \in Requests, Aborted(r) PROVE AllTried
  <2>1. req[r].stage = "sent" /\ SlotReturned(r, Finish(req[r], "cancelled"), "cancelled")
    BY <1>9 DEF Aborted
  <2>2. Finish(req[r], "cancelled").result \notin Retryable
    BY <1>1, <2>1, CancelFacts DEF Retryable
  <2>3. QED
    BY <2>1, <2>2, SlotReturnedEnds
<1>10. ASSUME NEW c \in Candidates, CooldownPasses(c) PROVE AllTried
  BY <1>10 DEF CooldownPasses, AllTried
<1>11. QED
  BY <1>2, <1>3, <1>4, <1>5, <1>6, <1>7, <1>8, <1>9, <1>10 DEF Next, Try, Acquire

\* A request does not end with an error that another door might not have given before it
\* has come to its last candidate, however often it was passed over, turned away or failed.
\* routeAndSend() in src/src/proxy/router.mjs.
THEOREM DoorsAreTried == Spec => NoDoorUntried
<1>1. LoopInv /\ [Next]_routeVars =>
        [ \A r \in Requests :
            /\ req[r].stage # "done" /\ req'[r].stage = "done"
            /\ req'[r].result \in {"full", "failed", "throttled", "all throttled"}
            => LastDoor(req[r]) ]_routeVars
  BY AllTriedStep DEF AllTried
<1>2. QED
  BY <1>1, LoopInvariant, PTL DEF Spec, NoDoorUntried
=============================================================================
