----------------------------- MODULE RetryEngine -----------------------------
(***************************************************************************)
(* The four-layer retry of createRetryEngine(), src/src/proxy/retry.mjs,   *)
(* run by several requests over the same circuit breakers: fewer tools,    *)
(* another model, another backend, and at last no tools at all.            *)
(*                                                                         *)
(* Everything between two answers of an upstream is one step, since the    *)
(* engine only waits for an answer or a delay.  Delays and rate-limit      *)
(* holds postpone a send and are not counted.                              *)
(***************************************************************************)
EXTENDS Naturals, Sequences

CONSTANTS Executions,       \* requests that may overlap, all to Engines[1]
          Engines,          \* the backends in the order of getBackends()
          CircuitThreshold,
          ToolAttempts,     \* layer1.maxAttempts
          Alternates,       \* alternate models layer 2 may use
          BackendAttempts,  \* layer3.maxAttempts
          TextAttempts,     \* layer4.maxAttempts
          Max429            \* max429Retries

ASSUME EngineAssumption ==
  /\ Engines \in Seq(STRING) /\ Engines # <<>>
  /\ {CircuitThreshold, ToolAttempts, BackendAttempts, TextAttempts} \subseteq Nat \ {0}
  /\ {Alternates, Max429} \subseteq Nat

VARIABLES circuit,  \* circuit[i]: its state, its failures up to the threshold, and
                    \* whether the cooldown has passed since the last one
          place,    \* place[x]: layer, backend and attempt; layer 0 when it is idle
          retries,  \* retries[x]: the 429s of this attempt
          renewed,  \* authRefreshedFor401
          outcome   \* outcome[x]: what execute() returned

engineVars == <<circuit, place, retries, renewed, outcome>>

Indices == 1 .. Len(Engines)
Closed == [state |-> "closed", failures |-> 0, cooled |-> FALSE]
Idle == [layer |-> 0, backend |-> 1, attempt |-> 1]
At(layer, backend, attempt) == [layer |-> layer, backend |-> backend, attempt |-> attempt]
Infra == {"infra", "rate_limit"}
Classes == {"ok", "bad_payload", "auth_error", "unknown"} \cup Infra

EngineInit ==
  /\ circuit = [i \in Indices |-> Closed]
  /\ place = [x \in Executions |-> Idle]
  /\ retries = [x \in Executions |-> 0]
  /\ renewed = [x \in Executions |-> FALSE]
  /\ outcome = [x \in Executions |-> "none"]

-----------------------------------------------------------------------------
(* The circuit breakers *)

CircuitAllows(cb) == cb.state # "open" \/ cb.cooled
Admitted(cb) == IF cb.state = "open" THEN [cb EXCEPT !.state = "half-open"] ELSE cb
CircuitFailure(cb) ==
  LET failures == IF cb.failures < CircuitThreshold THEN cb.failures + 1 ELSE cb.failures
  IN [state |-> IF failures = CircuitThreshold THEN "open" ELSE cb.state,
      failures |-> failures, cooled |-> FALSE]

\* What the class of an answer does to the breaker of the backend that gave it.
Judged(cb, layer, class, again) ==
  IF class = "ok" THEN Closed
  ELSE IF \/ layer = 1 /\ (class \in Infra \/ (class = "auth_error" /\ ~ again))
          \/ layer = 2 /\ class \in Infra
          \/ layer \in {3, 4}
  THEN CircuitFailure(cb) ELSE cb

-----------------------------------------------------------------------------
(* Where a request goes next, given the breakers *)

TextOnly(backend) == At(4, backend, 1)

\* Layer 3 skips the backends whose circuit is open; layer 4 does not.
Failover(cbs, after) ==
  LET open == {i \in Indices : i > after /\ i > 1 /\ CircuitAllows(cbs[i])}
  IN IF open = {} THEN TextOnly(1) ELSE At(3, CHOOSE i \in open : \A j \in open : i <= j, 1)

AlternateModel(cbs, attempt) ==
  IF attempt <= Alternates /\ (attempt > 1 \/ CircuitAllows(cbs[1]))
  THEN At(2, 1, attempt) ELSE Failover(cbs, 1)

FirstPlace(cbs) == IF CircuitAllows(cbs[1]) THEN At(1, 1, 1) ELSE AlternateModel(cbs, 1)

\* mutant: a refreshed token is tried for as long as it is refused.
RenewsAlways(x) == TRUE
\* A 401 is answered by one refresh.
Renews(x) == ~ renewed[x]

\* The place after an answer that was not a success; layer 0 when it is final.
AfterLayer1(x, cbs, class, refreshed) ==
  LET attempt == place[x].attempt IN
  CASE class = "auth_error" /\ Renews(x) /\ refreshed -> place[x]
    [] class = "bad_payload" /\ attempt < ToolAttempts -> At(1, 1, attempt + 1)
    [] class \in Infra \/ (class = "auth_error" /\ Renews(x)) -> AlternateModel(cbs, 1)
    [] OTHER -> Idle

AfterLayer2(x, cbs, class) ==
  IF class \in Infra THEN Failover(cbs, 1) ELSE AlternateModel(cbs, place[x].attempt + 1)

AfterLayer3(x, cbs, class) ==
  IF class \in Infra /\ place[x].attempt < BackendAttempts
  THEN [place[x] EXCEPT !.attempt = @ + 1] ELSE Failover(cbs, place[x].backend)

AfterLayer4(x) ==
  IF place[x].attempt < TextAttempts THEN [place[x] EXCEPT !.attempt = @ + 1]
  ELSE IF place[x].backend < Len(Engines) THEN TextOnly(place[x].backend + 1)
  ELSE Idle

After(x, cbs, class, refreshed) ==
  CASE class = "ok" -> Idle
    [] place[x].layer = 1 -> AfterLayer1(x, cbs, class, refreshed)
    [] place[x].layer = 2 -> AfterLayer2(x, cbs, class)
    [] place[x].layer = 3 -> AfterLayer3(x, cbs, class)
    [] OTHER -> AfterLayer4(x)

\* A breaker is asked on the way into layers 1 to 3, not within them.
Entered(cbs, from, to) ==
  IF to.layer \in 1 .. 3 /\ (to.layer # from.layer \/ to.backend # from.backend)
  THEN [cbs EXCEPT ![to.backend] = Admitted(@)] ELSE cbs

-----------------------------------------------------------------------------
(* execute() *)

Execute(x) ==
  /\ place[x].layer = 0
  /\ place' = [place EXCEPT ![x] = FirstPlace(circuit)]
  /\ circuit' = Entered(circuit, Idle, place'[x])
  /\ retries' = [retries EXCEPT ![x] = 0]
  /\ renewed' = [renewed EXCEPT ![x] = FALSE]
  /\ outcome' = [outcome EXCEPT ![x] = "none"]

\* sendWithRateLimitRetry(): a 429 is retried before a layer sees it.
RateLimited(x) ==
  /\ place[x].layer # 0
  /\ retries[x] < Max429
  /\ retries' = [retries EXCEPT ![x] = @ + 1]
  /\ UNCHANGED <<circuit, place, renewed, outcome>>

\* An answer reaches the layer.
EngineAnswered(x, class, refreshed) ==
  /\ place[x].layer # 0
  /\ class = "rate_limit" => retries[x] = Max429
  /\ refreshed => class = "auth_error"
  /\ LET from == place[x]
         judged == [circuit EXCEPT ![from.backend] =
                      Judged(@, from.layer, class, refreshed \/ ~ Renews(x))]
         to == After(x, judged, class, refreshed)
     IN /\ place' = [place EXCEPT ![x] = to]
        /\ circuit' = Entered(judged, from, to)
        /\ outcome' = [outcome EXCEPT ![x] =
             IF class = "ok" THEN "ok"
             ELSE IF to # Idle THEN "none"
             ELSE IF from.layer = 4 THEN "exhausted" ELSE class]
  /\ retries' = [retries EXCEPT ![x] = 0]
  /\ renewed' = [renewed EXCEPT ![x] = @ \/ (class = "auth_error" /\ place[x].layer = 1)]

\* The circuit cooldown passes.
CircuitCools(i) ==
  /\ circuit[i].state = "open" /\ ~ circuit[i].cooled
  /\ circuit' = [circuit EXCEPT ![i].cooled = TRUE]
  /\ UNCHANGED <<place, retries, renewed, outcome>>

\* resetCircuit()
ResetCircuit(i) ==
  /\ circuit[i].failures > 0
  /\ circuit' = [circuit EXCEPT ![i].state = "closed", ![i].failures = 0]
  /\ UNCHANGED <<place, retries, renewed, outcome>>

EngineNext ==
  \/ \E x \in Executions :
       \/ Execute(x)
       \/ RateLimited(x)
       \/ \E class \in Classes, refreshed \in BOOLEAN : EngineAnswered(x, class, refreshed)
  \/ \E i \in Indices :
       \/ CircuitCools(i)
       \/ ResetCircuit(i)

\* Every send settles: sendUpstream() of the gateway has a deadline.
Settles(x) ==
  \/ RateLimited(x)
  \/ \E class \in Classes, refreshed \in BOOLEAN : EngineAnswered(x, class, refreshed)
EngineFairness == \A x \in Executions : WF_engineVars(Settles(x))

EngineSpec == EngineInit /\ [][EngineNext]_engineVars /\ EngineFairness

-----------------------------------------------------------------------------

\* Whatever the upstreams answer and however the breakers move, the four layers come
\* to an end: no refresh, 429, smaller tool list or next backend goes round for ever.
ExecuteEnds == \A x \in Executions : (place[x].layer # 0) ~> (place[x].layer = 0)

=============================================================================
