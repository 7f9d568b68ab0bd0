---------------------------- MODULE CapacityProbe ----------------------------
(***************************************************************************)
(* Recovery of one throttled provider: src/src/discovery/capacity_store.mjs *)
(* and the places of routeAndSend() that write to it.                      *)
(*                                                                         *)
(* The store keeps one record of the provider and one of each model.  While *)
(* the record that counts is throttled, ordinary traffic is refused and    *)
(* only the holder of the provider's probe token may try it.  The token is *)
(* taken by a public synthetic request of its own, or by a tick of the     *)
(* scheduler, which keeps it for a transaction of several exact models.    *)
(*                                                                         *)
(* One action is one macrotask of the event loop: between a timer, an      *)
(* answer or a new request and the next real wait there are only resolved  *)
(* promises, so nothing else runs (in particular an aborted probe settles  *)
(* before the tick that aborted it goes on).  Time is the phase of a       *)
(* record: "waiting" until retry_at, then "due", and "stale" when it was   *)
(* observed more than 48 hours ago.                                        *)
(***************************************************************************)
EXTENDS Naturals, Sequences

CONSTANTS Models,        \* the models of the provider
          Recovery,      \* selectProviderRecoveryModels(): the exact targets, in order
          Ticks,         \* invocations of runDueCapacityProbes() that may overlap
          Synthetics,    \* public synthetic requests from outside the scheduler
          Callers,       \* ordinary requests
          Provider,      \* the key of the provider's own record
          NoOwner,       \* no token
          NoModel,       \* of a request that is not in flight
          MaxStops,      \* bound: how often the gateway stops and starts again
          LongStops      \* whether it may stay down for more than 48 hours

ASSUME CapacityAssumption ==
  /\ Recovery \in Seq(Models)
  /\ Provider \notin Models
  /\ Ticks \cap Synthetics = {}
  /\ Callers \cap (Ticks \cup Synthetics) = {}
  /\ NoOwner \notin Ticks \cup Synthetics
  /\ NoModel \notin Models
  /\ MaxStops \in Nat
  /\ LongStops \in BOOLEAN

Keys == Models \cup {Provider}
Owners == Ticks \cup Synthetics
Requests == Synthetics \cup Callers

States == {"absent", "available", "exhausted", "unavailable"}
Phases == {"waiting", "due", "stale"}
Records == [state : States, phase : Phases]

\* What the provider made of a request.  "failed" is a failure with a recovery
\* class (401, 403, 5xx), "limited" a 429 or 402 without quota wording, "none" a
\* request that learned nothing: refused locally, cancelled, or another status.
Answers == {"success", "exhausted", "malformed", "failed", "limited", "none"}

VARIABLES store,      \* the persisted records
          token,      \* probes.get(provider)
          scheduled,  \* scheduledProbes.get(provider)
          cursor,     \* which exact target a tick is probing, 0 when it is not
          flight,     \* how a request was admitted, "idle" when it is not in flight
          model,      \* the model it asks for
          stops       \* how often the gateway was stopped

capVars == <<store, token, scheduled, cursor, flight, model, stops>>

Absent == [state |-> "absent", phase |-> "waiting"]
Available == [state |-> "available", phase |-> "waiting"]
\* An unreadable file is an empty store.
Empty == [k \in Keys |-> Absent]
Throttled(rec) == rec.state \in {"exhausted", "unavailable"}

\* capacityStatus(): a throttled provider wins, then the model, then the provider.
StatusKey(m) ==
  IF Throttled(store[Provider]) \/ store[m].state = "absent" THEN Provider ELSE m
Status(m) == store[StatusKey(m)]

Init ==
  /\ store = Empty
  /\ token = NoOwner
  /\ scheduled = NoOwner
  /\ cursor = [t \in Ticks |-> 0]
  /\ flight = [r \in Requests |-> "idle"]
  /\ model = [r \in Requests |-> NoModel]
  /\ stops = 0

-----------------------------------------------------------------------------
(* What an answer does to the store *)

\* mutant: the record is written without a finite retry_at.
FreshForever(state) == [state |-> state, phase |-> "stale"]
\* A fresh record: its retry_at is in the future.
Fresh(state) == [state |-> state, phase |-> "waiting"]

\* save() of a store read as old: a failed write is swallowed, and leaves the file as
\* it was, or truncated.
Saved(old, new) == {new, old, Empty}

\* clearCapacity()
Cleared(m) == [store EXCEPT ![m] = Absent, ![Provider] = Available]

\* The record goes to the model when the model's record was the one that counted.
BlameStatus(m, state) ==
  IF StatusKey(m) = m /\ m # Provider
  THEN [store EXCEPT ![m] = Fresh("unavailable")]
  ELSE [store EXCEPT ![Provider] = Fresh(state)]

\* finishCapacityProbe(), by a caller that owns the token.
ProbeFinished(m, answer) ==
  CASE answer = "success" -> Saved(store, Cleared(m))
    [] answer = "exhausted" -> Saved(store, [store EXCEPT ![Provider] = Fresh("exhausted")])
    [] answer = "malformed" ->
         UNION {Saved(s, [s EXCEPT ![m] = Fresh("unavailable")]) : s \in Saved(store, Cleared(m))}
    [] answer = "failed" -> Saved(store, BlameStatus(m, "unavailable"))
    [] OTHER -> Saved(store, BlameStatus(m, IF Status(m).state = "exhausted" THEN "exhausted"
                                                                             ELSE "unavailable"))

\* The capacity update of routeAndSend() for a request that is no probe.  A
\* failure of class authentication_failure blames the provider, another one the
\* model; for codex both write nothing, as "none".
PlainFinished(m, answer) ==
  CASE answer = "success" -> Saved(store, Cleared(m))
    [] answer = "exhausted" -> Saved(store, [store EXCEPT ![Provider] = Fresh("exhausted")])
    [] answer \in {"malformed", "limited"} ->
         Saved(store, [store EXCEPT ![m] = Fresh("unavailable")])
    [] answer = "failed" ->
         UNION {Saved(store, [store EXCEPT ![k] = Fresh("unavailable")]) : k \in {m, Provider}}
    [] OTHER -> {store}

-----------------------------------------------------------------------------
(* Requests from outside the scheduler *)

\* mutant: a synthetic request does not look whether a probe is in progress.
MayProbeAnyway(m) == Throttled(Status(m)) /\ Status(m).phase = "due"
\* admitCapacity(): throttled, current, due, and nobody holds the token.
MayProbe(m) ==
  /\ Throttled(Status(m))
  /\ Status(m).phase = "due"
  /\ token = NoOwner

\* Any request is admitted while the record that counts is not throttled.
SendPlain(r) ==
  /\ flight[r] = "idle"
  /\ \E m \in Models :
       /\ ~ Throttled(Status(m))
       /\ model' = [model EXCEPT ![r] = m]
  /\ flight' = [flight EXCEPT ![r] = "plain"]
  /\ UNCHANGED <<store, token, scheduled, cursor, stops>>

\* A synthetic request takes the token, under an owner symbol of its own.
SendProbe(r) ==
  /\ r \in Synthetics
  /\ flight[r] = "idle"
  /\ \E m \in Models :
       /\ MayProbe(m)
       /\ model' = [model EXCEPT ![r] = m]
  /\ token' = r
  /\ flight' = [flight EXCEPT ![r] = "probe"]
  /\ UNCHANGED <<store, scheduled, cursor, stops>>

AnswerPlain(r) ==
  /\ flight[r] = "plain"
  /\ \E answer \in Answers : store' \in PlainFinished(model[r], answer)
  /\ flight' = [flight EXCEPT ![r] = "idle"]
  /\ model' = [model EXCEPT ![r] = NoModel]
  /\ UNCHANGED <<token, scheduled, cursor, stops>>

\* mutant: an answer that is no success keeps the token.
TokenAfterKept(r, answer) ==
  IF token = r /\ answer = "success" THEN NoOwner ELSE token
\* finishCapacityProbe() gives the token back, whatever the answer.
TokenAfter(r, answer) == IF token = r THEN NoOwner ELSE token

\* The answer of a probe, a rejection by the pool among them; when the token is
\* no longer its own nothing is recorded.
AnswerProbe(r) ==
  /\ flight[r] = "probe"
  /\ \E answer \in Answers :
       /\ store' \in IF token = r THEN ProbeFinished(model[r], answer) ELSE {store}
       /\ token' = TokenAfter(r, answer)
  /\ flight' = [flight EXCEPT ![r] = "idle"]
  /\ model' = [model EXCEPT ![r] = NoModel]
  /\ UNCHANGED <<scheduled, cursor, stops>>

-----------------------------------------------------------------------------
(* runDueCapacityProbes() *)

\* The tick looks at the exact targets in order and acts on the first of two kinds:
\* one that is due while no transaction runs, and one the router reports
\* unavailable (here any) although no throttled record counts for it.
Startable(i) == MayProbe(Recovery[i]) /\ scheduled = NoOwner
Markable(i) == ~ Throttled(Status(Recovery[i]))
FirstTarget(i) == \A j \in 1 .. i - 1 : ~ Startable(j)

\* It writes a provider record, under which no target after it is due.
TickMarks(t) ==
  /\ cursor[t] = 0
  /\ \E i \in DOMAIN Recovery : Markable(i) /\ FirstTarget(i)
  /\ store' \in Saved(store, [store EXCEPT ![Provider] = Fresh("unavailable")])
  /\ UNCHANGED <<token, scheduled, cursor, flight, model, stops>>

\* It takes the token and probes the first exact target, whichever target was due.
TickStarts(t) ==
  /\ cursor[t] = 0
  /\ \E i \in DOMAIN Recovery : Startable(i)
  /\ token' = t
  /\ scheduled' = t
  /\ cursor' = [cursor EXCEPT ![t] = 1]
  /\ UNCHANGED <<store, flight, model, stops>>

MoreTargets(i) == i < Len(Recovery)

\* The finally block closes the transaction, whatever the last probe learned.
Closed(answer) == TRUE

\* The probe of the current target ends: it is answered, or its deadline fires
\* and aborts it (answer "none").  The token goes to the next exact target, or
\* back.
ProbeEnds(t, answer) ==
  LET i == cursor[t] IN
  /\ i > 0
  /\ store' \in IF token = t THEN ProbeFinished(Recovery[i], answer) ELSE {store}
  /\ \/ /\ MoreTargets(i)
        /\ token' = t
        /\ cursor' = [cursor EXCEPT ![t] = i + 1]
        /\ UNCHANGED scheduled
     \/ /\ ~ MoreTargets(i)
        /\ Closed(answer)
        /\ token' = IF token = t THEN NoOwner ELSE token
        /\ scheduled' = IF scheduled = t THEN NoOwner ELSE scheduled
        /\ cursor' = [cursor EXCEPT ![t] = 0]
  /\ UNCHANGED <<flight, model, stops>>

DeadlineFires(t) == ProbeEnds(t, "none")
TickAnswered(t) == \E answer \in Answers : ProbeEnds(t, answer)

-----------------------------------------------------------------------------
(* Time, and the gateway stopping *)

Aged(rec) == IF Throttled(rec) THEN [rec EXCEPT !.phase = "stale"] ELSE rec

\* retry_at passes
RecordDue(k) ==
  /\ Throttled(store[k])
  /\ store[k].phase = "waiting"
  /\ store' = [store EXCEPT ![k].phase = "due"]
  /\ UNCHANGED <<token, scheduled, cursor, flight, model, stops>>

\* 48 hours without a probe, for a model the scheduler does not know.
RecordStale(m) ==
  /\ m \notin {Recovery[i] : i \in DOMAIN Recovery}
  /\ Throttled(store[m])
  /\ store[m].phase = "due"
  /\ store' = [store EXCEPT ![m].phase = "stale"]
  /\ UNCHANGED <<token, scheduled, cursor, flight, model, stops>>

\* The process ends and starts again: the maps are gone, the file is not.
Stop ==
  /\ stops < MaxStops
  /\ stops' = stops + 1
  /\ store' \in {store} \cup (IF LongStops THEN {[k \in Keys |-> Aged(store[k])]} ELSE {})
  /\ token' = NoOwner
  /\ scheduled' = NoOwner
  /\ cursor' = [t \in Ticks |-> 0]
  /\ flight' = [r \in Requests |-> "idle"]
  /\ model' = [r \in Requests |-> NoModel]

Next ==
  \/ \E r \in Requests : SendPlain(r) \/ SendProbe(r) \/ AnswerPlain(r) \/ AnswerProbe(r)
  \/ \E t \in Ticks : TickMarks(t) \/ TickStarts(t) \/ TickAnswered(t)
  \/ \E k \in Keys : RecordDue(k)
  \/ \E m \in Models : RecordStale(m)
  \/ Stop

Spec == Init /\ [][Next]_capVars

\* The interval and the deadline timers fire, time passes, and a request ends:
\* the pool bounds its wait and the attempt timeout its call.
Fairness ==
  /\ \A t \in Ticks : WF_capVars(TickStarts(t)) /\ WF_capVars(DeadlineFires(t))
  /\ \A r \in Requests : WF_capVars(AnswerPlain(r)) /\ WF_capVars(AnswerProbe(r))
  /\ \A k \in Keys : WF_capVars(RecordDue(k))

FairSpec == Spec /\ Fairness

-----------------------------------------------------------------------------
(* Properties *)

\* Every variable has its type.
TypeOK ==
  /\ store \in [Keys -> Records]
  /\ token \in Owners \cup {NoOwner}
  /\ scheduled \in Ticks \cup {NoOwner}
  /\ cursor \in [Ticks -> 0 .. Len(Recovery)]
  /\ flight \in [Requests -> {"idle", "plain", "probe"}]
  /\ model \in [Requests -> Models \cup {NoModel}]
  /\ stops \in 0 .. MaxStops

\* One probe of the provider at a time, from whichever side, and the token is
\* exactly with it: a probe in flight without the token has its result thrown
\* away by finishCapacityProbe(), a token without a probe in flight is never
\* given back and locks recovery out for good.
SingleFlight ==
  /\ \A t \in Ticks : (cursor[t] > 0 <=> token = t) /\ (cursor[t] > 0 <=> scheduled = t)
  /\ \A r \in Synthetics : flight[r] = "probe" <=> token = r
  /\ \A r \in Callers : flight[r] # "probe"

\* The token is given back, by a transaction and by a synthetic request.
TokenComesFree == token # NoOwner ~> token = NoOwner

\* A throttled provider is probed again, by the scheduler if by nobody else,
\* whatever the requests still in flight write into its record meanwhile.
ThrottledIsProbed ==
  Throttled(store[Provider]) ~> token # NoOwner \/ ~ Throttled(store[Provider])

\* The same of an exhausted subscription, as the comment of capacityStatus()
\* promises: `"pending" therefore always means "probe due soon", never "silent
\* for 6h"`.
ExhaustedIsProbed ==
  store[Provider].state = "exhausted" ~> token # NoOwner \/ ~ Throttled(store[Provider])
=============================================================================
