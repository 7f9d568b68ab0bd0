---------------------------- MODULE BackendHealth ----------------------------
(***************************************************************************)
(* The health of one backend, class Backend of src/src/proxy/router.mjs:   *)
(* the error-rate status over a sliding window, and on top of it the       *)
(* quarantine after consecutive failures.  Nothing probes a backend: both  *)
(* are fed by the outcomes of requests, which end in any order, and        *)
(* isAvailable() decides when a backend that is out may be tried again.    *)
(*                                                                         *)
(* The window is the code's ring, in the order of its array: it grows to   *)
(* HealthWindow samples and is then overwritten from its head on.  A       *)
(* sample is "ok", "failed" or "budget", a failure of the class            *)
(* response_budget, which an authoritative recovery takes out again.       *)
(* (routeAndSend() reports such an answer as healthy today, so that only   *)
(* other callers of recordOutcome(), as its test, meet the class.)         *)
(***************************************************************************)
EXTENDS Integers, SequencesExt

CONSTANTS HealthRequests,  \* attempts at this backend that may overlap
          HealthWindow,    \* HEALTH_WINDOW, the length of the sliding window
          DegradedPercent, \* DEGRADED_ERROR_RATE
          DownPercent,     \* DOWN_ERROR_RATE
          HealthThreshold, \* quarantine_threshold; 0 disables the quarantine
          RequireObserved  \* require_observed_health

ASSUME HealthAssumption ==
  /\ HealthWindow \in Nat \ {0}
  /\ DegradedPercent \in 1 .. 100
  /\ DownPercent \in DegradedPercent .. 100
  /\ HealthThreshold \in Nat
  /\ RequireObserved \in BOOLEAN

Samples == {"ok", "failed", "budget"}

VARIABLES ring,         \* _window and _windowFailureClasses, _windowHead, _windowErrors
          status,       \* _status
          cooled,       \* cooldown_ms has passed since _downSince
          failures,     \* _consecutiveFailures, counted up to HealthThreshold
          quarantined,  \* _quarantined
          released,     \* quarantine_cooldown_ms has passed since _quarantinedSince
          observed,     \* _lastCheck # 0
          attempt       \* attempt[r]: what admitted r, "idle" when it is not in flight

healthVars ==
  <<ring, status, cooled, failures, quarantined, released, observed, attempt>>

EmptyRing == [samples |-> <<>>, head |-> 0, errors |-> 0]

HealthInit ==
  /\ ring = EmptyRing
  /\ status = "up"
  /\ cooled = FALSE
  /\ failures = 0
  /\ quarantined = FALSE
  /\ released = FALSE
  /\ observed = FALSE
  /\ attempt = [r \in HealthRequests |-> "idle"]

-----------------------------------------------------------------------------
(* isAvailable() *)

\* The down cooldown is over; a quarantine comes first.
MayReturn == ~ quarantined /\ status = "down" /\ cooled

Observable == RequireObserved => observed

\* mutant: the end of a quarantine does not overrule the error-rate status.
AvailableBoth ==
  /\ Observable
  /\ IF quarantined THEN released /\ status # "down" ELSE status \in {"up", "degraded"} \/ cooled
\* The end of a quarantine is authoritative, independent of the error-rate status.
IsAvailable ==
  /\ Observable
  /\ IF quarantined THEN released ELSE status \in {"up", "degraded"} \/ cooled

\* Any routing call asks every backend, whether or not it then uses it; a down
\* backend that may return becomes degraded.
Consult ==
  /\ Observable
  /\ MayReturn
  /\ status' = "degraded"
  /\ cooled' = FALSE
  /\ UNCHANGED <<ring, failures, quarantined, released, observed, attempt>>

\* What lets a request through: it is the first after a down cooldown, or comes
\* after the cooldown of a quarantine, or the backend is in rotation.
Admission ==
  IF quarantined THEN "probe" ELSE IF status = "down" THEN "reprobe" ELSE "sent"

\* A request is sent to an available backend.
Send(r) ==
  /\ attempt[r] = "idle"
  /\ IsAvailable
  /\ attempt' = [attempt EXCEPT ![r] = Admission]
  /\ status' = IF ~ quarantined /\ status = "down" THEN "degraded" ELSE status
  /\ cooled' = (cooled /\ status' = "down")
  /\ UNCHANGED <<ring, failures, quarantined, released, observed>>

\* No backend is available: route() returns the full list and the request goes
\* out anyway.  So does the first observation of a backend that requires one.
SendAnyway(r) ==
  /\ attempt[r] = "idle"
  /\ ~ IsAvailable
  /\ attempt' = [attempt EXCEPT ![r] = "sent"]
  /\ UNCHANGED <<ring, status, cooled, failures, quarantined, released, observed>>

-----------------------------------------------------------------------------
(* recordOutcome() *)

\* The positions of the failures.
Failed(samples) == {i \in DOMAIN samples : samples[i] # "ok"}

Cost(sample) == IF sample = "ok" THEN 0 ELSE 1

\* filter(): the samples of other classes, in the order of the array.
Kept(samples) ==
  FlattenSeq([i \in DOMAIN samples |->
                IF samples[i] = "budget" THEN <<>> ELSE <<samples[i]>>])

\* An authoritative recovery takes the samples of the class response_budget out
\* of the ring, starts it at the front and counts its failures anew.
Purged(r) ==
  IF Contains(r.samples, "budget")
  THEN [samples |-> Kept(r.samples), head |-> 0,
        errors |-> Cardinality(Failed(Kept(r.samples)))]
  ELSE r

\* A sample goes in; in a full ring it takes the place of the one at the head.
Pushed(r, sample) ==
  IF Len(r.samples) < HealthWindow
  THEN [r EXCEPT !.samples = Append(@, sample), !.errors = @ + Cost(sample)]
  ELSE [samples |-> [r.samples EXCEPT ![r.head + 1] = sample],
        head |-> (r.head + 1) % HealthWindow,
        errors |-> r.errors - Cost(r.samples[r.head + 1]) + Cost(sample)]

\* _evaluateStatus(): the status of n errors among len outcomes.
Rated(n, len) ==
  IF 100 * n >= DownPercent * len THEN "down"
  ELSE IF 100 * n >= DegradedPercent * len THEN "degraded"
  ELSE "up"

\* A success sets _consecutiveFailures back.
RunEnded == 0

\* The status a readmitted backend starts with.
ReadmittedAs(rated) == "up"

\* The status that a ring calls for.
RatedBy(r) == Rated(r.errors, Len(r.samples))

\* A success: the run of failures ends, and so does a quarantine.  The success of
\* a capacity recovery probe (authoritativeRecovery) purges the ring; after any
\* other one the readmitted backend starts with an empty ring.
Succeed(authoritative) ==
  LET pushed == Pushed(IF authoritative THEN Purged(ring) ELSE ring, "ok")
      fresh == quarantined /\ ~ authoritative
  IN
  /\ ring' = IF fresh THEN EmptyRing ELSE pushed
  /\ status' = IF fresh THEN ReadmittedAs(RatedBy(pushed)) ELSE RatedBy(pushed)
  /\ cooled' = (cooled /\ status = "down" /\ status' = "down")
  /\ failures' = RunEnded
  /\ quarantined' = FALSE
  /\ released' = FALSE

\* _consecutiveFailures + 1
RunAfter == IF failures < HealthThreshold THEN failures + 1 ELSE HealthThreshold

\* A failure: the run grows, a quarantine starts or its cooldown starts again.
Fail(sample) ==
  /\ ring' = Pushed(ring, sample)
  /\ status' = RatedBy(ring')
  /\ cooled' = (cooled /\ status = "down" /\ status' = "down")
  /\ failures' = RunAfter
  /\ quarantined' = (HealthThreshold > 0 /\ (quarantined \/ RunAfter >= HealthThreshold))
  /\ released' = FALSE

Outcome(r) ==
  /\ attempt[r] # "idle"
  /\ \/ \E sample \in {"failed", "budget"} : Fail(sample)
     \/ \E authoritative \in BOOLEAN : Succeed(authoritative)
  /\ observed' = TRUE
  /\ attempt' = [attempt EXCEPT ![r] = "idle"]

\* The client disconnects: no evidence about the backend is recorded.
Cancel(r) ==
  /\ attempt[r] # "idle"
  /\ attempt' = [attempt EXCEPT ![r] = "idle"]
  /\ UNCHANGED <<ring, status, cooled, failures, quarantined, released, observed>>

-----------------------------------------------------------------------------

DownCooldownPasses ==
  /\ status = "down"
  /\ ~ cooled
  /\ cooled' = TRUE
  /\ UNCHANGED <<ring, status, failures, quarantined, released, observed, attempt>>

QuarantineCooldownPasses ==
  /\ quarantined
  /\ ~ released
  /\ released' = TRUE
  /\ UNCHANGED <<ring, status, cooled, failures, quarantined, observed, attempt>>

HealthNext ==
  \/ Consult
  \/ \E r \in HealthRequests : Send(r) \/ SendAnyway(r) \/ Outcome(r) \/ Cancel(r)
  \/ DownCooldownPasses
  \/ QuarantineCooldownPasses

HealthSpec == HealthInit /\ [][HealthNext]_healthVars

\* Time passes; nothing is assumed of the traffic.
HealthFairness ==
  /\ WF_healthVars(DownCooldownPasses)
  /\ WF_healthVars(QuarantineCooldownPasses)

HealthFairSpec == HealthSpec /\ HealthFairness

-----------------------------------------------------------------------------
(* Properties *)

\* Every variable has its type, and the ring its length; its head moves only while
\* it is full.
HealthTypeOK ==
  /\ ring \in [samples : Seq(Samples), head : 0 .. HealthWindow - 1, errors : 0 .. HealthWindow]
  /\ Len(ring.samples) <= HealthWindow
  /\ ring.head # 0 => Len(ring.samples) = HealthWindow
  /\ status \in {"up", "degraded", "down"}
  /\ failures \in 0 .. HealthThreshold
  /\ {cooled, quarantined, released, observed} \subseteq BOOLEAN
  /\ attempt \in [HealthRequests -> {"idle", "sent", "probe", "reprobe"}]

\* The counter kept beside the ring is the number of failures in it, through
\* overwritten samples, through the purge of an authoritative recovery, and
\* through the reset of a readmission.
ErrorsExact == ring.errors = Cardinality(Failed(ring.samples))

\* The status is the one the samples in the ring call for, however outcomes,
\* purges and cooldowns interleave; only a re-probe may show a down ring as
\* degraded.
StatusEarned ==
  LET empty == ring.samples = <<>>
      rated == Rated(Cardinality(Failed(ring.samples)), Len(ring.samples))
  IN
  /\ status = "down" => ~ empty /\ rated = "down"
  /\ status = "degraded" => ~ empty /\ rated # "up"
  /\ status = "up" => empty \/ rated = "up"

\* Where the newest sample is, the one before it, and so on.
Back(r, n) == IF n < r.head THEN r.head - n ELSE Len(r.samples) + r.head - n

\* The two machines agree: a backend is in quarantine exactly when the last
\* HealthThreshold outcomes are failures and in its ring, also after a purge.
QuarantineEarned ==
  0 < HealthThreshold /\ HealthThreshold <= HealthWindow =>
    (quarantined <=>
       /\ Len(ring.samples) >= HealthThreshold
       /\ \A n \in 0 .. HealthThreshold - 1 : ring.samples[Back(ring, n)] # "ok")

\* A backend that was observed and is out of rotation is tried again: it becomes
\* available, unless requests sent to it anyway keep failing.
ComesBack ==
  observed /\ ~ IsAvailable ~> IsAvailable \/ \E r \in HealthRequests : attempt[r] # "idle"

=============================================================================
