------------------------- MODULE CapabilityBattery -------------------------
(***************************************************************************)
(* What a model can do is measured by a battery of calls                   *)
(* (src/src/discovery/capability-assessment.mjs): assertions about tool    *)
(* calls, structured output and instructions, and a ladder of max_tokens.  *)
(* The probe sweep runs it for a few models at once and writes the whole   *)
(* store (src/src/discovery/probe.mjs); an operator runs it for one model  *)
(* (src/src/ranking/eval.mjs), through the cached copy of the store that   *)
(* traffic writes through as well.                                         *)
(*                                                                         *)
(* A model always answers a call in the same way; but any call may meet a  *)
(* throttle, or be lost: a timeout, or a 5xx.  Which models a sweep would  *)
(* probe, and which of them are alive, is an input.                        *)
(***************************************************************************)
EXTENDS Integers, Sequences, FiniteSets, FiniteSetsExt, SequencesExt

CONSTANTS CapModels,      \* numbered in the order of their ids
          Truth,          \* what each model is like: the assertions it passes, and the rung
                          \* of the lowest max_tokens with content, 0 if there is none
          CapabilityBudget, CapabilityInterval,
          Assertions,     \* those of the battery, in order
          Rungs,          \* length of MIN_OUTPUT_TOKEN_LADDER
          MaxMoments,     \* bound: the time
          MaxBatteries    \* bound: how many batteries are run

Fields == Range(Assertions) \cup {"min_output_tokens"}

ASSUME CapabilityAssumption ==
  /\ CapModels \subseteq Nat \ {0} /\ IsFiniteSet(CapModels)
  /\ Assertions \in Seq(Range(Assertions)) /\ "min_output_tokens" \notin Range(Assertions)
  /\ {CapabilityBudget, CapabilityInterval, MaxMoments, MaxBatteries} \subseteq Nat
  /\ Rungs \in Nat \ {0}
  /\ Truth \in [CapModels -> [pass : SUBSET Range(Assertions), tokens : 0 .. Rungs]]

VARIABLES measured, \* the file: measured_capabilities of each model
          cached,   \* the copy of loadCatalogStore(), or NoCopy
          sweep,    \* the sweep under way: since when, and the store it read
          battery,  \* the batteries under way: of a model in the sweep, and the operator's
          moment,   \* the time
          begun     \* how many batteries have begun

batteryVars == <<measured, cached, sweep, battery, moment, begun>>

NoCopy == <<>>
Never == -1
\* defaultCapabilityRecord()
Entry(status, value) == [status |-> status, value |-> value]
NoEntry == Entry("none", 0)
Unmeasured == Entry("unmeasured", 0)
Unassessed == [entries |-> [f \in Fields |-> NoEntry], full |-> Never]
NoSweep == [on |-> FALSE, at |-> 0, store |-> <<>>]
Operator == 0
AtRest == [on |-> FALSE, model |-> 0, at |-> 0, step |-> 1, entries |-> [f \in Fields |-> NoEntry]]

BatteryInit ==
  /\ measured = [m \in CapModels |-> Unassessed]
  /\ cached = NoCopy
  /\ sweep = NoSweep
  /\ battery = [b \in CapModels \cup {Operator} |-> AtRest]
  /\ moment = 0 /\ begun = 0

-----------------------------------------------------------------------------
(* The battery: one call after the other.                                  *)

Determinate(entry) == entry.status \notin {"none", "unmeasured"}

\* What the model answers to an assertion, and the rung at which it has content.
Verdict(m, f) == Entry(IF f \in Truth[m].pass THEN "pass" ELSE "fail", 0)
Lowest(m) == Entry("measured", Truth[m].tokens)

Steps == Len(Assertions) + Rungs
FieldOf(step) == IF step <= Len(Assertions) THEN Assertions[step] ELSE "min_output_tokens"
Finished(b) == battery[b].on /\ battery[b].step > Steps
Started(m, at) == [AtRest EXCEPT !.on = TRUE, !.model = m, !.at = at]
Measures(b, f, entry, step) ==
  battery' = [battery EXCEPT ![b].entries[f] = entry, ![b].step = step]

\* An assertion is decided by its answer; so is a rung with content, and the last one.
CallAnswered(b) ==
  LET m == battery[b].model
      step == battery[b].step
      rung == step - Len(Assertions)
  IN /\ battery[b].on /\ step <= Steps
     /\ CASE rung <= 0 -> Measures(b, FieldOf(step), Verdict(m, FieldOf(step)), step + 1)
          [] rung > 0 /\ (rung = Truth[m].tokens \/ rung = Rungs) ->
               Measures(b, FieldOf(step), Lowest(m), Steps + 1)
          [] OTHER -> battery' = [battery EXCEPT ![b].step = @ + 1]

\* The next assertion is tried all the same; the ladder is given up.
CallLost(b) ==
  LET step == battery[b].step IN
  /\ battery[b].on /\ step <= Steps
  /\ Measures(b, FieldOf(step), Unmeasured, IF step <= Len(Assertions) THEN step + 1 ELSE Steps + 1)

\* A throttle ends the battery: what is left is not attempted.
CallThrottled(b) ==
  /\ battery[b].on /\ battery[b].step <= Steps
  /\ battery' = [battery EXCEPT ![b].step = Steps + 1,
                   ![b].entries = [f \in Fields |->
                      IF \E s \in battery[b].step .. Steps : FieldOf(s) = f THEN Unmeasured ELSE @[f]]]

-----------------------------------------------------------------------------
(* Folding and selection.                                                  *)

\* foldField(), applyCapabilityMeasurement() with a full battery
Fold(previous, next) == IF next = Unmeasured /\ Determinate(previous) THEN previous ELSE next
Measurement(previous, b) ==
  [entries |-> [f \in Fields |-> Fold(previous.entries[f], battery[b].entries[f])],
   full |-> battery[b].at]

Incomplete(record) == \E f \in Fields : record.entries[f] = Unmeasured
\* mutant: an unlucky call is not made up for before the interval is over.
DueByTime(record, at) == record.full = Never \/ at - record.full >= CapabilityInterval
Due(record, at) ==
  record.full = Never \/ at - record.full >= CapabilityInterval \/ Incomplete(record)

\* selectCapabilityCandidates(): never assessed ones first, then the oldest.
Precedes(m, n) ==
  measured[m].full < measured[n].full \/ (measured[m].full = measured[n].full /\ m < n)
Selected(pool) ==
  LET due == {m \in pool : Due(measured[m], moment)}
  IN {m \in due : Cardinality({n \in due : Precedes(n, m)}) < CapabilityBudget}

-----------------------------------------------------------------------------
(* The sweep.                                                              *)

\* Those that do not answer the liveness probe, or get no slot, have no battery.
SweepBegins ==
  \E pool \in SUBSET CapModels :
  \E alive \in SUBSET Selected(pool) :
    /\ ~ sweep.on /\ alive # {}
    /\ begun' = begun + Cardinality(alive) /\ begun' <= MaxBatteries
    /\ sweep' = [on |-> TRUE, at |-> moment, store |-> measured]
    /\ battery' = [b \in DOMAIN battery |-> IF b \in alive THEN Started(b, moment) ELSE battery[b]]
    /\ UNCHANGED <<measured, cached, moment>>

\* Once all of them are through, the store is written as it was read, with the results.
SweepEnds ==
  /\ sweep.on
  /\ \A m \in CapModels : battery[m].on => Finished(m)
  /\ measured' = [m \in CapModels |->
                    IF battery[m].on THEN Measurement(sweep.store[m], m) ELSE sweep.store[m]]
  /\ battery' = [b \in DOMAIN battery |-> IF b = Operator THEN battery[b] ELSE AtRest]
  /\ sweep' = NoSweep
  /\ UNCHANGED <<cached, moment, begun>>

-----------------------------------------------------------------------------
(* The operator, traffic, and the copy.                                    *)

Loaded == IF cached = NoCopy THEN measured ELSE cached
Written(store) == measured' = store /\ cached' = store

EvalBegins(m) ==
  /\ ~ battery[Operator].on
  /\ begun < MaxBatteries /\ begun' = begun + 1
  /\ battery' = [battery EXCEPT ![Operator] = Started(m, moment)]
  /\ UNCHANGED <<measured, cached, sweep, moment>>

\* runModelEval(): getLifecycle(), then recordCapabilityMeasurement()
EvalEnds ==
  LET m == battery[Operator].model IN
  /\ Finished(Operator)
  /\ Written([Loaded EXCEPT ![m] = Measurement(@, Operator)])
  /\ battery' = [battery EXCEPT ![Operator] = AtRest]
  /\ UNCHANGED <<sweep, moment, begun>>

\* recordModelOutcome() writes the store it has.
TrafficWrites ==
  /\ Written(Loaded)
  /\ UNCHANGED <<sweep, battery, moment, begun>>

CachedCopyExpires ==
  /\ cached # NoCopy /\ cached' = NoCopy
  /\ UNCHANGED <<measured, sweep, battery, moment, begun>>

MomentPasses ==
  /\ moment < MaxMoments /\ moment' = moment + 1
  /\ UNCHANGED <<measured, cached, sweep, battery, begun>>

GatewayRestarts ==
  /\ cached' = NoCopy /\ sweep' = NoSweep
  /\ battery' = [b \in DOMAIN battery |-> AtRest]
  /\ UNCHANGED <<measured, moment, begun>>

Called(b) ==
  /\ CallAnswered(b) \/ CallLost(b) \/ CallThrottled(b)
  /\ UNCHANGED <<measured, cached, sweep, moment, begun>>

BatteryNext ==
  \/ \E b \in DOMAIN battery : Called(b)
  \/ SweepBegins
  \/ SweepEnds
  \/ \E m \in CapModels : EvalBegins(m)
  \/ EvalEnds
  \/ TrafficWrites
  \/ CachedCopyExpires
  \/ MomentPasses
  \/ GatewayRestarts

BatterySpec == BatteryInit /\ [][BatteryNext]_batteryVars

-----------------------------------------------------------------------------
(* A throttle, a timeout or a 5xx says nothing about a model: whatever a   *)
(* record claims, the model does; and a record that is left alone for the  *)
(* interval has an answer in every field, although sweeps, evaluations and *)
(* traffic write over each other.  classifyTransport(), foldField() and    *)
(* selectCapabilityCandidates() in                                         *)
(* src/src/discovery/capability-assessment.mjs.                            *)
MeasurementsAreTrue ==
  \A m \in CapModels :
    LET record == measured[m]
        truth(f) == IF f = "min_output_tokens" THEN Lowest(m) ELSE Verdict(m, f)
    IN /\ \A f \in Fields : Determinate(record.entries[f]) => record.entries[f] = truth(f)
       /\ ~ Due(record, moment) => \A f \in Fields : Determinate(record.entries[f])
=============================================================================
