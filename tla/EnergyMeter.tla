---------------------------- MODULE EnergyMeter ----------------------------
(***************************************************************************)
(* What a request's attempts burned: the energy accounting of              *)
(* routeAndSend() in src/src/proxy/router.mjs, with                        *)
(* src/src/metrics/energy.mjs and the rows that src/src/index.mjs books.   *)
(*                                                                         *)
(* A door with a meter is read before and after the upstream call, and     *)
(* each read is awaited.  The calls under way at a meter are counted; the  *)
(* count goes into the row of an attempt, because a difference of two      *)
(* readings says what one attempt burned only if nobody else was served.   *)
(* Where nothing was measured the joules are derived from the tokens.      *)
(***************************************************************************)
EXTENDS Integers, FiniteSets, SequencesExt

CONSTANTS Burners,      \* requests that may overlap
          EnergyDoors,  \* the candidates of all of them: a sequence of
                        \* [backend, reg, host, declared, localUrl]
          Meters,       \* energy.meters: [key -> meter]; a key is <<reg, backend>> or <<host>>
          Readings,     \* what readMeter() may give, as a number or NoReading
          NoReading,    \* it failed, took too long, or said "unavailable"
          NoMeter,
          EnergyModel,  \* the model they ask for: [name, size], the name a sequence of parts
          Coefficients, \* energy.coefficients: [name -> [input, output]]
          TokenCounts   \* what an answer may report: [input, output]

ASSUME EnergyAssumption ==
  /\ EnergyDoors \in Seq(Range(EnergyDoors))
  /\ \A i \in DOMAIN EnergyDoors : EnergyDoors[i].declared \in {"remote", "local", "unknown"}
  /\ Readings \subseteq Nat \cup {NoReading}
  /\ TokenCounts \subseteq [input : Nat, output : Nat]
  /\ NoMeter \notin Range(Meters)

VARIABLES burn,     \* burn[r]: [stage, door, before, seen, outcome, others, rows]; `others`
            \* when a door was tried that did not throttle it
          onMeter,  \* _inFlight, by meter
          shared,   \* the pairs of attempts that were under way at one meter together
          booked    \* energy_log

energyVars == <<burn, onMeter, shared, booked>>

Fresh(stage, door, rows, others) ==
  [stage |-> stage, door |-> door, before |-> NoReading, seen |-> 1, outcome |-> "none", others |-> others, rows |-> rows]

EnergyInit ==
  /\ burn = [r \in Burners |-> Fresh("new", 0, <<>>, FALSE)]
  /\ onMeter = [m \in Range(Meters) |-> 0]
  /\ shared = {}
  /\ booked = {}

-----------------------------------------------------------------------------
(* energy.mjs *)

\* resolveMeterUrl(): by its id, by the id with or without "reg:", by its host.
MeterOf(door) ==
  LET keys == <<<<door.reg, door.backend>>, <<~ door.reg, door.backend>>, <<door.host>>>>
      i == SelectInSeq(keys, LAMBDA key : key \in DOMAIN Meters)
  IN IF i = 0 THEN NoMeter ELSE Meters[keys[i]]

\* marginalJoules(): a counter that is absent or ran backwards measures nothing.
Measured(before, after) == {before, after} \subseteq Nat /\ before <= after

IsLocal(door) == door.declared = "local" \/ (door.declared = "unknown" /\ door.localUrl)
Basis(door, measured) ==
  CASE measured -> "measured_gpu"
    [] ~ measured /\ IsLocal(door) -> "imputed_local"
    [] OTHER -> "imputed_cloud"

\* coeffsForModel(): the longest entry that begins the name, or by its active parameters.
Known == {name \in DOMAIN Coefficients : IsPrefix(name, EnergyModel.name)}
JoulesOf(count) ==
  LET longest == CHOOSE name \in Known : \A other \in Known : Len(other) <= Len(name)
  IN CASE Known # {} -> count.input * Coefficients[longest].input + count.output * Coefficients[longest].output
       [] Known = {} /\ EnergyModel.size > 0 -> (count.input + 10 * count.output) * EnergyModel.size
       [] OTHER -> NoReading

-----------------------------------------------------------------------------
(* One attempt *)

Meter(r) == MeterOf(EnergyDoors[burn[r].door])
Attempt(r) == <<r, burn[r].door>>
Under(m) == {r \in Burners : burn[r].stage = "calling" /\ Meter(r) = m}

\* enterMeter(), and the others that are in flight there.
Enters(b, r, m) ==
  /\ onMeter' = IF m = NoMeter THEN onMeter ELSE [onMeter EXCEPT ![m] = @ + 1]
  /\ shared' = IF m = NoMeter THEN shared
               ELSE shared \cup {{<<r, b.door>>, Attempt(o)} : o \in Under(m)}

\* The attempt at door i: a meter is read first.
Tries(r, i, rows, others) ==
  LET stage == IF MeterOf(EnergyDoors[i]) = NoMeter THEN "calling" ELSE "before"
  IN burn' = [burn EXCEPT ![r] = Fresh(stage, i, rows, others)]

Begin(r) ==
  /\ burn[r].stage = "new"
  /\ Tries(r, 1, <<>>, FALSE)
  /\ UNCHANGED <<onMeter, shared, booked>>

ReadBefore(r, reading) ==
  /\ burn[r].stage = "before"
  /\ burn' = [burn EXCEPT ![r].stage = "calling", ![r].before = reading]
  /\ Enters(burn[r], r, Meter(r))
  /\ UNCHANGED booked

\* The result that is returned brings these rows to the ledger.
Returns(r, rows, own) ==
  /\ burn' = [burn EXCEPT ![r].stage = "returned", ![r].rows = own]
  /\ booked' = booked \cup Range(rows)

\* After an attempt that did not answer: a later door, when those between refuse
\* admission or are cooling down.  When all doors throttled it, and when the last one
\* refuses admission, the result is a new one, with no rows.
GoesOn(r, own) ==
  LET b == burn[r]
      next == b.door + 1
      others == b.others \/ b.outcome # "throttled"
  IN \/ \E i \in next .. Len(EnergyDoors), refused \in BOOLEAN :
          /\ refused => i > next
          /\ Tries(r, i, own, others \/ refused)
          /\ UNCHANGED booked
     \/ next > Len(EnergyDoors) /\ Returns(r, IF others THEN own ELSE <<>>, own)
     \/ next <= Len(EnergyDoors) /\ Returns(r, <<>>, own)

\* The row of the attempt, and what follows from its outcome.
Settles(r, after, count) ==
  LET b == burn[r]
      door == EnergyDoors[b.door]
      measured == Measured(b.before, after)
      own == Append(b.rows, [attempt |-> Attempt(r), basis |-> Basis(door, measured), concurrency |-> b.seen,
                             joules |-> IF measured THEN after - b.before ELSE JoulesOf(count)])
  IN IF b.outcome = "answered" THEN Returns(r, own, own) ELSE GoesOn(r, own)

\* mutant: the count is read when the attempt has left the meter.
SeenAfterExit(m) == IF m = NoMeter THEN 1 ELSE IF onMeter[m] = 1 THEN 1 ELSE onMeter[m] - 1
\* attemptConcurrency, while the attempt is still counted.
Seen(m) == IF m = NoMeter THEN 1 ELSE onMeter[m]

\* sendUpstream() settles: the count is taken, then the meter is left.  A cancelled
\* attempt returns at once.
UpstreamSettles(r, outcome) ==
  LET m == Meter(r)
  IN /\ burn[r].stage = "calling"
     /\ onMeter' = IF m = NoMeter THEN onMeter ELSE [onMeter EXCEPT ![m] = @ - 1]
     /\ IF outcome = "cancelled" THEN Returns(r, <<>>, burn[r].rows)
        ELSE /\ burn' = [burn EXCEPT ![r].stage = "after", ![r].seen = Seen(m), ![r].outcome = outcome]
             /\ UNCHANGED booked
     /\ UNCHANGED shared

\* The second reading; without a meter there is none, and nothing is awaited.
ReadAfter(r, reading, count) ==
  /\ burn[r].stage = "after"
  /\ Meter(r) = NoMeter => reading = NoReading
  /\ Settles(r, reading, count)
  /\ UNCHANGED <<onMeter, shared>>

EnergyNext ==
  \E r \in Burners :
    \/ Begin(r)
    \/ \E reading \in Readings : ReadBefore(r, reading)
    \/ \E outcome \in {"answered", "failed", "throttled", "cancelled"} : UpstreamSettles(r, outcome)
    \/ \E reading \in Readings, count \in TokenCounts : ReadAfter(r, reading, count)

EnergySpec == EnergyInit /\ [][EnergyNext]_energyVars

-----------------------------------------------------------------------------
Observed == UNION {Range(burn[r].rows) : r \in Burners}

\* "Capturing it here, while this attempt is still counted, is what lets the field
\* actually show 2+ when there is real overlap": of two attempts that were under way
\* at a meter together, not both are recorded as the only one.
OverlapIsSeen ==
  \A row, other \in Observed :
    {row.attempt, other.attempt} \in shared /\ row # other => row.concurrency > 1 \/ other.concurrency > 1

=============================================================================
