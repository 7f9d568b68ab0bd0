----------------------------- MODULE FrontDoor -----------------------------
(***************************************************************************)
(* The request handler of src/src/index.mjs and the ledger it keeps in     *)
(* src/src/metrics/collector.mjs.                                          *)
(*                                                                         *)
(* A /v1 request passes the authentication boundary, the authorization     *)
(* gate, identity resolution, the body with its limits and the checks of   *)
(* what no backend can serve.  Then its metrics record is opened, it is    *)
(* trimmed, dispatched and answered, and the record is closed, whichever   *)
(* way the handler ends.  The collector buffers rows and writes them in    *)
(* batches; a batch that fails is lost as a whole.                         *)
(*                                                                         *)
(* Between two awaits nothing else runs.  routeAndSend() is RouteLoop's    *)
(* subject; here it ends in one of its results, or throws.                 *)
(***************************************************************************)
EXTENDS Naturals, Sequences, FiniteSets

CONSTANTS Visits,     \* requests that may overlap
          BatchRows,  \* FLUSH_BATCH_SIZE
          MaxFaults   \* bound: batches that fail

ASSUME FrontDoorAssumption ==
  /\ IsFiniteSet(Visits)
  /\ BatchRows \in Nat \ {0}
  /\ MaxFaults \in Nat

VARIABLES visit,    \* visit[r]: what the handler of r awaits
          client,   \* client[r]: the connection is there
          heads,    \* heads[r]: how often a response head was written
          inFlight, \* pending, by request
          actives,  \* counters.activeRequests
          ledger,   \* rows: writeBuffer; tables[r]: its row in request_log, and
                    \* whether the usage, cost and latency tables, and energy_log,
                    \* have rows of it; faults: batches that failed
          exit      \* the process: "serving", "stopping", "closed", "forced"

frontDoorVars == <<visit, client, heads, inFlight, actives, ledger, exit>>

Awaits == {"authz", "identity", "body", "observe", "dispatch"}

\* What routeAndSend() resolves with; "refused499" is a 499 of the backend.
Served == {"ok", "error", "none", "cancelled", "refused499"}

Blank == [log |-> "absent", usage |-> FALSE, energy |-> FALSE]

FrontDoorInit ==
  /\ visit = [r \in Visits |-> "idle"]
  /\ client = [r \in Visits |-> TRUE]
  /\ heads = [r \in Visits |-> 0]
  /\ inFlight = {}
  /\ actives = 0
  /\ ledger = [rows |-> <<>>, tables |-> [r \in Visits |-> Blank], faults |-> 0]
  /\ exit = "serving"

Running == exit \in {"serving", "stopping"}
Moves(r, from, to) == Running /\ visit[r] \in from /\ visit' = [visit EXCEPT ![r] = to]

-----------------------------------------------------------------------------
(* The collector.                                                          *)

InsertRequest(r) == [kind |-> "request", of |-> r, energy |-> FALSE]
UpdateRequest(r, energy) == [kind |-> "response", of |-> r, energy |-> energy]

Stored(t, row) ==
  LET r == row.of IN
  IF row.kind = "request"
  THEN [t EXCEPT ![r].log = IF @ = "absent" THEN "open" ELSE @]
  ELSE [t EXCEPT ![r].log = IF @ = "absent" THEN @ ELSE "closed",
                 ![r].usage = TRUE, ![r].energy = @ \/ row.energy]

\* flushBatch(): one transaction over the buffer, which is empty either way.
Flushed(l) ==
  LET n == Len(l.rows)
      after[i \in 0 .. n] == IF i = 0 THEN l.tables ELSE Stored(after[i - 1], l.rows[i])
  IN {[l EXCEPT !.rows = <<>>, !.tables = after[n]]}
       \cup {f \in {[l EXCEPT !.rows = <<>>, !.faults = @ + 1]} : f.faults <= MaxFaults}

\* push(), then maybeFlush().
Pushed(l, row) ==
  LET longer == [l EXCEPT !.rows = Append(@, row)]
  IN IF Len(longer.rows) >= BatchRows THEN Flushed(longer) ELSE {longer}

RecordRequest(r) ==
  /\ inFlight' = inFlight \cup {r}
  /\ actives' = actives + 1
  /\ ledger' \in Pushed(ledger, InsertRequest(r))

FirstCall(again) == 1

RecordResponse(r, energy, again) ==
  /\ inFlight' = inFlight \ {r}
  /\ actives' = IF actives > FirstCall(again) THEN actives - FirstCall(again) ELSE 0
  /\ ledger' \in Pushed(ledger, UpdateRequest(r, energy))

NoRecord == UNCHANGED <<inFlight, actives, ledger>>

\* The timer of the collector.
FlushTimer ==
  /\ Running
  /\ ledger.rows # <<>>
  /\ ledger' \in Flushed(ledger)
  /\ UNCHANGED <<visit, client, heads, inFlight, actives, exit>>

\* purgeOld(), of a request that is older than retention_days by now.
Purge(r) ==
  /\ Running
  /\ visit[r] = "done" /\ \A i \in DOMAIN ledger.rows : ledger.rows[i].of # r
  /\ ledger.tables[r] # Blank
  /\ ledger' = [ledger EXCEPT !.tables[r] = [Blank EXCEPT !.energy = ledger.tables[r].energy]]
  /\ UNCHANGED <<visit, client, heads, inFlight, actives, exit>>

-----------------------------------------------------------------------------
(* The handler.                                                            *)

Replies(r, n) == heads' = [heads EXCEPT ![r] = @ + n]
Silent == UNCHANGED heads

\* Answered without a record: 400, 401, 403, 413, 429 of the boundary and the
\* gate, the identity requirement, the body limits, the unserved request.
Refuse(r) ==
  /\ \/ exit = "serving" /\ Moves(r, {"idle"}, "done")
     \/ Moves(r, {"authz", "identity", "body"}, "done")
  /\ Replies(r, 1)
  /\ NoRecord
  /\ UNCHANGED <<client, exit>>

\* The gate and the identity registry are awaited where they are configured.
\* An identity that cannot be resolved is anonymous.
Pass(r) ==
  /\ \/ exit = "serving" /\ \E next \in {"authz", "identity", "body"} : Moves(r, {"idle"}, next)
     \/ \E next \in {"identity", "body"} : Moves(r, {"authz"}, next)
     \/ Moves(r, {"identity"}, "body")
  /\ Silent
  /\ NoRecord
  /\ UNCHANGED <<client, exit>>

\* The connection breaks while the body is read: the outer catch answers into it.
BodyBreaks(r) ==
  /\ ~ client[r]
  /\ Moves(r, {"body"}, "done")
  /\ Replies(r, 1)
  /\ NoRecord
  /\ UNCHANGED <<client, exit>>

\* The body is complete: the record is opened, the history trimmed.
Open(r) ==
  /\ client[r]
  /\ \E next \in {"observe", "dispatch"} : Moves(r, {"body"}, next)
  /\ RecordRequest(r)
  /\ Silent
  /\ UNCHANGED <<client, exit>>

\* Trimming throws: opened, closed and answered at once.
TrimFails(r) ==
  /\ client[r]
  /\ Moves(r, {"body"}, "done")
  /\ Replies(r, 1)
  /\ ledger' \in UNION {Pushed(l, UpdateRequest(r, FALSE)) : l \in Pushed(ledger, InsertRequest(r))}
  /\ UNCHANGED <<inFlight, actives, client, exit>>

\* The shadow cache has looked; what it says changes nothing.
Observed(r) ==
  /\ Moves(r, {"observe"}, "dispatch")
  /\ Silent
  /\ NoRecord
  /\ UNCHANGED <<client, exit>>

\* routeAndSend() is back.  A result that is cancelled is not written, nor one
\* for which nobody is there.
Written(r, served) == ~ (served \in {"cancelled", "refused499"} \/ ~ client[r])

Answer(r) ==
  /\ \E served \in Served, energy \in BOOLEAN :
       /\ served = "cancelled" => ~ client[r]
       /\ Replies(r, IF Written(r, served) THEN 1 ELSE 0)
       /\ RecordResponse(r, energy, FALSE)
  /\ Moves(r, {"dispatch"}, "done")
  /\ UNCHANGED <<client, exit>>

\* A 200 that cannot be sanitized: the record is closed with a 500, that is
\* written, and the finally block finds it closed.
SanitizeFails(r) ==
  /\ Moves(r, {"dispatch"}, "done")
  /\ Replies(r, 1)
  /\ RecordResponse(r, FALSE, TRUE)
  /\ UNCHANGED <<client, exit>>

\* routeAndSend() or the writing throws: closed in the finally block, 502 from
\* the outer catch.
\* mutant: the record is closed after the answer only, not in a finally block.
ClosedAfterAnswer(r) == NoRecord
ClosedFinally(r) == RecordResponse(r, FALSE, FALSE)

DispatchThrows(r) ==
  /\ Moves(r, {"dispatch"}, "done")
  /\ Replies(r, 1)
  /\ ClosedFinally(r)
  /\ UNCHANGED <<client, exit>>

ClientLeaves(r) ==
  /\ Running
  /\ client[r] /\ visit[r] \in Awaits
  /\ client' = [client EXCEPT ![r] = FALSE]
  /\ UNCHANGED <<visit, heads, inFlight, actives, ledger, exit>>

-----------------------------------------------------------------------------
(* shutdown(): no new connection, exit(0) once the last one has gone,      *)
(* exit(1) after five seconds.                                             *)

Shutdown ==
  /\ exit = "serving"
  /\ exit' = "stopping"
  /\ UNCHANGED <<visit, client, heads, inFlight, actives, ledger>>

ServerClosed ==
  /\ exit = "stopping"
  /\ \A r \in Visits : visit[r] \in Awaits => ~ client[r]
  /\ exit' = "closed"
  /\ ledger' \in Flushed(ledger)
  /\ UNCHANGED <<visit, client, heads, inFlight, actives>>

ForcedExit ==
  /\ exit = "stopping"
  /\ exit' = "forced"
  /\ UNCHANGED <<visit, client, heads, inFlight, actives, ledger>>

FrontDoorNext ==
  \/ \E r \in Visits :
       \/ Refuse(r)
       \/ Pass(r)
       \/ BodyBreaks(r)
       \/ Open(r)
       \/ TrimFails(r)
       \/ Observed(r)
       \/ Answer(r)
       \/ SanitizeFails(r)
       \/ DispatchThrows(r)
       \/ ClientLeaves(r)
       \/ Purge(r)
  \/ FlushTimer
  \/ Shutdown
  \/ ServerClosed
  \/ ForcedExit

FrontDoorSpec == FrontDoorInit /\ [][FrontDoorNext]_frontDoorVars

-----------------------------------------------------------------------------

\* The gauge of active requests, the map of those in flight and the handlers
\* between opening and closing their record agree, however these ended: no
\* entry leaks, and none is closed for another that is still running.
ActiveIsInFlight ==
  /\ inFlight = {r \in Visits : visit[r] \in {"observe", "dispatch"}}
  /\ actives = Cardinality(inFlight)

\* A handler that has ended wrote one head, unless its client had gone.
AnsweredUnlessGone ==
  \A r \in Visits : visit[r] = "done" => heads[r] = 1 \/ (heads[r] = 0 /\ ~ client[r])

=============================================================================
