---------------------------- MODULE UpstreamCall ----------------------------
(***************************************************************************)
(* One call of sendUpstream(), src/src/proxy/upstream.mjs.                 *)
(*                                                                         *)
(* The promise must settle once, whatever comes first of the upstream's    *)
(* bytes, a failing connection, the socket's idle timer, the wall-clock    *)
(* deadline, the response ceiling and the end of the client.  Destroying   *)
(* the request, or losing the connection, emits `error` only while no      *)
(* response has arrived for certain; afterwards it may go unnoticed,       *)
(* because the response object has no handler for it.                      *)
(***************************************************************************)
EXTENDS Naturals

VARIABLES options,   \* which of timeoutMs, hardTimeoutMs, maxResponseBytes are set
          wire,      \* "open" no headers yet, "body", "broken" an `error` is
                     \* about to be emitted, "gone" no event will come any more
          cause,     \* timedOut, deadlineExceeded, cancelled
          deadline,  \* deadlineTimer: "off", "armed", "fired"
          callOutcome    \* what the promise resolved with

upstreamVars == <<options, wire, cause, deadline, callOutcome>>

NoOutcome == "none"
Outcomes == {"response", "too_large", "closed", "deadline", "idle", "unreachable"}
CallOptions == [idle : BOOLEAN, hard : BOOLEAN, limit : BOOLEAN]

\* mutant: only an explicit ceiling arms the deadline.
OverrideOnly(o) == o.hard
\* An explicit ceiling, or one derived from the idle timeout.
HasDeadline(o) == o.hard \/ o.idle

UpstreamInit ==
  /\ options \in CallOptions
  /\ \/ /\ wire = "open"
        /\ cause = [timedOut |-> FALSE, deadline |-> FALSE, cancelled |-> FALSE]
        /\ callOutcome = NoOutcome
     \/ \* the client had left before the call: nothing is sent
        /\ wire = "broken"
        /\ cause = [timedOut |-> FALSE, deadline |-> FALSE, cancelled |-> TRUE]
        /\ callOutcome = "closed"
  /\ deadline = IF HasDeadline(options) THEN "armed" ELSE "off"

\* done(): the first settlement counts.
Done(o) == callOutcome' = IF callOutcome = NoOutcome THEN o ELSE callOutcome

\* done() also clears the timer; the entry's own abort came before it was set.
Disarm == deadline' = IF deadline = "armed" /\ callOutcome = NoOutcome THEN "off" ELSE deadline

Live == wire \in {"open", "body"}

\* destroy() without a response emits `error`; with one, nothing the call
\* listens to.
Destroy == wire' = IF wire = "open" THEN "broken" ELSE IF wire = "body" THEN "gone" ELSE wire

-----------------------------------------------------------------------------
HeadersArrive ==
  /\ wire = "open"
  /\ wire' = "body"
  /\ UNCHANGED <<options, cause, deadline, callOutcome>>

DataOverLimit ==
  /\ wire = "body"
  /\ options.limit
  /\ Done("too_large")
  /\ Disarm
  /\ Destroy
  /\ UNCHANGED <<options, cause>>

BodyEnds ==
  /\ wire = "body"
  /\ wire' = "gone"
  /\ Done("response")
  /\ Disarm
  /\ UNCHANGED <<options, cause>>

\* The connection is refused, reset or closed early.  A reset after the headers
\* still reaches the request as an error, an early close only the response.
ConnectionFails ==
  /\ \/ Live /\ wire' = "broken"
     \/ wire = "body" /\ wire' = "gone"
  /\ UNCHANGED <<options, cause, deadline, callOutcome>>

\* The `error` handler of the request.
ErrorEvent ==
  /\ wire = "broken"
  /\ wire' = "gone"
  /\ Done(CASE cause.cancelled -> "closed"
            [] cause.deadline -> "deadline"
            [] cause.timedOut -> "idle"
            [] OTHER -> "unreachable")
  /\ Disarm
  /\ UNCHANGED <<options, cause>>

\* The socket has been silent for timeoutMs.
IdleFires ==
  /\ Live
  /\ options.idle
  /\ cause' = [cause EXCEPT !.timedOut = TRUE]
  /\ Destroy
  /\ UNCHANGED <<options, deadline, callOutcome>>

DeadlineFires ==
  /\ deadline = "armed"
  /\ deadline' = "fired"
  /\ cause' = [cause EXCEPT !.deadline = TRUE]
  /\ Done("deadline")
  /\ Destroy
  /\ UNCHANGED options

\* The listener of the client's signal is removed once the call has settled.
Abort ==
  /\ callOutcome = NoOutcome
  /\ cause' = [cause EXCEPT !.cancelled = TRUE]
  /\ Done("closed")
  /\ Disarm
  /\ Destroy
  /\ UNCHANGED options

UpstreamNext ==
  \/ HeadersArrive
  \/ DataOverLimit
  \/ BodyEnds
  \/ ConnectionFails
  \/ ErrorEvent
  \/ IdleFires
  \/ DeadlineFires
  \/ Abort

\* Node's events: the `error` that was raised, and the deadline's timer.  The
\* idle timer needs silence, and the upstream owes nothing.
UpstreamFairness ==
  /\ WF_upstreamVars(ErrorEvent)
  /\ WF_upstreamVars(DeadlineFires)

UpstreamSpec ==
  /\ UpstreamInit
  /\ [][UpstreamNext]_upstreamVars
  /\ UpstreamFairness

-----------------------------------------------------------------------------

\* A call with a timeout of either kind settles, also when the connection dies
\* in the middle of the body, where neither the idle timer's destroy() nor the
\* close of the socket tells the call: the deadline is what is left.
BoundedCallSettles == options.idle \/ options.hard ~> callOutcome # NoOutcome

=============================================================================
