-------------------------- MODULE AtomicActivation --------------------------
(***************************************************************************)
(* activateReplacement(), src/src/restart/atomic-activation.mjs: one       *)
(* listener hands over to another.                                         *)
(*                                                                         *)
(* The two listeners, the observer and the evidence log are the caller's:  *)
(* each of their functions may do its work or reject.  A rejection inside  *)
(* the handoff starts the rollback, one inside the rollback ends it.       *)
(***************************************************************************)
EXTENDS Naturals, Sequences

CONSTANT MaxActive \* bound: the requests the prior listener serves at once

ASSUME ActivationAssumption == MaxActive \in Nat \ {0}

VARIABLES at,        \* the step that is awaited: of Handoff, of Rollback, or a result
          prior,     \* the old listener: accepting, and its active requests
          candidate, \* the new one: bound, its health, and whether what it has
                     \* loaded is the prepared revision
          priorStopped,
          evidence   \* the last record that was written

activationVars == <<at, prior, candidate, priorStopped, evidence>>

Handoff == <<"baseline", "stopAccepting", "drain", "drained", "bind", "active", "publish", "retire">>
\* mutant: the old listener resumes before the candidate is stopped.
RestoreFirst == <<"restore", "stop", "restored", "record">>
Rollback == <<"stop", "restore", "restored", "record">>
Results == {"activated", "rolled_back", "failed"}

Unbound == [bound |-> FALSE, healthy |-> FALSE, loaded |-> FALSE]

ActivationInit ==
  /\ at = "baseline"
  /\ prior \in [accepting : {TRUE}, active : 0 .. MaxActive]
  /\ candidate = Unbound
  /\ priorStopped = FALSE
  /\ evidence = "none"

-----------------------------------------------------------------------------
StepAfter(steps, step) == CHOOSE next \in {steps[i + 1] : i \in {j \in 1 .. Len(steps) - 1 : steps[j] = step}} : TRUE
Resolves(step) == at = step /\ at' = StepAfter(Handoff, step)
Succeeds(step) == at = step /\ at' = IF step = "record" THEN "rolled_back" ELSE StepAfter(Rollback, step)

\* Before stopAccepting() nothing is caught; from there on the rollback begins.
Rejects(step) == at = step /\ at' = IF step = "baseline" THEN "failed" ELSE Rollback[1]

Observe ==
  /\ \/ Resolves("baseline")
     \/ Resolves("drained") /\ ~ prior.accepting /\ prior.active = 0
     \/ Resolves("active") /\ candidate.loaded
     \/ \E step \in {"baseline", "drained", "active"} : Rejects(step)
  /\ UNCHANGED <<prior, candidate, priorStopped, evidence>>

\* A rejection leaves the listener as it was, or already stopped.
StopAccepting ==
  /\ \/ Resolves("stopAccepting") /\ prior' = [prior EXCEPT !.accepting = FALSE] /\ priorStopped' = TRUE
     \/ Rejects("stopAccepting") /\ UNCHANGED priorStopped /\ prior' \in {prior, [prior EXCEPT !.accepting = FALSE]}
  /\ UNCHANGED <<candidate, evidence>>

\* drain() within the deadline; a drain that is refused or too slow rejects.
Drain ==
  /\ \/ Resolves("drain") /\ prior.active = 0
     \/ Rejects("drain")
  /\ UNCHANGED <<prior, candidate, priorStopped, evidence>>

\* Whatever bind() reports, the candidate may have loaded something else; a
\* bind() that rejects may have come as far.
Bind ==
  /\ candidate' \in [bound : {TRUE}, healthy : BOOLEAN, loaded : BOOLEAN] \cup {candidate}
  /\ \/ Resolves("bind") /\ candidate'.bound
     \/ Rejects("bind")
  /\ UNCHANGED <<prior, priorStopped, evidence>>

Publish ==
  /\ \/ Resolves("publish") /\ evidence' = "activation"
     \/ Rejects("publish") /\ UNCHANGED evidence
  /\ UNCHANGED <<prior, candidate, priorStopped>>

Retire ==
  /\ \/ at = "retire" /\ at' = "activated"
     \/ Rejects("retire")
  /\ UNCHANGED <<prior, candidate, priorStopped, evidence>>

StopCandidate ==
  /\ Succeeds("stop")
  /\ candidate' = Unbound
  /\ UNCHANGED <<prior, priorStopped, evidence>>

Restore ==
  /\ Succeeds("restore")
  /\ prior' = IF priorStopped THEN [prior EXCEPT !.accepting = TRUE] ELSE prior
  /\ UNCHANGED <<candidate, priorStopped, evidence>>

Record ==
  /\ \/ Succeeds("restored") /\ UNCHANGED evidence
     \/ Succeeds("record") /\ evidence' = "rollback"
  /\ UNCHANGED <<prior, candidate, priorStopped>>

\* A step of the rollback rejects: the rest of it does not happen.
RollbackBreaks ==
  /\ \/ at \in {"stop", "restored", "record"}
     \/ at = "restore" /\ priorStopped
  /\ at' = "failed"
  /\ UNCHANGED <<prior, candidate, priorStopped, evidence>>

\* The old listener's requests, while the handoff goes on around them.
Serve ==
  /\ \E active \in 0 .. MaxActive :
       /\ active > prior.active => prior.accepting
       /\ active # prior.active
       /\ prior' = [prior EXCEPT !.active = active]
  /\ UNCHANGED <<at, candidate, priorStopped, evidence>>

ActivationNext ==
  \/ Observe
  \/ StopAccepting
  \/ Drain
  \/ Bind
  \/ Publish
  \/ Retire
  \/ StopCandidate
  \/ Restore
  \/ Record
  \/ RollbackBreaks
  \/ Serve

ActivationSpec == ActivationInit /\ [][ActivationNext]_activationVars

-----------------------------------------------------------------------------

\* "No overlap is permitted between an accepting old listener and a bound
\* replacement", and no work of the old one is under way while the new one is
\* bound: through every failure of the handoff and of its rollback.
NoOverlap == candidate.bound => ~ prior.accepting /\ prior.active = 0

=============================================================================
