------------------------------ MODULE Lifecycle ------------------------------
(***************************************************************************)
(* The lifecycle record of one model, src/src/discovery/lifecycle.mjs.     *)
(*                                                                         *)
(* Three kinds of evidence move a record: what a completion answered,      *)
(* whether the provider's catalog lists the model, and what a probe of the *)
(* sweep answered.  They are not of the same strength, and each transition *)
(* says how far its own kind may go.                                       *)
(*                                                                         *)
(* Counters are compared with their thresholds only, so they stop there.   *)
(* last_verified_at is "never", "recent" (within the sweep's traffic       *)
(* window) or "old".                                                       *)
(***************************************************************************)
EXTENDS Naturals

CONSTANTS EolErrors,      \* eolErrorThreshold
          EolSilences,    \* probeFailureEolThreshold
          EolAbsences,    \* absentEolThreshold
          SuspectAbsences,\* absentSuspectThreshold of the provider
          Promotion       \* promotionSuccessThreshold

ASSUME LifecycleAssumption ==
  /\ {EolErrors, EolSilences, EolAbsences, SuspectAbsences} \subseteq Nat \ {0}
  /\ Promotion \in Nat \ {0, 1}

Routable == {"active", "suspect"}
States == Routable \cup {"eol", "dead", "not_chat"}
Reasons == {"none", "provider_410", "dropped_from_catalog", "probe_failed",
            "probe_unresponsive", "not_chat"}
Replies == {"ok", "gone", "refused", "throttled", "silent"}

NoTag == 0

DefaultLifecycle ==
  [state |-> "active", reason |-> "none", verified |-> "never", provider |-> NoTag,
   errors |-> 0, successes |-> 0, silences |-> 0, absences |-> 0]

Up(n, limit) == IF n < limit THEN n + 1 ELSE limit

-----------------------------------------------------------------------------
(* applyCompletionOutcome() *)

\* An active record stays active; another earns it back with a streak.
Promoted(lc, successes) == lc.state = "active" \/ successes = Promotion

AfterSuccess(lc) ==
  LET successes == Up(lc.successes, Promotion)
      trusted == Promoted(lc, successes)
  IN [lc EXCEPT !.verified = "recent",
                !.successes = successes,
                !.state = IF trusted THEN "active" ELSE "suspect",
                !.reason = IF trusted THEN "none" ELSE @,
                !.errors = IF successes = Promotion THEN 0 ELSE @]

AfterPermanentError(lc) ==
  LET errors == Up(lc.errors, EolErrors) IN
  [lc EXCEPT !.errors = errors,
             !.successes = 0,
             !.state = IF errors = EolErrors THEN "eol" ELSE @,
             !.reason = IF errors = EolErrors THEN "provider_410" ELSE @]

\* Only 2xx, 404 and 410 say anything about the model here.
AfterCompletion(lc, answer) ==
  CASE answer = "ok" -> AfterSuccess(lc)
    [] answer = "gone" -> AfterPermanentError(lc)
    [] OTHER -> lc

-----------------------------------------------------------------------------
(* applyCatalogPresence() *)

\* A listing rebuts only "it is not listed".
Rebutted(lc) == lc.reason = "dropped_from_catalog"

\* mutant: a listing forgives silent probes too.
SeenAndForgiven(lc) == [lc EXCEPT !.absences = 0, !.silences = 0]
\* A listing ends a run of absences, and nothing else.
Present(lc) == [lc EXCEPT !.absences = 0]

AfterListed(lc) ==
  CASE lc.state = "dead" -> [Present(lc) EXCEPT !.state = "suspect", !.reason = "none"]
    [] lc.state = "eol" /\ Rebutted(lc) /\ lc.verified # "never" ->
         [Present(lc) EXCEPT !.state = "active", !.reason = "none",
                          !.errors = 0, !.successes = 0, !.verified = "recent"]
    [] lc.state = "eol" /\ Rebutted(lc) ->
         [Present(lc) EXCEPT !.state = "suspect", !.reason = "none"]
    [] OTHER -> Present(lc)

AfterAbsent(lc) ==
  LET absences == Up(lc.absences, IF EolAbsences > SuspectAbsences THEN EolAbsences ELSE SuspectAbsences)
  IN CASE lc.state \in Routable /\ absences >= EolAbsences ->
            [lc EXCEPT !.absences = absences, !.state = "eol", !.reason = "dropped_from_catalog"]
       [] lc.state = "active" /\ absences >= SuspectAbsences /\ absences < EolAbsences ->
            [lc EXCEPT !.absences = absences, !.state = "suspect"]
       [] OTHER -> [lc EXCEPT !.absences = absences]

AfterCatalog(lc, present) == IF present THEN AfterListed(lc) ELSE AfterAbsent(lc)

-----------------------------------------------------------------------------
(* applyProbeOutcome() *)

AfterSilence(lc) ==
  LET silences == Up(lc.silences, EolSilences) IN
  [lc EXCEPT !.silences = silences,
             !.state = IF silences = EolSilences THEN "eol"
                       ELSE IF @ = "active" THEN "suspect" ELSE @,
             !.reason = IF silences = EolSilences THEN "probe_unresponsive" ELSE @]

AfterProbe(lc, answer) ==
  CASE answer = "ok" ->
         [lc EXCEPT !.state = "active", !.reason = "none", !.verified = "recent",
                    !.errors = 0, !.successes = 0, !.silences = 0, !.absences = 0]
    [] answer = "throttled" -> lc
    [] answer = "gone" -> [lc EXCEPT !.state = "eol", !.reason = "probe_failed"]
    [] answer = "refused" -> [lc EXCEPT !.state = "not_chat", !.reason = "not_chat"]
    [] answer = "silent" -> AfterSilence(lc)

-----------------------------------------------------------------------------
IsRoutable(lc) == lc.state \in Routable

\* A verdict gates a model that backends declare only when one provider gave it
\* and nobody else claims the model.
IsEffectivelyRoutable(lc, claimers) ==
  \/ IsRoutable(lc)
  \/ claimers # {} /\ lc.provider = NoTag
  \/ \E b \in claimers : b # lc.provider
=============================================================================
