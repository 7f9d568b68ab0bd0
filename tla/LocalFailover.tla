---------------------------- MODULE LocalFailover ----------------------------
(***************************************************************************)
(* The verdict on a local backend, src/src/proxy/local-failover.mjs, and   *)
(* the registry route of src/src/proxy/router.mjs that is gated on it.     *)
(*                                                                         *)
(* A request looks at the shared verdict, probes GET /models when there is *)
(* none that is fresh, and decides which of the local backend and the      *)
(* cloud fallback it may try.  The outcome of a local completion is a      *)
(* verdict too.  Time is the age of each timestamp, up to the TTL.         *)
(***************************************************************************)
EXTENDS Naturals

CONSTANTS LocalRequests, \* requests of the registry route
          VerdictTtl     \* verdictTtlMs, in ticks

ASSUME LocalAssumption == VerdictTtl \in Nat \ {0}

VARIABLES local,    \* the machine: "up", "wedged" (/models answers, completions
                    \* hang) or "down"
          localVerdict, \* _verdicts.get(url): healthy, and the age of its `at`
          asker     \* asker[r]: its step, whether the cloud is allowed, and the
                    \* age of the nowMs its probe has captured

localVars == <<local, localVerdict, asker>>

Ages == 0 .. VerdictTtl
NoVerdict == [healthy |-> TRUE, age |-> VerdictTtl]
NewAsker == [step |-> "idle", cloud |-> FALSE, age |-> 0]
Older(age) == IF age = VerdictTtl THEN age ELSE age + 1

LocalInit ==
  /\ local = "up"
  /\ localVerdict = NoVerdict
  /\ asker = [r \in LocalRequests |-> NewAsker]

-----------------------------------------------------------------------------
\* recordLocalOutcome(), and the end of a probe with its captured nowMs.
Fresh(v) == v.age < VerdictTtl
Recorded(healthy, age) == [healthy |-> healthy, age |-> age]
\* mutant: reading a verdict renews it.
KeptByUse(v) == [v EXCEPT !.age = 0]
\* cachedVerdict() only reads.
Looked(v) == v

\* The candidates of a verdict: the local backend first, the cloud alone, or a
\* 503 when the caller's sensitivity forbids the cloud.
Routed(ask, healthy) ==
  [ask EXCEPT !.step = IF healthy THEN "local" ELSE IF ask.cloud THEN "cloud" ELSE "idle"]

\* The cloud is allowed without a ceiling, within it, or in shadow mode.
Request(r) ==
  /\ asker[r].step = "idle"
  /\ \E cloud \in BOOLEAN :
       LET ask == [NewAsker EXCEPT !.cloud = cloud]
       IN IF Fresh(localVerdict)
          THEN /\ asker' = [asker EXCEPT ![r] = Routed(ask, localVerdict.healthy)]
               /\ localVerdict' = Looked(localVerdict)
          ELSE /\ asker' = [asker EXCEPT ![r] = [ask EXCEPT !.step = "probing"]]
               /\ UNCHANGED localVerdict
  /\ UNCHANGED local

\* The probe is answered, or refused, or aborted by its timeout; its verdict is
\* stored under the time at which it was sent.
ProbeEnds(r) ==
  /\ asker[r].step = "probing"
  /\ LET healthy == local # "down"
     IN /\ localVerdict' = Recorded(healthy, asker[r].age)
        /\ asker' = [asker EXCEPT ![r] = Routed(asker[r], healthy)]
  /\ UNCHANGED local

\* The completion's status is the verdict of the moment; a failure goes on to
\* the cloud where that is allowed.
LocalAnswers(r) ==
  /\ asker[r].step = "local"
  /\ LET healthy == local = "up"
     IN /\ localVerdict' = Recorded(healthy, 0)
        /\ asker' = [asker EXCEPT ![r].step = IF ~ healthy /\ asker[r].cloud THEN "cloud" ELSE "idle"]
  /\ UNCHANGED local

CloudAnswers(r) ==
  /\ asker[r].step = "cloud"
  /\ asker' = [asker EXCEPT ![r].step = "idle"]
  /\ UNCHANGED <<local, localVerdict>>

\* The machine wedges, dies and comes back.
MachineChanges ==
  /\ local' \in {"up", "wedged", "down"} \ {local}
  /\ UNCHANGED <<localVerdict, asker>>

LocalTick ==
  /\ localVerdict' = [localVerdict EXCEPT !.age = Older(@)]
  /\ asker' = [r \in LocalRequests |->
                 IF asker[r].step = "probing" THEN [asker[r] EXCEPT !.age = Older(@)] ELSE asker[r]]
  /\ UNCHANGED local

LocalNext ==
  \/ \E r \in LocalRequests : \/ Request(r)
                              \/ ProbeEnds(r)
                              \/ LocalAnswers(r)
                              \/ CloudAnswers(r)
  \/ MachineChanges
  \/ LocalTick

\* The clock runs, and a probe and a completion end: each has a timeout.
LocalFairness ==
  /\ WF_localVars(LocalTick)
  /\ \A r \in LocalRequests : /\ WF_localVars(ProbeEnds(r))
                              /\ WF_localVars(LocalAnswers(r))

LocalSpec == LocalInit /\ [][LocalNext]_localVars /\ LocalFairness

-----------------------------------------------------------------------------

\* "traffic routes back automatically": a machine that stays up is not kept out
\* by the verdicts of its outage, however the probes and the completions that
\* began during it end, and however often the verdict is asked for.
RoutesBack == <>[](local = "up") => <>[](Fresh(localVerdict) => localVerdict.healthy)

=============================================================================
