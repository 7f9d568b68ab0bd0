----------------------------- MODULE ClaudeAuth -----------------------------
(***************************************************************************)
(* The Claude login, _getOAuthToken() and _refreshOAuth() of class Backend *)
(* in src/src/proxy/router.mjs.                                            *)
(*                                                                         *)
(* Unlike the Kimi login, nothing keeps two calls from refreshing the same *)
(* file at once, a refused refresh starts a cooldown in which the stale    *)
(* token is served, and the file is overwritten in place.  Token pairs are *)
(* numbered in the order they are issued; a server that rotates gives each *)
(* pair a refresh token of its own.                                        *)
(***************************************************************************)
EXTENDS Integers

CONSTANTS ClaudeBackends,     \* the backends that read the file
          ClaudeCalls,        \* calls of buildAuthHeaders() that may overlap
          Rotates,      \* external: a refresh token is good for one use
          MaxPairs      \* bound: how many pairs are ever issued

ASSUME ClaudeAssumption == Rotates \in BOOLEAN /\ MaxPairs \in Nat \ {0}

Pairs == 1 .. MaxPairs
NoPair == 0

VARIABLES creds,     \* the credentials file: [access, refresh]
          held,      \* held[b]: _oauthToken, its age is _oauthExpiry
          cooldown,  \* cooldown[b]: _refreshCooldownUntil lies ahead
          asking,    \* asking[c]: [stage, backend, read, bought]
          ages,      \* ages[t]: how close pair t is to its expiry
          sold,      \* how many pairs were issued
          accepted,  \* external: the refresh tokens the server accepts
          forgone    \* a new pair was bought and never reached the file

claudeVars == <<creds, held, cooldown, asking, ages, sold, accepted, forgone>>

Torn == [access |-> NoPair, refresh |-> NoPair]
NotAsking == [stage |-> "idle", backend |-> NoPair, read |-> Torn, bought |-> NoPair]

ClaudeInit ==
  /\ creds = [access |-> 1, refresh |-> 1]
  /\ held = [b \in ClaudeBackends |-> NoPair]
  /\ cooldown = [b \in ClaudeBackends |-> FALSE]
  /\ asking = [c \in ClaudeCalls |-> NotAsking]
  /\ ages = [t \in Pairs |-> "fresh"]
  /\ sold = 1
  /\ accepted = {1}
  /\ forgone = FALSE

-----------------------------------------------------------------------------
(* _getOAuthToken() *)

NotCached(b) == held[b] # NoPair => ages[held[b]] = "old"

\* The file's token serves as it is: fresh, or stale in a cooldown.  A cached
\* token that serves changes nothing; a torn file gives no headers.
AskCreds(c, b) ==
  /\ asking[c].stage = "idle"
  /\ NotCached(b)
  /\ creds # Torn
  /\ ages[creds.access] = "fresh" \/ cooldown[b]
  /\ held' = [held EXCEPT ![b] = creds.access]
  /\ UNCHANGED <<creds, cooldown, asking, ages, sold, accepted, forgone>>

\* A token in its last 5 minutes is refreshed with the refresh token just read;
\* another call may be doing the same.
AskRefresh(c, b) ==
  /\ asking[c].stage = "idle"
  /\ NotCached(b)
  /\ creds # Torn
  /\ ages[creds.access] # "fresh"
  /\ ~ cooldown[b]
  /\ asking' = [asking EXCEPT ![c] =
       [stage |-> "refreshing", backend |-> b, read |-> creds, bought |-> NoPair]]
  /\ UNCHANGED <<creds, held, cooldown, ages, sold, accepted, forgone>>

-----------------------------------------------------------------------------
(* The token endpoint, and _refreshOAuth() after its answer *)

Accepts(c) ==
  /\ asking[c].stage = "refreshing"
  /\ asking[c].read.refresh \in accepted
  /\ sold < MaxPairs
  /\ sold' = sold + 1
  /\ accepted' = IF Rotates THEN (accepted \ {asking[c].read.refresh}) \cup {sold + 1} ELSE accepted

ServerGrants(c) ==
  /\ Accepts(c)
  /\ asking' = [asking EXCEPT ![c].stage = "granted", ![c].bought = sold + 1]
  /\ UNCHANGED <<creds, held, cooldown, ages, forgone>>

\* Refused, or failed on the way there or back.
ServerRefuses(c) ==
  /\ asking[c].stage = "refreshing"
  /\ asking' = [asking EXCEPT ![c].stage = "refused"]
  /\ \/ Accepts(c) /\ forgone' = TRUE
     \/ UNCHANGED <<sold, accepted, forgone>>
  /\ UNCHANGED <<creds, held, cooldown, ages>>

\* The answer's refresh token, or the old one when it brings none.
RefreshAfter(c) == IF Rotates THEN asking[c].bought ELSE asking[c].read.refresh

\* The new pair is written over the file; the call returns it even when that
\* fails.
Granted(c) ==
  LET b == asking[c].backend IN
  /\ asking[c].stage = "granted"
  /\ \/ /\ creds' = [access |-> asking[c].bought, refresh |-> RefreshAfter(c)]
        /\ UNCHANGED forgone
     \/ UNCHANGED creds /\ forgone' = TRUE
  /\ held' = [held EXCEPT ![b] = asking[c].bought]
  /\ cooldown' = [cooldown EXCEPT ![b] = FALSE]
  /\ asking' = [asking EXCEPT ![c] = NotAsking]
  /\ UNCHANGED <<ages, sold, accepted>>

\* mutant: a failed refresh writes back what the call had read.
RestoreRead(c) == creds' = asking[c].read
\* A failed refresh leaves the file alone.
LeaveFile(c) == UNCHANGED creds

\* Ten minutes of cooldown with the token the call had read, which the backend
\* caches again even when another call has refreshed meanwhile.
Refused(c) ==
  LET b == asking[c].backend IN
  /\ asking[c].stage = "refused"
  /\ held' = [held EXCEPT ![b] = asking[c].read.access]
  /\ cooldown' = [cooldown EXCEPT ![b] = TRUE]
  /\ asking' = [asking EXCEPT ![c] = NotAsking]
  /\ LeaveFile(c)
  /\ UNCHANGED <<ages, sold, accepted, forgone>>

-----------------------------------------------------------------------------
(* Time, the Claude CLI, and the process *)

CooldownEnds(b) ==
  /\ cooldown[b]
  /\ cooldown' = [cooldown EXCEPT ![b] = FALSE]
  /\ UNCHANGED <<creds, held, asking, ages, sold, accepted, forgone>>

TokenAges(t) ==
  /\ t <= sold
  /\ ages[t] # "old"
  /\ ages' = [ages EXCEPT ![t] = IF @ = "fresh" THEN "due" ELSE "old"]
  /\ UNCHANGED <<creds, held, cooldown, asking, sold, accepted, forgone>>

\* Somebody logs in again: a new pair beside those the server knows.
LogsIn ==
  /\ sold < MaxPairs
  /\ sold' = sold + 1
  /\ accepted' = accepted \cup {sold + 1}
  /\ creds' = [access |-> sold + 1, refresh |-> sold + 1]
  /\ forgone' = FALSE
  /\ UNCHANGED <<held, cooldown, asking, ages>>

\* The gateway stops, or stops in the middle of overwriting the file.
Stops ==
  /\ \/ creds' = creds
     \/ creds' = Torn /\ \E c \in ClaudeCalls : asking[c].stage = "granted"
  /\ forgone' = (forgone \/ \E c \in ClaudeCalls : asking[c].stage = "granted")
  /\ held' = [b \in ClaudeBackends |-> NoPair]
  /\ cooldown' = [b \in ClaudeBackends |-> FALSE]
  /\ asking' = [c \in ClaudeCalls |-> NotAsking]
  /\ UNCHANGED <<ages, sold, accepted>>

ClaudeNext ==
  \/ \E c \in ClaudeCalls, b \in ClaudeBackends : AskCreds(c, b) \/ AskRefresh(c, b)
  \/ \E c \in ClaudeCalls : ServerGrants(c) \/ ServerRefuses(c) \/ Granted(c) \/ Refused(c)
  \/ \E b \in ClaudeBackends : CooldownEnds(b)
  \/ \E t \in Pairs : TokenAges(t)
  \/ LogsIn
  \/ Stops

ClaudeSpec == ClaudeInit /\ [][ClaudeNext]_claudeVars

-----------------------------------------------------------------------------

\* However many calls refresh at once, and whichever of them is refused, the
\* file keeps a refresh token the server accepts: unless the answer with its
\* replacement is still on its way to the file, or never got there.
ClaudeLoginSurvives ==
  \/ creds.refresh \in accepted
  \/ \E c \in ClaudeCalls : asking[c].stage = "granted"
  \/ forgone
=============================================================================
