------------------------------ MODULE KimiAuth ------------------------------
(***************************************************************************)
(* The shared Kimi login, class Backend and startKimiAuthKeepalive() of    *)
(* src/src/proxy/router.mjs.                                               *)
(*                                                                         *)
(* Several backends read one credentials file: a short-lived access token  *)
(* and the refresh token that buys the next pair.  Whoever finds the token *)
(* near its expiry refreshes it and writes the file; who comes meanwhile   *)
(* waits for the same refresh.  A keepalive asks every backend in turn, so *)
(* that this happens without traffic too.  Somebody may log in again at    *)
(* any time, which replaces the file from outside.                         *)
(*                                                                         *)
(* Token pairs are numbered in the order they are issued.  A pair carries  *)
(* a refresh token of its own, or the one it was bought with when the      *)
(* server does not rotate it.  The file's mtime stands for the pair in it. *)
(***************************************************************************)
EXTENDS Integers

CONSTANTS N,          \* the backends 1 to N use the file
          Requests,   \* calls of buildAuthHeaders() that may overlap
          Keepalive,  \* the call of the keepalive tick
          NoOne,
          MaxTokens   \* bound: how many pairs are ever issued

ASSUME KimiAssumption ==
  /\ N \in Nat \ {0}
  /\ MaxTokens \in Nat \ {0}
  /\ Keepalive \notin Requests
  /\ NoOne \notin Requests \cup {Keepalive}

Backends == 1 .. N
Callers == Requests \cup {Keepalive}
Tokens == 1 .. MaxTokens
NoToken == 0
Ages == {"fresh", "due", "expired"}   \* "due" within KIMI_REFRESH_BUFFER_MS

VARIABLES file,    \* the credentials file: [token, refresh]
          cache,   \* cache[b]: _kimiAuth and _kimiAuthMtime of a backend
          entry,   \* kimiRefreshes.get(filePath), by the call that set it
          flight,  \* flight[c]: the refresh c started
          call,    \* call[c]: [stage, backend, on, got]
          turn,    \* how many backends the tick has asked
          age,     \* age[t]: how close pair t is to its expiry
          issued,  \* how many pairs were issued
          valid,   \* external: the refresh tokens the server accepts
          lost     \* a new pair replaced the file's but never reached it

kimiVars == <<file, cache, entry, flight, call, turn, age, issued, valid, lost>>
outside == <<age, issued, valid>>

NoFlight == [stage |-> "none", refresh |-> NoToken, token |-> NoToken, next |-> NoToken]
Idle == [stage |-> "idle", backend |-> 0, on |-> NoOne, got |-> NoToken]

Init ==
  /\ file = [token |-> 1, refresh |-> 1]
  /\ cache = [b \in Backends |-> [token |-> NoToken, mtime |-> NoToken]]
  /\ entry = NoOne
  /\ flight = [c \in Callers |-> NoFlight]
  /\ call = [c \in Callers |-> Idle]
  /\ turn = 0
  /\ age = [t \in Tokens |-> "fresh"]
  /\ issued = 1
  /\ valid = {1}
  /\ lost = FALSE

\* Calls whose refresh has settled go on before anything else in the process.
Quiet == \A c \in Callers : call[c].stage # "resumed"

-----------------------------------------------------------------------------
(* _getKimiAuthHeaders() *)

\* A request asks any backend, the tick the next one.
Asks(c, b) ==
  /\ Quiet
  /\ call[c].stage = "idle"
  /\ c = Keepalive => b = turn + 1

\* The tick goes on, and starts again at the next interval, whatever it got.
TurnAfter(c, t) == IF c = Keepalive THEN (turn + 1) % N ELSE turn

\* The call returns token t, or no headers.
Return(c, t) ==
  /\ call' = [call EXCEPT ![c] = [Idle EXCEPT !.got = t]]
  /\ turn' = TurnAfter(c, t)

\* mutant: a cached token is trusted while the file does not change.
TrustedByMtime(b) == cache[b].token # NoToken /\ cache[b].mtime = file.token
\* The cached token serves while the file does not change and it is not due.
Trusted(b) ==
  /\ cache[b].token # NoToken
  /\ cache[b].mtime = file.token
  /\ age[cache[b].token] = "fresh"

AskCached(c, b) ==
  /\ Asks(c, b)
  /\ Trusted(b)
  /\ Return(c, cache[b].token)
  /\ UNCHANGED <<file, cache, entry, flight, outside, lost>>

AskFile(c, b) ==
  /\ Asks(c, b)
  /\ ~ Trusted(b)
  /\ age[file.token] = "fresh"
  /\ cache' = [cache EXCEPT ![b] = [token |-> file.token, mtime |-> file.token]]
  /\ Return(c, file.token)
  /\ UNCHANGED <<file, entry, flight, outside, lost>>

\* A refresh of this file is under way.
Running(b) == entry # NoOne

Waits(c, b, starter) ==
  call' = [call EXCEPT ![c] =
             [stage |-> "waiting", backend |-> b, on |-> starter, got |-> NoToken]]

NeedsRefresh(c, b) == Asks(c, b) /\ ~ Trusted(b) /\ age[file.token] # "fresh"

AskJoins(c, b) ==
  /\ NeedsRefresh(c, b)
  /\ Running(b)
  /\ Waits(c, b, entry)
  /\ UNCHANGED <<file, cache, entry, flight, turn, outside, lost>>

AskRefreshes(c, b) ==
  /\ NeedsRefresh(c, b)
  /\ ~ Running(b)
  /\ Waits(c, b, c)
  /\ entry' = c
  /\ flight' = [flight EXCEPT ![c] = [NoFlight EXCEPT !.stage = "sent", !.refresh = file.refresh]]
  /\ UNCHANGED <<file, cache, turn, outside, lost>>

\* The refresh that a call awaited has settled: the token is cached, under the
\* mtime the file has by now.
Resume(c) ==
  LET b == call[c].backend IN
  /\ call[c].stage = "resumed"
  /\ cache' = IF call[c].got = NoToken THEN cache
              ELSE [cache EXCEPT ![b] = [token |-> call[c].got, mtime |-> file.token]]
  /\ Return(c, call[c].got)
  /\ UNCHANGED <<file, entry, flight, outside, lost>>

-----------------------------------------------------------------------------
(* _refreshKimiOAuth(), and the server *)

\* The server issues a new pair for a refresh token it accepts.
ServerIssues(c) ==
  LET f == flight[c] t == issued + 1 IN
  /\ f.stage = "sent"
  /\ f.refresh \in valid
  /\ issued < MaxTokens
  /\ issued' = t
  /\ \E rotates \in BOOLEAN :
       /\ valid' = IF rotates THEN (valid \ {f.refresh}) \cup {t} ELSE valid
       /\ flight' = [flight EXCEPT ![c] = [stage |-> "issued", refresh |-> f.refresh, token |-> t,
                                            next |-> IF rotates THEN t ELSE NoToken]]
  /\ UNCHANGED <<file, cache, entry, call, turn, age, lost>>

\* The promise of the refresh c started settles, and its entry is deleted.
Settle(c, t) ==
  /\ flight' = [flight EXCEPT ![c] = NoFlight]
  /\ entry' = NoOne
  /\ call' = [d \in Callers |-> IF call[d].stage = "waiting" /\ call[d].on = c
                                THEN [call[d] EXCEPT !.stage = "resumed", !.got = t]
                                ELSE call[d]]

\* mutant: the file keeps the refresh token the pair was bought with.
KeptRefresh(f) == f.refresh
\* tokens.refresh_token || refreshToken
NextRefresh(f) == IF f.next = NoToken THEN f.refresh ELSE f.next

\* writeJsonAtomic() replaces the file by a rename; when the step after it fails
\* the token is not used.
Used(f) == {f.token, NoToken}

\* The answer is in time; expires_in may be shorter than the buffer.
RefreshStored(c) ==
  LET f == flight[c] IN
  /\ f.stage = "issued"
  /\ file' = [token |-> f.token, refresh |-> NextRefresh(f)]
  /\ age' \in {age, [age EXCEPT ![f.token] = "due"]}
  /\ \E t \in Used(f) : Settle(c, t)
  /\ UNCHANGED <<cache, turn, issued, valid, lost>>

\* AbortSignal.timeout() covers the request and the reading of its answer.
Runs(c) == flight[c].stage # "none"

\* Refused, timed out, malformed, or the temporary file could not be written: the
\* file is as it was.
RefreshFails(c) ==
  LET f == flight[c] IN
  /\ Runs(c)
  /\ Settle(c, NoToken)
  /\ lost' = (lost \/ (f.next # NoToken /\ file.refresh = f.refresh))
  /\ UNCHANGED <<file, cache, turn, outside>>

-----------------------------------------------------------------------------
(* What happens outside the process, and to it *)

\* Somebody logs in with the Kimi CLI; earlier logins stay as they are.
Login ==
  /\ issued < MaxTokens
  /\ issued' = issued + 1
  /\ valid' = valid \cup {issued'}
  /\ file' = [token |-> issued', refresh |-> issued']
  /\ lost' = FALSE
  /\ UNCHANGED <<cache, entry, flight, call, turn, age>>

Older(a) == IF a = "fresh" THEN "due" ELSE "expired"

\* The gateway counts from the answer that brought the token.
TimePasses(t) ==
  /\ Quiet
  /\ t = file.token \/ \E b \in Backends : cache[b].token = t
  /\ age[t] # "expired"
  /\ age' = [age EXCEPT ![t] = Older(@)]
  /\ UNCHANGED <<file, cache, entry, flight, call, turn, issued, valid, lost>>

\* The process ends and starts again; the file stays.
Stop ==
  /\ lost' = (lost \/ \E c \in Callers :
                        flight[c].next # NoToken /\ file.refresh = flight[c].refresh)
  /\ cache' = [b \in Backends |-> [token |-> NoToken, mtime |-> NoToken]]
  /\ entry' = NoOne
  /\ flight' = [c \in Callers |-> NoFlight]
  /\ call' = [c \in Callers |-> Idle]
  /\ turn' = 0
  /\ UNCHANGED <<file, outside>>

Ask(c, b) == AskCached(c, b) \/ AskFile(c, b) \/ AskJoins(c, b) \/ AskRefreshes(c, b)

Next ==
  \/ \E c \in Callers : \/ \E b \in Backends : Ask(c, b)
                        \/ Resume(c) \/ ServerIssues(c) \/ RefreshStored(c) \/ RefreshFails(c)
  \/ \E t \in Tokens : TimePasses(t)
  \/ Login
  \/ Stop

Spec == Init /\ [][Next]_kimiVars

-----------------------------------------------------------------------------
(* Properties *)

\* Every variable has its type.
TypeOK ==
  /\ file \in [token : Tokens, refresh : Tokens]
  /\ cache \in [Backends -> [token : Tokens \cup {NoToken}, mtime : Tokens \cup {NoToken}]]
  /\ entry \in Callers \cup {NoOne}
  /\ flight \in [Callers -> [stage : {"none", "sent", "issued"},
                             refresh : Tokens \cup {NoToken},
                             token : Tokens \cup {NoToken}, next : Tokens \cup {NoToken}]]
  /\ call \in [Callers -> [stage : {"idle", "waiting", "resumed"}, backend : 0 .. N,
                           on : Callers \cup {NoOne}, got : Tokens \cup {NoToken}]]
  /\ turn \in 0 .. N - 1
  /\ age \in [Tokens -> Ages]
  /\ issued \in Tokens
  /\ valid \subseteq Tokens
  /\ lost \in BOOLEAN

\* One refresh of the file at a time, for all its backends: the refresh token may
\* be good for one use only.  kimiRefreshes holds that refresh and nothing that
\* has ended, and every waiting call waits for it.
OneRefresh ==
  /\ \A c \in Callers : flight[c].stage # "none" <=> entry = c
  /\ \A c \in Callers : call[c].stage = "waiting" => entry # NoOne /\ call[c].on = entry

\* The gateway does not lose the login: the file holds a refresh token the server
\* accepts, through rotations, logins that come in during a refresh, and failures,
\* unless the answer with its replacement is still under way or was itself lost.
LoginSurvives ==
  \/ file.refresh \in valid
  \/ \E c \in Callers : flight[c].next # NoToken /\ flight[c].refresh = file.refresh
  \/ lost

\* No call is given a token that has expired, whichever of the cache, the file and
\* a refresh it comes from.
NoStaleHeader ==
  [][ \A c \in Callers :
        call'[c].stage = "idle" /\ call'[c] # call[c] =>
          call'[c].got = NoToken \/ age[call'[c].got] # "expired" ]_kimiVars
=============================================================================
