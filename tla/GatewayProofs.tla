--------------------------- MODULE GatewayProofs ---------------------------
(***************************************************************************)
(* Proofs about what the gateway keeps between requests: the two logins,   *)
(* the tool rounds of the standalone proxy, the energy ledger, what was    *)
(* measured of the models, the sessions and the catalog that is shown, for *)
(* every number of backends, calls, token pairs, conversations, meters,    *)
(* models, batteries, agents, visits, caps, doors and refreshes.           *)
(***************************************************************************)
EXTENDS KimiAuth, ClaudeAuth, ProxyCore, Sessions, EnergyMeter, ServedCatalog,
        CapabilityBattery, LineLemmas, FiniteSetTheorems

-----------------------------------------------------------------------------
(* The Kimi login *)

\* The types of the variables, as they are used below.
CallType == [stage : {"idle", "waiting", "resumed"}, backend : 0 .. N,
             on : Callers \cup {NoOne}, got : Tokens \cup {NoToken}]
FlightType == [stage : {"none", "sent", "issued"},
               refresh : Tokens \cup {NoToken},
               token : Tokens \cup {NoToken}, next : Tokens \cup {NoToken}]
CacheType == [token : Tokens \cup {NoToken}, mtime : Tokens \cup {NoToken}]

\* A pair is with a refresh only once it is issued, and its refresh token, or the
\* one it was bought with, is then one the server accepts.
FlightSound ==
  \A c \in Callers :
    /\ flight[c].stage = "issued" =>
         flight[c].token \in Tokens /\ NextRefresh(flight[c]) \in valid
    /\ flight[c].stage # "issued" => flight[c].next = NoToken

LoginInv == TypeOK /\ OneRefresh /\ FlightSound /\ LoginSurvives

\* The tick asks one of the backends next.
LEMMA TurnType ==
  ASSUME TypeOK, NEW c \in Callers, NEW t
  PROVE  TurnAfter(c, t) \in 0 .. N - 1
<1>1. N \in Nat /\ N > 0 /\ turn \in 0 .. N - 1
  BY KimiAssumption DEF TypeOK
<1>2. (turn + 1) % N \in 0 .. N - 1
  BY <1>1
<1>3. QED
  BY <1>1, <1>2 DEF TurnAfter

\* A call that returns is idle, with a token or without.
LEMMA ReturnType ==
  ASSUME TypeOK, NEW c \in Callers, NEW t \in Tokens \cup {NoToken}, Return(c, t)
  PROVE  /\ call' \in [Callers -> CallType]
         /\ turn' \in 0 .. N - 1
         /\ \A d \in Callers : call'[d].stage = "waiting" => d # c /\ call'[d] = call[d]
<1>1. call \in [Callers -> CallType]
  BY DEF TypeOK, CallType
<1>2. [Idle EXCEPT !.got = t] \in CallType /\ [Idle EXCEPT !.got = t].stage = "idle"
  BY KimiAssumption DEF Idle, CallType
<1>3. QED
  BY <1>1, <1>2, TurnType DEF Return

\* A call that waits, for itself or for another.
LEMMA WaitsType ==
  ASSUME TypeOK, NEW c \in Callers, NEW b \in Backends, NEW d \in Callers, Waits(c, b, d)
  PROVE  /\ call' \in [Callers -> CallType]
         /\ call'[c].stage = "waiting" /\ call'[c].on = d
         /\ \A e \in Callers : e # c => call'[e] = call[e]
<1>1. call \in [Callers -> CallType]
  BY DEF TypeOK, CallType
<1>2. b \in 0 .. N
  BY KimiAssumption DEF Backends
<1>3. QED
  BY <1>1, <1>2 DEF Waits, CallType

\* When a refresh settles nothing is under way and nobody waits.
LEMMA SettleFacts ==
  ASSUME TypeOK, OneRefresh, FlightSound, NEW c \in Callers, flight[c].stage # "none",
         NEW t \in Tokens \cup {NoToken}, Settle(c, t)
  PROVE  /\ call' \in [Callers -> CallType]
         /\ flight' \in [Callers -> FlightType]
         /\ entry' = NoOne
         /\ \A d \in Callers : flight'[d].stage = "none" /\ flight'[d].next = NoToken
         /\ \A d \in Callers : call'[d].stage # "waiting"
         /\ OneRefresh'
         /\ FlightSound'
<1>1. /\ call \in [Callers -> CallType]
      /\ flight \in [Callers -> FlightType]
  BY DEF TypeOK, CallType, FlightType
<1>2. NoFlight \in FlightType /\ NoFlight.stage = "none" /\ NoFlight.next = NoToken
  BY DEF NoFlight, FlightType
<1>3. flight' = [flight EXCEPT ![c] = NoFlight] /\ entry' = NoOne
  BY DEF Settle
<1>4. \A d \in Callers : flight[d].stage # "none" => d = c
  BY DEF OneRefresh
<1>5. \A d \in Callers : flight'[d].stage = "none" /\ flight'[d].next = NoToken
  BY <1>1, <1>2, <1>3, <1>4 DEF FlightSound
<1>6. call' = [d \in Callers |-> IF call[d].stage = "waiting" /\ call[d].on = c
                                 THEN [call[d] EXCEPT !.stage = "resumed", !.got = t]
                                 ELSE call[d]]
  BY DEF Settle
<1>7. \A d \in Callers : call[d].stage = "waiting" => call[d].on = c
  BY DEF OneRefresh
<1>8. \A d \in Callers : call'[d] \in CallType /\ call'[d].stage # "waiting"
  <2> TAKE d \in Callers
  <2>1. call[d] \in CallType
    BY <1>1
  <2>2. CASE call[d].stage = "waiting"
    BY <2>1, <2>2, <1>6, <1>7 DEF CallType
  <2>3. CASE call[d].stage # "waiting"
    BY <2>1, <2>3, <1>6
  <2>4. QED
    BY <2>2, <2>3
<1>9. call' \in [Callers -> CallType]
  BY <1>6, <1>8
<1>10. OneRefresh'
  BY <1>3, <1>5, <1>8, KimiAssumption DEF OneRefresh, Callers
<1>11. FlightSound'
  BY <1>5 DEF FlightSound
<1>12. QED
  BY <1>1, <1>2, <1>3, <1>5, <1>8, <1>9, <1>10, <1>11

-----------------------------------------------------------------------------
(* One lemma per action *)

\* A cached token, or the one of the file, is returned.
LEMMA ReturnKeeps ==
  ASSUME LoginInv, NEW c \in Callers, NEW t \in Tokens \cup {NoToken}, Return(c, t),
         cache' \in [Backends -> CacheType],
         UNCHANGED <<file, entry, flight, outside, lost>>
  PROVE  LoginInv'
<1>1. /\ call' \in [Callers -> CallType]
      /\ turn' \in 0 .. N - 1
      /\ \A d \in Callers : call'[d].stage = "waiting" => d # c /\ call'[d] = call[d]
  BY ReturnType DEF LoginInv
<1>2. TypeOK'
  BY <1>1 DEF LoginInv, TypeOK, CallType, CacheType, outside
<1>3. OneRefresh'
  BY <1>1 DEF LoginInv, OneRefresh
<1>4. FlightSound' /\ LoginSurvives'
  BY DEF LoginInv, FlightSound, LoginSurvives, outside
<1>5. QED
  BY <1>2, <1>3, <1>4 DEF LoginInv

LEMMA AskCachedKeeps ==
  ASSUME LoginInv, NEW c \in Callers, NEW b \in Backends, AskCached(c, b)
  PROVE  LoginInv'
<1>1. cache \in [Backends -> CacheType]
  BY DEF LoginInv, TypeOK, CacheType
<1>2. cache[b].token \in Tokens \cup {NoToken}
  BY <1>1 DEF CacheType
<1>3. QED
  BY <1>1, <1>2, ReturnKeeps DEF AskCached

LEMMA AskFileKeeps ==
  ASSUME LoginInv, NEW c \in Callers, NEW b \in Backends, AskFile(c, b)
  PROVE  LoginInv'
<1>1. cache \in [Backends -> CacheType] /\ file.token \in Tokens
  BY DEF LoginInv, TypeOK, CacheType
<1>2. cache' \in [Backends -> CacheType]
  BY <1>1 DEF AskFile, CacheType
<1>3. QED
  BY <1>1, <1>2, ReturnKeeps DEF AskFile

LEMMA ResumeKeeps ==
  ASSUME LoginInv, NEW c \in Callers, Resume(c)
  PROVE  LoginInv'
<1>1. /\ cache \in [Backends -> CacheType]
      /\ file.token \in Tokens
      /\ call[c].got \in Tokens \cup {NoToken}
  BY DEF LoginInv, TypeOK, CacheType
<1>2. cache' \in [Backends -> CacheType]
  BY <1>1 DEF Resume, CacheType
<1>3. QED
  BY <1>1, <1>2, ReturnKeeps DEF Resume

LEMMA AskJoinsKeeps ==
  ASSUME LoginInv, NEW c \in Callers, NEW b \in Backends, AskJoins(c, b)
  PROVE  LoginInv'
<1>1. /\ entry # NoOne
      /\ Waits(c, b, entry)
      /\ UNCHANGED <<file, cache, entry, flight, turn, outside, lost>>
  BY DEF AskJoins, Running
<1>2. entry \in Callers
  BY <1>1 DEF LoginInv, TypeOK
<1>3. /\ call' \in [Callers -> CallType]
      /\ call'[c].stage = "waiting" /\ call'[c].on = entry
      /\ \A d \in Callers : d # c => call'[d] = call[d]
  BY <1>1, <1>2, WaitsType DEF LoginInv
<1>4. TypeOK'
  BY <1>1, <1>3 DEF LoginInv, TypeOK, CallType, outside
<1>5. OneRefresh'
  BY <1>1, <1>3 DEF LoginInv, OneRefresh
<1>6. FlightSound' /\ LoginSurvives'
  BY <1>1 DEF LoginInv, FlightSound, LoginSurvives, outside
<1>7. QED
  BY <1>4, <1>5, <1>6 DEF LoginInv

LEMMA AskRefreshesKeeps ==
  ASSUME LoginInv, NEW c \in Callers, NEW b \in Backends, AskRefreshes(c, b)
  PROVE  LoginInv'
<1> DEFINE f == [NoFlight EXCEPT !.stage = "sent", !.refresh = file.refresh]
<1>1. /\ entry = NoOne
      /\ Waits(c, b, c)
      /\ entry' = c
      /\ flight' = [flight EXCEPT ![c] = f]
      /\ UNCHANGED <<file, cache, turn, outside, lost>>
  BY DEF AskRefreshes, Running
<1>2. f \in FlightType /\ f.stage = "sent" /\ f.next = NoToken
  BY DEF LoginInv, TypeOK, NoFlight, FlightType
<1> HIDE DEF f
<1>3. /\ call' \in [Callers -> CallType]
      /\ call'[c].stage = "waiting" /\ call'[c].on = c
      /\ \A d \in Callers : d # c => call'[d] = call[d]
  BY <1>1, WaitsType DEF LoginInv
<1>4. flight \in [Callers -> FlightType]
  BY DEF LoginInv, TypeOK, FlightType
<1>5. /\ flight' \in [Callers -> FlightType]
      /\ flight'[c] = f
      /\ \A d \in Callers : d # c => flight'[d] = flight[d]
  BY <1>1, <1>2, <1>4
<1>6. \A d \in Callers : flight[d].stage = "none" /\ d # NoOne /\ call[d].stage # "waiting"
  BY <1>1, KimiAssumption DEF LoginInv, OneRefresh, Callers
<1>7. TypeOK'
  BY <1>1, <1>3, <1>5 DEF LoginInv, TypeOK, CallType, FlightType, outside
<1>8. OneRefresh'
  BY <1>1, <1>2, <1>3, <1>5, <1>6 DEF OneRefresh
<1>9. FlightSound'
  BY <1>1, <1>2, <1>5, <1>6 DEF LoginInv, FlightSound
<1>10. file.refresh \in valid \/ lost
  BY <1>6 DEF LoginInv, LoginSurvives, FlightSound
<1>11. QED
  BY <1>1, <1>7, <1>8, <1>9, <1>10 DEF LoginInv, LoginSurvives, outside

\* The server takes back at most the refresh token that was sent to it.
LEMMA ServerIssuesKeeps ==
  ASSUME LoginInv, NEW c \in Callers, ServerIssues(c)
  PROVE  LoginInv'
<1> DEFINE r == flight[c].refresh
           t == issued + 1
           g(rotates) == [stage |-> "issued", refresh |-> r, token |-> t,
                          next |-> IF rotates THEN t ELSE NoToken]
<1>1. PICK rotates \in BOOLEAN :
        /\ valid' = IF rotates THEN (valid \ {r}) \cup {t} ELSE valid
        /\ flight' = [flight EXCEPT ![c] = g(rotates)]
  BY DEF ServerIssues
<1>2. /\ flight[c].stage = "sent"
      /\ r \in valid
      /\ issued' = t
      /\ UNCHANGED <<file, cache, entry, call, turn, age, lost>>
  BY DEF ServerIssues
<1>3. t \in Tokens /\ r \in Tokens /\ NoToken \notin Tokens
  BY <1>2, KimiAssumption DEF ServerIssues, LoginInv, TypeOK, Tokens, NoToken
<1>4. /\ g(rotates) \in FlightType
      /\ g(rotates).stage = "issued" /\ g(rotates).token = t /\ g(rotates).refresh = r
      /\ NextRefresh(g(rotates)) = IF rotates THEN t ELSE r
      /\ g(rotates).next = IF rotates THEN t ELSE NoToken
  BY <1>3 DEF FlightType, NextRefresh
<1> HIDE DEF g
<1>5. flight \in [Callers -> FlightType]
  BY DEF LoginInv, TypeOK, FlightType
<1>6. /\ flight' \in [Callers -> FlightType]
      /\ flight'[c] = g(rotates)
      /\ \A d \in Callers : d # c => flight'[d] = flight[d]
  BY <1>1, <1>4, <1>5
<1>7. \A d \in Callers : d # c => flight[d].stage = "none"
  BY <1>2 DEF LoginInv, OneRefresh
<1>8. TypeOK'
  BY <1>1, <1>2, <1>3, <1>6 DEF LoginInv, TypeOK, FlightType
<1>9. OneRefresh'
  BY <1>2, <1>4, <1>6 DEF LoginInv, OneRefresh
<1>10. FlightSound'
  BY <1>1, <1>2, <1>3, <1>4, <1>6, <1>7 DEF LoginInv, FlightSound
<1>11. LoginSurvives'
  <2>1. CASE lost
    BY <2>1, <1>2 DEF LoginSurvives
  <2>2. CASE file.refresh = r
    <3>1. CASE rotates
      BY <3>1, <2>2, <1>2, <1>3, <1>4, <1>6 DEF LoginSurvives
    <3>2. CASE ~ rotates
      BY <3>2, <2>2, <1>1, <1>2 DEF LoginSurvives
    <3>3. QED
      BY <3>1, <3>2
  <2>3. CASE file.refresh # r /\ ~ lost
    <3>1. \A d \in Callers : flight[d].next = NoToken
      BY <1>2, <1>7 DEF LoginInv, FlightSound
    <3>2. file.refresh \in valid
      BY <3>1, <2>3 DEF LoginInv, LoginSurvives
    <3>3. QED
      BY <3>2, <2>3, <1>1, <1>2 DEF LoginSurvives
  <2>4. QED
    BY <2>1, <2>2, <2>3
<1>12. QED
  BY <1>8, <1>9, <1>10, <1>11 DEF LoginInv

\* What reaches the file is what the server accepts.
LEMMA RefreshStoredKeeps ==
  ASSUME LoginInv, NEW c \in Callers, RefreshStored(c)
  PROVE  LoginInv'
<1> DEFINE f == flight[c]
<1>1. PICK t \in Used(f) : Settle(c, t)
  BY DEF RefreshStored
<1>2. /\ f.stage = "issued"
      /\ file' = [token |-> f.token, refresh |-> NextRefresh(f)]
      /\ age' \in {age, [age EXCEPT ![f.token] = "due"]}
      /\ UNCHANGED <<cache, turn, issued, valid, lost>>
  BY DEF RefreshStored
<1>3. f.token \in Tokens /\ NextRefresh(f) \in valid
  BY <1>2 DEF LoginInv, FlightSound
<1>4. t \in Tokens \cup {NoToken}
  BY <1>1, <1>3 DEF Used
<1> HIDE DEF f
<1>5. /\ call' \in [Callers -> CallType]
      /\ flight' \in [Callers -> FlightType]
      /\ entry' = NoOne
      /\ OneRefresh'
      /\ FlightSound'
  BY <1>1, <1>2, <1>4, SettleFacts DEF LoginInv, f
<1>6. file' \in [token : Tokens, refresh : Tokens]
  BY <1>2, <1>3 DEF LoginInv, TypeOK
<1>7. age' \in [Tokens -> Ages]
  BY <1>2, <1>3 DEF LoginInv, TypeOK, Ages
<1>8. TypeOK'
  BY <1>2, <1>5, <1>6, <1>7 DEF LoginInv, TypeOK, CallType, FlightType
<1>9. LoginSurvives'
  BY <1>2, <1>3 DEF LoginSurvives
<1>10. QED
  BY <1>5, <1>8, <1>9 DEF LoginInv

\* A refresh that fails loses the login only with an answer that is lost.
LEMMA RefreshFailsKeeps ==
  ASSUME LoginInv, NEW c \in Callers, RefreshFails(c)
  PROVE  LoginInv'
<1>1. /\ flight[c].stage # "none"
      /\ Settle(c, NoToken)
      /\ lost' = (lost \/ (flight[c].next # NoToken /\ file.refresh = flight[c].refresh))
      /\ UNCHANGED <<file, cache, turn, age, issued, valid>>
  BY DEF RefreshFails, Runs, outside
<1>2. /\ call' \in [Callers -> CallType]
      /\ flight' \in [Callers -> FlightType]
      /\ entry' = NoOne
      /\ OneRefresh'
      /\ FlightSound'
  BY <1>1, SettleFacts DEF LoginInv
<1>3. lost' \in BOOLEAN
  BY <1>1
<1>4. TypeOK'
  BY <1>1, <1>2, <1>3 DEF LoginInv, TypeOK, CallType, FlightType
<1>5. \A d \in Callers : d # c => flight[d].next = NoToken
  BY <1>1 DEF LoginInv, OneRefresh, FlightSound
<1>6. LoginSurvives'
  BY <1>1, <1>5 DEF LoginInv, LoginSurvives
<1>7. QED
  BY <1>2, <1>4, <1>6 DEF LoginInv

LEMMA LoginKeeps ==
  ASSUME LoginInv, Login
  PROVE  LoginInv'
<1>1. /\ issued' \in Tokens
      /\ valid' = valid \cup {issued'}
      /\ file' = [token |-> issued', refresh |-> issued']
      /\ lost' = FALSE
      /\ UNCHANGED <<cache, entry, flight, call, turn, age>>
  BY KimiAssumption DEF Login, LoginInv, TypeOK, Tokens
<1>2. TypeOK'
  BY <1>1 DEF LoginInv, TypeOK
<1>3. OneRefresh'
  BY <1>1 DEF LoginInv, OneRefresh
<1>4. FlightSound'
  BY <1>1 DEF LoginInv, FlightSound
<1>5. LoginSurvives'
  BY <1>1 DEF LoginSurvives
<1>6. QED
  BY <1>2, <1>3, <1>4, <1>5 DEF LoginInv

LEMMA TimePassesKeeps ==
  ASSUME LoginInv, NEW t \in Tokens, TimePasses(t)
  PROVE  LoginInv'
<1>1. /\ age' = [age EXCEPT ![t] = Older(@)]
      /\ UNCHANGED <<file, cache, entry, flight, call, turn, issued, valid, lost>>
  BY DEF TimePasses
<1>2. age' \in [Tokens -> Ages]
  BY <1>1 DEF LoginInv, TypeOK, Ages, Older
<1>3. TypeOK'
  BY <1>1, <1>2 DEF LoginInv, TypeOK
<1>4. OneRefresh' /\ FlightSound' /\ LoginSurvives'
  BY <1>1 DEF LoginInv, OneRefresh, FlightSound, LoginSurvives
<1>5. QED
  BY <1>3, <1>4 DEF LoginInv

\* The process ends: so does what it had under way, which may lose an answer.
LEMMA StopKeeps ==
  ASSUME LoginInv, Stop
  PROVE  LoginInv'
<1>1. /\ lost' = (lost \/ \E c \in Callers :
                    flight[c].next # NoToken /\ file.refresh = flight[c].refresh)
      /\ cache' = [b \in Backends |-> [token |-> NoToken, mtime |-> NoToken]]
      /\ entry' = NoOne
      /\ flight' = [c \in Callers |-> NoFlight]
      /\ call' = [c \in Callers |-> Idle]
      /\ turn' = 0
      /\ UNCHANGED <<file, age, issued, valid>>
  BY DEF Stop, outside
<1>2. /\ NoFlight \in FlightType /\ NoFlight.stage = "none" /\ NoFlight.next = NoToken
      /\ Idle \in CallType /\ Idle.stage = "idle"
      /\ 0 \in 0 .. N - 1
  BY KimiAssumption DEF NoFlight, FlightType, Idle, CallType
<1>3. lost' \in BOOLEAN
  BY <1>1
<1>4. TypeOK'
  BY <1>1, <1>2, <1>3 DEF LoginInv, TypeOK, CallType, FlightType
<1>5. OneRefresh'
  BY <1>1, <1>2, KimiAssumption DEF OneRefresh, Callers
<1>6. FlightSound'
  BY <1>1, <1>2 DEF FlightSound
<1>7. LoginSurvives'
  BY <1>1 DEF LoginInv, LoginSurvives
<1>8. QED
  BY <1>4, <1>5, <1>6, <1>7 DEF LoginInv

-----------------------------------------------------------------------------
(* The invariant *)

LEMMA LoginInit == Init => LoginInv
<1> SUFFICES ASSUME Init PROVE LoginInv
  OBVIOUS
<1>1. /\ 1 \in Tokens
      /\ NoFlight \in FlightType /\ NoFlight.stage = "none" /\ NoFlight.next = NoToken
      /\ Idle \in CallType /\ Idle.stage = "idle"
      /\ 0 \in 0 .. N - 1
      /\ \A c \in Callers : c # NoOne
  BY KimiAssumption DEF Tokens, NoFlight, FlightType, Idle, CallType, Callers
<1>2. TypeOK
  BY <1>1 DEF Init, TypeOK, CallType, FlightType, Ages
<1>3. OneRefresh /\ FlightSound /\ LoginSurvives
  BY <1>1 DEF Init, OneRefresh, FlightSound, LoginSurvives
<1>4. QED
  BY <1>2, <1>3 DEF LoginInv

LEMMA LoginStep == LoginInv /\ [Next]_kimiVars => LoginInv'
<1> SUFFICES ASSUME LoginInv, [Next]_kimiVars
             PROVE  LoginInv'
  OBVIOUS
<1>1. ASSUME NEW c \in Callers, NEW b \in Backends, Ask(c, b)
      PROVE  LoginInv'
  BY <1>1, AskCachedKeeps, AskFileKeeps, AskJoinsKeeps, AskRefreshesKeeps DEF Ask
<1>2. ASSUME NEW c \in Callers,
             Resume(c) \/ ServerIssues(c) \/ RefreshStored(c) \/ RefreshFails(c)
      PROVE  LoginInv'
  BY <1>2, ResumeKeeps, ServerIssuesKeeps, RefreshStoredKeeps, RefreshFailsKeeps
<1>3. ASSUME NEW t \in Tokens, TimePasses(t)
      PROVE  LoginInv'
  BY <1>3, TimePassesKeeps
<1>4. CASE UNCHANGED kimiVars
  BY <1>4 DEF kimiVars, LoginInv, TypeOK, OneRefresh, FlightSound, LoginSurvives
<1>5. QED
  BY <1>1, <1>2, <1>3, <1>4, LoginKeeps, StopKeeps DEF Next

\* The conjunction is an invariant of every behaviour of the login.
THEOREM LoginCorrect == Spec => []LoginInv
BY LoginInit, LoginStep, PTL DEF Spec

\* Every variable has its type.
THEOREM TypeCorrect == Spec => []TypeOK
<1>1. LoginInv => TypeOK
  BY DEF LoginInv
<1>2. QED
  BY LoginCorrect, <1>1, PTL

\* Whatever the number of backends and calls, the file is refreshed by one call at a
\* time, and everybody who waits waits for that one.
THEOREM RefreshIsShared == Spec => []OneRefresh
<1>1. LoginInv => OneRefresh
  BY DEF LoginInv
<1>2. QED
  BY LoginCorrect, <1>1, PTL

\* The gateway keeps the login through rotations, logins, failures and restarts,
\* unless an answer with a new refresh token is lost.
THEOREM LoginIsKept == Spec => []LoginSurvives
<1>1. LoginInv => LoginSurvives
  BY DEF LoginInv
<1>2. QED
  BY LoginCorrect, <1>1, PTL

-----------------------------------------------------------------------------
(* No call is given an expired token *)

\* A token that was not issued yet has not aged, and neither has one that is still
\* with its refresh; nobody else has that one.
NewIsFresh ==
  /\ \A t \in Tokens : t > issued => age[t] = "fresh"
  /\ file.token <= issued
  /\ \A b \in Backends : cache[b].token <= issued
  /\ \A c \in Callers : call[c].got <= issued
  /\ \A c \in Callers : flight[c].stage = "issued" =>
       /\ flight[c].token <= issued
       /\ age[flight[c].token] = "fresh"
       /\ file.token # flight[c].token
       /\ \A b \in Backends : cache[b].token # flight[c].token
       /\ \A d \in Callers : call[d].got # flight[c].token

\* A call that goes on has a token that was in time when its refresh settled.
ResumedInTime ==
  \A c \in Callers :
    call[c].stage = "resumed" /\ call[c].got # NoToken => age[call[c].got] # "expired"

AgeInv == NewIsFresh /\ ResumedInTime

\* What a step may do with a call that it ends.
EndedInTime ==
  \A c \in Callers :
    call'[c].stage = "idle" /\ call'[c] # call[c] =>
      call'[c].got = NoToken \/ age[call'[c].got] # "expired"

\* The types that the lemmas below use.
LEMMA AgeTypes ==
  ASSUME TypeOK, FlightSound
  PROVE  /\ issued \in Nat /\ Tokens \subseteq Nat
         /\ file.token \in Tokens
         /\ cache \in [Backends -> CacheType]
         /\ \A b \in Backends : cache[b].token \in Nat
         /\ call \in [Callers -> CallType]
         /\ \A c \in Callers : call[c].got \in Nat
         /\ flight \in [Callers -> FlightType]
         /\ \A c \in Callers : flight[c].stage = "issued" => flight[c].token \in Tokens
         /\ age \in [Tokens -> Ages]
         /\ NoToken = 0 /\ NoToken \notin Tokens
BY KimiAssumption DEF TypeOK, FlightSound, Tokens, NoToken, CacheType, CallType, FlightType

\* A call that returns a token that somebody has, and that has not expired.
LEMMA ReturnInTime ==
  ASSUME TypeOK, FlightSound, AgeInv, NEW c \in Callers, NEW t \in Tokens \cup {NoToken}, Return(c, t),
         t <= issued, t # NoToken => age[t] # "expired",
         \A d \in Callers : flight[d].stage = "issued" => flight[d].token # t,
         cache' = cache \/
           (\E b \in Backends, m \in Tokens :
              cache' = [cache EXCEPT ![b] = [token |-> t, mtime |-> m]]),
         UNCHANGED <<file, flight, age, issued>>
  PROVE  AgeInv' /\ EndedInTime
<1>1. /\ call \in [Callers -> CallType]
      /\ cache \in [Backends -> CacheType]
  BY AgeTypes
<1>2. /\ call'[c].stage = "idle" /\ call'[c].got = t
      /\ \A d \in Callers : d # c => call'[d] = call[d]
  BY <1>1 DEF Return, Idle
<1>3. \A b \in Backends : cache'[b].token \in {cache[b].token, t}
  BY <1>1
<1>4. NewIsFresh'
  BY <1>2, <1>3 DEF AgeInv, NewIsFresh
<1>5. ResumedInTime'
  BY <1>2 DEF AgeInv, ResumedInTime
<1>6. EndedInTime
  BY <1>2 DEF EndedInTime
<1>7. QED
  BY <1>4, <1>5, <1>6 DEF AgeInv

LEMMA AskInTime ==
  ASSUME TypeOK, FlightSound, AgeInv, NEW c \in Callers, NEW b \in Backends, Ask(c, b)
  PROVE  AgeInv' /\ EndedInTime
<1>1. CASE AskCached(c, b)
  <2>1. /\ cache[b].token \in Tokens \cup {NoToken}
        /\ cache[b].token <= issued
        /\ \A d \in Callers : flight[d].stage = "issued" => flight[d].token # cache[b].token
    BY AgeTypes DEF AgeInv, NewIsFresh, CacheType
  <2>2. age[cache[b].token] # "expired"
    BY <1>1 DEF AskCached, Trusted
  <2>3. QED
    BY <1>1, <2>1, <2>2, ReturnInTime DEF AskCached, outside
<1>2. CASE AskFile(c, b)
  <2>1. /\ file.token \in Tokens
        /\ file.token <= issued
        /\ \A d \in Callers : flight[d].stage = "issued" => flight[d].token # file.token
    BY AgeTypes DEF AgeInv, NewIsFresh
  <2>2. age[file.token] # "expired"
    BY <1>2 DEF AskFile
  <2>3. QED
    BY <1>2, <2>1, <2>2, ReturnInTime DEF AskFile, outside
<1>3. ASSUME NEW d, Waits(c, b, d), UNCHANGED <<file, cache, age, issued>>,
             flight' = flight \/
               (\E r : flight' = [flight EXCEPT ![c] =
                          [NoFlight EXCEPT !.stage = "sent", !.refresh = r]])
      PROVE  AgeInv' /\ EndedInTime
  <2>1. /\ call \in [Callers -> CallType]
        /\ flight \in [Callers -> FlightType]
    BY AgeTypes
  <2>2. /\ call'[c].stage = "waiting" /\ call'[c].got = NoToken
        /\ \A e \in Callers : e # c => call'[e] = call[e]
    BY <1>3, <2>1 DEF Waits
  <2>3. \A e \in Callers : flight'[e].stage = "issued" => flight'[e] = flight[e]
    BY <1>3, <2>1 DEF NoFlight
  <2>4. /\ NoToken <= issued
        /\ \A e \in Callers : flight[e].stage = "issued" => flight[e].token # NoToken
    BY AgeTypes
  <2>5. \A e \in Callers : call'[e].got \in {call[e].got, NoToken}
    BY <2>2
  <2>6. NewIsFresh'
    <3>1. /\ \A t \in Tokens : t > issued' => age'[t] = "fresh"
          /\ file'.token <= issued'
          /\ \A e \in Backends : cache'[e].token <= issued'
      BY <1>3 DEF AgeInv, NewIsFresh
    <3>2. \A e \in Callers : call'[e].got <= issued'
      BY <1>3, <2>4, <2>5 DEF AgeInv, NewIsFresh
    <3>3. ASSUME NEW e \in Callers, flight'[e].stage = "issued"
          PROVE  /\ flight'[e].token <= issued'
                 /\ age'[flight'[e].token] = "fresh"
                 /\ file'.token # flight'[e].token
                 /\ \A g \in Backends : cache'[g].token # flight'[e].token
                 /\ \A g \in Callers : call'[g].got # flight'[e].token
      <4>1. flight'[e] = flight[e]
        BY <3>3, <2>3
      <4>2. \A g \in Callers : call'[g].got # flight'[e].token
        BY <3>3, <4>1, <2>4, <2>5 DEF AgeInv, NewIsFresh
      <4>3. /\ flight[e].token <= issued /\ age[flight[e].token] = "fresh"
            /\ file.token # flight[e].token
            /\ \A g \in Backends : cache[g].token # flight[e].token
        BY <3>3, <4>1, <1>3 DEF AgeInv, NewIsFresh
      <4>4. QED
        BY <4>1, <4>2, <4>3, <1>3
    <3>4. QED
      BY <3>1, <3>2, <3>3 DEF NewIsFresh
  <2>7. ResumedInTime'
    BY <1>3, <2>2 DEF AgeInv, ResumedInTime
  <2>8. EndedInTime
    BY <2>2 DEF EndedInTime
  <2>9. QED
    BY <2>6, <2>7, <2>8 DEF AgeInv
<1>4. CASE AskJoins(c, b)
  BY <1>4, <1>3 DEF AskJoins, outside
<1>5. CASE AskRefreshes(c, b)
  BY <1>5, <1>3 DEF AskRefreshes, outside
<1>6. QED
  BY <1>1, <1>2, <1>4, <1>5 DEF Ask

LEMMA ResumeInTime ==
  ASSUME TypeOK, FlightSound, AgeInv, NEW c \in Callers, Resume(c)
  PROVE  AgeInv' /\ EndedInTime
<1> DEFINE t == call[c].got
<1>1. t \in Tokens \cup {NoToken} /\ file.token \in Tokens
  BY AgeTypes DEF CallType
<1>2. /\ t <= issued
      /\ t # NoToken => age[t] # "expired"
      /\ \A d \in Callers : flight[d].stage = "issued" => flight[d].token # t
  BY DEF Resume, AgeInv, NewIsFresh, ResumedInTime
<1>3. /\ Return(c, t)
      /\ cache' = IF t = NoToken THEN cache
                  ELSE [cache EXCEPT ![call[c].backend] = [token |-> t, mtime |-> file.token]]
      /\ UNCHANGED <<file, flight, age, issued>>
  BY DEF Resume, outside
<1>4. \/ cache' = cache
      \/ \E b \in Backends, m \in Tokens : cache' = [cache EXCEPT ![b] = [token |-> t, mtime |-> m]]
  <2>1. CASE t = NoToken \/ call[c].backend \notin Backends
    BY <2>1, <1>3, AgeTypes
  <2>2. CASE t # NoToken /\ call[c].backend \in Backends
    BY <2>2, <1>1, <1>3
  <2>3. QED
    BY <2>1, <2>2
<1>5. QED
  BY <1>1, <1>2, <1>3, <1>4, ReturnInTime

\* The pair that is issued is newer than any that somebody has.
LEMMA ServerIssuesInTime ==
  ASSUME TypeOK, FlightSound, AgeInv, OneRefresh, NEW c \in Callers, ServerIssues(c)
  PROVE  AgeInv' /\ EndedInTime
<1> DEFINE t == issued + 1
<1>1. /\ issued' = t
      /\ t \in Tokens
      /\ UNCHANGED <<file, cache, call, age>>
  <2>1. /\ issued' = t
        /\ issued < MaxTokens
        /\ UNCHANGED <<file, cache, call, age>>
    BY DEF ServerIssues
  <2>2. issued \in 1 .. MaxTokens
    BY DEF TypeOK, Tokens
  <2>3. QED
    BY <2>1, <2>2, KimiAssumption DEF Tokens
<1>2. PICK n : flight' = [flight EXCEPT ![c] = [stage |-> "issued", refresh |-> flight[c].refresh,
                                                token |-> t, next |-> n]]
  BY DEF ServerIssues
<1>3. /\ flight'[c].token = t
      /\ \A d \in Callers : d # c => flight'[d].stage # "issued"
  BY <1>2, AgeTypes DEF ServerIssues, OneRefresh
<1>4. age[t] = "fresh"
  BY <1>1, AgeTypes DEF AgeInv, NewIsFresh
<1> HIDE DEF t
<1>5. issued \in Nat /\ t = issued + 1
  BY AgeTypes DEF t
<1>6. NewIsFresh'
  <2>1. \A e \in Tokens : e > issued' => age'[e] = "fresh"
    BY <1>1, <1>5, AgeTypes DEF AgeInv, NewIsFresh
  <2>2. /\ file.token <= issued
        /\ \A b \in Backends : cache[b].token <= issued
        /\ \A d \in Callers : call[d].got <= issued
    BY DEF AgeInv, NewIsFresh
  <2>3. /\ file'.token <= issued' /\ file'.token # t
        /\ \A b \in Backends : cache'[b].token <= issued' /\ cache'[b].token # t
        /\ \A d \in Callers : call'[d].got <= issued' /\ call'[d].got # t
    <3>1. /\ file.token \in Nat
          /\ \A b \in Backends : cache[b].token \in Nat
          /\ \A d \in Callers : call[d].got \in Nat
      BY AgeTypes
    <3>2. \A e \in Nat : e <= issued => e <= issued' /\ e # t
      BY <1>1, <1>5
    <3>3. file' = file /\ cache' = cache /\ call' = call
      BY <1>1
    <3>4. QED
      BY <2>2, <3>1, <3>2, <3>3
  <2>4. t <= issued' /\ age'[t] = "fresh"
    BY <1>1, <1>4, <1>5
  <2>5. QED
    BY <1>3, <2>1, <2>3, <2>4 DEF NewIsFresh
<1>7. ResumedInTime' /\ EndedInTime
  BY <1>1 DEF AgeInv, ResumedInTime, EndedInTime
<1>8. QED
  BY <1>6, <1>7 DEF AgeInv

\* A refresh that settles ends no call; its token is due at most.
LEMMA SettleInTime ==
  ASSUME TypeOK, FlightSound, OneRefresh, NEW c \in Callers, flight[c].stage # "none",
         NEW t \in Tokens \cup {NoToken}, Settle(c, t)
  PROVE  /\ EndedInTime
         /\ \A d \in Callers : call'[d].got \in {call[d].got, t}
         /\ \A d \in Callers : call'[d].stage = "resumed" =>
              call'[d].got = t \/ (call[d].stage = "resumed" /\ call'[d].got = call[d].got)
         /\ \A d \in Callers : flight'[d].stage # "issued"
<1>1. call \in [Callers -> CallType]
  BY AgeTypes
<1>2. call' = [d \in Callers |-> IF call[d].stage = "waiting" /\ call[d].on = c
                                 THEN [call[d] EXCEPT !.stage = "resumed", !.got = t]
                                 ELSE call[d]]
  BY DEF Settle
<1>3. ASSUME NEW d \in Callers
      PROVE  \/ call'[d] = call[d]
             \/ call'[d].stage = "resumed" /\ call'[d].got = t
  <2>1. call[d] \in CallType
    BY <1>1
  <2>2. QED
    BY <1>2, <2>1 DEF CallType
<1>4. \A d \in Callers : flight'[d].stage = "none"
  BY SettleFacts
<1>5. QED
  BY <1>3, <1>4 DEF EndedInTime

LEMMA RefreshStoredInTime ==
  ASSUME TypeOK, FlightSound, AgeInv, OneRefresh, NEW c \in Callers, RefreshStored(c)
  PROVE  AgeInv' /\ EndedInTime
<1> DEFINE k == flight[c].token
<1>1. PICK t \in {k, NoToken} : Settle(c, t)
  BY DEF RefreshStored, Used
<1>2. /\ flight[c].stage = "issued"
      /\ file'.token = k
      /\ age' \in {age, [age EXCEPT ![k] = "due"]}
      /\ UNCHANGED <<cache, issued>>
  BY DEF RefreshStored
<1>3. /\ k \in Tokens
      /\ k <= issued
      /\ age[k] = "fresh"
      /\ t \in Tokens \cup {NoToken}
  BY <1>2, AgeTypes DEF AgeInv, NewIsFresh
<1>4. /\ EndedInTime
      /\ \A d \in Callers : call'[d].got \in {call[d].got, t}
      /\ \A d \in Callers : call'[d].stage = "resumed" =>
           call'[d].got = t \/ (call[d].stage = "resumed" /\ call'[d].got = call[d].got)
      /\ \A d \in Callers : flight'[d].stage # "issued"
  BY <1>1, <1>2, <1>3, SettleInTime
<1>5. /\ \A e \in Tokens : e # k => age'[e] = age[e]
      /\ age'[k] \in {"fresh", "due"}
      /\ age \in [Tokens -> Ages]
  BY <1>2, <1>3, AgeTypes
<1> HIDE DEF k
<1>6. NoToken <= issued
  BY AgeTypes
<1>7. NewIsFresh'
  <2>1. \A e \in Tokens : e > issued' => age'[e] = "fresh"
    BY <1>2, <1>3, <1>5, AgeTypes DEF AgeInv, NewIsFresh
  <2>2. \A d \in Callers : call'[d].got <= issued'
    BY <1>1, <1>2, <1>3, <1>4, <1>6 DEF AgeInv, NewIsFresh
  <2>3. file'.token <= issued' /\ \A b \in Backends : cache'[b].token <= issued'
    BY <1>2, <1>3 DEF AgeInv, NewIsFresh
  <2>4. QED
    BY <1>4, <2>1, <2>2, <2>3 DEF NewIsFresh
<1>8. ResumedInTime'
  <2>1. ASSUME NEW d \in Callers, call'[d].stage = "resumed", call'[d].got # NoToken
        PROVE  age'[call'[d].got] # "expired"
    <3>1. CASE call'[d].got = k
      BY <3>1, <1>5
    <3>2. CASE call'[d].got # k
      <4>1. /\ call[d].stage = "resumed"
            /\ call'[d].got = call[d].got
            /\ call[d].got \in Tokens
        BY <3>2, <2>1, <1>1, <1>4, AgeTypes DEF CallType
      <4>2. age[call[d].got] # "expired"
        BY <4>1, <2>1 DEF AgeInv, ResumedInTime
      <4>3. QED
        BY <4>1, <4>2, <3>2, <1>5
    <3>3. QED
      BY <3>1, <3>2
  <2>2. QED
    BY <2>1 DEF ResumedInTime
<1>9. QED
  BY <1>4, <1>7, <1>8 DEF AgeInv

LEMMA RefreshFailsInTime ==
  ASSUME TypeOK, FlightSound, AgeInv, OneRefresh, NEW c \in Callers, RefreshFails(c)
  PROVE  AgeInv' /\ EndedInTime
<1>1. /\ flight[c].stage # "none"
      /\ Settle(c, NoToken)
      /\ UNCHANGED <<file, cache, age, issued>>
  BY DEF RefreshFails, Runs, outside
<1>2. /\ EndedInTime
      /\ \A d \in Callers : call'[d].got \in {call[d].got, NoToken}
      /\ \A d \in Callers : call'[d].stage = "resumed" =>
           call'[d].got = NoToken \/ (call[d].stage = "resumed" /\ call'[d].got = call[d].got)
      /\ \A d \in Callers : flight'[d].stage # "issued"
  BY <1>1, SettleInTime
<1>3. NoToken <= issued
  BY AgeTypes
<1>4. NewIsFresh'
  BY <1>1, <1>2, <1>3 DEF AgeInv, NewIsFresh
<1>5. ResumedInTime'
  BY <1>1, <1>2 DEF AgeInv, ResumedInTime
<1>6. QED
  BY <1>2, <1>4, <1>5 DEF AgeInv

LEMMA LoginInTime ==
  ASSUME TypeOK, FlightSound, AgeInv, Login
  PROVE  AgeInv' /\ EndedInTime
<1>1. /\ issued' = issued + 1
      /\ file'.token = issued'
      /\ UNCHANGED <<cache, flight, call, age>>
  BY DEF Login
<1>2. NewIsFresh'
  <2>1. issued \in Nat /\ issued' \in Nat
    BY <1>1, AgeTypes
  <2>2. \A e \in Tokens : e > issued' => age'[e] = "fresh"
    BY <1>1, <2>1, AgeTypes DEF AgeInv, NewIsFresh
  <2>3. /\ \A b \in Backends : cache[b].token <= issued'
        /\ \A d \in Callers : call[d].got <= issued'
        /\ \A d \in Callers : flight[d].stage = "issued" =>
             flight[d].token <= issued' /\ issued' # flight[d].token
    BY <1>1, <2>1, AgeTypes DEF AgeInv, NewIsFresh
  <2>4. QED
    BY <1>1, <2>1, <2>2, <2>3 DEF AgeInv, NewIsFresh
<1>3. ResumedInTime' /\ EndedInTime
  BY <1>1 DEF AgeInv, ResumedInTime, EndedInTime
<1>4. QED
  BY <1>2, <1>3 DEF AgeInv

\* Time passes for a pair that somebody has, and never while a call is about to go
\* on with one.
LEMMA TimePassesInTime ==
  ASSUME TypeOK, FlightSound, AgeInv, NEW t \in Tokens, TimePasses(t)
  PROVE  AgeInv' /\ EndedInTime
<1>1. /\ \A e \in Tokens : e # t => age'[e] = age[e]
      /\ UNCHANGED <<file, cache, flight, call, issued>>
      /\ t = file.token \/ \E b \in Backends : cache[b].token = t
      /\ \A d \in Callers : call[d].stage # "resumed"
  BY AgeTypes DEF TimePasses, Quiet
<1>2. /\ t <= issued
      /\ \A d \in Callers : flight[d].stage = "issued" => flight[d].token # t
  BY <1>1 DEF AgeInv, NewIsFresh
<1>3. NewIsFresh'
  <2>1. \A e \in Tokens : e > issued' => age'[e] = "fresh"
    BY <1>1, <1>2, AgeTypes DEF AgeInv, NewIsFresh
  <2>2. \A d \in Callers : flight[d].stage = "issued" => age'[flight[d].token] = "fresh"
    BY <1>1, <1>2, AgeTypes DEF AgeInv, NewIsFresh
  <2>3. QED
    BY <1>1, <2>1, <2>2 DEF AgeInv, NewIsFresh
<1>4. ResumedInTime' /\ EndedInTime
  BY <1>1 DEF ResumedInTime, EndedInTime
<1>5. QED
  BY <1>3, <1>4 DEF AgeInv

LEMMA StopInTime ==
  ASSUME TypeOK, FlightSound, AgeInv, Stop
  PROVE  AgeInv' /\ EndedInTime
<1>1. /\ \A b \in Backends : cache'[b].token = NoToken
      /\ \A c \in Callers : flight'[c].stage = "none"
      /\ \A c \in Callers : call'[c].stage = "idle" /\ call'[c].got = NoToken
      /\ UNCHANGED <<file, age, issued>>
  BY DEF Stop, NoFlight, Idle, outside
<1>2. NoToken <= issued
  BY AgeTypes
<1>3. QED
  BY <1>1, <1>2 DEF AgeInv, NewIsFresh, ResumedInTime, EndedInTime

LEMMA AgeInit == Init => AgeInv
<1>1. 1 \in Tokens /\ NoToken = 0
  BY KimiAssumption DEF Tokens, NoToken
<1>2. QED
  BY <1>1 DEF Init, AgeInv, NewIsFresh, ResumedInTime, NoFlight, Idle, Tokens

LEMMA AgeStep == LoginInv /\ AgeInv /\ [Next]_kimiVars => AgeInv' /\ [EndedInTime]_kimiVars
<1> SUFFICES ASSUME LoginInv, AgeInv, [Next]_kimiVars
             PROVE  AgeInv' /\ [EndedInTime]_kimiVars
  OBVIOUS
<1> TypeOK /\ FlightSound /\ OneRefresh
  BY DEF LoginInv
<1>1. ASSUME NEW c \in Callers, NEW b \in Backends, Ask(c, b)
      PROVE  AgeInv' /\ EndedInTime
  BY <1>1, AskInTime
<1>2. ASSUME NEW c \in Callers,
             Resume(c) \/ ServerIssues(c) \/ RefreshStored(c) \/ RefreshFails(c)
      PROVE  AgeInv' /\ EndedInTime
  BY <1>2, ResumeInTime, ServerIssuesInTime, RefreshStoredInTime, RefreshFailsInTime
<1>3. ASSUME NEW t \in Tokens, TimePasses(t)
      PROVE  AgeInv' /\ EndedInTime
  BY <1>3, TimePassesInTime
<1>4. CASE UNCHANGED kimiVars
  BY <1>4 DEF kimiVars, AgeInv, NewIsFresh, ResumedInTime
<1>5. QED
  BY <1>1, <1>2, <1>3, <1>4, LoginInTime, StopInTime DEF Next

\* No call returns a token that has expired, whether it comes from the cache, from
\* the file or from a refresh it waited for.
THEOREM HeadersAreInTime == Spec => NoStaleHeader
<1>1. Spec => [][EndedInTime]_kimiVars
  BY AgeInit, AgeStep, LoginCorrect, PTL DEF Spec
<1>2. QED
  BY <1>1 DEF NoStaleHeader, EndedInTime

-----------------------------------------------------------------------------
(* The Claude login *)

PairOnFile == [access : Nat, refresh : Nat]
AskingType ==
  [stage : {"idle", "refreshing", "granted", "refused"}, backend : ClaudeBackends \cup {NoPair},
   read : PairOnFile, bought : Nat]

ClaudeTypes ==
  /\ creds \in PairOnFile
  /\ asking \in [ClaudeCalls -> AskingType]
  /\ sold \in Nat
  /\ forgone \in BOOLEAN

\* Nobody knows a pair that was not issued yet.
NoneFromTheFuture ==
  /\ creds.refresh <= sold
  /\ \A c \in ClaudeCalls : asking[c].read.refresh <= sold /\ asking[c].bought <= sold

\* What a granted call is about to write is accepted, and where the server rotates
\* nobody but that call knows it.
OnItsWay(c) ==
  asking[c].stage = "granted" =>
    /\ asking[c].bought # NoPair
    /\ RefreshAfter(c) \in accepted
    /\ Rotates =>
         /\ creds.refresh # asking[c].bought
         /\ \A d \in ClaudeCalls :
              /\ asking[d].read.refresh # asking[c].bought
              /\ d # c => asking[d].bought # asking[c].bought

ClaudeInv ==
  ClaudeTypes /\ NoneFromTheFuture /\ (\A c \in ClaudeCalls : OnItsWay(c)) /\ ClaudeLoginSurvives

LEMMA IdleFacts ==
  /\ NotAsking \in AskingType /\ Torn \in PairOnFile
  /\ NotAsking.stage = "idle" /\ NotAsking.read.refresh = 0 /\ NotAsking.bought = 0
BY DEF NotAsking, Torn, AskingType, PairOnFile, NoPair

LEMMA ClaudeStarts == ClaudeInit => ClaudeInv
<1> SUFFICES ASSUME ClaudeInit PROVE ClaudeInv
  OBVIOUS
<1> USE DEF ClaudeInit
<1>1. ClaudeTypes
  BY IdleFacts DEF ClaudeTypes, PairOnFile
<1>2. NoneFromTheFuture
  BY IdleFacts DEF NoneFromTheFuture
<1>3. \A c \in ClaudeCalls : OnItsWay(c)
  BY IdleFacts DEF OnItsWay
<1>4. ClaudeLoginSurvives
  BY DEF ClaudeLoginSurvives
<1>5. QED
  BY <1>1, <1>2, <1>3, <1>4 DEF ClaudeInv

\* A step after which every call is as it was, or idle, and the file, the server and
\* what was lost are as they were.
LEMMA QuietStep ==
  ASSUME ClaudeInv, UNCHANGED <<creds, sold, accepted, forgone>>,
         asking' \in [ClaudeCalls -> AskingType],
         \A c \in ClaudeCalls :
           \/ asking'[c] = asking[c]
           \/ /\ asking[c].stage # "granted" /\ asking'[c].stage # "granted"
              /\ asking'[c].read.refresh \in {0, creds.refresh, asking[c].read.refresh}
              /\ asking'[c].bought \in {0, asking[c].bought}
  PROVE  ClaudeInv'
<1> USE DEF ClaudeInv
<1>1. ClaudeTypes'
  BY DEF ClaudeTypes
<1>2. sold \in Nat /\ \A c \in ClaudeCalls : asking[c].bought \in Nat /\ asking[c].read.refresh \in Nat
  BY DEF ClaudeTypes, AskingType, PairOnFile
<1>3. NoneFromTheFuture'
  BY <1>2 DEF NoneFromTheFuture
<1>4. ASSUME NEW c \in ClaudeCalls PROVE OnItsWay(c)'
  <2>1. SUFFICES ASSUME asking'[c].stage = "granted" PROVE OnItsWay(c)'
    BY DEF OnItsWay
  <2>2. asking'[c] = asking[c] /\ OnItsWay(c)
    BY <2>1
  <2>3. asking[c].bought # 0
    BY <2>1, <2>2 DEF OnItsWay, NoPair
  <2>4. QED
    BY <2>1, <2>2, <2>3 DEF OnItsWay, RefreshAfter
<1>5. ClaudeLoginSurvives'
  BY DEF ClaudeLoginSurvives
<1>6. QED
  BY <1>1, <1>3, <1>4, <1>5

\* The server takes a refresh token and issues the next pair.
LEMMA SoldFacts ==
  ASSUME ClaudeInv, NEW c \in ClaudeCalls, Accepts(c)
  PROVE  /\ asking[c].stage = "refreshing" /\ asking[c].read.refresh \in accepted
         /\ sold' = sold + 1 /\ sold + 1 \in Nat /\ sold + 1 # 0
         /\ accepted' = IF Rotates THEN (accepted \ {asking[c].read.refresh}) \cup {sold + 1} ELSE accepted
         /\ creds.refresh # sold + 1
         /\ \A d \in ClaudeCalls : asking[d].read.refresh # sold + 1 /\ asking[d].bought # sold + 1
<1>1. /\ sold \in Nat /\ creds.refresh \in Nat
      /\ \A d \in ClaudeCalls : asking[d].bought \in Nat /\ asking[d].read.refresh \in Nat
  BY DEF ClaudeInv, ClaudeTypes, AskingType, PairOnFile
<1>2. QED
  BY <1>1 DEF Accepts, ClaudeInv, NoneFromTheFuture

LEMMA GrantsStep ==
  ASSUME ClaudeInv, NEW c \in ClaudeCalls, ServerGrants(c)
  PROVE  ClaudeInv'
<1> DEFINE next == [asking[c] EXCEPT !.stage = "granted", !.bought = sold + 1]
<1>1. Accepts(c) /\ UNCHANGED <<creds, forgone>>
  BY DEF ServerGrants
<1>2. asking[c] \in AskingType /\ asking \in [ClaudeCalls -> AskingType]
  BY DEF ClaudeInv, ClaudeTypes
<1>3. /\ next \in AskingType /\ next.stage = "granted" /\ next.bought = sold + 1
      /\ next.read = asking[c].read
  BY <1>1, <1>2, SoldFacts DEF AskingType
<1>4. asking' = [asking EXCEPT ![c] = next]
  BY <1>2 DEF ServerGrants
<1> HIDE DEF next
<1>5. \A d \in ClaudeCalls : asking'[d] = IF d = c THEN next ELSE asking[d]
  BY <1>2, <1>4
<1>6. ClaudeTypes'
  BY <1>1, <1>3, <1>4, SoldFacts DEF ClaudeTypes, ClaudeInv
<1>7. NoneFromTheFuture'
  <2>1. /\ sold \in Nat /\ creds.refresh \in Nat
        /\ \A d \in ClaudeCalls : asking[d].bought \in Nat /\ asking[d].read.refresh \in Nat
    BY DEF ClaudeInv, ClaudeTypes, AskingType, PairOnFile
  <2>2. QED
    BY <2>1, <1>1, <1>3, <1>5, SoldFacts DEF NoneFromTheFuture, ClaudeInv
<1>8. ASSUME NEW d \in ClaudeCalls PROVE OnItsWay(d)'
  <2>1. CASE d = c
    <3>1. RefreshAfter(c)' = IF Rotates THEN sold + 1 ELSE asking[c].read.refresh
      BY <1>3, <1>5 DEF RefreshAfter
    <3>2. RefreshAfter(c)' \in accepted'
      BY <1>1, <3>1, SoldFacts
    <3>3. asking'[c].bought # NoPair /\ creds'.refresh # asking'[c].bought
      BY <1>1, <1>3, <1>5, SoldFacts DEF NoPair
    <3>4. ASSUME NEW e \in ClaudeCalls
          PROVE  /\ asking'[e].read.refresh # asking'[c].bought
                 /\ e # c => asking'[e].bought # asking'[c].bought
      BY <1>1, <1>3, <1>5, SoldFacts
    <3>5. QED
      BY <2>1, <3>2, <3>3, <3>4 DEF OnItsWay
  <2>2. CASE d # c
    <3>1. SUFFICES ASSUME asking[d].stage = "granted" PROVE OnItsWay(d)'
      BY <1>5, <2>2 DEF OnItsWay
    <3>2. OnItsWay(d) /\ asking'[d] = asking[d]
      BY <1>5, <2>2 DEF ClaudeInv
    <3>3. RefreshAfter(d) \in accepted'
      BY <1>1, <3>1, <3>2, SoldFacts DEF OnItsWay, RefreshAfter
    <3>4. RefreshAfter(d)' = RefreshAfter(d)
      BY <3>2 DEF RefreshAfter
    <3>5. \A e \in ClaudeCalls :
            Rotates => /\ asking'[e].read.refresh # asking[d].bought
                       /\ e # d => asking'[e].bought # asking[d].bought
      BY <1>1, <1>3, <1>5, <2>2, <3>1, <3>2, SoldFacts DEF OnItsWay
    <3>6. QED
      BY <1>1, <3>1, <3>2, <3>3, <3>4, <3>5 DEF OnItsWay
  <2>3. QED
    BY <2>1, <2>2
<1>9. ClaudeLoginSurvives'
  BY <1>3, <1>5 DEF ClaudeLoginSurvives
<1>10. QED
  BY <1>6, <1>7, <1>8, <1>9 DEF ClaudeInv

\* Whatever happens to the answer on the way back, it is lost.
LEMMA RefusesStep ==
  ASSUME ClaudeInv, NEW c \in ClaudeCalls, ServerRefuses(c)
  PROVE  ClaudeInv'
<1> DEFINE next == [asking[c] EXCEPT !.stage = "refused"]
<1>1. asking[c] \in AskingType /\ asking \in [ClaudeCalls -> AskingType]
  BY DEF ClaudeInv, ClaudeTypes
<1>2. /\ next \in AskingType /\ next.stage = "refused" /\ next.bought = asking[c].bought
      /\ next.read = asking[c].read
  BY <1>1 DEF AskingType
<1>3. asking' = [asking EXCEPT ![c] = next] /\ creds' = creds /\ asking[c].stage = "refreshing"
  BY <1>1 DEF ServerRefuses
<1> HIDE DEF next
<1>4. \A d \in ClaudeCalls : asking'[d] = IF d = c THEN next ELSE asking[d]
  BY <1>1, <1>3
<1>5. asking' \in [ClaudeCalls -> AskingType]
  BY <1>1, <1>2, <1>3
<1>6. CASE UNCHANGED <<sold, accepted, forgone>>
  BY <1>2, <1>3, <1>4, <1>5, <1>6, QuietStep
<1>7. CASE Accepts(c) /\ forgone' = TRUE
  <2>1. ClaudeTypes'
    BY <1>3, <1>5, <1>7, SoldFacts DEF ClaudeTypes, ClaudeInv
  <2>2. NoneFromTheFuture'
    <3>1. /\ sold \in Nat /\ creds.refresh \in Nat
          /\ \A d \in ClaudeCalls : asking[d].bought \in Nat /\ asking[d].read.refresh \in Nat
      BY DEF ClaudeInv, ClaudeTypes, AskingType, PairOnFile
    <3>2. QED
      BY <3>1, <1>2, <1>3, <1>4, <1>7, SoldFacts DEF NoneFromTheFuture, ClaudeInv
  <2>3. ASSUME NEW d \in ClaudeCalls PROVE OnItsWay(d)'
    <3>1. SUFFICES ASSUME asking[d].stage = "granted", d # c PROVE OnItsWay(d)'
      BY <1>2, <1>4 DEF OnItsWay
    <3>2. OnItsWay(d) /\ asking'[d] = asking[d]
      BY <1>4, <3>1 DEF ClaudeInv
    <3>3. RefreshAfter(d) \in accepted'
      BY <1>7, <3>1, <3>2, SoldFacts DEF OnItsWay, RefreshAfter
    <3>4. RefreshAfter(d)' = RefreshAfter(d)
      BY <3>2 DEF RefreshAfter
    <3>5. \A e \in ClaudeCalls :
            Rotates => /\ asking'[e].read.refresh # asking[d].bought
                       /\ e # d => asking'[e].bought # asking[d].bought
      BY <1>2, <1>4, <3>1, <3>2 DEF OnItsWay
    <3>6. QED
      BY <1>3, <3>1, <3>2, <3>3, <3>4, <3>5 DEF OnItsWay
  <2>4. ClaudeLoginSurvives'
    BY <1>7 DEF ClaudeLoginSurvives
  <2>5. QED
    BY <2>1, <2>2, <2>3, <2>4 DEF ClaudeInv
<1>8. QED
  BY <1>6, <1>7 DEF ServerRefuses

\* The granted call writes its pair, or fails to.
LEMMA GrantedStep ==
  ASSUME ClaudeInv, NEW c \in ClaudeCalls, Granted(c)
  PROVE  ClaudeInv'
<1>1. asking[c] \in AskingType /\ asking \in [ClaudeCalls -> AskingType]
  BY DEF ClaudeInv, ClaudeTypes
<1>2. /\ asking[c].stage = "granted" /\ asking' = [asking EXCEPT ![c] = NotAsking]
      /\ UNCHANGED <<sold, accepted>>
      /\ \/ creds' = [access |-> asking[c].bought, refresh |-> RefreshAfter(c)] /\ forgone' = forgone
         \/ creds' = creds /\ forgone' = TRUE
  BY DEF Granted
<1>3. \A d \in ClaudeCalls : asking'[d] = IF d = c THEN NotAsking ELSE asking[d]
  BY <1>1, <1>2
<1>4. OnItsWay(c) /\ RefreshAfter(c) \in {asking[c].bought, asking[c].read.refresh}
  BY DEF ClaudeInv, RefreshAfter
<1>5. /\ sold \in Nat /\ creds.refresh \in Nat
      /\ \A d \in ClaudeCalls : asking[d].bought \in Nat /\ asking[d].read.refresh \in Nat
  BY DEF ClaudeInv, ClaudeTypes, AskingType, PairOnFile
<1>6. ClaudeTypes'
  <2>1. asking' \in [ClaudeCalls -> AskingType]
    BY <1>1, <1>2, IdleFacts
  <2>2. creds' \in PairOnFile
    BY <1>2, <1>4, <1>5 DEF PairOnFile, ClaudeInv, ClaudeTypes
  <2>3. QED
    BY <2>1, <2>2, <1>2 DEF ClaudeTypes, ClaudeInv
<1>7. NoneFromTheFuture'
  BY <1>2, <1>3, <1>4, <1>5, IdleFacts DEF NoneFromTheFuture, ClaudeInv
<1>8. ASSUME NEW d \in ClaudeCalls PROVE OnItsWay(d)'
  <2>1. SUFFICES ASSUME asking[d].stage = "granted", d # c PROVE OnItsWay(d)'
    BY <1>3, IdleFacts DEF OnItsWay
  <2>2. OnItsWay(d) /\ asking'[d] = asking[d]
    BY <1>3, <2>1 DEF ClaudeInv
  <2>3. RefreshAfter(d)' = RefreshAfter(d) /\ accepted' = accepted
    BY <1>2, <2>2 DEF RefreshAfter
  <2>4. Rotates => creds'.refresh # asking[d].bought
    BY <1>2, <2>1, <2>2 DEF OnItsWay, RefreshAfter
  <2>5. \A e \in ClaudeCalls :
          Rotates => /\ asking'[e].read.refresh # asking[d].bought
                     /\ e # d => asking'[e].bought # asking[d].bought
    BY <1>3, <2>1, <2>2, IdleFacts DEF OnItsWay, NoPair
  <2>6. QED
    BY <2>1, <2>2, <2>3, <2>4, <2>5 DEF OnItsWay
<1>9. ClaudeLoginSurvives'
  BY <1>2, <1>4 DEF ClaudeLoginSurvives, OnItsWay
<1>10. QED
  BY <1>6, <1>7, <1>8, <1>9 DEF ClaudeInv

LEMMA LogsInStep ==
  ASSUME ClaudeInv, LogsIn
  PROVE  ClaudeInv'
<1>1. /\ sold \in Nat /\ creds.refresh \in Nat
      /\ \A d \in ClaudeCalls : asking[d].bought \in Nat /\ asking[d].read.refresh \in Nat
  BY DEF ClaudeInv, ClaudeTypes, AskingType, PairOnFile
<1>2. /\ sold' = sold + 1 /\ accepted' = accepted \cup {sold + 1} /\ asking' = asking
      /\ creds' = [access |-> sold + 1, refresh |-> sold + 1] /\ forgone' = FALSE
  BY DEF LogsIn
<1>3. ClaudeTypes'
  <2>1. sold' \in Nat /\ creds' \in PairOnFile
    BY <1>1, <1>2 DEF PairOnFile
  <2>2. asking' \in [ClaudeCalls -> AskingType] /\ forgone' \in BOOLEAN
    BY <1>2 DEF ClaudeTypes, ClaudeInv
  <2>3. QED
    BY <2>1, <2>2 DEF ClaudeTypes
<1>4. NoneFromTheFuture'
  BY <1>1, <1>2 DEF NoneFromTheFuture, ClaudeInv
<1>5. \A c \in ClaudeCalls : asking[c].bought # sold + 1
  BY <1>1 DEF NoneFromTheFuture, ClaudeInv
<1>6. ASSUME NEW c \in ClaudeCalls PROVE OnItsWay(c)'
  <2>1. OnItsWay(c) /\ RefreshAfter(c)' = RefreshAfter(c)
    BY <1>2 DEF ClaudeInv, RefreshAfter
  <2>2. QED
    BY <1>2, <1>5, <2>1 DEF OnItsWay
<1>7. ClaudeLoginSurvives'
  BY <1>2 DEF ClaudeLoginSurvives
<1>8. QED
  BY <1>3, <1>4, <1>6, <1>7 DEF ClaudeInv

LEMMA StopsStep ==
  ASSUME ClaudeInv, Stops
  PROVE  ClaudeInv'
<1>1. /\ asking' = [c \in ClaudeCalls |-> NotAsking] /\ UNCHANGED <<sold, accepted>>
      /\ \A c \in ClaudeCalls : asking'[c] = NotAsking
  BY DEF Stops
<1>2. ClaudeTypes'
  <2>1. asking' \in [ClaudeCalls -> AskingType]
    BY <1>1, IdleFacts
  <2>2. creds' \in PairOnFile /\ forgone' \in BOOLEAN
    BY IdleFacts DEF Stops, ClaudeInv, ClaudeTypes
  <2>3. QED
    BY <2>1, <2>2, <1>1 DEF ClaudeTypes, ClaudeInv
<1>3. NoneFromTheFuture'
  <2>1. sold \in Nat /\ (creds' = creds \/ creds'.refresh = 0)
    BY DEF Stops, Torn, NoPair, ClaudeInv, ClaudeTypes
  <2>2. QED
    BY <2>1, <1>1, IdleFacts DEF NoneFromTheFuture, ClaudeInv
<1>4. \A c \in ClaudeCalls : OnItsWay(c)'
  BY <1>1, IdleFacts DEF OnItsWay
<1>5. ClaudeLoginSurvives'
  <2>1. CASE \E c \in ClaudeCalls : asking[c].stage = "granted"
    BY <2>1 DEF Stops, ClaudeLoginSurvives
  <2>2. CASE ~ \E c \in ClaudeCalls : asking[c].stage = "granted"
    BY <2>2, <1>1 DEF Stops, ClaudeLoginSurvives, ClaudeInv
  <2>3. QED
    BY <2>1, <2>2
<1>6. QED
  BY <1>2, <1>3, <1>4, <1>5 DEF ClaudeInv

\* A call that reads the file, one that was refused, and whatever leaves file, calls and
\* server alone.
LEMMA OtherClaudeSteps ==
  ASSUME ClaudeInv,
         \/ \E c \in ClaudeCalls, b \in ClaudeBackends : AskCreds(c, b) \/ AskRefresh(c, b)
         \/ \E c \in ClaudeCalls : Refused(c)
         \/ \E b \in ClaudeBackends : CooldownEnds(b)
         \/ \E t \in Pairs : TokenAges(t)
         \/ UNCHANGED claudeVars
  PROVE  ClaudeInv'
<1>1. asking \in [ClaudeCalls -> AskingType] /\ creds \in PairOnFile
  BY DEF ClaudeInv, ClaudeTypes
<1>2. CASE UNCHANGED <<creds, asking, sold, accepted, forgone>>
  BY <1>1, <1>2, QuietStep
<1>3. ASSUME NEW c \in ClaudeCalls, NEW b \in ClaudeBackends, AskRefresh(c, b)
      PROVE  ClaudeInv'
  <2> DEFINE next == [stage |-> "refreshing", backend |-> b, read |-> creds, bought |-> NoPair]
  <2>1. next \in AskingType /\ next.stage # "granted" /\ next.read.refresh = creds.refresh /\ next.bought = 0
    BY <1>1 DEF AskingType, NoPair
  <2>2. asking' = [asking EXCEPT ![c] = next] /\ asking[c].stage # "granted"
    BY <1>3 DEF AskRefresh
  <2> HIDE DEF next
  <2>3. UNCHANGED <<creds, sold, accepted, forgone>>
    BY <1>3 DEF AskRefresh
  <2>4. QED
    BY <1>1, <2>1, <2>2, <2>3, QuietStep
<1>4. ASSUME NEW c \in ClaudeCalls, Refused(c)
      PROVE  ClaudeInv'
  <2>1. asking' = [asking EXCEPT ![c] = NotAsking] /\ asking[c].stage # "granted"
    BY <1>4 DEF Refused
  <2>2. UNCHANGED <<creds, sold, accepted, forgone>>
    BY <1>4 DEF Refused, LeaveFile
  <2>3. QED
    BY <1>1, <2>1, <2>2, IdleFacts, QuietStep
<1>5. QED
  BY <1>2, <1>3, <1>4 DEF AskCreds, CooldownEnds, TokenAges, claudeVars

\* However many calls refresh at once, whichever of them the server refuses and wherever
\* the gateway stops, the file keeps a refresh token the server accepts, unless the answer
\* with its replacement is still on its way to the file or was lost.
THEOREM ClaudeLoginIsKept == ClaudeSpec => []ClaudeLoginSurvives
<1>1. ClaudeInv /\ [ClaudeNext]_claudeVars => ClaudeInv'
  BY GrantsStep, RefusesStep, GrantedStep, LogsInStep, StopsStep, OtherClaudeSteps DEF ClaudeNext
<1>2. ClaudeInv => ClaudeLoginSurvives
  BY DEF ClaudeInv
<1>3. QED
  BY ClaudeStarts, <1>1, <1>2, PTL DEF ClaudeSpec

-----------------------------------------------------------------------------
(* The standalone proxy *)

Alone(c) == \A d \in Conversations \ {c} : ModelOf[d] # ModelOf[c]

\* The counter of a model stands below the limit whenever nobody is being received, and
\* it has counted every round of a conversation that has the model to itself.
CoreInv ==
  /\ counters \in [Models -> 0 .. ToolRoundLimit - 1]
  /\ rounds \in [Conversations -> Nat]
  /\ \A c \in Conversations : Alone(c) => rounds[c] <= counters[ModelOf[c]]

LEMMA ModelFacts == \A c \in Conversations : ModelOf[c] \in Models
BY ProxyCoreAssumption DEF Models, Range

LEMMA LimitFacts == ToolRoundLimit \in Nat /\ 0 \in 0 .. ToolRoundLimit - 1
<1>1. ToolRoundLimit \in Nat \ {0}
  BY ProxyCoreAssumption
<1>2. QED
  BY <1>1

\* A request with tools: what the counter and the rounds become.
LEMMA WithToolsStep ==
  ASSUME CoreInv, NEW c \in Conversations, NEW request, WithTools(c, request)
  PROVE  CoreInv'
<1> DEFINE m == ModelOf[c]
           n == CounterAfter(counters[m], request.tail)
           cut == n >= ToolRoundLimit
           since == IF request.tail = "user" THEN 0 ELSE rounds[c]
           now == IF cut THEN 0 ELSE n
           run == IF cut THEN 0 ELSE IF request.tail = "tool" /\ since < ToolRoundLimit THEN since + 1 ELSE since
<1>1. CASE ~ WithinLimits(request)
  BY <1>1 DEF WithTools, CoreInv
<1>2. CASE WithinLimits(request)
  <2>1. ToolRoundLimit \in Nat /\ 0 \in 0 .. ToolRoundLimit - 1
    BY LimitFacts
  <2>2. m \in Models /\ counters[m] \in 0 .. ToolRoundLimit - 1 /\ rounds[c] \in Nat
    BY ModelFacts DEF CoreInv
  <2>3. /\ n \in Nat
        /\ n = IF request.tail = "tool" THEN counters[m] + 1
               ELSE IF request.tail = "user" THEN 0 ELSE counters[m]
    BY <2>1, <2>2 DEF CounterAfter
  <2>4. counters' = [counters EXCEPT ![m] = now] /\ rounds' = [rounds EXCEPT ![c] = run]
    BY <1>2 DEF WithTools
  <2>5. now \in 0 .. ToolRoundLimit - 1 /\ run \in Nat
    BY <2>1, <2>2, <2>3
  <2>6. rounds[c] <= counters[m] => run <= now
    BY <2>1, <2>2, <2>3
  <2> HIDE DEF n, now, run
  <2>7. ASSUME NEW d \in Conversations, Alone(d)
        PROVE  rounds'[d] <= counters'[ModelOf[d]]
    <3>1. rounds[d] <= counters[ModelOf[d]]
      BY <2>7 DEF CoreInv
    <3>2. CASE d = c
      BY <2>2, <2>4, <2>6, <3>1, <3>2 DEF CoreInv
    <3>3. CASE d # c
      <4>1. ModelOf[d] # m
        BY <2>7, <3>3 DEF Alone
      <4>2. QED
        BY <2>4, <3>1, <3>3, <4>1, ModelFacts DEF CoreInv
    <3>4. QED
      BY <3>2, <3>3
  <2>8. counters' \in [Models -> 0 .. ToolRoundLimit - 1] /\ rounds' \in [Conversations -> Nat]
    BY <2>4, <2>5 DEF CoreInv
  <2>9. QED
    BY <2>7, <2>8 DEF CoreInv
<1>3. QED
  BY <1>1, <1>2

\* A crash forgets what was counted of every model, and the runs start anew.
LEMMA ThrowsStep == ASSUME CoreInv, UpstreamThrows PROVE CoreInv'
<1>1. 0 \in 0 .. ToolRoundLimit - 1
  BY LimitFacts
<1>2. counters' = [m \in Models |-> 0] /\ rounds' = [c \in Conversations |-> 0]
  BY DEF UpstreamThrows
<1>3. QED
  BY <1>1, <1>2, ModelFacts DEF CoreInv

\* A conversation that has its model to itself is given tools for fewer rounds in a row
\* than toolRoundLimit, for any requests, limits and answers of the upstream.
THEOREM LoopsAreCut == CoreSpec => []LoopIsCut
<1>1. CoreInit => CoreInv
  <2>1. 0 \in 0 .. ToolRoundLimit - 1
    BY LimitFacts
  <2>2. QED
    BY <2>1, ModelFacts DEF CoreInit, CoreInv
<1>2. ASSUME CoreInv, [CoreNext]_coreVars PROVE CoreInv'
  <2>1. CASE UNCHANGED <<counters, rounds>>
    BY <1>2, <2>1 DEF CoreInv
  <2>2. ASSUME NEW c \in Conversations, NEW request \in CoreRequests, Receive(c, request)
        PROVE  CoreInv'
    BY <1>2, <2>1, <2>2, WithToolsStep DEF Receive, Plain
  <2>3. CASE UNCHANGED coreVars
    BY <2>1, <2>3 DEF coreVars
  <2>4. ASSUME NEW c \in Conversations, WaitOver(c) \/ \E answer \in Answers : UpstreamAnswers(c, answer)
        PROVE  CoreInv'
    BY <2>1, <2>4 DEF UpstreamAnswers, WaitOver
  <2>5. QED
    BY <1>2, <2>2, <2>3, <2>4, ThrowsStep DEF CoreNext
<1>3. CoreInv => LoopIsCut
  <2>1. SUFFICES ASSUME CoreInv, NEW c \in Conversations, Alone(c) PROVE rounds[c] < ToolRoundLimit
    BY DEF LoopIsCut, Alone
  <2>2. ToolRoundLimit \in Nat
    BY LimitFacts
  <2>3. counters[ModelOf[c]] \in 0 .. ToolRoundLimit - 1 /\ rounds[c] \in Nat
    BY <2>1, ModelFacts DEF CoreInv
  <2>4. rounds[c] <= counters[ModelOf[c]]
    BY <2>1 DEF CoreInv
  <2>5. QED
    BY <2>2, <2>3, <2>4
<1>4. QED
  BY <1>1, <1>2, <1>3, PTL DEF CoreSpec

-----------------------------------------------------------------------------
(* The energy ledger *)

Joules == Int \cup {JoulesOf(count) : count \in TokenCounts}
Bases == {"measured_gpu", "imputed_local", "imputed_cloud"}
EnergyRows == [attempt : Burners \X Nat, basis : Bases, concurrency : Nat, joules : Joules]
Burns == [stage : {"new", "before", "calling", "after", "returned"}, door : Nat,
          before : Readings \cup {NoReading}, seen : Nat,
          outcome : {"none", "answered", "failed", "throttled", "cancelled"},
          others : BOOLEAN, rows : Seq(EnergyRows)]

\* The rows of a request are those of its attempts so far; the one under way has none.
RowsAreOwn(r, b) ==
  /\ b.stage = "new" => b.door = 0
  /\ \A i \in 1 .. Len(b.rows) :
       /\ b.rows[i].attempt[1] = r
       /\ b.rows[i].attempt[2] <= b.door
       /\ b.stage # "returned" => b.rows[i].attempt[2] < b.door

\* An attempt that calls, and one that is over and does not claim to have been alone.
Calls(b, i) == b.stage = "calling" /\ b.door = i
NotAlone(r, b, i) ==
  /\ b.door > i \/ (b.door = i /\ b.stage \in {"after", "returned"})
  /\ b.stage = "after" /\ b.door = i => b.seen > 1
  /\ \A k \in 1 .. Len(b.rows) : b.rows[k].attempt = <<r, i>> => b.rows[k].concurrency > 1

\* Of two attempts that met at a meter both still call, or one is not recorded as alone.
Met(r, i, o, j) ==
  \/ Calls(burn[r], i) /\ Calls(burn[o], j) /\ Meter(r) = Meter(o) /\ Meter(r) # NoMeter
  \/ NotAlone(r, burn[r], i)
  \/ NotAlone(o, burn[o], j)

EnergyInv ==
  /\ burn \in [Burners -> Burns]
  /\ \A r \in Burners : RowsAreOwn(r, burn[r])
  /\ onMeter \in [Range(Meters) -> Nat]
  /\ \A m \in Range(Meters) : IsFiniteSet(Under(m)) /\ onMeter[m] = Cardinality(Under(m))
  /\ \A pair \in shared : \E r, o \in Burners, i, j \in Nat :
       r # o /\ pair = {<<r, i>>, <<o, j>>} /\ Met(r, i, o, j)

LEMMA MeterTypes ==
  /\ NoMeter \notin Range(Meters)
  /\ \A door : MeterOf(door) \in Range(Meters) \cup {NoMeter}
<1>1. ASSUME NEW door PROVE MeterOf(door) \in Range(Meters) \cup {NoMeter}
  <2> DEFINE keys == <<<<door.reg, door.backend>>, <<~ door.reg, door.backend>>, <<door.host>>>>
             I == {i \in 1 .. Len(keys) : keys[i] \in DOMAIN Meters}
             n == IF I # {} THEN Min(I) ELSE 0
  <2>1. SelectInSeq(keys, LAMBDA key : key \in DOMAIN Meters) = n
    BY DEF SelectInSeq
  <2>2. MeterOf(door) = IF n = 0 THEN NoMeter ELSE Meters[keys[n]]
    BY <2>1 DEF MeterOf
  <2>3. Len(keys) = 3
    OBVIOUS
  <2> HIDE DEF keys
  <2>4. I # {} => Min(I) \in I
    BY <2>3, LeastPosition
  <2>5. CASE n = 0
    BY <2>2, <2>5
  <2>6. CASE n # 0
    BY <2>2, <2>4, <2>6 DEF Range
  <2>7. QED
    BY <2>5, <2>6
<1>2. NoMeter \notin Range(Meters)
  BY EnergyAssumption
<1>3. QED
  BY <1>1, <1>2

\* What the invariant says of the pairs is what the property says.
LEMMA MetIsSeen == EnergyInv => OverlapIsSeen
<1> SUFFICES ASSUME EnergyInv, NEW row \in Observed, NEW other \in Observed,
                    {row.attempt, other.attempt} \in shared
             PROVE  row.concurrency > 1 \/ other.concurrency > 1
  BY DEF OverlapIsSeen
<1>1. ASSUME NEW x \in Observed
      PROVE  \E r \in Burners : \E k \in 1 .. Len(burn[r].rows) :
               x = burn[r].rows[k] /\ x.attempt = <<r, x.attempt[2]>> /\ x \in EnergyRows
  <2>1. PICK r \in Burners : x \in Range(burn[r].rows)
    BY DEF Observed
  <2>2. burn[r].rows \in Seq(EnergyRows)
    BY DEF EnergyInv, Burns
  <2>3. PICK k \in 1 .. Len(burn[r].rows) : x = burn[r].rows[k]
    BY <2>1, <2>2, LenProperties DEF Range
  <2>4. x \in EnergyRows /\ x.attempt[1] = r
    BY <2>2, <2>3, ElementOfSeq DEF EnergyInv, RowsAreOwn
  <2>5. x.attempt \in Burners \X Nat
    BY <2>4 DEF EnergyRows
  <2>6. QED
    BY <2>3, <2>4, <2>5
<1>2. PICK r \in Burners, o \in Burners, i \in Nat, j \in Nat :
        r # o /\ {row.attempt, other.attempt} = {<<r, i>>, <<o, j>>} /\ Met(r, i, o, j)
  BY DEF EnergyInv
<1>3. PICK x \in {row, other}, y \in {row, other} : x.attempt = <<r, i>> /\ y.attempt = <<o, j>>
  BY <1>2
<1>4. \E k \in 1 .. Len(burn[r].rows) : x = burn[r].rows[k]
  BY <1>1, <1>3
<1>5. \E k \in 1 .. Len(burn[o].rows) : y = burn[o].rows[k]
  BY <1>1, <1>3
<1>6. ~ Calls(burn[r], i)
  <2>1. PICK k \in 1 .. Len(burn[r].rows) : x = burn[r].rows[k]
    BY <1>4
  <2>2. burn[r].stage # "returned" => x.attempt[2] < burn[r].door
    BY <2>1 DEF EnergyInv, RowsAreOwn
  <2>3. x.attempt[2] = i
    BY <1>3
  <2>4. QED
    BY <2>2, <2>3 DEF Calls
<1>7. NotAlone(r, burn[r], i) \/ NotAlone(o, burn[o], j)
  BY <1>2, <1>6 DEF Met
<1>8. QED
  BY <1>3, <1>4, <1>5, <1>7 DEF NotAlone

\* A request that moves without calling at a meter, neither before nor after.
LEMMA MoveStep ==
  ASSUME EnergyInv, NEW r \in Burners, NEW b \in Burns, burn' = [burn EXCEPT ![r] = b],
         RowsAreOwn(r, b), burn[r].stage # "calling",
         b.stage = "calling" => MeterOf(EnergyDoors[b.door]) = NoMeter,
         \A i \in Nat : NotAlone(r, burn[r], i) => NotAlone(r, b, i),
         UNCHANGED <<onMeter, shared>>
  PROVE  EnergyInv'
<1>1. burn \in [Burners -> Burns] /\ \A o \in Burners : RowsAreOwn(o, burn[o])
  BY DEF EnergyInv
<1>2. burn'[r] = b /\ \A o \in Burners : o # r => burn'[o] = burn[o]
  BY <1>1
<1>3. burn' \in [Burners -> Burns] /\ \A o \in Burners : RowsAreOwn(o, burn'[o])
  BY <1>1, <1>2
<1>4. ASSUME NEW m \in Range(Meters) PROVE Under(m)' = Under(m)
  BY <1>2, <1>4, MeterTypes DEF Under, Meter
<1>5. ASSUME NEW pair \in shared
      PROVE  \E a, o \in Burners, i, j \in Nat :
               a # o /\ pair = {<<a, i>>, <<o, j>>} /\ Met(a, i, o, j)'
  <2>1. PICK a \in Burners, o \in Burners, i \in Nat, j \in Nat :
          a # o /\ pair = {<<a, i>>, <<o, j>>} /\ Met(a, i, o, j)
    BY <1>5 DEF EnergyInv
  <2>2. CASE Calls(burn[a], i) /\ Calls(burn[o], j) /\ Meter(a) = Meter(o) /\ Meter(a) # NoMeter
    <3>1. a # r /\ o # r
      BY <2>2 DEF Calls
    <3>2. burn'[a] = burn[a] /\ burn'[o] = burn[o]
      BY <1>2, <3>1
    <3>3. Met(a, i, o, j)'
      BY <2>2, <3>2 DEF Met, Calls, Meter
    <3>4. QED
      BY <2>1, <3>3
  <2>3. CASE NotAlone(a, burn[a], i) \/ NotAlone(o, burn[o], j)
    <3>1. NotAlone(a, burn'[a], i) \/ NotAlone(o, burn'[o], j)
      BY <1>2, <2>3
    <3>2. QED
      BY <2>1, <3>1 DEF Met
  <2>4. QED
    BY <2>1, <2>2, <2>3 DEF Met
<1>6. QED
  BY <1>3, <1>4, <1>5 DEF EnergyInv

\* The row of an attempt that is over.
LEMMA RowFacts ==
  ASSUME EnergyInv, NEW r \in Burners, burn[r].stage = "after", NEW row \in EnergyRows,
         row.attempt = Attempt(r), row.concurrency = burn[r].seen
  PROVE  LET own == Append(burn[r].rows, row)
         IN  /\ own \in Seq(EnergyRows)
             /\ \A k \in 1 .. Len(own) : own[k].attempt[1] = r /\ own[k].attempt[2] <= burn[r].door
             /\ \A i \in Nat : NotAlone(r, burn[r], i) =>
                  /\ i <= burn[r].door
                  /\ \A k \in 1 .. Len(own) : own[k].attempt = <<r, i>> => own[k].concurrency > 1
<1> DEFINE rows == burn[r].rows
           own == Append(rows, row)
<1>1. rows \in Seq(EnergyRows) /\ burn[r].door \in Nat /\ RowsAreOwn(r, burn[r])
  BY DEF EnergyInv, Burns
<1>2. /\ own \in Seq(EnergyRows) /\ Len(own) = Len(rows) + 1 /\ Len(rows) \in Nat
      /\ \A k \in 1 .. Len(rows) : own[k] = rows[k]
      /\ own[Len(rows) + 1] = row
  BY <1>1, AppendProperties, LenProperties
<1>3. row.attempt = <<r, burn[r].door>>
  BY DEF Attempt
<1> HIDE DEF own
<1>4. ASSUME NEW k \in 1 .. Len(own)
      PROVE  own[k].attempt[1] = r /\ own[k].attempt[2] <= burn[r].door
  <2>1. CASE k \in 1 .. Len(rows)
    BY <1>1, <1>2, <2>1 DEF RowsAreOwn
  <2>2. CASE k = Len(rows) + 1
    BY <1>1, <1>2, <1>3, <2>2
  <2>3. QED
    BY <1>2, <2>1, <2>2
<1>5. ASSUME NEW i \in Nat, NotAlone(r, burn[r], i)
      PROVE  /\ i <= burn[r].door
             /\ \A k \in 1 .. Len(own) : own[k].attempt = <<r, i>> => own[k].concurrency > 1
  <2>1. i <= burn[r].door
    BY <1>1, <1>5 DEF NotAlone
  <2>2. ASSUME NEW k \in 1 .. Len(own), own[k].attempt = <<r, i>> PROVE own[k].concurrency > 1
    <3>1. CASE k \in 1 .. Len(rows)
      BY <1>2, <1>5, <2>2, <3>1 DEF NotAlone
    <3>2. CASE k = Len(rows) + 1
      <4>1. i = burn[r].door
        BY <1>2, <1>3, <2>2, <3>2
      <4>2. QED
        BY <1>2, <1>5, <3>2, <4>1 DEF NotAlone
    <3>3. k \in 1 .. Len(rows) \/ k = Len(rows) + 1
      BY <1>2
    <3>4. QED
      BY <3>1, <3>2, <3>3
  <2>3. QED
    BY <2>1, <2>2
<1>6. QED
  BY <1>2, <1>4, <1>5 DEF own

\* The attempt at a later door begins.
LEMMA TriesStep ==
  ASSUME EnergyInv, NEW r \in Burners, burn[r].stage \in {"new", "after"},
         NEW i \in Nat, i > burn[r].door, NEW rows \in Seq(EnergyRows), NEW others \in BOOLEAN,
         Tries(r, i, rows, others),
         \A k \in 1 .. Len(rows) : rows[k].attempt[1] = r /\ rows[k].attempt[2] <= burn[r].door,
         \A j \in Nat : NotAlone(r, burn[r], j) =>
           \A k \in 1 .. Len(rows) : rows[k].attempt = <<r, j>> => rows[k].concurrency > 1,
         UNCHANGED <<onMeter, shared>>
  PROVE  EnergyInv'
<1> DEFINE stage == IF MeterOf(EnergyDoors[i]) = NoMeter THEN "calling" ELSE "before"
           b == Fresh(stage, i, rows, others)
<1>1. burn' = [burn EXCEPT ![r] = b]
  BY DEF Tries
<1>2. stage \in {"before", "calling"} /\ (stage = "calling" => MeterOf(EnergyDoors[i]) = NoMeter)
  OBVIOUS
<1> HIDE DEF stage
<1>3. b \in Burns
  BY <1>2 DEF Fresh, Burns
<1>4. b.stage = stage /\ b.door = i /\ b.rows = rows
  BY DEF Fresh
<1> HIDE DEF b
<1>5. burn[r].door \in Nat /\ \A k \in 1 .. Len(rows) : rows[k].attempt[2] \in Nat
  <2>1. \A k \in 1 .. Len(rows) : rows[k] \in EnergyRows
    BY ElementOfSeq
  <2>2. QED
    BY <2>1 DEF EnergyInv, Burns, EnergyRows
<1>6. RowsAreOwn(r, b)
  BY <1>2, <1>4, <1>5 DEF RowsAreOwn
<1>7. ASSUME NEW j \in Nat, NotAlone(r, burn[r], j) PROVE NotAlone(r, b, j)
  <2>1. burn[r].door >= j
    BY <1>5, <1>7 DEF NotAlone
  <2>2. \A k \in 1 .. Len(rows) : rows[k].attempt = <<r, j>> => rows[k].concurrency > 1
    BY <1>7
  <2>3. b.door > j /\ b.stage # "after"
    BY <1>2, <1>4, <1>5, <2>1
  <2>4. QED
    BY <1>4, <2>2, <2>3 DEF NotAlone
<1>8. QED
  BY <1>1, <1>2, <1>3, <1>4, <1>6, <1>7, MoveStep

\* The result is returned with the row of the last attempt.
LEMMA ReturnsStep ==
  ASSUME EnergyInv, NEW r \in Burners, burn[r].stage = "after", NEW own \in Seq(EnergyRows),
         burn' = [burn EXCEPT ![r].stage = "returned", ![r].rows = own],
         \A k \in 1 .. Len(own) : own[k].attempt[1] = r /\ own[k].attempt[2] <= burn[r].door,
         \A i \in Nat : NotAlone(r, burn[r], i) =>
           \A k \in 1 .. Len(own) : own[k].attempt = <<r, i>> => own[k].concurrency > 1,
         UNCHANGED <<onMeter, shared>>
  PROVE  EnergyInv'
<1> DEFINE b == [burn[r] EXCEPT !.stage = "returned", !.rows = own]
<1>1. burn \in [Burners -> Burns]
  BY DEF EnergyInv
<1>2. burn' = [burn EXCEPT ![r] = b]
  BY <1>1 DEF Burns
<1>3. b \in Burns /\ b.stage = "returned" /\ b.door = burn[r].door /\ b.rows = own
  BY <1>1 DEF Burns
<1> HIDE DEF b
<1>4. RowsAreOwn(r, b)
  BY <1>3 DEF RowsAreOwn
<1>5. ASSUME NEW j \in Nat, NotAlone(r, burn[r], j) PROVE NotAlone(r, b, j)
  BY <1>3, <1>5 DEF NotAlone
<1>6. QED
  BY <1>2, <1>3, <1>4, <1>5, MoveStep

LEMMA ReadAfterStep ==
  ASSUME EnergyInv, NEW r \in Burners, NEW reading \in Readings, NEW count \in TokenCounts,
         ReadAfter(r, reading, count)
  PROVE  EnergyInv'
<1> DEFINE b == burn[r]
           door == EnergyDoors[b.door]
           metered == Measured(b.before, reading)
           row == [attempt |-> Attempt(r), basis |-> Basis(door, metered), concurrency |-> b.seen,
                   joules |-> IF metered THEN reading - b.before ELSE JoulesOf(count)]
           own == Append(b.rows, row)
           others == b.others \/ b.outcome # "throttled"
<1>1. /\ b.stage = "after" /\ UNCHANGED <<onMeter, shared>>
      /\ IF b.outcome = "answered" THEN Returns(r, own, own) ELSE GoesOn(r, own)
  BY DEF ReadAfter, Settles
<1>2. b \in Burns /\ b.door \in Nat /\ b.seen \in Nat
  BY DEF EnergyInv, Burns
<1>3. (IF metered THEN reading - b.before ELSE JoulesOf(count)) \in Joules
  BY DEF Measured, Joules
<1>4. Basis(door, metered) \in Bases
  BY DEF Basis, Bases, Measured
<1>5. row \in EnergyRows /\ row.attempt = Attempt(r) /\ row.concurrency = b.seen
  BY <1>2, <1>3, <1>4 DEF EnergyRows, Attempt
<1> HIDE DEF row
<1>6. /\ own \in Seq(EnergyRows)
      /\ \A k \in 1 .. Len(own) : own[k].attempt[1] = r /\ own[k].attempt[2] <= burn[r].door
      /\ \A i \in Nat : NotAlone(r, burn[r], i) =>
           /\ i <= burn[r].door
           /\ \A k \in 1 .. Len(own) : own[k].attempt = <<r, i>> => own[k].concurrency > 1
  BY <1>1, <1>5, RowFacts
<1> HIDE DEF own
<1>7. CASE burn' = [burn EXCEPT ![r].stage = "returned", ![r].rows = own]
  BY <1>1, <1>6, <1>7, ReturnsStep
<1>8. ASSUME NEW i \in b.door + 1 .. Len(EnergyDoors), NEW refused \in BOOLEAN,
             Tries(r, i, own, others \/ refused)
      PROVE  EnergyInv'
  <2>1. Len(EnergyDoors) \in Nat
    BY EnergyAssumption, LenProperties
  <2>2. i \in Nat /\ i > burn[r].door
    BY <1>2, <2>1
  <2>3. (others \/ refused) \in BOOLEAN
    OBVIOUS
  <2> HIDE DEF others
  <2>4. QED
    BY <1>1, <1>6, <1>8, <2>2, <2>3, TriesStep
<1>9. QED
  BY <1>1, <1>7, <1>8 DEF Returns, GoesOn

\* The first reading is there: the attempt is counted, and meets those that are under way.
LEMMA ReadBeforeStep ==
  ASSUME EnergyInv, NEW r \in Burners, NEW reading \in Readings, ReadBefore(r, reading)
  PROVE  EnergyInv'
<1>0. PICK m, b : m = Meter(r) /\ b = [burn[r] EXCEPT !.stage = "calling", !.before = reading]
  OBVIOUS
<1>1. /\ burn[r].stage = "before" /\ Enters(burn[r], r, m)
      /\ burn' = [burn EXCEPT ![r].stage = "calling", ![r].before = reading]
  BY <1>0 DEF ReadBefore
<1>2. burn \in [Burners -> Burns] /\ RowsAreOwn(r, burn[r])
  BY DEF EnergyInv
<1>3. burn' = [burn EXCEPT ![r] = b]
  BY <1>0, <1>1, <1>2 DEF Burns
<1>4. /\ b \in Burns /\ b.stage = "calling" /\ b.door = burn[r].door /\ b.rows = burn[r].rows
  BY <1>0, <1>2 DEF Burns
<1>5. m \in Range(Meters) \cup {NoMeter} /\ m = MeterOf(EnergyDoors[b.door])
  BY <1>0, <1>4, MeterTypes DEF Meter
<1>6. RowsAreOwn(r, b) /\ \A i \in Nat : NotAlone(r, burn[r], i) => NotAlone(r, b, i)
  BY <1>1, <1>2, <1>4 DEF RowsAreOwn, NotAlone
<1>7. CASE m = NoMeter
  <2>1. UNCHANGED <<onMeter, shared>>
    BY <1>1, <1>7 DEF Enters
  <2>2. QED
    BY <1>1, <1>3, <1>4, <1>5, <1>6, <1>7, <2>1, MoveStep
<1>8. CASE m # NoMeter
  <2>1. /\ onMeter' = [onMeter EXCEPT ![m] = @ + 1]
        /\ shared' = shared \cup {{<<r, b.door>>, Attempt(o)} : o \in Under(m)}
    BY <1>1, <1>4, <1>8 DEF Enters
  <2>2. burn'[r] = b /\ \A o \in Burners : o # r => burn'[o] = burn[o]
    BY <1>2, <1>3
  <2>3. /\ burn' \in [Burners -> Burns] /\ \A o \in Burners : RowsAreOwn(o, burn'[o])
    BY <1>3, <1>4, <1>6, <2>2 DEF EnergyInv
  <2>4. /\ Under(m)' = Under(m) \cup {r} /\ r \notin Under(m)
        /\ \A n \in Range(Meters) : n # m => Under(n)' = Under(n)
    <3>1. Meter(r)' = m /\ \A o \in Burners : o # r => Meter(o)' = Meter(o)
      BY <1>5, <2>2 DEF Meter
    <3>2. /\ burn'[r].stage = "calling" /\ burn[r].stage # "calling"
          /\ \A o \in Burners : o # r => burn'[o].stage = burn[o].stage
      BY <1>1, <1>4, <2>2
    <3>3. QED
      BY <3>1, <3>2 DEF Under
  <2>5. /\ onMeter' \in [Range(Meters) -> Nat]
        /\ \A n \in Range(Meters) : IsFiniteSet(Under(n))' /\ onMeter'[n] = Cardinality(Under(n)')
    <3>1. onMeter \in [Range(Meters) -> Nat] /\ m \in Range(Meters)
      BY <1>5, <1>8 DEF EnergyInv
    <3>2. ASSUME NEW n \in Range(Meters)
          PROVE  IsFiniteSet(Under(n)) /\ onMeter[n] = Cardinality(Under(n))
      BY DEF EnergyInv
    <3>3. IsFiniteSet(Under(m) \cup {r}) /\ Cardinality(Under(m) \cup {r}) = onMeter[m] + 1
      BY <2>4, <3>1, <3>2, FS_AddElement
    <3>4. onMeter' \in [Range(Meters) -> Nat]
      BY <2>1, <3>1
    <3>5. ASSUME NEW n \in Range(Meters)
          PROVE  IsFiniteSet(Under(n))' /\ onMeter'[n] = Cardinality(Under(n)')
      <4>1. CASE n = m
        BY <2>1, <2>4, <3>1, <3>3, <4>1
      <4>2. CASE n # m
        BY <2>1, <2>4, <3>1, <3>2, <4>2
      <4>3. QED
        BY <4>1, <4>2
    <3>6. QED
      BY <3>4, <3>5
  <2>6. ASSUME NEW pair \in shared
        PROVE  \E a, o \in Burners, i, j \in Nat :
                 a # o /\ pair = {<<a, i>>, <<o, j>>} /\ Met(a, i, o, j)'
    <3>1. PICK a \in Burners, o \in Burners, i \in Nat, j \in Nat :
            a # o /\ pair = {<<a, i>>, <<o, j>>} /\ Met(a, i, o, j)
      BY <2>6 DEF EnergyInv
    <3>2. CASE Calls(burn[a], i) /\ Calls(burn[o], j) /\ Meter(a) = Meter(o) /\ Meter(a) # NoMeter
      <4>1. a # r /\ o # r
        BY <1>1, <3>2 DEF Calls
      <4>2. Met(a, i, o, j)'
        BY <2>2, <3>2, <4>1 DEF Met, Calls, Meter
      <4>3. QED
        BY <3>1, <4>2
    <3>3. CASE NotAlone(a, burn[a], i) \/ NotAlone(o, burn[o], j)
      <4>1. NotAlone(a, burn'[a], i) \/ NotAlone(o, burn'[o], j)
        BY <1>6, <2>2, <3>3
      <4>2. QED
        BY <3>1, <4>1 DEF Met
    <3>4. QED
      BY <3>1, <3>2, <3>3 DEF Met
  <2>7. ASSUME NEW o \in Under(m)
        PROVE  \E a, c \in Burners, i, j \in Nat :
                 a # c /\ {<<r, b.door>>, Attempt(o)} = {<<a, i>>, <<c, j>>} /\ Met(a, i, c, j)'
    <3>1. /\ o \in Burners /\ o # r /\ burn[o].stage = "calling" /\ Meter(o) = m
          /\ Attempt(o) = <<o, burn[o].door>>
      BY <2>4, <2>7 DEF Under, Attempt
    <3>2. PICK i \in Nat, j \in Nat : i = b.door /\ j = burn[o].door
      BY <1>2, <1>4, <3>1 DEF Burns
    <3>3. /\ Calls(burn'[r], i) /\ Calls(burn'[o], j)
          /\ Meter(r)' = m /\ Meter(o)' = m
      BY <1>4, <1>5, <2>2, <3>1, <3>2 DEF Calls, Meter
    <3>4. Met(r, i, o, j)'
      BY <1>8, <3>3 DEF Met
    <3>5. {<<r, b.door>>, Attempt(o)} = {<<r, i>>, <<o, j>>}
      BY <3>1, <3>2
    <3>6. QED
      BY <3>1, <3>4, <3>5
  <2>8. \A pair \in shared' : \E a, o \in Burners, i, j \in Nat :
          a # o /\ pair = {<<a, i>>, <<o, j>>} /\ Met(a, i, o, j)'
    BY <2>1, <2>6, <2>7
  <2>9. QED
    BY <2>3, <2>5, <2>8 DEF EnergyInv
<1>9. QED
  BY <1>7, <1>8

\* The call is over: who leaves the meter first has counted the other.
LEMMA SettlesStep ==
  ASSUME EnergyInv, NEW r \in Burners,
         NEW outcome \in {"answered", "failed", "throttled", "cancelled"}, UpstreamSettles(r, outcome)
  PROVE  EnergyInv'
<1>0. PICK m : m = Meter(r)
  OBVIOUS
<1> DEFINE gone == [burn[r] EXCEPT !.stage = "returned", !.rows = burn[r].rows]
           over == [burn[r] EXCEPT !.stage = "after", !.seen = Seen(m), !.outcome = outcome]
           b == IF outcome = "cancelled" THEN gone ELSE over
<1>1. /\ burn[r].stage = "calling" /\ UNCHANGED shared
      /\ onMeter' = IF m = NoMeter THEN onMeter ELSE [onMeter EXCEPT ![m] = @ - 1]
  BY <1>0 DEF UpstreamSettles
<1>2. /\ burn \in [Burners -> Burns] /\ burn[r] \in Burns /\ RowsAreOwn(r, burn[r])
      /\ onMeter \in [Range(Meters) -> Nat]
      /\ m \in Range(Meters) \cup {NoMeter}
  BY <1>0, MeterTypes DEF EnergyInv, Meter
<1>3. Seen(m) \in Nat /\ (m # NoMeter => Seen(m) = onMeter[m])
  BY <1>2 DEF Seen
<1>4. burn' = [burn EXCEPT ![r] = b]
  <2>1. CASE outcome = "cancelled"
    <3>1. burn' = [burn EXCEPT ![r].stage = "returned", ![r].rows = burn[r].rows]
      BY <2>1 DEF UpstreamSettles, Returns
    <3>2. QED
      BY <1>2, <2>1, <3>1 DEF Burns
  <2>2. CASE outcome # "cancelled"
    <3>1. burn' = [burn EXCEPT ![r].stage = "after", ![r].seen = Seen(m), ![r].outcome = outcome]
      BY <1>0, <2>2 DEF UpstreamSettles
    <3>2. QED
      BY <1>2, <2>2, <3>1 DEF Burns
  <2>3. QED
    BY <2>1, <2>2
<1>5. /\ b \in Burns /\ b.door = burn[r].door /\ b.rows = burn[r].rows
      /\ b.stage \in {"after", "returned"} /\ (b.stage = "after" => b.seen = Seen(m))
  <2>1. /\ gone \in Burns /\ gone.door = burn[r].door /\ gone.rows = burn[r].rows
        /\ gone.stage = "returned"
    BY <1>2 DEF Burns
  <2>2. /\ over \in Burns /\ over.door = burn[r].door /\ over.rows = burn[r].rows
        /\ over.stage = "after" /\ over.seen = Seen(m)
    BY <1>2, <1>3 DEF Burns
  <2> HIDE DEF gone, over
  <2>3. QED
    BY <2>1, <2>2
<1> HIDE DEF b
<1>6. burn'[r] = b /\ \A o \in Burners : o # r => burn'[o] = burn[o]
  BY <1>2, <1>4
<1>7. burn[r].door \in Nat /\ \A k \in 1 .. Len(burn[r].rows) : burn[r].rows[k].attempt \in Burners \X Nat
  <2>1. burn[r].door \in Nat /\ burn[r].rows \in Seq(EnergyRows)
    BY <1>2 DEF Burns
  <2>2. \A k \in 1 .. Len(burn[r].rows) : burn[r].rows[k] \in EnergyRows
    BY <2>1, ElementOfSeq
  <2>3. QED
    BY <2>1, <2>2 DEF EnergyRows
<1>8. /\ RowsAreOwn(r, b)
      /\ \A i \in Nat : NotAlone(r, burn[r], i) => NotAlone(r, b, i)
  <2>1. RowsAreOwn(r, b)
    BY <1>1, <1>2, <1>5, <1>7 DEF RowsAreOwn
  <2>2. ASSUME NEW i \in Nat, NotAlone(r, burn[r], i) PROVE NotAlone(r, b, i)
    <3>1. burn[r].door > i
      BY <1>1, <2>2 DEF NotAlone
    <3>2. QED
      BY <1>5, <1>7, <2>2, <3>1 DEF NotAlone
  <2>3. QED
    BY <2>1, <2>2
<1>9. ASSUME NEW n \in Range(Meters)
      PROVE  IsFiniteSet(Under(n)) /\ onMeter[n] = Cardinality(Under(n))
  BY DEF EnergyInv
<1>10. ASSUME NEW o \in Burners, o # r, burn[o].stage = "calling", Meter(o) = m, m # NoMeter
       PROVE  NotAlone(r, b, burn[r].door)
  <2>1. m \in Range(Meters) /\ {r, o} \subseteq Under(m)
    BY <1>0, <1>1, <1>2, <1>10 DEF Under
  <2>2. Cardinality({r, o}) = 2 /\ IsFiniteSet({r, o})
    <3>1. IsFiniteSet({o}) /\ Cardinality({o}) = 1
      BY FS_Singleton
    <3>2. r \notin {o} /\ {o} \cup {r} = {r, o}
      BY <1>10
    <3>3. QED
      BY <3>1, <3>2, FS_AddElement
  <2>3. onMeter[m] >= 2
    BY <1>9, <2>1, <2>2, FS_Subset
  <2>4. \A k \in 1 .. Len(b.rows) : b.rows[k].attempt # <<r, burn[r].door>>
    BY <1>1, <1>2, <1>5, <1>7 DEF RowsAreOwn
  <2>5. b.stage = "after" => b.seen > 1
    BY <1>2, <1>3, <1>5, <1>10, <2>1, <2>3
  <2>6. QED
    BY <1>5, <1>7, <2>4, <2>5 DEF NotAlone
<1>11. /\ burn' \in [Burners -> Burns] /\ \A o \in Burners : RowsAreOwn(o, burn'[o])
  BY <1>4, <1>5, <1>6, <1>8 DEF EnergyInv
<1>12. /\ \A n \in Range(Meters) : n # m => Under(n)' = Under(n)
       /\ m \in Range(Meters) => Under(m)' = Under(m) \ {r} /\ r \in Under(m)
  BY <1>0, <1>1, <1>5, <1>6 DEF Under, Meter
<1>13. /\ onMeter' \in [Range(Meters) -> Nat]
       /\ \A n \in Range(Meters) : IsFiniteSet(Under(n))' /\ onMeter'[n] = Cardinality(Under(n)')
  <2>1. CASE m = NoMeter
    BY <1>1, <1>2, <1>9, <1>12, <2>1, MeterTypes
  <2>2. CASE m # NoMeter
    <3>1. m \in Range(Meters) /\ onMeter' = [onMeter EXCEPT ![m] = @ - 1] /\ r \in Under(m)
      BY <1>1, <1>2, <1>12, <2>2
    <3>2. IsFiniteSet(Under(m) \ {r}) /\ Cardinality(Under(m) \ {r}) = onMeter[m] - 1
      BY <1>9, <3>1, FS_RemoveElement
    <3>3. onMeter[m] - 1 \in Nat
      BY <3>2, FS_CardinalityType
    <3>4. onMeter' \in [Range(Meters) -> Nat]
      BY <1>2, <3>1, <3>3
    <3>5. ASSUME NEW n \in Range(Meters)
          PROVE  IsFiniteSet(Under(n))' /\ onMeter'[n] = Cardinality(Under(n)')
      <4>1. CASE n = m
        BY <1>2, <1>12, <3>1, <3>2, <4>1
      <4>2. CASE n # m
        BY <1>2, <1>9, <1>12, <3>1, <4>2
      <4>3. QED
        BY <4>1, <4>2
    <3>6. QED
      BY <3>4, <3>5
  <2>3. QED
    BY <2>1, <2>2
<1>14. ASSUME NEW pair \in shared
       PROVE  \E a, o \in Burners, i, j \in Nat :
                a # o /\ pair = {<<a, i>>, <<o, j>>} /\ Met(a, i, o, j)'
  <2>1. PICK a \in Burners, o \in Burners, i \in Nat, j \in Nat :
          a # o /\ pair = {<<a, i>>, <<o, j>>} /\ Met(a, i, o, j)
    BY <1>14 DEF EnergyInv
  <2>2. CASE Calls(burn[a], i) /\ Calls(burn[o], j) /\ Meter(a) = Meter(o) /\ Meter(a) # NoMeter
    <3>1. CASE a = r
      <4>1. NotAlone(a, burn'[a], i)
        BY <1>0, <1>6, <1>10, <2>1, <2>2, <3>1 DEF Calls
      <4>2. QED
        BY <2>1, <4>1 DEF Met
    <3>2. CASE o = r
      <4>1. NotAlone(o, burn'[o], j)
        BY <1>0, <1>6, <1>10, <2>1, <2>2, <3>2 DEF Calls
      <4>2. QED
        BY <2>1, <4>1 DEF Met
    <3>3. CASE a # r /\ o # r
      <4>1. Met(a, i, o, j)'
        BY <1>6, <2>2, <3>3 DEF Met, Calls, Meter
      <4>2. QED
        BY <2>1, <4>1
    <3>4. QED
      BY <3>1, <3>2, <3>3
  <2>3. CASE NotAlone(a, burn[a], i) \/ NotAlone(o, burn[o], j)
    <3>1. NotAlone(a, burn'[a], i) \/ NotAlone(o, burn'[o], j)
      BY <1>6, <1>8, <2>3
    <3>2. QED
      BY <2>1, <3>1 DEF Met
  <2>4. QED
    BY <2>1, <2>2, <2>3 DEF Met
<1>15. QED
  BY <1>1, <1>11, <1>13, <1>14 DEF EnergyInv

\* Of two attempts that were under way at a meter together, not both are booked as having
\* been alone: for any requests, any doors and meters, and whatever the readings say.
THEOREM OverlapsShow == EnergySpec => []OverlapIsSeen
<1>1. EnergyInit => EnergyInv
  <2> SUFFICES ASSUME EnergyInit PROVE EnergyInv
    OBVIOUS
  <2> DEFINE new == Fresh("new", 0, <<>>, FALSE)
  <2>1. <<>> \in Seq(EnergyRows) /\ Len(<<>>) = 0
    BY EmptySeq
  <2>2. new \in Burns /\ new.stage = "new" /\ new.door = 0 /\ new.rows = <<>>
    BY <2>1 DEF Fresh, Burns
  <2> HIDE DEF new
  <2>3. burn = [r \in Burners |-> new]
    BY DEF EnergyInit, new
  <2>4. \A r \in Burners : RowsAreOwn(r, burn[r])
    BY <2>1, <2>2, <2>3 DEF RowsAreOwn
  <2>5. \A m \in Range(Meters) : Under(m) = {}
    BY <2>2, <2>3 DEF Under
  <2>6. \A m \in Range(Meters) : IsFiniteSet(Under(m)) /\ Cardinality(Under(m)) = 0
    BY <2>5, FS_EmptySet
  <2>7. onMeter = [m \in Range(Meters) |-> 0] /\ shared = {}
    BY DEF EnergyInit
  <2>8. QED
    BY <2>2, <2>3, <2>4, <2>6, <2>7 DEF EnergyInv
<1>2. ASSUME EnergyInv, [EnergyNext]_energyVars PROVE EnergyInv'
  <2>1. CASE UNCHANGED energyVars
    BY <1>2, <2>1 DEF EnergyInv, energyVars, Under, Met, Meter
  <2>2. ASSUME NEW r \in Burners, Begin(r) PROVE EnergyInv'
    <3>1. burn[r].stage = "new" /\ Tries(r, 1, <<>>, FALSE) /\ UNCHANGED <<onMeter, shared>>
      BY <2>2 DEF Begin
    <3>2. burn[r].door = 0
      BY <1>2, <3>1 DEF EnergyInv, RowsAreOwn
    <3>3. <<>> \in Seq(EnergyRows) /\ \A k : k \notin 1 .. Len(<<>>)
      BY EmptySeq
    <3>4. 1 \in Nat /\ 1 > burn[r].door /\ burn[r].stage \in {"new", "after"}
      BY <3>1, <3>2
    <3>5. QED
      BY <1>2, <3>1, <3>3, <3>4, TriesStep
  <2>3. ASSUME NEW r \in Burners, NEW reading \in Readings, ReadBefore(r, reading) PROVE EnergyInv'
    BY <1>2, <2>3, ReadBeforeStep
  <2>4. ASSUME NEW r \in Burners, NEW outcome \in {"answered", "failed", "throttled", "cancelled"},
               UpstreamSettles(r, outcome)
        PROVE  EnergyInv'
    BY <1>2, <2>4, SettlesStep
  <2>5. ASSUME NEW r \in Burners, NEW reading \in Readings, NEW count \in TokenCounts,
               ReadAfter(r, reading, count)
        PROVE  EnergyInv'
    BY <1>2, <2>5, ReadAfterStep
  <2>6. QED
    BY <1>2, <2>1, <2>2, <2>3, <2>4, <2>5 DEF EnergyNext
<1>3. QED
  BY <1>1, <1>2, MetIsSeen, PTL DEF EnergySpec

-----------------------------------------------------------------------------
(* The measurements *)

Measurements == [status : {"none", "unmeasured", "pass", "fail", "measured"}, value : 0 .. Rungs]
Records == [entries : [Fields -> Measurements], full : Nat \cup {Never}]
Batteries == [on : BOOLEAN, model : CapModels \cup {Operator}, at : Nat, step : 1 .. Steps + 1,
              entries : [Fields -> Measurements]]

TruthOf(m, f) == IF f = "min_output_tokens" THEN Lowest(m) ELSE Verdict(m, f)
Says(m, f, recorded) == recorded \in {NoEntry, Unmeasured, TruthOf(m, f)}

\* A record says nothing wrong, and once a battery was run something about every field.
Honest(m, record) ==
  /\ \A f \in Fields : Says(m, f, record.entries[f])
  /\ record.full # Never => \A f \in Fields : record.entries[f] # NoEntry
Honestly(store) ==
  /\ store \in [CapModels -> Records]
  /\ \A m \in CapModels : Honest(m, store[m])

\* A battery says nothing wrong either, and something about the steps behind it.
Faithful(b, run) ==
  run.on =>
    /\ run.model \in CapModels
    /\ b # Operator => run.model = b
    /\ \A f \in Fields : Says(run.model, f, run.entries[f])
    /\ \A s \in 1 .. Len(Assertions) : s < run.step => run.entries[Assertions[s]] # NoEntry
    /\ run.step > Steps => run.entries["min_output_tokens"] # NoEntry

BatteryInv ==
  /\ moment \in Nat
  /\ Honestly(measured)
  /\ cached = NoCopy \/ Honestly(cached)
  /\ sweep.on => sweep.at \in Nat /\ Honestly(sweep.store)
  /\ battery \in [CapModels \cup {Operator} -> Batteries]
  /\ \A b \in CapModels \cup {Operator} : Faithful(b, battery[b])

LEMMA BatteryConstants ==
  /\ Rungs \in Nat \ {0}
  /\ Len(Assertions) \in Nat /\ Steps \in Nat /\ Steps = Len(Assertions) + Rungs
  /\ \A s \in 1 .. Len(Assertions) : Assertions[s] \in Fields \ {"min_output_tokens"}
  /\ \A f \in Fields : f = "min_output_tokens" \/ \E s \in 1 .. Len(Assertions) : f = Assertions[s]
  /\ Operator \notin CapModels
<1>1. /\ Rungs \in Nat \ {0} /\ CapModels \subseteq Nat \ {0}
      /\ Assertions \in Seq(Range(Assertions)) /\ "min_output_tokens" \notin Range(Assertions)
  BY CapabilityAssumption
<1>2. Len(Assertions) \in Nat /\ DOMAIN Assertions = 1 .. Len(Assertions)
  BY <1>1, LenProperties
<1>3. QED
  BY <1>1, <1>2 DEF Steps, Fields, Range, Operator

LEMMA EntryTypes ==
  /\ NoEntry \in Measurements /\ Unmeasured \in Measurements /\ NoEntry # Unmeasured
  /\ ~ Determinate(NoEntry) /\ ~ Determinate(Unmeasured)
  /\ \A m \in CapModels, f \in Fields :
       /\ TruthOf(m, f) \in Measurements /\ TruthOf(m, f) # NoEntry /\ TruthOf(m, f) # Unmeasured
       /\ Determinate(TruthOf(m, f))
<1>1. Rungs \in Nat \ {0} /\ \A m \in CapModels : Truth[m].tokens \in 0 .. Rungs
  BY CapabilityAssumption
<1>2. QED
  BY <1>1 DEF NoEntry, Unmeasured, Entry, Measurements, Determinate, TruthOf, Lowest, Verdict

\* What the invariant says of the records is what the property says.
LEMMA HonestIsTrue == BatteryInv => MeasurementsAreTrue
<1> SUFFICES ASSUME BatteryInv, NEW m \in CapModels
             PROVE  /\ \A f \in Fields : Determinate(measured[m].entries[f]) =>
                         measured[m].entries[f] = TruthOf(m, f)
                    /\ ~ Due(measured[m], moment) =>
                         \A f \in Fields : Determinate(measured[m].entries[f])
  BY DEF MeasurementsAreTrue, TruthOf
<1>1. Honest(m, measured[m])
  BY DEF BatteryInv, Honestly
<1>2. QED
  BY <1>1, EntryTypes DEF Honest, Says, Due, Incomplete

\* Folding a battery that is through into an honest record gives an honest record.
LEMMA MeasurementIsHonest ==
  ASSUME BatteryInv, NEW b \in CapModels \cup {Operator}, Finished(b),
         NEW record \in Records, Honest(battery[b].model, record)
  PROVE  Measurement(record, b) \in Records /\ Honest(battery[b].model, Measurement(record, b))
<1> DEFINE m == battery[b].model
           e == battery[b].entries
           new == [f \in Fields |-> Fold(record.entries[f], e[f])]
<1>1. /\ battery[b] \in Batteries /\ Faithful(b, battery[b])
      /\ battery[b].on /\ battery[b].step > Steps
  BY DEF BatteryInv, Finished
<1>2. /\ m \in CapModels /\ battery[b].at \in Nat /\ e \in [Fields -> Measurements]
      /\ battery[b].step \in 1 .. Steps + 1
      /\ \A f \in Fields : Says(m, f, e[f])
  BY <1>1 DEF Batteries, Faithful
<1>3. \A f \in Fields : e[f] # NoEntry
  BY <1>1, <1>2, BatteryConstants DEF Faithful
<1>4. Measurement(record, b) = [entries |-> new, full |-> battery[b].at]
  BY DEF Measurement
<1>5. record.entries \in [Fields -> Measurements] /\ \A f \in Fields : Says(m, f, record.entries[f])
  BY DEF Records, Honest
<1> HIDE DEF m, e
<1>6. ASSUME NEW f \in Fields
      PROVE  new[f] \in Measurements /\ Says(m, f, new[f]) /\ new[f] # NoEntry
  <2>1. new[f] = IF e[f] = Unmeasured /\ Determinate(record.entries[f]) THEN record.entries[f] ELSE e[f]
    BY DEF Fold
  <2>2. QED
    BY <1>2, <1>3, <1>5, <2>1, EntryTypes
<1>7. new \in [Fields -> Measurements] /\ \A f \in Fields : Says(m, f, new[f]) /\ new[f] # NoEntry
  BY <1>6
<1> HIDE DEF new
<1>8. QED
  BY <1>2, <1>4, <1>7 DEF Records, Honest, m

LEMMA NextRung ==
  ASSUME NEW step \in 1 .. Steps, step - Len(Assertions) > 0, step - Len(Assertions) # Rungs
  PROVE  step > Len(Assertions) /\ step + 1 \in step + 1 .. Steps + 1 /\ ~ (step + 1 > Steps)
BY BatteryConstants

\* A call writes one entry of its battery, or none, and the step.
LEMMA CallStep ==
  ASSUME BatteryInv, NEW b \in CapModels \cup {Operator}, battery[b].on, battery[b].step <= Steps,
         NEW e \in [Fields -> Measurements], NEW step \in battery[b].step + 1 .. Steps + 1,
         battery' = [battery EXCEPT ![b] = [battery[b] EXCEPT !.entries = e, !.step = step]],
         \A f \in Fields : Says(battery[b].model, f, e[f]),
         \A f \in Fields : battery[b].entries[f] # NoEntry => e[f] # NoEntry,
         \A s \in 1 .. Len(Assertions) : battery[b].step <= s /\ s < step => e[Assertions[s]] # NoEntry,
         step > Steps => e["min_output_tokens"] # NoEntry,
         UNCHANGED <<measured, cached, sweep, moment>>
  PROVE  BatteryInv'
<1> DEFINE run == battery[b]
           next == [run EXCEPT !.entries = e, !.step = step]
<1>1. run \in Batteries /\ Faithful(b, run) /\ battery \in [CapModels \cup {Operator} -> Batteries]
  BY DEF BatteryInv
<1>2. /\ battery' = [battery EXCEPT ![b] = next]
      /\ run.step \in Nat /\ step \in 1 .. Steps + 1
  BY <1>1, BatteryConstants DEF Batteries
<1>3. /\ next \in Batteries /\ next.entries = e /\ next.step = step /\ next.on = run.on
      /\ next.model = run.model
  BY <1>1, <1>2 DEF Batteries
<1>4. Faithful(b, next)
  <2>1. /\ run.model \in CapModels
        /\ b # Operator => run.model = b
    BY <1>1 DEF Faithful
  <2>2. ASSUME NEW s \in 1 .. Len(Assertions), s < step
        PROVE  e[Assertions[s]] # NoEntry
    <3>1. CASE s < run.step
      <4>1. run.entries[Assertions[s]] # NoEntry /\ Assertions[s] \in Fields
        BY <1>1, <3>1, BatteryConstants DEF Faithful
      <4>2. QED
        BY <4>1
    <3>2. CASE ~ (s < run.step)
      BY <1>2, <2>2, <3>2, BatteryConstants
    <3>3. QED
      BY <3>1, <3>2
  <2>3. QED
    BY <1>3, <2>1, <2>2 DEF Faithful
<1> HIDE DEF next
<1>5. /\ battery' \in [CapModels \cup {Operator} -> Batteries]
      /\ \A c \in CapModels \cup {Operator} : Faithful(c, battery'[c])
  BY <1>1, <1>2, <1>3, <1>4 DEF BatteryInv
<1>6. QED
  BY <1>5 DEF BatteryInv

LEMMA CalledStep ==
  ASSUME BatteryInv, NEW b \in CapModels \cup {Operator}, Called(b)
  PROVE  BatteryInv'
<1> DEFINE m == battery[b].model
           e == battery[b].entries
           step == battery[b].step
<1>1. UNCHANGED <<measured, cached, sweep, moment>> /\ battery[b].on /\ step <= Steps
  BY DEF Called, CallAnswered, CallLost, CallThrottled
<1>2. battery[b] \in Batteries /\ battery \in [CapModels \cup {Operator} -> Batteries]
  BY DEF BatteryInv
<1>3. /\ m \in CapModels /\ e \in [Fields -> Measurements] /\ step \in 1 .. Steps
      /\ \A f \in Fields : Says(m, f, e[f])
  BY <1>1, <1>2, BatteryConstants DEF BatteryInv, Batteries, Faithful
<1>4. FieldOf(step) \in Fields
  BY <1>3, BatteryConstants DEF FieldOf, Fields
<1>5. ASSUME NEW found \in Measurements, NEW next \in step + 1 .. Steps + 1,
             Measures(b, FieldOf(step), found, next),
             Says(m, FieldOf(step), found), found # NoEntry,
             next = step + 1 \/ step > Len(Assertions),
             next > Steps => FieldOf(step) = "min_output_tokens"
      PROVE  BatteryInv'
  <2> DEFINE new == [e EXCEPT ![FieldOf(step)] = found]
  <2>1. battery' = [battery EXCEPT ![b] = [battery[b] EXCEPT !.entries = new, !.step = next]]
    BY <1>2, <1>5 DEF Measures
  <2>2. new \in [Fields -> Measurements] /\ \A f \in Fields : new[f] = IF f = FieldOf(step) THEN found ELSE e[f]
    BY <1>3, <1>4
  <2> HIDE DEF new
  <2>3. \A f \in Fields : Says(m, f, new[f]) /\ (e[f] # NoEntry => new[f] # NoEntry)
    BY <1>3, <1>5, <2>2
  <2>4. ASSUME NEW s \in 1 .. Len(Assertions), step <= s, s < next
        PROVE  new[Assertions[s]] # NoEntry
    <3>1. s = step /\ Assertions[s] = FieldOf(step)
      BY <1>3, <1>5, <2>4, BatteryConstants DEF FieldOf
    <3>2. QED
      BY <1>4, <1>5, <2>2, <3>1
  <2>5. next > Steps => new["min_output_tokens"] # NoEntry
    BY <1>4, <1>5, <2>2
  <2>6. QED
    BY <1>1, <2>1, <2>2, <2>3, <2>4, <2>5, CallStep
<1>6. CASE CallAnswered(b)
  <2> DEFINE rung == step - Len(Assertions)
  <2>1. CASE rung <= 0
    <3>1. Measures(b, FieldOf(step), Verdict(m, FieldOf(step)), step + 1)
      BY <1>6, <1>3, BatteryConstants, <2>1 DEF CallAnswered
    <3>2. FieldOf(step) # "min_output_tokens" /\ step <= Len(Assertions)
      BY <1>3, <2>1, BatteryConstants DEF FieldOf
    <3>3. Verdict(m, FieldOf(step)) = TruthOf(m, FieldOf(step))
      BY <3>2 DEF TruthOf
    <3>4. step + 1 \in step + 1 .. Steps + 1 /\ ~ (step + 1 > Steps)
      BY <1>3, <3>2, BatteryConstants
    <3>5. Says(m, FieldOf(step), Verdict(m, FieldOf(step)))
      BY <3>3 DEF Says
    <3>6. QED
      BY <1>3, <1>4, <1>5, <3>1, <3>3, <3>4, <3>5, EntryTypes
  <2>2. CASE rung > 0 /\ (rung = Truth[m].tokens \/ rung = Rungs)
    <3>1. Measures(b, FieldOf(step), Lowest(m), Steps + 1)
      BY <1>6, <1>3, BatteryConstants, <2>2 DEF CallAnswered
    <3>2. FieldOf(step) = "min_output_tokens" /\ step > Len(Assertions)
      BY <1>3, <2>2, BatteryConstants DEF FieldOf
    <3>3. Lowest(m) = TruthOf(m, FieldOf(step))
      BY <3>2 DEF TruthOf
    <3>4. Steps + 1 \in step + 1 .. Steps + 1
      BY <1>3, BatteryConstants
    <3>5. Says(m, FieldOf(step), Lowest(m))
      BY <3>3 DEF Says
    <3>6. QED
      BY <1>3, <1>4, <1>5, <3>1, <3>2, <3>3, <3>4, <3>5, EntryTypes
  <2>3. CASE rung > 0 /\ ~ (rung = Truth[m].tokens \/ rung = Rungs)
    <3>1. battery' = [battery EXCEPT ![b].step = step + 1]
      BY <1>6, <1>3, BatteryConstants, <2>3 DEF CallAnswered
    <3>2. battery' = [battery EXCEPT ![b] = [battery[b] EXCEPT !.entries = e, !.step = step + 1]]
      BY <1>2, <3>1 DEF Batteries
    <3>3. step > Len(Assertions) /\ step + 1 \in step + 1 .. Steps + 1 /\ ~ (step + 1 > Steps)
      BY <1>3, <2>3, NextRung
    <3>4. \A s \in 1 .. Len(Assertions) : ~ (step <= s)
      BY <1>3, <3>3, BatteryConstants
    <3>5. QED
      BY <1>1, <1>3, <3>2, <3>3, <3>4, CallStep
  <2>4. QED
    BY <1>3, <2>1, <2>2, <2>3, BatteryConstants
<1>7. CASE CallLost(b)
  <2> DEFINE next == IF step <= Len(Assertions) THEN step + 1 ELSE Steps + 1
  <2>1. Measures(b, FieldOf(step), Unmeasured, next)
    BY <1>7 DEF CallLost
  <2>2. /\ next \in step + 1 .. Steps + 1
        /\ next = step + 1 \/ step > Len(Assertions)
        /\ next > Steps => FieldOf(step) = "min_output_tokens"
    BY <1>3, BatteryConstants DEF FieldOf
  <2>3. Says(m, FieldOf(step), Unmeasured)
    BY DEF Says
  <2>4. QED
    BY <1>5, <2>1, <2>2, <2>3, EntryTypes
<1>8. CASE CallThrottled(b)
  <2> DEFINE new == [f \in Fields |-> IF \E s \in step .. Steps : FieldOf(s) = f THEN Unmeasured ELSE e[f]]
  <2>1. battery' = [battery EXCEPT ![b] = [battery[b] EXCEPT !.entries = new, !.step = Steps + 1]]
    BY <1>2, <1>8 DEF CallThrottled, Batteries
  <2>2. new \in [Fields -> Measurements]
    BY <1>3, EntryTypes
  <2>3. \A f \in Fields : Says(m, f, new[f]) /\ (e[f] # NoEntry => new[f] # NoEntry)
    BY <1>3, EntryTypes DEF Says
  <2>4. ASSUME NEW s \in 1 .. Len(Assertions), step <= s, s < Steps + 1
        PROVE  new[Assertions[s]] # NoEntry
    <3>1. s \in step .. Steps /\ FieldOf(s) = Assertions[s] /\ Assertions[s] \in Fields
      BY <1>3, <2>4, BatteryConstants DEF FieldOf
    <3>2. QED
      BY <3>1, EntryTypes
  <2>5. new["min_output_tokens"] # NoEntry
    <3>1. Steps \in step .. Steps /\ FieldOf(Steps) = "min_output_tokens" /\ "min_output_tokens" \in Fields
      BY <1>3, BatteryConstants DEF FieldOf, Fields
    <3>2. QED
      BY <3>1, EntryTypes
  <2>6. Steps + 1 \in step + 1 .. Steps + 1
    BY <1>3, BatteryConstants
  <2> HIDE DEF new
  <2>7. QED
    BY <1>1, <2>1, <2>2, <2>3, <2>4, <2>5, <2>6, CallStep
<1>9. QED
  BY <1>6, <1>7, <1>8 DEF Called

\* A battery that has just begun, or none.
LEMMA BegunFacts ==
  /\ AtRest \in Batteries
  /\ \A b : Faithful(b, AtRest)
  /\ \A m \in CapModels, at \in Nat :
       /\ Started(m, at) \in Batteries
       /\ \A b \in {m, Operator} : Faithful(b, Started(m, at))
<1>1. AtRest \in Batteries /\ AtRest.on = FALSE /\ \A f \in Fields : AtRest.entries[f] = NoEntry
  BY BatteryConstants, EntryTypes DEF AtRest, Batteries, Operator
<1>2. ASSUME NEW m \in CapModels, NEW at \in Nat
      PROVE  /\ Started(m, at) \in Batteries
             /\ \A b \in {m, Operator} : Faithful(b, Started(m, at))
  <2>1. /\ Started(m, at) \in Batteries
        /\ Started(m, at).model = m /\ Started(m, at).step = 1
        /\ Started(m, at).entries = AtRest.entries
    BY <1>1, BatteryConstants DEF Started, Batteries, AtRest
  <2>2. \A f \in Fields : Says(m, f, Started(m, at).entries[f])
    BY <1>1, <2>1 DEF Says
  <2>3. QED
    BY <2>1, <2>2, BatteryConstants DEF Faithful
<1>3. QED
  BY <1>1, <1>2 DEF Faithful

LEMMA WrittenStep ==
  ASSUME BatteryInv, NEW store, Written(store), Honestly(store), UNCHANGED <<sweep, moment>>,
         battery' \in [CapModels \cup {Operator} -> Batteries],
         \A b \in CapModels \cup {Operator} : Faithful(b, battery'[b])
  PROVE  BatteryInv'
BY DEF BatteryInv, Written

LEMMA LoadedIsHonest == BatteryInv => Honestly(Loaded)
BY DEF BatteryInv, Loaded

\* Whatever calls are throttled or lost, and however sweeps, evaluations, traffic and
\* restarts write over each other, no record claims what the model does not do, and a
\* record that is left alone has an answer in every field: for any models and batteries.
THEOREM RecordsAreTrue == BatterySpec => []MeasurementsAreTrue
<1>1. BatteryInit => BatteryInv
  <2> SUFFICES ASSUME BatteryInit PROVE BatteryInv
    OBVIOUS
  <2>1. Unassessed \in Records /\ \A m \in CapModels : Honest(m, Unassessed)
    BY EntryTypes DEF Unassessed, Records, Honest, Says
  <2>2. Honestly(measured)
    BY <2>1 DEF BatteryInit, Honestly
  <2>3. /\ battery \in [CapModels \cup {Operator} -> Batteries]
        /\ \A b \in CapModels \cup {Operator} : Faithful(b, battery[b])
    BY BegunFacts DEF BatteryInit
  <2>4. QED
    BY <2>2, <2>3 DEF BatteryInit, BatteryInv, NoSweep
<1>2. ASSUME BatteryInv, [BatteryNext]_batteryVars PROVE BatteryInv'
  <2>0. /\ battery \in [CapModels \cup {Operator} -> Batteries]
        /\ \A b \in CapModels \cup {Operator} : Faithful(b, battery[b])
        /\ DOMAIN battery = CapModels \cup {Operator}
        /\ moment \in Nat
    BY <1>2 DEF BatteryInv
  <2>1. CASE UNCHANGED batteryVars
    BY <1>2, <2>1 DEF BatteryInv, batteryVars
  <2>2. ASSUME NEW b \in DOMAIN battery, Called(b) PROVE BatteryInv'
    BY <1>2, <2>0, <2>2, CalledStep
  <2>3. CASE SweepBegins
    <3>1. PICK pool \in SUBSET CapModels : \E alive \in SUBSET Selected(pool) :
            /\ sweep' = [on |-> TRUE, at |-> moment, store |-> measured]
            /\ battery' = [b \in DOMAIN battery |-> IF b \in alive THEN Started(b, moment) ELSE battery[b]]
            /\ UNCHANGED <<measured, cached, moment>>
      BY <2>3 DEF SweepBegins
    <3>2. Selected(pool) \subseteq CapModels
      BY DEF Selected
    <3>3. PICK alive \in SUBSET CapModels :
            battery' = [b \in DOMAIN battery |-> IF b \in alive THEN Started(b, moment) ELSE battery[b]]
      BY <3>1, <3>2
    <3>4. \A b \in CapModels \cup {Operator} :
            battery'[b] \in Batteries /\ Faithful(b, battery'[b])
      BY <2>0, <3>3, BegunFacts
    <3>5. battery' \in [CapModels \cup {Operator} -> Batteries]
      BY <2>0, <3>3, <3>4
    <3>6. sweep'.at \in Nat /\ sweep'.store = measured /\ UNCHANGED <<measured, cached, moment>>
      BY <2>0, <3>1
    <3>7. QED
      BY <1>2, <3>4, <3>5, <3>6 DEF BatteryInv
  <2>4. CASE SweepEnds
    <3> DEFINE record(m) == IF battery[m].on THEN Measurement(sweep.store[m], m) ELSE sweep.store[m]
    <3>1. /\ sweep.on /\ measured' = [m \in CapModels |-> record(m)]
          /\ \A m \in CapModels : battery[m].on => Finished(m)
          /\ battery' = [b \in DOMAIN battery |-> IF b = Operator THEN battery[b] ELSE AtRest]
          /\ sweep' = NoSweep /\ UNCHANGED <<cached, moment>>
      BY <2>4 DEF SweepEnds
    <3>2. ASSUME NEW m \in CapModels PROVE record(m) \in Records /\ Honest(m, record(m))
      <4>1. sweep.store[m] \in Records /\ Honest(m, sweep.store[m])
        BY <1>2, <3>1 DEF BatteryInv, Honestly
      <4>2. battery[m].on => battery[m].model = m
        BY <2>0, BatteryConstants DEF Faithful
      <4>3. QED
        BY <1>2, <3>1, <4>1, <4>2, MeasurementIsHonest
    <3> HIDE DEF record
    <3>3. Honestly(measured')
      BY <3>1, <3>2 DEF Honestly
    <3>4. /\ battery' \in [CapModels \cup {Operator} -> Batteries]
          /\ \A b \in CapModels \cup {Operator} : Faithful(b, battery'[b])
      BY <2>0, <3>1, BegunFacts
    <3>5. QED
      BY <1>2, <3>1, <3>3, <3>4 DEF BatteryInv, NoSweep
  <2>5. ASSUME NEW m \in CapModels, EvalBegins(m) PROVE BatteryInv'
    <3>1. /\ battery' = [battery EXCEPT ![Operator] = Started(m, moment)]
          /\ UNCHANGED <<measured, cached, sweep, moment>>
      BY <2>5 DEF EvalBegins
    <3>2. /\ battery' \in [CapModels \cup {Operator} -> Batteries]
          /\ \A b \in CapModels \cup {Operator} : Faithful(b, battery'[b])
      BY <2>0, <3>1, BegunFacts
    <3>3. QED
      BY <1>2, <3>1, <3>2 DEF BatteryInv
  <2>6. CASE EvalEnds
    <3> DEFINE m == battery[Operator].model
               store == [Loaded EXCEPT ![m] = Measurement(Loaded[m], Operator)]
    <3>1. /\ Finished(Operator) /\ Written(store)
          /\ battery' = [battery EXCEPT ![Operator] = AtRest]
          /\ UNCHANGED <<sweep, moment>>
      BY <2>6 DEF EvalEnds
    <3>2. Honestly(Loaded)
      BY <1>2, LoadedIsHonest
    <3>3. m \in CapModels
      BY <2>0, <3>1 DEF Finished, Faithful
    <3>4. Measurement(Loaded[m], Operator) \in Records /\ Honest(m, Measurement(Loaded[m], Operator))
      BY <1>2, <3>1, <3>2, <3>3, MeasurementIsHonest DEF Honestly
    <3>5. Honestly(store)
      BY <3>2, <3>3, <3>4 DEF Honestly
    <3>6. /\ battery' \in [CapModels \cup {Operator} -> Batteries]
          /\ \A b \in CapModels \cup {Operator} : Faithful(b, battery'[b])
      BY <2>0, <3>1, BegunFacts
    <3> HIDE DEF store
    <3>7. QED
      BY <1>2, <3>1, <3>5, <3>6, WrittenStep
  <2>7. CASE TrafficWrites
    <3>1. Written(Loaded) /\ UNCHANGED <<sweep, battery, moment>> /\ Honestly(Loaded)
      BY <1>2, <2>7, LoadedIsHonest DEF TrafficWrites
    <3>2. QED
      BY <1>2, <2>0, <3>1, WrittenStep
  <2>8. CASE CachedCopyExpires
    BY <1>2, <2>8 DEF CachedCopyExpires, BatteryInv
  <2>9. CASE MomentPasses
    BY <1>2, <2>9 DEF MomentPasses, BatteryInv
  <2>10. CASE GatewayRestarts
    <3>1. /\ cached' = NoCopy /\ sweep' = NoSweep
          /\ battery' = [b \in DOMAIN battery |-> AtRest]
          /\ UNCHANGED <<measured, moment>>
      BY <2>10 DEF GatewayRestarts
    <3>2. /\ battery' \in [CapModels \cup {Operator} -> Batteries]
          /\ \A b \in CapModels \cup {Operator} : Faithful(b, battery'[b])
      BY <2>0, <3>1, BegunFacts
    <3>3. QED
      BY <1>2, <3>1, <3>2 DEF BatteryInv, NoSweep
  <2>11. QED
    BY <1>2, <2>1, <2>2, <2>3, <2>4, <2>5, <2>6, <2>7, <2>8, <2>9, <2>10 DEF BatteryNext
<1>3. QED
  BY <1>1, <1>2, HonestIsTrue, PTL DEF BatterySpec

-----------------------------------------------------------------------------
(* The sessions *)

\* A session in the line, and what the index is to have of it.
SessionIds == GeneratedIds \cup {h.session : h \in SessionHeaders}
SessionRecord == [id : SessionIds, agent : KnownAgents, last : Nat, active : BOOLEAN]
IdsIn(line) == {line[i].id : i \in 1 .. Len(line)}
IdsOf(line, a) == {line[i].id : i \in {i \in 1 .. Len(line) : line[i].agent = a}}
OneOfEach(line) == \A i, j \in 1 .. Len(line) : line[i].id = line[j].id => i = j

SessionsInv ==
  /\ clock \in Nat
  /\ sessions \in Seq(SessionRecord)
  /\ OneOfEach(sessions)
  /\ byAgent = [a \in KnownAgents |-> IdsOf(sessions, a)]
  /\ Len(sessions) <= MaxSessions
  /\ \A a \in KnownAgents : Cardinality(byAgent[a]) <= MaxPerAgent

\* As many ids as sessions.
LEMMA IdsAreCounted ==
  ASSUME NEW line \in Seq(SessionRecord), OneOfEach(line)
  PROVE  /\ IsFiniteSet(IdsIn(line)) /\ Cardinality(IdsIn(line)) = Len(line)
         /\ \A a : IsFiniteSet(IdsOf(line, a))
<1>1. Len(line) \in Nat
  BY LenProperties
<1> DEFINE f == [i \in 1 .. Len(line) |-> line[i].id]
<1>2. f \in Bijection(1 .. Len(line), IdsIn(line))
  <2>1. f \in [1 .. Len(line) -> IdsIn(line)]
    BY DEF IdsIn
  <2>2. f \in Injection(1 .. Len(line), IdsIn(line))
    BY <2>1 DEF OneOfEach, Injection, IsInjective
  <2>3. f \in Surjection(1 .. Len(line), IdsIn(line))
    BY <2>1 DEF IdsIn, Surjection
  <2>4. QED
    BY <2>2, <2>3 DEF Bijection
<1>3. ExistsBijection(1 .. Len(line), IdsIn(line))
  BY <1>2 DEF ExistsBijection
<1>4. Cardinality(IdsIn(line)) = Len(line)
  BY <1>1, <1>3, FS_CountingElements
<1>5. IsFiniteSet(IdsIn(line))
  BY <1>1, <1>3, FS_NatBijection
<1>6. \A a : IdsOf(line, a) \in SUBSET IdsIn(line)
  BY DEF IdsOf, IdsIn
<1>7. QED
  BY <1>4, <1>5, <1>6, FS_Subset

\* Who leaves is gone from the line, and nobody else.
LEMMA WithoutFacts ==
  ASSUME NEW line \in Seq(SessionRecord), OneOfEach(line), NEW ids
  PROVE  /\ Without(line, ids) \in Seq(SessionRecord)
         /\ OneOfEach(Without(line, ids))
         /\ IdsIn(Without(line, ids)) = IdsIn(line) \ ids
         /\ \A a : IdsOf(Without(line, ids), a) = IdsOf(line, a) \ ids
<1> DEFINE I == {i \in DOMAIN line : line[i].id \notin ids}
           p == Picked(line, I)
<1>1. Without(line, ids) = p
  <2>1. \A i \in DOMAIN line : (IF line[i].id \in ids THEN <<>> ELSE <<line[i]>>) = IF i \in I THEN <<line[i]>> ELSE <<>>
    OBVIOUS
  <2>2. [i \in DOMAIN line |-> IF line[i].id \in ids THEN <<>> ELSE <<line[i]>>]
          = [i \in DOMAIN line |-> IF i \in I THEN <<line[i]>> ELSE <<>>]
    BY <2>1
  <2>3. QED
    BY <2>2 DEF Without, Picked
<1>2. DOMAIN line = 1 .. Len(line) /\ Len(line) \in Nat
  BY LenProperties
<1>3. p \in Seq(SessionRecord)
  BY PickedFacts
<1>4. PICK h : PicksBy(p, h, line, I, Len(line))
  BY PickedFacts
<1>5. Len(p) \in Nat
  BY <1>3, LenProperties
<1> HIDE DEF p
<1>6. \A j \in 1 .. Len(p) : h[j] \in 1 .. Len(line) /\ p[j] = line[h[j]] /\ line[h[j]].id \notin ids
  BY <1>4 DEF PicksBy
<1>7. \A i \in 1 .. Len(line) : line[i].id \notin ids => \E j \in 1 .. Len(p) : h[j] = i
  BY <1>2, <1>4 DEF PicksBy
<1>8. \A i, j \in 1 .. Len(p) : i < j => h[i] < h[j]
  BY <1>4 DEF PicksBy
<1> HIDE DEF I
<1>9. OneOfEach(p)
  <2>1. SUFFICES ASSUME NEW i \in 1 .. Len(p), NEW j \in 1 .. Len(p), p[i].id = p[j].id
                 PROVE  i = j
    BY DEF OneOfEach
  <2>2. h[i] = h[j] /\ h[i] \in 1 .. Len(line)
    BY <1>6, <2>1 DEF OneOfEach
  <2>3. ~ (i < j) /\ ~ (j < i)
    BY <1>8, <2>2, <1>6, <1>2
  <2>4. QED
    BY <1>5, <2>3
<1>10. IdsIn(p) = IdsIn(line) \ ids
  BY <1>6, <1>7 DEF IdsIn
<1>11. ASSUME NEW a
       PROVE  IdsOf(p, a) = IdsOf(line, a) \ ids
  <2>1. ASSUME NEW j \in 1 .. Len(p), p[j].agent = a
        PROVE  p[j].id \in IdsOf(line, a) \ ids
    BY <1>6, <2>1 DEF IdsOf
  <2>2. ASSUME NEW i \in 1 .. Len(line), line[i].agent = a, line[i].id \notin ids
        PROVE  line[i].id \in IdsOf(p, a)
    <3>1. PICK j \in 1 .. Len(p) : h[j] = i
      BY <1>7, <2>2
    <3>2. p[j] = line[i]
      BY <1>6, <3>1
    <3>3. QED
      BY <2>2, <3>2 DEF IdsOf
  <2>3. QED
    BY <2>1, <2>2 DEF IdsOf
<1>12. QED
  BY <1>1, <1>3, <1>9, <1>10, <1>11

\* A session that stays what it was, but for its times and its state.
LEMMA SameSessions ==
  ASSUME NEW line \in Seq(SessionRecord), OneOfEach(line), NEW new \in Seq(SessionRecord),
         Len(new) = Len(line),
         \A i \in 1 .. Len(line) : new[i].id = line[i].id /\ new[i].agent = line[i].agent
  PROVE  /\ OneOfEach(new) /\ IdsIn(new) = IdsIn(line)
         /\ \A a : IdsOf(new, a) = IdsOf(line, a)
<1>1. OneOfEach(new)
  BY DEF OneOfEach
<1>2. IdsIn(new) = IdsIn(line)
  BY DEF IdsIn
<1>3. ASSUME NEW a
      PROVE  IdsOf(new, a) = IdsOf(line, a)
  BY DEF IdsOf
<1>4. QED
  BY <1>1, <1>2, <1>3

\* A session that is opened.
LEMMA OpenedFacts ==
  ASSUME NEW line \in Seq(SessionRecord), OneOfEach(line), NEW s \in SessionRecord, s.id \notin IdsIn(line)
  PROVE  /\ Append(line, s) \in Seq(SessionRecord)
         /\ OneOfEach(Append(line, s))
         /\ Len(Append(line, s)) = Len(line) + 1
         /\ \A a : IdsOf(Append(line, s), a) = IdsOf(line, a) \cup (IF a = s.agent THEN {s.id} ELSE {})
<1> DEFINE new == Append(line, s)
<1>1. /\ new \in Seq(SessionRecord)
      /\ Len(line) \in Nat
      /\ Len(new) = Len(line) + 1
      /\ new[Len(line) + 1] = s
      /\ \A i \in 1 .. Len(line) : new[i] = line[i]
  BY AppendProperties, LenProperties
<1> HIDE DEF new
<1>2. \A i \in 1 .. Len(new) : i = Len(line) + 1 \/ i \in 1 .. Len(line)
  BY <1>1
<1>3. \A i \in 1 .. Len(line) : line[i].id # s.id /\ i \in 1 .. Len(new)
  BY <1>1 DEF IdsIn
<1>4. OneOfEach(new)
  <2>1. SUFFICES ASSUME NEW i \in 1 .. Len(new), NEW j \in 1 .. Len(new), new[i].id = new[j].id
                 PROVE  i = j
    BY DEF OneOfEach
  <2>2. QED
    BY <1>1, <1>2, <1>3, <2>1 DEF OneOfEach
<1>5. ASSUME NEW a
      PROVE  IdsOf(new, a) = IdsOf(line, a) \cup (IF a = s.agent THEN {s.id} ELSE {})
  <2>1. Len(line) + 1 \in 1 .. Len(new)
    BY <1>1
  <2>2. \A x \in IdsOf(new, a) : x \in IdsOf(line, a) \cup (IF a = s.agent THEN {s.id} ELSE {})
    BY <1>1, <1>2 DEF IdsOf
  <2>3. \A x \in IdsOf(line, a) : x \in IdsOf(new, a)
    BY <1>1, <1>3 DEF IdsOf
  <2>4. a = s.agent => s.id \in IdsOf(new, a)
    BY <1>1, <2>1 DEF IdsOf
  <2>5. QED
    BY <2>2, <2>3, <2>4
<1>6. QED
  BY <1>1, <1>4, <1>5 DEF new

\* The registry has its names in a line.
LEMMA NamesAreKnown ==
  \E T : AgentNames \in Seq(T)
<1> DEFINE names == [i \in DOMAIN AgentOverrides |-> AgentOverrides[i].name]
           all == BuiltinAgents \o AgentFolders \o names
           T == Range(BuiltinAgents) \cup Range(AgentFolders) \cup Range(names)
           pieces == [i \in DOMAIN all |-> IF \E j \in 1 .. i - 1 : all[j] = all[i] THEN <<>> ELSE <<all[i]>>]
<1>1. names \in Seq(T)
  <2>1. DOMAIN AgentOverrides = 1 .. Len(AgentOverrides) /\ Len(AgentOverrides) \in Nat
    BY SessionsAssumption, LenProperties
  <2>2. \A i \in 1 .. Len(AgentOverrides) : AgentOverrides[i].name \in Range(names)
    BY <2>1 DEF Range
  <2>3. QED
    BY <2>1, <2>2, IsASeq
<1>2. BuiltinAgents \in Seq(T) /\ AgentFolders \in Seq(T)
  <2>1. BuiltinAgents \in Seq(Range(BuiltinAgents)) /\ AgentFolders \in Seq(Range(AgentFolders))
    BY SessionsAssumption
  <2>2. Range(BuiltinAgents) \subseteq T /\ Range(AgentFolders) \subseteq T
    OBVIOUS
  <2> HIDE DEF T
  <2>3. ASSUME NEW A, A \subseteq T, NEW line \in Seq(A)
        PROVE  line \in Seq(T)
    <3>1. DOMAIN line = 1 .. Len(line) /\ Len(line) \in Nat /\ line = [i \in 1 .. Len(line) |-> line[i]]
      BY LenProperties
    <3>2. \A i \in 1 .. Len(line) : line[i] \in T
      BY <2>3, ElementOfSeq
    <3>3. QED
      BY <3>1, <3>2, IsASeq
  <2>4. QED
    BY <2>1, <2>2, <2>3
<1> HIDE DEF T, names
<1>3. all \in Seq(T)
  BY <1>1, <1>2, ConcatProperties
<1> HIDE DEF all
<1>4. DOMAIN all = 1 .. Len(all) /\ Len(all) \in Nat /\ \A i \in 1 .. Len(all) : all[i] \in T
  BY <1>3, LenProperties, ElementOfSeq
<1>5. pieces \in Seq(Seq(T))
  <2>1. \A i \in 1 .. Len(all) : <<>> \in Seq(T) /\ <<all[i]>> \in Seq(T)
    BY <1>4
  <2>2. QED
    BY <1>4, <2>1, IsASeq
<1>6. FlattenSeq(pieces) \in Seq(T)
  BY <1>5, FlattenRange
<1>7. AgentNames = FlattenSeq(pieces)
  BY DEF AgentNames, all, names
<1>8. QED
  BY <1>6, <1>7

\* Whom a token belongs to is one of the agents.
LEMMA OwnerIsKnown ==
  ASSUME NEW token, TokenOwner(token) # NoAgent
  PROVE  TokenOwner(token) \in Range(AgentNames)
<1>1. PICK T : AgentNames \in Seq(T)
  BY NamesAreKnown
<1>2. DOMAIN AgentNames = 1 .. Len(AgentNames) /\ Len(AgentNames) \in Nat
  BY <1>1, LenProperties
<1> DEFINE I == {i \in 1 .. Len(AgentNames) : token \in TokensOf(AgentNames[i])}
<1>3. I # {} /\ TokenOwner(token) = AgentNames[Max(I)]
  BY DEF TokenOwner, SelectLastInSeq
<1>4. Max(I) \in I
  BY <1>2, <1>3, GreatestPosition
<1>5. QED
  BY <1>2, <1>3, <1>4 DEF Range

\* So is whoever calls, by whatever the caller is named.
LEMMA CallerIsKnown ==
  ASSUME NEW h \in SessionHeaders
  PROVE  Identity(h).agent \in KnownAgents
<1>1. h.agent = HeaderAgent(h) \/ HeaderAgent(h) = NoAgent
  BY DEF HeaderAgent
<1>2. HeaderAgent(h) \in KnownAgents /\ Anonymous \in KnownAgents /\ Range(AgentNames) \subseteq KnownAgents
  BY DEF KnownAgents
<1>3. CASE SignatureCounts(h)
  <2>1. h.agent \in KnownAgents
    BY <1>1, <1>2, <1>3 DEF SignatureCounts
  <2>2. QED
    BY <1>3, <2>1 DEF Identity
<1>4. CASE ~ SignatureCounts(h) /\ TokenOwner(h.bearer) # NoAgent
  <2>1. TokenOwner(h.bearer) \in KnownAgents
    BY <1>2, <1>4, OwnerIsKnown
  <2>2. QED
    BY <1>4, <2>1 DEF Identity
<1>5. CASE ~ SignatureCounts(h) /\ TokenOwner(h.bearer) = NoAgent /\ HeaderAgent(h) # NoAgent
  <2>1. h.agent \in KnownAgents
    BY <1>1, <1>2, <1>5
  <2>2. QED
    BY <1>5, <2>1 DEF Identity
<1>6. CASE ~ SignatureCounts(h) /\ TokenOwner(h.bearer) = NoAgent /\ HeaderAgent(h) = NoAgent
  BY <1>2, <1>6 DEF Identity
<1>7. QED
  BY <1>3, <1>4, <1>5, <1>6

\* A session whose times or whose state are written stays where it is.
LEMMA TouchedFacts ==
  ASSUME NEW line \in Seq(SessionRecord), OneOfEach(line), NEW new,
         DOMAIN new = DOMAIN line,
         \A i \in DOMAIN line : new[i] \in SessionRecord /\ new[i].id = line[i].id /\ new[i].agent = line[i].agent,
         new = [i \in DOMAIN new |-> new[i]]
  PROVE  /\ new \in Seq(SessionRecord) /\ OneOfEach(new) /\ Len(new) = Len(line)
         /\ \A a : IdsOf(new, a) = IdsOf(line, a)
<1>1. DOMAIN line = 1 .. Len(line) /\ Len(line) \in Nat
  BY LenProperties
<1>2. new \in Seq(SessionRecord)
  BY <1>1, IsASeq
<1>3. Len(new) = Len(line)
  <2>1. Len(new) \in Nat /\ DOMAIN new = 1 .. Len(new)
    BY <1>2, LenProperties
  <2>2. QED
    BY <1>1, <2>1
<1>4. QED
  BY <1>1, <1>2, <1>3, SameSessions

\* One session is written in its place.
LEMMA WrittenFacts ==
  ASSUME SessionsInv, NEW i,
         \/ sessions' = [sessions EXCEPT ![i].active = TRUE, ![i].last = clock]
         \/ sessions' = [sessions EXCEPT ![i].last = clock],
         byAgent' = byAgent, clock' = clock
  PROVE  SessionsInv'
<1>1. /\ sessions \in Seq(SessionRecord) /\ clock \in Nat
      /\ DOMAIN sessions = 1 .. Len(sessions) /\ Len(sessions) \in Nat
      /\ \A j \in DOMAIN sessions : sessions[j] \in SessionRecord
  BY LenProperties, ElementOfSeq DEF SessionsInv
<1>2. /\ DOMAIN sessions' = DOMAIN sessions
      /\ sessions' = [j \in DOMAIN sessions' |-> sessions'[j]]
  BY <1>1
<1>3. ASSUME NEW j \in DOMAIN sessions
      PROVE  /\ sessions'[j] \in SessionRecord
             /\ sessions'[j].id = sessions[j].id /\ sessions'[j].agent = sessions[j].agent
  <2> DEFINE s == sessions[j]
  <2>1. sessions'[j] \in {s, [s EXCEPT !.last = clock], [s EXCEPT !.active = TRUE, !.last = clock]}
    BY <1>1
  <2>2. s \in SessionRecord
    BY <1>1
  <2> HIDE DEF s
  <2>3. /\ [s EXCEPT !.last = clock] \in SessionRecord
        /\ [s EXCEPT !.active = TRUE, !.last = clock] \in SessionRecord
    BY <1>1, <2>2 DEF SessionRecord
  <2>4. \A t \in {s, [s EXCEPT !.last = clock], [s EXCEPT !.active = TRUE, !.last = clock]} :
          t.id = s.id /\ t.agent = s.agent
    BY <2>2 DEF SessionRecord
  <2>5. QED
    BY <2>1, <2>2, <2>3, <2>4 DEF s
<1>4. /\ sessions' \in Seq(SessionRecord) /\ OneOfEach(sessions') /\ Len(sessions') = Len(sessions)
      /\ \A a : IdsOf(sessions', a) = IdsOf(sessions, a)
  <2> DEFINE new == sessions'
  <2>1. OneOfEach(sessions)
    BY DEF SessionsInv
  <2>2. DOMAIN new = DOMAIN sessions /\ new = [j \in DOMAIN new |-> new[j]]
    BY <1>2
  <2>3. \A j \in DOMAIN sessions : new[j] \in SessionRecord /\ new[j].id = sessions[j].id /\ new[j].agent = sessions[j].agent
    BY <1>3
  <2> HIDE DEF new
  <2>4. /\ new \in Seq(SessionRecord) /\ OneOfEach(new) /\ Len(new) = Len(sessions)
        /\ \A a : IdsOf(new, a) = IdsOf(sessions, a)
    BY <1>1, <2>1, <2>2, <2>3, TouchedFacts
  <2>5. QED
    BY <2>4 DEF new
<1>5. QED
  BY <1>4 DEF SessionsInv

\* The oldest session of an agent is one of its own.
LEMMA OldestFacts ==
  ASSUME NEW line \in Seq(SessionRecord), NEW a, IdsOf(line, a) # {}
  PROVE  OldestOf(line, a) \in IdsOf(line, a)
<1> DEFINE I == {i \in 1 .. Len(line) : line[i].agent = a}
<1>1. Len(line) \in Nat
  BY LenProperties
<1>2. I # {}
  BY DEF IdsOf
<1>3. OldestOf(line, a) = line[Min(I)].id
  BY <1>2 DEF OldestOf, SelectInSeq
<1>4. Min(I) \in I
  BY <1>1, <1>2, LeastPosition
<1>5. QED
  BY <1>3, <1>4 DEF IdsOf

\* Who is written out of a full line, and of a full index, leaves room for one.
LEMMA RoomInTheLine ==
  ASSUME SessionsInv, NEW forAgent, NEW left, left = Without(sessions, forAgent)
  PROVE  Len(Without(sessions, forAgent \cup EvictedForAll(left))) < MaxSessions
<1> DEFINE out == forAgent \cup EvictedForAll(left)
           kept == Without(sessions, out)
<1>1. /\ sessions \in Seq(SessionRecord) /\ OneOfEach(sessions) /\ Len(sessions) <= MaxSessions
      /\ MaxSessions \in Nat \ {0}
  BY SessionsAssumption DEF SessionsInv
<1>2. left \in Seq(SessionRecord) /\ OneOfEach(left) /\ IdsIn(left) = IdsIn(sessions) \ forAgent
  BY <1>1, WithoutFacts
<1>3. kept \in Seq(SessionRecord) /\ OneOfEach(kept) /\ IdsIn(kept) = IdsIn(sessions) \ out
  BY <1>1, WithoutFacts
<1>4. Len(left) \in Nat /\ Len(kept) \in Nat /\ Len(sessions) \in Nat
  BY <1>1, <1>2, <1>3, LenProperties
<1>5. CASE Len(left) < MaxSessions
  BY <1>5 DEF EvictedForAll
<1>6. CASE ~ (Len(left) < MaxSessions)
  <2>1. left[1].id \in IdsIn(left) /\ left[1].id \in out
    <3>1. 1 \in 1 .. Len(left)
      BY <1>1, <1>4, <1>6
    <3>2. QED
      BY <3>1, <1>6 DEF IdsIn, EvictedForAll
  <2>2. left[1].id \in IdsIn(sessions)
    BY <1>2, <2>1
  <2> DEFINE others == IdsIn(sessions) \ {left[1].id}
  <2>3. IdsIn(kept) \in SUBSET others
    BY <1>3, <2>1
  <2>4. IsFiniteSet(IdsIn(sessions)) /\ Cardinality(IdsIn(sessions)) = Len(sessions)
    BY <1>1, IdsAreCounted
  <2>5. IsFiniteSet(others) /\ Cardinality(others) = Len(sessions) - 1
    BY <2>2, <2>4, FS_RemoveElement
  <2> HIDE DEF others, kept
  <2>6. Cardinality(IdsIn(kept)) <= Len(sessions) - 1
    BY <2>3, <2>5, FS_Subset
  <2>7. Cardinality(IdsIn(kept)) = Len(kept)
    BY <1>3, IdsAreCounted
  <2>8. Len(kept) < MaxSessions
    BY <1>1, <1>4, <2>6, <2>7
  <2>9. QED
    BY <2>8 DEF kept
<1>7. QED
  BY <1>5, <1>6

\* A set with room for one more.
LEMMA OneMore ==
  ASSUME NEW S, IsFiniteSet(S), NEW x, NEW m \in Nat, Cardinality(S) < m
  PROVE  Cardinality(S \cup {x}) <= m
<1>1. Cardinality(S) \in Nat
  BY FS_CardinalityType
<1>2. CASE x \in S
  <2>1. S \cup {x} = S
    BY <1>2
  <2>2. QED
    BY <1>1, <2>1
<1>3. CASE x \notin S
  <2>1. Cardinality(S \cup {x}) = Cardinality(S) + 1
    BY <1>3, FS_AddElement
  <2>2. QED
    BY <1>1, <2>1
<1>4. QED
  BY <1>2, <1>3

\* So does the index of the agent.
LEMMA RoomInTheIndex ==
  ASSUME SessionsInv, NEW agent \in KnownAgents, NEW out, EvictedForAgent(agent) \subseteq out, NEW id
  PROVE  \A a \in KnownAgents :
           Cardinality(IndexWithout(a, out) \cup (IF a = agent THEN {id} ELSE {})) <= MaxPerAgent
<1> SUFFICES ASSUME NEW a \in KnownAgents, NEW more, more = IF a = agent THEN {id} ELSE {}
             PROVE  Cardinality((byAgent[a] \ out) \cup more) <= MaxPerAgent
  BY DEF IndexWithout
<1>1. /\ sessions \in Seq(SessionRecord) /\ MaxPerAgent \in Nat \ {0}
      /\ byAgent[a] = IdsOf(sessions, a) /\ byAgent[agent] = IdsOf(sessions, agent)
      /\ Cardinality(byAgent[a]) <= MaxPerAgent
      /\ IsFiniteSet(byAgent[a])
  BY SessionsAssumption, IdsAreCounted DEF SessionsInv
<1>2. byAgent[a] \ out \in SUBSET byAgent[a]
  OBVIOUS
<1>3. /\ IsFiniteSet(byAgent[a] \ out) /\ Cardinality(byAgent[a] \ out) \in Nat
      /\ Cardinality(byAgent[a] \ out) <= Cardinality(byAgent[a]) /\ Cardinality(byAgent[a]) \in Nat
  BY <1>1, <1>2, FS_Subset, FS_CardinalityType
<1>4. CASE a # agent
  <2>1. (byAgent[a] \ out) \cup more = byAgent[a] \ out
    BY <1>4
  <2>2. Cardinality(byAgent[a] \ out) <= MaxPerAgent
    BY <1>1, <1>3
  <2>3. QED
    BY <2>1, <2>2
<1>5. CASE a = agent
  <2>1. Cardinality(byAgent[a] \ out) < MaxPerAgent
    <3>1. CASE Cardinality(byAgent[a]) < MaxPerAgent
      BY <1>1, <1>3, <3>1
    <3>2. CASE ~ (Cardinality(byAgent[a]) < MaxPerAgent)
      <4> DEFINE old == OldestOf(sessions, a)
      <4>1. byAgent[a] # {}
        BY <1>1, <1>3, <3>2, FS_EmptySet
      <4>2. old \in byAgent[a]
        BY <1>1, <4>1, OldestFacts
      <4>3. old \in out
        BY <1>5, <3>2 DEF EvictedForAgent
      <4> HIDE DEF old
      <4>4. IsFiniteSet(byAgent[a] \ {old}) /\ Cardinality(byAgent[a] \ {old}) = Cardinality(byAgent[a]) - 1
        BY <1>1, <4>2, FS_RemoveElement
      <4>5. byAgent[a] \ out \in SUBSET (byAgent[a] \ {old})
        BY <4>3
      <4>6. Cardinality(byAgent[a] \ out) <= Cardinality(byAgent[a]) - 1
        BY <4>4, <4>5, FS_Subset
      <4>7. QED
        BY <1>1, <1>3, <4>6
    <3>3. QED
      BY <3>1, <3>2
  <2>2. Cardinality((byAgent[a] \ out) \cup {id}) <= MaxPerAgent
    <3> DEFINE rest == byAgent[a] \ out
    <3>1. IsFiniteSet(rest) /\ Cardinality(rest) < MaxPerAgent /\ MaxPerAgent \in Nat
      BY <1>1, <1>3, <2>1
    <3> HIDE DEF rest
    <3>2. Cardinality(rest \cup {id}) <= MaxPerAgent
      BY <3>1, OneMore
    <3>3. QED
      BY <3>2 DEF rest
  <2>3. more = {id}
    BY <1>5
  <2>4. (byAgent[a] \ out) \cup more = (byAgent[a] \ out) \cup {id}
    BY <2>3
  <2>5. QED
    BY <2>2, <2>4
<1>6. QED
  BY <1>4, <1>5

\* A session is opened, and up to two leave for it.
LEMMA OpenKeeps ==
  ASSUME SessionsInv, NEW agent \in KnownAgents, NEW id \in SessionIds, id \notin KnownIds,
         Open(agent, id), clock' = clock
  PROVE  SessionsInv'
<1> DEFINE forAgent == EvictedForAgent(agent)
           out == forAgent \cup EvictedForAll(Without(sessions, forAgent))
           kept == Without(sessions, out)
           s == [id |-> id, agent |-> agent, last |-> clock, active |-> TRUE]
<1>1. /\ sessions \in Seq(SessionRecord) /\ OneOfEach(sessions) /\ clock \in Nat
      /\ byAgent = [a \in KnownAgents |-> IdsOf(sessions, a)]
      /\ MaxSessions \in Nat
  BY SessionsAssumption DEF SessionsInv
<1>2. /\ kept \in Seq(SessionRecord) /\ OneOfEach(kept)
      /\ IdsIn(kept) = IdsIn(sessions) \ out
      /\ \A a : IdsOf(kept, a) = IdsOf(sessions, a) \ out
  BY <1>1, WithoutFacts
<1>3. Len(kept) < MaxSessions
  BY RoomInTheLine
<1>4. id \notin IdsIn(sessions)
  BY <1>1, LenProperties DEF KnownIds, IdsIn
<1>5. s \in SessionRecord /\ s.id = id /\ s.agent = agent
  BY <1>1 DEF SessionRecord
<1>6. /\ sessions' = Append(kept, s)
      /\ byAgent' = [a \in KnownAgents |-> IndexWithout(a, out) \cup (IF a = agent THEN {id} ELSE {})]
  BY DEF Open
<1>7. \A a \in KnownAgents : Cardinality(IndexWithout(a, out) \cup (IF a = agent THEN {id} ELSE {})) <= MaxPerAgent
  BY RoomInTheIndex
<1> HIDE DEF kept, s, out, forAgent
<1>8. /\ sessions' \in Seq(SessionRecord) /\ OneOfEach(sessions') /\ Len(sessions') = Len(kept) + 1
      /\ \A a : IdsOf(sessions', a) = IdsOf(kept, a) \cup (IF a = agent THEN {id} ELSE {})
  BY <1>2, <1>4, <1>5, <1>6, OpenedFacts
<1>9. byAgent' = [a \in KnownAgents |-> IdsOf(sessions', a)]
  BY <1>1, <1>2, <1>6, <1>8 DEF IndexWithout
<1>10. Len(sessions') <= MaxSessions
  <2>1. Len(kept) \in Nat
    BY <1>2, LenProperties
  <2>2. QED
    BY <1>1, <1>3, <1>8, <2>1
<1>11. \A a \in KnownAgents : Cardinality(byAgent'[a]) <= MaxPerAgent
  BY <1>6, <1>7
<1>12. QED
  BY <1>1, <1>8, <1>9, <1>10, <1>11 DEF SessionsInv

\* The sweep prunes and expires.
LEMMA SweepKeeps ==
  ASSUME SessionsInv, Sweep
  PROVE  SessionsInv'
<1> DEFINE out == {s.id : s \in {s \in Range(sessions) : Prunable(s)}}
           left == Without(sessions, out)
           new == [i \in DOMAIN left |->
                     IF clock - left[i].last > IdleTimeout THEN [left[i] EXCEPT !.active = FALSE] ELSE left[i]]
<1>1. /\ sessions \in Seq(SessionRecord) /\ OneOfEach(sessions)
      /\ byAgent = [a \in KnownAgents |-> IdsOf(sessions, a)] /\ Len(sessions) <= MaxSessions
      /\ \A a \in KnownAgents : Cardinality(byAgent[a]) <= MaxPerAgent
      /\ MaxSessions \in Nat /\ MaxPerAgent \in Nat
  BY SessionsAssumption DEF SessionsInv
<1>2. /\ sessions' = new /\ clock' = clock
      /\ byAgent' = [a \in KnownAgents |-> byAgent[a] \ out]
  BY DEF Sweep, IndexWithout
<1> HIDE DEF out
<1>3. /\ left \in Seq(SessionRecord) /\ OneOfEach(left) /\ IdsIn(left) = IdsIn(sessions) \ out
      /\ \A a : IdsOf(left, a) = IdsOf(sessions, a) \ out
  BY <1>1, WithoutFacts
<1> HIDE DEF left
<1>4. Len(left) \in Nat /\ Len(sessions) \in Nat /\ DOMAIN left = 1 .. Len(left)
  BY <1>1, <1>3, LenProperties
<1>5. Len(left) <= Len(sessions)
  <2>1. IdsIn(left) \in SUBSET IdsIn(sessions)
    BY <1>3
  <2>2. Cardinality(IdsIn(left)) = Len(left) /\ Cardinality(IdsIn(sessions)) = Len(sessions) /\ IsFiniteSet(IdsIn(sessions))
    BY <1>1, <1>3, IdsAreCounted
  <2>3. Cardinality(IdsIn(left)) <= Cardinality(IdsIn(sessions))
    BY <2>1, <2>2, FS_Subset
  <2>4. QED
    BY <2>2, <2>3
<1>6. ASSUME NEW i \in DOMAIN left
      PROVE  new[i] \in SessionRecord /\ new[i].id = left[i].id /\ new[i].agent = left[i].agent
  <2> DEFINE s == left[i]
  <2>1. new[i] = s \/ new[i] = [s EXCEPT !.active = FALSE]
    OBVIOUS
  <2>2. s \in SessionRecord
    BY <1>3, <1>4, ElementOfSeq
  <2> HIDE DEF s, new
  <2>3. \A t \in {s, [s EXCEPT !.active = FALSE]} : t \in SessionRecord /\ t.id = s.id /\ t.agent = s.agent
    BY <2>2 DEF SessionRecord
  <2>4. QED
    BY <2>1, <2>3 DEF s
<1>7. DOMAIN new = DOMAIN left /\ new = [i \in DOMAIN new |-> new[i]]
  OBVIOUS
<1> HIDE DEF new
<1>8. /\ new \in Seq(SessionRecord) /\ OneOfEach(new) /\ Len(new) = Len(left)
      /\ \A a : IdsOf(new, a) = IdsOf(left, a)
  BY <1>3, <1>6, <1>7, TouchedFacts
<1>9. ASSUME NEW a \in KnownAgents
      PROVE  Cardinality(byAgent[a] \ out) <= MaxPerAgent
  <2>1. IsFiniteSet(byAgent[a]) /\ Cardinality(byAgent[a]) <= MaxPerAgent
    BY <1>1, IdsAreCounted
  <2>2. byAgent[a] \ out \in SUBSET byAgent[a]
    OBVIOUS
  <2>3. /\ Cardinality(byAgent[a] \ out) <= Cardinality(byAgent[a])
        /\ Cardinality(byAgent[a]) \in Nat
        /\ Cardinality(byAgent[a] \ out) \in Nat
    BY <2>1, <2>2, FS_Subset, FS_CardinalityType
  <2>4. QED
    BY <1>1, <2>1, <2>3
<1>10. /\ byAgent' = [a \in KnownAgents |-> IdsOf(sessions', a)]
       /\ \A a \in KnownAgents : Cardinality(byAgent'[a]) <= MaxPerAgent
  BY <1>1, <1>2, <1>3, <1>8, <1>9
<1>11. Len(sessions') <= MaxSessions
  BY <1>1, <1>2, <1>4, <1>5, <1>8
<1>12. clock' \in Nat
  BY <1>2 DEF SessionsInv
<1>13. QED
  BY <1>2, <1>8, <1>10, <1>11, <1>12 DEF SessionsInv

\* Nobody has come yet.
LEMMA SessionsStart ==
  ASSUME SessionsInit
  PROVE  SessionsInv
<1>1. /\ sessions = <<>> /\ clock = 0 /\ byAgent = [a \in KnownAgents |-> {}]
      /\ MaxSessions \in Nat /\ MaxPerAgent \in Nat
  BY SessionsAssumption DEF SessionsInit
<1>2. /\ sessions \in Seq(SessionRecord) /\ Len(sessions) = 0 /\ OneOfEach(sessions)
      /\ \A a : IdsOf(sessions, a) = {}
  BY <1>1 DEF OneOfEach, IdsOf
<1>3. Cardinality({}) = 0
  BY FS_EmptySet
<1>4. QED
  BY <1>1, <1>2, <1>3 DEF SessionsInv

\* Every step, under way together or not.
LEMMA SessionsStay ==
  ASSUME SessionsInv, [SessionsNext]_sessionVars
  PROVE  SessionsInv'
<1>1. ASSUME NEW v \in Visits, NEW h \in SessionHeaders, Arrive(v, h)
      PROVE  SessionsInv'
  <2> DEFINE agent == Identity(h).agent
  <2>1. PICK id \in IF h.session # NoId THEN {h.session} ELSE GeneratedIds \ KnownIds :
          Track(agent, id) /\ clock' = clock
    BY <1>1 DEF Arrive
  <2>2. id \in SessionIds /\ agent \in KnownAgents
    BY <2>1, CallerIsKnown DEF SessionIds
  <2> HIDE DEF agent
  <2>3. CASE id \in KnownIds
    BY <2>1, <2>3, WrittenFacts DEF Track, Continue
  <2>4. CASE id \notin KnownIds
    BY <2>1, <2>2, <2>4, OpenKeeps DEF Track
  <2>5. QED
    BY <2>3, <2>4
<1>2. ASSUME NEW v \in Visits, RecordUsage(v)
      PROVE  SessionsInv'
  <2> DEFINE i == SelectInSeq(sessions, LAMBDA s : s.id = visit[v].session)
  <2>1. /\ sessions' = IF i = 0 THEN sessions ELSE [sessions EXCEPT ![i].last = clock]
        /\ byAgent' = byAgent /\ clock' = clock
    BY <1>2 DEF RecordUsage
  <2> HIDE DEF i
  <2>2. CASE i = 0
    BY <2>1, <2>2 DEF SessionsInv, IdsOf, OneOfEach
  <2>3. CASE i # 0
    BY <2>1, <2>3, WrittenFacts
  <2>4. QED
    BY <2>2, <2>3
<1>3. CASE ClockTicks
  BY <1>3 DEF ClockTicks, SessionsInv, IdsOf, OneOfEach
<1>4. CASE UNCHANGED sessionVars
  BY <1>4 DEF sessionVars, SessionsInv, IdsOf, OneOfEach
<1>5. QED
  BY <1>1, <1>2, <1>3, <1>4, SweepKeeps DEF SessionsNext

\* The two maps name the same sessions.
LEMMA SessionsAgree ==
  ASSUME SessionsInv
  PROVE  IndexesAgree
<1>1. DOMAIN sessions = 1 .. Len(sessions)
  BY LenProperties DEF SessionsInv
<1>2. \A a : IdsOf(sessions, a) = {s.id : s \in {s \in Range(sessions) : s.agent = a}}
  BY <1>1 DEF IdsOf, Range
<1>3. KnownIds = IdsIn(sessions)
  BY <1>1 DEF KnownIds, IdsIn
<1>4. Cardinality(KnownIds) = Len(sessions)
  BY <1>3, IdsAreCounted DEF SessionsInv
<1>5. QED
  BY <1>2, <1>4 DEF SessionsInv, IndexesAgree

\* Whoever comes, ends, expires, is pruned or is written out at a cap, the two maps
\* name the same sessions and no cap is passed.
THEOREM MapsAgree == SessionsSpec => []IndexesAgree
<1>1. SessionsInit => SessionsInv
  BY SessionsStart
<1>2. SessionsInv /\ [SessionsNext]_sessionVars => SessionsInv'
  BY SessionsStay
<1>3. SessionsInv => IndexesAgree
  BY SessionsAgree
<1>4. QED
  BY <1>1, <1>2, <1>3, PTL DEF SessionsSpec

-----------------------------------------------------------------------------
(* The catalog that is shown *)

\* A provider has answered, and a model has been listed by it.
Replied(answers, q) == \E listed \in SUBSET ServedModels : <<q, listed>> \in answers
Lists(answers, q, m) == m \in Said(answers, q)

\* What a refresh has so far: every provider is still to be asked, failed or answered;
\* while none failed, who has a model has listed it, and whatever was listed is had by
\* somebody.
Gathered(f) ==
  /\ DOMAIN f = {"on", "left", "got", "failed", "answers"}
  /\ f.left \in Seq(DoorIds) /\ f.failed \subseteq DoorIds
  /\ f.got \in [ServedModels -> DoorIds \cup {NoTag}]
  /\ f.on => \A q \in Range(FetchOrder) : q \in Range(f.left) \cup f.failed \/ Replied(f.answers, q)
  /\ f.failed = {} => \A m \in ServedModels : f.got[m] # NoTag => Lists(f.answers, f.got[m], m)
  /\ \A m \in ServedModels, q \in DoorIds : Lists(f.answers, q, m) => f.got[m] # NoTag

\* The catalog in force is that of one refresh, and unless it is stale or empty that is
\* one in which everyone answered.
CatalogInv ==
  /\ \A r \in Refreshes : DOMAIN refresh = Refreshes /\ Gathered(refresh[r])
  /\ \/ offered.stale
     \/ Owned(offered.owner) = {}
     \/ /\ \A q \in Range(FetchOrder) : Replied(basis, q)
        /\ \A m \in ServedModels :
             LET q == offered.owner[m] IN q # NoTag => q \in DoorIds /\ (Lists(basis, q, m) \/ q \in LocalOwners(m))
        /\ \A m \in ServedModels, q \in DoorIds : Lists(basis, q, m) => offered.owner[m] # NoTag

\* Doors are counted from one.
LEMMA DoorsAreCounted ==
  /\ Len(CatalogDoors) \in Nat /\ DoorIds = 1 .. Len(CatalogDoors) /\ NoTag \notin DoorIds
  /\ FetchOrder \in Seq(DoorIds)
<1>1. CatalogDoors \in Seq(Range(CatalogDoors)) /\ FetchOrder \in Seq(Range(FetchOrder))
      /\ Range(FetchOrder) \subseteq DoorIds
  BY ServedAssumption
<1>2. Len(CatalogDoors) \in Nat /\ DoorIds = 1 .. Len(CatalogDoors)
  BY <1>1, LenProperties DEF DoorIds
<1>3. FetchOrder \in Seq(DoorIds)
  <2>1. \A i \in 1 .. Len(FetchOrder) : FetchOrder[i] \in DoorIds
    BY <1>1, ElementOfSeq
  <2>2. FetchOrder = [i \in 1 .. Len(FetchOrder) |-> FetchOrder[i]] /\ Len(FetchOrder) \in Nat
    BY <1>1, LenProperties
  <2>3. QED
    BY <2>1, <2>2
<1>4. QED
  BY <1>2, <1>3 DEF NoTag

LEMMA RangeFacts ==
  ASSUME NEW s \in Seq(DoorIds)
  PROVE  /\ Range(s) = {s[i] : i \in 1 .. Len(s)}
         /\ s # <<>> => /\ Head(s) \in DoorIds /\ Tail(s) \in Seq(DoorIds)
                        /\ Range(s) = {Head(s)} \cup Range(Tail(s))
<1>1. DOMAIN s = 1 .. Len(s) /\ Len(s) \in Nat
  BY LenProperties
<1>2. Range(s) = {s[i] : i \in 1 .. Len(s)}
  BY <1>1 DEF Range
<1>3. ASSUME s # <<>>
      PROVE  /\ Head(s) \in DoorIds /\ Tail(s) \in Seq(DoorIds)
             /\ Range(s) = {Head(s)} \cup Range(Tail(s))
  <2> DEFINE t == Tail(s)
  <2>1. /\ Head(s) = s[1] /\ Head(s) \in DoorIds /\ t \in Seq(DoorIds)
        /\ Len(t) = Len(s) - 1 /\ Len(s) # 0
        /\ \A i \in 1 .. Len(s) - 1 : t[i] = s[i + 1]
    BY <1>3, HeadTailProperties, LenProperties, EmptySeq
  <2>2. Range(t) = {t[i] : i \in 1 .. Len(t)}
    BY <2>1, LenProperties DEF Range
  <2> HIDE DEF t
  <2>3. ASSUME NEW i \in 1 .. Len(s)
        PROVE  s[i] = Head(s) \/ s[i] \in Range(t)
    <3>1. i = 1 \/ (i - 1 \in 1 .. Len(t) /\ (i - 1) + 1 = i)
      BY <1>1, <2>1
    <3>2. QED
      BY <2>1, <2>2, <3>1
  <2>4. ASSUME NEW i \in 1 .. Len(t)
        PROVE  \E j \in 1 .. Len(s) : t[i] = s[j]
    <3>1. i + 1 \in 1 .. Len(s) /\ t[i] = s[i + 1]
      BY <1>1, <2>1
    <3>2. QED
      BY <3>1
  <2>5. 1 \in 1 .. Len(s)
    BY <1>1, <2>1
  <2>6. QED
    BY <1>2, <2>1, <2>2, <2>3, <2>4, <2>5 DEF t
<1>4. QED
  BY <1>2, <1>3

\* Nothing has been gathered when a refresh begins or has ended.
LEMMA NothingGathered ==
  Gathered(UnderWay) /\ Gathered(NotUnderWay)
<1>1. NoModels \in [ServedModels -> DoorIds \cup {NoTag}] /\ \A m \in ServedModels : NoModels[m] = NoTag
  BY DEF NoModels
<1>2. \A m, q : ~ Lists({}, q, m)
  BY DEF Lists, Said
<1>3. FetchOrder \in Seq(DoorIds) /\ <<>> \in Seq(DoorIds)
  BY DoorsAreCounted, EmptySeq
<1>4. QED
  BY <1>1, <1>2, <1>3 DEF Gathered, UnderWay, NotUnderWay

\* An answer that comes keeps the refresh in order, and so does one that does not.
LEMMA GatheredNext ==
  ASSUME NEW f, Gathered(f), f.left # <<>>,
         NEW listed \in SUBSET ServedModels
  PROVE  LET p == Head(f.left)
             there == [f EXCEPT !.left = Tail(@), !.got = Keep(@, listed, p), !.answers = @ \cup {<<p, listed>>}]
             gone == [f EXCEPT !.left = Tail(@), !.failed = @ \cup {p}, !.got = Keep(@, listed, p)]
         IN Gathered(there) /\ Gathered(gone)
<1> DEFINE p == Head(f.left)
           got == Keep(f.got, listed, p)
           answers == f.answers \cup {<<p, listed>>}
           there == [f EXCEPT !.left = Tail(@), !.got = Keep(@, listed, p), !.answers = @ \cup {<<p, listed>>}]
           gone == [f EXCEPT !.left = Tail(@), !.failed = @ \cup {p}, !.got = Keep(@, listed, p)]
<1>1. /\ p \in DoorIds /\ p # NoTag /\ Tail(f.left) \in Seq(DoorIds)
      /\ Range(f.left) = {p} \cup Range(Tail(f.left))
  BY RangeFacts, DoorsAreCounted DEF Gathered
<1>2. f.got \in [ServedModels -> DoorIds \cup {NoTag}]
  BY DEF Gathered
<1>3. /\ got \in [ServedModels -> DoorIds \cup {NoTag}]
      /\ \A m \in ServedModels : /\ f.got[m] # NoTag => got[m] = f.got[m]
                                 /\ f.got[m] = NoTag /\ m \in listed => got[m] = p
                                 /\ f.got[m] = NoTag /\ m \notin listed => got[m] = NoTag
  BY <1>1, <1>2 DEF Keep
<1>4. \A q, m : /\ Lists(answers, q, m) <=> Lists(f.answers, q, m) \/ (q = p /\ m \in listed)
                /\ Replied(f.answers, q) => Replied(answers, q)
  BY DEF Lists, Said, Replied
<1>5. Replied(answers, p)
  BY DEF Replied
<1>6. /\ there.left = Tail(f.left) /\ there.got = got /\ there.answers = answers
      /\ there.failed = f.failed /\ there.on = f.on
      /\ gone.left = Tail(f.left) /\ gone.got = got /\ gone.answers = f.answers
      /\ gone.failed = f.failed \cup {p} /\ gone.on = f.on
      /\ DOMAIN there = DOMAIN f /\ DOMAIN gone = DOMAIN f
  BY DEF Gathered
<1> HIDE DEF there, gone, answers, got, p
<1>7. Gathered(there)
  <2>1. there.on => \A q \in Range(FetchOrder) : q \in Range(there.left) \cup there.failed \/ Replied(there.answers, q)
    BY <1>1, <1>4, <1>5, <1>6 DEF Gathered
  <2>2. there.failed = {} => \A m \in ServedModels : there.got[m] # NoTag => Lists(there.answers, there.got[m], m)
    BY <1>3, <1>4, <1>6 DEF Gathered
  <2>3. \A m \in ServedModels, q \in DoorIds : Lists(there.answers, q, m) => there.got[m] # NoTag
    BY <1>1, <1>3, <1>4, <1>6 DEF Gathered
  <2>4. QED
    BY <1>1, <1>3, <1>6, <2>1, <2>2, <2>3 DEF Gathered
<1>8. Gathered(gone)
  <2>1. gone.on => \A q \in Range(FetchOrder) : q \in Range(gone.left) \cup gone.failed \/ Replied(gone.answers, q)
    BY <1>1, <1>6 DEF Gathered
  <2>2. \A m \in ServedModels, q \in DoorIds : Lists(gone.answers, q, m) => gone.got[m] # NoTag
    BY <1>3, <1>6 DEF Gathered
  <2>3. QED
    BY <1>1, <1>3, <1>6, <2>1, <2>2 DEF Gathered
<1>9. QED
  BY <1>7, <1>8 DEF there, gone, p

\* The declared models of local doors go before what was listed.
LEMMA LocalsFacts ==
  ASSUME NEW got \in [ServedModels -> DoorIds \cup {NoTag}], NEW failed, NEW m \in ServedModels
  PROVE  LET q == WithLocals(got, failed)[m]
         IN (q = got[m] \/ (q \in LocalOwners(m) /\ q \in DoorIds)) /\ (q = NoTag => got[m] = NoTag)
<1> DEFINE owners == LocalOwners(m) \ (IF Wrapper \in Range(FetchOrder) \ failed THEN WrapperSeeds ELSE {})
           q == WithLocals(got, failed)[m]
<1>1. q = IF owners = {} THEN got[m] ELSE Min(owners)
  BY DEF WithLocals
<1>2. owners \subseteq LocalOwners(m) /\ owners \subseteq DoorIds
  BY DEF LocalOwners
<1>3. owners # {} => Min(owners) \in owners
  BY <1>2, DoorsAreCounted, LeastPosition
<1> HIDE DEF owners, q
<1>4. QED
  BY <1>1, <1>2, <1>3, DoorsAreCounted DEF q

LEMMA CatalogStays ==
  ASSUME CatalogInv, NEW r \in Refreshes, NEW f, Gathered(f),
         refresh' = [refresh EXCEPT ![r] = f], offered' = offered, basis' = basis
  PROVE  CatalogInv'
BY DEF CatalogInv, Gathered, Owned, LocalOwners, Replied, Lists, Said, Disabled

LEMMA CatalogFinishes ==
  ASSUME CatalogInv, NEW r \in Refreshes, Finish(r)
  PROVE  CatalogInv'
<1> DEFINE f == refresh[r]
           owner == WithLocals(f.got, f.failed)
<1>1. /\ f.on /\ f.left = <<>>
      /\ offered' = [owner |-> owner, stale |-> f.failed # {}]
      /\ basis' = f.answers
      /\ refresh' = [refresh EXCEPT ![r] = NotUnderWay]
  BY DEF Finish
<1>2. Gathered(f)
  BY DEF CatalogInv
<1>3. DOMAIN refresh' = Refreshes /\ \A s \in Refreshes : Gathered(refresh'[s])
  BY <1>1, NothingGathered DEF CatalogInv
<1>4. ASSUME f.failed = {}
      PROVE  /\ \A q \in Range(FetchOrder) : Replied(basis', q)
             /\ \A m \in ServedModels :
                  LET q == owner[m] IN q # NoTag => q \in DoorIds /\ (Lists(basis', q, m) \/ q \in LocalOwners(m))
             /\ \A m \in ServedModels, q \in DoorIds : Lists(basis', q, m) => owner[m] # NoTag
  <2>1. Range(f.left) = {}
    BY <1>1 DEF Range
  <2>2. \A q \in Range(FetchOrder) : Replied(basis', q)
    BY <1>1, <1>2, <1>4, <2>1 DEF Gathered
  <2>3. f.got \in [ServedModels -> DoorIds \cup {NoTag}]
    BY <1>2 DEF Gathered
  <2>4. \A m \in ServedModels :
          (owner[m] = f.got[m] \/ (owner[m] \in LocalOwners(m) /\ owner[m] \in DoorIds))
            /\ (owner[m] = NoTag => f.got[m] = NoTag)
    BY <2>3, LocalsFacts
  <2> HIDE DEF owner
  <2>5. \A m \in ServedModels : f.got[m] # NoTag => f.got[m] \in DoorIds /\ Lists(basis', f.got[m], m)
    BY <1>1, <1>2, <1>4, <2>3 DEF Gathered
  <2>6. \A m \in ServedModels, q \in DoorIds : Lists(basis', q, m) => f.got[m] # NoTag
    BY <1>1, <1>2 DEF Gathered
  <2>7. QED
    BY <2>2, <2>4, <2>5, <2>6
<1> HIDE DEF owner
<1>5. offered'.owner = owner /\ offered'.stale = (f.failed # {})
  BY <1>1
<1>6. QED
  BY <1>3, <1>4, <1>5 DEF CatalogInv

LEMMA CatalogStart == ServedInit => CatalogInv
<1>1. ServedInit => refresh = [r \in Refreshes |-> NotUnderWay] /\ Owned(offered.owner) = {}
  BY DEF ServedInit, Owned, NoModels
<1>2. QED
  BY <1>1, NothingGathered DEF CatalogInv

LEMMA CatalogStep == CatalogInv /\ [ServedNext]_servedVars => CatalogInv'
<1> SUFFICES ASSUME CatalogInv, [ServedNext]_servedVars
             PROVE  CatalogInv'
  OBVIOUS
<1>1. ASSUME NEW r \in Refreshes, Starts(r), UNCHANGED <<offered, basis>>
      PROVE  CatalogInv'
  <2>1. refresh' = [refresh EXCEPT ![r] = UnderWay]
    BY <1>1 DEF Starts
  <2>2. QED
    BY <1>1, <2>1, NothingGathered, CatalogStays
<1>2. ASSUME NEW r \in Refreshes, Timer(r) \/ OperatorRefresh(r) \/ ModelsWithoutCatalog(r) \/ StatusWithoutCatalog(r)
      PROVE  CatalogInv'
  BY <1>1, <1>2 DEF Timer, OperatorRefresh, ModelsWithoutCatalog, StatusWithoutCatalog
<1>3. ASSUME NEW r \in Refreshes, NEW listed \in SUBSET ServedModels, FetchAnswers(r, listed)
      PROVE  CatalogInv'
  <2> DEFINE p == Head(refresh[r].left)
             f == [refresh[r] EXCEPT !.left = Tail(@), !.got = Keep(@, listed, p), !.answers = @ \cup {<<p, listed>>}]
  <2>1. DOMAIN refresh = Refreshes /\ Gathered(refresh[r]) /\ refresh[r].left # <<>>
    BY <1>3 DEF CatalogInv, FetchAnswers
  <2>2. Gathered(f)
    BY <2>1, GatheredNext
  <2>3. refresh' = [refresh EXCEPT ![r] = f] /\ offered' = offered /\ basis' = basis
    BY <1>3, <2>1 DEF FetchAnswers
  <2> HIDE DEF f
  <2>4. QED
    BY <2>2, <2>3, CatalogStays
<1>4. ASSUME NEW r \in Refreshes, FetchFails(r)
      PROVE  CatalogInv'
  <2> DEFINE p == Head(refresh[r].left)
             known == {m \in ServedModels : cacheModels[m] = p}
             f == [refresh[r] EXCEPT !.left = Tail(@), !.failed = @ \cup {p}, !.got = Keep(@, known, p)]
  <2>1. DOMAIN refresh = Refreshes /\ Gathered(refresh[r]) /\ refresh[r].left # <<>>
    BY <1>4 DEF CatalogInv, FetchFails
  <2>2. Gathered(f)
    <3>1. known \in SUBSET ServedModels
      OBVIOUS
    <3> HIDE DEF known
    <3>2. QED
      BY <2>1, <3>1, GatheredNext
  <2>3. refresh' = [refresh EXCEPT ![r] = f] /\ offered' = offered /\ basis' = basis
    BY <1>4, <2>1 DEF FetchFails
  <2> HIDE DEF f
  <2>4. QED
    BY <2>2, <2>3, CatalogStays
<1>5. ASSUME NEW r \in Refreshes, Finish(r)
      PROVE  CatalogInv'
  BY <1>5, CatalogFinishes
<1>6. ASSUME UNCHANGED <<offered, basis, refresh>>
      PROVE  CatalogInv'
  BY <1>6 DEF CatalogInv, Gathered, Owned, LocalOwners, Replied, Lists, Said, Disabled
<1>7. CASE ModelsListed \/ Poll \/ MemoAges
  BY <1>6, <1>7 DEF ModelsListed, Poll, MemoAges
<1>8. ASSUME \/ \E m \in ServedModels, state \in {"active", "eol", "not_chat"}, p \in DoorIds \cup {NoTag} :
                  VerdictChanges(m, state, p)
             \/ \E i \in DoorIds, m \in ServedModels : CapacityChanges(i, m) \/ DoorChanges(i, {m})
             \/ \E i \in DoorIds : DoorChanges(i, ServedModels)
             \/ \E models \in SUBSET ServedModels : AllowlistChanges(models)
      PROVE  CatalogInv'
  BY <1>6, <1>8 DEF VerdictChanges, CapacityChanges, DoorChanges, AllowlistChanges, Stands
<1>9. CASE UNCHANGED servedVars
  BY <1>6, <1>9 DEF servedVars
<1>10. QED
  BY <1>2, <1>3, <1>4, <1>5, <1>7, <1>8, <1>9 DEF ServedNext

\* What a row of the catalog has of the discovery, and which rows there are.
LEMMA CatalogRowFacts ==
  /\ \A row \in Merged :
       /\ row.id \in ServedModels
       /\ row.fresh => Tagged(row.id) /\ ~ offered.stale /\ row.provider = offered.owner[row.id]
  /\ \A m \in ServedModels \ ExcludedModels :
       Tagged(m) => \E row \in Merged : row.id = m /\ row.provider = offered.owner[m]
<1> DEFINE listed == {m \in ServedModels : Reconciled(m)}
           tagged == {m \in ServedModels : Tagged(m)}
           Row(m) == [id |-> m,
                      provider |-> IF m \in tagged THEN offered.owner[m] ELSE OwnerOf(m),
                      owner |-> IF m \in listed THEN OwnerOf(m) ELSE offered.owner[m],
                      fresh |-> m \in tagged /\ ~ offered.stale,
                      usable |-> ReconcileMode = "flag" /\ m \in listed => Available(m)]
<1>1. Merged = {Row(m) : m \in (listed \cup tagged) \ ExcludedModels}
  BY Zenon DEF Merged
<1>2. \A m \in ServedModels :
        /\ Row(m).id = m /\ Row(m).fresh = (Tagged(m) /\ ~ offered.stale)
        /\ Tagged(m) => Row(m).provider = offered.owner[m]
  OBVIOUS
<1> HIDE DEF Row
<1>3. ASSUME NEW row \in Merged
      PROVE  /\ row.id \in ServedModels
             /\ row.fresh => Tagged(row.id) /\ ~ offered.stale /\ row.provider = offered.owner[row.id]
  <2>1. PICK m \in ServedModels : row = Row(m)
    BY <1>1
  <2>2. row.id = m /\ row.fresh = (Tagged(m) /\ ~ offered.stale)
        /\ (Tagged(m) => row.provider = offered.owner[m])
    BY <1>2, <2>1
  <2>3. row.fresh => Tagged(m) /\ ~ offered.stale
    BY <2>2
  <2>4. QED
    BY <2>2, <2>3
<1>4. ASSUME NEW m \in ServedModels \ ExcludedModels, Tagged(m)
      PROVE  \E row \in Merged : row.id = m /\ row.provider = offered.owner[m]
  <2>1. Row(m) \in Merged
    BY <1>1, <1>4
  <2>2. QED
    BY <1>2, <1>4, <2>1
<1>5. QED
  BY <1>3, <1>4

LEMMA AliasesRest ==
  ASSUME CatalogInv
  PROVE  AliasRestsOnAnswers
<1>1. SUFFICES ASSUME NEW alias \in FocusedAliases, UnderItsProvider(alias)
               PROVE  LET p == alias.provider
                          pool == {row.id : row \in Pool(alias, Merged)}
                          Has(q, m) == m \in Said(basis, q) \/ q \in LocalOwners(m)
                      IN /\ \A q \in Range(FetchOrder) : \E listed \in SUBSET ServedModels : <<q, listed>> \in basis
                         /\ \A m \in pool : Has(p, m)
                         /\ \A m \in (Said(basis, p) \cap alias.fits) \ ExcludedModels :
                              m \in pool \/ \E q \in DoorIds \ {p} : Has(q, m)
  BY DEF AliasRestsOnAnswers
<1> DEFINE p == alias.provider
           pool == {row.id : row \in Pool(alias, Merged)}
<1>2. ASSUME NEW row \in Pool(alias, Merged)
      PROVE  /\ row \in Merged /\ row.id \in ServedModels /\ ~ offered.stale
             /\ Tagged(row.id) /\ offered.owner[row.id] = p
  BY <1>1, <1>2, CatalogRowFacts DEF UnderItsProvider, Qualifies, Pool
<1>3. PICK some : some \in Pool(alias, Merged)
  BY <1>1 DEF UnderItsProvider
<1>4. p # NoTag /\ p \in DoorIds /\ ~ Disabled(p) /\ ~ offered.stale /\ Owned(offered.owner) # {}
  <2>1. Tagged(some.id) /\ offered.owner[some.id] = p /\ some.id \in ServedModels /\ ~ offered.stale
    BY <1>2, <1>3
  <2>2. p \in DoorIds
    BY ServedAssumption
  <2>3. QED
    BY <2>1, <2>2 DEF Tagged, Owned
<1>5. /\ \A q \in Range(FetchOrder) : Replied(basis, q)
      /\ \A m \in ServedModels :
           LET q == offered.owner[m] IN q # NoTag => q \in DoorIds /\ (Lists(basis, q, m) \/ q \in LocalOwners(m))
      /\ \A m \in ServedModels, q \in DoorIds : Lists(basis, q, m) => offered.owner[m] # NoTag
  BY <1>4 DEF CatalogInv
<1>6. \A m \in pool : m \in Said(basis, p) \/ p \in LocalOwners(m)
  BY <1>2, <1>4, <1>5 DEF Lists
<1>7. ASSUME NEW m \in (Said(basis, p) \cap alias.fits) \ ExcludedModels
      PROVE  m \in pool \/ \E q \in DoorIds \ {p} : m \in Said(basis, q) \/ q \in LocalOwners(m)
  <2>1. m \in ServedModels /\ m \in Said(basis, p) /\ m \in alias.fits /\ m \notin ExcludedModels
    BY <1>7 DEF Said
  <2>2. offered.owner[m] # NoTag
    BY <1>4, <1>5, <2>1 DEF Lists
  <2>3. CASE offered.owner[m] = p
    <3>1. Tagged(m)
      BY <1>4, <2>2, <2>3 DEF Tagged
    <3>2. PICK row \in Merged : row.id = m /\ row.provider = p
      BY <2>1, <2>3, <3>1, CatalogRowFacts
    <3>3. row \in Pool(alias, Merged)
      BY <2>1, <3>2 DEF Pool
    <3>4. QED
      BY <3>2, <3>3
  <2>4. CASE offered.owner[m] # p
    BY <1>5, <2>1, <2>2, <2>4 DEF Lists
  <2>5. QED
    BY <2>3, <2>4
<1>8. QED
  BY <1>5, <1>6, <1>7 DEF Replied

\* For any doors, models, aliases and refreshes, however these overlap and whatever
\* fails, is ruled out or hidden meanwhile: an alias that applyFocusedAliasMetadata()
\* shows under its provider's name rests on one refresh that everyone answered, and has
\* exactly what the provider listed there and nobody had before it.
THEOREM AliasesRestOnAnswers == ServedSpec => []AliasRestsOnAnswers
<1>1. ServedInit => CatalogInv
  BY CatalogStart
<1>2. CatalogInv /\ [ServedNext]_servedVars => CatalogInv'
  BY CatalogStep
<1>3. CatalogInv => AliasRestsOnAnswers
  BY AliasesRest
<1>4. QED
  BY <1>1, <1>2, <1>3, PTL DEF ServedSpec

=============================================================================
