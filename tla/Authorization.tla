--------------------------- MODULE Authorization ---------------------------
(***************************************************************************)
(* The authorization gate of src/src/index.mjs, with the clients of the    *)
(* policy decision point in src/src/policy.                                *)
(*                                                                         *)
(* A route is public, or needs a capability.  A governed route is asked    *)
(* about by the strict client: it reads the service credential anew and    *)
(* remembers nothing.  Any other route is open to internal peers, and is   *)
(* asked about by the generic client: it remembers an allow for CacheTtl.  *)
(* Whatever goes wrong is a deny.  The timer of a call covers the response *)
(* head only; the body may come at any later time.                         *)
(***************************************************************************)
EXTENDS Naturals, FiniteSets, SequencesExt

CONSTANTS AuthzRequests,  \* requests that may overlap
          Subjects,       \* identities of the registry
          CacheTtl,       \* DEFAULT_CACHE_TTL_MS
          MaxCache,       \* DEFAULT_MAX_CACHE
          PdpTimeout,     \* DEFAULT_TIMEOUT_MS
          CredentialLife, \* DEFAULT_CREDENTIAL_MAX_AGE_MS
          MaxRotations    \* bound: credentials that are written

ASSUME AuthorizationAssumption ==
  /\ IsFiniteSet(AuthzRequests)
  /\ Subjects # {}
  /\ {CacheTtl, MaxCache, PdpTimeout, CredentialLife} \subseteq Nat
  /\ MaxRotations \in Nat

VARIABLES allowCache, \* the allow cache, the oldest entry first; left: how long it holds
          gate,       \* gate[r]: how far the gate is with r
          credential, \* the service credential file, its age, and whether it is approved
          told        \* told[k]: how long ago an answer with an allow for k was last read

authzVars == <<allowCache, gate, credential, told>>

NoSubject == "nobody"
Routes == {"catalog", "chat", "governed", "admin"}

\* classifyRoute()
CapabilityOf(route) ==
  CASE route = "catalog" -> "public"
    [] route = "admin" -> "skgateway.admin"
    [] OTHER -> "skgateway.infer"

\* createSkLegalQualificationResolver(): the route with a configured scope has a
\* configured subject as well.
Qualified(route) == route = "governed"
ScopeSubject == CHOOSE s \in Subjects : TRUE

\* extractIdentity(), and subjectFromIdentity(): only a verified one counts.
Identities == [agent : Subjects, verified : BOOLEAN]
SubjectOf(identity) == IF identity.verified THEN identity.agent ELSE NoSubject

Keys == [subject : Subjects, capability : {"skgateway.infer", "skgateway.admin"}]
AtRest == [at |-> "idle"]
Unseen == [inode |-> 0, version |-> 0]

AuthzInit ==
  /\ allowCache = <<>>
  /\ gate = [r \in AuthzRequests |-> AtRest]
  /\ credential = [inode |-> 1, version |-> 0, age |-> 0, approved |-> TRUE]
  /\ told = [k \in Keys |-> CacheTtl]

-----------------------------------------------------------------------------
(* The allow cache of the generic client.                                  *)

\* authzCacheKey(): the method and the path belong to it as well; there is one of each
\* for a capability here.
CacheKey(subject, capability) == [subject |-> subject, capability |-> capability]

\* A Map has at most one entry of a key.
Without(cache, k) ==
  IF \E i \in DOMAIN cache : cache[i].key = k
  THEN RemoveAt(cache, CHOOSE i \in DOMAIN cache : cache[i].key = k)
  ELSE cache
LeftOf(cache, k) == {cache[i].left : i \in {j \in DOMAIN cache : cache[j].key = k}}

\* cacheGet(): a hit is moved to the young end and keeps its time.
Hit(k) == \E left \in LeftOf(allowCache, k) : left > 0
Young(k) == [key |-> k, left |-> CacheTtl]
Renewed(cache, k) == Append(Without(cache, k), Young(k))
Touched(cache, k) == Append(Without(cache, k), [key |-> k, left |-> CHOOSE n \in LeftOf(cache, k) : TRUE])

\* cachePutAllow()
Put(cache, k) ==
  LET longer == Append(Without(cache, k), Young(k))
      over == IF Len(longer) > MaxCache THEN Len(longer) - MaxCache ELSE 0
  IN IF CacheTtl = 0 THEN cache ELSE SubSeq(longer, over + 1, Len(longer))

-----------------------------------------------------------------------------
(* The gate.                                                               *)

Moved(r, record) == gate' = [gate EXCEPT ![r] = record]
Ruled(r, allowed) ==
  Moved(r, [at |-> "judged", allowed |-> allowed, route |-> gate[r].route,
            subject |-> gate[r].subject, open |-> gate[r].open])

\* enforceAuthz() and authorizeRequest(), as far as they go without an answer.
Enter(r, route, identity, internal) ==
  LET governed == Qualified(route)
      open == ~governed /\ (CapabilityOf(route) = "public" \/ internal)
      subject == IF governed THEN ScopeSubject ELSE IF open THEN NoSubject ELSE SubjectOf(identity)
      key == CacheKey(subject, CapabilityOf(route))
      waiting(at) == [at |-> at, route |-> route, subject |-> subject, open |-> FALSE,
                      timer |-> PdpTimeout, answer |-> "none", file |-> Unseen]
      judged(allowed) == [at |-> "judged", allowed |-> allowed, route |-> route,
                          subject |-> subject, open |-> open]
  IN /\ gate[r].at \in {"idle", "judged"}
     /\ \/ open /\ Moved(r, judged(TRUE)) /\ UNCHANGED allowCache
        \/ governed /\ Moved(r, judged(FALSE)) /\ UNCHANGED allowCache \* no CapAuth of its own
        \/ governed /\ Moved(r, waiting("credential")) /\ UNCHANGED allowCache
        \/ /\ ~open /\ ~governed /\ subject = NoSubject
           /\ Moved(r, judged(FALSE)) /\ UNCHANGED allowCache
        \/ /\ ~open /\ ~governed /\ subject # NoSubject /\ Hit(key)
           /\ Moved(r, judged(TRUE)) /\ allowCache' = Touched(allowCache, key)
        \/ /\ ~open /\ ~governed /\ subject # NoSubject /\ ~Hit(key)
           /\ Moved(r, waiting("asking")) /\ allowCache' = Without(allowCache, key)
     /\ UNCHANGED <<credential, told>>

File == [inode |-> credential.inode, version |-> credential.version]

\* readSkLegalServiceCredential() up to the open: lstat() saw this file.  Nothing else
\* of the process runs before the read is over, but it shares nothing with the read.
SeeCredential(r) ==
  /\ gate[r].at = "credential" /\ gate[r].file = Unseen
  /\ Moved(r, [gate[r] EXCEPT !.file = File])
  /\ UNCHANGED <<allowCache, credential, told>>

\* open() and fstat(): another file, one whose owner, mode or size is not approved (a
\* 0440 file only below the credential mount of the unit), or one too old, is refused.
OpenCredential(r) ==
  /\ gate[r].at = "credential" /\ gate[r].file # Unseen
  /\ IF /\ credential.inode = gate[r].file.inode
        /\ credential.approved /\ credential.age <= CredentialLife
     THEN Moved(r, [gate[r] EXCEPT !.at = "reading", !.file = File])
     ELSE Ruled(r, FALSE)
  /\ UNCHANGED <<allowCache, credential, told>>

\* The read, and the fstat() after it.  A file renamed over the name is not the
\* open one, so only a write in place shows.
ReadCredential(r) ==
  /\ gate[r].at = "reading"
  /\ IF credential.inode # gate[r].file.inode \/ File = gate[r].file
     THEN Moved(r, [gate[r] EXCEPT !.at = "asking", !.timer = PdpTimeout, !.file = Unseen])
     ELSE Ruled(r, FALSE)
  /\ UNCHANGED <<allowCache, credential, told>>

\* What the PDP is asked.
Asked(r) == [subject |-> gate[r].subject, capability |-> CapabilityOf(gate[r].route)]

\* The PDP decides, or fails to.
Decide(r) ==
  /\ gate[r].at = "asking" /\ gate[r].answer = "none"
  /\ \E answer \in {"allow", "deny", "fault"} : Moved(r, [gate[r] EXCEPT !.answer = answer])
  /\ UNCHANGED <<allowCache, credential, told>>

\* The head of the answer: anything but a 200 is a deny; else the timer is cleared.
HeadArrives(r) ==
  /\ gate[r].at = "asking" /\ gate[r].answer # "none"
  /\ IF gate[r].answer = "fault" THEN Ruled(r, FALSE)
     ELSE Moved(r, [gate[r] EXCEPT !.at = "body"])
  /\ UNCHANGED <<allowCache, credential, told>>

\* The transport fails, or the timer aborts the call.
CallFails(r) ==
  /\ gate[r].at = "asking"
  /\ gate[r].timer = 0 \/ gate[r].answer = "none"
  /\ Ruled(r, FALSE)
  /\ UNCHANGED <<allowCache, credential, told>>

\* json(), and what is made of it: decide() remembers an allow.
DecisionArrives(r) ==
  LET key == CacheKey(gate[r].subject, CapabilityOf(gate[r].route))
      allowed == gate[r].answer = "allow"
  IN /\ gate[r].at = "body"
     /\ Ruled(r, allowed)
     /\ allowCache' = IF allowed /\ ~Qualified(gate[r].route) THEN Put(allowCache, key)
                      ELSE allowCache
     /\ told' = IF allowed THEN [told EXCEPT ![Asked(r)] = 0] ELSE told
     /\ UNCHANGED credential

\* A body that does not parse, or is not a decision.
DecisionBreaks(r) ==
  /\ gate[r].at = "body"
  /\ Ruled(r, FALSE)
  /\ UNCHANGED <<allowCache, credential, told>>

-----------------------------------------------------------------------------
(* The outside.                                                            *)

\* The credential is replaced by a rename, or written in place.
RotateCredential(inPlace, approved) ==
  /\ credential.version < MaxRotations
  /\ credential' = [inode |-> IF inPlace THEN credential.inode ELSE credential.inode + 1,
                    version |-> credential.version + 1, age |-> 0, approved |-> approved]
  /\ UNCHANGED <<allowCache, gate, told>>

Less(n) == IF n = 0 THEN 0 ELSE n - 1
More(n, most) == IF n = most THEN n ELSE n + 1

TimePasses ==
  /\ allowCache' = [i \in DOMAIN allowCache |-> [allowCache[i] EXCEPT !.left = Less(@)]]
  /\ gate' = [r \in AuthzRequests |->
               IF gate[r].at = "asking" THEN [gate[r] EXCEPT !.timer = Less(@)] ELSE gate[r]]
  /\ credential' = [credential EXCEPT !.age = More(@, CredentialLife + 1)]
  /\ told' = [k \in Keys |-> More(told[k], CacheTtl)]

AuthzNext ==
  \/ \E r \in AuthzRequests :
       \/ \E route \in Routes, identity \in Identities, internal \in BOOLEAN :
            Enter(r, route, identity, internal)
       \/ SeeCredential(r) \/ OpenCredential(r) \/ ReadCredential(r)
       \/ Decide(r) \/ HeadArrives(r) \/ CallFails(r) \/ DecisionArrives(r) \/ DecisionBreaks(r)
  \/ \E inPlace, approved \in BOOLEAN : RotateCredential(inPlace, approved)
  \/ TimePasses

AuthzSpec == AuthzInit /\ [][AuthzNext]_authzVars

-----------------------------------------------------------------------------
(* A request for a gated route passes only on the word of the PDP for its  *)
(* subject and its capability: on a governed route the answer to this very *)
(* request, from outside on any other route one that was read less than    *)
(* CacheTtl ago.  A cached allow does not outlive that, however often it   *)
(* is used.                                                                *)
(* enforceAuthz() in src/src/index.mjs, decide() in                        *)
(* src/src/policy/authz_decide.mjs, decideSkLegal().                       *)
AllowIsTold ==
  [][\A r \in AuthzRequests :
       LET g == gate'[r]
           key == [subject |-> g.subject, capability |-> CapabilityOf(g.route)]
       IN g # gate[r] /\ g.at = "judged" /\ g.allowed =>
            \/ g.open
            \/ gate[r].at = "body" /\ gate[r].answer = "allow"
            \/ /\ ~Qualified(g.route)
               /\ key \in Keys /\ told[key] < CacheTtl]_gate
=============================================================================
