------------------------------ MODULE Sessions ------------------------------
(***************************************************************************)
(* Who calls, and in which session: the identity that is read from the     *)
(* headers of a request (src/src/identity/capauth.mjs) and the sessions    *)
(* that are kept per agent (src/src/identity/session.mjs).                 *)
(*                                                                         *)
(* A request opens or continues a session when it arrives and adds its     *)
(* usage when it ends; in between the session may have been expired,       *)
(* pruned, evicted at a cap, or opened anew by somebody else.              *)
(***************************************************************************)
EXTENDS Naturals, FiniteSets, SequencesExt

CONSTANTS BuiltinAgents,   \* the names of BUILTIN_AGENTS, in order
          AgentFolders,    \* the folders with the names of agents, in order
          FoldersWithKey,  \* those that hold a public key
          AgentOverrides,  \* identity.agents: a sequence of [name, key, tokens]
          RequireAgentId,
          SessionHeaders,  \* [signature, agent, bearer, session]: `signature` the name that
                           \* signed it, and when; `session` may be NoId
          GeneratedIds,    \* the ids that _genId() may give
          NoAgent, Anonymous, NoId,
          Visits,          \* requests that may be under way together
          MaxPerAgent, MaxSessions, IdleTimeout, PruneAfter,
          TrackExpired,
          LastMoment       \* bound: the clock

ASSUME SessionsAssumption ==
  /\ {MaxPerAgent, MaxSessions} \subseteq Nat \ {0}
  /\ {IdleTimeout, PruneAfter, LastMoment} \subseteq Nat
  /\ {RequireAgentId, TrackExpired} \subseteq BOOLEAN
  /\ NoId \notin GeneratedIds
  /\ FoldersWithKey \subseteq Range(AgentFolders)
  /\ BuiltinAgents \in Seq(Range(BuiltinAgents))
  /\ AgentFolders \in Seq(Range(AgentFolders))
  /\ AgentOverrides \in Seq(Range(AgentOverrides))

VARIABLES sessions,    \* _sessions in insertion order: a sequence of [id, agent, last, active]
          byAgent,  \* _byAgent: the ids of each agent
          visit,    \* visit[v]: what a request under way knows of its caller
          clock

sessionVars == <<sessions, byAgent, visit, clock>>

-----------------------------------------------------------------------------
(* loadAgentRegistry() *)

\* The names in the order in which the map got them.
AgentNames ==
  LET all == BuiltinAgents \o AgentFolders \o [i \in DOMAIN AgentOverrides |-> AgentOverrides[i].name]
  IN FlattenSeq([i \in DOMAIN all |-> IF \E j \in 1 .. i - 1 : all[j] = all[i] THEN <<>> ELSE <<all[i]>>])
\* The last override of an agent that gives the field wins.
LastGiven(name, field) ==
  SelectLastInSeq(AgentOverrides, LAMBDA o : o.name = name /\ o[field] # {})
TokensOf(name) == LET i == LastGiven(name, "tokens") IN IF i = 0 THEN {} ELSE AgentOverrides[i].tokens
\* The keys whose signatures are accepted for an agent: its own, or the one configured.
KeysOf(name) ==
  LET i == LastGiven(name, "key")
  IN IF i # 0 THEN AgentOverrides[i].key ELSE FoldersWithKey \cap {name}
TokenOwner(token) ==
  LET i == SelectLastInSeq(AgentNames, LAMBDA name : token \in TokensOf(name))
  IN IF i = 0 THEN NoAgent ELSE AgentNames[i]

(* extractIdentity() *)

\* normalizeAgentId(): the name of nobody is no name.
HeaderAgent(h) == IF h.agent = Anonymous THEN NoAgent ELSE h.agent
SignatureCounts(h) ==
  /\ h.signature.age = "timely"
  /\ HeaderAgent(h) # NoAgent
  /\ Contains(AgentNames, HeaderAgent(h))
Verified(h) == h.signature.by \in KeysOf(h.agent)

\* The first of signature, bearer token and header that names an agent.
Identity(h) ==
  LET owner == TokenOwner(h.bearer)
      named(agent, method, verified) ==
        [agent |-> agent, method |-> method, verified |-> verified, session |-> h.session]
  IN CASE SignatureCounts(h) -> named(h.agent, "capauth", Verified(h))
       [] ~ SignatureCounts(h) /\ owner # NoAgent -> named(owner, "bearer", FALSE)
       [] ~ SignatureCounts(h) /\ owner = NoAgent /\ HeaderAgent(h) # NoAgent -> named(h.agent, "header", FALSE)
       [] OTHER -> named(Anonymous, "anonymous", FALSE)

-----------------------------------------------------------------------------
(* createSessionTracker() *)

KnownAgents == Range(AgentNames) \cup {HeaderAgent(h) : h \in SessionHeaders} \cup {Anonymous}
KnownIds == {sessions[i].id : i \in DOMAIN sessions}
Gone == [stage |-> "gone", agent |-> NoAgent, session |-> NoId]

SessionsInit ==
  /\ sessions = <<>>
  /\ byAgent = [a \in KnownAgents |-> {}]
  /\ visit = [v \in Visits |-> Gone]
  /\ clock = 0

Without(kept, ids) ==
  FlattenSeq([i \in DOMAIN kept |-> IF kept[i].id \in ids THEN <<>> ELSE <<kept[i]>>])
\* Sessions are opened in the order of their start, so the first is the oldest.
OldestOf(kept, agent) == LET i == SelectInSeq(kept, LAMBDA s : s.agent = agent) IN kept[i].id

\* The ids that leave for a new session of the agent, one at each cap.
EvictedForAgent(agent) ==
  IF Cardinality(byAgent[agent]) < MaxPerAgent THEN {} ELSE {OldestOf(sessions, agent)}
EvictedForAll(left) == IF Len(left) < MaxSessions THEN {} ELSE {left[1].id}

\* mutant: the index follows the cap of the agent only.
IndexAtCap(agent, ids) == IF Cardinality(byAgent[agent]) < MaxPerAgent THEN byAgent[agent] ELSE byAgent[agent] \ ids
\* What stays in the index of an agent when the ids leave.
IndexWithout(agent, ids) == byAgent[agent] \ ids

Continue(id) ==
  LET i == SelectInSeq(sessions, LAMBDA s : s.id = id)
  IN /\ sessions' = [sessions EXCEPT ![i].active = TRUE, ![i].last = clock]
     /\ UNCHANGED byAgent
Open(agent, id) ==
  LET forAgent == EvictedForAgent(agent)
      out == forAgent \cup EvictedForAll(Without(sessions, forAgent))
  IN /\ sessions' = Append(Without(sessions, out), [id |-> id, agent |-> agent, last |-> clock, active |-> TRUE])
     /\ byAgent' = [a \in KnownAgents |-> IndexWithout(a, out) \cup (IF a = agent THEN {id} ELSE {})]

\* track(), for the id that came along or a new one.
Track(agent, id) ==
  IF id \in KnownIds THEN Continue(id) ELSE Open(agent, id)

\* identityMiddleware(), then the session.
Arrive(v, h) ==
  LET who == Identity(h)
  IN /\ visit[v].stage = "gone"
     /\ RequireAgentId => who.method # "anonymous"
     /\ \E id \in IF h.session # NoId THEN {h.session} ELSE GeneratedIds \ KnownIds :
          /\ Track(who.agent, id)
          /\ visit' = [visit EXCEPT ![v] = [stage |-> "under way", agent |-> who.agent, session |-> id]]
     /\ UNCHANGED clock

\* recordUsage(): the session may be gone, expired, or somebody else's by now.
RecordUsage(v) ==
  LET i == SelectInSeq(sessions, LAMBDA s : s.id = visit[v].session)
  IN /\ visit[v].stage = "under way"
     /\ sessions' = IF i = 0 THEN sessions ELSE [sessions EXCEPT ![i].last = clock]
     /\ visit' = [visit EXCEPT ![v] = Gone]
     /\ UNCHANGED <<byAgent, clock>>

\* _sweep()
Prunable(s) == ~ s.active /\ (~ TrackExpired \/ clock - s.last > PruneAfter)
Sweep ==
  LET out == {s.id : s \in {s \in Range(sessions) : Prunable(s)}}
      left == Without(sessions, out)
  IN /\ sessions' = [i \in DOMAIN left |->
           IF clock - left[i].last > IdleTimeout THEN [left[i] EXCEPT !.active = FALSE] ELSE left[i]]
     /\ byAgent' = [a \in KnownAgents |-> IndexWithout(a, out)]
     /\ UNCHANGED <<visit, clock>>

ClockTicks == clock < LastMoment /\ clock' = clock + 1 /\ UNCHANGED <<sessions, byAgent, visit>>

SessionsNext ==
  \/ \E v \in Visits : (\E h \in SessionHeaders : Arrive(v, h)) \/ RecordUsage(v)
  \/ Sweep
  \/ ClockTicks

SessionsSpec == SessionsInit /\ [][SessionsNext]_sessionVars

-----------------------------------------------------------------------------
\* Per-agent indexing, and the caps that bound the memory: whatever was expired, pruned
\* and evicted in between, the two maps name the same sessions, each under one agent,
\* and no cap is passed.
IndexesAgree ==
  /\ \A a \in KnownAgents : byAgent[a] = {s.id : s \in {s \in Range(sessions) : s.agent = a}}
  /\ Cardinality(KnownIds) = Len(sessions) /\ Len(sessions) <= MaxSessions
  /\ \A a \in KnownAgents : Cardinality(byAgent[a]) <= MaxPerAgent

=============================================================================
