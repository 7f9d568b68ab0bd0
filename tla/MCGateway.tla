----------------------------- MODULE MCGateway -----------------------------
(***************************************************************************)
(* What the gateway keeps between requests, besides the state of its       *)
(* routing: the logins it refreshes, the sessions of its callers, the tool *)
(* rounds of the standalone proxy, what it books of energy, the catalog    *)
(* that it shows, and what it has measured of the models.  They share no   *)
(* variable; each behaviour runs one of them, from each of its initial     *)
(* states, while the others rest.                                          *)
(***************************************************************************)
EXTENDS KimiAuth, ClaudeAuth, ProxyCore, Sessions, EnergyMeter, ServedCatalog,
        CapabilityBattery

VARIABLE running \* the part that runs

gatewayVars == <<running, kimiVars, claudeVars, coreVars, sessionVars, energyVars, servedVars,
                 batteryVars>>

-----------------------------------------------------------------------------
(* The standalone proxy *)

MCModelOf == [c \in {"x", "y"} |-> IF c = "x" THEN "m" ELSE "n"]
MCBody(json, text, calls, ghost) ==
  [json |-> json, choice |-> json, text |-> text, reasoning |-> "none", calls |-> calls, ghost |-> ghost]
MCBodies ==
  {MCBody(FALSE, "none", <<>>, FALSE), MCBody(TRUE, "clean", <<>>, TRUE), MCBody(TRUE, "markup", <<>>, FALSE),
   [MCBody(TRUE, "markup", <<>>, FALSE) EXCEPT !.reasoning = "long"], [MCBody(TRUE, "none", <<>>, FALSE) EXCEPT !.choice = FALSE],
   MCBody(TRUE, "none", <<TRUE>>, TRUE), MCBody(TRUE, "none", <<TRUE, FALSE, TRUE>>, TRUE)}
MCAsk(tools, tail) ==
  [chat |-> TRUE, stream |-> TRUE, force |-> FALSE, tools |-> tools, tail |-> tail,
   system |-> 0, instructed |-> FALSE, size |-> "fits"]
MCCoreRequests ==
  {MCAsk(5, "user"), MCAsk(1, "tool"), [MCAsk(1, "assistant") EXCEPT !.instructed = TRUE], MCAsk(0, "tool"),
   [MCAsk(0, "user") EXCEPT !.force = TRUE], [MCAsk(5, "user") EXCEPT !.chat = FALSE],
   [MCAsk(5, "tool") EXCEPT !.stream = FALSE, !.system = 8], [MCAsk(1, "tool") EXCEPT !.system = 7]}
  \cup {[MCAsk(tools, "tool") EXCEPT !.size = size] : tools \in {1, 5},
          size \in {"fits with fewer tools", "too long with the instruction", "too long"}}

-----------------------------------------------------------------------------
(* Sessions: a built-in agent with a token, an agent with a folder and a key *)

MCBuiltin == <<"a">>
MCFolders == <<"b", "a">>
MCOverrides == <<[name |-> "c", key |-> {}, tokens |-> {"t"}], [name |-> "a", key |-> {"c"}, tokens |-> {}]>>
MCUnsigned(agent, session) ==
  [signature |-> [by |-> "none", age |-> "none"], agent |-> agent, bearer |-> "no id", session |-> session]
MCHeaders ==
  {MCUnsigned(agent, session) : agent \in {"a", "anonymous"}, session \in {"no id", "s1", "s2"}}
  \cup {[MCUnsigned("b", "no id") EXCEPT !.signature = [by |-> "b", age |-> when]] : when \in {"timely", "old"}}
  \cup {[MCUnsigned("none", "s1") EXCEPT !.bearer = "t"]}

-----------------------------------------------------------------------------
(* Energy: a metered door and one without a meter, a model with coefficients *)

MCDoorAt(backend, reg, declared) ==
  [backend |-> backend, reg |-> reg, host |-> "h", declared |-> declared, localUrl |-> TRUE]
MCEnergyDoors == <<MCDoorAt("a", TRUE, "unknown"), MCDoorAt("b", FALSE, "remote")>>
MCMeters == (<<FALSE, "a">> :> "gpu")
MCEnergyModel == [name |-> <<"q", "8b">>, size |-> 1]
MCCoefficients == (<<"q">> :> [input |-> 1, output |-> 2])
MCReadings == {NoReading, 1}
MCTokenCounts == {[input |-> 1, output |-> 1]}

-----------------------------------------------------------------------------
(* The catalog: a local door between two providers that list, one of which replaces *)
(* what its door declares *)

MCCatalogDoor(models, local, source) ==
  [enabled |-> TRUE, advertise |-> TRUE, models |-> models, local |-> local, source |-> source]
MCCatalogDoors ==
  <<MCCatalogDoor({"m1"}, FALSE, 1), MCCatalogDoor({"m2"}, TRUE, NoTag), MCCatalogDoor({}, FALSE, NoTag)>>
MCFetchOrder == <<1, 3>>
MCStored == [m \in {"m1", "m2"} |-> IF m = "m2" THEN NoTag ELSE 1]
MCFocusedAliases == {[provider |-> p, fits |-> {"m1", "m2"}] : p \in {1, 3}}
MCGenericBuckets == {{"m1"}, {"m1", "m2"}}

-----------------------------------------------------------------------------
(* Measurements: a model that can, and one that cannot *)

MCAssertions == <<"tool_call">>
MCTruth == <<[pass |-> {"tool_call"}, tokens |-> 2], [pass |-> {}, tokens |-> 0]>>

-----------------------------------------------------------------------------
MCInit ==
  /\ running \in {"kimi", "claude", "core", "sessions", "energy", "served", "battery"}
  /\ Init
  /\ ClaudeInit
  /\ CoreInit
  /\ SessionsInit
  /\ EnergyInit
  /\ ServedInit
  /\ BatteryInit

OthersRest ==
  /\ IF running = "kimi" THEN TRUE ELSE UNCHANGED kimiVars
  /\ IF running = "claude" THEN TRUE ELSE UNCHANGED claudeVars
  /\ IF running = "core" THEN TRUE ELSE UNCHANGED coreVars
  /\ IF running = "sessions" THEN TRUE ELSE UNCHANGED sessionVars
  /\ IF running = "energy" THEN TRUE ELSE UNCHANGED energyVars
  /\ IF running = "served" THEN TRUE ELSE UNCHANGED servedVars
  /\ IF running = "battery" THEN TRUE ELSE UNCHANGED batteryVars

MCNext ==
  /\ UNCHANGED running
  /\ OthersRest
  /\ \/ running = "kimi" /\ Next
     \/ running = "claude" /\ ClaudeNext
     \/ running = "core" /\ CoreNext
     \/ running = "sessions" /\ SessionsNext
     \/ running = "energy" /\ EnergyNext
     \/ running = "served" /\ ServedNext
     \/ running = "battery" /\ BatteryNext

MCSpec == MCInit /\ [][MCNext]_gatewayVars

=============================================================================
