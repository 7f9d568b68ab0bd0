----------------------------- MODULE MCRouting -----------------------------
(***************************************************************************)
(* Who a request is for: what its name is taken for, the candidates of one *)
(* model, and the members of a bucket.  They share no variable; each       *)
(* behaviour runs one of them, from each of its initial states, while the  *)
(* others rest.                                                            *)
(***************************************************************************)
EXTENDS ModelRouting, BucketChain, Dispatch

VARIABLE running \* the part that runs

mcVars == <<running, routingVars, chainVars, dispatchVars>>

\* Two doors of one priority that declare the model, one of them the owner, and
\* one behind them that learns of it by discovery.
MCPriority == [b \in Doors |-> IF b = "c" THEN 2 ELSE 1]

\* A catalog entry of size class `size`, without measurements or a review.
Entry(id, provider, zone, size, cost, family) ==
  [id |-> id, provider |-> provider, zone |-> zone, size |-> size, cost |-> cost,
   family |-> family, toolCall |-> "none", format |-> "none", declaresTools |-> TRUE,
   review |-> [reviewed |-> FALSE, passed |-> FALSE, class |-> 0]]

\* Two models of one local provider, of which one cannot call tools, and one of
\* a remote provider.
MCCatalog ==
  << Entry(1, "a", 0, 1, 0, "q"),
     [Entry(2, "a", 0, 1, 0, "g") EXCEPT !.declaresTools = FALSE],
     Entry(3, "b", 2, 1, 1, "q") >>

NoEntry == << >>
NoPolicy == [bucketModels |-> NoEntry, bucketProviders |-> NoEntry, models |-> NoEntry, providers |-> NoEntry]
Heavy == [NoPolicy EXCEPT !.providers = [p \in {"a"} |-> [enabled |-> TRUE, weight |-> 2]]]
OneModel == [NoPolicy EXCEPT !.providers = [p \in {"a"} |-> [enabled |-> FALSE, weight |-> 2]],
                             !.models = [m \in {1} |-> [enabled |-> TRUE, weight |-> 2]]]
Bucket(floor, provider) == [floor |-> floor, ceiling |-> 2, provider |-> provider, remote |-> FALSE]

\* A weighted bucket with a heavy provider, with one that only an override of a
\* model lets in, and a bucket of one provider, ordered by cost.
MCSetups ==
  {[catalog |-> MCCatalog, policy |-> policy, bucket |-> Bucket(1, "any")] : policy \in {Heavy, OneModel}}
    \cup {[catalog |-> MCCatalog, policy |-> NoPolicy, bucket |-> Bucket(0, "a")]}
MCClaims == [id \in 1 .. 3 |-> IF id = 3 THEN <<"rb">> ELSE <<"la">>]
MCBackends == [la |-> [provider |-> "a", zone |-> 0], rb |-> [provider |-> "b", zone |-> 2]]
MCWishes == {<<>>, <<"free", "g">>}
\* Two conversations that begin alike, one of its own, and one without a key.
MCSessions == {"s1", "s2", "s3", "s4"}
MCKeyOf == [s \in MCSessions |-> CASE s \in {"s1", "s2"} -> "k1" [] s = "s3" -> "k2" [] OTHER -> "none"]
MCOrder == <<"a", "b">>
MCModels == <<1, 2, 3>>

-----------------------------------------------------------------------------
\* A request by each way the names take, and two registries that differ in what the
\* roles ask for, what prompts are taken for and which backends may be replaced.
MCAsk(model) == [model |-> model, context |-> None, service |-> None, role |-> None, agent |-> "anyone",
                 prompt |-> "p", sensitivity |-> None, synthetic |-> FALSE, exact |-> None]
MCRequests ==
  {MCAsk(m) : m \in {"m1", "fast", "sk-l-secret", "sk-l-secrets", "sk-auto"}}
  \cup {[MCAsk("m1") EXCEPT !.context = "chat"], [MCAsk("m1") EXCEPT !.agent = "lumina"],
        [MCAsk("m1") EXCEPT !.role = "sk-codex"], [MCAsk("m1") EXCEPT !.role = "sk-none"],
        [MCAsk("sk-opus") EXCEPT !.service = "ingest"],
        [MCAsk("sk-default") EXCEPT !.sensitivity = "secret"],
        [MCAsk("m1") EXCEPT !.synthetic = TRUE, !.context = "public"],
        [MCAsk("m1") EXCEPT !.synthetic = TRUE, !.exact = "za"]}
Box(no) == [kind |-> "external", door |-> "box", model |-> "orn", local |-> TRUE, noFailover |-> no]
MCDoc ==
  [roles |-> [r \in {"sk-default", "sk-tools", "sk-auto", "sk-opus", "sk-codex"} |->
      CASE r = "sk-default" -> "box" [] r = "sk-tools" -> "@match" [] r = "sk-auto" -> "auto"
        [] r = "sk-opus" -> "opus" [] OTHER -> "cdx"],
   contexts |-> [c \in {"chat"} |-> "sk-tools"], pins |-> [a \in {"lumina"} |-> "sk-default"],
   defaultRole |-> "sk-auto", requires |-> [r \in {"sk-tools"} |-> {"m1", "m2", "m4"}],
   difficulty |-> [p \in {"p"} |-> {"sk-default", "sk-tools"}], fallbacks |-> <<"m2">>,
   backends |-> [b \in {"box", "opus", "cdx"} |->
      CASE b = "box" -> Box(FALSE) [] b = "opus" -> [kind |-> "anthropic", model |-> "m3"]
        [] OTHER -> [kind |-> "external", door |-> "cdx", model |-> "gpt", local |-> FALSE, noFailover |-> FALSE]]]
MCDocuments == {MCDoc, [MCDoc EXCEPT !.requires = [r \in {"sk-tools"} |-> {"m3"}], !.difficulty = [p \in {"p"} |-> {"sk-opus"}],
   !.pins = <<>>, !.backends["box"] = Box(TRUE), !.backends["cdx"].door = "or"]}
\* m2 is declared by a door, m1 is listed by a provider that has none or by one whose
\* door is disabled, m4 is excluded.
MCCatalogs == {{<<"m1", "free">>, <<"m3", "pb">>, <<"m4", "pb">>}, {<<"m1", "off">>, <<"m3", "pb">>}}
MCServingDoors == {[id |-> "box", enabled |-> TRUE, models |-> {"m2"}],
                   [id |-> "off", enabled |-> FALSE, models |-> {"m1"}]}
MCScored == <<"m4", "m1", "m2", "m3">>
MCSettings ==
  {[buckets |-> TRUE, match |-> TRUE, enforced |-> TRUE], [buckets |-> FALSE, match |-> FALSE, enforced |-> FALSE]}
MCAliases == [a \in {"fast"} |-> "sk-tools"]

-----------------------------------------------------------------------------
\* The initial state of the part that rests, where it has several.
ListsAtRest == [b \in Doors |-> "other"]
CatalogAtRest == CHOOSE rows \in MCCatalogs : <<"m1", "off">> \in rows
SetupAtRest == CHOOSE s \in MCSetups : s.policy = NoPolicy

MCInit ==
  /\ running \in {"routing", "chain", "dispatch"}
  /\ RoutingInit
  /\ ChainInit
  /\ running # "routing" => lists = ListsAtRest
  /\ running # "chain" => setup = SetupAtRest
  /\ DispatchInit
  /\ running # "dispatch" => file.doc = MCDoc /\ catalog.rows = CatalogAtRest /\ settings.match

MCNext ==
  /\ UNCHANGED running
  /\ \/ running = "routing" /\ RoutingNext /\ UNCHANGED <<chainVars, dispatchVars>>
     \/ running = "chain" /\ ChainNext /\ UNCHANGED <<routingVars, dispatchVars>>
     \/ running = "dispatch" /\ DispatchNext /\ UNCHANGED <<routingVars, chainVars>>

MCSpec == MCInit /\ [][MCNext]_mcVars

=============================================================================
