-------------------------- MODULE MCConnectionPool --------------------------
(* A shared domain "chiap08" with a registry alias, and a backend alone.    *)
EXTENDS ConnectionPool

MCBackends == {"chiap08", "reg:qwen", "solo"}
MCMembers == [d \in {"chiap08"} |-> {"reg:qwen"}]
\* "solo" is configured with 0 and clamped to 1; the alias has no door itself.
MCMaxConcurrent == [b \in MCBackends |-> IF b = "chiap08" THEN 2 ELSE 0]
MCMaxQueue == [b \in MCBackends |-> IF b = "chiap08" THEN 2 ELSE 1]
=============================================================================
