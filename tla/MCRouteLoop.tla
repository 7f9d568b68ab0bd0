----------------------------- MODULE MCRouteLoop -----------------------------
(* Two replicas of one model behind one door with a queue, the first with    *)
(* the smaller context, and a member of another family behind a door without *)
(* a queue, which takes only small bodies.                                   *)
EXTENDS RouteLoop

CONSTANTS a1, a2, k, A, K

MCCandidates == {a1, a2, k}
MCDomains == {A, K}
MCDomainOf == a1 :> A @@ a2 :> A @@ k :> K
MCModelOf == a1 :> "qwen" @@ a2 :> "qwen" @@ k :> "kimi"
MCFamilyOf == MCModelOf
MCContextLimit == a1 :> 1 @@ a2 :> 2 @@ k :> 2
MCBodyLimit == a1 :> 2 @@ a2 :> 2 @@ k :> 1
MCSlots == [d \in MCDomains |-> 1]
MCMaxQueue == A :> 1 @@ K :> 0

Direct(doors) == [doors |-> doors, chain |-> FALSE]
Chain(doors) == [doors |-> doors, chain |-> TRUE]

MCRoutes == {Direct(<<k, a2>>), Chain(<<a1, a2, k>>)}
=============================================================================
