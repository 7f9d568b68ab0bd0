----------------------------- MODULE MCServing -----------------------------
(***************************************************************************)
(* What serves a request besides the router, and what records it: the      *)
(* front door, the authorization gate, the history that is trimmed, the    *)
(* contract of the answer, the bridge to the Anthropic format, the event   *)
(* outputs, the reload of the configuration and the hand-over of the       *)
(* listener.  They share no variable; each behaviour runs one of them,     *)
(* from each of its initial states, while the others rest.                 *)
(***************************************************************************)
EXTENDS FrontDoor, Authorization, HistoryTrim, ResponseContract,
        AnthropicBridge, EventBus, SiemOutputs, ConfigReload,
        AtomicActivation

VARIABLE running \* the part that runs

servingVars == <<running, frontDoorVars, authzVars, trimVars, contractVars,
                 bridgeVars, fileVars, busVars, siemVars, reloadVars, activationVars>>

\* The initial state of a part that rests, where it has several.
FileAtRest == file.document = [enabled |-> {}, sections |-> [s \in Optional |-> "absent"]]

MCInit ==
  /\ running \in {"door", "authz", "trim", "contract", "bridge", "file", "bus",
                  "siem", "reload", "activation"}
  /\ ContractInit
  /\ running # "contract" => given = <<>>
  /\ AuthzInit
  /\ BridgeInit
  /\ FrontDoorInit
  /\ TrimInit
  /\ FileInit
  /\ BusInit
  /\ SiemInit
  /\ ReloadInit
  /\ ActivationInit
  /\ running # "trim" => history = <<>>
  /\ running # "reload" => FileAtRest
  /\ running # "activation" => prior.active = 0

OthersRest ==
  /\ IF running = "door" THEN TRUE ELSE UNCHANGED frontDoorVars
  /\ IF running = "authz" THEN TRUE ELSE UNCHANGED authzVars
  /\ IF running = "trim" THEN TRUE ELSE UNCHANGED trimVars
  /\ IF running = "contract" THEN TRUE ELSE UNCHANGED contractVars
  /\ IF running = "bridge" THEN TRUE ELSE UNCHANGED bridgeVars
  /\ IF running = "file" THEN TRUE ELSE UNCHANGED fileVars
  /\ IF running = "bus" THEN TRUE ELSE UNCHANGED busVars
  /\ IF running = "siem" THEN TRUE ELSE UNCHANGED siemVars
  /\ IF running = "reload" THEN TRUE ELSE UNCHANGED reloadVars
  /\ IF running = "activation" THEN TRUE ELSE UNCHANGED activationVars

MCNext ==
  /\ UNCHANGED running
  /\ OthersRest
  /\ \/ running = "door" /\ FrontDoorNext
     \/ running = "authz" /\ AuthzNext
     \/ running = "trim" /\ TrimNext
     \/ running = "contract" /\ ContractNext
     \/ running = "bridge" /\ BridgeNext
     \/ running = "file" /\ FileNext
     \/ running = "bus" /\ BusNext
     \/ running = "siem" /\ SiemNext
     \/ running = "reload" /\ ReloadNext
     \/ running = "activation" /\ ActivationNext

\* Two requests at the gate differ in their name only.
MCSymmetry == Permutations(AuthzRequests)

MCSpec == MCInit /\ [][MCNext]_servingVars

=============================================================================
