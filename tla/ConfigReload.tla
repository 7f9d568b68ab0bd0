---------------------------- MODULE ConfigReload ----------------------------
(***************************************************************************)
(* Reloading the configuration: src/src/config.mjs reads, validates and    *)
(* swaps it on SIGHUP, and src/src/index.mjs refreshes its snapshot and    *)
(* rebuilds the two authenticators when it hears of it.                    *)
(*                                                                         *)
(* Of the document a model keeps what the handlers tell apart: whether it  *)
(* is valid, which boundary it enables, and the value of each section that *)
(* has no default and is absent where the file does not name it.           *)
(***************************************************************************)
EXTENDS Naturals, FiniteSets

CONSTANTS Optional,  \* top-level sections without a default: model_limits, ...
          Settings   \* the values such a section may have

ASSUME ReloadAssumption == IsFiniteSet(Optional) /\ IsFiniteSet(Settings) /\ "absent" \notin Settings

VARIABLES file,      \* the YAML file
          readable,  \* readable[b]: the credentials file of boundary b can be read
          current,   \* _current, which getConfig() returns
          snapshot,  \* config of index.mjs
          guards     \* guards[b]: the authenticator of boundary b: "off", or whether
                     \* it is available

reloadVars == <<file, readable, current, snapshot, guards>>

Boundaries == {"client", "operator"}
Documents == [enabled : SUBSET Boundaries, sections : [Optional -> Settings \cup {"absent"}]]
Files == [valid : BOOLEAN, document : Documents]

\* A process that cannot validate its file or read a registry does not start.
ReloadInit ==
  /\ file \in {f \in Files : f.valid}
  /\ readable = [b \in Boundaries |-> TRUE]
  /\ current = file.document
  /\ snapshot = current
  /\ guards = [b \in Boundaries |-> IF b \in current.enabled THEN "available" ELSE "off"]

Edit ==
  /\ file' \in Files \ {file}
  /\ UNCHANGED <<readable, current, snapshot, guards>>

RegistryChanges ==
  /\ \E b \in Boundaries : readable' = [readable EXCEPT ![b] = ~ @]
  /\ UNCHANGED <<file, current, snapshot, guards>>

\* Object.assign(config, current): a section the file no longer has stays.
Assigned(old, new) ==
  [new EXCEPT !.sections = [s \in Optional |-> IF new.sections[s] = "absent" THEN old.sections[s] ELSE new.sections[s]]]

\* new ClientAuthenticator() for the boundaries in their order; the first one
\* that throws ends this, and the catch makes what is there unavailable.
\* mutant: a boundary that cannot be rebuilt is taken down.
TakenDown(doc) == [b \in Boundaries |-> "off"]
Withheld(doc) ==
  LET rebuilt == [guards EXCEPT !["client"] =
        CASE "client" \notin doc.enabled -> "off" [] readable["client"] -> "available" [] OTHER -> @]
  IN [b \in Boundaries |-> IF rebuilt[b] = "off" THEN "off" ELSE "unavailable"]

Rebuilt(doc) == [b \in Boundaries |-> IF b \in doc.enabled THEN "available" ELSE "off"]

\* _handleSighup() and the listener: a file that is refused changes nothing.
Sighup ==
  /\ IF file.valid
     THEN /\ current' = file.document
          /\ snapshot' = Assigned(snapshot, file.document)
          /\ guards' = IF \A b \in file.document.enabled : readable[b]
                       THEN Rebuilt(file.document) ELSE Withheld(file.document)
     ELSE UNCHANGED <<current, snapshot, guards>>
  /\ UNCHANGED <<file, readable>>

ReloadNext ==
  \/ Edit
  \/ RegistryChanges
  \/ Sighup

ReloadSpec == ReloadInit /\ [][ReloadNext]_reloadVars

-----------------------------------------------------------------------------

\* A boundary that stands is lifted only by a valid file that does without it:
\* no rejected file and no registry that cannot be read opens it.
BoundaryStands ==
  [][\A b \in Boundaries : guards[b] # "off" /\ guards'[b] = "off" => b \notin current'.enabled]_reloadVars

=============================================================================
