---------------------------- MODULE SessionChoices ----------------------------
(***************************************************************************)
(* What a task is run with, as pure functions: the session mode and the    *)
(* permission behind one chip, the model and its thinking level            *)
(* (utils/sessionMode, sessionModel, reasoningEffort, and the rules of     *)
(* useSessionDefaults).                                                    *)
(***************************************************************************)
EXTENDS Integers, Sequences, FiniteSets, SequencesExt, FiniteSetsExt

Unset == ""          \* null and undefined: no mode, no model, no level

----------------------------------------------------------------------------
(* Modes: Plan is armed beside the permission, never written over it.      *)

SessionModes == <<"normal", "plan", "auto", "alwaysApprove">>

CycleSessionMode(mode) ==
    LET at == CHOOSE i \in 1..4 : SessionModes[i] = mode IN SessionModes[(at % 4) + 1]

SessionModeWireId(mode) == IF mode = "plan" THEN "plan" ELSE "default"

SessionModeFromPermission(perm) ==
    CASE perm = "auto" -> "auto"
      [] perm = "bypassPermissions" -> "alwaysApprove"
      [] OTHER -> "normal"

DisplaySessionMode(armed, perm) == IF armed THEN "plan" ELSE SessionModeFromPermission(perm)

\* Normal resets the permission only when it leaves Auto or Always-approve.
ApplySessionModeChange(mode, perm) ==
    [armed |-> mode = "plan",
     perm  |-> CASE mode = "auto" -> "auto"
                 [] mode = "alwaysApprove" -> "bypassPermissions"
                 [] mode = "normal" /\ perm \in {"auto", "bypassPermissions"} -> "default"
                 [] OTHER -> Unset]

\* The agent's word on its mode: it arms Plan, or disarms what was active.
ApplyAgentModeUpdate(wire, state) ==
    IF wire = "plan" THEN "active" ELSE IF state = "active" THEN "off" ELSE state

IsActive(state) == state = "active"
IsArmed(state) == state \in {"pending", "active"}

----------------------------------------------------------------------------
(* Models: [id, effort] is what an agent runs; a catalog is a sequence of  *)
(* [id, efforts, supports], best first.                                    *)

KnownEfforts(id) ==
    CASE id = "grok-4.6" -> <<"xhigh", "high", "medium", "low">>
      [] id = "grok-4.5" -> <<"high", "medium", "low">>
      [] OTHER -> <<>>
LegacyEfforts == <<"xhigh", "high", "medium", "low">>

\* The catalog's own list, then what is known of the model, then the rungs
\* of a model that only says that it has some.
ResolveReasoningOptions(id, catalog) ==
    LET at == {i \in DOMAIN catalog : catalog[i].id = id}
        known == KnownEfforts(id)
    IN IF at # {} /\ catalog[Min(at)].efforts # <<>> THEN catalog[Min(at)].efforts
       ELSE IF at # {} /\ catalog[Min(at)].supports /\ known = <<>> THEN LegacyEfforts
       ELSE known

PreferredNewSessionEffort(options) ==
    IF options = <<>> THEN Unset
    ELSE IF Contains(options, "xhigh") THEN "xhigh" ELSE options[1]

\* The newest model at its highest level, or nothing when the agent is there.
SessionDefaultPush(model, catalog) ==
    LET effort == PreferredNewSessionEffort(ResolveReasoningOptions(catalog[1].id, catalog))
        push   == [id |-> catalog[1].id, effort |-> effort]
    IN IF catalog = <<>> THEN {}
       ELSE IF push.id = model.id /\ (effort = Unset \/ effort = model.effort) THEN {}
       ELSE {push}

NextSessionModelChoice(previous, id, effort) ==
    [id |-> id, effort |-> IF effort # Unset THEN effort ELSE previous.effort]

NoChoice == [id |-> Unset, effort |-> Unset]

SessionModelNeedsPush(choice, model) ==
    IF choice = NoChoice \/ choice = model THEN {} ELSE {choice}
=============================================================================
