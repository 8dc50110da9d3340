----------------------------- MODULE TaskControl -----------------------------
(***************************************************************************)
(* How the window runs one task: App's handlers (handleSpawn, handleSend   *)
(* with ensureAttached, handleSessionModeChange, handleModelChange,        *)
(* handleResolvePermission, confirmStop), the hooks they drive             *)
(* (useSessionPlanMode, useSessionModel, useSessionDefaults) and the       *)
(* window's copy of the agents (managedList).                              *)
(*                                                                         *)
(* A handler runs from one await to the next in one step, together with    *)
(* the render and the effects that follow.  Its await is a flow: the call  *)
(* it waits for, the answer when the host has given it, and what it        *)
(* captured when it began.  A synchronous command of the host is served    *)
(* when it is called; the others when the host gets to them.  The host's   *)
(* events come in the order they are emitted, the answers in any order.    *)
(***************************************************************************)
EXTENDS SessionChoices, Selections

CONSTANTS
    Catalog,        \* the models the agent advertises: [id, efforts, supports]
    FirstModel,     \* the model a new agent runs
    DefaultMode,    \* the configured permission, for a task that has chosen none
    Modes,          \* session modes the user may choose
    Picks,          \* models the user may pick
    Plans           \* bound: what may happen, chosen in Init (field left)

ASSUME PlanBudgets == \A p \in Plans : {"fails", "losses"} \subseteq DOMAIN p /\ {p.fails, p.losses} \subseteq Nat

VARIABLES
    roster,         \* managedList: the infos of the handles of the task
    perms,          \* taskPermissionModes of the task
    plan,           \* planStateBySession of the task
    choice,         \* the model picked
    armed,          \* a default model is still to be decided
    busy,           \* controlBusy
    known,          \* the task is selected in the window
    flows,          \* handlers at an await
    agent,          \* the host's copy of the live agent
    wire,           \* the session mode inside the agent
    saved,          \* task_prefs on disk: [plan, perm]
    events,         \* emitted, not delivered
    asking,         \* a plan approval is open
    picked,         \* the user's last model pick, NoChoice before it
    calm,           \* history: so far one thing at a time, and no call failed but a start
    passed,         \* history: the last agent that was live while the mode was changed without it
    left            \* bound: how often each thing may still happen

window == <<roster, perms, plan, choice, armed, busy, known>>
host == <<agent, wire, saved, asking>>
moving == <<window, flows, host, events, picked, left>>
vars == <<moving, calm, passed>>

NoAgent == [handle |-> 0, status |-> "none", perm |-> Unset, model |-> NoChoice, catalog |-> FALSE]

Live(st) == st \in {"ready", "running", "awaitingPermission"}
Gone(st) == st \in {"none", "stopped", "error"}
Spend(what) == left[what] > 0 /\ left' = [left EXCEPT ![what] = @ - 1]

----------------------------------------------------------------------------
(* The window's copy of the agents.                                        *)

\* managedForSession: the first of the map with the session.
Managed == IF roster = <<>> THEN NoAgent ELSE roster[1]
EffectivePermission ==
    IF ~Gone(Managed.status) THEN Managed.perm ELSE IF perms # Unset THEN perms ELSE "default"
Chip == DisplaySessionMode(IsArmed(plan), EffectivePermission)
Attached == Only(roster, {a \in ToSet(roster) : ~Gone(a.status)})

\* upsertManaged.
With(list, info) ==
    LET at == {i \in DOMAIN list : list[i].handle = info.handle}
    IN IF at = {} THEN Append(list, info) ELSE [list EXCEPT ![Min(at)] = info]

\* The effect that follows a change of managedList: the default of a new task
\* is decided once, at the first live info with a catalog.
DefaultFlow(info) ==
    {[kind |-> "default", at |-> "setModel", ans |-> "none", arg |-> push, info |-> info] :
        push \in SessionDefaultPush(info.model, Catalog)}
Decidable(info) == Live(info.status) /\ info.catalog

\* The new list, with the flows and the armed mark the step leaves before it.
Rendered(list, flows0, armed0) ==
    LET decided == {i \in DOMAIN list : Decidable(list[i])}
        dead    == {i \in DOMAIN list : Gone(list[i].status)}
    IN /\ roster' = list
       /\ flows' = IF list # roster /\ armed0 /\ decided # {}
                   THEN flows0 \cup DefaultFlow(list[Min(decided)]) ELSE flows0
       /\ armed' = (armed0 /\ ~(list # roster /\ (decided # {} \/ dead # {})))

----------------------------------------------------------------------------
(* The host.                                                               *)

Emit(infos) == events' = events \o [i \in DOMAIN infos |-> [ch |-> "status", info |-> infos[i]]]
EmitMode(mode) == Append(events, [ch |-> "mode", info |-> [NoAgent EXCEPT !.status = mode]])

Answer(f, ans, info) == flows' = (flows \ {f}) \cup {[f EXCEPT !.ans = ans, !.info = info]}
Waiting(f, call) == f \in flows /\ f.at = call /\ f.ans = "none"
Reachable(h) == agent.handle = h /\ Live(agent.status)

\* session/set_mode: the agent changes and says so.
ServeSetMode(f, ok) ==
    /\ Waiting(f, "setMode")
    /\ \/ /\ ok /\ Reachable(f.info.handle)
          /\ wire' = f.arg /\ events' = EmitMode(f.arg)
          /\ Answer(f, "ok", f.info)
          /\ UNCHANGED left
       \/ /\ ~ok /\ (Reachable(f.info.handle) => Spend("fails"))
          /\ (~Reachable(f.info.handle) => UNCHANGED left)
          /\ Answer(f, "err", f.info)
          /\ UNCHANGED <<wire, events>>
    /\ UNCHANGED <<window, agent, saved, asking, picked>>

\* A level left out is the one the model advertises.
RunsModel(push) ==
    LET of == {i \in DOMAIN Catalog : Catalog[i].id = push.id}
    IN IF push.effort # Unset \/ of = {} THEN push
       ELSE [push EXCEPT !.effort = Catalog[Min(of)].default]
ServeSetModel(f, ok) ==
    /\ Waiting(f, "setModel")
    /\ \/ /\ ok /\ Reachable(f.info.handle)
          /\ agent' = [agent EXCEPT !.model = RunsModel(f.arg)]
          /\ Emit(<<agent'>>)
          /\ Answer(f, "ok", f.info)
          /\ UNCHANGED left
       \/ /\ ~ok /\ (Reachable(f.info.handle) => Spend("fails"))
          /\ (~Reachable(f.info.handle) => UNCHANGED left)
          /\ Answer(f, "err", f.info)
          /\ UNCHANGED <<agent, events>>
    /\ UNCHANGED <<window, wire, saved, asking, picked>>

\* prompt: accepted when the agent is ready, and then it runs.
ServePrompt(f) ==
    /\ Waiting(f, "prompt")
    /\ IF Reachable(f.info.handle)
       THEN /\ agent' = [agent EXCEPT !.status = IF @ = "awaitingPermission" THEN @ ELSE "running"]
            /\ Emit(<<agent'>>)
            /\ Answer(f, "ok", [f.info EXCEPT !.status = agent'.status])
       ELSE UNCHANGED <<agent, events>> /\ Answer(f, "err", f.info)
    /\ UNCHANGED <<window, wire, saved, asking, picked, left>>

\* attach and spawn.  The mode is the one asked for, else the task's own on the disk, else
\* the configured one; an attach writes it down before it starts anything.
StartMode(f) == IF f.arg # Unset THEN f.arg ELSE IF saved.perm # Unset THEN saved.perm ELSE DefaultMode
Begun(f, status) ==
    [handle |-> agent.handle + 1, status |-> status, perm |-> StartMode(f), model |-> FirstModel, catalog |-> FALSE]

\* What is said of a handle before it is ready or has failed; that of a new task is of no
\* task until it is ready.
Preface(f) == IF f.at = "attach" THEN <<"starting">> ELSE IF f.prompt THEN <<"ready">> ELSE <<>>
Announce(f, info) ==
    Emit([i \in DOMAIN Preface(f) |-> [info EXCEPT !.status = Preface(f)[i]]] \o <<info>>)

MayStart(f) == Waiting(f, "spawn") \/ (Waiting(f, "attach") /\ Gone(agent.status))
ServeStart(f) ==
    /\ MayStart(f)
    /\ Spend("agents")
    /\ agent' = Begun(f, IF f.prompt THEN "running" ELSE "ready")
    /\ wire' = IF f.planned /\ f.at = "spawn" THEN "plan" ELSE "default"
    /\ saved' = [saved EXCEPT !.perm = StartMode(f)]
    /\ Announce(f, agent')
    /\ Answer(f, "ok", agent')
    /\ UNCHANGED <<window, asking, picked>>

\* A session that has an agent is not given another.
AttachFinds(f) ==
    /\ Waiting(f, "attach") /\ ~Gone(agent.status) /\ agent.status # "unborn"
    /\ Answer(f, "ok", agent)
    /\ UNCHANGED <<window, host, events, picked, left>>

\* Nothing begins: the folder is gone, the disk refuses, or it is a new task that fails.
StartRefused(f) ==
    /\ MayStart(f)
    /\ IF left.agents = 0 THEN UNCHANGED left ELSE Spend("agents")
    /\ Answer(f, "err", f.info)
    /\ UNCHANGED <<window, host, events, picked>>

\* fail_registered_agent: the session cannot be loaded and the handle says so.
AttachFails(f) ==
    /\ MayStart(f) /\ f.at = "attach"
    /\ Spend("agents")
    /\ agent' = Begun(f, "error")
    /\ wire' = "default"
    /\ saved' = [saved EXCEPT !.perm = StartMode(f)]
    /\ Announce(f, agent')
    /\ Answer(f, "err", f.info)
    /\ UNCHANGED <<window, asking, picked>>

\* The program is not found or does not start: the window has been told of a handle that
\* the host never takes into its map, and is told nothing more.
AttachNoProcess(f) ==
    /\ MayStart(f) /\ f.at = "attach"
    /\ left.agents > 0 /\ left.fails > 0
    /\ left' = [left EXCEPT !.agents = @ - 1, !.fails = @ - 1]
    /\ agent' = Begun(f, "unborn")
    /\ wire' = "default"
    /\ saved' = [saved EXCEPT !.perm = StartMode(f)]
    /\ Emit(<<[agent' EXCEPT !.status = "starting"]>>)
    /\ Answer(f, "err", f.info)
    /\ UNCHANGED <<window, asking, picked>>

\* stop: the handle is said to be stopping and is removed; the last word comes only when
\* its process has been killed.  A handle that failed is in the map until it is stopped.
InMap(info) ==
    IF agent.handle = info.handle THEN agent.status \notin {"none", "stopped", "unborn"} ELSE info.status = "error"
Stopped(f) == IF agent.handle = f.info.handle THEN agent ELSE f.info
ServeStop(f, ok) ==
    /\ Waiting(f, "stop") /\ InMap(f.info)
    /\ agent' = IF agent.handle = f.info.handle THEN [agent EXCEPT !.status = "stopped"] ELSE agent
    /\ IF ok THEN UNCHANGED left ELSE Spend("fails")
    /\ LET stopping == [Stopped(f) EXCEPT !.status = "stopping"]
       IN Emit(IF ok THEN <<stopping, [stopping EXCEPT !.status = "stopped"]>> ELSE <<stopping>>)
    /\ asking' = (asking /\ agent.handle # f.info.handle)
    /\ Answer(f, IF ok THEN "ok" ELSE "err", f.info)
    /\ UNCHANGED <<window, wire, saved, picked>>
StopUnknown(f) ==
    /\ Waiting(f, "stop") /\ ~InMap(f.info)
    /\ Answer(f, "err", f.info)
    /\ UNCHANGED <<window, host, events, picked, left>>

\* The answer to a plan approval: the agent leaves Plan unless it was refused.
ServeResolve(f) ==
    /\ Waiting(f, "resolve")
    /\ asking' = FALSE
    /\ IF asking /\ f.arg \in {"approve", "abandon"}
       THEN wire' = "default" /\ events' = EmitMode("default")
       ELSE UNCHANGED <<wire, events>>
    /\ Answer(f, IF asking THEN "ok" ELSE "err", f.info)
    /\ UNCHANGED <<window, agent, saved, picked, left>>

\* What the agent does by itself.
CatalogArrives ==
    /\ Live(agent.status) /\ ~agent.catalog
    /\ agent' = [agent EXCEPT !.catalog = TRUE]
    /\ Emit(<<agent'>>)
    /\ UNCHANGED <<window, flows, wire, saved, asking, picked, left>>
TurnEnds ==
    /\ agent.status = "running" /\ ~asking
    /\ agent' = [agent EXCEPT !.status = "ready"]
    /\ Emit(<<agent'>>)
    /\ UNCHANGED <<window, flows, wire, saved, asking, picked, left>>
AsksApproval ==
    /\ agent.status = "running" /\ wire = "plan" /\ ~asking
    /\ Spend("answers")
    /\ asking' = TRUE
    /\ UNCHANGED <<window, flows, agent, wire, saved, events, picked>>
ConnectionLost ==
    /\ Live(agent.status)
    /\ Spend("losses")
    /\ agent' = [agent EXCEPT !.status = "starting"]
    /\ wire' = "default" /\ asking' = FALSE
    /\ Emit(<<agent'>>)
    /\ UNCHANGED <<window, flows, saved, picked>>
Reconnected(ok) ==
    /\ agent.status = "starting"
    /\ agent' = [agent EXCEPT !.status = IF ok THEN "ready" ELSE "error"]
    /\ Emit(<<agent'>>)
    /\ UNCHANGED <<window, flows, wire, saved, asking, picked, left>>

----------------------------------------------------------------------------
(* Events (useAgentEvents, App's listener of the mode).                    *)

Deliver ==
    /\ events # <<>>
    /\ events' = Tail(events)
    /\ LET e == Head(events)
       IN \/ /\ e.ch = "status"
             /\ Rendered(With(roster, e.info), flows, armed)
             /\ UNCHANGED <<plan, saved>>
          \/ /\ e.ch = "mode"
             /\ plan' = ApplyAgentModeUpdate(e.info.status, plan)
             \* onAgentModeUpdate: what the agent says of Plan is saved.
             /\ saved' = IF e.info.status = "plan" \/ plan = "active"
                         THEN [saved EXCEPT !.plan = e.info.status = "plan"] ELSE saved
             /\ UNCHANGED <<roster, armed, flows>>
    /\ UNCHANGED <<perms, choice, busy, known, agent, wire, asking, picked, left>>

\* refreshList: the host's list is read, and what it says is upserted.
Refresh ==
    /\ Spend("lists")
    /\ flows' = flows \cup {[kind |-> "list", at |-> "list", ans |-> "none", arg |-> Unset, info |-> NoAgent]}
    /\ UNCHANGED <<window, host, events, picked>>
ServeList(f) ==
    /\ Waiting(f, "list")
    /\ Answer(f, "ok", agent)
    /\ UNCHANGED <<window, host, events, picked, left>>
ListAnswered(f) ==
    /\ f \in flows /\ f.kind = "list" /\ f.ans = "ok"
    /\ Rendered(IF f.info.status \in {"none", "stopped", "unborn"} THEN roster ELSE With(roster, f.info), flows \ {f}, armed)
    /\ UNCHANGED <<perms, plan, choice, busy, known, host, events, picked, left>>

----------------------------------------------------------------------------
(* The session mode (handleSessionModeChange).                             *)

\* The calls of one change beside setMode, which a live agent gets first; savePlan is
\* made before setPerm.
ModeCallsLive(live, planChanged, permChanged) ==
    {c \in {"savePlan", "setPerm"} : IF c = "savePlan" THEN planChanged ELSE live /\ permChanged}
ModeCalls(live, planChanged, permChanged) ==
    {c \in {"savePlan", "setPerm"} : IF c = "savePlan" THEN planChanged ELSE permChanged}
FirstOf(todo) == IF "savePlan" \in todo THEN "savePlan" ELSE "setPerm"

\* A synchronous call is served here; it fails on the disk, or when the agent
\* it is for is gone.  The permission of a live agent is emitted as it is
\* applied, and again when it is put back.
Orphan(f) == f.at = "setPerm" /\ f.live /\ (agent.handle # f.info.handle \/ agent.status \in {"none", "stopped", "unborn"})
Saves(f, ok) ==
    /\ saved' = CASE ~ok               -> saved
                 [] f.at = "savePlan" -> [saved EXCEPT !.plan = f.next.armed]
                 [] OTHER             -> [saved EXCEPT !.perm = f.next.perm]
    /\ IF f.at = "setPerm" /\ f.live /\ ~Orphan(f)
       THEN LET applied == [agent EXCEPT !.perm = f.next.perm]
            IN /\ agent' = IF ok THEN applied ELSE agent
               /\ Emit(IF ok THEN <<applied>> ELSE <<applied, agent>>)
       ELSE UNCHANGED <<agent, events>>

\* The change f goes on with the calls of todo, or is over; l is left before it.
ModeGoesOn(f, others, todo, l) ==
    IF todo = {} THEN flows' = others /\ left' = l /\ UNCHANGED <<saved, agent, events>>
    ELSE LET g == [f EXCEPT !.at = FirstOf(todo), !.todo = todo \ {FirstOf(todo)}]
         IN \E ok \in BOOLEAN :
              /\ ok => ~Orphan(g)
              /\ left' = IF ok \/ Orphan(g) THEN l ELSE [l EXCEPT !.fails = @ - 1]
              /\ left'.fails >= 0
              /\ Saves(g, ok)
              /\ flows' = others \cup {[g EXCEPT !.ans = IF ok THEN "ok" ELSE "err",
                                        !.info = IF g.at = "setPerm" /\ g.live /\ ok THEN agent' ELSE @]}

\* The chip is disabled while the agent works or the window is busy.
SessionModeChange(mode) ==
    /\ known /\ ~busy /\ left.modes > 0
    /\ Managed.status \notin {"running", "stopping", "awaitingPermission"}
    /\ LET next == ApplySessionModeChange(mode, EffectivePermission)
           planChanged == next.armed # IsArmed(plan)
           permChanged == next.perm \notin {Unset, EffectivePermission}
           live == ~Gone(Managed.status)
           todo == ModeCalls(live, planChanged, permChanged)
           f == [kind |-> "mode", at |-> "none", ans |-> "none", todo |-> todo, live |-> live,
                 info |-> Managed, arg |-> SessionModeWireId(mode), next |-> next,
                 plan |-> plan, perm |-> EffectivePermission]
       IN /\ planChanged \/ permChanged
          /\ plan' = IF ~planChanged THEN plan ELSE IF next.armed THEN "active" ELSE "off"
          /\ perms' = IF permChanged THEN next.perm ELSE perms
          /\ LET l == [left EXCEPT !.modes = @ - 1]
             IN IF live
                THEN /\ flows' = flows \cup {[f EXCEPT !.at = "setMode"]}
                     /\ left' = l
                     /\ UNCHANGED <<saved, agent, events>>
                ELSE ModeGoesOn(f, flows, todo, l)
    /\ UNCHANGED <<roster, choice, armed, busy, known, wire, asking, picked>>

\* An answer: go on, or put back what the chip showed before the click.
ModeAnswered(f) ==
    /\ f \in flows /\ f.kind = "mode" /\ f.ans # "none"
    /\ LET others == flows \ {f}
       IN \/ /\ f.ans = "err"
             /\ plan' = IF IsArmed(f.plan) THEN "active" ELSE "off"
             /\ perms' = f.perm
             /\ flows' = others
             /\ UNCHANGED <<roster, armed, saved, agent, events, left>>
          \/ /\ f.ans = "ok" /\ f.at = "setPerm" /\ f.live
             /\ Rendered(With(roster, f.info), others, armed)
             /\ perms' = f.next.perm
             /\ UNCHANGED <<plan, saved, agent, events, left>>
          \/ /\ f.ans = "ok" /\ ~(f.at = "setPerm" /\ f.live)
             /\ ModeGoesOn(f, others, f.todo, left)
             /\ UNCHANGED <<roster, armed, plan, perms>>
    /\ UNCHANGED <<choice, busy, known, wire, asking, picked>>

----------------------------------------------------------------------------
(* Sending (handleSend, ensureAttached, ensurePlanModeForTurn).            *)

SendStages == <<"attach", "reapply", "model", "plan", "prompt">>

Needed(f, stage) ==
    CASE stage = "attach"  -> Gone(f.info.status)
      [] stage = "reapply" -> f.planned /\ f.attached
      [] stage = "model"   -> SessionModelNeedsPush(choice, f.info.model) # {}
      [] stage = "plan"    -> f.planned
      [] OTHER             -> TRUE

CallOf(stage) == CASE stage \in {"reapply", "plan"} -> "setMode" [] stage = "model" -> "setModel" [] OTHER -> stage

\* The send at its next call, from a stage on.
SendAt(f, from) ==
    LET i == Min({j \in from..5 : Needed(f, SendStages[j])})
        stage == SendStages[i]
    IN [f EXCEPT !.stage = i, !.at = CallOf(stage), !.ans = "none",
                 !.arg = CASE stage = "attach" -> perms
                           [] stage = "model"  -> CHOOSE p \in SessionModelNeedsPush(choice, f.info.model) : TRUE
                           [] OTHER            -> "plan"]

\* Just before its prompt a send shows a ready agent as running.
Painted(f) == IF f.at = "prompt" /\ f.info.status = "ready"
              THEN With(roster, [f.info EXCEPT !.status = "running"]) ELSE roster

\* What is submitted is what the chip and the copy of the agent say now: Plan
\* is applied if it is armed now, whatever is chosen while the send is under way.
Send ==
    /\ known /\ ~busy /\ Managed.status # "stopping"
    /\ Spend("sends")
    /\ busy' = TRUE
    /\ LET base == IF Gone(Managed.status) /\ Attached # <<>> THEN Attached[1] ELSE Managed
           f == SendAt([kind |-> "send", at |-> "none", stage |-> 1, ans |-> "none", arg |-> Unset, info |-> base,
                        planned |-> IsArmed(plan), shown |-> plan, attached |-> Gone(base.status), warned |-> FALSE, prompt |-> FALSE], 1)
       IN Rendered(Painted(f), flows \cup {f}, armed)
    /\ UNCHANGED <<perms, plan, choice, known, host, events, picked>>

\* A send is over with its prompt, or without an agent: attach gives none that is stopped
\* or failed.
Ends(f) ==
    \/ f.at = "prompt"
    \/ f.at = "attach" /\ f.ans = "err"

\* reapply: the copy of the agent with what was sent.
Reapplied(f) ==
    [f.info EXCEPT !.model = [id |-> f.arg.id, effort |-> IF f.arg.effort # Unset THEN f.arg.effort ELSE @.effort]]

\* setMode and setModel may fail and the prompt is sent all the same.
SendAnswered(f) ==
    /\ f \in flows /\ f.kind = "send" /\ f.ans # "none"
    /\ LET model == f.ans = "ok" /\ f.at = "setModel"
           info  == IF model THEN Reapplied(f) ELSE f.info
           list  == IF f.ans = "ok" /\ f.at \in {"attach", "prompt", "setModel"} THEN With(roster, info) ELSE roster
           g     == SendAt([f EXCEPT !.info = info, !.warned = f.stage = 4 /\ f.ans = "err"], f.stage + 1)
       IN IF Ends(f)
          THEN /\ busy' = FALSE
               /\ Rendered(list, flows \ {f}, armed)
          ELSE /\ Rendered(IF g.at = "prompt" /\ info.status = "ready"
                           THEN With(list, [info EXCEPT !.status = "running"]) ELSE list,
                           (flows \ {f}) \cup {g}, armed)
               /\ UNCHANGED busy
    /\ plan' = IF f.at = "setMode" /\ f.ans = "ok" THEN "active" ELSE plan
    /\ perms' = IF f.at = "attach" /\ f.ans = "ok" THEN f.info.perm ELSE perms
    /\ UNCHANGED <<choice, known, host, events, picked, left>>

----------------------------------------------------------------------------
(* A new task (handleSpawn).                                               *)

Spawn(mode, prompt) ==
    /\ ~known /\ ~busy /\ left.agents > 0
    /\ busy' = TRUE
    /\ LET next == ApplySessionModeChange(mode, "default")
       IN flows' = flows \cup {[kind |-> "spawn", at |-> "spawn", ans |-> "none", info |-> NoAgent,
                                arg |-> IF next.perm = Unset THEN "default" ELSE next.perm,
                                planned |-> next.armed, prompt |-> prompt]}
    /\ UNCHANGED <<roster, perms, plan, choice, armed, known, host, events, picked, left>>

SpawnFailed(f) == flows' = flows \ {f} /\ busy' = FALSE
SpawnAnswered(f) ==
    /\ f \in flows /\ f.kind = "spawn" /\ f.ans # "none"
    /\ IF f.ans = "err"
       THEN SpawnFailed(f) /\ UNCHANGED <<roster, armed, perms, plan, known, saved>>
       ELSE /\ busy' = FALSE
            /\ Rendered(With(roster, f.info), flows \ {f}, TRUE)
            /\ perms' = f.arg
            /\ known' = TRUE
            /\ plan' = IF f.planned THEN "active" ELSE plan
            /\ saved' = IF f.planned THEN [saved EXCEPT !.plan = TRUE] ELSE saved
    /\ UNCHANGED <<choice, agent, wire, asking, events, picked, left>>

----------------------------------------------------------------------------
(* The model (handleModelChange, useSessionDefaults).                      *)

\* forget, and whether a pick is sent at once.
ForgetDefaults == armed' = FALSE
MayPush == Live(Managed.status) /\ ~busy

\* The user's pick closes the pending default; it is sent at once when the
\* agent is live and the window is not busy, else with the next message.
ModelChange(pick) ==
    /\ known
    /\ Spend("picks")
    /\ ForgetDefaults
    /\ picked' = NextSessionModelChoice(choice, pick.id, pick.effort)
    /\ choice' = picked'
    /\ LET push == SessionModelNeedsPush(choice', Managed.model)
       IN IF MayPush /\ push # {}
          THEN /\ busy' = TRUE
               /\ flows' = flows \cup {[kind |-> "model", at |-> "setModel", ans |-> "none", info |-> Managed,
                                        arg |-> CHOOSE p \in push : TRUE, previous |-> choice]}
          ELSE UNCHANGED <<busy, flows>>
    /\ UNCHANGED <<roster, perms, plan, known, host, events>>

ModelAnswered(f) ==
    /\ f \in flows /\ f.kind = "model" /\ f.ans # "none"
    /\ busy' = FALSE
    /\ choice' = IF f.ans = "ok" THEN choice ELSE f.previous
    /\ Rendered(IF f.ans = "ok" THEN With(roster, Reapplied(f)) ELSE roster,
                flows \ {f}, armed)
    /\ UNCHANGED <<perms, plan, known, host, events, picked, left>>

\* A default that fails is not shown.
DefaultAnswered(f) ==
    /\ f \in flows /\ f.kind = "default" /\ f.ans # "none"
    /\ flows' = flows \ {f}
    /\ UNCHANGED <<window, host, events, picked, left>>

----------------------------------------------------------------------------
(* Plan approvals and Stop.                                                *)

LeavesAnyway(option) == TRUE
LeavesPlan(option) == option \in {"approve", "abandon"}

ResolveApproval(option) ==
    /\ known /\ asking /\ ~\E f \in flows : f.kind = "resolve"
    /\ flows' = flows \cup {[kind |-> "resolve", at |-> "resolve", ans |-> "none", arg |-> option, info |-> Managed]}
    /\ UNCHANGED <<window, host, events, picked, left>>

\* The plan is off once it is approved or abandoned; a disk that fails is ignored.
ResolveAnswered(f, stored) ==
    /\ f \in flows /\ f.kind = "resolve" /\ f.ans # "none"
    /\ flows' = flows \ {f}
    /\ IF f.ans = "ok" /\ LeavesPlan(f.arg)
       THEN /\ plan' = "off"
            /\ saved' = IF stored THEN [saved EXCEPT !.plan = FALSE] ELSE saved
            /\ IF stored THEN UNCHANGED left ELSE Spend("fails")
       ELSE stored /\ UNCHANGED <<plan, saved, left>>
    /\ UNCHANGED <<roster, perms, choice, armed, busy, known, agent, wire, asking, events, picked>>

Stop ==
    /\ known /\ ~busy
    /\ Managed.status \notin {"none", "stopped", "stopping"}
    /\ Spend("stops")
    /\ busy' = TRUE
    /\ flows' = flows \cup {[kind |-> "stop", at |-> "stop", ans |-> "none", info |-> Managed]}
    /\ UNCHANGED <<roster, perms, plan, choice, armed, known, host, events, picked>>

StopAnswered(f) ==
    /\ f \in flows /\ f.kind = "stop" /\ f.ans # "none"
    /\ busy' = FALSE
    /\ Rendered(IF f.ans = "ok" THEN Only(roster, {a \in ToSet(roster) : a.handle # f.info.handle}) ELSE roster,
                flows \ {f}, armed)
    /\ UNCHANGED <<perms, plan, choice, known, host, events, picked, left>>

----------------------------------------------------------------------------
ReadyAgent == [handle |-> 1, status |-> "ready", perm |-> "default", model |-> FirstModel, catalog |-> TRUE]

\* A window on no task, on a task of an earlier run (without Plan or with it), on a task
\* attached, or one loaded again that has not read the list of agents.
Init ==
    /\ left \in Plans
    /\ known = (left.start # "none")
    /\ saved = [plan |-> left.start = "planned", perm |-> IF left.start \in {"none", "idle"} THEN Unset ELSE "default"]
    /\ agent = IF left.start \in {"attached", "unlisted"} THEN ReadyAgent ELSE NoAgent
    /\ roster = IF left.start = "attached" THEN <<agent>> ELSE <<>>
    /\ perms = saved.perm
    /\ plan = IF saved.plan THEN "pending" ELSE "off"
    /\ choice = NoChoice /\ picked = NoChoice
    /\ armed = FALSE /\ busy = FALSE /\ asking = FALSE
    /\ wire = "default"
    /\ flows = {} /\ events = <<>> /\ calm = (left.start # "unlisted") /\ passed = 0

HostSteps ==
    \/ \E f \in flows : \/ ServeStart(f) \/ AttachFinds(f) \/ StartRefused(f)
                        \/ AttachFails(f) \/ AttachNoProcess(f)
                        \/ ServePrompt(f) \/ ServeResolve(f) \/ ServeList(f) \/ StopUnknown(f)
                        \/ \E ok \in BOOLEAN : ServeSetMode(f, ok) \/ ServeSetModel(f, ok) \/ ServeStop(f, ok)
    \/ CatalogArrives \/ AsksApproval \/ ConnectionLost \/ TurnEnds
    \/ \E ok \in BOOLEAN : Reconnected(ok)

Answered(f) ==
    \/ ModeAnswered(f) \/ SendAnswered(f) \/ SpawnAnswered(f) \/ ModelAnswered(f)
    \/ DefaultAnswered(f) \/ StopAnswered(f) \/ ListAnswered(f) \/ \E stored \in BOOLEAN : ResolveAnswered(f, stored)

UserSteps ==
    \/ \E mode \in Modes \cup {CycleSessionMode(Chip)} :
            SessionModeChange(mode) \/ \E prompt \in BOOLEAN : Spawn(mode, prompt)
    \/ Send \/ Stop \/ Refresh
    \/ \E pick \in Picks : ModelChange(pick)
    \/ \E option \in {"approve", "reject"} : ResolveApproval(option)

\* A call fails, or the connection is lost.
Disturbed == left'.fails # left.fails \/ left'.losses # left.losses
Quiet == flows = {} /\ events = <<>>
\* The user's step begins no handler.
BeginsNothing == UNCHANGED <<flows, plan, perms, saved, busy>>
\* The mode is changed while the agent is live and not the one shown.
PassesBy == Live(agent.status) /\ \E f \in flows' \ flows : f.kind = "mode" /\ ~f.live

\* calm ends with a disturbance, or when a handler begins while another is under
\* way or what it did is not shown yet.
Next ==
    \/ /\ HostSteps \/ Deliver \/ \E f \in flows : Answered(f)
       /\ calm' = (calm /\ ~Disturbed)
       /\ UNCHANGED passed
    \/ /\ UserSteps
       /\ calm' = (calm /\ ~Disturbed /\ (Quiet \/ BeginsNothing))
       /\ passed' = IF PassesBy THEN agent.handle ELSE passed

Spec == Init /\ [][Next]_vars

----------------------------------------------------------------------------
(* Properties.                                                             *)

\* While one thing at a time is done and nothing fails but the start of an agent, when
\* all is answered and delivered:
Settled == calm /\ Quiet

\* the chip says what the agent does, Plan or the permission it runs with, unless
\* the mode was changed while a dead handle was the one shown,
ChipShown ==
    Settled /\ Live(agent.status) /\ Managed.handle = agent.handle /\ passed # agent.handle
        => Chip = DisplaySessionMode(wire = "plan", agent.perm)
\* and the disk keeps both for the next start, but that a start that failed has written
\* the configured permission down for a task that had chosen none.
ModeSaved ==
    Settled => /\ IsArmed(plan) = saved.plan
               /\ perms = saved.perm \/ (perms = Unset /\ saved.perm = DefaultMode)

\* A message sent while the chip reads Plan is prompted in Plan, unless the
\* user was told otherwise.
PlannedPrompt ==
    [][\A f \in flows :
            /\ calm /\ f.kind = "send" /\ f.at = "prompt" /\ f.ans = "none" /\ f.shown # "off" /\ ~f.warned
            /\ \E g \in flows' : g = [f EXCEPT !.ans = "ok", !.info = g.info]
            => wire = "plan"]_vars

\* The mode shown for the task is that of its attached agent.
AttachedWins == Settled /\ Live(agent.status) => Chip = DisplaySessionMode(wire = "plan", agent.perm)

=============================================================================
