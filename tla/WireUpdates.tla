---------------------------- MODULE WireUpdates ----------------------------
(***************************************************************************)
(* What the front end makes of one update of the agent's stream: the       *)
(* parsers of utils/format.ts, utils/sessionEvents.ts, utils/toolTitle.ts  *)
(* and utils/subagentTasks.ts, which turn a session/update, an x.ai        *)
(* notification or a line of updates.jsonl into the description the        *)
(* timeline reducer works on.                                              *)
(*                                                                         *)
(* A wire update is a record: its sessionUpdate name, an identifier        *)
(* (tool call, child session, task or goal), a status word, the text it    *)
(* carries as a sequence of chunks, the tool it names, and the lifecycle   *)
(* fields present in it.  An absent string is "".  Wording, paths, and     *)
(* number formats are left out.                                            *)
(***************************************************************************)
EXTENDS Naturals, Sequences, FiniteSets, SequencesExt, TLC

Null == "null"                  \* a lifecycle field explicitly cleared
Placeholder == "Tool call"      \* the title of a tool nothing is known about

\* A wire update with nothing in it; tests and scripts fill in what they need.
BlankUpdate ==
    [type |-> "event", method |-> "session/update", id |-> "", status |-> "",
     text |-> <<>>, tool |-> "", title |-> "", label |-> "", command |-> FALSE,
     bash |-> FALSE, diff |-> FALSE, flag |-> FALSE, fields |-> << >>]

\* The description of an update: what reduceAgentUpdate reads.
BlankDescription ==
    [kind |-> "event", title |-> "event", text |-> <<>>, hidden |-> FALSE,
     coalesce |-> FALSE, id |-> "", base |-> "", status |-> "", edit |-> FALSE,
     shell |-> FALSE, stop |-> "", goal |-> "", patch |-> << >>]

----------------------------------------------------------------------------
(* Session events (utils/sessionEvents.ts).                                *)

\* Updates that never become a card, whatever they carry.
HiddenSessionUpdates ==
    {"current_mode_update", "compaction_checkpoint", "rewind_marker",
     "workflow_updated", "memory_flush_started", "memory_flush_completed",
     "memory_dream_completed", "memory_session_saved", "memory_files",
     "scheduled_task_created", "scheduled_task_fired", "scheduled_task_deleted",
     "monitor_event", "pending_interaction", "interaction_resolved",
     "auto_continue_completed", "session_recap_unavailable",
     "session_summary_generated", "tool_call_delta_chunk", "hook_execution",
     "hooks_changed", "plugins_changed", "plugin_updates_installed",
     "feedback_request", "relay_sync_status", "auto_recovery_started",
     "auto_recovery_exhausted", "diff_review", "model_changed"}

\* Milestones shown with a title of their own.
PlainMilestones ==
    {"session_recap", "auto_compact_started", "auto_compact_completed",
     "auto_compact_failed", "auto_compact_cancelled", "model_auto_switched"}

Event(title) == [BlankDescription EXCEPT !.title = title]
HiddenEvent(title) == [Event(title) EXCEPT !.hidden = TRUE]
ShownUnless(blank, title) == IF blank THEN HiddenEvent(title) ELSE Event(title)

\* An absent or unknown stop reason reads as the end of the turn.
NormalizeStopReason(s) == IF s = "" THEN "end_turn" ELSE s

\* Title of a finished turn; elapsed is 0 when it is not known.
FormatTurnCompletedTitle(stop, elapsed) ==
    CASE stop \in {"cancelled", "canceled"} -> "Turn cancelled"
      [] stop = "error"                     -> "Turn failed"
      [] stop = "rate_limit"                -> "Rate limited"
      [] OTHER -> IF elapsed > 0 THEN "Worked for" ELSE "Turn completed"

\* retry_state: retrying is activity, not a card; the rest is a milestone
\* whose wording depends on the kind of failure.
RetryEvent(u) ==
    CASE u.status = "retrying"  -> HiddenEvent("Retrying")
      [] u.label = "auth"       -> Event("Authentication required")
      [] u.status = "exhausted" /\ u.flag -> Event("Rate limited")
      [] u.label \in {"encrypted_content_mismatch", "context_length"}
         /\ u.status # "exhausted" -> Event(u.label)
      [] OTHER -> Event("Retry failed")

IsSessionEvent(u) ==
    \/ u.type \in HiddenSessionUpdates \cup PlainMilestones
    \/ u.type \in {"turn_completed", "retry_state", "image_dropped",
                   "image_compressed", "goal_updated", "hook_annotation"}

\* flag: images were kept (image_compressed), rate limited (retry_state).
DescribeSessionEvent(u) ==
    CASE u.type \in HiddenSessionUpdates -> HiddenEvent(u.type)
      [] u.type \in PlainMilestones -> Event(u.type)
      [] u.type = "turn_completed" ->
            LET stop == NormalizeStopReason(u.status)
            IN [Event(FormatTurnCompletedTitle(stop, 0)) EXCEPT !.stop = stop]
      [] u.type = "retry_state" -> RetryEvent(u)
      [] u.type = "image_dropped" -> ShownUnless(u.text = <<>>, u.type)
      [] u.type = "image_compressed" ->
            ShownUnless(u.flag \/ u.text = <<>>, u.type)
      [] u.type = "goal_updated" ->
            IF u.status = "complete"
            THEN [Event("Goal complete") EXCEPT !.goal = u.id]
            ELSE HiddenEvent("Goal updated")
      [] u.type = "hook_annotation" -> ShownUnless(u.text = <<>>, u.type)

\* Unlisted extension methods are state of the host, never conversation.
ExtensionMethods ==
    {"x.ai/models/update", "_x.ai/models/update", "x.ai/mcp/init", "x.ai/announcements",
     "x.ai/session_notification", "x.ai/session/update",
     "x.ai/task_backgrounded", "x.ai/task_completed"}
IsNoScrollbackExtNotification(method) == method \in ExtensionMethods

----------------------------------------------------------------------------
(* Tools (utils/format.ts, utils/toolTitle.ts).                            *)

\* Tools that have a surface of their own: plan, subagents, waiting for
\* tasks, goals, schedules, workflows (but not a workflow only validated).
PlumbingTools == {"wait_tasks", "kill_task", "get_task_output", "Await", "TaskOutput"}
IsBgPlumbingTool(u) == u.tool \in PlumbingTools
IsGrokScrollbackSuppressedTool(u) ==
    \/ u.tool \in {"todo_write", "TodoWrite", "Updating plan"}
    \/ u.tool \in {"task", "Task", "spawn_subagent"}
    \/ IsBgPlumbingTool(u)
    \/ u.tool \in {"update_goal", "UpdateGoal", "WorkflowSignal"}
    \/ u.tool \in {"scheduler_create", "Scheduler"}
    \/ u.tool \in {"workflow", "Workflow"} /\ ~u.flag

\* A terminal call by name or kind, by the command of the first update, or
\* by the shape of the output of a later one.
IsShellToolUpdate(u) ==
    /\ u.type \in {"tool_call", "tool_call_update"}
    /\ \/ u.tool \in {"run_terminal_command", "execute"}
       \/ u.type = "tool_call" /\ u.command
       \/ u.type = "tool_call_update" /\ u.bash

\* Base line of a tool card: its title unless that is the raw call id, else
\* the label, else the tool's name.
IsToolCallId(s) == s = "call-id"
ToolBase(u) ==
    CASE u.title # "" /\ ~IsToolCallId(u.title) -> u.title
      [] (u.title = "" \/ IsToolCallId(u.title)) /\ u.label # "" -> u.label
      [] (u.title = "" \/ IsToolCallId(u.title)) /\ u.label = "" /\ u.tool # "" -> u.tool
      [] OTHER -> Placeholder

DescribeTool(u) ==
    LET hidden == IsGrokScrollbackSuppressedTool(u)
        edit   == ~hidden /\ u.diff
    IN [BlankDescription EXCEPT
            !.kind = "tool", !.title = ToolBase(u), !.text = u.text,
            !.hidden = hidden, !.id = u.id, !.base = ToolBase(u),
            !.status = u.status, !.edit = edit, !.shell = IsShellToolUpdate(u)]

\* The newer base wins unless it is the placeholder; the newer status and
\* the newer detail win when they are there.
MergeToolBase(prev, next) ==
    IF next # "" /\ next # Placeholder THEN next
    ELSE IF prev # "" THEN prev ELSE Placeholder
MergeToolStatus(prev, next) == IF next # "" THEN next ELSE prev
MergeToolDetail(prev, next) == IF next # <<>> THEN next ELSE prev

----------------------------------------------------------------------------
(* Subagents and background tasks (utils/subagentTasks.ts).  A patch is a  *)
(* record with only the fields the event carries; a payload has them all.  *)

Pick(rec, names) == [n \in names \cap DOMAIN rec |-> rec[n]]
Get(rec, n, default) == IF n \in DOMAIN rec THEN rec[n] ELSE default

NormalizeSubagentStatus(raw, fallback) ==
    CASE raw \in {"completed", "done", "success"} -> "completed"
      [] raw \in {"failed", "error"} -> "failed"
      [] raw \in {"cancelled", "canceled", "interrupted"} -> "cancelled"
      [] raw \in {"finished", "running"} -> raw
      [] OTHER -> fallback

\* The exit code speaks when the status word does not; with neither, the
\* task still counts as running.
NormalizeBgStatus(raw, exit) ==
    CASE raw \in {"done", "completed", "success"} -> "done"
      [] raw \in {"failed", "error", "cancelled", "canceled"} -> "failed"
      [] raw = "stopped" -> "stopped"
      [] raw \notin {"done", "completed", "success", "failed", "error",
                     "cancelled", "canceled", "stopped"} /\ exit # Null ->
            IF exit = "0" THEN "done" ELSE "failed"
      [] OTHER -> "running"

DefaultSubagent(patch) ==
    patch @@ [desc |-> "subagent", status |-> "running", label |-> Null,
              error |-> Null, turns |-> Null, depth |-> 1]
DefaultBgTask(patch) ==
    patch @@ [desc |-> Null, status |-> "running", exit |-> Null, error |-> Null]

\* The patch over what was known; a subagent that is not running has no
\* activity.
MergeSubagentPayload(prev, patch) ==
    LET next == patch @@ (IF prev = << >> THEN DefaultSubagent(patch) ELSE prev)
    IN IF next.status # "running" THEN [next EXCEPT !.label = Null] ELSE next
MergeBgTaskPayload(prev, patch) ==
    patch @@ (IF prev = << >> THEN DefaultBgTask(patch) ELSE prev)

DescribeSubagentPatch(id, patch) ==
    [BlankDescription EXCEPT !.kind = "subagent", !.id = id, !.patch = patch]
DescribeTaskPatch(id, patch) ==
    [BlankDescription EXCEPT !.kind = "task", !.id = id, !.patch = patch]

LifecycleUpdates ==
    {"subagent_spawned", "subagent_progress", "subagent_finished",
     "task_backgrounded", "task_completed"}

\* A spawn states every descriptive field, progress and finish only what
\* they carry; progress means running, and a finish clears the activity.
SpawnPatch(f) ==
    [desc |-> Get(f, "desc", "subagent"), depth |-> Get(f, "depth", 1), status |-> "running"]
ProgressPatch(f) == [status |-> "running"] @@ Pick(f, {"desc", "label", "turns"})
FinishPatch(f) ==
    [status |-> NormalizeSubagentStatus(Get(f, "status", ""), "running"), label |-> Null]
        @@ Pick(f, {"desc", "error", "turns"})
BackgroundedPatch(f) == [desc |-> Get(f, "desc", Null), status |-> "running"]
CompletedPatch(f) ==
    [status |-> NormalizeBgStatus(Get(f, "status", ""), Get(f, "exit", Null))]
        @@ Pick(f, {"desc", "exit", "error"})

\* An event without its identifier describes nothing of a lifecycle.
DescribeLifecycle(u) ==
    CASE u.type = "subagent_spawned"  -> DescribeSubagentPatch(u.id, SpawnPatch(u.fields))
      [] u.type = "subagent_progress" -> DescribeSubagentPatch(u.id, ProgressPatch(u.fields))
      [] u.type = "subagent_finished" -> DescribeSubagentPatch(u.id, FinishPatch(u.fields))
      [] u.type = "task_backgrounded" -> DescribeTaskPatch(u.id, BackgroundedPatch(u.fields))
      [] u.type = "task_completed"    -> DescribeTaskPatch(u.id, CompletedPatch(u.fields))

\* An open reverse request of the agent, or its end; it is not a card.
IsPendingInteraction(u) ==
    /\ u.type \in {"pending_interaction", "interaction_resolved"}
    /\ u.id # ""
    /\ u.method \in {"x.ai/session_notification", "x.ai/session/update"}

----------------------------------------------------------------------------
(* describeUpdate (utils/format.ts): one parser for the stream, the        *)
(* notifications and the disk.                                             *)

TextKind(type) ==
    CASE type = "user_message_chunk"  -> "user"
      [] type = "agent_message_chunk" -> "agent"
      [] type = "agent_thought_chunk" -> "thought"
TextUpdates == {"user_message_chunk", "agent_message_chunk", "agent_thought_chunk"}

Describe(u) ==
    IF IsSessionEvent(u) THEN DescribeSessionEvent(u)
    ELSE CASE u.type \in TextUpdates ->
                [BlankDescription EXCEPT !.kind = TextKind(u.type), !.title = TextKind(u.type),
                                         !.text = u.text, !.coalesce = TRUE]
           [] u.type \in {"tool_call", "tool_call_update"} -> DescribeTool(u)
           [] u.type = "plan" ->
                [HiddenEvent("Plan update") EXCEPT !.kind = "plan"]
           [] u.type = "available_commands_update" ->
                [Event(u.type) EXCEPT !.kind = "commands", !.text = u.text]
           [] u.type \in LifecycleUpdates ->
                IF u.id # "" THEN DescribeLifecycle(u) ELSE Event(u.type)
           [] OTHER ->
                IF IsNoScrollbackExtNotification(u.method)
                THEN HiddenEvent(u.type) ELSE Event(u.type)

\* The noise filter in front of the reducer (shouldDropUpdate): a hidden
\* tool goes through, so that its later updates without a title can be
\* suppressed too.
ShouldDrop(d) ==
    \/ d.hidden /\ d.kind # "tool"
    \/ d.kind = "commands"
    \/ d.kind = "event" /\ d.title \in {"", "event"}
    \/ d.coalesce /\ d.text = <<>>

IsTextUpdate(d) == d.coalesce \/ d.kind \in {"user", "agent", "thought"}
=============================================================================
