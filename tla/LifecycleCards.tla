-------------------------- MODULE LifecycleCards --------------------------
(***************************************************************************)
(* Subagent and task cards across their sources: settling them when their  *)
(* handle closes or a kill is answered (hooks/lifecycleSettle.ts), and     *)
(* reconciling them with the lists the agent gives after an attach         *)
(* (utils/lifecycleState.ts).                                              *)
(***************************************************************************)
EXTENDS TimelineCards

----------------------------------------------------------------------------
(* hooks/lifecycleSettle.ts                                                *)

Keep == "keep"          \* a patch that says nothing of the error

PatchedCard(c, status, error) ==
    LET e == IF error = Keep THEN c.pay.error ELSE error
        pay == IF c.kind = "subagent"
               THEN [c.pay EXCEPT !.status = status, !.error = e, !.label = Null]
               ELSE [c.pay EXCEPT !.status = status, !.error = e]
    IN [c EXCEPT !.pay = pay, !.status = status]

\* One patch on the cards of a kind that match, of some handles; a card that
\* already ended is rewritten only by force.
MapLifecycleCards(list, handles, kind, ids, decision) ==
    [i \in DOMAIN list |->
        IF /\ list[i].own \in handles
           /\ list[i].kind = kind
           /\ list[i].id \in ids
           /\ decision.force \/ list[i].pay.status = "running"
        THEN PatchedCard(list[i], decision.status, decision.error)
        ELSE list[i]]

CardIds(list) == {list[i].id : i \in DOMAIN list}

\* What is still running when its handle closes has finished or stopped.
SettleLifecycle(list, handles) ==
    LET closed(status) == [status |-> status, error |-> Keep, force |-> FALSE]
        subs == MapLifecycleCards(list, handles, "subagent", CardIds(list), closed("finished"))
    IN MapLifecycleCards(subs, handles, "task", CardIds(list), closed("stopped"))

\* Answers to x.ai/subagent/cancel and x.ai/task/kill.
ParseCancel(outcome) ==
    CASE outcome = "already_finished" -> [status |-> "finished", error |-> Keep, force |-> TRUE]
      [] outcome = "not_found" ->
            [status |-> "cancelled", error |-> "subagent not found", force |-> TRUE]
      [] outcome \in {"cancelled", ""} -> [status |-> "cancelled", error |-> Keep, force |-> FALSE]
      [] OTHER -> [status |-> "finished", error |-> Keep, force |-> FALSE]
ParseKill(outcome) ==
    CASE outcome = "already_exited" -> [status |-> "done", error |-> Keep, force |-> TRUE]
      [] outcome = "not_found" ->
            [status |-> "stopped", error |-> "task not found", force |-> TRUE]
      [] OTHER -> [status |-> "stopped", error |-> Keep, force |-> FALSE]

ApplyCancel(list, handle, id, outcome) ==
    MapLifecycleCards(list, {handle}, "subagent", {id}, ParseCancel(outcome))
ApplyKill(list, handle, id, outcome) ==
    MapLifecycleCards(list, {handle}, "task", {id}, ParseKill(outcome))

----------------------------------------------------------------------------
(* utils/lifecycleState.ts                                                 *)

\* Listed rows: subagents are the running ones, tasks are all of them.
DescribeListedSubagent(row) ==
    DescribeSubagentPatch(row.id, [status |-> "running", desc |-> row.desc] @@ Pick(row, {"turns", "label"}))

ListedTaskStatus(row) ==
    CASE ~row.completed -> "running"
      [] row.completed /\ row.signal -> "failed"
      [] row.completed /\ ~row.signal /\ row.exit # Null ->
            IF row.exit = "0" THEN "done" ELSE "failed"
      [] OTHER -> "stopped"
DescribeListedTask(row) ==
    DescribeTaskPatch(row.id,
        [status |-> ListedTaskStatus(row), desc |-> row.desc, exit |-> row.exit,
         error |-> IF row.signal THEN "signal" ELSE Null])

RunningIds(list, kind) ==
    {list[i].id : i \in {j \in DOMAIN list : list[j].kind = kind /\ list[j].pay.status = "running"}}

\* Of the tasks that ended, only those whose card still runs matter.
FromListTasks(rows, running) ==
    LET kept == Only(rows, {r \in ToSet(rows) : ~r.completed \/ r.id \in running})
    IN [i \in DOMAIN kept |-> DescribeListedTask(kept[i])]

\* A running card the agent no longer lists has ended, nobody knows how.
\* A list that could not be had ("none") says nothing.
Unlisted(list, kind, rows, patch) ==
    LET gone == RunningIds(list, kind) \ {rows[i].id : i \in DOMAIN rows}
        ids  == SetToSeq(gone)
    IN [i \in DOMAIN ids |-> IF kind = "subagent" THEN DescribeSubagentPatch(ids[i], patch)
                                                  ELSE DescribeTaskPatch(ids[i], patch)]

Reconcile(list, answer) ==
    LET subs  == answer.subs
        tasks == answer.tasks
    IN (IF answer.subsFailed THEN <<>>
        ELSE [i \in DOMAIN subs |-> DescribeListedSubagent(subs[i])]
             \o Unlisted(list, "subagent", subs, [status |-> "finished", label |-> Null]))
       \o
       (IF answer.tasksFailed THEN <<>>
        ELSE FromListTasks(tasks, RunningIds(list, "task"))
             \o Unlisted(list, "task", tasks, [status |-> "stopped"]))
=============================================================================
