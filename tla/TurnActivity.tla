---------------------------- MODULE TurnActivity ----------------------------
(***************************************************************************)
(* What the chrome of a task says of it: the line above the prompt         *)
(* (utils/turnActivity.ts), read off the end of the timeline, and the      *)
(* state and rank of its card in the session list (utils/managedChrome.ts, *)
(* utils/managedStatus.ts).                                                *)
(***************************************************************************)
EXTENDS LifecycleCards

----------------------------------------------------------------------------
(* utils/managedChrome.ts, utils/managedStatus.ts.  A handle that is not   *)
(* in the list has the status "none".                                      *)

Terminal == {"stopped", "error"}
IsLiveManagedStatus(st) == st \in {"ready", "running", "awaitingPermission"}
IsPinkcodeAttached(st) == st \notin Terminal \cup {"none"}

\* An open reverse request wins over the state of the handle.
ResolveCardState(st, openElsewhere, needsInput) ==
    CASE needsInput \/ st = "awaitingPermission" -> "awaiting"
      [] ~needsInput /\ st \in {"running", "stopping"} -> "running"
      [] ~needsInput /\ st = "starting" -> "starting"
      [] ~needsInput /\ st = "ready" -> "live"
      [] OTHER -> IF openElsewhere THEN "open" ELSE "idle"

RankManagedCard(st, openElsewhere, needsInput) ==
    CASE needsInput \/ st = "awaitingPermission" -> 1
      [] ~needsInput /\ st \in {"running", "stopping"} -> 0
      [] ~needsInput /\ st = "starting" -> 2
      [] ~needsInput /\ st = "ready" -> 3
      [] OTHER -> IF openElsewhere THEN 4 ELSE 5

----------------------------------------------------------------------------
(* utils/turnActivity.ts.  An activity is what it says, the phase whose    *)
(* timer it keeps, and its source: the task's own turn, or another host's. *)

NoActivity == [kind |-> "none"]
Activity(kind, phase, source) == [kind |-> kind, phase |-> phase, source |-> source]
Waiting(source, phase) == Activity("waiting", phase, source)

\* A missing status counts as active in a turn of ours, where it may still
\* come, and as settled in what was read from disk.
IsActiveToolStatus(status, source) ==
    IF status = "" THEN source = "managed"
    ELSE status \notin {"completed", "failed", "cancelled", "canceled", "error"}

IsTurnTerminalEvent(c) ==
    /\ c.kind = "event"
    /\ c.title \in {"Worked for", "Turn completed", "Turn failed", "Turn cancelled", "Rate limited"}

\* What follows a settled card: the model, in a turn of ours.
AfterSettled(c, source) ==
    IF source = "managed" THEN Waiting(source, <<"after", c.kind, c.uid>>) ELSE NoActivity

OfTool(c, source) ==
    IF ~IsActiveToolStatus(c.status, source) THEN AfterSettled(c, source)
    ELSE IF c.kind = "tool" /\ c.base = "Ask" THEN Activity("waitingUser", <<"ask", c.id>>, source)
    ELSE Activity("tool", <<c.kind, c.id>>, source)

OfLifecycle(c, source) ==
    IF c.pay.status = "running" \/ IsActiveToolStatus(c.pay.status, source)
    THEN Waiting(source, <<c.kind, c.id>>)
    ELSE AfterSettled(c, source)

OfCard(c, source) ==
    CASE c.kind = "user" \/ IsTurnTerminalEvent(c) -> NoActivity
      [] c.kind \in {"thought", "plan"} -> Activity("thinking", <<"thinking", c.uid>>, source)
      [] c.kind = "agent" ->
            IF c.streaming THEN Activity("responding", <<"responding", c.uid>>, source)
            ELSE AfterSettled(c, source)
      [] c.kind \in {"tool", "shell"} -> OfTool(c, source)
      [] c.kind \in {"subagent", "task"} -> OfLifecycle(c, source)

\* The last card decides; plain events and commands are passed over.
InferActivityFromTimeline(items, source) ==
    FoldLeft(LAMBDA said, c : IF c.kind \in {"event", "commands"} /\ ~IsTurnTerminalEvent(c)
                              THEN said ELSE OfCard(c, source),
             NoActivity, items)

\* The turn of our own handle first; then, when it is not attached, what
\* another host does with the session.
ResolveTurnActivity(st, items, sessionIsActive) ==
    LET own     == InferActivityFromTimeline(items, "managed")
        foreign == InferActivityFromTimeline(items, "external")
    IN CASE st = "starting" -> Activity("starting", <<"starting">>, "managed")
         [] st = "stopping" -> Activity("cancelling", <<"cancelling">>, "managed")
         [] st = "awaitingPermission" -> Activity("waitingUser", <<"awaitingPermission">>, "managed")
         [] st = "running" -> IF own = NoActivity THEN Waiting("managed", <<"model">>) ELSE own
         [] ~IsPinkcodeAttached(st) /\ sessionIsActive ->
                IF foreign = NoActivity THEN Activity("external", <<"external-open">>, "external")
                ELSE foreign
         [] OTHER -> NoActivity
=============================================================================
