---------------------------- MODULE PromptQueue ----------------------------
(***************************************************************************)
(* A message between Enter and its turn (usePendingPrompts,                *)
(* usePromptQueueController, PendingRow): the placeholder shown until grok *)
(* says something, the queue grok reports, and the user's orders about it. *)
(* An order is a notification, so the host answers before grok has acted;  *)
(* the lock over the rows is for the report, not for the answer.           *)
(* Time is left out.  The 45 s of a placeholder pass whenever they like,   *)
(* whatever grok does; the 5 s of the lock over the rows beat what is on   *)
(* its way as often as the plan says, and pass when nothing is.            *)
(***************************************************************************)
EXTENDS WindowPlan, SequencesExt, Selections

CONSTANT Messages   \* 1 .. n: the messages there may be
\* 0 is no message; what a plan queues at the start are the first of them.
ASSUME QueueMessages ==
    /\ Messages \subseteq Nat \ {0}
    /\ \A plan \in Plans : plan.queued \in Nat /\ 1 .. plan.queued \subseteq Messages

VARIABLES
    fate,           \* per message: unsent, given, removed, failed, lost
    dispatch,       \* accepted by the host, its worker has not written them
    stdin,          \* what grok has not read
    entries,        \* grok's queue
    turn,           \* the message that runs, 0 for one of before, -1 for none
    ran,            \* the messages put into a turn, in order
    wire,           \* what the window has not received
    queue,          \* the queue shown
    echoed,         \* the messages shown in the timeline
    pending,        \* the placeholder: [id, acked, due], due once its time is over
    lapsed,         \* the messages whose placeholder the clock took
    sending,        \* handleSend is under way for it, or 0
    live,           \* the last status seen was a live one
    watching,       \* the task is the one selected
    busyKey,        \* the rows are locked
    queueDraft,     \* the entry edited, or 0
    runs            \* orders under way: [kind, id, ids, n, st], n its number among them

queueVars == <<fate, dispatch, stdin, entries, turn, ran, wire, queue, echoed, pending, lapsed,
               sending, live, watching, busyKey, queueDraft, runs>>
grokVars == <<fate, stdin, entries, turn, ran, wire>>
rowVars == <<queue, busyKey, queueDraft>>

Idle == -1
NoPending == [id |-> 0, acked |-> FALSE, due |-> FALSE]
Order(kind, id, ids, n) == [kind |-> kind, id |-> id, ids |-> ids, n |-> n]
Report(q) == [kind |-> "queue", id |-> 0, ids |-> q]
Told(kind, id) == [kind |-> kind, id |-> id, ids |-> <<>>]
Quiet == dispatch = {} /\ stdin = <<>> /\ wire = <<>> /\ sending = 0 /\ runs = {}
\* The timer of the lock, which may not wait for the round trip.
Late == (Quiet /\ UNCHANGED left) \/ (~Quiet /\ Spend("lates"))

----------------------------------------------------------------------------
(* A message is submitted.                                                 *)

Unsent == {m \in Messages : fate[m] = "unsent"}
\* handleSend: remember, then connect, choose the model and the mode.
Submit ==
    /\ watching /\ sending = 0 /\ Unsent # {} /\ Spend("sends")
    /\ LET m == CHOOSE m \in Unsent : \A n \in Unsent : m <= n
       IN /\ fate' = [fate EXCEPT ![m] = "given"]
          /\ pending' = [id |-> m, acked |-> FALSE, due |-> FALSE] /\ sending' = m
    /\ UNCHANGED <<dispatch, stdin, entries, turn, ran, wire, echoed, lapsed, live, watching, runs, rowVars>>
\* prompt answers accepted before the prompt is written.
RetiredAnyway(accepted) == NoPending    \* a plausible bug
Retired(accepted) == IF accepted THEN pending ELSE NoPending
SendAccepted ==
    /\ sending # 0
    /\ dispatch' = dispatch \cup {sending} /\ sending' = 0 /\ pending' = Retired(TRUE)
    /\ UNCHANGED <<grokVars, echoed, lapsed, live, watching, runs, rowVars, left>>
SendFails ==
    /\ sending # 0 /\ Spend("refusals")
    /\ fate' = [fate EXCEPT ![sending] = "failed"] /\ sending' = 0 /\ pending' = Retired(FALSE)
    /\ UNCHANGED <<dispatch, stdin, entries, turn, ran, wire, echoed, lapsed, live, watching, runs, rowVars>>
DispatchWrites(m) ==
    /\ m \in dispatch
    /\ dispatch' = dispatch \ {m} /\ stdin' = Append(stdin, Order("prompt", m, <<>>, 0))
    /\ UNCHANGED <<fate, entries, turn, ran, wire, echoed, pending, lapsed, sending, live, watching, runs, rowVars, left>>
\* The failure is told of the prompt the manager takes for the current one only.
DispatchFails(m, told) ==
    /\ m \in dispatch /\ Spend("refusals")
    /\ dispatch' = dispatch \ {m} /\ fate' = [fate EXCEPT ![m] = "failed"]
    /\ told \/ turn # Idle \/ dispatch # {m}
    /\ wire' = IF told THEN Append(wire, Told("failed", m)) ELSE wire
    /\ UNCHANGED <<stdin, entries, turn, ran, echoed, pending, lapsed, sending, live, watching, runs, rowVars>>

----------------------------------------------------------------------------
(* grok: it queues what comes during a turn, and reports its queue.        *)

Reordered(q, ids) == Only(ids, ToSet(q)) \o Only(q, ToSet(q) \ ToSet(ids))
Starts(m) == turn' = m /\ ran' = Append(ran, m)
Reports(q, said) == entries' = q /\ wire' = wire \o <<Report(q)>> \o said
windowVars == <<queue, echoed, pending, lapsed, sending, live, watching, busyKey, queueDraft>>

TakesPrompt(o) ==
    /\ o.kind = "prompt"
    /\ IF turn = Idle THEN Starts(o.id) /\ wire' = Append(wire, Told("echo", o.id)) /\ UNCHANGED entries
       ELSE Reports(Append(entries, o.id), <<>>) /\ UNCHANGED <<turn, ran>>
    /\ UNCHANGED <<fate, runs>>
TakesOrder(o) ==
    /\ o.kind \in {"remove", "drop", "reorder", "edit", "clear"}
    /\ LET gone == CASE o.kind \in {"remove", "drop"} -> {o.id} [] o.kind = "clear" -> ToSet(entries) [] OTHER -> {}
           kept == Only(entries, ToSet(entries) \ gone)
       IN /\ Reports(IF o.kind = "reorder" THEN Reordered(kept, o.ids) ELSE kept, <<>>)
          /\ fate' = [m \in Messages |-> IF o.kind # "drop" /\ m \in gone \cap ToSet(entries) THEN "removed" ELSE fate[m]]
    /\ UNCHANGED <<turn, ran, runs>>
AnsweredBy(o, r) ==
    IF r.st = "asked" /\ r.n = o.n THEN [r EXCEPT !.st = IF turn = Idle THEN "refused" ELSE "done"] ELSE r
\* Into the turn that runs; without one there is nothing to put it into.
TakesInterject(o) ==
    /\ o.kind = "interject"
    /\ IF turn = Idle THEN UNCHANGED <<ran, wire>>
       ELSE ran' = Append(ran, o.id) /\ wire' = Append(wire, Told("echo", o.id))
    /\ runs' = {AnsweredBy(o, r) : r \in runs}
    /\ UNCHANGED <<fate, entries, turn>>
GrokReads ==
    /\ stdin # <<>> /\ stdin' = Tail(stdin)
    /\ TakesPrompt(Head(stdin)) \/ TakesOrder(Head(stdin)) \/ TakesInterject(Head(stdin))
    /\ UNCHANGED <<dispatch, windowVars, left>>
TurnEnds ==
    /\ turn # Idle /\ Spend("ends")
    /\ IF entries = <<>> THEN turn' = Idle /\ UNCHANGED <<entries, ran, wire>>
       ELSE Starts(Head(entries)) /\ Reports(Tail(entries), <<Told("echo", Head(entries))>>)
    /\ UNCHANGED <<fate, dispatch, stdin, runs, windowVars>>
Unread == {o.id : o \in {o \in ToSet(stdin) : o.kind = "prompt"}}
\* An order that has its client keeps it, and that is no longer connected.
Refused(r) == IF r.st \in {"asked", "done"} THEN [r EXCEPT !.st = "refused"] ELSE r
\* The transport goes with all that was not in the transcript, and says nothing of it.
ConnectionLost ==
    /\ Spend("losses")
    /\ fate' = [m \in Messages |-> IF m \in dispatch \cup ToSet(entries) \cup Unread THEN "lost" ELSE fate[m]]
    /\ dispatch' = {} /\ stdin' = <<>> /\ entries' = <<>> /\ turn' = Idle
    /\ wire' = wire \o <<Told("down", 0), Told("up", 0)>>
    /\ runs' = {Refused(r) : r \in runs}
    /\ UNCHANGED <<ran, windowVars>>

----------------------------------------------------------------------------
(* The window hears of it.                                                 *)

\* isStillPending: any queue update, any echo, the end of a live connection.
\* Only the detail of the selected task judges, and it alone sees a loss.
Settled(e) == e.kind \in {"queue", "echo"} \/ (e.kind = "down" /\ live /\ watching)
Judged(p) == IF watching /\ p.acked THEN NoPending ELSE p
EventArrives ==
    /\ wire # <<>>
    /\ LET e == Head(wire)
       IN /\ pending' = IF e.kind = "failed" THEN NoPending
                        ELSE Judged([pending EXCEPT !.acked = @ \/ (pending.id # 0 /\ Settled(e))])
          /\ echoed' = IF e.kind = "echo" THEN echoed \cup {e.id} ELSE echoed
          /\ live' = CASE e.kind = "down" -> FALSE [] e.kind = "up" -> TRUE [] OTHER -> live
          /\ IF e.kind # "queue" THEN UNCHANGED rowVars
             ELSE /\ queue' = e.ids /\ busyKey' = FALSE
                  /\ queueDraft' = IF queueDraft \in ToSet(e.ids) THEN queueDraft ELSE 0
    /\ wire' = Tail(wire)
    /\ UNCHANGED <<fate, dispatch, stdin, entries, turn, ran, lapsed, sending, watching, runs, left>>
\* Another task is selected, or this one again.
Select ==
    /\ Spend("selects")
    /\ watching' = ~watching
    /\ pending' = IF watching' /\ pending.acked THEN NoPending ELSE pending
    /\ busyKey' = FALSE /\ queueDraft' = 0
    /\ UNCHANGED <<grokVars, dispatch, queue, echoed, lapsed, sending, live, runs>>
\* 45 seconds pass since Enter, whoever is at work or hangs; the clock of the view
\* ticks every two while there is a placeholder, and that judges it again.
TimeIsUp ==
    /\ pending # NoPending /\ ~pending.due
    /\ pending' = [pending EXCEPT !.due = TRUE]
    /\ UNCHANGED <<grokVars, dispatch, echoed, lapsed, sending, live, watching, runs, rowVars, left>>
SampledWhenDrawn == wire # <<>>     \* a plausible bug: the time is read when something else is drawn
Sampled == TRUE
AckTimeout ==
    /\ watching /\ pending.due /\ Sampled
    /\ pending' = NoPending /\ lapsed' = lapsed \cup {pending.id}
    /\ UNCHANGED <<grokVars, dispatch, echoed, sending, live, watching, runs, rowVars, left>>
UnlockTimer ==
    /\ busyKey /\ Late
    /\ busyKey' = FALSE
    /\ UNCHANGED <<grokVars, dispatch, queue, echoed, pending, lapsed, sending, live, watching, queueDraft, runs>>

----------------------------------------------------------------------------
(* Orders about the queue.                                                 *)

Run(kind, id, ids, n) == [kind |-> kind, id |-> id, ids |-> ids, n |-> n, st |-> "called"]
\* run: one order, then the rows are locked.
Ordered(kind, id, ids) ==
    /\ watching /\ ~busyKey /\ Spend("orders")
    /\ busyKey' = TRUE /\ runs' = runs \cup {Run(kind, id, ids, FreshNumber(runs))}
    /\ UNCHANGED <<grokVars, dispatch, queue, echoed, pending, lapsed, sending, live, watching, queueDraft>>
MovedUp(q, i) == [q EXCEPT ![i] = q[i - 1], ![i - 1] = q[i]]
Moves(i) == i > 1 /\ Ordered("reorder", queue[i], MovedUp(queue, i))
Removes(i) == queueDraft # queue[i] /\ Ordered("remove", queue[i], <<>>)
SendsNow(i) == queueDraft # queue[i] /\ Ordered("interject", queue[i], <<>>)
ClearsAll == Len(queue) > 1 /\ queueDraft # Head(queue) /\ Ordered("clear", 0, <<>>)
Saves == queueDraft # 0 /\ Ordered("edit", queueDraft, <<>>)
OpensDraft(i) ==
    /\ watching /\ ~busyKey /\ queueDraft # queue[i] /\ Spend("edits")
    /\ queueDraft' = queue[i]
    /\ UNCHANGED <<grokVars, dispatch, queue, echoed, pending, lapsed, sending, live, watching, busyKey, runs>>

\* What becomes of the lock when the host has answered.
LockFreed(ok) == FALSE      \* a plausible bug: the row unlocks on its own round trip
LockAfter(ok) == ok /\ busyKey
RunEnds(r, ok) ==
    /\ busyKey' = LockAfter(ok)
    /\ queueDraft' = IF ok /\ r.kind = "edit" THEN 0 ELSE queueDraft
WrittenDropFirst(r) ==      \* a plausible bug: the entry is dropped before it is interjected
    (IF r.kind = "interject" THEN <<Order("drop", r.id, <<>>, 0)>> ELSE <<>>) \o <<Order(r.kind, r.id, r.ids, r.n)>>
Written(r) == <<Order(r.kind, r.id, r.ids, r.n)>>
HostWrites(r) ==
    /\ r \in runs /\ r.st = "called"
    /\ stdin' = stdin \o Written(r)
    /\ IF r.kind = "interject" THEN runs' = (runs \ {r}) \cup {[r EXCEPT !.st = "asked"]} /\ UNCHANGED <<busyKey, queueDraft>>
       ELSE runs' = runs \ {r} /\ RunEnds(r, TRUE)
    /\ UNCHANGED <<fate, dispatch, entries, turn, ran, wire, queue, echoed, pending, lapsed, sending, live, watching, left>>
\* Interjected: drop the entry, so that the queue does not run it again.
HostDrops(r) ==
    /\ r \in runs /\ r.st = "done"
    /\ stdin' = Append(stdin, Order("drop", r.id, <<>>, 0)) /\ runs' = runs \ {r} /\ RunEnds(r, TRUE)
    /\ UNCHANGED <<fate, dispatch, entries, turn, ran, wire, queue, echoed, pending, lapsed, sending, live, watching, left>>
HostFails(r) ==
    /\ r \in runs /\ ((r.st = "refused" /\ UNCHANGED left) \/ (r.st = "called" /\ Spend("refusals")))
    /\ runs' = runs \ {r} /\ RunEnds(r, FALSE)
    /\ UNCHANGED <<grokVars, dispatch, queue, echoed, pending, lapsed, sending, live, watching>>

----------------------------------------------------------------------------
\* The start: entries in the queue behind a turn, or none of either.
QueueInit ==
    LET queued == [i \in 1 .. left.queued |-> i]
    IN /\ entries = queued /\ queue = queued
       /\ fate = [m \in Messages |-> IF m <= left.queued THEN "given" ELSE "unsent"]
       /\ turn \in IF left.sends = 0 \/ left.queued > 0 THEN {0} ELSE {0, Idle}
       /\ dispatch = {} /\ stdin = <<>> /\ ran = <<>> /\ wire = <<>> /\ echoed = {} /\ pending = NoPending /\ lapsed = {}
       /\ sending = 0 /\ live = TRUE /\ watching = TRUE /\ busyKey = FALSE /\ queueDraft = 0 /\ runs = {}

HostServes ==
    \/ SendAccepted
    \/ \E m \in Messages : DispatchWrites(m)
    \/ \E r \in runs : HostWrites(r) \/ HostDrops(r)
RowClicks == \E i \in 1 .. Len(queue) : Moves(i) \/ Removes(i) \/ SendsNow(i) \/ OpensDraft(i)
QueueNext ==
    \/ Submit \/ SendFails \/ HostServes
    \/ \E m \in Messages, told \in BOOLEAN : DispatchFails(m, told)
    \/ \E r \in runs : HostFails(r)
    \/ GrokReads \/ TurnEnds \/ ConnectionLost
    \/ EventArrives \/ Select \/ TimeIsUp \/ AckTimeout \/ UnlockTimer
    \/ RowClicks \/ ClearsAll \/ Saves
QueueSpec == left \in Plans /\ QueueInit /\ [][QueueNext]_<<queueVars, left>>

----------------------------------------------------------------------------
(* Nothing but one submission, or the orders, changes the queue.           *)
Calm == left.calm = 1

\* SessionDetail, the lock over the rows: an ordering that reaches grok is one
\* neighbour swap away from the queue grok has, so that no order is made of a
\* queue that an earlier order has already changed.
OrdersCaughtUp ==
    Calm /\ stdin # <<>> /\ Head(stdin).kind = "reorder" =>
        \E i \in 2 .. Len(entries) : Head(stdin).ids = MovedUp(entries, i)

\* usePendingPrompts: a message on its way can be seen, as the placeholder, in
\* the queue or in the timeline, or what shows it is about to arrive, or its
\* placeholder has stood for as long as one may.
Announces(e, m) == (e.kind = "echo" /\ e.id = m) \/ m \in ToSet(e.ids)
MessageVisible ==
    Calm /\ watching => \A m \in Messages : fate[m] = "given" =>
        m \in {pending.id} \cup lapsed \cup ToSet(queue) \cup echoed \/ \E e \in ToSet(wire) : Announces(e, m)

\* queue_interject, prompt: a message that no one removed, that did not fail in
\* sight and was not lost with its transport has run or is still going to.
QueuedNotLost ==
    \A m \in Messages : fate[m] = "given" => m \in {sending} \cup dispatch \cup Unread \cup ToSet(entries) \cup ToSet(ran)

\* SessionDetail, the acknowledgement clock: a placeholder that is looked at
\* does not stay for ever, whatever became of its message, and though the host
\* and grok say nothing ever again.
PlaceholderSettles == pending.id # 0 ~> pending.id = 0 \/ ~watching

=============================================================================
