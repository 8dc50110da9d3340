--------------------------- MODULE RequestDialogs ---------------------------
(***************************************************************************)
(* The questions grok asks the user, from the gate of the host to the      *)
(* dialog and back (PermissionGate with its three dialogs, the map of      *)
(* useAgentEvents, handleResolvePermission and resolve_permission).  The   *)
(* host finds a gate by its key, the window a dialog by the same key, and  *)
(* one key at most is the busy one.  A key is the handle and the number    *)
(* grok gave the request, and a grok that is started again counts from the *)
(* beginning.  The host emits outside its locks: each event is a step.     *)
(***************************************************************************)
EXTENDS WindowPlan, SequencesExt

CONSTANTS
    Requests,       \* those there may be: [id, key, kind, task, conn, questions], conn the
                    \* connection whose client its gate keeps
    Labels          \* the options of a question

\* No connect ends in a calm plan.
ASSUME DialogPlans ==
    \A p \in Plans : {"calm", "hydrates", "picks"} \subseteq DOMAIN p /\ p.picks \in Nat /\ (p.calm = 1 => p.hydrates = 0)

VARIABLES
    conn,           \* per task, its connection: the next one once a loss is marked
    raised,         \* the requests announced
    asking,         \* those of them whose gate is not held yet
    gates,          \* those the host holds
    closing,        \* threads that see a connection close: [task, conn, st, gates]
    down,           \* the tasks whose start has failed
    news,           \* what the host emitted and the window has not received
    shown,          \* the requests of the window
    listed,         \* answers to list_pending under way
    looked,         \* the task selected
    drafts,         \* per dialog on the screen, what the user put into it
    permBusyKey,
    calls           \* answers under way: [req, option, answers, st, gate, by]

dialogVars == <<conn, raised, asking, gates, closing, down, news, shown, listed, looked, drafts, permBusyKey, calls>>
hostVars == <<conn, raised, asking, gates, closing, down, news>>
windowSide == <<shown, listed, looked, drafts, permBusyKey>>

Nobody == "nobody"
NoRequest == [key |-> Nobody]
News(kind, r) == <<[kind |-> kind, req |-> r]>>
Keys(rs) == {r.key : r \in rs}
OfKey(rs, k) == {r \in rs : r.key = k}

----------------------------------------------------------------------------
(* What is on the screen.                                                  *)

BlankQuestion == [selected |-> {}, otherOn |-> FALSE, otherText |-> FALSE]
Fresh(r) == [note |-> FALSE, form |-> [i \in DOMAIN r.questions |-> BlankQuestion]]
Dialogs(rs, t) == {r \in rs : r.task = t}
Mounted == Dialogs(shown, looked)
\* A dialog keeps its state while its key stays and it asks as many questions.
ResetsByItem(k, again) == k \in again       \* a plausible bug: the item is what the form depends on
ResetsByKey(k, again) == FALSE
Rendered(ds, rs, t, again) ==
    LET now == Dialogs(rs, t)
    IN [k \in Keys(now) |->
            LET r == CHOOSE r \in OfKey(now, k) : TRUE
            IN IF k \in DOMAIN ds /\ DOMAIN ds[k].form = DOMAIN r.questions /\ ~ResetsByKey(k, again)
               THEN ds[k] ELSE Fresh(r)]
Put(rs, new) == {r \in rs : r.key \notin Keys(new)} \cup new

NewsArrives ==
    /\ news # <<>> /\ news' = Tail(news)
    /\ LET e == Head(news)
       IN /\ shown' = IF e.kind = "asked" THEN Put(shown, {e.req}) ELSE shown \ OfKey(shown, e.req.key)
          /\ drafts' = Rendered(drafts, shown', looked, {e.req.key})
    /\ UNCHANGED <<conn, raised, asking, gates, closing, down, listed, looked, permBusyKey, calls, left>>
\* A connect ends by reading what the host holds for the task.
HydrateAsks ==
    /\ Spend("hydrates")
    /\ listed' = listed \cup {{g \in gates : g.task = looked}}
    /\ UNCHANGED <<hostVars, shown, looked, drafts, permBusyKey, calls>>
HydrateLands(l) ==
    /\ listed' = listed \ {l} /\ shown' = Put(shown, l) /\ drafts' = Rendered(drafts, shown', looked, Keys(l))
    /\ UNCHANGED <<hostVars, looked, permBusyKey, calls, left>>
Looks(t) ==
    /\ t # looked /\ Spend("selects")
    /\ looked' = t /\ drafts' = Rendered(drafts, shown, t, {})
    /\ UNCHANGED <<hostVars, shown, listed, permBusyKey, calls>>

----------------------------------------------------------------------------
(* Filling in a dialog.                                                    *)

Enabled(r) == r \in Mounted /\ permBusyKey # r.key
Fills(r, d) ==
    /\ Enabled(r) /\ d # drafts[r.key] /\ Spend("picks")
    /\ drafts' = [drafts EXCEPT ![r.key] = d]
    /\ UNCHANGED <<hostVars, shown, listed, looked, permBusyKey, calls>>
Comments(r) == r.kind \in {"plan", "tool"} /\ Fills(r, [drafts[r.key] EXCEPT !.note = TRUE])
FillsQuestion(r, i, q) == Fills(r, [drafts[r.key] EXCEPT !.form[i] = q])
OptionToggled(q, l, multi) ==
    IF multi THEN [q EXCEPT !.selected = IF l \in @ THEN @ \ {l} ELSE @ \cup {l}]
    ELSE [q EXCEPT !.selected = {l}, !.otherOn = FALSE]
OtherToggled(q, multi) ==
    IF multi THEN [q EXCEPT !.otherOn = ~@] ELSE [q EXCEPT !.otherOn = TRUE, !.selected = {}]
TogglesOption(r, i, l) == FillsQuestion(r, i, OptionToggled(drafts[r.key].form[i], l, r.questions[i].multi))
TogglesOther(r, i) == FillsQuestion(r, i, OtherToggled(drafts[r.key].form[i], r.questions[i].multi))
\* The input is there once Other is on, or one answer is wanted; it is entered first.
TypesOther(r, i) ==
    LET multi == r.questions[i].multi
        q == drafts[r.key].form[i]
        entered == IF multi THEN q ELSE OtherToggled(q, FALSE)
    IN /\ multi => q.otherOn
       /\ FillsQuestion(r, i, [entered EXCEPT !.otherOn = TRUE, !.otherText = TRUE])

----------------------------------------------------------------------------
(* Answering.                                                              *)

LabelsFor(q) == q.selected \cup IF q.otherOn /\ q.otherText THEN {"other"} ELSE {}
Answered(r) == {i \in DOMAIN r.questions : LabelsFor(drafts[r.key].form[i]) # {}}
\* The map to grok is by the text of the question: a later one replaces an earlier.
AnswersOf(r) ==
    LET texts == {r.questions[i].text : i \in Answered(r)}
        last(t) == CHOOSE i \in Answered(r) : r.questions[i].text = t /\ \A j \in Answered(r) : r.questions[j].text = t => j <= i
    IN [map |-> [t \in texts |-> LabelsFor(drafts[r.key].form[last(t)])],
        partial |-> texts # {} /\ Cardinality(texts) < Len(r.questions)]
NoAnswers == [map |-> <<>>, partial |-> FALSE]
Call(r, option) ==
    [req |-> r, option |-> option, answers |-> IF option = "accepted" THEN AnswersOf(r) ELSE NoAnswers,
     st |-> "called", gate |-> NoRequest, by |-> "user"]
Resolves(rs, option) ==
    /\ rs # {} /\ Spend("clicks")
    /\ permBusyKey' \in Keys(rs) /\ calls' = calls \cup {Call(r, option) : r \in rs}
    /\ UNCHANGED <<hostVars, shown, listed, looked, drafts>>
\* The buttons of the three dialogs.
PlanButtons == {"approve", "request-changes", "abandon"}
AskButtons(r) == {"chat_about_this", "skip_interview"} \cup IF Answered(r) # {} THEN {"accepted"} ELSE {}
ToolButtons(r) == {"allow", "reject"} \cup IF r.kind = "tool" THEN {"cancelled"} ELSE {}
Buttons(r) == CASE r.kind = "plan" -> PlanButtons [] r.kind = "ask" -> AskButtons(r) [] OTHER -> ToolButtons(r)
Presses(r) == Enabled(r) /\ \E option \in Buttons(r) : Resolves({r}, option)
\* Escape is for the first dialog, when it is one for a tool or a file; the
\* letters a, s and q are for every plan.
First(rs) == CHOOSE r \in rs : \A q \in rs : r.id <= q.id
EscapeKey == Mounted # {} /\ LET r == First(Mounted) IN r.kind \in {"tool", "write"} /\ Enabled(r) /\ Resolves({r}, "cancelled")
PlanKeys == \E option \in PlanButtons : Resolves({r \in Mounted : r.kind = "plan" /\ Enabled(r)}, option)

\* set_permission_mode: what the new mode decides is answered by the host, in the
\* same way.  No mode decides a plan or a question.
ByMode(g) == [req |-> g, option |-> "mode", answers |-> NoAnswers, st |-> "called", gate |-> NoRequest, by |-> "mode"]
ModeSet(t) ==
    /\ Spend("modes")
    /\ \E decided \in SUBSET {g \in gates : g.task = t /\ g.kind \in {"tool", "write"}} :
            decided # {} /\ calls' = calls \cup {ByMode(g) : g \in decided}
    /\ UNCHANGED <<hostVars, windowSide>>

\* The answer moves on; of the host's own nobody waits for the end.
Heard(d) == d.by = "user" \/ d.st = "taken"
Moved(c, d) == calls' = (calls \ {c}) \cup {e \in {d} : Heard(e)}
HostTakes(c) ==
    /\ c \in calls /\ c.st = "called"
    /\ LET found == OfKey(gates, c.req.key)
       IN /\ gates' = gates \ found
          /\ Moved(c, IF found = {} THEN [c EXCEPT !.st = "failed"]
                      ELSE [c EXCEPT !.st = "taken", !.gate = CHOOSE g \in found : TRUE])
    /\ UNCHANGED <<conn, raised, asking, closing, down, news, windowSide, left>>
HostDelivers(c) ==
    /\ c \in calls /\ c.st = "taken" /\ Moved(c, [c EXCEPT !.st = "done"])
    /\ news' = news \o News("resolved", c.gate)
    /\ UNCHANGED <<conn, raised, asking, gates, closing, down, windowSide, left>>
\* The file or the pipe cannot be written.  A gate of the connection there is goes
\* back; one of another, or of a start that has failed, is told as resolved.  Such a
\* start marks its handle only after it has dropped the gates.
UndeliveredSilently(g) == <<>>      \* a plausible bug: the dialog is not told
Undelivered(g) == News("resolved", g)
Current(g) == g.conn = conn[g.task]
HostRefuses(c, again) ==
    /\ c \in calls /\ c.st = "taken" /\ Moved(c, [c EXCEPT !.st = "failed"])
    /\ IF again THEN Current(c.gate) /\ Spend("refusals") ELSE (~Current(c.gate) \/ c.gate.task \in down) /\ UNCHANGED left
    /\ news' = news \o (IF again THEN <<>> ELSE Undelivered(c.gate))
    /\ gates' = IF again THEN Put(gates, {c.gate}) ELSE gates
    /\ UNCHANGED <<conn, raised, asking, closing, down, windowSide>>
\* Any answer frees the busy key; a success takes the dialog away.
ResolveEnds(c) ==
    /\ c \in calls /\ c.st \in {"done", "failed"}
    /\ calls' = calls \ {c} /\ permBusyKey' = Nobody
    /\ shown' = IF c.st = "done" THEN shown \ OfKey(shown, c.req.key) ELSE shown
    /\ drafts' = Rendered(drafts, shown', looked, {})
    /\ UNCHANGED <<hostVars, listed, looked, left>>

----------------------------------------------------------------------------
(* grok and its connection.                                                *)

\* enqueue_permission: the event, then the gate.  The thread has the client of its
\* handle already, which may have been replaced since.
Asks(r) ==
    /\ r \notin raised /\ r.conn <= conn[r.task]
    /\ raised' = raised \cup {r} /\ asking' = asking \cup {r} /\ news' = news \o News("asked", r)
    /\ UNCHANGED <<conn, gates, closing, down, windowSide, calls, left>>
GateInserted(r) ==
    /\ r \in asking
    /\ asking' = asking \ {r} /\ gates' = Put(gates, {r})
    /\ UNCHANGED <<conn, raised, closing, down, news, windowSide, calls, left>>

\* handle_transport_closed, in the reader or in a thread whose prompt failed: the
\* gates of the task are taken, each is told as resolved, and the loss is marked,
\* by the first who comes to it.
TransportCloses(t) ==
    /\ t \notin down /\ Spend("losses")
    /\ closing' = closing \cup {[task |-> t, conn |-> conn[t], st |-> "seen", gates |-> {}]}
    /\ UNCHANGED <<conn, raised, asking, gates, down, news, windowSide, calls>>
CloserMoves(c, d) == closing' = (closing \ {c}) \cup {d}
CloserTakes(c) ==
    /\ c \in closing /\ c.st = "seen"
    /\ LET lost == {g \in gates : g.task = c.task}
       IN gates' = gates \ lost /\ CloserMoves(c, [c EXCEPT !.st = "taken", !.gates = lost])
    /\ UNCHANGED <<conn, raised, asking, down, news, windowSide, calls, left>>
CloserTells(c, g) ==
    /\ c \in closing /\ g \in c.gates
    /\ news' = news \o News("resolved", g) /\ CloserMoves(c, [c EXCEPT !.gates = @ \ {g}])
    /\ UNCHANGED <<conn, raised, asking, gates, down, windowSide, calls, left>>
CloserMarks(c) ==
    /\ c \in closing /\ c.st = "taken" /\ c.gates = {}
    /\ closing' = closing \ {c}
    /\ conn' = IF conn[c.task] = c.conn /\ c.task \notin down THEN [conn EXCEPT ![c.task] = @ + 1] ELSE conn
    /\ UNCHANGED <<raised, asking, gates, down, news, windowSide, calls, left>>
\* fail_registered_agent: the gates are dropped, and nothing says so.
StartFails(t) ==
    /\ t \notin down /\ conn[t] = 1 /\ Spend("fails")
    /\ gates' = {g \in gates : g.task # t} /\ down' = down \cup {t}
    /\ UNCHANGED <<conn, raised, asking, closing, news, windowSide, calls>>

DialogTasks == {r.task : r \in Requests}
DialogInit ==
    /\ conn = [t \in DialogTasks |-> 1] /\ raised = {} /\ asking = {} /\ gates = {} /\ closing = {} /\ down = {} /\ news = <<>> /\ shown = {} /\ listed = {}
    /\ looked = (CHOOSE t \in DialogTasks : TRUE) /\ drafts = <<>> /\ permBusyKey = Nobody /\ calls = {}
DialogNext ==
    \/ NewsArrives \/ HydrateAsks
    \/ \E l \in listed : HydrateLands(l)
    \/ \E t \in DialogTasks : Looks(t) \/ TransportCloses(t) \/ StartFails(t) \/ ModeSet(t)
    \/ \E r \in Mounted : Comments(r) \/ Presses(r)
    \/ \E r \in Mounted : \E i \in DOMAIN r.questions :
            TogglesOther(r, i) \/ TypesOther(r, i) \/ \E l \in Labels : TogglesOption(r, i, l)
    \/ EscapeKey \/ PlanKeys
    \/ \E c \in calls : HostTakes(c) \/ HostDelivers(c) \/ ResolveEnds(c) \/ \E again \in BOOLEAN : HostRefuses(c, again)
    \/ \E r \in Requests : r.id \in left.requests /\ (Asks(r) \/ GateInserted(r))
    \/ \E c \in closing : CloserTakes(c) \/ CloserMarks(c) \/ \E g \in c.gates : CloserTells(c, g)
DialogSpec == left \in Plans /\ DialogInit /\ [][DialogNext]_<<dialogVars, left>>

----------------------------------------------------------------------------
\* No other request has had its key.
Sole(r) == \A q \in raised : q.key = r.key => q = r

\* resolve_permission, enqueue_permission, handle_transport_closed, useAgentEvents: of
\* the requests whose key has not come again, the window and the host agree on what
\* is open.  A gate has its dialog, or one is announced; and, unless a connect reads
\* the gates again or the start of the task failed, a dialog has its gate or is about
\* to have it, or is about to go.
HeldIsShown == \A g \in gates : Sole(g) => g \in shown \/ \E e \in ToSet(news) : e.kind = "asked" /\ e.req = g
ShownIsHeld ==
    \A r \in shown : Sole(r) /\ r.task \notin down =>
        \/ r \in asking \cup gates
        \/ \E c \in closing : r \in c.gates
        \/ \E e \in ToSet(news) : e.kind = "resolved" /\ e.req = r
        \/ \E c \in calls : c.gate = r /\ c.st \in {"taken", "done"}
DialogsMatchGates == HeldIsShown /\ (left.calm = 1 => ShownIsHeld)

\* UserQuestionModal, PlanApprovalModal: what the user has put into a dialog goes
\* only by his own hand, with its request, or by turning to another task.
FormsKept ==
    \A r \in Mounted :
        left'.picks # left.picks \/ looked' # looked \/ r \notin shown' \/ drafts'[r.key] = drafts[r.key]
=============================================================================
