------------------------------ MODULE TaskList ------------------------------
(***************************************************************************)
(* The list of tasks and the open task of one window: the index            *)
(* (useSessionIndex), the selection, the detail, and what refreshes them   *)
(* (App's effects): the watcher of the sessions on disk, the window        *)
(* becoming visible, a slow poll, and the agent's own notices.             *)
(*                                                                         *)
(* Every read is an asynchronous command: it sees the disk as it is when   *)
(* the host serves it, and answers come in any order.  A call whose answer *)
(* will be ignored is dropped from calls.                                  *)
(***************************************************************************)
EXTENDS WindowPlan, Sequences, FiniteSets, SequencesExt, FiniteSetsExt, Selections

CONSTANTS
    Tasks,          \* the tasks there may be, in the order the host lists them
    Found,          \* the tasks a search finds
    Batch           \* TOKEN_USAGE_BATCH_SIZE

VARIABLES
    disk,           \* version of each task on disk, 0 when there is none
    scanned,        \* the version whose tokens the host has counted
    notices,        \* sessions-changed, not delivered
    recent, results,    \* the cards listed, and those of the search
    query,          \* a search is typed
    searchDue,      \* its timer
    usageDue,       \* the timer of the token totals
    selected,       \* the open task
    detail,         \* its detail
    detailFailed,   \* the last read of the detail failed
    visible, throttled, focusDue, nudgeDue,     \* the window, and its timers
    calls           \* commands under way

listHost == <<disk, scanned, notices>>
cards == <<recent, results, query, selected, usageDue>>
opened == <<detail, detailFailed>>
timers == <<visible, throttled, focusDue, nudgeDue>>
listVars == <<listHost, cards, searchDue, opened, timers>>

NoTask == "none"
NoDetail == [id |-> NoTask, ver |-> 0]
Ids == Range(Tasks)
\* No task has the name that says that none is open.
ASSUME ListTasks == Tasks \in Seq(Ids) /\ NoTask \notin Ids

----------------------------------------------------------------------------
(* Calls.                                                                  *)

OfKind(kind) == {c \in calls : c.kind = kind}
NewCall(cs, kind, arg) ==
    [kind |-> kind, arg |-> arg, st |-> "none", ans |-> <<>>,
     n |-> Min((1..Cardinality(cs) + 1) \ {c.n : c \in cs})]
Called(cs, kind, arg) == cs \cup {NewCall(cs, kind, arg)}
Dropped(cs, kind) == {c \in cs : c.kind # kind}
Due(c, kind) == c \in calls /\ c.kind = kind /\ c.st = "none"
Back(c, kind) == c \in calls /\ c.kind = kind /\ c.st # "none"
Answers(c, st, ans) == calls' = (calls \ {c}) \cup {[c EXCEPT !.st = st, !.ans = ans]}

----------------------------------------------------------------------------
(* The disk.  A card says whether its tokens are still to be counted.      *)

CardOf(id) == [id |-> id, ver |-> disk[id], pending |-> scanned[id] # disk[id]]
HostCards(ids) == LET there == Only(Tasks, {id \in ids : disk[id] > 0})
                  IN [i \in DOMAIN there |-> CardOf(there[i])]
Listed(list, id) == \E i \in DOMAIN list : list[i].id = id

\* A task is written, and the watcher says so, or misses it.  Of a directory that comes
\* or goes, and of the list of active sessions, it does not say which task it is.
DiskWrites(id, category, of) ==
    /\ of = id \/ (of = NoTask /\ category = "index")
    /\ Spend("writes")
    /\ disk' = [disk EXCEPT ![id] = @ + 1]
    /\ notices' = Append(notices, [category |-> category, id |-> of])
    /\ UNCHANGED <<scanned, cards, searchDue, opened, timers, calls>>
DiskWritesUnseen(id) ==
    /\ Spend("misses")
    /\ disk' = [disk EXCEPT ![id] = @ + 1]
    /\ UNCHANGED <<scanned, notices, cards, searchDue, opened, timers, calls>>

ServeList(c) ==
    /\ Due(c, "list") \/ Due(c, "search")
    /\ Answers(c, "ok", HostCards(c.arg))
    /\ UNCHANGED <<listVars, left>>
\* list_managed_agents is asked with a list at hand, which its answer is used with.
ServeManaged(c) ==
    /\ Due(c, "managed") /\ Answers(c, "ok", c.ans)
    /\ UNCHANGED <<listVars, left>>
ReadFails(c) ==
    /\ Due(c, "list") \/ Due(c, "search") \/ Due(c, "managed") \/ Due(c, "usage")
    /\ Spend("refusals") /\ Answers(c, "error", <<>>)
    /\ UNCHANGED listVars
ServeCard(c) ==
    /\ Due(c, "card") \/ Due(c, "detail")
    /\ LET there == HostCards(c.arg) IN Answers(c, IF there = <<>> THEN "error" ELSE "ok", there)
    /\ UNCHANGED <<listVars, left>>
ServeUsage(c) ==
    /\ Due(c, "usage")
    /\ scanned' = [id \in Ids |-> IF id \in c.arg THEN disk[id] ELSE scanned[id]]
    /\ Answers(c, "ok", <<>>)
    /\ UNCHANGED <<disk, notices, cards, searchDue, opened, timers, left>>
ServeTrash(c) ==
    /\ Due(c, "trash")
    /\ disk' = [id \in Ids |-> IF id \in c.arg THEN 0 ELSE disk[id]]
    /\ Answers(c, "ok", <<>>)
    /\ UNCHANGED <<scanned, notices, cards, searchDue, opened, timers, left>>

----------------------------------------------------------------------------
(* The cards shown, and the effects of a change.                           *)

MergeCard(list, card) == [i \in DOMAIN list |-> IF list[i].id = card.id THEN card ELSE list[i]]
MergeUsage(list, ids) == [i \in DOMAIN list |-> IF list[i].id \in ids THEN [list[i] EXCEPT !.pending = FALSE] ELSE list[i]]
WithCard(list, card) == IF Listed(list, card.id) THEN MergeCard(list, card) ELSE <<card>> \o list

Sessions(list, found, q) == IF q THEN found ELSE list
PendingIds(list, open) ==
    LET waits == SelectSeq(list, LAMBDA c : c.pending /\ c.id # open)
    IN {waits[i].id : i \in 1..Min({Batch, Len(waits)})}

RefreshedList(cs) == IF visible THEN Called(cs, "list", Ids) ELSE cs
\* A new detail call makes the one under way stale.
AskDetail(cs, id) == Called(Dropped(cs, "detail"), "detail", {id})

\* The cards and the selection a step leaves, and the calls: a change of
\* either cancels the token totals asked for and sets their timer again, and
\* a change of the selection reads its detail.
Showing(list, found, q, open, cs) ==
    /\ recent' = list /\ results' = found /\ query' = q /\ selected' = open
    /\ usageDue' = (PendingIds(Sessions(list, found, q), open) # {})
    /\ LET quiet == Dropped(cs, "usage")
       IN calls' = IF open # selected /\ open # NoTask THEN AskDetail(quiet, open) ELSE quiet

\* Another task is opened only when the open one is not listed: the one of an agent, one
\* that is active, or the first.
PickSelectedId(list, previous) ==
    IF previous # NoTask /\ Listed(list, previous) THEN {previous}
    ELSE IF list = <<>> THEN {NoTask} ELSE {list[i].id : i \in DOMAIN list}

\* No task open, no detail.
Opened(open) == IF open = NoTask THEN detail' = NoDetail ELSE UNCHANGED detail

\* A task is picked when the list is there, and once more, from the same list, when the
\* agents are.
AskManaged(cs, list) == cs \cup {[NewCall(cs, "managed", {}) EXCEPT !.ans = list]}
ListAnswered(c) ==
    /\ Back(c, "list")
    /\ IF c.st = "error" THEN calls' = calls \ {c} /\ UNCHANGED <<cards, detail>>
       ELSE \E open \in PickSelectedId(c.ans, selected) :
                Showing(c.ans, results, query, open, AskManaged(calls \ {c}, c.ans)) /\ Opened(open)
    /\ UNCHANGED <<listHost, searchDue, detailFailed, timers, left>>
ManagedAnswered(c) ==
    /\ Back(c, "managed")
    /\ IF c.st = "error" THEN calls' = calls \ {c} /\ UNCHANGED <<cards, detail>>
       ELSE \E open \in PickSelectedId(c.ans, selected) :
                Showing(recent, results, query, open, calls \ {c}) /\ Opened(open)
    /\ UNCHANGED <<listHost, searchDue, detailFailed, timers, left>>

\* A card that is gone is left to the next list.
CardAnswered(c) ==
    /\ Back(c, "card")
    /\ IF c.st = "error" THEN calls' = calls \ {c} /\ UNCHANGED cards
       ELSE Showing(WithCard(recent, c.ans[1]), MergeCard(results, c.ans[1]), query, selected, calls \ {c})
    /\ UNCHANGED <<listHost, searchDue, opened, timers, left>>

UsageFires ==
    /\ usageDue
    /\ usageDue' = FALSE
    /\ calls' = Called(calls, "usage", PendingIds(Sessions(recent, results, query), selected))
    /\ UNCHANGED <<listHost, recent, results, query, selected, searchDue, opened, timers, left>>
UsageAnswered(c) ==
    /\ Back(c, "usage")
    /\ IF c.st = "error" THEN calls' = calls \ {c} /\ UNCHANGED cards
       ELSE Showing(MergeUsage(recent, c.arg), MergeUsage(results, c.arg), query, selected, calls \ {c})
    /\ UNCHANGED <<listHost, searchDue, opened, timers, left>>

----------------------------------------------------------------------------
(* The search.                                                             *)

SetQuery(q) ==
    /\ q # query
    /\ Spend("searches")
    /\ searchDue' = q
    /\ Showing(recent, IF q THEN results ELSE <<>>, q, selected, Dropped(calls, "search"))
    /\ UNCHANGED <<listHost, opened, timers>>
SearchFires ==
    /\ searchDue
    /\ searchDue' = FALSE
    /\ calls' = Called(calls, "search", Found)
    /\ UNCHANGED <<listHost, cards, opened, timers, left>>
SearchAnswered(c) ==
    /\ Back(c, "search")
    /\ Showing(recent, c.ans, query, selected, calls \ {c})
    /\ UNCHANGED <<listHost, searchDue, opened, timers, left>>

----------------------------------------------------------------------------
(* The open task.                                                          *)

SelectTask(id) ==
    /\ id # selected
    /\ Listed(Sessions(recent, results, query), id)
    /\ Spend("selects")
    /\ Showing(recent, results, query, id, calls)
    /\ UNCHANGED <<listHost, searchDue, opened, timers>>

\* Mutant: an answer is taken whatever task it is of.
DetailForAny(c) == TRUE
DetailForOpen(c) == c.arg = {selected}
DetailAnswered(c) ==
    /\ Back(c, "detail")
    /\ IF ~DetailForOpen(c) THEN calls' = calls \ {c} /\ UNCHANGED <<cards, opened>>
       ELSE IF c.st = "error" THEN calls' = calls \ {c} /\ detailFailed' = TRUE /\ UNCHANGED <<cards, detail>>
       ELSE /\ detail' = [id |-> c.ans[1].id, ver |-> c.ans[1].ver] /\ detailFailed' = FALSE
            /\ Showing(MergeCard(recent, c.ans[1]), MergeCard(results, c.ans[1]), query, selected, calls \ {c})
    /\ UNCHANGED <<listHost, searchDue, timers, left>>

\* Delete: once the task is in the trash the list is read again.
DeleteTask(id) ==
    /\ Listed(recent, id)
    /\ Spend("deletes")
    /\ calls' = Called(calls, "trash", {id})
    /\ UNCHANGED listVars
DeleteAnswered(c) ==
    /\ Back(c, "trash")
    /\ LET open == IF c.arg = {selected} THEN NoTask ELSE selected
       IN Showing(recent, results, query, open, RefreshedList(calls \ {c})) /\ Opened(open)
    /\ UNCHANGED <<listHost, searchDue, detailFailed, timers, left>>

----------------------------------------------------------------------------
(* What refreshes.                                                         *)

\* A notice is dropped while the window is hidden.  One of another task's
\* timeline only touches its card; one of the open task, or of no task, reads its detail.
NoticeArrives ==
    /\ notices # <<>>
    /\ notices' = Tail(notices)
    /\ LET e == Head(notices)
           ofCard == e.category = "index" \/ (e.category = "timeline" /\ e.id # selected)
           read == IF e.id = NoTask THEN RefreshedList(calls)
                   ELSE IF ofCard THEN Called(calls, "card", {e.id}) ELSE calls
       IN calls' = IF ~visible THEN calls
                   ELSE IF selected # NoTask /\ e.id \in {NoTask, selected} THEN AskDetail(read, selected) ELSE read
    /\ UNCHANGED <<disk, scanned, cards, searchDue, opened, timers, left>>

\* Mutant: refreshing reads the open task only, and not the list beside it.
RefreshOpen ==
    IF throttled THEN UNCHANGED <<throttled, calls>>
    ELSE throttled' = TRUE /\ calls' = IF selected = NoTask THEN RefreshedList(calls) ELSE AskDetail(calls, selected)
\* refreshFromDisk: the one debounce, FS_REFRESH_MIN_MS.
RefreshFromDisk ==
    IF throttled THEN UNCHANGED <<throttled, calls>>
    ELSE /\ throttled' = TRUE
         /\ calls' = IF selected = NoTask THEN RefreshedList(calls) ELSE AskDetail(RefreshedList(calls), selected)

Hide ==
    /\ visible /\ Spend("hides")
    /\ visible' = FALSE
    /\ UNCHANGED <<listHost, cards, searchDue, opened, throttled, focusDue, nudgeDue, calls>>
Shown ==
    /\ ~visible
    /\ visible' = TRUE /\ focusDue' = TRUE
    /\ UNCHANGED <<listHost, cards, searchDue, opened, throttled, nudgeDue, calls, left>>
FocusFires ==
    /\ focusDue
    /\ focusDue' = FALSE
    /\ RefreshFromDisk
    /\ UNCHANGED <<listHost, cards, searchDue, opened, visible, nudgeDue, left>>
\* The polls are far apart: all that was called is answered.
Poll ==
    /\ calls = {} /\ ~throttled
    /\ RefreshFromDisk
    /\ UNCHANGED <<listHost, cards, searchDue, opened, visible, focusDue, nudgeDue, left>>
ThrottleEnds ==
    /\ throttled
    /\ throttled' = FALSE
    /\ UNCHANGED <<listHost, cards, searchDue, opened, visible, focusDue, nudgeDue, calls, left>>

\* The agent of the open task says that files changed; a burst is one refresh.
AgentNotice ==
    /\ visible /\ selected # NoTask
    /\ Spend("nudges")
    /\ nudgeDue' = TRUE
    /\ UNCHANGED <<listHost, cards, searchDue, opened, visible, throttled, focusDue, calls>>
NudgeFires ==
    /\ nudgeDue
    /\ nudgeDue' = FALSE
    /\ calls' = IF selected = NoTask THEN calls ELSE AskDetail(calls, selected)
    /\ UNCHANGED <<listHost, cards, searchDue, opened, visible, throttled, focusDue, left>>

----------------------------------------------------------------------------
ListInit ==
    /\ disk = [id \in Ids |-> IF id \in left.start THEN 1 ELSE 0]
    /\ scanned = [id \in Ids |-> 0]
    /\ notices = <<>> /\ recent = <<>> /\ results = <<>>
    /\ query = FALSE /\ searchDue = FALSE /\ usageDue = FALSE
    /\ selected = NoTask /\ detail = NoDetail /\ detailFailed = FALSE
    /\ visible = TRUE /\ throttled = FALSE /\ focusDue = FALSE /\ nudgeDue = FALSE

ListUser ==
    \/ \E id \in Ids : SelectTask(id) \/ DeleteTask(id)
    \/ \E q \in BOOLEAN : SetQuery(q)
    \/ Hide
ListWorld ==
    \/ \E id \in Ids : \/ DiskWritesUnseen(id)
                       \/ \E category \in {"index", "timeline", "hunks"}, of \in Ids \cup {NoTask} : DiskWrites(id, category, of)
    \/ AgentNotice
ListServed == \E c \in calls : ServeList(c) \/ ServeManaged(c) \/ ServeCard(c) \/ ServeUsage(c) \/ ServeTrash(c)
ListFails == \E c \in calls : ReadFails(c)
ListAnswers ==
    \E c \in calls : \/ ListAnswered(c) \/ ManagedAnswered(c) \/ CardAnswered(c) \/ UsageAnswered(c) \/ SearchAnswered(c)
                     \/ DetailAnswered(c) \/ DeleteAnswered(c)
ListTimers == UsageFires \/ SearchFires \/ FocusFires \/ NudgeFires \/ ThrottleEnds
ListNext == ListUser \/ ListWorld \/ ListServed \/ ListFails \/ ListAnswers \/ ListTimers \/ NoticeArrives \/ Shown \/ Poll
ListSpec ==
    /\ left \in Plans /\ ListInit /\ calls = Called({}, "list", Ids)
    /\ [][ListNext]_<<listVars, calls, left>>

----------------------------------------------------------------------------
(* Properties.                                                             *)

\* The detail shown is that of the open task, unless its own is under way or
\* could not be read.
DetailOfOpen ==
    detail # NoDetail /\ detail.id # selected
        => detailFailed \/ \E c \in OfKind("detail") : c.arg = {selected}

Shows(list) == {<<list[i].id, list[i].ver>> : i \in DOMAIN list}
OnDisk == {<<id, disk[id]>> : id \in {t \in Ids : disk[t] > 0}}

\* In the end the list and the detail are what is on disk, whatever the order
\* of the answers and the notices missed, once the window stays visible.
ListConverges ==
    <>[](/\ Shows(recent) = OnDisk
         /\ selected # NoTask => detail = [id |-> selected, ver |-> disk[selected]])
=============================================================================
