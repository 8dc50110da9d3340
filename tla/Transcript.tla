----------------------------- MODULE Transcript -----------------------------
(***************************************************************************)
(* The timeline of a task as the front end keeps it: useAgentEvents, which *)
(* turns the host's events into cards, and useTimelineHistory, which folds *)
(* the agent's log on disk into the same lists.                            *)
(*                                                                         *)
(* The stream writes to a buffer that one animation frame commits as a     *)
(* whole (scheduleLive, flushLive).  Everything else (a page from disk, a  *)
(* local card, a settled lifecycle, an answered list) changes the          *)
(* committed map in place.  React runs such an update at once here; its    *)
(* effects run in the step of the change they depend on.                   *)
(*                                                                         *)
(* The host and the agents are a script: the agents attached when it       *)
(* begins, and the events of the run in the order the host emits them.  The agent logs what it sends, so the disk   *)
(* holds the entries of every event emitted, delivered or not.  A position *)
(* of the script is an event's identity and its time.                      *)
(***************************************************************************)
EXTENDS TurnActivity

CONSTANTS
    Sessions,       \* sessions the user may select
    Children,       \* sessions of subagents
    Handles,        \* managed agents
    Scripts,        \* the runs, chosen in Init: [roster, events, left]
    PageSize,       \* TIMELINE_PAGE_SIZE, 250 in the code
    MaxLag          \* bound: events emitted and not yet delivered

Keys == Sessions \cup Children \cup Handles

ASSUME TranscriptPages == PageSize \in Nat \ {0} /\ "none" \notin Sessions
ASSUME TranscriptNames == "" \notin Sessions
\* At the start no handle has been removed.  An id that asks for the user is minted by the agent
\* for one request of one session.
Asks(r, p) == r.events[p].ch = "note" /\ r.events[p].u.type = "pending_interaction"
ASSUME TranscriptScripts ==
    \A r \in Scripts :
        /\ Len(r.events) \in Nat
        /\ "gone" \in DOMAIN r.left /\ r.left.gone = {}
        /\ \A p, q \in 1..Len(r.events) : Asks(r, p) /\ Asks(r, q) /\ r.events[p].u.id = r.events[q].u.id
              => r.events[p].session = r.events[q].session /\ r.events[p].handle = r.events[q].handle

VARIABLES
    script, sent, got,          \* the host: its run, emitted, delivered
    roster,                     \* managedList, in the order of the map: [handle, status, session]
    live,                       \* committed liveBySession: key -> cards
    buf,                        \* liveBuf, or NoBuf
    rs,                         \* timelineReducerState, per key
    refilled, lists,            \* lifecycleRefilledHandles, answers under way
    pending,                    \* pendingInteractions: [id, session, handle]
    permissions,                \* open permissions: [id, session, handle]
    commands,                   \* commandsByKey
    selected,                   \* selectedSessionId
    poll,                       \* the latest getSessionDetail under way
    detail,                     \* the detail shown
    hist,                       \* the raw pages of one session (bySession)
    hydratedFp,                 \* lastHydratedFp
    older,                      \* the listSessionUpdates under way
    left                        \* bound: what the user may still do; and the handles removed

host == <<script, sent, got>>
cards == <<live, buf, rs>>
agents == <<roster, refilled, lists>>
chrome == <<pending, permissions, commands>>
history == <<selected, poll, detail, hist, hydratedFp, older>>
vars == <<host, cards, agents, chrome, history, left>>

NoBuf == << >>
None == [session |-> "none"]
NoCards == [k \in Keys |-> <<>>]

----------------------------------------------------------------------------
(* Reading the script: the wire log and what the agent would list.         *)

InLog(s) == {p \in 1..Len(script) : script[p].session = s /\ script[p].ch \in {"update", "note", "shell"}}
Entry(p) == [u |-> script[p].u, ev |-> p, ts |-> p, ch |-> script[p].ch, session |-> script[p].session]
Positions(n, s) == Only([p \in 1..n |-> p], InLog(s))
Logged(n, s) == LET at == Positions(n, s) IN [i \in DOMAIN at |-> Entry(at[i])]

\* The last PageSize entries of the log before a cursor (a count of entries).
PageBefore(log, cursor) == SubSeq(log, Max({0, cursor - PageSize}) + 1, cursor)
PageCursor(cursor) == Max({0, cursor - PageSize})

Named(n, h, types) == {p \in 1..n : script[p].handle = h /\ script[p].u.type \in types}
EndsOf(n, h, id, types) == \E p \in Named(n, h, types) : script[p].u.id = id
ListedSubs(n, h) ==
    LET on == {p \in Named(n, h, {"subagent_spawned"}) :
                    ~EndsOf(n, h, script[p].u.id, {"subagent_finished"})}
    IN SetToSeq({[id |-> script[p].u.id, desc |-> "subagent"] : p \in on})
ListedTasks(n, h) ==
    SetToSeq({[id |-> script[p].u.id, desc |-> Null, signal |-> FALSE, exit |-> Null,
               completed |-> EndsOf(n, h, script[p].u.id, {"task_completed"})] :
                    p \in Named(n, h, {"task_backgrounded"})})

----------------------------------------------------------------------------
(* The committed map and its buffer (scheduleLive, flushLive).             *)

Source == IF buf = NoBuf THEN live ELSE buf

\* A reduction that changes nothing schedules nothing.
Schedule(key, out) ==
    /\ rs' = [rs EXCEPT ![key] = out.rs]
    /\ buf' = IF out.list = Source[key] THEN buf ELSE [Source EXCEPT ![key] = out.list]
    /\ UNCHANGED live

\* The frame commits the buffer as it is, whatever the map became meanwhile.
FlushLive ==
    /\ buf # NoBuf
    /\ live' = buf
    /\ buf' = NoBuf
    /\ UNCHANGED <<rs, host, agents, chrome, history, left>>

KeyOf(e) == IF e.session # "" THEN e.session ELSE e.handle
NextEvent(ch) == got < sent /\ script[got + 1].ch = ch
Arrived == got' = got + 1 /\ UNCHANGED <<script, sent>>

----------------------------------------------------------------------------
(* Managed agents (agent-status and the two effects on managedList).       *)

Attached == {roster[i].handle : i \in DOMAIN roster}

\* A known handle keeps its place in the map, a new one goes last.
Upserted(info) ==
    LET at == {i \in DOMAIN roster : roster[i].handle = info.handle}
    IN IF at = {} THEN Append(roster, info) ELSE [roster EXCEPT ![Min(at)] = info]

\* Lists of other sessions are dropped unless a live agent owns the key.
KeptKeys(list, sel) ==
    {sel} \cup UNION {{list[i].handle, list[i].session} :
                         i \in {j \in DOMAIN list : IsLiveManagedStatus(list[j].status)}}
Pruned(map, list, sel) == [k \in Keys |-> IF k \in KeptKeys(list, sel) THEN map[k] ELSE <<>>]

SettleAll(map, hs) == [k \in Keys |-> SettleLifecycle(map[k], hs)]

HandlesWith(list, statuses) == {list[i].handle : i \in {j \in DOMAIN list : list[j].status \in statuses}}

\* One refill for each live handle, again only after it was not live.
RefillEffect(list) ==
    LET reset == HandlesWith(list, Terminal \cup {"starting", "stopping"})
        asks  == {i \in DOMAIN list : IsLiveManagedStatus(list[i].status)
                                       /\ list[i].handle \notin refilled \ reset}
    IN /\ refilled' = (refilled \ reset) \cup {list[i].handle : i \in asks}
       /\ lists' = lists \cup {[handle |-> list[i].handle, session |-> list[i].session,
                                answer |-> << >>] : i \in asks}

ManagedEffects(list) ==
    /\ live' = SettleAll(Pruned(live, list, selected), HandlesWith(list, Terminal))
    /\ commands' = Pruned(commands, list, selected)
    /\ RefillEffect(list)

StatusArrives ==
    /\ NextEvent("status")
    /\ LET e    == script[got + 1]
           list == Upserted([handle |-> e.handle, status |-> e.u.status, session |-> e.session])
       IN /\ roster' = list
          /\ IF list = roster THEN UNCHANGED <<live, commands, refilled, lists>>
             ELSE ManagedEffects(list)
    /\ Arrived
    /\ UNCHANGED <<buf, rs, pending, permissions, history, left>>

RemoveManagedOnly(h) ==
    /\ left.moves > 0
    /\ roster' = SelectSeq(roster, LAMBDA a : a.handle # h)
    /\ live' = Pruned(SettleAll(live, {h}), roster', selected)
    /\ refilled' = refilled \ {h}
    /\ permissions' = {p \in permissions : p.handle # h}
    /\ commands' = Pruned(commands, roster', selected)
    /\ left' = [left EXCEPT !.moves = @ - 1, !.gone = @ \cup {[handle |-> h, at |-> got]}]
    /\ UNCHANGED <<buf, rs, lists, pending, host, history>>

\* removeManaged: the handle, its running lifecycle, its requests.
RemoveManaged(h) ==
    /\ left.moves > 0
    /\ roster' = SelectSeq(roster, LAMBDA a : a.handle # h)
    /\ live' = Pruned(SettleAll(live, {h}), roster', selected)
    /\ refilled' = refilled \ {h}
    /\ pending' = {p \in pending : p.handle # h}
    /\ permissions' = {p \in permissions : p.handle # h}
    /\ commands' = Pruned(commands, roster', selected)
    /\ left' = [left EXCEPT !.moves = @ - 1, !.gone = @ \cup {[handle |-> h, at |-> got]}]
    /\ UNCHANGED <<buf, rs, lists, host, history>>

\* list_running and task/list: answered by the agent as it is then, applied
\* when both answers are back, in a fresh reducer state.
ListsAnswered(r, subsFailed, tasksFailed) ==
    /\ r \in lists /\ r.answer = << >>
    /\ lists' = (lists \ {r}) \cup
                {[r EXCEPT !.answer = [subs |-> ListedSubs(sent, r.handle), subsFailed |-> subsFailed,
                                       tasks |-> ListedTasks(sent, r.handle), tasksFailed |-> tasksFailed]]}
    /\ UNCHANGED <<roster, refilled, host, cards, chrome, history, left>>

ListedInput(d, handle) == [desc |-> d, own |-> handle, ev |-> 0, ts |-> sent, disk |-> FALSE, uid |-> << >>]
Fold(list, descriptions, handle) ==
    LET upto[n \in 0..Len(descriptions)] ==
            IF n = 0 THEN [list |-> list, rs |-> NewReducerState]
            ELSE ReduceAgentUpdate(upto[n - 1].list, ListedInput(descriptions[n], handle), upto[n - 1].rs)
    IN upto[Len(descriptions)].list

ListsApplied(r) ==
    /\ r \in lists /\ r.answer # << >>
    /\ lists' = lists \ {r}
    /\ live' = [live EXCEPT ![r.session] = Fold(@, Reconcile(@, r.answer), r.handle)]
    /\ UNCHANGED <<buf, rs, roster, refilled, host, chrome, history, left>>

----------------------------------------------------------------------------
(* The stream (agent-update, agent-notification, agent-shell,              *)
(* agent-prompt-complete) and the reverse requests.                        *)

Input(e, ts) == [desc |-> Describe(e.u), own |-> e.handle, ev |-> got + 1, ts |-> ts,
                 disk |-> FALSE, uid |-> << >>]
Reduced(e, ts) == Schedule(KeyOf(e), ReduceAgentUpdate(Source[KeyOf(e)], Input(e, ts), rs[KeyOf(e)]))

\* Commands are kept even when nothing is shown; shells come by their own
\* channel.
UpdateArrives ==
    /\ NextEvent("update")
    /\ LET e == script[got + 1]
           d == Describe(e.u)
       IN \/ /\ d.kind = "commands"
             /\ commands' = [k \in Keys |-> IF k \in {e.session, e.handle} THEN d.text ELSE commands[k]]
             /\ UNCHANGED cards
          \/ /\ d.kind # "commands"
             /\ ShouldDrop(d) \/ d.shell
             /\ UNCHANGED <<cards, commands>>
          \/ /\ ~ShouldDrop(d) /\ ~d.shell
             /\ Reduced(e, got + 1)
             /\ UNCHANGED commands
    /\ Arrived
    /\ UNCHANGED <<pending, permissions, agents, history, left>>

\* A notification opens or closes a pending interaction, or is a card whose
\* time is that of its arrival.
NotificationArrives ==
    /\ NextEvent("note")
    /\ LET e == script[got + 1]
       IN \/ /\ IsPendingInteraction(e.u)
             /\ LET others == {p \in pending : p.id # e.u.id}
                IN pending' = IF e.u.type = "interaction_resolved" THEN others
                              ELSE IF e.session = "" THEN pending
                              ELSE others \cup {[id |-> e.u.id, session |-> e.session, handle |-> e.handle]}
             /\ UNCHANGED cards
          \/ /\ ~IsPendingInteraction(e.u)
             /\ IF ShouldDrop(Describe(e.u)) THEN UNCHANGED cards ELSE Reduced(e, sent)
             /\ UNCHANGED pending
    /\ Arrived
    /\ UNCHANGED <<permissions, commands, agents, history, left>>

ShellArrives ==
    /\ NextEvent("shell")
    /\ LET e == script[got + 1]
           k == KeyOf(e)
           entry == [id |-> e.u.id, own |-> e.handle, text |-> e.text, delta |-> e.delta,
                     status |-> e.u.status, ts |-> got + 1]
       IN Schedule(k, ReduceShellUpdate(Source[k], entry, rs[k], MaxLive))
    /\ Arrived
    /\ UNCHANGED <<chrome, agents, history, left>>

PromptCompleteOfSession ==
    /\ NextEvent("done")
    /\ LET e   == script[got + 1]
           out == [Source EXCEPT ![KeyOf(e)] = SettleStreaming(@, e.handle)]
       IN buf' = IF out = Source THEN buf ELSE out
    /\ Arrived
    /\ UNCHANGED <<live, rs, chrome, agents, history, left>>

\* The turn is over: no card of the handle streams any more, in any list.
PromptCompleteArrives ==
    /\ NextEvent("done")
    /\ LET h   == script[got + 1].handle
           out == [k \in Keys |-> SettleStreaming(Source[k], h)]
       IN buf' = IF out = Source THEN buf ELSE out
    /\ Arrived
    /\ UNCHANGED <<live, rs, chrome, agents, history, left>>

PermissionArrives ==
    /\ NextEvent("permission")
    /\ LET e == script[got + 1]
       IN permissions' = permissions \cup {[id |-> e.u.id, session |-> e.session, handle |-> e.handle]}
    /\ Arrived
    /\ UNCHANGED <<pending, commands, cards, agents, history, left>>

PermissionResolvedArrives ==
    /\ NextEvent("resolved")
    /\ permissions' = {p \in permissions : p.id # script[got + 1].u.id}
    /\ Arrived
    /\ UNCHANGED <<pending, commands, cards, agents, history, left>>

----------------------------------------------------------------------------
(* What the user does to the cards.                                        *)

\* A local slash command: the command as a card of the user and its answer
\* go straight to the committed map.
LocalCard(n, kind) ==
    [BlankCard EXCEPT !.uid = <<"local", left.locals, n>>, !.kind = kind, !.ts = sent]
AppendLocalLive(answer) ==
    /\ left.locals > 0
    /\ live' = [live EXCEPT ![selected] = @ \o <<LocalCard(1, "user"), LocalCard(2, answer)>>]
    /\ left' = [left EXCEPT !.locals = @ - 1]
    /\ UNCHANGED <<buf, rs, host, agents, chrome, history>>

RunningCards(kind) ==
    UNION {{<<k, live[k][i].own, live[k][i].id>> :
                i \in {j \in DOMAIN live[k] : live[k][j].kind = kind /\ live[k][j].pay.status = "running"}}
           : k \in Keys}

\* The answer to a cancel or a kill of a card shown as running.
CancelAnswered(outcome) ==
    \E c \in RunningCards("subagent") :
        /\ left.kills > 0
        /\ live' = [k \in Keys |-> ApplyCancel(live[k], c[2], c[3], outcome)]
        /\ left' = [left EXCEPT !.kills = @ - 1]
        /\ UNCHANGED <<buf, rs, host, agents, chrome, history>>
KillAnswered(outcome) ==
    \E c \in RunningCards("task") :
        /\ left.kills > 0
        /\ live' = [k \in Keys |-> ApplyKill(live[k], c[2], c[3], outcome)]
        /\ left' = [left EXCEPT !.kills = @ - 1]
        /\ UNCHANGED <<buf, rs, host, agents, chrome, history>>

----------------------------------------------------------------------------
(* The log on disk (useTimelineHistory, refreshDetail).                    *)

\* Length and first, middle and last identity of a page.
Fingerprint(us) ==
    IF us = <<>> THEN <<0>>
    ELSE <<Len(us), us[1].ev, us[(Len(us) \div 2) + 1].ev, us[Len(us)].ev>>

\* Entries keep their first place; a repeated one is not added again.
MergeUpdatePages(a, b) ==
    LET known == {a[i].ev : i \in DOMAIN a}
    IN a \o Only(b, {e \in ToSet(b) : e.ev \notin known})

\* managedForSession: the first of the map, whatever its status.
ManagedForSession(s) ==
    LET at == {i \in DOMAIN roster : roster[i].session = s}
    IN IF at = {} THEN [handle |-> "none", status |-> "none", session |-> s] ELSE roster[Min(at)]
LiveOwnsTail(s) == IsLiveManagedStatus(ManagedForSession(s).status)

\* The first page of a visit is hydrated; after that only when no live
\* agent owns the tail.
HydrateAnyTail(h, fps, sel) ==
    IF h.session # sel \/ (fps.session = sel /\ fps.fp = Fingerprint(h.updates))
    THEN hydratedFp' = fps /\ UNCHANGED live
    ELSE /\ hydratedFp' = [session |-> sel, fp |-> Fingerprint(h.updates)]
         /\ live' = [live EXCEPT ![sel] = MergeDiskLive(@, Hydrate(h.updates))]
HydrateEffect(h, fps, sel) ==
    IF \/ h.session # sel
       \/ fps.session = sel /\ fps.fp = Fingerprint(h.updates)
       \/ fps.session = sel /\ LiveOwnsTail(sel)
    THEN hydratedFp' = fps /\ UNCHANGED live
    ELSE /\ hydratedFp' = [session |-> sel, fp |-> Fingerprint(h.updates)]
         /\ live' = [live EXCEPT ![sel] = MergeDiskLive(@, Hydrate(h.updates))]

\* The tail page folded into what was loaded; a page with the fingerprint
\* already known changes nothing.
Folded(d) ==
    LET next == IF hist.session = d.session
                THEN [hist EXCEPT !.updates = MergeUpdatePages(@, d.updates)] ELSE d
    IN IF hist.session = d.session /\ Fingerprint(next.updates) = Fingerprint(hist.updates)
       THEN hist ELSE next

\* getSessionDetail is read on the host when it is asked; a later question
\* replaces an unanswered one, and an answer for another session is dropped.
DetailAsked ==
    /\ LET log == Logged(sent, selected)
           d   == [session |-> selected, updates |-> PageBefore(log, Len(log)),
                   cursor |-> PageCursor(Len(log)), more |-> PageCursor(Len(log)) > 0]
       IN poll # d /\ detail # d /\ poll' = d
    /\ left.polls > 0
    /\ left' = [left EXCEPT !.polls = @ - 1]
    /\ UNCHANGED <<selected, detail, hist, hydratedFp, older, host, cards, agents, chrome>>

DetailAnswered ==
    /\ poll # None
    /\ poll' = None
    /\ IF poll.session # selected THEN UNCHANGED <<detail, hist, hydratedFp, live>>
       ELSE /\ detail' = poll
            /\ hist' = Folded(poll)
            /\ HydrateEffect(hist', hydratedFp, selected)
    /\ UNCHANGED <<selected, older, buf, rs, host, agents, chrome, left>>

\* Leaving a session forgets what was hydrated; the detail of the session
\* come back to may still be there.
SelectSession(s) ==
    /\ s # selected
    /\ left.moves > 0
    /\ selected' = s
    /\ left' = [left EXCEPT !.moves = @ - 1]
    /\ hist' = IF detail.session = s THEN Folded(detail) ELSE hist
    /\ LET pruned == Pruned(live, roster, s)
           fresh  == [session |-> "none", fp |-> <<0>>]
       IN IF hist'.session = s
          THEN /\ hydratedFp' = [session |-> s, fp |-> Fingerprint(hist'.updates)]
               /\ live' = [pruned EXCEPT ![s] = MergeDiskLive(@, Hydrate(hist'.updates))]
          ELSE hydratedFp' = fresh /\ live' = pruned
    /\ commands' = Pruned(commands, roster, s)
    /\ UNCHANGED <<poll, detail, older, buf, rs, host, agents, pending, permissions>>

\* loadOlder: the page before the cursor, read when it is asked for.
LoadOlder ==
    /\ left.older > 0
    /\ hist.session = selected /\ hist.more /\ older = None
    /\ older' = [session |-> selected, cursor |-> hist.cursor,
                 updates |-> PageBefore(Logged(sent, selected), hist.cursor)]
    /\ left' = [left EXCEPT !.older = @ - 1]
    /\ UNCHANGED <<selected, poll, detail, hist, hydratedFp, host, cards, agents, chrome>>

\* The page is merged when the cursor is still the one it was asked for.
\* The merge runs in a state updater: React may run it at once, and then
\* the handler hydrates, or only at the next render, after the handler
\* looked at its result.  Then the hydrate effect decides.
OlderAppended ==
    [session |-> hist.session, updates |-> MergeUpdatePages(hist.updates, older.updates),
     cursor |-> PageCursor(older.cursor), more |-> PageCursor(older.cursor) > 0]
OlderMerged ==
    [session |-> hist.session, updates |-> MergeUpdatePages(older.updates, hist.updates),
     cursor |-> PageCursor(older.cursor), more |-> PageCursor(older.cursor) > 0]

OlderAnswered(eager) ==
    /\ older # None
    /\ older' = None
    /\ IF hist.session # older.session \/ hist.cursor # older.cursor
       THEN UNCHANGED <<hist, hydratedFp, live>>
       ELSE /\ hist' = OlderMerged
            /\ IF eager
               THEN /\ hydratedFp' = [session |-> hist.session, fp |-> Fingerprint(hist'.updates)]
                    /\ live' = [live EXCEPT ![hist.session] = MergeDiskLive(@, Hydrate(hist'.updates))]
               ELSE HydrateEffect(hist', hydratedFp, selected)
    /\ UNCHANGED <<selected, poll, detail, buf, rs, host, agents, chrome, left>>

----------------------------------------------------------------------------
(* What the list of tasks shows.                                           *)

\* One projection of permissions and pending interactions, for the list.
NeedsInput == {p.session : p \in permissions} \cup {p.session : p \in pending}

----------------------------------------------------------------------------
Init ==
    /\ \E r \in Scripts : script = r.events /\ roster = r.roster /\ left = r.left
    /\ sent = 0 /\ got = 0
    /\ live = NoCards /\ buf = NoBuf
    /\ rs = [k \in Keys |-> NewReducerState]
    /\ refilled = HandlesWith(roster, {"ready", "running", "awaitingPermission"}) /\ lists = {}
    /\ pending = {} /\ permissions = {}
    /\ commands = NoCards
    /\ selected \in Sessions
    /\ poll = None /\ detail = None /\ hist = None
    /\ hydratedFp = [session |-> "none", fp |-> <<0>>]
    /\ older = None

HostEmits ==
    /\ sent < Len(script)
    /\ sent - got < MaxLag
    /\ sent' = sent + 1
    /\ UNCHANGED <<script, got, cards, agents, chrome, history, left>>

Next ==
    \/ HostEmits
    \/ StatusArrives \/ UpdateArrives \/ NotificationArrives \/ ShellArrives
    \/ PromptCompleteArrives \/ PermissionArrives \/ PermissionResolvedArrives
    \/ FlushLive
    \/ \E answer \in {"event", "plan"} : AppendLocalLive(answer)
    \/ \E h \in Attached : RemoveManaged(h)
    \/ \E r \in lists : ListsApplied(r) \/ \E f, g \in BOOLEAN : ListsAnswered(r, f, g)
    \/ \E o \in {"cancelled", "already_finished", "not_found"} : CancelAnswered(o)
    \/ \E o \in {"killed", "already_exited", "not_found"} : KillAnswered(o)
    \/ DetailAsked \/ DetailAnswered
    \/ \E s \in Sessions : SelectSession(s)
    \/ LoadOlder \/ \E eager \in BOOLEAN : OlderAnswered(eager)

Spec == Init /\ [][Next]_vars

----------------------------------------------------------------------------
(* Properties.                                                             *)

IdentityKinds == {"tool", "shell", "subagent", "task"}

\* A tool call, a command, a subagent or a task is one card of its list,
\* however the stream, the shell channel, the notifications, the agent's
\* lists and the log on disk interleave.
OneCardPerIdentity ==
    \A map \in {live, Source} : \A k \in Keys : \A i, j \in DOMAIN map[k] :
        /\ i < j
        /\ map[k][i].kind \in IdentityKinds
        /\ map[k][i].id # ""
        => <<map[k][i].kind, map[k][i].id>> # <<map[k][j].kind, map[k][j].id>>

LastOf(h) == LET at == {p \in 1..got : script[p].handle = h} IN IF at = {} THEN 0 ELSE Max(at)

\* When a turn has ended and the frame is drawn, no card of the handle goes
\* on streaming, in whatever list its cards were put.
QuietNotStreaming ==
    \A h \in Handles :
        buf = NoBuf /\ LastOf(h) # 0 /\ script[Max({1, LastOf(h)})].ch = "done" =>
            \A k \in Keys : \A i \in DOMAIN live[k] :
                live[k][i].own = h => ~live[k][i].streaming

TextOf(list, h) ==
    FlattenSeq([i \in DOMAIN list |->
        IF list[i].own = h /\ list[i].kind \in {"user", "agent", "thought"} THEN list[i].text ELSE <<>>])
ChunksOf(h) ==
    FlattenSeq([p \in 1..got |->
        IF script[p].handle = h /\ script[p].ch = "update" /\ script[p].u.type \in TextUpdates
        THEN script[p].u.text ELSE <<>>])

\* What a live agent said is on its cards in the order it was said, nothing
\* missing and nothing twice: what came before its session was known, then
\* the rest; pages from disk, frames and local cards in between change
\* nothing.  (A list at its cap has dropped its oldest cards.)
ChunksDelivered ==
    \A i \in DOMAIN roster :
        LET h == roster[i].handle
            k == roster[i].session
        IN IsLiveManagedStatus(roster[i].status) /\ Len(Source[k]) < MaxLive
           => TextOf(Source[h], h) \o TextOf(Source[k], h) = ChunksOf(h)

\* The raw pages are a piece of the log in the order of the log, and begin
\* where the cursor says, also when an older page is answered after the
\* user has left and come back.
HistoryInOrder ==
    hist # None =>
        LET log == Logged(sent, hist.session)
        IN /\ \A i, j \in DOMAIN hist.updates : i < j => hist.updates[i].ev < hist.updates[j].ev
           /\ hist.cursor > 0 => hist.updates[1] = log[hist.cursor + 1]

\* The requests of a session still open on the wire, of handles not removed
\* since.
OpenRequest(p) ==
    /\ \/ script[p].ch = "permission"
       \/ script[p].ch = "note" /\ IsPendingInteraction(script[p].u)
                                /\ script[p].u.type = "pending_interaction"
    /\ ~\E q \in p+1..got :
            /\ script[q].u.id = script[p].u.id
            /\ IF script[p].ch = "permission" THEN script[q].ch = "resolved"
               ELSE script[q].ch = "note" /\ IsPendingInteraction(script[q].u)
                                         /\ script[q].u.type = "interaction_resolved"
    /\ ~\E g \in left.gone : g.handle = script[p].handle /\ g.at >= p

\* A session is listed as needing input exactly while a permission or an
\* interaction of it is open, or its handle says so.
NeedsInputIffAsked ==
    \A s \in Sessions :
        LET st == ManagedForSession(s).status
            asked == \/ st = "awaitingPermission"
                     \/ \E p \in 1..got : script[p].session = s /\ OpenRequest(p)
        IN /\ asked <=> ResolveCardState(st, FALSE, s \in NeedsInput) = "awaiting"
           /\ asked <=> RankManagedCard(st, FALSE, s \in NeedsInput) = 1
=============================================================================
