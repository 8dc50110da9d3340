--------------------------- MODULE TimelineCards ---------------------------
(***************************************************************************)
(* The cards of a timeline and the reducers that build them                *)
(* (hooks/liveTimeline.ts, hooks/timelineIdentity.ts).  The same reducers  *)
(* serve the live stream, the shell channel and the log on disk; the two   *)
(* sources meet in MergeTimelineItems.                                     *)
(*                                                                         *)
(* A list of cards belongs to a key: the session, or the handle while the  *)
(* session is not known.  Everything here is a pure operator on one list   *)
(* and the reducer state.  Each operator returns a record with both.       *)
(***************************************************************************)
EXTENDS WireUpdates, Selections

CONSTANTS
    MaxLive,        \* MAX_LIVE_ITEMS, 400 in the code
    MaxHistory      \* MAX_HISTORY_ITEMS, 1200 in the code

ASSUME TimelineCaps == MaxLive \in Nat /\ MaxHistory \in Nat

Disk == "disk"      \* owner of the cards built from updates.jsonl
Local == "local"    \* owner of the cards of host-side slash commands

\* uid is the card's React id, ev the event it mirrors (0: none), own the
\* handle that made it, pay the payload of a lifecycle card.
BlankCard ==
    [uid |-> << >>, kind |-> "event", id |-> "", own |-> Local, ev |-> 0,
     ts |-> 0, streaming |-> FALSE, title |-> "", text |-> <<>>, base |-> "",
     status |-> "", edit |-> FALSE, pay |-> << >>]

\* shellIx caches the position of shell cards, suppressed holds the hidden
\* tool calls still open, goals the goals already announced.
NewReducerState == [shellIx |-> << >>, suppressed |-> {}, goals |-> {}]

IsTerminalTool(status) == status \in {"completed", "failed"}

\* Position of the first card of that kind and identifier, 0 when none.
FindCard(list, kind, id) ==
    LET at == {i \in DOMAIN list : list[i].kind = kind /\ list[i].id = id}
    IN IF at = {} THEN 0 ELSE Min(at)

----------------------------------------------------------------------------
(* Settling and bounds.                                                    *)

\* settleStreamingItems for one handle.
SettleStreaming(list, handle) ==
    [i \in DOMAIN list |->
        IF list[i].own = handle THEN [list[i] EXCEPT !.streaming = FALSE] ELSE list[i]]

\* trimLiveList: the oldest cards go, and with them the positions cached.
Trim(list, rs, max) ==
    IF Len(list) <= max THEN [list |-> list, rs |-> rs]
    ELSE [list |-> SubSeq(list, Len(list) - max + 1, Len(list)),
          rs   |-> [rs EXCEPT !.shellIx = << >>]]

RetentionMax(disk) == IF disk THEN MaxHistory ELSE MaxLive

----------------------------------------------------------------------------
(* reduceAgentUpdate.  in: the description, the owner, the event id, the   *)
(* time, whether it comes from disk, and the fallback id of the card.      *)

\* The duration shown on a finished turn: from the last user card to now.
Enriched(d, list, now) ==
    LET users == {i \in DOMAIN list : list[i].kind = "user" /\ list[i].ts > 0}
        since == IF users = {} THEN 0 ELSE list[Max(users)].ts
        elapsed == IF since > 0 /\ now > since THEN now - since ELSE 0
    IN IF d.stop = "" THEN d
       ELSE [d EXCEPT !.title = FormatTurnCompletedTitle(d.stop, elapsed)]

\* A hidden tool: its call is suppressed until it ends, and the card it may
\* already have is taken out.
HiddenTool(list, d, rs) ==
    LET at  == FindCard(list, "tool", d.id)
        ids == IF IsTerminalTool(d.status) THEN rs.suppressed \ {d.id}
               ELSE rs.suppressed \cup {d.id}
    IN IF at = 0 THEN [list |-> list, rs |-> [rs EXCEPT !.suppressed = ids]]
       ELSE [list |-> RemoveAt(list, at),
             rs   |-> [rs EXCEPT !.suppressed = ids, !.shellIx = << >>]]

\* A later update of a suppressed call: nothing but the end of the call.
SuppressedTool(list, d, rs) ==
    [list |-> list,
     rs   |-> IF IsTerminalTool(d.status)
              THEN [rs EXCEPT !.suppressed = @ \ {d.id}] ELSE rs]

CoalescesAnyOwner(list, d, handle) ==
    /\ IsTextUpdate(d)
    /\ list # <<>>
    /\ Last(list).kind = d.kind

\* Text grows the last card when it is of the same kind and owner.
Coalesces(list, d, handle) ==
    /\ IsTextUpdate(d)
    /\ list # <<>>
    /\ Last(list).kind = d.kind
    /\ Last(list).own = handle

Grown(card, in) ==
    [card EXCEPT !.ev = IF in.ev # 0 THEN in.ev ELSE @, !.text = @ \o in.desc.text,
                 !.ts = in.ts, !.streaming = ~in.disk]

\* An update of a tool call whose card is there, whoever owns the card.
MergedTool(card, in) ==
    LET d == in.desc
        base == MergeToolBase(card.base, d.base)
    IN [card EXCEPT !.uid = <<"tool", d.id>>, !.ev = IF in.ev # 0 THEN in.ev ELSE @,
                    !.title = base, !.base = base,
                    !.text = MergeToolDetail(@, d.text),
                    !.status = MergeToolStatus(@, d.status),
                    !.edit = IF d.text # <<>> THEN d.edit ELSE @, !.ts = in.ts]

\* The card of a subagent or a task: its payload is merged, the rest is
\* written again.
LifecycleCard(prev, in) ==
    LET d == in.desc
        pay == IF d.kind = "subagent" THEN MergeSubagentPayload(prev.pay, d.patch)
                                      ELSE MergeBgTaskPayload(prev.pay, d.patch)
    IN [prev EXCEPT !.uid = <<d.kind, d.id>>, !.kind = d.kind, !.id = d.id,
                    !.own = in.own, !.pay = pay, !.status = pay.status, !.ts = in.ts,
                    !.ev = IF in.ev # 0 THEN in.ev ELSE @, !.streaming = FALSE]

NewCard(in) ==
    LET d == in.desc
    IN [BlankCard EXCEPT
            !.uid = IF d.kind = "tool" /\ d.id # "" THEN <<"tool", d.id>>
                    ELSE IF in.ev # 0 THEN <<"event", in.ev>> ELSE in.uid,
            !.kind = d.kind, !.id = d.id, !.own = in.own, !.ev = in.ev, !.ts = in.ts,
            !.streaming = IsTextUpdate(d) /\ ~in.disk, !.title = d.title,
            !.text = d.text, !.base = d.base, !.status = d.status, !.edit = d.edit]

\* upsertTimelineItem: in place, or at the end and trimmed.
Upsert(list, at, card, rs, max) ==
    IF at > 0 THEN [list |-> [list EXCEPT ![at] = card], rs |-> rs]
    ELSE Trim(Append(list, card), rs, max)

ReduceAgentUpdate(list0, in, rs) ==
    LET d    == Enriched(in.desc, list0, in.ts)
        i    == [in EXCEPT !.desc = d]
        list == IF IsTextUpdate(d) THEN list0 ELSE SettleStreaming(list0, in.own)
        at   == FindCard(list, d.kind, d.id)
        told == [rs EXCEPT !.goals = IF d.goal = "" THEN @ ELSE @ \cup {d.goal}]
        max  == RetentionMax(in.disk)
        isTool == d.kind = "tool" /\ d.id # ""
    IN CASE d.goal # "" /\ d.goal \in rs.goals -> [list |-> list0, rs |-> rs]
         [] isTool /\ d.hidden -> HiddenTool(list, d, rs)
         [] isTool /\ ~d.hidden /\ d.id \in rs.suppressed -> SuppressedTool(list, d, rs)
         [] Coalesces(list, d, in.own) ->
                [list |-> [list EXCEPT ![Len(list)] = Grown(@, i)], rs |-> rs]
         [] isTool /\ ~d.hidden /\ d.id \notin rs.suppressed /\ at > 0 ->
                [list |-> [list EXCEPT ![at] = MergedTool(@, i)], rs |-> rs]
         [] d.kind \in {"subagent", "task"} /\ d.id # "" ->
                Upsert(list, at,
                       LifecycleCard(IF at > 0 THEN list[at] ELSE BlankCard, i), rs, max)
         [] OTHER -> Trim(Append(list, NewCard(i)), told, max)

----------------------------------------------------------------------------
(* reduceShellUpdate.  e: tool call, owner, output, whether the output is  *)
(* what was added since the last entry, status and time.                   *)

\* The cached position counts only when the card is still there.
ShellAt(list, rs, id) ==
    LET cached == IF id \in DOMAIN rs.shellIx THEN rs.shellIx[id] ELSE 0
    IN IF cached \in DOMAIN list /\ list[cached].kind = "shell" /\ list[cached].id = id
       THEN cached ELSE FindCard(list, "shell", id)

\* An increment is appended; a whole output replaces a shorter one only.
ShellOutput(old, e) ==
    IF e.delta THEN old \o e.text
    ELSE IF Len(e.text) >= Len(old) THEN e.text ELSE old

ShellCard(e) ==
    [BlankCard EXCEPT !.uid = <<"shell", e.id>>, !.kind = "shell", !.id = e.id,
                      !.own = e.own, !.ts = e.ts, !.text = e.text, !.status = e.status]

ShellPositions(list) ==
    LET at == {i \in DOMAIN list : list[i].kind = "shell"}
    IN [id \in {list[i].id : i \in at} |-> Max({i \in at : list[i].id = id})]

\* An entry that changes nothing leaves the map as it is.
ReduceShellUpdate(list, e, rs, max) ==
    LET at  == ShellAt(list, rs, e.id)
        out == ShellOutput(list[at].text, e)
        new == IF at > 0 THEN [list EXCEPT ![at].text = out, ![at].status = e.status, ![at].ts = e.ts]
               ELSE Append(list, ShellCard(e))
        ix  == (e.id :> (IF at > 0 THEN at ELSE Len(new))) @@ rs.shellIx
        cut == Trim(new, [rs EXCEPT !.shellIx = ix], max)
    IN IF at > 0 /\ out = list[at].text /\ e.status = list[at].status
       THEN [list |-> list, rs |-> rs]
       ELSE [cut EXCEPT !.rs.shellIx = IF @ = << >> THEN ShellPositions(cut.list) ELSE @]

----------------------------------------------------------------------------
(* The log on disk (hydrateLiveFromDiskUpdates).  An entry of the log is a *)
(* wire update with its event id and its timestamp.                        *)

\* A shell update on disk carries its whole output so far and its status;
\* without a tool call it is an ordinary card.
DiskShell(entry) ==
    [id |-> entry.u.id, own |-> Disk, text |-> entry.u.text, delta |-> FALSE,
     status |-> IF entry.u.status = "" THEN "in_progress" ELSE entry.u.status,
     ts |-> entry.ts]

HydrateStep(acc, entry) ==
    LET d == Describe(entry.u)
        in == [desc |-> d, own |-> Disk, ev |-> entry.ev, ts |-> entry.ts,
               disk |-> TRUE, uid |-> <<"disk", entry.ts>>]
    IN IF ShouldDrop(d) THEN acc
       ELSE IF d.shell /\ d.id # "" THEN ReduceShellUpdate(acc.list, DiskShell(entry), acc.rs, MaxHistory)
       ELSE ReduceAgentUpdate(acc.list, in, acc.rs)

Hydrate(log) ==
    LET upto[n \in 0..Len(log)] ==
            IF n = 0 THEN [list |-> <<>>, rs |-> NewReducerState]
            ELSE HydrateStep(upto[n - 1], log[n])
    IN upto[Len(log)].list

----------------------------------------------------------------------------
(* Merging sources (mergeTimelineItems, mergeDiskLiveIntoMap).             *)

MirrorKeyByEvent(c) == IF c.ev # 0 THEN <<"event", c.ev>> ELSE << >>

\* timelineMirrorKey: what two copies of one card have in common; << >> for
\* a card that mirrors nothing.
MirrorKey(c) ==
    CASE c.kind \in {"tool", "shell", "subagent", "task"} /\ c.id # "" -> <<c.kind, c.id>>
      [] (c.kind \notin {"tool", "shell", "subagent", "task"} \/ c.id = "") /\ c.ev # 0 ->
            <<"event", c.ev>>
      [] OTHER -> << >>

\* Copies of one notification: the live one is kept.  Otherwise the fresher
\* wins, and the live one of two of the same age.
Prefers(candidate, current) ==
    LET live == candidate.own # Disk /\ current.own = Disk
    IN IF candidate.ev # 0 /\ candidate.ev = current.ev THEN live
       ELSE candidate.ts > current.ts \/ (candidate.ts = current.ts /\ live)

\* A copy takes the place of the one it replaces.
MergeStep(merged, card) ==
    LET at == {i \in DOMAIN merged : MirrorKey(merged[i]) = MirrorKey(card)}
    IN IF MirrorKey(card) = << >> \/ at = {} THEN Append(merged, card)
       ELSE IF Prefers(card, merged[Min(at)]) THEN [merged EXCEPT ![Min(at)] = card]
       ELSE merged

Merged(cards) ==
    LET upto[n \in 0..Len(cards)] == IF n = 0 THEN <<>> ELSE MergeStep(upto[n - 1], cards[n])
    IN upto[Len(cards)]

\* Array.prototype.sort is stable: a card comes after those before it.
Before(list, i) == {j \in DOMAIN list : list[j].ts < list[i].ts \/ (list[j].ts = list[i].ts /\ j < i)}
SortedByTs(list) ==
    [n \in DOMAIN list |-> list[CHOOSE i \in DOMAIN list : Cardinality(Before(list, i)) = n - 1]]

MergeTimelineItems(older, newer) == SortedByTs(Merged(older \o newer))

\* timelineItemStableKey.
StableKey(c) == IF MirrorKey(c) = << >> THEN <<"id", c.uid>> ELSE MirrorKey(c)

\* timelineItemsContentEqual: field by field, and the payload of the kind.
ItemFields == {"uid", "ts", "kind", "title", "text", "own", "ev", "streaming", "id", "base", "status", "edit"}
SamePayload(a, b) == DOMAIN a = DOMAIN b /\ \A f \in DOMAIN a : a[f] = b[f]
ContentEqual(a, b) == (\A f \in ItemFields : a[f] = b[f]) /\ SamePayload(a.pay, b.pay)

\* stabilizeTimelineList: a card whose content has not changed is the card
\* shown before, so that its row is not drawn again.
Stabilized(previous, next) ==
    LET prior(c) == {i \in DOMAIN previous : StableKey(previous[i]) = StableKey(c)}
    IN [n \in DOMAIN next |->
            LET at == prior(next[n])
            IN IF at # {} /\ ContentEqual(previous[Max(at)], next[n]) THEN previous[Max(at)] ELSE next[n]]

\* The disk cards of a list are replaced by those of a new page; the cards
\* of handles and of local commands stay.
MergeDiskLive(list, diskItems) ==
    Stabilized(list, MergeTimelineItems(diskItems, Only(list, {c \in ToSet(list) : c.own # Disk})))
=============================================================================
