---------------------------- MODULE TimelineView ----------------------------
(***************************************************************************)
(* What the window shows of the selected session: the cards of its two     *)
(* lists, those of nested sessions drawn into them                         *)
(* (projectNestedLifecycleItems), and the line above the prompt.           *)
(***************************************************************************)
EXTENDS Transcript

\* projectNestedLifecycleItems: breadth first from the root session through
\* its subagents' sessions; of a nested session only lifecycle cards show,
\* each card once, a subagent with the depth it was reached at.
CardKey(c) == IF c.kind \in {"subagent", "task"} /\ c.id # "" THEN <<c.kind, c.id>>
              ELSE <<"item", c.uid>>

Shown(acc, card, depth, root) ==
    IF (~root /\ card.kind \notin {"subagent", "task"}) \/ CardKey(card) \in acc.cards
    THEN acc
    ELSE [acc EXCEPT
            !.cards = @ \cup {CardKey(card)},
            !.out = Append(@, IF card.kind = "subagent"
                              THEN [card EXCEPT !.pay.depth = depth + 1] ELSE card)]

ChildSessions(items, depth) ==
    LET subs == SelectSeq(items, LAMBDA c : c.kind = "subagent")
    IN [i \in DOMAIN subs |-> [session |-> subs[i].id, depth |-> depth + 1]]

RECURSIVE Walk(_, _, _)
Walk(queue, acc, bySession) ==
    IF queue = <<>> THEN acc.out
    ELSE LET cur   == Head(queue)
             root  == cur.depth = 0
             items == IF root THEN acc.root
                      ELSE IF cur.session \in DOMAIN bySession THEN bySession[cur.session] ELSE <<>>
             next  == FoldLeft(LAMBDA a, c : Shown(a, c, cur.depth, root), acc, items)
         IN IF cur.session \in acc.sessions THEN Walk(Tail(queue), acc, bySession)
            ELSE Walk(Tail(queue) \o ChildSessions(items, cur.depth),
                      [next EXCEPT !.sessions = @ \cup {cur.session}], bySession)

ProjectNested(session, rootItems, bySession) ==
    SortedByTs(Walk(<<[session |-> session, depth |-> 0]>>,
                    [out |-> <<>>, cards |-> {}, sessions |-> {}, root |-> rootItems],
                    bySession))

TimelineItems ==
    LET own      == ManagedForSession(selected).handle
        byHandle == IF own \in Keys THEN live[own] ELSE <<>>
        root     == IF byHandle = <<>> THEN live[selected]
                    ELSE MergeTimelineItems(byHandle, live[selected])
    IN ProjectNested(selected, root, live)

----------------------------------------------------------------------------
\* The line above the prompt follows the stream alone: a tail of the log
\* read by the poll, older than what was streamed, does not take it back to
\* a tool that is over or to a model that is no longer waited for.
Line == ResolveTurnActivity(ManagedForSession(selected).status, TimelineItems, FALSE)
LineKept ==
    [][poll # None /\ poll' = None /\ hydratedFp.session = selected /\ selected' = selected
       => Line' = Line]_vars
=============================================================================
