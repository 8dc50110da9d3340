---------------------------- MODULE WindowProofs ----------------------------
(***************************************************************************)
(* What holds beside the transcript for any tasks, folders, files, plans   *)
(* and calls under way: the sidebar's headers stay as the user left them,  *)
(* the detail shown is of the open task, the changes are of the project,   *)
(* the flags of the old storage are never lost, and a window that nothing  *)
(* disturbed ends up showing the store of pins, archive and names.         *)
(***************************************************************************)
EXTENDS ProjectRail, TaskList, GitPanel, TaskLabels, SelectionsProofs

-----------------------------------------------------------------------------
(* The headers.                                                            *)

\* A header is only remembered as closed while nothing is left to reveal: the
\* selection is the one revealed, or there is none.
RailInv ==
    /\ existing \subseteq Cards /\ page \subseteq Cards
    /\ asked = [closed |-> asked.closed, moved |-> asked.moved]
    /\ asked.closed # {} => current \in {revealedFor, NoCard}
    /\ CollapseSticks

\* A render that keeps the selection and is of tasks opens no header while one
\* is remembered as closed, and leaves the selection as revealed as it was.
LEMMA RenderKeepsClosed ==
    ASSUME RailInv, NEW loaded \in SUBSET Cards, NEW keys, NEW pinned, NEW archived, NEW headers,
           Render(loaded, keys, pinned, archived, current, headers)
    PROVE  /\ page' \subseteq Cards /\ current' = current
           /\ asked.closed # {} => current' \in {revealedFor', NoCard} /\ expanded' = headers
  BY RailCards DEF RailInv, Render, Settles, Reveals

\* The inductive invariant holds of the first state.
LEMMA RailInitially == RailInit => RailInv
  BY RailCards DEF RailInit, RailInv, CollapseSticks, Untouched

\* Every step preserves it.
LEMMA RailStep ==
    ASSUME RailInv, RailNext
    PROVE  RailInv'
<1>1. ASSUME NEW c \in Cards, TaskAppears(c) PROVE RailInv'
  BY <1>1 DEF TaskAppears, RailInv, CollapseSticks
<1>2. ASSUME NEW c \in Cards \cup {NoCard}, SelectCard(c) PROVE RailInv'
  BY <1>2 DEF SelectCard, Render, Untouched, RailInv, CollapseSticks
<1>3. ASSUME NEW c \in Cards, MoveToPinned(c) PROVE RailInv'
  <2>1. asked' = [closed |-> asked'.closed, moved |-> asked'.moved] /\ asked'.closed = asked.closed
    BY <1>3 DEF MoveToPinned, Moved, RailInv
  <2>2. page \in SUBSET Cards
    BY DEF RailInv
  <2>3. QED
    BY <1>3, <2>1, <2>2, RenderKeepsClosed DEF MoveToPinned, RailInv, CollapseSticks
<1>4. ASSUME NEW c \in Cards, MoveToArchive(c) PROVE RailInv'
  <2>1. asked' = [closed |-> asked'.closed, moved |-> asked'.moved] /\ asked'.closed = asked.closed
    BY <1>4 DEF MoveToArchive, Moved, RailInv
  <2>2. page \in SUBSET Cards
    BY DEF RailInv
  <2>3. QED
    BY <1>4, <2>1, <2>2, RenderKeepsClosed DEF MoveToArchive, RailInv, CollapseSticks
<1>5. CASE PageLoads
  BY <1>5, RenderKeepsClosed DEF PageLoads, RailInv, CollapseSticks
<1>6. CASE WalkServed
  BY <1>6 DEF WalkServed, RailInv, CollapseSticks
<1>7. CASE WalkAnswered
  BY <1>7, RenderKeepsClosed DEF WalkAnswered, RailInv, CollapseSticks
<1>8. CASE WalkFails
  BY <1>8 DEF WalkFails, RailInv, CollapseSticks
<1>9. CASE FlagsLoad
  BY <1>9, RenderKeepsClosed DEF FlagsLoad, RailInv, CollapseSticks
<1>10. CASE Relaunch
  BY <1>10 DEF Relaunch, Untouched, RailInv, CollapseSticks
<1>11. ASSUME NEW k \in Headers, ToggleHeader(k) PROVE RailInv'
  <2>1. /\ asked' = [closed |-> asked'.closed, moved |-> asked'.moved]
        /\ asked'.closed = IF k \in expanded /\ current \in {revealedFor, NoCard}
                           THEN asked.closed \cup {k} ELSE asked.closed \ {k}
    BY <1>11 DEF ToggleHeader, RailInv
  <2>2. page' \subseteq Cards /\ existing' \subseteq Cards /\ current' = current
    BY <1>11 DEF ToggleHeader, Render, RailInv
  <2>3. CASE current \in {revealedFor, NoCard}
    <3>1. expanded' = Toggled(expanded, k) /\ current' \in {revealedFor', NoCard}
      BY <1>11, <2>3, RailCards DEF ToggleHeader, Render, Settles, Reveals, RailInv
    <3>2. QED
      BY <2>1, <2>2, <3>1, <2>3 DEF RailInv, CollapseSticks, Toggled
  <2>4. CASE current \notin {revealedFor, NoCard}
    BY <2>1, <2>2, <2>4 DEF RailInv, CollapseSticks
  <2>5. QED
    BY <2>3, <2>4
<1>12. QED
  BY <1>1, <1>2, <1>3, <1>4, <1>5, <1>6, <1>7, <1>8, <1>9, <1>10, <1>11 DEF RailNext

\* The same for a step that changes nothing.
LEMMA RailStutter ==
    ASSUME RailInv, UNCHANGED <<railVars, left>>
    PROVE  RailInv'
  BY DEF RailInv, CollapseSticks, railVars

\* A header the user closed after the reveal stays closed, whichever pages,
\* indexes and flags load while the selection stays.
THEOREM ClosedStaysClosed == RailSpec => []CollapseSticks
<1>1. RailInit => RailInv
  BY RailInitially
<1>2. RailInv /\ [RailNext]_<<railVars, left>> => RailInv'
  BY RailStep, RailStutter
<1>3. RailInv => CollapseSticks
  BY DEF RailInv
<1>4. QED
  BY <1>1, <1>2, <1>3, PTL DEF RailSpec

-----------------------------------------------------------------------------
(* The open task.                                                          *)

\* A call; a detail read is of the task it was asked for.
CallOf(c) ==
    /\ c = [kind |-> c.kind, arg |-> c.arg, st |-> c.st, ans |-> c.ans, n |-> c.n]
    /\ c.st \in {"none", "ok", "error"}
    /\ c.kind = "detail" /\ c.st = "ok" => c.ans[1].id \in c.arg

Reads(cs, id) == \E c \in cs : c.kind = "detail" /\ c.arg = {id}

ListInv == (\A c \in calls : CallOf(c)) /\ DetailOfOpen

\* A call made now is one more call, and has no answer yet.
LEMMA CalledIs ==
    ASSUME NEW cs, NEW kind, NEW arg, \A c \in cs : CallOf(c)
    PROVE  /\ \A c \in Called(cs, kind, arg) : CallOf(c)
           /\ cs \subseteq Called(cs, kind, arg)
           /\ \E c \in Called(cs, kind, arg) : c.kind = kind /\ c.arg = arg
<1> DEFINE c == NewCall(cs, kind, arg)
<1>1. c.kind = kind /\ c.arg = arg /\ c.st = "none" /\ CallOf(c)
  BY DEF NewCall, CallOf
<1> HIDE DEF c
<1>2. Called(cs, kind, arg) = cs \cup {c}
  BY DEF Called, c
<1>3. QED
  BY <1>1, <1>2

\* Reading a detail stops the read under way, and no other call.
LEMMA AskDetailIs ==
    ASSUME NEW cs, NEW id, \A c \in cs : CallOf(c)
    PROVE  (\A c \in AskDetail(cs, id) : CallOf(c)) /\ Reads(AskDetail(cs, id), id)
<1>1. \A c \in Dropped(cs, "detail") : CallOf(c)
  BY DEF Dropped
<1>2. QED
  BY <1>1, CalledIs DEF AskDetail, Reads

\* The agents asked for, or the list read again, beside the calls there are.
LEMMA AskManagedIs ==
    ASSUME NEW cs, NEW list, \A c \in cs : CallOf(c)
    PROVE  (\A c \in AskManaged(cs, list) : CallOf(c)) /\ cs \subseteq AskManaged(cs, list)
<1> DEFINE n == Min((1..Cardinality(cs) + 1) \ {c.n : c \in cs})
           new == NewCall(cs, "managed", {})
           made == [new EXCEPT !.ans = list]
<1>1. new = [kind |-> "managed", arg |-> {}, st |-> "none", ans |-> <<>>, n |-> n]
  BY DEF NewCall
<1> HIDE DEF new, n
<1>2. made = [kind |-> "managed", arg |-> {}, st |-> "none", ans |-> list, n |-> n]
  <2>1. made = [[kind |-> "managed", arg |-> {}, st |-> "none", ans |-> <<>>, n |-> n] EXCEPT !.ans = list]
    BY <1>1
  <2> HIDE DEF made
  <2>2. QED
    BY <2>1
<1> HIDE DEF made
<1>3. CallOf(made)
  BY <1>2 DEF CallOf
<1>4. AskManaged(cs, list) = cs \cup {made}
  BY DEF AskManaged, made, new
<1>5. QED
  BY <1>3, <1>4

LEMMA RefreshedListIs ==
    ASSUME NEW cs, \A c \in cs : CallOf(c)
    PROVE  (\A c \in RefreshedList(cs) : CallOf(c)) /\ cs \subseteq RefreshedList(cs)
  BY CalledIs DEF RefreshedList

\* A call that is served stays the call of what it asks.
LEMMA AnswersIs ==
    ASSUME ListInv, NEW c \in calls, NEW st \in {"ok", "error"}, NEW ans, Answers(c, st, ans),
           c.kind = "detail" /\ st = "ok" => ans[1].id \in c.arg
    PROVE  /\ \A d \in calls' : CallOf(d)
           /\ \A id : Reads(calls, id) => Reads(calls', id)
<1> DEFINE e == [c EXCEPT !.st = st, !.ans = ans]
<1>1. PICK kind, arg, was, had, n : c = [kind |-> kind, arg |-> arg, st |-> was, ans |-> had, n |-> n]
  BY DEF ListInv, CallOf
<1>2. e = [kind |-> kind, arg |-> arg, st |-> st, ans |-> ans, n |-> n]
  <2>1. e = [[kind |-> kind, arg |-> arg, st |-> was, ans |-> had, n |-> n] EXCEPT !.st = st, !.ans = ans]
    BY <1>1
  <2> HIDE DEF e
  <2>2. QED
    BY <2>1
<1>3. e.kind = c.kind /\ e.arg = c.arg /\ CallOf(e)
  <2>1. c.kind = kind /\ c.arg = arg
    BY <1>1
  <2> HIDE DEF e
  <2>2. QED
    BY <1>2, <2>1 DEF CallOf
<1> HIDE DEF e
<1>4. calls' = (calls \ {c}) \cup {e}
  BY DEF Answers, e
<1>5. QED
  BY <1>3, <1>4 DEF ListInv, Reads

\* The host lists nothing but what it is asked for.
LEMMA HostCardsAre ==
    ASSUME NEW ids, HostCards(ids) # <<>>
    PROVE  HostCards(ids)[1].id \in ids
<1> DEFINE S == {id \in ids : disk[id] > 0}
           there == Only(Tasks, S)
<1>1. there \in Seq(Ids) /\ ToSet(there) = ToSet(Tasks) \cap S
  BY ListTasks, OnlyKeeps
<1>2. HostCards(ids) = [i \in DOMAIN there |-> CardOf(there[i])]
  BY DEF HostCards
<1> HIDE DEF there
<1>3. there # <<>>
  BY <1>2
<1>4. 1 \in DOMAIN there
  BY <1>1, <1>3
<1>5. there[1] \in ids
  BY <1>1, <1>4 DEF ToSet, S
<1>6. HostCards(ids)[1].id = there[1]
  BY <1>2, <1>4 DEF CardOf
<1>7. QED
  BY <1>5, <1>6

\* The cards drawn again: another task opened reads its detail, and the read of the one
\* that stays open goes on.
LEMMA ShowingIs ==
    ASSUME NEW cs, \A c \in cs : CallOf(c),
           NEW list, NEW found, NEW q, NEW task, Showing(list, found, q, task, cs)
    PROVE  /\ selected' = task
           /\ \A c \in calls' : CallOf(c)
           /\ task # selected /\ task # NoTask => Reads(calls', task)
           /\ task = selected => \A id : Reads(cs, id) => Reads(calls', id)
<1> DEFINE quiet == Dropped(cs, "usage")
<1>1. /\ \A c \in quiet : CallOf(c)
      /\ \A id : Reads(cs, id) => Reads(quiet, id)
  BY DEF Dropped, Reads
<1> HIDE DEF quiet
<1>2. /\ selected' = task
      /\ calls' = IF task # selected /\ task # NoTask THEN AskDetail(quiet, task) ELSE quiet
  BY DEF Showing, quiet
<1>3. QED
  BY <1>1, <1>2, AskDetailIs

\* A step that leaves the open task and its detail, and stops no read of it.
LEMMA OpenKept ==
    ASSUME ListInv, \A c \in calls' : CallOf(c), UNCHANGED <<selected, detail, detailFailed>>,
           Reads(calls, selected) => Reads(calls', selected)
    PROVE  ListInv'
  BY DEF ListInv, DetailOfOpen, OfKind, Reads

\* A step that opens a task: its detail is read; one that opens none shows no detail.
LEMMA OpenChanged ==
    ASSUME ListInv, NEW cs, NEW list, NEW found, NEW q, NEW task, Showing(list, found, q, task, cs),
           \A c \in cs : CallOf(c), Reads(calls, selected) => Reads(cs, selected),
           UNCHANGED detailFailed,
           Opened(task) \/ ((task = selected \/ task # NoTask) /\ UNCHANGED detail)
    PROVE  ListInv'
<1>1. /\ selected' = task /\ \A c \in calls' : CallOf(c)
      /\ task # selected /\ task # NoTask => Reads(calls', task)
      /\ task = selected => \A id : Reads(cs, id) => Reads(calls', id)
  BY ShowingIs
<1>2. CASE detail' = NoDetail
  BY <1>1, <1>2 DEF ListInv, DetailOfOpen
<1>3. CASE task # NoTask /\ task # selected
  BY <1>1, <1>3 DEF ListInv, DetailOfOpen, OfKind, Reads
<1>4. CASE task = selected /\ UNCHANGED detail
  BY <1>1, <1>4, OpenKept
<1>5. QED
  BY <1>2, <1>3, <1>4 DEF Opened

\* The answer to a read of a detail is shown when it is of the open task.
LEMMA DetailAnsweredKeeps ==
    ASSUME ListInv, NEW c, DetailAnswered(c)
    PROVE  ListInv'
<1> DEFINE rest == calls \ {c}
<1>1. /\ c \in calls /\ c.kind = "detail" /\ c.st # "none" /\ \A d \in rest : CallOf(d)
  BY DEF DetailAnswered, Back, ListInv
<1>2. CASE ~DetailForOpen(c)
  <2>1. calls' = rest /\ UNCHANGED <<selected, detail, detailFailed>>
    BY <1>2 DEF DetailAnswered, cards, opened
  <2>2. Reads(calls, selected) => Reads(rest, selected)
    BY <1>2 DEF DetailForOpen, Reads
  <2>3. QED
    BY <1>1, <2>1, <2>2, OpenKept
<1>3. CASE DetailForOpen(c) /\ c.st = "error"
  BY <1>1, <1>3 DEF DetailAnswered, ListInv, DetailOfOpen
<1>4. CASE DetailForOpen(c) /\ c.st # "error"
  <2>1. /\ detail' = [id |-> c.ans[1].id, ver |-> c.ans[1].ver]
        /\ Showing(MergeCard(recent, c.ans[1]), MergeCard(results, c.ans[1]), query, selected, rest)
    BY <1>4 DEF DetailAnswered
  <2>2. selected' = selected /\ \A d \in calls' : CallOf(d)
    BY <1>1, <2>1, ShowingIs
  <2>3. c.ans[1].id = selected
    BY <1>1, <1>4 DEF ListInv, CallOf, DetailForOpen
  <2>4. detail'.id = selected'
    BY <2>1, <2>2, <2>3
  <2>5. QED
    BY <2>2, <2>4 DEF ListInv, DetailOfOpen
<1>5. QED
  BY <1>2, <1>3, <1>4

\* Every step keeps the calls and the open task as they should be.
LEMMA ListStep ==
    ASSUME ListInv, ListNext
    PROVE  ListInv'
<1> DEFINE Idle == /\ UNCHANGED <<selected, detail, detailFailed>>
                   /\ \A c \in calls' : CallOf(c)
                   /\ Reads(calls, selected) => Reads(calls', selected)
<1> HIDE DEF Idle
<1>1. Idle => ListInv'
  BY OpenKept DEF Idle
<1>2. \A c \in calls : CallOf(c)
  BY DEF ListInv
<1>3. \A c \in calls : \A d \in calls \ {c} : CallOf(d)
  BY <1>2
<1>4. UNCHANGED <<cards, opened, calls>> => Idle
  BY <1>2 DEF Idle, cards, opened
<1>5. ASSUME NEW c \in calls, NEW st \in {"ok", "error"}, NEW ans, Answers(c, st, ans), UNCHANGED <<cards, opened>>,
             c.kind = "detail" /\ st = "ok" => ans[1].id \in c.arg
      PROVE  Idle
  BY <1>5, AnswersIs DEF Idle, cards, opened
<1>6. ASSUME NEW c, c.kind # "detail" PROVE Reads(calls, selected) => Reads(calls \ {c}, selected)
  BY <1>6 DEF Reads
<1>7. \A id, category, of : DiskWrites(id, category, of) \/ DiskWritesUnseen(id) => Idle
  BY <1>4 DEF DiskWrites, DiskWritesUnseen
<1>8. Hide \/ Shown \/ ThrottleEnds \/ AgentNotice => Idle
  BY <1>4 DEF Hide, Shown, ThrottleEnds, AgentNotice
<1>9. ASSUME NEW c, ServeList(c) \/ ServeManaged(c) \/ ServeUsage(c) \/ ServeTrash(c) \/ ReadFails(c) PROVE Idle
  <2>1. c \in calls /\ c.kind # "detail" /\ UNCHANGED <<cards, opened>>
    BY <1>9 DEF ServeList, ServeManaged, ServeUsage, ServeTrash, ReadFails, Due, listVars
  <2>2. PICK st, ans : st \in {"ok", "error"} /\ Answers(c, st, ans)
    BY <1>9 DEF ServeList, ServeManaged, ServeUsage, ServeTrash, ReadFails
  <2>3. QED
    BY <1>5, <2>1, <2>2
<1>10. ASSUME NEW c, ServeCard(c) PROVE Idle
  <2> DEFINE there == HostCards(c.arg)
  <2>1. c \in calls /\ UNCHANGED <<cards, opened>> /\ Answers(c, IF there = <<>> THEN "error" ELSE "ok", there)
    BY <1>10 DEF ServeCard, Due, listVars
  <2>2. there # <<>> => there[1].id \in c.arg
    BY HostCardsAre
  <2> HIDE DEF there
  <2>3. CASE there = <<>>
    BY <1>5, <2>1, <2>3
  <2>4. CASE there # <<>>
    BY <1>5, <2>1, <2>2, <2>4
  <2>5. QED
    BY <2>3, <2>4
<1>11. ASSUME NEW c, ListAnswered(c) \/ ManagedAnswered(c) PROVE ListInv'
  <2>1. c \in calls /\ c.kind # "detail" /\ UNCHANGED detailFailed
    BY <1>11 DEF ListAnswered, ManagedAnswered, Back
  <2>2. CASE c.st = "error"
    <3>1. Idle
      BY <1>3, <1>6, <1>11, <2>1, <2>2 DEF ListAnswered, ManagedAnswered, Idle, cards
    <3>2. QED
      BY <1>1, <3>1
  <2>3. CASE c.st # "error"
    <3>1. PICK list, task, cs :
              /\ cs \in {calls \ {c}, AskManaged(calls \ {c}, c.ans)}
              /\ Showing(list, results, query, task, cs) /\ Opened(task)
      BY <1>11, <2>3 DEF ListAnswered, ManagedAnswered
    <3>2. (\A d \in cs : CallOf(d)) /\ calls \ {c} \subseteq cs
      BY <1>3, <2>1, <3>1, AskManagedIs
    <3>3. Reads(calls, selected) => Reads(cs, selected)
      BY <1>6, <2>1, <3>2 DEF Reads
    <3>4. QED
      BY <2>1, <3>1, <3>2, <3>3, OpenChanged
  <2>4. QED
    BY <2>2, <2>3
<1>12. ASSUME NEW c, CardAnswered(c) PROVE ListInv'
  <2>1. c \in calls /\ c.kind = "card" /\ UNCHANGED opened
    BY <1>12 DEF CardAnswered, Back
  <2>2. CASE c.st = "error"
    <3>1. Idle
      BY <1>3, <1>6, <1>12, <2>1, <2>2 DEF CardAnswered, Idle, cards, opened
    <3>2. QED
      BY <1>1, <3>1
  <2>3. CASE c.st # "error"
    <3>1. Showing(WithCard(recent, c.ans[1]), MergeCard(results, c.ans[1]), query, selected, calls \ {c})
      BY <1>12, <2>3 DEF CardAnswered
    <3>2. QED
      BY <1>3, <1>6, <2>1, <3>1, OpenChanged DEF opened
  <2>4. QED
    BY <2>2, <2>3
<1>13. ASSUME NEW c, UsageAnswered(c) \/ SearchAnswered(c) PROVE ListInv'
  <2>1. c \in calls /\ c.kind # "detail" /\ UNCHANGED opened
    BY <1>13 DEF UsageAnswered, SearchAnswered, Back
  <2>2. CASE UNCHANGED cards /\ calls' = calls \ {c}
    <3>1. Idle
      BY <1>3, <1>6, <2>1, <2>2 DEF Idle, cards, opened
    <3>2. QED
      BY <1>1, <3>1
  <2>3. CASE \E list, found : Showing(list, found, query, selected, calls \ {c})
    BY <1>3, <1>6, <2>1, <2>3, OpenChanged DEF opened
  <2>4. QED
    BY <1>13, <2>2, <2>3 DEF UsageAnswered, SearchAnswered
<1>14. UsageFires => Idle
  BY <1>2, CalledIs DEF UsageFires, Idle, Reads, opened
<1>15. SearchFires => Idle
  BY <1>2, CalledIs DEF SearchFires, Idle, Reads, cards, opened
<1>16. ASSUME NEW q, SetQuery(q) PROVE ListInv'
  <2> DEFINE rest == Dropped(calls, "search")
  <2>1. (\A c \in rest : CallOf(c)) /\ (Reads(calls, selected) => Reads(rest, selected))
    BY <1>2 DEF Dropped, Reads
  <2>2. PICK found : Showing(recent, found, q, selected, rest)
    BY <1>16 DEF SetQuery
  <2> HIDE DEF rest
  <2>3. UNCHANGED opened
    BY <1>16 DEF SetQuery
  <2>4. QED
    BY <2>1, <2>2, <2>3, OpenChanged DEF opened
<1>17. ASSUME NEW id \in Ids, SelectTask(id) PROVE ListInv'
  <2>1. UNCHANGED opened /\ id # selected /\ Showing(recent, results, query, id, calls)
    BY <1>17 DEF SelectTask
  <2>2. QED
    BY <1>2, <2>1, ListTasks, OpenChanged DEF opened
<1>18. ASSUME NEW id, DeleteTask(id) PROVE Idle
  BY <1>2, <1>18, CalledIs DEF DeleteTask, Idle, Reads, listVars, cards, opened
<1>19. ASSUME NEW c, DeleteAnswered(c) PROVE ListInv'
  <2> DEFINE task == IF c.arg = {selected} THEN NoTask ELSE selected
             rest == RefreshedList(calls \ {c})
  <2>1. /\ c \in calls /\ c.kind = "trash" /\ UNCHANGED detailFailed /\ Opened(task)
        /\ Showing(recent, results, query, task, rest)
    BY <1>19 DEF DeleteAnswered, Back
  <2>2. (\A d \in rest : CallOf(d)) /\ calls \ {c} \subseteq rest
    BY <1>3, <2>1, RefreshedListIs
  <2>3. Reads(calls, selected) => Reads(rest, selected)
    BY <1>6, <2>1, <2>2 DEF Reads
  <2> HIDE DEF task, rest
  <2>4. QED
    BY <2>1, <2>2, <2>3, OpenChanged
<1>20. NoticeArrives => Idle
  <2> SUFFICES ASSUME NoticeArrives PROVE Idle
    OBVIOUS
  <2> DEFINE e == Head(notices)
  <2>1. PICK read \in {calls, RefreshedList(calls), Called(calls, "card", {e.id})} :
            calls' \in {calls, read, AskDetail(read, selected)}
    BY DEF NoticeArrives
  <2>2. (\A c \in read : CallOf(c)) /\ calls \subseteq read /\ UNCHANGED <<cards, opened>>
    BY <1>2, CalledIs, RefreshedListIs DEF NoticeArrives
  <2> HIDE DEF e
  <2>3. QED
    BY <1>2, <2>1, <2>2, AskDetailIs DEF Idle, Reads, cards, opened
<1>21. ASSUME RefreshFromDisk, UNCHANGED <<cards, opened>> PROVE Idle
  <2>1. (\A c \in RefreshedList(calls) : CallOf(c)) /\ calls \subseteq RefreshedList(calls)
    BY <1>2, RefreshedListIs
  <2>2. QED
    BY <1>2, <1>21, <2>1, AskDetailIs DEF RefreshFromDisk, Idle, Reads, cards, opened
<1>22. FocusFires \/ Poll => Idle
  BY <1>21 DEF FocusFires, Poll
<1>23. NudgeFires => Idle
  BY <1>2, AskDetailIs DEF NudgeFires, Idle, Reads, cards, opened
<1>24. CASE ListUser
  BY <1>1, <1>8, <1>16, <1>17, <1>18, <1>24 DEF ListUser
<1>25. CASE ListWorld
  BY <1>1, <1>7, <1>8, <1>25 DEF ListWorld
<1>26. CASE ListServed \/ ListFails
  BY <1>1, <1>9, <1>10, <1>26 DEF ListServed, ListFails
<1>27. CASE ListAnswers
  BY <1>11, <1>12, <1>13, <1>19, <1>27, DetailAnsweredKeeps DEF ListAnswers
<1>28. CASE ListTimers
  BY <1>1, <1>8, <1>14, <1>15, <1>22, <1>23, <1>28 DEF ListTimers
<1>29. QED
  BY <1>1, <1>8, <1>20, <1>22, <1>24, <1>25, <1>26, <1>27, <1>28 DEF ListNext

\* refreshDetail, setSelectedId: for all tasks, lists and answers in any order, the detail
\* shown is that of the open task unless its own read is under way or has failed.
THEOREM DetailIsOfOpen == ListSpec => []DetailOfOpen
<1>1. ListInit /\ calls = Called({}, "list", Ids) => ListInv
  <2>1. \A c \in Called({}, "list", Ids) : CallOf(c)
    BY CalledIs
  <2>2. QED
    BY <2>1 DEF ListInit, ListInv, DetailOfOpen
<1>2. ListInv /\ [ListNext]_<<listVars, calls, left>> => ListInv'
  <2>1. ListInv /\ ListNext => ListInv'
    BY ListStep
  <2>2. ListInv /\ UNCHANGED <<listVars, calls, left>> => ListInv'
    BY DEF ListInv, DetailOfOpen, OfKind, listVars, cards, opened
  <2>3. QED
    BY <2>1, <2>2
<1>3. ListInv => DetailOfOpen
  BY DEF ListInv
<1>4. QED
  BY <1>1, <1>2, <1>3, PTL DEF ListSpec

-----------------------------------------------------------------------------
(* The changes of the project.                                             *)

\* What is listed and shown is of the project of the panel already when it is set.
LEMMA GitStep ==
    ASSUME PanelOfCwd, GitNext
    PROVE  PanelOfCwd'
<1>1. UNCHANGED <<changesOf, diff, cwd>> => PanelOfCwd'
  BY DEF PanelOfCwd
<1>2. CASE GitServed \/ GitExpires
  BY <1>1, <1>2 DEF GitServed, GitExpires, GitFails, ServeDiff, ServeKept, GitRuns, GitExits, ServeMove,
     ServeCommit, CacheExpires
<1>3. CASE Bumped \/ PollStatus \/ ApplyChosen \/ Commit
  BY <1>1, <1>3 DEF Bumped, PollStatus, ApplyChosen, Commit
<1>4. ASSUME NEW c, StatusAnswered(c) PROVE PanelOfCwd'
  BY <1>1, <1>4 DEF StatusAnswered, Lists, PanelOfCwd
<1>5. ASSUME NEW c, DiffAnswered(c) PROVE PanelOfCwd'
  BY <1>5 DEF DiffAnswered, DiffLands, PanelOfCwd
<1>6. ASSUME NEW c, WriteAnswered(c) PROVE PanelOfCwd'
  BY <1>1, <1>6 DEF WriteAnswered, PanelOfCwd
<1>7. ASSUME NEW d, SetCwd(d) PROVE PanelOfCwd'
  BY <1>7 DEF SetCwd, PanelOfCwd
<1>8. ASSUME NEW d, NEW p, NEW h, Edit(d, p, h) \/ PickHunk(h) PROVE PanelOfCwd'
  BY <1>1, <1>8 DEF Edit, PickHunk
<1>9. ASSUME NEW row, FileClick(row) \/ StageFile(row) PROVE PanelOfCwd'
  BY <1>1, <1>9 DEF FileClick, StageFile, PanelOfCwd
<1>10. QED
  BY <1>2, <1>3, <1>4, <1>5, <1>6, <1>7, <1>8, <1>9 DEF GitNext, GitAnswers

\* GitChanges: for all projects, files and calls under way, the rows listed and the diff
\* shown are of the project of the panel, whatever was asked for another.
THEOREM ChangesAreOfProject == GitSpec => []PanelOfCwd
<1>1. GitInit => PanelOfCwd
  BY DEF GitInit, PanelOfCwd
<1>2. PanelOfCwd /\ [GitNext]_<<gitVars, left>> => PanelOfCwd'
  <2>1. PanelOfCwd /\ UNCHANGED <<gitVars, left>> => PanelOfCwd'
    BY DEF PanelOfCwd, gitVars
  <2>2. QED
    BY <2>1, GitStep
<1>3. QED
  BY <1>1, <1>2, PTL DEF GitSpec

-----------------------------------------------------------------------------
(* Pins, archive and names.                                                *)


Values == {"on", "off"} \cup Names
Notes == [Labelled -> Values]
RequestType ==
    [n : Nat, op : {"set", "load", "mount", "merge"}, w : Windows, l : Labels, id : Labelled,
     value : Values, newest : BOOLEAN, st : {"called", "ok", "error"}, ans : Notes, carry : SUBSET Legacy]

TypeOK ==
    /\ "legacy" \in DOMAIN left
    /\ legacy \subseteq Legacy
    /\ store \in [Labels -> Notes]
    /\ requests \subseteq RequestType /\ IsFiniteSet(requests)

\* A flag some write is going to clear is one the user asked to clear.
ClearsAsked ==
    \A r \in requests : r.op = "set" /\ r.l \in Flags /\ r.value # "on" => <<r.l, r.id>> \in unset

InStore(p) == store[p[1]][p[2]] = "on"

\* Once a merge has been served the store alone has every flag not cleared.
MergeKept ==
    May("legacy") =>
        \A r \in requests : r.op = "merge" /\ r.st = "ok" => \A p \in Legacy \ unset : InStore(p)

\* A merge carries all that is still in the old storage, which nothing is added to.
CarryKept == \A r \in requests : r.op = "merge" => legacy \subseteq r.carry

LabelsInv == TypeOK /\ ClearsAsked /\ MergeKept /\ CarryKept /\ LegacyKept

-----------------------------------------------------------------------------
\* The requests an operation of a window makes are requests.
LEMMA RequestTyped ==
    ASSUME NEW n \in Nat, NEW op \in {"set", "load", "mount", "merge"}, NEW w \in Windows, NEW l \in Labels,
           NEW id \in Labelled, NEW value \in Values
    PROVE  Request(n, op, w, l, id, value) \in RequestType
  BY DEF Request, Carrying, RequestType, Notes, Values

LEMMA MergingTyped ==
    ASSUME NEW n \in Nat, NEW w \in Windows, NEW carry \in SUBSET Legacy
    PROVE  /\ Merging(n, w, carry) \in RequestType
           /\ Merging(n, w, carry).op = "merge" /\ Merging(n, w, carry).w = w
           /\ Merging(n, w, carry).st = "called" /\ Merging(n, w, carry).carry = carry
<1>1. AnyTask \in Labelled
  BY LabelsAssumed DEF AnyTask
<1>2. QED
  BY <1>1 DEF Merging, Carrying, RequestType, Notes, Values, Labels, Flags

\* A request superseded is the same request but for its newest.
LEMMA SupersededTyped ==
    ASSUME NEW rs \in SUBSET RequestType, NEW w, NEW ls
    PROVE  /\ Superseded(rs, w, ls) \subseteq RequestType
           /\ \A r \in Superseded(rs, w, ls) : \E o \in rs :
                  /\ r.op = o.op /\ r.l = o.l /\ r.id = o.id /\ r.value = o.value /\ r.st = o.st
                  /\ r.carry = o.carry
  BY DEF Superseded, RequestType

\* Neither superseding nor a click makes infinitely many requests.
LEMMA SupersededFinite ==
    ASSUME NEW rs, IsFiniteSet(rs), NEW w, NEW ls
    PROVE  IsFiniteSet(Superseded(rs, w, ls))
<1> DEFINE f == [r \in rs |-> IF r.w = w /\ r.l \in ls /\ r.op \in {"set", "load"}
                               THEN [r EXCEPT !.newest = FALSE] ELSE r]
<1>1. Superseded(rs, w, ls) = {f[r] : r \in rs}
  BY DEF Superseded
<1>2. IsFiniteSet({f[r] : r \in rs})
  <2>1. DOMAIN f = rs
    OBVIOUS
  <2> HIDE DEF f
  <2>2. QED
    BY <2>1, ImageFinite
<1>3. QED
  BY <1>1, <1>2

LEMMA LabelsFinite == IsFiniteSet(Labels)
<1>1. Labels = (({} \cup {"pinned"}) \cup {"archived"}) \cup {"title"}
  BY DEF Labels, Flags
<1>2. QED
  BY <1>1, FS_EmptySet, FS_AddElement

LEMMA WrittenFinite ==
    ASSUME NEW n, NEW w, NEW id, NEW value, DOMAIN value \subseteq Labels
    PROVE  IsFiniteSet({Request(n, "set", w, l, id, value[l]) : l \in DOMAIN value})
<1> DEFINE f == [l \in DOMAIN value |-> Request(n, "set", w, l, id, value[l])]
<1>1. IsFiniteSet(DOMAIN value)
  BY LabelsFinite, FS_Subset
<1>2. IsFiniteSet({f[l] : l \in DOMAIN value})
  BY <1>1, ImageFinite
<1>3. QED
  BY <1>2

\* The inductive invariant holds of the first state.
LEMMA LabelsInitially == left \in Plans /\ LabelsInit => LabelsInv
  BY LabelsAssumed, FS_EmptySet DEF LabelsInit, LabelsInv, TypeOK, ClearsAsked, MergeKept, CarryKept, LegacyKept, InStore,
     Blank, Notes, Values, May

\* The writes of one click clear what the user asks to clear.
LEMMA WritesKeep ==
    ASSUME LabelsInv, NEW w \in Windows, NEW id \in Labelled, NEW value,
           DOMAIN value \subseteq Labels, \A l \in DOMAIN value : value[l] \in Values,
           \A l \in DOMAIN value \cap Flags : value[l] \in {"on", "off"},
           Writes(w, id, value), left'["legacy"] = left["legacy"], "legacy" \in DOMAIN left'
    PROVE  LabelsInv'
<1> DEFINE Old == Superseded(requests, w, DOMAIN value)
           New == {Request(FreshNumber(requests), "set", w, l, id, value[l]) : l \in DOMAIN value}
<1>1. requests' = Old \cup New /\ store' = store /\ legacy' = legacy
  BY DEF Writes, Applied
<1>2. unset \subseteq unset' /\ \A l \in DOMAIN value : value[l] = "off" => <<l, id>> \in unset'
  BY DEF Writes
<1>3. Old \subseteq RequestType
      /\ \A r \in Old : \E o \in requests :
             /\ r.op = o.op /\ r.l = o.l /\ r.id = o.id /\ r.value = o.value /\ r.st = o.st
             /\ r.carry = o.carry
  BY SupersededTyped DEF LabelsInv, TypeOK
<1>4. New \subseteq RequestType
  BY RequestTyped, FreshIsNew DEF LabelsInv, TypeOK
<1>5. \A r \in New : \E l \in DOMAIN value : r.op = "set" /\ r.l = l /\ r.id = id /\ r.value = value[l]
  BY DEF Request, Carrying
<1>6. TypeOK'
  <2>1. IsFiniteSet(Old) /\ IsFiniteSet(New)
    BY SupersededFinite, WrittenFinite DEF LabelsInv, TypeOK
  <2>2. IsFiniteSet(Old \cup New)
    <3> HIDE DEF Old, New
    <3> QED
      BY <2>1, FS_Union
  <2>3. QED
    BY <1>1, <1>3, <1>4, <2>2 DEF LabelsInv, TypeOK
<1>7. ClearsAsked'
  BY <1>1, <1>2, <1>3, <1>5 DEF LabelsInv, ClearsAsked
<1>8. MergeKept'
  BY <1>1, <1>2, <1>3, <1>5 DEF LabelsInv, MergeKept, InStore, May
<1>9. LegacyKept' /\ CarryKept'
  BY <1>1, <1>2, <1>3, <1>5 DEF LabelsInv, LegacyKept, CarryKept, May
<1>10. QED
  BY <1>6, <1>7, <1>8, <1>9 DEF LabelsInv

\* What the host serves is a request with another state and answer.
LEMMA ServedTyped ==
    ASSUME LabelsInv, NEW r \in requests, NEW st \in {"ok", "error"}, store' \in [Labels -> Notes],
           Served(r, st)
    PROVE  /\ requests' \subseteq RequestType /\ IsFiniteSet(requests')
           /\ \A q \in requests' : \E o \in requests :
                  /\ q.op = o.op /\ q.l = o.l /\ q.id = o.id /\ q.value = o.value /\ q.carry = o.carry
                  /\ q.st = o.st \/ (o = r /\ q.st = st)
<1> DEFINE served == [r EXCEPT !.st = st, !.ans = store'[r.l]]
<1>1. IsFiniteSet(requests')
  BY FS_RemoveElement, FS_AddElement DEF LabelsInv, TypeOK, Served
<1>2. r \in RequestType /\ requests \subseteq RequestType
  BY DEF LabelsInv, TypeOK
<1>3. /\ served \in RequestType /\ served.st = st
      /\ served.op = r.op /\ served.l = r.l /\ served.id = r.id /\ served.value = r.value /\ served.carry = r.carry
  BY <1>2 DEF RequestType
<1>4. requests' = (requests \ {r}) \cup {served}
  BY DEF Served
<1> HIDE DEF served
<1>5. \A q \in requests' : (q = served) \/ (q \in requests /\ q # r)
  BY <1>4
<1>6. requests' \subseteq RequestType
  BY <1>2, <1>3, <1>5
<1>7. ASSUME NEW q \in requests'
      PROVE  \E o \in requests :
                 /\ q.op = o.op /\ q.l = o.l /\ q.id = o.id /\ q.value = o.value /\ q.carry = o.carry
                 /\ q.st = o.st \/ (o = r /\ q.st = st)
  BY <1>3, <1>5
<1>8. QED
  BY <1>1, <1>6, <1>7

\* Every step preserves the inductive invariant.
LEMMA LabelsStep ==
    ASSUME LabelsInv, LabelsNext
    PROVE  LabelsInv'
<1> USE LabelsAssumed
<1>1. ASSUME NEW w \in Windows, Opens(w), Spend("opens") PROVE LabelsInv'
  <2>1. /\ left'["legacy"] = left["legacy"] /\ "legacy" \in DOMAIN left'
        /\ store' = store /\ unset' = unset /\ legacy' = legacy
    BY <1>1 DEF Opens, Spend, LabelsInv, TypeOK
  <2> DEFINE n == FreshNumber(requests)
             Mounts == {Request(n, "mount", w, l, AnyTask, "off") : l \in Labels}
  <2>2. n \in Nat /\ AnyTask \in Labelled
    BY FreshIsNew DEF LabelsInv, TypeOK, AnyTask
  <2>3. \A r \in requests' \ requests : /\ r \in RequestType /\ r.st = "called"
                                        /\ r.op = "mount" \/ (r.op = "merge" /\ r.carry = legacy)
    <3>1. \A l \in Labels : Request(n, "mount", w, l, AnyTask, "off") \in RequestType
      BY <2>2, RequestTyped DEF Values
    <3>2. /\ Merging(n, w, legacy) \in RequestType /\ Merging(n, w, legacy).st = "called"
          /\ Merging(n, w, legacy).op = "merge" /\ Merging(n, w, legacy).carry = legacy
      BY <2>2, MergingTyped DEF LabelsInv, TypeOK
    <3>3. \A l \in Labels : /\ Request(n, "mount", w, l, AnyTask, "off").st = "called"
                            /\ Request(n, "mount", w, l, AnyTask, "off").op = "mount"
      BY DEF Request, Carrying
    <3>4. \A r \in requests' \ requests :
              \/ \E l \in Labels : r = Request(n, "mount", w, l, AnyTask, "off")
              \/ r = Merging(n, w, legacy)
      BY <1>1 DEF Opens
    <3>5. QED
      BY <3>1, <3>2, <3>3, <3>4
  <2>4. IsFiniteSet(requests')
    <3> DEFINE f == [l \in Labels |-> Request(n, "mount", w, l, AnyTask, "off")]
    <3>1. IsFiniteSet({f[l] : l \in Labels})
      BY LabelsFinite, ImageFinite
    <3>2. IsFiniteSet(Mounts)
      BY <3>1
    <3>3. \/ requests' = requests \cup Mounts
          \/ requests' = (requests \cup Mounts) \cup {Merging(n, w, legacy)}
      BY <1>1 DEF Opens
    <3>4. IsFiniteSet(requests \cup Mounts)
      <4> HIDE DEF Mounts
      <4>1. QED
        BY <3>2, FS_Union DEF LabelsInv, TypeOK
    <3> HIDE DEF Mounts
    <3>5. QED
      BY <3>3, <3>4, FS_AddElement
  <2>5. QED
    BY <2>1, <2>3, <2>4 DEF LabelsInv, TypeOK, ClearsAsked, MergeKept, CarryKept, LegacyKept, InStore, May
<1>2. ASSUME NEW w \in Windows, Dies(w) PROVE LabelsInv'
  <2>1. IsFiniteSet(requests')
    BY <1>2, FS_Subset DEF Dies, LabelsInv, TypeOK
  <2>2. QED
    BY <1>2, <2>1 DEF Dies, Spend, Pending, LabelsInv, TypeOK, ClearsAsked, MergeKept, CarryKept, LegacyKept, InStore, May
<1>3. ASSUME NEW w \in Windows, Spend("labels"), NEW id \in Labelled,
             TogglePin(w, id) \/ ToggleArchived(w, id) \/ \E name \in Names \cup {"off"} : Rename(w, id, name)
      PROVE LabelsInv'
  <2>1. left'["legacy"] = left["legacy"] /\ "legacy" \in DOMAIN left'
    BY <1>3 DEF Spend, LabelsInv, TypeOK
  <2>2. CASE TogglePin(w, id)
    <3> DEFINE value == [pinned |-> Flip(mirror[w]["pinned"][id])]
    <3>1. DOMAIN value = {"pinned"} /\ value["pinned"] \in {"on", "off"}
      BY DEF Flip
    <3>2. Writes(w, id, value)
      BY <2>2 DEF TogglePin
    <3> HIDE DEF value
    <3>3. QED
      BY <2>1, <3>1, <3>2, WritesKeep DEF Labels, Flags, Values
  <2>3. CASE ToggleArchived(w, id)
    <3> DEFINE value == IF mirror[w]["archived"][id] = "on" THEN [archived |-> "off"]
                        ELSE [pinned |-> "off", archived |-> "on"]
    <3>1. DOMAIN value \subseteq {"pinned", "archived"} /\ \A l \in DOMAIN value : value[l] \in {"on", "off"}
      OBVIOUS
    <3>2. Writes(w, id, value)
      BY <2>3 DEF ToggleArchived
    <3> HIDE DEF value
    <3>3. QED
      BY <2>1, <3>1, <3>2, WritesKeep DEF Labels, Flags, Values
  <2>4. ASSUME NEW name \in Names \cup {"off"}, Rename(w, id, name) PROVE LabelsInv'
    <3> DEFINE value == [title |-> name]
    <3>1. DOMAIN value = {"title"} /\ value["title"] = name
      OBVIOUS
    <3>2. Writes(w, id, value)
      BY <2>4 DEF Rename
    <3> HIDE DEF value
    <3>3. QED
      BY <2>1, <3>1, <3>2, WritesKeep DEF Labels, Flags, Values
  <2>5. QED
    BY <1>3, <2>2, <2>3, <2>4
<1>4. ASSUME NEW r \in requests, ServeWrite(r) PROVE LabelsInv'
  <2>1. /\ r \in RequestType /\ r.op = "set" /\ left' = left /\ unset' = unset /\ legacy' = legacy
        /\ store' = Put(store, r.l, r.id, r.value) /\ Served(r, "ok")
    BY <1>4 DEF ServeWrite, LabelsInv, TypeOK
  <2>2. store' \in [Labels -> Notes]
    BY <2>1 DEF Put, LabelsInv, TypeOK, RequestType, Notes
  <2>3. \A p \in Legacy \ unset : InStore(p) => InStore(p)'
    <3> SUFFICES ASSUME NEW p \in Legacy \ unset, InStore(p) PROVE InStore(p)'
      OBVIOUS
    <3>1. p = <<p[1], p[2]>> /\ p[1] \in Flags /\ p[2] \in Labelled
      OBVIOUS
    <3>2. r.l = p[1] /\ r.id = p[2] => r.value = "on"
      BY <2>1, <3>1 DEF LabelsInv, ClearsAsked
    <3>3. store'[p[1]][p[2]] = IF r.l = p[1] /\ r.id = p[2] THEN r.value ELSE store[p[1]][p[2]]
      BY <2>1, <3>1 DEF Put, LabelsInv, TypeOK, Notes, Labels
    <3>4. QED
      BY <3>2, <3>3 DEF InStore
  <2>4. /\ requests' \subseteq RequestType /\ IsFiniteSet(requests')
        /\ \A q \in requests' : \E o \in requests :
               /\ q.op = o.op /\ q.l = o.l /\ q.id = o.id /\ q.value = o.value /\ q.carry = o.carry
               /\ q.st = o.st \/ (o = r /\ q.st = "ok")
    BY <2>1, <2>2, ServedTyped
  <2>5. TypeOK' /\ ClearsAsked' /\ CarryKept'
    BY <2>1, <2>2, <2>4 DEF LabelsInv, TypeOK, ClearsAsked, CarryKept
  <2>6. MergeKept'
    BY <2>1, <2>3, <2>4 DEF LabelsInv, MergeKept, May
  <2>7. LegacyKept'
    BY <2>1, <2>3 DEF LabelsInv, LegacyKept, May, InStore
  <2>8. QED
    BY <2>5, <2>6, <2>7 DEF LabelsInv
<1>5. ASSUME NEW r \in requests, ServeMerge(r) PROVE LabelsInv'
  <2>1. /\ left' = left /\ unset' = unset /\ legacy' = legacy /\ store' = MergedFlags(r.carry) /\ Served(r, "ok")
        /\ legacy \subseteq r.carry
    BY <1>5 DEF ServeMerge, LabelsInv, CarryKept
  <2>2. store' \in [Labels -> Notes]
    BY <2>1 DEF MergedFlags, LabelsInv, TypeOK, Notes, Values
  <2>3. May("legacy") => \A p \in Legacy \ unset : InStore(p)'
    <3> SUFFICES ASSUME May("legacy"), NEW p \in Legacy \ unset PROVE InStore(p)'
      OBVIOUS
    <3>1. p = <<p[1], p[2]>> /\ p[1] \in Labels /\ p[2] \in Labelled
      BY DEF Labels
    <3>2. store'[p[1]][p[2]] = IF p \in r.carry THEN "on" ELSE store[p[1]][p[2]]
      BY <2>1, <3>1 DEF MergedFlags
    <3>3. QED
      BY <2>1, <3>2 DEF LabelsInv, LegacyKept, InStore
  <2>4. /\ requests' \subseteq RequestType /\ IsFiniteSet(requests')
        /\ \A q \in requests' : \E o \in requests :
               /\ q.op = o.op /\ q.l = o.l /\ q.id = o.id /\ q.value = o.value /\ q.carry = o.carry
               /\ q.st = o.st \/ (o = r /\ q.st = "ok")
    BY <2>1, <2>2, ServedTyped
  <2>5. TypeOK' /\ ClearsAsked' /\ CarryKept'
    BY <2>1, <2>2, <2>4 DEF LabelsInv, TypeOK, ClearsAsked, CarryKept
  <2>6. MergeKept' /\ LegacyKept'
    BY <2>1, <2>3 DEF MergeKept, LegacyKept, May, InStore
  <2>7. QED
    BY <2>5, <2>6 DEF LabelsInv
<1>6. ASSUME NEW r \in requests, NEW st \in {"ok", "error"}, Served(r, st), UNCHANGED <<store, unset, legacy>>,
             r.op = "merge" => st = "error", left'["legacy"] = left["legacy"], "legacy" \in DOMAIN left'
      PROVE LabelsInv'
  <2>1. /\ requests' \subseteq RequestType /\ IsFiniteSet(requests')
        /\ \A q \in requests' : \E o \in requests :
               /\ q.op = o.op /\ q.l = o.l /\ q.id = o.id /\ q.value = o.value /\ q.carry = o.carry
               /\ q.st = o.st \/ (o = r /\ q.st = st)
    BY <1>6, ServedTyped DEF LabelsInv, TypeOK
  <2>2. TypeOK' /\ ClearsAsked' /\ CarryKept' /\ LegacyKept'
    BY <1>6, <2>1 DEF LabelsInv, TypeOK, ClearsAsked, CarryKept, LegacyKept, May
  <2>3. MergeKept'
    BY <1>6, <2>1 DEF LabelsInv, MergeKept, InStore, May
  <2>4. QED
    BY <2>2, <2>3 DEF LabelsInv
<1>7. ASSUME NEW r \in requests, ServeLoad(r) PROVE LabelsInv'
  BY <1>6, <1>7 DEF ServeLoad, LabelsInv, TypeOK
<1>8. ASSUME NEW r \in requests, ServeFails(r) PROVE LabelsInv'
  BY <1>6, <1>8 DEF ServeFails, Spend, LabelsInv, TypeOK
<1>9. ASSUME NEW r \in requests, MergeAnswered(r) PROVE LabelsInv'
  <2>1. /\ left' = left /\ unset' = unset /\ store' = store /\ requests' \subseteq requests
        /\ legacy' = IF r.st = "ok" THEN {} ELSE legacy
        /\ r.op = "merge" /\ IsFiniteSet(requests')
    BY <1>9, FS_RemoveElement DEF MergeAnswered, Removed, LabelsInv, TypeOK
  <2>2. LegacyKept'
    BY <2>1 DEF LabelsInv, MergeKept, LegacyKept, InStore, May
  <2>3. QED
    BY <2>1, <2>2 DEF LabelsInv, TypeOK, ClearsAsked, MergeKept, CarryKept, InStore, May
<1>10. ASSUME NEW r \in requests, LabelAnswered(r) PROVE LabelsInv'
  <2>1. left' = left /\ unset' = unset /\ store' = store /\ legacy' = legacy
    BY <1>10 DEF LabelAnswered
  <2>2. \A q \in requests' : q \in requests \/ (q \in RequestType /\ q.op = "load")
    <3>1. r \in RequestType
      BY DEF LabelsInv, TypeOK
    <3>2. Request(r.n, "load", r.w, r.l, r.id, r.value) \in RequestType
      BY <3>1, RequestTyped DEF RequestType
    <3>3. Request(r.n, "load", r.w, r.l, r.id, r.value).op = "load"
      BY DEF Request, Carrying
    <3>4. QED
      BY <1>10, <3>2, <3>3 DEF LabelAnswered
  <2>3. IsFiniteSet(requests')
    <3>1. IsFiniteSet(requests \ {r})
      BY FS_RemoveElement DEF LabelsInv, TypeOK
    <3>2. \/ requests' = requests \ {r}
          \/ requests' = (requests \ {r}) \cup {Request(r.n, "load", r.w, r.l, r.id, r.value)}
      BY <1>10 DEF LabelAnswered
    <3>3. QED
      BY <3>1, <3>2, FS_AddElement
  <2>4. QED
    BY <2>1, <2>2, <2>3 DEF LabelsInv, TypeOK, ClearsAsked, MergeKept, CarryKept, LegacyKept, InStore, May
<1>11. QED
  BY <1>1, <1>2, <1>3, <1>4, <1>5, <1>7, <1>8, <1>9, <1>10
  DEF LabelsNext, LabelsServed, LabelsAnswers, Labels1

\* The same for a step that changes nothing.
LEMMA LabelsStutter ==
    ASSUME LabelsInv, UNCHANGED <<labelVars, left>>
    PROVE  LabelsInv'
  BY DEF LabelsInv, TypeOK, ClearsAsked, MergeKept, CarryKept, LegacyKept, InStore, May, labelVars

\* The flags of the old storage survive their migration, whatever fails,
\* whichever window is killed and however many windows migrate at once.
THEOREM OldFlagsKept == LabelsSpec => []LegacyKept
<1>1. LabelsInv /\ [LabelsNext]_<<labelVars, left>> => LabelsInv'
  BY LabelsStep, LabelsStutter
<1>2. LabelsInv => LegacyKept
  BY DEF LabelsInv
<1>3. QED
  BY <1>1, <1>2, LabelsInitially, PTL DEF LabelsSpec

-----------------------------------------------------------------------------
(* The mirrors.                                                            *)

WindowsTyped ==
    /\ open \subseteq Windows
    /\ migrated \in [Windows -> BOOLEAN]
    /\ mirror \in [Windows -> [Labels -> Notes]]
    /\ DOMAIN calm = Windows

\* Requests are of windows that run; the first loads and the merge are made once, and a
\* flag is not loaded before the migration has ended.
RequestsOwned ==
    /\ \A r \in requests : r.w \in open
    /\ \A q, r \in requests : q.op = "merge" /\ r.op = "merge" /\ q.w = r.w => q = r
    /\ \A q, r \in requests : q.op = "mount" /\ r.op = "mount" /\ q.w = r.w /\ q.l = r.l => q = r
    /\ \A r \in requests : r.op = "merge" => ~migrated[r.w]
    /\ \A r \in requests : r.op = "mount" => r.st # "error" /\ r.newest
    /\ \A w \in open, l \in Flags :
         (\A r \in requests : r.op = "mount" /\ r.w = w /\ r.l = l => r.st = "ok") => migrated[w]

About(w, l) == {r \in requests : r.w = w /\ r.l = l /\ r.op # "merge"}

Awaited(w, l) == \E r \in About(w, l) : r.op = "set" /\ r.st = "called"

\* What a label of a window that is calm has under way: its first load, or writes of
\* which one at most is the newest, the only one there may be for a name.  The answer
\* of the newest is the store, and without a newest the window shows the store; in both
\* cases no older write is still to be served.
Settling(w, l) ==
    /\ (\E r \in About(w, l) : r.op = "mount") => \A r \in About(w, l) : r.op = "mount"
    /\ l = "title" => \A q, r \in About(w, l) : q = r /\ r.newest
    /\ \A q, r \in About(w, l) : q.newest /\ r.newest => q = r
    /\ \A r \in About(w, l) : r.newest /\ r.st = "ok" => r.ans = store[l] /\ ~Awaited(w, l)
    /\ (\A r \in About(w, l) : ~r.newest) => mirror[w][l] = store[l] /\ ~Awaited(w, l)

CalmSettles == \A w \in open : calm[w] => \A l \in Labels : Settling(w, l)

MirrorInv == WindowsTyped /\ RequestsOwned /\ CalmSettles

\* A label whose requests, mirror and notes a step leaves alone goes on settling.
LEMMA SettlingUntouched ==
    ASSUME NEW w, NEW l, Settling(w, l), About(w, l)' = About(w, l), store'[l] = store[l],
           mirror'[w][l] = mirror[w][l]
    PROVE  Settling(w, l)'
  BY DEF Settling, Awaited

\* Serving a request changes it in its place.
LEMMA AboutServed ==
    ASSUME LabelsInv, NEW r \in requests, NEW st \in {"ok", "error"}, Served(r, st)
    PROVE  \E s :
             /\ s.n = r.n /\ s.op = r.op /\ s.w = r.w /\ s.l = r.l /\ s.id = r.id
             /\ s.value = r.value /\ s.newest = r.newest /\ s.st = st /\ s.ans = store'[r.l]
             /\ requests' = (requests \ {r}) \cup {s}
             /\ \A w, l : About(w, l)' = IF r \in About(w, l) THEN (About(w, l) \ {r}) \cup {s}
                                         ELSE About(w, l)
<1> DEFINE s == [r EXCEPT !.st = st, !.ans = store'[r.l]]
<1>1. r \in RequestType
  BY DEF LabelsInv, TypeOK
<1>2. /\ s.n = r.n /\ s.op = r.op /\ s.w = r.w /\ s.l = r.l /\ s.id = r.id
      /\ s.value = r.value /\ s.newest = r.newest /\ s.st = st /\ s.ans = store'[r.l]
  BY <1>1 DEF RequestType
<1>3. requests' = (requests \ {r}) \cup {s}
  BY DEF Served
<1> HIDE DEF s
<1>4. \A w, l : About(w, l)' = IF r \in About(w, l) THEN (About(w, l) \ {r}) \cup {s} ELSE About(w, l)
  BY <1>2, <1>3 DEF About
<1>5. QED
  BY <1>2, <1>3, <1>4

\* A click leaves the requests of other windows and labels alone; of a label it writes it
\* makes a new one, and the older ones are no longer the newest.
LEMMA AboutWritten ==
    ASSUME LabelsInv, NEW v, NEW id, NEW value, Writes(v, id, value)
    PROVE  /\ \A w, l : ~(w = v /\ l \in DOMAIN value) => About(w, l)' = About(w, l)
           /\ \A l \in DOMAIN value : \E new \in About(v, l)' :
                 /\ new.op = "set" /\ new.newest /\ new.st = "called"
                 /\ \A q \in About(v, l)' :
                       q = new \/ \E o \in About(v, l) : IF o.op \in {"set", "load"} THEN q.op = o.op /\ ~q.newest
                                                         ELSE q = o
           /\ \A q \in requests' : q.op \in {"mount", "merge"} => q \in requests
           /\ \A q \in requests : q.op \in {"mount", "merge"} => q \in requests'
           /\ \A q \in requests' : q.w = v \/ \E o \in requests : q.w = o.w
<1> DEFINE n == FreshNumber(requests)
           Old == Superseded(requests, v, DOMAIN value)
           New == {Request(n, "set", v, l, id, value[l]) : l \in DOMAIN value}
<1>1. requests' = Old \cup New
  BY DEF Writes, Applied
<1>2. \A r \in requests : r \in RequestType
  BY DEF LabelsInv, TypeOK
<1>3. \A q \in Old : \/ q \in requests /\ ~(q.w = v /\ q.l \in DOMAIN value /\ q.op \in {"set", "load"})
                     \/ /\ q.w = v /\ q.l \in DOMAIN value /\ q.op \in {"set", "load"} /\ ~q.newest
                        /\ \E o \in requests : q.op = o.op /\ q.w = o.w /\ q.l = o.l
  BY <1>2 DEF Superseded, RequestType
<1>4. \A q \in requests : ~(q.w = v /\ q.l \in DOMAIN value /\ q.op \in {"set", "load"}) => q \in Old
  BY DEF Superseded
<1>5. \A q \in New : \E l \in DOMAIN value :
          q = Request(n, "set", v, l, id, value[l]) /\ q.op = "set" /\ q.w = v /\ q.l = l /\ q.newest /\ q.st = "called"
  BY DEF Request, Carrying
<1>6. \A l \in DOMAIN value : \E q \in New : q.op = "set" /\ q.w = v /\ q.l = l /\ q.newest /\ q.st = "called"
  <2> SUFFICES ASSUME NEW l \in DOMAIN value
               PROVE  \E q \in New : q.op = "set" /\ q.w = v /\ q.l = l /\ q.newest /\ q.st = "called"
    OBVIOUS
  <2> DEFINE q == Request(n, "set", v, l, id, value[l])
  <2>1. q \in New
    OBVIOUS
  <2>2. q.op = "set" /\ q.w = v /\ q.l = l /\ q.newest /\ q.st = "called"
    BY DEF Request, Carrying
  <2> HIDE DEF q
  <2>3. QED
    BY <2>1, <2>2
<1>7. \A r \in requests : r.op \in {"set", "load", "mount", "merge"}
  BY <1>2 DEF RequestType
<1> HIDE DEF Old, New, n
<1>8. \A w, l : ~(w = v /\ l \in DOMAIN value) => About(w, l)' = About(w, l)
  <2>1. \A q : ~(q.w = v /\ q.l \in DOMAIN value) => (q \in requests' <=> q \in requests)
    BY <1>1, <1>3, <1>4, <1>5
  <2>2. QED
    BY <2>1 DEF About
<1>9. ASSUME NEW l \in DOMAIN value
      PROVE  \E new \in About(v, l)' :
                 /\ new.op = "set" /\ new.newest /\ new.st = "called"
                 /\ \A q \in About(v, l)' :
                       q = new \/ \E o \in About(v, l) : IF o.op \in {"set", "load"} THEN q.op = o.op /\ ~q.newest
                                                         ELSE q = o
  <2>1. PICK new \in New : new.op = "set" /\ new.w = v /\ new.l = l /\ new.newest /\ new.st = "called"
    BY <1>6
  <2>2. \A q \in New : q.l = l => q = new
    BY <1>5, <2>1
  <2>3. new \in About(v, l)'
    BY <1>1, <2>1 DEF About
  <2>4. QED
    BY <1>1, <1>3, <1>7, <2>1, <2>2, <2>3 DEF About
<1>10. QED
  BY <1>1, <1>3, <1>4, <1>5, <1>8, <1>9

\* The requests of a window that opens are its first loads and, with an old storage, one
\* merge, which it waits for.
LEMMA MirrorOpens ==
    ASSUME LabelsInv, MirrorInv, NEW v \in Windows, Opens(v)
    PROVE  MirrorInv'
<1> DEFINE n == FreshNumber(requests)
           Mounts == {Request(n, "mount", v, l, AnyTask, "off") : l \in Labels}
           Merge == Merging(n, v, legacy)
<1>1. requests' = requests \cup Mounts \cup (IF legacy = {} THEN {} ELSE {Merge})
  BY DEF Opens
<1>2. /\ v \notin open /\ open' = open \cup {v} /\ store' = store
      /\ migrated' = [migrated EXCEPT ![v] = legacy = {}]
      /\ mirror' = [mirror EXCEPT ![v] = Blank]
      /\ calm' = [calm EXCEPT ![v] = TRUE]
  BY DEF Opens
<1>3. Merge.op = "merge" /\ Merge.w = v
  BY DEF Merging, Carrying
<1>4. \A q \in Mounts : \E l \in Labels :
          /\ q = Request(n, "mount", v, l, AnyTask, "off")
          /\ q.op = "mount" /\ q.w = v /\ q.l = l /\ q.newest /\ q.st = "called"
  BY DEF Request, Carrying
<1>5. \A l \in Labels : \E q \in Mounts : q.op = "mount" /\ q.w = v /\ q.l = l /\ q.newest /\ q.st = "called"
  <2> SUFFICES ASSUME NEW l \in Labels
               PROVE  \E q \in Mounts : q.op = "mount" /\ q.w = v /\ q.l = l /\ q.newest /\ q.st = "called"
    OBVIOUS
  <2> DEFINE q == Request(n, "mount", v, l, AnyTask, "off")
  <2>1. q \in Mounts
    OBVIOUS
  <2>2. q.op = "mount" /\ q.w = v /\ q.l = l /\ q.newest /\ q.st = "called"
    BY DEF Request, Carrying
  <2> HIDE DEF q
  <2>3. QED
    BY <2>1, <2>2
<1>6. \A q \in requests : q.w \in open /\ q.w # v
  BY <1>2 DEF MirrorInv, RequestsOwned
<1> HIDE DEF n, Mounts, Merge
<1>7. \A p, q \in Mounts : p.l = q.l => p = q
  BY <1>4
<1>8. WindowsTyped'
  BY <1>2 DEF MirrorInv, WindowsTyped, Blank, Notes, Values
<1>9. RequestsOwned'
  <2>1. migrated'[v] = (legacy = {}) /\ \A w \in Windows : w # v => migrated'[w] = migrated[w]
    BY <1>2 DEF MirrorInv, WindowsTyped
  <2>2. \A r \in requests' : r.w \in open'
    BY <1>1, <1>2, <1>3, <1>4, <1>6
  <2>3. \A q, r \in requests' : q.op = "merge" /\ r.op = "merge" /\ q.w = r.w => q = r
    BY <1>1, <1>4, <1>3, <1>6 DEF MirrorInv, RequestsOwned
  <2>4. \A q, r \in requests' : q.op = "mount" /\ r.op = "mount" /\ q.w = r.w /\ q.l = r.l => q = r
    BY <1>1, <1>4, <1>3, <1>6, <1>7 DEF MirrorInv, RequestsOwned
  <2>5. \A r \in requests' : r.op = "merge" => ~migrated'[r.w]
    BY <1>1, <1>3, <1>4, <1>6, <2>1 DEF MirrorInv, RequestsOwned, WindowsTyped
  <2>6. \A r \in requests' : r.op = "mount" => r.st # "error" /\ r.newest
    BY <1>1, <1>3, <1>4 DEF MirrorInv, RequestsOwned
  <2>7. \A w \in open', l \in Flags :
         (\A r \in requests' : r.op = "mount" /\ r.w = w /\ r.l = l => r.st = "ok") => migrated'[w]
    BY <1>1, <1>2, <1>5, <2>1 DEF MirrorInv, RequestsOwned, WindowsTyped, Labels
  <2>8. QED
    BY <2>2, <2>3, <2>4, <2>5, <2>6, <2>7 DEF RequestsOwned
<1>10. CalmSettles'
  <2> SUFFICES ASSUME NEW w \in open', calm'[w], NEW l \in Labels PROVE Settling(w, l)'
    BY DEF CalmSettles
  <2>1. CASE w = v
    <3>1. \A q \in About(w, l)' : q.op = "mount" /\ q.newest /\ q.st = "called"
      BY <1>1, <1>3, <1>4, <1>6, <2>1 DEF About
    <3>2. \A p, q \in About(w, l)' : p = q
      BY <1>1, <1>3, <1>6, <1>7, <2>1 DEF About
    <3>3. About(w, l)' # {}
      BY <1>1, <1>5, <2>1 DEF About
    <3>4. QED
      BY <3>1, <3>2, <3>3 DEF Settling
  <2>2. CASE w # v
    <3>1. w \in open /\ calm[w] /\ mirror'[w] = mirror[w]
      BY <1>2, <2>2 DEF MirrorInv, WindowsTyped
    <3>2. About(w, l)' = About(w, l)
      BY <1>1, <1>3, <1>4, <2>2 DEF About
    <3>3. QED
      BY <1>2, <3>1, <3>2, SettlingUntouched DEF MirrorInv, CalmSettles
  <2>3. QED
    BY <2>1, <2>2
<1>11. QED
  BY <1>8, <1>9, <1>10 DEF MirrorInv

\* A window that dies takes its requests along.
LEMMA MirrorDies ==
    ASSUME LabelsInv, MirrorInv, NEW v \in Windows, Dies(v)
    PROVE  MirrorInv'
<1>1. /\ open' = open \ {v} /\ requests' = {r \in requests : r.w # v}
      /\ UNCHANGED <<store, migrated, mirror, calm>>
  BY DEF Dies, Pending
<1>2. WindowsTyped' /\ RequestsOwned'
  BY <1>1 DEF MirrorInv, WindowsTyped, RequestsOwned
<1>3. CalmSettles'
  <2> SUFFICES ASSUME NEW w \in open', calm'[w], NEW l \in Labels PROVE Settling(w, l)'
    BY DEF CalmSettles
  <2>1. About(w, l)' = About(w, l)
    BY <1>1 DEF About
  <2>2. QED
    BY <1>1, <2>1, SettlingUntouched DEF MirrorInv, CalmSettles
<1>4. QED
  BY <1>2, <1>3 DEF MirrorInv

\* A click in a calm window is not made while a label it writes is loaded for the first
\* time, nor over another rename: its writes are the newest and nothing else is.
LEMMA MirrorWrites ==
    ASSUME LabelsInv, MirrorInv, NEW v \in open, NEW id \in Labelled, NEW value,
           DOMAIN value \subseteq Labels, \A l \in DOMAIN value : value[l] \in Values,
           Writes(v, id, value)
    PROVE  MirrorInv'
<1>1. /\ UNCHANGED <<store, open, migrated>>
      /\ mirror' = [mirror EXCEPT ![v] = [l \in Labels |->
             IF l \in DOMAIN value THEN [@[l] EXCEPT ![id] = value[l]] ELSE @[l]]]
      /\ calm' = [calm EXCEPT ![v] = @ /\ \A l \in DOMAIN value : Undisturbed(requests, v, l)]
  BY DEF Writes
<1>2. v \in Windows
  BY DEF MirrorInv, WindowsTyped
<1>3. /\ \A w, l : ~(w = v /\ l \in DOMAIN value) => About(w, l)' = About(w, l)
      /\ \A q \in requests' : q.op \in {"mount", "merge"} => q \in requests
      /\ \A q \in requests : q.op \in {"mount", "merge"} => q \in requests'
      /\ \A q \in requests' : q.w = v \/ \E o \in requests : q.w = o.w
  BY AboutWritten
<1>4. WindowsTyped'
  <2>1. [l \in Labels |-> IF l \in DOMAIN value THEN [mirror[v][l] EXCEPT ![id] = value[l]]
                          ELSE mirror[v][l]] \in [Labels -> Notes]
    BY <1>2 DEF MirrorInv, WindowsTyped, Notes
  <2>2. QED
    BY <1>1, <1>2, <2>1 DEF MirrorInv, WindowsTyped
<1>5. RequestsOwned'
  BY <1>1, <1>3 DEF MirrorInv, RequestsOwned
<1>6. CalmSettles'
  <2> SUFFICES ASSUME NEW w \in open', calm'[w], NEW l \in Labels PROVE Settling(w, l)'
    BY DEF CalmSettles
  <2>1. w \in open /\ w \in Windows /\ calm[w]
    BY <1>1, <1>2 DEF MirrorInv, WindowsTyped
  <2>2. Settling(w, l)
    BY <2>1 DEF MirrorInv, CalmSettles
  <2>3. CASE ~(w = v /\ l \in DOMAIN value)
    <3>1. mirror'[w][l] = mirror[w][l]
      BY <1>1, <1>2, <2>1, <2>3 DEF MirrorInv, WindowsTyped
    <3>2. QED
      BY <1>1, <1>3, <2>2, <2>3, <3>1, SettlingUntouched
  <2>4. CASE w = v /\ l \in DOMAIN value
    <3>1. Undisturbed(requests, v, l)
      BY <1>1, <1>2, <2>4 DEF MirrorInv, WindowsTyped
    <3>2. \A o \in About(v, l) : o.op \in {"set", "load"}
      BY <3>1 DEF Undisturbed, Mounting, About, LabelsInv, TypeOK, RequestType
    <3>3. l = "title" => About(v, l) = {}
      BY <3>1 DEF Undisturbed, About
    <3>4. PICK new \in About(v, l)' :
             /\ new.op = "set" /\ new.newest /\ new.st = "called"
             /\ \A q \in About(v, l)' :
                   q = new \/ \E o \in About(v, l) : IF o.op \in {"set", "load"} THEN q.op = o.op /\ ~q.newest
                                                     ELSE q = o
      BY <2>4, AboutWritten
    <3>5. \A q \in About(v, l)' : q = new \/ (q.op \in {"set", "load"} /\ ~q.newest /\ l # "title")
      BY <3>2, <3>3, <3>4
    <3>6. QED
      BY <2>4, <3>4, <3>5 DEF Settling
  <2>5. QED
    BY <2>3, <2>4
<1>7. QED
  BY <1>4, <1>5, <1>6 DEF MirrorInv

\* Serving a request makes none and ends none, and the first load of a flag is served
\* once the migration has ended.
LEMMA OwnedServed ==
    ASSUME LabelsInv, RequestsOwned, NEW r \in requests, NEW st \in {"ok", "error"}, Served(r, st),
           UNCHANGED <<open, migrated>>,
           r.op = "mount" => st = "ok" /\ (r.l \in Flags => migrated[r.w])
    PROVE  RequestsOwned'
<1>1. PICK s :
        /\ s.op = r.op /\ s.w = r.w /\ s.l = r.l /\ s.newest = r.newest /\ s.st = st
        /\ requests' = (requests \ {r}) \cup {s}
  BY AboutServed
<1>2. \A w \in open, l \in Flags :
         (\A q \in requests' : q.op = "mount" /\ q.w = w /\ q.l = l => q.st = "ok") => migrated'[w]
  BY <1>1 DEF RequestsOwned
<1>3. QED
  BY <1>1, <1>2 DEF RequestsOwned

\* A write served late enough disturbs; in a window still calm, the one served last is
\* the newest, and its answer has all of them.
LEMMA MirrorServeWrite ==
    ASSUME LabelsInv, MirrorInv, NEW r \in requests, ServeWrite(r)
    PROVE  MirrorInv'
<1>1. /\ r.st = "called" /\ r.op = "set" /\ Served(r, "ok") /\ Disturbed(r)
      /\ store' = Put(store, r.l, r.id, r.value)
      /\ UNCHANGED <<open, migrated, mirror>>
  BY DEF ServeWrite
<1>2. r \in RequestType
  BY DEF LabelsInv, TypeOK
<1>3. \A l \in Labels : l # r.l => store'[l] = store[l]
  BY <1>1, <1>2 DEF Put, LabelsInv, TypeOK, RequestType
<1>4. PICK s :
        /\ s.op = r.op /\ s.w = r.w /\ s.l = r.l /\ s.newest = r.newest /\ s.st = "ok" /\ s.ans = store'[r.l]
        /\ \A w, l : About(w, l)' = IF r \in About(w, l) THEN (About(w, l) \ {r}) \cup {s} ELSE About(w, l)
  BY <1>1, AboutServed
<1>5. /\ DOMAIN calm' = Windows
      /\ \A w \in Windows : calm'[w] =>
            /\ calm[w]
            /\ w # r.w => store' = store
            /\ w = r.w /\ r.newest => ~\E o \in Pending(w) \ {r} : o.op = "set" /\ o.l = r.l /\ o.st = "called"
  BY <1>1 DEF Disturbed
<1>6. WindowsTyped' /\ RequestsOwned'
  BY <1>1, <1>5, OwnedServed DEF MirrorInv, WindowsTyped
<1>7. CalmSettles'
  <2> SUFFICES ASSUME NEW w \in open', calm'[w], NEW l \in Labels PROVE Settling(w, l)'
    BY DEF CalmSettles
  <2>1. w \in open /\ w \in Windows /\ calm[w] /\ Settling(w, l)
    BY <1>1, <1>5 DEF MirrorInv, WindowsTyped, CalmSettles
  <2>2. CASE ~(w = r.w /\ l = r.l)
    <3>1. About(w, l)' = About(w, l)
      BY <1>4, <2>2 DEF About
    <3>2. store'[l] = store[l]
      BY <1>3, <1>5, <2>1, <2>2
    <3>3. QED
      BY <1>1, <2>1, <3>1, <3>2, SettlingUntouched
  <2>3. CASE w = r.w /\ l = r.l
    <3>1. r \in About(w, l) /\ About(w, l)' = (About(w, l) \ {r}) \cup {s}
      BY <1>1, <1>4, <2>3 DEF About
    <3>2. Awaited(w, l)
      BY <1>1, <3>1 DEF Awaited
    <3>3. \A q \in About(w, l) : q.newest => q.st # "ok"
      BY <2>1, <3>2 DEF Settling
    <3>4. \E q \in About(w, l) : q.newest
      BY <2>1, <3>2 DEF Settling
    <3>5. r.newest => ~Awaited(w, l)'
      <4> SUFFICES ASSUME r.newest, NEW o \in About(w, l)', o.op = "set", o.st = "called" PROVE FALSE
        BY DEF Awaited
      <4>1. o \in Pending(w) \ {r} /\ o.l = r.l
        BY <1>4, <2>3, <3>1 DEF About, Pending
      <4>2. QED
        BY <1>5, <2>1, <2>3, <4>1
    <3>6. \E q \in About(w, l)' : q.newest
      BY <1>4, <3>1, <3>4
    <3>7. \A q \in About(w, l)' : q.newest /\ q.st = "ok" => q.ans = store'[l] /\ ~Awaited(w, l)'
      BY <1>4, <2>3, <3>1, <3>3, <3>5
    <3>8. /\ ~\E q \in About(w, l)' : q.op = "mount"
          /\ l = "title" => \A p, q \in About(w, l)' : p = q /\ q.newest
          /\ \A p, q \in About(w, l)' : p.newest /\ q.newest => p = q
      BY <1>1, <1>4, <2>1, <3>1 DEF Settling
    <3>9. QED
      BY <3>6, <3>7, <3>8 DEF Settling
  <2>4. QED
    BY <2>2, <2>3
<1>8. QED
  BY <1>6, <1>7 DEF MirrorInv

\* The merge changes flags that its own window has not loaded yet.
LEMMA MirrorServeMerge ==
    ASSUME LabelsInv, MirrorInv, NEW r \in requests, ServeMerge(r)
    PROVE  MirrorInv'
<1>1. /\ r.st = "called" /\ r.op = "merge" /\ Served(r, "ok") /\ Disturbed(r)
      /\ store' = MergedFlags(r.carry) /\ r.carry \subseteq Legacy
      /\ UNCHANGED <<open, migrated, mirror>>
  BY DEF ServeMerge, LabelsInv, TypeOK, RequestType
<1>2. store'["title"] = store["title"]
  <2>1. \A id \in Labelled : <<"title", id>> \notin r.carry
    BY <1>1, LabelsAssumed DEF Flags
  <2>2. store' = [l \in Labels |-> [id \in Labelled |-> IF <<l, id>> \in r.carry THEN "on" ELSE store[l][id]]]
    BY <1>1 DEF MergedFlags
  <2>3. QED
    BY <2>1, <2>2 DEF LabelsInv, TypeOK, Notes, Labels
<1>3. \A w, l : About(w, l)' = About(w, l)
  <2>1. \A w, l : r \notin About(w, l)
    BY <1>1 DEF About
  <2>2. QED
    BY <1>1, <2>1, AboutServed
<1>4. /\ DOMAIN calm' = Windows
      /\ \A w \in Windows : calm'[w] => calm[w] /\ (w # r.w => store' = store)
  BY <1>1 DEF Disturbed
<1>5. WindowsTyped' /\ RequestsOwned'
  BY <1>1, <1>4, OwnedServed DEF MirrorInv, WindowsTyped
<1>6. CalmSettles'
  <2> SUFFICES ASSUME NEW w \in open', calm'[w], NEW l \in Labels PROVE Settling(w, l)'
    BY DEF CalmSettles
  <2>1. w \in open /\ w \in Windows /\ calm[w] /\ Settling(w, l)
    BY <1>1, <1>4 DEF MirrorInv, WindowsTyped, CalmSettles
  <2>2. CASE w # r.w \/ l = "title"
    BY <1>1, <1>2, <1>3, <1>4, <2>1, <2>2, SettlingUntouched
  <2>3. CASE w = r.w /\ l \in Flags
    <3>1. ~migrated[w]
      BY <1>1, <2>3 DEF MirrorInv, RequestsOwned
    <3>2. PICK m \in About(w, l) : m.op = "mount" /\ m.st # "ok"
      BY <2>1, <2>3, <3>1 DEF MirrorInv, RequestsOwned, About
    <3>3. \A q \in About(w, l) : q = m
      BY <2>1, <3>2 DEF Settling, MirrorInv, RequestsOwned, About
    <3>4. m.newest
      BY <3>2 DEF MirrorInv, RequestsOwned, About
    <3>5. QED
      BY <1>3, <2>1, <3>2, <3>3, <3>4 DEF Settling
  <2>4. QED
    BY <2>2, <2>3 DEF Labels
<1>7. QED
  BY <1>5, <1>6 DEF MirrorInv

\* A load answers with the store, and disturbs when an older write is still to be served.
LEMMA MirrorServeLoad ==
    ASSUME LabelsInv, MirrorInv, NEW r \in requests, ServeLoad(r)
    PROVE  MirrorInv'
<1>1. /\ r.st = "called" /\ r.op \in {"mount", "load"} /\ Served(r, "ok") /\ Disturbed(r)
      /\ r.l = "title" \/ migrated[r.w]
      /\ UNCHANGED <<store, open, migrated, mirror>>
  BY DEF ServeLoad
<1>2. PICK s :
        /\ s.op = r.op /\ s.w = r.w /\ s.l = r.l /\ s.newest = r.newest /\ s.st = "ok" /\ s.ans = store'[r.l]
        /\ \A w, l : About(w, l)' = IF r \in About(w, l) THEN (About(w, l) \ {r}) \cup {s} ELSE About(w, l)
  BY <1>1, AboutServed
<1>3. /\ DOMAIN calm' = Windows
      /\ \A w \in Windows : calm'[w] =>
            /\ calm[w]
            /\ w = r.w /\ r.op = "load" /\ r.newest
                 => ~\E o \in Pending(w) \ {r} : o.op = "set" /\ o.l = r.l /\ o.st = "called"
  BY <1>1 DEF Disturbed
<1>4. WindowsTyped' /\ RequestsOwned'
  BY <1>1, <1>3, OwnedServed DEF MirrorInv, WindowsTyped, Flags
<1>5. CalmSettles'
  <2> SUFFICES ASSUME NEW w \in open', calm'[w], NEW l \in Labels PROVE Settling(w, l)'
    BY DEF CalmSettles
  <2>1. w \in open /\ w \in Windows /\ calm[w] /\ Settling(w, l)
    BY <1>1, <1>3 DEF MirrorInv, WindowsTyped, CalmSettles
  <2>2. CASE ~(w = r.w /\ l = r.l)
    <3>1. About(w, l)' = About(w, l)
      BY <1>2, <2>2 DEF About
    <3>2. QED
      BY <1>1, <2>1, <3>1, SettlingUntouched
  <2>3. CASE w = r.w /\ l = r.l
    <3>1. r \in About(w, l) /\ About(w, l)' = (About(w, l) \ {r}) \cup {s}
      BY <1>1, <1>2, <2>3 DEF About
    <3>2. Awaited(w, l)' => Awaited(w, l)
      BY <1>2, <3>1 DEF Awaited
    <3>3. r.newest => ~Awaited(w, l)
      <4>1. CASE r.op = "mount"
        BY <2>1, <3>1, <4>1 DEF Settling, Awaited
      <4>2. CASE r.op = "load"
        BY <1>3, <2>1, <2>3, <4>2 DEF Awaited, About, Pending
      <4>3. QED
        BY <1>1, <4>1, <4>2
    <3>4. \A q \in About(w, l)' : q.newest /\ q.st = "ok" => q.ans = store'[l] /\ ~Awaited(w, l)'
      BY <1>1, <1>2, <2>1, <2>3, <3>1, <3>2, <3>3 DEF Settling
    <3>5. /\ (\E q \in About(w, l)' : q.op = "mount") => \A q \in About(w, l)' : q.op = "mount"
          /\ l = "title" => \A p, q \in About(w, l)' : p = q /\ q.newest
          /\ \A p, q \in About(w, l)' : p.newest /\ q.newest => p = q
      BY <1>2, <2>1, <3>1 DEF Settling
    <3>6. (\A q \in About(w, l)' : ~q.newest) => mirror'[w][l] = store'[l] /\ ~Awaited(w, l)'
      BY <1>1, <1>2, <2>1, <3>1, <3>2 DEF Settling
    <3>7. QED
      BY <3>4, <3>5, <3>6 DEF Settling
  <2>4. QED
    BY <2>2, <2>3
<1>6. QED
  BY <1>4, <1>5 DEF MirrorInv

\* A write the disk refuses changes nothing that is shown or stored.
LEMMA MirrorServeFails ==
    ASSUME LabelsInv, MirrorInv, NEW r \in requests, ServeFails(r)
    PROVE  MirrorInv'
<1>1. /\ r.st = "called" /\ r.op \in {"set", "merge"} /\ Served(r, "error")
      /\ UNCHANGED <<store, open, migrated, mirror, calm>>
  BY DEF ServeFails
<1>2. PICK s :
        /\ s.op = r.op /\ s.w = r.w /\ s.l = r.l /\ s.newest = r.newest /\ s.st = "error"
        /\ \A w, l : About(w, l)' = IF r \in About(w, l) THEN (About(w, l) \ {r}) \cup {s} ELSE About(w, l)
  BY <1>1, AboutServed
<1>3. WindowsTyped' /\ RequestsOwned'
  BY <1>1, OwnedServed DEF MirrorInv, WindowsTyped
<1>4. CalmSettles'
  <2> SUFFICES ASSUME NEW w \in open', calm'[w], NEW l \in Labels PROVE Settling(w, l)'
    BY DEF CalmSettles
  <2>1. Settling(w, l)
    BY <1>1 DEF MirrorInv, CalmSettles
  <2>2. CASE r \notin About(w, l)
    BY <1>1, <1>2, <2>1, <2>2, SettlingUntouched
  <2>3. CASE r \in About(w, l)
    <3>1. About(w, l)' = (About(w, l) \ {r}) \cup {s}
      BY <1>2, <2>3
    <3>2. Awaited(w, l)' => Awaited(w, l)
      BY <1>2, <3>1 DEF Awaited
    <3>3. QED
      BY <1>1, <1>2, <2>1, <2>3, <3>1, <3>2 DEF Settling
  <2>4. QED
    BY <2>2, <2>3
<1>5. QED
  BY <1>3, <1>4 DEF MirrorInv

\* The end of the merge is the end of the migration, whatever came of it.
LEMMA MirrorMergeAnswered ==
    ASSUME LabelsInv, MirrorInv, NEW r \in requests, MergeAnswered(r)
    PROVE  MirrorInv'
<1>1. /\ r.op = "merge" /\ migrated' = [migrated EXCEPT ![r.w] = TRUE]
      /\ requests' = requests \ {r} /\ UNCHANGED <<store, open, mirror, calm>>
  BY DEF MergeAnswered
<1>2. r.w \in Windows
  BY DEF LabelsInv, TypeOK, RequestType
<1>3. WindowsTyped' /\ RequestsOwned'
  <2>1. WindowsTyped'
    BY <1>1 DEF MirrorInv, WindowsTyped
  <2>2. \A w \in Windows : migrated'[w] = (w = r.w \/ migrated[w])
    BY <1>1 DEF MirrorInv, WindowsTyped
  <2>3. \A q \in requests' : q.op = "merge" => ~migrated'[q.w]
    BY <1>1, <2>2 DEF MirrorInv, WindowsTyped, RequestsOwned
  <2>4. \A w \in open', l \in Flags :
         (\A q \in requests' : q.op = "mount" /\ q.w = w /\ q.l = l => q.st = "ok") => migrated'[w]
    BY <1>1, <2>2 DEF MirrorInv, WindowsTyped, RequestsOwned
  <2>5. QED
    BY <1>1, <2>1, <2>3, <2>4 DEF MirrorInv, RequestsOwned
<1>4. \A w, l : About(w, l)' = About(w, l)
  BY <1>1 DEF About
<1>5. CalmSettles'
  BY <1>1, <1>4, SettlingUntouched DEF MirrorInv, CalmSettles
<1>6. QED
  BY <1>3, <1>5 DEF MirrorInv

\* The answer of the newest write is shown, or its failure read back; older answers are
\* dropped.
LEMMA MirrorLabelAnswered ==
    ASSUME LabelsInv, MirrorInv, NEW r \in requests, LabelAnswered(r)
    PROVE  MirrorInv'
<1> DEFINE again == Request(r.n, "load", r.w, r.l, r.id, r.value)
<1>1. /\ r.st # "called" /\ r.op # "merge" /\ UNCHANGED <<store, open, migrated, calm>>
      /\ r.st = "ok" => /\ mirror' = IF Reconciles(r) THEN [mirror EXCEPT ![r.w][r.l] = r.ans] ELSE mirror
                        /\ requests' = requests \ {r}
      /\ r.st # "ok" => /\ requests' = (requests \ {r}) \cup (IF Reconciles(r) THEN {again} ELSE {})
                        /\ UNCHANGED mirror
  BY DEF LabelAnswered, Answered
<1>2. r \in RequestType /\ r.w \in open /\ r.w \in Windows /\ r.l \in Labels /\ r.ans \in Notes
  BY DEF LabelsInv, TypeOK, RequestType, MirrorInv, RequestsOwned
<1>3. again.op = "load" /\ again.w = r.w /\ again.l = r.l /\ again.newest /\ again.st = "called"
  BY DEF Request, Carrying
<1> HIDE DEF again
<1>4. WindowsTyped'
  <2>1. [mirror[r.w] EXCEPT ![r.l] = r.ans] \in [Labels -> Notes]
    BY <1>2 DEF MirrorInv, WindowsTyped
  <2>2. mirror' = mirror \/ mirror' = [mirror EXCEPT ![r.w] = [mirror[r.w] EXCEPT ![r.l] = r.ans]]
    BY <1>1, <1>2 DEF MirrorInv, WindowsTyped
  <2>3. CASE mirror' = mirror
    BY <1>1, <2>3 DEF MirrorInv, WindowsTyped
  <2>4. CASE mirror' = [mirror EXCEPT ![r.w] = [mirror[r.w] EXCEPT ![r.l] = r.ans]]
    BY <1>1, <1>2, <2>1, <2>4 DEF MirrorInv, WindowsTyped
  <2>5. QED
    BY <2>2, <2>3, <2>4
<1>5. RequestsOwned'
  <2>1. \A q \in requests' : q = again \/ q \in requests
    BY <1>1
  <2>2. \A q \in requests : q = r \/ q \in requests'
    BY <1>1
  <2>3. r.op = "mount" => r.st = "ok"
    BY <1>1, <1>2 DEF MirrorInv, RequestsOwned, RequestType
  <2>4. QED
    BY <1>1, <1>2, <1>3, <2>1, <2>2, <2>3 DEF MirrorInv, RequestsOwned
<1>6. CalmSettles'
  <2> SUFFICES ASSUME NEW w \in open', calm'[w], NEW l \in Labels PROVE Settling(w, l)'
    BY DEF CalmSettles
  <2>1. w \in Windows /\ Settling(w, l)
    BY <1>1 DEF MirrorInv, WindowsTyped, CalmSettles
  <2>2. CASE ~(w = r.w /\ l = r.l)
    <3>1. About(w, l)' = About(w, l)
      BY <1>1, <1>3, <2>2 DEF About
    <3>2. mirror'[w][l] = mirror[w][l]
      BY <1>1, <1>2, <2>1, <2>2 DEF MirrorInv, WindowsTyped
    <3>3. QED
      BY <1>1, <2>1, <3>1, <3>2, SettlingUntouched
  <2>3. CASE w = r.w /\ l = r.l
    <3>1. r \in About(w, l)
      BY <1>1, <2>3 DEF About
    <3>2. Reconciles(r) => r.newest
      BY <2>1, <2>3, <3>1 DEF Reconciles, Settling, MirrorInv, RequestsOwned
    <3>3. CASE r.st = "ok"
      <4>1. About(w, l)' = About(w, l) \ {r}
        BY <1>1, <3>3 DEF About
      <4>2. Awaited(w, l)' => Awaited(w, l)
        BY <4>1 DEF Awaited
      <4>3. CASE r.newest
        <5>1. mirror'[w][l] = store[l] /\ ~Awaited(w, l)
          BY <1>1, <1>2, <2>1, <2>3, <3>1, <3>3, <4>3 DEF Reconciles, Settling, MirrorInv, WindowsTyped
        <5>2. \A q \in About(w, l)' : ~q.newest
          BY <2>1, <3>1, <4>1, <4>3 DEF Settling
        <5>3. QED
          BY <1>1, <2>1, <4>1, <4>2, <5>1, <5>2 DEF Settling
      <4>4. CASE ~r.newest
        <5>1. mirror' = mirror
          BY <1>1, <3>2, <3>3, <4>4
        <5>2. QED
          BY <1>1, <2>1, <3>1, <4>1, <4>2, <4>4, <5>1 DEF Settling
      <4>5. QED
        BY <4>3, <4>4
    <3>4. CASE r.st # "ok"
      <4>1. mirror' = mirror
        BY <1>1, <3>4
      <4>2. CASE Reconciles(r)
        <5>1. About(w, l)' = (About(w, l) \ {r}) \cup {again}
          BY <1>1, <1>3, <2>3, <3>4, <4>2 DEF About
        <5>2. \A q \in About(w, l) \ {r} : ~q.newest /\ l # "title"
          BY <2>1, <3>1, <3>2, <4>2 DEF Settling
        <5>3. \A q \in About(w, l) : q.op # "mount"
          BY <1>1, <1>2, <2>1, <3>1, <3>4 DEF Settling, MirrorInv, RequestsOwned, RequestType
        <5>4. QED
          BY <1>3, <5>1, <5>2, <5>3 DEF Settling
      <4>3. CASE ~Reconciles(r)
        <5>1. About(w, l)' = About(w, l) \ {r} /\ ~r.newest
          BY <1>1, <3>4, <4>3 DEF About, Reconciles
        <5>2. Awaited(w, l)' => Awaited(w, l)
          BY <5>1 DEF Awaited
        <5>3. QED
          BY <1>1, <2>1, <3>1, <4>1, <5>1, <5>2 DEF Settling
      <4>4. QED
        BY <4>2, <4>3
    <3>5. QED
      BY <3>3, <3>4
  <2>4. QED
    BY <2>2, <2>3
<1>7. QED
  BY <1>4, <1>5, <1>6 DEF MirrorInv

\* Every step keeps what calm windows show on the way to the store.
LEMMA MirrorStep ==
    ASSUME LabelsInv, MirrorInv, LabelsNext
    PROVE  MirrorInv'
<1>1. ASSUME NEW w \in open, NEW id \in Labelled,
             TogglePin(w, id) \/ ToggleArchived(w, id) \/ \E name \in Names \cup {"off"} : Rename(w, id, name)
      PROVE MirrorInv'
  <2>1. CASE TogglePin(w, id)
    <3> DEFINE value == [pinned |-> Flip(mirror[w]["pinned"][id])]
    <3>1. DOMAIN value = {"pinned"} /\ value["pinned"] \in {"on", "off"}
      BY DEF Flip
    <3>2. Writes(w, id, value)
      BY <2>1 DEF TogglePin
    <3> HIDE DEF value
    <3>3. QED
      BY <3>1, <3>2, MirrorWrites DEF Labels, Flags, Values
  <2>2. CASE ToggleArchived(w, id)
    <3> DEFINE value == IF mirror[w]["archived"][id] = "on" THEN [archived |-> "off"]
                        ELSE [pinned |-> "off", archived |-> "on"]
    <3>1. DOMAIN value \subseteq {"pinned", "archived"} /\ \A l \in DOMAIN value : value[l] \in {"on", "off"}
      OBVIOUS
    <3>2. Writes(w, id, value)
      BY <2>2 DEF ToggleArchived
    <3> HIDE DEF value
    <3>3. QED
      BY <3>1, <3>2, MirrorWrites DEF Labels, Flags, Values
  <2>3. ASSUME NEW name \in Names \cup {"off"}, Rename(w, id, name) PROVE MirrorInv'
    <3> DEFINE value == [title |-> name]
    <3>1. DOMAIN value = {"title"} /\ value["title"] = name
      OBVIOUS
    <3>2. Writes(w, id, value)
      BY <2>3 DEF Rename
    <3> HIDE DEF value
    <3>3. QED
      BY <3>1, <3>2, MirrorWrites DEF Labels, Flags, Values
  <2>4. QED
    BY <1>1, <2>1, <2>2, <2>3
<1>2. QED
  BY <1>1, MirrorOpens, MirrorDies, MirrorServeWrite, MirrorServeMerge, MirrorServeLoad, MirrorServeFails,
     MirrorMergeAnswered, MirrorLabelAnswered
  DEF LabelsNext, LabelsServed, LabelsAnswers, Labels1

\* However many windows, clicks and refused writes: a window that is calm, and that has its
\* answers, shows the store.  A window is no longer calm once another window's write or
\* merge has changed the store, once its newest request of a label was served before an
\* older write of that label, or once a click was made before the first load of its label
\* was answered, or over a rename under way: of such windows this says nothing.
THEOREM MirrorsSettle == LabelsSpec => []MirrorSettles
<1> DEFINE Inv == LabelsInv /\ MirrorInv
<1>1. left \in Plans /\ LabelsInit => Inv
  BY LabelsInitially DEF LabelsInit, MirrorInv, WindowsTyped, RequestsOwned, CalmSettles, Blank, Notes, Values
<1>2. Inv /\ [LabelsNext]_<<labelVars, left>> => Inv'
  <2>1. ASSUME Inv, UNCHANGED <<labelVars, left>> PROVE MirrorInv'
    BY <2>1 DEF MirrorInv, WindowsTyped, RequestsOwned, CalmSettles, Settling, Awaited, About, labelVars
  <2>2. QED
    BY <2>1, LabelsStep, LabelsStutter, MirrorStep
<1>3. Inv => MirrorSettles
  <2> SUFFICES ASSUME Inv, NEW w \in open, calm[w], Pending(w) = {} PROVE mirror[w] = store
    BY DEF MirrorSettles
  <2>1. \A l \in Labels : mirror[w][l] = store[l]
    BY DEF Pending, About, MirrorInv, CalmSettles, Settling
  <2>2. w \in Windows
    BY DEF MirrorInv, WindowsTyped
  <2>3. QED
    BY <2>1, <2>2 DEF LabelsInv, TypeOK, MirrorInv, WindowsTyped
<1> HIDE DEF Inv
<1>4. QED
  BY <1>1, <1>2, <1>3, PTL DEF LabelsSpec
=============================================================================
