----------------------------- MODULE ProjectRail -----------------------------
(***************************************************************************)
(* The sidebar's headers (useProjectGroups): the loaded tasks under the    *)
(* header of their project, or under Pinned or Archived, the headers the   *)
(* user has open, and the one opened to reveal the selected task.  The     *)
(* projects come from an index the host walks, called for each time the    *)
(* projects of the page change.                                            *)
(***************************************************************************)
EXTENDS WindowPlan, FiniteSets

CONSTANTS
    Cards,          \* the tasks
    CwdOf,          \* the folder of each, as it is spelled
    Lower,          \* a spelling in lower case
    StoredPins, StoredArchive   \* what the first load of the flags answers

VARIABLES
    existing,       \* the tasks on disk
    page,           \* the tasks loaded
    pins, archive, flagsDue,    \* the flags, and whether they are still to load
    current,        \* the open task
    walk,           \* the walk under way: [st, keys]
    index,          \* the keys of the projects indexed
    expanded,       \* the headers open, also in the browser's storage
    revealedFor,    \* the selection already revealed
    asked           \* what the user did to the headers since the reveal

railVars == <<existing, page, pins, archive, flagsDue, current, walk, index, expanded, revealedFor, asked>>

NoCard == "none"
Untouched == [closed |-> {}, moved |-> FALSE]
NoWalk == [st |-> "none", keys |-> {}]
Pinned == "pinned"
Archived == "archived"

ASSUME RailCards == Cards # {} /\ NoCard \notin Cards

----------------------------------------------------------------------------
(* The groups.                                                             *)

\* The key of a project in the host's index: Windows folds its case.
HostKey(cwd) == IF May("folds") THEN Lower[cwd] ELSE cwd

\* The exact spelling first, then one that differs in case only; a task the
\* index does not know has a header of its own spelling.
KeyIn(keys, c) ==
    LET cwd == CwdOf[c]
        alike == {k \in keys : Lower[k] = Lower[cwd]}
    IN IF HostKey(cwd) \in keys THEN HostKey(cwd)
       ELSE IF alike # {} THEN CHOOSE k \in alike : TRUE ELSE cwd

\* A task is under one header, and archived wins over pinned.
Holder(keys, pinned, archived, c) ==
    IF c \in archived THEN Archived ELSE IF c \in pinned THEN Pinned ELSE KeyIn(keys, c)
Headers == {Holder(index, pins, archive, c) : c \in page}
Grouped == index # {} /\ page # {}
Signature(cs) == {CwdOf[c] : c \in cs}

----------------------------------------------------------------------------
(* A render: what the tasks, the index, the flags and the selection become,*)
(* and the effect that reveals the open task once per selection.          *)

RevealsAlways(open, cards) == open \in cards
Reveals(open, cards) == open \in cards /\ revealedFor # open
Settles(open, cards) == Reveals(open, cards)
Render(cards, keys, pinned, archived, open, headers) ==
    /\ page' = cards /\ index' = keys /\ pins' = pinned /\ archive' = archived /\ current' = open
    /\ revealedFor' = IF Settles(open, cards) THEN open ELSE revealedFor
    /\ expanded' = IF Reveals(open, cards) THEN headers \cup {Holder(keys, pinned, archived, open)} ELSE headers

TaskAppears(c) ==
    /\ c \notin existing /\ Spend("appears")
    /\ existing' = existing \cup {c}
    /\ UNCHANGED <<page, pins, archive, flagsDue, current, walk, index, expanded, revealedFor, asked>>

\* A page of tasks: other projects cancel the walk under way and call another.
PageLoads ==
    /\ page # existing
    /\ Render(existing, index, pins, archive, current, expanded)
    /\ walk' = IF Signature(existing) # Signature(page) THEN [st |-> "called", keys |-> {}] ELSE walk
    /\ UNCHANGED <<existing, flagsDue, asked, left>>

WalkServed ==
    /\ walk.st = "called"
    /\ walk' = [st |-> "ok", keys |-> {HostKey(cwd) : cwd \in Signature(existing)}]
    /\ UNCHANGED <<existing, page, pins, archive, flagsDue, current, index, expanded, revealedFor, asked, left>>
WalkAnswered ==
    /\ walk.st = "ok"
    /\ walk' = NoWalk
    /\ Render(page, walk.keys, pins, archive, current, expanded)
    /\ UNCHANGED <<existing, flagsDue, asked, left>>
\* Without an index the list stays flat.
WalkFails ==
    /\ walk.st = "called" /\ Spend("refusals")
    /\ walk' = NoWalk
    /\ UNCHANGED <<existing, page, pins, archive, flagsDue, current, index, expanded, revealedFor, asked>>

FlagsLoad ==
    /\ flagsDue
    /\ flagsDue' = FALSE
    /\ Render(page, index, StoredPins, StoredArchive, current, expanded)
    /\ UNCHANGED <<existing, walk, asked, left>>

SelectCard(c) ==
    /\ c \in existing \cup {NoCard} /\ c # current /\ Spend("selects")
    /\ Render(page, index, pins, archive, c, expanded)
    /\ asked' = Untouched
    /\ UNCHANGED <<existing, flagsDue, walk>>

Toggled(set, x) == IF x \in set THEN set \ {x} ELSE set \cup {x}
Moved(c) == asked' = [asked EXCEPT !.moved = @ \/ c = current]
MoveToPinned(c) ==
    /\ c \in page /\ ~flagsDue /\ Spend("labels")
    /\ Render(page, index, Toggled(pins, c), archive, current, expanded)
    /\ Moved(c)
    /\ UNCHANGED <<existing, flagsDue, walk>>
\* An archived task is no longer pinned.
MoveToArchive(c) ==
    /\ c \in page /\ ~flagsDue /\ Spend("labels")
    /\ Render(page, index, IF c \in archive THEN pins ELSE pins \ {c}, Toggled(archive, c), current, expanded)
    /\ Moved(c)
    /\ UNCHANGED <<existing, flagsDue, walk>>

\* A header is opened or closed; that of the pinned tasks has no such button.
ToggleHeader(k) ==
    /\ Grouped /\ k \in Headers \ {Pinned} /\ Spend("toggles")
    /\ Render(page, index, pins, archive, current, Toggled(expanded, k))
    /\ asked' = [asked EXCEPT !.closed = IF k \in expanded /\ current \in {revealedFor, NoCard} THEN @ \cup {k} ELSE @ \ {k}]
    /\ UNCHANGED <<existing, flagsDue, walk>>

\* The next launch: only the open headers, the flags and the disk remain.
Relaunch ==
    /\ ~flagsDue /\ Spend("kills")
    /\ page' = {} /\ index' = {} /\ pins' = {} /\ archive' = {} /\ flagsDue' = TRUE
    /\ current' = NoCard /\ walk' = NoWalk /\ revealedFor' = NoCard /\ asked' = Untouched
    /\ UNCHANGED <<existing, expanded>>

----------------------------------------------------------------------------
RailInit ==
    /\ existing = {CHOOSE c \in Cards : TRUE}
    /\ page = {} /\ index = {} /\ pins = {} /\ archive = {} /\ flagsDue = TRUE
    /\ current = NoCard /\ walk = NoWalk /\ revealedFor = NoCard /\ asked = Untouched
    /\ expanded = {}
RailNext ==
    \/ \E c \in Cards : TaskAppears(c) \/ SelectCard(c) \/ MoveToPinned(c) \/ MoveToArchive(c)
    \/ SelectCard(NoCard) \/ PageLoads \/ WalkServed \/ WalkAnswered \/ WalkFails \/ FlagsLoad \/ Relaunch
    \/ \E k \in Headers : ToggleHeader(k)
RailSpec == left \in Plans /\ RailInit /\ [][RailNext]_<<railVars, left>>

----------------------------------------------------------------------------
(* Properties.                                                             *)

\* A header the user closed after the reveal stays closed while the selection
\* stays, whatever loads: the reveal does not come back.
CollapseSticks == asked.closed \cap expanded = {}

=============================================================================
