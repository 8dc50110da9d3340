------------------------------ MODULE GitPanel ------------------------------
(***************************************************************************)
(* The changes of the project (GitChanges, GitDiffHunkPanel): the status   *)
(* listed, the diff of a file opened under its row, the hunks picked in it *)
(* and what stages, unstages and commits.  Every command is asynchronous.  *)
(* A status answers the newest request only; a diff answers whoever is     *)
(* still in the same project.  The host keeps a status for a second, and a *)
(* newer git status of a project stops the one that runs.                  *)
(***************************************************************************)
EXTENDS WindowPlan, FiniteSets

CONSTANTS
    Cwds,           \* the projects
    Paths,          \* their files
    Hunks           \* the hunks a file may have

VARIABLES
    repo,           \* per project and file: the hunks of the work tree and of the index
    cache,          \* per project: the status the host keeps for GIT_CACHE_TTL
    cwd,            \* the project of the panel
    changes, changesOf,     \* the rows listed, and the project they were read from
    diffAt,         \* the row whose diff is open: [path, staged]
    diff,           \* the diff shown: [st, of, path, staged, hunks]
    chosen,         \* the hunks picked
    applying,       \* busy
    gitCalls        \* commands under way

gitVars == <<repo, cache, cwd, changes, changesOf, diffAt, diff, chosen, applying, gitCalls>>

SideOf(staged) == IF staged THEN "index" ELSE "work"
NoRow == [path |-> "none", staged |-> FALSE]
NoDiff == [st |-> "none", of |-> "none", row |-> NoRow, hunks |-> {}]
Rows == {[path |-> p, staged |-> s] : p \in Paths, s \in BOOLEAN}
Status(d) == {row \in Rows : repo[d][row.path][SideOf(row.staged)] # {}}

----------------------------------------------------------------------------
(* Calls.  rows is what a status answers, hunks what a diff answers or a   *)
(* patch is made of.                                                       *)

Git(kind, d, row, hunks) ==
    [kind |-> kind, of |-> d, row |-> row, hunks |-> hunks, st |-> "called", rows |-> {}, newest |-> TRUE]
OlderStatus(cs) == {IF c.kind = "status" THEN [c EXCEPT !.newest = FALSE] ELSE c : c \in cs}
\* refresh: a status that makes the earlier ones stale, whichever project it is for.
Refreshed(cs, d) == OlderStatus(cs) \cup {Git("status", d, NoRow, {})}
Ended(c) == c.st \in {"ok", "error"}
Finished(c, st, rows, hunks) ==
    gitCalls' = (gitCalls \ {c}) \cup {[c EXCEPT !.st = st, !.rows = rows, !.hunks = hunks]}

----------------------------------------------------------------------------
(* The repository.                                                         *)

Edit(d, p, h) ==
    /\ h \notin repo[d][p].work \cup repo[d][p].index /\ Spend("edits")
    /\ repo' = [repo EXCEPT ![d][p].work = @ \cup {h}]
    /\ UNCHANGED <<cache, cwd, changes, changesOf, diffAt, diff, chosen, applying, gitCalls>>

ServeDiff(c) ==
    /\ c.st = "called" /\ c.kind = "diff"
    /\ Finished(c, "ok", {}, repo[c.of][c.row.path][SideOf(c.row.staged)])
    /\ UNCHANGED <<repo, cache, cwd, changes, changesOf, diffAt, diff, chosen, applying, left>>

\* A status is the one kept, or git runs, and the newer run kills the older
\* ones that have not ended yet.
NotKept == [st |-> "none", rows |-> {}]
ServeKept(c) ==
    /\ c.st = "called" /\ c.kind = "status" /\ cache[c.of] # NotKept
    /\ Finished(c, "ok", cache[c.of].rows, {})
    /\ UNCHANGED <<repo, cache, cwd, changes, changesOf, diffAt, diff, chosen, applying, left>>
GitRuns(c) ==
    /\ c.st = "called" /\ c.kind = "status" /\ cache[c.of] = NotKept
    /\ \E ended \in SUBSET {o \in gitCalls : o.st = "running" /\ o.of = c.of} :
          gitCalls' = {CASE o = c -> [o EXCEPT !.st = "running", !.rows = Status(o.of)]
                         [] o.st = "running" /\ o.of = c.of /\ o \notin ended -> [o EXCEPT !.st = "error", !.rows = {}]
                         [] OTHER -> o : o \in gitCalls}
    /\ UNCHANGED <<repo, cache, cwd, changes, changesOf, diffAt, diff, chosen, applying, left>>
GitExits(c) ==
    /\ c.st = "running"
    /\ cache' = [cache EXCEPT ![c.of] = [st |-> "kept", rows |-> c.rows]]
    /\ Finished(c, "ok", c.rows, {})
    /\ UNCHANGED <<repo, cwd, changes, changesOf, diffAt, diff, chosen, applying, left>>
CacheExpires(d) ==
    /\ cache[d] # NotKept
    /\ cache' = [cache EXCEPT ![d] = NotKept]
    /\ UNCHANGED <<repo, cwd, changes, changesOf, diffAt, diff, chosen, applying, gitCalls, left>>

\* The hunks change sides; a patch whose hunks are not all there does not apply.
Move(file, hunks, staged) ==
    IF staged THEN [work |-> file.work \cup hunks, index |-> file.index \ hunks]
    ELSE [work |-> file.work \ hunks, index |-> file.index \cup hunks]
ServeMove(c) ==
    /\ c.st = "called" /\ c.kind \in {"stage", "apply"}
    /\ LET file == repo[c.of][c.row.path]
           side == file[SideOf(c.row.staged)]
           moved == IF c.kind = "stage" THEN side ELSE c.hunks
           fits == moved \subseteq side
       IN /\ repo' = IF fits THEN [repo EXCEPT ![c.of][c.row.path] = Move(file, moved, c.row.staged)] ELSE repo
          /\ cache' = IF fits THEN [cache EXCEPT ![c.of] = NotKept] ELSE cache
          /\ Finished(c, IF fits THEN "ok" ELSE "error", {}, c.hunks)
    /\ UNCHANGED <<cwd, changes, changesOf, diffAt, diff, chosen, applying, left>>
\* git fails, or the repository is not there.
GitFails(c) ==
    /\ c.st = "called" /\ Spend("refusals")
    /\ Finished(c, "error", {}, c.hunks)
    /\ UNCHANGED <<repo, cache, cwd, changes, changesOf, diffAt, diff, chosen, applying>>
ServeCommit(c) ==
    /\ c.st = "called" /\ c.kind = "commit"
    /\ repo' = [repo EXCEPT ![c.of] = [p \in Paths |-> [repo[c.of][p] EXCEPT !.index = {}]]]
    /\ cache' = [cache EXCEPT ![c.of] = NotKept]
    /\ Finished(c, "ok", {}, {})
    /\ UNCHANGED <<cwd, changes, changesOf, diffAt, diff, chosen, applying, left>>

----------------------------------------------------------------------------
(* The panel.                                                              *)

\* Another project: all that was shown goes, and a status is read.
SetCwd(d) ==
    /\ d # cwd /\ Spend("selects")
    /\ cwd' = d
    /\ changes' = {} /\ changesOf' = "none" /\ diffAt' = NoRow /\ diff' = NoDiff /\ chosen' = {} /\ applying' = FALSE
    /\ gitCalls' = Refreshed(gitCalls, d)
    /\ UNCHANGED <<repo, cache>>

\* Mutant: any status is listed.
AnyAnswers(c) == TRUE
Lists(c) == c.newest /\ c.of = cwd
StatusAnswered(c) ==
    /\ Ended(c) /\ c.kind = "status"
    /\ gitCalls' = gitCalls \ {c}
    /\ IF Lists(c) /\ c.st = "ok"
       THEN changes' = c.rows /\ changesOf' = c.of /\ chosen' = IF c.rows = {} THEN {} ELSE chosen
       ELSE UNCHANGED <<changes, changesOf, chosen>>
    /\ UNCHANGED <<repo, cache, cwd, diffAt, diff, applying, left>>

\* The 30 s poll and the bumps of refreshKey; the poll comes long after the last status.
Bumped == Spend("bumps") /\ gitCalls' = Refreshed(gitCalls, cwd)
             /\ UNCHANGED <<repo, cache, cwd, changes, changesOf, diffAt, diff, chosen, applying>>
PollDue(cs) == ~\E c \in cs : c.kind = "status"
PollStatus == /\ PollDue(gitCalls) /\ cache[cwd] = NotKept
              /\ gitCalls' = Refreshed(gitCalls, cwd)
              /\ UNCHANGED <<repo, cache, cwd, changes, changesOf, diffAt, diff, chosen, applying, left>>

\* A click on a row opens its diff, or closes it; the panel of the diff shown goes.
FileClick(row) ==
    /\ row \in changes /\ Spend("clicks")
    /\ diff' = NoDiff /\ chosen' = {} /\ applying' = FALSE
    /\ IF diffAt = row THEN diffAt' = NoRow /\ UNCHANGED gitCalls
       ELSE diffAt' = row /\ gitCalls' = gitCalls \cup {Git("diff", cwd, row, {})}
    /\ UNCHANGED <<repo, cache, cwd, changes, changesOf>>
DiffLands(c) == c.of = cwd
DiffAnswered(c) ==
    /\ Ended(c) /\ c.kind = "diff"
    /\ gitCalls' = gitCalls \ {c}
    /\ diff' = IF DiffLands(c) /\ c.st = "ok" THEN [st |-> "shown", of |-> c.of, row |-> c.row, hunks |-> c.hunks] ELSE diff
    /\ UNCHANGED <<repo, cache, cwd, changes, changesOf, diffAt, chosen, applying, left>>
PanelShown == diff # NoDiff /\ diffAt # NoRow /\ changes # {}

PickHunk(h) ==
    /\ PanelShown /\ h \in diff.hunks \ chosen /\ Spend("picks")
    /\ chosen' = chosen \cup {h}
    /\ UNCHANGED <<repo, cache, cwd, changes, changesOf, diffAt, diff, applying, gitCalls>>
\* The patch is made of the diff shown and applied to the file it names; one
\* at a time (a bound: the panel of another diff has a busy of its own).
ApplyChosen ==
    /\ PanelShown /\ ~applying /\ ~(\E c \in gitCalls : c.kind = "apply") /\ chosen \cap diff.hunks # {}
    /\ applying' = TRUE
    /\ gitCalls' = gitCalls \cup {Git("apply", cwd, [path |-> diff.row.path, staged |-> diffAt.staged], chosen \cap diff.hunks)}
    /\ UNCHANGED <<repo, cache, cwd, changes, changesOf, diffAt, diff, chosen, left>>
\* Stage, unstage and commit are read back for the project they were for.
StageFile(row) ==
    /\ row \in changes /\ Spend("stages")
    /\ gitCalls' = gitCalls \cup {Git("stage", cwd, row, {})}
    /\ UNCHANGED <<repo, cache, cwd, changes, changesOf, diffAt, diff, chosen, applying>>
Commit ==
    /\ \E row \in changes : row.staged
    /\ Spend("commits")
    /\ gitCalls' = gitCalls \cup {Git("commit", cwd, NoRow, {})}
    /\ UNCHANGED <<repo, cache, cwd, changes, changesOf, diffAt, diff, chosen, applying>>
WriteAnswered(c) ==
    /\ Ended(c) /\ c.kind \in {"stage", "commit", "apply"}
    /\ gitCalls' = IF c.st = "ok" THEN Refreshed(gitCalls \ {c}, c.of) ELSE gitCalls \ {c}
    /\ IF c.kind = "apply"
       THEN /\ applying' = FALSE
            /\ IF c.st = "ok" THEN chosen' = {} /\ diff' = NoDiff /\ diffAt' = NoRow ELSE UNCHANGED <<chosen, diff, diffAt>>
       ELSE UNCHANGED <<applying, chosen, diff, diffAt>>
    /\ UNCHANGED <<repo, cache, cwd, changes, changesOf, left>>

----------------------------------------------------------------------------
GitInit ==
    /\ cache = [d \in Cwds |-> NotKept]
    /\ repo = [d \in Cwds |-> [p \in Paths |-> [work |-> {CHOOSE h \in Hunks : TRUE}, index |-> {}]]]
    /\ cwd = (CHOOSE d \in Cwds : TRUE) /\ changes = {} /\ changesOf = "none" /\ diffAt = NoRow /\ diff = NoDiff
    /\ chosen = {} /\ applying = FALSE
    /\ gitCalls = {Git("status", cwd, NoRow, {})}

GitServed == \E c \in gitCalls : GitFails(c) \/ ServeDiff(c) \/ ServeKept(c) \/ GitRuns(c) \/ GitExits(c)
                                 \/ ServeMove(c) \/ ServeCommit(c)
GitExpires == \E d \in Cwds : CacheExpires(d)
GitAnswers == \E c \in gitCalls : StatusAnswered(c) \/ DiffAnswered(c) \/ WriteAnswered(c)
GitNext ==
    \/ GitServed \/ GitExpires \/ GitAnswers \/ Bumped \/ PollStatus \/ ApplyChosen \/ Commit
    \/ \E d \in Cwds : SetCwd(d) \/ \E p \in Paths, h \in Hunks : Edit(d, p, h)
    \/ \E row \in changes : FileClick(row) \/ StageFile(row)
    \/ \E h \in Hunks : PickHunk(h)
GitSpec == left \in Plans /\ GitInit /\ [][GitNext]_<<gitVars, left>>

----------------------------------------------------------------------------
(* Properties.                                                             *)

\* What is listed, shown and staged is of the panel's project, whatever was
\* asked for another one before.
PanelOfCwd ==
    /\ changesOf \in {cwd, "none"}
    /\ diff # NoDiff => diff.of = cwd

=============================================================================
