------------------------------ MODULE MCWindow ------------------------------
(* The parts of the window beside the transcript, each with its own plans: in *)
(* a behaviour one of them moves, the one its plan names.                      *)
EXTENDS TaskList, TaskLabels, ProjectRail, FileTree, GitPanel, TLC

listAll == <<listVars, calls, left>>
treeAll == <<treeVars, left>>
vars == <<listAll, labelVars, railVars, treeVars, gitVars>>

Part(p) == left.part = p
Init ==
    /\ left \in Plans
    /\ ListInit /\ calls = IF Part("list") THEN Called({}, "list", Ids) ELSE {}
    /\ LabelsInit /\ RailInit /\ TreeInit /\ GitInit
Next ==
    \/ Part("list") /\ ListNext /\ UNCHANGED <<labelVars, railVars, treeVars, gitVars>>
    \/ Part("labels") /\ LabelsNext /\ UNCHANGED <<listVars, calls, railVars, treeVars, gitVars>>
    \/ Part("rail") /\ RailNext /\ UNCHANGED <<listVars, calls, labelVars, treeVars, gitVars>>
    \/ Part("tree") /\ TreeNext /\ UNCHANGED <<listVars, calls, labelVars, railVars, gitVars>>
    \/ Part("git") /\ GitNext /\ UNCHANGED <<listVars, calls, labelVars, railVars, treeVars>>
Spec == Init /\ [][Next]_vars

\* The host serves and answers, timers fire, a hidden window is shown again.
Fairness ==
    /\ WF_listAll(Part("list") /\ ListServed) /\ WF_listAll(Part("list") /\ ListAnswers)
    /\ WF_listAll(Part("list") /\ ListTimers) /\ WF_listAll(Part("list") /\ NoticeArrives)
    /\ WF_listAll(Part("list") /\ Shown) /\ WF_listAll(Part("list") /\ Poll)
    /\ WF_treeAll(Part("tree") /\ ServeListing) /\ WF_treeAll(Part("tree") /\ TreeAnswers)
    /\ WF_treeAll(Part("tree") /\ SafetyRefresh)
FairSpec == Spec /\ Fairness

----------------------------------------------------------------------------
(* The plans: each bounds what happens beside the calls that answer it.    *)

Doings == {"writes", "misses", "searches", "selects", "deletes", "hides", "nudges", "kills", "opens", "labels",
           "refusals", "legacy", "appears", "toggles", "folds", "bumps", "edits", "clicks", "picks", "stages", "commits"}
Plan(part, given) == given @@ [part |-> part, start |-> {}] @@ [d \in Doings |-> 0]

ListPlans == {
    Plan("list", [writes |-> 1, selects |-> 1, start |-> {"t1"}]),          \* an answer for the task left
    Plan("list", [searches |-> 2, selects |-> 1, refusals |-> 1, start |-> {"t1", "t2"}]),
    Plan("list", [deletes |-> 1, start |-> {"t1", "t2"}]),
    Plan("list", [hides |-> 1, nudges |-> 1, refusals |-> 1, start |-> {"t1"}]),
    Plan("list", [misses |-> 1, deletes |-> 1, start |-> {"t1"}])}
LabelPlans == {
    Plan("labels", [opens |-> 1, labels |-> 2, refusals |-> 1]),            \* two clicks, one refused
    Plan("labels", [opens |-> 3, kills |-> 1, refusals |-> 1, legacy |-> 1]),
    Plan("labels", [opens |-> 1, labels |-> 1, refusals |-> 1, legacy |-> 1])}
Rail(folds) == Plan("rail", [appears |-> 1, refusals |-> 1, selects |-> 2, labels |-> 1, toggles |-> 2, kills |-> 1, folds |-> folds])
TreePlans == {
    Plan("tree", [writes |-> 1, selects |-> 2, toggles |-> 1]),
    Plan("tree", [bumps |-> 1, toggles |-> 3]),                             \* clicks in a refresh
    Plan("tree", [selects |-> 2, toggles |-> 2])}
GitPlans == {
    Plan("git", [edits |-> 1, clicks |-> 2, picks |-> 1]),
    Plan("git", [selects |-> 1, stages |-> 1, bumps |-> 1]),
    Plan("git", [selects |-> 2, clicks |-> 2]),
    Plan("git", [stages |-> 1, commits |-> 1, refusals |-> 1])}
WindowPlans == ListPlans \cup LabelPlans \cup {Rail(0)} \cup TreePlans \cup GitPlans

TwoTasks == <<"t1", "t2">>
TwoDirs == <<"d1", "d2">>
OldPin == {<<"pinned", "t1">>}
Spelled == [t1 |-> "App", t2 |-> "Lib"]
LowerCase == [App |-> "app", Lib |-> "lib", app |-> "app", lib |-> "lib"]
=============================================================================
