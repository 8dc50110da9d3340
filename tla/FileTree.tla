------------------------------ MODULE FileTree ------------------------------
(***************************************************************************)
(* The project tree of the workspace panel (FileTree with                  *)
(* useKeyedSilentRefresh): the folders of the root, those the user has     *)
(* open with their content, and the loads that rebuild it.  A load lists   *)
(* the root and then, one call after the other, the folders it finds open; *)
(* clicks fall between its calls.                                          *)
(***************************************************************************)
EXTENDS WindowPlan, Sequences, SequencesExt, FiniteSets

CONSTANTS
    Roots,          \* the folders of the projects
    Dirs            \* the folders in them, in listing order

VARIABLES
    content,        \* per root and folder: version of its content, 0 when there is none
    root,           \* the root of the panel
    nodes, treeOf,  \* the tree shown, and the root it was read from
    wanted,         \* expandedPathsRef
    loads,          \* loads under way
    expands         \* folders being opened

treeVars == <<content, root, nodes, treeOf, wanted, loads, expands>>

Folders == Range(Dirs)
Absent == [st |-> "absent", loaded |-> FALSE, ver |-> 0]
Shut == [st |-> "shut", loaded |-> FALSE, ver |-> 0]
Open(v) == [st |-> "open", loaded |-> TRUE, ver |-> v]
NoTree == [d \in Folders |-> Absent]
NoAnswer == [st |-> "called", dirs |-> {}, ver |-> 0]

----------------------------------------------------------------------------
(* The disk and the host's listings.                                       *)

Changes(r, d, v) ==
    /\ v # content[r][d] /\ Spend("writes")
    /\ content' = [content EXCEPT ![r][d] = v]
    /\ UNCHANGED <<root, nodes, treeOf, wanted, loads, expands>>

\* A folder that is gone cannot be listed.
Listing(r, d) ==
    [st |-> IF d # "root" /\ content[r][d] = 0 THEN "error" ELSE "ok",
     dirs |-> {f \in Folders : content[r][f] > 0},
     ver |-> IF d = "root" THEN 0 ELSE content[r][d]]
ServeListing ==
    /\ \/ \E l \in loads : l.ans = NoAnswer /\ loads' = (loads \ {l}) \cup {[l EXCEPT !.ans = Listing(l.root, l.at)]} /\ UNCHANGED expands
       \/ \E x \in expands : x.ans = NoAnswer /\ expands' = (expands \ {x}) \cup {[x EXCEPT !.ans = Listing(x.root, x.dir)]} /\ UNCHANGED loads
    /\ UNCHANGED <<content, root, nodes, treeOf, wanted, left>>

----------------------------------------------------------------------------
(* A load (loadRoot, buildLevel).                                          *)

Older(ls) == {[l EXCEPT !.newest = FALSE] : l \in ls}
\* It works from the tree shown when it began, whose paths may be those of another root.
Load(r, silent) ==
    [root |-> r, silent |-> silent, newest |-> TRUE, prev |-> IF treeOf = r THEN nodes ELSE NoTree,
     out |-> NoTree, at |-> "root", todo |-> <<>>, ans |-> NoAnswer]

WantsOpen(l, d) == (l.root = root /\ d \in wanted) \/ l.prev[d].st = "open"
FetchesUnloaded(l, d) == WantsOpen(l, d) /\ ~l.prev[d].loaded
Fetches(l, d) == WantsOpen(l, d) /\ (l.silent \/ ~l.prev[d].loaded)
Built(l, d) == IF WantsOpen(l, d) THEN [l.prev[d] EXCEPT !.st = "open"] ELSE Shut

Lands(l) == l.newest /\ l.root = root
\* The load is over; only the newest one of the root is shown.
Ends(l, tree) ==
    /\ loads' = loads \ {l}
    /\ IF Lands(l) THEN nodes' = tree /\ treeOf' = l.root ELSE UNCHANGED <<nodes, treeOf>>

\* The folders of todo up to the first to be fetched are built at once.
GoesOn(l, out, todo) ==
    LET stops == {i \in DOMAIN todo : Fetches(l, todo[i])}
        stop  == IF stops = {} THEN Len(todo) + 1 ELSE CHOOSE i \in stops : \A j \in stops : i <= j
        past  == {todo[i] : i \in 1..(stop - 1)}
        tree  == [d \in Folders |-> IF d \in past THEN Built(l, d) ELSE out[d]]
        kept  == {d \in {todo[i] : i \in {j \in DOMAIN todo : j <= stop}} : WantsOpen(l, d)}
    IN /\ wanted' = IF l.root = root THEN wanted \cup kept ELSE wanted
       /\ IF stops = {} THEN Ends(l, tree)
          ELSE /\ loads' = (loads \ {l}) \cup
                       {[l EXCEPT !.out = tree, !.at = todo[stop], !.todo = SubSeq(todo, stop + 1, Len(todo)), !.ans = NoAnswer]}
               /\ UNCHANGED <<nodes, treeOf>>

LoadAnswered(l) ==
    /\ l.ans # NoAnswer
    /\ \/ l.ans.st = "error" /\ Ends(l, NoTree) /\ UNCHANGED wanted
       \/ l.ans.st = "ok" /\ l.at = "root" /\ GoesOn(l, NoTree, SelectSeq(Dirs, LAMBDA d : d \in l.ans.dirs))
       \/ l.ans.st = "ok" /\ l.at # "root" /\ GoesOn(l, [l.out EXCEPT ![l.at] = Open(l.ans.ver)], l.todo)
    /\ UNCHANGED <<content, root, expands, left>>

\* Another project: its own open folders, and a load; the tree stays until the load
\* lands.  Back in a project whose tree is still the one shown, its open folders are
\* opened again with what they held: only a refresh lists them again.
SetRoot(r) ==
    /\ r # root /\ Spend("selects")
    /\ root' = r
    /\ wanted' = {}
    /\ loads' = Older(loads) \cup {Load(r, FALSE)}
    /\ UNCHANGED <<content, nodes, treeOf, expands>>

\* refreshKey is bumped for the same root; the safety poll does it too, long
\* after the last load.
Refresh ==
    /\ loads' = Older(loads) \cup {Load(root, TRUE)}
    /\ UNCHANGED <<content, root, nodes, treeOf, wanted, expands>>
RefreshKeyBumped == Spend("bumps") /\ Refresh
SafetyRefresh == loads = {} /\ expands = {} /\ Refresh /\ UNCHANGED left

----------------------------------------------------------------------------
(* Clicks.  The tree shown may still be that of the project before: its    *)
(* rows open and shut, but the host refuses to list its folders.           *)

Toggle(d) ==
    /\ nodes[d].st # "absent" /\ Spend("toggles")
    /\ \/ /\ nodes[d].st = "open"
          /\ nodes' = [nodes EXCEPT ![d].st = "shut"]
          /\ wanted' = IF treeOf = root THEN wanted \ {d} ELSE wanted
          /\ UNCHANGED expands
       \/ /\ nodes[d].st = "shut" /\ nodes[d].loaded
          /\ nodes' = [nodes EXCEPT ![d].st = "open"]
          /\ wanted' = IF treeOf = root THEN wanted \cup {d} ELSE wanted
          /\ UNCHANGED expands
       \/ /\ nodes[d].st = "shut" /\ ~nodes[d].loaded /\ treeOf = root
          /\ expands' = expands \cup {[root |-> root, dir |-> d, ans |-> NoAnswer]}
          /\ UNCHANGED <<nodes, wanted>>
    /\ UNCHANGED <<content, root, treeOf, loads>>

\* The listing of an opened folder; there may be no row for it any more.
ExpandAnswered(x) ==
    /\ x.ans # NoAnswer
    /\ expands' = expands \ {x}
    /\ IF x.root = root /\ x.ans.st = "ok"
       THEN /\ wanted' = wanted \cup {x.dir}
            /\ nodes' = IF treeOf = root /\ nodes[x.dir].st # "absent" THEN [nodes EXCEPT ![x.dir] = Open(x.ans.ver)] ELSE nodes
       ELSE UNCHANGED <<wanted, nodes>>
    /\ UNCHANGED <<content, root, treeOf, loads, left>>

----------------------------------------------------------------------------
TreeInit ==
    /\ content = [r \in Roots |-> [d \in Folders |-> 1]]
    /\ root = (CHOOSE r \in Roots : TRUE) /\ nodes = NoTree /\ treeOf = "none"
    /\ wanted = {} /\ loads = {Load(root, FALSE)} /\ expands = {}

TreeAnswers == (\E l \in loads : LoadAnswered(l)) \/ (\E x \in expands : ExpandAnswered(x))
TreeNext ==
    \/ ServeListing \/ TreeAnswers \/ RefreshKeyBumped \/ SafetyRefresh
    \/ \E r \in Roots : SetRoot(r) \/ \E d \in Folders, v \in 0..2 : Changes(r, d, v)
    \/ \E d \in Folders : Toggle(d)

----------------------------------------------------------------------------
(* Properties.                                                             *)

\* In the end the tree shows the folders on disk, and the open ones with their
\* content; those are the folders the next refresh will open.
TreeCurrent ==
    /\ treeOf = root
    /\ \A d \in Folders :
          /\ (nodes[d].st = "absent") = (content[root][d] = 0)
          /\ nodes[d].st = "open" => nodes[d].ver = content[root][d]
          /\ nodes[d].st = "open" <=> d \in wanted /\ content[root][d] > 0
TreeConverges == <>[](loads = {} /\ expands = {} => TreeCurrent)
=============================================================================
