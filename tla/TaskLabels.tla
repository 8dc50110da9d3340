----------------------------- MODULE TaskLabels -----------------------------
(***************************************************************************)
(* The user's notes on tasks: pins, the archive and names (useStoredIdSet, *)
(* useSessionTitles and the card menu of SessionList).  They live in the   *)
(* host's store, shared by the windows; each window mirrors them.  A       *)
(* change is painted at once and reconciled with the answer, which is the  *)
(* whole store; the host serves the requests of a window in any order.     *)
(* Pins and archive once lived in the browser's storage, which the first   *)
(* load of a window folds into the store.                                  *)
(***************************************************************************)
EXTENDS WindowPlan, FiniteSets, Selections

CONSTANTS
    Windows, Labelled,      \* the windows, the tasks
    Legacy,                 \* what the old storage holds: pairs of flag and task
    Names                   \* names a user may give

VARIABLES
    legacy,         \* the old storage
    store,          \* the host's store
    open,           \* the windows that run
    migrated,       \* migrateOnce of each window has ended
    mirror,         \* what each window shows
    requests,       \* commands under way
    unset,          \* pairs some window asked to clear
    calm            \* per window: nothing disturbed it, see Undisturbed

labelVars == <<legacy, store, open, migrated, mirror, requests, unset, calm>>

Flags == {"pinned", "archived"}
Labels == Flags \cup {"title"}
Blank == [l \in Labels |-> [id \in Labelled |-> "off"]]

\* Every plan says whether there is an old storage, which holds flags.
ASSUME LabelsAssumed ==
    /\ Labelled # {} /\ Legacy \subseteq Flags \X Labelled
    /\ \A p \in Plans : "legacy" \in DOMAIN p

Put(notes, l, id, value) == [notes EXCEPT ![l][id] = value]

----------------------------------------------------------------------------
(* Requests.  A request is a write of one label, a load of one label, or   *)
(* the merge; n tells it from others like it that are under way, newest is *)
(* the comparison of its sequence number, and carry what a merge has read  *)
(* of the old storage.                                                     *)

Carrying(n, op, w, l, id, value, carry) ==
    [n |-> n, op |-> op, w |-> w, l |-> l, id |-> id, value |-> value, newest |-> TRUE,
     st |-> "called", ans |-> [t \in Labelled |-> "off"], carry |-> carry]
Request(n, op, w, l, id, value) == Carrying(n, op, w, l, id, value, {})
AnyTask == CHOOSE id \in Labelled : TRUE     \* in a request that is about all of them
Merging(n, w, carry) == Carrying(n, "merge", w, "pinned", AnyTask, "off", carry)
Pending(w) == {r \in requests : r.w = w}
Mounting(rs, w, l) == \E r \in rs : r.op = "mount" /\ r.w = w /\ r.l = l
Superseded(rs, w, ls) ==
    {IF r.w = w /\ r.l \in ls /\ r.op \in {"set", "load"} THEN [r EXCEPT !.newest = FALSE] ELSE r : r \in rs}

\* apply: one write more under way for each label of value, the newest of its
\* window and label.
Applied(rs, w, id, value) ==
    Superseded(rs, w, DOMAIN value) \cup {Request(FreshNumber(rs), "set", w, l, id, value[l]) : l \in DOMAIN value}

\* A write leaves its window calm unless the first load, or another rename,
\* is still to be answered.
Undisturbed(rs, w, l) ==
    ~Mounting(rs, w, l) /\ (l = "title" => ~\E r \in rs : r.w = w /\ r.l = l)

\* The writes of one click: value holds the new value of each label written.
Writes(w, id, value) ==
    /\ mirror' = [mirror EXCEPT ![w] = [l \in Labels |->
            IF l \in DOMAIN value THEN [@[l] EXCEPT ![id] = value[l]] ELSE @[l]]]
    /\ requests' = Applied(requests, w, id, value)
    /\ unset' = unset \cup {<<l, id>> : l \in {k \in DOMAIN value : value[k] = "off"}}
    /\ calm' = [calm EXCEPT ![w] = @ /\ \A l \in DOMAIN value : Undisturbed(requests, w, l)]
    /\ UNCHANGED <<legacy, store, open, migrated>>

----------------------------------------------------------------------------
(* A window.                                                               *)

\* It mounts: the migration reads the old storage, and every label is loaded
\* once the migration has ended.
Opens(w) ==
    /\ w \notin open
    /\ open' = open \cup {w}
    /\ requests' = requests
            \cup {Request(FreshNumber(requests), "mount", w, l, AnyTask, "off") : l \in Labels}
            \cup (IF legacy = {} THEN {} ELSE {Merging(FreshNumber(requests), w, legacy)})
    /\ migrated' = [migrated EXCEPT ![w] = legacy = {}]
    /\ mirror' = [mirror EXCEPT ![w] = Blank]
    /\ calm' = [calm EXCEPT ![w] = TRUE]
    /\ UNCHANGED <<legacy, store, unset>>

\* It is killed, with its host process and what that had not served.
Dies(w) ==
    /\ w \in open
    /\ Spend("kills")
    /\ open' = open \ {w}
    /\ requests' = requests \ Pending(w)
    /\ UNCHANGED <<legacy, store, migrated, mirror, unset, calm>>

Flip(value) == IF value = "on" THEN "off" ELSE "on"
TogglePin(w, id) == Writes(w, id, [pinned |-> Flip(mirror[w]["pinned"][id])])
\* An archived task is no longer pinned.
ToggleArchived(w, id) ==
    Writes(w, id, IF mirror[w]["archived"][id] = "on" THEN [archived |-> "off"]
                  ELSE [pinned |-> "off", archived |-> "on"])
Rename(w, id, name) == Writes(w, id, [title |-> name])

----------------------------------------------------------------------------
(* The host.  A write re-reads the store under a lock.                     *)

Served(r, st) == requests' = (requests \ {r}) \cup {[r EXCEPT !.st = st, !.ans = store'[r.l]]}
\* Another window's write, or a request served before an older write, disturbs.
Disturbed(r) ==
    calm' = [w \in Windows |->
                /\ calm[w]
                /\ w # r.w => store' = store
                /\ w = r.w /\ r.op \in {"set", "load"} /\ r.newest
                    => ~\E o \in Pending(w) \ {r} : o.op = "set" /\ o.l = r.l /\ o.st = "called"]

ServeWrite(r) ==
    /\ r.st = "called" /\ r.op = "set"
    /\ store' = Put(store, r.l, r.id, r.value)
    /\ Served(r, "ok") /\ Disturbed(r)
    /\ UNCHANGED <<legacy, open, migrated, mirror, unset, left>>
MergedFlags(carry) == [l \in Labels |-> [id \in Labelled |-> IF <<l, id>> \in carry THEN "on" ELSE store[l][id]]]
ServeMerge(r) ==
    /\ r.st = "called" /\ r.op = "merge"
    /\ store' = MergedFlags(r.carry)
    /\ Served(r, "ok") /\ Disturbed(r)
    /\ UNCHANGED <<legacy, open, migrated, mirror, unset, left>>
\* A title is loaded at once, a flag after the migration.
ServeLoad(r) ==
    /\ r.st = "called" /\ r.op \in {"mount", "load"}
    /\ r.l = "title" \/ migrated[r.w]
    /\ UNCHANGED store
    /\ Served(r, "ok") /\ Disturbed(r)
    /\ UNCHANGED <<legacy, open, migrated, mirror, unset, left>>
\* The disk refuses.
ServeFails(r) ==
    /\ r.st = "called" /\ r.op \in {"set", "merge"}
    /\ Spend("refusals")
    /\ UNCHANGED store
    /\ Served(r, "error")
    /\ UNCHANGED <<legacy, open, migrated, mirror, unset, calm>>

----------------------------------------------------------------------------
(* The answers.                                                            *)

Answered(r) == r.st # "called"

\* The old keys go once the merge is done; a failed one leaves them for the
\* next launch.
RemovedAnyway(r) == {}
Removed(r) == IF r.st = "ok" THEN {} ELSE legacy
MergeAnswered(r) ==
    /\ Answered(r) /\ r.op = "merge"
    /\ legacy' = Removed(r)
    /\ migrated' = [migrated EXCEPT ![r.w] = TRUE]
    /\ requests' = requests \ {r}
    /\ UNCHANGED <<store, open, mirror, unset, calm, left>>

\* Only the newest request of a flag reconciles; a name takes every answer.
\* A write that failed is read back instead.
AnyReconciles(r) == TRUE
Reconciles(r) == r.op = "mount" \/ r.l = "title" \/ r.newest
LabelAnswered(r) ==
    /\ Answered(r) /\ r.op # "merge"
    /\ IF r.st = "ok"
       THEN /\ mirror' = IF Reconciles(r) THEN [mirror EXCEPT ![r.w][r.l] = r.ans] ELSE mirror
            /\ requests' = requests \ {r}
       ELSE /\ requests' = (requests \ {r})
                  \cup (IF Reconciles(r) THEN {Request(r.n, "load", r.w, r.l, r.id, r.value)} ELSE {})
            /\ UNCHANGED mirror
    /\ UNCHANGED <<legacy, store, open, migrated, unset, calm, left>>

----------------------------------------------------------------------------
LabelsInit ==
    /\ legacy = IF May("legacy") THEN Legacy ELSE {}
    /\ store = Blank /\ open = {}
    /\ migrated = [w \in Windows |-> FALSE]
    /\ mirror = [w \in Windows |-> Blank]
    /\ requests = {} /\ unset = {}
    /\ calm = [w \in Windows |-> TRUE]

Labels1(w) ==
    \/ Opens(w) /\ Spend("opens")
    \/ Dies(w)
    \/ w \in open /\ Spend("labels")
       /\ \E id \in Labelled : \/ TogglePin(w, id) \/ ToggleArchived(w, id)
                               \/ \E name \in Names \cup {"off"} : Rename(w, id, name)
LabelsServed == \E r \in requests : ServeWrite(r) \/ ServeMerge(r) \/ ServeLoad(r) \/ ServeFails(r)
LabelsAnswers == \E r \in requests : MergeAnswered(r) \/ LabelAnswered(r)
LabelsNext == LabelsServed \/ LabelsAnswers \/ \E w \in Windows : Labels1(w)
LabelsSpec == left \in Plans /\ LabelsInit /\ [][LabelsNext]_<<labelVars, left>>

----------------------------------------------------------------------------
(* Properties.                                                             *)

\* A pin or an archived task of the old storage is never lost: it is in the
\* store, or still in the storage for the next launch, until a window clears it,
\* whatever fails and whichever window is killed between the merge and the removal.
LegacyKept == May("legacy") => \A p \in Legacy \ unset : p \in legacy \/ store[p[1]][p[2]] = "on"

\* A window that is still calm, and that has its answers, shows the store: no other window
\* wrote, no request was served before an older write of its label, and no click was made
\* before the first load, or over a rename under way.
MirrorSettles == \A w \in open : calm[w] /\ Pending(w) = {} => mirror[w] = store
=============================================================================
