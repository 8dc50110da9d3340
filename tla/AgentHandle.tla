---------------------------- MODULE AgentHandle ----------------------------
(***************************************************************************)
(* One handle of the AgentManager (src-tauri/src/agent_manager.rs and      *)
(* agent_manager/reconnect.rs) from the moment its agent is Ready: turns,  *)
(* reverse requests waiting for the user, loss of the transport, reconnect *)
(* and stop.  Each action is one critical section of one thread (the locks *)
(* of agents and pending are taken and released several times within each  *)
(* operation) or one call to an agent process.  Connections are numbered   *)
(* in the order their processes are spawned; the permission mode, the      *)
(* session's models and the texts carried along are left out.              *)
(***************************************************************************)
EXTENDS Naturals, FiniteSets

CONSTANTS
    Prompts,      \* invocations of prompt()
    Gates,        \* reverse requests that have to ask the user
    MaxConns,     \* bound: agent processes spawned for the handle
    MaxLosses,    \* bound: transports lost
    MaxAttempts,  \* length of RECONNECT_DELAYS
    CanStop,      \* whether stop() is called
    None          \* no prompt

Conns == 1..MaxConns
NoConn == 0

ASSUME BoundsPositive ==
    /\ MaxConns \in Nat \ {0}
    /\ MaxLosses \in Nat
    /\ MaxAttempts \in Nat \ {0}
    /\ CanStop \in BOOLEAN

ASSUME GatesFinite == IsFiniteSet(Gates)

ASSUME NamesDisjoint ==
    /\ Prompts \cap Nat = {}
    /\ None \notin Prompts

VARIABLES
    live,          \* the handle is in the agents map
    status,        \* info.status
    client,        \* the connection that owns the handle
    gen,           \* connection_generation
    reconnecting,
    count,         \* info.pending_permission_count
    inflight,      \* in_flight_prompts
    current,       \* current_prompt_id
    pending,       \* gate -> connection its answer goes to, NoConn if not pending
    proc,          \* connection -> its agent process and transport
    genOf,         \* connection -> generation its messages are routed under
    losses,
    ppc, pgen, pconn,            \* prompt threads
    gpc, gconn, gclient,         \* reverse-request threads
    rpc, rclient,                \* resolve_permission
    returned,                    \* gates put back after an answer that failed (history)
    cpc,                         \* handle_transport_closed
    wpc, wcand, wold, wtries,    \* reconnect workers, by failed generation
    spc, sclient,                \* stop()
    adopting       \* prompt named by a queue/changed notification in hand

agentVars  == <<live, status, client, gen, reconnecting, count, inflight, current>>
promptVars == <<ppc, pgen, pconn>>
gateVars   == <<gpc, gconn, gclient>>
answerVars == <<rpc, rclient, returned>>
workerVars == <<wpc, wcand, wold, wtries>>
stopVars   == <<spc, sclient>>
procVars   == <<proc, genOf, losses>>
vars == <<agentVars, pending, procVars, promptVars, gateVars, answerVars, cpc,
          workerVars, stopVars, adopting>>

Statuses == {"starting", "ready", "running", "awaitingPermission", "stopping", "error"}
Closing  == {"stopping", "error"}     \* Stopped is only reported, never stored
Closers  == Prompts \cup Conns

TypeOK ==
    /\ live \in BOOLEAN /\ status \in Statuses
    /\ client \in Conns /\ gen \in Conns /\ reconnecting \in BOOLEAN
    /\ count \in Nat
    /\ inflight \subseteq Prompts /\ current \in Prompts \cup {None}
    /\ pending \in [Gates -> Conns \cup {NoConn}]
    /\ proc \in [Conns -> {"unborn", "up", "lost", "down"}]
    /\ genOf \in [Conns -> Conns \cup {0}]
    /\ losses \in 0..MaxLosses
    /\ ppc \in [Prompts -> {"idle", "dispatch", "call", "succeeded", "failed", "done"}]
    /\ pgen \in [Prompts -> Conns] /\ pconn \in [Prompts -> Conns]
    /\ gpc \in [Gates -> {"idle", "route", "target", "enqueue", "open", "dropped", "parked"}]
    /\ gconn \in [Gates -> Conns] /\ gclient \in [Gates -> Conns]
    /\ rpc \in [Gates -> {"idle", "deliver", "undelivered", "reinsert", "recount"}]
    /\ rclient \in [Gates -> Conns]
    /\ returned \subseteq Gates
    /\ cpc \in [Closers -> {"idle", "check", "take", "update", "done"}]
    /\ wpc \in [Conns -> {"idle", "unstarted", "snapshot", "load", "discard",
                          "restate", "kill", "giveUp", "activate", "abandon",
                          "abandonRestate", "abandonKill", "killOld", "done"}]
    /\ wcand \in [Conns -> Conns] /\ wold \in [Conns -> Conns]
    /\ wtries \in [Conns -> 0..MaxAttempts]
    /\ spc \in {"idle", "cancel", "mark", "remove", "kill", "done"}
    /\ sclient \in Conns
    /\ adopting \in Prompts \cup {None}

\* A handle whose spawn or attach has completed.
Init ==
    /\ live = TRUE /\ status = "ready"
    /\ client = 1 /\ gen = 1 /\ reconnecting = FALSE
    /\ count = 0 /\ inflight = {} /\ current = None
    /\ pending = [g \in Gates |-> NoConn]
    /\ proc = [k \in Conns |-> IF k = 1 THEN "up" ELSE "unborn"]
    /\ genOf = [k \in Conns |-> IF k = 1 THEN 1 ELSE 0]
    /\ losses = 0
    /\ ppc = [p \in Prompts |-> "idle"]
    /\ pgen = [p \in Prompts |-> 1] /\ pconn = [p \in Prompts |-> 1]
    /\ gpc = [g \in Gates |-> "idle"]
    /\ gconn = [g \in Gates |-> 1] /\ gclient = [g \in Gates |-> 1]
    /\ rpc = [g \in Gates |-> "idle"] /\ rclient = [g \in Gates |-> 1]
    /\ returned = {}
    /\ cpc = [t \in Closers |-> "idle"]
    /\ wpc = [w \in Conns |-> "idle"]
    /\ wcand = [w \in Conns |-> 1] /\ wold = [w \in Conns |-> 1]
    /\ wtries = [w \in Conns |-> 0]
    /\ spc = "idle" /\ sclient = 1
    /\ adopting = None

\* is_active_generation
Active(n) == live /\ gen = n /\ ~reconnecting

Open(p)   == {g \in Gates : p[g] # NoConn}
Sent(p)   == ppc[p] \notin {"idle", "dispatch"}

-----------------------------------------------------------------------------
(* Turns: prompt and dispatch_prompt.                                      *)

PromptAdmitted(p) ==
    /\ ppc[p] = "idle"
    /\ live
    /\ status \notin Closing \cup {"starting"}
    /\ ppc' = [ppc EXCEPT ![p] = "dispatch"]
    /\ pgen' = [pgen EXCEPT ![p] = gen]
    /\ pconn' = [pconn EXCEPT ![p] = client]
    /\ UNCHANGED <<agentVars, pending, procVars, gateVars, answerVars, cpc,
                   workerVars, stopVars, adopting>>

PromptDispatched(p) ==
    /\ ppc[p] = "dispatch"
    /\ ppc' = [ppc EXCEPT ![p] = "call"]
    /\ IF live
       THEN /\ current' = IF current = None THEN p ELSE current
            /\ inflight' = inflight \cup {p}
            /\ count' = Cardinality(Open(pending))
            /\ status' = IF Open(pending) = {} THEN "running" ELSE status
       ELSE UNCHANGED <<current, inflight, count, status>>
    /\ UNCHANGED <<live, client, gen, reconnecting, pending, procVars, pgen,
                   pconn, gateVars, answerVars, cpc, workerVars, stopVars, adopting>>

\* session_prompt returns: a result or an error that is not the transport's ...
PromptReturns(p) ==
    /\ ppc[p] = "call"
    /\ \/ proc[pconn[p]] = "up" /\ ppc' = [ppc EXCEPT ![p] = "succeeded"]
       \/ ppc' = [ppc EXCEPT ![p] = "failed"]
    /\ UNCHANGED <<agentVars, pending, procVars, pgen, pconn, gateVars, answerVars,
                   cpc, workerVars, stopVars, adopting>>

\* ... or a transport failure, which calls handle_transport_closed first.
PromptBreaks(p) ==
    /\ ppc[p] = "call"
    /\ proc[pconn[p]] \in {"lost", "down"}
    /\ ppc' = [ppc EXCEPT ![p] = "failed"]
    /\ cpc' = [cpc EXCEPT ![p] = "check"]
    /\ UNCHANGED <<agentVars, pending, procVars, pgen, pconn, gateVars, answerVars,
                   workerVars, stopVars, adopting>>

\* finish_prompt
Finish(p) ==
    /\ inflight' = inflight \ {p}
    /\ current' = IF current = p THEN None ELSE current

\* Mutant: a finished turn does not look at the permissions that are open.
PromptFinishedRegardless(p) ==
    /\ ppc[p] \in {"succeeded", "failed"}
    /\ cpc[p] \in {"idle", "done"}
    /\ ppc' = [ppc EXCEPT ![p] = "done"]
    /\ IF Active(pgen[p])
       THEN Finish(p) /\ status' = IF inflight' = {} THEN "ready" ELSE "running"
       ELSE UNCHANGED <<inflight, current, status>>
    /\ UNCHANGED <<live, client, gen, reconnecting, count, pending, procVars, pgen,
                   pconn, gateVars, answerVars, cpc, workerVars, stopVars, adopting>>

PromptFinished(p) ==
    /\ ppc[p] \in {"succeeded", "failed"}
    /\ cpc[p] \in {"idle", "done"}
    /\ ppc' = [ppc EXCEPT ![p] = "done"]
    /\ IF Active(pgen[p])
       THEN /\ Finish(p)
            /\ status' = IF count > 0 THEN status
                         ELSE IF ppc[p] = "succeeded"
                         THEN IF inflight' = {} THEN "ready" ELSE "running"
                         ELSE IF inflight' = {} /\ status # "error" THEN "ready" ELSE status
       ELSE UNCHANGED <<inflight, current, status>>
    /\ UNCHANGED <<live, client, gen, reconnecting, count, pending, procVars, pgen,
                   pconn, gateVars, answerVars, cpc, workerVars, stopVars, adopting>>

\* finish_notified_prompt: a terminal notification of the owning transport, about
\* prompt p or, with no prompt id, about the current one.
TurnNotified(p) ==
    LET done == IF p = None THEN current ELSE p IN
    /\ Active(genOf[client])
    /\ done # None /\ Sent(done)
    /\ Finish(done)
    /\ status' = IF current # done THEN status
                 ELSE IF count > 0 THEN "awaitingPermission"
                 ELSE IF inflight' = {} THEN "ready" ELSE "running"
    /\ UNCHANGED <<live, client, gen, reconnecting, count, pending, procVars,
                   promptVars, gateVars, answerVars, cpc, workerVars, stopVars, adopting>>

\* x.ai/queue/changed names the running prompt: the generation is checked in one
\* critical section and the prompt adopted in a later one.
QueueChanged(p) ==
    /\ adopting = None
    /\ Active(genOf[client]) /\ Sent(p)
    /\ adopting' = p
    /\ UNCHANGED <<agentVars, pending, procVars, promptVars, gateVars, answerVars,
                   cpc, workerVars, stopVars>>

AdoptRunning ==
    /\ adopting # None
    /\ current' = IF live THEN adopting ELSE current
    /\ adopting' = None
    /\ UNCHANGED <<live, status, client, gen, reconnecting, count, inflight, pending,
                   procVars, promptVars, gateVars, answerVars, cpc, workerVars,
                   stopVars>>

-----------------------------------------------------------------------------
(* Reverse requests: dispatch_handle_request, enqueue_permission.          *)

AgentAsks(g, k) ==
    /\ gpc[g] = "idle"
    /\ proc[k] = "up"
    /\ gpc' = [gpc EXCEPT ![g] = "route"]
    /\ gconn' = [gconn EXCEPT ![g] = k]
    /\ UNCHANGED <<agentVars, pending, procVars, promptVars, gclient, answerVars, cpc,
                   workerVars, stopVars, adopting>>

\* The first connection routes through route_agent_message and looks its target
\* up afterwards; a candidate's inbox binds the target itself, and drops the
\* request only once it has been activated and superseded.
GateRouted(g) ==
    LET k == gconn[g] IN
    /\ gpc[g] = "route"
    /\ gpc' = [gpc EXCEPT ![g] =
                 IF genOf[k] # 0 /\ ~Active(genOf[k]) THEN "dropped"
                 ELSE IF k = 1 THEN "target" ELSE "enqueue"]
    /\ gclient' = [gclient EXCEPT ![g] = k]
    /\ UNCHANGED <<agentVars, pending, procVars, promptVars, gconn, answerVars, cpc,
                   workerVars, stopVars, adopting>>

\* A handle that is gone parks the request in early_requests.
GateTargeted(g) ==
    /\ gpc[g] = "target"
    /\ gpc' = [gpc EXCEPT ![g] = IF live THEN "enqueue" ELSE "parked"]
    /\ gclient' = [gclient EXCEPT ![g] = IF live THEN client ELSE @]
    /\ UNCHANGED <<agentVars, pending, procVars, promptVars, gconn, answerVars, cpc,
                   workerVars, stopVars, adopting>>

GateEnqueued(g) ==
    /\ gpc[g] = "enqueue"
    /\ gpc' = [gpc EXCEPT ![g] = "open"]
    /\ pending' = [pending EXCEPT ![g] = gclient[g]]
    /\ IF live
       THEN /\ count' = Cardinality(Open(pending'))
            /\ status' = "awaitingPermission"
       ELSE UNCHANGED <<count, status>>
    /\ UNCHANGED <<live, client, gen, reconnecting, inflight, current, procVars,
                   promptVars, gconn, gclient, answerVars, cpc, workerVars, stopVars,
                   adopting>>

-----------------------------------------------------------------------------
(* The user's answer: resolve_permission.                                  *)

AnswerTaken(g) ==
    /\ rpc[g] = "idle"
    /\ pending[g] # NoConn
    /\ pending' = [pending EXCEPT ![g] = NoConn]
    /\ rclient' = [rclient EXCEPT ![g] = pending[g]]
    /\ rpc' = [rpc EXCEPT ![g] = "deliver"]
    /\ returned' = returned \ {g}
    /\ UNCHANGED <<agentVars, procVars, promptVars, gateVars, cpc, workerVars, stopVars,
                   adopting>>

\* send_action: the pipe to a transport lost on its other side may still take the answer;
\* an answer that has to write a file first may fail whatever the transport does.
AnswerDelivered(g) ==
    /\ rpc[g] = "deliver"
    /\ \/ proc[rclient[g]] # "down" /\ rpc' = [rpc EXCEPT ![g] = "recount"]
       \/ rpc' = [rpc EXCEPT ![g] = "undelivered"]
    /\ UNCHANGED <<agentVars, pending, procVars, promptVars, gateVars, rclient, returned,
                   cpc, workerVars, stopVars, adopting>>

\* agent_can_retry
AnswerFailed(g) ==
    /\ rpc[g] = "undelivered"
    /\ rpc' = [rpc EXCEPT ![g] =
                 IF live /\ ~reconnecting /\ client = rclient[g] /\ status # "error"
                 THEN "reinsert" ELSE "idle"]
    /\ UNCHANGED <<agentVars, pending, procVars, promptVars, gateVars, rclient, returned,
                   cpc, workerVars, stopVars, adopting>>

\* Nothing is counted again when the gate is put back.
AnswerReinserted(g) ==
    /\ rpc[g] = "reinsert"
    /\ pending' = [pending EXCEPT ![g] = rclient[g]]
    /\ rpc' = [rpc EXCEPT ![g] = "idle"]
    /\ returned' = returned \cup {g}
    /\ UNCHANGED <<agentVars, procVars, promptVars, gateVars, rclient, cpc, workerVars,
                   stopVars, adopting>>

\* Mutant: the answer takes one off the count instead of counting again.
AnswerDiscounted(g) ==
    /\ rpc[g] = "recount"
    /\ rpc' = [rpc EXCEPT ![g] = "idle"]
    /\ IF live
       THEN /\ count' = count - 1
            /\ status' = IF count' = 0 /\ status = "awaitingPermission"
                         THEN "running" ELSE status
       ELSE UNCHANGED <<count, status>>
    /\ UNCHANGED <<live, client, gen, reconnecting, inflight, current, pending, procVars,
                   promptVars, gateVars, rclient, returned, cpc, workerVars, stopVars,
                   adopting>>

AnswerRecounted(g) ==
    /\ rpc[g] = "recount"
    /\ rpc' = [rpc EXCEPT ![g] = "idle"]
    /\ IF live
       THEN /\ count' = Cardinality(Open(pending))
            /\ status' = IF Open(pending) = {} /\ status = "awaitingPermission"
                         THEN "running" ELSE status
       ELSE UNCHANGED <<count, status>>
    /\ UNCHANGED <<live, client, gen, reconnecting, inflight, current, pending, procVars,
                   promptVars, gateVars, rclient, returned, cpc, workerVars, stopVars,
                   adopting>>

-----------------------------------------------------------------------------
(* Loss of a transport, and handle_transport_closed.                       *)

\* The process exits, or only its pipes become unusable.
TransportLost(k) ==
    /\ losses < MaxLosses
    /\ proc[k] = "up"
    /\ losses' = losses + 1
    /\ \E state \in {"lost", "down"} : proc' = [proc EXCEPT ![k] = state]
    /\ UNCHANGED <<agentVars, pending, genOf, promptVars, gateVars, answerVars, cpc,
                   workerVars, stopVars, adopting>>

\* The reader's transport_closed; a candidate's inbox drops it before activation.
ReaderReports(k) ==
    /\ cpc[k] = "idle"
    /\ proc[k] \in {"lost", "down"}
    /\ cpc' = [cpc EXCEPT ![k] = IF genOf[k] = 0 THEN "done" ELSE "check"]
    /\ UNCHANGED <<agentVars, pending, procVars, promptVars, gateVars, answerVars,
                   workerVars, stopVars, adopting>>

\* The generation a closer acts for.
ClosedGen(t) == IF t \in Conns THEN genOf[t] ELSE pgen[t]

Closable(t) == Active(ClosedGen(t)) /\ status \notin Closing

CloseChecked(t) ==
    /\ cpc[t] = "check"
    /\ cpc' = [cpc EXCEPT ![t] = IF Closable(t) THEN "take" ELSE "done"]
    /\ UNCHANGED <<agentVars, pending, procVars, promptVars, gateVars, answerVars,
                   workerVars, stopVars, adopting>>

\* take_pending_for_handle
ClosePending(t) ==
    /\ cpc[t] = "take"
    /\ cpc' = [cpc EXCEPT ![t] = "update"]
    /\ pending' = [g \in Gates |-> NoConn]
    /\ UNCHANGED <<agentVars, procVars, promptVars, gateVars, answerVars, workerVars,
                   stopVars, adopting>>

CloseDone(t) == cpc' = [cpc EXCEPT ![t] = "done"]

\* The thread of the worker may not start.
ReconnectStarts(w) ==
    /\ status' = "starting" /\ reconnecting' = TRUE /\ count' = 0
    /\ \E pc \in {"snapshot", "unstarted"} : wpc' = [wpc EXCEPT ![w] = pc]
    /\ wtries' = [wtries EXCEPT ![w] = 0]

\* Mutant: the check made before the pending requests were taken is not made again.
CloseUpdatedUnchecked(t) ==
    /\ cpc[t] = "update"
    /\ CloseDone(t)
    /\ ReconnectStarts(ClosedGen(t))
    /\ UNCHANGED <<live, client, gen, inflight, current, pending, procVars, promptVars,
                   gateVars, answerVars, wcand, wold, stopVars, adopting>>

CloseUpdated(t) ==
    /\ cpc[t] = "update"
    /\ CloseDone(t)
    /\ IF Closable(t)
       THEN ReconnectStarts(ClosedGen(t))
       ELSE UNCHANGED <<status, reconnecting, count, wpc, wtries>>
    /\ UNCHANGED <<live, client, gen, inflight, current, pending, procVars, promptVars,
                   gateVars, answerVars, wcand, wold, stopVars, adopting>>

-----------------------------------------------------------------------------
(* The reconnect worker of failed generation w.                            *)

\* What reconnect_snapshot, activate_candidate and fail_reconnect all check.
Reconnecting(w) == live /\ gen = w /\ reconnecting

\* Mutant: the handle of a worker that did not start is only marked.
WorkerUnstartedMarked(w) ==
    /\ wpc[w] = "unstarted"
    /\ wpc' = [wpc EXCEPT ![w] = "done"]
    /\ status' = IF live /\ gen = w THEN "error" ELSE status
    /\ UNCHANGED <<live, client, gen, reconnecting, count, inflight, current, pending,
                   procVars, promptVars, gateVars, answerVars, cpc, wcand, wold, wtries,
                   stopVars, adopting>>

\* fail_worker_start
WorkerUnstarted(w) ==
    /\ wpc[w] = "unstarted"
    /\ wpc' = [wpc EXCEPT ![w] = "done"]
    /\ IF live /\ gen = w
       THEN reconnecting' = FALSE /\ status' = "error"
       ELSE UNCHANGED <<reconnecting, status>>
    /\ UNCHANGED <<live, client, gen, count, inflight, current, pending, procVars,
                   promptVars, gateVars, answerVars, cpc, wcand, wold, wtries, stopVars,
                   adopting>>

Unborn == {k \in Conns : proc[k] = "unborn"}

\* Mutant: the worker ends after its last attempt without a word.
RetriedSilently(w) ==
    /\ wtries' = [wtries EXCEPT ![w] = @ + 1]
    /\ wpc' = [wpc EXCEPT ![w] = IF wtries'[w] < MaxAttempts THEN "snapshot" ELSE "done"]

\* The worker goes back to its next delay, or gives up.
Retried(w) ==
    /\ wtries' = [wtries EXCEPT ![w] = @ + 1]
    /\ wpc' = [wpc EXCEPT ![w] = IF wtries'[w] < MaxAttempts THEN "snapshot" ELSE "giveUp"]

SnapshotTaken(w) ==
    /\ wpc[w] = "snapshot"
    /\ \/ /\ ~(Reconnecting(w) /\ status \notin Closing)
          /\ wpc' = [wpc EXCEPT ![w] = "done"]
          /\ UNCHANGED <<proc, wcand, wtries>>
       \/ /\ Reconnecting(w) /\ status \notin Closing
          /\ Retried(w)                     \* spawn_with_notify fails
          /\ UNCHANGED <<proc, wcand>>
       \/ /\ Reconnecting(w) /\ status \notin Closing
          /\ \E k \in Unborn :
               /\ \A j \in Unborn : k <= j
               /\ proc' = [proc EXCEPT ![k] = "up"]
               /\ wcand' = [wcand EXCEPT ![w] = k]
          /\ wpc' = [wpc EXCEPT ![w] = "load"]
          /\ UNCHANGED wtries
    /\ UNCHANGED <<agentVars, pending, genOf, losses, promptVars, gateVars, answerVars,
                   cpc, wold, stopVars, adopting>>

\* initialize and session_load
SessionLoaded(w) ==
    /\ wpc[w] = "load"
    /\ \/ proc[wcand[w]] = "up" /\ wpc' = [wpc EXCEPT ![w] = "activate"]
       \/ wpc' = [wpc EXCEPT ![w] = "discard"]
    /\ UNCHANGED <<agentVars, pending, procVars, promptVars, gateVars, answerVars, cpc,
                   wcand, wold, wtries, stopVars, adopting>>

\* discard_candidate_permissions, on the way to another attempt ("discard") or out
\* of a refused activation ("abandon"): it ends early when nothing was pending.
Discarded(w) ==
    /\ wpc[w] \in {"discard", "abandon"}
    /\ pending' = [g \in Gates |-> IF pending[g] = wcand[w] THEN NoConn ELSE pending[g]]
    /\ wpc' = [wpc EXCEPT ![w] =
                 IF pending' = pending
                 THEN IF @ = "discard" THEN "kill" ELSE "abandonKill"
                 ELSE IF @ = "discard" THEN "restate" ELSE "abandonRestate"]
    /\ UNCHANGED <<agentVars, procVars, promptVars, gateVars, answerVars, cpc, wcand,
                   wold, wtries, stopVars, adopting>>

Restated(w) ==
    /\ wpc[w] \in {"restate", "abandonRestate"}
    /\ wpc' = [wpc EXCEPT ![w] = IF @ = "restate" THEN "kill" ELSE "abandonKill"]
    /\ IF live /\ reconnecting
       THEN count' = Cardinality(Open(pending)) /\ status' = "starting"
       ELSE UNCHANGED <<count, status>>
    /\ UNCHANGED <<live, client, gen, reconnecting, inflight, current, pending, procVars,
                   promptVars, gateVars, answerVars, cpc, wcand, wold, wtries, stopVars,
                   adopting>>

CandidateKilled(w) ==
    /\ wpc[w] \in {"kill", "abandonKill"}
    /\ proc' = [proc EXCEPT ![wcand[w]] = "down"]
    /\ IF wpc[w] = "kill" THEN Retried(w)
       ELSE wpc' = [wpc EXCEPT ![w] = "done"] /\ UNCHANGED wtries
    /\ UNCHANGED <<agentVars, pending, genOf, losses, promptVars, gateVars, answerVars,
                   cpc, wcand, wold, stopVars, adopting>>

\* fail_reconnect
ReconnectFails(w) ==
    /\ wpc[w] = "giveUp"
    /\ wpc' = [wpc EXCEPT ![w] = "done"]
    /\ IF Reconnecting(w)
       THEN /\ reconnecting' = FALSE /\ inflight' = {} /\ current' = None
            /\ status' = "error"
       ELSE UNCHANGED <<reconnecting, inflight, current, status>>
    /\ UNCHANGED <<live, client, gen, count, pending, procVars, promptVars, gateVars,
                   answerVars, cpc, wcand, wold, wtries, stopVars, adopting>>

\* Mutant: the inbox routes under the generation that failed.
CandidateActivatedStale(w) ==
    /\ wpc[w] = "activate"
    /\ Reconnecting(w)
    /\ wpc' = [wpc EXCEPT ![w] = "killOld"]
    /\ wold' = [wold EXCEPT ![w] = client]
    /\ client' = wcand[w]
    /\ gen' = w + 1
    /\ genOf' = [genOf EXCEPT ![wcand[w]] = w]
    /\ reconnecting' = FALSE
    /\ count' = Cardinality(Open(pending))
    /\ \E p \in {q \in Prompts : Sent(q)} \cup {None} :
         /\ current' = p
         /\ inflight' = {p} \ {None}
         /\ status' = IF count' > 0 THEN "awaitingPermission"
                      ELSE IF p = None THEN "ready" ELSE "running"
    /\ UNCHANGED <<live, pending, proc, losses, promptVars, gateVars, answerVars, cpc,
                   wcand, wtries, stopVars, adopting>>

\* activate, activate_candidate and set_prompt_state: the inbox lock and the agents
\* lock are held together.  The agent names the prompt it still runs, if any.
CandidateActivated(w) ==
    /\ wpc[w] = "activate"
    /\ Reconnecting(w)
    /\ wpc' = [wpc EXCEPT ![w] = "killOld"]
    /\ wold' = [wold EXCEPT ![w] = client]
    /\ client' = wcand[w]
    /\ gen' = w + 1
    /\ genOf' = [genOf EXCEPT ![wcand[w]] = w + 1]
    /\ reconnecting' = FALSE
    /\ count' = Cardinality(Open(pending))
    /\ \E p \in {q \in Prompts : Sent(q)} \cup {None} :
         /\ current' = p
         /\ inflight' = {p} \ {None}
         /\ status' = IF count' > 0 THEN "awaitingPermission"
                      ELSE IF p = None THEN "ready" ELSE "running"
    /\ UNCHANGED <<live, pending, proc, losses, promptVars, gateVars, answerVars, cpc,
                   wcand, wtries, stopVars, adopting>>

ActivationRefused(w) ==
    /\ wpc[w] = "activate"
    /\ ~Reconnecting(w)
    /\ wpc' = [wpc EXCEPT ![w] = "abandon"]
    /\ UNCHANGED <<agentVars, pending, procVars, promptVars, gateVars, answerVars, cpc,
                   wcand, wold, wtries, stopVars, adopting>>

\* Mutant: the replaced client is dropped, not killed.
OldDropped(w) ==
    /\ wpc[w] = "killOld"
    /\ wpc' = [wpc EXCEPT ![w] = "done"]
    /\ UNCHANGED <<agentVars, pending, procVars, promptVars, gateVars, answerVars,
                   cpc, wcand, wold, wtries, stopVars, adopting>>

\* old_client.kill
OldKilled(w) ==
    /\ wpc[w] = "killOld"
    /\ wpc' = [wpc EXCEPT ![w] = "done"]
    /\ proc' = [proc EXCEPT ![wold[w]] = "down"]
    /\ UNCHANGED <<agentVars, pending, genOf, losses, promptVars, gateVars, answerVars,
                   cpc, wcand, wold, wtries, stopVars, adopting>>

-----------------------------------------------------------------------------
(* stop.                                                                   *)

StopBegins ==
    /\ CanStop
    /\ spc = "idle" /\ live
    /\ spc' = "cancel" /\ sclient' = client
    /\ UNCHANGED <<agentVars, pending, procVars, promptVars, gateVars, answerVars, cpc,
                   workerVars, adopting>>

StopCancels ==
    /\ spc = "cancel"
    /\ spc' = "mark"
    /\ pending' = [g \in Gates |-> NoConn]
    /\ UNCHANGED <<agentVars, procVars, promptVars, gateVars, answerVars, cpc,
                   workerVars, sclient, adopting>>

StopMarks ==
    /\ spc = "mark"
    /\ spc' = "remove"
    /\ count' = 0 /\ status' = "stopping"
    /\ UNCHANGED <<live, client, gen, reconnecting, inflight, current, pending, procVars,
                   promptVars, gateVars, answerVars, cpc, workerVars, sclient, adopting>>

\* After session_close and the grace period, however they end.  Dropping the handle's
\* client ends no process: a reconnected client is also held by its inbox, which its
\* own reader thread holds.
StopRemoves ==
    /\ spc = "remove"
    /\ spc' = "kill"
    /\ live' = FALSE
    /\ UNCHANGED <<status, client, gen, reconnecting, count, inflight, current, pending,
                   procVars, promptVars, gateVars, answerVars, cpc, workerVars, sclient,
                   adopting>>

StopKills ==
    /\ spc = "kill"
    /\ spc' = "done"
    /\ proc' = [proc EXCEPT ![sclient] = "down"]
    /\ UNCHANGED <<agentVars, pending, genOf, losses, promptVars, gateVars, answerVars,
                   cpc, workerVars, sclient, adopting>>

-----------------------------------------------------------------------------
(* The processes, the agents and the user are outside; everything else is a *)
(* thread of the host that is running.                                      *)

CloseSteps(t) == CloseChecked(t) \/ ClosePending(t) \/ CloseUpdated(t)

WorkerRuns(w) ==
    \/ WorkerUnstarted(w) \/ SnapshotTaken(w) \/ SessionLoaded(w)
    \/ Discarded(w) \/ Restated(w) \/ ReconnectFails(w)
    \/ CandidateActivated(w) \/ ActivationRefused(w)

\* kill() has no timeout: it waits in the queue of a gateway whose writer may be blocked.
WorkerKills(w) == CandidateKilled(w) \/ OldKilled(w)

WorkerSteps(w) == WorkerRuns(w) \/ WorkerKills(w)

GateSteps(g) ==
    \/ GateRouted(g) \/ GateTargeted(g) \/ GateEnqueued(g)

AnswerSteps(g) ==
    \/ AnswerDelivered(g) \/ AnswerFailed(g) \/ AnswerReinserted(g)
    \/ AnswerRecounted(g)

StopSteps == StopCancels \/ StopMarks \/ StopRemoves \/ StopKills

HostNext ==
    \/ \E p \in Prompts : PromptDispatched(p) \/ PromptFinished(p)
    \/ AdoptRunning
    \/ \E g \in Gates : GateSteps(g) \/ AnswerSteps(g)
    \/ \E t \in Closers : CloseSteps(t)
    \/ \E w \in Conns : WorkerSteps(w)
    \/ StopSteps

OutsideNext ==
    \/ \E p \in Prompts : PromptAdmitted(p) \/ PromptReturns(p) \/ PromptBreaks(p)
    \/ \E p \in Prompts \cup {None} : TurnNotified(p)
    \/ \E p \in Prompts : QueueChanged(p)
    \/ \E g \in Gates, k \in Conns : AgentAsks(g, k)
    \/ \E g \in Gates : AnswerTaken(g)
    \/ \E k \in Conns : TransportLost(k) \/ ReaderReports(k)
    \/ StopBegins

Next == HostNext \/ OutsideNext

Spec == Init /\ [][Next]_vars

\* A thread that is running goes on running: the worker's requests to the candidate
\* return, with a result or a timeout.  Nothing is assumed of its kills, nor of stop().
FairSpec ==
    /\ Spec
    /\ \A t \in Closers : WF_vars(CloseSteps(t))
    /\ \A w \in Conns : WF_vars(WorkerRuns(w))

-----------------------------------------------------------------------------
(* Properties.                                                             *)

\* No host thread is between two of its critical sections and every reader has told
\* of its transport; a prompt whose call is out and a gate waiting for the user are
\* at rest.
Settled ==
    /\ \A p \in Prompts : ppc[p] \in {"idle", "call", "done"}
    /\ \A g \in Gates : rpc[g] = "idle" /\ gpc[g] \in {"idle", "open", "dropped", "parked"}
    /\ \A t \in Closers : cpc[t] \in {"idle", "done"}
    /\ \A w \in Conns : wpc[w] \in {"idle", "done"}
    /\ \A k \in Conns : proc[k] \in {"lost", "down"} => cpc[k] # "idle"
    /\ spc \in {"idle", "done"} /\ adopting = None

\* Whenever the host is at rest, the handle says it waits for permission only when a
\* reverse request is pending on it, and the badge counts no request that is not; a
\* request is passed over by the two only if it was put back after an answer to it that
\* failed, the one operation that changes the map of pending and does not count again.
NeedsInputIffOpen ==
    Settled /\ live /\ status \notin Closing =>
        /\ status = "awaitingPermission" => Open(pending) # {}
        /\ Open(pending) \ returned # {} => status = "awaitingPermission"
        /\ count <= Cardinality(Open(pending))
        /\ Cardinality(Open(pending) \ returned) <= count

\* The generation of the handle is that of its client's messages and of no other
\* transport's, so is_active_generation admits the messages of one transport.
HandleOwnsClient ==
    /\ genOf[client] = gen
    /\ \A k \in Conns : genOf[k] = gen => k = client

\* The workers still at it.
Working == {w \in Conns : wpc[w] \notin {"idle", "done"}}

\* reconnecting has an owner: a handle that refuses messages because it is
\* reconnecting has the worker of its generation, or is being stopped.
ReconnectHasWorker ==
    live /\ reconnecting => gen \in Working \/ spc \in {"remove", "kill"}

\* However many threads notice a loss, one worker acts on the handle: the others left
\* only reap the process they replaced.
OneReconnect ==
    \A v, w \in Working : wpc[v] # "killOld" /\ wpc[w] # "killOld" => v = w

\* Processes of failed candidates and of the replaced transport are reaped: at rest
\* the only process left is the one the handle holds.
OneProcess ==
    Settled => \A k \in Conns : proc[k] \in {"up", "lost"} => k = client

\* What the threads wait for without a timeout, behind what is being written to an agent:
\* the worker the kill of a candidate that failed, and stop() the cancellation it sends.
UntimedCallsReturn == (\A w \in Conns : []<>(wpc[w] # "kill")) /\ []<>(spc # "remove")

\* A reconnect ends, whatever the candidates do, if the untimed calls return: the handle is
\* usable again, failed, or gone.
ReconnectEnds == UntimedCallsReturn => (reconnecting /\ live ~> ~reconnecting \/ ~live)
=============================================================================
