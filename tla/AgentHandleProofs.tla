------------------------- MODULE AgentHandleProofs -------------------------
(***************************************************************************)
(* What holds of AgentHandle for every value of its constants: its types,  *)
(* that its generation names the one transport that owns the handle, that  *)
(* a reconnect has exactly one worker, that no process is left over but    *)
(* the one the handle holds, and that the badge of a running turn agrees   *)
(* with the requests that are open.                                        *)
(***************************************************************************)
EXTENDS AgentHandle, TLAPS, FiniteSetTheorems

\* A worker that has attempts left.
Tries ==
    \A w \in Conns :
        wpc[w] \in {"snapshot", "load", "discard", "restate", "kill", "activate"} =>
            wtries[w] < MaxAttempts

\* The connections that threads hold have been spawned.  They are spawned in the order
\* of their numbers, and a reconnect spawns a new one: a connection is never behind the
\* generation it is or will be activated as.
Births ==
    /\ gen <= client
    /\ proc[client] # "unborn" /\ proc[sclient] # "unborn"
    /\ \A w \in Conns : proc[wcand[w]] # "unborn" /\ proc[wold[w]] # "unborn"
    /\ \A j, k \in Conns : j < k /\ proc[j] = "unborn" => proc[k] = "unborn"
    /\ \A w \in Conns : wpc[w] \in {"load", "activate"} => w < wcand[w]

\* The generations handed out so far.
Generations ==
    /\ \A k \in Conns : genOf[k] <= gen
    /\ HandleOwnsClient

Reconnects == {"unstarted", "snapshot", "load", "discard", "restate", "kill", "giveUp",
               "activate"}
Abandons   == {"abandon", "abandonRestate", "abandonKill"}

\* A worker reconnects the handle it was started for, or finds it stopped.
Workers ==
    /\ \A w \in Conns : wpc[w] \in Reconnects /\ live => gen = w /\ reconnecting
    /\ \A w \in Conns : wpc[w] \in Abandons => ~live
    /\ \A w \in Conns : wpc[w] = "killOld" => w < gen
    /\ live /\ reconnecting => status # "error"
    /\ live /\ status = "stopping" => spc = "remove"
    /\ spc \in {"kill", "done"} => ~live
    /\ ReconnectHasWorker
    /\ OneReconnect

IInv == TypeOK /\ Tries /\ Births /\ Generations /\ Workers

\* Every process that is left is the handle's or in the hands of a worker.
Carrying == {"load", "discard", "restate", "kill", "activate"} \cup Abandons

Held(k) ==
    \/ k = client
    \/ \E w \in Conns : wcand[w] = k /\ wpc[w] \in Carrying
    \/ \E w \in Conns : wold[w] = k /\ wpc[w] = "killOld"

ProcessesHeld == \A k \in Conns : proc[k] \in {"up", "lost"} => Held(k)
-----------------------------------------------------------------------------
\* The number of requests open in a map is a natural number.
LEMMA CountIsNat ==
    ASSUME NEW p
    PROVE  Cardinality(Open(p)) \in Nat
  BY GatesFinite, FS_Subset, FS_CardinalityType DEF Open

\* Connections and generations are numbered from one, without gaps.
LEMMA ConnsAreNumbers ==
    /\ \A k \in Conns : k \in Nat /\ k >= 1
    /\ \A k \in Conns, n \in Nat : n < k => n + 1 \in Conns
  BY BoundsPositive DEF Conns

\* Every step preserves the types; a worker's next generation is that of a connection
\* because the candidate's number is above it.
LEMMA TypePreserved ==
    ASSUME IInv, Next
    PROVE  TypeOK'
<1> USE BoundsPositive DEF IInv
<1>1. ASSUME NEW p \in Prompts, PromptAdmitted(p) PROVE TypeOK'
    BY <1>1 DEF PromptAdmitted, TypeOK, Conns, NoConn, Statuses, Closers, agentVars,
     promptVars, gateVars, answerVars, workerVars, stopVars, procVars
<1>2. ASSUME NEW p \in Prompts, PromptDispatched(p) PROVE TypeOK'
  <2>1. status' \in Statuses
    BY <1>2 DEF PromptDispatched, TypeOK, Statuses
  <2>2. count' \in Nat
    BY <1>2, CountIsNat DEF PromptDispatched, TypeOK
  <2>3. inflight' \subseteq Prompts
    BY <1>2 DEF PromptDispatched, TypeOK
  <2>4. current' \in Prompts \cup {None}
    BY <1>2 DEF PromptDispatched, TypeOK
  <2>5. ppc' \in [Prompts -> {"idle", "dispatch", "call", "succeeded", "failed",
      "done"}]
    BY <1>2 DEF PromptDispatched, TypeOK
  <2>6. UNCHANGED <<live, client, gen, reconnecting, pending, procVars, pgen, pconn,
      gateVars, answerVars, cpc, workerVars, stopVars, adopting>>
    BY <1>2 DEF PromptDispatched
  <2> QED
    BY <2>1, <2>2, <2>3, <2>4, <2>5, <2>6 DEF TypeOK, agentVars, promptVars, gateVars,
       answerVars, workerVars, stopVars, procVars
<1>3. ASSUME NEW p \in Prompts, PromptReturns(p) PROVE TypeOK'
  <2>1. ppc' \in [Prompts -> {"idle", "dispatch", "call", "succeeded", "failed",
      "done"}]
    BY <1>3 DEF PromptReturns, TypeOK
  <2>2. UNCHANGED <<agentVars, pending, procVars, pgen, pconn, gateVars, answerVars,
      cpc, workerVars, stopVars, adopting>>
    BY <1>3 DEF PromptReturns
  <2> QED
    BY <2>1, <2>2 DEF TypeOK, agentVars, promptVars, gateVars, answerVars, workerVars,
       stopVars, procVars
<1>4. ASSUME NEW p \in Prompts, PromptBreaks(p) PROVE TypeOK'
    BY <1>4 DEF PromptBreaks, TypeOK, Conns, NoConn, Statuses, Closers, agentVars,
     promptVars, gateVars, answerVars, workerVars, stopVars, procVars
<1>5. ASSUME NEW p \in Prompts, PromptFinished(p) PROVE TypeOK'
    BY <1>5 DEF PromptFinished, Finish, Active, TypeOK, Conns, NoConn, Statuses, Closers,
     agentVars, promptVars, gateVars, answerVars, workerVars, stopVars, procVars
<1>6. ASSUME NEW p \in Prompts \cup {None}, TurnNotified(p) PROVE TypeOK'
    BY <1>6 DEF TurnNotified, Finish, Active, Sent, TypeOK, Conns, NoConn, Statuses, Closers,
     agentVars, promptVars, gateVars, answerVars, workerVars, stopVars, procVars
<1>7. ASSUME NEW p \in Prompts, QueueChanged(p) PROVE TypeOK'
    BY <1>7 DEF QueueChanged, Active, Sent, TypeOK, Conns, NoConn, Statuses, Closers,
     agentVars, promptVars, gateVars, answerVars, workerVars, stopVars, procVars
<1>8. CASE AdoptRunning
    BY <1>8 DEF AdoptRunning, TypeOK, Conns, NoConn, Statuses, Closers, agentVars,
     promptVars, gateVars, answerVars, workerVars, stopVars, procVars
<1>9. ASSUME NEW g \in Gates, NEW k \in Conns, AgentAsks(g, k) PROVE TypeOK'
    BY <1>9 DEF AgentAsks, TypeOK, Conns, NoConn, Statuses, Closers, agentVars, promptVars,
     gateVars, answerVars, workerVars, stopVars, procVars
<1>10. ASSUME NEW g \in Gates, GateRouted(g) PROVE TypeOK'
    BY <1>10 DEF GateRouted, Active, TypeOK, Conns, NoConn, Statuses, Closers, agentVars,
     promptVars, gateVars, answerVars, workerVars, stopVars, procVars
<1>11. ASSUME NEW g \in Gates, GateTargeted(g) PROVE TypeOK'
    BY <1>11 DEF GateTargeted, TypeOK, Conns, NoConn, Statuses, Closers, agentVars,
     promptVars, gateVars, answerVars, workerVars, stopVars, procVars
<1>12. ASSUME NEW g \in Gates, GateEnqueued(g) PROVE TypeOK'
  <2>1. status' \in Statuses
    BY <1>12 DEF GateEnqueued, TypeOK, Statuses
  <2>2. count' \in Nat
    BY <1>12, CountIsNat DEF GateEnqueued, TypeOK
  <2>3. pending' \in [Gates -> Conns \cup {NoConn}]
    BY <1>12 DEF GateEnqueued, TypeOK, Conns, NoConn
  <2>4. gpc' \in [Gates -> {"idle", "route", "target", "enqueue", "open", "dropped",
      "parked"}]
    BY <1>12 DEF GateEnqueued, TypeOK
  <2>5. UNCHANGED <<live, client, gen, reconnecting, inflight, current, procVars,
      promptVars, gconn, gclient, answerVars, cpc, workerVars, stopVars, adopting>>
    BY <1>12 DEF GateEnqueued
  <2> QED
    BY <2>1, <2>2, <2>3, <2>4, <2>5 DEF TypeOK, agentVars, promptVars, gateVars,
       answerVars, workerVars, stopVars, procVars
<1>13. ASSUME NEW g \in Gates, AnswerTaken(g) PROVE TypeOK'
  <2>1. pending' \in [Gates -> Conns \cup {NoConn}]
    BY <1>13 DEF AnswerTaken, TypeOK, Conns, NoConn
  <2>2. rpc' \in [Gates -> {"idle", "deliver", "undelivered", "reinsert", "recount"}]
    BY <1>13 DEF AnswerTaken, TypeOK
  <2>3. rclient' \in [Gates -> Conns] /\ returned' \subseteq Gates
    BY <1>13 DEF AnswerTaken, TypeOK
  <2>4. UNCHANGED <<agentVars, procVars, promptVars, gateVars, cpc, workerVars,
      stopVars, adopting>>
    BY <1>13 DEF AnswerTaken
  <2> QED
    BY <2>1, <2>2, <2>3, <2>4 DEF TypeOK, agentVars, promptVars, gateVars, answerVars,
       workerVars, stopVars, procVars
<1>14. ASSUME NEW g \in Gates, AnswerDelivered(g) PROVE TypeOK'
  <2>1. rpc' \in [Gates -> {"idle", "deliver", "undelivered", "reinsert", "recount"}]
    BY <1>14 DEF AnswerDelivered, TypeOK
  <2>2. UNCHANGED <<agentVars, pending, procVars, promptVars, gateVars, rclient, returned, cpc,
      workerVars, stopVars, adopting>>
    BY <1>14 DEF AnswerDelivered
  <2> QED
    BY <2>1, <2>2 DEF TypeOK, agentVars, promptVars, gateVars, answerVars, workerVars,
       stopVars, procVars
<1>15. ASSUME NEW g \in Gates, AnswerFailed(g) PROVE TypeOK'
    BY <1>15 DEF AnswerFailed, TypeOK, Conns, NoConn, Statuses, Closers, agentVars,
     promptVars, gateVars, answerVars, workerVars, stopVars, procVars
<1>16. ASSUME NEW g \in Gates, AnswerReinserted(g) PROVE TypeOK'
    BY <1>16 DEF AnswerReinserted, TypeOK, Conns, NoConn, Statuses, Closers, agentVars,
     promptVars, gateVars, answerVars, workerVars, stopVars, procVars
<1>17. ASSUME NEW g \in Gates, AnswerRecounted(g) PROVE TypeOK'
  <2>1. status' \in Statuses
    BY <1>17 DEF AnswerRecounted, TypeOK, Statuses
  <2>2. count' \in Nat
    BY <1>17, CountIsNat DEF AnswerRecounted, TypeOK
  <2>3. rpc' \in [Gates -> {"idle", "deliver", "undelivered", "reinsert", "recount"}]
    BY <1>17 DEF AnswerRecounted, TypeOK
  <2>4. UNCHANGED <<live, client, gen, reconnecting, inflight, current, pending,
      procVars, promptVars, gateVars, rclient, returned, cpc, workerVars, stopVars, adopting>>
    BY <1>17 DEF AnswerRecounted
  <2> QED
    BY <2>1, <2>2, <2>3, <2>4 DEF TypeOK, agentVars, promptVars, gateVars, answerVars,
       workerVars, stopVars, procVars
<1>18. ASSUME NEW k \in Conns, TransportLost(k) PROVE TypeOK'
  <2>1. proc' \in [Conns -> {"unborn", "up", "lost", "down"}]
    BY <1>18 DEF TransportLost, TypeOK
  <2>2. losses' \in 0..MaxLosses
    BY <1>18 DEF TransportLost, TypeOK
  <2>3. UNCHANGED <<agentVars, pending, genOf, promptVars, gateVars, answerVars, cpc,
      workerVars, stopVars, adopting>>
    BY <1>18 DEF TransportLost
  <2> QED
    BY <2>1, <2>2, <2>3 DEF TypeOK, agentVars, promptVars, gateVars, answerVars,
       workerVars, stopVars, procVars
<1>19. ASSUME NEW k \in Conns, ReaderReports(k) PROVE TypeOK'
    BY <1>19 DEF ReaderReports, TypeOK, Conns, NoConn, Statuses, Closers, agentVars,
     promptVars, gateVars, answerVars, workerVars, stopVars, procVars
<1>20. ASSUME NEW t \in Closers, CloseChecked(t) PROVE TypeOK'
    BY <1>20 DEF CloseChecked, TypeOK, Conns, NoConn, Statuses, Closers, agentVars,
     promptVars, gateVars, answerVars, workerVars, stopVars, procVars
<1>21. ASSUME NEW t \in Closers, ClosePending(t) PROVE TypeOK'
    BY <1>21 DEF ClosePending, TypeOK, Conns, NoConn, Statuses, Closers, agentVars,
     promptVars, gateVars, answerVars, workerVars, stopVars, procVars
<1>22. ASSUME NEW t \in Closers, CloseUpdated(t) PROVE TypeOK'
  <2>1. status' \in Statuses
    BY <1>22 DEF CloseUpdated, CloseDone, Closable, ClosedGen, Active, ReconnectStarts,
       TypeOK, Statuses
  <2>2. reconnecting' \in BOOLEAN
    BY <1>22 DEF CloseUpdated, CloseDone, Closable, ClosedGen, Active, ReconnectStarts,
       TypeOK
  <2>3. count' \in Nat
    BY <1>22, CountIsNat DEF CloseUpdated, CloseDone, Closable, ClosedGen, Active,
       ReconnectStarts, TypeOK
  <2>4. cpc' \in [Closers -> {"idle", "check", "take", "update", "done"}]
    BY <1>22 DEF CloseUpdated, CloseDone, Closable, ClosedGen, Active, ReconnectStarts,
       TypeOK
  <2>5. wpc' \in [Conns -> {"idle", "unstarted", "snapshot", "load", "discard",
      "restate", "kill", "giveUp", "activate", "abandon", "abandonRestate",
      "abandonKill", "killOld", "done"}]
    BY <1>22 DEF CloseUpdated, CloseDone, Closable, ClosedGen, Active, ReconnectStarts,
       TypeOK
  <2>6. wtries' \in [Conns -> 0..MaxAttempts]
    BY <1>22 DEF CloseUpdated, CloseDone, Closable, ClosedGen, Active, ReconnectStarts,
       TypeOK
  <2>7. UNCHANGED <<live, client, gen, inflight, current, pending, procVars, promptVars,
      gateVars, answerVars, wcand, wold, stopVars, adopting>>
    BY <1>22 DEF CloseUpdated
  <2> QED
    BY <2>1, <2>2, <2>3, <2>4, <2>5, <2>6, <2>7 DEF TypeOK, agentVars, promptVars,
       gateVars, answerVars, workerVars, stopVars, procVars
<1>23. ASSUME NEW w \in Conns, WorkerUnstarted(w) PROVE TypeOK'
    BY <1>23 DEF WorkerUnstarted, TypeOK, Conns, NoConn, Statuses, Closers, agentVars,
     promptVars, gateVars, answerVars, workerVars, stopVars, procVars
<1>24. ASSUME NEW w \in Conns, SnapshotTaken(w) PROVE TypeOK'
  <2>1. proc' \in [Conns -> {"unborn", "up", "lost", "down"}]
    BY <1>24 DEF SnapshotTaken, Retried, Reconnecting, Unborn, TypeOK
  <2>2. wpc' \in [Conns -> {"idle", "unstarted", "snapshot", "load", "discard",
      "restate", "kill", "giveUp", "activate", "abandon", "abandonRestate",
      "abandonKill", "killOld", "done"}]
    BY <1>24 DEF SnapshotTaken, Retried, Reconnecting, Unborn, TypeOK, Tries
  <2>3. wcand' \in [Conns -> Conns]
    BY <1>24 DEF SnapshotTaken, Retried, Reconnecting, Unborn, TypeOK
  <2>4. wtries' \in [Conns -> 0..MaxAttempts]
    BY <1>24 DEF SnapshotTaken, Retried, Reconnecting, Unborn, TypeOK, Tries
  <2>5. UNCHANGED <<agentVars, pending, genOf, losses, promptVars, gateVars, answerVars,
      cpc, wold, stopVars, adopting>>
    BY <1>24 DEF SnapshotTaken
  <2> QED
    BY <2>1, <2>2, <2>3, <2>4, <2>5 DEF TypeOK, agentVars, promptVars, gateVars,
       answerVars, workerVars, stopVars, procVars
<1>25. ASSUME NEW w \in Conns, SessionLoaded(w) PROVE TypeOK'
  <2>1. wpc' \in [Conns -> {"idle", "unstarted", "snapshot", "load", "discard",
      "restate", "kill", "giveUp", "activate", "abandon", "abandonRestate",
      "abandonKill", "killOld", "done"}]
    BY <1>25 DEF SessionLoaded, TypeOK
  <2>2. UNCHANGED <<agentVars, pending, procVars, promptVars, gateVars, answerVars, cpc,
      wcand, wold, wtries, stopVars, adopting>>
    BY <1>25 DEF SessionLoaded
  <2> QED
    BY <2>1, <2>2 DEF TypeOK, agentVars, promptVars, gateVars, answerVars, workerVars,
       stopVars, procVars
<1>26. ASSUME NEW w \in Conns, Discarded(w) PROVE TypeOK'
  <2>1. pending' \in [Gates -> Conns \cup {NoConn}]
    BY <1>26 DEF Discarded, TypeOK, Conns, NoConn
  <2>2. wpc' \in [Conns -> {"idle", "unstarted", "snapshot", "load", "discard",
      "restate", "kill", "giveUp", "activate", "abandon", "abandonRestate",
      "abandonKill", "killOld", "done"}]
    BY <1>26 DEF Discarded, TypeOK
  <2>3. UNCHANGED <<agentVars, procVars, promptVars, gateVars, answerVars, cpc, wcand,
      wold, wtries, stopVars, adopting>>
    BY <1>26 DEF Discarded
  <2> QED
    BY <2>1, <2>2, <2>3 DEF TypeOK, agentVars, promptVars, gateVars, answerVars,
       workerVars, stopVars, procVars
<1>27. ASSUME NEW w \in Conns, Restated(w) PROVE TypeOK'
  <2>1. status' \in Statuses
    BY <1>27 DEF Restated, TypeOK, Statuses
  <2>2. count' \in Nat
    BY <1>27, CountIsNat DEF Restated, TypeOK
  <2>3. wpc' \in [Conns -> {"idle", "unstarted", "snapshot", "load", "discard",
      "restate", "kill", "giveUp", "activate", "abandon", "abandonRestate",
      "abandonKill", "killOld", "done"}]
    BY <1>27 DEF Restated, TypeOK
  <2>4. UNCHANGED <<live, client, gen, reconnecting, inflight, current, pending,
      procVars, promptVars, gateVars, answerVars, cpc, wcand, wold, wtries, stopVars,
      adopting>>
    BY <1>27 DEF Restated
  <2> QED
    BY <2>1, <2>2, <2>3, <2>4 DEF TypeOK, agentVars, promptVars, gateVars, answerVars,
       workerVars, stopVars, procVars
<1>28. ASSUME NEW w \in Conns, CandidateKilled(w) PROVE TypeOK'
  <2>1. proc' \in [Conns -> {"unborn", "up", "lost", "down"}]
    BY <1>28 DEF CandidateKilled, Retried, TypeOK
  <2>2. wpc' \in [Conns -> {"idle", "unstarted", "snapshot", "load", "discard",
      "restate", "kill", "giveUp", "activate", "abandon", "abandonRestate",
      "abandonKill", "killOld", "done"}]
    BY <1>28 DEF CandidateKilled, Retried, TypeOK, Tries
  <2>3. wtries' \in [Conns -> 0..MaxAttempts]
    BY <1>28 DEF CandidateKilled, Retried, TypeOK, Tries
  <2>4. UNCHANGED <<agentVars, pending, genOf, losses, promptVars, gateVars, answerVars,
      cpc, wcand, wold, stopVars, adopting>>
    BY <1>28 DEF CandidateKilled
  <2> QED
    BY <2>1, <2>2, <2>3, <2>4 DEF TypeOK, agentVars, promptVars, gateVars, answerVars,
       workerVars, stopVars, procVars
<1>29. ASSUME NEW w \in Conns, ReconnectFails(w) PROVE TypeOK'
    BY <1>29 DEF ReconnectFails, Reconnecting, TypeOK, Conns, NoConn, Statuses, Closers,
     agentVars, promptVars, gateVars, answerVars, workerVars, stopVars, procVars
<1>30. ASSUME NEW w \in Conns, CandidateActivated(w) PROVE TypeOK'
  <2>1. status' \in Statuses
    BY <1>30 DEF CandidateActivated, Reconnecting, Sent, TypeOK, Statuses
  <2>2. client' \in Conns
    BY <1>30 DEF CandidateActivated, Reconnecting, Sent, TypeOK
  <2>3. gen' \in Conns
    <3>1. w < wcand[w] /\ wcand[w] \in Conns
      BY <1>30 DEF CandidateActivated, Births, TypeOK
    <3> QED
      BY <1>30, <3>1, ConnsAreNumbers DEF CandidateActivated
  <2>4. reconnecting' \in BOOLEAN
    BY <1>30 DEF CandidateActivated, Reconnecting, Sent, TypeOK
  <2>5. count' \in Nat
    BY <1>30, CountIsNat DEF CandidateActivated, Reconnecting, Sent, TypeOK
  <2>6. inflight' \subseteq Prompts
    BY <1>30 DEF CandidateActivated, Reconnecting, Sent, TypeOK
  <2>7. current' \in Prompts \cup {None}
    BY <1>30 DEF CandidateActivated, Reconnecting, Sent, TypeOK
  <2>8. genOf' \in [Conns -> Conns \cup {0}]
    BY <1>30, <2>3 DEF CandidateActivated, TypeOK
  <2>9. wpc' \in [Conns -> {"idle", "unstarted", "snapshot", "load", "discard",
      "restate", "kill", "giveUp", "activate", "abandon", "abandonRestate",
      "abandonKill", "killOld", "done"}]
    BY <1>30 DEF CandidateActivated, Reconnecting, Sent, TypeOK
  <2>10. wold' \in [Conns -> Conns]
    BY <1>30 DEF CandidateActivated, Reconnecting, Sent, TypeOK
  <2>11. UNCHANGED <<live, pending, proc, losses, promptVars, gateVars, answerVars, cpc,
      wcand, wtries, stopVars, adopting>>
    BY <1>30 DEF CandidateActivated
  <2> QED
    BY <2>1, <2>2, <2>3, <2>4, <2>5, <2>6, <2>7, <2>8, <2>9, <2>10, <2>11 DEF TypeOK,
       agentVars, promptVars, gateVars, answerVars, workerVars, stopVars, procVars
<1>31. ASSUME NEW w \in Conns, ActivationRefused(w) PROVE TypeOK'
    BY <1>31 DEF ActivationRefused, Reconnecting, TypeOK, Conns, NoConn, Statuses, Closers,
     agentVars, promptVars, gateVars, answerVars, workerVars, stopVars, procVars
<1>32. ASSUME NEW w \in Conns, OldKilled(w) PROVE TypeOK'
    BY <1>32 DEF OldKilled, TypeOK, Conns, NoConn, Statuses, Closers, agentVars, promptVars,
     gateVars, answerVars, workerVars, stopVars, procVars
<1>33. CASE StopBegins
    BY <1>33 DEF StopBegins, TypeOK, Conns, NoConn, Statuses, Closers, agentVars, promptVars,
     gateVars, answerVars, workerVars, stopVars, procVars
<1>34. CASE StopCancels
    BY <1>34 DEF StopCancels, TypeOK, Conns, NoConn, Statuses, Closers, agentVars, promptVars,
     gateVars, answerVars, workerVars, stopVars, procVars
<1>35. CASE StopMarks
    BY <1>35 DEF StopMarks, TypeOK, Conns, NoConn, Statuses, Closers, agentVars, promptVars,
     gateVars, answerVars, workerVars, stopVars, procVars
<1>36. CASE StopRemoves
    BY <1>36 DEF StopRemoves, TypeOK, Conns, NoConn, Statuses, Closers, agentVars, promptVars,
     gateVars, answerVars, workerVars, stopVars, procVars
<1>37. CASE StopKills
    BY <1>37 DEF StopKills, TypeOK, Conns, NoConn, Statuses, Closers, agentVars, promptVars,
     gateVars, answerVars, workerVars, stopVars, procVars
<1> QED
    BY <1>1, <1>2, <1>3, <1>4, <1>5, <1>6, <1>7, <1>8, <1>9, <1>10, <1>11, <1>12,
     <1>13, <1>14, <1>15, <1>16, <1>17, <1>18, <1>19, <1>20, <1>21, <1>22, <1>23,
     <1>24, <1>25, <1>26, <1>27, <1>28, <1>29, <1>30, <1>31, <1>32, <1>33, <1>34,
     <1>35, <1>36, <1>37 DEF Next, HostNext, OutsideNext, GateSteps, AnswerSteps,
     CloseSteps, WorkerSteps, WorkerRuns, WorkerKills, StopSteps

\* A worker tries again only while it has attempts left.
LEMMA TriesPreserved ==
    ASSUME IInv, Next
    PROVE  Tries'
<1> USE BoundsPositive DEF IInv
<1>1. CASE UNCHANGED <<wpc, wtries>>
    BY <1>1 DEF Tries
<1>2. ASSUME NEW t \in Closers, CloseUpdated(t) PROVE Tries'
    BY <1>2 DEF CloseUpdated, CloseDone, Closable, ClosedGen, Active, ReconnectStarts,
       Tries, TypeOK, promptVars, gateVars, answerVars, stopVars, procVars
<1>3. ASSUME NEW w \in Conns, WorkerUnstarted(w) PROVE Tries'
    BY <1>3 DEF WorkerUnstarted, Tries, TypeOK, promptVars, gateVars, answerVars,
       stopVars, procVars
<1>4. ASSUME NEW w \in Conns, SnapshotTaken(w) PROVE Tries'
    BY <1>4 DEF SnapshotTaken, Retried, Reconnecting, Unborn, Tries, TypeOK, agentVars,
       promptVars, gateVars, answerVars, stopVars
<1>5. ASSUME NEW w \in Conns, SessionLoaded(w) PROVE Tries'
    BY <1>5 DEF SessionLoaded, Tries, TypeOK, agentVars, promptVars, gateVars,
       answerVars, stopVars, procVars
<1>6. ASSUME NEW w \in Conns, Discarded(w) PROVE Tries'
    BY <1>6 DEF Discarded, Tries, TypeOK, agentVars, promptVars, gateVars, answerVars,
       stopVars, procVars
<1>7. ASSUME NEW w \in Conns, Restated(w) PROVE Tries'
    BY <1>7 DEF Restated, Tries, TypeOK, promptVars, gateVars, answerVars, stopVars,
       procVars
<1>8. ASSUME NEW w \in Conns, CandidateKilled(w) PROVE Tries'
    BY <1>8 DEF CandidateKilled, Retried, Tries, TypeOK, agentVars, promptVars,
       gateVars, answerVars, stopVars
<1>9. ASSUME NEW w \in Conns, ReconnectFails(w) PROVE Tries'
    BY <1>9 DEF ReconnectFails, Reconnecting, Tries, TypeOK, promptVars, gateVars,
       answerVars, stopVars, procVars
<1>10. ASSUME NEW w \in Conns, CandidateActivated(w) PROVE Tries'
    BY <1>10 DEF CandidateActivated, Reconnecting, Sent, Tries, TypeOK, promptVars,
       gateVars, answerVars, stopVars
<1>11. ASSUME NEW w \in Conns, ActivationRefused(w) PROVE Tries'
    BY <1>11 DEF ActivationRefused, Reconnecting, Tries, TypeOK, agentVars, promptVars,
       gateVars, answerVars, stopVars, procVars
<1>12. ASSUME NEW w \in Conns, OldKilled(w) PROVE Tries'
    BY <1>12 DEF OldKilled, Tries, TypeOK, agentVars, promptVars, gateVars, answerVars,
       stopVars
<1> QED
    BY <1>1, <1>2, <1>3, <1>4, <1>5, <1>6, <1>7, <1>8, <1>9, <1>10, <1>11, <1>12 DEF
       Next, HostNext, OutsideNext, GateSteps, AnswerSteps, CloseSteps, WorkerSteps, WorkerRuns, WorkerKills,
       StopSteps, PromptAdmitted, PromptDispatched, PromptReturns, PromptBreaks,
       PromptFinished, TurnNotified, QueueChanged, AdoptRunning, AgentAsks, GateRouted,
       GateTargeted, GateEnqueued, AnswerTaken, AnswerDelivered, AnswerFailed,
       AnswerReinserted, AnswerRecounted, TransportLost, ReaderReports, CloseChecked,
       ClosePending, StopBegins, StopCancels, StopMarks, StopRemoves, StopKills,
       agentVars, promptVars, gateVars, answerVars, workerVars, stopVars, procVars

\* A process changes state, and the threads hold what they held before.
LEMMA ProcessChanged ==
    ASSUME TypeOK, Births, UNCHANGED <<gen, client, sclient, wcand, wold>>,
           NEW k \in Conns, proc[k] # "unborn", NEW s, s # "unborn",
           proc' = [proc EXCEPT ![k] = s],
           \A w \in Conns : wpc'[w] \in {"load", "activate"} => w < wcand[w]
    PROVE  Births'
<1>1. \A j \in Conns : (proc[j] = "unborn") <=> (proc'[j] = "unborn")
    BY DEF TypeOK
<1>2. client \in Conns /\ sclient \in Conns /\ \A w \in Conns : wcand[w] \in Conns /\ wold[w] \in Conns
    BY DEF TypeOK
<1> QED
    BY <1>1, <1>2 DEF Births

\* The candidate of a worker is younger than every process there was before it.
LEMMA BirthsPreserved ==
    ASSUME IInv, Next
    PROVE  Births'
<1> USE BoundsPositive DEF IInv
<1>1. CASE UNCHANGED <<client, gen, proc, wpc, wcand, wold, sclient>>
    BY <1>1 DEF Births
<1>2. ASSUME NEW k \in Conns, TransportLost(k) PROVE Births'
  <2>1. PICK state \in {"lost", "down"} : proc' = [proc EXCEPT ![k] = state]
    BY <1>2 DEF TransportLost
  <2>2. UNCHANGED <<agentVars, workerVars, stopVars>> /\ proc[k] # "unborn"
    BY <1>2 DEF TransportLost
  <2> QED
    BY <2>1, <2>2, ProcessChanged DEF Births, agentVars, workerVars, stopVars
<1>3. ASSUME NEW t \in Closers, CloseUpdated(t) PROVE Births'
    BY <1>3 DEF CloseUpdated, CloseDone, Closable, ClosedGen, Active, ReconnectStarts,
       Births, TypeOK, stopVars, procVars
<1>4. ASSUME NEW w \in Conns, WorkerUnstarted(w) PROVE Births'
    BY <1>4 DEF WorkerUnstarted, Births, TypeOK, stopVars, procVars
<1>5. ASSUME NEW w \in Conns, SnapshotTaken(w) PROVE Births'
  <2>1. CASE UNCHANGED <<proc, wcand>>
    <3>1. \A v \in Conns : wpc'[v] \in {"load", "activate"} => wpc[v] = wpc'[v]
      BY <1>5, <2>1 DEF SnapshotTaken, Retried, Unborn, TypeOK
    <3> QED
      BY <1>5, <2>1, <3>1 DEF SnapshotTaken, Births, agentVars, stopVars
  <2>2. CASE \E k \in Unborn : /\ \A j \in Unborn : k <= j
                             /\ proc' = [proc EXCEPT ![k] = "up"]
                             /\ wcand' = [wcand EXCEPT ![w] = k]
                             /\ Reconnecting(w)
                             /\ wpc' = [wpc EXCEPT ![w] = "load"]
    <3>1. PICK k \in Unborn : /\ \A j \in Unborn : k <= j
                             /\ proc' = [proc EXCEPT ![k] = "up"]
                             /\ wcand' = [wcand EXCEPT ![w] = k]
      BY <2>2
    <3>2. UNCHANGED <<gen, client, sclient, wold>> /\ gen = w
      BY <1>5, <2>2 DEF SnapshotTaken, Reconnecting, agentVars, stopVars
    <3>3. k \in Conns /\ proc[k] = "unborn" /\ \A j \in Conns : proc[j] = "unborn" => k <= j
      BY <3>1 DEF Unborn
    <3>4. client < k /\ w < k
      <4>1. client \in Conns /\ proc[client] # "unborn" /\ w <= client
        BY <3>2 DEF Births, TypeOK
      <4>2. ~(k < client)
        BY <3>3, <4>1 DEF Births
      <4>3. k \in Nat /\ client \in Nat /\ w \in Nat /\ k # client
        BY <3>3, <4>1, ConnsAreNumbers
      <4> QED
        BY <4>1, <4>2, <4>3
    <3>5. \A j \in Conns : (proc'[j] = "unborn") <=> (proc[j] = "unborn" /\ j # k)
      BY <3>1, <3>3 DEF TypeOK
    <3>6. \A i, j \in Conns : i < j /\ proc'[i] = "unborn" => proc'[j] = "unborn"
      BY <3>3, <3>5 DEF Births, Conns
    <3>7. \A v \in Conns : proc'[wcand'[v]] # "unborn" /\ proc'[wold[v]] # "unborn"
      BY <3>1, <3>3, <3>5 DEF Births, TypeOK
    <3>8. \A v \in Conns : wpc'[v] \in {"load", "activate"} => v < wcand'[v]
      BY <2>2, <3>1, <3>4 DEF Births, TypeOK
    <3> QED
      BY <3>2, <3>5, <3>6, <3>7, <3>8 DEF Births, TypeOK
  <2> QED
    BY <1>5, <2>1, <2>2 DEF SnapshotTaken
<1>6. ASSUME NEW w \in Conns, SessionLoaded(w) PROVE Births'
  <2>1. UNCHANGED <<client, gen, proc, wcand, wold, sclient>>
    BY <1>6 DEF SessionLoaded, agentVars, procVars, stopVars
  <2>2. \A v \in Conns : wpc'[v] \in {"load", "activate"} => wpc[v] \in {"load", "activate"}
    BY <1>6 DEF SessionLoaded, TypeOK
  <2> QED
    BY <2>1, <2>2 DEF Births
<1>7. ASSUME NEW w \in Conns, Discarded(w) PROVE Births'
    BY <1>7 DEF Discarded, Births, TypeOK, agentVars, stopVars, procVars
<1>8. ASSUME NEW w \in Conns, Restated(w) PROVE Births'
    BY <1>8 DEF Restated, Births, TypeOK, stopVars, procVars
<1>9. ASSUME NEW w \in Conns, CandidateKilled(w) PROVE Births'
  <2>1. UNCHANGED <<client, gen, wcand, wold, sclient>>
    BY <1>9 DEF CandidateKilled, agentVars, stopVars
  <2>2. \A v \in Conns : wpc'[v] \in {"load", "activate"} => wpc[v] = wpc'[v]
    BY <1>9 DEF CandidateKilled, Retried, TypeOK
  <2>3. wcand[w] \in Conns /\ proc' = [proc EXCEPT ![wcand[w]] = "down"]
    BY <1>9 DEF CandidateKilled, TypeOK
  <2> QED
    BY <2>1, <2>2, <2>3, ProcessChanged DEF Births
<1>10. ASSUME NEW w \in Conns, ReconnectFails(w) PROVE Births'
    BY <1>10 DEF ReconnectFails, Births, TypeOK, stopVars, procVars
<1>11. ASSUME NEW w \in Conns, CandidateActivated(w) PROVE Births'
  <2>1. /\ client' = wcand[w] /\ gen' = w + 1 /\ wold' = [wold EXCEPT ![w] = client]
        /\ UNCHANGED <<proc, wcand, sclient>>
    BY <1>11 DEF CandidateActivated, stopVars
  <2>2. w < wcand[w]
    BY <1>11 DEF CandidateActivated, Births
  <2>3. \A v \in Conns : wpc'[v] \in {"load", "activate"} => wpc[v] = wpc'[v]
    BY <1>11 DEF CandidateActivated, TypeOK
  <2>4. \A v \in Conns : wold'[v] = wold[v] \/ wold'[v] = client
    BY <2>1 DEF TypeOK
  <2>5. wcand[w] \in Conns /\ wcand[w] \in Nat /\ w \in Nat
    BY ConnsAreNumbers DEF TypeOK
  <2>6. gen' <= client' /\ proc'[client'] # "unborn" /\ proc'[sclient'] # "unborn"
    BY <2>1, <2>2, <2>5 DEF Births
  <2>7. \A v \in Conns : proc'[wcand'[v]] # "unborn" /\ proc'[wold'[v]] # "unborn"
    BY <2>1, <2>4 DEF Births
  <2> QED
    BY <2>1, <2>3, <2>6, <2>7 DEF Births
<1>12. ASSUME NEW w \in Conns, ActivationRefused(w) PROVE Births'
    BY <1>12 DEF ActivationRefused, Births, TypeOK, agentVars, stopVars, procVars
<1>13. ASSUME NEW w \in Conns, OldKilled(w) PROVE Births'
  <2>1. UNCHANGED <<client, gen, wcand, wold, sclient>>
    BY <1>13 DEF OldKilled, agentVars, stopVars
  <2>2. \A v \in Conns : wpc'[v] \in {"load", "activate"} => wpc[v] = wpc'[v]
    BY <1>13 DEF OldKilled, TypeOK
  <2>3. wold[w] \in Conns /\ proc' = [proc EXCEPT ![wold[w]] = "down"]
    BY <1>13 DEF OldKilled, TypeOK
  <2> QED
    BY <2>1, <2>2, <2>3, ProcessChanged DEF Births
<1>14. CASE StopBegins
    BY <1>14 DEF StopBegins, Births, agentVars, workerVars, procVars
<1>15. CASE StopKills
  <2>1. /\ UNCHANGED <<agentVars, workerVars, sclient>>
        /\ proc' = [proc EXCEPT ![sclient] = "down"] /\ sclient \in Conns
    BY <1>15 DEF StopKills, TypeOK
  <2> QED
    BY <2>1, ProcessChanged DEF Births, agentVars, workerVars
<1> QED
    BY <1>1, <1>2, <1>3, <1>4, <1>5, <1>6, <1>7, <1>8, <1>9, <1>10, <1>11, <1>12, <1>13,
       <1>14, <1>15 DEF Next, HostNext, OutsideNext, GateSteps, AnswerSteps, CloseSteps,
       WorkerSteps, WorkerRuns, WorkerKills, StopSteps, PromptAdmitted, PromptDispatched, PromptReturns,
       PromptBreaks, PromptFinished, TurnNotified, QueueChanged, AdoptRunning,
       AgentAsks, GateRouted, GateTargeted, GateEnqueued, AnswerTaken, AnswerDelivered,
       AnswerFailed, AnswerReinserted, AnswerRecounted, ReaderReports, CloseChecked,
       ClosePending, StopCancels, StopMarks, StopRemoves, agentVars, promptVars, gateVars,
       answerVars, workerVars, stopVars, procVars

\* Only an activation hands out a generation, above all those before it.
LEMMA GenerationsPreserved ==
    ASSUME IInv, Next
    PROVE  Generations'
<1> USE BoundsPositive DEF IInv
<1>1. CASE UNCHANGED <<client, gen, genOf>>
    BY <1>1 DEF Generations, HandleOwnsClient, Conns
<1>2. ASSUME NEW w \in Conns, CandidateActivated(w) PROVE Generations'
  <2>1. /\ gen = w /\ gen' = w + 1 /\ client' = wcand[w]
        /\ genOf' = [genOf EXCEPT ![wcand[w]] = w + 1] /\ wcand[w] \in Conns
    BY <1>2 DEF CandidateActivated, Reconnecting, TypeOK
  <2>2. \A k \in Conns : genOf'[k] = IF k = wcand[w] THEN w + 1 ELSE genOf[k]
    BY <2>1 DEF TypeOK
  <2>3. \A k \in Conns : genOf[k] <= w /\ genOf[k] \in Nat /\ w \in Nat
    BY <2>1, ConnsAreNumbers DEF Generations, TypeOK
  <2> QED
    BY <2>1, <2>2, <2>3 DEF Generations, HandleOwnsClient
<1> QED
    BY <1>1, <1>2 DEF Next, HostNext, OutsideNext, GateSteps, AnswerSteps, CloseSteps,
       WorkerSteps, WorkerRuns, WorkerKills, StopSteps, PromptAdmitted, PromptDispatched, PromptReturns,
       PromptBreaks, PromptFinished, TurnNotified, QueueChanged, AdoptRunning,
       AgentAsks, GateRouted, GateTargeted, GateEnqueued, AnswerTaken, AnswerDelivered,
       AnswerFailed, AnswerReinserted, AnswerRecounted, TransportLost, ReaderReports,
       CloseChecked, ClosePending, CloseUpdated, WorkerUnstarted, SnapshotTaken,
       SessionLoaded, Discarded, Restated, CandidateKilled, ReconnectFails,
       ActivationRefused, OldKilled, StopBegins, StopCancels, StopMarks, StopRemoves,
       StopKills, agentVars, promptVars, gateVars, answerVars, workerVars, stopVars,
       procVars

\* A worker is started for a handle that has none, and leaves when the handle has been
\* given its new client, has failed, or is being stopped.
LEMMA WorkersPreserved ==
    ASSUME IInv, Next
    PROVE  Workers'
<1> USE BoundsPositive DEF IInv
<1>1. CASE UNCHANGED <<live, gen, reconnecting, wpc, status, spc>>
    BY <1>1 DEF Workers, ReconnectHasWorker, OneReconnect, Working, Reconnects, Abandons, Closing
<1>2. ASSUME NEW p \in Prompts, PromptDispatched(p) PROVE Workers'
    BY <1>2 DEF PromptDispatched, Workers, ReconnectHasWorker, OneReconnect, Working,
       Reconnects, Abandons, Closing, TypeOK, gateVars, answerVars, workerVars,
       stopVars, procVars
<1>3. ASSUME NEW p \in Prompts, PromptFinished(p) PROVE Workers'
    BY <1>3 DEF PromptFinished, Finish, Active, Workers, ReconnectHasWorker,
       OneReconnect, Working, Reconnects, Abandons, Closing, TypeOK, gateVars,
       answerVars, workerVars, stopVars, procVars
<1>4. ASSUME NEW p \in Prompts \cup {None}, TurnNotified(p) PROVE Workers'
    BY <1>4 DEF TurnNotified, Finish, Active, Sent, Workers, ReconnectHasWorker,
       OneReconnect, Working, Reconnects, Abandons, Closing, TypeOK, promptVars,
       gateVars, answerVars, workerVars, stopVars, procVars
<1>5. ASSUME NEW g \in Gates, GateEnqueued(g) PROVE Workers'
    BY <1>5 DEF GateEnqueued, Workers, ReconnectHasWorker, OneReconnect, Working,
       Reconnects, Abandons, Closing, TypeOK, promptVars, answerVars, workerVars,
       stopVars, procVars
<1>6. ASSUME NEW g \in Gates, AnswerRecounted(g) PROVE Workers'
    BY <1>6 DEF AnswerRecounted, Workers, ReconnectHasWorker, OneReconnect, Working,
       Reconnects, Abandons, Closing, TypeOK, promptVars, gateVars, workerVars,
       stopVars, procVars
<1>7. ASSUME NEW t \in Closers, CloseUpdated(t) PROVE Workers'
    BY <1>7 DEF CloseUpdated, CloseDone, Closable, ClosedGen, Active, ReconnectStarts,
       Workers, ReconnectHasWorker, OneReconnect, Working, Reconnects, Abandons,
       Closing, TypeOK, promptVars, gateVars, answerVars, stopVars, procVars
<1>8. ASSUME NEW w \in Conns, WorkerUnstarted(w) PROVE Workers'
    BY <1>8 DEF WorkerUnstarted, Workers, ReconnectHasWorker, OneReconnect, Working,
       Reconnects, Abandons, Closing, TypeOK, promptVars, gateVars, answerVars,
       stopVars, procVars
<1>9. ASSUME NEW w \in Conns, SnapshotTaken(w) PROVE Workers'
    BY <1>9 DEF SnapshotTaken, Retried, Reconnecting, Unborn, Workers,
       ReconnectHasWorker, OneReconnect, Working, Reconnects, Abandons, Closing, TypeOK,
       agentVars, promptVars, gateVars, answerVars, stopVars
<1>10. ASSUME NEW w \in Conns, SessionLoaded(w) PROVE Workers'
  <2>1. UNCHANGED <<live, gen, reconnecting, status, spc>>
    BY <1>10 DEF SessionLoaded, agentVars, stopVars
  <2>2. \A v \in Conns : v # w => wpc'[v] = wpc[v]
    BY <1>10 DEF SessionLoaded, TypeOK
  <2>3. wpc[w] = "load" /\ wpc'[w] \in {"activate", "discard"}
    BY <1>10 DEF SessionLoaded, TypeOK
  <2> QED
    BY <2>1, <2>2, <2>3 DEF Workers, ReconnectHasWorker, OneReconnect, Working,
       Reconnects, Abandons
<1>11. ASSUME NEW w \in Conns, Discarded(w) PROVE Workers'
    BY <1>11 DEF Discarded, Workers, ReconnectHasWorker, OneReconnect, Working,
       Reconnects, Abandons, Closing, TypeOK, agentVars, promptVars, gateVars,
       answerVars, stopVars, procVars
<1>12. ASSUME NEW w \in Conns, Restated(w) PROVE Workers'
    BY <1>12 DEF Restated, Workers, ReconnectHasWorker, OneReconnect, Working,
       Reconnects, Abandons, Closing, TypeOK, promptVars, gateVars, answerVars,
       stopVars, procVars
<1>13. ASSUME NEW w \in Conns, CandidateKilled(w) PROVE Workers'
  <2>1. UNCHANGED <<live, gen, reconnecting, status, spc>>
    BY <1>13 DEF CandidateKilled, agentVars, stopVars
  <2>2. \A v \in Conns : v # w => wpc'[v] = wpc[v]
    BY <1>13 DEF CandidateKilled, Retried, TypeOK
  <2>3. \/ wpc[w] = "kill" /\ wpc'[w] \in {"snapshot", "giveUp"}
        \/ wpc[w] = "abandonKill" /\ wpc'[w] = "done"
    BY <1>13 DEF CandidateKilled, Retried, TypeOK
  <2> QED
    BY <2>1, <2>2, <2>3 DEF Workers, ReconnectHasWorker, OneReconnect, Working,
       Reconnects, Abandons
<1>14. ASSUME NEW w \in Conns, ReconnectFails(w) PROVE Workers'
    BY <1>14 DEF ReconnectFails, Reconnecting, Workers, ReconnectHasWorker,
       OneReconnect, Working, Reconnects, Abandons, Closing, TypeOK, promptVars,
       gateVars, answerVars, stopVars, procVars
<1>15. ASSUME NEW w \in Conns, CandidateActivated(w) PROVE Workers'
  <2>1. /\ live /\ gen = w /\ reconnecting /\ live' = live /\ spc' = spc
        /\ gen' = w + 1 /\ ~reconnecting' /\ status' \notin {"stopping", "error"}
    BY <1>15 DEF CandidateActivated, Reconnecting, stopVars
  <2>2. \A v \in Conns : wpc'[v] = IF v = w THEN "killOld" ELSE wpc[v]
    BY <1>15 DEF CandidateActivated, TypeOK
  <2>3. \A v \in Conns : v \in Nat
    BY ConnsAreNumbers
  <2>4. \A v \in Conns : wpc[v] \in Reconnects => v = w
    BY <2>1 DEF Workers
  <2>5. wpc[w] = "activate"
    BY <1>15 DEF CandidateActivated
  <2>6. \A v \in Conns : wpc'[v] = "killOld" => v < gen'
    BY <2>1, <2>2, <2>3 DEF Workers
  <2>7. \A v \in Conns : wpc'[v] \notin Reconnects /\ wpc'[v] \notin Abandons
    BY <2>1, <2>2, <2>4 DEF Workers, Reconnects, Abandons
  <2>8. OneReconnect'
    BY <2>2, <2>5 DEF Workers, OneReconnect, Working
  <2> QED
    BY <2>1, <2>6, <2>7, <2>8 DEF Workers, ReconnectHasWorker
<1>16. ASSUME NEW w \in Conns, ActivationRefused(w) PROVE Workers'
    BY <1>16 DEF ActivationRefused, Reconnecting, Workers, ReconnectHasWorker,
       OneReconnect, Working, Reconnects, Abandons, Closing, TypeOK, agentVars,
       promptVars, gateVars, answerVars, stopVars, procVars
<1>17. ASSUME NEW w \in Conns, OldKilled(w) PROVE Workers'
  <2>1. UNCHANGED <<live, gen, reconnecting, status, spc>>
    BY <1>17 DEF OldKilled, agentVars, stopVars
  <2>2. \A v \in Conns : v # w => wpc'[v] = wpc[v]
    BY <1>17 DEF OldKilled, TypeOK
  <2>3. wpc[w] = "killOld" /\ wpc'[w] = "done"
    BY <1>17 DEF OldKilled, TypeOK
  <2>4. w # gen
    BY <2>3, ConnsAreNumbers DEF Workers, TypeOK
  <2> QED
    BY <2>1, <2>2, <2>3, <2>4 DEF Workers, ReconnectHasWorker, OneReconnect, Working,
       Reconnects, Abandons
<1>18. CASE StopBegins
    BY <1>18 DEF StopBegins, Workers, ReconnectHasWorker, OneReconnect, Working,
       Reconnects, Abandons, Closing, TypeOK, agentVars, promptVars, gateVars,
       answerVars, workerVars, procVars
<1>19. CASE StopCancels
    BY <1>19 DEF StopCancels, Workers, ReconnectHasWorker, OneReconnect, Working,
       Reconnects, Abandons, Closing, TypeOK, agentVars, promptVars, gateVars,
       answerVars, workerVars, procVars
<1>20. CASE StopMarks
    BY <1>20 DEF StopMarks, Workers, ReconnectHasWorker, OneReconnect, Working,
       Reconnects, Abandons, Closing, TypeOK, promptVars, gateVars, answerVars,
       workerVars, procVars
<1>21. CASE StopRemoves
    BY <1>21 DEF StopRemoves, Workers, ReconnectHasWorker, OneReconnect, Working,
       Reconnects, Abandons, Closing, TypeOK, promptVars, gateVars, answerVars,
       workerVars, procVars
<1>22. CASE StopKills
    BY <1>22 DEF StopKills, Workers, ReconnectHasWorker, OneReconnect, Working,
       Reconnects, Abandons, Closing, TypeOK, agentVars, promptVars, gateVars,
       answerVars, workerVars
<1> QED
    BY <1>1, <1>2, <1>3, <1>4, <1>5, <1>6, <1>7, <1>8, <1>9, <1>10, <1>11, <1>12, <1>13,
       <1>14, <1>15, <1>16, <1>17, <1>18, <1>19, <1>20, <1>21, <1>22 DEF Next, HostNext,
       OutsideNext, GateSteps, AnswerSteps, CloseSteps, WorkerSteps, WorkerRuns, WorkerKills, StopSteps,
       PromptAdmitted, PromptReturns, PromptBreaks, QueueChanged, AdoptRunning,
       AgentAsks, GateRouted, GateTargeted, AnswerTaken, AnswerDelivered, AnswerFailed,
       AnswerReinserted, TransportLost, ReaderReports, CloseChecked, ClosePending,
       agentVars, promptVars, gateVars, answerVars, workerVars, stopVars, procVars

-----------------------------------------------------------------------------
(* The inductive invariant and what follows from it.                       *)

\* A handle just spawned satisfies the invariant.
LEMMA InitIInv == Init => IInv
<1> SUFFICES ASSUME Init
             PROVE  IInv
  OBVIOUS
<1>1. 1 \in Conns
  BY BoundsPositive DEF Conns
<1>2. TypeOK
  <2>1. /\ live \in BOOLEAN /\ status \in Statuses /\ client \in Conns /\ gen \in Conns
        /\ reconnecting \in BOOLEAN /\ count \in Nat /\ inflight \subseteq Prompts
        /\ current \in Prompts \cup {None} /\ adopting \in Prompts \cup {None}
        /\ sclient \in Conns /\ spc \in {"idle", "cancel", "mark", "remove", "kill", "done"}
    BY <1>1 DEF Init, Statuses
  <2>2. proc \in [Conns -> {"unborn", "up", "lost", "down"}]
    BY DEF Init
  <2>3. genOf \in [Conns -> Conns \cup {0}]
    BY <1>1 DEF Init
  <2>4. wtries \in [Conns -> 0..MaxAttempts] /\ losses \in 0..MaxLosses
    <3>1. 0 \in 0..MaxAttempts /\ 0 \in 0..MaxLosses
      BY BoundsPositive
    <3> QED
      BY <3>1 DEF Init
  <2> QED
    BY <1>1, <2>1, <2>2, <2>3, <2>4 DEF Init, TypeOK
<1>3. Tries /\ Births /\ Generations
  BY <1>1, ConnsAreNumbers DEF Init, Tries, Births, Generations, HandleOwnsClient
<1>4. Workers
  BY <1>1 DEF Init, Workers, ReconnectHasWorker, OneReconnect, Working, Reconnects, Abandons
<1> QED
  BY <1>2, <1>3, <1>4 DEF IInv

\* Every step of the host, the agent or the transport keeps the invariant.
LEMMA NextIInv == IInv /\ [Next]_vars => IInv'
<1>1. IInv /\ Next => IInv'
  BY TypePreserved, TriesPreserved, BirthsPreserved, GenerationsPreserved, WorkersPreserved
     DEF IInv
<1>2. IInv /\ UNCHANGED vars => IInv'
  BY DEF IInv, TypeOK, Tries, Births, Generations, HandleOwnsClient, Workers,
         ReconnectHasWorker, OneReconnect, Working, vars, agentVars, promptVars, gateVars,
         answerVars, workerVars, stopVars, procVars
<1> QED
  BY <1>1, <1>2

\* The invariant the others are read off, for any number of prompts, reverse requests,
\* connections, losses and attempts, with or without stop().
THEOREM HandleInductive == Spec => []IInv
  BY InitIInv, NextIInv, PTL DEF Spec

\* Every variable keeps its type; in particular a worker never counts past the length
\* of RECONNECT_DELAYS and the pending count stays a number.
THEOREM HandleTypeCorrect == Spec => []TypeOK
<1>1. IInv => TypeOK
  BY DEF IInv
<1> QED
  BY <1>1, HandleInductive, PTL

\* The generation that is_active_generation compares is the owning transport's and no
\* other transport's, at every moment between two critical sections.
THEOREM OwnerIsUnique == Spec => []HandleOwnsClient
<1>1. IInv => HandleOwnsClient
  BY DEF IInv, Generations
<1> QED
  BY <1>1, HandleInductive, PTL

\* A handle that is reconnecting has the worker that will end it, or stop() is about to
\* remove it.
THEOREM ReconnectIsWorkedOn == Spec => []ReconnectHasWorker
<1>1. IInv => ReconnectHasWorker
  BY DEF IInv, Workers
<1> QED
  BY <1>1, HandleInductive, PTL

\* However many threads notice however many losses, one worker at a time reconnects.
THEOREM ReconnectIsSingle == Spec => []OneReconnect
<1>1. IInv => OneReconnect
  BY DEF IInv, Workers
<1> QED
  BY <1>1, HandleInductive, PTL

-----------------------------------------------------------------------------
(* Processes.                                                              *)

\* A process passes from the worker that spawned it to the handle and from the handle to
\* the worker that replaces it; whoever lets go of it kills it.
LEMMA ProcessesStayHeld ==
    ASSUME IInv, ProcessesHeld, Next
    PROVE  ProcessesHeld'
<1> USE DEF IInv
<1>1. CASE UNCHANGED <<proc, client, wpc, wcand, wold>>
  BY <1>1 DEF ProcessesHeld, Held
<1>2. ASSUME NEW k \in Conns, TransportLost(k) PROVE ProcessesHeld'
  <2>1. UNCHANGED <<client, wpc, wcand, wold>>
    BY <1>2 DEF TransportLost, agentVars, workerVars
  <2>2. proc[k] = "up" /\ \A j \in Conns : j # k => proc'[j] = proc[j]
    BY <1>2 DEF TransportLost, TypeOK
  <2> QED
    BY <2>1, <2>2 DEF ProcessesHeld, Held
<1>3. ASSUME NEW t \in Closers, CloseUpdated(t) PROVE ProcessesHeld'
  <2>1. UNCHANGED <<proc, client, wcand, wold>>
    BY <1>3 DEF CloseUpdated, procVars
  <2>2. wpc' # wpc => live /\ ~reconnecting /\ \A v \in Conns : v # gen => wpc'[v] = wpc[v]
    BY <1>3 DEF CloseUpdated, Closable, Active, ReconnectStarts, TypeOK
  <2>3. live /\ ~reconnecting => wpc[gen] \notin Carrying \cup {"killOld"}
    BY ConnsAreNumbers DEF Workers, Reconnects, Carrying, TypeOK
  <2> QED
    BY <2>1, <2>2, <2>3 DEF ProcessesHeld, Held
<1>4. ASSUME NEW w \in Conns, WorkerUnstarted(w) PROVE ProcessesHeld'
  <2>1. UNCHANGED <<proc, client, wcand, wold>>
    BY <1>4 DEF WorkerUnstarted, agentVars, procVars
  <2>2. \A v \in Conns : v # w => wpc'[v] = wpc[v]
    BY <1>4 DEF WorkerUnstarted, TypeOK
  <2>3. wpc[w] = "unstarted"
    BY <1>4 DEF WorkerUnstarted, TypeOK
  <2> QED
    BY <2>1, <2>2, <2>3 DEF ProcessesHeld, Held, Carrying, Abandons
<1>5. ASSUME NEW w \in Conns, SnapshotTaken(w) PROVE ProcessesHeld'
  <2>1. /\ wpc[w] = "snapshot" /\ UNCHANGED <<client, wold>>
        /\ \A v \in Conns : v # w => wpc'[v] = wpc[v] /\ wcand'[v] = wcand[v]
    BY <1>5 DEF SnapshotTaken, Retried, TypeOK, agentVars
  <2>2. \/ proc' = proc
        \/ /\ wpc'[w] = "load"
           /\ \A k \in Conns : k # wcand'[w] => proc'[k] = proc[k]
    BY <1>5 DEF SnapshotTaken, Unborn, TypeOK
  <2>3. \A k \in Conns : Held(k) => Held(k)'
    BY <2>1 DEF Held, Carrying, Abandons
  <2>4. \A k \in Conns : wpc'[w] = "load" /\ k = wcand'[w] => Held(k)'
    BY DEF Held, Carrying
  <2> QED
    BY <2>2, <2>3, <2>4 DEF ProcessesHeld
<1>6. ASSUME NEW w \in Conns, SessionLoaded(w) PROVE ProcessesHeld'
  <2>1. UNCHANGED <<proc, client, wcand, wold>>
    BY <1>6 DEF SessionLoaded, agentVars, procVars
  <2>2. \A v \in Conns : v # w => wpc'[v] = wpc[v]
    BY <1>6 DEF SessionLoaded, TypeOK
  <2>3. wpc[w] = "load" /\ wpc'[w] \in {"activate", "discard"}
    BY <1>6 DEF SessionLoaded, TypeOK
  <2> QED
    BY <2>1, <2>2, <2>3 DEF ProcessesHeld, Held, Carrying, Abandons
<1>7. ASSUME NEW w \in Conns, Discarded(w) PROVE ProcessesHeld'
  <2>1. UNCHANGED <<proc, client, wcand, wold>>
    BY <1>7 DEF Discarded, agentVars, procVars
  <2>2. \A v \in Conns : v # w => wpc'[v] = wpc[v]
    BY <1>7 DEF Discarded, TypeOK
  <2>3. \/ wpc[w] = "discard" /\ wpc'[w] \in {"kill", "restate"}
        \/ wpc[w] = "abandon" /\ wpc'[w] \in {"abandonKill", "abandonRestate"}
    BY <1>7 DEF Discarded, TypeOK
  <2> QED
    BY <2>1, <2>2, <2>3 DEF ProcessesHeld, Held, Carrying, Abandons
<1>8. ASSUME NEW w \in Conns, Restated(w) PROVE ProcessesHeld'
  <2>1. UNCHANGED <<proc, client, wcand, wold>>
    BY <1>8 DEF Restated, agentVars, procVars
  <2>2. \A v \in Conns : v # w => wpc'[v] = wpc[v]
    BY <1>8 DEF Restated, TypeOK
  <2>3. \/ wpc[w] = "restate" /\ wpc'[w] = "kill"
        \/ wpc[w] = "abandonRestate" /\ wpc'[w] = "abandonKill"
    BY <1>8 DEF Restated, TypeOK
  <2> QED
    BY <2>1, <2>2, <2>3 DEF ProcessesHeld, Held, Carrying, Abandons
<1>9. ASSUME NEW w \in Conns, CandidateKilled(w) PROVE ProcessesHeld'
  <2>1. UNCHANGED <<client, wcand, wold>> /\ \A v \in Conns : v # w => wpc'[v] = wpc[v]
    BY <1>9 DEF CandidateKilled, Retried, TypeOK, agentVars
  <2>2. \A k \in Conns : proc'[k] = IF k = wcand[w] THEN "down" ELSE proc[k]
    BY <1>9 DEF CandidateKilled, TypeOK
  <2>3. wpc[w] \in {"kill", "abandonKill"}
    BY <1>9 DEF CandidateKilled
  <2> QED
    BY <2>1, <2>2, <2>3 DEF ProcessesHeld, Held, Carrying, Abandons
<1>10. ASSUME NEW w \in Conns, ReconnectFails(w) PROVE ProcessesHeld'
  <2>1. UNCHANGED <<proc, client, wcand, wold>>
    BY <1>10 DEF ReconnectFails, agentVars, procVars
  <2>2. \A v \in Conns : v # w => wpc'[v] = wpc[v]
    BY <1>10 DEF ReconnectFails, TypeOK
  <2>3. wpc[w] = "giveUp"
    BY <1>10 DEF ReconnectFails, TypeOK
  <2> QED
    BY <2>1, <2>2, <2>3 DEF ProcessesHeld, Held, Carrying, Abandons
<1>11. ASSUME NEW w \in Conns, CandidateActivated(w) PROVE ProcessesHeld'
  <2>1. /\ wpc[w] = "activate" /\ client' = wcand[w] /\ UNCHANGED <<proc, wcand>>
    BY <1>11 DEF CandidateActivated
  <2>2. \A v \in Conns : IF v = w THEN wpc'[v] = "killOld" /\ wold'[v] = client
                        ELSE wpc'[v] = wpc[v] /\ wold'[v] = wold[v]
    BY <1>11 DEF CandidateActivated, TypeOK
  <2> QED
    BY <2>1, <2>2 DEF ProcessesHeld, Held, Carrying, Abandons
<1>12. ASSUME NEW w \in Conns, ActivationRefused(w) PROVE ProcessesHeld'
  <2>1. UNCHANGED <<proc, client, wcand, wold>>
    BY <1>12 DEF ActivationRefused, agentVars, procVars
  <2>2. \A v \in Conns : v # w => wpc'[v] = wpc[v]
    BY <1>12 DEF ActivationRefused, TypeOK
  <2>3. wpc[w] = "activate" /\ wpc'[w] = "abandon"
    BY <1>12 DEF ActivationRefused, TypeOK
  <2> QED
    BY <2>1, <2>2, <2>3 DEF ProcessesHeld, Held, Carrying, Abandons
<1>13. ASSUME NEW w \in Conns, OldKilled(w) PROVE ProcessesHeld'
  <2>1. UNCHANGED <<client, wcand, wold>> /\ \A v \in Conns : v # w => wpc'[v] = wpc[v]
    BY <1>13 DEF OldKilled, TypeOK, agentVars
  <2>2. \A k \in Conns : proc'[k] = IF k = wold[w] THEN "down" ELSE proc[k]
    BY <1>13 DEF OldKilled, TypeOK
  <2>3. wpc[w] = "killOld"
    BY <1>13 DEF OldKilled
  <2> QED
    BY <2>1, <2>2, <2>3 DEF ProcessesHeld, Held, Carrying, Abandons
<1>14. CASE StopKills
  <2>1. UNCHANGED <<client, wpc, wcand, wold>>
    BY <1>14 DEF StopKills, agentVars, workerVars
  <2>2. \A k \in Conns : proc'[k] = IF k = sclient THEN "down" ELSE proc[k]
    BY <1>14 DEF StopKills, TypeOK
  <2> QED
    BY <2>1, <2>2 DEF ProcessesHeld, Held
<1> QED
  BY <1>1, <1>2, <1>3, <1>4, <1>5, <1>6, <1>7, <1>8, <1>9, <1>10, <1>11, <1>12, <1>13, <1>14
     DEF Next, HostNext, OutsideNext, GateSteps, AnswerSteps, CloseSteps,
       WorkerSteps, WorkerRuns, WorkerKills, StopSteps, PromptAdmitted, PromptDispatched, PromptReturns,
       PromptBreaks, PromptFinished, TurnNotified, QueueChanged, AdoptRunning,
       AgentAsks, GateRouted, GateTargeted, GateEnqueued, AnswerTaken, AnswerDelivered,
       AnswerFailed, AnswerReinserted, AnswerRecounted, ReaderReports, CloseChecked,
       ClosePending, StopBegins, StopCancels, StopMarks, StopRemoves, agentVars,
       promptVars, gateVars, answerVars, workerVars, stopVars, procVars

\* Reconnecting leaks no process, for any number of losses and failed candidates and
\* whenever stop() is called: at rest the only one left is the one the handle holds.
THEOREM NoProcessLeft == Spec => []OneProcess
<1> DEFINE PInv == IInv /\ ProcessesHeld
<1>1. Init => PInv
  <2> SUFFICES ASSUME Init
               PROVE  ProcessesHeld
    BY InitIInv
  <2> QED
    BY DEF Init, ProcessesHeld, Held
<1>2. PInv /\ [Next]_vars => PInv'
  <2>1. PInv /\ Next => PInv'
    BY NextIInv, ProcessesStayHeld
  <2>2. PInv /\ UNCHANGED vars => PInv'
    <3> SUFFICES ASSUME PInv, UNCHANGED vars
                 PROVE  ProcessesHeld'
      BY NextIInv
    <3> QED
      BY DEF ProcessesHeld, Held, vars, agentVars, workerVars, procVars
  <2> QED
    BY <2>1, <2>2
<1>3. PInv => OneProcess
  <2> SUFFICES ASSUME PInv, Settled, NEW k \in Conns, proc[k] \in {"up", "lost"}
               PROVE  k = client
    BY DEF OneProcess
  <2>1. \A w \in Conns : wpc[w] \in {"idle", "done"}
    BY DEF Settled
  <2> QED
    BY <2>1 DEF ProcessesHeld, Held, Carrying, Abandons
<1> HIDE DEF PInv
<1> QED
  BY <1>1, <1>2, <1>3, PTL DEF Spec

-----------------------------------------------------------------------------
(* The badge: what the handle says of the requests that wait for the user. *)

\* Until its first transport is lost, a handle has that transport, the messages and the
\* answers of no other, and no thread that closes or reconnects it.
OneTransport ==
    /\ client = 1 /\ gen = 1 /\ ~reconnecting /\ status # "error"
    /\ genOf[1] = 1 /\ proc[1] = "up"
    /\ \A k \in Conns : k # 1 => proc[k] = "unborn"
    /\ \A t \in Closers : cpc[t] = "idle"
    /\ \A w \in Conns : wpc[w] = "idle"
    /\ \A p \in Prompts : pconn[p] = 1
    /\ \A g \in Gates : gconn[g] = 1 /\ gclient[g] = 1 /\ rclient[g] = 1
    /\ \A g \in Gates : pending[g] \in {NoConn, 1}

\* What the handle must not pass over, and what its count may still include: the gates
\* whose answer is in hand are counted until they are answered and counted again, or put
\* back uncounted.
Unreturned == Open(pending) \ returned
InHand     == {g \in Gates : rpc[g] \in {"deliver", "undelivered", "reinsert"}}
Countable  == Open(pending) \cup InHand

Recounted ==
    /\ Unreturned # {} => status = "awaitingPermission"
    /\ Cardinality(Unreturned) <= count
    /\ (\A g \in Gates : rpc[g] # "recount") =>
          /\ count <= Cardinality(Countable)
          /\ status = "awaitingPermission" => Countable # {}

Healthy == losses = 0 /\ live

OnFirstTransport == Healthy => OneTransport

\* stop() clears the map before it clears the count.
CountKept == Healthy /\ spc \in {"idle", "cancel"} => Recounted

\* A count of nothing is zero, and only that of nothing; fewer gates count for less.
LEMMA CountsOfGates ==
    /\ \A S \in SUBSET Gates : Cardinality(S) \in Nat /\ (Cardinality(S) = 0 <=> S = {})
    /\ \A S, T \in SUBSET Gates : S \subseteq T => Cardinality(S) <= Cardinality(T)
<1>1. \A S \in SUBSET Gates : IsFiniteSet(S)
  BY GatesFinite, FS_Subset
<1> QED
  BY <1>1, FS_Subset, FS_CardinalityType, FS_EmptySet

LEMMA GatesCounted ==
    /\ Open(pending) \in SUBSET Gates /\ Unreturned \in SUBSET Gates /\ Countable \in SUBSET Gates
    /\ Unreturned \subseteq Open(pending) /\ Open(pending) \subseteq Countable
  BY DEF Open, Unreturned, Countable, InHand

\* An operation that counts the map again leaves the count exact, whatever it does to a
\* status that cannot be kept.
LEMMA CountedAgain ==
    ASSUME TypeOK', count' = Cardinality(Open(pending')),
           Open(pending') # {} /\ status' # "awaitingPermission" => Unreturned' = {},
           status' = "awaitingPermission" => Open(pending') # {}
    PROVE  Recounted'
<1>1. /\ Open(pending') \in SUBSET Gates /\ Unreturned' \in SUBSET Gates /\ Countable' \in SUBSET Gates
      /\ Unreturned' \subseteq Open(pending') /\ Open(pending') \subseteq Countable'
  BY DEF Open, Unreturned, Countable, InHand
<1>2. Cardinality(Unreturned') <= count' /\ count' <= Cardinality(Countable')
  BY <1>1, CountsOfGates
<1>3. Unreturned' # {} => status' = "awaitingPermission"
  BY <1>1
<1>4. status' = "awaitingPermission" => Countable' # {}
  BY <1>1
<1> QED
  BY <1>2, <1>3, <1>4 DEF Recounted

\* Losses are only counted up and a handle that is gone does not come back: it was
\* healthy before it is healthy.
LEMMA HealthOnlyEnds ==
    ASSUME IInv, Next, Healthy'
    PROVE  Healthy
<1>1. losses' = losses \/ losses' = losses + 1
  BY DEF Next, HostNext, OutsideNext, GateSteps, AnswerSteps, CloseSteps,
     WorkerSteps, WorkerRuns, WorkerKills, StopSteps, PromptAdmitted, PromptDispatched, PromptReturns,
     PromptBreaks, PromptFinished, TurnNotified, QueueChanged, AdoptRunning,
     AgentAsks, GateRouted, GateTargeted, GateEnqueued, AnswerTaken, AnswerDelivered,
     AnswerFailed, AnswerReinserted, AnswerRecounted, TransportLost, ReaderReports,
     CloseChecked, ClosePending, CloseUpdated, WorkerUnstarted, SnapshotTaken,
     SessionLoaded, Discarded, Restated, CandidateKilled, ReconnectFails,
     CandidateActivated, ActivationRefused, OldKilled, StopBegins, StopCancels,
     StopMarks, StopRemoves, StopKills, procVars
<1>2. live' = live \/ live' = FALSE
  BY DEF Next, HostNext, OutsideNext, GateSteps, AnswerSteps, CloseSteps,
     WorkerSteps, WorkerRuns, WorkerKills, StopSteps, PromptAdmitted, PromptDispatched, PromptReturns,
     PromptBreaks, PromptFinished, TurnNotified, QueueChanged, AdoptRunning,
     AgentAsks, GateRouted, GateTargeted, GateEnqueued, AnswerTaken, AnswerDelivered,
     AnswerFailed, AnswerReinserted, AnswerRecounted, TransportLost, ReaderReports,
     CloseChecked, ClosePending, CloseUpdated, WorkerUnstarted, SnapshotTaken,
     SessionLoaded, Discarded, Restated, CandidateKilled, ReconnectFails,
     CandidateActivated, ActivationRefused, OldKilled, StopBegins, StopCancels,
     StopMarks, StopRemoves, StopKills, agentVars
<1> QED
  <2>1. losses = 0
    BY <1>1, BoundsPositive DEF Healthy, IInv, TypeOK
  <2>2. live
    BY <1>2, Zenon DEF Healthy
  <2> QED
    BY <2>1, <2>2 DEF Healthy

\* On a healthy transport nobody closes, reconnects or kills.
LEMMA FirstTransportKept ==
    ASSUME IInv, OnFirstTransport, Next
    PROVE  OnFirstTransport'
<1> SUFFICES ASSUME Healthy' PROVE OneTransport'
  BY DEF OnFirstTransport
<1>1. OneTransport /\ losses' = 0 /\ live'
  BY HealthOnlyEnds DEF Healthy, OnFirstTransport
<1>2. TypeOK /\ Workers /\ 1 \in Conns
  BY BoundsPositive DEF IInv, Conns
<1> USE <1>1, <1>2
<1>3. ASSUME NEW p \in Prompts, PromptAdmitted(p) PROVE OneTransport'
  BY <1>3 DEF PromptAdmitted, OneTransport, TypeOK, agentVars, procVars, gateVars,
     answerVars, workerVars
<1>4. ASSUME NEW p \in Prompts, PromptDispatched(p) PROVE OneTransport'
  BY <1>4 DEF PromptDispatched, OneTransport, procVars, gateVars, answerVars, workerVars
<1>5. ASSUME NEW p \in Prompts, PromptReturns(p) PROVE OneTransport'
  BY <1>5 DEF PromptReturns, OneTransport, agentVars, procVars, gateVars, answerVars,
     workerVars
<1>6. ASSUME NEW p \in Prompts, PromptBreaks(p) PROVE OneTransport'
  BY <1>6 DEF PromptBreaks, OneTransport
<1>7. ASSUME NEW p \in Prompts, PromptFinished(p) PROVE OneTransport'
  BY <1>7 DEF PromptFinished, OneTransport, procVars, gateVars, answerVars, workerVars
<1>8. ASSUME NEW p \in Prompts \cup {None}, TurnNotified(p) PROVE OneTransport'
  BY <1>8 DEF TurnNotified, OneTransport, procVars, promptVars, gateVars, answerVars,
     workerVars
<1>9. ASSUME NEW p \in Prompts, QueueChanged(p) PROVE OneTransport'
  BY <1>9 DEF QueueChanged, OneTransport, agentVars, procVars, promptVars, gateVars,
     answerVars, workerVars
<1>10. CASE AdoptRunning
  BY <1>10 DEF AdoptRunning, OneTransport, procVars, promptVars, gateVars, answerVars,
     workerVars
<1>11. ASSUME NEW g \in Gates, NEW k \in Conns, AgentAsks(g, k) PROVE OneTransport'
  BY <1>11 DEF AgentAsks, OneTransport, TypeOK, agentVars, procVars, promptVars,
     answerVars, workerVars
<1>12. ASSUME NEW g \in Gates, GateRouted(g) PROVE OneTransport'
  BY <1>12 DEF GateRouted, OneTransport, TypeOK, agentVars, procVars, promptVars,
     answerVars, workerVars
<1>13. ASSUME NEW g \in Gates, GateTargeted(g) PROVE OneTransport'
  BY <1>13 DEF GateTargeted, OneTransport, TypeOK, agentVars, procVars, promptVars,
     answerVars, workerVars
<1>14. ASSUME NEW g \in Gates, GateEnqueued(g) PROVE OneTransport'
  BY <1>14 DEF GateEnqueued, OneTransport, TypeOK, procVars, promptVars, answerVars,
     workerVars
<1>15. ASSUME NEW g \in Gates, AnswerTaken(g) PROVE OneTransport'
  BY <1>15 DEF AnswerTaken, OneTransport, TypeOK, NoConn, agentVars, procVars,
     promptVars, gateVars, workerVars
<1>16. ASSUME NEW g \in Gates, AnswerDelivered(g) PROVE OneTransport'
  BY <1>16 DEF AnswerDelivered, OneTransport, TypeOK, agentVars, procVars, promptVars,
     gateVars, workerVars
<1>17. ASSUME NEW g \in Gates, AnswerFailed(g) \/ AnswerReinserted(g) PROVE OneTransport'
  <2>1. UNCHANGED <<agentVars, procVars, promptVars, gateVars, rclient, cpc, workerVars>>
    BY <1>17 DEF AnswerFailed, AnswerReinserted
  <2>2. \A h \in Gates : pending'[h] \in {NoConn, 1}
    BY <1>17 DEF AnswerFailed, AnswerReinserted, OneTransport, TypeOK
  <2> QED
    BY <2>1, <2>2 DEF OneTransport, agentVars, procVars, promptVars, gateVars, workerVars
<1>18. ASSUME NEW g \in Gates, AnswerRecounted(g) PROVE OneTransport'
  BY <1>18 DEF AnswerRecounted, OneTransport, TypeOK, procVars, promptVars, gateVars,
     workerVars
<1>19. ASSUME NEW k \in Conns, TransportLost(k) PROVE OneTransport'
  BY <1>19, HealthOnlyEnds DEF TransportLost, Healthy
<1>20. ASSUME NEW k \in Conns, ReaderReports(k) PROVE OneTransport'
  BY <1>20 DEF ReaderReports, OneTransport
<1>21. ASSUME NEW t \in Closers, CloseSteps(t) PROVE OneTransport'
  BY <1>21 DEF CloseSteps, CloseChecked, ClosePending, CloseUpdated, OneTransport
<1>22. ASSUME NEW w \in Conns, WorkerSteps(w) PROVE OneTransport'
  BY <1>22 DEF WorkerSteps, WorkerRuns, WorkerKills, WorkerUnstarted, SnapshotTaken, SessionLoaded, Discarded,
     Restated, CandidateKilled, ReconnectFails, CandidateActivated, ActivationRefused,
     OldKilled, OneTransport
<1>23. CASE StopBegins
  BY <1>23 DEF StopBegins, OneTransport, agentVars, procVars, promptVars, gateVars,
     answerVars, workerVars
<1>24. CASE StopCancels
  BY <1>24 DEF StopCancels, OneTransport, NoConn, agentVars, procVars, promptVars,
     gateVars, answerVars, workerVars
<1>25. CASE StopMarks
  BY <1>25 DEF StopMarks, OneTransport, procVars, promptVars, gateVars, answerVars,
     workerVars
<1>26. CASE StopRemoves
  BY <1>26 DEF StopRemoves
<1>27. CASE StopKills
  BY <1>27, HealthOnlyEnds DEF Healthy, StopKills, Workers
<1> QED
  BY <1>3, <1>4, <1>5, <1>6, <1>7, <1>8, <1>9, <1>10, <1>11, <1>12, <1>13, <1>14,
     <1>15, <1>16, <1>17, <1>18, <1>19, <1>20, <1>21, <1>22, <1>23, <1>24, <1>25, <1>26,
     <1>27 DEF Next, HostNext, OutsideNext, GateSteps, AnswerSteps, StopSteps

\* Each operation on the map, the count or the status leaves them agreeing, as far as
\* they have to before the threads that answer have counted again.
LEMMA CountPreserved ==
    ASSUME IInv, OnFirstTransport, CountKept, Next
    PROVE  CountKept'
<1> SUFFICES ASSUME Healthy', spc' \in {"idle", "cancel"} PROVE Recounted'
  BY DEF CountKept
<1>1. OneTransport /\ Healthy /\ live'
  BY HealthOnlyEnds DEF Healthy, OnFirstTransport
<1>2. TypeOK /\ Workers /\ count \in Nat
  BY DEF IInv, TypeOK
<1>3. spc \in {"idle", "cancel"}
  BY <1>1, <1>2 DEF Healthy, Next, HostNext, OutsideNext, GateSteps, AnswerSteps,
     CloseSteps, WorkerSteps, WorkerRuns, WorkerKills, StopSteps, PromptAdmitted, PromptDispatched, PromptReturns,
     PromptBreaks, PromptFinished, TurnNotified, QueueChanged, AdoptRunning,
     AgentAsks, GateRouted, GateTargeted, GateEnqueued, AnswerTaken, AnswerDelivered,
     AnswerFailed, AnswerReinserted, AnswerRecounted, TransportLost, ReaderReports,
     CloseChecked, ClosePending, CloseUpdated, WorkerUnstarted, SnapshotTaken,
     SessionLoaded, Discarded, Restated, CandidateKilled, ReconnectFails,
     CandidateActivated, ActivationRefused, OldKilled, StopBegins, StopCancels,
     StopMarks, StopRemoves, StopKills, stopVars
<1>4. Recounted
  BY <1>1, <1>3 DEF CountKept
<1>0. TypeOK'
  BY NextIInv DEF IInv
<1> USE <1>1, <1>2, <1>4
<1>5. CASE UNCHANGED <<pending, count, status, rpc, returned>>
  BY <1>5 DEF Recounted, Unreturned, Countable, InHand, Open
<1>6. ASSUME NEW p \in Prompts, PromptDispatched(p) PROVE Recounted'
  <2>1. /\ UNCHANGED <<pending, rpc, returned>>
        /\ count' = Cardinality(Open(pending))
        /\ status' = IF Open(pending) = {} THEN "running" ELSE status
    BY <1>6 DEF PromptDispatched, Healthy, answerVars
  <2>2. Unreturned' = Unreturned /\ Open(pending') = Open(pending)
    BY <2>1 DEF Unreturned, Open
  <2>3. Open(pending') # {} /\ status' # "awaitingPermission" => Unreturned' = {}
    BY <2>1, <2>2 DEF Recounted
  <2> QED
    BY <2>1, <2>2, <2>3, <1>0, CountedAgain
<1>7. ASSUME NEW p \in Prompts, PromptFinished(p) PROVE Recounted'
  <2>1. /\ UNCHANGED <<pending, rpc, returned, count>>
        /\ \/ status' = status
           \/ count = 0 /\ status' \in {"ready", "running"}
    BY <1>7 DEF PromptFinished, answerVars
  <2>2. Unreturned' = Unreturned /\ Countable' = Countable
    BY <2>1 DEF Unreturned, Countable, InHand, Open
  <2> QED
    BY <2>1, <2>2, GatesCounted, CountsOfGates DEF Recounted
<1>8. ASSUME NEW p \in Prompts \cup {None}, TurnNotified(p) PROVE Recounted'
  <2>1. /\ UNCHANGED <<pending, rpc, returned, count>>
        /\ \/ status' = status
           \/ count > 0 /\ status' = "awaitingPermission"
           \/ count = 0 /\ status' \in {"ready", "running"}
    BY <1>8 DEF TurnNotified, Finish, answerVars
  <2>2. Unreturned' = Unreturned /\ Countable' = Countable
    BY <2>1 DEF Unreturned, Countable, InHand, Open
  <2> QED
    BY <2>1, <2>2, GatesCounted, CountsOfGates DEF Recounted
<1>9. ASSUME NEW g \in Gates, GateEnqueued(g) PROVE Recounted'
  <2>1. /\ count' = Cardinality(Open(pending'))
        /\ status' = "awaitingPermission"
        /\ pending' = [pending EXCEPT ![g] = 1]
    BY <1>9 DEF GateEnqueued, Healthy, OneTransport
  <2>2. g \in Open(pending')
    BY <2>1 DEF Open, NoConn, TypeOK
  <2> QED
    BY <2>1, <2>2, <1>0, CountedAgain
<1>10. ASSUME NEW g \in Gates, AnswerTaken(g) PROVE Recounted'
  <2>1. /\ UNCHANGED <<count, status>>
        /\ pending' = [pending EXCEPT ![g] = NoConn] /\ pending[g] # NoConn
        /\ rpc' = [rpc EXCEPT ![g] = "deliver"] /\ rpc[g] = "idle"
        /\ returned' = returned \ {g}
    BY <1>10 DEF AnswerTaken, agentVars
  <2>2. Open(pending') = Open(pending) \ {g} /\ InHand' = InHand \cup {g} /\ g \in Open(pending)
    BY <2>1 DEF Open, InHand, TypeOK
  <2>3. Unreturned' \subseteq Unreturned /\ Countable' = Countable /\ Unreturned' \in SUBSET Gates
    BY <2>1, <2>2, GatesCounted DEF Unreturned, Countable
  <2>4. (\A h \in Gates : rpc'[h] # "recount") => \A h \in Gates : rpc[h] # "recount"
    BY <2>1 DEF TypeOK
  <2>5. Cardinality(Unreturned') <= Cardinality(Unreturned) /\ Cardinality(Unreturned) \in Nat
        /\ Cardinality(Unreturned') \in Nat
    BY <2>3, GatesCounted, CountsOfGates
  <2> QED
    BY <2>1, <2>3, <2>4, <2>5 DEF Recounted
<1>11. ASSUME NEW g \in Gates, AnswerDelivered(g) PROVE Recounted'
  <2>1. /\ UNCHANGED <<pending, count, status, returned>>
        /\ \/ rpc' = [rpc EXCEPT ![g] = "recount"]
           \/ rpc' = [rpc EXCEPT ![g] = "undelivered"] /\ rpc[g] = "deliver"
    BY <1>11 DEF AnswerDelivered, agentVars
  <2>2. Unreturned' = Unreturned
    BY <2>1 DEF Unreturned, Open
  <2>3. CASE rpc' = [rpc EXCEPT ![g] = "recount"]
    <3>1. rpc'[g] = "recount"
      BY <2>3 DEF TypeOK
    <3> QED
      BY <2>1, <2>2, <3>1 DEF Recounted
  <2>4. CASE rpc' = [rpc EXCEPT ![g] = "undelivered"] /\ rpc[g] = "deliver"
    <3>1. InHand' = InHand /\ ((\A h \in Gates : rpc'[h] # "recount") => \A h \in Gates : rpc[h] # "recount")
      BY <2>4 DEF InHand, TypeOK
    <3>2. Countable' = Countable
      BY <2>1, <3>1 DEF Countable, Open
    <3> QED
      BY <2>1, <2>2, <3>1, <3>2 DEF Recounted
  <2> QED
    BY <2>1, <2>3, <2>4
<1>12. ASSUME NEW g \in Gates, AnswerRecounted(g) PROVE Recounted'
  <2>1. /\ UNCHANGED <<pending, returned>>
        /\ count' = Cardinality(Open(pending))
        /\ status' = IF Open(pending) = {} /\ status = "awaitingPermission"
                     THEN "running" ELSE status
    BY <1>12 DEF AnswerRecounted, Healthy
  <2>2. Unreturned' = Unreturned /\ Open(pending') = Open(pending)
    BY <2>1 DEF Unreturned, Open
  <2>3. Open(pending') # {} /\ status' # "awaitingPermission" => Unreturned' = {}
    BY <2>1, <2>2 DEF Recounted
  <2> QED
    BY <2>1, <2>2, <2>3, <1>0, CountedAgain
<1>13. ASSUME NEW g \in Gates, AnswerFailed(g) \/ AnswerReinserted(g) PROVE Recounted'
  <2>1. CASE AnswerFailed(g)
    <3>1. /\ UNCHANGED <<pending, count, status, returned>>
          /\ rpc' = [rpc EXCEPT ![g] = "reinsert"] /\ rpc[g] = "undelivered"
      BY <2>1 DEF AnswerFailed, agentVars, OneTransport, Healthy
    <3>2. InHand' = InHand /\ ((\A h \in Gates : rpc'[h] # "recount") => \A h \in Gates : rpc[h] # "recount")
      BY <3>1 DEF InHand, TypeOK
    <3>3. Countable' = Countable /\ Unreturned' = Unreturned
      BY <3>1, <3>2 DEF Countable, Open, Unreturned
    <3> QED
      BY <3>1, <3>2, <3>3 DEF Recounted
  <2>2. CASE AnswerReinserted(g)
    <3>1. /\ UNCHANGED <<count, status>>
          /\ pending' = [pending EXCEPT ![g] = 1]
          /\ rpc' = [rpc EXCEPT ![g] = "idle"] /\ rpc[g] = "reinsert"
          /\ returned' = returned \cup {g}
      BY <2>2 DEF AnswerReinserted, agentVars, OneTransport
    <3>2. Open(pending') = Open(pending) \cup {g} /\ InHand' = InHand \ {g} /\ g \in InHand
      BY <3>1 DEF Open, InHand, TypeOK, NoConn
    <3>3. Unreturned' \subseteq Unreturned /\ Countable' = Countable /\ Unreturned' \in SUBSET Gates
      BY <3>1, <3>2, GatesCounted DEF Unreturned, Countable
    <3>4. (\A h \in Gates : rpc'[h] # "recount") => \A h \in Gates : rpc[h] # "recount"
      BY <3>1 DEF TypeOK
    <3>5. Cardinality(Unreturned') <= Cardinality(Unreturned) /\ Cardinality(Unreturned) \in Nat
          /\ Cardinality(Unreturned') \in Nat
      BY <3>3, GatesCounted, CountsOfGates
    <3> QED
      BY <3>1, <3>3, <3>4, <3>5 DEF Recounted
  <2> QED
    BY <1>13, <2>1, <2>2
<1>14. ASSUME NEW t \in Closers, CloseSteps(t) PROVE Recounted'
  BY <1>14 DEF CloseSteps, CloseChecked, ClosePending, CloseUpdated, OneTransport
<1>15. ASSUME NEW w \in Conns, WorkerSteps(w) PROVE Recounted'
  BY <1>15 DEF WorkerSteps, WorkerRuns, WorkerKills, WorkerUnstarted, SnapshotTaken, SessionLoaded, Discarded,
     Restated, CandidateKilled, ReconnectFails, CandidateActivated, ActivationRefused,
     OldKilled, OneTransport
<1>16. CASE StopSteps
  BY <1>16, <1>3 DEF StopSteps, StopCancels, StopMarks, StopRemoves, StopKills
<1> QED
  BY <1>5, <1>6, <1>7, <1>8, <1>9, <1>10, <1>11, <1>12, <1>13, <1>14, <1>15, <1>16
     DEF Next, HostNext, OutsideNext, GateSteps, AnswerSteps, PromptAdmitted,
       PromptReturns, PromptBreaks, QueueChanged, AdoptRunning, AgentAsks, GateRouted,
       GateTargeted, TransportLost, ReaderReports, StopBegins, agentVars, answerVars

\* Until a transport is lost, a handle at rest asks for the user only when a reverse
\* request waits for him and its badge counts none that does not, and passes over none but
\* those an answer failed for: for any number of prompts, of reverse requests and of
\* answers, delivered or not, and with stop() at any time.
THEOREM BadgeAgrees == Spec => [](losses = 0 => NeedsInputIffOpen)
<1> DEFINE CInv == IInv /\ OnFirstTransport /\ CountKept
<1>1. Init => CInv
  <2> SUFFICES ASSUME Init PROVE OnFirstTransport /\ CountKept
    BY InitIInv
  <2>1. Open(pending) = {} /\ Unreturned = {} /\ Cardinality(Unreturned) = 0
    BY FS_EmptySet DEF Init, Open, Unreturned
  <2>2. 1 \in Conns
    BY BoundsPositive DEF Conns
  <2>3. OnFirstTransport
    BY <2>2 DEF Init, OnFirstTransport, OneTransport
  <2> QED
    BY <2>1, <2>3, GatesCounted, CountsOfGates DEF Init, CountKept, Recounted
<1>2. CInv /\ [Next]_vars => CInv'
  <2>1. CInv /\ Next => CInv'
    BY NextIInv, FirstTransportKept, CountPreserved
  <2>2. CInv /\ UNCHANGED vars => CInv'
    <3> SUFFICES ASSUME CInv, UNCHANGED vars
                 PROVE  OnFirstTransport' /\ CountKept'
      BY NextIInv
    <3> QED
      BY DEF OnFirstTransport, OneTransport, CountKept, Recounted, Unreturned, Countable, InHand,
         Healthy, Open, vars,
         agentVars, promptVars, gateVars, answerVars, workerVars, stopVars, procVars
  <2> QED
    BY <2>1, <2>2
<1>3. CInv => (losses = 0 => NeedsInputIffOpen)
  <2> SUFFICES ASSUME CInv, losses = 0, Settled, live PROVE NeedsInputIffOpen
    BY DEF NeedsInputIffOpen
  <2>1. spc = "idle"
    BY DEF Settled, IInv, Workers
  <2>2. Recounted
    BY <2>1 DEF CountKept, Healthy
  <2>3. InHand = {} /\ Countable = Open(pending)
    BY DEF Settled, InHand, Countable
  <2> QED
    BY <2>2, <2>3 DEF Recounted, Settled, NeedsInputIffOpen, Unreturned
<1> HIDE DEF CInv
<1> QED
  BY <1>1, <1>2, <1>3, PTL DEF Spec
=============================================================================
