--------------------------- MODULE CandidateInbox ---------------------------
(***************************************************************************)
(* The inbox of a reconnect candidate (src-tauri/src/agent_manager/        *)
(* reconnect.rs): the messages of the new transport are held back until    *)
(* session/load has succeeded and the candidate is made the handle's       *)
(* client, all but the reverse requests it may be blocked on.  The thread  *)
(* that dispatches notifications, one thread per reverse request and the   *)
(* reconnect worker meet at the two locks of the inbox.                    *)
(***************************************************************************)
EXTENDS Selections

CONSTANTS
    Requests,  \* reverse requests of the candidate
    MaxNotes   \* bound: notifications it sends

Notes == 1..MaxNotes
NoNote == 0

ASSUME InboxBounds == MaxNotes \in Nat /\ Requests \cap Nat = {}

VARIABLES
    sent,      \* notifications written by the candidate
    final,     \* the one that ends its running turn, NoNote while it runs
    channel,   \* written and not yet received by the inbox
    active,    \* CandidateState.active_generation is set
    buffered,  \* CandidateState.buffered
    bound,     \* the inbox knows its client
    inHand,    \* the note the dispatch thread is routing
    rpc,       \* request threads
    wpc,       \* the worker
    batch,     \* messages the worker is routing
    named,     \* session/load named the running turn
    running,   \* the turn has been adopted by the handle and has not ended
    gone,      \* the handle is removed or has a newer transport
    routed,    \* notes handed to the manager
    answered   \* requests handed to the manager

agentVars  == <<sent, final>>
stateVars  == <<active, buffered>>
workerVars == <<wpc, batch, named>>
handleVars == <<running, gone, routed>>
vars == <<agentVars, channel, stateVars, bound, inHand, rpc, workerVars, handleVars,
          answered>>

Init ==
    /\ sent = 0 /\ final = NoNote /\ channel = <<>>
    /\ active = FALSE /\ buffered = <<>>
    /\ bound = FALSE /\ inHand = NoNote
    /\ rpc = [r \in Requests |-> "idle"]
    /\ wpc = "spawned" /\ batch = <<>> /\ named = FALSE
    /\ running = FALSE /\ gone = FALSE /\ routed = <<>>
    /\ answered = {}

-----------------------------------------------------------------------------
(* The candidate.                                                          *)

AgentNotifies ==
    /\ wpc # "failed"
    /\ sent < MaxNotes
    /\ sent' = sent + 1
    /\ channel' = Append(channel, sent')
    /\ \/ final' = final
       \/ final = NoNote /\ final' = sent'
    /\ UNCHANGED <<stateVars, bound, inHand, rpc, workerVars, handleVars, answered>>

AgentAsks(r) ==
    /\ wpc # "failed"
    /\ rpc[r] = "idle"
    /\ rpc' = [rpc EXCEPT ![r] = "received"]
    /\ UNCHANGED <<agentVars, channel, stateVars, bound, inHand, workerVars, handleVars,
                   answered>>

-----------------------------------------------------------------------------
(* Receiving: CandidateInbox::receive.                                     *)

\* route_agent_message, which the handle's generation may refuse; the note that ends
\* the turn ends it in the handle.
RouteNote(n) ==
    IF gone
    THEN UNCHANGED <<routed, running>>
    ELSE /\ routed' = Append(routed, n)
         /\ running' = (running /\ n # final)

\* Looking at active_generation and buffering are under one lock.
NoteReceived ==
    /\ inHand = NoNote /\ channel # <<>>
    /\ channel' = Tail(channel)
    /\ IF active
       THEN inHand' = Head(channel) /\ UNCHANGED buffered
       ELSE buffered' = Append(buffered, Head(channel)) /\ UNCHANGED inHand
    /\ UNCHANGED <<agentVars, active, bound, rpc, workerVars, handleVars, answered>>

NoteRouted ==
    /\ inHand # NoNote
    /\ RouteNote(inHand)
    /\ inHand' = NoNote
    /\ UNCHANGED <<agentVars, channel, stateVars, bound, rpc, workerVars, gone, answered>>

RequestReceived(r) ==
    /\ rpc[r] = "received"
    /\ rpc' = [rpc EXCEPT ![r] = IF active /\ gone THEN "done" ELSE "lookup"]
    /\ UNCHANGED <<agentVars, channel, stateVars, bound, inHand, workerVars, handleVars,
                   answered>>

\* The client is looked up under its own lock ...
RequestLookedUp(r) ==
    /\ rpc[r] = "lookup"
    /\ IF bound
       THEN rpc' = [rpc EXCEPT ![r] = "done"] /\ answered' = answered \cup {r}
       ELSE rpc' = [rpc EXCEPT ![r] = "push"] /\ UNCHANGED answered
    /\ UNCHANGED <<agentVars, channel, stateVars, bound, inHand, workerVars, handleVars>>

\* ... and a request that found none is buffered under the other.
RequestHeld(r) ==
    /\ rpc[r] = "push"
    /\ rpc' = [rpc EXCEPT ![r] = "held"]
    /\ buffered' = Append(buffered, r)
    /\ UNCHANGED <<agentVars, channel, active, bound, inHand, workerVars, handleVars,
                   answered>>

-----------------------------------------------------------------------------
(* The worker: bind_client, session_load, activate.                        *)

ClientBound ==
    /\ wpc = "spawned"
    /\ wpc' = "drain"
    /\ bound' = TRUE
    /\ UNCHANGED <<agentVars, channel, stateVars, inHand, rpc, batch, named, handleVars,
                   answered>>

IsNote(m) == m \in Notes

\* Mutant: the drain empties the buffer.
EarlyTakenAll ==
    /\ wpc = "drain"
    /\ wpc' = "early"
    /\ batch' = Only(buffered, Requests)
    /\ buffered' = <<>>
    /\ UNCHANGED <<agentVars, channel, active, bound, inHand, rpc, named, handleVars,
                   answered>>

EarlyTaken ==
    /\ wpc = "drain"
    /\ wpc' = "early"
    /\ batch' = Only(buffered, Requests)
    /\ buffered' = Only(buffered, Notes)
    /\ UNCHANGED <<agentVars, channel, active, bound, inHand, rpc, named, handleVars,
                   answered>>

EarlyRouted ==
    /\ wpc = "early" /\ batch # <<>>
    /\ answered' = answered \cup {Head(batch)}
    /\ batch' = Tail(batch)
    /\ UNCHANGED <<agentVars, channel, stateVars, bound, inHand, rpc, wpc, named,
                   handleVars>>

\* session_load answers and names the turn the candidate still runs, or it fails or times
\* out; the candidate need not wait for the answers to its own requests.
SessionLoaded ==
    /\ wpc = "early" /\ batch = <<>>
    /\ \/ /\ wpc' = "activate"
          /\ \E isRunning \in BOOLEAN : named' = (isRunning /\ final = NoNote)
       \/ wpc' = "failed" /\ UNCHANGED named
    /\ UNCHANGED <<agentVars, channel, stateVars, bound, inHand, rpc, batch, handleVars,
                   answered>>

\* Mutant: the batch stays in the buffer when the generation is swapped.
ActivatedEmpty ==
    /\ wpc = "activate"
    /\ IF gone
       THEN wpc' = "failed" /\ UNCHANGED <<batch, active, running>>
       ELSE /\ wpc' = "replay"
            /\ batch' = <<>>
            /\ active' = TRUE
            /\ running' = named
    /\ UNCHANGED <<agentVars, channel, buffered, bound, inHand, rpc, named, gone, routed,
                   answered>>

\* Under the lock of the state and, within it, that of the agents: the batch is frozen,
\* the turn adopted unless it ends in the batch, the generation swapped.
Activated ==
    /\ wpc = "activate"
    /\ buffered' = <<>>
    /\ IF gone
       THEN wpc' = "failed" /\ UNCHANGED <<batch, active, running>>
       ELSE /\ wpc' = "replay"
            /\ batch' = buffered
            /\ active' = TRUE
            /\ running' = (named /\ \A i \in DOMAIN buffered : buffered[i] # final)
    /\ UNCHANGED <<agentVars, channel, bound, inHand, rpc, named, gone, routed, answered>>

\* A request held back is dispatched with the batch.
Replayed ==
    /\ wpc = "replay"
    /\ IF batch = <<>>
       THEN wpc' = "done" /\ UNCHANGED <<batch, routed, running, answered>>
       ELSE /\ batch' = Tail(batch)
            /\ UNCHANGED wpc
            /\ IF IsNote(Head(batch))
               THEN RouteNote(Head(batch)) /\ UNCHANGED answered
               ELSE /\ answered' = IF gone THEN answered ELSE answered \cup {Head(batch)}
                    /\ UNCHANGED <<routed, running>>
    /\ UNCHANGED <<agentVars, channel, stateVars, bound, inHand, rpc, named, gone>>

\* stop() removes the handle, or a later reconnect replaces this transport.
HandleGone ==
    /\ ~gone
    /\ gone' = TRUE
    /\ UNCHANGED <<agentVars, channel, stateVars, bound, inHand, rpc, workerVars, running,
                   routed, answered>>

Next ==
    \/ AgentNotifies \/ NoteReceived \/ NoteRouted
    \/ \E r \in Requests :
          AgentAsks(r) \/ RequestReceived(r) \/ RequestLookedUp(r) \/ RequestHeld(r)
    \/ ClientBound \/ EarlyTaken \/ EarlyRouted \/ SessionLoaded \/ Activated
    \/ Replayed \/ HandleGone

Spec == Init /\ [][Next]_vars

-----------------------------------------------------------------------------
(* Properties.                                                             *)

\* Everything received has found its way, and nothing is under way.
Quiet ==
    /\ channel = <<>> /\ inHand = NoNote
    /\ \A r \in Requests : rpc[r] \in {"idle", "held", "done"}
    /\ wpc = "done"

\* Across the switch from buffering to routing no notification is lost or routed twice,
\* and a reverse request has an answerer, whether it came before the client was bound,
\* while the session was loaded or after.  The one exception is in the buffer for good: its
\* thread found no client and put it there only when the worker had taken its last batch.
NothingLost ==
    Quiet /\ ~gone =>
        /\ Len(routed) = sent
        /\ \A n \in 1..sent : \E i \in DOMAIN routed : routed[i] = n
        /\ \A r \in Requests : rpc[r] # "idle" =>
               r \in answered \/ (rpc[r] = "held" /\ \E i \in DOMAIN buffered : buffered[i] = r)

\* A terminal update cannot slip between the replay summary and the activation: a turn
\* that has ended is not left running in the handle.
EndedTurnNotAdopted == Quiet /\ ~gone /\ final # NoNote => ~running

=============================================================================
