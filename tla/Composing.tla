----------------------------- MODULE Composing ------------------------------
(***************************************************************************)
(* What the user tells grok: the composer a message is written in, the     *)
(* queue it waits in, and the dialogs that answer a request.  A behaviour  *)
(* is of one of the three, the part its plan names; the others stay.       *)
(***************************************************************************)
EXTENDS PromptQueue, PromptComposer, RequestDialogs

queueAll == <<queueVars, left>>
vars == <<queueAll, composerVars, dialogVars>>

Part(p) == left.part = p
Init == left \in Plans /\ QueueInit /\ ComposerInit /\ DialogInit
Next ==
    \/ Part("queue") /\ QueueNext /\ UNCHANGED <<composerVars, dialogVars>>
    \/ Part("composer") /\ ComposerNext /\ UNCHANGED <<queueVars, dialogVars>>
    \/ Part("dialogs") /\ DialogNext /\ UNCHANGED <<queueVars, composerVars>>
Spec == Init /\ [][Next]_vars

\* Time passes and the clock of the view ticks; of the host and grok nothing is asked.
Fairness == WF_queueAll(Part("queue") /\ TimeIsUp) /\ WF_queueAll(Part("queue") /\ AckTimeout)
FairSpec == Spec /\ Fairness

----------------------------------------------------------------------------
\* What the user wrote, in the composer or in a dialog, is not taken from him.
DraftsKept == [][TextKept /\ FormsKept]_vars
=============================================================================
