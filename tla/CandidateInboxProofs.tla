------------------------ MODULE CandidateInboxProofs ------------------------
(***************************************************************************)
(* What holds of the inbox of a reconnect candidate for any number of      *)
(* notifications and reverse requests: the switch from buffering to        *)
(* routing loses and repeats none of them, and adopts no turn that has     *)
(* ended.                                                                  *)
(***************************************************************************)
EXTENDS CandidateInbox, SelectionsProofs

Messages == Notes \cup Requests

TypeOK ==
    /\ sent \in 0..MaxNotes
    /\ final \in 0..sent
    /\ channel \in Seq(Notes)
    /\ active \in BOOLEAN
    /\ buffered \in Seq(Messages)
    /\ bound \in BOOLEAN
    /\ inHand \in 0..MaxNotes
    /\ rpc \in [Requests -> {"idle", "received", "lookup", "push", "held", "done"}]
    /\ wpc \in {"spawned", "drain", "early", "activate", "replay", "done", "failed"}
    /\ batch \in Seq(Messages)
    /\ named \in BOOLEAN
    /\ running \in BOOLEAN
    /\ gone \in BOOLEAN
    /\ routed \in Seq(Notes)
    /\ answered \subseteq Requests

\* What the worker has done, by the place it is at: it binds the client first, swaps the
\* generation last, and has a batch only while it routes one.
WorkerAt ==
    /\ bound <=> wpc # "spawned"
    /\ active <=> wpc \in {"replay", "done"}
    /\ wpc \notin {"early", "replay"} => batch = <<>>
    /\ wpc = "early" => ToSet(batch) \subseteq Requests

\* Nothing is routed before the generation is swapped, and no note buffered after.
Switch ==
    /\ ~active => inHand = NoNote /\ routed = <<>>
    /\ active => ToSet(buffered) \cap Notes = {}

\* Where the notes are, each written and in one place.
Pending == ToSet(channel) \cup ToSet(buffered) \cup ToSet(batch) \cup {inHand}
Apart ==
    /\ Once(routed, Notes) /\ Once(channel, Notes)
    /\ Once(buffered, Notes) /\ Once(batch, Notes)
    /\ ToSet(channel) \cap ToSet(buffered) = {}
    /\ ToSet(channel) \cap ToSet(batch) = {}
    /\ ToSet(buffered) \cap ToSet(batch) \cap Notes = {}
    /\ inHand \notin ToSet(channel) \cup ToSet(batch) \cup ToSet(buffered)
    /\ ToSet(routed) \cap Pending = {}

\* Every note written is in one of the places; none is anywhere that is not written.
Written ==
    /\ \A n \in Notes : n \in Pending \cup ToSet(routed) => n <= sent
    /\ ~gone => \A n \in 1..sent : n \in Pending \cup ToSet(routed)

\* A request whose thread is done is answered, or held back where the worker will find it;
\* unless the handle refused it.
Kept == ToSet(buffered) \cup ToSet(batch)
HeldAnswered ==
    \A r \in Requests : /\ rpc[r] = "done" => r \in answered \/ gone
                        /\ rpc[r] = "held" => r \in answered \cup Kept \/ gone

\* The end of a turn that is to be adopted, or was, is still on its way to the handle.
EndAhead ==
    /\ wpc = "activate" /\ named /\ final # NoNote => final \in ToSet(channel) \cup ToSet(buffered)
    /\ running /\ ~gone /\ final # NoNote => final \in ToSet(channel) \cup {inHand}
    /\ running => active

IInv == TypeOK /\ WorkerAt /\ Switch /\ Apart /\ Written /\ HeldAnswered /\ EndAhead

-----------------------------------------------------------------------------
\* Notes, requests and "no note" are told apart by what they are.
LEMMA Kinds ==
    /\ MaxNotes \in Nat /\ Notes \subseteq Nat \ {0}
    /\ Notes \cap Requests = {} /\ NoNote \notin Messages /\ NoNote \notin Notes
BY InboxBounds DEF Notes, NoNote, Messages

LEMMA EmptyHasNone == ToSet(<<>>) = {} /\ \A N : Once(<<>>, N)
BY DEF ToSet, Once

\* A step that moves the notes it drops, while the handle stands, nowhere keeps them all.
LEMMA WrittenKept ==
    ASSUME TypeOK, Written, sent' = sent, gone => gone',
           Pending' \cap Notes \subseteq Pending \cup ToSet(routed),
           ToSet(routed') \subseteq Pending \cup ToSet(routed),
           ~gone' => (Pending \cup ToSet(routed)) \cap Notes \subseteq Pending' \cup ToSet(routed')
    PROVE  Written'
<1>1. 1..sent \subseteq Notes
  BY Kinds DEF TypeOK, Notes
<1> DEFINE here == Pending \cup ToSet(routed)
           there == Pending' \cup ToSet(routed')
<1>2. there \cap Notes \subseteq here /\ (~gone' => here \cap Notes \subseteq there)
  OBVIOUS
<1>3. /\ \A n \in Notes : n \in here => n <= sent
      /\ ~gone => \A n \in 1..sent : n \in here
  BY DEF Written
<1> HIDE DEF here, there
<1>4. /\ \A n \in Notes : n \in there => n <= sent
      /\ ~gone' => \A n \in 1..sent : n \in there
  BY <1>1, <1>2, <1>3
<1> QED
  BY <1>4 DEF Written, there

LEMMA Contents ==
    ASSUME TypeOK
    PROVE  /\ ToSet(channel) \subseteq Notes /\ ToSet(routed) \subseteq Notes
           /\ ToSet(buffered) \subseteq Messages /\ ToSet(batch) \subseteq Messages
           /\ NoNote \notin ToSet(channel) \cup ToSet(routed) \cup ToSet(buffered) \cup ToSet(batch)
<1>1. /\ ToSet(channel) \subseteq Notes /\ ToSet(routed) \subseteq Notes
      /\ ToSet(buffered) \subseteq Messages /\ ToSet(batch) \subseteq Messages
  BY DEF TypeOK, ToSet
<1> QED
  BY <1>1, Kinds DEF Messages

LEMMA InitHolds == Init => IInv
<1> SUFFICES ASSUME Init PROVE IInv
  OBVIOUS
<1> USE Kinds, EmptyHasNone DEF Init
<1>1. TypeOK
  <2>1. rpc \in [Requests -> {"idle", "received", "lookup", "push", "held", "done"}]
    OBVIOUS
  <2>2. sent \in 0..MaxNotes /\ final \in 0..sent /\ inHand \in 0..MaxNotes
    BY DEF NoNote
  <2>3. /\ channel \in Seq(Notes) /\ buffered \in Seq(Messages) /\ batch \in Seq(Messages)
        /\ routed \in Seq(Notes)
    OBVIOUS
  <2> QED
    BY <2>1, <2>2, <2>3, Zenon DEF TypeOK
<1>2. WorkerAt /\ Switch /\ HeldAnswered /\ EndAhead
  BY DEF WorkerAt, Switch, HeldAnswered, Kept, EndAhead
<1>3. Apart
  BY DEF Apart, Pending, Messages
<1>4. Written
  BY DEF Written, Pending, NoNote
<1> QED
  BY <1>1, <1>2, <1>3, <1>4 DEF IInv

\* A note that the agent writes is a new one.
LEMMA NotifiesKeeps == IInv /\ AgentNotifies => IInv'
<1> SUFFICES ASSUME IInv, AgentNotifies PROVE IInv'
  OBVIOUS
<1> USE Kinds DEF IInv, AgentNotifies
<1>1. sent + 1 \in Notes /\ channel' = Append(channel, sent + 1) /\ sent' = sent + 1
  BY DEF TypeOK, Notes
<1>2. /\ channel' \in Seq(Notes) /\ ToSet(channel') = ToSet(channel) \cup {sent + 1}
      /\ \A N : Once(channel, N) /\ (sent + 1 \in N => sent + 1 \notin ToSet(channel)) => Once(channel', N)
  BY <1>1, AppendMembers DEF TypeOK
<1>3. sent + 1 \notin Pending \cup ToSet(routed)
  BY <1>1 DEF Written, TypeOK
<1>4. TypeOK'
  <2>1. sent' \in 0..MaxNotes /\ final' \in 0..sent'
    <3>1. sent \in Nat /\ sent < MaxNotes /\ final \in 0..sent
      BY DEF TypeOK
    <3>2. final' = final \/ final' = sent'
      OBVIOUS
    <3> QED
      BY <1>1, <3>1, <3>2
  <2> QED
    BY <1>2, <2>1 DEF TypeOK, stateVars, workerVars, handleVars
<1>5. WorkerAt' /\ Switch' /\ HeldAnswered'
  BY DEF WorkerAt, Switch, HeldAnswered, Kept, stateVars, workerVars, handleVars
<1>6. Apart'
  BY <1>1, <1>2, <1>3 DEF Apart, Pending, stateVars, workerVars, handleVars, TypeOK
<1>7. Written'
  <2> DEFINE here == Pending \cup ToSet(routed)
  <2>1. here' = here \cup {sent + 1} /\ gone' = gone
    BY <1>2 DEF Pending, stateVars, workerVars, handleVars
  <2>2. sent \in Nat
    BY DEF TypeOK
  <2>3. /\ \A n \in Notes : n \in here => n <= sent
        /\ ~gone => \A n \in 1..sent : n \in here
    BY DEF Written
  <2> HIDE DEF here, IInv, AgentNotifies
  <2>4. /\ \A n \in Notes : n \in here' => n <= sent'
        /\ ~gone' => \A n \in 1..sent' : n \in here'
    BY <1>1, <2>1, <2>2, <2>3
  <2> QED
    BY <2>4 DEF Written, here
<1>8. EndAhead'
  BY <1>1, <1>2 DEF EndAhead, stateVars, workerVars, handleVars, NoNote
<1> QED
  BY <1>4, <1>5, <1>6, <1>7, <1>8

\* A note is routed, or the handle refuses it; either way the end of the turn that runs
\* cannot be missed.
LEMMA RouteNoteEnds ==
    ASSUME TypeOK, NEW n \in Notes, RouteNote(n), UNCHANGED <<sent, final, gone, active>>
    PROVE  /\ routed' \in Seq(Notes) /\ running' \in BOOLEAN
           /\ gone => routed' = routed
           /\ ~gone => /\ ToSet(routed') = ToSet(routed) \cup {n}
                       /\ Once(routed, Notes) /\ n \notin ToSet(routed) => Once(routed', Notes)
           /\ running' => running
           /\ running' /\ ~gone => n # final
<1>1. CASE gone
  BY <1>1 DEF RouteNote, TypeOK
<1>2. CASE ~gone
  <2>1. routed' = Append(routed, n) /\ running' = (running /\ n # final)
    BY <1>2 DEF RouteNote
  <2>2. /\ Append(routed, n) \in Seq(Notes)
        /\ ToSet(Append(routed, n)) = ToSet(routed) \cup {n}
        /\ \A N : Once(routed, N) /\ (n \in N => n \notin ToSet(routed)) => Once(Append(routed, n), N)
    BY AppendMembers DEF TypeOK
  <2> QED
    BY <1>2, <2>1, <2>2 DEF TypeOK
<1> QED
  BY <1>1, <1>2

\* A note that is received goes into the buffer or, once the generation is swapped, into
\* the hand of the thread that routes it.
LEMMA ReceivedKeeps == IInv /\ NoteReceived => IInv'
<1> SUFFICES ASSUME IInv, NoteReceived PROVE IInv'
  OBVIOUS
<1> USE Kinds DEF IInv, NoteReceived
<1> DEFINE n == Head(channel)
<1>1. /\ n \in Notes /\ channel' \in Seq(Notes) /\ ToSet(channel) = {n} \cup ToSet(channel')
      /\ Once(channel', Notes) /\ n \notin ToSet(channel')
  BY HeadMembers DEF TypeOK, Apart
<1>2. n \in Messages /\ n \in 0..MaxNotes /\ n # NoNote
  BY <1>1 DEF Messages, Notes, NoNote
<1>3. n \notin ToSet(buffered) \cup ToSet(batch) \cup ToSet(routed)
  BY <1>1 DEF Apart, Pending
<1>4. UNCHANGED <<sent, final, active, bound, rpc, wpc, batch, named, running, gone, routed, answered>>
  BY DEF agentVars, workerVars, handleVars
<1>5. 1..sent \subseteq Notes /\ inHand = NoNote
  BY DEF TypeOK, Notes
<1>6. CASE active
  <2>1. inHand' = n /\ buffered' = buffered
    BY <1>6
  <2> HIDE DEF NoteReceived, n
  <2>2. TypeOK'
    BY <1>1, <1>2, <1>4, <2>1 DEF TypeOK
  <2>3. WorkerAt' /\ Switch' /\ HeldAnswered'
    BY <1>4, <1>6, <2>1 DEF WorkerAt, Switch, HeldAnswered, Kept
  <2>4. Apart'
    <3>1. Once(routed', Notes) /\ Once(channel', Notes) /\ Once(buffered', Notes) /\ Once(batch', Notes)
      BY <1>1, <1>4, <2>1 DEF Apart
    <3>2. /\ ToSet(channel') \cap ToSet(buffered') = {}
          /\ ToSet(channel') \cap ToSet(batch') = {}
          /\ ToSet(buffered') \cap ToSet(batch') \cap Notes = {}
      BY <1>1, <1>4, <2>1 DEF Apart
    <3>3. inHand' \notin ToSet(channel') \cup ToSet(batch') \cup ToSet(buffered')
      BY <1>1, <1>3, <1>4, <2>1
    <3>4. ToSet(routed') \cap Pending' = {}
      BY <1>1, <1>3, <1>4, <2>1 DEF Apart, Pending
    <3> QED
      BY <3>1, <3>2, <3>3, <3>4 DEF Apart
  <2>5. Written'
    <3>1. Pending' = (Pending \ {inHand})
      BY <1>1, <1>2, <1>4, <1>5, <2>1, Contents DEF Pending
    <3> QED
      BY <3>1, <1>4, <1>5, WrittenKept
  <2>6. EndAhead'
    BY <1>1, <1>4, <1>5, <1>6, <2>1 DEF EndAhead, WorkerAt
  <2> QED
    BY <2>2, <2>3, <2>4, <2>5, <2>6
<1>7. CASE ~active
  <2>1. inHand' = inHand /\ buffered' = Append(buffered, n)
    BY <1>7
  <2>2. /\ buffered' \in Seq(Messages) /\ ToSet(buffered') = ToSet(buffered) \cup {n}
        /\ Once(buffered', Notes)
    BY <1>2, <1>3, <2>1, AppendMembers DEF TypeOK, Apart
  <2> HIDE DEF NoteReceived, n
  <2>4. TypeOK'
    BY <1>1, <1>4, <2>1, <2>2 DEF TypeOK
  <2>5. WorkerAt' /\ Switch' /\ HeldAnswered'
    BY <1>4, <1>7, <2>1, <2>2 DEF WorkerAt, Switch, HeldAnswered, Kept
  <2>6. Apart'
    BY <1>1, <1>2, <1>3, <1>4, <2>1, <1>5, <2>2 DEF Apart, Pending
  <2>7. Written'
    BY <1>1, <1>2, <1>4, <2>1, <2>2 DEF Written, Pending
  <2>8. EndAhead'
    BY <1>1, <1>4, <1>7, <2>1, <2>2 DEF EndAhead
  <2> QED
    BY <2>4, <2>5, <2>6, <2>7, <2>8
<1> QED
  BY <1>6, <1>7

LEMMA RoutedKeeps == IInv /\ NoteRouted => IInv'
<1> SUFFICES ASSUME IInv, NoteRouted PROVE IInv'
  OBVIOUS
<1> USE Kinds DEF IInv
<1>1. UNCHANGED <<sent, final, channel, active, buffered, bound, rpc, wpc, batch, named, gone, answered>>
  BY DEF NoteRouted, agentVars, stateVars, workerVars
<1>2. inHand \in Notes /\ inHand # NoNote /\ inHand' = NoNote /\ RouteNote(inHand) /\ active
  BY DEF NoteRouted, TypeOK, Notes, NoNote, Switch
<1>3. /\ routed' \in Seq(Notes) /\ running' \in BOOLEAN
      /\ gone => routed' = routed
      /\ ~gone => /\ ToSet(routed') = ToSet(routed) \cup {inHand}
                  /\ Once(routed, Notes) /\ inHand \notin ToSet(routed) => Once(routed', Notes)
      /\ running' => running
      /\ running' /\ ~gone => inHand # final
  BY <1>1, <1>2, RouteNoteEnds
<1>4. NoNote \in 0..MaxNotes
  BY DEF NoNote
<1>5. NoNote \notin ToSet(channel) \cup ToSet(buffered) \cup ToSet(batch) \cup ToSet(routed)
  BY DEF TypeOK, Messages, ToSet
<1>6. TypeOK'
  BY <1>1, <1>2, <1>3, <1>4 DEF TypeOK
<1>7. WorkerAt' /\ Switch' /\ HeldAnswered'
  BY <1>1, <1>2 DEF WorkerAt, Switch, HeldAnswered, Kept
<1>8. Apart'
  BY <1>1, <1>2, <1>3, <1>5 DEF Apart, Pending
<1>9. Written'
  <2>1. Pending' = (Pending \ {inHand}) \cup {NoNote}
    BY <1>1, <1>2 DEF Pending, Apart
  <2> QED
    BY <2>1, <1>1, <1>2, <1>3, WrittenKept DEF Pending
<1>10. EndAhead'
  BY <1>1, <1>2, <1>3 DEF EndAhead
<1> QED
  BY <1>6, <1>7, <1>8, <1>9, <1>10

\* A request is held back under a lock of its own.  Whatever the worker has done
\* meanwhile, it is not a note.
LEMMA HeldKeeps == ASSUME NEW r \in Requests PROVE IInv /\ RequestHeld(r) => IInv'
<1> SUFFICES ASSUME IInv, RequestHeld(r) PROVE IInv'
  OBVIOUS
<1> USE Kinds DEF IInv, RequestHeld
<1>1. r \in Messages /\ r \notin Notes /\ r # NoNote
  BY DEF Messages
<1>2. buffered' = Append(buffered, r) /\ rpc' = [rpc EXCEPT ![r] = "held"] /\ rpc[r] = "push"
  OBVIOUS
<1>3. /\ buffered' \in Seq(Messages) /\ ToSet(buffered') = ToSet(buffered) \cup {r}
      /\ Once(buffered', Notes)
  BY <1>1, <1>2, AppendMembers DEF TypeOK, Apart
<1>4. UNCHANGED <<sent, final, channel, active, bound, inHand, wpc, batch, named, running, gone,
                  routed, answered>>
  BY DEF agentVars, workerVars, handleVars
<1> HIDE DEF RequestHeld
<1>5. TypeOK'
  BY <1>2, <1>3, <1>4 DEF TypeOK
<1>6. WorkerAt' /\ Switch'
  BY <1>1, <1>3, <1>4 DEF WorkerAt, Switch
<1>7. HeldAnswered'
  BY <1>2, <1>3, <1>4 DEF HeldAnswered, Kept, TypeOK
<1>8. Pending' = Pending \cup {r}
  BY <1>3, <1>4 DEF Pending
<1>9. Apart'
  <2>1. r \notin ToSet(channel) \cup ToSet(routed) \cup {inHand}
    <3>1. inHand \notin Requests
      BY <1>1, InboxBounds DEF TypeOK
    <3> QED
      BY <1>1, <3>1, Contents
  <2>2. ToSet(routed') \cap Pending' = {}
    BY <1>4, <1>8, <2>1 DEF Apart
  <2> QED
    BY <1>1, <1>3, <1>4, <2>1, <2>2 DEF Apart
<1>10. Written'
  BY <1>1, <1>4, <1>8, WrittenKept
<1>11. EndAhead'
  BY <1>3, <1>4 DEF EndAhead
<1> QED
  BY <1>5, <1>6, <1>7, <1>9, <1>10, <1>11

\* The requests held back so far are taken for the batch, the notes stay.
LEMMA EarlyTakenKeeps == IInv /\ EarlyTaken => IInv'
<1> SUFFICES ASSUME IInv, EarlyTaken PROVE IInv'
  OBVIOUS
<1> USE Kinds DEF IInv, EarlyTaken
<1>1. UNCHANGED <<sent, final, channel, active, bound, inHand, rpc, named, running, gone, routed, answered>>
  BY DEF agentVars, handleVars
<1>2. /\ wpc = "drain" /\ wpc' = "early"
      /\ batch' = Only(buffered, Requests) /\ buffered' = Only(buffered, Notes)
  OBVIOUS
<1> HIDE DEF EarlyTaken
<1>3. /\ batch' \in Seq(Messages) /\ ToSet(batch') = ToSet(buffered) \cap Requests
      /\ buffered' \in Seq(Messages) /\ ToSet(buffered') = ToSet(buffered) \cap Notes
      /\ Once(batch', Notes) /\ Once(buffered', Notes)
  BY <1>2, OnlyKeeps DEF TypeOK, Apart
<1>4. batch = <<>> /\ ToSet(batch) = {}
  BY <1>2, EmptyHasNone DEF WorkerAt
<1>5. TypeOK'
  BY <1>1, <1>2, <1>3 DEF TypeOK
<1>6. WorkerAt' /\ Switch' /\ HeldAnswered'
  <2>1. WorkerAt' /\ Switch'
    BY <1>1, <1>2, <1>3 DEF WorkerAt, Switch
  <2>2. Kept' \cap Requests = Kept \cap Requests
    BY <1>3, <1>4 DEF Kept
  <2> QED
    BY <1>1, <2>1, <2>2 DEF HeldAnswered
<1>7. Pending' = Pending
  BY <1>1, <1>3, <1>4, Contents DEF Pending, Messages
<1>8. Apart'
  <2>1. ToSet(channel) \cap ToSet(batch') = {} /\ inHand \notin ToSet(batch') \cup ToSet(buffered')
    BY <1>3, Contents DEF Apart
  <2>2. ToSet(routed') \cap Pending' = {}
    BY <1>1, <1>7 DEF Apart
  <2>3. ToSet(channel') \cap ToSet(buffered') = {} /\ ToSet(buffered') \cap ToSet(batch') = {}
    BY <1>1, <1>3 DEF Apart
  <2> QED
    BY <1>1, <1>3, <2>1, <2>2, <2>3 DEF Apart
<1>9. Written'
  BY <1>1, <1>7, WrittenKept
<1>10. EndAhead'
  BY <1>1, <1>2 DEF EndAhead, WorkerAt
<1> QED
  BY <1>5, <1>6, <1>8, <1>9, <1>10

LEMMA EarlyRoutedKeeps == IInv /\ EarlyRouted => IInv'
<1> SUFFICES ASSUME IInv, EarlyRouted PROVE IInv'
  OBVIOUS
<1> USE Kinds DEF IInv, EarlyRouted
<1> DEFINE r == Head(batch)
<1>1. UNCHANGED <<sent, final, channel, active, buffered, bound, inHand, rpc, wpc, named, running, gone, routed>>
  BY DEF agentVars, stateVars, handleVars
<1>2. wpc = "early" /\ batch # <<>> /\ batch' = Tail(batch) /\ answered' = answered \cup {r}
  OBVIOUS
<1> HIDE DEF EarlyRouted
<1>3. /\ batch' \in Seq(Messages) /\ ToSet(batch) = {r} \cup ToSet(batch') /\ Once(batch', Notes)
  BY <1>2, HeadMembers DEF TypeOK, Apart
<1>4. r \in Requests /\ r \notin Notes /\ r # NoNote /\ ToSet(batch') \subseteq Requests
  BY <1>2, <1>3 DEF WorkerAt, Messages
<1> HIDE DEF r
<1>5. TypeOK'
  BY <1>1, <1>2, <1>3, <1>4 DEF TypeOK
<1>6. WorkerAt' /\ Switch' /\ HeldAnswered'
  BY <1>1, <1>2, <1>3, <1>4 DEF WorkerAt, Switch, HeldAnswered, Kept
<1>7. Pending' \subseteq Pending /\ Pending \subseteq Pending' \cup {r}
  BY <1>1, <1>3 DEF Pending
<1>8. Apart'
  <2>1. ToSet(routed') \cap Pending' = {}
    BY <1>1, <1>7 DEF Apart
  <2> QED
    BY <1>1, <1>3, <2>1 DEF Apart
<1>9. Written'
  BY <1>1, <1>4, <1>7, WrittenKept
<1>10. EndAhead'
  BY <1>1, <1>2 DEF EndAhead, WorkerAt
<1> QED
  BY <1>5, <1>6, <1>8, <1>9, <1>10

\* The batch is frozen when the generation is swapped: nothing has been routed yet.
LEMMA ActivatedKeeps == IInv /\ Activated => IInv'
<1> SUFFICES ASSUME IInv, Activated PROVE IInv'
  OBVIOUS
<1> USE Kinds DEF IInv
<1>1. /\ wpc = "activate" /\ buffered' = <<>>
      /\ UNCHANGED <<sent, final, channel, bound, inHand, rpc, named, gone, routed, answered>>
  BY DEF Activated, agentVars
<1>2. /\ ~active /\ inHand = NoNote /\ routed = <<>> /\ batch = <<>> /\ bound
      /\ ToSet(batch) = {} /\ ToSet(routed) = {} /\ ~running
  BY <1>1, EmptyHasNone DEF WorkerAt, Switch, EndAhead
<1>3. ToSet(buffered') = {} /\ Once(buffered', Notes) /\ buffered' \in Seq(Messages)
  BY <1>1, EmptyHasNone
<1>4. CASE gone
  <2>1. wpc' = "failed" /\ batch' = batch /\ active' = active /\ running' = running
    BY <1>4 DEF Activated
  <2>2. TypeOK'
    BY <1>1, <1>3, <2>1 DEF TypeOK
  <2>3. WorkerAt' /\ Switch' /\ HeldAnswered'
    BY <1>1, <1>2, <1>3, <1>4, <2>1 DEF WorkerAt, Switch, HeldAnswered, Kept
  <2>4. Pending' \subseteq Pending
    BY <1>1, <1>3, <2>1 DEF Pending
  <2>5. Apart'
    <3>1. ToSet(routed') \cap Pending' = {}
      BY <1>1, <1>2
    <3> QED
      BY <1>1, <1>3, <2>1, <3>1 DEF Apart
  <2>6. Written'
    BY <1>1, <1>4, <2>4, WrittenKept
  <2>7. EndAhead'
    BY <1>1, <1>2, <2>1 DEF EndAhead
  <2> QED
    BY <2>2, <2>3, <2>5, <2>6, <2>7
<1>5. CASE ~gone
  <2>1. /\ wpc' = "replay" /\ batch' = buffered /\ active' = TRUE
        /\ running' = (named /\ \A i \in DOMAIN buffered : buffered[i] # final)
    BY <1>5 DEF Activated
  <2>2. TypeOK'
    BY <1>1, <1>3, <2>1 DEF TypeOK
  <2>3. WorkerAt' /\ Switch' /\ HeldAnswered'
    BY <1>1, <1>2, <1>3, <2>1 DEF WorkerAt, Switch, HeldAnswered, Kept
  <2>4. Pending' = Pending
    BY <1>1, <1>2, <1>3, <2>1 DEF Pending
  <2>5. Apart'
    <3>1. ToSet(routed') \cap Pending' = {}
      BY <1>1, <1>2
    <3> QED
      BY <1>1, <1>3, <2>1, <3>1 DEF Apart
  <2>6. Written'
    BY <1>1, <2>4, WrittenKept
  <2>7. EndAhead'
    <3>1. running' => named /\ final \notin ToSet(buffered)
      BY <2>1 DEF ToSet
    <3> QED
      BY <1>1, <2>1, <3>1 DEF EndAhead
  <2> QED
    BY <2>2, <2>3, <2>5, <2>6, <2>7
<1> QED
  BY <1>4, <1>5

\* The worker routes the next message of its batch.
LEMMA ReplayedKeeps == IInv /\ Replayed => IInv'
<1> SUFFICES ASSUME IInv, Replayed PROVE IInv'
  OBVIOUS
<1> USE Kinds DEF IInv
<1> DEFINE m == Head(batch)
<1>1. /\ wpc = "replay" /\ active
      /\ UNCHANGED <<sent, final, channel, active, buffered, bound, inHand, rpc, named, gone>>
  BY DEF Replayed, agentVars, stateVars, WorkerAt
<1>2. CASE batch = <<>>
  <2>1. wpc' = "done" /\ UNCHANGED <<batch, routed, running, answered>>
    BY <1>2 DEF Replayed
  <2>2. TypeOK'
    BY <1>1, <2>1 DEF TypeOK
  <2>3. WorkerAt' /\ Switch' /\ HeldAnswered'
    BY <1>1, <1>2, <2>1 DEF WorkerAt, Switch, HeldAnswered, Kept
  <2>4. Apart' /\ Written' /\ EndAhead'
    BY <1>1, <2>1 DEF Apart, Written, EndAhead, Pending
  <2> QED
    BY <2>2, <2>3, <2>4
<1>3. CASE batch # <<>>
  <2>1. batch' = Tail(batch) /\ wpc' = wpc
    BY <1>3 DEF Replayed
  <2>2. /\ m \in Messages /\ batch' \in Seq(Messages) /\ ToSet(batch) = {m} \cup ToSet(batch')
        /\ Once(batch', Notes) /\ (m \in Notes => m \notin ToSet(batch'))
    BY <1>3, <2>1, HeadMembers DEF TypeOK, Apart
  <2>3. CASE m \in Notes
    <3>1. RouteNote(m) /\ answered' = answered
      BY <1>3, <2>3 DEF Replayed, IsNote
    <3> HIDE DEF m
    <3>2. /\ routed' \in Seq(Notes) /\ running' \in BOOLEAN
          /\ gone => routed' = routed
          /\ ~gone => /\ ToSet(routed') = ToSet(routed) \cup {m}
                      /\ Once(routed, Notes) /\ m \notin ToSet(routed) => Once(routed', Notes)
          /\ running' => running
      BY <1>1, <2>3, <3>1, RouteNoteEnds
    <3>3. m \notin ToSet(routed) \cup ToSet(channel) \cup ToSet(buffered) \cup {inHand}
      BY <2>2, <2>3 DEF Apart, Pending
    <3>4. Pending' = Pending \ {m}
      BY <1>1, <2>2, <2>3, <3>3 DEF Pending
    <3>5. TypeOK'
      BY <1>1, <2>1, <2>2, <3>1, <3>2 DEF TypeOK
    <3>6. WorkerAt' /\ Switch' /\ HeldAnswered'
      <4>1. WorkerAt' /\ Switch'
        BY <1>1, <2>1, <3>1 DEF WorkerAt, Switch
      <4>2. Kept \cap Requests \subseteq Kept'
        BY <1>1, <2>2, <2>3 DEF Kept
      <4> QED
        BY <1>1, <3>1, <4>1, <4>2 DEF HeldAnswered
    <3>7. Apart'
      <4>1. Once(routed', Notes)
        BY <3>2, <3>3 DEF Apart
      <4>2. ToSet(routed') \cap Pending' = {}
        BY <3>2, <3>4 DEF Apart
      <4> QED
        BY <1>1, <2>2, <4>1, <4>2 DEF Apart
    <3>8. Written'
      <4>1. m \in Pending
        BY <2>2 DEF Pending
      <4> QED
        BY <1>1, <3>2, <3>4, <4>1, WrittenKept
    <3>9. EndAhead'
      BY <1>1, <2>1, <3>2 DEF EndAhead
    <3> QED
      BY <3>5, <3>6, <3>7, <3>8, <3>9
  <2>4. CASE m \notin Notes
    <3>1. /\ answered' = (IF gone THEN answered ELSE answered \cup {m})
          /\ routed' = routed /\ running' = running
      BY <1>3, <2>4 DEF Replayed, IsNote
    <3>2. m \in Requests
      BY <2>2, <2>4 DEF Messages
    <3> HIDE DEF m
    <3>3. Pending' \subseteq Pending /\ Pending \subseteq Pending' \cup {m}
      BY <1>1, <2>2 DEF Pending
    <3>4. TypeOK'
      BY <1>1, <2>1, <2>2, <3>1, <3>2 DEF TypeOK
    <3>5. WorkerAt' /\ Switch' /\ HeldAnswered'
      <4>1. WorkerAt' /\ Switch'
        BY <1>1, <2>1, <3>1 DEF WorkerAt, Switch
      <4>2. Kept \subseteq Kept' \cup {m} /\ answered \subseteq answered'
        BY <1>1, <2>2, <3>1 DEF Kept
      <4>3. ~gone => m \in answered'
        BY <3>1
      <4> QED
        BY <1>1, <4>1, <4>2, <4>3 DEF HeldAnswered
    <3>6. Apart'
      <4>1. ToSet(routed') \cap Pending' = {}
        BY <3>1, <3>3 DEF Apart
      <4> QED
        BY <1>1, <2>2, <3>1, <4>1 DEF Apart
    <3>7. Written'
      BY <1>1, <2>4, <3>1, <3>3, WrittenKept
    <3>8. EndAhead'
      BY <1>1, <2>1, <3>1 DEF EndAhead
    <3> QED
      BY <3>4, <3>5, <3>6, <3>7, <3>8
  <2> QED
    BY <2>3, <2>4
<1> QED
  BY <1>2, <1>3

\* The steps that move no message.
LEMMA OthersKeep ==
    IInv /\ (\/ ClientBound \/ SessionLoaded \/ HandleGone \/ UNCHANGED vars
             \/ \E r \in Requests : AgentAsks(r) \/ RequestReceived(r) \/ RequestLookedUp(r)) => IInv'
<1> USE DEF IInv, agentVars, stateVars, workerVars, handleVars
<1>1. ASSUME IInv, UNCHANGED <<sent, final, channel, active, buffered, inHand, batch, routed>>,
             gone => gone'
      PROVE  Apart' /\ Written'
  <2>1. Pending' = Pending
    BY <1>1 DEF Pending
  <2> QED
    BY <1>1, <2>1 DEF Apart, Written
<1>2. ASSUME IInv, ClientBound PROVE IInv'
  <2>1. TypeOK' /\ WorkerAt' /\ Switch' /\ HeldAnswered' /\ EndAhead'
    BY <1>2 DEF ClientBound, TypeOK, WorkerAt, Switch, HeldAnswered, Kept, EndAhead
  <2> QED
    BY <1>1, <1>2, <2>1 DEF ClientBound
<1>3. ASSUME IInv, SessionLoaded PROVE IInv'
  <2>1. TypeOK'
    BY <1>3 DEF SessionLoaded, TypeOK
  <2>2. WorkerAt' /\ Switch'
    BY <1>3 DEF SessionLoaded, WorkerAt, Switch
  <2>3. HeldAnswered'
    BY <1>3 DEF SessionLoaded, HeldAnswered, Kept
  <2>4. EndAhead'
    BY <1>3 DEF SessionLoaded, EndAhead
  <2> QED
    BY <1>1, <1>3, <2>1, <2>2, <2>3, <2>4 DEF SessionLoaded
<1>4. ASSUME IInv, HandleGone PROVE IInv'
  <2>1. TypeOK' /\ WorkerAt' /\ Switch' /\ HeldAnswered' /\ EndAhead'
    BY <1>4 DEF HandleGone, TypeOK, WorkerAt, Switch, HeldAnswered, Kept, EndAhead
  <2> QED
    BY <1>1, <1>4, <2>1 DEF HandleGone
<1>5. ASSUME IInv, UNCHANGED vars PROVE IInv'
  <2>1. TypeOK' /\ WorkerAt' /\ Switch' /\ HeldAnswered' /\ EndAhead'
    BY <1>5 DEF vars, TypeOK, WorkerAt, Switch, HeldAnswered, Kept, EndAhead
  <2> QED
    BY <1>1, <1>5, <2>1 DEF vars
<1>6. ASSUME IInv, NEW r \in Requests, AgentAsks(r) \/ RequestReceived(r) \/ RequestLookedUp(r) PROVE IInv'
  <2> USE <1>6 DEF AgentAsks, RequestReceived, RequestLookedUp
  <2>1. TypeOK'
    BY DEF TypeOK
  <2>2. WorkerAt' /\ Switch' /\ EndAhead'
    BY DEF WorkerAt, Switch, EndAhead
  <2>3. HeldAnswered'
    BY DEF HeldAnswered, Kept, TypeOK, WorkerAt
  <2> QED
    BY <1>1, <2>1, <2>2, <2>3
<1> QED
  BY <1>2, <1>3, <1>4, <1>5, <1>6

\* The inductive invariant of the inbox.
THEOREM InboxInductive == Spec => []IInv
<1>1. IInv /\ [Next]_vars => IInv'
  BY NotifiesKeeps, ReceivedKeeps, RoutedKeeps, HeldKeeps, EarlyTakenKeeps, EarlyRoutedKeeps,
     ActivatedKeeps, ReplayedKeeps, OthersKeep DEF Next
<1> QED
  BY InitHolds, <1>1, PTL DEF Spec

\* A turn that ended while the candidate was loaded, whichever side of the activation its
\* end arrives, is not left running.
THEOREM EndedNotAdopted == Spec => []EndedTurnNotAdopted
<1>1. IInv => EndedTurnNotAdopted
  <2> SUFFICES ASSUME IInv, Quiet, ~gone, final # NoNote, running PROVE FALSE
    BY DEF EndedTurnNotAdopted
  <2>1. final \in ToSet(channel) \cup {inHand}
    BY DEF IInv, EndAhead
  <2> QED
    BY <2>1, EmptyHasNone DEF Quiet
<1> QED
  BY InboxInductive, <1>1, PTL

\* The switch from buffering to routing loses no notification, routes none twice, and
\* leaves no reverse request without an answer, unless it is one that is held back for good.
THEOREM SwitchLosesNothing == Spec => []NothingLost
<1>1. IInv => NothingLost
  <2> SUFFICES ASSUME IInv, Quiet, ~gone
               PROVE  /\ Len(routed) = sent
                      /\ \A n \in 1..sent : \E i \in DOMAIN routed : routed[i] = n
                      /\ \A r \in Requests : rpc[r] # "idle" =>
                            \/ r \in answered
                            \/ rpc[r] = "held" /\ \E i \in DOMAIN buffered : buffered[i] = r
    BY DEF NothingLost
  <2> USE Kinds DEF IInv
  <2>1. /\ active /\ batch = <<>> /\ channel = <<>> /\ inHand = NoNote
        /\ ToSet(batch) = {} /\ ToSet(channel) = {} /\ ToSet(buffered) \cap Notes = {}
    BY EmptyHasNone DEF Quiet, WorkerAt, Switch
  <2>2. 1..sent \subseteq Notes /\ sent \in Nat
    BY DEF TypeOK, Notes
  <2>3. ToSet(routed) = 1..sent
    <3>1. \A n \in Notes : n \in ToSet(routed) => n \in 1..sent
      BY DEF Written, TypeOK, Notes
    <3>2. \A n \in 1..sent : n \in ToSet(routed)
      BY <2>1, <2>2 DEF Written, Pending
    <3> QED
      BY <3>1, <3>2, Contents
  <2>4. routed \in Seq(1..sent) /\ Once(routed, 1..sent)
    <3>1. \A i \in DOMAIN routed : routed[i] \in 1..sent
      BY <2>3 DEF ToSet
    <3> QED
      BY <2>2, <3>1 DEF TypeOK, Once, Apart
  <2>5. Len(routed) = sent
    BY <2>2, <2>3, <2>4, OnceLength
  <2>6. \A n \in 1..sent : \E i \in DOMAIN routed : routed[i] = n
    BY <2>3 DEF ToSet
  <2>7. ASSUME NEW r \in Requests, rpc[r] # "idle", r \notin answered
        PROVE  rpc[r] = "held" /\ r \in ToSet(buffered)
    BY <2>1, <2>7 DEF Quiet, HeldAnswered, Kept
  <2> QED
    BY <2>5, <2>6, <2>7 DEF ToSet
<1> QED
  BY InboxInductive, <1>1, PTL

=============================================================================
