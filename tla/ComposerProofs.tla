--------------------------- MODULE ComposerProofs ---------------------------
(***************************************************************************)
(* What the user tells grok is not lost.  A message is not lost between    *)
(* Enter and its turn, for any messages, plans and orders under way; where *)
(* only orders change the queue, each is made of the queue grok has; where *)
(* at most one is submitted, to an empty queue, a message can be seen.     *)
(* The dialogs of the window and the gates of the host agree, while a key  *)
(* is of one request, for any requests, tasks and connections, any answers *)
(* under way and whatever is undelivered; and what the user puts into a    *)
(* dialog is kept.                                                         *)
(***************************************************************************)
EXTENDS Composing, SelectionsProofs

-----------------------------------------------------------------------------
(* The queue of messages (PromptQueue).                                    *)

Ids == Messages \cup {0}
Kinds == {"remove", "reorder", "edit", "clear", "interject"}
QueueOrders == [kind : Kinds \cup {"prompt", "drop"}, id : Ids, ids : Seq(Ids), n : Nat]
Events == [kind : {"queue", "echo", "failed", "down", "up"}, id : Ids, ids : Seq(Ids)]
Runs == [kind : Kinds, id : Ids, ids : Seq(Ids), n : Nat, st : {"called", "asked", "done", "refused"}]
Interjects == {o \in QueueOrders : o.kind = "interject"}

QueueType ==
    /\ fate \in [Messages -> {"unsent", "given", "removed", "failed", "lost"}]
    /\ dispatch \subseteq Messages
    /\ stdin \in Seq(QueueOrders) /\ wire \in Seq(Events)
    /\ entries \in Seq(Ids) /\ ran \in Seq(Ids) /\ queue \in Seq(Ids)
    /\ turn \in Ids \cup {Idle} /\ sending \in Ids /\ queueDraft \in Ids
    /\ runs \subseteq Runs /\ IsFiniteSet(runs)

\* A run is known by its number.
OneRun == \A r, q \in runs : r.n = q.n => r = q

\* Every interjection grok has not read is that of a run that waits for the answer.
Asked ==
    /\ Once(stdin, Interjects)
    /\ \A o \in ToSet(stdin) : o.kind = "interject" =>
          \E r \in runs : r.st = "asked" /\ o = Order("interject", r.id, r.ids, r.n)

\* An entry is dropped once its message is in a turn, and not before.
Dropped ==
    /\ \A r \in runs : r.st = "done" => r.id \in ToSet(ran)
    /\ \A o \in ToSet(stdin) : o.kind = "drop" => o.id \in ToSet(ran)

QueueInv == QueueType /\ OneRun /\ Asked /\ Dropped /\ QueuedNotLost

-----------------------------------------------------------------------------
LEMMA IdsAreNumbers == Messages \subseteq Nat \ {0} /\ Ids \subseteq Nat /\ Idle \notin Ids
BY QueueMessages DEF Ids, Idle

LEMMA NoneInEmpty == ToSet(<<>>) = {} /\ \A N : Once(<<>>, N)
BY DEF ToSet, Once

LEMMA EventTyped ==
    /\ \A q \in Seq(Ids) : Report(q) \in Events
    /\ \A kind \in {"echo", "failed", "down", "up"}, id \in Ids : Told(kind, id) \in Events
BY DEF Report, Told, Events, Ids

LEMMA InitHolds == left \in Plans /\ QueueInit => QueueInv
<1> SUFFICES ASSUME left \in Plans, QueueInit PROVE QueueInv
  OBVIOUS
<1>1. left.queued \in Nat /\ 1 .. left.queued \subseteq Messages
  BY QueueMessages
<1> DEFINE queued == [i \in 1 .. left.queued |-> i]
<1>2. queued \in Seq(Ids) /\ ToSet(queued) = 1 .. left.queued
  BY <1>1 DEF Ids, ToSet
<1>3. /\ entries = queued /\ queue = queued
      /\ fate = [m \in Messages |-> IF m <= left.queued THEN "given" ELSE "unsent"]
      /\ turn \in {0, Idle}
      /\ dispatch = {} /\ stdin = <<>> /\ ran = <<>> /\ wire = <<>>
      /\ sending = 0 /\ queueDraft = 0 /\ runs = {}
  BY DEF QueueInit
<1> HIDE DEF queued
<1>4. QueueType
  <2>1. fate \in [Messages -> {"unsent", "given", "removed", "failed", "lost"}]
    BY <1>3
  <2>2. 0 \in Ids
    BY DEF Ids
  <2>3. IsFiniteSet(runs)
    BY <1>3, FS_EmptySet
  <2> QED
    BY <1>2, <1>3, <2>1, <2>2, <2>3 DEF QueueType
<1>5. OneRun /\ Asked /\ Dropped
  BY <1>3, NoneInEmpty DEF OneRun, Asked, Dropped
<1>6. QueuedNotLost
  <2> SUFFICES ASSUME NEW m \in Messages, fate[m] = "given" PROVE m \in ToSet(entries)
    BY DEF QueuedNotLost
  <2>1. m \in Nat /\ m # 0 /\ m <= left.queued
    BY <1>3, IdsAreNumbers
  <2> QED
    BY <1>1, <1>2, <1>3, <2>1
<1> QED
  BY <1>4, <1>5, <1>6 DEF QueueInv

\* A step of the window alone: what it shows is typed.
LEMMA WindowKeeps ==
    ASSUME QueueInv, UNCHANGED <<fate, dispatch, stdin, entries, turn, ran, sending, runs>>,
           wire' \in Seq(Events), queue' \in Seq(Ids), queueDraft' \in Ids
    PROVE  QueueInv'
<1>1. QueueType'
  BY DEF QueueInv, QueueType
<1>2. OneRun' /\ Asked' /\ Dropped'
  BY DEF QueueInv, OneRun, Asked, Dropped
<1>3. QueuedNotLost'
  BY DEF QueueInv, QueuedNotLost, Unread
<1> QED
  BY <1>1, <1>2, <1>3 DEF QueueInv

LEMMA WindowSteps ==
    QueueInv /\ (EventArrives \/ Select \/ TimeIsUp \/ AckTimeout \/ UnlockTimer \/ UNCHANGED <<queueVars, left>>
                 \/ \E i \in 1 .. Len(queue) : OpensDraft(i)) => QueueInv'
<1> SUFFICES ASSUME QueueInv PROVE
        (EventArrives \/ Select \/ TimeIsUp \/ AckTimeout \/ UnlockTimer \/ UNCHANGED <<queueVars, left>>
         \/ \E i \in 1 .. Len(queue) : OpensDraft(i)) => QueueInv'
  OBVIOUS
<1>1. wire \in Seq(Events) /\ queue \in Seq(Ids) /\ queueDraft \in Ids /\ 0 \in Ids
  BY DEF QueueInv, QueueType, Ids
<1>2. ASSUME EventArrives PROVE QueueInv'
  <2> DEFINE e == Head(wire)
  <2>1. e \in Events /\ wire' \in Seq(Events)
    BY <1>1, <1>2, HeadMembers DEF EventArrives
  <2>2. /\ UNCHANGED <<fate, dispatch, stdin, entries, turn, ran, sending, runs>>
        /\ IF e.kind # "queue" THEN UNCHANGED rowVars
           ELSE queue' = e.ids /\ queueDraft' \in {queueDraft, 0}
    BY <1>2 DEF EventArrives
  <2>3. queue' \in Seq(Ids) /\ queueDraft' \in Ids
    <3> HIDE DEF e
    <3> QED
      BY <1>1, <2>1, <2>2 DEF rowVars, Events
  <2> QED
    BY <2>1, <2>2, <2>3, WindowKeeps
<1>3. ASSUME Select PROVE QueueInv'
  BY <1>1, <1>3, WindowKeeps DEF Select, grokVars
<1>4. ASSUME TimeIsUp \/ AckTimeout \/ UnlockTimer PROVE QueueInv'
  BY <1>1, <1>4, WindowKeeps DEF TimeIsUp, AckTimeout, UnlockTimer, grokVars, rowVars
<1>5. ASSUME UNCHANGED <<queueVars, left>> PROVE QueueInv'
  BY <1>1, <1>5, WindowKeeps DEF queueVars
<1>6. ASSUME NEW i \in 1 .. Len(queue), OpensDraft(i) PROVE QueueInv'
  <2>1. queue[i] \in Ids
    BY <1>1
  <2> QED
    BY <1>1, <1>6, <2>1, WindowKeeps DEF OpensDraft, grokVars
<1> QED
  BY <1>2, <1>3, <1>4, <1>5, <1>6

-----------------------------------------------------------------------------
\* The prompts in the input when one more order is written, or the first is read.
LEMMA UnreadAppend ==
    ASSUME stdin \in Seq(QueueOrders), NEW o \in QueueOrders, stdin' = Append(stdin, o)
    PROVE  /\ stdin' \in Seq(QueueOrders) /\ ToSet(stdin') = ToSet(stdin) \cup {o}
           /\ Unread' = Unread \cup (IF o.kind = "prompt" THEN {o.id} ELSE {})
           /\ Once(stdin, Interjects) /\ (o.kind = "interject" => o \notin ToSet(stdin)) => Once(stdin', Interjects)
<1>1. /\ stdin' \in Seq(QueueOrders) /\ ToSet(stdin') = ToSet(stdin) \cup {o}
      /\ Once(stdin, Interjects) /\ (o \in Interjects => o \notin ToSet(stdin)) => Once(stdin', Interjects)
  BY AppendMembers
<1>2. Unread' = Unread \cup (IF o.kind = "prompt" THEN {o.id} ELSE {})
  BY <1>1 DEF Unread
<1> QED
  BY <1>1, <1>2 DEF Interjects

LEMMA UnreadTail ==
    ASSUME stdin \in Seq(QueueOrders), stdin # <<>>, stdin' = Tail(stdin)
    PROVE  /\ stdin' \in Seq(QueueOrders) /\ Head(stdin) \in QueueOrders
           /\ ToSet(stdin) = {Head(stdin)} \cup ToSet(stdin')
           /\ Unread = Unread' \cup (IF Head(stdin).kind = "prompt" THEN {Head(stdin).id} ELSE {})
           /\ Once(stdin, Interjects) => /\ Once(stdin', Interjects)
                                         /\ Head(stdin).kind = "interject" => Head(stdin) \notin ToSet(stdin')
<1>1. /\ stdin' \in Seq(QueueOrders) /\ Head(stdin) \in QueueOrders
      /\ ToSet(stdin) = {Head(stdin)} \cup ToSet(stdin')
      /\ Once(stdin, Interjects) => /\ Once(stdin', Interjects)
                                    /\ Head(stdin) \in Interjects => Head(stdin) \notin ToSet(stdin')
  BY HeadMembers
<1>2. Unread = Unread' \cup (IF Head(stdin).kind = "prompt" THEN {Head(stdin).id} ELSE {})
  BY <1>1 DEF Unread
<1> QED
  BY <1>1, <1>2 DEF Interjects

LEMMA SubmitKeeps == QueueInv /\ Submit => QueueInv'
<1> SUFFICES ASSUME QueueInv, Submit PROVE QueueInv'
  OBVIOUS
<1> USE DEF QueueInv
<1> DEFINE m == CHOOSE m \in Unsent : \A n \in Unsent : m <= n
<1>1. m \in Unsent
  <2>1. Unsent \in SUBSET Nat /\ Unsent # {}
    BY IdsAreNumbers DEF Submit, Unsent
  <2>2. \E k \in Unsent : \A n \in Unsent : k <= n
    BY <2>1, LeastOf
  <2> QED
    BY <2>2
<1>2. sending = 0 /\ fate' = [fate EXCEPT ![m] = "given"] /\ sending' = m
  BY DEF Submit
<1>3. UNCHANGED <<dispatch, stdin, entries, turn, ran, wire, runs, queue, queueDraft>>
  BY DEF Submit, rowVars
<1>4. m \in Messages /\ m \in Ids
  BY <1>1 DEF Unsent, Ids
<1> HIDE DEF m
<1>5. QueueType'
  BY <1>2, <1>3, <1>4 DEF QueueType
<1>6. OneRun' /\ Asked' /\ Dropped'
  BY <1>3 DEF OneRun, Asked, Dropped
<1>7. QueuedNotLost'
  <2> SUFFICES ASSUME NEW k \in Messages, fate'[k] = "given"
               PROVE  k \in {sending'} \cup dispatch' \cup Unread' \cup ToSet(entries') \cup ToSet(ran')
    BY DEF QueuedNotLost
  <2>1. Unread' = Unread
    BY <1>3 DEF Unread
  <2>2. k = m \/ fate[k] = "given"
    BY <1>2 DEF QueueType
  <2>3. k # 0
    BY IdsAreNumbers
  <2> QED
    BY <1>2, <1>3, <2>1, <2>2, <2>3 DEF QueuedNotLost
<1> QED
  BY <1>5, <1>6, <1>7

\* The message goes to the host, or is refused by it.
LEMMA HostKeeps ==
    QueueInv /\ (\/ SendAccepted \/ SendFails
                 \/ \E m \in Messages : DispatchWrites(m) \/ \E told \in BOOLEAN : DispatchFails(m, told)) => QueueInv'
<1> SUFFICES ASSUME QueueInv PROVE
        (\/ SendAccepted \/ SendFails
         \/ \E m \in Messages : DispatchWrites(m) \/ \E told \in BOOLEAN : DispatchFails(m, told)) => QueueInv'
  OBVIOUS
<1> USE DEF QueueInv
<1>1. 0 \in Ids /\ Messages \subseteq Ids
  BY DEF Ids
<1>2. ASSUME SendAccepted PROVE QueueInv'
  <2>1. /\ sending # 0 /\ dispatch' = dispatch \cup {sending} /\ sending' = 0
        /\ UNCHANGED <<fate, stdin, entries, turn, ran, wire, runs, queue, queueDraft>>
    BY <1>2 DEF SendAccepted, grokVars, rowVars
  <2>2. QueueType'
    BY <1>1, <2>1 DEF QueueType, Ids
  <2>3. OneRun' /\ Asked' /\ Dropped'
    BY <2>1 DEF OneRun, Asked, Dropped
  <2>4. QueuedNotLost'
    BY <2>1 DEF QueuedNotLost, Unread
  <2> QED
    BY <2>2, <2>3, <2>4
<1>3. ASSUME SendFails PROVE QueueInv'
  <2>1. /\ sending # 0 /\ fate' = [fate EXCEPT ![sending] = "failed"] /\ sending' = 0
        /\ UNCHANGED <<dispatch, stdin, entries, turn, ran, wire, runs, queue, queueDraft>>
    BY <1>3 DEF SendFails, rowVars
  <2>2. QueueType'
    BY <1>1, <2>1 DEF QueueType, Ids
  <2>3. OneRun' /\ Asked' /\ Dropped'
    BY <2>1 DEF OneRun, Asked, Dropped
  <2>4. \A m \in Messages : fate'[m] = "given" => fate[m] = "given" /\ m # sending
    BY <2>1 DEF QueueType
  <2>5. QueuedNotLost'
    BY <2>1, <2>4 DEF QueuedNotLost, Unread
  <2> QED
    BY <2>2, <2>3, <2>5
<1>4. ASSUME NEW m \in Messages, DispatchWrites(m) PROVE QueueInv'
  <2> DEFINE o == Order("prompt", m, <<>>, 0)
  <2>1. /\ m \in dispatch /\ dispatch' = dispatch \ {m} /\ stdin' = Append(stdin, o)
        /\ UNCHANGED <<fate, entries, turn, ran, wire, sending, runs, queue, queueDraft>>
    BY <1>4 DEF DispatchWrites, rowVars
  <2>2. o \in QueueOrders /\ o.kind = "prompt" /\ o.id = m
    <3>1. m \in Ids /\ <<>> \in Seq(Ids) /\ 0 \in Nat
      BY <1>1
    <3> QED
      BY <3>1 DEF Order, QueueOrders
  <2> HIDE DEF o
  <2>3. /\ stdin' \in Seq(QueueOrders) /\ ToSet(stdin') = ToSet(stdin) \cup {o}
        /\ Unread' = Unread \cup {m} /\ (Once(stdin, Interjects) => Once(stdin', Interjects))
    BY <2>1, <2>2, UnreadAppend DEF QueueType
  <2>4. QueueType'
    BY <2>1, <2>3 DEF QueueType
  <2>5. OneRun' /\ Asked' /\ Dropped'
    BY <2>1, <2>2, <2>3 DEF OneRun, Asked, Dropped
  <2>6. QueuedNotLost'
    BY <2>1, <2>3 DEF QueuedNotLost
  <2> QED
    BY <2>4, <2>5, <2>6
<1>5. ASSUME NEW m \in Messages, NEW told \in BOOLEAN, DispatchFails(m, told) PROVE QueueInv'
  <2>1. /\ m \in dispatch /\ dispatch' = dispatch \ {m} /\ fate' = [fate EXCEPT ![m] = "failed"]
        /\ UNCHANGED <<stdin, entries, turn, ran, sending, runs, queue, queueDraft>>
    BY <1>5 DEF DispatchFails, rowVars
  <2>2. wire' \in Seq(Events)
    <3> DEFINE e == Told("failed", m)
    <3>1. e \in Events
      BY <1>1, EventTyped
    <3>2. wire' = wire \/ wire' = Append(wire, e)
      BY <1>5 DEF DispatchFails
    <3> HIDE DEF e, QueueInv
    <3>3. wire \in Seq(Events)
      BY DEF QueueType, QueueInv
    <3> QED
      BY <3>1, <3>2, <3>3
  <2>3. QueueType'
    BY <2>1, <2>2 DEF QueueType
  <2>4. OneRun' /\ Asked' /\ Dropped'
    BY <2>1 DEF OneRun, Asked, Dropped
  <2>5. \A k \in Messages : fate'[k] = "given" => fate[k] = "given" /\ k # m
    BY <2>1 DEF QueueType
  <2>6. QueuedNotLost'
    BY <2>1, <2>5 DEF QueuedNotLost, Unread
  <2> QED
    BY <2>3, <2>4, <2>6
<1> QED
  BY <1>2, <1>3, <1>4, <1>5

-----------------------------------------------------------------------------
\* What grok reports is typed.
LEMMA ReportsTyped ==
    ASSUME QueueType, NEW q \in Seq(Ids), NEW said \in Seq(Events), Reports(q, said)
    PROVE  entries' = q /\ wire' \in Seq(Events)
<1> DEFINE e == Report(q)
<1>1. e \in Events
  BY EventTyped
<1>2. entries' = q /\ wire' = wire \o <<e>> \o said
  BY DEF Reports
<1> HIDE DEF e
<1>3. wire \in Seq(Events) /\ <<e>> \in Seq(Events)
  BY <1>1 DEF QueueType
<1> QED
  BY <1>2, <1>3

LEMMA ConcatMembers ==
    ASSUME NEW D, NEW q \in Seq(D), NEW r \in Seq(D)
    PROVE  q \o r \in Seq(D) /\ ToSet(q \o r) = ToSet(q) \cup ToSet(r)
<1> DEFINE c == q \o r
<1>1. /\ Len(q) \in Nat /\ Len(r) \in Nat /\ DOMAIN q = 1..Len(q) /\ DOMAIN r = 1..Len(r)
      /\ c \in Seq(D) /\ DOMAIN c = 1..Len(q) + Len(r)
      /\ \A i \in 1..Len(q) : c[i] = q[i]
      /\ \A i \in 1..Len(r) : c[Len(q) + i] = r[i]
  OBVIOUS
<1> HIDE DEF c
<1>2. ASSUME NEW i \in DOMAIN c PROVE c[i] \in ToSet(q) \cup ToSet(r)
  <2>1. CASE i \in 1..Len(q)
    BY <1>1, <2>1 DEF ToSet
  <2>2. CASE i \notin 1..Len(q)
    <3>1. i - Len(q) \in 1..Len(r) /\ Len(q) + (i - Len(q)) = i
      BY <1>1, <2>2
    <3>2. c[i] = r[i - Len(q)]
      BY <1>1, <3>1
    <3> QED
      BY <1>1, <3>1, <3>2 DEF ToSet
  <2> QED
    BY <2>1, <2>2
<1>3. ASSUME NEW i \in DOMAIN q PROVE q[i] \in ToSet(c)
  <2>1. i \in DOMAIN c /\ c[i] = q[i]
    BY <1>1
  <2> QED
    BY <2>1 DEF ToSet
<1>4. ASSUME NEW i \in DOMAIN r PROVE r[i] \in ToSet(c)
  <2>1. Len(q) + i \in DOMAIN c /\ c[Len(q) + i] = r[i]
    BY <1>1
  <2> QED
    BY <2>1 DEF ToSet
<1>5. ToSet(c) = ToSet(q) \cup ToSet(r)
  BY <1>2, <1>3, <1>4 DEF ToSet
<1> QED
  BY <1>1, <1>5 DEF c

\* An ordering changes the order of the queue and nothing else.
LEMMA ReorderedKeeps ==
    ASSUME NEW q \in Seq(Ids), NEW ids \in Seq(Ids)
    PROVE  Reordered(q, ids) \in Seq(Ids) /\ ToSet(Reordered(q, ids)) = ToSet(q)
<1> DEFINE front == Only(ids, ToSet(q))
           back == Only(q, ToSet(q) \ ToSet(ids))
<1>1. front \in Seq(Ids) /\ ToSet(front) = ToSet(ids) \cap ToSet(q)
  BY OnlyKeeps
<1>2. back \in Seq(Ids) /\ ToSet(back) = ToSet(q) \cap (ToSet(q) \ ToSet(ids))
  BY OnlyKeeps
<1> HIDE DEF front, back
<1>3. front \o back \in Seq(Ids) /\ ToSet(front \o back) = ToSet(front) \cup ToSet(back)
  BY <1>1, <1>2, ConcatMembers
<1>4. ToSet(front) \cup ToSet(back) = ToSet(q)
  BY <1>1, <1>2
<1> QED
  BY <1>3, <1>4 DEF Reordered, front, back

\* grok reads a prompt: it runs, or waits for the turn to end.
LEMMA TakesPromptKeeps == QueueInv /\ GrokReads /\ TakesPrompt(Head(stdin)) => QueueInv'
<1> SUFFICES ASSUME QueueInv, GrokReads, TakesPrompt(Head(stdin)) PROVE QueueInv'
  OBVIOUS
<1> USE DEF QueueInv
<1> DEFINE o == Head(stdin)
<1>1. /\ stdin # <<>> /\ stdin' = Tail(stdin) /\ o.kind = "prompt"
      /\ UNCHANGED <<fate, dispatch, sending, runs, queue, queueDraft>>
  BY DEF GrokReads, TakesPrompt, windowVars
<1>2. /\ stdin' \in Seq(QueueOrders) /\ o \in QueueOrders /\ ToSet(stdin) = {o} \cup ToSet(stdin')
      /\ Unread = Unread' \cup {o.id} /\ (Once(stdin, Interjects) => Once(stdin', Interjects))
  BY <1>1, UnreadTail DEF QueueType
<1>3. o.id \in Ids
  BY <1>2 DEF QueueOrders
<1>4. /\ entries' \in Seq(Ids) /\ ran' \in Seq(Ids) /\ wire' \in Seq(Events) /\ turn' \in Ids \cup {Idle}
      /\ ToSet(entries) \cup ToSet(ran) \cup {o.id} \subseteq ToSet(entries') \cup ToSet(ran')
      /\ ToSet(ran) \subseteq ToSet(ran')
  <2>1. CASE turn = Idle
    <3> DEFINE e == Told("echo", o.id)
    <3>1. turn' = o.id /\ ran' = Append(ran, o.id) /\ wire' = Append(wire, e) /\ entries' = entries
      BY <2>1 DEF TakesPrompt, Starts
    <3>2. e \in Events
      BY <1>3, EventTyped
    <3> HIDE DEF e, o
    <3>3. ran' \in Seq(Ids) /\ ToSet(ran') = ToSet(ran) \cup {o.id}
      BY <1>3, <3>1, AppendMembers DEF QueueType
    <3>4. wire' \in Seq(Events)
      BY <3>1, <3>2 DEF QueueType
    <3> QED
      BY <1>3, <3>1, <3>3, <3>4 DEF QueueType
  <2>2. CASE turn # Idle
    <3> DEFINE q == Append(entries, o.id)
    <3>1. Reports(q, <<>>) /\ turn' = turn /\ ran' = ran
      BY <2>2 DEF TakesPrompt
    <3> HIDE DEF o
    <3>2. q \in Seq(Ids) /\ ToSet(q) = ToSet(entries) \cup {o.id}
      BY <1>3, AppendMembers DEF QueueType
    <3> HIDE DEF q
    <3>3. entries' = q /\ wire' \in Seq(Events)
      <4>1. <<>> \in Seq(Events)
        OBVIOUS
      <4> QED
        BY <3>1, <3>2, <4>1, ReportsTyped
    <3> QED
      BY <3>1, <3>2, <3>3 DEF QueueType
  <2> QED
    BY <2>1, <2>2
<1> HIDE DEF o
<1>5. QueueType'
  BY <1>1, <1>2, <1>4 DEF QueueType
<1>6. OneRun' /\ Asked' /\ Dropped'
  BY <1>1, <1>2, <1>4 DEF OneRun, Asked, Dropped
<1>7. QueuedNotLost'
  BY <1>1, <1>2, <1>4 DEF QueuedNotLost
<1> QED
  BY <1>5, <1>6, <1>7

\* grok reads an order about its queue.  Only an entry that a turn has taken is dropped.
LEMMA TakesOrderKeeps == QueueInv /\ GrokReads /\ TakesOrder(Head(stdin)) => QueueInv'
<1> SUFFICES ASSUME QueueInv, GrokReads, TakesOrder(Head(stdin)) PROVE QueueInv'
  OBVIOUS
<1> USE DEF QueueInv
<1> DEFINE o == Head(stdin)
           gone == CASE o.kind \in {"remove", "drop"} -> {o.id}
                     [] o.kind = "clear" -> ToSet(entries)
                     [] OTHER -> {}
           kept == Only(entries, ToSet(entries) \ gone)
           next == IF o.kind = "reorder" THEN Reordered(kept, o.ids) ELSE kept
<1>1. /\ stdin # <<>> /\ stdin' = Tail(stdin)
      /\ o.kind \in {"remove", "drop", "reorder", "edit", "clear"}
      /\ UNCHANGED <<dispatch, sending, queue, queueDraft, turn, ran, runs>>
      /\ Reports(next, <<>>)
      /\ fate' = [m \in Messages |-> IF o.kind # "drop" /\ m \in gone \cap ToSet(entries) THEN "removed" ELSE fate[m]]
  BY DEF GrokReads, TakesOrder, windowVars
<1>2. /\ stdin' \in Seq(QueueOrders) /\ o \in QueueOrders /\ ToSet(stdin) = {o} \cup ToSet(stdin')
      /\ Unread = Unread' /\ (Once(stdin, Interjects) => Once(stdin', Interjects))
  BY <1>1, UnreadTail DEF QueueType
<1>3. o.ids \in Seq(Ids)
  BY <1>2 DEF QueueOrders
<1>4. o.kind = "drop" => gone \subseteq ToSet(ran)
  BY <1>2 DEF Dropped
<1> HIDE DEF gone, o
<1>5. kept \in Seq(Ids) /\ ToSet(kept) = ToSet(entries) \ gone
  <2>1. kept \in Seq(Ids) /\ ToSet(kept) = ToSet(entries) \cap (ToSet(entries) \ gone)
    BY OnlyKeeps DEF QueueType
  <2> HIDE DEF kept
  <2> QED
    BY <2>1
<1> HIDE DEF kept
<1>6. next \in Seq(Ids) /\ ToSet(next) = ToSet(entries) \ gone
  BY <1>3, <1>5, ReorderedKeeps
<1> HIDE DEF next
<1>7. entries' = next /\ wire' \in Seq(Events)
  <2>1. <<>> \in Seq(Events)
    OBVIOUS
  <2> QED
    BY <1>1, <1>6, <2>1, ReportsTyped
<1>8. QueueType'
  <2>1. fate' \in [Messages -> {"unsent", "given", "removed", "failed", "lost"}]
    BY <1>1 DEF QueueType
  <2> QED
    BY <1>1, <1>2, <1>6, <1>7, <2>1 DEF QueueType
<1>9. OneRun' /\ Asked' /\ Dropped'
  BY <1>1, <1>2 DEF OneRun, Asked, Dropped
<1>10. QueuedNotLost'
  <2> SUFFICES ASSUME NEW m \in Messages, fate'[m] = "given"
               PROVE  m \in {sending'} \cup dispatch' \cup Unread' \cup ToSet(entries') \cup ToSet(ran')
    BY DEF QueuedNotLost
  <2>1. fate[m] = "given" /\ (o.kind = "drop" \/ m \notin gone \cap ToSet(entries))
    BY <1>1
  <2>2. m \in {sending} \cup dispatch \cup Unread \cup ToSet(entries) \cup ToSet(ran)
    BY <2>1 DEF QueuedNotLost
  <2> QED
    BY <1>1, <1>2, <1>4, <1>6, <1>7, <2>1, <2>2
<1> QED
  BY <1>8, <1>9, <1>10

\* Changing how far the runs have come keeps them typed and apart.
LEMMA RunsChanged ==
    ASSUME runs \subseteq Runs, IsFiniteSet(runs), OneRun,
           NEW f \in [runs -> Runs], \A r \in runs : f[r].n = r.n
    PROVE  LET changed == {f[r] : r \in runs}
           IN /\ changed \subseteq Runs /\ IsFiniteSet(changed)
              /\ \A r, q \in changed : r.n = q.n => r = q
<1>1. IsFiniteSet({f[r] : r \in runs})
  BY ImageFinite
<1>2. \A r, q \in runs : f[r].n = f[q].n => f[r] = f[q]
  BY DEF OneRun
<1> QED
  BY <1>1, <1>2

\* grok takes an interjection into its turn, or has no turn to put it into, and the
\* run that waits for this answer is done or refused.
LEMMA TakesInterjectKeeps == QueueInv /\ GrokReads /\ TakesInterject(Head(stdin)) => QueueInv'
<1> SUFFICES ASSUME QueueInv, GrokReads, TakesInterject(Head(stdin)) PROVE QueueInv'
  OBVIOUS
<1> USE DEF QueueInv
<1> DEFINE o == Head(stdin)
           f == [r \in runs |-> AnsweredBy(o, r)]
<1>1. /\ stdin # <<>> /\ stdin' = Tail(stdin) /\ o.kind = "interject"
      /\ runs' = {AnsweredBy(o, r) : r \in runs}
      /\ UNCHANGED <<fate, dispatch, entries, turn, sending, queue, queueDraft>>
  BY DEF GrokReads, TakesInterject, windowVars
<1>2. /\ stdin' \in Seq(QueueOrders) /\ o \in QueueOrders /\ ToSet(stdin) = {o} \cup ToSet(stdin')
      /\ Unread = Unread' /\ Once(stdin', Interjects) /\ o \notin ToSet(stdin')
  BY <1>1, UnreadTail DEF QueueType, Asked
<1>3. o.id \in Ids
  BY <1>2 DEF QueueOrders
<1>4. PICK own \in runs : own.st = "asked" /\ o = Order("interject", own.id, own.ids, own.n)
  BY <1>1, <1>2 DEF Asked
<1>5. o.id = own.id /\ o.n = own.n
  BY <1>4 DEF Order
<1>6. /\ ran' \in Seq(Ids) /\ wire' \in Seq(Events) /\ ToSet(ran) \subseteq ToSet(ran')
      /\ turn # Idle => o.id \in ToSet(ran')
  <2>1. CASE turn = Idle
    BY <2>1 DEF TakesInterject, QueueType
  <2>2. CASE turn # Idle
    <3> DEFINE e == Told("echo", o.id)
    <3>1. ran' = Append(ran, o.id) /\ wire' = Append(wire, e)
      BY <2>2 DEF TakesInterject
    <3>2. e \in Events
      BY <1>3, EventTyped
    <3> HIDE DEF e, o
    <3>3. ran' \in Seq(Ids) /\ ToSet(ran') = ToSet(ran) \cup {o.id}
      BY <1>3, <3>1, AppendMembers DEF QueueType
    <3>4. wire' \in Seq(Events)
      BY <3>1, <3>2 DEF QueueType
    <3> QED
      BY <3>3, <3>4
  <2> QED
    BY <2>1, <2>2
<1> HIDE DEF o
<1>7. \A r \in runs : r \in Runs
  BY DEF QueueType
<1>8. \A r \in runs : f[r] = IF r = own THEN [r EXCEPT !.st = IF turn = Idle THEN "refused" ELSE "done"] ELSE r
  <2> SUFFICES ASSUME NEW r \in runs
               PROVE  AnsweredBy(o, r) = IF r = own THEN [r EXCEPT !.st = IF turn = Idle THEN "refused" ELSE "done"] ELSE r
    OBVIOUS
  <2>1. r.n = o.n <=> r = own
    BY <1>4, <1>5 DEF OneRun
  <2> QED
    BY <1>4, <2>1 DEF AnsweredBy
<1>9. \A r \in runs : f[r] \in Runs /\ f[r].n = r.n /\ f[r].id = r.id
  <2> SUFFICES ASSUME NEW r \in runs PROVE f[r] \in Runs /\ f[r].n = r.n /\ f[r].id = r.id
    OBVIOUS
  <2> DEFINE g == f[r]
  <2>1. g = IF r = own THEN [r EXCEPT !.st = IF turn = Idle THEN "refused" ELSE "done"] ELSE r
    BY <1>8
  <2> HIDE DEF f, g
  <2>2. g \in Runs /\ g.n = r.n /\ g.id = r.id
    BY <1>7, <2>1 DEF Runs
  <2> QED
    BY <2>2 DEF g
<1>10. runs' = {f[r] : r \in runs} /\ f \in [runs -> Runs]
  BY <1>1, <1>9
<1> HIDE DEF f
<1>11. runs' \subseteq Runs /\ IsFiniteSet(runs') /\ OneRun'
  <2>1. runs \subseteq Runs /\ IsFiniteSet(runs) /\ OneRun
    BY DEF QueueType
  <2> QED
    BY <1>9, <1>10, <2>1, RunsChanged DEF OneRun
<1>12. QueueType'
  BY <1>1, <1>2, <1>6, <1>11 DEF QueueType
<1>13. Asked'
  <2> SUFFICES ASSUME NEW p \in ToSet(stdin'), p.kind = "interject"
               PROVE  \E r \in runs' : r.st = "asked" /\ p = Order("interject", r.id, r.ids, r.n)
    BY <1>2 DEF Asked
  <2>1. PICK r \in runs : r.st = "asked" /\ p = Order("interject", r.id, r.ids, r.n)
    BY <1>2 DEF Asked
  <2>2. r # own
    BY <1>2, <1>4, <2>1
  <2>3. f[r] = r
    BY <1>8, <2>2
  <2> QED
    BY <1>10, <2>1, <2>3
<1>14. Dropped'
  <2>1. ASSUME NEW r \in runs, f[r].st = "done" PROVE f[r].id \in ToSet(ran')
    <3>1. CASE r = own
      <4>1. turn # Idle
        BY <1>7, <1>8, <2>1, <3>1 DEF Runs
      <4> QED
        BY <1>5, <1>6, <1>9, <3>1, <4>1
    <3>2. CASE r # own
      BY <1>6, <1>8, <2>1, <3>2 DEF Dropped
    <3> QED
      BY <3>1, <3>2
  <2> QED
    BY <1>2, <1>6, <1>10, <2>1 DEF Dropped
<1>15. QueuedNotLost'
  BY <1>1, <1>2, <1>6 DEF QueuedNotLost
<1> QED
  BY <1>11, <1>12, <1>13, <1>14, <1>15

\* The turn ends: the first entry runs, or there is none.
LEMMA TurnEndsKeeps == QueueInv /\ TurnEnds => QueueInv'
<1> SUFFICES ASSUME QueueInv, TurnEnds PROVE QueueInv'
  OBVIOUS
<1> USE DEF QueueInv
<1>1. UNCHANGED <<fate, dispatch, stdin, sending, runs, queue, queueDraft>>
  BY DEF TurnEnds, windowVars
<1>2. /\ entries' \in Seq(Ids) /\ ran' \in Seq(Ids) /\ wire' \in Seq(Events) /\ turn' \in Ids \cup {Idle}
      /\ ToSet(entries) \cup ToSet(ran) \subseteq ToSet(entries') \cup ToSet(ran')
      /\ ToSet(ran) \subseteq ToSet(ran')
  <2>1. CASE entries = <<>>
    BY <2>1 DEF TurnEnds, QueueType
  <2>2. CASE entries # <<>>
    <3> DEFINE m == Head(entries)  q == Tail(entries)  said == <<Told("echo", m)>>
    <3>1. turn' = m /\ ran' = Append(ran, m) /\ Reports(q, said)
      BY <2>2 DEF TurnEnds, Starts
    <3>2. m \in Ids /\ q \in Seq(Ids) /\ ToSet(entries) = {m} \cup ToSet(q)
      BY <2>2, HeadMembers DEF QueueType
    <3> HIDE DEF m, q
    <3>3. said \in Seq(Events)
      <4>1. Told("echo", m) \in Events
        BY <3>2, EventTyped
      <4> QED
        BY <4>1
    <3> HIDE DEF said
    <3>4. entries' = q /\ wire' \in Seq(Events)
      BY <3>1, <3>2, <3>3, ReportsTyped
    <3>5. ran' \in Seq(Ids) /\ ToSet(ran') = ToSet(ran) \cup {m}
      BY <3>1, <3>2, AppendMembers DEF QueueType
    <3> QED
      BY <3>1, <3>2, <3>4, <3>5
  <2> QED
    BY <2>1, <2>2
<1>3. QueueType'
  BY <1>1, <1>2 DEF QueueType
<1>4. OneRun' /\ Asked' /\ Dropped'
  BY <1>1, <1>2 DEF OneRun, Asked, Dropped
<1>5. QueuedNotLost'
  <2>1. Unread' = Unread
    BY <1>1 DEF Unread
  <2> QED
    BY <1>1, <1>2, <2>1 DEF QueuedNotLost
<1> QED
  BY <1>3, <1>4, <1>5

\* The transport goes: what was not in the transcript is lost, and no order waits.
LEMMA ConnectionLostKeeps == QueueInv /\ ConnectionLost => QueueInv'
<1> SUFFICES ASSUME QueueInv, ConnectionLost PROVE QueueInv'
  OBVIOUS
<1> USE DEF QueueInv
<1> DEFINE f == [r \in runs |-> Refused(r)]
           off == Told("down", 0)
           up == Told("up", 0)
<1>1. /\ fate' = [m \in Messages |-> IF m \in dispatch \cup ToSet(entries) \cup Unread THEN "lost" ELSE fate[m]]
      /\ dispatch' = {} /\ stdin' = <<>> /\ entries' = <<>> /\ turn' = Idle
      /\ wire' = wire \o <<off, up>> /\ runs' = {Refused(r) : r \in runs}
      /\ UNCHANGED <<ran, sending, queue, queueDraft>>
  BY DEF ConnectionLost, windowVars
<1>2. \A r \in runs : r \in Runs
  BY DEF QueueType
<1>3. \A r \in runs : f[r] \in Runs /\ f[r].n = r.n /\ f[r].st # "done"
  <2> SUFFICES ASSUME NEW r \in runs PROVE Refused(r) \in Runs /\ Refused(r).n = r.n /\ Refused(r).st # "done"
    OBVIOUS
  <2> DEFINE g == Refused(r)
  <2>1. g = IF r.st \in {"asked", "done"} THEN [r EXCEPT !.st = "refused"] ELSE r
    BY DEF Refused
  <2> HIDE DEF f, g
  <2>2. g \in Runs /\ g.n = r.n /\ g.st # "done"
    BY <1>2, <2>1 DEF Runs
  <2> QED
    BY <2>2 DEF g
<1>4. runs' = {f[r] : r \in runs} /\ f \in [runs -> Runs]
  BY <1>1, <1>3
<1>5. wire' \in Seq(Events)
  <2>1. 0 \in Ids
    BY DEF Ids
  <2>2. off \in Events /\ up \in Events
    BY <2>1, EventTyped
  <2> HIDE DEF off, up
  <2>3. <<off, up>> \in Seq(Events) /\ wire \in Seq(Events)
    BY <2>2 DEF QueueType
  <2> QED
    BY <1>1, <2>3
<1> HIDE DEF f
<1>6. runs' \subseteq Runs /\ IsFiniteSet(runs') /\ OneRun'
  <2>1. runs \subseteq Runs /\ IsFiniteSet(runs) /\ OneRun
    BY DEF QueueType
  <2> QED
    BY <1>3, <1>4, <2>1, RunsChanged DEF OneRun
<1>7. QueueType'
  <2>1. fate' \in [Messages -> {"unsent", "given", "removed", "failed", "lost"}]
    BY <1>1 DEF QueueType
  <2>2. stdin' \in Seq(QueueOrders) /\ entries' \in Seq(Ids)
    BY <1>1
  <2> QED
    BY <1>1, <1>5, <1>6, <2>1, <2>2 DEF QueueType
<1>8. Asked' /\ Dropped'
  BY <1>1, <1>3, <1>4, NoneInEmpty DEF Asked, Dropped
<1>9. QueuedNotLost'
  <2> SUFFICES ASSUME NEW m \in Messages, fate'[m] = "given" PROVE m \in {sending'} \cup ToSet(ran')
    BY DEF QueuedNotLost
  <2>1. fate[m] = "given" /\ m \notin dispatch \cup ToSet(entries) \cup Unread
    BY <1>1
  <2> QED
    BY <1>1, <2>1 DEF QueuedNotLost
<1> QED
  BY <1>6, <1>7, <1>8, <1>9

-----------------------------------------------------------------------------
\* The user gives an order: its run has a number of its own.
LEMMA OrderedKeeps ==
    ASSUME QueueInv, NEW kind \in Kinds, NEW id \in Ids, NEW ids \in Seq(Ids), Ordered(kind, id, ids)
    PROVE  QueueInv'
<1> USE DEF QueueInv
<1> DEFINE r == Run(kind, id, ids, FreshNumber(runs))
<1>1. /\ runs' = runs \cup {r}
      /\ UNCHANGED <<fate, dispatch, stdin, entries, turn, ran, wire, sending, queue, queueDraft>>
  BY DEF Ordered, grokVars
<1>2. FreshNumber(runs) \in Nat /\ \A q \in runs : q.n # FreshNumber(runs)
  BY FreshIsNew DEF QueueType
<1>3. r \in Runs /\ r.n = FreshNumber(runs) /\ r.st = "called"
  BY <1>2 DEF Run, Runs
<1> HIDE DEF r
<1>4. QueueType'
  <2>1. IsFiniteSet(runs')
    BY <1>1, FS_AddElement DEF QueueType
  <2> QED
    BY <1>1, <1>3, <2>1 DEF QueueType
<1>5. OneRun'
  BY <1>1, <1>2, <1>3 DEF OneRun
<1>6. Asked' /\ Dropped'
  BY <1>1, <1>3 DEF Asked, Dropped
<1>7. QueuedNotLost'
  BY <1>1 DEF QueuedNotLost, Unread
<1> QED
  BY <1>4, <1>5, <1>6, <1>7

LEMMA UserKeeps ==
    QueueInv /\ (\/ \E i \in 1 .. Len(queue) : Moves(i) \/ Removes(i) \/ SendsNow(i)
                 \/ ClearsAll \/ Saves) => QueueInv'
<1> SUFFICES ASSUME QueueInv PROVE
        (\/ \E i \in 1 .. Len(queue) : Moves(i) \/ Removes(i) \/ SendsNow(i)
         \/ ClearsAll \/ Saves) => QueueInv'
  OBVIOUS
<1>1. queue \in Seq(Ids) /\ queueDraft \in Ids /\ 0 \in Ids /\ <<>> \in Seq(Ids)
  BY DEF QueueInv, QueueType, Ids
<1>2. ASSUME NEW i \in 1 .. Len(queue), Moves(i) PROVE QueueInv'
  <2>1. queue[i] \in Ids /\ MovedUp(queue, i) \in Seq(Ids)
    BY <1>1, <1>2 DEF Moves, MovedUp
  <2> QED
    BY <1>2, <2>1, OrderedKeeps DEF Moves, Kinds
<1>3. ASSUME NEW i \in 1 .. Len(queue), Removes(i) \/ SendsNow(i) PROVE QueueInv'
  <2>1. queue[i] \in Ids
    BY <1>1
  <2>2. \E kind \in Kinds : Ordered(kind, queue[i], <<>>)
    BY <1>3 DEF Removes, SendsNow, Kinds
  <2> QED
    BY <1>1, <2>1, <2>2, OrderedKeeps
<1>4. ASSUME ClearsAll \/ Saves PROVE QueueInv'
  <2>1. \E kind \in Kinds, id \in Ids : Ordered(kind, id, <<>>)
    BY <1>1, <1>4 DEF ClearsAll, Saves, Kinds
  <2> QED
    BY <1>1, <2>1, OrderedKeeps
<1> QED
  BY <1>2, <1>3, <1>4

\* The run of an order ends with an answer for the rows.
LEMMA RunEndsTyped ==
    ASSUME QueueType, NEW r \in Runs, NEW ok \in BOOLEAN, RunEnds(r, ok)
    PROVE  queueDraft' \in Ids
BY DEF RunEnds, QueueType, Ids

\* Fewer runs under way are finite, and no two of them are the same.
LEMMA RunLeaves ==
    ASSUME QueueType, OneRun, NEW r \in runs, runs' = runs \ {r}
    PROVE  runs' \subseteq Runs /\ IsFiniteSet(runs') /\ OneRun'
<1>1. IsFiniteSet(runs')
  BY FS_RemoveElement DEF QueueType
<1> QED
  BY <1>1 DEF QueueType, OneRun

\* The host writes an order: an interjection then waits for the answer of grok.
LEMMA HostWritesKeeps ==
    ASSUME QueueInv, NEW r \in runs, HostWrites(r)
    PROVE  QueueInv'
<1> USE DEF QueueInv
<1> DEFINE o == Order(r.kind, r.id, r.ids, r.n)
           asked == [r EXCEPT !.st = "asked"]
<1>1. /\ r.st = "called" /\ stdin' = stdin \o <<o>>
      /\ UNCHANGED <<fate, dispatch, entries, turn, ran, wire, sending, queue>>
      /\ IF r.kind = "interject" THEN runs' = (runs \ {r}) \cup {asked} /\ queueDraft' = queueDraft
         ELSE runs' = runs \ {r} /\ RunEnds(r, TRUE)
  BY DEF HostWrites, Written
<1>2. r \in Runs
  BY DEF QueueType
<1>3. /\ o \in QueueOrders /\ o.kind = r.kind /\ o.kind \notin {"prompt", "drop"} /\ o.n = r.n
      /\ asked \in Runs /\ asked.st = "asked" /\ asked.n = r.n
      /\ o = Order(asked.kind, asked.id, asked.ids, asked.n)
  BY <1>2 DEF Order, QueueOrders, Runs, Kinds
<1>4. r.kind = "interject" => o \notin ToSet(stdin)
  <2> SUFFICES ASSUME r.kind = "interject", o \in ToSet(stdin) PROVE FALSE
    OBVIOUS
  <2>1. PICK q \in runs : q.st = "asked" /\ o = Order("interject", q.id, q.ids, q.n)
    BY <1>3 DEF Asked
  <2>2. q.n = r.n
    BY <1>3, <2>1 DEF Order
  <2> QED
    BY <1>1, <2>1, <2>2 DEF OneRun
<1> HIDE DEF o, asked
<1>5. stdin' = Append(stdin, o)
  BY <1>1, <1>3 DEF QueueType
<1>6. /\ stdin' \in Seq(QueueOrders) /\ ToSet(stdin') = ToSet(stdin) \cup {o}
      /\ Unread' = Unread /\ Once(stdin', Interjects)
  BY <1>3, <1>4, <1>5, UnreadAppend DEF QueueType, Asked
<1>7. runs' \subseteq Runs /\ IsFiniteSet(runs') /\ OneRun' /\ queueDraft' \in Ids
  <2>1. CASE r.kind = "interject"
    <3>1. IsFiniteSet(runs')
      <4> DEFINE others == runs \ {r}
      <4>1. IsFiniteSet(others)
        BY FS_RemoveElement DEF QueueType
      <4>2. runs' = others \cup {asked}
        BY <1>1, <2>1
      <4> HIDE DEF others
      <4> QED
        BY <4>1, <4>2, FS_AddElement
    <3> QED
      BY <1>1, <1>3, <2>1, <3>1 DEF QueueType, OneRun
  <2>2. CASE r.kind # "interject"
    BY <1>1, <1>2, <2>2, RunLeaves, RunEndsTyped
  <2> QED
    BY <2>1, <2>2
<1>8. QueueType'
  BY <1>1, <1>6, <1>7 DEF QueueType
<1>9. \A q \in runs : q.st # "called" => q \in runs'
  BY <1>1
<1>10. Asked'
  <2> SUFFICES ASSUME NEW p \in ToSet(stdin'), p.kind = "interject"
               PROVE  \E q \in runs' : q.st = "asked" /\ p = Order("interject", q.id, q.ids, q.n)
    BY <1>6 DEF Asked
  <2>1. CASE p \in ToSet(stdin)
    <3>1. PICK q \in runs : q.st = "asked" /\ p = Order("interject", q.id, q.ids, q.n)
      BY <2>1 DEF Asked
    <3> QED
      BY <1>9, <3>1
  <2>2. CASE p = o
    <3>1. r.kind = "interject"
      BY <1>3, <2>2
    <3>2. asked \in runs' /\ asked.kind = "interject"
      BY <1>1, <3>1, <1>2 DEF asked, Runs
    <3> QED
      BY <1>3, <2>2, <3>2
  <2> QED
    BY <1>6, <2>1, <2>2
<1>11. Dropped'
  <2>1. \A q \in runs' : q.st = "done" => q \in runs
    BY <1>1, <1>3
  <2> QED
    BY <1>1, <1>3, <1>6, <2>1 DEF Dropped
<1>12. QueuedNotLost'
  BY <1>1, <1>6 DEF QueuedNotLost
<1> QED
  BY <1>7, <1>8, <1>10, <1>11, <1>12

\* The host drops the entry of an interjection that grok took.
LEMMA HostDropsKeeps ==
    ASSUME QueueInv, NEW r \in runs, HostDrops(r)
    PROVE  QueueInv'
<1> USE DEF QueueInv
<1> DEFINE o == Order("drop", r.id, <<>>, 0)
<1>1. /\ r.st = "done" /\ stdin' = Append(stdin, o)
      /\ runs' = runs \ {r} /\ RunEnds(r, TRUE)
      /\ UNCHANGED <<fate, dispatch, entries, turn, ran, wire, sending, queue>>
  BY DEF HostDrops
<1>2. r \in Runs
  BY DEF QueueType
<1>3. o \in QueueOrders /\ o.kind = "drop" /\ o.id = r.id
  <2>1. <<>> \in Seq(Ids) /\ 0 \in Nat
    OBVIOUS
  <2> QED
    BY <1>2, <2>1 DEF Order, QueueOrders, Runs
<1> HIDE DEF o
<1>4. /\ stdin' \in Seq(QueueOrders) /\ ToSet(stdin') = ToSet(stdin) \cup {o}
      /\ Unread' = Unread /\ Once(stdin', Interjects)
  BY <1>1, <1>3, UnreadAppend DEF QueueType, Asked
<1>5. runs' \subseteq Runs /\ IsFiniteSet(runs') /\ OneRun' /\ queueDraft' \in Ids
  BY <1>1, <1>2, RunLeaves, RunEndsTyped
<1>6. QueueType'
  BY <1>1, <1>4, <1>5 DEF QueueType
<1>7. \A q \in runs : q.st = "asked" => q \in runs'
  BY <1>1
<1>8. Asked'
  BY <1>3, <1>4, <1>7 DEF Asked
<1>9. Dropped'
  BY <1>1, <1>3, <1>4 DEF Dropped
<1>10. QueuedNotLost'
  BY <1>1, <1>4 DEF QueuedNotLost
<1> QED
  BY <1>5, <1>6, <1>8, <1>9, <1>10

\* An order that is refused, or cannot be made, asks grok nothing any more.
LEMMA HostFailsKeeps ==
    ASSUME QueueInv, NEW r \in runs, HostFails(r)
    PROVE  QueueInv'
<1> USE DEF QueueInv
<1>1. /\ r.st \in {"refused", "called"} /\ runs' = runs \ {r} /\ RunEnds(r, FALSE)
      /\ UNCHANGED <<fate, dispatch, stdin, entries, turn, ran, wire, sending, queue>>
  BY DEF HostFails, grokVars
<1>2. r \in Runs
  BY DEF QueueType
<1>3. runs' \subseteq Runs /\ IsFiniteSet(runs') /\ OneRun' /\ queueDraft' \in Ids
  BY <1>1, <1>2, RunLeaves, RunEndsTyped
<1>4. QueueType'
  BY <1>1, <1>3 DEF QueueType
<1>5. \A q \in runs : q.st = "asked" => q \in runs'
  BY <1>1
<1>6. Asked' /\ Dropped'
  BY <1>1, <1>5 DEF Asked, Dropped
<1>7. QueuedNotLost'
  BY <1>1 DEF QueuedNotLost, Unread
<1> QED
  BY <1>3, <1>4, <1>6, <1>7

-----------------------------------------------------------------------------
\* Every step keeps all of it.
LEMMA QueueStep ==
    ASSUME QueueInv, [QueueNext]_<<queueVars, left>>
    PROVE  QueueInv'
<1>1. CASE Submit
  BY <1>1, SubmitKeeps
<1>2. CASE SendFails \/ \E m \in Messages, told \in BOOLEAN : DispatchFails(m, told)
  BY <1>2, HostKeeps
<1>3. CASE HostServes
  <2>1. CASE SendAccepted \/ \E m \in Messages : DispatchWrites(m)
    BY <2>1, HostKeeps
  <2>2. CASE \E r \in runs : HostWrites(r) \/ HostDrops(r)
    BY <2>2, HostWritesKeeps, HostDropsKeeps
  <2> QED
    BY <1>3, <2>1, <2>2 DEF HostServes
<1>4. CASE \E r \in runs : HostFails(r)
  BY <1>4, HostFailsKeeps
<1>5. CASE GrokReads
  <2>1. TakesPrompt(Head(stdin)) \/ TakesOrder(Head(stdin)) \/ TakesInterject(Head(stdin))
    BY <1>5 DEF GrokReads
  <2> QED
    BY <1>5, <2>1, TakesPromptKeeps, TakesOrderKeeps, TakesInterjectKeeps
<1>6. CASE TurnEnds \/ ConnectionLost
  BY <1>6, TurnEndsKeeps, ConnectionLostKeeps
<1>7. CASE EventArrives \/ Select \/ TimeIsUp \/ AckTimeout \/ UnlockTimer \/ UNCHANGED <<queueVars, left>>
  BY <1>7, WindowSteps
<1>8. CASE RowClicks \/ ClearsAll \/ Saves
  BY <1>8, WindowSteps, UserKeeps DEF RowClicks
<1> QED
  BY <1>1, <1>2, <1>3, <1>4, <1>5, <1>6, <1>7, <1>8 DEF QueueNext

\* PromptQueue, the whole of it: orders have numbers of their own, an interjection that
\* is not read is one that a run waits for, only what was put into a turn is dropped.
THEOREM QueueInductive == QueueSpec => []QueueInv
<1>1. left \in Plans /\ QueueInit => QueueInv
  BY InitHolds
<1>2. QueueInv /\ [QueueNext]_<<queueVars, left>> => QueueInv'
  BY QueueStep
<1> QED
  BY <1>1, <1>2, PTL DEF QueueSpec

\* queue_interject, prompt: for any messages, plans and orders under way, a message that
\* no one removed, that did not fail in sight and was not lost with its transport has run
\* or is still going to, and an entry sent now is never dropped before it is in a turn.
THEOREM MessagesNotLost == QueueSpec => []QueuedNotLost
<1>1. QueueInv => QueuedNotLost
  BY DEF QueueInv
<1> QED
  BY <1>1, QueueInductive, PTL

-----------------------------------------------------------------------------
(* The lock over the rows, in a behaviour whose plan has orders, edits and  *)
(* refusals of any number, and nothing else that changes the queue.        *)

OrdersAlone(plan) ==
    \A what \in {"sends", "ends", "losses", "lates", "selects"} : what \in DOMAIN plan /\ plan[what] = 0
OrdersSpec == left \in Plans /\ OrdersAlone(left) /\ QueueInit /\ [][QueueNext]_<<queueVars, left>>

Echoes(q) == \A i \in 1 .. Len(q) : q[i].kind = "echo"
OneSwap(ids) == \E i \in 2 .. Len(entries) : ids = MovedUp(entries, i)

\* Where the one order under way is.  The rows show grok's queue from the moment they are
\* unlocked until grok reads an order, and its report unlocks them again.
Unlocked == ~busyKey /\ runs = {} /\ stdin = <<>> /\ Echoes(wire) /\ queue = entries
AtHost ==
    /\ busyKey /\ stdin = <<>> /\ Echoes(wire) /\ queue = entries
    /\ \E r \in runs : /\ runs = {r} /\ r.st \in {"called", "done"}
                       /\ r.st = "called" /\ r.kind = "reorder" => OneSwap(r.ids)
AtGrok ==
    /\ busyKey /\ Echoes(wire) /\ queue = entries
    /\ \E o \in ToSet(stdin) :
         /\ stdin = <<o>> /\ o.kind # "prompt"
         /\ o.kind = "interject" => \E r \in runs : runs = {r} /\ r.st = "asked" /\ r.n = o.n
         /\ o.kind # "interject" => runs = {}
         /\ o.kind = "reorder" => OneSwap(o.ids)
Awaited ==
    /\ busyKey /\ runs = {} /\ stdin = <<>>
    /\ wire # <<>> /\ wire[Len(wire)] = Report(entries)
    /\ \A i \in 1 .. Len(wire) - 1 : wire[i].kind = "echo"

LockInv ==
    /\ OrdersAlone(left) /\ turn # Idle /\ dispatch = {} /\ sending = 0
    /\ Unlocked \/ AtHost \/ AtGrok \/ Awaited

\* A sequence of one, and what is under way, have the types of their elements.
LEMMA OneElement == \A o : ToSet(<<o>>) = {o}
  BY DEF ToSet

LEMMA UnderWayTyped ==
    ASSUME QueueInv
    PROVE  runs \subseteq Runs /\ ToSet(stdin) \subseteq QueueOrders
  BY DEF QueueInv, QueueType, ToSet

\* A plan of orders alone stays one, and allows nothing else.
LEMMA AloneKept ==
    ASSUME OrdersAlone(left), UNCHANGED left \/ \E what \in {"orders", "edits", "refusals"} : Spend(what)
    PROVE  OrdersAlone(left')
  BY DEF OrdersAlone, Spend, May

LEMMA AloneBars ==
    ASSUME OrdersAlone(left)
    PROVE  \A what \in {"sends", "ends", "losses", "lates", "selects"} : ~Spend(what)
  BY DEF OrdersAlone, Spend, May

\* The user orders: the run that is made is the only one, of the queue grok has.
LEMMA OrderMade ==
    ASSUME QueueInv, QueueInv', LockInv, NEW kind \in Kinds, NEW id, NEW ids, Ordered(kind, id, ids),
           kind = "reorder" => \E i \in 2 .. Len(queue) : ids = MovedUp(queue, i)
    PROVE  LockInv'
<1> DEFINE r == Run(kind, id, ids, FreshNumber(runs))
<1>1. /\ Unlocked /\ busyKey' /\ runs' = {r} /\ Spend("orders")
      /\ UNCHANGED <<stdin, wire, queue, entries, turn, dispatch, sending>>
  BY DEF LockInv, AtHost, AtGrok, Awaited, Ordered, Unlocked, grokVars
<1>2. r.st = "called" /\ r.kind = kind /\ r.ids = ids
  BY DEF Run
<1>3. r \in Runs
  BY <1>1 DEF QueueInv, QueueType
<1> HIDE DEF r
<1>4. kind = "reorder" => OneSwap(ids)'
  BY <1>1 DEF Unlocked, OneSwap, MovedUp
<1>5. AtHost'
  BY <1>1, <1>2, <1>3, <1>4 DEF AtHost, Unlocked, OneSwap, Echoes
<1>6. OrdersAlone(left')
  BY <1>1, AloneKept DEF LockInv
<1>7. QED
  BY <1>1, <1>5, <1>6 DEF LockInv

\* What arrives: an echo leaves the rows, and the report unlocks them.
LEMMA ArrivalKeepsLock ==
    ASSUME QueueInv, LockInv, EventArrives
    PROVE  LockInv'
<1>1. /\ wire \in Seq(Events) /\ wire # <<>> /\ wire' = Tail(wire)
      /\ UNCHANGED <<stdin, entries, runs, turn, dispatch, sending, left>>
      /\ Head(wire).kind # "queue" => UNCHANGED <<queue, busyKey>>
      /\ Head(wire).kind = "queue" => queue' = Head(wire).ids /\ ~busyKey'
  BY DEF EventArrives, QueueInv, QueueType, rowVars
<1>2. Len(wire) \in Nat \ {0} /\ Head(wire) = wire[1] /\ Len(wire') = Len(wire) - 1
      /\ \A i \in 1 .. Len(wire) - 1 : wire'[i] = wire[i + 1]
  BY <1>1
<1>3. CASE Echoes(wire)
  <2>1. Head(wire).kind = "echo" /\ Echoes(wire')
    BY <1>2, <1>3 DEF Echoes
  <2>2. QED
    BY <1>1, <2>1, <1>3 DEF LockInv, Unlocked, AtHost, AtGrok, Awaited, OneSwap, OrdersAlone, Report, Echoes
<1>4. CASE Awaited
  <2>1. CASE Len(wire) = 1
    <3>1. Head(wire) = Report(entries) /\ Len(wire') = 0
      BY <1>2, <1>4, <2>1 DEF Awaited
    <3>2. Unlocked'
      BY <1>1, <1>4, <3>1 DEF Awaited, Unlocked, Report, Echoes
    <3>3. QED
      BY <1>1, <3>2 DEF LockInv, OrdersAlone
  <2>2. CASE Len(wire) # 1
    <3>1. Head(wire).kind = "echo"
      BY <1>2, <1>4, <2>2 DEF Awaited
    <3>2. wire'[Len(wire')] = wire[Len(wire)] /\ Len(wire') # 0
      BY <1>2, <2>2
    <3>3. \A i \in 1 .. Len(wire') - 1 : wire'[i].kind = "echo"
      BY <1>2, <1>4, <2>2 DEF Awaited
    <3>4. Awaited'
      BY <1>1, <1>4, <3>1, <3>2, <3>3 DEF Awaited, Report
    <3>5. QED
      BY <1>1, <3>4 DEF LockInv, OrdersAlone
  <2>3. QED
    BY <2>1, <2>2
<1>5. QED
  BY <1>3, <1>4 DEF LockInv, Unlocked, AtHost, AtGrok

\* grok reads an order: it reports the queue that leaves, or answers an interjection.
LEMMA ReadKeepsLock ==
    ASSUME QueueInv, QueueInv', LockInv, GrokReads
    PROVE  LockInv'
<1>1. /\ stdin # <<>> /\ stdin' = Tail(stdin)
      /\ UNCHANGED <<dispatch, queue, sending, busyKey, left>>
  BY DEF GrokReads, windowVars
<1>2. PICK o \in QueueOrders : /\ stdin = <<o>> /\ o.kind # "prompt"
                               /\ o.kind = "interject" => \E r \in Runs : runs = {r} /\ r.st = "asked" /\ r.n = o.n
                               /\ o.kind # "interject" => runs = {}
  <2>1. AtGrok
    BY <1>1 DEF LockInv, Unlocked, AtHost, Awaited
  <2>2. QED
    BY <2>1, UnderWayTyped DEF AtGrok
<1>3. busyKey /\ Echoes(wire) /\ queue = entries /\ turn # Idle /\ OrdersAlone(left) /\ dispatch = {} /\ sending = 0
  BY <1>1 DEF LockInv, Unlocked, AtHost, AtGrok, Awaited
<1>4. Head(stdin) = o /\ stdin' = <<>>
  BY <1>1, <1>2
<1>5. wire \in Seq(Events)
  BY DEF QueueInv, QueueType
<1>6. CASE TakesOrder(o)
  <2>1. wire' = (wire \o <<Report(entries')>>) \o <<>> /\ UNCHANGED <<turn, runs>> /\ o.kind # "interject"
    BY <1>6 DEF TakesOrder, Reports
  <2>2. wire' = Append(wire, Report(entries'))
    BY <2>1, <1>5
  <2>3. /\ wire' # <<>> /\ wire'[Len(wire')] = Report(entries')
        /\ \A i \in 1 .. Len(wire') - 1 : wire'[i].kind = "echo"
    BY <2>2, <1>3, <1>5 DEF Echoes
  <2>4. Awaited'
    BY <1>1, <1>2, <1>3, <1>4, <2>1, <2>3 DEF Awaited, Report
  <2>5. QED
    BY <1>1, <1>3, <2>1, <2>4 DEF LockInv, OrdersAlone
<1>7. CASE TakesInterject(o)
  <2>1. PICK r \in Runs : runs = {r} /\ r.st = "asked" /\ r.n = o.n
    BY <1>2, <1>7 DEF TakesInterject
  <2>2. wire' = Append(wire, Told("echo", o.id)) /\ runs' = {AnsweredBy(o, r)} /\ UNCHANGED <<entries, turn>>
    BY <1>3, <1>7, <2>1 DEF TakesInterject
  <2>3. AnsweredBy(o, r).st = "done"
    BY <1>3, <2>1 DEF AnsweredBy, Runs
  <2>4. AnsweredBy(o, r) \in Runs
    BY <2>2 DEF QueueInv, QueueType
  <2>5. Echoes(wire')
    BY <1>3, <1>5, <2>2 DEF Echoes, Told
  <2>6. AtHost'
    BY <1>1, <1>3, <1>4, <2>2, <2>3, <2>4, <2>5 DEF AtHost
  <2>7. QED
    BY <1>1, <1>3, <2>2, <2>6 DEF LockInv, OrdersAlone
<1>8. QED
  BY <1>2, <1>4, <1>6, <1>7 DEF GrokReads, TakesPrompt

\* The host writes an order, drops what was interjected, or fails.
LEMMA HostKeepsLock ==
    ASSUME QueueInv, QueueInv', LockInv, NEW r, HostWrites(r) \/ HostDrops(r) \/ HostFails(r)
    PROVE  LockInv'
<1>1. /\ r \in Runs /\ runs = {r} /\ r.st \in {"called", "done"} /\ AtHost
      /\ r.st = "called" /\ r.kind = "reorder" => OneSwap(r.ids)
  <2>1. r \in runs /\ r \in Runs /\ r.st # "asked"
    BY UnderWayTyped DEF HostWrites, HostDrops, HostFails
  <2>2. ~AtGrok
    <3>1. SUFFICES ASSUME AtGrok PROVE FALSE
      OBVIOUS
    <3>2. \E q \in runs : runs = {q} /\ q.st = "asked"
      BY <2>1, <3>1 DEF AtGrok
    <3>3. QED
      BY <2>1, <3>2
  <2>3. AtHost
    BY <2>1, <2>2 DEF LockInv, Unlocked, Awaited
  <2>4. QED
    BY <2>1, <2>3 DEF AtHost
<1>2. UNCHANGED <<wire, queue, entries, turn, dispatch, sending>>
  BY DEF HostWrites, HostDrops, HostFails, grokVars
<1>3. OrdersAlone(left')
  BY AloneKept DEF HostWrites, HostDrops, HostFails, LockInv
<1>4. CASE HostWrites(r)
  <2> DEFINE o == Order(r.kind, r.id, r.ids, r.n)
  <2>1. stdin' = <<o>> /\ o \in QueueOrders /\ o.kind = r.kind /\ o.ids = r.ids /\ o.n = r.n /\ r.kind # "prompt"
    BY <1>1, <1>4 DEF HostWrites, Written, AtHost, Order, QueueOrders, Runs, Kinds
  <2>2. r.st = "called"
    BY <1>4 DEF HostWrites
  <2> HIDE DEF o
  <2>3. r.kind = "reorder" => OneSwap(r.ids)'
    BY <1>1, <1>2, <2>2 DEF OneSwap, MovedUp
  <2>4. CASE r.kind = "interject"
    <3>1. runs' = {[r EXCEPT !.st = "asked"]} /\ UNCHANGED busyKey
      BY <1>1, <1>4, <2>4 DEF HostWrites
    <3>2. [r EXCEPT !.st = "asked"] \in Runs /\ [r EXCEPT !.st = "asked"].st = "asked" /\ [r EXCEPT !.st = "asked"].n = r.n
      BY <1>1 DEF Runs
    <3>3. \E q \in runs' : runs' = {q} /\ q.st = "asked" /\ q.n = o.n
      BY <2>1, <3>1, <3>2
    <3>4. busyKey' /\ Echoes(wire)' /\ queue' = entries' /\ o \in ToSet(stdin')
      BY <1>1, <1>2, <2>1, <3>1, OneElement DEF AtHost, Echoes
    <3>5. AtGrok'
      BY <2>1, <2>4, <3>3, <3>4 DEF AtGrok
    <3>6. QED
      BY <1>2, <1>3, <3>5 DEF LockInv
  <2>5. CASE r.kind # "interject"
    <3>1. runs' = {} /\ busyKey'
      BY <1>1, <1>4, <2>5 DEF HostWrites, RunEnds, LockAfter, AtHost
    <3>2. Echoes(wire)' /\ queue' = entries' /\ o \in ToSet(stdin')
      BY <1>1, <1>2, <2>1, OneElement DEF AtHost, Echoes
    <3>3. o.kind = "reorder" => OneSwap(o.ids)'
      BY <2>1, <2>3
    <3>4. AtGrok'
      BY <2>1, <2>5, <3>1, <3>2, <3>3 DEF AtGrok, OneSwap
    <3>5. QED
      BY <1>2, <1>3, <3>4 DEF LockInv
  <2>6. QED
    BY <2>4, <2>5
<1>5. CASE HostDrops(r)
  <2> DEFINE o == Order("drop", r.id, <<>>, 0)
  <2>1. stdin' = Append(stdin, o) /\ runs' = {} /\ busyKey'
    BY <1>1, <1>5 DEF HostDrops, RunEnds, LockAfter, AtHost
  <2>2. o.kind = "drop"
    BY DEF Order
  <2> HIDE DEF o
  <2>3. stdin' = <<o>>
    BY <1>1, <2>1 DEF AtHost
  <2>4. Echoes(wire)' /\ queue' = entries' /\ o \in ToSet(stdin')
    BY <1>1, <1>2, <2>3, OneElement DEF AtHost, Echoes
  <2>5. AtGrok'
    BY <2>1, <2>2, <2>3, <2>4 DEF AtGrok
  <2>6. QED
    BY <1>2, <1>3, <2>5 DEF LockInv
<1>6. CASE HostFails(r)
  <2>1. stdin' = <<>> /\ runs' = {} /\ ~busyKey'
    BY <1>1, <1>6 DEF HostFails, RunEnds, LockAfter, AtHost, grokVars
  <2>2. Unlocked'
    BY <1>1, <1>2, <2>1 DEF Unlocked, AtHost, Echoes
  <2>3. QED
    BY <1>2, <1>3, <2>2 DEF LockInv
<1>7. QED
  BY <1>4, <1>5, <1>6

\* What the row's own state changes beside the lock.
LEMMA LockUntouched ==
    ASSUME LockInv, UNCHANGED <<busyKey, runs, stdin, wire, queue, entries, turn, dispatch, sending>>, OrdersAlone(left')
    PROVE  LockInv'
  BY DEF LockInv, Unlocked, AtHost, AtGrok, Awaited, OneSwap, Echoes, MovedUp, Report

LEMMA LockStep ==
    ASSUME QueueInv, QueueInv', LockInv, [QueueNext]_<<queueVars, left>>
    PROVE  LockInv'
<1>1. OrdersAlone(left) /\ dispatch = {} /\ sending = 0
  BY DEF LockInv
<1>2. \A what \in {"sends", "ends", "losses", "lates", "selects"} : ~Spend(what)
  BY <1>1, AloneBars
<1>3. ~Submit /\ ~SendFails /\ ~SendAccepted /\ ~TurnEnds /\ ~ConnectionLost /\ ~Select
  BY <1>1, <1>2 DEF Submit, SendFails, SendAccepted, TurnEnds, ConnectionLost, Select
<1>4. \A m \in Messages : ~DispatchWrites(m) /\ \A told \in BOOLEAN : ~DispatchFails(m, told)
  BY <1>1 DEF DispatchWrites, DispatchFails
<1>5. ~UnlockTimer
  <2>1. busyKey => ~Quiet
    BY DEF LockInv, Unlocked, AtHost, AtGrok, Awaited, Quiet
  <2>2. QED
    BY <1>2, <2>1 DEF UnlockTimer, Late
<1>6. ASSUME TimeIsUp \/ AckTimeout PROVE LockInv'
  <2>1. UNCHANGED left
    BY <1>6 DEF TimeIsUp, AckTimeout
  <2>2. QED
    BY <1>1, <1>6, <2>1, LockUntouched DEF TimeIsUp, AckTimeout, grokVars, rowVars
<1>7. ASSUME NEW i, OpensDraft(i) PROVE LockInv'
  <2>1. OrdersAlone(left')
    BY <1>1, <1>7, AloneKept DEF OpensDraft
  <2>2. QED
    BY <1>7, <2>1, LockUntouched DEF OpensDraft, grokVars
<1>8. ASSUME NEW i \in 1 .. Len(queue), Moves(i) PROVE LockInv'
  <2>1. i \in 2 .. Len(queue)
    BY <1>8 DEF Moves, QueueInv, QueueType
  <2>2. "reorder" \in Kinds /\ Ordered("reorder", queue[i], MovedUp(queue, i))
    BY <1>8 DEF Moves, Kinds
  <2>3. QED
    BY <2>1, <2>2, OrderMade
<1>9. ASSUME NEW i, Removes(i) \/ SendsNow(i) PROVE LockInv'
  <2>1. {"remove", "interject"} \subseteq Kinds
    BY DEF Kinds
  <2>2. PICK kind \in {"remove", "interject"} : Ordered(kind, queue[i], <<>>)
    BY <1>9 DEF Removes, SendsNow
  <2>3. QED
    BY <2>1, <2>2, OrderMade
<1>10. ASSUME ClearsAll \/ Saves PROVE LockInv'
  <2>1. {"clear", "edit"} \subseteq Kinds
    BY DEF Kinds
  <2>2. PICK kind \in {"clear", "edit"}, id \in {0, queueDraft} : Ordered(kind, id, <<>>)
    BY <1>10 DEF ClearsAll, Saves
  <2>3. QED
    BY <2>1, <2>2, OrderMade
<1>11. UNCHANGED <<queueVars, left>> => LockInv'
  BY <1>1, LockUntouched DEF queueVars
<1>12. CASE HostServes \/ \E r \in runs : HostFails(r)
  BY <1>3, <1>4, <1>12, HostKeepsLock DEF HostServes
<1>13. CASE RowClicks
  BY <1>7, <1>8, <1>9, <1>13 DEF RowClicks
<1>14. QED
  BY <1>3, <1>4, <1>5, <1>6, <1>10, <1>11, <1>12, <1>13, ArrivalKeepsLock, ReadKeepsLock DEF QueueNext

\* SessionDetail, the lock over the rows: however many orders the user gives, and whichever
\* the host refuses, an ordering that reaches grok is one swap away from the queue grok has.
THEOREM OrdersInTurn == OrdersSpec => []OrdersCaughtUp
<1>1. left \in Plans /\ OrdersAlone(left) /\ QueueInit => QueueInv /\ LockInv
  <2> SUFFICES ASSUME left \in Plans, OrdersAlone(left), QueueInit PROVE QueueInv /\ LockInv
    OBVIOUS
  <2>1. QueueInv
    BY InitHolds
  <2>2. turn = 0 /\ dispatch = {} /\ sending = 0 /\ ~busyKey /\ runs = {} /\ stdin = <<>> /\ wire = <<>> /\ queue = entries
    BY DEF QueueInit, OrdersAlone
  <2>3. QED
    BY <2>1, <2>2 DEF LockInv, Unlocked, Echoes, Idle
<1>2. QueueInv /\ [QueueNext]_<<queueVars, left>> => QueueInv'
  BY QueueStep
<1>3. QueueInv /\ QueueInv' /\ LockInv /\ [QueueNext]_<<queueVars, left>> => LockInv'
  BY LockStep
<1>4. LockInv => OrdersCaughtUp
  BY DEF LockInv, Unlocked, AtHost, AtGrok, Awaited, OneSwap, OrdersCaughtUp
<1>5. QED
  BY <1>1, <1>2, <1>3, <1>4, PTL DEF OrdersSpec

-----------------------------------------------------------------------------
(* The placeholder and the rows, in a behaviour with one submission to an   *)
(* empty queue, or any queue and none, and no lost connection or early      *)
(* timer; turns end, the user orders, turns to other tasks and is refused   *)
(* as often as the plan says.                                               *)

OneSubmission(plan) ==
    /\ {"sends", "losses", "lates"} \subseteq DOMAIN plan
    /\ plan["sends"] \in {0, 1} /\ plan["losses"] = 0 /\ plan["lates"] = 0
SubmissionSpec ==
    /\ left \in Plans /\ OneSubmission(left) /\ (left.queued = 0 \/ left["sends"] = 0)
    /\ QueueInit /\ [][QueueNext]_<<queueVars, left>>

\* The last report on its way, or the rows when there is none, is grok's queue.
Silent(q) == \A i \in 1 .. Len(q) : q[i].kind # "queue"
LastSays(q, ids) ==
    \E i \in 1 .. Len(q) : q[i] = Report(ids) /\ \A j \in i + 1 .. Len(q) : q[j].kind # "queue"
RowsFollow == (queue = entries /\ Silent(wire)) \/ LastSays(wire, entries)

\* What was put into a turn is in the timeline or about to be.
TurnsEchoed == \A m \in ToSet(ran) : m \in echoed \/ \E i \in 1 .. Len(wire) : wire[i] = Told("echo", m)

\* The message is not submitted, on its way behind its placeholder, or read or failed.
NoOrders == wire = <<>> /\ entries = <<>> /\ queue = <<>> /\ runs = {} /\ queueDraft = 0
Before == NoOrders /\ sending = 0 /\ dispatch = {} /\ stdin = <<>>
Carried(m) ==
    \/ sending = m /\ dispatch = {} /\ stdin = <<>>
    \/ sending = 0 /\ dispatch = {m} /\ stdin = <<>>
    \/ sending = 0 /\ dispatch = {} /\ stdin = <<Order("prompt", m, <<>>, 0)>>
Placed(m) == m \in lapsed \/ pending = [id |-> m, acked |-> FALSE, due |-> pending.due]
OnItsWay == NoOrders /\ left["sends"] = 0 /\ \E m \in Messages : Carried(m) /\ Placed(m)
Afterwards == left["sends"] = 0 /\ sending = 0 /\ dispatch = {} /\ Unread = {}

PlaceInv ==
    /\ OneSubmission(left) /\ RowsFollow /\ TurnsEchoed
    /\ Before \/ OnItsWay \/ Afterwards

\* A plan of one submission stays one, and is spent once.
LEMMA SubmissionKept ==
    ASSUME OneSubmission(left), UNCHANGED left \/ \E what : Spend(what)
    PROVE  /\ OneSubmission(left') /\ ~Spend("losses") /\ ~Spend("lates")
           /\ left["sends"] = 0 => left'["sends"] = 0 /\ ~Spend("sends")
           /\ Spend("sends") => left'["sends"] = 0
  BY DEF OneSubmission, Spend, May

\* One more event that is no report leaves the last report what it is.
LEMMA SaidAfter ==
    ASSUME NEW q \in Seq(Events), NEW e, e.kind # "queue", NEW ids
    PROVE  /\ Silent(q) => Silent(Append(q, e))
           /\ LastSays(q, ids) => LastSays(Append(q, e), ids)
           /\ \A x : (\E i \in 1 .. Len(q) : q[i] = x) => \E i \in 1 .. Len(Append(q, e)) : Append(q, e)[i] = x
           /\ \E i \in 1 .. Len(Append(q, e)) : Append(q, e)[i] = e
<1> DEFINE r == Append(q, e)
           n == Len(q)
<1>1. /\ n \in Nat /\ Len(r) = n + 1 /\ r[n + 1] = e
      /\ \A i \in 1 .. n : r[i] = q[i]
  OBVIOUS
<1> HIDE DEF r
<1>2. \A i \in 1 .. n + 1 : i = n + 1 \/ i \in 1 .. n
  BY <1>1
<1>3. \A i \in 1 .. n : i \in 1 .. Len(r)
  BY <1>1
<1>4. Silent(q) => Silent(r)
  BY <1>1, <1>2 DEF Silent
<1>5. LastSays(q, ids) => LastSays(r, ids)
  <2>1. SUFFICES ASSUME NEW i \in 1 .. n, q[i] = Report(ids), \A j \in i + 1 .. n : q[j].kind # "queue"
                 PROVE  LastSays(r, ids)
    BY DEF LastSays
  <2>2. ASSUME NEW j \in i + 1 .. Len(r) PROVE r[j].kind # "queue"
    <3>1. CASE j = n + 1
      BY <1>1, <3>1
    <3>2. CASE j # n + 1
      <4>1. j \in i + 1 .. n /\ j \in 1 .. n
        BY <1>1, <2>2, <3>2
      <4>2. QED
        BY <1>1, <2>1, <4>1
    <3>3. QED
      BY <3>1, <3>2
  <2>3. r[i] = Report(ids) /\ i \in 1 .. Len(r)
    BY <1>1, <1>3, <2>1
  <2>4. QED
    BY <2>2, <2>3 DEF LastSays
<1>6. \A x : (\E i \in 1 .. n : q[i] = x) => \E i \in 1 .. Len(r) : r[i] = x
  BY <1>1, <1>3
<1>7. \E i \in 1 .. Len(r) : r[i] = e
  BY <1>1
<1>8. QED
  BY <1>4, <1>5, <1>6, <1>7 DEF r

\* Steps that leave the rows, grok's queue and its turns, and say nothing of them.
LEMMA FollowUnchanged ==
    ASSUME RowsFollow, TurnsEchoed, UNCHANGED <<queue, entries, ran, echoed>>, wire \in Seq(Events),
           wire' = wire \/ \E e : e.kind # "queue" /\ wire' = Append(wire, e)
    PROVE  RowsFollow' /\ TurnsEchoed'
<1>1. CASE wire' = wire
  BY <1>1 DEF RowsFollow, TurnsEchoed, Silent, LastSays, Report, Told
<1>2. ASSUME NEW e, e.kind # "queue", wire' = Append(wire, e) PROVE RowsFollow' /\ TurnsEchoed'
  <2>1. /\ Silent(wire) => Silent(wire')
        /\ LastSays(wire, entries) => LastSays(wire', entries)
        /\ \A x : (\E i \in 1 .. Len(wire) : wire[i] = x) => \E i \in 1 .. Len(wire') : wire'[i] = x
    BY <1>2, SaidAfter
  <2>2. RowsFollow'
    BY <2>1 DEF RowsFollow, LastSays, Report
  <2>3. TurnsEchoed'
    BY <2>1 DEF TurnsEchoed, Told
  <2>4. QED
    BY <2>2, <2>3
<1>3. QED
  BY <1>1, <1>2

\* grok reports its queue, and echoes what it has put into a turn.
LEMMA ReportFollows ==
    ASSUME TurnsEchoed, UNCHANGED echoed, wire \in Seq(Events), NEW said, said \in Seq(Events),
           \A i \in 1 .. Len(said) : said[i].kind # "queue",
           Report(entries') \in Events, wire' = (wire \o <<Report(entries')>>) \o said,
           \A m \in ToSet(ran') : m \in ToSet(ran) \/ \E i \in 1 .. Len(said) : said[i] = Told("echo", m)
    PROVE  RowsFollow' /\ TurnsEchoed'
<1> DEFINE k == Len(wire) + 1
<1>1. /\ Len(wire) \in Nat /\ Len(said) \in Nat /\ k \in Nat /\ Len(wire') = k + Len(said) /\ wire'[k] = Report(entries')
      /\ \A i \in 1 .. Len(wire) : wire'[i] = wire[i]
      /\ \A i \in 1 .. Len(said) : wire'[k + i] = said[i]
  OBVIOUS
<1> HIDE DEF k
<1>2. \A j \in k + 1 .. Len(wire') : j - k \in 1 .. Len(said) /\ j = k + (j - k)
  BY <1>1
<1>3. \A j \in k + 1 .. Len(wire') : wire'[j].kind # "queue"
  BY <1>1, <1>2
<1>4. k \in 1 .. Len(wire')
  BY <1>1 DEF k
<1>5. LastSays(wire', entries')
  BY <1>1, <1>3, <1>4 DEF LastSays
<1>6. \A i \in 1 .. Len(said) : k + i \in 1 .. Len(wire')
  BY <1>1
<1>7. \A i \in 1 .. Len(wire) : i \in 1 .. Len(wire')
  BY <1>1 DEF k
<1>8. TurnsEchoed'
  <2>1. SUFFICES ASSUME NEW m \in ToSet(ran'), m \notin echoed
                 PROVE  \E i \in 1 .. Len(wire') : wire'[i] = Told("echo", m)
    BY DEF TurnsEchoed, Told
  <2>2. CASE m \in ToSet(ran)
    <3>1. PICK i \in 1 .. Len(wire) : wire[i] = Told("echo", m)
      BY <2>1, <2>2 DEF TurnsEchoed
    <3>2. QED
      BY <1>1, <1>7, <3>1
  <2>3. CASE \E i \in 1 .. Len(said) : said[i] = Told("echo", m)
    BY <1>1, <1>6, <2>3
  <2>4. QED
    BY <2>2, <2>3
<1>9. QED
  BY <1>5, <1>8 DEF RowsFollow, LastSays, Report

\* A message is put into a turn, of which grok says no more.
LEMMA EchoFollows ==
    ASSUME RowsFollow, TurnsEchoed, UNCHANGED <<queue, entries, echoed>>, wire \in Seq(Events), ran \in Seq(Ids),
           NEW m \in Ids, ran' = Append(ran, m), wire' = Append(wire, Told("echo", m))
    PROVE  RowsFollow' /\ TurnsEchoed'
<1>1. Told("echo", m).kind # "queue"
  BY DEF Told
<1>2. ToSet(ran') = ToSet(ran) \cup {m}
  BY AppendMembers
<1>3. \A x : x = Told("echo", m) \/ (\E i \in 1 .. Len(wire) : wire[i] = x) => \E i \in 1 .. Len(wire') : wire'[i] = x
  BY <1>1, SaidAfter
<1>4. TurnsEchoed'
  BY <1>2, <1>3 DEF TurnsEchoed, Told
<1>5. /\ Silent(wire) => Silent(wire')
      /\ LastSays(wire, entries) => LastSays(wire', entries)
  BY <1>1, SaidAfter
<1>6. QED
  BY <1>4, <1>5 DEF RowsFollow, LastSays, Report

\* The window receives an event: the rows follow it, the timeline has its echo.
LEMMA ArrivalFollows ==
    ASSUME QueueInv, RowsFollow, TurnsEchoed, EventArrives
    PROVE  RowsFollow' /\ TurnsEchoed'
<1>1. /\ wire \in Seq(Events) /\ wire # <<>> /\ wire' = Tail(wire) /\ UNCHANGED <<entries, ran>>
      /\ Head(wire).kind # "queue" => UNCHANGED queue
      /\ Head(wire).kind = "queue" => queue' = Head(wire).ids
      /\ echoed' = IF Head(wire).kind = "echo" THEN echoed \cup {Head(wire).id} ELSE echoed
  BY DEF EventArrives, QueueInv, QueueType, rowVars
<1>2. /\ Len(wire) \in Nat \ {0} /\ Head(wire) = wire[1] /\ Len(wire') = Len(wire) - 1
      /\ \A i \in 1 .. Len(wire') : wire'[i] = wire[i + 1] /\ i + 1 \in 1 .. Len(wire)
      /\ \A i \in 2 .. Len(wire) : i - 1 \in 1 .. Len(wire') /\ wire'[i - 1] = wire[i]
  BY <1>1
<1>3. TurnsEchoed'
  <2>1. SUFFICES ASSUME NEW m \in ToSet(ran), m \notin echoed'
                 PROVE  \E i \in 1 .. Len(wire') : wire'[i] = Told("echo", m)
    BY <1>1 DEF TurnsEchoed, Told
  <2>2. PICK i \in 1 .. Len(wire) : wire[i] = Told("echo", m)
    BY <1>1, <2>1 DEF TurnsEchoed
  <2>3. i # 1
    BY <1>1, <1>2, <2>1, <2>2 DEF Told
  <2>4. i \in 2 .. Len(wire)
    BY <1>2, <2>3
  <2>5. QED
    BY <1>2, <2>2, <2>4
<1>4. CASE queue = entries /\ Silent(wire)
  <2>1. Head(wire).kind # "queue" /\ Silent(wire')
    BY <1>2, <1>4 DEF Silent
  <2>2. QED
    BY <1>1, <1>3, <1>4, <2>1 DEF RowsFollow, Silent
<1>5. CASE LastSays(wire, entries)
  <2>1. PICK i \in 1 .. Len(wire) : wire[i] = Report(entries) /\ \A j \in i + 1 .. Len(wire) : wire[j].kind # "queue"
    BY <1>5 DEF LastSays
  <2>2. CASE i = 1
    <3>1. queue' = entries
      BY <1>1, <1>2, <2>1, <2>2 DEF Report
    <3>2. Silent(wire')
      BY <1>2, <2>1, <2>2 DEF Silent
    <3>3. QED
      BY <1>1, <1>3, <3>1, <3>2 DEF RowsFollow
  <2>3. CASE i # 1
    <3>1. i - 1 \in 1 .. Len(wire') /\ wire'[i - 1] = Report(entries)
      BY <1>2, <2>1, <2>3
    <3>2. \A j \in (i - 1) + 1 .. Len(wire') : wire'[j].kind # "queue"
      BY <1>2, <2>1, <2>3
    <3>3. LastSays(wire', entries)
      BY <3>1, <3>2 DEF LastSays
    <3>4. QED
      BY <1>1, <1>3, <3>3 DEF RowsFollow, LastSays, Report
  <2>4. QED
    BY <2>2, <2>3
<1>6. QED
  BY <1>3, <1>4, <1>5 DEF RowsFollow

\* The message is read: it is in a turn or in the queue, and grok has said so.
LEMMA ReadFollows ==
    ASSUME QueueInv, QueueInv', RowsFollow, TurnsEchoed, GrokReads
    PROVE  RowsFollow' /\ TurnsEchoed'
<1>1. /\ wire \in Seq(Events) /\ ran \in Seq(Ids) /\ Head(stdin) \in QueueOrders /\ UNCHANGED <<queue, echoed>>
      /\ Report(entries') \in Events /\ entries' \in Seq(Ids)
  <2>1. stdin # <<>> /\ UNCHANGED <<queue, echoed>>
    BY DEF GrokReads, windowVars
  <2>2. wire \in Seq(Events) /\ ran \in Seq(Ids) /\ stdin \in Seq(QueueOrders) /\ entries' \in Seq(Ids)
    BY DEF QueueInv, QueueType
  <2>3. QED
    BY <2>1, <2>2, EventTyped
<1> DEFINE o == Head(stdin)
<1>2. o.id \in Ids
  BY <1>1 DEF QueueOrders
<1>3. ASSUME Reports(entries', <<>>), UNCHANGED ran PROVE RowsFollow' /\ TurnsEchoed'
  <2> DEFINE none == <<>>
  <2>1. none \in Seq(Events) /\ Len(none) = 0
    OBVIOUS
  <2>2. wire' = (wire \o <<Report(entries')>>) \o none
    BY <1>3 DEF Reports
  <2> HIDE DEF none
  <2>3. /\ \A i \in 1 .. Len(none) : none[i].kind # "queue"
        /\ \A m \in ToSet(ran') : m \in ToSet(ran)
    BY <1>3, <2>1
  <2>4. QED
    BY <1>1, <2>1, <2>2, <2>3, ReportFollows
<1> HIDE DEF o
<1>4. CASE TakesPrompt(o)
  <2>1. CASE turn = Idle
    BY <1>1, <1>2, <1>4, <2>1, EchoFollows DEF TakesPrompt, Starts
  <2>2. CASE turn # Idle
    BY <1>3, <1>4, <2>2 DEF TakesPrompt, Reports
  <2>3. QED
    BY <2>1, <2>2
<1>5. CASE TakesOrder(o)
  BY <1>3, <1>5 DEF TakesOrder, Reports
<1>6. CASE TakesInterject(o)
  <2>1. CASE turn = Idle
    BY <1>1, <1>6, <2>1, FollowUnchanged DEF TakesInterject
  <2>2. CASE turn # Idle
    BY <1>1, <1>2, <1>6, <2>2, EchoFollows DEF TakesInterject
  <2>3. QED
    BY <2>1, <2>2
<1>7. QED
  BY <1>4, <1>5, <1>6 DEF GrokReads, o

\* A turn ends, and the next entry starts one.
LEMMA NextTurnFollows ==
    ASSUME QueueInv, QueueInv', RowsFollow, TurnsEchoed, TurnEnds
    PROVE  RowsFollow' /\ TurnsEchoed'
<1>1. /\ wire \in Seq(Events) /\ ran \in Seq(Ids) /\ entries \in Seq(Ids) /\ entries' \in Seq(Ids) /\ UNCHANGED <<queue, echoed>>
  BY DEF TurnEnds, QueueInv, QueueType, windowVars
<1>2. CASE entries = <<>>
  BY <1>1, <1>2, FollowUnchanged DEF TurnEnds
<1>3. CASE entries # <<>>
  <2> DEFINE m == Head(entries)
             said == <<Told("echo", m)>>
  <2>1. m \in Ids
    BY <1>1, <1>3
  <2>2. /\ ran' = Append(ran, m) /\ entries' = Tail(entries)
        /\ wire' = (wire \o <<Report(entries')>>) \o said
    BY <1>1, <1>3 DEF TurnEnds, Starts, Reports
  <2>3. Told("echo", m) \in Events /\ Report(entries') \in Events /\ Told("echo", m).kind # "queue"
    BY <1>1, <2>1, EventTyped DEF Told
  <2> HIDE DEF m
  <2>4. said \in Seq(Events) /\ Len(said) = 1 /\ said[1] = Told("echo", m)
    BY <2>3
  <2>5. ToSet(ran') = ToSet(ran) \cup {m}
    BY <1>1, <2>1, <2>2, AppendMembers
  <2> HIDE DEF said
  <2>6. \A i \in 1 .. Len(said) : said[i].kind # "queue"
    BY <2>3, <2>4
  <2>7. \A p \in ToSet(ran') : p \in ToSet(ran) \/ \E i \in 1 .. Len(said) : said[i] = Told("echo", p)
    BY <2>4, <2>5
  <2>8. QED
    BY <1>1, <2>2, <2>3, <2>4, <2>6, <2>7, ReportFollows
<1>4. QED
  BY <1>2, <1>3

\* A step that leaves the message where it is on its way, or where it ended.
LEMMA PlaceUntouched ==
    ASSUME PlaceInv, RowsFollow', TurnsEchoed', OneSubmission(left'), left["sends"] = 0 => left'["sends"] = 0,
           UNCHANGED <<sending, dispatch, stdin>>,
           NoOrders => NoOrders', OnItsWay => \A m : Placed(m) => Placed(m)'
    PROVE  PlaceInv'
<1>1. Before => Before'
  BY DEF Before
<1>2. OnItsWay => OnItsWay'
  BY DEF OnItsWay, Carried
<1>3. Afterwards => Afterwards'
  BY DEF Afterwards, Unread
<1>4. QED
  BY <1>1, <1>2, <1>3 DEF PlaceInv

\* What grok reads when it is no prompt leaves no prompt to be read.
LEMMA Read ==
    ASSUME QueueInv, stdin # <<>>, stdin' = Tail(stdin)
    PROVE  /\ Unread = {} => Unread' = {}
           /\ \A o : stdin = <<o>> => Unread' = {}
<1>1. stdin \in Seq(QueueOrders)
  BY DEF QueueInv, QueueType
<1>2. ToSet(stdin') \subseteq ToSet(stdin)
  BY <1>1 DEF ToSet
<1>3. \A o : stdin = <<o>> => ToSet(stdin') = {}
  BY NoneInEmpty
<1>4. QED
  BY <1>2, <1>3 DEF Unread

\* One more order that is no prompt leaves no prompt to be read.
LEMMA WrittenUnread ==
    ASSUME QueueInv, NEW o, o \in QueueOrders, o.kind # "prompt", stdin' = Append(stdin, o), Unread = {}
    PROVE  Unread' = {}
<1>1. stdin \in Seq(QueueOrders)
  BY DEF QueueInv, QueueType
<1>2. ToSet(stdin') = ToSet(stdin) \cup {o}
  BY <1>1, AppendMembers
<1>3. QED
  BY <1>2 DEF Unread

\* The message is submitted, and its placeholder shown.
LEMMA SubmitPlaces ==
    ASSUME QueueInv, PlaceInv, Submit
    PROVE  PlaceInv'
<1>1. Spend("sends")
  BY DEF Submit
<1>2. OneSubmission(left') /\ left'["sends"] = 0 /\ left["sends"] # 0
  BY <1>1, SubmissionKept DEF PlaceInv
<1>3. Before
  BY <1>2 DEF PlaceInv, OnItsWay, Afterwards
<1>4. wire \in Seq(Events)
  BY DEF QueueInv, QueueType
<1>5. RowsFollow' /\ TurnsEchoed'
  BY <1>4, FollowUnchanged DEF Submit, PlaceInv, rowVars
<1> DEFINE m == CHOOSE m \in Unsent : \A n \in Unsent : m <= n
<1>6. /\ m \in Messages /\ pending' = [id |-> m, acked |-> FALSE, due |-> FALSE] /\ sending' = m
      /\ UNCHANGED <<dispatch, stdin, entries, wire, queue, runs, queueDraft>>
  <2>1. Unsent # {} /\ Unsent \in SUBSET Nat /\ Unsent \subseteq Messages
    BY IdsAreNumbers DEF Submit, Unsent
  <2>2. \E n \in Unsent : \A k \in Unsent : n <= k
    BY <2>1, LeastOf
  <2>3. m \in Unsent
    BY <2>2
  <2>4. QED
    BY <2>1, <2>3 DEF Submit, rowVars
<1> HIDE DEF m
<1>7. OnItsWay'
  <2> PICK p : p = m
    OBVIOUS
  <2>1. Carried(p)' /\ NoOrders'
    BY <1>3, <1>6 DEF Carried, Before, NoOrders
  <2>2. Placed(p)'
    BY <1>6 DEF Placed
  <2>3. QED
    BY <1>2, <1>6, <2>1, <2>2 DEF OnItsWay
<1>8. QED
  BY <1>2, <1>5, <1>7 DEF PlaceInv

\* The host takes the message on or fails it, and it stays the only one.
LEMMA HostPlaces ==
    ASSUME QueueInv, PlaceInv,
           SendAccepted \/ SendFails \/ \E m : DispatchWrites(m) \/ \E told \in BOOLEAN : DispatchFails(m, told)
    PROVE  PlaceInv'
<1>1. OnItsWay /\ OneSubmission(left) /\ RowsFollow /\ TurnsEchoed
  BY DEF PlaceInv, Before, Afterwards, SendAccepted, SendFails, DispatchWrites, DispatchFails
<1>2. UNCHANGED left \/ \E what : Spend(what)
  BY DEF SendAccepted, SendFails, DispatchWrites, DispatchFails
<1>3. OneSubmission(left') /\ left'["sends"] = 0
  BY <1>1, <1>2, SubmissionKept DEF OnItsWay
<1>4. wire \in Seq(Events)
  BY DEF QueueInv, QueueType
<1>5. RowsFollow' /\ TurnsEchoed'
  <2>1. UNCHANGED <<queue, entries, ran, echoed>>
    BY DEF SendAccepted, SendFails, DispatchWrites, DispatchFails, grokVars, rowVars
  <2>2. wire' = wire \/ \E m : wire' = Append(wire, Told("failed", m))
    BY DEF SendAccepted, SendFails, DispatchWrites, DispatchFails, grokVars
  <2>3. \A m : Told("failed", m).kind # "queue"
    BY DEF Told
  <2>4. QED
    BY <1>1, <1>4, <2>1, <2>2, <2>3, FollowUnchanged
<1> PICK p \in Messages : Carried(p) /\ Placed(p)
  BY <1>1 DEF OnItsWay
<1>0. p # 0
  BY IdsAreNumbers
<1>6. CASE SendAccepted
  <2>1. sending # 0 /\ UNCHANGED <<pending, lapsed, stdin, wire, entries, queue, runs, queueDraft>>
    BY <1>6 DEF SendAccepted, Retired, grokVars, rowVars
  <2>2. sending = p /\ dispatch = {} /\ stdin = <<>>
    BY <2>1 DEF Carried
  <2>3. Carried(p)'
    BY <1>6, <2>1, <2>2 DEF SendAccepted, Carried
  <2>4. Placed(p)' /\ NoOrders'
    BY <1>1, <2>1 DEF Placed, OnItsWay, NoOrders
  <2>5. OnItsWay'
    BY <1>3, <2>3, <2>4 DEF OnItsWay
  <2>6. QED
    BY <1>3, <1>5, <2>5 DEF PlaceInv
<1>7. CASE SendFails
  <2>1. sending' = 0 /\ dispatch' = {} /\ stdin' = <<>>
    BY <1>7 DEF Carried, SendFails
  <2>2. Unread' = {}
    BY <2>1, NoneInEmpty DEF Unread
  <2>3. QED
    BY <1>3, <1>5, <2>1, <2>2 DEF PlaceInv, Afterwards
<1>8. ASSUME NEW m, DispatchWrites(m) PROVE PlaceInv'
  <2>1. /\ m = p /\ dispatch' = {} /\ sending' = 0 /\ stdin' = Append(<<>>, Order("prompt", p, <<>>, 0))
        /\ UNCHANGED <<pending, lapsed, wire, entries, queue, runs, queueDraft>>
    BY <1>0, <1>8 DEF Carried, DispatchWrites, rowVars
  <2>2. stdin' = <<Order("prompt", p, <<>>, 0)>>
    BY <2>1
  <2>3. Carried(p)' /\ Placed(p)' /\ NoOrders'
    BY <1>1, <2>1, <2>2 DEF OnItsWay, Carried, Placed, NoOrders
  <2>4. OnItsWay'
    BY <1>3, <2>3 DEF OnItsWay
  <2>5. QED
    BY <1>3, <1>5, <2>4 DEF PlaceInv
<1>9. ASSUME NEW m, NEW told \in BOOLEAN, DispatchFails(m, told) PROVE PlaceInv'
  <2>1. sending' = 0 /\ dispatch' = {} /\ stdin' = <<>>
    BY <1>0, <1>9 DEF Carried, DispatchFails
  <2>2. Unread' = {}
    BY <2>1, NoneInEmpty DEF Unread
  <2>3. QED
    BY <1>3, <1>5, <2>1, <2>2 DEF PlaceInv, Afterwards
<1>10. QED
  BY <1>6, <1>7, <1>8, <1>9

\* An order about a row that has one is written when the message is behind it.
LEMMA OrderPlaces ==
    ASSUME QueueInv, PlaceInv, NEW r, HostWrites(r) \/ HostDrops(r) \/ HostFails(r)
    PROVE  PlaceInv'
<1>1. r \in runs /\ r \in Runs
  BY UnderWayTyped DEF HostWrites, HostDrops, HostFails
<1>2. Afterwards /\ OneSubmission(left) /\ RowsFollow /\ TurnsEchoed
  BY <1>1 DEF PlaceInv, Before, OnItsWay, NoOrders
<1>3. UNCHANGED left \/ \E what : Spend(what)
  BY DEF HostWrites, HostDrops, HostFails
<1>4. OneSubmission(left') /\ left'["sends"] = 0
  BY <1>2, <1>3, SubmissionKept DEF Afterwards
<1>5. UNCHANGED <<queue, entries, ran, echoed, wire, sending, dispatch>> /\ wire \in Seq(Events)
  BY DEF HostWrites, HostDrops, HostFails, grokVars, QueueInv, QueueType
<1>6. RowsFollow' /\ TurnsEchoed'
  BY <1>2, <1>5, FollowUnchanged
<1>7. Unread' = {}
  <2>1. CASE HostWrites(r)
    <3> DEFINE o == Order(r.kind, r.id, r.ids, r.n)
    <3>1. o \in QueueOrders /\ o.kind # "prompt" /\ stdin \in Seq(QueueOrders)
      BY <1>1 DEF Order, QueueOrders, Runs, Kinds, QueueInv, QueueType
    <3>2. stdin' = stdin \o <<o>>
      BY <2>1 DEF HostWrites, Written
    <3> HIDE DEF o
    <3>3. stdin' = Append(stdin, o)
      BY <3>1, <3>2
    <3>4. QED
      BY <1>2, <3>1, <3>3, WrittenUnread DEF Afterwards
  <2>2. CASE HostDrops(r)
    <3> DEFINE o == Order("drop", r.id, <<>>, 0)
    <3>1. o \in QueueOrders /\ o.kind # "prompt"
      BY <1>1 DEF Order, QueueOrders, Runs
    <3>2. stdin' = Append(stdin, o)
      BY <2>2 DEF HostDrops
    <3> HIDE DEF o
    <3>3. QED
      BY <1>2, <3>1, <3>2, WrittenUnread DEF Afterwards
  <2>3. CASE HostFails(r)
    BY <1>2, <2>3 DEF HostFails, grokVars, Afterwards, Unread
  <2>4. QED
    BY <2>1, <2>2, <2>3
<1>8. QED
  BY <1>2, <1>4, <1>5, <1>6, <1>7 DEF PlaceInv, Afterwards

\* The user looks at the rows, orders, or turns to another task, and the timers fire.
LEMMA WindowPlaces ==
    ASSUME QueueInv, PlaceInv,
           \/ Select \/ TimeIsUp \/ AckTimeout \/ UnlockTimer \/ RowClicks \/ ClearsAll \/ Saves
           \/ UNCHANGED <<queueVars, left>>
    PROVE  PlaceInv'
<1>1. OneSubmission(left) /\ RowsFollow /\ TurnsEchoed /\ wire \in Seq(Events)
  BY DEF PlaceInv, QueueInv, QueueType
<1>2. UNCHANGED left \/ \E what : Spend(what)
  BY DEF Select, TimeIsUp, AckTimeout, UnlockTimer, Late, RowClicks, ClearsAll, Saves,
         Moves, Removes, SendsNow, Ordered, OpensDraft
<1>3. left["sends"] = 0 => left'["sends"] = 0
  BY <1>1, <1>2, SubmissionKept
<1>4. OneSubmission(left')
  BY <1>1, <1>2, SubmissionKept
<1>5. UNCHANGED <<queue, entries, ran, echoed, wire, sending, dispatch, stdin>>
  BY DEF Select, TimeIsUp, AckTimeout, UnlockTimer, RowClicks, ClearsAll, Saves,
         Moves, Removes, SendsNow, Ordered, OpensDraft, grokVars, rowVars, queueVars
<1>6. RowsFollow' /\ TurnsEchoed'
  BY <1>1, <1>5, FollowUnchanged
<1>7. NoOrders => UNCHANGED runs /\ queueDraft' = 0
  <2>1. CASE Select \/ TimeIsUp \/ AckTimeout \/ UnlockTimer \/ UNCHANGED <<queueVars, left>>
    BY <2>1 DEF Select, TimeIsUp, AckTimeout, UnlockTimer, rowVars, queueVars, NoOrders
  <2>2. CASE RowClicks \/ ClearsAll \/ Saves
    <3>1. queue \in Seq(Ids)
      BY DEF QueueInv, QueueType
    <3>2. ~NoOrders
      BY <2>2, <3>1 DEF RowClicks, ClearsAll, Saves, NoOrders
    <3>3. QED
      BY <3>2
  <2>3. QED
    BY <2>1, <2>2
<1>8. ASSUME NEW m, Placed(m) PROVE Placed(m)'
  <2>1. CASE AckTimeout
    <3>1. pending = [id |-> m, acked |-> FALSE, due |-> pending.due] => pending.id = m
      OBVIOUS
    <3>2. QED
      BY <1>8, <2>1, <3>1 DEF Placed, AckTimeout
  <2>2. CASE TimeIsUp
    <3>1. lapsed' = lapsed /\ pending' = [pending EXCEPT !.due = TRUE]
      BY <2>2 DEF TimeIsUp
    <3>2. ASSUME NEW b, pending = [id |-> m, acked |-> FALSE, due |-> b]
          PROVE  pending' = [id |-> m, acked |-> FALSE, due |-> pending'.due]
      BY <3>1, <3>2
    <3>3. QED
      BY <1>8, <3>1, <3>2 DEF Placed
  <2>3. CASE Select
    <3>1. pending = [id |-> m, acked |-> FALSE, due |-> pending.due] => pending.acked = FALSE
      OBVIOUS
    <3>2. QED
      BY <1>8, <2>3, <3>1 DEF Placed, Select
  <2>4. CASE UnlockTimer \/ RowClicks \/ ClearsAll \/ Saves \/ UNCHANGED <<queueVars, left>>
    <3>1. UNCHANGED <<pending, lapsed>>
      BY <2>4 DEF UnlockTimer, RowClicks, ClearsAll, Saves,
         Moves, Removes, SendsNow, Ordered, OpensDraft, queueVars
    <3>2. QED
      BY <1>8, <3>1 DEF Placed
  <2>5. QED
    BY <2>1, <2>2, <2>3, <2>4
<1>9. NoOrders => NoOrders'
  BY <1>5, <1>7 DEF NoOrders
<1>10. QED
  BY <1>3, <1>4, <1>5, <1>6, <1>8, <1>9, PlaceUntouched

LEMMA PlaceStep ==
    ASSUME QueueInv, QueueInv', PlaceInv, [QueueNext]_<<queueVars, left>>
    PROVE  PlaceInv'
<1>1. OneSubmission(left) /\ RowsFollow /\ TurnsEchoed
  BY DEF PlaceInv
<1>2. CASE Submit
  BY <1>2, SubmitPlaces
<1>3. CASE SendFails \/ HostServes \/ (\E m \in Messages, told \in BOOLEAN : DispatchFails(m, told))
           \/ \E r \in runs : HostFails(r)
  BY <1>3, HostPlaces, OrderPlaces DEF HostServes
<1>4. CASE GrokReads
  <2>1. RowsFollow' /\ TurnsEchoed'
    BY <1>1, <1>4, ReadFollows
  <2>2. stdin # <<>> /\ stdin' = Tail(stdin) /\ UNCHANGED <<dispatch, sending, left>>
    BY <1>4 DEF GrokReads, windowVars
  <2>3. left["sends"] = 0 /\ sending = 0 /\ dispatch = {}
    BY <2>2 DEF PlaceInv, Before, OnItsWay, Carried, Afterwards
  <2>4. Unread = {} \/ \E o : stdin = <<o>>
    BY <2>2 DEF PlaceInv, Before, OnItsWay, Carried, Afterwards
  <2>5. Unread' = {}
    BY <2>2, <2>4, Read
  <2>6. QED
    BY <1>1, <2>1, <2>2, <2>3, <2>5 DEF PlaceInv, Afterwards, OneSubmission
<1>5. CASE TurnEnds
  <2>1. RowsFollow' /\ TurnsEchoed'
    BY <1>1, <1>5, NextTurnFollows
  <2>2. Spend("ends") /\ UNCHANGED <<sending, dispatch, stdin, pending, lapsed, queue, runs, queueDraft>>
    BY <1>5 DEF TurnEnds, windowVars
  <2>3. entries = <<>> => UNCHANGED <<entries, wire>>
    BY <1>5 DEF TurnEnds
  <2>4. OneSubmission(left') /\ (left["sends"] = 0 => left'["sends"] = 0)
    BY <1>1, <2>2, SubmissionKept
  <2>5. NoOrders => NoOrders'
    BY <2>2, <2>3 DEF NoOrders
  <2>6. \A m : Placed(m) => Placed(m)'
    BY <2>2 DEF Placed
  <2>7. QED
    BY <2>1, <2>2, <2>4, <2>5, <2>6, PlaceUntouched
<1>6. CASE EventArrives
  <2>1. RowsFollow' /\ TurnsEchoed'
    BY <1>1, <1>6, ArrivalFollows
  <2>2. wire # <<>> /\ UNCHANGED <<sending, dispatch, stdin, left>>
    BY <1>6 DEF EventArrives
  <2>3. ~NoOrders /\ ~OnItsWay
    BY <2>2 DEF NoOrders, OnItsWay
  <2>4. QED
    BY <1>1, <2>1, <2>2, <2>3, PlaceUntouched DEF OneSubmission
<1>7. ~ConnectionLost
  BY <1>1, SubmissionKept DEF ConnectionLost
<1>8. CASE Select \/ TimeIsUp \/ AckTimeout \/ UnlockTimer \/ RowClicks \/ ClearsAll \/ Saves \/ UNCHANGED <<queueVars, left>>
  BY <1>8, WindowPlaces
<1>9. QED
  BY <1>2, <1>3, <1>4, <1>5, <1>6, <1>7, <1>8 DEF QueueNext

\* usePendingPrompts: a message submitted to an empty queue can be seen from Enter on, as its
\* placeholder, a row or its echo, however the user orders, turns end and tasks are selected;
\* and so can every message of a queue to which none is submitted.
THEOREM MessageSeen == SubmissionSpec => []MessageVisible
<1>1. left \in Plans /\ OneSubmission(left) /\ (left.queued = 0 \/ left["sends"] = 0) /\ QueueInit => QueueInv /\ PlaceInv
  <2> SUFFICES ASSUME left \in Plans, OneSubmission(left), left.queued = 0 \/ left["sends"] = 0, QueueInit
               PROVE  QueueInv /\ PlaceInv
    OBVIOUS
  <2>1. QueueInv
    BY InitHolds
  <2>2. /\ sending = 0 /\ dispatch = {} /\ runs = {} /\ stdin = <<>> /\ wire = <<>> /\ queue = entries
        /\ ran = <<>> /\ queueDraft = 0 /\ entries = [i \in 1 .. left.queued |-> i]
    BY DEF QueueInit
  <2>3. Before \/ Afterwards
    <3>1. left.queued = 0 => entries = <<>>
      BY <2>2
    <3>2. Unread = {}
      BY <2>2, NoneInEmpty DEF Unread
    <3>3. QED
      BY <2>2, <3>1, <3>2 DEF Before, NoOrders, Afterwards
  <2>4. RowsFollow /\ TurnsEchoed
    BY <2>2, NoneInEmpty DEF RowsFollow, TurnsEchoed, Silent
  <2>5. QED
    BY <2>1, <2>3, <2>4 DEF PlaceInv
<1>2. QueueInv /\ [QueueNext]_<<queueVars, left>> => QueueInv'
  BY QueueStep
<1>3. QueueInv /\ QueueInv' /\ PlaceInv /\ [QueueNext]_<<queueVars, left>> => PlaceInv'
  BY PlaceStep
<1>4. QueueInv /\ PlaceInv => MessageVisible
  <2> SUFFICES ASSUME QueueInv, PlaceInv, NEW m \in Messages, fate[m] = "given"
               PROVE  m \in {pending.id} \cup lapsed \cup ToSet(queue) \cup echoed \/ \E e \in ToSet(wire) : Announces(e, m)
    BY DEF MessageVisible
  <2>1. m \in {sending} \cup dispatch \cup Unread \cup ToSet(entries) \cup ToSet(ran)
    BY DEF QueueInv, QueuedNotLost
  <2>2. \A i \in 1 .. Len(wire) : wire[i] \in ToSet(wire)
    BY DEF ToSet
  <2>3. CASE m \in {sending} \cup dispatch \cup Unread
    <3>1. OnItsWay
      BY <2>3, IdsAreNumbers, NoneInEmpty DEF PlaceInv, Before, Afterwards, Unread
    <3>2. PICK p \in Messages : Carried(p) /\ Placed(p)
      BY <3>1 DEF OnItsWay
    <3>3. m = p
      BY <2>3, <3>2, IdsAreNumbers, NoneInEmpty, OneElement DEF Carried, Unread, Order
    <3>4. pending = [id |-> p, acked |-> FALSE, due |-> pending.due] => pending.id = p
      OBVIOUS
    <3>5. QED
      BY <3>2, <3>3, <3>4 DEF Placed
  <2>4. CASE m \in ToSet(entries)
    <3>1. CASE queue = entries
      BY <2>4, <3>1
    <3>2. CASE LastSays(wire, entries)
      <4>1. PICK i \in 1 .. Len(wire) : wire[i] = Report(entries)
        BY <3>2 DEF LastSays
      <4>2. m \in ToSet(wire[i].ids)
        BY <2>4, <4>1 DEF Report
      <4>3. QED
        BY <2>2, <4>1, <4>2 DEF Announces
    <3>3. QED
      BY <3>1, <3>2 DEF PlaceInv, RowsFollow
  <2>5. CASE m \in ToSet(ran)
    <3>1. m \in echoed \/ \E i \in 1 .. Len(wire) : wire[i] = Told("echo", m)
      BY <2>5 DEF PlaceInv, TurnsEchoed
    <3>2. Told("echo", m).kind = "echo" /\ Told("echo", m).id = m
      BY DEF Told
    <3>3. QED
      BY <2>2, <3>1, <3>2 DEF Announces
  <2>6. QED
    BY <2>1, <2>3, <2>4, <2>5
<1>5. QED
  BY <1>1, <1>2, <1>3, <1>4, PTL DEF SubmissionSpec

-----------------------------------------------------------------------------
(* The dialogs and their gates (RequestDialogs).                           *)

\* The gates some answer has in hand; those still to be answered; those of a lost
\* connection that are still to be told of; and whatever has or will have its end told.
Taken == {c \in calls : c.st = "taken"}
Done == {c \in calls : c.st = "done"}
InHand(r) == \E c \in Taken : c.gate = r
IsOpen(r) == r \in asking \/ r \in gates \/ InHand(r)
Closing(r) == \E c \in closing : r \in c.gates
Pending(r) == IsOpen(r) \/ Closing(r) \/ r.task \in down

OneOfKey(rs) == \A r, q \in rs : r.key = q.key => r = q

CallType(c, made) ==
    /\ c = [req |-> c.req, option |-> c.option, answers |-> c.answers, st |-> c.st, gate |-> c.gate, by |-> c.by]
    /\ c.req \in made
    /\ c.st \in {"taken", "done"} => c.gate \in made /\ c.gate.key = c.req.key
CloserType(c, made) ==
    /\ c = [task |-> c.task, conn |-> c.conn, st |-> c.st, gates |-> c.gates]
    /\ c.gates \subseteq made /\ (c.st = "seen" => c.gates = {})

DialogType ==
    /\ raised \subseteq Requests /\ asking \subseteq raised /\ gates \subseteq raised /\ shown \subseteq raised
    /\ OneOfKey(gates) /\ OneOfKey(shown)
    /\ news \in Seq([kind : {"asked", "resolved"}, req : raised])
    /\ \A l \in listed : l \subseteq raised /\ OneOfKey(l)
    /\ \A c \in calls : CallType(c, raised)
    /\ \A c \in closing : CloserType(c, raised)

\* Nothing is open in two ways at once, and what a closing thread holds is not open.
OpenOnce ==
    /\ \A r \in asking : r \notin gates /\ ~InHand(r)
    /\ \A c \in Taken : c.gate \notin gates
    /\ \A c, d \in Taken : c.gate = d.gate => c = d
    /\ \A r : Closing(r) => ~IsOpen(r)

Says(i, kind, r) == news[i] = [kind |-> kind, req |-> r]

\* What has been resolved, or answered, is not open.
ResolvedIsShut == \A i \in DOMAIN news, r \in raised : Says(i, "resolved", r) => ~IsOpen(r)
AnsweredIsShut == \A c \in Done : ~IsOpen(c.gate)

\* What is open has its dialog or is announced, while its key is its own.
OpenIsShown == \A r \in raised : Sole(r) /\ IsOpen(r) => r \in shown \/ \E i \in DOMAIN news : Says(i, "asked", r)

ResolvedAfter(r, i) == \E j \in DOMAIN news : j > i /\ Says(j, "resolved", r)
\* What is announced or shown is open, or its end is on the way, while its key is its own.
AnnouncedEnds ==
    \A i \in DOMAIN news, r \in raised : Sole(r) /\ Says(i, "asked", r) => Pending(r) \/ ResolvedAfter(r, i)
ShownEnds == \A r \in shown : Sole(r) => Pending(r) \/ ResolvedAfter(r, 0) \/ \E c \in Done : c.gate = r

\* No connect ends in a calm plan, so nothing old is listed.
CalmType ==
    /\ {"calm", "hydrates"} \subseteq DOMAIN left
    /\ left.calm = 1 => left.hydrates = 0 /\ listed = {}

DialogInv ==
    /\ DialogType /\ OpenOnce /\ ResolvedIsShut /\ AnsweredIsShut /\ OpenIsShown /\ AnnouncedEnds /\ CalmType
    /\ left.calm = 1 => ShownEnds

-----------------------------------------------------------------------------
\* The invariant gives the property.
LEMMA InvMatches == DialogInv => DialogsMatchGates
<1> SUFFICES ASSUME DialogInv PROVE DialogsMatchGates
  OBVIOUS
<1>1. HeldIsShown
  <2> SUFFICES ASSUME NEW g \in gates, Sole(g), g \notin shown
               PROVE  \E e \in ToSet(news) : e.kind = "asked" /\ e.req = g
    BY DEF HeldIsShown
  <2>1. PICK i \in DOMAIN news : news[i] = [kind |-> "asked", req |-> g]
    BY DEF DialogInv, DialogType, OpenIsShown, IsOpen, Says
  <2>2. news[i] \in ToSet(news)
    BY DEF ToSet
  <2>3. QED
    BY <2>1, <2>2
<1>2. ASSUME left.calm = 1 PROVE ShownIsHeld
  <2> SUFFICES ASSUME NEW r \in shown, Sole(r), r.task \notin down, r \notin asking \cup gates, ~Closing(r)
               PROVE  \/ \E e \in ToSet(news) : e.kind = "resolved" /\ e.req = r
                      \/ \E c \in calls : c.gate = r /\ c.st \in {"taken", "done"}
    BY DEF ShownIsHeld, Closing
  <2>1. CASE InHand(r)
    BY <2>1 DEF InHand, Taken
  <2>2. CASE ResolvedAfter(r, 0)
    <3>1. PICK j \in DOMAIN news : news[j] = [kind |-> "resolved", req |-> r]
      BY <2>2 DEF ResolvedAfter, Says
    <3>2. news[j] \in ToSet(news)
      BY DEF ToSet
    <3>3. QED
      BY <3>1, <3>2
  <2>3. CASE \E c \in Done : c.gate = r
    BY <2>3 DEF Done
  <2>4. QED
    BY <1>2, <2>1, <2>2, <2>3 DEF DialogInv, ShownEnds, Pending, IsOpen
<1>3. QED
  BY <1>1, <1>2 DEF DialogsMatchGates

LEMMA DialogsInitially == left \in Plans /\ DialogInit => DialogInv
  BY DialogPlans
  DEF DialogInit, DialogInv, DialogType, OneOfKey, OpenOnce, ResolvedIsShut, AnsweredIsShut, Says, OpenIsShown, AnnouncedEnds,
      CalmType, ShownEnds, Taken, Done, InHand, IsOpen, Closing

-----------------------------------------------------------------------------
(* Steps.                                                                  *)

\* A calm plan stays calm, and lets no connect end.
LEMMA SpendCalm ==
    ASSUME CalmType, NEW what, what # "calm", Spend(what)
    PROVE  /\ {"calm", "hydrates"} \subseteq DOMAIN left' /\ left'.calm = left.calm
           /\ left.calm = 1 => left'.hydrates = 0 /\ what # "hydrates"
  BY DEF CalmType, Spend, May

\* One is put in for those of its key.
LEMMA PutKeeps ==
    ASSUME NEW made, NEW rs \in SUBSET made, NEW new \in SUBSET made, OneOfKey(rs), OneOfKey(new)
    PROVE  /\ Put(rs, new) \subseteq made /\ OneOfKey(Put(rs, new)) /\ new \subseteq Put(rs, new) /\ Put(rs, new) \subseteq rs \cup new
           /\ \A r \in rs : (\A q \in made : q.key = r.key => q = r) => r \in Put(rs, new)
  BY DEF Put, Keys, OneOfKey

\* What the user fills in, and the task he looks at, are not in the invariant.
LEMMA QuietStep ==
    ASSUME DialogInv, UNCHANGED <<raised, asking, gates, closing, down, news, shown, listed, calls>>,
           UNCHANGED left \/ \E what : what # "calm" /\ Spend(what)
    PROVE  DialogInv'
<1>1. CalmType' /\ left'.calm = left.calm
  BY SpendCalm DEF DialogInv, CalmType
<1>2. QED
  BY <1>1 DEF DialogInv, DialogType, OneOfKey, OpenOnce, ResolvedIsShut, AnsweredIsShut, Says, OpenIsShown, AnnouncedEnds, ShownEnds,
              Taken, Done, InHand, IsOpen, Closing, Pending, Sole, CallType, CloserType, ResolvedAfter

\* A step of the host that announces nothing: nothing opens, and what was to end is to end.
SaysNothing ==
    /\ UNCHANGED <<raised, news, shown>>
    /\ \A r : IsOpen(r)' => IsOpen(r)
    /\ \A r \in raised : Sole(r) /\ Pending(r) => Pending(r)'
    /\ Done \subseteq Done'

LEMMA SaysNothingStep ==
    ASSUME DialogInv, SaysNothing
    PROVE  ResolvedIsShut' /\ OpenIsShown' /\ AnnouncedEnds' /\ (ShownEnds => ShownEnds')
<1>1. \A r : Sole(r)' <=> Sole(r)
  BY DEF SaysNothing, Sole
<1>2. \A i, k, r : Says(i, k, r)' <=> Says(i, k, r)
  BY DEF SaysNothing, Says
<1>3. \A r, i : ResolvedAfter(r, i)' <=> ResolvedAfter(r, i)
  BY <1>2 DEF SaysNothing, ResolvedAfter
<1>4. ResolvedIsShut' /\ OpenIsShown' /\ AnnouncedEnds'
  BY <1>1, <1>2, <1>3 DEF DialogInv, SaysNothing, ResolvedIsShut, OpenIsShown, AnnouncedEnds
<1>5. ASSUME ShownEnds PROVE ShownEnds'
  BY <1>1, <1>3, <1>5 DEF DialogInv, DialogType, SaysNothing, ShownEnds
<1>6. QED
  BY <1>4, <1>5

\* Answers are called, by the user or by a mode: nothing is in hand yet.
LEMMA CalledStep ==
    ASSUME DialogInv, NEW new, \A c \in new : CallType(c, raised) /\ c.st = "called", calls' = calls \cup new,
           UNCHANGED <<hostVars, shown, listed>>, NEW what, what # "calm", Spend(what)
    PROVE  DialogInv'
<1>1. CalmType' /\ left'.calm = left.calm
  BY SpendCalm DEF DialogInv, CalmType
<1>2. Taken' = Taken /\ Done' = Done /\ UNCHANGED <<raised, asking, gates, closing, down, news>>
  BY DEF Taken, Done, hostVars
<1>3. \A r : (IsOpen(r)' <=> IsOpen(r)) /\ (Closing(r)' <=> Closing(r)) /\ (Pending(r)' <=> Pending(r))
  BY <1>2 DEF IsOpen, InHand, Closing, Pending
<1>4. DialogType'
  BY <1>2 DEF DialogInv, DialogType, OneOfKey
<1>5. OpenOnce' /\ AnsweredIsShut'
  BY <1>2, <1>3 DEF DialogInv, OpenOnce, AnsweredIsShut, InHand
<1>6. SaysNothing
  BY <1>2, <1>3 DEF SaysNothing
<1>7. QED
  BY <1>1, <1>4, <1>5, <1>6, SaysNothingStep DEF DialogInv

LEMMA ResolvesStep ==
    ASSUME DialogInv, NEW rs \in SUBSET shown, NEW option, Resolves(rs, option)
    PROVE  DialogInv'
<1> DEFINE new == {Call(r, option) : r \in rs}
<1>1. \A r \in rs : CallType(Call(r, option), raised) /\ Call(r, option).st = "called"
  BY DEF Call, CallType, DialogInv, DialogType
<1>2. \A c \in new : CallType(c, raised) /\ c.st = "called"
  BY <1>1
<1>3. calls' = calls \cup new /\ UNCHANGED <<hostVars, shown, listed>> /\ Spend("clicks")
  BY DEF Resolves
<1> HIDE DEF new
<1>4. QED
  BY <1>2, <1>3, CalledStep

LEMMA ModeStep == ASSUME DialogInv, NEW t, ModeSet(t) PROVE DialogInv'
<1>1. PICK decided \in SUBSET gates : calls' = calls \cup {ByMode(g) : g \in decided}
  BY DEF ModeSet
<1> DEFINE new == {ByMode(g) : g \in decided}
<1>2. \A g \in decided : CallType(ByMode(g), raised) /\ ByMode(g).st = "called"
  BY DEF ByMode, CallType, DialogInv, DialogType
<1>3. \A c \in new : CallType(c, raised) /\ c.st = "called"
  BY <1>2
<1>4. calls' = calls \cup new /\ UNCHANGED <<hostVars, shown, listed>> /\ Spend("modes")
  BY <1>1 DEF ModeSet, windowSide
<1> HIDE DEF new
<1>5. QED
  BY <1>3, <1>4, CalledStep

\* An answer that moves on, and is not done yet, as it is after.
LEMMA MovedCall ==
    ASSUME DialogInv, NEW c \in calls, c.st # "done", NEW d, CallType(d, raised), Moved(c, d), raised' = raised
    PROVE  /\ \A e \in calls' : CallType(e, raised)'
           /\ Taken' = (Taken \ {c}) \cup {e \in {d} : e.st = "taken"}
           /\ Done \subseteq Done' /\ Done' \subseteq Done \cup {e \in {d} : e.st = "done"}
<1>1. calls' = (calls \ {c}) \cup {e \in {d} : Heard(e)} /\ (d.st = "taken" => Heard(d))
  BY DEF Moved, Heard
<1>2. \A e \in calls : CallType(e, raised)
  BY DEF DialogInv, DialogType
<1>3. \A e \in calls' : CallType(e, raised)
  BY <1>1, <1>2
<1>4. \A e : CallType(e, raised)' <=> CallType(e, raised)
  BY DEF CallType
<1>5. QED
  BY <1>1, <1>3, <1>4 DEF Taken, Done

\* A call in hand, field by field.
LEMMA TakenCall ==
    ASSUME NEW c, NEW made, CallType(c, made), NEW g
    PROVE  [c EXCEPT !.st = "taken", !.gate = g]
             = [req |-> c.req, option |-> c.option, answers |-> c.answers, st |-> "taken", gate |-> g, by |-> c.by]
<1> DEFINE e == [req |-> c.req, option |-> c.option, answers |-> c.answers, st |-> "taken", gate |-> c.gate, by |-> c.by]
<1>1. [c EXCEPT !.st = "taken"] = e
  BY DEF CallType
<1>2. [e EXCEPT !.gate = g] = [req |-> c.req, option |-> c.option, answers |-> c.answers, st |-> "taken", gate |-> g, by |-> c.by]
  OBVIOUS
<1> HIDE DEF e
<1>3. QED
  BY <1>1, <1>2, Zenon

\* A call that has ended.
LEMMA EndedCall ==
    ASSUME NEW c, NEW made, CallType(c, made), NEW st \in {"done", "failed"}, st = "done" => c.st = "taken"
    PROVE  LET d == [c EXCEPT !.st = st]
           IN d.gate = c.gate /\ d.st = st /\ CallType(d, made)
  BY DEF CallType

\* The host finds the gate of the key, or none.
LEMMA TakesStep ==
    ASSUME DialogInv, NEW c, HostTakes(c)
    PROVE  DialogInv'
<1> DEFINE found == OfKey(gates, c.req.key)
<1>1. c \in calls /\ c.st = "called" /\ CallType(c, raised) /\ c \notin Taken
  BY DEF HostTakes, DialogInv, DialogType, Taken
<1>2. UNCHANGED <<raised, asking, closing, down, news, shown, listed, left>>
  BY DEF HostTakes, windowSide
<1>3. CASE found = {}
  <2> DEFINE d == [c EXCEPT !.st = "failed"]
  <2>1. gates' = gates /\ Moved(c, d)
    BY <1>3 DEF HostTakes
  <2>2. CallType(d, raised) /\ d.st = "failed"
    BY <1>1, EndedCall
  <2> HIDE DEF d
  <2>3. (\A e \in calls' : CallType(e, raised)') /\ Taken' = Taken /\ Done' = Done
    BY <1>1, <1>2, <2>1, <2>2, MovedCall
  <2>4. \A r : (IsOpen(r)' <=> IsOpen(r)) /\ (Closing(r)' <=> Closing(r)) /\ (Pending(r)' <=> Pending(r))
    BY <1>2, <2>1, <2>3 DEF IsOpen, InHand, Closing, Pending
  <2>5. DialogType'
    BY <1>2, <2>1, <2>3 DEF DialogInv, DialogType, OneOfKey, CloserType
  <2>6. OpenOnce' /\ AnsweredIsShut'
    BY <1>2, <2>1, <2>3, <2>4 DEF DialogInv, OpenOnce, AnsweredIsShut, InHand
  <2>7. SaysNothing
    BY <1>2, <2>3, <2>4 DEF SaysNothing
  <2>8. CalmType'
    BY <1>2 DEF DialogInv, CalmType
  <2>9. QED
    BY <1>2, <2>5, <2>6, <2>7, <2>8, SaysNothingStep DEF DialogInv
<1>4. CASE found # {}
  <2> DEFINE g == CHOOSE g \in found : TRUE
  <2> DEFINE d == [c EXCEPT !.st = "taken", !.gate = g]
  <2>1. g \in gates /\ g.key = c.req.key /\ g \in raised
    BY <1>4 DEF OfKey, DialogInv, DialogType
  <2>2. found = {g}
    BY <2>1 DEF OfKey, DialogInv, DialogType, OneOfKey
  <2>3. gates' = gates \ {g} /\ Moved(c, d)
    BY <1>4, <2>2 DEF HostTakes
  <2> HIDE DEF g
  <2>4. CallType(d, raised) /\ d.st = "taken" /\ d.gate = g
    <3>1. d = [req |-> c.req, option |-> c.option, answers |-> c.answers, st |-> "taken", gate |-> g, by |-> c.by]
      BY <1>1, TakenCall
    <3> HIDE DEF d
    <3>2. QED
      BY <1>1, <2>1, <3>1 DEF CallType
  <2> HIDE DEF d
  <2>5. (\A e \in calls' : CallType(e, raised)') /\ Taken' = Taken \cup {d} /\ Done' = Done
    BY <1>1, <1>2, <2>3, <2>4, MovedCall
  <2>6. \A r : (InHand(r)' <=> InHand(r) \/ r = g) /\ (Closing(r)' <=> Closing(r))
    BY <1>2, <2>4, <2>5 DEF InHand, Closing
  <2>7. \A r : (IsOpen(r)' <=> IsOpen(r)) /\ (Pending(r)' <=> Pending(r))
    BY <1>2, <2>1, <2>3, <2>6 DEF IsOpen, Pending
  <2>8. DialogType'
    BY <1>2, <2>3, <2>5 DEF DialogInv, DialogType, OneOfKey, CloserType
  <2>9. OpenOnce'
    <3>1. \A e \in Taken : e.gate # g
      BY <2>1 DEF DialogInv, OpenOnce
    <3>2. QED
      BY <1>2, <2>1, <2>3, <2>4, <2>5, <2>6, <2>7, <3>1 DEF DialogInv, OpenOnce
  <2>10. AnsweredIsShut'
    BY <2>5, <2>7 DEF DialogInv, AnsweredIsShut
  <2>11. SaysNothing
    BY <1>2, <2>5, <2>7 DEF SaysNothing
  <2>12. CalmType'
    BY <1>2 DEF DialogInv, CalmType
  <2>13. QED
    BY <1>2, <2>8, <2>9, <2>10, <2>11, <2>12, SaysNothingStep DEF DialogInv
<1>5. QED
  BY <1>3, <1>4

\* A sequence is a sequence over every wider set, of elements of its own.
LEMMA Elements ==
    ASSUME NEW S, NEW T, S \subseteq T, NEW s \in Seq(S)
    PROVE  s \in Seq(T) /\ \A i \in DOMAIN s : s[i] \in S
  OBVIOUS

\* A request is resolved: it is shut, and its end is announced.
LEMMA ShutStep ==
    ASSUME DialogInv, NEW g \in raised, news' = news \o News("resolved", g), UNCHANGED <<raised, shown>>,
           ~IsOpen(g)', \A r : IsOpen(r)' => IsOpen(r),
           \A r \in raised : Pending(r) /\ r # g => Pending(r)',
           Done \subseteq Done'
    PROVE  /\ news' \in Seq([kind : {"asked", "resolved"}, req : raised])
           /\ ResolvedIsShut' /\ OpenIsShown' /\ AnnouncedEnds' /\ (ShownEnds => ShownEnds')
<1> DEFINE T == [kind : {"asked", "resolved"}, req : raised]
           e == [kind |-> "resolved", req |-> g]
<1>1. news \in Seq(T) /\ e \in T /\ news' = news \o <<e>>
  BY DEF DialogInv, DialogType, News
<1> PICK n : n = Len(news) + 1
  OBVIOUS
<1>2. /\ news' \in Seq(T) /\ DOMAIN news' = DOMAIN news \cup {n} /\ news'[n] = e
      /\ \A i \in DOMAIN news : news'[i] = news[i]
  <2> HIDE DEF T, e
  <2>1. \A s \in Seq(T) : Append(s, e) = s \o <<e>>
    BY <1>1
  <2>2. news' = Append(news, e)
    BY <1>1, <2>1
  <2>3. \A s \in Seq(T) : /\ Append(s, e) \in Seq(T) /\ DOMAIN Append(s, e) = DOMAIN s \cup {Len(s) + 1}
                          /\ Append(s, e)[Len(s) + 1] = e /\ \A i \in DOMAIN s : Append(s, e)[i] = s[i]
    BY <1>1
  <2>4. QED
    BY <1>1, <2>2, <2>3
<1>0. n > 0 /\ \A i \in DOMAIN news : n > i
  <2> HIDE DEF T, e
  <2>1. Len(news) \in Nat /\ DOMAIN news = 1 .. Len(news)
    BY <1>1
  <2>2. QED
    BY <2>1
<1>3. \A r : \A i \in DOMAIN news : (Says(i, "asked", r)' <=> Says(i, "asked", r)) /\ (Says(i, "resolved", r)' <=> Says(i, "resolved", r))
  BY <1>2 DEF Says
<1>4. \A r, k : Says(n, k, r)' <=> (k = "resolved" /\ r = g)
  BY <1>2 DEF Says
<1>5. \A r : Sole(r)' <=> Sole(r)
  BY DEF Sole
<1>6. ResolvedIsShut'
  <2> SUFFICES ASSUME NEW i \in DOMAIN news', NEW r \in raised, Says(i, "resolved", r)' PROVE ~IsOpen(r)'
    BY DEF ResolvedIsShut
  <2>1. CASE i \in DOMAIN news
    BY <1>3, <2>1 DEF DialogInv, ResolvedIsShut
  <2>2. CASE i = n
    BY <1>4, <2>2
  <2>3. QED
    BY <1>2, <2>1, <2>2
<1>7. OpenIsShown'
  <2> SUFFICES ASSUME NEW r \in raised, Sole(r), IsOpen(r)'
               PROVE  r \in shown \/ \E i \in DOMAIN news' : Says(i, "asked", r)'
    BY <1>5 DEF OpenIsShown
  <2>1. r \in shown \/ \E i \in DOMAIN news : Says(i, "asked", r)
    BY DEF DialogInv, OpenIsShown
  <2>2. QED
    BY <1>2, <1>3, <2>1
<1>8. ASSUME NEW i, i = 0 \/ i \in DOMAIN news PROVE ResolvedAfter(g, i)'
  <2>1. n \in DOMAIN news' /\ n > i /\ Says(n, "resolved", g)'
    BY <1>0, <1>2, <1>4, <1>8
  <2>2. QED
    BY <2>1 DEF ResolvedAfter
<1>9. ASSUME NEW r, NEW i, ResolvedAfter(r, i) PROVE ResolvedAfter(r, i)'
  <2>1. PICK j \in DOMAIN news : j > i /\ Says(j, "resolved", r)
    BY <1>9 DEF ResolvedAfter
  <2>2. j \in DOMAIN news' /\ Says(j, "resolved", r)'
    BY <1>2, <1>3, <2>1
  <2>3. QED
    BY <2>1, <2>2 DEF ResolvedAfter
<1>10. AnnouncedEnds'
  <2> SUFFICES ASSUME NEW i \in DOMAIN news', NEW r \in raised, Sole(r), Says(i, "asked", r)'
               PROVE  Pending(r)' \/ ResolvedAfter(r, i)'
    BY <1>5 DEF AnnouncedEnds
  <2>1. i \in DOMAIN news /\ Says(i, "asked", r)
    BY <1>2, <1>3, <1>4
  <2>2. Pending(r) \/ ResolvedAfter(r, i)
    BY <2>1 DEF DialogInv, AnnouncedEnds
  <2>3. QED
    BY <1>8, <1>9, <2>1, <2>2
<1>11. ASSUME ShownEnds PROVE ShownEnds'
  <2> SUFFICES ASSUME NEW r \in shown, Sole(r) PROVE Pending(r)' \/ ResolvedAfter(r, 0)' \/ \E c \in Done' : c.gate = r
    BY <1>5 DEF ShownEnds
  <2>1. Pending(r) \/ ResolvedAfter(r, 0) \/ \E c \in Done : c.gate = r
    BY <1>11 DEF ShownEnds
  <2>2. r \in raised
    BY DEF DialogInv, DialogType
  <2>3. QED
    BY <1>8, <1>9, <2>1, <2>2
<1>12. QED
  BY <1>2, <1>6, <1>7, <1>10, <1>11

\* What a call in hand is of: one gate, which is nowhere else.
LEMMA InHandOnce ==
    ASSUME DialogInv, NEW c \in Taken, Taken' = Taken \ {c}
    PROVE  /\ c.gate \in raised /\ c.gate \notin gates /\ c.gate \notin asking /\ ~Closing(c.gate)
           /\ \A r : InHand(r) <=> InHand(r)' \/ r = c.gate
           /\ ~InHand(c.gate)'
<1>1. c.gate \in raised
  BY DEF DialogInv, DialogType, CallType, Taken
<1>2. IsOpen(c.gate) /\ InHand(c.gate)
  BY DEF IsOpen, InHand
<1>3. QED
  BY <1>1, <1>2 DEF DialogInv, OpenOnce, InHand

\* grok has the answer.
LEMMA DeliversStep == ASSUME DialogInv, NEW c, HostDelivers(c) PROVE DialogInv'
<1> DEFINE d == [c EXCEPT !.st = "done"]
           g == c.gate
<1>1. /\ c \in calls /\ c.st = "taken" /\ c \in Taken /\ Moved(c, d) /\ news' = news \o News("resolved", g)
      /\ UNCHANGED <<raised, asking, gates, closing, down, shown, listed, left>>
  BY DEF HostDelivers, windowSide, Taken
<1>2. CallType(c, raised)
  BY <1>1 DEF DialogInv, DialogType
<1>3. d.gate = g /\ d.st = "done" /\ CallType(d, raised)
  BY <1>1, <1>2, EndedCall
<1> HIDE DEF d, g
<1>4. /\ \A e \in calls' : CallType(e, raised)'
      /\ Taken' = Taken \ {c} /\ Done \subseteq Done' /\ Done' \subseteq Done \cup {d}
  BY <1>1, <1>3, MovedCall
<1>5. /\ g \in raised /\ g \notin gates /\ g \notin asking /\ ~InHand(g)'
      /\ \A r : InHand(r) <=> InHand(r)' \/ r = g
  BY <1>1, <1>4, InHandOnce DEF g
<1>6. \A r : Closing(r)' <=> Closing(r)
  BY <1>1 DEF Closing
<1>7. ~IsOpen(g)' /\ (\A r : IsOpen(r)' => IsOpen(r)) /\ \A r : Pending(r) /\ r # g => Pending(r)'
  BY <1>1, <1>5, <1>6 DEF IsOpen, Pending
<1>8. /\ news' \in Seq([kind : {"asked", "resolved"}, req : raised])
      /\ ResolvedIsShut' /\ OpenIsShown' /\ AnnouncedEnds' /\ (ShownEnds => ShownEnds')
  BY <1>1, <1>4, <1>5, <1>7, ShutStep
<1>9. DialogType'
  BY <1>1, <1>4, <1>8 DEF DialogInv, DialogType, OneOfKey, CloserType
<1>10. OpenOnce'
  BY <1>1, <1>4, <1>5, <1>6, <1>7 DEF DialogInv, OpenOnce
<1>11. AnsweredIsShut'
  BY <1>3, <1>4, <1>7 DEF DialogInv, AnsweredIsShut
<1>12. CalmType'
  BY <1>1 DEF DialogInv, CalmType
<1>13. QED
  BY <1>1, <1>8, <1>9, <1>10, <1>11, <1>12 DEF DialogInv

\* The answer cannot be written: the gate goes back, or its end is told.
LEMMA RefusesStep == ASSUME DialogInv, NEW c, NEW again \in BOOLEAN, HostRefuses(c, again) PROVE DialogInv'
<1> DEFINE d == [c EXCEPT !.st = "failed"]
           g == c.gate
<1>1. /\ c \in calls /\ c.st = "taken" /\ c \in Taken /\ Moved(c, d)
      /\ UNCHANGED <<raised, asking, closing, down, shown, listed>>
      /\ UNCHANGED left \/ Spend("refusals")
  BY DEF HostRefuses, windowSide, Taken
<1>2. CallType(c, raised)
  BY <1>1 DEF DialogInv, DialogType
<1>3. d.gate = g /\ d.st = "failed" /\ CallType(d, raised)
  BY <1>1, <1>2, EndedCall
<1>4. \/ ~again /\ gates' = gates /\ news' = news \o News("resolved", g)
      \/ again /\ gates' = Put(gates, {g}) /\ news' = news \o <<>>
  BY DEF HostRefuses, Undelivered
<1> HIDE DEF d, g
<1>5. (\A e \in calls' : CallType(e, raised)') /\ Taken' = Taken \ {c} /\ Done' = Done
  BY <1>1, <1>3, MovedCall
<1>6. /\ g \in raised /\ g \notin gates /\ g \notin asking /\ ~InHand(g)' /\ ~Closing(g)
      /\ \A r : InHand(r) <=> InHand(r)' \/ r = g
  BY <1>1, <1>5, InHandOnce DEF g
<1>7. CalmType' /\ left'.calm = left.calm
  BY <1>1, SpendCalm DEF DialogInv, CalmType
<1>8. \A r : Closing(r)' <=> Closing(r)
  BY <1>1 DEF Closing
<1>9. CASE ~again /\ gates' = gates /\ news' = news \o News("resolved", g)
  <2>1. ~IsOpen(g)' /\ (\A r : IsOpen(r)' => IsOpen(r)) /\ \A r : Pending(r) /\ r # g => Pending(r)'
    BY <1>1, <1>6, <1>8, <1>9 DEF IsOpen, Pending
  <2>2. /\ news' \in Seq([kind : {"asked", "resolved"}, req : raised])
        /\ ResolvedIsShut' /\ OpenIsShown' /\ AnnouncedEnds' /\ (ShownEnds => ShownEnds')
    BY <1>1, <1>5, <1>6, <1>9, <2>1, ShutStep
  <2>3. DialogType'
    BY <1>1, <1>5, <1>9, <2>2 DEF DialogInv, DialogType, OneOfKey, CloserType
  <2>4. OpenOnce' /\ AnsweredIsShut'
    BY <1>1, <1>5, <1>6, <1>8, <1>9, <2>1 DEF DialogInv, OpenOnce, AnsweredIsShut
  <2>5. QED
    BY <1>7, <2>2, <2>3, <2>4 DEF DialogInv
<1>10. CASE again /\ gates' = Put(gates, {g}) /\ news' = news \o <<>>
  <2>1. news' = news
    BY <1>10 DEF DialogInv, DialogType
  <2>2. /\ gates' \subseteq gates \cup {g} /\ g \in gates' /\ gates' \subseteq raised /\ OneOfKey(gates')
        /\ \A r \in gates : Sole(r) => r \in gates'
    <3>1. gates \in SUBSET raised /\ {g} \in SUBSET raised /\ OneOfKey(gates) /\ OneOfKey({g})
      BY <1>6 DEF DialogInv, DialogType, OneOfKey
    <3>2. QED
      BY <1>10, <3>1, PutKeeps DEF Sole
  <2>3. (\A r : IsOpen(r)' => IsOpen(r)) /\ \A r \in raised : Sole(r) /\ Pending(r) => Pending(r)'
    <3>1. \A r : IsOpen(r)' => IsOpen(r)
      BY <1>1, <1>6, <2>2 DEF IsOpen
    <3>2. \A r \in raised : Sole(r) /\ IsOpen(r) => IsOpen(r)'
      BY <1>1, <1>6, <2>2 DEF IsOpen
    <3>3. QED
      BY <1>1, <1>8, <3>1, <3>2 DEF Pending
  <2>4. DialogType'
    BY <1>1, <1>5, <2>1, <2>2 DEF DialogInv, DialogType, OneOfKey, CloserType
  <2>5. OpenOnce'
    <3>1. \A e \in Taken' : e.gate # g
      BY <1>6 DEF InHand
    <3>2. (\A e \in Taken' : e.gate \notin gates') /\ \A e, f \in Taken' : e.gate = f.gate => e = f
      BY <1>5, <2>2, <3>1 DEF DialogInv, OpenOnce
    <3>3. \A r \in asking' : r \notin gates' /\ ~InHand(r)'
      BY <1>1, <1>6, <2>2 DEF DialogInv, OpenOnce
    <3>4. \A r : Closing(r)' => ~IsOpen(r)'
      BY <1>8, <2>3 DEF DialogInv, OpenOnce
    <3>5. QED
      BY <3>2, <3>3, <3>4 DEF OpenOnce
  <2>6. AnsweredIsShut'
    BY <1>5, <2>3 DEF DialogInv, AnsweredIsShut
  <2>7. SaysNothing
    BY <1>1, <1>5, <2>1, <2>3 DEF SaysNothing
  <2>8. QED
    BY <1>7, <2>4, <2>5, <2>6, <2>7, SaysNothingStep DEF DialogInv
<1>11. QED
  BY <1>4, <1>9, <1>10

\* The answer is back: the dialog goes, and nothing of its key that is not shared was open.
LEMMA EndsStep ==
    ASSUME DialogInv, NEW c, ResolveEnds(c)
    PROVE  DialogInv'
<1>1. /\ c \in calls /\ c.st \in {"done", "failed"} /\ calls' = calls \ {c}
      /\ UNCHANGED <<raised, asking, gates, closing, down, news, listed, left>>
      /\ shown' = IF c.st = "done" THEN shown \ OfKey(shown, c.req.key) ELSE shown
  BY DEF ResolveEnds, hostVars
<1>2. Taken' = Taken /\ Done' = Done \ {c} /\ (c.st # "done" => Done' = Done)
  BY <1>1 DEF Taken, Done
<1>3. \A r \in shown : Sole(r) => r \in shown' \/ (c \in Done /\ r = c.gate)
  <2>1. c \in Done => c.gate \in raised /\ c.gate.key = c.req.key
    BY <1>1 DEF DialogInv, DialogType, CallType, Done
  <2>2. QED
    BY <1>1, <2>1 DEF OfKey, Done, Sole
<1>4. c \in Done => c.gate \notin shown'
  <2>1. c \in Done => c.gate.key = c.req.key
    BY <1>1 DEF DialogInv, DialogType, CallType, Done
  <2>2. QED
    BY <1>1, <2>1 DEF OfKey, Done
<1>5. \A r : (IsOpen(r)' <=> IsOpen(r)) /\ (Closing(r)' <=> Closing(r)) /\ (Pending(r)' <=> Pending(r)) /\ (Sole(r)' <=> Sole(r))
  BY <1>1, <1>2 DEF IsOpen, InHand, Closing, Pending, Sole
<1>6. shown' \subseteq shown
  BY <1>1
<1>7. DialogType' /\ ResolvedIsShut' /\ AnsweredIsShut' /\ AnnouncedEnds' /\ CalmType'
  <2>1. DialogType' /\ CalmType'
    BY <1>1, <1>6 DEF DialogInv, DialogType, CalmType, OneOfKey, CallType, CloserType
  <2>2. ResolvedIsShut' /\ AnsweredIsShut' /\ AnnouncedEnds'
    BY <1>1, <1>2, <1>5 DEF DialogInv, ResolvedIsShut, AnsweredIsShut, AnnouncedEnds, Says, ResolvedAfter
  <2>3. QED
    BY <2>1, <2>2
<1>8. OpenOnce'
  BY <1>1, <1>2, <1>5 DEF DialogInv, OpenOnce, InHand
<1>9. OpenIsShown'
  BY <1>1, <1>3, <1>5 DEF DialogInv, OpenIsShown, AnsweredIsShut, Says
<1>10. ASSUME ShownEnds PROVE ShownEnds'
  <2> SUFFICES ASSUME NEW r \in shown', Sole(r) PROVE Pending(r)' \/ ResolvedAfter(r, 0)' \/ \E e \in Done' : e.gate = r
    BY <1>5 DEF ShownEnds
  <2>1. Pending(r) \/ ResolvedAfter(r, 0) \/ \E e \in Done : e.gate = r
    BY <1>6, <1>10 DEF ShownEnds
  <2>2. ResolvedAfter(r, 0) => ResolvedAfter(r, 0)'
    BY <1>1 DEF ResolvedAfter, Says
  <2>3. QED
    BY <1>2, <1>4, <1>5, <2>1, <2>2
<1>11. QED
  BY <1>1, <1>7, <1>8, <1>9, <1>10 DEF DialogInv

\* A connect reads what the host holds, and this is not calm.
LEMMA HydrateAsksStep == ASSUME DialogInv, HydrateAsks PROVE DialogInv'
<1>1. CalmType => left.calm # 1 /\ left'.calm # 1 /\ {"calm", "hydrates"} \subseteq DOMAIN left'
  BY SpendCalm DEF HydrateAsks, CalmType
<1>2. UNCHANGED <<raised, asking, gates, closing, down, news, shown, calls>> /\ listed' = listed \cup {{g \in gates : g.task = looked}}
  BY DEF HydrateAsks, hostVars
<1>3. QED
  BY <1>1, <1>2 DEF DialogInv, DialogType, OneOfKey, OpenOnce, ResolvedIsShut, AnsweredIsShut, Says, OpenIsShown, AnnouncedEnds, CalmType,
                    Taken, Done, InHand, IsOpen, Closing, Pending, Sole, CallType, CloserType, ResolvedAfter

\* What was read is shown, old as it may be.
LEMMA HydrateLandsStep == ASSUME DialogInv, NEW l \in listed, HydrateLands(l) PROVE DialogInv'
<1>1. left.calm # 1 /\ l \in SUBSET raised /\ shown \in SUBSET raised /\ OneOfKey(l) /\ OneOfKey(shown)
  BY DEF DialogInv, CalmType, DialogType
<1>2. UNCHANGED <<raised, asking, gates, closing, down, news, calls, left>> /\ listed' = listed \ {l} /\ shown' = Put(shown, l)
  BY DEF HydrateLands, hostVars
<1>3. shown' \subseteq raised /\ OneOfKey(shown)' /\ \A r \in shown : Sole(r) => r \in shown'
  <2>1. OneOfKey(Put(shown, l)) /\ Put(shown, l) \subseteq raised /\ \A r \in shown : Sole(r) => r \in Put(shown, l)
    BY <1>1, PutKeeps DEF Sole
  <2>2. QED
    BY <1>2, <2>1 DEF OneOfKey
<1>4. DialogType'
  BY <1>2, <1>3 DEF DialogInv, DialogType, OneOfKey, CallType, CloserType
<1>5. OpenIsShown'
  BY <1>2, <1>3 DEF DialogInv, OpenIsShown, IsOpen, InHand, Taken, Sole, Says
<1>6. QED
  BY <1>1, <1>2, <1>4, <1>5 DEF DialogInv, OpenOnce, ResolvedIsShut, AnsweredIsShut, Says, AnnouncedEnds, CalmType,
                                Taken, Done, InHand, IsOpen, Closing, Pending, Sole, ResolvedAfter

\* grok asks.
LEMMA AsksStep == ASSUME DialogInv, NEW q \in Requests, Asks(q) PROVE DialogInv'
<1> DEFINE T == [kind : {"asked", "resolved"}, req : raised \cup {q}]
<1> DEFINE e == [kind |-> "asked", req |-> q]
<1>1. /\ q \notin raised /\ raised' = raised \cup {q} /\ asking' = asking \cup {q} /\ news' = Append(news, e)
      /\ UNCHANGED <<gates, closing, down, shown, listed, calls, left>>
  <2>1. news' = news \o <<e>>
    BY DEF Asks, News
  <2>2. news \o <<e>> = Append(news, e)
    BY DEF DialogInv, DialogType
  <2>3. QED
    BY <2>1, <2>2 DEF Asks, windowSide
<1>2. news \in Seq(T) /\ \A i \in DOMAIN news : news[i].req \in raised
  <2>1. news \in Seq([kind : {"asked", "resolved"}, req : raised])
    BY DEF DialogInv, DialogType
  <2>2. [kind : {"asked", "resolved"}, req : raised] \subseteq T
    OBVIOUS
  <2> HIDE DEF T
  <2>3. news \in Seq(T) /\ \A i \in DOMAIN news : news[i] \in [kind : {"asked", "resolved"}, req : raised]
    BY <2>1, <2>2, Elements, Zenon
  <2>4. QED
    BY <2>3
<1>3. e \in T
  OBVIOUS
<1> PICK n : n = Len(news) + 1
  OBVIOUS
<1>4. /\ news' \in Seq(T) /\ DOMAIN news' = DOMAIN news \cup {n} /\ news'[n] = e
      /\ \A i \in DOMAIN news : news'[i] = news[i]
  <2> HIDE DEF T, e
  <2>1. QED
    BY <1>1, <1>2, <1>3
<1>5. \A r : \A i \in DOMAIN news : Says(i, "asked", r)' <=> Says(i, "asked", r)
  BY <1>4 DEF Says
<1>6. \A r : \A i \in DOMAIN news : Says(i, "resolved", r)' <=> Says(i, "resolved", r)
  BY <1>4 DEF Says
<1>7. \A r, k : Says(n, k, r)' <=> (k = "asked" /\ r = q)
  BY <1>4 DEF Says
<1>8. Taken' = Taken /\ Done' = Done
  BY <1>1 DEF Taken, Done
<1>9. \A r : (IsOpen(r)' <=> IsOpen(r) \/ r = q) /\ (Closing(r)' <=> Closing(r)) /\ (Pending(r) => Pending(r)')
  BY <1>1, <1>8 DEF IsOpen, InHand, Closing, Pending
<1>10. \A r : Sole(r)' => Sole(r)
  BY <1>1 DEF Sole
<1>11. DialogType' /\ CalmType'
  <2>1. CalmType'
    BY <1>1 DEF DialogInv, CalmType
  <2>2. DialogType'
    BY <1>1, <1>4 DEF DialogInv, DialogType, OneOfKey, CallType, CloserType
  <2>3. QED
    BY <2>1, <2>2
<1>12. q \notin gates /\ ~InHand(q) /\ ~Closing(q) /\ \A c \in Done : c.gate # q
  BY <1>1 DEF DialogInv, DialogType, CallType, CloserType, InHand, Closing, Taken, Done
<1>13. OpenOnce' /\ AnsweredIsShut'
  BY <1>1, <1>8, <1>9, <1>12 DEF DialogInv, OpenOnce, AnsweredIsShut, InHand
<1>14. ResolvedIsShut'
  <2> SUFFICES ASSUME NEW i \in DOMAIN news', NEW r \in raised', Says(i, "resolved", r)' PROVE ~IsOpen(r)'
    BY DEF ResolvedIsShut
  <2>1. i \in DOMAIN news /\ Says(i, "resolved", r)
    BY <1>4, <1>6, <1>7
  <2>2. r \in raised
    BY <1>2, <2>1 DEF Says
  <2>3. QED
    BY <1>1, <1>9, <2>1, <2>2 DEF DialogInv, ResolvedIsShut
<1>15. OpenIsShown'
  <2> SUFFICES ASSUME NEW r \in raised', Sole(r)', IsOpen(r)' PROVE r \in shown' \/ \E i \in DOMAIN news' : Says(i, "asked", r)'
    BY DEF OpenIsShown
  <2>1. CASE r = q
    BY <1>4, <1>7, <2>1
  <2>2. CASE r # q
    <3>1. r \in raised /\ IsOpen(r) /\ Sole(r)
      BY <1>1, <1>9, <1>10, <2>2
    <3>2. QED
      BY <1>1, <1>4, <1>5, <3>1 DEF DialogInv, OpenIsShown
  <2>3. QED
    BY <2>1, <2>2
<1>16. \A r, i : ResolvedAfter(r, i) => ResolvedAfter(r, i)'
  <2> SUFFICES ASSUME NEW r, NEW i, ResolvedAfter(r, i) PROVE ResolvedAfter(r, i)'
    OBVIOUS
  <2>1. PICK j \in DOMAIN news : j > i /\ Says(j, "resolved", r)
    BY DEF ResolvedAfter
  <2>2. j \in DOMAIN news' /\ Says(j, "resolved", r)'
    BY <1>4, <1>6, <2>1
  <2>3. QED
    BY <2>1, <2>2 DEF ResolvedAfter
<1>17. AnnouncedEnds'
  <2> SUFFICES ASSUME NEW i \in DOMAIN news', NEW r \in raised', Sole(r)', Says(i, "asked", r)', r # q
               PROVE  Pending(r)' \/ ResolvedAfter(r, i)'
    BY <1>9 DEF AnnouncedEnds, Pending
  <2>1. i \in DOMAIN news /\ Says(i, "asked", r) /\ r \in raised /\ Sole(r)
    BY <1>2, <1>4, <1>5, <1>7, <1>10 DEF Says
  <2>2. Pending(r) \/ ResolvedAfter(r, i)
    BY <2>1 DEF DialogInv, AnnouncedEnds
  <2>3. QED
    BY <1>9, <1>16, <2>2
<1>18. ShownEnds => ShownEnds'
  BY <1>1, <1>8, <1>9, <1>10, <1>16 DEF ShownEnds
<1>19. QED
  BY <1>1, <1>11, <1>13, <1>14, <1>15, <1>17, <1>18 DEF DialogInv

\* The host holds the gate it has announced.
LEMMA InsertedStep == ASSUME DialogInv, NEW q, GateInserted(q) PROVE DialogInv'
<1>1. /\ q \in asking /\ asking' = asking \ {q} /\ gates' = Put(gates, {q})
      /\ UNCHANGED <<raised, closing, down, news, shown, listed, calls, left>>
  BY DEF GateInserted, windowSide
<1>2. q \in raised /\ q \notin gates /\ ~InHand(q) /\ ~Closing(q)
  BY <1>1 DEF DialogInv, DialogType, OpenOnce, IsOpen, Closing, CloserType
<1>3. /\ gates' \subseteq gates \cup {q} /\ q \in gates' /\ gates' \subseteq raised /\ OneOfKey(gates')
      /\ \A r \in gates : Sole(r) => r \in gates'
  <2>1. gates \in SUBSET raised /\ {q} \in SUBSET raised /\ OneOfKey(gates) /\ OneOfKey({q})
    BY <1>2 DEF DialogInv, DialogType, OneOfKey
  <2>2. QED
    BY <1>1, <2>1, PutKeeps DEF Sole
<1>4. Taken' = Taken /\ Done' = Done
  BY <1>1 DEF Taken, Done
<1>5. \A r : (InHand(r)' <=> InHand(r)) /\ (Closing(r)' <=> Closing(r)) /\ (IsOpen(r)' => IsOpen(r))
  BY <1>1, <1>3, <1>4 DEF InHand, Closing, IsOpen
<1>6. \A r : Sole(r) /\ Pending(r) => Pending(r)'
  BY <1>1, <1>3, <1>5 DEF Pending, IsOpen
<1>7. DialogType' /\ CalmType'
  <2>1. DialogType'
    BY <1>1, <1>3 DEF DialogInv, DialogType, OneOfKey, CallType, CloserType
  <2>2. QED
    BY <1>1, <2>1 DEF DialogInv, CalmType
<1>8. OpenOnce' /\ AnsweredIsShut'
  <2>1. \A c \in Taken : c.gate # q
    BY <1>2 DEF InHand
  <2>2. (\A r \in asking' : r \notin gates' /\ ~InHand(r)') /\ \A c \in Taken' : c.gate \notin gates'
    BY <1>1, <1>3, <1>4, <1>5, <2>1 DEF DialogInv, OpenOnce
  <2>3. QED
    BY <1>4, <1>5, <2>2 DEF DialogInv, OpenOnce, AnsweredIsShut
<1>9. SaysNothing
  BY <1>1, <1>4, <1>5, <1>6 DEF SaysNothing
<1>10. QED
  BY <1>1, <1>7, <1>8, <1>9, SaysNothingStep DEF DialogInv

\* Some gates of a task go, to a thread that tells their end or with a start that failed.
LEMMA DropsStep ==
    ASSUME DialogInv, NEW lost \in SUBSET gates, gates' = gates \ lost, UNCHANGED <<raised, asking, news, shown, listed, calls>>,
           UNCHANGED left \/ \E what : what # "calm" /\ Spend(what),
           \A c \in closing' : CloserType(c, raised),
           \A r : Closing(r) => Closing(r)',
           \A r : Closing(r)' => Closing(r) \/ r \in lost,
           down \subseteq down',
           \A r \in lost : Closing(r)' \/ r.task \in down'
    PROVE  DialogInv'
<1>1. CalmType' /\ left'.calm = left.calm
  BY SpendCalm DEF DialogInv, CalmType
<1>2. Taken' = Taken /\ Done' = Done
  BY DEF Taken, Done
<1>3. \A r : (InHand(r)' <=> InHand(r)) /\ (IsOpen(r)' <=> IsOpen(r) /\ r \notin lost)
  BY <1>2 DEF InHand, IsOpen, DialogInv, OpenOnce
<1>4. \A r : Pending(r) => Pending(r)'
  BY <1>3 DEF Pending
<1>5. DialogType'
  <2>1. \A c \in closing' : CloserType(c, raised)'
    BY DEF CloserType
  <2>2. OneOfKey(gates)'
    BY DEF DialogInv, DialogType, OneOfKey
  <2>3. QED
    BY <2>1, <2>2 DEF DialogInv, DialogType, OneOfKey, CallType
<1>6. OpenOnce' /\ AnsweredIsShut'
  BY <1>2, <1>3 DEF DialogInv, OpenOnce, AnsweredIsShut
<1>7. SaysNothing
  BY <1>2, <1>3, <1>4 DEF SaysNothing
<1>8. QED
  BY <1>1, <1>5, <1>6, <1>7, SaysNothingStep DEF DialogInv

LEMMA ClosesStep == ASSUME DialogInv, NEW t, TransportCloses(t) PROVE DialogInv'
<1> DEFINE d == [task |-> t, conn |-> conn[t], st |-> "seen", gates |-> {}]
<1>1. /\ closing' = closing \cup {d} /\ gates' = gates \ {} /\ down' = down /\ Spend("losses")
      /\ UNCHANGED <<raised, asking, news, shown, listed, calls>>
  BY DEF TransportCloses, windowSide
<1>2. CloserType(d, raised) /\ d.gates = {}
  BY DEF CloserType
<1> HIDE DEF d
<1>3. \A c \in closing' : CloserType(c, raised)
  BY <1>1, <1>2 DEF DialogInv, DialogType
<1>4. \A r : Closing(r)' <=> Closing(r)
  BY <1>1, <1>2 DEF Closing
<1>5. \E what : what # "calm" /\ Spend(what)
  BY <1>1
<1>6. {} \in SUBSET gates /\ \A r \in {} : Closing(r)' \/ r.task \in down'
  OBVIOUS
<1>7. QED
  BY <1>1, <1>3, <1>4, <1>5, <1>6, DropsStep

LEMMA CloserTakesStep == ASSUME DialogInv, NEW c, CloserTakes(c) PROVE DialogInv'
<1> DEFINE lost == {g \in gates : g.task = c.task}
           d == [c EXCEPT !.st = "taken", !.gates = lost]
           e == [task |-> c.task, conn |-> c.conn, st |-> "taken", gates |-> c.gates]
<1>1. /\ c \in closing /\ c.st = "seen" /\ gates' = gates \ lost /\ closing' = (closing \ {c}) \cup {d}
      /\ UNCHANGED <<raised, asking, down, news, shown, listed, calls, left>>
  BY DEF CloserTakes, CloserMoves, windowSide
<1>2. CloserType(c, raised) /\ lost \subseteq gates /\ gates \subseteq raised
  BY <1>1 DEF DialogInv, DialogType
<1>3. c.gates = {}
  BY <1>1, <1>2 DEF CloserType
<1> HIDE DEF lost
<1>4. d = [task |-> c.task, conn |-> c.conn, st |-> "taken", gates |-> lost]
  <2>1. [c EXCEPT !.st = "taken"] = e
    BY <1>2 DEF CloserType
  <2>2. [e EXCEPT !.gates = lost] = [task |-> c.task, conn |-> c.conn, st |-> "taken", gates |-> lost]
    OBVIOUS
  <2> HIDE DEF e
  <2>3. QED
    BY <2>1, <2>2, Zenon
<1> HIDE DEF d
<1>5. CloserType(d, raised) /\ d.gates = lost
  BY <1>2, <1>4 DEF CloserType
<1>6. \A b \in closing' : CloserType(b, raised)
  BY <1>1, <1>5 DEF DialogInv, DialogType
<1>7. \A r : Closing(r)' <=> Closing(r) \/ r \in lost
  BY <1>1, <1>3, <1>5 DEF Closing
<1>8. QED
  BY <1>1, <1>2, <1>6, <1>7, DropsStep

LEMMA CloserMarksStep == ASSUME DialogInv, NEW c, CloserMarks(c) PROVE DialogInv'
<1>1. /\ c.gates = {} /\ closing' = closing \ {c} /\ gates' = gates \ {}
      /\ UNCHANGED <<raised, asking, down, news, shown, listed, calls, left>>
  BY DEF CloserMarks, windowSide
<1>2. \A b \in closing' : CloserType(b, raised)
  BY <1>1 DEF DialogInv, DialogType
<1>3. \A r : Closing(r)' <=> Closing(r)
  BY <1>1 DEF Closing
<1>4. QED
  BY <1>1, <1>2, <1>3, DropsStep

LEMMA FailsStep == ASSUME DialogInv, NEW t, StartFails(t) PROVE DialogInv'
<1> DEFINE lost == {g \in gates : g.task = t}
<1>1. /\ gates' = gates \ lost /\ down' = down \cup {t} /\ Spend("fails")
      /\ UNCHANGED <<raised, asking, closing, news, shown, listed, calls>>
  BY DEF StartFails, windowSide
<1>2. lost \in SUBSET gates /\ \A r \in lost : r.task \in down'
  BY <1>1
<1> HIDE DEF lost
<1>3. (\A b \in closing' : CloserType(b, raised)) /\ \A r : Closing(r)' <=> Closing(r)
  BY <1>1 DEF DialogInv, DialogType, Closing
<1>4. QED
  BY <1>1, <1>2, <1>3, DropsStep

\* The end of one lost gate is told.
LEMMA CloserTellsStep == ASSUME DialogInv, NEW c, NEW g, CloserTells(c, g) PROVE DialogInv'
<1> DEFINE d == [c EXCEPT !.gates = @ \ {g}]
<1>1. /\ c \in closing /\ g \in c.gates /\ closing' = (closing \ {c}) \cup {d} /\ news' = news \o News("resolved", g)
      /\ UNCHANGED <<raised, asking, gates, down, shown, listed, calls, left>>
  BY DEF CloserTells, CloserMoves, windowSide
<1>2. CloserType(c, raised)
  BY <1>1 DEF DialogInv, DialogType
<1>3. CloserType(d, raised) /\ d.gates = c.gates \ {g}
  BY <1>2 DEF CloserType
<1> HIDE DEF d
<1>4. g \in raised /\ ~IsOpen(g)
  BY <1>1, <1>2 DEF DialogInv, OpenOnce, CloserType, Closing
<1>5. \A b \in closing' : CloserType(b, raised)
  BY <1>1, <1>3 DEF DialogInv, DialogType
<1>6. (\A r : Closing(r)' => Closing(r)) /\ \A r : Closing(r) /\ r # g => Closing(r)'
  BY <1>1, <1>3 DEF Closing
<1>7. Taken' = Taken /\ Done' = Done
  BY <1>1 DEF Taken, Done
<1>8. \A r : (InHand(r)' <=> InHand(r)) /\ (IsOpen(r)' <=> IsOpen(r))
  BY <1>1, <1>7 DEF InHand, IsOpen
<1>9. \A r : Pending(r) /\ r # g => Pending(r)'
  BY <1>1, <1>6, <1>8 DEF Pending
<1>10. /\ news' \in Seq([kind : {"asked", "resolved"}, req : raised])
       /\ ResolvedIsShut' /\ OpenIsShown' /\ AnnouncedEnds' /\ (ShownEnds => ShownEnds')
  BY <1>1, <1>4, <1>7, <1>8, <1>9, ShutStep
<1>11. DialogType'
  <2>1. \A b \in closing' : CloserType(b, raised)'
    BY <1>1, <1>5 DEF CloserType
  <2>2. QED
    BY <1>1, <1>10, <2>1 DEF DialogInv, DialogType, OneOfKey, CallType
<1>12. OpenOnce' /\ AnsweredIsShut' /\ CalmType'
  BY <1>1, <1>6, <1>7, <1>8 DEF DialogInv, OpenOnce, AnsweredIsShut, CalmType
<1>13. QED
  BY <1>1, <1>10, <1>11, <1>12 DEF DialogInv

\* The oldest news arrives; what follows it moves up by one.
LEMMA NewsStep == ASSUME DialogInv, NewsArrives PROVE DialogInv'
<1> DEFINE T == [kind : {"asked", "resolved"}, req : raised]
<1> DEFINE h == Head(news)
<1>1. UNCHANGED <<raised, asking, gates, closing, down, listed, calls, left>> /\ news # <<>> /\ news' = Tail(news)
  BY DEF NewsArrives
<1>2. /\ news \in Seq(T) /\ h \in T /\ 1 \in DOMAIN news /\ news[1] = h
      /\ news' \in Seq(T) /\ \A i \in DOMAIN news' : i \in Nat /\ i + 1 \in DOMAIN news /\ news'[i] = news[i + 1]
      /\ \A i \in DOMAIN news : i = 1 \/ (i - 1 \in DOMAIN news' /\ i - 1 + 1 = i)
  <2>1. news \in Seq(T)
    BY DEF DialogInv, DialogType
  <2> HIDE DEF T
  <2>2. QED
    BY <1>1, <2>1
<1>3. Taken' = Taken /\ Done' = Done
  BY <1>1 DEF Taken, Done
<1>4. \A r : (IsOpen(r)' <=> IsOpen(r)) /\ (Closing(r)' <=> Closing(r)) /\ (Pending(r)' <=> Pending(r)) /\ (Sole(r)' <=> Sole(r))
  BY <1>1, <1>3 DEF IsOpen, InHand, Closing, Pending, Sole
<1>5. h.req \in raised /\ (h.kind = "asked" \/ h.kind = "resolved") /\ Says(1, h.kind, h.req)
  BY <1>2 DEF Says
<1>6. /\ shown' \subseteq raised /\ OneOfKey(shown)' /\ shown' \subseteq shown \cup {h.req}
      /\ h.kind = "asked" => h.req \in shown'
      /\ h.kind # "asked" => shown' \subseteq shown /\ h.req \notin shown'
      /\ \A r \in shown : Sole(r) => r \in shown' \/ (h.kind = "resolved" /\ r = h.req)
  <2>1. shown' = IF h.kind = "asked" THEN Put(shown, {h.req}) ELSE shown \ OfKey(shown, h.req.key)
    BY DEF NewsArrives
  <2> HIDE DEF h
  <2>2. shown \in SUBSET raised /\ {h.req} \in SUBSET raised /\ OneOfKey(shown) /\ OneOfKey({h.req})
    BY <1>5 DEF DialogInv, DialogType, OneOfKey
  <2>3. CASE h.kind = "asked"
    <3>1. shown' = Put(shown, {h.req})
      BY <2>1, <2>3
    <3>2. shown' \subseteq raised /\ OneOfKey(shown') /\ h.req \in shown' /\ shown' \subseteq shown \cup {h.req}
      BY <2>2, <3>1, PutKeeps
    <3>3. \A r \in shown : Sole(r) => r \in shown'
      BY <2>2, <3>1, PutKeeps DEF Sole
    <3>4. QED
      BY <2>3, <3>2, <3>3 DEF OneOfKey
  <2>4. CASE h.kind # "asked"
    BY <1>5, <2>1, <2>2, <2>4 DEF OfKey, OneOfKey, Sole
  <2>5. QED
    BY <2>3, <2>4
<1> HIDE DEF h
<1>7. \A k, r : \A i \in DOMAIN news' : Says(i, k, r)' <=> Says(i + 1, k, r)
  BY <1>2 DEF Says
<1>8. \A r, i : ResolvedAfter(r, i + 1) /\ i \in Nat => ResolvedAfter(r, i)'
  <2> SUFFICES ASSUME NEW r, NEW i \in Nat, ResolvedAfter(r, i + 1) PROVE ResolvedAfter(r, i)'
    OBVIOUS
  <2>1. PICK j \in DOMAIN news : j > i + 1 /\ Says(j, "resolved", r)
    BY DEF ResolvedAfter
  <2>2. PICK m : m = j - 1
    OBVIOUS
  <2>3. m \in DOMAIN news' /\ m > i /\ m + 1 = j
    BY <1>2, <2>1, <2>2
  <2>4. QED
    BY <1>7, <2>1, <2>3 DEF ResolvedAfter
<1>9. DialogType' /\ CalmType'
  <2>1. DialogType'
    BY <1>1, <1>2, <1>6 DEF DialogInv, DialogType, OneOfKey, CallType, CloserType
  <2>2. QED
    BY <1>1, <2>1 DEF DialogInv, CalmType
<1>10. OpenOnce' /\ AnsweredIsShut' /\ ResolvedIsShut'
  <2>1. OpenOnce' /\ AnsweredIsShut'
    BY <1>1, <1>3, <1>4 DEF DialogInv, OpenOnce, AnsweredIsShut, InHand
  <2>2. ResolvedIsShut'
    BY <1>1, <1>2, <1>4, <1>7 DEF DialogInv, ResolvedIsShut
  <2>3. QED
    BY <2>1, <2>2
<1>11. h.kind = "resolved" => ~IsOpen(h.req)
  BY <1>2, <1>5 DEF DialogInv, ResolvedIsShut
<1>12. OpenIsShown'
  <2> SUFFICES ASSUME NEW r \in raised', Sole(r), IsOpen(r) PROVE r \in shown' \/ \E i \in DOMAIN news' : Says(i, "asked", r)'
    BY <1>4 DEF OpenIsShown
  <2>1. r \in shown \/ \E i \in DOMAIN news : Says(i, "asked", r)
    BY <1>1 DEF DialogInv, OpenIsShown
  <2>2. CASE r \in shown
    BY <1>6, <1>11, <2>2
  <2>3. ASSUME NEW i \in DOMAIN news, Says(i, "asked", r) PROVE r \in shown' \/ \E m \in DOMAIN news' : Says(m, "asked", r)'
    <3>1. CASE i = 1
      BY <1>2, <1>6, <2>3, <3>1 DEF Says
    <3>2. CASE i # 1
      <4>1. PICK m : m = i - 1
        OBVIOUS
      <4>2. m \in DOMAIN news' /\ m + 1 = i
        BY <1>2, <3>2, <4>1
      <4>3. QED
        BY <1>7, <2>3, <4>2
    <3>3. QED
      BY <3>1, <3>2
  <2>4. QED
    BY <2>1, <2>2, <2>3
<1>13. AnnouncedEnds'
  <2> SUFFICES ASSUME NEW i \in DOMAIN news', NEW r \in raised', Sole(r), Says(i, "asked", r)' PROVE Pending(r)' \/ ResolvedAfter(r, i)'
    BY <1>4 DEF AnnouncedEnds
  <2>1. i \in Nat /\ i + 1 \in DOMAIN news /\ Says(i + 1, "asked", r) /\ r \in raised
    BY <1>1, <1>2, <1>7
  <2>2. Pending(r) \/ ResolvedAfter(r, i + 1)
    BY <2>1 DEF DialogInv, AnnouncedEnds
  <2>3. QED
    BY <1>4, <1>8, <2>1, <2>2
<1>14. ASSUME ShownEnds PROVE ShownEnds'
  <2> SUFFICES ASSUME NEW r \in shown', Sole(r) PROVE Pending(r)' \/ ResolvedAfter(r, 0)' \/ \E c \in Done' : c.gate = r
    BY <1>4 DEF ShownEnds
  <2>1. CASE h.kind = "asked" /\ r = h.req
    <3>1. Pending(r) \/ ResolvedAfter(r, 1)
      BY <1>2, <1>5, <2>1 DEF DialogInv, AnnouncedEnds
    <3>2. ResolvedAfter(r, 0 + 1) => ResolvedAfter(r, 0)'
      BY <1>8
    <3>3. QED
      BY <1>4, <3>1, <3>2
  <2>2. CASE r \in shown /\ (h.kind = "asked" \/ r # h.req)
    <3>1. Pending(r) \/ ResolvedAfter(r, 0) \/ \E c \in Done : c.gate = r
      BY <1>14, <2>2 DEF ShownEnds
    <3>2. ASSUME ResolvedAfter(r, 0) PROVE ResolvedAfter(r, 0)'
      <4>1. PICK j \in DOMAIN news : j > 0 /\ Says(j, "resolved", r)
        BY <3>2 DEF ResolvedAfter
      <4>2. j # 1
        BY <1>2, <2>2, <4>1 DEF Says
      <4>3. j > 0 + 1
        BY <1>2, <4>1, <4>2
      <4>4. QED
        BY <1>8, <4>1, <4>3 DEF ResolvedAfter
    <3>3. QED
      BY <1>3, <1>4, <3>1, <3>2
  <2>3. QED
    BY <1>6, <2>1, <2>2
<1>15. QED
  BY <1>1, <1>9, <1>10, <1>12, <1>13, <1>14 DEF DialogInv

-----------------------------------------------------------------------------
\* A dialog filled in.
LEMMA FillsQuiet == ASSUME DialogInv, NEW r, NEW d, Fills(r, d) PROVE DialogInv'
  BY QuietStep DEF Fills, hostVars

\* What the host and its threads do.
HostActs ==
    \/ \E c \in calls : HostTakes(c) \/ HostDelivers(c) \/ \E again \in BOOLEAN : HostRefuses(c, again)
    \/ \E r \in Requests : Asks(r) \/ GateInserted(r)
    \/ \E t \in DialogTasks : TransportCloses(t) \/ StartFails(t)
    \/ \E c \in closing : CloserTakes(c) \/ CloserMarks(c) \/ \E g \in c.gates : CloserTells(c, g)

LEMMA HostStep == ASSUME DialogInv, HostActs PROVE DialogInv'
<1>1. CASE \E c \in calls : HostTakes(c) \/ HostDelivers(c) \/ \E again \in BOOLEAN : HostRefuses(c, again)
  BY <1>1, TakesStep, DeliversStep, RefusesStep
<1>2. CASE \E r \in Requests : Asks(r) \/ GateInserted(r)
  BY <1>2, AsksStep, InsertedStep
<1>3. CASE \E t \in DialogTasks : TransportCloses(t) \/ StartFails(t)
  BY <1>3, ClosesStep, FailsStep
<1>4. CASE \E c \in closing : CloserTakes(c) \/ CloserMarks(c) \/ \E g \in c.gates : CloserTells(c, g)
  BY <1>4, CloserTakesStep, CloserMarksStep, CloserTellsStep
<1>5. QED
  BY <1>1, <1>2, <1>3, <1>4 DEF HostActs

LEMMA DialogStep == ASSUME DialogInv, DialogNext PROVE DialogInv'
<1>1. CASE NewsArrives
  BY <1>1, NewsStep
<1>2. CASE HydrateAsks
  BY <1>2, HydrateAsksStep
<1>3. ASSUME NEW l \in listed, HydrateLands(l) PROVE DialogInv'
  BY <1>3, HydrateLandsStep
<1>4. ASSUME NEW t \in DialogTasks, Looks(t) PROVE DialogInv'
  BY <1>4, QuietStep DEF Looks, hostVars
<1>5. ASSUME NEW t \in DialogTasks, ModeSet(t) PROVE DialogInv'
  BY <1>5, ModeStep
<1>6. ASSUME NEW r \in Mounted, Comments(r) PROVE DialogInv'
  BY <1>6, FillsQuiet DEF Comments
<1>7. Mounted \subseteq shown
  BY DEF Mounted, Dialogs
<1>8. ASSUME NEW r \in Mounted, Presses(r) PROVE DialogInv'
  BY <1>7, <1>8, ResolvesStep DEF Presses
<1>9. ASSUME NEW r \in Mounted, NEW i \in DOMAIN r.questions,
             TogglesOther(r, i) \/ TypesOther(r, i) \/ \E l \in Labels : TogglesOption(r, i, l)
      PROVE  DialogInv'
  BY <1>9, FillsQuiet DEF TogglesOther, TypesOther, TogglesOption, FillsQuestion
<1>10. CASE EscapeKey
  <2>1. First(Mounted) \in shown
    BY <1>7, <1>10 DEF EscapeKey, Enabled
  <2>2. {First(Mounted)} \in SUBSET shown /\ Resolves({First(Mounted)}, "cancelled")
    BY <1>10, <2>1 DEF EscapeKey
  <2>3. QED
    BY <2>2, ResolvesStep
<1>11. CASE PlanKeys
  <2>1. {r \in Mounted : r.kind = "plan" /\ Enabled(r)} \in SUBSET shown
    BY <1>7
  <2>2. QED
    BY <1>11, <2>1, ResolvesStep DEF PlanKeys
<1>12. ASSUME NEW c \in calls, ResolveEnds(c) PROVE DialogInv'
  BY <1>12, EndsStep
<1>13. CASE HostActs
  BY <1>13, HostStep
<1>14. QED
  BY <1>1, <1>2, <1>3, <1>4, <1>5, <1>6, <1>8, <1>9, <1>10, <1>11, <1>12, <1>13 DEF DialogNext, HostActs

\* RequestDialogs, the host and the window of it: nothing is open in two ways, and
\* whatever ends one way of it is announced.
THEOREM DialogsInductive == DialogSpec => []DialogInv
<1>1. DialogInv /\ [DialogNext]_<<dialogVars, left>> => DialogInv'
  <2> SUFFICES ASSUME DialogInv, [DialogNext]_<<dialogVars, left>> PROVE DialogInv'
    OBVIOUS
  <2>1. CASE DialogNext
    BY <2>1, DialogStep
  <2>2. CASE UNCHANGED <<dialogVars, left>>
    BY <2>2, QuietStep DEF dialogVars
  <2>3. QED
    BY <2>1, <2>2
<1>2. QED
  BY <1>1, DialogsInitially, PTL DEF DialogSpec

\* resolve_permission, enqueue_permission, handle_transport_closed, useAgentEvents: for all
\* requests, tasks, losses and plans, of the requests whose key has not come again, a gate
\* the host holds has its dialog, or one is announced; and, when no connect reads the gates
\* again and the start of the task has not failed, a dialog has its gate, or is about to
\* have it, or is about to go.
THEOREM DialogsAgree == DialogSpec => []DialogsMatchGates
  BY DialogsInductive, InvMatches, PTL

-----------------------------------------------------------------------------
(* What the user puts into a dialog.                                       *)

\* The dialogs on the screen have a form each, of a piece for every question.
DraftsInv ==
    /\ DOMAIN drafts = Keys(Mounted)
    /\ \A r \in Mounted : "form" \in DOMAIN drafts[r.key] /\ DOMAIN drafts[r.key].form = DOMAIN r.questions
    /\ "picks" \in DOMAIN left /\ left.picks \in Nat

\* A plan that is spent from stays one.
LEMMA SpendPicks ==
    ASSUME DraftsInv, UNCHANGED left \/ \E what : Spend(what)
    PROVE  "picks" \in DOMAIN left' /\ left'.picks \in Nat
  BY DEF DraftsInv, Spend, May

\* The screen is drawn again, after the list of requests or the task has changed.
LEMMA Rendering ==
    ASSUME DialogInv, DialogInv', DraftsInv, UNCHANGED left \/ \E what : Spend(what),
           NEW again, drafts' = Rendered(drafts, shown', looked', again)
    PROVE  DraftsInv' /\ FormsKept
<1> DEFINE now == Dialogs(shown', looked')
           Form(r) == IF r.key \in DOMAIN drafts /\ DOMAIN drafts[r.key].form = DOMAIN r.questions
                      THEN drafts[r.key] ELSE Fresh(r)
<1>1. (\A r, q \in shown' : r.key = q.key => r = q) /\ now \subseteq shown'
  BY DEF DialogInv, DialogType, OneOfKey, Dialogs
<1>2. \A r \in now : OfKey(now, r.key) = {r}
  BY <1>1 DEF OfKey
<1>3. DOMAIN drafts' = Keys(now) /\ \A r \in now : drafts'[r.key] = Form(r)
  <2> DEFINE Of(k) == CHOOSE r \in OfKey(now, k) : TRUE
  <2>1. drafts' = [k \in Keys(now) |->
                     IF k \in DOMAIN drafts /\ DOMAIN drafts[k].form = DOMAIN Of(k).questions
                     THEN drafts[k] ELSE Fresh(Of(k))]
    BY DEF Rendered, ResetsByKey
  <2>2. \A r \in now : Of(r.key) = r
    BY <1>2
  <2>3. \A r \in now : r.key \in Keys(now)
    BY DEF Keys
  <2> HIDE DEF now, Of
  <2>4. QED
    BY <2>1, <2>2, <2>3
<1>4. Mounted' = now
  BY DEF Mounted
<1>5. \A k \in DOMAIN drafts : \E r \in shown : r \in Mounted /\ r.key = k /\ r.task = looked
  BY DEF DraftsInv, Keys, Mounted, Dialogs
<1>6. \A r \in now : "form" \in DOMAIN Form(r) /\ DOMAIN Form(r).form = DOMAIN r.questions
  <2> SUFFICES ASSUME NEW r \in now PROVE "form" \in DOMAIN Form(r) /\ DOMAIN Form(r).form = DOMAIN r.questions
    OBVIOUS
  <2>1. CASE r.key \in DOMAIN drafts /\ DOMAIN drafts[r.key].form = DOMAIN r.questions
    <3>1. PICK q \in Mounted : q.key = r.key
      BY <1>5, <2>1
    <3>2. "form" \in DOMAIN drafts[r.key]
      BY <3>1 DEF DraftsInv
    <3>3. QED
      BY <2>1, <3>2
  <2>2. CASE ~(r.key \in DOMAIN drafts /\ DOMAIN drafts[r.key].form = DOMAIN r.questions)
    BY <2>2 DEF Fresh
  <2>3. QED
    BY <2>1, <2>2
<1>7. DraftsInv'
  <2> HIDE DEF now, Form
  <2>1. QED
    BY <1>3, <1>4, <1>6, SpendPicks DEF DraftsInv
<1>8. FormsKept
  <2> SUFFICES ASSUME NEW r \in Mounted, looked' = looked, r \in shown' PROVE drafts'[r.key] = drafts[r.key]
    BY DEF FormsKept
  <2>1. r \in now
    BY DEF Mounted, Dialogs
  <2>2. r.key \in DOMAIN drafts /\ DOMAIN drafts[r.key].form = DOMAIN r.questions
    BY DEF DraftsInv, Keys
  <2> HIDE DEF now
  <2>3. QED
    BY <1>3, <2>1, <2>2
<1>9. QED
  BY <1>7, <1>8

\* A step that leaves the screen alone.
LEMMA ScreenKept ==
    ASSUME DraftsInv, UNCHANGED <<shown, looked, drafts>>, UNCHANGED left \/ \E what : Spend(what)
    PROVE  DraftsInv' /\ FormsKept
  BY SpendPicks DEF DraftsInv, Mounted, FormsKept

\* The user fills in one dialog, and his hand is what is spent.
LEMMA FillsKeeps ==
    ASSUME DialogInv, DraftsInv, NEW r \in Mounted, NEW d, Fills(r, d),
           "form" \in DOMAIN d, DOMAIN d.form = DOMAIN drafts[r.key].form
    PROVE  DraftsInv' /\ FormsKept
<1>1. drafts' = [drafts EXCEPT ![r.key] = d] /\ UNCHANGED <<shown, looked>> /\ Spend("picks")
  BY DEF Fills
<1>2. left'.picks # left.picks
  BY <1>1 DEF Spend, May, DraftsInv
<1>3. "picks" \in DOMAIN left' /\ left'.picks \in Nat
  BY <1>1, SpendPicks
<1>4. Mounted' = Mounted /\ DOMAIN drafts' = DOMAIN drafts
  BY <1>1 DEF Mounted
<1>5. \A q \in Mounted : /\ "form" \in DOMAIN drafts'[q.key]
                         /\ DOMAIN drafts'[q.key].form = DOMAIN q.questions
  <2> SUFFICES ASSUME NEW q \in Mounted
               PROVE  "form" \in DOMAIN drafts'[q.key] /\ DOMAIN drafts'[q.key].form = DOMAIN q.questions
    OBVIOUS
  <2>1. q.key \in DOMAIN drafts
    BY DEF DraftsInv, Keys
  <2>2. CASE q.key = r.key
    BY <1>1, <2>1, <2>2 DEF DraftsInv
  <2>3. CASE q.key # r.key
    BY <1>1, <2>1, <2>3 DEF DraftsInv
  <2>4. QED
    BY <2>2, <2>3
<1>6. QED
  BY <1>2, <1>3, <1>4, <1>5 DEF DraftsInv, FormsKept

LEMMA QuestionKeeps ==
    ASSUME DialogInv, DraftsInv, NEW r \in Mounted, NEW i, NEW q, FillsQuestion(r, i, q)
    PROVE  DraftsInv' /\ FormsKept
<1> DEFINE d == [drafts[r.key] EXCEPT !.form[i] = q]
<1>1. "form" \in DOMAIN drafts[r.key]
  BY DEF DraftsInv
<1>2. "form" \in DOMAIN d /\ DOMAIN d.form = DOMAIN drafts[r.key].form
  BY <1>1
<1>3. Fills(r, d)
  BY DEF FillsQuestion
<1> HIDE DEF d
<1>4. QED
  BY <1>2, <1>3, FillsKeeps

\* The host has no part in what is on the screen.
LEMMA HostLeavesScreen ==
    ASSUME HostActs \/ \E t : ModeSet(t)
    PROVE  UNCHANGED <<shown, looked, drafts>> /\ (UNCHANGED left \/ \E what : Spend(what))
<1>1. CASE \E t : ModeSet(t)
  BY <1>1 DEF ModeSet, windowSide
<1>2. ASSUME NEW c, HostTakes(c) \/ HostDelivers(c) \/ \E again \in BOOLEAN : HostRefuses(c, again)
      PROVE  UNCHANGED <<shown, looked, drafts>> /\ (UNCHANGED left \/ \E what : Spend(what))
  BY <1>2 DEF HostTakes, HostDelivers, HostRefuses, windowSide
<1>3. CASE (\E r : Asks(r) \/ GateInserted(r)) \/ \E t : TransportCloses(t) \/ StartFails(t)
  BY <1>3 DEF Asks, GateInserted, TransportCloses, StartFails, windowSide
<1>4. CASE \E c, g : CloserTakes(c) \/ CloserMarks(c) \/ CloserTells(c, g)
  BY <1>4 DEF CloserTakes, CloserMarks, CloserTells, windowSide
<1>5. QED
  BY <1>1, <1>2, <1>3, <1>4 DEF HostActs

LEMMA DraftsStep == ASSUME DialogInv, DialogInv', DraftsInv, DialogNext PROVE DraftsInv' /\ FormsKept
<1> DEFINE Kept == DraftsInv' /\ FormsKept
<1>1. CASE NewsArrives
  BY <1>1, Rendering DEF NewsArrives
<1>2. CASE HydrateAsks
  BY <1>2, ScreenKept DEF HydrateAsks
<1>3. ASSUME NEW l \in listed, HydrateLands(l) PROVE Kept
  BY <1>3, Rendering DEF HydrateLands
<1>4. ASSUME NEW t \in DialogTasks, Looks(t) PROVE Kept
  <2>1. drafts' = Rendered(drafts, shown', looked', {}) /\ Spend("selects")
    BY <1>4 DEF Looks
  <2>2. QED
    BY <2>1, Rendering
<1>5. CASE HostActs \/ \E t \in DialogTasks : ModeSet(t)
  BY <1>5, HostLeavesScreen, ScreenKept
<1>6. ASSUME NEW r \in Mounted, Comments(r) PROVE Kept
  <2> DEFINE d == [drafts[r.key] EXCEPT !.note = TRUE]
  <2>1. "form" \in DOMAIN d /\ d.form = drafts[r.key].form /\ Fills(r, d)
    BY <1>6 DEF Comments, DraftsInv
  <2> HIDE DEF d
  <2>2. QED
    BY <2>1, FillsKeeps
<1>7. ASSUME NEW rs, NEW option, Resolves(rs, option) PROVE Kept
  BY <1>7, ScreenKept DEF Resolves
<1>8. ASSUME NEW r \in Mounted, NEW i \in DOMAIN r.questions,
             TogglesOther(r, i) \/ TypesOther(r, i) \/ \E l \in Labels : TogglesOption(r, i, l)
      PROVE  Kept
  <2>1. \E q : FillsQuestion(r, i, q)
    BY <1>8 DEF TogglesOther, TypesOther, TogglesOption
  <2>2. QED
    BY <2>1, QuestionKeeps
<1>9. ASSUME NEW c, ResolveEnds(c) PROVE Kept
  <2>1. drafts' = Rendered(drafts, shown', looked', {}) /\ UNCHANGED left
    BY <1>9 DEF ResolveEnds
  <2>2. QED
    BY <2>1, Rendering
<1>10. CASE \E r \in Mounted : Presses(r)
  BY <1>7, <1>10 DEF Presses
<1>11. CASE EscapeKey \/ PlanKeys
  BY <1>7, <1>11 DEF EscapeKey, PlanKeys
<1>12. QED
  BY <1>1, <1>2, <1>3, <1>4, <1>5, <1>6, <1>8, <1>9, <1>10, <1>11 DEF DialogNext, HostActs

\* UserQuestionModal, PlanApprovalModal, PermissionModal: for all requests, tasks, losses and
\* answers, what the user has put into a dialog goes only by his own hand, with its request,
\* or by turning to another task; a repeated request or a new one takes nothing.
THEOREM FormsAreKept == DialogSpec => [][FormsKept]_<<dialogVars, left>>
<1>1. left \in Plans /\ DialogInit => DraftsInv
  BY DialogPlans DEF DialogInit, DraftsInv, Mounted, Dialogs, Keys
<1>2. DialogInv /\ DialogInv' /\ DraftsInv /\ [DialogNext]_<<dialogVars, left>>
        => DraftsInv' /\ [FormsKept]_<<dialogVars, left>>
  <2> SUFFICES ASSUME DialogInv, DialogInv', DraftsInv, [DialogNext]_<<dialogVars, left>>
               PROVE  DraftsInv' /\ [FormsKept]_<<dialogVars, left>>
    OBVIOUS
  <2>1. CASE DialogNext
    BY <2>1, DraftsStep
  <2>2. CASE UNCHANGED <<dialogVars, left>>
    BY <2>2, ScreenKept DEF dialogVars
  <2>3. QED
    BY <2>1, <2>2
<1>3. QED
  BY <1>1, <1>2, DialogsInductive, PTL DEF DialogSpec

-----------------------------------------------------------------------------
(* The composer (PromptComposer).                                          *)

\* A text in the panel was not typed; the agent has told its commands, or none.
ComposerInv ==
    /\ typed \in BOOLEAN /\ (highlighted # 0 => ~typed)
    /\ agentCommands \in {<<"none">>, Advertised}
    /\ sent \in Seq(ToSet(sent))

LEMMA OwnElements ==
    ASSUME NEW D, NEW q \in Seq(D)
    PROVE  q \in Seq(ToSet(q)) /\ DOMAIN q = 1..Len(q) /\ Len(q) \in Nat /\ ToSet(q) \subseteq D
<1>1. DOMAIN q = 1..Len(q) /\ Len(q) \in Nat /\ \A i \in 1..Len(q) : q[i] \in D
  OBVIOUS
<1>2. q \in [1..Len(q) -> ToSet(q)] /\ ToSet(q) \subseteq D
  BY <1>1 DEF ToSet
<1>3. QED
  BY <1>1, <1>2

LEMMA MergeTyped ==
    ASSUME NEW D, NEW p \in Seq(D), NEW q \in Seq(D)
    PROVE  Merge(p, q) \in Seq(D)
  BY OnlyKeeps, ConcatMembers DEF Merge

\* What the menu lists is of the catalog, whatever the query.
LEMMA MenuListsCatalog ==
    ASSUME ComposerInv
    PROVE  \A i \in 1..Len(Commands) : Commands[i] \in ToSet(Catalog)
<1> DEFINE D == ToSet(Builtins) \cup ToSet(Skills) \cup ToSet(Advertised)
<1>1. Builtins \in Seq(D) /\ Skills \in Seq(D) /\ Advertised \in Seq(D) /\ MenuLimit \in Nat /\ <<>> \in Seq(D)
  BY ComposerCommands
<1> HIDE DEF D
<1>2. Catalog \in Seq(D)
  BY <1>1, MergeTyped DEF Catalog, ComposerInv
<1>3. Catalog \in Seq(ToSet(Catalog))
  BY <1>2, OwnElements
<1>4. ASSUME NEW s \in Seq(ToSet(Catalog)) PROVE \A i \in 1..Len(Limited(s)) : Limited(s)[i] \in ToSet(Catalog)
  <2> DEFINE n == IF Len(s) < MenuLimit THEN Len(s) ELSE MenuLimit
  <2>1. n \in 0..Len(s)
    BY <1>1
  <2> HIDE DEF n
  <2>2. Len(SubSeq(s, 1, n)) = n /\ \A i \in 1..n : SubSeq(s, 1, n)[i] = s[i]
    BY <2>1
  <2>3. Limited(s) = SubSeq(s, 1, n)
    BY DEF Limited, n
  <2>4. QED
    BY <2>1, <2>2, <2>3
<1>5. \A q, r : Ranked(q, r) \in Seq(ToSet(Catalog))
  BY <1>3, OnlyKeeps DEF Ranked
<1>6. \A q : \A i \in 1..Len(Filter(q)) : Filter(q)[i] \in ToSet(Catalog)
  <2> SUFFICES ASSUME NEW q PROVE \A i \in 1..Len(Filter(q)) : Filter(q)[i] \in ToSet(Catalog)
    OBVIOUS
  <2>1. Ranked(q, 0) \o Ranked(q, 1) \o Ranked(q, 2) \in Seq(ToSet(Catalog))
    BY <1>5
  <2>2. (IF q = "" THEN Catalog ELSE Ranked(q, 0) \o Ranked(q, 1) \o Ranked(q, 2)) \in Seq(ToSet(Catalog))
    BY <1>3, <2>1
  <2>3. QED
    BY <1>4, <2>2 DEF Filter
<1>7. QED
  BY <1>6 DEF Commands

LEMMA RemovedTyped ==
    ASSUME NEW D, NEW q \in Seq(D), NEW i \in 1..Len(q)
    PROVE  RemoveAt(q, i) \in Seq(ToSet(RemoveAt(q, i)))
<1>1. SubSeq(q, 1, i - 1) \in Seq(D) /\ SubSeq(q, i + 1, Len(q)) \in Seq(D)
  OBVIOUS
<1>2. RemoveAt(q, i) \in Seq(D)
  BY <1>1 DEF RemoveAt
<1>3. QED
  BY <1>2, OwnElements

\* A step that leaves the text, or replaces one that was not typed or was empty.
LEMMA TextUntouched ==
    ASSUME ComposerInv, UNCHANGED <<agentCommands, sent>>,
           \/ UNCHANGED <<text, typed>> /\ highlighted' \in {0, highlighted}
           \/ typed' = TRUE /\ highlighted' = 0
           \/ typed' = FALSE /\ (~typed \/ text = Empty)
    PROVE  ComposerInv' /\ TextKept
<1>1. sent' \in Seq(ToSet(sent'))
  BY DEF ComposerInv
<1>2. typed' \in BOOLEAN /\ (highlighted' # 0 => ~typed')
  <2>1. CASE UNCHANGED <<text, typed>> /\ highlighted' \in {0, highlighted}
    BY <2>1 DEF ComposerInv
  <2>2. CASE typed' = TRUE /\ highlighted' = 0
    BY <2>2
  <2>3. CASE typed' = FALSE
    BY <2>3
  <2>4. QED
    BY <2>1, <2>2, <2>3
<1>3. agentCommands' \in {<<"none">>, Advertised}
  BY DEF ComposerInv
<1>4. TextKept
  BY DEF ComposerInv, TextKept
<1>5. QED
  BY <1>1, <1>2, <1>3, <1>4 DEF ComposerInv

LEMMA HistoryKeeps == ASSUME ComposerInv, HistoryKeys PROVE ComposerInv' /\ TextKept
<1>1. UNCHANGED <<agentCommands, sent>>
  BY DEF HistoryKeys, ArrowUp, ArrowDown, EscapeBrowse, Hover, Accept, HistoryKey, catalogVars
<1>2. typed' = FALSE
  BY DEF HistoryKeys, ArrowUp, ArrowDown, EscapeBrowse, Hover, Accept, SelectEntry, CancelBrowse, Fill
<1>3. highlighted # 0 \/ text = Empty
  BY DEF HistoryKeys, ArrowUp, ArrowDown, EscapeBrowse, Hover, Accept, OpensBrowse
<1>4. QED
  BY <1>1, <1>2, <1>3, TextUntouched DEF ComposerInv

LEMMA MenuKeeps == ASSUME ComposerInv, MenuKeys PROVE ComposerInv' /\ TextKept
<1>1. CASE MenuEscape \/ \E i \in 1..Len(Commands) : MenuMoves(i)
  BY <1>1, TextUntouched DEF MenuEscape, MenuMoves, MenuKey, catalogVars
<1>2. ASSUME NEW i \in 1..Len(Commands), Inserts(i) PROVE ComposerInv' /\ TextKept
  <2>1. text' = Inserted(Commands[i]) /\ typed' = FALSE /\ highlighted' = 0 /\ UNCHANGED <<agentCommands, sent>>
    BY <1>2 DEF Inserts, Fill, MenuKey, catalogVars
  <2>2. IsSlash(text)
    BY <1>2 DEF Inserts, MenuKey, ShowMenu, Commands
  <2>3. Commands[i] \in ToSet(Catalog)
    BY MenuListsCatalog
  <2>4. TextKept
    BY <2>1, <2>2, <2>3 DEF TextKept
  <2>5. QED
    BY <2>1, <2>4 DEF ComposerInv
<1>3. QED
  BY <1>1, <1>2 DEF MenuKeys

LEMMA SendKeeps == ASSUME ComposerInv, Send PROVE ComposerInv' /\ TextKept
<1>1. /\ text' = Empty /\ typed' = FALSE /\ highlighted' = 0 /\ UNCHANGED agentCommands
      /\ sent' = Append(sent, [to |-> picked, text |-> Payload])
  BY DEF Send, Fill, catalogVars
<1> DEFINE m == [to |-> picked, text |-> Payload]
           D == ToSet(sent) \cup {m}
<1>2. sent \in Seq(D)
  BY DEF ComposerInv
<1>3. sent' = Append(sent, m) /\ m \in D
  BY <1>1
<1> HIDE DEF m, D
<1>4. sent' \in Seq(D) /\ Len(sent') > Len(sent)
  BY <1>2, <1>3
<1>5. \A q \in Seq(D) : q \in Seq(ToSet(q))
  BY OwnElements
<1>6. sent' \in Seq(ToSet(sent'))
  BY <1>4, <1>5
<1>7. QED
  BY <1>1, <1>4, <1>6 DEF ComposerInv, TextKept

LEMMA EchoKeeps == ASSUME ComposerInv, NEW i \in 1..Len(sent), EchoArrives(i) PROVE ComposerInv' /\ TextKept
<1>1. UNCHANGED <<text, typed, agentCommands>> /\ sent' = RemoveAt(sent, i) /\ highlighted' \in {0, highlighted}
  BY DEF EchoArrives, PanelSettles, catalogVars
<1>2. RemoveAt(sent, i) \in Seq(ToSet(RemoveAt(sent, i)))
  BY RemovedTyped DEF ComposerInv
<1>3. sent' \in Seq(ToSet(sent'))
  BY <1>1, <1>2
<1>4. QED
  BY <1>1, <1>3 DEF ComposerInv, TextKept

LEMMA ComposerStep == ASSUME ComposerInv, ComposerNext PROVE ComposerInv' /\ TextKept
<1> DEFINE Kept == ComposerInv' /\ TextKept
<1>1. CASE HistoryKeys \/ MenuKeys
  BY <1>1, HistoryKeeps, MenuKeeps
<1>2. ASSUME NEW t \in Typed, Types(t) \/ OlderPage(t) PROVE Kept
  <2>1. CASE Types(t)
    BY <2>1, TextUntouched DEF Types, Detach, catalogVars
  <2>2. CASE OlderPage(t)
    BY <2>2, TextUntouched DEF OlderPage, PanelSettles, catalogVars
  <2>3. QED
    BY <1>2, <2>1, <2>2
<1>3. CASE EnterSends \/ ButtonSends
  BY <1>3, SendKeeps DEF EnterSends, ButtonSends
<1>4. CASE SendEnds \/ \E t \in Composers : PickTask(t)
  BY <1>4, TextUntouched DEF SendEnds, PickTask, catalogVars, historyVars
<1>5. CASE \E i \in 1..Len(sent) : EchoArrives(i)
  BY <1>5, EchoKeeps
<1>6. CASE DetailLands
  BY <1>6 DEF DetailLands, Fill, catalogVars, ComposerInv, TextKept
<1>7. CASE \E f \in {"f1", "f2"} : Attach("paste", f) \/ Attach("drop", f)
  BY <1>7, TextUntouched DEF Attach, catalogVars, historyVars
<1>8. CASE (\E p \in reading : FileRead(p)) \/ \E i \in 1..Len(items) : RemoveChip(i)
  BY <1>8, TextUntouched DEF FileRead, RemoveChip, catalogVars, historyVars
<1>9. CASE CatalogChanges(Advertised, inspected) \/ CatalogChanges(agentCommands, TRUE)
  <2>1. /\ UNCHANGED <<text, typed, highlighted, sent>>
        /\ agentCommands' \in {Advertised, agentCommands}
    BY <1>9 DEF CatalogChanges, historyVars
  <2>2. agentCommands' \in {<<"none">>, Advertised}
    BY <2>1 DEF ComposerInv
  <2>3. typed' \in BOOLEAN /\ (highlighted' # 0 => ~typed') /\ sent' \in Seq(ToSet(sent'))
    BY <2>1 DEF ComposerInv
  <2>4. TextKept
    BY <2>1 DEF TextKept
  <2>5. QED
    BY <2>2, <2>3, <2>4 DEF ComposerInv
<1>10. QED
  BY <1>1, <1>2, <1>3, <1>4, <1>5, <1>6, <1>7, <1>8, <1>9 DEF ComposerNext

-----------------------------------------------------------------------------
(* The three together (Composing).                                         *)

\* A step takes from the plan at most one thing, and a calm plan stays calm.
TakesFromPlan == UNCHANGED left \/ \E what : what # "calm" /\ Spend(what)

LEMMA QueueSpends == ASSUME QueueNext PROVE TakesFromPlan
<1>1. CASE Submit \/ SendFails \/ TurnEnds \/ ConnectionLost \/ Select
  BY <1>1 DEF TakesFromPlan, Submit, SendFails, TurnEnds, ConnectionLost, Select
<1>2. CASE HostServes
  BY <1>2 DEF TakesFromPlan, HostServes, SendAccepted, DispatchWrites, HostWrites, HostDrops
<1>3. CASE (\E m \in Messages, told \in BOOLEAN : DispatchFails(m, told)) \/ \E r \in runs : HostFails(r)
  BY <1>3 DEF TakesFromPlan, DispatchFails, HostFails
<1>4. CASE GrokReads \/ EventArrives
  BY <1>4 DEF TakesFromPlan, GrokReads, EventArrives
<1>5. CASE TimeIsUp \/ AckTimeout \/ UnlockTimer
  BY <1>5 DEF TakesFromPlan, TimeIsUp, AckTimeout, UnlockTimer, Late
<1>6. CASE RowClicks \/ ClearsAll \/ Saves
  BY <1>6 DEF TakesFromPlan, RowClicks, ClearsAll, Saves, Moves, Removes, SendsNow, OpensDraft, Ordered
<1>7. QED
  BY <1>1, <1>2, <1>3, <1>4, <1>5, <1>6 DEF QueueNext

LEMMA ComposerSpends == ASSUME ComposerNext PROVE TakesFromPlan
<1>1. CASE HistoryKeys \/ MenuKeys
  <2>1. CASE HistoryKeys
    BY <2>1 DEF TakesFromPlan, HistoryKeys, ArrowUp, ArrowDown, EscapeBrowse, Hover, Accept, HistoryKey
  <2>2. CASE MenuKeys
    BY <2>2 DEF TakesFromPlan, MenuKeys, MenuEscape, MenuMoves, Inserts, MenuKey
  <2>3. QED
    BY <1>1, <2>1, <2>2
<1>2. CASE (\E t \in Typed : Types(t) \/ OlderPage(t)) \/ \E t \in Composers : PickTask(t)
  BY <1>2 DEF TakesFromPlan, Types, OlderPage, PickTask
<1>3. CASE EnterSends \/ ButtonSends \/ SendEnds
  BY <1>3 DEF TakesFromPlan, EnterSends, ButtonSends, Send, SendEnds
<1>4. CASE DetailLands \/ \E i \in 1..Len(sent) : EchoArrives(i)
  BY <1>4 DEF TakesFromPlan, DetailLands, EchoArrives
<1>5. CASE \/ \E f \in {"f1", "f2"} : Attach("paste", f) \/ Attach("drop", f)
           \/ \E p \in reading : FileRead(p)
           \/ \E i \in 1..Len(items) : RemoveChip(i)
           \/ CatalogChanges(Advertised, inspected) \/ CatalogChanges(agentCommands, TRUE)
  BY <1>5 DEF TakesFromPlan, Attach, FileRead, RemoveChip, CatalogChanges
<1>6. QED
  BY <1>1, <1>2, <1>3, <1>4, <1>5 DEF ComposerNext

ComposingInv == QueueInv /\ ComposerInv /\ DialogInv /\ DraftsInv
AllKept == TextKept /\ FormsKept

\* What one part does is nothing to the other two.
LEMMA QueueStays == ASSUME QueueInv, UNCHANGED queueVars PROVE QueueInv'
  BY DEF QueueInv, queueVars, QueueType, OneRun, Asked, Dropped, QueuedNotLost, Unread

LEMMA ComposerStays == ASSUME ComposerInv, UNCHANGED composerVars PROVE ComposerInv' /\ TextKept
  BY DEF ComposerInv, composerVars, historyVars, catalogVars, TextKept

LEMMA DialogsStay ==
    ASSUME DialogInv, DraftsInv, UNCHANGED dialogVars, TakesFromPlan
    PROVE  DialogInv' /\ DraftsInv' /\ FormsKept
<1>1. UNCHANGED <<raised, asking, gates, closing, down, news, shown, listed, calls>> /\ UNCHANGED <<shown, looked, drafts>>
  BY DEF dialogVars
<1>2. QED
  BY <1>1, QuietStep, ScreenKept DEF TakesFromPlan

LEMMA ComposingStep == ASSUME ComposingInv, [Next]_vars PROVE ComposingInv' /\ [AllKept]_vars
<1>1. CASE Part("queue") /\ QueueNext /\ UNCHANGED <<composerVars, dialogVars>>
  <2>1. QueueInv'
    BY <1>1, QueueStep DEF ComposingInv
  <2>2. ComposerInv' /\ TextKept
    BY <1>1, ComposerStays DEF ComposingInv
  <2>3. DialogInv' /\ DraftsInv' /\ FormsKept
    BY <1>1, QueueSpends, DialogsStay DEF ComposingInv
  <2>4. QED
    BY <2>1, <2>2, <2>3 DEF ComposingInv, AllKept
<1>2. CASE Part("composer") /\ ComposerNext /\ UNCHANGED <<queueVars, dialogVars>>
  <2>1. QueueInv'
    BY <1>2, QueueStays DEF ComposingInv
  <2>2. ComposerInv' /\ TextKept
    BY <1>2, ComposerStep DEF ComposingInv
  <2>3. DialogInv' /\ DraftsInv' /\ FormsKept
    BY <1>2, ComposerSpends, DialogsStay DEF ComposingInv
  <2>4. QED
    BY <2>1, <2>2, <2>3 DEF ComposingInv, AllKept
<1>3. CASE Part("dialogs") /\ DialogNext /\ UNCHANGED <<queueVars, composerVars>>
  <2>1. QueueInv'
    BY <1>3, QueueStays DEF ComposingInv
  <2>2. ComposerInv' /\ TextKept
    BY <1>3, ComposerStays DEF ComposingInv
  <2>3. DialogInv'
    BY <1>3, DialogStep DEF ComposingInv
  <2>4. DraftsInv' /\ FormsKept
    BY <1>3, <2>3, DraftsStep DEF ComposingInv
  <2>5. QED
    BY <2>1, <2>2, <2>3, <2>4 DEF ComposingInv, AllKept
<1>4. CASE UNCHANGED vars
  <2>1. UNCHANGED queueVars /\ UNCHANGED composerVars /\ UNCHANGED dialogVars /\ TakesFromPlan
    BY <1>4 DEF vars, queueAll, TakesFromPlan
  <2>2. QED
    BY <1>4, <2>1, QueueStays, ComposerStays, DialogsStay DEF ComposingInv
<1>5. QED
  BY <1>1, <1>2, <1>3, <1>4 DEF Next

LEMMA ComposingInitially == Init => ComposingInv
<1> SUFFICES ASSUME Init PROVE ComposingInv
  OBVIOUS
<1>1. QueueInv
  BY InitHolds DEF Init
<1>2. ComposerInv
  <2>1. <<>> \in Seq(ToSet(<<>>))
    OBVIOUS
  <2>2. QED
    BY <2>1 DEF Init, ComposerInit, ComposerInv
<1>3. DialogInv
  BY DialogsInitially DEF Init
<1>4. DraftsInv
  BY DialogPlans DEF Init, DialogInit, DraftsInv, Mounted, Dialogs, Keys
<1>5. QED
  BY <1>1, <1>2, <1>3, <1>4 DEF ComposingInv

\* PromptBar, usePromptHistoryBrowse, PermissionGate: for any tasks, texts, commands and
\* plans, what the user typed goes only by being sent, completed to a command or with its
\* task; no key of the history, nothing that arrives and no dialog replaces it; and
\* nothing he does in the composer or in the queue takes what he put into a dialog.
THEOREM DraftsAreKept == Spec => DraftsKept
<1>1. ComposingInv /\ [Next]_vars => ComposingInv' /\ [TextKept /\ FormsKept]_vars
  BY ComposingStep DEF AllKept
<1>2. QED
  BY <1>1, ComposingInitially, PTL DEF Spec, DraftsKept

\* The same window: its messages are not lost, and its dialogs match the gates, in
\* whichever of the three parts the user works.
THEOREM ComposingSafe == Spec => [](QueuedNotLost /\ DialogsMatchGates)
<1>1. ComposingInv => QueuedNotLost /\ DialogsMatchGates
  BY InvMatches DEF ComposingInv, QueueInv
<1>2. ComposingInv /\ [Next]_vars => ComposingInv'
  BY ComposingStep
<1>3. QED
  BY <1>1, <1>2, ComposingInitially, PTL DEF Spec
=============================================================================
