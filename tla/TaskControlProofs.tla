-------------------------- MODULE TaskControlProofs --------------------------
(***************************************************************************)
(* While one thing at a time is done to a task and nothing fails, what the *)
(* window says of its mode, what the agent does and what the disk keeps    *)
(* are the same, for any models, modes, plans and number of agents.  The   *)
(* invariant says of each handler how far it has taken its change.         *)
(***************************************************************************)
EXTENDS TaskControl, SelectionsProofs

\* The handler under way, beside the push of a default model.
Hs(fs) == {f \in fs : f.kind # "default"}

IsInfo(a) ==
    /\ a = [handle |-> a.handle, status |-> a.status, perm |-> a.perm, model |-> a.model, catalog |-> a.catalog]
    /\ a.handle \in Nat
IsEvent(e) == e = [ch |-> e.ch, info |-> e.info] /\ e.ch \in {"status", "mode"} /\ IsInfo(e.info)

CallsOf(kind) ==
    CASE kind = "mode" -> {"setMode", "savePlan", "setPerm"}
      [] kind = "send" -> {"attach", "setMode", "setModel", "prompt"}
      [] kind \in {"model", "default"} -> {"setModel"}
      [] OTHER -> {kind}
Kinds == {"mode", "send", "spawn", "model", "default", "resolve", "stop", "list"}
FieldsOf(kind) ==
    CASE kind = "mode" -> {"todo", "live", "arg", "next", "plan", "perm"}
      [] kind = "send" -> {"stage", "arg", "planned", "shown", "attached", "warned", "prompt"}
      [] kind = "spawn" -> {"arg", "planned", "prompt"}
      [] kind = "resolve" -> {"arg"}
      [] OTHER -> {}

IsFlow(f) ==
    /\ f.kind \in Kinds /\ f.at \in CallsOf(f.kind) /\ f.ans \in {"none", "ok", "err"}
    /\ f.kind # "default" => IsInfo(f.info)
    /\ {"kind", "at", "ans", "info"} \cup FieldsOf(f.kind) \subseteq DOMAIN f

LeftShape == {"fails", "losses"} \subseteq DOMAIN left /\ left.fails \in Int /\ left.losses \in Int
EventShape == events \in Seq(ToSet(events)) /\ \A e \in ToSet(events) : IsEvent(e)
AgentShape ==
    /\ IsInfo(agent) /\ (Live(agent.status) \/ Gone(agent.status)) /\ (agent.handle = 0 => Gone(agent.status))
    /\ passed \in Nat /\ passed <= agent.handle
DiskShape == saved = [plan |-> saved.plan, perm |-> saved.perm] /\ saved.plan \in BOOLEAN
FlowShape == (\A f \in flows : IsFlow(f)) /\ \A f, g \in Hs(flows) : f = g
Shape == EventShape /\ AgentShape /\ DiskShape /\ FlowShape /\ plan \in {"off", "pending", "active"}

\* What a copy of an agent says: of the one there is what it runs with, of others that
\* they are gone.
Right(a) == a.handle = agent.handle => a.perm = agent.perm /\ (Gone(a.status) <=> Gone(agent.status))
Old(a) == a.handle <= agent.handle /\ (a.handle # agent.handle => Gone(a.status))
Copy(a) == Right(a) /\ Old(a)

IsStatus(i) == events[i].ch = "status"
NoWords == \A i \in DOMAIN events : IsStatus(i)
\* The event from which on all that is said of its agent is right.
Settles(i) ==
    /\ i \in DOMAIN events /\ IsStatus(i)
    /\ \A j \in DOMAIN events :
          j >= i /\ IsStatus(j) /\ events[j].info.handle = events[i].info.handle => Copy(events[j].info)
Heals(h) == \E i \in DOMAIN events : Settles(i) /\ events[i].info.handle = h

IsList(list) ==
    /\ list \in Seq(ToSet(list))
    /\ \A a \in ToSet(list) : IsInfo(a)
    /\ \A i, j \in DOMAIN list : list[i].handle = list[j].handle => i = j
EventsHeal == \A i \in DOMAIN events : IsStatus(i) => events[i].info.handle <= agent.handle /\ Heals(events[i].info.handle)
Listed(list) ==
    \/ \E a \in ToSet(list) : a.handle = agent.handle
    \/ \E i \in DOMAIN events : IsStatus(i) /\ events[i].info.handle = agent.handle

\* A list the window may have: what it says wrongly of an agent, an event will correct.
Fits(list) ==
    /\ IsList(list) /\ EventsHeal
    /\ \A a \in ToSet(list) : a.handle <= agent.handle /\ (Copy(a) \/ Heals(a.handle))
    /\ Live(agent.status) => Listed(list)
Copies == Fits(roster)

PermsAgree == perms = saved.perm \/ (perms = Unset /\ saved.perm = DefaultMode)
Agrees == Live(agent.status) /\ passed # agent.handle => (wire = "plan") = IsArmed(plan)

\* The handlers that have changed one side and not yet the other.
Leaves(f) == f.kind = "resolve" /\ f.ans = "ok" /\ LeavesPlan(f.arg)
Reapplies(f) == f.planned /\ ((f.stage = 1 /\ f.ans = "ok") \/ (f.stage = 2 /\ f.ans = "none"))
Spawned(f) == f.kind = "spawn" /\ f.ans = "ok"
Behind(f) ==
    \/ f.kind = "mode" /\ f.at = "setMode" /\ f.ans = "none"
    \/ f.kind = "send" /\ Reapplies(f)
    \/ Spawned(f) \/ Leaves(f)

Leaving == \E f \in Hs(flows) : Leaves(f)
Words ==
    \A i \in DOMAIN events : ~IsStatus(i) =>
        IF Leaving THEN events[i].info.status # "plan" ELSE (events[i].info.status = "plan") = IsArmed(plan)
PlanSaved == (\A f \in Hs(flows) : f.kind # "mode") => IsArmed(plan) = saved.plan
PermSaved == (\A f \in Hs(flows) : f.kind # "mode" /\ ~Spawned(f)) => PermsAgree
AgentTold == (\A f \in Hs(flows) : ~Behind(f)) => Agrees
Saved == PlanSaved /\ PermSaved /\ AgentTold

\* Before its task is made the window knows no agent.
Nobody == roster = <<>> /\ events = <<>> /\ agent.status = "none"
Unknown ==
    ~known => /\ ~IsArmed(plan) /\ NoWords
              /\ (\A f \in Hs(flows) : ~Spawned(f)) => Nobody
              /\ \A f \in Hs(flows) : f.kind = "spawn" \/ (f.kind = "list" /\ (f.ans = "ok" => f.info.status = "none"))

-----------------------------------------------------------------------------
(* What each handler has done, and what it has found.                      *)

\* Nothing is there when a new agent starts.
Clean == events = <<>> /\ Gone(agent.status) /\ \A a \in ToSet(roster) : Gone(a.status)

ModeFlow(f) ==
    /\ f.ans # "err" /\ (f.at # "setMode" => f.ans = "ok")
    /\ f.live \in BOOLEAN /\ f.next.armed \in BOOLEAN /\ f.todo \subseteq {"savePlan", "setPerm"}
    /\ f.at = "setMode" => f.live
    /\ f.at = "savePlan" => "savePlan" \notin f.todo
    /\ f.at = "setPerm" => f.todo = {} /\ saved.perm = f.next.perm
    /\ f.live => f.info.handle = agent.handle /\ Live(agent.status)
    /\ f.live /\ f.at = "setPerm" => Copy(f.info)
    /\ ~f.live /\ Live(agent.status) => passed = agent.handle
    /\ (f.arg = "plan") = f.next.armed /\ IsArmed(plan) = f.next.armed
    /\ "savePlan" \in f.todo \/ saved.plan = f.next.armed
    /\ IF "setPerm" \in f.todo THEN perms = f.next.perm ELSE PermsAgree

SendFlow(f) ==
    /\ f.stage \in 1..5 /\ f.at = CallOf(SendStages[f.stage])
    /\ {f.planned, f.attached} \subseteq BOOLEAN
    /\ f.stage = 1 => f.attached
    /\ f.stage = 1 /\ f.ans = "none" => Clean /\ f.arg = perms
    /\ f.stage = 1 /\ f.ans = "ok" => f.info.perm = saved.perm
    /\ f.stage > 1 \/ f.ans = "ok" => Copy(f.info) /\ (f.attached => f.info.handle = agent.handle)
    /\ f.stage \in {2, 4} => f.planned /\ f.arg = "plan"
    /\ f.stage = 2 => f.attached /\ (f.ans = "err" => Gone(agent.status))
    /\ f.planned = IsArmed(plan)
    /\ f.shown # "off" => f.planned
    /\ f.stage = 4 /\ f.ans = "ok" => wire = "plan"
    /\ f.stage = 5 /\ f.planned /\ ~f.warned => wire = "plan"

SpawnFlow(f) ==
    /\ ~known /\ f.planned \in BOOLEAN
    /\ f.ans = "none" => Clean /\ f.arg # Unset
    /\ f.ans = "ok" => saved.perm = f.arg /\ (wire = "plan") = f.planned /\ Copy(f.info)

Handler(f) ==
    CASE f.kind = "mode" -> ModeFlow(f)
      [] f.kind = "send" -> SendFlow(f)
      [] f.kind = "spawn" -> SpawnFlow(f)
      [] f.kind = "model" -> Copy(f.info)
      [] f.kind = "list" -> f.ans = "ok" => Copy(f.info)
      [] f.kind = "stop" -> /\ f.info.handle <= agent.handle
                            /\ f.ans # "none" /\ f.info.handle = agent.handle => Gone(agent.status)
      [] f.kind = "resolve" -> (f.ans = "none" => NoWords) /\ (Leaves(f) => wire # "plan")
      [] OTHER -> TRUE

Handled == \A f \in Hs(flows) : Handler(f)
CalmInv == Shape /\ Copies /\ Words /\ Saved /\ Unknown /\ Handled
Inv == LeftShape /\ (calm => CalmInv)

-----------------------------------------------------------------------------
(* Sequences: the list of agents, and the events.                          *)

\* A sequence is one of its own members.
LEMMA OwnMembers ==
    ASSUME NEW D, NEW q \in Seq(D)
    PROVE  /\ q \in Seq(ToSet(q)) /\ DOMAIN q = 1..Len(q) /\ Len(q) \in Nat
           /\ ToSet(q) = {q[i] : i \in 1..Len(q)} /\ ToSet(q) \subseteq D
<1>1. DOMAIN q = 1..Len(q) /\ Len(q) \in Nat /\ \A i \in 1..Len(q) : q[i] \in D
  OBVIOUS
<1>2. ToSet(q) = {q[i] : i \in 1..Len(q)}
  BY <1>1 DEF ToSet
<1>3. q \in [1..Len(q) -> ToSet(q)]
  BY <1>1, <1>2
<1>4. q \in Seq(ToSet(q))
  BY <1>1, <1>3
<1>5. QED
  BY <1>1, <1>2, <1>4

LEMMA ListMembers ==
    ASSUME NEW list, IsList(list)
    PROVE  /\ DOMAIN list = 1..Len(list) /\ Len(list) \in Nat /\ \A i \in 1..Len(list) : list[i] \in ToSet(list)
           /\ ToSet(list) = {list[i] : i \in 1..Len(list)}
           /\ \A a, b \in ToSet(list) : a.handle = b.handle => a = b
<1>1. DOMAIN list = 1..Len(list) /\ Len(list) \in Nat /\ ToSet(list) = {list[i] : i \in 1..Len(list)}
  BY OwnMembers DEF IsList
<1>2. QED
  BY <1>1 DEF IsList

\* upsertManaged puts one info in the place of the one with its handle.
LEMMA WithMembers ==
    ASSUME NEW list, IsList(list), NEW info, IsInfo(info)
    PROVE  /\ IsList(With(list, info))
           /\ ToSet(With(list, info)) = {a \in ToSet(list) : a.handle # info.handle} \cup {info}
<1> DEFINE at == {i \in DOMAIN list : list[i].handle = info.handle}
           l == With(list, info)
           n == Len(list)
           D == ToSet(list) \cup {info}
<1>1. DOMAIN list = 1..n /\ n \in Nat /\ (\A i \in 1..n : list[i] \in ToSet(list)) /\ ToSet(list) = {list[i] : i \in 1..n}
  BY ListMembers
<1>2. list \in Seq(D)
  <2>1. list \in [1..n -> D]
    BY <1>1 DEF IsList
  <2>2. QED
    BY <1>1, <2>1
<1>3. CASE at = {}
  <2>1. l = Append(list, info)
    BY <1>3 DEF With
  <2>2. l \in Seq(D) /\ Len(l) = n + 1 /\ l[n + 1] = info /\ \A i \in 1..n : l[i] = list[i]
    BY <1>1, <1>2, <2>1
  <2>3. \A i \in 1..n : list[i].handle # info.handle
    BY <1>1, <1>3
  <2> HIDE DEF l, at
  <2>4. l \in Seq(ToSet(l)) /\ DOMAIN l = 1..(n + 1) /\ ToSet(l) = {l[i] : i \in 1..(n + 1)}
    BY <2>2, OwnMembers
  <2>5. \A i \in 1..(n + 1) : i \in 1..n \/ i = n + 1
    BY <1>1
  <2>6. ToSet(l) = ToSet(list) \cup {info}
    <3>1. 1..(n + 1) = 1..n \cup {n + 1}
      BY <1>1
    <3>2. {l[i] : i \in 1..n} = {list[i] : i \in 1..n}
      BY <2>2
    <3>3. {l[i] : i \in 1..n \cup {n + 1}} = {l[i] : i \in 1..n} \cup {l[n + 1]}
      OBVIOUS
    <3>4. l[n + 1] = info
      BY <2>2
    <3>5. QED
      BY <1>1, <2>4, <3>1, <3>2, <3>3, <3>4
  <2>7. \A i, j \in DOMAIN l : l[i].handle = l[j].handle => i = j
    BY <1>1, <2>2, <2>3, <2>4, <2>5 DEF IsList
  <2>8. \A a \in ToSet(list) : a.handle # info.handle
    BY <1>1, <2>3
  <2>9. IsList(l)
    BY <2>4, <2>6, <2>7 DEF IsList
  <2>10. ToSet(l) = {a \in ToSet(list) : a.handle # info.handle} \cup {info}
    BY <2>6, <2>8
  <2>11. QED
    BY <2>9, <2>10 DEF l
<1>4. CASE at # {}
  <2>1. PICK k \in 1..n : list[k].handle = info.handle
    BY <1>1, <1>4
  <2>2. at = {k}
    BY <1>1, <2>1 DEF IsList
  <2>3. Min(at) = k
    BY <2>1, <2>2, <1>1 DEF Min
  <2>4. l = [list EXCEPT ![k] = info]
    BY <1>4, <2>3 DEF With
  <2>5. l \in Seq(D) /\ Len(l) = n /\ l[k] = info /\ \A i \in 1..n : i # k => l[i] = list[i]
    BY <1>1, <1>2, <2>1, <2>4
  <2>6. \A i \in 1..n : i # k => list[i].handle # info.handle
    BY <1>1, <2>1 DEF IsList
  <2> HIDE DEF l, at
  <2>7. l \in Seq(ToSet(l)) /\ DOMAIN l = 1..n /\ ToSet(l) = {l[i] : i \in 1..n}
    BY <2>5, OwnMembers
  <2>8. ToSet(l) = {a \in ToSet(list) : a.handle # info.handle} \cup {info}
    <3>1. ASSUME NEW a \in ToSet(l) PROVE a \in {b \in ToSet(list) : b.handle # info.handle} \cup {info}
      <4>1. PICK i \in 1..n : a = l[i]
        BY <2>7
      <4>2. CASE i = k
        BY <4>1, <4>2, <2>5
      <4>3. CASE i # k
        BY <4>1, <4>3, <1>1, <2>5, <2>6
      <4>4. QED
        BY <4>2, <4>3
    <3>2. ASSUME NEW a \in ToSet(list), a.handle # info.handle PROVE a \in ToSet(l)
      <4>1. PICK i \in 1..n : a = list[i]
        BY <1>1
      <4>2. i # k /\ l[i] = a
        BY <4>1, <3>2, <2>1, <2>5
      <4>3. QED
        BY <4>2, <2>7
    <3>3. info \in ToSet(l)
      BY <2>1, <2>5, <2>7
    <3>4. QED
      BY <3>1, <3>2, <3>3
  <2>9. \A i, j \in DOMAIN l : l[i].handle = l[j].handle => i = j
    BY <1>1, <2>1, <2>5, <2>6, <2>7 DEF IsList
  <2>10. \A a \in ToSet(l) : IsInfo(a)
    BY <2>8 DEF IsList
  <2>11. IsList(l)
    BY <2>7, <2>9, <2>10 DEF IsList
  <2>12. QED
    BY <2>8, <2>11 DEF l
<1>5. QED
  BY <1>3, <1>4

\* What is left of a list is a list.
LEMMA OnlyOfList ==
    ASSUME NEW list, IsList(list), NEW S
    PROVE  IsList(Only(list, S)) /\ ToSet(Only(list, S)) = ToSet(list) \cap S
<1> DEFINE q == Only(list, S)
<1>1. list \in Seq(ToSet(list)) /\ DOMAIN list = 1..Len(list)
  BY ListMembers DEF IsList
<1>2. q \in Seq(ToSet(list)) /\ ToSet(q) = ToSet(list) \cap S
  BY <1>1, OnlyKeeps
<1>3. \A i, j \in 1..Len(q) : i < j => \E a, b \in 1..Len(list) : a < b /\ q[i] = list[a] /\ q[j] = list[b]
  BY <1>1, OnlyInOrder
<1> HIDE DEF q
<1>4. q \in Seq(ToSet(q)) /\ DOMAIN q = 1..Len(q) /\ Len(q) \in Nat
  BY <1>2, OwnMembers
<1>5. \A i, j \in 1..Len(q) : i < j => q[i].handle # q[j].handle
  <2> SUFFICES ASSUME NEW i \in 1..Len(q), NEW j \in 1..Len(q), i < j PROVE q[i].handle # q[j].handle
    OBVIOUS
  <2>1. PICK a \in 1..Len(list), b \in 1..Len(list) : a < b /\ q[i] = list[a] /\ q[j] = list[b]
    BY <1>3
  <2>2. QED
    BY <1>1, <2>1 DEF IsList
<1>6. \A i, j \in DOMAIN q : q[i].handle = q[j].handle => i = j
  BY <1>4, <1>5
<1>7. QED
  BY <1>2, <1>4, <1>6 DEF IsList, q

-----------------------------------------------------------------------------
(* What is emitted, and what is delivered.                                 *)

\* An event is added at the end.
LEMMA Said ==
    ASSUME EventShape, NEW e, IsEvent(e), events' = Append(events, e)
    PROVE  /\ EventShape' /\ DOMAIN events' = 1..(Len(events) + 1) /\ DOMAIN events = 1..Len(events)
           /\ Len(events) \in Nat
           /\ events'[Len(events) + 1] = e /\ \A i \in DOMAIN events : events'[i] = events[i]
<1> DEFINE n == Len(events)
           D == ToSet(events) \cup {e}
<1>1. DOMAIN events = 1..n /\ n \in Nat /\ ToSet(events) = {events[i] : i \in 1..n}
  BY OwnMembers DEF EventShape
<1>2. events \in Seq(D)
  <2>1. events \in [1..n -> D]
    BY <1>1 DEF EventShape
  <2>2. QED
    BY <1>1, <2>1
<1>3. events' \in Seq(D) /\ Len(events') = n + 1 /\ events'[n + 1] = e /\ \A i \in 1..n : events'[i] = events[i]
  BY <1>1, <1>2
<1>4. events' \in Seq(ToSet(events')) /\ DOMAIN events' = 1..(n + 1) /\ ToSet(events') \subseteq D
  BY <1>3, OwnMembers
<1>5. \A x \in ToSet(events') : IsEvent(x)
  BY <1>4 DEF EventShape
<1>6. QED
  BY <1>1, <1>3, <1>4, <1>5 DEF EventShape

\* The first event is taken.
LEMMA Heard ==
    ASSUME EventShape, events # <<>>, events' = Tail(events)
    PROVE  /\ EventShape' /\ DOMAIN events = 1..Len(events) /\ Len(events) \in Nat \ {0}
           /\ DOMAIN events' = 1..(Len(events) - 1) /\ \A i \in 1..(Len(events) - 1) : events'[i] = events[i + 1]
           /\ Head(events) = events[1] /\ IsEvent(events[1])
<1> DEFINE n == Len(events)
           D == ToSet(events)
<1>1. DOMAIN events = 1..n /\ n \in Nat /\ D = {events[i] : i \in 1..n} /\ events \in Seq(D)
  BY OwnMembers DEF EventShape
<1>2. n # 0 /\ 1 \in 1..n
  BY <1>1
<1> HIDE DEF D
<1>3. events' \in Seq(D) /\ Len(events') = n - 1 /\ \A i \in 1..(n - 1) : events'[i] = events[i + 1]
  BY <1>1, <1>2
<1>4. events' \in Seq(ToSet(events')) /\ DOMAIN events' = 1..(n - 1) /\ ToSet(events') \subseteq D
  BY <1>3, OwnMembers
<1>5. \A x \in ToSet(events') : IsEvent(x)
  BY <1>4 DEF EventShape, D
<1>6. IsEvent(events[1]) /\ Head(events) = events[1]
  BY <1>1, <1>2 DEF EventShape, D
<1>7. QED
  BY <1>1, <1>2, <1>3, <1>4, <1>5, <1>6 DEF EventShape

\* One info, and two, said of an agent.
StatusOf(info) == [ch |-> "status", info |-> info]
LEMMA EmitsOne ==
    ASSUME EventShape, NEW a, Emit(<<a>>)
    PROVE  events' = Append(events, StatusOf(a))
<1> DEFINE one == <<a>>
           said == [i \in DOMAIN one |-> [ch |-> "status", info |-> one[i]]]
<1>1. said = <<StatusOf(a)>>
  <2>1. DOMAIN one = 1..1 /\ one[1] = a
    OBVIOUS
  <2>2. said = [i \in 1..1 |-> StatusOf(a)]
    BY <2>1 DEF StatusOf
  <2> HIDE DEF said
  <2>3. <<StatusOf(a)>> = [i \in 1..1 |-> StatusOf(a)]
    OBVIOUS
  <2>4. QED
    BY <2>2, <2>3
<1>2. events' = events \o said
  BY DEF Emit
<1>3. events \in Seq(ToSet(events) \cup {StatusOf(a)})
  <2>1. events \in [1..Len(events) -> ToSet(events)] /\ Len(events) \in Nat
    BY OwnMembers DEF EventShape
  <2>2. QED
    BY <2>1
<1> HIDE DEF said
<1>4. events \o <<StatusOf(a)>> = Append(events, StatusOf(a))
  BY <1>3
<1>5. QED
  BY <1>1, <1>2, <1>4

\* A word before, and the last word.
LEMMA EmitsTwo ==
    ASSUME EventShape, NEW a, NEW b, IsInfo(a), Emit(<<a, b>>)
    PROVE  events' = Append(Append(events, StatusOf(a)), StatusOf(b))
<1> DEFINE two == <<a, b>>
           said == [i \in DOMAIN two |-> [ch |-> "status", info |-> two[i]]]
           D == ToSet(events) \cup {StatusOf(a), StatusOf(b)}
<1>1. DOMAIN two = 1..2 /\ two[1] = a /\ two[2] = b
  OBVIOUS
<1>2. said = <<StatusOf(a), StatusOf(b)>>
  <2>1. said = [i \in 1..2 |-> IF i = 1 THEN StatusOf(a) ELSE StatusOf(b)]
    BY <1>1 DEF StatusOf
  <2> HIDE DEF said
  <2>2. <<StatusOf(a), StatusOf(b)>> = [i \in 1..2 |-> IF i = 1 THEN StatusOf(a) ELSE StatusOf(b)]
    OBVIOUS
  <2>3. QED
    BY <2>1, <2>2
<1>3. events' = events \o said
  BY DEF Emit
<1>4. events \in Seq(D) /\ StatusOf(a) \in D /\ StatusOf(b) \in D
  <2>1. events \in [1..Len(events) -> ToSet(events)] /\ Len(events) \in Nat
    BY OwnMembers DEF EventShape
  <2>2. QED
    BY <2>1
<1> HIDE DEF said, D
<1>5. events \o <<StatusOf(a), StatusOf(b)>> = Append(Append(events, StatusOf(a)), StatusOf(b))
  BY <1>4
<1>6. QED
  BY <1>2, <1>3, <1>5

-----------------------------------------------------------------------------
(* What the window's list and the events say of the agents.                *)

\* A true copy is put into the list.
LEMMA FitsWith ==
    ASSUME NEW list, Fits(list), NEW a, IsInfo(a), Copy(a)
    PROVE  Fits(With(list, a))
<1> DEFINE l == With(list, a)
<1>1. IsList(l) /\ ToSet(l) = {b \in ToSet(list) : b.handle # a.handle} \cup {a}
  BY WithMembers DEF Fits
<1> HIDE DEF l
<1>2. \A b \in ToSet(l) : b.handle <= agent.handle /\ (Copy(b) \/ Heals(b.handle))
  BY <1>1 DEF Fits, Copy, Old
<1>3. Live(agent.status) => Listed(l)
  BY <1>1 DEF Fits, Listed
<1>4. Fits(l)
  BY <1>1, <1>2, <1>3 DEF Fits
<1>5. QED
  BY <1>4 DEF l

\* The copy of an agent that is gone leaves the list.
LEMMA FitsOnly ==
    ASSUME NEW list, Fits(list), NEW h, Live(agent.status) => h # agent.handle
    PROVE  Fits(Only(list, {a \in ToSet(list) : a.handle # h}))
<1> DEFINE l == Only(list, {a \in ToSet(list) : a.handle # h})
<1>1. IsList(l) /\ ToSet(l) = {a \in ToSet(list) : a.handle # h}
  BY OnlyOfList DEF Fits
<1> HIDE DEF l
<1>2. \A b \in ToSet(l) : b.handle <= agent.handle /\ (Copy(b) \/ Heals(b.handle))
  BY <1>1 DEF Fits
<1>3. Live(agent.status) => Listed(l)
  BY <1>1 DEF Fits, Listed
<1>4. Fits(l)
  BY <1>1, <1>2, <1>3 DEF Fits
<1>5. QED
  BY <1>4 DEF l

\* Nothing is said, and the agent is what it was.
Same == agent'.handle = agent.handle /\ agent'.perm = agent.perm /\ (Gone(agent'.status) <=> Gone(agent.status))
LEMMA CopiesKept ==
    ASSUME NEW list, Fits(list), roster' = list, events' = events, Same, Live(agent'.status) => Live(agent.status)
    PROVE  Copies'
<1>1. \A a : Copy(a)' <=> Copy(a)
  BY DEF Copy, Right, Old, Same
<1>2. \A h : Heals(h)' <=> Heals(h)
  BY <1>1 DEF Heals, Settles, IsStatus
<1>3. EventsHeal'
  BY <1>2 DEF Fits, EventsHeal, IsStatus, Same
<1>4. \A a \in ToSet(list) : a.handle <= agent'.handle /\ (Copy(a)' \/ Heals(a.handle)')
  BY <1>1, <1>2 DEF Fits, Same
<1>5. QED
  BY <1>3, <1>4 DEF Copies, Fits, Listed, IsStatus, IsList, Same

\* What is true of the other agents stays true.
OthersStay(h) == \A b : b.handle \in Nat /\ b.handle # h /\ b.handle <= agent.handle /\ Copy(b) => Copy(b)'

\* Of one agent something is said, and the last word is right: the agent there is, a new
\* one, or an old one.
LEMMA CopiesTold ==
    ASSUME EventShape, NEW list, Fits(list), roster' = list, IsInfo(agent), IsInfo(agent'), agent.handle <= agent'.handle,
           NEW a, IsInfo(a), Copy(a)', OthersStay(a.handle),
           Live(agent'.status) => (Live(agent.status) /\ agent'.handle = agent.handle) \/ a.handle = agent'.handle,
           NEW n, n = Len(events), n \in Nat, DOMAIN events = 1..n,
           NEW m \in Nat, m > n, DOMAIN events' = 1..m,
           \A i \in 1..n : events'[i] = events[i],
           \A i \in (n + 1)..m : events'[i].ch = "status" /\ events'[i].info.handle = a.handle,
           events'[m].info = a
    PROVE  Copies'
<1>1. IsList(list) /\ EventsHeal /\ \A b \in ToSet(list) : b.handle <= agent.handle /\ (Copy(b) \/ Heals(b.handle))
  BY DEF Fits
<1>2. m \in DOMAIN events' /\ events'[m].ch = "status" /\ events'[m].info.handle = a.handle
  OBVIOUS
<1>3. \A p : p = m => Settles(p)'
  <2>1. \A j \in DOMAIN events' : j >= m => j = m
    OBVIOUS
  <2>2. QED
    BY <1>2, <2>1 DEF Settles, IsStatus
<1>4. Heals(a.handle)'
  BY <1>2, <1>3 DEF Heals
<1>5. ASSUME NEW i \in DOMAIN events, Settles(i), events[i].info.handle # a.handle
      PROVE  Settles(i)'
  <2>1. i \in 1..n /\ i \in DOMAIN events' /\ events'[i] = events[i]
    OBVIOUS
  <2>2. ASSUME NEW j \in DOMAIN events', j >= i, IsStatus(j)', events'[j].info.handle = events'[i].info.handle
        PROVE  Copy(events[j].info)'
    <3>1. j \in 1..n
      BY <1>5, <2>1, <2>2
    <3>2. events'[j] = events[j] /\ j \in DOMAIN events
      BY <3>1
    <3>3. IsStatus(j) /\ events[j].info.handle = events[i].info.handle
      BY <2>1, <2>2, <3>2 DEF IsStatus
    <3>4. Copy(events[j].info) /\ events[j].info.handle <= agent.handle
      BY <1>1, <1>5, <2>2, <3>2, <3>3 DEF Settles, EventsHeal
    <3>5. events[j].info.handle \in Nat
      <4>1. events[j] \in ToSet(events)
        BY <3>2 DEF ToSet
      <4>2. QED
        BY <4>1 DEF EventShape, IsEvent, IsInfo
    <3>6. \A b : b = events[j].info => Copy(b)'
      BY <1>5, <3>3, <3>4, <3>5 DEF OthersStay
    <3>7. QED
      BY <3>2, <3>6
  <2>3. IsStatus(i)'
    BY <1>5, <2>1 DEF Settles, IsStatus
  <2>4. QED
    BY <2>1, <2>2, <2>3 DEF Settles
<1>6. ASSUME NEW h, h # a.handle, Heals(h) PROVE Heals(h)'
  <2>1. PICK i \in DOMAIN events : Settles(i) /\ events[i].info.handle = h
    BY <1>6 DEF Heals
  <2>2. Settles(i)' /\ i \in DOMAIN events' /\ events'[i].info.handle = h
    BY <1>5, <1>6, <2>1
  <2>3. QED
    BY <2>2 DEF Heals
<1>7. EventsHeal'
  <2> SUFFICES ASSUME NEW i \in DOMAIN events', IsStatus(i)'
               PROVE  events'[i].info.handle <= agent'.handle /\ Heals(events[i].info.handle)'
    BY DEF EventsHeal
  <2>1. CASE events'[i].info.handle = a.handle
    BY <1>4, <2>1 DEF Copy, Old
  <2>2. CASE events'[i].info.handle # a.handle
    <3>1. i \in 1..n
      BY <2>2
    <3>2. IsStatus(i) /\ events'[i] = events[i] /\ i \in DOMAIN events
      BY <3>1 DEF IsStatus
    <3>3. events[i].info.handle <= agent.handle /\ Heals(events[i].info.handle)
      BY <1>1, <3>2 DEF EventsHeal
    <3>4. Heals(events[i].info.handle)'
      BY <1>6, <2>2, <3>2, <3>3
    <3>5. events[i].info.handle \in Nat
      <4>1. events[i] \in ToSet(events)
        BY <3>2 DEF ToSet
      <4>2. QED
        BY <4>1 DEF EventShape, IsEvent, IsInfo
    <3>6. events'[i].info.handle <= agent'.handle
      BY <3>2, <3>3, <3>5 DEF IsInfo
    <3>7. QED
      BY <3>4, <3>6
  <2>3. QED
    BY <2>1, <2>2
<1>8. ASSUME NEW b \in ToSet(list) PROVE b.handle <= agent'.handle /\ (Copy(b)' \/ Heals(b.handle)')
  <2>1. b.handle <= agent.handle /\ b.handle \in Nat
    BY <1>1 DEF IsList, IsInfo
  <2>2. b.handle <= agent'.handle
    BY <2>1 DEF IsInfo
  <2>3. QED
    BY <1>1, <1>4, <1>6, <2>1, <2>2 DEF OthersStay
<1>9. Live(agent'.status) => Listed(list)'
  <2>1. CASE a.handle = agent'.handle
    BY <1>2, <2>1 DEF Listed, IsStatus
  <2>2. CASE a.handle # agent'.handle
    <3>1. Live(agent'.status) => Listed(list) /\ agent'.handle = agent.handle
      BY <2>2 DEF Fits
    <3>2. \A i \in DOMAIN events : i \in DOMAIN events' /\ events'[i] = events[i]
      OBVIOUS
    <3>3. QED
      BY <3>1, <3>2 DEF Listed, IsStatus
  <2>3. QED
    BY <2>1, <2>2
<1>10. QED
  BY <1>1, <1>7, <1>8, <1>9 DEF Copies, Fits, IsList, Listed

\* One word is said of an agent, or two.
LEMMA OneSaid ==
    ASSUME EventShape, NEW list, Fits(list), roster' = list, IsInfo(agent), IsInfo(agent'), agent.handle <= agent'.handle,
           NEW a, IsInfo(a), Copy(a)', OthersStay(a.handle),
           Live(agent'.status) => (Live(agent.status) /\ agent'.handle = agent.handle) \/ a.handle = agent'.handle,
           events' = Append(events, StatusOf(a))
    PROVE  Copies' /\ EventShape' /\ (NoWords => NoWords')
<1> DEFINE e == StatusOf(a)
           n == Len(events)
<1>1. IsEvent(e) /\ e.ch = "status" /\ e.info = a
  BY DEF IsEvent, StatusOf
<1> HIDE DEF e
<1>2. /\ EventShape' /\ DOMAIN events' = 1..(n + 1) /\ DOMAIN events = 1..n /\ n \in Nat
      /\ events'[n + 1] = e /\ \A i \in DOMAIN events : events'[i] = events[i]
  BY <1>1, Said DEF e
<1> HIDE DEF n
<1>3. \A i \in (n + 1)..(n + 1) : i = n + 1
  BY <1>2
<1>4. n + 1 \in Nat /\ n + 1 > n
  BY <1>2
<1>5. \A i \in (n + 1)..(n + 1) : events'[i].ch = "status" /\ events'[i].info.handle = a.handle
  BY <1>1, <1>2, <1>3
<1>6. \A i \in 1..n : events'[i] = events[i]
  BY <1>2
<1>7. events'[n + 1].info = a /\ n = Len(events)
  BY <1>1, <1>2 DEF n
<1>8. Copies'
  BY <1>2, <1>4, <1>5, <1>6, <1>7, CopiesTold
<1>9. \A i \in DOMAIN events' : i \in DOMAIN events \/ i = n + 1
  BY <1>2
<1>10. QED
  BY <1>1, <1>2, <1>8, <1>9 DEF NoWords, IsStatus

LEMMA TwoSaid ==
    ASSUME EventShape, NEW list, Fits(list), roster' = list, IsInfo(agent), IsInfo(agent'), agent.handle <= agent'.handle,
           NEW a, IsInfo(a), Copy(a)', OthersStay(a.handle), NEW b, IsInfo(b), b.handle = a.handle,
           Live(agent'.status) => (Live(agent.status) /\ agent'.handle = agent.handle) \/ a.handle = agent'.handle,
           events' = Append(Append(events, StatusOf(b)), StatusOf(a))
    PROVE  /\ Copies' /\ EventShape' /\ (NoWords => NoWords')
           /\ \A i \in DOMAIN events' : ~IsStatus(i)' => i \in DOMAIN events /\ events'[i] = events[i]
<1> DEFINE e == StatusOf(b)
           f == StatusOf(a)
           n == Len(events)
           D == ToSet(events) \cup {e, f}
<1>1. IsEvent(e) /\ e.ch = "status" /\ e.info = b /\ IsEvent(f) /\ f.ch = "status" /\ f.info = a
  BY DEF IsEvent, StatusOf
<1>2. events' = Append(Append(events, e), f)
  OBVIOUS
<1> HIDE DEF e, f
<1>3. events \in Seq(D) /\ DOMAIN events = 1..n /\ n \in Nat /\ e \in D /\ f \in D
  <2>1. events \in [1..n -> ToSet(events)] /\ n \in Nat /\ DOMAIN events = 1..n
    BY OwnMembers DEF EventShape
  <2>2. QED
    BY <2>1
<1> HIDE DEF D
<1>4. /\ events' \in Seq(D) /\ Len(events') = n + 2 /\ events'[n + 1] = e /\ events'[n + 2] = f
      /\ \A i \in 1..n : events'[i] = events[i]
  BY <1>2, <1>3
<1>5. DOMAIN events' = 1..(n + 2) /\ events' \in Seq(ToSet(events')) /\ ToSet(events') \subseteq D
  BY <1>3, <1>4, OwnMembers
<1>6. EventShape'
  <2>1. \A x \in D : IsEvent(x)
    BY <1>1 DEF EventShape, D
  <2>2. QED
    BY <1>5, <2>1 DEF EventShape
<1> HIDE DEF n
<1>7. \A i \in (n + 1)..(n + 2) : i = n + 1 \/ i = n + 2
  BY <1>3
<1>8. \A i \in (n + 1)..(n + 2) : events'[i].ch = "status" /\ events'[i].info.handle = a.handle
  BY <1>1, <1>4, <1>7
<1>9. n + 2 \in Nat /\ n + 2 > n /\ events'[n + 2].info = a /\ n = Len(events)
  BY <1>1, <1>3, <1>4 DEF n
<1>10. Copies'
  BY <1>3, <1>4, <1>5, <1>8, <1>9, CopiesTold
<1>11. \A i \in DOMAIN events' : i \in DOMAIN events \/ i \in (n + 1)..(n + 2)
  BY <1>3, <1>5
<1>12. \A i \in DOMAIN events' : ~IsStatus(i)' => i \in DOMAIN events /\ events'[i] = events[i]
  BY <1>3, <1>4, <1>8, <1>11 DEF IsStatus
<1>13. QED
  BY <1>6, <1>10, <1>12 DEF NoWords, IsStatus

\* The agent says what it is now, whatever it was.
LEMMA CopiesSaid ==
    ASSUME EventShape, NEW list, Fits(list), roster' = list, agent'.handle = agent.handle, IsInfo(agent), IsInfo(agent'),
           events' = Append(events, StatusOf(agent'))
    PROVE  Copies' /\ EventShape'
<1>0. PICK a : a = agent'
  OBVIOUS
<1>1. Copy(a)'
  BY <1>0 DEF Copy, Right, Old, IsInfo
<1>2. OthersStay(a.handle)
  BY <1>0 DEF OthersStay, Copy, Right, Old
<1>3. agent.handle <= agent'.handle
  BY DEF IsInfo
<1>4. IsInfo(a) /\ a.handle = agent'.handle /\ events' = Append(events, StatusOf(a))
  BY <1>0
<1>5. QED
  BY <1>1, <1>2, <1>3, <1>4, OneSaid

\* The agent says its mode.
ModeOf(mode) == [ch |-> "mode", info |-> [NoAgent EXCEPT !.status = mode]]
LEMMA CopiesMode ==
    ASSUME EventShape, Fits(roster), roster' = roster, agent' = agent, NEW mode, events' = Append(events, ModeOf(mode))
    PROVE  Copies' /\ EventShape'
<1> DEFINE n == Len(events) + 1
           e == ModeOf(mode)
<1>1. IsEvent(e) /\ e.ch = "mode"
  BY DEF IsEvent, ModeOf, IsInfo, NoAgent
<1> HIDE DEF e
<1>2. /\ EventShape' /\ DOMAIN events' = 1..n /\ DOMAIN events = 1..Len(events) /\ Len(events) \in Nat
      /\ events'[n] = e /\ \A i \in DOMAIN events : events'[i] = events[i]
  BY <1>1, Said DEF e
<1>3. \A i \in DOMAIN events' : i \in DOMAIN events \/ (i = n /\ events'[i].ch = "mode")
  BY <1>1, <1>2
<1>4. DOMAIN events \subseteq DOMAIN events'
  BY <1>2
<1>5. \A a : Copy(a)' <=> Copy(a)
  BY DEF Copy, Right, Old
<1>6. \A i \in DOMAIN events : Settles(i) => Settles(i)'
  BY <1>2, <1>3, <1>4, <1>5 DEF Settles, IsStatus
<1>7. \A h : Heals(h) => Heals(h)'
  BY <1>2, <1>4, <1>6 DEF Heals
<1>8. EventsHeal'
  BY <1>2, <1>3, <1>7 DEF EventsHeal, Fits, IsStatus
<1>9. Listed(roster) => Listed(roster)'
  BY <1>2, <1>4 DEF Listed, IsStatus
<1>10. IsList(roster)' /\ \A a \in ToSet(roster') : a.handle <= agent'.handle /\ (Copy(a)' \/ Heals(a.handle)')
  BY <1>5, <1>7 DEF Fits, IsList
<1>11. Copies'
  BY <1>8, <1>9, <1>10 DEF Copies, Fits
<1>12. QED
  BY <1>2, <1>11

\* The window hears what was said of an agent.
LEMMA CopiesHeard ==
    ASSUME EventShape, Copies, events # <<>>, events' = Tail(events), agent' = agent,
           \/ IsStatus(1) /\ roster' = With(roster, events[1].info)
           \/ ~IsStatus(1) /\ roster' = roster
    PROVE  Copies' /\ EventShape'
<1> DEFINE n == Len(events)
<1>0. PICK a : a = events[1].info
  OBVIOUS
<1>1. /\ EventShape' /\ DOMAIN events = 1..n /\ n \in Nat \ {0} /\ DOMAIN events' = 1..(n - 1)
      /\ (\A i \in 1..(n - 1) : events'[i] = events[i + 1]) /\ IsEvent(events[1])
  BY Heard
<1>2. IsList(roster) /\ EventsHeal /\ \A b \in ToSet(roster) : b.handle <= agent.handle /\ (Copy(b) \/ Heals(b.handle))
  BY DEF Copies, Fits
<1>3. \A b : Copy(b)' <=> Copy(b)
  BY DEF Copy, Right, Old
<1>4. \A i \in DOMAIN events' : i + 1 \in DOMAIN events /\ i + 1 # 1 /\ events'[i] = events[i + 1]
  BY <1>1
<1>5. ASSUME NEW i \in DOMAIN events, Settles(i), i # 1
      PROVE  \A h : h = events[i].info.handle => Heals(h)'
  <2> DEFINE k == i - 1
  <2>1. k \in 1..(n - 1) /\ i = k + 1
    BY <1>1, <1>5
  <2> HIDE DEF k
  <2>2. k \in DOMAIN events' /\ events'[k] = events[i]
    BY <1>1, <2>1
  <2>3. \A j \in DOMAIN events' : j >= k => j + 1 \in DOMAIN events /\ j + 1 >= i /\ events'[j] = events[j + 1]
    BY <1>1, <2>1
  <2>4. ASSUME NEW j \in DOMAIN events', j >= k, events'[j].ch = "status",
               events'[j].info.handle = events'[k].info.handle
        PROVE  Copy(events[j].info)'
    <3>1. \A b : b = events[j + 1].info => Copy(b)'
      BY <1>3, <1>5, <2>2, <2>3, <2>4 DEF Settles, IsStatus
    <3>2. QED
      BY <2>3, <2>4, <3>1
  <2>5. \A p : p = k => Settles(p)'
    BY <1>5, <2>2, <2>4 DEF Settles, IsStatus
  <2>6. QED
    BY <2>2, <2>5 DEF Heals
\* What one event corrects is right when it is the one heard and the last of its agent.
<1>6. ASSUME NEW h, Heals(h), ~Heals(h)'
      PROVE  /\ IsStatus(1) /\ h = a.handle /\ Copy(a)
             /\ \A j \in DOMAIN events : IsStatus(j) /\ events[j].info.handle = h => j = 1
  <2>1. PICK i \in DOMAIN events : Settles(i) /\ events[i].info.handle = h
    BY <1>6 DEF Heals
  <2>2. i = 1
    BY <1>5, <1>6, <2>1
  <2>3. IsStatus(1) /\ h = a.handle
    BY <1>0, <2>1, <2>2 DEF Settles
  <2>4. ASSUME NEW j \in DOMAIN events, IsStatus(j), events[j].info.handle = h PROVE Settles(j)
    <3>1. j >= 1
      BY <1>1
    <3>2. \A x \in DOMAIN events : x >= 1
      BY <1>1
    <3>3. QED
      BY <2>1, <2>2, <2>4, <3>2 DEF Settles
  <2>5. \A j \in DOMAIN events : IsStatus(j) /\ events[j].info.handle = h => j = 1
    BY <1>5, <1>6, <2>4
  <2>6. Copy(a)
    <3>1. 1 \in DOMAIN events /\ 1 >= 1
      BY <1>1
    <3>2. QED
      BY <1>0, <2>1, <2>2, <2>3, <3>1 DEF Settles
  <2>7. QED
    BY <2>3, <2>5, <2>6
<1>7. EventsHeal'
  <2> SUFFICES ASSUME NEW i \in DOMAIN events', IsStatus(i)'
               PROVE  events'[i].info.handle <= agent'.handle /\ Heals(events[i].info.handle)'
    BY DEF EventsHeal
  <2>1. i + 1 \in DOMAIN events /\ i + 1 # 1 /\ events'[i] = events[i + 1] /\ IsStatus(i + 1)
    BY <1>4 DEF IsStatus
  <2>2. events[i + 1].info.handle <= agent.handle /\ Heals(events[i + 1].info.handle)
    BY <1>2, <2>1 DEF EventsHeal
  <2>3. \A h : h = events[i + 1].info.handle => Heals(h)'
    BY <1>6, <2>1, <2>2
  <2>4. QED
    BY <2>1, <2>2, <2>3
<1>8. ASSUME NEW i \in DOMAIN events, i # 1, IsStatus(i), events[i].info.handle = agent.handle
      PROVE  \E k \in DOMAIN events' : IsStatus(k)' /\ events'[k].info.handle = agent'.handle
  <2> DEFINE k == i - 1
  <2>1. k \in 1..(n - 1) /\ i = k + 1
    BY <1>1, <1>8
  <2> HIDE DEF k
  <2>2. k \in DOMAIN events' /\ events'[k] = events[i]
    BY <1>1, <2>1
  <2>3. QED
    BY <1>8, <2>2 DEF IsStatus
<1>9. CASE IsStatus(1) /\ roster' = With(roster, events[1].info)
  <2>1. IsInfo(a)
    BY <1>0, <1>1, <1>9 DEF IsEvent
  <2>2. IsList(roster') /\ ToSet(roster') = {b \in ToSet(roster) : b.handle # a.handle} \cup {a}
    BY <1>0, <1>2, <1>9, <2>1, WithMembers
  <2>3. a.handle <= agent.handle /\ Heals(a.handle)
    <3>1. 1 \in DOMAIN events
      BY <1>1
    <3>2. QED
      BY <1>0, <1>2, <1>9, <3>1 DEF EventsHeal
  <2>4. Copy(a)' \/ Heals(a.handle)'
    BY <1>3, <1>6, <2>3
  <2>5. \A b \in ToSet(roster') : b.handle <= agent'.handle /\ (Copy(b)' \/ Heals(b.handle)')
    <3> SUFFICES ASSUME NEW b \in ToSet(roster') PROVE b.handle <= agent'.handle /\ (Copy(b)' \/ Heals(b.handle)')
      OBVIOUS
    <3>1. CASE b = a
      BY <2>3, <2>4, <3>1
    <3>2. CASE b # a
      BY <1>2, <1>3, <1>6, <2>2, <3>2
    <3>3. QED
      BY <3>1, <3>2
  <2>6. Live(agent'.status) => Listed(roster)'
    <3> SUFFICES ASSUME Live(agent'.status) PROVE Listed(roster)'
      OBVIOUS
    <3>1. Listed(roster)
      BY DEF Copies, Fits
    <3>2. CASE \E b \in ToSet(roster) : b.handle = agent.handle
      BY <2>2, <3>2 DEF Listed
    <3>3. CASE a.handle = agent.handle
      BY <2>2, <3>3 DEF Listed
    <3>4. QED
      BY <1>0, <1>8, <3>1, <3>2, <3>3 DEF Listed
  <2>7. QED
    BY <1>1, <1>7, <2>2, <2>5, <2>6 DEF Copies, Fits, IsList
<1>10. CASE ~IsStatus(1) /\ roster' = roster
  <2>1. \A b \in ToSet(roster') : b.handle <= agent'.handle /\ (Copy(b)' \/ Heals(b.handle)')
    BY <1>2, <1>3, <1>6, <1>10
  <2>2. Live(agent'.status) => Listed(roster)'
    <3>1. CASE \E b \in ToSet(roster) : b.handle = agent.handle
      BY <1>10, <3>1 DEF Listed
    <3>2. CASE ~\E b \in ToSet(roster) : b.handle = agent.handle
      BY <1>8, <1>10, <3>2 DEF Copies, Fits, Listed
    <3>3. QED
      BY <3>1, <3>2
  <2>3. QED
    BY <1>1, <1>2, <1>7, <1>10, <2>1, <2>2 DEF Copies, Fits, IsList
<1>11. QED
  BY <1>9, <1>10

-----------------------------------------------------------------------------
(* What a step that changes no mode leaves as it was.                      *)

ModesKept == UNCHANGED <<perms, plan, known, wire, saved, passed>>

\* What a handler has done is not undone by what leaves the modes alone.
LEMMA HandlerKept ==
    ASSUME ModesKept, Same, AgentShape, AgentShape', Clean => Clean', NoWords => NoWords', NEW f, Handler(f)
    PROVE  Handler(f)'
<1>1. Live(agent.status) <=> Live(agent'.status)
  BY DEF AgentShape, Same, Live, Gone
<1>2. \A a : Copy(a) => Copy(a)'
  BY DEF Copy, Right, Old, Same
<1>3. PermsAgree' = PermsAgree
  BY DEF PermsAgree, ModesKept
<1>4. CASE f.kind = "mode"
  BY <1>1, <1>2, <1>3, <1>4 DEF Handler, ModeFlow, ModesKept, Same
<1>5. CASE f.kind = "send"
  BY <1>1, <1>2, <1>5 DEF Handler, SendFlow, ModesKept, Same
<1>6. CASE f.kind = "spawn"
  BY <1>2, <1>6 DEF Handler, SpawnFlow, ModesKept
<1>7. CASE f.kind \notin {"mode", "send", "spawn"}
  BY <1>2, <1>7 DEF Handler, ModesKept, Same, Leaves
<1>8. QED
  BY <1>4, <1>5, <1>6, <1>7

\* A handler that has everything told and saved.
Plain(f) == f.kind # "mode" /\ ~Behind(f)

LEMMA WorldKept ==
    ASSUME CalmInv, ModesKept, Same, Shape', Copies', ~known /\ Nobody => Nobody', Handled',
           \/ Hs(flows') = Hs(flows)
           \/ (\A f \in Hs(flows) : Plain(f)) /\ \A g \in Hs(flows') : ~Leaves(g),
           \A i \in DOMAIN events' : ~IsStatus(i)' => \E j \in DOMAIN events : events'[i] = events[j],
           \A g \in Hs(flows') : \/ g \in Hs(flows) \/ known \/ g.kind = "spawn"
                                 \/ g.kind = "list" /\ (g.ans = "ok" => g.info.status = "none")
    PROVE  CalmInv'
<1> USE DEF Plain
<1>1. Live(agent.status) <=> Live(agent'.status)
  BY DEF CalmInv, Shape, AgentShape, Same, Live, Gone
<1>2. /\ (\A g \in Hs(flows') : g.kind # "mode") => \A f \in Hs(flows) : f.kind # "mode"
      /\ (\A g \in Hs(flows') : ~Spawned(g)) => \A f \in Hs(flows) : ~Spawned(f)
      /\ (\A g \in Hs(flows') : ~Behind(g)) => \A f \in Hs(flows) : ~Behind(f)
  BY DEF Behind
<1>3. Leaving' <=> Leaving
  BY DEF Leaving, Behind, Leaves
<1>4. Words'
  <2> SUFFICES ASSUME NEW i \in DOMAIN events', ~IsStatus(i)'
               PROVE  IF Leaving' THEN events'[i].info.status # "plan" ELSE (events'[i].info.status = "plan") = IsArmed(plan')
    BY DEF Words
  <2>1. PICK j \in DOMAIN events : events'[i] = events[j]
    OBVIOUS
  <2>2. ~IsStatus(j)
    BY <2>1 DEF IsStatus
  <2>3. QED
    BY <1>3, <2>1, <2>2 DEF CalmInv, Words, ModesKept
<1>5. PlanSaved'
  BY <1>2 DEF CalmInv, Saved, PlanSaved, ModesKept
<1>6. PermSaved'
  BY <1>2 DEF CalmInv, Saved, PermSaved, PermsAgree, ModesKept
<1>7. AgentTold'
  BY <1>1, <1>2 DEF CalmInv, Saved, AgentTold, Agrees, ModesKept, Same
<1>8. Unknown'
  <2> SUFFICES ASSUME ~known'
               PROVE  /\ ~IsArmed(plan') /\ NoWords'
                      /\ (\A g \in Hs(flows') : ~Spawned(g)) => Nobody'
                      /\ \A g \in Hs(flows') : \/ g.kind = "spawn"
                                               \/ g.kind = "list" /\ (g.ans = "ok" => g.info.status = "none")
    BY DEF Unknown, Spawned
  <2>1. ~known /\ plan' = plan
    BY DEF ModesKept
  <2>2. NoWords'
    BY <2>1 DEF CalmInv, Unknown, NoWords, IsStatus
  <2>3. (\A g \in Hs(flows') : ~Spawned(g)) => Nobody'
    BY <1>2, <2>1 DEF CalmInv, Unknown
  <2>4. QED
    BY <2>1, <2>2, <2>3 DEF CalmInv, Unknown
<1>9. QED
  BY <1>4, <1>5, <1>6, <1>7, <1>8 DEF CalmInv, Saved

-----------------------------------------------------------------------------
(* The handler under way.                                                  *)

\* There is one, and this is it.
LEMMA OneHandler ==
    ASSUME FlowShape, NEW f \in flows, f.kind # "default"
    PROVE  /\ Hs(flows) = {f} /\ Hs(flows \ {f}) = {} /\ \A x \in flows \ {f} : IsFlow(x)
           /\ \A g : g.kind # "default" => Hs((flows \ {f}) \cup {g}) = {g}
  BY DEF FlowShape, Hs

\* The effect that follows a render adds no handler.
LEMMA FlowsBecome ==
    ASSUME NEW fs, \A f \in fs : IsFlow(f), \A f, g \in Hs(fs) : f = g,
           flows' = fs \/ \E list, fresh : Rendered(list, fs, fresh)
    PROVE  FlowShape' /\ Hs(flows') = Hs(fs)
<1> DEFINE Grown(ds) == flows' = fs \cup ds /\ \A d \in ds : d.kind = "default" /\ IsFlow(d)
<1>1. \E ds : Grown(ds)
  <2>1. CASE flows' = fs
    <3>1. Grown({})
      BY <2>1
    <3> HIDE DEF Grown
    <3>2. QED
      BY <3>1
  <2>2. CASE \E list, fresh : Rendered(list, fs, fresh)
    <3>1. PICK list, fresh : Rendered(list, fs, fresh)
      BY <2>2
    <3>2. ASSUME NEW info, NEW d \in DefaultFlow(info) PROVE d.kind = "default" /\ IsFlow(d)
      <4>1. PICK push \in SessionDefaultPush(info.model, Catalog) :
               d = [kind |-> "default", at |-> "setModel", ans |-> "none", arg |-> push, info |-> info]
        BY <3>2 DEF DefaultFlow
      <4>2. QED
        BY <4>1 DEF IsFlow, Kinds, CallsOf, FieldsOf
    <3> DEFINE decided == {i \in DOMAIN list : Decidable(list[i])}
               info == list[Min(decided)]
    <3>3. flows' = fs \/ flows' = fs \cup DefaultFlow(info)
      <4> HIDE DEF DefaultFlow
      <4>1. QED
        BY <3>1 DEF Rendered
    <3> HIDE DEF info
    <3>4. CASE flows' = fs
      <4>1. Grown({})
        BY <3>4
      <4> HIDE DEF Grown
      <4>2. QED
        BY <4>1
    <3>5. CASE flows' = fs \cup DefaultFlow(info)
      <4> DEFINE ds == DefaultFlow(info)
      <4>1. \A d \in ds : d.kind = "default" /\ IsFlow(d)
        BY <3>2
      <4> HIDE DEF ds
      <4>2. Grown(ds)
        BY <3>5, <4>1 DEF ds
      <4> HIDE DEF Grown
      <4>3. QED
        BY <4>2
    <3>6. QED
      BY <3>3, <3>4, <3>5
  <2>3. QED
    BY <2>1, <2>2
<1>2. Hs(flows') = Hs(fs)
  BY <1>1 DEF Hs
<1>3. \A f \in flows' : IsFlow(f)
  BY <1>1
<1>4. QED
  BY <1>2, <1>3 DEF FlowShape

\* A handler with an answer is the handler it was.
SameCall(f, g) ==
    /\ g.kind = f.kind
    /\ f.kind = "mode" => /\ g.todo = f.todo /\ g.live = f.live /\ g.arg = f.arg /\ g.next = f.next
                          /\ g.plan = f.plan /\ g.perm = f.perm
    /\ f.kind = "send" => /\ g.stage = f.stage /\ g.arg = f.arg /\ g.planned = f.planned /\ g.shown = f.shown
                          /\ g.attached = f.attached /\ g.warned = f.warned /\ g.prompt = f.prompt
    /\ f.kind = "spawn" => g.arg = f.arg /\ g.planned = f.planned /\ g.prompt = f.prompt
    /\ f.kind = "resolve" => g.arg = f.arg

AnswerOf(f, ans, info) == [f EXCEPT !.ans = ans, !.info = info]
Told(f, g, ans, info) == IsFlow(g) /\ SameCall(f, g) /\ g.at = f.at /\ g.ans = ans /\ g.info = info

LEMMA AnsweredFlow ==
    ASSUME NEW f, IsFlow(f), NEW ans \in {"none", "ok", "err"}, NEW info, f.kind # "default" => IsInfo(info)
    PROVE  Told(f, AnswerOf(f, ans, info), ans, info)
<1> DEFINE g == AnswerOf(f, ans, info)
<1>0. g = [f EXCEPT !.ans = ans, !.info = info]
  BY DEF AnswerOf
<1> HIDE DEF g
<1>1. /\ DOMAIN g = DOMAIN f /\ g.ans = ans /\ g.info = info /\ g.kind = f.kind /\ g.at = f.at
      /\ \A x \in DOMAIN f : x \notin {"ans", "info"} => g[x] = f[x]
  BY <1>0 DEF IsFlow
<1>2. IsFlow(g)
  BY <1>1 DEF IsFlow
<1>3. FieldsOf(f.kind) \subseteq DOMAIN f
  BY DEF IsFlow
<1>4. f.kind = "mode" => /\ g.todo = f.todo /\ g.live = f.live /\ g.arg = f.arg /\ g.next = f.next
                         /\ g.plan = f.plan /\ g.perm = f.perm
  BY <1>1, <1>3 DEF FieldsOf
<1>5. f.kind = "send" => /\ g.stage = f.stage /\ g.arg = f.arg /\ g.planned = f.planned /\ g.shown = f.shown
                         /\ g.attached = f.attached /\ g.warned = f.warned /\ g.prompt = f.prompt
  BY <1>1, <1>3 DEF FieldsOf
<1>6. f.kind = "spawn" => g.arg = f.arg /\ g.planned = f.planned /\ g.prompt = f.prompt
  BY <1>1, <1>3 DEF FieldsOf
<1>7. f.kind = "resolve" => g.arg = f.arg
  BY <1>1, <1>3 DEF FieldsOf
<1>8. QED
  BY <1>1, <1>2, <1>4, <1>5, <1>6, <1>7 DEF SameCall, Told, g

\* The host answers, and the handlers are as many as before.
LEMMA FlowsAnswered ==
    ASSUME FlowShape, NEW f \in flows, NEW ans \in {"none", "ok", "err"}, NEW info,
           f.kind # "default" => IsInfo(info), Answer(f, ans, info)
    PROVE  /\ FlowShape'
           /\ f.kind = "default" => Hs(flows') = Hs(flows)
           /\ f.kind # "default" => \E g : Told(f, g, ans, info) /\ Hs(flows) = {f} /\ Hs(flows') = {g}
<1> DEFINE g == AnswerOf(f, ans, info)
<1>1. flows' = (flows \ {f}) \cup {g} /\ IsFlow(f)
  BY DEF Answer, AnswerOf, FlowShape
<1>2. Told(f, g, ans, info)
  BY <1>1, AnsweredFlow
<1> HIDE DEF g
<1>3. g.kind = f.kind
  BY <1>2 DEF SameCall, Told
<1>4. \A x \in flows' : IsFlow(x)
  BY <1>1, <1>2 DEF FlowShape, Told
<1>5. CASE f.kind = "default"
  <2>1. Hs(flows') = Hs(flows)
    BY <1>1, <1>3, <1>5 DEF Hs
  <2>2. QED
    BY <1>4, <1>5, <2>1 DEF FlowShape
<1>6. CASE f.kind # "default"
  <2>1. Hs(flows) = {f} /\ Hs(flows') = {g}
    BY <1>1, <1>3, <1>6, OneHandler
  <2>2. QED
    BY <1>2, <1>4, <1>6, <2>1 DEF FlowShape
<1>7. QED
  BY <1>5, <1>6

\* What a budget spends.
LEMMA Spent ==
    ASSUME LeftShape, NEW what, Spend(what)
    PROVE  LeftShape' /\ (what \in {"fails", "losses"} => Disturbed)
  BY DEF LeftShape, Spend, Disturbed

\* Nothing is said and no mode is changed: a handler begins, gets an answer or is over.
Follows(g) ==
    /\ ~Leaves(g)
    /\ \/ known \/ g.kind = "spawn"
       \/ g.kind = "list" /\ (g.ans = "ok" => g.info.status = "none")
LEMMA Silent ==
    ASSUME CalmInv, ModesKept, UNCHANGED <<agent, events>>, Copies', ~known /\ Nobody => roster' = <<>>,
           FlowShape', Clean => Clean',
           \/ Hs(flows') = Hs(flows)
           \/ (\A f \in Hs(flows) : Plain(f)) /\ \A g \in Hs(flows') : Follows(g) /\ Handler(g)'
    PROVE  CalmInv'
<1>1. Same /\ Shape'
  BY DEF CalmInv, Shape, Same, EventShape, IsEvent, IsInfo, AgentShape, DiskShape, ModesKept
<1>2. NoWords => NoWords'
  BY DEF NoWords, IsStatus
<1>3. Handled'
  <2>1. CASE Hs(flows') = Hs(flows)
    BY <1>1, <1>2, <2>1, HandlerKept DEF CalmInv, Handled, Shape
  <2>2. CASE \A g \in Hs(flows') : Handler(g)'
    BY <2>2 DEF Handled
  <2>3. QED
    BY <2>1, <2>2
<1>4. ~known /\ Nobody => Nobody'
  BY DEF Nobody
<1>5. \A i \in DOMAIN events' : ~IsStatus(i)' => \E j \in DOMAIN events : events'[i] = events[j]
  OBVIOUS
<1>6. QED
  BY <1>1, <1>3, <1>4, <1>5, WorldKept DEF Follows

\* A live agent says what it is now.
LEMMA AgentSpeaks ==
    ASSUME CalmInv, ModesKept, roster' = roster, Emit(<<agent'>>), IsInfo(agent'), Live(agent.status), Live(agent'.status),
           agent'.handle = agent.handle, agent'.perm = agent.perm, FlowShape',
           \/ Hs(flows') = Hs(flows)
           \/ (\A f \in Hs(flows) : Plain(f)) /\ \A g \in Hs(flows') : Follows(g) /\ Handler(g)'
    PROVE  CalmInv'
<1>1. Same
  BY DEF CalmInv, Shape, AgentShape, Same, Live, Gone
<1>2. events' = Append(events, StatusOf(agent'))
  BY EmitsOne DEF CalmInv, Shape
<1>3. Copies' /\ EventShape'
  BY <1>2, CopiesSaid DEF CalmInv, Shape, Copies, AgentShape
<1>4. AgentShape'
  BY <1>1 DEF Same, CalmInv, Shape, AgentShape, ModesKept
<1>5. Shape'
  BY <1>3, <1>4 DEF CalmInv, Shape, DiskShape, ModesKept
<1>6. ~Clean /\ ~Nobody
  BY DEF Clean, Nobody, Live, Gone
<1>7. /\ DOMAIN events' = 1..(Len(events) + 1) /\ DOMAIN events = 1..Len(events) /\ Len(events) \in Nat
      /\ events'[Len(events) + 1] = StatusOf(agent') /\ \A i \in DOMAIN events : events'[i] = events[i]
  <2>1. IsEvent(StatusOf(agent'))
    BY DEF IsEvent, StatusOf
  <2>2. QED
    BY <1>2, <2>1, Said DEF CalmInv, Shape
<1>8. \A i \in DOMAIN events' : ~IsStatus(i)' => \E j \in DOMAIN events : events'[i] = events[j]
  <2>1. \A i \in DOMAIN events' : i \in DOMAIN events \/ i = Len(events) + 1
    BY <1>7
  <2>2. StatusOf(agent').ch = "status"
    BY DEF StatusOf
  <2>3. QED
    BY <1>7, <2>1, <2>2 DEF IsStatus
<1>9. NoWords => NoWords'
  BY <1>8 DEF NoWords, IsStatus
<1>10. Handled'
  <2>1. CASE Hs(flows') = Hs(flows)
    BY <1>1, <1>4, <1>6, <1>9, <2>1, HandlerKept DEF CalmInv, Handled, Shape
  <2>2. CASE \A g \in Hs(flows') : Handler(g)'
    BY <2>2 DEF Handled
  <2>3. QED
    BY <2>1, <2>2
<1>11. QED
  BY <1>1, <1>3, <1>5, <1>6, <1>8, <1>10, WorldKept DEF Follows

-----------------------------------------------------------------------------
(* What the agent does by itself, and what the window hears.               *)

LEMMA SpeaksByItself ==
    ASSUME CalmInv, ModesKept, CatalogArrives \/ TurnEnds
    PROVE  CalmInv'
<1>1. roster' = roster /\ flows' = flows /\ Emit(<<agent'>>)
  BY DEF CatalogArrives, TurnEnds, window
<1>2. IsInfo(agent') /\ agent'.handle = agent.handle /\ agent'.perm = agent.perm /\ Live(agent.status) /\ Live(agent'.status)
  BY DEF CatalogArrives, TurnEnds, IsInfo, CalmInv, Shape, AgentShape, Live
<1>3. FlowShape' /\ Hs(flows') = Hs(flows)
  BY <1>1 DEF CalmInv, Shape, FlowShape
<1>4. QED
  BY <1>1, <1>2, <1>3, AgentSpeaks

LEMMA Asks ==
    ASSUME CalmInv, ModesKept, AsksApproval
    PROVE  CalmInv'
<1>1. UNCHANGED <<roster, flows, agent, events>>
  BY DEF AsksApproval, window
<1>2. FlowShape' /\ Hs(flows') = Hs(flows) /\ (Clean => Clean')
  BY <1>1 DEF CalmInv, Shape, FlowShape, Clean
<1>3. Copies'
  BY <1>1, CopiesKept DEF CalmInv, Copies, Same
<1>4. QED
  BY <1>1, <1>2, <1>3, Silent DEF Nobody

\* An info is delivered, and the default of a new task may be decided.
LEMMA StatusDelivered ==
    ASSUME CalmInv, UNCHANGED passed, Deliver, IsStatus(1)
    PROVE  CalmInv'
<1>1. /\ EventShape' /\ DOMAIN events = 1..Len(events) /\ Len(events) \in Nat \ {0}
      /\ DOMAIN events' = 1..(Len(events) - 1) /\ (\A i \in 1..(Len(events) - 1) : events'[i] = events[i + 1])
      /\ Head(events) = events[1] /\ IsEvent(events[1]) /\ events # <<>> /\ events' = Tail(events)
  BY Heard DEF CalmInv, Shape, Deliver
<1>2. events[1].ch = "status"
  BY DEF IsStatus
<1>3. /\ Rendered(With(roster, events[1].info), flows, armed) /\ UNCHANGED <<plan, saved, perms, known, agent, wire>>
  BY <1>1, <1>2 DEF Deliver
<1>4. roster' = With(roster, events[1].info)
  BY <1>3 DEF Rendered
<1>5. Copies'
  BY <1>1, <1>3, <1>4, CopiesHeard DEF CalmInv, Shape
<1>6. FlowShape' /\ Hs(flows') = Hs(flows)
  <2>1. (\A f \in flows : IsFlow(f)) /\ \A f, g \in Hs(flows) : f = g
    BY DEF CalmInv, Shape, FlowShape
  <2>2. QED
    BY <1>3, <2>1, FlowsBecome
<1>7. ModesKept /\ Same
  BY <1>3 DEF ModesKept, Same
<1>8. Shape'
  BY <1>1, <1>3, <1>6 DEF CalmInv, Shape, AgentShape, DiskShape
<1>9. ~Clean /\ ~Nobody
  BY <1>1 DEF Clean, Nobody
<1>10. \A i \in DOMAIN events' : i + 1 \in DOMAIN events /\ events'[i] = events[i + 1]
  BY <1>1
<1>11. NoWords => NoWords'
  BY <1>10 DEF NoWords, IsStatus
<1>12. Handled'
  BY <1>6, <1>7, <1>8, <1>9, <1>11, HandlerKept DEF CalmInv, Handled, Shape
<1>13. QED
  BY <1>5, <1>6, <1>7, <1>8, <1>9, <1>10, <1>12, WorldKept

\* The agent's mode is delivered: the window has it already, or is about to leave Plan.
LEMMA ModeHeard ==
    ASSUME CalmInv, UNCHANGED passed, Deliver, ~IsStatus(1)
    PROVE  /\ Copies' /\ Shape' /\ UNCHANGED <<roster, flows, perms, known, agent, wire>> /\ saved'.perm = saved.perm
           /\ known /\ ~Clean /\ ~NoWords
           /\ (\A i \in DOMAIN events' : ~IsStatus(i)' => \E j \in DOMAIN events : events'[i] = events[j])
           /\ Leaving => plan' \in {"off", plan} /\ (PlanSaved => IsArmed(plan)' = saved'.plan)
           /\ ~Leaving => IsArmed(plan)' = IsArmed(plan) /\ saved'.plan \in {saved.plan, IsArmed(plan)}
<1>1. /\ EventShape' /\ DOMAIN events = 1..Len(events) /\ Len(events) \in Nat \ {0}
      /\ DOMAIN events' = 1..(Len(events) - 1) /\ (\A i \in 1..(Len(events) - 1) : events'[i] = events[i + 1])
      /\ Head(events) = events[1] /\ IsEvent(events[1]) /\ events # <<>> /\ events' = Tail(events)
  BY Heard DEF CalmInv, Shape, Deliver
<1> DEFINE m == events[1].info.status
<1>2. events[1].ch # "status" /\ 1 \in DOMAIN events
  BY <1>1 DEF IsStatus
<1>3. /\ plan' = ApplyAgentModeUpdate(m, plan)
      /\ saved' = IF m = "plan" \/ plan = "active" THEN [saved EXCEPT !.plan = m = "plan"] ELSE saved
      /\ UNCHANGED <<roster, flows, perms, known, agent, wire>>
  BY <1>1, <1>2 DEF Deliver
<1>4. IF Leaving THEN m # "plan" ELSE (m = "plan") = IsArmed(plan)
  BY <1>2 DEF CalmInv, Words, IsStatus
<1>5. plan \in {"off", "pending", "active"} /\ DiskShape
  BY DEF CalmInv, Shape
<1> HIDE DEF m
<1>6. /\ saved'.perm = saved.perm /\ plan' \in {"off", "pending", "active"} /\ DiskShape'
      /\ saved'.plan = IF m = "plan" THEN TRUE ELSE IF plan = "active" THEN FALSE ELSE saved.plan
  BY <1>3, <1>5 DEF DiskShape, ApplyAgentModeUpdate
<1>7. Leaving => plan' \in {"off", plan} /\ (PlanSaved => IsArmed(plan)' = saved'.plan)
  <2> SUFFICES ASSUME Leaving PROVE plan' \in {"off", plan} /\ (PlanSaved => IsArmed(plan)' = saved'.plan)
    OBVIOUS
  <2>1. \A f \in Hs(flows) : f.kind # "mode"
    BY DEF Leaving, Leaves, CalmInv, Shape, FlowShape
  <2>2. m # "plan"
    BY <1>4
  <2>3. QED
    BY <1>3, <1>5, <1>6, <2>1, <2>2 DEF PlanSaved, ApplyAgentModeUpdate, IsArmed
<1>8. ~Leaving => IsArmed(plan)' = IsArmed(plan) /\ saved'.plan \in {saved.plan, IsArmed(plan)}
  BY <1>3, <1>4, <1>5, <1>6 DEF ApplyAgentModeUpdate, IsArmed
<1>9. Copies'
  BY <1>1, <1>3, CopiesHeard DEF CalmInv, Shape
<1>10. Shape'
  BY <1>1, <1>3, <1>6 DEF CalmInv, Shape, AgentShape, FlowShape
<1>11. ~Clean /\ ~NoWords /\ known
  BY <1>1, <1>2 DEF Clean, NoWords, IsStatus, CalmInv, Unknown
<1>12. \A i \in DOMAIN events' : i + 1 \in DOMAIN events /\ events'[i] = events[i + 1]
  BY <1>1
<1>13. QED
  BY <1>3, <1>6, <1>7, <1>8, <1>9, <1>10, <1>11, <1>12

LEMMA ModeDelivered ==
    ASSUME CalmInv, UNCHANGED passed, Deliver, ~IsStatus(1)
    PROVE  CalmInv'
<1>1. /\ Copies' /\ Shape' /\ UNCHANGED <<roster, flows, perms, known, agent, wire>> /\ saved'.perm = saved.perm
      /\ known /\ ~Clean /\ ~NoWords
      /\ (\A i \in DOMAIN events' : ~IsStatus(i)' => \E j \in DOMAIN events : events'[i] = events[j])
      /\ Leaving => plan' \in {"off", plan} /\ (PlanSaved => IsArmed(plan)' = saved'.plan)
      /\ ~Leaving => IsArmed(plan)' = IsArmed(plan) /\ saved'.plan \in {saved.plan, IsArmed(plan)}
  BY ModeHeard
<1>2. Leaving' <=> Leaving
  BY <1>1 DEF Leaving
<1>3. PermSaved' /\ Unknown'
  BY <1>1 DEF CalmInv, Saved, PermSaved, PermsAgree, Unknown
<1>4. Words'
  <2> SUFFICES ASSUME NEW i \in DOMAIN events', ~IsStatus(i)'
               PROVE  IF Leaving' THEN events'[i].info.status # "plan" ELSE (events'[i].info.status = "plan") = IsArmed(plan')
    BY DEF Words
  <2>1. PICK j \in DOMAIN events : events'[i] = events[j]
    BY <1>1
  <2>2. ~IsStatus(j)
    BY <2>1 DEF IsStatus
  <2>3. QED
    BY <1>1, <1>2, <2>1, <2>2 DEF CalmInv, Words
<1>5. PlanSaved'
  BY <1>1 DEF CalmInv, Saved, PlanSaved
<1>6. AgentTold'
  <2>1. CASE Leaving
    BY <1>1, <2>1 DEF Leaving, AgentTold, Behind
  <2>2. CASE ~Leaving
    BY <1>1, <2>2 DEF CalmInv, Saved, AgentTold, Agrees
  <2>3. QED
    BY <2>1, <2>2
<1>7. Handled'
  <2> SUFFICES ASSUME NEW f \in Hs(flows), Handler(f) PROVE Handler(f)'
    BY <1>1 DEF CalmInv, Handled
  <2>1. \A a : Copy(a) => Copy(a)'
    BY <1>1 DEF Copy, Right, Old
  <2>2. f.kind # "resolve" => ~Leaving
    BY DEF Leaving, Leaves, CalmInv, Shape, FlowShape
  <2>3. PermsAgree' = PermsAgree
    BY <1>1 DEF PermsAgree
  <2>4. CASE f.kind = "mode"
    BY <1>1, <2>1, <2>2, <2>3, <2>4 DEF Handler, ModeFlow
  <2>5. CASE f.kind = "send"
    BY <1>1, <2>1, <2>2, <2>5 DEF Handler, SendFlow
  <2>6. CASE f.kind = "spawn"
    BY <1>1, <2>6 DEF Handler, SpawnFlow
  <2>7. CASE f.kind = "resolve"
    BY <1>1, <2>7 DEF Handler, Leaves
  <2>8. CASE f.kind \notin {"mode", "send", "spawn", "resolve"}
    BY <1>1, <2>1, <2>8 DEF Handler
  <2>9. QED
    BY <2>4, <2>5, <2>6, <2>7, <2>8
<1>8. QED
  BY <1>1, <1>3, <1>4, <1>5, <1>6, <1>7 DEF CalmInv, Saved

-----------------------------------------------------------------------------
(* What the host serves without a change of mode.                          *)

\* A handler that is asked of has not been told to be behind.
LEMMA ServedFlow ==
    ASSUME FlowShape, NEW f \in flows, NEW ans \in {"none", "ok", "err"}, NEW info,
           f.kind # "default" => IsInfo(info), Answer(f, ans, info),
           f.kind # "default" => Plain(f) /\ \A g : Told(f, g, ans, info) => Follows(g) /\ Handler(g)'
    PROVE  /\ FlowShape'
           /\ \/ Hs(flows') = Hs(flows)
              \/ (\A x \in Hs(flows) : Plain(x)) /\ \A g \in Hs(flows') : Follows(g) /\ Handler(g)'
<1>1. CASE f.kind = "default"
  BY <1>1, FlowsAnswered
<1>2. CASE f.kind # "default"
  <2>1. FlowShape' /\ \E g : Told(f, g, ans, info) /\ Hs(flows) = {f} /\ Hs(flows') = {g}
    BY <1>2, FlowsAnswered
  <2>2. QED
    BY <1>2, <2>1
<1>3. QED
  BY <1>1, <1>2

\* A handler without an agent of its own begins on a task that is known.
LEMMA Knows ==
    ASSUME CalmInv, NEW f \in flows, f.kind \notin {"default", "spawn", "list"}
    PROVE  known
  BY DEF CalmInv, Unknown, Hs

\* The call a send waits for tells its stage.
LEMMA StageOf ==
    ASSUME NEW f, f.stage \in 1..5, f.at = CallOf(SendStages[f.stage])
    PROVE  /\ f.at = "attach" <=> f.stage = 1
           /\ f.at = "setMode" <=> f.stage \in {2, 4}
           /\ f.at = "setModel" <=> f.stage = 3
           /\ f.at = "prompt" <=> f.stage = 5
  BY DEF CallOf, SendStages

\* The host answers, and all is as it was.
LEMMA Still ==
    ASSUME CalmInv, ModesKept, UNCHANGED <<roster, agent, events>>, FlowShape',
           \/ Hs(flows') = Hs(flows)
           \/ (\A x \in Hs(flows) : Plain(x)) /\ \A g \in Hs(flows') : Follows(g) /\ Handler(g)'
    PROVE  CalmInv'
<1>1. Copies'
  BY CopiesKept DEF CalmInv, Copies, Same
<1>2. Clean => Clean'
  BY DEF Clean
<1>3. ~known /\ Nobody => roster' = <<>>
  BY DEF Nobody
<1>4. QED
  BY <1>1, <1>2, <1>3, Silent

LEMMA HandlerOf ==
    ASSUME CalmInv, NEW f \in flows
    PROVE  IsFlow(f) /\ (f.kind # "default" => Handler(f) /\ Hs(flows) = {f})
  BY DEF CalmInv, Shape, FlowShape, Handled, Hs

LEMMA ModelServed ==
    ASSUME CalmInv, LeftShape, ModesKept, ~Disturbed, NEW f \in flows, NEW ok \in BOOLEAN, ServeSetModel(f, ok)
    PROVE  CalmInv'
<1> DEFINE ans == IF ok THEN "ok" ELSE "err"
<1>1. IsFlow(f) /\ (f.kind # "default" => Handler(f) /\ Hs(flows) = {f}) /\ f.at = "setModel" /\ f.ans = "none"
  BY HandlerOf DEF ServeSetModel, Waiting
<1>2. f.kind \in {"send", "model", "default"}
  BY <1>1 DEF IsFlow, Kinds, CallsOf
<1>3. Answer(f, ans, f.info) /\ ans \in {"none", "ok", "err"} /\ roster' = roster
  BY DEF ServeSetModel, window
<1>4. \/ UNCHANGED <<agent, events>>
      \/ /\ Live(agent.status) /\ Live(agent'.status) /\ IsInfo(agent') /\ Emit(<<agent'>>)
         /\ agent'.handle = agent.handle /\ agent'.perm = agent.perm
  <2>1. CASE ok
    <3>1. Live(agent.status) /\ agent' = [agent EXCEPT !.model = RunsModel(f.arg)] /\ Emit(<<agent'>>)
      BY <2>1 DEF ServeSetModel, Reachable
    <3>2. agent = [handle |-> agent.handle, status |-> agent.status, perm |-> agent.perm, model |-> agent.model,
                   catalog |-> agent.catalog] /\ agent.handle \in Nat
      BY DEF CalmInv, Shape, AgentShape, IsInfo
    <3> DEFINE model == RunsModel(f.arg)
    <3>3. agent' = [agent EXCEPT !.model = model]
      BY <3>1
    <3> HIDE DEF model
    <3>4. IsInfo(agent') /\ agent'.handle = agent.handle /\ agent'.perm = agent.perm /\ agent'.status = agent.status
      BY <3>2, <3>3 DEF IsInfo
    <3>5. QED
      BY <3>1, <3>4
  <2>2. CASE ~ok
    BY <2>2 DEF ServeSetModel
  <2>3. QED
    BY <2>1, <2>2
<1>5. \A a : Copy(a) => Copy(a)'
  BY <1>4 DEF Copy, Right, Old, Live, Gone
<1>6. (Gone(agent.status) <=> Gone(agent'.status)) /\ agent'.handle = agent.handle
  BY <1>4 DEF Live, Gone
<1> HIDE DEF ans
<1>7. ASSUME f.kind # "default" PROVE Plain(f) /\ \A g : Told(f, g, ans, f.info) => Follows(g) /\ Handler(g)'
  <2>1. known
    BY <1>2, <1>7, Knows
  <2>2. CASE f.kind = "model"
    BY <1>1, <1>5, <2>1, <2>2 DEF Plain, Behind, Spawned, Leaves, Follows, Told, SameCall, Handler
  <2>3. CASE f.kind = "send"
    <3>1. SendFlow(f) /\ f.stage = 3
      BY <1>1, <2>3, StageOf DEF Handler, SendFlow
    <3>2. Plain(f)
      BY <2>3, <3>1 DEF Plain, Behind, Spawned, Leaves, Reapplies
    <3>3. ASSUME NEW g, Told(f, g, ans, f.info) PROVE SendFlow(g)' /\ g.kind = "send"
      BY <1>1, <1>5, <1>6, <2>3, <3>1, <3>3 DEF Told, SameCall, SendFlow, ModesKept
    <3>4. QED
      BY <2>1, <3>2, <3>3 DEF Follows, Leaves, Handler
  <2>4. QED
    BY <1>2, <1>7, <2>2, <2>3
<1>8. f.kind # "default" => IsInfo(f.info)
  BY <1>1 DEF IsFlow
<1>9. /\ FlowShape'
      /\ \/ Hs(flows') = Hs(flows)
         \/ (\A x \in Hs(flows) : Plain(x)) /\ \A g \in Hs(flows') : Follows(g) /\ Handler(g)'
  BY <1>3, <1>7, <1>8, ServedFlow DEF CalmInv, Shape
<1>10. QED
  BY <1>3, <1>4, <1>9, Still, AgentSpeaks

LEMMA PromptServed ==
    ASSUME CalmInv, ModesKept, NEW f \in flows, ServePrompt(f)
    PROVE  CalmInv'
<1>1. IsFlow(f) /\ f.at = "prompt" /\ f.ans = "none" /\ f.kind = "send" /\ Handler(f) /\ roster' = roster
  <2>1. IsFlow(f) /\ f.at = "prompt" /\ f.ans = "none" /\ roster' = roster
    BY HandlerOf DEF ServePrompt, Waiting, window
  <2>2. f.kind = "send"
    BY <2>1 DEF IsFlow, Kinds, CallsOf
  <2>3. QED
    BY <2>1, <2>2, HandlerOf
<1>2. SendFlow(f) /\ f.stage = 5 /\ known
  BY <1>1, StageOf, Knows DEF Handler, SendFlow
<1>3. Plain(f)
  BY <1>1, <1>2 DEF Plain, Behind, Spawned, Leaves, Reapplies
<1>4. IsInfo(f.info) /\ Copy(f.info) /\ IsInfo(agent)
  BY <1>1, <1>2 DEF IsFlow, SendFlow, CalmInv, Shape, AgentShape
<1> DEFINE Served(ans, info) ==
              /\ Answer(f, ans, info) /\ IsInfo(info) /\ Copy(info)' /\ info.handle = f.info.handle
              /\ \/ UNCHANGED <<agent, events>>
                 \/ /\ Live(agent.status) /\ Live(agent'.status) /\ IsInfo(agent') /\ Emit(<<agent'>>)
                    /\ agent'.handle = agent.handle /\ agent'.perm = agent.perm
<1>5. PICK ans, info : ans \in {"none", "ok", "err"} /\ Served(ans, info)
  <2>1. CASE Reachable(f.info.handle)
    <3> DEFINE status == IF agent.status = "awaitingPermission" THEN agent.status ELSE "running"
               info == [f.info EXCEPT !.status = status]
    <3>1. agent' = [agent EXCEPT !.status = status] /\ Emit(<<agent'>>) /\ Answer(f, "ok", [f.info EXCEPT !.status = agent'.status])
      BY <2>1 DEF ServePrompt
    <3>2. Live(status) /\ Live(agent.status) /\ agent.handle = f.info.handle
      BY <2>1 DEF Reachable, Live
    <3> HIDE DEF status
    <3>3. IsInfo(agent') /\ agent'.handle = agent.handle /\ agent'.perm = agent.perm /\ agent'.status = status
      BY <1>4, <3>1 DEF IsInfo
    <3>4. IsInfo(info) /\ info.handle = f.info.handle /\ info.perm = f.info.perm /\ info.status = status
      BY <1>4 DEF IsInfo
    <3>5. Answer(f, "ok", info)
      BY <3>1, <3>3
    <3> HIDE DEF info
    <3>6. \A p : p = info => Copy(p)'
      BY <1>4, <3>2, <3>3, <3>4 DEF Copy, Right, Old, Live, Gone, IsInfo
    <3>7. \A p : p = info => Served("ok", p)
      BY <3>1, <3>2, <3>3, <3>4, <3>5, <3>6
    <3> HIDE DEF Served
    <3>8. QED
      BY <3>7
  <2>2. CASE ~Reachable(f.info.handle)
    <3>1. UNCHANGED <<agent, events>> /\ Answer(f, "err", f.info)
      BY <2>2 DEF ServePrompt
    <3>2. Copy(f.info)'
      BY <1>4, <3>1 DEF Copy, Right, Old
    <3>3. QED
      BY <1>4, <3>1, <3>2
  <2>3. QED
    BY <2>1, <2>2
<1>6. ASSUME NEW g, Told(f, g, ans, info) PROVE Follows(g) /\ Handler(g)'
  <2>1. g.kind = "send"
    BY <1>1, <1>6 DEF Told, SameCall
  <2>2. agent'.handle = agent.handle
    BY <1>5
  <2>3. SendFlow(g)'
    BY <1>1, <1>2, <1>5, <1>6, <2>2 DEF Told, SameCall, SendFlow, ModesKept
  <2>4. QED
    BY <1>2, <2>1, <2>3 DEF Follows, Leaves, Handler
<1>7. /\ FlowShape'
      /\ \/ Hs(flows') = Hs(flows)
         \/ (\A x \in Hs(flows) : Plain(x)) /\ \A g \in Hs(flows') : Follows(g) /\ Handler(g)'
  BY <1>1, <1>3, <1>5, <1>6, ServedFlow DEF CalmInv, Shape
<1>8. QED
  BY <1>1, <1>5, <1>7, Still, AgentSpeaks

LEMMA ListServed ==
    ASSUME CalmInv, ModesKept, NEW f \in flows, ServeList(f)
    PROVE  CalmInv'
<1>1. IsFlow(f) /\ f.at = "list" /\ f.ans = "none" /\ Answer(f, "ok", agent) /\ UNCHANGED <<roster, agent, events>>
  BY HandlerOf DEF ServeList, Waiting, window, host
<1>2. f.kind = "list" /\ Hs(flows) = {f}
  <2>1. f.kind = "list"
    BY <1>1 DEF IsFlow, Kinds, CallsOf
  <2>2. QED
    BY <2>1, HandlerOf
<1>3. IsInfo(agent) /\ \A a : a = agent => Copy(a)'
  BY <1>1 DEF CalmInv, Shape, AgentShape, IsInfo, Copy, Right, Old
<1>4. known \/ agent.status = "none"
  BY <1>2 DEF CalmInv, Unknown, Nobody, Spawned
<1>5. Plain(f)
  BY <1>2 DEF Plain, Behind, Spawned, Leaves
<1>6. ASSUME NEW g, Told(f, g, "ok", agent) PROVE Follows(g) /\ Handler(g)'
  <2>1. g.kind = "list" /\ g.info = agent
    BY <1>2, <1>6 DEF Told, SameCall
  <2>2. QED
    BY <1>3, <1>4, <2>1 DEF Follows, Leaves, Handler
<1>7. /\ FlowShape'
      /\ \/ Hs(flows') = Hs(flows)
         \/ (\A x \in Hs(flows) : Plain(x)) /\ \A g \in Hs(flows') : Follows(g) /\ Handler(g)'
  BY <1>1, <1>3, <1>5, <1>6, ServedFlow DEF CalmInv, Shape
<1>8. QED
  BY <1>1, <1>7, Still

\* The agent cannot be started.
LEMMA NotStarted ==
    ASSUME CalmInv, LeftShape, ModesKept, NEW f \in flows, StartRefused(f)
    PROVE  CalmInv'
<1>1. IsFlow(f) /\ f.at \in {"attach", "spawn"} /\ f.ans = "none" /\ Answer(f, "err", f.info) /\ UNCHANGED <<roster, agent, events>>
  BY HandlerOf DEF StartRefused, MayStart, Waiting, window, host
<1>2. f.kind \in {"send", "spawn"} /\ Handler(f)
  <2>1. f.kind \in {"send", "spawn"}
    BY <1>1 DEF IsFlow, Kinds, CallsOf
  <2>2. QED
    BY <2>1, HandlerOf
<1>3. IsInfo(f.info)
  BY <1>1, <1>2 DEF IsFlow
<1>4. Plain(f)
  BY <1>1, <1>2 DEF Plain, Behind, Spawned, Leaves, Reapplies, Handler, SendFlow, CallOf, SendStages
<1>5. ASSUME NEW g, Told(f, g, "err", f.info) PROVE Follows(g) /\ Handler(g)'
  <2>1. CASE f.kind = "send"
    <3>1. SendFlow(f) /\ f.stage = 1 /\ known
      BY <1>1, <1>2, <2>1, StageOf, Knows DEF Handler, SendFlow
    <3>2. SendFlow(g)' /\ g.kind = "send"
      BY <1>1, <1>5, <2>1, <3>1 DEF Told, SameCall, SendFlow, ModesKept
    <3>3. QED
      BY <3>1, <3>2 DEF Follows, Leaves, Handler
  <2>2. CASE f.kind = "spawn"
    <3>1. SpawnFlow(f)
      BY <1>2, <2>2 DEF Handler
    <3>2. SpawnFlow(g)' /\ g.kind = "spawn"
      BY <1>5, <2>2, <3>1 DEF Told, SameCall, SpawnFlow, ModesKept
    <3>3. QED
      BY <3>2 DEF Follows, Leaves, Handler
  <2>3. QED
    BY <1>2, <2>1, <2>2
<1>6. /\ FlowShape'
      /\ \/ Hs(flows') = Hs(flows)
         \/ (\A x \in Hs(flows) : Plain(x)) /\ \A g \in Hs(flows') : Follows(g) /\ Handler(g)'
  BY <1>1, <1>3, <1>4, <1>5, ServedFlow DEF CalmInv, Shape
<1>7. QED
  BY <1>1, <1>6, Still

\* Nothing is known of the agent that is to stop.
LEMMA NotStopped ==
    ASSUME CalmInv, ModesKept, NEW f \in flows, StopUnknown(f)
    PROVE  CalmInv'
<1>1. IsFlow(f) /\ f.at = "stop" /\ f.ans = "none" /\ Answer(f, "err", f.info) /\ UNCHANGED <<roster, agent, events>>
  BY HandlerOf DEF StopUnknown, Waiting, window, host
<1>2. f.kind = "stop" /\ known /\ Handler(f)
  <2>1. f.kind = "stop"
    BY <1>1 DEF IsFlow, Kinds, CallsOf
  <2>2. QED
    BY <2>1, HandlerOf, Knows
<1>3. IsInfo(f.info) /\ f.info.handle <= agent.handle
  BY <1>1, <1>2 DEF IsFlow, Handler
<1>4. Plain(f)
  BY <1>2 DEF Plain, Behind, Spawned, Leaves
<1>5. f.info.handle = agent.handle => Gone(agent.status)
  BY DEF StopUnknown, InMap, CalmInv, Shape, AgentShape, Live, Gone
<1>6. ASSUME NEW g, Told(f, g, "err", f.info) PROVE Follows(g) /\ Handler(g)'
  BY <1>1, <1>2, <1>3, <1>5, <1>6 DEF Told, SameCall, Follows, Leaves, Handler
<1>7. /\ FlowShape'
      /\ \/ Hs(flows') = Hs(flows)
         \/ (\A x \in Hs(flows) : Plain(x)) /\ \A g \in Hs(flows') : Follows(g) /\ Handler(g)'
  BY <1>1, <1>3, <1>4, <1>6, ServedFlow DEF CalmInv, Shape
<1>8. QED
  BY <1>1, <1>7, Still

\* What is said of an agent that is stopped: the one there is, or an old one that failed.
LEMMA StopSaid ==
    ASSUME CalmInv, LeftShape, ~Disturbed, NEW f, NEW ok \in BOOLEAN, ServeStop(f, ok), IsInfo(f.info),
           f.info.handle <= agent.handle
    PROVE  /\ Copies' /\ EventShape' /\ Answer(f, "ok", f.info) /\ IsInfo(agent')
           /\ agent'.handle = agent.handle /\ agent'.perm = agent.perm
           /\ agent' = agent \/ (Gone(agent'.status) /\ ~Live(agent'.status))
           /\ f.info.handle = agent.handle => Gone(agent'.status)
           /\ \A i \in DOMAIN events' : ~IsStatus(i)' => i \in DOMAIN events /\ events'[i] = events[i]
<1> DEFINE s == Stopped(f)
           b == [s EXCEPT !.status = "stopping"]
           a == [b EXCEPT !.status = "stopped"]
<1>1. ok
  BY Spent DEF ServeStop
<1>2. /\ Answer(f, "ok", f.info) /\ roster' = roster
      /\ agent' = IF agent.handle = f.info.handle THEN [agent EXCEPT !.status = "stopped"] ELSE agent
  BY <1>1 DEF ServeStop, window
<1>3. Emit(<<b, a>>)
  BY <1>1 DEF ServeStop
<1>4. IsInfo(agent) /\ IsInfo(s) /\ s.handle = f.info.handle /\ (s = agent \/ (s = f.info /\ s.handle # agent.handle))
  BY DEF CalmInv, Shape, AgentShape, Stopped
<1>5. s.handle = agent.handle => s = agent
  BY <1>4
<1> HIDE DEF s
<1>6. IsInfo(b) /\ b.handle = s.handle /\ b.perm = s.perm
  BY <1>4 DEF IsInfo
<1> HIDE DEF b
<1>7. IsInfo(a) /\ a.handle = s.handle /\ a.perm = s.perm /\ a.status = "stopped"
  BY <1>6 DEF IsInfo
<1>8. Emit(<<b, a>>) => events' = Append(Append(events, StatusOf(b)), StatusOf(a))
  <2> HIDE DEF a
  <2>1. QED
    BY <1>6, EmitsTwo DEF CalmInv, Shape
<1>9. IsInfo(agent') /\ agent'.handle = agent.handle /\ agent'.perm = agent.perm
  BY <1>2, <1>4 DEF IsInfo
<1>10. /\ agent' = agent \/ (Gone(agent'.status) /\ ~Live(agent'.status))
       /\ f.info.handle = agent.handle => Gone(agent'.status)
  BY <1>2, <1>4 DEF Gone, Live, IsInfo
<1> HIDE DEF a
<1>11. \A p : p = a => Copy(p)'
  BY <1>4, <1>5, <1>7, <1>9, <1>10 DEF Copy, Right, Old, Gone
<1>12. OthersStay(a.handle)
  BY <1>2, <1>4, <1>7, <1>9, <1>10 DEF OthersStay, Copy, Right, Old
<1>13. agent.handle <= agent'.handle /\ (Live(agent'.status) => Live(agent.status))
  BY <1>4, <1>9, <1>10 DEF IsInfo
<1>14. /\ Copies' /\ EventShape'
       /\ \A i \in DOMAIN events' : ~IsStatus(i)' => i \in DOMAIN events /\ events'[i] = events[i]
  <2>1. EventShape /\ Fits(roster)
    BY DEF CalmInv, Shape, Copies
  <2>2. events' = Append(Append(events, StatusOf(b)), StatusOf(a)) /\ b.handle = a.handle
    BY <1>3, <1>6, <1>7, <1>8
  <2>3. PICK p : p = a
    OBVIOUS
  <2>4. IsInfo(p) /\ Copy(p)' /\ OthersStay(p.handle) /\ p.handle = b.handle /\ events' = Append(Append(events, StatusOf(b)), StatusOf(p))
    BY <1>7, <1>11, <1>12, <2>2, <2>3
  <2>5. QED
    BY <1>2, <1>4, <1>6, <1>9, <1>13, <2>1, <2>4, TwoSaid
<1>15. QED
  BY <1>2, <1>9, <1>10, <1>14

LEMMA StopServed ==
    ASSUME CalmInv, LeftShape, ModesKept, ~Disturbed, NEW f \in flows, NEW ok \in BOOLEAN, ServeStop(f, ok)
    PROVE  CalmInv'
<1>1. IsFlow(f) /\ f.at = "stop" /\ f.ans = "none"
  BY HandlerOf DEF ServeStop, Waiting
<1>2. f.kind = "stop" /\ Hs(flows) = {f} /\ known /\ Handler(f)
  <2>1. f.kind = "stop"
    BY <1>1 DEF IsFlow, Kinds, CallsOf
  <2>2. QED
    BY <2>1, HandlerOf, Knows
<1>3. IsInfo(f.info) /\ f.info.handle <= agent.handle
  BY <1>1, <1>2 DEF IsFlow, Handler
<1>4. /\ Copies' /\ EventShape' /\ Answer(f, "ok", f.info) /\ IsInfo(agent')
      /\ agent'.handle = agent.handle /\ agent'.perm = agent.perm
      /\ agent' = agent \/ (Gone(agent'.status) /\ ~Live(agent'.status))
      /\ f.info.handle = agent.handle => Gone(agent'.status)
      /\ \A i \in DOMAIN events' : ~IsStatus(i)' => i \in DOMAIN events /\ events'[i] = events[i]
  BY <1>3, StopSaid
<1>5. FlowShape' /\ \E g : Told(f, g, "ok", f.info) /\ Hs(flows) = {f} /\ Hs(flows') = {g}
  BY <1>2, <1>3, <1>4, FlowsAnswered DEF CalmInv, Shape
<1>6. PICK g : Told(f, g, "ok", f.info) /\ Hs(flows') = {g}
  BY <1>5
<1>7. g.kind = "stop" /\ g.info = f.info
  BY <1>2, <1>6 DEF Told, SameCall
<1>8. AgentShape'
  BY <1>4 DEF CalmInv, Shape, AgentShape, ModesKept, Live, Gone
<1>9. Shape'
  BY <1>4, <1>5, <1>8 DEF CalmInv, Shape, DiskShape, ModesKept
<1>10. Handled'
  BY <1>3, <1>4, <1>6, <1>7 DEF Handled, Handler
<1>11. ~Leaving /\ ~Leaving'
  BY <1>2, <1>6, <1>7 DEF Leaving, Leaves
<1>12. Words'
  BY <1>4, <1>11 DEF CalmInv, Words, IsStatus, ModesKept
<1>13. PlanSaved' /\ PermSaved'
  BY <1>2 DEF CalmInv, Saved, PlanSaved, PermSaved, Spawned, PermsAgree, ModesKept
<1>14. AgentTold'
  <2>1. Agrees
    BY <1>2 DEF CalmInv, Saved, AgentTold, Behind, Spawned, Leaves
  <2>2. QED
    BY <1>4, <2>1 DEF AgentTold, Agrees, ModesKept
<1>15. Unknown'
  BY <1>2 DEF Unknown, ModesKept
<1>16. QED
  BY <1>4, <1>9, <1>10, <1>12, <1>13, <1>14, <1>15 DEF CalmInv, Saved

\* What a plan approval is answered with is given to the agent.
LEMMA ResolveServed ==
    ASSUME CalmInv, UNCHANGED passed, NEW f \in flows, ServeResolve(f)
    PROVE  CalmInv'
<1> DEFINE ans == IF asking THEN "ok" ELSE "err"
<1>1. /\ IsFlow(f) /\ f.at = "resolve" /\ f.ans = "none" /\ Answer(f, ans, f.info) /\ ans \in {"none", "ok", "err"}
      /\ UNCHANGED <<roster, perms, plan, known, agent, saved, passed>>
  BY HandlerOf DEF ServeResolve, Waiting, window
<1>2. f.kind = "resolve" /\ Hs(flows) = {f} /\ known /\ Handler(f)
  <2>1. f.kind = "resolve"
    BY <1>1 DEF IsFlow, Kinds, CallsOf
  <2>2. QED
    BY <2>1, HandlerOf, Knows
<1>3. IsInfo(f.info) /\ NoWords
  BY <1>1, <1>2 DEF IsFlow, Handler
<1>4. Plain(f)
  BY <1>1, <1>2 DEF Plain, Behind, Spawned, Leaves
<1>5. CASE ~(asking /\ f.arg \in {"approve", "abandon"})
  <2>1. UNCHANGED <<events, wire>>
    BY <1>5 DEF ServeResolve
  <2> HIDE DEF ans
  <2>2. ASSUME NEW g, Told(f, g, ans, f.info) PROVE Follows(g) /\ Handler(g)'
    <3>1. g.kind = "resolve" /\ g.arg = f.arg /\ g.ans = ans
      BY <1>2, <2>2 DEF Told, SameCall
    <3>2. ans # "none" /\ (ans = "ok" => asking)
      BY DEF ans
    <3>3. ~Leaves(g)
      BY <1>5, <3>1, <3>2 DEF Leaves, LeavesPlan
    <3>4. QED
      BY <1>2, <3>1, <3>2, <3>3 DEF Follows, Handler
  <2>3. /\ FlowShape'
        /\ \/ Hs(flows') = Hs(flows)
           \/ (\A x \in Hs(flows) : Plain(x)) /\ \A g \in Hs(flows') : Follows(g) /\ Handler(g)'
    BY <1>1, <1>3, <1>4, <2>2, ServedFlow DEF CalmInv, Shape
  <2>4. ModesKept
    BY <1>1, <2>1 DEF ModesKept
  <2>5. QED
    BY <1>1, <2>1, <2>3, <2>4, Still
<1>6. CASE asking /\ f.arg \in {"approve", "abandon"}
  <2>1. wire' = "default" /\ events' = Append(events, ModeOf("default")) /\ Answer(f, "ok", f.info)
    BY <1>1, <1>6 DEF ServeResolve, EmitMode, ModeOf
  <2>2. Copies' /\ EventShape'
    <3>1. Fits(roster) /\ EventShape /\ roster' = roster /\ agent' = agent
      BY <1>1 DEF CalmInv, Shape, Copies
    <3>2. QED
      BY <2>1, <3>1, CopiesMode
  <2>3. FlowShape' /\ \E g : Told(f, g, "ok", f.info) /\ Hs(flows) = {f} /\ Hs(flows') = {g}
    BY <1>2, <1>3, <2>1, FlowsAnswered DEF CalmInv, Shape
  <2>4. PICK g : Told(f, g, "ok", f.info) /\ Hs(flows') = {g}
    BY <2>3
  <2>5. g.kind = "resolve" /\ g.ans = "ok" /\ Leaves(g) /\ Leaving'
    BY <1>2, <1>6, <2>4 DEF Told, SameCall, Leaves, LeavesPlan, Leaving
  <2>6. Shape'
    BY <1>1, <2>2, <2>3 DEF CalmInv, Shape, AgentShape, DiskShape
  <2>7. Handled'
    BY <2>1, <2>4, <2>5 DEF Handled, Handler
  <2>8. \A i \in DOMAIN events' : ~IsStatus(i)' => events'[i].info.status = "default"
    <3>1. IsEvent(ModeOf("default")) /\ ModeOf("default").info.status = "default"
      BY DEF IsEvent, ModeOf, IsInfo, NoAgent
    <3>2. /\ DOMAIN events' = 1..(Len(events) + 1) /\ DOMAIN events = 1..Len(events) /\ Len(events) \in Nat
          /\ events'[Len(events) + 1] = ModeOf("default") /\ \A i \in DOMAIN events : events'[i] = events[i]
      BY <2>1, <3>1, Said DEF CalmInv, Shape
    <3>3. \A i \in DOMAIN events' : i \in DOMAIN events \/ i = Len(events) + 1
      BY <3>2
    <3>4. QED
      BY <1>3, <3>1, <3>2, <3>3 DEF IsStatus, NoWords
  <2>9. Words'
    BY <2>5, <2>8 DEF Words
  <2>10. PlanSaved' /\ PermSaved'
    BY <1>1, <1>2 DEF CalmInv, Saved, PlanSaved, PermSaved, PermsAgree, Spawned
  <2>11. AgentTold'
    BY <2>4, <2>5 DEF AgentTold, Behind
  <2>12. Unknown'
    BY <1>1, <1>2 DEF Unknown
  <2>13. QED
    BY <2>2, <2>6, <2>7, <2>9, <2>10, <2>11, <2>12 DEF CalmInv, Saved
<1>7. QED
  BY <1>5, <1>6

\* What an agent is told of its mode, and says of it.
LEMMA ModeSaid ==
    ASSUME CalmInv, UNCHANGED <<roster, perms, plan, known, agent, saved, passed>>, NEW mode, wire' = mode,
           (mode = "plan") = IsArmed(plan), ~Leaving, events' = Append(events, ModeOf(mode)), known,
           FlowShape', Handled', ~Leaving',
           \E f : Hs(flows) = {f} /\ Hs(flows') # {} /\ \A g \in Hs(flows') : g.kind = f.kind /\ (g.kind # "mode" => ~Spawned(f))
    PROVE  CalmInv'
<1>1. Copies' /\ EventShape'
  <2>1. Fits(roster) /\ EventShape
    BY DEF CalmInv, Shape, Copies
  <2>2. QED
    BY <2>1, CopiesMode
<1>2. Shape'
  BY <1>1 DEF CalmInv, Shape, AgentShape, DiskShape
<1>3. \A i \in DOMAIN events' : ~IsStatus(i)' => (events'[i].info.status = "plan") = IsArmed(plan)
  <2>1. IsEvent(ModeOf(mode)) /\ ModeOf(mode).info.status = mode
    BY DEF IsEvent, ModeOf, IsInfo, NoAgent
  <2>2. /\ DOMAIN events' = 1..(Len(events) + 1) /\ DOMAIN events = 1..Len(events) /\ Len(events) \in Nat
        /\ events'[Len(events) + 1] = ModeOf(mode) /\ \A i \in DOMAIN events : events'[i] = events[i]
    BY <2>1, Said DEF CalmInv, Shape
  <2>3. \A i \in DOMAIN events' : i \in DOMAIN events \/ i = Len(events) + 1
    BY <2>2
  <2>4. QED
    BY <2>1, <2>2, <2>3 DEF IsStatus, CalmInv, Words
<1>4. Words'
  BY <1>3 DEF Words
<1>5. PlanSaved' /\ PermSaved'
  BY DEF CalmInv, Saved, PlanSaved, PermSaved, PermsAgree, Spawned
<1>6. AgentTold'
  BY DEF AgentTold, Agrees
<1>7. Unknown'
  BY DEF Unknown
<1>8. QED
  BY <1>1, <1>2, <1>4, <1>5, <1>6, <1>7 DEF CalmInv, Saved

\* session/set_mode is for a change of the mode, or for a send that is to be in Plan.
LEMMA SetModeServed ==
    ASSUME CalmInv, LeftShape, UNCHANGED passed, ~Disturbed, NEW f \in flows, NEW ok \in BOOLEAN, ServeSetMode(f, ok)
    PROVE  CalmInv'
<1> DEFINE ans == IF ok THEN "ok" ELSE "err"
<1>1. /\ IsFlow(f) /\ f.at = "setMode" /\ f.ans = "none" /\ Answer(f, ans, f.info) /\ ans \in {"none", "ok", "err"}
      /\ UNCHANGED <<roster, perms, plan, known, agent, saved, passed>>
  BY HandlerOf DEF ServeSetMode, Waiting, window
<1>2. f.kind \in {"mode", "send"} /\ Hs(flows) = {f} /\ known /\ Handler(f)
  <2>1. f.kind \in {"mode", "send"}
    BY <1>1 DEF IsFlow, Kinds, CallsOf
  <2>2. QED
    BY <2>1, HandlerOf, Knows
<1>3. IsInfo(f.info)
  BY <1>1, <1>2 DEF IsFlow
<1>4. f.kind = "send" => SendFlow(f) /\ f.stage \in {2, 4} /\ f.planned = TRUE /\ f.arg = "plan" /\ IsArmed(plan)
  BY <1>1, <1>2, StageOf DEF Handler, SendFlow
<1>5. f.kind = "mode" => ModeFlow(f) /\ f.live /\ (f.arg = "plan") = IsArmed(plan)
  BY <1>1, <1>2 DEF Handler, ModeFlow
<1>6. \A a : Copy(a) => Copy(a)'
  BY <1>1 DEF Copy, Right, Old
<1>7. FlowShape' /\ \E g : Told(f, g, ans, f.info) /\ Hs(flows) = {f} /\ Hs(flows') = {g}
  BY <1>1, <1>2, <1>3, FlowsAnswered DEF CalmInv, Shape
<1>8. PICK g : Told(f, g, ans, f.info) /\ Hs(flows') = {g}
  BY <1>7
<1>9. g.kind = f.kind /\ g.ans = ans /\ ~Leaves(g) /\ ~Leaves(f)
  BY <1>2, <1>8 DEF Told, SameCall, Leaves
<1>10. CASE ok
  <2>1. wire' = f.arg /\ events' = Append(events, ModeOf(f.arg)) /\ (f.arg = "plan") = IsArmed(plan) /\ ans = "ok"
    BY <1>2, <1>4, <1>5, <1>10 DEF ServeSetMode, EmitMode, ModeOf
  <2> HIDE DEF ans
  <2>2. f.kind = "send" => SendFlow(g)'
    <3> SUFFICES ASSUME f.kind = "send" PROVE SendFlow(g)'
      OBVIOUS
    <3>1. SendFlow(f) /\ f.stage \in {2, 4} /\ wire' = "plan"
      BY <1>4, <2>1
    <3>2. QED
      BY <1>1, <1>6, <1>8, <2>1, <3>1 DEF Told, SameCall, SendFlow
  <2>3. f.kind = "mode" => ModeFlow(g)'
    <3> SUFFICES ASSUME f.kind = "mode" PROVE ModeFlow(g)'
      OBVIOUS
    <3>1. ModeFlow(f) /\ f.at = "setMode"
      BY <1>1, <1>5
    <3>2. PermsAgree' = PermsAgree
      BY <1>1 DEF PermsAgree
    <3>3. QED
      BY <1>1, <1>8, <2>1, <3>1, <3>2 DEF Told, SameCall, ModeFlow
  <2>4. Handled'
    BY <1>2, <1>8, <1>9, <2>2, <2>3 DEF Handled, Handler
  <2>5. ~Leaving /\ ~Leaving'
    BY <1>2, <1>8, <1>9 DEF Leaving
  <2>6. \E x : Hs(flows) = {x} /\ Hs(flows') # {} /\ \A y \in Hs(flows') : y.kind = x.kind /\ (y.kind # "mode" => ~Spawned(x))
    BY <1>2, <1>8, <1>9 DEF Spawned
  <2> DEFINE mode == f.arg
  <2>7. wire' = mode /\ events' = Append(events, ModeOf(mode)) /\ (mode = "plan") = IsArmed(plan)
    BY <2>1
  <2> HIDE DEF mode
  <2>8. QED
    BY <1>1, <1>2, <1>7, <2>4, <2>5, <2>6, <2>7, ModeSaid
<1>11. CASE ~ok
  <2>1. UNCHANGED <<wire, events>> /\ ~Reachable(f.info.handle) /\ ans = "err"
    BY <1>11, Spent DEF ServeSetMode
  <2> HIDE DEF ans
  <2>2. f.kind = "send" /\ SendFlow(f) /\ f.stage \in {2, 4}
    BY <1>2, <1>4, <1>5, <2>1 DEF ModeFlow, Reachable
  <2>3. ModesKept
    BY <1>1, <2>1 DEF ModesKept
  <2>4. f.stage = 2 => Gone(agent.status)
    BY <2>1, <2>2 DEF SendFlow, Reachable, CalmInv, Shape, AgentShape
  <2>5. SendFlow(g)'
    BY <1>1, <1>6, <1>8, <2>1, <2>2, <2>3, <2>4 DEF Told, SameCall, SendFlow, ModesKept
  <2>6. Handler(g)' /\ Follows(g)
    BY <1>2, <1>9, <2>2, <2>5 DEF Handler, Follows
  <2>7. CASE f.stage = 4
    <3>1. Plain(f)
      BY <1>9, <2>2, <2>7 DEF Plain, Behind, Spawned, Reapplies
    <3>2. QED
      BY <1>1, <1>2, <1>7, <1>8, <2>1, <2>3, <2>6, <3>1, Still
  <2>8. CASE f.stage = 2
    <3>1. Copies'
      BY <1>1, <2>1, CopiesKept DEF CalmInv, Copies, Same
    <3>2. Shape'
      BY <1>1, <1>7, <2>1 DEF CalmInv, Shape, EventShape, AgentShape, DiskShape
    <3>3. Handled'
      BY <1>8, <2>6 DEF Handled
    <3>4. ~Leaving /\ ~Leaving'
      BY <1>2, <1>8, <1>9 DEF Leaving
    <3>5. Words'
      BY <1>1, <2>1, <3>4 DEF CalmInv, Words, IsStatus
    <3>6. PlanSaved' /\ PermSaved'
      BY <1>1, <1>2, <2>2 DEF CalmInv, Saved, PlanSaved, PermSaved, PermsAgree, Spawned
    <3>7. AgentTold'
      BY <1>1, <2>4, <2>8 DEF AgentTold, Agrees, Live, Gone
    <3>8. Unknown'
      BY <1>1, <1>2 DEF Unknown
    <3>9. QED
      BY <3>1, <3>2, <3>3, <3>5, <3>6, <3>7, <3>8 DEF CalmInv, Saved
  <2>9. QED
    BY <2>2, <2>7, <2>8
<1>12. QED
  BY <1>10, <1>11

-----------------------------------------------------------------------------
(* A new agent.                                                            *)

\* What a start says of its handle: one word, or two.
LEMMA Announced ==
    ASSUME EventShape, NEW f, NEW a, IsInfo(a), Announce(f, a)
    PROVE  \/ events' = Append(events, StatusOf(a))
           \/ \E b : /\ IsInfo(b) /\ b.handle = a.handle
                     /\ events' = Append(Append(events, StatusOf(b)), StatusOf(a))
<1> DEFINE before == [i \in DOMAIN Preface(f) |-> [a EXCEPT !.status = Preface(f)[i]]]
<1>1. Emit(before \o <<a>>)
  BY DEF Announce
<1>2. CASE Preface(f) = <<>>
  <2>1. before = <<>>
    BY <1>2
  <2> HIDE DEF before
  <2>2. before \o <<a>> = <<a>>
    BY <2>1
  <2>3. Emit(<<a>>)
    BY <1>1, <2>2
  <2>4. QED
    BY <2>3, EmitsOne
<1>3. ASSUME NEW status, Preface(f) = <<status>>
      PROVE  \E b : IsInfo(b) /\ b.handle = a.handle /\ events' = Append(Append(events, StatusOf(b)), StatusOf(a))
  <2> DEFINE b == [a EXCEPT !.status = status]
  <2>1. DOMAIN Preface(f) = 1..1 /\ Preface(f)[1] = status
    BY <1>3
  <2>2. before = [i \in 1..1 |-> b]
    BY <2>1
  <2>3. IsInfo(b) /\ b.handle = a.handle
    BY DEF IsInfo
  <2> HIDE DEF before, b
  <2>4. <<b>> = [i \in 1..1 |-> b]
    OBVIOUS
  <2>5. <<b>> \o <<a>> = <<b, a>>
    <3>1. <<b>> \in Seq({a, b}) /\ <<a>> \in Seq({a, b}) /\ <<b, a>> \in Seq({a, b})
      OBVIOUS
    <3>2. PICK q : q = <<b>> \o <<a>>
      OBVIOUS
    <3>3. q \in Seq({a, b}) /\ Len(q) = 2 /\ q[1] = b /\ q[2] = a
      BY <3>1, <3>2
    <3>4. q = [i \in 1..2 |-> IF i = 1 THEN b ELSE a]
      BY <3>3
    <3>5. <<b, a>> = [i \in 1..2 |-> IF i = 1 THEN b ELSE a]
      OBVIOUS
    <3>6. QED
      BY <3>2, <3>4, <3>5
  <2>6. Emit(<<b, a>>)
    BY <1>1, <2>2, <2>4, <2>5
  <2>7. QED
    BY <2>3, <2>6, EmitsTwo
<1>4. Preface(f) \in {<<"starting">>, <<"ready">>, <<>>}
  BY DEF Preface
<1>5. QED
  BY <1>2, <1>3, <1>4

\* Every start says what the new agent is; one for a new task may also say it is in Plan.
AnswerTo(f, a) == IF Gone(a.status) THEN f.info ELSE a
LEMMA AgentStarts ==
    ASSUME CalmInv, UNCHANGED passed, NEW f \in flows, ServeStart(f) \/ AttachFails(f), Clean
    PROVE  /\ IsInfo(agent') /\ agent'.handle = agent.handle + 1 /\ agent'.perm = StartMode(f)
           /\ (Live(agent'.status) \/ Gone(agent'.status)) /\ passed' # agent'.handle
           /\ (Gone(agent'.status) => f.at = "attach")
           /\ saved' = [saved EXCEPT !.perm = StartMode(f)]
           /\ wire' = (IF f.planned /\ f.at = "spawn" /\ Live(agent'.status) THEN "plan" ELSE "default")
           /\ Answer(f, IF Gone(agent'.status) THEN "err" ELSE "ok", AnswerTo(f, agent'))
           /\ UNCHANGED <<roster, perms, plan, known>>
           /\ Copies' /\ EventShape' /\ NoWords' /\ AgentShape' /\ DiskShape'
<1>1. PICK status : /\ agent' = Begun(f, status) /\ (Live(status) \/ Gone(status)) /\ (Gone(status) => f.at = "attach")
                    /\ wire' = (IF f.planned /\ f.at = "spawn" /\ Live(status) THEN "plan" ELSE "default")
                    /\ Answer(f, IF Gone(status) THEN "err" ELSE "ok", IF Gone(status) THEN f.info ELSE agent')
  <2>1. CASE ServeStart(f)
    <3> DEFINE status == IF f.prompt THEN "running" ELSE "ready"
    <3>1. Live(status) /\ ~Gone(status)
      BY DEF Live, Gone
    <3>2. /\ agent' = Begun(f, status) /\ wire' = (IF f.planned /\ f.at = "spawn" THEN "plan" ELSE "default")
          /\ Answer(f, "ok", agent')
      BY <2>1 DEF ServeStart
    <3> HIDE DEF status
    <3>3. QED
      BY <3>1, <3>2
  <2>2. CASE AttachFails(f)
    <3>1. Gone("error") /\ ~Live("error")
      BY DEF Live, Gone
    <3>2. agent' = Begun(f, "error") /\ wire' = "default" /\ Answer(f, "err", f.info) /\ f.at = "attach"
      BY <2>2 DEF AttachFails
    <3>3. QED
      BY <3>1, <3>2
  <2>3. QED
    BY <2>1, <2>2
<1>2. /\ saved' = [saved EXCEPT !.perm = StartMode(f)] /\ Announce(f, agent')
      /\ UNCHANGED <<roster, perms, plan, known>>
  BY DEF ServeStart, AttachFails, window
<1>3. agent.handle \in Nat /\ passed \in Nat /\ passed <= agent.handle /\ DiskShape /\ EventShape /\ IsInfo(agent)
  BY DEF CalmInv, Shape, AgentShape, IsInfo
<1>4. IsInfo(agent') /\ agent'.handle = agent.handle + 1 /\ agent'.perm = StartMode(f) /\ agent'.status = status
  BY <1>1, <1>3 DEF Begun, IsInfo
<1>5. \/ events' = Append(events, StatusOf(agent'))
      \/ \E b : IsInfo(b) /\ b.handle = agent'.handle /\ events' = Append(Append(events, StatusOf(b)), StatusOf(agent'))
  <2>1. PICK a : a = agent'
    OBVIOUS
  <2>2. QED
    BY <1>2, <1>3, <1>4, <2>1, Announced
<1>6. OthersStay(agent'.handle) /\ agent.handle <= agent'.handle
  <2>1. ASSUME NEW b, b.handle \in Nat, b.handle # agent'.handle, b.handle <= agent.handle, Copy(b) PROVE Copy(b)'
    <3>1. Gone(b.status)
      BY <2>1 DEF Copy, Right, Old, Clean
    <3>2. b.handle <= agent'.handle
      BY <1>3, <1>4, <2>1
    <3>3. QED
      BY <2>1, <3>1, <3>2 DEF Copy, Right, Old
  <2>2. QED
    BY <1>3, <1>4, <2>1 DEF OthersStay
<1>7. Copies' /\ EventShape' /\ (NoWords => NoWords')
  <2>1. PICK a : a = agent'
    OBVIOUS
  <2>2. Copy(a)'
    BY <1>4, <2>1 DEF Copy, Right, Old, IsInfo
  <2>3. Fits(roster) /\ roster' = roster /\ IsInfo(a) /\ OthersStay(a.handle) /\ a.handle = agent'.handle
    BY <1>2, <1>4, <1>6, <2>1 DEF CalmInv, Copies
  <2>4. CASE events' = Append(events, StatusOf(a))
    BY <1>3, <1>4, <1>6, <2>2, <2>3, <2>4, OneSaid
  <2>5. CASE \E b : IsInfo(b) /\ b.handle = a.handle /\ events' = Append(Append(events, StatusOf(b)), StatusOf(a))
    BY <1>3, <1>4, <1>6, <2>2, <2>3, <2>5, TwoSaid
  <2>6. QED
    BY <1>5, <2>1, <2>4, <2>5
<1>8. NoWords
  BY DEF Clean, NoWords
<1>9. AgentShape' /\ passed' # agent'.handle
  BY <1>1, <1>3, <1>4 DEF AgentShape
<1>10. DiskShape'
  BY <1>2, <1>3 DEF DiskShape
<1>11. QED
  BY <1>1, <1>2, <1>4, <1>7, <1>8, <1>9, <1>10 DEF AnswerTo

\* The agent of a send, or of a new task, is started; that of a send may fail.
LEMMA Started ==
    ASSUME CalmInv, UNCHANGED passed, NEW f \in flows, ServeStart(f) \/ AttachFails(f)
    PROVE  CalmInv'
<1>1. IsFlow(f) /\ f.at \in {"attach", "spawn"} /\ f.ans = "none"
  BY HandlerOf DEF ServeStart, AttachFails, MayStart, Waiting
<1>2. f.kind \in {"send", "spawn"} /\ Hs(flows) = {f} /\ Handler(f)
  <2>1. f.kind \in {"send", "spawn"}
    BY <1>1 DEF IsFlow, Kinds, CallsOf
  <2>2. QED
    BY <2>1, HandlerOf
<1>3. f.kind = "send" => SendFlow(f) /\ f.stage = 1 /\ f.at = "attach" /\ known
  BY <1>1, <1>2, StageOf, Knows DEF Handler, SendFlow
<1>4. f.kind = "spawn" => SpawnFlow(f) /\ f.at = "spawn"
  BY <1>1, <1>2 DEF Handler, IsFlow, CallsOf, Kinds
<1>5. Clean /\ IsInfo(f.info)
  BY <1>1, <1>2, <1>3, <1>4 DEF SendFlow, SpawnFlow, IsFlow
<1>6. /\ IsInfo(agent') /\ agent'.handle = agent.handle + 1 /\ agent'.perm = StartMode(f)
      /\ (Live(agent'.status) \/ Gone(agent'.status)) /\ passed' # agent'.handle
      /\ (Gone(agent'.status) => f.at = "attach")
      /\ saved' = [saved EXCEPT !.perm = StartMode(f)]
      /\ wire' = (IF f.planned /\ f.at = "spawn" /\ Live(agent'.status) THEN "plan" ELSE "default")
      /\ Answer(f, IF Gone(agent'.status) THEN "err" ELSE "ok", AnswerTo(f, agent'))
      /\ UNCHANGED <<roster, perms, plan, known>>
      /\ Copies' /\ EventShape' /\ NoWords' /\ AgentShape' /\ DiskShape'
  BY <1>5, AgentStarts
<1>7. saved'.perm = StartMode(f) /\ saved'.plan = saved.plan
  BY <1>6 DEF CalmInv, Shape, DiskShape
<1> DEFINE info == AnswerTo(f, agent')
           ans == IF Gone(agent'.status) THEN "err" ELSE "ok"
<1>8. FlowShape' /\ \E g : Told(f, g, ans, info) /\ Hs(flows) = {f} /\ Hs(flows') = {g}
  <2>1. IsInfo(info) /\ Answer(f, ans, info) /\ ans \in {"none", "ok", "err"}
    BY <1>5, <1>6 DEF AnswerTo
  <2> HIDE DEF info, ans
  <2>2. QED
    BY <1>2, <2>1, FlowsAnswered DEF CalmInv, Shape
<1>9. PICK g : Told(f, g, ans, info) /\ Hs(flows') = {g}
  BY <1>8
<1>10. g.kind = f.kind /\ g.ans = ans /\ (ans = "ok" => g.info = agent') /\ ~Leaves(g)
  BY <1>2, <1>9 DEF Told, SameCall, Leaves, AnswerTo
<1>11. (ans = "ok" => Copy(g.info)') /\ ans \in {"ok", "err"} /\ (ans = "err" <=> Gone(agent'.status))
  BY <1>6, <1>10 DEF Copy, Right, Old, IsInfo
<1> HIDE DEF ans, info
<1>12. Shape'
  BY <1>6, <1>8 DEF CalmInv, Shape
<1>13. Words'
  BY <1>6 DEF Words, NoWords, IsStatus
<1>14. PlanSaved'
  BY <1>2, <1>6, <1>7 DEF CalmInv, Saved, PlanSaved
<1>15. CASE f.kind = "send"
  <2>1. SendFlow(g)'
    <3>1. SendFlow(f) /\ f.stage = 1 /\ g.at = f.at /\ SameCall(f, g)
      BY <1>3, <1>9, <1>15 DEF Told
    <3>2. QED
      BY <1>6, <1>7, <1>10, <1>11, <1>15, <3>1 DEF SameCall, SendFlow
  <2>2. Handled'
    BY <1>9, <1>10, <1>15, <2>1 DEF Handled, Handler
  <2>3. PermsAgree'
    <3>1. PermsAgree
      BY <1>2, <1>15 DEF CalmInv, Saved, PermSaved, Spawned
    <3>2. f.arg = perms
      BY <1>1, <1>3, <1>15 DEF SendFlow
    <3>3. QED
      BY <1>6, <1>7, <3>1, <3>2 DEF PermsAgree, StartMode
  <2>4. AgentTold'
    <3> SUFFICES ASSUME ~Behind(g), Live(agent'.status) PROVE Agrees'
      BY <1>9 DEF AgentTold, Agrees
    <3>1. g.planned = f.planned /\ g.stage = 1
      BY <1>3, <1>9, <1>15 DEF Told, SameCall
    <3>2. g.ans = "ok"
      BY <1>10, <1>11 DEF Live, Gone
    <3>3. ~g.planned
      BY <1>10, <1>15, <3>1, <3>2 DEF Behind, Reapplies
    <3>4. ~IsArmed(plan) /\ wire' = "default"
      BY <1>3, <1>6, <1>15, <3>1, <3>3 DEF SendFlow
    <3>5. QED
      BY <1>6, <3>4 DEF Agrees, IsArmed
  <2>5. Unknown'
    BY <1>3, <1>6, <1>15 DEF Unknown
  <2>6. QED
    BY <1>6, <1>12, <1>13, <1>14, <2>2, <2>3, <2>4, <2>5 DEF CalmInv, Saved, PermSaved
<1>16. CASE f.kind = "spawn"
  <2>1. Live(agent'.status) /\ ans = "ok"
    BY <1>4, <1>6, <1>11, <1>16
  <2>2. Spawned(g)
    BY <1>10, <1>16, <2>1 DEF Spawned
  <2>3. StartMode(f) = f.arg /\ g.arg = f.arg /\ g.planned = f.planned
    BY <1>1, <1>4, <1>9, <1>16 DEF SpawnFlow, StartMode, Told, SameCall
  <2>4. SpawnFlow(g)'
    <3>1. (wire' = "plan") = f.planned
      BY <1>4, <1>6, <1>16, <2>1 DEF SpawnFlow
    <3>2. QED
      BY <1>4, <1>6, <1>7, <1>10, <1>11, <1>16, <2>1, <2>3, <3>1 DEF SpawnFlow
  <2>5. Handled'
    BY <1>9, <1>10, <1>16, <2>4 DEF Handled, Handler
  <2>6. PermSaved' /\ AgentTold'
    BY <1>9, <2>2 DEF PermSaved, AgentTold, Behind
  <2>7. Unknown'
    BY <1>2, <1>6, <1>9, <1>10, <1>16, <2>2 DEF CalmInv, Unknown
  <2>8. QED
    BY <1>6, <1>12, <1>13, <1>14, <2>5, <2>6, <2>7 DEF CalmInv, Saved
<1>17. QED
  BY <1>2, <1>15, <1>16

-----------------------------------------------------------------------------
(* A handler that is over.                                                 *)

\* The last step of a handler: all that it changed is told and saved.
LEMMA Over ==
    ASSUME CalmInv, UNCHANGED <<agent, events, wire, passed>>, NEW list, Fits(list), roster' = list,
           FlowShape', Hs(flows') = {}, DiskShape', plan' \in {"off", "pending", "active"},
           \A i \in DOMAIN events : ~IsStatus(i) => (events[i].info.status = "plan") = IsArmed(plan'),
           IsArmed(plan') = saved'.plan, PermsAgree', Agrees',
           known' \/ (~known /\ ~IsArmed(plan') /\ NoWords /\ Nobody /\ list = <<>>)
    PROVE  CalmInv'
<1>1. Copies'
  BY CopiesKept DEF Same
<1>2. Shape'
  BY DEF CalmInv, Shape, EventShape, AgentShape
<1>3. ~Leaving'
  BY DEF Leaving
<1>4. Words'
  BY <1>3 DEF Words, IsStatus
<1>5. Saved'
  BY DEF Saved, PlanSaved, PermSaved, AgentTold
<1>6. Unknown'
  BY DEF Unknown, NoWords, IsStatus, Nobody
<1>7. Handled'
  BY DEF Handled
<1>8. QED
  BY <1>1, <1>2, <1>4, <1>5, <1>6, <1>7 DEF CalmInv

\* What holds beside a handler that is no change of the mode.
LEMMA Beside ==
    ASSUME CalmInv, NEW f, Hs(flows) = {f}
    PROVE  /\ f.kind # "mode" => IsArmed(plan) = saved.plan
           /\ f.kind # "mode" /\ ~Spawned(f) => PermsAgree
           /\ ~Behind(f) => Agrees
           /\ ~Leaves(f) => \A i \in DOMAIN events : ~IsStatus(i) => (events[i].info.status = "plan") = IsArmed(plan)
           /\ Leaves(f) => \A i \in DOMAIN events : ~IsStatus(i) => events[i].info.status # "plan"
           /\ EventShape /\ DiskShape /\ FlowShape /\ plan \in {"off", "pending", "active"} /\ Fits(roster)
           /\ ~known => ~IsArmed(plan) /\ NoWords /\ (~Spawned(f) => Nobody)
                        /\ (f.kind = "spawn" \/ (f.kind = "list" /\ (f.ans = "ok" => f.info.status = "none")))
  BY DEF CalmInv, Saved, PlanSaved, PermSaved, AgentTold, Words, Leaving, Shape, Copies, Unknown

\* The flows without a handler.
LEMMA FlowsWithout ==
    ASSUME FlowShape, NEW f \in flows, f.kind # "default",
           flows' = flows \ {f} \/ \E list, fresh : Rendered(list, flows \ {f}, fresh)
    PROVE  FlowShape' /\ Hs(flows') = {}
<1> DEFINE fs == flows \ {f}
<1>1. Hs(fs) = {} /\ \A x \in fs : IsFlow(x)
  BY OneHandler
<1>2. flows' = fs \/ \E list, fresh : Rendered(list, fs, fresh)
  OBVIOUS
<1> HIDE DEF fs
<1>3. QED
  BY <1>1, <1>2, FlowsBecome

\* The end of a handler that changed no mode.
LEMMA PlainOver ==
    ASSUME CalmInv, ModesKept, UNCHANGED <<agent, events>>, NEW f \in flows, f.kind # "default", Plain(f),
           NEW list, Fits(list), roster' = list, known \/ list = roster,
           flows' = flows \ {f} \/ \E l, fresh : Rendered(l, flows \ {f}, fresh)
    PROVE  CalmInv'
<1>1. Hs(flows) = {f}
  BY HandlerOf
<1>2. FlowShape' /\ Hs(flows') = {}
  BY FlowsWithout DEF CalmInv, Shape
<1>3. ~Leaves(f) /\ ~Spawned(f) /\ f.kind # "mode" /\ ~Behind(f)
  BY DEF Plain, Behind
<1>4. /\ IsArmed(plan) = saved.plan /\ PermsAgree /\ Agrees /\ DiskShape /\ plan \in {"off", "pending", "active"}
      /\ \A i \in DOMAIN events : ~IsStatus(i) => (events[i].info.status = "plan") = IsArmed(plan)
      /\ ~known => ~IsArmed(plan) /\ NoWords /\ Nobody
  BY <1>1, <1>3, Beside
<1>5. PermsAgree' /\ Agrees' /\ DiskShape' /\ UNCHANGED <<wire, passed, plan, saved, known>>
  BY <1>4 DEF PermsAgree, Agrees, DiskShape, ModesKept
<1>6. QED
  BY <1>2, <1>4, <1>5, Over DEF Nobody

LEMMA StopEnds ==
    ASSUME CalmInv, UNCHANGED passed, NEW f \in flows, StopAnswered(f)
    PROVE  CalmInv'
<1> DEFINE list == IF f.ans = "ok" THEN Only(roster, {a \in ToSet(roster) : a.handle # f.info.handle}) ELSE roster
<1>1. /\ f.kind = "stop" /\ f.ans # "none" /\ Rendered(list, flows \ {f}, armed)
      /\ ModesKept /\ UNCHANGED <<agent, events>>
  BY DEF StopAnswered, ModesKept, host
<1>2. known /\ Handler(f)
  BY <1>1, Knows, HandlerOf
<1>3. Live(agent.status) => f.info.handle # agent.handle
  BY <1>1, <1>2 DEF Handler, Live, Gone
<1>4. Fits(list)
  BY <1>3, FitsOnly DEF CalmInv, Copies
<1> HIDE DEF list
<1>5. roster' = list /\ \E l, fresh : Rendered(l, flows \ {f}, fresh)
  BY <1>1 DEF Rendered
<1>6. Plain(f)
  BY <1>1 DEF Plain, Behind, Spawned, Leaves
<1>7. QED
  BY <1>1, <1>2, <1>4, <1>5, <1>6, PlainOver

LEMMA ListEnds ==
    ASSUME CalmInv, UNCHANGED passed, NEW f \in flows, ListAnswered(f)
    PROVE  CalmInv'
<1> DEFINE list == IF f.info.status \in {"none", "stopped", "unborn"} THEN roster ELSE With(roster, f.info)
<1>1. /\ f.kind = "list" /\ f.ans = "ok" /\ Rendered(list, flows \ {f}, armed)
      /\ ModesKept /\ UNCHANGED <<agent, events>>
  BY DEF ListAnswered, ModesKept, host
<1>2. IsInfo(f.info) /\ Copy(f.info) /\ Hs(flows) = {f}
  BY <1>1, HandlerOf DEF Handler, IsFlow
<1>3. Fits(list) /\ (known \/ list = roster)
  <2>1. known \/ f.info.status = "none"
    BY <1>1, <1>2, Beside
  <2>2. QED
    BY <1>2, <2>1, FitsWith DEF CalmInv, Copies
<1> HIDE DEF list
<1>4. roster' = list /\ \E l, fresh : Rendered(l, flows \ {f}, fresh)
  BY <1>1 DEF Rendered
<1>5. Plain(f)
  BY <1>1 DEF Plain, Behind, Spawned, Leaves
<1>6. QED
  BY <1>1, <1>3, <1>4, <1>5, PlainOver

\* A model that was sent is put into the copy of the agent.
LEMMA ReappliedCopy ==
    ASSUME NEW f, IsInfo(f.info), Copy(f.info)
    PROVE  IsInfo(Reapplied(f)) /\ Copy(Reapplied(f)) /\ Reapplied(f).handle = f.info.handle
           /\ Reapplied(f).status = f.info.status
<1> DEFINE model == [id |-> f.arg.id, effort |-> IF f.arg.effort # Unset THEN f.arg.effort ELSE f.info.model.effort]
           info == [f.info EXCEPT !.model = model]
<1>1. Reapplied(f) = info
  BY DEF Reapplied
<1> HIDE DEF model
<1>2. IsInfo(info) /\ info.handle = f.info.handle /\ info.status = f.info.status /\ info.perm = f.info.perm
  BY DEF IsInfo
<1> HIDE DEF info
<1>3. Copy(info)
  BY <1>2 DEF Copy, Right, Old
<1>4. QED
  BY <1>1, <1>2, <1>3

LEMMA ModelEnds ==
    ASSUME CalmInv, UNCHANGED passed, NEW f \in flows, ModelAnswered(f)
    PROVE  CalmInv'
<1> DEFINE list == IF f.ans = "ok" THEN With(roster, Reapplied(f)) ELSE roster
<1>1. /\ f.kind = "model" /\ Rendered(list, flows \ {f}, armed)
      /\ ModesKept /\ UNCHANGED <<agent, events>>
  BY DEF ModelAnswered, ModesKept, host
<1>2. IsInfo(f.info) /\ Copy(f.info) /\ known
  BY <1>1, HandlerOf, Knows DEF Handler, IsFlow
<1>3. Fits(list)
  BY <1>2, ReappliedCopy, FitsWith DEF CalmInv, Copies
<1> HIDE DEF list
<1>4. roster' = list /\ \E l, fresh : Rendered(l, flows \ {f}, fresh)
  BY <1>1 DEF Rendered
<1>5. Plain(f)
  BY <1>1 DEF Plain, Behind, Spawned, Leaves
<1>6. QED
  BY <1>1, <1>2, <1>3, <1>4, <1>5, PlainOver

LEMMA DefaultEnds ==
    ASSUME CalmInv, UNCHANGED passed, NEW f \in flows, DefaultAnswered(f)
    PROVE  CalmInv'
<1>1. f.kind = "default" /\ flows' = flows \ {f} /\ ModesKept /\ UNCHANGED <<roster, agent, events>>
  BY DEF DefaultAnswered, ModesKept, host, window
<1>2. FlowShape' /\ Hs(flows') = Hs(flows)
  BY <1>1 DEF CalmInv, Shape, FlowShape, Hs
<1>3. QED
  BY <1>1, <1>2, Still

\* The task is made: what its agent was told is saved and shown.
LEMMA SpawnEnds ==
    ASSUME CalmInv, UNCHANGED passed, NEW f \in flows, SpawnAnswered(f)
    PROVE  CalmInv'
<1>1. f.kind = "spawn" /\ f.ans # "none" /\ UNCHANGED <<agent, events, wire>>
  BY DEF SpawnAnswered
<1>2. Hs(flows) = {f} /\ SpawnFlow(f) /\ f.ans \in {"ok", "err"}
  BY <1>1, HandlerOf DEF Handler, IsFlow
<1>3. CASE f.ans = "err"
  <2>1. flows' = flows \ {f} /\ ModesKept /\ roster' = roster
    BY <1>3 DEF SpawnAnswered, SpawnFailed, ModesKept
  <2>2. Plain(f)
    BY <1>1, <1>3 DEF Plain, Behind, Spawned, Leaves
  <2>3. Fits(roster)
    BY DEF CalmInv, Copies
  <2>4. QED
    BY <1>1, <2>1, <2>2, <2>3, PlainOver
<1>4. CASE f.ans = "ok"
  <2> DEFINE list == With(roster, f.info)
  <2>1. /\ Rendered(list, flows \ {f}, TRUE) /\ perms' = f.arg /\ known' = TRUE
        /\ plan' = (IF f.planned THEN "active" ELSE plan)
        /\ saved' = (IF f.planned THEN [saved EXCEPT !.plan = TRUE] ELSE saved)
    BY <1>4 DEF SpawnAnswered
  <2>2. saved.perm = f.arg /\ (wire = "plan") = f.planned /\ Copy(f.info) /\ IsInfo(f.info) /\ ~known /\ f.planned \in BOOLEAN
    BY <1>1, <1>2, <1>4, HandlerOf DEF SpawnFlow, IsFlow
  <2>3. /\ IsArmed(plan) = saved.plan /\ ~IsArmed(plan) /\ NoWords /\ DiskShape /\ plan \in {"off", "pending", "active"}
    BY <1>1, <1>2, <2>2, Beside
  <2>4. Fits(list)
    BY <2>2, FitsWith DEF CalmInv, Copies
  <2> HIDE DEF list
  <2>5. roster' = list /\ \E l, fresh : Rendered(l, flows \ {f}, fresh)
    BY <2>1 DEF Rendered
  <2>6. FlowShape' /\ Hs(flows') = {}
    BY <1>1, <2>5, FlowsWithout DEF CalmInv, Shape
  <2>7. saved'.perm = saved.perm /\ saved'.plan = f.planned /\ DiskShape' /\ IsArmed(plan') = f.planned
        /\ plan' \in {"off", "pending", "active"}
    BY <2>1, <2>2, <2>3 DEF DiskShape, IsArmed
  <2>8. PermsAgree' /\ Agrees'
    BY <1>1, <2>1, <2>2, <2>7 DEF PermsAgree, Agrees
  <2>9. \A i \in DOMAIN events : ~IsStatus(i) => (events[i].info.status = "plan") = IsArmed(plan')
    BY <2>3 DEF NoWords
  <2>10. QED
    BY <1>1, <2>1, <2>4, <2>5, <2>6, <2>7, <2>8, <2>9, Over
<1>5. QED
  BY <1>2, <1>3, <1>4

\* The agent has left Plan, and so do the window and the disk.
LEMMA ResolveEnds ==
    ASSUME CalmInv, LeftShape, UNCHANGED passed, ~Disturbed, NEW f \in flows, NEW stored \in BOOLEAN, ResolveAnswered(f, stored)
    PROVE  CalmInv'
<1>1. f.kind = "resolve" /\ f.ans # "none" /\ flows' = flows \ {f} /\ UNCHANGED <<roster, perms, known, agent, events, wire>>
  BY DEF ResolveAnswered
<1>2. Hs(flows) = {f} /\ Handler(f) /\ known
  BY <1>1, HandlerOf, Knows
<1>3. Fits(roster) /\ FlowShape
  BY DEF CalmInv, Copies, Shape
<1>4. CASE ~Leaves(f)
  <2>1. ModesKept
    BY <1>1, <1>4 DEF ResolveAnswered, Leaves, ModesKept
  <2>2. Plain(f)
    BY <1>1, <1>4 DEF Plain, Behind, Spawned
  <2>3. QED
    BY <1>1, <1>3, <2>1, <2>2, PlainOver
<1>5. CASE Leaves(f)
  <2>1. plan' = "off" /\ saved' = [saved EXCEPT !.plan = FALSE]
    <3>1. plan' = "off" /\ (stored => saved' = [saved EXCEPT !.plan = FALSE]) /\ (~stored => Spend("fails"))
      BY <1>5 DEF ResolveAnswered, Leaves
    <3>2. QED
      BY <3>1, Spent
  <2>2. /\ PermsAgree /\ DiskShape /\ wire # "plan"
        /\ \A i \in DOMAIN events : ~IsStatus(i) => events[i].info.status # "plan"
    BY <1>1, <1>2, <1>5, Beside DEF Spawned, Handler
  <2>3. IsArmed(plan') = FALSE /\ saved'.plan = FALSE /\ saved'.perm = saved.perm /\ DiskShape'
    <3>1. saved' = [plan |-> FALSE, perm |-> saved.perm]
      BY <2>1, <2>2 DEF DiskShape
    <3>2. saved'.plan = FALSE /\ saved'.perm = saved.perm /\ DiskShape'
      BY <3>1 DEF DiskShape
    <3>3. IsArmed(plan') = FALSE
      BY <2>1 DEF IsArmed
    <3>4. QED
      BY <3>2, <3>3
  <2>4. FlowShape' /\ Hs(flows') = {}
    BY <1>1, <1>3, FlowsWithout
  <2>5. PermsAgree' /\ Agrees'
    BY <1>1, <2>2, <2>3 DEF PermsAgree, Agrees
  <2>6. QED
    BY <1>1, <1>2, <1>3, <2>1, <2>2, <2>3, <2>4, <2>5, Over
<1>6. QED
  BY <1>4, <1>5

-----------------------------------------------------------------------------
(* A change of the mode goes on.                                           *)

\* What a change has still to do is done in order.
LEMMA FirstCall ==
    ASSUME NEW todo, todo \subseteq {"savePlan", "setPerm"}, todo # {}
    PROVE  \/ FirstOf(todo) = "savePlan" /\ "savePlan" \in todo /\ todo \ {FirstOf(todo)} = todo \ {"savePlan"}
           \/ FirstOf(todo) = "setPerm" /\ todo = {"setPerm"} /\ todo \ {FirstOf(todo)} = {}
  BY DEF FirstOf

\* A change with its next call, which is served at once.
NextCall(f, todo) == [f EXCEPT !.at = FirstOf(todo), !.todo = todo \ {FirstOf(todo)}]
Made(g, info) == [g EXCEPT !.ans = "ok", !.info = info]

IsChange(f) ==
    /\ f.kind = "mode" /\ f.ans \in {"none", "ok", "err"} /\ IsInfo(f.info)
    /\ {"kind", "at", "ans", "info"} \cup FieldsOf("mode") \subseteq DOMAIN f
SameChange(f, g) == g.kind = f.kind /\ g.live = f.live /\ g.arg = f.arg /\ g.next = f.next /\ DOMAIN g = DOMAIN f

LEMMA CallNext ==
    ASSUME NEW f, IsChange(f), NEW todo
    PROVE  /\ SameChange(f, NextCall(f, todo)) /\ NextCall(f, todo).info = f.info
           /\ NextCall(f, todo).at = FirstOf(todo) /\ NextCall(f, todo).todo = todo \ {FirstOf(todo)}
<1> DEFINE at == FirstOf(todo)
           rest == todo \ {FirstOf(todo)}
           n == NextCall(f, todo)
<1>1. n = [f EXCEPT !.at = at, !.todo = rest]
  BY DEF NextCall
<1> HIDE DEF at, rest
<1>2. {"kind", "at", "ans", "info", "todo", "live", "arg", "next", "plan", "perm"} \subseteq DOMAIN f
  BY DEF FieldsOf, IsChange
<1> HIDE DEF n
<1>3. SameChange(f, n) /\ n.info = f.info /\ n.at = at /\ n.todo = rest
  BY <1>1, <1>2 DEF SameChange
<1>4. QED
  BY <1>3 DEF n, at, rest

CallsLeft(todo) == todo \subseteq {"savePlan", "setPerm"} /\ todo # {}
LEMMA CallMade ==
    ASSUME NEW f, IsChange(f), NEW todo, CallsLeft(todo), NEW info, IsInfo(info)
    PROVE  /\ IsFlow(Made(NextCall(f, todo), info)) /\ SameChange(f, Made(NextCall(f, todo), info))
           /\ Made(NextCall(f, todo), info).at = FirstOf(todo)
           /\ Made(NextCall(f, todo), info).todo = todo \ {FirstOf(todo)}
           /\ Made(NextCall(f, todo), info).ans = "ok" /\ Made(NextCall(f, todo), info).info = info
<1> DEFINE at == FirstOf(todo)
           rest == todo \ {FirstOf(todo)}
           n == NextCall(f, todo)
           g == Made(n, info)
<1>1. SameChange(f, n) /\ n.at = at /\ n.todo = rest
  BY CallNext
<1>2. at \in {"savePlan", "setPerm"}
  BY FirstCall DEF CallsLeft
<1> HIDE DEF at, rest, n
<1>3. g = [n EXCEPT !.ans = "ok", !.info = info]
  BY DEF Made
<1> HIDE DEF g
<1>4. f.kind = "mode" /\ {"kind", "at", "ans", "info", "todo", "live", "arg", "next", "plan", "perm"} \subseteq DOMAIN f
  BY DEF FieldsOf, IsChange
<1>5. SameChange(f, g) /\ g.at = at /\ g.todo = rest /\ g.ans = "ok" /\ g.info = info
  BY <1>1, <1>3, <1>4 DEF SameChange
<1>6. IsFlow(g)
  BY <1>2, <1>4, <1>5 DEF IsFlow, Kinds, CallsOf, FieldsOf, SameChange
<1>7. QED
  BY <1>5, <1>6 DEF at, rest, n, g

\* Where a change of the mode stands before its next call.
ChangeShape(f) ==
    /\ IsChange(f)
    /\ f.live \in BOOLEAN /\ f.next.armed \in BOOLEAN /\ (f.arg = "plan") = f.next.armed
    /\ f.live => f.info.handle = agent.handle /\ Live(agent.status)
ShownBy(f, todo) ==
    /\ plan' \in {"off", "pending", "active"} /\ IsArmed(plan') = f.next.armed
    /\ "savePlan" \in todo \/ saved.plan = f.next.armed
    /\ IF "setPerm" \in todo THEN perms' = f.next.perm
       ELSE perms' = saved.perm \/ (perms' = Unset /\ saved.perm = DefaultMode)
    /\ \A i \in DOMAIN events : ~IsStatus(i) => (events[i].info.status = "plan") = f.next.armed
    /\ Live(agent.status) /\ passed' # agent.handle => (wire = "plan") = f.next.armed
    /\ ~f.live /\ Live(agent.status) => passed' = agent.handle
    /\ passed' \in Nat /\ passed' <= agent.handle

\* What the next call does.
Tells(f, todo) == FirstOf(todo) = "setPerm" /\ f.live
CallServes(f, others, todo) ==
    /\ DiskShape'
    /\ IF FirstOf(todo) = "savePlan" THEN saved'.plan = f.next.armed /\ saved'.perm = saved.perm
       ELSE saved'.perm = f.next.perm /\ saved'.plan = saved.plan
    /\ IF Tells(f, todo) THEN agent' = [agent EXCEPT !.perm = f.next.perm] /\ events' = Append(events, StatusOf(agent'))
       ELSE UNCHANGED <<agent, events>>
    /\ \E info : /\ info = (IF Tells(f, todo) THEN agent' ELSE f.info)
                 /\ flows' = others \cup {Made(NextCall(f, todo), info)}

LEMMA ChangeServed ==
    ASSUME LeftShape, ~Disturbed, EventShape, DiskShape, NEW f, ChangeShape(f), NEW others, NEW todo,
           todo \subseteq {"savePlan", "setPerm"}, todo # {}, NEW l, l.fails = left.fails, "fails" \in DOMAIN l,
           ModeGoesOn(f, others, todo, l)
    PROVE  CallServes(f, others, todo)
<1> DEFINE n == NextCall(f, todo)
           at == FirstOf(todo)
<1>1. at \in {"savePlan", "setPerm"} /\ n.at = at /\ n.live = f.live /\ n.next = f.next /\ n.info = f.info
  <2>1. SameChange(f, n) /\ n.info = f.info /\ n.at = at
    BY CallNext DEF ChangeShape
  <2>2. at \in {"savePlan", "setPerm"}
    BY FirstCall
  <2> HIDE DEF at, n
  <2>3. QED
    BY <2>1, <2>2 DEF SameChange
<1>2. PICK ok \in BOOLEAN :
         /\ left' = (IF ok \/ Orphan(n) THEN l ELSE [l EXCEPT !.fails = @ - 1])
         /\ Saves(n, ok) /\ (ok => ~Orphan(n))
         /\ flows' = others \cup {[n EXCEPT !.ans = IF ok THEN "ok" ELSE "err",
                                   !.info = IF n.at = "setPerm" /\ n.live /\ ok THEN agent' ELSE @]}
  BY DEF ModeGoesOn, NextCall
<1> HIDE DEF n, at
<1>3. ~Orphan(n)
  BY <1>1 DEF Orphan, ChangeShape, Live, Gone
<1>4. ok
  <2> SUFFICES ASSUME ~ok PROVE FALSE
    OBVIOUS
  <2>1. left' = [l EXCEPT !.fails = l.fails - 1]
    BY <1>2, <1>3
  <2>2. left'.fails = left.fails - 1 /\ left.fails \in Int
    BY <2>1 DEF LeftShape
  <2>3. QED
    BY <2>2 DEF Disturbed
<1>5. /\ saved' = IF at = "savePlan" THEN [saved EXCEPT !.plan = f.next.armed] ELSE [saved EXCEPT !.perm = f.next.perm]
      /\ IF at = "setPerm" /\ f.live
         THEN agent' = [agent EXCEPT !.perm = f.next.perm] /\ Emit(<<[agent EXCEPT !.perm = f.next.perm]>>)
         ELSE UNCHANGED <<agent, events>>
  BY <1>1, <1>2, <1>3, <1>4 DEF Saves
<1>6. /\ DiskShape'
      /\ IF at = "savePlan" THEN saved'.plan = f.next.armed /\ saved'.perm = saved.perm
         ELSE saved'.perm = f.next.perm /\ saved'.plan = saved.plan
  BY <1>5 DEF DiskShape, ChangeShape
<1>7. at = "setPerm" /\ f.live => agent' = [agent EXCEPT !.perm = f.next.perm] /\ events' = Append(events, StatusOf(agent'))
  <2> SUFFICES ASSUME at = "setPerm", f.live
               PROVE  agent' = [agent EXCEPT !.perm = f.next.perm] /\ events' = Append(events, StatusOf(agent'))
    OBVIOUS
  <2>1. agent' = [agent EXCEPT !.perm = f.next.perm] /\ Emit(<<agent'>>)
    BY <1>5
  <2>2. QED
    BY <2>1, EmitsOne
<1> DEFINE info == IF at = "setPerm" /\ f.live THEN agent' ELSE f.info
<1>8. flows' = others \cup {Made(n, info)}
  BY <1>1, <1>2, <1>4 DEF Made
<1>9. \A x : x = info => flows' = others \cup {Made(n, x)}
  BY <1>8
<1>10. \E x : x = info /\ flows' = others \cup {Made(n, x)}
  <2> HIDE DEF info
  <2>1. QED
    BY <1>9
<1>11. QED
  BY <1>5, <1>6, <1>7, <1>10 DEF n, at, CallServes, Tells

\* A change that has made its next call stands where a change may stand.
LEMMA ChangeGoesOn ==
    ASSUME LeftShape, ~Disturbed, Fits(roster), EventShape, DiskShape, AgentShape, known, UNCHANGED <<roster, known, wire>>,
           NEW f, ChangeShape(f), NEW others, \A x \in others : IsFlow(x), Hs(others) = {}, NEW todo,
           todo \subseteq {"savePlan", "setPerm"}, todo # {}, NEW l, l.fails = left.fails, "fails" \in DOMAIN l,
           ShownBy(f, todo), ModeGoesOn(f, others, todo, l)
    PROVE  CalmInv'
<1> DEFINE tells == Tells(f, todo)
<1>0. CallServes(f, others, todo)
  BY ChangeServed
<1>1. /\ DiskShape'
      /\ IF FirstOf(todo) = "savePlan" THEN saved'.plan = f.next.armed /\ saved'.perm = saved.perm
         ELSE saved'.perm = f.next.perm /\ saved'.plan = saved.plan
      /\ IF tells THEN agent' = [agent EXCEPT !.perm = f.next.perm] /\ events' = Append(events, StatusOf(agent'))
         ELSE UNCHANGED <<agent, events>>
      /\ \E info : /\ info = (IF tells THEN agent' ELSE f.info)
                   /\ flows' = others \cup {Made(NextCall(f, todo), info)}
  BY <1>0 DEF CallServes
<1>2. \/ FirstOf(todo) = "savePlan" /\ "savePlan" \in todo /\ todo \ {FirstOf(todo)} = todo \ {"savePlan"}
      \/ FirstOf(todo) = "setPerm" /\ todo = {"setPerm"} /\ todo \ {FirstOf(todo)} = {}
  BY FirstCall
<1>3. IsInfo(f.info) /\ f.live \in BOOLEAN /\ f.next.armed \in BOOLEAN /\ (f.arg = "plan") = f.next.armed
      /\ (f.live => f.info.handle = agent.handle /\ Live(agent.status))
  BY DEF ChangeShape, IsChange
<1>4. IsInfo(agent') /\ agent'.handle = agent.handle /\ agent'.status = agent.status
  BY <1>1 DEF AgentShape, IsInfo
<1>5. PICK info : info = (IF tells THEN agent' ELSE f.info) /\ flows' = others \cup {Made(NextCall(f, todo), info)}
  BY <1>1
<1>6. IsInfo(info) /\ info.handle = (IF tells THEN agent.handle ELSE f.info.handle)
  BY <1>3, <1>4, <1>5
<1>7. PICK g : g = Made(NextCall(f, todo), info)
  OBVIOUS
<1>8. /\ IsFlow(g) /\ SameChange(f, g) /\ g.at = FirstOf(todo) /\ g.todo = todo \ {FirstOf(todo)}
      /\ g.ans = "ok" /\ g.info = info
  <2>1. IsChange(f) /\ IsInfo(info) /\ CallsLeft(todo)
    BY <1>6 DEF ChangeShape, CallsLeft
  <2>2. /\ IsFlow(Made(NextCall(f, todo), info)) /\ SameChange(f, Made(NextCall(f, todo), info))
        /\ Made(NextCall(f, todo), info).at = FirstOf(todo)
        /\ Made(NextCall(f, todo), info).todo = todo \ {FirstOf(todo)}
        /\ Made(NextCall(f, todo), info).ans = "ok" /\ Made(NextCall(f, todo), info).info = info
    BY <2>1, CallMade
  <2>3. QED
    BY <1>7, <2>2
<1>9. g.kind = "mode" /\ g.live = f.live /\ g.arg = f.arg /\ g.next = f.next
  BY <1>8 DEF SameChange, ChangeShape, IsChange
<1>10. Hs(flows') = {g} /\ FlowShape'
  BY <1>5, <1>7, <1>8, <1>9 DEF Hs, FlowShape
<1>11. Copies' /\ EventShape'
  <2>1. CASE tells
    BY <1>1, <1>4, <2>1, CopiesSaid DEF AgentShape
  <2>2. CASE ~tells
    <3>1. Copies'
      BY <1>1, <2>2, CopiesKept DEF Same
    <3>2. QED
      BY <1>1, <2>2, <3>1 DEF EventShape
  <2>3. QED
    BY <2>1, <2>2
<1>12. Shape'
  BY <1>1, <1>4, <1>10, <1>11 DEF Shape, AgentShape, ShownBy
<1>13. ~Leaving'
  BY <1>9, <1>10 DEF Leaving, Leaves
<1>14. \A i \in DOMAIN events' : ~IsStatus(i)' => i \in DOMAIN events /\ ~IsStatus(i) /\ events'[i] = events[i]
  <2>1. CASE tells
    <3>1. IsEvent(StatusOf(agent')) /\ StatusOf(agent').ch = "status"
      BY <1>4 DEF IsEvent, StatusOf
    <3>2. /\ DOMAIN events' = 1..(Len(events) + 1) /\ DOMAIN events = 1..Len(events) /\ Len(events) \in Nat
          /\ events'[Len(events) + 1] = StatusOf(agent') /\ \A i \in DOMAIN events : events'[i] = events[i]
      BY <1>1, <2>1, <3>1, Said
    <3>3. \A i \in DOMAIN events' : i \in DOMAIN events \/ i = Len(events) + 1
      BY <3>2
    <3>4. QED
      BY <3>1, <3>2, <3>3 DEF IsStatus
  <2>2. CASE ~tells
    BY <1>1, <2>2 DEF IsStatus
  <2>3. QED
    BY <2>1, <2>2
<1>15. Words'
  BY <1>13, <1>14 DEF Words, ShownBy
<1>16. PlanSaved' /\ PermSaved'
  BY <1>9, <1>10 DEF PlanSaved, PermSaved
<1>17. AgentTold'
  BY <1>4 DEF AgentTold, Agrees, ShownBy
<1>18. Unknown'
  BY DEF Unknown
<1>19. ModeFlow(g)'
  <2>1. /\ g.ans # "err" /\ (g.at # "setMode" => g.ans = "ok") /\ g.live \in BOOLEAN /\ g.next.armed \in BOOLEAN
        /\ g.todo \subseteq {"savePlan", "setPerm"} /\ g.at # "setMode" /\ (g.at = "savePlan" => "savePlan" \notin g.todo)
    BY <1>2, <1>3, <1>8, <1>9
  <2>2. g.at = "setPerm" => g.todo = {} /\ saved'.perm = g.next.perm
    BY <1>1, <1>2, <1>8, <1>9
  <2>3. (g.live => g.info.handle = agent'.handle /\ Live(agent'.status))
    BY <1>3, <1>4, <1>6, <1>8, <1>9
  <2>4. g.live /\ g.at = "setPerm" => Copy(g.info)'
    BY <1>4, <1>5, <1>8, <1>9 DEF Copy, Right, Old, IsInfo, Tells
  <2>5. ~g.live /\ Live(agent'.status) => passed' = agent'.handle
    BY <1>4, <1>9 DEF ShownBy
  <2>6. (g.arg = "plan") = g.next.armed /\ IsArmed(plan') = g.next.armed
    BY <1>3, <1>9 DEF ShownBy
  <2>7. "savePlan" \in g.todo \/ saved'.plan = g.next.armed
    BY <1>1, <1>2, <1>8, <1>9 DEF ShownBy
  <2>8. IF "setPerm" \in g.todo THEN perms' = g.next.perm ELSE PermsAgree'
    BY <1>1, <1>2, <1>8, <1>9 DEF ShownBy, PermsAgree
  <2>9. QED
    BY <2>1, <2>2, <2>3, <2>4, <2>5, <2>6, <2>7, <2>8 DEF ModeFlow
<1>20. Handled'
  BY <1>9, <1>10, <1>19 DEF Handled, Handler
<1>21. QED
  BY <1>11, <1>12, <1>15, <1>16, <1>17, <1>18, <1>20 DEF CalmInv, Saved

\* The change of the mode has an answer.
LEMMA ModeStep ==
    ASSUME CalmInv, LeftShape, UNCHANGED passed, ~Disturbed, NEW f \in flows, ModeAnswered(f)
    PROVE  CalmInv'
<1> DEFINE others == flows \ {f}
<1>1. f.kind = "mode" /\ UNCHANGED <<known, wire>>
  BY DEF ModeAnswered
<1>2. IsFlow(f) /\ ModeFlow(f) /\ Hs(flows) = {f} /\ known
  BY <1>1, HandlerOf, Knows DEF Handler
<1>3. f.ans = "ok" /\ ~Leaves(f) /\ ~Behind(f)
  BY <1>1, <1>2 DEF ModeAnswered, ModeFlow, IsFlow, Leaves, Behind, Spawned
<1>4. /\ Agrees /\ EventShape /\ DiskShape /\ FlowShape /\ plan \in {"off", "pending", "active"} /\ Fits(roster) /\ AgentShape
      /\ \A i \in DOMAIN events : ~IsStatus(i) => (events[i].info.status = "plan") = IsArmed(plan)
  BY <1>2, <1>3, Beside DEF CalmInv, Shape
<1>5. CASE f.at = "setPerm" /\ f.live
  <2> DEFINE list == With(roster, f.info)
  <2>1. Rendered(list, others, armed) /\ perms' = f.next.perm /\ UNCHANGED <<plan, saved, agent, events>>
    BY <1>3, <1>5 DEF ModeAnswered
  <2>2. f.todo = {} /\ saved.perm = f.next.perm /\ Copy(f.info) /\ IsInfo(f.info) /\ IsArmed(plan) = f.next.armed
        /\ saved.plan = f.next.armed
    BY <1>1, <1>2, <1>5 DEF ModeFlow, IsFlow
  <2>3. Fits(list)
    BY <1>4, <2>2, FitsWith
  <2> HIDE DEF list
  <2>4. roster' = list /\ \E x, fresh : Rendered(x, others, fresh)
    BY <2>1 DEF Rendered
  <2>5. FlowShape' /\ Hs(flows') = {}
    BY <1>1, <1>4, <2>4, FlowsWithout
  <2>6. PermsAgree' /\ Agrees' /\ DiskShape'
    BY <1>1, <1>4, <2>1, <2>2 DEF PermsAgree, Agrees, DiskShape
  <2>7. QED
    BY <1>1, <1>2, <1>4, <2>1, <2>2, <2>3, <2>4, <2>5, <2>6, Over
<1>6. CASE ~(f.at = "setPerm" /\ f.live)
  <2>1. ModeGoesOn(f, others, f.todo, left) /\ UNCHANGED <<roster, plan, perms>>
    BY <1>3, <1>6 DEF ModeAnswered
  <2>2. CASE f.todo = {}
    <3>1. flows' = others /\ UNCHANGED <<saved, agent, events>>
      BY <2>1, <2>2 DEF ModeGoesOn
    <3>2. FlowShape' /\ Hs(flows') = {}
      BY <1>1, <1>4, <3>1, FlowsWithout
    <3>3. IsArmed(plan) = saved.plan /\ PermsAgree
      BY <1>2, <2>2 DEF ModeFlow
    <3>4. PermsAgree' /\ Agrees' /\ DiskShape'
      BY <1>1, <1>4, <2>1, <3>1, <3>3 DEF PermsAgree, Agrees, DiskShape
    <3>5. QED
      BY <1>1, <1>2, <1>4, <2>1, <3>1, <3>2, <3>3, <3>4, Over
  <2>3. CASE f.todo # {}
    <3>1. Hs(others) = {} /\ \A x \in others : IsFlow(x)
      BY <1>1, <1>4, OneHandler
    <3>2. ChangeShape(f) /\ f.todo \subseteq {"savePlan", "setPerm"}
      BY <1>1, <1>2 DEF ChangeShape, IsChange, IsFlow, ModeFlow
    <3>3. ShownBy(f, f.todo)
      BY <1>2, <1>4, <2>1 DEF ShownBy, ModeFlow, PermsAgree, Agrees, AgentShape
    <3>4. left.fails = left.fails /\ "fails" \in DOMAIN left
      BY DEF LeftShape
    <3> HIDE DEF others
    <3>5. QED
      BY <1>1, <1>2, <1>4, <2>1, <2>3, <3>1, <3>2, <3>3, <3>4, ChangeGoesOn
  <2>4. QED
    BY <2>2, <2>3
<1>7. QED
  BY <1>5, <1>6

-----------------------------------------------------------------------------
(* A send and its stages.                                                  *)

LEMMA MinIsLeast ==
    ASSUME NEW S \in SUBSET Nat, S # {}
    PROVE  Min(S) \in S /\ \A n \in S : Min(S) <= n
<1>1. \E n \in S : \A m \in S : n <= m
  BY LeastOf
<1>2. QED
  BY <1>1 DEF Min

IsSend(f) ==
    /\ f.kind = "send" /\ IsInfo(f.info)
    /\ {"kind", "at", "ans", "info"} \cup FieldsOf("send") \subseteq DOMAIN f
SameSend(f, g) ==
    /\ g.kind = f.kind /\ g.info = f.info /\ g.planned = f.planned /\ g.shown = f.shown /\ g.attached = f.attached
    /\ g.warned = f.warned

\* The send is at the first stage that it needs.
AtStage(f, from, g) ==
    /\ IsFlow(g) /\ SameSend(f, g) /\ g.ans = "none"
    /\ g.stage \in from..5 /\ g.at = CallOf(SendStages[g.stage])
    /\ Needed(f, SendStages[g.stage]) /\ \A j \in from..5 : Needed(f, SendStages[j]) => g.stage <= j
    /\ g.stage = 1 => g.arg = perms
    /\ g.stage \in {2, 4, 5} => g.arg = "plan"

LEMMA NextStage ==
    ASSUME NEW f, IsSend(f), NEW from \in 1..5
    PROVE  AtStage(f, from, SendAt(f, from))
<1> DEFINE T == {j \in from..5 : Needed(f, SendStages[j])}
           i == Min(T)
           stage == SendStages[i]
           at == CallOf(stage)
           arg == CASE stage = "attach" -> perms
                    [] stage = "model"  -> CHOOSE p \in SessionModelNeedsPush(choice, f.info.model) : TRUE
                    [] OTHER            -> "plan"
           g == SendAt(f, from)
<1>1. T \in SUBSET Nat /\ 5 \in T
  BY DEF Needed, SendStages
<1>2. i \in T /\ \A n \in T : i <= n
  BY <1>1, MinIsLeast
<1>3. g = [f EXCEPT !.stage = i, !.at = at, !.ans = "none", !.arg = arg]
  BY DEF SendAt
<1>4. i \in 1..5
  BY <1>2
<1> HIDE DEF i
<1>5. (i = 1 => arg = perms) /\ (i \in {2, 4, 5} => arg = "plan")
  BY DEF SendStages
<1>6. at \in CallsOf("send")
  BY <1>4 DEF SendStages, CallOf, CallsOf
<1>7. at = CallOf(SendStages[i])
  OBVIOUS
<1>8. i \in from..5 /\ Needed(f, SendStages[i]) /\ \A j \in from..5 : Needed(f, SendStages[j]) => i <= j
  BY <1>2
<1> HIDE DEF at, arg, g
<1>9. {"kind", "at", "ans", "info", "stage", "arg", "planned", "shown", "attached", "warned", "prompt"} \subseteq DOMAIN f
      /\ f.kind = "send" /\ IsInfo(f.info)
  BY DEF IsSend, FieldsOf
<1>10. /\ g.stage = i /\ g.at = at /\ g.ans = "none" /\ g.arg = arg /\ SameSend(f, g) /\ DOMAIN g = DOMAIN f
  BY <1>3, <1>9 DEF SameSend
<1>11. IsFlow(g)
  BY <1>6, <1>9, <1>10 DEF IsFlow, Kinds, FieldsOf, SameSend
<1>12. QED
  BY <1>5, <1>7, <1>8, <1>10, <1>11 DEF AtStage, g

\* What each stage tells of the send.
LEMMA StageTells ==
    ASSUME NEW f, NEW from \in 1..5, NEW g, AtStage(f, from, g), f.planned \in BOOLEAN, f.attached \in BOOLEAN
    PROVE  /\ g.stage = 1 => Gone(f.info.status)
           /\ from = 1 /\ g.stage # 1 => ~Gone(f.info.status)
           /\ g.stage = 2 => f.planned /\ f.attached
           /\ from <= 2 /\ g.stage > 2 => ~(f.planned /\ f.attached)
           /\ g.stage = 4 => f.planned
           /\ from <= 4 /\ g.stage = 5 => ~f.planned
           /\ g.stage \in 1..5 /\ g.stage >= from
<1>1. g.stage \in from..5 /\ Needed(f, SendStages[g.stage]) /\ \A j \in from..5 : Needed(f, SendStages[j]) => g.stage <= j
  BY DEF AtStage
<1>2. g.stage \in 1..5 /\ g.stage >= from
  BY <1>1
<1>3. /\ SendStages[1] = "attach" /\ SendStages[2] = "reapply" /\ SendStages[4] = "plan"
  BY DEF SendStages
<1>4. /\ Needed(f, "attach") <=> Gone(f.info.status)
      /\ Needed(f, "reapply") <=> f.planned /\ f.attached
      /\ Needed(f, "plan") <=> f.planned
  BY DEF Needed
<1>5. from = 1 /\ Needed(f, "attach") => g.stage <= 1
  BY <1>1, <1>3
<1>6. from <= 2 /\ Needed(f, "reapply") => g.stage <= 2
  <2>1. from <= 2 => 2 \in from..5
    OBVIOUS
  <2>2. QED
    BY <1>1, <1>3, <2>1
<1>7. from <= 4 /\ Needed(f, "plan") => g.stage <= 4
  <2>1. from <= 4 => 4 \in from..5
    OBVIOUS
  <2>2. QED
    BY <1>1, <1>3, <2>1
<1>8. QED
  BY <1>1, <1>2, <1>3, <1>4, <1>5, <1>6, <1>7

\* What an answer leaves to the send, and to the list of the window.
SentInfo(f) == IF f.ans = "ok" /\ f.at = "setModel" THEN Reapplied(f) ELSE f.info
SentList(f) == IF f.ans = "ok" /\ f.at \in {"attach", "prompt", "setModel"} THEN With(roster, SentInfo(f)) ELSE roster
Onward(f) == [f EXCEPT !.info = SentInfo(f), !.warned = f.stage = 4 /\ f.ans = "err"]
Answers(f) ==
    /\ IsFlow(f) /\ IsSend(f) /\ SendFlow(f) /\ Hs(flows) = {f} /\ known /\ f.ans \in {"ok", "err"}
    /\ IsInfo(SentInfo(f)) /\ SentInfo(f).status = f.info.status /\ Fits(SentList(f))
    /\ f.stage > 1 \/ f.ans = "ok" => Copy(SentInfo(f)) /\ (f.attached => SentInfo(f).handle = agent.handle)
    /\ plan' \in {"off", "pending", "active"} /\ IsArmed(plan') = IsArmed(plan) /\ PermsAgree'
    /\ UNCHANGED <<known, agent, events, wire, saved, passed>>

LEMMA SendHears ==
    ASSUME CalmInv, UNCHANGED passed, NEW f \in flows, SendAnswered(f)
    PROVE  Answers(f)
<1>1. f.kind = "send" /\ f.ans # "none" /\ UNCHANGED <<known, agent, events, wire, saved>>
      /\ plan' = (IF f.at = "setMode" /\ f.ans = "ok" THEN "active" ELSE plan)
      /\ perms' = (IF f.at = "attach" /\ f.ans = "ok" THEN f.info.perm ELSE perms)
  BY DEF SendAnswered, host
<1>2. IsFlow(f) /\ SendFlow(f) /\ Hs(flows) = {f} /\ known /\ f.ans \in {"ok", "err"}
  BY <1>1, HandlerOf, Knows DEF Handler, IsFlow
<1>3. IsSend(f) /\ IsInfo(f.info)
  BY <1>1, <1>2 DEF IsFlow, IsSend
<1>4. ~Spawned(f) /\ f.kind # "mode"
  BY <1>1 DEF Spawned
<1>5. PermsAgree /\ plan \in {"off", "pending", "active"} /\ Fits(roster)
  BY <1>2, <1>4, Beside
<1>6. f.stage \in 1..5 /\ (f.at = "attach" <=> f.stage = 1) /\ (f.at = "setMode" <=> f.stage \in {2, 4})
      /\ (f.at = "setModel" <=> f.stage = 3)
  BY <1>2, StageOf DEF SendFlow
<1>7. f.stage > 1 \/ f.ans = "ok" => Copy(f.info) /\ (f.attached => f.info.handle = agent.handle)
  BY <1>2 DEF SendFlow
<1>8. /\ IsInfo(SentInfo(f)) /\ SentInfo(f).status = f.info.status /\ SentInfo(f).handle = f.info.handle
      /\ f.stage > 1 \/ f.ans = "ok" => Copy(SentInfo(f))
  BY <1>3, <1>6, <1>7, ReappliedCopy DEF SentInfo
<1>9. Fits(SentList(f))
  <2>1. f.ans = "ok" => Fits(With(roster, SentInfo(f)))
    BY <1>5, <1>8, FitsWith
  <2>2. QED
    BY <1>5, <2>1 DEF SentList
<1>10. plan' \in {"off", "pending", "active"} /\ IsArmed(plan') = IsArmed(plan)
  <2>1. f.at = "setMode" => IsArmed(plan) = TRUE
    BY <1>2, <1>6 DEF SendFlow, IsArmed
  <2>2. QED
    BY <1>1, <1>5, <2>1 DEF IsArmed
<1>11. PermsAgree'
  BY <1>1, <1>2, <1>5, <1>6 DEF SendFlow, PermsAgree
<1>12. QED
  BY <1>1, <1>2, <1>3, <1>7, <1>8, <1>9, <1>10, <1>11 DEF Answers

\* The send is over.
LEMMA SendEnds ==
    ASSUME CalmInv, UNCHANGED passed, NEW f \in flows, SendAnswered(f), Ends(f)
    PROVE  CalmInv'
<1>1. Answers(f)
  BY SendHears
<1>2. Rendered(SentList(f), flows \ {f}, armed)
  BY DEF SendAnswered, SentList, SentInfo
<1>3. f.kind = "send" /\ Hs(flows) = {f} /\ f.ans \in {"ok", "err"} /\ SendFlow(f)
  BY <1>1 DEF Answers, IsSend
<1>4. (f.at = "attach" <=> f.stage = 1) /\ (f.at = "prompt" <=> f.stage = 5)
  BY <1>3, StageOf DEF SendFlow
<1>5. ~Behind(f) /\ ~Leaves(f)
  BY <1>3, <1>4 DEF Ends, Behind, Reapplies, Spawned, Leaves
<1>6. /\ IsArmed(plan) = saved.plan /\ Agrees /\ DiskShape
      /\ \A i \in DOMAIN events : ~IsStatus(i) => (events[i].info.status = "plan") = IsArmed(plan)
  BY <1>3, <1>5, Beside
<1>7. FlowShape' /\ Hs(flows') = {}
  <2>1. \E l, fresh : Rendered(l, flows \ {f}, fresh)
    BY <1>2
  <2>2. QED
    BY <1>3, <2>1, FlowsWithout DEF CalmInv, Shape
<1>8. /\ UNCHANGED <<known, agent, events, wire, saved, passed>> /\ known /\ IsArmed(plan') = IsArmed(plan)
      /\ plan' \in {"off", "pending", "active"} /\ PermsAgree' /\ Fits(SentList(f)) /\ roster' = SentList(f)
  BY <1>1, <1>2 DEF Answers, Rendered
<1>9. Agrees' /\ DiskShape'
  BY <1>6, <1>8 DEF Agrees, DiskShape
<1>10. QED
  BY <1>6, <1>7, <1>8, <1>9, Over

\* What an info shown as running says of its agent.
LEMMA RunningCopy ==
    ASSUME NEW a, IsInfo(a), Copy(a), ~Gone(a.status)
    PROVE  IsInfo([a EXCEPT !.status = "running"]) /\ Copy([a EXCEPT !.status = "running"])
<1> DEFINE b == [a EXCEPT !.status = "running"]
<1>1. IsInfo(b) /\ b.handle = a.handle /\ b.perm = a.perm /\ ~Gone(b.status)
  BY DEF IsInfo, Gone
<1> HIDE DEF b
<1>2. Copy(b)
  BY <1>1 DEF Copy, Right, Old
<1>3. QED
  BY <1>1, <1>2 DEF b

\* Where the send is next.
LEMMA SendNext ==
    ASSUME NEW f, Answers(f), ~Ends(f)
    PROVE  /\ Copy(SentInfo(f))
           /\ \A x : x = SendAt(Onward(f), f.stage + 1) =>
                 /\ IsFlow(x) /\ x.kind = "send" /\ SendFlow(x)' /\ x.info = SentInfo(f)
                 /\ Reapplies(f) => Reapplies(x)
<1> SUFFICES ASSUME NEW g, g = SendAt(Onward(f), f.stage + 1)
             PROVE  /\ Copy(SentInfo(f)) /\ IsFlow(g) /\ g.kind = "send" /\ SendFlow(g)' /\ g.info = SentInfo(f)
                    /\ Reapplies(f) => Reapplies(g)
  OBVIOUS
<1> DEFINE h == Onward(f)
           from == f.stage + 1
<1>1. f.stage \in 1..5 /\ (f.at = "attach" <=> f.stage = 1) /\ (f.at = "prompt" <=> f.stage = 5)
  BY StageOf DEF Answers, SendFlow
<1>2. f.stage \in 1..4 /\ from \in 2..5 /\ (f.stage > 1 \/ f.ans = "ok")
  BY <1>1 DEF Ends, Answers
<1>3. Copy(SentInfo(f)) /\ (f.attached => SentInfo(f).handle = agent.handle) /\ IsInfo(SentInfo(f))
  BY <1>2 DEF Answers
<1> DEFINE info == SentInfo(f)
           warned == f.stage = 4 /\ f.ans = "err"
<1>4. h = [f EXCEPT !.info = info, !.warned = warned] /\ IsSend(f)
  BY DEF Onward, Answers
<1>5. /\ f.kind = "send"
      /\ {"kind", "at", "ans", "info", "stage", "arg", "planned", "shown", "attached", "warned", "prompt"} \subseteq DOMAIN f
  BY <1>4 DEF IsSend, FieldsOf
<1>0. g = SendAt(h, from)
  OBVIOUS
<1> HIDE DEF h, info, warned
<1>6. /\ h.kind = "send" /\ h.info = info /\ h.warned = warned /\ h.planned = f.planned /\ h.shown = f.shown
      /\ h.attached = f.attached /\ DOMAIN h = DOMAIN f
  BY <1>4, <1>5
<1>7. IsSend(h)
  BY <1>3, <1>4, <1>6 DEF IsSend, info
<1>8. AtStage(h, from, g)
  BY <1>0, <1>2, <1>7, NextStage
<1>9. f.planned \in BOOLEAN /\ f.attached \in BOOLEAN
  BY DEF Answers, SendFlow
<1>10. /\ g.stage = 2 => h.planned /\ h.attached
       /\ from <= 2 /\ g.stage > 2 => ~(h.planned /\ h.attached)
       /\ g.stage = 4 => h.planned
       /\ from <= 4 /\ g.stage = 5 => ~h.planned
       /\ g.stage \in 1..5 /\ g.stage >= from
  BY <1>2, <1>6, <1>8, <1>9, StageTells
<1>11. /\ IsFlow(g) /\ g.kind = "send" /\ g.info = info /\ g.warned = warned /\ g.planned = f.planned
       /\ g.shown = f.shown /\ g.attached = f.attached /\ g.ans = "none" /\ g.at = CallOf(SendStages[g.stage])
       /\ (g.stage \in {2, 4, 5} => g.arg = "plan")
  BY <1>6, <1>8 DEF AtStage, SameSend
<1>12. Copy(info)' /\ (f.attached => info.handle = agent'.handle)
  BY <1>3 DEF info, Answers, Copy, Right, Old
<1>13. g.stage = 5 /\ g.planned /\ ~g.warned => wire' = "plan"
  <2> SUFFICES ASSUME g.stage = 5, g.planned, ~g.warned PROVE wire' = "plan"
    OBVIOUS
  <2>1. f.stage = 4
    BY <1>2, <1>6, <1>10, <1>11
  <2>2. f.ans = "ok"
    BY <2>1, <1>11 DEF warned, Answers
  <2>3. QED
    BY <2>1, <2>2 DEF Answers, SendFlow
<1>14. f.planned = IsArmed(plan') /\ (f.shown # "off" => f.planned)
  BY DEF Answers, SendFlow
<1>15. SendFlow(g)'
  BY <1>2, <1>6, <1>9, <1>10, <1>11, <1>12, <1>13, <1>14 DEF SendFlow
<1>16. Reapplies(f) => Reapplies(g)
  <2> SUFFICES ASSUME Reapplies(f) PROVE Reapplies(g)
    OBVIOUS
  <2>1. f.planned /\ f.stage = 1 /\ f.attached
    BY DEF Reapplies, Answers, SendFlow
  <2>2. g.stage = 2
    BY <2>1, <1>6, <1>10
  <2>3. QED
    BY <2>1, <2>2, <1>11 DEF Reapplies
<1>17. QED
  BY <1>3, <1>11, <1>15, <1>16 DEF info

\* The send goes on to its next call.
LEMMA SendGoes ==
    ASSUME CalmInv, UNCHANGED passed, NEW f \in flows, SendAnswered(f), ~Ends(f)
    PROVE  CalmInv'
<1>1. Answers(f)
  BY SendHears
<1>2. PICK g : g = SendAt(Onward(f), f.stage + 1)
  OBVIOUS
<1> DEFINE info == SentInfo(f)
           run == [info EXCEPT !.status = "running"]
           list == IF g.at = "prompt" /\ info.status = "ready" THEN With(SentList(f), run) ELSE SentList(f)
           fs == (flows \ {f}) \cup {g}
<1>3. Rendered(list, fs, armed)
  BY <1>2 DEF SendAnswered, SentList, SentInfo, Onward
<1>4. /\ Copy(info) /\ IsFlow(g) /\ g.kind = "send" /\ SendFlow(g)' /\ g.info = info
      /\ Reapplies(f) => Reapplies(g)
  BY <1>1, <1>2, SendNext
<1>5. Fits(list)
  <2>1. Fits(SentList(f)) /\ IsInfo(info)
    BY <1>1 DEF Answers
  <2> HIDE DEF info
  <2>2. info.status = "ready" => IsInfo(run) /\ Copy(run)
    BY <1>4, <2>1, RunningCopy DEF Gone
  <2> HIDE DEF run
  <2>3. QED
    BY <2>1, <2>2, FitsWith
<1> HIDE DEF list, info
<1>6. f.kind = "send" /\ Hs(flows) = {f} /\ f.ans \in {"ok", "err"}
  BY <1>1 DEF Answers, IsSend
<1>7. ~Spawned(f) /\ ~Leaves(f) /\ ~Leaves(g) /\ ~Spawned(g) /\ (Behind(f) => Behind(g))
  BY <1>4, <1>6 DEF Behind, Spawned, Leaves
<1>8. Hs(fs) = {g} /\ \A x \in fs : IsFlow(x)
  BY <1>4, <1>6, OneHandler DEF CalmInv, Shape
<1> HIDE DEF fs
<1>9. FlowShape' /\ Hs(flows') = {g}
  BY <1>3, <1>8, FlowsBecome
<1>10. /\ UNCHANGED <<known, agent, events, wire, saved, passed>> /\ known /\ IsArmed(plan') = IsArmed(plan)
       /\ plan' \in {"off", "pending", "active"} /\ PermsAgree' /\ roster' = list
  BY <1>1, <1>3 DEF Answers, Rendered
<1>11. Copies'
  BY <1>5, <1>10, CopiesKept DEF Same
<1>12. Shape'
  BY <1>9, <1>10 DEF CalmInv, Shape, EventShape, AgentShape, DiskShape
<1>13. /\ IsArmed(plan) = saved.plan /\ (~Behind(f) => Agrees)
       /\ \A i \in DOMAIN events : ~IsStatus(i) => (events[i].info.status = "plan") = IsArmed(plan)
  BY <1>6, <1>7, Beside
<1>14. ~Leaving'
  BY <1>7, <1>9 DEF Leaving
<1>15. Words'
  BY <1>10, <1>13, <1>14 DEF Words, IsStatus
<1>16. PlanSaved' /\ PermSaved'
  BY <1>10, <1>13 DEF PlanSaved, PermSaved
<1>17. AgentTold'
  BY <1>7, <1>9, <1>10, <1>13 DEF AgentTold, Agrees
<1>18. Unknown'
  BY <1>10 DEF Unknown
<1>19. Handled'
  BY <1>4, <1>9 DEF Handled, Handler
<1>20. QED
  BY <1>11, <1>12, <1>15, <1>16, <1>17, <1>18, <1>19 DEF CalmInv, Saved

-----------------------------------------------------------------------------
(* What the user begins.                                                   *)

\* When all is answered and delivered, nothing is wrong.
LEMMA QuietFacts ==
    ASSUME CalmInv, Quiet
    PROVE  /\ Hs(flows) = {} /\ NoWords /\ events = <<>> /\ Fits(roster)
           /\ \A a \in ToSet(roster) : IsInfo(a) /\ Copy(a)
           /\ Live(agent.status) => \E a \in ToSet(roster) : a.handle = agent.handle
           /\ IsArmed(plan) = saved.plan /\ PermsAgree /\ Agrees
           /\ ~known => Nobody /\ ~IsArmed(plan)
<1>1. flows = {} /\ events = <<>> /\ DOMAIN events = {}
  BY DEF Quiet
<1>2. Hs(flows) = {} /\ NoWords
  BY <1>1 DEF Hs, NoWords
<1>3. IsArmed(plan) = saved.plan /\ PermsAgree /\ Agrees
  BY <1>2 DEF CalmInv, Saved, PlanSaved, PermSaved, AgentTold
<1>4. ~known => Nobody /\ ~IsArmed(plan)
  BY <1>2 DEF CalmInv, Unknown
<1>5. Fits(roster)
  BY DEF CalmInv, Copies
<1>6. \A a \in ToSet(roster) : IsInfo(a) /\ Copy(a)
  BY <1>1, <1>5 DEF Fits, Heals, IsList
<1>7. Live(agent.status) => \E a \in ToSet(roster) : a.handle = agent.handle
  BY <1>1, <1>5 DEF Fits, Listed
<1>8. QED
  BY <1>1, <1>2, <1>3, <1>4, <1>5, <1>6, <1>7

\* The agent shown is one of the list.
LEMMA ShownCopy ==
    ASSUME CalmInv, Quiet
    PROVE  /\ IsInfo(Managed) /\ (roster = <<>> => Managed = NoAgent /\ Gone(Managed.status))
           /\ roster # <<>> => Managed \in ToSet(roster) /\ Copy(Managed)
           /\ ~Gone(Managed.status) => Copy(Managed) /\ Managed.handle = agent.handle /\ Live(agent.status)
<1>1. Fits(roster) /\ \A a \in ToSet(roster) : IsInfo(a) /\ Copy(a)
  BY QuietFacts
<1>2. roster # <<>> => Managed \in ToSet(roster)
  <2>1. DOMAIN roster = 1..Len(roster) /\ Len(roster) \in Nat /\ (\A i \in 1..Len(roster) : roster[i] \in ToSet(roster))
        /\ roster \in Seq(ToSet(roster))
    BY <1>1, ListMembers DEF Fits, IsList
  <2>2. roster # <<>> => 1 \in 1..Len(roster)
    BY <2>1
  <2>3. QED
    BY <2>1, <2>2 DEF Managed
<1>3. roster = <<>> => Managed = NoAgent
  BY DEF Managed
<1>4. IsInfo(NoAgent) /\ Gone(NoAgent.status)
  BY DEF IsInfo, NoAgent, Gone
<1>5. Live(agent.status) \/ Gone(agent.status)
  BY DEF CalmInv, Shape, AgentShape
<1>6. QED
  BY <1>1, <1>2, <1>3, <1>4, <1>5 DEF Copy, Right, Old

\* A handler begins when all is quiet, and changes no mode by beginning.
LEMMA Begins ==
    ASSUME CalmInv, ModesKept, UNCHANGED <<roster, agent, events>>, NEW g, flows' = flows \cup {g},
           (Quiet /\ IsFlow(g) /\ Follows(g) /\ Handler(g)') \/ flows' = flows
    PROVE  CalmInv'
<1>1. CASE flows' = flows
  <2>1. FlowShape' /\ Hs(flows') = Hs(flows)
    BY <1>1 DEF CalmInv, Shape, FlowShape
  <2>2. QED
    BY <2>1, Still
<1>2. CASE Quiet /\ IsFlow(g) /\ Follows(g) /\ Handler(g)'
  <2>1. flows' = {g}
    BY <1>2 DEF Quiet
  <2>2. FlowShape' /\ Hs(flows') \subseteq {g}
    BY <1>2, <2>1 DEF FlowShape, Hs
  <2>3. Hs(flows) = {}
    BY <1>2 DEF Quiet, Hs
  <2>4. QED
    BY <1>2, <2>2, <2>3, Still
<1>3. QED
  BY <1>1, <1>2

Passes == passed' = IF PassesBy THEN agent.handle ELSE passed
LEMMA NotPassed ==
    ASSUME Passes, NEW g, flows' = flows \cup {g}, g.kind # "mode" \/ g.live = TRUE
    PROVE  passed' = passed
  BY DEF Passes, PassesBy

LEMMA Refreshes ==
    ASSUME CalmInv, Passes, Quiet \/ BeginsNothing, Refresh
    PROVE  CalmInv'
<1> DEFINE g == [kind |-> "list", at |-> "list", ans |-> "none", arg |-> Unset, info |-> NoAgent]
<1>1. flows' = flows \cup {g} /\ UNCHANGED <<roster, perms, plan, known, wire, saved, agent, events>>
  BY DEF Refresh, window, host
<1>2. g.kind = "list" /\ g.ans = "none" /\ IsFlow(g)
  BY DEF IsFlow, Kinds, CallsOf, FieldsOf, IsInfo, NoAgent
<1> HIDE DEF g
<1>3. ModesKept
  BY <1>1, <1>2, NotPassed DEF ModesKept
<1>4. Follows(g) /\ \A x : x = g => Handler(x)'
  BY <1>2 DEF Follows, Leaves, Handler
<1>5. PICK x : x = g
  OBVIOUS
<1>6. Quiet \/ flows' = flows
  BY DEF BeginsNothing
<1>7. QED
  BY <1>1, <1>2, <1>3, <1>4, <1>5, <1>6, Begins

LEMMA ModelBegins ==
    ASSUME CalmInv, Passes, Quiet \/ BeginsNothing, NEW pick, ModelChange(pick)
    PROVE  CalmInv'
<1> DEFINE push == SessionModelNeedsPush(choice', Managed.model)
           arg == CHOOSE p \in push : TRUE
           g == [kind |-> "model", at |-> "setModel", ans |-> "none", info |-> Managed, arg |-> arg, previous |-> choice]
<1>1. /\ (MayPush /\ flows' = flows \cup {g}) \/ flows' = flows
      /\ known /\ UNCHANGED <<roster, perms, plan, known, wire, saved, agent, events>>
  BY DEF ModelChange, host
<1> HIDE DEF arg
<1>2. g.kind = "model" /\ g.info = Managed /\ g.at = "setModel" /\ g.ans = "none"
      /\ {"kind", "at", "ans", "info"} \subseteq DOMAIN g
  OBVIOUS
<1> HIDE DEF g
<1>3. CASE flows' = flows
  <2>1. passed' = passed
    BY <1>3 DEF Passes, PassesBy
  <2>2. ModesKept
    BY <1>1, <2>1 DEF ModesKept
  <2>3. FlowShape' /\ Hs(flows') = Hs(flows)
    BY <1>3 DEF CalmInv, Shape, FlowShape
  <2>4. QED
    BY <1>1, <2>2, <2>3, Still
<1>4. CASE flows' # flows
  <2>1. Quiet /\ MayPush /\ flows' = flows \cup {g}
    BY <1>1, <1>4 DEF BeginsNothing
  <2>2. IsInfo(Managed) /\ Copy(Managed)
    BY <2>1, ShownCopy DEF MayPush, Live, Gone
  <2>3. IsFlow(g)
    BY <1>2, <2>2 DEF IsFlow, Kinds, CallsOf, FieldsOf
  <2>4. PICK x : x = g
    OBVIOUS
  <2>5. x.kind = "model" /\ IsFlow(x) /\ Copy(x.info)
    BY <1>2, <2>2, <2>3, <2>4
  <2>6. Handler(x)' /\ Follows(x)
    BY <1>1, <2>5 DEF Handler, Follows, Leaves, Copy, Right, Old
  <2>7. ModesKept
    BY <1>1, <1>2, <2>1, NotPassed DEF ModesKept
  <2>8. QED
    BY <1>1, <2>1, <2>4, <2>5, <2>6, <2>7, Begins
<1>5. QED
  BY <1>3, <1>4

LEMMA StopBegins ==
    ASSUME CalmInv, Passes, Quiet \/ BeginsNothing, Stop
    PROVE  CalmInv'
<1>1. PICK x : x = [kind |-> "stop", at |-> "stop", ans |-> "none", info |-> Managed]
  OBVIOUS
<1>2. /\ flows' = flows \cup {x} /\ known /\ ~busy /\ busy' = TRUE
      /\ UNCHANGED <<roster, perms, plan, known, wire, saved, agent, events>>
  BY <1>1 DEF Stop, host
<1>3. Quiet
  BY <1>2 DEF BeginsNothing
<1>4. x.kind = "stop" /\ x.ans = "none" /\ IsFlow(x)
  <2>1. IsInfo(Managed)
    BY <1>3, ShownCopy
  <2>2. QED
    BY <1>1, <2>1 DEF IsFlow, Kinds, CallsOf, FieldsOf
<1>5. x.info.handle <= agent.handle
  <2>1. Managed \in ToSet(roster) => Copy(Managed)
    BY <1>3, QuietFacts
  <2>2. CASE roster # <<>>
    BY <1>1, <1>3, <2>1, <2>2, ShownCopy DEF Copy, Old
  <2>3. CASE roster = <<>>
    BY <1>1, <2>3 DEF Managed, NoAgent, CalmInv, Shape, AgentShape, IsInfo
  <2>4. QED
    BY <2>2, <2>3
<1>6. Handler(x)' /\ Follows(x)
  BY <1>2, <1>4, <1>5 DEF Handler, Follows, Leaves
<1>7. ModesKept
  BY <1>2, <1>4, NotPassed DEF ModesKept
<1>8. QED
  BY <1>2, <1>3, <1>4, <1>6, <1>7, Begins

LEMMA ResolveBegins ==
    ASSUME CalmInv, Passes, Quiet \/ BeginsNothing, NEW option, ResolveApproval(option)
    PROVE  CalmInv'
<1>1. PICK x : x = [kind |-> "resolve", at |-> "resolve", ans |-> "none", arg |-> option, info |-> Managed]
  OBVIOUS
<1>2. /\ flows' = flows \cup {x} /\ known
      /\ UNCHANGED <<roster, perms, plan, known, wire, saved, agent, events>>
  BY <1>1 DEF ResolveApproval, host, window
<1>3. x.kind = "resolve" /\ x.ans = "none"
  BY <1>1
<1>4. ASSUME Quiet PROVE IsFlow(x) /\ Handler(x)' /\ Follows(x)
  <2>1. IsInfo(Managed) /\ NoWords
    BY <1>4, ShownCopy, QuietFacts
  <2>2. IsFlow(x)
    BY <1>1, <2>1 DEF IsFlow, Kinds, CallsOf, FieldsOf
  <2>3. NoWords'
    BY <1>2, <2>1 DEF NoWords, IsStatus
  <2>4. ~Leaves(x)
    BY <1>3 DEF Leaves
  <2>5. QED
    BY <1>2, <1>3, <2>2, <2>3, <2>4 DEF Handler, Follows
<1>5. ModesKept
  BY <1>2, <1>3, NotPassed DEF ModesKept
<1>6. Quiet \/ flows' = flows
  BY DEF BeginsNothing
<1>7. QED
  BY <1>2, <1>4, <1>5, <1>6, Begins

LEMMA SpawnBegins ==
    ASSUME CalmInv, Passes, Quiet \/ BeginsNothing, NEW mode, NEW prompt, Spawn(mode, prompt)
    PROVE  CalmInv'
<1> DEFINE next == ApplySessionModeChange(mode, "default")
           arg == IF next.perm = Unset THEN "default" ELSE next.perm
<1>1. PICK x : x = [kind |-> "spawn", at |-> "spawn", ans |-> "none", info |-> NoAgent, arg |-> arg,
                    planned |-> next.armed, prompt |-> prompt]
  OBVIOUS
<1>2. /\ flows' = flows \cup {x} /\ ~known /\ ~busy /\ busy' = TRUE
      /\ UNCHANGED <<roster, perms, plan, known, wire, saved, agent, events>>
  BY <1>1 DEF Spawn, host
<1>3. Quiet
  BY <1>2 DEF BeginsNothing
<1>4. next.armed \in BOOLEAN
  BY DEF ApplySessionModeChange
<1>5. arg # Unset
  BY DEF Unset
<1> HIDE DEF next, arg
<1>6. x.kind = "spawn" /\ x.ans = "none" /\ IsFlow(x) /\ x.planned \in BOOLEAN /\ x.arg # Unset
  <2>1. IsInfo(NoAgent)
    BY DEF IsInfo, NoAgent
  <2>2. QED
    BY <1>1, <1>4, <1>5, <2>1 DEF IsFlow, Kinds, CallsOf, FieldsOf
<1>7. Clean'
  <2>1. events = <<>> /\ roster = <<>> /\ agent.status = "none"
    BY <1>2, <1>3, QuietFacts DEF Nobody
  <2>2. ToSet(roster) = {}
    BY <2>1 DEF ToSet
  <2>3. QED
    BY <1>2, <2>1, <2>2 DEF Clean, Gone
<1>8. SpawnFlow(x)'
  BY <1>2, <1>6, <1>7 DEF SpawnFlow
<1>9. Handler(x)' /\ Follows(x)
  BY <1>6, <1>8 DEF Handler, Follows, Leaves
<1>10. ModesKept
  BY <1>2, <1>6, NotPassed DEF ModesKept
<1>11. QED
  BY <1>2, <1>3, <1>6, <1>9, <1>10, Begins

\* The agent a send starts from: a live one if there is one.
Base == IF Gone(Managed.status) /\ Attached # <<>> THEN Attached[1] ELSE Managed
LEMMA BaseCopy ==
    ASSUME CalmInv, Quiet
    PROVE  /\ IsInfo(Base)
           /\ ~Gone(Base.status) => Copy(Base) /\ Base.handle = agent.handle /\ ~Clean
           /\ Gone(Base.status) => Clean
<1>1. Fits(roster) /\ events = <<>> /\ (\A a \in ToSet(roster) : IsInfo(a) /\ Copy(a))
      /\ (Live(agent.status) => \E a \in ToSet(roster) : a.handle = agent.handle)
  BY QuietFacts
<1>2. /\ IsInfo(Managed) /\ (roster # <<>> => Managed \in ToSet(roster))
      /\ ~Gone(Managed.status) => Copy(Managed) /\ Managed.handle = agent.handle
  BY ShownCopy
<1> DEFINE S == {a \in ToSet(roster) : ~Gone(a.status)}
<1>3. IsList(Attached) /\ ToSet(Attached) = S
  <2>1. IsList(Attached) /\ ToSet(Attached) = ToSet(roster) \cap S
    BY <1>1, OnlyOfList DEF Fits, Attached
  <2>2. QED
    BY <2>1
<1>4. Attached # <<>> => Attached[1] \in S
  <2>1. DOMAIN Attached = 1..Len(Attached) /\ Len(Attached) \in Nat /\ (\A i \in 1..Len(Attached) : Attached[i] \in ToSet(Attached))
        /\ Attached \in Seq(ToSet(Attached))
    BY <1>3, ListMembers DEF IsList
  <2>2. Attached # <<>> => 1 \in 1..Len(Attached)
    BY <2>1
  <2>3. QED
    BY <1>3, <2>1, <2>2
<1>5. Attached = <<>> => S = {}
  <2>1. Attached = <<>> => ToSet(Attached) = {}
    BY DEF ToSet
  <2>2. QED
    BY <1>3, <2>1
<1>6. Live(agent.status) \/ Gone(agent.status)
  BY DEF CalmInv, Shape, AgentShape
<1>7. IsInfo(Base)
  BY <1>1, <1>2, <1>4 DEF Base
<1>8. ASSUME ~Gone(Base.status) PROVE Copy(Base) /\ Base.handle = agent.handle /\ ~Clean
  <2>1. Copy(Base)
    BY <1>1, <1>2, <1>4, <1>8 DEF Base
  <2>2. Base.handle = agent.handle /\ ~Gone(agent.status)
    BY <1>8, <2>1 DEF Copy, Old, Right
  <2>3. QED
    BY <2>1, <2>2 DEF Clean
<1>9. ASSUME Gone(Base.status) PROVE Clean
  <2>1. S = {}
    <3>1. CASE Attached = <<>>
      BY <1>5, <3>1
    <3>2. CASE Attached # <<>>
      <4>1. Gone(Managed.status)
        BY <1>9, <3>2 DEF Base
      <4>2. Base = Attached[1]
        BY <3>2, <4>1 DEF Base
      <4>3. QED
        BY <1>4, <1>9, <3>2, <4>2
    <3>3. QED
      BY <3>1, <3>2
  <2>2. \A a \in ToSet(roster) : Gone(a.status)
    BY <2>1
  <2>3. Gone(agent.status)
    BY <1>1, <1>6, <2>2 DEF Copy, Right
  <2>4. QED
    BY <1>1, <2>2, <2>3 DEF Clean
<1>10. QED
  BY <1>7, <1>8, <1>9

\* The send before its first stage.
Composed == [kind |-> "send", at |-> "none", stage |-> 1, ans |-> "none", arg |-> Unset, info |-> Base,
             planned |-> IsArmed(plan), shown |-> plan, attached |-> Gone(Base.status), warned |-> FALSE, prompt |-> FALSE]

LEMMA SendStarts ==
    ASSUME CalmInv, Quiet, Send
    PROVE  \A x : x = SendAt(Composed, 1) =>
              /\ IsFlow(x) /\ x.kind = "send" /\ x.ans = "none" /\ x.info = Base
              /\ x.stage = 1 => Clean /\ x.arg = perms
              /\ SendFlow(x) /\ (Gone(Base.status) <=> x.stage = 1)
<1> SUFFICES ASSUME NEW x, x = SendAt(Composed, 1)
             PROVE  /\ IsFlow(x) /\ x.kind = "send" /\ x.ans = "none" /\ x.info = Base
                    /\ x.stage = 1 => Clean /\ x.arg = perms
                    /\ SendFlow(x) /\ (Gone(Base.status) <=> x.stage = 1)
  OBVIOUS
<1> DEFINE h == Composed
<1>1. /\ h.kind = "send" /\ h.info = Base /\ h.planned = IsArmed(plan) /\ h.shown = plan /\ h.attached = Gone(Base.status)
      /\ h.warned = FALSE /\ FieldsOf("send") \cup {"kind", "at", "ans", "info"} \subseteq DOMAIN h
  BY DEF Composed, FieldsOf
<1> HIDE DEF h
<1>2. /\ IsInfo(Base) /\ (Gone(Base.status) => Clean)
      /\ ~Gone(Base.status) => Copy(Base) /\ Base.handle = agent.handle
  BY BaseCopy
<1>3. IsSend(h)
  BY <1>1, <1>2 DEF IsSend
<1>4. x = SendAt(h, 1)
  BY DEF h
<1>5. AtStage(h, 1, x)
  BY <1>3, <1>4, NextStage
<1>6. h.planned \in BOOLEAN /\ h.attached \in BOOLEAN
  BY <1>1 DEF IsArmed, Gone
<1>7. /\ x.stage = 1 => Gone(Base.status)
      /\ x.stage # 1 => ~Gone(Base.status)
      /\ x.stage = 2 => h.planned /\ h.attached
      /\ x.stage = 4 => h.planned
      /\ x.stage = 5 => ~h.planned
      /\ x.stage \in 1..5
  BY <1>1, <1>5, <1>6, StageTells
<1>8. /\ IsFlow(x) /\ x.kind = "send" /\ x.info = Base /\ x.planned = h.planned /\ x.shown = plan
      /\ x.attached = h.attached /\ x.ans = "none" /\ x.at = CallOf(SendStages[x.stage])
      /\ (x.stage = 1 => x.arg = perms) /\ (x.stage \in {2, 4, 5} => x.arg = "plan")
  BY <1>1, <1>5 DEF AtStage, SameSend
<1>9. plan # "off" => IsArmed(plan)
  BY DEF IsArmed, CalmInv, Shape
<1>10. SendFlow(x)
  BY <1>1, <1>2, <1>6, <1>7, <1>8, <1>9 DEF SendFlow
<1>11. QED
  BY <1>2, <1>7, <1>8, <1>10

LEMMA SendBegins ==
    ASSUME CalmInv, Passes, Quiet \/ BeginsNothing, Send
    PROVE  CalmInv'
<1>1. known /\ ~busy /\ busy' = TRUE /\ UNCHANGED <<perms, plan, known, wire, saved, agent, events>>
  BY DEF Send, host
<1>2. Quiet
  BY <1>1 DEF BeginsNothing
<1>3. PICK x : x = SendAt(Composed, 1)
  OBVIOUS
<1>4. Rendered(Painted(x), flows \cup {x}, armed)
  BY <1>3 DEF Send, Composed, Base
<1>5. /\ IsFlow(x) /\ x.kind = "send" /\ x.ans = "none" /\ x.info = Base
      /\ (x.stage = 1 => Clean /\ x.arg = perms) /\ SendFlow(x) /\ (Gone(Base.status) <=> x.stage = 1)
  BY <1>2, <1>3, SendStarts
<1> DEFINE list == Painted(x)
           fs == flows \cup {x}
           run == [Base EXCEPT !.status = "running"]
<1>6. IsInfo(Base) /\ (~Gone(Base.status) => Copy(Base) /\ ~Clean)
  BY <1>2, BaseCopy
<1>7. Fits(roster) /\ Hs(flows) = {}
  BY <1>2, QuietFacts
<1>8. Fits(list) /\ (Gone(Base.status) => list = roster)
  <2>1. Base.status = "ready" => ~Gone(Base.status)
    BY DEF Gone
  <2>2. Base.status = "ready" => IsInfo(run) /\ Copy(run)
    BY <1>6, <2>1, RunningCopy
  <2>3. list = roster \/ (Base.status = "ready" /\ list = With(roster, run))
    BY <1>5 DEF Painted
  <2> HIDE DEF run, list
  <2>4. QED
    BY <1>7, <2>1, <2>2, <2>3, FitsWith
<1>9. roster' = list
  BY <1>4 DEF Rendered
<1> HIDE DEF list
<1>10. Copies'
  BY <1>1, <1>8, <1>9, CopiesKept DEF Same
<1>11. Hs(fs) = {x} /\ \A y \in fs : IsFlow(y)
  BY <1>2, <1>5 DEF Hs, Quiet
<1> HIDE DEF fs
<1>12. FlowShape' /\ Hs(flows') = {x}
  <2>1. \E l, fresh : Rendered(l, fs, fresh)
    BY <1>4 DEF fs
  <2>2. QED
    BY <1>11, <2>1, FlowsBecome
<1>13. passed' = passed
  <2>1. \A f \in flows' : f.kind # "mode"
    BY <1>5, <1>12 DEF Hs
  <2>2. QED
    BY <2>1 DEF Passes, PassesBy
<1>14. ModesKept
  BY <1>1, <1>13 DEF ModesKept
<1>15. Clean => Clean'
  BY <1>1, <1>6, <1>8, <1>9 DEF Clean
<1>16. SendFlow(x)'
  BY <1>1, <1>5, <1>15 DEF SendFlow, Copy, Right, Old
<1>17. Handler(x)' /\ Follows(x)
  BY <1>1, <1>5, <1>16 DEF Handler, Follows, Leaves
<1>18. QED
  BY <1>1, <1>7, <1>10, <1>12, <1>14, <1>15, <1>17, Silent

\* The change the user has asked for, before its first call.
Asked(mode) == ApplySessionModeChange(mode, EffectivePermission)
PlanAsked(mode) == Asked(mode).armed # IsArmed(plan)
PermAsked(mode) == Asked(mode).perm \notin {Unset, EffectivePermission}
AskedCalls(mode) == ModeCalls(~Gone(Managed.status), PlanAsked(mode), PermAsked(mode))
Change(mode) ==
    [kind |-> "mode", at |-> "none", ans |-> "none", todo |-> AskedCalls(mode), live |-> ~Gone(Managed.status),
     info |-> Managed, arg |-> SessionModeWireId(mode), next |-> Asked(mode), plan |-> plan, perm |-> EffectivePermission]
AskedLeft == [left EXCEPT !.modes = @ - 1]
MakesChange(mode) ==
    /\ known /\ (PlanAsked(mode) \/ PermAsked(mode))
    /\ plan' = IF ~PlanAsked(mode) THEN plan ELSE IF Asked(mode).armed THEN "active" ELSE "off"
    /\ perms' = IF PermAsked(mode) THEN Asked(mode).perm ELSE perms
    /\ UNCHANGED <<roster, known, wire>>
    /\ IF ~Gone(Managed.status)
       THEN flows' = flows \cup {[Change(mode) EXCEPT !.at = "setMode"]} /\ UNCHANGED <<saved, agent, events>>
       ELSE ModeGoesOn(Change(mode), flows, AskedCalls(mode), AskedLeft)

LEMMA ChangeAsked ==
    ASSUME NEW mode, SessionModeChange(mode)
    PROVE  MakesChange(mode)
<1> DEFINE l == AskedLeft
           f == Change(mode)
           todo == AskedCalls(mode)
<1>1. /\ known /\ (PlanAsked(mode) \/ PermAsked(mode))
      /\ plan' = IF ~PlanAsked(mode) THEN plan ELSE IF Asked(mode).armed THEN "active" ELSE "off"
      /\ perms' = IF PermAsked(mode) THEN Asked(mode).perm ELSE perms
      /\ UNCHANGED <<roster, known, wire>>
  BY DEF SessionModeChange, PlanAsked, PermAsked, Asked
<1>2. IF ~Gone(Managed.status)
      THEN flows' = flows \cup {[f EXCEPT !.at = "setMode"]} /\ UNCHANGED <<saved, agent, events>>
      ELSE ModeGoesOn(f, flows, todo, l)
  BY Zenon DEF SessionModeChange, Change, AskedCalls, PlanAsked, PermAsked, Asked, AskedLeft
<1>3. QED
  BY <1>1, <1>2 DEF MakesChange

\* What is known of the change before its first call.
LEMMA ChangeFacts ==
    ASSUME NEW mode
    PROVE  \A f : f = Change(mode) =>
              /\ f.kind = "mode" /\ f.ans = "none" /\ f.info = Managed /\ f.live = ~Gone(Managed.status)
              /\ f.next = Asked(mode) /\ f.todo = AskedCalls(mode) /\ f.arg = SessionModeWireId(mode)
              /\ {"kind", "at", "ans", "info"} \cup FieldsOf("mode") \subseteq DOMAIN f
              /\ f.next.armed \in BOOLEAN /\ (f.arg = "plan") = f.next.armed
              /\ f.live \in BOOLEAN /\ f.todo \subseteq {"savePlan", "setPerm"}
              /\ ("savePlan" \in f.todo <=> PlanAsked(mode)) /\ ("setPerm" \in f.todo <=> PermAsked(mode))
              /\ PlanAsked(mode) <=> f.next.armed # IsArmed(plan)
<1> SUFFICES ASSUME NEW f, f = Change(mode)
             PROVE  /\ f.kind = "mode" /\ f.ans = "none" /\ f.info = Managed /\ f.live = ~Gone(Managed.status)
                    /\ f.next = Asked(mode) /\ f.todo = AskedCalls(mode) /\ f.arg = SessionModeWireId(mode)
                    /\ {"kind", "at", "ans", "info"} \cup FieldsOf("mode") \subseteq DOMAIN f
                    /\ f.next.armed \in BOOLEAN /\ (f.arg = "plan") = f.next.armed
                    /\ f.live \in BOOLEAN /\ f.todo \subseteq {"savePlan", "setPerm"}
                    /\ ("savePlan" \in f.todo <=> PlanAsked(mode)) /\ ("setPerm" \in f.todo <=> PermAsked(mode))
                    /\ PlanAsked(mode) <=> f.next.armed # IsArmed(plan)
  OBVIOUS
<1>1. /\ f.kind = "mode" /\ f.ans = "none" /\ f.info = Managed /\ f.live = ~Gone(Managed.status)
      /\ f.next = Asked(mode) /\ f.todo = AskedCalls(mode) /\ f.arg = SessionModeWireId(mode)
      /\ {"kind", "at", "ans", "info"} \cup FieldsOf("mode") \subseteq DOMAIN f
  BY DEF Change, FieldsOf
<1>2. Asked(mode).armed \in BOOLEAN /\ (SessionModeWireId(mode) = "plan") = Asked(mode).armed
  BY DEF Asked, ApplySessionModeChange, SessionModeWireId
<1>3. /\ AskedCalls(mode) \subseteq {"savePlan", "setPerm"}
      /\ "savePlan" \in AskedCalls(mode) <=> PlanAsked(mode)
      /\ "setPerm" \in AskedCalls(mode) <=> PermAsked(mode)
  BY DEF AskedCalls, ModeCalls
<1>4. (~Gone(Managed.status)) \in BOOLEAN
  BY DEF Gone
<1>5. QED
  BY <1>1, <1>2, <1>3, <1>4 DEF PlanAsked

\* The live agent is told first.
LEMMA ModeTold ==
    ASSUME CalmInv, Passes, Quiet, NEW mode, MakesChange(mode), ~Gone(Managed.status)
    PROVE  CalmInv'
<1>1. PICK f : f = Change(mode)
  OBVIOUS
<1>2. /\ f.kind = "mode" /\ f.ans = "none" /\ f.info = Managed /\ f.live
      /\ f.next = Asked(mode) /\ {"kind", "at", "ans", "info"} \cup FieldsOf("mode") \subseteq DOMAIN f
      /\ f.next.armed \in BOOLEAN /\ (f.arg = "plan") = f.next.armed
      /\ f.live \in BOOLEAN /\ f.todo \subseteq {"savePlan", "setPerm"}
      /\ ("savePlan" \in f.todo <=> PlanAsked(mode)) /\ ("setPerm" \in f.todo <=> PermAsked(mode))
      /\ PlanAsked(mode) <=> f.next.armed # IsArmed(plan)
  BY <1>1, ChangeFacts
<1>3. PICK x : x = [f EXCEPT !.at = "setMode"]
  OBVIOUS
<1>4. /\ x.kind = "mode" /\ x.at = "setMode" /\ x.ans = "none" /\ x.info = Managed /\ x.live = f.live /\ x.next = f.next
      /\ x.todo = f.todo /\ x.arg = f.arg /\ DOMAIN x = DOMAIN f
  BY <1>2, <1>3 DEF FieldsOf
<1>5. /\ known /\ UNCHANGED <<roster, known, wire, saved, agent, events>> /\ flows' = flows \cup {x}
      /\ plan' = (IF ~PlanAsked(mode) THEN plan ELSE IF f.next.armed THEN "active" ELSE "off")
      /\ perms' = (IF PermAsked(mode) THEN f.next.perm ELSE perms)
  BY <1>1, <1>2, <1>3 DEF MakesChange
<1>6. IsArmed(plan) = saved.plan /\ PermsAgree /\ Fits(roster) /\ NoWords
  BY QuietFacts
<1>7. IsInfo(Managed) /\ Managed.handle = agent.handle /\ Live(agent.status)
  BY ShownCopy
<1>8. passed' = passed
  BY <1>2, <1>4, <1>5, NotPassed
<1>9. IsFlow(x)
  BY <1>2, <1>4, <1>7 DEF IsFlow, Kinds, CallsOf
<1>10. flows' = {x} /\ Hs(flows') = {x} /\ FlowShape'
  BY <1>4, <1>5, <1>9 DEF Quiet, Hs, FlowShape
<1>11. IsArmed(plan') = x.next.armed /\ plan' \in {"off", "pending", "active"}
  BY <1>2, <1>4, <1>5 DEF IsArmed, CalmInv, Shape
<1>12. Shape'
  BY <1>5, <1>8, <1>10, <1>11 DEF CalmInv, Shape, EventShape, IsEvent, IsInfo, AgentShape, DiskShape
<1>13. Copies'
  BY <1>5, <1>6, CopiesKept DEF Same
<1>14. Behind(x)
  BY <1>4 DEF Behind
<1>15. Saved' /\ Unknown'
  BY <1>4, <1>5, <1>10, <1>14 DEF Saved, PlanSaved, PermSaved, AgentTold, Unknown
<1>16. Words'
  BY <1>5, <1>6 DEF Words, NoWords, IsStatus
<1>17. "savePlan" \in x.todo \/ saved'.plan = x.next.armed
  BY <1>2, <1>4, <1>5, <1>6 DEF IsArmed
<1>18. IF "setPerm" \in x.todo THEN perms' = x.next.perm ELSE PermsAgree'
  BY <1>2, <1>4, <1>5, <1>6 DEF PermsAgree
<1>19. ModeFlow(x)'
  BY <1>2, <1>4, <1>5, <1>7, <1>11, <1>17, <1>18 DEF ModeFlow
<1>20. Handled'
  BY <1>4, <1>10, <1>19 DEF Handled, Handler
<1>21. QED
  BY <1>12, <1>13, <1>15, <1>16, <1>20 DEF CalmInv

\* No agent is told, and the change is saved at once.
LEMMA ModeStored ==
    ASSUME CalmInv, LeftShape, ~Disturbed, Passes, Quiet, NEW mode, MakesChange(mode), Gone(Managed.status)
    PROVE  CalmInv'
<1>1. PICK f : f = Change(mode)
  OBVIOUS
<1>2. /\ f.kind = "mode" /\ f.ans = "none" /\ f.info = Managed /\ ~f.live
      /\ f.next = Asked(mode) /\ {"kind", "at", "ans", "info"} \cup FieldsOf("mode") \subseteq DOMAIN f
      /\ f.next.armed \in BOOLEAN /\ (f.arg = "plan") = f.next.armed
      /\ f.live \in BOOLEAN /\ f.todo \subseteq {"savePlan", "setPerm"} /\ f.todo = AskedCalls(mode)
      /\ ("savePlan" \in f.todo <=> PlanAsked(mode)) /\ ("setPerm" \in f.todo <=> PermAsked(mode))
      /\ PlanAsked(mode) <=> f.next.armed # IsArmed(plan)
  BY <1>1, ChangeFacts
<1>3. PICK todo : todo = f.todo
  OBVIOUS
<1>4. PICK l : l = AskedLeft
  OBVIOUS
<1>5. /\ known /\ UNCHANGED <<roster, known, wire>> /\ ModeGoesOn(f, flows, todo, l) /\ (PlanAsked(mode) \/ PermAsked(mode))
      /\ plan' = (IF ~PlanAsked(mode) THEN plan ELSE IF f.next.armed THEN "active" ELSE "off")
      /\ perms' = (IF PermAsked(mode) THEN f.next.perm ELSE perms)
  BY <1>1, <1>2, <1>3, <1>4 DEF MakesChange
<1>6. l.fails = left.fails /\ "fails" \in DOMAIN l
  BY <1>4 DEF AskedLeft, LeftShape
<1>7. IsArmed(plan) = saved.plan /\ PermsAgree /\ Fits(roster) /\ NoWords /\ Hs(flows) = {} /\ events = <<>>
  BY QuietFacts
<1>8. IsInfo(Managed)
  BY ShownCopy
<1>9. /\ EventShape /\ DiskShape /\ FlowShape /\ AgentShape /\ plan \in {"off", "pending", "active"}
  BY DEF CalmInv, Shape
<1>10. ChangeShape(f)
  BY <1>2, <1>8 DEF ChangeShape, IsChange
<1>11. todo # {} /\ todo \subseteq {"savePlan", "setPerm"}
  BY <1>2, <1>3, <1>5
<1>12. CallServes(f, flows, todo)
  BY <1>5, <1>6, <1>9, <1>10, <1>11, ChangeServed
<1>13. PICK x \in flows' : x.kind = "mode" /\ ~x.live
  <2>1. PICK info : info = (IF Tells(f, todo) THEN agent' ELSE f.info) /\ flows' = flows \cup {Made(NextCall(f, todo), info)}
    BY <1>12 DEF CallServes
  <2>2. info = f.info
    BY <1>2, <2>1 DEF Tells
  <2>3. SameChange(f, Made(NextCall(f, todo), info))
    BY <1>2, <1>8, <1>10, <1>11, <2>2, CallMade DEF ChangeShape, CallsLeft
  <2>4. QED
    BY <1>2, <2>1, <2>3 DEF SameChange
<1>14. x \notin flows
  BY DEF Quiet
<1>15. /\ Live(agent.status) => passed' = agent.handle
       /\ passed' = agent.handle \/ passed' = passed
  BY <1>13, <1>14 DEF Passes, PassesBy
<1>16. IsArmed(plan') = f.next.armed /\ plan' \in {"off", "pending", "active"}
  BY <1>2, <1>5, <1>9 DEF IsArmed
<1>17. "savePlan" \in todo \/ saved.plan = f.next.armed
  BY <1>2, <1>3, <1>7 DEF IsArmed
<1>18. IF "setPerm" \in todo THEN perms' = f.next.perm
       ELSE perms' = saved.perm \/ (perms' = Unset /\ saved.perm = DefaultMode)
  BY <1>2, <1>3, <1>5, <1>7 DEF PermsAgree
<1>19. passed' \in Nat /\ passed' <= agent.handle
  BY <1>9, <1>15 DEF AgentShape, IsInfo
<1>20. ShownBy(f, todo)
  BY <1>7, <1>15, <1>16, <1>17, <1>18, <1>19 DEF ShownBy
<1>21. flows = {}
  BY DEF Quiet
<1>22. QED
  BY <1>5, <1>6, <1>7, <1>9, <1>10, <1>11, <1>20, <1>21, ChangeGoesOn

\* A choice that changes nothing of what the window shows begins no handler.
LEMMA ModeNothing ==
    ASSUME CalmInv, Passes, BeginsNothing, NEW mode, MakesChange(mode)
    PROVE  CalmInv'
<1>1. PICK f : f = Change(mode)
  OBVIOUS
<1>2. f.live = ~Gone(Managed.status) /\ "live" \in DOMAIN f /\ f.todo = AskedCalls(mode)
      /\ ("savePlan" \in f.todo <=> PlanAsked(mode)) /\ ("setPerm" \in f.todo <=> PermAsked(mode))
  BY <1>1, ChangeFacts DEF FieldsOf
<1>3. UNCHANGED <<flows, plan, perms, saved, roster, known, wire>> /\ (PlanAsked(mode) \/ PermAsked(mode))
  BY DEF BeginsNothing, MakesChange
<1>4. UNCHANGED <<agent, events>>
  <2>1. CASE ~Gone(Managed.status)
    BY <2>1 DEF MakesChange
  <2>2. CASE Gone(Managed.status)
    <3>1. PICK todo : todo = AskedCalls(mode)
      OBVIOUS
    <3>2. ModeGoesOn(f, flows, todo, AskedLeft) /\ todo # {}
      BY <1>1, <1>2, <1>3, <2>2, <3>1 DEF MakesChange
    <3>3. \E ok \in BOOLEAN : Saves(NextCall(f, todo), ok)
      BY <3>2 DEF ModeGoesOn, NextCall
    <3>4. NextCall(f, todo).live = f.live
      BY <1>2 DEF NextCall
    <3> HIDE DEF NextCall
    <3>5. QED
      BY <1>2, <2>2, <3>3, <3>4 DEF Saves
  <2>3. QED
    BY <2>1, <2>2
<1>5. passed' = passed
  BY <1>3 DEF Passes, PassesBy
<1>6. FlowShape' /\ Hs(flows') = Hs(flows)
  BY <1>3 DEF CalmInv, Shape, FlowShape
<1>7. QED
  BY <1>3, <1>4, <1>5, <1>6, Still DEF ModesKept

LEMMA ModeBegins ==
    ASSUME CalmInv, LeftShape, ~Disturbed, Passes, Quiet \/ BeginsNothing, NEW mode, SessionModeChange(mode)
    PROVE  CalmInv'
  BY ChangeAsked, ModeTold, ModeStored, ModeNothing


-----------------------------------------------------------------------------
(* The budgets stay numbers.                                               *)

LEMMA LeftHost ==
    ASSUME LeftShape, HostSteps
    PROVE  LeftShape'
<1>1. \A what : Spend(what) => LeftShape'
  BY Spent
<1>2. UNCHANGED left => LeftShape'
  BY DEF LeftShape
<1>3. ASSUME NEW f \in flows,
             \/ ServeStart(f) \/ AttachFinds(f) \/ StartRefused(f) \/ AttachFails(f) \/ AttachNoProcess(f)
             \/ ServePrompt(f) \/ ServeResolve(f) \/ ServeList(f) \/ StopUnknown(f)
             \/ \E ok \in BOOLEAN : ServeSetMode(f, ok) \/ ServeSetModel(f, ok) \/ ServeStop(f, ok)
      PROVE  LeftShape'
  <2> HIDE DEF LeftShape
  <2>1. CASE ServePrompt(f) \/ StopUnknown(f) \/ ServeResolve(f) \/ ServeList(f) \/ AttachFinds(f)
    BY <1>2, <2>1 DEF ServePrompt, StopUnknown, ServeResolve, ServeList, AttachFinds
  <2>2. CASE StartRefused(f)
    BY <1>1, <1>2, <2>2 DEF StartRefused
  <2>3. CASE \E ok \in BOOLEAN : ServeSetMode(f, ok)
    BY <1>1, <1>2, <2>3 DEF ServeSetMode
  <2>4. CASE \E ok \in BOOLEAN : ServeSetModel(f, ok)
    BY <1>1, <1>2, <2>4 DEF ServeSetModel
  <2>5. CASE \E ok \in BOOLEAN : ServeStop(f, ok)
    BY <1>1, <1>2, <2>5 DEF ServeStop
  <2>6. CASE ServeStart(f) \/ AttachFails(f)
    BY <1>1, <2>6 DEF ServeStart, AttachFails
  <2>7. CASE AttachNoProcess(f)
    BY <2>7 DEF AttachNoProcess, LeftShape
  <2>8. QED
    BY <1>3, <2>1, <2>2, <2>3, <2>4, <2>5, <2>6, <2>7
<1>4. ASSUME CatalogArrives \/ AsksApproval \/ ConnectionLost \/ TurnEnds \/ \E ok \in BOOLEAN : Reconnected(ok)
      PROVE  LeftShape'
  BY <1>1, <1>2, <1>4 DEF CatalogArrives, AsksApproval, ConnectionLost, TurnEnds, Reconnected
<1>5. QED
  BY <1>3, <1>4 DEF HostSteps

LEMMA LeftChange ==
    ASSUME LeftShape, NEW f, NEW others, NEW todo, NEW l, ModeGoesOn(f, others, todo, l),
           {"fails", "losses"} \subseteq DOMAIN l, l.fails = left.fails, l.losses = left.losses
    PROVE  LeftShape'
<1>1. left' = l \/ left' = [l EXCEPT !.fails = @ - 1]
  BY DEF ModeGoesOn
<1>2. l.fails \in Int /\ l.losses \in Int /\ "fails" \in DOMAIN l /\ "losses" \in DOMAIN l
  BY DEF LeftShape
<1>3. QED
  BY <1>1, <1>2 DEF LeftShape

LEMMA LeftWindow ==
    ASSUME LeftShape, Deliver \/ \E f \in flows : Answered(f)
    PROVE  LeftShape'
<1>1. \A what : Spend(what) => LeftShape'
  BY Spent
<1>2. UNCHANGED left => LeftShape'
  BY DEF LeftShape
<1>3. CASE Deliver
  BY <1>2, <1>3 DEF Deliver
<1>4. ASSUME NEW f \in flows, Answered(f) PROVE LeftShape'
  <2>1. CASE ModeAnswered(f)
    <3>1. UNCHANGED left \/ \E todo : ModeGoesOn(f, flows \ {f}, todo, left)
      BY <2>1 DEF ModeAnswered
    <3>2. {"fails", "losses"} \subseteq DOMAIN left /\ left.fails = left.fails /\ left.losses = left.losses
      BY DEF LeftShape
    <3>3. QED
      BY <1>2, <3>1, <3>2, LeftChange
  <2>2. CASE SendAnswered(f) \/ SpawnAnswered(f) \/ ModelAnswered(f) \/ DefaultAnswered(f) \/ StopAnswered(f) \/ ListAnswered(f)
    BY <1>2, <2>2 DEF SendAnswered, SpawnAnswered, ModelAnswered, DefaultAnswered, StopAnswered, ListAnswered
  <2>3. CASE \E stored \in BOOLEAN : ResolveAnswered(f, stored)
    BY <1>1, <1>2, <2>3 DEF ResolveAnswered
  <2>4. QED
    BY <1>4, <2>1, <2>2, <2>3 DEF Answered
<1>5. QED
  BY <1>3, <1>4

LEMMA LeftUser ==
    ASSUME LeftShape, UserSteps
    PROVE  LeftShape'
<1>1. \A what : Spend(what) => LeftShape'
  BY Spent
<1>2. UNCHANGED left => LeftShape'
  BY DEF LeftShape
<1>3. ASSUME NEW mode, SessionModeChange(mode) PROVE LeftShape'
  <2> DEFINE l == [left EXCEPT !.modes = @ - 1]
  <2>1. left' = l \/ \E f, todo : ModeGoesOn(f, flows, todo, l)
    <3> DEFINE Goes == \E f, todo : ModeGoesOn(f, flows, todo, l)
    <3>1. ~Gone(Managed.status) => left' = l
      BY <1>3 DEF SessionModeChange
    <3>2. Gone(Managed.status) => ModeGoesOn(Change(mode), flows, AskedCalls(mode), l)
      BY <1>3, ChangeAsked DEF MakesChange, AskedLeft
    <3>3. QED
      BY <3>1, <3>2
  <2>2. {"fails", "losses"} \subseteq DOMAIN l /\ l.fails = left.fails /\ l.losses = left.losses
    BY DEF LeftShape
  <2> HIDE DEF l
  <2>3. left' = l => LeftShape'
    BY <2>2 DEF LeftShape
  <2>4. QED
    BY <2>1, <2>2, <2>3, LeftChange
<1>4. ASSUME NEW mode, NEW prompt, Spawn(mode, prompt) PROVE LeftShape'
  BY <1>2, <1>4 DEF Spawn
<1>5. ASSUME Send \/ Stop \/ Refresh \/ \E pick \in Picks : ModelChange(pick) PROVE LeftShape'
  BY <1>1, <1>5 DEF Send, Stop, Refresh, ModelChange
<1>6. ASSUME NEW option, ResolveApproval(option) PROVE LeftShape'
  BY <1>2, <1>6 DEF ResolveApproval
<1>7. QED
  BY <1>3, <1>4, <1>5, <1>6 DEF UserSteps

-----------------------------------------------------------------------------
(* Every step keeps the invariant.                                         *)

LEMMA HostKeeps ==
    ASSUME CalmInv, LeftShape, HostSteps, ~Disturbed, UNCHANGED passed
    PROVE  CalmInv'
<1>1. ASSUME NEW f \in flows, NEW ok \in BOOLEAN, ServeSetMode(f, ok) \/ ServeStart(f) \/ AttachFails(f)
      PROVE  CalmInv'
  BY <1>1, SetModeServed, Started
<1>2. ASSUME NEW f \in flows, ServeResolve(f) PROVE CalmInv'
  BY <1>2, ResolveServed
<1>3. ASSUME NEW f \in flows, NEW ok \in BOOLEAN, ServeSetModel(f, ok) \/ ServeStop(f, ok)
      PROVE  CalmInv'
  <2>1. ModesKept
    BY <1>3 DEF ModesKept, ServeSetModel, ServeStop, window
  <2>2. QED
    BY <1>3, <2>1, ModelServed, StopServed
<1>4. ASSUME NEW f \in flows, ServePrompt(f) \/ StartRefused(f) \/ StopUnknown(f) \/ ServeList(f)
      PROVE  CalmInv'
  <2>1. ModesKept
    BY <1>4 DEF ModesKept, ServePrompt, StartRefused, StopUnknown, ServeList, window, host
  <2>2. QED
    BY <1>4, <2>1, PromptServed, NotStarted, NotStopped, ListServed
\* In calm an attach finds no agent, and its program starts.
<1>5. ASSUME NEW f \in flows PROVE ~AttachFinds(f) /\ ~AttachNoProcess(f)
  <2>1. AttachFinds(f) => ~Clean /\ f.at = "attach" /\ f.ans = "none"
    BY DEF AttachFinds, Waiting, Clean
  <2>2. ~AttachFinds(f)
    <3> SUFFICES ASSUME AttachFinds(f) PROVE FALSE
      OBVIOUS
    <3>1. f.kind = "send"
      BY <2>1, HandlerOf DEF IsFlow, Kinds, CallsOf
    <3>2. SendFlow(f)
      BY <3>1, HandlerOf DEF Handler
    <3>3. QED
      BY <2>1, <3>2, StageOf DEF SendFlow
  <2>3. ~AttachNoProcess(f)
    <3> SUFFICES ASSUME AttachNoProcess(f) PROVE FALSE
      OBVIOUS
    <3>1. PICK l : l = [left EXCEPT !.agents = @ - 1]
      OBVIOUS
    <3>2. left' = [l EXCEPT !.fails = left.fails - 1]
      BY <3>1 DEF AttachNoProcess
    <3>3. "fails" \in DOMAIN l /\ left.fails \in Int
      BY <3>1 DEF LeftShape
    <3>4. left'.fails = left.fails - 1
      BY <3>2, <3>3
    <3>5. QED
      BY <3>3, <3>4 DEF Disturbed
  <2>4. QED
    BY <2>2, <2>3
<1>6. ASSUME CatalogArrives \/ TurnEnds \/ AsksApproval PROVE CalmInv'
  <2>1. ModesKept
    BY <1>6 DEF ModesKept, CatalogArrives, TurnEnds, AsksApproval, window
  <2>2. QED
    BY <1>6, <2>1, SpeaksByItself, Asks
<1>7. ~ConnectionLost
  BY Spent DEF ConnectionLost
<1>8. ~\E ok \in BOOLEAN : Reconnected(ok)
  BY DEF Reconnected, CalmInv, Shape, AgentShape, Live, Gone
<1>9. QED
  BY <1>1, <1>2, <1>3, <1>4, <1>5, <1>6, <1>7, <1>8 DEF HostSteps

LEMMA WindowKeeps ==
    ASSUME CalmInv, LeftShape, Deliver \/ \E f \in flows : Answered(f), ~Disturbed, UNCHANGED passed
    PROVE  CalmInv'
<1>1. CASE Deliver
  BY <1>1, StatusDelivered, ModeDelivered
<1>2. ASSUME NEW f \in flows, Answered(f) PROVE CalmInv'
  <2>1. CASE ModeAnswered(f)
    BY <2>1, ModeStep
  <2>2. CASE SendAnswered(f)
    BY <2>2, SendEnds, SendGoes
  <2>3. CASE SpawnAnswered(f)
    BY <2>3, SpawnEnds
  <2>4. CASE ModelAnswered(f) \/ DefaultAnswered(f)
    BY <2>4, ModelEnds, DefaultEnds
  <2>5. CASE StopAnswered(f) \/ ListAnswered(f)
    BY <2>5, StopEnds, ListEnds
  <2>6. CASE \E stored \in BOOLEAN : ResolveAnswered(f, stored)
    BY <2>6, ResolveEnds
  <2>7. QED
    BY <1>2, <2>1, <2>2, <2>3, <2>4, <2>5, <2>6 DEF Answered
<1>3. QED
  BY <1>1, <1>2

LEMMA UserKeeps ==
    ASSUME CalmInv, LeftShape, UserSteps, ~Disturbed, Quiet \/ BeginsNothing, Passes
    PROVE  CalmInv'
<1>1. ASSUME NEW mode, SessionModeChange(mode) PROVE CalmInv'
  BY <1>1, ModeBegins
<1>2. ASSUME NEW mode, NEW prompt, Spawn(mode, prompt) PROVE CalmInv'
  BY <1>2, SpawnBegins
<1>3. ASSUME Send \/ Stop \/ Refresh PROVE CalmInv'
  BY <1>3, SendBegins, StopBegins, Refreshes
<1>4. ASSUME NEW pick, ModelChange(pick) PROVE CalmInv'
  BY <1>4, ModelBegins
<1>5. ASSUME NEW option, ResolveApproval(option) PROVE CalmInv'
  BY <1>5, ResolveBegins
<1>6. QED
  BY <1>1, <1>2, <1>3, <1>4, <1>5 DEF UserSteps

\* A window on nothing, on a task of an earlier run, and on a task attached.
LEMMA Starts ==
    ASSUME Init
    PROVE  Inv
<1>1. LeftShape
  BY PlanBudgets DEF Init, LeftShape
<1>2. /\ flows = {} /\ events = <<>> /\ passed = 0 /\ wire = "default" /\ perms = saved.perm
      /\ known = (left.start # "none") /\ plan = IF saved.plan THEN "pending" ELSE "off"
      /\ saved = [plan |-> left.start = "planned", perm |-> IF left.start \in {"none", "idle"} THEN Unset ELSE "default"]
      /\ agent = (IF left.start \in {"attached", "unlisted"} THEN ReadyAgent ELSE NoAgent)
      /\ roster = (IF left.start = "attached" THEN <<agent>> ELSE <<>>)
      /\ calm = (left.start # "unlisted")
  BY DEF Init
<1>3. /\ IsInfo(NoAgent) /\ NoAgent.handle = 0 /\ NoAgent.status = "none" /\ Gone(NoAgent.status)
      /\ IsInfo(ReadyAgent) /\ ReadyAgent.handle = 1 /\ ReadyAgent.status = "ready" /\ Live(ReadyAgent.status)
      /\ ReadyAgent # NoAgent
  BY DEF IsInfo, NoAgent, ReadyAgent, Live, Gone
<1>4. IsArmed(plan) = saved.plan /\ DiskShape /\ plan \in {"off", "pending", "active"}
  <2>1. DiskShape
    BY <1>2 DEF DiskShape
  <2>2. CASE saved.plan = TRUE
    <3>1. plan = "pending"
      BY <1>2, <2>2
    <3>2. QED
      BY <2>1, <2>2, <3>1 DEF IsArmed
  <2>3. CASE ~saved.plan
    <3>1. plan = "off"
      BY <1>2, <2>3
    <3>2. saved.plan = FALSE
      BY <2>1, <2>3 DEF DiskShape
    <3>3. IsArmed(plan) = saved.plan
      <4>1. IsArmed(plan) = FALSE
        BY <3>1 DEF IsArmed
      <4>2. QED
        BY <3>2, <4>1
    <3>4. QED
      BY <2>1, <3>1, <3>3
  <2>4. QED
    BY <2>1, <2>2, <2>3 DEF DiskShape
<1>5. AgentShape
  BY <1>2, <1>3 DEF AgentShape
<1>6. EventShape /\ DOMAIN events = {} /\ Hs(flows) = {} /\ FlowShape
  BY <1>2 DEF EventShape, ToSet, Hs, FlowShape
<1>7. ASSUME calm
      PROVE  IsList(roster) /\ ToSet(roster) \subseteq {agent} /\ (Live(agent.status) => agent \in ToSet(roster))
  <2>1. CASE left.start = "attached"
    <3>1. roster = <<agent>> /\ IsInfo(agent)
      BY <1>2, <1>3, <2>1
    <3>2. roster \in Seq({agent}) /\ DOMAIN roster = 1..1 /\ roster[1] = agent
      BY <3>1
    <3>3. ToSet(roster) = {agent}
      BY <3>2 DEF ToSet
    <3>4. QED
      BY <3>1, <3>2, <3>3 DEF IsList
  <2>2. CASE left.start # "attached"
    <3>1. roster = <<>> /\ agent = NoAgent
      BY <1>2, <1>7, <2>2
    <3>2. ToSet(roster) = {} /\ DOMAIN roster = {}
      BY <3>1 DEF ToSet
    <3>3. QED
      BY <1>3, <3>1, <3>2 DEF IsList, Live, Gone
  <2>3. QED
    BY <2>1, <2>2
<1>8. calm => Copies
  BY <1>5, <1>6, <1>7 DEF Copies, Fits, EventsHeal, Copy, Old, Right, Listed, AgentShape, IsInfo
<1>9. Saved
  <2>1. PermsAgree
    BY <1>2 DEF PermsAgree
  <2>2. Agrees
    BY <1>2, <1>3, <1>4 DEF Agrees, Live, Gone
  <2>3. QED
    BY <1>4, <2>1, <2>2 DEF Saved, PlanSaved, PermSaved, AgentTold
<1>10. Unknown
  BY <1>2, <1>3, <1>4, <1>6 DEF Unknown, Nobody, NoWords
<1>11. Words /\ Handled
  BY <1>6 DEF Words, Handled
<1>12. QED
  BY <1>1, <1>4, <1>5, <1>6, <1>8, <1>9, <1>10, <1>11 DEF Inv, CalmInv, Shape

LEMMA Steps ==
    ASSUME Inv, [Next]_vars
    PROVE  Inv'
<1>1. CASE UNCHANGED vars
  <2>1. UNCHANGED <<roster, perms, plan, choice, armed, busy, known, flows, agent, wire, saved, asking, events, picked, left, calm, passed>>
    BY <1>1 DEF vars, moving, window, host
  <2>2. LeftShape' = LeftShape
    BY <2>1 DEF LeftShape
  <2>3. ASSUME CalmInv PROVE CalmInv'
    <3>1. ModesKept /\ FlowShape' /\ Hs(flows') = Hs(flows)
      BY <2>1, <2>3 DEF ModesKept, CalmInv, Shape, FlowShape
    <3>2. QED
      BY <2>1, <2>3, <3>1, Still
  <2>4. QED
    BY <2>1, <2>2, <2>3 DEF Inv
<1>2. CASE Next
  <2>1. LeftShape'
    BY <1>2, LeftHost, LeftWindow, LeftUser DEF Next, Inv
  <2>2. ASSUME calm' PROVE CalmInv'
    <3>1. CASE /\ HostSteps \/ Deliver \/ \E f \in flows : Answered(f)
               /\ calm' = (calm /\ ~Disturbed) /\ UNCHANGED passed
      <4>1. CalmInv /\ LeftShape /\ ~Disturbed
        BY <2>2, <3>1 DEF Inv
      <4>2. QED
        BY <3>1, <4>1, HostKeeps, WindowKeeps
    <3>2. CASE UserSteps /\ calm' = (calm /\ ~Disturbed /\ (Quiet \/ BeginsNothing)) /\ Passes
      <4>1. CalmInv /\ LeftShape /\ ~Disturbed /\ (Quiet \/ BeginsNothing)
        BY <2>2, <3>2 DEF Inv
      <4>2. QED
        BY <3>2, <4>1, UserKeeps
    <3>3. QED
      BY <1>2, <3>1, <3>2 DEF Next, Passes
  <2>3. QED
    BY <2>1, <2>2 DEF Inv
<1>3. QED
  BY <1>1, <1>2


-----------------------------------------------------------------------------
(* The theorems.                                                           *)

LEMMA InvHolds == Spec => []Inv
  BY Starts, Steps, PTL DEF Spec

\* While one thing at a time is done to the task and nothing fails: what waits to be
\* delivered corrects every copy of the agent in the window that is wrong, no two
\* handlers are under way, and the one that is has changed as much of the chip, the
\* agent and the disk as its stage says (App.tsx, useAgentEvents, useSessionPlanMode).
THEOREM HandlersKeepTheirWord == Spec => [](calm => CalmInv)
<1>1. Inv => (calm => CalmInv)
  BY DEF Inv
<1>2. QED
  BY <1>1, InvHolds, PTL

LEMMA SavedWhenSettled ==
    ASSUME Inv
    PROVE  ModeSaved
<1> SUFFICES ASSUME Settled
             PROVE  IsArmed(plan) = saved.plan /\ (perms = saved.perm \/ (perms = Unset /\ saved.perm = DefaultMode))
  BY DEF ModeSaved
<1>1. CalmInv /\ Quiet
  BY DEF Inv, Settled
<1>2. QED
  BY <1>1, QuietFacts DEF PermsAgree

\* When all is answered and delivered, the next start of the task runs in the mode the
\* window shows: task_prefs keeps Plan and the permission (useSessionPlanMode's
\* persistPlanArmed, agent_set_permission_mode, handleSessionModeChange).
THEOREM ModeKept == Spec => []ModeSaved
<1>1. Inv => ModeSaved
  BY SavedWhenSettled
<1>2. QED
  BY <1>1, InvHolds, PTL

LEMMA ShownWhenSettled ==
    ASSUME Inv
    PROVE  ChipShown
<1> SUFFICES ASSUME Settled, Live(agent.status), Managed.handle = agent.handle, passed # agent.handle
             PROVE  Chip = DisplaySessionMode(wire = "plan", agent.perm)
  BY DEF ChipShown
<1>1. CalmInv /\ Quiet
  BY DEF Inv, Settled
<1>2. (wire = "plan") = IsArmed(plan)
  BY <1>1, QuietFacts DEF Agrees
<1>3. roster # <<>>
  <2>1. agent.handle # 0
    BY <1>1 DEF CalmInv, Shape, AgentShape, Live, Gone
  <2>2. QED
    BY <2>1 DEF Managed, NoAgent
<1>4. Copy(Managed)
  BY <1>1, <1>3, ShownCopy
<1>5. Managed.perm = agent.perm /\ ~Gone(Managed.status)
  BY <1>4 DEF Copy, Right, Live, Gone
<1>6. EffectivePermission = agent.perm
  BY <1>5 DEF EffectivePermission
<1>7. QED
  BY <1>2, <1>6 DEF Chip

\* When all is answered and delivered, the chip reads what the agent it shows does,
\* Plan or the permission it runs with, however the mode was changed: by the user, by
\* the agent, by a plan approved or a send that applies Plan again after an attach. The
\* one way around it is a mode changed while a dead handle is the one shown.
THEOREM ChipTellsTheAgent == Spec => []ChipShown
<1>1. Inv => ChipShown
  BY ShownWhenSettled
<1>2. QED
  BY <1>1, InvHolds, PTL

\* A message the user sent while the chip read Plan reaches an agent in Plan, unless
\* setMode failed and the user was warned (handleSend, ensurePlanModeForTurn).
THEOREM PromptsInPlan == Spec => PlannedPrompt
<1>1. Inv => \A f \in flows :
          /\ calm /\ f.kind = "send" /\ f.at = "prompt" /\ f.ans = "none" /\ f.shown # "off" /\ ~f.warned
          /\ \E g \in flows' : g = [f EXCEPT !.ans = "ok", !.info = g.info]
          => wire = "plan"
  <2> SUFFICES ASSUME Inv, NEW f \in flows, calm, f.kind = "send", f.at = "prompt", f.shown # "off", ~f.warned
               PROVE  wire = "plan"
    OBVIOUS
  <2>1. SendFlow(f)
    BY HandlerOf DEF Inv, Handler
  <2>2. f.stage = 5
    BY <2>1, StageOf DEF SendFlow
  <2>3. QED
    BY <2>1, <2>2 DEF SendFlow
<1>2. QED
  BY <1>1, InvHolds, PTL DEF PlannedPrompt
=============================================================================
