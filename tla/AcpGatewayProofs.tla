-------------------------- MODULE AcpGatewayProofs --------------------------
(***************************************************************************)
(* What holds of AcpGateway for any set of operations, notifications and   *)
(* reverse requests and any capacities: its types, where a caller that is  *)
(* owed a reply stands, that it implements RpcContract, that notifications *)
(* stay in order and that no reverse request is lost but by a thread the   *)
(* system refuses.                                                         *)
(***************************************************************************)
EXTENDS AcpGateway, SequenceTheorems, TLAPS

-----------------------------------------------------------------------------
(* The values that travel through the two queues.                          *)

\* The command send() builds for an operation is one of the channel's commands.
LEMMA CmdTyped ==
    ASSUME NEW o \in Ops
    PROVE  Cmd(KindOf(o), o) \in Commands
  BY DEF Cmd, KindOf, Commands, Ops

\* The Abandon of a timed-out call is one of the channel's commands.
LEMMA AbandonTyped ==
    ASSUME NEW c \in Calls
    PROVE  Cmd("abandon", c) \in Commands
  BY DEF Cmd, Commands

\* What the kind of a command tells of the operation it carries.
LEMMA CommandParts ==
    ASSUME NEW cmd \in Commands
    PROVE  /\ cmd.op \in Ops
           /\ cmd.kind \in {"call", "write", "kill", "abandon"}
           /\ cmd.kind \in {"call", "abandon"} => cmd.op \in Calls
           /\ cmd.kind = "write" => cmd.op \in Writes
           /\ cmd.kind = "kill" => cmd.op \in Kills
  BY DEF Commands, Ops

\* What the kind of a line of the agent tells of its payload.
LEMMA LineParts ==
    ASSUME NEW line \in Lines
    PROVE  /\ line.kind = "note" => line.n \in 1..MaxNotes
           /\ line.kind = "ask" => line.r \in Requests
           /\ line.kind = "answer" => line.c \in Calls /\ line.a \in Answers
  BY DEF Lines, BrokenLine

\* The lines the agent writes are lines.
LEMMA LinesTyped ==
    /\ \A n \in 1..MaxNotes : Note(n) \in Lines
    /\ \A r \in Requests : Ask(r) \in Lines
    /\ \A c \in Calls, a \in Answers : Answer(c, a) \in Lines
    /\ BrokenLine \in Lines
  BY DEF Lines, Note, Ask, Answer, BrokenLine

\* The bounded channel never holds more than its capacity.
LEMMA OfferTyped ==
    ASSUME NEW m \in 0..MaxNotes, Offer(m),
           notifyq \in Seq(0..MaxNotes), Len(notifyq) <= NotifyCap
    PROVE  notifyq' \in Seq(0..MaxNotes) /\ Len(notifyq') <= NotifyCap
<1>1. CASE Len(notifyq) < NotifyCap
  <2>1. notifyq' = Append(notifyq, m)
    BY <1>1 DEF Offer
  <2> QED
    BY <2>1, <1>1, CapsPositive
<1>2. CASE ~(Len(notifyq) < NotifyCap)
  BY <1>2 DEF Offer
<1> QED
  BY <1>1, <1>2

-----------------------------------------------------------------------------
(* Type correctness.                                                       *)

\* The gateway starts well typed.
LEMMA InitTypeOK == Init => TypeOK
<1> SUFFICES ASSUME Init
             PROVE  TypeOK
  OBVIOUS
<1>1. cmdq = <<>> /\ notifyq = <<>> /\ delivered = <<>> /\ stdout = <<>>
  BY DEF Init
<1>2. /\ cmdq \in Seq(Commands) /\ Len(cmdq) <= CmdCap
      /\ notifyq \in Seq(0..MaxNotes) /\ Len(notifyq) <= NotifyCap
      /\ delivered \in Seq(0..MaxNotes)
      /\ stdout \in Seq(Lines)
  BY <1>1, EmptySeq, CapsPositive
<1>3. /\ stage \in [Ops -> Stages]
      /\ outcome \in [Ops -> {"none", "ok", "timeout"} \cup Answers \cup Failures]
      /\ reply \in [Ops -> {"none", "ok"} \cup Answers \cup Failures]
      /\ token \in [Calls -> BOOLEAN]
      /\ answer \in [Calls -> {"none"} \cup Answers]
  BY DEF Init, Stages
<1>4. stalls \in 0..MaxStalls /\ nextNote \in 1..(MaxNotes + 1)
  BY CapsPositive DEF Init
<1> QED
  BY <1>2, <1>3, <1>4 DEF Init, TypeOK, WriterPcs, ReaderPcs

\* Every step of a caller, the writer, the reader, the host or the agent keeps the
\* types, and so the capacities of the two channels.
LEMMA NextTypeOK == TypeOK /\ [Next]_vars => TypeOK'
<1> SUFFICES ASSUME TypeOK, [Next]_vars
             PROVE  TypeOK'
  OBVIOUS
<1> USE CapsPositive, AnswersDecoded DEF TypeOK, Stages, WriterPcs, ReaderPcs,
        callerVars, writerVars, readerVars, uiVars, agentVars, Failures
<1>1. ASSUME NEW o \in Ops, Send(o)
      PROVE  TypeOK'
  BY <1>1, CmdTyped DEF Send
<1>2. ASSUME NEW o \in Ops, SendFails(o)
      PROVE  TypeOK'
  BY <1>2 DEF SendFails
<1>3. ASSUME NEW o \in Ops, Receive(o)
      PROVE  TypeOK'
  BY <1>3 DEF Receive
<1>4. ASSUME NEW c \in Calls, Expire(c)
      PROVE  TypeOK'
  BY <1>4 DEF Expire, Ops
<1>5. ASSUME NEW c \in Calls, MarkAbandoned(c)
      PROVE  TypeOK'
  BY <1>5 DEF MarkAbandoned, Ops
<1>6. ASSUME NEW c \in Calls, TrySendAbandon(c)
      PROVE  TypeOK'
  <2>1. CASE wpc # "gone" /\ Len(cmdq) < CmdCap
    <3>1. cmdq' = Append(cmdq, Cmd("abandon", c)) /\ UNCHANGED abandonLost
      BY <1>6, <2>1 DEF TrySendAbandon
    <3>2. cmdq' \in Seq(Commands) /\ Len(cmdq') <= CmdCap
      BY <3>1, <2>1, AbandonTyped
    <3> QED
      BY <1>6, <3>1, <3>2 DEF TrySendAbandon, Ops
  <2>2. CASE ~(wpc # "gone" /\ Len(cmdq) < CmdCap)
    BY <1>6, <2>2 DEF TrySendAbandon, Ops
  <2> QED
    BY <2>1, <2>2
<1>7. CASE TakeCommand
  <2>1. Head(cmdq) \in Commands /\ Tail(cmdq) \in Seq(Commands) /\ Len(Tail(cmdq)) <= CmdCap
    BY <1>7 DEF TakeCommand
  <2> QED
    BY <1>7, <2>1, CommandParts DEF TakeCommand
<1>8. CASE WriteLine
  BY <1>8 DEF WriteLine
<1>9. CASE WriteFails
  BY <1>9 DEF WriteFails
<1>10. CASE CheckToken
  BY <1>10 DEF CheckToken
<1>11. CASE InsertWaiter
  BY <1>11 DEF InsertWaiter
<1>12. CASE RecheckToken
  BY <1>12 DEF RecheckToken
<1>13. CASE FailAllSend
  BY <1>13 DEF FailAllSend, FailAllPending
<1>14. CASE WriterReports
  BY <1>14 DEF WriterReports, ReportClosed
<1>15. CASE KillDrains
  BY <1>15 DEF KillDrains, FailAllPending
<1>16. CASE KillReaps
  BY <1>16 DEF KillReaps
<1>17. CASE FinalDrain
  BY <1>17 DEF FinalDrain, FailAllPending
<1>18. CASE FinalReap
  BY <1>18 DEF FinalReap
<1>19. ASSUME rpc = "read", stdout # <<>>
       PROVE  Head(stdout) \in Lines /\ Tail(stdout) \in Seq(Lines)
  BY <1>19
<1>20. CASE ReadAnswer
  <2>1. Head(stdout) \in Lines /\ Tail(stdout) \in Seq(Lines) /\ Head(stdout).kind = "answer"
    BY <1>20, <1>19 DEF ReadAnswer, NextLine
  <2>2. Head(stdout).c \in Calls /\ Head(stdout).a \in Answers
    BY <2>1, LineParts
  <2>3. CASE Head(stdout).c \in pend
    BY <1>20, <2>1, <2>2, <2>3 DEF ReadAnswer, NextLine, Ops
  <2>4. CASE Head(stdout).c \notin pend
    BY <1>20, <2>1, <2>4, OfferTyped DEF ReadAnswer, NextLine, StrayResponse
  <2> QED
    BY <2>3, <2>4
<1>21. CASE ReadRequest
  BY <1>21, <1>19, LineParts DEF ReadRequest, NextLine
<1>22. CASE ReadNotification
  <2>1. /\ Head(stdout) \in Lines /\ Tail(stdout) \in Seq(Lines)
        /\ Head(stdout).kind = "note"
    BY <1>22, <1>19 DEF ReadNotification, NextLine
  <2>2. Head(stdout).n \in 0..MaxNotes
    BY <2>1, LineParts
  <2> QED
    BY <1>22, <2>1, <2>2, OfferTyped DEF ReadNotification, NextLine
<1>23. CASE ReadEnds
  BY <1>23, <1>19 DEF ReadEnds
<1>24. CASE ReaderReports
  BY <1>24 DEF ReaderReports, ReportClosed
<1>25. CASE ReaderDrains
  BY <1>25 DEF ReaderDrains, FailAllPending
<1>26. CASE DispatchNotification
  BY <1>26 DEF DispatchNotification
<1>27. ASSUME NEW r \in Requests, DispatchReverse(r)
       PROVE  TypeOK'
  BY <1>27 DEF DispatchReverse
<1>28. ASSUME NEW c \in Calls, NEW a \in Answers, AgentAnswers(c, a)
       PROVE  TypeOK'
  BY <1>28, LinesTyped DEF AgentAnswers
<1>29. CASE AgentNotifies
  BY <1>29, LinesTyped DEF AgentNotifies
<1>30. ASSUME NEW r \in Requests, AgentAsks(r)
       PROVE  TypeOK'
  BY <1>30, LinesTyped DEF AgentAsks
<1>31. CASE AgentGarbles
  BY <1>31, LinesTyped DEF AgentGarbles
<1>32. CASE AgentExits
  BY <1>32 DEF AgentExits
<1>34. CASE AgentStalls
  BY <1>34 DEF AgentStalls
<1>35. CASE AgentDrains
  BY <1>35 DEF AgentDrains
<1>33. CASE UNCHANGED vars
  BY <1>33 DEF vars
<1> QED
  BY <1>1, <1>2, <1>3, <1>4, <1>5, <1>6, <1>7, <1>8, <1>9, <1>10, <1>11, <1>12,
     <1>13, <1>14, <1>15, <1>16, <1>17, <1>18, <1>20, <1>21, <1>22, <1>23,
     <1>24, <1>25, <1>26, <1>27, <1>28, <1>29, <1>30, <1>31, <1>32, <1>33, <1>34, <1>35
  DEF Next, Caller, Deadline, Writer, Reader, Agent

\* Every behaviour of the gateway is well typed: in particular neither bounded
\* channel ever exceeds its capacity, for any capacities and any traffic.
THEOREM TypeCorrect == Spec => []TypeOK
<1>1. Init => TypeOK
  BY InitTypeOK
<1>2. TypeOK /\ [Next]_vars => TypeOK'
  BY NextTypeOK
<1> QED
  BY <1>1, <1>2, PTL DEF Spec

-----------------------------------------------------------------------------
(* The inductive invariant.  At any time an operation whose caller is still *)
(* owed a reply is in exactly one place: in the command queue, in the hand  *)
(* of the writer, or in the pending map; everywhere else its reply is final. *)

Holding == {"write", "check", "insert", "recheck", "killDrain", "killReap"}

\* o has been sent, has not been answered and is not in the pending map.
Fresh(o) == stage[o] # "idle" /\ reply[o] = "none" /\ o \notin pend

QueueFresh ==
    \A i \in 1..Len(cmdq) : cmdq[i].kind # "abandon" =>
      /\ Fresh(cmdq[i].op)
      /\ cmdq[i].op \notin inbox
      /\ wpc \in Holding => wop # cmdq[i].op
      /\ \A j \in 1..Len(cmdq) :
           cmdq[j].kind # "abandon" /\ cmdq[j].op = cmdq[i].op => j = i

HandFresh ==
    /\ wpc \in Holding => wop \in Ops /\ stage[wop] # "idle"
    /\ wpc \in Holding \ {"recheck"} => Fresh(wop)
    /\ wpc = "write" => wop \notin inbox
    /\ wpc \in {"check", "insert", "recheck"} => wop \in inbox

PendFresh ==
    \A c \in pend : stage[c] # "idle" /\ reply[c] = "none" /\ c \in inbox

IdleFresh ==
    \A o \in Ops : stage[o] = "idle" => reply[o] = "none" /\ o \notin inbox

LoopLeft == wpc \in {"finalReap", "gone"} => pend = {}

TokenAccounted ==
    \A c \in pend : token[c] =>
      \/ wpc = "recheck" /\ wop = c
      \/ stage[c] = "marked"
      \/ \E i \in 1..Len(cmdq) : cmdq[i] = Cmd("abandon", c)
      \/ c \in abandonLost

OutcomePending == \A o \in Ops : stage[o] # "done" => outcome[o] = "none"

LinesMatch ==
    \A i \in 1..Len(stdout) :
      stdout[i].kind = "answer" => answer[stdout[i].c] = stdout[i].a

RepliesMatch ==
    \A c \in Calls : reply[c] # "ok" /\ (reply[c] \in Answers => reply[c] = answer[c])

IInv ==
    /\ TypeOK
    /\ QueueFresh /\ HandFresh /\ PendFresh /\ IdleFresh
    /\ LoopLeft /\ TokenAccounted /\ OutcomePending
    /\ LinesMatch /\ RepliesMatch

-----------------------------------------------------------------------------
(* Reading and writing the two queues.                                     *)

\* What a send leaves in a queue.
LEMMA AppendParts ==
    ASSUME NEW S, NEW q \in Seq(S), NEW x \in S
    PROVE  /\ Append(q, x) \in Seq(S)
           /\ Len(Append(q, x)) = Len(q) + 1
           /\ Len(q) \in Nat
           /\ \A i \in 1..Len(q) : Append(q, x)[i] = q[i]
           /\ Append(q, x)[Len(q) + 1] = x
  OBVIOUS

\* What a receive leaves in a queue, and what it returns.
LEMMA TailParts ==
    ASSUME NEW S, NEW q \in Seq(S), q # <<>>
    PROVE  /\ Tail(q) \in Seq(S)
           /\ Len(q) \in Nat \ {0}
           /\ Len(Tail(q)) = Len(q) - 1
           /\ \A i \in 1..Len(Tail(q)) : Tail(q)[i] = q[i + 1] /\ i + 1 \in 1..Len(q)
           /\ Head(q) = q[1] /\ Head(q) \in S
  BY HeadTailProperties, EmptySeq

\* The invariant holds before the first call.
LEMMA InitIInv == Init => IInv
<1> SUFFICES ASSUME Init
             PROVE  IInv
  OBVIOUS
<1>1. TypeOK
  BY InitTypeOK
<1>2. Len(cmdq) = 0 /\ Len(stdout) = 0
  BY EmptySeq DEF Init
<1>3. QueueFresh /\ HandFresh /\ PendFresh /\ IdleFresh
  BY <1>2 DEF Init, QueueFresh, HandFresh, PendFresh, IdleFresh, Holding
<1>4. LoopLeft /\ TokenAccounted /\ OutcomePending
  BY DEF Init, LoopLeft, TokenAccounted, OutcomePending
<1>5. LinesMatch /\ RepliesMatch
  BY <1>2, AnswersDecoded DEF Init, LinesMatch, RepliesMatch, Ops
<1> QED
  BY <1>1, <1>3, <1>4, <1>5 DEF IInv

\* Reading a line leaves the remaining answers the agent's own.
LEMMA TailKeepsLines ==
    ASSUME TypeOK, LinesMatch, stdout # <<>>, stdout' = Tail(stdout), answer' = answer
    PROVE  LinesMatch'
<1>1. stdout \in Seq(Lines)
  BY DEF TypeOK
<1> QED
  BY <1>1, TailParts DEF LinesMatch

\* Writing a line that matches what the agent answered keeps every answer matched.
LEMMA AppendKeepsLines ==
    ASSUME TypeOK, LinesMatch, NEW x \in Lines, stdout' = Append(stdout, x),
           x.kind = "answer" => answer'[x.c] = x.a,
           \A i \in 1..Len(stdout) : stdout[i].kind = "answer" =>
             answer'[stdout[i].c] = answer[stdout[i].c]
    PROVE  LinesMatch'
<1>1. stdout \in Seq(Lines)
  BY DEF TypeOK
<1>2. /\ Len(stdout') = Len(stdout) + 1 /\ Len(stdout) \in Nat
      /\ \A i \in 1..Len(stdout) : stdout'[i] = stdout[i]
      /\ stdout'[Len(stdout) + 1] = x
  BY <1>1, AppendParts
<1>3. ASSUME NEW i \in 1..Len(stdout'), stdout'[i].kind = "answer"
      PROVE  answer'[stdout'[i].c] = stdout'[i].a
  <2>1. CASE i \in 1..Len(stdout)
    BY <1>2, <1>3, <2>1 DEF LinesMatch
  <2>2. CASE i = Len(stdout) + 1
    BY <1>2, <1>3, <2>2
  <2> QED
    BY <1>2, <2>1, <2>2
<1> QED
  BY <1>3 DEF LinesMatch

\* Every step keeps the invariant: an operation moves from the command queue to the
\* writer's hand and from there to the pending map, and is answered on the way out.
LEMMA NextIInv == IInv /\ [Next]_vars => IInv'
<1> SUFFICES ASSUME IInv, [Next]_vars
             PROVE  IInv'
  OBVIOUS
<1>T. TypeOK /\ TypeOK'
  BY NextTypeOK DEF IInv
<1> DEFINE Core  == /\ QueueFresh /\ HandFresh /\ PendFresh /\ IdleFresh
                    /\ LoopLeft /\ TokenAccounted /\ OutcomePending /\ RepliesMatch
           Parts == Core /\ LinesMatch
<1>P. Core /\ LinesMatch
  BY DEF IInv
<1>Q. /\ cmdq \in Seq(Commands) /\ Len(cmdq) \in Nat
      /\ \A i \in 1..Len(cmdq) : cmdq[i] \in Commands /\ cmdq[i].op \in Ops
  BY <1>T, CommandParts DEF TypeOK
<1>S. /\ stdout \in Seq(Lines) /\ Len(stdout) \in Nat
      /\ \A i \in 1..Len(stdout) : stdout[i] \in Lines
  BY <1>T DEF TypeOK
<1> USE DEF callerVars, writerVars, readerVars, uiVars, agentVars
<1>1. ASSUME NEW o \in Ops, Send(o)
      PROVE  Parts'
  <2>0. /\ Len(cmdq') = Len(cmdq) + 1
        /\ \A i \in 1..Len(cmdq) : cmdq'[i] = cmdq[i]
        /\ cmdq'[Len(cmdq) + 1] = Cmd(KindOf(o), o)
    BY <1>1, <1>Q, CmdTyped, AbandonTyped, AppendParts DEF Send
  <2>1. KindOf(o) # "abandon" /\ Cmd(KindOf(o), o).kind = KindOf(o) /\ Cmd(KindOf(o), o).op = o
    BY DEF KindOf, Cmd
  <2>2. QueueFresh'
    BY <1>1, <1>T, <1>P, <1>Q, <2>0, <2>1
    DEF Send, QueueFresh, HandFresh, PendFresh, IdleFresh, Fresh, Holding, TypeOK
  <2>3. HandFresh' /\ PendFresh' /\ IdleFresh'
    BY <1>1, <1>T, <1>P
    DEF Send, HandFresh, PendFresh, IdleFresh, Fresh, Holding, TypeOK
  <2>4. TokenAccounted'
    BY <1>1, <1>T, <1>P, <1>Q, <2>0 DEF Send, TokenAccounted, PendFresh, TypeOK, Ops
  <2>5. LoopLeft' /\ OutcomePending' /\ RepliesMatch' /\ LinesMatch'
    BY <1>1, <1>T, <1>P
    DEF Send, LoopLeft, OutcomePending, RepliesMatch, LinesMatch, TypeOK
  <2> QED
    BY <2>2, <2>3, <2>4, <2>5
<1>2. ASSUME NEW o \in Ops, SendFails(o)
      PROVE  Parts'
  BY <1>2, <1>T, <1>P, OpsDisjoint, AnswersDecoded
  DEF SendFails, LinesMatch, QueueFresh, HandFresh, PendFresh, IdleFresh,
      LoopLeft, TokenAccounted, OutcomePending, RepliesMatch, Fresh, Holding,
      TypeOK, Ops
<1>3. ASSUME NEW o \in Ops, Receive(o)
      PROVE  Parts'
  BY <1>3, <1>T, <1>P, OpsDisjoint, AnswersDecoded
  DEF Receive, LinesMatch, QueueFresh, HandFresh, PendFresh, IdleFresh,
      LoopLeft, TokenAccounted, OutcomePending, RepliesMatch, Fresh, Holding,
      TypeOK, Ops
<1>4. ASSUME NEW c \in Calls, Expire(c)
      PROVE  Parts'
  BY <1>4, <1>T, <1>P, OpsDisjoint, AnswersDecoded
  DEF Expire, LinesMatch, QueueFresh, HandFresh, PendFresh, IdleFresh,
      LoopLeft, TokenAccounted, OutcomePending, RepliesMatch, Fresh, Holding,
      TypeOK, Ops
<1>5. ASSUME NEW c \in Calls, MarkAbandoned(c)
      PROVE  Parts'
  BY <1>5, <1>T, <1>P, OpsDisjoint, AnswersDecoded
  DEF MarkAbandoned, LinesMatch, QueueFresh, HandFresh, PendFresh, IdleFresh,
      LoopLeft, TokenAccounted, OutcomePending, RepliesMatch, Fresh, Holding,
      TypeOK, Ops
<1>6. ASSUME NEW c \in Calls, TrySendAbandon(c)
      PROVE  Parts'
  <2>1. CASE UNCHANGED cmdq
    BY <1>6, <1>T, <1>P, <2>1
    DEF TrySendAbandon, QueueFresh, HandFresh, PendFresh, IdleFresh, LoopLeft,
        TokenAccounted, OutcomePending, RepliesMatch, LinesMatch, Fresh, Holding,
        TypeOK, Ops
  <2>2. CASE cmdq' = Append(cmdq, Cmd("abandon", c))
    <3>1. /\ Len(cmdq') = Len(cmdq) + 1
          /\ \A i \in 1..Len(cmdq) : cmdq'[i] = cmdq[i]
          /\ cmdq'[Len(cmdq) + 1] = Cmd("abandon", c)
      BY <2>2, <1>Q, AbandonTyped, AppendParts
    <3>2. Cmd("abandon", c).kind = "abandon"
      BY DEF Cmd
    <3>3. \A i \in 1..Len(cmdq') : cmdq'[i].kind # "abandon" => i \in 1..Len(cmdq)
      BY <3>1, <3>2, <1>Q
    <3>4. QueueFresh'
      <4>1. /\ UNCHANGED <<reply, pend, inbox, wpc, wop>>
            /\ stage' = [stage EXCEPT ![c] = "done"]
        BY <1>6 DEF TrySendAbandon
      <4>2. \A o \in Ops : Fresh(o) => Fresh(o)'
        BY <1>T, <4>1 DEF Fresh, TypeOK, Ops
      <4>3. \A i \in 1..Len(cmdq') : cmdq'[i].kind # "abandon" =>
              i \in 1..Len(cmdq) /\ cmdq'[i] = cmdq[i] /\ cmdq[i].op \in Ops
        BY <1>Q, <3>1, <3>3
      <4> QED
        BY <1>P, <4>1, <4>2, <4>3 DEF QueueFresh
    <3>5. TokenAccounted'
      <4> SUFFICES ASSUME NEW d \in pend', token'[d]
                   PROVE  \/ wpc' = "recheck" /\ wop' = d
                          \/ stage'[d] = "marked"
                          \/ \E i \in 1..Len(cmdq') : cmdq'[i] = Cmd("abandon", d)
                          \/ d \in abandonLost'
        BY DEF TokenAccounted
      <4>1. CASE d = c
        BY <1>Q, <3>1, <4>1
      <4>2. CASE d # c
        <5>1. /\ UNCHANGED <<pend, token, wpc, wop>> /\ abandonLost \subseteq abandonLost'
              /\ stage'[d] = stage[d]
          BY <1>6, <1>T, <4>2 DEF TrySendAbandon, TypeOK, Ops
        <5>2. \A i \in 1..Len(cmdq) : i \in 1..Len(cmdq') /\ cmdq'[i] = cmdq[i]
          BY <1>Q, <3>1
        <5> QED
          BY <1>P, <5>1, <5>2 DEF TokenAccounted
      <4> QED
        BY <4>1, <4>2
    <3>6. HandFresh' /\ PendFresh' /\ IdleFresh' /\ LoopLeft'
      BY <1>6, <1>T, <1>P
      DEF TrySendAbandon, HandFresh, PendFresh, IdleFresh, LoopLeft, Fresh,
          Holding, TypeOK, Ops
    <3>7. OutcomePending' /\ RepliesMatch' /\ LinesMatch'
      BY <1>6, <1>T, <1>P
      DEF TrySendAbandon, OutcomePending, RepliesMatch, LinesMatch, TypeOK, Ops
    <3> QED
      BY <3>4, <3>5, <3>6, <3>7
  <2> QED
    BY <1>6, <2>1, <2>2 DEF TrySendAbandon
<1>7. ASSUME TakeCommand
      PROVE  Parts'
  <2>0. /\ cmdq # <<>> /\ Head(cmdq) = cmdq[1] /\ Len(cmdq') = Len(cmdq) - 1
        /\ Len(cmdq) \in Nat \ {0}
        /\ \A i \in 1..Len(cmdq') : cmdq'[i] = cmdq[i + 1] /\ i + 1 \in 1..Len(cmdq)
        /\ Head(cmdq) \in Commands
    BY <1>7, <1>Q, TailParts DEF TakeCommand
  <2>1. QueueFresh'
    BY <1>7, <1>T, <1>P, <1>Q, OpsDisjoint, AnswersDecoded, <2>0, CommandParts
    DEF TakeCommand, QueueFresh, HandFresh, PendFresh, IdleFresh, Fresh, Holding, TypeOK, Ops
  <2>2. HandFresh'
    BY <1>7, <1>T, <1>P, <1>Q, OpsDisjoint, AnswersDecoded, <2>0, CommandParts
    DEF TakeCommand, HandFresh, QueueFresh, PendFresh, IdleFresh, Fresh, Holding, TypeOK, Ops
  <2>3. PendFresh'
    BY <1>7, <1>T, <1>P, <1>Q, OpsDisjoint, AnswersDecoded, <2>0, CommandParts
    DEF TakeCommand, PendFresh, HandFresh, Fresh, Holding, TypeOK, Ops
  <2>4. IdleFresh'
    BY <1>7, <1>T, <1>P, <1>Q, OpsDisjoint, AnswersDecoded, <2>0, CommandParts
    DEF TakeCommand, IdleFresh, PendFresh, HandFresh, QueueFresh, Fresh, Holding, TypeOK, Ops
  <2>5. LoopLeft'
    BY <1>7, <1>T, <1>P, <1>Q, OpsDisjoint, AnswersDecoded, <2>0, CommandParts
    DEF TakeCommand, LoopLeft, TypeOK, Ops
  <2>6. TokenAccounted'
    <3> SUFFICES ASSUME NEW c \in pend', token'[c], stage'[c] # "marked",
                        c \notin abandonLost'
                 PROVE  \E i \in 1..Len(cmdq') : cmdq'[i] = Cmd("abandon", c)
      BY DEF TokenAccounted
    <3>1. c \in pend /\ wpc = "recv" /\ token[c] /\ stage[c] # "marked" /\ c \notin abandonLost
      BY <1>7 DEF TakeCommand
    <3>2. PICK i \in 1..Len(cmdq) : cmdq[i] = Cmd("abandon", c)
      BY <1>P, <3>1 DEF TokenAccounted
    <3>3. i # 1
      <4>1. CASE Head(cmdq) = Cmd("abandon", c)
        BY <1>7, <4>1 DEF TakeCommand, Cmd
      <4> QED
        BY <2>0, <3>2, <4>1
    <3>4. i - 1 \in 1..Len(cmdq') /\ cmdq'[i - 1] = cmdq[i]
      BY <2>0, <3>2, <3>3
    <3> QED
      BY <3>2, <3>4
  <2>7. OutcomePending'
    BY <1>7, <1>T, <1>P, <1>Q, OpsDisjoint, AnswersDecoded, <2>0, CommandParts
    DEF TakeCommand, OutcomePending, TypeOK, Ops
  <2>8. RepliesMatch'
    BY <1>7, <1>T, <1>P, <1>Q, OpsDisjoint, AnswersDecoded, <2>0, CommandParts
    DEF TakeCommand, RepliesMatch, PendFresh, TypeOK, Ops
  <2>9. LinesMatch'
    BY <1>7, <1>P DEF TakeCommand, LinesMatch
  <2> QED
    BY <2>1, <2>2, <2>3, <2>4, <2>5, <2>6, <2>7, <2>8, <2>9
<1>8. ASSUME WriteLine
      PROVE  Parts'
  <2>1. QueueFresh'
    BY <1>8, <1>T, <1>P, <1>Q, OpsDisjoint, AnswersDecoded
    DEF WriteLine, QueueFresh, HandFresh, PendFresh, IdleFresh, Fresh, Holding, TypeOK, Ops
  <2>2. HandFresh'
    BY <1>8, <1>T, <1>P, <1>Q, OpsDisjoint, AnswersDecoded
    DEF WriteLine, HandFresh, QueueFresh, PendFresh, IdleFresh, Fresh, Holding, TypeOK, Ops
  <2>3. PendFresh'
    BY <1>8, <1>T, <1>P, <1>Q, OpsDisjoint, AnswersDecoded
    DEF WriteLine, PendFresh, HandFresh, Fresh, Holding, TypeOK, Ops
  <2>4. IdleFresh'
    BY <1>8, <1>T, <1>P, <1>Q, OpsDisjoint, AnswersDecoded
    DEF WriteLine, IdleFresh, PendFresh, HandFresh, QueueFresh, Fresh, Holding, TypeOK, Ops
  <2>5. LoopLeft'
    BY <1>8, <1>T, <1>P, <1>Q, OpsDisjoint, AnswersDecoded
    DEF WriteLine, LoopLeft, TypeOK, Ops
  <2>6. TokenAccounted'
    BY <1>8, <1>T, <1>P, <1>Q, OpsDisjoint, AnswersDecoded
    DEF WriteLine, TokenAccounted, PendFresh, TypeOK, Ops
  <2>7. OutcomePending'
    BY <1>8, <1>T, <1>P, <1>Q, OpsDisjoint, AnswersDecoded
    DEF WriteLine, OutcomePending, TypeOK, Ops
  <2>8. RepliesMatch'
    BY <1>8, <1>T, <1>P, <1>Q, OpsDisjoint, AnswersDecoded
    DEF WriteLine, RepliesMatch, PendFresh, TypeOK, Ops
  <2>9. LinesMatch'
    BY <1>8, <1>P DEF WriteLine, LinesMatch
  <2> QED
    BY <2>1, <2>2, <2>3, <2>4, <2>5, <2>6, <2>7, <2>8, <2>9
<1>9. ASSUME WriteFails
      PROVE  Parts'
  BY <1>9, <1>T, <1>P, OpsDisjoint, AnswersDecoded
  DEF WriteFails, LinesMatch, QueueFresh, HandFresh, PendFresh, IdleFresh,
      LoopLeft, TokenAccounted, OutcomePending, RepliesMatch, Fresh, Holding,
      TypeOK, Ops
<1>10. ASSUME CheckToken
      PROVE  Parts'
  BY <1>10, <1>T, <1>P, OpsDisjoint, AnswersDecoded
  DEF CheckToken, LinesMatch, QueueFresh, HandFresh, PendFresh, IdleFresh,
      LoopLeft, TokenAccounted, OutcomePending, RepliesMatch, Fresh, Holding,
      TypeOK, Ops
<1>11. ASSUME InsertWaiter
      PROVE  Parts'
  BY <1>11, <1>T, <1>P, OpsDisjoint, AnswersDecoded
  DEF InsertWaiter, LinesMatch, QueueFresh, HandFresh, PendFresh, IdleFresh,
      LoopLeft, TokenAccounted, OutcomePending, RepliesMatch, Fresh, Holding,
      TypeOK, Ops
<1>12. ASSUME RecheckToken
      PROVE  Parts'
  <2>1. QueueFresh'
    BY <1>12, <1>T, <1>P, <1>Q, OpsDisjoint, AnswersDecoded
    DEF RecheckToken, QueueFresh, HandFresh, PendFresh, IdleFresh, Fresh, Holding, TypeOK, Ops
  <2>2. HandFresh'
    BY <1>12, <1>T, <1>P, <1>Q, OpsDisjoint, AnswersDecoded
    DEF RecheckToken, HandFresh, QueueFresh, PendFresh, IdleFresh, Fresh, Holding, TypeOK, Ops
  <2>3. PendFresh'
    BY <1>12, <1>T, <1>P, <1>Q, OpsDisjoint, AnswersDecoded
    DEF RecheckToken, PendFresh, HandFresh, Fresh, Holding, TypeOK, Ops
  <2>4. IdleFresh'
    BY <1>12, <1>T, <1>P, <1>Q, OpsDisjoint, AnswersDecoded
    DEF RecheckToken, IdleFresh, PendFresh, HandFresh, QueueFresh, Fresh, Holding, TypeOK, Ops
  <2>5. LoopLeft'
    BY <1>12, <1>T, <1>P, <1>Q, OpsDisjoint, AnswersDecoded
    DEF RecheckToken, LoopLeft, TypeOK, Ops
  <2>6. TokenAccounted'
    BY <1>12, <1>T, <1>P, <1>Q, OpsDisjoint, AnswersDecoded
    DEF RecheckToken, TokenAccounted, PendFresh, TypeOK, Ops
  <2>7. OutcomePending'
    BY <1>12, <1>T, <1>P, <1>Q, OpsDisjoint, AnswersDecoded
    DEF RecheckToken, OutcomePending, TypeOK, Ops
  <2>8. RepliesMatch'
    BY <1>12, <1>T, <1>P, <1>Q, OpsDisjoint, AnswersDecoded
    DEF RecheckToken, RepliesMatch, PendFresh, TypeOK, Ops
  <2>9. LinesMatch'
    BY <1>12, <1>P DEF RecheckToken, LinesMatch
  <2> QED
    BY <2>1, <2>2, <2>3, <2>4, <2>5, <2>6, <2>7, <2>8, <2>9
<1>13. ASSUME FailAllSend
      PROVE  Parts'
  <2>1. QueueFresh'
    BY <1>13, <1>T, <1>P, <1>Q, OpsDisjoint, AnswersDecoded
    DEF FailAllSend, FailAllPending, QueueFresh, HandFresh, PendFresh, IdleFresh, Fresh, Holding, TypeOK, Ops
  <2>2. HandFresh'
    BY <1>13, <1>T, <1>P, <1>Q, OpsDisjoint, AnswersDecoded
    DEF FailAllSend, FailAllPending, HandFresh, QueueFresh, PendFresh, IdleFresh, Fresh, Holding, TypeOK, Ops
  <2>3. PendFresh'
    BY <1>13, <1>T, <1>P, <1>Q, OpsDisjoint, AnswersDecoded
    DEF FailAllSend, FailAllPending, PendFresh, HandFresh, Fresh, Holding, TypeOK, Ops
  <2>4. IdleFresh'
    BY <1>13, <1>T, <1>P, <1>Q, OpsDisjoint, AnswersDecoded
    DEF FailAllSend, FailAllPending, IdleFresh, PendFresh, HandFresh, QueueFresh, Fresh, Holding, TypeOK, Ops
  <2>5. LoopLeft'
    BY <1>13, <1>T, <1>P, <1>Q, OpsDisjoint, AnswersDecoded
    DEF FailAllSend, FailAllPending, LoopLeft, TypeOK, Ops
  <2>6. TokenAccounted'
    BY <1>13, <1>T, <1>P, <1>Q, OpsDisjoint, AnswersDecoded
    DEF FailAllSend, FailAllPending, TokenAccounted, PendFresh, TypeOK, Ops
  <2>7. OutcomePending'
    BY <1>13, <1>T, <1>P, <1>Q, OpsDisjoint, AnswersDecoded
    DEF FailAllSend, FailAllPending, OutcomePending, TypeOK, Ops
  <2>8. RepliesMatch'
    BY <1>13, <1>T, <1>P, <1>Q, OpsDisjoint, AnswersDecoded
    DEF FailAllSend, FailAllPending, RepliesMatch, PendFresh, TypeOK, Ops
  <2>9. LinesMatch'
    BY <1>13, <1>P DEF FailAllSend, FailAllPending, LinesMatch
  <2> QED
    BY <2>1, <2>2, <2>3, <2>4, <2>5, <2>6, <2>7, <2>8, <2>9
<1>14. ASSUME WriterReports
      PROVE  Parts'
  BY <1>14, <1>T, <1>P, OpsDisjoint, AnswersDecoded
  DEF WriterReports, ReportClosed, LinesMatch, QueueFresh, HandFresh, PendFresh, IdleFresh,
      LoopLeft, TokenAccounted, OutcomePending, RepliesMatch, Fresh, Holding,
      TypeOK, Ops
<1>15. ASSUME KillDrains
      PROVE  Parts'
  <2>1. QueueFresh'
    BY <1>15, <1>T, <1>P, <1>Q, OpsDisjoint, AnswersDecoded
    DEF KillDrains, FailAllPending, QueueFresh, HandFresh, PendFresh, IdleFresh, Fresh, Holding, TypeOK, Ops
  <2>2. HandFresh'
    BY <1>15, <1>T, <1>P, <1>Q, OpsDisjoint, AnswersDecoded
    DEF KillDrains, FailAllPending, HandFresh, QueueFresh, PendFresh, IdleFresh, Fresh, Holding, TypeOK, Ops
  <2>3. PendFresh'
    BY <1>15, <1>T, <1>P, <1>Q, OpsDisjoint, AnswersDecoded
    DEF KillDrains, FailAllPending, PendFresh, HandFresh, Fresh, Holding, TypeOK, Ops
  <2>4. IdleFresh'
    BY <1>15, <1>T, <1>P, <1>Q, OpsDisjoint, AnswersDecoded
    DEF KillDrains, FailAllPending, IdleFresh, PendFresh, HandFresh, QueueFresh, Fresh, Holding, TypeOK, Ops
  <2>5. LoopLeft'
    BY <1>15, <1>T, <1>P, <1>Q, OpsDisjoint, AnswersDecoded
    DEF KillDrains, FailAllPending, LoopLeft, TypeOK, Ops
  <2>6. TokenAccounted'
    BY <1>15, <1>T, <1>P, <1>Q, OpsDisjoint, AnswersDecoded
    DEF KillDrains, FailAllPending, TokenAccounted, PendFresh, TypeOK, Ops
  <2>7. OutcomePending'
    BY <1>15, <1>T, <1>P, <1>Q, OpsDisjoint, AnswersDecoded
    DEF KillDrains, FailAllPending, OutcomePending, TypeOK, Ops
  <2>8. RepliesMatch'
    BY <1>15, <1>T, <1>P, <1>Q, OpsDisjoint, AnswersDecoded
    DEF KillDrains, FailAllPending, RepliesMatch, PendFresh, TypeOK, Ops
  <2>9. LinesMatch'
    BY <1>15, <1>P DEF KillDrains, FailAllPending, LinesMatch
  <2> QED
    BY <2>1, <2>2, <2>3, <2>4, <2>5, <2>6, <2>7, <2>8, <2>9
<1>16. ASSUME KillReaps
      PROVE  Parts'
  BY <1>16, <1>T, <1>P, OpsDisjoint, AnswersDecoded
  DEF KillReaps, LinesMatch, QueueFresh, HandFresh, PendFresh, IdleFresh,
      LoopLeft, TokenAccounted, OutcomePending, RepliesMatch, Fresh, Holding,
      TypeOK, Ops
<1>17. ASSUME FinalDrain
      PROVE  Parts'
  <2>1. QueueFresh'
    BY <1>17, <1>T, <1>P, <1>Q, OpsDisjoint, AnswersDecoded
    DEF FinalDrain, FailAllPending, QueueFresh, HandFresh, PendFresh, IdleFresh, Fresh, Holding, TypeOK, Ops
  <2>2. HandFresh'
    BY <1>17, <1>T, <1>P, <1>Q, OpsDisjoint, AnswersDecoded
    DEF FinalDrain, FailAllPending, HandFresh, QueueFresh, PendFresh, IdleFresh, Fresh, Holding, TypeOK, Ops
  <2>3. PendFresh'
    BY <1>17, <1>T, <1>P, <1>Q, OpsDisjoint, AnswersDecoded
    DEF FinalDrain, FailAllPending, PendFresh, HandFresh, Fresh, Holding, TypeOK, Ops
  <2>4. IdleFresh'
    BY <1>17, <1>T, <1>P, <1>Q, OpsDisjoint, AnswersDecoded
    DEF FinalDrain, FailAllPending, IdleFresh, PendFresh, HandFresh, QueueFresh, Fresh, Holding, TypeOK, Ops
  <2>5. LoopLeft'
    BY <1>17, <1>T, <1>P, <1>Q, OpsDisjoint, AnswersDecoded
    DEF FinalDrain, FailAllPending, LoopLeft, TypeOK, Ops
  <2>6. TokenAccounted'
    BY <1>17, <1>T, <1>P, <1>Q, OpsDisjoint, AnswersDecoded
    DEF FinalDrain, FailAllPending, TokenAccounted, PendFresh, TypeOK, Ops
  <2>7. OutcomePending'
    BY <1>17, <1>T, <1>P, <1>Q, OpsDisjoint, AnswersDecoded
    DEF FinalDrain, FailAllPending, OutcomePending, TypeOK, Ops
  <2>8. RepliesMatch'
    BY <1>17, <1>T, <1>P, <1>Q, OpsDisjoint, AnswersDecoded
    DEF FinalDrain, FailAllPending, RepliesMatch, PendFresh, TypeOK, Ops
  <2>9. LinesMatch'
    BY <1>17, <1>P DEF FinalDrain, FailAllPending, LinesMatch
  <2> QED
    BY <2>1, <2>2, <2>3, <2>4, <2>5, <2>6, <2>7, <2>8, <2>9
<1>18. ASSUME FinalReap
      PROVE  Parts'
  <2>1. pend = {} /\ pend' = {} /\ Len(cmdq') = 0 /\ wpc' = "gone"
    BY <1>18, <1>P, EmptySeq DEF FinalReap, LoopLeft
  <2>2. ASSUME NEW o \in Ops, reply'[o] # reply[o]
        PROVE  stage[o] # "idle" /\ reply'[o] = "recvFailed"
    <3>1. PICK i \in DOMAIN cmdq : cmdq[i] = Cmd(KindOf(o), o)
      BY <1>18, <2>2, <1>T DEF FinalReap, TypeOK
    <3>2. cmdq[i].kind # "abandon" /\ cmdq[i].op = o /\ i \in 1..Len(cmdq)
      BY <3>1, <1>Q DEF Cmd, KindOf
    <3> QED
      BY <1>18, <1>P, <3>1, <3>2 DEF FinalReap, QueueFresh, Fresh
  <2>3. QueueFresh' /\ PendFresh' /\ TokenAccounted' /\ LoopLeft' /\ HandFresh'
    BY <2>1 DEF QueueFresh, PendFresh, TokenAccounted, LoopLeft, HandFresh, Holding
  <2>4. IdleFresh'
    BY <1>18, <1>P, <2>2 DEF FinalReap, IdleFresh
  <2>5. OutcomePending' /\ LinesMatch'
    BY <1>18, <1>P DEF FinalReap, OutcomePending, LinesMatch
  <2>6. RepliesMatch'
    BY <1>18, <1>P, <2>2, AnswersDecoded DEF FinalReap, RepliesMatch, Ops
  <2> QED
    BY <2>3, <2>4, <2>5, <2>6
<1>19. ASSUME ReadAnswer
      PROVE  Parts'
  <2>1. LinesMatch'
    BY <1>19, <1>T, <1>P, TailKeepsLines DEF ReadAnswer, NextLine
  <2>2. /\ Head(stdout).c \in Calls /\ Head(stdout).a \in Answers
        /\ answer[Head(stdout).c] = Head(stdout).a
    BY <1>19, <1>S, <1>P, TailParts, LineParts DEF ReadAnswer, NextLine, LinesMatch
  <2>3. CASE Head(stdout).c \notin pend
    <3>1. Core'
      BY <1>19, <1>T, <1>P, <2>3
      DEF ReadAnswer, QueueFresh, HandFresh, PendFresh, IdleFresh, LoopLeft,
          TokenAccounted, OutcomePending, RepliesMatch, Fresh, Holding
    <3> QED
      BY <2>1, <3>1
  <2>4. CASE Head(stdout).c \in pend
    <3> DEFINE w == Head(stdout).c
    <3>1. /\ pend' = pend \ {w} /\ reply' = [reply EXCEPT ![w] = answer[w]]
          /\ UNCHANGED <<stage, outcome, token, abandonLost, cmdq, wpc, wop, inbox, answer>>
      BY <1>19, <2>2, <2>4 DEF ReadAnswer
    <3>2. w \in Calls /\ w \in pend
      BY <2>2, <2>4
    <3> HIDE DEF w
    <3>3. QueueFresh'
      BY <1>T, <1>P, <1>Q, <3>1, <3>2 DEF QueueFresh, Fresh, TypeOK, Ops
    <3>4. HandFresh' /\ PendFresh' /\ IdleFresh' /\ LoopLeft'
      BY <1>T, <1>P, <3>1, <3>2
      DEF HandFresh, PendFresh, IdleFresh, LoopLeft, Fresh, Holding, TypeOK, Ops
    <3>5. TokenAccounted' /\ OutcomePending'
      BY <1>P, <3>1 DEF TokenAccounted, OutcomePending
    <3>6. RepliesMatch'
      BY <1>T, <1>P, <3>1, <3>2, AnswersDecoded DEF RepliesMatch, TypeOK, Ops
    <3> QED
      BY <2>1, <3>3, <3>4, <3>5, <3>6
  <2> QED
    BY <2>3, <2>4
<1>20. ASSUME ReadRequest
      PROVE  Parts'
  <2>1. Core'
    BY <1>20, <1>T, <1>P DEF ReadRequest, NextLine, QueueFresh, HandFresh, PendFresh, IdleFresh,
        LoopLeft, TokenAccounted, OutcomePending, RepliesMatch, Fresh, Holding,
        TypeOK, Ops
  <2>2. LinesMatch'
    BY <1>20, <1>T, <1>P, TailKeepsLines DEF ReadRequest, NextLine
  <2> QED
    BY <2>1, <2>2
<1>21. ASSUME ReadNotification
      PROVE  Parts'
  <2>1. Core'
    BY <1>21, <1>T, <1>P DEF ReadNotification, NextLine, QueueFresh, HandFresh, PendFresh, IdleFresh,
        LoopLeft, TokenAccounted, OutcomePending, RepliesMatch, Fresh, Holding,
        TypeOK, Ops
  <2>2. LinesMatch'
    BY <1>21, <1>T, <1>P, TailKeepsLines DEF ReadNotification, NextLine
  <2> QED
    BY <2>1, <2>2
<1>22. ASSUME ReadEnds
      PROVE  Parts'
  <2>1. Core'
    BY <1>22, <1>T, <1>P DEF ReadEnds, NextLine, QueueFresh, HandFresh, PendFresh, IdleFresh,
        LoopLeft, TokenAccounted, OutcomePending, RepliesMatch, Fresh, Holding,
        TypeOK, Ops
  <2>2. LinesMatch'
    <3>1. CASE UNCHANGED stdout
      BY <1>22, <1>P, <3>1 DEF ReadEnds, LinesMatch
    <3>2. CASE stdout # <<>> /\ stdout' = Tail(stdout)
      BY <1>22, <1>T, <1>P, <3>2, TailKeepsLines DEF ReadEnds
    <3> QED
      BY <1>22, <3>1, <3>2 DEF ReadEnds
  <2> QED
    BY <2>1, <2>2
<1>23. ASSUME ReaderReports
      PROVE  Parts'
  BY <1>23, <1>T, <1>P, OpsDisjoint, AnswersDecoded
  DEF ReaderReports, ReportClosed, LinesMatch, QueueFresh, HandFresh, PendFresh, IdleFresh,
      LoopLeft, TokenAccounted, OutcomePending, RepliesMatch, Fresh, Holding,
      TypeOK, Ops
<1>24. ASSUME ReaderDrains
      PROVE  Parts'
  <2>1. QueueFresh'
    BY <1>24, <1>T, <1>P, <1>Q, OpsDisjoint, AnswersDecoded
    DEF ReaderDrains, FailAllPending, QueueFresh, HandFresh, PendFresh, IdleFresh, Fresh, Holding, TypeOK, Ops
  <2>2. HandFresh'
    BY <1>24, <1>T, <1>P, <1>Q, OpsDisjoint, AnswersDecoded
    DEF ReaderDrains, FailAllPending, HandFresh, QueueFresh, PendFresh, IdleFresh, Fresh, Holding, TypeOK, Ops
  <2>3. PendFresh'
    BY <1>24, <1>T, <1>P, <1>Q, OpsDisjoint, AnswersDecoded
    DEF ReaderDrains, FailAllPending, PendFresh, HandFresh, Fresh, Holding, TypeOK, Ops
  <2>4. IdleFresh'
    BY <1>24, <1>T, <1>P, <1>Q, OpsDisjoint, AnswersDecoded
    DEF ReaderDrains, FailAllPending, IdleFresh, PendFresh, HandFresh, QueueFresh, Fresh, Holding, TypeOK, Ops
  <2>5. LoopLeft'
    BY <1>24, <1>T, <1>P, <1>Q, OpsDisjoint, AnswersDecoded
    DEF ReaderDrains, FailAllPending, LoopLeft, TypeOK, Ops
  <2>6. TokenAccounted'
    BY <1>24, <1>T, <1>P, <1>Q, OpsDisjoint, AnswersDecoded
    DEF ReaderDrains, FailAllPending, TokenAccounted, PendFresh, TypeOK, Ops
  <2>7. OutcomePending'
    BY <1>24, <1>T, <1>P, <1>Q, OpsDisjoint, AnswersDecoded
    DEF ReaderDrains, FailAllPending, OutcomePending, TypeOK, Ops
  <2>8. RepliesMatch'
    BY <1>24, <1>T, <1>P, <1>Q, OpsDisjoint, AnswersDecoded
    DEF ReaderDrains, FailAllPending, RepliesMatch, PendFresh, TypeOK, Ops
  <2>9. LinesMatch'
    BY <1>24, <1>P DEF ReaderDrains, FailAllPending, LinesMatch
  <2> QED
    BY <2>1, <2>2, <2>3, <2>4, <2>5, <2>6, <2>7, <2>8, <2>9
<1>25. ASSUME DispatchNotification
      PROVE  Parts'
  BY <1>25, <1>T, <1>P, OpsDisjoint, AnswersDecoded
  DEF DispatchNotification, LinesMatch, QueueFresh, HandFresh, PendFresh, IdleFresh,
      LoopLeft, TokenAccounted, OutcomePending, RepliesMatch, Fresh, Holding,
      TypeOK, Ops
<1>26. ASSUME NEW r \in Requests, DispatchReverse(r)
      PROVE  Parts'
  BY <1>26, <1>T, <1>P, OpsDisjoint, AnswersDecoded
  DEF DispatchReverse, LinesMatch, QueueFresh, HandFresh, PendFresh, IdleFresh,
      LoopLeft, TokenAccounted, OutcomePending, RepliesMatch, Fresh, Holding,
      TypeOK, Ops
<1>27. ASSUME NEW c \in Calls, NEW a \in Answers, AgentAnswers(c, a)
      PROVE  Parts'
  <2>1. Core'
    BY <1>27, <1>T, <1>P, AnswersDecoded DEF AgentAnswers, QueueFresh, HandFresh, PendFresh, IdleFresh,
        LoopLeft, TokenAccounted, OutcomePending, RepliesMatch, Fresh, Holding,
        TypeOK, Ops
  <2>2. Answer(c, a) \in Lines /\ Answer(c, a).c = c /\ Answer(c, a).a = a
    BY LinesTyped DEF Answer
  <2>3. ASSUME NEW i \in 1..Len(stdout), stdout[i].kind = "answer"
        PROVE  answer'[stdout[i].c] = answer[stdout[i].c]
    <3>1. stdout[i].c \in Calls /\ answer[stdout[i].c] \in Answers
      BY <1>S, <1>P, <2>3, LineParts DEF LinesMatch
    <3>2. stdout[i].c # c
      BY <1>27, <3>1, AnswersDecoded DEF AgentAnswers
    <3> QED
      BY <1>27, <1>T, <3>1, <3>2 DEF AgentAnswers, TypeOK
  <2>4. LinesMatch'
    BY <1>27, <1>T, <1>P, <2>2, <2>3, AppendKeepsLines DEF AgentAnswers, TypeOK
  <2> QED
    BY <2>1, <2>4
<1>28. ASSUME AgentNotifies
      PROVE  Parts'
  <2>1. Core'
    BY <1>28, <1>T, <1>P DEF AgentNotifies, QueueFresh, HandFresh, PendFresh, IdleFresh,
        LoopLeft, TokenAccounted, OutcomePending, RepliesMatch, Fresh, Holding,
        TypeOK, Ops
  <2>2. Note(nextNote) \in Lines /\ Note(nextNote).kind # "answer"
    BY <1>28, <1>T, LinesTyped DEF AgentNotifies, Note, TypeOK
  <2>3. LinesMatch'
    BY <1>28, <1>T, <1>P, <2>2, AppendKeepsLines DEF AgentNotifies
  <2> QED
    BY <2>1, <2>3
<1>29. ASSUME NEW r \in Requests, AgentAsks(r)
      PROVE  Parts'
  <2>1. Core'
    BY <1>29, <1>T, <1>P DEF AgentAsks, QueueFresh, HandFresh, PendFresh, IdleFresh,
        LoopLeft, TokenAccounted, OutcomePending, RepliesMatch, Fresh, Holding,
        TypeOK, Ops
  <2>2. Ask(r) \in Lines /\ Ask(r).kind # "answer"
    BY <1>29, <1>T, LinesTyped DEF AgentAsks, Ask, TypeOK
  <2>3. LinesMatch'
    BY <1>29, <1>T, <1>P, <2>2, AppendKeepsLines DEF AgentAsks
  <2> QED
    BY <2>1, <2>3
<1>30. ASSUME AgentGarbles
      PROVE  Parts'
  <2>1. Core'
    BY <1>30, <1>T, <1>P DEF AgentGarbles, QueueFresh, HandFresh, PendFresh, IdleFresh,
        LoopLeft, TokenAccounted, OutcomePending, RepliesMatch, Fresh, Holding,
        TypeOK, Ops
  <2>2. BrokenLine \in Lines /\ BrokenLine.kind # "answer"
    BY <1>30, <1>T, LinesTyped DEF AgentGarbles, BrokenLine, TypeOK
  <2>3. LinesMatch'
    BY <1>30, <1>T, <1>P, <2>2, AppendKeepsLines DEF AgentGarbles
  <2> QED
    BY <2>1, <2>3
<1>31. ASSUME AgentExits
      PROVE  Parts'
  BY <1>31, <1>T, <1>P, OpsDisjoint, AnswersDecoded
  DEF AgentExits, LinesMatch, QueueFresh, HandFresh, PendFresh, IdleFresh,
      LoopLeft, TokenAccounted, OutcomePending, RepliesMatch, Fresh, Holding,
      TypeOK, Ops
<1>32. ASSUME AgentStalls
      PROVE  Parts'
  BY <1>32, <1>T, <1>P, OpsDisjoint, AnswersDecoded
  DEF AgentStalls, LinesMatch, QueueFresh, HandFresh, PendFresh, IdleFresh,
      LoopLeft, TokenAccounted, OutcomePending, RepliesMatch, Fresh, Holding,
      TypeOK, Ops
<1>33. ASSUME AgentDrains
      PROVE  Parts'
  BY <1>33, <1>T, <1>P, OpsDisjoint, AnswersDecoded
  DEF AgentDrains, LinesMatch, QueueFresh, HandFresh, PendFresh, IdleFresh,
      LoopLeft, TokenAccounted, OutcomePending, RepliesMatch, Fresh, Holding,
      TypeOK, Ops
<1>34. ASSUME UNCHANGED vars
      PROVE  Parts'
  BY <1>34, <1>T, <1>P, OpsDisjoint, AnswersDecoded
  DEF vars, LinesMatch, QueueFresh, HandFresh, PendFresh, IdleFresh,
      LoopLeft, TokenAccounted, OutcomePending, RepliesMatch, Fresh, Holding,
      TypeOK, Ops
<1> QED
  BY <1>T, <1>1, <1>2, <1>3, <1>4, <1>5, <1>6, <1>7, <1>8, <1>9, <1>10, <1>11, <1>12, <1>13, <1>14, <1>15, <1>16, <1>17,
     <1>18, <1>19, <1>20, <1>21, <1>22, <1>23, <1>24, <1>25, <1>26, <1>27, <1>28, <1>29, <1>30, <1>31, <1>32, <1>33, <1>34
  DEF IInv, Next, Caller, Deadline, Writer, Reader, Agent

\* The inductive invariant holds in every reachable state.
THEOREM Inductive == Spec => []IInv
<1>1. Init => IInv
  BY InitIInv
<1>2. IInv /\ [Next]_vars => IInv'
  BY NextIInv
<1> QED
  BY <1>1, <1>2, PTL DEF Spec

-----------------------------------------------------------------------------
(* What the invariant gives.                                               *)

\* A waiter in the pending map is unanswered, its request was written, and if its
\* caller has given up somebody will still remove it, or its Abandon was lost.
THEOREM WaitersAccounted == Spec => []WaiterAccounted
<1>1. IInv => WaiterAccounted
  <2> SUFFICES ASSUME IInv, NEW c \in pend
               PROVE  /\ c \in inbox /\ reply[c] = "none"
                      /\ token[c] => \/ wpc = "recheck" /\ wop = c
                                     \/ stage[c] = "marked"
                                     \/ Queued("abandon", c)
                                     \/ c \in abandonLost
    BY DEF WaiterAccounted
  <2>1. \A i \in 1..Len(cmdq) : i \in DOMAIN cmdq
    BY DEF IInv, TypeOK
  <2> QED
    BY <2>1 DEF IInv, PendFresh, TokenAccounted, Queued, QueuedAt
<1> QED
  BY <1>1, Inductive, PTL

\* A oneshot is completed at most once, whichever of the reader, a failed write, a
\* drain or the kill comes first.
THEOREM RepliesOnce == Spec => ReplyOnce
<1> DEFINE Kept == \A o \in Ops : reply[o] # "none" => reply'[o] = reply[o]
<1>1. IInv /\ [Next]_vars => [Kept]_vars
  <2> SUFFICES ASSUME IInv, Next
               PROVE  Kept
    BY DEF Kept, vars
  <2> SUFFICES ASSUME NEW o \in Ops, reply[o] # "none"
               PROVE  reply'[o] = reply[o]
    OBVIOUS
  <2>T. TypeOK /\ TypeOK'
    BY NextTypeOK DEF IInv
  <2>1. o \notin pend
    BY DEF IInv, PendFresh
  <2>2. wpc \in Holding \ {"recheck"} => wop # o
    BY DEF IInv, HandFresh, Fresh
  <2>3. \A failure : FailAllPending(failure) => reply'[o] = reply[o]
    BY <2>1 DEF FailAllPending
  <2>4. CASE FailAllSend \/ KillDrains \/ FinalDrain \/ ReaderDrains
    BY <2>3, <2>4 DEF FailAllSend, KillDrains, FinalDrain, ReaderDrains
  <2>5. CASE WriteLine
    BY <2>5, <2>2, <2>T DEF WriteLine, Holding, TypeOK
  <2>6. CASE WriteFails \/ KillReaps
    BY <2>6, <2>2, <2>T DEF WriteFails, KillReaps, Holding, TypeOK
  <2>7. CASE ReadAnswer
    BY <2>7, <2>1, <2>T DEF ReadAnswer, TypeOK
  <2>8. CASE FinalReap
    <3>1. ASSUME NEW i \in DOMAIN cmdq, cmdq[i] = Cmd(KindOf(o), o)
          PROVE  FALSE
      <4>1. cmdq[i].kind # "abandon" /\ cmdq[i].op = o /\ i \in 1..Len(cmdq)
        BY <3>1, <2>T DEF Cmd, KindOf, TypeOK
      <4> QED
        BY <4>1 DEF IInv, QueueFresh, Fresh
    <3> QED
      BY <2>8, <3>1 DEF FinalReap
  <2>9. CASE UNCHANGED reply
    BY <2>9
  <2> QED
    BY <2>4, <2>5, <2>6, <2>7, <2>8, <2>9
    DEF Next, Caller, Deadline, Writer, Reader, Agent, Send, SendFails, Receive,
        Expire, MarkAbandoned, TrySendAbandon, TakeCommand, CheckToken,
        InsertWaiter, RecheckToken, WriterReports, ReadRequest, ReadNotification,
        ReadEnds, ReaderReports, DispatchNotification, DispatchReverse,
        AgentAnswers, AgentNotifies, AgentAsks, AgentGarbles, AgentExits,
        AgentStalls, AgentDrains
<1> QED
  BY <1>1, Inductive, PTL DEF Spec, ReplyOnce, Kept

-----------------------------------------------------------------------------
(* The order of the notifications.  The notifications on their way are one *)
(* sequence cut in three: what is delivered, what is in the channel, what  *)
(* is in the pipe.  It rises, and the next number is above all of it.      *)

\* The number of the notification a line carries; no line but a notification has one.
NumberOf(line) == IF line.kind = "note" THEN line.n ELSE StrayResponse
NumbersOf(q) == [i \in 1..Len(q) |-> NumberOf(q[i])]

Numbers(q) == {q[i] : i \in 1..Len(q)} \ {StrayResponse}
Rising(q) ==
    \A i, j \in 1..Len(q) :
      i < j /\ StrayResponse \notin {q[i], q[j]} => q[i] < q[j]
Ahead(p, q) == \A m \in Numbers(p), n \in Numbers(q) : m < n

NotesRise ==
    /\ Rising(delivered) /\ Rising(notifyq) /\ Rising(NumbersOf(stdout))
    /\ Ahead(delivered, notifyq)
    /\ Ahead(delivered, NumbersOf(stdout)) /\ Ahead(notifyq, NumbersOf(stdout))
    /\ \A n \in Numbers(delivered) \cup Numbers(notifyq) \cup Numbers(NumbersOf(stdout)) : n < nextNote

\* The numbers of notifications are numbers.
LEMMA NumbersAreNat == \A q \in Seq(0..MaxNotes) : Numbers(q) \subseteq Nat
<1> SUFFICES ASSUME NEW q \in Seq(0..MaxNotes), NEW i \in 1..Len(q) PROVE q[i] \in Nat
  BY DEF Numbers
<1> DEFINE S == 0..MaxNotes
<1>1. q \in Seq(S) /\ S \subseteq Nat
  BY CapsPositive
<1> HIDE DEF S
<1>2. q[i] \in S
  BY <1>1, ElementOfSeq
<1> QED
  BY <1>1, <1>2

\* A sequence that rises still does with a greater number, or none, at its end.
LEMMA RisingAppend ==
    ASSUME NEW q \in Seq(0..MaxNotes), NEW m \in 0..MaxNotes, Rising(q),
           m # StrayResponse => \A n \in Numbers(q) : n < m
    PROVE  /\ Append(q, m) \in Seq(0..MaxNotes) /\ Rising(Append(q, m))
           /\ Numbers(Append(q, m)) = Numbers(q) \cup ({m} \ {StrayResponse})
<1> DEFINE r == Append(q, m)
<1>1. /\ r \in Seq(0..MaxNotes) /\ Len(r) = Len(q) + 1 /\ Len(q) \in Nat
      /\ \A i \in 1..Len(q) : r[i] = q[i]
      /\ r[Len(q) + 1] = m
  BY AppendParts
<1> HIDE DEF r
<1>2. 1..Len(r) = 1..Len(q) \cup {Len(q) + 1}
  BY <1>1
<1>3. Numbers(r) = Numbers(q) \cup ({m} \ {StrayResponse})
  BY <1>1, <1>2 DEF Numbers
<1>4. Rising(r)
  <2> SUFFICES ASSUME NEW i \in 1..Len(r), NEW j \in 1..Len(r), i < j,
                      r[i] # StrayResponse, r[j] # StrayResponse
               PROVE  r[i] < r[j]
    BY DEF Rising
  <2>1. i \in 1..Len(q) /\ r[i] = q[i]
    BY <1>1
  <2>2. CASE j \in 1..Len(q)
    BY <1>1, <2>1, <2>2 DEF Rising
  <2>3. CASE j = Len(q) + 1
    <3>1. q[i] \in Numbers(q)
      BY <2>1 DEF Numbers
    <3> QED
      BY <1>1, <2>1, <2>3, <3>1
  <2> QED
    BY <1>2, <2>2, <2>3
<1> QED
  BY <1>1, <1>3, <1>4 DEF r

\* The first number of a sequence that rises is below the others.
LEMMA RisingTail ==
    ASSUME NEW q \in Seq(0..MaxNotes), q # <<>>, Rising(q)
    PROVE  /\ Tail(q) \in Seq(0..MaxNotes) /\ Rising(Tail(q)) /\ Head(q) \in 0..MaxNotes
           /\ Numbers(q) = Numbers(Tail(q)) \cup ({Head(q)} \ {StrayResponse})
           /\ Head(q) # StrayResponse => \A n \in Numbers(Tail(q)) : Head(q) < n
<1> DEFINE t == Tail(q)
           h == Head(q)
<1>1. /\ t \in Seq(0..MaxNotes) /\ Len(q) \in Nat \ {0} /\ Len(t) = Len(q) - 1
      /\ \A i \in 1..Len(t) : t[i] = q[i + 1] /\ i + 1 \in 1..Len(q)
      /\ h = q[1] /\ h \in 0..MaxNotes
  BY TailParts
<1> HIDE DEF t, h
<1>2. Rising(t)
  <2> SUFFICES ASSUME NEW i \in 1..Len(t), NEW j \in 1..Len(t), i < j,
                      t[i] # StrayResponse, t[j] # StrayResponse
               PROVE  t[i] < t[j]
    BY DEF Rising
  <2>1. i + 1 \in 1..Len(q) /\ j + 1 \in 1..Len(q) /\ i + 1 < j + 1
    BY <1>1
  <2>2. t[i] = q[i + 1] /\ t[j] = q[j + 1]
    BY <1>1
  <2> QED
    BY <2>1, <2>2 DEF Rising
<1>3. Numbers(q) = Numbers(t) \cup ({h} \ {StrayResponse})
  <2>1. ASSUME NEW i \in 1..Len(q) PROVE i = 1 \/ (i - 1 \in 1..Len(t) /\ t[i - 1] = q[i])
    BY <1>1
  <2>2. 1 \in 1..Len(q)
    BY <1>1
  <2> QED
    BY <1>1, <2>1, <2>2 DEF Numbers
<1>4. ASSUME h # StrayResponse, NEW n \in Numbers(t) PROVE h < n
  <2>1. PICK i \in 1..Len(t) : t[i] = n
    BY DEF Numbers
  <2>2. i + 1 \in 1..Len(q) /\ 1 \in 1..Len(q) /\ 1 < i + 1 /\ q[i + 1] = n /\ n # StrayResponse
    BY <1>1, <2>1 DEF Numbers
  <2> QED
    BY <1>1, <1>4, <2>2 DEF Rising
<1> QED
  BY <1>1, <1>2, <1>3, <1>4 DEF t, h

\* The numbers in the pipe are those of notifications, or stand for none.
LEMMA NumberTyped == \A line \in Lines : NumberOf(line) \in 0..MaxNotes
  BY LineParts, CapsPositive DEF NumberOf, StrayResponse

\* They are as many as the lines.
LEMMA NumbersTyped ==
    ASSUME NEW q \in Seq(Lines)
    PROVE  /\ NumbersOf(q) \in Seq(0..MaxNotes) /\ Len(NumbersOf(q)) = Len(q)
           /\ \A i \in 1..Len(q) : NumbersOf(q)[i] = NumberOf(q[i])
<1>1. Len(q) \in Nat /\ \A i \in 1..Len(q) : q[i] \in Lines
  OBVIOUS
<1>2. \A i \in 1..Len(q) : NumberOf(q[i]) \in 0..MaxNotes
  BY <1>1, NumberTyped
<1> DEFINE f == [i \in 1..Len(q) |-> NumberOf(q[i])]
<1>3. f \in [1..Len(q) -> 0..MaxNotes] /\ \A i \in 1..Len(q) : f[i] = NumberOf(q[i])
  BY <1>2
<1> HIDE DEF f
<1>4. f \in Seq(0..MaxNotes) /\ Len(f) = Len(q)
  <2>1. f \in Seq(0..MaxNotes)
    <3> DEFINE S == 0..MaxNotes
               n == Len(q)
    <3>1. n \in Nat /\ f \in [1..n -> S]
      BY <1>1, <1>3
    <3> HIDE DEF S, n
    <3>2. f \in UNION {[1..k -> S] : k \in Nat}
      BY <3>1
    <3>3. Seq(S) = UNION {[1..k -> S] : k \in Nat}
      BY SeqDef
    <3> QED
      BY <3>2, <3>3 DEF S
  <2>2. DOMAIN f = 1..Len(q) /\ DOMAIN f = 1..Len(f) /\ Len(f) \in Nat
    BY <1>3, <2>1
  <2> QED
    BY <1>1, <2>1, <2>2
<1> QED
  BY <1>3, <1>4 DEF f, NumbersOf

\* They follow the pipe when a line is written to it ...
LEMMA NumbersAppend ==
    ASSUME NEW q \in Seq(Lines), NEW x \in Lines
    PROVE  NumbersOf(Append(q, x)) = Append(NumbersOf(q), NumberOf(x))
<1> DEFINE s == Append(q, x)
           r == Append(NumbersOf(q), NumberOf(x))
<1>1. /\ s \in Seq(Lines) /\ Len(s) = Len(q) + 1 /\ Len(q) \in Nat
      /\ \A i \in 1..Len(q) : s[i] = q[i]
      /\ s[Len(q) + 1] = x
  BY AppendParts
<1>2. /\ NumbersOf(q) \in Seq(0..MaxNotes) /\ Len(NumbersOf(q)) = Len(q)
      /\ \A i \in 1..Len(q) : NumbersOf(q)[i] = NumberOf(q[i])
      /\ NumberOf(x) \in 0..MaxNotes
  BY NumbersTyped, NumberTyped
<1>3. /\ r \in Seq(0..MaxNotes) /\ Len(r) = Len(q) + 1
      /\ \A i \in 1..Len(q) : r[i] = NumbersOf(q)[i]
      /\ r[Len(q) + 1] = NumberOf(x)
  BY <1>2, AppendParts
<1> HIDE DEF s, r
<1>4. /\ NumbersOf(s) \in Seq(0..MaxNotes) /\ Len(NumbersOf(s)) = Len(s)
      /\ \A i \in 1..Len(s) : NumbersOf(s)[i] = NumberOf(s[i])
  BY <1>1, NumbersTyped
<1>5. ASSUME NEW i \in 1..Len(r) PROVE r[i] = NumbersOf(s)[i]
  <2>1. i \in 1..Len(q) \/ i = Len(q) + 1
    BY <1>1, <1>3
  <2> QED
    BY <1>1, <1>2, <1>3, <1>4, <2>1
<1> QED
  BY <1>1, <1>3, <1>4, <1>5, SeqEqual DEF s, r

\* ... and when its first line is read.
LEMMA NumbersTail ==
    ASSUME NEW q \in Seq(Lines), q # <<>>
    PROVE  /\ NumbersOf(q) # <<>> /\ NumbersOf(Tail(q)) = Tail(NumbersOf(q))
           /\ Head(NumbersOf(q)) = NumberOf(Head(q))
<1> DEFINE s == Tail(q)
           n == NumbersOf(q)
           t == Tail(n)
<1>1. /\ s \in Seq(Lines) /\ Len(q) \in Nat \ {0} /\ Len(s) = Len(q) - 1
      /\ \A i \in 1..Len(s) : s[i] = q[i + 1] /\ i + 1 \in 1..Len(q)
      /\ Head(q) = q[1]
  BY TailParts
<1>2. /\ n \in Seq(0..MaxNotes) /\ Len(n) = Len(q)
      /\ \A i \in 1..Len(q) : n[i] = NumberOf(q[i])
  BY NumbersTyped
<1> HIDE DEF n
<1>3. n # <<>>
  BY <1>1, <1>2
<1>4. /\ t \in Seq(0..MaxNotes) /\ Len(t) = Len(q) - 1
      /\ \A i \in 1..Len(t) : t[i] = n[i + 1]
      /\ Head(n) = n[1]
  BY <1>2, <1>3, TailParts
<1> HIDE DEF s, t
<1>5. /\ NumbersOf(s) \in Seq(0..MaxNotes) /\ Len(NumbersOf(s)) = Len(s)
      /\ \A i \in 1..Len(s) : NumbersOf(s)[i] = NumberOf(s[i])
  BY <1>1, NumbersTyped
<1>6. \A i \in 1..Len(t) : t[i] = NumbersOf(s)[i]
  BY <1>1, <1>2, <1>4, <1>5
<1>7. t = NumbersOf(s)
  BY <1>1, <1>4, <1>5, <1>6, SeqEqual
<1>8. Head(n) = NumberOf(Head(q))
  BY <1>1, <1>2, <1>4
<1> QED
  BY <1>3, <1>7, <1>8 DEF n, s, t

\* Of these a step moves at most one number on by one place, leaves it out, or adds the
\* next one.
streamVars == <<delivered, notifyq, stdout, nextNote>>

\* The reader takes a line, and offers to the channel the number the line carries, or
\* that of a response nobody waits for, or nothing.
LEMMA LineReadKeeps ==
    ASSUME TypeOK, NotesRise, stdout # <<>>, stdout' = Tail(stdout), UNCHANGED <<delivered, nextNote>>,
           \/ UNCHANGED notifyq
           \/ \E m \in {NumberOf(Head(stdout)), StrayResponse} : notifyq' = Append(notifyq, m)
    PROVE  NotesRise'
<1> DEFINE w == NumbersOf(stdout)
           h == Head(w)
           t == Tail(w)
<1>1. /\ w \in Seq(0..MaxNotes) /\ w # <<>> /\ NumbersOf(stdout') = t
      /\ h = NumberOf(Head(stdout))
  BY NumbersTyped, NumbersTail DEF TypeOK
<1>2. Rising(w) /\ Ahead(delivered, w) /\ Ahead(notifyq, w)
      /\ \A n \in Numbers(delivered) \cup Numbers(notifyq) \cup Numbers(w) : n < nextNote
  BY DEF NotesRise
<1> HIDE DEF w
<1>3. /\ t \in Seq(0..MaxNotes) /\ Rising(t) /\ h \in 0..MaxNotes
      /\ Numbers(w) = Numbers(t) \cup ({h} \ {StrayResponse})
      /\ h # StrayResponse => \A n \in Numbers(t) : h < n
  BY <1>1, <1>2, RisingTail
<1> HIDE DEF h, t
<1>4. /\ Rising(notifyq')
      /\ \/ Numbers(notifyq') = Numbers(notifyq)
         \/ h # StrayResponse /\ Numbers(notifyq') = Numbers(notifyq) \cup {h}
  <2>1. CASE UNCHANGED notifyq
    BY <2>1 DEF NotesRise
  <2>2. ASSUME NEW m \in {h, StrayResponse}, notifyq' = Append(notifyq, m)
        PROVE  /\ Rising(notifyq')
               /\ Numbers(notifyq') = Numbers(notifyq) \cup ({m} \ {StrayResponse})
    <3>1. m \in 0..MaxNotes
      BY <1>3, CapsPositive DEF StrayResponse
    <3>2. m # StrayResponse => \A n \in Numbers(notifyq) : n < m
      BY <1>2, <1>3 DEF Ahead
    <3>3. notifyq \in Seq(0..MaxNotes) /\ Rising(notifyq)
      BY DEF TypeOK, NotesRise
    <3> QED
      BY <2>2, <3>1, <3>2, <3>3, RisingAppend
  <2> QED
    BY <1>1, <2>1, <2>2
<1>5. Numbers(t) \subseteq Numbers(w)
  BY <1>3
<1>6. Ahead(delivered, notifyq') /\ Ahead(delivered, t) /\ Ahead(notifyq', t)
  BY <1>2, <1>3, <1>4, <1>5 DEF Ahead, NotesRise
<1>7. \A n \in Numbers(delivered) \cup Numbers(notifyq') \cup Numbers(t) : n < nextNote
  BY <1>2, <1>3, <1>4
<1> QED
  BY <1>1, <1>3, <1>4, <1>6, <1>7 DEF NotesRise

\* The dispatcher hands on the first number of the channel.
LEMMA DispatchKeeps == TypeOK /\ NotesRise /\ DispatchNotification => NotesRise'
<1> SUFFICES ASSUME TypeOK, NotesRise, DispatchNotification PROVE NotesRise'
  OBVIOUS
<1> DEFINE h == Head(notifyq)
           t == Tail(notifyq)
           w == NumbersOf(stdout)
<1>1. notifyq # <<>> /\ delivered' = Append(delivered, h) /\ notifyq' = t /\ UNCHANGED <<stdout, nextNote>>
  BY DEF DispatchNotification, agentVars
<1>2. /\ Rising(delivered) /\ Rising(notifyq) /\ Rising(w)
      /\ Ahead(delivered, notifyq) /\ Ahead(delivered, w) /\ Ahead(notifyq, w)
      /\ \A n \in Numbers(delivered) \cup Numbers(notifyq) \cup Numbers(w) : n < nextNote
      /\ notifyq \in Seq(0..MaxNotes) /\ delivered \in Seq(0..MaxNotes)
  BY DEF NotesRise, TypeOK
<1>3. /\ t \in Seq(0..MaxNotes) /\ Rising(t) /\ h \in 0..MaxNotes
      /\ Numbers(notifyq) = Numbers(t) \cup ({h} \ {StrayResponse})
      /\ h # StrayResponse => \A n \in Numbers(t) : h < n
  BY <1>1, <1>2, RisingTail
<1>4. NumbersOf(stdout') = w
  BY <1>1
<1> HIDE DEF h, t, w
<1>5. h # StrayResponse => \A n \in Numbers(delivered) : n < h
  BY <1>2, <1>3 DEF Ahead
<1>6. Rising(delivered') /\ Numbers(delivered') = Numbers(delivered) \cup ({h} \ {StrayResponse})
  BY <1>1, <1>2, <1>3, <1>5, RisingAppend
<1>7. Ahead(delivered', t) /\ Ahead(delivered', w) /\ Ahead(t, w)
  BY <1>2, <1>3, <1>6 DEF Ahead
<1>8. \A n \in Numbers(delivered') \cup Numbers(t) \cup Numbers(w) : n < nextNote
  BY <1>2, <1>3, <1>6
<1> QED
  BY <1>1, <1>2, <1>3, <1>4, <1>6, <1>7, <1>8 DEF NotesRise

\* The agent writes a line: no number, or the next one.
LEMMA LineWrittenKeeps ==
    ASSUME TypeOK, NotesRise, NEW x \in Lines, stdout' = Append(stdout, x), UNCHANGED <<delivered, notifyq>>,
           \/ NumberOf(x) = StrayResponse /\ nextNote' = nextNote
           \/ NumberOf(x) = nextNote /\ nextNote' = nextNote + 1
    PROVE  NotesRise'
<1> DEFINE w == NumbersOf(stdout)
           m == NumberOf(x)
<1>1. w \in Seq(0..MaxNotes) /\ NumbersOf(stdout') = Append(w, m) /\ m \in 0..MaxNotes
  BY NumbersTyped, NumbersAppend, NumberTyped DEF TypeOK
<1>2. /\ Rising(w) /\ Ahead(delivered, notifyq) /\ Ahead(delivered, w) /\ Ahead(notifyq, w)
      /\ Rising(delivered) /\ Rising(notifyq)
      /\ \A n \in Numbers(delivered) \cup Numbers(notifyq) \cup Numbers(w) : n < nextNote
  BY DEF NotesRise
<1> DEFINE r == Append(w, m)
<1> HIDE DEF w
<1>3. Rising(r) /\ Numbers(r) = Numbers(w) \cup ({m} \ {StrayResponse})
  <2>1. m # StrayResponse => \A n \in Numbers(w) : n < m
    BY <1>2
  <2> QED
    BY <1>1, <1>2, <2>1, RisingAppend
<1> HIDE DEF m, r
<1>4. nextNote \in Nat /\ nextNote' \in {nextNote, nextNote + 1}
      /\ (m # StrayResponse => m = nextNote /\ nextNote' = nextNote + 1)
  BY CapsPositive DEF TypeOK, m
<1>5. Numbers(delivered) \cup Numbers(notifyq) \cup Numbers(w) \subseteq Nat
  BY <1>1, NumbersAreNat DEF TypeOK
<1>6. Ahead(delivered, r) /\ Ahead(notifyq, r)
  <2>1. \A n \in Numbers(r) : n \in Numbers(w) \/ n = nextNote
    BY <1>3, <1>4
  <2> QED
    BY <1>2, <2>1 DEF Ahead
<1>7. \A n \in Numbers(delivered) \cup Numbers(notifyq) \cup Numbers(r) : n < nextNote'
  <2> SUFFICES ASSUME NEW n \in Numbers(delivered) \cup Numbers(notifyq) \cup Numbers(r)
               PROVE  n < nextNote'
    OBVIOUS
  <2>1. CASE n \in Numbers(delivered) \cup Numbers(notifyq) \cup Numbers(w)
    BY <1>2, <1>4, <1>5, <2>1
  <2>2. CASE n = m /\ m # StrayResponse
    BY <1>4, <2>2
  <2> QED
    BY <1>3, <2>1, <2>2
<1>8. NumbersOf(stdout') = r /\ UNCHANGED <<delivered, notifyq>>
  BY <1>1 DEF r
<1> QED
  BY <1>2, <1>3, <1>6, <1>7, <1>8 DEF NotesRise

\* Every step keeps the notifications in order.
LEMMA NotesRiseKeeps == TypeOK /\ NotesRise /\ [Next]_vars => NotesRise'
<1> SUFFICES ASSUME TypeOK, NotesRise, [Next]_vars PROVE NotesRise'
  OBVIOUS
<1>1. CASE UNCHANGED streamVars
  BY <1>1 DEF streamVars, NotesRise
<1>2. CASE ReadAnswer \/ ReadRequest \/ ReadNotification
  <2>1. stdout # <<>> /\ stdout' = Tail(stdout) /\ UNCHANGED <<delivered, nextNote>>
    BY <1>2 DEF ReadAnswer, ReadRequest, ReadNotification, NextLine, uiVars, agentVars
  <2>2. ReadNotification => NumberOf(Head(stdout)) = Head(stdout).n
    BY DEF ReadNotification, NextLine, NumberOf
  <2>3. \/ UNCHANGED notifyq
        \/ \E m \in {NumberOf(Head(stdout)), StrayResponse} : notifyq' = Append(notifyq, m)
    BY <1>2, <2>2 DEF ReadAnswer, ReadRequest, ReadNotification, Offer
  <2> QED
    BY <2>1, <2>3, LineReadKeeps
<1>3. CASE ReadEnds
  <2>1. UNCHANGED <<delivered, notifyq, nextNote>> /\ (UNCHANGED stdout \/ (stdout # <<>> /\ stdout' = Tail(stdout)))
    BY <1>3 DEF ReadEnds, uiVars, agentVars
  <2> QED
    BY <1>1, <2>1, LineReadKeeps DEF streamVars
<1>4. CASE DispatchNotification
  BY <1>4, DispatchKeeps
<1>5. ASSUME NEW c \in Calls, NEW a \in Answers, AgentAnswers(c, a) PROVE NotesRise'
  <2>1. Answer(c, a) \in Lines /\ NumberOf(Answer(c, a)) = StrayResponse
    BY LinesTyped DEF Answer, NumberOf
  <2> QED
    BY <1>5, <2>1, LineWrittenKeeps DEF AgentAnswers, readerVars, uiVars
<1>6. CASE AgentNotifies
  <2>1. nextNote \in 1..MaxNotes
    BY <1>6, CapsPositive DEF AgentNotifies, TypeOK
  <2>2. Note(nextNote) \in Lines /\ NumberOf(Note(nextNote)) = nextNote
    BY <2>1, LinesTyped DEF Note, NumberOf
  <2> QED
    BY <1>6, <2>2, LineWrittenKeeps DEF AgentNotifies, readerVars, uiVars
<1>7. ASSUME NEW r \in Requests, AgentAsks(r) PROVE NotesRise'
  <2>1. Ask(r) \in Lines /\ NumberOf(Ask(r)) = StrayResponse
    BY LinesTyped DEF Ask, NumberOf
  <2> QED
    BY <1>7, <2>1, LineWrittenKeeps DEF AgentAsks, readerVars, uiVars
<1>8. CASE AgentGarbles
  <2>1. BrokenLine \in Lines /\ NumberOf(BrokenLine) = StrayResponse
    BY LinesTyped DEF BrokenLine, NumberOf
  <2> QED
    BY <1>8, <2>1, LineWrittenKeeps DEF AgentGarbles, readerVars, uiVars, agentVars
<1>9. CASE UNCHANGED vars
  BY <1>1, <1>9 DEF vars, streamVars, readerVars, uiVars, agentVars
<1>10. ASSUME NEW o \in Ops, Caller(o) PROVE NotesRise'
  BY <1>1, <1>10 DEF Caller, Send, SendFails, Receive, streamVars, readerVars, uiVars, agentVars
<1>11. ASSUME NEW c \in Calls, Expire(c) \/ Deadline(c) PROVE NotesRise'
  BY <1>1, <1>11 DEF Expire, Deadline, MarkAbandoned, TrySendAbandon, streamVars, readerVars, uiVars, agentVars
<1>12. CASE Writer
  BY <1>1, <1>12 DEF Writer, TakeCommand, WriteLine, WriteFails, CheckToken, InsertWaiter, RecheckToken,
     FailAllSend, WriterReports, KillDrains, KillReaps, FinalDrain, FinalReap, streamVars, readerVars, uiVars, agentVars
<1>13. CASE ReaderReports \/ ReaderDrains \/ \E r \in Requests : DispatchReverse(r)
  BY <1>1, <1>13 DEF ReaderReports, ReaderDrains, DispatchReverse, streamVars, uiVars, agentVars
<1>14. CASE AgentExits \/ AgentStalls \/ AgentDrains
  BY <1>1, <1>14 DEF AgentExits, AgentStalls, AgentDrains, streamVars, readerVars, uiVars, agentVars
<1> QED
  BY <1>2, <1>3, <1>4, <1>5, <1>6, <1>7, <1>8, <1>9, <1>10, <1>11, <1>12, <1>13, <1>14 DEF Next, Reader, Agent

\* Notifications reach on_notify in the order the agent wrote them, whatever the capacity
\* of the channel and however many it leaves out.
THEOREM NotesInOrder == Spec => []NotificationsInOrder
<1>1. Init => NotesRise
  <2> SUFFICES ASSUME Init PROVE NotesRise
    OBVIOUS
  <2>1. /\ Len(delivered) = 0 /\ Len(notifyq) = 0 /\ Len(stdout) = 0
    BY EmptySeq DEF Init
  <2>2. Len(NumbersOf(stdout)) = 0
    <3>1. stdout \in Seq(Lines)
      BY EmptySeq DEF Init
    <3> QED
      BY <2>1, <3>1, NumbersTyped
  <2> QED
    BY <2>1, <2>2 DEF NotesRise, Rising, Ahead, Numbers
<1>2. TypeOK /\ NotesRise /\ [Next]_vars => NotesRise'
  BY NotesRiseKeeps
<1>3. TypeOK /\ NotesRise => NotificationsInOrder
  <2> SUFFICES ASSUME TypeOK, Rising(delivered) PROVE NotificationsInOrder
    BY DEF NotesRise
  <2>1. DOMAIN delivered = 1..Len(delivered)
    BY DEF TypeOK
  <2> QED
    BY <2>1 DEF Rising, NotificationsInOrder
<1> QED
  BY <1>1, <1>2, <1>3, TypeCorrect, PTL DEF Spec

\* Where the reverse requests of the agent are: each is one line of stdout until it is read,
\* and what has left stdout is not in it any more.
Read == reverse \cup served \cup refused

AskLines ==
    /\ \A i, j \in DOMAIN stdout : stdout[i].kind = "ask" /\ stdout[i] = stdout[j] => i = j
    /\ \A i \in DOMAIN stdout : stdout[i].kind = "ask" => stdout[i].r \in asked \ Read

AskPlaces == AskLines /\ Read \subseteq asked /\ ReverseRequestsKept

\* An Ask line is told by its request.
LEMMA AskTold ==
    \A x \in Lines : /\ x.kind = "ask" => x.r \in Requests /\ x = Ask(x.r)
                     /\ \A r : x = Ask(r) => x.kind = "ask" /\ x.r = r
  BY DEF Lines, Ask, BrokenLine

\* The line that is read: a request goes to one of the two places it can go to, and no other
\* line is touched by it.
LEMMA AskReadKeeps ==
    ASSUME TypeOK, AskPlaces, stdout # <<>>, stdout' = Tail(stdout), UNCHANGED <<asked, served>>,
           \/ Head(stdout).kind = "ask" /\ \/ reverse' = reverse \cup {Head(stdout).r} /\ refused' = refused
                                           \/ refused' = refused \cup {Head(stdout).r} /\ reverse' = reverse
           \/ Head(stdout).kind # "ask" /\ UNCHANGED <<reverse, refused>>
    PROVE  AskPlaces'
<1>1. /\ stdout \in Seq(Lines) /\ stdout' \in Seq(Lines)
      /\ Len(stdout) \in Nat \ {0} /\ Len(stdout') = Len(stdout) - 1
      /\ \A i \in 1..Len(stdout') : stdout'[i] = stdout[i + 1] /\ i + 1 \in 1..Len(stdout)
      /\ Head(stdout) = stdout[1] /\ Head(stdout) \in Lines
  BY TailParts DEF TypeOK
<1>2. DOMAIN stdout = 1..Len(stdout) /\ DOMAIN stdout' = 1..Len(stdout')
  BY <1>1
<1>3. PICK h : h = Head(stdout)
  OBVIOUS
<1>4. \/ h.kind = "ask" /\ Read' = Read \cup {h.r} /\ h.r \in asked \ Read
      \/ h.kind # "ask" /\ Read' = Read
  BY <1>1, <1>2, <1>3 DEF Read, AskPlaces, AskLines
<1>5. AskLines'
  <2>1. \A i \in DOMAIN stdout' : i \in Nat /\ i + 1 \in DOMAIN stdout /\ stdout'[i] = stdout[i + 1]
    BY <1>1, <1>2
  <2>2. ASSUME NEW i \in DOMAIN stdout', NEW j \in DOMAIN stdout', stdout'[i].kind = "ask", stdout'[i] = stdout'[j]
        PROVE  i = j
    <3>1. i + 1 = j + 1
      BY <2>1, <2>2 DEF AskPlaces, AskLines
    <3> QED
      BY <2>1, <2>2, <3>1
  <2>3. ASSUME NEW i \in DOMAIN stdout', stdout'[i].kind = "ask"
        PROVE  stdout'[i].r \in asked \ Read'
    <3>1. stdout[i + 1].kind = "ask" /\ i + 1 \in DOMAIN stdout /\ stdout[i + 1].r \in asked \ Read
      BY <2>1, <2>3 DEF AskPlaces, AskLines
    <3>2. CASE h.kind = "ask"
      <4>1. i + 1 # 1
        BY <2>1, <2>3
      <4>2. 1 \in DOMAIN stdout /\ h = stdout[1]
        BY <1>1, <1>2, <1>3
      <4>3. stdout[i + 1] # h
        BY <3>1, <4>1, <4>2 DEF AskPlaces, AskLines
      <4>4. stdout[i + 1] \in Lines /\ h \in Lines
        BY <1>1, <1>2, <1>3, <3>1
      <4>5. stdout[i + 1].r # h.r
        BY <3>1, <3>2, <4>3, <4>4, AskTold
      <4> QED
        BY <1>4, <2>1, <2>3, <3>1, <3>2, <4>5
    <3>3. CASE h.kind # "ask"
      BY <1>4, <2>1, <2>3, <3>1, <3>3
    <3> QED
      BY <3>2, <3>3
  <2> QED
    BY <2>2, <2>3 DEF AskLines
<1>6. Read' \subseteq asked'
  BY <1>4 DEF AskPlaces
<1>7. \A r \in asked' \ Read' : \E i \in DOMAIN stdout' : stdout'[i] = Ask(r)
  <2> SUFFICES ASSUME NEW r \in asked \ Read' PROVE \E i \in DOMAIN stdout' : stdout'[i] = Ask(r)
    OBVIOUS
  <2>1. PICK i \in DOMAIN stdout : stdout[i] = Ask(r)
    BY <1>4 DEF AskPlaces, ReverseRequestsKept, Read
  <2>2. i # 1
    BY <1>1, <1>3, <1>4, <2>1, AskTold
  <2>3. i - 1 \in DOMAIN stdout' /\ stdout'[i - 1] = stdout[i]
    BY <1>1, <1>2, <2>1, <2>2
  <2> QED
    BY <2>1, <2>3
<1>8. reverse' \cap served' = {} /\ refused' \cap (reverse' \cup served') = {}
  BY <1>3, <1>4 DEF AskPlaces, ReverseRequestsKept, Read
<1> QED
  BY <1>5, <1>6, <1>7, <1>8 DEF AskPlaces, ReverseRequestsKept, Read

\* The line that is written: a request is asked once.
LEMMA AskWrittenKeeps ==
    ASSUME TypeOK, AskPlaces, NEW x \in Lines, stdout' = Append(stdout, x), UNCHANGED <<reverse, served, refused>>,
           \/ x.kind = "ask" /\ x.r \notin asked /\ asked' = asked \cup {x.r}
           \/ x.kind # "ask" /\ asked' = asked
    PROVE  AskPlaces'
<1>1. /\ stdout \in Seq(Lines) /\ stdout' \in Seq(Lines) /\ Len(stdout) \in Nat /\ Len(stdout') = Len(stdout) + 1
      /\ \A i \in 1..Len(stdout) : stdout'[i] = stdout[i]
      /\ stdout'[Len(stdout) + 1] = x
  BY AppendParts DEF TypeOK
<1>2. DOMAIN stdout = 1..Len(stdout) /\ DOMAIN stdout' = 1..(Len(stdout) + 1)
  BY <1>1
<1>3. /\ \A i \in DOMAIN stdout : i \in DOMAIN stdout' /\ stdout'[i] = stdout[i] /\ i # Len(stdout) + 1
      /\ \A i \in DOMAIN stdout' : i \in DOMAIN stdout \/ i = Len(stdout) + 1
      /\ Len(stdout) + 1 \in DOMAIN stdout'
  BY <1>1, <1>2
<1>4. Read' = Read
  BY DEF Read
<1>5. \A i \in DOMAIN stdout : stdout[i].kind = "ask" => stdout[i] # x
  BY DEF AskPlaces, AskLines
<1>6. AskLines'
  <2>1. \A i \in DOMAIN stdout' : stdout'[i].kind = "ask" => stdout'[i].r \in asked' \ Read'
    BY <1>1, <1>3, <1>4 DEF AskPlaces, AskLines
  <2>2. ASSUME NEW i \in DOMAIN stdout', NEW j \in DOMAIN stdout', stdout'[i].kind = "ask", stdout'[i] = stdout'[j]
        PROVE  i = j
    BY <1>1, <1>3, <1>5, <2>2 DEF AskPlaces, AskLines
  <2> QED
    BY <2>1, <2>2 DEF AskLines
<1>7. x.kind = "ask" => x = Ask(x.r)
  BY AskTold
<1>8. ReverseRequestsKept'
  BY <1>1, <1>3, <1>7 DEF AskPlaces, ReverseRequestsKept
<1> QED
  BY <1>4, <1>6, <1>8 DEF AskPlaces

\* "Reverse requests cannot be dropped": one the agent wrote is in the pipe, in one thread of
\* its own, or served, unless its thread was refused, and neither the channel, the end of
\* stdout nor a kill changes that.
THEOREM RequestsKept == Spec => []ReverseRequestsKept
<1>1. Init => AskPlaces
  BY DEF Init, AskPlaces, AskLines, Read, ReverseRequestsKept
<1>2. TypeOK /\ AskPlaces /\ [Next]_vars => AskPlaces'
  <2> SUFFICES ASSUME TypeOK, AskPlaces, [Next]_vars PROVE AskPlaces'
    OBVIOUS
  <2>0. UNCHANGED <<asked, stdout, reverse, refused, served>> => AskPlaces'
    BY DEF AskPlaces, AskLines, Read, ReverseRequestsKept
  <2>1. CASE ReadRequest \/ ReadAnswer \/ ReadNotification
    <3>1. /\ stdout # <<>> /\ stdout' = Tail(stdout) /\ UNCHANGED <<asked, served>>
          /\ \/ Head(stdout).kind = "ask" /\ \/ reverse' = reverse \cup {Head(stdout).r} /\ refused' = refused
                                             \/ refused' = refused \cup {Head(stdout).r} /\ reverse' = reverse
             \/ Head(stdout).kind # "ask" /\ UNCHANGED <<reverse, refused>>
      BY <2>1 DEF ReadRequest, ReadAnswer, ReadNotification, NextLine, uiVars, agentVars
    <3> QED
      BY <3>1, AskReadKeeps
  <2>2. CASE ReadEnds
    <3>1. UNCHANGED <<asked, reverse, refused, served>>
      BY <2>2 DEF ReadEnds, uiVars, agentVars
    <3>2. CASE UNCHANGED stdout
      BY <2>0, <3>1, <3>2
    <3>3. CASE stdout # <<>> /\ Head(stdout) = BrokenLine /\ stdout' = Tail(stdout)
      <4>1. BrokenLine.kind # "ask"
        BY DEF BrokenLine
      <4> QED
        BY <3>1, <3>3, <4>1, AskReadKeeps
    <3> QED
      BY <2>2, <3>2, <3>3 DEF ReadEnds
  <2>3. ASSUME NEW r \in Requests, DispatchReverse(r) PROVE AskPlaces'
    <3>1. /\ UNCHANGED <<asked, stdout, refused>> /\ r \in reverse
          /\ reverse' = reverse \ {r} /\ served' = served \cup {r}
      BY <2>3 DEF DispatchReverse, agentVars
    <3>2. Read' = Read
      BY <3>1 DEF Read
    <3> QED
      BY <3>1, <3>2 DEF AskPlaces, AskLines, ReverseRequestsKept
  <2>4. ASSUME NEW c \in Calls, NEW a \in Answers, AgentAnswers(c, a) PROVE AskPlaces'
    <3>1. Answer(c, a).kind # "ask"
      BY DEF Answer
    <3> QED
      BY <2>4, <3>1, LinesTyped, AskWrittenKeeps DEF AgentAnswers, readerVars, uiVars
  <2>5. CASE AgentNotifies
    <3>1. nextNote \in 1..MaxNotes
      BY <2>5, CapsPositive DEF AgentNotifies, TypeOK
    <3>2. Note(nextNote).kind # "ask"
      BY DEF Note
    <3> QED
      BY <2>5, <3>1, <3>2, LinesTyped, AskWrittenKeeps DEF AgentNotifies, readerVars, uiVars
  <2>6. ASSUME NEW r \in Requests, AgentAsks(r) PROVE AskPlaces'
    <3>1. Ask(r).kind = "ask" /\ Ask(r).r = r
      BY DEF Ask
    <3> QED
      BY <2>6, <3>1, LinesTyped, AskWrittenKeeps DEF AgentAsks, readerVars, uiVars
  <2>7. CASE AgentGarbles
    <3>1. BrokenLine.kind # "ask"
      BY DEF BrokenLine
    <3> QED
      BY <2>7, <3>1, LinesTyped, AskWrittenKeeps DEF AgentGarbles, readerVars, uiVars, agentVars
  <2>8. ASSUME NEW o \in Ops, Caller(o) PROVE AskPlaces'
    BY <2>0, <2>8 DEF Caller, Send, SendFails, Receive, readerVars, uiVars, agentVars
  <2>9. ASSUME NEW c \in Calls, Expire(c) \/ Deadline(c) PROVE AskPlaces'
    BY <2>0, <2>9 DEF Expire, Deadline, MarkAbandoned, TrySendAbandon, readerVars, uiVars, agentVars
  <2>10. CASE Writer
    BY <2>0, <2>10 DEF Writer, TakeCommand, WriteLine, WriteFails, CheckToken, InsertWaiter, RecheckToken,
       FailAllSend, WriterReports, KillDrains, KillReaps, FinalDrain, FinalReap, readerVars, uiVars, agentVars
  <2>11. CASE ReaderReports \/ ReaderDrains \/ DispatchNotification
    BY <2>0, <2>11 DEF ReaderReports, ReaderDrains, DispatchNotification, uiVars, agentVars
  <2>12. CASE AgentExits \/ AgentStalls \/ AgentDrains \/ UNCHANGED vars
    BY <2>0, <2>12 DEF AgentExits, AgentStalls, AgentDrains, vars, readerVars, uiVars, agentVars
  <2> QED
    BY <2>1, <2>2, <2>3, <2>4, <2>5, <2>6, <2>7, <2>8, <2>9, <2>10, <2>11, <2>12 DEF Next, Reader, Agent
<1>3. AskPlaces => ReverseRequestsKept
  BY DEF AskPlaces
<1> QED
  BY <1>1, <1>2, <1>3, TypeCorrect, PTL DEF Spec

-----------------------------------------------------------------------------
(* The gateway implements RpcContract.                                     *)

returnedTo == [c \in Calls |-> outcome[c]]

\* A call that returns is the only change RpcContract sees.
LEMMA ReturnIsUpdate ==
    ASSUME TypeOK, NEW c \in Calls, NEW v, outcome' = [outcome EXCEPT ![c] = v]
    PROVE  returnedTo' = [returnedTo EXCEPT ![c] = v]
  BY DEF TypeOK, returnedTo, Ops

\* Every step of the gateway is a step of RpcContract or leaves what it sees alone.
LEMMA StepRefines ==
    IInv /\ [Next]_vars => [Contract!ContractNext]_(Contract!vars)
<1> SUFFICES ASSUME IInv, [Next]_vars
             PROVE  [Contract!ContractNext]_(Contract!vars)
  OBVIOUS
<1>T. TypeOK /\ OutcomePending /\ RepliesMatch /\ HandFresh
  BY DEF IInv
<1>1. CASE UNCHANGED <<inbox, answer, outcome>>
  BY <1>1 DEF Contract!vars
<1>2. ASSUME NEW c \in Calls, NEW f \in {"sendFailed", "recvFailed", "timeout"},
             outcome' = [outcome EXCEPT ![c] = f], stage[c] # "done",
             UNCHANGED <<inbox, answer>>
      PROVE  Contract!ContractNext
  <2>1. returnedTo[c] = "none"
    BY <1>2, <1>T DEF returnedTo, OutcomePending, Ops
  <2>2. returnedTo' = [returnedTo EXCEPT ![c] = f]
    BY <1>2, <1>T, ReturnIsUpdate
  <2>3. Contract!ReturnFailure(c, f)
    BY <1>2, <2>1, <2>2 DEF Contract!ReturnFailure, returnedTo
  <2> QED
    BY <1>2, <2>3 DEF Contract!ContractNext
<1>3. ASSUME NEW o \in Ops, SendFails(o)
      PROVE  [Contract!ContractNext]_(Contract!vars)
  <2>1. CASE o \in Calls
    <3>1. o \notin Kills
      BY <2>1, OpsDisjoint
    <3>2. outcome' = [outcome EXCEPT ![o] = "sendFailed"]
      BY <1>3, <3>1 DEF SendFails
    <3>3. stage[o] # "done" /\ UNCHANGED <<inbox, answer>>
      BY <1>3 DEF SendFails, agentVars
    <3> QED
      BY <2>1, <3>2, <3>3, <1>2
  <2>2. CASE o \notin Calls
    <3>1. returnedTo' = returnedTo /\ UNCHANGED <<inbox, answer>>
      BY <1>3, <2>2, <1>T DEF SendFails, agentVars, TypeOK, returnedTo, Ops
    <3> QED
      BY <3>1 DEF Contract!vars, returnedTo
  <2> QED
    BY <2>1, <2>2
<1>4. ASSUME NEW o \in Ops, Receive(o)
      PROVE  [Contract!ContractNext]_(Contract!vars)
  <2>1. CASE o \in Calls
    <3>1. o \notin Kills
      BY <2>1, OpsDisjoint
    <3>2. /\ outcome' = [outcome EXCEPT ![o] = reply[o]] /\ UNCHANGED <<inbox, answer>>
          /\ stage[o] # "done" /\ reply[o] # "none"
      BY <1>4, <3>1 DEF Receive, agentVars
    <3>3. CASE reply[o] \in Failures
      BY <2>1, <3>2, <3>3, <1>2 DEF Failures
    <3>4. CASE reply[o] \in Answers
      <4>1. returnedTo[o] = "none"
        BY <2>1, <3>2, <1>T DEF returnedTo, OutcomePending, Ops
      <4>2. reply[o] = answer[o] /\ answer[o] # "none"
        BY <2>1, <3>2, <3>4, <1>T DEF RepliesMatch
      <4>3. returnedTo' = [returnedTo EXCEPT ![o] = answer[o]]
        BY <2>1, <3>2, <4>2, <1>T, ReturnIsUpdate
      <4>4. Contract!ReturnAnswer(o)
        BY <3>2, <4>1, <4>2, <4>3 DEF Contract!ReturnAnswer, returnedTo
      <4> QED
        BY <2>1, <4>4 DEF Contract!ContractNext
    <3>5. reply[o] \in Failures \cup Answers
      BY <2>1, <3>2, <1>T DEF TypeOK, RepliesMatch, Ops
    <3> QED
      BY <3>3, <3>4, <3>5
  <2>2. CASE o \notin Calls
    <3>1. returnedTo' = returnedTo /\ UNCHANGED <<inbox, answer>>
      BY <1>4, <2>2, <1>T DEF Receive, agentVars, TypeOK, returnedTo, Ops
    <3> QED
      BY <3>1 DEF Contract!vars, returnedTo
  <2> QED
    BY <2>1, <2>2
<1>5. ASSUME NEW c \in Calls, TrySendAbandon(c)
      PROVE  Contract!ContractNext
  BY <1>5, <1>2 DEF TrySendAbandon, agentVars
<1>6. CASE WriteLine
  <2>1. CASE wop \in Calls
    <3>1. /\ wop \notin inbox /\ inbox' = inbox \cup {wop}
          /\ UNCHANGED <<answer, outcome>>
      BY <1>6, <2>1, <1>T DEF WriteLine, HandFresh, callerVars
    <3>2. Contract!Transmit(wop)
      BY <3>1 DEF Contract!Transmit
    <3> QED
      BY <2>1, <3>2 DEF Contract!ContractNext
  <2>2. CASE wop \notin Calls
    BY <1>1, <1>6, <2>2 DEF WriteLine, callerVars
  <2> QED
    BY <2>1, <2>2
<1>7. ASSUME NEW c \in Calls, NEW a \in Answers, AgentAnswers(c, a)
      PROVE  Contract!ContractNext
  <2>1. Contract!Respond(c, a)
    BY <1>7 DEF AgentAnswers, Contract!Respond, callerVars
  <2> QED
    BY <2>1 DEF Contract!ContractNext
<1> QED
  BY <1>1, <1>3, <1>4, <1>5, <1>6, <1>7
  DEF Next, Caller, Deadline, Writer, Reader, Agent, Send, Expire, MarkAbandoned,
      TakeCommand, WriteFails, CheckToken, InsertWaiter, RecheckToken,
      FailAllSend, WriterReports, KillDrains, KillReaps, FinalDrain, FinalReap,
      ReadAnswer, ReadRequest, ReadNotification, ReadEnds, ReaderReports,
      ReaderDrains, DispatchNotification, DispatchReverse, AgentNotifies,
      AgentAsks, AgentGarbles, AgentExits, AgentStalls, AgentDrains, vars,
      callerVars, agentVars

\* Every behaviour of the gateway is one of RpcContract: a call returns at most
\* once, with a failure of the host or the agent's answer to that very request.
THEOREM Refinement == Spec => ImplementsContract
<1>1. Init => Contract!ContractInit
  BY DEF Init, Contract!ContractInit, Ops
<1>2. IInv /\ [Next]_vars => [Contract!ContractNext]_(Contract!vars)
  BY StepRefines
<1> QED
  BY <1>1, <1>2, Inductive, PTL
  DEF Spec, ImplementsContract, Contract!ContractSpec
=============================================================================
