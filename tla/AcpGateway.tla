----------------------------- MODULE AcpGateway -----------------------------
(***************************************************************************)
(* The stdio JSON-RPC gateway of one agent process                         *)
(* (src-tauri/src/acp/gateway.rs).  Five kinds of thread meet here:        *)
(*   - the callers of call(), write_line() and kill(), one per operation;  *)
(*   - the writer thread run_gateway, which owns the child's stdin;        *)
(*   - the reader thread run_stdout_reader, which demultiplexes stdout;    *)
(*   - the notification dispatcher, and one thread per reverse request.    *)
(* Each action is one step of one thread between two points at which       *)
(* another thread can observe it (a channel operation, a lock section, an  *)
(* atomic flag, a system call).  The agent process is the environment.     *)
(***************************************************************************)
EXTENDS Naturals, Sequences, FiniteSets

CONSTANTS
    Calls,       \* invocations of call(), each used once
    Writes,      \* invocations of write_line()
    Kills,       \* invocations of kill(), Drop included
    Requests,    \* reverse requests the agent may issue
    Answers,     \* what a response may decode to
    CmdCap,      \* CMD_QUEUE_CAPACITY
    NotifyCap,   \* NOTIFICATION_QUEUE_CAPACITY
    MaxNotes,    \* bound: notifications the agent emits in a behaviour
    MaxStalls,   \* bound: how often the agent stops draining its stdin
    None         \* no operation in hand

Ops == Calls \cup Writes \cup Kills

ASSUME OpsDisjoint ==
    /\ Calls \cap Writes = {}
    /\ Calls \cap Kills = {}
    /\ Writes \cap Kills = {}
    /\ None \notin Ops

ASSUME CapsPositive ==
    /\ CmdCap \in Nat \ {0}
    /\ NotifyCap \in Nat \ {0}
    /\ MaxNotes \in Nat
    /\ MaxStalls \in Nat

ASSUME AnswersDecoded == Answers \subseteq {"result", "rpcError", "transportClosed"}

VARIABLES
    stage,       \* op -> where its caller is
    outcome,     \* op -> what the caller was returned
    reply,       \* op -> what its oneshot reply channel holds
    token,       \* call -> its abandon flag
    abandonLost, \* calls whose Abandon found the command queue full (history)
    cmdq,        \* the bounded command channel
    wpc, wop,    \* writer thread: program counter, operation in hand
    pend,        \* calls registered in the pending map
    rpc,         \* reader thread: program counter
    reported,    \* close_reported
    closedBy,    \* threads that delivered transport_closed (history)
    notifyq,     \* the bounded notification channel
    delivered,   \* notifications handed to on_notify, in order
    reverse,     \* reverse requests whose dispatch thread was spawned
    refused,     \* reverse requests whose dispatch thread was not given (history)
    served,      \* reverse requests handed to on_notify
    child,       \* the agent process
    stdinFull,   \* the agent is not draining its stdin and the pipe is full
    stalls,      \* how often that has happened
    inbox,       \* calls whose request line was written to stdin
    answer,      \* call -> what the agent answered
    stdout,      \* lines written by the agent and not yet read
    nextNote, asked

callerVars == <<stage, outcome, token, abandonLost>>
writerVars == <<wpc, wop>>
readerVars == <<rpc, notifyq, reverse, refused>>
uiVars     == <<delivered, served>>
agentVars  == <<stdinFull, stalls, inbox, answer, nextNote, asked>>
vars == <<callerVars, reply, cmdq, writerVars, pend, readerVars, reported,
          closedBy, uiVars, child, agentVars, stdout>>

Failures  == {"sendFailed", "recvFailed"}
Stages    == {"idle", "waiting", "expired", "marked", "done"}
WriterPcs == {"recv", "write", "check", "insert", "recheck", "failSend",
              "report", "killDrain", "killReap", "finalDrain", "finalReap",
              "gone"}
ReaderPcs == {"read", "report", "drain", "gone"}

Cmd(k, o) == [kind |-> k, op |-> o]
Commands  == [kind : {"call", "abandon"}, op : Calls]
                \cup [kind : {"write"}, op : Writes] \cup [kind : {"kill"}, op : Kills]
KindOf(o) == IF o \in Calls THEN "call" ELSE IF o \in Writes THEN "write" ELSE "kill"

Note(n)       == [kind |-> "note", n |-> n]
Ask(r)        == [kind |-> "ask", r |-> r]
Answer(c, a)  == [kind |-> "answer", c |-> c, a |-> a]
BrokenLine    == [kind |-> "broken"]
StrayResponse == 0     \* an unmatched response in the notification channel

Lines == [kind : {"note"}, n : 1..MaxNotes] \cup [kind : {"ask"}, r : Requests]
            \cup [kind : {"answer"}, c : Calls, a : Answers] \cup {BrokenLine}

TypeOK ==
    /\ stage \in [Ops -> Stages]
    /\ outcome \in [Ops -> {"none", "ok", "timeout"} \cup Answers \cup Failures]
    /\ reply \in [Ops -> {"none", "ok"} \cup Answers \cup Failures]
    /\ token \in [Calls -> BOOLEAN]
    /\ abandonLost \subseteq Calls
    /\ cmdq \in Seq(Commands)
    /\ Len(cmdq) <= CmdCap
    /\ wpc \in WriterPcs
    /\ wop \in Ops \cup {None}
    /\ wpc = "write" => wop \in Calls \cup Writes
    /\ wpc \in {"check", "insert", "recheck"} => wop \in Calls
    /\ wpc \in {"killDrain", "killReap"} => wop \in Kills
    /\ pend \subseteq Calls
    /\ rpc \in ReaderPcs
    /\ reported \in BOOLEAN
    /\ closedBy \subseteq {"writer", "reader"}
    /\ notifyq \in Seq(0..MaxNotes)
    /\ Len(notifyq) <= NotifyCap
    /\ delivered \in Seq(0..MaxNotes)
    /\ reverse \subseteq Requests
    /\ refused \subseteq Requests
    /\ served \subseteq Requests
    /\ child \in {"running", "exited"}
    /\ stdinFull \in BOOLEAN
    /\ stalls \in 0..MaxStalls
    /\ inbox \subseteq Calls
    /\ answer \in [Calls -> {"none"} \cup Answers]
    /\ stdout \in Seq(Lines)
    /\ nextNote \in 1..(MaxNotes + 1)
    /\ asked \subseteq Requests

Init ==
    /\ stage = [o \in Ops |-> "idle"]
    /\ outcome = [o \in Ops |-> "none"]
    /\ reply = [o \in Ops |-> "none"]
    /\ token = [c \in Calls |-> FALSE]
    /\ abandonLost = {}
    /\ cmdq = <<>>
    /\ wpc = "recv" /\ wop = None
    /\ pend = {}
    /\ rpc = "read"
    /\ reported = FALSE /\ closedBy = {}
    /\ notifyq = <<>> /\ delivered = <<>>
    /\ reverse = {} /\ refused = {} /\ served = {}
    /\ child = "running"
    /\ stdinFull = FALSE /\ stalls = 0
    /\ inbox = {}
    /\ answer = [c \in Calls |-> "none"]
    /\ stdout = <<>>
    /\ nextNote = 1 /\ asked = {}

-----------------------------------------------------------------------------
(* Callers.                                                                *)

\* call / write_line / kill: cmd_tx.send blocks while the channel is full.
Send(o) ==
    /\ stage[o] = "idle"
    /\ wpc # "gone"
    /\ Len(cmdq) < CmdCap
    /\ cmdq' = Append(cmdq, Cmd(KindOf(o), o))
    /\ stage' = [stage EXCEPT ![o] = "waiting"]
    /\ UNCHANGED <<outcome, reply, token, abandonLost, writerVars, pend,
                   readerVars, reported, closedBy, uiVars, child, agentVars,
                   stdout>>

\* cmd_tx.send fails once the writer has dropped cmd_rx.  kill() then reaps
\* the child itself.
SendFails(o) ==
    /\ stage[o] = "idle"
    /\ wpc = "gone"
    /\ stage' = [stage EXCEPT ![o] = "done"]
    /\ outcome' = [outcome EXCEPT ![o] = IF o \in Kills THEN "ok" ELSE "sendFailed"]
    /\ child' = IF o \in Kills THEN "exited" ELSE child
    /\ UNCHANGED <<reply, token, abandonLost, cmdq, writerVars, pend,
                   readerVars, reported, closedBy, uiVars, agentVars, stdout>>

\* reply_rx.recv / recv_timeout returns what the channel holds; kill() turns a
\* dropped reply into a direct kill_child.
Receive(o) ==
    /\ stage[o] = "waiting"
    /\ reply[o] # "none"
    /\ stage' = [stage EXCEPT ![o] = "done"]
    /\ outcome' = [outcome EXCEPT ![o] = IF o \in Kills THEN "ok" ELSE reply[o]]
    /\ child' = IF o \in Kills /\ reply[o] = "recvFailed" THEN "exited" ELSE child
    /\ UNCHANGED <<reply, token, abandonLost, cmdq, writerVars, pend,
                   readerVars, reported, closedBy, uiVars, agentVars, stdout>>

\* recv_timeout gives up; only call() has a deadline.
Expire(c) ==
    /\ stage[c] = "waiting"
    /\ reply[c] = "none"
    /\ stage' = [stage EXCEPT ![c] = "expired"]
    /\ UNCHANGED <<outcome, reply, token, abandonLost, cmdq, writerVars, pend,
                   readerVars, reported, closedBy, uiVars, child, agentVars,
                   stdout>>

\* token.store(true)
MarkAbandoned(c) ==
    /\ stage[c] = "expired"
    /\ stage' = [stage EXCEPT ![c] = "marked"]
    /\ token' = [token EXCEPT ![c] = TRUE]
    /\ UNCHANGED <<outcome, reply, abandonLost, cmdq, writerVars, pend,
                   readerVars, reported, closedBy, uiVars, child, agentVars,
                   stdout>>

\* cmd_tx.try_send(Abandon): best effort, never blocks.
TrySendAbandon(c) ==
    /\ stage[c] = "marked"
    /\ stage' = [stage EXCEPT ![c] = "done"]
    /\ outcome' = [outcome EXCEPT ![c] = "timeout"]
    /\ IF wpc # "gone" /\ Len(cmdq) < CmdCap
       THEN /\ cmdq' = Append(cmdq, Cmd("abandon", c))
            /\ UNCHANGED abandonLost
       ELSE /\ abandonLost' = abandonLost \cup {c}
            /\ UNCHANGED cmdq
    /\ UNCHANGED <<reply, token, writerVars, pend, readerVars, reported,
                   closedBy, uiVars, child, agentVars, stdout>>

-----------------------------------------------------------------------------
(* The writer thread, run_gateway.                                         *)

\* Mutants of TakeCommand: an Abandon retains the entries it should drop; a Kill
\* returns from the thread before it reaps the child.
TakeCommandKeepsAbandoned ==
    /\ wpc = "recv" /\ cmdq # <<>>
    /\ cmdq' = Tail(cmdq)
    /\ LET cmd == Head(cmdq) IN
         IF cmd.kind = "abandon"
         THEN pend' = pend \cap {cmd.op} /\ UNCHANGED writerVars
         ELSE /\ wpc' = IF cmd.kind = "kill" THEN "killDrain" ELSE "write"
              /\ wop' = cmd.op
              /\ UNCHANGED pend
    /\ UNCHANGED <<callerVars, reply, readerVars, reported, closedBy, uiVars,
                   child, agentVars, stdout>>

TakeCommandReturnsOnKill ==
    /\ wpc = "recv" /\ cmdq # <<>>
    /\ cmdq' = Tail(cmdq)
    /\ LET cmd == Head(cmdq) IN
         IF cmd.kind = "abandon"
         THEN pend' = pend \ {cmd.op} /\ UNCHANGED writerVars
         ELSE /\ wpc' = IF cmd.kind = "kill" THEN "gone" ELSE "write"
              /\ wop' = cmd.op
              /\ UNCHANGED pend
    /\ UNCHANGED <<callerVars, reply, readerVars, reported, closedBy, uiVars,
                   child, agentVars, stdout>>

\* cmd_rx.recv: a Call or Write goes on to write its line, a Kill to fail the
\* waiters; an Abandon is carried out at once, under the pending lock.
TakeCommand ==
    /\ wpc = "recv"
    /\ cmdq # <<>>
    /\ cmdq' = Tail(cmdq)
    /\ LET cmd == Head(cmdq) IN
         \/ /\ cmd.kind \in {"call", "write"}
            /\ wpc' = "write" /\ wop' = cmd.op
            /\ UNCHANGED pend
         \/ /\ cmd.kind = "kill"
            /\ wpc' = "killDrain" /\ wop' = cmd.op
            /\ UNCHANGED pend
         \/ /\ cmd.kind = "abandon"
            /\ pend' = pend \ {cmd.op}
            /\ UNCHANGED writerVars
    /\ UNCHANGED <<callerVars, reply, readerVars, reported, closedBy, uiVars,
                   child, agentVars, stdout>>

\* writeln + flush succeed: the line is in the pipe.
WriteLine ==
    /\ wpc = "write"
    /\ child = "running"
    /\ ~stdinFull
    /\ IF wop \in Calls
       THEN /\ inbox' = inbox \cup {wop}
            /\ wpc' = "check"
            /\ UNCHANGED <<wop, reply>>
       ELSE /\ reply' = [reply EXCEPT ![wop] = "ok"]
            /\ wpc' = "recv" /\ wop' = None
            /\ UNCHANGED inbox
    /\ UNCHANGED <<callerVars, cmdq, pend, readerVars, reported, closedBy,
                   uiVars, child, stdinFull, stalls, answer, nextNote, asked,
                   stdout>>

\* writeln fails: stdin is dead.  A caller that already gave up is not told.
WriteFails ==
    /\ wpc = "write"
    /\ child = "exited"
    /\ reply' = IF wop \in Calls /\ token[wop]
                THEN reply ELSE [reply EXCEPT ![wop] = "sendFailed"]
    /\ wpc' = "failSend" /\ wop' = None
    /\ UNCHANGED <<callerVars, cmdq, pend, readerVars, reported, closedBy,
                   uiVars, child, agentVars, stdout>>

\* if token.load() { continue }
CheckToken ==
    /\ wpc = "check"
    /\ IF token[wop] THEN wpc' = "recv" /\ wop' = None
                     ELSE wpc' = "insert" /\ UNCHANGED wop
    /\ UNCHANGED <<callerVars, reply, cmdq, pend, readerVars, reported,
                   closedBy, uiVars, child, agentVars, stdout>>

\* pending.insert(id, entry), after the line was written
InsertWaiter ==
    /\ wpc = "insert"
    /\ pend' = pend \cup {wop}
    /\ wpc' = "recheck"
    /\ UNCHANGED <<callerVars, reply, cmdq, wop, readerVars, reported,
                   closedBy, uiVars, child, agentVars, stdout>>

\* re-check after insert
RecheckToken ==
    /\ wpc = "recheck"
    /\ pend' = IF token[wop] THEN pend \ {wop} ELSE pend
    /\ wpc' = "recv" /\ wop' = None
    /\ UNCHANGED <<callerVars, reply, cmdq, readerVars, reported, closedBy,
                   uiVars, child, agentVars, stdout>>

\* fail_all_pending_with: drain the map, then complete every drained oneshot.
FailAllPending(failure) ==
    /\ reply' = [o \in Ops |-> IF o \in pend THEN failure ELSE reply[o]]
    /\ pend' = {}

FailAllSend ==
    /\ wpc = "failSend"
    /\ FailAllPending("sendFailed")
    /\ wpc' = "report"
    /\ UNCHANGED <<callerVars, cmdq, wop, readerVars, reported, closedBy,
                   uiVars, child, agentVars, stdout>>

\* report_transport_closed: the first of the two threads notifies.
ReportClosed(thread) ==
    /\ closedBy' = IF reported THEN closedBy ELSE closedBy \cup {thread}
    /\ reported' = TRUE

WriterReports ==
    /\ wpc = "report"
    /\ ReportClosed("writer")
    /\ wpc' = "finalDrain"
    /\ UNCHANGED <<callerVars, reply, cmdq, wop, pend, readerVars, uiVars,
                   child, agentVars, stdout>>

\* GatewayCmd::Kill
KillDrains ==
    /\ wpc = "killDrain"
    /\ FailAllPending("recvFailed")
    /\ wpc' = "killReap"
    /\ UNCHANGED <<callerVars, cmdq, wop, readerVars, reported, closedBy,
                   uiVars, child, agentVars, stdout>>

KillReaps ==
    /\ wpc = "killReap"
    /\ child' = "exited"
    /\ reply' = [reply EXCEPT ![wop] = "ok"]
    /\ wpc' = "finalDrain" /\ wop' = None
    /\ UNCHANGED <<callerVars, cmdq, pend, readerVars, reported, closedBy,
                   uiVars, agentVars, stdout>>

\* after the loop: fail the waiters once more ...
FinalDrain ==
    /\ wpc = "finalDrain"
    /\ FailAllPending("recvFailed")
    /\ wpc' = "finalReap"
    /\ UNCHANGED <<callerVars, cmdq, wop, readerVars, reported, closedBy,
                   uiVars, child, agentVars, stdout>>

\* ... kill_child, and return: the channel and the replies queued in it drop.
FinalReap ==
    /\ wpc = "finalReap"
    /\ child' = "exited"
    /\ reply' = [o \in Ops |->
                   IF \E i \in DOMAIN cmdq : cmdq[i] = Cmd(KindOf(o), o)
                   THEN "recvFailed" ELSE reply[o]]
    /\ cmdq' = <<>>
    /\ wpc' = "gone"
    /\ UNCHANGED <<callerVars, wop, pend, readerVars, reported, closedBy,
                   uiVars, agentVars, stdout>>

Writer ==
    \/ TakeCommand \/ WriteLine \/ WriteFails \/ CheckToken \/ InsertWaiter
    \/ RecheckToken \/ FailAllSend \/ WriterReports \/ KillDrains \/ KillReaps
    \/ FinalDrain \/ FinalReap

-----------------------------------------------------------------------------
(* The reader thread, run_stdout_reader.                                   *)

\* Mutant: the channel has no capacity.
OfferUnbounded(m) == notifyq' = Append(notifyq, m)

\* notify_tx.try_send: a full channel drops the message.
Offer(m) == notifyq' = IF Len(notifyq) < NotifyCap THEN Append(notifyq, m) ELSE notifyq

NextLine(kind) ==
    /\ rpc = "read"
    /\ stdout # <<>>
    /\ Head(stdout).kind = kind
    /\ stdout' = Tail(stdout)

\* Mutants of ReadAnswer: the waiter is looked up but not removed; a response
\* completes some waiter, not its own; the error code is ignored.
ReadAnswerGets ==
    /\ NextLine("answer")
    /\ LET line == Head(stdout) IN
         IF line.c \in pend
         THEN reply' = [reply EXCEPT ![line.c] = line.a] /\ UNCHANGED notifyq
         ELSE Offer(StrayResponse) /\ UNCHANGED reply
    /\ UNCHANGED <<callerVars, cmdq, writerVars, pend, rpc, reverse, refused, reported,
                   closedBy, uiVars, child, agentVars>>

ReadAnswerAnyWaiter ==
    /\ NextLine("answer")
    /\ \E c \in pend :
         /\ pend' = pend \ {c}
         /\ reply' = [reply EXCEPT ![c] = Head(stdout).a]
    /\ UNCHANGED <<callerVars, cmdq, writerVars, rpc, notifyq, reverse, refused, reported,
                   closedBy, uiVars, child, agentVars>>

\* A response takes its waiter out of the map and completes the oneshot; one
\* that matches no waiter falls through to the notification channel.
ReadAnswer ==
    /\ NextLine("answer")
    /\ LET line == Head(stdout) IN
         IF line.c \in pend
         THEN /\ pend' = pend \ {line.c}
              /\ reply' = [reply EXCEPT ![line.c] = line.a]
              /\ UNCHANGED notifyq
         ELSE /\ Offer(StrayResponse)
              /\ UNCHANGED <<pend, reply>>
    /\ UNCHANGED <<callerVars, cmdq, writerVars, rpc, reverse, refused, reported,
                   closedBy, uiVars, child, agentVars>>

\* Mutant: a reverse request goes through the bounded channel.
ReadRequestQueued ==
    /\ NextLine("ask")
    /\ IF Len(notifyq) < NotifyCap
       THEN reverse' = reverse \cup {Head(stdout).r}
       ELSE UNCHANGED reverse
    /\ UNCHANGED <<callerVars, reply, cmdq, writerVars, pend, rpc, notifyq,
                   refused, reported, closedBy, uiVars, child, agentVars>>

\* A reverse request gets a thread of its own; when the system refuses the thread the
\* error is discarded, and the request with it.
ReadRequest ==
    /\ NextLine("ask")
    /\ \/ reverse' = reverse \cup {Head(stdout).r} /\ UNCHANGED refused
       \/ refused' = refused \cup {Head(stdout).r} /\ UNCHANGED reverse
    /\ UNCHANGED <<callerVars, reply, cmdq, writerVars, pend, rpc, notifyq,
                   reported, closedBy, uiVars, child, agentVars>>

\* Mutant: when the channel is full the reader calls on_notify itself.
ReadNotificationInline ==
    /\ NextLine("note")
    /\ Offer(Head(stdout).n)
    /\ delivered' = IF Len(notifyq) < NotifyCap THEN delivered
                    ELSE Append(delivered, Head(stdout).n)
    /\ UNCHANGED <<callerVars, reply, cmdq, writerVars, pend, rpc, reverse, refused,
                   reported, closedBy, served, child, agentVars>>

ReadNotification ==
    /\ NextLine("note")
    /\ Offer(Head(stdout).n)
    /\ UNCHANGED <<callerVars, reply, cmdq, writerVars, pend, rpc, reverse, refused,
                   reported, closedBy, uiVars, child, agentVars>>

\* Mutant: the end of stdout is not reported.
ReadEndsSilently ==
    /\ rpc = "read"
    /\ stdout = <<>> /\ child = "exited"
    /\ rpc' = "drain"
    /\ UNCHANGED <<callerVars, reply, cmdq, writerVars, pend, notifyq, reverse, refused,
                   reported, closedBy, uiVars, child, agentVars, stdout>>

\* lines() ends: EOF of an exited child, or a line that is not UTF-8.
ReadEnds ==
    /\ rpc = "read"
    /\ \/ stdout = <<>> /\ child = "exited" /\ UNCHANGED stdout
       \/ stdout # <<>> /\ Head(stdout) = BrokenLine /\ stdout' = Tail(stdout)
    /\ rpc' = "report"
    /\ UNCHANGED <<callerVars, reply, cmdq, writerVars, pend, notifyq, reverse, refused,
                   reported, closedBy, uiVars, child, agentVars>>

ReaderReports ==
    /\ rpc = "report"
    /\ ReportClosed("reader")
    /\ rpc' = "drain"
    /\ UNCHANGED <<callerVars, reply, cmdq, writerVars, pend, notifyq, reverse, refused,
                   uiVars, child, agentVars, stdout>>

\* Mutant: the reader leaves the waiters behind.
ReaderLeaves ==
    /\ rpc = "drain"
    /\ rpc' = "gone"
    /\ UNCHANGED <<callerVars, reply, cmdq, writerVars, pend, notifyq, reverse, refused,
                   reported, closedBy, uiVars, child, agentVars, stdout>>

ReaderDrains ==
    /\ rpc = "drain"
    /\ FailAllPending("recvFailed")
    /\ rpc' = "gone"
    /\ UNCHANGED <<callerVars, cmdq, writerVars, notifyq, reverse, refused, reported,
                   closedBy, uiVars, child, agentVars, stdout>>

Reader ==
    \/ ReadAnswer \/ ReadRequest \/ ReadNotification \/ ReadEnds
    \/ ReaderReports \/ ReaderDrains

-----------------------------------------------------------------------------
(* Dispatch threads.                                                       *)

DispatchNotification ==
    /\ notifyq # <<>>
    /\ delivered' = Append(delivered, Head(notifyq))
    /\ notifyq' = Tail(notifyq)
    /\ UNCHANGED <<callerVars, reply, cmdq, writerVars, pend, rpc, reverse, refused,
                   reported, closedBy, served, child, agentVars, stdout>>

DispatchReverse(r) ==
    /\ r \in reverse
    /\ reverse' = reverse \ {r}
    /\ served' = served \cup {r}
    /\ UNCHANGED <<callerVars, reply, cmdq, writerVars, pend, rpc, notifyq,
                   refused, reported, closedBy, delivered, child, agentVars, stdout>>

-----------------------------------------------------------------------------
(* The agent process (environment).                                        *)

AgentAnswers(c, a) ==
    /\ child = "running"
    /\ c \in inbox
    /\ answer[c] = "none"
    /\ answer' = [answer EXCEPT ![c] = a]
    /\ stdout' = Append(stdout, Answer(c, a))
    /\ UNCHANGED <<callerVars, reply, cmdq, writerVars, pend, readerVars,
                   reported, closedBy, uiVars, child, stdinFull, stalls, inbox,
                   nextNote, asked>>

AgentNotifies ==
    /\ child = "running"
    /\ nextNote <= MaxNotes
    /\ stdout' = Append(stdout, Note(nextNote))
    /\ nextNote' = nextNote + 1
    /\ UNCHANGED <<callerVars, reply, cmdq, writerVars, pend, readerVars,
                   reported, closedBy, uiVars, child, stdinFull, stalls, inbox,
                   answer, asked>>

AgentAsks(r) ==
    /\ child = "running"
    /\ r \notin asked
    /\ asked' = asked \cup {r}
    /\ stdout' = Append(stdout, Ask(r))
    /\ UNCHANGED <<callerVars, reply, cmdq, writerVars, pend, readerVars,
                   reported, closedBy, uiVars, child, stdinFull, stalls, inbox,
                   answer, nextNote>>

\* A line that is not UTF-8 ends the reader's lines(), whatever follows it.
AgentGarbles ==
    /\ child = "running"
    /\ rpc = "read"
    /\ \A i \in DOMAIN stdout : stdout[i] # BrokenLine
    /\ stdout' = Append(stdout, BrokenLine)
    /\ UNCHANGED <<callerVars, reply, cmdq, writerVars, pend, readerVars,
                   reported, closedBy, uiVars, child, agentVars>>

AgentExits ==
    /\ child = "running"
    /\ child' = "exited"
    /\ UNCHANGED <<callerVars, reply, cmdq, writerVars, pend, readerVars,
                   reported, closedBy, uiVars, agentVars, stdout>>

AgentStalls ==
    /\ child = "running"
    /\ ~stdinFull
    /\ stalls < MaxStalls
    /\ stdinFull' = TRUE /\ stalls' = stalls + 1
    /\ UNCHANGED <<callerVars, reply, cmdq, writerVars, pend, readerVars,
                   reported, closedBy, uiVars, child, inbox, answer,
                   nextNote, asked, stdout>>

AgentDrains ==
    /\ stdinFull
    /\ stdinFull' = FALSE
    /\ UNCHANGED <<callerVars, reply, cmdq, writerVars, pend, readerVars,
                   reported, closedBy, uiVars, child, stalls, inbox, answer,
                   nextNote, asked, stdout>>

-----------------------------------------------------------------------------
Caller(o) == Send(o) \/ SendFails(o) \/ Receive(o)
Deadline(c) == MarkAbandoned(c) \/ TrySendAbandon(c)

Agent ==
    \/ \E c \in Calls, a \in Answers : AgentAnswers(c, a)
    \/ AgentNotifies
    \/ \E r \in Requests : AgentAsks(r)
    \/ AgentGarbles \/ AgentExits \/ AgentStalls \/ AgentDrains

Next ==
    \/ \E o \in Ops : Caller(o)
    \/ \E c \in Calls : Expire(c) \/ Deadline(c)
    \/ Writer \/ Reader
    \/ DispatchNotification \/ \E r \in Requests : DispatchReverse(r)
    \/ Agent

Spec == Init /\ [][Next]_vars

\* The operating system runs every thread of the host; nothing is assumed of
\* deadlines or of the agent.
Threads ==
    /\ WF_vars(Writer) /\ WF_vars(Reader)
    /\ \A o \in Ops : WF_vars(Receive(o))
    /\ \A c \in Calls : WF_vars(Deadline(c))
    /\ WF_vars(DispatchNotification)
    /\ \A r \in Requests : WF_vars(DispatchReverse(r))

FairSpec == Spec /\ Threads

-----------------------------------------------------------------------------
(* Safety.                                                                 *)

QueuedAt(i, k, c) == i \in DOMAIN cmdq /\ cmdq[i] = Cmd(k, c)
Queued(k, c)      == \E i \in DOMAIN cmdq : QueuedAt(i, k, c)

\* Every waiter in the pending map belongs to a request that was written and is
\* still unanswered, and a waiter whose caller has given up is one that somebody
\* will still remove: the writer's re-check, the caller about to send Abandon,
\* an Abandon in the queue -- unless that Abandon met a full queue (or a
\* stopped writer).  This is what the token, its re-check and Abandon are for.
WaiterAccounted ==
    \A c \in pend :
      /\ c \in inbox
      /\ reply[c] = "none"
      /\ token[c] => \/ wpc = "recheck" /\ wop = c
                     \/ stage[c] = "marked"
                     \/ Queued("abandon", c)
                     \/ c \in abandonLost

\* A oneshot is completed at most once, by whichever of the reader, the writer's
\* write failure, a drain or a kill comes first.
ReplyOnce == [][\A o \in Ops : reply[o] # "none" => reply'[o] = reply[o]]_vars

\* Notifications reach on_notify in the order the agent wrote them; the bounded
\* channel may only leave some out.
NotificationsInOrder ==
    \A i, j \in DOMAIN delivered :
      i < j /\ StrayResponse \notin {delivered[i], delivered[j]} => delivered[i] < delivered[j]

\* "Reverse requests cannot be dropped": whatever the notification channel does, a
\* reverse request the agent wrote is unread, or else in a thread of its own, or served,
\* and served by one thread only.  The one that is lost is the one whose thread the
\* system refused: its error is discarded.
ReverseRequestsKept ==
    /\ reverse \cap served = {}
    /\ refused \cap (reverse \cup served) = {}
    /\ \A r \in asked \ (reverse \cup served \cup refused) :
         \E i \in DOMAIN stdout : stdout[i] = Ask(r)

-----------------------------------------------------------------------------
(* Liveness.                                                               *)

\* The exit of the agent is always noticed and reported to the manager.
ExitIsReported == child = "exited" ~> closedBy # {}

\* A waiter that is in the map when the agent is gone and before the reader
\* drains it does not have to wait for its deadline.
RegisteredWaiterCompletes ==
    \A c \in Calls :
      (c \in pend /\ child = "exited" /\ rpc = "read") ~> stage[c] = "done"

\* kill() ends the process, whatever its writer thread is doing, of an agent that goes
\* back to reading its stdin: the kill waits in the writer's queue.
KillEndsChild ==
    []<>(~stdinFull) => \A k \in Kills : stage[k] = "waiting" ~> child = "exited"

-----------------------------------------------------------------------------
(* The abstract specification.                                             *)

Contract == INSTANCE RpcContract WITH
    Failures <- {"sendFailed", "recvFailed", "timeout"},
    sent     <- inbox,
    response <- answer,
    returned <- [c \in Calls |-> outcome[c]]

\* The gateway implements the contract of call(): a request reaches the agent at
\* most once, and the result a caller gets is the agent's answer to that
\* caller's own request.
ImplementsContract == Contract!ContractSpec
=============================================================================
