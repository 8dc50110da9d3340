# Specifications of GrokCode

GrokCode is a Tauri application. Its Rust host runs one `grok agent` process per task, speaks
ACP (JSON-RPC over the process's pipes) to it, and shows the tasks in a React window. These
modules specify both sides: the concurrent core of the host (the gateway to one agent process,
the life of a task handle, the replacement of a lost process) and what the window keeps about
tasks (the transcript, the running of a task, the composer with its queue and dialogs, the
list, the sidebar and the project panels).

Paths are relative to the repository. `acp/`, `agent_manager/` and the other Rust files are in
`src-tauri/src/`; `App.tsx`, `hooks/`, `utils/` and `components/` are in `src/`.

## The system

| Component | State | Operations | Talks to |
|---|---|---|---|
| ACP gateway, `acp/gateway.rs` | `pending` map of waiters, abandon tokens, a bounded command channel, a bounded notification channel, the child process | `call`, `write_line`, `kill`; the writer, reader and notification threads; one thread per reverse request | the agent through its pipes; the manager through `on_notify` |
| ACP client, `acp/mod.rs`, `acp/protocol.rs` | an id counter | typed requests, notifications and responses | the gateway |
| Agent manager, `agent_manager.rs`, `agent_types.rs` | the `agents` map (status, client, generation, `reconnecting`, prompts in flight, counts), the `pending` map of reverse requests, `early_requests` | `spawn`, `attach`, `prompt`, `stop`, `resolve_permission`, queue orders, mode and model setters; `route_agent_message`, `handle_transport_closed` | clients, reconnect workers, the window |
| Reconnect worker and candidate inbox, `agent_manager/reconnect.rs` | one worker per lost transport; per candidate a buffer, an active generation, a client slot | `run`, `receive`, `bind_client`, `activate`, `fail_reconnect` | the manager, candidates |
| Models, `agent_manager/models.rs`, `models.rs` | catalogue and selection per session | select, reconcile | the manager |
| Stores, `task_prefs.rs`, `session_flags.rs`, `session_titles.rs`, `fs_atomic.rs` | JSON documents shared by several processes, a cached copy and its stamp in each | `update`, `with_data`, `set`, `merge` | other instances through the disk |
| Host readers, `sessions.rs`, `watcher.rs`, `project_fs.rs`, `project_groups.rs`, `session_usage.rs` | caches | list, search, detail, status, diff, notices of change | the agent's files, git |
| Timeline, `hooks/useAgentEvents.ts`, `hooks/liveTimeline.ts`, `hooks/useTimelineHistory.ts`, `hooks/lifecycleSettle.ts`, `utils/turnActivity.ts` | cards by session, a frame buffer, reducer state, pages of the log, requests open, the handles | one handler per event, flush, hydrate, load older, settle | the host's events, `getSessionDetail`, `listSessionUpdates` |
| Task control, `App.tsx`, `hooks/useSessionPlanMode.ts`, `hooks/useSessionModel.ts`, `hooks/useSessionDefaults.ts` | managed handles, plan state, permission preference, model choice | spawn, send, stop, approve, change mode, change model | the host's commands and events |
| Queue, `hooks/usePendingPrompts.ts`, `hooks/usePromptQueueController.ts`, `components/PendingRow.tsx` | the placeholder, the queue reported, the lock over the rows, a draft | submit, move, edit, remove, clear, send now | the host, grok's queue |
| Composer, `components/PromptBar.tsx`, `hooks/usePromptHistoryBrowse.ts`, `hooks/useAttachments.ts`, `utils/slashCommands.ts` | text, history position, menu, files | type, browse, pick, attach, send | task control |
| Dialogs, `components/PermissionGate.tsx` and its three dialogs | requests open, what is filled in, the busy key | fill, answer | `resolve_permission` |
| Task list, `hooks/useSessionIndex.ts`, `App.tsx` | cards, search, open task, detail | select, search, delete, refresh | host readers, watcher |
| Labels, `hooks/useIdSet.ts`, `hooks/useSessionTitles.ts` | a mirror of pins, archive and names | toggle, rename, migrate | the stores, other windows |
| Project rail, tree and git panel, `hooks/useProjectGroups.ts`, `components/FileTree.tsx`, `components/GitChanges.tsx` | headers open, folders loaded, changes and a diff | fold, reveal, expand, stage, commit | host readers |
| Rest of the window, desktop, account, configuration | layout, files | rendering, wiring | the operating system |

What is hard, and where:

* **Threads of the manager meet on few locks, often and briefly.** Nearly every operation takes
  and releases `agents` and `pending` several times and calls the agent in between. What it
  read in its first critical section may be stale in its last.
* **Transports fail at any time**, are noticed by several threads, and are replaced under the
  same handle. Generations keep the messages of a replaced transport out.
* **Deadlines race with answers**, and a waiter must be completed once and then be gone.
* **Queues are bounded**: one blocks its senders, the other drops.
* **The host must not leak processes or hang in a state nobody will leave.**
* **Every handler of the window is cut in pieces by its awaits.** What it captured may be stale
  when it goes on, answers come in any order, and events arrive in between.
* **The same fact reaches the window by several ways** (stream, notifications, lists, log on
  disk), each with identities of its own.
* **The window paints before the host has answered**, and must come to agree with it.
* **Notices can be missed**: the watcher, a hidden window, a connection that is lost.

`PROJECT.json` lists these hazards at the lines where they bite, each with the properties
that would notice it going wrong.

## Modules

| Module | Models |
|---|---|
| `RpcContract` | what `AcpGateway::call` promises its caller |
| `AcpGateway`, `AcpGatewayProofs` | the gateway and its threads; theorems about it |
| `AgentHandle`, `AgentHandleProofs` | one handle of the agent manager with all its threads, the reconnect worker among them; theorems |
| `CandidateInbox`, `CandidateInboxProofs` | the inbox of one reconnect candidate; theorems |
| `WireUpdates` | what the window's parsers make of one update of the stream |
| `TimelineCards` | cards and the reducers that build and merge lists of them |
| `LifecycleCards` | subagent and task cards: settling, refilling, mirroring |
| `TurnActivity` | the line above the prompt, the state and rank of a task's card |
| `Transcript`, `TranscriptProofs` | the timeline: events, frames, pages of the log, requests open; composes the four above; theorems |
| `TimelineView` | what is shown of it: the cards of nested sessions, the line above the prompt |
| `SessionChoices` | modes, models and thinking levels as pure functions |
| `TaskControl`, `TaskControlProofs` | the handlers of `App` for one task, the hooks they drive, the host's commands; theorems |
| `WindowPlan` | the bounds shared by the modules below; no part of the code |
| `Selections`, `SelectionsProofs` | `filter` on a list and fresh numbers for requests, used by the timeline, the inbox, the queue and the labels; the lemmas about them |
| `PromptQueue`, `PromptComposer`, `RequestDialogs` | a message between Enter and its turn; the composer; the dialogs |
| `Composing`, `ComposerProofs` | the three together, as one window has them; theorems about each and about the three |
| `TaskList`, `TaskLabels`, `ProjectRail`, `FileTree`, `GitPanel` | the parts of the window beside the transcript |
| `WindowProofs` | theorems about the rail, the list, the git panel and the labels |
| `MCAcpGateway`, `MCAgentHandle`, `MCCandidateInbox`, `MCTranscript`, `MCTaskControl`, `MCComposer`, `MCWindow` | instances for TLC; `MCWindow` composes the five parts of the window |

In the component modules an operator under a comment that begins with *Mutant* or ends in *a
plausible bug* is a variant of the definition that follows it with the bug a maintainer might
introduce; no behaviour of the specification uses it. For every property that a run checks,
one of them makes TLC report a violation.

### AcpGateway

An operation (`Calls`, `Writes`, `Kills`) is one invocation of `call`, `write_line` or `kill`. Its
`stage` follows the caller through the function and `outcome` is what it returned; `reply` is its
oneshot channel. The writer thread is a program counter `wpc` with the command in hand `wop`; the
reader is `rpc`; `cmdq` and `notifyq` are the two channels with capacities `CmdCap` and
`NotifyCap`. Each step holds at most one lock for one statement, as the code does: the write of a
request (`WriteLine`), the test of its token (`CheckToken`), the insertion of its waiter
(`InsertWaiter`) and the second test (`RecheckToken`) are four actions, because the reader and the
caller may act between any two of them.

The agent is the environment: it answers a request it has received at most once, writes
notifications and reverse requests in any order, may write bytes that are not UTF-8 (the reader's
`lines()` then ends although the process lives), may stop reading its stdin and may exit. The
system may refuse the thread of a reverse request (`refused`); `gateway.rs:393` discards the
error. Payloads are reduced to what decides a branch: a response is one of `Answers`, and an error
with the transport's own code becomes a failure of the transport, as in `decode_rpc_response`. The
stderr tail only changes the text of a report and is left out.

`RpcContract` sees a call as sent, answered and returned. `ImplementsContract` is the refinement,
with `inbox`, `answer` and `outcome` standing for the three.

### AgentHandle

The module starts where `spawn` or `attach` has made a handle Ready. `live` says the handle is
in the `agents` map; `status`, `client`, `gen`, `reconnecting`, `count`, `inflight` and
`current` are its fields; `pending` maps a reverse request to the connection its answer will
go to. Every process spawned for the handle is a connection, numbered in the order they are spawned;
`genOf` is the generation under which the notifications of a connection are routed. Threads
are program counters:

| Variables | Thread | Code |
|---|---|---|
| `ppc`, `pgen`, `pconn` | a prompt | `prompt`, `dispatch_prompt` |
| `gpc`, `gconn`, `gclient` | a reverse request that asks the user | `receive`, `route_agent_message`, `dispatch_handle_request`, `enqueue_permission` |
| `rpc`, `rclient` | the user's answer | `resolve_permission` |
| `cpc` | a thread that noticed the loss of a transport: its reader or a prompt | `handle_transport_closed` |
| `wpc`, `wcand`, `wold`, `wtries` | the worker of one failed generation | `reconnect::run` and what it calls |
| `spc`, `sclient` | the stop | `AgentManager::stop` |
| `adopting` | a `queue/changed` notification between its check and its write | `route_agent_message` |

One action is one critical section or one call to an agent. The permission policy is the
choice of the environment between a request that is answered at once (not modelled: it changes
no state) and one that becomes a gate. `route_agent_message` and `activate_candidate` let the
agent name the prompt it is running; the model lets it name any prompt that was sent. The
permission mode, models, titles and error texts are left out.

An answer (`AnswerDelivered`) may fail because its connection is down, or on a healthy one: an
answer that lets the agent write a file fails with the write (`agent_manager.rs:571`). If the
handle can still be answered its gate is put back (`AnswerReinserted`), which recounts nothing;
the history variable `returned` holds the gates put back so.

### CandidateInbox

`AgentHandle` treats the inbox of a candidate as what it does to the handle: a closed transport is
dropped before the activation, reverse requests reach the candidate's own client. This module
opens the inbox: `active` and `buffered` are under its state lock, `bound` under the client
lock; the dispatch thread takes notifications one at a time, each reverse request has a
thread, the worker binds, loads, activates and replays. The load may return, fail or time out
with reverse requests unanswered: nothing makes a candidate wait for them. `gone` is the handle
having been stopped or given a newer transport, at any time.

### Transcript and the modules under it

The window builds one list of cards per key (a session, or a handle while its session is not
known) from three sources: the stream, the notifications and lists of the agent, and the log
on disk. `WireUpdates` reduces an update to what the reducers look at, with the parsers'
conditions in their order; a text is a sequence of chunks. `TimelineCards` has the reducers
(`ReduceAgentUpdate`, `ReduceShell`, `MergeTimelineItems`, the caps) as pure operators on a
list and the reducer state, `LifecycleCards` those that settle, reconcile and mirror subagent
and task cards, `TurnActivity` what the chrome reads off the result. React only re-renders;
an effect is part of the step of the change it depends on.

`Transcript` is `useAgentEvents` and `useTimelineHistory` over them. `live` is the committed
map, `buf` the buffer one animation frame commits (`FlushLive`), `rs` the reducer state;
`roster`, `pending`, `permissions`, `commands` are the other state of the hook; `selected`,
`poll`, `detail`, `hist`, `hydratedFp` and `older` are the pages of the log and the two reads
that may be under way. The host is a script of events with the agents there at its beginning:
`sent` of them are emitted and logged, `got` delivered. One action is one handler
(`StatusArrives`, `UpdateArrives`, `NotificationArrives`, `ShellArrives`,
`PromptCompleteArrives`, `PermissionArrives`, `PermissionResolvedArrives`), one answer
(`ListsAnswered`, `DetailAnswered`, `OlderAnswered`, `CancelAnswered`, `KillAnswered`) or one
thing the user does (`SelectSession`, `LoadOlder`, `AppendLocalLive`, `RemoveManaged`).
`TimelineView` draws the selected session from `live`: the two lists merged, the cards of nested
sessions put into them (`projectNestedLifecycleItems`), and the line above the prompt. It is a
module of its own because its walk over the sessions is recursive.

### TaskControl

A handler of `App` runs from one `await` to the next in one step, with the render and the
effects that follow. A flow is a handler at an await: the call `at`, the answer `ans`, and what
the handler captured. `ServeSetMode`, `ServeSetModel`, `ServePrompt`, `ServeStart`,
`ServeStop`, `ServeResolve` and `ServeList` are the host's commands with their rollbacks and
the events they emit, `Answered` continues the handlers, `Deliver` is one event. `wire` is
the mode inside the agent, `saved` what the disk keeps. Commands declared synchronous in Rust
are served when they are called, the others when the host gets to them; answers come in any
order, events in the order of their emission.

An agent starts with the mode it is asked for, else the task's own on the disk, else the
configured one (`StartMode`), and an attach writes that down before it starts anything. A start
succeeds (`ServeStart`), finds the session attached (`AttachFinds`), is refused before anything
has happened (`StartRefused`), fails when the session cannot be loaded, with a handle that said
it was starting and now says it failed (`AttachFails`, `fail_registered_agent`), or fails
because there is no program to start, with a handle the host has announced and never took into
its map (`AttachNoProcess`). `ServeStop` may fail in the kill, when the handle is
gone from the map already; `StopUnknown` is a handle the host does not have.

`Next` has two disjuncts, what the host, the events and the answers do and what the user does, so
that two history variables can be kept beside them. `calm` says that no handler was started while
another was under way, that no call failed but a start that said so (`StartRefused`,
`AttachFails`), and that no connection was lost. It is in the antecedent of the properties because
the code promises no more: overlapping handlers overwrite each other. `ModeSaved` lets a task that
has chosen no mode have the configured one on the disk, where a start wrote it. `passed` is the
last agent that was live while the mode was changed without it: a dead entry was shown in its
place. `ChipShown` leaves that agent out (both under Known disagreements).

### PromptQueue, PromptComposer, RequestDialogs

`PromptQueue` follows messages, numbered as they are submitted. `pending` is the placeholder,
`queue` the rows, `busyKey` the lock over them, `queueDraft` the row edited, `runs` the orders
under way; `dispatch`, `stdin`, `entries`, `turn` and `ran` are what the host's worker holds,
what grok has not read, its queue, its turn and what it has run; `wire` is what the window has
not received. grok is modelled from what the code expects of it: it reads in order, applies an
ordering to the entries it has, reports its queue, starts the next entry when a turn ends.
How long things take is left out. The five seconds of the lock over the rows may beat an answer
as often as the plan says, and end when nothing else happens (`Late`). The 45 seconds of a
placeholder (`TimeIsUp`), and the clock of the view that then takes it away (`AckTimeout`), may
pass at any time, whatever grok and the host do or fail to do; `lapsed` holds the messages whose
placeholder went so.

`PromptComposer` has one text, `[cmd, rest, files]`, with `highlighted` (the history entry shown),
`menuOpen` and `menuIndex`, the files attached and those still being read, and the task the
composer belongs to, which follows the task selected when its detail lands. One action is one key
or click with every branch it takes, or one thing that arrives.

`RequestDialogs` has `gates` (the host's map), `news` (emitted, not received), `shown` (the
window's map), `drafts` (what is filled in, per dialog on the screen), `permBusyKey` and the
answers under way. The host emits outside its locks, so every event is a step of its own: a
request is announced (`Asks`) and then recorded (`GateInserted`); an answer is taken from the
gates (`HostTakes`) and delivered or refused (`HostDelivers`, `HostRefuses`); a thread that sees
a connection close takes the gates of its task (`CloserTakes`), tells of each (`CloserTells`)
and marks the loss (`CloserMarks`), and several may be at it. A change of mode answers the
requests it decides (`ModeSet`), and a start that fails drops its gates (`StartFails`). A key is
the handle and the number grok gave the request, and a grok started again counts from the
beginning: `conn` is the connection of each task, the host finds gates by key alone, and
`DialogsMatchGates` is about the requests whose key has not come again (`Sole`). `stop()` is not
in this module.

### TaskList, TaskLabels, ProjectRail, FileTree, GitPanel

In each, a command of the host is called, served and answered in three steps, and served or
answered in any order; a call whose answer will be ignored (a stale sequence number) is dropped
from the set when that is certain. A read may fail (`ReadFails` in the list, an answer that is an
error in the others).

`TaskList`: `disk` is a version per task; `recent` and `results` are the cards listed and found,
`detail` the open task's; `notices`, `visible`, `throttled`, `focusDue` and `nudgeDue` are the
ways a refresh is started, notices that name no task among them. Every list is followed by
`list_managed_agents` (`ServeManaged`), whose answer picks a task a second time from the same
list. `TaskLabels`: `store` is shared, `mirror` is per window, `legacy` is the old browser storage
the first load of a window folds in; the merge carries what was read of it when the window opened.
Any window may be killed. `ProjectRail`: `page` (the tasks loaded), the flags, `index` (answered
by a walk), `expanded` (also stored) and `revealedFor`. `FileTree`: a load lists the root, then
each folder it finds open, and clicks fall between the calls; it works from the tree still held
(`prev`), so that a return to a root before another has come reuses the folders it had.
`GitPanel`: a status answers only the newest request, a diff whoever is still in the project, the
host keeps a status for a second and a newer run stops the one before.

## Runs

| Run | Asks | Shows |
|---|---|---|
| `gateway_calls` | two calls with deadlines | every waiter in the map is owed an answer and will be removed by someone, or its Abandon met a full queue; a oneshot is completed once; no call gets another's answer |
| `gateway_stream` | a call and a kill, two notifications in a channel of one, a reverse request | overflow drops notifications and reorders none; no reverse request is lost but one whose thread the system refuses |
| `gateway_ends` | a call, a write, a kill, an agent that may stop reading | an exit is reported, a registered waiter is released without its deadline, a kill gets through to an agent that keeps going back to reading |
| `handle_turns` | two prompts, two reverse requests, answers that fail, stop | the badge and the status agree with the map of pending requests whenever nothing is under way, but for a request put back after a failed answer |
| `handle_reconnect` | two losses, failing candidates, a prompt, stop | one owner, one reconnect, always a worker, no process left over |
| `handle_ends` | the same with a reverse request, under fairness | every reconnect ends, if the calls without a timeout return |
| `inbox_switch` | three notifications, two reverse requests, a handle that may go | nothing lost or routed twice across the switch from buffering to routing, but a request that reaches the buffer after the worker's last look into it; a turn whose end is in the buffer is not adopted |
| `transcript` | four scripts: a turn, subagents and tasks, a command, requests; with frames, polls, older pages, refills, cancels, removals, changes of session | one card per identity; what was said whole and in order; nothing streaming after its turn; requests listed exactly while open; pages one piece of the log; a page does not move the line above the prompt |
| `tasks` | one task from each start (none, idle, planned, attached, attached and not listed yet), up to four user actions, starts that fail in each way, one failure or one lost connection | the chip is what the agent does and the disk keeps; a prompt sent under Plan runs in Plan |
| `tasks_reattach` | the task stopped and attached again | *violation*, see below |
| `composer` | the queue, the composer and the dialogs, each with its plans | a message can be seen and is not lost; an order is of the queue grok has; a dialog is there while the host waits; a placeholder ends; what was typed is kept |
| `window` | the list, labels, rail, tree and git panel, each with its plans | what is shown is of the task or project it stands under and comes to what is on disk; pins survive; a closed header stays closed |

`CHECK_DEADLOCK` is off everywhere: a gateway whose agent has exited, a stopped handle, a
candidate or a host that has nothing more to say, and a user who does nothing have really
stopped.

### Bounds

* Gateway: two calls are enough for one to take the other's place in a queue or in the map. A
  capacity of one makes both channels overflow; `gateway_calls` uses a command channel of two, so
  that a call and an Abandon are in it together. Two notifications are the fewest that can be
  reordered. One stall of the agent is enough to block the writer.
* Handle: one prompt and the reader are two threads that notice the same loss; two losses let a
  worker of the first meet one of the second; two attempts are one retry. Three connections are
  the first, its replacement and a candidate; a worker that finds none left to spawn behaves as
  one whose spawn failed. `RECONNECT_DELAYS` has more entries, which add only repetitions.
  `handle_turns` has no losses (its answers fail with the file they write) and `handle_reconnect`
  no reverse requests because each of the two spaces multiplies; `handle_ends` has both.
* Inbox: three notifications are one routed early, one in the buffer and one behind them.
* Transcript: `PageSize` 2 and `MaxLive` 5 make pages and caps matter within scripts of six to
  eight events. `MaxLag` 1 lets one event be logged and not delivered, which is what lets a page
  be ahead of the stream or behind it. Two sessions and one child are what a switch and a nesting
  need.
* TaskControl: each plan (`MCTaskControl`) is a start and a budget of two or three user actions
  with at most one failure or loss; two mode changes, two sends and two picks each occur in one. A
  start that fails takes an agent of the plan and no failure, unless there was no program. One
  plan has two agents, a mode change and a Stop, so that an agent that failed to start can be in
  the way of the next.
* Composer and window: the parts share no variable, so a behaviour moves the part its plan names,
  and each plan is a budget around one of the hazards. Three messages are the fewest an order can
  be stale about. A request of a second connection with the key of one of the first is what lets a
  key come again. Two tasks, windows, folders, files or hunks are one and another. In `left`, a
  budget counts what the user, grok or chance may do; what answers it is free.

### Fairness

`AcpGateway!FairSpec` is weak fairness of each thread of the host: the operating system runs them
and nothing in them waits for another but through the channels. Nothing is assumed of the agent or
of deadlines, so `ExitIsReported` and `RegisteredWaiterCompletes` hold without either.
`KillEndsChild` has its assumption in its antecedent: the agent does not stop reading for ever,
since the kill waits its turn in the writer's queue behind a write that may block.

`AgentHandle!FairSpec` is weak fairness of the threads that close a transport and of the
reconnect workers, but for the steps of a worker that kill a process. Its calls to a candidate
(`initialize`, `session/load`) have timeouts in the gateway, so a step that waits for the agent
can always fail instead. The kill of a candidate, and the cancellation that `stop()` sends
before it removes the handle, have none: they wait their turn behind a write that may block.
That they return is the antecedent of `ReconnectEnds` (`UntimedCallsReturn`). Nothing is assumed
of prompts, users or agents.

`MCWindow!Fairness`: the host serves commands and the window receives answers and notices,
timers fire, and the safety poll of `App.tsx:518`, an interval, goes on. A hidden window is
shown again at some time; without that nothing refreshes it and nobody looks at it.
`Composing!Fairness`: time passes and the clock of the open task ticks. Nothing is assumed of
the host, of grok or of the user.

## Proofs

TLAPS checks the following for every value of the constants, under the assumptions that are named
where the constants are declared: capacities and bounds are positive naturals, the kinds of
operations are disjoint, gates are finitely many, there is a task, the old storage holds flags,
messages are numbered from one and a plan queues the first of them, a plan of the dialogs says how
many picks there are and, if it is calm, has no connect that ends, a plan of a task says how many
calls fail and connections are lost, slash commands come in lists, a timeline has caps, the tasks
are listed in a sequence in which none has the name of no task, a page of the log has room for an
entry, a session has a name, a script of the host is finite, and an id under which an agent asks
for the user is that of one session and handle, as agents mint it for one request.

Each part follows the same argument. What a run checks is seldom inductive, so the module
defines the inductive invariant that implies it, as a conjunction of named parts, has one lemma per
action or per part, and draws the theorems at the end. The inductive invariants were checked
by TLC on the instances of the runs before they were proved.

**AcpGatewayProofs.** `TypeCorrect` includes both capacities. `WaiterAccounted` and
`ReplyOnce` are not inductive: whether the writer may complete a caller depends on where the
command has been. `IInv` adds that a caller owed a reply is in exactly one of three places,
the command queue (`QueueFresh`), the writer's hand (`HandFresh`) and the pending map
(`PendFresh`), that the loop's drains leave the map empty (`LoopLeft`), that a marked token
has someone to act on it (`TokenAccounted`), and that the lines in the pipe and the replies
given are what the agent answered (`LinesMatch`, `RepliesMatch`). `WaitersAccounted`,
`RepliesOnce` and `Refinement` (the gateway implements `RpcContract`) follow.

`NotesInOrder` needs an invariant about the whole path of a notification (`NotesRise`): what is
delivered, what is in the channel and what is in the pipe are three cuts of one rising sequence,
below the number the agent writes next. A full channel only takes an element out of it.
`RequestsKept`: a reverse request the agent wrote is unread, in its own thread, served, or the
system refused it a thread, however many notifications are dropped and wherever the reader stops.

**AgentHandleProofs.** `HandleOwnsClient`, `ReconnectHasWorker`, `OneReconnect` and `OneProcess`
are proved, with `stop()` at any time. The inductive invariant says of each worker that it acts
for the generation it was started for or finds the handle stopped (`Workers`), that generations
only grow (`Generations`), that a candidate is spawned after the transport it replaces, so it
cannot already be the handle's client (`Births`), and that a worker at work has attempts left
(`Tries`). For `OneProcess`, `ProcessesHeld` adds that every process alive is the handle's client,
a worker's candidate, or the client a worker has just replaced; what can leak is therefore nothing
but the client of a handle that was stopped.

`BadgeAgrees` is `NeedsInputIffOpen` while no transport has been lost; after a loss it is false
(Known disagreements), and `handle_turns` checks it without losses. `OneTransport` says what a
handle on its first transport cannot have: another client, a thread that closes or reconnects it,
a request recorded for another connection. With that, `Recounted` is inductive: the count is never
below the requests that are open and were not put back (`Unreturned`), nor above those that are
open or in the hand of an answer that will count again (`Countable`). At rest no answer has one in
hand.

**CandidateInboxProofs.** `SwitchLosesNothing` and `EndedNotAdopted` are proved for any number of
notifications and reverse requests. The invariant ties the place of the worker to what it has done
(`WorkerAt`): nothing is routed before the swap of the generation and no notification is buffered
after it (`Switch`). Every notification written is in exactly one of the channel, the buffer, the
batch, the dispatcher's hand and what was routed (`Apart`, `Written`); a request whose thread is
done is answered, or was held back and is answered, in the batch or still in the buffer, unless
the handle refused it (`HeldAnswered`); and the end of a turn that is to be adopted, or was, is
still ahead of the handle (`EndAhead`), which is why the worker may look for it in the buffer
alone.

**TaskControlProofs.** `HandlersKeepTheirWord` is the inductive invariant behind the three
properties of `TaskControl`, for any models, modes, plans and number of agents. While it is calm
one handler at most is under way beside the push of a default model (`FlowShape`), and the
invariant says of it, await by await, what it has changed and what it has not yet (`ModeFlow`,
`SendFlow`, `SpawnFlow`, `Handler`). Four places hold the mode: the window, the agent, the disk
and the events not delivered. `PlanSaved`, `PermSaved` and `AgentTold` say which of them agree
unless a handler named there is the one that is behind (`Behind`); `Words` says that a mode event
under way says what the window shows, or that Plan is being left. A start has written the disk
before it fails, so a task without a mode of its own may find the configured one there. The list
of agents may say something old, or wrong, of the agent, but then an event that corrects it is
under way (`Fits`, `Settles`), and of every other agent it says that it is gone (`Old`).
`ModeKept` (`ModeSaved`), `ChipTellsTheAgent` (`ChipShown`) and `PromptsInPlan` (`PlannedPrompt`)
follow. The attempt showed that `ChipShown`, as it was stated before, is false of more agents than
the run had: an entry that is dead and first in the list hides the agent that is live, a mode
chosen meanwhile is not told to it, and when the dead entry is removed the chip shows it. `passed`
leaves that agent out; the cause is that of the violation below.

**ComposerProofs.** `MessagesNotLost` (`QueuedNotLost` for any messages, plans and orders under way)
is inductive with three facts: an order has a number no other has (`OneRun`), so an answer or
a refusal reaches its own; every interjection grok has not read is that of an order that waits for
it (`Asked`), so its entry is not dropped twice; and what is dropped from the queue has
been put into a turn (`Dropped`). They are what keeps `queue_interject`, which runs the message
first and drops its entry afterwards, from losing it to an order or a turn in between.

`OrdersInTurn` (`OrdersCaughtUp`) is about plans of orders, edits and refusals of any number, with
nothing else that changes the queue: with more, the lock over the rows does not do what it is for
(Known disagreements). `LockInv` says where the one order under way can be: nowhere, the rows
unlocked and showing grok's queue; at the host; at grok; or read, with the report that unlocks the
rows last on its way. An ordering is therefore made of the queue it will meet.

`MessageSeen` (`MessageVisible`) is about plans with one submission to an empty queue, or any
queue and no submission, and neither a lost connection nor an early end of the lock over the rows;
orders, ends of turns, refusals and turnings to other tasks are of any number. `PlaceInv` says
that the message is not submitted, on its way behind a placeholder that nothing has acknowledged,
since nothing is on the wire, and that only the clock can take (`Placed`), or read or failed. From
then on two facts that hold whatever the user does carry it: the rows are grok's queue or its last
report is on its way (`RowsFollow`), and what was put into a turn is in the timeline or its echo
is on its way (`TurnsEchoed`).

`DialogsAgree` (`DialogsMatchGates`) is proved for `DialogSpec`, the dialogs alone with a budget
of any plan, for any set of requests with any keys, and any number of answers, changes of mode,
losses and failed starts. A request is open while it is announced and not recorded, while its gate
is held, or while an answer has it in hand (`IsOpen`); never two of these, never by two answers,
and never while a closing thread is to tell of its end (`OpenOnce`, `Closing`). The host holds one
gate of a key and the window shows one dialog of it (`OneOfKey`). What is told as resolved, or was
delivered, is no longer open (`ResolvedIsShut`, `AnsweredIsShut`). The news, however, takes a
dialog away by its key, and an answer a gate: so it is for a request that alone has had its key
(`Sole`) that what is open is shown or announced (`OpenIsShown`), and that what is announced or
shown is open, about to be told of, of a start that failed (`Pending`), or has its end later in
the news (`AnnouncedEnds`, `ShownEnds`). `ShownEnds` is proved for the plans in which no connect
ends: what `list_pending` read may be older than the news.

`FormsAreKept` is the action property `FormsKept`, the dialogs' half of `DraftsKept`: no step
takes what the user has put into a dialog but his own, the end of its request, or his turning to
another task. Its invariant (`DraftsInv`) says that the dialogs on the screen are those that have
a form, with a piece for every question, so drawing them again finds each form under its key.

`DraftsAreKept` (`DraftsKept`) and `ComposingSafe` are about `Composing!Spec`, the specification
of the run `composer`: the invariants of the three parts hold together, since what one part does
leaves the variables of the others, and a step takes at most one thing from the plan they share
(`TakesFromPlan`). The composer's half, `TextKept`, needs that a text shown while the history is
open was not typed (`ComposerInv`), and that what the slash menu lists is of the catalog whatever
the query (`MenuListsCatalog`).

**WindowProofs.** `CollapseSticks` is proved with `RailInv`: while a header stands closed by the
user, the selection is the one already revealed, or none. That is what makes every later
regrouping harmless (`RenderKeepsClosed`), whatever a page, a walk or the flags put where.

`DetailIsOfOpen` (`DetailOfOpen`) holds for any number of tasks and calls under way, answered in
any order: `ListInv` says of each call that it keeps its shape and that an answer with a detail is
of the task it asked for, so what an answer may write is decided by the task open when it comes.
`ChangesAreOfProject` (`PanelOfCwd`) is inductive as it stands: an answer for another project, or
of an earlier visit, is refused where it would be written.

`OldFlagsKept` (`LegacyKept`) is proved for any number of windows, tasks and pins. `MergeKept`
says that a merge that was served has put what it carries into the store, unless a window
asked to clear it since, `CarryKept` that a merge carries all that the old storage still has,
and `ClearsAsked` that nothing but such a request clears: so the removal
that follows the answer (`MergeAnswered`) removes nothing that is only in the old storage.

`MirrorsSettle` is proved for any number of windows and requests under way. Requests are of windows
that run, and the first loads and the merge are made once (`RequestsOwned`). A window is calm
while no other window has written, nothing of a label was served before an older write of it,
and nothing was clicked before the first load or over a rename under way; in such a window
one request at most is the newest of its label; if it is answered its answer is the store, and
if there is none the mirror is the store already; in both cases no older write is still to be
served (`Settling`). Requests carry a number so that a set holds two equal ones, as the code may.

**TranscriptProofs.** `HistoryStaysInOrder` (`HistoryInOrder`) is proved for any events of the
host, any size of page, and questions, answers and changes of session in any order. That pages
rise and begin at their cursor is not inductive: a tail page read later could begin beyond the end
of what was folded, or an older page could repeat entries. `HistoryInv` says of each page under
way that it is a piece of the log (`IsPage`, `IsOlder`), that the page under way starts no earlier
than the one shown, and of what is folded that from the page shown on it has every entry of the
log up to its own last one (`NoGap`). A tail page therefore adds only entries past the end
(`NewIsPastTheEnd`), and an older page only entries before the first. The equal fingerprint that
keeps the old list is then no loss: the merge would have added nothing. `KeptAsLogGrows` carries
it all over an event logged meanwhile. `LogRises` and `LogGrows` say that the log is a rising
sequence that only grows.

`ListedIffAsked` (`NeedsInputIffAsked`) rests on `AskedInv`: the permissions and the interactions
kept are exactly those of the open requests, for each of the two kinds. An event closes what it
names and opens itself (`OpenAfter`); a handle removed takes its requests of both kinds with it.

`CardsStayOne` (`OneCardPerIdentity`) and `EndedTurnsAreQuiet` (`QuietNotStreaming`) are proved
for any events, caps and page size, any order of answers, and any number of sessions and handles.
Both rest on `CardsInv`: every committed list and every buffered one is a list of cards with at
most one of each identity (`Good`), an answered list is a sequence of rows (`IsAnswer`), and while
the last event of a handle is the end of its turn no card of that handle streams in any list,
buffered ones included (`Quiet`). The buffer has to be in it: a frame commits what was reduced
before, whatever the map became meanwhile. One lemma for each reducer says that it keeps `Good`
and starts no card of another handle streaming: `ReducedKeeps`, `ShellKeeps`, `HydrateKeeps`,
`MergedPage`, `PatchedKeep`, `SettledKeep`, `AppliedKeep`, `LocalKeep`. Most of them only rewrite
cards in place (`Mapped`) or take some of the cards, each from a place of its own (`Drawn`):
trimming, removing, filtering, sorting (`SortedDrawn`, from the ranks being distinct). The merge
of two sources keeps one card of each mirror key, which an identity determines (`MergeStepKeeps`).
`Descriptions` goes through the parsers: none makes a card of the shell channel, which has its own
reducer, and only text is joined to the card before it. The folds over a page, a list and a merge
are recursive functions; `Built` shows by `Induction` that such a function exists, so that each
lemma follows its steps.

**SelectionsProofs.** What the modules above need of lists and numbers: `Only` (the code's
`filter`) keeps the members it should, in their order, and repeats none (`OnlyKeeps`,
`OnlyInOrder`, `OnlyAppended`), appending and taking the head do as
much, a list of `n` distinct members of `1..n` has length `n`, and there is always a fresh
number. The library's induction cannot be instantiated, so `Induction` is derived for sets of
naturals from their least element (`LeastOf`, which follows from a minimal interval among
finitely many), and `OnlyUnfolds` from it.

**Model-checked only.** Liveness and `ENABLED` are out of the prover's reach, so `ExitIsReported`,
`RegisteredWaiterCompletes`, `KillEndsChild`, `ReconnectEnds`, `PlaceholderSettles`,
`ListConverges` and `TreeConverges` stay with TLC. Of the safety properties, `ChunksDelivered`
concatenates the texts of a whole list and holds for hosts that name the session of a handle once,
and `LineKept` is about the recursive walk of `TimelineView`: induction over data is what they
would need. `OrdersCaughtUp` and `MessageVisible` are proved for the plans named above; the runs
also check `OrdersCaughtUp` on a plan in which an order meets a submission.

## Known disagreements

One run ends in a violation. `tasks_reattach`: `managedForSession` is the first handle of the
session, dead or alive (`hooks/useAgentEvents.ts:568`), and a dead entry comes back when its
last event is delivered after its removal; the chip then shows the task preference, against
the comment `App.tsx:316`. The entry of an agent that failed to start does the same: a mode chosen
then is saved and not told to the agent attached next (`App.tsx:742`), and once Stop has removed the
entry the chip shows that agent with the mode it was not told.

The models also contain the following, reached in the same way and not given a run. Each was
met while a property was written, which then says less than one would wish.

Host:

* A response read before its waiter is inserted is dropped, and the caller waits for its deadline
  (`acp/gateway.rs:293`). A waiter inserted after the reader has left is only released by its
  deadline (`411`). A kill behind a write that never ends does not reach the process (`326`); this
  is the antecedent of `KillEndsChild`.
* A reverse request whose thread the system refuses is lost, its error discarded
  (`acp/gateway.rs:393`), which the comment above it excludes.
* A request put back after an answer that failed is not counted again: the badge leaves it out,
  and the status may be that of a turn that runs (`agent_manager.rs:1236`).
* A start that finds no program has announced a handle that the host does not keep
  (`agent_manager.rs:1113`): the window shows it as starting, and Stop is told that there is no
  such handle.
* A handle that is being stopped can be made Ready: the activation does not look at the status
  (`agent_manager/reconnect.rs:445`); `stop()` then removes it.
* A reverse request enqueued between the two critical sections of `handle_transport_closed`
  outlives its transport and is counted after the reconnect (`agent_manager.rs:987`, `1220`).
* `stop()` kills the client it read at its start; one activated before the handle is removed stays
  alive (`agent_manager.rs:1771`).
* The loss of a candidate between `session/load` and its activation is dropped by the inbox; the
  handle is Ready with a dead transport (`agent_manager/reconnect.rs:69`). A request that looks
  for the client just before `bind_client` and is put into the buffer after the early ones were
  taken waits for the activation (`112`); one put there after the activation took the rest stays
  for good (`118`), against the comment in line 21.
* A prompt admitted before a reconnect is counted in flight after it, on the dead client
  (`agent_manager.rs:1568`). A reverse request of a replaced transport can be recorded against the
  new client (`856`). Answering the last request outside a turn sets Running with no turn to end
  it (`1271`).
* `queue_interject` runs an entry twice when its turn begins between the interjection and the
  removal (`agent_manager.rs:424`).
* `enqueue_permission` emits before it inserts, so a fast answer finds no gate.
* A start that fails drops its gates and tells the window of none (`agent_manager.rs:522`): the
  dialogs stay.

Transcript and turn:

* A text chunk on disk and its live copy are both shown when the page was read before the live
  cards were complete (`hooks/liveTimeline.ts:793`); a tool card read from a page stays running
  until the next page when its end was streamed first (`767`).
* A subagent or task card that is never ended keeps the line waiting (`utils/turnActivity.ts:247`,
  against `170`); a task that completes without a status stays running
  (`utils/subagentTasks.ts:473`); progress after a cancel revives a card; a refill answered late
  runs a finished card again (`hooks/useAgentEvents.ts:327`).
* Cards settle under their own handle only (`hooks/lifecycleSettle.ts:136`); interactions are not
  cleared on stop; a list of permissions read before an answer brings the dialog back.
* An older page is not shown until the next hydration (`hooks/useTimelineHistory.ts:54`), can
  leave a gap in the log (`82`), and can change the line above the prompt, since it reclassifies
  hidden tools; `LineKept` is about the tail.
* A repeated shell increment is appended twice; a live push trims a hydrated list to the live cap;
  the turn's clock is anchored by what is on screen (`components/TurnStatusBar.tsx:89`);
  `detailLoading` stays set when the last call is a stale one (`App.tsx:345`).

Task control:

* The default model pushed on attach is applied over a pick made while it was under way
  (`hooks/useSessionDefaults.ts:130`, against the comment in line 92); a failed pick reverts a
  newer one.
* A task that has chosen no mode shows "default" (`App.tsx:328`), whatever is configured; its
  agent starts in the configured mode, which bypasses permissions where nothing is configured
  (`config.rs:52`), and `attach` writes that mode down as the task's own. A comment says that the
  mode on screen is always the configured one or a choice made for the task (`config.rs:49`).
* A status event that was on its way replaces a newer permission or model; two mode changes at
  once leave the last answer's mode; Plan is shown after a reconnect that lost it; a failed save
  rolls the chip back though the agent has changed; Stop goes to an error handle first.

Composer, queue and dialogs:

* Any report of the queue, or an echo of an earlier message, retires the placeholder; a second
  submission replaces the first's (`hooks/usePendingPrompts.ts:24`). `MessageVisible` is therefore
  about one submission at a time.
* The lock over the rows is released by any report, by a timer of five seconds and by the failure
  of an earlier order (`components/SessionDetail.tsx:211`, `components/PendingRow.tsx:69`);
  `OrdersCaughtUp` is about orders alone. *Remove all* also clears entries not shown yet, and the
  rows of a dead connection stay.
* A connection lost while another task is looked at is not noticed; a queued prompt that fails
  says nothing (`App.tsx:200`).
* With attachments alone Enter sends and the button does not (`components/PromptBar.tsx:106`,
  `249`); a pasted file can be attached twice, or after its message; files and a draft typed
  during a switch of tasks end under the wrong one; an older page shifts the history; the menu's
  highlight stays on a number when the commands change.
* One busy key serves all dialogs, so the end of one answer unlocks another (`App.tsx:663`); the
  letters answer every plan shown; questions of the same text share an answer.
* The keys of requests start again with a new process (`rpc_handler.rs:145`): the end of an old
  request takes the dialog of the new one with its key away, and a click on the old one may answer
  the new.

Window:

* A git status that ends after a change is kept for its second (`project_fs.rs:253`, against
  `778`); an older request can stop the newest run (`152`); a diff of an earlier click can be
  shown under a later row.
* A deleted card comes back with an answer on its way; a list or a card read earlier can
  replace a newer one until the poll.
* A toggle before the first load is erased by it; requests served out of order leave the
  mirror unlike the store; another window's migration adds a pin that was removed; two renames
  can be answered the wrong way. `calm` in `MirrorSettles` excludes these.
* A header is not revealed when the spellings of its folder differ in case
  (`hooks/useProjectGroups.ts:405`, against `321`; `project_groups.rs:237`).
* A folder shut during a refresh is opened by it again, and one opened is shut and reopened.
* Back in a project whose tree is still held, the folders that were open show what they had
  until the next refresh (`components/FileTree.tsx:88`, `128`); `TreeConverges` is about what
  the refresh brings.

## Not modelled

`PROJECT.json` gives the reason for each part. In short:

* The threads of `spawn` and `attach` (reservation, bootstrap, `early_requests`); the emission
  order of the shell stream; the file under the preferences (sidecar lock, stamped cache, rename);
  the election of instances; the debounce of the watcher. They are the next modules of the plan.
* Wrappers and parsers without state, readers of files, operating-system calls, the decisions of
  the permission policy, rendering, layout and formatting are left out for good.
* Time. A timer is an action that may happen; how long it takes is not modelled.

## Plan

In this order:

1. `HandleStart`: `spawn` and `attach` up to Ready, with the reservation by session, the
   bootstrap, `early_requests` and a transport lost during it.
2. `ShellStream`: `publish`, the scheduler and `clear_handle` against an abstract
   specification in which the window shows the output of the last snapshot.
3. `TaskPrefs`: instances sharing a document under a sidecar lock, each with a stamped cache,
   against an abstract atomic map, with crashes between write and rename.
