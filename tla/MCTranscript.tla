---------------------------- MODULE MCTranscript ----------------------------
(***************************************************************************)
(* Instances of Transcript: the scripts of the host.  A message is named   *)
(* by its letter, so that what is lost or repeated can be told.            *)
(***************************************************************************)
EXTENDS TimelineView

Ev(ch, h, s, u) == [ch |-> ch, handle |-> h, session |-> s, u |-> u, text |-> <<>>, delta |-> FALSE]
Status(h, s, st) == Ev("status", h, s, [BlankUpdate EXCEPT !.status = st])
Say(h, s, x) == Ev("update", h, s, [BlankUpdate EXCEPT !.type = "agent_message_chunk", !.text = <<x>>])
Tool(h, s, id, st) ==
    Ev("update", h, s, [BlankUpdate EXCEPT !.type = IF st = "pending" THEN "tool_call" ELSE "tool_call_update",
                                           !.id = id, !.status = st, !.title = "title"])
Todo(h, s, id, st) == [Tool(h, s, id, st) EXCEPT !.u.tool = IF st = "pending" THEN "todo_write" ELSE ""]
Commands(h, s) == Ev("update", h, s, [BlankUpdate EXCEPT !.type = "available_commands_update", !.text = <<"c">>])
Shell(h, s, id, st, out, delta) ==
    [Ev("shell", h, s, [BlankUpdate EXCEPT !.type = "tool_call_update", !.id = id, !.status = st,
                                           !.tool = "execute", !.text = out])
        EXCEPT !.text = out, !.delta = delta]
Note(h, s, type, id, fields) ==
    Ev("note", h, s, [BlankUpdate EXCEPT !.type = type, !.id = id, !.fields = fields,
                                         !.method = "x.ai/session_notification"])
Done(h, s) == Ev("done", h, s, BlankUpdate)
Ask(h, s, id) == Ev("permission", h, s, [BlankUpdate EXCEPT !.id = id])
Answered(h, s, id) == Ev("resolved", h, s, [BlankUpdate EXCEPT !.id = id])
Turn(h, s) == Ev("update", h, s, [BlankUpdate EXCEPT !.type = "turn_completed"])

On(h, s) == <<[handle |-> h, status |-> "running", session |-> s]>>
Budget(polls, olders, locals, kills, moves) ==
    [polls |-> polls, older |-> olders, locals |-> locals, kills |-> kills, moves |-> moves, gone |-> {}]
Script(agents0, budget, events) == [roster |-> agents0, left |-> budget, events |-> events]

\* A turn: text before the session is known, a tool call, a plan call that
\* stays hidden, text, and the end.
TurnScript == Script(<<>>, Budget(2, 1, 1, 0, 0),
    <<Status("h1", "s1", "ready"), Say("h1", "", "a"), Say("h1", "s1", "b"),
      Tool("h1", "s1", "t1", "pending"), Tool("h1", "s1", "t1", "completed"), Say("h1", "s1", "c"),
      Done("h1", "s1")>>)
\* Subagents and tasks, nested, listed at the attach, cancelled and killed.
LifeScript == Script(<<>>, Budget(0, 0, 0, 1, 1),
    <<Note("h1", "s1", "subagent_spawned", "c1", << >>), Status("h1", "s1", "ready"),
      Note("h1", "c1", "task_backgrounded", "k1", << >>),
      Note("h1", "s1", "subagent_progress", "c1", [turns |-> "2"]),
      Note("h1", "s1", "subagent_finished", "c1", [status |-> "completed"]),
      Status("h1", "s1", "stopped")>>)
\* A command's output, by increments and as a whole.
ShellScript == Script(On("h1", "s1"), Budget(2, 1, 0, 0, 0),
    <<Todo("h1", "s1", "t2", "pending"), Shell("h1", "s1", "x1", "in_progress", <<"p">>, FALSE),
      Shell("h1", "s1", "x1", "in_progress", <<"q">>, TRUE), Todo("h1", "s1", "t2", "completed"),
      Shell("h1", "s1", "x1", "completed", <<"p", "q">>, FALSE), Turn("h1", "s1")>>)
\* Requests of two kinds, opened and answered, and the agent's commands.
AskScript == Script(On("h1", "s1"), Budget(1, 0, 0, 0, 2),
    <<Ask("h1", "s1", "r1"), Note("h1", "s1", "pending_interaction", "i1", << >>), Commands("h1", "s1"),
      Answered("h1", "s1", "r1"), Note("h1", "s1", "interaction_resolved", "i1", << >>),
      Note("h1", "s1", "pending_interaction", "i2", << >>)>>)

HostScripts == {TurnScript, LifeScript, ShellScript, AskScript}

=============================================================================
