----------------------------- MODULE MCComposer -----------------------------
(* Composing, with its plans: each bounds what happens beside what answers it. *)
EXTENDS Composing, TLC

Doings == {"calm", "queued", "sends", "orders", "edits", "ends", "losses", "refusals", "lates", "selects",
           "types", "keys", "pages", "files", "adverts", "planned",
           "picks", "clicks", "hydrates", "modes", "fails"}
Plan(part, given) == given @@ [part |-> part, requests |-> {}] @@ [d \in Doings |-> 0]

QueuePlans == {
    Plan("queue", [calm |-> 1, queued |-> 3, orders |-> 2, edits |-> 1]),   \* orders alone
    Plan("queue", [calm |-> 1, sends |-> 1, orders |-> 1, ends |-> 1, selects |-> 2, refusals |-> 1]),
    Plan("queue", [queued |-> 1, sends |-> 1, orders |-> 1, edits |-> 1, ends |-> 1, losses |-> 1, selects |-> 1, lates |-> 1, refusals |-> 1]),
    Plan("queue", [sends |-> 1, losses |-> 1, selects |-> 2])}
ComposerPlans == {
    Plan("composer", [types |-> 2, keys |-> 3, sends |-> 2, planned |-> 1]),
    Plan("composer", [types |-> 2, keys |-> 2, sends |-> 1, adverts |-> 2]),
    Plan("composer", [types |-> 1, keys |-> 2, sends |-> 1, pages |-> 1, selects |-> 1]),
    Plan("composer", [types |-> 1, keys |-> 1, sends |-> 1, files |-> 2])}
DialogPlanned == {
    Plan("dialogs", [calm |-> 1, requests |-> {1, 2, 3}, picks |-> 3, clicks |-> 1, selects |-> 1]),
    Plan("dialogs", [calm |-> 1, requests |-> {1, 2}, clicks |-> 2, losses |-> 1, refusals |-> 1]),
    Plan("dialogs", [calm |-> 1, requests |-> {1, 4}, clicks |-> 2, losses |-> 2, refusals |-> 1]),
    Plan("dialogs", [calm |-> 1, requests |-> {2, 3}, clicks |-> 2, modes |-> 1, fails |-> 1, refusals |-> 1, selects |-> 1]),
    Plan("dialogs", [calm |-> 1, requests |-> {1, 3, 4}, clicks |-> 1, losses |-> 1, modes |-> 1, selects |-> 1]),
    Plan("dialogs", [requests |-> {1, 4}, picks |-> 1, clicks |-> 1, losses |-> 1, hydrates |-> 1])}
ComposingPlans == QueuePlans \cup ComposerPlans \cup DialogPlanned

\* What is typed, and the commands: "ne" begins two names and is in a description.
SomeTexts == {Words("none", "hi"), Words("", "none"), Words("ne", "none"), Words("new", "none"), Words("new", "hi")}
SomeBuiltins == <<"new", "usage">>
SomeSkills == <<"usage", "news">>
FromAgent == <<"news">>
Ranks == [q \in {"", "ne", "new", "plan", "usage", "news"} |-> [c \in {"new", "usage", "news"} |->
            CASE q = c \/ (q \in {"ne", "new"} /\ c \in {"new", "news"}) -> 0
              [] q = "ne" /\ c = "usage" -> 2
              [] OTHER -> 3]]

\* Two questions, of one choice and of several; a plan; a tool of another task;
\* and, after the connection was lost, a question with the key of the first.
Question(asked, multi) == [text |-> asked, multi |-> multi]
Request(id, key, kind, of, questions, c) ==
    [id |-> id, key |-> key, kind |-> kind, task |-> of, conn |-> c, questions |-> questions]
SomeRequests == {
    Request(1, "t1:1", "ask", "t1", <<Question("q1", FALSE), Question("q2", TRUE)>>, 1), Request(2, "t1:2", "plan", "t1", <<>>, 1),
    Request(3, "t2:1", "tool", "t2", <<>>, 1), Request(4, "t1:1", "ask", "t1", <<Question("q1", FALSE)>>, 2)}
=============================================================================
