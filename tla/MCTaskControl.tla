---------------------------- MODULE MCTaskControl ----------------------------
EXTENDS TaskControl

CatalogNew == <<[id |-> "grok-4.6", efforts |-> <<>>, supports |-> TRUE, default |-> "high"],
                [id |-> "grok-4.5", efforts |-> <<"high", "low">>, supports |-> TRUE, default |-> "high"]>>
OldModel == [id |-> "grok-4.5", effort |-> "high"]
UserPicks == {[id |-> "grok-4.5", effort |-> "high"], [id |-> "grok-4.5", effort |-> "low"]}

Nothing == [modes |-> 0, sends |-> 0, picks |-> 0, answers |-> 0, stops |-> 0, agents |-> 0,
            fails |-> 0, losses |-> 0, lists |-> 0]
Start(budget, start) == [f \in DOMAIN budget \cup {"start"} |-> IF f = "start" THEN start ELSE budget[f]]
A1 == {Start([Nothing EXCEPT !.modes = 2, !.sends = 1], "attached")}
A2 == {Start([Nothing EXCEPT !.modes = 1, !.sends = 2, !.answers = 1], "attached")}
A3 == {Start([Nothing EXCEPT !.modes = 1, !.sends = 1, !.losses = 1, !.lists = 1], "attached")}
A4 == {Start([Nothing EXCEPT !.modes = 1, !.sends = 1, !.stops = 1, !.agents = 1], "attached")}
P1 == {Start([Nothing EXCEPT !.sends = 2, !.agents = 2, !.fails = 1], "planned")}
I1 == {Start([Nothing EXCEPT !.modes = 1, !.sends = 1, !.agents = 1, !.fails = 1], "idle")}
N1 == {Start([Nothing EXCEPT !.modes = 1, !.sends = 1, !.agents = 1], "none")}
N2 == {Start([Nothing EXCEPT !.picks = 1, !.agents = 1, !.losses = 1, !.fails = 1], "none")}
N3 == {Start([Nothing EXCEPT !.picks = 1, !.sends = 1, !.agents = 1], "none")}
A6 == {Start([Nothing EXCEPT !.picks = 2, !.sends = 1], "attached")}
I2 == {Start([Nothing EXCEPT !.modes = 2, !.fails = 1], "planned")}
A5 == {Start([Nothing EXCEPT !.sends = 1, !.losses = 1, !.agents = 1, !.stops = 1], "attached")}
\* An agent that fails to start, another, and the mode changed in between.
E1 == {Start([Nothing EXCEPT !.modes = 1, !.sends = 2, !.agents = 2, !.stops = 1], "idle")}
U1 == {Start([Nothing EXCEPT !.modes = 1, !.sends = 1, !.lists = 1], "unlisted")}
ReattachPlans == {Start([Nothing EXCEPT !.modes = 1, !.sends = 1, !.stops = 1, !.agents = 1], "attached")}
AllPlans == A1 \cup A2 \cup A3 \cup A4 \cup P1 \cup I1 \cup I2 \cup A5 \cup A6 \cup N1 \cup N2 \cup N3 \cup E1 \cup U1
=============================================================================
