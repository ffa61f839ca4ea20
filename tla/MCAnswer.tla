------------------------------- MODULE MCAnswer -------------------------------
(* Names with two spellings; graphs of up to three of six facts; questions with *)
(* and without a limit, with budgets that end within a line, between two lines  *)
(* and between two sections.                                                    *)
EXTENDS Answer, TLC
CONSTANTS r1, r2

MCNames == {"Omni", "omni", "Kit", "kit", "user"}
MCFold == [Omni |-> "omni", omni |-> "omni", Kit |-> "kit", kit |-> "kit", user |-> "user"]

Edge(m, n) == [subject |-> m, object |-> n]
Pool == {Edge("user", "Omni"), Edge("omni", "Kit"), Edge("Omni", "kit"),
         Edge("kit", "user"), Edge("Kit", "Omni"), Edge("user", "omni")}
MCGraphs == {g \in SUBSET Pool : Cardinality(g) <= 3}

Text == [conflicts |-> <<2>>, current_beliefs |-> <<4>>, episodes |-> <<2>>,
         decisions |-> <<2>>, relevant_experience |-> <<3>>, semantic_notes |-> <<5, 1>>]

Ask(intent, seeds, n) == [intent |-> intent, seeds |-> seeds, limit |-> n, lines |-> Text]

MCAsks == <<Ask("answer_question", {"user"}, None), Ask("full", {"user", "omni"}, 11),
            Ask("answer_question", {"omni"}, 0), Ask("plan_task", {"kit"}, 9),
            Ask("write_code", {"user"}, 4), Ask("debug_failure", {}, 1),
            Ask("make_decision", {}, None), Ask("full", {"kit", "omni"}, 3)>>
MCQueries == 1..8

TwoRequests == {r1, r2}
Symmetry == Permutations(TwoRequests)
===============================================================================
