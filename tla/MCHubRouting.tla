---------------------------- MODULE MCHubRouting -----------------------------
\* The suggested project is found by its likeness, or exactly once there is
\* the better one, which is then deleted, or not at all.
EXTENDS HubRouting, TLC

P(id, name) == [id |-> id, name |-> name]
MCAccounts == {
  [projects |-> {P("p1", "Compra")}, labels |-> {"casa"}],
  [projects |-> {P("p1", "Compra"), P("p2", "COMPRAS")}, labels |-> {"casa"}]}

Item(suggestion, confidence, subtasks) ==
  [suggestion |-> suggestion, confidence |-> confidence, subtasks |-> subtasks, labels |-> {"Casa"}]
MCPlans == {
  [review |-> FALSE, tasks |-> <<Item("Compras", 90, 1), Item("Compras", 65, 0)>>],
  [review |-> TRUE, tasks |-> <<Item("Magie", 80, 0)>>]}

MCKey == [n \in {"Compras", "COMPRAS"} |-> "compras"] @@ [n \in {"Compra"} |-> "compra"]
         @@ [n \in {"Magie"} |-> "magie"] @@ [n \in {"casa", "Casa"} |-> "casa"]
MCRatio == [a \in {"compras", "magie"} |->
  [b \in {"compras", "compra", "magie"} |->
    IF a = b THEN 100 ELSE IF {a, b} = {"compras", "compra"} THEN 92 ELSE 17]]

MCRaws ==
  {NoText} \cup [1 .. 1 -> Chars] \cup {<<Other, Open, Close>>, <<Fence, Open, Close, Fence>>}
  \cup {<<Open, Quote>> \o s \o <<Close>> : s \in [1 .. 3 -> {Quote, Backslash, Close}]}
=============================================================================
