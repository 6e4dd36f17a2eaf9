--------------------------- MODULE MCRiskControl ---------------------------
\* One or two teams, few authorizations and requests, clock ticks of one cooldown.
EXTENDS RiskControl, TLC

RequestSymmetry == Permutations(Requests)

\* At most three changes of a team's policy and the gate together.
FewChanges == \A t \in Teams : policy[t].rev + gate.ver <= 5
=============================================================================
