----------------------------- MODULE MCSafetyNet -----------------------------
EXTENDS SafetyNet

CONSTANTS a1, t1, t2, t3

\* Every trade is the one agent's.
MCOneAgentsTrades == [t \in Trades |-> a1]

MCWinOrLoss == {-1, 1}
MCOneLimit == {1}

\* The trades differ in nothing but their names: the first to close may be called
\* t1, the second t2.
ClosesInOrder ==
    \A t \in open \ open' : (t = t2 => t1 \notin open) /\ (t = t3 => t2 \notin open)
MCNext == Next /\ ClosesInOrder
MCSpec == Init /\ [][MCNext]_vars /\ Fairness
=============================================================================
