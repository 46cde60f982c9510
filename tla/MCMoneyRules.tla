----------------------------- MODULE MCMoneyRules -----------------------------
(***************************************************************************)
(* The two computations that guard the money: the risk agent's gate and    *)
(* the hourly sweep.  They share no variable; each is checked in states of *)
(* its own.                                                                *)
(***************************************************************************)
EXTENDS RiskGate, ProfitSweep, TLC

VARIABLE part        \* the component that runs

mcVars == <<part, vars, sweepVars>>

\* Stakes above MaxStake = 3; allocations for no trade or one.
MCLargeStakes == {4}
MCTightAllocations == {0, 3}
MCDays == {0, 1}
\* One unit is a dollar: the smallest sweep is one unit, as it is one dollar in
\* the code, and rounding happens at the unit.
MCGrants == {0, 8}
MCProfits == {1, 6, 26}

MCInit ==
    /\ part \in {"risk", "sweep"} /\ Init /\ BooksInit
    /\ part = "sweep" => allocation = 0

MCNext ==
    /\ UNCHANGED part
    /\ \/ part = "risk" /\ Next /\ UNCHANGED sweepVars
       \/ part = "sweep" /\ BooksNext /\ UNCHANGED vars

MCSpec == MCInit /\ [][MCNext]_mcVars

Symmetry == Permutations(Intents) \cup Permutations(Handlers) \cup Permutations(Assets)
=============================================================================
