----------------------------- MODULE ProfitSweep -----------------------------
(***************************************************************************)
(* The hourly profit sweep (services/api/app/sweep.py).                    *)
(*                                                                         *)
(* A pass reads every employee's allocation and seven-day profit in one    *)
(* SELECT and then walks the rows, one transaction per row.  Between the   *)
(* two, users set allocations, trades move the window's profit, agents are *)
(* deleted and the process may die; the loop sweeps again 30 s after a     *)
(* boot.  Money is an integer number of the columns' smallest unit.        *)
(***************************************************************************)
EXTENDS Integers, FiniteSets, FiniteSetsExt

CONSTANTS Agents,        \* the employees
          Grants,   \* values a user sets as an agent's allocation
          Profits,       \* values the seven-day profit takes
          MinSweep,      \* MIN_SWEEP_USD, in units
          MaxEdits       \* allocations set by users (bound)

ASSUME SweepConstants ==
    /\ IsFiniteSet(Agents)
    /\ Grants \subseteq Nat /\ Profits \subseteq Int
    /\ MinSweep \in Nat \ {0} /\ MaxEdits \in Nat

VARIABLES
    live,               \* agents rows that exist
    alloc, pnl,         \* allocated_balance_usd, profit in the window
    reserve,            \* companies.insurance_balance_usd
    swept,              \* sum of an agent's profit_sweeps rows
    granted,            \* sum of what users added to (or took from) an agent
    todo,               \* rows the running pass still has to visit
    seenAlloc, seenPnl, \* what its SELECT returned
    edits

passVars == <<todo, seenAlloc, seenPnl>>
sweepVars == <<live, alloc, pnl, reserve, swept, granted, passVars, edits>>

SweepTypeOK ==
    /\ live \subseteq Agents /\ todo \subseteq Agents
    /\ alloc \in [Agents -> Int] /\ pnl \in [Agents -> Profits \cup {0}]
    /\ swept \in [Agents -> Nat] /\ granted \in [Agents -> Int]
    /\ reserve \in Nat
    /\ seenAlloc \in [Agents -> Int] /\ seenPnl \in [Agents -> Profits \cup {0}]
    /\ edits \in Nat

BooksInit ==
    /\ live = Agents /\ todo = {}
    /\ alloc = [a \in Agents |-> 0] /\ pnl = [a \in Agents |-> 0]
    /\ reserve = 0
    /\ swept = [a \in Agents |-> 0] /\ granted = [a \in Agents |-> 0]
    /\ seenAlloc = [a \in Agents |-> 0] /\ seenPnl = [a \in Agents |-> 0]
    /\ edits = 0

-----------------------------------------------------------------------------
(* The pass.                                                               *)

\* round(x / 8), half to even, for a non-negative x.
RoundEighth(x) ==
    LET q == x \div 8
        r == x % 8
    IN  IF r > 4 \/ (r = 4 /\ q % 2 = 1) THEN q + 1 ELSE q

\* A quarter of the profit in excess of half the allocation.
SweepAmount(A, P) == RoundEighth(2 * P - A)

\* The four "continue" conditions of the loop body.
MutantShouldSweep(A, P) == 2 * P >= A /\ P > 0 /\ SweepAmount(A, P) >= MinSweep
ShouldSweep(A, P) ==
    /\ A > 0 /\ P > 0
    /\ 2 * P >= A
    /\ SweepAmount(A, P) >= MinSweep

StartPass ==
    /\ todo = {} /\ live # {}
    /\ todo' = live
    /\ seenAlloc' = alloc /\ seenPnl' = pnl
    /\ UNCHANGED <<live, alloc, pnl, reserve, swept, granted, edits>>

SkipAgent(a) ==
    /\ a \in todo /\ ~ShouldSweep(seenAlloc[a], seenPnl[a])
    /\ todo' = todo \ {a}
    /\ UNCHANGED <<live, alloc, pnl, reserve, swept, granted, seenAlloc, seenPnl,
                   edits>>

\* SET allocated_balance_usd = allocated_balance_usd - amount: relative to the
\* row as it is now.  The mutant writes the value computed from the snapshot.
MutantDebit(a, amount) == seenAlloc[a] - amount
Debit(a, amount) == alloc[a] - amount

\* The transaction: reserve up, allocation down, audit row.
SweepAgent(a) ==
    LET amount == SweepAmount(seenAlloc[a], seenPnl[a])
    IN  /\ a \in todo /\ a \in live
        /\ ShouldSweep(seenAlloc[a], seenPnl[a])
        /\ reserve' = reserve + amount
        /\ alloc' = [alloc EXCEPT ![a] = Debit(a, amount)]
        /\ swept' = [swept EXCEPT ![a] = @ + amount]
        /\ todo' = todo \ {a}
        /\ UNCHANGED <<live, pnl, granted, seenAlloc, seenPnl, edits>>

\* What a transaction that fails leaves in the reserve.  The mutant has the
\* three statements without the transaction.
MutantReserveAfterFailure(a) ==
    reserve + SweepAmount(seenAlloc[a], seenPnl[a])
ReserveAfterFailure(a) == reserve

\* A statement fails (for one, the audit row of an agent deleted meanwhile
\* violates its foreign key): the transaction rolls back and the exception
\* ends the pass.
SweepFails(a) ==
    /\ a \in todo /\ ShouldSweep(seenAlloc[a], seenPnl[a])
    /\ reserve' = ReserveAfterFailure(a)
    /\ todo' = {}
    /\ UNCHANGED <<live, alloc, pnl, swept, granted, seenAlloc, seenPnl,
                   edits>>

\* The process stops between two rows.
Restart ==
    /\ todo # {} /\ todo' = {}
    /\ UNCHANGED <<live, alloc, pnl, reserve, swept, granted, seenAlloc, seenPnl,
                   edits>>

-----------------------------------------------------------------------------
(* What the rest of the system does to the same rows.                      *)

\* update_agent, or the manager's tool: SET allocated_balance_usd = v.
UpdateAllocation(a, v) ==
    /\ a \in live /\ edits < MaxEdits /\ edits' = edits + 1
    /\ granted' = [granted EXCEPT ![a] = @ + v - alloc[a]]
    /\ alloc' = [alloc EXCEPT ![a] = v]
    /\ UNCHANGED <<live, pnl, reserve, swept, passVars>>

\* A postmortem is written, or one falls out of the window.
WindowMoves(a, v) ==
    /\ a \in live /\ v # pnl[a]
    /\ pnl' = [pnl EXCEPT ![a] = v]
    /\ UNCHANGED <<live, alloc, reserve, swept, granted, passVars, edits>>

\* delete_agent: the audit rows stay, with agent_id set to NULL.
DeleteAgent(a) ==
    /\ a \in live /\ live' = live \ {a}
    /\ UNCHANGED <<alloc, pnl, reserve, swept, granted, passVars, edits>>

-----------------------------------------------------------------------------
AgentStep(a) ==
    \/ SkipAgent(a) \/ SweepAgent(a) \/ SweepFails(a) \/ DeleteAgent(a)
    \/ \E v \in Grants : UpdateAllocation(a, v)
    \/ \E v \in Profits : WindowMoves(a, v)

BooksNext == StartPass \/ Restart \/ \E a \in Agents : AgentStep(a)

BooksSpec == BooksInit /\ [][BooksNext]_sweepVars

-----------------------------------------------------------------------------
(* "The three writes have to happen together so we don't split the books": *)
(* the reserve is the sum of the audit rows, through failures in mid-pass. *)
ReserveIsAudited ==
    reserve = FoldSet(LAMBDA a, total : swept[a] + total, 0, Agents)

\* No dollar appears or disappears on an agent: what users granted is allocated
\* or swept, although an allocation may be edited while a pass that read the old
\* one is under way.
AllocationsAccounted ==
    \A a \in Agents : alloc[a] + swept[a] = granted[a]

\* The sweep may push an allocation below zero, but by no more than a quarter of
\* the best window's profit (rounded): however often it runs, an overdrawn agent
\* is left alone.
OverdraftBounded ==
    \A a \in Agents : \E best \in Profits \cup {0} : 4 * alloc[a] >= -(best + 1)
=============================================================================
