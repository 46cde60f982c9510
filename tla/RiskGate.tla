------------------------------- MODULE RiskGate -------------------------------
(***************************************************************************)
(* The risk agent as its callers use it (services/api/app/risk.py,         *)
(* decision_loop.py, routes/approvals.py), for one employee.               *)
(*                                                                         *)
(* A handler - the signal callback, or an HTTP request proposing a trade - *)
(* opens a transaction, runs the checks one SELECT after the other under   *)
(* READ COMMITTED, inserts the intent and commits.  Nothing locks what the *)
(* checks read, so other handlers, approvals, closes, sweeps and admins    *)
(* move it in between.  A rejected intent (rejected_by_risk) is counted by *)
(* no check and is left out.                                               *)
(***************************************************************************)
EXTENDS Integers, FiniteSets, FiniteSetsExt

CONSTANTS Handlers,     \* concurrent callers of evaluate for this agent
          Intents,      \* rows that may be inserted (bound)
          Assets,
          Stakes,       \* proposed stakes
          MinStake, MaxStake,   \* GLOBAL_MIN_STAKE_USD, GLOBAL_MAX_STAKE_USD
          MaxPosition,  \* max_position_size_usd
          Allocations,  \* values of allocated_balance_usd
          DailyCap,     \* max_trades_per_day
          Days,         \* 0 .. last day modelled (bound)
          Nil

ASSUME RiskConstants ==
    /\ IsFiniteSet(Handlers) /\ Handlers # {} /\ IsFiniteSet(Intents)
    /\ Stakes \subseteq Nat /\ Allocations \subseteq Nat
    /\ MinStake \in Nat /\ MaxStake \in Nat /\ MinStake <= MaxStake
    /\ MaxPosition \in Nat /\ DailyCap \in Nat
    /\ Days \subseteq Nat /\ 0 \in Days
    /\ Nil \notin Assets

VARIABLES
    status, asset, stake, day,    \* trade_intents rows
    allocation, paused, kill,     \* agents and companies columns
    today,                        \* date_trunc('day', now())
    pc, hAsset, hStake, hAlloc, hDay,   \* a handler's progress and its locals
    underKill                     \* rows inserted since the kill switch is on

rows == <<status, asset, stake, day>>
settings == <<allocation, paused, kill, today>>
locals == <<hAsset, hStake, hAlloc, hDay>>
vars == <<rows, settings, pc, locals, underKill>>

Status == {"none", "pending_approval", "approved", "executed", "closed", "declined"}

TypeOK ==
    /\ status \in [Intents -> Status]
    /\ asset \in [Intents -> Assets \cup {Nil}]
    /\ stake \in [Intents -> {0} \cup MinStake .. MaxStake]
    /\ day \in [Intents -> Nat]
    /\ allocation \in Allocations /\ paused \in BOOLEAN /\ kill \in BOOLEAN
    /\ today \in Days
    /\ pc \in [Handlers -> {"idle", "agent", "company", "book"}]
    /\ hAsset \in [Handlers -> Assets \cup {Nil}]
    /\ hStake \in [Handlers -> {0} \cup MinStake .. MaxStake]
    /\ hAlloc \in [Handlers -> Nat]
    /\ hDay \in [Handlers -> Nat]
    /\ underKill \subseteq Intents

Init ==
    /\ status = [i \in Intents |-> "none"]
    /\ asset = [i \in Intents |-> Nil]
    /\ stake = [i \in Intents |-> 0] /\ day = [i \in Intents |-> 0]
    /\ allocation \in Allocations /\ paused = FALSE /\ kill = FALSE
    /\ today = 0
    /\ pc = [h \in Handlers |-> "idle"]
    /\ hAsset = [h \in Handlers |-> Nil]
    /\ hStake = [h \in Handlers |-> 0] /\ hAlloc = [h \in Handlers |-> 0]
    /\ hDay = [h \in Handlers |-> 0]
    /\ underKill = {}

-----------------------------------------------------------------------------
(* evaluate, check by check.                                               *)

Smaller(x, y) == IF x <= y THEN x ELSE y
Larger(x, y) == IF x >= y THEN x ELSE y
\* max(GLOBAL_MIN, min(proposed, max_position, GLOBAL_MAX)).
CappedStake(s) == Larger(MinStake, Smaller(s, Smaller(MaxPosition, MaxStake)))
HalvedStake(s) == Larger(MinStake, s \div 2)

\* The transaction begins (its now() is fixed here) and reads the agents row:
\* active and not paused, the allocation, the position cap.  The stake is capped,
\* and halved in the two hours after a high-impact event.
ReadAgent(h, x, s) ==
    /\ pc[h] = "idle" /\ ~paused
    /\ pc' = [pc EXCEPT ![h] = "agent"]
    /\ hAsset' = [hAsset EXCEPT ![h] = x]
    /\ hAlloc' = [hAlloc EXCEPT ![h] = allocation]
    /\ hDay' = [hDay EXCEPT ![h] = today]
    /\ \E t \in {CappedStake(s), HalvedStake(CappedStake(s))} :
           hStake' = [hStake EXCEPT ![h] = t]
    /\ UNCHANGED <<rows, settings, underKill>>

CompanyAllows == ~kill

ReadCompany(h) ==
    /\ pc[h] = "agent" /\ CompanyAllows
    /\ pc' = [pc EXCEPT ![h] = "company"]
    /\ UNCHANGED <<rows, settings, locals, underKill>>

\* Trades created since the day the transaction began, closed ones included.
UsedSince(d) ==
    Cardinality({i \in Intents : day[i] >= d /\
                    status[i] \in {"pending_approval", "approved", "executed", "closed"}})

\* The unclosed rows the concurrency and the allocation checks select.  The
\* mutant omits the executed ones.
MutantOpenClaims == {i \in Intents : status[i] \in {"pending_approval", "approved"}}
OpenClaims == {i \in Intents : status[i] \in {"pending_approval", "approved", "executed"}}

Committed == MapThenSumSet(LAMBDA i : stake[i], OpenClaims)

\* The envelope: what is left of the allocation read at the start.
AllocationLeft(h) == hAlloc[h] - Committed >= hStake[h]

\* trades_per_day, no_concurrent_position and allocation_available: three
\* consecutive SELECTs on the rows.
ReadBook(h) ==
    /\ pc[h] = "company"
    /\ UsedSince(hDay[h]) < DailyCap
    /\ \A i \in OpenClaims : asset[i] # hAsset[h]
    /\ AllocationLeft(h)
    /\ pc' = [pc EXCEPT ![h] = "book"]
    /\ UNCHANGED <<rows, settings, locals, underKill>>

Forget(h) ==
    /\ pc' = [pc EXCEPT ![h] = "idle"]
    /\ hAsset' = [hAsset EXCEPT ![h] = Nil]
    /\ hStake' = [hStake EXCEPT ![h] = 0]
    /\ hAlloc' = [hAlloc EXCEPT ![h] = 0]
    /\ hDay' = [hDay EXCEPT ![h] = 0]

\* INSERT and COMMIT of an intent that passed: pending, or auto-approved when the
\* trade mode and the threshold say so.  created_at is the transaction's now().
InsertIntent(h, i) ==
    /\ pc[h] = "book" /\ status[i] = "none"
    /\ \E s \in {"pending_approval", "approved"} :
           status' = [status EXCEPT ![i] = s]
    /\ asset' = [asset EXCEPT ![i] = hAsset[h]]
    /\ stake' = [stake EXCEPT ![i] = hStake[h]]
    /\ day' = [day EXCEPT ![i] = hDay[h]]
    /\ underKill' = IF kill THEN underKill \cup {i} ELSE underKill
    /\ Forget(h)
    /\ UNCHANGED settings

\* A check fails (one of these, the whitelists, the blackout, the confidence
\* floor, the stop loss), or the transaction does.
Rejected(h) ==
    /\ pc[h] # "idle" /\ Forget(h)
    /\ UNCHANGED <<rows, settings, underKill>>

-----------------------------------------------------------------------------
(* What moves the rows and settings meanwhile.                             *)

SetStatus(i, from, to) ==
    /\ status[i] \in from /\ status' = [status EXCEPT ![i] = to]
    /\ UNCHANGED <<asset, stake, day, settings, pc, locals, underKill>>

\* approve_intent: the guarded UPDATE; no risk check is run again.
ApproveIntent(i) == SetStatus(i, {"pending_approval"}, "approved")
\* reject_intent, the lazy expiry, and a failed execution.
DeclineIntent(i) == SetStatus(i, {"pending_approval", "approved"}, "declined")
\* _on_executed, and a close from the broker, the reconcile loop or the user.
ExecuteIntent(i) == SetStatus(i, {"approved"}, "executed")
CloseTrade(i) == SetStatus(i, {"executed"}, "closed")

SetAllocation(v) ==
    /\ allocation' = v
    /\ UNCHANGED <<rows, paused, kill, today, pc, locals, underKill>>

SetPaused(b) ==
    /\ paused' = b
    /\ UNCHANGED <<rows, allocation, kill, today, pc, locals, underKill>>

SetKillSwitch(b) ==
    /\ kill' = b /\ underKill' = IF b THEN underKill ELSE {}
    /\ UNCHANGED <<rows, allocation, paused, today, pc, locals>>

Midnight ==
    /\ today + 1 \in Days /\ today' = today + 1
    /\ UNCHANGED <<rows, allocation, paused, kill, pc, locals, underKill>>

-----------------------------------------------------------------------------
HandlerStep(h) ==
    \/ \E x \in Assets, s \in Stakes : ReadAgent(h, x, s)
    \/ ReadCompany(h) \/ ReadBook(h) \/ Rejected(h)
    \/ \E i \in Intents : InsertIntent(h, i)

RowStep(i) == ApproveIntent(i) \/ DeclineIntent(i) \/ ExecuteIntent(i) \/ CloseTrade(i)

AdminStep ==
    \/ \E v \in Allocations : SetAllocation(v)
    \/ \E b \in BOOLEAN : SetPaused(b) \/ SetKillSwitch(b)

Next == Midnight \/ AdminStep \/ (\E h \in Handlers : HandlerStep(h))
                 \/ (\E i \in Intents : RowStep(i))

Spec == Init /\ [][Next]_vars

-----------------------------------------------------------------------------
(* What the gate is worth with any number of concurrent handlers: each     *)
(* limit can be exceeded by at most one trade per further handler.         *)

Positions == {i \in Intents : status[i] \in {"pending_approval", "approved", "executed"}}
Others == Cardinality(Handlers) - 1

\* "Prevents the 304-overlap bug": per asset, one open position and one more for
\* each further handler, however many signals fire.
OverlapBounded ==
    \A x \in Assets :
        Cardinality({i \in Positions : asset[i] = x}) <= 1 + Others

\* max_trades_per_day holds per day up to one trade per further handler, for
\* transactions that straddle midnight too.
TradesPerDayBounded ==
    \A d \in Days :
        Cardinality({i \in Intents : status[i] \notin {"none", "declined"} /\ day[i] = d})
            <= DailyCap + Others

\* Open stakes never exceed what the agent was allocated at some time by more
\* than one largest stake per further handler.
OvercommitBounded ==
    \E v \in Allocations :
        MapThenSumSet(LAMBDA i : stake[i], Positions)
            <= v + Others * Larger(MinStake, Smaller(MaxPosition, MaxStake))

\* Once the kill switch is on, only handlers that had already read it as off
\* insert an intent, each at most one.
KillSwitchStopsInserts == Cardinality(underKill) <= Cardinality(Handlers)

\* evaluate_proposal checks each rule with a SELECT and inserts later: with handlers
\* that overlap, over midnight and under edits, every limit still holds up to one
\* trade per further handler.
LimitsHold ==
    OverlapBounded /\ TradesPerDayBounded /\ OvercommitBounded /\ KillSwitchStopsInserts

\* risk.py: "an agent shouldn't be long and short the same instrument at the same
\* time": one open position per asset.  Proved where handlers never overlap, and
\* false where they do.
OneOpenPerAsset ==
    \A i, j \in Positions : asset[i] = asset[j] => i = j
=============================================================================
