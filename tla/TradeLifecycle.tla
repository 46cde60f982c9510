---------------------------- MODULE TradeLifecycle ----------------------------
(***************************************************************************)
(* The life of a trade intent, from the proposal to the postmortem.        *)
(*                                                                         *)
(* Five actors share it: the api's decision and approval handlers, which   *)
(* write the trade_intents row and publish trades.approved inside the      *)
(* transaction; the Go gateway's order router, one goroutine per approved  *)
(* message; the broker; the api's consumers of trades.executed and         *)
(* trades.closed; and the two other writers of a close, the reconcile loop *)
(* and the manual-close handler.  They are joined by core NATS, which      *)
(* delivers a message at most once.                                        *)
(*                                                                         *)
(* An element of Orders is one run of the router's handleApproved and the  *)
(* broker contract that run may open.  Money is abstracted to the sign of  *)
(* the settled profit.                                                     *)
(***************************************************************************)
EXTENDS Naturals, FiniteSets

CONSTANTS Intents,        \* ids of trade_intents rows
          Orders,         \* runs of the order router (bound on their number)
          Requests,       \* concurrent manual-close requests
          Nil,            \* SQL NULL / no object
          MaxRollbacks,   \* per intent, transactions that fail after publishing
          MaxLosses,      \* messages dropped and calls failed
          MaxRestarts     \* restarts of the api and of the gateway

ASSUME LifecycleConstants ==
    /\ Nil \notin Intents \cup Orders \cup {"win", "loss"}
    /\ IsFiniteSet(Orders)
    /\ MaxRollbacks \in Nat /\ MaxLosses \in Nat /\ MaxRestarts \in Nat

Outcomes == {"win", "loss"}
Sanctioned == {"approved", "auto_approved"}
Status == {"none", "pending_approval", "rejected_by_risk", "rejected_by_user",
           "expired", "executed", "failed_execution"} \cup Sanctioned

VARIABLES
    status, due, contractId, pnl,     \* the trade_intents row, as committed
    txn, rollbacks,                   \* its open publishing transaction
    postmortem, pmTasks, pmDraft,     \* trade_postmortems and its detached tasks
    approvedMsgs, boughtMsgs, failedMsgs, closedMsgs,   \* in flight on NATS
    job, jobIntent,                   \* the router's goroutines
    order,                            \* the broker's side of each of them
    scan, req, reqIntent,             \* reconcile pass, manual-close requests
    losses, restarts                  \* environment budgets

rowVars == <<status, due, contractId, pnl>>
txnVars == <<txn, rollbacks>>
pmVars == <<postmortem, pmTasks, pmDraft>>
executedMsgs == <<boughtMsgs, failedMsgs>>
busVars == <<approvedMsgs, executedMsgs, closedMsgs>>
gatewayVars == <<job, jobIntent>>
reqVars == <<req, reqIntent>>
apiVars == <<scan, reqVars>>
budget == <<losses, restarts>>
vars == <<rowVars, txnVars, pmVars, busVars, gatewayVars, order, apiVars, budget>>

ClosedEvent == [intent : Intents, pnl : Outcomes,
                by : {"broker", "reconcile", "user"}]

TypeOK ==
    /\ status \in [Intents -> Status]
    /\ due \in [Intents -> BOOLEAN]
    /\ contractId \in [Intents -> Orders \cup {Nil}]
    /\ pnl \in [Intents -> Outcomes \cup {"null"}]
    /\ txn \in [Intents -> {"none", "insert", "approve", "aborted"}]
    /\ rollbacks \in [Intents -> Nat]
    /\ postmortem \in [Intents -> Outcomes \cup {"null"}]
    /\ pmTasks \in [Intents -> Nat]
    /\ pmDraft \in [Intents -> SUBSET Outcomes]
    /\ approvedMsgs \in [Intents -> Nat]
    /\ boughtMsgs \subseteq Orders /\ failedMsgs \subseteq Orders
    /\ closedMsgs \subseteq ClosedEvent
    /\ job \in [Orders -> {"idle", "buying", "tracking", "done"}]
    /\ jobIntent \in [Orders -> Intents \cup {Nil}]
    /\ \A o \in Orders : job[o] # "idle" => jobIntent[o] \in Intents
    /\ order \in [Orders -> {"none", "requested", "refused", "open"} \cup Outcomes]
    /\ scan \in SUBSET Intents
    /\ req \in [Requests -> {"idle", "selling"} \cup Outcomes]
    /\ reqIntent \in [Requests -> Intents \cup {Nil}]
    /\ \A u \in Requests : req[u] # "idle" => reqIntent[u] \in Intents
    /\ losses \in Nat /\ restarts \in Nat

Init ==
    /\ status = [i \in Intents |-> "none"]
    /\ due = [i \in Intents |-> FALSE]
    /\ contractId = [i \in Intents |-> Nil]
    /\ pnl = [i \in Intents |-> "null"]
    /\ txn = [i \in Intents |-> "none"]
    /\ rollbacks = [i \in Intents |-> 0]
    /\ postmortem = [i \in Intents |-> "null"]
    /\ pmTasks = [i \in Intents |-> 0]
    /\ pmDraft = [i \in Intents |-> {}]
    /\ approvedMsgs = [i \in Intents |-> 0]
    /\ boughtMsgs = {} /\ failedMsgs = {}
    /\ closedMsgs = {}
    /\ job = [o \in Orders |-> "idle"]
    /\ jobIntent = [o \in Orders |-> Nil]
    /\ order = [o \in Orders |-> "none"]
    /\ scan = {}
    /\ req = [u \in Requests |-> "idle"]
    /\ reqIntent = [u \in Requests |-> Nil]
    /\ losses = 0
    /\ restarts = 0

-----------------------------------------------------------------------------
(* Decisions.  A transaction that does not publish is one step; one that   *)
(* publishes is two, with the message already out in between.              *)

\* propose_trade, and _maybe_intent outside the auto-approved routes: the
\* risk verdict decides which status is inserted.
ProposeTrade(i) ==
    /\ status[i] = "none" /\ txn[i] = "none"
    /\ \E s \in {"pending_approval", "rejected_by_risk"} :
           status' = [status EXCEPT ![i] = s]
    /\ UNCHANGED <<due, contractId, pnl, txnVars, pmVars, busVars, gatewayVars,
                   order, apiVars, budget>>

\* _maybe_intent (autonomous, or under the threshold) and place_quick_trade:
\* INSERT as auto_approved and publish, both before COMMIT.
InsertAutoApproved(i) ==
    /\ status[i] = "none" /\ txn[i] = "none"
    /\ txn' = [txn EXCEPT ![i] = "insert"]
    /\ approvedMsgs' = [approvedMsgs EXCEPT ![i] = @ + 1]
    /\ UNCHANGED <<rowVars, rollbacks, pmVars, executedMsgs, closedMsgs,
                   gatewayVars, order, apiVars, budget>>

\* The WHERE clauses of the two decisions; reject_intent's has no expiry
\* condition.  The mutants forget the pending status.
MutantCanApprove(i) == status[i] # "none" /\ ~due[i]
CanApprove(i) == status[i] = "pending_approval" /\ ~due[i]
MutantCanReject(i) == status[i] \in {"pending_approval"} \cup Sanctioned
CanReject(i) == status[i] = "pending_approval"

\* approve_intent: the guarded UPDATE takes the row lock, then publishes.
ApproveIntent(i) ==
    /\ CanApprove(i) /\ txn[i] = "none"
    /\ txn' = [txn EXCEPT ![i] = "approve"]
    /\ approvedMsgs' = [approvedMsgs EXCEPT ![i] = @ + 1]
    /\ UNCHANGED <<rowVars, rollbacks, pmVars, executedMsgs, closedMsgs,
                   gatewayVars, order, apiVars, budget>>

\* The COMMIT at the end of the transaction block: the row becomes visible.
CommitDecision(i) ==
    /\ txn[i] \in {"insert", "approve"}
    /\ status' = [status EXCEPT ![i] =
                    IF txn[i] = "insert" THEN "auto_approved" ELSE "approved"]
    /\ txn' = [txn EXCEPT ![i] = "none"]
    /\ UNCHANGED <<due, contractId, pnl, rollbacks, pmVars, busVars,
                   gatewayVars, order, apiVars, budget>>

\* What a rollback leaves: an insert never happened and its id is not used
\* again, an approval is pending as before.
AfterRollback(i) == IF txn[i] = "insert" THEN "aborted"
                    ELSE IF txn[i] = "approve" THEN "none" ELSE txn[i]

\* The read-back, the COMMIT or the connection fails after the publish.
RollBackDecision(i) ==
    /\ txn[i] \in {"insert", "approve"} /\ rollbacks[i] < MaxRollbacks
    /\ txn' = [txn EXCEPT ![i] = AfterRollback(i)]
    /\ rollbacks' = [rollbacks EXCEPT ![i] = @ + 1]
    /\ UNCHANGED <<rowVars, pmVars, busVars, gatewayVars, order, apiVars, budget>>

RejectIntent(i) ==
    /\ CanReject(i) /\ txn[i] = "none"
    /\ status' = [status EXCEPT ![i] = "rejected_by_user"]
    /\ UNCHANGED <<due, contractId, pnl, txnVars, pmVars, busVars, gatewayVars,
                   order, apiVars, budget>>

\* expires_at passes.
DeadlinePasses(i) ==
    /\ status[i] = "pending_approval" /\ ~due[i]
    /\ due' = [due EXCEPT ![i] = TRUE]
    /\ UNCHANGED <<status, contractId, pnl, txnVars, pmVars, busVars,
                   gatewayVars, order, apiVars, budget>>

\* list_pending_approvals expires every past-due row of the company; a row
\* locked by an approval is waited for.
ListPendingApprovals ==
    LET late == {i \in Intents : status[i] = "pending_approval" /\ due[i]}
    IN  /\ late # {} /\ \A i \in late : txn[i] = "none"
        /\ status' = [i \in Intents |-> IF i \in late THEN "expired" ELSE status[i]]
        /\ UNCHANGED <<due, contractId, pnl, txnVars, pmVars, busVars,
                       gatewayVars, order, apiVars, budget>>

-----------------------------------------------------------------------------
(* The gateway's order router and the broker.                              *)

\* handleApproved takes a message: pool.Get fails, or the buy is sent.
HandleApproved(i, o) ==
    /\ approvedMsgs[i] > 0 /\ job[o] = "idle"
    /\ approvedMsgs' = [approvedMsgs EXCEPT ![i] = @ - 1]
    /\ jobIntent' = [jobIntent EXCEPT ![o] = i]
    /\ \/ /\ job' = [job EXCEPT ![o] = "buying"]
          /\ order' = [order EXCEPT ![o] = "requested"]
          /\ UNCHANGED failedMsgs
       \/ /\ job' = [job EXCEPT ![o] = "done"]
          /\ failedMsgs' = failedMsgs \cup {o}
          /\ UNCHANGED order
    /\ UNCHANGED <<rowVars, txnVars, pmVars, boughtMsgs, closedMsgs, apiVars, budget>>

\* The broker answers a buy request, whoever still waits for the answer.
BrokerDecides(o) ==
    /\ order[o] = "requested"
    /\ \E s \in {"open", "refused"} : order' = [order EXCEPT ![o] = s]
    /\ UNCHANGED <<rowVars, txnVars, pmVars, busVars, gatewayVars, apiVars, budget>>

\* The broker settles an open contract (stop, target or duration).
BrokerSettles(o) ==
    /\ order[o] = "open"
    /\ \E s \in Outcomes : order' = [order EXCEPT ![o] = s]
    /\ UNCHANGED <<rowVars, txnVars, pmVars, busVars, gatewayVars, apiVars, budget>>

\* Buy returns a contract: publishExecuted, then TrackContract.
BuyReturns(o) ==
    /\ job[o] = "buying" /\ order[o] \in {"open"} \cup Outcomes
    /\ job' = [job EXCEPT ![o] = "tracking"]
    /\ boughtMsgs' = boughtMsgs \cup {o}
    /\ UNCHANGED <<rowVars, txnVars, pmVars, approvedMsgs, failedMsgs, closedMsgs, jobIntent,
                   order, apiVars, budget>>

\* Buy returns an error: the broker refused, or (within the budget) the 25 s
\* passed or the connection fell with the request in whatever state it is.
BuyFails(o) ==
    /\ job[o] = "buying"
    /\ \/ order[o] = "refused" /\ UNCHANGED losses
       \/ losses < MaxLosses /\ losses' = losses + 1
    /\ job' = [job EXCEPT ![o] = "done"]
    /\ failedMsgs' = failedMsgs \cup {o}
    /\ UNCHANGED <<rowVars, txnVars, pmVars, approvedMsgs, boughtMsgs, closedMsgs, jobIntent,
                   order, apiVars, restarts>>

\* TrackContract's callback sees is_sold: publishClosed.
ContractSold(o) ==
    /\ job[o] = "tracking" /\ order[o] \in Outcomes
    /\ job' = [job EXCEPT ![o] = "done"]
    /\ closedMsgs' = closedMsgs \cup
           {[intent |-> jobIntent[o], pnl |-> order[o], by |-> "broker"]}
    /\ UNCHANGED <<rowVars, txnVars, pmVars, approvedMsgs, executedMsgs, jobIntent,
                   order, apiVars, budget>>

\* failPending clears the subscriptions when the connection falls.
TrackingLost(o) ==
    /\ job[o] = "tracking" /\ losses < MaxLosses
    /\ losses' = losses + 1
    /\ job' = [job EXCEPT ![o] = "done"]
    /\ UNCHANGED <<rowVars, txnVars, pmVars, busVars, jobIntent, order, apiVars,
                   restarts>>

-----------------------------------------------------------------------------
(* The api's consumers.  An UPDATE waits for a row lock, and does not see  *)
(* a row whose INSERT has not committed.                                   *)

\* The WHERE clause and the status of _on_executed's UPDATE.
MutantAcceptsExecution(i) == status[i] # "none"
AcceptsExecution(i) == status[i] \in Sanctioned
ExecutedStatus(o) == IF o \in boughtMsgs THEN "executed" ELSE "failed_execution"

\* _on_executed: one UPDATE, which records the contract of a successful buy.
OnExecuted(o) ==
    LET i == jobIntent[o]
    IN  /\ o \in boughtMsgs \cup failedMsgs /\ txn[i] # "approve"
        /\ boughtMsgs' = boughtMsgs \ {o} /\ failedMsgs' = failedMsgs \ {o}
        /\ IF AcceptsExecution(i)
           THEN /\ status' = [status EXCEPT ![i] = ExecutedStatus(o)]
                /\ contractId' = [contractId EXCEPT ![i] =
                                    IF o \in boughtMsgs THEN o ELSE @]
           ELSE UNCHANGED <<status, contractId>>
        /\ UNCHANGED <<due, pnl, txnVars, pmVars, approvedMsgs, closedMsgs,
                       gatewayVars, order, apiVars, budget>>

\* The UPDATE ... WHERE closed_at IS NULL shared by the two writers of a close.
MutantCloseUnguarded(i) == status[i] # "none"
CloseMatches(i) == status[i] # "none" /\ pnl[i] = "null"
RecordClose(i, p) == pnl' = [pnl EXCEPT ![i] = IF CloseMatches(i) THEN p ELSE @]

\* create_task(postmortem.generate) by the call whose UPDATE closed the row.
SpawnPostmortem(i) ==
    pmTasks' = [pmTasks EXCEPT ![i] = IF CloseMatches(i) THEN @ + 1 ELSE @]

\* _on_closed: stamp the row and, only if this call did, spawn the postmortem.
\* An error in the cooling-off statements in between skips the spawn.
OnClosed(m) ==
    /\ m \in closedMsgs /\ txn[m.intent] # "approve"
    /\ closedMsgs' = closedMsgs \ {m}
    /\ RecordClose(m.intent, m.pnl)
    /\ \/ SpawnPostmortem(m.intent) /\ UNCHANGED losses
       \/ /\ CloseMatches(m.intent) /\ losses < MaxLosses
          /\ losses' = losses + 1 /\ UNCHANGED pmTasks
    /\ UNCHANGED <<status, due, contractId, txnVars, postmortem, pmDraft,
                   approvedMsgs, executedMsgs, gatewayVars, order, apiVars, restarts>>

\* postmortem.generate up to the LLM call: read the row, skip if one exists.
ReadForPostmortem(i) ==
    /\ pmTasks[i] > 0
    /\ pmTasks' = [pmTasks EXCEPT ![i] = @ - 1]
    /\ pmDraft' = [pmDraft EXCEPT ![i] =
                     IF pnl[i] \in Outcomes /\ postmortem[i] = "null"
                     THEN @ \cup {pnl[i]} ELSE @]
    /\ UNCHANGED <<rowVars, txnVars, postmortem, busVars, gatewayVars, order,
                   apiVars, budget>>

\* ... and after it: INSERT ... ON CONFLICT DO NOTHING.
WritePostmortem(i, p) ==
    /\ p \in pmDraft[i]
    /\ pmDraft' = [pmDraft EXCEPT ![i] = @ \ {p}]
    /\ postmortem' = [postmortem EXCEPT ![i] = IF @ = "null" THEN p ELSE @]
    /\ UNCHANGED <<rowVars, txnVars, pmTasks, busVars, gatewayVars, order,
                   apiVars, budget>>

\* generate is best effort: an exception anywhere in it is only logged.
PostmortemFails(i) ==
    /\ losses < MaxLosses /\ losses' = losses + 1
    /\ \/ /\ pmTasks[i] > 0 /\ UNCHANGED pmDraft
          /\ pmTasks' = [pmTasks EXCEPT ![i] = @ - 1]
       \/ /\ pmDraft[i] # {} /\ UNCHANGED pmTasks
          /\ \E p \in pmDraft[i] : pmDraft' = [pmDraft EXCEPT ![i] = @ \ {p}]
    /\ UNCHANGED <<rowVars, txnVars, postmortem, busVars, gatewayVars, order,
                   apiVars, restarts>>

-----------------------------------------------------------------------------
(* The reconcile loop.                                                     *)

MutantUnclosed == {i \in Intents : status[i] \in Sanctioned /\ pnl[i] = "null"
                                   /\ contractId[i] # Nil}
Unclosed == {i \in Intents : status[i] = "executed" /\ pnl[i] = "null"
                             /\ contractId[i] # Nil}

\* _reconcile_once, first half: SELECT the unclosed executed intents.
ReconcileScan ==
    /\ scan = {} /\ Unclosed # {}
    /\ scan' = Unclosed
    /\ UNCHANGED <<rowVars, txnVars, pmVars, busVars, gatewayVars, order, reqVars, budget>>

\* The synthetic closes: one for each scanned contract that the broker's
\* statement shows as sold.  The mutant takes a missing sale for a zero amount.
MutantReconcileEvents(S) ==
    {[intent |-> i, by |-> "reconcile",
      pnl |-> IF order[contractId[i]] = "win" THEN "win" ELSE "loss"] : i \in S}
ReconcileEvents(S) ==
    {[intent |-> i, by |-> "reconcile", pnl |-> order[contractId[i]]] :
        i \in {j \in S : order[contractId[j]] \in Outcomes}}

\* Second half: read the statement and publish.  A failed call publishes nothing.
ReconcilePublish ==
    /\ scan # {} /\ scan' = {}
    /\ \/ closedMsgs' = closedMsgs \cup ReconcileEvents(scan) /\ UNCHANGED losses
       \/ losses < MaxLosses /\ losses' = losses + 1 /\ UNCHANGED closedMsgs
    /\ UNCHANGED <<rowVars, txnVars, pmVars, approvedMsgs, executedMsgs,
                   gatewayVars, order, reqVars, restarts>>

-----------------------------------------------------------------------------
(* close_intent: check the row, sell through the gateway, stamp the row.   *)

CloseIntentCheck(u, i) ==
    /\ req[u] = "idle" /\ i \in Unclosed
    /\ req' = [req EXCEPT ![u] = "selling"]
    /\ reqIntent' = [reqIntent EXCEPT ![u] = i]
    /\ UNCHANGED <<rowVars, txnVars, pmVars, busVars, gatewayVars, order, scan, budget>>

RequestEnds(u) == /\ req' = [req EXCEPT ![u] = "idle"]
                  /\ reqIntent' = [reqIntent EXCEPT ![u] = Nil]

\* deriv.sell.req: the broker sells and the reply (req[u] = the result) arrives,
\* or the sale happened and the reply is lost (504).
CloseIntentSell(u) ==
    /\ req[u] = "selling" /\ order[contractId[reqIntent[u]]] = "open"
    /\ \E s \in Outcomes :
         /\ order' = [order EXCEPT ![contractId[reqIntent[u]]] = s]
         /\ \/ req' = [req EXCEPT ![u] = s] /\ UNCHANGED <<losses, reqIntent>>
            \/ losses < MaxLosses /\ losses' = losses + 1 /\ RequestEnds(u)
    /\ UNCHANGED <<rowVars, txnVars, pmVars, busVars, gatewayVars, scan, restarts>>

\* The gateway answers with an error: the broker already sold the contract
\* (409), or the call failed before reaching it.
CloseIntentRefused(u) ==
    /\ req[u] = "selling"
    /\ \/ order[contractId[reqIntent[u]]] \in Outcomes /\ UNCHANGED losses
       \/ losses < MaxLosses /\ losses' = losses + 1
    /\ RequestEnds(u)
    /\ UNCHANGED <<rowVars, txnVars, pmVars, busVars, gatewayVars, order, scan, restarts>>

\* The closing UPDATE, the postmortem if it took, and the event in any case.
CloseIntentApply(u) ==
    LET i == reqIntent[u]
    IN  /\ req[u] \in Outcomes
        /\ RecordClose(i, req[u])
        /\ SpawnPostmortem(i)
        /\ closedMsgs' = closedMsgs \cup {[intent |-> i, pnl |-> req[u], by |-> "user"]}
        /\ RequestEnds(u)
        /\ UNCHANGED <<status, due, contractId, txnVars, postmortem, pmDraft,
                       approvedMsgs, executedMsgs, gatewayVars, order, scan,
                       budget>>

-----------------------------------------------------------------------------
(* The environment: at-most-once delivery, restarts.                       *)

LoseApproved(i) ==
    /\ approvedMsgs[i] > 0 /\ losses < MaxLosses
    /\ losses' = losses + 1
    /\ approvedMsgs' = [approvedMsgs EXCEPT ![i] = @ - 1]
    /\ UNCHANGED <<rowVars, txnVars, pmVars, executedMsgs, closedMsgs, gatewayVars,
                   order, apiVars, restarts>>

LoseExecuted(o) ==
    /\ o \in boughtMsgs \cup failedMsgs /\ losses < MaxLosses
    /\ losses' = losses + 1
    /\ boughtMsgs' = boughtMsgs \ {o} /\ failedMsgs' = failedMsgs \ {o}
    /\ UNCHANGED <<rowVars, txnVars, pmVars, approvedMsgs, closedMsgs, gatewayVars,
                   order, apiVars, restarts>>

LoseClosed(m) ==
    /\ m \in closedMsgs /\ losses < MaxLosses
    /\ losses' = losses + 1 /\ closedMsgs' = closedMsgs \ {m}
    /\ UNCHANGED <<rowVars, txnVars, pmVars, approvedMsgs, executedMsgs, gatewayVars,
                   order, apiVars, restarts>>

\* The api process dies: transactions roll back, detached tasks, requests and
\* the reconcile pass disappear, messages to its subscriptions are dropped.
ApiRestart ==
    /\ restarts < MaxRestarts /\ restarts' = restarts + 1
    /\ \A i \in Intents : txn[i] \in {"insert", "approve"} => rollbacks[i] < MaxRollbacks
    /\ txn' = [i \in Intents |-> AfterRollback(i)]
    /\ rollbacks' = [i \in Intents |->
                       IF txn[i] \in {"insert", "approve"} THEN rollbacks[i] + 1
                                                           ELSE rollbacks[i]]
    /\ pmTasks' = [i \in Intents |-> 0] /\ pmDraft' = [i \in Intents |-> {}]
    /\ boughtMsgs' = {} /\ failedMsgs' = {} /\ closedMsgs' = {}
    /\ scan' = {}
    /\ req' = [u \in Requests |-> "idle"] /\ reqIntent' = [u \in Requests |-> Nil]
    /\ UNCHANGED <<rowVars, postmortem, approvedMsgs, gatewayVars, order, losses>>

\* The gateway process dies: its goroutines and the messages to it are gone,
\* the broker keeps the contracts.
GatewayRestart ==
    /\ restarts < MaxRestarts /\ restarts' = restarts + 1
    /\ job' = [o \in Orders |-> IF job[o] = "idle" THEN "idle" ELSE "done"]
    /\ approvedMsgs' = [i \in Intents |-> 0]
    /\ UNCHANGED <<rowVars, txnVars, pmVars, executedMsgs, closedMsgs, jobIntent,
                   order, apiVars, losses>>

-----------------------------------------------------------------------------
IntentStep(i) ==
    \/ ProposeTrade(i) \/ InsertAutoApproved(i) \/ ApproveIntent(i)
    \/ CommitDecision(i) \/ RollBackDecision(i) \/ RejectIntent(i)
    \/ DeadlinePasses(i) \/ ReadForPostmortem(i) \/ PostmortemFails(i)
    \/ LoseApproved(i)
    \/ \E p \in Outcomes : WritePostmortem(i, p)

OrderStep(o) ==
    \/ \E i \in Intents : HandleApproved(i, o)
    \/ BrokerDecides(o) \/ BrokerSettles(o) \/ BuyReturns(o) \/ BuyFails(o)
    \/ ContractSold(o) \/ TrackingLost(o) \/ OnExecuted(o) \/ LoseExecuted(o)

RequestStep(u) ==
    \/ \E i \in Intents : CloseIntentCheck(u, i)
    \/ CloseIntentSell(u) \/ CloseIntentRefused(u) \/ CloseIntentApply(u)

Next ==
    \/ \E i \in Intents : IntentStep(i)
    \/ \E o \in Orders : OrderStep(o)
    \/ \E u \in Requests : RequestStep(u)
    \/ \E m \in closedMsgs : OnClosed(m) \/ LoseClosed(m)
    \/ ListPendingApprovals
    \/ ReconcileScan \/ ReconcilePublish
    \/ ApiRestart \/ GatewayRestart

Spec == Init /\ [][Next]_vars

\* The servers' own work goes on: transactions end, messages are handled,
\* the 60 s loop comes round, goroutines and tasks run, requests end.  Users,
\* the broker's market and every failure are free.
Fairness ==
    /\ \A i \in Intents :
         /\ WF_vars(CommitDecision(i))
         /\ WF_vars(ReadForPostmortem(i))
         /\ \A p \in Outcomes : WF_vars(WritePostmortem(i, p))
    /\ \A o \in Orders :
         /\ WF_vars(\E i \in Intents : HandleApproved(i, o))
         /\ WF_vars(BrokerDecides(o))
         /\ WF_vars(BuyReturns(o) \/ BuyFails(o))
         /\ WF_vars(ContractSold(o))
         /\ WF_vars(OnExecuted(o))
    /\ \A u \in Requests :
         WF_vars(CloseIntentSell(u) \/ CloseIntentRefused(u) \/ CloseIntentApply(u))
    /\ \A m \in ClosedEvent : WF_vars(OnClosed(m))
    /\ WF_vars(ReconcileScan) /\ WF_vars(ReconcilePublish)

FairSpec == Spec /\ Fairness

-----------------------------------------------------------------------------
(* What should be true of it.                                              *)

Runs(i) == {o \in Orders : jobIntent[o] = i}
Publishing(i) == txn[i] \in {"insert", "approve"}
Decided(i) == Publishing(i)
              \/ status[i] \in Sanctioned \cup {"executed", "failed_execution"}
Bought == {"open"} \cup Outcomes
SettledFor(i, p) == \E o \in Orders : jobIntent[o] = i /\ order[o] = p

\* An intent reaches the broker at most once per sanction: counting messages
\* still in flight, one run of the router if it is (being) approved, none if it
\* is undecided, rejected or expired, and one more for every transaction that
\* failed after its publish.
OneOrderPerSanction ==
    \A i \in Intents :
        approvedMsgs[i] + Cardinality(Runs(i))
            <= rollbacks[i] + (IF Decided(i) THEN 1 ELSE 0)

\* The profit booked on a row is the one the broker settled on a contract bought
\* for that very intent, whichever of the three writers of a close came first.
BooksMatchBroker ==
    \A i \in Intents : pnl[i] # "null" => SettledFor(i, pnl[i])

\* An executed row names a contract bought for it, and, if no transaction of the
\* intent failed after publishing, that contract is the one whose profit is
\* booked on the row.
RowNamesItsContract ==
    \A i \in Intents : status[i] = "executed" =>
        /\ contractId[i] \in Runs(i) /\ order[contractId[i]] \in Bought
        /\ (pnl[i] # "null" /\ rollbacks[i] = 0) => order[contractId[i]] = pnl[i]

\* What the user reads on a row is what the broker did: the profit and the contract
\* of a trade made for it, through lost answers, repeated events and restarts.
RowsMatchBroker == BooksMatchBroker /\ RowNamesItsContract

\* One postmortem per close: however often the close is delivered, at most one
\* generation is pending, running or written, none before the close, and what is
\* written agrees with the books.
OnePostmortemPerClose ==
    \A i \in Intents :
        /\ pmTasks[i] + Cardinality(pmDraft[i])
              + (IF postmortem[i] = "null" THEN 0 ELSE 1)
              <= (IF pnl[i] = "null" THEN 0 ELSE 1)
        /\ postmortem[i] \in {"null", pnl[i]}

\* A booked close is never overwritten by a later delivery, reconcile pass or
\* manual close.
BookedOnce == [][\A i \in Intents : pnl[i] # "null" => pnl'[i] = pnl[i]]_vars

\* A declined, executed or failed intent never changes status again, and a
\* sanctioned one is never declined: late clicks, expiry sweeps and stale events
\* find their guards closed.
DecisionsAreFinal ==
    [][\A i \in Intents :
         /\ status[i] \notin {"none", "pending_approval"} \cup Sanctioned
              => status'[i] = status[i]
         /\ status[i] \in Sanctioned
              => status'[i] \in {status[i], "executed", "failed_execution"}]_vars

\* Neither a profit nor a decision, once on the row, is taken back by any of the
\* writers that race for it.
NothingIsTakenBack == BookedOnce /\ DecisionsAreFinal

\* The reconcile loop at work: an executed intent whose contract settled is
\* booked in the end, whatever close event, tracking goroutine or process was
\* lost on the way.
SettledTradesAreBooked ==
    \A i \in Intents :
        (status[i] = "executed" /\ order[contractId[i]] \in Outcomes)
            ~> (pnl[i] # "null")

\* Unless a process crashes or a call fails, every booked close gets its
\* postmortem, the only input of the circuit breaker and of calibration.
ClosesGetPostmortems ==
    \A i \in Intents :
        (pnl[i] # "null") ~> (postmortem[i] # "null" \/ losses + restarts > 0)

\* A settlement arrives: at the row in the end, and from there at the postmortem.
SettlementsArrive == SettledTradesAreBooked /\ ClosesGetPostmortems

(***************************************************************************)
(* Where no transaction fails after publishing, each intent implements the *)
(* abstract ledger entry of IntentLedger.                                  *)
(***************************************************************************)
AbsDecision == [i \in Intents |->
    IF Decided(i) THEN "sanctioned"
    ELSE IF status[i] \in {"none", "pending_approval"} THEN "undecided"
    ELSE "declined"]
AbsPosition == [i \in Intents |->
    IF \E o \in Runs(i) : order[o] = "win" THEN "win"
    ELSE IF \E o \in Runs(i) : order[o] = "loss" THEN "loss"
    ELSE IF \E o \in Runs(i) : order[o] = "open" THEN "open" ELSE "none"]

Ledger == INSTANCE IntentLedger
              WITH decision <- AbsDecision, position <- AbsPosition, book <- pnl

\* The whole pipeline implements the promise made to the user: decide once, open
\* at most one position after a sanction, book the result of that position.
ImplementsLedger == Ledger!Spec

\* reconcile.py: "This loop closes the gap" of unreported settlements.  Every
\* contract settled for an intent is booked on it in the end.
ReconcileClosesTheGap ==
    \A i \in Intents :
        (\E o \in Runs(i) : order[o] \in Outcomes) ~> (pnl[i] # "null")
=============================================================================
