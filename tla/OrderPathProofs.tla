---------------------------- MODULE OrderPathProofs ----------------------------
(***************************************************************************)
(* Machine-checked proofs about the way of an order: TradeLifecycle, for   *)
(* every number of intents, router runs and requests and every budget of   *)
(* failures, and BrokerClient, for any requests of the three kinds and any *)
(* number of connections.                                                  *)
(***************************************************************************)
EXTENDS TradeLifecycle, BrokerClient, FiniteSetTheorems, TLAPS

(***************************************************************************)
(* Type correctness.                                                       *)
(***************************************************************************)
LEMMA TypeInit == Init => TypeOK
  BY LifecycleConstants DEF Init, TypeOK, Status, Outcomes

LEMMA TypeIntentStep ==
  ASSUME TypeOK, NEW i \in Intents, IntentStep(i)
  PROVE  TypeOK'
<1> USE DEF TypeOK, Status, Sanctioned, Outcomes, rowVars, txnVars, pmVars, busVars,
           gatewayVars, apiVars, budget, reqVars, executedMsgs
<1>1. CASE ProposeTrade(i)
  BY <1>1 DEF ProposeTrade
<1>2. CASE InsertAutoApproved(i)
  BY <1>2 DEF InsertAutoApproved
<1>3. CASE ApproveIntent(i)
  BY <1>3 DEF ApproveIntent
<1>4. CASE CommitDecision(i)
  BY <1>4 DEF CommitDecision
<1>5. CASE RollBackDecision(i)
  BY <1>5 DEF RollBackDecision, AfterRollback
<1>6. CASE RejectIntent(i)
  BY <1>6 DEF RejectIntent
<1>7. CASE DeadlinePasses(i)
  BY <1>7 DEF DeadlinePasses
<1>8. CASE ReadForPostmortem(i)
  BY <1>8 DEF ReadForPostmortem
<1>9. CASE PostmortemFails(i)
  BY <1>9 DEF PostmortemFails
<1>10. CASE LoseApproved(i)
  BY <1>10 DEF LoseApproved
<1>11. ASSUME NEW p \in Outcomes, WritePostmortem(i, p)
       PROVE  TypeOK'
  BY <1>11 DEF WritePostmortem
<1>12. QED
  BY <1>1, <1>2, <1>3, <1>4, <1>5, <1>6, <1>7, <1>8, <1>9, <1>10, <1>11 DEF IntentStep

LEMMA TypeOrderStep ==
  ASSUME TypeOK, NEW o \in Orders, OrderStep(o)
  PROVE  TypeOK'
<1> USE DEF TypeOK, Status, Sanctioned, Outcomes, rowVars, txnVars, pmVars, busVars,
           gatewayVars, apiVars, budget, reqVars, executedMsgs, ClosedEvent
<1>1. ASSUME NEW i \in Intents, HandleApproved(i, o)
      PROVE  TypeOK'
  BY <1>1 DEF HandleApproved
<1>2. CASE BrokerDecides(o)
  BY <1>2 DEF BrokerDecides
<1>3. CASE BrokerSettles(o)
  BY <1>3 DEF BrokerSettles
<1>4. CASE BuyReturns(o)
  BY <1>4 DEF BuyReturns
<1>5. CASE BuyFails(o)
  BY <1>5 DEF BuyFails
<1>6. CASE ContractSold(o)
  BY <1>6 DEF ContractSold
<1>7. CASE TrackingLost(o)
  BY <1>7 DEF TrackingLost
<1>8. CASE OnExecuted(o)
  BY <1>8 DEF OnExecuted, ExecutedStatus
<1>9. CASE LoseExecuted(o)
  BY <1>9 DEF LoseExecuted
<1>10. QED
  BY <1>1, <1>2, <1>3, <1>4, <1>5, <1>6, <1>7, <1>8, <1>9 DEF OrderStep

LEMMA TypeRequestStep ==
  ASSUME TypeOK, NEW u \in Requests, RequestStep(u)
  PROVE  TypeOK'
<1> USE DEF TypeOK, Status, Sanctioned, Outcomes, rowVars, txnVars, pmVars, busVars,
           gatewayVars, apiVars, budget, reqVars, executedMsgs
<1>1. ASSUME NEW i \in Intents, CloseIntentCheck(u, i)
      PROVE  TypeOK'
  BY <1>1 DEF CloseIntentCheck
<1>2. CASE CloseIntentSell(u)
  <2>1. order' \in [Orders -> {"none", "requested", "refused", "open"} \cup Outcomes]
    <3>1. PICK s \in Outcomes : order' = [order EXCEPT ![contractId[reqIntent[u]]] = s]
      BY <1>2 DEF CloseIntentSell
    <3>2. QED
      BY <3>1
  <2>2. /\ req' \in [Requests -> {"idle", "selling"} \cup Outcomes]
        /\ reqIntent' \in [Requests -> Intents \cup {Nil}]
        /\ \A v \in Requests : req'[v] # "idle" => reqIntent'[v] \in Intents
    BY <1>2 DEF CloseIntentSell, RequestEnds
  <2>3. losses' \in Nat
    BY <1>2 DEF CloseIntentSell
  <2>4. QED
    BY <1>2, <2>1, <2>2, <2>3 DEF CloseIntentSell
<1>3. CASE CloseIntentRefused(u)
  BY <1>3 DEF CloseIntentRefused, RequestEnds
<1>4. CASE CloseIntentApply(u)
  BY <1>4 DEF CloseIntentApply, RequestEnds, RecordClose, SpawnPostmortem, ClosedEvent
<1>5. QED
  BY <1>1, <1>2, <1>3, <1>4 DEF RequestStep

LEMMA TypeEventStep ==
  ASSUME TypeOK, NEW m \in closedMsgs, OnClosed(m) \/ LoseClosed(m)
  PROVE  TypeOK'
<1> USE DEF TypeOK, Status, Sanctioned, Outcomes, rowVars, txnVars, pmVars, busVars,
           gatewayVars, apiVars, budget, reqVars, executedMsgs
<1>1. CASE OnClosed(m)
  BY <1>1 DEF OnClosed, RecordClose, SpawnPostmortem, ClosedEvent
<1>2. CASE LoseClosed(m)
  BY <1>2 DEF LoseClosed
<1>3. QED
  BY <1>1, <1>2

LEMMA TypeSystemStep ==
  ASSUME TypeOK,
         ListPendingApprovals \/ ReconcileScan \/ ReconcilePublish
           \/ ApiRestart \/ GatewayRestart
  PROVE  TypeOK'
<1> USE DEF TypeOK, Status, Sanctioned, Outcomes, rowVars, txnVars, pmVars, busVars,
           gatewayVars, apiVars, budget, reqVars, executedMsgs
<1>1. CASE ListPendingApprovals
  BY <1>1 DEF ListPendingApprovals
<1>2. CASE ReconcileScan
  BY <1>2 DEF ReconcileScan, Unclosed
<1>3. CASE ReconcilePublish
  BY <1>3 DEF ReconcilePublish, ReconcileEvents, ClosedEvent
<1>4. CASE ApiRestart
  BY <1>4 DEF ApiRestart, AfterRollback
<1>5. CASE GatewayRestart
  BY <1>5 DEF GatewayRestart
<1>6. QED
  BY <1>1, <1>2, <1>3, <1>4, <1>5

\* Every state of the pipeline is well typed: in particular every message names
\* an existing intent or router run, and every busy goroutine has its intent.
THEOREM TypeCorrect == Spec => []TypeOK
<1>1. TypeOK /\ [Next]_vars => TypeOK'
  <2>1. ASSUME TypeOK, UNCHANGED vars
        PROVE  TypeOK'
    BY <2>1 DEF TypeOK, vars, rowVars, txnVars, pmVars, busVars, gatewayVars, apiVars,
               budget, reqVars, executedMsgs
  <2>2. QED
    BY <2>1, TypeIntentStep, TypeOrderStep, TypeRequestStep, TypeEventStep,
       TypeSystemStep DEF Next
<1>2. QED
  BY TypeInit, <1>1, PTL DEF Spec

(***************************************************************************)
(* The books.  An invariant that relates every place where a result or a   *)
(* contract id travels (events, requests, the scan, the row) to the broker *)
(* contract it came from.                                                  *)
(***************************************************************************)
TxnInv == \A i \in Intents :
    /\ txn[i] = "approve" => status[i] = "pending_approval"
    /\ txn[i] \in {"insert", "aborted"} => status[i] = "none"

RouterInv ==
    /\ \A o \in Orders : job[o] = "idle" => jobIntent[o] = Nil /\ order[o] = "none"
    /\ \A o \in Orders : job[o] = "tracking" => order[o] \in Bought
    /\ \A o \in boughtMsgs \cup failedMsgs : job[o] # "idle"
    /\ \A o \in boughtMsgs : order[o] \in Bought

RowInv ==
    /\ \A i \in Intents : status[i] = "executed" <=> contractId[i] # Nil
    /\ \A i \in Intents : contractId[i] # Nil =>
         jobIntent[contractId[i]] = i /\ order[contractId[i]] \in Bought
    /\ \A i \in scan : contractId[i] # Nil
    /\ \A u \in Requests : req[u] # "idle" => contractId[reqIntent[u]] # Nil
    /\ \A u \in Requests : req[u] \in Outcomes => order[contractId[reqIntent[u]]] = req[u]

EventInv == \A m \in closedMsgs : SettledFor(m.intent, m.pnl)

BooksInv == TypeOK /\ TxnInv /\ RouterInv /\ RowInv /\ EventInv /\ BooksMatchBroker

LEMMA BooksInit == Init => BooksInv
  BY TypeInit, LifecycleConstants
  DEF Init, BooksInv, TxnInv, RouterInv, RowInv, EventInv, BooksMatchBroker, Outcomes, Bought

\* The steps that touch neither the broker's side nor the router's assignment.
LEMMA BrokerSideFrame ==
  ASSUME Next,
         ~ \E o \in Orders : \/ \E i \in Intents : HandleApproved(i, o)
                             \/ BrokerDecides(o) \/ BrokerSettles(o),
         ~ \E u \in Requests : CloseIntentSell(u)
  PROVE  UNCHANGED <<order, jobIntent>>
<1> USE DEF gatewayVars
<1>1. ASSUME NEW i \in Intents, IntentStep(i)
      PROVE  UNCHANGED <<order, jobIntent>>
  BY <1>1 DEF IntentStep, ProposeTrade, InsertAutoApproved, ApproveIntent, CommitDecision,
     RollBackDecision, RejectIntent, DeadlinePasses, ReadForPostmortem, PostmortemFails,
     LoseApproved, WritePostmortem
<1>2. ASSUME NEW o \in Orders, OrderStep(o)
      PROVE  UNCHANGED <<order, jobIntent>>
  BY <1>2 DEF OrderStep, BuyReturns, BuyFails, ContractSold, TrackingLost, OnExecuted,
     LoseExecuted
<1>3. ASSUME NEW u \in Requests, RequestStep(u)
      PROVE  UNCHANGED <<order, jobIntent>>
  BY <1>3 DEF RequestStep, CloseIntentCheck, CloseIntentRefused, CloseIntentApply
<1>4. QED
  BY <1>1, <1>2, <1>3
  DEF Next, OnClosed, LoseClosed, ListPendingApprovals, ReconcileScan, ReconcilePublish,
      ApiRestart, GatewayRestart

\* A contract never goes back: bought stays bought for the same intent, and a
\* settled result stays.
LEMMA BoughtStays ==
  ASSUME TypeOK, RouterInv, RowInv, Next, NEW o \in Orders, order[o] \in Bought
  PROVE  /\ order'[o] \in Bought /\ jobIntent'[o] = jobIntent[o]
         /\ order[o] \in Outcomes => order'[o] = order[o]
<1> USE DEF TypeOK, RouterInv, Bought, Outcomes, gatewayVars
<1>1. ASSUME NEW i \in Intents, NEW q \in Orders, HandleApproved(i, q)
      PROVE  order'[o] = order[o] /\ jobIntent'[o] = jobIntent[o]
  BY <1>1 DEF HandleApproved
<1>2. ASSUME NEW q \in Orders, BrokerDecides(q)
      PROVE  order'[o] = order[o] /\ jobIntent'[o] = jobIntent[o]
  BY <1>2 DEF BrokerDecides
<1>3. ASSUME NEW q \in Orders, BrokerSettles(q)
      PROVE  /\ order'[o] \in Bought /\ jobIntent'[o] = jobIntent[o]
             /\ order[o] \in Outcomes => order'[o] = order[o]
  BY <1>3 DEF BrokerSettles
<1>4. ASSUME NEW u \in Requests, CloseIntentSell(u)
      PROVE  /\ order'[o] \in Bought /\ jobIntent'[o] = jobIntent[o]
             /\ order[o] \in Outcomes => order'[o] = order[o]
  <2>1. PICK s \in Outcomes : order' = [order EXCEPT ![contractId[reqIntent[u]]] = s]
    BY <1>4 DEF CloseIntentSell
  <2>2. order[contractId[reqIntent[u]]] = "open" /\ jobIntent' = jobIntent
    BY <1>4 DEF CloseIntentSell
  <2>3. QED
    BY <2>1, <2>2
<1>5. QED
  BY <1>1, <1>2, <1>3, <1>4, BrokerSideFrame

LEMMA SettledStays ==
  ASSUME TypeOK, RouterInv, RowInv, Next,
         NEW i \in Intents, NEW p \in Outcomes, SettledFor(i, p)
  PROVE  SettledFor(i, p)'
<1>1. PICK o \in Orders : jobIntent[o] = i /\ order[o] = p
  BY DEF SettledFor
<1>2. order'[o] = p /\ jobIntent'[o] = i
  BY <1>1, BoughtStays DEF Bought
<1>3. QED
  BY <1>2 DEF SettledFor

LEMMA RouterStep ==
  ASSUME TypeOK, RouterInv, RowInv, Next
  PROVE  RouterInv'
<1> USE DEF TypeOK, RouterInv, Bought, Outcomes, gatewayVars, busVars, executedMsgs
<1>1. ASSUME NEW i \in Intents, IntentStep(i)
      PROVE  RouterInv'
  BY <1>1 DEF IntentStep, ProposeTrade, InsertAutoApproved, ApproveIntent, CommitDecision,
     RollBackDecision, RejectIntent, DeadlinePasses, ReadForPostmortem, PostmortemFails,
     LoseApproved, WritePostmortem
<1>2. ASSUME NEW o \in Orders, OrderStep(o)
      PROVE  RouterInv'
  <2>1. ASSUME NEW i \in Intents, HandleApproved(i, o)
        PROVE  RouterInv'
    BY <2>1, LifecycleConstants DEF HandleApproved
  <2>2. CASE BrokerDecides(o)
    BY <2>2 DEF BrokerDecides
  <2>3. CASE BrokerSettles(o)
    BY <2>3 DEF BrokerSettles
  <2>4. CASE BuyReturns(o)
    BY <2>4 DEF BuyReturns
  <2>5. CASE BuyFails(o)
    BY <2>5 DEF BuyFails
  <2>6. CASE ContractSold(o)
    BY <2>6 DEF ContractSold
  <2>7. CASE TrackingLost(o)
    BY <2>7 DEF TrackingLost
  <2>8. CASE OnExecuted(o)
    BY <2>8 DEF OnExecuted
  <2>9. CASE LoseExecuted(o)
    BY <2>9 DEF LoseExecuted
  <2>10. QED
    BY <1>2, <2>1, <2>2, <2>3, <2>4, <2>5, <2>6, <2>7, <2>8, <2>9 DEF OrderStep
<1>3. ASSUME NEW u \in Requests, RequestStep(u)
      PROVE  RouterInv'
  <2>1. CASE CloseIntentSell(u)
    <3>1. PICK s \in Outcomes : order' = [order EXCEPT ![contractId[reqIntent[u]]] = s]
      BY <2>1 DEF CloseIntentSell
    <3>2. order[contractId[reqIntent[u]]] = "open"
      BY <2>1 DEF CloseIntentSell
    <3>3. UNCHANGED <<job, jobIntent, boughtMsgs, failedMsgs>>
      BY <2>1 DEF CloseIntentSell
    <3>4. QED
      BY <3>1, <3>2, <3>3
  <2>2. QED
    BY <1>3, <2>1 DEF RequestStep, CloseIntentCheck, CloseIntentRefused, CloseIntentApply
<1>4. QED
  BY <1>1, <1>2, <1>3
  DEF Next, OnClosed, LoseClosed, ListPendingApprovals, ReconcileScan, ReconcilePublish,
      ApiRestart, GatewayRestart

\* The steps that touch neither the row's status and contract nor the scan and the
\* requests.
LEMMA RowFrame ==
  ASSUME TypeOK, RouterInv, RowInv, Next,
         UNCHANGED <<status, contractId, scan, req, reqIntent>>
  PROVE  RowInv'
<1>1. \A i \in Intents : contractId[i] # Nil => contractId[i] \in Orders
  BY DEF TypeOK
<1>2. \A i \in Intents : contractId[i] # Nil =>
         jobIntent'[contractId[i]] = i /\ order'[contractId[i]] \in Bought
  BY <1>1, BoughtStays DEF RowInv
<1>3. \A u \in Requests : req[u] \in Outcomes =>
         order'[contractId[reqIntent[u]]] = req[u]
  <2> SUFFICES ASSUME NEW u \in Requests, req[u] \in Outcomes
               PROVE  order'[contractId[reqIntent[u]]] = req[u]
    OBVIOUS
  <2>1. /\ reqIntent[u] \in Intents /\ contractId[reqIntent[u]] # Nil
        /\ order[contractId[reqIntent[u]]] = req[u]
    BY DEF TypeOK, RowInv, Outcomes
  <2>2. QED
    BY <1>1, <2>1, BoughtStays DEF Bought
<1>4. QED
  BY <1>2, <1>3 DEF RowInv

LEMMA TxnStep ==
  ASSUME TypeOK, TxnInv, Next
  PROVE  TxnInv'
<1> USE DEF TypeOK, TxnInv, rowVars, txnVars
<1>1. ASSUME NEW i \in Intents, IntentStep(i)
      PROVE  TxnInv'
  <2>1. CASE ProposeTrade(i)
    BY <2>1 DEF ProposeTrade
  <2>2. CASE InsertAutoApproved(i)
    BY <2>2 DEF InsertAutoApproved
  <2>3. CASE ApproveIntent(i)
    BY <2>3 DEF ApproveIntent, CanApprove
  <2>4. CASE CommitDecision(i)
    BY <2>4 DEF CommitDecision
  <2>5. CASE RollBackDecision(i)
    BY <2>5 DEF RollBackDecision, AfterRollback
  <2>6. CASE RejectIntent(i)
    BY <2>6 DEF RejectIntent
  <2>7. QED
    BY <1>1, <2>1, <2>2, <2>3, <2>4, <2>5, <2>6
    DEF IntentStep, DeadlinePasses, ReadForPostmortem, PostmortemFails, LoseApproved,
        WritePostmortem
<1>2. ASSUME NEW o \in Orders, OrderStep(o)
      PROVE  TxnInv'
  <2>1. CASE OnExecuted(o)
    BY <2>1 DEF OnExecuted, AcceptsExecution, Sanctioned
  <2>2. QED
    BY <1>2, <2>1
    DEF OrderStep, HandleApproved, BrokerDecides, BrokerSettles, BuyReturns, BuyFails,
        ContractSold, TrackingLost, LoseExecuted
<1>3. ASSUME NEW u \in Requests, RequestStep(u)
      PROVE  TxnInv'
  BY <1>3
  DEF RequestStep, CloseIntentCheck, CloseIntentSell, CloseIntentRefused, CloseIntentApply
<1>4. CASE ListPendingApprovals
  BY <1>4 DEF ListPendingApprovals
<1>5. CASE ApiRestart
  BY <1>5 DEF ApiRestart, AfterRollback
<1>6. QED
  BY <1>1, <1>2, <1>3, <1>4, <1>5
  DEF Next, OnClosed, LoseClosed, ReconcileScan, ReconcilePublish, GatewayRestart

LEMMA RowStep ==
  ASSUME TypeOK, TxnInv, RouterInv, RowInv, Next
  PROVE  RowInv'
<1> USE DEF rowVars, txnVars, pmVars, busVars, executedMsgs, gatewayVars, apiVars, reqVars,
           budget
<1>0. CASE UNCHANGED <<status, contractId, scan, req, reqIntent>>
  BY <1>0, RowFrame
<1>1. ASSUME NEW i \in Intents, IntentStep(i)
      PROVE  RowInv'
  <2>1. CASE ProposeTrade(i)
    BY <2>1 DEF ProposeTrade, TypeOK, RowInv
  <2>2. CASE CommitDecision(i)
    BY <2>2 DEF CommitDecision, TypeOK, TxnInv, RowInv
  <2>3. CASE RejectIntent(i)
    BY <2>3 DEF RejectIntent, CanReject, TypeOK, RowInv
  <2>4. QED
    BY <1>0, <1>1, <2>1, <2>2, <2>3
    DEF IntentStep, InsertAutoApproved, ApproveIntent, RollBackDecision, DeadlinePasses,
        ReadForPostmortem, PostmortemFails, LoseApproved, WritePostmortem
<1>2. ASSUME NEW o \in Orders, OrderStep(o)
      PROVE  RowInv'
  <2>1. CASE OnExecuted(o)
    <3> DEFINE i == jobIntent[o]
    <3>1. i \in Intents /\ (o \in boughtMsgs => order[o] \in Bought)
      BY <2>1 DEF OnExecuted, TypeOK, RouterInv
    <3>2. CASE AcceptsExecution(i)
      <4>1. contractId[i] = Nil
        BY <3>1, <3>2 DEF AcceptsExecution, Sanctioned, RowInv
      <4>2. /\ status' = [status EXCEPT ![i] = ExecutedStatus(o)]
            /\ contractId' = [contractId EXCEPT ![i] = IF o \in boughtMsgs THEN o ELSE @]
            /\ UNCHANGED <<order, jobIntent, scan, req, reqIntent>>
        BY <2>1, <3>2 DEF OnExecuted
      <4>3. QED
        BY <3>1, <4>1, <4>2, LifecycleConstants DEF TypeOK, RowInv, ExecutedStatus, Outcomes
    <3>3. QED
      BY <1>0, <2>1, <3>2 DEF OnExecuted
  <2>2. QED
    BY <1>0, <1>2, <2>1
    DEF OrderStep, HandleApproved, BrokerDecides, BrokerSettles, BuyReturns, BuyFails,
        ContractSold, TrackingLost, LoseExecuted
<1>3. ASSUME NEW u \in Requests, RequestStep(u)
      PROVE  RowInv'
  <2>1. ASSUME NEW i \in Intents, CloseIntentCheck(u, i)
        PROVE  RowInv'
    BY <2>1 DEF CloseIntentCheck, Unclosed, TypeOK, RowInv, Outcomes
  <2>2. CASE CloseIntentSell(u)
    <3>1. PICK s \in Outcomes :
            /\ order' = [order EXCEPT ![contractId[reqIntent[u]]] = s]
            /\ \/ req' = [req EXCEPT ![u] = s] /\ UNCHANGED reqIntent
               \/ RequestEnds(u)
      BY <2>2 DEF CloseIntentSell
    <3>2. /\ req[u] = "selling" /\ order[contractId[reqIntent[u]]] = "open"
          /\ UNCHANGED <<status, contractId, scan, jobIntent>>
      BY <2>2 DEF CloseIntentSell
    <3>3. contractId[reqIntent[u]] \in Orders /\ reqIntent[u] \in Intents
      BY <3>2 DEF TypeOK, RowInv
    <3>4. QED
      BY <3>1, <3>2, <3>3 DEF TypeOK, RowInv, RequestEnds, Bought, Outcomes
  <2>3. CASE CloseIntentRefused(u)
    BY <2>3 DEF CloseIntentRefused, RequestEnds, TypeOK, RowInv, Outcomes
  <2>4. CASE CloseIntentApply(u)
    BY <2>4 DEF CloseIntentApply, RequestEnds, TypeOK, RowInv, Outcomes
  <2>5. QED
    BY <1>3, <2>1, <2>2, <2>3, <2>4 DEF RequestStep
<1>4. CASE ListPendingApprovals
  BY <1>4 DEF ListPendingApprovals, TypeOK, RowInv
<1>5. CASE ReconcileScan
  BY <1>5 DEF ReconcileScan, Unclosed, TypeOK, RowInv
<1>6. CASE ReconcilePublish
  BY <1>6 DEF ReconcilePublish, TypeOK, RowInv
<1>7. CASE ApiRestart
  BY <1>7 DEF ApiRestart, TypeOK, RowInv, Outcomes
<1>8. QED
  BY <1>0, <1>1, <1>2, <1>3, <1>4, <1>5, <1>6, <1>7
  DEF Next, OnClosed, LoseClosed, GatewayRestart

LEMMA EventStep ==
  ASSUME TypeOK, TxnInv, RouterInv, RowInv, EventInv, Next
  PROVE  EventInv'
<1> USE DEF busVars
<1>0. ASSUME closedMsgs' \subseteq closedMsgs
      PROVE  EventInv'
  <2> SUFFICES ASSUME NEW m \in closedMsgs
               PROVE  SettledFor(m.intent, m.pnl)'
    BY <1>0 DEF EventInv
  <2>1. m.intent \in Intents /\ m.pnl \in Outcomes
    BY DEF TypeOK, ClosedEvent
  <2>2. QED
    BY <2>1, SettledStays DEF EventInv
<1>1. ASSUME UNCHANGED <<order, jobIntent>>,
             \A m \in closedMsgs' \ closedMsgs : SettledFor(m.intent, m.pnl)
      PROVE  EventInv'
  BY <1>1 DEF EventInv, SettledFor
<1>2. ASSUME NEW i \in Intents, IntentStep(i)
      PROVE  EventInv'
  BY <1>0, <1>2
  DEF IntentStep, ProposeTrade, InsertAutoApproved, ApproveIntent, CommitDecision,
      RollBackDecision, RejectIntent, DeadlinePasses, ReadForPostmortem, PostmortemFails,
      LoseApproved, WritePostmortem
<1>3. ASSUME NEW o \in Orders, OrderStep(o)
      PROVE  EventInv'
  <2>1. CASE ContractSold(o)
    <3> DEFINE m == [intent |-> jobIntent[o], pnl |-> order[o], by |-> "broker"]
    <3>1. SettledFor(m.intent, m.pnl)
      BY DEF SettledFor
    <3>2. closedMsgs' = closedMsgs \cup {m} /\ UNCHANGED <<order, jobIntent>>
      BY <2>1 DEF ContractSold
    <3> HIDE DEF m
    <3>3. QED
      BY <1>1, <3>1, <3>2
  <2>2. QED
    BY <1>0, <1>3, <2>1
    DEF OrderStep, HandleApproved, BrokerDecides, BrokerSettles, BuyReturns, BuyFails,
        TrackingLost, OnExecuted, LoseExecuted
<1>4. ASSUME NEW u \in Requests, RequestStep(u)
      PROVE  EventInv'
  <2>1. CASE CloseIntentApply(u)
    <3> DEFINE m == [intent |-> reqIntent[u], pnl |-> req[u], by |-> "user"]
    <3>1. SettledFor(m.intent, m.pnl)
      BY <2>1 DEF SettledFor, CloseIntentApply, TypeOK, RowInv, Outcomes
    <3>2. closedMsgs' = closedMsgs \cup {m} /\ UNCHANGED <<order, jobIntent>>
      BY <2>1 DEF CloseIntentApply, gatewayVars
    <3> HIDE DEF m
    <3>3. QED
      BY <1>1, <3>1, <3>2
  <2>2. QED
    BY <1>0, <1>4, <2>1 DEF RequestStep, CloseIntentCheck, CloseIntentSell, CloseIntentRefused
<1>5. CASE ReconcilePublish
  <2>1. CASE closedMsgs' = closedMsgs \cup ReconcileEvents(scan)
    <3>1. \A m \in ReconcileEvents(scan) : SettledFor(m.intent, m.pnl)
      BY DEF ReconcileEvents, SettledFor, TypeOK, RowInv
    <3>2. UNCHANGED <<order, jobIntent>>
      BY <1>5 DEF ReconcilePublish, gatewayVars
    <3>3. QED
      BY <1>1, <2>1, <3>1, <3>2
  <2>2. QED
    BY <1>0, <1>5, <2>1 DEF ReconcilePublish
<1>6. QED
  BY <1>0, <1>2, <1>3, <1>4, <1>5
  DEF Next, OnClosed, LoseClosed, ListPendingApprovals, ReconcileScan, ApiRestart,
      GatewayRestart

\* The only writers of the booked profit.
LEMMA PnlFrame ==
  ASSUME Next, ~ \E m \in closedMsgs : OnClosed(m), ~ \E u \in Requests : CloseIntentApply(u)
  PROVE  pnl' = pnl
<1> USE DEF rowVars
<1>1. ASSUME NEW i \in Intents, IntentStep(i)
      PROVE  pnl' = pnl
  BY <1>1
  DEF IntentStep, ProposeTrade, InsertAutoApproved, ApproveIntent, CommitDecision,
      RollBackDecision, RejectIntent, DeadlinePasses, ReadForPostmortem, PostmortemFails,
      LoseApproved, WritePostmortem
<1>2. ASSUME NEW o \in Orders, OrderStep(o)
      PROVE  pnl' = pnl
  BY <1>2
  DEF OrderStep, HandleApproved, BrokerDecides, BrokerSettles, BuyReturns, BuyFails,
      ContractSold, TrackingLost, OnExecuted, LoseExecuted
<1>3. ASSUME NEW u \in Requests, RequestStep(u)
      PROVE  pnl' = pnl
  BY <1>3 DEF RequestStep, CloseIntentCheck, CloseIntentSell, CloseIntentRefused
<1>4. QED
  BY <1>1, <1>2, <1>3
  DEF Next, LoseClosed, ListPendingApprovals, ReconcileScan, ReconcilePublish, ApiRestart,
      GatewayRestart

\* A step writes a profit only on an unbooked row, and one the broker settled.
LEMMA PnlStep ==
  ASSUME TypeOK, RowInv, EventInv, Next, NEW i \in Intents
  PROVE  \/ pnl'[i] = pnl[i]
         \/ /\ pnl[i] = "null" /\ pnl'[i] \in Outcomes
            /\ SettledFor(i, pnl'[i]) /\ UNCHANGED <<order, jobIntent>>
<1>1. ASSUME NEW m \in closedMsgs, OnClosed(m), pnl'[i] # pnl[i]
      PROVE  /\ pnl[i] = "null" /\ pnl'[i] \in Outcomes
             /\ SettledFor(i, pnl'[i]) /\ UNCHANGED <<order, jobIntent>>
  BY <1>1 DEF OnClosed, RecordClose, CloseMatches, TypeOK, ClosedEvent, EventInv, gatewayVars
<1>2. ASSUME NEW u \in Requests, CloseIntentApply(u), pnl'[i] # pnl[i]
      PROVE  /\ pnl[i] = "null" /\ pnl'[i] \in Outcomes
             /\ SettledFor(i, pnl'[i]) /\ UNCHANGED <<order, jobIntent>>
  <2>1. SettledFor(reqIntent[u], req[u])
    BY <1>2 DEF CloseIntentApply, SettledFor, TypeOK, RowInv, Outcomes
  <2>2. QED
    BY <1>2, <2>1 DEF CloseIntentApply, RecordClose, CloseMatches, TypeOK, gatewayVars
<1>3. QED
  BY <1>1, <1>2, PnlFrame

LEMMA BooksStep == BooksInv /\ [Next]_vars => BooksInv'
<1>1. ASSUME BooksInv, Next
      PROVE  BooksInv'
  <2>1. TypeOK'
    BY <1>1, TypeIntentStep, TypeOrderStep, TypeRequestStep, TypeEventStep, TypeSystemStep
    DEF Next, BooksInv
  <2>2. TxnInv' /\ RouterInv' /\ RowInv' /\ EventInv'
    BY <1>1, TxnStep, RouterStep, RowStep, EventStep DEF BooksInv
  <2>3. BooksMatchBroker'
    <3> SUFFICES ASSUME NEW i \in Intents, pnl'[i] # "null"
                 PROVE  SettledFor(i, pnl[i])'
      BY DEF BooksMatchBroker
    <3>1. CASE pnl'[i] = pnl[i]
      BY <1>1, <3>1, SettledStays DEF BooksInv, BooksMatchBroker, TypeOK
    <3>2. CASE SettledFor(i, pnl'[i]) /\ UNCHANGED <<order, jobIntent>>
      BY <3>2 DEF SettledFor
    <3>3. QED
      BY <1>1, <3>1, <3>2, PnlStep DEF BooksInv
  <2>4. QED
    BY <2>1, <2>2, <2>3 DEF BooksInv
<1>2. ASSUME BooksInv, UNCHANGED vars
      PROVE  BooksInv'
  BY <1>2
  DEF BooksInv, TypeOK, TxnInv, RouterInv, RowInv, EventInv, BooksMatchBroker, SettledFor,
      vars, rowVars, txnVars, pmVars, busVars, executedMsgs, gatewayVars, apiVars, reqVars,
      budget
<1>3. QED
  BY <1>1, <1>2

\* The profit booked on a row is the one the broker settled on a contract bought
\* for that intent, in whatever order the tracking goroutine, the reconcile loop
\* and a manual close deliver it, whatever is lost and whoever restarts.
THEOREM BooksAreRight == Spec => []BooksMatchBroker
<1>1. BooksInv => BooksMatchBroker
  BY DEF BooksInv
<1>2. QED
  BY BooksInit, BooksStep, <1>1, PTL DEF Spec

\* A booked profit is never overwritten.
THEOREM BookedOnlyOnce == Spec => BookedOnce
<1>1. BooksInv /\ [Next]_vars => [\A i \in Intents : pnl[i] # "null" => pnl'[i] = pnl[i]]_vars
  BY PnlStep DEF BooksInv
<1>2. QED
  BY BooksInit, BooksStep, <1>1, PTL DEF Spec, BookedOnce

(***************************************************************************)
(* Decisions.                                                              *)
(***************************************************************************)
\* What DecisionsAreFinal asks of a step.
StaysFinal(i) ==
    /\ status[i] \notin {"none", "pending_approval"} \cup Sanctioned => status'[i] = status[i]
    /\ status[i] \in Sanctioned => status'[i] \in {status[i], "executed", "failed_execution"}

LEMMA FinalStep ==
  ASSUME TypeOK, TxnInv, Next, NEW i \in Intents
  PROVE  StaysFinal(i)
<1> USE DEF TypeOK, StaysFinal, Sanctioned, rowVars
<1>1. ASSUME NEW j \in Intents, IntentStep(j)
      PROVE  StaysFinal(i)
  <2>1. CASE ProposeTrade(j)
    BY <2>1 DEF ProposeTrade
  <2>2. CASE CommitDecision(j)
    BY <2>2 DEF CommitDecision, TxnInv
  <2>3. CASE RejectIntent(j)
    BY <2>3 DEF RejectIntent, CanReject
  <2>4. QED
    BY <1>1, <2>1, <2>2, <2>3
    DEF IntentStep, InsertAutoApproved, ApproveIntent, RollBackDecision, DeadlinePasses,
        ReadForPostmortem, PostmortemFails, LoseApproved, WritePostmortem
<1>2. ASSUME NEW o \in Orders, OrderStep(o)
      PROVE  StaysFinal(i)
  <2>1. CASE OnExecuted(o)
    BY <2>1 DEF OnExecuted, AcceptsExecution, ExecutedStatus
  <2>2. QED
    BY <1>2, <2>1
    DEF OrderStep, HandleApproved, BrokerDecides, BrokerSettles, BuyReturns, BuyFails,
        ContractSold, TrackingLost, LoseExecuted
<1>3. ASSUME NEW u \in Requests, RequestStep(u)
      PROVE  StaysFinal(i)
  BY <1>3
  DEF RequestStep, CloseIntentCheck, CloseIntentSell, CloseIntentRefused, CloseIntentApply
<1>4. CASE ListPendingApprovals
  BY <1>4 DEF ListPendingApprovals
<1>5. QED
  BY <1>1, <1>2, <1>3, <1>4
  DEF Next, OnClosed, LoseClosed, ReconcileScan, ReconcilePublish, ApiRestart, GatewayRestart

\* Neither the profit nor the decision on a row is ever taken back, whichever of
\* the writers that race for it comes second.
THEOREM RowsAreFinal == Spec => NothingIsTakenBack
<1>1. ASSUME BooksInv, [Next]_vars
      PROVE  [\A i \in Intents : StaysFinal(i)]_vars
  BY <1>1, FinalStep DEF BooksInv
<1>2. Spec => DecisionsAreFinal
  BY BooksInit, BooksStep, <1>1, PTL DEF Spec, DecisionsAreFinal, StaysFinal
<1>3. QED
  BY <1>2, BookedOnlyOnce DEF NothingIsTakenBack

(***************************************************************************)
(* Orders and sanctions.                                                   *)
(***************************************************************************)
LEMMA RunsFinite ==
  ASSUME NEW i \in Intents
  PROVE  IsFiniteSet(Runs(i)) /\ Cardinality(Runs(i)) \in Nat
  BY LifecycleConstants, FS_Subset, FS_CardinalityType DEF Runs

\* Taking a message turns it into one more run of the router.
LEMMA HandleCounts ==
  ASSUME TypeOK, RouterInv, NEW i \in Intents, NEW o \in Orders, HandleApproved(i, o)
  PROVE  /\ Cardinality(Runs(i))' = Cardinality(Runs(i)) + 1
         /\ \A j \in Intents \ {i} : Cardinality(Runs(j))' = Cardinality(Runs(j))
<1>1. jobIntent[o] = Nil /\ jobIntent' = [jobIntent EXCEPT ![o] = i]
  BY DEF HandleApproved, RouterInv
<1>2. o \notin Runs(i) /\ Runs(i)' = Runs(i) \cup {o}
  BY <1>1, LifecycleConstants DEF Runs, TypeOK
<1>3. \A j \in Intents \ {i} : Runs(j)' = Runs(j)
  BY <1>1, LifecycleConstants DEF Runs, TypeOK
<1>4. QED
  BY <1>2, <1>3, RunsFinite, FS_AddElement

LEMMA AssignmentFrame ==
  ASSUME Next, ~ \E i \in Intents, o \in Orders : HandleApproved(i, o)
  PROVE  jobIntent' = jobIntent
<1> USE DEF gatewayVars
<1>1. CASE \E o \in Orders : BrokerDecides(o) \/ BrokerSettles(o)
  BY <1>1 DEF BrokerDecides, BrokerSettles
<1>2. CASE \E u \in Requests : CloseIntentSell(u)
  BY <1>2 DEF CloseIntentSell
<1>3. QED
  BY <1>1, <1>2, BrokerSideFrame

\* What a step that starts no run does to one intent: messages only go, or one
\* is published as the intent becomes decided, or a decision is rolled back.
DecisionMoves(i) ==
    \/ /\ approvedMsgs'[i] <= approvedMsgs[i] /\ rollbacks'[i] = rollbacks[i]
       /\ Decided(i) => Decided(i)'
    \/ /\ approvedMsgs'[i] = approvedMsgs[i] + 1 /\ rollbacks'[i] = rollbacks[i]
       /\ ~Decided(i) /\ Decided(i)'
    \/ /\ approvedMsgs'[i] <= approvedMsgs[i] /\ rollbacks'[i] = rollbacks[i] + 1

LEMMA DecisionStep ==
  ASSUME TypeOK, TxnInv, Next, NEW i \in Intents,
         ~ \E j \in Intents, o \in Orders : HandleApproved(j, o)
  PROVE  DecisionMoves(i)
<1> USE DEF TypeOK, TxnInv, DecisionMoves, Decided, Publishing, Sanctioned, rowVars, txnVars,
           busVars
<1>1. ASSUME NEW j \in Intents, IntentStep(j)
      PROVE  DecisionMoves(i)
  <2>1. CASE ProposeTrade(j)
    BY <2>1 DEF ProposeTrade
  <2>2. CASE InsertAutoApproved(j)
    BY <2>2 DEF InsertAutoApproved
  <2>3. CASE ApproveIntent(j)
    BY <2>3 DEF ApproveIntent, CanApprove
  <2>4. CASE CommitDecision(j)
    BY <2>4 DEF CommitDecision
  <2>5. CASE RollBackDecision(j)
    BY <2>5 DEF RollBackDecision, AfterRollback
  <2>6. CASE RejectIntent(j)
    BY <2>6 DEF RejectIntent, CanReject
  <2>7. CASE LoseApproved(j)
    BY <2>7 DEF LoseApproved
  <2>8. QED
    BY <1>1, <2>1, <2>2, <2>3, <2>4, <2>5, <2>6, <2>7
    DEF IntentStep, DeadlinePasses, ReadForPostmortem, PostmortemFails, WritePostmortem
<1>2. ASSUME NEW o \in Orders, OrderStep(o)
      PROVE  DecisionMoves(i)
  <2>1. CASE OnExecuted(o)
    BY <2>1 DEF OnExecuted, AcceptsExecution, ExecutedStatus
  <2>2. QED
    BY <1>2, <2>1
    DEF OrderStep, BrokerDecides, BrokerSettles, BuyReturns, BuyFails, ContractSold,
        TrackingLost, LoseExecuted
<1>3. ASSUME NEW u \in Requests, RequestStep(u)
      PROVE  DecisionMoves(i)
  BY <1>3
  DEF RequestStep, CloseIntentCheck, CloseIntentSell, CloseIntentRefused, CloseIntentApply
<1>4. CASE ListPendingApprovals
  BY <1>4 DEF ListPendingApprovals
<1>5. CASE ApiRestart
  BY <1>5 DEF ApiRestart, AfterRollback
<1>6. CASE GatewayRestart
  BY <1>6 DEF GatewayRestart
<1>7. QED
  BY <1>1, <1>2, <1>3, <1>4, <1>5, <1>6
  DEF Next, OnClosed, LoseClosed, ReconcileScan, ReconcilePublish

LEMMA SanctionInit == Init => OneOrderPerSanction
<1> SUFFICES ASSUME Init, NEW i \in Intents
             PROVE  approvedMsgs[i] + Cardinality(Runs(i)) = 0 /\ rollbacks[i] = 0
  BY DEF OneOrderPerSanction
<1>1. Runs(i) = {}
  BY LifecycleConstants DEF Init, Runs
<1>2. QED
  BY <1>1, FS_EmptySet DEF Init

LEMMA SanctionStep ==
  ASSUME BooksInv, OneOrderPerSanction, [Next]_vars
  PROVE  OneOrderPerSanction'
<1> SUFFICES ASSUME NEW i \in Intents
             PROVE  (approvedMsgs[i] + Cardinality(Runs(i))
                       <= rollbacks[i] + (IF Decided(i) THEN 1 ELSE 0))'
  BY DEF OneOrderPerSanction
<1>0. /\ approvedMsgs[i] \in Nat /\ approvedMsgs'[i] \in Nat
      /\ rollbacks[i] \in Nat /\ rollbacks'[i] \in Nat
      /\ Cardinality(Runs(i)) \in Nat
      /\ approvedMsgs[i] + Cardinality(Runs(i))
           <= rollbacks[i] + (IF Decided(i) THEN 1 ELSE 0)
  BY BooksStep, RunsFinite DEF BooksInv, TypeOK, OneOrderPerSanction
<1>1. ASSUME NEW j \in Intents, NEW o \in Orders, HandleApproved(j, o)
      PROVE  (approvedMsgs[i] + Cardinality(Runs(i))
                <= rollbacks[i] + (IF Decided(i) THEN 1 ELSE 0))'
  <2>1. Decided(i)' = Decided(i) /\ rollbacks'[i] = rollbacks[i]
    BY <1>1 DEF HandleApproved, Decided, Publishing, rowVars, txnVars
  <2>2. CASE i = j
    <3>1. approvedMsgs'[i] = approvedMsgs[i] - 1
      BY <1>1, <2>2 DEF HandleApproved, BooksInv, TypeOK
    <3>2. Cardinality(Runs(i))' = Cardinality(Runs(i)) + 1
      BY <1>1, <2>2, HandleCounts DEF BooksInv
    <3>3. QED
      BY <1>0, <2>1, <3>1, <3>2
  <2>3. CASE i # j
    <3>1. approvedMsgs'[i] = approvedMsgs[i]
      BY <1>1, <2>3 DEF HandleApproved, BooksInv, TypeOK
    <3>2. Cardinality(Runs(i))' = Cardinality(Runs(i))
      BY <1>1, <2>3, HandleCounts DEF BooksInv
    <3>3. QED
      BY <1>0, <2>1, <3>1, <3>2
  <2>4. QED
    BY <2>2, <2>3
<1>2. ASSUME Next, ~ \E j \in Intents, o \in Orders : HandleApproved(j, o)
      PROVE  (approvedMsgs[i] + Cardinality(Runs(i))
                <= rollbacks[i] + (IF Decided(i) THEN 1 ELSE 0))'
  <2>1. Runs(i)' = Runs(i)
    BY <1>2, AssignmentFrame DEF Runs
  <2>2. DecisionMoves(i)
    BY <1>2, DecisionStep DEF BooksInv
  <2>3. QED
    BY <1>0, <2>1, <2>2 DEF DecisionMoves
<1>3. CASE UNCHANGED vars
  BY <1>0, <1>3
  DEF vars, rowVars, txnVars, busVars, gatewayVars, Runs, Decided, Publishing
<1>4. QED
  BY <1>1, <1>2, <1>3

\* An intent is sent to the broker at most once per sanction, and one time more
\* for each transaction that failed after its publish: a rejected, expired or
\* undecided intent whose transactions all committed is never bought.
THEOREM SanctionsBoundOrders == Spec => []OneOrderPerSanction
<1>1. BooksInv /\ OneOrderPerSanction /\ [Next]_vars => OneOrderPerSanction'
  BY SanctionStep
<1>2. QED
  BY BooksInit, BooksStep, SanctionInit, <1>1, PTL DEF Spec

LEMMA AtMostOneRun ==
  ASSUME NEW i \in Intents, Cardinality(Runs(i)) <= 1, NEW o \in Runs(i), NEW q \in Runs(i)
  PROVE  o = q
<1> DEFINE T == {o} \cup {q}
<1>1. T \in SUBSET Runs(i) /\ IsFiniteSet(Runs(i)) /\ Cardinality(Runs(i)) \in Nat
  BY RunsFinite
<1>2. IsFiniteSet(T) /\ Cardinality(T) <= Cardinality(Runs(i))
  BY ONLY <1>1, FS_Subset
<1>3. IsFiniteSet({o}) /\ Cardinality({o}) = 1
  BY FS_Singleton
<1>4. Cardinality(T) = IF q \in {o} THEN 1 ELSE 1 + 1
  BY <1>3, FS_AddElement
<1>5. QED
  BY <1>1, <1>2, <1>4

LEMMA ExecutedRowIsRight ==
  ASSUME BooksInv, OneOrderPerSanction
  PROVE  RowNamesItsContract
<1> SUFFICES ASSUME NEW i \in Intents, status[i] = "executed"
             PROVE  /\ contractId[i] \in Runs(i) /\ order[contractId[i]] \in Bought
                    /\ (pnl[i] # "null" /\ rollbacks[i] = 0) => order[contractId[i]] = pnl[i]
  BY DEF RowNamesItsContract
<1>1. contractId[i] \in Runs(i) /\ order[contractId[i]] \in Bought
  <2>1. contractId[i] # Nil
    BY DEF BooksInv, RowInv
  <2>2. contractId[i] \in Orders
    BY <2>1 DEF BooksInv, TypeOK
  <2>3. jobIntent[contractId[i]] = i /\ order[contractId[i]] \in Bought
    BY <2>1 DEF BooksInv, RowInv
  <2>4. QED
    BY <2>2, <2>3 DEF Runs
<1>2. ASSUME pnl[i] # "null", rollbacks[i] = 0
      PROVE  order[contractId[i]] = pnl[i]
  <2>1. PICK o \in Runs(i) : order[o] = pnl[i]
    BY <1>2 DEF BooksInv, BooksMatchBroker, SettledFor, Runs
  <2>2. Cardinality(Runs(i)) <= 1
    <3>1. Cardinality(Runs(i)) \in Nat /\ approvedMsgs[i] \in Nat
      BY RunsFinite DEF BooksInv, TypeOK
    <3>2. approvedMsgs[i] + Cardinality(Runs(i)) <= 0 + (IF Decided(i) THEN 1 ELSE 0)
      BY <1>2 DEF OneOrderPerSanction
    <3>3. QED
      BY <3>1, <3>2
  <2>3. QED
    BY <1>1, <2>1, <2>2, AtMostOneRun
<1>3. QED
  BY <1>1, <1>2

\* What a row tells the user is what the broker did for that intent: the profit was
\* settled on a contract bought for it, an executed row names such a contract, and
\* where no transaction failed after its publish the two are the same contract.
THEOREM RowsAreRight == Spec => []RowsMatchBroker
<1>1. BooksInv /\ OneOrderPerSanction => RowsMatchBroker
  BY ExecutedRowIsRight DEF BooksInv, RowsMatchBroker
<1>2. Spec => []BooksInv
  BY BooksInit, BooksStep, PTL DEF Spec
<1>3. QED
  BY <1>1, <1>2, SanctionsBoundOrders, PTL

(***************************************************************************)
(* Postmortems.  OnePostmortemPerClose is not inductive: that a generation *)
(* writes what the books say needs that it read it there.                  *)
(***************************************************************************)
Count(present) == IF present THEN 1 ELSE 0

PmInv(i) ==
    /\ pmDraft[i] \subseteq {pnl[i]}
    /\ pmTasks[i] + Count(pmDraft[i] # {}) + Count(postmortem[i] # "null")
         <= Count(pnl[i] # "null")
    /\ postmortem[i] \in {"null", pnl[i]}

\* The steps that touch neither the profit nor the postmortems.
LEMMA PmFrame ==
  ASSUME Next,
         ~ \E i \in Intents : \/ ReadForPostmortem(i) \/ PostmortemFails(i)
                              \/ \E p \in Outcomes : WritePostmortem(i, p),
         ~ \E m \in closedMsgs : OnClosed(m), ~ \E u \in Requests : CloseIntentApply(u),
         ~ ApiRestart
  PROVE  UNCHANGED <<pnl, pmVars>>
<1>1. pnl' = pnl
  BY PnlFrame
<1> USE DEF pmVars
<1>2. ASSUME NEW i \in Intents, IntentStep(i)
      PROVE  UNCHANGED pmVars
  BY <1>2
  DEF IntentStep, ProposeTrade, InsertAutoApproved, ApproveIntent, CommitDecision,
      RollBackDecision, RejectIntent, DeadlinePasses, LoseApproved
<1>3. ASSUME NEW o \in Orders, OrderStep(o)
      PROVE  UNCHANGED pmVars
  BY <1>3
  DEF OrderStep, HandleApproved, BrokerDecides, BrokerSettles, BuyReturns, BuyFails,
      ContractSold, TrackingLost, OnExecuted, LoseExecuted
<1>4. ASSUME NEW u \in Requests, RequestStep(u)
      PROVE  UNCHANGED pmVars
  BY <1>4 DEF RequestStep, CloseIntentCheck, CloseIntentSell, CloseIntentRefused
<1>5. QED
  BY <1>1, <1>2, <1>3, <1>4
  DEF Next, LoseClosed, ListPendingApprovals, ReconcileScan, ReconcilePublish, GatewayRestart

\* A close, from the bus or from a request, spawns one task if it books the row.
LEMMA PmClose ==
  ASSUME TypeOK, NEW i \in Intents, NEW j \in Intents, PmInv(i), NEW p \in Outcomes,
         RecordClose(j, p), SpawnPostmortem(j) \/ UNCHANGED pmTasks,
         UNCHANGED <<postmortem, pmDraft>>
  PROVE  PmInv(i)'
<1>1. CASE CloseMatches(j) /\ i = j
  <2>1. pnl[i] = "null" /\ pnl'[i] = p /\ p # "null"
    BY <1>1 DEF RecordClose, CloseMatches, TypeOK, Outcomes
  <2>2. pmTasks[i] = 0 /\ pmDraft[i] = {} /\ postmortem[i] = "null"
    BY <2>1 DEF PmInv, Count, TypeOK
  <2>3. pmTasks'[i] \in {0, 1}
    BY <2>2 DEF SpawnPostmortem, TypeOK
  <2>4. QED
    BY <2>1, <2>2, <2>3 DEF PmInv, Count
<1>2. CASE ~(CloseMatches(j) /\ i = j)
  <2>1. pnl'[i] = pnl[i] /\ pmTasks'[i] = pmTasks[i]
    BY <1>2 DEF RecordClose, SpawnPostmortem, TypeOK
  <2>2. QED
    BY <2>1 DEF PmInv, Count
<1>3. QED
  BY <1>1, <1>2

LEMMA PmStep ==
  ASSUME TypeOK, Next, NEW i \in Intents, PmInv(i)
  PROVE  PmInv(i)'
<1>1. ASSUME NEW j \in Intents, ReadForPostmortem(j)
      PROVE  PmInv(i)'
  BY <1>1 DEF ReadForPostmortem, PmInv, Count, TypeOK, Outcomes, rowVars
<1>2. ASSUME NEW j \in Intents, PostmortemFails(j)
      PROVE  PmInv(i)'
  BY <1>2 DEF PostmortemFails, PmInv, Count, TypeOK, rowVars
<1>3. ASSUME NEW j \in Intents, NEW p \in Outcomes, WritePostmortem(j, p)
      PROVE  PmInv(i)'
  BY <1>3 DEF WritePostmortem, PmInv, Count, TypeOK, Outcomes, rowVars
<1>4. ASSUME NEW m \in closedMsgs, OnClosed(m)
      PROVE  PmInv(i)'
  BY <1>4, PmClose DEF OnClosed, TypeOK, ClosedEvent
<1>5. ASSUME NEW u \in Requests, CloseIntentApply(u)
      PROVE  PmInv(i)'
  BY <1>5, PmClose DEF CloseIntentApply, TypeOK, Outcomes
<1>6. CASE ApiRestart
  BY <1>6 DEF ApiRestart, PmInv, Count, TypeOK, rowVars
<1>7. CASE UNCHANGED <<pnl, pmVars>>
  BY <1>7 DEF PmInv, Count, pmVars
<1>8. QED
  BY <1>1, <1>2, <1>3, <1>4, <1>5, <1>6, <1>7, PmFrame

\* However often a close is delivered and whoever restarts, one postmortem at most
\* is pending, running or written for it, and none contradicts the books.
THEOREM PostmortemsAreUnique == Spec => []OnePostmortemPerClose
<1> DEFINE Inv == \A i \in Intents : PmInv(i)
<1>1. Init => Inv
  BY DEF Init, PmInv, Count
<1>2. TypeOK /\ Inv /\ [Next]_vars => Inv'
  <2>1. ASSUME TypeOK, Inv, Next
        PROVE  Inv'
    BY <2>1, PmStep
  <2>2. ASSUME Inv, UNCHANGED vars
        PROVE  Inv'
    BY <2>2 DEF PmInv, Count, vars, rowVars, pmVars
  <2>3. QED
    BY <2>1, <2>2
<1>3. ASSUME TypeOK, Inv
      PROVE  OnePostmortemPerClose
  <2> SUFFICES ASSUME NEW i \in Intents
               PROVE  /\ pmTasks[i] + Cardinality(pmDraft[i])
                            + (IF postmortem[i] = "null" THEN 0 ELSE 1)
                            <= (IF pnl[i] = "null" THEN 0 ELSE 1)
                      /\ postmortem[i] \in {"null", pnl[i]}
    BY DEF OnePostmortemPerClose
  <2>1. PmInv(i) /\ pmTasks[i] \in Nat
    BY <1>3 DEF TypeOK
  <2>2. pmDraft[i] = {} \/ pmDraft[i] = {pnl[i]}
    BY <2>1 DEF PmInv
  <2>3. Cardinality(pmDraft[i]) = Count(pmDraft[i] # {})
    BY <2>2, FS_EmptySet, FS_Singleton DEF Count
  <2>4. QED
    BY <2>1, <2>3 DEF PmInv, Count
<1>4. QED
  BY TypeCorrect, <1>1, <1>2, <1>3, PTL DEF Spec

(***************************************************************************)
(* The refinement.  Where no transaction fails after its publish, an       *)
(* intent has one router run at most, and none before it is sanctioned:    *)
(* its position is that of the run, and every step is one of the ledger's  *)
(* or a stutter.                                                           *)
(***************************************************************************)
NoRollback == \A i \in Intents : rollbacks[i] <= MaxRollbacks

LedgerInv == BooksInv /\ OneOrderPerSanction /\ NoRollback

LEMMA NoRollbackStep ==
  ASSUME TypeOK, NoRollback, [Next]_vars
  PROVE  NoRollback'
<1> USE DEF TypeOK, NoRollback, txnVars
<1>1. ASSUME NEW i \in Intents, IntentStep(i)
      PROVE  NoRollback'
  <2>1. CASE RollBackDecision(i)
    BY <2>1, LifecycleConstants DEF RollBackDecision
  <2>2. QED
    BY <1>1, <2>1
    DEF IntentStep, ProposeTrade, InsertAutoApproved, ApproveIntent, CommitDecision,
        RejectIntent, DeadlinePasses, ReadForPostmortem, PostmortemFails, LoseApproved,
        WritePostmortem
<1>2. ASSUME NEW o \in Orders, OrderStep(o)
      PROVE  NoRollback'
  BY <1>2
  DEF OrderStep, HandleApproved, BrokerDecides, BrokerSettles, BuyReturns, BuyFails,
      ContractSold, TrackingLost, OnExecuted, LoseExecuted
<1>3. ASSUME NEW u \in Requests, RequestStep(u)
      PROVE  NoRollback'
  BY <1>3
  DEF RequestStep, CloseIntentCheck, CloseIntentSell, CloseIntentRefused, CloseIntentApply
<1>4. CASE ApiRestart
  BY <1>4, LifecycleConstants DEF ApiRestart
<1>5. CASE UNCHANGED vars
  BY <1>5 DEF vars
<1>6. QED
  BY <1>1, <1>2, <1>3, <1>4, <1>5
  DEF Next, OnClosed, LoseClosed, ListPendingApprovals, ReconcileScan, ReconcilePublish,
      GatewayRestart

LEMMA LedgerInvariant == Spec => []LedgerInv
<1>1. Init => NoRollback
  BY LifecycleConstants DEF Init, NoRollback
<1>2. LedgerInv /\ [Next]_vars => LedgerInv'
  BY BooksStep, SanctionStep, NoRollbackStep DEF LedgerInv, BooksInv
<1>3. QED
  BY BooksInit, SanctionInit, <1>1, <1>2, PTL DEF Spec, LedgerInv

\* An intent with a run is sanctioned, and the run is its only one.
LEMMA OneRunWhenSanctioned ==
  ASSUME MaxRollbacks = 0, LedgerInv, NEW i \in Intents, NEW o \in Runs(i)
  PROVE  Decided(i) /\ Runs(i) = {o}
<1>1. rollbacks[i] = 0 /\ approvedMsgs[i] \in Nat
  BY DEF LedgerInv, NoRollback, BooksInv, TypeOK
<1>2. Cardinality(Runs(i)) \in Nat /\ Cardinality(Runs(i)) # 0
  BY RunsFinite, FS_EmptySet
<1>3. approvedMsgs[i] + Cardinality(Runs(i)) <= 0 + (IF Decided(i) THEN 1 ELSE 0)
  BY <1>1 DEF LedgerInv, OneOrderPerSanction
<1>4. Decided(i) /\ Cardinality(Runs(i)) <= 1
  BY <1>1, <1>2, <1>3
<1>5. QED
  BY <1>4, AtMostOneRun

\* What the ledger calls the state of a contract at the broker.
PositionOf(s) == IF s \in Bought THEN s ELSE "none"

LEMMA PositionIsTheRuns ==
  ASSUME NEW i \in Intents, NEW o \in Orders, Runs(i) = {o}
  PROVE  AbsPosition[i] = PositionOf(order[o])
  BY DEF AbsPosition, PositionOf, Bought, Outcomes

LEMMA DecisionFrame ==
  ASSUME UNCHANGED <<status, txn>>
  PROVE  AbsDecision' = AbsDecision
  BY DEF AbsDecision, Decided, Publishing

LEMMA PositionFrame ==
  ASSUME UNCHANGED <<order, jobIntent>>
  PROVE  AbsPosition' = AbsPosition
  BY DEF AbsPosition, Runs

\* The broker's side of a run changes: so does the position of its intent.
LEMMA PositionMoves ==
  ASSUME MaxRollbacks = 0, LedgerInv, LedgerInv',
         NEW o \in Orders, NEW s, order' = [order EXCEPT ![o] = s],
         jobIntent' = jobIntent, jobIntent[o] \in Intents
  PROVE  /\ AbsPosition[jobIntent[o]] = PositionOf(order[o])
         /\ AbsPosition' = [AbsPosition EXCEPT ![jobIntent[o]] = PositionOf(s)]
         /\ AbsDecision[jobIntent[o]] = "sanctioned"
<1> DEFINE i == jobIntent[o]
<1>1. o \in Runs(i) /\ Runs(i) = {o} /\ Decided(i) /\ \A j \in Intents : Runs(j)' = Runs(j)
  BY OneRunWhenSanctioned DEF Runs
<1>2. AbsPosition[i] = PositionOf(order[o]) /\ AbsDecision[i] = "sanctioned"
  BY <1>1, PositionIsTheRuns DEF AbsDecision
<1>3. order'[o] = s /\ \A q \in Orders \ {o} : order'[q] = order[q]
  BY DEF LedgerInv, BooksInv, TypeOK
<1>4. AbsPosition'[i] = PositionOf(s)
  BY <1>1, <1>3 DEF AbsPosition, PositionOf, Bought, Outcomes
<1>5. ASSUME NEW j \in Intents, j # i
      PROVE  AbsPosition'[j] = AbsPosition[j]
  <2>1. \A q \in Runs(j) : order'[q] = order[q]
    BY <1>3, <1>5 DEF Runs
  <2>2. QED
    BY <1>1, <2>1 DEF AbsPosition
<1>6. AbsPosition' = [AbsPosition EXCEPT ![i] = PositionOf(s)]
  <2>1. AbsPosition = [j \in Intents |-> AbsPosition[j]]
        /\ AbsPosition' = [j \in Intents |-> AbsPosition'[j]]
    BY DEF AbsPosition
  <2>2. QED
    BY <1>4, <1>5, <2>1
<1>7. QED
  BY <1>2, <1>6

\* The steps of the router and the broker open and settle positions.
LEMMA BrokerRefines ==
  ASSUME MaxRollbacks = 0, LedgerInv, LedgerInv', NEW o \in Orders, OrderStep(o)
  PROVE  [Ledger!Next]_<<AbsDecision, AbsPosition, pnl>>
<1> USE DEF rowVars, txnVars, gatewayVars
<1>1. ASSUME NEW i \in Intents, HandleApproved(i, o)
      PROVE  UNCHANGED <<AbsDecision, AbsPosition, pnl>>
  <2>1. /\ order[o] = "none" /\ order' \in {order, [order EXCEPT ![o] = "requested"]}
        /\ jobIntent[o] = Nil /\ jobIntent' = [jobIntent EXCEPT ![o] = i]
    BY <1>1 DEF HandleApproved, LedgerInv, BooksInv, RouterInv
  <2>2. /\ Runs(i)' = Runs(i) \cup {o} /\ \A j \in Intents \ {i} : Runs(j)' = Runs(j)
        /\ \A q \in Orders \ {o} : order'[q] = order[q]
        /\ order'[o] \notin Bought
    BY <2>1, LifecycleConstants DEF Runs, LedgerInv, BooksInv, TypeOK, Bought, Outcomes
  <2>3. ASSUME NEW j \in Intents
        PROVE  AbsPosition'[j] = AbsPosition[j]
    <3>1. \A s \in Bought : (\E q \in Runs(j) : order[q] = s)' <=> (\E q \in Runs(j) : order[q] = s)
      BY <2>1, <2>2 DEF Runs, Bought, Outcomes
    <3>2. QED
      BY <3>1 DEF AbsPosition, Bought, Outcomes
  <2>4. AbsPosition' = AbsPosition
    BY <2>3 DEF AbsPosition
  <2>5. QED
    BY <1>1, <2>4, DecisionFrame DEF HandleApproved
<1>2. CASE BrokerDecides(o)
  <2>1. jobIntent[o] \in Intents
    BY <1>2 DEF BrokerDecides, LedgerInv, BooksInv, TypeOK, RouterInv
  <2>2. PICK s \in {"open", "refused"} : order' = [order EXCEPT ![o] = s]
    BY <1>2 DEF BrokerDecides
  <2>3. /\ AbsPosition[jobIntent[o]] = "none" /\ AbsDecision[jobIntent[o]] = "sanctioned"
        /\ AbsPosition' = [AbsPosition EXCEPT ![jobIntent[o]] = PositionOf(s)]
    BY <1>2, <2>1, <2>2, PositionMoves DEF BrokerDecides, PositionOf, Bought, Outcomes
  <2>4. AbsDecision' = AbsDecision /\ pnl' = pnl
    BY <1>2, DecisionFrame DEF BrokerDecides
  <2>5. CASE s = "open"
    BY <2>1, <2>3, <2>4, <2>5 DEF Ledger!Next, Ledger!Open, PositionOf, Bought
  <2>6. CASE s = "refused"
    <3>1. AbsPosition' = AbsPosition
      BY <2>1, <2>3, <2>6 DEF PositionOf, Bought, Outcomes, AbsPosition
    <3>2. QED
      BY <2>4, <3>1
  <2>7. QED
    BY <2>5, <2>6
<1>3. CASE BrokerSettles(o)
  <2>1. jobIntent[o] \in Intents
    BY <1>3 DEF BrokerSettles, LedgerInv, BooksInv, TypeOK, RouterInv
  <2>2. PICK s \in Outcomes : order' = [order EXCEPT ![o] = s]
    BY <1>3 DEF BrokerSettles
  <2>3. /\ AbsPosition[jobIntent[o]] = "open"
        /\ AbsPosition' = [AbsPosition EXCEPT ![jobIntent[o]] = s]
    BY <1>3, <2>1, <2>2, PositionMoves DEF BrokerSettles, PositionOf, Bought, Outcomes
  <2>4. AbsDecision' = AbsDecision /\ pnl' = pnl
    BY <1>3, DecisionFrame DEF BrokerSettles
  <2>5. QED
    BY <2>1, <2>3, <2>4 DEF Ledger!Next, Ledger!Settle, Ledger!Results, Outcomes
<1>4. CASE OnExecuted(o)
  <2>1. /\ jobIntent[o] \in Intents /\ txn' = txn
        /\ \/ status' = status
           \/ /\ status[jobIntent[o]] \in Sanctioned
              /\ status' = [status EXCEPT ![jobIntent[o]] = ExecutedStatus(o)]
    BY <1>4 DEF OnExecuted, AcceptsExecution, LedgerInv, BooksInv, TypeOK, RouterInv
  <2>2. \A j \in Intents :
           /\ Decided(j)' <=> Decided(j)
           /\ Decided(j) \/ status'[j] = status[j]
    BY <2>1 DEF Decided, Publishing, ExecutedStatus, Sanctioned, LedgerInv, BooksInv, TypeOK
  <2>3. AbsDecision' = AbsDecision
    BY <2>2 DEF AbsDecision
  <2>4. QED
    BY <1>4, <2>3, PositionFrame DEF OnExecuted
<1>5. CASE UNCHANGED <<status, txn, order, jobIntent, pnl>>
  BY <1>5, DecisionFrame, PositionFrame
<1>6. QED
  BY <1>1, <1>2, <1>3, <1>4, <1>5
  DEF OrderStep, BuyReturns, BuyFails, ContractSold, TrackingLost, LoseExecuted

\* A decision that stays decided, or undecided with a status as good, is the same.
LEMMA DecisionStays ==
  ASSUME \A i \in Intents :
           /\ Decided(i)' <=> Decided(i)
           /\ \/ Decided(i) \/ status'[i] = status[i]
              \/ {status[i], status'[i]} \subseteq {"none", "pending_approval"}
  PROVE  AbsDecision' = AbsDecision
<1>1. ASSUME NEW i \in Intents
      PROVE  AbsDecision'[i] = AbsDecision[i]
  BY DEF AbsDecision
<1>2. QED
  BY <1>1 DEF AbsDecision

\* Whoever books, books the position of the intent's one run.
LEMMA CloseRefines ==
  ASSUME MaxRollbacks = 0, LedgerInv, NEW i \in Intents, NEW p \in Outcomes,
         SettledFor(i, p), RecordClose(i, p), UNCHANGED <<status, txn, order, jobIntent>>
  PROVE  [Ledger!Next]_<<AbsDecision, AbsPosition, pnl>>
<1>1. PICK o \in Runs(i) : order[o] = p
  BY DEF SettledFor, Runs
<1>2. AbsPosition[i] = p
  BY <1>1, OneRunWhenSanctioned, PositionIsTheRuns DEF PositionOf, Bought, Runs
<1>3. AbsDecision' = AbsDecision /\ AbsPosition' = AbsPosition
  BY DecisionFrame, PositionFrame
<1>4. CASE CloseMatches(i)
  <2>1. pnl[i] = "null" /\ pnl' = [pnl EXCEPT ![i] = AbsPosition[i]]
    BY <1>2, <1>4 DEF RecordClose, CloseMatches
  <2>2. Ledger!Book(i)
    BY <1>2, <1>3, <2>1 DEF Ledger!Book, Ledger!Results, Outcomes
  <2>3. QED
    BY <2>2 DEF Ledger!Next
<1>5. CASE ~CloseMatches(i)
  BY <1>3, <1>5 DEF RecordClose, LedgerInv, BooksInv, TypeOK
<1>6. QED
  BY <1>4, <1>5

\* A decision is taken once: by the insert or the approval that publishes, or by a
\* refusal; the commit only makes visible what the ledger already shows.
LEMMA DecisionRefines ==
  ASSUME MaxRollbacks = 0, LedgerInv, NEW i \in Intents, IntentStep(i)
  PROVE  [Ledger!Next]_<<AbsDecision, AbsPosition, pnl>>
<1> USE DEF rowVars, txnVars, gatewayVars
<1>0. TypeOK /\ TxnInv
  BY DEF LedgerInv, BooksInv
<1>1. ASSUME AbsDecision[i] = "undecided", UNCHANGED <<order, jobIntent, pnl>>,
             NEW d \in {"sanctioned", "declined", "undecided"}, AbsDecision'[i] = d,
             \A j \in Intents \ {i} : AbsDecision'[j] = AbsDecision[j]
      PROVE  [Ledger!Next]_<<AbsDecision, AbsPosition, pnl>>
  <2>1. AbsPosition' = AbsPosition /\ pnl' = pnl
    BY <1>1, PositionFrame
  <2>2. AbsDecision' = [AbsDecision EXCEPT ![i] = d]
    BY <1>1 DEF AbsDecision
  <2>3. CASE d = "sanctioned"
    BY <1>1, <2>1, <2>2, <2>3 DEF Ledger!Next, Ledger!Sanction
  <2>4. CASE d = "declined"
    <3>1. AbsDecision' = [j \in Intents |-> IF j \in {i} THEN "declined" ELSE AbsDecision[j]]
      BY <2>2, <2>4 DEF AbsDecision
    <3>2. Ledger!Decline({i})
      BY <1>1, <2>1, <3>1 DEF Ledger!Decline
    <3>3. QED
      BY <3>2 DEF Ledger!Next
  <2>5. CASE d = "undecided"
    <3>1. AbsDecision' = AbsDecision
      BY <1>1, <2>2, <2>5 DEF AbsDecision
    <3>2. QED
      BY <2>1, <3>1
  <2>6. QED
    BY <2>3, <2>4, <2>5
<1>2. CASE ProposeTrade(i)
  BY <1>0, <1>1, <1>2
  DEF ProposeTrade, AbsDecision, Decided, Publishing, Sanctioned, TypeOK
<1>3. CASE InsertAutoApproved(i)
  BY <1>0, <1>1, <1>3
  DEF InsertAutoApproved, AbsDecision, Decided, Publishing, Sanctioned, TypeOK
<1>4. CASE ApproveIntent(i)
  BY <1>0, <1>1, <1>4
  DEF ApproveIntent, CanApprove, AbsDecision, Decided, Publishing, Sanctioned, TypeOK
<1>5. CASE RejectIntent(i)
  BY <1>0, <1>1, <1>5
  DEF RejectIntent, CanReject, AbsDecision, Decided, Publishing, Sanctioned, TypeOK
<1>6. CASE CommitDecision(i)
  <2>1. AbsDecision' = AbsDecision
    BY <1>0, <1>6, DecisionStays
    DEF CommitDecision, Decided, Publishing, Sanctioned, TypeOK
  <2>2. QED
    BY <1>6, <2>1, PositionFrame DEF CommitDecision
<1>7. CASE RollBackDecision(i)
  BY <1>0, <1>7 DEF RollBackDecision, LedgerInv, NoRollback, TypeOK
<1>8. CASE UNCHANGED <<status, txn, order, jobIntent, pnl>>
  BY <1>8, DecisionFrame, PositionFrame
<1>9. QED
  BY <1>2, <1>3, <1>4, <1>5, <1>6, <1>7, <1>8
  DEF IntentStep, DeadlinePasses, ReadForPostmortem, PostmortemFails, LoseApproved,
      WritePostmortem

\* A manual close settles and books like the broker does.
LEMMA RequestRefines ==
  ASSUME MaxRollbacks = 0, LedgerInv, LedgerInv', NEW u \in Requests, RequestStep(u)
  PROVE  [Ledger!Next]_<<AbsDecision, AbsPosition, pnl>>
<1> USE DEF rowVars, txnVars, gatewayVars
<1>1. CASE CloseIntentSell(u)
  <2> DEFINE o == contractId[reqIntent[u]]
  <2>1. PICK s \in Outcomes : order' = [order EXCEPT ![o] = s]
    BY <1>1 DEF CloseIntentSell
  <2>2. /\ o \in Orders /\ jobIntent[o] \in Intents /\ order[o] = "open"
        /\ UNCHANGED <<jobIntent, status, txn, pnl>>
    BY <1>1 DEF CloseIntentSell, LedgerInv, BooksInv, TypeOK, RowInv, Outcomes
  <2>3. /\ AbsPosition[jobIntent[o]] = "open"
        /\ AbsPosition' = [AbsPosition EXCEPT ![jobIntent[o]] = s]
    BY <2>1, <2>2, PositionMoves DEF PositionOf, Bought
  <2>4. AbsDecision' = AbsDecision
    BY <2>2, DecisionFrame
  <2>5. Ledger!Settle(jobIntent[o], s)
    BY <2>2, <2>3, <2>4 DEF Ledger!Settle
  <2>6. QED
    BY <2>2, <2>5 DEF Ledger!Next, Ledger!Results, Outcomes
<1>2. CASE CloseIntentApply(u)
  <2>1. /\ reqIntent[u] \in Intents /\ req[u] \in Outcomes
        /\ SettledFor(reqIntent[u], req[u])
    BY <1>2 DEF CloseIntentApply, SettledFor, LedgerInv, BooksInv, TypeOK, RowInv, Outcomes
  <2>2. QED
    BY <1>2, <2>1, CloseRefines DEF CloseIntentApply
<1>3. CASE UNCHANGED <<status, txn, order, jobIntent, pnl>>
  BY <1>3, DecisionFrame, PositionFrame
<1>4. QED
  BY <1>1, <1>2, <1>3 DEF RequestStep, CloseIntentCheck, CloseIntentRefused

\* One sweep of the pending list declines every late intent at once.
LEMMA SweepRefines ==
  ASSUME LedgerInv, ListPendingApprovals
  PROVE  [Ledger!Next]_<<AbsDecision, AbsPosition, pnl>>
<1> DEFINE late == {i \in Intents : status[i] = "pending_approval" /\ due[i]}
<1>1. /\ \A i \in late : txn[i] = "none"
      /\ status' = [i \in Intents |-> IF i \in late THEN "expired" ELSE status[i]]
      /\ UNCHANGED <<txn, order, jobIntent, pnl>>
  BY DEF ListPendingApprovals, txnVars, gatewayVars
<1>2. \A i \in late : AbsDecision[i] = "undecided" /\ AbsDecision'[i] = "declined"
  BY <1>1 DEF AbsDecision, Decided, Publishing, Sanctioned
<1>3. \A i \in Intents \ late : AbsDecision'[i] = AbsDecision[i]
  BY <1>1 DEF AbsDecision, Decided, Publishing
<1>4. AbsDecision' = [i \in Intents |-> IF i \in late THEN "declined" ELSE AbsDecision[i]]
  BY <1>2, <1>3 DEF AbsDecision
<1>5. Ledger!Decline(late)
  BY <1>1, <1>2, <1>4, PositionFrame DEF Ledger!Decline
<1>6. late \in SUBSET Intents
  OBVIOUS
<1>7. QED
  BY <1>5, <1>6 DEF Ledger!Next

LEMMA StepRefines ==
  ASSUME MaxRollbacks = 0, LedgerInv, LedgerInv', [Next]_vars
  PROVE  [Ledger!Next]_<<AbsDecision, AbsPosition, pnl>>
<1> USE DEF rowVars, txnVars, gatewayVars
<1>1. ASSUME NEW m \in closedMsgs, OnClosed(m)
      PROVE  [Ledger!Next]_<<AbsDecision, AbsPosition, pnl>>
  <2>1. m.intent \in Intents /\ m.pnl \in Outcomes /\ SettledFor(m.intent, m.pnl)
    BY DEF LedgerInv, BooksInv, TypeOK, ClosedEvent, EventInv
  <2>2. RecordClose(m.intent, m.pnl) /\ UNCHANGED <<status, txn, order, jobIntent>>
    BY <1>1 DEF OnClosed
  <2>3. QED
    BY <2>1, <2>2, CloseRefines
<1>2. CASE ApiRestart
  <2>1. \A i \in Intents : txn[i] \notin {"insert", "approve"}
    BY <1>2 DEF ApiRestart, LedgerInv, NoRollback, BooksInv, TypeOK
  <2>2. txn' = txn
    BY <1>2, <2>1 DEF ApiRestart, AfterRollback, LedgerInv, BooksInv, TypeOK
  <2>3. QED
    BY <1>2, <2>2, DecisionFrame, PositionFrame DEF ApiRestart
<1>3. CASE UNCHANGED <<status, txn, order, jobIntent, pnl>>
  BY <1>3, DecisionFrame, PositionFrame
<1>4. CASE UNCHANGED vars
  BY <1>3, <1>4 DEF vars
<1>5. QED
  BY <1>1, <1>2, <1>3, <1>4, DecisionRefines, BrokerRefines, RequestRefines, SweepRefines
  DEF Next, LoseClosed, ReconcileScan, ReconcilePublish, GatewayRestart

\* The whole pipeline keeps the promise of the ledger, whatever is lost and whoever
\* restarts: an intent is decided once, bought at most once and only if sanctioned,
\* settled once, and booked with what it settled at.  The hypothesis is the one the
\* code needs: a transaction that fails after its publish breaks the promise.
THEOREM ImplementsTheLedger ==
  ASSUME MaxRollbacks = 0
  PROVE  Spec => ImplementsLedger
<1>1. Init => Ledger!Init
  BY LifecycleConstants
  DEF Init, Ledger!Init, AbsDecision, AbsPosition, Decided, Publishing, Sanctioned, Runs
<1>2. LedgerInv /\ LedgerInv' /\ [Next]_vars => [Ledger!Next]_(Ledger!ledgerVars)
  BY StepRefines DEF Ledger!ledgerVars
<1>3. QED
  BY LedgerInvariant, <1>1, <1>2, PTL DEF Spec, ImplementsLedger, Ledger!Spec

(***************************************************************************)
(* BrokerClient.                                                           *)
(***************************************************************************)
Conns == 1 .. MaxConns
Stages == {"idle", "ready", "registered", "waiting", "ended"}

\* The requests that were given an id.
Past == {r \in Calls : stage[r] \in {"registered", "waiting", "ended"}}

(***************************************************************************)
(* The inductive invariant.  An answer reaches its request because an id   *)
(* names one request for as long as the process lives: whatever is under   *)
(* an id, in the maps, on the wire or about to be written, is the same     *)
(* request's or gone.                                                      *)
(***************************************************************************)
BrokerShape ==
    /\ link \in {"down", "authorizing", "serving", "broken"}
    /\ served \in 0 .. MaxConns /\ authed \in BOOLEAN
    /\ reqIDSeq \in Nat /\ reqIDSeq = served + Cardinality(Past)
    /\ pending \in [ReqIDs -> Parties \cup {Nobody}]
    /\ subs \in [ReqIDs -> Tracks \cup {Nobody}]
    /\ wire \subseteq Answers
    /\ handed \in [Conns -> {Nobody} \cup Hand]
    /\ closedFor \subseteq Calls /\ early \subseteq Tracks
    /\ stage \in [Calls -> Stages]
    /\ reqID \in [Calls -> 0 .. MaxReqID]
    /\ sentOn \in [Tracks -> 0 .. MaxConns]
    /\ answer \in [Calls -> Parties \cup {Nobody}]
    /\ settled \subseteq Tracks \X Parties
    /\ repeated \in BOOLEAN /\ clientDown \in BOOLEAN
    /\ (link = "serving") => authed

UnusedIDs == \A n \in ReqIDs : n > reqIDSeq => pending[n] = Nobody /\ subs[n] = Nobody

\* Under the id of an answer is the request it answers, or nothing more.
WireMatches ==
    \A m \in wire : /\ m.id =< reqIDSeq
                    /\ pending[m.id] \in {m.to, Nobody} /\ subs[m.id] \in {m.to, Nobody}

\* And so it is for a request that is still to be written.
UnwrittenMatches ==
    \A r \in Calls : stage[r] = "registered" =>
        /\ reqID[r] \in ReqIDs /\ reqID[r] =< reqIDSeq
        /\ pending[reqID[r]] \in {r, Nobody} /\ subs[reqID[r]] \in {r, Nobody}

\* A request waits under one id, on a channel neither closed nor about to be used.
PendingOnce ==
    /\ \A n \in ReqIDs, r \in Calls : pending[n] = r =>
          /\ r \in Past /\ r \notin closedFor
          /\ \A k \in Conns : handed[k] # Nobody => handed[k].to # r
    /\ \A n, k \in ReqIDs : pending[n] = pending[k] /\ pending[n] \in Calls => n = k

\* A contract is tracked under one id, until it is settled.
TrackedOnce ==
    /\ \A n \in ReqIDs, t \in Tracks : subs[n] = t =>
          /\ t \in Past /\ <<t, t>> \notin settled
          /\ stage[t] = "registered" => n = reqID[t]
    /\ \A t \in Tracks : stage[t] # "waiting"
    /\ \A n, k \in ReqIDs : subs[n] = subs[k] /\ subs[n] \in Tracks => n = k

HandedRight ==
    \A k \in Conns : handed[k] # Nobody =>
        /\ handed[k].to = handed[k].from
        /\ handed[k].to \in Past \cup {Auth} /\ handed[k].to \notin closedFor

EndsRight ==
    /\ \A r \in Calls : answer[r] \in {r, Nobody}
    /\ \A p \in settled : p[1] = p[2] /\ p[1] \in Past
    /\ closedFor \subseteq Past
    /\ ~repeated /\ ~clientDown

\* Unless it was written early, a request that tracks is heard on this connection.
Heard ==
    \A n \in ReqIDs, t \in Tracks :
        subs[n] = t /\ stage[t] = "ended" /\ t \notin early =>
            sentOn[t] = served /\ link \in {"serving", "broken"}

BrokerInv ==
    /\ BrokerShape /\ UnusedIDs /\ WireMatches /\ UnwrittenMatches
    /\ PendingOnce /\ TrackedOnce /\ HandedRight /\ EndsRight /\ Heard

(***************************************************************************)
(* Ids suffice, since each connection and each request takes one.          *)
(***************************************************************************)
LEMMA Names ==
    /\ Nobody \notin Parties /\ Auth \notin Calls /\ Tracks \subseteq Calls
    /\ Calls \subseteq Parties /\ Auth \in Parties /\ Parties = Calls \cup {Auth}
    /\ MaxConns \in Nat \ {0} /\ Cardinality(Calls) \in Nat
    /\ MaxReqID \in Nat /\ ReqIDs = 1 .. MaxReqID
  BY BrokerConstants, FS_CardinalityType DEF Parties, Calls, MaxReqID, ReqIDs

LEMMA PastIsFinite ==
    /\ Past \subseteq Calls /\ IsFiniteSet(Past) /\ Cardinality(Past) \in Nat
    /\ Cardinality(Past) =< Cardinality(Calls)
<1>1. Past \subseteq Calls
  BY DEF Past
<1>2. QED
  BY <1>1, BrokerConstants, FS_Subset, FS_CardinalityType

LEMMA OneMorePast ==
  ASSUME NEW r \in Calls, r \notin Past
  PROVE  /\ Cardinality(Past \cup {r}) = Cardinality(Past) + 1
         /\ Cardinality(Past) + 1 =< Cardinality(Calls)
<1>1. IsFiniteSet(Past \cup {r}) /\ Past \cup {r} \subseteq Calls
  BY PastIsFinite, FS_AddElement
<1>2. Cardinality(Past \cup {r}) = Cardinality(Past) + 1
  BY PastIsFinite, FS_AddElement
<1>3. Cardinality(Past \cup {r}) =< Cardinality(Calls)
  BY <1>1, BrokerConstants, FS_Subset
<1>4. QED
  BY <1>2, <1>3

LEMMA InitInv == BrokerInit => BrokerInv
<1> SUFFICES ASSUME BrokerInit
             PROVE  BrokerInv
  OBVIOUS
<1>1. /\ authed \in BOOLEAN /\ repeated \in BOOLEAN /\ clientDown \in BOOLEAN
      /\ ~repeated /\ ~clientDown
  BY Zenon DEF BrokerInit
<1>2. Past = {}
  BY DEF BrokerInit, Past
<1>3. Cardinality(Past) = 0
  BY <1>2, FS_EmptySet
<1>4. BrokerShape
  BY <1>1, <1>3, Names DEF BrokerInit, BrokerShape, Stages, Conns
<1>5. QED
  BY <1>1, <1>4, Names
  DEF BrokerInit, BrokerInv, UnusedIDs, WireMatches, UnwrittenMatches, PendingOnce,
      TrackedOnce, HandedRight, EndsRight, Heard, Past, Conns

(***************************************************************************)
(* The loop.                                                               *)
(***************************************************************************)
LEMMA DialStep == BrokerInv /\ DialBroker => BrokerInv'
<1> SUFFICES ASSUME BrokerInv, DialBroker
             PROVE  BrokerInv'
  OBVIOUS
<1> USE DEF BrokerInv
<1> DEFINE id == reqIDSeq + 1
<1>1. id \in ReqIDs /\ id \in Nat
  BY Names, PastIsFinite DEF DialBroker, BrokerShape, MaxReqID
<1>2. /\ pending' = [pending EXCEPT ![id] = Auth] /\ reqIDSeq' = id /\ subs' = subs
      /\ wire' = {[id |-> id, to |-> Auth, sold |-> FALSE]}
      /\ UNCHANGED <<handed, closedFor, stage, reqID, sentOn, early, answer, settled,
                     repeated, clientDown>>
  BY DEF DialBroker, FirstID, callVars, outVars
<1>3. Past' = Past
  BY <1>2 DEF Past
<1>4. pending'[id] = Auth /\ \A n \in ReqIDs : n # id => pending'[n] = pending[n]
  BY <1>1, <1>2 DEF BrokerShape
<1>5. pending[id] = Nobody /\ subs[id] = Nobody
  BY <1>1 DEF UnusedIDs, BrokerShape
<1>6. BrokerShape'
  <2>1. wire' \subseteq Answers
    BY <1>1, <1>2, Names DEF Answers
  <2>2. pending' \in [ReqIDs -> Parties \cup {Nobody}]
    BY <1>2, Names DEF BrokerShape
  <2>3. reqIDSeq' = served' + Cardinality(Past')
    BY <1>2, <1>3, PastIsFinite, Names DEF DialBroker, BrokerShape
  <2>4. served' \in 0 .. MaxConns /\ link' = "authorizing" /\ authed' = FALSE
    BY Names DEF DialBroker, BrokerShape
  <2>5. QED
    BY <1>1, <1>2, <2>1, <2>2, <2>3, <2>4 DEF BrokerShape
<1>7. UnusedIDs'
  BY <1>1, <1>2, <1>4, Names DEF UnusedIDs, BrokerShape
<1>8. WireMatches'
  BY <1>1, <1>2, <1>4, <1>5 DEF WireMatches, BrokerShape
<1>9. UnwrittenMatches'
  BY <1>1, <1>2, <1>4, Names DEF UnwrittenMatches, BrokerShape
<1>10. PendingOnce'
  BY <1>2, <1>3, <1>4, Names DEF PendingOnce
<1>11. TrackedOnce' /\ HandedRight' /\ EndsRight'
  BY <1>2, <1>3 DEF TrackedOnce, HandedRight, EndsRight
<1>12. Heard'
  BY <1>2 DEF Heard, DialBroker
<1>13. QED
  BY <1>6, <1>7, <1>8, <1>9, <1>10, <1>11, <1>12

\* Leaving a connection takes nothing out of the maps.
LEMMA LosesWire ==
  ASSUME BrokerInv,
         \/ link = "authorizing" /\ link' = "down"
         \/ link = "serving" /\ link' = "broken",
         wire' = {},
         UNCHANGED <<served, authed, mapVars, handed, closedFor, callVars, outVars>>
  PROVE  BrokerInv'
<1> USE DEF BrokerInv, mapVars, callVars, outVars
<1>1. Past' = Past
  BY DEF Past
<1>2. BrokerShape'
  BY <1>1 DEF BrokerShape
<1>3. UnusedIDs' /\ WireMatches' /\ UnwrittenMatches'
  BY DEF UnusedIDs, WireMatches, UnwrittenMatches
<1>4. PendingOnce' /\ TrackedOnce' /\ HandedRight' /\ EndsRight'
  BY <1>1 DEF PendingOnce, TrackedOnce, HandedRight, EndsRight
<1>5. Heard'
  BY DEF Heard
<1>6. QED
  BY <1>2, <1>3, <1>4, <1>5

LEMMA FailPendingStep == BrokerInv /\ FailPending => BrokerInv'
<1> SUFFICES ASSUME BrokerInv, FailPending
             PROVE  BrokerInv'
  OBVIOUS
<1> USE DEF BrokerInv
<1> DEFINE waiters == {r \in Calls : \E n \in ReqIDs : pending[n] = r}
<1>1. /\ link' = "down" /\ closedFor' = closedFor \cup waiters
      /\ pending' = [n \in ReqIDs |-> Nobody] /\ subs' = [n \in ReqIDs |-> Nobody]
      /\ stage' = [r \in Calls |->
                     IF r \in waiters /\ stage[r] = "waiting" THEN "ended" ELSE stage[r]]
      /\ UNCHANGED <<served, authed, reqIDSeq, wire, handed, reqID, sentOn, early, answer,
                     settled, repeated, clientDown>>
  BY DEF FailPending, SubsAfterFall, outVars
<1>2. Past' = Past
  BY <1>1 DEF Past
<1>3. waiters \subseteq Past
  BY DEF PendingOnce
<1>4. BrokerShape'
  <2>1. stage' \in [Calls -> Stages]
    BY <1>1 DEF BrokerShape, Stages
  <2>2. closedFor' \subseteq Calls
    BY <1>1 DEF BrokerShape
  <2>3. QED
    BY <1>1, <1>2, <2>1, <2>2 DEF BrokerShape
<1>5. \A n \in ReqIDs : pending'[n] = Nobody /\ subs'[n] = Nobody
  BY <1>1
<1>6. UnusedIDs' /\ TrackedOnce' /\ Heard'
  <2>1. \A t \in Tracks : stage'[t] # "waiting"
    BY <1>1, Names DEF TrackedOnce
  <2>2. QED
    BY <1>5, <2>1, Names DEF UnusedIDs, TrackedOnce, Heard
<1>7. WireMatches'
  BY <1>1, <1>5 DEF WireMatches, BrokerShape, Answers
<1>8. UnwrittenMatches'
  BY <1>1, <1>5 DEF UnwrittenMatches
<1>9. PendingOnce'
  BY <1>5, Names DEF PendingOnce
<1>10. HandedRight'
  BY <1>1, <1>2, Names DEF HandedRight, PendingOnce
<1>11. EndsRight'
  BY <1>1, <1>2, <1>3 DEF EndsRight
<1>12. QED
  BY <1>4, <1>6, <1>7, <1>8, <1>9, <1>10, <1>11

(***************************************************************************)
(* The reader.                                                             *)
(***************************************************************************)
LEMMA DispatchStep ==
  ASSUME BrokerInv, NEW m \in wire, Dispatch(m)
  PROVE  BrokerInv'
<1> USE DEF BrokerInv
<1> DEFINE r == pending[m.id]
           h == [to |-> r, from |-> m.to]
<1>1. m.id \in ReqIDs /\ m.to \in Parties /\ r = m.to /\ r # Nobody
  BY Names DEF Dispatch, WireMatches, BrokerShape, Answers
<1>2. /\ pending' = [pending EXCEPT ![m.id] = Nobody] /\ wire' = wire \ {m}
      /\ handed' = [handed EXCEPT ![served] = h]
      /\ UNCHANGED <<link, served, authed, reqIDSeq, subs, closedFor, stage, reqID, sentOn,
                     early, answer, settled, repeated, clientDown>>
  BY DEF Dispatch, PendingAfterMatch, Cleared, linkVars, callVars, outVars
<1>3. Past' = Past
  BY <1>2 DEF Past
<1>4. pending'[m.id] = Nobody /\ \A n \in ReqIDs : n # m.id => pending'[n] = pending[n]
  BY <1>1, <1>2 DEF BrokerShape
<1>5. \A k \in Conns : handed'[k] \in {handed[k], h}
  BY <1>2 DEF BrokerShape
<1>6. h \in Hand /\ h.to = r /\ h.from = r
  BY <1>1 DEF Hand
<1>7. BrokerShape'
  <2>1. handed' \in [Conns -> {Nobody} \cup Hand]
    BY <1>2, <1>6 DEF BrokerShape
  <2>2. pending' \in [ReqIDs -> Parties \cup {Nobody}]
    BY <1>2 DEF BrokerShape
  <2>3. QED
    BY <1>2, <1>3, <2>1, <2>2 DEF BrokerShape
<1>8. UnusedIDs' /\ UnwrittenMatches'
  BY <1>2, <1>4 DEF UnusedIDs, UnwrittenMatches
<1>9. WireMatches'
  BY <1>2, <1>4 DEF WireMatches, BrokerShape, Answers
<1>10. r \in Calls => r \in Past /\ r \notin closedFor
  BY <1>1 DEF PendingOnce
<1>11. Auth \notin closedFor
  BY Names DEF BrokerShape
<1>12. PendingOnce'
  <2>1. ASSUME NEW n \in ReqIDs, NEW c \in Calls, pending'[n] = c
        PROVE  c # r /\ n # m.id /\ pending[n] = c
    BY <1>1, <1>4, <2>1, Names DEF PendingOnce
  <2>2. QED
    BY <1>2, <1>3, <1>4, <1>5, <1>6, <2>1, Names DEF PendingOnce
<1>13. HandedRight'
  BY <1>1, <1>2, <1>3, <1>5, <1>6, <1>10, <1>11, Names DEF HandedRight
<1>14. TrackedOnce' /\ EndsRight' /\ Heard'
  BY <1>2, <1>3 DEF TrackedOnce, EndsRight, Heard
<1>15. QED
  BY <1>7, <1>8, <1>9, <1>12, <1>13, <1>14

LEMMA DispatchToHandlerStep ==
  ASSUME BrokerInv, NEW m \in wire, DispatchToHandler(m)
  PROVE  BrokerInv'
<1> USE DEF BrokerInv
<1> DEFINE t == subs[m.id]
<1>1. m.id \in ReqIDs /\ m.to \in Parties /\ t = m.to /\ t \in Tracks
  BY Names DEF DispatchToHandler, WireMatches, BrokerShape, Answers
<1>2. t \in Past /\ <<t, t>> \notin settled
  BY <1>1 DEF TrackedOnce
<1>3. /\ wire' \subseteq wire
      /\ UNCHANGED <<link, served, authed, reqIDSeq, pending, handed, closedFor, stage,
                     reqID, sentOn, early, answer, clientDown>>
  BY DEF DispatchToHandler, linkVars, callVars
<1>4. Past' = Past
  BY <1>3 DEF Past
<1>5. CASE m.sold
  <2>1. /\ settled' = settled \cup {<<t, t>>} /\ ~repeated'
        /\ subs' = [subs EXCEPT ![m.id] = Nobody]
    BY <1>1, <1>2, <1>5
    DEF DispatchToHandler, SubsAfterSold, Cleared, EndsRight
  <2>2. subs'[m.id] = Nobody /\ \A n \in ReqIDs : n # m.id => subs'[n] = subs[n]
    BY <1>1, <2>1 DEF BrokerShape
  <2>3. /\ subs' \in [ReqIDs -> Tracks \cup {Nobody}] /\ settled' \subseteq Tracks \X Parties
        /\ repeated' \in BOOLEAN
    <3>1. repeated' = (repeated \/ <<t, m.to>> \in settled)
      BY <1>5 DEF DispatchToHandler
    <3>2. QED
      BY <1>1, <2>1, <3>1 DEF BrokerShape
  <2>4. BrokerShape'
    BY <1>3, <1>4, <2>1, <2>3 DEF BrokerShape
  <2>5. UnusedIDs' /\ UnwrittenMatches'
    BY <1>3, <2>2 DEF UnusedIDs, UnwrittenMatches
  <2>6. WireMatches'
    BY <1>3, <2>2 DEF WireMatches, BrokerShape, Answers
  <2>7. TrackedOnce'
    <3>1. ASSUME NEW n \in ReqIDs, NEW c \in Tracks, subs'[n] = c
          PROVE  c # t /\ n # m.id /\ subs[n] = c
      BY <1>1, <2>2, <3>1, Names DEF TrackedOnce
    <3>2. \A c \in Tracks : c # t => (<<c, c>> \in settled' <=> <<c, c>> \in settled)
      BY <2>1
    <3>3. ASSUME NEW n \in ReqIDs, NEW c \in Tracks, subs'[n] = c
          PROVE  /\ c \in Past' /\ <<c, c>> \notin settled'
                 /\ stage'[c] = "registered" => n = reqID'[c]
      BY <1>3, <1>4, <3>1, <3>2, <3>3 DEF TrackedOnce
    <3>4. \A n, k \in ReqIDs : subs'[n] = subs'[k] /\ subs'[n] \in Tracks => n = k
      BY <3>1 DEF TrackedOnce
    <3>5. \A c \in Tracks : stage'[c] # "waiting"
      BY <1>3 DEF TrackedOnce
    <3>6. QED
      BY <3>3, <3>4, <3>5 DEF TrackedOnce
  <2>8. PendingOnce' /\ HandedRight'
    BY <1>3, <1>4 DEF PendingOnce, HandedRight
  <2>9. EndsRight'
    BY <1>2, <1>3, <1>4, <2>1 DEF EndsRight
  <2>10. Heard'
    BY <1>3, <2>2, Names DEF Heard
  <2>11. QED
    BY <2>4, <2>5, <2>6, <2>7, <2>8, <2>9, <2>10
<1>6. CASE ~m.sold
  <2>1. UNCHANGED <<settled, repeated, subs>>
    BY <1>6 DEF DispatchToHandler
  <2>2. BrokerShape' /\ UnusedIDs' /\ UnwrittenMatches' /\ WireMatches'
    BY <1>3, <1>4, <2>1 DEF BrokerShape, UnusedIDs, UnwrittenMatches, WireMatches
  <2>3. PendingOnce' /\ TrackedOnce' /\ HandedRight' /\ EndsRight' /\ Heard'
    BY <1>3, <1>4, <2>1 DEF PendingOnce, TrackedOnce, HandedRight, EndsRight, Heard
  <2>4. QED
    BY <2>2, <2>3
<1>7. QED
  BY <1>5, <1>6

LEMMA DispatchToNobodyStep ==
  ASSUME BrokerInv, NEW m \in wire, DispatchToNobody(m)
  PROVE  BrokerInv'
<1> USE DEF BrokerInv, DispatchToNobody, linkVars, mapVars, callVars, outVars
<1>1. Past' = Past
  BY DEF Past
<1>2. BrokerShape' /\ UnusedIDs' /\ WireMatches' /\ UnwrittenMatches'
  BY <1>1 DEF BrokerShape, UnusedIDs, WireMatches, UnwrittenMatches
<1>3. PendingOnce' /\ TrackedOnce' /\ HandedRight' /\ EndsRight' /\ Heard'
  BY <1>1 DEF PendingOnce, TrackedOnce, HandedRight, EndsRight, Heard
<1>4. QED
  BY <1>2, <1>3

LEMMA HandOverStep ==
  ASSUME BrokerInv, NEW k \in Conns, HandOver(k)
  PROVE  BrokerInv'
<1> USE DEF BrokerInv
<1> DEFINE h == handed[k]
<1>1. h \in Hand /\ h.to = h.from /\ h.to \in Past \cup {Auth} /\ h.to \notin closedFor
  BY DEF HandOver, HandedRight, BrokerShape
<1>2. /\ handed' = [handed EXCEPT ![k] = Nobody] /\ ~clientDown'
      /\ UNCHANGED <<served, reqIDSeq, pending, subs, closedFor, reqID, sentOn, early,
                     settled, repeated>>
  BY <1>1 DEF HandOver, mapVars, EndsRight
<1>3. /\ wire' \subseteq wire
      /\ link' # link => link = "authorizing"
      /\ link' \in {link, "serving", "down"} /\ authed' \in BOOLEAN
      /\ link' = "serving" => authed'
  BY DEF HandOver, BrokerShape
<1>4. /\ stage' \in [Calls -> Stages]
      /\ \A r \in Calls : stage'[r] # stage[r] => stage[r] = "waiting" /\ stage'[r] = "ended"
                                                  /\ r = h.to
      /\ answer' \in [Calls -> Parties \cup {Nobody}]
      /\ \A r \in Calls : answer'[r] \in {answer[r], r}
  <2>1. CASE h.to = Auth
    BY <2>1 DEF HandOver, BrokerShape
  <2>2. CASE h.to # Auth
    <3>1. h.to \in Calls /\ h.to \in Parties
      BY <1>1, <2>2 DEF Past, Hand
    <3>2. CASE stage[h.to] = "waiting"
      <4>1. /\ stage' = [stage EXCEPT ![h.to] = "ended"]
            /\ answer' = [answer EXCEPT ![h.to] = h.to]
        BY <1>1, <2>2, <3>2 DEF HandOver, At
      <4>2. QED
        BY <3>1, <3>2, <4>1 DEF BrokerShape, Stages
    <3>3. CASE stage[h.to] # "waiting"
      BY <2>2, <3>3 DEF HandOver, BrokerShape
    <3>4. QED
      BY <3>2, <3>3
  <2>3. QED
    BY <2>1, <2>2
<1>5. Past' = Past
  BY <1>4 DEF Past
<1>6. \A j \in Conns : handed'[j] \in {handed[j], Nobody}
  BY <1>2 DEF BrokerShape
<1>7. BrokerShape'
  <2>1. handed' \in [Conns -> {Nobody} \cup Hand]
    BY <1>2 DEF BrokerShape
  <2>2. link' \in {"down", "authorizing", "serving", "broken"} /\ wire' \subseteq Answers
    BY <1>3 DEF BrokerShape
  <2>3. clientDown' \in BOOLEAN
    BY <1>1 DEF HandOver, BrokerShape
  <2>4. QED
    BY <1>2, <1>3, <1>4, <1>5, <2>1, <2>2, <2>3 DEF BrokerShape
<1>8. UnusedIDs' /\ WireMatches'
  BY <1>2, <1>3 DEF UnusedIDs, WireMatches
<1>9. UnwrittenMatches'
  BY <1>2, <1>4 DEF UnwrittenMatches
<1>10. PendingOnce' /\ HandedRight'
  BY <1>2, <1>5, <1>6 DEF PendingOnce, HandedRight
<1>11. TrackedOnce'
  BY <1>2, <1>4, <1>5, Names DEF TrackedOnce
<1>12. EndsRight'
  BY <1>2, <1>4, <1>5 DEF EndsRight
<1>13. Heard'
  <2>1. \A t \in Tracks : stage'[t] = stage[t]
    BY <1>4, Names DEF TrackedOnce
  <2>2. QED
    BY <1>2, <1>3, <2>1 DEF Heard
<1>14. QED
  BY <1>7, <1>8, <1>9, <1>10, <1>11, <1>12, <1>13

(***************************************************************************)
(* Buy, Sell, TrackContract.                                               *)
(***************************************************************************)
\* A request that is not past "ready" is in no map, and no channel is its.
LEMMA AskReadyStep ==
  ASSUME BrokerInv, NEW r \in Calls, AskReady(r)
  PROVE  BrokerInv'
<1> USE DEF BrokerInv
<1>1. /\ stage[r] = "idle" /\ stage' = [stage EXCEPT ![r] = "ready"]
      /\ UNCHANGED <<link, served, authed, reqIDSeq, pending, subs, wire, handed, closedFor,
                     reqID, sentOn, early, answer, settled, repeated, clientDown>>
  BY DEF AskReady, At, linkVars, mapVars, outVars
<1>2. stage' \in [Calls -> Stages] /\ \A c \in Calls : c # r => stage'[c] = stage[c]
  BY <1>1 DEF BrokerShape, Stages
<1>3. stage'[r] = "ready"
  BY <1>1 DEF BrokerShape
<1>4. Past' = Past
  BY <1>1, <1>2, <1>3 DEF Past
<1>5. BrokerShape' /\ UnusedIDs' /\ WireMatches'
  BY <1>1, <1>2, <1>4 DEF BrokerShape, UnusedIDs, WireMatches
<1>6. UnwrittenMatches'
  BY <1>1, <1>2, <1>3 DEF UnwrittenMatches
<1>7. PendingOnce' /\ HandedRight' /\ EndsRight'
  BY <1>1, <1>4 DEF PendingOnce, HandedRight, EndsRight
<1>8. TrackedOnce' /\ Heard'
  BY <1>1, <1>2, <1>3, <1>4, Names DEF TrackedOnce, Heard
<1>9. QED
  BY <1>5, <1>6, <1>7, <1>8

LEMMA RegisterStep ==
  ASSUME BrokerInv, NEW r \in Calls, Register(r)
  PROVE  BrokerInv'
<1> USE DEF BrokerInv
<1> DEFINE id == reqIDSeq + 1
<1>1. r \notin Past
  BY DEF Register, Past
<1>2. /\ stage' = [stage EXCEPT ![r] = "registered"] /\ reqIDSeq' = id
      /\ reqID' = [reqID EXCEPT ![r] = id]
      /\ UNCHANGED <<link, served, authed, wire, handed, closedFor, sentOn, early, answer,
                     settled, repeated, clientDown>>
  BY DEF Register, At, linkVars, outVars
<1>3. id \in ReqIDs /\ id \in Nat
  <2>1. Cardinality(Past) + 1 =< Cardinality(Calls)
    BY <1>1, OneMorePast
  <2>2. QED
    BY <2>1, PastIsFinite, Names DEF BrokerShape, MaxReqID
<1>4. /\ stage' \in [Calls -> Stages] /\ stage'[r] = "registered"
      /\ \A c \in Calls : c # r => stage'[c] = stage[c]
  BY <1>2 DEF BrokerShape, Stages
<1>5. /\ reqID' \in [Calls -> 0 .. MaxReqID] /\ reqID'[r] = id
      /\ \A c \in Calls : c # r => reqID'[c] = reqID[c]
  BY <1>2, <1>3, Names DEF BrokerShape
<1>6. Past' = Past \cup {r}
  BY <1>4 DEF Past
<1>7. reqIDSeq' = served' + Cardinality(Past')
  <2>1. Cardinality(Past') = Cardinality(Past) + 1
    BY <1>1, <1>6, OneMorePast
  <2>2. QED
    BY <1>2, <2>1, PastIsFinite, Names DEF BrokerShape
<1>8. pending[id] = Nobody /\ subs[id] = Nobody
  BY <1>3 DEF UnusedIDs, BrokerShape
<1>9. /\ \A n \in ReqIDs : n # id => pending'[n] = pending[n] /\ subs'[n] = subs[n]
      /\ r \in Tracks => subs'[id] = r /\ pending'[id] = Nobody
      /\ r \notin Tracks => pending'[id] = r /\ subs'[id] = Nobody
  BY <1>3, <1>8 DEF Register, BrokerShape
<1>10. /\ pending' \in [ReqIDs -> Parties \cup {Nobody}]
       /\ subs' \in [ReqIDs -> Tracks \cup {Nobody}]
  BY Names DEF Register, BrokerShape
<1>11. BrokerShape'
  BY <1>2, <1>3, <1>4, <1>5, <1>7, <1>10 DEF BrokerShape
<1>12. UnusedIDs'
  BY <1>2, <1>3, <1>9, Names DEF UnusedIDs, BrokerShape
<1>13. WireMatches'
  <2>1. ASSUME NEW m \in wire
        PROVE  m.id \in ReqIDs /\ m.id # id /\ m.id =< id
    BY <1>3, Names DEF WireMatches, BrokerShape, Answers
  <2>2. QED
    BY <1>2, <1>9, <2>1 DEF WireMatches
<1>14. UnwrittenMatches'
  <2>1. ASSUME NEW c \in Calls, c # r, stage[c] = "registered"
        PROVE  reqID[c] \in ReqIDs /\ reqID[c] # id /\ reqID[c] =< id
    BY <1>3, <2>1, Names DEF UnwrittenMatches, BrokerShape
  <2>2. QED
    BY <1>2, <1>3, <1>4, <1>5, <1>9, <2>1 DEF UnwrittenMatches
<1>15. /\ \A n \in ReqIDs : pending[n] # r /\ subs[n] # r
       /\ r \notin closedFor
       /\ \A k \in Conns : handed[k] # Nobody => handed[k].to # r
       /\ \A p \in settled : p[1] # r
  <2>1. r # Auth /\ r # Nobody
    BY Names
  <2>2. \A n \in ReqIDs : subs[n] # r
    BY <1>1, <2>1, ZenonT(40) DEF TrackedOnce, BrokerShape
  <2>3. QED
    BY <1>1, <2>1, <2>2 DEF PendingOnce, HandedRight, EndsRight
<1>16. PendingOnce'
  <2>1. ASSUME NEW n \in ReqIDs, NEW c \in Calls, pending'[n] = c
        PROVE  /\ c \in Past' /\ c \notin closedFor'
               /\ \A k \in Conns : handed'[k] # Nobody => handed'[k].to # c
    <3>1. CASE n = id
      BY <1>2, <1>6, <1>9, <1>15, <2>1, <3>1, Names
    <3>2. CASE n # id
      BY <1>2, <1>6, <1>9, <2>1, <3>2 DEF PendingOnce
    <3>3. QED
      BY <3>1, <3>2
  <2>2. ASSUME NEW n \in ReqIDs, NEW k \in ReqIDs, pending'[n] = pending'[k],
               pending'[n] \in Calls
        PROVE  n = k
    BY <1>9, <1>15, <2>2, Names DEF PendingOnce
  <2>3. QED
    BY <2>1, <2>2 DEF PendingOnce
<1>17. TrackedOnce'
  <2>1. ASSUME NEW n \in ReqIDs, NEW t \in Tracks, subs'[n] = t
        PROVE  /\ t \in Past' /\ <<t, t>> \notin settled'
               /\ stage'[t] = "registered" => n = reqID'[t]
    <3>1. CASE n = id
      <4>1. t = r
        BY <1>9, <2>1, <3>1, Names
      <4>2. <<r, r>> \notin settled
        BY <1>15
      <4>3. QED
        BY <1>2, <1>5, <1>6, <3>1, <4>1, <4>2
    <3>2. CASE n # id
      <4>1. subs[n] = t /\ t # r
        BY <1>9, <1>15, <2>1, <3>2
      <4>2. QED
        BY <1>2, <1>4, <1>5, <1>6, <4>1, Names DEF TrackedOnce
    <3>3. QED
      BY <3>1, <3>2
  <2>2. ASSUME NEW n \in ReqIDs, NEW k \in ReqIDs, subs'[n] = subs'[k], subs'[n] \in Tracks
        PROVE  n = k
    BY <1>9, <1>15, <2>2, Names DEF TrackedOnce
  <2>3. \A t \in Tracks : stage'[t] # "waiting"
    BY <1>4, Names DEF TrackedOnce
  <2>4. QED
    BY <2>1, <2>2, <2>3 DEF TrackedOnce
<1>18. HandedRight' /\ EndsRight'
  BY <1>2, <1>6 DEF HandedRight, EndsRight
<1>19. Heard'
  <2>1. ASSUME NEW n \in ReqIDs, NEW t \in Tracks, subs'[n] = t, stage'[t] = "ended"
        PROVE  subs[n] = t /\ stage[t] = "ended"
    BY <1>4, <1>9, <2>1, Names
  <2>2. QED
    BY <1>2, <2>1 DEF Heard
<1>20. QED
  BY <1>11, <1>12, <1>13, <1>14, <1>16, <1>17, <1>18, <1>19

LEMMA SendRequestStep ==
  ASSUME BrokerInv, NEW r \in Calls, SendRequest(r)
  PROVE  BrokerInv'
<1> USE DEF BrokerInv
<1> DEFINE id == reqID[r]
           m == [id |-> id, to |-> r, sold |-> r \in Tracks /\ link = "serving"]
           next == IF r \in Tracks THEN "ended" ELSE "waiting"
<1>1. /\ stage[r] = "registered" /\ link # "down"
      /\ stage' = [stage EXCEPT ![r] = next]
      /\ reqID' = [reqID EXCEPT ![r] = 0]
      /\ sentOn' = [t \in Tracks |-> IF t = r THEN served ELSE sentOn[t]]
      /\ early' = early \cup {t \in Tracks : t = r /\ link = "authorizing"}
      /\ wire' \in {wire, wire \cup {m}}
      /\ UNCHANGED <<link, served, authed, reqIDSeq, pending, subs, handed, closedFor, answer,
                     settled, repeated, clientDown>>
  BY DEF SendRequest, At, linkVars, mapVars, outVars
<1>2. /\ stage' \in [Calls -> Stages] /\ stage'[r] = next
      /\ \A c \in Calls : c # r => stage'[c] = stage[c]
  BY <1>1 DEF BrokerShape, Stages
<1>3. \A c \in Calls : c # r => reqID'[c] = reqID[c]
  BY <1>1 DEF BrokerShape
<1>4. Past' = Past
  BY <1>1, <1>2 DEF Past
<1>5. /\ id \in ReqIDs /\ id =< reqIDSeq
      /\ pending[id] \in {r, Nobody} /\ subs[id] \in {r, Nobody}
  BY <1>1 DEF UnwrittenMatches
<1>6. BrokerShape'
  <2>1. m \in Answers
    BY <1>5, Names DEF Answers
  <2>2. wire' \subseteq Answers /\ early' \subseteq Tracks
    BY <1>1, <2>1 DEF BrokerShape
  <2>3. reqID' \in [Calls -> 0 .. MaxReqID] /\ sentOn' \in [Tracks -> 0 .. MaxConns]
    BY <1>1, Names DEF BrokerShape
  <2>4. QED
    BY <1>1, <1>2, <1>4, <2>2, <2>3 DEF BrokerShape
<1>7. UnusedIDs'
  BY <1>1 DEF UnusedIDs
<1>8. WireMatches'
  BY <1>1, <1>5 DEF WireMatches
<1>9. UnwrittenMatches'
  BY <1>1, <1>2, <1>3 DEF UnwrittenMatches
<1>10. PendingOnce' /\ HandedRight' /\ EndsRight'
  BY <1>1, <1>4 DEF PendingOnce, HandedRight, EndsRight
<1>11. TrackedOnce'
  <2>1. \A t \in Tracks : stage'[t] # "waiting"
    BY <1>2, Names DEF TrackedOnce
  <2>2. \A t \in Tracks : stage'[t] = "registered" => t # r
    BY <1>2
  <2>3. QED
    BY <1>1, <1>2, <1>3, <1>4, <2>1, <2>2, Names DEF TrackedOnce
<1>12. Heard'
  <2>1. ASSUME NEW n \in ReqIDs, NEW t \in Tracks, subs[n] = t, stage'[t] = "ended",
               t \notin early'
        PROVE  sentOn'[t] = served /\ link \in {"serving", "broken"}
    <3>1. CASE t = r
      BY <1>1, <2>1, <3>1 DEF BrokerShape
    <3>2. CASE t # r
      <4>1. stage[t] = "ended" /\ t \notin early /\ sentOn'[t] = sentOn[t]
        BY <1>1, <1>2, <2>1, <3>2, Names
      <4>2. QED
        BY <2>1, <4>1 DEF Heard
    <3>3. QED
      BY <3>1, <3>2
  <2>2. QED
    BY <1>1, <2>1 DEF Heard
<1>13. QED
  BY <1>6, <1>7, <1>8, <1>9, <1>10, <1>11, <1>12

\* The entries a failing write removes are its own, or already gone.
LEMMA SendFailsStep ==
  ASSUME BrokerInv, NEW r \in Calls, SendFails(r)
  PROVE  BrokerInv'
<1> USE DEF BrokerInv
<1> DEFINE id == reqID[r]
<1>1. /\ stage[r] = "registered" /\ stage' = [stage EXCEPT ![r] = "ended"]
      /\ reqID' = [reqID EXCEPT ![r] = 0]
      /\ UNCHANGED <<link, served, authed, reqIDSeq, wire, handed, closedFor, sentOn, early,
                     answer, settled, repeated, clientDown>>
  BY DEF SendFails, At, linkVars, outVars
<1>2. /\ stage' \in [Calls -> Stages] /\ stage'[r] = "ended"
      /\ \A c \in Calls : c # r => stage'[c] = stage[c]
  BY <1>1 DEF BrokerShape, Stages
<1>3. \A c \in Calls : c # r => reqID'[c] = reqID[c]
  BY <1>1 DEF BrokerShape
<1>4. Past' = Past
  BY <1>1, <1>2 DEF Past
<1>5. id \in ReqIDs
  BY <1>1 DEF UnwrittenMatches
<1>6. /\ pending' \in [ReqIDs -> Parties \cup {Nobody}]
      /\ subs' \in [ReqIDs -> Tracks \cup {Nobody}]
      /\ \A n \in ReqIDs : pending'[n] \in {pending[n], Nobody}
                           /\ subs'[n] \in {subs[n], Nobody}
      /\ r \in Tracks => subs'[id] = Nobody
  BY <1>5 DEF SendFails, Cleared, BrokerShape
<1>7. BrokerShape'
  <2>1. reqID' \in [Calls -> 0 .. MaxReqID]
    BY <1>1, Names DEF BrokerShape
  <2>2. QED
    BY <1>1, <1>2, <1>4, <1>6, <2>1 DEF BrokerShape
<1>8. UnusedIDs'
  BY <1>1, <1>6 DEF UnusedIDs
<1>9. WireMatches'
  BY <1>1, <1>6 DEF WireMatches, BrokerShape, Answers
<1>10. UnwrittenMatches'
  BY <1>1, <1>2, <1>3, <1>6 DEF UnwrittenMatches
<1>11. PendingOnce'
  <2>1. \A n \in ReqIDs, c \in Calls : pending'[n] = c => pending[n] = c
    BY <1>6, Names
  <2>2. \A n, k \in ReqIDs : pending'[n] = pending'[k] /\ pending'[n] \in Calls => n = k
    BY <2>1 DEF PendingOnce
  <2>3. QED
    BY <1>1, <1>4, <2>1, <2>2 DEF PendingOnce
<1>12. HandedRight' /\ EndsRight'
  BY <1>1, <1>4 DEF HandedRight, EndsRight
<1>13. ASSUME NEW n \in ReqIDs, NEW t \in Tracks, subs'[n] = t
       PROVE  subs[n] = t /\ t # r
  <2>1. subs[n] = t
    BY <1>6, <1>13, Names
  <2>2. ASSUME t = r
        PROVE  FALSE
    <3>1. n = id
      BY <1>1, <2>1, <2>2 DEF TrackedOnce
    <3>2. QED
      BY <1>6, <1>13, <2>2, <3>1, Names
  <2>3. QED
    BY <2>1, <2>2
<1>14. TrackedOnce'
  <2>1. \A t \in Tracks : stage'[t] # "waiting"
    BY <1>2, Names DEF TrackedOnce
  <2>2. \A n, k \in ReqIDs : subs'[n] = subs'[k] /\ subs'[n] \in Tracks => n = k
    BY <1>13 DEF TrackedOnce
  <2>3. QED
    BY <1>1, <1>2, <1>3, <1>4, <1>13, <2>1, <2>2, Names DEF TrackedOnce
<1>15. Heard'
  BY <1>1, <1>2, <1>13, Names DEF Heard
<1>16. QED
  BY <1>7, <1>8, <1>9, <1>10, <1>11, <1>12, <1>14, <1>15

LEMMA StopsWaitingStep ==
  ASSUME BrokerInv, NEW r \in Calls, StopsWaiting(r)
  PROVE  BrokerInv'
<1> USE DEF BrokerInv
<1>1. /\ stage[r] = "waiting" /\ stage' = [stage EXCEPT ![r] = "ended"]
      /\ UNCHANGED <<link, served, authed, reqIDSeq, pending, subs, wire, handed, closedFor,
                     reqID, sentOn, early, answer, settled, repeated, clientDown>>
  BY DEF StopsWaiting, At, linkVars, mapVars, outVars
<1>2. /\ stage' \in [Calls -> Stages] /\ stage'[r] = "ended"
      /\ \A c \in Calls : c # r => stage'[c] = stage[c]
  BY <1>1 DEF BrokerShape, Stages
<1>3. Past' = Past /\ r \notin Tracks
  BY <1>1, <1>2 DEF Past, TrackedOnce
<1>4. BrokerShape' /\ UnusedIDs' /\ WireMatches'
  BY <1>1, <1>2, <1>3 DEF BrokerShape, UnusedIDs, WireMatches
<1>5. UnwrittenMatches'
  BY <1>1, <1>2 DEF UnwrittenMatches
<1>6. PendingOnce' /\ HandedRight' /\ EndsRight'
  BY <1>1, <1>3 DEF PendingOnce, HandedRight, EndsRight
<1>7. TrackedOnce' /\ Heard'
  BY <1>1, <1>2, <1>3, Names DEF TrackedOnce, Heard
<1>8. QED
  BY <1>4, <1>5, <1>6, <1>7

-----------------------------------------------------------------------------
LEMMA StepInv == BrokerInv /\ [BrokerNext]_brokerVars => BrokerInv'
<1> SUFFICES ASSUME BrokerInv, [BrokerNext]_brokerVars
             PROVE  BrokerInv'
  OBVIOUS
<1>1. CASE DialBroker \/ FailPending
  BY <1>1, DialStep, FailPendingStep
<1>2. CASE AuthorizeFails \/ ReadFails
  BY <1>2, LosesWire DEF AuthorizeFails, ReadFails
<1>3. ASSUME NEW m \in wire, Dispatch(m) \/ DispatchToHandler(m) \/ DispatchToNobody(m)
      PROVE  BrokerInv'
  BY <1>3, DispatchStep, DispatchToHandlerStep, DispatchToNobodyStep
<1>4. ASSUME NEW k \in Conns, HandOver(k)
      PROVE  BrokerInv'
  BY <1>4, HandOverStep
<1>5. ASSUME NEW r \in Calls, CallStep(r)
      PROVE  BrokerInv'
  BY <1>5, AskReadyStep, RegisterStep, SendRequestStep, SendFailsStep, StopsWaitingStep
  DEF CallStep
<1>6. CASE UNCHANGED brokerVars
  <2> USE <1>6 DEF brokerVars, linkVars, mapVars, callVars, outVars, BrokerInv
  <2>1. Past' = Past
    BY DEF Past
  <2>2. BrokerShape' /\ UnusedIDs' /\ WireMatches' /\ UnwrittenMatches'
    BY <2>1 DEF BrokerShape, UnusedIDs, WireMatches, UnwrittenMatches
  <2>3. PendingOnce' /\ TrackedOnce' /\ HandedRight' /\ EndsRight' /\ Heard'
    BY <2>1 DEF PendingOnce, TrackedOnce, HandedRight, EndsRight, Heard
  <2>4. QED
    BY <2>2, <2>3
<1>7. QED
  BY <1>1, <1>2, <1>3, <1>4, <1>5, <1>6 DEF BrokerNext, Conns

LEMMA Invariant == BrokerSpec => []BrokerInv
  BY InitInv, StepInv, PTL DEF BrokerSpec

\* Every reachable state of the client is well typed: ids never run out, and those
\* not given out are in no map.
THEOREM BrokerTypeCorrect == BrokerSpec => []BrokerTypeOK
<1>1. BrokerInv => BrokerTypeOK
  <2> SUFFICES ASSUME BrokerInv
               PROVE  BrokerTypeOK
    OBVIOUS
  <2>1. reqIDSeq \in 0 .. MaxReqID
    BY PastIsFinite, Names DEF BrokerInv, BrokerShape, MaxReqID
  <2>2. {repeated, clientDown} \subseteq BOOLEAN
    BY DEF BrokerInv, BrokerShape
  <2>3. QED
    BY <2>1, <2>2 DEF BrokerInv, BrokerShape, UnusedIDs, BrokerTypeOK, Stages, Conns
<1>2. QED
  BY <1>1, Invariant, PTL

\* However many connections fall and requests are given up, whatever answers come
\* late: each request reads its own answer, and each contract its own end.
THEOREM AnswersAreMatched == BrokerSpec => []AnswersReachTheirCall
<1>1. BrokerInv => AnswersReachTheirCall
  BY DEF BrokerInv, EndsRight, AnswersReachTheirCall
<1>2. QED
  BY <1>1, Invariant, PTL

\* A contract tracked by one request is published as closed once, even if the broker
\* repeats its last update.
THEOREM ClosesArePublishedOnce == BrokerSpec => []SettledOnce
<1>1. BrokerInv => SettledOnce
  BY DEF BrokerInv, EndsRight, SettledOnce
<1>2. QED
  BY <1>1, Invariant, PTL

\* No reader, of this connection or one left behind, sends on a channel that
\* failPending closed.
THEOREM ClosedChannelsStayClosed == BrokerSpec => []NoSendOnClosed
<1>1. BrokerInv => NoSendOnClosed
  BY DEF BrokerInv, EndsRight, NoSendOnClosed
<1>2. QED
  BY <1>1, Invariant, PTL

\* The three together: through timeouts, late answers and lost connections an answer
\* reaches its own call, a close is published once, and the reader never panics.
THEOREM AnswersStaySafe == BrokerSpec => []AnswersAreSafe
  BY AnswersAreMatched, ClosesArePublishedOnce, ClosedChannelsStayClosed, PTL
  DEF AnswersAreSafe

\* A tracked contract goes unheard for one reason only: its request was written
\* before the authorization of a connection dialled after it asked Ready.
THEOREM OnlyEarlyRequestsAreDeaf == BrokerSpec => []DeafOnlyIfEarly
<1>1. BrokerInv => DeafOnlyIfEarly
  BY DEF BrokerInv, Heard, DeafOnlyIfEarly
<1>2. QED
  BY <1>1, Invariant, PTL
=============================================================================
