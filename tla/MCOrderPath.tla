------------------------------ MODULE MCOrderPath ------------------------------
(***************************************************************************)
(* The way of an order: the pipeline from decision to booking, and the     *)
(* broker client the gateway places it with.  TradeLifecycle has its own   *)
(* abstraction of that client (a buy or a track that succeeds, fails or is *)
(* lost), so the two are checked in states of their own.                   *)
(***************************************************************************)
EXTENDS MCTradeLifecycle, BrokerClient

VARIABLE part        \* the component that runs

mcVars == <<part, vars, brokerVars>>

MCInit == part \in {"pipeline", "client"} /\ Init /\ BrokerInit

MCNext ==
    /\ UNCHANGED part
    /\ \/ part = "pipeline" /\ Next /\ UNCHANGED brokerVars
       \/ part = "client" /\ BrokerNext /\ UNCHANGED vars

MCSpec == MCInit /\ [][MCNext]_mcVars

\* The fair actions of the pipeline are disabled where the client runs.
MCFairSpec == MCSpec /\ Fairness
=============================================================================
