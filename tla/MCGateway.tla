------------------------------- MODULE MCGateway -------------------------------
(***************************************************************************)
(* The gateway's pool, reconnect loops, QuestDB writer and browser hub:    *)
(* they share no variable, and each is checked in states of its own.  (The *)
(* fifth part, the broker client, is checked with the order's path.)       *)
(***************************************************************************)
EXTENDS TraderPool, Reconnect, TickWriter, WsHub

VARIABLE part        \* the component that runs

mcVars == <<part, vars, reconnectVars, writerVars, hubVars>>

\* The first token of the company is one the broker refuses.
MCFirstTokenBad == {0}

MCInit ==
    /\ part \in {"pool", "loops", "writer", "hub"}
    /\ Init /\ ReconnectInit /\ WriterInit /\ HubInit

MCNext ==
    /\ UNCHANGED part
    /\ \/ part = "pool" /\ Next
             /\ UNCHANGED <<reconnectVars, writerVars, hubVars>>
       \/ part = "loops" /\ ReconnectNext
             /\ UNCHANGED <<vars, writerVars, hubVars>>
       \/ part = "writer" /\ WriterNext
             /\ UNCHANGED <<vars, reconnectVars, hubVars>>
       \/ part = "hub" /\ HubNext
             /\ UNCHANGED <<vars, reconnectVars, writerVars>>

\* In the initial state of a part, where it stays while another runs, none of its
\* fair actions is enabled: each part is fair where it runs.
MCSpec == MCInit /\ [][MCNext]_mcVars /\ Fairness /\ HubFairness
=============================================================================
