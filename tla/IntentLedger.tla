----------------------------- MODULE IntentLedger -----------------------------
(***************************************************************************)
(* What the trading pipeline promises for one trade intent, without any of *)
(* its machinery: it is decided once; only a sanctioned intent opens a     *)
(* position, and only one; the position settles once; and the books show   *)
(* nothing or the result of that position.                                 *)
(***************************************************************************)
CONSTANT Intents

VARIABLES decision,   \* undecided, then declined or sanctioned for good
          position,   \* none, open, or how it settled
          book        \* null, or the result shown to the user

ledgerVars == <<decision, position, book>>

Results == {"win", "loss"}

Init ==
    /\ decision = [i \in Intents |-> "undecided"]
    /\ position = [i \in Intents |-> "none"]
    /\ book = [i \in Intents |-> "null"]

Sanction(i) ==
    /\ decision[i] = "undecided"
    /\ decision' = [decision EXCEPT ![i] = "sanctioned"]
    /\ UNCHANGED <<position, book>>

\* Several intents may expire in one sweep.
Decline(S) ==
    /\ \A i \in S : decision[i] = "undecided"
    /\ decision' = [i \in Intents |-> IF i \in S THEN "declined" ELSE decision[i]]
    /\ UNCHANGED <<position, book>>

Open(i) ==
    /\ decision[i] = "sanctioned" /\ position[i] = "none"
    /\ position' = [position EXCEPT ![i] = "open"]
    /\ UNCHANGED <<decision, book>>

Settle(i, r) ==
    /\ position[i] = "open"
    /\ position' = [position EXCEPT ![i] = r]
    /\ UNCHANGED <<decision, book>>

Book(i) ==
    /\ book[i] = "null" /\ position[i] \in Results
    /\ book' = [book EXCEPT ![i] = position[i]]
    /\ UNCHANGED <<decision, position>>

Next ==
    \/ \E S \in SUBSET Intents : Decline(S)
    \/ \E i \in Intents :
         Sanction(i) \/ Open(i) \/ Book(i) \/ \E r \in Results : Settle(i, r)

Spec == Init /\ [][Next]_ledgerVars
=============================================================================
