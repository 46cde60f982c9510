------------------------------ MODULE MCTenancy ------------------------------
(***************************************************************************)
(* Four components of the tenant's side that share no variable, each       *)
(* checked in states of its own: one component runs, the others rest.      *)
(***************************************************************************)
EXTENDS Membership, Billing, LiveGate, AgentDesk, TLC

CONSTANTS i1, i2, i3, c1, c2

VARIABLE part

mcVars == <<part, membersVars, billingVars, liveVars, agentVars>>

MCMaxEmployees == ("free" :> 1) @@ ("starter" :> 2)
MCAllowed == ("free" :> {"ttm"}) @@ ("starter" :> {"ttm", "kronos"})
MCRegistry == {<<"A", "m1">>, <<"A", "m2">>, <<"B", "m1">>}

\* The parts draw their identities from one set, so that one group serves them all.
MCSymmetry == Permutations({i1, i2, i3}) \cup Permutations({c1, c2})

MCInit ==
    /\ part \in {"members", "billing", "live", "agents"}
    /\ MembersInit /\ BillingInit /\ LiveInit /\ AgentInit
    \* A new company is on the free tier; no account is from before passwords.
    /\ seats = 1 /\ tierName = "free" /\ paperOnly
    /\ \A p \in People : account[p] = "absent"

MCNext ==
    \/ part = "members" /\ MembersNext /\ UNCHANGED <<part, billingVars, liveVars, agentVars>>
    \/ part = "billing" /\ BillingNext /\ UNCHANGED <<part, membersVars, liveVars, agentVars>>
    \/ part = "live" /\ LiveNext /\ UNCHANGED <<part, membersVars, billingVars, agentVars>>
    \/ part = "agents" /\ AgentNext /\ UNCHANGED <<part, membersVars, billingVars, liveVars>>

MCSpec == MCInit /\ [][MCNext]_mcVars

\* The rows of members, subscriptions, passkeys and agents keep their type.
TypesOK == MembersTypeOK /\ BillingTypeOK /\ LiveTypeOK /\ AgentTypeOK
=============================================================================
