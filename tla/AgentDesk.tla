------------------------------ MODULE AgentDesk ------------------------------
(***************************************************************************)
(* The agents a company authors: routes/agents.py of services/api/app with *)
(* the headcount and forecaster gates of tiers.py.  One company.           *)
(*                                                                         *)
(* Every gate and every validation reads on a connection of its own before *)
(* the INSERT or UPDATE; a change of the language model is validated       *)
(* against the half of the pair the request does not bring.                *)
(***************************************************************************)
EXTENDS Integers, FiniteSets, FiniteSetsExt

CONSTANTS Agents, Seeded,     \* possible agents; the employees every company starts with
          Requests,           \* served at one time (bound)
          TierNames, MaxEmployees, Allowed,     \* tiers._TIERS
          Providers, Models, Registry,          \* the known pairs
          NoAgent

ASSUME AgentDeskConstants ==
    /\ Seeded \subseteq Agents /\ IsFiniteSet(Agents)
    /\ Requests # {} /\ IsFiniteSet(Requests)
    /\ TierNames # {} /\ IsFiniteSet(TierNames)
    /\ MaxEmployees \in [TierNames -> Nat \ {0}]
    /\ \A t \in TierNames : "ttm" \in Allowed[t]
    /\ Registry # {} /\ Registry \subseteq Providers \X Models
    /\ NoAgent \notin Agents

VARIABLES
    tierName, held,       \* companies.tier_name; every tier held so far
    employees,            \* the rows
    forecaster, pair,     \* forecasting_model, <<llm_provider, llm_model>>
    pending, subject, value,   \* requests: the write due, on which row, of what
    raced                 \* rows whose pair was written by overlapping requests

rows == <<employees, forecaster, pair, raced>>
desk == <<pending, subject, value>>
agentVars == <<tierName, held, rows, desk>>

Forecasters == UNION {Allowed[t] : t \in TierNames}
Changes == {"create", "forecaster", "provider", "model"}

AgentTypeOK ==
    /\ tierName \in held /\ held \subseteq TierNames
    /\ employees \subseteq Agents
    /\ forecaster \in [Agents -> Forecasters] /\ pair \in [Agents -> Providers \X Models]
    /\ pending \in [Requests -> Changes \cup {"none"}]
    /\ subject \in [Requests -> Agents \cup {NoAgent}]
    /\ \A c \in Requests : pending[c] = "none" => subject[c] = NoAgent
    /\ value \in [Requests -> Forecasters \cup Providers \cup Models \cup {NoAgent}]
    /\ raced \subseteq Agents

\* What a new agent is given; any known pair would do.
DefaultPair == CHOOSE p \in Registry : TRUE

AgentInit ==
    /\ tierName \in TierNames /\ held = {tierName}
    /\ employees = Seeded
    /\ forecaster = [a \in Agents |-> "ttm"]
    /\ pair = [a \in Agents |-> DefaultPair]
    /\ pending = [c \in Requests |-> "none"]
    /\ subject = [c \in Requests |-> NoAgent] /\ value = [c \in Requests |-> NoAgent]
    /\ raced = {}

Decides(c, what, a, v) ==
    /\ pending[c] = "none" /\ pending' = [pending EXCEPT ![c] = what]
    /\ subject' = [subject EXCEPT ![c] = a] /\ value' = [value EXCEPT ![c] = v]
\* The request is over.
Answers(c) ==
    /\ pending' = [pending EXCEPT ![c] = "none"]
    /\ subject' = [subject EXCEPT ![c] = NoAgent] /\ value' = [value EXCEPT ![c] = NoAgent]

-----------------------------------------------------------------------------
TierMoves(t) ==
    /\ t # tierName /\ tierName' = t /\ held' = held \cup {t}
    /\ UNCHANGED <<rows, desk>>

\* gate_add_employee_agent.
HasRoom(n) == n < MaxEmployees[tierName]

\* gate_forecaster.
TierAllows(f) == f \in Allowed[tierName]

\* create_agent: both gates ...
GateCreate(c, f) ==
    /\ HasRoom(Cardinality(employees)) /\ TierAllows(f)
    /\ Decides(c, "create", NoAgent, f)
    /\ UNCHANGED <<tierName, held, rows>>

\* ... then the INSERT.
InsertAgent(c, a) ==
    /\ pending[c] = "create" /\ Answers(c)
    /\ a \notin employees /\ employees' = employees \cup {a}
    /\ forecaster' = [forecaster EXCEPT ![a] = value[c]]
    /\ UNCHANGED <<tierName, held, pair, raced>>

\* update_agent, up to its UPDATE: the forecaster ...
GateForecaster(c, a, f) ==
    /\ a \in employees /\ TierAllows(f)
    /\ Decides(c, "forecaster", a, f)
    /\ UNCHANGED <<tierName, held, rows>>

\* ... or one half of the pair, with the other half as it reads it.  The mutant
\* checks only that some pair has the new half.
MutantKnownModel(p, m) == \E q \in Registry : q[1] = p \/ q[2] = m
KnownModel(p, m) == <<p, m>> \in Registry

CheckPair(c, a, what, v) ==
    /\ a \in employees /\ v \in (IF what = "provider" THEN Providers ELSE Models)
    /\ IF what = "provider" THEN KnownModel(v, pair[a][2]) ELSE KnownModel(pair[a][1], v)
    /\ Decides(c, what, a, v)
    /\ raced' = IF \E d \in Requests \ {c} : subject[d] = a /\ pending[d] \in {"provider", "model"}
                THEN raced \cup {a} ELSE raced
    /\ UNCHANGED <<tierName, held, employees, forecaster, pair>>

\* The UPDATE; the row may be gone.
UpdateAgent(c) ==
    LET a == subject[c]
    IN  /\ pending[c] \in Changes \ {"create"} /\ Answers(c)
        /\ IF a \in employees
           THEN CASE pending[c] = "forecaster" ->
                       /\ forecaster' = [forecaster EXCEPT ![a] = value[c]]
                       /\ UNCHANGED pair
                  [] pending[c] = "provider" ->
                       /\ pair' = [pair EXCEPT ![a] = <<value[c], @[2]>>]
                       /\ UNCHANGED forecaster
                  [] pending[c] = "model" ->
                       /\ pair' = [pair EXCEPT ![a] = <<@[1], value[c]>>]
                       /\ UNCHANGED forecaster
           ELSE UNCHANGED <<forecaster, pair>>
        /\ UNCHANGED <<tierName, held, employees, raced>>

\* The row is gone; a request that names it will find nothing.
DeleteAgent(a) ==
    /\ a \in employees /\ employees' = employees \ {a} /\ raced' = raced \ {a}
    /\ forecaster' = [forecaster EXCEPT ![a] = "ttm"]
    /\ pair' = [pair EXCEPT ![a] = DefaultPair]
    /\ subject' = [c \in Requests |-> IF subject[c] = a THEN NoAgent ELSE subject[c]]
    /\ UNCHANGED <<tierName, held, pending, value>>

-----------------------------------------------------------------------------
CreateStep(c) ==
    \/ \E f \in Forecasters : GateCreate(c, f)
    \/ \E a \in Agents : InsertAgent(c, a)

UpdateStep(c) ==
    \/ \E a \in Agents, f \in Forecasters : GateForecaster(c, a, f)
    \/ \E a \in Agents, what \in {"provider", "model"}, v \in Providers \cup Models :
          CheckPair(c, a, what, v)
    \/ UpdateAgent(c)

AgentNext ==
    \/ \E t \in TierNames : TierMoves(t)
    \/ \E c \in Requests : CreateStep(c) \/ UpdateStep(c)
    \/ \E a \in Agents : DeleteAgent(a)

AgentSpec == AgentInit /\ [][AgentNext]_agentVars

-----------------------------------------------------------------------------
(* Properties.                                                             *)

\* The employees a company has beyond those it started with fit the largest tier it
\* held, up to one per further request between its gate and its INSERT.
HeadcountBounded ==
    Cardinality(employees) <=
        Max({MaxEmployees[t] : t \in held} \cup {Cardinality(Seeded)})
        + Cardinality(Requests) - 1

\* No request leaves an agent with a forecaster that none of the company's tiers
\* included: a gate passed before a downgrade is the only way past the gate.
ForecastersPaid == \A a \in employees : \E t \in held : forecaster[a] \in Allowed[t]

\* "Both must end up together describing a registry entry" (routes/agents.py): they
\* do, unless two requests that change the pair of one agent overlap.
PairsRegistered == \A a \in employees \ raced : pair[a] \in Registry

\* Whatever requests, downgrades and deletions interleave, the agents of a company
\* are ones its gates could have let in: in number, in forecaster and in model.
AgentsAreLegal == HeadcountBounded /\ ForecastersPaid /\ PairsRegistered
=============================================================================
