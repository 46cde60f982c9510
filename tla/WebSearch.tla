------------------------------- MODULE WebSearch -------------------------------
(***************************************************************************)
(* The daily quota of internet searches of one company: app/web_search.py, *)
(* called by the web_search tool (tools.py), with the settings of          *)
(* routes/companies.py and the cap of the tier.  The quota is compared     *)
(* with the log before the search engine is asked, on a connection given   *)
(* back meanwhile; the search is logged after it.                          *)
(***************************************************************************)
EXTENDS Integers, FiniteSets, Sequences, FiniteSetsExt

CONSTANTS Searches,      \* at one time (bound)
          Quotas,        \* what the CEO may set
          Caps,          \* what the tiers allow; zero is the free tier
          HasTavily      \* TAVILY_API_KEY is set

ASSUME WebSearchConstants ==
    /\ Quotas \subseteq Nat /\ Caps \subseteq Nat /\ Quotas # {} /\ Caps # {}
    /\ IsFiniteSet(Quotas \cup Caps) /\ IsFiniteSet(Searches)
    /\ HasTavily \in BOOLEAN

VARIABLES
    enabled, quota, cap, backend,   \* companies.web_search_*, its tier
    engines,                        \* searches: the backends still to try
    found,                          \* today's rows of web_search_log that are ok
    widest                          \* the highest effective quota of the day so far

settings == <<enabled, quota, cap, backend, widest>>
webVars == <<settings, engines, found>>

Backends == {"auto", "tavily", "duckduckgo"}
Resting == <<"none">>

\* _load_config: the lesser of the two.  The mutant takes the CEO's.
MutantEffective(q, c) == q
Effective(q, c) == IF q < c THEN q ELSE c

\* _backend_order: a backend the CEO or the call names is the only one tried.
Order(pref) == IF pref # "auto" THEN <<pref>>
               ELSE IF HasTavily THEN <<"tavily", "duckduckgo">> ELSE <<"duckduckgo">>

WebTypeOK ==
    /\ enabled \in BOOLEAN /\ quota \in Quotas /\ cap \in Caps /\ backend \in Backends
    /\ \A s \in Searches : engines[s] \in {Resting, <<>>, <<"tavily">>, <<"duckduckgo">>, <<"tavily", "duckduckgo">>}
    /\ found \in Nat /\ widest \in Nat

WebInit ==
    /\ enabled = TRUE /\ quota \in Quotas /\ cap \in Caps /\ backend = "auto"
    /\ engines = [s \in Searches |-> Resting]
    /\ found = 0 /\ widest = Min({quota, cap})

\* patch_web_search_config, or another tier.
Configure(on, q, c, b) ==
    /\ enabled' = on /\ quota' = q /\ cap' = c /\ backend' = b
    /\ widest' = Max({widest, Min({q, c})})
    /\ UNCHANGED <<engines, found>>

\* search, up to the connection it gives back: disabled or out of quota, it
\* leaves a row that is not ok.  A hint of the call overrides the backend.
BeginSearch(s, hint) ==
    /\ engines[s] = Resting
    /\ enabled /\ Effective(quota, cap) > 0
    /\ found < Effective(quota, cap)
    /\ engines' = [engines EXCEPT ![s] = Order(IF hint = "none" THEN backend ELSE hint)]
    /\ UNCHANGED <<settings, found>>

\* A backend fails, or is tavily without a key: the next one is tried.
BackendFails(s) ==
    /\ engines[s] \notin {Resting, <<>>}
    /\ engines' = [engines EXCEPT ![s] = Tail(@)]
    /\ UNCHANGED <<settings, found>>

\* No backend is left: the row is not ok.
SearchFails(s) ==
    /\ engines[s] = <<>> /\ engines' = [engines EXCEPT ![s] = Resting]
    /\ UNCHANGED <<settings, found>>

\* A backend answers: the row is ok and counts.
SearchFinds(s) ==
    /\ engines[s] \notin {Resting, <<>>} /\ (Head(engines[s]) = "tavily" => HasTavily)
    /\ engines' = [engines EXCEPT ![s] = Resting]
    /\ found' = found + 1
    /\ UNCHANGED settings

\* date_trunc('day', now()) moves on.
DayTurns ==
    /\ found > 0 /\ found' = 0 /\ widest' = Min({quota, cap})
    /\ UNCHANGED <<enabled, quota, cap, backend, engines>>

WebNext ==
    \/ \E on \in BOOLEAN, q \in Quotas, c \in Caps, b \in Backends : Configure(on, q, c, b)
    \/ \E s \in Searches : \/ \E hint \in Backends \cup {"none"} : BeginSearch(s, hint)
                           \/ BackendFails(s) \/ SearchFails(s) \/ SearchFinds(s)
    \/ DayTurns

WebSpec == WebInit /\ [][WebNext]_webVars

-----------------------------------------------------------------------------
\* The day's paid searches exceed the highest quota that held that day by at most
\* one for each further search in flight, those begun before midnight included:
\* the tier bounds what the CEO may set, and parallel calls cannot pile up.
SpendBounded ==
    LET inFlight == Cardinality({s \in Searches : engines[s] # Resting}) IN
    found + inFlight <= Max({widest, 1}) + Cardinality(Searches) - 1
=============================================================================
