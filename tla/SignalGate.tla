------------------------------- MODULE SignalGate -------------------------------
(***************************************************************************)
(* From a forecast to an intent: app/decision_loop.py, with the daily      *)
(* profit targets of a company and its agents (routes/companies.py).       *)
(*                                                                         *)
(* The subscription's callback handles one signal at a time.  It selects   *)
(* the candidates once, with their settings and the profit of the day, and *)
(* takes them one after the other, awaiting candles and a risk transaction *)
(* for each; users, closes and midnight move the rows meanwhile.           *)
(***************************************************************************)
EXTENDS Integers, Sequences, FiniteSets, FiniteSetsExt

CONSTANTS Agents, Assets,
          Whitelists,     \* values of allowed_assets: {} allows all
          Floors,         \* values of min_confidence_threshold, and of confidences
          Interval,       \* forecast_min_interval_secs
          MaxLag,         \* how long one signal is handled (bound)
          Target,         \* daily_profit_target_usd where it is set
          MaxProfit,      \* profit or loss of a day (bound)
          MaxOpen,        \* positions of one agent (bound)
          MaxEdits,       \* changes of settings (bound)
          NoOne, NoSignal

ASSUME SignalConstants ==
    /\ IsFiniteSet(Agents) /\ IsFiniteSet(Assets) /\ Whitelists \subseteq SUBSET Assets
    /\ Floors \subseteq Nat /\ Interval \in Nat \ {0} /\ MaxLag \in Nat
    /\ Target \in Nat \ {0} /\ MaxProfit \in Nat /\ MaxOpen \in Nat /\ MaxEdits \in Nat
    /\ NoOne \notin Agents /\ NoSignal \notin [asset : Assets, confidence : Floors]

VARIABLES
    whitelist, floor,       \* agents: allowed_assets, min_confidence_threshold
    runnable, cooling,      \* active and not paused; cooling_off_until is to come
    goal, teamGoal,         \* daily_profit_target_usd of agents and company, 0 if unset
    edits,
    profit, open,           \* realized today; open positions
    inbox, signal,          \* signals published and not handled; the one handled
    waiting, view,          \* its candidates not yet taken; what the SELECT read of them
    taken, lag,             \* the one between throttle and insert; time since now_mono was read
    age,                    \* time since _last_signal_at, up to where it makes no difference
    late                    \* ghost: intents inserted since the agent was last free to trade

configs == <<whitelist, floor, runnable, cooling, goal, teamGoal, edits>>
books == <<profit, open>>
handling == <<signal, waiting, view, taken, lag>>
signalVars == <<configs, books, inbox, handling, age, late>>

Signals == [asset : Assets, confidence : Floors]
LongAgo == Interval + MaxLag
Unseen == [allows |-> FALSE, band |-> 0]

SignalTypeOK ==
    /\ whitelist \in [Agents -> Whitelists] /\ floor \in [Agents -> Floors]
    /\ goal \in [Agents -> {0, Target}] /\ teamGoal \in {0, Target}
    /\ profit \in [Agents -> -MaxProfit..MaxProfit] /\ open \in [Agents -> 0..MaxOpen]
    /\ inbox \in Seq(Signals) /\ signal \in Signals \cup {NoSignal}
    /\ waiting \subseteq Agents /\ taken \in (Agents \cup {NoOne}) \ waiting
    /\ signal = NoSignal => waiting = {} /\ taken = NoOne
    /\ view \in [Agents -> [allows : BOOLEAN, band : {0, 2, 3, 4}]]
    /\ lag \in 0..MaxLag /\ age \in [Agents -> 0..LongAgo]

SignalInit ==
    /\ whitelist \in [Agents -> Whitelists] /\ floor \in [Agents -> Floors]
    /\ runnable = [a \in Agents |-> TRUE] /\ cooling = [a \in Agents |-> FALSE]
    /\ goal \in [Agents -> {0, Target}] /\ teamGoal \in {0, Target} /\ edits = 0
    /\ profit = [a \in Agents |-> 0] /\ open = [a \in Agents |-> 0]
    /\ inbox = <<>> /\ signal = NoSignal
    /\ waiting = {} /\ view = [a \in Agents |-> Unseen] /\ taken = NoOne /\ lag = 0
    /\ age = [a \in Agents |-> LongAgo]
    /\ late = [a \in Agents |-> 0]

-----------------------------------------------------------------------------
(* The goal-aware throttle: a share of the stake in quarters, 0 to skip.   *)

Band(target, p) ==
    IF target = 0 THEN 4
    ELSE IF p >= target THEN 0
    ELSE IF 10 * p >= 8 * target THEN 2 ELSE IF 2 * p >= target THEN 3 ELSE 4
TeamProfit == MapThenSumSet(LAMBDA a : profit[a], Agents)
\* The stricter of the two.  The mutant takes the company's, where it has one.
MutantBandOf(a) == Band(IF teamGoal # 0 THEN teamGoal ELSE goal[a],
                        IF teamGoal # 0 THEN TeamProfit ELSE profit[a])
BandOf(a) == Min({Band(teamGoal, TeamProfit), Band(goal[a], profit[a])})

Allows(list, x) == list = {} \/ x \in list

\* The forecaster publishes; NATS keeps what the callback has not taken yet.
Publish(x) ==
    /\ Len(inbox) < Cardinality(Assets)
    /\ \E c \in Floors : inbox' = Append(inbox, [asset |-> x, confidence |-> c])
    /\ UNCHANGED <<configs, books, handling, age>>

\* _evaluate_forecast: calibration, the SELECT and now_mono.
SelectCandidates ==
    /\ signal = NoSignal /\ inbox # <<>>
    /\ signal' = Head(inbox) /\ inbox' = Tail(inbox) /\ lag' = 0
    /\ waiting' = {a \in Agents : runnable[a] /\ ~cooling[a] /\ signal'.confidence >= floor[a]}
    /\ view' = [a \in Agents |-> IF a \in waiting'
                                   THEN [allows |-> Allows(whitelist[a], signal'.asset), band |-> BandOf(a)]
                                   ELSE Unseen]
    /\ UNCHANGED <<configs, books, taken, age>>

\* The cadence throttle, against now_mono.
Due(a) == age[a] - lag >= Interval
\* _last_signal_at after it: now_mono where the signal passed.  The mutant slides
\* it for the signals it drops too.
MutantStamps(a) == [age EXCEPT ![a] = lag]
Stamps(a) == IF Due(a) THEN [age EXCEPT ![a] = lag] ELSE age

Take(a) ==
    /\ taken = NoOne /\ a \in waiting /\ waiting' = waiting \ {a}
    /\ taken' = IF Due(a) THEN a ELSE NoOne
    /\ age' = Stamps(a)
    /\ UNCHANGED <<configs, books, inbox, signal, view, lag>>

\* _maybe_intent inserts no trade: the whitelist, no aligned strategy, the target,
\* no contract, the mode, a risk check, or an exception.
Decline ==
    /\ taken # NoOne /\ taken' = NoOne
    /\ UNCHANGED <<configs, books, inbox, signal, waiting, view, lag, age>>

\* Or it does.  The risk agent reads the row again, though not the cooling-off
\* and not the targets.
Insert ==
    /\ taken # NoOne /\ view[taken].allows /\ view[taken].band > 0
    /\ runnable[taken] /\ Allows(whitelist[taken], signal.asset) /\ signal.confidence >= floor[taken]
    /\ open[taken] < MaxOpen /\ open' = [open EXCEPT ![taken] = @ + 1]
    /\ taken' = NoOne
    /\ UNCHANGED <<configs, profit, inbox, signal, waiting, view, lag, age>>

\* The callback returns; or the SELECT had failed, and no candidate is taken.
Finish ==
    /\ signal # NoSignal /\ taken = NoOne /\ waiting = {}
    /\ signal' = NoSignal /\ view' = [a \in Agents |-> Unseen] /\ lag' = 0
    /\ UNCHANGED <<configs, books, inbox, waiting, taken, age>>

HandlerStep == SelectCandidates \/ (\E a \in Agents : Take(a)) \/ Decline \/ Insert \/ Finish

-----------------------------------------------------------------------------
\* PATCH of the agent, of the goals; pauses and the cooling-off.
Edit ==
    /\ edits < MaxEdits /\ edits' = edits + 1
    /\ \/ /\ \E a \in Agents :
                \/ \E w \in Whitelists : whitelist' = [whitelist EXCEPT ![a] = w]
                                         /\ UNCHANGED <<runnable, cooling, goal>>
                \/ runnable' = [runnable EXCEPT ![a] = ~@] /\ UNCHANGED <<whitelist, cooling, goal>>
                \/ cooling' = [cooling EXCEPT ![a] = ~@] /\ UNCHANGED <<whitelist, runnable, goal>>
                \/ goal' = [goal EXCEPT ![a] = Target - @] /\ UNCHANGED <<whitelist, runnable, cooling>>
          /\ UNCHANGED teamGoal
       \/ teamGoal' = Target - teamGoal /\ UNCHANGED <<whitelist, runnable, cooling, goal>>
    /\ UNCHANGED <<floor, books, inbox, handling, age>>

ClosePosition(a, d) ==
    /\ open[a] > 0 /\ profit[a] + d \in -MaxProfit..MaxProfit
    /\ open' = [open EXCEPT ![a] = @ - 1] /\ profit' = [profit EXCEPT ![a] = @ + d]
    /\ UNCHANGED <<configs, inbox, handling, age>>

DayTurns ==
    /\ profit' = [a \in Agents |-> 0] /\ UNCHANGED <<configs, open, inbox, handling, age>>

Tick ==
    /\ lag' = IF signal = NoSignal THEN 0 ELSE lag + 1
    /\ lag' <= MaxLag
    /\ age' = [a \in Agents |-> Min({LongAgo, age[a] + 1})]
    /\ UNCHANGED <<configs, books, inbox, signal, waiting, view, taken>>

\* The process restarts: what it was handling and _last_signal_at are gone.
SignalRestart ==
    /\ edits < MaxEdits /\ edits' = edits + 1
    /\ inbox' = <<>> /\ signal' = NoSignal /\ waiting' = {} /\ taken' = NoOne /\ lag' = 0
    /\ view' = [a \in Agents |-> Unseen] /\ age' = [a \in Agents |-> LongAgo]
    /\ UNCHANGED <<whitelist, floor, runnable, cooling, goal, teamGoal, books>>

Barred(a) == cooling[a] \/ Band(goal[a], profit[a]) = 0 \/ Band(teamGoal, TeamProfit) = 0

\* The ghost beside every step.
CountLate ==
    late' = [a \in Agents |->
                IF ~Barred(a)' THEN 0 ELSE IF open'[a] > open[a] THEN late[a] + 1 ELSE late[a]]

SignalNext ==
    /\ \/ HandlerStep \/ (\E x \in Assets : Publish(x))
       \/ Edit \/ SignalRestart \/ DayTurns \/ Tick
       \/ \E a \in Agents, d \in {-1, 1} : ClosePosition(a, d)
    /\ CountLate

SignalSpec == SignalInit /\ [][SignalNext]_signalVars

\* The callback's awaits are answered or time out, and time passes.
SignalFairness == WF_signalVars(HandlerStep /\ CountLate) /\ WF_signalVars(Tick /\ CountLate)

-----------------------------------------------------------------------------
\* Nobody reads the targets or the cooling-off again after the SELECT, so a
\* target reached or a streak lost meanwhile lets one more trade of the agent
\* through, never two.
LateIntentsBounded == \A a \in Agents : late[a] <= 1

\* The throttle delays and does not starve: an agent that is a candidate again and
\* again is evaluated again and again, however fast the signals come.
EvaluationsContinue == \A a \in Agents : []<>(a \in waiting) => []<>(taken = a)
=============================================================================
