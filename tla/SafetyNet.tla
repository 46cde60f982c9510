------------------------------ MODULE SafetyNet ------------------------------
(***************************************************************************)
(* What stops a losing company or agent: the cooling-off bookkeeping of    *)
(* the close consumer (services/api/app/execution.py), the circuit breaker *)
(* and the auto-pause of the safety monitor (services/api/app/safety.py),  *)
(* and the admins' switches (routes/safety.py, routes/agents.py).  One     *)
(* company.                                                                *)
(*                                                                         *)
(* The consumer and the monitor act on different records of one loss: the  *)
(* consumer on the close, the monitor on its postmortem, which a detached  *)
(* task writes later, if it lives.  Every statement commits by itself.     *)
(***************************************************************************)
EXTENDS Integers, FiniteSets, FiniteSetsExt

CONSTANTS Agents, Trades, Nil,
          AgentOf,        \* the agent of each trade
          Results,        \* realized profits
          Limits,         \* values of daily_loss_limit_usd
          Drawdown,       \* max_daily_drawdown_pct of the allocation
          LossStreakLimit,
          MaxFailures     \* exceptions and restarts (bound)

ASSUME SafetyConstants ==
    /\ AgentOf \in [Trades -> Agents]
    /\ Results \subseteq Int /\ Limits \subseteq Nat /\ Nil \notin Nat \cup Trades
    /\ Drawdown \in Nat /\ LossStreakLimit \in Nat \ {0} /\ MaxFailures \in Nat

VARIABLES
    open, result,                 \* trade_intents: unclosed rows, booked profits
    closing, step,                \* the row _on_closed is at, its next statement
    streak, cooling,              \* cooling_off_loss_streak, cooling_off_until > now()
    pmDue, pmToday, pmDay,        \* postmortems to write, of today, of the last 24 h
    closedToday,                  \* rows booked today
    kill, limit, tripping,        \* the switch, the limit, a company selected to trip
    paused, pausing,              \* is_paused, agents selected to be paused
    seenRun, iced,                \* losses in a row seen by _on_closed; iced since
    failures

closeVars == <<open, result, closing, step, closedToday>>
coolVars == <<streak, cooling, iced>>
pmVars == <<pmDue, pmToday, pmDay>>
breakerVars == <<kill, limit, tripping>>
pauseVars == <<paused, pausing>>
vars == <<closeVars, coolVars, seenRun, pmVars, breakerVars, pauseVars, failures>>

TypeOK ==
    /\ open \subseteq Trades /\ result \in [Trades -> Results \cup {0}]
    /\ closing \in Trades \cup {Nil} /\ step \in {"none", "streak", "ice"}
    /\ (closing = Nil) <=> (step = "none")
    /\ streak \in [Agents -> Nat]
    /\ cooling \subseteq Agents /\ paused \subseteq Agents /\ pausing \subseteq Agents
    /\ pmDue \subseteq Trades \ open
    /\ pmToday \subseteq pmDay /\ pmDay \subseteq Trades \ (open \cup pmDue)
    /\ closedToday \subseteq Trades \ open
    /\ kill \in BOOLEAN /\ tripping \in BOOLEAN /\ limit \in Limits \cup {Nil}
    /\ seenRun \in [Agents -> Nat]
    /\ iced \subseteq Agents
    /\ failures \in Nat

Init ==
    /\ open = Trades /\ result = [t \in Trades |-> 0]
    /\ closing = Nil /\ step = "none" /\ closedToday = {}
    /\ streak = [a \in Agents |-> 0] /\ cooling = {} /\ iced = {}
    /\ seenRun = [a \in Agents |-> 0]
    /\ pmDue = {} /\ pmToday = {} /\ pmDay = {}
    /\ kill = FALSE /\ limit \in Limits \cup {Nil} /\ tripping = FALSE
    /\ paused = {} /\ pausing = {}
    /\ failures = 0

Extended(run, a, p) == [run EXCEPT ![a] = IF p > 0 THEN 0 ELSE @ + 1]
LossOf(S) == -MapThenSumSet(LAMBDA t : result[t], S)

-----------------------------------------------------------------------------
(* Closes.                                                                 *)

\* Both UPDATEs that book a close ask for closed_at IS NULL; the mutant's do not.
MutantBook(t, p) ==
    /\ open' = open \ {t}
    /\ result' = [result EXCEPT ![t] = p]
    /\ closedToday' = closedToday \cup {t}

Book(t, p) ==
    /\ t \in open /\ open' = open \ {t}
    /\ result' = [result EXCEPT ![t] = p]
    /\ closedToday' = closedToday \cup {t}

\* _on_closed, whose calls the subscription runs one after the other: its UPDATE
\* books the close.
OnClosed(t, p) ==
    /\ closing = Nil /\ closing' = t /\ step' = "streak"
    /\ Book(t, p)
    /\ seenRun' = Extended(seenRun, AgentOf[t], p)
    /\ iced' = IF p > 0 THEN iced \ {AgentOf[t]} ELSE iced
    /\ UNCHANGED <<streak, cooling, pmVars, breakerVars, pauseVars, failures>>

\* The callback is over: spawn the postmortem.
Finish(t) == closing' = Nil /\ step' = "none" /\ pmDue' = pmDue \cup {t}

\* _apply_cooling_off, first statement: a win resets the streak, anything else
\* extends it.  The mutant does not reset.
MutantNextStreak(a, p) == IF p > 0 THEN streak[a] ELSE streak[a] + 1
NextStreak(a, p) == IF p > 0 THEN 0 ELSE streak[a] + 1

\* new_streak >= LOSS_STREAK_LIMIT.
EntersCoolingOff(n) == n >= LossStreakLimit

ApplyStreak ==
    LET a == AgentOf[closing]
        p == result[closing]
    IN  /\ step = "streak"
        /\ streak' = [streak EXCEPT ![a] = NextStreak(a, p)]
        /\ IF p <= 0 /\ EntersCoolingOff(NextStreak(a, p))
           THEN step' = "ice" /\ UNCHANGED <<closing, pmDue>>
           ELSE Finish(closing)
        /\ UNCHANGED <<open, result, closedToday, cooling, iced, seenRun, pmToday,
                       pmDay, breakerVars, pauseVars, failures>>

\* ... and second: set cooling_off_until, restart the count.
EnterCoolingOff ==
    LET a == AgentOf[closing]
    IN  /\ step = "ice"
        /\ cooling' = cooling \cup {a} /\ iced' = iced \cup {a}
        /\ streak' = [streak EXCEPT ![a] = 0]
        /\ Finish(closing)
        /\ UNCHANGED <<open, result, closedToday, seenRun, pmToday, pmDay,
                       breakerVars, pauseVars, failures>>

\* An exception or a restart in mid-callback: no postmortem is spawned.
OnClosedFails ==
    /\ closing # Nil /\ failures < MaxFailures /\ failures' = failures + 1
    /\ closing' = Nil /\ step' = "none"
    /\ UNCHANGED <<open, result, closedToday, coolVars, seenRun, pmVars,
                   breakerVars, pauseVars>>

\* close_intent books the close itself and spawns the postmortem; the event it
\* publishes finds the row closed and does nothing.  The mutant leaves the
\* postmortem to the event.
MutantSpawned(t) == pmDue
Spawned(t) == pmDue \cup {t}
CloseIntent(t, p) ==
    /\ Book(t, p) /\ pmDue' = Spawned(t)
    /\ UNCHANGED <<closing, step, coolVars, seenRun, pmToday, pmDay, breakerVars,
                   pauseVars, failures>>

CoolingOffEnds(a) ==
    /\ a \in cooling /\ cooling' = cooling \ {a}
    /\ UNCHANGED <<closeVars, streak, iced, seenRun, pmVars, breakerVars,
                   pauseVars, failures>>

\* postmortem.generate's INSERT, with generated_at = now().
WritePostmortem(t) ==
    /\ t \in pmDue /\ pmDue' = pmDue \ {t}
    /\ pmToday' = pmToday \cup {t} /\ pmDay' = pmDay \cup {t}
    /\ UNCHANGED <<closeVars, coolVars, seenRun, breakerVars, pauseVars, failures>>

PostmortemLost(t) ==
    /\ t \in pmDue /\ pmDue' = pmDue \ {t}
    /\ failures < MaxFailures /\ failures' = failures + 1
    /\ UNCHANGED <<closeVars, coolVars, seenRun, pmToday, pmDay, breakerVars, pauseVars>>

-----------------------------------------------------------------------------
(* The safety monitor: one task, each check a SELECT and then its UPDATEs. *)

MonitorIdle == ~tripping /\ pausing = {}

\* -pnl >= daily_loss_limit_usd over today's postmortems.
OverLimit == limit # Nil /\ LossOf(pmToday) >= limit

SelectCompany ==
    /\ MonitorIdle /\ ~kill /\ OverLimit
    /\ tripping' = TRUE
    /\ UNCHANGED <<closeVars, coolVars, seenRun, pmVars, kill, limit, pauseVars, failures>>

TripKillSwitch ==
    /\ tripping /\ tripping' = FALSE /\ kill' = TRUE
    /\ UNCHANGED <<closeVars, coolVars, seenRun, pmVars, limit, pauseVars, failures>>

\* The rolling 24 hours.
DrawdownWindow(a) == {t \in pmDay : AgentOf[t] = a}

SelectAgents ==
    LET S == {a \in Agents \ paused : LossOf(DrawdownWindow(a)) >= Drawdown}
    IN  /\ MonitorIdle /\ S # {}
        /\ pausing' = S
        /\ UNCHANGED <<closeVars, coolVars, seenRun, pmVars, breakerVars, paused, failures>>

PauseAgent(a) ==
    /\ a \in pausing /\ pausing' = pausing \ {a}
    /\ paused' = paused \cup {a}
    /\ UNCHANGED <<closeVars, coolVars, seenRun, pmVars, breakerVars, failures>>

-----------------------------------------------------------------------------
(* Admins and the clock.                                                   *)

SetKillSwitch(b) ==
    /\ kill' = b
    /\ UNCHANGED <<closeVars, coolVars, seenRun, pmVars, limit, tripping,
                   pauseVars, failures>>

SetLossLimit(v) ==
    /\ limit' = v
    /\ UNCHANGED <<closeVars, coolVars, seenRun, pmVars, kill, tripping,
                   pauseVars, failures>>

\* activate_agent and pause_agent.
SetAgentPaused(a, b) ==
    /\ paused' = IF b THEN paused \cup {a} ELSE paused \ {a}
    /\ UNCHANGED <<closeVars, coolVars, seenRun, pmVars, breakerVars, pausing, failures>>

Midnight ==
    /\ pmToday' = {} /\ closedToday' = {}
    /\ UNCHANGED <<open, result, closing, step, coolVars, seenRun, pmDue, pmDay,
                   breakerVars, pauseVars, failures>>

\* A postmortem is more than 24 hours old.
AgesOut(t) ==
    /\ t \in pmDay \ pmToday /\ pmDay' = pmDay \ {t}
    /\ UNCHANGED <<closeVars, coolVars, seenRun, pmDue, pmToday, breakerVars,
                   pauseVars, failures>>

-----------------------------------------------------------------------------
TradeStep(t) ==
    \/ \E p \in Results : OnClosed(t, p) \/ CloseIntent(t, p)
    \/ WritePostmortem(t) \/ PostmortemLost(t) \/ AgesOut(t)

ConsumerStep == ApplyStreak \/ EnterCoolingOff \/ OnClosedFails

MonitorStep == SelectCompany \/ TripKillSwitch \/ SelectAgents
               \/ \E a \in Agents : PauseAgent(a)

AdminStep ==
    \/ \E b \in BOOLEAN : SetKillSwitch(b) \/ \E a \in Agents : SetAgentPaused(a, b)
    \/ \E v \in Limits \cup {Nil} : SetLossLimit(v)

Next == ConsumerStep \/ MonitorStep \/ AdminStep \/ Midnight
        \/ (\E t \in Trades : TradeStep(t)) \/ (\E a \in Agents : CoolingOffEnds(a))

Spec == Init /\ [][Next]_vars

\* The monitor comes round every minute, tasks and callbacks run.  Admins,
\* users, closes and the clock are free.
Fairness ==
    /\ WF_vars(ApplyStreak) /\ WF_vars(EnterCoolingOff)
    /\ WF_vars(\E t \in Trades : WritePostmortem(t))
    /\ SF_vars(SelectCompany) /\ WF_vars(TripKillSwitch)
    /\ SF_vars(SelectAgents) /\ \A a \in Agents : WF_vars(PauseAgent(a))

FairSpec == Spec /\ Fairness

-----------------------------------------------------------------------------
\* An agent is put on ice only after a full streak of losses closed by the broker
\* with no win among them, and, outside the callback, never without: until a
\* callback fails, the count kept in the row over several of them agrees with the
\* closes themselves.
CoolingOffMatchesLosses ==
    failures = 0 => \A a \in Agents :
        /\ step = "ice" /\ AgentOf[closing] = a => seenRun[a] >= LossStreakLimit
        /\ closing = Nil => ((seenRun[a] >= LossStreakLimit) <=> (a \in iced))

\* The circuit breaker at work: when the postmortems of the day reach the limit
\* the switch is on in the end, unless the limit or the day changes first, even
\* with the loop's reading going stale before its UPDATE.
LimitReached == limit # Nil /\ -MapThenSumSet(LAMBDA t : result[t], pmToday) >= limit
BreakerTrips == LimitReached ~> (kill \/ ~LimitReached)

\* So does the auto-pause, on the rolling 24 hours of one agent.
DrawdownReached(a) ==
    -MapThenSumSet(LAMBDA t : result[t], {t \in pmDay : AgentOf[t] = a}) >= Drawdown
DrawdownPauses ==
    \A a \in Agents : DrawdownReached(a) ~> (a \in paused \/ ~DrawdownReached(a))

\* safety.py: "if today's realized loss exceeds the limit, flip
\* kill_switch_active".  The breaker counts the day's postmortems, not the day's
\* closes: losses booked today trip the switch unless a callback or a postmortem
\* failed, or one of an earlier close was written today.
BookedOverLimit == limit # Nil /\ LossOf(closedToday) >= limit
Faithful == failures = 0 /\ pmToday \subseteq closedToday
BookedLossTrips == BookedOverLimit /\ Faithful ~> kill \/ ~BookedOverLimit \/ ~Faithful

\* Losses stop trading: the company's those of a day, an agent's those of 24 hours,
\* though the monitor only sees postmortems and acts on readings that may be old.
LossesStopTrading == BreakerTrips /\ BookedLossTrips /\ DrawdownPauses
=============================================================================
