---------------------------- MODULE SafetyNetProofs ----------------------------
(***************************************************************************)
(* Machine-checked proofs about SafetyNet, for any agents, trades, results,*)
(* limits and loss streaks, and any number of failures.                    *)
(***************************************************************************)
EXTENDS SafetyNet, TLAPS

(***************************************************************************)
(* Type correctness.  That a postmortem is due, written or neither of the  *)
(* two needs that the row the consumer is at has none yet.                 *)
(***************************************************************************)
ClosingIsNew == closing # Nil => closing \notin open \cup pmDue \cup pmDay

TypeInv == TypeOK /\ ClosingIsNew

LEMMA TypeInit == Init => TypeInv
<1> SUFFICES ASSUME Init
             PROVE  TypeInv
  OBVIOUS
<1>1. kill \in BOOLEAN /\ tripping \in BOOLEAN
  BY Zenon DEF Init
<1>2. QED
  BY <1>1, SafetyConstants DEF Init, TypeInv, TypeOK, ClosingIsNew

LEMMA TypeTradeStep ==
  ASSUME TypeInv, NEW t \in Trades, TradeStep(t)
  PROVE  TypeInv'
<1> USE SafetyConstants DEF TypeInv, TypeOK, ClosingIsNew, closeVars, coolVars, pmVars,
      breakerVars, pauseVars
<1>1. ASSUME NEW p \in Results, OnClosed(t, p)
      PROVE  TypeInv'
  <2>1. seenRun' \in [Agents -> Nat]
    BY <1>1 DEF OnClosed, Extended
  <2>2. QED
    BY <1>1, <2>1 DEF OnClosed, Book
<1>2. ASSUME NEW p \in Results, CloseIntent(t, p)
      PROVE  TypeInv'
  BY <1>2 DEF CloseIntent, Book, Spawned
<1>3. CASE WritePostmortem(t)
  BY <1>3 DEF WritePostmortem
<1>4. CASE PostmortemLost(t)
  BY <1>4 DEF PostmortemLost
<1>5. CASE AgesOut(t)
  BY <1>5 DEF AgesOut
<1>6. QED
  BY <1>1, <1>2, <1>3, <1>4, <1>5 DEF TradeStep

LEMMA TypeConsumerStep ==
  ASSUME TypeInv, ConsumerStep
  PROVE  TypeInv'
<1> USE SafetyConstants DEF TypeInv, TypeOK, ClosingIsNew, closeVars, coolVars, pmVars,
      breakerVars, pauseVars
<1>1. CASE ApplyStreak
  <2>1. /\ closing \in Trades
        /\ streak' = [streak EXCEPT ![AgentOf[closing]] =
                        NextStreak(AgentOf[closing], result[closing])]
    BY <1>1 DEF ApplyStreak
  <2>2. streak' \in [Agents -> Nat]
    BY <2>1 DEF NextStreak
  <2>3. UNCHANGED <<open, result, closedToday, cooling, iced, seenRun, pmToday, pmDay,
                    breakerVars, pauseVars, failures>>
    BY <1>1 DEF ApplyStreak
  <2>4. \/ step' = "ice" /\ UNCHANGED <<closing, pmDue>>
        \/ closing' = Nil /\ step' = "none" /\ pmDue' = pmDue \cup {closing}
    BY <1>1 DEF ApplyStreak, Finish
  <2>5. QED
    BY <2>1, <2>2, <2>3, <2>4
<1>2. CASE EnterCoolingOff
  BY <1>2 DEF EnterCoolingOff, Finish
<1>3. CASE OnClosedFails
  BY <1>3 DEF OnClosedFails
<1>4. QED
  BY <1>1, <1>2, <1>3 DEF ConsumerStep

LEMMA TypeOtherStep ==
  ASSUME TypeInv,
         MonitorStep \/ AdminStep \/ Midnight \/ (\E a \in Agents : CoolingOffEnds(a))
           \/ UNCHANGED vars
  PROVE  TypeInv'
<1> USE DEF TypeInv, TypeOK, ClosingIsNew, closeVars, coolVars, pmVars, breakerVars, pauseVars
<1>1. CASE MonitorStep
  <2>1. kill' \in BOOLEAN /\ tripping' \in BOOLEAN
    BY <1>1, Zenon
    DEF MonitorStep, SelectCompany, TripKillSwitch, SelectAgents, PauseAgent
  <2>2. paused' \subseteq Agents /\ pausing' \subseteq Agents /\ limit' = limit
    BY <1>1 DEF MonitorStep, SelectCompany, TripKillSwitch, SelectAgents, PauseAgent
  <2>3. UNCHANGED <<closeVars, coolVars, seenRun, pmVars, failures>>
    BY <1>1 DEF MonitorStep, SelectCompany, TripKillSwitch, SelectAgents, PauseAgent
  <2>4. QED
    BY <2>1, <2>2, <2>3
<1>2. CASE AdminStep
  <2>1. kill' \in BOOLEAN /\ tripping' \in BOOLEAN
    <3>1. ASSUME NEW b \in BOOLEAN, SetKillSwitch(b)
          PROVE  kill' \in BOOLEAN /\ tripping' \in BOOLEAN
      BY <3>1, Zenon DEF SetKillSwitch
    <3>2. CASE UNCHANGED <<kill, tripping>>
      BY <3>2, Zenon
    <3>3. QED
      BY <1>2, <3>1, <3>2, Zenon DEF AdminStep, SetLossLimit, SetAgentPaused
  <2>2. paused' \subseteq Agents /\ pausing' \subseteq Agents /\ limit' \in Limits \cup {Nil}
    BY <1>2 DEF AdminStep, SetKillSwitch, SetLossLimit, SetAgentPaused
  <2>3. UNCHANGED <<closeVars, coolVars, seenRun, pmVars, failures>>
    BY <1>2 DEF AdminStep, SetKillSwitch, SetLossLimit, SetAgentPaused
  <2>4. QED
    BY <2>1, <2>2, <2>3
<1>3. CASE Midnight
  BY <1>3 DEF Midnight
<1>4. CASE \E a \in Agents : CoolingOffEnds(a)
  BY <1>4 DEF CoolingOffEnds
<1>5. CASE UNCHANGED vars
  BY <1>5 DEF vars
<1>6. QED
  BY <1>1, <1>2, <1>3, <1>4, <1>5

LEMMA TypeStep == TypeInv /\ [Next]_vars => TypeInv'
  BY TypeTradeStep, TypeConsumerStep, TypeOtherStep DEF Next

\* Every reachable state is well typed; in particular no postmortem is due again
\* once it is written, and none before its close.
THEOREM TypeCorrect == Spec => []TypeOK
<1>1. TypeInv => TypeOK
  BY DEF TypeInv
<1>2. QED
  BY TypeInit, TypeStep, <1>1, PTL DEF Spec

(***************************************************************************)
(* The cooling-off count.  The row's counter starts again when the agent is*)
(* put on ice, the run of losses does not; between two statements of the   *)
(* callback the counter is one close behind.                               *)
(***************************************************************************)
Pending(a) == closing # Nil /\ AgentOf[closing] = a

CountInv(a) ==
    /\ a \in iced => seenRun[a] >= LossStreakLimit
    /\ a \notin iced /\ ~Pending(a) =>
         seenRun[a] = streak[a] /\ seenRun[a] < LossStreakLimit
    /\ a \notin iced /\ Pending(a) /\ step = "streak" =>
         seenRun[a] = IF result[closing] > 0 THEN 0 ELSE streak[a] + 1
    /\ Pending(a) /\ step = "ice" => seenRun[a] >= LossStreakLimit

StreakInv == failures = 0 => \A a \in Agents : CountInv(a)

\* The steps that touch neither the callback nor its counts.
LEMMA CountFrame ==
  ASSUME TypeInv, StreakInv,
         UNCHANGED <<closing, step, streak, iced, seenRun, failures>>,
         closing # Nil => result'[closing] = result[closing]
  PROVE  StreakInv'
  BY DEF StreakInv, CountInv, Pending, TypeInv, TypeOK

LEMMA StreakTradeStep ==
  ASSUME TypeInv, StreakInv, NEW t \in Trades, TradeStep(t)
  PROVE  StreakInv'
<1> USE SafetyConstants DEF closeVars, coolVars, pmVars, breakerVars, pauseVars
<1>1. ASSUME NEW p \in Results, OnClosed(t, p)
      PROVE  StreakInv'
  <2> SUFFICES ASSUME failures = 0, NEW a \in Agents, CountInv(a)
               PROVE  CountInv(a)'
    BY <1>1 DEF StreakInv, OnClosed
  <2>1. /\ closing = Nil /\ closing' = t /\ step' = "streak" /\ result'[t] = p
        /\ seenRun' = Extended(seenRun, AgentOf[t], p)
        /\ iced' = IF p > 0 THEN iced \ {AgentOf[t]} ELSE iced
        /\ streak' = streak
    BY <1>1 DEF OnClosed, Book, TypeInv, TypeOK
  <2>2. CASE AgentOf[t] = a
    <3>1. p \in Int /\ seenRun'[a] = IF p > 0 THEN 0 ELSE seenRun[a] + 1
      BY <2>1, <2>2 DEF Extended, TypeInv, TypeOK
    <3>2. Pending(a)' /\ ~Pending(a)
      BY <2>1, <2>2 DEF Pending
    <3>3. seenRun[a] \in Nat /\ LossStreakLimit \in Nat
      BY DEF TypeInv, TypeOK
    <3>4. QED
      BY <2>1, <2>2, <3>1, <3>2, <3>3 DEF CountInv
  <2>3. CASE AgentOf[t] # a
    <3>1. seenRun'[a] = seenRun[a] /\ (a \in iced' <=> a \in iced)
      BY <2>1, <2>3 DEF Extended, TypeInv, TypeOK
    <3>2. ~Pending(a)' /\ ~Pending(a)
      BY <2>1, <2>3 DEF Pending
    <3>3. QED
      BY <2>1, <3>1, <3>2 DEF CountInv
  <2>4. QED
    BY <2>2, <2>3
<1>2. ASSUME NEW p \in Results, CloseIntent(t, p)
      PROVE  StreakInv'
  <2>1. closing # Nil => result'[closing] = result[closing]
    BY <1>2 DEF CloseIntent, Book, TypeInv, TypeOK, ClosingIsNew
  <2>2. QED
    BY <1>2, <2>1, CountFrame DEF CloseIntent
<1>3. CASE WritePostmortem(t) \/ AgesOut(t)
  BY <1>3, CountFrame DEF WritePostmortem, AgesOut
<1>4. CASE PostmortemLost(t)
  BY <1>4 DEF PostmortemLost, StreakInv, TypeInv, TypeOK
<1>5. QED
  BY <1>1, <1>2, <1>3, <1>4 DEF TradeStep

LEMMA StreakConsumerStep ==
  ASSUME TypeInv, StreakInv, ConsumerStep
  PROVE  StreakInv'
<1> USE SafetyConstants
<1>1. ASSUME ApplyStreak \/ EnterCoolingOff, failures = 0, NEW a \in Agents
      PROVE  CountInv(a)'
  <2> DEFINE b == AgentOf[closing]
             p == result[closing]
  <2>0. CountInv(a) /\ closing \in Trades /\ b \in Agents
    BY <1>1 DEF StreakInv, ApplyStreak, EnterCoolingOff, TypeInv, TypeOK
  <2>1. /\ seenRun[a] \in Nat /\ streak[a] \in Nat /\ p \in Int
        /\ LossStreakLimit \in Nat /\ seenRun' = seenRun
    <3>1. result[closing] \in Results \cup {0}
      BY <2>0 DEF TypeInv, TypeOK
    <3>2. p \in Int /\ LossStreakLimit \in Nat
      <4>1. Results \subseteq Int /\ 0 \in Int
        BY SafetyConstants
      <4>2. Results \cup {0} \subseteq Int
        BY <4>1
      <4>3. QED
        BY <3>1, <4>2
    <3>3. seenRun[a] \in Nat /\ streak[a] \in Nat
      BY <1>1 DEF TypeInv, TypeOK
    <3>4. seenRun' = seenRun
      BY <1>1 DEF ApplyStreak, EnterCoolingOff
    <3>5. QED
      BY <3>2, <3>3, <3>4
  <2>2. CASE a = b
    <3>1. CASE ApplyStreak
      <4>1. /\ step = "streak" /\ Pending(a) /\ iced' = iced /\ UNCHANGED result
            /\ streak'[a] = IF p > 0 THEN 0 ELSE streak[a] + 1
        BY <2>0, <2>2, <3>1 DEF ApplyStreak, NextStreak, Pending, TypeInv, TypeOK
      <4>2. CASE p <= 0 /\ streak'[a] >= LossStreakLimit
        <5>1. step' = "ice" /\ closing' = closing
          BY <2>0, <2>1, <2>2, <3>1, <4>1, <4>2
          DEF ApplyStreak, NextStreak, EntersCoolingOff
        <5>2. QED
          BY <2>0, <2>1, <2>2, <4>1, <4>2, <5>1 DEF CountInv, Pending
      <4>3. CASE ~(p <= 0 /\ streak'[a] >= LossStreakLimit)
        <5>1. closing' = Nil
          BY <2>0, <2>1, <2>2, <3>1, <4>1, <4>3
          DEF ApplyStreak, NextStreak, EntersCoolingOff, Finish
        <5>2. QED
          BY <2>0, <2>1, <2>2, <4>1, <4>3, <5>1 DEF CountInv, Pending
      <4>4. QED
        BY <4>2, <4>3
    <3>2. CASE EnterCoolingOff
      <4>1. step = "ice" /\ Pending(a) /\ a \in iced' /\ closing' = Nil
        BY <2>0, <2>2, <3>2 DEF EnterCoolingOff, Finish, Pending
      <4>2. QED
        BY <2>0, <2>1, <4>1 DEF CountInv, Pending
    <3>3. QED
      BY <1>1, <3>1, <3>2
  <2>3. CASE a # b
    <3>1. /\ streak'[a] = streak[a] /\ (a \in iced' <=> a \in iced)
          /\ closing' \in {closing, Nil}
      BY <1>1, <2>0, <2>3 DEF ApplyStreak, EnterCoolingOff, Finish, TypeInv, TypeOK
    <3>2. ~Pending(a) /\ ~Pending(a)'
      BY <2>3, <3>1 DEF Pending
    <3>3. QED
      BY <2>0, <2>1, <3>1, <3>2 DEF CountInv
  <2>4. QED
    BY <2>2, <2>3
<1>2. CASE OnClosedFails
  BY <1>2 DEF OnClosedFails, StreakInv, TypeInv, TypeOK
<1>3. CASE ApplyStreak \/ EnterCoolingOff
  BY <1>1, <1>3 DEF StreakInv, ApplyStreak, EnterCoolingOff
<1>4. QED
  BY <1>2, <1>3 DEF ConsumerStep

LEMMA StreakStep == TypeInv /\ StreakInv /\ [Next]_vars => StreakInv'
<1> SUFFICES ASSUME TypeInv, StreakInv, [Next]_vars
             PROVE  StreakInv'
  OBVIOUS
<1>1. CASE UNCHANGED <<closing, step, result, streak, iced, seenRun, failures>>
  BY <1>1, CountFrame
<1>2. CASE MonitorStep \/ AdminStep \/ Midnight \/ (\E a \in Agents : CoolingOffEnds(a))
  BY <1>1, <1>2
  DEF MonitorStep, SelectCompany, TripKillSwitch, SelectAgents, PauseAgent, AdminStep,
      SetKillSwitch, SetLossLimit, SetAgentPaused, Midnight, CoolingOffEnds, closeVars, coolVars
<1>3. CASE UNCHANGED vars
  BY <1>1, <1>3 DEF vars, closeVars, coolVars
<1>4. QED
  BY <1>2, <1>3, StreakTradeStep, StreakConsumerStep DEF Next

\* Until a callback fails, the count kept over several statements agrees with the
\* closes: an agent goes on ice exactly when the broker closed a full streak of its
\* trades at a loss, however the manual closes, the monitor and the admins interleave.
THEOREM CoolingOffIsRight == Spec => []CoolingOffMatchesLosses
<1>1. Init => StreakInv
  BY SafetyConstants DEF Init, StreakInv, CountInv, Pending
<1>2. TypeInv /\ StreakInv => CoolingOffMatchesLosses
  BY SafetyConstants DEF TypeInv, TypeOK, StreakInv, CountInv, Pending, CoolingOffMatchesLosses
<1>3. QED
  BY TypeInit, TypeStep, StreakStep, <1>1, <1>2, PTL DEF Spec
=============================================================================
