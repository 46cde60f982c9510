--------------------------- MODULE MoneyRulesProofs ---------------------------
(***************************************************************************)
(* Machine-checked proofs about the two computations that guard the money: *)
(* RiskGate, for any handlers, intents, assets, stakes, allocations, caps  *)
(* and days, and ProfitSweep, for any employees, allocations, profits and  *)
(* number of edits.                                                        *)
(***************************************************************************)
EXTENDS RiskGate, ProfitSweep, SetLemmas

(***************************************************************************)
(* Type correctness.                                                       *)
(***************************************************************************)

\* A stake that leaves the sizing is one the broker takes.
LEMMA SizingBounds ==
  ASSUME NEW s \in Nat, NEW t \in {CappedStake(s), HalvedStake(CappedStake(s))}
  PROVE  t \in MinStake .. MaxStake
<1>1. CappedStake(s) \in MinStake .. MaxStake
  BY RiskConstants DEF CappedStake, Larger, Smaller
<1>2. HalvedStake(CappedStake(s)) \in MinStake .. MaxStake
  BY <1>1, RiskConstants DEF HalvedStake, Larger
<1>3. QED
  BY <1>1, <1>2

LEMMA TypeInit == Init => TypeOK
<1> SUFFICES ASSUME Init
             PROVE  TypeOK
  OBVIOUS
<1>1. paused \in BOOLEAN /\ kill \in BOOLEAN
  BY Zenon DEF Init
<1>2. QED
  BY <1>1, RiskConstants DEF Init, TypeOK, Status

LEMMA TypeHandlerStep ==
  ASSUME TypeOK, NEW h \in Handlers, HandlerStep(h)
  PROVE  TypeOK'
<1> USE DEF TypeOK, Status, rows, settings, locals
<1>1. ASSUME NEW x \in Assets, NEW s \in Stakes, ReadAgent(h, x, s)
      PROVE  TypeOK'
  <2>1. s \in Nat
    BY RiskConstants
  <2>2. PICK t \in {CappedStake(s), HalvedStake(CappedStake(s))} :
            hStake' = [hStake EXCEPT ![h] = t]
    BY <1>1 DEF ReadAgent
  <2>3. t \in MinStake .. MaxStake
    BY <2>1, <2>2, SizingBounds
  <2>4. today \in Nat /\ allocation \in Nat
    BY RiskConstants
  <2>5. QED
    BY <1>1, <2>2, <2>3, <2>4 DEF ReadAgent
<1>2. CASE ReadCompany(h)
  BY <1>2 DEF ReadCompany
<1>3. CASE ReadBook(h)
  BY <1>3 DEF ReadBook
<1>4. CASE Rejected(h)
  BY <1>4 DEF Rejected, Forget
<1>5. ASSUME NEW i \in Intents, InsertIntent(h, i)
      PROVE  TypeOK'
  <2>1. PICK s \in {"pending_approval", "approved"} :
            status' = [status EXCEPT ![i] = s]
    BY <1>5 DEF InsertIntent
  <2>2. underKill' \subseteq Intents
    BY <1>5 DEF InsertIntent
  <2>3. QED
    BY <1>5, <2>1, <2>2 DEF InsertIntent, Forget
<1>6. QED
  BY <1>1, <1>2, <1>3, <1>4, <1>5 DEF HandlerStep

LEMMA TypeRowStep ==
  ASSUME TypeOK, NEW i \in Intents, RowStep(i)
  PROVE  TypeOK'
  BY DEF RowStep, ApproveIntent, DeclineIntent, ExecuteIntent, CloseTrade, SetStatus,
         TypeOK, Status, settings, locals

LEMMA TypeAdminStep ==
  ASSUME TypeOK, AdminStep
  PROVE  TypeOK'
<1> USE DEF TypeOK, rows, locals
<1>1. ASSUME NEW v \in Allocations, SetAllocation(v)
      PROVE  TypeOK'
  BY <1>1 DEF SetAllocation
<1>2. ASSUME NEW b \in BOOLEAN, SetPaused(b)
      PROVE  TypeOK'
  <2>1. paused' \in BOOLEAN
    BY <1>2, Zenon DEF SetPaused
  <2>2. QED
    BY <1>2, <2>1 DEF SetPaused
<1>3. ASSUME NEW b \in BOOLEAN, SetKillSwitch(b)
      PROVE  TypeOK'
  <2>1. kill' \in BOOLEAN
    BY <1>3, Zenon DEF SetKillSwitch
  <2>2. underKill' \subseteq Intents
    BY <1>3 DEF SetKillSwitch
  <2>3. QED
    BY <1>3, <2>1, <2>2 DEF SetKillSwitch
<1>4. QED
  BY <1>1, <1>2, <1>3 DEF AdminStep

LEMMA TypeStep == TypeOK /\ [Next]_vars => TypeOK'
<1> SUFFICES ASSUME TypeOK, [Next]_vars
             PROVE  TypeOK'
  OBVIOUS
<1>1. CASE Midnight
  BY <1>1 DEF Midnight, TypeOK, rows, locals
<1>2. CASE UNCHANGED vars
  BY <1>2 DEF vars, rows, settings, locals, TypeOK
<1>3. QED
  BY <1>1, <1>2, TypeHandlerStep, TypeRowStep, TypeAdminStep DEF Next

\* Every reachable state is well typed; an inserted stake is within the broker's
\* minimum and maximum.
THEOREM TypeCorrect == Spec => []TypeOK
  BY TypeInit, TypeStep, PTL DEF Spec

(***************************************************************************)
(* The checks are right when they are not raced.  With one handler the     *)
(* positions can only shrink between its read of the book and its insert.  *)
(***************************************************************************)
Serial == \A g, h \in Handlers : g = h

BookStillHolds ==
    \A h \in Handlers : pc[h] = "book" => \A i \in Positions : asset[i] # hAsset[h]

SerialInv == TypeOK /\ OneOpenPerAsset /\ BookStillHolds

LEMMA SerialInit == Init => SerialInv
  BY TypeInit DEF Init, SerialInv, OneOpenPerAsset, BookStillHolds, Positions

\* Rows that only lose positions, under a handler that is not at its insert or
\* has not moved.
LEMMA ShrinkStep ==
  ASSUME SerialInv, TypeOK',
         Positions' \subseteq Positions, UNCHANGED asset,
         \A h \in Handlers : pc'[h] = "book" => pc[h] = "book" /\ hAsset'[h] = hAsset[h]
  PROVE  SerialInv'
  BY DEF SerialInv, OneOpenPerAsset, BookStillHolds

LEMMA SerialHandlerStep ==
  ASSUME Serial, SerialInv, NEW h \in Handlers, HandlerStep(h)
  PROVE  SerialInv'
<1>0. TypeOK /\ TypeOK'
  BY TypeHandlerStep DEF SerialInv
<1>1. ASSUME NEW x \in Assets, NEW s \in Stakes, ReadAgent(h, x, s)
      PROVE  SerialInv'
  <2>1. Positions' = Positions /\ UNCHANGED asset
    BY <1>1 DEF ReadAgent, rows, Positions
  <2>2. pc' = [pc EXCEPT ![h] = "agent"] /\ hAsset' = [hAsset EXCEPT ![h] = x]
    BY <1>1 DEF ReadAgent
  <2>3. QED
    BY <1>0, <2>1, <2>2, ShrinkStep DEF TypeOK
<1>2. CASE ReadCompany(h)
  <2>1. Positions' = Positions /\ UNCHANGED <<asset, hAsset>>
    BY <1>2 DEF ReadCompany, rows, locals, Positions
  <2>2. pc' = [pc EXCEPT ![h] = "company"]
    BY <1>2 DEF ReadCompany
  <2>3. QED
    BY <1>0, <2>1, <2>2, ShrinkStep DEF TypeOK
<1>3. CASE ReadBook(h)
  <2>1. Positions' = Positions /\ UNCHANGED <<asset, hAsset>>
    BY <1>3 DEF ReadBook, rows, locals, Positions
  <2>2. \A i \in Positions : asset[i] # hAsset[h]
    BY <1>3 DEF ReadBook, OpenClaims, Positions
  <2>3. BookStillHolds'
    BY <2>1, <2>2 DEF BookStillHolds, Serial
  <2>4. OneOpenPerAsset'
    BY <2>1 DEF SerialInv, OneOpenPerAsset
  <2>5. QED
    BY <1>0, <2>3, <2>4 DEF SerialInv
<1>4. CASE Rejected(h)
  <2>1. Positions' = Positions /\ UNCHANGED asset
    BY <1>4 DEF Rejected, rows, Positions
  <2>2. pc' = [pc EXCEPT ![h] = "idle"] /\ hAsset' = [hAsset EXCEPT ![h] = Nil]
    BY <1>4 DEF Rejected, Forget
  <2>3. QED
    BY <1>0, <2>1, <2>2, ShrinkStep DEF TypeOK
<1>5. ASSUME NEW i \in Intents, InsertIntent(h, i)
      PROVE  SerialInv'
  <2>1. /\ pc[h] = "book" /\ status[i] = "none"
        /\ asset' = [asset EXCEPT ![i] = hAsset[h]]
        /\ pc' = [pc EXCEPT ![h] = "idle"]
    BY <1>5 DEF InsertIntent, Forget
  <2>2. PICK s \in {"pending_approval", "approved"} :
            status' = [status EXCEPT ![i] = s]
    BY <1>5 DEF InsertIntent
  <2>3. /\ Positions' = Positions \cup {i} /\ i \notin Positions
        /\ \A j \in Positions : asset'[j] = asset[j] /\ asset[j] # hAsset[h]
        /\ asset'[i] = hAsset[h]
    BY <1>0, <2>1, <2>2 DEF Positions, TypeOK, SerialInv, BookStillHolds
  <2>4. OneOpenPerAsset'
    BY <2>3 DEF SerialInv, OneOpenPerAsset
  <2>5. BookStillHolds'
    BY <1>0, <2>1 DEF BookStillHolds, Serial, TypeOK
  <2>6. QED
    BY <1>0, <2>4, <2>5 DEF SerialInv
<1>6. QED
  BY <1>1, <1>2, <1>3, <1>4, <1>5 DEF HandlerStep

LEMMA SerialStep == Serial /\ SerialInv /\ [Next]_vars => SerialInv'
<1> SUFFICES ASSUME Serial, SerialInv, [Next]_vars
             PROVE  SerialInv'
  OBVIOUS
<1>0. TypeOK /\ TypeOK'
  BY TypeStep DEF SerialInv
<1>1. ASSUME NEW i \in Intents, RowStep(i)
      PROVE  SerialInv'
  <2>1. /\ UNCHANGED <<asset, pc, hAsset>>
        /\ \E t \in Status : status' = [status EXCEPT ![i] = t]
        /\ status'[i] \in {"approved", "executed"} => i \in Positions
    BY <1>0, <1>1
    DEF RowStep, ApproveIntent, DeclineIntent, ExecuteIntent, CloseTrade, SetStatus,
        TypeOK, Positions, Status, locals
  <2>2. status'[i] # "pending_approval"
    BY <1>0, <1>1
    DEF RowStep, ApproveIntent, DeclineIntent, ExecuteIntent, CloseTrade, SetStatus, TypeOK
  <2>3. PICK t \in Status : status' = [status EXCEPT ![i] = t]
    BY <2>1
  <2>4. Positions' \subseteq Positions
    BY <1>0, <2>1, <2>2, <2>3 DEF Positions, TypeOK
  <2>5. QED
    BY <1>0, <2>1, <2>4, ShrinkStep
<1>2. CASE AdminStep \/ Midnight \/ UNCHANGED vars
  <2>1. UNCHANGED <<status, asset, pc, hAsset>>
    BY <1>2
    DEF AdminStep, SetAllocation, SetPaused, SetKillSwitch, Midnight, vars, rows, locals
  <2>2. Positions' = Positions
    BY <2>1 DEF Positions
  <2>3. QED
    BY <1>0, <2>1, <2>2, ShrinkStep
<1>3. QED
  BY <1>1, <1>2, SerialHandlerStep DEF Next

\* The check for an open position is right as long as one handler at a time runs
\* it: the overlaps the concurrent handlers produce come from the missing lock
\* and from nothing else.
THEOREM SerialHandlersNeverOverlap ==
  ASSUME Serial
  PROVE  Spec => []OneOpenPerAsset
<1>1. SerialInv /\ [Next]_vars => SerialInv'
  BY SerialStep
<1>2. SerialInv => OneOpenPerAsset
  BY DEF SerialInv
<1>3. QED
  BY SerialInit, <1>1, <1>2, PTL DEF Spec

(***************************************************************************)
(* The limits under concurrent handlers.  A handler that passed the gate   *)
(* is as good as its row: what the limits bound is the rows together with  *)
(* the handlers between the gate and their insert, and a handler passes    *)
(* the gate only when the rows alone are below the limit.                  *)
(***************************************************************************)
AtBook == {h \in Handlers : pc[h] = "book"}
PastKill == {h \in Handlers : pc[h] \in {"company", "book"}}
Counted == {i \in Intents : status[i] \notin {"none", "declined"}}
LargestStake == Larger(MinStake, Smaller(MaxPosition, MaxStake))

OverlapInv == \A x \in Assets :
    Cardinality({i \in Positions : asset[i] = x})
      + Cardinality({h \in AtBook : hAsset[h] = x}) <= Cardinality(Handlers)

PerDayInv == \A d \in Days :
    Cardinality({i \in Counted : day[i] = d}) + Cardinality({h \in AtBook : hDay[h] = d})
      <= DailyCap + Others

KillInv ==
    /\ ~kill => underKill = {}
    /\ Cardinality(underKill) + Cardinality(PastKill) <= Cardinality(Handlers)

LocalsInv == \A h \in Handlers :
    /\ hStake[h] <= LargestStake
    /\ pc[h] # "idle" => hAlloc[h] \in Allocations

CommitInv == \E v \in Allocations :
    SumOver(stake, Positions) + SumOver(hStake, AtBook) <= v + Others * LargestStake

LimitsInv == TypeOK /\ OverlapInv /\ PerDayInv /\ KillInv /\ LocalsInv /\ CommitInv

LEMMA HandlersAndRows ==
  /\ Cardinality(Handlers) \in Nat \ {0} /\ Others \in Nat /\ LargestStake \in Nat
  /\ \A B \in SUBSET Handlers : IsFiniteSet(B) /\ Cardinality(B) \in Nat
                                /\ Cardinality(B) <= Cardinality(Handlers)
  /\ \A P \in SUBSET Intents : IsFiniteSet(P) /\ Cardinality(P) \in Nat
<1>1. Cardinality(Handlers) \in Nat \ {0}
  BY RiskConstants, FS_CardinalityType, FS_EmptySet
<1>2. Others \in Nat
  BY <1>1 DEF Others
<1>3. LargestStake \in Nat
  BY RiskConstants DEF LargestStake, Larger, Smaller
<1>4. QED
  BY <1>1, <1>2, <1>3, RiskConstants, FS_Subset, FS_CardinalityType

\* Rows and handlers counted together: neither grows; or one handler becomes a row;
\* or one more handler comes while the rows are few.
LEMMA CountShrinks ==
  ASSUME NEW P \in SUBSET Intents, NEW B \in SUBSET Handlers, NEW n \in Nat,
         Cardinality(P) + Cardinality(B) <= n, NEW Q \in SUBSET P, NEW C \in SUBSET B
  PROVE  Cardinality(Q) + Cardinality(C) <= n
<1>1. Cardinality(Q) <= Cardinality(P) /\ Cardinality(C) <= Cardinality(B)
  BY HandlersAndRows, FS_Subset
<1>2. /\ Cardinality(Q) \in Nat /\ Cardinality(P) \in Nat
      /\ Cardinality(C) \in Nat /\ Cardinality(B) \in Nat
  BY HandlersAndRows
<1>3. QED
  BY <1>1, <1>2

LEMMA CountMoves ==
  ASSUME NEW P \in SUBSET Intents, NEW B \in SUBSET Handlers, NEW n \in Nat,
         Cardinality(P) + Cardinality(B) <= n,
         NEW i \in Intents, NEW h \in B
  PROVE  Cardinality(P \cup {i}) + Cardinality(B \ {h}) <= n
<1>1. IsFiniteSet(P) /\ IsFiniteSet(B) /\ Cardinality(P) \in Nat /\ Cardinality(B) \in Nat
  BY HandlersAndRows
<1>2. Cardinality(P \cup {i}) = IF i \in P THEN Cardinality(P) ELSE Cardinality(P) + 1
  BY <1>1, FS_AddElement
<1>3. Cardinality(B \ {h}) = Cardinality(B) - 1
  BY <1>1, FS_RemoveElement
<1>4. QED
  BY <1>1, <1>2, <1>3

\* What a step other than passing the gate and inserting does to the counted sets:
\* rows leave them, handlers leave the insert point, and nothing else moves.
Quiet ==
    /\ UNCHANGED <<asset, stake, day>>
    /\ Positions' \subseteq Positions /\ Counted' \subseteq Counted
    /\ \A h \in AtBook' : /\ h \in AtBook /\ hAsset'[h] = hAsset[h]
                          /\ hDay'[h] = hDay[h] /\ hStake'[h] = hStake[h]

LEMMA QuietHandler ==
  ASSUME TypeOK, NEW h \in Handlers,
         \/ \E x \in Assets, s \in Stakes : ReadAgent(h, x, s)
         \/ ReadCompany(h) \/ Rejected(h)
  PROVE  Quiet /\ UNCHANGED underKill
<1> USE DEF rows, locals, TypeOK, Quiet, AtBook, Positions, Counted
<1>1. ASSUME NEW x \in Assets, NEW s \in Stakes, ReadAgent(h, x, s)
      PROVE  Quiet /\ UNCHANGED underKill
  <2>1. PICK t : hStake' = [hStake EXCEPT ![h] = t]
    BY <1>1 DEF ReadAgent
  <2>2. QED
    BY <1>1, <2>1 DEF ReadAgent
<1>2. CASE ReadCompany(h)
  BY <1>2 DEF ReadCompany
<1>3. CASE Rejected(h)
  BY <1>3 DEF Rejected, Forget
<1>4. QED
  BY <1>1, <1>2, <1>3

LEMMA QuietWorld ==
  ASSUME TypeOK, (\E i \in Intents : RowStep(i)) \/ AdminStep \/ Midnight \/ UNCHANGED vars
  PROVE  Quiet /\ UNCHANGED <<pc, locals>>
<1> USE DEF rows, settings, locals, TypeOK, Quiet, AtBook, Positions, Counted
<1>1. ASSUME NEW i \in Intents, RowStep(i)
      PROVE  Quiet /\ UNCHANGED <<pc, locals>>
  BY <1>1 DEF RowStep, ApproveIntent, DeclineIntent, ExecuteIntent, CloseTrade, SetStatus
<1>2. CASE AdminStep
  BY <1>2 DEF AdminStep, SetAllocation, SetPaused, SetKillSwitch
<1>3. CASE Midnight
  BY <1>3 DEF Midnight
<1>4. CASE UNCHANGED vars
  BY <1>4 DEF vars
<1>5. QED
  BY <1>1, <1>2, <1>3, <1>4

\* What an insert does to them.
LEMMA InsertMoves ==
  ASSUME TypeOK, NEW h \in Handlers, NEW i \in Intents, InsertIntent(h, i)
  PROVE  /\ h \in AtBook /\ i \notin Positions /\ i \notin Counted
         /\ Positions' = Positions \cup {i} /\ Counted' = Counted \cup {i}
         /\ AtBook' = AtBook \ {h} /\ PastKill' = PastKill \ {h}
         /\ asset' = [asset EXCEPT ![i] = hAsset[h]] /\ day' = [day EXCEPT ![i] = hDay[h]]
         /\ stake' = [stake EXCEPT ![i] = hStake[h]]
         /\ \A g \in Handlers \ {h} : /\ hAsset'[g] = hAsset[g] /\ hDay'[g] = hDay[g]
                                      /\ hStake'[g] = hStake[g]
<1>1. PICK s \in {"pending_approval", "approved"} : status' = [status EXCEPT ![i] = s]
  BY DEF InsertIntent
<1>2. QED
  BY <1>1 DEF InsertIntent, Forget, TypeOK, AtBook, PastKill, Positions, Counted

LEMMA OverlapStep ==
  ASSUME TypeOK, TypeOK', OverlapInv, [Next]_vars
  PROVE  OverlapInv'
<1> SUFFICES ASSUME NEW x \in Assets
             PROVE  Cardinality({i \in Positions : asset[i] = x}')
                      + Cardinality({h \in AtBook : hAsset[h] = x}') <= Cardinality(Handlers)
  BY DEF OverlapInv
<1> DEFINE P == {i \in Positions : asset[i] = x}
           B == {h \in AtBook : hAsset[h] = x}
<1>1. /\ P \in SUBSET Intents /\ B \in SUBSET Handlers
      /\ P' \in SUBSET Intents /\ B' \in SUBSET Handlers
      /\ Cardinality(P) + Cardinality(B) <= Cardinality(Handlers)
      /\ Cardinality(Handlers) \in Nat
  BY HandlersAndRows DEF OverlapInv, Positions, AtBook
<1>2. ASSUME Quiet
      PROVE  Cardinality(P') + Cardinality(B') <= Cardinality(Handlers)
  <2>1. P' \in SUBSET P /\ B' \in SUBSET B
    BY <1>2 DEF Quiet
  <2> HIDE DEF P, B
  <2>2. QED
    BY <1>1, <2>1, CountShrinks
<1>3. ASSUME NEW h \in Handlers, ReadBook(h)
      PROVE  Cardinality(P') + Cardinality(B') <= Cardinality(Handlers)
  <2>1. Positions' = Positions /\ UNCHANGED <<asset, hAsset>> /\ AtBook' = AtBook \cup {h}
    BY <1>3 DEF ReadBook, rows, locals, Positions, AtBook, TypeOK
  <2>2. CASE hAsset[h] = x
    <3>1. P' = {}
      BY <1>3, <2>1, <2>2 DEF ReadBook, Positions, OpenClaims
    <3> HIDE DEF P, B
    <3>2. Cardinality(B') \in Nat /\ Cardinality(B') <= Cardinality(Handlers)
      BY <1>1, HandlersAndRows
    <3>3. QED
      BY <1>1, <3>1, <3>2, FS_EmptySet
  <2>3. CASE hAsset[h] # x
    <3>1. P' = P /\ B' = B
      BY <2>1, <2>3
    <3> HIDE DEF P, B
    <3>2. QED
      BY <1>1, <3>1
  <2>4. QED
    BY <2>2, <2>3
<1>4. ASSUME NEW h \in Handlers, NEW i \in Intents, InsertIntent(h, i)
      PROVE  Cardinality(P') + Cardinality(B') <= Cardinality(Handlers)
  <2>1. /\ h \in AtBook /\ i \notin Positions /\ Positions' = Positions \cup {i}
        /\ AtBook' = AtBook \ {h} /\ asset' = [asset EXCEPT ![i] = hAsset[h]]
        /\ \A g \in Handlers \ {h} : hAsset'[g] = hAsset[g]
    BY <1>4, InsertMoves
  <2>2. CASE hAsset[h] = x
    <3>1. P' = P \cup {i} /\ B' = B \ {h} /\ h \in B
      BY <2>1, <2>2 DEF TypeOK, Positions, AtBook
    <3> HIDE DEF P, B
    <3>2. QED
      BY <1>1, <3>1, CountMoves
  <2>3. CASE hAsset[h] # x
    <3>1. P' = P /\ B' = B
      BY <2>1, <2>3 DEF TypeOK, Positions, AtBook
    <3> HIDE DEF P, B
    <3>2. QED
      BY <1>1, <3>1
  <2>4. QED
    BY <2>2, <2>3
<1>5. QED
  BY <1>2, <1>3, <1>4, QuietHandler, QuietWorld DEF Next, HandlerStep

LEMMA PerDayStep ==
  ASSUME TypeOK, TypeOK', PerDayInv, [Next]_vars
  PROVE  PerDayInv'
<1> SUFFICES ASSUME NEW d \in Days
             PROVE  Cardinality({i \in Counted : day[i] = d}')
                      + Cardinality({h \in AtBook : hDay[h] = d}') <= DailyCap + Others
  BY DEF PerDayInv, Others
<1> DEFINE P == {i \in Counted : day[i] = d}
           B == {h \in AtBook : hDay[h] = d}
           limit == DailyCap + Others
<1>1. /\ P \in SUBSET Intents /\ B \in SUBSET Handlers
      /\ P' \in SUBSET Intents /\ B' \in SUBSET Handlers
      /\ Cardinality(P) + Cardinality(B) <= limit
  BY DEF PerDayInv, Counted, AtBook
<1>2. limit \in Nat
  BY HandlersAndRows, RiskConstants
<1>3. ASSUME Quiet
      PROVE  Cardinality(P') + Cardinality(B') <= limit
  <2>1. P' \in SUBSET P /\ B' \in SUBSET B
    BY <1>3 DEF Quiet
  <2> HIDE DEF P, B, limit
  <2>2. QED
    BY <1>1, <1>2, <2>1, CountShrinks
<1>4. ASSUME NEW h \in Handlers, ReadBook(h)
      PROVE  Cardinality(P') + Cardinality(B') <= limit
  <2>1. /\ Counted' = Counted /\ Positions' = Positions /\ UNCHANGED <<day, hDay>>
        /\ AtBook' = AtBook \cup {h}
    BY <1>4 DEF ReadBook, rows, locals, Counted, Positions, AtBook, TypeOK
  <2>2. CASE hDay[h] = d
    <3> DEFINE used == {i \in Intents : day[i] >= d /\
                    status[i] \in {"pending_approval", "approved", "executed", "closed"}}
    <3>1. P' \in SUBSET used
      <4>1. d \in Nat
        BY RiskConstants
      <4>2. QED
        BY <2>1, <4>1 DEF Counted, TypeOK, Status
    <3>2. used \in SUBSET Intents /\ Cardinality(used) < DailyCap
      BY <1>4, <2>2 DEF ReadBook, UsedSince
    <3> HIDE DEF P, B, used
    <3>3. Cardinality(P') <= Cardinality(used)
      BY <3>1, <3>2, HandlersAndRows, FS_Subset
    <3>4. /\ Cardinality(P') \in Nat /\ Cardinality(used) \in Nat /\ Cardinality(B') \in Nat
          /\ Cardinality(B') <= Cardinality(Handlers) /\ Cardinality(Handlers) \in Nat
      BY <1>1, <3>2, HandlersAndRows
    <3>5. QED
      BY <3>2, <3>3, <3>4, RiskConstants DEF Others
  <2>3. CASE hDay[h] # d
    <3>1. P' = P /\ B' = B
      BY <2>1, <2>3
    <3> HIDE DEF P, B
    <3>2. QED
      BY <1>1, <3>1
  <2>4. QED
    BY <2>2, <2>3
<1>5. ASSUME NEW h \in Handlers, NEW i \in Intents, InsertIntent(h, i)
      PROVE  Cardinality(P') + Cardinality(B') <= limit
  <2>1. /\ h \in AtBook /\ i \notin Counted /\ Counted' = Counted \cup {i}
        /\ AtBook' = AtBook \ {h} /\ day' = [day EXCEPT ![i] = hDay[h]]
        /\ \A g \in Handlers \ {h} : hDay'[g] = hDay[g]
    BY <1>5, InsertMoves
  <2>2. CASE hDay[h] = d
    <3>1. P' = P \cup {i} /\ B' = B \ {h} /\ h \in B
      BY <2>1, <2>2 DEF TypeOK, Counted, AtBook
    <3> HIDE DEF P, B, limit
    <3>2. QED
      BY <1>1, <1>2, <3>1, CountMoves
  <2>3. CASE hDay[h] # d
    <3>1. P' = P /\ B' = B
      BY <2>1, <2>3 DEF TypeOK, Counted, AtBook
    <3> HIDE DEF P, B
    <3>2. QED
      BY <1>1, <3>1
  <2>4. QED
    BY <2>2, <2>3
<1>6. QED
  BY <1>3, <1>4, <1>5, QuietHandler, QuietWorld DEF Next, HandlerStep

LEMMA KillStep ==
  ASSUME TypeOK, TypeOK', KillInv, [Next]_vars
  PROVE  KillInv'
<1> USE DEF rows, settings, locals
<1> DEFINE n == Cardinality(Handlers)
<1>1. /\ underKill \in SUBSET Intents /\ PastKill \in SUBSET Handlers
      /\ underKill' \in SUBSET Intents /\ PastKill' \in SUBSET Handlers /\ n \in Nat
  BY HandlersAndRows DEF TypeOK, PastKill
<1>2. ASSUME underKill' \in SUBSET underKill, PastKill' \in SUBSET PastKill,
             ~kill' => underKill' = {}
      PROVE  KillInv'
  BY <1>1, <1>2, CountShrinks DEF KillInv
<1>3. ASSUME NEW h \in Handlers, HandlerStep(h)
      PROVE  KillInv'
  <2>1. kill' = kill
    BY <1>3 DEF HandlerStep, ReadAgent, ReadCompany, ReadBook, Rejected, InsertIntent
  <2>2. ASSUME NEW x \in Assets, NEW s \in Stakes, ReadAgent(h, x, s)
        PROVE  KillInv'
    <3>1. underKill' = underKill /\ PastKill' \in SUBSET PastKill
      BY <2>2 DEF ReadAgent, PastKill, TypeOK
    <3>2. QED
      BY <1>2, <2>1, <3>1 DEF KillInv
  <2>3. CASE ReadCompany(h)
    <3>1. underKill' = {} /\ ~kill
      BY <2>3 DEF ReadCompany, CompanyAllows, KillInv
    <3>2. Cardinality(PastKill') <= n /\ Cardinality(PastKill') \in Nat
      BY <1>1, HandlersAndRows
    <3>3. QED
      BY <1>1, <3>1, <3>2, FS_EmptySet DEF KillInv
  <2>4. CASE ReadBook(h) \/ Rejected(h)
    <3>1. underKill' = underKill /\ PastKill' \in SUBSET PastKill
      BY <2>4 DEF ReadBook, Rejected, Forget, PastKill, TypeOK
    <3>2. QED
      BY <1>2, <2>1, <3>1 DEF KillInv
  <2>5. ASSUME NEW i \in Intents, InsertIntent(h, i)
        PROVE  KillInv'
    <3>1. h \in PastKill /\ PastKill' = PastKill \ {h}
      BY <2>5, InsertMoves DEF InsertIntent, PastKill
    <3>2. CASE kill
      <4>1. underKill' = underKill \cup {i} /\ kill'
        BY <2>1, <2>5, <3>2 DEF InsertIntent
      <4>2. Cardinality(underKill') + Cardinality(PastKill') <= n
        BY <1>1, <3>1, <4>1, CountMoves DEF KillInv
      <4>3. QED
        BY <4>1, <4>2 DEF KillInv
    <3>3. CASE ~kill
      <4>1. underKill' = underKill
        BY <2>5, <3>3 DEF InsertIntent
      <4>2. QED
        BY <1>2, <2>1, <3>1, <4>1 DEF KillInv
    <3>4. QED
      BY <3>2, <3>3
  <2>6. QED
    BY <1>3, <2>2, <2>3, <2>4, <2>5 DEF HandlerStep
<1>4. ASSUME NEW b \in BOOLEAN, SetKillSwitch(b)
      PROVE  KillInv'
  <2>1. PastKill' = PastKill /\ kill' = b /\ underKill' = IF b THEN underKill ELSE {}
    BY <1>4 DEF SetKillSwitch, PastKill
  <2>2. QED
    BY <1>2, <2>1
<1>5. CASE UNCHANGED <<kill, underKill, pc>>
  <2>1. PastKill' = PastKill
    BY <1>5 DEF PastKill
  <2>2. QED
    BY <1>5, <2>1 DEF KillInv
<1>6. QED
  BY <1>3, <1>4, <1>5
  DEF Next, AdminStep, SetAllocation, SetPaused, Midnight, RowStep, ApproveIntent,
      DeclineIntent, ExecuteIntent, CloseTrade, SetStatus, vars

LEMMA LocalsStep ==
  ASSUME TypeOK, LocalsInv, [Next]_vars
  PROVE  LocalsInv'
<1> USE DEF rows, settings, locals, TypeOK, LocalsInv
<1>0. LargestStake \in Nat
  BY HandlersAndRows
<1>1. ASSUME NEW h \in Handlers, HandlerStep(h)
      PROVE  LocalsInv'
  <2>1. ASSUME NEW x \in Assets, NEW s \in Stakes, ReadAgent(h, x, s)
        PROVE  LocalsInv'
    <3>1. PICK t \in {CappedStake(s), HalvedStake(CappedStake(s))} :
              hStake' = [hStake EXCEPT ![h] = t]
      BY <2>1 DEF ReadAgent
    <3>2. s \in Nat
      BY RiskConstants
    <3>3. t <= LargestStake
      <4>1. CappedStake(s) \in Nat /\ CappedStake(s) >= MinStake /\ CappedStake(s) <= LargestStake
        BY <3>2, RiskConstants DEF CappedStake, LargestStake, Larger, Smaller
      <4>2. HalvedStake(CappedStake(s)) <= CappedStake(s)
        BY <4>1, RiskConstants DEF HalvedStake, Larger
      <4>3. HalvedStake(CappedStake(s)) \in Nat
        BY <4>1, RiskConstants DEF HalvedStake, Larger
      <4>4. QED
        BY <1>0, <4>1, <4>2, <4>3
    <3>4. QED
      BY <2>1, <3>1, <3>3 DEF ReadAgent
  <2>2. CASE ReadCompany(h) \/ ReadBook(h)
    BY <2>2 DEF ReadCompany, ReadBook
  <2>3. ASSUME Forget(h)
        PROVE  LocalsInv'
    BY <1>0, <2>3 DEF Forget
  <2>4. QED
    BY <1>1, <2>1, <2>2, <2>3 DEF HandlerStep, Rejected, InsertIntent
<1>2. CASE UNCHANGED <<pc, locals>>
  BY <1>2
<1>3. QED
  BY <1>1, <1>2, QuietWorld DEF Next

LEMMA CommitStep ==
  ASSUME TypeOK, TypeOK', LocalsInv, CommitInv, [Next]_vars
  PROVE  CommitInv'
<1> DEFINE M == Others * LargestStake
<1>1. /\ AtBook \in SUBSET Handlers /\ AtBook' \in SUBSET Handlers
      /\ Positions \in SUBSET Intents /\ Positions' \in SUBSET Intents
      /\ \A i \in Intents : stake[i] \in Nat /\ stake'[i] \in Nat
      /\ \A h \in Handlers : hStake[h] \in Nat /\ hStake'[h] \in Nat
  BY RiskConstants DEF AtBook, Positions, TypeOK
<1>2. /\ IsFiniteSet(AtBook) /\ IsFiniteSet(AtBook') /\ IsFiniteSet(Positions)
      /\ IsFiniteSet(Positions') /\ M \in Nat
  BY <1>1, HandlersAndRows, OneMore
<1> HIDE DEF M
<1>3. PICK v \in Allocations : SumOver(stake, Positions) + SumOver(hStake, AtBook) <= v + M
  BY DEF CommitInv, M
<1>4. /\ v \in Nat /\ SumOver(stake, Positions) \in Int /\ SumOver(hStake, AtBook) \in Int
      /\ SumOver(stake', Positions') \in Int /\ SumOver(hStake', AtBook') \in Int
  BY <1>1, <1>2, SumType, RiskConstants
<1>5. ASSUME Quiet
      PROVE  SumOver(stake', Positions') + SumOver(hStake', AtBook') <= v + M
  <2>1. stake' = stake /\ Positions' \in SUBSET Positions /\ AtBook' \in SUBSET AtBook
    BY <1>5 DEF Quiet
  <2>2. SumOver(stake, Positions') <= SumOver(stake, Positions)
    BY <1>1, <1>2, <2>1, SumGrows
  <2>3. SumOver(hStake, AtBook') <= SumOver(hStake, AtBook)
    BY <1>1, <1>2, <2>1, SumGrows
  <2>4. SumOver(hStake', AtBook') = SumOver(hStake, AtBook')
    BY <1>2, <1>5, SumSame DEF Quiet
  <2>5. QED
    BY <1>2, <1>3, <1>4, <2>1, <2>2, <2>3, <2>4
<1>6. ASSUME NEW h \in Handlers, ReadBook(h)
      PROVE  \E w \in Allocations :
               SumOver(stake', Positions') + SumOver(hStake', AtBook') <= w + M
  <2>1. /\ UNCHANGED <<stake, hStake>> /\ Positions' = Positions
        /\ pc[h] = "company" /\ AtBook' = AtBook \cup {h} /\ h \notin AtBook
    BY <1>6 DEF ReadBook, rows, locals, Positions, AtBook, TypeOK
  <2>2. SumOver(stake, Positions) = Committed
    <3>1. OpenClaims = Positions
      BY DEF OpenClaims, Positions
    <3>2. Committed = SumOver(stake, OpenClaims)
      BY DEF Committed, SumOver
    <3>3. QED
      BY <3>1, <3>2
  <2>3. SumOver(stake, Positions) + hStake[h] <= hAlloc[h] /\ hAlloc[h] \in Allocations
    <3>1. hAlloc[h] \in Allocations /\ hAlloc[h] \in Nat
      BY <2>1, RiskConstants DEF LocalsInv
    <3>2. hAlloc[h] - Committed >= hStake[h]
      BY <1>6 DEF ReadBook, AllocationLeft
    <3>3. hStake[h] \in Nat /\ SumOver(stake, Positions) \in Int
      BY <1>1, <1>4
    <3>4. QED
      BY <2>2, <3>1, <3>2, <3>3
  <2>4. SumOver(hStake, AtBook \cup {h}) = SumOver(hStake, AtBook) + hStake[h]
    BY <1>1, <2>1, SumAdd, RiskConstants
  <2>5. SumOver(hStake, AtBook) <= M
    <3>1. LargestStake \in Nat /\ \A g \in AtBook : hStake[g] \in 0 .. LargestStake
      BY <1>1, HandlersAndRows DEF LocalsInv
    <3>2. SumOver(hStake, AtBook) <= Cardinality(AtBook) * LargestStake
      BY <1>2, <3>1, SumBounds
    <3>3. Cardinality(AtBook) \in Nat /\ Others \in Nat /\ Cardinality(AtBook) <= Others
      <4>1. Cardinality(AtBook \cup {h}) = Cardinality(AtBook) + 1
        BY <1>2, <2>1, FS_AddElement
      <4>2. /\ Cardinality(AtBook \cup {h}) <= Cardinality(Handlers)
            /\ Cardinality(AtBook) \in Nat /\ Cardinality(Handlers) \in Nat
        BY <1>1, <2>1, HandlersAndRows
      <4>3. QED
        BY <4>1, <4>2, HandlersAndRows DEF Others
    <3>4. Cardinality(AtBook) * LargestStake <= M
      BY <3>1, <3>3, MoreTimes DEF M
    <3>5. Cardinality(AtBook) * LargestStake \in Nat
      BY <3>1, <3>3, OneMore
    <3>6. QED
      BY <1>2, <1>4, <3>2, <3>4, <3>5
  <2>6. hAlloc[h] \in Nat /\ hStake[h] \in Nat
    BY <1>1, <2>3, RiskConstants
  <2>7. SumOver(stake', Positions') + SumOver(hStake', AtBook') <= hAlloc[h] + M
    <3>1. SumOver(stake', Positions') = SumOver(stake, Positions)
      BY <2>1
    <3>2. SumOver(hStake', AtBook') = SumOver(hStake, AtBook) + hStake[h]
      BY <2>1, <2>4
    <3>3. QED
      BY <1>2, <1>4, <2>3, <2>5, <2>6, <3>1, <3>2
  <2>8. QED
    BY <2>3, <2>7
<1>7. ASSUME NEW h \in Handlers, NEW i \in Intents, InsertIntent(h, i)
      PROVE  SumOver(stake', Positions') + SumOver(hStake', AtBook') <= v + M
  <2>1. /\ h \in AtBook /\ i \notin Positions /\ Positions' = Positions \cup {i}
        /\ AtBook' = AtBook \ {h} /\ stake' = [stake EXCEPT ![i] = hStake[h]]
        /\ \A g \in Handlers \ {h} : hStake'[g] = hStake[g]
    BY <1>7, InsertMoves
  <2>2. SumOver(stake', Positions \cup {i}) = SumOver(stake', Positions) + stake'[i]
    <3>1. IsFiniteSet(Intents) /\ i \in Intents \ Positions /\ \A j \in Intents : stake'[j] \in Int
      BY <1>1, <2>1, RiskConstants
    <3> DEFINE after == stake'
    <3> HIDE DEF after
    <3>2. SumOver(after, Positions \cup {i}) = SumOver(after, Positions) + after[i]
      BY <1>1, <3>1, SumAdd DEF after
    <3>3. QED
      BY <3>2 DEF after
  <2>3. SumOver(stake', Positions) = SumOver(stake, Positions) /\ stake'[i] = hStake[h]
    <3>1. stake'[i] = hStake[h] /\ \A j \in Positions : stake'[j] = stake[j]
      BY <1>1, <2>1 DEF TypeOK
    <3>2. QED
      BY <1>2, <3>1, SumSame
  <2>4. SumOver(hStake, AtBook) = SumOver(hStake, AtBook \ {h}) + hStake[h]
    BY <1>1, <1>2, <2>1, SumRemove
  <2>5. SumOver(hStake', AtBook') = SumOver(hStake, AtBook \ {h})
    <3>1. \A g \in AtBook' : hStake'[g] = hStake[g]
      BY <1>1, <2>1
    <3>2. QED
      BY <1>2, <2>1, <3>1, SumSame
  <2>6. SumOver(stake', Positions') = SumOver(stake, Positions) + hStake[h]
    BY <2>1, <2>2, <2>3
  <2>7. SumOver(hStake', AtBook') \in Int /\ hStake[h] \in Nat
    BY <1>1, <1>4
  <2>8. QED
    BY <1>2, <1>3, <1>4, <2>4, <2>5, <2>6, <2>7
<1>8. QED
  BY <1>5, <1>6, <1>7, QuietHandler, QuietWorld DEF Next, HandlerStep, CommitInv, M, Others

LEMMA LimitsInit == Init => LimitsInv
<1> SUFFICES ASSUME Init
             PROVE  LimitsInv
  OBVIOUS
<1>1. Positions = {} /\ Counted = {} /\ AtBook = {} /\ PastKill = {} /\ underKill = {}
  BY DEF Init, Positions, Counted, AtBook, PastKill
<1>2. Cardinality({}) = 0
  BY FS_EmptySet
<1>3. /\ Cardinality(Handlers) \in Nat /\ Others \in Nat /\ LargestStake \in Nat
      /\ DailyCap + Others \in Nat
  BY HandlersAndRows, RiskConstants
<1>4. OverlapInv
  <2>1. \A x \in Assets : {i \in Positions : asset[i] = x} = {} /\ {h \in AtBook : hAsset[h] = x} = {}
    BY <1>1
  <2>2. QED
    BY <1>2, <1>3, <2>1 DEF OverlapInv
<1>5. PerDayInv
  <2>1. \A d \in Days : {i \in Counted : day[i] = d} = {} /\ {h \in AtBook : hDay[h] = d} = {}
    BY <1>1
  <2>2. QED
    BY <1>2, <1>3, <2>1 DEF PerDayInv
<1>6. KillInv
  BY <1>1, <1>2, <1>3 DEF KillInv
<1>7. LocalsInv
  BY <1>3 DEF Init, LocalsInv
<1>8. CommitInv
  <2>1. allocation \in Allocations /\ allocation \in Nat
    BY RiskConstants DEF Init
  <2>2. SumOver(stake, Positions) = 0 /\ SumOver(hStake, AtBook) = 0
    BY <1>1, SumEmpty
  <2>3. Others * LargestStake \in Nat
    BY <1>3, OneMore
  <2>4. QED
    BY <2>1, <2>2, <2>3 DEF CommitInv
<1>9. QED
  BY <1>4, <1>5, <1>6, <1>7, <1>8, TypeInit DEF LimitsInv

\* The part of a limit that the rows alone make up.
LEMMA LimitsFollow == LimitsInv => LimitsHold
<1> SUFFICES ASSUME LimitsInv
             PROVE  LimitsHold
  OBVIOUS
<1>1. TypeOK
  BY DEF LimitsInv
<1>2. OverlapBounded
  <2> SUFFICES ASSUME NEW x \in Assets
               PROVE  Cardinality({i \in Positions : asset[i] = x}) <= 1 + Others
    BY DEF OverlapBounded
  <2> DEFINE P == {i \in Positions : asset[i] = x}
             B == {h \in AtBook : hAsset[h] = x}
  <2>1. P \in SUBSET Intents /\ B \in SUBSET Handlers
    BY DEF Positions, AtBook
  <2>2. Cardinality(P) + Cardinality(B) <= Cardinality(Handlers)
    BY DEF LimitsInv, OverlapInv
  <2> HIDE DEF P, B
  <2>3. Cardinality(P) \in Nat /\ Cardinality(B) \in Nat /\ Cardinality(Handlers) \in Nat
    BY <2>1, HandlersAndRows
  <2>4. Cardinality(P) <= 1 + Others
    BY <2>2, <2>3 DEF Others
  <2>5. QED
    BY <2>4 DEF P
<1>3. TradesPerDayBounded
  <2> SUFFICES ASSUME NEW d \in Days
               PROVE  Cardinality({i \in Intents : status[i] \notin {"none", "declined"}
                                                     /\ day[i] = d}) <= DailyCap + Others
    BY DEF TradesPerDayBounded
  <2> DEFINE P == {i \in Counted : day[i] = d}
             B == {h \in AtBook : hDay[h] = d}
  <2>1. P \in SUBSET Intents /\ B \in SUBSET Handlers
    BY DEF Counted, AtBook
  <2>2. Cardinality(P) + Cardinality(B) <= DailyCap + Others
    BY DEF LimitsInv, PerDayInv
  <2>3. P = {i \in Intents : status[i] \notin {"none", "declined"} /\ day[i] = d}
    BY DEF Counted
  <2> HIDE DEF P, B
  <2>4. Cardinality(P) \in Nat /\ Cardinality(B) \in Nat /\ DailyCap + Others \in Nat
    BY <2>1, HandlersAndRows, RiskConstants
  <2>5. Cardinality(P) <= DailyCap + Others
    BY <2>2, <2>4
  <2>6. QED
    BY <2>3, <2>5
<1>4. OvercommitBounded
  <2>1. PICK v \in Allocations :
            SumOver(stake, Positions) + SumOver(hStake, AtBook) <= v + Others * LargestStake
    BY DEF LimitsInv, CommitInv
  <2>2. /\ Positions \in SUBSET Intents /\ AtBook \in SUBSET Handlers
        /\ \A i \in Positions : stake[i] \in Nat
        /\ \A h \in AtBook : hStake[h] \in 0 .. LargestStake
    BY <1>1, RiskConstants, HandlersAndRows
    DEF Positions, AtBook, TypeOK, LimitsInv, LocalsInv
  <2>3. SumOver(hStake, AtBook) \in Nat /\ SumOver(stake, Positions) \in Int
    BY <2>2, HandlersAndRows, SumBounds, SumType
  <2>4. Others * LargestStake \in Nat /\ v \in Nat
    BY HandlersAndRows, OneMore, RiskConstants
  <2>5. SumOver(stake, Positions) <= v + Others * LargestStake
    BY <2>1, <2>3, <2>4
  <2>6. QED
    BY <2>5 DEF OvercommitBounded, SumOver, LargestStake
<1>5. KillSwitchStopsInserts
  <2>1. /\ Cardinality(underKill) + Cardinality(PastKill) <= Cardinality(Handlers)
        /\ underKill \in SUBSET Intents /\ PastKill \in SUBSET Handlers
    BY <1>1 DEF LimitsInv, KillInv, PastKill, TypeOK
  <2>2. /\ Cardinality(underKill) \in Nat /\ Cardinality(PastKill) \in Nat
        /\ Cardinality(Handlers) \in Nat
    BY <2>1, HandlersAndRows
  <2>3. QED
    BY <2>1, <2>2 DEF KillSwitchStopsInserts
<1>6. QED
  BY <1>2, <1>3, <1>4, <1>5 DEF LimitsHold

\* The SELECT-then-INSERT of the risk gate, without a lock, keeps every limit up to
\* one trade for each further handler: overlapping positions, trades per day (over
\* midnight too), the allocation, and inserts under the kill switch.
THEOREM TheLimitsHold == Spec => []LimitsHold
<1>1. LimitsInv /\ [Next]_vars => LimitsInv'
  <2> SUFFICES ASSUME LimitsInv, [Next]_vars
               PROVE  LimitsInv'
    OBVIOUS
  <2>1. TypeOK /\ TypeOK'
    BY TypeStep DEF LimitsInv
  <2>2. QED
    BY <2>1, OverlapStep, PerDayStep, KillStep, LocalsStep, CommitStep DEF LimitsInv
<1>2. QED
  BY LimitsInit, LimitsFollow, <1>1, PTL DEF Spec

(***************************************************************************)
(* The amount of a sweep.                                                  *)
(***************************************************************************)

\* round(x / 8) is off by at most one half.
LEMMA RoundEighthBounds ==
  ASSUME NEW x \in Nat
  PROVE  /\ RoundEighth(x) \in Int
         /\ 8 * RoundEighth(x) <= x + 4
<1> DEFINE q == x \div 8
           r == x % 8
<1>1. q \in Int /\ r \in 0 .. 7 /\ x = 8 * q + r
  OBVIOUS
<1>2. RoundEighth(x) = IF r > 4 \/ (r = 4 /\ q % 2 = 1) THEN q + 1 ELSE q
  BY DEF RoundEighth
<1>3. RoundEighth(x) = q \/ (RoundEighth(x) = q + 1 /\ r >= 4)
  <2>1. CASE r > 4 \/ (r = 4 /\ q % 2 = 1)
    BY <1>1, <1>2, <2>1
  <2>2. CASE ~(r > 4 \/ (r = 4 /\ q % 2 = 1))
    BY <1>2, <2>2
  <2>3. QED
    BY <2>1, <2>2
<1> HIDE DEF q, r
<1>4. QED
  BY <1>1, <1>3

\* A sweep moves a positive amount, of at most a quarter of the profit, rounded.
LEMMA SweepAmountBounds ==
  ASSUME NEW A \in Int, NEW P \in Int, ShouldSweep(A, P)
  PROVE  /\ SweepAmount(A, P) \in Nat
         /\ 4 * SweepAmount(A, P) <= P + 1
<1>1. A > 0 /\ P > 0 /\ 2 * P - A \in Nat /\ SweepAmount(A, P) >= MinSweep
  BY DEF ShouldSweep
<1>2. SweepAmount(A, P) \in Int /\ 8 * SweepAmount(A, P) <= 2 * P - A + 4
  BY <1>1, RoundEighthBounds DEF SweepAmount
<1>3. QED
  BY <1>1, <1>2, SweepConstants

LEMMA ProfitsAreIntegers == Profits \cup {0} \subseteq Int
<1>1. 0 \in Int
  OBVIOUS
<1>2. QED
  BY <1>1, SweepConstants, Zenon

(***************************************************************************)
(* The invariant.  An overdraft is bounded because a row still to be       *)
(* visited that the pass will debit is not overdrawn: only the pass itself *)
(* overdraws, and it visits a row once per snapshot.                       *)
(***************************************************************************)
TodoNotOverdrawn ==
    \A a \in todo : seenAlloc[a] > 0 => alloc[a] >= 0

SweepInv == SweepTypeOK /\ AllocationsAccounted /\ OverdraftBounded /\ TodoNotOverdrawn

LEMMA SweepInit == BooksInit => SweepInv
<1> SUFFICES ASSUME BooksInit
             PROVE  SweepInv
  OBVIOUS
<1>1. SweepTypeOK
  BY SweepConstants DEF BooksInit, SweepTypeOK
<1>2. AllocationsAccounted /\ TodoNotOverdrawn
  BY DEF BooksInit, AllocationsAccounted, TodoNotOverdrawn
<1>3. OverdraftBounded
  <2>1. \A a \in Agents : 4 * alloc[a] >= -(0 + 1)
    BY DEF BooksInit
  <2>2. QED
    BY <2>1 DEF OverdraftBounded
<1>4. QED
  BY <1>1, <1>2, <1>3 DEF SweepInv

LEMMA SweepAgentStep ==
  ASSUME SweepInv, NEW a \in Agents, SweepAgent(a)
  PROVE  SweepInv'
<1> DEFINE amount == SweepAmount(seenAlloc[a], seenPnl[a])
<1>1. /\ amount \in Nat
      /\ 4 * amount <= seenPnl[a] + 1
      /\ seenAlloc[a] > 0
  <2>1. seenAlloc[a] \in Int /\ seenPnl[a] \in Int
    <3>1. /\ seenAlloc \in [Agents -> Int]
          /\ seenPnl \in [Agents -> Profits \cup {0}]
      BY DEF SweepInv, SweepTypeOK
    <3>2. Profits \cup {0} \subseteq Int
      BY ProfitsAreIntegers
    <3>3. seenAlloc[a] \in Int /\ seenPnl[a] \in Profits \cup {0}
      BY <3>1
    <3>4. QED
      BY <3>2, <3>3, Zenon
  <2>2. ShouldSweep(seenAlloc[a], seenPnl[a])
    BY DEF SweepAgent
  <2>3. QED
    BY <2>1, <2>2, SweepAmountBounds DEF ShouldSweep
<1>2. /\ a \in todo /\ a \in live
      /\ reserve' = reserve + amount
      /\ alloc' = [alloc EXCEPT ![a] = alloc[a] - amount]
      /\ swept' = [swept EXCEPT ![a] = swept[a] + amount]
      /\ todo' = todo \ {a}
      /\ UNCHANGED <<live, pnl, granted, seenAlloc, seenPnl, edits>>
  BY DEF SweepAgent, Debit
<1> HIDE DEF amount
<1>3. SweepTypeOK'
  BY <1>1, <1>2 DEF SweepInv, SweepTypeOK
<1>4. AllocationsAccounted'
  BY <1>1, <1>2 DEF SweepInv, SweepTypeOK, AllocationsAccounted
<1>5. OverdraftBounded'
  <2>1. SUFFICES ASSUME NEW b \in Agents
                 PROVE  \E best \in Profits \cup {0} : 4 * alloc'[b] >= -(best + 1)
    BY DEF OverdraftBounded
  <2>2. CASE b # a
    <3>1. alloc'[b] = alloc[b]
      BY <1>2, <2>2 DEF SweepInv, SweepTypeOK
    <3>2. QED
      BY <3>1 DEF SweepInv, OverdraftBounded
  <2>3. CASE b = a
    <3>1. alloc[a] \in Int /\ alloc[a] >= 0 /\ alloc'[a] = alloc[a] - amount
      BY <1>1, <1>2 DEF SweepInv, SweepTypeOK, TodoNotOverdrawn
    <3>2. seenPnl[a] \in Profits \cup {0} /\ seenPnl[a] \in Int
      <4>1. Profits \cup {0} \subseteq Int
        BY ProfitsAreIntegers
      <4>2. seenPnl[a] \in Profits \cup {0}
        BY DEF SweepInv, SweepTypeOK
      <4>3. QED
        BY <4>1, <4>2, Zenon
    <3>3. 4 * alloc'[a] >= -(seenPnl[a] + 1)
      BY <1>1, <3>1, <3>2
    <3>4. QED
      BY <2>3, <3>2, <3>3
  <2>4. QED
    BY <2>2, <2>3
<1>6. TodoNotOverdrawn'
  BY <1>2 DEF SweepInv, SweepTypeOK, TodoNotOverdrawn
<1>7. QED
  BY <1>3, <1>4, <1>5, <1>6 DEF SweepInv

\* A step that touches no allocation and widens the pass by nothing.
LEMMA QuietStep ==
  ASSUME SweepInv, SweepTypeOK',
         UNCHANGED <<alloc, swept, granted, seenAlloc>>, todo' \subseteq todo
  PROVE  SweepInv'
  BY DEF SweepInv, AllocationsAccounted, OverdraftBounded, TodoNotOverdrawn

LEMMA UpdateStep ==
  ASSUME SweepInv, NEW a \in Agents, NEW v \in Grants, UpdateAllocation(a, v)
  PROVE  SweepInv'
<1>1. /\ v \in Nat /\ edits' = edits + 1
      /\ granted' = [granted EXCEPT ![a] = granted[a] + v - alloc[a]]
      /\ alloc' = [alloc EXCEPT ![a] = v]
      /\ UNCHANGED <<live, pnl, reserve, swept, todo, seenAlloc, seenPnl>>
  BY SweepConstants DEF UpdateAllocation, passVars
<1>2. SweepTypeOK'
  BY <1>1 DEF SweepInv, SweepTypeOK
<1>3. AllocationsAccounted'
  BY <1>1 DEF SweepInv, SweepTypeOK, AllocationsAccounted
<1>4. OverdraftBounded'
  <2>1. SUFFICES ASSUME NEW b \in Agents
                 PROVE  \E best \in Profits \cup {0} : 4 * alloc'[b] >= -(best + 1)
    BY DEF OverdraftBounded
  <2>2. CASE b # a
    BY <1>1, <2>2 DEF SweepInv, SweepTypeOK, OverdraftBounded
  <2>3. CASE b = a
    <3>1. 4 * alloc'[b] >= -(0 + 1)
      BY <1>1, <2>3 DEF SweepInv, SweepTypeOK
    <3>2. QED
      BY <3>1
  <2>4. QED
    BY <2>2, <2>3
<1>5. TodoNotOverdrawn'
  BY <1>1 DEF SweepInv, SweepTypeOK, TodoNotOverdrawn
<1>6. QED
  BY <1>2, <1>3, <1>4, <1>5 DEF SweepInv

LEMMA StartStep ==
  ASSUME SweepInv, StartPass
  PROVE  SweepInv'
  BY DEF SweepInv, StartPass, SweepTypeOK, AllocationsAccounted, OverdraftBounded,
         TodoNotOverdrawn

LEMMA SweepStep == SweepInv /\ [BooksNext]_sweepVars => SweepInv'
<1> SUFFICES ASSUME SweepInv, [BooksNext]_sweepVars
             PROVE  SweepInv'
  OBVIOUS
<1>0. SweepTypeOK
  BY DEF SweepInv
<1>1. ASSUME NEW a \in Agents, SkipAgent(a)
      PROVE  SweepInv'
  <2>1. SweepTypeOK'
    BY <1>0, <1>1 DEF SkipAgent, SweepTypeOK
  <2>2. QED
    BY <1>1, <2>1, QuietStep DEF SkipAgent
<1>2. ASSUME NEW a \in Agents, SweepFails(a)
      PROVE  SweepInv'
  <2>1. SweepTypeOK'
    BY <1>0, <1>2 DEF SweepFails, ReserveAfterFailure, SweepTypeOK
  <2>2. QED
    BY <1>2, <2>1, QuietStep DEF SweepFails
<1>3. ASSUME NEW a \in Agents, DeleteAgent(a)
      PROVE  SweepInv'
  <2>1. SweepTypeOK'
    BY <1>0, <1>3 DEF DeleteAgent, passVars, SweepTypeOK
  <2>2. QED
    BY <1>3, <2>1, QuietStep DEF DeleteAgent, passVars
<1>4. ASSUME NEW a \in Agents, NEW v \in Profits, WindowMoves(a, v)
      PROVE  SweepInv'
  <2>1. SweepTypeOK'
    BY <1>0, <1>4 DEF WindowMoves, passVars, SweepTypeOK
  <2>2. QED
    BY <1>4, <2>1, QuietStep DEF WindowMoves, passVars
<1>5. CASE Restart
  <2>1. SweepTypeOK'
    BY <1>0, <1>5 DEF Restart, SweepTypeOK
  <2>2. QED
    BY <1>5, <2>1, QuietStep DEF Restart
<1>6. CASE UNCHANGED sweepVars
  <2>1. SweepTypeOK'
    BY <1>0, <1>6 DEF sweepVars, passVars, SweepTypeOK
  <2>2. QED
    BY <1>6, <2>1, QuietStep DEF sweepVars, passVars
<1>7. QED
  BY <1>1, <1>2, <1>3, <1>4, <1>5, <1>6, SweepAgentStep, UpdateStep, StartStep
  DEF BooksNext, AgentStep

\* Every reachable state is well typed; in particular the reserve and the swept
\* totals only ever hold amounts that were added to them.
THEOREM SweepTypeCorrect == BooksSpec => []SweepTypeOK
<1>1. SweepInv => SweepTypeOK
  BY DEF SweepInv
<1>2. QED
  BY SweepInit, SweepStep, <1>1, PTL DEF BooksSpec

\* What users allocated to an employee is still allocated or was swept, however
\* edits, failures and restarts fall between the snapshot and the debits.
THEOREM NothingIsLost == BooksSpec => []AllocationsAccounted
<1>1. SweepInv => AllocationsAccounted
  BY DEF SweepInv
<1>2. QED
  BY SweepInit, SweepStep, <1>1, PTL DEF BooksSpec

\* However often the sweep runs, it overdraws an allocation by at most a quarter
\* of one window's profit, rounded.
THEOREM OverdraftStaysSmall == BooksSpec => []OverdraftBounded
<1>1. SweepInv => OverdraftBounded
  BY DEF SweepInv
<1>2. QED
  BY SweepInit, SweepStep, <1>1, PTL DEF BooksSpec

\* The audit rows, summed by the fold of the property, add up like any sum.
LEMMA AuditSum == ReserveIsAudited <=> reserve = SumOver(swept, Agents)
  BY DEF ReserveIsAudited, SumOver, FoldSet, MapThenSumSet, MapThenFoldSet

LEMMA AuditStep ==
  ASSUME SweepTypeOK, SweepTypeOK', ReserveIsAudited, [BooksNext]_sweepVars
  PROVE  ReserveIsAudited'
<1>1. reserve = SumOver(swept, Agents)
  BY AuditSum
<1>2. ASSUME NEW a \in Agents, SweepAgent(a)
      PROVE  reserve' = SumOver(swept', Agents)
  <2> DEFINE amount == SweepAmount(seenAlloc[a], seenPnl[a])
             rest == Agents \ {a}
             after == swept'
  <2>1. reserve' = reserve + amount /\ after = [swept EXCEPT ![a] = @ + amount]
    BY <1>2 DEF SweepAgent
  <2>2. seenAlloc[a] \in Int /\ seenPnl[a] \in Int
    BY ProfitsAreIntegers DEF SweepTypeOK
  <2>3. amount \in Int
    BY <1>2, <2>2, SweepAmountBounds DEF SweepAgent
  <2>4. /\ IsFiniteSet(Agents) /\ IsFiniteSet(rest)
        /\ \A b \in Agents : swept[b] \in Int /\ after[b] \in Int
    BY SweepConstants, FS_Subset DEF SweepTypeOK
  <2> HIDE DEF amount
  <2>5. after[a] = swept[a] + amount /\ \A b \in rest : after[b] = swept[b]
    BY <2>1 DEF SweepTypeOK
  <2> HIDE DEF after
  <2>6. SumOver(after, Agents) = SumOver(after, rest) + after[a]
    BY <2>4, SumRemove
  <2>7. SumOver(swept, Agents) = SumOver(swept, rest) + swept[a]
    BY <2>4, SumRemove
  <2>8. SumOver(after, rest) = SumOver(swept, rest) /\ SumOver(swept, rest) \in Int
    BY <2>4, <2>5, SumSame, SumType
  <2>9. SumOver(after, Agents) = reserve'
    BY <1>1, <2>1, <2>3, <2>4, <2>5, <2>6, <2>7, <2>8
  <2>10. QED
    BY <2>9 DEF after
<1>3. ASSUME UNCHANGED <<reserve, swept>>
      PROVE  reserve' = SumOver(swept', Agents)
  BY <1>1, <1>3
<1>4. reserve' = SumOver(swept', Agents)
  BY <1>2, <1>3
  DEF BooksNext, AgentStep, StartPass, Restart, SkipAgent, SweepFails, ReserveAfterFailure,
      UpdateAllocation, WindowMoves, DeleteAgent, sweepVars
<1>5. QED
  BY <1>4 DEF ReserveIsAudited, SumOver, FoldSet, MapThenSumSet, MapThenFoldSet

\* The three writes of a sweep happen together: at every moment the insurance
\* reserve is the sum of the audit rows, through failures and restarts in mid-pass.
THEOREM TheReserveIsAudited == BooksSpec => []ReserveIsAudited
<1>1. BooksInit => ReserveIsAudited
  <2> SUFFICES ASSUME BooksInit
               PROVE  reserve = SumOver(swept, Agents)
    BY AuditSum
  <2>1. IsFiniteSet(Agents) /\ \A a \in Agents : swept[a] \in 0 .. 0
    BY SweepConstants DEF BooksInit
  <2>2. SumOver(swept, Agents) \in Nat /\ SumOver(swept, Agents) <= Cardinality(Agents) * 0
    BY <2>1, SumBounds
  <2>3. Cardinality(Agents) * 0 = 0
    BY <2>1, FS_CardinalityType
  <2>4. QED
    BY <2>2, <2>3 DEF BooksInit
<1>2. SweepTypeOK /\ SweepTypeOK' /\ ReserveIsAudited /\ [BooksNext]_sweepVars
        => ReserveIsAudited'
  BY AuditStep
<1>3. QED
  BY SweepTypeCorrect, <1>1, <1>2, PTL DEF BooksSpec
=============================================================================
