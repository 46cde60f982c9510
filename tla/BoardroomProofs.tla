---------------------------- MODULE BoardroomProofs ----------------------------
(***************************************************************************)
(* Machine-checked proofs about the manager's side: WebSearch, for any     *)
(* quotas, caps and number of searches; Boardroom, for any staff, requests *)
(* and tasks; ManagerDesk, for any rows, combinations and calls in flight; *)
(* Transcript, for any conversations, sessions and rounds.                 *)
(***************************************************************************)
EXTENDS MCBoardroom, SetLemmas

LEMMA PairExtremes ==
  ASSUME NEW a \in Nat, NEW b \in Nat
  PROVE  /\ Max({a, b}) \in Nat /\ Max({a, b}) >= a /\ Max({a, b}) >= b
         /\ Max({a, b}) \in {a, b} /\ Min({a, b}) \in {a, b}
         /\ Min({a, b}) \in Nat /\ Min({a, b}) <= a /\ Min({a, b}) <= b
<1>1. (\E x \in {a, b} : \A y \in {a, b} : x >= y) /\ (\E x \in {a, b} : \A y \in {a, b} : x =< y)
  OBVIOUS
<1>2. Max({a, b}) \in {a, b} /\ \A y \in {a, b} : Max({a, b}) >= y
  BY <1>1, Zenon DEF Max
<1>3. Min({a, b}) \in {a, b} /\ \A y \in {a, b} : Min({a, b}) =< y
  BY <1>1, Zenon DEF Min
<1>4. QED
  BY <1>2, <1>3

(***************************************************************************)
(* WebSearch.  The highest effective quota of the day is no less than the  *)
(* present one, which is what a search that begins was compared with.      *)
(***************************************************************************)
Plans == {Resting, <<>>, <<"tavily">>, <<"duckduckgo">>, <<"tavily", "duckduckgo">>}
InFlight == {s \in Searches : engines[s] # Resting}

WebInv ==
    /\ WebTypeOK
    /\ engines \in [Searches -> Plans]
    /\ Effective(quota, cap) <= widest
    /\ SpendBounded

SearchCounts ==
    /\ IsFiniteSet(InFlight) /\ Cardinality(InFlight) \in Nat
    /\ Cardinality(Searches) \in Nat /\ Cardinality(InFlight) <= Cardinality(Searches)
    /\ \A s \in Searches \ InFlight : Cardinality(InFlight) <= Cardinality(Searches) - 1

LEMMA SearchCount == SearchCounts
<1>1. IsFiniteSet(InFlight) /\ Cardinality(InFlight) \in Nat
      /\ Cardinality(Searches) \in Nat /\ Cardinality(InFlight) <= Cardinality(Searches)
  BY CountNat, WebSearchConstants, FS_Subset, FS_CardinalityType DEF InFlight
<1>2. ASSUME NEW s \in Searches \ InFlight
      PROVE  Cardinality(InFlight) <= Cardinality(Searches) - 1
  <2>1. IsFiniteSet(Searches)
    BY WebSearchConstants, FS_Subset
  <2>2. IsFiniteSet(Searches \ {s}) /\ InFlight \in SUBSET (Searches \ {s})
    BY <2>1, FS_RemoveElement DEF InFlight
  <2>3. Cardinality(InFlight) <= Cardinality(Searches \ {s})
    BY <2>2, CountNat
  <2>4. Cardinality(Searches \ {s}) = Cardinality(Searches) - 1
    BY <2>1, CountLess
  <2>5. QED
    BY <2>3, <2>4
<1>3. QED
  BY <1>1, <1>2 DEF SearchCounts

LEMMA WebInitInv == WebInit => WebInv
<1> SUFFICES ASSUME WebInit
             PROVE  WebInv
  OBVIOUS
<1>1. quota \in Nat /\ cap \in Nat /\ quota \in Quotas /\ cap \in Caps
  BY WebSearchConstants DEF WebInit
<1>2. Min({quota, cap}) \in Nat /\ Effective(quota, cap) = Min({quota, cap})
  BY <1>1, PairExtremes DEF Effective
<1>3. InFlight = {}
  BY DEF WebInit, InFlight
<1>4. Cardinality(InFlight) = 0 /\ Cardinality(Searches) \in Nat
  BY <1>3, FS_EmptySet, SearchCount DEF SearchCounts
<1>5. Max({widest, 1}) \in Nat /\ Max({widest, 1}) >= 1
  BY <1>2, PairExtremes DEF WebInit
<1>6. SpendBounded
  BY <1>4, <1>5 DEF SpendBounded, InFlight, WebInit
<1>7. QED
  BY <1>1, <1>2, <1>6 DEF WebInv, WebTypeOK, WebInit, Plans, Backends

LEMMA PlansShrink ==
  ASSUME NEW p \in Plans, p \notin {Resting, <<>>}
  PROVE  Tail(p) \in Plans
<1>1. Tail(<<"tavily">>) = <<>> /\ Tail(<<"duckduckgo">>) = <<>>
  OBVIOUS
<1>2. Tail(<<"tavily", "duckduckgo">>) = <<"duckduckgo">>
  OBVIOUS
<1>3. p \in {<<"tavily">>, <<"duckduckgo">>, <<"tavily", "duckduckgo">>}
  BY DEF Plans
<1>4. QED
  BY <1>1, <1>2, <1>3 DEF Plans

LEMMA OrderIsAPlan ==
  ASSUME NEW b \in Backends
  PROVE  Order(b) \in Plans
  BY DEF Order, Plans, Backends

LEMMA WebStep == WebInv /\ [WebNext]_webVars => WebInv'
<1> SUFFICES ASSUME WebInv, [WebNext]_webVars
             PROVE  WebInv'
  OBVIOUS
<1> USE SearchCount DEF SearchCounts
<1>0. /\ quota \in Nat /\ cap \in Nat /\ found \in Nat /\ widest \in Nat
      /\ WebTypeOK /\ engines \in [Searches -> Plans] /\ SpendBounded
      /\ Effective(quota, cap) <= widest
  BY WebSearchConstants DEF WebInv, WebTypeOK
<1>1. /\ found + Cardinality(InFlight) <= Max({widest, 1}) + Cardinality(Searches) - 1
      /\ Max({widest, 1}) \in Nat /\ Max({widest, 1}) >= widest /\ Max({widest, 1}) >= 1
  BY <1>0, PairExtremes DEF SpendBounded, InFlight
<1>2. ASSUME NEW on \in BOOLEAN, NEW q \in Quotas, NEW c \in Caps, NEW b \in Backends,
             Configure(on, q, c, b)
      PROVE  WebInv'
  <2>1. q \in Nat /\ c \in Nat
    BY WebSearchConstants
  <2>2. Min({q, c}) \in Nat /\ Effective(q, c) = Min({q, c})
    BY <2>1, PairExtremes DEF Effective
  <2>3. widest' \in Nat /\ widest' >= widest /\ widest' >= Min({q, c})
    BY <1>0, <1>2, <2>2, PairExtremes DEF Configure
  <2>4. Max({widest', 1}) \in Nat /\ Max({widest', 1}) \in {widest', 1} /\ Max({widest', 1}) >= widest'
        /\ Max({widest', 1}) >= 1 /\ Max({widest, 1}) \in {widest, 1}
    BY <1>0, <2>3, PairExtremes
  <2>5. InFlight' = InFlight /\ found' = found
    BY <1>2 DEF Configure, InFlight
  <2>6. found' + Cardinality(InFlight') <= Max({widest', 1}) + Cardinality(Searches) - 1
    BY <1>0, <1>1, <2>3, <2>4, <2>5
  <2>7. SpendBounded'
    BY <2>6 DEF SpendBounded, InFlight
  <2>8. QED
    BY <1>0, <1>2, <2>2, <2>3, <2>7 DEF Configure, WebInv, WebTypeOK, Effective
<1>3. ASSUME NEW s \in Searches, NEW hint \in Backends \cup {"none"}, BeginSearch(s, hint)
      PROVE  WebInv'
  <2>1. (IF hint = "none" THEN backend ELSE hint) \in Backends
    BY <1>0, <1>3 DEF WebTypeOK
  <2>2. Order(IF hint = "none" THEN backend ELSE hint) \in Plans \ {Resting}
    BY <2>1, OrderIsAPlan DEF Order, Resting, Backends
  <2>3. engines' \in [Searches -> Plans] /\ InFlight' = InFlight \cup {s} /\ s \notin InFlight
    BY <1>0, <1>3, <2>2 DEF BeginSearch, InFlight
  <2>4. Cardinality(InFlight') = Cardinality(InFlight) + 1
    BY <2>3, FS_AddElement
  <2>5. Cardinality(InFlight) <= Cardinality(Searches) - 1
    BY <2>3
  <2>6. found < Effective(quota, cap) /\ found' = found /\ widest' = widest
        /\ Effective(quota, cap) \in Nat
    BY <1>0, <1>3 DEF BeginSearch, settings, Effective
  <2>7. found' + Cardinality(InFlight') <= Max({widest', 1}) + Cardinality(Searches) - 1
    BY <1>0, <1>1, <2>4, <2>5, <2>6
  <2>8. SpendBounded'
    BY <2>7 DEF SpendBounded, InFlight
  <2>9. QED
    BY <1>0, <1>3, <2>3, <2>8 DEF BeginSearch, settings, WebInv, WebTypeOK, Plans, Effective
<1>4. ASSUME NEW s \in Searches, BackendFails(s)
      PROVE  WebInv'
  <2>1. engines' \in [Searches -> Plans] /\ InFlight' \subseteq InFlight
    BY <1>0, <1>4, PlansShrink DEF BackendFails, InFlight
  <2>2. Cardinality(InFlight') <= Cardinality(InFlight) /\ Cardinality(InFlight') \in Nat
    BY <2>1, CountNat
  <2>3. SpendBounded'
    BY <1>0, <1>1, <1>4, <2>2 DEF BackendFails, settings, SpendBounded, InFlight
  <2>4. QED
    BY <1>0, <1>4, <2>1, <2>3 DEF BackendFails, settings, WebInv, WebTypeOK, Plans, Effective
<1>5. ASSUME NEW s \in Searches, SearchFails(s) \/ SearchFinds(s)
      PROVE  WebInv'
  <2>1. engines' \in [Searches -> Plans] /\ InFlight' = InFlight \ {s} /\ s \in InFlight
    BY <1>0, <1>5 DEF SearchFails, SearchFinds, InFlight, Plans, Resting
  <2>2. Cardinality(InFlight') = Cardinality(InFlight) - 1
    BY <2>1, CountLess
  <2>3. widest' = widest /\ quota' = quota /\ cap' = cap /\ found' \in Nat /\ found' <= found + 1
        /\ enabled' = enabled /\ backend' = backend
    BY <1>0, <1>5 DEF SearchFails, SearchFinds, settings
  <2>4. found' + Cardinality(InFlight') <= Max({widest', 1}) + Cardinality(Searches) - 1
    BY <1>0, <1>1, <2>2, <2>3
  <2>5. SpendBounded'
    BY <2>4 DEF SpendBounded, InFlight
  <2>6. QED
    BY <1>0, <2>1, <2>3, <2>5 DEF WebInv, WebTypeOK, Plans, Effective
<1>6. CASE DayTurns
  <2>1. widest' = Min({quota, cap}) /\ widest' \in Nat /\ Effective(quota, cap) = Min({quota, cap})
    BY <1>0, <1>6, PairExtremes DEF DayTurns, Effective
  <2>2. Max({widest', 1}) \in Nat /\ Max({widest', 1}) >= 1
    BY <2>1, PairExtremes
  <2>3. InFlight' = InFlight /\ found' = 0
    BY <1>6 DEF DayTurns, InFlight
  <2>4. found' + Cardinality(InFlight') <= Max({widest', 1}) + Cardinality(Searches) - 1
    BY <2>2, <2>3
  <2>5. SpendBounded'
    BY <2>4 DEF SpendBounded, InFlight
  <2>6. QED
    BY <1>0, <1>6, <2>1, <2>5 DEF DayTurns, WebInv, WebTypeOK, Plans, Effective
<1>7. CASE UNCHANGED webVars
  BY <1>7 DEF webVars, settings, WebInv, WebTypeOK, Plans, Effective, SpendBounded
<1>8. QED
  BY <1>2, <1>3, <1>4, <1>5, <1>6, <1>7 DEF WebNext

\* The settings of the company's searches, the backends still to try and the counts
\* of the day keep their types.
THEOREM WebTypeCorrect == WebSpec => []WebTypeOK
<1>1. WebInv => WebTypeOK
  BY DEF WebInv
<1>2. QED
  BY <1>1, WebInitInv, WebStep, PTL DEF WebSpec

\* Whatever the CEO sets and however many searches run side by side, what a day costs
\* exceeds its highest quota by less than the number of searches in flight at one time.
THEOREM SpendIsBounded == WebSpec => []SpendBounded
<1>1. WebInv => SpendBounded
  BY DEF WebInv
<1>2. QED
  BY <1>1, WebInitInv, WebStep, PTL DEF WebSpec

(***************************************************************************)
(* Boardroom.  A task that is one deep is a 1:1 that still talks, and so   *)
(* has its flag up; while a review that showed requests runs, every        *)
(* pending request was shown or filed meanwhile.                           *)
(***************************************************************************)
Tasking ==
    /\ doing \in [Runners -> Talks \cup {"nothing"}] /\ doing[Loop] \in {"nothing", "review"}
    /\ stage \in [Runners -> {"none", "talk", "logged"}]
    /\ surfaced \in [Runners -> SUBSET Queries] /\ flagged \in [Runners -> BOOLEAN]
    /\ depth \in [Runners -> Nat]
    /\ \A r \in Runners : /\ doing[r] = "nothing" <=> stage[r] = "none"
                          /\ doing[r] # "review" => surfaced[r] = {}
                          /\ flagged[r] <=> (doing[r] = "meeting" /\ stage[r] = "talk")
                          /\ depth[r] <= 1
                          /\ depth[r] = 1 => doing[r] = "meeting" /\ stage[r] = "talk"

Queueing ==
    /\ request \in [Queries -> {"none", "pending", "addressed"}]
    /\ asker \in [Queries -> Staff \cup {Nobody}] /\ fresh \in [Queries -> BOOLEAN]
    /\ filing \in [Staff -> 0..Filers]
    /\ \A q \in Queries : asker[q] = Nobody <=> request[q] = "none"
    /\ shown \cup during \subseteq {q \in Queries : request[q] # "none"}
    /\ \A q \in Queries : request[q] = "addressed" => q \in shown \cup during

Covered == \A r \in Runners : surfaced[r] # {} => Pending \subseteq shown \cup during

BoardParts == Tasking /\ Queueing /\ Covered /\ troubles \in Nat

LEMMA PartsType == BoardParts => BoardTypeOK
<1> SUFFICES ASSUME BoardParts
             PROVE  BoardTypeOK
  OBVIOUS
<1>1. ASSUME NEW r \in Runners
      PROVE  flagged[r] = (doing[r] = "meeting" /\ stage[r] = "talk")
  <2>1. flagged[r] \in BOOLEAN /\ (flagged[r] <=> (doing[r] = "meeting" /\ stage[r] = "talk"))
    BY DEF BoardParts, Tasking
  <2>2. QED
    BY <2>1, Zenon
<1>2. QED
  BY <1>1 DEF BoardParts, Tasking, Queueing, BoardTypeOK

LEMMA BoardPartsInit == BoardInit => BoardParts
<1> SUFFICES ASSUME BoardInit
             PROVE  BoardParts
  OBVIOUS
<1> USE BoardroomConstants
<1>1. Tasking
  <2>1. Loop \in Runners /\ FALSE \in BOOLEAN
    BY DEF Runners
  <2>2. ASSUME NEW r \in Runners
        PROVE  /\ doing[r] = "nothing" /\ stage[r] = "none" /\ surfaced[r] = {}
               /\ ~flagged[r] /\ depth[r] = 0
    BY DEF BoardInit
  <2>3. flagged \in [Runners -> BOOLEAN]
    BY <2>1 DEF BoardInit
  <2>4. doing \in [Runners -> Talks \cup {"nothing"}] /\ stage \in [Runners -> {"none", "talk", "logged"}]
    BY DEF BoardInit
  <2>5. surfaced \in [Runners -> SUBSET Queries] /\ depth \in [Runners -> Nat]
    BY DEF BoardInit
  <2>6. QED
    BY <2>1, <2>2, <2>3, <2>4, <2>5 DEF Tasking
<1>2. Queueing
  BY DEF BoardInit, Queueing
<1>3. QED
  BY <1>1, <1>2 DEF BoardInit, BoardParts, Covered

\* A task that begins.
LEMMA BeginsStep ==
  ASSUME Tasking, NEW r \in Runners, NEW what \in Talks, NEW d \in Nat, Begins(r, what, d),
         r = Loop => what = "review", d <= 1, d = 1 => what = "meeting"
  PROVE  Tasking'
<1>1. ToSurface \subseteq Queries
  BY DEF ToSurface, Pending
<1>2. (what = "meeting") \in BOOLEAN
  OBVIOUS
<1>3. flagged' \in [Runners -> BOOLEAN]
  BY <1>2 DEF Begins, Tasking
<1>4. surfaced' \in [Runners -> SUBSET Queries]
  BY <1>1 DEF Begins, Tasking
<1>5. /\ doing' \in [Runners -> Talks \cup {"nothing"}] /\ stage' \in [Runners -> {"none", "talk", "logged"}]
      /\ depth' \in [Runners -> Nat] /\ doing'[Loop] \in {"nothing", "review"}
  BY DEF Begins, Tasking, Runners
<1>6. ASSUME NEW x \in Runners
      PROVE  /\ doing'[x] = "nothing" <=> stage'[x] = "none"
             /\ doing'[x] # "review" => surfaced'[x] = {}
             /\ flagged'[x] <=> (doing'[x] = "meeting" /\ stage'[x] = "talk")
             /\ depth'[x] <= 1
             /\ depth'[x] = 1 => doing'[x] = "meeting" /\ stage'[x] = "talk"
  <2>1. CASE x = r
    BY <2>1 DEF Begins, Tasking, Talks
  <2>2. CASE x # r
    BY <2>2 DEF Begins, Tasking
  <2>3. QED
    BY <2>1, <2>2
<1>7. QED
  BY <1>3, <1>4, <1>5, <1>6 DEF Tasking

LEMMA EndsStep ==
  ASSUME Tasking, NEW r \in Runners, Ends(r)
  PROVE  Tasking' /\ \A x \in Runners : surfaced'[x] \subseteq surfaced[x]
<1>1. ASSUME NEW x \in Runners
      PROVE  /\ doing'[x] = "nothing" <=> stage'[x] = "none"
             /\ doing'[x] # "review" => surfaced'[x] = {}
             /\ flagged'[x] <=> (doing'[x] = "meeting" /\ stage'[x] = "talk")
             /\ depth'[x] <= 1
             /\ depth'[x] = 1 => doing'[x] = "meeting" /\ stage'[x] = "talk"
             /\ surfaced'[x] \subseteq surfaced[x]
  <2>1. CASE x = r
    <3>1. /\ doing'[x] = "nothing" /\ stage'[x] = "none" /\ surfaced'[x] = {}
          /\ ~flagged'[x] /\ depth'[x] = 0
      BY <2>1 DEF Ends, Tasking
    <3>2. QED
      BY <3>1
  <2>2. CASE x # r
    BY <2>2 DEF Ends, Tasking
  <2>3. QED
    BY <2>1, <2>2
<1>2. QED
  BY <1>1 DEF Ends, Tasking, Runners

LEMMA BoardPartsStep == BoardParts /\ [BoardNext]_boardroomVars => BoardParts'
<1> SUFFICES ASSUME BoardParts, [BoardNext]_boardroomVars
             PROVE  BoardParts'
  OBVIOUS
<1> USE BoardroomConstants DEF BoardParts
<1>1. ASSUME NEW e \in Staff, FindNone(e)
      PROVE  BoardParts'
  BY <1>1 DEF FindNone, Queueing, Tasking, Covered, Pending, tasks, manager
<1>2. ASSUME NEW e \in Staff, NEW q \in Queries, InsertRequest(e, q)
      PROVE  BoardParts'
  <2>1. Tasking' /\ surfaced' = surfaced
    BY <1>2 DEF InsertRequest, Tasking, tasks
  <2>2. e # Nobody /\ request[q] = "none" /\ shown' = shown /\ during' \in {during, during \cup {q}}
        /\ request' = [request EXCEPT ![q] = "pending"] /\ asker' = [asker EXCEPT ![q] = e]
    BY <1>2 DEF InsertRequest
  <2>3. fresh' \in [Queries -> BOOLEAN] /\ filing' \in [Staff -> 0..Filers]
    BY <1>2 DEF InsertRequest, Queueing
  <2>4. Queueing'
    BY <2>2, <2>3, ZenonT(40) DEF Queueing
  <2>5. Covered'
    BY <1>2, <2>1, <2>2 DEF InsertRequest, Covered, Pending, Queueing
  <2>6. QED
    BY <1>2, <2>1, <2>4, <2>5 DEF InsertRequest
<1>3. ASSUME NEW q \in Queries, RequestAges(q)
      PROVE  BoardParts'
  BY <1>3 DEF RequestAges, Queueing, Tasking, Covered, Pending, tasks, manager
<1>4. CASE ManagerMoves
  BY <1>4 DEF ManagerMoves, Queueing, Tasking, Covered, Pending, tasks, queue
<1>5. ASSUME NEW r \in Runners, NEW what \in Talks, NEW d \in Nat, Begins(r, what, d), Tasking',
             UNCHANGED <<queue, during, manager, troubles>>
      PROVE  BoardParts'
  <2>1. Pending' = Pending /\ shown \subseteq shown' /\ shown' \subseteq shown \cup Pending
    BY <1>5 DEF Begins, queue, Pending, ToSurface
  <2>2. Queueing'
    BY <1>5, <2>1 DEF Queueing, queue, Pending
  <2>3. ASSUME NEW x \in Runners, surfaced'[x] # {}
        PROVE  Pending' \subseteq (shown \cup during)'
    <3>1. CASE x = r
      BY <1>5, <2>1, <2>3, <3>1 DEF Begins, ToSurface, Tasking
    <3>2. CASE x # r
      BY <1>5, <2>1, <2>3, <3>2 DEF Begins, Covered, Tasking
    <3>3. QED
      BY <3>1, <3>2
  <2>4. QED
    BY <1>5, <2>2, <2>3 DEF Covered
<1>6. CASE LoopWakes
  <2>1. Loop \in Runners /\ Begins(Loop, "review", 0) /\ UNCHANGED <<queue, during, manager, troubles>>
    BY <1>6 DEF LoopWakes, Runners
  <2>2. Tasking'
    BY <2>1, BeginsStep DEF Talks
  <2>3. QED
    BY <1>5, <2>1, <2>2 DEF Talks
<1>7. ASSUME NEW k \in Tasks, NEW what \in Talks, RouteStarts(k, what)
      PROVE  BoardParts'
  <2>1. k \in Runners /\ k # Loop /\ Begins(k, what, 0) /\ UNCHANGED <<queue, during, manager, troubles>>
    BY <1>7 DEF RouteStarts, Runners
  <2>2. Tasking'
    BY <2>1, BeginsStep
  <2>3. QED
    BY <1>5, <2>1, <2>2
<1>8. ASSUME NEW r \in Runners, NEW k \in Tasks, HoldMeeting(r, k)
      PROVE  BoardParts'
  <2>1. /\ k \in Runners /\ k # Loop /\ Begins(k, "meeting", depth[r] + 1)
        /\ UNCHANGED <<queue, during, manager, troubles>>
    BY <1>8 DEF HoldMeeting, Runners
  <2>2. depth[r] = 0
    BY <1>8 DEF HoldMeeting, MayHold, Tasking
  <2>3. Begins(k, "meeting", 1)
    BY <2>1, <2>2
  <2>4. Tasking'
    BY <2>1, <2>3, BeginsStep DEF Talks
  <2>5. QED
    BY <1>5, <2>1, <2>3, <2>4 DEF Talks
<1>9. ASSUME NEW r \in Runners, Ends(r), shown' = shown, during' = during, troubles' \in Nat, Queueing',
             Pending' \subseteq Pending
      PROVE  BoardParts'
  BY <1>9, EndsStep DEF Covered
<1>10. ASSUME NEW k \in Tasks, CloseTalk(k)
       PROVE  BoardParts'
  BY <1>9, <1>10 DEF CloseTalk, Runners, queue, Queueing, Pending
<1>11. ASSUME NEW r \in Runners, TaskFails(r)
       PROVE  BoardParts'
  BY <1>9, <1>11 DEF TaskFails, Runners, queue, Queueing, Pending
<1>12. ASSUME NEW r \in Runners, MarkAddressed(r)
       PROVE  BoardParts'
  <2>1. CASE surfaced[r] = {}
    <3>1. request' = request
      BY <1>12, <2>1 DEF MarkAddressed, Marks, Queueing
    <3>2. QED
      BY <1>9, <1>12, <3>1 DEF MarkAddressed, Queueing, Pending
  <2>2. CASE surfaced[r] # {}
    <3>1. request' = [q \in Queries |-> IF q \in Pending THEN "addressed" ELSE request[q]]
      BY <1>12, <2>2 DEF MarkAddressed, Marks
    <3>2. Pending' = {} /\ Queueing'
      BY <1>12, <2>2, <3>1 DEF MarkAddressed, Covered, Queueing, Pending
    <3>3. QED
      BY <1>9, <1>12, <3>2 DEF MarkAddressed
  <2>3. QED
    BY <2>1, <2>2
<1>13. ASSUME NEW r \in Runners, LogReview(r)
       PROVE  BoardParts'
  <2>1. Tasking'
    <3>1. /\ stage' = [stage EXCEPT ![r] = "logged"] /\ doing[r] = "review"
          /\ UNCHANGED <<doing, surfaced, flagged, depth>>
      BY <1>13 DEF LogReview
    <3>2. QED
      BY <3>1 DEF Tasking
  <2>2. QED
    BY <1>13, <2>1 DEF LogReview, queue, manager, Queueing, Covered, Pending
<1>14. CASE BoardRestart
  <2>1. Tasking'
    <3>1. ASSUME NEW r \in Runners
          PROVE  /\ doing'[r] = "nothing" /\ stage'[r] = "none" /\ surfaced'[r] = {}
                 /\ ~flagged'[r] /\ depth'[r] = 0
      BY <1>14 DEF BoardRestart
    <3>2. flagged' \in [Runners -> BOOLEAN] /\ surfaced' \in [Runners -> SUBSET Queries]
          /\ depth' \in [Runners -> Nat]
      BY <1>14 DEF BoardRestart
    <3>3. doing' \in [Runners -> Talks \cup {"nothing"}] /\ stage' \in [Runners -> {"none", "talk", "logged"}]
      BY <1>14 DEF BoardRestart
    <3>4. QED
      BY <3>1, <3>2, <3>3 DEF Tasking, Runners
  <2>2. Queueing' /\ Covered'
    BY <1>14 DEF BoardRestart, Queueing, Covered
  <2>3. QED
    BY <1>14, <2>1, <2>2 DEF BoardRestart
<1>15. CASE UNCHANGED boardroomVars
  BY <1>15 DEF boardroomVars, queue, tasks, manager, Queueing, Tasking, Covered, Pending
<1>16. QED
  BY <1>1, <1>2, <1>3, <1>4, <1>6, <1>7, <1>8, <1>10, <1>11, <1>12, <1>13, <1>14, <1>15
  DEF BoardNext, ReviewStep

\* The fresh requests of an employee are finitely many.
FreshCounts == \A e \in Staff : IsFiniteSet(FreshOf(e)) /\ Cardinality(FreshOf(e)) \in Nat

LEMMA FreshCount == FreshCounts
<1>1. IsFiniteSet(Queries)
  BY FS_Interval, BoardroomConstants DEF Queries
<1>2. \A e \in Staff : FreshOf(e) \in SUBSET Queries
  BY DEF FreshOf, Pending
<1>3. QED
  BY <1>1, <1>2, CountNat DEF FreshCounts

LEMMA FreshShrinks ==
  ASSUME NEW e \in Staff, BoardParts, BoardParts', FreshRequestsBounded, FreshCounts, FreshCounts',
         FreshOf(e)' \subseteq FreshOf(e), filing'[e] <= filing[e]
  PROVE  Cardinality(FreshOf(e)') + filing'[e] <= Filers
<1>1. Cardinality(FreshOf(e)') <= Cardinality(FreshOf(e)) /\ Cardinality(FreshOf(e)') \in Nat
  BY CountNat DEF FreshCounts
<1>2. Cardinality(FreshOf(e)) + filing[e] <= Filers
  BY DEF FreshRequestsBounded, FreshOf
<1>3. Cardinality(FreshOf(e)) \in Nat /\ filing[e] \in Nat /\ filing'[e] \in Nat /\ Filers \in Nat
  BY BoardroomConstants DEF BoardParts, Queueing, FreshCounts
<1>4. QED
  BY <1>1, <1>2, <1>3

LEMMA FreshInit == BoardInit => FreshRequestsBounded
<1> SUFFICES ASSUME BoardInit, NEW e \in Staff
             PROVE  Cardinality(FreshOf(e)) + filing[e] <= Filers
  BY DEF FreshRequestsBounded, FreshOf
<1>1. FreshOf(e) = {} /\ filing[e] = 0
  BY DEF BoardInit, FreshOf, Pending
<1>2. QED
  BY <1>1, FS_EmptySet, BoardroomConstants

LEMMA FreshStep ==
  BoardParts /\ BoardParts' /\ FreshRequestsBounded /\ [BoardNext]_boardroomVars
      => FreshRequestsBounded'
<1> SUFFICES ASSUME BoardParts, BoardParts', FreshRequestsBounded, [BoardNext]_boardroomVars,
                    NEW e \in Staff
             PROVE  Cardinality(FreshOf(e)') + filing'[e] <= Filers
  BY DEF FreshRequestsBounded, FreshOf
<1>1. FreshCounts /\ FreshCounts'
  BY FreshCount, PTL
<1>2. Filers \in Nat /\ filing[e] \in 0..Filers /\ Cardinality(FreshOf(e)) \in Nat
      /\ filing \in [Staff -> 0..Filers] /\ Cardinality(FreshOf(e)) + filing[e] <= Filers
  BY <1>1, BoardroomConstants
  DEF BoardParts, Queueing, FreshCounts, FreshRequestsBounded, FreshOf
<1>3. ASSUME FreshOf(e)' \subseteq FreshOf(e), filing'[e] <= filing[e]
      PROVE  Cardinality(FreshOf(e)') + filing'[e] <= Filers
  BY <1>1, <1>3, FreshShrinks
<1>4. ASSUME NEW f \in Staff, FindNone(f)
      PROVE  Cardinality(FreshOf(e)') + filing'[e] <= Filers
  <2>1. FreshOf(e)' = FreshOf(e)
    BY <1>4 DEF FindNone, FreshOf, Pending
  <2>2. CASE f = e
    <3>1. FreshOf(e) = {} /\ filing'[e] = filing[e] + 1 /\ filing[e] < Filers
      BY <1>2, <1>4, <2>2 DEF FindNone
    <3>2. Cardinality(FreshOf(e)') = 0
      BY <2>1, <3>1, FS_EmptySet
    <3>3. QED
      BY <1>2, <3>1, <3>2
  <2>3. CASE f # e
    BY <1>2, <1>3, <1>4, <2>1, <2>3 DEF FindNone
  <2>4. QED
    BY <2>2, <2>3
<1>5. ASSUME NEW f \in Staff, NEW q \in Queries, InsertRequest(f, q)
      PROVE  Cardinality(FreshOf(e)') + filing'[e] <= Filers
  <2>1. CASE f = e
    <3>1. FreshOf(e)' \in SUBSET (FreshOf(e) \cup {q})
      BY <1>5 DEF InsertRequest, FreshOf, Pending, BoardParts, Queueing
    <3>2. Cardinality(FreshOf(e)') \in Nat /\ Cardinality(FreshOf(e)') <= Cardinality(FreshOf(e)) + 1
      BY <1>1, <3>1, CountMore DEF FreshCounts
    <3>3. filing'[e] = filing[e] - 1
      BY <1>2, <1>5, <2>1 DEF InsertRequest
    <3>4. QED
      BY <1>2, <3>2, <3>3
  <2>2. CASE f # e
    <3>1. FreshOf(e)' \subseteq FreshOf(e) /\ filing'[e] = filing[e]
      BY <1>5, <2>2 DEF InsertRequest, FreshOf, Pending, BoardParts, Queueing
    <3>2. QED
      BY <1>2, <1>3, <3>1
  <2>3. QED
    BY <2>1, <2>2
<1>6. ASSUME NEW q \in Queries, RequestAges(q)
      PROVE  Cardinality(FreshOf(e)') + filing'[e] <= Filers
  <2>1. FreshOf(e)' \subseteq FreshOf(e) /\ filing' = filing
    BY <1>6 DEF RequestAges, FreshOf, Pending, BoardParts, Queueing
  <2>2. QED
    BY <1>2, <1>3, <2>1
<1>7. ASSUME NEW r \in Runners, MarkAddressed(r)
      PROVE  Cardinality(FreshOf(e)') + filing'[e] <= Filers
  <2>1. FreshOf(e)' \subseteq FreshOf(e) /\ filing' = filing
    BY <1>7 DEF MarkAddressed, FreshOf, Pending, BoardParts, Queueing
  <2>2. QED
    BY <1>2, <1>3, <2>1
<1>8. CASE BoardRestart
  <2>1. FreshOf(e)' \subseteq FreshOf(e) /\ filing'[e] = 0
    BY <1>8 DEF BoardRestart, FreshOf, Pending
  <2>2. QED
    BY <1>2, <1>3, <2>1
<1>9. ASSUME UNCHANGED queue
      PROVE  Cardinality(FreshOf(e)') + filing'[e] <= Filers
  <2>1. FreshOf(e)' \subseteq FreshOf(e) /\ filing' = filing
    BY <1>9 DEF queue, FreshOf, Pending
  <2>2. QED
    BY <1>2, <1>3, <2>1
<1>10. QED
  BY <1>4, <1>5, <1>6, <1>7, <1>8, <1>9
  DEF BoardNext, ReviewStep, boardroomVars, ManagerMoves, LoopWakes, RouteStarts, CloseTalk,
      TaskFails, HoldMeeting, LogReview

\* The rows of the requests and what each task of the manager is doing keep their types.
THEOREM BoardTypeCorrect == BoardSpec => []BoardTypeOK
  BY PartsType, BoardPartsInit, BoardPartsStep, PTL DEF BoardSpec

\* However meetings, reviews, filings and restarts interleave: no 1:1 schedules a 1:1,
\* nothing is addressed unless a review showed it or ran while it was filed, and the
\* tool's SELECT before its INSERT lets through no more than the calls in flight.
THEOREM TheMeetingRulesHold == BoardSpec => []MeetingRulesHold
<1>1. BoardParts /\ FreshRequestsBounded => MeetingRulesHold
  BY DEF BoardParts, Tasking, Queueing, MeetingRulesHold, MeetingsDoNotBreed, AddressedInReview
<1>2. QED
  BY <1>1, BoardPartsInit, BoardPartsStep, FreshInit, FreshStep, PTL DEF BoardSpec

(***************************************************************************)
(* ManagerDesk.  On a cell where no call was overtaken, one call at most   *)
(* has updated the row and not logged it yet: its entry begins where the   *)
(* trail ends and ends at the value in the row.                            *)
(***************************************************************************)
DeskInv ==
    /\ DeskTypeOK
    /\ DOMAIN column = Cells /\ DOMAIN trailed = Cells /\ DOMAIN writing = ToolCalls
    /\ column = [x \in Cells |-> column[x]] /\ trailed = [x \in Cells |-> trailed[x]]
    /\ writing = [c \in ToolCalls |-> writing[c]]
    /\ \A c \in ToolCalls : writing[c] = [cell |-> writing[c].cell, before |-> writing[c].before,
                                          after |-> writing[c].after, stage |-> writing[c].stage]

Numbered == Fields \cup Catalogued

LEMMA CellDomains ==
  /\ \A e \in Employees : /\ <<e, "allowed_combinations">> \in Cells
                          /\ DomainOf(<<e, "allowed_combinations">>) = Playbooks
                          /\ <<e, "is_paused">> \in Cells
                          /\ DomainOf(<<e, "is_paused">>) = BOOLEAN
  /\ \A e \in Employees, k \in Numbered :
        /\ <<e, k>> \in Cells
        /\ DomainOf(<<e, k>>) = {Blank} \cup Lowest..Highest
  /\ <<Company, "daily_profit_target_usd">> \in Cells
  /\ DomainOf(<<Company, "daily_profit_target_usd">>) = {Blank} \cup Lowest..Highest
<1>1. ASSUME NEW e \in Employees
      PROVE  /\ <<e, "allowed_combinations">> \in Cells /\ <<e, "is_paused">> \in Cells
             /\ DomainOf(<<e, "allowed_combinations">>) = Playbooks
             /\ DomainOf(<<e, "is_paused">>) = BOOLEAN
  BY DEF Cells, DomainOf
<1>2. ASSUME NEW e \in Employees, NEW k \in Numbered
      PROVE  <<e, k>> \in Cells /\ DomainOf(<<e, k>>) = {Blank} \cup Lowest..Highest
  <2>1. k # "allowed_combinations" /\ k # "is_paused"
    BY ManagerDeskConstants DEF Numbered, Catalogued
  <2>2. <<e, k>> \in Cells
    BY DEF Cells, Numbered
  <2>3. QED
    BY <2>1, <2>2 DEF DomainOf
<1>3. /\ <<Company, "daily_profit_target_usd">> \in Cells
      /\ DomainOf(<<Company, "daily_profit_target_usd">>) = {Blank} \cup Lowest..Highest
  BY DEF Cells, DomainOf
<1>4. QED
  BY <1>1, <1>2, <1>3

LEMMA SeqIsFunction ==
  ASSUME NEW S, NEW q \in Seq(S), NEW n \in Nat, Len(q) = n
  PROVE  q \in [1..n -> S]
  OBVIOUS

LEMMA EmptyPlaybook == <<>> \in Playbooks
<1>1. 0 \in 0..Cardinality(Combos) /\ <<>> \in [1..0 -> Combos]
  BY ManagerDeskConstants, FS_CardinalityType
<1>2. IsInjective(<<>>)
  BY DEF IsInjective
<1>3. QED
  BY <1>1, <1>2 DEF Playbooks

LEMMA PlaybookGrows ==
  ASSUME NEW p \in Playbooks, NEW x \in Combos, ~Contains(p, x)
  PROVE  Append(p, x) \in Playbooks
<1> DEFINE m == Cardinality(Combos)
           q == Append(p, x)
<1>1. m \in Nat
  BY ManagerDeskConstants, FS_CardinalityType
<1>2. PICK n \in 0..m : p \in [1..n -> Combos]
  BY DEF Playbooks
<1>3. n \in Nat /\ p \in Seq(Combos) /\ Len(p) = n /\ \A a, b \in 1..n : p[a] = p[b] => a = b
  BY <1>1, <1>2 DEF Playbooks, IsInjective
<1>4. /\ q \in Seq(Combos) /\ Len(q) = n + 1 /\ DOMAIN q = 1..n + 1
      /\ \A i \in 1..n : q[i] = p[i]
      /\ q[n + 1] = x
  BY <1>3
<1>5. \A i \in 1..n : p[i] # x
  BY <1>3 DEF Contains
<1> HIDE DEF q
<1>6. q \in [1..n + 1 -> Combos]
  BY <1>3, <1>4, SeqIsFunction
<1>7. \A a, b \in 1..n + 1 : q[a] = q[b] => a = b
  BY <1>3, <1>4, <1>5
<1>8. n + 1 <= m
  <2>1. q \in Injection(1..n + 1, Combos)
    BY <1>6, <1>7 DEF Injection, IsInjective
  <2>2. Cardinality(1..n + 1) <= m
    BY <2>1, FS_Injection, ManagerDeskConstants
  <2>3. Cardinality(1..n + 1) = n + 1
    BY <1>3, FS_Interval
  <2>4. QED
    BY <2>2, <2>3
<1>9. n + 1 \in 0..m
  BY <1>1, <1>3, <1>8
<1> HIDE DEF m
<1>10. q \in Playbooks
  BY <1>4, <1>6, <1>7, <1>9 DEF Playbooks, IsInjective, m
<1>11. QED
  BY <1>10 DEF q

LEMMA DeskTypeInit == DeskInit => DeskInv
<1> SUFFICES ASSUME DeskInit
             PROVE  DeskInv
  OBVIOUS
<1>1. \A x \in Cells : AtFirst(x) \in DomainOf(x)
  BY EmptyPlaybook DEF AtFirst, DomainOf
<1>2. QED
  BY <1>1 DEF DeskInit, DeskInv, DeskTypeOK, NoCall

LEMMA ToolReads ==
  ASSUME DeskInv, NEW c \in ToolCalls, NEW role, ToolStep(c, role)
  PROVE  \/ \E tool, x, v : x \in Cells /\ v \in DomainOf(x) /\ Reads(c, role, tool, x, v)
         \/ \E e \in Employees, on \in BOOLEAN : SetPaused(c, role, e, on)
<1>1. ASSUME NEW e \in Employees, NEW k \in Numbered, NEW v \in Lowest..Highest, NEW tool,
             Reads(c, role, tool, <<e, k>>, v)
      PROVE  \E t, x, w : x \in Cells /\ w \in DomainOf(x) /\ Reads(c, role, t, x, w)
  <2>1. <<e, k>> \in Cells /\ v \in DomainOf(<<e, k>>)
    BY CellDomains
  <2>2. QED
    BY <1>1, <2>1
<1>2. ASSUME NEW e \in Employees, NEW v, NEW k \in Fields, AdjustEmployee(c, role, e, k, v)
      PROVE  \E t, x, w : x \in Cells /\ w \in DomainOf(x) /\ Reads(c, role, t, x, w)
  BY <1>1, <1>2 DEF AdjustEmployee, InRange, Numbered
<1>3. ASSUME NEW e \in Employees, NEW v,
             \/ SetStrategies(c, role, e, v) \/ SetTradeMode(c, role, e, v)
             \/ SetAllowedAssets(c, role, e, v) \/ SetForecastingModel(c, role, e, v)
      PROVE  \E t, x, w : x \in Cells /\ w \in DomainOf(x) /\ Reads(c, role, t, x, w)
  BY <1>1, <1>3
  DEF SetStrategies, SetTradeMode, SetAllowedAssets, SetForecastingModel, Catalogue, Numbered,
      Catalogued
<1>4. ASSUME NEW v, SetCompanyTarget(c, role, v)
      PROVE  \E t, x, w : x \in Cells /\ w \in DomainOf(x) /\ Reads(c, role, t, x, w)
  <2>1. (IF v = 0 THEN Blank ELSE v) \in {Blank} \cup Lowest..Highest
    BY <1>4 DEF SetCompanyTarget
  <2>2. QED
    BY <1>4, <2>1, CellDomains DEF SetCompanyTarget
<1>5. ASSUME NEW e \in Employees, NEW x \in Combos \cup {NoCombo}, AddCombination(c, role, e, x)
      PROVE  \E t, y, w : y \in Cells /\ w \in DomainOf(y) /\ Reads(c, role, t, y, w)
  <2>1. column[<<e, "allowed_combinations">>] \in Playbooks
    BY CellDomains, ZenonT(40) DEF DeskInv, DeskTypeOK
  <2>2. x \in Combos /\ ~Contains(column[<<e, "allowed_combinations">>], x)
    BY <1>5 DEF AddCombination, IsNew
  <2>3. Append(column[<<e, "allowed_combinations">>], x) \in Playbooks
    BY <2>1, <2>2, PlaybookGrows
  <2>4. QED
    BY <1>5, <2>3, CellDomains DEF AddCombination
<1>6. ASSUME NEW e \in Employees, ClearCombinations(c, role, e)
      PROVE  \E t, y, w : y \in Cells /\ w \in DomainOf(y) /\ Reads(c, role, t, y, w)
  BY <1>6, EmptyPlaybook, CellDomains DEF ClearCombinations
<1>7. QED
  BY <1>2, <1>3, <1>4, <1>5, <1>6 DEF ToolStep

LEMMA ReadsType ==
  ASSUME DeskInv, NEW c \in ToolCalls, NEW role, NEW tool, NEW x \in Cells, NEW v \in DomainOf(x),
         Reads(c, role, tool, x, v)
  PROVE  DeskInv'
<1>1. /\ writing' = [writing EXCEPT ![c] = [cell |-> x, before |-> column[x], after |-> v,
                                             stage |-> "update"]]
      /\ UNCHANGED <<column, trailed, broken, contended>>
  BY DEF Reads
<1>2. \A d \in ToolCalls :
         writing'[d] = IF d = c THEN [cell |-> x, before |-> column[x], after |-> v, stage |-> "update"]
                       ELSE writing[d]
  BY <1>1 DEF DeskInv
<1>3. DOMAIN writing' = ToolCalls /\ writing' = [d \in ToolCalls |-> writing'[d]]
  BY <1>1 DEF DeskInv
<1>4. QED
  BY <1>1, <1>2, <1>3 DEF DeskInv, DeskTypeOK

LEMMA DeskTypeStep == DeskInv /\ [DeskNext]_deskVars => DeskInv'
<1> SUFFICES ASSUME DeskInv, [DeskNext]_deskVars
             PROVE  DeskInv'
  OBVIOUS
<1>1. ASSUME NEW c \in ToolCalls, NEW role, ToolStep(c, role)
      PROVE  DeskInv'
  <2>1. ASSUME NEW e \in Employees, NEW on \in BOOLEAN, SetPaused(c, role, e, on)
        PROVE  DeskInv'
    <3> DEFINE x == <<e, "is_paused">>
    <3>1. x \in Cells /\ on \in DomainOf(x)
      BY CellDomains
    <3>2. /\ column' = [column EXCEPT ![x] = on] /\ UNCHANGED <<trailed, broken>>
          /\ contended' \in {contended, contended \cup {x}}
          /\ writing' = [writing EXCEPT ![c] = [cell |-> x, before |-> column[x], after |-> on,
                                                stage |-> "log"]]
      BY <2>1 DEF SetPaused
    <3> HIDE DEF x
    <3>3. \A d \in ToolCalls :
             writing'[d] = IF d = c THEN [cell |-> x, before |-> column[x], after |-> on, stage |-> "log"]
                           ELSE writing[d]
      BY <3>2 DEF DeskInv
    <3>4. DOMAIN writing' = ToolCalls /\ writing' = [d \in ToolCalls |-> writing'[d]]
      BY <3>2 DEF DeskInv
    <3>5. /\ DOMAIN column' = Cells /\ column' = [y \in Cells |-> column'[y]]
          /\ \A y \in Cells : column'[y] = IF y = x THEN on ELSE column[y]
      BY <3>2 DEF DeskInv
    <3>6. QED
      BY <3>1, <3>2, <3>3, <3>4, <3>5 DEF DeskInv, DeskTypeOK
  <2>2. QED
    BY <1>1, <2>1, ToolReads, ReadsType
<1>2. ASSUME NEW c \in ToolCalls, Update(c)
      PROVE  DeskInv'
  <2> DEFINE x == writing[c].cell
  <2>1. /\ x \in Cells /\ writing[c].after \in DomainOf(x) /\ writing[c].stage = "update"
    BY <1>2 DEF Update, DeskInv, DeskTypeOK
  <2>2. /\ column' = [column EXCEPT ![x] = writing[c].after] /\ UNCHANGED <<trailed, broken>>
        /\ contended' \in {contended, contended \cup {x}}
        /\ writing' = [writing EXCEPT ![c].stage = "log"]
    BY <1>2 DEF Update
  <2>3. writing[c] = [cell |-> x, before |-> writing[c].before, after |-> writing[c].after,
                      stage |-> writing[c].stage]
    BY DEF DeskInv
  <2>4. \A d \in ToolCalls :
           writing'[d] = IF d = c THEN [cell |-> x, before |-> writing[c].before,
                                        after |-> writing[c].after, stage |-> "log"]
                         ELSE writing[d]
    BY <2>2, <2>3 DEF DeskInv
  <2> HIDE DEF x
  <2>5. DOMAIN writing' = ToolCalls /\ writing' = [d \in ToolCalls |-> writing'[d]]
    BY <2>2 DEF DeskInv
  <2>6. /\ DOMAIN column' = Cells /\ column' = [y \in Cells |-> column'[y]]
        /\ \A y \in Cells : column'[y] = IF y = x THEN writing[c].after ELSE column[y]
    BY <2>1, <2>2 DEF DeskInv
  <2>7. QED
    BY <2>1, <2>2, <2>4, <2>5, <2>6 DEF DeskInv, DeskTypeOK
<1>3. ASSUME NEW c \in ToolCalls, writing' = [writing EXCEPT ![c] = NoCall], column' = column,
             trailed' = trailed \/ (writing[c].stage = "log"
                                      /\ trailed' = [trailed EXCEPT ![writing[c].cell] = writing[c].after]),
             broken' \subseteq broken \cup Cells, contended' \subseteq contended \cup Cells
      PROVE  DeskInv'
  <2>1. /\ DOMAIN writing' = ToolCalls /\ writing' = [d \in ToolCalls |-> writing'[d]]
        /\ \A d \in ToolCalls : writing'[d] = IF d = c THEN NoCall ELSE writing[d]
    BY <1>3 DEF DeskInv
  <2>2. /\ DOMAIN trailed' = Cells /\ trailed' = [y \in Cells |-> trailed'[y]]
        /\ \A y \in Cells : trailed'[y] \in DomainOf(y)
    BY <1>3 DEF DeskInv, DeskTypeOK
  <2>3. QED
    BY <1>3, <2>1, <2>2 DEF DeskInv, DeskTypeOK, NoCall
<1>4. ASSUME NEW c \in ToolCalls, LogAction(c)
      PROVE  DeskInv'
  <2>1. writing[c].stage = "log" /\ writing[c].cell \in Cells
    BY <1>4 DEF LogAction, DeskInv, DeskTypeOK
  <2>2. /\ writing' = [writing EXCEPT ![c] = NoCall] /\ column' = column /\ contended' = contended
        /\ trailed' = [trailed EXCEPT ![writing[c].cell] = writing[c].after]
        /\ broken' \subseteq broken \cup Cells
    BY <1>4, <2>1 DEF LogAction, Logged
  <2>3. QED
    BY <1>3, <2>1, <2>2
<1>5. ASSUME NEW c \in ToolCalls, CallDies(c)
      PROVE  DeskInv'
  <2>1. writing[c].stage # "none" /\ writing[c].cell \in Cells
    BY <1>5 DEF CallDies, DeskInv, DeskTypeOK
  <2>2. QED
    BY <1>3, <1>5, <2>1 DEF CallDies
<1>6. ASSUME NEW x \in Cells, NEW v \in DomainOf(x), CeoEdits(x, v)
      PROVE  DeskInv'
  <2>1. /\ column' = [column EXCEPT ![x] = v] /\ trailed' = [trailed EXCEPT ![x] = v]
        /\ contended' \in {contended, contended \cup {x}} /\ UNCHANGED <<writing, broken>>
    BY <1>6 DEF CeoEdits
  <2>2. /\ DOMAIN column' = Cells /\ column' = [y \in Cells |-> column'[y]]
        /\ DOMAIN trailed' = Cells /\ trailed' = [y \in Cells |-> trailed'[y]]
        /\ \A y \in Cells : column'[y] \in DomainOf(y) /\ trailed'[y] \in DomainOf(y)
    BY <2>1 DEF DeskInv, DeskTypeOK
  <2>3. QED
    BY <2>1, <2>2 DEF DeskInv, DeskTypeOK
<1>7. CASE UNCHANGED deskVars
  BY <1>7 DEF deskVars, DeskInv, DeskTypeOK
<1>8. QED
  BY <1>1, <1>2, <1>4, <1>5, <1>6, <1>7 DEF DeskNext

\* Every cell holds a value of its column, and every call in flight is about to store
\* or log one: no playbook lists a combination twice, whatever calls overlap.
THEOREM DeskTypeCorrect == DeskSpec => []DeskTypeOK
<1>1. DeskInv => DeskTypeOK
  BY DEF DeskInv
<1>2. QED
  BY <1>1, DeskTypeInit, DeskTypeStep, PTL DEF DeskSpec

\* The calls that updated cell x and have not logged it.
Logging(x) == {c \in ToolCalls : writing[c].stage = "log" /\ writing[c].cell = x}

TrailInv ==
    \A x \in Cells \ contended :
        /\ x \notin broken
        /\ \A c, d \in Logging(x) : c = d
        /\ \A c \in Logging(x) : writing[c].before = trailed[x] /\ writing[c].after = column[x]
        /\ Logging(x) = {} => column[x] = trailed[x]

LEMMA TrailInit == DeskInit => TrailInv
  BY DEF DeskInit, TrailInv, Logging, NoCall

\* A step that leaves the cell and the calls that logged it alone.
LEMMA TrailFrame ==
  ASSUME TrailInv, NEW x \in Cells \ contended,
         column'[x] = column[x], trailed'[x] = trailed[x], x \in broken' => x \in broken,
         Logging(x)' = Logging(x), \A c \in Logging(x) : writing'[c] = writing[c]
  PROVE  /\ x \notin broken'
         /\ \A c, d \in Logging(x)' : c = d
         /\ \A c \in Logging(x)' : writing'[c].before = trailed'[x] /\ writing'[c].after = column'[x]
         /\ Logging(x)' = {} => column'[x] = trailed'[x]
  BY DEF TrailInv

LEMMA TrailStep == DeskInv /\ TrailInv /\ [DeskNext]_deskVars => TrailInv'
<1> DEFINE Fine(x) == /\ x \notin broken'
                      /\ \A c, d \in Logging(x)' : c = d
                      /\ \A c \in Logging(x)' : /\ writing'[c].before = trailed'[x]
                                                /\ writing'[c].after = column'[x]
                      /\ Logging(x)' = {} => column'[x] = trailed'[x]
<1> SUFFICES ASSUME DeskInv, TrailInv, [DeskNext]_deskVars, NEW x \in Cells \ contended'
             PROVE  Fine(x)
  BY DEF TrailInv
<1>1. ASSUME NEW c \in ToolCalls, NEW role, NEW tool, NEW y, NEW v, Reads(c, role, tool, y, v)
      PROVE  Fine(x)
  <2>1. /\ writing[c] = NoCall /\ UNCHANGED <<column, trailed, broken, contended>>
        /\ \A d \in ToolCalls : writing'[d] = IF d = c THEN [cell |-> y, before |-> column[y],
                                                             after |-> v, stage |-> "update"]
                                              ELSE writing[d]
    BY <1>1 DEF Reads, DeskInv
  <2>2. Logging(x)' = Logging(x) /\ c \notin Logging(x)
    BY <2>1 DEF Logging, NoCall
  <2>3. \A d \in Logging(x) : writing'[d] = writing[d]
    BY <2>1, <2>2 DEF Logging
  <2>4. QED
    BY <2>1, <2>2, <2>3, TrailFrame
<1>2. ASSUME NEW c \in ToolCalls, NEW role, NEW e \in Employees, NEW on \in BOOLEAN,
             SetPaused(c, role, e, on)
      PROVE  Fine(x)
  <2> DEFINE y == <<e, "is_paused">>
  <2>1. y \in Cells
    BY CellDomains
  <2>2. /\ writing[c] = NoCall /\ UNCHANGED <<trailed, broken>>
        /\ column' = [column EXCEPT ![y] = on]
        /\ contended' = IF Rivals(c, y) # {} THEN contended \cup {y} ELSE contended
        /\ writing' = [writing EXCEPT ![c] = [cell |-> y, before |-> column[y], after |-> on,
                                              stage |-> "log"]]
    BY <1>2 DEF SetPaused
  <2> HIDE DEF y
  <2>3. \A d \in ToolCalls : writing'[d] = IF d = c THEN [cell |-> y, before |-> column[y],
                                                          after |-> on, stage |-> "log"]
                                           ELSE writing[d]
    BY <2>2 DEF DeskInv
  <2>4. \A z \in Cells : column'[z] = IF z = y THEN on ELSE column[z]
    BY <2>2 DEF DeskInv
  <2>5. x \notin contended
    BY <2>2
  <2>6. CASE x = y
    <3>1. Rivals(c, x) = {}
      BY <2>2, <2>6
    <3>2. Logging(x) = {} /\ Logging(x)' = {c}
      BY <2>2, <2>3, <2>6, <3>1 DEF Logging, Rivals, NoCall
    <3>3. column[x] = trailed[x] /\ x \notin broken
      BY <2>5, <3>2 DEF TrailInv
    <3>4. writing'[c].before = column[x] /\ writing'[c].after = column'[x]
      BY <2>3, <2>4, <2>6
    <3>5. QED
      BY <2>2, <3>2, <3>3, <3>4
  <2>7. CASE x # y
    <3>1. Logging(x)' = Logging(x) /\ c \notin Logging(x)
      BY <2>2, <2>3, <2>7 DEF Logging, NoCall
    <3>2. \A d \in Logging(x) : writing'[d] = writing[d]
      BY <2>3, <3>1 DEF Logging
    <3>3. QED
      BY <2>2, <2>4, <2>5, <2>7, <3>1, <3>2, TrailFrame
  <2>8. QED
    BY <2>6, <2>7
<1>3. ASSUME NEW c \in ToolCalls, Update(c)
      PROVE  Fine(x)
  <2> DEFINE y == writing[c].cell
  <2>1. y \in Cells /\ writing[c].stage = "update"
    BY <1>3 DEF Update, DeskInv, DeskTypeOK
  <2>2. /\ column' = [column EXCEPT ![y] = writing[c].after] /\ UNCHANGED <<trailed, broken>>
        /\ contended' = IF Overtakes(c) THEN contended \cup {y} ELSE contended
        /\ writing' = [writing EXCEPT ![c].stage = "log"]
    BY <1>3 DEF Update
  <2>3. writing[c] = [cell |-> y, before |-> writing[c].before, after |-> writing[c].after,
                      stage |-> writing[c].stage]
    BY DEF DeskInv
  <2>4. \A d \in ToolCalls :
           writing'[d] = IF d = c THEN [cell |-> y, before |-> writing[c].before,
                                        after |-> writing[c].after, stage |-> "log"]
                         ELSE writing[d]
    BY <2>2, <2>3 DEF DeskInv
  <2>5. Overtakes(c) <=> column[y] # writing[c].before
                         \/ \E d \in Rivals(c, y) : writing[d].stage = "log"
    BY DEF Overtakes
  <2>51. Rivals(c, y) = {d \in ToolCalls \ {c} : writing[d].cell = y}
    BY DEF Rivals
  <2> HIDE DEF y
  <2>6. \A z \in Cells : column'[z] = IF z = y THEN writing[c].after ELSE column[z]
    BY <2>1, <2>2 DEF DeskInv
  <2>7. x \notin contended
    BY <2>2
  <2>8. CASE x = y
    <3>1. column[x] = writing[c].before /\ \A d \in Rivals(c, x) : writing[d].stage # "log"
      BY <2>2, <2>5, <2>8
    <3>2. Logging(x) = {} /\ Logging(x)' = {c}
      BY <2>1, <2>4, <2>8, <2>51, <3>1 DEF Logging
    <3>3. column[x] = trailed[x] /\ x \notin broken
      BY <2>7, <3>2 DEF TrailInv
    <3>4. writing'[c].before = column[x] /\ writing'[c].after = column'[x]
      BY <2>4, <2>6, <2>8, <3>1
    <3>5. QED
      BY <2>2, <3>2, <3>3, <3>4
  <2>9. CASE x # y
    <3>1. Logging(x)' = Logging(x) /\ c \notin Logging(x)
      BY <2>1, <2>4, <2>9 DEF Logging
    <3>2. \A d \in Logging(x) : writing'[d] = writing[d]
      BY <2>4, <3>1 DEF Logging
    <3>3. QED
      BY <2>2, <2>6, <2>7, <2>9, <3>1, <3>2, TrailFrame
  <2>10. QED
    BY <2>8, <2>9
<1>4. ASSUME NEW c \in ToolCalls, LogAction(c)
      PROVE  Fine(x)
  <2> DEFINE y == writing[c].cell
  <2>1. y \in Cells /\ writing[c].stage = "log" /\ x \notin contended
    BY <1>4 DEF LogAction, DeskInv, DeskTypeOK
  <2>2. /\ broken' = IF writing[c].before # trailed[y] THEN broken \cup {y} ELSE broken
        /\ trailed' = [trailed EXCEPT ![y] = writing[c].after]
        /\ writing' = [writing EXCEPT ![c] = NoCall] /\ column' = column
    BY <1>4 DEF LogAction, Logged
  <2>3. \A d \in ToolCalls : writing'[d] = IF d = c THEN NoCall ELSE writing[d]
    BY <2>2 DEF DeskInv
  <2>4. \A z \in Cells : trailed'[z] = IF z = y THEN writing[c].after ELSE trailed[z]
    BY <2>2 DEF DeskInv
  <2>5. CASE x = y
    <3>1. c \in Logging(x)
      BY <2>1, <2>5 DEF Logging
    <3>2. writing[c].before = trailed[x] /\ writing[c].after = column[x] /\ x \notin broken
          /\ Logging(x) = {c}
      BY <2>1, <3>1 DEF TrailInv
    <3>3. Logging(x)' = {}
      BY <2>3, <3>2 DEF Logging, NoCall
    <3>4. QED
      BY <2>2, <2>4, <2>5, <3>2, <3>3
  <2>6. CASE x # y
    <3>1. Logging(x)' = Logging(x) /\ c \notin Logging(x)
      BY <2>3, <2>6 DEF Logging, NoCall
    <3>2. \A d \in Logging(x) : writing'[d] = writing[d]
      BY <2>3, <3>1 DEF Logging
    <3>3. column'[x] = column[x] /\ trailed'[x] = trailed[x] /\ (x \in broken' => x \in broken)
      BY <2>2, <2>4, <2>6
    <3>4. QED
      BY <2>1, <3>1, <3>2, <3>3, TrailFrame
  <2>7. QED
    BY <2>5, <2>6
<1>5. ASSUME NEW c \in ToolCalls, CallDies(c)
      PROVE  Fine(x)
  <2>1. /\ writing' = [writing EXCEPT ![c] = NoCall] /\ UNCHANGED <<column, trailed, broken>>
        /\ x \notin contended /\ (writing[c].stage = "log" => x # writing[c].cell)
    BY <1>5 DEF CallDies
  <2>2. \A d \in ToolCalls : writing'[d] = IF d = c THEN NoCall ELSE writing[d]
    BY <2>1 DEF DeskInv
  <2>3. Logging(x)' = Logging(x) /\ c \notin Logging(x)
    BY <2>1, <2>2 DEF Logging, NoCall
  <2>4. \A d \in Logging(x) : writing'[d] = writing[d]
    BY <2>2, <2>3 DEF Logging
  <2>5. QED
    BY <2>1, <2>3, <2>4, TrailFrame
<1>6. ASSUME NEW y \in Cells, NEW v \in DomainOf(y), CeoEdits(y, v)
      PROVE  Fine(x)
  <2>1. /\ column' = [column EXCEPT ![y] = v] /\ trailed' = [trailed EXCEPT ![y] = v]
        /\ UNCHANGED <<writing, broken>> /\ x \notin contended
        /\ (\E c \in ToolCalls : writing[c].cell = y) => x # y
    BY <1>6 DEF CeoEdits
  <2>2. Logging(x)' = Logging(x)
    BY <2>1 DEF Logging
  <2>3. CASE x = y
    <3>1. Logging(x) = {} /\ column'[x] = trailed'[x]
      BY <2>1, <2>3 DEF Logging, DeskInv
    <3>2. x \notin broken
      BY <2>1 DEF TrailInv
    <3>3. QED
      BY <2>1, <2>2, <3>1, <3>2
  <2>4. CASE x # y
    <3>1. column'[x] = column[x] /\ trailed'[x] = trailed[x]
      BY <2>1, <2>4 DEF DeskInv
    <3>2. QED
      BY <2>1, <2>2, <3>1, TrailFrame
  <2>5. QED
    BY <2>3, <2>4
<1>7. CASE UNCHANGED deskVars
  <2>1. Logging(x)' = Logging(x) /\ UNCHANGED <<column, trailed, broken, contended, writing>>
    BY <1>7 DEF deskVars, Logging
  <2>2. QED
    BY <2>1, TrailFrame
<1> HIDE DEF Fine
<1>8. ASSUME NEW c \in ToolCalls, NEW role, ToolStep(c, role)
      PROVE  Fine(x)
  BY <1>1, <1>2, <1>8, ToolReads
<1>9. QED
  BY <1>3, <1>4, <1>5, <1>6, <1>7, <1>8 DEF DeskNext

\* Whatever tools the agents of a company call side by side, and whatever the CEO edits:
\* the trail of a cell where no call was overtaken, or died unlogged, replays to the row.
THEOREM TheTrailReplays == DeskSpec => []TrailReplays
<1>1. TrailInv => TrailReplays
  BY DEF TrailInv, TrailReplays, Logging
<1>2. QED
  BY <1>1, DeskTypeInit, DeskTypeStep, TrailInit, TrailStep, PTL DEF DeskSpec

(***************************************************************************)
(* Transcript.  In a conversation that is neither mixed, nor cut off, nor  *)
(* borrowed, one session at most is talking, and a call without its result *)
(* is the last message and the one that session is executing.              *)
(***************************************************************************)
SessionRecords ==
    {v \in [what : {"none", "meeting", "followup", "chat", "voice", "reply"},
            where : Threads \cup {NoThread},
            next : {"none", "model", "result", "log", "speech", "over"},
            left : 0..Rounds, call : Nat] :
        v.next = "result" \/ (v.next = "model" /\ v.what # "chat") => v.left > 0}

\* A session that awaits a result is where its call was stored.
CallStored(v) ==
    v.next = "result" => /\ v.where \in Threads /\ v.call \in 1..Len(thread[v.where])
                         /\ thread[v.where][v.call] = Message("assistant", v.call)

TalkInv ==
    /\ thread \in [Threads -> Seq(Messages)]
    /\ latest \in {t \in Threads : thread[t] # <<>>} \cup {NoThread}
    /\ linked \cup mixed \cup cutOff \cup borrowed \cup unsound \subseteq Threads
    /\ session \in [Sessions -> SessionRecords]
    /\ \A s \in Sessions : /\ session[s].where = NoThread <=> session[s] = Idle
                           /\ CallStored(session[s])

LEMMA TalkType == TalkInv => TranscriptTypeOK
  BY DEF TalkInv, TranscriptTypeOK, SessionRecords, CallStored

LEMMA IdleRecord == Idle \in SessionRecords
  BY TranscriptConstants DEF Idle, SessionRecords

LEMMA TalkInit == TranscriptInit => TalkInv
<1> SUFFICES ASSUME TranscriptInit
             PROVE  TalkInv
  OBVIOUS
<1>1. session \in [Sessions -> SessionRecords]
  BY IdleRecord DEF TranscriptInit
<1>2. \A s \in Sessions : session[s].where = NoThread /\ session[s] = Idle /\ CallStored(session[s])
  BY DEF TranscriptInit, Idle, CallStored
<1>3. QED
  BY <1>1, <1>2 DEF TranscriptInit, TalkInv

\* What every step does to the rows: session s, in conversation t, becomes v, and a
\* message m is stored in t or not.
Moves(s, t, v) ==
    /\ session[s] = Idle \/ session[s].where = t
    /\ v \in SessionRecords /\ v.where = t
    /\ session' = [session EXCEPT ![s] = v]
Stores(t, m) == thread' = [thread EXCEPT ![t] = Append(@, m)]

LEMMA AppendKeeps ==
  ASSUME NEW m \in Seq(Messages), NEW x \in Messages
  PROVE  /\ Append(m, x) \in Seq(Messages) /\ Append(m, x) # <<>>
         /\ Len(m) \in Nat /\ Len(Append(m, x)) = Len(m) + 1
         /\ \A i \in 1..Len(m) : Append(m, x)[i] = m[i]
         /\ Append(m, x)[Len(m) + 1] = x
  OBVIOUS

LEMMA StoredType ==
  ASSUME TalkInv, NEW t \in Threads, NEW m \in Messages, Stores(t, m)
  PROVE  /\ thread' \in [Threads -> Seq(Messages)]
         /\ \A u \in Threads : /\ Len(thread[u]) <= Len(thread'[u])
                               /\ \A i \in 1..Len(thread[u]) : thread'[u][i] = thread[u][i]
                               /\ thread[u] # <<>> => thread'[u] # <<>>
         /\ thread'[t] # <<>> /\ Len(thread'[t]) = Len(thread[t]) + 1
         /\ thread'[t][Len(thread[t]) + 1] = m /\ Len(thread[t]) \in Nat
<1>1. thread[t] \in Seq(Messages) /\ thread'[t] = Append(thread[t], m)
      /\ \A u \in Threads \ {t} : thread'[u] = thread[u]
  BY DEF TalkInv, Stores
<1>2. /\ thread'[t] \in Seq(Messages) /\ thread'[t] # <<>>
      /\ Len(thread[t]) \in Nat /\ Len(thread'[t]) = Len(thread[t]) + 1
      /\ \A i \in 1..Len(thread[t]) : thread'[t][i] = thread[t][i]
      /\ thread'[t][Len(thread[t]) + 1] = m
  BY <1>1, AppendKeeps
<1>3. thread' \in [Threads -> Seq(Messages)]
  BY <1>1, <1>2 DEF TalkInv, Stores
<1>4. ASSUME NEW u \in Threads
      PROVE  /\ Len(thread[u]) <= Len(thread'[u])
             /\ \A i \in 1..Len(thread[u]) : thread'[u][i] = thread[u][i]
             /\ thread[u] # <<>> => thread'[u] # <<>>
  <2>1. CASE u = t
    BY <1>2, <2>1
  <2>2. CASE u # t
    <3>1. thread'[u] = thread[u] /\ thread[u] \in Seq(Messages)
      BY <1>1, <2>2 DEF TalkInv
    <3>2. QED
      BY <3>1
  <2>3. QED
    BY <2>1, <2>2
<1>5. QED
  BY <1>2, <1>3, <1>4

LEMMA MovesType ==
  ASSUME TalkInv, NEW s \in Sessions, NEW t \in Threads, NEW v, Moves(s, t, v),
         NEW m \in Messages, Stores(t, m) \/ thread' = thread,
         latest' = latest \/ (Stores(t, m) /\ latest' = t),
         (linked \cup mixed \cup cutOff \cup borrowed \cup unsound)' \subseteq Threads,
         CallStored(v)'
  PROVE  TalkInv'
<1>1. thread' \in [Threads -> Seq(Messages)]
  BY StoredType DEF TalkInv
<1>2. \A u \in Threads : /\ Len(thread[u]) \in Nat /\ Len(thread'[u]) \in Nat
                         /\ Len(thread[u]) <= Len(thread'[u])
                         /\ \A i \in 1..Len(thread[u]) : thread'[u][i] = thread[u][i]
                         /\ thread[u] # <<>> => thread'[u] # <<>>
  <2>1. \A u \in Threads : Len(thread[u]) \in Nat /\ Len(thread'[u]) \in Nat
    BY <1>1 DEF TalkInv
  <2>2. QED
    BY <2>1, StoredType
<1>3. latest' \in {u \in Threads : thread'[u] # <<>>} \cup {NoThread}
  BY <1>2, StoredType DEF TalkInv
<1>4. session' \in [Sessions -> SessionRecords]
      /\ \A r \in Sessions : session'[r] = IF r = s THEN v ELSE session[r]
  BY DEF Moves, TalkInv
<1>5. t # NoThread /\ v.where = t /\ v # Idle
  BY TranscriptConstants DEF Moves, Idle
<1>6. ASSUME NEW r \in Sessions
      PROVE  (session'[r].where = NoThread <=> session'[r] = Idle) /\ CallStored(session[r])'
  <2>1. CASE r = s
    BY <1>4, <1>5, <2>1 DEF CallStored
  <2>2. CASE r # s
    <3>1. session'[r] = session[r]
      BY <1>4, <2>2
    <3>2. (session[r].where = NoThread <=> session[r] = Idle) /\ CallStored(session[r])
      BY DEF TalkInv
    <3>3. CallStored(session[r])'
      BY <1>2, <3>1, <3>2 DEF CallStored
    <3>4. QED
      BY <3>1, <3>2, <3>3
  <2>3. QED
    BY <2>1, <2>2
<1>7. QED
  BY <1>1, <1>3, <1>4, <1>6 DEF TalkInv

-----------------------------------------------------------------------------
\* A session that starts in t stores what the user said, unless it is a reply alone.
StartShape(s, t, v) ==
    /\ session[s] = Idle /\ Moves(s, t, v)
    /\ v.next \in {"model", "speech"} /\ v.what # "none"
    /\ IF v.what = "reply" THEN thread' = thread ELSE Stores(t, Message("user", 0))
    /\ latest' = latest \/ (latest' = t /\ Stores(t, Message("user", 0)))
    /\ mixed' = IF Talking(t) # {} THEN mixed \cup {t} ELSE mixed
    /\ UNCHANGED <<linked, cutOff, borrowed>>
    /\ unsound' = unsound \/ (unsound' = unsound \cup {t} /\ ~Sound(thread[t]))

\* A session goes on without a message, with one that is no call, with a call, or
\* with the result of one.
Goes(s, t, v) ==
    /\ session[s].where = t /\ Moves(s, t, v) /\ v.what = session[s].what
    /\ session[s].next \notin {"none", "over"}
    /\ UNCHANGED <<mixed, unsound>> /\ linked' \subseteq linked \cup {t}
    /\ cutOff \subseteq cutOff' /\ cutOff' \subseteq cutOff \cup {t}
    /\ borrowed \subseteq borrowed' /\ borrowed' \subseteq borrowed \cup {t}
SilentShape(s, t, v) ==
    /\ Goes(s, t, v) /\ thread' = thread /\ latest' = latest
    /\ v.next # "result" /\ (session[s].next = "result" => t \in cutOff')
PlainShape(s, t, v, m) ==
    /\ Goes(s, t, v) /\ Stores(t, m) /\ latest' = t
    /\ m \in Messages /\ m.role = "assistant" /\ (m.call = 0 \/ t \in borrowed')
    /\ session[s].next # "result" /\ v.next # "result"
CallShape(s, t, v) ==
    /\ Goes(s, t, v) /\ Stores(t, Message("assistant", Len(thread[t]) + 1)) /\ latest' = t
    /\ session[s].next # "result" /\ v.next = "result" /\ v.call = Len(thread[t]) + 1
ResultShape(s, t, v) ==
    /\ Goes(s, t, v) /\ Stores(t, Message("tool", session[s].call)) /\ latest' = t
    /\ session[s].next = "result" /\ v.next # "result"

LEMMA TalksWhere ==
  ASSUME TalkInv, NEW s \in Sessions
  PROVE  /\ session[s] \in SessionRecords
         /\ session[s].next # "none" => session[s].where \in Threads
  BY DEF TalkInv, SessionRecords, Idle

LEMMA StartsMove ==
  ASSUME TalkInv, NEW s \in Sessions, NEW t \in Threads,
         NEW what \in {"meeting", "followup", "chat", "voice", "reply"},
         NEW next \in {"model", "speech"}, Starts(s, what, t, next)
  PROVE  \E v : /\ session[s] = Idle /\ Moves(s, t, v)
                /\ v.next \in {"model", "speech"} /\ v.what # "none" /\ v.what = what
                /\ mixed' = IF Talking(t) # {} THEN mixed \cup {t} ELSE mixed
<1> DEFINE v == [what |-> what, where |-> t, next |-> next, left |-> Rounds, call |-> 0]
<1>1. /\ session[s] = Idle /\ Moves(s, t, v)
      /\ v.next \in {"model", "speech"} /\ v.what # "none" /\ v.what = what
      /\ mixed' = IF Talking(t) # {} THEN mixed \cup {t} ELSE mixed
  BY TranscriptConstants DEF Starts, Moves, SessionRecords
<1>2. QED
  BY <1>1

LEMMA StartShapes ==
  ASSUME TalkInv, NEW s \in Sessions, NEW t \in Threads,
         \/ OpenMeeting(s, t) \/ FollowUp(s, t) \/ Chat(s, t)
         \/ \E what \in {"voice", "reply"} : VoiceEnds(s, t, what)
  PROVE  \E v : StartShape(s, t, v)
<1>1. CASE OpenMeeting(s, t)
  <2>1. /\ Starts(s, "meeting", t, "model") /\ Stores(t, Message("user", 0)) /\ latest' = t
        /\ UNCHANGED <<linked, cutOff, borrowed, unsound>>
    BY <1>1 DEF OpenMeeting, Writes, Stores, ghosts
  <2>2. QED
    BY <2>1, StartsMove DEF StartShape
<1>2. CASE FollowUp(s, t)
  <2>1. /\ Starts(s, "followup", t, "model") /\ Stores(t, Message("user", 0)) /\ latest' = t
        /\ UNCHANGED <<linked, cutOff, borrowed>>
        /\ unsound' = unsound \/ (unsound' = unsound \cup {t} /\ ~Sound(thread[t]))
    BY <1>2 DEF FollowUp, Writes, Stores
  <2>2. QED
    BY <2>1, StartsMove DEF StartShape
<1>3. CASE Chat(s, t)
  <2>1. /\ Starts(s, "chat", t, "model") /\ Stores(t, Message("user", 0)) /\ latest' = latest
        /\ UNCHANGED <<linked, cutOff, borrowed, unsound>>
    BY <1>3 DEF Chat, Asks, Stores, ghosts
  <2>2. QED
    BY <2>1, StartsMove DEF StartShape
<1>4. ASSUME NEW what \in {"voice", "reply"}, VoiceEnds(s, t, what)
      PROVE  \E v : StartShape(s, t, v)
  <2>1. /\ Starts(s, what, t, "speech") /\ latest' = latest
        /\ IF what = "reply" THEN thread' = thread ELSE Stores(t, Message("user", 0))
        /\ UNCHANGED <<linked, cutOff, borrowed, unsound>>
    BY <1>4 DEF VoiceEnds, Asks, Stores, ghosts
  <2>2. PICK v : /\ session[s] = Idle /\ Moves(s, t, v)
                 /\ v.next \in {"model", "speech"} /\ v.what # "none" /\ v.what = what
                 /\ mixed' = IF Talking(t) # {} THEN mixed \cup {t} ELSE mixed
    BY <2>1, StartsMove
  <2>3. StartShape(s, t, v)
    BY <2>1, <2>2 DEF StartShape
  <2>4. QED
    BY <2>3
<1>5. QED
  BY <1>1, <1>2, <1>3, <1>4

\* The next statement of a session, its call and its rounds, after a step of it.
Becomes(s, next, call, left) ==
    session' = [session EXCEPT ![s] = [@ EXCEPT !.next = next, !.call = call, !.left = left]]

LEMMA RecordMoves ==
  ASSUME TalkInv, NEW s \in Sessions, session[s].next # "none", NEW t, t = session[s].where,
         NEW next \in {"model", "result", "log", "over"}, NEW call \in Nat, NEW left \in 0..Rounds,
         next = "result" \/ (next = "model" /\ session[s].what # "chat") => left > 0,
         Becomes(s, next, call, left)
  PROVE  \E v : Moves(s, t, v) /\ v.next = next /\ v.call = call /\ v.what = session[s].what
<1> DEFINE v == [session[s] EXCEPT !.next = next, !.call = call, !.left = left]
<1>1. session[s] \in SessionRecords
  BY TalksWhere
<1>2. /\ v \in SessionRecords /\ v.next = next /\ v.call = call /\ v.what = session[s].what
      /\ v.where = session[s].where
  BY <1>1 DEF SessionRecords
<1>3. session' = [session EXCEPT ![s] = v]
  BY <1>1 DEF Becomes
<1> HIDE DEF v
<1>4. Moves(s, t, v) /\ v.next = next /\ v.call = call /\ v.what = session[s].what
  BY <1>2, <1>3 DEF Moves
<1>5. QED
  BY <1>4

LEMMA GoesShapes ==
  ASSUME TalkInv, NEW s \in Sessions, NEW t, t = session[s].where,
         \/ ModelCalls(s) \/ ToolAnswers(s) \/ ModelConcludes(s) \/ LogTalk(s)
         \/ ChatCalls(s) \/ ChatAnswers(s) \/ VoiceSpeech(s) \/ SessionDies(s)
  PROVE  /\ t \in Threads
         /\ \E v : \/ SilentShape(s, t, v) \/ CallShape(s, t, v) \/ ResultShape(s, t, v)
                   \/ \E m : PlainShape(s, t, v, m)
<1> DEFINE call == session[s].call
           left == session[s].left
           n == Len(thread[t]) + 1
<1>0. /\ session \in [Sessions -> SessionRecords] /\ session[s] \in SessionRecords
      /\ call \in Nat /\ left \in 0..Rounds /\ session[s].next \notin {"none", "over"}
      /\ session[s].what \in {"none", "meeting", "followup", "chat", "voice", "reply"}
      /\ session[s].next = "result" \/ (session[s].next = "model" /\ session[s].what # "chat") => left > 0
  BY TalksWhere
  DEF TalkInv, SessionRecords, ModelCalls, ToolAnswers, ModelConcludes, LogTalk, ChatCalls, ChatAnswers,
      VoiceSpeech, SessionDies
<1>1. t \in Threads
  BY <1>0, TalksWhere
<1>2. thread[t] \in Seq(Messages) /\ n \in Nat
  BY <1>1 DEF TalkInv
<1>3. Message("assistant", 0) \in Messages /\ Message("assistant", n) \in Messages
  BY <1>2 DEF Message, Messages
<1>4. ASSUME NEW next, NEW k, NEW m, Becomes(s, next, k, m),
             next \in {"model", "result", "log", "over"}, k \in Nat, m \in 0..Rounds,
             next = "result" \/ (next = "model" /\ session[s].what # "chat") => m > 0
      PROVE  \E v : Moves(s, t, v) /\ v.next = next /\ v.call = k /\ v.what = session[s].what
  BY <1>0, <1>4, RecordMoves
<1>5. CASE ModelCalls(s)
  <2>1. /\ session[s].next = "model" /\ Stores(t, Message("assistant", n)) /\ latest' = t
        /\ UNCHANGED <<linked, mixed, cutOff, borrowed, unsound>>
    BY <1>5 DEF ModelCalls, Writes, Stores, ghosts
  <2>2. Becomes(s, "result", n, left)
    BY <1>0, <1>5 DEF ModelCalls, Becomes, SessionRecords
  <2>3. PICK v : Moves(s, t, v) /\ v.next = "result" /\ v.call = n /\ v.what = session[s].what
    BY <1>0, <1>2, <1>4, <1>5, <2>1, <2>2 DEF ModelCalls
  <2>4. CallShape(s, t, v)
    BY <1>0, <2>1, <2>3 DEF CallShape, Goes
  <2>5. QED
    BY <1>1, <2>4
<1>6. CASE ToolAnswers(s)
  <2>1. /\ session[s].next = "result" /\ Stores(t, Message("tool", call)) /\ latest' = t
        /\ UNCHANGED <<linked, mixed, cutOff, borrowed, unsound>>
    BY <1>6 DEF ToolAnswers, StoresResult, Writes, Stores, ghosts
  <2>2. PICK x \in {"log", "model"} : Becomes(s, x, 0, left - 1) /\ (x = "model" => left # 1)
    BY <1>0, <1>6 DEF ToolAnswers, Becomes, SessionRecords
  <2>3. left - 1 \in 0..Rounds /\ (x = "model" => left - 1 > 0)
    BY <1>0, <2>1, <2>2, TranscriptConstants
  <2>4. PICK v : Moves(s, t, v) /\ v.next = x /\ v.call = 0 /\ v.what = session[s].what
    BY <1>4, <2>2, <2>3
  <2>5. ResultShape(s, t, v)
    BY <1>0, <2>1, <2>2, <2>4 DEF ResultShape, Goes
  <2>6. QED
    BY <1>1, <2>5
<1>7. CASE ModelConcludes(s) \/ VoiceSpeech(s)
  <2>1. /\ session[s].next \in {"model", "speech"} /\ Stores(t, Message("assistant", 0)) /\ latest' = t
        /\ UNCHANGED <<linked, mixed, cutOff, borrowed, unsound>>
    BY <1>7 DEF ModelConcludes, VoiceSpeech, Writes, Stores, ghosts
  <2>2. PICK x \in {"log", "over"}, k \in {0, call} : Becomes(s, x, k, left)
    BY <1>0, <1>7, ZenonT(40) DEF ModelConcludes, VoiceSpeech, Then, Finishes, Becomes, SessionRecords
  <2>3. PICK v : Moves(s, t, v) /\ v.next = x /\ v.call = k /\ v.what = session[s].what
    BY <1>0, <1>4, <2>2
  <2>4. PlainShape(s, t, v, Message("assistant", 0))
    BY <1>0, <1>3, <2>1, <2>2, <2>3 DEF PlainShape, Goes, Message
  <2>5. QED
    BY <1>1, <2>4
<1>8. CASE ChatAnswers(s)
  <2>1. PICK m \in {Message("assistant", 0), Message("assistant", n)} :
           /\ session[s].next = "model" /\ Stores(t, m) /\ latest' = t
           /\ borrowed' = IF m = Message("assistant", 0) THEN borrowed ELSE borrowed \cup {t}
           /\ UNCHANGED <<linked, mixed, cutOff, unsound>>
    <3>1. CASE call = 0
      BY <1>8, <3>1 DEF ChatAnswers, Writes, Stores
    <3>2. CASE call # 0
      <4>1. Message("assistant", n) # Message("assistant", 0)
        BY <1>2 DEF Message
      <4>2. QED
        BY <1>8, <3>2, <4>1 DEF ChatAnswers, Writes, Stores
    <3>3. QED
      BY <3>1, <3>2
  <2>2. Becomes(s, "over", 0, left)
    BY <1>0, <1>8 DEF ChatAnswers, Finishes, Becomes, SessionRecords
  <2>3. PICK v : Moves(s, t, v) /\ v.next = "over" /\ v.call = 0 /\ v.what = session[s].what
    BY <1>0, <1>4, <2>2
  <2>4. m \in Messages /\ m.role = "assistant" /\ (m.call = 0 \/ t \in borrowed')
    BY <1>2, <1>3, <2>1 DEF Message
  <2>5. PlainShape(s, t, v, m)
    BY <1>0, <2>1, <2>3, <2>4 DEF PlainShape, Goes
  <2>6. QED
    BY <1>1, <2>5
<1>9. CASE LogTalk(s) \/ SessionDies(s) \/ ChatCalls(s)
  <2>1. /\ thread' = thread /\ latest' = latest /\ UNCHANGED <<mixed, borrowed, unsound>>
        /\ linked' \subseteq linked \cup {t} /\ cutOff \subseteq cutOff' /\ cutOff' \subseteq cutOff \cup {t}
        /\ session[s].next = "result" => t \in cutOff'
    BY <1>9 DEF LogTalk, SessionDies, ChatCalls, ghosts
  <2>2. PICK x \in {"model", "over"}, k \in {0, 1}, m \in {left, left - 1} :
           /\ Becomes(s, x, k, m) /\ m \in 0..Rounds
           /\ x = "model" => session[s].what = "chat"
    <3>1. CASE ChatCalls(s)
      <4>1. left - 1 \in 0..Rounds /\ session[s].what = "chat"
        BY <1>0, <3>1, TranscriptConstants DEF ChatCalls
      <4>2. Becomes(s, "model", 1, left - 1)
        BY <1>0, <3>1 DEF ChatCalls, Becomes, SessionRecords
      <4>3. QED
        BY <4>1, <4>2
    <3>2. CASE LogTalk(s) \/ SessionDies(s)
      BY <1>0, <3>2, ZenonT(40) DEF LogTalk, SessionDies, Finishes, Becomes, SessionRecords
    <3>3. QED
      BY <1>9, <3>1, <3>2
  <2>3. PICK v : Moves(s, t, v) /\ v.next = x /\ v.call = k /\ v.what = session[s].what
    BY <1>0, <1>4, <2>2
  <2>4. SilentShape(s, t, v)
    BY <1>0, <2>1, <2>2, <2>3 DEF SilentShape, Goes
  <2>5. QED
    BY <1>1, <2>4
<1>10. QED
  BY <1>5, <1>6, <1>7, <1>8, <1>9

\* The shape of a step of the conversations.
ThreadStep(s, t) ==
    \E v : \/ StartShape(s, t, v) \/ SilentShape(s, t, v) \/ CallShape(s, t, v) \/ ResultShape(s, t, v)
           \/ \E m : PlainShape(s, t, v, m)

LEMMA StepShapes ==
  ASSUME TalkInv, NEW s \in Sessions, SessionStep(s)
  PROVE  \E t \in Threads : ThreadStep(s, t)
<1>1. ASSUME NEW t \in Threads,
             \/ OpenMeeting(s, t) \/ FollowUp(s, t) \/ Chat(s, t)
             \/ \E what \in {"voice", "reply"} : VoiceEnds(s, t, what)
      PROVE  ThreadStep(s, t)
  BY <1>1, StartShapes DEF ThreadStep
<1>2. ASSUME \/ ModelCalls(s) \/ ToolAnswers(s) \/ ModelConcludes(s) \/ LogTalk(s)
             \/ ChatCalls(s) \/ ChatAnswers(s) \/ VoiceSpeech(s) \/ SessionDies(s)
      PROVE  \E t \in Threads : ThreadStep(s, t)
  <2> DEFINE t == session[s].where
  <2>1. t \in Threads /\ \E v : \/ SilentShape(s, t, v) \/ CallShape(s, t, v) \/ ResultShape(s, t, v)
                                \/ \E m : PlainShape(s, t, v, m)
    BY <1>2, GoesShapes
  <2> HIDE DEF t
  <2>2. QED
    BY <2>1 DEF ThreadStep
<1>3. QED
  BY <1>1, <1>2 DEF SessionStep

LEMMA TalkStep == TalkInv /\ [TranscriptNext]_transcriptVars => TalkInv'
<1> SUFFICES ASSUME TalkInv, [TranscriptNext]_transcriptVars
             PROVE  TalkInv'
  OBVIOUS
<1>1. ASSUME NEW s \in Sessions, NEW t \in Threads, ThreadStep(s, t)
      PROVE  TalkInv'
  <2>0. Len(thread[t]) \in Nat /\ linked \cup mixed \cup cutOff \cup borrowed \cup unsound \subseteq Threads
        /\ session[s] \in SessionRecords
    BY DEF TalkInv
  <2>1. ASSUME NEW v, StartShape(s, t, v)
        PROVE  TalkInv'
    <3>1. Message("user", 0) \in Messages
      BY DEF Message, Messages
    <3>2. CallStored(v)'
      BY <2>1 DEF StartShape, CallStored
    <3>3. Moves(s, t, v) /\ (linked \cup mixed \cup cutOff \cup borrowed \cup unsound)' \subseteq Threads
          /\ (Stores(t, Message("user", 0)) \/ thread' = thread)
          /\ (latest' = latest \/ (Stores(t, Message("user", 0)) /\ latest' = t))
      BY <2>0, <2>1 DEF StartShape
    <3>4. QED
      BY <3>1, <3>2, <3>3, MovesType
  <2>2. ASSUME NEW v, NEW m \in Messages, Goes(s, t, v), Stores(t, m) \/ thread' = thread, CallStored(v)',
               latest' = latest \/ (Stores(t, m) /\ latest' = t)
        PROVE  TalkInv'
    <3>1. Moves(s, t, v) /\ (linked \cup mixed \cup cutOff \cup borrowed \cup unsound)' \subseteq Threads
      BY <2>0, <2>2 DEF Goes
    <3>2. QED
      BY <2>2, <3>1, MovesType
  <2>3. ASSUME NEW v, SilentShape(s, t, v)
        PROVE  TalkInv'
    <3>1. Message("user", 0) \in Messages
      BY DEF Message, Messages
    <3>2. CallStored(v)' /\ Goes(s, t, v) /\ thread' = thread /\ latest' = latest
      BY <2>3 DEF SilentShape, CallStored
    <3>3. QED
      BY <2>2, <3>1, <3>2
  <2>4. ASSUME NEW v, NEW m, PlainShape(s, t, v, m)
        PROVE  TalkInv'
    <3>1. CallStored(v)' /\ Goes(s, t, v) /\ m \in Messages /\ Stores(t, m) /\ latest' = t
      BY <2>4 DEF PlainShape, CallStored
    <3>2. QED
      BY <2>2, <3>1
  <2>5. ASSUME NEW v, CallShape(s, t, v)
        PROVE  TalkInv'
    <3> DEFINE m == Message("assistant", Len(thread[t]) + 1)
    <3>1. m \in Messages
      BY <2>0 DEF Message, Messages
    <3>2. Goes(s, t, v) /\ Stores(t, m) /\ latest' = t /\ v.next = "result" /\ v.call = Len(thread[t]) + 1
          /\ v.where = t
      BY <2>5 DEF CallShape, Goes, Moves
    <3>3. thread'[t][Len(thread[t]) + 1] = m /\ Len(thread'[t]) = Len(thread[t]) + 1
      BY <3>1, <3>2, StoredType
    <3>4. CallStored(v)'
      BY <2>0, <3>2, <3>3 DEF CallStored
    <3>5. QED
      BY <2>2, <3>1, <3>2, <3>4
  <2>6. ASSUME NEW v, ResultShape(s, t, v)
        PROVE  TalkInv'
    <3> DEFINE m == Message("tool", session[s].call)
    <3>1. m \in Messages
      BY <2>0 DEF Message, Messages, SessionRecords
    <3>2. Goes(s, t, v) /\ Stores(t, m) /\ latest' = t /\ CallStored(v)'
      BY <2>6 DEF ResultShape, CallStored
    <3>3. QED
      BY <2>2, <3>1, <3>2
  <2>7. QED
    BY <1>1, <2>1, <2>3, <2>4, <2>5, <2>6 DEF ThreadStep
<1>2. CASE UNCHANGED transcriptVars
  BY <1>2 DEF transcriptVars, TalkInv, CallStored
<1>3. QED
  BY <1>1, <1>2, StepShapes DEF TranscriptNext

\* Conversations and sessions keep their types; a session that awaits the result of a
\* call finds that call in its conversation.
THEOREM TranscriptTypeCorrect == TranscriptSpec => []TranscriptTypeOK
  BY TalkType, TalkInit, TalkStep, PTL DEF TranscriptSpec

-----------------------------------------------------------------------------
Clean(t) == t \notin mixed \cup cutOff \cup borrowed
ThreadFine(t) ==
    Clean(t) =>
        /\ t \notin unsound
        /\ \A r, s \in Talking(t) : r = s
        /\ \A s \in Talking(t) : session[s].next = "result" => session[s].call = Len(thread[t])
        /\ \A i \in 1..Len(thread[t]) :
              \/ Answered(thread[t], i)
              \/ \E s \in Talking(t) : session[s].next = "result" /\ session[s].call = i

LEMMA AnsweredGrows ==
  ASSUME NEW m \in Seq(Messages), NEW x \in Messages, NEW i \in 1..Len(m), Answered(m, i)
  PROVE  Answered(Append(m, x), i)
<1>1. /\ Len(m) \in Nat /\ Len(Append(m, x)) = Len(m) + 1
      /\ \A k \in 1..Len(m) : Append(m, x)[k] = m[k]
  BY AppendKeeps
<1>2. CASE i < Len(m)
  BY <1>1, <1>2 DEF Answered
<1>3. CASE i = Len(m)
  BY <1>1, <1>3 DEF Answered
<1>4. QED
  BY <1>1, <1>2, <1>3

LEMMA AllAnswered ==
  ASSUME NEW m \in Seq(Messages), NEW x \in Messages, x.role # "assistant" \/ x.call = 0,
         \A i \in 1..Len(m) : Answered(m, i)
  PROVE  \A i \in 1..Len(Append(m, x)) : Answered(Append(m, x), i)
<1> SUFFICES ASSUME NEW i \in 1..Len(Append(m, x))
             PROVE  Answered(Append(m, x), i)
  OBVIOUS
<1>1. Len(m) \in Nat /\ Len(Append(m, x)) = Len(m) + 1 /\ Append(m, x)[Len(m) + 1] = x
  BY AppendKeeps
<1>2. CASE i \in 1..Len(m)
  BY <1>2, AnsweredGrows
<1>3. CASE i = Len(m) + 1
  BY <1>1, <1>3 DEF Answered
<1>4. QED
  BY <1>1, <1>2, <1>3

LEMMA LastAnswered ==
  ASSUME NEW m \in Seq(Messages), NEW k \in 1..Len(m), k = Len(m), m[k] = Message("assistant", k),
         \A i \in 1..Len(m) : i # k => Answered(m, i)
  PROVE  \A i \in 1..Len(Append(m, Message("tool", k))) : Answered(Append(m, Message("tool", k)), i)
<1> DEFINE x == Message("tool", k)
<1> SUFFICES ASSUME NEW i \in 1..Len(Append(m, x))
             PROVE  Answered(Append(m, x), i)
  OBVIOUS
<1>0. x \in Messages /\ x.role = "tool" /\ x.call = k
  BY DEF Message, Messages
<1> HIDE DEF x
<1>1. /\ Len(m) \in Nat /\ Len(Append(m, x)) = Len(m) + 1 /\ Append(m, x)[Len(m) + 1] = x
      /\ \A j \in 1..Len(m) : Append(m, x)[j] = m[j]
  BY <1>0, AppendKeeps
<1>2. CASE i \in 1..Len(m) /\ i # k
  BY <1>0, <1>2, AnsweredGrows
<1>3. CASE i = k
  <2>1. Append(m, x)[i] = Message("assistant", k) /\ Append(m, x)[i + 1] = x /\ i < Len(Append(m, x))
    BY <1>1, <1>3
  <2>2. Message("assistant", k).call = k
    BY DEF Message
  <2>3. QED
    BY <2>1, <2>2 DEF Answered, x
<1>4. CASE i = Len(m) + 1
  BY <1>0, <1>1, <1>4 DEF Answered
<1>5. QED
  BY <1>1, <1>2, <1>3, <1>4

\* The conversations a step does not write in.
LEMMA OtherThreads ==
  ASSUME TalkInv, NEW s \in Sessions, NEW t \in Threads, NEW v, Moves(s, t, v),
         NEW u \in Threads, u # t
  PROVE  Talking(u)' = Talking(u) /\ \A r \in Talking(u) : session'[r] = session[r]
<1>1. \A r \in Sessions : session'[r] = IF r = s THEN v ELSE session[r]
  BY DEF Moves, TalkInv
<1>2. session[s].where # u /\ v.where # u
  BY TranscriptConstants DEF Moves, Idle
<1>3. QED
  BY <1>1, <1>2 DEF Talking

\* The conversation it writes in.
LEMMA ThisThread ==
  ASSUME TalkInv, NEW s \in Sessions, NEW t \in Threads, NEW v, Moves(s, t, v)
  PROVE  /\ \A r \in Talking(t)' : r = s \/ (r \in Talking(t) /\ session'[r] = session[r])
         /\ session'[s] = v
         /\ session[s].where = t /\ session[s].next # "over" => s \in Talking(t)
         /\ v.next # "over" => s \in Talking(t)'
<1>1. \A r \in Sessions : session'[r] = IF r = s THEN v ELSE session[r]
  BY DEF Moves, TalkInv
<1>2. v.where = t
  BY DEF Moves
<1>3. QED
  BY <1>1, <1>2 DEF Talking

LEMMA ThreadFineInit == TranscriptInit => \A t \in Threads : ThreadFine(t)
<1> SUFFICES ASSUME TranscriptInit, NEW t \in Threads
             PROVE  ThreadFine(t)
  OBVIOUS
<1>1. Talking(t) = {} /\ Len(thread[t]) = 0 /\ unsound = {}
  BY TranscriptConstants DEF TranscriptInit, Talking, Idle
<1>2. QED
  BY <1>1 DEF ThreadFine

LEMMA ThreadFineStep ==
  TalkInv /\ TalkInv' /\ (\A t \in Threads : ThreadFine(t)) /\ [TranscriptNext]_transcriptVars
      => (\A t \in Threads : ThreadFine(t))'
<1> SUFFICES ASSUME TalkInv, TalkInv', \A t \in Threads : ThreadFine(t),
                    [TranscriptNext]_transcriptVars, NEW u \in Threads
             PROVE  ThreadFine(u)'
  OBVIOUS
<1>1. ASSUME NEW s \in Sessions, NEW t \in Threads, ThreadStep(s, t), Clean(u)'
      PROVE  ThreadFine(u)'
  <2>0. PICK v : \/ StartShape(s, t, v) \/ SilentShape(s, t, v) \/ CallShape(s, t, v)
                 \/ ResultShape(s, t, v) \/ \E m : PlainShape(s, t, v, m)
    BY <1>1 DEF ThreadStep
  <2>1. Moves(s, t, v) /\ Clean(u) /\ thread[t] \in Seq(Messages) /\ Len(thread[t]) \in Nat
    BY <1>1, <2>0
    DEF StartShape, SilentShape, CallShape, ResultShape, PlainShape, Goes, Clean, TalkInv
  <2>2. /\ u \notin unsound
        /\ \A r, q \in Talking(u) : r = q
        /\ \A r \in Talking(u) : session[r].next = "result" => session[r].call = Len(thread[u])
        /\ \A i \in 1..Len(thread[u]) :
              \/ Answered(thread[u], i)
              \/ \E r \in Talking(u) : session[r].next = "result" /\ session[r].call = i
    BY <2>1 DEF ThreadFine
  <2>3. CASE u # t
    <3>1. Talking(u)' = Talking(u) /\ \A r \in Talking(u) : session'[r] = session[r]
      BY <2>1, <2>3, OtherThreads
    <3>2. thread'[u] = thread[u]
      BY <2>0, <2>3
      DEF StartShape, SilentShape, CallShape, ResultShape, PlainShape, Stores, TalkInv
    <3>3. u \notin unsound'
      BY <2>0, <2>2, <2>3
      DEF StartShape, SilentShape, CallShape, ResultShape, PlainShape, Goes
    <3>4. QED
      BY <2>2, <3>1, <3>2, <3>3 DEF ThreadFine
  <2>4. ASSUME u = t, StartShape(s, t, v)
        PROVE  ThreadFine(u)'
    <3>1. Talking(t) = {}
      BY <1>1, <2>4 DEF StartShape, Clean
    <3>2. \A i \in 1..Len(thread[t]) : Answered(thread[t], i)
      BY <2>2, <2>4, <3>1
    <3>3. t \notin unsound'
      BY <2>2, <2>4, <3>2 DEF StartShape, Sound
    <3>4. \A r \in Talking(t)' : r = s /\ session'[r].next # "result"
      BY <2>1, <2>4, <3>1, ThisThread DEF StartShape
    <3>5. \A i \in 1..Len(thread'[t]) : Answered(thread'[t], i)
      <4>1. CASE thread' = thread
        BY <3>2, <4>1
      <4>2. CASE Stores(t, Message("user", 0))
        <5>1. Message("user", 0) \in Messages /\ Message("user", 0).call = 0
          BY DEF Message, Messages
        <5>2. thread'[t] = Append(thread[t], Message("user", 0))
          BY <4>2 DEF Stores, TalkInv
        <5>3. QED
          BY <2>1, <3>2, <5>1, <5>2, AllAnswered
      <4>3. QED
        BY <2>4, <4>1, <4>2 DEF StartShape
    <3>6. QED
      BY <2>4, <3>3, <3>4, <3>5 DEF ThreadFine
  <2>5. ASSUME u = t, Goes(s, t, v)
        PROVE  /\ t \notin unsound' /\ s \in Talking(t) /\ Talking(t) = {s}
               /\ \A r \in Talking(t)' : r = s /\ session'[r] = v
               /\ v.next # "over" => s \in Talking(t)'
    <3>1. session[s].where = t /\ session[s].next # "over" /\ unsound' = unsound
      BY <2>5 DEF Goes
    <3>2. s \in Talking(t)
      BY <2>1, <3>1, ThisThread
    <3>3. Talking(t) = {s}
      BY <2>2, <2>5, <3>2
    <3>4. QED
      BY <2>1, <2>2, <2>5, <3>1, <3>2, <3>3, ThisThread
  <2>6. ASSUME u = t, Goes(s, t, v), session[s].next # "result"
        PROVE  \A i \in 1..Len(thread[t]) : Answered(thread[t], i)
    BY <2>2, <2>5, <2>6
  <2>7. ASSUME u = t, SilentShape(s, t, v)
        PROVE  ThreadFine(u)'
    <3>1. Goes(s, t, v) /\ thread' = thread /\ v.next # "result" /\ session[s].next # "result"
      BY <1>1, <2>7 DEF SilentShape, Clean
    <3>2. QED
      BY <2>5, <2>6, <2>7, <3>1 DEF ThreadFine
  <2>8. ASSUME u = t, NEW m, PlainShape(s, t, v, m)
        PROVE  ThreadFine(u)'
    <3>1. /\ Goes(s, t, v) /\ Stores(t, m) /\ v.next # "result" /\ session[s].next # "result"
          /\ m \in Messages /\ m.call = 0
      BY <1>1, <2>8 DEF PlainShape, Clean
    <3>2. thread'[t] = Append(thread[t], m)
      BY <3>1 DEF Stores, TalkInv
    <3>3. \A i \in 1..Len(thread[t]) : Answered(thread[t], i)
      BY <2>6, <2>8, <3>1
    <3>4. \A i \in 1..Len(thread'[t]) : Answered(thread'[t], i)
      BY <2>1, <3>1, <3>2, <3>3, AllAnswered
    <3>5. QED
      BY <2>5, <2>8, <3>1, <3>4 DEF ThreadFine
  <2>9. ASSUME u = t, CallShape(s, t, v)
        PROVE  ThreadFine(u)'
    <3> DEFINE m == Message("assistant", Len(thread[t]) + 1)
    <3>1. /\ Goes(s, t, v) /\ Stores(t, m) /\ session[s].next # "result"
          /\ v.next = "result" /\ v.call = Len(thread[t]) + 1 /\ m \in Messages
      BY <2>1, <2>9 DEF CallShape, Message, Messages
    <3> HIDE DEF m
    <3>2. thread'[t] = Append(thread[t], m) /\ Len(thread'[t]) = Len(thread[t]) + 1
      BY <2>1, <3>1, AppendKeeps DEF Stores, TalkInv
    <3>3. \A i \in 1..Len(thread[t]) : Answered(thread[t], i)
      BY <2>6, <2>9, <3>1
    <3>4. \A i \in 1..Len(thread[t]) : Answered(thread'[t], i)
      BY <2>1, <3>1, <3>2, <3>3, AnsweredGrows
    <3>5. s \in Talking(t)' /\ session'[s] = v
      BY <2>1, <2>5, <2>9, <3>1, ThisThread
    <3>6. \A i \in 1..Len(thread'[t]) : i \in 1..Len(thread[t]) \/ i = Len(thread[t]) + 1
      BY <2>1, <3>2
    <3>7. \A i \in 1..Len(thread'[t]) :
              \/ Answered(thread'[t], i)
              \/ \E r \in Talking(t)' : session'[r].next = "result" /\ session'[r].call = i
      BY <3>1, <3>4, <3>5, <3>6
    <3>8. QED
      BY <2>5, <2>9, <3>1, <3>2, <3>7 DEF ThreadFine
  <2>10. ASSUME u = t, ResultShape(s, t, v)
         PROVE  ThreadFine(u)'
    <3> DEFINE k == session[s].call
    <3>1. /\ Goes(s, t, v) /\ Stores(t, Message("tool", k)) /\ session[s].next = "result"
          /\ v.next # "result"
      BY <2>10 DEF ResultShape
    <3>2. k = Len(thread[t]) /\ k \in 1..Len(thread[t]) /\ thread[t][k] = Message("assistant", k)
      BY <2>2, <2>5, <2>10, <3>1 DEF TalkInv, CallStored, Goes
    <3>3. \A i \in 1..Len(thread[t]) : i # k => Answered(thread[t], i)
      BY <2>2, <2>5, <2>10, <3>1
    <3> HIDE DEF k
    <3>4. thread'[t] = Append(thread[t], Message("tool", k))
      BY <3>1 DEF Stores, TalkInv
    <3>5. \A i \in 1..Len(thread'[t]) : Answered(thread'[t], i)
      BY <2>1, <3>2, <3>3, <3>4, LastAnswered
    <3>6. QED
      BY <2>5, <2>10, <3>1, <3>5 DEF ThreadFine
  <2>11. QED
    BY <2>0, <2>3, <2>4, <2>7, <2>8, <2>9, <2>10
<1>2. CASE UNCHANGED transcriptVars
  <2>1. Talking(u)' = Talking(u)
    BY <1>2 DEF transcriptVars, Talking
  <2>2. ThreadFine(u)
    OBVIOUS
  <2>3. QED
    BY <1>2, <2>1, <2>2 DEF transcriptVars, ThreadFine, Clean
<1>3. QED
  BY <1>1, <1>2, StepShapes DEF TranscriptNext, ThreadFine

-----------------------------------------------------------------------------
\* The sessions with a question in t, and the questions a conversation holds.
Askers(t) == {s \in Sessions : session[s].where = t /\ session[s].what # "reply"}
UserAt(m) == {i \in 1..Len(m) : m[i].role = "user"}
Kept(t) == Cardinality(Askers(t)) = Cardinality(UserAt(thread[t]))

LEMMA UserCounts ==
  ASSUME NEW m \in Seq(Messages), NEW x \in Messages
  PROVE  /\ Cardinality(UserAt(m)) \in Nat
         /\ Cardinality(UserAt(Append(m, x)))
                = IF x.role = "user" THEN Cardinality(UserAt(m)) + 1 ELSE Cardinality(UserAt(m))
<1> DEFINE n == Len(m)
           q == Append(m, x)
<1>1. n \in Nat /\ Len(q) = n + 1 /\ q[n + 1] = x /\ \A i \in 1..n : q[i] = m[i]
  BY AppendKeeps
<1>2. IsFiniteSet(UserAt(m))
  <2>1. IsFiniteSet(1..n) /\ UserAt(m) \in SUBSET (1..n)
    BY <1>1, FS_Interval DEF UserAt
  <2>2. QED
    BY <2>1, FS_Subset
<1> HIDE DEF q
<1>3. n + 1 \notin UserAt(m)
  BY <1>1 DEF UserAt
<1>4. UserAt(q) = IF x.role = "user" THEN UserAt(m) \cup {n + 1} ELSE UserAt(m)
  BY <1>1 DEF UserAt
<1>5. Cardinality(UserAt(m) \cup {n + 1}) = Cardinality(UserAt(m)) + 1
  BY <1>2, <1>3, FS_AddElement
<1>6. Cardinality(UserAt(m)) \in Nat
  BY <1>2, FS_CardinalityType
<1>7. QED
  BY <1>4, <1>5, <1>6 DEF q

LEMMA KeptInit == TranscriptInit => \A t \in Threads : Kept(t)
<1> SUFFICES ASSUME TranscriptInit, NEW t \in Threads
             PROVE  Kept(t)
  OBVIOUS
<1>1. Askers(t) = {} /\ UserAt(thread[t]) = {}
  BY TranscriptConstants DEF TranscriptInit, Askers, UserAt, Idle
<1>2. QED
  BY <1>1 DEF Kept

LEMMA KeptStep ==
  TalkInv /\ (\A t \in Threads : Kept(t)) /\ [TranscriptNext]_transcriptVars
      => (\A t \in Threads : Kept(t))'
<1> SUFFICES ASSUME TalkInv, \A t \in Threads : Kept(t), [TranscriptNext]_transcriptVars,
                    NEW u \in Threads
             PROVE  Kept(u)'
  OBVIOUS
<1>0. IsFiniteSet(Askers(u)) /\ Cardinality(Askers(u)) \in Nat
  <2>1. IsFiniteSet(Sessions) /\ Askers(u) \in SUBSET Sessions
    BY FS_Interval, TranscriptConstants DEF Sessions, Askers
  <2>2. QED
    BY <2>1, CountNat
<1>1. ASSUME NEW s \in Sessions, NEW t \in Threads, ThreadStep(s, t)
      PROVE  Kept(u)'
  <2>0. PICK v : \/ StartShape(s, t, v) \/ SilentShape(s, t, v) \/ CallShape(s, t, v)
                 \/ ResultShape(s, t, v) \/ \E m : PlainShape(s, t, v, m)
    BY <1>1 DEF ThreadStep
  <2>1. /\ Moves(s, t, v) /\ thread[t] \in Seq(Messages)
        /\ \A r \in Sessions : session'[r] = IF r = s THEN v ELSE session[r]
        /\ v.where = t
    BY <2>0 DEF StartShape, SilentShape, CallShape, ResultShape, PlainShape, Goes, Moves, TalkInv
  <2>2. CASE u # t
    <3>1. thread'[u] = thread[u]
      BY <2>0, <2>2
      DEF StartShape, SilentShape, CallShape, ResultShape, PlainShape, Stores, TalkInv
    <3>2. session[s].where # u
      BY <2>1, <2>2, TranscriptConstants DEF Moves, Idle
    <3>3. Askers(u)' = Askers(u)
      BY <2>1, <2>2, <3>2 DEF Askers
    <3>4. QED
      BY <3>1, <3>3 DEF Kept
  <2>3. ASSUME u = t, StartShape(s, t, v)
        PROVE  Kept(u)'
    <3>1. session[s] = Idle /\ s \notin Askers(u)
      BY <2>3, TranscriptConstants DEF StartShape, Askers, Idle
    <3>2. CASE v.what = "reply"
      <4>1. thread' = thread /\ Askers(u)' = Askers(u)
        BY <2>1, <2>3, <3>1, <3>2 DEF StartShape, Askers
      <4>2. QED
        BY <4>1 DEF Kept
    <3>3. CASE v.what # "reply"
      <4>1. Askers(u)' = Askers(u) \cup {s}
        BY <2>1, <2>3, <3>1, <3>3 DEF Askers
      <4>2. thread'[t] = Append(thread[t], Message("user", 0))
        BY <2>3, <3>3 DEF StartShape, Stores, TalkInv
      <4>3. Message("user", 0) \in Messages /\ Message("user", 0).role = "user"
        BY DEF Message, Messages
      <4>4. Cardinality(UserAt(thread'[t])) = Cardinality(UserAt(thread[t])) + 1
        BY <2>1, <4>2, <4>3, UserCounts
      <4>5. Cardinality(Askers(u)') = Cardinality(Askers(u)) + 1
        BY <1>0, <3>1, <4>1, FS_AddElement
      <4>6. QED
        BY <2>3, <4>4, <4>5 DEF Kept
    <3>4. QED
      BY <3>2, <3>3
  <2>4. ASSUME u = t, Goes(s, t, v), thread' = thread \/ \E m \in Messages : Stores(t, m) /\ m.role # "user"
        PROVE  Kept(u)'
    <3>1. session[s].where = t /\ v.what = session[s].what
      BY <2>4 DEF Goes
    <3>2. Askers(u)' = Askers(u)
      BY <2>1, <2>4, <3>1 DEF Askers
    <3>3. Cardinality(UserAt(thread'[t])) = Cardinality(UserAt(thread[t]))
      <4>1. ASSUME NEW m \in Messages, Stores(t, m), m.role # "user"
            PROVE  Cardinality(UserAt(thread'[t])) = Cardinality(UserAt(thread[t]))
        <5>1. thread'[t] = Append(thread[t], m)
          BY <4>1 DEF Stores, TalkInv
        <5>2. QED
          BY <2>1, <4>1, <5>1, UserCounts
      <4>2. QED
        BY <2>4, <4>1
    <3>4. QED
      BY <2>4, <3>2, <3>3 DEF Kept
  <2>5. ASSUME u = t, CallShape(s, t, v) \/ ResultShape(s, t, v)
        PROVE  Kept(u)'
    <3>1. \A k \in Nat : /\ Message("assistant", k) \in Messages /\ Message("tool", k) \in Messages
                         /\ Message("assistant", k).role # "user" /\ Message("tool", k).role # "user"
      BY DEF Message, Messages
    <3>2. Len(thread[t]) + 1 \in Nat /\ session[s].call \in Nat
      BY <2>1 DEF TalkInv, SessionRecords
    <3>3. QED
      BY <2>4, <2>5, <3>1, <3>2 DEF CallShape, ResultShape
  <2>6. QED
    BY <2>0, <2>2, <2>3, <2>4, <2>5 DEF SilentShape, PlainShape
<1>2. CASE UNCHANGED transcriptVars
  <2>1. Askers(u)' = Askers(u) /\ thread' = thread
    BY <1>2 DEF transcriptVars, Askers
  <2>2. QED
    BY <2>1 DEF Kept
<1>3. QED
  BY <1>1, <1>2, StepShapes DEF TranscriptNext

\* Whatever meetings, follow-ups, chats and spoken sessions write side by side, and
\* whichever dies at whichever statement: each call has its result behind it unless the
\* conversation was mixed, cut off or borrowed, and no question is missing.
THEOREM TheThreadsReplay == TranscriptSpec => []ThreadsReplay
<1>1. TalkInv /\ (\A t \in Threads : ThreadFine(t)) /\ (\A t \in Threads : Kept(t)) => ThreadsReplay
  <2> SUFFICES ASSUME TalkInv, \A t \in Threads : ThreadFine(t), \A t \in Threads : Kept(t)
               PROVE  ThreadsReplay
    OBVIOUS
  <2>1. OrphansHaveACause
    BY DEF TalkInv, ThreadFine, Clean, OrphansHaveACause
  <2>2. QuestionsAreKept
    BY DEF Kept, Askers, UserAt, QuestionsAreKept
  <2>3. QED
    BY <2>1, <2>2 DEF ThreadsReplay
<1>2. QED
  BY <1>1, TalkInit, TalkStep, ThreadFineInit, ThreadFineStep, KeptInit, KeptStep, PTL
  DEF TranscriptSpec

-----------------------------------------------------------------------------
(***************************************************************************)
(* The components beside each other, as they are checked.                  *)
(***************************************************************************)
LEMMA PartsRun == MCSpec => DeskSpec /\ BoardSpec /\ TranscriptSpec /\ WebSpec
<1>1. MCInit => DeskInit /\ BoardInit /\ TranscriptInit /\ WebInit
  BY DEF MCInit
<1>2. [MCNext]_mcVars => [DeskNext]_deskVars
  BY DEF MCNext, mcVars
<1>3. [MCNext]_mcVars => [BoardNext]_boardroomVars
  BY DEF MCNext, mcVars
<1>4. [MCNext]_mcVars => [TranscriptNext]_transcriptVars
  BY DEF MCNext, mcVars
<1>5. [MCNext]_mcVars => [WebNext]_webVars
  BY DEF MCNext, mcVars
<1> QED
  BY <1>1, <1>2, <1>3, <1>4, <1>5, PTL DEF MCSpec, DeskSpec, BoardSpec, TranscriptSpec, WebSpec

\* Whichever component runs, the rows of all of them keep their type.
THEOREM AllTypesCorrect == MCSpec => []TypesOK
<1>1. DeskTypeOK /\ BoardTypeOK /\ TranscriptTypeOK /\ WebTypeOK => TypesOK
  BY DEF TypesOK
<1> QED
  BY <1>1, PartsRun, DeskTypeCorrect, BoardTypeCorrect, TranscriptTypeCorrect, WebTypeCorrect, PTL
=============================================================================
