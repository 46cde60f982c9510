------------------------------- MODULE Boardroom -------------------------------
(***************************************************************************)
(* The manager's agenda for one company: app/manager_review.py, the        *)
(* triggers of routes/meetings.py, and the queue the tool                  *)
(* request_meeting_with_manager fills (tools.py).                          *)
(*                                                                         *)
(* Everything is a task on one event loop with awaits in between: the      *)
(* periodic loop, and tasks a route or the tool hold_meeting_with_employee *)
(* creates and forgets.  A review shows the manager the requests pending   *)
(* when it starts; minutes of language-model rounds later it marks all     *)
(* that are pending then.                                                  *)
(***************************************************************************)
EXTENDS Integers, FiniteSets, FiniteSetsExt

CONSTANTS Staff,          \* the employees
          MaxQueries,     \* requests for a meeting that may be filed (bound)
          Filers,         \* calls of the request tool by one employee at one time (bound)
          Loop, Tasks,    \* the periodic loop; background tasks at one time (bound)
          MaxTroubles,    \* failures and restarts (bound)
          MaxMoves,       \* changes of the manager's state (bound)
          Nobody

ASSUME BoardroomConstants ==
    /\ Loop \notin Tasks /\ Nobody \notin Staff
    /\ MaxQueries \in Nat /\ Filers \in Nat /\ MaxTroubles \in Nat /\ MaxMoves \in Nat

VARIABLES
    request, asker, fresh,   \* employee_meeting_requests: status, employee, within 6 h
    filing,                  \* how many calls of the tool found no fresh request, by employee
    doing, stage,            \* what each task runs, its next statement
    surfaced,                \* the requests in its prompt
    flagged, depth,          \* in_meeting_with; meetings a task was scheduled within
    shown, during,           \* requests ever shown; filed while a review that shows some ran
    active, looped,          \* the manager is_active; not paused, and on a tier with the loop
    troubles, moves

queue == <<request, asker, fresh, filing>>
tasks == <<doing, stage, surfaced, flagged, depth>>
manager == <<active, looped, moves>>
boardroomVars == <<queue, tasks, shown, during, manager, troubles>>

Queries == 1..MaxQueries
Runners == {Loop} \cup Tasks
Talks == {"review", "meeting", "chat"}     \* a follow-up is one of the last two

BoardTypeOK ==
    /\ request \in [Queries -> {"none", "pending", "addressed"}]
    /\ asker \in [Queries -> Staff \cup {Nobody}] /\ fresh \in [Queries -> BOOLEAN]
    /\ filing \in [Staff -> 0..Filers]
    /\ doing \in [Runners -> Talks \cup {"nothing"}] /\ doing[Loop] \in {"nothing", "review"}
    /\ stage \in [Runners -> {"none", "talk", "logged"}]
    /\ \A r \in Runners : /\ doing[r] = "nothing" <=> stage[r] = "none"
                          /\ doing[r] # "review" => surfaced[r] = {}
                          /\ surfaced[r] \subseteq Queries
                          /\ flagged[r] = (doing[r] = "meeting" /\ stage[r] = "talk")
    /\ depth \in [Runners -> Nat]
    /\ \A q \in Queries : asker[q] = Nobody <=> request[q] = "none"
    /\ shown \cup during \subseteq {q \in Queries : request[q] # "none"}

BoardInit ==
    /\ request = [q \in Queries |-> "none"] /\ asker = [q \in Queries |-> Nobody]
    /\ fresh = [q \in Queries |-> FALSE] /\ filing = [e \in Staff |-> 0]
    /\ doing = [r \in Runners |-> "nothing"] /\ stage = [r \in Runners |-> "none"]
    /\ surfaced = [r \in Runners |-> {}]
    /\ flagged = [r \in Runners |-> FALSE] /\ depth = [r \in Runners |-> 0]
    /\ shown = {} /\ during = {}
    /\ active = TRUE /\ looped = TRUE
    /\ troubles = 0 /\ moves = 0

Pending == {q \in Queries : request[q] = "pending"}

-----------------------------------------------------------------------------
(* request_meeting_with_manager: a fresh pending request of the employee   *)
(* answers the call, and the new reason is dropped ...                     *)

FreshOf(e) == {q \in Pending : asker[q] = e /\ fresh[q]}

FindNone(e) ==
    /\ filing[e] < Filers /\ FreshOf(e) = {}
    /\ filing' = [filing EXCEPT ![e] = @ + 1]
    /\ UNCHANGED <<request, asker, fresh, tasks, shown, during, manager, troubles>>

\* ... or else it is inserted.
InsertRequest(e, q) ==
    /\ filing[e] > 0
    /\ request[q] = "none" /\ \A p \in 1..q - 1 : request[p] # "none"
    /\ request' = [request EXCEPT ![q] = "pending"]
    /\ asker' = [asker EXCEPT ![q] = e] /\ fresh' = [fresh EXCEPT ![q] = TRUE]
    /\ filing' = [filing EXCEPT ![e] = @ - 1]
    /\ during' = IF \E r \in Runners : surfaced[r] # {} THEN during \cup {q} ELSE during
    /\ UNCHANGED <<tasks, shown, manager, troubles>>

\* Six hours pass.
RequestAges(q) ==
    /\ q \in Pending /\ fresh[q] /\ fresh' = [fresh EXCEPT ![q] = FALSE]
    /\ UNCHANGED <<request, asker, filing, tasks, shown, during, manager, troubles>>

-----------------------------------------------------------------------------
\* PATCH on the manager's row, or another subscription.
ManagerMoves ==
    /\ moves < MaxMoves /\ moves' = moves + 1
    /\ \/ active' = ~active /\ UNCHANGED looped
       \/ looped' = ~looped /\ UNCHANGED active
    /\ UNCHANGED <<queue, tasks, shown, during, troubles>>

\* The requests a review shows: _pending_requests_for_company.  The mutant takes
\* those of the last six hours.
MutantToSurface == {q \in Pending : fresh[q]}
ToSurface == Pending

\* The task finds the manager and the adapter, reads the requests if it is a
\* review, opens the conversation, and sets in_meeting_with if it is a 1:1.
Begins(r, what, d) ==
    /\ doing[r] = "nothing"
    /\ doing' = [doing EXCEPT ![r] = what] /\ stage' = [stage EXCEPT ![r] = "talk"]
    /\ depth' = [depth EXCEPT ![r] = d] /\ flagged' = [flagged EXCEPT ![r] = what = "meeting"]
    /\ surfaced' = [surfaced EXCEPT ![r] = IF what = "review" THEN ToSurface ELSE {}]
    /\ shown' = IF what = "review" THEN shown \cup ToSurface ELSE shown
\* The task is over, and "finally" resets the flag.
Ends(r) ==
    /\ doing' = [doing EXCEPT ![r] = "nothing"] /\ stage' = [stage EXCEPT ![r] = "none"]
    /\ surfaced' = [surfaced EXCEPT ![r] = {}]
    /\ flagged' = [flagged EXCEPT ![r] = FALSE] /\ depth' = [depth EXCEPT ![r] = 0]

\* The SELECT of _review_once, and its filter on the tier.
Reviewed == active /\ looped

LoopWakes ==
    /\ Reviewed /\ Begins(Loop, "review", 0)
    /\ UNCHANGED <<queue, during, manager, troubles>>

\* Routes: run-review, meetings and follow-up (a 1:1 if the original was one,
\* a talk without the flag if it was a review), and chat or voice turns.  Only
\* the follow-up and the chat need no active manager; none asks for the tier.
RouteStarts(k, what) ==
    /\ what = "review" => active
    /\ Begins(k, what, 0)
    /\ UNCHANGED <<queue, during, manager, troubles>>

\* hold_meeting_with_employee in a round of r refuses inside a 1:1 and else
\* creates a task, which copies the context and so the flag of its creator.
MutantMayHold(r) == stage[r] = "talk"
MayHold(r) == stage[r] = "talk" /\ ~flagged[r]

HoldMeeting(r, k) ==
    /\ active /\ MayHold(r) /\ Begins(k, "meeting", depth[r] + 1)
    /\ UNCHANGED <<queue, during, manager, troubles>>

\* The rounds are over, four for a review and three for the others.  A review
\* is logged first; a meeting logs, notifies and is over; the flag is reset.
LogReview(r) ==
    /\ doing[r] = "review" /\ stage[r] = "talk"
    /\ stage' = [stage EXCEPT ![r] = "logged"]
    /\ UNCHANGED <<queue, doing, surfaced, flagged, depth, shown, during, manager, troubles>>
CloseTalk(k) ==
    /\ doing[k] \in {"meeting", "chat"} /\ stage[k] = "talk" /\ Ends(k)
    /\ UNCHANGED <<queue, shown, during, manager, troubles>>

\* "if pending:".
Marks(r) == surfaced[r] # {}

\* _mark_pending_addressed updates every row that is pending now, shown or not.
MarkAddressed(r) ==
    /\ doing[r] = "review" /\ stage[r] = "logged" /\ Ends(r)
    /\ request' = [q \in Queries |-> IF q \in Pending /\ Marks(r) THEN "addressed" ELSE request[q]]
    /\ UNCHANGED <<asker, fresh, filing, shown, during, manager, troubles>>

\* No adapter, a provider or database error, or no active manager any more: the
\* task is over, and its requests stay pending unless they are marked already.
TaskFails(r) ==
    /\ troubles < MaxTroubles /\ troubles' = troubles + 1
    /\ doing[r] # "nothing" /\ Ends(r)
    /\ UNCHANGED <<queue, shown, during, manager>>

\* The process restarts: every task and call is gone.
BoardRestart ==
    /\ troubles < MaxTroubles /\ troubles' = troubles + 1
    /\ doing' = [r \in Runners |-> "nothing"] /\ stage' = [r \in Runners |-> "none"]
    /\ surfaced' = [r \in Runners |-> {}]
    /\ flagged' = [r \in Runners |-> FALSE] /\ depth' = [r \in Runners |-> 0]
    /\ filing' = [e \in Staff |-> 0]
    /\ UNCHANGED <<request, asker, fresh, shown, during, manager>>

ReviewStep(r) == LogReview(r) \/ MarkAddressed(r)

BoardNext ==
    \/ \E e \in Staff : FindNone(e) \/ \E q \in Queries : InsertRequest(e, q)
    \/ \E q \in Queries : RequestAges(q)
    \/ ManagerMoves \/ LoopWakes \/ BoardRestart
    \/ \E k \in Tasks : (\E what \in Talks : RouteStarts(k, what)) \/ CloseTalk(k)
    \/ \E r \in Runners : ReviewStep(r) \/ TaskFails(r) \/ \E k \in Tasks : HoldMeeting(r, k)

BoardSpec == BoardInit /\ [][BoardNext]_boardroomVars

\* The loop sleeps four hours and runs again, whatever the last pass raised; a
\* pass takes at most four rounds of a provider that answers or times out.
BoardFairness == WF_boardroomVars(LoopWakes) /\ WF_boardroomVars(ReviewStep(Loop))

-----------------------------------------------------------------------------
\* A 1:1 never schedules a 1:1, through any chain of tools, tasks and
\* follow-ups: each meeting was asked for by the CEO or in a talk that is not one.
MeetingsDoNotBreed == \A r \in Runners : depth[r] <= 1

\* A request is addressed only by a review that showed the manager requests: this
\* one, or at least others that were pending when this one was still to come.
AddressedInReview == \A q \in Queries : request[q] = "addressed" => q \in shown \cup during

\* Coalescing is a SELECT before an INSERT, yet the fresh pending requests of an
\* employee and the calls about to insert one are never more than the calls
\* that can be in flight at one time, however often the tool is called.
FreshRequestsBounded ==
    \A e \in Staff :
        Cardinality({q \in Pending : asker[q] = e /\ fresh[q]}) + filing[e] <= Filers

\* The queue and the meetings keep their rules although requests are filed, shown
\* and marked by tasks that run beside each other.
MeetingRulesHold == MeetingsDoNotBreed /\ AddressedInReview /\ FreshRequestsBounded

\* A pending request is addressed in the end, if from some time on the manager is
\* one the loop reviews, whatever failed, restarted or ran beside the loop.
RequestsGetReviewed ==
    <>[]Reviewed => \A q \in Queries : request[q] = "pending" ~> request[q] = "addressed"
=============================================================================
