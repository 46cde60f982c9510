------------------------------ MODULE BacktestRuns ------------------------------
(***************************************************************************)
(* Backtests: the row of a run between the api (routes/backtests.py) and a *)
(* model service (main.py and persist.py of kronos, ttm and tsfm), and the *)
(* advice of a finished run applied to an agent.                           *)
(*                                                                         *)
(* The api inserts the row, posts the run in a background task and forgets *)
(* it; the service answers at once and stamps the row as it goes.  Either  *)
(* may restart, the post or its answer may be lost, and a stamp that fails *)
(* is only logged.                                                         *)
(***************************************************************************)
EXTENDS Integers, FiniteSets

CONSTANTS Runs,           \* backtest_runs rows
          Applies,        \* requests that apply a run (bound)
          MaxCrashes,     \* restarts of the model service (bound)
          NoRun

ASSUME BacktestConstants == NoRun \notin Runs /\ MaxCrashes \in Nat

VARIABLES
    run,        \* [Runs -> status]
    overdue,    \* rows in pending or running for longer than BACKTEST_TIMEOUT_SECS
    advice,     \* [Runs -> best_floor and weak_symbols of the result, as present or not]
    post,       \* [Runs -> the request: not made, on its way, arrived or lost]
    submitting, \* runs whose background task awaits the answer
    job,        \* [Runs -> the service's task: its next statement]
    apply,      \* [Applies -> the request: its run, what it asks, its next statement]
    written, audited,   \* [Applies -> the fields it wrote to the agent, and to applied_actions]
    cutShort,   \* requests that raised after they had written
    crashes

lifecycle == <<run, overdue, advice, post, submitting, job>>
applying == <<apply, written, audited, cutShort>>
backtestVars == <<lifecycle, applying, crashes>>

Fields == {"min_confidence_threshold", "allowed_assets"}
NoApply == [run |-> NoRun, asks |-> {}, next |-> "none"]
Unended == {r \in Runs : run[r] \in {"pending", "running"}}

BacktestTypeOK ==
    /\ run \in [Runs -> {"none", "pending", "running", "done", "failed"}]
    /\ overdue \subseteq Unended
    /\ advice \in [Runs -> SUBSET Fields]
    /\ post \in [Runs -> {"none", "flying", "arrived", "lost"}]
    /\ job \in [Runs -> {"none", "mark_running", "evaluate", "mark_done", "mark_failed"}]
    /\ \A r \in Runs : run[r] = "none" => post[r] = "none" /\ job[r] = "none" /\ r \notin submitting
    /\ \A c \in Applies :
          /\ apply[c].run \in Runs \cup {NoRun} /\ apply[c].asks \subseteq Fields
          /\ apply[c].next \in {"none", "floor", "prune", "audit", "over"}
          /\ apply[c].next \in {"floor", "prune", "audit"} => apply[c].asks # {}
          /\ written[c] \cup audited[c] \subseteq apply[c].asks
    /\ cutShort \subseteq {c \in Applies : written[c] # {}} /\ crashes \in 0..MaxCrashes

BacktestInit ==
    /\ run = [r \in Runs |-> "none"] /\ overdue = {} /\ advice = [r \in Runs |-> {}]
    /\ post = [r \in Runs |-> "none"] /\ submitting = {} /\ job = [r \in Runs |-> "none"]
    /\ apply = [c \in Applies |-> NoApply]
    /\ written = [c \in Applies |-> {}] /\ audited = [c \in Applies |-> {}]
    /\ cutShort = {} /\ crashes = 0

-----------------------------------------------------------------------------
(* The api.                                                                *)

CreateBacktest(r) ==
    /\ run[r] = "none" /\ run' = [run EXCEPT ![r] = "pending"]
    /\ submitting' = submitting \cup {r} /\ post' = [post EXCEPT ![r] = "flying"]
    /\ UNCHANGED <<overdue, advice, job, applying, crashes>>

\* The service has answered 200.
SubmitAcknowledged(r) ==
    /\ r \in submitting /\ post[r] = "arrived" /\ submitting' = submitting \ {r}
    /\ UNCHANGED <<run, overdue, advice, post, job, applying, crashes>>

\* An answer of 400 and above, no answer in thirty seconds, or no connection, for a
\* request that may have arrived or still arrive: _mark_failed, whatever the row says.
SubmitFails(r) ==
    /\ r \in submitting /\ submitting' = submitting \ {r}
    /\ run' = [run EXCEPT ![r] = "failed"] /\ overdue' = overdue \ {r}
    /\ UNCHANGED <<advice, post, job, applying, crashes>>

\* The rows reap_orphans selects.
Orphans == overdue

\* The api starts again: its tasks and requests are gone, and the lifespan reaps.
ApiRestarts ==
    /\ run' = [r \in Runs |-> IF r \in Orphans THEN "failed" ELSE run[r]]
    /\ overdue' = overdue \ Orphans
    /\ submitting' = {}
    /\ apply' = [c \in Applies |-> IF apply[c].next = "none" THEN NoApply ELSE [apply[c] EXCEPT !.next = "over"]]
    /\ cutShort' = cutShort \cup {c \in Applies : apply[c].next # "over" /\ written[c] # {}}
    /\ UNCHANGED <<advice, post, job, written, audited, crashes>>

SixHoursPass(r) ==
    /\ r \in Unended \ overdue /\ overdue' = overdue \cup {r}
    /\ UNCHANGED <<run, advice, post, submitting, job, applying, crashes>>

-----------------------------------------------------------------------------
(* The model service.                                                      *)

\* run_backtest creates the task; or the request never arrives.
PostArrives(r) ==
    /\ post[r] = "flying" /\ post' = [post EXCEPT ![r] = "arrived"]
    /\ job' = [job EXCEPT ![r] = "mark_running"]
    /\ UNCHANGED <<run, overdue, advice, submitting, applying, crashes>>
PostLost(r) ==
    /\ post[r] = "flying" /\ post' = [post EXCEPT ![r] = "lost"]
    /\ UNCHANGED <<run, overdue, advice, submitting, job, applying, crashes>>

\* The UPDATE's WHERE.  The mutant's has only the id.
MutantMayRun(r) == TRUE
MayRun(r) == run[r] \in {"pending", "running"}

\* started_at is set too, and the row is not overdue any more.  A database error
\* is logged, here and below, and the task goes on.
MarkRunning(r) ==
    /\ job[r] = "mark_running" /\ job' = [job EXCEPT ![r] = "evaluate"]
    /\ \/ MayRun(r) /\ run' = [run EXCEPT ![r] = "running"] /\ overdue' = overdue \ {r}
       \/ UNCHANGED <<run, overdue>>
    /\ UNCHANGED <<advice, post, submitting, applying, crashes>>

Evaluate(r) ==
    /\ job[r] = "evaluate"
    /\ \E s \in {"mark_done", "mark_failed"} : job' = [job EXCEPT ![r] = s]
    /\ UNCHANGED <<run, overdue, advice, post, submitting, applying, crashes>>

\* Unguarded: it also lands on a row that was failed or reaped meanwhile.
MarkDone(r) ==
    /\ job[r] = "mark_done" /\ job' = [job EXCEPT ![r] = "none"]
    /\ \/ /\ run' = [run EXCEPT ![r] = "done"] /\ overdue' = overdue \ {r}
          /\ \E f \in SUBSET Fields : advice' = [advice EXCEPT ![r] = f]
       \/ UNCHANGED <<run, overdue, advice>>
    /\ UNCHANGED <<post, submitting, applying, crashes>>

MarkFailed(r) ==
    /\ job[r] = "mark_failed" /\ job' = [job EXCEPT ![r] = "none"]
    /\ \/ run' = [run EXCEPT ![r] = "failed"] /\ overdue' = overdue \ {r}
       \/ UNCHANGED <<run, overdue>>
    /\ UNCHANGED <<advice, post, submitting, applying, crashes>>

ServiceDies ==
    /\ crashes < MaxCrashes /\ crashes' = crashes + 1
    /\ job' = [r \in Runs |-> "none"]
    /\ UNCHANGED <<run, overdue, advice, post, submitting, applying>>

-----------------------------------------------------------------------------
(* apply_backtest: statements of one connection, in no transaction.        *)

\* The run is done, and the agent consumes its model.
BeginApply(c, r) ==
    /\ apply[c].next = "none" /\ run[r] = "done"
    /\ \E f \in (SUBSET Fields) \ {{}} : apply' = [apply EXCEPT ![c] = [run |-> r, asks |-> f, next |-> "floor"]]
    /\ UNCHANGED <<lifecycle, written, audited, cutShort, crashes>>

GoesTo(c, step) == apply' = [apply EXCEPT ![c].next = step]
\* 409, a database error: what was written stays.
Raises(c) == /\ GoesTo(c, "over") /\ UNCHANGED <<written, audited>>
             /\ cutShort' = IF written[c] = {} THEN cutShort ELSE cutShort \cup {c}

\* One field: written if the run found something to advise, else a 409; then the
\* next statement.
Applied(c, f, step) ==
    IF f \notin apply[c].asks THEN GoesTo(c, step) /\ UNCHANGED <<written, audited, cutShort>>
    ELSE \/ /\ f \in advice[apply[c].run]
            /\ written' = [written EXCEPT ![c] = @ \cup {f}]
            /\ GoesTo(c, step) /\ UNCHANGED <<audited, cutShort>>
         \/ Raises(c)

SetFloor(c) ==
    /\ apply[c].next = "floor" /\ Applied(c, "min_confidence_threshold", "prune")
    /\ UNCHANGED <<lifecycle, crashes>>
Prune(c) ==
    /\ apply[c].next = "prune" /\ Applied(c, "allowed_assets", "audit")
    /\ UNCHANGED <<lifecycle, crashes>>

\* The changes in the audit are those collected on the way.  The
\* mutant files what was asked for last.
MutantCollected(c) == IF "allowed_assets" \in apply[c].asks THEN {"allowed_assets"} ELSE written[c]
Collected(c) == written[c]
AppendAction(c) ==
    /\ apply[c].next = "audit"
    /\ \/ /\ audited' = [audited EXCEPT ![c] = Collected(c)]
          /\ GoesTo(c, "over") /\ UNCHANGED <<written, cutShort>>
       \/ Raises(c)
    /\ UNCHANGED <<lifecycle, crashes>>

-----------------------------------------------------------------------------
JobStep(r) == MarkRunning(r) \/ Evaluate(r) \/ MarkDone(r) \/ MarkFailed(r)
RunStep(r) ==
    \/ CreateBacktest(r) \/ SubmitAcknowledged(r) \/ SubmitFails(r) \/ SixHoursPass(r)
    \/ PostArrives(r) \/ PostLost(r) \/ JobStep(r)
ApplyStep(c) == (\E r \in Runs : BeginApply(c, r)) \/ SetFloor(c) \/ Prune(c) \/ AppendAction(c)

BacktestNext ==
    \/ \E r \in Runs : RunStep(r)
    \/ \E c \in Applies : ApplyStep(c)
    \/ ApiRestarts \/ ServiceDies

BacktestSpec == BacktestInit /\ [][BacktestNext]_backtestVars

\* An evaluation ends or raises, time passes, and "an api rebuild (which happens
\* often during dev)" comes again: nothing but a start reaps.
BacktestFairness ==
    /\ \A r \in Runs : WF_backtestVars(JobStep(r)) /\ WF_backtestVars(SixHoursPass(r))
    /\ WF_backtestVars(ApiRestarts)

-----------------------------------------------------------------------------
\* A post that was given up may still start a job, and a job may outlive a reap:
\* a run once shown as ended is never shown as pending or running again.
NeverBackToWork ==
    [][\A r \in Runs : run[r] \in {"done", "failed"} => run'[r] \in {"done", "failed"}]_backtestVars

\* Whatever is lost and whoever restarts, every run ends, in a stamp of its job or
\* reaped at some start of the api.
RunsEnd == \A r \in Runs : r \in Unended ~> r \notin Unended

\* Its two writers, the api and the model service, lose each other: a run ends all
\* the same, and for good.
RunsEndForGood == RunsEnd /\ NeverBackToWork

\* What a request wrote to the agent is what it filed in the audit, unless it was
\* cut short, by an error, a restart, or its own 409 after the first field; and
\* then it filed nothing.
ChangesAreAudited ==
    \A c \in Applies : apply[c].next = "over" =>
        IF c \in cutShort THEN audited[c] = {} ELSE audited[c] = written[c]
=============================================================================
