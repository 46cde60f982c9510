--------------------------- MODULE ForecastingProofs ---------------------------
(***************************************************************************)
(* Machine-checked proofs about the way from ticks to intents and back:    *)
(* BacktestRuns, for any runs, any concurrent requests that apply them and *)
(* any number of restarts; Calibration, for any window of settled trades,  *)
(* any thresholds and time to live; SignalGate, for any agents, assets,    *)
(* settings and targets; Isotonic, for any list of pairs; CandleFeed, for  *)
(* any windows, context and buffer, with late ticks, failures and          *)
(* restarts; and the types of the five beside each other.                  *)
(***************************************************************************)
EXTENDS MCForecasting, SequenceTheorems, SetLemmas, TLAPS

(***************************************************************************)
(* BacktestRuns.  The row of a run and a request that applies it are two   *)
(* machines: neither writes what the other has.                            *)
(***************************************************************************)
RunRows ==
    /\ run \in [Runs -> {"none", "pending", "running", "done", "failed"}]
    /\ overdue \subseteq Unended
    /\ advice \in [Runs -> SUBSET Fields]
    /\ post \in [Runs -> {"none", "flying", "arrived", "lost"}]
    /\ job \in [Runs -> {"none", "mark_running", "evaluate", "mark_done", "mark_failed"}]
    /\ \A r \in Runs : run[r] = "none" => post[r] = "none" /\ job[r] = "none" /\ r \notin submitting

Requests == [run : Runs \cup {NoRun}, asks : SUBSET Fields,
             next : {"none", "floor", "prune", "audit", "over"}]

\* A request: it audits last, and is marked as cut short only once it is over.
RequestOK(c) ==
    /\ apply[c].next \in {"floor", "prune", "audit"} => apply[c].asks # {}
    /\ written[c] \cup audited[c] \subseteq apply[c].asks
    /\ apply[c].next = "none" => written[c] = {}
    /\ apply[c].next # "over" => audited[c] = {} /\ c \notin cutShort
    /\ apply[c].next = "over" => IF c \in cutShort THEN audited[c] = {} ELSE audited[c] = written[c]
    /\ c \in cutShort => written[c] # {}

ApplyRows ==
    /\ apply \in [Applies -> Requests] /\ cutShort \subseteq Applies
    /\ written \in [Applies -> SUBSET Fields] /\ audited \in [Applies -> SUBSET Fields]
    /\ \A c \in Applies : RequestOK(c)

BacktestInv == RunRows /\ ApplyRows /\ crashes \in 0 .. MaxCrashes

LEMMA BacktestInitInv == BacktestInit => BacktestInv
<1> SUFFICES ASSUME BacktestInit
             PROVE  BacktestInv
  OBVIOUS
<1>1. RunRows
  BY DEF BacktestInit, RunRows, Unended
<1>2. NoApply \in Requests
  BY DEF NoApply, Requests
<1>3. ApplyRows
  BY <1>2 DEF BacktestInit, ApplyRows, RequestOK, NoApply
<1> QED
  BY <1>1, <1>3, BacktestConstants DEF BacktestInit, BacktestInv

\* A step of the row r leaves the other rows alone.
LEMMA RunStepInv ==
    ASSUME RunRows, NEW r \in Runs, RunStep(r)
    PROVE  RunRows'
<1>1. CASE CreateBacktest(r)
  BY <1>1 DEF CreateBacktest, RunRows, Unended
<1>2. CASE SubmitAcknowledged(r)
  BY <1>2 DEF SubmitAcknowledged, RunRows, Unended
<1>3. CASE SubmitFails(r)
  BY <1>3 DEF SubmitFails, RunRows, Unended
<1>4. CASE SixHoursPass(r)
  BY <1>4 DEF SixHoursPass, RunRows, Unended
<1>5. CASE PostArrives(r)
  BY <1>5 DEF PostArrives, RunRows, Unended
<1>6. CASE PostLost(r)
  BY <1>6 DEF PostLost, RunRows, Unended
<1>7. CASE MarkRunning(r)
  BY <1>7 DEF MarkRunning, RunRows, Unended
<1>8. CASE Evaluate(r)
  BY <1>8 DEF Evaluate, RunRows, Unended
<1>9. CASE MarkDone(r)
  <2>1. advice' \in [Runs -> SUBSET Fields]
    BY <1>9 DEF MarkDone, RunRows
  <2> QED
    BY <1>9, <2>1 DEF MarkDone, RunRows, Unended
<1>10. CASE MarkFailed(r)
  BY <1>10 DEF MarkFailed, RunRows, Unended
<1> QED
  BY <1>1, <1>2, <1>3, <1>4, <1>5, <1>6, <1>7, <1>8, <1>9, <1>10 DEF RunStep, JobStep

LEMMA RunStepLeavesRequests ==
    ASSUME NEW r \in Runs, RunStep(r)
    PROVE  UNCHANGED <<apply, written, audited, cutShort, crashes>>
  BY DEF RunStep, JobStep, CreateBacktest, SubmitAcknowledged, SubmitFails, SixHoursPass,
         PostArrives, PostLost, MarkRunning, Evaluate, MarkDone, MarkFailed, applying

\* What a step of the request c does: the other requests stay, and c comes out right.
LEMMA ApplyStepInv ==
    ASSUME ApplyRows, NEW c \in Applies, ApplyStep(c)
    PROVE  ApplyRows' /\ UNCHANGED <<lifecycle, crashes>>
<1>1. ASSUME NEW r \in Runs, BeginApply(c, r)
      PROVE  ApplyRows' /\ UNCHANGED <<lifecycle, crashes>>
  <2>1. PICK f \in (SUBSET Fields) \ {{}} :
            apply' = [apply EXCEPT ![c] = [run |-> r, asks |-> f, next |-> "floor"]]
    BY <1>1 DEF BeginApply
  <2>2. [run |-> r, asks |-> f, next |-> "floor"] \in Requests
    BY DEF Requests
  <2>3. apply' \in [Applies -> Requests]
    BY <2>1, <2>2 DEF ApplyRows
  <2>4. \A d \in Applies : RequestOK(d)'
    BY <1>1, <2>1, <2>3 DEF BeginApply, ApplyRows, RequestOK
  <2> QED
    BY <1>1, <2>3, <2>4 DEF BeginApply, ApplyRows
<1>2. ASSUME NEW next \in {"prune", "audit", "over"}, GoesTo(c, next)
      PROVE  /\ apply' \in [Applies -> Requests]
             /\ \A d \in Applies \ {c} : apply'[d] = apply[d]
             /\ apply'[c].next = next /\ apply'[c].asks = apply[c].asks
  BY <1>2 DEF GoesTo, ApplyRows, Requests
<1>3. ASSUME Raises(c), apply[c].next \in {"floor", "prune", "audit"}
      PROVE  ApplyRows'
  <2>1. /\ apply' \in [Applies -> Requests]
        /\ \A d \in Applies \ {c} : apply'[d] = apply[d]
        /\ apply'[c].next = "over" /\ apply'[c].asks = apply[c].asks
    BY <1>2, <1>3 DEF Raises
  <2>2. \A d \in Applies : RequestOK(d)'
    BY <1>3, <2>1, ZenonT(40) DEF Raises, ApplyRows, RequestOK
  <2> QED
    BY <1>3, <2>1, <2>2 DEF Raises, ApplyRows
<1>4. ASSUME NEW f \in Fields, NEW next \in {"prune", "audit"}, Applied(c, f, next),
             apply[c].next \in {"floor", "prune"}
      PROVE  ApplyRows'
  <2>1. CASE f \notin apply[c].asks
    <3>1. GoesTo(c, next) /\ UNCHANGED <<written, audited, cutShort>>
      BY <1>4, <2>1 DEF Applied
    <3>2. /\ apply' \in [Applies -> Requests]
          /\ \A d \in Applies \ {c} : apply'[d] = apply[d]
          /\ apply'[c].next = next /\ apply'[c].asks = apply[c].asks
      BY <1>2, <3>1
    <3>3. \A d \in Applies : RequestOK(d)'
      BY <1>4, <3>1, <3>2 DEF ApplyRows, RequestOK
    <3> QED
      BY <3>1, <3>2, <3>3 DEF ApplyRows
  <2>2. CASE f \in apply[c].asks /\ Raises(c)
    BY <1>3, <1>4, <2>2
  <2>3. CASE f \in apply[c].asks /\ ~Raises(c)
    <3>1. /\ written' = [written EXCEPT ![c] = @ \cup {f}]
          /\ GoesTo(c, next) /\ UNCHANGED <<audited, cutShort>>
      BY <1>4, <2>3 DEF Applied
    <3>2. /\ apply' \in [Applies -> Requests]
          /\ \A d \in Applies \ {c} : apply'[d] = apply[d]
          /\ apply'[c].next = next /\ apply'[c].asks = apply[c].asks
      BY <1>2, <3>1
    <3>3. /\ written' \in [Applies -> SUBSET Fields] /\ written'[c] = written[c] \cup {f}
          /\ \A d \in Applies \ {c} : written'[d] = written[d]
      BY <3>1 DEF ApplyRows
    <3>4. \A d \in Applies : RequestOK(d)'
      BY <1>4, <2>3, <3>1, <3>2, <3>3 DEF ApplyRows, RequestOK
    <3> QED
      BY <3>1, <3>2, <3>3, <3>4 DEF ApplyRows
  <2> QED
    BY <1>4, <2>1, <2>2, <2>3 DEF Applied
<1>5. CASE SetFloor(c)
  BY <1>4, <1>5 DEF SetFloor, Fields
<1>6. CASE Prune(c)
  BY <1>4, <1>6 DEF Prune, Fields
<1>7. CASE AppendAction(c)
  <2>1. CASE Raises(c)
    BY <1>3, <1>7, <2>1 DEF AppendAction
  <2>2. CASE /\ audited' = [audited EXCEPT ![c] = Collected(c)]
             /\ GoesTo(c, "over") /\ UNCHANGED <<written, cutShort>>
    <3>1. /\ apply' \in [Applies -> Requests]
          /\ \A d \in Applies \ {c} : apply'[d] = apply[d]
          /\ apply'[c].next = "over" /\ apply'[c].asks = apply[c].asks
      BY <1>2, <2>2
    <3>2. /\ audited' \in [Applies -> SUBSET Fields] /\ audited'[c] = written[c]
          /\ \A d \in Applies \ {c} : audited'[d] = audited[d]
      BY <2>2 DEF ApplyRows, Collected
    <3>3. \A d \in Applies : RequestOK(d)'
      BY <1>7, <2>2, <3>1, <3>2 DEF AppendAction, ApplyRows, RequestOK
    <3>4. cutShort' = cutShort /\ written' = written
      BY <2>2
    <3>5. ApplyRows'
      BY <3>1, <3>2, <3>3, <3>4 DEF ApplyRows
    <3> QED
      BY <1>7, <3>5 DEF AppendAction
  <2> QED
    BY <1>7, <2>1, <2>2 DEF AppendAction
<1> QED
  BY <1>1, <1>5, <1>6, <1>7 DEF ApplyStep, SetFloor, Prune, AppendAction

LEMMA BacktestStepInv == BacktestInv /\ [BacktestNext]_backtestVars => BacktestInv'
<1> SUFFICES ASSUME BacktestInv, [BacktestNext]_backtestVars
             PROVE  BacktestInv'
  OBVIOUS
<1>1. ASSUME NEW r \in Runs, RunStep(r)
      PROVE  BacktestInv'
  <2>1. RunRows'
    BY <1>1, RunStepInv DEF BacktestInv
  <2>2. UNCHANGED <<apply, written, audited, cutShort, crashes>>
    BY <1>1, RunStepLeavesRequests
  <2>3. ApplyRows'
    BY <2>2 DEF BacktestInv, ApplyRows, RequestOK
  <2> QED
    BY <2>1, <2>2, <2>3 DEF BacktestInv
<1>2. ASSUME NEW c \in Applies, ApplyStep(c)
      PROVE  BacktestInv'
  <2>1. ApplyRows' /\ UNCHANGED <<lifecycle, crashes>>
    BY <1>2, ApplyStepInv DEF BacktestInv
  <2>2. RunRows'
    BY <2>1 DEF BacktestInv, RunRows, Unended, lifecycle
  <2> QED
    BY <2>1, <2>2 DEF BacktestInv
<1>3. CASE ApiRestarts
  <2>1. RunRows'
    BY <1>3 DEF ApiRestarts, Orphans, BacktestInv, RunRows, Unended
  <2>2. \A c \in Applies : /\ apply'[c] = IF apply[c].next = "none" THEN NoApply
                                          ELSE [apply[c] EXCEPT !.next = "over"]
                           /\ apply[c] \in Requests
    BY <1>3 DEF ApiRestarts, BacktestInv, ApplyRows
  <2>3. ASSUME NEW c \in Applies
        PROVE  apply'[c] \in Requests
    <3>1. NoApply \in Requests
      BY DEF Requests, NoApply
    <3>2. ASSUME NEW e \in Requests
          PROVE  [e EXCEPT !.next = "over"] \in Requests
      BY DEF Requests
    <3> QED
      BY <2>2, <3>1, <3>2
  <2>4. apply' \in [Applies -> Requests]
    BY <1>3, <2>3 DEF ApiRestarts
  <2>5. ASSUME NEW c \in Applies
        PROVE  RequestOK(c)'
    <3>1. CASE apply[c].next = "none"
      BY <1>3, <2>2, <3>1 DEF ApiRestarts, BacktestInv, ApplyRows, RequestOK, NoApply
    <3>2. CASE apply[c].next # "none"
      <4>1. apply'[c].next = "over" /\ apply'[c].asks = apply[c].asks
        BY <2>2, <3>2 DEF Requests
      <4> QED
        BY <1>3, <4>1 DEF ApiRestarts, BacktestInv, ApplyRows, RequestOK
    <3> QED
      BY <3>1, <3>2
  <2> QED
    BY <1>3, <2>1, <2>4, <2>5 DEF ApiRestarts, BacktestInv, ApplyRows
<1>4. CASE ServiceDies
  <2>1. RunRows'
    BY <1>4 DEF ServiceDies, BacktestInv, RunRows, Unended
  <2>2. ApplyRows'
    BY <1>4 DEF ServiceDies, BacktestInv, ApplyRows, RequestOK, applying
  <2> QED
    BY <1>4, <2>1, <2>2, BacktestConstants DEF ServiceDies, BacktestInv
<1>5. CASE UNCHANGED backtestVars
  BY <1>5 DEF backtestVars, lifecycle, applying, BacktestInv, RunRows, Unended, ApplyRows, RequestOK
<1> QED
  BY <1>1, <1>2, <1>3, <1>4, <1>5 DEF BacktestNext

LEMMA BacktestInvariant == BacktestSpec => []BacktestInv
  BY BacktestInitInv, BacktestStepInv, PTL DEF BacktestSpec

\* The state of the runs and of the requests keeps its type.
THEOREM BacktestTypeCorrect == BacktestSpec => []BacktestTypeOK
<1>1. BacktestInv => BacktestTypeOK
  BY DEF BacktestInv, RunRows, ApplyRows, RequestOK, Requests, BacktestTypeOK
<1> QED
  BY <1>1, BacktestInvariant, PTL

\* Whatever raises and whenever the api restarts: what a request wrote to the agent is
\* what it filed in the audit, or it was cut short and filed nothing.
THEOREM TheChangesAreAudited == BacktestSpec => []ChangesAreAudited
<1>1. BacktestInv => ChangesAreAudited
  BY DEF BacktestInv, ApplyRows, RequestOK, ChangesAreAudited
<1> QED
  BY <1>1, BacktestInvariant, PTL

\* A run once shown as ended is never shown as pending or running again.
THEOREM EndedRunsStayEnded == BacktestSpec => NeverBackToWork
<1>1. ASSUME BacktestInv, [BacktestNext]_backtestVars, NEW r \in Runs,
             run[r] \in {"done", "failed"}
      PROVE  run'[r] \in {"done", "failed"}
  <2>1. ASSUME NEW s \in Runs, RunStep(s)
        PROVE  run'[r] \in {"done", "failed"}
    BY <1>1, <2>1
       DEF BacktestInv, RunRows, RunStep, JobStep, CreateBacktest, SubmitAcknowledged,
           SubmitFails, SixHoursPass, PostArrives, PostLost, MarkRunning, MayRun, Evaluate,
           MarkDone, MarkFailed
  <2>2. ASSUME NEW c \in Applies, ApplyStep(c)
        PROVE  run'[r] \in {"done", "failed"}
    BY <1>1, <2>2, ApplyStepInv DEF BacktestInv, lifecycle
  <2> QED
    BY <1>1, <2>1, <2>2
       DEF BacktestNext, ApiRestarts, ServiceDies, BacktestInv, RunRows, backtestVars, lifecycle
<1>2. BacktestInv /\ [BacktestNext]_backtestVars =>
          [\A r \in Runs : run[r] \in {"done", "failed"} => run'[r] \in {"done", "failed"}]_backtestVars
  BY <1>1
<1> QED
  BY <1>2, BacktestInvariant, PTL DEF BacktestSpec, NeverBackToWork

-----------------------------------------------------------------------------
(***************************************************************************)
(* Calibration.  What was loaded, is cached or was answered is a version   *)
(* that was the active one when its call began, or later.                  *)
(***************************************************************************)
Loaded == (0 .. calibrator) \cup {Failed}

\* An empty window has no samples: the one fact about the sum that is needed.
LEMMA NoSamples == Window = {} => Samples = 0
<1> DEFINE Solves(g) ==
        g = [s \in SUBSET {} |-> IF s = {} THEN 0
                                 ELSE settled[CHOOSE x \in s : TRUE] + g[s \ {CHOOSE x \in s : TRUE}]]
           Iter == CHOOSE g : Solves(g)
<1> SUFFICES ASSUME Window = {}
             PROVE  Samples = 0
  OBVIOUS
<1>1. Samples = Iter[{}]
  BY DEF Samples, MapThenSumSet, MapThenFoldSet
<1>2. Solves([s \in SUBSET {} |-> 0])
  <2>1. \A s \in SUBSET {} : s = {}
    OBVIOUS
  <2> QED
    BY <2>1
<1>3. Solves(Iter)
  <2> HIDE DEF Solves
  <2> QED
    BY <1>2
<1> HIDE DEF Iter
<1>4. Iter[{}] = 0
  BY <1>3
<1> QED
  BY <1>1, <1>4

StoreInv ==
    /\ clock \in 0 .. MaxClock /\ calibrator \in Versions
    /\ retired \in [Versions -> 0 .. Never]
    /\ \A v \in Versions : IF v < calibrator THEN retired[v] =< clock ELSE retired[v] = Never

FitInv ==
    /\ settled \in [Versions \X BOOLEAN -> Nat]
    /\ fitter \in {"asleep", "fetched", "stored"}
    /\ (fitter = "fetched") <=> (sample # {})
    /\ sample \subseteq Versions
    /\ used \subseteq 0 .. calibrator /\ epoch \in 0 .. calibrator
    /\ fitter = "stored" => epoch < calibrator
    /\ fitter = "fetched" => calibrator < MaxFits

\* A load that has read a version now replaced began before the last clear, once
\* the fit that replaced it has cleared.
CallInv ==
    /\ caller \in [next : {"none", "select", "store"}, began : 0 .. clock,
                   version : Loaded, epoch : 0 .. epoch]
    /\ caller.version # Failed => retired[caller.version] >= caller.began \/ caller.next # "store"
    /\ caller.next = "store" /\ fitter # "stored" /\ caller.version \notin {calibrator, Failed}
         => caller.epoch < epoch

CacheInv ==
    cache = NoEntry \/
    /\ cache \in [stamp : 0 .. clock, version : Loaded, begun : 0 .. epoch, stored : 0 .. epoch]
    /\ cache.version # Failed => retired[cache.version] >= cache.stamp
    /\ fitter # "stored" /\ cache.version \notin {calibrator, Failed}
         => cache.begun < epoch /\ cache.stored = epoch

AnswerInv ==
    /\ answer \in [version : Loaded, began : 0 .. clock]
    /\ answer.version # Failed => retired[answer.version] >= answer.began - TTL

CalibrationInv == StoreInv /\ FitInv /\ CallInv /\ CacheInv /\ AnswerInv

LEMMA CalibrationInitInv == CalibrationInit => CalibrationInv
  BY CalibrationConstants
     DEF CalibrationInit, CalibrationInv, StoreInv, FitInv, CallInv, CacheInv, AnswerInv,
         Versions, Never, NoCall, Loaded

LEMMA VersionFacts ==
    ASSUME StoreInv
    PROVE  /\ clock \in Nat /\ calibrator \in Nat /\ Failed \notin 0 .. calibrator
           /\ 0 .. calibrator \subseteq Versions /\ retired[calibrator] = Never
           /\ Never \in Nat /\ clock < Never /\ TTL \in Nat
           /\ \A v \in 0 .. calibrator : retired[v] \in Nat
  BY CalibrationConstants DEF StoreInv, Versions, Never

LEMMA AnswersStep ==
    ASSUME CalibrationInv, CacheHit \/ CacheMiss \/ LoadActive \/ StoreEntry
    PROVE  CalibrationInv'
<1>1. UNCHANGED <<clock, calibrator, retired, settled, fitter, sample, epoch, learnt>>
  BY DEF CacheHit, CacheMiss, LoadActive, StoreEntry, store, fit
<1>2. StoreInv'
  BY <1>1 DEF CalibrationInv, StoreInv
<1>3. ASSUME NEW v \in Loaded, NEW t \in 0 .. clock, Answers(v, t),
             v # Failed => retired[v] >= t - TTL
      PROVE  FitInv' /\ AnswerInv'
  <2>1. (IF v = Failed THEN 0 ELSE v) \in 0 .. calibrator
    BY <1>3, VersionFacts DEF Loaded, CalibrationInv
  <2> QED
    BY <1>1, <1>3, <2>1 DEF Answers, CalibrationInv, FitInv, AnswerInv, Loaded
<1>4. CASE CacheHit
  <2>1. UNCHANGED <<cache, caller>> /\ Answers(cache.version, clock)
        /\ cache # NoEntry /\ clock - cache.stamp <= TTL
    BY <1>4 DEF CacheHit, Hit
  <2>2. cache.version \in Loaded /\ clock \in 0 .. clock
    BY <2>1, VersionFacts DEF CalibrationInv, CacheInv
  <2>3. cache.version # Failed => retired[cache.version] >= clock - TTL
    BY <2>1, VersionFacts DEF CalibrationInv, CacheInv, Loaded
  <2>4. FitInv' /\ AnswerInv'
    BY <1>3, <2>1, <2>2, <2>3
  <2>5. CallInv' /\ CacheInv'
    BY <1>1, <2>1 DEF CalibrationInv, CallInv, CacheInv, Loaded
  <2> QED
    BY <1>2, <2>4, <2>5 DEF CalibrationInv
<1>5. CASE CacheMiss
  <2>1. UNCHANGED <<cache, answer, used>>
        /\ caller' = [next |-> "select", began |-> clock, version |-> 0, epoch |-> epoch]
    BY <1>5 DEF CacheMiss
  <2>2. FitInv' /\ AnswerInv' /\ CacheInv'
    BY <1>1, <2>1 DEF CalibrationInv, FitInv, AnswerInv, CacheInv, Loaded
  <2>3. CallInv'
    <3>1. 0 \in Loaded /\ clock \in 0 .. clock /\ epoch \in 0 .. epoch
      BY VersionFacts DEF CalibrationInv, FitInv, Loaded
    <3> QED
      BY <1>1, <2>1, <3>1 DEF CallInv, Loaded
  <2> QED
    BY <1>2, <2>2, <2>3 DEF CalibrationInv
<1>6. CASE LoadActive
  <2>1. PICK v \in {calibrator, Failed} : caller' = [caller EXCEPT !.next = "store", !.version = v]
    BY <1>6 DEF LoadActive
  <2>2. UNCHANGED <<cache, answer, used>>
    BY <1>6 DEF LoadActive
  <2>3. FitInv' /\ AnswerInv' /\ CacheInv'
    BY <1>1, <2>2 DEF CalibrationInv, FitInv, AnswerInv, CacheInv, Loaded
  <2>4. CallInv'
    <3>1. v \in Loaded
      BY VersionFacts DEF CalibrationInv, Loaded
    <3>2. /\ caller' \in [next : {"none", "select", "store"}, began : 0 .. clock,
                          version : Loaded, epoch : 0 .. epoch]
          /\ caller'.version = v /\ caller'.began = caller.began /\ caller.began \in 0 .. clock
      BY <2>1, <3>1 DEF CalibrationInv, CallInv
    <3>3. v # Failed => retired[v] >= caller.began
      BY <3>2, VersionFacts DEF CalibrationInv
    <3> QED
      BY <1>1, <3>2, <3>3 DEF CallInv, Loaded
  <2> QED
    BY <1>2, <2>3, <2>4 DEF CalibrationInv
<1>7. CASE StoreEntry
  <2>1. /\ caller.next = "store" /\ caller' = NoCall /\ Answers(caller.version, caller.began)
        /\ cache' = [stamp |-> caller.began, version |-> caller.version,
                     begun |-> caller.epoch, stored |-> epoch]
    BY <1>7 DEF StoreEntry, Stamp
  <2>2. /\ caller.version \in Loaded /\ caller.began \in 0 .. clock /\ caller.epoch \in 0 .. epoch
        /\ caller.version # Failed => retired[caller.version] >= caller.began
    BY <2>1 DEF CalibrationInv, CallInv
  <2>3. caller.version # Failed => retired[caller.version] >= caller.began - TTL
    BY <2>2, VersionFacts DEF CalibrationInv, Loaded
  <2>4. FitInv' /\ AnswerInv'
    BY <1>3, <2>1, <2>2, <2>3
  <2>5. CacheInv'
    <3>1. epoch \in 0 .. epoch
      BY VersionFacts DEF CalibrationInv, FitInv
    <3>2. /\ cache' \in [stamp : 0 .. clock, version : Loaded, begun : 0 .. epoch, stored : 0 .. epoch]
          /\ cache'.version = caller.version /\ cache'.stamp = caller.began
          /\ cache'.begun = caller.epoch /\ cache'.stored = epoch
      BY <2>1, <2>2, <3>1
    <3>3. fitter # "stored" /\ caller.version \notin {calibrator, Failed} => caller.epoch < epoch
      BY <2>1 DEF CalibrationInv, CallInv
    <3> QED
      BY <1>1, <2>2, <3>2, <3>3 DEF CacheInv, Loaded
  <2>6. CallInv'
    <3>1. 0 \in Loaded /\ 0 \in 0 .. clock /\ 0 \in 0 .. epoch
      BY VersionFacts DEF CalibrationInv, FitInv, Loaded
    <3> QED
      BY <1>1, <2>1, <3>1 DEF CallInv, NoCall, Loaded
  <2> QED
    BY <1>2, <2>4, <2>5, <2>6 DEF CalibrationInv
<1> QED
  BY <1>4, <1>5, <1>6, <1>7

LEMMA TradesStep ==
    ASSUME CalibrationInv,
           \/ \E w \in BOOLEAN : TradeSettles(w)
           \/ \E e \in Window : LeavesWindow(e)
           \/ FetchPairs \/ FitFails
    PROVE  CalibrationInv'
<1>1. UNCHANGED <<clock, calibrator, retired, epoch, cache, caller, answer, used>>
      /\ (fitter' = fitter \/ (fitter # "stored" /\ fitter' # "stored"))
  BY DEF TradeSettles, LeavesWindow, FetchPairs, FitFails, store, fit, calls
<1>2. StoreInv' /\ AnswerInv'
  BY <1>1 DEF CalibrationInv, StoreInv, AnswerInv, Loaded
<1>3. CallInv' /\ CacheInv'
  BY <1>1 DEF CalibrationInv, CallInv, CacheInv, Loaded
<1>4. ASSUME NEW e \in Window, LeavesWindow(e)
      PROVE  FitInv'
  <2>1. settled' \in [Versions \X BOOLEAN -> Nat]
    BY <1>4 DEF LeavesWindow, Window, CalibrationInv, FitInv
  <2> QED
    BY <1>1, <1>4, <2>1 DEF LeavesWindow, fit, CalibrationInv, FitInv
<1>5. ASSUME NEW w \in BOOLEAN, TradeSettles(w)
      PROVE  FitInv'
  <2>1. PICK v \in used : settled' = [settled EXCEPT ![<<v, w>>] = @ + 1]
    BY <1>5 DEF TradeSettles
  <2>2. v \in Versions
    BY VersionFacts DEF CalibrationInv, FitInv
  <2>3. PICK e \in Versions \X BOOLEAN : settled' = [settled EXCEPT ![e] = @ + 1]
    BY <2>1, <2>2
  <2>4. settled' \in [Versions \X BOOLEAN -> Nat]
    BY <2>3 DEF CalibrationInv, FitInv
  <2> QED
    BY <1>1, <1>5, <2>4 DEF TradeSettles, fit, CalibrationInv, FitInv
<1>6. ASSUME FetchPairs
      PROVE  FitInv'
  <2>1. Samples # 0
    BY <1>6, CalibrationConstants DEF FetchPairs, Enough
  <2>2. Window # {} /\ Window \subseteq Versions \X BOOLEAN
    BY <2>1, NoSamples DEF Window, CalibrationInv, FitInv
  <2>3. /\ sample' = {e[1] : e \in Window} /\ fitter' = "fetched" /\ settled' = settled
        /\ calibrator < MaxFits
    BY <1>6 DEF FetchPairs
  <2>4. sample' # {} /\ sample' \subseteq Versions
    <3> HIDE DEF Window
    <3> QED
      BY <2>2, <2>3
  <2>5. fitter' = "fetched" /\ settled' = settled /\ calibrator < MaxFits
    BY <2>3
  <2> QED
    BY <1>1, <2>4, <2>5 DEF CalibrationInv, FitInv
<1>7. ASSUME FitFails
      PROVE  FitInv'
  <2>1. fitter' = "asleep" /\ sample' = {} /\ settled' = settled
    BY <1>7 DEF FitFails
  <2> QED
    BY <1>1, <2>1 DEF CalibrationInv, FitInv
<1>8. FitInv'
  BY <1>4, <1>5, <1>6, <1>7
<1> QED
  BY <1>2, <1>3, <1>8 DEF CalibrationInv

LEMMA CommitStep ==
    ASSUME CalibrationInv, CommitFit
    PROVE  CalibrationInv'
<1>1. /\ fitter = "fetched" /\ calibrator' = calibrator + 1 /\ fitter' = "stored" /\ sample' = {}
      /\ retired' = [retired EXCEPT ![calibrator] = clock]
      /\ UNCHANGED <<clock, settled, epoch, cache, caller, answer, used>>
  BY DEF CommitFit, calls
<1>2. calibrator < MaxFits /\ calibrator \in 0 .. MaxFits /\ calibrator' \in 0 .. MaxFits
  BY <1>1, CalibrationConstants DEF CalibrationInv, StoreInv, FitInv, Versions
<1>3. /\ retired' \in [Versions -> 0 .. Never]
      /\ \A v \in Versions : IF v < calibrator' THEN retired'[v] =< clock' ELSE retired'[v] = Never
  <2>1. clock \in 0 .. Never /\ clock \in Nat
    BY VersionFacts DEF CalibrationInv
  <2>2. retired' \in [Versions -> 0 .. Never]
    BY <1>1, <2>1 DEF CalibrationInv, StoreInv
  <2>3. ASSUME NEW v \in Versions
        PROVE  IF v < calibrator' THEN retired'[v] =< clock' ELSE retired'[v] = Never
    <3>1. retired'[v] = IF v = calibrator THEN clock ELSE retired[v]
      BY <1>1 DEF CalibrationInv, StoreInv
    <3>2. v \in Nat
      BY DEF Versions
    <3> QED
      BY <1>1, <1>2, <2>1, <3>1, <3>2 DEF CalibrationInv, StoreInv
  <2> QED
    BY <2>2, <2>3
<1>4. StoreInv'
  BY <1>1, <1>2, <1>3 DEF CalibrationInv, StoreInv, Versions, Never
\* The version that is replaced now was the active one until now.
<1>5. ASSUME NEW v \in Loaded, v # Failed
      PROVE  /\ retired'[v] = (IF v = calibrator THEN clock ELSE retired[v])
             /\ retired[v] \in Nat
  <2>1. v \in 0 .. calibrator /\ v \in Versions
    BY <1>2, <1>5, CalibrationConstants, VersionFacts DEF Loaded, Versions, CalibrationInv
  <2> QED
    BY <1>1, <2>1, VersionFacts DEF CalibrationInv, StoreInv
<1>6. Loaded \subseteq Loaded'
  BY <1>1, <1>2 DEF Loaded
<1>7. FitInv'
  <2>1. used \subseteq 0 .. calibrator' /\ epoch \in 0 .. calibrator' /\ epoch < calibrator'
    BY <1>1, <1>2 DEF CalibrationInv, FitInv
  <2> QED
    BY <1>1, <2>1 DEF CalibrationInv, FitInv
<1>8. CallInv'
  <2>1. caller' \in [next : {"none", "select", "store"}, began : 0 .. clock,
                     version : Loaded', epoch : 0 .. epoch]
    BY <1>1, <1>6 DEF CalibrationInv, CallInv
  <2>2. caller.began \in Int /\ caller.began =< clock /\ caller.version \in Loaded
    BY VersionFacts DEF CalibrationInv, CallInv
  <2>3. caller.version # Failed => retired'[caller.version] >= caller.began \/ caller.next # "store"
    BY <1>5, <2>2, VersionFacts DEF CalibrationInv, CallInv
  <2> QED
    BY <1>1, <2>1, <2>3 DEF CallInv
<1>9. CacheInv'
  <2>1. CASE cache = NoEntry
    BY <1>1, <2>1 DEF CacheInv
  <2>2. CASE cache # NoEntry
    <3>1. /\ cache.stamp \in Int /\ cache.stamp =< clock /\ cache.version \in Loaded
          /\ cache.version # Failed => retired[cache.version] >= cache.stamp
      BY <2>2, VersionFacts DEF CalibrationInv, CacheInv
    <3>2. cache.version # Failed => retired'[cache.version] >= cache.stamp
      BY <1>5, <3>1, VersionFacts DEF CalibrationInv
    <3>3. cache' \in [stamp : 0 .. clock, version : Loaded', begun : 0 .. epoch, stored : 0 .. epoch]
      BY <1>1, <1>6, <2>2 DEF CalibrationInv, CacheInv
    <3> QED
      BY <1>1, <3>2, <3>3 DEF CacheInv
  <2> QED
    BY <2>1, <2>2
<1>10. AnswerInv'
  <2>1. /\ answer.began - TTL \in Int /\ answer.began - TTL =< clock /\ answer.version \in Loaded
        /\ answer.version # Failed => retired[answer.version] >= answer.began - TTL
    BY VersionFacts DEF CalibrationInv, AnswerInv
  <2>2. answer.version # Failed => retired'[answer.version] >= answer.began - TTL
    BY <1>5, <2>1, VersionFacts DEF CalibrationInv
  <2> QED
    BY <1>1, <1>6, <2>2 DEF CalibrationInv, AnswerInv
<1> QED
  BY <1>4, <1>7, <1>8, <1>9, <1>10 DEF CalibrationInv

LEMMA ClearStep ==
    ASSUME CalibrationInv, ClearCache \/ CalibrationRestart
    PROVE  CalibrationInv'
<1>1. /\ UNCHANGED <<clock, calibrator, retired, settled, answer, used>>
      /\ fitter' = "asleep" /\ cache' = NoEntry
      /\ ClearCache => fitter = "stored" /\ UNCHANGED <<sample, caller>> /\ epoch' = calibrator
      /\ CalibrationRestart => sample' = {} /\ caller' = NoCall /\ epoch' = epoch
  BY DEF ClearCache, CalibrationRestart, Cleared, store
<1>2. StoreInv' /\ AnswerInv' /\ CacheInv'
  BY <1>1 DEF CalibrationInv, StoreInv, AnswerInv, CacheInv, Loaded
<1>3. CASE ClearCache
  <2>1. epoch < calibrator /\ epoch \in Nat /\ calibrator \in Nat
    BY <1>1, <1>3, VersionFacts DEF CalibrationInv, FitInv
  <2>2. FitInv'
    BY <1>1, <1>3, <2>1 DEF CalibrationInv, FitInv
  <2>3. caller.epoch \in 0 .. epoch /\ caller.epoch \in 0 .. epoch' /\ caller.epoch < epoch'
    BY <1>1, <1>3, <2>1 DEF CalibrationInv, CallInv
  <2>4. caller' \in [next : {"none", "select", "store"}, began : 0 .. clock,
                     version : Loaded, epoch : 0 .. epoch']
    BY <1>1, <1>3, <2>3 DEF CalibrationInv, CallInv
  <2>5. CallInv'
    BY <1>1, <1>3, <2>3, <2>4 DEF CalibrationInv, CallInv, Loaded
  <2> QED
    BY <1>2, <2>2, <2>5 DEF CalibrationInv
<1>4. CASE CalibrationRestart
  <2>1. FitInv'
    BY <1>1, <1>4 DEF CalibrationInv, FitInv
  <2>2. CallInv'
    <3>1. 0 \in Loaded /\ 0 \in 0 .. clock /\ 0 \in 0 .. epoch
      BY VersionFacts DEF CalibrationInv, FitInv, Loaded
    <3> QED
      BY <1>1, <1>4, <3>1 DEF CallInv, NoCall, Loaded
  <2> QED
    BY <1>2, <2>1, <2>2 DEF CalibrationInv
<1> QED
  BY <1>3, <1>4

LEMMA ClockStep ==
    ASSUME CalibrationInv, ClockTicks
    PROVE  CalibrationInv'
<1>1. /\ clock < MaxClock /\ clock' = clock + 1
      /\ UNCHANGED <<calibrator, retired, settled, fitter, sample, epoch, cache, caller,
                     answer, used>>
  BY DEF ClockTicks, store, fit, calls
<1>2. StoreInv'
  BY <1>1, CalibrationConstants DEF CalibrationInv, StoreInv, Versions, Never
<1>3. 0 .. clock \subseteq 0 .. clock'
  BY <1>1, VersionFacts DEF CalibrationInv
<1>4. FitInv'
  BY <1>1 DEF CalibrationInv, FitInv
<1>5. CallInv' /\ CacheInv' /\ AnswerInv'
  BY <1>1, <1>3 DEF CalibrationInv, CallInv, CacheInv, AnswerInv, Loaded
<1> QED
  BY <1>2, <1>4, <1>5 DEF CalibrationInv

LEMMA CalibrationStepInv == CalibrationInv /\ [CalibrationNext]_calibrationVars => CalibrationInv'
<1>1. ASSUME CalibrationInv, UNCHANGED calibrationVars
      PROVE  CalibrationInv'
  BY <1>1 DEF calibrationVars, store, fit, calls, CalibrationInv, StoreInv, FitInv, CallInv,
              CacheInv, AnswerInv, Loaded
<1> QED
  BY <1>1, AnswersStep, TradesStep, CommitStep, ClearStep, ClockStep DEF CalibrationNext

LEMMA CalibrationAlways == CalibrationSpec => []CalibrationInv
  BY CalibrationInitInv, CalibrationStepInv, PTL DEF CalibrationSpec

\* Every version of the calibrator has its time of replacement exactly when it has
\* been replaced, and no cache entry, call or answer is about a version not yet fitted.
THEOREM CalibrationTypeCorrect == CalibrationSpec => []CalibrationTypeOK
<1>1. CalibrationInv => CalibrationTypeOK
  <2> SUFFICES ASSUME CalibrationInv
               PROVE  CalibrationTypeOK
    OBVIOUS
  <2>1. \A v \in Versions : v < calibrator <=> retired[v] # Never
    BY VersionFacts DEF CalibrationInv, StoreInv
  <2>2. cache = NoEntry \/ (cache.stamp \in 0 .. clock /\ cache.version \in (0 .. calibrator) \cup {Failed})
    BY DEF CalibrationInv, CacheInv, Loaded
  <2>3. caller.next \in {"none", "select", "store"} /\ caller.began \in 0 .. clock
    BY DEF CalibrationInv, CallInv
  <2>4. (fitter = "fetched") = (sample # {})
    BY DEF CalibrationInv, FitInv
  <2> QED
    BY <2>1, <2>2, <2>3, <2>4 DEF CalibrationTypeOK, CalibrationInv, StoreInv, FitInv
<1> QED
  BY <1>1, CalibrationAlways, PTL

\* A confidence is calibrated by a version that was replaced at most a TTL before
\* its signal, and an older one outlives the clear only in a load the clear overtook.
THEOREM StalenessIsBounded == CalibrationSpec => []StalenessBounded
<1>1. CalibrationInv => StalenessBounded
  <2> SUFFICES ASSUME CalibrationInv
               PROVE  StalenessBounded
    OBVIOUS
  <2>1. ServedIsRecent
    BY DEF CalibrationInv, AnswerInv, ServedIsRecent
  <2>2. StaleOnlyByRace
    BY DEF CalibrationInv, CacheInv, StaleOnlyByRace
  <2> QED
    BY <2>1, <2>2 DEF StalenessBounded
<1> QED
  BY <1>1, CalibrationAlways, PTL

-----------------------------------------------------------------------------
(***************************************************************************)
(* SignalGate.  An agent that has traded since it was barred is no longer  *)
(* in the hands of the loop, or the loop has read the target it reached.   *)
(***************************************************************************)
LEMMA BandValues == \A t, p : Band(t, p) \in {0, 2, 3, 4}
  BY DEF Band

LEMMA MinOfTwo ==
    ASSUME NEW x \in Int, NEW y \in Int
    PROVE  Min({x, y}) \in {x, y} /\ Min({x, y}) =< x /\ Min({x, y}) =< y
<1>1. \E m \in {x, y} : \A z \in {x, y} : m =< z
  <2>1. CASE x =< y
    BY <2>1
  <2>2. CASE ~(x =< y)
    BY <2>2
  <2> QED
    BY <2>1, <2>2
<1>2. Min({x, y}) \in {x, y} /\ \A z \in {x, y} : Min({x, y}) =< z
  BY <1>1 DEF Min
<1> QED
  BY <1>2

LEMMA BandOfValues ==
    ASSUME NEW a \in Agents
    PROVE  /\ BandOf(a) \in {0, 2, 3, 4}
           /\ Band(goal[a], profit[a]) = 0 \/ Band(teamGoal, TeamProfit) = 0 => BandOf(a) = 0
<1> DEFINE own == Band(goal[a], profit[a])
           team == Band(teamGoal, TeamProfit)
<1>1. own \in {0, 2, 3, 4} /\ team \in {0, 2, 3, 4}
  BY BandValues
<1>2. BandOf(a) = Min({team, own})
  BY DEF BandOf
<1> HIDE DEF own, team
<1>3. own \in Int /\ team \in Int
  BY <1>1
<1>4. Min({team, own}) \in {team, own} /\ Min({team, own}) =< team /\ Min({team, own}) =< own
  BY <1>3, MinOfTwo
<1>5. BandOf(a) \in {0, 2, 3, 4} /\ (own = 0 \/ team = 0 => BandOf(a) = 0)
  BY <1>1, <1>2, <1>4
<1> QED
  BY <1>5 DEF own, team

\* The ghost counts to one; then neither the candidates to come nor the one taken is a.
Handled(a) == a \in waiting \/ taken = a
SignalInv ==
    /\ SignalTypeOK
    /\ late \in [Agents -> 0 .. 1]
    /\ \A a \in Agents : late[a] = 1 /\ Handled(a) => view[a].band = 0

LEMMA SignalInitInv == SignalInit => SignalInv
<1> SUFFICES ASSUME SignalInit
             PROVE  SignalInv
  OBVIOUS
<1>1. SignalTypeOK
  BY SignalConstants DEF SignalInit, SignalTypeOK, LongAgo, Unseen
<1>2. late \in [Agents -> 0 .. 1] /\ \A a \in Agents : late[a] = 0
  BY DEF SignalInit
<1> QED
  BY <1>1, <1>2 DEF SignalInv

LEMMA SignalStepTypes ==
    ASSUME SignalTypeOK, SignalNext
    PROVE  SignalTypeOK'
<1> USE SignalConstants DEF configs, books, handling
<1>1. CASE SelectCandidates
  <2>1. /\ signal = NoSignal /\ inbox # <<>> /\ signal' = Head(inbox) /\ inbox' = Tail(inbox) /\ lag' = 0
        /\ waiting' = {a \in Agents : runnable[a] /\ ~cooling[a] /\ signal'.confidence >= floor[a]}
        /\ view' = [a \in Agents |-> IF a \in waiting'
                                       THEN [allows |-> Allows(whitelist[a], signal'.asset), band |-> BandOf(a)]
                                       ELSE Unseen]
        /\ UNCHANGED <<whitelist, floor, goal, teamGoal, profit, open, taken, age>>
    BY <1>1 DEF SelectCandidates
  <2>2. signal' \in Signals /\ inbox' \in Seq(Signals) /\ signal' # NoSignal
    <3>1. inbox \in Seq(Signals) /\ inbox # <<>> /\ signal' = Head(inbox) /\ inbox' = Tail(inbox)
      BY <2>1 DEF SignalTypeOK
    <3>2. signal' \in Signals /\ inbox' \in Seq(Signals)
      BY <3>1
    <3> QED
      BY <3>2 DEF Signals
  <2>3. taken' = NoOne /\ waiting' \subseteq Agents /\ taken' \notin waiting'
    BY <2>1 DEF SignalTypeOK
  <2>4. view' \in [Agents -> [allows : BOOLEAN, band : {0, 2, 3, 4}]]
    <3>1. ASSUME NEW a \in Agents
          PROVE  view'[a] \in [allows : BOOLEAN, band : {0, 2, 3, 4}]
      <4>1. Allows(whitelist[a], signal'.asset) \in BOOLEAN
        BY DEF Allows
      <4>2. BandOf(a) \in {0, 2, 3, 4}
        BY BandOfValues
      <4>3. Unseen \in [allows : BOOLEAN, band : {0, 2, 3, 4}]
        BY DEF Unseen
      <4>4. view'[a] = IF a \in waiting'
                         THEN [allows |-> Allows(whitelist[a], signal'.asset), band |-> BandOf(a)]
                         ELSE Unseen
        BY <2>1, Zenon
      <4> QED
        BY <4>1, <4>2, <4>3, <4>4
    <3>2. view' = [a \in Agents |-> view'[a]]
      BY <2>1, Zenon
    <3> QED
      BY <3>1, <3>2
  <2>5. lag' \in 0 .. MaxLag
    BY <2>1
  <2>6. UNCHANGED <<whitelist, floor, goal, teamGoal, profit, open, age>>
    BY <2>1
  <2> QED
    BY <2>2, <2>3, <2>4, <2>5, <2>6 DEF SignalTypeOK
<1>2. ASSUME NEW a \in Agents, Take(a)
      PROVE  SignalTypeOK'
  <2>1. age' \in [Agents -> 0 .. LongAgo]
    BY <1>2 DEF Take, Stamps, SignalTypeOK, LongAgo
  <2>2. waiting' = waiting \ {a} /\ taken' \in {a, NoOne} /\ a \in waiting
    BY <1>2 DEF Take
  <2>3. UNCHANGED <<whitelist, floor, goal, teamGoal, profit, open, inbox, signal, view, lag>>
    BY <1>2 DEF Take
  <2> QED
    BY <2>1, <2>2, <2>3 DEF SignalTypeOK, LongAgo
<1>3. CASE Decline
  BY <1>3 DEF Decline, SignalTypeOK, LongAgo
<1>4. CASE Insert
  <2>1. taken \in Agents /\ open[taken] < MaxOpen /\ open' = [open EXCEPT ![taken] = @ + 1]
        /\ taken' = NoOne
    BY <1>4 DEF Insert, SignalTypeOK
  <2>2. UNCHANGED <<whitelist, floor, goal, teamGoal, profit, inbox, signal, waiting, view, lag, age>>
    BY <1>4 DEF Insert
  <2>3. open' \in [Agents -> 0 .. MaxOpen]
    BY <2>1 DEF SignalTypeOK
  <2> QED
    BY <2>1, <2>2, <2>3 DEF SignalTypeOK, LongAgo
<1>5. CASE Finish
  BY <1>5 DEF Finish, SignalTypeOK, LongAgo, Unseen
<1>6. ASSUME NEW x \in Assets, Publish(x)
      PROVE  SignalTypeOK'
  <2>1. PICK c \in Floors : inbox' = Append(inbox, [asset |-> x, confidence |-> c])
    BY <1>6 DEF Publish
  <2>2. inbox' \in Seq(Signals)
    BY <2>1 DEF SignalTypeOK, Signals
  <2>3. UNCHANGED <<whitelist, floor, goal, teamGoal, profit, open, signal, waiting, view, taken, lag, age>>
    BY <1>6 DEF Publish
  <2> QED
    BY <2>2, <2>3 DEF SignalTypeOK, LongAgo
<1>7. CASE Edit
  <2>1. UNCHANGED <<floor, profit, open, inbox, signal, waiting, view, taken, lag, age>>
    BY <1>7 DEF Edit
  <2>2. whitelist' \in [Agents -> Whitelists]
    BY <1>7 DEF Edit, SignalTypeOK
  <2>3. goal' \in [Agents -> {0, Target}]
    <3>1. CASE \E a \in Agents : goal' = [goal EXCEPT ![a] = Target - @]
      <4>1. PICK a \in Agents : goal' = [goal EXCEPT ![a] = Target - @]
        BY <3>1
      <4>2. Target - goal[a] \in {0, Target}
        <5>1. goal[a] = 0 \/ goal[a] = Target
          BY DEF SignalTypeOK
        <5>2. Target - 0 = Target /\ Target - Target = 0
          OBVIOUS
        <5> QED
          BY <5>1, <5>2
      <4> QED
        BY <4>1, <4>2 DEF SignalTypeOK
    <3>2. CASE goal' = goal
      BY <3>2 DEF SignalTypeOK
    <3> QED
      BY <1>7, <3>1, <3>2 DEF Edit
  <2>4. teamGoal' \in {0, Target}
    BY <1>7 DEF Edit, SignalTypeOK
  <2> QED
    BY <2>1, <2>2, <2>3, <2>4 DEF SignalTypeOK, LongAgo
<1>8. CASE SignalRestart
  BY <1>8 DEF SignalRestart, SignalTypeOK, LongAgo, Unseen
<1>9. CASE DayTurns
  BY <1>9 DEF DayTurns, SignalTypeOK, LongAgo
<1>10. CASE Tick
  <2>1. lag' \in 0 .. MaxLag
    BY <1>10 DEF Tick, SignalTypeOK
  <2>2. age' \in [Agents -> 0 .. LongAgo]
    <3>1. ASSUME NEW a \in Agents
          PROVE  Min({LongAgo, age[a] + 1}) \in 0 .. LongAgo
      <4>1. LongAgo \in Int /\ LongAgo >= 0 /\ age[a] + 1 \in Int /\ age[a] + 1 >= 0
        BY DEF SignalTypeOK, LongAgo
      <4>2. Min({LongAgo, age[a] + 1}) \in {LongAgo, age[a] + 1} /\ Min({LongAgo, age[a] + 1}) =< LongAgo
        BY <4>1, MinOfTwo
      <4> QED
        BY <4>1, <4>2
    <3>2. age' = [a \in Agents |-> Min({LongAgo, age[a] + 1})]
      BY <1>10 DEF Tick
    <3> QED
      BY <3>1, <3>2
  <2>3. UNCHANGED <<whitelist, floor, goal, teamGoal, profit, open, inbox, signal, waiting, view, taken>>
    BY <1>10 DEF Tick
  <2> QED
    BY <2>1, <2>2, <2>3 DEF SignalTypeOK, LongAgo
<1>11. ASSUME NEW a \in Agents, NEW d \in {-1, 1}, ClosePosition(a, d)
       PROVE  SignalTypeOK'
  <2>1. profit' \in [Agents -> -MaxProfit .. MaxProfit] /\ open' \in [Agents -> 0 .. MaxOpen]
    BY <1>11, SMTT(20) DEF ClosePosition, SignalTypeOK
  <2>2. UNCHANGED <<whitelist, floor, goal, teamGoal, inbox, signal, waiting, view, taken, lag, age>>
    BY <1>11 DEF ClosePosition
  <2> QED
    BY <2>1, <2>2 DEF SignalTypeOK, LongAgo
<1> QED
  BY <1>1, <1>2, <1>3, <1>4, <1>5, <1>6, <1>7, <1>8, <1>9, <1>10, <1>11 DEF SignalNext, HandlerStep

\* Agents' profits are added up in one place, so that equal books give equal sums.
Profits(f) == MapThenSumSet(LAMBDA a : f[a], Agents)

\* An agent that stays barred over a step on which it trades had not traded before.
LEMMA SignalStepLate ==
    ASSUME SignalInv, SignalNext
    PROVE  /\ late' \in [Agents -> 0 .. 1]
           /\ \A a \in Agents : late'[a] = 1 /\ Handled(a)' => view'[a].band = 0
<1>1. /\ late' = [a \in Agents |->
                    IF ~Barred(a)' THEN 0 ELSE IF open'[a] > open[a] THEN late[a] + 1 ELSE late[a]]
      /\ late \in [Agents -> 0 .. 1]
  BY DEF SignalNext, CountLate, SignalInv
<1> SUFFICES ASSUME NEW a \in Agents
             PROVE  late'[a] \in 0 .. 1 /\ (late'[a] = 1 /\ Handled(a)' => view'[a].band = 0)
  <2>1. late' = [a \in Agents |-> late'[a]]
    BY <1>1, Zenon
  <2> QED
    BY <2>1
<1>2. late'[a] = IF ~Barred(a)' THEN 0 ELSE IF open'[a] > open[a] THEN late[a] + 1 ELSE late[a]
  BY <1>1, Zenon
<1>3. late[a] \in 0 .. 1 /\ (late[a] = 1 /\ Handled(a) => view[a].band = 0)
  BY DEF SignalInv
<1>4. open[a] \in Int /\ profit \in [Agents -> -MaxProfit .. MaxProfit]
  BY SignalConstants DEF SignalInv, SignalTypeOK
\* Nothing but an insert of its own opens a position of the agent.
<1>5. ASSUME ~(open'[a] > open[a]), Handled(a)' => Handled(a) /\ view'[a] = view[a]
      PROVE  late'[a] \in 0 .. 1 /\ (late'[a] = 1 /\ Handled(a)' => view'[a].band = 0)
  BY <1>2, <1>3, <1>5
<1>6. CASE SelectCandidates
  <2>1. /\ UNCHANGED <<cooling, goal, teamGoal, profit, open>>
        /\ waiting' \subseteq {b \in Agents : ~cooling[b]} /\ taken' = NoOne
        /\ a \in waiting' => view'[a].band = BandOf(a)
    BY <1>6 DEF SelectCandidates, configs, books, SignalInv, SignalTypeOK
  <2>2. ~(open'[a] > open[a])
    BY <1>4, <2>1
  <2>3. Barred(a)' = Barred(a)
    <3>1. TeamProfit = Profits(profit) /\ TeamProfit' = Profits(profit')
      BY DEF TeamProfit, Profits, MapThenSumSet, MapThenFoldSet
    <3>2. TeamProfit' = TeamProfit
      <4> HIDE DEF Profits
      <4> QED
        BY <2>1, <3>1
    <3> QED
      BY <2>1, <3>2 DEF Barred
  <2>4. ASSUME Barred(a), a \in waiting'
        PROVE  view'[a].band = 0
    <3>1. ~cooling[a]
      BY <2>1, <2>4
    <3>2. BandOf(a) = 0
      BY <2>4, <3>1, BandOfValues DEF Barred
    <3> QED
      BY <2>1, <2>4, <3>2
  <2>5. late'[a] = 1 => Barred(a)
    BY <1>2, <2>3
  <2> QED
    BY <1>2, <1>3, <2>1, <2>2, <2>4, <2>5, SignalConstants DEF Handled
<1>7. CASE Insert
  <2>1. /\ taken \in Agents /\ taken \notin waiting /\ view[taken].band > 0
        /\ open' = [open EXCEPT ![taken] = @ + 1] /\ taken' = NoOne
        /\ UNCHANGED <<waiting, view>>
    BY <1>7 DEF Insert, SignalInv, SignalTypeOK
  <2>2. CASE a = taken
    <3>1. late[a] = 0
      BY <1>3, <2>1, <2>2 DEF Handled
    <3>2. ~Handled(a)'
      BY <2>1, <2>2, SignalConstants DEF Handled
    <3> QED
      BY <1>2, <3>1, <3>2
  <2>3. CASE a # taken
    <3>1. open'[a] = open[a]
      BY <2>1, <2>3 DEF SignalInv, SignalTypeOK
    <3>2. Handled(a)' => Handled(a) /\ view'[a] = view[a]
      BY <2>1, SignalConstants DEF Handled
    <3> QED
      BY <1>4, <1>5, <3>1, <3>2
  <2> QED
    BY <2>2, <2>3
<1>8. ASSUME NEW b \in Agents, NEW d \in {-1, 1}, ClosePosition(b, d)
      PROVE  late'[a] \in 0 .. 1 /\ (late'[a] = 1 /\ Handled(a)' => view'[a].band = 0)
  <2>1. open' = [open EXCEPT ![b] = @ - 1] /\ UNCHANGED <<waiting, taken, view>>
    BY <1>8 DEF ClosePosition, handling
  <2>2. ~(open'[a] > open[a])
    BY <1>4, <2>1, SignalConstants DEF SignalInv, SignalTypeOK
  <2> QED
    BY <1>5, <2>1, <2>2 DEF Handled
<1>9. CASE \E b \in Agents : Take(b)
  <2>1. PICK b \in Agents : Take(b)
    BY <1>9
  <2>2. Handled(a)' => Handled(a)
    BY <2>1, SignalConstants DEF Take, Handled
  <2> QED
    BY <1>4, <1>5, <2>1, <2>2 DEF Take, books
<1>10. CASE Finish \/ SignalRestart \/ Decline
  <2>1. ~Handled(a)' \/ (Handled(a) /\ view' = view)
    BY <1>10, SignalConstants DEF Finish, SignalRestart, Decline, Handled
  <2>2. open' = open
    BY <1>10 DEF Finish, SignalRestart, Decline, books
  <2> QED
    BY <1>4, <1>5, <2>1, <2>2
<1>11. CASE (\E x \in Assets : Publish(x)) \/ Edit \/ DayTurns \/ Tick
  <2>1. UNCHANGED <<open, waiting, taken, view>>
    BY <1>11 DEF Publish, Edit, DayTurns, Tick, books, handling
  <2> QED
    BY <1>4, <1>5, <2>1 DEF Handled
<1> QED
  BY <1>6, <1>7, <1>8, <1>9, <1>10, <1>11 DEF SignalNext, HandlerStep

LEMMA SignalStepInv == SignalInv /\ [SignalNext]_signalVars => SignalInv'
<1>1. ASSUME SignalInv, UNCHANGED signalVars
      PROVE  SignalInv'
  BY <1>1 DEF signalVars, configs, books, handling, SignalInv, SignalTypeOK, Handled
<1>2. ASSUME SignalInv, SignalNext
      PROVE  SignalInv'
  <2>1. SignalTypeOK'
    BY <1>2, SignalStepTypes DEF SignalInv
  <2> QED
    BY <1>2, <2>1, SignalStepLate DEF SignalInv
<1> QED
  BY <1>1, <1>2

LEMMA SignalAlways == SignalSpec => []SignalInv
  BY SignalInitInv, SignalStepInv, PTL DEF SignalSpec

\* The agent between throttle and insert is never among the candidates still to be
\* taken, and without a signal there is neither.
THEOREM SignalTypeCorrect == SignalSpec => []SignalTypeOK
<1>1. SignalInv => SignalTypeOK
  BY DEF SignalInv
<1> QED
  BY <1>1, SignalAlways, PTL

\* However closes, edits, midnight and restarts fall between the SELECT and the
\* inserts, an agent that may no longer trade opens at most one more position.
THEOREM OneLateIntent == SignalSpec => []LateIntentsBounded
<1>1. SignalInv => LateIntentsBounded
  BY DEF SignalInv, LateIntentsBounded
<1> QED
  BY <1>1, SignalAlways, PTL

-----------------------------------------------------------------------------
(***************************************************************************)
(* Isotonic.  The cuts e between the blocks, and the wins c up to each     *)
(* pair: a block is the run of pairs between two cuts, no run that begins  *)
(* a block has a lower mean than the block, and the blocks behind the      *)
(* loop are in order.                                                      *)
(***************************************************************************)
\* What holds between neighbours and is transitive holds along the whole line.
Linked(lo, hi, R) ==
    /\ lo \in Int /\ hi \in Int
    /\ \A i, j, k \in lo .. hi : j \in R[i] /\ k \in R[j] => k \in R[i]
    /\ \A k \in lo .. hi - 1 : k + 1 \in R[k]
Ordered(lo, hi, R) == \A i, j \in lo .. hi : i < j => j \in R[i]

LEMMA Chain ==
    ASSUME NEW lo, NEW hi, NEW R, Linked(lo, hi, R)
    PROVE  Ordered(lo, hi, R)
<1> USE DEF Linked, Ordered
<1> SUFFICES ASSUME NEW i \in lo .. hi, \E j \in lo .. hi : i < j /\ j \notin R[i]
             PROVE  FALSE
  OBVIOUS
<1> DEFINE U == {n \in Nat : i + n \in lo .. hi /\ 0 < n /\ i + n \notin R[i]}
<1>1. U \subseteq Nat /\ U # {}
  <2>1. PICK j \in lo .. hi : i < j /\ j \notin R[i]
    OBVIOUS
  <2>2. j - i \in Nat /\ i + (j - i) = j /\ 0 < j - i
    BY <2>1
  <2>3. j - i \in U
    BY <2>1, <2>2
  <2> QED
    BY <2>3
<1>2. PICK n \in U : \A m \in U : n =< m
  <2> HIDE DEF U
  <2> QED
    BY <1>1, LeastNat
<1>3. n \in Nat /\ n > 0 /\ i + n \in lo .. hi /\ i + n \notin R[i]
  BY <1>2
<1>4. CASE n = 1
  <2>1. i \in lo .. hi - 1
    BY <1>3, <1>4
  <2> QED
    BY <1>3, <1>4, <2>1
<1>5. CASE n # 1
  <2>1. n - 1 \in Nat /\ 0 < n - 1 /\ i + (n - 1) \in lo .. hi - 1 /\ n - 1 \notin U
    BY <1>2, <1>3, <1>5, SMTT(20)
  <2>2. i + (n - 1) \in R[i] /\ i + (n - 1) \in lo .. hi
    BY <2>1
  <2>3. (i + (n - 1)) + 1 = i + n
    BY <1>3
  <2>4. i + n \in R[i + (n - 1)]
    BY <2>1, <2>3
  <2> QED
    BY <1>3, <2>2, <2>4
<1> QED
  BY <1>4, <1>5

IsMean(b) == b.sum \in Int /\ b.weight \in Int /\ b.weight > 0

LEMMA MulMono ==
    ASSUME NEW a \in Int, NEW b \in Int, NEW k \in Int, k >= 0, a =< b
    PROVE  a * k =< b * k
  OBVIOUS
LEMMA Cancel ==
    ASSUME NEW a \in Int, NEW b \in Int, NEW k \in Int, k > 0, a * k =< b * k
    PROVE  a =< b
  OBVIOUS
LEMMA FractionsTransitive ==
    ASSUME NEW s1 \in Int, NEW w1 \in Int, NEW s2 \in Int, NEW w2 \in Int, NEW s3 \in Int,
           NEW w3 \in Int, w1 > 0, w2 > 0, w3 > 0, s1 * w2 =< s2 * w1, s2 * w3 =< s3 * w2
    PROVE  s1 * w3 =< s3 * w1
<1>1. (s1 * w2) * w3 =< (s2 * w1) * w3
  BY MulMono
<1>2. (s2 * w3) * w1 =< (s3 * w2) * w1
  BY MulMono
<1>3. /\ (s1 * w2) * w3 = (s1 * w3) * w2
      /\ (s2 * w1) * w3 = (s2 * w3) * w1
      /\ (s3 * w2) * w1 = (s3 * w1) * w2
  OBVIOUS
<1>4. (s1 * w3) * w2 =< (s3 * w1) * w2
  BY <1>1, <1>2, <1>3
<1> QED
  BY <1>4, Cancel

LEMMA MeansInOrder ==
    /\ \A b, c, d : IsMean(b) /\ IsMean(c) /\ IsMean(d) /\ AtMost(b, c) /\ AtMost(c, d) => AtMost(b, d)
    /\ \A b, c : IsMean(b) /\ IsMean(c) => AtMost(b, c) \/ AtMost(c, b)
<1>1. ASSUME NEW b, NEW c, NEW d, IsMean(b), IsMean(c), IsMean(d), AtMost(b, c), AtMost(c, d)
      PROVE  AtMost(b, d)
  <2> DEFINE s1 == b.sum
             w1 == b.weight
             s2 == c.sum
             w2 == c.weight
             s3 == d.sum
             w3 == d.weight
  <2>1. /\ s1 \in Int /\ w1 \in Int /\ s2 \in Int /\ w2 \in Int /\ s3 \in Int /\ w3 \in Int
        /\ w1 > 0 /\ w2 > 0 /\ w3 > 0 /\ s1 * w2 =< s2 * w1 /\ s2 * w3 =< s3 * w2
    BY <1>1 DEF IsMean, AtMost
  <2>2. s1 * w3 =< s3 * w1
    <3> HIDE DEF s1, w1, s2, w2, s3, w3
    <3> QED
      BY <2>1, FractionsTransitive
  <2> QED
    BY <2>2 DEF AtMost
<1>2. ASSUME NEW b, NEW c, IsMean(b), IsMean(c)
      PROVE  AtMost(b, c) \/ AtMost(c, b)
  BY <1>2 DEF IsMean, AtMost
<1> QED
  BY <1>1, <1>2

\* The pairs i + 1 .. j.
Run(c, i, j) == [sum |-> c[j] - c[i], weight |-> j - i]

LEMMA RunIsMean ==
    ASSUME NEW N \in Nat, NEW c \in [0 .. N -> Int], NEW i \in 0 .. N, NEW j \in 0 .. N, i < j
    PROVE  IsMean(Run(c, i, j))
  BY DEF IsMean, Run

\* The mean of two runs is between theirs; and where one is at most the mean of
\* both, the other is at least it.
LEMMA RunsJoined ==
    ASSUME NEW N \in Nat, NEW c \in [0 .. N -> Int],
           NEW i \in 0 .. N, NEW j \in 0 .. N, NEW k \in 0 .. N, i < j, j < k
    PROVE  /\ AtMost(Run(c, j, k), Run(c, i, j)) => /\ AtMost(Run(c, j, k), Run(c, i, k))
                                                    /\ AtMost(Run(c, i, k), Run(c, i, j))
           /\ AtMost(Run(c, j, k), Run(c, i, k)) => AtMost(Run(c, i, k), Run(c, i, j))
           /\ AtMost(Run(c, i, k), Run(c, i, j)) => AtMost(Run(c, j, k), Run(c, i, k))
<1> DEFINE s1 == c[j] - c[i]
           w1 == j - i
           s2 == c[k] - c[j]
           w2 == k - j
<1>1. /\ s1 \in Int /\ w1 \in Int /\ s2 \in Int /\ w2 \in Int
      /\ c[k] - c[i] = s1 + s2 /\ k - i = w1 + w2
  OBVIOUS
<1>2. /\ Run(c, i, j) = [sum |-> s1, weight |-> w1] /\ Run(c, j, k) = [sum |-> s2, weight |-> w2]
      /\ Run(c, i, k) = [sum |-> s1 + s2, weight |-> w1 + w2]
  BY <1>1 DEF Run
<1> HIDE DEF s1, w1, s2, w2
<1>3. /\ s2 * w1 =< s1 * w2 => /\ s2 * (w1 + w2) =< (s1 + s2) * w2
                              /\ (s1 + s2) * w1 =< s1 * (w1 + w2)
      /\ s2 * (w1 + w2) =< (s1 + s2) * w2 => (s1 + s2) * w1 =< s1 * (w1 + w2)
      /\ (s1 + s2) * w1 =< s1 * (w1 + w2) => s2 * (w1 + w2) =< (s1 + s2) * w2
  BY <1>1
<1> QED
  BY <1>2, <1>3 DEF AtMost

\* Two blocks out of order are joined: still no run that begins the block has a lower mean.
LEMMA PrefixesOfJoined ==
    ASSUME NEW N \in Nat, NEW c \in [0 .. N -> Int],
           NEW l \in 0 .. N, NEW m \in 0 .. N, NEW r \in 0 .. N, l < m, m < r,
           ~AtMost(Run(c, l, m), Run(c, m, r)),
           \A j \in l + 1 .. m : AtMost(Run(c, l, m), Run(c, l, j)),
           \A j \in m + 1 .. r : AtMost(Run(c, m, r), Run(c, m, j))
    PROVE  \A j \in l + 1 .. r : AtMost(Run(c, l, r), Run(c, l, j))
<1> SUFFICES ASSUME NEW j \in l + 1 .. r
             PROVE  AtMost(Run(c, l, r), Run(c, l, j))
  OBVIOUS
<1>1. IsMean(Run(c, l, m)) /\ IsMean(Run(c, m, r)) /\ IsMean(Run(c, l, r))
  BY RunIsMean
<1>2. AtMost(Run(c, m, r), Run(c, l, r)) /\ AtMost(Run(c, l, r), Run(c, l, m))
  BY <1>1, RunsJoined, MeansInOrder
<1>3. CASE j =< m
  <2>1. AtMost(Run(c, l, m), Run(c, l, j)) /\ IsMean(Run(c, l, j))
    BY <1>3, RunIsMean
  <2> QED
    BY <1>1, <1>2, <2>1, MeansInOrder
<1>4. CASE m < j /\ j < r
  <2>1. AtMost(Run(c, j, r), Run(c, m, r))
    <3>1. AtMost(Run(c, m, r), Run(c, m, j)) /\ j \in 0 .. N
      BY <1>4
    <3> QED
      BY <1>4, <3>1, RunsJoined
  <2>2. IsMean(Run(c, j, r))
    BY <1>4, RunIsMean
  <2>3. AtMost(Run(c, j, r), Run(c, l, r))
    BY <1>1, <1>2, <2>1, <2>2, MeansInOrder
  <2>4. j \in 0 .. N /\ l < j
    BY <1>4
  <2> QED
    BY <1>4, <2>3, <2>4, RunsJoined
<1>5. CASE j = r
  BY <1>1, <1>5, MeansInOrder
<1> QED
  BY <1>3, <1>4, <1>5

Pairs == [x : Ranks, y : {0, 1}]
WinsOf(s) == [n \in 0 .. Len(s) |-> Cardinality({p \in 1 .. n : s[p].y = 1})]
Won(s, i, j) == {p \in i .. j : s[p].y = 1}

LEMMA FiniteWon ==
    ASSUME NEW s, NEW i, NEW j, i \in Int, j \in Int
    PROVE  IsFiniteSet(Won(s, i, j)) /\ Cardinality(Won(s, i, j)) \in Nat
<1>1. IsFiniteSet(i .. j) /\ Won(s, i, j) \in SUBSET (i .. j)
  BY FS_Interval DEF Won
<1> QED
  BY <1>1, FS_Subset, FS_CardinalityType

LEMMA DisjointUnion ==
    ASSUME NEW A, NEW B, IsFiniteSet(A), IsFiniteSet(B), A \cap B = {}
    PROVE  Cardinality(A \cup B) = Cardinality(A) + Cardinality(B)
<1>1. Cardinality(A) \in Nat /\ Cardinality(B) \in Nat
  BY FS_CardinalityType
<1>2. Cardinality(A \cup B) = Cardinality(A) + Cardinality(B) - Cardinality({})
  BY FS_Union
<1> QED
  BY <1>1, <1>2, FS_EmptySet

LEMMA WinsCount ==
    ASSUME NEW s \in Seq(Pairs)
    PROVE  /\ WinsOf(s) \in [0 .. Len(s) -> Nat]
           /\ \A j \in 0 .. Len(s) : \A i \in 0 .. j :
                 Cardinality({p \in i + 1 .. j : s[p].y = 1}) = WinsOf(s)[j] - WinsOf(s)[i]
           /\ \A k \in 1 .. Len(s) : WinsOf(s)[k] - WinsOf(s)[k - 1] = s[k].y
<1>2. ASSUME NEW j \in 0 .. Len(s), NEW i \in 0 .. j
      PROVE  Cardinality(Won(s, 1, j)) = Cardinality(Won(s, 1, i)) + Cardinality(Won(s, i + 1, j))
  <2> DEFINE A == Won(s, 1, i)
             B == Won(s, i + 1, j)
  <2>1. Won(s, 1, j) = A \cup B /\ A \cap B = {}
    BY DEF Won
  <2>2. 1 \in Int /\ i \in Int /\ j \in Int /\ i + 1 \in Int
    OBVIOUS
  <2>3. IsFiniteSet(A) /\ IsFiniteSet(B)
    BY <2>2, FiniteWon
  <2> HIDE DEF A, B
  <2>4. Cardinality(A \cup B) = Cardinality(A) + Cardinality(B)
    BY <2>1, <2>3, DisjointUnion
  <2>5. Cardinality(Won(s, 1, j)) = Cardinality(A) + Cardinality(B)
    BY <2>1, <2>4
  <2> QED
    BY <2>5 DEF A, B
<1>3. WinsOf(s) = [n \in 0 .. Len(s) |-> Cardinality(Won(s, 1, n))]
  BY DEF WinsOf, Won
<1>4. ASSUME NEW k \in 1 .. Len(s)
      PROVE  Cardinality(Won(s, (k - 1) + 1, k)) = s[k].y
  <2>1. s[k].y \in {0, 1}
    <3>1. s[k] \in Pairs
      OBVIOUS
    <3> QED
      BY <3>1 DEF Pairs
  <2>2. (k - 1) + 1 = k
    OBVIOUS
  <2> DEFINE A == Won(s, k, k)
  <2>3. A = IF s[k].y = 1 THEN {k} ELSE {}
    BY DEF Won
  <2>4. Cardinality(A) = IF s[k].y = 1 THEN 1 ELSE 0
    <3> HIDE DEF A
    <3> QED
      BY <2>3, FS_EmptySet, FS_Singleton
  <2>5. Cardinality(Won(s, (k - 1) + 1, k)) = Cardinality(A)
    BY <2>2
  <2> HIDE DEF A
  <2> QED
    BY <2>1, <2>4, <2>5
<1>5. Len(s) \in Nat
  OBVIOUS
<1>6. WinsOf(s) \in [0 .. Len(s) -> Nat]
  <2>1. ASSUME NEW n \in 0 .. Len(s)
        PROVE  Cardinality(Won(s, 1, n)) \in Nat
    BY <1>5, FiniteWon
  <2> QED
    BY <1>3, <2>1
<1>7. ASSUME NEW j \in 0 .. Len(s), NEW i \in 0 .. j
      PROVE  Cardinality(Won(s, i + 1, j)) = WinsOf(s)[j] - WinsOf(s)[i]
  <2>1. i \in 0 .. Len(s) /\ i \in Int /\ j \in Int /\ i + 1 \in Int
    BY <1>5
  <2>2. WinsOf(s)[j] = Cardinality(Won(s, 1, j)) /\ WinsOf(s)[i] = Cardinality(Won(s, 1, i))
    BY <1>3, <2>1
  <2>3. Cardinality(Won(s, 1, j)) \in Nat /\ Cardinality(Won(s, 1, i)) \in Nat /\ Cardinality(Won(s, i + 1, j)) \in Nat
    BY <2>1, FiniteWon
  <2> QED
    BY <1>2, <2>2, <2>3
<1>8. ASSUME NEW k \in 1 .. Len(s)
      PROVE  WinsOf(s)[k] - WinsOf(s)[k - 1] = s[k].y
  <2>1. k \in 0 .. Len(s) /\ k - 1 \in 0 .. k
    OBVIOUS
  <2>2. Cardinality(Won(s, (k - 1) + 1, k)) = WinsOf(s)[k] - WinsOf(s)[k - 1]
    BY <1>7, <2>1
  <2> QED
    BY <1>4, <2>2
<1> QED
  BY <1>6, <1>7, <1>8 DEF Won

PairsInv == pairs \in Seq(Pairs) /\ Len(pairs) > 0 /\ Sorted(pairs)

\* The blocks bs are the runs of the pairs ps between the cuts.
Cuts(bs, ps, e, c) ==
    /\ e \in [0 .. Len(bs) -> 0 .. Len(ps)] /\ e[0] = 0 /\ e[Len(bs)] = Len(ps)
    /\ \A k \in 1 .. Len(bs) :
          /\ e[k - 1] < e[k]
          /\ bs[k] = [sum |-> c[e[k]] - c[e[k - 1]], weight |-> e[k] - e[k - 1], x |-> ps[e[k]].x]
          /\ \A j \in e[k - 1] + 1 .. e[k] : AtMost(Run(c, e[k - 1], e[k]), Run(c, e[k - 1], j))

Blocks == [sum : Int, weight : Int, x : Int]
IsotonicInv ==
    /\ PairsInv
    /\ blocks \in Seq(Blocks) /\ at \in 1 .. Len(blocks)
    /\ \E e : Cuts(blocks, pairs, e, WinsOf(pairs))
    /\ \A k \in 1 .. at - 1 : AtMost(blocks[k], blocks[k + 1])

LEMMA MadeSeq ==
    ASSUME NEW n \in Nat, NEW S, NEW f \in [1 .. n -> S]
    PROVE  f \in Seq(S) /\ Len(f) = n /\ DOMAIN f = 1 .. n
  OBVIOUS

LEMMA IsotonicInitInv == IsotonicInit => IsotonicInv
<1> SUFFICES ASSUME IsotonicInit
             PROVE  IsotonicInv
  OBVIOUS
<1>1. PICK n \in 1 .. MaxPairs : pairs \in [1 .. n -> Pairs]
  BY DEF IsotonicInit, Pairs
<1>2. n \in Nat /\ n > 0
  BY IsotonicConstants
<1>3. pairs \in Seq(Pairs) /\ Len(pairs) = n /\ DOMAIN pairs = 1 .. n
  BY <1>1, <1>2, MadeSeq
<1>4. PairsInv
  BY <1>2, <1>3 DEF IsotonicInit, PairsInv
<1>5. \A k \in 1 .. n : pairs[k].x \in Int /\ pairs[k].y \in Int
  <2> SUFFICES ASSUME NEW k \in 1 .. n
               PROVE  pairs[k].x \in Int /\ pairs[k].y \in Int
    OBVIOUS
  <2>1. pairs[k] \in Pairs
    BY <1>1
  <2>2. pairs[k].x \in Ranks /\ pairs[k].y \in {0, 1}
    BY <2>1 DEF Pairs
  <2>3. pairs[k].x \in Int
    BY <2>2, IsotonicConstants
  <2>4. pairs[k].y \in Int
    BY <2>2
  <2> QED
    BY <2>3, <2>4
<1>6. blocks = [k \in 1 .. n |-> [sum |-> pairs[k].y, weight |-> 1, x |-> pairs[k].x]] /\ at = 1
  BY <1>3 DEF IsotonicInit
<1>7. blocks \in [1 .. n -> Blocks]
  BY <1>5, <1>6 DEF Blocks
<1>8. blocks \in Seq(Blocks) /\ Len(blocks) = n
  BY <1>2, <1>7, MadeSeq
<1> DEFINE c == WinsOf(pairs)
           e == [k \in 0 .. n |-> k]
<1>9. c \in [0 .. n -> Nat] /\ \A k \in 1 .. n : c[k] - c[k - 1] = pairs[k].y
  BY <1>3, WinsCount
<1> HIDE DEF c
<1>10. e \in [0 .. n -> 0 .. n] /\ e[0] = 0 /\ e[n] = n /\ \A k \in 1 .. n : e[k] = k /\ e[k - 1] = k - 1
  BY <1>2
<1> HIDE DEF e
<1>11. ASSUME NEW k \in 1 .. n
       PROVE  /\ e[k - 1] < e[k]
              /\ blocks[k] = [sum |-> c[e[k]] - c[e[k - 1]], weight |-> e[k] - e[k - 1], x |-> pairs[e[k]].x]
              /\ \A j \in e[k - 1] + 1 .. e[k] : AtMost(Run(c, e[k - 1], e[k]), Run(c, e[k - 1], j))
  <2>1. e[k] = k /\ e[k - 1] = k - 1
    BY <1>10
  <2>2. k - (k - 1) = 1 /\ k - 1 < k
    OBVIOUS
  <2>3. blocks[k] = [sum |-> pairs[k].y, weight |-> 1, x |-> pairs[k].x]
    BY <1>6
  <2>4. c[k] - c[k - 1] = pairs[k].y
    BY <1>9
  <2>5. ASSUME NEW j \in (k - 1) + 1 .. k
        PROVE  AtMost(Run(c, k - 1, k), Run(c, k - 1, j))
    <3>1. j = k
      OBVIOUS
    <3>2. IsMean(Run(c, k - 1, k))
      <4>1. k - 1 \in 0 .. n /\ k \in 0 .. n /\ c \in [0 .. n -> Int]
        BY <1>9
      <4> QED
        BY <1>2, <2>2, <4>1, RunIsMean
    <3> QED
      BY <3>1, <3>2, MeansInOrder
  <2> QED
    BY <2>1, <2>2, <2>3, <2>4, <2>5
<1>12. Cuts(blocks, pairs, e, c)
  BY <1>3, <1>8, <1>10, <1>11 DEF Cuts
<1>13. at \in 1 .. Len(blocks) /\ \A k \in 1 .. at - 1 : FALSE
  BY <1>2, <1>6, <1>8
<1> QED
  BY <1>4, <1>8, <1>12, <1>13 DEF IsotonicInv, c

LEMMA AdvanceStep ==
    ASSUME IsotonicInv, Advance
    PROVE  IsotonicInv'
<1>1. at < Len(blocks) /\ AtMost(blocks[at], blocks[at + 1]) /\ at' = at + 1 /\ pairs' = pairs /\ blocks' = blocks
  BY DEF Advance, Fitted, IsotonicInv
<1>2. PairsInv' /\ \E e : Cuts(blocks', pairs', e, WinsOf(pairs'))
  <2>1. PICK e : Cuts(blocks, pairs, e, WinsOf(pairs))
    BY DEF IsotonicInv
  <2>2. Cuts(blocks', pairs', e, WinsOf(pairs'))
    <3>1. WinsOf(pairs') = WinsOf(pairs)
      BY <1>1
    <3> QED
      BY <1>1, <2>1, <3>1 DEF Cuts
  <2> QED
    BY <1>1, <2>2 DEF IsotonicInv, PairsInv, Sorted
<1>3. at' \in 1 .. Len(blocks') /\ blocks' \in Seq(Blocks)
  BY <1>1 DEF IsotonicInv
<1>4. \A k \in 1 .. at' - 1 : AtMost(blocks'[k], blocks'[k + 1])
  BY <1>1 DEF IsotonicInv
<1> QED
  BY <1>2, <1>3, <1>4 DEF IsotonicInv, AtMost

\* The two blocks out of order become one between the cuts around them.
LEMMA MergeStep ==
    ASSUME IsotonicInv, Merge
    PROVE  IsotonicInv'
<1> DEFINE L == Len(blocks)
           N == Len(pairs)
           c == WinsOf(pairs)
<1>1. /\ at < L /\ ~AtMost(blocks[at], blocks[at + 1]) /\ at' = Recheck(at) /\ pairs' = pairs
      /\ blocks' = [k \in 1 .. L - 1 |->
                       IF k < at THEN blocks[k]
                       ELSE IF k = at THEN Joined(blocks[at], blocks[at + 1]) ELSE blocks[k + 1]]
      /\ at \in 1 .. L /\ L \in Nat /\ N \in Nat
  BY DEF Merge, Fitted, IsotonicInv, PairsInv
<1>2. PICK e : Cuts(blocks, pairs, e, c)
  BY DEF IsotonicInv
<1>3. c \in [0 .. N -> Int] /\ c' = c
  <2>1. c \in [0 .. N -> Nat]
    BY WinsCount DEF IsotonicInv, PairsInv
  <2> QED
    BY <1>1, <2>1
<1>4. blocks \in [1 .. L -> Blocks]
  BY DEF IsotonicInv
<1>5. /\ e \in [0 .. L -> 0 .. N] /\ e[0] = 0 /\ e[L] = N
      /\ \A k \in 1 .. L :
            /\ e[k - 1] < e[k]
            /\ blocks[k] = [sum |-> c[e[k]] - c[e[k - 1]], weight |-> e[k] - e[k - 1], x |-> pairs[e[k]].x]
            /\ \A j \in e[k - 1] + 1 .. e[k] : AtMost(Run(c, e[k - 1], e[k]), Run(c, e[k - 1], j))
  BY <1>2 DEF Cuts
<1> HIDE DEF L, N, c
<1> DEFINE d == [k \in 0 .. L - 1 |-> IF k < at THEN e[k] ELSE e[k + 1]]
           l == e[at - 1]
           m == e[at]
           r == e[at + 1]
<1>6. /\ l \in 0 .. N /\ m \in 0 .. N /\ r \in 0 .. N /\ l < m /\ m < r
      /\ blocks[at] = [sum |-> c[m] - c[l], weight |-> m - l, x |-> pairs[m].x]
      /\ blocks[at + 1] = [sum |-> c[r] - c[m], weight |-> r - m, x |-> pairs[r].x]
      /\ \A j \in l + 1 .. m : AtMost(Run(c, l, m), Run(c, l, j))
      /\ \A j \in m + 1 .. r : AtMost(Run(c, m, r), Run(c, m, j))
  <2>1. at - 1 \in 0 .. L /\ at \in 1 .. L /\ at + 1 \in 1 .. L /\ (at + 1) - 1 = at
    BY <1>1
  <2> QED
    BY <1>5, <2>1
<1>7. /\ d \in [0 .. L - 1 -> 0 .. N] /\ d[0] = 0 /\ d[L - 1] = N
      /\ \A k \in 0 .. L - 1 : d[k] = IF k < at THEN e[k] ELSE e[k + 1]
  BY <1>1, <1>5
<1> HIDE DEF d, l, m, r
<1>8. /\ Joined(blocks[at], blocks[at + 1])
           = [sum |-> c[r] - c[l], weight |-> r - l, x |-> pairs[r].x]
      /\ ~AtMost(Run(c, l, m), Run(c, m, r))
  <2>1. c[l] \in Int /\ c[m] \in Int /\ c[r] \in Int
    BY <1>3, <1>6
  <2>2. (c[m] - c[l]) + (c[r] - c[m]) = c[r] - c[l] /\ (m - l) + (r - m) = r - l
    BY <1>6, <2>1
  <2>3. blocks[at].sum = c[m] - c[l] /\ blocks[at].weight = m - l
        /\ blocks[at + 1].sum = c[r] - c[m] /\ blocks[at + 1].weight = r - m
        /\ blocks[at + 1].x = pairs[r].x
    BY <1>6
  <2>4. AtMost(Run(c, l, m), Run(c, m, r)) <=> AtMost(blocks[at], blocks[at + 1])
    BY <2>3 DEF AtMost, Run
  <2> QED
    BY <1>1, <2>2, <2>3, <2>4 DEF Joined
<1>9. \A j \in l + 1 .. r : AtMost(Run(c, l, r), Run(c, l, j))
  BY <1>1, <1>3, <1>6, <1>8, PrefixesOfJoined
<1>10. Joined(blocks[at], blocks[at + 1]) \in Blocks
  <2>1. blocks[at] \in Blocks /\ blocks[at + 1] \in Blocks
    BY <1>1, <1>4
  <2> QED
    BY <2>1 DEF Joined, Blocks
<1>11. blocks' \in [1 .. L - 1 -> Blocks]
  <2>1. ASSUME NEW k \in 1 .. L - 1
        PROVE  (IF k < at THEN blocks[k]
                ELSE IF k = at THEN Joined(blocks[at], blocks[at + 1]) ELSE blocks[k + 1]) \in Blocks
    BY <1>1, <1>4, <1>10
  <2> QED
    BY <1>1, <2>1
<1>12. L - 1 \in Nat /\ blocks' \in Seq(Blocks) /\ Len(blocks') = L - 1
  BY <1>1, <1>11, MadeSeq
<1>13. ASSUME NEW k \in 1 .. L - 1
       PROVE  /\ d[k - 1] < d[k]
              /\ blocks'[k] = [sum |-> c[d[k]] - c[d[k - 1]], weight |-> d[k] - d[k - 1], x |-> pairs[d[k]].x]
              /\ \A j \in d[k - 1] + 1 .. d[k] : AtMost(Run(c, d[k - 1], d[k]), Run(c, d[k - 1], j))
  <2>1. blocks'[k] = IF k < at THEN blocks[k]
                     ELSE IF k = at THEN Joined(blocks[at], blocks[at + 1]) ELSE blocks[k + 1]
    BY <1>1
  <2>2. CASE k < at
    <3>1. d[k - 1] = e[k - 1] /\ d[k] = e[k] /\ k \in 1 .. L
      BY <1>1, <1>7, <2>2
    <3> QED
      BY <1>5, <2>1, <2>2, <3>1
  <2>3. CASE k = at
    <3>1. d[k - 1] = l /\ d[k] = r
      BY <1>1, <1>7, <2>3 DEF l, r
    <3> QED
      BY <1>6, <1>8, <1>9, <2>1, <2>3, <3>1
  <2>4. CASE at < k
    <3>1. d[k - 1] = e[k] /\ d[k] = e[k + 1] /\ k + 1 \in 1 .. L /\ (k + 1) - 1 = k
      BY <1>1, <1>7, <2>4, SMTT(20)
    <3>2. blocks'[k] = blocks[k + 1]
      BY <1>1, <2>1, <2>4
    <3>3. PICK q \in 1 .. L : q = k + 1 /\ q - 1 = k
      BY <3>1
    <3>4. d[k - 1] = e[q - 1] /\ d[k] = e[q] /\ blocks'[k] = blocks[q]
      BY <3>1, <3>2, <3>3
    <3> QED
      BY <1>5, <3>4
  <2> QED
    BY <1>1, <2>2, <2>3, <2>4
<1>14. Cuts(blocks', pairs', d, c')
  <2>1. Len(blocks') = L - 1 /\ pairs' = pairs /\ c' = c /\ Len(pairs) = N
    BY <1>1, <1>3, <1>12 DEF N
  <2> QED
    BY <1>7, <1>13, <2>1 DEF Cuts
<1>15. at' \in 1 .. L - 1 /\ \A k \in 1 .. at' - 1 : AtMost(blocks[k], blocks[k + 1])'
  <2>1. at' \in 1 .. L - 1 /\ at' =< at /\ (at' = 1 \/ at' < at)
    BY <1>1 DEF Recheck
  <2>2. ASSUME NEW k \in 1 .. at' - 1
        PROVE  AtMost(blocks'[k], blocks'[k + 1])
    <3>1. k < at /\ k + 1 < at /\ k \in 1 .. L - 1 /\ k + 1 \in 1 .. L - 1 /\ k \in 1 .. at - 1
      BY <1>1, <2>1
    <3>2. blocks'[k] = blocks[k] /\ blocks'[k + 1] = blocks[k + 1]
      BY <1>1, <3>1
    <3> QED
      BY <3>1, <3>2 DEF IsotonicInv
  <2> QED
    BY <2>1, <2>2 DEF AtMost
<1>16. PairsInv'
  BY <1>1 DEF IsotonicInv, PairsInv, Sorted
<1>17. \E f : Cuts(blocks', pairs', f, WinsOf(pairs'))
  BY <1>14 DEF c
<1> QED
  BY <1>12, <1>15, <1>16, <1>17 DEF IsotonicInv

LEMMA IsotonicAlways == IsotonicSpec => []IsotonicInv
<1>1. IsotonicInv /\ [IsotonicNext]_isotonicVars => IsotonicInv'
  <2>1. ASSUME IsotonicInv, UNCHANGED isotonicVars
        PROVE  IsotonicInv'
    <3>1. WinsOf(pairs') = WinsOf(pairs)
      BY <2>1 DEF isotonicVars
    <3>2. pairs' = pairs /\ blocks' = blocks /\ at' = at
      BY <2>1 DEF isotonicVars
    <3>3. \E e : Cuts(blocks', pairs', e, WinsOf(pairs'))
      <4>1. PICK e : Cuts(blocks, pairs, e, WinsOf(pairs))
        BY <2>1 DEF IsotonicInv
      <4>2. Cuts(blocks', pairs', e, WinsOf(pairs'))
        BY <3>1, <3>2, <4>1 DEF Cuts
      <4> QED
        BY <4>2
    <3> QED
      BY <2>1, <3>2, <3>3 DEF IsotonicInv, PairsInv, Sorted, AtMost
  <2> QED
    BY <2>1, AdvanceStep, MergeStep DEF IsotonicNext
<1> QED
  BY <1>1, IsotonicInitInv, PTL DEF IsotonicSpec

\* A finished fit: the blocks bs over the pairs ps.
Fit(bs, ps, e, c) ==
    /\ bs \in Seq(Blocks) /\ Len(bs) > 0 /\ ps \in Seq(Pairs) /\ Len(ps) > 0 /\ Sorted(ps)
    /\ c = WinsOf(ps) /\ Cuts(bs, ps, e, c)
    /\ \A k \in 1 .. Len(bs) - 1 : AtMost(bs[k], bs[k + 1])

LEMMA FittedIsFit ==
    ASSUME IsotonicInv, Fitted
    PROVE  \E e, c : Fit(blocks, pairs, e, c)
<1>1. PICK e : Cuts(blocks, pairs, e, WinsOf(pairs))
  BY DEF IsotonicInv
<1>2. /\ blocks \in Seq(Blocks) /\ at \in 1 .. Len(blocks)
      /\ \A k \in 1 .. at - 1 : AtMost(blocks[k], blocks[k + 1])
      /\ pairs \in Seq(Pairs) /\ Len(pairs) > 0 /\ Sorted(pairs)
  BY DEF IsotonicInv, PairsInv
<1>3. at = Len(blocks) /\ Len(blocks) > 0
  BY <1>2 DEF Fitted
<1>4. Fit(blocks, pairs, e, WinsOf(pairs))
  BY <1>1, <1>2, <1>3 DEF Fit
<1> QED
  BY <1>4

LEMMA FitFacts ==
    ASSUME NEW bs, NEW ps, NEW e, NEW c, Fit(bs, ps, e, c)
    PROVE  /\ Len(bs) \in Nat \ {0} /\ Len(ps) \in Nat \ {0}
           /\ e \in [0 .. Len(bs) -> 0 .. Len(ps)] /\ c \in [0 .. Len(ps) -> Int]
           /\ \A k \in 1 .. Len(bs) :
                 /\ IsMean(bs[k]) /\ bs[k].x \in Int
                 /\ bs[k].sum = c[e[k]] - c[e[k - 1]] /\ bs[k].weight = e[k] - e[k - 1]
                 /\ bs[k].x = ps[e[k]].x
           /\ \A p \in 1 .. Len(ps) : ps[p].x \in Int
<1>1. Len(bs) \in Nat \ {0} /\ Len(ps) \in Nat \ {0}
  BY DEF Fit
<1>2. e \in [0 .. Len(bs) -> 0 .. Len(ps)]
  BY DEF Fit, Cuts
<1>3. c \in [0 .. Len(ps) -> Int]
  <2>1. c \in [0 .. Len(ps) -> Nat]
    BY WinsCount DEF Fit
  <2> QED
    BY <2>1
<1>4. ASSUME NEW k \in 1 .. Len(bs)
      PROVE  /\ IsMean(bs[k]) /\ bs[k].x \in Int
             /\ bs[k].sum = c[e[k]] - c[e[k - 1]] /\ bs[k].weight = e[k] - e[k - 1]
             /\ bs[k].x = ps[e[k]].x
  <2>1. bs[k] \in Blocks
    BY DEF Fit
  <2>2. /\ e[k - 1] < e[k]
        /\ bs[k] = [sum |-> c[e[k]] - c[e[k - 1]], weight |-> e[k] - e[k - 1], x |-> ps[e[k]].x]
    BY DEF Fit, Cuts
  <2>3. e[k] \in Int /\ e[k - 1] \in Int
    BY <1>1, <1>2
  <2>4. bs[k].sum = c[e[k]] - c[e[k - 1]] /\ bs[k].weight = e[k] - e[k - 1] /\ bs[k].x = ps[e[k]].x
    BY <2>2
  <2>5. bs[k].sum \in Int /\ bs[k].weight \in Int /\ bs[k].x \in Int
    BY <2>1 DEF Blocks
  <2>6. bs[k].weight > 0
    BY <2>2, <2>3, <2>4
  <2> QED
    BY <2>4, <2>5, <2>6 DEF IsMean
<1>5. ASSUME NEW p \in 1 .. Len(ps)
      PROVE  ps[p].x \in Int
  <2>1. ps[p] \in Pairs
    BY DEF Fit
  <2>2. ps[p].x \in Ranks
    BY <2>1 DEF Pairs
  <2> QED
    BY <2>2, IsotonicConstants
<1> QED
  BY <1>1, <1>2, <1>3, <1>4, <1>5

\* Cuts, confidences and means rise from the first block to the last.
LEMMA FitClimbs ==
    ASSUME NEW bs, NEW ps, NEW e, NEW c, Fit(bs, ps, e, c)
    PROVE  /\ \A i, j \in 0 .. Len(bs) : i < j => e[i] < e[j]
           /\ \A i, j \in 1 .. Len(ps) : i < j => ps[i].x =< ps[j].x
           /\ \A i, j \in 1 .. Len(bs) : i =< j => AtMost(bs[i], bs[j])
<1> DEFINE L == Len(bs)
           N == Len(ps)
<1>1. /\ L \in Nat /\ N \in Nat /\ L > 0 /\ e \in [0 .. L -> 0 .. N]
      /\ \A k \in 1 .. L : IsMean(bs[k])
      /\ \A p \in 1 .. N : ps[p].x \in Int
  <2>1. /\ L \in Nat \ {0} /\ N \in Nat \ {0}
        /\ e \in [0 .. L -> 0 .. N] /\ c \in [0 .. N -> Int]
        /\ \A k \in 1 .. L :
              /\ IsMean(bs[k]) /\ bs[k].x \in Int
              /\ bs[k].sum = c[e[k]] - c[e[k - 1]] /\ bs[k].weight = e[k] - e[k - 1]
              /\ bs[k].x = ps[e[k]].x
        /\ \A p \in 1 .. N : ps[p].x \in Int
    BY FitFacts
  <2> HIDE DEF L, N
  <2> QED
    BY <2>1
<1>2. /\ \A k \in 1 .. L : e[k - 1] < e[k]
      /\ \A k \in 1 .. N - 1 : ps[k].x =< ps[k + 1].x
      /\ \A k \in 1 .. L - 1 : AtMost(bs[k], bs[k + 1])
  BY DEF Fit, Cuts, Sorted
<1> HIDE DEF L, N
<1>3. \A i, j \in 0 .. L : i < j => e[i] < e[j]
  <2> DEFINE R == [i \in 0 .. L |-> {j \in 0 .. L : e[i] < e[j]}]
  <2>1. \A i, j, k \in 0 .. L : j \in R[i] /\ k \in R[j] => k \in R[i]
    <3>1. \A i \in 0 .. L : e[i] \in Int
      BY <1>1
    <3> QED
      BY <3>1
  <2>2. ASSUME NEW k \in 0 .. L - 1
        PROVE  k + 1 \in R[k]
    <3>1. k + 1 \in 1 .. L /\ (k + 1) - 1 = k /\ k \in 0 .. L /\ k + 1 \in 0 .. L
      BY <1>1
    <3>2. e[k] < e[k + 1]
      BY <1>2, <3>1
    <3> QED
      BY <3>1, <3>2
  <2>3. \A i, j \in 0 .. L : i < j => j \in R[i]
    <3> HIDE DEF R
    <3>1. Linked(0, L, R)
      BY <1>1, <2>1, <2>2 DEF Linked
    <3>2. Ordered(0, L, R)
      BY <3>1, Chain
    <3> QED
      BY <3>2 DEF Ordered
  <2> QED
    BY <2>3
<1>4. \A i, j \in 1 .. N : i < j => ps[i].x =< ps[j].x
  <2> DEFINE R == [i \in 1 .. N |-> {j \in 1 .. N : ps[i].x =< ps[j].x}]
  <2>1. ASSUME NEW i \in 1 .. N, NEW j \in 1 .. N, NEW k \in 1 .. N, j \in R[i], k \in R[j]
        PROVE  k \in R[i]
    <3>1. ps[i].x \in Int /\ ps[j].x \in Int /\ ps[k].x \in Int
      BY <1>1
    <3>2. ps[i].x =< ps[j].x /\ ps[j].x =< ps[k].x
      BY <2>1
    <3>3. ps[i].x =< ps[k].x
      BY <3>1, <3>2
    <3> QED
      BY <3>3
  <2>2. ASSUME NEW k \in 1 .. N - 1
        PROVE  k + 1 \in R[k]
    <3>1. k \in 1 .. N /\ k + 1 \in 1 .. N
      BY <1>1
    <3>2. ps[k].x =< ps[k + 1].x
      BY <1>2
    <3> QED
      BY <3>1, <3>2
  <2>3. \A i, j \in 1 .. N : i < j => j \in R[i]
    <3> HIDE DEF R
    <3>1. Linked(1, N, R)
      BY <1>1, <2>1, <2>2 DEF Linked
    <3>2. Ordered(1, N, R)
      BY <3>1, Chain
    <3> QED
      BY <3>2 DEF Ordered
  <2> QED
    BY <2>3
<1>5. ASSUME NEW i \in 1 .. L, NEW j \in 1 .. L, i =< j
      PROVE  AtMost(bs[i], bs[j])
  <2> DEFINE R == [m \in 1 .. L |-> {n \in 1 .. L : AtMost(bs[m], bs[n])}]
  <2>1. ASSUME NEW m \in 1 .. L, NEW n \in 1 .. L, NEW k \in 1 .. L, n \in R[m], k \in R[n]
        PROVE  k \in R[m]
    <3>1. AtMost(bs[m], bs[n]) /\ AtMost(bs[n], bs[k])
      BY <2>1
    <3>2. AtMost(bs[m], bs[k])
      BY <1>1, <3>1, MeansInOrder
    <3> QED
      BY <3>2
  <2>2. ASSUME NEW k \in 1 .. L - 1
        PROVE  k + 1 \in R[k]
    <3>1. k \in 1 .. L /\ k + 1 \in 1 .. L
      BY <1>1
    <3>2. AtMost(bs[k], bs[k + 1])
      BY <1>2
    <3> QED
      BY <3>1, <3>2
  <2>3. \A m, n \in 1 .. L : m < n => n \in R[m]
    <3> HIDE DEF R
    <3>1. Linked(1, L, R)
      BY <1>1, <2>1, <2>2 DEF Linked
    <3>2. Ordered(1, L, R)
      BY <3>1, Chain
    <3> QED
      BY <3>2 DEF Ordered
  <2>4. CASE i < j
    BY <2>3, <2>4
  <2>5. CASE i = j
    BY <1>1, <2>5, MeansInOrder
  <2> QED
    BY <1>5, <2>4, <2>5
<1> QED
  BY <1>3, <1>4, <1>5 DEF L, N

LEMMA BlockOfPair ==
    ASSUME NEW bs, NEW ps, NEW e, NEW c, Fit(bs, ps, e, c), NEW p \in 1 .. Len(ps)
    PROVE  \E k \in 1 .. Len(bs) : e[k - 1] < p /\ p =< e[k]
<1> DEFINE L == Len(bs)
           N == Len(ps)
           U == {k \in 0 .. L : p =< e[k]}
<1>1. L \in Nat /\ N \in Nat /\ e \in [0 .. L -> 0 .. N]
  BY FitFacts
<1>2. e[0] = 0 /\ e[L] = N
  BY DEF Fit, Cuts
<1>3. p \in Int /\ 1 =< p /\ p =< N
  BY <1>1
<1> HIDE DEF L, N
<1>4. U \subseteq Nat /\ L \in U
  BY <1>1, <1>2, <1>3
<1>5. PICK k \in U : \A m \in U : k =< m
  <2> HIDE DEF U
  <2> QED
    BY <1>4, LeastNat
<1>6. k \in 1 .. L /\ p =< e[k]
  BY <1>1, <1>2, <1>3, <1>5
<1>7. k - 1 \in 0 .. L /\ k - 1 \notin U
  BY <1>1, <1>5, <1>6
<1>8. e[k - 1] < p
  <2>1. e[k - 1] \in Int
    BY <1>1, <1>7
  <2> QED
    BY <1>3, <1>7, <2>1
<1> QED
  BY <1>6, <1>8 DEF L

\* Where the lookup of x ends.
LEMMA LookupPlace ==
    ASSUME NEW e, NEW c, Fit(blocks, pairs, e, c), NEW x \in Int
    PROVE  \E k \in 1 .. Len(blocks) :
              /\ Lookup(x) = blocks[k]
              /\ \/ x =< blocks[1].x /\ k = 1
                 \/ x > blocks[1].x /\ x >= blocks[Len(blocks)].x /\ k = Len(blocks)
                 \/ /\ x > blocks[1].x /\ x < blocks[Len(blocks)].x /\ x =< blocks[k].x
                    /\ \A q \in 1 .. Len(blocks) : x =< blocks[q].x => k =< q
<1> DEFINE L == Len(blocks)
           U == {k \in DOMAIN blocks : x =< blocks[k].x}
<1>1. L \in Nat \ {0} /\ \A k \in 1 .. L : blocks[k].x \in Int
  BY FitFacts
<1>2. DOMAIN blocks = 1 .. L
  BY DEF Fit
<1>3. Lookup(x) = IF x =< blocks[1].x THEN blocks[1]
                  ELSE IF x >= blocks[L].x THEN blocks[L] ELSE blocks[Min(U)]
  BY DEF Lookup
<1> HIDE DEF L
<1>4. 1 \in 1 .. L /\ L \in 1 .. L /\ blocks[1].x \in Int /\ blocks[L].x \in Int
  BY <1>1
<1>5. CASE x =< blocks[1].x
  BY <1>3, <1>4, <1>5 DEF L
<1>6. CASE x > blocks[1].x /\ x >= blocks[L].x
  <2>1. ~(x =< blocks[1].x)
    BY <1>4, <1>6
  <2> QED
    BY <1>3, <1>4, <1>6, <2>1 DEF L
<1>7. CASE x > blocks[1].x /\ x < blocks[L].x
  <2>1. ~(x =< blocks[1].x) /\ ~(x >= blocks[L].x) /\ x =< blocks[L].x
    BY <1>4, <1>7
  <2>2. U \subseteq Nat /\ U \subseteq 1 .. L /\ L \in U
    BY <1>1, <1>2, <1>4, <2>1
  <2>3. Min(U) \in U /\ \A q \in U : Min(U) =< q
    <3> HIDE DEF U
    <3>1. PICK n \in U : \A m \in U : n =< m
      BY <2>2, LeastNat
    <3> QED
      BY <3>1 DEF Min
  <2>4. Lookup(x) = blocks[Min(U)]
    BY <1>3, <2>1
  <2>5. x =< blocks[Min(U)].x /\ \A q \in 1 .. L : x =< blocks[q].x => Min(U) =< q
    BY <1>2, <2>3
  <2>6. Min(U) \in 1 .. L
    BY <2>2, <2>3
  <2> HIDE DEF U
  <2> QED
    BY <1>7, <2>4, <2>5, <2>6 DEF L
<1> QED
  BY <1>4, <1>5, <1>6, <1>7

LEMMA LookupIsMonotone == IsotonicInv => HigherStaysHigher
<1> SUFFICES ASSUME IsotonicInv, Fitted, NEW x \in Ranks, NEW z \in Ranks, x =< z
             PROVE  AtMost(Lookup(x), Lookup(z))
  BY DEF HigherStaysHigher
<1>1. PICK e, c : Fit(blocks, pairs, e, c)
  BY FittedIsFit
<1> DEFINE L == Len(blocks)
<1>2. x \in Int /\ z \in Int
  BY IsotonicConstants
<1>3. L \in Nat \ {0} /\ \A k \in 1 .. L : blocks[k].x \in Int
  BY <1>1, FitFacts
<1>4. PICK k \in 1 .. L :
         /\ Lookup(x) = blocks[k]
         /\ \/ x =< blocks[1].x /\ k = 1
            \/ x > blocks[1].x /\ x >= blocks[L].x /\ k = L
            \/ /\ x > blocks[1].x /\ x < blocks[L].x /\ x =< blocks[k].x
               /\ \A q \in 1 .. L : x =< blocks[q].x => k =< q
  BY <1>1, <1>2, LookupPlace
<1>5. PICK q \in 1 .. L :
         /\ Lookup(z) = blocks[q]
         /\ \/ z =< blocks[1].x /\ q = 1
            \/ z > blocks[1].x /\ z >= blocks[L].x /\ q = L
            \/ /\ z > blocks[1].x /\ z < blocks[L].x /\ z =< blocks[q].x
               /\ \A n \in 1 .. L : z =< blocks[n].x => q =< n
  BY <1>1, <1>2, LookupPlace
<1> HIDE DEF L
<1>6. k =< q
  <2>1. blocks[1].x \in Int /\ blocks[L].x \in Int /\ blocks[q].x \in Int
    BY <1>3
  <2> QED
    BY <1>2, <1>3, <1>4, <1>5, <2>1
<1>7. AtMost(blocks[k], blocks[q])
  BY <1>1, <1>6, FitClimbs DEF L
<1> QED
  BY <1>4, <1>5, <1>7

\* Without ties the lookup of a pair's own confidence finds the block it was merged into.
LEMMA LookupOfPair ==
    ASSUME NEW e, NEW c, Fit(blocks, pairs, e, c),
           IsInjective([n \in DOMAIN pairs |-> pairs[n].x]),
           NEW p \in 1 .. Len(pairs), NEW k \in 1 .. Len(blocks), e[k - 1] < p, p =< e[k]
    PROVE  Lookup(pairs[p].x) = blocks[k]
<1> DEFINE L == Len(blocks)
           N == Len(pairs)
<1>1. /\ L \in Nat \ {0} /\ N \in Nat \ {0} /\ e \in [0 .. L -> 0 .. N] /\ c \in [0 .. N -> Int]
      /\ \A n \in 1 .. L :
            /\ IsMean(blocks[n]) /\ blocks[n].x \in Int
            /\ blocks[n].sum = c[e[n]] - c[e[n - 1]] /\ blocks[n].weight = e[n] - e[n - 1]
            /\ blocks[n].x = pairs[e[n]].x
      /\ \A n \in 1 .. N : pairs[n].x \in Int
  BY FitFacts
<1>2. /\ \A i, j \in 0 .. L : i < j => e[i] < e[j]
      /\ \A i, j \in 1 .. N : i < j => pairs[i].x =< pairs[j].x
      /\ \A i, j \in 1 .. L : i =< j => AtMost(blocks[i], blocks[j])
  BY FitClimbs
<1>3. e[0] = 0 /\ e[L] = N /\ DOMAIN pairs = 1 .. N
  BY DEF Fit, Cuts
<1>4. PICK q \in 1 .. L :
         /\ Lookup(pairs[p].x) = blocks[q]
         /\ \/ pairs[p].x =< blocks[1].x /\ q = 1
            \/ pairs[p].x > blocks[1].x /\ pairs[p].x >= blocks[L].x /\ q = L
            \/ /\ pairs[p].x > blocks[1].x /\ pairs[p].x < blocks[L].x /\ pairs[p].x =< blocks[q].x
               /\ \A n \in 1 .. L : pairs[p].x =< blocks[n].x => q =< n
  BY <1>1, LookupPlace
<1> HIDE DEF L, N
<1>5. p \in 1 .. N /\ k \in 1 .. L
  BY DEF L, N
<1>6. \A i, j \in 1 .. N : i < j => pairs[i].x < pairs[j].x
  <2> SUFFICES ASSUME NEW i \in 1 .. N, NEW j \in 1 .. N, i < j
               PROVE  pairs[i].x < pairs[j].x
    OBVIOUS
  <2>1. pairs[i].x =< pairs[j].x /\ pairs[i].x \in Int /\ pairs[j].x \in Int
    BY <1>1, <1>2
  <2>2. pairs[i].x # pairs[j].x
    <3>1. i # j
      BY <1>1
    <3> QED
      BY <1>3, <3>1 DEF IsInjective
  <2> QED
    BY <2>1, <2>2
\* In confidence as in rank: a block begins or ends beyond the pair or not.
<1>7. ASSUME NEW n \in 1 .. L
      PROVE  /\ pairs[p].x =< blocks[n].x <=> p =< e[n]
             /\ pairs[p].x >= blocks[n].x <=> p >= e[n]
  <2>1. n \in 0 .. L /\ 0 \in 0 .. L /\ 0 < n
    BY <1>1
  <2>2. e[n] \in 0 .. N /\ e[0] < e[n]
    BY <1>1, <1>2, <2>1
  <2>3. PICK m \in 1 .. N : m = e[n]
    BY <1>1, <1>3, <2>2
  <2>4. blocks[n].x = pairs[m].x /\ pairs[m].x \in Int /\ pairs[p].x \in Int
    BY <1>1, <1>5, <2>3
  <2>5. (p < m => pairs[p].x < pairs[m].x) /\ (m < p => pairs[m].x < pairs[p].x)
    BY <1>5, <1>6
  <2>6. p \in Int /\ m \in Int
    BY <1>1, <1>5
  <2>7. (pairs[p].x =< pairs[m].x <=> p =< m) /\ (pairs[p].x >= pairs[m].x <=> p >= m)
    BY <2>4, <2>5, <2>6
  <2> QED
    BY <2>3, <2>4, <2>7
<1>8. p \in Int /\ k \in Int /\ q \in Int /\ L \in Int /\ 1 \in 1 .. L /\ L \in 1 .. L
      /\ k - 1 \in 0 .. L /\ k \in 0 .. L
  BY <1>1, <1>5
<1>9. e[k - 1] \in Int /\ e[k] \in Int /\ e[1] \in Int /\ e[L] \in Int /\ e[q] \in Int
  BY <1>1, <1>8
<1>10. CASE pairs[p].x =< blocks[1].x /\ q = 1
  <2>1. p =< e[1]
    BY <1>7, <1>8, <1>10
  <2>2. k = 1
    <3>1. SUFFICES ASSUME k # 1
                   PROVE  FALSE
      OBVIOUS
    <3>2. 1 \in 0 .. L /\ 1 =< k - 1
      BY <1>5, <1>8, <3>1
    <3>3. e[1] =< e[k - 1]
      BY <1>2, <1>8, <1>9, <3>2
    <3> QED
      BY <1>8, <1>9, <2>1, <3>3
  <2> QED
    BY <1>4, <1>10, <2>2
<1>11. CASE pairs[p].x >= blocks[L].x /\ q = L
  <2>1. p >= e[L]
    BY <1>7, <1>8, <1>11
  <2>2. k = L
    <3>1. SUFFICES ASSUME k # L
                   PROVE  FALSE
      OBVIOUS
    <3>2. L \in 0 .. L /\ k < L
      BY <1>5, <1>8, <3>1
    <3>3. e[k] < e[L]
      BY <1>2, <1>8, <3>2
    <3> QED
      BY <1>8, <1>9, <2>1, <3>3
  <2> QED
    BY <1>4, <1>11, <2>2
<1>12. CASE pairs[p].x =< blocks[q].x /\ \A n \in 1 .. L : pairs[p].x =< blocks[n].x => q =< n
  <2>1. p =< e[q] /\ q =< k
    BY <1>5, <1>7, <1>12
  <2>2. q = k
    <3>1. SUFFICES ASSUME q # k
                   PROVE  FALSE
      OBVIOUS
    <3>2. q =< k - 1 /\ q \in 0 .. L
      BY <1>8, <2>1, <3>1
    <3>3. e[q] =< e[k - 1]
      BY <1>2, <1>8, <1>9, <3>2
    <3> QED
      BY <1>8, <1>9, <2>1, <3>3
  <2> QED
    BY <1>4, <2>2
<1> QED
  BY <1>4, <1>10, <1>11, <1>12

LEMMA MeanIsRun ==
    ASSUME NEW e, NEW c, Fit(blocks, pairs, e, c),
           NEW i \in 0 .. Len(pairs), NEW j \in 0 .. Len(pairs), i < j
    PROVE  Mean(i + 1, j) = Run(c, i, j)
<1>1. i \in 0 .. j /\ i \in Int /\ j \in Int
  BY DEF Fit
<1>2. Cardinality({p \in i + 1 .. j : pairs[p].y = 1}) = c[j] - c[i]
  BY <1>1, WinsCount DEF Fit
<1>3. Quantify(i + 1 .. j, LAMBDA p : pairs[p].y = 1) = c[j] - c[i]
  BY <1>2 DEF Quantify
<1>4. (j - (i + 1)) + 1 = j - i
  BY <1>1
<1> QED
  BY <1>3, <1>4 DEF Mean, Run

\* The block a pair was merged into is the greatest of the least means around the
\* pair: from the block's first pair on no run has a lower mean, and up to its last
\* pair no run has a higher one.
LEMMA BlockIsRegression ==
    ASSUME NEW e, NEW c, Fit(blocks, pairs, e, c),
           NEW p \in 1 .. Len(pairs), NEW k \in 1 .. Len(blocks), e[k - 1] < p, p =< e[k]
    PROVE  IsRegression(blocks[k], p)
<1> DEFINE L == Len(blocks)
           N == Len(pairs)
           b == blocks[k]
           s == b.sum
           w == b.weight
           G == [n \in 0 .. N |-> c[n] * w - s * n]
<1>1. /\ L \in Nat \ {0} /\ N \in Nat \ {0} /\ e \in [0 .. L -> 0 .. N] /\ c \in [0 .. N -> Int]
      /\ \A n \in 1 .. L :
            /\ IsMean(blocks[n]) /\ blocks[n].x \in Int
            /\ blocks[n].sum = c[e[n]] - c[e[n - 1]] /\ blocks[n].weight = e[n] - e[n - 1]
            /\ blocks[n].x = pairs[e[n]].x
      /\ \A n \in 1 .. N : pairs[n].x \in Int
  BY FitFacts
<1>2. /\ \A i, j \in 0 .. L : i < j => e[i] < e[j]
      /\ \A i, j \in 1 .. N : i < j => pairs[i].x =< pairs[j].x
      /\ \A i, j \in 1 .. L : i =< j => AtMost(blocks[i], blocks[j])
  BY FitClimbs
<1>3. \A m \in 1 .. L : /\ e[m - 1] < e[m]
                        /\ \A j \in e[m - 1] + 1 .. e[m] : AtMost(Run(c, e[m - 1], e[m]), Run(c, e[m - 1], j))
  BY DEF Fit, Cuts
<1>4. IsMean(b) /\ s \in Int /\ w \in Int
  BY <1>1 DEF IsMean
<1> HIDE DEF L, N
<1>5. p \in 1 .. N /\ k \in 1 .. L /\ p \in Int /\ k \in Int /\ L \in Int /\ N \in Int
      /\ \A m \in 0 .. L : e[m] \in 0 .. N /\ e[m] \in Int
  BY <1>1 DEF L, N
<1>20. c \in [0 .. N -> Int] /\ \A i \in 0 .. N : c[i] \in Int /\ i \in Int
  <2>1. c \in [0 .. N -> Int] /\ N \in Int
    BY <1>1, <1>5
  <2> QED
    BY <2>1
<1>6. \A i \in 0 .. N : G[i] \in Int /\ G[i] = c[i] * w - s * i
  <2> HIDE DEF s, w, b
  <2> SUFFICES ASSUME NEW i \in 0 .. N
               PROVE  G[i] \in Int /\ G[i] = c[i] * w - s * i
    OBVIOUS
  <2>1. c[i] \in Int /\ i \in Int
    BY <1>20
  <2>2. G[i] = c[i] * w - s * i
    OBVIOUS
  <2> HIDE DEF G
  <2> QED
    BY <1>4, <2>1, <2>2
\* Against b, a run is a difference of two values of G.
<1>7. ASSUME NEW i \in 0 .. N, NEW j \in 0 .. N
      PROVE  /\ AtMost(b, Run(c, i, j)) <=> G[i] =< G[j]
             /\ AtMost(Run(c, i, j), b) <=> G[j] =< G[i]
  <2> DEFINE u == c[i]
             v == c[j]
  <2>1. u \in Int /\ v \in Int /\ i \in Int /\ j \in Int
    BY <1>20
  <2>2. /\ AtMost(b, Run(c, i, j)) <=> s * (j - i) =< (v - u) * w
        /\ AtMost(Run(c, i, j), b) <=> (v - u) * w =< s * (j - i)
    BY DEF AtMost, Run
  <2>3. G[i] = u * w - s * i /\ G[j] = v * w - s * j
    BY <1>6
  <2> HIDE DEF s, w, u, v, G, b
  <2>4. s * (j - i) = s * j - s * i /\ (v - u) * w = v * w - u * w
    BY <1>4, <2>1
  <2> QED
    BY <1>4, <2>1, <2>2, <2>3, <2>4
<1> HIDE DEF s, w, G
<1>8. ASSUME NEW m \in 1 .. L
      PROVE  /\ e[m - 1] \in 0 .. N /\ e[m] \in 0 .. N /\ e[m - 1] < e[m]
             /\ IsMean(Run(c, e[m - 1], e[m]))
             /\ AtMost(b, blocks[m]) <=> AtMost(b, Run(c, e[m - 1], e[m]))
             /\ AtMost(blocks[m], b) <=> AtMost(Run(c, e[m - 1], e[m]), b)
  <2>1. m \in 0 .. L /\ m - 1 \in 0 .. L
    BY <1>5
  <2>2. e[m - 1] \in 0 .. N /\ e[m] \in 0 .. N /\ e[m - 1] < e[m]
    BY <1>3, <1>5, <2>1
  <2>3. IsMean(Run(c, e[m - 1], e[m]))
    BY <1>1, <2>2, RunIsMean
  <2>4. /\ blocks[m].sum = Run(c, e[m - 1], e[m]).sum
        /\ blocks[m].weight = Run(c, e[m - 1], e[m]).weight
    BY <1>1 DEF Run
  <2> QED
    BY <2>2, <2>3, <2>4 DEF AtMost
<1>9. \A m \in k .. L : m \in 1 .. L /\ AtMost(b, blocks[m])
  BY <1>2, <1>5
<1>10. \A m \in 1 .. k : m \in 1 .. L /\ AtMost(blocks[m], b)
  BY <1>2, <1>5
\* From the block on, its later blocks and the runs that begin them are no lower.
<1>11. ASSUME NEW m \in k .. L
       PROVE  /\ G[e[m - 1]] =< G[e[m]]
              /\ \A j \in e[m - 1] + 1 .. e[m] : G[e[m - 1]] =< G[j]
  <2>1. m \in 1 .. L /\ AtMost(b, Run(c, e[m - 1], e[m]))
    BY <1>8, <1>9
  <2>2. G[e[m - 1]] =< G[e[m]]
    BY <1>7, <1>8, <2>1
  <2>3. ASSUME NEW j \in e[m - 1] + 1 .. e[m]
        PROVE  G[e[m - 1]] =< G[j]
    <3>1. j \in 0 .. N /\ e[m - 1] < j
      BY <1>5, <1>8, <2>1, SMTT(20)
    <3>2. IsMean(Run(c, e[m - 1], j))
      BY <1>1, <1>8, <2>1, <3>1, RunIsMean
    <3>3. AtMost(Run(c, e[m - 1], e[m]), Run(c, e[m - 1], j))
      BY <1>3, <2>1
    <3>4. AtMost(b, Run(c, e[m - 1], j))
      BY <1>4, <1>8, <2>1, <3>2, <3>3, MeansInOrder
    <3> QED
      BY <1>7, <1>8, <2>1, <3>1, <3>4
  <2> QED
    BY <2>2, <2>3
\* Up to the block, its earlier blocks and the runs that end them are no higher.
<1>12. ASSUME NEW m \in 1 .. k
       PROVE  /\ G[e[m]] =< G[e[m - 1]]
              /\ \A i \in e[m - 1] .. e[m] - 1 : G[e[m]] =< G[i]
  <2>1. m \in 1 .. L /\ AtMost(Run(c, e[m - 1], e[m]), b)
    BY <1>8, <1>10
  <2>2. G[e[m]] =< G[e[m - 1]]
    BY <1>7, <1>8, <2>1
  <2>3. ASSUME NEW i \in e[m - 1] .. e[m] - 1
        PROVE  G[e[m]] =< G[i]
    <3>1. e[m - 1] \in Int /\ e[m] \in Int /\ i \in 0 .. N /\ e[m - 1] =< i /\ i < e[m]
      BY <1>5, <1>8, <2>1, SMTT(20)
    <3>2. CASE i = e[m - 1]
      BY <2>2, <3>2
    <3>3. CASE e[m - 1] < i
      <4>1. IsMean(Run(c, i, e[m]))
        BY <1>1, <1>8, <2>1, <3>1, RunIsMean
      <4>2. AtMost(Run(c, e[m - 1], e[m]), Run(c, e[m - 1], i))
        <5>1. i \in e[m - 1] + 1 .. e[m]
          BY <3>1, <3>3
        <5> QED
          BY <1>3, <2>1, <5>1
      <4>3. AtMost(Run(c, i, e[m]), Run(c, e[m - 1], e[m]))
        BY <1>1, <1>8, <2>1, <3>1, <3>3, <4>2, RunsJoined
      <4>4. AtMost(Run(c, i, e[m]), b)
        BY <1>4, <1>8, <2>1, <4>1, <4>3, MeansInOrder
      <4> QED
        BY <1>7, <1>8, <2>1, <3>1, <4>4
    <3> QED
      BY <3>1, <3>2, <3>3
  <2> QED
    BY <2>2, <2>3
<1>13. ASSUME NEW m \in k - 1 .. L, NEW n \in k - 1 .. L, m < n
       PROVE  G[e[m]] =< G[e[n]]
  <2> DEFINE lo == k - 1
             R == [i \in lo .. L |-> {j \in lo .. L : G[e[i]] =< G[e[j]]}]
  <2>1. \A i \in lo .. L : G[e[i]] \in Int
    BY <1>5, <1>6
  <2>2. \A i, j, q \in lo .. L : j \in R[i] /\ q \in R[j] => q \in R[i]
    BY <2>1
  <2>3. ASSUME NEW q \in lo .. L - 1
        PROVE  q + 1 \in R[q]
    <3>1. q + 1 \in k .. L /\ (q + 1) - 1 = q /\ q \in lo .. L /\ q + 1 \in lo .. L
      BY <1>5
    <3>2. G[e[q]] =< G[e[q + 1]]
      BY <1>11, <3>1
    <3> QED
      BY <3>1, <3>2
  <2>4. n \in R[m]
    <3>3. m \in lo .. L /\ n \in lo .. L /\ m < n /\ lo \in Int
      BY <1>5, <1>13
    <3> HIDE DEF R, lo
    <3>1. Linked(lo, L, R)
      BY <1>5, <2>2, <2>3, <3>3 DEF Linked
    <3>2. Ordered(lo, L, R)
      BY <3>1, Chain
    <3> QED
      BY <3>2, <3>3 DEF Ordered
  <2> QED
    BY <2>4
<1>14. ASSUME NEW m \in 0 .. k, NEW n \in 0 .. k, m < n
       PROVE  G[e[n]] =< G[e[m]]
  <2> DEFINE R == [i \in 0 .. k |-> {j \in 0 .. k : G[e[j]] =< G[e[i]]}]
  <2>1. \A i \in 0 .. k : G[e[i]] \in Int
    BY <1>5, <1>6
  <2>2. \A i, j, q \in 0 .. k : j \in R[i] /\ q \in R[j] => q \in R[i]
    BY <2>1
  <2>3. ASSUME NEW q \in 0 .. k - 1
        PROVE  q + 1 \in R[q]
    <3>1. q + 1 \in 1 .. k /\ (q + 1) - 1 = q /\ q \in 0 .. k /\ q + 1 \in 0 .. k
      BY <1>5
    <3>2. G[e[q + 1]] =< G[e[q]]
      BY <1>12, <3>1
    <3> QED
      BY <3>1, <3>2
  <2>4. n \in R[m]
    <3> HIDE DEF R
    <3>1. Linked(0, k, R)
      BY <1>5, <2>2, <2>3 DEF Linked
    <3>2. Ordered(0, k, R)
      BY <3>1, Chain
    <3> QED
      BY <1>14, <3>2 DEF Ordered
  <2> QED
    BY <2>4
<1>15. e[k - 1] + 1 \in 1 .. p /\ e[k] \in p .. N /\ e[k - 1] \in 0 .. N /\ k - 1 \in 0 .. L /\ k \in 0 .. L
  BY <1>5
<1>16. ASSUME NEW j \in p .. N
       PROVE  AtMost(b, Mean(e[k - 1] + 1, j))
  <2>1. j \in 1 .. N /\ j \in 0 .. N /\ e[k - 1] < j
    BY <1>5, <1>15
  <2>2. PICK m \in 1 .. L : e[m - 1] < j /\ j =< e[m]
    BY <2>1, BlockOfPair DEF L, N
  <2>3. m \in k .. L
    <3>1. SUFFICES ASSUME m < k
                   PROVE  FALSE
      BY <1>5
    <3>2. m =< k - 1 /\ m \in 0 .. L /\ e[m] \in Int /\ e[k - 1] \in Int
      BY <1>5, <1>15, <3>1
    <3>3. e[m] =< e[k - 1]
      BY <1>2, <1>5, <1>15, <3>2
    <3> QED
      BY <1>5, <2>1, <2>2, <3>2, <3>3
  <2>4. G[e[k - 1]] =< G[e[m - 1]]
    <3>1. m - 1 \in k - 1 .. L /\ k - 1 \in k - 1 .. L
      BY <1>5, <2>3
    <3>2. G[e[k - 1]] \in Int
      BY <1>6, <1>15
    <3> QED
      BY <1>13, <1>5, <2>3, <3>1, <3>2, SMTT(20)
  <2>5. G[e[m - 1]] =< G[j]
    <3>1. e[m - 1] \in Int /\ e[m] \in Int /\ j \in Int
      BY <1>8, <1>5
    <3>2. j \in e[m - 1] + 1 .. e[m]
      BY <2>2, <3>1
    <3> QED
      BY <1>11, <2>3, <3>2
  <2>6. G[e[k - 1]] =< G[j]
    <3>1. G[e[k - 1]] \in Int /\ G[e[m - 1]] \in Int /\ G[j] \in Int
      BY <1>6, <1>8, <1>15, <2>1
    <3> QED
      BY <2>4, <2>5, <3>1
  <2>7. Mean(e[k - 1] + 1, j) = Run(c, e[k - 1], j)
    BY <1>15, <2>1, MeanIsRun DEF N
  <2> QED
    BY <1>7, <1>15, <2>1, <2>6, <2>7
<1>17. ASSUME NEW i \in 1 .. p
       PROVE  AtMost(Mean(i, e[k]), b)
  <2>1. i \in 1 .. N /\ i - 1 \in 0 .. N /\ i - 1 < e[k] /\ (i - 1) + 1 = i /\ e[k] \in 0 .. N /\ i \in Int
    BY <1>5, <1>15
  <2>2. PICK m \in 1 .. L : e[m - 1] < i /\ i =< e[m]
    BY <2>1, BlockOfPair DEF L, N
  <2>3. m \in 1 .. k
    <3>1. SUFFICES ASSUME k < m
                   PROVE  FALSE
      BY <1>5
    <3>2. k =< m - 1 /\ m - 1 \in 0 .. L /\ e[m - 1] \in Int /\ e[k] \in Int
      BY <1>5, <1>15, <3>1
    <3>3. e[k] =< e[m - 1]
      BY <1>2, <1>5, <1>15, <3>2, SMTT(20)
    <3> QED
      BY <1>5, <2>1, <2>2, <3>2, <3>3
  <2>4. G[e[k]] =< G[e[m]]
    <3>1. m \in 0 .. k /\ k \in 0 .. k
      BY <1>5, <2>3
    <3>2. G[e[k]] \in Int
      BY <1>6, <2>1
    <3> QED
      BY <1>14, <1>5, <2>3, <3>1, <3>2
  <2>5. G[e[m]] =< G[i - 1]
    <3>1. e[m - 1] \in Int /\ e[m] \in Int
      BY <1>8, <1>5
    <3>2. i - 1 \in e[m - 1] .. e[m] - 1
      BY <2>1, <2>2, <3>1
    <3> QED
      BY <1>12, <2>3, <3>2
  <2>6. G[e[k]] =< G[i - 1]
    <3>1. G[e[k]] \in Int /\ G[e[m]] \in Int /\ G[i - 1] \in Int
      BY <1>6, <1>8, <2>1
    <3> QED
      BY <2>4, <2>5, <3>1
  <2>7. Mean(i, e[k]) = Run(c, i - 1, e[k])
    <3>1. Mean((i - 1) + 1, e[k]) = Run(c, i - 1, e[k])
      BY <2>1, MeanIsRun DEF N
    <3> QED
      BY <2>1, <3>1
  <2> QED
    BY <1>7, <2>1, <2>6, <2>7
<1> HIDE DEF b
<1>18. \E i \in 1 .. p : \A j \in p .. N : AtMost(b, Mean(i, j))
  BY <1>15, <1>16
<1>19. \A i \in 1 .. p : \E j \in p .. N : AtMost(Mean(i, j), b)
  BY <1>15, <1>17
<1> QED
  BY <1>18, <1>19 DEF IsRegression, b, N

LEMMA FitIsRegression == IsotonicInv => FitIsMaximumLikelihood
<1> SUFFICES ASSUME IsotonicInv, Fitted, IsInjective([k \in DOMAIN pairs |-> pairs[k].x]),
                    NEW p \in DOMAIN pairs
             PROVE  IsRegression(Lookup(pairs[p].x), p)
  BY DEF FitIsMaximumLikelihood
<1>1. PICK e, c : Fit(blocks, pairs, e, c)
  BY FittedIsFit
<1>2. p \in 1 .. Len(pairs)
  BY <1>1 DEF Fit
<1>3. PICK k \in 1 .. Len(blocks) : e[k - 1] < p /\ p =< e[k]
  BY <1>1, <1>2, BlockOfPair
<1>4. Lookup(pairs[p].x) = blocks[k]
  BY <1>1, <1>2, <1>3, LookupOfPair
<1>5. IsRegression(blocks[k], p)
  BY <1>1, <1>2, <1>3, BlockIsRegression
<1> QED
  BY <1>4, <1>5

\* The weights of the first k blocks add up to the k-th cut.
LEMMA WeightsAddUp ==
    ASSUME NEW n \in Nat, NEW w, NEW e \in [0 .. n -> Int], e[0] = 0,
           \A k \in 1 .. n : w[k] = e[k] - e[k - 1]
    PROVE  \A k \in 0 .. n : SumOver(w, 1 .. k) = e[k]
<1> DEFINE Wrong == {k \in 0 .. n : SumOver(w, 1 .. k) # e[k]}
<1>1. ASSUME Wrong # {}
      PROVE  FALSE
  <2>1. Wrong \subseteq Nat
    OBVIOUS
  <2>2. PICK k \in Wrong : \A m \in Wrong : k =< m
    <3> HIDE DEF Wrong
    <3> QED
      BY <1>1, <2>1, LeastNat
  <2>3. k \in 0 .. n /\ SumOver(w, 1 .. k) # e[k]
    BY <2>2
  <2>4. k # 0
    <3>1. 1 .. 0 = {}
      OBVIOUS
    <3> QED
      BY <2>3, <3>1, SumEmpty
  <2>5. k - 1 \in 0 .. n /\ ~(k =< k - 1) /\ k \in 1 .. n
    BY <2>3, <2>4
  <2>6. SumOver(w, 1 .. k - 1) = e[k - 1]
    BY <2>2, <2>5
  <2>7. SumOver(w, 1 .. k) = SumOver(w, 1 .. k - 1) + w[k]
    <3>1. (1 .. k - 1) \in SUBSET (1 .. n) /\ k \in (1 .. n) \ (1 .. k - 1)
      BY <2>5
    <3>2. IsFiniteSet(1 .. n)
      BY FS_Interval
    <3>3. ASSUME NEW y \in 1 .. n
          PROVE  w[y] \in Int
      <4>1. e[y] \in Int /\ e[y - 1] \in Int
        OBVIOUS
      <4> QED
        BY <4>1
    <3>4. (1 .. k - 1) \cup {k} = 1 .. k
      BY <2>5
    <3> DEFINE U == 1 .. n
               S == 1 .. k - 1
    <3>5. IsFiniteSet(U) /\ (\A y \in U : w[y] \in Int) /\ S \in SUBSET U /\ k \in U \ S
      BY <3>1, <3>2, <3>3
    <3> HIDE DEF U, S, Wrong
    <3>6. SumOver(w, S \cup {k}) = SumOver(w, S) + w[k]
      BY <3>5, SumAdd, SMTT(20)
    <3> QED
      BY <3>4, <3>6 DEF S
  <2>8. w[k] = e[k] - e[k - 1] /\ e[k] \in Int /\ e[k - 1] \in Int
    BY <2>5
  <2> QED
    BY <2>3, <2>6, <2>7, <2>8
<1> QED
  BY <1>1

\* Whatever was merged, the blocks partition the pairs.
THEOREM FitTypeCorrect == IsotonicSpec => []IsotonicTypeOK
<1>1. ASSUME IsotonicInv
      PROVE  IsotonicTypeOK
  <2>1. PICK e : Cuts(blocks, pairs, e, WinsOf(pairs))
    BY <1>1 DEF IsotonicInv
  <2> DEFINE n == Len(blocks)
             weight == [b \in DOMAIN blocks |-> blocks[b].weight]
             Ends(k) == MapThenSumSet(LAMBDA b : weight[b], 1 .. k)
  <2>2. n \in Nat /\ DOMAIN blocks = 1 .. n /\ at \in 1 .. n
    BY <1>1 DEF IsotonicInv
  <2>3. /\ e \in [0 .. n -> 0 .. Len(pairs)] /\ e[0] = 0 /\ e[n] = Len(pairs)
        /\ \A k \in 1 .. n :
              /\ e[k - 1] < e[k] /\ weight[k] = e[k] - e[k - 1]
              /\ blocks[k].sum = WinsOf(pairs)[e[k]] - WinsOf(pairs)[e[k - 1]]
              /\ blocks[k].x = pairs[e[k]].x
    BY <2>1, <2>2 DEF Cuts
  <2>4. pairs \in Seq(Pairs) /\ Len(pairs) \in Nat
    BY <1>1 DEF IsotonicInv, PairsInv
  <2>5. e \in [0 .. n -> Int]
    BY <2>3, <2>4
  <2>6. \A k \in 0 .. n : SumOver(weight, 1 .. k) = e[k]
    <3> HIDE DEF n, weight
    <3> QED
      BY <2>2, <2>3, <2>5, WeightsAddUp
  <2>7. \A k : Ends(k) = SumOver(weight, 1 .. k)
    <3> HIDE DEF weight
    <3> QED
      BY DEF SumOver
  <2>8. \A k \in 0 .. n : Ends(k) = e[k]
    BY <2>6, <2>7
  <2> HIDE DEF weight, Ends, n
  <2>9. ASSUME NEW k \in 1 .. n
        PROVE  /\ weight[k] >= 1 /\ blocks[k].x = pairs[Ends(k)].x
               /\ blocks[k].sum = Quantify(Ends(k - 1) + 1 .. Ends(k), LAMBDA p : pairs[p].y = 1)
    <3>1. k \in 0 .. n /\ k - 1 \in 0 .. n
      BY <2>2
    <3>2. Ends(k) = e[k] /\ Ends(k - 1) = e[k - 1]
      BY <2>8, <3>1
    <3>3. e[k] \in 0 .. Len(pairs) /\ e[k - 1] \in 0 .. e[k] /\ e[k] - e[k - 1] >= 1
      BY <2>3, <2>4, <3>1
    <3>4. Cardinality({p \in e[k - 1] + 1 .. e[k] : pairs[p].y = 1})
              = WinsOf(pairs)[e[k]] - WinsOf(pairs)[e[k - 1]]
      BY <2>4, <3>3, WinsCount
    <3>5. Quantify(e[k - 1] + 1 .. e[k], LAMBDA p : pairs[p].y = 1)
              = WinsOf(pairs)[e[k]] - WinsOf(pairs)[e[k - 1]]
      BY <3>4 DEF Quantify
    <3> QED
      BY <2>3, <3>2, <3>3, <3>5
  <2>10. Ends(n) = Len(pairs)
    BY <2>2, <2>3, <2>8
  <2> QED
    BY <2>2, <2>9, <2>10 DEF IsotonicTypeOK, weight, Ends, n
<1> QED
  BY <1>1, IsotonicAlways, PTL

\* However the merges run, forwards and back, the finished fit ranks no confidence
\* below a lower one, and where there are no ties it is the isotonic regression.
THEOREM TheFitIsIsotonic == IsotonicSpec => []FitIsIsotonic
<1>1. IsotonicInv => FitIsIsotonic
  BY LookupIsMonotone, FitIsRegression DEF FitIsIsotonic
<1> QED
  BY <1>1, IsotonicAlways, PTL

-----------------------------------------------------------------------------
(***************************************************************************)
(* CandleFeed.  Until a seed was ahead of the live candle the bars ascend  *)
(* up to it; afterwards time turns back once, where the live candle is     *)
(* appended behind a newer one, and never before that nor after.           *)
(***************************************************************************)
\* The newest closed bar is older than the live candle.
Behind == bars # <<>> => bars[Len(bars)].t < cur.t

CandleShape ==
    /\ CandleTypeOK /\ warmed \in BOOLEAN /\ warming \in BOOLEAN /\ ahead \in BOOLEAN
    /\ (loop # "sleep" => Live) /\ (ahead => warmed)
    /\ IsFiniteSet(history) /\ \A b, c \in history : b.t = c.t => b = c

Seam ==
    /\ ~ahead => /\ \A k \in 1 .. Len(bars) : bars[k].t < cur.t
                 /\ \A k, l \in 1 .. Len(bars) : k < l => bars[k].t < bars[l].t
    /\ \A k, l \in Descents : k = l
    /\ Descents # {} => Behind

\* The first live candle began at f, the history was sent in g.
PartialsAt(f, g) ==
    /\ (Live /\ ~cur.whole) => cur.t = f
    /\ \A c \in history : c.whole \/ c.t = g
    /\ \A k \in 1 .. Len(bars) : bars[k].whole \/ bars[k].t = f \/ (warmed /\ bars[k].t = g)
Partials == \E f, g \in Int : PartialsAt(f, g)

\* No forecast is behind the newest bar, or asked for twice.
Onward(newest) ==
    /\ asof # NoWindow => asof <= newest
    /\ asking # NoWindow => asking <= newest /\ (asof # NoWindow => asof < asking)
Forecasted ==
    /\ Len(bars) < Context => asof = NoWindow /\ asking = NoWindow
    /\ loop \in {"fetch", "seed"} => asof = NoWindow
    /\ asof = NoWindow => setbacks = 0
    /\ setbacks \in {0, 1} /\ (setbacks = 1 => ahead /\ Behind)
    /\ (~ahead \/ setbacks = 1) => Onward(bars[Len(bars)].t)
    /\ asking # NoWindow => asof = NoWindow \/ (Behind /\ asking <= bars[Len(bars)].t)
    /\ ~Behind => {asof, asking} \subseteq {NoWindow, bars[Len(bars)].t}

CandleInv == CandleShape /\ Seam /\ Partials /\ Forecasted

\* The candles of a set, in the order of their windows: the rank of a candle is the
\* number of the older ones, and every rank is taken.
OfRank(S, k) == CHOOSE c \in S : Cardinality({b \in S : b.t < c.t}) = k
LEMMA ByWindowAscends ==
    ASSUME NEW S, IsFiniteSet(S), S \subseteq Candles, \A b, c \in S : b.t = c.t => b = c
    PROVE  /\ ByWindow(S) \in Seq(S)
           /\ \A k, l \in 1 .. Len(ByWindow(S)) : k < l => ByWindow(S)[k].t < ByWindow(S)[l].t
<1> DEFINE n == Cardinality(S)
           Older(c) == {b \in S : b.t < c.t}
           rank == [c \in S |-> Cardinality(Older(c))]
           B == [k \in 1 .. n |-> OfRank(S, k - 1)]
<1>1. n \in Nat
  BY FS_CardinalityType
<1>2. \A c \in S : c.t \in Int
  BY DEF Candles, Windows
<1>3. ASSUME NEW c \in S
      PROVE  rank[c] \in 0 .. n - 1 /\ IsFiniteSet(Older(c)) /\ rank[c] = Cardinality(Older(c))
  <2>1. c \notin Older(c) /\ Older(c) \in SUBSET S
    BY <1>2
  <2>2. IsFiniteSet(Older(c)) /\ Cardinality(Older(c)) <= n /\ Cardinality(Older(c)) # n
    <3> HIDE DEF Older
    <3> QED
      BY <2>1, FS_Subset
  <2>3. Cardinality(Older(c)) \in Nat
    <3> HIDE DEF Older
    <3> QED
      BY <2>2, FS_CardinalityType
  <2> HIDE DEF Older, n
  <2> QED
    BY <1>1, <2>2, <2>3
<1>4. ASSUME NEW b \in S, NEW c \in S, b.t < c.t
      PROVE  rank[b] < rank[c]
  <2>1. Older(b) \in SUBSET Older(c) /\ b \in Older(c) /\ b \notin Older(b)
    BY <1>2, <1>4
  <2>2. rank[b] <= rank[c] /\ rank[b] # rank[c]
    <3>1. IsFiniteSet(Older(c)) /\ rank[b] = Cardinality(Older(b)) /\ rank[c] = Cardinality(Older(c))
      BY <1>3
    <3> HIDE DEF Older, rank
    <3> QED
      BY <2>1, <3>1, FS_Subset
  <2>3. rank[b] \in Int /\ rank[c] \in Int
    BY <1>3
  <2> HIDE DEF rank
  <2> QED
    BY <2>2, <2>3
<1>5. rank \in Injection(S, 0 .. n - 1)
  <2>1. rank \in [S -> 0 .. n - 1]
    <3>1. \A c \in S : rank[c] \in 0 .. n - 1
      BY <1>3
    <3> QED
      BY <3>1
  <2>2. ASSUME NEW b \in S, NEW c \in S, rank[b] = rank[c]
        PROVE  b = c
    <3>1. ~(b.t < c.t) /\ ~(c.t < b.t)
      <4>1. rank[b] \in Int /\ rank[c] \in Int
        BY <1>3
      <4> HIDE DEF rank
      <4> QED
        BY <1>4, <2>2, <4>1
    <3>2. b.t = c.t
      BY <1>2, <3>1
    <3> QED
      BY <3>2
  <2>3. IsInjective(rank)
    <3> HIDE DEF rank
    <3> QED
      BY <2>1, <2>2 DEF IsInjective
  <2> QED
    BY <2>1, <2>2 DEF Injection, IsInjective
<1>6. \A k \in 0 .. n - 1 : \E c \in S : rank[c] = k
  <2>1. IsFiniteSet(0 .. n - 1) /\ Cardinality(0 .. n - 1) = n
    <3>1. 0 \in Int /\ n - 1 \in Int /\ (0 > n - 1 => n = 0)
      BY <1>1
    <3>2. IsFiniteSet(0 .. n - 1)
          /\ Cardinality(0 .. n - 1) = IF 0 > n - 1 THEN 0 ELSE (n - 1) - 0 + 1
      BY <3>1, FS_Interval
    <3> QED
      BY <1>1, <3>1, <3>2
  <2>2. rank \in Surjection(S, 0 .. n - 1)
    <3> DEFINE T == 0 .. n - 1
    <3>1. IsFiniteSet(T) /\ Cardinality(S) = Cardinality(T) /\ rank \in Injection(S, T)
      BY <1>5, <2>1
    <3> HIDE DEF T, rank
    <3>2. rank \in Surjection(S, T)
      BY <3>1, FS_Injection
    <3> QED
      BY <3>2 DEF T
  <2> HIDE DEF rank
  <2> QED
    BY <2>2 DEF Surjection
<1>7. ASSUME NEW k \in 1 .. n
      PROVE  B[k] \in S /\ rank[B[k]] = k - 1
  <2>1. k - 1 \in 0 .. n - 1
    BY <1>1
  <2>2. PICK c \in S : rank[c] = k - 1
    BY <1>6, <2>1
  <2>3. Cardinality(Older(c)) = k - 1
    BY <2>2
  <2>4. B[k] \in S /\ Cardinality(Older(B[k])) = k - 1
    BY <2>3 DEF OfRank
  <2> QED
    BY <2>4
<1>8. B = ByWindow(S)
  BY DEF ByWindow, OfRank
<1> HIDE DEF B, rank
<1>9. B \in [1 .. n -> S]
  <2>1. \A k \in 1 .. n : B[k] \in S
    BY <1>7
  <2>2. \A k \in 1 .. n : OfRank(S, k - 1) \in S
    BY <2>1 DEF B
  <2> QED
    BY <2>2 DEF B
<1>10. B \in Seq(S) /\ Len(B) = n
  <2> HIDE DEF n
  <2> QED
    BY <1>1, <1>9, MadeSeq
<1>11. ASSUME NEW k \in 1 .. n, NEW l \in 1 .. n, k < l
       PROVE  B[k].t < B[l].t
  <2>1. B[k] \in S /\ B[l] \in S /\ rank[B[k]] = k - 1 /\ rank[B[l]] = l - 1
    BY <1>7
  <2>2. B[k].t \in Int /\ B[l].t \in Int
    BY <1>2, <2>1
  <2>3. k \in Int /\ l \in Int
    BY <1>1
  <2>4. B[k].t # B[l].t
    BY <1>11, <2>1, <2>3
  <2>5. ~(B[l].t < B[k].t)
    BY <1>4, <1>11, <2>1, <2>3
  <2> QED
    BY <2>2, <2>4, <2>5
<1> QED
  BY <1>8, <1>10, <1>11

\* A deque that is full drops the oldest.
Drops(s, r, d) ==
    /\ Len(r) = Len(s) - d /\ Len(r) \in Nat /\ Len(r) <= MaxBars
    /\ \A k \in 1 .. Len(r) : k + d \in 1 .. Len(s) /\ r[k] = s[k + d]
    /\ (Len(s) > MaxBars => Len(r) = MaxBars) /\ (Len(s) <= MaxBars => d = 0)
LEMMA NewestKeeps ==
    ASSUME NEW S, NEW s \in Seq(S)
    PROVE  Newest(s) \in Seq(S) /\ \E d \in Nat : Drops(s, Newest(s), d)
<1>1. Len(s) \in Nat /\ MaxBars \in Nat
  BY CandleConstants
<1>2. CASE ~(Len(s) > MaxBars)
  <2>1. Newest(s) = s /\ Len(s) = Len(s) - 0
    BY <1>1, <1>2 DEF Newest
  <2>2. \A k \in 1 .. Len(s) : k + 0 = k
    BY <1>1
  <2>3. Drops(s, s, 0)
    BY <1>1, <1>2, <2>2 DEF Drops
  <2> QED
    BY <2>1, <2>3
<1>3. CASE Len(s) > MaxBars
  <2> DEFINE d == Len(s) - MaxBars
             r == SubSeq(s, d + 1, Len(s))
  <2>1. d \in Nat /\ d >= 1 /\ d + MaxBars = Len(s)
    BY <1>1, <1>3
  <2>2. Newest(s) = r
    BY <1>3 DEF Newest
  <2>3. r \in Seq(S) /\ Len(r) = MaxBars /\ \A k \in 1 .. MaxBars : r[k] = s[k + d]
    <3>1. Len(s) - (d + 1) + 1 = MaxBars
      BY <1>1, <2>1
    <3>2. r = [k \in 1 .. MaxBars |-> s[k + d]]
      <4>1. \A k \in 1 .. MaxBars : (d + 1) + k - 1 = k + d
        BY <1>1, <2>1
      <4> QED
        BY <1>1, <2>1, <3>1, <4>1
    <3>3. \A k \in 1 .. MaxBars : k + d \in 1 .. Len(s)
      BY <1>1, <2>1
    <3>4. r \in [1 .. MaxBars -> S]
      <4> HIDE DEF r, d
      <4> QED
        BY <1>1, <3>2, <3>3
    <3> HIDE DEF r, d
    <3> QED
      BY <1>1, <3>2, <3>4, MadeSeq
  <2>4. \A k \in 1 .. MaxBars : k + d \in 1 .. Len(s)
    BY <1>1, <2>1
  <2> HIDE DEF d, r
  <2>5. Drops(s, r, d)
    BY <1>1, <1>3, <2>1, <2>3, <2>4 DEF Drops
  <2> QED
    BY <2>1, <2>2, <2>3, <2>5
<1> QED
  BY <1>2, <1>3

LEMMA CandleFacts ==
    ASSUME CandleShape
    PROVE  /\ Len(bars) \in Nat /\ DOMAIN bars = 1 .. Len(bars) /\ Len(bars) <= MaxBars
           /\ \A k \in 1 .. Len(bars) : bars[k] \in Candles /\ bars[k].t \in Int /\ bars[k].t \in Windows
           /\ (Live => cur \in Candles /\ cur.t \in Int /\ cur.t \in Windows)
           /\ (bars # <<>> <=> Len(bars) > 0) /\ (bars # <<>> => Live)
           /\ Context \in Nat /\ MaxBars \in Nat /\ 0 < Context /\ Context <= MaxBars
           /\ \A w \in Windows : w \in Int
           /\ NoWindow \notin Int
<1>1. bars \in Seq(Candles)
  BY DEF CandleShape, CandleTypeOK
<1>2. \A c \in Candles : c.t \in Int /\ c.t \in Windows
  BY DEF Candles, Windows
<1>3. \A k \in 1 .. Len(bars) : bars[k] \in Candles
  BY <1>1
<1>4. Live => cur \in Candles
  BY DEF CandleShape, CandleTypeOK, Live
<1>5. bars # <<>> <=> Len(bars) > 0
  BY <1>1
<1>6. \A w \in Windows : w \in Int
  BY DEF Windows
<1> QED
  BY <1>1, <1>2, <1>3, <1>4, <1>5, <1>6, CandleConstants DEF CandleShape, CandleTypeOK

LEMMA CandleInitInv == CandleInit => CandleInv
<1> SUFFICES ASSUME CandleInit
             PROVE  CandleInv
  OBVIOUS
<1>1. bars = <<>> /\ Len(bars) = 0 /\ history = {} /\ cur = NoCandle /\ ~Live
  BY DEF CandleInit, Live
<1>2. bars \in Seq(Candles)
  BY <1>1
<1>3. CandleShape
  <2>1. CandleTypeOK
    BY <1>1, <1>2, CandleConstants DEF CandleInit, CandleTypeOK
  <2>2. IsFiniteSet(history)
    BY <1>1, FS_EmptySet
  <2> QED
    BY <1>1, <2>1, <2>2 DEF CandleInit, CandleShape
<1>4. Descents = {}
  BY <1>1 DEF Descents
<1>5. Seam
  BY <1>1, <1>4 DEF Seam
<1>6. PartialsAt(0, 0)
  BY <1>1 DEF PartialsAt
<1>7. Forecasted
  BY <1>1, CandleConstants DEF CandleInit, Forecasted, Behind, Onward
<1> QED
  BY <1>3, <1>5, <1>6, <1>7 DEF CandleInv, Partials

\* The first live candle, which may be partial.
LEMMA FirstTickStep ==
    ASSUME CandleInv, NEW w \in Windows, FirstTick(w)
    PROVE  CandleInv'
<1>1. /\ bars = <<>> /\ bars' = bars /\ Len(bars) = 0 /\ loop = "sleep" /\ loop' = loop
      /\ history = {} /\ history' = history /\ cur' = [t |-> w, whole |-> FALSE]
      /\ asking = NoWindow /\ asking' = asking /\ asof' = asof /\ setbacks' = setbacks
      /\ ahead' = ahead /\ warmed' = warmed /\ warming' = warming
      /\ window' = window /\ troubles' = troubles
  <2>1. CandleTypeOK /\ ~Live /\ (loop # "sleep" => Live)
    BY DEF CandleInv, CandleShape, FirstTick
  <2>2. bars = <<>> /\ loop = "sleep" /\ history = {} /\ asking = NoWindow
    BY <2>1 DEF CandleTypeOK
  <2> QED
    BY <2>2 DEF FirstTick, warmth, forecasts
<1>2. cur' \in Candles /\ cur' # NoCandle /\ w \in Int
  <2>1. w \in Int
    BY DEF Windows
  <2>2. cur' \in [t : Int, whole : BOOLEAN]
    BY <1>1, <2>1
  <2> QED
    BY <1>1, <2>1, <2>2, CandleConstants DEF Candles
<1>3. CandleShape'
  BY <1>1, <1>2 DEF CandleInv, CandleShape, CandleTypeOK, Live
<1>4. Seam'
  <2>1. Descents' = {}
    BY <1>1 DEF Descents
  <2> QED
    BY <1>1, <2>1 DEF Seam
<1>5. PartialsAt(w, w)'
  BY <1>1 DEF PartialsAt
<1>6. Forecasted'
  <2>1. Len(bars) < Context
    BY <1>1, CandleConstants
  <2>2. asof = NoWindow /\ setbacks = 0
    BY <2>1 DEF CandleInv, Forecasted
  <2> QED
    BY <1>1, <2>2 DEF Forecasted, Behind, Onward
<1> QED
  BY <1>2, <1>3, <1>4, <1>5, <1>6 DEF CandleInv, Partials

\* A live candle closes: it is behind its successor, whatever it is appended to.
LEMMA NextCandleStep ==
    ASSUME CandleInv, NEW w \in Windows, NextCandle(w)
    PROVE  CandleInv'
<1> DEFINE n == Len(bars)
           m == Len(bars')
           s == Append(bars, cur)
<1>1. CandleShape /\ Seam /\ Partials /\ Forecasted
  BY DEF CandleInv
<1>2. /\ Live /\ w > cur.t /\ bars' = Newest(s) /\ cur' = [t |-> w, whole |-> TRUE]
      /\ history' = history /\ asking' = asking /\ asof' = asof /\ setbacks' = setbacks
      /\ ahead' = ahead /\ warmed' = warmed /\ warming' = warming /\ loop' = loop
      /\ window' = window /\ troubles' = troubles
  BY DEF NextCandle, Opens, warmth, forecasts
<1>3. /\ n \in Nat /\ n <= MaxBars /\ cur \in Candles /\ cur.t \in Int /\ w \in Int
      /\ Context \in Nat /\ MaxBars \in Nat /\ 0 < Context /\ Context <= MaxBars
      /\ \A k \in 1 .. n : bars[k] \in Candles /\ bars[k].t \in Int
      /\ (bars # <<>> <=> n > 0)
  BY <1>1, <1>2, CandleFacts
<1>4. cur' \in Candles /\ cur' # NoCandle /\ cur'.t = w /\ cur'.whole
  <2>1. cur' \in [t : Int, whole : BOOLEAN]
    BY <1>2, <1>3
  <2> QED
    BY <1>2, <1>3, <2>1, CandleConstants DEF Candles
<1>5. s \in Seq(Candles) /\ Len(s) = n + 1 /\ (\A k \in 1 .. n : s[k] = bars[k]) /\ s[n + 1] = cur
  <2>1. bars \in Seq(Candles)
    BY <1>1 DEF CandleShape, CandleTypeOK
  <2> QED
    BY <1>3, <2>1
<1> HIDE DEF s
<1>6. bars' \in Seq(Candles) /\ \E d \in Nat : Drops(s, bars', d)
  BY <1>2, <1>5, NewestKeeps
<1>7. PICK d \in Nat : Drops(s, bars', d)
  BY <1>6
<1>8. m \in Nat /\ m = n + 1 - d /\ m <= MaxBars /\ m > 0 /\ m >= n
  BY <1>3, <1>5, <1>7 DEF Drops
<1>9. bars'[m] = cur
  <2>1. m \in 1 .. m /\ m + d = n + 1
    BY <1>3, <1>8
  <2> QED
    BY <1>5, <1>7, <2>1 DEF Drops
<1>10. ASSUME NEW k \in 1 .. m, k # m
       PROVE  k + d \in 1 .. n /\ bars'[k] = bars[k + d]
  <2>1. k + d \in 1 .. n
    BY <1>3, <1>8, <1>10
  <2> QED
    BY <1>5, <1>7, <2>1 DEF Drops
<1>11. bars' # <<>> /\ Behind'
  BY <1>2, <1>4, <1>6, <1>8, <1>9 DEF Behind
<1> HIDE DEF n, m
<1>12. CandleShape'
  <2>1. /\ window' \in 0 .. MaxWindow /\ troubles' \in 0 .. MaxTroubles
        /\ loop' \in {"sleep", "fetch", "seed", "model"}
        /\ (loop' \in {"fetch", "seed"} => warming') /\ (warmed' => ~warming')
        /\ history' \subseteq Candles /\ (history' # {} => loop' = "seed")
        /\ {asking', asof'} \subseteq Windows \cup {NoWindow}
        /\ (asking' # NoWindow) = (loop' = "model")
    BY <1>1, <1>2 DEF CandleShape, CandleTypeOK
  <2>2. loop' = "model" => Len(bars') >= Context
    <3>1. loop = "model" => n >= Context
      BY <1>1 DEF CandleShape, CandleTypeOK, n
    <3> QED
      BY <1>2, <1>3, <1>8, <3>1 DEF m
  <2>3. CandleTypeOK'
    BY <1>4, <1>6, <1>8, <2>1, <2>2 DEF CandleTypeOK, Live, m
  <2> QED
    BY <1>1, <1>2, <1>4, <2>3 DEF CandleShape, Live
<1>13. Seam'
  <2>1. CASE ~ahead
    <3>1. /\ \A k \in 1 .. n : bars[k].t < cur.t
          /\ \A k, l \in 1 .. n : k < l => bars[k].t < bars[l].t
      BY <1>1, <2>1 DEF Seam, n
    <3>2. ASSUME NEW k \in 1 .. m
          PROVE  bars'[k].t < w
      <4>1. CASE k = m
        BY <1>2, <1>9, <4>1
      <4>2. CASE k # m
        BY <1>2, <1>3, <1>10, <3>1, <4>2
      <4> QED
        BY <4>1, <4>2
    <3>3. ASSUME NEW k \in 1 .. m, NEW l \in 1 .. m, k < l
          PROVE  bars'[k].t < bars'[l].t
      <4>1. k # m /\ k + d \in 1 .. n /\ bars'[k] = bars[k + d]
        BY <1>8, <1>10, <3>3
      <4>2. CASE l = m
        BY <1>9, <3>1, <4>1, <4>2
      <4>3. CASE l # m
        <5>1. l + d \in 1 .. n /\ bars'[l] = bars[l + d] /\ k + d < l + d
          BY <1>8, <1>10, <3>3, <4>3
        <5> QED
          BY <3>1, <4>1, <5>1
      <4> QED
        BY <4>2, <4>3
    <3>4. Descents' = {}
      <4>1. ASSUME NEW k \in 1 .. m - 1
            PROVE  ~(bars'[k].t >= bars'[k + 1].t)
        <5>1. k \in 1 .. m /\ k + 1 \in 1 .. m /\ k < k + 1
          BY <1>8
        <5>2. bars'[k].t < bars'[k + 1].t
          BY <3>3, <5>1
        <5>3. bars'[k].t \in Int /\ bars'[k + 1].t \in Int
          BY <1>3, <1>9, <1>10, <5>1
        <5> QED
          BY <5>2, <5>3
      <4> QED
        BY <4>1 DEF Descents, m
    <3> QED
      BY <1>2, <3>2, <3>3, <3>4 DEF Seam, m
  <2>2. CASE ahead
    <3>1. ASSUME NEW k \in Descents'
          PROVE  /\ k \in Int
                 /\ \/ k + d \in Descents
                    \/ k + d = n /\ ~Behind
      <4>1. k \in 1 .. m - 1 /\ bars'[k].t >= bars'[k + 1].t
        BY <3>1 DEF Descents, m
      <4>2. k \in 1 .. m /\ k # m /\ k + d \in 1 .. n /\ bars'[k] = bars[k + d]
        BY <1>8, <1>10, <4>1
      <4>3. CASE k + 1 = m
        <5>1. bars'[k + 1] = cur /\ k + d = n
          BY <1>3, <1>8, <1>9, <4>1, <4>3
        <5>2. bars[n].t >= cur.t /\ bars[n].t \in Int
          BY <1>3, <4>1, <4>2, <5>1
        <5>3. bars # <<>>
          BY <1>3, <4>2
        <5> QED
          BY <1>3, <4>2, <5>1, <5>2, <5>3 DEF Behind, n
      <4>4. CASE k + 1 # m
        <5>1. k + 1 \in 1 .. m /\ k + d \in 1 .. n - 1 /\ (k + 1) + d = (k + d) + 1
          BY <1>3, <1>8, <4>1, <4>4
        <5>2. bars'[k + 1] = bars[(k + d) + 1]
          BY <1>10, <4>4, <5>1
        <5>3. bars[k + d].t >= bars[(k + d) + 1].t
          BY <4>1, <4>2, <5>2
        <5> QED
          BY <4>2, <5>1, <5>3 DEF Descents, n
      <4> QED
        BY <4>3, <4>4
    <3>2. ASSUME NEW k \in Descents', NEW l \in Descents'
          PROVE  k = l
      <4>1. k + d = l + d
        <5>1. \A i, j \in Descents : i = j
          BY <1>1 DEF Seam
        <5>2. Descents # {} => Behind
          BY <1>1 DEF Seam
        <5>3. k + d \in Descents \/ (k + d = n /\ ~Behind)
          BY <3>1
        <5>4. l + d \in Descents \/ (l + d = n /\ ~Behind)
          BY <3>1
        <5> QED
          BY <5>1, <5>2, <5>3, <5>4
      <4>2. k \in Int /\ l \in Int
        BY <3>1
      <4> HIDE DEF m
      <4> QED
        BY <4>1, <4>2
    <3> QED
      BY <1>2, <1>11, <2>2, <3>2 DEF Seam
  <2> QED
    BY <2>1, <2>2
<1>14. Partials'
  <2>1. PICK f \in Int, g \in Int : PartialsAt(f, g)
    BY <1>1 DEF Partials
  <2>2. ASSUME NEW k \in 1 .. m
        PROVE  bars'[k].whole \/ bars'[k].t = f \/ (warmed' /\ bars'[k].t = g)
    <3>1. CASE k = m
      BY <1>2, <1>9, <2>1, <3>1 DEF PartialsAt
    <3>2. CASE k # m
      BY <1>2, <1>10, <2>1, <3>2 DEF PartialsAt, n
    <3> QED
      BY <3>1, <3>2
  <2>3. PartialsAt(f, g)'
    BY <1>2, <1>4, <2>1, <2>2 DEF PartialsAt, m
  <2> QED
    BY <2>3 DEF Partials
<1>15. Forecasted'
  <2> DEFINE old == bars[n].t
  <2>1. bars'[m].t = cur.t
    BY <1>9
  <2>2. m < Context => asof = NoWindow /\ asking = NoWindow
    <3>1. m < Context => n < Context
      BY <1>3, <1>8
    <3> QED
      BY <1>1, <3>1 DEF Forecasted, n
  <2>3. /\ loop \in {"fetch", "seed"} => asof = NoWindow
        /\ asof = NoWindow => setbacks = 0
        /\ setbacks \in {0, 1} /\ (setbacks = 1 => ahead /\ Behind)
        /\ (~ahead \/ setbacks = 1) => Onward(old)
        /\ asking # NoWindow => asof = NoWindow \/ (Behind /\ asking <= old)
    BY <1>1 DEF Forecasted, n
  <2>4. n = 0 => asof = NoWindow /\ asking = NoWindow
    BY <1>1, <1>3 DEF Forecasted, n
  <2>5. /\ n > 0 => old \in Int
        /\ asof # NoWindow => asof \in Int
        /\ asking # NoWindow => asking \in Int
    <3>1. {asking, asof} \subseteq Windows \cup {NoWindow} /\ \A v \in Windows : v \in Int
      BY <1>1, CandleFacts DEF CandleShape, CandleTypeOK
    <3>2. n > 0 => n \in 1 .. n
      BY <1>3
    <3> QED
      BY <1>3, <3>1, <3>2
  <2>6. (n > 0 /\ Behind) => old < cur.t
    BY <1>3 DEF Behind, n
  <2>7. ~ahead => (n > 0 => Behind)
    <3>1. n > 0 => n \in 1 .. n
      BY <1>3
    <3> QED
      BY <1>1, <3>1 DEF Seam, Behind, n
  <2> HIDE DEF old
  <2>8. (~ahead \/ setbacks = 1) => Onward(cur.t)
    BY <1>3, <2>3, <2>4, <2>5, <2>6, <2>7 DEF Onward
  <2>9. asking # NoWindow => asof = NoWindow \/ asking <= cur.t
    BY <1>3, <2>3, <2>4, <2>5, <2>6
  <2>10. Onward(cur.t) => Onward(bars[Len(bars)].t)'
    BY <1>2, <2>1 DEF Onward, m
  <2> QED
    BY <1>2, <1>11, <2>1, <2>2, <2>3, <2>8, <2>9, <2>10 DEF Forecasted, m
<1> QED
  BY <1>12, <1>13, <1>14, <1>15 DEF CandleInv

\* The history has one candle of each window.
LEMMA HistoryCandles ==
    ASSUME NEW last
    PROVE  /\ History(last) \subseteq Candles /\ IsFiniteSet(History(last))
           /\ \A b, c \in History(last) : b.t = c.t => b = c
<1> DEFINE W == {w \in Windows : w \in last - WarmupCount + 1 .. last}
           f == [w \in W |-> [t |-> w, whole |-> w < window]]
<1>1. History(last) = {f[w] : w \in W}
  BY DEF History
<1>2. IsFiniteSet(W)
  <2>1. IsFiniteSet(Windows)
    BY FS_Interval, CandleConstants DEF Windows
  <2>2. W \in SUBSET Windows
    OBVIOUS
  <2> HIDE DEF W
  <2> QED
    BY <2>1, <2>2, FS_Subset
<1>3. \A w \in W : f[w] \in Candles /\ f[w].t = w /\ f[w].whole = (w < window) /\ w \in Int
  BY DEF Candles, Windows
<1>4. f \in Surjection(W, History(last))
  BY <1>1 DEF Surjection
<1> HIDE DEF f, W
<1>5. IsFiniteSet(History(last))
  BY <1>2, <1>4, FS_Surjection
<1> QED
  BY <1>1, <1>3, <1>5

\* What was fetched is seeded: the windows the buffer has not, sorted in.
LEMMA SeedStep ==
    ASSUME CandleInv, Seed
    PROVE  CandleInv'
<1> DEFINE n == Len(bars)
           m == Len(bars')
           new == {c \in history : c.t \notin Existing}
           all == new \cup {bars[k] : k \in DOMAIN bars}
           B == ByWindow(all)
<1>1. CandleShape /\ Seam /\ Partials /\ Forecasted
  BY DEF CandleInv
<1>2. /\ loop = "seed" /\ loop' = "sleep" /\ bars' = Newest(B) /\ ahead' = (\E c \in new : c.t > cur.t)
      /\ warmed' = TRUE /\ warming' = FALSE /\ history' = {} /\ window' = window /\ cur' = cur
      /\ asking' = asking /\ asof' = asof /\ setbacks' = setbacks /\ troubles' = troubles
  BY DEF Seed, forecasts
<1>3. ~ahead /\ Live /\ asking = NoWindow /\ asof = NoWindow /\ setbacks = 0
  <2>1. ~ahead /\ Live /\ asking = NoWindow
    BY <1>1, <1>2 DEF CandleShape, CandleTypeOK
  <2> QED
    BY <1>1, <1>2, <2>1 DEF Forecasted
<1>4. /\ n \in Nat /\ DOMAIN bars = 1 .. n /\ cur \in Candles /\ cur.t \in Int
      /\ \A k \in 1 .. n : bars[k] \in Candles /\ bars[k].t \in Int
      /\ Context \in Nat /\ MaxBars \in Nat
  BY <1>1, <1>3, CandleFacts
<1>5. /\ \A k \in 1 .. n : bars[k].t < cur.t
      /\ \A k, l \in 1 .. n : k < l => bars[k].t < bars[l].t
  BY <1>1, <1>3 DEF Seam
<1>6. /\ history \subseteq Candles /\ IsFiniteSet(history)
      /\ \A b, c \in history : b.t = c.t => b = c
  BY <1>1 DEF CandleShape, CandleTypeOK
<1>7. all \subseteq Candles /\ \A c \in all : c.t \in Int
  BY <1>4, <1>6 DEF Candles, Windows
<1>8. IsFiniteSet(all)
  <2>1. IsFiniteSet(new)
    BY <1>6, FS_Subset
  <2>2. IsFiniteSet({bars[k] : k \in DOMAIN bars})
    <3> DEFINE Held == {bars[k] : k \in 1 .. n}
               f == [k \in 1 .. n |-> bars[k]]
    <3>1. f \in Surjection(1 .. n, Held)
      BY DEF Surjection
    <3>2. IsFiniteSet(1 .. n)
      BY <1>4, FS_Interval
    <3> HIDE DEF Held, f
    <3>3. IsFiniteSet(Held)
      BY <3>1, <3>2, FS_Surjection
    <3> QED
      BY <1>4, <3>3 DEF Held
  <2> HIDE DEF new
  <2> QED
    BY <2>1, <2>2, FS_Union
<1>9. ASSUME NEW b \in all, NEW c \in all, b.t = c.t
      PROVE  b = c
  <2>1. CASE b \in new /\ c \in new
    BY <1>6, <1>9, <2>1
  <2>2. \A k \in 1 .. n : \A v \in new : bars[k].t # v.t
    BY <1>4 DEF Existing
  <2>3. CASE b \notin new /\ c \notin new
    <3>1. PICK k \in 1 .. n : b = bars[k]
      BY <1>4, <2>3
    <3>2. PICK l \in 1 .. n : c = bars[l]
      BY <1>4, <2>3
    <3>3. k \in Int /\ l \in Int /\ bars[k].t = bars[l].t /\ bars[k].t \in Int
      BY <1>4, <1>9, <3>1, <3>2
    <3>4. ~(k < l) /\ ~(l < k)
      BY <1>5, <3>3
    <3>5. k = l
      BY <3>3, <3>4
    <3> QED
      BY <3>1, <3>2, <3>5
  <2>4. CASE b \in new /\ c \notin new
    BY <1>4, <1>9, <2>2, <2>4
  <2>5. CASE b \notin new /\ c \in new
    BY <1>4, <1>9, <2>2, <2>5
  <2> QED
    BY <2>1, <2>3, <2>4, <2>5
<1>10. /\ B \in Seq(all)
       /\ \A k, l \in 1 .. Len(B) : k < l => B[k].t < B[l].t
  <2> HIDE DEF all
  <2> QED
    BY <1>7, <1>8, <1>9, ByWindowAscends
<1> HIDE DEF B
<1>11. bars' \in Seq(all) /\ \E d \in Nat : Drops(B, bars', d)
  <2> HIDE DEF all
  <2> QED
    BY <1>2, <1>10, NewestKeeps
<1>12. PICK d \in Nat : Drops(B, bars', d)
  BY <1>11
<1>13. m \in Nat /\ m <= MaxBars
  BY <1>12 DEF Drops
<1>14. \A k \in 1 .. m : bars'[k] \in all
  <2> HIDE DEF all
  <2> QED
    BY <1>11
<1>15. ASSUME NEW k \in 1 .. m, NEW l \in 1 .. m, k < l
       PROVE  bars'[k].t < bars'[l].t
  <2>1. /\ k + d \in 1 .. Len(B) /\ bars'[k] = B[k + d]
        /\ l + d \in 1 .. Len(B) /\ bars'[l] = B[l + d]
    BY <1>12 DEF Drops
  <2>2. k + d < l + d
    BY <1>13, <1>15
  <2> QED
    BY <1>10, <2>1, <2>2
<1>16. bars' \in Seq(Candles)
  <2> HIDE DEF all
  <2> QED
    BY <1>7, <1>11
<1> HIDE DEF m
<1>17. CandleShape'
  <2>1. CandleTypeOK'
    BY <1>1, <1>2, <1>3, <1>13, <1>16 DEF CandleShape, CandleTypeOK, Live, m
  <2>2. IsFiniteSet(history')
    BY <1>2, FS_EmptySet
  <2> QED
    BY <1>2, <1>3, <2>1, <2>2 DEF CandleShape, Live
<1>18. Seam'
  <2>1. Descents' = {}
    <3>1. ASSUME NEW k \in 1 .. m - 1
          PROVE  ~(bars'[k].t >= bars'[k + 1].t)
      <4>1. k \in 1 .. m /\ k + 1 \in 1 .. m /\ k < k + 1
        BY <1>13, <3>1 DEF m
      <4>2. bars'[k].t < bars'[k + 1].t
        BY <1>15, <4>1
      <4>3. bars'[k].t \in Int /\ bars'[k + 1].t \in Int
        BY <1>7, <1>14, <4>1
      <4> QED
        BY <4>2, <4>3
    <3> QED
      BY <3>1 DEF Descents, m
  <2>2. ASSUME ~ahead', NEW k \in 1 .. m
        PROVE  bars'[k].t < cur.t
    <3>1. bars'[k] \in all /\ bars'[k].t \in Int
      BY <1>7, <1>14
    <3>2. CASE bars'[k] \in new
      <4>1. ~(bars'[k].t > cur.t) /\ bars'[k].t # cur.t
        BY <1>2, <2>2, <3>2 DEF Existing
      <4> QED
        BY <1>4, <3>1, <4>1
    <3>3. CASE bars'[k] \notin new
      BY <1>4, <1>5, <3>1, <3>3
    <3> QED
      BY <3>2, <3>3
  <2> QED
    BY <1>2, <1>15, <2>1, <2>2 DEF Seam, m
<1>19. Partials'
  <2>1. PICK f \in Int, g \in Int : PartialsAt(f, g)
    BY <1>1 DEF Partials
  <2>2. ASSUME NEW k \in 1 .. m
        PROVE  bars'[k].whole \/ bars'[k].t = f \/ bars'[k].t = g
    <3>1. bars'[k] \in history \/ \E l \in 1 .. n : bars'[k] = bars[l]
      BY <1>4, <1>14
    <3> QED
      BY <2>1, <3>1 DEF PartialsAt
  <2>3. PartialsAt(f, g)'
    BY <1>2, <1>3, <2>1, <2>2 DEF PartialsAt, Live, m
  <2> QED
    BY <2>3 DEF Partials
<1>20. Forecasted'
  BY <1>2, <1>3 DEF Forecasted, Onward
<1> QED
  BY <1>17, <1>18, <1>19, <1>20 DEF CandleInv

\* Every other step leaves the candles alone, or loses them all.
LEMMA LoopSteps ==
    ASSUME CandleInv, StartFetch \/ FetchAnswered \/ FetchFails \/ TimePasses
    PROVE  CandleInv'
<1>1. CandleShape /\ Seam /\ Partials /\ Forecasted
  BY DEF CandleInv
<1>2. /\ bars' = bars /\ cur' = cur /\ warmed' = warmed /\ ahead' = ahead
      /\ asking' = asking /\ asof' = asof /\ setbacks' = setbacks
  BY DEF StartFetch, FetchAnswered, FetchFails, TimePasses, buffer, warmth, forecasts
<1>3. Seam' /\ Behind' = Behind
  <2>1. Descents' = Descents /\ Behind' = Behind
    BY <1>2 DEF Descents, Behind
  <2> QED
    BY <1>1, <1>2, <2>1 DEF Seam
<1>4. CandleTypeOK /\ warmed \in BOOLEAN /\ (loop # "sleep" => Live)
  BY <1>1 DEF CandleShape
<1>5. IsFiniteSet({})
  BY FS_EmptySet
<1>6. CASE StartFetch
  <2>1. /\ loop = "sleep" /\ loop' = "fetch" /\ Short /\ warming' = TRUE /\ Live /\ ~warmed
        /\ history' = history /\ window' = window /\ troubles' = troubles
    BY <1>6 DEF StartFetch
  <2>2. CandleTypeOK'
    BY <1>2, <1>4, <2>1 DEF CandleTypeOK, Live
  <2>3. CandleShape'
    BY <1>1, <1>2, <2>1, <2>2 DEF CandleShape, Live
  <2>4. Partials'
    BY <1>1, <1>2, <2>1 DEF Partials, PartialsAt, Live
  <2>5. Forecasted'
    BY <1>1, <1>2, <1>3, <2>1 DEF Forecasted, Onward, Short
  <2> QED
    BY <1>3, <2>3, <2>4, <2>5 DEF CandleInv
<1>7. CASE FetchAnswered
  <2>1. PICK last \in {window - 1, window} : history' = History(last)
    BY <1>7 DEF FetchAnswered
  <2>2. /\ loop = "fetch" /\ loop' = "seed" /\ warming' = warming /\ window' = window
        /\ troubles' = troubles
    BY <1>7 DEF FetchAnswered
  <2>3. /\ history' \subseteq Candles /\ IsFiniteSet(history')
        /\ \A b, c \in history' : b.t = c.t => b = c
    BY <2>1, HistoryCandles
  <2>4. \A c \in history' : c.whole \/ c.t = window
    <3>1. last \in Int /\ window \in Int /\ last <= window /\ WarmupCount \in Int
      BY <1>4, <2>1, CandleConstants DEF CandleTypeOK
    <3>2. \A w \in last - WarmupCount + 1 .. last : w < window \/ w = window
      BY <3>1
    <3>3. ASSUME NEW c \in History(last)
          PROVE  c.whole \/ c.t = window
      <4>1. PICK w \in last - WarmupCount + 1 .. last : c = [t |-> w, whole |-> w < window]
        BY DEF History
      <4>2. c.t = w /\ c.whole = (w < window)
        BY <4>1
      <4> QED
        BY <3>2, <4>2
    <3> QED
      BY <2>1, <3>3
  <2>5. CandleTypeOK'
    BY <1>2, <1>4, <2>2, <2>3 DEF CandleTypeOK, Live
  <2>6. CandleShape'
    BY <1>1, <1>2, <2>2, <2>3, <2>5 DEF CandleShape, Live
  <2>7. Partials'
    <3>1. PICK f \in Int, g \in Int : PartialsAt(f, g)
      BY <1>1 DEF Partials
    <3>2. ~warmed /\ window \in Int
      BY <1>4, <2>2 DEF CandleTypeOK
    <3>3. PartialsAt(f, window)'
      BY <1>2, <2>2, <2>4, <3>1, <3>2 DEF PartialsAt, Live
    <3> QED
      BY <2>2, <3>2, <3>3 DEF Partials
  <2>8. Forecasted'
    BY <1>1, <1>2, <1>3, <2>2 DEF Forecasted, Onward
  <2> QED
    BY <1>3, <2>6, <2>7, <2>8 DEF CandleInv
<1>8. CASE FetchFails
  <2>1. /\ loop = "fetch" /\ loop' = "sleep" /\ warming' = FALSE /\ window' = window
        /\ troubles < MaxTroubles /\ troubles' = troubles + 1 /\ history' = history
    BY <1>8 DEF FetchFails
  <2>2. history = {} /\ ~warmed
    BY <1>4, <2>1 DEF CandleTypeOK
  <2>3. troubles' \in 0 .. MaxTroubles
    BY <1>4, <2>1, CandleConstants DEF CandleTypeOK
  <2>4. CandleTypeOK'
    BY <1>2, <1>4, <2>1, <2>2, <2>3 DEF CandleTypeOK, Live
  <2>5. CandleShape'
    BY <1>1, <1>2, <2>1, <2>4 DEF CandleShape, Live
  <2>6. Partials'
    <3>1. PICK f \in Int, g \in Int : PartialsAt(f, g)
      BY <1>1 DEF Partials
    <3>2. PartialsAt(f, g)'
      BY <1>2, <2>1, <3>1 DEF PartialsAt, Live
    <3> QED
      BY <3>2 DEF Partials
  <2>7. Forecasted'
    BY <1>1, <1>2, <1>3, <2>1 DEF Forecasted, Onward
  <2> QED
    BY <1>3, <2>5, <2>6, <2>7 DEF CandleInv
<1>9. CASE TimePasses
  <2>1. /\ window < MaxWindow /\ window' = window + 1 /\ loop' = loop /\ warming' = warming
        /\ history' = history /\ troubles' = troubles
    BY <1>9 DEF TimePasses, warmth
  <2>2. window' \in 0 .. MaxWindow
    BY <1>4, <2>1, CandleConstants DEF CandleTypeOK
  <2>3. CandleTypeOK'
    BY <1>2, <1>4, <2>1, <2>2 DEF CandleTypeOK, Live
  <2>4. CandleShape'
    BY <1>1, <1>2, <2>1, <2>3 DEF CandleShape, Live
  <2>5. Partials'
    <3>1. PICK f \in Int, g \in Int : PartialsAt(f, g)
      BY <1>1 DEF Partials
    <3>2. PartialsAt(f, g)'
      BY <1>2, <2>1, <3>1 DEF PartialsAt, Live
    <3> QED
      BY <3>2 DEF Partials
  <2>6. Forecasted'
    BY <1>1, <1>2, <1>3, <2>1 DEF Forecasted, Onward
  <2> QED
    BY <1>3, <2>4, <2>5, <2>6 DEF CandleInv
<1> QED
  BY <1>6, <1>7, <1>8, <1>9

LEMMA ModelSteps ==
    ASSUME CandleInv, AskModel \/ PublishForecast \/ ForecastFails
    PROVE  CandleInv'
<1> DEFINE newest == bars[Len(bars)].t
<1>1. CandleShape /\ Seam /\ Partials /\ Forecasted
  BY DEF CandleInv
<1>2. /\ bars' = bars /\ cur' = cur /\ warmed' = warmed /\ ahead' = ahead
      /\ warming' = warming /\ history' = history /\ window' = window
  BY DEF AskModel, PublishForecast, ForecastFails, buffer, warmth
<1>3. Seam' /\ Behind' = Behind
  <2>1. Descents' = Descents /\ Behind' = Behind
    BY <1>2 DEF Descents, Behind
  <2> QED
    BY <1>1, <1>2, <2>1 DEF Seam
<1>4. CandleTypeOK /\ (loop # "sleep" => Live)
  BY <1>1 DEF CandleShape
<1>5. Partials'
  <2>1. PICK f \in Int, g \in Int : PartialsAt(f, g)
    BY <1>1 DEF Partials
  <2>2. PartialsAt(f, g)'
    BY <1>2, <2>1 DEF PartialsAt, Live
  <2> QED
    BY <2>2 DEF Partials
<1>6. /\ Len(bars) \in Nat /\ Context \in Nat /\ 0 < Context
      /\ Len(bars) > 0 => newest \in Windows /\ newest \in Int /\ Live
      /\ NoWindow \notin Int /\ \A w \in Windows : w \in Int
  <2>1. Len(bars) > 0 => Len(bars) \in 1 .. Len(bars)
    BY <1>1, CandleFacts
  <2> QED
    BY <1>1, <2>1, CandleFacts
<1>7. /\ asking # NoWindow => asking \in Int /\ Len(bars) > 0
      /\ asof # NoWindow => asof \in Int /\ Len(bars) > 0
  <2>1. {asking, asof} \subseteq Windows \cup {NoWindow}
    BY <1>4 DEF CandleTypeOK
  <2>2. Len(bars) < Context => asof = NoWindow /\ asking = NoWindow
    BY <1>1 DEF Forecasted
  <2> QED
    BY <1>6, <2>1, <2>2
<1>8. ~ahead /\ Len(bars) > 0 => Behind
  <2>1. Len(bars) > 0 => Len(bars) \in 1 .. Len(bars)
    BY <1>6
  <2> QED
    BY <1>1, <2>1 DEF Seam, Behind
<1>9. /\ Len(bars) < Context => asof = NoWindow /\ asking = NoWindow
      /\ loop \in {"fetch", "seed"} => asof = NoWindow
      /\ asof = NoWindow => setbacks = 0
      /\ setbacks \in {0, 1} /\ (setbacks = 1 => ahead /\ Behind)
      /\ (~ahead \/ setbacks = 1) => Onward(newest)
      /\ asking # NoWindow => asof = NoWindow \/ (Behind /\ asking <= newest)
      /\ ~Behind => {asof, asking} \subseteq {NoWindow, newest}
  BY <1>1 DEF Forecasted
<1>10. CASE AskModel
  <2>1. /\ loop = "sleep" /\ loop' = "model" /\ Len(bars) >= Context /\ newest # asof
        /\ asking' = newest /\ asof' = asof /\ setbacks' = setbacks /\ troubles' = troubles
    BY <1>6, <1>10 DEF AskModel, NotForecast, Short, Last
  <2>2. Len(bars) > 0 /\ newest \in Windows /\ newest \in Int /\ newest # NoWindow /\ Live
    BY <1>6, <2>1
  <2> HIDE DEF newest
  <2>3. history = {}
    BY <1>4, <2>1 DEF CandleTypeOK
  <2>4. CandleTypeOK'
    BY <1>2, <1>4, <2>1, <2>2, <2>3 DEF CandleTypeOK, Live
  <2>5. CandleShape'
    BY <1>1, <1>2, <2>1, <2>2, <2>4 DEF CandleShape, Live
  <2>6. /\ (~ahead \/ setbacks = 1) => (asof # NoWindow => asof < newest)
        /\ asof = NoWindow \/ Behind
    BY <1>7, <1>9, <2>1, <2>2 DEF Onward
  <2>7. /\ newest <= newest /\ ~(Len(bars) < Context)
        /\ asof # NoWindow => asof <= newest \/ ~(~ahead \/ setbacks = 1)
    BY <1>6, <1>7, <1>9, <2>1, <2>2 DEF Onward
  <2>8. (~ahead \/ setbacks = 1) => Onward(newest)'
    BY <1>2, <2>1, <2>6, <2>7 DEF Onward, newest
  <2>9. Forecasted'
    BY <1>2, <1>3, <1>9, <2>1, <2>2, <2>6, <2>7, <2>8 DEF Forecasted, newest
  <2> QED
    BY <1>3, <1>5, <2>5, <2>9 DEF CandleInv
<1>11. CASE PublishForecast
  <2>1. /\ loop = "model" /\ loop' = "sleep" /\ asof' = asking /\ asking' = NoWindow
        /\ setbacks' = IF asof # NoWindow /\ asking <= asof THEN setbacks + 1 ELSE setbacks
        /\ troubles' = troubles
    BY <1>11 DEF PublishForecast
  <2>2. asking # NoWindow /\ asking \in Windows /\ Len(bars) >= Context /\ history = {}
    BY <1>4, <2>1 DEF CandleTypeOK
  <2>3. CandleTypeOK'
    BY <1>2, <1>4, <2>1, <2>2 DEF CandleTypeOK, Live
  <2>4. CandleShape'
    BY <1>1, <1>2, <2>1, <2>3 DEF CandleShape, Live
  <2>5. Len(bars) > 0 /\ asking \in Int /\ newest \in Int /\ (asof # NoWindow => asof \in Int)
        /\ ~(Len(bars) < Context)
    BY <1>6, <1>7, <2>2
  <2> HIDE DEF newest
  <2>6. ~ahead => Behind
    BY <1>8, <2>5
  <2>7. CASE asof # NoWindow /\ asking <= asof
    <3>1. Behind /\ asking <= newest
      BY <1>9, <2>2, <2>7
    <3>2. ahead /\ setbacks = 0
      BY <1>9, <2>2, <2>5, <2>7 DEF Onward
    <3>3. setbacks' = 1 /\ Onward(newest)'
      BY <1>2, <2>1, <2>7, <3>1, <3>2 DEF Onward, newest
    <3> QED
      BY <1>2, <1>3, <1>5, <2>1, <2>2, <2>4, <2>5, <3>1, <3>2, <3>3 DEF CandleInv, Forecasted, newest
  <2>8. CASE ~(asof # NoWindow /\ asking <= asof)
    <3>1. setbacks' = setbacks
      BY <2>1, <2>8
    <3>2. (~ahead \/ setbacks = 1) => Onward(newest)'
      BY <1>2, <1>9, <2>1, <2>2 DEF Onward, newest
    <3>3. ~Behind => asking = newest
      BY <1>9, <2>2
    <3> QED
      BY <1>2, <1>3, <1>5, <1>9, <2>1, <2>2, <2>4, <2>5, <3>1, <3>2, <3>3
      DEF CandleInv, Forecasted, newest
  <2> QED
    BY <2>7, <2>8
<1>12. CASE ForecastFails
  <2>1. /\ loop = "model" /\ loop' = "sleep" /\ asking' = NoWindow /\ asof' = asof
        /\ setbacks' = setbacks /\ troubles < MaxTroubles /\ troubles' = troubles + 1
    BY <1>12 DEF ForecastFails
  <2>2. troubles' \in 0 .. MaxTroubles /\ history = {}
    BY <1>4, <2>1, CandleConstants DEF CandleTypeOK
  <2>3. CandleTypeOK'
    BY <1>2, <1>4, <2>1, <2>2 DEF CandleTypeOK, Live
  <2>4. CandleShape'
    BY <1>1, <1>2, <2>1, <2>3 DEF CandleShape, Live
  <2>5. (~ahead \/ setbacks = 1) => Onward(newest)'
    BY <1>2, <1>9, <2>1 DEF Onward
  <2> HIDE DEF newest
  <2>6. Forecasted'
    BY <1>2, <1>3, <1>9, <2>1, <2>5 DEF Forecasted, newest
  <2> QED
    BY <1>3, <1>5, <2>4, <2>6 DEF CandleInv
<1> QED
  BY <1>10, <1>11, <1>12

LEMMA FeedRestartStep ==
    ASSUME CandleInv, FeedRestarts
    PROVE  CandleInv'
<1>1. /\ bars' = <<>> /\ Len(bars') = 0 /\ history' = {} /\ cur' = NoCandle /\ loop' = "sleep"
      /\ warmed' = FALSE /\ warming' = FALSE /\ ahead' = FALSE
      /\ asking' = NoWindow /\ asof' = NoWindow /\ setbacks' = 0 /\ window' = window
      /\ troubles < MaxTroubles /\ troubles' = troubles + 1
  BY DEF FeedRestarts
<1>2. bars' \in Seq(Candles)
  BY <1>1
<1>3. CandleTypeOK
  BY DEF CandleInv, CandleShape
<1>4. troubles' \in 0 .. MaxTroubles
  BY <1>1, <1>3, CandleConstants DEF CandleTypeOK
<1>5. CandleTypeOK'
  BY <1>1, <1>2, <1>3, <1>4, CandleConstants DEF CandleTypeOK
<1>6. IsFiniteSet(history')
  BY <1>1, FS_EmptySet
<1>7. CandleShape'
  BY <1>1, <1>5, <1>6 DEF CandleShape
<1>8. Descents' = {}
  BY <1>1 DEF Descents
<1>9. Seam'
  BY <1>1, <1>8 DEF Seam
<1>10. PartialsAt(0, 0)'
  BY <1>1 DEF PartialsAt, Live
<1>11. Forecasted'
  BY <1>1 DEF Forecasted, Behind, Onward
<1> QED
  BY <1>7, <1>9, <1>10, <1>11 DEF CandleInv, Partials

LEMMA CandleStepInv == CandleInv /\ [CandleNext]_candleVars => CandleInv'
<1>1. ASSUME CandleInv, UNCHANGED candleVars
      PROVE  CandleInv'
  <2>1. /\ bars' = bars /\ cur' = cur /\ loop' = loop /\ warmed' = warmed /\ ahead' = ahead
        /\ warming' = warming /\ history' = history /\ window' = window /\ troubles' = troubles
        /\ asking' = asking /\ asof' = asof /\ setbacks' = setbacks
    BY <1>1 DEF candleVars, buffer, warmth, forecasts
  <2>2. CandleShape /\ Seam /\ Partials /\ Forecasted
    BY <1>1 DEF CandleInv
  <2>3. CandleShape'
    BY <2>1, <2>2 DEF CandleShape, CandleTypeOK, Live
  <2>4. Descents' = Descents /\ Behind' = Behind
    BY <2>1 DEF Descents, Behind
  <2>5. Seam'
    BY <2>1, <2>2, <2>4 DEF Seam
  <2>6. Partials'
    <3>1. PICK f \in Int, g \in Int : PartialsAt(f, g)
      BY <2>2 DEF Partials
    <3>2. PartialsAt(f, g)'
      BY <2>1, <3>1 DEF PartialsAt, Live
    <3> QED
      BY <3>2 DEF Partials
  <2>7. Forecasted'
    BY <2>1, <2>2, <2>4 DEF Forecasted, Onward
  <2> QED
    BY <2>3, <2>5, <2>6, <2>7 DEF CandleInv
<1> QED
  BY <1>1, FirstTickStep, NextCandleStep, SeedStep, LoopSteps, ModelSteps, FeedRestartStep
  DEF CandleNext, LoopStep

LEMMA CandleAlways == CandleSpec => []CandleInv
  BY CandleInitInv, CandleStepInv, PTL DEF CandleSpec

\* The feed's variables keep their types: the buffer is never longer than its
\* deque, and the loop forecasts only from a buffer as long as the context.
THEOREM CandleTypeCorrect == CandleSpec => []CandleTypeOK
<1>1. CandleInv => CandleTypeOK
  BY DEF CandleInv, CandleShape
<1> QED
  BY <1>1, CandleAlways, PTL

\* Whatever ticks come while the history is fetched and however often the model fails:
\* the bars ascend over the seam and no forecast goes back, but once if the history was
\* ahead of the live candle; and at most two bars are partial.
THEOREM TimeDoesRunForward == CandleSpec => []TimeRunsForward
<1>1. ASSUME CandleInv
      PROVE  TimeRunsForward
  <2>1. CandleShape /\ Seam /\ Partials /\ Forecasted
    BY <1>1 DEF CandleInv
  <2>2. Len(bars) \in Nat /\ DOMAIN bars = 1 .. Len(bars)
    BY <2>1, CandleFacts
  <2>3. ~ahead => Descents = {} /\ \A k \in DOMAIN bars : bars[k].t < cur.t
    <3> SUFFICES ASSUME ~ahead
                 PROVE  Descents = {} /\ \A k \in DOMAIN bars : bars[k].t < cur.t
      OBVIOUS
    <3>1. ASSUME NEW k \in 1 .. Len(bars) - 1
          PROVE  ~(bars[k].t >= bars[k + 1].t)
      <4>1. k \in 1 .. Len(bars) /\ k + 1 \in 1 .. Len(bars) /\ k < k + 1
        BY <2>2
      <4>2. bars[k].t < bars[k + 1].t
        BY <2>1, <4>1 DEF Seam
      <4>3. bars[k].t \in Int /\ bars[k + 1].t \in Int
        BY <2>1, <4>1, CandleFacts
      <4> QED
        BY <4>2, <4>3
    <3> QED
      BY <2>1, <2>2, <3>1 DEF Seam, Descents
  <2>4. Cardinality(Descents) <= 1
    <3>1. \A k, l \in Descents : k = l
      BY <2>1 DEF Seam
    <3>2. CASE Descents = {}
      BY <3>2, FS_EmptySet
    <3>3. CASE Descents # {}
      <4>1. PICK k \in Descents : TRUE
        BY <3>3
      <4>2. Descents = {k}
        BY <3>1
      <4>3. Cardinality({k}) = 1
        BY FS_Singleton
      <4> QED
        BY <4>2, <4>3
    <3> QED
      BY <3>2, <3>3
  <2>5. Cardinality(Partial) <= 2
    <3>1. PICK f \in Int, g \in Int : PartialsAt(f, g)
      BY <2>1 DEF Partials
    <3>2. Partial \in SUBSET {f, g}
      BY <2>2, <3>1 DEF Partial, PartialsAt
    <3>3. IsFiniteSet({f, g}) /\ Cardinality({f, g}) <= 2
      <4>1. IsFiniteSet({f}) /\ Cardinality({f}) = 1
        BY FS_Singleton
      <4>2. {f} \cup {g} = {f, g}
        OBVIOUS
      <4>3. /\ IsFiniteSet({f} \cup {g})
            /\ Cardinality({f} \cup {g}) = IF g \in {f} THEN Cardinality({f}) ELSE Cardinality({f}) + 1
        BY <4>1, FS_AddElement
      <4> QED
        BY <4>1, <4>2, <4>3
    <3>4. Cardinality(Partial) <= Cardinality({f, g})
      BY <3>2, <3>3, FS_Subset
    <3>5. Cardinality(Partial) \in Nat /\ Cardinality({f, g}) \in Nat
      BY <3>2, <3>3, FS_Subset, FS_CardinalityType
    <3> QED
      BY <3>3, <3>4, <3>5
  <2>6. ForecastsAdvance
    BY <2>1 DEF CandleShape, Forecasted, ForecastsAdvance
  <2> QED
    BY <2>3, <2>4, <2>5, <2>6 DEF TimeRunsForward, SeamIsClean
<1> QED
  BY <1>1, CandleAlways, PTL

-----------------------------------------------------------------------------
(***************************************************************************)
(* The components beside each other, as they are checked.                  *)
(***************************************************************************)
LEMMA PartsRun == MCSpec => /\ CandleSpec /\ IsotonicSpec /\ CalibrationSpec
                            /\ SignalInit /\ [][SignalNext]_signalVars
                            /\ BacktestInit /\ [][BacktestNext]_backtestVars
<1>1. MCInit => CandleInit /\ IsotonicInit /\ CalibrationInit /\ SignalInit /\ BacktestInit
  BY DEF MCInit
<1>2. [MCNext]_mcVars => [CandleNext]_candleVars
  BY DEF MCNext, mcVars
<1>3. [MCNext]_mcVars => [IsotonicNext]_isotonicVars
  BY DEF MCNext, mcVars
<1>4. [MCNext]_mcVars => [CalibrationNext]_calibrationVars
  BY DEF MCNext, mcVars
<1>5. [MCNext]_mcVars => [SignalNext]_signalVars
  BY DEF MCNext, mcVars
<1>6. [MCNext]_mcVars => [BacktestNext]_backtestVars
  BY DEF MCNext, mcVars
<1> QED
  BY <1>1, <1>2, <1>3, <1>4, <1>5, <1>6, PTL DEF MCSpec, CandleSpec, IsotonicSpec, CalibrationSpec

\* The candle feed, the isotonic fit, the calibration, the signal gate and the
\* backtests keep their types, running beside each other.
THEOREM AllTypesCorrect == MCSpec => []TypesOK
<1>1. CandleSpec => []CandleTypeOK
  BY CandleTypeCorrect
<1>2. IsotonicSpec => []IsotonicTypeOK
  BY FitTypeCorrect
<1>3. CalibrationSpec => []CalibrationTypeOK
  BY CalibrationTypeCorrect
<1>4. SignalSpec => []SignalTypeOK
  BY SignalTypeCorrect
<1>5. BacktestSpec => []BacktestTypeOK
  BY BacktestTypeCorrect
<1> QED
  BY <1>1, <1>2, <1>3, <1>4, <1>5, PartsRun, PTL DEF TypesOK, SignalSpec, BacktestSpec
=============================================================================
