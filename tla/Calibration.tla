------------------------------ MODULE Calibration ------------------------------
(***************************************************************************)
(* The calibrator of one forecasting model (app/calibration.py): the daily *)
(* fit, the one active row, the cache in front of it, and the loop they    *)
(* close: a calibrated confidence is stored on the intent it admits, and   *)
(* the next fit reads the intents.                                         *)
(*                                                                         *)
(* Signals are handled one at a time.  calibrate awaits the row, and the   *)
(* fit awaits its queries: the two interleave there.  What a fit computes  *)
(* is in Isotonic.  Calibrator 0 is none at all: confidences pass as they  *)
(* are.                                                                    *)
(***************************************************************************)
EXTENDS Integers, FiniteSetsExt

CONSTANTS MaxFits,        \* calibrators that may be stored (bound)
          MaxSettled,     \* settled trades in the window (bound)
          MinSamples,     \* MIN_SAMPLES_FOR_FIT
          MinIsotonic,    \* MIN_SAMPLES_FOR_ISOTONIC
          TTL,            \* CACHE_TTL_SECS
          MaxClock,       \* (bound)
          NoEntry, Failed

ASSUME CalibrationConstants ==
    /\ MaxFits \in Nat /\ MaxSettled \in Nat /\ TTL \in Nat /\ MaxClock \in Nat
    /\ MinSamples \in Nat \ {0} /\ MinSamples <= MinIsotonic
    /\ Failed \notin Nat

VARIABLES
    clock,
    calibrator, retired,      \* the active row; when each version was replaced
    settled,                  \* window: trades by what their confidence went through, and won
    fitter, sample,           \* the loop's next statement; the pairs it fetched
    cache,                    \* _cache[model]: its stamp and version; (ghosts) the epochs of its load and its store
    caller, answer, used,     \* the call under way; the last answer given; versions some answer used
    epoch,                    \* ghost: fits that cleared the cache
    learnt                    \* ghost: what the confidences of each fit had gone through

store == <<calibrator, retired>>
fit == <<fitter, sample, epoch, learnt>>
calls == <<cache, caller, answer, used>>
calibrationVars == <<clock, store, settled, fit, calls>>

Versions == 0..MaxFits
Never == MaxClock + 1
NoCall == [next |-> "none", began |-> 0, version |-> 0, epoch |-> 0]

CalibrationTypeOK ==
    /\ clock \in 0..MaxClock /\ calibrator \in Versions
    /\ retired \in [Versions -> 0..Never]
    /\ \A v \in Versions : v < calibrator <=> retired[v] # Never
    /\ settled \in [Versions \X BOOLEAN -> Nat]
    /\ fitter \in {"asleep", "fetched", "stored"}
    /\ (fitter = "fetched") = (sample # {}) /\ sample \subseteq Versions
    /\ \/ cache = NoEntry
       \/ cache.stamp \in 0..clock /\ cache.version \in (0..calibrator) \cup {Failed}
    /\ caller.next \in {"none", "select", "store"} /\ caller.began \in 0..clock
    /\ used \subseteq 0..calibrator /\ epoch \in 0..calibrator

CalibrationInit ==
    /\ clock = 0 /\ calibrator = 0 /\ retired = [v \in Versions |-> Never]
    /\ settled = [e \in Versions \X BOOLEAN |-> 0]
    /\ fitter = "asleep" /\ sample = {}
    /\ cache = NoEntry /\ caller = NoCall
    /\ answer = [version |-> 0, began |-> 0] /\ used = {}
    /\ epoch = 0 /\ learnt = [v \in 1..MaxFits |-> {}]

-----------------------------------------------------------------------------
(* calibrate, called by the decision loop for each signal.                 *)

Hit == cache # NoEntry /\ clock - cache.stamp <= TTL
\* Without a version the confidence passes as it is.
Answers(v, t) == /\ answer' = [version |-> v, began |-> t]
                 /\ used' = used \cup {IF v = Failed THEN 0 ELSE v}

CacheHit ==
    /\ caller = NoCall /\ Hit /\ Answers(cache.version, clock)
    /\ UNCHANGED <<clock, store, settled, fit, cache, caller>>

\* "now" is read here, before the row is.
CacheMiss ==
    /\ caller = NoCall /\ ~Hit
    /\ caller' = [next |-> "select", began |-> clock, version |-> 0, epoch |-> epoch]
    /\ UNCHANGED <<clock, store, settled, fit, cache, answer, used>>

\* _load_active; if it raises, None is cached as where there is no row.
LoadActive ==
    /\ caller.next = "select"
    /\ \E v \in {calibrator, Failed} :
           caller' = [caller EXCEPT !.next = "store", !.version = v]
    /\ UNCHANGED <<clock, store, settled, fit, cache, answer, used>>

\* The stamp is the time the call began.
Stamp == caller.began
StoreEntry ==
    /\ caller.next = "store"
    /\ cache' = [stamp |-> Stamp, version |-> caller.version, begun |-> caller.epoch, stored |-> epoch]
    /\ Answers(caller.version, caller.began) /\ caller' = NoCall
    /\ UNCHANGED <<clock, store, settled, fit>>

-----------------------------------------------------------------------------
(* The loop through the trades.                                            *)

Window == {e \in DOMAIN settled : settled[e] > 0}
Samples == MapThenSumSet(LAMBDA e : settled[e], Window)

\* A signal some answer was given for was traded, the trade is closed now, and its
\* postmortem is a win or a loss; trade_intents.confidence is the calibrated value.
TradeSettles(won) ==
    /\ Samples < MaxSettled
    /\ \E v \in used : settled' = [settled EXCEPT ![<<v, won>>] = @ + 1]
    /\ UNCHANGED <<clock, store, fit, calls>>

\* A postmortem becomes older than the window.
LeavesWindow(e) ==
    /\ e \in Window /\ settled' = [settled EXCEPT ![e] = @ - 1]
    /\ UNCHANGED <<clock, store, fit, calls>>

-----------------------------------------------------------------------------
(* fit_and_store.                                                          *)

\* Below MinSamples, and below MinIsotonic where one class is missing, nothing is fitted.
Enough ==
    /\ Samples >= MinSamples
    /\ Samples < MinIsotonic => \A w \in BOOLEAN : \E e \in Window : e[2] = w

FetchPairs ==
    /\ fitter = "asleep" /\ calibrator < MaxFits /\ Enough
    /\ fitter' = "fetched" /\ sample' = {e[1] : e \in Window}
    /\ UNCHANGED <<clock, store, settled, epoch, learnt, calls>>

\* One transaction: the active row is deactivated, the new one inserted.
CommitFit ==
    /\ fitter = "fetched" /\ calibrator' = calibrator + 1
    /\ retired' = [retired EXCEPT ![calibrator] = clock]
    /\ learnt' = [learnt EXCEPT ![calibrator + 1] = sample]
    /\ fitter' = "stored" /\ sample' = {}
    /\ UNCHANGED <<clock, settled, epoch, calls>>

\* The transaction fails and is rolled back; _fit_all_active_models goes on.
FitFails ==
    /\ fitter = "fetched" /\ fitter' = "asleep" /\ sample' = {}
    /\ UNCHANGED <<clock, store, settled, epoch, learnt, calls>>

\* _cache.clear().  The mutant forgets it.
MutantCleared == cache
Cleared == NoEntry
ClearCache ==
    /\ fitter = "stored" /\ fitter' = "asleep"
    /\ cache' = Cleared /\ epoch' = calibrator
    /\ UNCHANGED <<clock, store, settled, sample, learnt, caller, answer, used>>

CalibrationRestart ==
    /\ fitter' = "asleep" /\ sample' = {} /\ cache' = NoEntry /\ caller' = NoCall
    /\ UNCHANGED <<clock, store, settled, epoch, learnt, answer, used>>

ClockTicks ==
    /\ clock < MaxClock /\ clock' = clock + 1
    /\ UNCHANGED <<store, settled, fit, calls>>

CalibrationNext ==
    \/ CacheHit \/ CacheMiss \/ LoadActive \/ StoreEntry
    \/ (\E w \in BOOLEAN : TradeSettles(w)) \/ (\E e \in Window : LeavesWindow(e))
    \/ FetchPairs \/ CommitFit \/ FitFails \/ ClearCache
    \/ CalibrationRestart \/ ClockTicks

CalibrationSpec == CalibrationInit /\ [][CalibrationNext]_calibrationVars

-----------------------------------------------------------------------------
\* However loads, fits and restarts interleave, a signal is calibrated by a
\* version that was replaced at most a TTL before the signal came, or by none
\* because the load failed.
ServedIsRecent ==
    answer.version # Failed => retired[answer.version] >= answer.began - TTL

\* Once a fit has cleared the cache, an older version gets into it only by a load
\* that had begun before the clear and was stored after it.
StaleOnlyByRace ==
    cache # NoEntry /\ fitter # "stored" /\ cache.version \notin {calibrator, Failed} =>
        cache.begun < epoch /\ cache.stored = epoch

\* A refit reaches the signals: at once but for a load that was under way when the
\* cache was cleared, and within a TTL in any case.
StalenessBounded == ServedIsRecent /\ StaleOnlyByRace

\* "Pull (raw_confidence, label) pairs" (calibration.py:252): every pair a
\* calibrator is fitted on has the confidence the forecaster gave.
FitsOnRaw == \A v \in 1..MaxFits : learnt[v] \subseteq {0}
=============================================================================
