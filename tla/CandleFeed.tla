------------------------------- MODULE CandleFeed -------------------------------
(***************************************************************************)
(* One symbol of a forecast service (services/models: kronos, and tsfm     *)
(* alike): ticks are binned into candles, the buffer is seeded once from   *)
(* the broker's history, and a closed candle is forecast from.             *)
(*                                                                         *)
(* The forecast loop awaits the history, whose last candle may still be    *)
(* forming, and later the model; ticks come meanwhile, late, out of order  *)
(* or not at all.  A candle is its window and whether it began and ended   *)
(* under watch.                                                            *)
(***************************************************************************)
EXTENDS Integers, Sequences, SequencesExt, FiniteSets

CONSTANTS MaxWindow,     \* windows of time (bound)
          Context,       \* context_length
          MaxBars,       \* the buffer's maxlen
          WarmupCount,   \* warmup_count
          MaxTroubles,   \* failed fetches and forecasts, restarts (bound)
          NoWindow, NoCandle

ASSUME CandleConstants ==
    /\ MaxWindow \in Nat /\ Context \in Nat \ {0} /\ MaxBars \in Nat /\ Context <= MaxBars
    /\ WarmupCount \in Nat /\ MaxTroubles \in Nat
    /\ NoWindow \notin Int /\ NoCandle \notin [t : Int, whole : BOOLEAN]

VARIABLES
    window,      \* the present one
    bars, cur,   \* _bars, closed; _cur with _cur_window
    loop,        \* what the forecast loop awaits
    warmed, warming,
    history,     \* the candles fetched and not seeded yet
    asking,      \* the last window of the snapshot being forecast from
    asof,        \* _last_forecast_window
    troubles,
    ahead,       \* ghost: the seed held a candle newer than the live one
    setbacks     \* ghost: forecasts published for no later window than the one before

buffer == <<bars, cur>>
warmth == <<warmed, warming, history, ahead>>
forecasts == <<asking, asof, setbacks>>
candleVars == <<window, buffer, loop, warmth, forecasts, troubles>>

Windows == (-WarmupCount)..MaxWindow
Candles == [t : Windows, whole : BOOLEAN]
Live == cur # NoCandle

CandleTypeOK ==
    /\ window \in 0..MaxWindow /\ troubles \in 0..MaxTroubles
    /\ bars \in Seq(Candles) /\ Len(bars) <= MaxBars
    /\ cur \in Candles \cup {NoCandle} /\ (~Live => bars = <<>>)
    /\ loop \in {"sleep", "fetch", "seed", "model"}
    /\ (loop \in {"fetch", "seed"} => warming) /\ (warmed => ~warming)
    /\ history \subseteq Candles /\ (history # {} => loop = "seed")
    /\ {asking, asof} \subseteq Windows \cup {NoWindow}
    /\ (asking # NoWindow) = (loop = "model") /\ (loop = "model" => Len(bars) >= Context)

CandleInit ==
    /\ window = 0 /\ troubles = 0
    /\ bars = <<>> /\ cur = NoCandle /\ loop = "sleep"
    /\ warmed = FALSE /\ warming = FALSE /\ history = {} /\ ahead = FALSE
    /\ asking = NoWindow /\ asof = NoWindow /\ setbacks = 0

-----------------------------------------------------------------------------
(* add_tick.                                                               *)

\* deque(maxlen): the newest stay.  The mutant makes a deque without a maxlen.
MutantNewest(s) == s
Newest(s) == IF Len(s) > MaxBars THEN SubSeq(s, Len(s) - MaxBars + 1, Len(s)) ELSE s

\* A tick of this window or, late, of the one before it.
Arriving == {w \in Windows : w \in window - 1..window}

\* The first candle began before the service was there to see it.
FirstTick(w) ==
    /\ w \in Arriving /\ ~Live /\ cur' = [t |-> w, whole |-> FALSE]
    /\ UNCHANGED <<window, bars, loop, warmth, forecasts, troubles>>

\* Ticks of the window change its prices only; those of a past one are ignored.
Opens(w) == w > cur.t
NextCandle(w) ==
    /\ w \in Arriving /\ Live /\ Opens(w)
    /\ bars' = Newest(Append(bars, cur)) /\ cur' = [t |-> w, whole |-> TRUE]
    /\ UNCHANGED <<window, loop, warmth, forecasts, troubles>>

-----------------------------------------------------------------------------
(* _maybe_forecast: the warm start.                                        *)

Short == Len(bars) < Context

StartFetch ==
    /\ loop = "sleep" /\ Live /\ Short /\ ~warmed /\ ~warming
    /\ loop' = "fetch" /\ warming' = TRUE
    /\ UNCHANGED <<window, buffer, warmed, history, ahead, forecasts, troubles>>

\* fetch_candles: the broker counts the forming candle, when it sends it.
History(last) == {[t |-> w, whole |-> w < window] : w \in {w \in Windows : w \in last - WarmupCount + 1..last}}
FetchAnswered ==
    /\ loop = "fetch" /\ loop' = "seed"
    /\ \E last \in {window - 1, window} : history' = History(last)
    /\ UNCHANGED <<window, buffer, warmed, warming, ahead, forecasts, troubles>>

\* The exception is logged and the symbol discarded from _warming, to be tried again.
FetchFails ==
    /\ loop = "fetch" /\ troubles < MaxTroubles /\ troubles' = troubles + 1
    /\ loop' = "sleep" /\ warming' = FALSE
    /\ UNCHANGED <<window, buffer, warmed, history, ahead, forecasts>>

\* The windows the buffer has.  The mutant counts the closed ones only.
MutantExisting == {bars[k].t : k \in DOMAIN bars}
Existing == {bars[k].t : k \in DOMAIN bars} \cup {cur.t}

\* The candles of S, which have windows of their own, in the order of these.
ByWindow(S) == [k \in 1..Cardinality(S) |-> CHOOSE c \in S : Cardinality({b \in S : b.t < c.t}) = k - 1]

\* seed: those the buffer has not are merged in, sorted by window.
Seed ==
    /\ loop = "seed" /\ loop' = "sleep"
    /\ LET new == {c \in history : c.t \notin Existing}
       IN  /\ bars' = Newest(ByWindow(new \cup {bars[k] : k \in DOMAIN bars}))
           /\ ahead' = \E c \in new : c.t > cur.t
    /\ warmed' = TRUE /\ warming' = FALSE /\ history' = {}
    /\ UNCHANGED <<window, cur, forecasts, troubles>>

-----------------------------------------------------------------------------
(* _maybe_forecast: the forecast.                                          *)

\* The bar was not forecast from yet.
NotForecast(w) == w # asof

AskModel ==
    /\ loop = "sleep" /\ ~Short /\ NotForecast(Last(bars).t)
    /\ loop' = "model" /\ asking' = Last(bars).t
    /\ UNCHANGED <<window, buffer, warmth, asof, setbacks, troubles>>

PublishForecast ==
    /\ loop = "model" /\ loop' = "sleep" /\ asof' = asking /\ asking' = NoWindow
    /\ setbacks' = IF asof # NoWindow /\ asking <= asof THEN setbacks + 1 ELSE setbacks
    /\ UNCHANGED <<window, buffer, warmth, troubles>>

\* The model raises: asof stays, and the bar is asked about again.
ForecastFails ==
    /\ loop = "model" /\ troubles < MaxTroubles /\ troubles' = troubles + 1
    /\ loop' = "sleep" /\ asking' = NoWindow
    /\ UNCHANGED <<window, buffer, warmth, asof, setbacks>>

-----------------------------------------------------------------------------
TimePasses ==
    /\ window < MaxWindow /\ window' = window + 1
    /\ UNCHANGED <<buffer, loop, warmth, forecasts, troubles>>

FeedRestarts ==
    /\ troubles < MaxTroubles /\ troubles' = troubles + 1
    /\ bars' = <<>> /\ cur' = NoCandle /\ loop' = "sleep"
    /\ warmed' = FALSE /\ warming' = FALSE /\ history' = {} /\ ahead' = FALSE
    /\ asking' = NoWindow /\ asof' = NoWindow /\ setbacks' = 0
    /\ UNCHANGED window

LoopStep == StartFetch \/ FetchAnswered \/ Seed \/ AskModel \/ PublishForecast
CandleNext ==
    \/ \E w \in Windows : FirstTick(w) \/ NextCandle(w)
    \/ LoopStep \/ FetchFails \/ ForecastFails \/ TimePasses \/ FeedRestarts

CandleSpec == CandleInit /\ [][CandleNext]_candleVars

-----------------------------------------------------------------------------
Descents == {k \in 1..Len(bars) - 1 : bars[k].t >= bars[k + 1].t}
Partial == {bars[k].t : k \in {k \in DOMAIN bars : ~bars[k].whole}}

\* "Dedup by window so the warm-start seam doesn't double a bar": as long as the
\* history was no newer than the live candle, the bars ascend up to it without a
\* double, whatever ticks came while it was fetched.  If it was newer, time turns
\* back once.  At most two bars are partial: the first live one, and the one that
\* was forming when the history was sent.
SeamIsClean ==
    /\ ~ahead => Descents = {} /\ \A k \in DOMAIN bars : bars[k].t < cur.t
    /\ Cardinality(Descents) <= 1 /\ Cardinality(Partial) <= 2

\* No forecast repeats a bar or goes back behind it, after a failure of the model
\* or with late ticks; after a seed that was ahead of the live candle, one does.
ForecastsAdvance == setbacks <= IF ahead THEN 1 ELSE 0

\* Time runs forward in what the model is given, over the seam of history and live
\* ticks, retries and late ticks; a seed that was ahead is the only exception.
TimeRunsForward == SeamIsClean /\ ForecastsAdvance
=============================================================================
