----------------------------- MODULE MCForecasting -----------------------------
(***************************************************************************)
(* From ticks to intents, and back from settled trades: five components    *)
(* that share no variable, each checked in states of its own.              *)
(***************************************************************************)
EXTENDS CandleFeed, Isotonic, Calibration, SignalGate, BacktestRuns

CONSTANT Star        \* the agent that may have a target of its own

VARIABLE part        \* the component that runs

mcVars == <<part, candleVars, isotonicVars, calibrationVars, signalVars, backtestVars>>

\* One list of pairs stands for all where the fit is not what runs, and one
\* choice of settings where the decision loop is not; in the decision loop
\* the company has a target at first.
MCInit ==
    /\ part \in {"candles", "fit", "calibrator", "signals", "backtests"}
    /\ CandleInit /\ IsotonicInit /\ CalibrationInit /\ SignalInit /\ BacktestInit
    /\ part # "fit" => pairs = <<[x |-> 1, y |-> 0]>>
    /\ teamGoal = Target /\ goal = [a \in Agents |-> IF a = Star THEN Target ELSE 0]

MCNext ==
    /\ UNCHANGED part
    /\ \/ part = "candles" /\ CandleNext
             /\ UNCHANGED <<isotonicVars, calibrationVars, signalVars, backtestVars>>
       \/ part = "fit" /\ IsotonicNext
             /\ UNCHANGED <<candleVars, calibrationVars, signalVars, backtestVars>>
       \/ part = "calibrator" /\ CalibrationNext
             /\ UNCHANGED <<candleVars, isotonicVars, signalVars, backtestVars>>
       \/ part = "signals" /\ SignalNext
             /\ UNCHANGED <<candleVars, isotonicVars, calibrationVars, backtestVars>>
       \/ part = "backtests" /\ BacktestNext
             /\ UNCHANGED <<candleVars, isotonicVars, calibrationVars, signalVars>>

MCSpec == MCInit /\ [][MCNext]_mcVars
              /\ SignalFairness /\ BacktestFairness

\* The state of candle feed, fit, calibrator, signal and backtest keeps its type.
TypesOK ==
    CandleTypeOK /\ IsotonicTypeOK /\ CalibrationTypeOK /\ SignalTypeOK /\ BacktestTypeOK
=============================================================================
