------------------------------- MODULE Reconnect -------------------------------
(***************************************************************************)
(* How long the gateway waits between two connections to the broker: the   *)
(* tick feed (deriv/subscriber.go) and one trading client                  *)
(* (trader/client.go).  Neither counter is reset when a connection works.  *)
(*                                                                         *)
(* The feed's wait is base << attempt in an int64 of nanoseconds, written  *)
(* here as four limbs of 16 bits, the highest first.                       *)
(***************************************************************************)
EXTENDS Naturals, Sequences

CONSTANT MaxAttempt   \* connections, and attempts at one, that end (bound)

ASSUME ReconnectConstants == MaxAttempt \in Nat

VARIABLES
    attempt,      \* b.attempt
    feed,         \* Run: in runOnce (connected or dialling), waiting, or gone
    low, high,    \* the wait is in low .. high - 1 nanoseconds (limbs)
    backoff       \* the trading client's, in seconds

feedVars == <<attempt, feed, low, high>>
reconnectVars == <<feedVars, backoff>>

Limb == 65536
Limbs == [1 .. 4 -> 0 .. Limb - 1]
Zero == <<0, 0, 0, 0>>
Second == <<0, 0, 15258, 51712>>           \* 1 000 000 000
MaxWait == <<0, 6, 64547, 44032>>          \* 30 000 000 000

ReconnectTypeOK ==
    /\ attempt \in 0 .. MaxAttempt
    /\ feed \in {"running", "waiting", "panicked"}
    /\ {low, high} \subseteq Limbs
    /\ backoff \in {1, 2, 4, 8, 16, 32}

ReconnectInit ==
    attempt = 0 /\ feed = "running" /\ low = Zero /\ high = Zero /\ backoff = 1

\* Two's complement: the top bit is the sign.
Negative(x) == x[1] >= Limb \div 2
ShiftLeft(x) ==
    [i \in 1 .. 4 |-> (2 * x[i] + (IF i < 4 THEN x[i+1] \div (Limb \div 2) ELSE 0)) % Limb]
\* Of a number that is not negative.
HalfOf(x) ==
    [i \in 1 .. 4 |-> x[i] \div 2 + (IF i > 1 THEN (x[i-1] % 2) * (Limb \div 2) ELSE 0)]
Above(x, y) == \E i \in 1 .. 4 : x[i] > y[i] /\ \A j \in 1 .. i - 1 : x[j] = y[j]
\* d > maxWait of the code, which a negative d is not.
Exceeds(x, y) == ~Negative(x) /\ Above(x, y)

Shifted[n \in 0 .. MaxAttempt] == IF n = 0 THEN Second ELSE ShiftLeft(Shifted[n-1])

\* base << b.attempt.
Delay(n) == Shifted[n]

\* The mutant tests the wait before the last shift.
MutantCapped(n) == IF Exceeds(Shifted[n-1], MaxWait) THEN MaxWait ELSE Delay(n)
Capped(n) == IF Exceeds(Delay(n), MaxWait) THEN MaxWait ELSE Delay(n)

\* Int63n panics unless its argument is positive.
Panics(n) == Negative(Capped(n)) \/ HalfOf(Capped(n)) = Zero

\* runOnce returned an error and ctx is not done: next() of the backoff.
FeedFalls ==
    /\ feed = "running" /\ attempt < MaxAttempt
    /\ attempt' = attempt + 1
    /\ IF Panics(attempt + 1)
       THEN feed' = "panicked" /\ UNCHANGED <<low, high>>
       ELSE /\ feed' = "waiting" /\ high' = Capped(attempt + 1)
            /\ low' = HalfOf(Capped(attempt + 1))
    /\ UNCHANGED backoff

\* The wait is over.  However long runOnce then serves, the counter stays.
FeedRetries ==
    /\ feed = "waiting" /\ feed' = "running"
    /\ UNCHANGED <<attempt, low, high, backoff>>

Doubled == IF backoff < 30 THEN 2 * backoff ELSE backoff

\* The trading client's loop after its connection ended with an error.
TraderFalls == backoff' = Doubled /\ UNCHANGED feedVars

ReconnectNext == FeedFalls \/ FeedRetries \/ TraderFalls

ReconnectSpec == ReconnectInit /\ [][ReconnectNext]_reconnectVars

-----------------------------------------------------------------------------
\* A feed that waits does so for at least a second and less than 30.
WaitsBounded ==
    feed = "waiting" =>
        ~Above(Second, low) /\ Above(high, low) /\ ~Above(high, MaxWait)

\* The feed lives through 33 connections or dials that end, in whatever time, and
\* does not live through the 34th: the shift reaches the sign bit, the minimum with
\* maxWait lets a negative wait pass, and the panic of Int63n ends the gateway.
FeedDiesAt34 == (feed = "panicked") <=> (attempt >= 34)

\* The wait that the counter and the shift produce, over any number of connections.
BackoffIsSafe == ReconnectTypeOK /\ WaitsBounded /\ FeedDiesAt34

\* subscriber.go: "Run blocks until ctx is canceled.  It maintains the connection
\* with exponential backoff on disconnect."
RunMaintainsTheConnection == feed \in {"running", "waiting"}
=============================================================================
