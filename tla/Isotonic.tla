------------------------------- MODULE Isotonic -------------------------------
(***************************************************************************)
(* The fit of app/calibration.py: _pav, pool adjacent violators over       *)
(* (confidence, outcome) pairs, and apply_isotonic, the lookup.            *)
(*                                                                         *)
(* One step is one turn of the loop of _pav.  Confidences are ranks; means *)
(* are fractions, compared by cross-multiplication, where the code divides *)
(* floating-point numbers.                                                 *)
(***************************************************************************)
EXTENDS Integers, Sequences, SequencesExt, FiniteSetsExt

CONSTANTS Ranks,      \* the confidences, as integers
          MaxPairs    \* settled trades in the window (bound)

ASSUME IsotonicConstants == Ranks \subseteq Int /\ MaxPairs \in Nat \ {0}

VARIABLES pairs,      \* sorted(pairs): the outcome is 1 for a win
          blocks,     \* (sum_y, weight, x_max)
          at          \* i, counted from 1

isotonicVars == <<pairs, blocks, at>>

\* The query has no ORDER BY and the sort is stable: equal confidences come in any order.
Sorted(s) == \A k \in 1..Len(s) - 1 : s[k].x <= s[k + 1].x
IsotonicInit ==
    /\ pairs \in {s \in UNION {[1..n -> [x : Ranks, y : {0, 1}]] : n \in 1..MaxPairs} : Sorted(s)}
    /\ blocks = [k \in DOMAIN pairs |-> [sum |-> pairs[k].y, weight |-> 1, x |-> pairs[k].x]]
    /\ at = 1

\* The mean of b is at most the mean of c.
AtMost(b, c) == b.sum * c.weight <= c.sum * b.weight
Fitted == at >= Len(blocks)

Advance ==
    /\ ~Fitted /\ AtMost(blocks[at], blocks[at + 1])
    /\ at' = at + 1 /\ UNCHANGED <<pairs, blocks>>

\* The boundary of the merged block is the right one's.
Joined(b, c) == [sum |-> b.sum + c.sum, weight |-> b.weight + c.weight, x |-> c.x]
\* Where the loop goes on: at the block before.  The mutant stays.
MutantRecheck(k) == k
Recheck(k) == IF k > 1 THEN k - 1 ELSE k

Merge ==
    /\ ~Fitted /\ ~AtMost(blocks[at], blocks[at + 1])
    /\ blocks' = [k \in 1..Len(blocks) - 1 |->
                     IF k < at THEN blocks[k]
                     ELSE IF k = at THEN Joined(blocks[at], blocks[at + 1]) ELSE blocks[k + 1]]
    /\ at' = Recheck(at) /\ UNCHANGED pairs

IsotonicNext == Advance \/ Merge

IsotonicSpec == IsotonicInit /\ [][IsotonicNext]_isotonicVars

-----------------------------------------------------------------------------
\* apply_isotonic: clipped below to the first block and above to the last, else
\* the first block whose boundary is not below x.
Lookup(x) ==
    IF x <= blocks[1].x THEN blocks[1]
    ELSE IF x >= blocks[Len(blocks)].x THEN blocks[Len(blocks)]
    ELSE blocks[Min({k \in DOMAIN blocks : x <= blocks[k].x})]

-----------------------------------------------------------------------------
\* The blocks partition the sorted pairs: each has the sum, the weight and the
\* last confidence of its own.
IsotonicTypeOK ==
    /\ at \in DOMAIN blocks
    /\ LET weight == [b \in DOMAIN blocks |-> blocks[b].weight]
           Ends(k) == MapThenSumSet(LAMBDA b : weight[b], 1..k)
       IN  /\ Ends(Len(blocks)) = Len(pairs)
           /\ \A k \in DOMAIN blocks :
                 /\ weight[k] >= 1 /\ blocks[k].x = pairs[Ends(k)].x
                 /\ blocks[k].sum = Quantify(Ends(k - 1) + 1..Ends(k), LAMBDA p : pairs[p].y = 1)

\* A fitted map never ranks a more confident forecast below a less confident one,
\* ties, clipping and merges backwards included.
HigherStaysHigher ==
    Fitted => \A x, z \in Ranks : x <= z => AtMost(Lookup(x), Lookup(z))

\* The reference.  The isotonic regression at pair k is the greatest, over the
\* pairs i up to k, of the least, over the pairs j from k, of the mean of i..j.
Mean(i, j) == [sum |-> Quantify(i..j, LAMBDA p : pairs[p].y = 1), weight |-> j - i + 1]
IsRegression(b, k) ==
    /\ \E i \in 1..k : \A j \in k..Len(pairs) : AtMost(b, Mean(i, j))
    /\ \A i \in 1..k : \E j \in k..Len(pairs) : AtMost(Mean(i, j), b)

\* "It's the maximum-likelihood isotonic estimator" (calibration.py:9): where no
\* two confidences are equal, every pair of the fit is mapped to that regression.
FitIsMaximumLikelihood ==
    Fitted /\ IsInjective([k \in DOMAIN pairs |-> pairs[k].x]) =>
        \A k \in DOMAIN pairs : IsRegression(Lookup(pairs[k].x), k)

\* The loop that merges in place, and steps back, computes the fit it is said to
\* compute, and the lookup reads it as a monotone map.
FitIsIsotonic == HigherStaysHigher /\ FitIsMaximumLikelihood
=============================================================================
