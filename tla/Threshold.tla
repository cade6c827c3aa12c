----------------------------- MODULE Threshold -----------------------------
(***************************************************************************)
(* The weights a QC, a TC and a partial TC take                            *)
(* (consensus/hotstuff/committees/threshold.go), in integer arithmetic.    *)
(***************************************************************************)
EXTENDS Integers

\* Mutated form: two thirds, rounded down, are enough.
WeightThresholdRounded(totalWeight) == (2 * totalWeight) \div 3

WeightThresholdToBuildQC(totalWeight) ==
    2 * (totalWeight \div 3)
        + (IF totalWeight % 3 <= 1 THEN 1 ELSE totalWeight % 3)

WeightThresholdToTimeout(totalWeight) == totalWeight \div 3 + 1

(***************************************************************************)
(* What the protocol needs of a committee of the given total weight: two   *)
(* quorums have a weight in common that is enough for a partial TC; that   *)
(* weight, and hence every quorum, contains a correct replica when less    *)
(* than a third of the weight is faulty; and then the correct replicas are *)
(* a quorum by themselves.                                                 *)
(***************************************************************************)
ThresholdsAreSound(totalWeight) ==
    /\ 2 * WeightThresholdToBuildQC(totalWeight) - totalWeight
           >= WeightThresholdToTimeout(totalWeight)
    /\ \A faulty \in 0 .. totalWeight :
           3 * faulty < totalWeight =>
               /\ faulty < WeightThresholdToTimeout(totalWeight)
               /\ totalWeight - faulty >= WeightThresholdToBuildQC(totalWeight)

=============================================================================
