--------------------------- MODULE MCSafetyRules ---------------------------
(***************************************************************************)
(* Small instances of SafetyRules: a committee of equal weights and a block*)
(* tree with every way a block can be chained to a lower one in the first  *)
(* views: two proposals by one leader, direct children, and children of    *)
(* older blocks justified by TCs that report newer or older QCs.           *)
(***************************************************************************)
EXTENDS SafetyRules, FiniteSets, Sequences, TLC

\* The smallest sets of more than two thirds of the members (a superset of a
\* quorum certifies nothing that the quorum does not).
MCQuorums ==
    LET n == Cardinality(Replicas \cup Byzantine)
    IN  {Q \in SUBSET (Replicas \cup Byzantine) :
            3 * Cardinality(Q) > 2 * n /\ 3 * (Cardinality(Q) - 1) <= 2 * n}

HappyPath(v, q) == [view |-> v, qc |-> q, tc |-> NoTC]
Recovery(v, q, n) == [view |-> v, qc |-> q, tc |-> [view |-> v - 1, newestQC |-> n]]

\* Block i is described by entry i, the root block is 0.
Headers ==
    << HappyPath(1, 0),                                     \*  1
       HappyPath(2, 1), Recovery(2, 0, 0),                  \*  2,  3
       Recovery(2, 2, 0),       \* its QC is for its own view:  4
       HappyPath(3, 2), HappyPath(3, 3),                    \*  5,  6
       Recovery(3, 1, 0), Recovery(3, 0, 0),                \*  7,  8
       HappyPath(4, 8) >>                                   \*  9

CONSTANT MaxBlock  \* bound: the blocks 0 .. MaxBlock are proposed

MCBlock == 0 .. MaxBlock
MCView == [b \in MCBlock |-> IF b = 0 THEN 0 ELSE Headers[b].view]
MCQC == [b \in MCBlock \ {0} |-> Headers[b].qc]
MCLastViewTC == [b \in MCBlock \ {0} |-> Headers[b].tc]
MCAncestors[b \in MCBlock] ==
    IF b = 0 THEN {0} ELSE {b} \cup MCAncestors[MCQC[b]]

\* Bound: timeouts are repeated while the votes are for the first blocks only.
LastRepeated == 5
RepeatedEarly ==
    \/ \A r \in Replicas : lastTimeout[r] # NoTimeout => lastTimeout[r].tick = 0
    \/ \A v \in votes : v[2] <= LastRepeated

Symmetry == Permutations(Replicas)

=============================================================================
