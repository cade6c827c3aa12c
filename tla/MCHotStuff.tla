----------------------------- MODULE MCHotStuff -----------------------------
(***************************************************************************)
(* Small instances of HotStuff, with two honest replicas of three units of *)
(* weight each and a Byzantine one of one unit.                            *)
(***************************************************************************)
EXTENDS HotStuff, Sequences, TLC

CONSTANTS
    r1, r2, z,  \* the members of the committee, z is Byzantine
    Proposals   \* bound: the blocks that may be proposed

\* More than two thirds of the total weight of seven.
MCQuorums == {{r1, r2}}

HappyPath(v, q) == [view |-> v, qc |-> q, tc |-> NoTC]
Recovery(v, q, n) == [view |-> v, qc |-> q, tc |-> [view |-> v - 1, newestQC |-> n]]

\* Block i is described by entry i, the root block is 0.
Headers ==
    << HappyPath(1, 0),                                     \* 1
       HappyPath(2, 1), Recovery(2, 0, 0),                  \* 2, 3
       HappyPath(3, 2), HappyPath(3, 3),                    \* 4, 5
       Recovery(3, 1, 1), Recovery(3, 1, 0), Recovery(3, 0, 0) >> \* 6, 7, 8

MCBlock == Proposals \cup {0}
MCView == [b \in MCBlock |-> IF b = 0 THEN 0 ELSE Headers[b].view]
MCQC == [b \in MCBlock \ {0} |-> Headers[b].qc]
MCLastViewTC == [b \in MCBlock \ {0} |-> Headers[b].tc]
MCAncestors[b \in MCBlock] ==
    IF b = 0 THEN {0} ELSE {b} \cup MCAncestors[MCQC[b]]

\* The leaders of the views from 1 on.
LeaderOfFirst == <<r1, z, z>>

=============================================================================
