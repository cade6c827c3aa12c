----------------------------- MODULE MCReplica -----------------------------
(***************************************************************************)
(* Small instances of Replica.  The blocks are all those with the given    *)
(* parents and views up to the bound; a Byzantine leader may propose any of*)
(* them, Self those that its certificates determine.                       *)
(***************************************************************************)
EXTENDS Replica, Sequences, FiniteSets, TLC

HappyPath(v, q) == [view |-> v, qc |-> q, tc |-> NoTC]
Recovery(v, q, n) == [view |-> v, qc |-> q, tc |-> [view |-> v - 1, newestQC |-> n]]

\* Block i is described by entry i, the root block is 0.
Headers ==
    << HappyPath(1, 0),                                     \* 1
       HappyPath(2, 1), Recovery(2, 0, 0),                  \* 2, 3
       HappyPath(3, 2), HappyPath(3, 3),                    \* 4, 5
       Recovery(3, 1, 1), Recovery(3, 1, 0), Recovery(3, 0, 0), \* 6, 7, 8
       HappyPath(4, 4), HappyPath(4, 6), Recovery(4, 2, 1), \* 9, 10, 11
       HappyPath(5, 10) >>                                  \* 12

CONSTANTS
    Proposals,  \* bound: the blocks that may be proposed
    Other       \* some other, Byzantine leader

MCBlock == Proposals \cup {0}
MCView == [b \in MCBlock |-> IF b = 0 THEN 0 ELSE Headers[b].view]
MCQC == [b \in MCBlock \ {0} |-> Headers[b].qc]
MCLastViewTC == [b \in MCBlock \ {0} |-> Headers[b].tc]
MCAncestors[b \in MCBlock] ==
    IF b = 0 THEN {0} ELSE {b} \cup MCAncestors[MCQC[b]]

\* The leaders of the views from 1 on.
LeaderOfSecond == <<Other, Self, Other, Other, Other>>
LeaderOfTwo == <<Other, Self, Self, Other, Other>>

=============================================================================
