----------------------------- MODULE MCSealing -----------------------------
(***************************************************************************)
(* Small instances of AssignmentCollector and of SealingCore.  A behaviour *)
(* exercises one of them, chosen at the start by "subject".                *)
(***************************************************************************)
EXTENDS Integers, Sequences, FiniteSets, TLC

CONSTANTS
    Subjects,
    Incorporated, Approvals, Chunks, Assigned, Required, MaxCalls,   \* AssignmentCollector
    Blocks, Root, Parent, Height, SealedBy, Results, BlockOf, Previous, NoResult,
    Incoming, ResultApprovals, Workers,                    \* SealingCore
    ir1, v1, v2, v3,
    rA, rB, rX, rC, S, A, B, X, C, Y, D

VARIABLES
    subject,
    missing,     \* the approvals that do not arrive
    status, cachedResults, cachedApprovals, changer, collectors, verified, signers,
    aggregated, seals, task,
    final, coming, pending, finalizer, counterFinalized, counterSealed, tree,
    treeSealed, treeFinalizedHeight, treeSealedHeight, lowestLevel, approvalsCache,
    work, processed, fatal

M == INSTANCE AssignmentCollector
K == INSTANCE SealingCore WITH task <- work, Approvals <- ResultApprovals

ASSUME SealingAssumption == M!ConstantsAssumption /\ K!ConstantsAssumption

collector == <<status, cachedResults, cachedApprovals, changer, collectors, verified,
               signers, aggregated, seals, task>>
core == <<final, coming, pending, finalizer, counterFinalized, counterSealed, tree,
          treeSealed, treeFinalizedHeight, treeSealedHeight, lowestLevel, approvalsCache,
          work, processed, fatal>>
vars == <<subject, missing, collector, core>>

\* The approvals of the verifiers assigned to the two chunks, one of a verifier
\* who is not assigned to its chunk, and an invalid one.
\* Two of them arrive.
Approval(v, c, valid) == [verifier |-> v, chunk |-> c, valid |-> valid]
Unassigned == Approval(v2, 1, TRUE)
Invalid == Approval(v3, 1, FALSE)
Second == Approval(v2, 2, TRUE)
First == Approval(v1, 1, TRUE)
MCApprovals == {First, Second, Unassigned, Invalid}
MCAssigned == [ir \in {ir1} |-> [c \in {1, 2} |-> IF c = 1 THEN {v1, v3} ELSE {v2}]]

\* X conflicts with B and C, and so does Y, which extends X.  D finalizes a seal
\* for B, C one for A.
MCBlocks == {S, A, B, X, C, Y, D}
MCParent == (A :> S) @@ (B :> A) @@ (X :> A) @@ (C :> B) @@ (Y :> X) @@ (D :> C) @@ (S :> S)
MCHeight == (S :> 0) @@ (A :> 1) @@ (B :> 2) @@ (X :> 2) @@ (C :> 3) @@ (Y :> 3) @@ (D :> 4)
MCSealedBy == (S :> S) @@ (A :> S) @@ (B :> S) @@ (X :> S) @@ (C :> A) @@ (Y :> S) @@ (D :> B)
MCBlockOf == (rA :> A) @@ (rB :> B) @@ (rX :> X) @@ (rC :> C)
MCPrevious == (rA :> NoResult) @@ (rB :> rA) @@ (rX :> rA) @@ (rC :> rB)
In(r, b) == [result |-> r, block |-> b]
MCIncoming == <<In(rA, B), In(rA, X), In(rX, Y), In(rB, C), In(rC, D)>>
MCResultApprovals == {[result |-> rB, verifier |-> v1]}

Init ==
    /\ subject \in Subjects
    /\ missing \in IF subject = "collector"
                   THEN {{Unassigned, Invalid}, {First, Invalid}, {First, Unassigned}} ELSE {{}}
    /\ M!Init
    /\ K!Init

OnlyCollector == subject = "collector" /\ UNCHANGED <<subject, missing, core>>
OnlyCore == subject = "core" /\ UNCHANGED <<subject, missing, collector>>

Next ==
    \/ OnlyCollector /\ M!Next /\ (\A a \in missing : ~M!Submitted(a))'
    \/ OnlyCore /\ K!Next

Spec == Init /\ [][Next]_vars /\ WF_vars(OnlyCollector /\ M!Step)

\* AssignmentCollector: a candidate seal has for every chunk the required number
\* of valid approvals of verifiers assigned in its fork (and the types are kept).
SealIsApproved == M!TypeOK /\ M!SealIsApproved

\* AssignmentCollector: no incorporated result or approval is lost when it is
\* processed during a change of state: what is sufficiently approved gets its seal.
ApprovedIsSealed ==
    []<>(subject = "collector" /\ status = "verifying" =>
            \A ir \in Incorporated :
                M!Submitted(ir) /\ M!HasSufficientApprovals(ir) => ir \in seals)

\* SealingCore: the results on top of the sealed one are processable, in whatever
\* order their collectors are added (and the types are kept).
ProcessableFork == K!TypeOK /\ K!ProcessableFork

\* SealingCore: an approval is not lost between the cache and a new collector.
NoApprovalLost == K!NoApprovalLost

\* SealingCore: no order of the workers and of finalization is an error.
NoException == K!NoException

=============================================================================
