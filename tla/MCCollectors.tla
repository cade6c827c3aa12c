---------------------------- MODULE MCCollectors ----------------------------
(***************************************************************************)
(* Small instances of what turns votes and timeouts into certificates and  *)
(* events: VoteAggregator, VoteCollector, Threshold, TimeoutCollector and  *)
(* EventLoop.  A behaviour exercises one of them, chosen at the start by   *)
(* "subject".                                                              *)
(***************************************************************************)
EXTENDS Naturals, Sequences, FiniteSets

CONSTANTS
    Subjects,
    None,
    Voters, Proposer, Blocks, StakingQuorums, BeaconSigners, BeaconQuorums,
    InvalidVotes, Arriving, Caching, Invalid,            \* VoteCollector
    Proposals, Votes, ViewOf, FirstView, MaxView, Workers,  \* VoteAggregator
    Capacity,                  \* of the queues of VoteAggregator and EventLoop
    MaxWeight,                 \* bound: the total weights for the thresholds
    View, Signers, Weight, Timeouts,                     \* TimeoutCollector
    Certificates, LoopProposals, MaxTimeouts,            \* EventLoop
    s1, s2, s3, s4, b1, b2, p1, p2, v1, v2, w1, w2

VARIABLES
    subject,
    unsent,      \* a message that is not submitted to the vote aggregator
    votesCache, processor, staking, beacon, done, qcs, task, proposal,
    queuedBlocks, queuedVotes, caller, notified, worker, collectors, collectorsLowest,
    lowestRetainedView, finalizedView, finalizer, finalized, pruner, delivered,
    totalWeight,
    cache, call, newestQC, added, partialDone, tcDone, aggregate,
    newestReportedQC, newestReportedTC, partialTCs, tcs, reported,
    submitter, newest, loopNotified, proposals, timeoutFired, timeouts, shutdown,
    loop, handled, handledProposals, overtaken

V == INSTANCE VoteCollector WITH Signers <- Voters
A == INSTANCE VoteAggregator
T == INSTANCE Threshold
C == INSTANCE TimeoutCollector
L == INSTANCE EventLoop WITH Proposals <- LoopProposals, notified <- loopNotified

ASSUME CollectorsAssumption ==
    /\ V!ConstantsAssumption /\ A!ConstantsAssumption /\ C!ConstantsAssumption
    /\ L!ConstantsAssumption

votes == <<votesCache, processor, staking, beacon, done, qcs, task, proposal>>
aggregator == <<queuedBlocks, queuedVotes, caller, notified, worker, collectors,
                collectorsLowest, lowestRetainedView, finalizedView, finalizer, finalized,
                pruner, delivered>>
collector == <<cache, call, newestQC, added, partialDone, tcDone, aggregate,
               newestReportedQC, newestReportedTC, partialTCs, tcs, reported>>
eventLoop == <<submitter, newest, loopNotified, proposals, timeoutFired, timeouts,
               shutdown, loop, handled, handledProposals, overtaken>>
vars == <<subject, unsent, votes, aggregator, totalWeight, collector, eventLoop>>

-----------------------------------------------------------------------------
\* The proposer has two units of weight, the others one each, and more than two
\* thirds make a QC; more than half of the beacon signers have enough shares.
MCStakingQuorums == {S \in SUBSET Voters : s1 \in S /\ Cardinality(S) >= 2}
MCBeaconQuorums == {S \in SUBSET BeaconSigners : 2 * Cardinality(S) > Cardinality(BeaconSigners)}

\* The others vote for either block, or for both; one vote is invalid.
VoteFor(s, b) == [signer |-> s, block |-> b]
MCArriving == {VoteFor(s2, b1), VoteFor(s2, b2), VoteFor(s3, b1), VoteFor(s3, b2)}
MCInvalid == {VoteFor(s3, b2)}

\* The proposal and a vote are of the first view, the other vote of the second.
MCViewOf == [m \in {p1, v1, v2} |-> IF m = v2 THEN FirstView + 1 ELSE FirstView]

\* Three timeouts of a quorum that disagree about the last view, a second
\* timeout of one signer, and one that does not prove that its view was reached.
MCWeight == [s \in {s1, s2, s3, s4} |-> IF s = s1 THEN 2 ELSE 1]
Timeout(s, qc, tc, valid, signed) ==
    [signer |-> s, qc |-> qc, tc |-> tc, valid |-> valid, signed |-> signed]
TCAfter(qc) == [view |-> 2, qc |-> qc]
MCTimeouts ==
    {Timeout(s1, 2, None, TRUE, TRUE),
     Timeout(s2, 1, TCAfter(1), TRUE, TRUE),
     Timeout(s2, 2, None, TRUE, TRUE),
     Timeout(s3, 1, TCAfter(1), TRUE, TRUE),
     Timeout(s4, 1, None, TRUE, TRUE)}

\* The first two are a quorum; the third is badly signed, the fourth has an
\* invalid certificate.
MCUnverified ==
    {Timeout(s1, 1, TCAfter(1), TRUE, TRUE),
     Timeout(s2, 1, TCAfter(1), TRUE, TRUE),
     Timeout(s3, 1, TCAfter(1), TRUE, FALSE),
     Timeout(s4, 2, TCAfter(1), FALSE, TRUE)}
MCUnverifiedWeight == [s \in {s1, s2, s3, s4} |-> IF s \in {s1, s2} THEN 4 ELSE 1]

Certificate(kind, view, qc) == [kind |-> kind, view |-> view, qc |-> qc]
MCCertificates ==
    {Certificate("TC", 2, 2), Certificate("TC", 3, 1), Certificate("partialTC", 2, 0)}

-----------------------------------------------------------------------------
Init ==
    /\ subject \in Subjects
    /\ unsent \in IF subject = "aggregator" THEN Proposals \cup Votes ELSE {None}
    /\ V!Init
    /\ A!Init
    /\ totalWeight = 0
    /\ C!Init
    /\ L!Init

NextWeight ==
    /\ subject = "threshold" /\ totalWeight < MaxWeight
    /\ totalWeight' = totalWeight + 1
    /\ UNCHANGED <<subject, unsent, votes, aggregator, collector, eventLoop>>

OnlyVotes ==
    subject = "votes" /\ UNCHANGED <<subject, unsent, aggregator, totalWeight, collector, eventLoop>>
OnlyAggregator ==
    /\ subject = "aggregator" /\ UNCHANGED <<subject, unsent, votes, totalWeight, collector, eventLoop>>
OnlyCollector ==
    subject = "timeouts" /\ UNCHANGED <<subject, unsent, votes, aggregator, totalWeight, eventLoop>>
OnlyLoop ==
    subject = "loop" /\ UNCHANGED <<subject, unsent, votes, aggregator, totalWeight, collector>>

Next ==
    \/ OnlyVotes /\ V!Next
    \/ OnlyAggregator /\ A!Next /\ caller'[unsent] = "idle"
    \/ NextWeight
    \/ OnlyCollector /\ C!Next
    \/ OnlyLoop /\ L!Next

\* The steps that are fair in the component the behaviour exercises.
Step ==
    \/ OnlyVotes /\ V!Step
    \/ OnlyAggregator /\ A!Step
    \/ OnlyCollector /\ C!Step
    \/ OnlyLoop /\ L!Step

Spec == Init /\ [][Next]_vars /\ WF_vars(Step)

-----------------------------------------------------------------------------
\* Where the variables may be.
TypeOK == V!TypeOK /\ A!TypeOK /\ C!TypeOK /\ L!TypeOK

\* No vote and no timeout is an internal error, which would stop the node: a cached
\* vote never meets the processor of another block (VoteCollector), and no signer
\* passes the cache twice (TimeoutCollector).
NoInternalError == V!NoFatalVote /\ C!NoFatalTimeout

\* VoteCollector: a QC is built once per view, although several workers may see
\* enough weight at the same time and the leader may have made several proposals.
OneQC == V!OneQC

\* VoteCollector: a QC holds enough signatures of both kinds, and only of signers
\* whose valid vote for the block was received, or who proposed it.
QCIsSupported == V!QCIsSupported

\* VoteCollector: no vote is lost on the way from the cache to the processor.
NoVoteLost == V!NoVoteLost

\* VoteAggregator: the proposal and the votes of a view that is not pruned meet in
\* one collector.
NoSplitVotes == A!NoSplitVotes

\* VoteAggregator: no wake-up is lost.  What is queued reaches a collector, and
\* pruning catches up with finalization.
NoLostWakeUp == A!QueuedIsDelivered /\ A!PruningCatchesUp

\* VoteAggregator: only the collectors of views that are not pruned are retained.
OnlyRetainedViews == A!OnlyRetainedViews

\* Threshold: two quorums share a correct replica and the correct replicas are a
\* quorum, for every total weight up to the bound.
ThresholdsAreSound == totalWeight > 0 => T!ThresholdsAreSound(totalWeight)

\* TimeoutCollector: one TC and one partial TC at most.
OneTC == C!OneTC

\* TimeoutCollector: the TC passes the validation of the replicas that receive it.
TCIsValid == C!TCIsValid

\* TimeoutCollector: the partial TC proves that its view was reached.
PartialTCProvesView == C!PartialTCProvesView

\* Enough valid votes make a QC, unless the leader equivocates (VoteCollector), and
\* a quorum of valid timeouts makes a TC (TimeoutCollector).
CertificateFollows == V!QCFollows /\ C!QuorumMakesTC

\* TimeoutCollector: the certificates that are reported are verified.
OnlyVerifiedReported == C!OnlyVerifiedReported

\* EventLoop: once the timer has fired, one event without priority at most comes
\* before OnLocalTimeout.
TimeoutPriority == L!TimeoutPriority

\* EventLoop: nothing submitted is lost, only replaced by something newer, and no
\* submitter of a proposal is stuck.
SubmittedIsHandled == L!SubmittedIsHandled /\ L!SubmittersReturn

=============================================================================
