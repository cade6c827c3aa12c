--------------------------- MODULE VoteCollector ---------------------------
(***************************************************************************)
(* The vote collector of one view (consensus/hotstuff/votecollector): a    *)
(* lock-free state machine that caches votes until a proposal arrives, then*)
(* verifies them with a vote processor for that block and builds a QC, and *)
(* stops when the leader turns out to equivocate.                          *)
(*                                                                         *)
(* Votes and proposals are handled by concurrent goroutines.  A task is one*)
(* run of VoteCollector.processVote; its steps are the accesses to shared  *)
(* state.  The cache lets at most one AddVote per vote go on to processing,*)
(* and cached votes are fed at most once, so a task is named by its origin *)
(* and its vote.                                                           *)
(***************************************************************************)
EXTENDS Naturals, Sequences

CONSTANTS
    Signers,        \* the committee
    Proposer,       \* the leader of the view, who may be Byzantine
    Blocks,         \* its proposals for the view
    StakingQuorums, \* the sets of signers that reach the QC weight threshold
    BeaconSigners,  \* those who also sign with their random beacon key
    BeaconQuorums,  \* the sets of beacon signers with enough shares
    InvalidVotes,   \* the votes with an invalid signature
    Arriving,       \* bound: the votes that may arrive
    None,           \* no vote
    Caching, Invalid  \* processors that do nothing: NoopCollector

Vote == [signer : Signers, block : Blocks]
Tasks == {"added", "cached"} \X Vote

Enough(quorums, S) == \E Q \in quorums : Q \subseteq S

\* What the model assumes of its constants.  The proposer alone is not enough,
\* so that creating a processor, which processes the proposer's vote, builds no QC.
ConstantsAssumption ==
    /\ Arriving \subseteq Vote
    /\ Proposer \in Signers
    /\ None \notin Blocks /\ Caching \notin Blocks /\ Invalid \notin Blocks
    /\ Caching # Invalid /\ "verifying" \notin {Caching, Invalid}
    /\ ~ (/\ Enough(StakingQuorums, {Proposer})
          /\ Enough(BeaconQuorums, {Proposer} \cap BeaconSigners))

VARIABLES
    votesCache,  \* VotesCache.votes: the first vote of every signer
    processor,   \* votesProcessor: Caching, Invalid or the block it verifies for
    staking,     \* the signers in each processor's stakingSigAggtor
    beacon,      \* the signers in each processor's rbRector
    done,        \* CombinedVoteProcessorV2.done
    qcs,         \* the QCs handed to onQCCreated, in order
    task,        \* where each run of processVote is, and the processor it loaded
    proposal     \* where each run of ProcessBlock is

vars == <<votesCache, processor, staking, beacon, done, qcs, task, proposal>>
aggregators == <<staking, beacon, done>>

-----------------------------------------------------------------------------
Init ==
    /\ votesCache = [s \in Signers |-> None]
    /\ processor = Caching
    /\ staking = [b \in Blocks |-> {}]
    /\ beacon = [b \in Blocks |-> {}]
    /\ done = [b \in Blocks |-> FALSE]
    /\ qcs = <<>>
    /\ task = [t \in Tasks |-> [at |-> "idle", proc |-> Caching]]
    /\ proposal = [b \in Blocks |-> "idle"]

At(t, pc) == task[t].at = pc
Goto(t, pc) == task' = [task EXCEPT ![t].at = pc]

\* NoopCollector.Status and CombinedVoteProcessorV2.Status
Status(p) == IF p \in Blocks THEN "verifying" ELSE p

\* VoteCollector.AddVote with VotesCache.AddVote.  (A repeated vote and a double
\* vote are reported and dropped.)
AddVote(v) ==
    /\ votesCache[v.signer] = None
    /\ votesCache' = [votesCache EXCEPT ![v.signer] = v.block]
    /\ Goto(<<"added", v>>, "load")
    /\ UNCHANGED <<processor, aggregators, qcs, proposal>>

-----------------------------------------------------------------------------
(***************************************************************************)
(* VoteCollector.processVote and CombinedVoteProcessorV2.Process.          *)
(***************************************************************************)
LoadProcessor(t) ==
    /\ At(t, "load")
    /\ task' = [task EXCEPT ![t] = [at |-> "process", proc |-> processor]]
    /\ UNCHANGED <<votesCache, processor, aggregators, qcs, proposal>>

\* An invalid vote ends the run with a report.  So does a vote for another block
\* that was just added; a cached one is an internal error that stops the node.
ProcessVote(t) ==
    LET p == task[t].proc v == t[2] IN
    /\ At(t, "process")
    /\ \/ p \notin Blocks /\ Goto(t, "status")
       \/ p \in Blocks /\ p # v.block /\ Goto(t, IF t[1] = "cached" THEN "fatal" ELSE "done")
       \/ p = v.block /\ done[p] /\ Goto(t, "status")
       \/ p = v.block /\ ~ done[p] /\ v \in InvalidVotes /\ Goto(t, "done")
       \/ p = v.block /\ ~ done[p] /\ v \notin InvalidVotes /\ Goto(t, "add")
    /\ UNCHANGED <<votesCache, processor, aggregators, qcs, proposal>>

\* WeightedSignatureAggregator.TrustedAdd; a duplicate ends the run.
AddStakingSig(t) ==
    LET b == t[2].block s == t[2].signer IN
    /\ At(t, "add")
    /\ \/ s \in staking[b] /\ Goto(t, "done")
       \/ s \notin staking[b] /\ s \in BeaconSigners /\ Goto(t, "beacon")
       \/ s \notin staking[b] /\ s \notin BeaconSigners /\ Goto(t, "check")
    /\ staking' = [staking EXCEPT ![b] = @ \cup {s}]
    /\ UNCHANGED <<votesCache, processor, beacon, done, qcs, proposal>>

AddBeaconSig(t) ==
    LET b == t[2].block IN
    /\ At(t, "beacon")
    /\ beacon' = [beacon EXCEPT ![b] = @ \cup {t[2].signer}]
    /\ Goto(t, "check")
    /\ UNCHANGED <<votesCache, processor, staking, done, qcs, proposal>>

EnoughForQC(b) ==
    Enough(StakingQuorums, staking[b]) /\ Enough(BeaconQuorums, beacon[b])

\* Mutated form: done is not checked and set in one step.
CheckWithoutSwap(t) ==
    LET b == t[2].block IN
    /\ At(t, "check")
    /\ \/ EnoughForQC(b) /\ Goto(t, "build")
       \/ ~ EnoughForQC(b) /\ Goto(t, "status")
    /\ done' = [done EXCEPT ![b] = @ \/ EnoughForQC(b)]
    /\ UNCHANGED <<votesCache, processor, staking, beacon, qcs, proposal>>

\* Mutated form: done is set before the weights are checked.
CheckAfterSwap(t) ==
    LET b == t[2].block IN
    /\ At(t, "check")
    /\ \/ EnoughForQC(b) /\ ~ done[b] /\ Goto(t, "build")
       \/ ~ (EnoughForQC(b) /\ ~ done[b]) /\ Goto(t, "status")
    /\ done' = [done EXCEPT ![b] = TRUE]
    /\ UNCHANGED <<votesCache, processor, staking, beacon, qcs, proposal>>

\* Mutated form: the random beacon shares are not counted.
CheckStakingOnly(t) ==
    LET b == t[2].block enough == Enough(StakingQuorums, staking[b]) IN
    /\ At(t, "check")
    /\ \/ enough /\ ~ done[b] /\ Goto(t, "build")
       \/ ~ (enough /\ ~ done[b]) /\ Goto(t, "status")
    /\ done' = [done EXCEPT ![b] = @ \/ enough]
    /\ UNCHANGED <<votesCache, processor, staking, beacon, qcs, proposal>>

\* The weights only grow, so that reading them and the compare-and-swap on done
\* have the effect of one step.
CheckWeight(t) ==
    LET b == t[2].block IN
    /\ At(t, "check")
    /\ \/ EnoughForQC(b) /\ ~ done[b] /\ Goto(t, "build")
       \/ ~ (EnoughForQC(b) /\ ~ done[b]) /\ Goto(t, "status")
    /\ done' = [done EXCEPT ![b] = @ \/ EnoughForQC(b)]
    /\ UNCHANGED <<votesCache, processor, staking, beacon, qcs, proposal>>

\* CombinedVoteProcessorV2.buildQC
BuildQC(t) ==
    LET b == t[2].block IN
    /\ At(t, "build")
    /\ qcs' = Append(qcs, [block |-> b, signers |-> staking[b], shares |-> beacon[b]])
    /\ Goto(t, "status")
    /\ UNCHANGED <<votesCache, processor, aggregators, proposal>>

\* The compare-and-repeat pattern of processVote
CompareStatus(t) ==
    /\ At(t, "status")
    /\ \/ Status(task[t].proc) # Status(processor) /\ Goto(t, "load")
       \/ Status(task[t].proc) = Status(processor) /\ Goto(t, "done")
    /\ UNCHANGED <<votesCache, processor, aggregators, qcs, proposal>>

-----------------------------------------------------------------------------
(***************************************************************************)
(* VoteCollector.ProcessBlock.                                             *)
(***************************************************************************)
BlockAt(b, pc) == proposal[b] = pc
BlockGoto(b, pc) == proposal' = [proposal EXCEPT ![b] = pc]

ProcessBlock(b) ==
    /\ BlockAt(b, "idle")
    /\ BlockGoto(b, "load")
    /\ UNCHANGED <<votesCache, processor, aggregators, qcs, task>>

InspectProcessor(b) ==
    /\ BlockAt(b, "load")
    /\ \/ processor = Caching /\ BlockGoto(b, "swap")
       \/ processor \in Blocks /\ BlockGoto(b, IF processor = b THEN "done" ELSE "terminate")
       \/ processor = Invalid /\ BlockGoto(b, "done")
    /\ UNCHANGED <<votesCache, processor, aggregators, qcs, task>>

\* Mutated form: the state is not checked again under the lock.
SwapUnchecked(b) ==
    /\ BlockAt(b, "swap")
    /\ processor' = b
    /\ staking' = [staking EXCEPT ![b] = {Proposer}]
    /\ beacon' = [beacon EXCEPT ![b] = {Proposer} \cap BeaconSigners]
    /\ BlockGoto(b, "feed")
    /\ UNCHANGED <<votesCache, done, qcs, task>>

\* VoteCollector.caching2Verifying: VoteProcessorFactory.Create has already put
\* the proposer's vote into the new processor.
Caching2Verifying(b) ==
    /\ BlockAt(b, "swap")
    /\ \/ /\ processor = Caching
          /\ processor' = b
          /\ staking' = [staking EXCEPT ![b] = {Proposer}]
          /\ beacon' = [beacon EXCEPT ![b] = {Proposer} \cap BeaconSigners]
          /\ BlockGoto(b, "feed")
       \/ /\ processor # Caching
          /\ BlockGoto(b, "load")
          /\ UNCHANGED <<processor, staking, beacon>>
    /\ UNCHANGED <<votesCache, done, qcs, task>>

\* Mutated form: the votes that came before the block are not looked at.
LeaveCachedVotes(b) ==
    /\ BlockAt(b, "feed")
    /\ BlockGoto(b, "done")
    /\ UNCHANGED <<votesCache, processor, aggregators, qcs, task>>

\* VoteCollector.processCachedVotes: a worker will process each cached vote.
ProcessCachedVotes(b) ==
    /\ BlockAt(b, "feed")
    /\ task' = [t \in Tasks |->
          IF t[1] = "cached" /\ t[2].block = b /\ votesCache[t[2].signer] = b
          THEN [task[t] EXCEPT !.at = "load"]
          ELSE task[t]]
    /\ BlockGoto(b, "done")
    /\ UNCHANGED <<votesCache, processor, aggregators, qcs>>

\* VoteCollector.terminateVoteProcessing
TerminateVoteProcessing(b) ==
    /\ BlockAt(b, "terminate")
    /\ processor' = Invalid
    /\ BlockGoto(b, "done")
    /\ UNCHANGED <<votesCache, aggregators, qcs, task>>

-----------------------------------------------------------------------------
TaskStep(t) ==
    \/ LoadProcessor(t)
    \/ ProcessVote(t)
    \/ AddStakingSig(t)
    \/ AddBeaconSig(t)
    \/ CheckWeight(t)
    \/ BuildQC(t)
    \/ CompareStatus(t)

BlockStep(b) ==
    \/ InspectProcessor(b)
    \/ Caching2Verifying(b)
    \/ ProcessCachedVotes(b)
    \/ TerminateVoteProcessing(b)

\* What the goroutines do once they have been started
Step ==
    \/ \E b \in Blocks : BlockStep(b)
    \/ \E t \in Tasks : TaskStep(t)

Next ==
    \/ \E v \in Arriving : AddVote(v)
    \/ \E b \in Blocks : ProcessBlock(b)
    \/ Step

\* A goroutine that has been started runs on; none waits for another, and none
\* can run forever.  Whether votes and proposals arrive is up to the network.
Fairness == WF_vars(Step)

Spec == Init /\ [][Next]_vars /\ Fairness

-----------------------------------------------------------------------------
(***************************************************************************)
(* Properties.                                                             *)
(***************************************************************************)

\* Where the variables may be.
TypeOK ==
    /\ votesCache \in [Signers -> Blocks \cup {None}]
    /\ processor \in Blocks \cup {Caching, Invalid}
    /\ staking \in [Blocks -> SUBSET Signers]
    /\ beacon \in [Blocks -> SUBSET BeaconSigners]
    /\ done \in [Blocks -> BOOLEAN]
    /\ task \in [Tasks -> [at : {"idle", "load", "process", "add", "beacon", "check",
                                 "build", "status", "done", "fatal"},
                           proc : Blocks \cup {Caching, Invalid}]]
    /\ proposal \in [Blocks -> {"idle", "load", "swap", "feed", "terminate", "done"}]

\* The node never stops because a cached vote met the processor of another
\* block: the vote is cached for the block that won the transition to verifying,
\* and no processor replaces that block's later.
NoFatalVote == \A t \in Tasks : ~ At(t, "fatal")

\* A QC is built once per view, although several workers may see enough weight
\* at the same time and the leader may have made several proposals.
OneQC == Len(qcs) <= 1

\* A QC holds enough signatures of both kinds, and only of signers whose vote
\* for the block was received and valid, or who proposed it.
QCIsSupported ==
    \A i \in DOMAIN qcs :
        /\ Enough(StakingQuorums, qcs[i].signers)
        /\ Enough(BeaconQuorums, qcs[i].shares)
        /\ \A s \in qcs[i].signers \ {Proposer} :
              /\ votesCache[s] = qcs[i].block
              /\ [signer |-> s, block |-> qcs[i].block] \notin InvalidVotes

\* No vote is lost between the cache and the processor: when all goroutines are done
\* and the collector verifies votes for a block, every valid vote for it has
\* been counted, or the QC was there first, no matter whether the vote came
\* before, during or after the transition from caching to verifying.
NoVoteLost ==
    \A b \in Blocks :
        /\ processor = b
        /\ \A t \in Tasks : task[t].at \in {"idle", "done", "fatal"}
        /\ \A c \in Blocks : proposal[c] \in {"idle", "done"}
        => \A s \in Signers :
              votesCache[s] = b /\ [signer |-> s, block |-> b] \notin InvalidVotes =>
                  s \in staking[b] \/ done[b]

ValidVoters(b) ==
    {Proposer} \cup {s \in Signers : votesCache[s] = b
                        /\ [signer |-> s, block |-> b] \notin InvalidVotes}

\* As soon as enough valid votes for the block under verification are there, a
\* QC follows, unless the leader equivocates.
QCFollows ==
    []<>(\A b \in Blocks :
            /\ processor = b
            /\ Enough(StakingQuorums, ValidVoters(b))
            /\ Enough(BeaconQuorums, ValidVoters(b) \cap BeaconSigners)
            => qcs # <<>>)

=============================================================================
