------------------------ MODULE VoteCollectorProofs ------------------------
(***************************************************************************)
(* TLAPS proofs about VoteCollector as MCCollectors composes it: for every *)
(* committee, every set of proposals of a leader and every interleaving of *)
(* the goroutines, the collector builds one QC at most, of votes it has    *)
(* received, loses no vote and meets no internal error.                    *)
(***************************************************************************)
EXTENDS MCCollectors, TLAPS

\* A QC as CombinedVoteProcessorV2.buildQC makes it
QCs == [block : Blocks, signers : SUBSET Voters, shares : SUBSET BeaconSigners]

\* The block has had a processor: caching2Verifying has put the proposer's vote
\* into it, and signatures are never removed.
Opened(b) == staking[b] # {}

\* What the vote of a task is for, and whether its signature is valid
BlockOf(t) == t[2].block
SignerOf(t) == t[2].signer

\* The tasks between the verification of their vote and the end of Process
Verified(t) == task[t].at \in {"add", "beacon", "check", "build"}

-----------------------------------------------------------------------------
(***************************************************************************)
(* The inductive invariant.                                                *)
(***************************************************************************)

\* Only one block ever gets a processor, and nothing happens to votes for another:
\* processor goes from Caching to a block and from there to Invalid.
OneProcessor ==
    /\ processor = Caching => \A b \in Blocks : ~ Opened(b)
    /\ processor \in Blocks => Opened(processor)
    /\ \A b, c \in Blocks : Opened(b) /\ Opened(c) => b = c
    /\ \A b \in Blocks : done[b] => Opened(b)
    /\ \A b \in Blocks : proposal[b] = "feed" => Opened(b)
    /\ \A t \in V!Tasks : task[t].proc \in Blocks => Opened(task[t].proc)
    /\ \A t \in V!Tasks : task[t].proc = Invalid => processor = Invalid

\* What a run of processVote may rely on where it is.
TaskOK(t) ==
    /\ task[t].at # "idle" => votesCache[SignerOf(t)] = BlockOf(t)
    /\ t[1] = "cached" /\ task[t].at # "idle" => Opened(BlockOf(t))
    /\ t[1] = "cached" /\ task[t].at = "process" => task[t].proc \in {BlockOf(t), Invalid}
    /\ Verified(t) => task[t].proc = BlockOf(t) /\ t[2] \notin InvalidVotes
    /\ task[t].at = "beacon" => SignerOf(t) \in BeaconSigners
    /\ task[t].at # "fatal"

TaskInv == \A t \in V!Tasks : TaskOK(t)

\* The signatures in a processor are of signers whose vote is cached and valid.
SignaturesInv ==
    \A b \in Blocks : \A s \in staking[b] \ {Proposer} :
        votesCache[s] = b /\ [signer |-> s, block |-> b] \notin InvalidVotes

\* Whoever sets done builds the QC, and nobody else.
BuildInv ==
    /\ \A t \in V!Tasks :
          task[t].at = "build" => done[BlockOf(t)] /\ V!EnoughForQC(BlockOf(t)) /\ qcs = <<>>
    /\ \A t, u \in V!Tasks : task[t].at = "build" /\ task[u].at = "build" => t = u
    /\ qcs # <<>> => Len(qcs) = 1 /\ \E b \in Blocks : done[b]

\* A run of processVote that has still to count its vote: it will load the processor,
\* has loaded that of the block, or will see that it has changed and load it again.
Pending(t) ==
    \/ task[t].at \in {"load", "add"}
    \/ task[t].at = "process" /\ task[t].proc \in {BlockOf(t), Caching}
    \/ task[t].at = "status" /\ task[t].proc = Caching

\* A valid vote for the block under verification is counted, or no longer needed, or
\* about to be fed from the cache, or a run of processVote has still to count it.
CountedInv ==
    \A v \in V!Vote :
        /\ processor = v.block /\ votesCache[v.signer] = v.block /\ v \notin InvalidVotes
        => \/ v.signer \in staking[v.block] \/ done[v.block]
           \/ proposal[v.block] = "feed"
           \/ Pending(<<"added", v>>) \/ Pending(<<"cached", v>>)

VotesInv ==
    /\ V!TypeOK
    /\ qcs \in Seq(QCs)
    /\ OneProcessor
    /\ TaskInv
    /\ SignaturesInv
    /\ BuildInv
    /\ V!QCIsSupported
    /\ CountedInv

-----------------------------------------------------------------------------
(***************************************************************************)
(* Every step keeps the invariant.                                         *)
(***************************************************************************)

\* More signatures are enough when fewer are: the weights of the aggregators only grow.
LEMMA EnoughMonotone ==
    ASSUME NEW quorums, NEW S, NEW R, S \subseteq R, V!Enough(quorums, S)
    PROVE  V!Enough(quorums, R)
BY DEF V!Enough

\* A task that is under way is about a vote of the instance.
LEMMA TasksAreVotes ==
    ASSUME NEW t \in V!Tasks
    PROVE  /\ t[1] \in {"added", "cached"} /\ t[2] \in V!Vote
           /\ SignerOf(t) \in Voters /\ BlockOf(t) \in Blocks
           /\ t[2] = [signer |-> SignerOf(t), block |-> BlockOf(t)]
           /\ t = <<t[1], t[2]>>
BY DEF V!Tasks, V!Vote, SignerOf, BlockOf

\* The markers for no vote and for no processor are no blocks.
LEMMA Constants ==
    /\ Arriving \subseteq V!Vote /\ Proposer \in Voters
    /\ None \notin Blocks /\ Caching \notin Blocks /\ Invalid \notin Blocks
    /\ Caching # Invalid /\ "verifying" # Caching /\ "verifying" # Invalid
BY CollectorsAssumption DEF CollectorsAssumption, V!ConstantsAssumption

\* The invariant holds of a collector that has just been created.
LEMMA VotesInit == V!Init => VotesInv
<1> SUFFICES ASSUME V!Init PROVE VotesInv
  OBVIOUS
<1> USE Constants
<1>1. V!TypeOK
  BY DEF V!Init, V!TypeOK
<1>2. qcs = <<>> /\ qcs \in Seq(QCs)
  BY DEF V!Init
<1>3. OneProcessor
  BY DEF V!Init, OneProcessor, Opened
<1>4. TaskInv
  BY DEF V!Init, TaskInv, TaskOK, Verified
<1>5. SignaturesInv
  BY DEF V!Init, SignaturesInv
<1>6. BuildInv
  BY <1>2 DEF V!Init, BuildInv
<1>7. V!QCIsSupported
  BY <1>2 DEF V!QCIsSupported
<1>8. CountedInv
  BY DEF V!Init, CountedInv, V!Vote
<1> QED BY <1>1, <1>2, <1>3, <1>4, <1>5, <1>6, <1>7, <1>8 DEF VotesInv

\* A task that moves takes along the processor it has loaded, and moves alone.
LEMMA GotoEffect ==
    ASSUME V!TypeOK, NEW t \in V!Tasks, NEW pc, V!Goto(t, pc)
    PROVE  \A u \in V!Tasks :
              /\ task'[u].at = IF u = t THEN pc ELSE task[u].at
              /\ task'[u].proc = task[u].proc
BY DEF V!TypeOK, V!Goto

-----------------------------------------------------------------------------
(***************************************************************************)
(* What keeps each part of the invariant.                                  *)
(***************************************************************************)

\* VotesCache.AddVote keeps the first vote of a signer.
CacheGrows == \A s \in Voters : votesCache[s] # None => votesCache'[s] = votesCache[s]

\* No signature is removed from an aggregator.
SignaturesGrow == \A b \in Blocks : staking[b] \subseteq staking'[b] /\ beacon[b] \subseteq beacon'[b]

\* Signatures that are supported by cached votes stay so.
LEMMA SignaturesKept ==
    ASSUME VotesInv, UNCHANGED staking, CacheGrows
    PROVE  SignaturesInv'
<1> SUFFICES ASSUME NEW b \in Blocks, NEW s \in staking[b] \ {Proposer}
             PROVE  votesCache'[s] = b /\ [signer |-> s, block |-> b] \notin InvalidVotes
  BY DEF SignaturesInv
<1>1. votesCache[s] = b /\ [signer |-> s, block |-> b] \notin InvalidVotes
  BY DEF VotesInv, SignaturesInv
<1>2. s \in Voters
  BY DEF VotesInv, V!TypeOK
<1> QED BY <1>1, <1>2, Constants DEF CacheGrows

\* And so do QCs.
LEMMA SupportKept ==
    ASSUME VotesInv, UNCHANGED qcs, CacheGrows
    PROVE  V!QCIsSupported'
<1> SUFFICES ASSUME NEW i \in DOMAIN qcs, NEW s \in qcs[i].signers \ {Proposer}
             PROVE  votesCache'[s] = qcs[i].block
  BY DEF VotesInv, V!QCIsSupported
<1>1. votesCache[s] = qcs[i].block
  BY DEF VotesInv, V!QCIsSupported
<1>2. qcs[i] \in QCs
  BY DEF VotesInv
<1>3. s \in Voters /\ qcs[i].block \in Blocks
  BY <1>2 DEF QCs
<1> QED BY <1>1, <1>3, Constants DEF CacheGrows

\* A task that does not move may rely on the same as before.
LEMMA TaskKept ==
    ASSUME VotesInv, CacheGrows, SignaturesGrow, NEW t \in V!Tasks,
           task'[t].at = task[t].at, task'[t].proc = task[t].proc
    PROVE  TaskOK(t)'
<1>1. SignerOf(t) \in Voters /\ BlockOf(t) \in Blocks
  BY TasksAreVotes
<1>2. TaskOK(t)
  BY DEF VotesInv, TaskInv
<1>3. task[t].at # "idle" => votesCache'[SignerOf(t)] = BlockOf(t)
  BY <1>1, <1>2, Constants DEF TaskOK, CacheGrows
<1>4. Opened(BlockOf(t)) => Opened(BlockOf(t))'
  BY <1>1 DEF Opened, SignaturesGrow, BlockOf
<1> QED BY <1>2, <1>3, <1>4 DEF TaskOK, Verified, SignerOf, BlockOf

\* As long as no vote processor is installed, tasks get theirs from the collector.
LEMMA ProcessorKept ==
    ASSUME VotesInv, UNCHANGED processor, SignaturesGrow,
           \A b \in Blocks : Opened(b)' => Opened(b),
           \A b \in Blocks : done'[b] => Opened(b),
           \A b \in Blocks : proposal'[b] = "feed" => proposal[b] = "feed",
           \A t \in V!Tasks : task'[t].proc \in {task[t].proc, processor}
    PROVE  OneProcessor'
<1>1. OneProcessor
  BY DEF VotesInv
<1>2. \A b \in Blocks : Opened(b)' <=> Opened(b)
  BY DEF Opened, SignaturesGrow
<1>3. \A t \in V!Tasks : task'[t].proc \in Blocks => Opened(task'[t].proc)
  BY <1>1 DEF OneProcessor
<1>4. \A t \in V!Tasks : task'[t].proc = Invalid => processor = Invalid
  BY <1>1 DEF OneProcessor
<1>5. \A b \in Blocks : proposal'[b] = "feed" => Opened(b)
  BY <1>1 DEF OneProcessor
<1> QED BY <1>1, <1>2, <1>3, <1>4, <1>5 DEF OneProcessor, Opened

\* As long as nobody sets done, nobody starts to build a QC.
LEMMA BuildKept ==
    ASSUME VotesInv, UNCHANGED <<done, qcs>>, SignaturesGrow,
           \A t \in V!Tasks : task'[t].at = "build" => task[t].at = "build"
    PROVE  BuildInv'
<1>1. \A b \in Blocks : V!EnoughForQC(b) => V!EnoughForQC(b)'
  BY EnoughMonotone DEF V!EnoughForQC, SignaturesGrow
<1>2. BuildInv
  BY DEF VotesInv
<1>3. \A t \in V!Tasks : BlockOf(t) \in Blocks
  BY TasksAreVotes
<1> QED BY <1>1, <1>2, <1>3 DEF BuildInv, BlockOf

\* A vote stays counted, and one that is not is lost only if a task that had to count
\* it gives up.
LEMMA CountedKept ==
    ASSUME VotesInv, UNCHANGED <<votesCache, processor>>, SignaturesGrow,
           \A b \in Blocks : done[b] => done'[b],
           \A b \in Blocks : proposal[b] = "feed" => proposal'[b] = "feed",
           \A t \in V!Tasks : 
              /\ Pending(t) /\ processor = BlockOf(t) /\ t[2] \notin InvalidVotes
              => Pending(t)' \/ SignerOf(t) \in staking'[BlockOf(t)] \/ done'[BlockOf(t)]
    PROVE  CountedInv'
<1> SUFFICES ASSUME NEW v \in V!Vote,
                    processor = v.block, votesCache[v.signer] = v.block, v \notin InvalidVotes
             PROVE  \/ v.signer \in staking'[v.block] \/ done'[v.block]
                    \/ proposal'[v.block] = "feed"
                    \/ Pending(<<"added", v>>)' \/ Pending(<<"cached", v>>)'
  BY DEF CountedInv
<1>1. /\ v.signer \in Voters /\ v.block \in Blocks
      /\ <<"added", v>> \in V!Tasks /\ <<"cached", v>> \in V!Tasks
  BY DEF V!Vote, V!Tasks
<1>2. \A o \in {"added", "cached"} :
         BlockOf(<<o, v>>) = v.block /\ SignerOf(<<o, v>>) = v.signer /\ <<o, v>>[2] = v
  BY DEF BlockOf, SignerOf
<1>3. \/ v.signer \in staking[v.block] \/ done[v.block]
      \/ proposal[v.block] = "feed"
      \/ Pending(<<"added", v>>) \/ Pending(<<"cached", v>>)
  BY DEF VotesInv, CountedInv
<1> QED BY <1>1, <1>2, <1>3 DEF SignaturesGrow

-----------------------------------------------------------------------------
(***************************************************************************)
(* The actions.                                                            *)
(***************************************************************************)

\* VoteCollector.AddVote: the cache has no vote of the signer yet.
LEMMA AddVoteKeepsInv ==
    ASSUME VotesInv, NEW v \in Arriving, V!AddVote(v)
    PROVE  VotesInv'
<1> USE Constants
<1> DEFINE new == <<"added", v>>
<1>1. /\ v \in V!Vote /\ v.signer \in Voters /\ v.block \in Blocks
      /\ new \in V!Tasks /\ SignerOf(new) = v.signer /\ BlockOf(new) = v.block
      /\ new[1] = "added"
  BY DEF V!Vote, V!Tasks, SignerOf, BlockOf
<1> HIDE DEF new
<1>2. /\ votesCache[v.signer] = None
      /\ votesCache' = [votesCache EXCEPT ![v.signer] = v.block]
      /\ V!Goto(new, "load")
      /\ UNCHANGED <<processor, staking, beacon, done, qcs, proposal>>
  BY DEF V!AddVote, V!aggregators, new
<1>3. \A u \in V!Tasks : /\ task'[u].at = IF u = new THEN "load" ELSE task[u].at
                         /\ task'[u].proc = task[u].proc
  BY <1>1, <1>2, GotoEffect DEF VotesInv
<1>4. \A s \in Voters : votesCache'[s] = IF s = v.signer THEN v.block ELSE votesCache[s]
  BY <1>1, <1>2 DEF VotesInv, V!TypeOK
<1>5. V!TypeOK'
  BY <1>1, <1>2 DEF VotesInv, V!TypeOK, V!Goto
<1>6. CacheGrows /\ SignaturesGrow
  BY <1>2, <1>4 DEF CacheGrows, SignaturesGrow
<1>7. OneProcessor'
  BY <1>2, <1>3 DEF VotesInv, OneProcessor, Opened
<1>8. TaskInv'
  <2>1. TaskOK(new)'
    BY <1>1, <1>3, <1>4 DEF TaskOK, Verified, SignerOf, BlockOf
  <2> QED BY <1>3, <1>6, <2>1, TaskKept DEF TaskInv
<1>9. SignaturesInv' /\ BuildInv' /\ V!QCIsSupported'
  BY <1>2, <1>3, <1>6, SignaturesKept, BuildKept, SupportKept
<1>10. CountedInv'
  <2> SUFFICES ASSUME NEW w \in V!Vote,
                      processor = w.block, votesCache'[w.signer] = w.block, w \notin InvalidVotes
               PROVE  \/ w.signer \in staking[w.block] \/ done[w.block]
                      \/ proposal[w.block] = "feed"
                      \/ Pending(<<"added", w>>)' \/ Pending(<<"cached", w>>)'
    BY <1>2 DEF CountedInv
  <2>1. w.signer \in Voters /\ w.block \in Blocks /\ <<"added", w>> \in V!Tasks /\ <<"cached", w>> \in V!Tasks
    BY DEF V!Vote, V!Tasks
  <2>2. CASE w.signer = v.signer
    BY <1>1, <1>3, <1>4, <2>1, <2>2 DEF Pending, new, V!Vote
  <2>3. CASE w.signer # v.signer
    BY <1>1, <1>2, <1>3, <1>4, <2>1, <2>3 DEF VotesInv, CountedInv, Pending, new
  <2> QED BY <2>2, <2>3
<1> QED BY <1>2, <1>5, <1>7, <1>8, <1>9, <1>10 DEF VotesInv


\* A run of processVote takes a step that only moves it, and it is not one that
\* starts to build a QC or that gives up a vote it still has to count.
LEMMA MoveKeepsInv ==
    ASSUME VotesInv, NEW t \in V!Tasks,
           UNCHANGED <<votesCache, processor, staking, beacon, done, qcs, proposal>>,
           V!TypeOK',
           \A u \in V!Tasks \ {t} : task'[u].at = task[u].at /\ task'[u].proc = task[u].proc,
           task'[t].proc \in {task[t].proc, processor},
           task'[t].at # "build",
           TaskOK(t)',
           /\ Pending(t) /\ processor = BlockOf(t) /\ t[2] \notin InvalidVotes
           => Pending(t)' \/ SignerOf(t) \in staking[BlockOf(t)] \/ done[BlockOf(t)]
    PROVE  VotesInv'
<1>1. CacheGrows /\ SignaturesGrow
  BY DEF CacheGrows, SignaturesGrow
<1>2. TaskInv'
  BY <1>1, TaskKept DEF TaskInv
<1>3. OneProcessor'
  <2>1. \A b \in Blocks : (Opened(b)' => Opened(b)) /\ (done'[b] => Opened(b))
    BY DEF VotesInv, OneProcessor, Opened
  <2> QED BY <1>1, <2>1, ProcessorKept
<1>4. SignaturesInv' /\ BuildInv' /\ V!QCIsSupported'
  BY <1>1, SignaturesKept, BuildKept, SupportKept
<1>5. CountedInv'
  <2>1. ASSUME NEW u \in V!Tasks, Pending(u), processor = BlockOf(u), u[2] \notin InvalidVotes
        PROVE  Pending(u)' \/ SignerOf(u) \in staking'[BlockOf(u)] \/ done'[BlockOf(u)]
    <3>1. CASE u = t
      BY <2>1, <3>1
    <3>2. CASE u # t
      BY <2>1, <3>2 DEF Pending, BlockOf
    <3> QED BY <3>1, <3>2
  <2> QED BY <1>1, <2>1, CountedKept
<1> QED BY <1>2, <1>3, <1>4, <1>5 DEF VotesInv

\* processVote loads the processor.
LEMMA LoadProcessorKeepsInv ==
    ASSUME VotesInv, NEW t \in V!Tasks, V!LoadProcessor(t)
    PROVE  VotesInv'
<1> USE Constants
<1>1. /\ task[t].at = "load"
      /\ task' = [task EXCEPT ![t] = [at |-> "process", proc |-> processor]]
      /\ UNCHANGED <<votesCache, processor, staking, beacon, done, qcs, proposal>>
  BY DEF V!LoadProcessor, V!At, V!aggregators
<1>2. /\ task'[t].at = "process" /\ task'[t].proc = processor
      /\ \A u \in V!Tasks \ {t} : task'[u].at = task[u].at /\ task'[u].proc = task[u].proc
      /\ V!TypeOK'
  BY <1>1 DEF VotesInv, V!TypeOK
<1>3. /\ SignerOf(t) \in Voters /\ BlockOf(t) \in Blocks
      /\ TaskOK(t) /\ OneProcessor /\ processor \in Blocks \cup {Caching, Invalid}
  BY TasksAreVotes DEF VotesInv, TaskInv, V!TypeOK
<1>4. t[1] = "cached" => processor \in {BlockOf(t), Invalid}
  BY <1>1, <1>3 DEF TaskOK, OneProcessor
<1>5. TaskOK(t)'
  BY <1>1, <1>2, <1>3, <1>4 DEF TaskOK, Opened, Verified, SignerOf, BlockOf
<1>6. processor = BlockOf(t) => Pending(t)'
  BY <1>2 DEF Pending, BlockOf
<1> QED BY <1>1, <1>2, <1>5, <1>6, MoveKeepsInv

\* CombinedVoteProcessorV2.Process up to the verification of the vote, or
\* NoopCollector.Process
LEMMA ProcessVoteKeepsInv ==
    ASSUME VotesInv, NEW t \in V!Tasks, V!ProcessVote(t)
    PROVE  VotesInv'
<1> USE Constants
<1>1. task[t].at = "process" /\ UNCHANGED <<votesCache, processor, staking, beacon, done, qcs, proposal>>
  BY DEF V!ProcessVote, V!At, V!aggregators
<1>2. PICK pc : V!Goto(t, pc) /\
         \/ task[t].proc \notin Blocks /\ pc = "status"
         \/ /\ task[t].proc \in Blocks /\ task[t].proc # BlockOf(t)
            /\ pc = IF t[1] = "cached" THEN "fatal" ELSE "done"
         \/ task[t].proc = BlockOf(t) /\ done[BlockOf(t)] /\ pc = "status"
         \/ task[t].proc = BlockOf(t) /\ t[2] \in InvalidVotes /\ pc = "done"
         \/ task[t].proc = BlockOf(t) /\ t[2] \notin InvalidVotes /\ pc = "add"
  BY DEF V!ProcessVote, BlockOf
<1>3. \A u \in V!Tasks : /\ task'[u].at = IF u = t THEN pc ELSE task[u].at
                         /\ task'[u].proc = task[u].proc
  BY <1>2, GotoEffect DEF VotesInv
<1>4. /\ SignerOf(t) \in Voters /\ BlockOf(t) \in Blocks
      /\ TaskOK(t) /\ OneProcessor /\ processor \in Blocks \cup {Caching, Invalid}
  BY TasksAreVotes DEF VotesInv, TaskInv, V!TypeOK
<1>5. pc \in {"status", "done", "add"}
  BY <1>1, <1>2, <1>4 DEF TaskOK
<1>6. V!TypeOK'
  BY <1>1, <1>2, <1>5 DEF VotesInv, V!TypeOK, V!Goto
<1>7. TaskOK(t)'
  BY <1>1, <1>2, <1>3, <1>4, <1>5 DEF TaskOK, Opened, Verified, SignerOf, BlockOf
<1>8. /\ Pending(t) /\ processor = BlockOf(t) /\ t[2] \notin InvalidVotes
      => Pending(t)' \/ done[BlockOf(t)]
  <2> SUFFICES ASSUME Pending(t), processor = BlockOf(t), t[2] \notin InvalidVotes, ~ done[BlockOf(t)]
               PROVE  Pending(t)'
    OBVIOUS
  <2>1. task[t].proc \in {BlockOf(t), Caching}
    BY <1>1 DEF Pending
  <2>2. CASE task[t].proc = Caching
    BY <1>2, <1>3, <1>4, <2>2 DEF Pending
  <2>3. CASE task[t].proc = BlockOf(t)
    <3>1. pc = "add"
      BY <1>2, <1>4, <2>3
    <3> QED BY <1>3, <3>1 DEF Pending
  <2> QED BY <2>1, <2>2, <2>3
<1> QED BY <1>1, <1>3, <1>5, <1>6, <1>7, <1>8, MoveKeepsInv

\* The end of an iteration of processVote: a task that has seen an older state of the
\* collector goes round again.
LEMMA CompareStatusKeepsInv ==
    ASSUME VotesInv, NEW t \in V!Tasks, V!CompareStatus(t)
    PROVE  VotesInv'
<1> USE Constants
<1>1. task[t].at = "status" /\ UNCHANGED <<votesCache, processor, staking, beacon, done, qcs, proposal>>
  BY DEF V!CompareStatus, V!At, V!aggregators
<1>2. PICK pc : /\ V!Goto(t, pc)
                /\ \/ V!Status(task[t].proc) # V!Status(processor) /\ pc = "load"
                   \/ V!Status(task[t].proc) = V!Status(processor) /\ pc = "done"
  BY DEF V!CompareStatus
<1>3. \A u \in V!Tasks : /\ task'[u].at = IF u = t THEN pc ELSE task[u].at
                         /\ task'[u].proc = task[u].proc
  BY <1>2, GotoEffect DEF VotesInv
<1>4. BlockOf(t) \in Blocks /\ TaskOK(t)
  BY TasksAreVotes DEF VotesInv, TaskInv
<1>5. V!TypeOK'
  BY <1>1, <1>2 DEF VotesInv, V!TypeOK, V!Goto
<1>6. TaskOK(t)'
  BY <1>1, <1>2, <1>3, <1>4 DEF TaskOK, Opened, Verified, SignerOf, BlockOf
<1>7. Pending(t) /\ processor = BlockOf(t) => Pending(t)'
  BY <1>1, <1>2, <1>3, <1>4 DEF Pending, V!Status
<1> QED BY <1>1, <1>2, <1>3, <1>5, <1>6, <1>7, MoveKeepsInv


\* WeightedSignatureAggregator.TrustedAdd counts the vote.
LEMMA AddStakingSigKeepsInv ==
    ASSUME VotesInv, NEW t \in V!Tasks, V!AddStakingSig(t)
    PROVE  VotesInv'
<1> USE Constants
<1> DEFINE b == BlockOf(t)
           s == SignerOf(t)
<1>1. /\ task[t].at = "add" /\ staking' = [staking EXCEPT ![b] = @ \cup {s}]
      /\ UNCHANGED <<votesCache, processor, beacon, done, qcs, proposal>>
  BY DEF V!AddStakingSig, V!At, BlockOf, SignerOf
<1>2. PICK pc : /\ V!Goto(t, pc) /\ pc \in {"done", "beacon", "check"}
                /\ pc = "beacon" => s \in BeaconSigners
  BY DEF V!AddStakingSig, SignerOf
<1>3. \A u \in V!Tasks : /\ task'[u].at = IF u = t THEN pc ELSE task[u].at
                         /\ task'[u].proc = task[u].proc
  BY <1>2, GotoEffect DEF VotesInv
<1>4. /\ s \in Voters /\ b \in Blocks /\ t[2] = [signer |-> s, block |-> b]
      /\ TaskOK(t) /\ OneProcessor
  BY TasksAreVotes DEF VotesInv, TaskInv
<1>5. task[t].proc = b /\ t[2] \notin InvalidVotes /\ votesCache[s] = b /\ Opened(b)
  BY <1>1, <1>4 DEF TaskOK, Verified, OneProcessor
<1>6. \A c \in Blocks : staking'[c] = IF c = b THEN staking[c] \cup {s} ELSE staking[c]
  BY <1>1, <1>4 DEF VotesInv, V!TypeOK
<1>7. V!TypeOK'
  BY <1>1, <1>2, <1>4 DEF VotesInv, V!TypeOK, V!Goto
<1> HIDE DEF b, s
<1>8. CacheGrows /\ SignaturesGrow
  BY <1>1, <1>6 DEF CacheGrows, SignaturesGrow
<1>9. \A c \in Blocks : Opened(c)' => Opened(c)
  BY <1>5, <1>6 DEF Opened
<1>10. OneProcessor'
  BY <1>1, <1>3, <1>4, <1>8, <1>9, ProcessorKept DEF OneProcessor
<1>11. TaskInv'
  <2>1. TaskOK(t)'
    <3>1. Opened(BlockOf(t))'
      BY <1>4, <1>6 DEF Opened, b, BlockOf
    <3> QED BY <1>1, <1>2, <1>3, <1>4, <1>5, <3>1 DEF TaskOK, Verified, b, s, SignerOf, BlockOf
  <2> QED BY <1>3, <1>8, <2>1, TaskKept DEF TaskInv
<1>12. SignaturesInv'
  <2> SUFFICES ASSUME NEW c \in Blocks, NEW r \in staking'[c] \ {Proposer}
               PROVE  votesCache[r] = c /\ [signer |-> r, block |-> c] \notin InvalidVotes
    BY <1>1 DEF SignaturesInv
  <2>1. CASE c = b /\ r = s
    BY <1>4, <1>5, <2>1
  <2>2. CASE ~(c = b /\ r = s)
    <3>1. CASE c = b
      <4>1. staking'[c] = staking[c] \cup {s}
        BY <1>6, <3>1
      <4> QED BY <2>2, <3>1, <4>1 DEF VotesInv, SignaturesInv
    <3>2. CASE c # b
      <4>1. staking'[c] = staking[c]
        BY <1>6, <3>2
      <4> QED BY <4>1 DEF VotesInv, SignaturesInv
    <3> QED BY <3>1, <3>2
  <2> QED BY <2>1, <2>2
<1>13. BuildInv' /\ V!QCIsSupported'
  BY <1>1, <1>2, <1>3, <1>8, BuildKept, SupportKept
<1>14. CountedInv'
  <2>1. ASSUME NEW u \in V!Tasks, Pending(u), processor = BlockOf(u), u[2] \notin InvalidVotes
        PROVE  Pending(u)' \/ SignerOf(u) \in staking'[BlockOf(u)] \/ done'[BlockOf(u)]
    <3>1. CASE u = t
      BY <1>4, <1>6, <3>1 DEF b, s
    <3>2. CASE u # t
      BY <1>3, <2>1, <3>2 DEF Pending, BlockOf
    <3> QED BY <3>1, <3>2
  <2> QED BY <1>1, <1>8, <2>1, CountedKept
<1> QED BY <1>1, <1>7, <1>10, <1>11, <1>12, <1>13, <1>14 DEF VotesInv

\* The share of the random beacon is added.
LEMMA AddBeaconSigKeepsInv ==
    ASSUME VotesInv, NEW t \in V!Tasks, V!AddBeaconSig(t)
    PROVE  VotesInv'
<1> USE Constants
<1>1. /\ task[t].at = "beacon" /\ beacon' = [beacon EXCEPT ![BlockOf(t)] = @ \cup {SignerOf(t)}]
      /\ V!Goto(t, "check")
      /\ UNCHANGED <<votesCache, processor, staking, done, qcs, proposal>>
  BY DEF V!AddBeaconSig, V!At, BlockOf, SignerOf
<1>2. \A u \in V!Tasks : /\ task'[u].at = IF u = t THEN "check" ELSE task[u].at
                         /\ task'[u].proc = task[u].proc
  BY <1>1, GotoEffect DEF VotesInv
<1>3. SignerOf(t) \in Voters /\ BlockOf(t) \in Blocks /\ TaskOK(t) /\ OneProcessor
  BY TasksAreVotes DEF VotesInv, TaskInv
<1>4. SignerOf(t) \in BeaconSigners
  BY <1>1, <1>3 DEF TaskOK
<1>5. V!TypeOK'
  BY <1>1, <1>3, <1>4 DEF VotesInv, V!TypeOK, V!Goto
<1>6. CacheGrows /\ SignaturesGrow
  BY <1>1, <1>3 DEF VotesInv, V!TypeOK, CacheGrows, SignaturesGrow
<1>7. OneProcessor'
  <2>1. \A c \in Blocks : (Opened(c)' => Opened(c)) /\ (done'[c] => Opened(c))
    BY <1>1, <1>3 DEF OneProcessor, Opened
  <2> QED BY <1>1, <1>2, <1>6, <2>1, ProcessorKept
<1>8. TaskInv'
  <2>1. TaskOK(t)'
    BY <1>1, <1>2, <1>3 DEF TaskOK, Verified, Opened, SignerOf, BlockOf
  <2> QED BY <1>2, <1>6, <2>1, TaskKept DEF TaskInv
<1>9. SignaturesInv' /\ BuildInv' /\ V!QCIsSupported'
  BY <1>1, <1>2, <1>6, SignaturesKept, BuildKept, SupportKept
<1>10. CountedInv'
  <2>1. \A u \in V!Tasks : Pending(u) => Pending(u)'
    BY <1>1, <1>2 DEF Pending, BlockOf
  <2> QED BY <1>1, <1>6, <2>1, CountedKept
<1> QED BY <1>1, <1>5, <1>7, <1>8, <1>9, <1>10 DEF VotesInv

\* Of the tasks that see enough weight, one wins the compare-and-swap on done.
LEMMA CheckWeightKeepsInv ==
    ASSUME VotesInv, NEW t \in V!Tasks, V!CheckWeight(t)
    PROVE  VotesInv'
<1> USE Constants
<1> DEFINE b == BlockOf(t)
<1>1. /\ task[t].at = "check" /\ done' = [done EXCEPT ![b] = @ \/ V!EnoughForQC(b)]
      /\ UNCHANGED <<votesCache, processor, staking, beacon, qcs, proposal>>
  BY DEF V!CheckWeight, V!At, BlockOf
<1>2. PICK pc : /\ V!Goto(t, pc)
                /\ \/ V!EnoughForQC(b) /\ ~ done[b] /\ pc = "build"
                   \/ pc = "status"
  BY DEF V!CheckWeight, BlockOf
<1>3. \A u \in V!Tasks : /\ task'[u].at = IF u = t THEN pc ELSE task[u].at
                         /\ task'[u].proc = task[u].proc
  BY <1>2, GotoEffect DEF VotesInv
<1>4. SignerOf(t) \in Voters /\ b \in Blocks /\ TaskOK(t) /\ OneProcessor
  BY TasksAreVotes DEF VotesInv, TaskInv
<1>5. task[t].proc = b /\ Opened(b)
  BY <1>1, <1>4 DEF TaskOK, Verified, OneProcessor
<1>6. /\ \A c \in Blocks : done[c] => done'[c]
      /\ \A c \in Blocks : c # b => done'[c] = done[c]
      /\ V!EnoughForQC(b) => done'[b]
  BY <1>1, <1>4 DEF VotesInv, V!TypeOK
<1>7. V!TypeOK'
  <2>1. V!EnoughForQC(b) \in BOOLEAN
    BY DEF V!EnoughForQC
  <2> QED BY <1>1, <1>2, <1>4, <2>1 DEF VotesInv, V!TypeOK, V!Goto
<1> HIDE DEF b
<1>8. CacheGrows /\ SignaturesGrow
  BY <1>1 DEF CacheGrows, SignaturesGrow
<1>9. OneProcessor'
  <2>1. \A c \in Blocks : (Opened(c)' => Opened(c)) /\ (done'[c] => Opened(c))
    BY <1>1, <1>4, <1>5, <1>6 DEF OneProcessor, Opened
  <2> QED BY <1>1, <1>3, <1>8, <2>1, ProcessorKept
<1>10. TaskInv'
  <2>1. TaskOK(t)'
    BY <1>1, <1>2, <1>3, <1>4 DEF TaskOK, Verified, Opened, SignerOf, BlockOf
  <2> QED BY <1>3, <1>8, <2>1, TaskKept DEF TaskInv
<1>11. SignaturesInv' /\ V!QCIsSupported'
  BY <1>1, <1>8, SignaturesKept, SupportKept
<1>12. BuildInv'
  <2>1. \A u \in V!Tasks : BlockOf(u) \in Blocks
    BY TasksAreVotes
  <2>2. \A c \in Blocks : V!EnoughForQC(c)' <=> V!EnoughForQC(c)
    BY <1>1 DEF V!EnoughForQC
  <2>3. CASE pc = "status"
    <3>1. \A u \in V!Tasks : task'[u].at = "build" => task[u].at = "build"
      BY <1>3, <2>3
    <3>2. BuildInv
      BY DEF VotesInv
    <3> QED BY <1>1, <1>6, <2>1, <2>2, <3>1, <3>2 DEF BuildInv, BlockOf
  <2>4. CASE V!EnoughForQC(b) /\ ~ done[b] /\ pc = "build"
    <3>1. \A c \in Blocks : ~ done[c]
      BY <1>4, <1>5, <2>4 DEF OneProcessor
    <3>2. qcs = <<>> /\ \A u \in V!Tasks : task[u].at # "build"
      BY <2>1, <3>1 DEF VotesInv, BuildInv
    <3>3. \A u \in V!Tasks : task'[u].at = "build" => u = t
      BY <1>3, <3>2
    <3>4. done'[BlockOf(t)] /\ V!EnoughForQC(BlockOf(t))'
      BY <1>4, <1>6, <2>2, <2>4 DEF b
    <3> QED BY <1>1, <3>2, <3>3, <3>4 DEF BuildInv, BlockOf
  <2> QED BY <1>2, <2>3, <2>4
<1>13. CountedInv'
  <2>1. \A u \in V!Tasks : Pending(u) => Pending(u)'
    BY <1>1, <1>3 DEF Pending, BlockOf
  <2> QED BY <1>1, <1>6, <1>8, <2>1, CountedKept
<1> QED BY <1>1, <1>7, <1>9, <1>10, <1>11, <1>12, <1>13 DEF VotesInv

\* CombinedVoteProcessorV2.buildQC: the signatures that were enough are still there.
LEMMA BuildQCKeepsInv ==
    ASSUME VotesInv, NEW t \in V!Tasks, V!BuildQC(t)
    PROVE  VotesInv'
<1> USE Constants
<1> DEFINE b == BlockOf(t)
           qc == [block |-> b, signers |-> staking[b], shares |-> beacon[b]]
<1>1. /\ task[t].at = "build" /\ qcs' = Append(qcs, qc) /\ V!Goto(t, "status")
      /\ UNCHANGED <<votesCache, processor, staking, beacon, done, proposal>>
  BY DEF V!BuildQC, V!At, V!aggregators, BlockOf
<1>2. \A u \in V!Tasks : /\ task'[u].at = IF u = t THEN "status" ELSE task[u].at
                         /\ task'[u].proc = task[u].proc
  BY <1>1, GotoEffect DEF VotesInv
<1>3. SignerOf(t) \in Voters /\ b \in Blocks /\ TaskOK(t) /\ OneProcessor
  BY TasksAreVotes DEF VotesInv, TaskInv
<1>4. done[b] /\ V!EnoughForQC(b) /\ qcs = <<>>
  BY <1>1 DEF VotesInv, BuildInv
<1>5. qc \in QCs
  BY <1>3 DEF VotesInv, V!TypeOK, QCs
<1>6. qcs' = <<qc>> /\ qcs' \in Seq(QCs) /\ Len(qcs') = 1 /\ DOMAIN qcs' = {1} /\ qcs'[1] = qc
  BY <1>1, <1>4, <1>5
<1>7. V!TypeOK'
  BY <1>1, <1>3 DEF VotesInv, V!TypeOK, V!Goto
<1>8. CacheGrows /\ SignaturesGrow
  BY <1>1 DEF CacheGrows, SignaturesGrow
<1>9. OneProcessor'
  <2>1. \A c \in Blocks : (Opened(c)' => Opened(c)) /\ (done'[c] => Opened(c))
    BY <1>1, <1>3 DEF OneProcessor, Opened
  <2> QED BY <1>1, <1>2, <1>8, <2>1, ProcessorKept
<1>10. TaskInv'
  <2>1. TaskOK(t)'
    BY <1>1, <1>2, <1>3 DEF TaskOK, Verified, Opened, SignerOf, BlockOf
  <2> QED BY <1>2, <1>8, <2>1, TaskKept DEF TaskInv
<1>11. SignaturesInv'
  BY <1>1, <1>8, SignaturesKept
<1>12. BuildInv'
  <2>1. \A u \in V!Tasks : task'[u].at # "build"
    BY <1>1, <1>2 DEF VotesInv, BuildInv
  <2> QED BY <1>1, <1>3, <1>4, <1>6, <2>1 DEF BuildInv
<1>13. V!QCIsSupported'
  <2>1. \A r \in staking[b] \ {Proposer} :
           votesCache[r] = b /\ [signer |-> r, block |-> b] \notin InvalidVotes
    BY <1>3 DEF VotesInv, SignaturesInv
  <2>2. qc.block = b /\ qc.signers = staking[b] /\ qc.shares = beacon[b]
    OBVIOUS
  <2> HIDE DEF qc
  <2> QED BY <1>1, <1>4, <1>6, <2>1, <2>2 DEF V!QCIsSupported, V!EnoughForQC
<1>14. CountedInv'
  <2>1. \A u \in V!Tasks : Pending(u) => Pending(u)'
    BY <1>1, <1>2 DEF Pending, BlockOf
  <2> QED BY <1>1, <1>8, <2>1, CountedKept
<1> QED BY <1>6, <1>7, <1>9, <1>10, <1>11, <1>12, <1>13, <1>14 DEF VotesInv


\* A proposal arrives, or ProcessBlock looks at the processor.
LEMMA InspectKeepsInv ==
    ASSUME VotesInv, NEW b \in Blocks, V!ProcessBlock(b) \/ V!InspectProcessor(b)
    PROVE  VotesInv'
<1>1. UNCHANGED <<votesCache, processor, staking, beacon, done, qcs, task>>
  BY DEF V!ProcessBlock, V!InspectProcessor, V!aggregators
<1>2. PICK pc \in {"load", "swap", "terminate", "done"} :
         proposal[b] # "feed" /\ proposal' = [proposal EXCEPT ![b] = pc]
  BY DEF V!ProcessBlock, V!InspectProcessor, V!BlockAt, V!BlockGoto
<1>3. \A c \in Blocks : proposal'[c] = "feed" <=> proposal[c] = "feed"
  BY <1>2 DEF VotesInv, V!TypeOK
<1>4. V!TypeOK'
  BY <1>1, <1>2 DEF VotesInv, V!TypeOK
<1>5. CacheGrows /\ SignaturesGrow
  BY <1>1 DEF CacheGrows, SignaturesGrow
<1>6. OneProcessor'
  <2>1. \A c \in Blocks : (Opened(c)' => Opened(c)) /\ (done'[c] => Opened(c))
    BY <1>1 DEF VotesInv, OneProcessor, Opened
  <2> QED BY <1>1, <1>3, <1>5, <2>1, ProcessorKept
<1>7. TaskInv'
  BY <1>1, <1>5, TaskKept DEF TaskInv
<1>8. SignaturesInv' /\ BuildInv' /\ V!QCIsSupported'
  BY <1>1, <1>5, SignaturesKept, BuildKept, SupportKept
<1>9. CountedInv'
  <2>1. \A u \in V!Tasks : Pending(u) => Pending(u)'
    BY <1>1 DEF Pending, BlockOf
  <2> QED BY <1>1, <1>3, <1>5, <2>1, CountedKept
<1> QED BY <1>1, <1>4, <1>6, <1>7, <1>8, <1>9 DEF VotesInv

\* caching2Verifying: under the lock, the first proposal gets a processor.
LEMMA Caching2VerifyingKeepsInv ==
    ASSUME VotesInv, NEW b \in Blocks, V!Caching2Verifying(b)
    PROVE  VotesInv'
<1> USE Constants
<1>1. proposal[b] = "swap" /\ UNCHANGED <<votesCache, done, qcs, task>>
  BY DEF V!Caching2Verifying, V!BlockAt
<1>2. CASE processor # Caching
  <2>1. /\ UNCHANGED <<processor, staking, beacon>>
        /\ proposal' = [proposal EXCEPT ![b] = "load"]
    BY <1>2 DEF V!Caching2Verifying, V!BlockGoto
  <2>2. \A c \in Blocks : proposal'[c] = "feed" <=> proposal[c] = "feed"
    BY <1>1, <2>1 DEF VotesInv, V!TypeOK
  <2>3. V!TypeOK'
    BY <1>1, <2>1 DEF VotesInv, V!TypeOK
  <2>4. CacheGrows /\ SignaturesGrow
    BY <1>1, <2>1 DEF CacheGrows, SignaturesGrow
  <2>5. OneProcessor'
    <3>1. \A c \in Blocks : (Opened(c)' => Opened(c)) /\ (done'[c] => Opened(c))
      BY <1>1, <2>1 DEF VotesInv, OneProcessor, Opened
    <3> QED BY <1>1, <2>1, <2>2, <2>4, <3>1, ProcessorKept
  <2>6. TaskInv'
    BY <1>1, <2>4, TaskKept DEF TaskInv
  <2>7. SignaturesInv' /\ BuildInv' /\ V!QCIsSupported'
    BY <1>1, <2>1, <2>4, SignaturesKept, BuildKept, SupportKept
  <2>8. CountedInv'
    <3>1. \A u \in V!Tasks : Pending(u) => Pending(u)'
      BY <1>1 DEF Pending, BlockOf
    <3> QED BY <1>1, <2>1, <2>2, <2>4, <3>1, CountedKept
  <2> QED BY <1>1, <2>3, <2>5, <2>6, <2>7, <2>8 DEF VotesInv
<1>3. CASE processor = Caching
  <2>1. /\ processor' = b
        /\ staking' = [staking EXCEPT ![b] = {Proposer}]
        /\ beacon' = [beacon EXCEPT ![b] = {Proposer} \cap BeaconSigners]
        /\ proposal' = [proposal EXCEPT ![b] = "feed"]
    BY <1>3 DEF V!Caching2Verifying, V!BlockGoto
  <2>2. OneProcessor /\ \A c \in Blocks : ~ Opened(c) /\ ~ done[c]
    BY <1>3 DEF VotesInv, OneProcessor
  <2>3. /\ \A c \in Blocks : staking'[c] = IF c = b THEN {Proposer} ELSE {}
        /\ \A c \in Blocks : Opened(c)' <=> c = b
    BY <2>1, <2>2 DEF VotesInv, V!TypeOK, Opened
  <2>4. \A c \in Blocks : proposal'[c] = "feed" => c = b
    BY <2>1, <2>2 DEF VotesInv, V!TypeOK, OneProcessor
  <2>5. V!TypeOK'
    BY <1>1, <2>1 DEF VotesInv, V!TypeOK
  <2>6. \A t \in V!Tasks : task[t].proc = Caching
    BY <1>3, <2>2 DEF VotesInv, V!TypeOK, OneProcessor
  <2>7. OneProcessor'
    BY <1>1, <2>1, <2>2, <2>3, <2>4, <2>6 DEF OneProcessor
  <2>8. TaskInv'
    <3> SUFFICES ASSUME NEW t \in V!Tasks PROVE TaskOK(t)'
      BY DEF TaskInv
    <3>1. TaskOK(t) /\ BlockOf(t) \in Blocks
      BY TasksAreVotes DEF VotesInv, TaskInv
    <3>2. t[1] = "cached" => task[t].at = "idle"
      BY <2>2, <3>1, TasksAreVotes DEF TaskOK
    <3> QED BY <1>1, <3>1, <3>2 DEF TaskOK, Verified, SignerOf, BlockOf
  <2>9. SignaturesInv'
    BY <2>3 DEF SignaturesInv
  <2>10. BuildInv'
    <3>1. \A t \in V!Tasks : task[t].at # "build"
      BY <2>2, TasksAreVotes DEF VotesInv, BuildInv
    <3>2. qcs = <<>>
      BY <2>2 DEF VotesInv, BuildInv
    <3> QED BY <1>1, <3>1, <3>2 DEF BuildInv
  <2>11. CacheGrows
    BY <1>1 DEF CacheGrows
  <2>12. V!QCIsSupported'
    BY <1>1, <2>11, SupportKept
  <2>13. CountedInv'
    <3>1. proposal'[b] = "feed"
      BY <2>1 DEF VotesInv, V!TypeOK
    <3> QED BY <2>1, <3>1 DEF CountedInv
  <2> QED BY <1>1, <2>5, <2>7, <2>8, <2>9, <2>10, <2>12, <2>13 DEF VotesInv
<1> QED BY <1>2, <1>3

\* processCachedVotes: what came before the processor is given to workers.
LEMMA ProcessCachedVotesKeepsInv ==
    ASSUME VotesInv, NEW b \in Blocks, V!ProcessCachedVotes(b)
    PROVE  VotesInv'
<1> USE Constants
<1> DEFINE fed == {t \in V!Tasks : t[1] = "cached" /\ BlockOf(t) = b /\ votesCache[SignerOf(t)] = b}
<1>1. /\ proposal[b] = "feed" /\ proposal' = [proposal EXCEPT ![b] = "done"]
      /\ UNCHANGED <<votesCache, processor, staking, beacon, done, qcs>>
      /\ task' = [t \in V!Tasks |-> IF t \in fed THEN [task[t] EXCEPT !.at = "load"] ELSE task[t]]
  BY DEF V!ProcessCachedVotes, V!BlockAt, V!BlockGoto, V!aggregators, BlockOf, SignerOf
<1>2. \A t \in V!Tasks : /\ task'[t].at = IF t \in fed THEN "load" ELSE task[t].at
                         /\ task'[t].proc = task[t].proc
  BY <1>1 DEF VotesInv, V!TypeOK
<1>3. OneProcessor /\ Opened(b)
  BY <1>1 DEF VotesInv, OneProcessor
<1>4. V!TypeOK'
  BY <1>1 DEF VotesInv, V!TypeOK
<1>5. \A c \in Blocks : c # b => proposal'[c] = proposal[c]
  BY <1>1 DEF VotesInv, V!TypeOK
<1>6. proposal'[b] = "done"
  BY <1>1 DEF VotesInv, V!TypeOK
<1>7. CacheGrows /\ SignaturesGrow
  BY <1>1 DEF CacheGrows, SignaturesGrow
<1>8. OneProcessor'
  <2>1. \A c \in Blocks : (Opened(c)' => Opened(c)) /\ (done'[c] => Opened(c))
    BY <1>1, <1>3 DEF OneProcessor, Opened
  <2>2. \A c \in Blocks : proposal'[c] = "feed" => proposal[c] = "feed"
    BY <1>1, <1>5
  <2> QED BY <1>1, <1>2, <1>7, <2>1, <2>2, ProcessorKept
<1>9. TaskInv'
  <2> SUFFICES ASSUME NEW t \in V!Tasks PROVE TaskOK(t)'
    BY DEF TaskInv
  <2>1. CASE t \notin fed
    BY <1>2, <1>7, <2>1, TaskKept
  <2>2. CASE t \in fed
    <3>1. votesCache[SignerOf(t)] = BlockOf(t) /\ Opened(BlockOf(t))
      BY <1>3, <2>2
    <3> QED BY <1>1, <1>2, <2>2, <3>1 DEF TaskOK, Verified, Opened, SignerOf, BlockOf
  <2> QED BY <2>1, <2>2
<1>10. SignaturesInv' /\ BuildInv' /\ V!QCIsSupported'
  BY <1>1, <1>2, <1>7, SignaturesKept, BuildKept, SupportKept
<1>11. CountedInv'
  <2> SUFFICES ASSUME NEW v \in V!Vote,
                      processor = v.block, votesCache[v.signer] = v.block, v \notin InvalidVotes
               PROVE  \/ v.signer \in staking[v.block] \/ done[v.block]
                      \/ proposal'[v.block] = "feed"
                      \/ Pending(<<"added", v>>)' \/ Pending(<<"cached", v>>)'
    BY <1>1 DEF CountedInv
  <2>1. v.block \in Blocks /\ <<"added", v>> \in V!Tasks /\ <<"cached", v>> \in V!Tasks
    BY DEF V!Vote, V!Tasks
  <2>2. v.block = b
    BY <1>3, <2>1 DEF OneProcessor
  <2>3. <<"cached", v>> \in fed
    BY <2>1, <2>2 DEF BlockOf, SignerOf
  <2> QED BY <1>2, <2>1, <2>3 DEF Pending
<1> QED BY <1>1, <1>4, <1>8, <1>9, <1>10, <1>11 DEF VotesInv

\* terminateVoteProcessing: the leader has equivocated.
LEMMA TerminateKeepsInv ==
    ASSUME VotesInv, NEW b \in Blocks, V!TerminateVoteProcessing(b)
    PROVE  VotesInv'
<1> USE Constants
<1>1. /\ proposal[b] = "terminate" /\ proposal' = [proposal EXCEPT ![b] = "done"]
      /\ processor' = Invalid
      /\ UNCHANGED <<votesCache, staking, beacon, done, qcs, task>>
  BY DEF V!TerminateVoteProcessing, V!BlockAt, V!BlockGoto, V!aggregators
<1>2. V!TypeOK'
  BY <1>1 DEF VotesInv, V!TypeOK
<1>3. \A c \in Blocks : proposal'[c] = "feed" <=> proposal[c] = "feed"
  BY <1>1 DEF VotesInv, V!TypeOK
<1>4. CacheGrows /\ SignaturesGrow
  BY <1>1 DEF CacheGrows, SignaturesGrow
<1>5. OneProcessor'
  BY <1>1, <1>3 DEF VotesInv, OneProcessor, Opened
<1>6. TaskInv'
  BY <1>1, <1>4, TaskKept DEF TaskInv
<1>7. SignaturesInv' /\ BuildInv' /\ V!QCIsSupported'
  BY <1>1, <1>4, SignaturesKept, BuildKept, SupportKept
<1>8. CountedInv'
  BY <1>1 DEF CountedInv, V!Vote
<1> QED BY <1>1, <1>2, <1>5, <1>6, <1>7, <1>8 DEF VotesInv

-----------------------------------------------------------------------------
(***************************************************************************)
(* The theorems.                                                           *)
(***************************************************************************)

\* Every step of the composed specification keeps the invariant.
LEMMA VotesStep == VotesInv /\ [Next]_vars => VotesInv'
<1> SUFFICES ASSUME VotesInv, [Next]_vars PROVE VotesInv'
  OBVIOUS
<1>1. CASE V!Next
  <2>1. CASE \E v \in Arriving : V!AddVote(v)
    BY <2>1, AddVoteKeepsInv
  <2>2. CASE \E b \in Blocks : V!ProcessBlock(b)
    BY <2>2, InspectKeepsInv
  <2>3. CASE \E b \in Blocks : V!BlockStep(b)
    BY <2>3, InspectKeepsInv, Caching2VerifyingKeepsInv, ProcessCachedVotesKeepsInv,
       TerminateKeepsInv DEF V!BlockStep
  <2>4. CASE \E t \in V!Tasks : V!TaskStep(t)
    BY <2>4, LoadProcessorKeepsInv, ProcessVoteKeepsInv, AddStakingSigKeepsInv,
       AddBeaconSigKeepsInv, CheckWeightKeepsInv, BuildQCKeepsInv, CompareStatusKeepsInv
       DEF V!TaskStep
  <2> QED BY <1>1, <2>1, <2>2, <2>3, <2>4 DEF V!Next, V!Step
<1>2. CASE UNCHANGED votes
  BY <1>2 DEF votes, VotesInv, V!TypeOK, OneProcessor, TaskInv, TaskOK, SignaturesInv, BuildInv,
     V!EnoughForQC, V!QCIsSupported, CountedInv, Pending, Opened, Verified, BlockOf, SignerOf
<1> QED BY <1>1, <1>2 DEF Next, OnlyVotes, OnlyAggregator, NextWeight, OnlyCollector, OnlyLoop, vars

\* The vote collector keeps its invariant, however its goroutines interleave.
THEOREM VotesInvariant == Spec => []VotesInv
<1>1. Init => VotesInv
  BY VotesInit DEF Init
<1> QED BY <1>1, VotesStep, PTL DEF Spec

\* VoteCollector: a view gets one QC at most, however many workers see enough weight
\* at the same time and however many proposals the leader makes.
THEOREM OneQCTheorem == Spec => []OneQC
<1>1. VotesInv => OneQC
  <2> SUFFICES ASSUME VotesInv PROVE Len(qcs) <= 1
    BY DEF OneQC, V!OneQC
  <2>1. CASE qcs = <<>>
    BY <2>1
  <2>2. CASE qcs # <<>>
    <3>1. Len(qcs) = 1
      BY <2>2 DEF VotesInv, BuildInv
    <3> QED BY <3>1
  <2> QED BY <2>1, <2>2
<1> QED BY <1>1, VotesInvariant, PTL

\* VoteCollector: a QC has enough signatures and shares, and all of them, except for
\* the proposer's, are of signers whose valid vote for the block is in the cache.
THEOREM QCIsSupportedTheorem == Spec => []QCIsSupported
<1>1. VotesInv => QCIsSupported
  BY DEF VotesInv, QCIsSupported
<1> QED BY <1>1, VotesInvariant, PTL

\* VoteCollector: a valid vote for the block under verification is counted when the
\* goroutines are done, whether it came before, during or after the transition of the
\* collector, unless the QC was there first.
THEOREM NoVoteLostTheorem == Spec => []NoVoteLost
<1>1. VotesInv => NoVoteLost
  <2> SUFFICES ASSUME VotesInv, NEW b \in Blocks, processor = b,
                      \A t \in V!Tasks : task[t].at \in {"idle", "done", "fatal"},
                      \A c \in Blocks : proposal[c] \in {"idle", "done"},
                      NEW s \in Voters, votesCache[s] = b,
                      [signer |-> s, block |-> b] \notin InvalidVotes
               PROVE  s \in staking[b] \/ done[b]
    BY DEF NoVoteLost, V!NoVoteLost
  <2> DEFINE v == [signer |-> s, block |-> b]
  <2>1. v \in V!Vote /\ v.signer = s /\ v.block = b
        /\ <<"added", v>> \in V!Tasks /\ <<"cached", v>> \in V!Tasks
    BY DEF V!Vote, V!Tasks
  <2>2. ~ Pending(<<"added", v>>) /\ ~ Pending(<<"cached", v>>)
    BY <2>1 DEF Pending
  <2> HIDE DEF v
  <2> QED BY <2>1, <2>2 DEF VotesInv, CountedInv, v
<1> QED BY <1>1, VotesInvariant, PTL

\* VoteCollector: no cached vote meets the processor of another block, which would
\* stop the node.
THEOREM NoFatalVoteTheorem == Spec => []V!NoFatalVote
<1>1. VotesInv => V!NoFatalVote
  BY DEF VotesInv, TaskInv, TaskOK, V!NoFatalVote, V!At
<1> QED BY <1>1, VotesInvariant, PTL

=============================================================================
