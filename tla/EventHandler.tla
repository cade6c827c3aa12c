---------------------------- MODULE EventHandler ----------------------------
(***************************************************************************)
(* One honest replica: the HotStuff event handler                          *)
(* (consensus/hotstuff/eventhandler) over its PaceMaker, Forks and         *)
(* SafetyRules.                                                            *)
(*                                                                         *)
(* The state of a replica is a record.  Each component is a group of       *)
(* operators on it, and a handler is their composition: the event loop runs*)
(* one handler at a time.  A handler that returns an error ends the event  *)
(* loop; the record then says fatal.                                       *)
(***************************************************************************)
EXTENDS Blocks

CONSTANT Leader  \* DynamicCommittee.LeaderForView, for the views in the bounds

\* Every block has a higher view than its parent.  (The Validator leaves this
\* unchecked for a block with a TC, where SafetyRules then refuses to vote.)
ASSUME ViewsIncrease == \A b \in Block \ {Root} : View[QC[b]] < View[b]

\* LivenessData, SafetyData, the blocks in storage and in Forks and the block
\* finalized last; signed are the blocks it has signed.  The signature of a leader on its own
\* proposal is one of them: vote processing counts it as the leader's vote
\* (votecollector/factory.go, Proposal.ProposerVote).  While the replica is
\* starting, pending are the blocks Start has yet to look at.
Node ==
    [curView : Nat, newestQC : Block, lastViewTC : TimeoutCertificate \cup {NoTC},
     highestAcknowledgedView : Nat, lockedOneChainView : Nat,
     lastTimeout : LastTimeout \cup {NoTimeout},
     stored : SUBSET Block, forks : SUBSET Block, finalized : Block,
     signed : SUBSET Block, started : BOOLEAN, pending : SUBSET Block, fatal : BOOLEAN]

\* state/protocol/badger bootstraps liveness and safety data from the root
\* block and its QC.
Bootstrapped ==
    [curView |-> View[Root] + 1, newestQC |-> Root, lastViewTC |-> NoTC,
     highestAcknowledgedView |-> View[Root], lockedOneChainView |-> View[Root],
     lastTimeout |-> NoTimeout, stored |-> {Root}, forks |-> {Root},
     finalized |-> Root, signed |-> {}, started |-> FALSE, pending |-> {}, fatal |-> FALSE]

Fatal(s) == [s EXCEPT !.fatal = TRUE]

-----------------------------------------------------------------------------
(***************************************************************************)
(* PaceMaker.                                                              *)
(***************************************************************************)
Newer(p, q) == IF View[p] < View[q] THEN q ELSE p

\* ActivePaceMaker.updateNewestQC
UpdateNewestQC(s, qc) == [s EXCEPT !.newestQC = Newer(@, qc)]

\* Mutated form: the QC that comes with a new view is not kept.
UpdateLivenessDataWithoutQC(s, newView, qc, tc) ==
    [s EXCEPT !.curView = newView, !.lastViewTC = tc]

\* ActivePaceMaker.updateLivenessData
UpdateLivenessData(s, newView, qc, tc) ==
    [s EXCEPT !.curView = newView, !.newestQC = Newer(@, qc), !.lastViewTC = tc]

\* Mutated form: a QC is compared with the newest QC instead of the view.
ProcessQCByNewest(s, qc) ==
    IF View[qc] <= View[s.newestQC] THEN s
    ELSE UpdateLivenessData(s, View[qc] + 1, qc, NoTC)

\* ActivePaceMaker.ProcessQC
ProcessQC(s, qc) ==
    IF View[qc] < s.curView THEN UpdateNewestQC(s, qc)
    ELSE UpdateLivenessData(s, View[qc] + 1, qc, NoTC)

\* ActivePaceMaker.ProcessTC
ProcessTC(s, tc) ==
    CASE tc = NoTC -> s
      [] tc # NoTC /\ tc.view < s.curView -> UpdateNewestQC(s, tc.newestQC)
      [] OTHER -> UpdateLivenessData(s, tc.view + 1, tc.newestQC, tc)

\* The handlers process a QC and a TC together.
ProcessCertificates(s, qc, tc) == ProcessTC(ProcessQC(s, qc), tc)

-----------------------------------------------------------------------------
(***************************************************************************)
(* Forks.  The forest holds blocks from the finalized view upwards.        *)
(***************************************************************************)
FinalizedView(s) == View[s.finalized]

\* Forks.VerifyProposal with LevelledForest.VerifyVertex
VerifyProposal(s, b) ==
    \/ View[b] <= FinalizedView(s)
    \/ /\ View[QC[b]] < View[b]
       /\ View[QC[b]] < FinalizedView(s) \/ QC[b] \in s.forks

\* Forks.checkForConflictingQCs: another block of the QC's view has a child.
ConflictingQCs(s, qc) ==
    \E other \in s.forks \ {qc}, child \in s.forks \ {Root} :
        View[other] = View[qc] /\ QC[child] = other

\* Forks.finalizeUpToBlock: finalizes the ancestors first; they must lead to
\* the block finalized last.
FinalizeUpToBlock(s, b) ==
    IF s.finalized \in Ancestors[b]
    THEN [s EXCEPT !.finalized = b, !.forks = {c \in @ : View[c] >= View[b]}]
    ELSE Fatal(s)

\* Forks.getNextAncestryLevel returns ErrPrunedAncestry
PrunedAncestry(s, b) ==
    View[b] <= FinalizedView(s) \/ View[QC[b]] < FinalizedView(s)

\* Forks.getTwoChain finds the parent and the grandparent of b
TwoChainKnown(s, b) ==
    ~ PrunedAncestry(s, b) /\ QC[b] \in s.forks /\ ~ PrunedAncestry(s, QC[b])

\* Mutated form: the parent need not be a direct child of the grandparent.
UpdateFinalizedIndirectly(s, b) ==
    IF TwoChainKnown(s, b) THEN FinalizeUpToBlock(s, QC[QC[b]]) ELSE s

\* Mutated form: the QC for the parent finalizes it.
UpdateFinalizedParent(s, b) ==
    IF ~ PrunedAncestry(s, b) THEN FinalizeUpToBlock(s, QC[b]) ELSE s

\* Forks.updateFinalizedBlockQC for a new block b: its parent, if it is a
\* direct child of the grandparent, finalizes the grandparent.
UpdateFinalizedBlockQC(s, b) ==
    CASE ~ PrunedAncestry(s, b) /\ QC[b] \notin s.forks -> Fatal(s)
      [] TwoChainKnown(s, b) /\ QC[QC[b]] \notin s.forks -> Fatal(s)
      [] /\ TwoChainKnown(s, b)
         /\ QC[QC[b]] \in s.forks
         /\ View[QC[b]] = View[QC[QC[b]]] + 1 -> FinalizeUpToBlock(s, QC[QC[b]])
      [] OTHER -> s

\* Forks.AddProposal
AddProposal(s, b) ==
    CASE ~ VerifyProposal(s, b) -> Fatal(s)
      [] VerifyProposal(s, b) /\ (View[b] < FinalizedView(s) \/ b \in s.forks) -> s
      [] OTHER ->
           IF ConflictingQCs(s, QC[b]) THEN Fatal(s)
           ELSE UpdateFinalizedBlockQC([s EXCEPT !.forks = @ \cup {b}], b)

-----------------------------------------------------------------------------
(***************************************************************************)
(* SafetyRules.                                                            *)
(***************************************************************************)

\* Mutated form: the lock is taken one view below the QC.
ProduceVoteLockOffByOne(s, b) ==
    IF View[b] <= s.highestAcknowledgedView THEN s
    ELSE [s EXCEPT !.highestAcknowledgedView = View[b],
                   !.lockedOneChainView = View[QC[b]] - 1,
                   !.signed = @ \cup {b}]

\* Mutated form: the voted view is not acknowledged.
ProduceVoteUnacknowledged(s, b) ==
    IF View[b] <= s.highestAcknowledgedView THEN s
    ELSE [s EXCEPT !.lockedOneChainView = IF @ < View[QC[b]] THEN View[QC[b]] ELSE @,
                   !.signed = @ \cup {b}]

\* SafetyRules.ProduceVote, called by EventHandler.ownVote in view curView.
\* The safety data is persisted before the vote is returned.
ProduceVote(s, b) ==
    CASE \/ ~ ValidateEvidenceForEnteringView(View[b], QC[b], LastViewTC[b])
         \/ View[b] < s.highestAcknowledgedView -> Fatal(s)
      [] View[b] = s.highestAcknowledgedView -> s
      [] OTHER -> [s EXCEPT !.highestAcknowledgedView = View[b],
                            !.lockedOneChainView = IF @ < View[QC[b]] THEN View[QC[b]] ELSE @,
                            !.signed = @ \cup {b}]

TimedOut(s) == s.lastTimeout # NoTimeout /\ s.lastTimeout.view = s.curView

\* SafetyRules.IsSafeToTimeout
IsSafeToTimeout(s, lastViewTC) ==
    /\ ValidateEvidenceForEnteringView(s.curView, s.newestQC, lastViewTC)
    /\ View[s.newestQC] >= s.lockedOneChainView
    /\ s.curView + 1 > s.highestAcknowledgedView

\* SafetyRules.ProduceTimeout
ProduceTimeout(s, lastViewTC) ==
    CASE TimedOut(s) -> [s EXCEPT !.lastTimeout.tick = @ + 1]
      [] ~ TimedOut(s) /\ IsSafeToTimeout(s, lastViewTC) ->
           [s EXCEPT !.highestAcknowledgedView = s.curView,
                     !.lastTimeout = [view |-> s.curView, newestQC |-> s.newestQC, tick |-> 0]]
      [] OTHER -> Fatal(s)

-----------------------------------------------------------------------------
(***************************************************************************)
(* EventHandler.                                                           *)
(***************************************************************************)

\* The evidence a replica shows for its view: the TC is left out when the last
\* view also ended with a QC.
Evidence(s) == IF View[s.newestQC] + 1 = s.curView THEN NoTC ELSE s.lastViewTC

\* Mutated form: an earlier proposal for the view is not looked up.
MayProposeAgain(s, r) ==
    /\ s.curView \in DOMAIN Leader
    /\ Leader[s.curView] = r
    /\ s.newestQC \in s.forks

\* The replica is the primary of its view, has not proposed in it yet and knows
\* the block to build on.
MayPropose(s, r) ==
    /\ s.curView \in DOMAIN Leader
    /\ Leader[s.curView] = r
    /\ \A b \in s.forks : View[b] # s.curView
    /\ s.newestQC \in s.forks

\* The compliance layer and the block builder put a block into storage before
\* the event handler sees it.
Store(s, b) == [s EXCEPT !.stored = @ \cup {b}]

\* BlockProducer.MakeBlockProposal: the new block is determined by what it
\* contains.
IsOwnProposal(s, b) ==
    /\ b # Root
    /\ View[b] = s.curView
    /\ QC[b] = s.newestQC
    /\ LastViewTC[b] = Evidence(s)

\* EventHandler.proposeForNewViewIfPrimary
ProposeForNewViewIfPrimary(s, r) ==
    CASE s.fatal \/ ~ MayPropose(s, r) -> s
      [] /\ ~ s.fatal /\ MayPropose(s, r)
         /\ View[s.newestQC] + 1 # s.curView
         /\ s.lastViewTC = NoTC \/ s.lastViewTC.view + 1 # s.curView -> Fatal(s)
      [] OTHER ->
           LET b == CHOOSE b \in Block : IsOwnProposal(s, b)
           IN  AddProposal(Store([s EXCEPT !.signed = @ \cup {b}], b), b)

\* EventHandler.processBlockForCurrentView and ownVote
ProcessBlockForCurrentView(s, b) ==
    CASE s.fatal \/ View[b] # s.curView -> s
      [] ~ s.fatal /\ View[b] = s.curView /\ QC[b] \notin s.forks -> Fatal(s)
      [] OTHER -> ProduceVote(s, b)

\* EventHandler.broadcastTimeoutObjectIfAuthorized, which is OnLocalTimeout
BroadcastTimeoutObject(s) == ProduceTimeout(s, Evidence(s))

\* The states the replica goes through before it acts on a proposal; each one
\* is persisted before the next is computed.
Incorporated(s, b) == AddProposal(Store(s, b), b)
QCProcessed(s, b) ==
    LET t == Incorporated(s, b) IN IF t.fatal THEN t ELSE ProcessQC(t, QC[b])
TCProcessed(s, b) ==
    LET t == QCProcessed(s, b) IN IF t.fatal THEN t ELSE ProcessTC(t, LastViewTC[b])

\* EventHandler.OnReceiveProposal
OnReceiveProposal(s, r, b) ==
    IF View[b] < FinalizedView(s) THEN Store(s, b)
    ELSE LET t == ProcessBlockForCurrentView(TCProcessed(s, b), b)
         IN  IF t.fatal \/ View[b] = t.curView THEN t
             ELSE ProposeForNewViewIfPrimary(t, r)

\* EventHandler.OnReceiveQc and OnReceiveTc: propose only on a view change
OnReceiveQc(s, r, qc) ==
    LET t == ProcessQC(s, qc)
    IN  IF t.curView = s.curView THEN t ELSE ProposeForNewViewIfPrimary(t, r)
OnReceiveTc(s, r, tc) ==
    LET t == ProcessTC(s, tc)
    IN  IF t.curView = s.curView THEN t ELSE ProposeForNewViewIfPrimary(t, r)

\* EventHandler.OnPartialTcCreated: never proposes
OnPartialTcCreated(s, view, qc, tc) ==
    LET t == ProcessCertificates(s, qc, tc)
    IN  IF t.curView = view THEN BroadcastTimeoutObject(t) ELSE t

-----------------------------------------------------------------------------
(***************************************************************************)
(* Restart: NewForks, recovery.Participant and EventHandler.Start.         *)
(***************************************************************************)

\* Mutated form: only the finalized block is put back.
RecoverForksFinalizedOnly(s, new) == [s EXCEPT !.forks = {s.finalized}]

\* Forks is rebuilt from the finalized block and its stored descendants: those
\* that had been incorporated, and a block that had not been (or the root).
RecoverForks(s, new) ==
    LET t == [s EXCEPT !.forks = {b \in s.stored \ {new} : s.finalized \in Ancestors[b]}
                                 \cup {s.finalized}]
    IN  IF s.finalized \in Ancestors[new] THEN AddProposal(t, new) ELSE t

\* The blocks processPendingBlocks will visit.
Recover(s, new) ==
    LET t == RecoverForks(s, new)
    IN  [t EXCEPT !.started = FALSE,
                  !.pending = {b \in t.forks \ {Root} : View[b] >= t.curView}]

\* The replica stops while it handles proposal b, and restarts.  On disk is the
\* block and maybe some of the finalizations it causes; or also a new view,
\* entered with the block's certificates, in which it has not acted.
Interrupted(s, b) ==
    {Recover([Store(s, b) EXCEPT !.finalized = f], b) :
        f \in {a \in Ancestors[Incorporated(s, b).finalized] : s.finalized \in Ancestors[a]}}
    \cup (IF View[b] < FinalizedView(s) THEN {}
          ELSE {Recover(QCProcessed(s, b), Root), Recover(TCProcessed(s, b), Root)})

\* EventHandler.processPendingBlocks: one block of the lowest view not visited
\* yet (the order within a view is that of the forest's index).
NextPending(s) == {b \in s.pending : \A c \in s.pending : View[b] <= View[c]}
ProcessPendingBlock(s, b) ==
    [ProcessCertificates(s, QC[b], LastViewTC[b]) EXCEPT !.pending = @ \ {b}]

\* EventHandler.Start, after all pending blocks
StartNewView(s, r) == ProposeForNewViewIfPrimary([s EXCEPT !.started = TRUE], r)

=============================================================================
