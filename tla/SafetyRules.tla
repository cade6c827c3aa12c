---------------------------- MODULE SafetyRules ----------------------------
(***************************************************************************)
(* The signing kernel of Flow's HotStuff (Jolteon) consensus: the component*)
(* consensus/hotstuff/safetyrules of every honest replica, together with   *)
(* the validation rules (consensus/hotstuff/validator) that decide which   *)
(* certificates and proposals reach it.                                    *)
(*                                                                         *)
(* Honest replicas run the code.  Byzantine replicas are not represented   *)
(* by state: their signature is available on everything at any time, so a  *)
(* certificate exists as soon as the *honest* members of some quorum have  *)
(* signed.  Proposals come from anybody.                                   *)
(***************************************************************************)
EXTENDS Blocks

CONSTANTS
    Replicas,   \* the honest members of the committee
    Byzantine,  \* the other members of the committee
    Quorums     \* the sets of members that reach the QC weight threshold

\* model.TimeoutObject, what its signature covers.  (The LastViewTC it carries
\* is derived from other timeouts; TimeoutTick is not part of its ID.)
TimeoutObject == [signer : Replicas, view : Nat, newestQC : Block]

\* Two quorums share an honest replica: the Byzantine weight is below a third.
ASSUME QuorumAssumption ==
    /\ Quorums \subseteq SUBSET (Replicas \cup Byzantine)
    /\ \A P, Q \in Quorums : P \cap Q \cap Replicas # {}

-----------------------------------------------------------------------------
VARIABLES
    highestAcknowledgedView,  \* SafetyData.HighestAcknowledgedView
    lockedOneChainView,       \* SafetyData.LockedOneChainView
    lastTimeout,              \* SafetyData.LastTimeout
    votes,                    \* <<replica, block>> signed so far
    timeouts                  \* TimeoutObjects signed so far

safetyData == <<highestAcknowledgedView, lockedOneChainView, lastTimeout>>
vars == <<highestAcknowledgedView, lockedOneChainView, lastTimeout, votes, timeouts>>

-----------------------------------------------------------------------------
(***************************************************************************)
(* Validation.                                                             *)
(***************************************************************************)

\* Validator.ValidateQC: signers of quorum weight, all of whose signatures on
\* the block verify.  The root QC is trusted.
ValidateQC(b) ==
    \/ b = Root
    \/ \E Q \in Quorums : \A r \in Q \cap Replicas : <<r, b>> \in votes

\* Validator.ValidateTC: signers of quorum weight who timed out in the TC's
\* view, each contributing the view of its newest QC; the included QC is valid,
\* at least as new as every contributed view and not newer than the TC.
ValidateTC(tc) ==
    /\ View[tc.newestQC] <= tc.view
    /\ \E Q \in Quorums : \A r \in Q \cap Replicas : \E t \in timeouts :
          /\ t.signer = r
          /\ t.view = tc.view
          /\ View[t.newestQC] <= View[tc.newestQC]
    /\ ValidateQC(tc.newestQC)

\* Validator.ValidateProposal.  (Whether the proposer is the view's leader does
\* not matter here: every view may have a Byzantine leader.)
ValidateProposal(b) ==
    /\ b # Root
    /\ \/ /\ View[b] = View[QC[b]] + 1
          /\ LastViewTC[b] = NoTC
       \/ /\ View[b] # View[QC[b]] + 1
          /\ LastViewTC[b] # NoTC
          /\ View[b] = LastViewTC[b].view + 1
          /\ View[QC[b]] >= View[LastViewTC[b].newestQC]
          /\ ValidateTC(LastViewTC[b])
    /\ ValidateQC(QC[b])

-----------------------------------------------------------------------------
(***************************************************************************)
(* The safety rules.                                                       *)
(***************************************************************************)

\* Mutated form: acting twice in the acknowledged view is not refused.
IsSafeToVoteTwice(r, b) ==
    /\ ValidateEvidenceForEnteringView(View[b], QC[b], LastViewTC[b])
    /\ View[b] >= highestAcknowledgedView[r]

IsSafeToVote(r, b) ==
    /\ ValidateEvidenceForEnteringView(View[b], QC[b], LastViewTC[b])
    /\ View[b] > highestAcknowledgedView[r]

\* Mutated form: the lock is not consulted.
IsSafeToTimeoutUnlocked(r, curView, newestQC, lastViewTC) ==
    /\ ValidateEvidenceForEnteringView(curView, newestQC, lastViewTC)
    /\ curView + 1 > highestAcknowledgedView[r]

IsSafeToTimeout(r, curView, newestQC, lastViewTC) ==
    /\ ValidateEvidenceForEnteringView(curView, newestQC, lastViewTC)
    /\ View[newestQC] >= lockedOneChainView[r]
    /\ curView + 1 > highestAcknowledgedView[r]

\* state/protocol/badger bootstraps the safety data from the root block.
Init ==
    /\ highestAcknowledgedView = [r \in Replicas |-> View[Root]]
    /\ lockedOneChainView = [r \in Replicas |-> View[Root]]
    /\ lastTimeout = [r \in Replicas |-> NoTimeout]
    /\ votes = {}
    /\ timeouts = {}

\* Mutated form: the lock is not raised.
ProduceVoteWithoutLock(r, b) ==
    /\ b # Root
    /\ IsSafeToVote(r, b)
    /\ ValidateProposal(b)
    /\ votes' = votes \cup {<<r, b>>}
    /\ highestAcknowledgedView' = [highestAcknowledgedView EXCEPT ![r] = View[b]]
    /\ UNCHANGED <<lockedOneChainView, lastTimeout, timeouts>>

\* Mutated form: the lock is taken one view below the QC.
ProduceVoteLockOffByOne(r, b) ==
    /\ b # Root
    /\ IsSafeToVote(r, b)
    /\ ValidateProposal(b)
    /\ votes' = votes \cup {<<r, b>>}
    /\ highestAcknowledgedView' = [highestAcknowledgedView EXCEPT ![r] = View[b]]
    /\ lockedOneChainView' = [lockedOneChainView EXCEPT ![r] = View[QC[b]] - 1]
    /\ UNCHANGED <<lastTimeout, timeouts>>

\* Mutated form: the voted view is not acknowledged.
ProduceVoteUnacknowledged(r, b) ==
    /\ b # Root
    /\ IsSafeToVote(r, b)
    /\ ValidateProposal(b)
    /\ votes' = votes \cup {<<r, b>>}
    /\ lockedOneChainView' = [lockedOneChainView EXCEPT
           ![r] = IF @ < View[QC[b]] THEN View[QC[b]] ELSE @]
    /\ UNCHANGED <<highestAcknowledgedView, lastTimeout, timeouts>>

\* SafetyRules.ProduceVote on a validated proposal.  The safety data is
\* persisted before the vote is returned, so a crash inside the call leaves
\* either the old data and no vote, or this step.
ProduceVote(r, b) ==
    /\ b # Root
    /\ IsSafeToVote(r, b)
    /\ ValidateProposal(b)
    /\ votes' = votes \cup {<<r, b>>}
    /\ highestAcknowledgedView' = [highestAcknowledgedView EXCEPT ![r] = View[b]]
    /\ lockedOneChainView' = [lockedOneChainView EXCEPT
           ![r] = IF @ < View[QC[b]] THEN View[QC[b]] ELSE @]
    /\ UNCHANGED <<lastTimeout, timeouts>>

TimedOutIn(r, view) ==
    /\ lastTimeout[r] # NoTimeout
    /\ lastTimeout[r].view = view

\* Mutated form: the timed out view is not acknowledged.
ProduceTimeoutUnacknowledged(r, curView, newestQC, lastViewTC) ==
    /\ ~ TimedOutIn(r, curView)
    /\ IsSafeToTimeout(r, curView, newestQC, lastViewTC)
    /\ lastTimeout' = [lastTimeout EXCEPT
           ![r] = [view |-> curView, newestQC |-> newestQC, tick |-> 0]]
    /\ timeouts' = timeouts \cup
           {[signer |-> r, view |-> curView, newestQC |-> newestQC]}
    /\ UNCHANGED <<highestAcknowledgedView, lockedOneChainView, votes>>

\* SafetyRules.ProduceTimeout, first call in the view.  Its inputs are trusted:
\* the PaceMaker only holds validated certificates (see Next).
ProduceTimeout(r, curView, newestQC, lastViewTC) ==
    /\ ~ TimedOutIn(r, curView)
    /\ IsSafeToTimeout(r, curView, newestQC, lastViewTC)
    /\ highestAcknowledgedView' = [highestAcknowledgedView EXCEPT ![r] = curView]
    /\ lastTimeout' = [lastTimeout EXCEPT
           ![r] = [view |-> curView, newestQC |-> newestQC, tick |-> 0]]
    /\ timeouts' = timeouts \cup
           {[signer |-> r, view |-> curView, newestQC |-> newestQC]}
    /\ UNCHANGED <<lockedOneChainView, votes>>

\* SafetyRules.ProduceTimeout, repeated in the same view: whatever newer QC the
\* replica has learned since, the stored timeout is returned with a higher tick.
RepeatTimeout(r, curView) ==
    /\ TimedOutIn(r, curView)
    /\ lastTimeout[r].tick < MaxTick
    /\ lastTimeout' = [lastTimeout EXCEPT ![r].tick = @ + 1]
    /\ timeouts' = timeouts \cup
           {[signer |-> r, view |-> lastTimeout[r].view,
             newestQC |-> lastTimeout[r].newestQC]}
    /\ UNCHANGED <<highestAcknowledgedView, lockedOneChainView, votes>>

\* The blocks a QC exists for, and the TCs that can be built for a view.
Certified == {b \in Block : ValidateQC(b)}
TCsFor(view) == {tc \in [view : {view}, newestQC : Certified] : ValidateTC(tc)}

Next ==
    \/ \E r \in Replicas, b \in Block : ProduceVote(r, b)
    \/ \E v \in Views \ {View[Root]} :
          \E qc \in Certified, tc \in TCsFor(v - 1) \cup {NoTC}, r \in Replicas :
             ProduceTimeout(r, v, qc, tc)
    \/ \E r \in Replicas, v \in Views : RepeatTimeout(r, v)

Spec == Init /\ [][Next]_vars

-----------------------------------------------------------------------------
(***************************************************************************)
(* Properties.                                                             *)
(***************************************************************************)

\* The safety data and everything signed have the types of hotstuff.SafetyData
\* and model.TimeoutObject.
TypeOK ==
    /\ highestAcknowledgedView \in [Replicas -> Nat]
    /\ lockedOneChainView \in [Replicas -> Nat]
    /\ lastTimeout \in [Replicas -> LastTimeout \cup {NoTimeout}]
    /\ votes \subseteq Replicas \X Block
    /\ timeouts \subseteq TimeoutObject

\* Forks finalizes a block when a direct child (next view) of it is certified.
Finalizable(b) ==
    \E c \in Block \ {Root} : QC[c] = b /\ View[c] = View[b] + 1 /\ ValidateQC(c)

\* Consensus safety: whatever the Byzantine replicas do, any two blocks that
\* some replica may finalize (Forks.updateFinalizedBlockQC) are on one chain.
Agreement ==
    LET Finalized == {b \in Block : Finalizable(b)}
    IN  \A b, c \in Finalized : b \in Ancestors[c] \/ c \in Ancestors[b]

\* No two conflicting QCs exist for one view, the condition that
\* Forks.checkForConflictingQCs reports as ByzantineThresholdExceededError.
OneQCPerView ==
    LET QCs == Certified IN \A b, c \in QCs : View[b] = View[c] => b = c

\* A TC cannot hide a finalized block: once a block is certified, every TC that
\* can be built for its view or a later one reports a QC at least as new as the
\* QC inside that block.  This is what the lock is for.
TCReportsLockedQC ==
    \A v \in Views : LET TCs == TCsFor(v) QCs == Certified \ {Root} IN
        \A tc \in TCs, c \in QCs : View[c] <= v => View[tc.newestQC] >= View[QC[c]]

\* An honest replica never signs two timeouts with different content for one
\* view (TimeoutObjectsCache reports that as double timeout), even when it has
\* learned a newer QC between two local timeouts.
NoDoubleTimeout ==
    \A s, t \in timeouts : s.signer = t.signer /\ s.view = t.view => s = t

\* SafetyRules never votes in or below a view in which it has timed out.
NoVoteAfterTimeout ==
    [][\A vote \in votes' \ votes : \A t \in timeouts :
          t.signer = vote[1] => t.view < View[vote[2]]]_vars

-----------------------------------------------------------------------------
(***************************************************************************)
(* The inductive invariant behind the properties.                          *)
(***************************************************************************)

\* Every vote is for a validated block with evidence for its view, and the
\* voter's safety data has recorded the view and the QC inside the block.
VotesRecorded ==
    \A r \in Replicas, b \in Block : <<r, b>> \in votes =>
        /\ ValidateProposal(b)
        /\ View[QC[b]] < View[b]
        /\ View[Root] < View[b]
        /\ View[b] <= highestAcknowledgedView[r]
        /\ View[QC[b]] <= lockedOneChainView[r]

\* The root view counts as acknowledged from the start.
RootAcknowledged ==
    \A r \in Replicas : View[Root] <= highestAcknowledgedView[r]

\* No honest replica votes twice in a view.
NoDoubleVote ==
    \A r \in Replicas, b, c \in Block :
        <<r, b>> \in votes /\ <<r, c>> \in votes /\ View[b] = View[c] => b = c

\* LastTimeout is the newest timeout of the replica, and it was acknowledged.
TimeoutsRecorded ==
    /\ \A t \in timeouts :
          /\ lastTimeout[t.signer] # NoTimeout
          /\ t.view <= lastTimeout[t.signer].view
    /\ \A r \in Replicas : lastTimeout[r] # NoTimeout =>
          /\ lastTimeout[r].view <= highestAcknowledgedView[r]
          /\ [signer |-> r, view |-> lastTimeout[r].view,
              newestQC |-> lastTimeout[r].newestQC] \in timeouts

\* A replica that timed out in or after the view of a block it voted for
\* reported a QC at least as new as the QC inside that block.
TimeoutsRespectLock ==
    \A r \in Replicas, b \in Block : \A t \in timeouts :
        <<r, b>> \in votes /\ t.signer = r /\ View[b] <= t.view =>
            View[QC[b]] <= View[t.newestQC]

\* The conjunction is preserved by every call of SafetyRules and implies the
\* safety properties above.
SafetyInv ==
    /\ TypeOK
    /\ RootAcknowledged
    /\ VotesRecorded
    /\ NoDoubleVote
    /\ TimeoutsRecorded
    /\ TimeoutsRespectLock
    /\ NoDoubleTimeout

=============================================================================
