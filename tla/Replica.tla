------------------------------ MODULE Replica ------------------------------
(***************************************************************************)
(* The event handler of one replica, Self, in an arbitrary environment,    *)
(* with crashes at every point where something is persisted.               *)
(*                                                                         *)
(* The environment is the rest of the committee: all the certificates it   *)
(* may ever produce, delivered in any order, repeatedly or not at all.     *)
(* What the replica may assume of it is what SafetyRules guarantees: one QC*)
(* per view, QCs only for valid proposals, and TCs that report at least the*)
(* QC inside every certified block of their view or a lower one            *)
(* (OneQCPerView, VotesRecorded and TCReportsLockedQC there).              *)
(***************************************************************************)
EXTENDS EventHandler

CONSTANTS
    Self,       \* the replica
    MaxCrashes  \* bound: crashes per behaviour

ASSUME CrashAssumption == MaxCrashes \in Nat

\* Block includes whatever Self may propose as the leader of a view: a block
\* for every pair of certificates that are the evidence for entering the view.
ASSUME ProposalAssumption ==
    \A v \in DOMAIN Leader : Leader[v] = Self =>
        \A qc \in Block :
            \A tc \in {NoTC} \cup {[view |-> v - 1, newestQC |-> n] : n \in Block} :
                ValidateEvidenceForEnteringView(v, qc, tc) =>
                    \E b \in Block \ {Root} : View[b] = v /\ QC[b] = qc /\ LastViewTC[b] = tc

VARIABLES
    certified,  \* the blocks the committee produces a QC for, sooner or later
    node,       \* the state of the replica
    crashes     \* crashes so far

vars == <<certified, node, crashes>>

-----------------------------------------------------------------------------
(***************************************************************************)
(* The environment.                                                        *)
(***************************************************************************)

\* The TCs that may exist next to the QCs for the blocks in C.
PossibleTC(tc, C) ==
    /\ tc.newestQC \in C
    /\ View[tc.newestQC] <= tc.view
    /\ \A c \in C \ {Root} : View[c] <= tc.view => View[QC[c]] <= View[tc.newestQC]

\* Validator.ValidateProposal
ValidateProposal(b, C) ==
    /\ b # Root
    /\ ValidateEvidenceForEnteringView(View[b], QC[b], LastViewTC[b])
    /\ QC[b] \in C
    /\ LastViewTC[b] # NoTC => PossibleTC(LastViewTC[b], C)

Environments ==
    {C \in SUBSET Block :
        /\ Root \in C
        /\ \A b, c \in C : View[b] = View[c] => b = c
        /\ \A c \in C \ {Root} : ValidateProposal(c, C)}

\* A valid proposal bears its leader's signature, so there is no QC for a block
\* of Self, or on top of one, until Self has signed the block.
Certified ==
    {c \in certified : \A a \in Ancestors[c] \ {Root} :
        Leader[View[a]] = Self => a \in node.signed}

TCsFor(view) ==
    {tc \in [view : {view}, newestQC : Certified] : PossibleTC(tc, certified)}

\* Proposals that the compliance layer validates, stores and submits to the
\* event loop.  The parent is stored and the block descends from the finalized
\* block, or did so when it was submitted.  No block is submitted twice, except
\* that the leader's own proposal comes back to it.
Submitted ==
    {b \in Block \ {Root} :
        LET leader == Leader[View[b]] IN
        /\ leader = Self => b \in node.signed
        /\ b \in node.stored => leader = Self
        /\ \/ QC[b] \in node.stored /\ node.finalized \in Ancestors[b]
           \/ QC[b] \in node.forks
           \/ View[QC[b]] < FinalizedView(node)
        /\ QC[b] \in Certified
        /\ ValidateProposal(b, certified)}

\* TimeoutProcessor.Process, once timeouts of more than a third of the committee
\* are in: the newest QC of all of them and the TC of the last one.
PartialTCs(view) ==
    {p \in Certified \X (TCsFor(view - 1) \cup {NoTC}) :
        /\ View[p[1]] < view
        /\ \E qc \in Certified :
              /\ ValidateEvidenceForEnteringView(view, qc, p[2])
              /\ View[qc] <= View[p[1]]}

-----------------------------------------------------------------------------
(***************************************************************************)
(* The behaviour of the replica.                                           *)
(***************************************************************************)
Init ==
    /\ certified \in Environments
    /\ node = Bootstrapped
    /\ crashes = 0

\* Bounds on the views with a timeout and on the repetitions of one.
MayTimeOut(s) ==
    /\ s.curView <= MaxView
    /\ TimedOut(s) => s.lastTimeout.tick < MaxTick

ReceiveProposal ==
    \E b \in Submitted : node' = OnReceiveProposal(node, Self, b)

ReceiveQC ==
    \E qc \in Certified : node' = OnReceiveQc(node, Self, qc)

ReceiveTC ==
    \E v \in Views \ {View[Root]} : \E tc \in TCsFor(v) :
        node' = OnReceiveTc(node, Self, tc)

LocalTimeout ==
    /\ MayTimeOut(node)
    /\ node' = BroadcastTimeoutObject(node)

PartialTC ==
    \E v \in Views \ {View[Root]} : \E p \in PartialTCs(v) :
        /\ MayTimeOut(ProcessCertificates(node, p[1], p[2]))
        /\ node' = OnPartialTcCreated(node, v, p[1], p[2])

\* The event loop handles one event after another once it has started.
Handle ==
    /\ node.started
    /\ ReceiveProposal \/ ReceiveQC \/ ReceiveTC \/ LocalTimeout \/ PartialTC
    /\ UNCHANGED <<certified, crashes>>

VisitPendingBlock ==
    \E b \in NextPending(node) : node' = ProcessPendingBlock(node, b)

EnterView ==
    /\ node.pending = {}
    /\ node' = StartNewView(node, Self)

Start ==
    /\ ~ node.started
    /\ VisitPendingBlock \/ EnterView
    /\ UNCHANGED <<certified, crashes>>

\* The replica stops between two events or while it handles a proposal.
CrashIdle == node' = Recover(node, Root)
CrashInHandler == \E b \in Submitted : node' \in Interrupted(node, b)

Crash ==
    /\ crashes < MaxCrashes
    /\ crashes' = crashes + 1
    /\ CrashIdle \/ (node.started /\ CrashInHandler)
    /\ UNCHANGED certified

\* A replica whose event loop has ended with an exception does nothing.
Next == ~ node.fatal /\ (Start \/ Handle \/ Crash)

Spec == Init /\ [][Next]_vars

-----------------------------------------------------------------------------
(***************************************************************************)
(* Properties.                                                             *)
(***************************************************************************)

\* The record has the types of LivenessData, SafetyData and Forks.
TypeOK ==
    /\ certified \subseteq Block
    /\ node \in Node
    /\ crashes \in 0 .. MaxCrashes

\* No handler and no restart ends with an exception, whatever proposals and
\* certificates arrive in whatever order: event_handler.go and forks.go call
\* each such error a symptom of state corruption or a severe bug.
NoException == ~ node.fatal

\* A replica finalizes only blocks with a certified direct child, for which the
\* safety rules guarantee agreement (SafetyRules, Agreement).
FinalizedIsFinalizable ==
    node.finalized = Root \/
    \E c \in certified \ {Root} :
        QC[c] = node.finalized /\ View[c] = View[node.finalized] + 1

\* In every state, before and after a crash, the replica can prove that it may
\* act in its view: its certificates are the evidence SafetyRules asks for,
\* they are no older than its lock, and it has not acted in a later view.
CanTimeOut ==
    /\ ValidateEvidenceForEnteringView(node.curView, node.newestQC, Evidence(node))
    /\ node.lockedOneChainView <= View[node.newestQC]
    /\ node.highestAcknowledgedView <= node.curView

\* A replica, as a voter or as the leader, signs at most one block of a view,
\* also when it crashes after signing and enters the view again.
OneSignaturePerView ==
    \A b, c \in node.signed : View[b] = View[c] => b = c

\* What is finalized is never given up, and views never go back, at a crash
\* neither.
NeverGoesBack ==
    [][/\ node.finalized \in Ancestors[node'.finalized]
       /\ node.curView <= node'.curView]_vars

\* "Honest replicas will never vote after timing out for current view"
\* (event_handler.go), where a proposal is the leader's vote for its block.
NoSignatureAfterTimeout ==
    [][\A b \in node'.signed \ node.signed :
          node.lastTimeout # NoTimeout => node.lastTimeout.view < View[b]]_vars

=============================================================================
