------------------------------ MODULE HotStuff ------------------------------
(***************************************************************************)
(* A committee of honest replicas that run EventHandler and of Byzantine   *)
(* ones, which sign and propose anything.  All signatures are available to *)
(* everybody, so a certificate may be delivered as soon as it can be built.*)
(*                                                                         *)
(* This composition shows that the replicas implement SafetyRules: every   *)
(* signature they give, as voter, as leader or in a timeout, is a step of  *)
(* the safety rules.                                                       *)
(***************************************************************************)
EXTENDS EventHandler, FiniteSets

CONSTANTS
    Replicas, Byzantine, Quorums,  \* as in SafetyRules
    MaxCrashes                     \* bound: crashes per behaviour

\* As in SafetyRules: the Byzantine weight is below a third.
ASSUME CommitteeAssumption ==
    /\ Quorums \subseteq SUBSET (Replicas \cup Byzantine)
    /\ \A P, Q \in Quorums : P \cap Q \cap Replicas # {}

ASSUME CrashAssumption == MaxCrashes \in Nat

\* Block includes whatever an honest leader may propose, see Replica.
ASSUME ProposalAssumption ==
    \A v \in DOMAIN Leader : Leader[v] \in Replicas =>
        \A qc \in Block :
            \A tc \in {NoTC} \cup {[view |-> v - 1, newestQC |-> n] : n \in Block} :
                ValidateEvidenceForEnteringView(v, qc, tc) =>
                    \E b \in Block \ {Root} : View[b] = v /\ QC[b] = qc /\ LastViewTC[b] = tc

VARIABLES
    node,      \* the state of every honest replica
    timeouts,  \* the TimeoutObjects signed so far
    crashes    \* crashes so far

vars == <<node, timeouts, crashes>>

-----------------------------------------------------------------------------
(***************************************************************************)
(* What the safety rules see.  They do not know of the proposals a leader  *)
(* signs; here a proposal counts as acting in the view under a lock on the *)
(* QC it contains.                                                         *)
(***************************************************************************)
Highest(S) == CHOOSE x \in S : \A y \in S : y <= x

AcknowledgedViews(s) == {s.highestAcknowledgedView} \cup {View[b] : b \in s.signed}
LockedViews(s) == {s.lockedOneChainView} \cup {View[QC[b]] : b \in s.signed}

highestAcknowledgedView == [r \in Replicas |-> Highest(AcknowledgedViews(node[r]))]
lockedOneChainView == [r \in Replicas |-> Highest(LockedViews(node[r]))]
lastTimeout == [r \in Replicas |-> node[r].lastTimeout]
votes == UNION {{r} \X node[r].signed : r \in Replicas}

Rules == INSTANCE SafetyRules WITH
    highestAcknowledgedView <- highestAcknowledgedView,
    lockedOneChainView <- lockedOneChainView,
    lastTimeout <- lastTimeout,
    votes <- votes

-----------------------------------------------------------------------------
(***************************************************************************)
(* What may be delivered to a replica.                                     *)
(***************************************************************************)

\* Proposals that the compliance layer submits, see Replica.
Submitted(r) ==
    {b \in Block \ {Root} :
        LET leader == Leader[View[b]] IN
        /\ leader \in Replicas => b \in node[leader].signed
        /\ b \in node[r].stored => leader = r
        /\ \/ QC[b] \in node[r].stored /\ node[r].finalized \in Ancestors[b]
           \/ QC[b] \in node[r].forks
           \/ View[QC[b]] < FinalizedView(node[r])
        /\ Rules!ValidateProposal(b)}

\* TimeoutProcessor.Process: the signers of the view are more than a third of
\* the committee (they meet every quorum).  The notification carries the newest
\* QC of all timeouts and the TC of the last one.
PartialTCs(view) ==
    LET signers == {t.signer : t \in {u \in timeouts : u.view = view}}
    IN  IF \E Q \in Quorums : Q \cap (signers \cup Byzantine) = {} THEN {}
        ELSE {p \in Rules!Certified \X (Rules!TCsFor(view - 1) \cup {NoTC}) :
                 /\ View[p[1]] < view
                 /\ \E qc \in Rules!Certified :
                       /\ ValidateEvidenceForEnteringView(view, qc, p[2])
                       /\ View[qc] <= View[p[1]]}

-----------------------------------------------------------------------------
Init ==
    /\ node = [r \in Replicas |-> Bootstrapped]
    /\ timeouts = {}
    /\ crashes = 0

\* The replica has come to state t; a new timeout in it was broadcast.
Become(r, t) ==
    /\ node' = [node EXCEPT ![r] = t]
    /\ timeouts' = timeouts \cup
          (IF t.lastTimeout = NoTimeout THEN {}
           ELSE {[signer |-> r, view |-> t.lastTimeout.view,
                  newestQC |-> t.lastTimeout.newestQC]})

MayTimeOut(s) ==
    /\ s.curView <= MaxView
    /\ TimedOut(s) => s.lastTimeout.tick < MaxTick

ReceiveProposal(r) ==
    \E b \in Submitted(r) : Become(r, OnReceiveProposal(node[r], r, b))

ReceiveQC(r) ==
    \E qc \in Rules!Certified : Become(r, OnReceiveQc(node[r], r, qc))

ReceiveTC(r) ==
    \E v \in Views \ {View[Root]} : \E tc \in Rules!TCsFor(v) :
        Become(r, OnReceiveTc(node[r], r, tc))

LocalTimeout(r) ==
    /\ MayTimeOut(node[r])
    /\ Become(r, BroadcastTimeoutObject(node[r]))

PartialTC(r) ==
    \E v \in Views \ {View[Root]} : \E p \in PartialTCs(v) :
        /\ MayTimeOut(ProcessCertificates(node[r], p[1], p[2]))
        /\ Become(r, OnPartialTcCreated(node[r], v, p[1], p[2]))

Handle(r) ==
    /\ node[r].started
    /\ \/ ReceiveProposal(r)
       \/ ReceiveQC(r)
       \/ ReceiveTC(r)
       \/ LocalTimeout(r)
       \/ PartialTC(r)
    /\ UNCHANGED crashes

Start(r) ==
    /\ ~ node[r].started
    /\ \/ \E b \in NextPending(node[r]) : Become(r, ProcessPendingBlock(node[r], b))
       \/ node[r].pending = {} /\ Become(r, StartNewView(node[r], r))
    /\ UNCHANGED crashes

Crash(r) ==
    /\ crashes < MaxCrashes
    /\ crashes' = crashes + 1
    /\ \/ Become(r, Recover(node[r], Root))
       \/ /\ node[r].started
          /\ \E b \in Submitted(r) : \E t \in Interrupted(node[r], b) : Become(r, t)

Next == \E r \in Replicas : ~ node[r].fatal /\ (Start(r) \/ Handle(r) \/ Crash(r))

Spec == Init /\ [][Next]_vars

-----------------------------------------------------------------------------
(***************************************************************************)
(* Properties.                                                             *)
(***************************************************************************)

\* Every signature the replicas give is one that the safety rules permit, at
\* the moment they give it, across crashes.  (Here only the leader of the first
\* view is honest: see NoSignatureAfterTimeout in Replica for the others.)
SafetyRulesImplemented == Rules!Spec

\* The blocks finalized by any two replicas are on one chain.
FinalizedAgree ==
    \A r, q \in Replicas :
        \/ node[r].finalized \in Ancestors[node[q].finalized]
        \/ node[q].finalized \in Ancestors[node[r].finalized]

=============================================================================
