--------------------------- MODULE ReplicaProofs ---------------------------
(***************************************************************************)
(* TLAPS proofs about Replica: for every tree of blocks, every committee   *)
(* that keeps the safety rules and any number of crashes, a replica ends   *)
(* with no exception, finalizes only what is finalizable, never goes back, *)
(* signs one block per view and can always prove that it may act in its    *)
(* view.  All of it follows from one inductive invariant, ReplicaInv.      *)
(***************************************************************************)
EXTENDS Replica, EventHandlerProofs

-----------------------------------------------------------------------------
(***************************************************************************)
(* The inductive invariant.                                                *)
(***************************************************************************)

\* The certificates of the environment.
Env ==
    [qcs |-> certified,
     tcs |-> {tc \in TimeoutCertificate : PossibleTC(tc, certified)}]

ReplicaInv ==
    /\ certified \in Environments
    /\ crashes \in 0 .. MaxCrashes
    /\ Sound(node, Self, Env)
    /\ FinalizedBelowView(node, Env)

\* Validity in the environment is validity with its certificates.
LEMMA ValidInEnv ==
    ASSUME NEW b \in Block
    PROVE  ValidateProposal(b, certified) <=> ValidBlock(b, Env)
BY BlockAssumption DEF ValidateProposal, ValidBlock, Env

\* The environment's certificates are such that the lemmas about the event
\* handler apply.
LEMMA EnvIsPossible == certified \in Environments => Env \in Certificates
<1> SUFFICES ASSUME certified \in Environments PROVE Env \in Certificates
  OBVIOUS
<1>1. /\ certified \subseteq Block /\ Root \in certified
      /\ \A b, c \in certified : View[b] = View[c] => b = c
      /\ \A c \in certified \ {Root} : ValidateProposal(c, certified)
  BY DEF Environments
<1>2. /\ Env \in [qcs : SUBSET Block, tcs : SUBSET TimeoutCertificate]
      /\ Env.qcs = certified
  BY <1>1 DEF Env
<1>3. \A c \in Env.qcs \ {Root} : ValidBlock(c, Env)
  BY <1>1, <1>2, ValidInEnv
<1>4. \A tc \in Env.tcs : PossibleTC(tc, certified)
  BY DEF Env
<1> QED BY <1>1, <1>2, <1>3, <1>4 DEF Certificates, PossibleTC

\* The block for every proposal of the replica exists.
LEMMA SelfCanPropose == CanPropose(Self)
BY ProposalAssumption DEF CanPropose

-----------------------------------------------------------------------------
(***************************************************************************)
(* The specification.                                                      *)
(***************************************************************************)

\* The bootstrapped replica satisfies the invariant.
LEMMA ReplicaInvInit == Init => ReplicaInv
<1> SUFFICES ASSUME Init PROVE ReplicaInv
  OBVIOUS
<1>1. certified \in Environments /\ crashes \in 0 .. MaxCrashes /\ node = Bootstrapped
  BY CrashAssumption DEF Init
<1>2. Env \in Certificates
  BY <1>1, EnvIsPossible
<1> QED BY <1>1, <1>2, BootstrappedSound DEF ReplicaInv

\* What the compliance layer submits is valid and has a known parent.
LEMMA SubmittedFacts ==
    ASSUME ReplicaInv, NEW b \in Submitted
    PROVE  /\ b \in Block /\ ValidBlock(b, Env) /\ KnownParent(node, b)
           /\ Leader[View[b]] = Self => b \in node.signed
<1>1. /\ b \in Block /\ b # Root /\ ValidateProposal(b, certified)
      /\ Leader[View[b]] = Self => b \in node.signed
      /\ \/ QC[b] \in node.stored /\ node.finalized \in Ancestors[b]
         \/ QC[b] \in node.forks
         \/ View[QC[b]] < FinalizedView(node)
  BY DEF Submitted
<1>2. KnownParent(node, b)
  BY <1>1, SubmittedParentKnown DEF ReplicaInv
<1> QED BY <1>1, <1>2, ValidInEnv

\* The certificates that arrive are those of the environment.
LEMMA DeliveredFacts ==
    ASSUME ReplicaInv
    PROVE  /\ Certified \subseteq Env.qcs
           /\ \A v \in Nat : TCsFor(v) \subseteq Env.tcs
<1>1. certified \subseteq Block
  BY DEF ReplicaInv, Environments
<1> QED BY <1>1 DEF Certified, TCsFor, TimeoutCertificate, Env

\* The views for which a TC may be built.
LEMMA ViewsFacts ==
    ASSUME NEW v \in Views \ {View[Root]} PROVE v \in Nat /\ v - 1 \in Nat
BY BlockFacts DEF Views

\* Every handler keeps the invariant.
LEMMA HandleStep == ASSUME ReplicaInv, Handle PROVE Kept(node, node', Self, Env)
<1>0. Env \in Certificates /\ Running(node, Self, Env) /\ CanPropose(Self)
  BY EnvIsPossible, SelfCanPropose DEF ReplicaInv, Handle, Running
<1>1. CASE ReceiveProposal
  <2>1. PICK b \in Submitted : node' = OnReceiveProposal(node, Self, b)
    BY <1>1 DEF ReceiveProposal
  <2> QED BY <1>0, <2>1, SubmittedFacts, ReceiveProposalStep DEF Kept, Running
<1>2. CASE ReceiveQC
  <2>1. PICK qc \in Certified : node' = OnReceiveQc(node, Self, qc)
    BY <1>2 DEF ReceiveQC
  <2> QED BY <1>0, <2>1, DeliveredFacts, ReceiveQcStep
<1>3. CASE ReceiveTC
  <2>1. PICK v \in Views \ {View[Root]} : \E tc \in TCsFor(v) : node' = OnReceiveTc(node, Self, tc)
    BY <1>3 DEF ReceiveTC
  <2>2. PICK tc \in TCsFor(v) : node' = OnReceiveTc(node, Self, tc)
    BY <2>1
  <2> QED BY <1>0, <2>2, DeliveredFacts, ViewsFacts, ReceiveTcStep
<1>4. CASE LocalTimeout
  BY <1>0, <1>4, LocalTimeoutStep DEF LocalTimeout, MayTimeOut
<1>5. CASE PartialTC
  <2>1. PICK v \in Views \ {View[Root]} : \E p \in PartialTCs(v) :
           /\ MayTimeOut(ProcessCertificates(node, p[1], p[2]))
           /\ node' = OnPartialTcCreated(node, v, p[1], p[2])
    BY <1>5 DEF PartialTC
  <2>2. PICK p \in PartialTCs(v) :
           /\ MayTimeOut(ProcessCertificates(node, p[1], p[2]))
           /\ node' = OnPartialTcCreated(node, v, p[1], p[2])
    BY <2>1
  <2>3. p[1] \in Certified /\ p[2] \in TCsFor(v - 1) \cup {NoTC}
    BY DEF PartialTCs
  <2>4. p[1] \in Env.qcs /\ p[2] \in Env.tcs \cup {NoTC}
    BY <2>3, DeliveredFacts, ViewsFacts
  <2> QED BY <1>0, <2>2, <2>4, PartialTcStep DEF MayTimeOut
<1> QED BY <1>1, <1>2, <1>3, <1>4, <1>5 DEF Handle

\* Both steps of Start keep the invariant.
LEMMA StartStep == ASSUME ReplicaInv, Start PROVE Kept(node, node', Self, Env)
<1>0. /\ Env \in Certificates /\ CanPropose(Self) /\ Sound(node, Self, Env)
      /\ FinalizedBelowView(node, Env) /\ ~ node.started
  BY EnvIsPossible, SelfCanPropose DEF ReplicaInv, Start
<1>1. CASE VisitPendingBlock
  <2>1. PICK b \in node.pending : node' = ProcessPendingBlock(node, b)
    BY <1>1 DEF VisitPendingBlock, NextPending
  <2> QED BY <1>0, <2>1, VisitPendingStep DEF Kept, SafetyStep
<1>2. CASE EnterView
  BY <1>0, <1>2, StartNewViewStep DEF EnterView, Kept
<1> QED BY <1>1, <1>2 DEF Start

\* A crash, at any point, followed by a restart keeps the invariant.
LEMMA CrashStep == ASSUME ReplicaInv, Crash PROVE Kept(node, node', Self, Env)
<1>0. /\ Env \in Certificates /\ Sound(node, Self, Env) /\ FinalizedBelowView(node, Env)
  BY EnvIsPossible DEF ReplicaInv
<1>1. CASE CrashIdle
  BY <1>0, <1>1, CrashIdleStep DEF CrashIdle, Kept, SafetyStep
<1>2. CASE node.started /\ CrashInHandler
  <2>1. Running(node, Self, Env)
    BY <1>0, <1>2 DEF Running
  <2>2. PICK b \in Submitted : node' \in Interrupted(node, b)
    BY <1>2 DEF CrashInHandler
  <2> QED BY <1>0, <2>1, <2>2, SubmittedFacts, InterruptedStep
<1> QED BY <1>1, <1>2 DEF Crash

\* The invariant is inductive, and every step goes forward.
LEMMA ReplicaInvNext ==
    ASSUME ReplicaInv, [Next]_vars
    PROVE  ReplicaInv' /\ (Forward(node, node') \/ UNCHANGED vars)
<1>1. CASE UNCHANGED vars
  BY <1>1 DEF vars, ReplicaInv, Env
<1>2. CASE Next
  <2>1. Kept(node, node', Self, Env)
    BY <1>2, HandleStep, StartStep, CrashStep DEF Next
  <2>2. certified' = certified /\ crashes' \in 0 .. MaxCrashes
    BY <1>2, CrashAssumption DEF Next, Start, Handle, Crash, ReplicaInv
  <2> QED BY <2>1, <2>2 DEF ReplicaInv, Kept, Env
<1> QED BY <1>1, <1>2

-----------------------------------------------------------------------------
\* The invariant of a replica and its environment holds in every state, for any
\* tree of blocks, any certificates the safety rules permit, any order of events
\* and any number of crashes.
THEOREM ReplicaInvariant == Spec => []ReplicaInv
<1>1. ReplicaInv /\ [Next]_vars => ReplicaInv'
  BY ReplicaInvNext
<1> QED BY <1>1, ReplicaInvInit, PTL DEF Spec

\* The record keeps the types of LivenessData, SafetyData and Forks.
THEOREM TypeOKTheorem == Spec => []TypeOK
<1>1. ReplicaInv => TypeOK
  BY DEF ReplicaInv, Environments, Sound, TypeOK
<1> QED BY <1>1, ReplicaInvariant, PTL

\* No handler of event_handler.go, no check in forks.go or safety_rules.go and no
\* restart ends with an exception.
THEOREM NoExceptionTheorem == Spec => []NoException
<1>1. ReplicaInv => NoException
  BY DEF ReplicaInv, Sound, NoException
<1> QED BY <1>1, ReplicaInvariant, PTL

\* Forks finalizes only blocks with a certified direct child, also when it is
\* rebuilt after a crash.
THEOREM FinalizedIsFinalizableTheorem == Spec => []FinalizedIsFinalizable
<1>1. ReplicaInv => FinalizedIsFinalizable
  BY DEF ReplicaInv, Env, FinalizedBelowView, Finalizes, FinalizedIsFinalizable
<1> QED BY <1>1, ReplicaInvariant, PTL

\* In every state the replica holds the evidence with which SafetyRules lets it
\* time out, so it is never stuck in a view.
THEOREM CanTimeOutTheorem == Spec => []CanTimeOut
<1>1. ReplicaInv => CanTimeOut
  BY EnvIsPossible, EvidenceIsValid DEF ReplicaInv, Sound, SafetyDataBehind, CanTimeOut
<1> QED BY <1>1, ReplicaInvariant, PTL

\* A replica signs one block of a view, as voter and as leader together, also
\* across crashes.
THEOREM OneSignaturePerViewTheorem == Spec => []OneSignaturePerView
<1>1. ReplicaInv => OneSignaturePerView
  BY DEF ReplicaInv, Sound, SignaturesRecorded, OneSignaturePerView
<1> QED BY <1>1, ReplicaInvariant, PTL

\* No step gives up a finalized block or returns to an earlier view.
THEOREM NeverGoesBackTheorem == Spec => NeverGoesBack
<1>1. ReplicaInv /\ [Next]_vars =>
         [/\ node.finalized \in Ancestors[node'.finalized]
          /\ node.curView <= node'.curView]_vars
  BY ReplicaInvNext DEF Forward
<1> QED BY <1>1, ReplicaInvariant, PTL DEF Spec, NeverGoesBack

=============================================================================
