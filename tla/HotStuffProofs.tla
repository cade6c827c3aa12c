--------------------------- MODULE HotStuffProofs ---------------------------
(***************************************************************************)
(* TLAPS proofs about HotStuff: every signature that the event handlers of *)
(* a committee give is a step of the safety rules, for every committee,    *)
(* every tree of blocks, any order of events and any number of crashes, as *)
(* long as no leader signs a proposal for a view it has timed out in; and  *)
(* so the replicas finalize one chain.                                     *)
(*                                                                         *)
(* The two directions depend on each other: a replica stays sound because  *)
(* the certificates it sees obey the safety rules, and they do because the *)
(* replicas that sign them are sound.  One invariant says both.            *)
(***************************************************************************)
EXTENDS HotStuff, EventHandlerProofs

\* The safety rules with what is proved about them, under the refinement
\* mapping of HotStuff.
Proven == INSTANCE SafetyRulesProofs WITH
    highestAcknowledgedView <- highestAcknowledgedView,
    lockedOneChainView <- lockedOneChainView,
    lastTimeout <- lastTimeout,
    votes <- votes

-----------------------------------------------------------------------------
(***************************************************************************)
(* The safety rules of HotStuff are those that SafetyRulesProofs is about. *)
(***************************************************************************)

\* The assumptions of SafetyRules hold of the committee.
LEMMA KernelAssumptions ==
    /\ Proven!BlockAssumption /\ Proven!AncestorsAssumption /\ Proven!BoundAssumption
    /\ Proven!QuorumAssumption
BY BlockAssumption, AncestorsAssumption, BoundAssumption, CommitteeAssumption
   DEF Proven!BlockAssumption, Proven!AncestorsAssumption, Proven!BoundAssumption,
       Proven!QuorumAssumption, Proven!TimeoutCertificate, TimeoutCertificate,
       Proven!LastTimeout, LastTimeout

\* Both instances of SafetyRules define the same certificates.
LEMMA SameCertificates ==
    /\ Rules!Certified = Proven!Certified
    /\ \A v : Rules!TCsFor(v) = Proven!TCsFor(v)
    /\ \A b : Rules!ValidateProposal(b) = Proven!ValidateProposal(b)
<1>1. \A b : Rules!ValidateQC(b) = Proven!ValidateQC(b)
  BY DEF Rules!ValidateQC, Proven!ValidateQC
<1>2. \A tc : Rules!ValidateTC(tc) = Proven!ValidateTC(tc)
  BY <1>1 DEF Rules!ValidateTC, Proven!ValidateTC
<1>3. Rules!Certified = Proven!Certified
  BY <1>1 DEF Rules!Certified, Proven!Certified
<1>4. \A v : Rules!TCsFor(v) = Proven!TCsFor(v)
  BY <1>2, <1>3 DEF Rules!TCsFor, Proven!TCsFor
<1>5. \A b : Rules!ValidateProposal(b) = Proven!ValidateProposal(b)
  BY <1>1, <1>2 DEF Rules!ValidateProposal, Proven!ValidateProposal
<1> QED BY <1>3, <1>4, <1>5

\* Neither do their steps differ.
LEMMA SameSteps == [Proven!Next]_(Proven!vars) => [Rules!Next]_(Rules!vars)
<1> USE SameCertificates DEF Proven!ValidateEvidenceForEnteringView,
        Rules!ValidateEvidenceForEnteringView, Proven!TimedOutIn, Rules!TimedOutIn
<1>1. ASSUME UNCHANGED Proven!vars PROVE UNCHANGED Rules!vars
  BY <1>1 DEF Proven!vars, Rules!vars
<1>2. ASSUME NEW r, NEW b, Proven!ProduceVote(r, b) PROVE Rules!ProduceVote(r, b)
  BY <1>2 DEF Proven!ProduceVote, Rules!ProduceVote, Proven!IsSafeToVote, Rules!IsSafeToVote
<1>3. ASSUME NEW r, NEW v, NEW qc, NEW tc, Proven!ProduceTimeout(r, v, qc, tc)
      PROVE  Rules!ProduceTimeout(r, v, qc, tc)
  BY <1>3 DEF Proven!ProduceTimeout, Rules!ProduceTimeout,
              Proven!IsSafeToTimeout, Rules!IsSafeToTimeout
<1>4. ASSUME NEW r, NEW v, Proven!RepeatTimeout(r, v) PROVE Rules!RepeatTimeout(r, v)
  BY <1>4, Zenon DEF Proven!RepeatTimeout, Rules!RepeatTimeout
<1>5. Proven!Views = Rules!Views
  BY DEF Proven!Views, Rules!Views
<1> QED BY <1>1, <1>2, <1>3, <1>4, <1>5 DEF Proven!Next, Rules!Next

-----------------------------------------------------------------------------
(***************************************************************************)
(* The certificates of the committee.                                      *)
(***************************************************************************)
Certs ==
    [qcs |-> Proven!Certified,
     tcs |-> {tc \in TimeoutCertificate : Proven!ValidateTC(tc)}]

\* The two fields of the record.
LEMMA CertsFields ==
    /\ Certs.qcs = Proven!Certified
    /\ Certs.tcs = {tc \in TimeoutCertificate : Proven!ValidateTC(tc)}
BY DEF Certs

\* What Validator.ValidateProposal accepts is valid with these certificates.
LEMMA ValidWithCerts ==
    ASSUME NEW b \in Block PROVE Proven!ValidateProposal(b) <=> ValidBlock(b, Certs)
<1> SUFFICES ASSUME b # Root PROVE Proven!ValidateProposal(b) <=> ValidBlock(b, Certs)
  BY DEF Proven!ValidateProposal, ValidBlock
<1>1. /\ QC[b] \in Block /\ View[QC[b]] \in Nat /\ View[b] \in Nat /\ View[QC[b]] < View[b]
      /\ LastViewTC[b] \in TimeoutCertificate \cup {NoTC} /\ NoTC \notin TimeoutCertificate
  BY BlockFacts
<1>2. Proven!ValidateQC(QC[b]) <=> QC[b] \in Certs.qcs
  BY <1>1, CertsFields DEF Proven!Certified
<1>3. ASSUME LastViewTC[b] # NoTC
      PROVE  /\ Proven!ValidateTC(LastViewTC[b]) <=> LastViewTC[b] \in Certs.tcs
             /\ LastViewTC[b].view \in Nat /\ View[LastViewTC[b].newestQC] \in Nat
  BY <1>1, <1>3, CertsFields, BlockFacts DEF TimeoutCertificate
<1> QED BY <1>1, <1>2, <1>3
        DEF Proven!ValidateProposal, ValidBlock, ValidateEvidenceForEnteringView

\* Under the safety rules they are certificates to which the lemmas about the
\* event handler apply.
LEMMA CertsArePossible == Proven!SafetyInv => Certs \in Certificates
<1> SUFFICES ASSUME Proven!SafetyInv PROVE Certs \in Certificates
  OBVIOUS
<1>1. /\ Certs \in [qcs : SUBSET Block, tcs : SUBSET TimeoutCertificate]
  BY DEF Certs, Proven!Certified
<1>2. Root \in Certs.qcs
  BY CertsFields, BlockFacts DEF Proven!Certified, Proven!ValidateQC
<1>3. \A b, c \in Certs.qcs : View[b] = View[c] => b = c
  <2>1. Proven!OneQCPerView
    BY KernelAssumptions, Proven!UniqueCertificates
  <2> QED BY <2>1, CertsFields DEF Proven!OneQCPerView
<1>4. \A c \in Certs.qcs \ {Root} : ValidBlock(c, Certs)
  <2> SUFFICES ASSUME NEW c \in Certs.qcs \ {Root} PROVE ValidBlock(c, Certs)
    OBVIOUS
  <2>1. c \in Block \ {Root} /\ Proven!ValidateQC(c)
    BY CertsFields DEF Proven!Certified
  <2>2. Proven!ValidateProposal(c)
    BY <2>1, KernelAssumptions, Proven!CertifiedIsValid
  <2> QED BY <2>1, <2>2, ValidWithCerts
<1>5. ASSUME NEW tc \in Certs.tcs
      PROVE  /\ tc.newestQC \in Certs.qcs
             /\ View[tc.newestQC] <= tc.view
             /\ \A c \in Certs.qcs \ {Root} :
                   View[c] <= tc.view => View[QC[c]] <= View[tc.newestQC]
  <2>1. tc \in TimeoutCertificate /\ Proven!ValidateTC(tc) /\ tc.newestQC \in Block
    BY CertsFields DEF TimeoutCertificate
  <2>2. tc.newestQC \in Certs.qcs /\ View[tc.newestQC] <= tc.view
    BY <2>1, CertsFields DEF Proven!ValidateTC, Proven!Certified
  <2>3. ASSUME NEW c \in Certs.qcs \ {Root}, View[c] <= tc.view
        PROVE  View[QC[c]] <= View[tc.newestQC]
    <3>1. c \in Block \ {Root} /\ Proven!ValidateQC(c)
      BY CertsFields DEF Proven!Certified
    <3>2. tc \in Proven!TimeoutCertificate
      BY <2>1 DEF TimeoutCertificate, Proven!TimeoutCertificate
    <3>3. View[tc.newestQC] >= View[QC[c]]
      BY <2>1, <2>3, <3>1, <3>2, KernelAssumptions, Proven!LockCarriesOver
    <3>4. View[tc.newestQC] \in Nat /\ View[QC[c]] \in Nat
      BY <2>1, <3>1, BlockFacts
    <3> QED BY <3>3, <3>4
  <2> QED BY <2>2, <2>3
<1> QED BY <1>1, <1>2, <1>3, <1>4, <1>5 DEF Certificates

\* Signatures only accumulate, and so do certificates.
LEMMA CertsGrow ==
    ASSUME votes \subseteq votes', timeouts \subseteq timeouts'
    PROVE  Certs.qcs \subseteq Certs'.qcs /\ Certs.tcs \subseteq Certs'.tcs
<1>1. /\ \A b : Proven!ValidateQC(b) => Proven!ValidateQC(b)'
      /\ \A tc : Proven!ValidateTC(tc) => Proven!ValidateTC(tc)'
  BY KernelAssumptions, Proven!ValidationMonotone
<1> QED BY <1>1 DEF Certs, Proven!Certified

-----------------------------------------------------------------------------
(***************************************************************************)
(* The refinement mapping: what SafetyRules sees of one replica.           *)
(***************************************************************************)

\* A set of natural numbers with an upper bound has a greatest element.
LEMMA HighestExists ==
    ASSUME NEW S, S \subseteq Nat, S # {}, NEW n \in Nat, \A x \in S : x <= n
    PROVE  Highest(S) \in S /\ \A x \in S : x <= Highest(S)
<1> DEFINE D == {n - x : x \in S}
<1>1. D \in SUBSET Nat /\ D # {}
  <2>1. ASSUME NEW x \in S PROVE n - x \in Nat
    <3>1. x \in Nat /\ x <= n
      OBVIOUS
    <3> QED BY <3>1
  <2> QED BY <2>1
<1>2. PICK d \in D : \A e \in D : d <= e
  <2> HIDE DEF D
  <2> QED BY <1>1, LeastNatural
<1>3. PICK m \in S : d = n - m
  BY <1>2
<1>4. ASSUME NEW x \in S PROVE x <= m
  <2>1. n - x \in D
    OBVIOUS
  <2> QED BY <1>2, <1>3, <2>1
<1> QED BY <1>4 DEF Highest

\* It is the only one.
LEMMA HighestIs ==
    ASSUME NEW S, S \subseteq Nat, NEW m \in S, \A x \in S : x <= m
    PROVE  Highest(S) = m
<1>1. Highest(S) \in S /\ \A x \in S : x <= Highest(S)
  BY DEF Highest
<1>2. Highest(S) \in Nat /\ m \in Nat /\ m <= Highest(S) /\ Highest(S) <= m
  BY <1>1
<1> QED BY <1>2

\* The view and the lock that SafetyRules sees are bounded by the PaceMaker.
LEMMA MappedFacts ==
    ASSUME NEW C, NEW r, NEW s, Sound(s, r, C)
    PROVE  /\ AcknowledgedViews(s) \subseteq Nat /\ LockedViews(s) \subseteq Nat
           /\ Highest(AcknowledgedViews(s)) \in AcknowledgedViews(s)
           /\ \A x \in AcknowledgedViews(s) : x <= Highest(AcknowledgedViews(s))
           /\ \A x \in AcknowledgedViews(s) : x <= s.curView
           /\ Highest(LockedViews(s)) \in LockedViews(s)
           /\ \A x \in LockedViews(s) : x <= Highest(LockedViews(s))
           /\ \A x \in LockedViews(s) : x <= View[s.newestQC]
<1>1. /\ s \in Node /\ SafetyDataBehind(s) /\ SignaturesRecorded(s, r)
  BY DEF Sound
<1>2. /\ s.curView \in Nat /\ View[s.newestQC] \in Nat /\ s.signed \subseteq Block
      /\ s.highestAcknowledgedView \in Nat /\ s.lockedOneChainView \in Nat
  BY <1>1, NodeFields
<1>3. \A b \in s.signed : b # Root /\ View[b] \in Nat /\ View[QC[b]] \in Nat
  BY <1>1, <1>2, BlockFacts DEF SignaturesRecorded
<1>4. /\ AcknowledgedViews(s) \subseteq Nat /\ LockedViews(s) \subseteq Nat
      /\ AcknowledgedViews(s) # {} /\ LockedViews(s) # {}
  BY <1>2, <1>3 DEF AcknowledgedViews, LockedViews
<1>5. \A x \in AcknowledgedViews(s) : x <= s.curView
  BY <1>1 DEF AcknowledgedViews, SafetyDataBehind, SignaturesRecorded
<1>6. \A x \in LockedViews(s) : x <= View[s.newestQC]
  BY <1>1 DEF LockedViews, SafetyDataBehind
<1>7. /\ Highest(AcknowledgedViews(s)) \in AcknowledgedViews(s)
      /\ \A x \in AcknowledgedViews(s) : x <= Highest(AcknowledgedViews(s))
  BY <1>2, <1>4, <1>5, HighestExists
<1>8. /\ Highest(LockedViews(s)) \in LockedViews(s)
      /\ \A x \in LockedViews(s) : x <= Highest(LockedViews(s))
  BY <1>2, <1>4, <1>6, HighestExists
<1> QED BY <1>4, <1>5, <1>6, <1>7, <1>8

\* A new signature, of a voter or a leader, is in a view above all in which the
\* replica has acted, and raises view and lock as ProduceVote does.
LEMMA SignatureMapped ==
    ASSUME NEW C, NEW r, NEW s, NEW t, Sound(s, r, C), Sound(t, r, C),
           s.curView <= t.curView,
           NEW b \in Block, b \notin s.signed, t.signed = s.signed \cup {b},
           View[b] = t.curView, s.highestAcknowledgedView < View[b],
           t.highestAcknowledgedView \in {s.highestAcknowledgedView, View[b]},
           \/ t.lockedOneChainView = s.lockedOneChainView
           \/ t.lockedOneChainView = IF s.lockedOneChainView < View[QC[b]] THEN View[QC[b]]
                                     ELSE s.lockedOneChainView
    PROVE  /\ Highest(AcknowledgedViews(s)) < View[b]
           /\ Highest(AcknowledgedViews(t)) = View[b]
           /\ Highest(LockedViews(t)) = IF Highest(LockedViews(s)) < View[QC[b]]
                                        THEN View[QC[b]] ELSE Highest(LockedViews(s))
<1> DEFINE ack == Highest(AcknowledgedViews(s))
           lock == Highest(LockedViews(s))
           new == IF lock < View[QC[b]] THEN View[QC[b]] ELSE lock
<1>1. /\ AcknowledgedViews(s) \subseteq Nat /\ ack \in AcknowledgedViews(s)
      /\ LockedViews(s) \subseteq Nat /\ lock \in LockedViews(s)
      /\ \A x \in LockedViews(s) : x <= lock
      /\ \A x \in AcknowledgedViews(s) : x <= s.curView
  BY MappedFacts
<1>2. /\ AcknowledgedViews(t) \subseteq Nat /\ LockedViews(t) \subseteq Nat
      /\ \A x \in AcknowledgedViews(t) : x <= t.curView
  BY MappedFacts
<1>3. /\ s \in Node /\ t \in Node /\ SignaturesRecorded(t, r)
      /\ s.curView \in Nat /\ t.curView \in Nat /\ s.signed \subseteq Block
      /\ s.lockedOneChainView \in Nat /\ s.highestAcknowledgedView \in Nat
  BY NodeFields DEF Sound
<1>4. b # Root /\ View[b] \in Nat /\ View[QC[b]] \in Nat
  BY <1>3, BlockFacts DEF SignaturesRecorded
<1>5. ack < View[b]
  <2>1. CASE ack = s.highestAcknowledgedView
    BY <2>1
  <2>2. ASSUME NEW c \in s.signed, ack = View[c] PROVE ack < View[b]
    <3>1. View[c] # View[b]
      BY <1>3, <2>2 DEF SignaturesRecorded
    <3> QED BY <1>1, <1>3, <1>4, <2>2, <3>1
  <2> QED BY <1>1, <2>1, <2>2 DEF AcknowledgedViews
<1>6. Highest(AcknowledgedViews(t)) = View[b]
  <2>1. View[b] \in AcknowledgedViews(t)
    BY DEF AcknowledgedViews
  <2> QED BY <1>2, <2>1, HighestIs
<1>7. Highest(LockedViews(t)) = new
  <2>1. s.lockedOneChainView <= lock /\ \A c \in s.signed : View[QC[c]] <= lock
    BY <1>1 DEF LockedViews
  <2>2. lock \in Nat /\ new \in Nat /\ lock <= new /\ View[QC[b]] <= new
    BY <1>1, <1>4
  <2>3. \A c \in s.signed : View[QC[c]] \in Nat
    BY <1>1 DEF LockedViews
  <2>4. ASSUME NEW x \in LockedViews(t) PROVE x <= new
    <3>1. CASE x = t.lockedOneChainView
      BY <1>3, <1>4, <2>1, <2>2, <3>1
    <3>2. CASE x = View[QC[b]]
      BY <2>2, <3>2
    <3>3. ASSUME NEW c \in s.signed, x = View[QC[c]] PROVE x <= new
      <4>1. View[QC[c]] <= lock /\ View[QC[c]] \in Nat
        BY <2>1, <2>3
      <4> HIDE DEF new, lock
      <4> QED BY <2>2, <3>3, <4>1
    <3> QED BY <3>1, <3>2, <3>3 DEF LockedViews
  <2>5. new \in LockedViews(t)
    <3>1. View[QC[b]] \in LockedViews(t)
      BY DEF LockedViews
    <3>2. ASSUME ~ (lock < View[QC[b]]) PROVE lock \in LockedViews(t)
      <4>1. CASE lock = s.lockedOneChainView
        <5>1. t.lockedOneChainView = s.lockedOneChainView
          BY <1>3, <1>4, <3>2, <4>1
        <5> QED BY <4>1, <5>1 DEF LockedViews
      <4>2. ASSUME NEW c \in s.signed, lock = View[QC[c]] PROVE lock \in LockedViews(t)
        BY <4>2 DEF LockedViews
      <4> QED BY <1>1, <4>1, <4>2 DEF LockedViews
    <3> QED BY <3>1, <3>2
  <2> QED BY <1>2, <2>4, <2>5, HighestIs
<1> QED BY <1>5, <1>6, <1>7

\* A leader's vote for the block it has proposed shows nothing new.
LEMMA OwnVoteMapped ==
    ASSUME NEW C, NEW r, NEW s, NEW t, Sound(s, r, C), Sound(t, r, C),
           NEW b \in s.signed, VotesFor(s, t, b)
    PROVE  /\ t.signed = s.signed
           /\ Highest(AcknowledgedViews(t)) = Highest(AcknowledgedViews(s))
           /\ Highest(LockedViews(t)) = Highest(LockedViews(s))
<1> DEFINE ack == Highest(AcknowledgedViews(s))
           lock == Highest(LockedViews(s))
<1>1. /\ AcknowledgedViews(s) \subseteq Nat /\ ack \in AcknowledgedViews(s)
      /\ \A x \in AcknowledgedViews(s) : x <= ack
      /\ LockedViews(s) \subseteq Nat /\ lock \in LockedViews(s)
      /\ \A x \in LockedViews(s) : x <= lock
  BY MappedFacts
<1>2. AcknowledgedViews(t) \subseteq Nat /\ LockedViews(t) \subseteq Nat
  BY MappedFacts
<1>3. t.signed = s.signed
  BY DEF VotesFor
<1>4. /\ s.highestAcknowledgedView < View[b] /\ t.highestAcknowledgedView = View[b]
      /\ t.lockedOneChainView = IF s.lockedOneChainView < View[QC[b]] THEN View[QC[b]]
                                ELSE s.lockedOneChainView
  BY DEF VotesFor
<1>5. /\ View[b] \in AcknowledgedViews(s) /\ s.highestAcknowledgedView \in AcknowledgedViews(s)
      /\ View[QC[b]] \in LockedViews(s) /\ s.lockedOneChainView \in LockedViews(s)
  BY DEF AcknowledgedViews, LockedViews
<1>6. Highest(AcknowledgedViews(t)) = ack
  <2>1. \A x \in AcknowledgedViews(t) : x \in AcknowledgedViews(s)
    BY <1>3, <1>4, <1>5 DEF AcknowledgedViews
  <2>2. ack \in AcknowledgedViews(t)
    <3>1. ack # s.highestAcknowledgedView
      BY <1>1, <1>4, <1>5
    <3> QED BY <1>1, <1>3, <3>1 DEF AcknowledgedViews
  <2> HIDE DEF ack
  <2> QED BY <1>1, <1>2, <2>1, <2>2, HighestIs
<1>7. Highest(LockedViews(t)) = lock
  <2>1. \A x \in LockedViews(t) : x \in LockedViews(s)
    BY <1>3, <1>4, <1>5 DEF LockedViews
  <2>2. lock \in LockedViews(t)
    <3>1. lock # s.lockedOneChainView \/ lock = t.lockedOneChainView
      BY <1>1, <1>4, <1>5
    <3> QED BY <1>1, <1>3, <3>1 DEF LockedViews
  <2> HIDE DEF lock
  <2> QED BY <1>1, <1>2, <2>1, <2>2, HighestIs
<1> QED BY <1>3, <1>6, <1>7

\* A timeout is allowed by what SafetyRules sees, and raises the view only.
LEMMA TimeoutMapped ==
    ASSUME NEW C, NEW r, NEW s, NEW t, Sound(s, r, C), Sound(t, r, C),
           s.curView <= t.curView, TimesOut(s, t)
    PROVE  /\ Highest(AcknowledgedViews(s)) <= t.curView
           /\ Highest(AcknowledgedViews(t)) = t.curView
           /\ Highest(LockedViews(t)) = Highest(LockedViews(s))
           /\ Highest(LockedViews(s)) <= View[t.newestQC]
<1>1. /\ AcknowledgedViews(s) \subseteq Nat
      /\ Highest(AcknowledgedViews(s)) \in AcknowledgedViews(s)
      /\ \A x \in AcknowledgedViews(s) : x <= s.curView
  BY MappedFacts
<1>2. /\ AcknowledgedViews(t) \subseteq Nat
      /\ \A x \in AcknowledgedViews(t) : x <= t.curView
      /\ Highest(LockedViews(t)) <= View[t.newestQC]
  BY MappedFacts
<1>3. s.curView \in Nat /\ t.curView \in Nat
  BY NodeFields DEF Sound
<1>4. LockedViews(t) = LockedViews(s)
  BY DEF TimesOut, LockedViews
<1>5. Highest(AcknowledgedViews(t)) = t.curView
  <2>1. t.curView \in AcknowledgedViews(t)
    BY DEF AcknowledgedViews, TimesOut
  <2> QED BY <1>2, <2>1, HighestIs
<1> QED BY <1>1, <1>2, <1>3, <1>4, <1>5

-----------------------------------------------------------------------------
(***************************************************************************)
(* The inductive invariant.                                                *)
(***************************************************************************)

\* The highest acknowledged view of a replica is the root view, that of a block
\* it has signed or that of its last timeout, which it is never below.
SafetyTraced(s) ==
    /\ \/ s.highestAcknowledgedView = View[Root]
       \/ \E b \in s.signed : View[b] = s.highestAcknowledgedView
       \/ s.lastTimeout # NoTimeout /\ s.highestAcknowledgedView = s.lastTimeout.view
    /\ s.lastTimeout # NoTimeout => s.lastTimeout.view <= s.highestAcknowledgedView

\* The replicas are sound with the certificates their signatures make, and what
\* SafetyRules sees of them satisfies the invariant of SafetyRules.
CommitteeInv ==
    /\ Proven!SafetyInv
    /\ node \in [Replicas -> Node]
    /\ \A r \in Replicas :
          /\ Sound(node[r], r, Certs)
          /\ FinalizedBelowView(node[r], Certs)
          /\ SafetyTraced(node[r])

\* In a step from s to t no replica signs in a view in or below which it has
\* timed out.  Votes never do; SafetyRules is not asked about a proposal.
SignsBeforeTimeout(s, t) ==
    \A b \in t.signed \ s.signed : s.lastTimeout # NoTimeout => s.lastTimeout.view < View[b]

-----------------------------------------------------------------------------
(***************************************************************************)
(* Every step of a replica is one of SafetyRules.                          *)
(***************************************************************************)

\* What SafetyRules sees of a step.
LEMMA BecomeMapped ==
    ASSUME node \in [Replicas -> Node], NEW r \in Replicas, NEW t, Become(r, t),
           node[r].signed \subseteq t.signed
    PROVE  /\ highestAcknowledgedView' =
                 [highestAcknowledgedView EXCEPT ![r] = Highest(AcknowledgedViews(t))]
           /\ lockedOneChainView' = [lockedOneChainView EXCEPT ![r] = Highest(LockedViews(t))]
           /\ lastTimeout' = [lastTimeout EXCEPT ![r] = t.lastTimeout]
           /\ votes' = votes \cup ({r} \X t.signed)
           /\ highestAcknowledgedView[r] = Highest(AcknowledgedViews(node[r]))
           /\ lockedOneChainView[r] = Highest(LockedViews(node[r]))
           /\ lastTimeout[r] = node[r].lastTimeout
           /\ node'[r] = t /\ \A q \in Replicas : q # r => node'[q] = node[q]
           /\ node' = [node EXCEPT ![r] = t]
<1>1. node' = [node EXCEPT ![r] = t]
  BY DEF Become
<1>2. node'[r] = t /\ \A q \in Replicas : q # r => node'[q] = node[q]
  BY <1>1
<1>3. highestAcknowledgedView' =
         [highestAcknowledgedView EXCEPT ![r] = Highest(AcknowledgedViews(t))]
  BY <1>2 DEF highestAcknowledgedView
<1>4. lockedOneChainView' = [lockedOneChainView EXCEPT ![r] = Highest(LockedViews(t))]
  BY <1>2 DEF lockedOneChainView
<1>5. lastTimeout' = [lastTimeout EXCEPT ![r] = t.lastTimeout]
  BY <1>2 DEF lastTimeout
<1>6. votes' = votes \cup ({r} \X t.signed)
  <2>1. \A x : x \in votes <=> \E q \in Replicas : x \in {q} \X node[q].signed
    BY DEF votes
  <2>2. \A x : x \in votes' <=> \E q \in Replicas : x \in {q} \X node'[q].signed
    BY DEF votes
  <2>3. \A x : x \in votes' <=> x \in votes \cup ({r} \X t.signed)
    <3> TAKE x
    <3>1. ASSUME x \in votes' PROVE x \in votes \cup ({r} \X t.signed)
      BY <1>2, <2>1, <2>2, <3>1
    <3>2. ASSUME x \in {r} \X t.signed PROVE x \in votes'
      BY <1>2, <2>2, <3>2
    <3>3. ASSUME x \in votes PROVE x \in votes'
      <4>1. PICK q \in Replicas : x \in {q} \X node[q].signed
        BY <2>1, <3>3
      <4>2. node[q].signed \subseteq node'[q].signed
        BY <1>2
      <4> QED BY <2>2, <4>1, <4>2
    <3> QED BY <3>1, <3>2, <3>3
  <2> QED BY <2>3
<1> QED BY <1>1, <1>2, <1>3, <1>4, <1>5, <1>6
        DEF highestAcknowledgedView, lockedOneChainView, lastTimeout

\* A timeout object that the replica holds has been seen.
LEMMA LastTimeoutKnown ==
    ASSUME CommitteeInv, NEW r \in Replicas, node[r].lastTimeout # NoTimeout
    PROVE  [signer |-> r, view |-> node[r].lastTimeout.view,
            newestQC |-> node[r].lastTimeout.newestQC] \in timeouts
<1>1. Proven!TimeoutsRecorded
  BY DEF CommitteeInv, Proven!SafetyInv
<1>2. lastTimeout[r] = node[r].lastTimeout
  BY DEF lastTimeout
<1> QED BY <1>1, <1>2 DEF Proven!TimeoutsRecorded

\* A new vote or proposal is a ProduceVote.
LEMMA SignatureIsProduceVote ==
    ASSUME CommitteeInv, NEW r \in Replicas, NEW t, Become(r, t),
           Sound(t, r, Certs), node[r].curView <= t.curView,
           NEW b \in Block, b \notin node[r].signed,
           VotesFor(node[r], t, b) \/ Proposes(node[r], t, r, b),
           SignsBeforeTimeout(node[r], t)
    PROVE  Proven!ProduceVote(r, b)
<1> DEFINE s == node[r]
<1>0. /\ Sound(s, r, Certs) /\ SafetyTraced(s) /\ node \in [Replicas -> Node]
  BY DEF CommitteeInv
<1>1. t.signed = s.signed \cup {b} /\ View[b] = t.curView /\ t.lastTimeout = s.lastTimeout
  BY DEF VotesFor, Proposes
<1>2. b \in t.stored /\ b # Root /\ ValidBlock(b, Certs)
  BY <1>1 DEF Sound, SignaturesRecorded, ForestComplete
<1>3. s.highestAcknowledgedView < View[b]
  <2> SUFFICES ASSUME Proposes(s, t, r, b) PROVE s.highestAcknowledgedView < View[b]
    BY DEF VotesFor
  <2>1. /\ s.highestAcknowledgedView \in Nat /\ s.curView \in Nat /\ t.curView \in Nat
        /\ s.highestAcknowledgedView <= s.curView
    BY <1>0, NodeFields DEF Sound, SafetyDataBehind
  <2>2. View[Root] < View[b]
    <3>1. QC[b] \in Block /\ View[QC[b]] < View[b] /\ View[QC[b]] \in Nat /\ View[b] \in Nat
          /\ View[Root] \in Nat
      BY <1>2, BlockFacts
    <3> QED BY <3>1, AncestorsBasic
  <2>3. s.highestAcknowledgedView # View[b]
    <3>1. \A c \in s.signed : View[c] # View[b]
      BY <1>1 DEF Sound, SignaturesRecorded
    <3>2. s.lastTimeout # NoTimeout => s.lastTimeout.view < View[b]
      BY <1>1 DEF SignsBeforeTimeout
    <3>3. s.highestAcknowledgedView \in Nat /\ View[b] \in Nat /\ View[Root] \in Nat
      BY <1>1, <2>1, BlockFacts
    <3> QED BY <1>0, <2>2, <3>1, <3>2, <3>3 DEF SafetyTraced
  <2> QED BY <1>1, <2>1, <2>3
<1>4. /\ Highest(AcknowledgedViews(s)) < View[b]
      /\ Highest(AcknowledgedViews(t)) = View[b]
      /\ Highest(LockedViews(t)) = IF Highest(LockedViews(s)) < View[QC[b]]
                                   THEN View[QC[b]] ELSE Highest(LockedViews(s))
  <2>1. /\ t.highestAcknowledgedView \in {s.highestAcknowledgedView, View[b]}
        /\ \/ t.lockedOneChainView = s.lockedOneChainView
           \/ t.lockedOneChainView = IF s.lockedOneChainView < View[QC[b]] THEN View[QC[b]]
                                     ELSE s.lockedOneChainView
    BY DEF VotesFor, Proposes
  <2> HIDE DEF s
  <2> QED BY <1>0, <1>1, <1>3, <2>1, SignatureMapped DEF s
<1>5. Proven!ValidateProposal(b)
  BY <1>2, ValidWithCerts
<1>6. Proven!ValidateEvidenceForEnteringView(View[b], QC[b], LastViewTC[b])
  BY <1>2 DEF ValidBlock, ValidateEvidenceForEnteringView, Proven!ValidateEvidenceForEnteringView
<1>7. /\ highestAcknowledgedView' = [highestAcknowledgedView EXCEPT ![r] = View[b]]
      /\ lockedOneChainView' = [lockedOneChainView EXCEPT
             ![r] = IF @ < View[QC[b]] THEN View[QC[b]] ELSE @]
      /\ highestAcknowledgedView[r] < View[b]
      /\ votes' = votes \cup ({r} \X t.signed)
      /\ lastTimeout' = [lastTimeout EXCEPT ![r] = @]
  BY <1>0, <1>1, <1>4, BecomeMapped
<1>8. votes' = votes \cup {<<r, b>>}
  <2>1. {r} \X s.signed \subseteq votes
    BY DEF votes
  <2> QED BY <1>1, <1>7, <2>1
<1>9. lastTimeout' = lastTimeout
  BY <1>7 DEF lastTimeout
<1>10. timeouts' = timeouts
  BY <1>1, LastTimeoutKnown DEF Become
<1>11. View[b] > highestAcknowledgedView[r]
  <2>1. highestAcknowledgedView[r] = Highest(AcknowledgedViews(s)) /\ View[b] \in Nat
        /\ Highest(AcknowledgedViews(s)) \in Nat
    BY <1>0, MappedFacts, BlockFacts DEF highestAcknowledgedView
  <2> QED BY <1>4, <2>1
<1> QED BY <1>2, <1>5, <1>6, <1>7, <1>8, <1>9, <1>10, <1>11
        DEF Proven!ProduceVote, Proven!IsSafeToVote

\* The first timeout in a view is a ProduceTimeout, with the certificates that
\* the PaceMaker holds.
LEMMA TimeoutIsProduceTimeout ==
    ASSUME CommitteeInv, NEW r \in Replicas, NEW t, Become(r, t),
           Sound(t, r, Certs), node[r].curView <= t.curView, t.curView <= MaxView,
           TimesOut(node[r], t)
    PROVE  Proven!Next
<1> DEFINE s == node[r]
           v == t.curView
           tc == Evidence(t)
<1>0. /\ Sound(s, r, Certs) /\ node \in [Replicas -> Node] /\ Certs \in Certificates
  BY CertsArePossible DEF CommitteeInv
<1>1. /\ t \in Node /\ t.newestQC \in Certs.qcs /\ View[t.newestQC] < v
      /\ v \in Nat /\ t.newestQC \in Block /\ View[t.newestQC] \in Nat
  BY NodeFields DEF Sound, EnteredLegitimately
<1>2. /\ ValidateEvidenceForEnteringView(v, t.newestQC, tc)
      /\ tc # NoTC => tc \in Certs.tcs
  BY <1>0, EvidenceIsValid
<1>3. v \in Proven!Views \ {View[Root]}
  <2>1. View[Root] <= View[t.newestQC] /\ View[Root] \in Nat /\ MaxView \in Nat
    BY <1>1, AncestorsBasic, BlockFacts
  <2> QED BY <1>1, <2>1 DEF Proven!Views
<1>4. tc \in Proven!TCsFor(v - 1) \cup {NoTC}
  <2> SUFFICES ASSUME tc # NoTC PROVE tc \in Proven!TCsFor(v - 1)
    OBVIOUS
  <2>1. tc \in Certs.tcs /\ tc.view + 1 = v
    BY <1>2 DEF ValidateEvidenceForEnteringView
  <2>2. tc \in TimeoutCertificate /\ Proven!ValidateTC(tc) /\ tc.newestQC \in Certs.qcs
    BY <1>0, <2>1, CertsFields, TCFacts
  <2>3. tc.view = v - 1
    BY <1>1, <2>1, <2>2 DEF TimeoutCertificate
  <2>4. tc \in [view : {v - 1}, newestQC : Proven!Certified]
    BY <2>2, <2>3, CertsFields DEF TimeoutCertificate
  <2> QED BY <2>2, <2>4 DEF Proven!TCsFor
<1>5. /\ Highest(AcknowledgedViews(s)) <= v /\ Highest(AcknowledgedViews(t)) = v
      /\ Highest(LockedViews(t)) = Highest(LockedViews(s))
      /\ Highest(LockedViews(s)) <= View[t.newestQC]
  BY <1>0, TimeoutMapped
<1>6. /\ highestAcknowledgedView' = [highestAcknowledgedView EXCEPT ![r] = v]
      /\ lockedOneChainView' = [lockedOneChainView EXCEPT ![r] = @]
      /\ lastTimeout' = [lastTimeout EXCEPT
             ![r] = [view |-> v, newestQC |-> t.newestQC, tick |-> 0]]
      /\ votes' = votes \cup ({r} \X s.signed)
      /\ highestAcknowledgedView[r] <= v
      /\ lockedOneChainView[r] <= View[t.newestQC]
      /\ lastTimeout[r] = s.lastTimeout
  BY <1>0, <1>5, BecomeMapped DEF TimesOut
<1>7. lockedOneChainView' = lockedOneChainView
  BY <1>6 DEF lockedOneChainView
<1>8. votes' = votes
  BY <1>6 DEF votes
<1>9. timeouts' = timeouts \cup {[signer |-> r, view |-> v, newestQC |-> t.newestQC]}
  <2>1. t.lastTimeout = [view |-> v, newestQC |-> t.newestQC, tick |-> 0]
    BY DEF TimesOut
  <2>2. t.lastTimeout \in LastTimeout
    BY <1>1, <2>1, BlockFacts DEF LastTimeout
  <2>3. t.lastTimeout # NoTimeout
    BY <2>2, BlockFacts
  <2> QED BY <2>1, <2>3 DEF Become
<1>10. ~ Proven!TimedOutIn(r, v)
  BY <1>6 DEF TimesOut, Proven!TimedOutIn
<1>11. Proven!IsSafeToTimeout(r, v, t.newestQC, tc)
  <2>1. Proven!ValidateEvidenceForEnteringView(v, t.newestQC, tc)
    BY <1>2 DEF ValidateEvidenceForEnteringView, Proven!ValidateEvidenceForEnteringView
  <2>2. highestAcknowledgedView[r] \in Nat /\ lockedOneChainView[r] \in Nat
    BY <1>0, MappedFacts DEF highestAcknowledgedView, lockedOneChainView
  <2>3. View[t.newestQC] >= lockedOneChainView[r] /\ v + 1 > highestAcknowledgedView[r]
    BY <1>1, <1>6, <2>2
  <2> QED BY <2>1, <2>3 DEF Proven!IsSafeToTimeout
<1>12. Proven!ProduceTimeout(r, v, t.newestQC, tc)
  BY <1>6, <1>7, <1>8, <1>9, <1>10, <1>11 DEF Proven!ProduceTimeout
<1>13. t.newestQC \in Proven!Certified
  BY <1>1, CertsFields
<1> HIDE DEF v, tc
<1> QED BY <1>3, <1>4, <1>12, <1>13 DEF Proven!Next

\* A repeated timeout is a RepeatTimeout.
LEMMA RepetitionIsRepeatTimeout ==
    ASSUME CommitteeInv, NEW r \in Replicas, NEW t, Become(r, t),
           Sound(t, r, Certs), t.curView <= MaxView, RepeatsTimeout(node[r], t)
    PROVE  Proven!Next
<1> DEFINE s == node[r]
           v == t.curView
<1>0. Sound(s, r, Certs) /\ node \in [Replicas -> Node] /\ s \in Node
  BY DEF CommitteeInv, Sound
<1>1. /\ t.highestAcknowledgedView = s.highestAcknowledgedView /\ t.signed = s.signed
      /\ t.lockedOneChainView = s.lockedOneChainView
      /\ s.lastTimeout # NoTimeout /\ s.lastTimeout.view = v /\ s.lastTimeout.tick < MaxTick
      /\ t.lastTimeout = [s.lastTimeout EXCEPT !.tick = @ + 1]
  BY Zenon DEF RepeatsTimeout
<1>2. AcknowledgedViews(t) = AcknowledgedViews(s) /\ LockedViews(t) = LockedViews(s)
  BY <1>1 DEF AcknowledgedViews, LockedViews
<1>3. /\ highestAcknowledgedView' = [highestAcknowledgedView EXCEPT ![r] = @]
      /\ lockedOneChainView' = [lockedOneChainView EXCEPT ![r] = @]
      /\ lastTimeout' = [lastTimeout EXCEPT ![r] = t.lastTimeout]
      /\ votes' = votes \cup ({r} \X s.signed)
      /\ lastTimeout[r] = s.lastTimeout
  BY <1>0, <1>1, <1>2, BecomeMapped
<1>4. highestAcknowledgedView' = highestAcknowledgedView /\ lockedOneChainView' = lockedOneChainView
  BY <1>3 DEF highestAcknowledgedView, lockedOneChainView
<1>5. votes' = votes
  BY <1>3 DEF votes
<1>6. s.lastTimeout \in LastTimeout
  BY <1>0, <1>1, NodeFields
<1>7. /\ t.lastTimeout \in LastTimeout /\ t.lastTimeout.view = s.lastTimeout.view
      /\ t.lastTimeout.newestQC = s.lastTimeout.newestQC
  BY <1>1, <1>6, BlockFacts DEF LastTimeout
<1>8. timeouts' = timeouts \cup {[signer |-> r, view |-> s.lastTimeout.view,
                                  newestQC |-> s.lastTimeout.newestQC]}
  BY <1>7, BlockFacts DEF Become
<1>9. lastTimeout' = [lastTimeout EXCEPT ![r].tick = @ + 1]
  <2>1. t.lastTimeout = [lastTimeout[r] EXCEPT !.tick = @ + 1]
    BY <1>1, <1>3, Zenon
  <2> QED BY <1>3, <2>1, Zenon
<1>10. Proven!RepeatTimeout(r, v)
  <2>1. Proven!TimedOutIn(r, v) /\ lastTimeout[r].tick < MaxTick
    BY <1>1, <1>3 DEF Proven!TimedOutIn
  <2>2. timeouts' = timeouts \cup {[signer |-> r, view |-> lastTimeout[r].view,
                                    newestQC |-> lastTimeout[r].newestQC]}
    BY <1>3, <1>8
  <2> QED BY <1>4, <1>5, <1>9, <2>1, <2>2, Zenon DEF Proven!RepeatTimeout
<1>11. v \in Proven!Views
  <2>1. /\ v \in Nat /\ View[t.newestQC] \in Nat /\ View[t.newestQC] < v
        /\ View[Root] <= View[t.newestQC] /\ View[Root] \in Nat /\ MaxView \in Nat
    BY NodeFields, AncestorsBasic, BlockFacts DEF Sound, EnteredLegitimately
  <2> QED BY <2>1 DEF Proven!Views
<1> HIDE DEF v
<1> QED BY <1>10, <1>11 DEF Proven!Next

\* A step that signs nothing new is none of SafetyRules.
LEMMA SilentStep ==
    ASSUME CommitteeInv, NEW r \in Replicas, NEW t, Become(r, t),
           t.signed = node[r].signed, t.lastTimeout = node[r].lastTimeout,
           Highest(AcknowledgedViews(t)) = Highest(AcknowledgedViews(node[r])),
           Highest(LockedViews(t)) = Highest(LockedViews(node[r]))
    PROVE  UNCHANGED Proven!vars
<1> DEFINE s == node[r]
<1>1. node \in [Replicas -> Node]
  BY DEF CommitteeInv
<1>2. /\ highestAcknowledgedView' = [highestAcknowledgedView EXCEPT ![r] = @]
      /\ lockedOneChainView' = [lockedOneChainView EXCEPT ![r] = @]
      /\ lastTimeout' = [lastTimeout EXCEPT ![r] = @]
      /\ votes' = votes \cup ({r} \X s.signed)
  BY <1>1, BecomeMapped
<1>3. /\ highestAcknowledgedView' = highestAcknowledgedView
      /\ lockedOneChainView' = lockedOneChainView /\ lastTimeout' = lastTimeout
  BY <1>2 DEF highestAcknowledgedView, lockedOneChainView, lastTimeout
<1>4. votes' = votes
  BY <1>2 DEF votes
<1>5. timeouts' = timeouts
  BY LastTimeoutKnown DEF Become
<1> QED BY <1>3, <1>4, <1>5 DEF Proven!vars

\* Every step of a replica is one of SafetyRules or none.
LEMMA StepIsSafetyStep ==
    ASSUME CommitteeInv, NEW r \in Replicas, NEW t, Become(r, t),
           Kept(node[r], t, r, Certs), SignsBeforeTimeout(node[r], t)
    PROVE  [Proven!Next]_(Proven!vars)
<1> DEFINE s == node[r]
<1>0. /\ Sound(s, r, Certs) /\ Sound(t, r, Certs) /\ s.curView <= t.curView
      /\ SafetyStep(s, t, r)
  BY DEF CommitteeInv, Kept, Forward
<1>1. CASE SameSafety(s, t)
  <2>1. AcknowledgedViews(t) = AcknowledgedViews(s) /\ LockedViews(t) = LockedViews(s)
    BY <1>1 DEF SameSafety, AcknowledgedViews, LockedViews
  <2> QED BY <1>1, <2>1, SilentStep DEF SameSafety
<1>2. ASSUME NEW b \in Block, VotesFor(s, t, b) \/ Proposes(s, t, r, b), b \notin s.signed
      PROVE  Proven!Next
  <2>1. Proven!ProduceVote(r, b)
    BY <1>0, <1>2, SignatureIsProduceVote
  <2> QED BY <2>1 DEF Proven!Next
<1>3. ASSUME NEW b \in Block, VotesFor(s, t, b), b \in s.signed
      PROVE  UNCHANGED Proven!vars
  <2>1. /\ t.signed = s.signed
        /\ Highest(AcknowledgedViews(t)) = Highest(AcknowledgedViews(s))
        /\ Highest(LockedViews(t)) = Highest(LockedViews(s))
    BY <1>0, <1>3, OwnVoteMapped
  <2>2. t.lastTimeout = s.lastTimeout
    BY <1>3 DEF VotesFor
  <2> QED BY <2>1, <2>2, SilentStep
<1>4. CASE t.curView <= MaxView /\ TimesOut(s, t)
  BY <1>0, <1>4, TimeoutIsProduceTimeout
<1>5. CASE t.curView <= MaxView /\ RepeatsTimeout(s, t)
  BY <1>0, <1>5, RepetitionIsRepeatTimeout
<1>6. ASSUME NEW b \in Block, Proposes(s, t, r, b) PROVE b \notin s.signed
  BY <1>6 DEF Proposes
<1> QED BY <1>0, <1>1, <1>2, <1>3, <1>4, <1>5, <1>6 DEF SafetyStep

-----------------------------------------------------------------------------
(***************************************************************************)
(* The steps of the committee.                                             *)
(***************************************************************************)

\* The block for every proposal of an honest leader exists.
LEMMA HonestCanPropose == \A r \in Replicas : CanPropose(r)
BY ProposalAssumption DEF CanPropose

\* What the compliance layer submits is valid and has a known parent.
LEMMA SubmittedFacts ==
    ASSUME CommitteeInv, NEW r \in Replicas, NEW b \in Submitted(r)
    PROVE  /\ b \in Block /\ ValidBlock(b, Certs) /\ KnownParent(node[r], b)
           /\ Leader[View[b]] = r => b \in node[r].signed
<1>1. /\ b \in Block /\ b # Root /\ Rules!ValidateProposal(b)
      /\ Leader[View[b]] \in Replicas => b \in node[Leader[View[b]]].signed
      /\ \/ QC[b] \in node[r].stored /\ node[r].finalized \in Ancestors[b]
         \/ QC[b] \in node[r].forks
         \/ View[QC[b]] < FinalizedView(node[r])
  BY DEF Submitted
<1>2. KnownParent(node[r], b)
  BY <1>1, SubmittedParentKnown DEF CommitteeInv
<1>3. ValidBlock(b, Certs)
  BY <1>1, SameCertificates, ValidWithCerts
<1> QED BY <1>1, <1>2, <1>3

\* The certificates that arrive are those that the signatures make.
LEMMA DeliveredFacts ==
    /\ Rules!Certified = Certs.qcs
    /\ \A v \in Nat : Rules!TCsFor(v) \subseteq Certs.tcs
<1>1. Rules!Certified = Certs.qcs /\ \A v : Rules!TCsFor(v) = Proven!TCsFor(v)
  BY SameCertificates, CertsFields
<1>2. \A v \in Nat : Proven!TCsFor(v) \subseteq Certs.tcs
  BY CertsFields DEF Proven!TCsFor, Proven!Certified, TimeoutCertificate
<1> QED BY <1>1, <1>2

\* The views for which a TC may be built.
LEMMA ViewsFacts ==
    ASSUME NEW v \in Views \ {View[Root]} PROVE v \in Nat /\ v - 1 \in Nat
BY BlockFacts DEF Views

\* A step changes the replica that takes it.
LEMMA BecomeNode ==
    ASSUME node \in [Replicas -> Node], NEW r \in Replicas, NEW t, Become(r, t)
    PROVE  node'[r] = t /\ Become(r, node'[r])
<1>1. node'[r] = t
  BY DEF Become
<1> QED BY <1>1

\* The other replicas stay as they are.
LEMMA BecomeOthers ==
    ASSUME node \in [Replicas -> Node], NEW r \in Replicas, NEW t, Become(r, t)
    PROVE  \A q \in Replicas : q # r => node'[q] = node[q]
BY DEF Become

\* Every handler keeps the invariant of its replica.
LEMMA HandleStep ==
    ASSUME CommitteeInv, NEW r \in Replicas, Handle(r)
    PROVE  Become(r, node'[r]) /\ Kept(node[r], node'[r], r, Certs)
<1>0. /\ Certs \in Certificates /\ Running(node[r], r, Certs) /\ CanPropose(r)
      /\ node \in [Replicas -> Node]
  BY CertsArePossible, HonestCanPropose DEF CommitteeInv, Handle, Running
<1>1. CASE ReceiveProposal(r)
  <2>1. PICK b \in Submitted(r) : Become(r, OnReceiveProposal(node[r], r, b))
    BY <1>1 DEF ReceiveProposal
  <2>2. node'[r] = OnReceiveProposal(node[r], r, b) /\ Become(r, node'[r])
    BY <1>0, <2>1, BecomeNode
  <2> QED BY <1>0, <2>2, SubmittedFacts, ReceiveProposalStep DEF Kept, Running
<1>2. CASE ReceiveQC(r)
  <2>1. PICK qc \in Rules!Certified : Become(r, OnReceiveQc(node[r], r, qc))
    BY <1>2 DEF ReceiveQC
  <2>2. node'[r] = OnReceiveQc(node[r], r, qc) /\ Become(r, node'[r])
    BY <1>0, <2>1, BecomeNode
  <2> QED BY <1>0, <2>2, DeliveredFacts, ReceiveQcStep
<1>3. CASE ReceiveTC(r)
  <2>1. PICK v \in Views \ {View[Root]} :
           \E tc \in Rules!TCsFor(v) : Become(r, OnReceiveTc(node[r], r, tc))
    BY <1>3 DEF ReceiveTC
  <2>2. PICK tc \in Rules!TCsFor(v) : Become(r, OnReceiveTc(node[r], r, tc))
    BY <2>1
  <2>3. node'[r] = OnReceiveTc(node[r], r, tc) /\ Become(r, node'[r])
    BY <1>0, <2>2, BecomeNode
  <2> QED BY <1>0, <2>3, DeliveredFacts, ViewsFacts, ReceiveTcStep
<1>4. CASE LocalTimeout(r)
  <2>1. node'[r] = BroadcastTimeoutObject(node[r]) /\ Become(r, node'[r]) /\ MayTimeOut(node[r])
    BY <1>0, <1>4, BecomeNode DEF LocalTimeout
  <2> QED BY <1>0, <2>1, LocalTimeoutStep DEF MayTimeOut
<1>5. CASE PartialTC(r)
  <2>1. PICK v \in Views \ {View[Root]} : \E p \in PartialTCs(v) :
           /\ MayTimeOut(ProcessCertificates(node[r], p[1], p[2]))
           /\ Become(r, OnPartialTcCreated(node[r], v, p[1], p[2]))
    BY <1>5 DEF PartialTC
  <2>2. PICK p \in PartialTCs(v) :
           /\ MayTimeOut(ProcessCertificates(node[r], p[1], p[2]))
           /\ Become(r, OnPartialTcCreated(node[r], v, p[1], p[2]))
    BY <2>1
  <2>3. p[1] \in Rules!Certified /\ p[2] \in Rules!TCsFor(v - 1) \cup {NoTC}
    BY DEF PartialTCs
  <2>4. p[1] \in Certs.qcs /\ p[2] \in Certs.tcs \cup {NoTC}
    BY <2>3, DeliveredFacts, ViewsFacts
  <2>5. node'[r] = OnPartialTcCreated(node[r], v, p[1], p[2]) /\ Become(r, node'[r])
    BY <1>0, <2>2, BecomeNode
  <2> QED BY <1>0, <2>2, <2>4, <2>5, PartialTcStep DEF MayTimeOut
<1> QED BY <1>1, <1>2, <1>3, <1>4, <1>5 DEF Handle

\* Both steps of Start keep the invariant of their replica.
LEMMA StartStep ==
    ASSUME CommitteeInv, NEW r \in Replicas, Start(r)
    PROVE  Become(r, node'[r]) /\ Kept(node[r], node'[r], r, Certs)
<1>0. /\ Certs \in Certificates /\ CanPropose(r) /\ Sound(node[r], r, Certs)
      /\ FinalizedBelowView(node[r], Certs) /\ ~ node[r].started /\ node \in [Replicas -> Node]
  BY CertsArePossible, HonestCanPropose DEF CommitteeInv, Start
<1>1. CASE \E b \in NextPending(node[r]) : Become(r, ProcessPendingBlock(node[r], b))
  <2>1. PICK b \in node[r].pending : Become(r, ProcessPendingBlock(node[r], b))
    BY <1>1 DEF NextPending
  <2>2. node'[r] = ProcessPendingBlock(node[r], b) /\ Become(r, node'[r])
    BY <1>0, <2>1, BecomeNode
  <2> QED BY <1>0, <2>2, VisitPendingStep DEF Kept, SafetyStep
<1>2. CASE node[r].pending = {} /\ Become(r, StartNewView(node[r], r))
  <2>1. node'[r] = StartNewView(node[r], r) /\ Become(r, node'[r])
    BY <1>0, <1>2, BecomeNode
  <2> QED BY <1>0, <1>2, <2>1, StartNewViewStep DEF Kept
<1> QED BY <1>1, <1>2 DEF Start

\* A crash, at any point, followed by a restart keeps the invariant.
LEMMA CrashStep ==
    ASSUME CommitteeInv, NEW r \in Replicas, Crash(r)
    PROVE  Become(r, node'[r]) /\ Kept(node[r], node'[r], r, Certs)
<1>0. /\ Certs \in Certificates /\ Sound(node[r], r, Certs)
      /\ FinalizedBelowView(node[r], Certs) /\ node \in [Replicas -> Node]
  BY CertsArePossible DEF CommitteeInv
<1>1. CASE Become(r, Recover(node[r], Root))
  <2>1. node'[r] = Recover(node[r], Root) /\ Become(r, node'[r])
    BY <1>0, <1>1, BecomeNode
  <2> QED BY <1>0, <2>1, CrashIdleStep DEF Kept, SafetyStep
<1>2. CASE node[r].started /\ \E b \in Submitted(r) : \E t \in Interrupted(node[r], b) : Become(r, t)
  <2>1. Running(node[r], r, Certs)
    BY <1>0, <1>2 DEF Running
  <2>2. PICK b \in Submitted(r) : \E t \in Interrupted(node[r], b) : Become(r, t)
    BY <1>2
  <2>3. PICK t \in Interrupted(node[r], b) : Become(r, t)
    BY <2>2
  <2>4. node'[r] = t /\ Become(r, node'[r])
    BY <1>0, <2>3, BecomeNode
  <2> QED BY <1>0, <2>1, <2>4, SubmittedFacts, InterruptedStep
<1> QED BY <1>1, <1>2 DEF Crash

\* In every step one replica moves and keeps its invariant.
LEMMA NextKept ==
    ASSUME CommitteeInv, Next
    PROVE  \E r \in Replicas : Become(r, node'[r]) /\ Kept(node[r], node'[r], r, Certs)
BY HandleStep, StartStep, CrashStep DEF Next

\* What has been signed stays signed.
LEMMA SignedGrows ==
    ASSUME NEW C, NEW r, NEW s, NEW t, Kept(s, t, r, C) PROVE s.signed \subseteq t.signed
BY DEF Kept, SafetyStep, SameSafety, VotesFor, Proposes, TimesOut, RepeatsTimeout

\* The origin of the highest acknowledged view stays known.
LEMMA TracedStep ==
    ASSUME NEW C, NEW r, NEW s, NEW t, Sound(s, r, C), Sound(t, r, C),
           SafetyTraced(s), SafetyStep(s, t, r)
    PROVE  SafetyTraced(t)
<1>0. /\ s \in Node /\ t \in Node /\ s.highestAcknowledgedView \in Nat /\ t.curView \in Nat
      /\ s.lastTimeout \in LastTimeout \cup {NoTimeout}
  BY NodeFields DEF Sound
<1>1. CASE SameSafety(s, t)
  BY <1>1 DEF SameSafety, SafetyTraced
<1>2. ASSUME NEW b \in Block, VotesFor(s, t, b) PROVE SafetyTraced(t)
  <2>1. View[b] \in Nat /\ b \in t.signed /\ t.highestAcknowledgedView = View[b]
    BY <1>2, BlockFacts DEF VotesFor
  <2>2. t.lastTimeout = s.lastTimeout /\ s.highestAcknowledgedView < View[b]
    BY <1>2 DEF VotesFor
  <2>3. s.lastTimeout # NoTimeout => s.lastTimeout.view \in Nat
    BY <1>0 DEF LastTimeout
  <2> QED BY <1>0, <2>1, <2>2, <2>3 DEF SafetyTraced
<1>3. ASSUME NEW b \in Block, Proposes(s, t, r, b) PROVE SafetyTraced(t)
  BY <1>3 DEF Proposes, SafetyTraced
<1>4. CASE TimesOut(s, t)
  <2>1. t.lastTimeout.view = t.curView /\ t.highestAcknowledgedView = t.curView
    BY <1>4 DEF TimesOut
  <2>2. t.lastTimeout # NoTimeout
    <3>1. t.lastTimeout = [view |-> t.curView, newestQC |-> t.newestQC, tick |-> 0]
      BY <1>4 DEF TimesOut
    <3>2. t.lastTimeout \in LastTimeout
      BY <1>0, <3>1, NodeFields, BlockFacts DEF LastTimeout
    <3> QED BY <3>2, BlockFacts
  <2> QED BY <1>0, <2>1, <2>2 DEF SafetyTraced
<1>5. CASE RepeatsTimeout(s, t)
  <2>1. /\ s.lastTimeout \in LastTimeout /\ s.lastTimeout # NoTimeout
        /\ t.lastTimeout = [s.lastTimeout EXCEPT !.tick = @ + 1] /\ s.lastTimeout.tick < MaxTick
    BY <1>0, <1>5, Zenon DEF RepeatsTimeout
  <2>2. t.lastTimeout.view = s.lastTimeout.view /\ t.lastTimeout # NoTimeout
    <3>1. t.lastTimeout.view = s.lastTimeout.view /\ t.lastTimeout \in LastTimeout
      BY <2>1, BlockFacts DEF LastTimeout
    <3> QED BY <3>1, BlockFacts
  <2>3. t.highestAcknowledgedView = s.highestAcknowledgedView /\ t.signed = s.signed
    BY <1>5 DEF RepeatsTimeout
  <2>4. s.lastTimeout # NoTimeout
    BY <2>1
  <2> QED BY <2>2, <2>3, <2>4 DEF SafetyTraced
<1> QED BY <1>1, <1>2, <1>3, <1>4, <1>5 DEF SafetyStep

\* The invariant is inductive as long as leaders sign before they time out, and
\* every step is one of SafetyRules.
LEMMA CommitteeInvNext ==
    ASSUME CommitteeInv, Next, \A r \in Replicas : SignsBeforeTimeout(node[r], node'[r])
    PROVE  CommitteeInv' /\ [Proven!Next]_(Proven!vars)
<1>1. PICK r \in Replicas : Become(r, node'[r]) /\ Kept(node[r], node'[r], r, Certs)
  BY NextKept
<1>2. [Proven!Next]_(Proven!vars)
  BY <1>1, StepIsSafetyStep
<1>3. Proven!SafetyInv'
  BY <1>2, KernelAssumptions, Proven!SafetyInvNext DEF CommitteeInv
<1>4. node[r].signed \subseteq node'[r].signed
  BY <1>1, SignedGrows
<1>5. /\ votes' = votes \cup ({r} \X node'[r].signed)
      /\ node' = [node EXCEPT ![r] = node'[r]]
      /\ \A q \in Replicas : q # r => node'[q] = node[q]
  BY <1>1, <1>4, BecomeMapped DEF CommitteeInv
<1>6. timeouts \subseteq timeouts'
  BY <1>1 DEF Become
<1>7. Certs.qcs \subseteq Certs'.qcs /\ Certs.tcs \subseteq Certs'.tcs
  BY <1>5, <1>6, CertsGrow
<1>8. ASSUME NEW q \in Replicas
      PROVE  /\ Sound(node'[q], q, Certs) /\ FinalizedBelowView(node'[q], Certs)
             /\ SafetyTraced(node'[q])
  BY <1>1, <1>5, TracedStep DEF CommitteeInv, Kept
<1>9. ASSUME NEW q \in Replicas
      PROVE  Sound(node'[q], q, Certs') /\ FinalizedBelowView(node'[q], Certs')
  BY <1>7, <1>8, SoundMonotone
<1>10. node' \in [Replicas -> Node]
  BY <1>5, <1>8 DEF CommitteeInv, Sound
<1> QED BY <1>2, <1>3, <1>8, <1>9, <1>10 DEF CommitteeInv

\* Steps that leave the committee alone do as well.
LEMMA CommitteeInvStutter ==
    ASSUME CommitteeInv, UNCHANGED vars
    PROVE  CommitteeInv' /\ UNCHANGED Proven!vars
<1>1. node' = node /\ timeouts' = timeouts
  BY DEF vars
<1>2. UNCHANGED Proven!vars
  BY <1>1 DEF Proven!vars, highestAcknowledgedView, lockedOneChainView, lastTimeout, votes
<1>3. Proven!SafetyInv'
  BY <1>2, KernelAssumptions, Proven!SafetyInvNext DEF CommitteeInv
<1>4. votes' = votes
  BY <1>1 DEF votes
<1>5. Certs.qcs \subseteq Certs'.qcs /\ Certs.tcs \subseteq Certs'.tcs
  BY <1>1, <1>4, CertsGrow
<1>6. ASSUME NEW q \in Replicas
      PROVE  Sound(node[q], q, Certs') /\ FinalizedBelowView(node[q], Certs')
  BY <1>5, SoundMonotone DEF CommitteeInv
<1> QED BY <1>1, <1>2, <1>3, <1>6 DEF CommitteeInv

\* The bootstrapped committee is in the initial state of SafetyRules and
\* satisfies the invariant.
LEMMA CommitteeInvInit == Init => Proven!Init /\ Rules!Init /\ CommitteeInv
<1> SUFFICES ASSUME Init PROVE Proven!Init /\ Rules!Init /\ CommitteeInv
  OBVIOUS
<1>1. node = [r \in Replicas |-> Bootstrapped] /\ timeouts = {}
  BY DEF Init
<1>2. /\ Bootstrapped.signed = {} /\ Bootstrapped.highestAcknowledgedView = View[Root]
      /\ Bootstrapped.lockedOneChainView = View[Root] /\ Bootstrapped.lastTimeout = NoTimeout
  BY DEF Bootstrapped
<1>3. AcknowledgedViews(Bootstrapped) = {View[Root]} /\ LockedViews(Bootstrapped) = {View[Root]}
  BY <1>2 DEF AcknowledgedViews, LockedViews
<1>4. Highest({View[Root]}) = View[Root]
  BY BlockFacts, HighestIs
<1>5. /\ highestAcknowledgedView = [r \in Replicas |-> View[Root]]
      /\ lockedOneChainView = [r \in Replicas |-> View[Root]]
      /\ lastTimeout = [r \in Replicas |-> NoTimeout]
  BY <1>1, <1>2, <1>3, <1>4 DEF highestAcknowledgedView, lockedOneChainView, lastTimeout
<1>6. votes = {}
  BY <1>1, <1>2 DEF votes
<1>7. Proven!Init /\ Rules!Init
  BY <1>1, <1>5, <1>6 DEF Proven!Init, Rules!Init
<1>8. Proven!SafetyInv
  BY <1>7, KernelAssumptions, Proven!SafetyInvInit
<1>9. ASSUME NEW r \in Replicas
      PROVE  /\ node[r] = Bootstrapped
             /\ Sound(node[r], r, Certs) /\ FinalizedBelowView(node[r], Certs)
  BY <1>1, <1>8, CertsArePossible, BootstrappedSound
<1>10. SafetyTraced(Bootstrapped)
  BY <1>2 DEF SafetyTraced
<1>11. node \in [Replicas -> Node]
  BY <1>1, <1>9 DEF Sound
<1> QED BY <1>7, <1>8, <1>9, <1>10, <1>11 DEF CommitteeInv

\* A replica's finalized block is the root block or has a certified direct child,
\* and so the safety rules make any two of them agree.
LEMMA AgreeFromInvariant == CommitteeInv => FinalizedAgree
<1> SUFFICES ASSUME CommitteeInv, NEW r \in Replicas, NEW q \in Replicas
             PROVE  \/ node[r].finalized \in Ancestors[node[q].finalized]
                    \/ node[q].finalized \in Ancestors[node[r].finalized]
  BY DEF FinalizedAgree
<1>1. node[r].finalized \in Block /\ node[q].finalized \in Block
  BY NodeFields DEF CommitteeInv
<1>2. CASE node[r].finalized = Root \/ node[q].finalized = Root
  BY <1>1, <1>2, AncestorsBasic
<1>3. CASE node[r].finalized # Root /\ node[q].finalized # Root
  <2>1. ASSUME NEW p \in Replicas, node[p].finalized # Root
        PROVE  Proven!Finalizable(node[p].finalized)
    <3>1. PICK d \in Block : Finalizes(d, node[p].finalized, Certs)
      BY <2>1 DEF CommitteeInv, FinalizedBelowView
    <3> QED BY <3>1, CertsFields DEF Finalizes, Proven!Finalizable, Proven!Certified
  <2>2. Proven!Agreement
    BY KernelAssumptions, Proven!AgreementFromInvariant DEF CommitteeInv
  <2> QED BY <1>1, <1>3, <2>1, <2>2 DEF Proven!Agreement
<1> QED BY <1>2, <1>3

-----------------------------------------------------------------------------
(***************************************************************************)
(* The theorems for every assignment of leaders.                           *)
(***************************************************************************)

\* No leader signs a proposal for a view that it has timed out in.  (Replica's
\* NoSignatureAfterTimeout; the code does not guarantee it after a restart or
\* when the block to build on arrives late.)
LeadersSignBeforeTimeout ==
    [][\A r \in Replicas : SignsBeforeTimeout(node[r], node'[r])]_vars

\* The invariant of the committee holds in every state.
THEOREM CommitteeInvariant == Spec /\ LeadersSignBeforeTimeout => []CommitteeInv
<1> DEFINE Signs == \A r \in Replicas : SignsBeforeTimeout(node[r], node'[r])
<1>1. CommitteeInv /\ [Next]_vars /\ [Signs]_vars => CommitteeInv'
  <2> SUFFICES ASSUME CommitteeInv, [Next]_vars, [Signs]_vars PROVE CommitteeInv'
    OBVIOUS
  <2>1. CASE UNCHANGED vars
    BY <2>1, CommitteeInvStutter
  <2>2. CASE Next /\ Signs
    BY <2>2, CommitteeInvNext
  <2> QED BY <2>1, <2>2
<1>2. Init => CommitteeInv
  BY CommitteeInvInit
<1> QED BY <1>1, <1>2, PTL DEF Spec, LeadersSignBeforeTimeout

\* The event handlers implement SafetyRules: each signature, of a voter, of a
\* leader or in a timeout, is one that SafetyRules permits at that moment.
THEOREM ImplementsSafetyRules == Spec /\ LeadersSignBeforeTimeout => SafetyRulesImplemented
<1> DEFINE Signs == \A r \in Replicas : SignsBeforeTimeout(node[r], node'[r])
<1>1. CommitteeInv /\ [Next]_vars /\ [Signs]_vars => [Rules!Next]_(Rules!vars)
  <2> SUFFICES ASSUME CommitteeInv, [Next]_vars, [Signs]_vars
               PROVE  [Proven!Next]_(Proven!vars)
    BY SameSteps
  <2>1. CASE UNCHANGED vars
    BY <2>1, CommitteeInvStutter
  <2>2. CASE Next /\ Signs
    BY <2>2, CommitteeInvNext
  <2> QED BY <2>1, <2>2
<1>2. Init => Rules!Init
  BY CommitteeInvInit
<1> QED BY <1>1, <1>2, CommitteeInvariant, PTL
        DEF Spec, LeadersSignBeforeTimeout, SafetyRulesImplemented, Rules!Spec

\* Whatever the Byzantine members do, the blocks that any two replicas have
\* finalized are on one chain.
THEOREM ReplicasAgree == Spec /\ LeadersSignBeforeTimeout => []FinalizedAgree
BY CommitteeInvariant, AgreeFromInvariant, PTL

\* No event handler of the committee ends with an exception: what Replica assumes
\* of its environment is what the other replicas guarantee.
THEOREM NoExceptionInCommittee ==
    Spec /\ LeadersSignBeforeTimeout => [](\A r \in Replicas : ~ node[r].fatal)
<1>1. CommitteeInv => \A r \in Replicas : ~ node[r].fatal
  BY DEF CommitteeInv, Sound
<1> QED BY <1>1, CommitteeInvariant, PTL

-----------------------------------------------------------------------------
(***************************************************************************)
(* The theorems without that hypothesis, for committees of which only the  *)
(* leader of the first view is honest, as in the instance that TLC checks. *)
(* That leader proposes when it starts, before it can time out, and never  *)
(* again in the view, however often it crashes.                            *)
(***************************************************************************)
FirstView == View[Root] + 1

HonestLeadFirstView == \A v \in DOMAIN Leader : Leader[v] \in Replicas => v = FirstView

\* Nothing has happened since the replica was bootstrapped.
Fresh(s) ==
    /\ ~ s.started /\ s.pending = {} /\ s.stored = {Root}
    /\ s.curView = FirstView /\ s.newestQC = Root
    /\ s.signed = {} /\ s.lastTimeout = NoTimeout

HasProposed(s) == \E b \in s.signed : View[b] = FirstView

FirstViewInv ==
    \A r \in Replicas :
        FirstView \in DOMAIN Leader /\ Leader[FirstView] = r => Fresh(node[r]) \/ HasProposed(node[r])

\* A restart before anything has happened changes nothing.
LEMMA FreshCrash ==
    ASSUME NEW C \in Certificates, NEW r, NEW s, Sound(s, r, C), Fresh(s),
           NEW t, t = Recover(s, Root)
    PROVE  Fresh(t)
<1> DEFINE u == RecoverForks(s, Root)
<1>0. s \in Node /\ s.fatal = FALSE /\ ForestComplete(s, C)
  BY DEF Sound
<1>1. /\ u \in Node /\ SameLiveness(s, u) /\ SameSafety(s, u)
      /\ u.stored = s.stored /\ ForestComplete(u, C)
  BY <1>0, RecoverForksIdle
<1>2. t = Unstarted(u)
  BY DEF Recover, Unstarted
<1> HIDE DEF u
<1>3. /\ SameLiveness(u, t) /\ SameSafety(u, t) /\ SameForks(u, t) /\ t.started = FALSE
      /\ t.pending = {b \in u.forks \ {Root} : View[b] >= u.curView}
  BY <1>1, <1>2, UnstartedEffect
<1>4. u.forks \subseteq {Root}
  BY <1>1 DEF ForestComplete, Fresh
<1>5. t.pending = {}
  BY <1>3, <1>4
<1> QED BY <1>1, <1>3, <1>5 DEF Fresh, SameLiveness, SameSafety, SameForks

\* The first leader proposes as soon as it starts.
LEMMA FreshStart ==
    ASSUME NEW C \in Certificates, NEW r, NEW s, Sound(s, r, C), FinalizedBelowView(s, C),
           CanPropose(r), Fresh(s), FirstView \in DOMAIN Leader, Leader[FirstView] = r,
           NEW t, t = StartNewView(s, r)
    PROVE  HasProposed(t)
<1>1. s.forks = {Root}
  <2>1. s.forks \subseteq {Root} /\ s.finalized \in s.forks
    BY DEF Sound, ForestComplete, Fresh
  <2> QED BY <2>1
<1>2. View[Root] # FirstView
  BY BlockFacts DEF FirstView
<1>3. MayPropose(s, r)
  BY <1>1, <1>2 DEF MayPropose, Fresh
<1>4. PICK b \in Block : View[b] = s.curView /\ Proposes(s, t, r, b)
  BY <1>3, StartNewViewStep DEF Fresh
<1>5. b \in t.signed
  BY <1>4 DEF Proposes
<1> QED BY <1>4, <1>5 DEF HasProposed, Fresh

\* The invariant is inductive.
LEMMA FirstViewInvNext ==
    ASSUME CommitteeInv, FirstViewInv, Next PROVE FirstViewInv'
<1>0. PICK r \in Replicas : Start(r) \/ Handle(r) \/ Crash(r)
  BY DEF Next
<1>1. Become(r, node'[r]) /\ Kept(node[r], node'[r], r, Certs)
  BY <1>0, HandleStep, StartStep, CrashStep
<1>2. \A q \in Replicas : q # r => node'[q] = node[q]
  BY <1>1, BecomeOthers DEF CommitteeInv
<1>3. ASSUME FirstView \in DOMAIN Leader, Leader[FirstView] = r, Fresh(node[r])
      PROVE  Fresh(node'[r]) \/ HasProposed(node'[r])
  <2>0. /\ Certs \in Certificates /\ CanPropose(r) /\ Sound(node[r], r, Certs)
        /\ FinalizedBelowView(node[r], Certs) /\ node \in [Replicas -> Node]
        /\ ~ node[r].started /\ node[r].pending = {}
    BY <1>3, CertsArePossible, HonestCanPropose DEF CommitteeInv, Fresh
  <2>1. CASE Start(r)
    <3>1. Become(r, StartNewView(node[r], r))
      BY <2>0, <2>1 DEF Start, NextPending
    <3>2. node'[r] = StartNewView(node[r], r)
      BY <2>0, <3>1, BecomeNode
    <3> QED BY <1>3, <2>0, <3>2, FreshStart
  <2>2. CASE Crash(r)
    <3>1. Become(r, Recover(node[r], Root))
      BY <2>0, <2>2 DEF Crash
    <3>2. node'[r] = Recover(node[r], Root)
      BY <2>0, <3>1, BecomeNode
    <3> QED BY <1>3, <2>0, <3>2, FreshCrash
  <2>3. ~ Handle(r)
    BY <2>0 DEF Handle
  <2> QED BY <1>0, <2>1, <2>2, <2>3
<1>4. HasProposed(node[r]) => HasProposed(node'[r])
  BY <1>1, SignedGrows DEF HasProposed
<1>5. ASSUME NEW q \in Replicas, FirstView \in DOMAIN Leader, Leader[FirstView] = q
      PROVE  Fresh(node'[q]) \/ HasProposed(node'[q])
  <2>1. Fresh(node[q]) \/ HasProposed(node[q])
    BY <1>5 DEF FirstViewInv
  <2> QED BY <1>2, <1>3, <1>4, <1>5, <2>1
<1> QED BY <1>5 DEF FirstViewInv

\* Votes are above the last timeout because SafetyRules refuses others, and the
\* only proposal of the first leader comes before its first timeout.
LEMMA FirstLeaderSigns ==
    ASSUME CommitteeInv, FirstViewInv, Next, HonestLeadFirstView
    PROVE  \A r \in Replicas : SignsBeforeTimeout(node[r], node'[r])
<1>0. PICK r \in Replicas : Become(r, node'[r]) /\ Kept(node[r], node'[r], r, Certs)
  BY NextKept
<1>1. \A q \in Replicas : q # r => node'[q] = node[q]
  BY <1>0, BecomeOthers DEF CommitteeInv
<1> DEFINE s == node[r]
           t == node'[r]
<1>2. /\ Sound(s, r, Certs) /\ Sound(t, r, Certs) /\ SafetyTraced(s) /\ SafetyStep(s, t, r)
      /\ s \in Node /\ s.highestAcknowledgedView \in Nat
      /\ s.lastTimeout \in LastTimeout \cup {NoTimeout}
      /\ s.signed \subseteq t.signed
  BY <1>0, NodeFields, SignedGrows DEF CommitteeInv, Kept, Sound
<1> HIDE DEF s, t
<1>3. ASSUME NEW b \in t.signed \ s.signed, s.lastTimeout # NoTimeout
      PROVE  s.lastTimeout.view < View[b]
  <2>1. ASSUME NEW c \in Block, VotesFor(s, t, c) PROVE s.lastTimeout.view < View[b]
    <3>1. b = c /\ s.highestAcknowledgedView < View[c] /\ View[c] \in Nat
      BY <1>3, <2>1, BlockFacts DEF VotesFor
    <3>2. s.lastTimeout.view <= s.highestAcknowledgedView /\ s.lastTimeout.view \in Nat
      BY <1>2, <1>3 DEF SafetyTraced, LastTimeout
    <3> QED BY <1>2, <3>1, <3>2
  <2>2. ASSUME NEW c \in Block, Proposes(s, t, r, c) PROVE FALSE
    <3>1. b = c /\ View[c] \in DOMAIN Leader /\ Leader[View[c]] = r
      BY <1>3, <2>2 DEF Proposes
    <3>2. View[c] = FirstView
      BY <3>1 DEF HonestLeadFirstView
    <3>3. HasProposed(s)
      BY <1>3, <3>1, <3>2 DEF FirstViewInv, Fresh, s
    <3>4. PICK d \in s.signed : View[d] = FirstView
      BY <3>3 DEF HasProposed
    <3>5. d = b
      BY <1>2, <1>3, <3>1, <3>2, <3>4 DEF Sound, SignaturesRecorded
    <3> QED BY <1>3, <3>4, <3>5
  <2>3. ~ SameSafety(s, t) /\ ~ TimesOut(s, t) /\ ~ RepeatsTimeout(s, t)
    BY <1>3 DEF SameSafety, TimesOut, RepeatsTimeout
  <2> QED BY <1>2, <2>1, <2>2, <2>3 DEF SafetyStep
<1>4. SignsBeforeTimeout(s, t)
  BY <1>3 DEF SignsBeforeTimeout
<1>5. ASSUME NEW q \in Replicas PROVE SignsBeforeTimeout(node[q], node'[q])
  BY <1>1, <1>4 DEF SignsBeforeTimeout, s, t
<1> QED BY <1>5

\* The first leader never signs its proposal after a timeout, in spite of crashes.
THEOREM FirstLeadersSignBeforeTimeout ==
    ASSUME HonestLeadFirstView PROVE Spec => LeadersSignBeforeTimeout
<1> DEFINE Signs == \A r \in Replicas : SignsBeforeTimeout(node[r], node'[r])
           Inv == CommitteeInv /\ FirstViewInv
<1>1. Init => Inv
  <2> SUFFICES ASSUME Init PROVE CommitteeInv /\ FirstViewInv
    OBVIOUS
  <2>1. Fresh(Bootstrapped)
    BY DEF Fresh, Bootstrapped, FirstView
  <2> QED BY <2>1, CommitteeInvInit DEF Init, FirstViewInv
<1>2. Inv /\ [Next]_vars => Inv' /\ [Signs]_vars
  <2> SUFFICES ASSUME CommitteeInv, FirstViewInv, [Next]_vars
               PROVE  CommitteeInv' /\ FirstViewInv' /\ [Signs]_vars
    OBVIOUS
  <2>1. CASE UNCHANGED vars
    <3>1. FirstViewInv'
      BY <2>1 DEF vars, FirstViewInv
    <3> QED BY <2>1, <3>1, CommitteeInvStutter
  <2>2. CASE Next
    <3>1. Signs
      BY <2>2, FirstLeaderSigns
    <3> QED BY <2>2, <3>1, FirstViewInvNext, CommitteeInvNext
  <2> QED BY <2>1, <2>2
<1> HIDE DEF Inv
<1> QED BY <1>1, <1>2, PTL DEF Spec, LeadersSignBeforeTimeout

\* With honest leaders of the first view only, the event handlers implement
\* SafetyRules, across crashes.
THEOREM FirstLeadersImplementSafetyRules ==
    ASSUME HonestLeadFirstView PROVE Spec => SafetyRulesImplemented
BY FirstLeadersSignBeforeTimeout, ImplementsSafetyRules, PTL

\* And what any two replicas finalize is on one chain.
THEOREM FirstLeadersAgree == ASSUME HonestLeadFirstView PROVE Spec => []FinalizedAgree
BY FirstLeadersSignBeforeTimeout, ReplicasAgree, PTL

=============================================================================
