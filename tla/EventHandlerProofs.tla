------------------------- MODULE EventHandlerProofs -------------------------
(***************************************************************************)
(* TLAPS lemmas about EventHandler: what every handler, every step of Start*)
(* and every restart of one replica r makes of its state, for every tree of*)
(* blocks and every set of certificates that the safety rules permit.      *)
(* ReplicaProofs applies them to one replica in a fixed environment,       *)
(* HotStuffProofs to every honest replica of a committee.                  *)
(***************************************************************************)
EXTENDS EventHandler, WellFoundedInduction, TLAPS
-----------------------------------------------------------------------------
(***************************************************************************)
(* The tree of blocks.                                                     *)
(***************************************************************************)

\* The assumptions in the form in which the proofs use them.
LEMMA BlockFacts ==
    /\ Root \in Block /\ View[Root] \in Nat /\ Ancestors[Root] = {Root}
    /\ \A b \in Block : View[b] \in Nat /\ Ancestors[b] \subseteq Block
    /\ \A b \in Block : b # Root =>
          /\ QC[b] \in Block /\ View[QC[b]] \in Nat /\ View[QC[b]] < View[b]
          /\ LastViewTC[b] \in TimeoutCertificate \cup {NoTC}
          /\ Ancestors[b] = {b} \cup Ancestors[QC[b]]
    /\ NoTC \notin TimeoutCertificate /\ NoTimeout \notin LastTimeout
    /\ MaxView \in Nat /\ MaxTick \in Nat
BY BlockAssumption, AncestorsAssumption, ViewsIncrease, BoundAssumption

\* A non-empty set of natural numbers has a least element.
LEMMA LeastNatural ==
    ASSUME NEW N \in SUBSET Nat, N # {}
    PROVE  \E n \in N : \A m \in N : n <= m
<1> DEFINE Less == {p \in Nat \X Nat : p[1] < p[2]}
<1>1. IsWellFoundedOn(Less, Nat)
  BY NatLessThanWellFounded, Zenon DEF OpToRel
<1> HIDE DEF Less
<1>2. PICK n \in N : \A m \in N : ~ (<<m, n>> \in Less)
  BY <1>1, WFMin
<1>3. ASSUME NEW m \in N PROVE n <= m
  <2>1. ~ (m < n)
    BY <1>2 DEF Less
  <2> QED BY <2>1
<1> QED BY <1>3

\* Every block is reached from the root block, parents first.
LEMMA BlockInduction ==
    ASSUME NEW P, Root \in P,
           \A b \in Block : b # Root /\ QC[b] \in P => b \in P
    PROVE  \A b \in Block : b \in P
<1> DEFINE H == {View[b] : b \in Block \ P}
<1> SUFFICES ASSUME Block \ P # {} PROVE FALSE
  OBVIOUS
<1>1. H \subseteq Nat /\ H # {}
  BY BlockFacts
<1>2. PICK n \in H : \A m \in H : n <= m
  <2> HIDE DEF H
  <2> QED BY <1>1, LeastNatural
<1>3. PICK b \in Block \ P : n = View[b]
  BY <1>2
<1>4. b # Root /\ QC[b] \in Block /\ View[QC[b]] \in Nat /\ View[b] \in Nat /\ View[QC[b]] < View[b]
  BY <1>3, BlockFacts
<1>5. QC[b] \in P
  <2>1. SUFFICES ASSUME QC[b] \notin P PROVE FALSE
    OBVIOUS
  <2>2. View[QC[b]] \in H
    BY <1>4, <2>1
  <2> QED BY <1>2, <1>3, <1>4, <2>2
<1> QED BY <1>3, <1>4, <1>5

\* A block descends from itself and from the root block, and from every other
\* ancestor through its parent.
LEMMA AncestorsBasic ==
    ASSUME NEW b \in Block
    PROVE  /\ b \in Ancestors[b] /\ Root \in Ancestors[b]
           /\ View[Root] <= View[b]
           /\ \A a \in Ancestors[b] :
                 /\ a \in Block
                 /\ a = b \/ (b # Root /\ a \in Ancestors[QC[b]])
<1> DEFINE P == {x \in Block : Root \in Ancestors[x] /\ View[Root] <= View[x]}
<1>1. Root \in P
  BY BlockFacts
<1>2. ASSUME NEW x \in Block, x # Root, QC[x] \in P PROVE x \in P
  <2>1. Ancestors[x] = {x} \cup Ancestors[QC[x]] /\ View[QC[x]] < View[x]
    BY <1>2, BlockFacts
  <2>2. {View[QC[x]], View[x], View[Root]} \subseteq Nat
    BY <1>2, BlockFacts
  <2> QED BY <1>2, <2>1, <2>2
<1>3. b \in P
  <2> HIDE DEF P
  <2> QED BY <1>1, <1>2, BlockInduction
<1>4. b \in Ancestors[b]
  BY BlockFacts
<1>5. \A a \in Ancestors[b] : a \in Block /\ (a = b \/ (b # Root /\ a \in Ancestors[QC[b]]))
  BY BlockFacts
<1> QED BY <1>3, <1>4, <1>5

\* An ancestor has a lower view, and its ancestors are ancestors too.
LEMMA AncestorsBelow ==
    ASSUME NEW b \in Block
    PROVE  \A a \in Ancestors[b] :
              /\ a \in Block
              /\ a # b => View[a] < View[b]
              /\ Ancestors[a] \subseteq Ancestors[b]
<1> DEFINE Below(x) == \A a \in Ancestors[x] :
              /\ a \in Block
              /\ a # x => View[a] < View[x]
              /\ Ancestors[a] \subseteq Ancestors[x]
           P == {x \in Block : Below(x)}
<1>1. Root \in P
  BY BlockFacts
<1>2. ASSUME NEW x \in Block, x # Root, QC[x] \in P PROVE x \in P
  <2>1. Ancestors[x] = {x} \cup Ancestors[QC[x]] /\ View[QC[x]] < View[x]
        /\ View[QC[x]] \in Nat /\ View[x] \in Nat /\ QC[x] \in Block
    BY <1>2, BlockFacts
  <2>2. ASSUME NEW a \in Ancestors[QC[x]]
        PROVE  a \in Block /\ View[a] < View[x] /\ Ancestors[a] \subseteq Ancestors[x]
    <3>1. a \in Block /\ View[a] \in Nat /\ Ancestors[a] \subseteq Ancestors[QC[x]]
          /\ (a = QC[x] \/ View[a] < View[QC[x]])
      BY <1>2, <2>2, BlockFacts
    <3> QED BY <2>1, <3>1
  <2>3. \A a \in Ancestors[x] : a = x \/ a \in Ancestors[QC[x]]
    BY <2>1
  <2>4. Below(x)
    BY <2>2, <2>3
  <2> QED BY <2>4
<1>3. b \in P
  <2> HIDE DEF P
  <2> QED BY <1>1, <1>2, BlockInduction
<1> QED BY <1>3

-----------------------------------------------------------------------------
(***************************************************************************)
(* The certificates C that exist: QCs, each one given by its block, and    *)
(* TCs.                                                                    *)
(***************************************************************************)

\* Validator.ValidateProposal: the block proves with certificates of C that its
\* view was entered legitimately.
ValidBlock(b, C) ==
    /\ b # Root
    /\ ValidateEvidenceForEnteringView(View[b], QC[b], LastViewTC[b])
    /\ QC[b] \in C.qcs
    /\ LastViewTC[b] # NoTC => LastViewTC[b] \in C.tcs

\* The certificates a committee that keeps the safety rules may have produced:
\* one QC per view, QCs only for valid blocks, and TCs that report at least the
\* QC inside every certified block of their view or a lower one.
Certificates ==
    {C \in [qcs : SUBSET Block, tcs : SUBSET TimeoutCertificate] :
        /\ Root \in C.qcs
        /\ \A b, c \in C.qcs : View[b] = View[c] => b = c
        /\ \A c \in C.qcs \ {Root} : ValidBlock(c, C)
        /\ \A tc \in C.tcs :
              /\ tc.newestQC \in C.qcs
              /\ View[tc.newestQC] <= tc.view
              /\ \A c \in C.qcs \ {Root} :
                    View[c] <= tc.view => View[QC[c]] <= View[tc.newestQC]}

-----------------------------------------------------------------------------
(***************************************************************************)
(* The inductive invariant, of the state s of replica r and the            *)
(* certificates C.                                                         *)
(***************************************************************************)

\* d finalizes its parent f: it is certified and a direct child.
Finalizes(d, f, C) == d \in C.qcs \ {Root} /\ QC[d] = f /\ View[d] = View[f] + 1

\* The PaceMaker can prove that it has entered its view: with its newest QC,
\* or with a TC of the last view that its newest QC is not older than.
EnteredLegitimately(s, C) ==
    /\ s.newestQC \in C.qcs
    /\ View[s.newestQC] < s.curView
    /\ s.lastViewTC # NoTC => s.lastViewTC \in C.tcs
    /\ \/ View[s.newestQC] + 1 = s.curView
       \/ /\ s.lastViewTC # NoTC
          /\ s.lastViewTC.view + 1 = s.curView
          /\ View[s.lastViewTC.newestQC] <= View[s.newestQC]

\* SafetyRules has not acted beyond the PaceMaker's view and newest QC; no
\* signed block, proposals included, contains a newer QC.
SafetyDataBehind(s) ==
    /\ s.lockedOneChainView <= View[s.newestQC]
    /\ s.highestAcknowledgedView <= s.curView
    /\ \A b \in s.signed : View[QC[b]] <= View[s.newestQC]

\* Only valid blocks are stored, and Forks holds all that descend from the
\* finalized block, with their parents.
ForestComplete(s, C) ==
    /\ s.finalized \in s.forks
    /\ s.forks \subseteq s.stored
    /\ \A b \in s.forks : View[s.finalized] <= View[b]
    /\ \A b \in s.stored \ {Root} : ValidBlock(b, C)
    /\ \A b \in s.stored : s.finalized \in Ancestors[b] => b \in s.forks
    /\ \A b \in s.forks :
          View[s.finalized] < View[b] /\ View[s.finalized] <= View[QC[b]] => QC[b] \in s.forks

\* The view is above the block that finalized the finalized block, or will be
\* when Start has visited the blocks that are pending.
FinalizedBelowView(s, C) ==
    s.finalized = Root \/
    \E d \in Block :
        /\ Finalizes(d, s.finalized, C)
        /\ View[d] < s.curView \/ \E b \in s.pending : QC[b] = d

\* Only stored blocks up to the view are signed, one per view; a vote, unlike
\* a proposal, raises the highest acknowledged view.
SignaturesRecorded(s, r) ==
    /\ s.signed \subseteq s.stored
    /\ \A b \in s.signed : b # Root /\ View[b] <= s.curView
    /\ \A b, c \in s.signed : View[b] = View[c] => b = c
    /\ \A b \in s.signed : Leader[View[b]] # r => View[b] <= s.highestAcknowledgedView

\* Start visits blocks of Forks, before anything else happens.
PendingInForks(s) ==
    /\ s.pending \subseteq s.forks \ {Root}
    /\ s.started => s.pending = {}

\* All of it but what holds only between two events.
Sound(s, r, C) ==
    /\ s \in Node /\ s.fatal = FALSE
    /\ EnteredLegitimately(s, C)
    /\ SafetyDataBehind(s)
    /\ ForestComplete(s, C)
    /\ SignaturesRecorded(s, r)
    /\ PendingInForks(s)

-----------------------------------------------------------------------------
(***************************************************************************)
(* What the certificates say about one another.                            *)
(***************************************************************************)

\* The definition in the form in which the proofs use it.
LEMMA EnvironmentFacts ==
    ASSUME NEW C \in Certificates
    PROVE  /\ C.qcs \subseteq Block /\ Root \in C.qcs
           /\ \A b, c \in C.qcs : View[b] = View[c] => b = c
           /\ \A c \in C.qcs : c # Root => ValidBlock(c, C)
BY DEF Certificates

\* What a TC says about the certified blocks.
LEMMA TCFacts ==
    ASSUME NEW C \in Certificates, NEW tc \in C.tcs
    PROVE  /\ tc \in TimeoutCertificate /\ tc.newestQC \in C.qcs
           /\ View[tc.newestQC] <= tc.view
           /\ \A c \in C.qcs : c # Root /\ View[c] <= tc.view =>
                 View[QC[c]] <= View[tc.newestQC]
BY DEF Certificates

\* Certificates stay valid when more of them come to exist, and so does what a
\* replica has concluded from them.
LEMMA SoundMonotone ==
    ASSUME NEW C, NEW D, C.qcs \subseteq D.qcs, C.tcs \subseteq D.tcs,
           NEW s, NEW r, Sound(s, r, C), FinalizedBelowView(s, C)
    PROVE  Sound(s, r, D) /\ FinalizedBelowView(s, D)
<1>1. \A b : ValidBlock(b, C) => ValidBlock(b, D)
  BY DEF ValidBlock
<1>2. ForestComplete(s, D)
  BY <1>1 DEF Sound, ForestComplete
<1>3. EnteredLegitimately(s, D)
  BY DEF Sound, EnteredLegitimately
<1>4. FinalizedBelowView(s, D)
  BY DEF FinalizedBelowView, Finalizes
<1> QED BY <1>2, <1>3, <1>4 DEF Sound

\* The parent of a valid block is certified and no older than the parent of any
\* certified block of a lower view: whoever enters a view without a QC for the
\* last one shows a TC that reports the locks of a quorum.
LEMMA ParentIsNewest ==
    ASSUME NEW C \in Certificates, NEW b \in Block, ValidBlock(b, C),
           NEW d \in C.qcs, d # Root, View[d] < View[b]
    PROVE  QC[b] \in C.qcs /\ View[QC[d]] <= View[QC[b]]
<1>1. QC[b] \in C.qcs /\ b # Root /\ d \in Block
  BY EnvironmentFacts DEF ValidBlock
<1>2. {View[b], View[d], View[QC[b]], View[QC[d]]} \subseteq Nat /\ View[QC[d]] < View[d]
  BY <1>1, BlockFacts
<1>3. CASE View[QC[b]] + 1 = View[b]
  BY <1>1, <1>2, <1>3
<1>4. CASE View[QC[b]] + 1 # View[b]
  <2> DEFINE tc == LastViewTC[b]
  <2>1. /\ tc # NoTC /\ tc.view + 1 = View[b] /\ View[tc.newestQC] <= View[QC[b]]
        /\ tc \in C.tcs
    BY <1>4 DEF ValidBlock, ValidateEvidenceForEnteringView
  <2>2. tc.view \in Nat /\ tc.newestQC \in Block
    BY <1>1, <2>1, BlockFacts DEF TimeoutCertificate
  <2>3. View[tc.newestQC] \in Nat
    BY <2>2, BlockFacts
  <2>4. View[d] <= tc.view
    BY <1>2, <2>1, <2>2
  <2>5. View[QC[d]] <= View[tc.newestQC]
    BY <2>1, <2>4, TCFacts
  <2> QED BY <1>1, <1>2, <2>1, <2>3, <2>5
<1> QED BY <1>3, <1>4

\* A certified block that is not older than a finalizable one descends from it
\* (the environment agrees, as SafetyRules guarantees).
LEMMA CertifiedDescends ==
    ASSUME NEW C \in Certificates, NEW f \in Block, NEW d \in Block, Finalizes(d, f, C),
           NEW b \in C.qcs, View[f] <= View[b]
    PROVE  f \in Ancestors[b]
<1> DEFINE P == {x \in Block : x \in C.qcs /\ View[f] <= View[x] => f \in Ancestors[x]}
<1>0. /\ d \in C.qcs /\ d # Root /\ QC[d] = f /\ View[d] = View[f] + 1
      /\ f \in C.qcs /\ View[f] \in Nat /\ View[d] \in Nat /\ C.qcs \subseteq Block
  <2>1. d \in C.qcs /\ d # Root /\ QC[d] = f /\ View[d] = View[f] + 1
    BY DEF Finalizes
  <2>2. ValidBlock(d, C) /\ C.qcs \subseteq Block
    BY <2>1, EnvironmentFacts
  <2>3. QC[d] \in C.qcs
    BY <2>2 DEF ValidBlock
  <2> QED BY <2>1, <2>2, <2>3, BlockFacts
<1>1. Root \in P
  <2>1. View[Root] <= View[f] /\ View[Root] \in Nat
    BY AncestorsBasic, BlockFacts
  <2>2. View[f] <= View[Root] => f = Root
    BY <1>0, <2>1, EnvironmentFacts
  <2> QED BY <2>2, BlockFacts
<1>2. ASSUME NEW x \in Block, x # Root, QC[x] \in P, x \in C.qcs, View[f] <= View[x]
      PROVE  f \in Ancestors[x]
  <2>1. View[x] \in Nat /\ QC[x] \in Block /\ Ancestors[x] = {x} \cup Ancestors[QC[x]]
    BY <1>2, BlockFacts
  <2>2. CASE View[x] = View[f]
    BY <1>0, <1>2, <2>1, <2>2, EnvironmentFacts
  <2>3. CASE View[x] = View[d]
    <3>1. x = d
      BY <1>0, <1>2, <2>3, EnvironmentFacts
    <3> QED BY <1>0, <2>1, <3>1, AncestorsBasic
  <2>4. CASE View[d] < View[x]
    <3>1. ValidBlock(x, C)
      BY <1>2, EnvironmentFacts
    <3>2. QC[x] \in C.qcs /\ View[f] <= View[QC[x]]
      BY <1>0, <2>4, <3>1, ParentIsNewest
    <3> QED BY <1>2, <2>1, <3>2
  <2> QED BY <1>0, <1>2, <2>1, <2>2, <2>3, <2>4
<1>3. \A x \in Block : x # Root /\ QC[x] \in P => x \in P
  BY <1>2
<1>4. b \in P
  <2> HIDE DEF P
  <2> QED BY <1>0, <1>1, <1>3, BlockInduction
<1> QED BY <1>4

\* A valid block above the one that made a block finalizable descends from the
\* finalizable block, and so does its parent.
LEMMA ValidDescends ==
    ASSUME NEW C \in Certificates, NEW f \in Block, NEW d \in Block, Finalizes(d, f, C),
           NEW b \in Block, ValidBlock(b, C), View[d] < View[b]
    PROVE  /\ f \in Ancestors[b] /\ f \in Ancestors[QC[b]] /\ View[f] <= View[QC[b]]
<1>1. d \in C.qcs /\ d # Root /\ QC[d] = f /\ b # Root
  BY DEF Finalizes, ValidBlock
<1>2. QC[b] \in C.qcs /\ View[f] <= View[QC[b]]
  BY <1>1, ParentIsNewest
<1>3. f \in Ancestors[QC[b]]
  BY <1>2, CertifiedDescends
<1> QED BY <1>1, <1>2, <1>3, BlockFacts

-----------------------------------------------------------------------------
(***************************************************************************)
(* What the operators on the record change, component by component.        *)
(***************************************************************************)
SameLiveness(s, t) ==
    t.curView = s.curView /\ t.newestQC = s.newestQC /\ t.lastViewTC = s.lastViewTC
SameSafety(s, t) ==
    /\ t.highestAcknowledgedView = s.highestAcknowledgedView
    /\ t.lockedOneChainView = s.lockedOneChainView
    /\ t.lastTimeout = s.lastTimeout /\ t.signed = s.signed
\* SafetyRules.ProduceVote for block b.
VotesFor(s, t, b) ==
    /\ s.highestAcknowledgedView < View[b] /\ View[b] = t.curView
    /\ t.highestAcknowledgedView = View[b]
    /\ t.lockedOneChainView = IF s.lockedOneChainView < View[QC[b]] THEN View[QC[b]]
                              ELSE s.lockedOneChainView
    /\ t.signed = s.signed \cup {b} /\ t.lastTimeout = s.lastTimeout

\* The leader r signs its proposal b: the safety data stays as it is.
Proposes(s, t, r, b) ==
    /\ View[b] \in DOMAIN Leader /\ Leader[View[b]] = r
    /\ View[b] = t.curView /\ b \notin s.signed
    /\ t.highestAcknowledgedView = s.highestAcknowledgedView
    /\ t.lockedOneChainView = s.lockedOneChainView
    /\ t.signed = s.signed \cup {b} /\ t.lastTimeout = s.lastTimeout

\* SafetyRules.ProduceTimeout, first call in the view.
TimesOut(s, t) ==
    /\ ~ (s.lastTimeout # NoTimeout /\ s.lastTimeout.view = t.curView)
    /\ t.highestAcknowledgedView = t.curView
    /\ t.lastTimeout = [view |-> t.curView, newestQC |-> t.newestQC, tick |-> 0]
    /\ t.lockedOneChainView = s.lockedOneChainView /\ t.signed = s.signed

\* SafetyRules.ProduceTimeout, repeated.
RepeatsTimeout(s, t) ==
    /\ s.lastTimeout # NoTimeout /\ s.lastTimeout.view = t.curView
    /\ s.lastTimeout.tick < MaxTick
    /\ t.lastTimeout = [s.lastTimeout EXCEPT !.tick = @ + 1]
    /\ t.highestAcknowledgedView = s.highestAcknowledgedView
    /\ t.lockedOneChainView = s.lockedOneChainView /\ t.signed = s.signed

\* A step of a replica signs at most once.
SafetyStep(s, t, r) ==
    \/ SameSafety(s, t)
    \/ \E b \in Block : VotesFor(s, t, b) \/ Proposes(s, t, r, b)
    \/ t.curView <= MaxView /\ (TimesOut(s, t) \/ RepeatsTimeout(s, t))

SameForks(s, t) ==
    t.stored = s.stored /\ t.forks = s.forks /\ t.finalized = s.finalized
SameControl(s, t) ==
    t.started = s.started /\ t.pending = s.pending

\* The types of the fields of a replica.
LEMMA NodeFields ==
    ASSUME NEW s \in Node
    PROVE  /\ s.curView \in Nat /\ s.newestQC \in Block
           /\ s.lastViewTC \in TimeoutCertificate \cup {NoTC}
           /\ s.highestAcknowledgedView \in Nat /\ s.lockedOneChainView \in Nat
           /\ s.lastTimeout \in LastTimeout \cup {NoTimeout}
           /\ s.stored \subseteq Block /\ s.forks \subseteq Block /\ s.finalized \in Block
           /\ s.signed \subseteq Block /\ s.started \in BOOLEAN /\ s.pending \subseteq Block
           /\ s.fatal \in BOOLEAN
           /\ View[s.newestQC] \in Nat /\ View[s.finalized] \in Nat
<1>1. /\ s.curView \in Nat /\ s.newestQC \in Block
      /\ s.lastViewTC \in TimeoutCertificate \cup {NoTC}
      /\ s.highestAcknowledgedView \in Nat /\ s.lockedOneChainView \in Nat
      /\ s.lastTimeout \in LastTimeout \cup {NoTimeout}
      /\ s.stored \subseteq Block /\ s.forks \subseteq Block /\ s.finalized \in Block
      /\ s.signed \subseteq Block /\ s.started \in BOOLEAN /\ s.pending \subseteq Block
      /\ s.fatal \in BOOLEAN
  BY DEF Node
<1> QED BY <1>1, BlockFacts

\* Newer returns one of two QCs, and none of a higher view is left out.
LEMMA NewerFacts ==
    ASSUME NEW p \in Block, NEW q \in Block
    PROVE  /\ Newer(p, q) \in {p, q} /\ Newer(p, q) \in Block /\ View[Newer(p, q)] \in Nat
           /\ View[p] <= View[Newer(p, q)] /\ View[q] <= View[Newer(p, q)]
<1>1. View[p] \in Nat /\ View[q] \in Nat
  BY BlockFacts
<1> QED BY <1>1 DEF Newer

\* Only the newest QC changes.
LEMMA UpdateNewestQCEffect ==
    ASSUME NEW s \in Node, NEW qc \in Block, NEW t, t = UpdateNewestQC(s, qc)
    PROVE  /\ t \in Node /\ t.fatal = s.fatal
           /\ t.curView = s.curView /\ t.newestQC = Newer(s.newestQC, qc)
           /\ t.lastViewTC = s.lastViewTC
           /\ SameSafety(s, t) /\ SameForks(s, t) /\ SameControl(s, t)
<1>1. Newer(s.newestQC, qc) \in Block
  BY NodeFields, NewerFacts
<1>2. t = [s EXCEPT !.newestQC = Newer(s.newestQC, qc)]
  BY DEF UpdateNewestQC
<1> QED BY <1>1, <1>2 DEF Node, SameSafety, SameForks, SameControl

\* The liveness data changes as a whole, and nothing else.
LEMMA UpdateLivenessDataEffect ==
    ASSUME NEW s \in Node, NEW v \in Nat, NEW qc \in Block,
           NEW tc \in TimeoutCertificate \cup {NoTC},
           NEW t, t = UpdateLivenessData(s, v, qc, tc)
    PROVE  /\ t \in Node /\ t.fatal = s.fatal
           /\ t.curView = v /\ t.newestQC = Newer(s.newestQC, qc) /\ t.lastViewTC = tc
           /\ SameSafety(s, t) /\ SameForks(s, t) /\ SameControl(s, t)
<1> DEFINE q == Newer(s.newestQC, qc)
           t1 == [s EXCEPT !.curView = v]
           t2 == [t1 EXCEPT !.newestQC = q]
           t3 == [t2 EXCEPT !.lastViewTC = tc]
<1>0. t = [s EXCEPT !.curView = v, !.newestQC = q, !.lastViewTC = tc]
  BY DEF UpdateLivenessData
<1>1. q \in Block
  BY NodeFields, NewerFacts
<1>2. t = t3
  BY <1>0, Zenon
<1> HIDE DEF q
<1>3. /\ t1 \in Node /\ t1.fatal = s.fatal /\ t1.curView = v
      /\ SameSafety(s, t1) /\ SameForks(s, t1) /\ SameControl(s, t1)
  BY DEF Node, SameSafety, SameForks, SameControl
<1> HIDE DEF t1
<1>4. /\ t2 \in Node /\ t2.fatal = s.fatal /\ t2.curView = v /\ t2.newestQC = q
      /\ SameSafety(s, t2) /\ SameForks(s, t2) /\ SameControl(s, t2)
  BY <1>1, <1>3 DEF Node, SameSafety, SameForks, SameControl
<1> HIDE DEF t2
<1>5. /\ t3 \in Node /\ t3.fatal = s.fatal /\ t3.curView = v /\ t3.newestQC = q
      /\ t3.lastViewTC = tc
      /\ SameSafety(s, t3) /\ SameForks(s, t3) /\ SameControl(s, t3)
  BY <1>4 DEF Node, SameSafety, SameForks, SameControl
<1> QED BY <1>2, <1>5 DEF q

-----------------------------------------------------------------------------
(***************************************************************************)
(* The PaceMaker.                                                          *)
(***************************************************************************)

\* The PaceMaker has gone from s to t: forward, and with evidence.
Advances(s, t, C) ==
    /\ t \in Node /\ t.fatal = s.fatal
    /\ SameSafety(s, t) /\ SameForks(s, t) /\ SameControl(s, t)
    /\ EnteredLegitimately(t, C)
    /\ s.curView <= t.curView
    /\ View[s.newestQC] <= View[t.newestQC]

\* ProcessQC leaves the view of the QC and every lower one.
LEMMA ProcessQCStep ==
    ASSUME NEW C \in Certificates, NEW s \in Node, EnteredLegitimately(s, C),
           NEW qc \in C.qcs, NEW t, t = ProcessQC(s, qc)
    PROVE  Advances(s, t, C) /\ View[qc] < t.curView /\ View[qc] <= View[t.newestQC]
<1>0. /\ qc \in Block /\ View[qc] \in Nat /\ s.curView \in Nat /\ s.newestQC \in Block
      /\ View[s.newestQC] \in Nat /\ s.lastViewTC \in TimeoutCertificate \cup {NoTC}
      /\ NoTC \notin TimeoutCertificate
  BY NodeFields, EnvironmentFacts, BlockFacts
<1> DEFINE q == Newer(s.newestQC, qc)
<1>1. /\ q \in C.qcs /\ View[q] \in Nat /\ View[s.newestQC] <= View[q] /\ View[qc] <= View[q]
      /\ q \in {s.newestQC, qc}
  BY <1>0, NewerFacts DEF EnteredLegitimately
<1>2. CASE View[qc] < s.curView
  <2>1. /\ t \in Node /\ t.fatal = s.fatal
        /\ t.curView = s.curView /\ t.newestQC = q /\ t.lastViewTC = s.lastViewTC
        /\ SameSafety(s, t) /\ SameForks(s, t) /\ SameControl(s, t)
    BY <1>0, <1>2, UpdateNewestQCEffect DEF ProcessQC
  <2> HIDE DEF q
  <2>2. View[q] < s.curView
    BY <1>0, <1>1, <1>2 DEF EnteredLegitimately
  <2>3. \/ View[q] + 1 = s.curView
        \/ /\ s.lastViewTC # NoTC
           /\ s.lastViewTC.view + 1 = s.curView
           /\ View[s.lastViewTC.newestQC] <= View[q]
    <3>1. CASE View[s.newestQC] + 1 = s.curView
      BY <1>0, <1>1, <2>2, <3>1
    <3>2. CASE /\ s.lastViewTC # NoTC
               /\ s.lastViewTC.view + 1 = s.curView
               /\ View[s.lastViewTC.newestQC] <= View[s.newestQC]
      <4>1. View[s.lastViewTC.newestQC] \in Nat
        BY <1>0, <3>2, BlockFacts DEF TimeoutCertificate
      <4>2. View[s.lastViewTC.newestQC] <= View[q]
        BY <1>0, <1>1, <3>2, <4>1
      <4> QED BY <3>2, <4>2
    <3> QED BY <3>1, <3>2 DEF EnteredLegitimately
  <2>4. EnteredLegitimately(t, C)
    BY <1>1, <2>1, <2>2, <2>3 DEF EnteredLegitimately
  <2> QED BY <1>0, <1>1, <1>2, <2>1, <2>4 DEF Advances
<1>3. CASE ~ (View[qc] < s.curView)
  <2>1. /\ t \in Node /\ t.fatal = s.fatal
        /\ t.curView = View[qc] + 1 /\ t.newestQC = q /\ t.lastViewTC = NoTC
        /\ SameSafety(s, t) /\ SameForks(s, t) /\ SameControl(s, t)
    <3>1. PICK none \in TimeoutCertificate \cup {NoTC} : none = NoTC
      OBVIOUS
    <3>2. PICK v \in Nat : v = View[qc] + 1
      BY <1>0
    <3>3. qc \in Block /\ t = UpdateLivenessData(s, v, qc, none)
      BY <1>0, <1>3, <3>1, <3>2 DEF ProcessQC
    <3>4. /\ t \in Node /\ t.fatal = s.fatal
          /\ t.curView = v /\ t.newestQC = q /\ t.lastViewTC = none
          /\ SameSafety(s, t) /\ SameForks(s, t) /\ SameControl(s, t)
      BY <3>3, UpdateLivenessDataEffect
    <3> QED BY <3>1, <3>2, <3>4
  <2> HIDE DEF q
  <2>2. View[q] = View[qc]
    BY <1>0, <1>1, <1>3 DEF EnteredLegitimately
  <2>3. EnteredLegitimately(t, C)
    BY <1>0, <1>1, <2>1, <2>2 DEF EnteredLegitimately
  <2> QED BY <1>0, <1>1, <1>3, <2>1, <2>2, <2>3 DEF Advances
<1> QED BY <1>2, <1>3

\* ProcessTC leaves the view of the TC and every lower one.
LEMMA ProcessTCStep ==
    ASSUME NEW C \in Certificates, NEW s \in Node, EnteredLegitimately(s, C),
           NEW tc \in TimeoutCertificate \cup {NoTC}, tc # NoTC => tc \in C.tcs,
           NEW t, t = ProcessTC(s, tc)
    PROVE  Advances(s, t, C)
<1>0. /\ s.curView \in Nat /\ s.newestQC \in Block
      /\ View[s.newestQC] \in Nat /\ s.lastViewTC \in TimeoutCertificate \cup {NoTC}
      /\ NoTC \notin TimeoutCertificate
  BY NodeFields, EnvironmentFacts, BlockFacts
<1>1. CASE tc = NoTC
  BY <1>0, <1>1 DEF ProcessTC, Advances, SameSafety, SameForks, SameControl
<1> DEFINE qc == tc.newestQC
           q == Newer(s.newestQC, qc)
<1>2. ASSUME tc # NoTC
      PROVE  /\ qc \in Block /\ View[qc] \in Nat /\ tc.view \in Nat /\ View[qc] <= tc.view
             /\ q \in C.qcs /\ View[q] \in Nat /\ View[s.newestQC] <= View[q] /\ View[qc] <= View[q]
             /\ q \in {s.newestQC, qc}
  <2>1. qc \in Block /\ tc.view \in Nat
    BY <1>2 DEF TimeoutCertificate
  <2>2. qc \in C.qcs /\ View[qc] <= tc.view
    BY <1>2, TCFacts
  <2> QED BY <1>0, <2>1, <2>2, BlockFacts, NewerFacts DEF EnteredLegitimately
<1>3. CASE tc # NoTC /\ tc.view < s.curView
  <2>1. /\ t \in Node /\ t.fatal = s.fatal
        /\ t.curView = s.curView /\ t.newestQC = q /\ t.lastViewTC = s.lastViewTC
        /\ SameSafety(s, t) /\ SameForks(s, t) /\ SameControl(s, t)
    <3>1. t = UpdateNewestQC(s, qc)
      BY <1>3 DEF ProcessTC
    <3> HIDE DEF qc
    <3> QED BY <1>2, <1>3, <3>1, UpdateNewestQCEffect
  <2> HIDE DEF q
  <2>2. View[q] < s.curView
    BY <1>0, <1>2, <1>3 DEF EnteredLegitimately
  <2>3. \/ View[q] + 1 = s.curView
        \/ /\ s.lastViewTC # NoTC
           /\ s.lastViewTC.view + 1 = s.curView
           /\ View[s.lastViewTC.newestQC] <= View[q]
    <3>1. CASE View[s.newestQC] + 1 = s.curView
      BY <1>0, <1>2, <1>3, <2>2, <3>1
    <3>2. CASE /\ s.lastViewTC # NoTC
               /\ s.lastViewTC.view + 1 = s.curView
               /\ View[s.lastViewTC.newestQC] <= View[s.newestQC]
      <4>1. View[s.lastViewTC.newestQC] \in Nat
        BY <1>0, <3>2, BlockFacts DEF TimeoutCertificate
      <4> QED BY <1>0, <1>2, <1>3, <3>2, <4>1
    <3> QED BY <3>1, <3>2 DEF EnteredLegitimately
  <2>4. EnteredLegitimately(t, C)
    BY <1>2, <1>3, <2>1, <2>2, <2>3 DEF EnteredLegitimately
  <2> QED BY <1>0, <1>2, <1>3, <2>1, <2>4 DEF Advances
<1>4. CASE tc # NoTC /\ ~ (tc.view < s.curView)
  <2>1. /\ t \in Node /\ t.fatal = s.fatal
        /\ t.curView = tc.view + 1 /\ t.newestQC = q /\ t.lastViewTC = tc
        /\ SameSafety(s, t) /\ SameForks(s, t) /\ SameControl(s, t)
    <3>1. t = UpdateLivenessData(s, tc.view + 1, qc, tc)
      BY <1>4 DEF ProcessTC
    <3>2. tc.view + 1 \in Nat
      BY <1>2, <1>4
    <3> HIDE DEF qc
    <3> QED BY <1>2, <1>4, <3>1, <3>2, UpdateLivenessDataEffect
  <2> HIDE DEF q
  <2>2. View[q] < tc.view + 1 /\ s.curView <= tc.view + 1
    BY <1>0, <1>2, <1>4 DEF EnteredLegitimately
  <2>3. EnteredLegitimately(t, C)
    BY <1>2, <1>4, <2>1, <2>2 DEF EnteredLegitimately
  <2> QED BY <1>0, <1>2, <1>4, <2>1, <2>2, <2>3 DEF Advances
<1> QED BY <1>1, <1>3, <1>4

\* Two steps forward are one.
LEMMA AdvancesTransitive ==
    ASSUME NEW C, NEW s \in Node, NEW t, NEW u, Advances(s, t, C), Advances(t, u, C)
    PROVE  Advances(s, u, C)
<1>1. t \in Node /\ u \in Node
  BY DEF Advances
<1>2. {s.curView, t.curView, u.curView} \subseteq Nat
      /\ {View[s.newestQC], View[t.newestQC], View[u.newestQC]} \subseteq Nat
  BY <1>1, NodeFields
<1>3. s.curView <= u.curView /\ View[s.newestQC] <= View[u.newestQC]
  BY <1>2 DEF Advances
<1> QED BY <1>1, <1>3 DEF Advances, SameSafety, SameForks, SameControl

\* The certificates of a QC and a TC together.
LEMMA ProcessCertificatesStep ==
    ASSUME NEW C \in Certificates, NEW s \in Node, EnteredLegitimately(s, C), NEW qc \in C.qcs,
           NEW tc \in TimeoutCertificate \cup {NoTC}, tc # NoTC => tc \in C.tcs,
           NEW t, t = ProcessCertificates(s, qc, tc)
    PROVE  Advances(s, t, C) /\ View[qc] < t.curView /\ View[qc] <= View[t.newestQC]
<1> DEFINE u == ProcessQC(s, qc)
<1>1. Advances(s, u, C) /\ View[qc] < u.curView /\ View[qc] <= View[u.newestQC]
  BY ProcessQCStep
<1>2. u \in Node /\ EnteredLegitimately(u, C)
  BY <1>1 DEF Advances
<1>3. t = ProcessTC(u, tc)
  BY DEF ProcessCertificates
<1> HIDE DEF u
<1>4. Advances(u, t, C)
  BY <1>2, <1>3, ProcessTCStep
<1>5. t \in Node /\ View[qc] \in Nat /\ u.curView <= t.curView /\ View[u.newestQC] <= View[t.newestQC]
  BY <1>4, EnvironmentFacts, BlockFacts DEF Advances
<1>6. {u.curView, t.curView, View[u.newestQC], View[t.newestQC]} \subseteq Nat
  BY <1>2, <1>5, NodeFields
<1> QED BY <1>1, <1>4, <1>5, <1>6, AdvancesTransitive

-----------------------------------------------------------------------------
(***************************************************************************)
(* Forks.                                                                  *)
(***************************************************************************)

\* A block is put into Forks, and nothing else happens.
LEMMA AddForkEffect ==
    ASSUME NEW s \in Node, NEW b \in Block, NEW t, t = [s EXCEPT !.forks = @ \cup {b}]
    PROVE  /\ t \in Node /\ t.fatal = s.fatal
           /\ SameLiveness(s, t) /\ SameSafety(s, t) /\ SameControl(s, t)
           /\ t.stored = s.stored /\ t.finalized = s.finalized /\ t.forks = s.forks \cup {b}
<1>1. t = [s EXCEPT !.forks = s.forks \cup {b}]
  OBVIOUS
<1>2. s.forks \cup {b} \in SUBSET Block
  BY NodeFields
<1> QED BY <1>1, <1>2 DEF Node, SameLiveness, SameSafety, SameControl

\* A block is put into storage, and nothing else happens.
LEMMA StoreEffect ==
    ASSUME NEW s \in Node, NEW b \in Block, NEW t, t = Store(s, b)
    PROVE  /\ t \in Node /\ t.fatal = s.fatal
           /\ SameLiveness(s, t) /\ SameSafety(s, t) /\ SameControl(s, t)
           /\ t.stored = s.stored \cup {b} /\ t.finalized = s.finalized /\ t.forks = s.forks
<1>1. t = [s EXCEPT !.stored = s.stored \cup {b}]
  BY DEF Store
<1>2. s.stored \cup {b} \in SUBSET Block
  BY NodeFields
<1> QED BY <1>1, <1>2 DEF Node, SameLiveness, SameSafety, SameControl

\* A descendant of the finalized block is finalized, and Forks is pruned.
LEMMA FinalizeEffect ==
    ASSUME NEW s \in Node, NEW b \in Block, s.finalized \in Ancestors[b],
           NEW t, t = FinalizeUpToBlock(s, b)
    PROVE  /\ t \in Node /\ t.fatal = s.fatal
           /\ SameLiveness(s, t) /\ SameSafety(s, t) /\ SameControl(s, t)
           /\ t.stored = s.stored /\ t.finalized = b
           /\ t.forks = {c \in s.forks : View[c] >= View[b]}
<1> DEFINE kept == {c \in s.forks : View[c] >= View[b]}
           t1 == [s EXCEPT !.finalized = b]
           t2 == [t1 EXCEPT !.forks = kept]
<1>1. t = [s EXCEPT !.finalized = b, !.forks = kept]
  BY DEF FinalizeUpToBlock
<1>2. kept \in SUBSET Block
  BY NodeFields
<1>3. t = t2
  BY <1>1, Zenon
<1> HIDE DEF kept
<1>4. /\ t1 \in Node /\ t1.fatal = s.fatal /\ t1.finalized = b /\ t1.stored = s.stored
      /\ SameLiveness(s, t1) /\ SameSafety(s, t1) /\ SameControl(s, t1)
  BY DEF Node, SameLiveness, SameSafety, SameControl
<1> HIDE DEF t1
<1>5. /\ t2 \in Node /\ t2.fatal = s.fatal /\ t2.finalized = b /\ t2.stored = s.stored
      /\ t2.forks = kept
      /\ SameLiveness(s, t2) /\ SameSafety(s, t2) /\ SameControl(s, t2)
  BY <1>2, <1>4 DEF Node, SameLiveness, SameSafety, SameControl
<1> QED BY <1>3, <1>5 DEF kept

\* The parent and the grandparent of b are known, and the parent, a direct
\* child, finalizes the grandparent.
DirectTwoChain(s, b) ==
    /\ View[s.finalized] < View[b]
    /\ QC[b] \in s.forks /\ View[s.finalized] < View[QC[b]]
    /\ View[s.finalized] <= View[QC[QC[b]]]
    /\ View[QC[b]] = View[QC[QC[b]]] + 1

\* What AddProposal may do to Forks.
AddedTo(s, t, b) ==
    /\ t \in Node /\ t.fatal = FALSE
    /\ SameLiveness(s, t) /\ SameSafety(s, t) /\ SameControl(s, t)
    /\ t.stored = s.stored
    /\ \/ /\ View[b] < View[s.finalized] \/ b \in s.forks
          /\ t.finalized = s.finalized /\ t.forks = s.forks
       \/ /\ View[s.finalized] <= View[b] /\ b \notin s.forks /\ ~ DirectTwoChain(s, b)
          /\ t.finalized = s.finalized /\ t.forks = s.forks \cup {b}
       \/ /\ b \notin s.forks /\ DirectTwoChain(s, b)
          /\ s.finalized \in Ancestors[QC[QC[b]]]
          /\ t.finalized = QC[QC[b]]
          /\ t.forks = {c \in s.forks \cup {b} : View[c] >= View[QC[QC[b]]]}

\* The errors of Forks are excluded when the parents in Forks are certified, the
\* parent is known unless it is pruned, and the grandparent, unless it is pruned,
\* is known and descends from the finalized block.
LEMMA AddProposalEffect ==
    ASSUME NEW C \in Certificates, NEW s \in Node, s.fatal = FALSE,
           NEW b \in Block, b # Root, QC[b] \in C.qcs,
           \A c \in s.forks : c # Root => QC[c] \in C.qcs,
           \/ View[b] <= View[s.finalized]
           \/ View[QC[b]] < View[s.finalized]
           \/ QC[b] \in s.forks,
           QC[b] \in s.forks /\ View[s.finalized] < View[QC[b]]
                            /\ View[s.finalized] <= View[QC[QC[b]]]
              => QC[QC[b]] \in s.forks /\ s.finalized \in Ancestors[QC[QC[b]]],
           NEW t, t = AddProposal(s, b)
    PROVE  AddedTo(s, t, b)
<1>0. /\ View[b] \in Nat /\ QC[b] \in Block /\ View[QC[b]] \in Nat /\ View[QC[b]] < View[b]
      /\ s.finalized \in Block /\ View[s.finalized] \in Nat /\ s.forks \subseteq Block
      /\ View[Root] <= View[s.finalized] /\ View[Root] \in Nat
  BY BlockFacts, NodeFields, AncestorsBasic
<1>1. VerifyProposal(s, b)
  BY <1>0 DEF VerifyProposal, FinalizedView
<1>2. CASE View[b] < View[s.finalized] \/ b \in s.forks
  <2>1. t = s
    BY <1>1, <1>2 DEF AddProposal, FinalizedView
  <2> QED BY <1>2, <2>1 DEF AddedTo, SameLiveness, SameSafety, SameControl
<1>3. CASE ~ (View[b] < View[s.finalized] \/ b \in s.forks)
  <2> DEFINE u == [s EXCEPT !.forks = @ \cup {b}]
  <2>1. ~ ConflictingQCs(s, QC[b])
    <3> SUFFICES ASSUME NEW other \in s.forks, other # QC[b], NEW child \in s.forks, child # Root,
                        View[other] = View[QC[b]], QC[child] = other
                 PROVE  FALSE
      BY DEF ConflictingQCs
    <3> QED BY EnvironmentFacts
  <2>2. t = UpdateFinalizedBlockQC(u, b)
    BY <1>1, <1>3, <2>1 DEF AddProposal, FinalizedView
  <2>3. /\ u \in Node /\ u.fatal = s.fatal
        /\ SameLiveness(s, u) /\ SameSafety(s, u) /\ SameControl(s, u)
        /\ u.stored = s.stored /\ u.finalized = s.finalized /\ u.forks = s.forks \cup {b}
    BY AddForkEffect
  <2> HIDE DEF u
  <2>4. QC[b] # b /\ (QC[b] \in u.forks <=> QC[b] \in s.forks)
    BY <1>0, <2>3
  <2>5. ~ (~ PrunedAncestry(u, b) /\ QC[b] \notin u.forks)
    BY <1>0, <2>3, <2>4 DEF PrunedAncestry, FinalizedView
  <2>6. CASE TwoChainKnown(u, b)
    <3> DEFINE g == QC[QC[b]]
    <3>1. /\ QC[b] \in s.forks /\ View[s.finalized] < View[b]
          /\ ~ (View[QC[b]] <= View[s.finalized]) /\ ~ (View[g] < View[s.finalized])
      BY <1>0, <2>3, <2>4, <2>6 DEF TwoChainKnown, PrunedAncestry, FinalizedView
    <3>2. QC[b] # Root
      BY <1>0, <3>1
    <3>3. g \in Block /\ View[g] \in Nat /\ View[g] < View[QC[b]]
      BY <1>0, <3>2, BlockFacts
    <3>4. g \in s.forks /\ s.finalized \in Ancestors[g] /\ g \in u.forks
          /\ View[s.finalized] < View[QC[b]] /\ View[s.finalized] <= View[g]
      BY <1>0, <2>3, <3>1, <3>3
    <3>5. CASE View[QC[b]] = View[g] + 1
      <4>1. t = FinalizeUpToBlock(u, g)
        BY <2>2, <2>5, <2>6, <3>4, <3>5 DEF UpdateFinalizedBlockQC
      <4>2. DirectTwoChain(s, b)
        BY <3>1, <3>4, <3>5 DEF DirectTwoChain
      <4>3. u.finalized \in Ancestors[g]
        BY <2>3, <3>4
      <4> HIDE DEF g
      <4>4. /\ t \in Node /\ t.fatal = u.fatal
            /\ SameLiveness(u, t) /\ SameSafety(u, t) /\ SameControl(u, t)
            /\ t.stored = u.stored /\ t.finalized = g
            /\ t.forks = {c \in u.forks : View[c] >= View[g]}
        BY <2>3, <3>3, <4>1, <4>3, FinalizeEffect
      <4>5. t.forks = {c \in s.forks \cup {b} : View[c] >= View[g]}
        BY <2>3, <4>4
      <4>6. SameLiveness(s, t) /\ SameSafety(s, t) /\ SameControl(s, t) /\ t.stored = s.stored
            /\ t.fatal = FALSE
        BY <2>3, <4>4 DEF SameLiveness, SameSafety, SameControl
      <4> QED BY <1>3, <3>4, <4>2, <4>4, <4>5, <4>6 DEF AddedTo, g
    <3>6. CASE View[QC[b]] # View[g] + 1
      <4>1. t = u
        BY <2>2, <2>5, <2>6, <3>4, <3>6 DEF UpdateFinalizedBlockQC
      <4>2. ~ DirectTwoChain(s, b)
        BY <3>6 DEF DirectTwoChain
      <4>3. View[s.finalized] <= View[b]
        BY <1>0, <1>3
      <4> QED BY <1>3, <2>3, <4>1, <4>2, <4>3 DEF AddedTo
    <3> QED BY <3>5, <3>6
  <2>7. CASE ~ TwoChainKnown(u, b)
    <3>1. t = u
      BY <2>2, <2>5, <2>7 DEF UpdateFinalizedBlockQC
    <3>2. ~ DirectTwoChain(s, b)
      <4> SUFFICES ASSUME DirectTwoChain(s, b) PROVE TwoChainKnown(u, b)
        BY <2>7
      <4>1. /\ View[s.finalized] < View[b] /\ QC[b] \in s.forks /\ View[s.finalized] < View[QC[b]]
            /\ View[s.finalized] <= View[QC[QC[b]]]
        BY DEF DirectTwoChain
      <4>2. QC[b] # Root
        BY <1>0, <4>1
      <4>3. View[QC[QC[b]]] \in Nat
        BY <1>0, <4>2, BlockFacts
      <4> QED BY <1>0, <2>3, <2>4, <4>1, <4>3 DEF TwoChainKnown, PrunedAncestry, FinalizedView
    <3>3. View[s.finalized] <= View[b]
      BY <1>0, <1>3
    <3> QED BY <1>3, <2>3, <3>1, <3>2, <3>3 DEF AddedTo
  <2> QED BY <2>6, <2>7
<1> QED BY <1>2, <1>3

\* The finalized block has a certified direct child.
Justified(s, C) ==
    s.finalized = Root \/ \E d \in Block : Finalizes(d, s.finalized, C)

\* Certified blocks from the finalized view on descend from the finalized block.
LEMMA CertifiedAboveFinalized ==
    ASSUME NEW C \in Certificates, NEW s \in Node, Justified(s, C), NEW b \in C.qcs,
           View[s.finalized] <= View[b]
    PROVE  s.finalized \in Ancestors[b]
<1>1. b \in Block /\ s.finalized \in Block
  BY EnvironmentFacts, NodeFields
<1>2. CASE s.finalized = Root
  BY <1>1, <1>2, AncestorsBasic
<1>3. CASE \E d \in Block : Finalizes(d, s.finalized, C)
  BY <1>1, <1>3, CertifiedDescends
<1> QED BY <1>2, <1>3 DEF Justified

\* A valid block that is new, and stored, is incorporated without an error.
LEMMA IncorporateStep ==
    ASSUME NEW C \in Certificates, NEW s \in Node, ForestComplete(s, C), Justified(s, C),
           NEW b \in Block, ValidBlock(b, C),
           \/ View[b] <= View[s.finalized]
           \/ View[QC[b]] < View[s.finalized]
           \/ QC[b] \in s.forks,
           NEW u \in Node, u.fatal = FALSE, u.stored = s.stored \cup {b},
           u.forks = s.forks, u.finalized = s.finalized,
           NEW t, t = AddProposal(u, b)
    PROVE  /\ AddedTo(u, t, b) /\ ForestComplete(t, C)
           /\ s.finalized \in Ancestors[t.finalized]
           /\ t.finalized = s.finalized \/ Finalizes(QC[b], t.finalized, C)
           /\ QC[b] \in s.forks => QC[b] \in t.forks
<1> DEFINE F == s.finalized
<1>0. /\ b # Root /\ QC[b] \in C.qcs /\ QC[b] \in Block /\ View[b] \in Nat /\ View[QC[b]] \in Nat
      /\ View[QC[b]] < View[b] /\ F \in Block /\ View[F] \in Nat /\ F \in Ancestors[F]
      /\ s.forks \subseteq Block /\ s.stored \subseteq Block
      /\ View[Root] \in Nat /\ View[Root] <= View[F]
  BY NodeFields, BlockFacts, AncestorsBasic DEF ValidBlock
<1>1. \A c \in u.forks : c # Root => QC[c] \in C.qcs
  BY DEF ForestComplete, ValidBlock
<1>2. ASSUME QC[b] \in s.forks, View[F] < View[QC[b]], View[F] <= View[QC[QC[b]]]
      PROVE  QC[QC[b]] \in s.forks /\ F \in Ancestors[QC[QC[b]]] /\ QC[QC[b]] \in C.qcs
  <2>1. QC[b] # Root
    BY <1>0, <1>2
  <2>2. QC[QC[b]] \in s.forks
    BY <1>2 DEF ForestComplete
  <2>3. QC[QC[b]] \in C.qcs
    BY <1>1, <1>2, <2>1
  <2> QED BY <1>2, <2>2, <2>3, CertifiedAboveFinalized
<1>3. AddedTo(u, t, b)
  <2>1. QC[b] \in u.forks /\ View[u.finalized] < View[QC[b]]
                         /\ View[u.finalized] <= View[QC[QC[b]]]
           => QC[QC[b]] \in u.forks /\ u.finalized \in Ancestors[QC[QC[b]]]
    BY <1>2
  <2>2. \/ View[b] <= View[u.finalized]
        \/ View[QC[b]] < View[u.finalized]
        \/ QC[b] \in u.forks
    OBVIOUS
  <2> QED BY <1>0, <1>1, <2>1, <2>2, AddProposalEffect
<1>4. \A x \in t.stored : x # Root => ValidBlock(x, C)
  BY <1>3 DEF AddedTo, ForestComplete
<1>5. ASSUME F \in Ancestors[b] PROVE View[F] <= View[b] /\ (b = F \/ (View[F] < View[b] /\ QC[b] \in s.forks))
  <2>1. CASE b = F
    BY <1>0, <2>1
  <2>2. CASE b # F
    <3>1. View[F] < View[b] /\ F \in Ancestors[QC[b]]
      BY <1>0, <1>5, <2>2, AncestorsBelow, AncestorsBasic
    <3>2. ~ (View[QC[b]] < View[F])
      BY <1>0, <3>1, AncestorsBelow
    <3> QED BY <1>0, <3>1, <3>2
  <2> QED BY <2>1, <2>2
<1>6. CASE (View[b] < View[F] \/ b \in s.forks) /\ t.finalized = F /\ t.forks = s.forks
  <2>1. \A x \in t.stored : F \in Ancestors[x] => x \in s.forks
    <3>1. F \in Ancestors[b] => b \in s.forks
      BY <1>0, <1>5, <1>6
    <3> QED BY <1>3, <3>1 DEF AddedTo, ForestComplete
  <2>2. ForestComplete(t, C)
    <3>1. t.stored = s.stored \cup {b}
      BY <1>3 DEF AddedTo
    <3> QED BY <1>4, <1>6, <2>1, <3>1 DEF ForestComplete
  <2> QED BY <1>0, <1>3, <1>6, <2>2
<1>7. CASE View[F] <= View[b] /\ t.finalized = F /\ t.forks = s.forks \cup {b}
  <2>1. t.stored = s.stored \cup {b}
    BY <1>3 DEF AddedTo
  <2>2. \A x \in t.stored : F \in Ancestors[x] => x \in t.forks
    BY <1>7, <2>1 DEF ForestComplete
  <2>3. ASSUME NEW x \in t.forks, View[F] < View[x], View[F] <= View[QC[x]]
        PROVE  QC[x] \in t.forks
    <3>1. CASE x \in s.forks
      BY <1>7, <2>3, <3>1 DEF ForestComplete
    <3>2. CASE x = b
      BY <1>0, <1>7, <2>3, <3>2
    <3> QED BY <1>7, <3>1, <3>2
  <2>4. F \in t.forks /\ t.forks \subseteq t.stored /\ \A x \in t.forks : View[F] <= View[x]
    BY <1>7, <2>1 DEF ForestComplete
  <2>5. ForestComplete(t, C)
    BY <1>4, <1>7, <2>2, <2>3, <2>4 DEF ForestComplete
  <2> QED BY <1>0, <1>3, <1>7, <2>5
<1>8. CASE /\ DirectTwoChain(u, b) /\ t.finalized = QC[QC[b]]
           /\ t.forks = {c \in s.forks \cup {b} : View[c] >= View[QC[QC[b]]]}
  <2> DEFINE g == QC[QC[b]]
  <2>1. /\ QC[b] \in s.forks /\ View[F] < View[QC[b]] /\ View[F] <= View[g]
        /\ View[QC[b]] = View[g] + 1 /\ View[F] < View[b]
    BY <1>8 DEF DirectTwoChain
  <2>2. g \in s.forks /\ F \in Ancestors[g] /\ g \in C.qcs
    BY <1>2, <2>1
  <2>3. QC[b] # Root /\ g \in Block /\ View[g] \in Nat /\ View[g] < View[QC[b]]
    BY <1>0, <2>1, <2>2, BlockFacts
  <2>4. t.stored = s.stored \cup {b} /\ t.finalized = g
    BY <1>3, <1>8 DEF AddedTo
  <2>5. Finalizes(QC[b], g, C)
    BY <1>0, <2>1, <2>3 DEF Finalizes
  <2>a. \A x : x \in t.forks <=> (x \in s.forks \/ x = b) /\ View[x] >= View[g]
    BY <1>8
  <2> HIDE DEF g
  <2>6. QC[b] \in t.forks /\ b \in t.forks /\ g \in t.forks
    BY <1>0, <2>a, <2>1, <2>2, <2>3
  <2>7. ASSUME NEW x \in t.stored, g \in Ancestors[x] PROVE x \in t.forks
    <3>1. x \in Block
      BY <1>0, <2>4
    <3>2. F \in Ancestors[x] /\ View[g] <= View[x]
      <4>1. g = x \/ View[g] < View[x]
        BY <2>7, <3>1, AncestorsBelow
      <4>2. View[x] \in Nat /\ Ancestors[g] \subseteq Ancestors[x]
        BY <2>7, <3>1, AncestorsBelow, BlockFacts
      <4> QED BY <2>2, <2>3, <4>1, <4>2
    <3>3. x \in s.forks \/ x = b
      BY <2>4, <3>2 DEF ForestComplete
    <3>4. View[x] \in Nat
      BY <3>1, BlockFacts
    <3> QED BY <2>a, <2>3, <3>2, <3>3, <3>4
  <2>8. ASSUME NEW x \in t.forks, View[g] < View[x], View[g] <= View[QC[x]]
        PROVE  QC[x] \in t.forks
    <3>1. CASE x = b
      BY <2>6, <3>1
    <3>2. CASE x \in s.forks
      <4>1. x \in Block /\ x # Root
        <5>1. View[Root] <= View[g]
          BY <2>3, AncestorsBasic
        <5> QED BY <1>0, <2>3, <2>8, <3>2, <5>1
      <4>2. {View[x], View[QC[x]]} \subseteq Nat
        BY <4>1, BlockFacts
      <4>3. View[F] < View[x] /\ View[F] <= View[QC[x]]
        BY <1>0, <2>1, <2>3, <2>8, <4>2
      <4>4. QC[x] \in s.forks
        BY <3>2, <4>3 DEF ForestComplete
      <4> QED BY <2>a, <2>3, <2>8, <4>2, <4>4
    <3> QED BY <2>a, <3>1, <3>2
  <2>9. \A x \in t.forks : View[g] <= View[x]
    <3>1. \A x \in t.forks : View[x] \in Nat
      BY <1>0, <2>a, BlockFacts
    <3> QED BY <2>a, <2>3, <3>1
  <2>10. t.forks \subseteq t.stored
    BY <2>a, <2>4 DEF ForestComplete
  <2>11. ForestComplete(t, C)
    BY <1>4, <2>4, <2>6, <2>7, <2>8, <2>9, <2>10 DEF ForestComplete
  <2> QED BY <1>3, <2>2, <2>4, <2>5, <2>6, <2>11
<1> QED BY <1>3, <1>6, <1>7, <1>8 DEF AddedTo

\* Everything between the finalized block and a block of Forks is in Forks.
LEMMA ChainInForks ==
    ASSUME NEW C \in Certificates, NEW s \in Node, ForestComplete(s, C),
           NEW b \in s.forks, NEW a \in Ancestors[b], s.finalized \in Ancestors[a]
    PROVE  a \in s.forks
<1> DEFINE F == s.finalized
           P == {x \in Block : x \in s.forks =>
                    \A y \in Ancestors[x] : F \in Ancestors[y] => y \in s.forks}
<1>0. F \in Block /\ View[F] \in Nat /\ s.forks \subseteq Block
  BY NodeFields
<1>1. Root \in P
  BY BlockFacts
<1>2. ASSUME NEW x \in Block, x # Root, QC[x] \in P, x \in s.forks,
             NEW y \in Ancestors[x], F \in Ancestors[y]
      PROVE  y \in s.forks
  <2>1. CASE y = x
    BY <1>2, <2>1
  <2>2. CASE y # x
    <3>1. /\ y \in Ancestors[QC[x]] /\ QC[x] \in Block /\ View[QC[x]] < View[x]
          /\ View[QC[x]] \in Nat /\ View[x] \in Nat
      BY <1>2, <2>2, AncestorsBasic, BlockFacts
    <3>2. F \in Ancestors[QC[x]]
      BY <1>2, <3>1, AncestorsBelow
    <3>3. View[F] <= View[QC[x]]
      BY <1>0, <3>1, <3>2, AncestorsBelow
    <3>4. QC[x] \in s.forks
      BY <1>0, <1>2, <3>1, <3>3 DEF ForestComplete
    <3> QED BY <1>2, <3>1, <3>4
  <2> QED BY <2>1, <2>2
<1>3. \A x \in Block : x # Root /\ QC[x] \in P => x \in P
  BY <1>2
<1>4. b \in P
  <2> HIDE DEF P
  <2> QED BY <1>0, <1>1, <1>3, BlockInduction
<1> QED BY <1>4

\* Forks is complete when it holds the stored descendants of a block from the
\* finalized view on, and these include their parents.
LEMMA ForestFromDescendants ==
    ASSUME NEW C \in Certificates, NEW t \in Node, NEW f \in Block, NEW D,
           D = {x \in t.stored : f \in Ancestors[x]},
           \A x \in D : x # f => QC[x] \in D,
           \A x \in t.stored : x # Root => ValidBlock(x, C),
           t.finalized \in D,
           t.forks = {x \in D : View[x] >= View[t.finalized]}
    PROVE  ForestComplete(t, C)
<1> DEFINE h == t.finalized
<1>0. h \in Block /\ View[h] \in Nat /\ t.stored \subseteq Block /\ View[f] \in Nat
      /\ f \in Ancestors[h] /\ View[f] <= View[h]
  <2>1. h \in Block /\ View[h] \in Nat /\ t.stored \subseteq Block /\ View[f] \in Nat
        /\ f \in Ancestors[h]
    BY NodeFields, BlockFacts
  <2> QED BY <2>1, AncestorsBelow
<1>1. \A x \in D : x \in Block /\ View[x] \in Nat
  BY <1>0, BlockFacts
<1>2. h \in t.forks /\ t.forks \subseteq t.stored
  BY <1>0
<1>3. \A x \in t.forks : View[h] <= View[x]
  BY <1>0, <1>1
<1>4. ASSUME NEW x \in t.stored, h \in Ancestors[x] PROVE x \in t.forks
  <2>1. x \in Block /\ View[x] \in Nat
    BY <1>0, BlockFacts
  <2>2. (h = x \/ View[h] < View[x]) /\ Ancestors[h] \subseteq Ancestors[x]
    BY <1>4, <2>1, AncestorsBelow
  <2>3. View[x] >= View[h] /\ x \in D
    BY <1>0, <2>1, <2>2
  <2> QED BY <2>3
<1>5. ASSUME NEW x \in t.forks, View[h] < View[x], View[h] <= View[QC[x]]
      PROVE  QC[x] \in t.forks
  <2>1. x \in D /\ View[x] \in Nat
    BY <1>1
  <2>2. x # f
    BY <1>0, <1>5, <2>1
  <2>3. QC[x] \in D
    BY <2>1, <2>2
  <2>4. View[QC[x]] >= View[h]
    BY <1>0, <1>1, <1>5, <2>3
  <2> QED BY <2>3, <2>4
<1> QED BY <1>2, <1>3, <1>4, <1>5 DEF ForestComplete

-----------------------------------------------------------------------------
(***************************************************************************)
(* Restart.                                                                *)
(***************************************************************************)

\* What is put back into Forks first: the stored descendants of f but new.
LEMMA RebuiltEffect ==
    ASSUME NEW s \in Node, NEW new \in Block, NEW u,
           u = [s EXCEPT !.forks = {b \in s.stored \ {new} : s.finalized \in Ancestors[b]}
                                   \cup {s.finalized}]
    PROVE  /\ u \in Node /\ u.fatal = s.fatal
           /\ SameLiveness(s, u) /\ SameSafety(s, u) /\ SameControl(s, u)
           /\ u.stored = s.stored /\ u.finalized = s.finalized
           /\ u.forks = {b \in s.stored \ {new} : s.finalized \in Ancestors[b]} \cup {s.finalized}
<1> DEFINE D == {b \in s.stored \ {new} : s.finalized \in Ancestors[b]} \cup {s.finalized}
<1>1. D \in SUBSET Block
  BY NodeFields
<1>2. u = [s EXCEPT !.forks = D]
  OBVIOUS
<1> HIDE DEF D
<1>3. /\ u \in Node /\ u.fatal = s.fatal
      /\ SameLiveness(s, u) /\ SameSafety(s, u) /\ SameControl(s, u)
      /\ u.stored = s.stored /\ u.finalized = s.finalized /\ u.forks = D
  BY <1>1, <1>2 DEF Node, SameLiveness, SameSafety, SameControl
<1> QED BY <1>3 DEF D

\* A restart between two events puts back what descends from the finalized block.
LEMMA RecoverForksIdle ==
    ASSUME NEW C \in Certificates, NEW s \in Node, s.fatal = FALSE, ForestComplete(s, C),
           NEW t, t = RecoverForks(s, Root)
    PROVE  /\ t \in Node /\ t.fatal = FALSE
           /\ SameLiveness(s, t) /\ SameSafety(s, t) /\ SameControl(s, t)
           /\ t.stored = s.stored /\ t.finalized = s.finalized
           /\ ForestComplete(t, C)
<1> DEFINE F == s.finalized
           u == [s EXCEPT !.forks = {b \in s.stored \ {Root} : s.finalized \in Ancestors[b]}
                                    \cup {s.finalized}]
           D == {x \in s.stored : F \in Ancestors[x]}
<1>0. /\ Root \in Block /\ Ancestors[Root] = {Root} /\ F \in Block /\ F \in s.stored
      /\ F \in Ancestors[F] /\ View[F] \in Nat /\ s.stored \subseteq Block
  BY NodeFields, BlockFacts, AncestorsBasic DEF ForestComplete
<1>1. /\ u \in Node /\ u.fatal = FALSE
      /\ SameLiveness(s, u) /\ SameSafety(s, u) /\ SameControl(s, u)
      /\ u.stored = s.stored /\ u.finalized = F
      /\ u.forks = {b \in s.stored \ {Root} : F \in Ancestors[b]} \cup {F}
  BY <1>0, RebuiltEffect
<1>2. t = u
  <2>1. CASE F \in Ancestors[Root]
    <3>1. t = AddProposal(u, Root)
      BY <2>1 DEF RecoverForks
    <3>2. F = Root
      BY <1>0, <2>1
    <3> HIDE DEF u
    <3>3. VerifyProposal(u, Root) /\ Root \in u.forks
      BY <1>0, <1>1, <3>2 DEF VerifyProposal, FinalizedView
    <3> QED BY <3>1, <3>3 DEF AddProposal
  <2>2. CASE F \notin Ancestors[Root]
    BY <2>2 DEF RecoverForks
  <2> QED BY <2>1, <2>2
<1> HIDE DEF u
<1>3. t.forks = {x \in D : View[x] >= View[t.finalized]}
  <2>1. \A x \in D : View[x] >= View[F]
    <3> SUFFICES ASSUME NEW x \in D PROVE View[x] >= View[F]
      OBVIOUS
    <3>1. x \in Block /\ View[x] \in Nat
      BY <1>0, BlockFacts
    <3>2. x = F \/ View[F] < View[x]
      BY <3>1, AncestorsBelow
    <3> QED BY <1>0, <3>1, <3>2
  <2>2. u.forks = D
    BY <1>0, <1>1
  <2> HIDE DEF D
  <2> QED BY <1>1, <1>2, <2>1, <2>2
<1>4. ASSUME NEW x \in D, x # F PROVE QC[x] \in D
  <2>1. x \in Block /\ View[x] \in Nat
    BY <1>0, BlockFacts
  <2>2. View[F] < View[x] /\ F \in Ancestors[QC[x]] /\ x # Root
    BY <1>4, <2>1, AncestorsBelow, AncestorsBasic
  <2>3. QC[x] \in Block /\ View[QC[x]] \in Nat
    BY <2>1, <2>2, BlockFacts
  <2>4. View[F] <= View[QC[x]]
    BY <1>0, <2>2, <2>3, AncestorsBelow
  <2>5. QC[x] \in s.stored
    BY <2>2, <2>4 DEF ForestComplete
  <2> QED BY <2>2, <2>5
<1>5. t.finalized \in D /\ \A x \in t.stored : x # Root => ValidBlock(x, C)
  BY <1>0, <1>1, <1>2 DEF ForestComplete
<1>6. D = {x \in t.stored : F \in Ancestors[x]}
  BY <1>1, <1>2
<1> HIDE DEF D
<1>7. ForestComplete(t, C)
  BY <1>0, <1>1, <1>2, <1>3, <1>4, <1>5, <1>6, ForestFromDescendants
<1> QED BY <1>1, <1>2, <1>7

\* The parent of b is in Forks, or it is pruned or b is.
KnownParent(s, b) ==
    \/ View[b] <= View[s.finalized]
    \/ View[QC[b]] < View[s.finalized]
    \/ QC[b] \in s.forks

\* What RecoverForks(w, b) makes of w, if Forks was that of s when b arrived and
\* f is finalized on disk.
Reincorporated(s, w, t, b, f, C) ==
    /\ t \in Node /\ t.fatal = FALSE
    /\ SameLiveness(w, t) /\ SameSafety(w, t) /\ SameControl(w, t)
    /\ t.stored = w.stored /\ ForestComplete(t, C) /\ f \in Ancestors[t.finalized]
    /\ t.finalized = f \/ (Finalizes(QC[b], t.finalized, C) /\ b \in t.forks)
    /\ (/\ QC[b] \in s.forks /\ QC[b] # Root
        /\ f \in Ancestors[QC[QC[b]]]
        /\ View[QC[b]] = View[QC[QC[b]]] + 1)
       => t.finalized = QC[QC[b]]

\* A restart while proposal b is handled, with f finalized on disk: b, which is
\* stored, is incorporated again, and finalizes again what it had finalized.
LEMMA RecoverForksNew ==
    ASSUME NEW C \in Certificates, NEW s \in Node, ForestComplete(s, C),
           NEW b \in Block, ValidBlock(b, C), KnownParent(s, b),
           NEW f \in s.forks, s.finalized \in Ancestors[f],
           NEW w \in Node, w.fatal = FALSE, w.stored = s.stored \cup {b}, w.finalized = f,
           NEW t, t = RecoverForks(w, b)
    PROVE  Reincorporated(s, w, t, b, f, C)
<1> DEFINE F == s.finalized
           u == [w EXCEPT !.forks = {x \in w.stored \ {b} : w.finalized \in Ancestors[x]}
                                    \cup {w.finalized}]
           D == {x \in w.stored : f \in Ancestors[x]}
<1>0. /\ F \in Block /\ View[F] \in Nat /\ f \in Block /\ View[f] \in Nat /\ f \in s.stored
      /\ f \in Ancestors[f] /\ w.stored \subseteq Block /\ s.stored \subseteq Block
      /\ s.forks \subseteq s.stored /\ View[F] <= View[f]
  BY NodeFields, BlockFacts, AncestorsBasic DEF ForestComplete
<1>1. /\ b # Root /\ QC[b] \in C.qcs /\ QC[b] \in Block /\ View[b] \in Nat /\ View[QC[b]] \in Nat
      /\ View[QC[b]] < View[b] /\ QC[b] # b
  <2>1. b # Root /\ QC[b] \in C.qcs
    BY DEF ValidBlock
  <2>2. QC[b] \in Block /\ View[b] \in Nat /\ View[QC[b]] \in Nat /\ View[QC[b]] < View[b]
    BY <2>1, BlockFacts
  <2> QED BY <2>1, <2>2
<1>2. /\ u \in Node /\ u.fatal = FALSE
      /\ SameLiveness(w, u) /\ SameSafety(w, u) /\ SameControl(w, u)
      /\ u.stored = w.stored /\ u.finalized = f
      /\ u.forks = {x \in w.stored \ {b} : f \in Ancestors[x]} \cup {f}
  BY RebuiltEffect
<1>3. t = IF f \in Ancestors[b] THEN AddProposal(u, b) ELSE u
  BY DEF RecoverForks
<1> HIDE DEF u
<1>4. \A x \in w.stored : x # Root => ValidBlock(x, C)
  BY DEF ForestComplete
<1>5. ASSUME NEW x \in Block, f \in Ancestors[x], x # f
      PROVE  /\ x # Root /\ View[f] < View[x] /\ f \in Ancestors[QC[x]]
             /\ QC[x] \in Block /\ View[QC[x]] \in Nat /\ View[QC[x]] < View[x]
             /\ View[f] <= View[QC[x]] /\ F \in Ancestors[x]
  <2>1. x # Root /\ View[f] < View[x] /\ f \in Ancestors[QC[x]] /\ F \in Ancestors[x]
    BY <1>0, <1>5, AncestorsBelow, AncestorsBasic
  <2>2. QC[x] \in Block /\ View[QC[x]] \in Nat /\ View[QC[x]] < View[x]
    BY <2>1, BlockFacts
  <2>3. View[f] <= View[QC[x]]
    BY <1>0, <2>1, <2>2, AncestorsBelow
  <2> QED BY <2>1, <2>2, <2>3
<1>6. ASSUME NEW x \in D, x # f PROVE QC[x] \in s.forks /\ QC[x] \in D
  <2>0. x \in Block /\ View[x] \in Nat /\ f \in Ancestors[x]
    BY <1>0, BlockFacts
  <2>1. /\ View[f] < View[x] /\ View[f] <= View[QC[x]] /\ View[QC[x]] \in Nat
        /\ F \in Ancestors[x] /\ f \in Ancestors[QC[x]]
    BY <1>5, <1>6, <2>0
  <2>2. View[F] < View[x] /\ View[F] <= View[QC[x]]
    BY <1>0, <2>0, <2>1
  <2>3. QC[x] \in s.forks
    <3>1. CASE x \in s.stored
      BY <2>1, <2>2, <3>1 DEF ForestComplete
    <3>2. CASE x = b
      <4>1. ~ (View[b] <= View[F]) /\ ~ (View[QC[b]] < View[F])
        BY <1>0, <1>1, <2>2, <3>2
      <4> QED BY <3>2, <4>1 DEF KnownParent
    <3> QED BY <3>1, <3>2
  <2> QED BY <1>0, <2>1, <2>3
<1>7. \A x \in D : x \in Block /\ View[x] \in Nat /\ View[x] >= View[f]
  <2> SUFFICES ASSUME NEW x \in D PROVE x \in Block /\ View[x] \in Nat /\ View[x] >= View[f]
    OBVIOUS
  <2>1. x \in Block /\ View[x] \in Nat
    BY <1>0, BlockFacts
  <2>2. x = f \/ View[f] < View[x]
    BY <2>1, AncestorsBelow
  <2> QED BY <1>0, <2>1, <2>2
<1>8. f \in D
  BY <1>0
<1>9. ASSUME t.stored = w.stored, t.finalized \in D, t \in Node,
             t.forks = {x \in D : View[x] >= View[t.finalized]}
      PROVE  ForestComplete(t, C)
  <2>1. D = {x \in t.stored : f \in Ancestors[x]}
    BY <1>9
  <2>2. \A x \in D : x # f => QC[x] \in D
    BY <1>6
  <2> HIDE DEF D
  <2> QED BY <1>0, <1>4, <1>9, <2>1, <2>2, ForestFromDescendants
<1>10. CASE f \notin Ancestors[b]
  <2>1. t = u
    BY <1>3, <1>10
  <2>2. t.forks = D
    BY <1>0, <1>2, <1>10, <2>1
  <2>3. t.forks = {x \in D : View[x] >= View[t.finalized]}
    <3> HIDE DEF D
    <3> QED BY <1>2, <1>7, <2>1, <2>2
  <2>4. ~ (/\ QC[b] \in s.forks /\ QC[b] # Root
           /\ f \in Ancestors[QC[QC[b]]])
    <3> SUFFICES ASSUME QC[b] # Root, f \in Ancestors[QC[QC[b]]] PROVE FALSE
      OBVIOUS
    <3>1. f \in Ancestors[QC[b]]
      BY <1>1, BlockFacts
    <3> QED BY <1>1, <1>10, <3>1, BlockFacts
  <2> QED BY <1>0, <1>2, <1>8, <1>9, <2>1, <2>3, <2>4 DEF Reincorporated
<1>11. CASE f \in Ancestors[b]
  <2>1. b \in D /\ t = AddProposal(u, b)
    BY <1>3, <1>11
  <2>2. b = f \/ QC[b] \in u.forks
    <3> SUFFICES ASSUME b # f PROVE QC[b] \in u.forks
      OBVIOUS
    <3>1. QC[b] \in D
      BY <1>6, <2>1
    <3> QED BY <1>1, <1>2, <3>1
  <2>3. \A x \in u.forks : x # Root => QC[x] \in C.qcs
    BY <1>0, <1>2, <1>4 DEF ValidBlock
  <2>4. ASSUME QC[b] \in u.forks, View[f] < View[QC[b]], View[f] <= View[QC[QC[b]]]
        PROVE  /\ QC[QC[b]] \in u.forks /\ f \in Ancestors[QC[QC[b]]]
               /\ QC[QC[b]] \in D /\ QC[b] # Root
    <3>1. QC[b] \in D /\ QC[b] # f
      BY <1>0, <1>2, <1>8, <2>4
    <3>2. QC[QC[b]] \in D /\ QC[b] # Root
      BY <1>1, <1>5, <1>6, <3>1
    <3>3. QC[QC[b]] # b
      <4>1. View[QC[QC[b]]] < View[QC[b]] /\ View[QC[QC[b]]] \in Nat
        BY <1>1, <3>2, BlockFacts
      <4> QED BY <1>1, <4>1
    <3> QED BY <1>2, <3>2, <3>3
  <2>5. AddedTo(u, t, b)
    <3>1. QC[b] \in u.forks /\ View[u.finalized] < View[QC[b]]
                           /\ View[u.finalized] <= View[QC[QC[b]]]
             => QC[QC[b]] \in u.forks /\ u.finalized \in Ancestors[QC[QC[b]]]
      BY <1>2, <2>4
    <3>2. \/ View[b] <= View[u.finalized]
          \/ View[QC[b]] < View[u.finalized]
          \/ QC[b] \in u.forks
      BY <1>0, <1>2, <2>2
    <3> QED BY <1>1, <1>2, <2>1, <2>3, <3>1, <3>2, AddProposalEffect
  <2>6. /\ t \in Node /\ t.fatal = FALSE /\ t.stored = w.stored
        /\ SameLiveness(w, t) /\ SameSafety(w, t) /\ SameControl(w, t)
    BY <1>2, <2>5 DEF AddedTo, SameLiveness, SameSafety, SameControl
  <2>7. \A x : x \in u.forks \/ x = b <=> x \in D
    BY <1>0, <1>2, <2>1
  <2> HIDE DEF D
  <2>8. CASE (View[b] < View[f] \/ b \in u.forks) /\ t.finalized = f /\ t.forks = u.forks
    <3>1. b = f
      BY <1>0, <1>2, <1>7, <2>1, <2>8
    <3>2. t.forks = {x \in D : View[x] >= View[t.finalized]}
      BY <1>2, <1>7, <2>7, <2>8, <3>1
    <3>3. ~ (QC[b] # Root /\ f \in Ancestors[QC[QC[b]]])
      <4> SUFFICES ASSUME QC[b] # Root, f \in Ancestors[QC[QC[b]]] PROVE FALSE
        OBVIOUS
      <4>1. QC[QC[b]] \in Block /\ View[QC[QC[b]]] \in Nat /\ View[QC[QC[b]]] < View[QC[b]]
        BY <1>1, BlockFacts
      <4>2. View[f] <= View[QC[QC[b]]]
        BY <1>0, <4>1, AncestorsBelow
      <4> QED BY <1>0, <1>1, <3>1, <4>1, <4>2
    <3> QED BY <1>0, <1>8, <1>9, <2>6, <2>8, <3>2, <3>3 DEF Reincorporated
  <2>9. CASE b \notin u.forks /\ ~ DirectTwoChain(u, b) /\ t.finalized = f /\ t.forks = u.forks \cup {b}
    <3>1. t.forks = {x \in D : View[x] >= View[t.finalized]}
      BY <1>7, <2>7, <2>9
    <3>2. ~ (/\ QC[b] \in s.forks /\ QC[b] # Root
             /\ f \in Ancestors[QC[QC[b]]] /\ View[QC[b]] = View[QC[QC[b]]] + 1)
      <4> SUFFICES ASSUME QC[b] \in s.forks, QC[b] # Root, f \in Ancestors[QC[QC[b]]],
                          View[QC[b]] = View[QC[QC[b]]] + 1
                   PROVE  DirectTwoChain(u, b)
        BY <2>9
      <4>1. QC[QC[b]] \in Block /\ View[QC[QC[b]]] \in Nat /\ View[QC[QC[b]]] < View[QC[b]]
        BY <1>1, BlockFacts
      <4>2. View[f] <= View[QC[QC[b]]]
        BY <1>0, <4>1, AncestorsBelow
      <4>3. b # f
        BY <1>0, <1>1, <4>1, <4>2
      <4>4. View[f] < View[QC[b]] /\ View[f] < View[b] /\ QC[b] \in u.forks
        BY <1>0, <1>1, <2>2, <4>1, <4>2, <4>3
      <4> QED BY <1>2, <4>2, <4>4 DEF DirectTwoChain
    <3> QED BY <1>0, <1>8, <1>9, <2>6, <2>9, <3>1, <3>2 DEF Reincorporated
  <2>10. CASE /\ DirectTwoChain(u, b) /\ t.finalized = QC[QC[b]]
              /\ t.forks = {c \in u.forks \cup {b} : View[c] >= View[QC[QC[b]]]}
    <3> DEFINE g == QC[QC[b]]
    <3>1. /\ QC[b] \in u.forks /\ View[f] < View[QC[b]] /\ View[f] <= View[g]
          /\ View[QC[b]] = View[g] + 1
      BY <1>2, <2>10 DEF DirectTwoChain
    <3>2. g \in D /\ f \in Ancestors[g] /\ QC[b] # Root
      BY <2>4, <3>1
    <3>3. Finalizes(QC[b], g, C)
      BY <1>1, <3>1, <3>2 DEF Finalizes
    <3>4. t.forks = {x \in D : View[x] >= View[t.finalized]}
      BY <2>7, <2>10
    <3>5. b \in t.forks
      <4>1. View[g] \in Nat /\ View[g] < View[QC[b]]
        BY <1>1, <3>2, BlockFacts
      <4>2. View[b] >= View[g]
        BY <1>1, <4>1
      <4> QED BY <2>1, <2>10, <3>4, <4>2
    <3> QED BY <1>9, <2>6, <2>10, <3>2, <3>3, <3>4, <3>5 DEF Reincorporated
  <2> QED BY <1>2, <2>5, <2>8, <2>9, <2>10 DEF AddedTo
<1> QED BY <1>10, <1>11

\* The last part of Recover: Start will visit the blocks from the view on.
Unstarted(u) ==
    [u EXCEPT !.started = FALSE, !.pending = {b \in u.forks \ {Root} : View[b] >= u.curView}]

\* Start will visit the blocks of Forks from the current view on.
LEMMA UnstartedEffect ==
    ASSUME NEW u \in Node, NEW t, t = Unstarted(u)
    PROVE  /\ t \in Node /\ t.fatal = u.fatal
           /\ SameLiveness(u, t) /\ SameSafety(u, t) /\ SameForks(u, t)
           /\ t.started = FALSE
           /\ t.pending = {b \in u.forks \ {Root} : View[b] >= u.curView}
<1> DEFINE P == {b \in u.forks \ {Root} : View[b] >= u.curView}
           t1 == [u EXCEPT !.started = FALSE]
           t2 == [t1 EXCEPT !.pending = P]
<1>1. t = [u EXCEPT !.started = FALSE, !.pending = P]
  BY DEF Unstarted
<1>2. P \in SUBSET Block
  BY NodeFields
<1>3. t = t2
  BY <1>1, Zenon
<1> HIDE DEF P
<1>4. /\ t1 \in Node /\ t1.fatal = u.fatal /\ t1.started = FALSE
      /\ SameLiveness(u, t1) /\ SameSafety(u, t1) /\ SameForks(u, t1)
  BY DEF Node, SameLiveness, SameSafety, SameForks
<1> HIDE DEF t1
<1>5. /\ t2 \in Node /\ t2.fatal = u.fatal /\ t2.started = FALSE /\ t2.pending = P
      /\ SameLiveness(u, t2) /\ SameSafety(u, t2) /\ SameForks(u, t2)
  BY <1>2, <1>4 DEF Node, SameLiveness, SameSafety, SameForks
<1> QED BY <1>3, <1>5 DEF P

\* What every step of the replica keeps: nothing finalized is given up and the
\* view does not go back.
Forward(s, t) ==
    s.finalized \in Ancestors[t.finalized] /\ s.curView <= t.curView

\* The invariant is kept by a restart between two events.
LEMMA CrashIdleStep ==
    ASSUME NEW C \in Certificates, NEW r, NEW s, Sound(s, r, C), FinalizedBelowView(s, C),
           NEW t, t = Recover(s, Root)
    PROVE  Sound(t, r, C) /\ FinalizedBelowView(t, C) /\ Forward(s, t) /\ SameSafety(s, t)
<1> DEFINE u == RecoverForks(s, Root)
<1>0. s \in Node /\ s.fatal = FALSE /\ ForestComplete(s, C) /\ s.pending \subseteq s.forks \ {Root}
  BY DEF Sound, PendingInForks
<1>1. /\ u \in Node /\ u.fatal = FALSE
      /\ SameLiveness(s, u) /\ SameSafety(s, u) /\ SameControl(s, u)
      /\ u.stored = s.stored /\ u.finalized = s.finalized
      /\ ForestComplete(u, C)
  BY <1>0, RecoverForksIdle
<1>a. t = Unstarted(u)
  BY DEF Recover, Unstarted
<1> HIDE DEF u
<1>2. /\ t \in Node /\ t.fatal = u.fatal
      /\ SameLiveness(u, t) /\ SameSafety(u, t) /\ SameForks(u, t)
      /\ t.started = FALSE
      /\ t.pending = {b \in u.forks \ {Root} : View[b] >= u.curView}
  BY <1>1, <1>a, UnstartedEffect
<1>3. /\ t.fatal = FALSE
      /\ SameLiveness(s, t) /\ SameSafety(s, t)
      /\ t.stored = s.stored /\ t.finalized = s.finalized /\ t.forks = u.forks
      /\ t.pending = {b \in t.forks \ {Root} : View[b] >= t.curView}
  BY <1>1, <1>2 DEF SameLiveness, SameSafety, SameForks
<1>4. ForestComplete(t, C)
  BY <1>1, <1>3 DEF ForestComplete
<1>5. Sound(t, r, C)
  <2>1. EnteredLegitimately(t, C) /\ SafetyDataBehind(t) /\ SignaturesRecorded(t, r)
    BY <1>3 DEF Sound, EnteredLegitimately, SafetyDataBehind, SignaturesRecorded, SameLiveness, SameSafety
  <2>2. PendingInForks(t)
    BY <1>2, <1>3 DEF PendingInForks
  <2> QED BY <1>2, <1>3, <1>4, <2>1, <2>2 DEF Sound
<1>6. FinalizedBelowView(t, C)
  <2>1. CASE s.finalized = Root
    BY <1>3, <2>1 DEF FinalizedBelowView
  <2>2. ASSUME NEW d \in Block, Finalizes(d, s.finalized, C), View[d] < s.curView
        PROVE  FinalizedBelowView(t, C)
    BY <1>3, <2>2 DEF FinalizedBelowView, SameLiveness
  <2>3. ASSUME NEW d \in Block, Finalizes(d, s.finalized, C), ~ (View[d] < s.curView),
               NEW b \in s.pending, QC[b] = d
        PROVE  FinalizedBelowView(t, C)
    <3>1. b \in s.forks /\ b # Root /\ b \in Block /\ b \in t.stored
      BY <1>0, <1>3, NodeFields DEF ForestComplete
    <3>2. /\ View[b] \in Nat /\ View[d] \in Nat /\ View[d] < View[b]
          /\ Ancestors[b] = {b} \cup Ancestors[d]
      BY <2>3, <3>1, BlockFacts
    <3>3. d # Root /\ QC[d] = s.finalized
      BY <2>3 DEF Finalizes
    <3>4. s.finalized \in Ancestors[d]
      BY <1>0, <3>3, BlockFacts, AncestorsBasic, NodeFields
    <3>5. b \in t.forks
      BY <1>3, <1>4, <3>1, <3>2, <3>4 DEF ForestComplete
    <3>6. View[b] >= t.curView
      <4>1. t.curView = s.curView /\ s.curView \in Nat
        BY <1>0, <1>3, NodeFields DEF SameLiveness
      <4> QED BY <2>3, <3>2, <4>1
    <3>7. b \in t.pending
      BY <1>3, <3>1, <3>5, <3>6
    <3> QED BY <1>3, <2>3, <3>7 DEF FinalizedBelowView
  <2> QED BY <2>1, <2>2, <2>3 DEF FinalizedBelowView
<1>7. Forward(s, t)
  BY <1>0, <1>3, NodeFields, AncestorsBasic DEF Forward, SameLiveness
<1> QED BY <1>3, <1>5, <1>6, <1>7

\* The invariant is kept by a step of the PaceMaker.
LEMMA AdvanceSound ==
    ASSUME NEW C \in Certificates, NEW r, NEW s, NEW t, Sound(s, r, C), Advances(s, t, C)
    PROVE  /\ Sound(t, r, C) /\ Forward(s, t)
           /\ FinalizedBelowView(s, C) => FinalizedBelowView(t, C)
<1>0. s \in Node /\ t \in Node /\ t.fatal = FALSE
  BY DEF Sound, Advances
<1>1. /\ s.curView \in Nat /\ t.curView \in Nat /\ s.curView <= t.curView
      /\ View[s.newestQC] \in Nat /\ View[t.newestQC] \in Nat
      /\ View[s.newestQC] <= View[t.newestQC]
      /\ s.lockedOneChainView \in Nat /\ s.highestAcknowledgedView \in Nat
      /\ s.signed \subseteq Block /\ s.finalized \in Block
  BY <1>0, NodeFields DEF Advances
<1>2. SafetyDataBehind(t)
  <2>1. /\ t.lockedOneChainView = s.lockedOneChainView
        /\ t.highestAcknowledgedView = s.highestAcknowledgedView
        /\ s.lockedOneChainView <= View[s.newestQC] /\ s.highestAcknowledgedView <= s.curView
    BY DEF Sound, SafetyDataBehind, Advances, SameSafety
  <2>2. \A b \in t.signed : View[QC[b]] <= View[t.newestQC]
    <3>1. \A b \in t.signed : /\ b \in Block /\ b # Root
                              /\ View[QC[b]] <= View[s.newestQC]
      BY <1>1 DEF Sound, SafetyDataBehind, SignaturesRecorded, Advances, SameSafety
    <3>2. \A b \in t.signed : View[QC[b]] \in Nat
      BY <3>1, BlockFacts
    <3> QED BY <1>1, <3>1, <3>2
  <2> QED BY <1>1, <2>1, <2>2 DEF SafetyDataBehind
<1>3. SignaturesRecorded(t, r)
  <2>1. \A b \in t.signed : b # Root /\ View[b] <= t.curView
    <3>1. t.signed = s.signed /\ \A b \in s.signed : b # Root /\ View[b] <= s.curView /\ View[b] \in Nat
      BY <1>1, BlockFacts DEF Sound, SignaturesRecorded, Advances, SameSafety
    <3> QED BY <1>1, <3>1
  <2> QED BY <2>1 DEF Sound, SignaturesRecorded, Advances, SameSafety, SameForks
<1>4. ForestComplete(t, C)
  BY DEF Sound, ForestComplete, Advances, SameForks
<1>5. PendingInForks(t)
  BY DEF Sound, PendingInForks, Advances, SameForks, SameControl
<1>6. Sound(t, r, C)
  BY <1>0, <1>2, <1>3, <1>4, <1>5 DEF Sound, Advances
<1>7. Forward(s, t)
  BY <1>1, AncestorsBasic DEF Forward, Advances, SameForks
<1>8. ASSUME FinalizedBelowView(s, C) PROVE FinalizedBelowView(t, C)
  <2>1. t.finalized = s.finalized /\ t.pending = s.pending
    BY DEF Advances, SameForks, SameControl
  <2>2. \A d \in Block : View[d] < s.curView => View[d] < t.curView
    BY <1>1, BlockFacts
  <2> QED BY <1>8, <2>1, <2>2 DEF FinalizedBelowView
<1> QED BY <1>6, <1>7, <1>8

-----------------------------------------------------------------------------
(***************************************************************************)
(* The event handler.                                                      *)
(***************************************************************************)

\* What holds between two events once the replica has started.
Running(s, r, C) == Sound(s, r, C) /\ FinalizedBelowView(s, C) /\ s.started

\* The finalized block has a certified direct child, below the view.
LEMMA RunningJustified ==
    ASSUME NEW C, NEW r, NEW s, Running(s, r, C)
    PROVE  /\ Justified(s, C) /\ s \in Node /\ s.pending = {}
           /\ s.finalized = Root \/
              \E d \in Block : Finalizes(d, s.finalized, C) /\ View[d] < s.curView
<1>1. s.pending = {} /\ s \in Node
  BY DEF Running, Sound, PendingInForks
<1> QED BY <1>1 DEF Running, FinalizedBelowView, Justified

\* Forward steps compose.
LEMMA ForwardTransitive ==
    ASSUME NEW s \in Node, NEW t \in Node, NEW u \in Node, Forward(s, t), Forward(t, u)
    PROVE  Forward(s, u)
<1>1. {s.curView, t.curView, u.curView} \subseteq Nat /\ u.finalized \in Block
  BY NodeFields
<1>2. s.finalized \in Ancestors[u.finalized]
  BY <1>1, AncestorsBelow DEF Forward
<1> QED BY <1>1, <1>2 DEF Forward

\* A valid block of the current view or a later one descends from the finalized
\* block, and its parent does.
LEMMA AboveView ==
    ASSUME NEW C \in Certificates, NEW r, NEW s, Running(s, r, C),
           NEW b \in Block, ValidBlock(b, C), s.curView <= View[b]
    PROVE  /\ View[s.finalized] < View[b] /\ View[s.finalized] <= View[QC[b]]
           /\ s.finalized \in Ancestors[b]
<1>0. /\ b # Root /\ s \in Node /\ View[b] \in Nat /\ QC[b] \in Block /\ View[QC[b]] \in Nat
      /\ View[QC[b]] < View[b]
  <2>1. b # Root /\ s \in Node
    BY DEF ValidBlock, Running, Sound
  <2> QED BY <2>1, BlockFacts
<1>1. s.curView \in Nat /\ View[s.finalized] \in Nat /\ s.finalized \in Block
  BY <1>0, NodeFields
<1>2. View[s.finalized] <= View[QC[b]] /\ s.finalized \in Ancestors[b]
  <2>1. CASE s.finalized = Root
    BY <1>0, <2>1, AncestorsBasic
  <2>2. ASSUME NEW d \in Block, Finalizes(d, s.finalized, C), View[d] < s.curView
        PROVE  View[s.finalized] <= View[QC[b]] /\ s.finalized \in Ancestors[b]
    <3>1. View[d] \in Nat
      BY BlockFacts
    <3>2. View[d] < View[b]
      BY <1>0, <1>1, <2>2, <3>1
    <3> QED BY <1>1, <2>2, <3>2, ValidDescends
  <2> QED BY <2>1, <2>2, RunningJustified
<1>3. View[s.finalized] < View[b]
  BY <1>0, <1>1, <1>2
<1> QED BY <1>2, <1>3

\* Forks incorporates a proposal; the PaceMaker and SafetyRules are not touched.
LEMMA IncorporatedStep ==
    ASSUME NEW C \in Certificates, NEW r, NEW s, Running(s, r, C),
           NEW b \in Block, ValidBlock(b, C), KnownParent(s, b),
           NEW t, t = Incorporated(s, b)
    PROVE  /\ Sound(t, r, C) /\ Forward(s, t) /\ t.started /\ b \in t.stored
           /\ SameLiveness(s, t) /\ SameSafety(s, t)
           /\ t.finalized = s.finalized \/ Finalizes(QC[b], t.finalized, C)
           /\ QC[b] \in s.forks => QC[b] \in t.forks
           /\ AddedTo(Store(s, b), t, b)
<1> DEFINE u == Store(s, b)
<1>0. /\ s \in Node /\ s.fatal = FALSE /\ ForestComplete(s, C) /\ Justified(s, C)
      /\ s.pending = {} /\ s.started
  BY RunningJustified DEF Running, Sound
<1>1. /\ u \in Node /\ u.fatal = FALSE
      /\ SameLiveness(s, u) /\ SameSafety(s, u) /\ SameControl(s, u)
      /\ u.stored = s.stored \cup {b} /\ u.finalized = s.finalized /\ u.forks = s.forks
  BY <1>0, StoreEffect
<1>2. t = AddProposal(u, b)
  BY DEF Incorporated
<1> HIDE DEF u
<1>3. \/ View[b] <= View[s.finalized]
      \/ View[QC[b]] < View[s.finalized]
      \/ QC[b] \in s.forks
  BY DEF KnownParent
<1>4. /\ AddedTo(u, t, b) /\ ForestComplete(t, C)
      /\ s.finalized \in Ancestors[t.finalized]
      /\ t.finalized = s.finalized \/ Finalizes(QC[b], t.finalized, C)
      /\ QC[b] \in s.forks => QC[b] \in t.forks
  BY <1>0, <1>1, <1>2, <1>3, IncorporateStep
<1>5. /\ t \in Node /\ t.fatal = FALSE /\ SameLiveness(s, t) /\ SameSafety(s, t)
      /\ t.stored = s.stored \cup {b} /\ t.started /\ t.pending = {}
  BY <1>0, <1>1, <1>4 DEF AddedTo, SameLiveness, SameSafety, SameControl
<1>6. EnteredLegitimately(t, C) /\ SafetyDataBehind(t)
  BY <1>5 DEF Running, Sound, EnteredLegitimately, SafetyDataBehind, SameLiveness, SameSafety
<1>7. SignaturesRecorded(t, r)
  BY <1>5 DEF Running, Sound, SignaturesRecorded, SameLiveness, SameSafety
<1>8. Sound(t, r, C)
  BY <1>4, <1>5, <1>6, <1>7 DEF Sound, PendingInForks
<1>9. Forward(s, t)
  BY <1>0, <1>4, <1>5, NodeFields DEF Forward, SameLiveness
<1> QED BY <1>4, <1>5, <1>8, <1>9 DEF u

\* The certificates in a proposal are those of the environment.
LEMMA ProposalCertificates ==
    ASSUME NEW C, NEW b \in Block, ValidBlock(b, C)
    PROVE  /\ b # Root /\ QC[b] \in C.qcs /\ LastViewTC[b] \in TimeoutCertificate \cup {NoTC}
           /\ LastViewTC[b] # NoTC => LastViewTC[b] \in C.tcs
BY BlockFacts DEF ValidBlock

\* After its certificates are processed, the view is above what b finalizes.
LEMMA ProposalProcessed ==
    ASSUME NEW C \in Certificates, NEW r, NEW s, Running(s, r, C),
           NEW b \in Block, ValidBlock(b, C), KnownParent(s, b),
           NEW t \in {QCProcessed(s, b), TCProcessed(s, b)}
    PROVE  /\ Running(t, r, C) /\ Forward(s, t) /\ b \in t.stored /\ SameSafety(s, t)
           /\ View[QC[b]] <= View[t.newestQC]
           /\ QC[b] \in s.forks => QC[b] \in t.forks
<1> DEFINE u == Incorporated(s, b)
           v == QCProcessed(s, b)
           z == TCProcessed(s, b)
<1>0. s \in Node /\ QC[b] \in C.qcs /\ QC[b] \in Block /\ View[QC[b]] \in Nat
  BY BlockFacts, ProposalCertificates DEF Running, Sound
<1>1. /\ Sound(u, r, C) /\ Forward(s, u) /\ u.started /\ b \in u.stored
      /\ SameLiveness(s, u) /\ SameSafety(s, u)
      /\ u.finalized = s.finalized \/ Finalizes(QC[b], u.finalized, C)
      /\ QC[b] \in s.forks => QC[b] \in u.forks
  BY IncorporatedStep
<1>2. u \in Node /\ u.fatal = FALSE /\ EnteredLegitimately(u, C)
  BY <1>1 DEF Sound
<1>3. v = ProcessQC(u, QC[b])
  BY <1>2 DEF QCProcessed
<1> HIDE DEF u
<1>4. Advances(u, v, C) /\ View[QC[b]] < v.curView /\ View[QC[b]] <= View[v.newestQC]
  BY <1>0, <1>2, <1>3, ProcessQCStep
<1>5. v \in Node /\ v.fatal = FALSE /\ EnteredLegitimately(v, C)
  BY <1>2, <1>4 DEF Advances
<1>6. z = ProcessTC(v, LastViewTC[b])
  BY <1>5 DEF TCProcessed
<1> HIDE DEF v, z
<1>7. Advances(v, z, C)
  <2> DEFINE tc == LastViewTC[b]
  <2>1. tc \in TimeoutCertificate \cup {NoTC} /\ (tc # NoTC => tc \in C.tcs) /\ z = ProcessTC(v, tc)
    BY <1>6, ProposalCertificates
  <2> HIDE DEF tc
  <2> QED BY <1>5, <2>1, ProcessTCStep
<1>8. Sound(v, r, C) /\ Forward(u, v)
  BY <1>1, <1>4, AdvanceSound
<1>9. FinalizedBelowView(v, C)
  <2>1. v.finalized = u.finalized /\ u.curView <= v.curView /\ u.curView = s.curView
    BY <1>1, <1>4 DEF Advances, SameForks, SameLiveness
  <2>2. CASE Finalizes(QC[b], u.finalized, C)
    BY <1>0, <1>4, <2>1, <2>2 DEF FinalizedBelowView
  <2>3. CASE u.finalized = s.finalized
    <3>1. s.curView \in Nat /\ v.curView \in Nat
      BY <1>0, <1>5, NodeFields
    <3>2. \A d \in Block : View[d] < s.curView => View[d] < v.curView
      BY <2>1, <3>1, BlockFacts
    <3> QED BY <2>1, <2>3, <3>2, RunningJustified DEF FinalizedBelowView
  <2> QED BY <1>1, <2>2, <2>3
<1>10. Sound(z, r, C) /\ Forward(v, z) /\ FinalizedBelowView(z, C) /\ z \in Node
  BY <1>7, <1>8, <1>9, AdvanceSound DEF Sound
<1>11. /\ v.started /\ b \in v.stored /\ SameSafety(s, v)
       /\ QC[b] \in s.forks => QC[b] \in v.forks
  BY <1>1, <1>4 DEF Advances, SameForks, SameControl, SameSafety
<1>12. /\ z.started /\ b \in z.stored /\ SameSafety(s, z)
       /\ QC[b] \in s.forks => QC[b] \in z.forks
  BY <1>7, <1>11 DEF Advances, SameForks, SameControl, SameSafety
<1>13. View[QC[b]] <= View[z.newestQC]
  <2>1. View[v.newestQC] \in Nat /\ View[z.newestQC] \in Nat /\ View[v.newestQC] <= View[z.newestQC]
    BY <1>5, <1>7, <1>10, NodeFields DEF Advances
  <2> QED BY <1>0, <1>4, <2>1
<1>14. Forward(s, v) /\ Forward(s, z)
  BY <1>0, <1>1, <1>2, <1>5, <1>8, <1>10, ForwardTransitive
<1>15. t = v \/ t = z
  BY DEF v, z
<1> QED BY <1>4, <1>8, <1>9, <1>10, <1>11, <1>12, <1>13, <1>14, <1>15 DEF Running

\* The record of safety data after a vote.
Voted(s, b) ==
    [s EXCEPT !.highestAcknowledgedView = View[b],
              !.lockedOneChainView = IF @ < View[QC[b]] THEN View[QC[b]] ELSE @,
              !.signed = @ \cup {b}]

\* A vote changes the safety data and nothing else.
LEMMA VotedEffect ==
    ASSUME NEW s \in Node, NEW b \in Block, b # Root, NEW t, t = Voted(s, b)
    PROVE  /\ t \in Node /\ t.fatal = s.fatal
           /\ SameLiveness(s, t) /\ SameForks(s, t) /\ SameControl(s, t)
           /\ t.highestAcknowledgedView = View[b]
           /\ t.lockedOneChainView = IF s.lockedOneChainView < View[QC[b]] THEN View[QC[b]]
                                     ELSE s.lockedOneChainView
           /\ t.signed = s.signed \cup {b} /\ t.lastTimeout = s.lastTimeout
<1> DEFINE lock == IF s.lockedOneChainView < View[QC[b]] THEN View[QC[b]] ELSE s.lockedOneChainView
           all == s.signed \cup {b}
           t1 == [s EXCEPT !.highestAcknowledgedView = View[b]]
           t2 == [t1 EXCEPT !.lockedOneChainView = lock]
           t3 == [t2 EXCEPT !.signed = all]
<1>1. t = [s EXCEPT !.highestAcknowledgedView = View[b], !.lockedOneChainView = lock, !.signed = all]
  BY DEF Voted
<1>2. /\ View[b] \in Nat /\ lock \in Nat
      /\ all \in SUBSET Block
  BY NodeFields, BlockFacts
<1>3. t = t3
  BY <1>1, Zenon
<1> HIDE DEF lock, all
<1>4. /\ t1 \in Node /\ t1.fatal = s.fatal /\ t1.highestAcknowledgedView = View[b]
      /\ SameLiveness(s, t1) /\ SameForks(s, t1) /\ SameControl(s, t1)
      /\ t1.lastTimeout = s.lastTimeout
  BY <1>2 DEF Node, SameLiveness, SameForks, SameControl
<1> HIDE DEF t1
<1>5. /\ t2 \in Node /\ t2.fatal = s.fatal /\ t2.highestAcknowledgedView = View[b]
      /\ t2.lockedOneChainView = lock
      /\ SameLiveness(s, t2) /\ SameForks(s, t2) /\ SameControl(s, t2)
      /\ t2.lastTimeout = s.lastTimeout
  BY <1>2, <1>4 DEF Node, SameLiveness, SameForks, SameControl
<1> HIDE DEF t2
<1>6. /\ t3 \in Node /\ t3.fatal = s.fatal /\ t3.highestAcknowledgedView = View[b]
      /\ t3.lockedOneChainView = lock /\ t3.signed = all
      /\ SameLiveness(s, t3) /\ SameForks(s, t3) /\ SameControl(s, t3)
      /\ t3.lastTimeout = s.lastTimeout
  BY <1>2, <1>5 DEF Node, SameLiveness, SameForks, SameControl
<1> QED BY <1>2, <1>3, <1>6 DEF all, lock

\* A vote for a block of the current view, or none.
LEMMA VoteStep ==
    ASSUME NEW C \in Certificates, NEW r, NEW s, Running(s, r, C),
           NEW b \in Block, ValidBlock(b, C), b \in s.stored,
           View[QC[b]] <= View[s.newestQC],
           View[b] = s.curView => QC[b] \in s.forks,
           Leader[View[b]] = r => b \in s.signed,
           NEW t, t = ProcessBlockForCurrentView(s, b)
    PROVE  Running(t, r, C) /\ Forward(s, t) /\ (SameSafety(s, t) \/ VotesFor(s, t, b))
<1>0. /\ s \in Node /\ s.fatal = FALSE /\ b # Root /\ View[b] \in Nat /\ QC[b] \in Block
      /\ View[QC[b]] \in Nat
      /\ ValidateEvidenceForEnteringView(View[b], QC[b], LastViewTC[b])
  <2>1. b # Root /\ ValidateEvidenceForEnteringView(View[b], QC[b], LastViewTC[b])
    BY DEF ValidBlock
  <2> QED BY <2>1, BlockFacts DEF Running, Sound
<1>1. /\ s.curView \in Nat /\ s.highestAcknowledgedView \in Nat /\ s.lockedOneChainView \in Nat
      /\ View[s.newestQC] \in Nat /\ s.finalized \in Block /\ s.signed \subseteq Block
  BY <1>0, NodeFields
<1>2. s.highestAcknowledgedView <= s.curView /\ s.lockedOneChainView <= View[s.newestQC]
  BY DEF Running, Sound, SafetyDataBehind
<1>3. CASE t = s
  BY <1>1, <1>3, AncestorsBasic DEF Forward, SameSafety
<1>4. CASE View[b] = s.curView /\ s.highestAcknowledgedView < View[b] /\ t = Voted(s, b)
  <2>1. /\ t \in Node /\ t.fatal = FALSE
        /\ SameLiveness(s, t) /\ SameForks(s, t) /\ SameControl(s, t)
        /\ t.highestAcknowledgedView = View[b]
        /\ t.lockedOneChainView = IF s.lockedOneChainView < View[QC[b]] THEN View[QC[b]]
                                  ELSE s.lockedOneChainView
        /\ t.signed = s.signed \cup {b} /\ t.lastTimeout = s.lastTimeout
    BY <1>0, <1>4, VotedEffect
  <2>2. ASSUME NEW c \in s.signed, View[c] = View[b] PROVE c = b
    <3>1. CASE Leader[View[b]] = r
      BY <2>2, <3>1 DEF Running, Sound, SignaturesRecorded
    <3>2. CASE Leader[View[b]] # r
      <4>1. View[c] <= s.highestAcknowledgedView
        BY <2>2, <3>2 DEF Running, Sound, SignaturesRecorded
      <4> QED BY <1>0, <1>1, <1>4, <2>2, <4>1
    <3> QED BY <3>1, <3>2
  <2>3. SignaturesRecorded(t, r)
    <3>1. \A c \in s.signed : View[c] \in Nat /\ c \in s.stored /\ c # Root /\ View[c] <= s.curView
      BY <1>1, BlockFacts DEF Running, Sound, SignaturesRecorded
    <3>2. t.signed \subseteq t.stored
      BY <2>1, <3>1 DEF SameForks
    <3>3. \A c \in t.signed : c # Root /\ View[c] <= t.curView
      BY <1>0, <1>1, <1>4, <2>1, <3>1 DEF SameLiveness
    <3>4. \A c, e \in t.signed : View[c] = View[e] => c = e
      BY <2>1, <2>2 DEF Running, Sound, SignaturesRecorded
    <3>5. \A c \in t.signed : Leader[View[c]] # r => View[c] <= t.highestAcknowledgedView
      BY <1>0, <1>1, <1>4, <2>1, <3>1
    <3> QED BY <3>2, <3>3, <3>4, <3>5 DEF SignaturesRecorded
  <2>4. SafetyDataBehind(t)
    <3>1. t.curView = s.curView /\ t.newestQC = s.newestQC
      BY <2>1 DEF SameLiveness
    <3>2. \A c \in t.signed : View[QC[c]] <= View[s.newestQC]
      BY <2>1 DEF Running, Sound, SafetyDataBehind
    <3> QED BY <1>0, <1>1, <1>2, <1>4, <2>1, <3>1, <3>2 DEF SafetyDataBehind
  <2>5. EnteredLegitimately(t, C)
    BY <2>1 DEF Running, Sound, EnteredLegitimately, SameLiveness
  <2>6. ForestComplete(t, C)
    BY <2>1 DEF Running, Sound, ForestComplete, SameForks
  <2>7. PendingInForks(t) /\ t.started
    BY <2>1 DEF Running, Sound, PendingInForks, SameForks, SameControl
  <2>8. FinalizedBelowView(t, C)
    BY <2>1 DEF Running, FinalizedBelowView, SameLiveness, SameForks, SameControl
  <2>9. Forward(s, t)
    BY <1>1, <2>1, AncestorsBasic DEF Forward, SameLiveness, SameForks
  <2>10. VotesFor(s, t, b)
    BY <1>4, <2>1 DEF VotesFor, SameLiveness
  <2> QED BY <2>1, <2>3, <2>4, <2>5, <2>6, <2>7, <2>8, <2>9, <2>10 DEF Running, Sound
<1>5. t = s \/ (View[b] = s.curView /\ s.highestAcknowledgedView < View[b] /\ t = Voted(s, b))
  <2>1. CASE View[b] # s.curView
    BY <2>1 DEF ProcessBlockForCurrentView
  <2>2. CASE View[b] = s.curView
    <3>1. t = ProduceVote(s, b)
      BY <1>0, <2>2 DEF ProcessBlockForCurrentView
    <3>2. ~ (View[b] < s.highestAcknowledgedView)
      BY <1>1, <1>2, <2>2
    <3>3. CASE View[b] = s.highestAcknowledgedView
      BY <1>0, <3>1, <3>2, <3>3 DEF ProduceVote
    <3>4. CASE View[b] # s.highestAcknowledgedView
      <4>1. t = Voted(s, b)
        BY <1>0, <3>1, <3>2, <3>4 DEF ProduceVote, Voted
      <4> QED BY <1>0, <1>1, <2>2, <3>2, <3>4, <4>1
    <3> QED BY <3>3, <3>4
  <2> QED BY <2>1, <2>2
<1> QED BY <1>3, <1>4, <1>5

\* The certificates of the PaceMaker are the evidence SafetyRules asks for.
LEMMA EvidenceIsValid ==
    ASSUME NEW C \in Certificates, NEW r, NEW s, Sound(s, r, C)
    PROVE  /\ ValidateEvidenceForEnteringView(s.curView, s.newestQC, Evidence(s))
           /\ Evidence(s) # NoTC => Evidence(s) \in C.tcs
           /\ Evidence(s) \in TimeoutCertificate \cup {NoTC}
<1>0. s \in Node /\ EnteredLegitimately(s, C)
  BY DEF Sound
<1>1. /\ s.curView \in Nat /\ View[s.newestQC] \in Nat
      /\ s.lastViewTC \in TimeoutCertificate \cup {NoTC}
  BY <1>0, NodeFields
<1>2. CASE View[s.newestQC] + 1 = s.curView
  BY <1>2 DEF Evidence, ValidateEvidenceForEnteringView
<1>3. CASE View[s.newestQC] + 1 # s.curView
  <2>1. /\ s.lastViewTC # NoTC /\ s.lastViewTC.view + 1 = s.curView
        /\ View[s.lastViewTC.newestQC] <= View[s.newestQC] /\ View[s.newestQC] < s.curView
        /\ s.lastViewTC \in C.tcs
    BY <1>0, <1>3 DEF EnteredLegitimately
  <2>2. Evidence(s) = s.lastViewTC
    BY <1>3 DEF Evidence
  <2>3. View[s.lastViewTC.newestQC] \in Nat
    BY <1>1, <2>1, BlockFacts DEF TimeoutCertificate
  <2> QED BY <1>1, <1>3, <2>1, <2>2, <2>3 DEF ValidateEvidenceForEnteringView
<1> QED BY <1>2, <1>3

\* The record of safety data after the first timeout of view v.
TimedOutWith(s, v, o) == [s EXCEPT !.highestAcknowledgedView = v, !.lastTimeout = o]

\* A timeout changes the highest acknowledged view and the last timeout.
LEMMA TimeoutEffect ==
    ASSUME NEW s \in Node, NEW v \in Nat, NEW o \in LastTimeout, NEW t,
           t = TimedOutWith(s, v, o)
    PROVE  /\ t \in Node /\ t.fatal = s.fatal
           /\ SameLiveness(s, t) /\ SameForks(s, t) /\ SameControl(s, t)
           /\ t.highestAcknowledgedView = v /\ t.lastTimeout = o
           /\ t.lockedOneChainView = s.lockedOneChainView /\ t.signed = s.signed
<1> DEFINE t1 == [s EXCEPT !.highestAcknowledgedView = v]
           t2 == [t1 EXCEPT !.lastTimeout = o]
<1>1. t = t2
  BY Zenon DEF TimedOutWith
<1>2. /\ t1 \in Node /\ t1.fatal = s.fatal
      /\ SameLiveness(s, t1) /\ SameForks(s, t1) /\ SameControl(s, t1)
      /\ t1.highestAcknowledgedView = v
      /\ t1.lockedOneChainView = s.lockedOneChainView /\ t1.signed = s.signed
  BY DEF Node, SameLiveness, SameForks, SameControl
<1> HIDE DEF t1
<1>3. /\ t2 \in Node /\ t2.fatal = s.fatal
      /\ SameLiveness(s, t2) /\ SameForks(s, t2) /\ SameControl(s, t2)
      /\ t2.highestAcknowledgedView = v /\ t2.lastTimeout = o
      /\ t2.lockedOneChainView = s.lockedOneChainView /\ t2.signed = s.signed
  BY <1>2 DEF Node, SameLiveness, SameForks, SameControl
<1> QED BY <1>1, <1>3

\* A timeout does not change the view.
LEMMA TimeoutKeepsView ==
    ASSUME NEW s \in Node, NEW t, t = BroadcastTimeoutObject(s)
    PROVE  t.curView = s.curView
BY DEF BroadcastTimeoutObject, ProduceTimeout, Fatal, Node

\* A timeout of the current view keeps the invariant, and is no error.
LEMMA TimeoutStep ==
    ASSUME NEW C \in Certificates, NEW r, NEW s, Running(s, r, C),
           s.curView <= MaxView, TimedOut(s) => s.lastTimeout.tick < MaxTick,
           NEW t, t = BroadcastTimeoutObject(s)
    PROVE  Running(t, r, C) /\ Forward(s, t) /\ (TimesOut(s, t) \/ RepeatsTimeout(s, t))
<1>0. s \in Node /\ s.fatal = FALSE /\ Sound(s, r, C)
  BY DEF Running, Sound
<1>1. /\ s.curView \in Nat /\ s.highestAcknowledgedView \in Nat /\ s.lockedOneChainView \in Nat
      /\ View[s.newestQC] \in Nat /\ s.finalized \in Block /\ s.signed \subseteq Block
      /\ s.newestQC \in Block /\ s.lastTimeout \in LastTimeout \cup {NoTimeout}
  BY <1>0, NodeFields
<1>2. s.highestAcknowledgedView <= s.curView /\ s.lockedOneChainView <= View[s.newestQC]
  BY DEF Running, Sound, SafetyDataBehind
<1>3. /\ t \in Node /\ t.fatal = FALSE
      /\ SameLiveness(s, t) /\ SameForks(s, t) /\ SameControl(s, t)
      /\ t.highestAcknowledgedView \in {s.highestAcknowledgedView, s.curView}
      /\ t.lockedOneChainView = s.lockedOneChainView /\ t.signed = s.signed
      /\ TimesOut(s, t) \/ RepeatsTimeout(s, t)
  <2>1. CASE TimedOut(s)
    <3>1. s.lastTimeout \in LastTimeout /\ s.lastTimeout.tick < MaxTick
      BY <1>1, <2>1 DEF TimedOut
    <3>2. PICK o : o = [s.lastTimeout EXCEPT !.tick = @ + 1]
      OBVIOUS
    <3>a. o \in LastTimeout
      BY <3>1, <3>2, BoundAssumption DEF LastTimeout
    <3>3. t = [s EXCEPT !.lastTimeout = o]
      BY <2>1, <3>2 DEF BroadcastTimeoutObject, ProduceTimeout
    <3>4. /\ t \in Node /\ t.fatal = FALSE /\ t.lastTimeout = o
          /\ SameLiveness(s, t) /\ SameForks(s, t) /\ SameControl(s, t)
          /\ t.highestAcknowledgedView = s.highestAcknowledgedView
          /\ t.lockedOneChainView = s.lockedOneChainView /\ t.signed = s.signed
      BY <1>0, <3>a, <3>3 DEF Node, SameLiveness, SameForks, SameControl
    <3>5. RepeatsTimeout(s, t)
      BY <2>1, <3>1, <3>2, <3>4 DEF RepeatsTimeout, SameLiveness, TimedOut
    <3> QED BY <3>4, <3>5
  <2>2. CASE ~ TimedOut(s)
    <3>1. IsSafeToTimeout(s, Evidence(s))
      BY <1>0, <1>1, <1>2, EvidenceIsValid DEF IsSafeToTimeout
    <3>2. PICK o : o = [view |-> s.curView, newestQC |-> s.newestQC, tick |-> 0]
      OBVIOUS
    <3>3. o \in LastTimeout
      BY <1>1, <3>2, BlockFacts DEF LastTimeout
    <3>4. t = [s EXCEPT !.highestAcknowledgedView = s.curView, !.lastTimeout = o]
      BY <2>2, <3>1, <3>2, Zenon DEF BroadcastTimeoutObject, ProduceTimeout
    <3>5. PICK v \in Nat : v = s.curView
      BY <1>1
    <3>6. t = TimedOutWith(s, v, o)
      BY <3>4, <3>5, Zenon DEF TimedOutWith
    <3>7. /\ t \in Node /\ t.fatal = FALSE /\ t.lastTimeout = o
          /\ SameLiveness(s, t) /\ SameForks(s, t) /\ SameControl(s, t)
          /\ t.highestAcknowledgedView = s.curView
          /\ t.lockedOneChainView = s.lockedOneChainView /\ t.signed = s.signed
      BY <1>0, <3>3, <3>5, <3>6, TimeoutEffect
    <3>8. TimesOut(s, t)
      BY <2>2, <3>2, <3>7 DEF TimesOut, SameLiveness, TimedOut
    <3> QED BY <3>7, <3>8
  <2> QED BY <2>1, <2>2
<1>4. SafetyDataBehind(t)
  <2>1. t.curView = s.curView /\ t.newestQC = s.newestQC
    BY <1>3 DEF SameLiveness
  <2>2. \A c \in t.signed : View[QC[c]] <= View[s.newestQC]
    BY <1>3 DEF Running, Sound, SafetyDataBehind
  <2> QED BY <1>1, <1>2, <1>3, <2>1, <2>2 DEF SafetyDataBehind
<1>5. SignaturesRecorded(t, r)
  <2>1. \A c \in s.signed : View[c] \in Nat
    BY <1>1, BlockFacts
  <2>2. \A c \in t.signed : Leader[View[c]] # r => View[c] <= t.highestAcknowledgedView
    BY <1>1, <1>2, <1>3, <2>1 DEF Running, Sound, SignaturesRecorded
  <2> QED BY <1>3, <2>2 DEF Running, Sound, SignaturesRecorded, SameLiveness, SameForks
<1>6. EnteredLegitimately(t, C)
  BY <1>3 DEF Running, Sound, EnteredLegitimately, SameLiveness
<1>7. ForestComplete(t, C)
  BY <1>3 DEF Running, Sound, ForestComplete, SameForks
<1>8. PendingInForks(t) /\ t.started
  BY <1>3 DEF Running, Sound, PendingInForks, SameForks, SameControl
<1>9. FinalizedBelowView(t, C)
  BY <1>3 DEF Running, FinalizedBelowView, SameLiveness, SameForks, SameControl
<1>10. Forward(s, t)
  BY <1>1, <1>3, AncestorsBasic DEF Forward, SameLiveness, SameForks
<1> QED BY <1>3, <1>4, <1>5, <1>6, <1>7, <1>8, <1>9, <1>10 DEF Running, Sound

\* There is a block for whatever r may propose as the leader of a view: one for
\* every pair of certificates that are the evidence for entering the view.
CanPropose(r) ==
    \A v \in DOMAIN Leader : Leader[v] = r =>
        \A qc \in Block :
            \A tc \in {NoTC} \cup {[view |-> v - 1, newestQC |-> n] : n \in Block} :
                ValidateEvidenceForEnteringView(v, qc, tc) =>
                    \E b \in Block \ {Root} : View[b] = v /\ QC[b] = qc /\ LastViewTC[b] = tc

\* The leader of a view finds a block to propose, and it is a valid one.
LEMMA OwnProposalExists ==
    ASSUME NEW C \in Certificates, NEW r, NEW s, Sound(s, r, C), MayPropose(s, r),
           CanPropose(r)
    PROVE  /\ \E b \in Block : IsOwnProposal(s, b)
           /\ \A b \in Block : IsOwnProposal(s, b) => ValidBlock(b, C)
<1> DEFINE v == s.curView
           qc == s.newestQC
           tc == Evidence(s)
<1>1. /\ ValidateEvidenceForEnteringView(v, qc, tc)
      /\ tc # NoTC => tc \in C.tcs
      /\ tc \in TimeoutCertificate \cup {NoTC}
  BY EvidenceIsValid
<1>2. v \in Nat /\ qc \in Block /\ qc \in C.qcs
  BY NodeFields DEF Sound, EnteredLegitimately
<1>3. v \in DOMAIN Leader /\ Leader[v] = r
  BY DEF MayPropose
<1> HIDE DEF v, qc, tc
<1>4. tc \in {NoTC} \cup {[view |-> v - 1, newestQC |-> n] : n \in Block}
  <2> SUFFICES ASSUME tc # NoTC PROVE \E n \in Block : tc = [view |-> v - 1, newestQC |-> n]
    OBVIOUS
  <2>1. tc \in TimeoutCertificate /\ tc.view + 1 = v
    BY <1>1 DEF ValidateEvidenceForEnteringView
  <2>2. tc.view = v - 1 /\ tc.newestQC \in Block /\ tc = [view |-> tc.view, newestQC |-> tc.newestQC]
    BY <1>2, <2>1 DEF TimeoutCertificate
  <2> QED BY <2>2
<1>5. \E b \in Block \ {Root} : View[b] = v /\ QC[b] = qc /\ LastViewTC[b] = tc
  BY <1>1, <1>2, <1>3, <1>4 DEF CanPropose
<1>6. \E b \in Block : IsOwnProposal(s, b)
  BY <1>5 DEF IsOwnProposal, v, qc, tc
<1>7. ASSUME NEW b \in Block, IsOwnProposal(s, b) PROVE ValidBlock(b, C)
  <2>1. b # Root /\ View[b] = v /\ QC[b] = qc /\ LastViewTC[b] = tc
    BY <1>7 DEF IsOwnProposal, v, qc, tc
  <2> QED BY <1>1, <1>2, <2>1 DEF ValidBlock
<1> QED BY <1>6, <1>7

\* A block is signed, and nothing else happens.
LEMMA SignEffect ==
    ASSUME NEW s \in Node, NEW b \in Block, NEW t, t = [s EXCEPT !.signed = @ \cup {b}]
    PROVE  /\ t \in Node /\ t.fatal = s.fatal
           /\ SameLiveness(s, t) /\ SameForks(s, t) /\ SameControl(s, t)
           /\ t.highestAcknowledgedView = s.highestAcknowledgedView
           /\ t.lockedOneChainView = s.lockedOneChainView
           /\ t.signed = s.signed \cup {b} /\ t.lastTimeout = s.lastTimeout
<1>1. t = [s EXCEPT !.signed = s.signed \cup {b}]
  OBVIOUS
<1>2. s.signed \cup {b} \in SUBSET Block
  BY NodeFields
<1> QED BY <1>1, <1>2 DEF Node, SameLiveness, SameForks, SameControl

\* The leader's own proposal keeps the invariant: it has signed no other block
\* of its view, because it would find that block in Forks.
LEMMA ProposeStep ==
    ASSUME NEW C \in Certificates, NEW r, NEW s, Running(s, r, C), CanPropose(r),
           NEW t, t = ProposeForNewViewIfPrimary(s, r)
    PROVE  /\ Running(t, r, C) /\ Forward(s, t)
           /\ SameSafety(s, t) \/ \E b \in Block : Proposes(s, t, r, b)
           /\ MayPropose(s, r) => \E b \in Block : View[b] = s.curView /\ Proposes(s, t, r, b)
<1>0. /\ s \in Node /\ s.fatal = FALSE /\ Sound(s, r, C) /\ ForestComplete(s, C) /\ Justified(s, C)
      /\ s.pending = {} /\ s.started
  BY RunningJustified DEF Running, Sound
<1>1. /\ s.curView \in Nat /\ s.newestQC \in Block /\ View[s.newestQC] \in Nat
      /\ s.finalized \in Block /\ s.signed \subseteq Block /\ s.stored \subseteq Block
  BY <1>0, NodeFields
<1>2. CASE ~ MayPropose(s, r)
  <2>1. t = s
    BY <1>2 DEF ProposeForNewViewIfPrimary
  <2> QED BY <1>1, <1>2, <2>1, AncestorsBasic DEF Forward, SameSafety
<1>3. CASE MayPropose(s, r)
  <2> DEFINE b == CHOOSE b \in Block : IsOwnProposal(s, b)
             w == [s EXCEPT !.signed = @ \cup {b}]
             u == Store(w, b)
  <2>1. b \in Block /\ IsOwnProposal(s, b) /\ ValidBlock(b, C)
    BY <1>0, <1>3, OwnProposalExists
  <2>2. t = AddProposal(u, b)
    <3>1. ~ (/\ View[s.newestQC] + 1 # s.curView
             /\ s.lastViewTC = NoTC \/ s.lastViewTC.view + 1 # s.curView)
      BY DEF Running, Sound, EnteredLegitimately
    <3> QED BY <1>0, <1>3, <3>1 DEF ProposeForNewViewIfPrimary
  <2> HIDE DEF b
  <2>3. /\ w \in Node /\ w.fatal = FALSE
        /\ SameLiveness(s, w) /\ SameForks(s, w) /\ SameControl(s, w)
        /\ w.highestAcknowledgedView = s.highestAcknowledgedView
        /\ w.lockedOneChainView = s.lockedOneChainView
        /\ w.signed = s.signed \cup {b} /\ w.lastTimeout = s.lastTimeout
    BY <1>0, <2>1, SignEffect
  <2> HIDE DEF w
  <2>4. /\ u \in Node /\ u.fatal = FALSE
        /\ SameLiveness(w, u) /\ SameSafety(w, u) /\ SameControl(w, u)
        /\ u.stored = w.stored \cup {b} /\ u.finalized = w.finalized /\ u.forks = w.forks
    BY <2>1, <2>3, StoreEffect
  <2> HIDE DEF u
  <2>5. u.stored = s.stored \cup {b} /\ u.finalized = s.finalized /\ u.forks = s.forks
    BY <2>3, <2>4 DEF SameForks
  <2>6. /\ b # Root /\ View[b] = s.curView /\ QC[b] = s.newestQC /\ QC[b] \in s.forks
        /\ View[b] \in Nat /\ View[QC[b]] \in Nat /\ View[QC[b]] < View[b]
        /\ View[b] \in DOMAIN Leader /\ Leader[View[b]] = r
    <3>1. /\ b # Root /\ View[b] = s.curView /\ QC[b] = s.newestQC /\ QC[b] \in s.forks
          /\ View[b] \in DOMAIN Leader /\ Leader[View[b]] = r
      BY <1>3, <2>1 DEF IsOwnProposal, MayPropose
    <3> QED BY <2>1, <3>1, BlockFacts
  <2>7. /\ AddedTo(u, t, b) /\ ForestComplete(t, C)
        /\ s.finalized \in Ancestors[t.finalized]
        /\ t.finalized = s.finalized \/ Finalizes(QC[b], t.finalized, C)
    <3>1. /\ s \in Node /\ ForestComplete(s, C) /\ Justified(s, C) /\ b \in Block /\ ValidBlock(b, C)
          /\ \/ View[b] <= View[s.finalized]
             \/ View[QC[b]] < View[s.finalized]
             \/ QC[b] \in s.forks
      BY <1>0, <2>1, <2>6
    <3>2. /\ u \in Node /\ u.fatal = FALSE /\ u.stored = s.stored \cup {b}
          /\ u.forks = s.forks /\ u.finalized = s.finalized
      BY <2>4, <2>5
    <3> QED BY <2>2, <3>1, <3>2, IncorporateStep, Zenon
  <2>8. /\ t \in Node /\ t.fatal = FALSE /\ SameLiveness(s, t)
        /\ t.highestAcknowledgedView = s.highestAcknowledgedView
        /\ t.lockedOneChainView = s.lockedOneChainView
        /\ t.signed = s.signed \cup {b} /\ t.stored = s.stored \cup {b}
        /\ t.lastTimeout = s.lastTimeout
        /\ t.started /\ t.pending = {}
    BY <1>0, <2>3, <2>4, <2>5, <2>7 DEF AddedTo, SameLiveness, SameSafety, SameControl
  <2>9. \A c \in s.signed : View[c] # View[b]
    <3> SUFFICES ASSUME NEW c \in s.signed, View[c] = s.curView PROVE FALSE
      BY <2>6
    <3>1. c \in s.stored /\ c # Root /\ c \in Block /\ ValidBlock(c, C)
      BY <1>1 DEF Running, Sound, SignaturesRecorded, ForestComplete
    <3>2. s.finalized \in Ancestors[c]
      BY <1>1, <3>1, AboveView
    <3>3. c \in s.forks
      BY <1>0, <3>1, <3>2 DEF ForestComplete
    <3> QED BY <1>3, <3>3 DEF MayPropose
  <2>10. SignaturesRecorded(t, r)
    <3>1. t.signed \subseteq t.stored
      BY <2>8 DEF Running, Sound, SignaturesRecorded
    <3>2. \A c \in t.signed : c # Root /\ View[c] <= t.curView
      BY <1>1, <2>6, <2>8 DEF Running, Sound, SignaturesRecorded, SameLiveness
    <3>3. \A c, e \in t.signed : View[c] = View[e] => c = e
      BY <2>8, <2>9 DEF Running, Sound, SignaturesRecorded
    <3>4. \A c \in t.signed : Leader[View[c]] # r => View[c] <= t.highestAcknowledgedView
      BY <2>6, <2>8 DEF Running, Sound, SignaturesRecorded
    <3> QED BY <3>1, <3>2, <3>3, <3>4 DEF SignaturesRecorded
  <2>11. EnteredLegitimately(t, C) /\ SafetyDataBehind(t)
    <3>1. \A c \in t.signed : View[QC[c]] <= View[t.newestQC]
      BY <1>1, <2>6, <2>8 DEF Running, Sound, SafetyDataBehind, SameLiveness
    <3> QED BY <2>8, <3>1 DEF Running, Sound, EnteredLegitimately, SafetyDataBehind, SameLiveness
  <2>12. FinalizedBelowView(t, C)
    <3>1. t.curView = s.curView
      BY <2>8 DEF SameLiveness
    <3>2. CASE t.finalized = s.finalized
      BY <3>1, <3>2, RunningJustified DEF FinalizedBelowView
    <3>3. CASE Finalizes(QC[b], t.finalized, C)
      BY <1>1, <2>6, <3>1, <3>3 DEF FinalizedBelowView
    <3> QED BY <2>7, <3>2, <3>3
  <2>13. Forward(s, t)
    BY <1>1, <2>7, <2>8 DEF Forward, SameLiveness
  <2>14. Proposes(s, t, r, b)
    BY <2>6, <2>8, <2>9 DEF Proposes, SameLiveness
  <2> QED BY <2>1, <2>6, <2>7, <2>8, <2>10, <2>11, <2>12, <2>13, <2>14 DEF Running, Sound, PendingInForks
<1> QED BY <1>2, <1>3

\* Nothing is signed before, or after, the one signature of a step.
LEMMA SafetyStepAfterSame ==
    ASSUME NEW s, NEW u, NEW t, NEW r, SameSafety(s, u), SafetyStep(u, t, r)
    PROVE  SafetyStep(s, t, r)
<1>1. CASE SameSafety(u, t)
  BY <1>1 DEF SameSafety, SafetyStep
<1>2. ASSUME NEW b \in Block, VotesFor(u, t, b) PROVE VotesFor(s, t, b)
  BY <1>2 DEF SameSafety, VotesFor
<1>3. ASSUME NEW b \in Block, Proposes(u, t, r, b) PROVE Proposes(s, t, r, b)
  BY <1>3 DEF SameSafety, Proposes
<1>4. ASSUME TimesOut(u, t) PROVE TimesOut(s, t)
  BY <1>4 DEF SameSafety, TimesOut
<1>5. ASSUME RepeatsTimeout(u, t) PROVE RepeatsTimeout(s, t)
  BY <1>5 DEF SameSafety, RepeatsTimeout
<1> QED BY <1>1, <1>2, <1>3, <1>4, <1>5 DEF SafetyStep

\* OnReceiveProposal keeps the invariant.
LEMMA ReceiveProposalStep ==
    ASSUME NEW C \in Certificates, NEW r, NEW s, Running(s, r, C),
           NEW b \in Block, ValidBlock(b, C), KnownParent(s, b),
           Leader[View[b]] = r => b \in s.signed, CanPropose(r),
           NEW t, t = OnReceiveProposal(s, r, b)
    PROVE  Running(t, r, C) /\ Forward(s, t) /\ SafetyStep(s, t, r)
<1>0. /\ s \in Node /\ s.fatal = FALSE /\ b # Root /\ View[b] \in Nat
  BY BlockFacts DEF Running, Sound, ValidBlock
<1>1. s.curView \in Nat /\ View[s.finalized] \in Nat /\ s.finalized \in Block /\ s.stored \subseteq Block
  BY <1>0, NodeFields
<1>2. CASE View[b] < View[s.finalized]
  <2>1. t = Store(s, b)
    BY <1>2 DEF OnReceiveProposal, FinalizedView
  <2>2. /\ t \in Node /\ t.fatal = FALSE
        /\ SameLiveness(s, t) /\ SameSafety(s, t) /\ SameControl(s, t)
        /\ t.stored = s.stored \cup {b} /\ t.finalized = s.finalized /\ t.forks = s.forks
    BY <1>0, <2>1, StoreEffect
  <2>3. s.finalized \notin Ancestors[b]
    BY <1>0, <1>1, <1>2, AncestorsBelow
  <2>4. ForestComplete(t, C)
    BY <2>2, <2>3 DEF Running, Sound, ForestComplete
  <2>5. EnteredLegitimately(t, C) /\ SafetyDataBehind(t)
    BY <2>2 DEF Running, Sound, EnteredLegitimately, SafetyDataBehind, SameLiveness, SameSafety
  <2>6. SignaturesRecorded(t, r)
    BY <2>2 DEF Running, Sound, SignaturesRecorded, SameLiveness, SameSafety
  <2>7. PendingInForks(t) /\ t.started
    BY <2>2 DEF Running, Sound, PendingInForks, SameControl
  <2>8. FinalizedBelowView(t, C)
    BY <2>2 DEF Running, FinalizedBelowView, SameLiveness, SameControl
  <2>9. Forward(s, t)
    BY <1>1, <2>2, AncestorsBasic DEF Forward, SameLiveness
  <2> QED BY <2>2, <2>4, <2>5, <2>6, <2>7, <2>8, <2>9 DEF Running, Sound, SafetyStep
<1>3. CASE ~ (View[b] < View[s.finalized])
  <2> DEFINE z == TCProcessed(s, b)
             y == ProcessBlockForCurrentView(z, b)
  <2>1. /\ Running(z, r, C) /\ Forward(s, z) /\ b \in z.stored /\ SameSafety(s, z)
        /\ View[QC[b]] <= View[z.newestQC]
        /\ QC[b] \in s.forks => QC[b] \in z.forks
    BY ProposalProcessed
  <2>2. t = IF y.fatal \/ View[b] = y.curView THEN y ELSE ProposeForNewViewIfPrimary(y, r)
    BY <1>3 DEF OnReceiveProposal, FinalizedView
  <2>a. y = ProcessBlockForCurrentView(z, b)
    OBVIOUS
  <2> HIDE DEF z, y
  <2>3. View[b] = z.curView => QC[b] \in z.forks
    <3> SUFFICES ASSUME View[b] = z.curView PROVE QC[b] \in s.forks
      BY <2>1
    <3>1. s.curView <= View[b]
      BY <2>1 DEF Forward
    <3>2. View[s.finalized] < View[b] /\ View[s.finalized] <= View[QC[b]]
      BY <3>1, AboveView
    <3>3. View[QC[b]] \in Nat
      BY <1>0, BlockFacts
    <3>4. ~ (View[b] <= View[s.finalized]) /\ ~ (View[QC[b]] < View[s.finalized])
      BY <1>0, <1>1, <3>2, <3>3
    <3> QED BY <3>4 DEF KnownParent
  <2>4. Leader[View[b]] = r => b \in z.signed
    BY <2>1 DEF SameSafety
  <2>5. Running(y, r, C) /\ Forward(z, y) /\ (SameSafety(z, y) \/ VotesFor(z, y, b))
    BY <2>a, <2>1, <2>3, <2>4, VoteStep
  <2>6. z \in Node /\ y \in Node
    BY <2>1, <2>5 DEF Running, Sound
  <2>7. Forward(s, y)
    BY <1>0, <2>1, <2>5, <2>6, ForwardTransitive
  <2>8. CASE t = y
    <3>1. SafetyStep(z, t, r)
      BY <2>5, <2>8 DEF SafetyStep
    <3> QED BY <2>1, <2>5, <2>7, <2>8, <3>1, SafetyStepAfterSame
  <2>9. CASE View[b] # y.curView /\ t = ProposeForNewViewIfPrimary(y, r)
    <3>1. /\ Running(t, r, C) /\ Forward(y, t)
          /\ SameSafety(y, t) \/ \E c \in Block : Proposes(y, t, r, c)
      BY <2>5, <2>9, ProposeStep
    <3>2. t \in Node
      BY <3>1 DEF Running, Sound
    <3>3. SameSafety(s, y)
      BY <2>1, <2>5, <2>9 DEF VotesFor, SameSafety
    <3>4. SafetyStep(y, t, r)
      BY <3>1 DEF SafetyStep
    <3>5. SafetyStep(s, t, r)
      BY <3>3, <3>4, SafetyStepAfterSame
    <3> QED BY <1>0, <2>6, <2>7, <3>1, <3>2, <3>5, ForwardTransitive
  <2> QED BY <2>2, <2>8, <2>9
<1> QED BY <1>2, <1>3

\* OnReceiveQc, OnReceiveTc and Start propose after the PaceMaker has advanced.
LEMMA AdvanceAndPropose ==
    ASSUME NEW C \in Certificates, NEW r, NEW s, Running(s, r, C), CanPropose(r),
           NEW u, Advances(s, u, C),
           NEW t \in {u, ProposeForNewViewIfPrimary(u, r)}
    PROVE  Running(t, r, C) /\ Forward(s, t) /\ SafetyStep(s, t, r)
<1>0. s \in Node /\ Sound(s, r, C) /\ FinalizedBelowView(s, C)
  BY DEF Running, Sound
<1>1. Sound(u, r, C) /\ Forward(s, u) /\ FinalizedBelowView(u, C) /\ u.started
  BY <1>0, AdvanceSound DEF Running, Advances, SameControl
<1>2. CASE t = u
  BY <1>1, <1>2 DEF Running, Advances, SafetyStep
<1>3. CASE t = ProposeForNewViewIfPrimary(u, r)
  <2>1. Running(u, r, C)
    BY <1>1 DEF Running
  <2>2. /\ Running(t, r, C) /\ Forward(u, t)
        /\ SameSafety(u, t) \/ \E b \in Block : Proposes(u, t, r, b)
    BY <1>3, <2>1, ProposeStep
  <2>3. u \in Node /\ t \in Node
    BY <2>1, <2>2 DEF Running, Sound
  <2>4. SafetyStep(u, t, r) /\ SameSafety(s, u)
    BY <2>2 DEF SafetyStep, Advances
  <2> QED BY <1>0, <1>1, <2>2, <2>3, <2>4, ForwardTransitive, SafetyStepAfterSame
<1> QED BY <1>2, <1>3

\* The first part of Interrupted, as an operator: b is stored and f finalized.
StoredAndFinalized(s, b, f) == [Store(s, b) EXCEPT !.finalized = f]

\* A crash while a proposal is incorporated keeps the invariant.
LEMMA InterruptedFinalization ==
    ASSUME NEW C \in Certificates, NEW r, NEW s, Running(s, r, C),
           NEW b \in Block, ValidBlock(b, C), KnownParent(s, b),
           NEW f \in Ancestors[Incorporated(s, b).finalized], s.finalized \in Ancestors[f],
           NEW t, t = Recover(StoredAndFinalized(s, b, f), b)
    PROVE  Sound(t, r, C) /\ FinalizedBelowView(t, C) /\ Forward(s, t) /\ SameSafety(s, t)
<1> DEFINE F == s.finalized
           i == Incorporated(s, b)
           v == Store(s, b)
           w == StoredAndFinalized(s, b, f)
           u == RecoverForks(w, b)
<1>0. /\ s \in Node /\ s.fatal = FALSE /\ ForestComplete(s, C) /\ Justified(s, C) /\ s.started
      /\ F \in s.forks
  BY RunningJustified DEF Running, Sound, ForestComplete
<1>1. /\ F \in Block /\ View[F] \in Nat /\ s.curView \in Nat /\ s.forks \subseteq Block
      /\ b # Root /\ QC[b] \in Block /\ View[b] \in Nat /\ View[QC[b]] \in Nat
      /\ View[QC[b]] < View[b]
  BY <1>0, NodeFields, BlockFacts DEF ValidBlock
<1>2. /\ v \in Node /\ v.fatal = FALSE
      /\ SameLiveness(s, v) /\ SameSafety(s, v) /\ SameControl(s, v)
      /\ v.stored = s.stored \cup {b} /\ v.finalized = F /\ v.forks = s.forks
  BY <1>0, StoreEffect
<1>3. i \in Node /\ AddedTo(v, i, b)
  BY IncorporatedStep DEF Sound
<1>a. w = [v EXCEPT !.finalized = f] /\ t = Unstarted(u) /\ u = RecoverForks(w, b)
      /\ f \in Ancestors[i.finalized]
  BY DEF StoredAndFinalized, Recover, Unstarted
<1> HIDE DEF v, i, w, u
<1>4. \/ i.finalized = F
      \/ /\ QC[b] \in s.forks /\ QC[b] # Root /\ View[QC[b]] = View[QC[QC[b]]] + 1
         /\ i.finalized = QC[QC[b]] /\ QC[QC[b]] \in s.forks
  <2> SUFFICES ASSUME DirectTwoChain(v, b), i.finalized = QC[QC[b]]
               PROVE  /\ QC[b] \in s.forks /\ QC[b] # Root /\ View[QC[b]] = View[QC[QC[b]]] + 1
                      /\ QC[QC[b]] \in s.forks
    BY <1>2, <1>3 DEF AddedTo
  <2>1. /\ QC[b] \in s.forks /\ View[F] < View[QC[b]] /\ View[F] <= View[QC[QC[b]]]
        /\ View[QC[b]] = View[QC[QC[b]]] + 1
    BY <1>2 DEF DirectTwoChain
  <2>2. QC[b] # Root
    <3>1. View[Root] <= View[F] /\ View[Root] \in Nat
      BY <1>1, AncestorsBasic, BlockFacts
    <3> QED BY <1>1, <2>1, <3>1
  <2> QED BY <1>0, <2>1, <2>2 DEF ForestComplete
<1>5. f \in s.forks
  <2>1. i.finalized \in s.forks
    BY <1>0, <1>4
  <2> QED BY <1>0, <1>a, <2>1, ChainInForks
<1>6. /\ w \in Node /\ w.fatal = FALSE /\ w.stored = s.stored \cup {b} /\ w.finalized = f
      /\ SameLiveness(s, w) /\ SameSafety(s, w)
  <2>1. f \in Block
    BY <1>1, <1>5
  <2>2. /\ w \in Node /\ w.fatal = v.fatal /\ w.stored = v.stored /\ w.finalized = f
        /\ SameLiveness(v, w) /\ SameSafety(v, w)
    BY <1>2, <1>a, <2>1 DEF Node, SameLiveness, SameSafety
  <2> QED BY <1>2, <2>2 DEF SameLiveness, SameSafety
<1>7. /\ u \in Node /\ u.fatal = FALSE
      /\ SameLiveness(w, u) /\ SameSafety(w, u)
      /\ u.stored = w.stored /\ ForestComplete(u, C) /\ f \in Ancestors[u.finalized]
      /\ u.finalized = f \/ (Finalizes(QC[b], u.finalized, C) /\ b \in u.forks)
      /\ (/\ QC[b] \in s.forks /\ QC[b] # Root
          /\ f \in Ancestors[QC[QC[b]]]
          /\ View[QC[b]] = View[QC[QC[b]]] + 1)
         => u.finalized = QC[QC[b]]
  <2>1. /\ s \in Node /\ ForestComplete(s, C) /\ f \in s.forks /\ s.finalized \in Ancestors[f]
        /\ w \in Node /\ w.fatal = FALSE /\ w.stored = s.stored \cup {b} /\ w.finalized = f
        /\ u = RecoverForks(w, b)
    BY <1>0, <1>5, <1>6, <1>a
  <2> HIDE DEF F
  <2>2. Reincorporated(s, w, u, b, f, C)
    BY <2>1, RecoverForksNew
  <2> QED BY <2>2 DEF Reincorporated
<1>8. /\ t \in Node /\ t.fatal = FALSE
      /\ SameLiveness(u, t) /\ SameSafety(u, t) /\ SameForks(u, t)
      /\ t.started = FALSE
      /\ t.pending = {x \in u.forks \ {Root} : View[x] >= u.curView}
  BY <1>7, <1>a, UnstartedEffect
<1>9. /\ SameLiveness(s, t) /\ SameSafety(s, t)
      /\ t.stored = s.stored \cup {b} /\ t.finalized = u.finalized /\ t.forks = u.forks
      /\ t.pending = {x \in t.forks \ {Root} : View[x] >= s.curView}
  BY <1>6, <1>7, <1>8 DEF SameLiveness, SameSafety, SameForks
<1>10. t.finalized = F \/ (Finalizes(QC[b], t.finalized, C) /\ b \in t.forks)
  <2>1. CASE u.finalized # f
    BY <1>7, <1>9, <2>1
  <2>2. CASE u.finalized = f /\ i.finalized = F
    <3>1. f = F
      <4>1. f \in Block /\ View[f] \in Nat
        BY <1>1, <1>5, BlockFacts
      <4>2. f # F => View[f] < View[F]
        BY <1>1, <1>a, <2>2, AncestorsBelow
      <4>3. f # F => View[F] < View[f]
        BY <4>1, AncestorsBelow
      <4> QED BY <1>1, <4>1, <4>2, <4>3
    <3> QED BY <1>9, <2>2, <3>1
  <2>3. CASE u.finalized = f /\ i.finalized # F
    <3>1. /\ QC[b] \in s.forks /\ QC[b] # Root /\ View[QC[b]] = View[QC[QC[b]]] + 1
          /\ i.finalized = QC[QC[b]]
      BY <1>4, <2>3
    <3>2. u.finalized = QC[QC[b]]
      BY <1>7, <1>a, <3>1
    <3>3. Finalizes(QC[b], t.finalized, C)
      <4>1. QC[b] \in C.qcs
        BY DEF ValidBlock
      <4> QED BY <1>9, <3>1, <3>2, <4>1 DEF Finalizes
    <3>4. b \in t.forks
      <4>1. QC[QC[b]] \in Block /\ QC[QC[b]] \in Ancestors[QC[QC[b]]]
        BY <1>1, <3>1, BlockFacts, AncestorsBasic
      <4>2. QC[QC[b]] \in Ancestors[b]
        BY <1>1, <3>1, <4>1, BlockFacts
      <4> QED BY <1>7, <1>9, <3>2, <4>2, <1>6 DEF ForestComplete
    <3> QED BY <3>3, <3>4
  <2> QED BY <2>1, <2>2, <2>3
<1>11. ForestComplete(t, C)
  BY <1>7, <1>8 DEF ForestComplete, SameForks
<1>12. EnteredLegitimately(t, C) /\ SafetyDataBehind(t) /\ SignaturesRecorded(t, r)
  BY <1>9 DEF Running, Sound, EnteredLegitimately, SafetyDataBehind, SignaturesRecorded,
              SameLiveness, SameSafety
<1>13. PendingInForks(t)
  BY <1>8, <1>9 DEF PendingInForks
<1>14. FinalizedBelowView(t, C)
  <2>0. t.curView = s.curView
    BY <1>9 DEF SameLiveness
  <2>1. CASE t.finalized = F
    BY <2>0, <2>1, RunningJustified DEF FinalizedBelowView
  <2>2. CASE Finalizes(QC[b], t.finalized, C) /\ b \in t.forks
    <3>1. View[QC[b]] < s.curView \/ View[b] >= s.curView
      BY <1>1
    <3>2. View[QC[b]] < t.curView \/ b \in t.pending
      BY <1>1, <1>9, <2>0, <2>2, <3>1
    <3> QED BY <1>1, <2>2, <3>2 DEF FinalizedBelowView
  <2> QED BY <1>10, <2>1, <2>2
<1>15. Forward(s, t)
  <2>1. t.finalized \in Block
    BY <1>8, NodeFields
  <2>2. F \in Ancestors[t.finalized]
    BY <1>7, <1>9, <2>1, AncestorsBelow
  <2> QED BY <1>1, <1>9, <2>2 DEF Forward, SameLiveness
<1> QED BY <1>8, <1>9, <1>11, <1>12, <1>13, <1>14, <1>15 DEF Sound

\* One block that Start looks at.
LEMMA VisitPendingStep ==
    ASSUME NEW C \in Certificates, NEW r, NEW s, Sound(s, r, C), FinalizedBelowView(s, C), ~ s.started,
           NEW b \in s.pending, NEW t, t = ProcessPendingBlock(s, b)
    PROVE  Sound(t, r, C) /\ FinalizedBelowView(t, C) /\ Forward(s, t) /\ SameSafety(s, t)
<1> DEFINE tc == LastViewTC[b]
           u == ProcessCertificates(s, QC[b], tc)
<1>0. /\ s \in Node /\ EnteredLegitimately(s, C) /\ b \in s.forks /\ b # Root
      /\ b \in s.stored /\ ValidBlock(b, C)
  BY DEF Sound, PendingInForks, ForestComplete
<1>1. b \in Block
  BY <1>0, NodeFields
<1>2. QC[b] \in C.qcs /\ tc \in TimeoutCertificate \cup {NoTC} /\ (tc # NoTC => tc \in C.tcs)
  BY <1>0, <1>1, ProposalCertificates
<1>3. t = [u EXCEPT !.pending = u.pending \ {b}]
  BY DEF ProcessPendingBlock
<1> HIDE DEF tc
<1>4. Advances(s, u, C) /\ View[QC[b]] < u.curView
  BY <1>0, <1>2, ProcessCertificatesStep
<1> HIDE DEF u
<1>5. Sound(u, r, C) /\ Forward(s, u) /\ FinalizedBelowView(u, C) /\ u \in Node /\ ~ u.started
  BY <1>4, AdvanceSound DEF Sound, Advances, SameControl
<1>6. /\ t \in Node /\ t.fatal = u.fatal /\ t.pending = u.pending \ {b} /\ t.started = u.started
      /\ SameLiveness(u, t) /\ SameSafety(u, t) /\ SameForks(u, t)
  <2>1. u.pending \ {b} \in SUBSET Block
    BY <1>5, NodeFields
  <2> QED BY <1>3, <1>5, <2>1 DEF Node, SameLiveness, SameSafety, SameForks
<1>7. Sound(t, r, C)
  <2>1. EnteredLegitimately(t, C) /\ SafetyDataBehind(t)
    BY <1>5, <1>6 DEF Sound, EnteredLegitimately, SafetyDataBehind, SameLiveness, SameSafety
  <2>2. ForestComplete(t, C)
    BY <1>5, <1>6 DEF Sound, ForestComplete, SameForks
  <2>3. SignaturesRecorded(t, r)
    BY <1>5, <1>6 DEF Sound, SignaturesRecorded, SameLiveness, SameSafety, SameForks
  <2>4. PendingInForks(t)
    BY <1>5, <1>6 DEF Sound, PendingInForks, SameForks
  <2> QED BY <1>5, <1>6, <2>1, <2>2, <2>3, <2>4 DEF Sound
<1>8. FinalizedBelowView(t, C)
  <2>1. t.finalized = u.finalized /\ t.curView = u.curView
    BY <1>6 DEF SameLiveness, SameForks
  <2>2. \A d \in Block, c \in u.pending : QC[c] = d => View[d] < u.curView \/ c \in t.pending
    BY <1>4, <1>6
  <2> QED BY <1>5, <2>1, <2>2 DEF FinalizedBelowView
<1>9. Forward(s, t)
  BY <1>5, <1>6 DEF Forward, SameLiveness, SameForks
<1>10. SameSafety(s, t)
  BY <1>4, <1>6 DEF Advances, SameSafety
<1> QED BY <1>7, <1>8, <1>9, <1>10

\* Start, after the pending blocks.
LEMMA StartNewViewStep ==
    ASSUME NEW C \in Certificates, NEW r, NEW s, Sound(s, r, C), FinalizedBelowView(s, C), s.pending = {},
           CanPropose(r), NEW t, t = StartNewView(s, r)
    PROVE  /\ Sound(t, r, C) /\ FinalizedBelowView(t, C) /\ Forward(s, t) /\ SafetyStep(s, t, r)
           /\ MayPropose(s, r) => \E b \in Block : View[b] = s.curView /\ Proposes(s, t, r, b)
<1> DEFINE u == [s EXCEPT !.started = TRUE]
<1>0. s \in Node
  BY DEF Sound
<1>1. /\ u \in Node /\ u.fatal = s.fatal /\ u.started = TRUE /\ u.pending = s.pending
      /\ SameLiveness(s, u) /\ SameSafety(s, u) /\ SameForks(s, u)
  BY <1>0 DEF Node, SameLiveness, SameSafety, SameForks
<1>2. t = ProposeForNewViewIfPrimary(u, r)
  BY DEF StartNewView
<1> HIDE DEF u
<1>3. Sound(u, r, C)
  <2>1. EnteredLegitimately(u, C) /\ SafetyDataBehind(u)
    BY <1>1 DEF Sound, EnteredLegitimately, SafetyDataBehind, SameLiveness, SameSafety
  <2>2. ForestComplete(u, C)
    BY <1>1 DEF Sound, ForestComplete, SameForks
  <2>3. SignaturesRecorded(u, r)
    BY <1>1 DEF Sound, SignaturesRecorded, SameLiveness, SameSafety, SameForks
  <2>4. PendingInForks(u)
    BY <1>1 DEF PendingInForks
  <2> QED BY <1>1, <2>1, <2>2, <2>3, <2>4 DEF Sound
<1>4. Running(u, r, C)
  BY <1>1, <1>3 DEF Running, FinalizedBelowView, SameLiveness, SameForks
<1>5. /\ Running(t, r, C) /\ Forward(u, t)
      /\ SameSafety(u, t) \/ \E b \in Block : Proposes(u, t, r, b)
      /\ MayPropose(u, r) => \E b \in Block : View[b] = u.curView /\ Proposes(u, t, r, b)
  BY <1>2, <1>4, ProposeStep
<1>6. SafetyStep(u, t, r)
  BY <1>5 DEF SafetyStep
<1>7. SafetyStep(s, t, r)
  BY <1>1, <1>6, SafetyStepAfterSame
<1>8. MayPropose(s, r) => \E b \in Block : View[b] = s.curView /\ Proposes(s, t, r, b)
  BY <1>1, <1>5 DEF MayPropose, Proposes, SameLiveness, SameSafety, SameForks
<1> QED BY <1>1, <1>5, <1>7, <1>8 DEF Running, Forward, SameLiveness, SameForks

-----------------------------------------------------------------------------
(***************************************************************************)
(* What every step of a replica keeps.                                     *)
(***************************************************************************)
Kept(s, t, r, C) ==
    Sound(t, r, C) /\ FinalizedBelowView(t, C) /\ Forward(s, t) /\ SafetyStep(s, t, r)

\* The bootstrapped replica satisfies the invariant.
LEMMA BootstrappedSound ==
    ASSUME NEW C \in Certificates, NEW r
    PROVE  Sound(Bootstrapped, r, C) /\ FinalizedBelowView(Bootstrapped, C)
<1> DEFINE s == Bootstrapped
<1>1. /\ Root \in Block /\ View[Root] \in Nat /\ Ancestors[Root] = {Root}
      /\ Root \in C.qcs
  BY BlockFacts, EnvironmentFacts
<1>2. /\ s.curView = View[Root] + 1 /\ s.newestQC = Root /\ s.lastViewTC = NoTC
      /\ s.highestAcknowledgedView = View[Root] /\ s.lockedOneChainView = View[Root]
      /\ s.lastTimeout = NoTimeout /\ s.stored = {Root} /\ s.forks = {Root}
      /\ s.finalized = Root /\ s.signed = {} /\ s.started = FALSE
      /\ s.pending = {} /\ s.fatal = FALSE
  BY DEF Bootstrapped
<1>3. s \in Node
  BY <1>1 DEF Bootstrapped, Node
<1> HIDE DEF s
<1>4. EnteredLegitimately(s, C) /\ SafetyDataBehind(s)
  BY <1>1, <1>2 DEF EnteredLegitimately, SafetyDataBehind
<1>5. ForestComplete(s, C) /\ SignaturesRecorded(s, r) /\ PendingInForks(s)
  BY <1>1, <1>2 DEF ForestComplete, SignaturesRecorded, PendingInForks
<1>6. FinalizedBelowView(s, C)
  BY <1>2 DEF FinalizedBelowView
<1>7. Sound(s, r, C)
  BY <1>2, <1>3, <1>4, <1>5 DEF Sound
<1> QED BY <1>6, <1>7 DEF s

\* The parent of what the compliance layer submits is known.
LEMMA SubmittedParentKnown ==
    ASSUME NEW C, NEW r, NEW s, Sound(s, r, C), NEW b \in Block, b # Root,
           \/ QC[b] \in s.stored /\ s.finalized \in Ancestors[b]
           \/ QC[b] \in s.forks
           \/ View[QC[b]] < FinalizedView(s)
    PROVE  KnownParent(s, b)
<1>1. ASSUME QC[b] \in s.stored, s.finalized \in Ancestors[b]
      PROVE  KnownParent(s, b)
  <2>1. CASE b = s.finalized
    <3>1. View[b] \in Nat
      BY BlockFacts
    <3> QED BY <2>1, <3>1 DEF KnownParent
  <2>2. CASE b # s.finalized
    <3>1. s.finalized \in Ancestors[QC[b]]
      BY <1>1, <2>2, AncestorsBasic
    <3> QED BY <1>1, <3>1 DEF Sound, ForestComplete, KnownParent
  <2> QED BY <2>1, <2>2
<1> QED BY <1>1 DEF KnownParent, FinalizedView

\* OnReceiveQc keeps the invariant.
LEMMA ReceiveQcStep ==
    ASSUME NEW C \in Certificates, NEW r, NEW s, Running(s, r, C), CanPropose(r),
           NEW qc \in C.qcs, NEW t, t = OnReceiveQc(s, r, qc)
    PROVE  Kept(s, t, r, C)
<1> DEFINE u == ProcessQC(s, qc)
<1>0. s \in Node /\ EnteredLegitimately(s, C)
  BY DEF Running, Sound
<1>1. Advances(s, u, C)
  BY <1>0, ProcessQCStep
<1>2. t \in {u, ProposeForNewViewIfPrimary(u, r)}
  BY DEF OnReceiveQc
<1> HIDE DEF u
<1> QED BY <1>1, <1>2, AdvanceAndPropose DEF Kept, Running

\* OnReceiveTc keeps the invariant.
LEMMA ReceiveTcStep ==
    ASSUME NEW C \in Certificates, NEW r, NEW s, Running(s, r, C), CanPropose(r),
           NEW tc \in C.tcs, NEW t, t = OnReceiveTc(s, r, tc)
    PROVE  Kept(s, t, r, C)
<1> DEFINE u == ProcessTC(s, tc)
<1>0. s \in Node /\ EnteredLegitimately(s, C) /\ tc \in TimeoutCertificate
  BY TCFacts DEF Running, Sound
<1>1. Advances(s, u, C)
  BY <1>0, ProcessTCStep
<1>2. t \in {u, ProposeForNewViewIfPrimary(u, r)}
  BY DEF OnReceiveTc
<1> HIDE DEF u
<1> QED BY <1>1, <1>2, AdvanceAndPropose DEF Kept, Running

\* OnPartialTcCreated keeps the invariant.
LEMMA PartialTcStep ==
    ASSUME NEW C \in Certificates, NEW r, NEW s, Running(s, r, C), CanPropose(r),
           NEW v, NEW qc \in C.qcs, NEW tc \in C.tcs \cup {NoTC},
           NEW u, u = ProcessCertificates(s, qc, tc), u.curView <= MaxView,
           TimedOut(u) => u.lastTimeout.tick < MaxTick,
           NEW t, t = OnPartialTcCreated(s, v, qc, tc)
    PROVE  Kept(s, t, r, C)
<1>0. s \in Node /\ EnteredLegitimately(s, C)
  BY DEF Running, Sound
<1>1. tc \in TimeoutCertificate \cup {NoTC} /\ (tc # NoTC => tc \in C.tcs)
  BY TCFacts
<1>2. Advances(s, u, C)
  BY <1>0, <1>1, ProcessCertificatesStep
<1>3. Running(u, r, C) /\ Forward(s, u) /\ u \in Node /\ SameSafety(s, u)
  <2>1. u \in {u, ProposeForNewViewIfPrimary(u, r)}
    OBVIOUS
  <2> QED BY <1>2, <2>1, AdvanceAndPropose DEF Advances
<1>4. t = IF u.curView = v THEN BroadcastTimeoutObject(u) ELSE u
  BY DEF OnPartialTcCreated
<1>5. CASE t = u
  BY <1>3, <1>5 DEF Kept, Running, SafetyStep
<1>6. CASE t = BroadcastTimeoutObject(u)
  <2>1. Running(t, r, C) /\ Forward(u, t) /\ (TimesOut(u, t) \/ RepeatsTimeout(u, t))
    BY <1>3, <1>6, TimeoutStep
  <2>2. t \in Node /\ t.curView = u.curView
    <3>1. t \in Node /\ u.curView \in Nat /\ t.curView \in Nat /\ u.curView <= t.curView
      BY <1>3, <2>1, NodeFields DEF Running, Sound, Forward
    <3> QED BY <1>3, <1>6, <3>1, TimeoutKeepsView
  <2>3. SafetyStep(u, t, r)
    BY <2>1, <2>2 DEF SafetyStep
  <2> QED BY <1>0, <1>3, <2>1, <2>2, <2>3, ForwardTransitive, SafetyStepAfterSame DEF Kept, Running
<1> QED BY <1>4, <1>5, <1>6

\* OnLocalTimeout keeps the invariant.
LEMMA LocalTimeoutStep ==
    ASSUME NEW C \in Certificates, NEW r, NEW s, Running(s, r, C), s.curView <= MaxView,
           TimedOut(s) => s.lastTimeout.tick < MaxTick, NEW t, t = BroadcastTimeoutObject(s)
    PROVE  Kept(s, t, r, C)
<1>1. Running(t, r, C) /\ Forward(s, t) /\ (TimesOut(s, t) \/ RepeatsTimeout(s, t))
  BY TimeoutStep
<1>2. t.curView = s.curView
  BY TimeoutKeepsView DEF Running, Sound
<1> QED BY <1>1, <1>2 DEF Kept, Running, SafetyStep

\* A crash inside a handler keeps the invariant.
LEMMA InterruptedStep ==
    ASSUME NEW C \in Certificates, NEW r, NEW s, Running(s, r, C),
           NEW b \in Block, ValidBlock(b, C), KnownParent(s, b),
           NEW t \in Interrupted(s, b)
    PROVE  Kept(s, t, r, C)
<1>0. s \in Node
  BY DEF Running, Sound
<1>1. ASSUME NEW f \in Ancestors[Incorporated(s, b).finalized], s.finalized \in Ancestors[f],
             t = Recover([Store(s, b) EXCEPT !.finalized = f], b)
      PROVE  Kept(s, t, r, C)
  <2>1. t = Recover(StoredAndFinalized(s, b, f), b)
    BY <1>1 DEF StoredAndFinalized
  <2> QED BY <1>1, <2>1, InterruptedFinalization DEF Kept, SafetyStep
<1>2. ASSUME NEW u \in {QCProcessed(s, b), TCProcessed(s, b)}, t = Recover(u, Root)
      PROVE  Kept(s, t, r, C)
  <2>1. Running(u, r, C) /\ Forward(s, u) /\ SameSafety(s, u)
    BY <1>2, ProposalProcessed
  <2>2. Sound(u, r, C) /\ FinalizedBelowView(u, C) /\ u \in Node
    BY <2>1 DEF Running, Sound
  <2>3. /\ Sound(t, r, C) /\ FinalizedBelowView(t, C) /\ Forward(u, t) /\ SameSafety(u, t)
    BY <1>2, <2>2, CrashIdleStep
  <2>4. t \in Node /\ SafetyStep(u, t, r)
    BY <2>3 DEF Sound, SafetyStep
  <2> QED BY <1>0, <2>1, <2>2, <2>3, <2>4, ForwardTransitive, SafetyStepAfterSame DEF Kept
<1> QED BY <1>1, <1>2 DEF Interrupted

=============================================================================
