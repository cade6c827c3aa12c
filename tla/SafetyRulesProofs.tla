------------------------- MODULE SafetyRulesProofs -------------------------
(***************************************************************************)
(* TLAPS proofs about SafetyRules: for every committee whose quorums       *)
(* intersect in an honest replica and every set of proposed blocks, the    *)
(* safety rules keep SafetyInv, and SafetyInv implies that finalized blocks*)
(* never conflict.                                                         *)
(***************************************************************************)
EXTENDS SafetyRules, WellFoundedInduction, TLAPS

-----------------------------------------------------------------------------
\* Certificates and validated proposals stay valid: signatures only accumulate.
LEMMA ValidationMonotone ==
    ASSUME votes \subseteq votes', timeouts \subseteq timeouts'
    PROVE  /\ \A b : ValidateQC(b) => ValidateQC(b)'
           /\ \A tc : ValidateTC(tc) => ValidateTC(tc)'
           /\ \A b : ValidateProposal(b) => ValidateProposal(b)'
<1>1. \A b : ValidateQC(b) => ValidateQC(b)'
  BY DEF ValidateQC
<1>2. \A tc : ValidateTC(tc) => ValidateTC(tc)'
  BY <1>1 DEF ValidateTC
<1>3. \A b : ValidateProposal(b) => ValidateProposal(b)'
  BY <1>1, <1>2 DEF ValidateProposal
<1> QED BY <1>1, <1>2, <1>3

-----------------------------------------------------------------------------
\* ProduceVote and ProduceTimeout only ever store views and QCs of well-formed
\* inputs.
LEMMA TypeOKNext == TypeOK /\ [Next]_vars => TypeOK'
<1> SUFFICES ASSUME TypeOK, [Next]_vars PROVE TypeOK'
  OBVIOUS
<1> USE BlockAssumption, BoundAssumption
<1>1. CASE \E r \in Replicas, b \in Block : ProduceVote(r, b)
  <2> PICK r \in Replicas, b \in Block : ProduceVote(r, b)
    BY <1>1
  <2> QED BY DEF ProduceVote, TypeOK
<1>2. ASSUME NEW v \in Views \ {View[Root]}, NEW qc \in Certified,
             NEW tc \in TCsFor(v - 1) \cup {NoTC}, NEW r \in Replicas,
             ProduceTimeout(r, v, qc, tc)
      PROVE  TypeOK'
  <2>1. v \in Nat /\ qc \in Block
    BY DEF Views, Certified
  <2>2. [view |-> v, newestQC |-> qc, tick |-> 0] \in LastTimeout
    BY <2>1 DEF LastTimeout
  <2>3. [signer |-> r, view |-> v, newestQC |-> qc] \in TimeoutObject
    BY <2>1 DEF TimeoutObject
  <2> QED BY <1>2, <2>1, <2>2, <2>3 DEF ProduceTimeout, TypeOK
<1>3. ASSUME NEW r \in Replicas, NEW v \in Views, RepeatTimeout(r, v)
      PROVE  TypeOK'
  <2>1. lastTimeout[r] \in LastTimeout
    BY <1>3 DEF RepeatTimeout, TimedOutIn, TypeOK
  <2>2. [lastTimeout[r] EXCEPT !.tick = @ + 1] \in LastTimeout
    BY <1>3, <2>1 DEF RepeatTimeout, LastTimeout
  <2>3. [signer |-> r, view |-> lastTimeout[r].view,
         newestQC |-> lastTimeout[r].newestQC] \in TimeoutObject
    BY <2>1 DEF TimeoutObject, LastTimeout
  <2> QED BY <1>3, <2>2, <2>3 DEF RepeatTimeout, TypeOK
<1>4. CASE UNCHANGED vars
  BY <1>4 DEF vars, TypeOK
<1> QED BY <1>1, <1>2, <1>3, <1>4 DEF Next

\* The safety data and the signed messages keep their types: ProduceVote and
\* ProduceTimeout only ever store views and QCs of well-formed inputs.
THEOREM TypeCorrect == Spec => []TypeOK
<1>1. Init => TypeOK
  BY BlockAssumption DEF Init, TypeOK
<1> QED BY <1>1, TypeOKNext, PTL DEF Spec

-----------------------------------------------------------------------------
\* The initial safety data of every replica satisfies the invariant.
LEMMA SafetyInvInit == Init => SafetyInv
  BY BlockAssumption DEF Init, SafetyInv, TypeOK, RootAcknowledged, VotesRecorded, NoDoubleVote,
     TimeoutsRecorded, TimeoutsRespectLock, NoDoubleTimeout

\* ProduceVote preserves the invariant: the view check puts the new vote above
\* every earlier vote and timeout of the replica.
LEMMA ProduceVotePreserves ==
    ASSUME SafetyInv, TypeOK', NEW r \in Replicas, NEW b \in Block, ProduceVote(r, b)
    PROVE  SafetyInv'
<1> USE BlockAssumption
<1>a. /\ View[b] \in Nat /\ QC[b] \in Block /\ View[QC[b]] \in Nat /\ View[Root] \in Nat
      /\ View[b] > highestAcknowledgedView[r]
      /\ View[QC[b]] < View[b]
      /\ votes' = votes \cup {<<r, b>>}
      /\ timeouts' = timeouts /\ lastTimeout' = lastTimeout
  BY DEF ProduceVote, IsSafeToVote, ValidateEvidenceForEnteringView
<1>b. /\ \A s \in Replicas : /\ highestAcknowledgedView[s] \in Nat
                               /\ highestAcknowledgedView'[s] \in Nat
                               /\ highestAcknowledgedView[s] <= highestAcknowledgedView'[s]
                               /\ lockedOneChainView[s] \in Nat
                               /\ lockedOneChainView'[s] \in Nat
                               /\ lockedOneChainView[s] <= lockedOneChainView'[s]
      /\ highestAcknowledgedView'[r] = View[b]
      /\ View[QC[b]] <= lockedOneChainView'[r]
  BY <1>a DEF ProduceVote, SafetyInv, TypeOK
<1>c. \A c : ValidateProposal(c) => ValidateProposal(c)'
  BY <1>a, ValidationMonotone
<1>d. \A c \in Block : <<r, c>> \in votes => View[c] < View[b]
  BY <1>a, <1>b DEF SafetyInv, VotesRecorded
<1>e. \A t \in timeouts : t.signer = r => t.view < View[b]
  <2> SUFFICES ASSUME NEW t \in timeouts, t.signer = r PROVE t.view < View[b]
    OBVIOUS
  <2>1. lastTimeout[r] \in LastTimeout /\ t.view \in Nat
    BY DEF SafetyInv, TypeOK, TimeoutsRecorded, TimeoutObject
  <2>2. t.view <= lastTimeout[r].view /\ lastTimeout[r].view <= highestAcknowledgedView[r]
    BY DEF SafetyInv, TimeoutsRecorded
  <2> QED BY <2>1, <2>2, <1>a, <1>b DEF LastTimeout
<1>1. VotesRecorded'
  <2> SUFFICES ASSUME NEW s \in Replicas, NEW c \in Block, <<s, c>> \in votes'
               PROVE  /\ ValidateProposal(c)'
                      /\ View[QC[c]] < View[c]
                      /\ View[Root] < View[c]
                      /\ View[c] <= highestAcknowledgedView'[s]
                      /\ View[QC[c]] <= lockedOneChainView'[s]
    BY DEF VotesRecorded
  <2>1. CASE <<s, c>> \in votes
    <3>1. /\ ValidateProposal(c)
          /\ View[QC[c]] < View[c]
          /\ View[Root] < View[c]
          /\ View[c] <= highestAcknowledgedView[s]
          /\ View[QC[c]] <= lockedOneChainView[s]
      BY <2>1 DEF SafetyInv, VotesRecorded
    <3>2. c # Root /\ View[c] \in Nat /\ View[QC[c]] \in Nat
      BY <3>1 DEF ValidateProposal
    <3> QED BY <3>1, <3>2, <1>b, <1>c
  <2>2. CASE s = r /\ c = b
    <3>1. View[Root] < View[b]
      BY <1>a, <1>b DEF SafetyInv, RootAcknowledged
    <3>2. ValidateProposal(b)
      BY DEF ProduceVote
    <3> QED BY <2>2, <3>1, <3>2, <1>a, <1>b, <1>c
  <2> QED BY <2>1, <2>2, <1>a
<1>2. NoDoubleVote'
  BY <1>a, <1>d DEF SafetyInv, NoDoubleVote
<1>3. TimeoutsRecorded'
  <2>1. \A s \in Replicas : lastTimeout[s] # NoTimeout => lastTimeout[s].view \in Nat
    BY DEF SafetyInv, TypeOK, LastTimeout
  <2> QED BY <1>a, <1>b, <2>1 DEF SafetyInv, TimeoutsRecorded
<1>4. TimeoutsRespectLock'
  <2>1. \A t \in timeouts : t.view \in Nat
    BY DEF SafetyInv, TypeOK, TimeoutObject
  <2> QED BY <1>a, <1>e, <2>1 DEF SafetyInv, TimeoutsRespectLock
<1>5. NoDoubleTimeout'
  BY <1>a DEF SafetyInv, NoDoubleTimeout
<1>6. RootAcknowledged'
  BY <1>b DEF SafetyInv, RootAcknowledged
<1> QED BY <1>1, <1>2, <1>3, <1>4, <1>5, <1>6 DEF SafetyInv

\* A first timeout in a view preserves the invariant: it is newer than every
\* earlier timeout of the replica and reports a QC no older than the lock.
LEMMA ProduceTimeoutPreserves ==
    ASSUME SafetyInv, TypeOK', NEW r \in Replicas, NEW v \in Nat, NEW qc \in Block,
           NEW tc, ProduceTimeout(r, v, qc, tc)
    PROVE  SafetyInv'
<1> USE BlockAssumption, BoundAssumption
<1> DEFINE new == [signer |-> r, view |-> v, newestQC |-> qc]
<1>a. /\ votes' = votes
      /\ lockedOneChainView' = lockedOneChainView
      /\ timeouts' = timeouts \cup {new}
      /\ View[qc] \in Nat /\ View[qc] >= lockedOneChainView[r]
      /\ v + 1 > highestAcknowledgedView[r]
  BY DEF ProduceTimeout, IsSafeToTimeout
<1>b. /\ \A s \in Replicas : /\ highestAcknowledgedView[s] \in Nat
                               /\ highestAcknowledgedView'[s] \in Nat
                               /\ highestAcknowledgedView[s] <= highestAcknowledgedView'[s]
                               /\ lockedOneChainView[s] \in Nat
      /\ highestAcknowledgedView'[r] = v
  BY <1>a DEF ProduceTimeout, SafetyInv, TypeOK
<1>c. \A c : ValidateProposal(c) => ValidateProposal(c)'
  BY <1>a, ValidationMonotone
<1>d. /\ lastTimeout'[r] = [view |-> v, newestQC |-> qc, tick |-> 0]
      /\ \A s \in Replicas \ {r} : lastTimeout'[s] = lastTimeout[s]
      /\ lastTimeout'[r] # NoTimeout
  <2>1. /\ lastTimeout'[r] = [view |-> v, newestQC |-> qc, tick |-> 0]
        /\ \A s \in Replicas \ {r} : lastTimeout'[s] = lastTimeout[s]
    BY DEF ProduceTimeout, SafetyInv, TypeOK
  <2>2. [view |-> v, newestQC |-> qc, tick |-> 0] \in LastTimeout
    BY DEF LastTimeout
  <2> QED BY <2>1, <2>2
<1>e. \A s \in Replicas : lastTimeout[s] # NoTimeout => lastTimeout[s].view \in Nat
  BY DEF SafetyInv, TypeOK, LastTimeout
<1>f. \A t \in timeouts : t.view \in Nat /\ t.signer \in Replicas /\ View[t.newestQC] \in Nat
  BY DEF SafetyInv, TypeOK, TimeoutObject
<1>g. \A t \in timeouts : t.signer = r => t.view < v
  <2> SUFFICES ASSUME NEW t \in timeouts, t.signer = r PROVE t.view < v
    OBVIOUS
  <2>1. /\ lastTimeout[r] # NoTimeout
        /\ t.view <= lastTimeout[r].view
        /\ lastTimeout[r].view <= highestAcknowledgedView[r]
    BY DEF SafetyInv, TimeoutsRecorded
  <2>2. lastTimeout[r].view # v
    BY <2>1 DEF ProduceTimeout, TimedOutIn
  <2> QED BY <2>1, <2>2, <1>a, <1>b, <1>e, <1>f
<1>1. VotesRecorded'
  <2> SUFFICES ASSUME NEW s \in Replicas, NEW c \in Block, <<s, c>> \in votes'
               PROVE  /\ ValidateProposal(c)'
                      /\ View[QC[c]] < View[c]
                      /\ View[Root] < View[c]
                      /\ View[c] <= highestAcknowledgedView'[s]
                      /\ View[QC[c]] <= lockedOneChainView'[s]
    BY DEF VotesRecorded
  <2>1. /\ ValidateProposal(c)
        /\ View[QC[c]] < View[c]
        /\ View[Root] < View[c]
        /\ View[c] <= highestAcknowledgedView[s]
        /\ View[QC[c]] <= lockedOneChainView[s]
    BY <1>a DEF SafetyInv, VotesRecorded
  <2> QED BY <2>1, <1>a, <1>b, <1>c
<1>2. NoDoubleVote'
  BY <1>a DEF SafetyInv, NoDoubleVote
<1>3. TimeoutsRecorded'
  <2>1. \A t \in timeouts' : /\ lastTimeout'[t.signer] # NoTimeout
                              /\ t.view <= lastTimeout'[t.signer].view
    <3> SUFFICES ASSUME NEW t \in timeouts'
                 PROVE  /\ lastTimeout'[t.signer] # NoTimeout
                        /\ t.view <= lastTimeout'[t.signer].view
      OBVIOUS
    <3>1. CASE t = new
      BY <3>1, <1>d
    <3>2. CASE t \in timeouts /\ t.signer = r
      BY <3>2, <1>d, <1>f, <1>g
    <3>3. CASE t \in timeouts /\ t.signer # r
      BY <3>3, <1>d, <1>f DEF SafetyInv, TimeoutsRecorded
    <3> QED BY <3>1, <3>2, <3>3, <1>a
  <2>2. \A s \in Replicas : lastTimeout'[s] # NoTimeout =>
          /\ lastTimeout'[s].view <= highestAcknowledgedView'[s]
          /\ [signer |-> s, view |-> lastTimeout'[s].view,
              newestQC |-> lastTimeout'[s].newestQC] \in timeouts'
    <3> SUFFICES ASSUME NEW s \in Replicas, lastTimeout'[s] # NoTimeout
                 PROVE  /\ lastTimeout'[s].view <= highestAcknowledgedView'[s]
                        /\ [signer |-> s, view |-> lastTimeout'[s].view,
                            newestQC |-> lastTimeout'[s].newestQC] \in timeouts'
      OBVIOUS
    <3>1. CASE s = r
      BY <3>1, <1>a, <1>b, <1>d
    <3>2. CASE s # r
      <4>1. /\ lastTimeout[s].view <= highestAcknowledgedView[s]
            /\ [signer |-> s, view |-> lastTimeout[s].view,
                newestQC |-> lastTimeout[s].newestQC] \in timeouts
        BY <3>2, <1>d DEF SafetyInv, TimeoutsRecorded
      <4> QED BY <3>2, <4>1, <1>a, <1>b, <1>d, <1>e
    <3> QED BY <3>1, <3>2
  <2> QED BY <2>1, <2>2 DEF TimeoutsRecorded
<1>4. TimeoutsRespectLock'
  <2> SUFFICES ASSUME NEW s \in Replicas, NEW c \in Block, NEW t \in timeouts',
                      <<s, c>> \in votes, t.signer = s, View[c] <= t.view
               PROVE  View[QC[c]] <= View[t.newestQC]
    BY <1>a DEF TimeoutsRespectLock
  <2>1. CASE t \in timeouts
    BY <2>1 DEF SafetyInv, TimeoutsRespectLock
  <2>2. CASE t = new
    <3>1. s = r /\ View[QC[c]] <= lockedOneChainView[r] /\ c # Root
      BY <2>2 DEF SafetyInv, VotesRecorded, ValidateProposal
    <3> QED BY <2>2, <3>1, <1>a, <1>b
  <2> QED BY <2>1, <2>2, <1>a
<1>5. NoDoubleTimeout'
  <2> SUFFICES ASSUME NEW s \in timeouts', NEW t \in timeouts',
                      s.signer = t.signer, s.view = t.view
               PROVE  s = t
    BY DEF NoDoubleTimeout
  <2>1. CASE s \in timeouts /\ t \in timeouts
    BY <2>1 DEF SafetyInv, NoDoubleTimeout
  <2>2. CASE s = new /\ t = new
    BY <2>2
  <2>3. CASE (s = new /\ t \in timeouts) \/ (t = new /\ s \in timeouts)
    BY <2>3, <1>f, <1>g
  <2> QED BY <2>1, <2>2, <2>3, <1>a
<1>6. RootAcknowledged'
  BY <1>b DEF SafetyInv, RootAcknowledged
<1> QED BY <1>1, <1>2, <1>3, <1>4, <1>5, <1>6 DEF SafetyInv

\* A repeated timeout only raises the tick: the object is already signed.
LEMMA RepeatTimeoutPreserves ==
    ASSUME SafetyInv, TypeOK', NEW r \in Replicas, NEW v, RepeatTimeout(r, v)
    PROVE  SafetyInv'
<1>a. /\ votes' = votes
      /\ highestAcknowledgedView' = highestAcknowledgedView
      /\ lockedOneChainView' = lockedOneChainView
      /\ timeouts' = timeouts
  BY DEF RepeatTimeout, TimedOutIn, SafetyInv, TimeoutsRecorded
<1>b. \A s \in Replicas :
        /\ lastTimeout[s] = NoTimeout => lastTimeout'[s] = NoTimeout
        /\ lastTimeout[s] # NoTimeout =>
              /\ lastTimeout'[s] # NoTimeout
              /\ lastTimeout'[s].view = lastTimeout[s].view
              /\ lastTimeout'[s].newestQC = lastTimeout[s].newestQC
  <2> SUFFICES ASSUME NEW s \in Replicas
               PROVE  /\ lastTimeout[s] = NoTimeout => lastTimeout'[s] = NoTimeout
                      /\ lastTimeout[s] # NoTimeout =>
                            /\ lastTimeout'[s] # NoTimeout
                            /\ lastTimeout'[s].view = lastTimeout[s].view
                            /\ lastTimeout'[s].newestQC = lastTimeout[s].newestQC
    OBVIOUS
  <2>1. CASE s # r
    BY <2>1 DEF RepeatTimeout, SafetyInv, TypeOK
  <2>2. CASE s = r
    <3>1. lastTimeout[r] # NoTimeout /\ lastTimeout[r] \in LastTimeout
      BY DEF RepeatTimeout, TimedOutIn, SafetyInv, TypeOK
    <3>2. lastTimeout'[r] = [lastTimeout[r] EXCEPT !.tick = @ + 1]
      BY DEF RepeatTimeout, SafetyInv, TypeOK
    <3>3. lastTimeout'[r] \in LastTimeout
      <4>1. lastTimeout[r].tick + 1 \in 0 .. MaxTick
        BY <3>1, BoundAssumption DEF RepeatTimeout, LastTimeout
      <4> QED BY <3>1, <3>2, <4>1 DEF LastTimeout
    <3>4. /\ lastTimeout'[r].view = lastTimeout[r].view
          /\ lastTimeout'[r].newestQC = lastTimeout[r].newestQC
      BY <3>1, <3>2 DEF LastTimeout
    <3> QED BY <2>2, <3>1, <3>3, <3>4, BlockAssumption
  <2> QED BY <2>1, <2>2
<1>c. \A c : ValidateProposal(c) => ValidateProposal(c)'
  BY <1>a, ValidationMonotone
<1>d. \A t \in timeouts : t.signer \in Replicas
  BY DEF SafetyInv, TypeOK, TimeoutObject
<1>1. VotesRecorded'
  BY <1>a, <1>c DEF SafetyInv, VotesRecorded
<1>2. NoDoubleVote' /\ NoDoubleTimeout' /\ TimeoutsRespectLock' /\ RootAcknowledged'
  BY <1>a DEF SafetyInv, NoDoubleVote, NoDoubleTimeout, TimeoutsRespectLock, RootAcknowledged
<1>3. TimeoutsRecorded'
  <2>1. \A t \in timeouts : /\ lastTimeout'[t.signer] # NoTimeout
                             /\ t.view <= lastTimeout'[t.signer].view
    <3> SUFFICES ASSUME NEW t \in timeouts
                 PROVE  /\ lastTimeout'[t.signer] # NoTimeout
                        /\ t.view <= lastTimeout'[t.signer].view
      OBVIOUS
    <3>1. lastTimeout[t.signer] # NoTimeout /\ t.view <= lastTimeout[t.signer].view
      BY DEF SafetyInv, TimeoutsRecorded
    <3>2. lastTimeout'[t.signer] # NoTimeout
      BY <3>1, <1>b, <1>d
    <3>3. lastTimeout'[t.signer].view = lastTimeout[t.signer].view
      BY <3>1, <1>b, <1>d
    <3> QED BY <3>1, <3>2, <3>3
  <2>2. ASSUME NEW s \in Replicas, lastTimeout'[s] # NoTimeout
        PROVE  /\ lastTimeout'[s].view <= highestAcknowledgedView'[s]
               /\ [signer |-> s, view |-> lastTimeout'[s].view,
                   newestQC |-> lastTimeout'[s].newestQC] \in timeouts'
    <3>1. lastTimeout[s] # NoTimeout
      BY <2>2, <1>b
    <3>2. /\ lastTimeout[s].view <= highestAcknowledgedView[s]
          /\ [signer |-> s, view |-> lastTimeout[s].view,
              newestQC |-> lastTimeout[s].newestQC] \in timeouts
      BY <3>1 DEF SafetyInv, TimeoutsRecorded
    <3>3. /\ lastTimeout'[s].view = lastTimeout[s].view
          /\ lastTimeout'[s].newestQC = lastTimeout[s].newestQC
      BY <3>1, <1>b
    <3> QED BY <3>2, <3>3, <1>a
  <2> QED BY <2>1, <2>2, <1>a DEF TimeoutsRecorded
<1> QED BY <1>1, <1>2, <1>3 DEF SafetyInv

\* The invariant is inductive.
LEMMA SafetyInvNext == SafetyInv /\ [Next]_vars => SafetyInv'
<1> SUFFICES ASSUME SafetyInv, [Next]_vars PROVE SafetyInv'
  OBVIOUS
<1>0. TypeOK'
  BY TypeOKNext DEF SafetyInv
<1>1. CASE \E r \in Replicas, b \in Block : ProduceVote(r, b)
  BY <1>0, <1>1, ProduceVotePreserves
<1>2. ASSUME NEW v \in Views \ {View[Root]}, NEW qc \in Certified,
             NEW tc \in TCsFor(v - 1) \cup {NoTC}, NEW r \in Replicas,
             ProduceTimeout(r, v, qc, tc)
      PROVE  SafetyInv'
  <2>1. v \in Nat /\ qc \in Block
    BY BlockAssumption, BoundAssumption DEF Views, Certified
  <2> QED BY <1>0, <1>2, <2>1, ProduceTimeoutPreserves
<1>3. CASE \E r \in Replicas, v \in Views : RepeatTimeout(r, v)
  BY <1>0, <1>3, RepeatTimeoutPreserves
<1>4. CASE UNCHANGED vars
  <2>1. \A c : ValidateProposal(c) => ValidateProposal(c)'
    BY <1>4, ValidationMonotone DEF vars
  <2> QED BY <1>0, <1>4, <2>1 DEF vars, SafetyInv, VotesRecorded, NoDoubleVote, NoDoubleTimeout,
             TimeoutsRespectLock, TimeoutsRecorded, RootAcknowledged
<1> QED BY <1>1, <1>2, <1>3, <1>4 DEF Next

\* The inductive invariant holds in every reachable state.
THEOREM SafetyInvariant == Spec => []SafetyInv
  BY SafetyInvInit, SafetyInvNext, PTL DEF Spec

-----------------------------------------------------------------------------
\* Every certified block but the root was validated by an honest voter.
LEMMA CertifiedIsValid ==
    ASSUME SafetyInv, NEW b \in Block \ {Root}, ValidateQC(b)
    PROVE  /\ ValidateProposal(b)
           /\ View[QC[b]] < View[b]
           /\ View[Root] < View[b]
<1>1. PICK Q \in Quorums : \A r \in Q \cap Replicas : <<r, b>> \in votes
  BY DEF ValidateQC
<1>2. PICK r \in Replicas : r \in Q
  BY QuorumAssumption
<1> QED BY <1>1, <1>2 DEF SafetyInv, VotesRecorded

\* The invariant rules out conflicting QCs: an honest replica in both quorums
\* would have voted twice in the view.
LEMMA UniqueCertificates == SafetyInv => OneQCPerView
<1> SUFFICES ASSUME SafetyInv, NEW b \in Block, NEW c \in Block,
                    ValidateQC(b), ValidateQC(c), View[b] = View[c]
             PROVE  b = c
  BY DEF OneQCPerView, Certified
<1>1. CASE b = Root /\ c = Root
  BY <1>1
<1>2. CASE (b = Root /\ c # Root) \/ (b # Root /\ c = Root)
  BY <1>2, CertifiedIsValid, BlockAssumption
<1>3. CASE b # Root /\ c # Root
  <2>1. PICK P \in Quorums : \A r \in P \cap Replicas : <<r, b>> \in votes
    BY <1>3 DEF ValidateQC
  <2>2. PICK Q \in Quorums : \A r \in Q \cap Replicas : <<r, c>> \in votes
    BY <1>3 DEF ValidateQC
  <2>3. PICK r \in Replicas : r \in P /\ r \in Q
    BY QuorumAssumption
  <2> QED BY <2>1, <2>2, <2>3 DEF SafetyInv, NoDoubleVote
<1> QED BY <1>1, <1>2, <1>3

\* An honest replica in the quorum of a QC and in that of a later TC carries the
\* lock from the block into the TC.
LEMMA LockCarriesOver ==
    ASSUME SafetyInv, NEW c \in Block \ {Root}, ValidateQC(c),
           NEW tc \in TimeoutCertificate, ValidateTC(tc), View[c] <= tc.view
    PROVE  View[tc.newestQC] >= View[QC[c]]
<1>1. PICK P \in Quorums : \A r \in P \cap Replicas : <<r, c>> \in votes
  BY DEF ValidateQC
<1>2. PICK Q \in Quorums : \A r \in Q \cap Replicas : \E t \in timeouts :
          t.signer = r /\ t.view = tc.view /\ View[t.newestQC] <= View[tc.newestQC]
  BY DEF ValidateTC
<1>3. PICK r \in Replicas : r \in P /\ r \in Q
  BY QuorumAssumption
<1>4. PICK t \in timeouts :
          t.signer = r /\ t.view = tc.view /\ View[t.newestQC] <= View[tc.newestQC]
  BY <1>2, <1>3
<1>5. View[QC[c]] <= View[t.newestQC]
  BY <1>1, <1>3, <1>4 DEF SafetyInv, TimeoutsRespectLock
<1>6. View[QC[c]] \in Nat /\ View[t.newestQC] \in Nat /\ View[tc.newestQC] \in Nat
  BY BlockAssumption DEF SafetyInv, TypeOK, TimeoutObject, TimeoutCertificate
<1> QED BY <1>4, <1>5, <1>6

\* A certified block above a finalizable block builds on a QC that is not older
\* than the finalizable block.
LEMMA ExtendsFinalizable ==
    ASSUME SafetyInv, NEW b \in Block, Finalizable(b),
           NEW c \in Block, ValidateQC(c), View[c] > View[b]
    PROVE  /\ c # Root
           /\ QC[c] \in Block /\ ValidateQC(QC[c])
           /\ View[QC[c]] < View[c]
           /\ View[QC[c]] >= View[b]
<1> USE BlockAssumption
<1>1. PICK d \in Block \ {Root} : QC[d] = b /\ View[d] = View[b] + 1 /\ ValidateQC(d)
  BY DEF Finalizable
<1>2. c # Root
  <2>1. ValidateProposal(d) /\ View[Root] < View[d]
    BY <1>1, CertifiedIsValid
  <2>2. ValidateQC(b)
    BY <1>1, <2>1 DEF ValidateProposal
  <2>3. View[Root] <= View[b]
    BY <2>2, CertifiedIsValid
  <2> QED BY <2>3
<1>3. ValidateProposal(c) /\ View[QC[c]] < View[c] /\ QC[c] \in Block
  BY <1>2, CertifiedIsValid
<1>4. ValidateQC(QC[c])
  BY <1>3 DEF ValidateProposal
<1>5. View[QC[c]] >= View[b]
  <2>1. CASE View[c] = View[d]
    BY <2>1, <1>1, UniqueCertificates DEF OneQCPerView, Certified
  <2>2. CASE View[c] > View[d] /\ View[c] = View[QC[c]] + 1
    BY <2>2, <1>1, <1>3
  <2>3. CASE View[c] > View[d] /\ View[c] # View[QC[c]] + 1
    <3>1. /\ LastViewTC[c] \in TimeoutCertificate
          /\ View[c] = LastViewTC[c].view + 1
          /\ View[QC[c]] >= View[LastViewTC[c].newestQC]
          /\ ValidateTC(LastViewTC[c])
      BY <2>3, <1>2, <1>3 DEF ValidateProposal
    <3>2. LastViewTC[c].view \in Nat /\ View[LastViewTC[c].newestQC] \in Nat
      BY <3>1 DEF TimeoutCertificate
    <3>3. View[d] <= LastViewTC[c].view
      BY <2>3, <3>1, <3>2
    <3>4. View[LastViewTC[c].newestQC] >= View[QC[d]]
      BY <3>1, <3>3, <1>1, LockCarriesOver
    <3> QED BY <3>1, <3>2, <3>4, <1>1, <1>3
  <2> QED BY <2>1, <2>2, <2>3, <1>1
<1> QED BY <1>2, <1>3, <1>4, <1>5

\* The least-number principle.
LEMMA LeastNatural ==
    ASSUME NEW S, S \subseteq Nat, S # {}
    PROVE  \E m \in S : \A n \in S : m <= n
<1>1. PICK m \in S : \A n \in S : ~ (<<n, m>> \in OpToRel(<, Nat))
  BY NatLessThanWellFounded, WFMin
<1>2. \A n \in S : ~ (n < m)
  BY <1>1 DEF OpToRel
<1> QED BY <1>2

\* Every certified block above a finalizable block descends from it: a lowest
\* one that does not would have a parent that is lower still.
LEMMA FinalizableIsAncestor ==
    ASSUME SafetyInv, NEW b \in Block, Finalizable(b),
           NEW c \in Block, ValidateQC(c), View[c] >= View[b]
    PROVE  b \in Ancestors[c]
<1> USE BlockAssumption, AncestorsAssumption
<1>a. ValidateQC(b)
  <2>1. PICK d \in Block \ {Root} : QC[d] = b /\ ValidateQC(d)
    BY DEF Finalizable
  <2> QED BY <2>1, CertifiedIsValid DEF ValidateProposal
<1> DEFINE Bad(v) == \E x \in Block : /\ View[x] = v /\ ValidateQC(x)
                                      /\ View[x] >= View[b] /\ b \notin Ancestors[x]
           S == {v \in Nat : Bad(v)}
<1>1. ASSUME S # {} PROVE FALSE
  <2>1. PICK v \in S : \A w \in S : v <= w
    BY <1>1, LeastNatural
  <2>2. PICK x \in Block : /\ View[x] = v /\ ValidateQC(x)
                           /\ View[x] >= View[b] /\ b \notin Ancestors[x]
    OBVIOUS
  <2>3. x # b
    BY <2>2
  <2>4. View[x] > View[b]
    BY <2>2, <2>3, <1>a, UniqueCertificates DEF OneQCPerView, Certified
  <2>5. /\ x # Root /\ QC[x] \in Block /\ ValidateQC(QC[x])
        /\ View[QC[x]] < View[x] /\ View[QC[x]] >= View[b]
    BY <2>2, <2>4, ExtendsFinalizable
  <2>6. b \notin Ancestors[QC[x]]
    BY <2>2, <2>5
  <2>7. View[QC[x]] \in S
    BY <2>5, <2>6
  <2> QED BY <2>1, <2>2, <2>5, <2>7
<1> QED BY <1>1

\* The invariant implies that finalizable blocks are on one chain.
LEMMA AgreementFromInvariant == SafetyInv => Agreement
<1> SUFFICES ASSUME SafetyInv, NEW b \in Block, NEW c \in Block,
                    Finalizable(b), Finalizable(c)
             PROVE  b \in Ancestors[c] \/ c \in Ancestors[b]
  BY DEF Agreement
<1>1. ValidateQC(b) /\ ValidateQC(c)
  <2>1. PICK d \in Block \ {Root} : QC[d] = b /\ ValidateQC(d)
    BY DEF Finalizable
  <2>2. PICK e \in Block \ {Root} : QC[e] = c /\ ValidateQC(e)
    BY DEF Finalizable
  <2> QED BY <2>1, <2>2, CertifiedIsValid DEF ValidateProposal
<1>2. View[b] >= View[c] \/ View[c] >= View[b]
  BY BlockAssumption
<1> QED BY <1>1, <1>2, FinalizableIsAncestor

\* Consensus safety, for every committee with an honest replica in the
\* intersection of any two quorums and every set of proposals.
THEOREM FinalizedBlocksAgree == Spec => []Agreement
  BY SafetyInvariant, AgreementFromInvariant, PTL

\* No two conflicting QCs ever exist for a view.
THEOREM QCsAreUnique == Spec => []OneQCPerView
  BY SafetyInvariant, UniqueCertificates, PTL

\* Every TC reports a QC at least as new as the lock of any certified block.
THEOREM TCsReportLock == Spec => []TCReportsLockedQC
<1>1. SafetyInv => TCReportsLockedQC
  <2> SUFFICES ASSUME SafetyInv, NEW v \in Views, NEW tc \in TCsFor(v),
                      NEW c \in Certified \ {Root}, View[c] <= v
               PROVE  View[tc.newestQC] >= View[QC[c]]
    BY DEF TCReportsLockedQC
  <2>1. tc \in TimeoutCertificate /\ tc.view = v /\ ValidateTC(tc)
    BY BlockAssumption, BoundAssumption DEF TCsFor, TimeoutCertificate, Certified, Views
  <2> QED BY <2>1, LockCarriesOver DEF Certified
<1> QED BY <1>1, SafetyInvariant, PTL

\* Honest replicas do not equivocate in their timeouts.
THEOREM TimeoutsAreUnique == Spec => []NoDoubleTimeout
<1>1. SafetyInv => NoDoubleTimeout
  BY DEF SafetyInv
<1> QED BY <1>1, SafetyInvariant, PTL

\* SafetyRules never signs a vote at or below a view it has timed out in.
THEOREM NeverVotesAfterTimeout == Spec => NoVoteAfterTimeout
<1> DEFINE Ordered == \A vote \in votes' \ votes : \A t \in timeouts :
                         t.signer = vote[1] => t.view < View[vote[2]]
<1>1. SafetyInv /\ [Next]_vars => [Ordered]_vars
  <2> SUFFICES ASSUME SafetyInv, Next, NEW vote \in votes' \ votes,
                      NEW t \in timeouts, t.signer = vote[1]
               PROVE  t.view < View[vote[2]]
    BY DEF vars
  <2>1. PICK r \in Replicas, b \in Block : ProduceVote(r, b)
    BY DEF Next, ProduceTimeout, RepeatTimeout
  <2>2. vote = <<r, b>>
    BY <2>1 DEF ProduceVote
  <2>3. View[b] > highestAcknowledgedView[r]
    BY <2>1 DEF ProduceVote, IsSafeToVote
  <2>4. /\ lastTimeout[r] # NoTimeout
        /\ t.view <= lastTimeout[r].view
        /\ lastTimeout[r].view <= highestAcknowledgedView[r]
    BY <2>2 DEF SafetyInv, TimeoutsRecorded
  <2>5. t.view \in Nat /\ lastTimeout[r].view \in Nat /\ highestAcknowledgedView[r] \in Nat
    BY <2>4 DEF SafetyInv, TypeOK, TimeoutObject, LastTimeout
  <2> QED BY <2>2, <2>3, <2>4, <2>5, BlockAssumption
<1> QED BY <1>1, SafetyInvariant, PTL DEF Spec, NoVoteAfterTimeout

=============================================================================
