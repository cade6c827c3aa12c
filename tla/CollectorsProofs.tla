------------------------- MODULE CollectorsProofs -------------------------
(***************************************************************************)
(* TLAPS proofs about Threshold, TimeoutCollector, VoteAggregator and      *)
(* EventLoop as MCCollectors composes them, and, with those about          *)
(* VoteCollector, about the whole composition.  For every committee with   *)
(* its weights, every set of timeouts and every interleaving of the        *)
(* workers, one TC and one partial TC at most are built, both are what     *)
(* their receivers take for proof, and no signer is added twice.           *)
(***************************************************************************)
EXTENDS VoteCollectorProofs, FiniteSetTheorems

-----------------------------------------------------------------------------
(***************************************************************************)
(* Threshold: sound for every total weight.                                *)
(***************************************************************************)

\* A natural number and its division by three (committees/threshold.go divides
\* unsigned integers).
LEMMA DivisionByThree ==
    ASSUME NEW n \in Nat
    PROVE  /\ n \div 3 \in Nat
           /\ n % 3 \in 0..2
           /\ n = 3 * (n \div 3) + (n % 3)
OBVIOUS

\* WeightThresholdToBuildQC is the smallest weight that is more than two thirds of
\* the total, and WeightThresholdToTimeout the smallest that is more than one third.
THEOREM ThresholdsAreExact ==
    ASSUME NEW n \in Nat \ {0}
    PROVE  /\ \A w \in Nat : w >= T!WeightThresholdToBuildQC(n) <=> 3 * w > 2 * n
           /\ \A w \in Nat : w >= T!WeightThresholdToTimeout(n) <=> 3 * w > n
<1> DEFINE q == n \div 3
           r == n % 3
<1>1. q \in Nat /\ r \in 0..2 /\ n = 3 * q + r
  BY DivisionByThree
<1>2. T!WeightThresholdToBuildQC(n) = 2 * q + (IF r <= 1 THEN 1 ELSE r)
  BY DEF T!WeightThresholdToBuildQC
<1>3. T!WeightThresholdToTimeout(n) = q + 1
  BY DEF T!WeightThresholdToTimeout
<1> HIDE DEF q, r
<1>4. ASSUME NEW w \in Nat
      PROVE  w >= T!WeightThresholdToBuildQC(n) <=> 3 * w > 2 * n
  <2>1. CASE r = 0
    BY <1>1, <1>2, <2>1
  <2>2. CASE r = 1
    BY <1>1, <1>2, <2>2
  <2>3. CASE r = 2
    BY <1>1, <1>2, <2>3
  <2>4. QED
    BY <1>1, <2>1, <2>2, <2>3
<1>5. ASSUME NEW w \in Nat
      PROVE  w >= T!WeightThresholdToTimeout(n) <=> 3 * w > n
  BY <1>1, <1>3
<1>6. QED
  BY <1>4, <1>5

\* For every total weight: two quorums share enough weight for a partial TC, less
\* than a third of the weight is not enough for one, and the rest is a quorum.
THEOREM ThresholdsSound == \A n \in Nat \ {0} : T!ThresholdsAreSound(n)
<1> TAKE n \in Nat \ {0}
<1> DEFINE Q == T!WeightThresholdToBuildQC(n)
           P == T!WeightThresholdToTimeout(n)
<1>1. Q \in Nat /\ P \in Nat
  BY DivisionByThree DEF T!WeightThresholdToBuildQC, T!WeightThresholdToTimeout
<1>2. /\ \A w \in Nat : w >= Q <=> 3 * w > 2 * n
      /\ \A w \in Nat : w >= P <=> 3 * w > n
  BY ThresholdsAreExact
<1> HIDE DEF Q, P
<1>3. 3 * Q > 2 * n
  BY <1>1, <1>2
<1>4. 2 * Q - n >= P
  <2>1. 2 * Q - n \in Nat /\ 3 * (2 * Q - n) > n
    BY <1>1, <1>3
  <2>2. QED
    BY <1>2, <2>1
<1>5. ASSUME NEW faulty \in 0..n, 3 * faulty < n
      PROVE  faulty < P /\ n - faulty >= Q
  <2>1. ~(faulty >= P)
    BY <1>1, <1>2, <1>5
  <2>2. n - faulty \in Nat /\ 3 * (n - faulty) > 2 * n
    BY <1>5
  <2>3. QED
    BY <1>1, <1>2, <2>1, <2>2
<1>6. QED
  BY <1>4, <1>5 DEF Q, P, T!ThresholdsAreSound

-----------------------------------------------------------------------------
(***************************************************************************)
(* TimeoutCollector.                                                       *)
(***************************************************************************)

\* The thresholds of this committee
QCWeight == C!WeightThresholdToBuildQC(C!WeightOf(Signers))
TimeoutWeight == C!WeightThresholdToTimeout(C!WeightOf(Signers))

SignersOf(S) == {t.signer : t \in S}

-----------------------------------------------------------------------------
(***************************************************************************)
(* The inductive invariant.                                                *)
(***************************************************************************)
CallStates ==
    {"idle", "double", "checkDone", "validate", "invalid", "trackQC", "add", "fatal",
     "trackPartial", "emitPartial", "trackTC", "aggregate", "emitTC", "reportQC",
     "reportTC", "processed"}

\* What a call of AddTimeout may rely on where it is: it has the place of its signer in
\* the cache; its timeout is valid and its QC tracked before its signature is added; the
\* weight it was given is no more than what has been added; and whoever builds a
\* certificate has won the tracker.
CallOK(t) ==
    /\ call[t].at \notin {"idle", "double"} => cache[t.signer] = t
    /\ call[t].at \in {"trackQC", "add"} => C!IsValid(t)
    /\ call[t].at = "add" => t.qc <= newestQC
    /\ call[t].at \in {"trackPartial", "emitPartial", "trackTC", "aggregate", "emitTC"} => t \in added
    /\ call[t].at \in {"trackPartial", "emitPartial", "trackTC"} => call[t].weight <= C!TotalWeight
    /\ call[t].at = "emitPartial" => partialDone /\ partialTCs = {}
    /\ call[t].at = "trackTC" /\ call[t].weight >= TimeoutWeight => partialDone
    /\ call[t].at \in {"aggregate", "emitTC"} => tcDone /\ tcs = {}
    /\ call[t].at = "aggregate" => C!TotalWeight >= QCWeight
    /\ call[t].at = "emitTC" => C!WeightOf(SignersOf(aggregate)) >= QCWeight
    /\ call[t].at = "reportTC" => t.tc # None
    /\ call[t].at # "fatal"

CallsInv == \A t \in Timeouts : CallOK(t)

\* What is in the signature aggregator is valid, tracked, and cached for its signer.
AddedOK(t) ==
    /\ t.signer \in Signers /\ cache[t.signer] = t
    /\ C!IsValid(t) /\ t.qc <= newestQC
    /\ call[t].at \notin {"idle", "double", "checkDone", "validate", "trackQC", "add"}

AddedInv == \A t \in added : AddedOK(t)

\* One call at a time holds what a tracker gives once.
TrackersInv ==
    /\ \A t, u \in Timeouts :
          call[t].at = "emitPartial" /\ call[u].at = "emitPartial" => t = u
    /\ \A t, u \in Timeouts :
          call[t].at \in {"aggregate", "emitTC"} /\ call[u].at \in {"aggregate", "emitTC"} => t = u
    /\ partialTCs # {} => partialDone
    /\ tcs # {} => tcDone
    /\ tcDone => partialDone
    /\ \A p, q \in partialTCs : p = q
    /\ \A p, q \in tcs : p = q
    /\ newestQC < View

TimeoutsInv ==
    /\ C!TypeOK
    /\ call \in [Timeouts -> [at : CallStates, weight : Nat]]
    /\ CallsInv
    /\ AddedInv
    /\ TrackersInv
    /\ C!TCIsValid
    /\ C!PartialTCProvesView

-----------------------------------------------------------------------------
(***************************************************************************)
(* Weights.                                                                *)
(***************************************************************************)

\* The instance's notion of finite sets and of their size is the usual one.
LEMMA SameFiniteSets ==
    ASSUME NEW S
    PROVE  /\ C!IsFiniteSet(S) <=> IsFiniteSet(S)
           /\ C!Cardinality(S) = Cardinality(S)
<1>1. C!IsFiniteSet(S) <=> IsFiniteSet(S)
  BY DEF C!IsFiniteSet, IsFiniteSet
<1>2. C!Cardinality(S) = Cardinality(S)
  BY DEF C!Cardinality, Cardinality
<1> QED BY <1>1, <1>2

\* What is assumed of the committee and of the timeouts
LEMMA TimeoutConstants ==
    /\ View \in Nat \ {0} /\ IsFiniteSet(Signers) /\ Weight \in [Signers -> Nat]
    /\ None \notin Timeouts
    /\ \A t \in Timeouts : t.qc \in Nat /\ (t.tc # None => t.tc.view \in Nat /\ t.tc.qc \in Nat)
BY CollectorsAssumption, SameFiniteSets DEF CollectorsAssumption, C!ConstantsAssumption

\* A committee has finitely many units of weight.
LEMMA UnitsFinite == IsFiniteSet(C!Units(Signers))
<1> DEFINE f == [s \in Signers |-> {s} \X (1 .. Weight[s])]
           All == {{s} \X (1 .. Weight[s]) : s \in Signers}
<1>1. f \in Surjection(Signers, All)
  BY DEF Surjection
<1>2. IsFiniteSet(All)
  BY <1>1, TimeoutConstants, FS_Surjection DEF ExistsSurjection
<1>3. ASSUME NEW s \in Signers PROVE IsFiniteSet({s} \X (1 .. Weight[s]))
  <2>1. Weight[s] \in Nat
    BY TimeoutConstants
  <2>2. IsFiniteSet(1 .. Weight[s])
    BY <2>1, FS_Interval
  <2>3. IsFiniteSet({s})
    BY FS_Singleton
  <2> QED BY <2>2, <2>3, FS_Product
<1>4. \A R \in All : IsFiniteSet(R)
  BY <1>3
<1> HIDE DEF All
<1>5. IsFiniteSet(UNION All)
  BY <1>2, <1>4, FS_UNION
<1> QED BY <1>5 DEF C!Units, All

\* More signers have no less weight.
LEMMA WeightMonotone ==
    ASSUME NEW S \in SUBSET Signers, NEW R \in SUBSET Signers, S \subseteq R
    PROVE  /\ C!WeightOf(S) \in Nat /\ C!WeightOf(R) \in Nat
           /\ C!WeightOf(S) <= C!WeightOf(R)
<1>1. C!Units(S) \subseteq C!Units(R) /\ C!Units(R) \subseteq C!Units(Signers)
  BY DEF C!Units
<1>2. IsFiniteSet(C!Units(R)) /\ IsFiniteSet(C!Units(S))
  BY <1>1, UnitsFinite, FS_Subset
<1>3. Cardinality(C!Units(S)) \in Nat /\ Cardinality(C!Units(R)) \in Nat
  BY <1>2, FS_CardinalityType
<1>4. Cardinality(C!Units(S)) <= Cardinality(C!Units(R))
  BY <1>1, <1>2, FS_Subset
<1> QED BY <1>3, <1>4, SameFiniteSets DEF C!WeightOf

\* The weight that TimeoutSignatureAggregator.VerifyAndAdd adds up is the weight of the
\* signers: one more signer adds its own.
LEMMA WeightAddsUp ==
    ASSUME NEW S \in SUBSET Signers, NEW s \in Signers \ S
    PROVE  C!WeightOf(S \cup {s}) = C!WeightOf(S) + Weight[s]
<1> DEFINE own == {s} \X (1 .. Weight[s])
<1>1. C!Units(S \cup {s}) = C!Units(S) \cup own
  BY DEF C!Units
<1>2. C!Units(S) \cap own = {}
  BY DEF C!Units
<1>3. IsFiniteSet(C!Units(S))
  <2>1. C!Units(S) \subseteq C!Units(Signers)
    BY DEF C!Units
  <2> QED BY <2>1, UnitsFinite, FS_Subset
<1>4. Weight[s] \in Nat
  BY TimeoutConstants
<1>5. IsFiniteSet(own) /\ Cardinality(own) = Weight[s]
  <2>1. IsFiniteSet({s}) /\ Cardinality({s}) = 1
    BY FS_Singleton
  <2>2. IsFiniteSet(1 .. Weight[s]) /\ Cardinality(1 .. Weight[s]) = Weight[s]
    BY <1>4, FS_Interval
  <2>3. IsFiniteSet(own) /\ Cardinality(own) = 1 * Weight[s]
    BY <2>1, <2>2, FS_Product
  <2> QED BY <1>4, <2>3
<1> HIDE DEF own
<1>6. Cardinality(C!Units(S) \cup own)
         = Cardinality(C!Units(S)) + Cardinality(own) - Cardinality(C!Units(S) \cap own)
  BY <1>3, <1>5, FS_Union
<1>7. Cardinality(C!Units(S)) \in Nat
  BY <1>3, FS_CardinalityType
<1>8. Cardinality(C!Units(S) \cup own) = Cardinality(C!Units(S)) + Weight[s]
  <2>1. Cardinality(C!Units(S) \cap own) = 0
    BY <1>2, FS_EmptySet
  <2> QED BY <2>1, <1>4, <1>5, <1>6, <1>7
<1>9. C!WeightOf(S) = Cardinality(C!Units(S))
  BY SameFiniteSets DEF C!WeightOf
<1>10. C!WeightOf(S \cup {s}) = Cardinality(C!Units(S \cup {s}))
  BY SameFiniteSets DEF C!WeightOf
<1> QED BY <1>1, <1>8, <1>9, <1>10

\* A TC takes no less weight than a partial TC.
LEMMA ThresholdOrder == QCWeight \in Nat /\ TimeoutWeight \in Nat /\ TimeoutWeight <= QCWeight
<1> DEFINE w == C!WeightOf(Signers)
<1>1. w \in Nat
  BY WeightMonotone
<1> HIDE DEF w
<1>2. w \div 3 \in Nat /\ w % 3 \in 0 .. 2
  BY <1>1
<1>3. QCWeight = 2 * (w \div 3) + (IF w % 3 <= 1 THEN 1 ELSE w % 3)
  BY DEF QCWeight, w, C!WeightThresholdToBuildQC
<1>4. TimeoutWeight = w \div 3 + 1
  BY DEF TimeoutWeight, w, C!WeightThresholdToTimeout
<1> QED BY <1>2, <1>3, <1>4

-----------------------------------------------------------------------------
(***************************************************************************)
(* The invariant holds at the start and is kept by every step.             *)
(***************************************************************************)

\* Init of TimeoutCollector establishes the invariant.
LEMMA TimeoutsInit == C!Init => TimeoutsInv
<1> SUFFICES ASSUME C!Init PROVE TimeoutsInv
  OBVIOUS
<1> USE TimeoutConstants DEF C!Init
<1>1. C!TypeOK
  <2>1. newestQC \in 0 .. View /\ {newestReportedQC, newestReportedTC} \subseteq Nat
    OBVIOUS
  <2>2. cache \in [{t.signer : t \in Timeouts} -> Timeouts \cup {None}]
    OBVIOUS
  <2>3. DOMAIN call = Timeouts /\ {partialDone, tcDone} \subseteq BOOLEAN
    OBVIOUS
  <2> QED BY <2>1, <2>2, <2>3 DEF C!TypeOK
<1>2. call \in [Timeouts -> [at : CallStates, weight : Nat]]
  BY DEF CallStates
<1>3. CallsInv
  BY DEF CallsInv, CallOK
<1>4. AddedInv /\ TrackersInv /\ C!TCIsValid /\ C!PartialTCProvesView
  BY DEF AddedInv, TrackersInv, C!TCIsValid, C!PartialTCProvesView
<1> QED BY <1>1, <1>2, <1>3, <1>4 DEF TimeoutsInv

\* Goto moves one call and leaves its weight and the other calls alone.
LEMMA GotoMoves ==
    ASSUME call \in [Timeouts -> [at : CallStates, weight : Nat]],
           NEW t \in Timeouts, NEW pc \in CallStates, C!Goto(t, pc)
    PROVE  /\ call' \in [Timeouts -> [at : CallStates, weight : Nat]]
           /\ call'[t].at = pc /\ call'[t].weight = call[t].weight
           /\ \A u \in Timeouts \ {t} : call'[u] = call[u]
BY DEF C!Goto

\* The weight that has been added is a number, and grows with what is added.
LEMMA TotalWeightGrows ==
    ASSUME TimeoutsInv,
           \A u \in added' \ added : u.signer \in Signers,
           added \subseteq added'
    PROVE  /\ C!TotalWeight \in Nat /\ C!TotalWeight' \in Nat
           /\ C!TotalWeight <= C!TotalWeight'
<1> DEFINE S == {u.signer : u \in added}
           R == {u.signer : u \in added'}
<1>1. S \in SUBSET Signers /\ R \in SUBSET Signers /\ S \subseteq R
  BY DEF TimeoutsInv, AddedInv, AddedOK
<1> HIDE DEF S, R
<1>2. C!WeightOf(S) \in Nat /\ C!WeightOf(R) \in Nat /\ C!WeightOf(S) <= C!WeightOf(R)
  BY <1>1, WeightMonotone
<1>3. C!TotalWeight = C!WeightOf(S)
  BY DEF C!TotalWeight, S
<1>4. C!TotalWeight' = C!WeightOf(R)
  BY DEF C!TotalWeight, R, C!WeightOf, C!Units
<1> QED BY <1>2, <1>3, <1>4

\* What a call relies on survives the steps of the others that only add to the cache,
\* the newest QC and the signatures, and leave alone what the call has won.
LEMMA OthersKept ==
    ASSUME TimeoutsInv, NEW u \in Timeouts, call'[u] = call[u],
           cache[u.signer] = u => cache'[u.signer] = u,
           newestQC' \in Nat, newestQC <= newestQC',
           added \subseteq added', \A w \in added' \ added : w.signer \in Signers,
           partialDone => partialDone', tcDone => tcDone',
           call[u].at = "emitPartial" => partialTCs' = partialTCs,
           call[u].at \in {"aggregate", "emitTC"} => tcs' = tcs /\ aggregate' = aggregate
    PROVE  CallOK(u)'
<1>1. CallOK(u)
  BY DEF TimeoutsInv, CallsInv
<1>2. /\ C!TotalWeight \in Nat /\ C!TotalWeight' \in Nat
      /\ C!TotalWeight <= C!TotalWeight'
  BY TotalWeightGrows
<1>3. QCWeight' = QCWeight /\ TimeoutWeight' = TimeoutWeight
  BY DEF QCWeight, TimeoutWeight
<1>4. call[u].weight \in Nat /\ newestQC \in Nat /\ u.qc \in Nat
  BY TimeoutConstants DEF TimeoutsInv, C!TypeOK
<1>5. C!IsValid(u)' <=> C!IsValid(u)
  BY DEF C!IsValid
<1>6. call[u].at = "emitTC" => C!WeightOf(SignersOf(aggregate))' = C!WeightOf(SignersOf(aggregate))
  BY DEF C!WeightOf, C!Units, SignersOf
<1>7. call[u].at = "emitTC" => (C!WeightOf(SignersOf(aggregate)) >= QCWeight)'
  BY <1>1, <1>3, <1>6 DEF CallOK
<1>8. call[u].at = "aggregate" => (C!TotalWeight >= QCWeight)'
  BY <1>1, <1>2, <1>3, ThresholdOrder DEF CallOK
<1>9. call[u].at \in {"trackPartial", "emitPartial", "trackTC"} => call[u].weight <= C!TotalWeight'
  BY <1>1, <1>2, <1>4 DEF CallOK
<1>10. call[u].at = "add" => u.qc <= newestQC'
  BY <1>1, <1>4 DEF CallOK
<1> QED BY <1>1, <1>3, <1>5, <1>7, <1>8, <1>9, <1>10 DEF CallOK

\* The steps that move a call and otherwise only report a certificate
LEMMA QuietStep ==
    ASSUME TimeoutsInv, NEW t \in Timeouts,
           NEW pc \in {"double", "validate", "invalid", "trackQC", "reportQC", "reportTC",
                       "processed"},
           call[t].at \in {"idle", "checkDone", "validate", "add", "reportQC", "reportTC"},
           pc \in {"validate", "trackQC"} => call[t].at \in {"checkDone", "validate"},
           pc = "double" <=> call[t].at = "idle",
           pc = "trackQC" => C!IsValid(t), pc = "reportTC" => t.tc # None,
           C!Goto(t, pc),
           UNCHANGED <<cache, newestQC, added, partialDone, tcDone, aggregate, partialTCs, tcs>>,
           {newestReportedQC, newestReportedTC}' \subseteq Nat, reported' \subseteq Timeouts
    PROVE  TimeoutsInv'
<1>1. /\ call' \in [Timeouts -> [at : CallStates, weight : Nat]]
      /\ call'[t].at = pc /\ call'[t].weight = call[t].weight
      /\ \A u \in Timeouts \ {t} : call'[u] = call[u]
  BY GotoMoves DEF TimeoutsInv, CallStates
<1>2. C!TypeOK'
  BY <1>1 DEF TimeoutsInv, C!TypeOK
<1>3. CallsInv'
  <2> SUFFICES ASSUME NEW u \in Timeouts PROVE CallOK(u)'
    BY DEF CallsInv
  <2>1. CASE u = t
    BY <1>1, <2>1 DEF TimeoutsInv, CallsInv, CallOK, C!IsValid
  <2>2. CASE u # t
    <3>1. newestQC' \in Nat /\ newestQC <= newestQC'
      BY TimeoutConstants DEF TimeoutsInv, C!TypeOK
    <3> QED BY <1>1, <2>2, <3>1, OthersKept
  <2> QED BY <2>1, <2>2
<1>4. AddedInv'
  <2> SUFFICES ASSUME NEW u \in added' PROVE AddedOK(u)'
    BY DEF AddedInv
  <2>1. u \in Timeouts
    BY DEF TimeoutsInv, C!TypeOK
  <2>2. CASE u = t
    BY <1>1, <2>2 DEF TimeoutsInv, AddedInv, AddedOK, C!IsValid
  <2>3. CASE u # t
    BY <1>1, <2>1, <2>3 DEF TimeoutsInv, AddedInv, AddedOK, C!IsValid
  <2> QED BY <2>2, <2>3
<1>5. TrackersInv'
  BY <1>1 DEF TimeoutsInv, TrackersInv
<1>6. C!TCIsValid' /\ C!PartialTCProvesView'
  BY DEF TimeoutsInv, C!TCIsValid, C!PartialTCProvesView, C!WeightOf, C!Units
<1> QED BY <1>1, <1>2, <1>3, <1>4, <1>5, <1>6 DEF TimeoutsInv

\* AddTimeout caches the timeout and starts a task for it.
LEMMA AddTimeoutStep ==
    ASSUME TimeoutsInv, NEW t \in Timeouts, C!AddTimeout(t) PROVE TimeoutsInv'
<1>0. TimeoutsInv /\ call[t].at = "idle"
  BY DEF C!AddTimeout, C!At
<1>1. CASE cache[t.signer] # None
  <2>1. C!Goto(t, "double")
    BY <1>1 DEF C!AddTimeout
  <2>2. /\ UNCHANGED <<cache, newestQC, added, partialDone, tcDone, aggregate, partialTCs, tcs>>
        /\ {newestReportedQC, newestReportedTC}' \subseteq Nat /\ reported' \subseteq Timeouts
    BY <1>1 DEF C!AddTimeout, TimeoutsInv, C!TypeOK
  <2> QED BY <1>0, <2>1, <2>2, QuietStep
<1>2. CASE cache[t.signer] = None
  <2>1. /\ cache' = [cache EXCEPT ![t.signer] = t]
        /\ C!Goto(t, "checkDone")
        /\ UNCHANGED <<newestQC, added, partialDone, tcDone, aggregate, newestReportedQC,
                       newestReportedTC, partialTCs, tcs, reported>>
    BY <1>2 DEF C!AddTimeout
  <2>2. /\ call' \in [Timeouts -> [at : CallStates, weight : Nat]]
        /\ call'[t].at = "checkDone" /\ call'[t].weight = call[t].weight
        /\ \A u \in Timeouts \ {t} : call'[u] = call[u]
    BY <1>0, <2>1, GotoMoves DEF TimeoutsInv, CallStates
  <2>3. /\ cache' \in [{u.signer : u \in Timeouts} -> Timeouts \cup {None}]
        /\ cache'[t.signer] = t
        /\ \A u \in Timeouts : cache[u.signer] = u => cache'[u.signer] = u
    BY <1>2, <2>1, TimeoutConstants DEF TimeoutsInv, C!TypeOK
  <2>4. C!TypeOK'
    BY <2>1, <2>2, <2>3 DEF TimeoutsInv, C!TypeOK
  <2>5. CallsInv'
    <3> SUFFICES ASSUME NEW u \in Timeouts PROVE CallOK(u)'
      BY DEF CallsInv
    <3>1. CASE u = t
      BY <2>2, <2>3, <3>1 DEF CallOK
    <3>2. CASE u # t
      <4>1. newestQC' \in Nat /\ newestQC <= newestQC'
        BY <2>1, TimeoutConstants DEF TimeoutsInv, C!TypeOK
      <4> QED BY <2>1, <2>2, <2>3, <3>2, <4>1, OthersKept
    <3> QED BY <3>1, <3>2
  <2>6. AddedInv'
    <3> SUFFICES ASSUME NEW u \in added' PROVE AddedOK(u)'
      BY DEF AddedInv
    <3>1. u \in Timeouts /\ AddedOK(u)
      BY <2>1 DEF TimeoutsInv, C!TypeOK, AddedInv
    <3>2. u # t
      BY <1>0, <3>1 DEF AddedOK
    <3> QED BY <2>1, <2>2, <2>3, <3>1, <3>2 DEF AddedOK, C!IsValid
  <2>7. TrackersInv'
    BY <2>1, <2>2 DEF TimeoutsInv, TrackersInv
  <2>8. C!TCIsValid' /\ C!PartialTCProvesView'
    BY <2>1 DEF TimeoutsInv, C!TCIsValid, C!PartialTCProvesView, C!WeightOf, C!Units
  <2> QED BY <2>2, <2>4, <2>5, <2>6, <2>7, <2>8 DEF TimeoutsInv
<1> QED BY <1>1, <1>2

\* A task reads whether the TC is already built.
LEMMA CheckDoneStep ==
    ASSUME TimeoutsInv, NEW t \in Timeouts, C!CheckDone(t) PROVE TimeoutsInv'
<1> DEFINE pc == IF tcDone THEN "reportQC" ELSE "validate"
<1>1. /\ call[t].at = "checkDone" /\ C!Goto(t, pc)
      /\ pc \in {"reportQC", "validate"}
  BY DEF C!CheckDone, C!At
<1> HIDE DEF pc
<1> QED BY <1>1, QuietStep DEF C!CheckDone, TimeoutsInv, C!TypeOK

\* A task validates the timeout, which changes no certificate.
LEMMA ValidateStep ==
    ASSUME TimeoutsInv, NEW t \in Timeouts, C!Validate(t) PROVE TimeoutsInv'
<1>1. PICK pc \in {"invalid", "reportQC", "trackQC"} :
         /\ call[t].at = "validate" /\ C!Goto(t, pc)
         /\ pc = "trackQC" => C!IsValid(t)
  BY DEF C!Validate, C!At
<1> QED BY <1>1, QuietStep DEF C!Validate, TimeoutsInv, C!TypeOK

\* A task reports the QC of its timeout when it is a newer one.
LEMMA ReportQCStep ==
    ASSUME TimeoutsInv, NEW t \in Timeouts, C!ReportQC(t) PROVE TimeoutsInv'
<1>1. PICK pc \in {"processed", "reportTC"} :
         /\ call[t].at = "reportQC" /\ C!Goto(t, pc)
         /\ pc = "reportTC" => t.tc # None
  BY DEF C!ReportQC, C!At
<1>2. {newestReportedQC, newestReportedTC}' \subseteq Nat /\ reported' \subseteq Timeouts
  BY TimeoutConstants DEF C!ReportQC, TimeoutsInv, C!TypeOK
<1> QED BY <1>1, <1>2, QuietStep DEF C!ReportQC

\* A task reports the TC of its timeout when it is a newer one.
LEMMA ReportTCStep ==
    ASSUME TimeoutsInv, NEW t \in Timeouts, C!ReportTC(t) PROVE TimeoutsInv'
<1>1. call[t].at = "reportTC" /\ C!Goto(t, "processed")
  BY DEF C!ReportTC, C!At
<1>2. {newestReportedQC, newestReportedTC}' \subseteq Nat /\ reported' \subseteq Timeouts
  <2>1. t.tc.view \in Nat
    BY <1>1, TimeoutConstants DEF TimeoutsInv, CallsInv, CallOK
  <2> QED BY <2>1 DEF C!ReportTC, TimeoutsInv, C!TypeOK
<1> QED BY <1>1, <1>2, QuietStep DEF C!ReportTC

\* The newest QC only gets newer, and stays below the view.
LEMMA TrackNewestQCStep ==
    ASSUME TimeoutsInv, NEW t \in Timeouts, C!TrackNewestQC(t) PROVE TimeoutsInv'
<1>0. /\ call[t].at = "trackQC" /\ C!Goto(t, "add")
      /\ newestQC' = IF t.qc > newestQC THEN t.qc ELSE newestQC
      /\ UNCHANGED <<cache, added, partialDone, tcDone, aggregate, newestReportedQC,
                     newestReportedTC, partialTCs, tcs, reported>>
  BY DEF C!TrackNewestQC, C!At
<1>1. /\ call' \in [Timeouts -> [at : CallStates, weight : Nat]]
      /\ call'[t].at = "add" /\ call'[t].weight = call[t].weight
      /\ \A u \in Timeouts \ {t} : call'[u] = call[u]
  BY <1>0, GotoMoves DEF TimeoutsInv, CallStates
<1>2. C!IsValid(t) /\ t.qc \in Nat /\ t.qc < View /\ cache[t.signer] = t
  BY <1>0, TimeoutConstants DEF TimeoutsInv, CallsInv, CallOK, C!IsValid
<1>3. newestQC \in Nat /\ newestQC < View /\ View \in Nat
  BY TimeoutConstants DEF TimeoutsInv, TrackersInv, C!TypeOK
<1>4. newestQC' \in Nat /\ newestQC <= newestQC' /\ newestQC' < View /\ t.qc <= newestQC'
  BY <1>0, <1>2, <1>3
<1>5. C!TypeOK'
  BY <1>0, <1>1, <1>3, <1>4 DEF TimeoutsInv, C!TypeOK
<1>6. CallsInv'
  <2> SUFFICES ASSUME NEW u \in Timeouts PROVE CallOK(u)'
    BY DEF CallsInv
  <2>1. CASE u = t
    BY <1>0, <1>1, <1>2, <1>4, <2>1 DEF CallOK, C!IsValid
  <2>2. CASE u # t
    BY <1>0, <1>1, <1>4, <2>2, OthersKept
  <2> QED BY <2>1, <2>2
<1>7. AddedInv'
  <2> SUFFICES ASSUME NEW u \in added' PROVE AddedOK(u)'
    BY DEF AddedInv
  <2>1. u \in Timeouts /\ AddedOK(u)
    BY <1>0 DEF TimeoutsInv, C!TypeOK, AddedInv
  <2>2. u # t
    BY <1>0, <2>1 DEF AddedOK
  <2>3. u.qc <= newestQC'
    BY <1>3, <1>4, <2>1, TimeoutConstants DEF AddedOK
  <2> QED BY <1>0, <1>1, <2>1, <2>2, <2>3 DEF AddedOK, C!IsValid
<1>8. TrackersInv'
  BY <1>0, <1>1, <1>4 DEF TimeoutsInv, TrackersInv
<1>9. C!TCIsValid' /\ C!PartialTCProvesView'
  BY <1>0 DEF TimeoutsInv, C!TCIsValid, C!PartialTCProvesView, C!WeightOf, C!Units
<1> QED BY <1>1, <1>5, <1>6, <1>7, <1>8, <1>9 DEF TimeoutsInv

\* A signer is added once: who is cached for the signer is the one who adds.
LEMMA VerifyAndAddStep ==
    ASSUME TimeoutsInv, NEW t \in Timeouts, C!VerifyAndAdd(t) PROVE TimeoutsInv'
<1> DEFINE all == {u.signer : u \in added}
<1>0. /\ call[t].at = "add"
      /\ UNCHANGED <<cache, newestQC, partialDone, tcDone, aggregate,
                     newestReportedQC, newestReportedTC, partialTCs, tcs, reported>>
  BY DEF C!VerifyAndAdd, C!At
<1>1. C!IsValid(t) /\ t.qc <= newestQC /\ cache[t.signer] = t
  BY <1>0 DEF TimeoutsInv, CallsInv, CallOK
<1>2. t.signer \notin all
  <2> SUFFICES ASSUME NEW u \in added, u.signer = t.signer PROVE FALSE
    OBVIOUS
  <2>1. AddedOK(u)
    BY DEF TimeoutsInv, AddedInv
  <2> QED BY <1>0, <1>1, <2>1 DEF AddedOK
<1>3. CASE C!Goto(t, "invalid") /\ UNCHANGED added
  <2>1. {newestReportedQC, newestReportedTC}' \subseteq Nat /\ reported' \subseteq Timeouts
    BY <1>0 DEF TimeoutsInv, C!TypeOK
  <2> QED BY <1>0, <1>3, <2>1, QuietStep
<1>4. CASE /\ t.signer \in Signers \ all
           /\ added' = added \cup {t}
           /\ call' = [call EXCEPT ![t] = [at |-> "trackPartial",
                                           weight |-> C!WeightOf(all \cup {t.signer})]]
  <2>1. all \cup {t.signer} \in SUBSET Signers
    BY <1>4 DEF TimeoutsInv, AddedInv, AddedOK
  <2>2. C!WeightOf(all \cup {t.signer}) \in Nat
    BY <2>1, WeightMonotone
  <2>3. /\ call' \in [Timeouts -> [at : CallStates, weight : Nat]]
        /\ call'[t].at = "trackPartial" /\ call'[t].weight = C!WeightOf(all \cup {t.signer})
        /\ \A u \in Timeouts \ {t} : call'[u] = call[u]
    <3> HIDE DEF all
    <3> QED BY <1>4, <2>2 DEF TimeoutsInv, CallStates
  <2>4. call'[t].weight = C!TotalWeight'
    <3>1. {u.signer : u \in added'} = all \cup {t.signer}
      BY <1>4
    <3>2. C!TotalWeight' = C!WeightOf({u.signer : u \in added'})
      BY DEF C!TotalWeight, C!WeightOf, C!Units
    <3> HIDE DEF all
    <3> QED BY <2>3, <3>1, <3>2
  <2>5. newestQC' \in Nat /\ newestQC <= newestQC'
    BY <1>0, TimeoutConstants DEF TimeoutsInv, C!TypeOK
  <2>6. C!TypeOK'
    BY <1>0, <1>4, <2>3 DEF TimeoutsInv, C!TypeOK
  <2>7. CallsInv'
    <3> SUFFICES ASSUME NEW u \in Timeouts PROVE CallOK(u)'
      BY DEF CallsInv
    <3>1. CASE u = t
      <4>1. (call[t].weight <= C!TotalWeight)'
        BY <2>2, <2>3, <2>4
      <4> QED BY <1>0, <1>1, <1>4, <2>3, <3>1, <4>1 DEF CallOK
    <3>2. CASE u # t
      <4>1. \A w \in added' \ added : w.signer \in Signers
        BY <1>4
      <4>2. added \subseteq added' /\ call'[u] = call[u]
        BY <1>4, <2>3, <3>2
      <4> QED BY <1>0, <2>5, <4>1, <4>2, OthersKept
    <3> QED BY <3>1, <3>2
  <2>8. AddedInv'
    <3> SUFFICES ASSUME NEW u \in added' PROVE AddedOK(u)'
      BY DEF AddedInv
    <3>1. CASE u = t
      BY <1>0, <1>1, <1>4, <2>3, <3>1 DEF AddedOK, C!IsValid
    <3>2. CASE u # t
      <4>1. u \in Timeouts /\ AddedOK(u)
        BY <1>4, <3>2 DEF TimeoutsInv, C!TypeOK, AddedInv
      <4> QED BY <1>0, <2>3, <3>2, <4>1 DEF AddedOK, C!IsValid
    <3> QED BY <3>1, <3>2
  <2>9. TrackersInv'
    BY <1>0, <2>3 DEF TimeoutsInv, TrackersInv
  <2>10. C!TCIsValid' /\ C!PartialTCProvesView'
    BY <1>0 DEF TimeoutsInv, C!TCIsValid, C!PartialTCProvesView, C!WeightOf, C!Units
  <2> QED BY <2>3, <2>6, <2>7, <2>8, <2>9, <2>10 DEF TimeoutsInv
<1> QED BY <1>2, <1>3, <1>4 DEF C!VerifyAndAdd

\* What has no effect on a call but to move it on: the steps of the certificates
LEMMA AddedKept ==
    ASSUME TimeoutsInv, NEW t \in Timeouts, UNCHANGED <<cache, newestQC, added>>,
           call'[t].at \in {"emitPartial", "trackTC", "aggregate", "emitTC", "reportQC"},
           \A u \in Timeouts \ {t} : call'[u] = call[u]
    PROVE  AddedInv'
<1> SUFFICES ASSUME NEW u \in added' PROVE AddedOK(u)'
  BY DEF AddedInv
<1>1. u \in Timeouts /\ AddedOK(u)
  BY DEF TimeoutsInv, C!TypeOK, AddedInv
<1>2. CASE u = t
  BY <1>1, <1>2 DEF AddedOK, C!IsValid
<1>3. CASE u # t
  BY <1>1, <1>3 DEF AddedOK, C!IsValid
<1> QED BY <1>2, <1>3

\* Who passes the partial tracker is the only one to emit a partial TC.
LEMMA TrackPartialTCStep ==
    ASSUME TimeoutsInv, NEW t \in Timeouts, C!TrackPartialTC(t) PROVE TimeoutsInv'
<1> DEFINE passes == call[t].weight >= TimeoutWeight /\ ~partialDone
           pc == IF passes THEN "emitPartial" ELSE "trackTC"
<1>0. /\ call[t].at = "trackPartial" /\ C!Goto(t, pc)
      /\ partialDone' = (partialDone \/ passes)
      /\ UNCHANGED <<cache, newestQC, added, tcDone, aggregate,
                     newestReportedQC, newestReportedTC, partialTCs, tcs, reported>>
  BY DEF C!TrackPartialTC, C!At, TimeoutWeight
<1>1. newestQC' \in Nat /\ newestQC <= newestQC' /\ newestQC \in Nat
  BY <1>0, TimeoutConstants DEF TimeoutsInv, C!TypeOK
<1>2. CallOK(t) /\ t \in added /\ AddedOK(t)
  BY <1>0 DEF TimeoutsInv, CallsInv, CallOK, AddedInv
<1>3. /\ call' \in [Timeouts -> [at : CallStates, weight : Nat]]
      /\ call'[t].at = pc /\ call'[t].weight = call[t].weight
      /\ \A u \in Timeouts \ {t} : call'[u] = call[u]
  <2>1. pc \in CallStates
    BY DEF CallStates
  <2> HIDE DEF pc
  <2> QED BY <1>0, <2>1, GotoMoves DEF TimeoutsInv
<1>4. C!TypeOK'
  BY <1>0, <1>3 DEF TimeoutsInv, C!TypeOK
<1>5. CallsInv'
  <2> SUFFICES ASSUME NEW u \in Timeouts PROVE CallOK(u)'
    BY DEF CallsInv
  <2>1. CASE u = t
    <3>1. (call[t].weight <= C!TotalWeight)'
      BY <1>0, <1>2, <1>3, TotalWeightGrows DEF CallOK, C!TotalWeight, C!WeightOf, C!Units
    <3>2. pc = "emitPartial" => partialDone' /\ partialTCs' = {}
      BY <1>0 DEF TimeoutsInv, TrackersInv
    <3>3. TimeoutWeight' = TimeoutWeight
      BY DEF TimeoutWeight
    <3>4. pc = "trackTC" /\ call[t].weight >= TimeoutWeight => partialDone'
      BY <1>0
    <3>5. pc \in {"emitPartial", "trackTC"}
      OBVIOUS
    <3> HIDE DEF pc
    <3> QED BY <1>0, <1>2, <1>3, <2>1, <3>1, <3>2, <3>3, <3>4, <3>5 DEF CallOK
  <2>2. CASE u # t
    BY <1>0, <1>1, <1>3, <2>2, OthersKept
  <2> QED BY <2>1, <2>2
<1>6. AddedInv'
  BY <1>0, <1>3, AddedKept
<1>7. TrackersInv'
  <2>1. \A u \in Timeouts : call[u].at = "emitPartial" => partialDone
    BY DEF TimeoutsInv, CallsInv, CallOK
  <2>2. ASSUME NEW u \in Timeouts, NEW w \in Timeouts,
               call'[u].at = "emitPartial", call'[w].at = "emitPartial"
        PROVE  u = w
    BY <1>3, <2>1, <2>2 DEF TimeoutsInv, TrackersInv
  <2>3. ASSUME NEW u \in Timeouts, NEW w \in Timeouts,
               call'[u].at \in {"aggregate", "emitTC"}, call'[w].at \in {"aggregate", "emitTC"}
        PROVE  u = w
    BY <1>3, <2>3 DEF TimeoutsInv, TrackersInv
  <2> QED BY <1>0, <2>2, <2>3 DEF TimeoutsInv, TrackersInv
<1>8. C!TCIsValid' /\ C!PartialTCProvesView'
  BY <1>0 DEF TimeoutsInv, C!TCIsValid, C!PartialTCProvesView, C!WeightOf, C!Units
<1> QED BY <1>3, <1>4, <1>5, <1>6, <1>7, <1>8 DEF TimeoutsInv

\* The partial TC takes its TC from a timeout whose QC is no newer than the one tracked.
LEMMA OnPartialTcCreatedStep ==
    ASSUME TimeoutsInv, NEW t \in Timeouts, C!OnPartialTcCreated(t) PROVE TimeoutsInv'
<1> DEFINE p == [qc |-> newestQC, tc |-> t.tc, by |-> t]
<1>0. /\ call[t].at = "emitPartial" /\ C!Goto(t, "trackTC")
      /\ partialTCs' = partialTCs \cup {p}
      /\ UNCHANGED <<cache, newestQC, added, partialDone, tcDone, aggregate,
                     newestReportedQC, newestReportedTC, tcs, reported>>
  BY DEF C!OnPartialTcCreated, C!At
<1>1. newestQC' \in Nat /\ newestQC <= newestQC' /\ newestQC \in Nat
  BY <1>0, TimeoutConstants DEF TimeoutsInv, C!TypeOK
<1>2. CallOK(t) /\ t \in added /\ AddedOK(t)
  BY <1>0 DEF TimeoutsInv, CallsInv, CallOK, AddedInv
<1>3. /\ call' \in [Timeouts -> [at : CallStates, weight : Nat]]
      /\ call'[t].at = "trackTC" /\ call'[t].weight = call[t].weight
      /\ \A u \in Timeouts \ {t} : call'[u] = call[u]
  BY <1>0, GotoMoves DEF TimeoutsInv, CallStates
<1>4. C!TypeOK'
  BY <1>0, <1>3 DEF TimeoutsInv, C!TypeOK
<1>5. CallsInv'
  <2> SUFFICES ASSUME NEW u \in Timeouts PROVE CallOK(u)'
    BY DEF CallsInv
  <2>1. CASE u = t
    <3>1. (call[t].weight <= C!TotalWeight)'
      BY <1>0, <1>2, <1>3, TotalWeightGrows DEF CallOK, C!TotalWeight, C!WeightOf, C!Units
    <3> QED BY <1>0, <1>2, <1>3, <2>1, <3>1 DEF CallOK
  <2>2. CASE u # t
    <3>1. call[u].at # "emitPartial"
      BY <1>0, <2>2 DEF TimeoutsInv, TrackersInv
    <3> QED BY <1>0, <1>1, <1>3, <2>2, <3>1, OthersKept
  <2> QED BY <2>1, <2>2
<1>6. AddedInv'
  BY <1>0, <1>3, AddedKept
<1>7. TrackersInv'
  <2>1. partialTCs = {} /\ partialDone
    BY <1>0, <1>2 DEF CallOK
  <2>2. \A q, r \in partialTCs' : q = r
    BY <1>0, <2>1
  <2> QED BY <1>0, <1>3, <2>1, <2>2 DEF TimeoutsInv, TrackersInv
<1>8. C!PartialTCProvesView'
  <2> SUFFICES ASSUME NEW q \in partialTCs'
               PROVE  (q.qc + 1 = View \/ q.tc # None) /\ (q.tc # None => q.tc.qc <= q.qc)
    BY DEF C!PartialTCProvesView
  <2>1. CASE q \in partialTCs
    BY <2>1 DEF TimeoutsInv, C!PartialTCProvesView
  <2>2. CASE q = p
    <3>1. q.qc = newestQC /\ q.tc = t.tc
      BY <2>2
    <3>2. newestQC < View /\ View \in Nat /\ t.qc \in Nat
      BY TimeoutConstants DEF TimeoutsInv, TrackersInv
    <3>3. /\ t.qc <= newestQC /\ (t.qc + 1 = View \/ t.tc # None)
          /\ t.tc # None => t.tc.qc <= t.qc /\ t.tc.qc \in Nat
      BY <1>2, TimeoutConstants DEF AddedOK, C!IsValid
    <3> QED BY <1>1, <3>1, <3>2, <3>3
  <2> QED BY <1>0, <2>1, <2>2
<1>9. C!TCIsValid'
  BY <1>0 DEF TimeoutsInv, C!TCIsValid, C!WeightOf, C!Units
<1> QED BY <1>3, <1>4, <1>5, <1>6, <1>7, <1>8, <1>9 DEF TimeoutsInv

\* Who passes the tracker of the TC is the only one to build it, and has a quorum.
LEMMA TrackTCStep ==
    ASSUME TimeoutsInv, NEW t \in Timeouts, C!TrackTC(t) PROVE TimeoutsInv'
<1> DEFINE passes == call[t].weight >= QCWeight /\ ~tcDone
           pc == IF passes THEN "aggregate" ELSE "reportQC"
<1>0. /\ call[t].at = "trackTC" /\ call' = [call EXCEPT ![t] = [at |-> pc, weight |-> 0]]
      /\ tcDone' = (tcDone \/ passes)
      /\ UNCHANGED <<cache, newestQC, added, partialDone, aggregate,
                     newestReportedQC, newestReportedTC, partialTCs, tcs, reported>>
  BY DEF C!TrackTC, C!At, QCWeight
<1>1. newestQC' \in Nat /\ newestQC <= newestQC' /\ newestQC \in Nat
  BY <1>0, TimeoutConstants DEF TimeoutsInv, C!TypeOK
<1>2. CallOK(t) /\ t \in added /\ AddedOK(t)
  BY <1>0 DEF TimeoutsInv, CallsInv, CallOK, AddedInv
<1>3. /\ call' \in [Timeouts -> [at : CallStates, weight : Nat]]
      /\ call'[t].at = pc
      /\ \A u \in Timeouts \ {t} : call'[u] = call[u]
  <2>1. pc \in CallStates
    BY DEF CallStates
  <2> HIDE DEF pc
  <2> QED BY <1>0, <2>1 DEF TimeoutsInv
<1>4. C!TypeOK'
  BY <1>0, <1>3 DEF TimeoutsInv, C!TypeOK
<1>5. passes => C!TotalWeight >= QCWeight /\ partialDone
  <2>1. C!TotalWeight \in Nat
    BY <1>0, TotalWeightGrows
  <2>2. call[t].weight \in Nat /\ call[t].weight <= C!TotalWeight
    BY <1>0, <1>2 DEF CallOK, TimeoutsInv
  <2>3. call[t].weight >= TimeoutWeight => partialDone
    BY <1>0, <1>2 DEF CallOK
  <2> QED BY <2>1, <2>2, <2>3, ThresholdOrder
<1>6. CallsInv'
  <2> SUFFICES ASSUME NEW u \in Timeouts PROVE CallOK(u)'
    BY DEF CallsInv
  <2>1. CASE u = t
    <3>1. pc = "aggregate" => (C!TotalWeight >= QCWeight)'
      BY <1>0, <1>5 DEF C!TotalWeight, C!WeightOf, C!Units, QCWeight
    <3>2. pc = "aggregate" => tcDone' /\ tcs' = {}
      BY <1>0 DEF TimeoutsInv, TrackersInv
    <3>3. pc \in {"aggregate", "reportQC"}
      OBVIOUS
    <3> HIDE DEF pc
    <3> QED BY <1>0, <1>2, <1>3, <2>1, <3>1, <3>2, <3>3 DEF CallOK
  <2>2. CASE u # t
    BY <1>0, <1>1, <1>3, <2>2, OthersKept
  <2> QED BY <2>1, <2>2
<1>7. AddedInv'
  BY <1>0, <1>3, AddedKept
<1>8. TrackersInv'
  <2>1. \A u \in Timeouts : call[u].at \in {"aggregate", "emitTC"} => tcDone
    BY DEF TimeoutsInv, CallsInv, CallOK
  <2>2. ASSUME NEW u \in Timeouts, NEW w \in Timeouts,
               call'[u].at \in {"aggregate", "emitTC"}, call'[w].at \in {"aggregate", "emitTC"}
        PROVE  u = w
    BY <1>3, <2>1, <2>2 DEF TimeoutsInv, TrackersInv
  <2>3. ASSUME NEW u \in Timeouts, NEW w \in Timeouts,
               call'[u].at = "emitPartial", call'[w].at = "emitPartial"
        PROVE  u = w
    BY <1>3, <2>3 DEF TimeoutsInv, TrackersInv
  <2>4. tcDone' => partialDone'
    BY <1>0, <1>5 DEF TimeoutsInv, TrackersInv
  <2> QED BY <1>0, <2>2, <2>3, <2>4 DEF TimeoutsInv, TrackersInv
<1>9. C!TCIsValid' /\ C!PartialTCProvesView'
  BY <1>0 DEF TimeoutsInv, C!TCIsValid, C!PartialTCProvesView, C!WeightOf, C!Units
<1> QED BY <1>3, <1>4, <1>6, <1>7, <1>8, <1>9 DEF TimeoutsInv

\* All that was added by then is aggregated: a quorum.
LEMMA AggregateStep ==
    ASSUME TimeoutsInv, NEW t \in Timeouts, C!Aggregate(t) PROVE TimeoutsInv'
<1>0. /\ call[t].at = "aggregate" /\ C!Goto(t, "emitTC") /\ aggregate' = added
      /\ UNCHANGED <<cache, newestQC, added, partialDone, tcDone,
                     newestReportedQC, newestReportedTC, partialTCs, tcs, reported>>
  BY DEF C!Aggregate, C!At
<1>1. newestQC' \in Nat /\ newestQC <= newestQC' /\ newestQC \in Nat
  BY <1>0, TimeoutConstants DEF TimeoutsInv, C!TypeOK
<1>2. CallOK(t) /\ t \in added /\ AddedOK(t)
  BY <1>0 DEF TimeoutsInv, CallsInv, CallOK, AddedInv
<1>3. /\ call' \in [Timeouts -> [at : CallStates, weight : Nat]]
      /\ call'[t].at = "emitTC"
      /\ \A u \in Timeouts \ {t} : call'[u] = call[u]
  BY <1>0, GotoMoves DEF TimeoutsInv, CallStates
<1>4. C!TypeOK'
  BY <1>0, <1>3 DEF TimeoutsInv, C!TypeOK
<1>5. CallsInv'
  <2> SUFFICES ASSUME NEW u \in Timeouts PROVE CallOK(u)'
    BY DEF CallsInv
  <2>1. CASE u = t
    <3>1. C!TotalWeight >= QCWeight
      BY <1>0, <1>2 DEF CallOK
    <3>2. C!WeightOf(SignersOf(aggregate))' = C!TotalWeight
      BY <1>0 DEF C!TotalWeight, C!WeightOf, C!Units, SignersOf
    <3>3. QCWeight' = QCWeight
      BY DEF QCWeight
    <3>4. (C!WeightOf(SignersOf(aggregate)) >= QCWeight)'
      BY <3>1, <3>2, <3>3
    <3> QED BY <1>0, <1>2, <1>3, <2>1, <3>4 DEF CallOK
  <2>2. CASE u # t
    <3>1. call[u].at \notin {"aggregate", "emitTC"}
      BY <1>0, <2>2 DEF TimeoutsInv, TrackersInv
    <3> QED BY <1>0, <1>1, <1>3, <2>2, <3>1, OthersKept
  <2> QED BY <2>1, <2>2
<1>6. AddedInv'
  BY <1>0, <1>3, AddedKept
<1>7. TrackersInv'
  <2>1. ASSUME NEW u \in Timeouts, NEW w \in Timeouts,
               call'[u].at \in {"aggregate", "emitTC"}, call'[w].at \in {"aggregate", "emitTC"}
        PROVE  u = w
    BY <1>0, <1>3, <2>1 DEF TimeoutsInv, TrackersInv
  <2>2. ASSUME NEW u \in Timeouts, NEW w \in Timeouts,
               call'[u].at = "emitPartial", call'[w].at = "emitPartial"
        PROVE  u = w
    BY <1>3, <2>2 DEF TimeoutsInv, TrackersInv
  <2> QED BY <1>0, <2>1, <2>2 DEF TimeoutsInv, TrackersInv
<1>8. C!TCIsValid' /\ C!PartialTCProvesView'
  BY <1>0 DEF TimeoutsInv, C!TCIsValid, C!PartialTCProvesView, C!WeightOf, C!Units
<1> QED BY <1>3, <1>4, <1>5, <1>6, <1>7, <1>8 DEF TimeoutsInv

\* The newest QC is read after the signatures were aggregated, and each of them was added
\* after its QC was tracked.
LEMMA EmitTCStep ==
    ASSUME TimeoutsInv, NEW t \in Timeouts, C!EmitTC(t) PROVE TimeoutsInv'
<1> DEFINE tc == [qc |-> newestQC, signers |-> aggregate, by |-> t]
<1>0. /\ call[t].at = "emitTC" /\ C!Goto(t, "reportQC")
      /\ tcs' = tcs \cup {tc} /\ aggregate' = {}
      /\ UNCHANGED <<cache, newestQC, added, partialDone, tcDone,
                     newestReportedQC, newestReportedTC, partialTCs, reported>>
  BY DEF C!EmitTC, C!At
<1>1. newestQC' \in Nat /\ newestQC <= newestQC' /\ newestQC \in Nat
  BY <1>0, TimeoutConstants DEF TimeoutsInv, C!TypeOK
<1>2. CallOK(t) /\ t \in added /\ AddedOK(t)
  BY <1>0 DEF TimeoutsInv, CallsInv, CallOK, AddedInv
<1>3. /\ call' \in [Timeouts -> [at : CallStates, weight : Nat]]
      /\ call'[t].at = "reportQC"
      /\ \A u \in Timeouts \ {t} : call'[u] = call[u]
  BY <1>0, GotoMoves DEF TimeoutsInv, CallStates
<1>4. C!TypeOK'
  BY <1>0, <1>3 DEF TimeoutsInv, C!TypeOK
<1>5. CallsInv'
  <2> SUFFICES ASSUME NEW u \in Timeouts PROVE CallOK(u)'
    BY DEF CallsInv
  <2>1. CASE u = t
    BY <1>0, <1>2, <1>3, <2>1 DEF CallOK
  <2>2. CASE u # t
    <3>1. call[u].at \notin {"aggregate", "emitTC"}
      BY <1>0, <2>2 DEF TimeoutsInv, TrackersInv
    <3> QED BY <1>0, <1>1, <1>3, <2>2, <3>1, OthersKept
  <2> QED BY <2>1, <2>2
<1>6. AddedInv'
  BY <1>0, <1>3, AddedKept
<1>7. TrackersInv'
  <2>1. tcs = {} /\ tcDone
    BY <1>0, <1>2 DEF CallOK
  <2>2. \A q, r \in tcs' : q = r
    BY <1>0, <2>1
  <2>3. ASSUME NEW u \in Timeouts, NEW w \in Timeouts,
               call'[u].at \in {"aggregate", "emitTC"}, call'[w].at \in {"aggregate", "emitTC"}
        PROVE  u = w
    BY <1>0, <1>3, <2>3 DEF TimeoutsInv, TrackersInv
  <2>4. ASSUME NEW u \in Timeouts, NEW w \in Timeouts,
               call'[u].at = "emitPartial", call'[w].at = "emitPartial"
        PROVE  u = w
    BY <1>3, <2>4 DEF TimeoutsInv, TrackersInv
  <2> QED BY <1>0, <2>1, <2>2, <2>3, <2>4 DEF TimeoutsInv, TrackersInv
<1>8. C!TCIsValid'
  <2>1. tcs = {}
    BY <1>0, <1>2 DEF CallOK
  <2>2. aggregate \subseteq added
    BY DEF TimeoutsInv, C!TypeOK
  <2>3. \A u, w \in aggregate : u.signer = w.signer => u = w
    <3> SUFFICES ASSUME NEW u \in aggregate, NEW w \in aggregate, u.signer = w.signer
                 PROVE  u = w
      OBVIOUS
    <3>1. AddedOK(u) /\ AddedOK(w)
      BY <2>2 DEF TimeoutsInv, AddedInv
    <3> QED BY <3>1 DEF AddedOK
  <2>4. \A u \in aggregate : u.qc <= newestQC
    BY <2>2 DEF TimeoutsInv, AddedInv, AddedOK
  <2>5. C!WeightOf({u.signer : u \in aggregate}) >= QCWeight
    BY <1>0, <1>2 DEF CallOK, SignersOf
  <2>6. newestQC < View
    BY DEF TimeoutsInv, TrackersInv
  <2>7. ASSUME NEW q \in tcs'
        PROVE  /\ \A u, w \in q.signers : u.signer = w.signer => u = w
               /\ C!WeightOf({u.signer : u \in q.signers}) >= QCWeight
               /\ \A u \in q.signers : u.qc <= q.qc
               /\ q.qc < View
    <3>1. q.signers = aggregate /\ q.qc = newestQC
      BY <1>0, <2>1
    <3> QED BY <2>3, <2>4, <2>5, <2>6, <3>1
  <2> QED BY <2>7 DEF C!TCIsValid, QCWeight, C!WeightOf, C!Units
<1>9. C!PartialTCProvesView'
  BY <1>0 DEF TimeoutsInv, C!PartialTCProvesView
<1> QED BY <1>3, <1>4, <1>5, <1>6, <1>7, <1>8, <1>9 DEF TimeoutsInv

\* No step of the composition takes the collector out of the invariant.
LEMMA TimeoutsStep == TimeoutsInv /\ [Next]_vars => TimeoutsInv'
<1> SUFFICES ASSUME TimeoutsInv, [Next]_vars PROVE TimeoutsInv'
  OBVIOUS
<1>1. CASE C!Next
  <2>1. PICK t \in Timeouts : C!AddTimeout(t) \/ C!CallStep(t)
    BY <1>1 DEF C!Next, C!Step
  <2>2. CASE C!AddTimeout(t)
    BY <2>2, AddTimeoutStep
  <2>3. CASE C!CallStep(t)
    BY <2>3, CheckDoneStep, ValidateStep, TrackNewestQCStep, VerifyAndAddStep,
       TrackPartialTCStep, OnPartialTcCreatedStep, TrackTCStep, AggregateStep, EmitTCStep,
       ReportQCStep, ReportTCStep DEF C!CallStep
  <2> QED BY <2>1, <2>2, <2>3
<1>2. CASE UNCHANGED collector
  <2>1. /\ C!TypeOK' /\ (call \in [Timeouts -> [at : CallStates, weight : Nat]])'
        /\ C!TCIsValid' /\ C!PartialTCProvesView'
    BY <1>2 DEF collector, TimeoutsInv, C!TypeOK, C!TCIsValid, C!PartialTCProvesView,
                C!WeightOf, C!Units
  <2>2. AddedInv' /\ TrackersInv'
    BY <1>2 DEF collector, TimeoutsInv, AddedInv, AddedOK, TrackersInv, C!IsValid
  <2>3. CallsInv'
    BY <1>2 DEF collector, TimeoutsInv, CallsInv, CallOK, C!IsValid, C!TotalWeight, C!WeightOf,
                C!Units, QCWeight, TimeoutWeight, SignersOf
  <2> QED BY <2>1, <2>2, <2>3 DEF TimeoutsInv
<1>3. QED
  BY <1>1, <1>2 DEF Next, vars, NextWeight, OnlyVotes, OnlyAggregator, OnlyLoop, OnlyCollector

-----------------------------------------------------------------------------
(***************************************************************************)
(* The theorems.                                                           *)
(***************************************************************************)

\* The invariant holds throughout, for every committee and every set of timeouts.
THEOREM TimeoutsInvariant == Spec => []TimeoutsInv
<1>1. Init => TimeoutsInv
  BY TimeoutsInit DEF Init
<1>2. TimeoutsInv /\ [Next]_vars => TimeoutsInv'
  BY TimeoutsStep
<1> QED BY <1>1, <1>2, PTL DEF Spec

\* However many workers see enough weight, TimeoutProcessor builds one TC and one partial
\* TC at most, and no TC without having reached the weight of the partial TC.
THEOREM OneTCTheorem == Spec => []OneTC
<1>1. ASSUME NEW S, \A p, q \in S : p = q PROVE Cardinality(S) <= 1
  <2>1. CASE S = {}
    BY <2>1, FS_EmptySet
  <2>2. CASE S # {}
    <3>1. PICK p : p \in S
      BY <2>2
    <3>2. S = {p}
      BY <1>1, <3>1
    <3>3. Cardinality({p}) = 1
      BY FS_Singleton
    <3> QED BY <3>2, <3>3
  <2> QED BY <2>1, <2>2
<1>2. TimeoutsInv => OneTC
  <2> SUFFICES ASSUME TimeoutsInv PROVE OneTC
    OBVIOUS
  <2>1. (\A p, q \in tcs : p = q) /\ (\A p, q \in partialTCs : p = q)
    BY DEF TimeoutsInv, TrackersInv
  <2>2. Cardinality(tcs) <= 1 /\ Cardinality(partialTCs) <= 1
    BY <1>1, <2>1
  <2>3. C!Cardinality(tcs) <= 1 /\ C!Cardinality(partialTCs) <= 1
    BY <2>2, SameFiniteSets
  <2>4. tcs # {} => partialDone
    BY DEF TimeoutsInv, TrackersInv
  <2> QED BY <2>3, <2>4 DEF OneTC, C!OneTC
<1> QED BY <1>2, TimeoutsInvariant, PTL

\* A TC that TimeoutProcessor.buildTC emits has a quorum of distinct signers and a QC as new
\* as the newest that any of them reports, although signatures and QC are read apart.
THEOREM TCIsValidTheorem == Spec => []TCIsValid
<1>1. TimeoutsInv => TCIsValid
  BY DEF TimeoutsInv, TCIsValid
<1> QED BY <1>1, TimeoutsInvariant, PTL

\* The QC and the TC of a partial TC, which come from different timeouts, together prove
\* that the view was reached.
THEOREM PartialTCProvesViewTheorem == Spec => []PartialTCProvesView
<1>1. TimeoutsInv => PartialTCProvesView
  BY DEF TimeoutsInv, PartialTCProvesView
<1> QED BY <1>1, TimeoutsInvariant, PTL

\* The signature aggregator never meets a signer twice, so processTimeout has no internal
\* error to stop the node with.
THEOREM NoFatalTimeoutTheorem == Spec => []C!NoFatalTimeout
<1>1. TimeoutsInv => C!NoFatalTimeout
  BY DEF TimeoutsInv, CallsInv, CallOK, C!NoFatalTimeout, C!At
<1> QED BY <1>1, TimeoutsInvariant, PTL

-----------------------------------------------------------------------------
(***************************************************************************)
(* VoteAggregator.                                                         *)
(***************************************************************************)

WorkerStates ==
    [at : {"wait", "popBlock", "popVote", "checkStale", "get", "insert", "deliver"},
     msg : A!Messages \cup {None}, collector : A!Messages \cup {None}]

\* A worker has a message from when it takes it from a queue, and a collector when it
\* delivers it: the one that is registered for the view, unless that view is pruned.
WorkerOK(w) ==
    /\ worker[w].at \in {"checkStale", "get", "insert", "deliver"} => worker[w].msg \in A!Messages
    /\ worker[w].at = "deliver" =>
          /\ worker[w].collector \in A!Messages
          /\ ViewOf[worker[w].msg] >= collectorsLowest =>
                worker[w].collector = collectors[ViewOf[worker[w].msg]]

\* The collector that got a message of a view which is not pruned is the registered one.
DeliveredInv ==
    \A d \in delivered : ViewOf[d[1]] >= collectorsLowest => d[2] = collectors[ViewOf[d[1]]]

\* The bound of VoteCollectors follows the one of VoteAggregator and never goes back.
PrunerInv ==
    /\ collectorsLowest <= lowestRetainedView
    /\ pruner.at = "prune" => pruner.upTo = lowestRetainedView

AggregatorInv ==
    /\ A!TypeOK
    /\ \A w \in Workers : WorkerOK(w)
    /\ DeliveredInv
    /\ PrunerInv

\* What is assumed of the aggregator's constants
LEMMA AggregatorConstants ==
    /\ FirstView \in Nat /\ MaxView \in Nat /\ FirstView <= MaxView /\ Capacity \in Nat
    /\ ViewOf \in [A!Messages -> A!Views] /\ A!Views \subseteq Nat /\ FirstView \in A!Views
    /\ None \notin A!Messages
BY CollectorsAssumption DEF CollectorsAssumption, A!ConstantsAssumption, A!Views

\* Init of VoteAggregator establishes the invariant.
LEMMA AggregatorInit == A!Init => AggregatorInv
<1> SUFFICES ASSUME A!Init PROVE AggregatorInv
  OBVIOUS
<1> USE AggregatorConstants DEF A!Init
<1>1. A!TypeOK
  <2>1. queuedBlocks \in Seq(Proposals) /\ Len(queuedBlocks) <= Capacity
    OBVIOUS
  <2>2. queuedVotes \in Seq(Votes) /\ Len(queuedVotes) <= Capacity
    OBVIOUS
  <2> QED BY <2>1, <2>2 DEF A!TypeOK
<1>2. (\A w \in Workers : WorkerOK(w)) /\ DeliveredInv /\ PrunerInv
  BY DEF WorkerOK, DeliveredInv, PrunerInv
<1> QED BY <1>1, <1>2 DEF AggregatorInv

\* The parts of the type invariant, to be cited one by one
LEMMA AggregatorTypes ==
    ASSUME AggregatorInv
    PROVE  /\ queuedBlocks \in Seq(Proposals) /\ Len(queuedBlocks) <= Capacity
           /\ queuedVotes \in Seq(Votes) /\ Len(queuedVotes) <= Capacity
           /\ worker \in [Workers -> WorkerStates]
           /\ collectors \in [A!Views -> A!Messages \cup {None}]
           /\ collectorsLowest \in Nat /\ lowestRetainedView \in Nat
           /\ \A m \in A!Messages : ViewOf[m] \in A!Views /\ ViewOf[m] \in Nat
BY AggregatorConstants DEF AggregatorInv, A!TypeOK, WorkerStates

\* A message that goes to a queue or is dropped there, and the notification, leave the
\* workers and the collectors alone.
LEMMA CallerStep ==
    ASSUME AggregatorInv, A!TypeOK',
           UNCHANGED <<worker, collectors, delivered, collectorsLowest, lowestRetainedView, pruner>>
    PROVE  AggregatorInv'
BY DEF AggregatorInv, WorkerOK, DeliveredInv, PrunerInv

\* FifoQueue.Push keeps to the capacity.
LEMMA PushBounded ==
    ASSUME NEW S, NEW queue \in Seq(S), NEW m \in S, Len(queue) <= Capacity
    PROVE  /\ A!Push(m, queue).queue \in Seq(S)
           /\ Len(A!Push(m, queue).queue) <= Capacity
           /\ A!Push(m, queue).next \in {"notify", "dropped"}
<1>1. Len(queue) \in Nat /\ Capacity \in Nat
  BY AggregatorConstants
<1>2. CASE Len(queue) < Capacity
  <2>1. Append(queue, m) \in Seq(S) /\ Len(Append(queue, m)) = Len(queue) + 1
    OBVIOUS
  <2>2. Len(queue) + 1 <= Capacity
    BY <1>1, <1>2
  <2> QED BY <1>2, <2>1, <2>2 DEF A!Push
<1>3. CASE ~ (Len(queue) < Capacity)
  BY <1>3 DEF A!Push
<1> QED BY <1>2, <1>3

\* AddVote, AddBlock and Notify
LEMMA AddVoteStep == ASSUME AggregatorInv, NEW v \in Votes, A!AddVote(v) PROVE AggregatorInv'
<1>1. v \in A!Messages
  BY DEF A!Messages
<1>2. /\ queuedVotes' \in Seq(Votes) /\ Len(queuedVotes') <= Capacity
      /\ caller' \in [A!Messages -> {"idle", "notify", "dropped", "done"}]
  <2>1. CASE ViewOf[v] < lowestRetainedView
    <3>1. ~ (ViewOf[v] >= lowestRetainedView)
      BY <1>1, <2>1, AggregatorTypes
    <3> QED BY <1>1, <3>1, AggregatorTypes DEF A!AddVote, AggregatorInv, A!TypeOK
  <2>2. CASE ~ (ViewOf[v] < lowestRetainedView)
    <3>1. /\ caller' = [caller EXCEPT ![v] = A!Push(v, queuedVotes).next]
          /\ queuedVotes' = A!Push(v, queuedVotes).queue
      BY <2>2 DEF A!AddVote
    <3> QED BY <1>1, <3>1, PushBounded, AggregatorTypes DEF AggregatorInv, A!TypeOK
  <2> QED BY <2>1, <2>2
<1>3. A!TypeOK'
  BY <1>2 DEF A!AddVote, AggregatorInv, A!TypeOK, A!pruning
<1> QED BY <1>3, CallerStep DEF A!AddVote, A!pruning

\* AddBlock appends a block to the queue of blocks.
LEMMA AddBlockStep == ASSUME AggregatorInv, NEW b \in Proposals, A!AddBlock(b) PROVE AggregatorInv'
<1>1. b \in A!Messages
  BY DEF A!Messages
<1>2. /\ queuedBlocks' \in Seq(Proposals) /\ Len(queuedBlocks') <= Capacity
      /\ caller' \in [A!Messages -> {"idle", "notify", "dropped", "done"}]
  BY <1>1, PushBounded, AggregatorTypes DEF A!AddBlock, AggregatorInv, A!TypeOK
<1>3. A!TypeOK'
  BY <1>2 DEF A!AddBlock, AggregatorInv, A!TypeOK, A!pruning
<1> QED BY <1>3, CallerStep DEF A!AddBlock, A!pruning

\* Notifying the workers leaves the queues and the votes alone.
LEMMA NotifyStep == ASSUME AggregatorInv, NEW m \in A!Messages, A!Notify(m) PROVE AggregatorInv'
<1>1. A!TypeOK'
  BY DEF A!Notify, AggregatorInv, A!TypeOK, A!pruning, A!queues
<1> QED BY <1>1, CallerStep DEF A!Notify, A!pruning, A!queues

\* A step of a worker keeps what the others rely on: a registered collector is never replaced.
LEMMA WorkerKept ==
    ASSUME AggregatorInv, NEW w \in Workers,
           worker' \in [Workers -> WorkerStates],
           \A u \in Workers \ {w} : worker'[u] = worker[u],
           collectors' \in [A!Views -> A!Messages \cup {None}],
           \A v \in A!Views : collectors[v] # None => collectors'[v] = collectors[v],
           WorkerOK(w)',
           queuedBlocks' \in Seq(Proposals), Len(queuedBlocks') <= Capacity,
           queuedVotes' \in Seq(Votes), Len(queuedVotes') <= Capacity,
           delivered' \subseteq A!Messages \X A!Messages,
           \A d \in delivered' \ delivered :
               ViewOf[d[1]] >= collectorsLowest => d[2] = collectors'[ViewOf[d[1]]],
           notified' \in BOOLEAN, UNCHANGED <<caller, A!pruning>>
    PROVE  AggregatorInv'
<1> USE AggregatorConstants DEF A!pruning
<1>1. A!TypeOK'
  BY DEF AggregatorInv, A!TypeOK, WorkerStates
<1>2. ASSUME NEW u \in Workers PROVE WorkerOK(u)'
  <2>1. CASE u = w
    BY <2>1
  <2>2. CASE u # w
    BY <2>2, AggregatorTypes DEF AggregatorInv, WorkerOK
  <2> QED BY <2>1, <2>2
<1>3. DeliveredInv'
  <2> SUFFICES ASSUME NEW d \in delivered', ViewOf[d[1]] >= collectorsLowest
               PROVE  d[2] = collectors'[ViewOf[d[1]]]
    BY DEF DeliveredInv
  <2>1. CASE d \in delivered
    <3>1. d[1] \in A!Messages /\ d[2] \in A!Messages
      BY <2>1 DEF AggregatorInv, A!TypeOK
    <3>2. d[2] = collectors[ViewOf[d[1]]]
      BY <2>1 DEF AggregatorInv, DeliveredInv
    <3> QED BY <3>1, <3>2, AggregatorTypes
  <2> QED BY <2>1
<1>4. PrunerInv'
  BY DEF AggregatorInv, PrunerInv
<1> QED BY <1>1, <1>2, <1>3, <1>4 DEF AggregatorInv

\* A worker that moves on without a collector, with the message it has or a new one
LEMMA WorkerMoves ==
    ASSUME AggregatorInv, NEW w \in Workers,
           NEW pc \in {"wait", "popBlock", "popVote", "checkStale", "get", "insert"},
           NEW m \in A!Messages \cup {None},
           pc \in {"checkStale", "get", "insert"} => m # None,
           worker' = [worker EXCEPT ![w] = [at |-> pc, msg |-> m, collector |-> worker[w].collector]],
           queuedBlocks' \in Seq(Proposals), Len(queuedBlocks') <= Capacity,
           queuedVotes' \in Seq(Votes), Len(queuedVotes') <= Capacity,
           notified' \in BOOLEAN, UNCHANGED <<caller, A!pruning, collectors, delivered>>
    PROVE  AggregatorInv'
<1> DEFINE r == [at |-> pc, msg |-> m, collector |-> worker[w].collector]
<1>1. worker \in [Workers -> WorkerStates]
  BY AggregatorTypes
<1>2. r \in WorkerStates
  BY <1>1 DEF WorkerStates
<1>3. /\ worker' \in [Workers -> WorkerStates]
      /\ worker'[w] = r
      /\ \A u \in Workers \ {w} : worker'[u] = worker[u]
  <2>1. worker' = [worker EXCEPT ![w] = r]
    OBVIOUS
  <2> HIDE DEF r
  <2> QED BY <1>1, <1>2, <2>1
<1>4. WorkerOK(w)'
  BY <1>3 DEF WorkerOK
<1>5. delivered \subseteq A!Messages \X A!Messages
  BY DEF AggregatorInv, A!TypeOK
<1> QED BY <1>3, <1>4, <1>5, AggregatorTypes, WorkerKept

\* Goto, Take and Hold in terms of the whole record
LEMMA WorkerRecords ==
    ASSUME AggregatorInv, NEW w \in Workers, NEW pc
    PROVE  /\ A!Goto(w, pc) =>
                worker' = [worker EXCEPT ![w] = [at |-> pc, msg |-> worker[w].msg,
                                                 collector |-> worker[w].collector]]
           /\ \A m : A!Take(w, m, pc) =>
                worker' = [worker EXCEPT ![w] = [at |-> pc, msg |-> m,
                                                 collector |-> worker[w].collector]]
           /\ \A c : A!Hold(w, c) =>
                worker' = [worker EXCEPT ![w] = [at |-> "deliver", msg |-> worker[w].msg,
                                                 collector |-> c]]
           /\ worker[w].msg \in A!Messages \cup {None}
<1>1. worker \in [Workers -> WorkerStates]
  BY AggregatorTypes
<1> QED BY <1>1 DEF A!Goto, A!Take, A!Hold, WorkerStates

\* A worker that has got a collector for its message
LEMMA WorkerHolds ==
    ASSUME AggregatorInv, NEW w \in Workers, worker[w].msg \in A!Messages, NEW c \in A!Messages,
           A!Hold(w, c), collectors'[ViewOf[worker[w].msg]] = c,
           collectors' \in [A!Views -> A!Messages \cup {None}],
           \A v \in A!Views : collectors[v] # None => collectors'[v] = collectors[v],
           UNCHANGED <<A!queues, caller, notified, A!pruning, delivered>>
    PROVE  AggregatorInv'
<1> DEFINE r == [at |-> "deliver", msg |-> worker[w].msg, collector |-> c]
<1>1. worker \in [Workers -> WorkerStates]
  BY AggregatorTypes
<1>2. r \in WorkerStates
  BY <1>1 DEF WorkerStates
<1>3. worker' = [worker EXCEPT ![w] = r]
  BY WorkerRecords
<1>4. /\ worker' \in [Workers -> WorkerStates]
      /\ worker'[w] = r
      /\ \A u \in Workers \ {w} : worker'[u] = worker[u]
  <2> HIDE DEF r
  <2> QED BY <1>1, <1>2, <1>3
<1>5. WorkerOK(w)'
  BY <1>4 DEF WorkerOK
<1>6. delivered \subseteq A!Messages \X A!Messages /\ notified \in BOOLEAN
  BY DEF AggregatorInv, A!TypeOK
<1> QED BY <1>4, <1>5, <1>6, AggregatorTypes, WorkerKept DEF A!queues

\* Every step of processQueuedMessages keeps the invariant.
LEMMA WakeUpStep == ASSUME AggregatorInv, NEW w \in Workers, A!WakeUp(w) PROVE AggregatorInv'
<1>1. A!Goto(w, "popBlock") /\ notified' = FALSE
      /\ UNCHANGED <<queuedBlocks, queuedVotes, caller, A!pruning, collectors, delivered>>
  BY DEF A!WakeUp, A!queues
<1> DEFINE m == worker[w].msg
<1>2. /\ worker' = [worker EXCEPT ![w] = [at |-> "popBlock", msg |-> m,
                                          collector |-> worker[w].collector]]
      /\ m \in A!Messages \cup {None}
  BY <1>1, WorkerRecords
<1> HIDE DEF m
<1> QED BY <1>1, <1>2, AggregatorTypes, WorkerMoves

\* A worker takes the next block off the queue, or turns to the votes.
LEMMA PopBlockStep == ASSUME AggregatorInv, NEW w \in Workers, A!PopBlock(w) PROVE AggregatorInv'
<1>0. UNCHANGED <<queuedVotes, caller, notified, collectors, A!pruning, delivered>>
      /\ notified \in BOOLEAN
  BY DEF A!PopBlock, AggregatorInv, A!TypeOK
<1>1. CASE queuedBlocks # <<>>
  <2>1. A!Take(w, Head(queuedBlocks), "checkStale") /\ queuedBlocks' = Tail(queuedBlocks)
    BY <1>1 DEF A!PopBlock
  <2>2. queuedBlocks \in Seq(Proposals) /\ Len(queuedBlocks) \in Nat /\ Len(queuedBlocks) <= Capacity
    BY AggregatorTypes
  <2>3. /\ Head(queuedBlocks) \in Proposals /\ Tail(queuedBlocks) \in Seq(Proposals)
        /\ Len(Tail(queuedBlocks)) = Len(queuedBlocks) - 1
    BY <1>1, <2>2
  <2>4. Len(queuedBlocks') <= Capacity /\ queuedBlocks' \in Seq(Proposals)
    BY <2>1, <2>2, <2>3, AggregatorConstants
  <2>5. Head(queuedBlocks) \in A!Messages /\ Head(queuedBlocks) # None
    BY <2>3, AggregatorConstants DEF A!Messages
  <2>6. worker' = [worker EXCEPT ![w] = [at |-> "checkStale", msg |-> Head(queuedBlocks),
                                         collector |-> worker[w].collector]]
    BY <2>1, WorkerRecords
  <2> QED BY <1>0, <2>4, <2>5, <2>6, AggregatorTypes, WorkerMoves
<1>2. CASE queuedBlocks = <<>>
  <2>1. A!Goto(w, "popVote") /\ UNCHANGED queuedBlocks
    BY <1>2 DEF A!PopBlock
  <2> DEFINE m == worker[w].msg
  <2>2. /\ worker' = [worker EXCEPT ![w] = [at |-> "popVote", msg |-> m,
                                            collector |-> worker[w].collector]]
        /\ m \in A!Messages \cup {None}
    BY <2>1, WorkerRecords
  <2> HIDE DEF m
  <2> QED BY <1>0, <2>1, <2>2, AggregatorTypes, WorkerMoves
<1> QED BY <1>1, <1>2

\* A worker takes a vote off the queue and keeps it in hand.
LEMMA PopVoteStep == ASSUME AggregatorInv, NEW w \in Workers, A!PopVote(w) PROVE AggregatorInv'
<1>0. UNCHANGED <<queuedBlocks, caller, notified, collectors, A!pruning, delivered>>
      /\ notified \in BOOLEAN
  BY DEF A!PopVote, AggregatorInv, A!TypeOK
<1>1. CASE queuedVotes # <<>>
  <2>1. A!Take(w, Head(queuedVotes), "get") /\ queuedVotes' = Tail(queuedVotes)
    BY <1>1 DEF A!PopVote
  <2>2. queuedVotes \in Seq(Votes) /\ Len(queuedVotes) \in Nat /\ Len(queuedVotes) <= Capacity
    BY AggregatorTypes
  <2>3. /\ Head(queuedVotes) \in Votes /\ Tail(queuedVotes) \in Seq(Votes)
        /\ Len(Tail(queuedVotes)) = Len(queuedVotes) - 1
    BY <1>1, <2>2
  <2>4. Len(queuedVotes') <= Capacity /\ queuedVotes' \in Seq(Votes)
    BY <2>1, <2>2, <2>3, AggregatorConstants
  <2>5. Head(queuedVotes) \in A!Messages /\ Head(queuedVotes) # None
    BY <2>3, AggregatorConstants DEF A!Messages
  <2>6. worker' = [worker EXCEPT ![w] = [at |-> "get", msg |-> Head(queuedVotes),
                                         collector |-> worker[w].collector]]
    BY <2>1, WorkerRecords
  <2> QED BY <1>0, <2>4, <2>5, <2>6, AggregatorTypes, WorkerMoves
<1>2. CASE queuedVotes = <<>>
  <2>1. A!Goto(w, "wait") /\ UNCHANGED queuedVotes
    BY <1>2 DEF A!PopVote
  <2> DEFINE m == worker[w].msg
  <2>2. /\ worker' = [worker EXCEPT ![w] = [at |-> "wait", msg |-> m,
                                            collector |-> worker[w].collector]]
        /\ m \in A!Messages \cup {None}
    BY <2>1, WorkerRecords
  <2> HIDE DEF m
  <2> QED BY <1>0, <2>1, <2>2, AggregatorTypes, WorkerMoves
<1> QED BY <1>1, <1>2

\* A worker keeps its message when it goes on to look for a collector, or drops it.
LEMMA WorkerGoesOn ==
    ASSUME AggregatorInv, NEW w \in Workers, NEW pc \in {"popBlock", "get", "insert"},
           worker[w].msg \in A!Messages, A!Goto(w, pc),
           UNCHANGED <<A!queues, caller, notified, collectors, A!pruning, delivered>>
    PROVE  AggregatorInv'
<1> DEFINE m == worker[w].msg
<1>1. /\ worker' = [worker EXCEPT ![w] = [at |-> pc, msg |-> m, collector |-> worker[w].collector]]
      /\ m \in A!Messages \cup {None} /\ m # None
  BY WorkerRecords, AggregatorConstants
<1>2. notified \in BOOLEAN
  BY DEF AggregatorInv, A!TypeOK
<1> HIDE DEF m
<1> QED BY <1>1, <1>2, AggregatorTypes, WorkerMoves DEF A!queues

\* A vote below the lowest retained view is dropped.
LEMMA CheckStaleStep == ASSUME AggregatorInv, NEW w \in Workers, A!CheckStale(w) PROVE AggregatorInv'
<1>1. worker[w].msg \in A!Messages
  BY DEF A!CheckStale, A!At, AggregatorInv, WorkerOK
<1>2. PICK pc \in {"popBlock", "get", "insert"} : A!Goto(w, pc)
  BY DEF A!CheckStale
<1> QED BY <1>1, <1>2, WorkerGoesOn DEF A!CheckStale

\* A worker gets or creates the collector of the view of its vote.
LEMMA GetCollectorStep == ASSUME AggregatorInv, NEW w \in Workers, A!GetCollector(w) PROVE AggregatorInv'
<1> DEFINE view == ViewOf[worker[w].msg]
<1>0. UNCHANGED <<A!queues, caller, notified, collectors, A!pruning, delivered>>
  BY DEF A!GetCollector
<1>1. worker[w].msg \in A!Messages
  BY DEF A!GetCollector, A!At, AggregatorInv, WorkerOK
<1>2. CASE A!Goto(w, "popBlock") \/ A!Goto(w, "insert")
  BY <1>0, <1>1, <1>2, WorkerGoesOn
<1>3. CASE collectors[view] # None /\ A!Hold(w, collectors[view])
  <2>1. collectors \in [A!Views -> A!Messages \cup {None}] /\ view \in A!Views
    BY <1>1, AggregatorTypes
  <2>2. collectors[view] \in A!Messages
    BY <1>3, <2>1
  <2> QED BY <1>0, <1>1, <1>3, <2>1, <2>2, WorkerHolds
<1> QED BY <1>2, <1>3 DEF A!GetCollector

\* The second look, under the lock, is what keeps a collector that is there.
LEMMA InsertCollectorStep ==
    ASSUME AggregatorInv, NEW w \in Workers, A!InsertCollector(w) PROVE AggregatorInv'
<1> DEFINE m == worker[w].msg
           view == ViewOf[m]
<1>0. UNCHANGED <<A!queues, caller, notified, A!pruning, delivered>>
  BY DEF A!InsertCollector
<1>1. m \in A!Messages
  BY DEF A!InsertCollector, A!At, AggregatorInv, WorkerOK
<1>2. collectors \in [A!Views -> A!Messages \cup {None}] /\ view \in A!Views
  BY <1>1, AggregatorTypes
<1>3. CASE collectors[view] # None
  <2>1. A!Hold(w, collectors[view]) /\ UNCHANGED collectors
    BY <1>3 DEF A!InsertCollector
  <2>2. collectors[view] \in A!Messages
    BY <1>2, <1>3
  <2> QED BY <1>0, <1>1, <1>2, <2>1, <2>2, WorkerHolds
<1>4. CASE collectors[view] = None
  <2>1. A!Hold(w, m) /\ collectors' = [collectors EXCEPT ![view] = m]
    BY <1>4 DEF A!InsertCollector
  <2>2. /\ collectors' \in [A!Views -> A!Messages \cup {None}]
        /\ collectors'[view] = m
        /\ \A v \in A!Views : collectors[v] # None => collectors'[v] = collectors[v]
    BY <1>1, <1>2, <1>4, <2>1
  <2> QED BY <1>0, <1>1, <2>1, <2>2, WorkerHolds
<1> QED BY <1>3, <1>4

\* A worker hands its vote to the collector it got.
LEMMA DeliverStep == ASSUME AggregatorInv, NEW w \in Workers, A!Deliver(w) PROVE AggregatorInv'
<1> DEFINE m == worker[w].msg
           c == worker[w].collector
           r == [at |-> "popBlock", msg |-> m, collector |-> c]
<1>0. /\ worker[w].at = "deliver" /\ A!Goto(w, "popBlock") /\ delivered' = delivered \cup {<<m, c>>}
      /\ UNCHANGED <<A!queues, caller, notified, collectors, A!pruning>>
  BY DEF A!Deliver, A!At
<1>1. /\ m \in A!Messages /\ c \in A!Messages
      /\ ViewOf[m] >= collectorsLowest => c = collectors[ViewOf[m]]
  BY <1>0 DEF AggregatorInv, WorkerOK
<1>2. worker' = [worker EXCEPT ![w] = r]
  BY <1>0, WorkerRecords
<1>3. worker \in [Workers -> WorkerStates] /\ r \in WorkerStates
  BY <1>1, AggregatorTypes DEF WorkerStates
<1>4. /\ worker' \in [Workers -> WorkerStates]
      /\ worker'[w].at = "popBlock"
      /\ \A u \in Workers \ {w} : worker'[u] = worker[u]
  BY <1>2, <1>3
<1>5. WorkerOK(w)'
  BY <1>4 DEF WorkerOK
<1>6. /\ delivered' \subseteq A!Messages \X A!Messages
      /\ \A d \in delivered' \ delivered :
            ViewOf[d[1]] >= collectorsLowest => d[2] = collectors'[ViewOf[d[1]]]
  BY <1>0, <1>1 DEF AggregatorInv, A!TypeOK
<1>7. notified \in BOOLEAN
  BY DEF AggregatorInv, A!TypeOK
<1> QED BY <1>0, <1>4, <1>5, <1>6, <1>7, AggregatorTypes, WorkerKept DEF A!queues

\* Finalization and pruning: the bound only rises, and only what is below it is deleted.
LEMMA PrunerStepKeeps ==
    ASSUME AggregatorInv,
           A!NotifyFinalized \/ A!PrunerStep \/ \E v \in A!Views : A!OnFinalizedBlock(v)
    PROVE  AggregatorInv'
<1> USE AggregatorConstants DEF A!messages, A!queues
<1>1. ASSUME NEW v \in A!Views, A!OnFinalizedBlock(v) PROVE AggregatorInv'
  <2>1. A!TypeOK'
    BY <1>1 DEF A!OnFinalizedBlock, AggregatorInv, A!TypeOK
  <2> QED BY <1>1, <2>1, CallerStep DEF A!OnFinalizedBlock
<1>2. CASE A!NotifyFinalized
  <2>1. A!TypeOK'
    BY <1>2 DEF A!NotifyFinalized, AggregatorInv, A!TypeOK
  <2> QED BY <1>2, <2>1, CallerStep DEF A!NotifyFinalized
<1>3. ASSUME A!TypeOK', PrunerInv',
             UNCHANGED <<worker, collectors, delivered, collectorsLowest>>
      PROVE  AggregatorInv'
  BY <1>3 DEF AggregatorInv, WorkerOK, DeliveredInv
<1>4. CASE A!StartPruning
  <2>1. A!TypeOK'
    BY <1>4 DEF A!StartPruning, AggregatorInv, A!TypeOK
  <2>2. PrunerInv'
    BY <1>4 DEF A!StartPruning, AggregatorInv, A!TypeOK, PrunerInv
  <2> QED BY <1>3, <1>4, <2>1, <2>2 DEF A!StartPruning
<1>5. CASE A!ReadFinalizedView
  <2>1. A!TypeOK'
    BY <1>5 DEF A!ReadFinalizedView, AggregatorInv, A!TypeOK
  <2>2. PrunerInv'
    BY <1>5 DEF A!ReadFinalizedView, AggregatorInv, A!TypeOK, PrunerInv
  <2> QED BY <1>3, <1>5, <2>1, <2>2 DEF A!ReadFinalizedView
<1>6. CASE A!SetLowestRetainedView
  <2>0. /\ pruner \in [at : {"wait", "read", "set", "prune"}, upTo : A!Views]
        /\ pruner.upTo \in Nat /\ lowestRetainedView \in Nat /\ collectorsLowest \in Nat
        /\ collectorsLowest <= lowestRetainedView
    BY DEF AggregatorInv, A!TypeOK, PrunerInv
  <2>1. A!TypeOK' /\ PrunerInv'
    <3>1. CASE pruner.upTo > lowestRetainedView
      <4>1. lowestRetainedView' = pruner.upTo /\ pruner' = [pruner EXCEPT !.at = "prune"]
        BY <1>6, <2>0, <3>1 DEF A!SetLowestRetainedView
      <4>2. pruner' \in [at : {"wait", "read", "set", "prune"}, upTo : A!Views]
        BY <2>0, <4>1
      <4>3. A!TypeOK'
        BY <1>6, <2>0, <4>1, <4>2 DEF A!SetLowestRetainedView, AggregatorInv, A!TypeOK
      <4>4. collectorsLowest <= pruner.upTo /\ pruner'.upTo = pruner.upTo
        BY <2>0, <3>1, <4>1
      <4> QED BY <1>6, <4>1, <4>3, <4>4 DEF A!SetLowestRetainedView, PrunerInv
    <3>2. CASE ~ (pruner.upTo > lowestRetainedView)
      <4>1. UNCHANGED lowestRetainedView /\ pruner' = [pruner EXCEPT !.at = "wait"]
        BY <1>6, <3>2 DEF A!SetLowestRetainedView
      <4>2. pruner' \in [at : {"wait", "read", "set", "prune"}, upTo : A!Views] /\ pruner'.at = "wait"
        BY <2>0, <4>1
      <4> QED BY <1>6, <2>0, <4>1, <4>2
                 DEF A!SetLowestRetainedView, AggregatorInv, A!TypeOK, PrunerInv
    <3> QED BY <3>1, <3>2
  <2> QED BY <1>3, <1>6, <2>1 DEF A!SetLowestRetainedView
<1>7. CASE A!PruneUpToView
  <2>0. /\ pruner.at = "prune" /\ pruner' = [pruner EXCEPT !.at = "wait"]
        /\ collectors' = [v \in A!Views |-> IF v \in A!PrunedViews(pruner.upTo) THEN None ELSE collectors[v]]
        /\ collectorsLowest' = pruner.upTo
        /\ UNCHANGED <<queuedBlocks, queuedVotes, caller, notified, worker, delivered,
                       lowestRetainedView, finalizedView, finalizer, finalized>>
    BY <1>7 DEF A!PruneUpToView
  <2>1. pruner.upTo = lowestRetainedView /\ collectorsLowest <= pruner.upTo
    BY <2>0 DEF AggregatorInv, PrunerInv
  <2>2. /\ pruner.upTo \in A!Views /\ pruner.upTo \in Nat /\ collectorsLowest \in Nat
        /\ lowestRetainedView \in Nat
    BY DEF AggregatorInv, A!TypeOK
  <2>3. \A v \in A!PrunedViews(pruner.upTo) : v < pruner.upTo
    BY <2>2 DEF A!PrunedViews
  <2>4. ASSUME NEW v \in A!Views, v >= pruner.upTo
        PROVE  collectors'[v] = collectors[v] /\ v >= collectorsLowest
    <3>1. v \in Nat
      OBVIOUS
    <3>2. v \notin A!PrunedViews(pruner.upTo)
      BY <2>2, <2>3, <2>4, <3>1
    <3>3. v >= collectorsLowest
      BY <2>1, <2>2, <2>4, <3>1
    <3> QED BY <2>0, <3>2, <3>3
  <2>5. A!TypeOK'
    <3>1. collectors' \in [A!Views -> A!Messages \cup {None}]
      BY <2>0, AggregatorTypes
    <3>2. {collectorsLowest, lowestRetainedView, finalizedView}' \subseteq A!Views
      BY <2>0, <2>2 DEF AggregatorInv, A!TypeOK
    <3> QED BY <2>0, <3>1, <3>2 DEF AggregatorInv, A!TypeOK
  <2>6. ASSUME NEW w \in Workers PROVE WorkerOK(w)'
    BY <2>0, <2>4, AggregatorTypes DEF AggregatorInv, WorkerOK
  <2>7. DeliveredInv'
    <3> SUFFICES ASSUME NEW d \in delivered, ViewOf[d[1]] >= pruner.upTo
                 PROVE  d[2] = collectors'[ViewOf[d[1]]]
      BY <2>0 DEF DeliveredInv
    <3>1. d[1] \in A!Messages
      BY DEF AggregatorInv, A!TypeOK
    <3> QED BY <2>4, <3>1, AggregatorTypes DEF AggregatorInv, DeliveredInv
  <2>8. PrunerInv'
    BY <2>0, <2>1, <2>2 DEF AggregatorInv, A!TypeOK, PrunerInv
  <2> QED BY <2>5, <2>6, <2>7, <2>8 DEF AggregatorInv
<1> QED BY <1>1, <1>2, <1>4, <1>5, <1>6, <1>7 DEF A!PrunerStep

\* No step of the composition takes the aggregator out of the invariant.
LEMMA AggregatorStep == AggregatorInv /\ [Next]_vars => AggregatorInv'
<1> SUFFICES ASSUME AggregatorInv, [Next]_vars PROVE AggregatorInv'
  OBVIOUS
<1>1. CASE A!Next
  <2>1. CASE \E v \in Votes : A!AddVote(v)
    BY <2>1, AddVoteStep
  <2>2. CASE \E b \in Proposals : A!AddBlock(b)
    BY <2>2, AddBlockStep
  <2>3. CASE \E m \in A!Messages : A!Notify(m)
    BY <2>3, NotifyStep
  <2>4. CASE \E w \in Workers : A!WorkerStep(w)
    BY <2>4, WakeUpStep, PopBlockStep, PopVoteStep, CheckStaleStep, GetCollectorStep,
       InsertCollectorStep, DeliverStep DEF A!WorkerStep
  <2>5. CASE A!NotifyFinalized \/ A!PrunerStep \/ \E v \in A!Views : A!OnFinalizedBlock(v)
    BY <2>5, PrunerStepKeeps
  <2> QED BY <1>1, <2>1, <2>2, <2>3, <2>4, <2>5 DEF A!Next, A!Step
<1>2. CASE UNCHANGED aggregator
  <2>1. A!TypeOK'
    BY <1>2 DEF aggregator, AggregatorInv, A!TypeOK
  <2> QED BY <1>2, <2>1, CallerStep DEF aggregator
<1>3. QED
  BY <1>1, <1>2 DEF Next, vars, NextWeight, OnlyVotes, OnlyAggregator, OnlyLoop, OnlyCollector

\* The aggregator's invariant holds throughout, for every set of messages and every number
\* of workers.
THEOREM AggregatorInvariant == Spec => []AggregatorInv
<1>1. Init => AggregatorInv
  BY AggregatorInit DEF Init
<1> QED BY <1>1, AggregatorStep, PTL DEF Spec

\* GetOrCreateCollector gives all workers that have a message of a view, which is not pruned,
\* the same collector: the votes of a view are never spread over two.
THEOREM NoSplitVotesTheorem == Spec => []NoSplitVotes
<1>1. AggregatorInv => NoSplitVotes
  BY DEF AggregatorInv, DeliveredInv, NoSplitVotes, A!NoSplitVotes
<1> QED BY <1>1, AggregatorInvariant, PTL

-----------------------------------------------------------------------------
(***************************************************************************)
(* EventLoop.                                                              *)
(***************************************************************************)

\* The second select is entered without a timeout that has fired: if one fires there, nothing
\* has overtaken it yet.
LoopInv ==
    /\ L!TypeOK
    /\ overtaken \in Nat
    /\ timeoutFired => overtaken <= 1
    /\ timeoutFired /\ loop = "select2" => overtaken = 0

\* What is assumed of the loop's constants
LEMMA LoopConstants ==
    /\ \A e \in Certificates : e.kind \in L!Kinds
    /\ LoopProposals \cap (L!Kinds \cup {"select1", "select2", "timeout", "exited", "thrown"}) = {}
    /\ Capacity \in Nat /\ MaxTimeouts \in Nat
    /\ "QC" \in L!Kinds /\ "select1" \notin L!Kinds /\ "select2" \notin L!Kinds
BY CollectorsAssumption DEF CollectorsAssumption, L!ConstantsAssumption, L!Kinds

\* Init of EventLoop establishes the invariant.
LEMMA LoopInit == L!Init => LoopInv
<1> SUFFICES ASSUME L!Init PROVE LoopInv
  OBVIOUS
<1> USE LoopConstants DEF L!Init
<1>1. proposals \in Seq(LoopProposals) /\ Len(proposals) <= Capacity
  OBVIOUS
<1>2. timeouts \in 0 .. MaxTimeouts
  OBVIOUS
<1>3. L!TypeOK
  BY <1>1, <1>2 DEF L!TypeOK
<1> QED BY <1>3 DEF LoopInv

\* Who submits does not touch the loop.
LEMMA SubmittersKeep ==
    ASSUME LoopInv, UNCHANGED <<timeoutFired, timeouts, loop, handled, handledProposals, overtaken>>,
           submitter' \in [L!Events -> L!Kinds \cup {"idle", "qcOfTC", "send", "done", "doneQC"}],
           DOMAIN newest' = L!Kinds, loopNotified' \subseteq L!Kinds,
           proposals' \in Seq(LoopProposals), Len(proposals') <= Capacity, shutdown' \in BOOLEAN
    PROVE  LoopInv'
BY DEF LoopInv, L!TypeOK

\* Every way to submit an event keeps the invariant.
LEMMA SubmitSteps ==
    ASSUME LoopInv,
           \/ \E e \in Certificates : L!Submit(e)
           \/ \E p \in LoopProposals : L!StartSubmitProposal(p)
           \/ \E e \in L!Events : L!SubmitStep(e)
    PROVE  LoopInv'
<1> DEFINE Places == L!Kinds \cup {"idle", "qcOfTC", "send", "done", "doneQC"}
<1>0. /\ submitter \in [L!Events -> Places]
      /\ DOMAIN newest = L!Kinds /\ loopNotified \subseteq L!Kinds
      /\ proposals \in Seq(LoopProposals) /\ Len(proposals) <= Capacity /\ shutdown \in BOOLEAN
  BY DEF LoopInv, L!TypeOK
<1>1. ASSUME NEW e \in L!Events, NEW x \in Places PROVE [submitter EXCEPT ![e] = x] \in [L!Events -> Places]
  BY <1>0
<1>2. ASSUME NEW e \in L!Events, NEW kind \in L!Kinds, NEW view, L!Track(e, kind, view)
      PROVE  submitter' \in [L!Events -> Places] /\ DOMAIN newest' = L!Kinds
  BY <1>0, <1>1, <1>2 DEF L!Track
<1> HIDE DEF Places
<1>3. {"idle", "qcOfTC", "send", "done", "doneQC"} \subseteq Places
  BY DEF Places
<1>4. ASSUME NEW e \in Certificates, L!Submit(e) PROVE LoopInv'
  <2>1. e \in L!Events /\ e.kind \in L!Kinds
    BY LoopConstants DEF L!Events
  <2>2. submitter' \in [L!Events -> Places] /\ DOMAIN newest' = L!Kinds
    <3>1. CASE L!Track(e, e.kind, e.view)
      BY <1>2, <2>1, <3>1
    <3>2. CASE submitter' = [submitter EXCEPT ![e] = IF e.kind = "TC" THEN "qcOfTC" ELSE "done"]
               /\ UNCHANGED newest
      BY <1>0, <1>1, <1>3, <2>1, <3>2
    <3> QED BY <1>4, <3>1, <3>2 DEF L!Submit
  <2> QED BY <1>0, <1>4, <2>2, SubmittersKeep DEF L!Submit, Places
<1>5. ASSUME NEW p \in LoopProposals, L!StartSubmitProposal(p) PROVE LoopInv'
  <2>1. submitter' \in [L!Events -> Places]
    BY <1>1, <1>3, <1>5 DEF L!StartSubmitProposal, L!Events
  <2> QED BY <1>0, <1>5, <2>1, SubmittersKeep DEF L!StartSubmitProposal, Places
<1>6. ASSUME NEW e \in Certificates, L!SubmitQCOfTC(e) PROVE LoopInv'
  <2>1. e \in L!Events
    BY DEF L!Events
  <2>2. submitter' \in [L!Events -> Places] /\ DOMAIN newest' = L!Kinds
    <3>1. CASE L!Track(e, "QC", e.qc)
      BY <1>2, <2>1, <3>1, LoopConstants
    <3>2. CASE submitter' = [submitter EXCEPT ![e] = "doneQC"] /\ UNCHANGED newest
      BY <1>0, <1>1, <1>3, <2>1, <3>2
    <3> QED BY <1>6, <3>1, <3>2 DEF L!SubmitQCOfTC
  <2> QED BY <1>0, <1>6, <2>2, SubmittersKeep DEF L!SubmitQCOfTC, Places
<1>7. ASSUME NEW e \in Certificates, L!Notify(e) PROVE LoopInv'
  <2>1. submitter' \in [L!Events -> Places]
    BY <1>1, <1>3, <1>7 DEF L!Notify, L!Events
  <2>2. loopNotified' \subseteq L!Kinds
    BY <1>0, <1>7 DEF L!Notify
  <2> QED BY <1>0, <1>7, <2>1, <2>2, SubmittersKeep DEF L!Notify, Places
<1>8. ASSUME NEW p \in LoopProposals, L!SubmitProposal(p) PROVE LoopInv'
  <2>1. submitter' \in [L!Events -> Places]
    BY <1>1, <1>3, <1>8 DEF L!SubmitProposal, L!Events
  <2>2. proposals' \in Seq(LoopProposals) /\ Len(proposals') <= Capacity
    <3>1. CASE Len(proposals) < Capacity /\ proposals' = Append(proposals, p)
      <4>1. proposals' \in Seq(LoopProposals) /\ Len(proposals') = Len(proposals) + 1
        BY <1>0, <3>1
      <4>2. Len(proposals) \in Nat
        BY <1>0
      <4> QED BY <3>1, <4>1, <4>2, LoopConstants
    <3>2. CASE UNCHANGED proposals
      BY <1>0, <3>2
    <3> QED BY <1>8, <3>1, <3>2 DEF L!SubmitProposal
  <2> QED BY <1>0, <1>8, <2>1, <2>2, SubmittersKeep DEF L!SubmitProposal, Places
<1> QED BY <1>4, <1>5, <1>6, <1>7, <1>8 DEF L!SubmitStep

\* Every step of the loop, of the timer and of the shutdown keeps the invariant.
LEMMA LoopSteps ==
    ASSUME LoopInv, L!LoopStep \/ L!HandlerFails \/ L!Fire \/ L!Shutdown
    PROVE  LoopInv'
<1> USE LoopConstants DEF L!input
<1>1. CASE L!Exit
  BY <1>1 DEF L!Exit, LoopInv, L!TypeOK
<1>2. CASE L!TakeTimeout
  BY <1>2 DEF L!TakeTimeout, LoopInv, L!TypeOK
<1>3. ASSUME NEW kind \in L!Kinds, L!TakeCertificate(kind),
             loop = "select2" \/ (loop = "select1" /\ kind = "partialTC")
      PROVE  LoopInv'
  <2>1. loop' # "select2" /\ loop' \in L!Kinds /\ loopNotified' \subseteq L!Kinds
    BY <1>3 DEF L!TakeCertificate, LoopInv, L!TypeOK
  <2>2. overtaken' \in Nat /\ (timeoutFired' => overtaken' <= 1)
    BY <1>3 DEF L!TakeCertificate, LoopInv
  <2> QED BY <1>3, <2>1, <2>2 DEF L!TakeCertificate, LoopInv, L!TypeOK
<1>4. CASE loop = "select2" /\ L!TakeProposal
  <2>1. proposals \in Seq(LoopProposals) /\ proposals # <<>> /\ Len(proposals) <= Capacity
        /\ Len(proposals) \in Nat
    BY <1>4 DEF L!TakeProposal, LoopInv, L!TypeOK
  <2>2. Head(proposals) \in LoopProposals /\ Tail(proposals) \in Seq(LoopProposals)
        /\ Len(Tail(proposals)) = Len(proposals) - 1
    BY <2>1
  <2>3. Len(Tail(proposals)) <= Capacity
    BY <2>1, <2>2
  <2>4. loop' # "select2" /\ loop' \in LoopProposals
    BY <1>4, <2>2 DEF L!TakeProposal
  <2>5. overtaken' \in Nat /\ (timeoutFired' => overtaken' <= 1)
    BY <1>4 DEF L!TakeProposal, LoopInv
  <2> QED BY <1>4, <2>2, <2>3, <2>4, <2>5 DEF L!TakeProposal, LoopInv, L!TypeOK
<1>5. CASE ~timeoutFired /\ L!FallThrough
  BY <1>5 DEF L!FallThrough, LoopInv, L!TypeOK
<1>6. CASE L!PrioritySelect
  <2>1. "partialTC" \in L!Kinds
    BY DEF L!Kinds
  <2> QED BY <1>1, <1>2, <1>3, <1>5, <1>6, <2>1 DEF L!PrioritySelect
<1>7. ASSUME NEW kind \in L!Sources, L!Select(kind) PROVE LoopInv'
  BY <1>1, <1>2, <1>3, <1>4, <1>7 DEF L!Select
<1>8. CASE L!HandleCertificate
  BY <1>8 DEF L!HandleCertificate, LoopInv, L!TypeOK
<1>9. CASE L!HandleProposal
  BY <1>9 DEF L!HandleProposal, LoopInv, L!TypeOK
<1>10. CASE L!HandleTimeout
  BY <1>10 DEF L!HandleTimeout, LoopInv, L!TypeOK
<1>11. CASE L!HandlerFails
  BY <1>11 DEF L!HandlerFails, LoopInv, L!TypeOK
<1>12. CASE L!Fire
  BY <1>12 DEF L!Fire, LoopInv, L!TypeOK
<1>13. CASE L!Shutdown
  BY <1>13 DEF L!Shutdown, LoopInv, L!TypeOK
<1> QED BY <1>6, <1>7, <1>8, <1>9, <1>10, <1>11, <1>12, <1>13 DEF L!LoopStep, L!Handle

\* No step of the composition takes the event loop out of the invariant.
LEMMA EventLoopStep == LoopInv /\ [Next]_vars => LoopInv'
<1> SUFFICES ASSUME LoopInv, [Next]_vars PROVE LoopInv'
  OBVIOUS
<1>1. CASE L!Next
  BY <1>1, SubmitSteps, LoopSteps DEF L!Next, L!Step
<1>2. CASE UNCHANGED eventLoop
  BY <1>2 DEF eventLoop, LoopInv, L!TypeOK
<1>3. QED
  BY <1>1, <1>2 DEF Next, vars, NextWeight, OnlyVotes, OnlyAggregator, OnlyLoop, OnlyCollector

\* The event loop's invariant holds throughout, for every set of events and every capacity.
THEOREM LoopInvariant == Spec => []LoopInv
<1>1. Init => LoopInv
  BY LoopInit DEF Init
<1> QED BY <1>1, EventLoopStep, PTL DEF Spec

\* Once the timer has fired, the two selects of the loop let one event without priority at
\* most come before OnLocalTimeout.
THEOREM TimeoutPriorityTheorem == Spec => []TimeoutPriority
<1>1. LoopInv => TimeoutPriority
  BY DEF LoopInv, TimeoutPriority, L!TimeoutPriority
<1> QED BY <1>1, LoopInvariant, PTL

-----------------------------------------------------------------------------
(***************************************************************************)
(* The whole composition.                                                  *)
(***************************************************************************)

\* Two quorums share a correct replica and the correct replicas are a quorum, whatever
\* weight the run has counted up to.
THEOREM ThresholdsTheorem == Spec => []ThresholdsAreSound
<1> DEFINE Inv == totalWeight \in Nat
<1>1. Init => Inv
  BY DEF Init
<1>2. Inv /\ [Next]_vars => Inv'
  BY DEF Next, vars, NextWeight, OnlyVotes, OnlyAggregator, OnlyLoop, OnlyCollector
<1>3. Inv => ThresholdsAreSound
  <2>1. Inv /\ totalWeight > 0 => totalWeight \in Nat \ {0}
    OBVIOUS
  <2> QED BY <2>1, ThresholdsSound DEF ThresholdsAreSound
<1> QED BY <1>1, <1>2, <1>3, PTL DEF Spec

\* All variables stay where they may be; the queues and channels keep to their capacity.
THEOREM TypeOKTheorem == Spec => []TypeOK
<1>1. VotesInv /\ AggregatorInv /\ TimeoutsInv /\ LoopInv => TypeOK
  BY DEF VotesInv, AggregatorInv, TimeoutsInv, LoopInv, TypeOK
<1> QED BY <1>1, VotesInvariant, AggregatorInvariant, TimeoutsInvariant, LoopInvariant, PTL

\* No interleaving of votes or of timeouts is an internal error that would stop the node.
THEOREM NoInternalErrorTheorem == Spec => []NoInternalError
<1>1. V!NoFatalVote /\ C!NoFatalTimeout => NoInternalError
  BY DEF NoInternalError
<1> QED BY <1>1, NoFatalVoteTheorem, NoFatalTimeoutTheorem, PTL

=============================================================================
