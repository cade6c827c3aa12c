---------------------------- MODULE ServicesProofs ----------------------------
(***************************************************************************)
(* TLAPS proofs about JobConsumer, Component, Requester and Compactor as   *)
(* MCServices composes them.                                               *)
(***************************************************************************)
EXTENDS MCServices, FiniteSetTheorems, WellFoundedInduction, TLAPS

\* A set of natural numbers has a least element.
LEMMA LeastNatural ==
    ASSUME NEW S \in SUBSET Nat, S # {}
    PROVE  \E x \in S : \A y \in S : x <= y
<1> DEFINE Less == {p \in Nat \X Nat : p[1] < p[2]}
<1>1. IsWellFoundedOn(Less, Nat)
  BY NatLessThanWellFounded, Zenon DEF OpToRel
<1> HIDE DEF Less
<1>2. PICK x \in S : \A y \in S : ~ (<<y, x>> \in Less)
  BY <1>1, WFMin
<1>3. ASSUME NEW y \in S PROVE x <= y
  <2>1. ~ (y < x)
    BY <1>2 DEF Less
  <2> QED BY <2>1
<1> QED BY <1>3

-----------------------------------------------------------------------------
(***************************************************************************)
(* JobConsumer.                                                            *)
(***************************************************************************)

\* What is recorded as done, in memory or by a goroutine about to notify, is done.
DoneInv(ps, ws) ==
    \A i \in J!Indices : ps[i] = "done" \/ ws[i] = "notifying" => i \in finished

\* All jobs up to an index are done.
DoneTo(k) == \A i \in (DefaultIndex + 1)..k : i \in finished

\* Neither the stored index nor the one in memory passes a job that is not done.
JobsInv ==
    /\ J!TypeOK
    /\ DoneInv(processings, jobWorker)
    /\ DoneTo(processedIndex)
    /\ persisted # None => DoneTo(persisted)

\* What is assumed of the consumer's constants
LEMMA JobConstants ==
    /\ LastJob \in Nat /\ DefaultIndex \in 0..LastJob /\ None \notin 0..LastJob
BY ServicesAssumption DEF ServicesAssumption, J!ConstantsAssumption

\* The loop of processableJobs ends: the index it advances to is there, all jobs up to it
\* are done and the next one, if any, is not.
LEMMA ProcessedToIsReached ==
    ASSUME NEW index \in 0..LastJob, NEW ps
    PROVE  LET to == J!ProcessedTo(index, ps) IN
           /\ to \in index..LastJob
           /\ \A i \in (index + 1)..to : ps[i] = "done"
           /\ to + 1 \in J!Indices => ps[to + 1] # "done"
<1> USE JobConstants
<1> DEFINE Stops == {k \in index..LastJob : k + 1 \in J!Indices => ps[k + 1] # "done"}
<1>1. Stops \in SUBSET Nat
  OBVIOUS
<1>2. LastJob \in Stops
  BY DEF J!Indices
<1>3. PICK k \in Stops : \A j \in Stops : k <= j
  BY <1>1, <1>2, LeastNatural
<1>4. k \in index..LastJob /\ (k + 1 \in J!Indices => ps[k + 1] # "done")
  BY <1>3
<1>5. ASSUME NEW i \in (index + 1)..k PROVE ps[i] = "done"
  <2>1. i - 1 \in index..LastJob /\ i - 1 < k /\ (i - 1) + 1 = i
    BY <1>4, <1>5
  <2>2. i - 1 \notin Stops
    BY <1>3, <1>4, <2>1
  <2> QED BY <2>1, <2>2
<1> HIDE DEF Stops
<1>6. \E m \in index..LastJob : /\ \A i \in (index + 1)..m : ps[i] = "done"
                                /\ m + 1 \in J!Indices => ps[m + 1] # "done"
  BY <1>4, <1>5
<1> QED BY <1>6 DEF J!ProcessedTo

\* run, from wherever it is called: it starts workers and stores an index that passes no
\* job that is not done, or fails to.
LEMMA RunKeeps ==
    ASSUME J!TypeOK,
           NEW index \in 0..LastJob, NEW stored \in 0..LastJob \cup {None},
           NEW ps \in [J!Indices -> {"none", "processing", "done"}],
           NEW ws \in [J!Indices -> {"none", "working", "notifying"}],
           DoneInv(ps, ws), DoneTo(index), stored # None => DoneTo(stored),
           J!Run(index, stored, ps, ws),
           UNCHANGED <<head, finished>>,
           lock' \in Checkers \cup {None}, isChecking' \in BOOLEAN,
           phase' \in {"new", "running", "stopped"}
    PROVE  JobsInv'
<1> USE JobConstants
<1> DEFINE to == J!ProcessedTo(index, ps)
           new == IF phase' = "running" THEN J!ProcessableJobs(to, ps) ELSE {}
           started == [i \in J!Indices |-> IF i \in new THEN "processing" ELSE ps[i]]
<1>1. to \in index..LastJob /\ \A i \in (index + 1)..to : ps[i] = "done"
  BY ProcessedToIsReached
<1>2. DoneTo(to)
  <2> SUFFICES ASSUME NEW i \in (DefaultIndex + 1)..to PROVE i \in finished
    BY DEF DoneTo
  <2>1. CASE i <= index
    BY <1>1, <2>1 DEF DoneTo
  <2>2. CASE ~ (i <= index)
    <3>1. i \in (index + 1)..to /\ i \in J!Indices
      BY <1>1, <2>2 DEF J!Indices
    <3> QED BY <1>1, <3>1 DEF DoneInv
  <2> QED BY <2>1, <2>2
<1>3. /\ jobWorker' = [i \in J!Indices |-> IF i \in new THEN "working" ELSE ws[i]]
      /\ \/ persisted' = stored /\ processedIndex' = index /\ processings' = started
         \/ /\ persisted' = to /\ processedIndex' = to
            /\ processings' = [i \in J!Indices |-> IF i <= to THEN "none" ELSE started[i]]
  BY DEF J!Run
<1>4. to \in 0..LastJob
  BY <1>1
<1> HIDE DEF new, to
<1>5. started \in [J!Indices -> {"none", "processing", "done"}]
      /\ \A i \in J!Indices : started[i] = "done" => ps[i] = "done"
  OBVIOUS
<1>6. jobWorker' \in [J!Indices -> {"none", "working", "notifying"}]
      /\ \A i \in J!Indices : jobWorker'[i] = "notifying" => ws[i] = "notifying"
  BY <1>3
<1> HIDE DEF started
<1>7. processings' \in [J!Indices -> {"none", "processing", "done"}]
      /\ \A i \in J!Indices : processings'[i] = "done" => ps[i] = "done"
  BY <1>3, <1>5
<1>8. DoneInv(processings, jobWorker)'
  BY <1>6, <1>7 DEF DoneInv
<1>9. DoneTo(processedIndex)' /\ (persisted # None => DoneTo(persisted))'
      /\ processedIndex' \in 0..LastJob /\ persisted' \in 0..LastJob \cup {None}
  BY <1>2, <1>3, <1>4 DEF DoneTo
<1>10. J!TypeOK'
  BY <1>6, <1>7, <1>9 DEF J!TypeOK
<1> QED BY <1>8, <1>9, <1>10 DEF JobsInv

\* Init of JobConsumer establishes the invariant.
LEMMA JobsInit == J!Init => JobsInv
<1> SUFFICES ASSUME J!Init PROVE JobsInv
  OBVIOUS
<1> USE JobConstants DEF J!Init
<1>1. J!TypeOK
  <2>1. head \in DefaultIndex..LastJob /\ processedIndex \in 0..LastJob
    OBVIOUS
  <2> QED BY <2>1 DEF J!TypeOK
<1>2. DoneInv(processings, jobWorker) /\ DoneTo(processedIndex)
  BY DEF DoneInv, DoneTo
<1> QED BY <1>1, <1>2 DEF JobsInv

\* No step of the composition takes the job consumer out of the invariant.
LEMMA JobsStep == JobsInv /\ [Next]_vars => JobsInv'
<1> SUFFICES ASSUME JobsInv, [Next]_vars PROVE JobsInv'
  OBVIOUS
<1> USE JobConstants DEF J!persistent
<1>0. /\ J!TypeOK /\ DoneInv(processings, jobWorker) /\ DoneTo(processedIndex)
      /\ persisted # None => DoneTo(persisted)
      /\ processings \in [J!Indices -> {"none", "processing", "done"}]
      /\ jobWorker \in [J!Indices -> {"none", "working", "notifying"}]
      /\ processedIndex \in 0..LastJob /\ persisted \in 0..LastJob \cup {None}
  BY DEF JobsInv, J!TypeOK
<1>1. CASE J!AddJob
  BY <1>0, <1>1 DEF J!AddJob, JobsInv, J!TypeOK, DoneInv, DoneTo
<1>2. CASE J!Start
  <2> DEFINE stored == IF persisted = None THEN DefaultIndex ELSE persisted
  <2>1. /\ J!Run(stored, stored, processings, jobWorker) /\ phase' = "running"
        /\ UNCHANGED <<head, finished, lock, isChecking>>
    BY <1>2 DEF J!Start
  <2>2. stored \in 0..LastJob /\ DoneTo(stored)
    BY <1>0 DEF DoneTo
  <2>3. lock' \in Checkers \cup {None} /\ isChecking' \in BOOLEAN
    BY <1>0, <2>1 DEF J!TypeOK
  <2> HIDE DEF stored
  <2> QED BY <1>0, <2>1, <2>2, <2>3, RunKeeps
<1>3. CASE J!Stop
  BY <1>0, <1>3 DEF J!Stop, JobsInv, J!TypeOK, DoneInv, DoneTo
<1>4. ASSUME NEW c \in Checkers, J!Check(c) PROVE JobsInv'
  BY <1>0, <1>4 DEF J!Check, JobsInv, J!TypeOK, DoneInv, DoneTo
<1>5. ASSUME NEW c \in Checkers, J!CheckProcessable(c) PROVE JobsInv'
  <2>1. /\ J!Run(processedIndex, persisted, processings, jobWorker)
        /\ UNCHANGED <<head, finished, phase, isChecking>> /\ lock' = c
    BY <1>5 DEF J!CheckProcessable
  <2>2. phase' \in {"new", "running", "stopped"} /\ isChecking' \in BOOLEAN
    BY <1>0, <2>1 DEF J!TypeOK
  <2> QED BY <1>0, <2>1, <2>2, RunKeeps
<1>6. ASSUME NEW c \in Checkers, J!CheckReturns(c) PROVE JobsInv'
  BY <1>0, <1>6 DEF J!CheckReturns, JobsInv, J!TypeOK, DoneInv, DoneTo
<1>7. ASSUME NEW i \in J!Indices, J!Finish(i) PROVE JobsInv'
  <2>1. /\ jobWorker' \in [J!Indices -> {"none", "working", "notifying"}]
        /\ \A j \in J!Indices \ {i} : jobWorker'[j] = jobWorker[j]
        /\ finished' = finished \cup {i} /\ finished' \subseteq J!Indices
        /\ UNCHANGED <<head, persisted, lock, isChecking, phase, processedIndex, processings>>
    BY <1>0, <1>7 DEF J!Finish, J!TypeOK
  <2>2. DoneInv(processings, jobWorker)'
    BY <1>0, <2>1 DEF DoneInv
  <2>3. DoneTo(processedIndex)' /\ (persisted # None => DoneTo(persisted))'
    BY <1>0, <2>1 DEF DoneTo
  <2> QED BY <1>0, <2>1, <2>2, <2>3 DEF JobsInv, J!TypeOK
<1>8. ASSUME NEW i \in J!Indices, J!NotifyJobIsDone(i) PROVE JobsInv'
  <2>0. jobWorker[i] = "notifying" /\ i \in finished /\ UNCHANGED <<head, finished, isChecking, lock>>
    BY <1>0, <1>8 DEF J!NotifyJobIsDone, DoneInv
  <2> DEFINE ps == [processings EXCEPT ![i] = "done"]
             ws == [jobWorker EXCEPT ![i] = "none"]
  <2>1. /\ ps \in [J!Indices -> {"none", "processing", "done"}]
        /\ ws \in [J!Indices -> {"none", "working", "notifying"}]
        /\ DoneInv(ps, ws) /\ DoneInv(processings, ws)
    BY <1>0, <2>0 DEF DoneInv
  <2>2. CASE /\ jobWorker' = ws
             /\ UNCHANGED <<persisted, phase, processedIndex, processings, failures>>
    BY <1>0, <2>0, <2>1, <2>2 DEF JobsInv, J!TypeOK, DoneInv, DoneTo
  <2>3. CASE J!Run(processedIndex, persisted, ps, ws) /\ UNCHANGED phase
    <3>1. /\ phase' \in {"new", "running", "stopped"} /\ isChecking' \in BOOLEAN
          /\ lock' \in Checkers \cup {None}
      BY <1>0, <2>0, <2>3 DEF J!TypeOK
    <3> HIDE DEF ps, ws
    <3> QED BY <1>0, <2>0, <2>1, <2>3, <3>1, RunKeeps
  <2> QED BY <1>8, <2>2, <2>3 DEF J!NotifyJobIsDone
<1>9. CASE J!Crash
  <2>1. /\ processedIndex' = 0 /\ 0 \in 0..LastJob /\ phase' = "new" /\ lock' = None /\ isChecking' = FALSE
        /\ UNCHANGED <<head, persisted, finished>>
        /\ processings' = [i \in J!Indices |-> "none"] /\ jobWorker' = [i \in J!Indices |-> "none"]
    BY <1>9 DEF J!Crash
  <2>2. J!TypeOK'
    BY <1>0, <2>1 DEF J!TypeOK
  <2>3. DoneInv(processings, jobWorker)' /\ DoneTo(processedIndex)'
    BY <2>1 DEF DoneInv, DoneTo
  <2>4. (persisted # None => DoneTo(persisted))'
    BY <1>0, <2>1 DEF DoneTo
  <2> QED BY <2>2, <2>3, <2>4 DEF JobsInv
<1>10. CASE UNCHANGED jobs
  BY <1>0, <1>10 DEF jobs, JobsInv, J!TypeOK, DoneInv, DoneTo
<1> QED
  BY <1>1, <1>2, <1>3, <1>4, <1>5, <1>6, <1>7, <1>8, <1>9, <1>10
     DEF J!Next, J!Step, Next, vars, OnlyJobs, OnlyComponent, OnlyRequester, OnlyLedger

\* Whatever the order in which jobs end, however often the process crashes and the write of
\* the index fails: the stored index never passes a job whose work is not done.
THEOREM NoJobSkippedTheorem == Spec => []NoJobSkipped
<1>1. Init => JobsInv
  BY JobsInit DEF Init
<1>2. JobsInv => NoJobSkipped
  BY DEF JobsInv, DoneTo, NoJobSkipped, J!NoJobSkipped
<1> QED BY <1>1, <1>2, JobsStep, PTL DEF Spec

-----------------------------------------------------------------------------
(***************************************************************************)
(* Requester.                                                              *)
(***************************************************************************)
Items == [attempts : 0..RetryAttempts, due : BOOLEAN, needed : BOOLEAN]

\* An entity that is needed was asked for more often than it was handled.
RequesterInv ==
    /\ items \in [Entities -> Items]
    /\ added \in [Entities -> Nat] /\ handled \in [Entities -> Nat]
    /\ poller \in BOOLEAN /\ ongoing \in BOOLEAN
    /\ requests \subseteq R!Nonces
    /\ \E k \in Nat : R!Nonces = 1..k
    /\ \A e \in Entities : handled[e] <= added[e] /\ (items[e].needed => handled[e] < added[e])

\* What is assumed of the requester's constants
LEMMA RequesterConstants == RetryAttempts \in Nat
BY ServicesAssumption DEF ServicesAssumption, R!ConstantsAssumption

\* An entity without an item is not needed.
LEMMA NoItemType == R!NoItem \in Items /\ ~ R!NoItem.needed
BY RequesterConstants DEF R!NoItem, Items

\* Init of Requester establishes the invariant.
LEMMA RequesterInit == R!Init => RequesterInv
<1> SUFFICES ASSUME R!Init PROVE RequesterInv
  OBVIOUS
<1> USE RequesterConstants DEF R!Init
<1>1. R!NoItem \in Items /\ ~ R!NoItem.needed
  BY NoItemType
<1>2. items \in [Entities -> Items] /\ \A e \in Entities : ~ items[e].needed
  BY <1>1
<1>3. R!Nonces = 1..0
  BY DEF R!Nonces
<1>4. \E k \in Nat : R!Nonces = 1..k
  <2>1. 0 \in Nat
    OBVIOUS
  <2> QED BY <1>3, <2>1
<1>5. /\ added \in [Entities -> Nat] /\ handled \in [Entities -> Nat]
      /\ \A e \in Entities : handled[e] <= added[e]
  OBVIOUS
<1> QED BY <1>2, <1>4, <1>5 DEF RequesterInv

\* A new request gets the next nonce.
LEMMA NextNonce ==
    ASSUME NEW k \in Nat, R!Nonces = 1..k PROVE R!Cardinality(R!Nonces) = k
<1>1. R!Cardinality(R!Nonces) = Cardinality(R!Nonces)
  BY DEF R!Cardinality, Cardinality
<1>2. Cardinality(1..k) = k
  <2>1. Cardinality(1..k) = IF 1 > k THEN 0 ELSE k - 1 + 1
    BY FS_Interval
  <2> QED BY <2>1
<1>3. Cardinality(R!Nonces) = Cardinality(1..k)
  OBVIOUS
<1> QED BY <1>1, <1>2, <1>3

\* A dispatch drops items and counts attempts; it hands nothing over.
LEMMA DispatchKeeps ==
    ASSUME RequesterInv, NEW batch \in SUBSET (R!Due \ R!Expired), NEW dropped \in SUBSET R!Expired,
           items' = R!Requested(batch, dropped), UNCHANGED <<added, handled>>,
           \/ UNCHANGED <<sent, requests>>
           \/ /\ sent' = [n \in 1..(R!Cardinality(R!Nonces) + 1) |->
                             IF n \in R!Nonces THEN sent[n] ELSE batch]
              /\ requests' = requests \cup {R!Cardinality(R!Nonces) + 1},
           poller' \in BOOLEAN, ongoing' \in BOOLEAN
    PROVE  RequesterInv'
<1> USE RequesterConstants
<1>1. ASSUME NEW e \in Entities
      PROVE  items'[e] \in Items /\ (items'[e].needed => items[e].needed)
  <2>1. items[e] \in Items
    BY DEF RequesterInv
  <2>2. CASE e \in dropped
    <3>1. items'[e] = R!NoItem
      BY <2>2 DEF R!Requested
    <3> QED BY <3>1, NoItemType
  <2>3. CASE e \notin dropped /\ e \in batch
    <3>1. ~ (items[e].attempts >= RetryAttempts)
      BY <2>3 DEF R!Due, R!Expired
    <3>2. items[e].attempts + 1 \in 0..RetryAttempts
      BY <2>1, <3>1 DEF Items
    <3>3. items'[e] = [items[e] EXCEPT !.attempts = @ + 1, !.due = FALSE]
      BY <2>3 DEF R!Requested
    <3>4. items'[e] = [attempts |-> items[e].attempts + 1, due |-> FALSE, needed |-> items[e].needed]
      BY <2>1, <3>3 DEF Items
    <3> QED BY <2>1, <3>2, <3>4 DEF Items
  <2>4. CASE e \notin dropped /\ e \notin batch
    BY <2>1, <2>4 DEF R!Requested
  <2> QED BY <2>2, <2>3, <2>4
<1>2. items' \in [Entities -> Items]
  BY <1>1 DEF R!Requested
<1>3. requests' \subseteq R!Nonces' /\ \E k \in Nat : R!Nonces' = 1..k
  <2>1. PICK k \in Nat : R!Nonces = 1..k
    BY DEF RequesterInv
  <2>2. R!Cardinality(R!Nonces) = k
    BY <2>1, NextNonce
  <2>3. CASE UNCHANGED <<sent, requests>>
    BY <2>1, <2>3 DEF RequesterInv, R!Nonces
  <2>4. CASE /\ sent' = [n \in 1..(k + 1) |-> IF n \in R!Nonces THEN sent[n] ELSE batch]
             /\ requests' = requests \cup {k + 1}
    <3>1. R!Nonces' = 1..(k + 1)
      BY <2>4 DEF R!Nonces
    <3>2. requests \subseteq 1..k
      BY <2>1 DEF RequesterInv
    <3> QED BY <2>4, <3>1, <3>2
  <2> QED BY <2>2, <2>3, <2>4
<1> QED BY <1>1, <1>2, <1>3 DEF RequesterInv

\* What a batch and the items dropped with it are
LEMMA BatchesAreDue ==
    ASSUME NEW b \in R!Batches
    PROVE  b[1] \in SUBSET (R!Due \ R!Expired) /\ b[2] \in SUBSET R!Expired
BY DEF R!Batches

\* Poll and the goroutine of Force, with either of the two kinds of dispatch
LEMMA DispatchStep ==
    ASSUME RequesterInv,
           (\E b \in R!Batches : R!DispatchRequest(b[1], b[2])) \/ R!DispatchFails,
           poller' \in BOOLEAN, ongoing' \in BOOLEAN
    PROVE  RequesterInv'
<1>1. ASSUME NEW b \in R!Batches, R!DispatchRequest(b[1], b[2]) PROVE RequesterInv'
  <2>1. b[1] \in SUBSET (R!Due \ R!Expired) /\ b[2] \in SUBSET R!Expired
    BY BatchesAreDue
  <2>2. /\ items' = R!Requested(b[1], b[2]) /\ UNCHANGED <<added, handled>>
        /\ \/ UNCHANGED <<sent, requests>>
           \/ /\ sent' = [n \in 1..(R!Cardinality(R!Nonces) + 1) |->
                             IF n \in R!Nonces THEN sent[n] ELSE b[1]]
              /\ requests' = requests \cup {R!Cardinality(R!Nonces) + 1}
    BY <1>1 DEF R!DispatchRequest
  <2> QED BY <2>1, <2>2, DispatchKeeps
<1>2. CASE R!DispatchFails
  <2>1. PICK dropped \in SUBSET R!Expired : items' = R!Requested({}, dropped)
    BY <1>2 DEF R!DispatchFails
  <2>2. UNCHANGED <<added, handled, sent, requests>> /\ {} \in SUBSET (R!Due \ R!Expired)
    BY <1>2 DEF R!DispatchFails
  <2> QED BY <2>1, <2>2, DispatchKeeps
<1> QED BY <1>1, <1>2

\* No step of the composition takes the requester out of the invariant.
LEMMA RequesterStep == RequesterInv /\ [Next]_vars => RequesterInv'
<1> SUFFICES ASSUME RequesterInv, [Next]_vars PROVE RequesterInv'
  OBVIOUS
<1> USE RequesterConstants
<1>0. /\ items \in [Entities -> Items] /\ added \in [Entities -> Nat]
      /\ handled \in [Entities -> Nat] /\ poller \in BOOLEAN /\ ongoing \in BOOLEAN
  BY DEF RequesterInv
<1>1. ASSUME NEW e \in Entities, R!EntityByID(e) PROVE RequesterInv'
  <2> DEFINE new == [attempts |-> 0, due |-> TRUE, needed |-> TRUE]
  <2>1. new \in Items
    BY DEF Items
  <2>2. items' = [items EXCEPT ![e] = new] /\ added' = [added EXCEPT ![e] = @ + 1]
        /\ UNCHANGED <<requests, sent, poller, ongoing, forces, handled>>
    BY <1>1 DEF R!EntityByID
  <2> HIDE DEF new
  <2>3. /\ items' \in [Entities -> Items] /\ added' \in [Entities -> Nat]
        /\ added'[e] = added[e] + 1
        /\ \A f \in Entities \ {e} : items'[f] = items[f] /\ added'[f] = added[f]
    BY <1>0, <2>1, <2>2
  <2>4. ASSUME NEW f \in Entities
        PROVE  handled[f] <= added'[f] /\ (items'[f].needed => handled[f] < added'[f])
    <3>1. handled[f] \in Nat /\ added[f] \in Nat /\ handled[f] <= added[f]
      BY <1>0 DEF RequesterInv
    <3>2. CASE f = e
      BY <2>3, <3>1, <3>2
    <3>3. CASE f # e
      BY <2>3, <3>1, <3>3 DEF RequesterInv
    <3> QED BY <3>2, <3>3
  <2> QED BY <2>2, <2>3, <2>4 DEF RequesterInv, R!Nonces
<1>2. ASSUME NEW e \in Entities, R!Elapse(e) PROVE RequesterInv'
  <2>1. items' = [items EXCEPT ![e].due = TRUE]
        /\ UNCHANGED <<requests, sent, poller, ongoing, forces, added, handled>>
    BY <1>2 DEF R!Elapse
  <2>2. items' \in [Entities -> Items] /\ \A f \in Entities : items'[f].needed = items[f].needed
    BY <1>0, <2>1 DEF Items
  <2> QED BY <2>1, <2>2 DEF RequesterInv, R!Nonces
<1>3. CASE R!Poll
  <2>1. CASE poller' = FALSE /\ UNCHANGED <<items, requests, sent, added, handled>>
    BY <1>0, <1>3, <2>1 DEF R!Poll, RequesterInv, R!Nonces
  <2>2. CASE UNCHANGED poller /\ ((\E b \in R!Batches : R!DispatchRequest(b[1], b[2])) \/ R!DispatchFails)
    <3>1. poller' \in BOOLEAN /\ ongoing' \in BOOLEAN
      BY <1>0, <1>3, <2>2 DEF R!Poll
    <3> QED BY <2>2, <3>1, DispatchStep
  <2> QED BY <1>3, <2>1, <2>2 DEF R!Poll
<1>4. CASE R!Force
  BY <1>0, <1>4 DEF R!Force, RequesterInv, R!Nonces
<1>5. CASE R!ForceStarts
  BY <1>0, <1>5 DEF R!ForceStarts, RequesterInv, R!Nonces
<1>6. CASE R!ForceDispatches
  <2>1. (\E b \in R!Batches : R!DispatchRequest(b[1], b[2])) \/ R!DispatchFails
    BY <1>6 DEF R!ForceDispatches
  <2>2. poller' \in BOOLEAN
    BY <1>0, <1>6 DEF R!ForceDispatches
  <2>3. ongoing' \in BOOLEAN
    BY <1>6 DEF R!ForceDispatches
  <2> QED BY <2>1, <2>2, <2>3, DispatchStep
<1>7. ASSUME NEW n \in R!Nonces, R!Forget(n) PROVE RequesterInv'
  BY <1>0, <1>7 DEF R!Forget, RequesterInv, R!Nonces
<1>8. ASSUME NEW n \in R!Nonces, NEW got \in SUBSET R!Needed, NEW broken \in BOOLEAN,
             R!OnEntityResponse(n, got, broken)
      PROVE  RequesterInv'
  <2> DEFINE missing == IF n \in requests /\ ~broken THEN sent[n] \cap (R!Needed \ got) ELSE {}
  <2>1. /\ items' = [e \in Entities |->
                        IF e \in got THEN R!NoItem
                        ELSE IF e \in missing THEN [items[e] EXCEPT !.due = TRUE]
                        ELSE items[e]]
        /\ handled' = [e \in Entities |-> handled[e] + IF e \in got THEN 1 ELSE 0]
        /\ requests' = requests \ {n}
        /\ UNCHANGED <<sent, poller, ongoing, forces, added>>
    BY <1>8 DEF R!OnEntityResponse
  <2> HIDE DEF missing
  <2>2. ASSUME NEW e \in Entities
        PROVE  /\ items'[e] \in Items /\ handled'[e] \in Nat
               /\ handled'[e] <= added[e] /\ (items'[e].needed => handled'[e] < added[e])
    <3>1. /\ items[e] \in Items /\ handled[e] \in Nat /\ added[e] \in Nat
          /\ handled[e] <= added[e] /\ (items[e].needed => handled[e] < added[e])
      BY <1>0 DEF RequesterInv
    <3>2. CASE e \in got
      <4>1. items'[e] = R!NoItem /\ handled'[e] = handled[e] + 1
        BY <2>1, <3>2
      <4>2. items[e].needed
        BY <3>2 DEF R!Needed
      <4> QED BY <3>1, <4>1, <4>2, NoItemType
    <3>3. CASE e \notin got
      <4>1. handled'[e] = handled[e]
        BY <2>1, <3>1, <3>3
      <4>2. items'[e] = IF e \in missing THEN [items[e] EXCEPT !.due = TRUE] ELSE items[e]
        BY <2>1, <3>3
      <4>3. items'[e] \in Items /\ items'[e].needed = items[e].needed
        BY <3>1, <4>2 DEF Items
      <4> QED BY <3>1, <4>1, <4>3
    <3> QED BY <3>2, <3>3
  <2>3. items' \in [Entities -> Items] /\ handled' \in [Entities -> Nat]
    BY <2>1, <2>2
  <2> QED BY <1>0, <2>1, <2>2, <2>3 DEF RequesterInv, R!Nonces
<1>9. CASE UNCHANGED requester
  BY <1>0, <1>9 DEF requester, RequesterInv, R!Nonces
<1> QED
  BY <1>1, <1>2, <1>3, <1>4, <1>5, <1>6, <1>7, <1>8, <1>9
     DEF R!Next, R!Step, Next, vars, OnlyJobs, OnlyComponent, OnlyRequester, OnlyLedger

\* However late, partial, wrong or repeated the responses are, an entity is handed over at
\* most once for each time it was asked for.
THEOREM HandledOnceTheorem == Spec => []HandledOnce
<1>1. Init => RequesterInv
  BY RequesterInit DEF Init
<1>2. RequesterInv => HandledOnce
  BY DEF RequesterInv, Items, HandledOnce, R!HandledOnce, R!TypeOK
<1> QED BY <1>1, <1>2, RequesterStep, PTL DEF Spec

-----------------------------------------------------------------------------
(***************************************************************************)
(* Component.                                                              *)
(***************************************************************************)
WorkerPlaces ==
    {"none", "running", "ready", "waitReady", "starting", "waitInner", "aborted", "done",
     "doneReady"}
PropagatorPlaces == {"none", "starting", "wait", "cancel", "closing", "ended"}

\* A manager that is not started has closed no channel and runs no worker; once its
\* workers are done they stay so; its propagator has gone on with the error thrown to the
\* parent, or when no worker could throw any more; it closes "done" at the very end.
ManagerOK(m) ==
    /\ propagator[m] \in {"none", "starting"} =>
          /\ \A ch \in {"ready", "shutdown", "workersDone", "done"} : <<m, ch>> \notin closed
          /\ \A w \in C!Workers(m) : worker[w] = "none"
    /\ <<m, "workersDone">> \in closed =>
          \A w \in C!Workers(m) : worker[w] \in {"done", "doneReady"}
    /\ propagator[m] \in {"cancel", "closing", "ended"} =>
          \/ C!ParentOf(m) \in thrown
          \/ m \notin failed /\ <<m, "workersDone">> \in closed
    /\ <<m, "done">> \in closed => propagator[m] = "ended" /\ <<m, "workersDone">> \in closed

\* RunComponent leaves an instance when its workers are done, or has none yet; the host
\* starts the inner component once.
ComponentInv ==
    /\ C!TypeOK
    /\ worker \in [C!Loops \cup {Host} -> WorkerPlaces]
    /\ propagator \in [C!Managers -> PropagatorPlaces]
    /\ failed \subseteq thrown
    /\ \A m \in C!Managers : ManagerOK(m)
    /\ worker[Host] \in {"none", "running"} => propagator["inner"] = "none"
    /\ runner \in {"start", "returned"} =>
          propagator["outer"] = "none" \/ <<"outer", "workersDone">> \in closed


\* A worker belongs to exactly one manager.
LEMMA WorkersApart ==
    /\ MaxRestarts \in Nat
    /\ Host \in C!Workers("outer") /\ Host \notin C!Loops /\ C!ManagerOf(Host) = "outer"
    /\ \A w \in C!Loops \cup {Host}, m \in C!Managers :
          w \in C!Workers(m) <=> C!ManagerOf(w) = m
    /\ \A w \in C!Loops \cup {Host} : C!ManagerOf(w) \in C!Managers
    /\ \A m \in C!Managers : C!Workers(m) \subseteq C!Loops \cup {Host}
BY ServicesAssumption DEF ServicesAssumption, C!ConstantsAssumption, C!Workers, C!ManagerOf,
   C!Managers, C!Loops

\* Nothing runs at the start.
LEMMA ComponentInit == C!Init => ComponentInv
BY WorkersApart DEF C!Init, ComponentInv, C!TypeOK, ManagerOK, C!Managers, WorkerPlaces,
   PropagatorPlaces

\* A step in which one worker goes on, from a place where it is neither new nor done to
\* one where it is not new, keeps what holds of every manager if it throws no error.
LEMMA MoveKeeps ==
    ASSUME ComponentInv,
           NEW w \in C!Loops \cup {Host},
           NEW pc \in WorkerPlaces \ {"none", "running"},
           worker[w] \notin {"none", "done", "doneReady"},
           worker' = [worker EXCEPT ![w] = pc],
           UNCHANGED <<runner, restarts, cancelled, thrown, propagator, closed, failed>>,
           w = Host => worker[w] # "running"
    PROVE  ComponentInv'
<1>1. ASSUME NEW m \in C!Managers PROVE ManagerOK(m)'
  <2>1. ManagerOK(m)
    BY DEF ComponentInv
  <2>2. \A u \in C!Workers(m) : u # w => worker'[u] = worker[u]
    BY WorkersApart DEF ComponentInv
  <2>3. w \in C!Workers(m) =>
           propagator[m] \notin {"none", "starting"} /\ <<m, "workersDone">> \notin closed
    BY <2>1 DEF ManagerOK
  <2> QED BY <2>1, <2>2, <2>3 DEF ManagerOK
<1>2. worker' \in [C!Loops \cup {Host} -> WorkerPlaces]
  BY DEF ComponentInv
<1>3. worker'[Host] \in {"none", "running"} => propagator["inner"] = "none"
  BY WorkersApart DEF ComponentInv
<1> QED BY <1>1, <1>2, <1>3 DEF ComponentInv, C!TypeOK

\* Steps of the workers
LEMMA WorkersStep ==
    ASSUME ComponentInv,
           \/ \E w \in C!Loops : C!LoopReady(w) \/ C!LoopEnds(w)
           \/ C!HostWaits \/ C!HostReady \/ C!HostShutsDown \/ C!HostEnds
    PROVE  ComponentInv'
<1>1. ASSUME NEW w \in C!Loops, C!LoopReady(w) \/ C!LoopEnds(w)
      PROVE  ComponentInv'
  <2>1. w # Host
    BY WorkersApart
  <2>2. CASE C!LoopReady(w)
    BY <2>1, <2>2, MoveKeeps DEF C!LoopReady, C!Move, WorkerPlaces
  <2>3. CASE C!LoopEnds(w)
    <3>1. C!Ended(w) \in {"done", "doneReady"}
      BY DEF C!Ended
    <3> QED BY <2>1, <2>3, <3>1, MoveKeeps DEF C!LoopEnds, C!Move, WorkerPlaces
  <2> QED BY <1>1, <2>2, <2>3
<1>2. CASE C!HostWaits
  BY <1>2, MoveKeeps DEF C!HostWaits, C!Move, WorkerPlaces
<1>3. CASE C!HostReady
  BY <1>3, MoveKeeps DEF C!HostReady, C!Move, WorkerPlaces
<1>4. CASE C!HostShutsDown
  BY <1>4, MoveKeeps DEF C!HostShutsDown, C!Move, WorkerPlaces
<1>5. CASE C!HostEnds
  <2>1. C!Ended(Host) \in {"done", "doneReady"}
    BY DEF C!Ended
  <2> QED BY <1>5, <2>1, MoveKeeps DEF C!HostEnds, C!Move, WorkerPlaces
<1> QED BY <1>1, <1>2, <1>3, <1>4, <1>5

\* A worker that throws has not ended, so its manager has not seen all workers done.
LEMMA ThrowStep ==
    ASSUME ComponentInv, NEW w \in DOMAIN worker, C!Throw(w)
    PROVE  ComponentInv'
<1>1. w \in C!Loops \cup {Host}
  BY DEF ComponentInv
<1>2. C!Ended(w) \in {"done", "doneReady"}
  BY DEF C!Ended
<1>3. /\ worker[w] \in {"running", "ready", "starting"}
      /\ w = Host => worker[w] = "starting"
      /\ worker' = [worker EXCEPT ![w] = C!Ended(w)]
      /\ thrown' = thrown \cup {C!ManagerOf(w)} /\ failed' = failed \cup {C!ManagerOf(w)}
      /\ UNCHANGED <<runner, restarts, cancelled, propagator, closed>>
  BY WorkersApart DEF C!Throw, C!Move
<1>4. ASSUME NEW m \in C!Managers PROVE ManagerOK(m)'
  <2>1. ManagerOK(m)
    BY DEF ComponentInv
  <2>2. \A u \in C!Workers(m) : u # w => worker'[u] = worker[u]
    BY <1>3, WorkersApart DEF ComponentInv
  <2>3. worker'[w] \in {"done", "doneReady"}
    BY <1>1, <1>2, <1>3 DEF ComponentInv
  <2>4. CASE w \in C!Workers(m)
    <3>1. propagator[m] \notin {"none", "starting"} /\ <<m, "workersDone">> \notin closed
      BY <1>3, <2>1, <2>4 DEF ManagerOK
    <3> QED BY <1>3, <2>1, <3>1 DEF ManagerOK
  <2>5. CASE w \notin C!Workers(m)
    <3>1. C!ManagerOf(w) # m
      BY <1>1, <2>5, WorkersApart
    <3> QED BY <1>3, <2>1, <2>2, <2>5, <3>1 DEF ManagerOK
  <2> QED BY <2>4, <2>5
<1>5. worker' \in [C!Loops \cup {Host} -> WorkerPlaces]
  BY <1>1, <1>2, <1>3 DEF ComponentInv, WorkerPlaces
<1>6. worker'[Host] \in {"none", "running"} => propagator["inner"] = "none"
  BY <1>1, <1>2, <1>3 DEF ComponentInv
<1>7. C!ManagerOf(w) \in C!Managers
  BY <1>1, WorkersApart
<1>8. C!TypeOK'
  BY <1>3, <1>7 DEF ComponentInv, C!TypeOK, C!Managers
<1> QED BY <1>3, <1>4, <1>5, <1>6, <1>8 DEF ComponentInv

\* The host starts the inner component, which it has not done before.
LEMMA HostStartsStep ==
    ASSUME ComponentInv, C!HostStarts
    PROVE  ComponentInv'
<1>1. propagator["inner"] = "none"
  BY DEF ComponentInv, C!HostStarts
<1>2. /\ worker[Host] = "running"
      /\ worker' = [worker EXCEPT ![Host] = "waitReady"]
      /\ propagator' = [propagator EXCEPT !["inner"] = "starting"]
      /\ UNCHANGED <<runner, restarts, cancelled, thrown, closed, failed>>
  BY DEF C!HostStarts, C!Move
<1>3. \A m \in C!Managers : \A u \in C!Workers(m) : u # Host => worker'[u] = worker[u]
  BY <1>2, WorkersApart DEF ComponentInv
<1>4. ManagerOK("inner")'
  <2>1. ManagerOK("inner") /\ "inner" \in C!Managers
    BY DEF ComponentInv, C!Managers
  <2>2. Host \notin C!Workers("inner")
    BY <2>1, WorkersApart
  <2>3. propagator'["inner"] = "starting"
    BY <1>2, <2>1 DEF ComponentInv
  <2> QED BY <1>1, <1>2, <1>3, <2>1, <2>2, <2>3 DEF ManagerOK
<1>5. ManagerOK("outer")'
  <2>1. ManagerOK("outer") /\ "outer" \in C!Managers
    BY DEF ComponentInv, C!Managers
  <2>2. propagator'["outer"] = propagator["outer"]
    BY <1>2, <2>1 DEF ComponentInv
  <2>3. propagator["outer"] \notin {"none", "starting"} /\ <<"outer", "workersDone">> \notin closed
    BY <1>2, <2>1, WorkersApart DEF ManagerOK
  <2> QED BY <1>2, <1>3, <2>1, <2>2, <2>3 DEF ManagerOK
<1>6. worker' \in [C!Loops \cup {Host} -> WorkerPlaces] /\ worker'[Host] = "waitReady"
  BY <1>2 DEF ComponentInv, WorkerPlaces
<1>7. propagator' \in [C!Managers -> PropagatorPlaces]
  BY <1>2 DEF ComponentInv, PropagatorPlaces
<1>8. propagator'["outer"] = propagator["outer"]
  BY <1>2 DEF ComponentInv, C!Managers
<1> QED BY <1>2, <1>4, <1>5, <1>6, <1>7, <1>8 DEF ComponentInv, C!TypeOK, C!Managers

\* Steps of RunComponent, and the cancellation by its caller
LEMMA RunStep ==
    ASSUME ComponentInv,
           C!RunStart \/ C!RunWait \/ C!RunStop \/ C!RunHandle \/ C!Cancel
    PROVE  ComponentInv'
<1>1. CASE C!RunStart
  <2>1. CASE runner' = "returned"
    BY <1>1, <2>1 DEF C!RunStart, ComponentInv, C!TypeOK, ManagerOK
  <2>2. CASE runner' # "returned"
    <3>1. /\ runner' = "wait"
          /\ cancelled' = {} /\ thrown' = {} /\ closed' = {} /\ failed' = {}
          /\ propagator' = [m \in C!Managers |-> IF m = "outer" THEN "starting" ELSE "none"]
          /\ worker' = [w \in DOMAIN worker |-> "none"]
          /\ restarts' = restarts
      BY <1>1, <2>2 DEF C!RunStart
    <3>2. worker' = [w \in C!Loops \cup {Host} |-> "none"]
      BY <3>1 DEF ComponentInv
    <3>3. \A m \in C!Managers : propagator'[m] \in {"none", "starting"}
      BY <3>1
    <3>4. ASSUME NEW m \in C!Managers PROVE ManagerOK(m)'
      BY <3>1, <3>2, <3>3, WorkersApart DEF ManagerOK
    <3>5. worker' \in [C!Loops \cup {Host} -> WorkerPlaces]
      BY <3>2 DEF WorkerPlaces
    <3>6. propagator' \in [C!Managers -> PropagatorPlaces] /\ propagator'["inner"] = "none"
      BY <3>1 DEF PropagatorPlaces, C!Managers
    <3> QED BY <3>1, <3>4, <3>5, <3>6 DEF ComponentInv, C!TypeOK
  <2> QED BY <2>1, <2>2
<1>2. ManagerOK("outer")
  BY DEF ComponentInv, C!Managers
<1>3. CASE C!RunWait
  BY <1>2, <1>3 DEF C!RunWait, C!IsClosed, ComponentInv, C!TypeOK, ManagerOK
<1>4. CASE C!RunStop
  BY <1>4 DEF C!RunStop, ComponentInv, C!TypeOK, ManagerOK
<1>5. CASE C!RunHandle
  <2>1. restarts' \in 0..MaxRestarts /\ runner' \in {"start", "returned"}
    BY <1>5, WorkersApart DEF C!RunHandle, ComponentInv, C!TypeOK
  <2>2. <<"outer", "workersDone">> \in closed'
    BY <1>2, <1>5 DEF C!RunHandle, C!IsClosed, ManagerOK
  <2>3. UNCHANGED <<cancelled, thrown, propagator, closed, worker, failed>>
    BY <1>5 DEF C!RunHandle
  <2> QED BY <2>1, <2>2, <2>3 DEF ComponentInv, C!TypeOK, ManagerOK
<1>6. CASE C!Cancel
  BY <1>6 DEF C!Cancel, ComponentInv, C!TypeOK, ManagerOK
<1> QED BY <1>1, <1>3, <1>4, <1>5, <1>6

\* Start runs the workers of a manager that had none.
LEMMA StartStep ==
    ASSUME ComponentInv, NEW m \in C!Managers, C!Start(m)
    PROVE  ComponentInv'
<1>1. /\ propagator[m] = "starting"
      /\ propagator' = [propagator EXCEPT ![m] = "wait"]
      /\ worker' = [w \in C!Loops \cup {Host} |->
                       IF w \in C!Workers(m) THEN "running" ELSE worker[w]]
      /\ UNCHANGED <<runner, restarts, cancelled, thrown, closed, failed>>
  BY DEF C!Start, ComponentInv
<1>2. ASSUME NEW n \in C!Managers PROVE ManagerOK(n)'
  <2>1. ManagerOK(n)
    BY DEF ComponentInv
  <2>2. CASE n = m
    <3>1. propagator'[n] = "wait"
      BY <1>1, <2>2 DEF ComponentInv
    <3> QED BY <1>1, <2>1, <2>2, <3>1 DEF ManagerOK
  <2>3. CASE n # m
    <3>1. propagator'[n] = propagator[n]
      BY <1>1, <2>3 DEF ComponentInv
    <3>2. \A w \in C!Workers(n) : worker'[w] = worker[w]
      BY <1>1, <2>3, WorkersApart
    <3> QED BY <1>1, <2>1, <3>1, <3>2 DEF ManagerOK
  <2> QED BY <2>2, <2>3
<1>3. worker' \in [C!Loops \cup {Host} -> WorkerPlaces]
  BY <1>1 DEF ComponentInv, WorkerPlaces
<1>4. propagator' \in [C!Managers -> PropagatorPlaces]
  BY <1>1 DEF ComponentInv, PropagatorPlaces
<1>5. worker'[Host] \in {"none", "running"} => propagator'["inner"] = "none"
  <2>1. CASE m = "outer"
    <3>1. worker[Host] = "none"
      BY <1>1, <2>1, WorkersApart DEF ComponentInv, ManagerOK
    <3>2. propagator'["inner"] = propagator["inner"]
      BY <1>1, <2>1 DEF ComponentInv, C!Managers
    <3> QED BY <3>1, <3>2 DEF ComponentInv
  <2>2. CASE m # "outer"
    <3>1. m = "inner" /\ Host \notin C!Workers(m)
      BY <2>2, WorkersApart DEF C!Managers
    <3>2. worker'[Host] = worker[Host]
      BY <1>1, <3>1
    <3> QED BY <1>1, <3>1, <3>2 DEF ComponentInv
  <2> QED BY <2>1, <2>2
<1>6. runner \in {"start", "returned"} =>
         propagator'["outer"] = "none" \/ <<"outer", "workersDone">> \in closed
  <2>1. ManagerOK("outer")
    BY DEF ComponentInv, C!Managers
  <2>2. CASE m = "outer"
    BY <1>1, <2>1, <2>2 DEF ComponentInv, ManagerOK
  <2>3. CASE m # "outer"
    BY <1>1, <2>3 DEF ComponentInv, C!Managers
  <2> QED BY <2>2, <2>3
<1> QED BY <1>1, <1>2, <1>3, <1>4, <1>5, <1>6 DEF ComponentInv, C!TypeOK

\* The goroutines of a manager that close its channels
LEMMA CloseChannelStep ==
    ASSUME ComponentInv, NEW m \in C!Managers, NEW ch \in {"ready", "shutdown", "workersDone"},
           C!CloseChannel(m, ch)
    PROVE  ComponentInv'
<1>1. /\ propagator[m] \notin {"none", "starting"}
      /\ closed' = closed \cup {<<m, ch>>}
      /\ ch = "workersDone" => \A w \in C!Workers(m) : worker[w] \in {"done", "doneReady"}
      /\ UNCHANGED <<runner, restarts, cancelled, thrown, propagator, worker, failed>>
  BY DEF C!CloseChannel, C!Started, C!Close
<1>2. ASSUME NEW n \in C!Managers PROVE ManagerOK(n)'
  <2>1. ManagerOK(n)
    BY DEF ComponentInv
  <2>2. CASE n = m
    BY <1>1, <2>1, <2>2 DEF ManagerOK
  <2>3. CASE n # m
    BY <1>1, <2>1, <2>3 DEF ManagerOK
  <2> QED BY <2>2, <2>3
<1> QED BY <1>1, <1>2 DEF ComponentInv, C!TypeOK

\* The propagator: it goes on with the error thrown to the parent, or when the workers
\* are done and none of them has thrown.
LEMMA PropagatorStep ==
    ASSUME ComponentInv, NEW m \in C!Managers,
           C!WaitForError(m) \/ C!CancelWorkers(m) \/ C!CloseDone(m)
    PROVE  ComponentInv'
<1>1. PICK pc \in {"cancel", "closing", "ended"} :
         /\ propagator' = [propagator EXCEPT ![m] = pc]
         /\ propagator[m] \in {"wait", "cancel", "closing"}
         /\ UNCHANGED <<runner, restarts, worker, failed>>
  BY DEF C!WaitForError, C!CancelWorkers, C!CloseDone
<1>2. /\ cancelled' \subseteq cancelled \cup {m}
      /\ thrown \subseteq thrown' /\ thrown' \subseteq thrown \cup {C!ParentOf(m)}
      /\ closed \subseteq closed'
      /\ closed' \subseteq closed \cup {<<m, "done">>}
      /\ <<m, "done">> \in closed' /\ <<m, "done">> \notin closed =>
            <<m, "workersDone">> \in closed /\ propagator'[m] = "ended"
  BY DEF C!WaitForError, C!CancelWorkers, C!CloseDone, C!Close, C!IsClosed, ComponentInv
<1>3. C!ParentOf(m) \in thrown' \/ (m \notin failed /\ <<m, "workersDone">> \in closed)
  <2>1. CASE C!WaitForError(m)
    BY <2>1 DEF C!WaitForError, C!IsClosed, ComponentInv
  <2>2. CASE C!CancelWorkers(m) \/ C!CloseDone(m)
    <3>1. propagator[m] \in {"cancel", "closing"}
      BY <2>2 DEF C!CancelWorkers, C!CloseDone
    <3>2. ManagerOK(m)
      BY DEF ComponentInv
    <3> QED BY <1>2, <3>1, <3>2 DEF ManagerOK
  <2> QED BY <2>1, <2>2
<1>4. ASSUME NEW n \in C!Managers PROVE ManagerOK(n)'
  <2>1. ManagerOK(n)
    BY DEF ComponentInv
  <2>2. CASE n = m
    <3>1. propagator'[n] = pc
      BY <1>1, <2>2 DEF ComponentInv
    <3>2. <<n, "done">> \notin closed
      BY <1>1, <2>1, <2>2 DEF ManagerOK
    <3>3. <<n, "workersDone">> \in closed' => <<n, "workersDone">> \in closed
      BY <1>2
    <3> QED BY <1>1, <1>2, <1>3, <2>1, <2>2, <3>1, <3>2, <3>3 DEF ManagerOK
  <2>3. CASE n # m
    <3>1. propagator'[n] = propagator[n]
      BY <1>1, <2>3 DEF ComponentInv
    <3>2. \A c \in {"ready", "shutdown", "workersDone", "done"} :
             <<n, c>> \in closed' <=> <<n, c>> \in closed
      BY <1>2, <2>3
    <3> QED BY <1>1, <1>2, <2>1, <3>1, <3>2 DEF ManagerOK
  <2> QED BY <2>2, <2>3
<1>5. propagator' \in [C!Managers -> PropagatorPlaces]
  BY <1>1 DEF ComponentInv, PropagatorPlaces
<1>6. \A n \in C!Managers : propagator'[n] = "none" <=> propagator[n] = "none"
  BY <1>1 DEF ComponentInv
<1>7. C!TypeOK'
  BY <1>1, <1>2 DEF ComponentInv, C!TypeOK, C!Managers, C!ParentOf
<1> QED BY <1>1, <1>2, <1>4, <1>5, <1>6, <1>7 DEF ComponentInv, C!Managers

\* Every step of the composition keeps the invariant of Component.
LEMMA ComponentStep == ComponentInv /\ [Next]_vars => ComponentInv'
<1> SUFFICES ASSUME ComponentInv, [Next]_vars PROVE ComponentInv'
  OBVIOUS
<1>1. CASE C!Next
  <2>1. ASSUME NEW m \in C!Managers,
               \/ C!Start(m)
               \/ \E ch \in {"ready", "shutdown", "workersDone"} : C!CloseChannel(m, ch)
               \/ C!WaitForError(m) \/ C!CancelWorkers(m) \/ C!CloseDone(m)
        PROVE  ComponentInv'
    BY <2>1, StartStep, CloseChannelStep, PropagatorStep
  <2> QED BY <1>1, <2>1, RunStep, WorkersStep, HostStartsStep, ThrowStep DEF C!Next, C!Step
<1>2. CASE UNCHANGED component
  BY <1>2 DEF component, ComponentInv, C!TypeOK, ManagerOK
<1> QED BY <1>1, <1>2 DEF Next, vars, OnlyJobs, OnlyRequester, OnlyLedger

\* Component: an error of a worker reaches the parent before the component is done,
\* and RunComponent leaves no worker behind, for any number of workers and restarts.
THEOREM DoneIsFinalTheorem == Spec => []DoneIsFinal
<1>1. Init => ComponentInv
  BY ComponentInit DEF Init
<1>2. ComponentInv => DoneIsFinal
  <2> SUFFICES ASSUME ComponentInv PROVE DoneIsFinal
    OBVIOUS
  <2>1. C!ErrorReachesParent
    BY DEF ComponentInv, ManagerOK, C!ErrorReachesParent, C!IsClosed
  <2>2. C!NoWorkerLeft
    BY DEF ComponentInv, ManagerOK, C!NoWorkerLeft, C!Managers
  <2> QED BY <2>1, <2>2 DEF ComponentInv, DoneIsFinal
<1> QED BY <1>1, <1>2, ComponentStep, PTL DEF Spec

-----------------------------------------------------------------------------
(***************************************************************************)
(* Compactor.                                                              *)
(***************************************************************************)
Records == [segment : Nat, update : Updates]
SetAt == {"idle", "sent", "created", "failed", "set", "error"}
Results == {"none", "ok", "error"}

\* The log has a record of u.
Recorded(u) == \E i \in 1..Len(log) : log[i].update = u

\* A result "ok" is sent when the record is written, and Set returns without an
\* error when it has it.  A checkpoint that is due, under way or complete is for
\* a segment before the open one.
LedgerInv ==
    /\ log \in Seq(Records) /\ trieUpdateCh \in Seq(Updates)
    /\ \A i \in 1..Len(log) : log[i].segment <= lastSegment
    /\ setter \in [Updates -> SetAt] /\ resultCh \in [Updates -> Results]
    /\ \A u \in Updates : setter[u] = "set" \/ resultCh[u] = "ok" => Recorded(u)
    /\ lastSegment \in Nat /\ activeSegmentNum \in 0..lastSegment
    /\ nextCheckpointNum \in Nat
    /\ DOMAIN checkpoints \subseteq 0..(lastSegment - 1)
    /\ \A c \in toStart : c.num \in 0..(lastSegment - 1)
    /\ {"step", "num"} \subseteq DOMAIN job
    /\ job.step = "create" => job.num \in 0..(lastSegment - 1)

\* What is assumed of the compactor's constants.
LEMMA LedgerConstants == CheckpointDistance \in Nat \ {0}
BY ServicesAssumption DEF ServicesAssumption, L!ConstantsAssumption

\* Init of Compactor establishes the invariant.
LEMMA LedgerInit == L!Init => LedgerInv
<1> SUFFICES ASSUME L!Init PROVE LedgerInv
  OBVIOUS
<1> USE LedgerConstants DEF L!Init
<1>1. log \in Seq(Records) /\ trieUpdateCh \in Seq(Updates) /\ Len(log) = 0
  OBVIOUS
<1>2. setter \in [Updates -> SetAt] /\ resultCh \in [Updates -> Results]
  BY DEF SetAt, Results
<1>3. \A u \in Updates : setter[u] # "set" /\ resultCh[u] # "ok"
  OBVIOUS
<1>4. DOMAIN checkpoints = {}
  OBVIOUS
<1>5. {"step", "num"} \subseteq DOMAIN job /\ job.step # "create"
  BY DEF L!NoJob
<1> QED BY <1>1, <1>2, <1>3, <1>4, <1>5 DEF LedgerInv

\* A trie is created, and Set returns when it has the result of the write.
LEMMA SetStep ==
    ASSUME LedgerInv, NEW u \in Updates, L!Send(u) \/ L!NewTrie(u) \/ L!Return(u)
    PROVE  LedgerInv'
<1> USE DEF L!files, L!compactor, L!checkpointing, L!control
<1>0. /\ setter \in [Updates -> SetAt] /\ trieUpdateCh \in Seq(Updates)
      /\ Append(trieUpdateCh, u) \in Seq(Updates)
  BY DEF LedgerInv
<1>1. CASE L!Send(u)
  <2>1. UNCHANGED <<log, lastSegment, checkpoints, resultCh, activeSegmentNum,
                    nextCheckpointNum, toStart, job>>
    BY <1>1 DEF L!Send
  <2>2. trieUpdateCh' \in Seq(Updates) /\ setter' = [setter EXCEPT ![u] = "sent"]
    BY <1>0, <1>1 DEF L!Send
  <2>3. /\ setter' \in [Updates -> SetAt]
        /\ \A v \in Updates : setter'[v] = "set" => setter[v] = "set"
    BY <1>0, <2>2 DEF SetAt
  <2> QED BY <2>1, <2>2, <2>3 DEF LedgerInv, Recorded
<1>2. CASE L!NewTrie(u)
  <2>1. UNCHANGED <<log, lastSegment, checkpoints, trieUpdateCh, resultCh, activeSegmentNum,
                    nextCheckpointNum, toStart, job>>
    BY <1>2 DEF L!NewTrie
  <2>2. PICK at \in {"created", "failed"} : setter' = [setter EXCEPT ![u] = at]
    BY <1>2 DEF L!NewTrie
  <2>3. /\ setter' \in [Updates -> SetAt]
        /\ \A v \in Updates : setter'[v] = "set" => setter[v] = "set"
    BY <1>0, <2>2 DEF SetAt
  <2> QED BY <2>1, <2>3 DEF LedgerInv, Recorded
<1>3. CASE L!Return(u)
  <2>1. UNCHANGED <<log, lastSegment, checkpoints, trieUpdateCh, resultCh, activeSegmentNum,
                    nextCheckpointNum, toStart, job>>
    BY <1>3 DEF L!Return
  <2>2. \/ resultCh[u] = "ok" /\ setter' = [setter EXCEPT ![u] = "set"]
        \/ setter' = [setter EXCEPT ![u] = "error"]
    BY <1>3 DEF L!Return
  <2>3. /\ setter' \in [Updates -> SetAt]
        /\ \A v \in Updates : setter'[v] = "set" => setter[v] = "set" \/ resultCh[v] = "ok"
    BY <1>0, <2>2 DEF SetAt
  <2> QED BY <2>1, <2>3 DEF LedgerInv, Recorded
<1> QED BY <1>1, <1>2, <1>3

\* A record is appended to the open segment or to a new one, and then the result
\* sent; or writing fails.
LEMMA RecordStep ==
    ASSUME LedgerInv, trieUpdateCh # <<>>, L!RecordUpdate(Head(trieUpdateCh))
    PROVE  /\ log' \in Seq(Records) /\ trieUpdateCh' \in Seq(Updates)
           /\ \A i \in 1..Len(log') : log'[i].segment <= lastSegment'
           /\ resultCh' \in [Updates -> Results]
           /\ \A u \in Updates : setter[u] = "set" \/ resultCh'[u] = "ok" => Recorded(u)'
           /\ lastSegment' \in Nat /\ lastSegment' >= lastSegment
<1>0. PICK u \in Updates : u = Head(trieUpdateCh)
  BY DEF LedgerInv
<1> DEFINE r == [segment |-> lastSegment', update |-> u]
<1>1. L!RecordUpdate(u) /\ trieUpdateCh' \in Seq(Updates)
  BY <1>0 DEF LedgerInv, L!RecordUpdate
<1>2. CASE resultCh' = [resultCh EXCEPT ![u] = "error"] /\ UNCHANGED <<log, lastSegment>>
  <2>1. /\ resultCh' \in [Updates -> Results]
        /\ \A v \in Updates : resultCh'[v] = "ok" => resultCh[v] = "ok"
    BY <1>1, <1>2 DEF LedgerInv, Results
  <2>2. /\ log' \in Seq(Records) /\ lastSegment' \in Nat /\ lastSegment' >= lastSegment
        /\ \A i \in 1..Len(log') : log'[i].segment <= lastSegment'
    BY <1>2 DEF LedgerInv
  <2>3. \A v \in Updates : Recorded(v) => Recorded(v)'
    BY <1>2 DEF Recorded
  <2> QED BY <1>1, <2>1, <2>2, <2>3 DEF LedgerInv
<1>3. CASE /\ lastSegment' \in {lastSegment, lastSegment + 1} \cap (0..MaxSegment)
           /\ log' = Append(log, r)
           /\ resultCh' = [resultCh EXCEPT ![u] = "ok"]
  <2>1. lastSegment \in Nat /\ lastSegment' \in Nat /\ lastSegment' >= lastSegment
    BY <1>3 DEF LedgerInv
  <2>2. r \in Records
    BY <1>1, <2>1 DEF Records
  <2> HIDE DEF r
  <2>3. log \in Seq(Records)
    BY DEF LedgerInv
  <2>4. /\ log' \in Seq(Records) /\ Len(log) \in Nat /\ Len(log') = Len(log) + 1
        /\ \A i \in 1..Len(log) : log'[i] = log[i]
        /\ log'[Len(log) + 1] = r
    BY <1>3, <2>2, <2>3 DEF r
  <2>5. ASSUME NEW i \in 1..Len(log) PROVE log[i].segment \in Nat /\ log[i].segment <= lastSegment
    <3>1. log[i] \in Records
      BY <2>3
    <3> QED BY <3>1 DEF LedgerInv, Records
  <2>6. r.segment = lastSegment' /\ r.update = u
    BY DEF r
  <2>7. ASSUME NEW i \in 1..Len(log') PROVE log'[i].segment <= lastSegment'
    <3>1. CASE i \in 1..Len(log)
      BY <3>1, <2>1, <2>4, <2>5
    <3>2. CASE i = Len(log) + 1
      BY <3>2, <2>1, <2>4, <2>6
    <3> QED BY <3>1, <3>2, <2>4
  <2>8. Recorded(u)'
    BY <2>4, <2>6 DEF Recorded
  <2>9. ASSUME NEW v \in Updates, Recorded(v) PROVE Recorded(v)'
    BY <2>9, <2>4 DEF Recorded
  <2>10. ASSUME NEW v \in Updates, setter[v] = "set" \/ resultCh'[v] = "ok"
         PROVE  Recorded(v)'
    <3>1. CASE v = u
      BY <3>1, <2>8
    <3>2. CASE v # u
      BY <3>2, <2>10, <1>3, <1>1, <2>9 DEF LedgerInv
    <3> QED BY <3>1, <3>2
  <2>11. resultCh' \in [Updates -> Results]
    BY <1>3 DEF LedgerInv, Results
  <2> QED BY <1>1, <2>1, <2>4, <2>7, <2>10, <2>11
<1> QED BY <1>1, <1>2, <1>3 DEF L!RecordUpdate

\* The latest checkpoint is the one with the highest number, or -1 if there is none.
LEMMA LatestExists ==
    ASSUME LedgerInv
    PROVE  L!Latest \in {-1} \cup DOMAIN checkpoints
<1> DEFINE D == DOMAIN checkpoints
           S == {lastSegment - n : n \in D}
<1>1. lastSegment \in Nat /\ D \subseteq 0..(lastSegment - 1)
  BY DEF LedgerInv
<1>2. \E n \in {-1} \cup D : \A m \in D : n >= m
  <2>1. CASE D = {}
    BY <2>1
  <2>2. CASE D # {}
    <3>1. S \in SUBSET Nat /\ S # {}
      BY <1>1, <2>2
    <3> HIDE DEF S
    <3>2. PICK x \in S : \A y \in S : x <= y
      BY <3>1, LeastNatural
    <3>3. PICK n \in D : x = lastSegment - n
      BY DEF S
    <3>4. ASSUME NEW m \in D PROVE n >= m
      <4>1. lastSegment - m \in S
        BY DEF S
      <4>2. lastSegment - n <= lastSegment - m
        BY <3>2, <3>3, <4>1
      <4> QED BY <4>2, <1>1
    <3> QED BY <3>4
  <2> QED BY <2>1, <2>2
<1> HIDE DEF D
<1>3. (CHOOSE n \in {-1} \cup D : \A m \in D : n >= m) \in {-1} \cup D
  BY <1>2
<1> QED BY <1>3 DEF D, L!Latest

\* The loop writes a record.  A checkpoint is due when that opened a new segment, and
\* then for a segment up to the one that is now finished.
LEMMA ProcessUpdateStep == LedgerInv /\ L!ProcessTrieUpdate => LedgerInv'
<1> SUFFICES ASSUME LedgerInv, L!ProcessTrieUpdate PROVE LedgerInv'
  OBVIOUS
<1> DEFINE next == IF trigger /\ nextCheckpointNum >= activeSegmentNum
                   THEN activeSegmentNum ELSE nextCheckpointNum
<1>1. trieUpdateCh # <<>> /\ L!RecordUpdate(Head(trieUpdateCh))
  BY DEF L!ProcessTrieUpdate
<1>2. /\ log' \in Seq(Records) /\ trieUpdateCh' \in Seq(Updates)
      /\ \A i \in 1..Len(log') : log'[i].segment <= lastSegment'
      /\ resultCh' \in [Updates -> Results]
      /\ \A u \in Updates : setter[u] = "set" \/ resultCh'[u] = "ok" => Recorded(u)'
      /\ lastSegment' \in Nat /\ lastSegment' >= lastSegment
  BY <1>1, RecordStep
<1>3. /\ UNCHANGED <<checkpoints, setter, job>>
      /\ nextCheckpointNum' = next
      /\ activeSegmentNum' \in {lastSegment', activeSegmentNum}
      /\ toStart' = IF activeSegmentNum' # activeSegmentNum /\ next <= activeSegmentNum
                    THEN {[num |-> next, tries |-> trieQueue]} ELSE {}
  BY DEF L!ProcessTrieUpdate, L!checkpointing
<1>4. /\ lastSegment \in Nat /\ activeSegmentNum \in 0..lastSegment /\ next \in Nat
      /\ DOMAIN checkpoints \subseteq 0..(lastSegment - 1)
      /\ {"step", "num"} \subseteq DOMAIN job
      /\ job.step = "create" => job.num \in 0..(lastSegment - 1)
  BY DEF LedgerInv
<1> HIDE DEF next
<1>5. activeSegmentNum' \in 0..lastSegment' /\ nextCheckpointNum' \in Nat
  BY <1>2, <1>3, <1>4
<1>6. ASSUME NEW c \in toStart' PROVE c.num \in 0..(lastSegment' - 1)
  <2>1. PICK n \in Nat : n = next
    BY <1>4
  <2>2. n <= activeSegmentNum /\ activeSegmentNum < lastSegment'
    BY <2>1, <1>2, <1>3, <1>4
  <2>3. activeSegmentNum \in Nat /\ lastSegment' \in Nat
    BY <1>2, <1>4
  <2>4. PICK k \in Nat : k = lastSegment'
    BY <2>3
  <2>5. n < k
    BY <2>2, <2>3, <2>4
  <2>6. n \in 0..(k - 1)
    BY <2>5
  <2>7. c.num = n
    BY <2>1, <1>3
  <2> QED BY <2>4, <2>6, <2>7
<1>7. /\ DOMAIN checkpoints' \subseteq 0..(lastSegment' - 1)
      /\ job'.step = "create" => job'.num \in 0..(lastSegment' - 1)
      /\ {"step", "num"} \subseteq DOMAIN job'
  BY <1>2, <1>3, <1>4
<1>8. setter' \in [Updates -> SetAt] /\ setter' = setter
  BY <1>3 DEF LedgerInv
<1> QED BY <1>2, <1>5, <1>6, <1>7, <1>8 DEF LedgerInv

\* What is left in the channel at a shutdown is recorded the same way.
LEMMA DrainStep == LedgerInv /\ L!Drain => LedgerInv'
<1> SUFFICES ASSUME LedgerInv, L!Drain PROVE LedgerInv'
  OBVIOUS
<1>1. trieUpdateCh # <<>> /\ L!RecordUpdate(Head(trieUpdateCh))
  BY DEF L!Drain
<1>2. /\ log' \in Seq(Records) /\ trieUpdateCh' \in Seq(Updates)
      /\ \A i \in 1..Len(log') : log'[i].segment <= lastSegment'
      /\ resultCh' \in [Updates -> Results]
      /\ \A u \in Updates : setter[u] = "set" \/ resultCh'[u] = "ok" => Recorded(u)'
      /\ lastSegment' \in Nat /\ lastSegment' >= lastSegment
  BY <1>1, RecordStep
<1>3. UNCHANGED <<checkpoints, setter, job, nextCheckpointNum, activeSegmentNum, toStart>>
  BY DEF L!Drain, L!checkpointing, L!compactor
<1>4. /\ lastSegment \in Nat /\ activeSegmentNum \in 0..lastSegment /\ nextCheckpointNum \in Nat
      /\ DOMAIN checkpoints \subseteq 0..(lastSegment - 1)
      /\ \A c \in toStart : c.num \in 0..(lastSegment - 1)
      /\ {"step", "num"} \subseteq DOMAIN job
      /\ job.step = "create" => job.num \in 0..(lastSegment - 1)
      /\ setter \in [Updates -> SetAt]
  BY DEF LedgerInv
<1>5. /\ activeSegmentNum' \in 0..lastSegment' /\ nextCheckpointNum' \in Nat
      /\ DOMAIN checkpoints' \subseteq 0..(lastSegment' - 1)
      /\ \A c \in toStart' : c.num \in 0..(lastSegment' - 1)
      /\ {"step", "num"} \subseteq DOMAIN job'
      /\ job'.step = "create" => job'.num \in 0..(lastSegment' - 1)
  BY <1>2, <1>3, <1>4
<1> QED BY <1>2, <1>3, <1>4, <1>5 DEF LedgerInv

\* The checkpoint that is due is started or put off.
LEMMA AwaitStep == LedgerInv /\ L!AwaitTrie => LedgerInv'
<1> SUFFICES ASSUME LedgerInv, L!AwaitTrie PROVE LedgerInv'
  OBVIOUS
<1>1. /\ UNCHANGED <<log, lastSegment, checkpoints, setter, trieUpdateCh, resultCh,
                     activeSegmentNum>>
      /\ toStart' = {} /\ L!StartCheckpoint
  BY DEF L!AwaitTrie, L!files, L!calls
<1>2. /\ nextCheckpointNum' \in Nat
      /\ {"step", "num"} \subseteq DOMAIN job'
      /\ job'.step = "create" => job'.num \in 0..(lastSegment - 1)
  <2>1. CASE UNCHANGED <<nextCheckpointNum, job>>
    BY <2>1 DEF LedgerInv
  <2>2. ASSUME NEW c \in toStart,
               IF job = L!NoJob
               THEN /\ job' = [step |-> "create", num |-> c.num, tries |-> c.tries]
                    /\ nextCheckpointNum' = c.num + CheckpointDistance
               ELSE nextCheckpointNum' = activeSegmentNum /\ UNCHANGED job
        PROVE  /\ nextCheckpointNum' \in Nat
               /\ {"step", "num"} \subseteq DOMAIN job'
               /\ job'.step = "create" => job'.num \in 0..(lastSegment - 1)
    <3>1. c.num \in 0..(lastSegment - 1) /\ lastSegment \in Nat
      BY DEF LedgerInv
    <3>2. c.num + CheckpointDistance \in Nat /\ activeSegmentNum \in Nat
      BY <3>1, LedgerConstants DEF LedgerInv
    <3> QED BY <2>2, <3>1, <3>2 DEF LedgerInv
  <2>3. \/ UNCHANGED <<nextCheckpointNum, job>>
        \/ \E c \in toStart :
              IF job = L!NoJob
              THEN /\ job' = [step |-> "create", num |-> c.num, tries |-> c.tries]
                   /\ nextCheckpointNum' = c.num + CheckpointDistance
              ELSE nextCheckpointNum' = activeSegmentNum /\ UNCHANGED job
    BY <1>1 DEF L!StartCheckpoint
  <2> QED BY <2>1, <2>2, <2>3
<1> QED BY <1>1, <1>2 DEF LedgerInv, Recorded

\* The checkpoint goroutine writes the checkpoint it was started for and removes
\* old ones.
LEMMA CheckpointStep ==
    ASSUME LedgerInv, L!CreateCheckpoint \/ L!CleanupCheckpoints \/ L!SendResult \/ L!Release
    PROVE  LedgerInv'
<1> USE DEF L!files, L!calls, L!compactor
<1>1. UNCHANGED <<log, lastSegment, setter, trieUpdateCh, resultCh, activeSegmentNum,
                  nextCheckpointNum, toStart>>
  BY DEF L!CreateCheckpoint, L!CleanupCheckpoints, L!SendResult, L!Release
<1>2. /\ DOMAIN checkpoints' \subseteq 0..(lastSegment - 1)
      /\ {"step", "num"} \subseteq DOMAIN job'
      /\ job'.step # "create" \/ job' = job
  <2>0. /\ DOMAIN checkpoints \subseteq 0..(lastSegment - 1)
        /\ {"step", "num"} \subseteq DOMAIN job
        /\ job.step = "create" => job.num \in 0..(lastSegment - 1)
    BY DEF LedgerInv
  <2>1. ASSUME NEW from, NEW to \in {"ok", "cleanup", "createError", "removeError"},
               L!JobStep(from, to)
        PROVE  /\ {"step", "num"} \subseteq DOMAIN job'
               /\ job'.step # "create" /\ job.step = from
    BY <2>0, <2>1 DEF L!JobStep
  <2>2. CASE L!CreateCheckpoint
    <3>1. CASE /\ L!JobStep("create", IF loop \in {"drain", "stopped"} THEN "ok" ELSE "cleanup")
               /\ checkpoints' = [n \in {job.num} \cup DOMAIN checkpoints |->
                                     IF n = job.num THEN job.tries ELSE checkpoints[n]]
      <4>1. DOMAIN checkpoints' = {job.num} \cup DOMAIN checkpoints
        BY <3>1
      <4>2. job.step = "create"
        BY <3>1 DEF L!JobStep
      <4> QED BY <3>1, <4>1, <4>2, <2>0, <2>1
    <3>2. CASE L!JobStep("create", "createError") /\ UNCHANGED checkpoints
      BY <3>2, <2>0, <2>1
    <3> QED BY <2>2, <3>1, <3>2 DEF L!CreateCheckpoint
  <2>3. CASE L!CleanupCheckpoints
    <3>1. DOMAIN checkpoints' \subseteq DOMAIN checkpoints
      BY <2>3 DEF L!CleanupCheckpoints
    <3>2. PICK to \in {"ok", "cleanup", "removeError"} : L!JobStep("cleanup", to)
      BY <2>3 DEF L!CleanupCheckpoints
    <3> QED BY <3>1, <3>2, <2>0, <2>1
  <2>4. CASE L!SendResult
    BY <2>4, <2>0 DEF L!SendResult
  <2>5. CASE L!Release
    BY <2>5, <2>0 DEF L!Release, L!NoJob
  <2> QED BY <2>2, <2>3, <2>4, <2>5
<1> QED BY <1>1, <1>2 DEF LedgerInv, Recorded

\* A restart opens a new segment and continues from the latest checkpoint.  What is
\* executed stays executed and was in the log.
LEMMA RestartStep == LedgerInv /\ L!Crash => LedgerInv'
<1> SUFFICES ASSUME LedgerInv, L!Crash PROVE LedgerInv'
  OBVIOUS
<1>1. /\ lastSegment' = lastSegment + 1 /\ UNCHANGED <<log, checkpoints>>
      /\ trieUpdateCh' = <<>> /\ resultCh' = [u \in Updates |-> "none"] /\ job' = L!NoJob
      /\ L!StartCompactor(L!Recovered, lastSegment')
  BY DEF L!Crash
<1>2. PICK executed \in SUBSET {u \in Updates : setter[u] = "set"} :
           setter' = [u \in Updates |-> IF u \in executed THEN "set" ELSE "idle"]
  BY DEF L!Crash
<1>3. /\ setter' \in [Updates -> SetAt] /\ resultCh' \in [Updates -> Results]
      /\ \A u \in Updates : setter'[u] = "set" => setter[u] = "set"
      /\ \A u \in Updates : resultCh'[u] # "ok"
  BY <1>1, <1>2 DEF SetAt, Results
<1>4. /\ lastSegment \in Nat /\ DOMAIN checkpoints \subseteq 0..(lastSegment - 1)
      /\ log \in Seq(Records)
      /\ L!Latest \in {-1} \cup DOMAIN checkpoints
  BY LatestExists DEF LedgerInv
<1>5. /\ activeSegmentNum' = lastSegment + 1 /\ toStart' = {}
      /\ nextCheckpointNum' \in {lastSegment + 1, L!Latest + CheckpointDistance}
  BY <1>1 DEF L!StartCompactor
<1>6. L!Latest + CheckpointDistance \in Nat
  BY <1>4, LedgerConstants
<1>7. /\ lastSegment' \in Nat /\ activeSegmentNum' \in 0..lastSegment'
      /\ nextCheckpointNum' \in Nat
      /\ DOMAIN checkpoints' \subseteq 0..(lastSegment' - 1)
  BY <1>1, <1>4, <1>5, <1>6
<1>8. {"step", "num"} \subseteq DOMAIN job' /\ job'.step # "create"
  BY <1>1 DEF L!NoJob
<1>9. ASSUME NEW i \in 1..Len(log') PROVE log'[i].segment <= lastSegment'
  <2>1. i \in 1..Len(log) /\ log'[i] = log[i]
    BY <1>1
  <2>2. log[i].segment \in Nat /\ log[i].segment <= lastSegment
    <3>1. log[i] \in Records
      BY <1>4, <2>1
    <3> QED BY <3>1, <2>1 DEF LedgerInv, Records
  <2> QED BY <2>1, <2>2, <1>1, <1>4
<1>10. \A u \in Updates : Recorded(u) => Recorded(u)'
  BY <1>1 DEF Recorded
<1>11. log' \in Seq(Records) /\ trieUpdateCh' \in Seq(Updates)
  BY <1>1, <1>4
<1>12. \A u \in Updates : setter'[u] = "set" \/ resultCh'[u] = "ok" => Recorded(u)'
  BY <1>3, <1>10 DEF LedgerInv
<1> QED BY <1>3, <1>5, <1>7, <1>8, <1>9, <1>11, <1>12 DEF LedgerInv

\* Every step of the composition keeps the invariant of Compactor.
LEMMA LedgerStep == LedgerInv /\ [Next]_vars => LedgerInv'
<1> SUFFICES ASSUME LedgerInv, [Next]_vars PROVE LedgerInv'
  OBVIOUS
<1>1. CASE L!TriggerCheckpoint \/ L!Shutdown \/ L!CloseUpdates \/ L!Stop \/ L!Stopped
  <2>1. UNCHANGED <<log, lastSegment, checkpoints, setter, trieUpdateCh, resultCh,
                    activeSegmentNum, nextCheckpointNum, toStart, job>>
    BY <1>1 DEF L!TriggerCheckpoint, L!Shutdown, L!CloseUpdates, L!Stop, L!Stopped, L!files,
                L!calls, L!compactor, L!checkpointing
  <2> QED BY <2>1 DEF LedgerInv, Recorded
<1>2. CASE L!ReceiveResult
  <2>1. UNCHANGED <<log, lastSegment, checkpoints, setter, trieUpdateCh, resultCh,
                    activeSegmentNum, toStart, job>>
    BY <1>2 DEF L!ReceiveResult, L!files, L!calls
  <2>2. nextCheckpointNum' \in Nat
    BY <1>2 DEF L!ReceiveResult, LedgerInv
  <2> QED BY <2>1, <2>2 DEF LedgerInv, Recorded
<1>3. CASE UNCHANGED ledger
  <2>1. UNCHANGED <<log, lastSegment, checkpoints, setter, trieUpdateCh, resultCh,
                    activeSegmentNum, nextCheckpointNum, toStart, job>>
    BY <1>3 DEF ledger
  <2> QED BY <2>1 DEF LedgerInv, Recorded
<1>4. CASE L!Next
  BY <1>1, <1>2, <1>4, SetStep, ProcessUpdateStep, DrainStep, AwaitStep, CheckpointStep, RestartStep
     DEF L!Next, L!Step
<1> QED BY <1>3, <1>4 DEF Next, vars, OnlyJobs, OnlyComponent, OnlyRequester

\* Compactor: wherever the process stops and whichever writes fail, an update whose Set has
\* returned without an error is in the log, and checkpoints are for segments to which
\* nothing is added any more, so that no record written later is taken for one
\* that a checkpoint covers.
THEOREM DurableTheorem == Spec => []L!Durable
<1>1. Init => LedgerInv
  BY LedgerInit DEF Init
<1>2. LedgerInv => L!Durable
  <2> SUFFICES ASSUME LedgerInv PROVE L!Durable
    OBVIOUS
  <2>1. \A u \in Updates : setter[u] = "set" => \E i \in 1..Len(log) : log[i].update = u
    BY DEF LedgerInv, Recorded
  <2>2. \A n \in DOMAIN checkpoints : n < lastSegment
    BY DEF LedgerInv
  <2>3. /\ \A i \in 1..Len(log) : log[i].segment <= lastSegment
        /\ job.step = "create" => job.num < lastSegment
    BY DEF LedgerInv
  <2> QED BY <2>1, <2>2, <2>3 DEF L!Durable
<1> QED BY <1>1, <1>2, LedgerStep, PTL DEF Spec

=============================================================================
